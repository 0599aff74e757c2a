------------------------------- MODULE SortIO -------------------------------
(***************************************************************************)
(* Package sortio: sorting with spills, merging, and the merge that        *)
(* combines the values of a key.                                           *)
(***************************************************************************)
EXTENDS SliceIO, Frames

CONSTANTS ChunkSize,        \* defaultChunksize
          SortCanary,       \* rows of the first sorted run
          BytesPerRow,      \* encoded size of a row, as the spiller reports it
          SpillTarget,      \* bytes SortReader aims at for a spill file
          Combiner(_, _)    \* the user's combining function

-----------------------------------------------------------------------------
(* FrameBuffer: rows read from in, index of the next; id is the position   *)
(* (Off) of the buffer among its siblings.                                 *)

FrameBuffer(r, cap, id) ==
  [in |-> r, cap |-> cap, id |-> id, rows |-> <<>>, index |-> 0]

Current(b) == b.rows[b.index + 1]
Key(b) == Current(b)[1]

\* heap.Fix, heap.Init (container/heap): a buffer with the least key first.
Fix(h) ==
  IF h = <<>> THEN h
  ELSE LET i == CHOOSE j \in DOMAIN h : \A l \in DOMAIN h : Key(h[j]) <= Key(h[l])
       IN <<h[i]>> \o SubSeq(h, 1, i - 1) \o SubSeq(h, i + 1, Len(h))

\* The heap after the front buffer has moved past its row: put back in its
\* place, or removed at EOF.
Moved(h, x) == IF x.err = "EOF" THEN Fix(Tail(h)) ELSE Fix(<<x.buf>> \o Tail(h))

-----------------------------------------------------------------------------
(* sort.go: mergeReader and SortReader *)

\* The length of the next run: revised when more than 5% off the estimate.
NextRun(f) ==
  LET target == Max({SpillTarget \div BytesPerRow, SpillBatchSize})
      off    == IF f.len > target THEN f.len - target ELSE target - f.len
  IN IF 20 * off > target THEN Ensure(f, target) ELSE f

-----------------------------------------------------------------------------
(* reader.go: Reduce merges sorted readers whose keys are unique and       *)
(* combines the values of a key.                                           *)

Reduce(readers) ==
  [k |-> "reduce", readers |-> readers, heap |-> <<>>, open |-> FALSE, err |-> "nil"]

\* The buffers popped for one key: those of the front's key.
SameKey(h) == SelectSeq(h, LAMBDA b : Key(b) <= Key(Head(h)))
Others(h)  == SelectSeq(h, LAMBDA b : Key(b) > Key(Head(h)))

CombinedValue(bufs) ==
  FoldLeft(LAMBDA v, b : Combiner(v, Current(b)[2]),
           Current(Head(bufs))[2], Tail(bufs))

=============================================================================
