------------------------------- MODULE Frames -------------------------------
(***************************************************************************)
(* frame.Frame: a window (off, len, cap) over column memory.  The columns  *)
(* of a row are kept together in a tuple <<key, value>>, so that the       *)
(* memory of a frame is one sequence of rows; the prefix is the key.       *)
(* Frames have value semantics here.  Where the code has two frames over   *)
(* the same memory (a combining frame's data and scratch), the model keeps *)
(* one and derives the other with Slice.                                   *)
(***************************************************************************)
EXTENDS Integers, Sequences, SequencesExt

\* The zero row a fresh frame is filled with.
Zero == <<0, 0>>

\* frame.Make.
Make(len, cap) ==
  [mem |-> [i \in 1..cap |-> Zero], off |-> 0, len |-> len, cap |-> cap]

\* frame.Slices and frame.Values: a frame over existing column slices.
Slices(rows) ==
  [mem |-> rows, off |-> 0, len |-> Len(rows), cap |-> Len(rows)]

\* Frame.Slice(i, j): bounded by the capacity, not by the length.
Slice(f, i, j) ==
  [f EXCEPT !.off = @ + i, !.len = j - i, !.cap = @ - i]

\* The rows a frame shows.
Rows(f) == SubSeq(f.mem, f.off + 1, f.off + f.len)

\* Memory with rows written after position off.
Written(mem, off, rows) ==
  SubSeq(mem, 1, off) \o rows \o SubSeq(mem, off + Len(rows) + 1, Len(mem))

\* frame.Copy(dst, src), as the new dst; Copied is the count it returns.
Copied(dst, src) == Min({dst.len, src.len})
Copy(dst, src) ==
  [dst EXCEPT !.mem = Written(dst.mem, dst.off, SubSeq(Rows(src), 1, Copied(dst, src)))]

\* The capacity frame.grow settles on: at least i1, by doubling (lengths
\* from 1024 on, which grow by a quarter, are beyond every bound used).
RECURSIVE GrownCap(_, _)
GrownCap(m, i1) == IF m >= i1 THEN m ELSE GrownCap(2 * m, i1)

\* Frame.grow: room for need more rows, in place when the capacity allows.
Grow(f, need) ==
  LET i1 == f.len + need
      m  == IF f.cap = 0 THEN need ELSE GrownCap(f.cap, i1)
  IN IF i1 <= f.cap THEN Slice(f, 0, i1) ELSE Copy(Make(i1, m), f)

\* Frame.Ensure.
Ensure(f, n) ==
  CASE f.len = n -> f
    [] f.len # n /\ n <= f.cap -> Slice(f, 0, n)
    [] OTHER -> Grow(f, n - f.len)

\* frame.AppendFrame; a zero dst is an empty frame of no capacity.
AppendFrame(dst, src) ==
  LET g == Grow(dst, src.len)
  IN [g EXCEPT !.mem = Copy(Slice(g, dst.len, g.len), src).mem]

\* Frame.Swap(i, j).  The offset is subtracted, as in the code; every
\* caller swaps in a frame of offset 0.
Swap(f, i, j) ==
  LET a == i - f.off + 1  b == j - f.off + 1
  IN [f EXCEPT !.mem[a] = f.mem[b], !.mem[b] = f.mem[a]]

\* Frame.Less(i, j): by the key column.
Less(f, i, j) == f.mem[i + f.off + 1][1] < f.mem[j + f.off + 1][1]

\* Frame.Index(col, i) of the value column, and its Set.
Value(f, i) == f.mem[i + f.off + 1][2]
SetValue(f, i, v) == [f EXCEPT !.mem[i + f.off + 1][2] = v]

\* sort.Sort(frame): container order by Less, ties in any order.
Sort(f) ==
  [f EXCEPT !.mem = Written(f.mem, f.off, SortSeq(Rows(f), LAMBDA a, b : a[1] < b[1]))]

=============================================================================
