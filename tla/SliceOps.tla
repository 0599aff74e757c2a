------------------------------ MODULE SliceOps ------------------------------
(***************************************************************************)
(* The Read methods of all readers: those of sliceio and sortio, and the   *)
(* readers that the slice operators of package bigslice run with.  Read at *)
(* the end is the method of the interface: Read(r, n) reads from whatever  *)
(* r is into a frame of length n, and returns the rows, the error and the  *)
(* reader afterwards.  A row is a tuple <<key, value>>.                    *)
(***************************************************************************)
EXTENDS SortIO

CONSTANTS MapFn(_),        \* the function of a Map
          Pred(_),         \* the predicate of a Filter
          FlatFn(_),       \* the function of a Flatmap: a sequence of rows
          FoldFn(_, _)     \* the function of a Fold; 0 is its zero value

RECURSIVE Read(_, _)

-----------------------------------------------------------------------------
(* sliceio *)

\* multiReader.Read: the first reader with rows; one at EOF is dropped
\* together with the rows that came with the EOF.
RECURSIVE MultiRead(_, _)
MultiRead(m, n) ==
  IF m.err # "nil" THEN Ret(<<>>, m.err, m)
  ELSE IF m.q = <<>> THEN Ret(<<>>, "EOF", m)
  ELSE LET x    == Read(Head(m.q), n)
           kept == [m EXCEPT !.q = <<x.rd>> \o Tail(@)]
       IN CASE x.err = "EOF" -> MultiRead([m EXCEPT !.q = Tail(@)], n)
            [] Failed(x.err) -> Ret(x.rows, x.err, [kept EXCEPT !.err = x.err])
            [] x.err = "nil" /\ x.rows # <<>> -> Ret(x.rows, "nil", kept)
            [] OTHER -> MultiRead(kept, n)

\* ClosingReader closes its file on the first error.
ClosingRead(c, n) ==
  LET x == Read(c.in, n)
  IN Ret(x.rows, x.err, [c EXCEPT !.in = x.rd, !.closed = @ \/ x.err # "nil"])

\* ReadFull: reads short only on an error.
RECURSIVE ReadMore(_, _, _)
ReadMore(r, n, got) ==
  IF Len(got) = n THEN Ret(got, "nil", r)
  ELSE LET x == Read(r, n - Len(got))
           all == got \o x.rows
       IN IF x.err # "nil" THEN Ret(all, x.err, x.rd) ELSE ReadMore(x.rd, n, all)
ReadFull(r, n) == ReadMore(r, n, <<>>)

\* Scanner.Scan: fills the buffer until it has rows, then takes one.
ScanFill(s, x) ==
  IF Failed(x.err) THEN [s EXCEPT !.err = x.err, !.in = x.rd]
  ELSE [s EXCEPT !.buf = x.rows, !.atEOF = x.err = "EOF", !.in = x.rd]
RECURSIVE Scan(_, _)
Scan(s, chunk) ==
  IF s.err # "nil" THEN [ok |-> FALSE, row |-> <<>>, s |-> s]
  ELSE IF s.buf # <<>>
  THEN [ok |-> TRUE, row |-> Head(s.buf), s |-> [s EXCEPT !.buf = Tail(@)]]
  ELSE IF s.atEOF
  THEN [ok |-> FALSE, row |-> <<>>, s |-> [s EXCEPT !.err = "EOF"]]
  ELSE Scan(ScanFill(s, Read(s.in, chunk)), chunk)

\* Scanner.Scanv: up to n rows, fewer when scanning is over.
RECURSIVE ScanMore(_, _, _, _)
ScanMore(s, n, chunk, got) ==
  IF n = 0 THEN [rows |-> got, ok |-> TRUE, s |-> s]
  ELSE LET x == Scan(s, chunk)
       IN IF x.ok THEN ScanMore(x.s, n - 1, chunk, Append(got, x.row))
          ELSE [rows |-> got, ok |-> FALSE, s |-> x.s]
Scanv(s, n, chunk) ==
  IF s.err # "nil" THEN [rows |-> <<>>, ok |-> FALSE, s |-> s]
  ELSE ScanMore(s, n, chunk, <<>>)

-----------------------------------------------------------------------------
(* sortio *)

\* FrameBuffer.Fill: an EOF with rows is not yet the end, and no rows
\* without an error is.
Fill(b) ==
  LET x == Read(b.in, b.cap)
  IN [buf |-> [b EXCEPT !.in = x.rd, !.rows = x.rows, !.index = 0],
      err |-> IF Failed(x.err) THEN x.err
              ELSE IF x.rows # <<>> THEN "nil" ELSE "EOF"]

\* The step past the current row, with the refill when the buffer is used up.
Advance(b) ==
  LET c == [b EXCEPT !.index = @ + 1]
  IN IF c.index = Len(c.rows) THEN Fill(c) ELSE [buf |-> c, err |-> "nil"]

\* The initial fill of all buffers; those without data are left out.
RECURSIVE FillAll(_, _)
FillAll(bufs, h) ==
  IF bufs = <<>> THEN [heap |-> Fix(h), err |-> "nil"]
  ELSE LET x == Fill(Head(bufs))
       IN CASE x.err = "nil" -> FillAll(Tail(bufs), Append(h, x.buf))
            [] x.err = "EOF" -> FillAll(Tail(bufs), h)
            [] Failed(x.err) -> [heap |-> h, err |-> x.err]

\* NewMergeReader: fills the buffers, and fails when a fill does.
NewMergeReader(readers) ==
  LET x == FillAll([i \in DOMAIN readers |->
                     FrameBuffer(readers[i], SpillBatchSize, i)], <<>>)
  IN [err |-> x.err, rd |-> [k |-> "merge", heap |-> x.heap, err |-> "nil"]]

\* mergeReader.Read: on an error the rows gathered so far are dropped.
RECURSIVE MergeMore(_, _, _)
MergeMore(m, n, out) ==
  IF Len(out) = n \/ m.heap = <<>>
  THEN LET err == IF out = <<>> THEN "EOF" ELSE "nil"
       IN Ret(out, err, [m EXCEPT !.err = err])
  ELSE LET x == Advance(Head(m.heap))
       IN IF Failed(x.err) THEN Ret(<<>>, x.err, [m EXCEPT !.err = x.err])
          ELSE MergeMore([m EXCEPT !.heap = Moved(@, x)], n,
                         Append(out, Current(Head(m.heap))))
MergeRead(m, n) ==
  IF m.err # "nil" THEN Ret(<<>>, m.err, m) ELSE MergeMore(m, n, <<>>)

\* The loop of SortReader: read a run, sort it, spill it, until EOF.
RECURSIVE SortRuns(_, _, _)
SortRuns(r, f, files) ==
  LET x   == ReadFull(r, f.len)
      g   == Sort(Slice(Copy(f, Slices(x.rows)), 0, Len(x.rows)))
      all == Spill(files, Rows(g))
  IN CASE Failed(x.err) -> [files |-> files, err |-> x.err]
       [] x.err = "EOF" -> [files |-> all, err |-> "nil"]
       [] x.err = "nil" -> SortRuns(x.rd, NextRun([g EXCEPT !.len = f.len]), all)

\* SortReader: a merge of the sorted runs, or an error.
SortReader(r) ==
  LET x == SortRuns(r, Make(SortCanary, SortCanary), <<>>)
  IN IF x.err # "nil" THEN [err |-> x.err, rd |-> EmptyReader]
     ELSE NewMergeReader(ClosingReaders(x.files))

\* The popped buffers move on and return to the heap; the first error ends it.
RECURSIVE PushBack(_, _)
PushBack(bufs, h) ==
  IF bufs = <<>> THEN [heap |-> Fix(h), err |-> "nil"]
  ELSE LET x == Advance(Head(bufs))
       IN CASE x.err = "nil" -> PushBack(Tail(bufs), Append(h, x.buf))
            [] x.err = "EOF" -> PushBack(Tail(bufs), h)
            [] Failed(x.err) -> [heap |-> h, err |-> x.err]

RECURSIVE ReduceMore(_, _, _)
ReduceMore(r, n, out) ==
  IF Len(out) = n \/ r.heap = <<>>
  THEN Ret(out, IF r.heap = <<>> THEN "EOF" ELSE "nil", r)
  ELSE LET bufs == SameKey(r.heap)
           x    == PushBack(bufs, Others(r.heap))
       IN IF Failed(x.err) THEN Ret(out, x.err, [r EXCEPT !.err = x.err])
          ELSE ReduceMore([r EXCEPT !.heap = x.heap], n,
                          Append(out, <<Key(Head(bufs)), CombinedValue(bufs)>>))

\* reader.Read of reader.go, with the fill of the heap on the first call.
ReduceRead(r, n) ==
  IF r.err # "nil" THEN Ret(<<>>, r.err, r)
  ELSE IF r.open THEN ReduceMore(r, n, <<>>)
  ELSE LET x == FillAll([i \in DOMAIN r.readers |->
                          FrameBuffer(r.readers[i], ChunkSize, i)], <<>>)
       IN IF x.err # "nil" THEN Ret(<<>>, x.err, [r EXCEPT !.err = x.err])
          ELSE ReduceMore([r EXCEPT !.open = TRUE, !.heap = x.heap, !.readers = <<>>],
                          n, <<>>)

-----------------------------------------------------------------------------
\* Errors of user code are fatal to the task unless they are temporary.
Severity(err) == IF err = "temp" THEN "temp" ELSE "fatal"

-----------------------------------------------------------------------------
(* Const *)

\* constSlice.Reader: the shard's part of the rows.
ConstReader(rows, nshard, shard) ==
  LET n      == Len(rows)
      shardn == (n \div nshard) + 1
      beg    == shardn * shard
      end    == Min({beg + shardn, n})
  IN IF n = 0 \/ beg >= n THEN EmptyReader
     ELSE [k |-> "const", rows |-> SubSeq(rows, beg + 1, end)]

\* constReader.Read: EOF only once there are no rows left.
ConstRead(c, n) ==
  Ret(First(c.rows, n), IF c.rows = <<>> THEN "EOF" ELSE "nil",
      [c EXCEPT !.rows = Rest(@, Min({n, Len(@)}))])

-----------------------------------------------------------------------------
(* ReaderFunc.  The user's function is a script: the rows it will return,  *)
(* the most it returns on each of its first calls, the error it ends with, *)
(* and whether that comes with the last rows or after them.                *)

ReaderFunc(script) == [k |-> "user", s |-> script, err |-> "nil"]

UserCall(s, n) ==
  LET most == IF s.plan = <<>> THEN n ELSE Min({n, Head(s.plan)})
      rows == First(s.rows, most)
      left == Rest(s.rows, Len(rows))
  IN Ret(rows, IF left = <<>> /\ (s.eager \/ s.rows = <<>>) THEN s.end ELSE "nil",
         [s EXCEPT !.rows = left, !.plan = IF @ = <<>> THEN @ ELSE Tail(@)])

\* readerFuncSliceReader.Read: the end is remembered.
ReaderFuncRead(r, n) ==
  IF r.err # "nil" THEN Ret(<<>>, r.err, r)
  ELSE LET x   == UserCall(r.s, n)
           err == IF x.err \in {"nil", "EOF"} THEN x.err ELSE Severity(x.err)
       IN Ret(x.rows, err, [r EXCEPT !.s = x.rd, !.err = err])

-----------------------------------------------------------------------------
(* Operators over one input *)

\* writerFuncReader.Read.  The user's write function sees every read; log is
\* what it saw.  It answers werr to one call: the one numbered at, or the one
\* with the end of the input when at is 0.
WriterFunc(in, werr, at) ==
  [k |-> "writer", in |-> in, log |-> <<>>, werr |-> werr, at |-> at, err |-> "nil"]

\* Mutant: the function is not called without rows.
WriterFuncNoEmpty(w, n) ==
  IF w.err # "nil" THEN Ret(<<>>, w.err, w)
  ELSE LET x    == Read(w.in, n)
           some == x.rows # <<>>
           werr == IF some /\ Len(w.log) + 1 = w.at THEN w.werr ELSE "nil"
           err  == IF werr # "nil" /\ ~Failed(x.err) THEN Severity(werr) ELSE x.err
       IN Ret(x.rows, err, [w EXCEPT !.in = x.rd, !.err = err,
            !.log = IF some THEN Append(@, [rows |-> x.rows, err |-> x.err]) ELSE @])

\* callWrite's answer counts unless the input failed.
WriterFuncRead(w, n) ==
  IF w.err # "nil" THEN Ret(<<>>, w.err, w)
  ELSE LET x    == Read(w.in, n)
           werr == IF Len(w.log) + 1 = w.at \/ (w.at = 0 /\ x.err = "EOF") THEN w.werr ELSE "nil"
           err  == IF werr # "nil" /\ ~Failed(x.err) THEN Severity(werr) ELSE x.err
       IN Ret(x.rows, err, [w EXCEPT !.in = x.rd, !.err = err,
                                     !.log = Append(@, [rows |-> x.rows, err |-> x.err])])

\* mapReader.Read.
Map(in) == [k |-> "map", in |-> in, err |-> "nil"]

\* Mutant: an error of the input reads as its end.
MapSwallowsError(m, n) ==
  LET x == Read(m.in, n)
  IN Ret([i \in DOMAIN x.rows |-> MapFn(x.rows[i])],
         IF Failed(x.err) THEN "EOF" ELSE x.err, [m EXCEPT !.in = x.rd])

MapRead(m, n) ==
  IF m.err # "nil" THEN Ret(<<>>, m.err, m)
  ELSE LET x == Read(m.in, n)
       IN Ret([i \in DOMAIN x.rows |-> MapFn(x.rows[i])], x.err,
              [m EXCEPT !.in = x.rd, !.err = x.err])

\* filterReader.Read: reads on until the output is full or the input ends.
Filter(in) == [k |-> "filter", in |-> in, err |-> "nil"]
RECURSIVE FilterMore(_, _, _)
FilterMore(f, n, out) ==
  IF Len(out) = n \/ f.err # "nil" THEN Ret(out, f.err, f)
  ELSE LET x == Read(f.in, n - Len(out))
       IN FilterMore([f EXCEPT !.in = x.rd, !.err = x.err], n,
                     out \o SelectSeq(x.rows, Pred))
FilterRead(f, n) ==
  IF f.err # "nil" THEN Ret(<<>>, f.err, f) ELSE FilterMore(f, n, <<>>)

\* flatmapReader.Read: rows that do not fit wait in buf, inputs not yet
\* consumed in rows.
Flatmap(in) == [k |-> "flatmap", in |-> in, rows |-> <<>>, buf |-> <<>>, eof |-> FALSE]
RECURSIVE FlatmapMore(_, _, _)
FlatmapMore(f, n, out) ==
  IF Len(out) = n \/ (f.eof /\ f.rows = <<>>)
  THEN Ret(out, IF f.eof /\ f.rows = <<>> /\ f.buf = <<>> THEN "EOF" ELSE "nil", f)
  ELSE IF f.rows = <<>>
  THEN LET x == Read(f.in, n)
           g == [f EXCEPT !.in = x.rd, !.rows = x.rows, !.eof = x.err = "EOF"]
       IN IF Failed(x.err) THEN Ret(<<>>, x.err, [f EXCEPT !.in = x.rd])
          ELSE FlatmapMore(g, n, out)
  ELSE LET result == FlatFn(Head(f.rows))
           room   == n - Len(out)
       IN FlatmapMore([f EXCEPT !.rows = Tail(@),
                         !.buf = IF Len(result) > room THEN Rest(result, room) ELSE @],
                      n, out \o First(result, room))
FlatmapRead(f, n) ==
  FlatmapMore([f EXCEPT !.buf = Rest(@, Min({n, Len(@)}))], n, First(f.buf, n))

\* headReader.Read.
HeadSlice(in, max) == [k |-> "head", in |-> in, n |-> max]
HeadRead(h, n) ==
  IF h.n <= 0 THEN Ret(<<>>, "EOF", h)
  ELSE LET x == Read(h.in, n)
           left == h.n - Len(x.rows)
       IN Ret(First(x.rows, Len(x.rows) + Min({left, 0})), x.err,
              [h EXCEPT !.in = x.rd, !.n = left])

\* scanReader.Read: the user's function scans the whole shard (seen); there
\* is no output.
MaxRows == 1000
ScanSlice(in) == [k |-> "scan", in |-> in, seen |-> <<>>]
ScanRead(s) ==
  LET x == Scanv(NewScanner(s.in), MaxRows, ChunkSize)
  IN Ret(<<>>, IF ScanErr(x.s) = "nil" THEN "EOF" ELSE ScanErr(x.s),
         [s EXCEPT !.seen = x.rows, !.in = x.s.in])

-----------------------------------------------------------------------------
(* Fold and its accumulators *)

\* Accumulate, of the accumulators of accum.go.
Accumulate(state, row) ==
  LET k == row[1]
  IN [x \in DOMAIN state \cup {k} |->
       IF x # k THEN state[x]
       ELSE FoldFn(IF k \in DOMAIN state THEN state[k] ELSE 0, row[2])]

\* foldReader.compute: the whole input, before the first row of output.
RECURSIVE Compute(_, _)
Compute(r, state) ==
  LET x == Read(r, ChunkSize)
      s == FoldLeft(Accumulate, state, x.rows)
  IN IF Failed(x.err) THEN [state |-> state, err |-> x.err, rd |-> x.rd]
     ELSE IF x.err = "EOF" THEN [state |-> s, err |-> "nil", rd |-> x.rd]
     ELSE Compute(x.rd, s)

\* The Read of an accumulator: rows leave in the order of a Go map, here
\* the least key first.
Drain(f, n) ==
  LET keys == First(SetToSortSeq(DOMAIN f.state, <), n)
      left == DOMAIN f.state \ ToSet(keys)
      err  == IF left = {} THEN "EOF" ELSE "nil"
  IN Ret([i \in DOMAIN keys |-> <<keys[i], f.state[keys[i]]>>], err,
         [f EXCEPT !.state = [k \in left |-> f.state[k]], !.err = err])

\* foldReader.Read.
Fold(in) == [k |-> "fold", in |-> in, open |-> FALSE, state |-> <<>>, err |-> "nil"]
FoldRead(f, n) ==
  IF f.err # "nil" THEN Ret(<<>>, f.err, f)
  ELSE IF f.open THEN Drain(f, n)
  ELSE LET x == Compute(f.in, <<>>)
       IN IF x.err # "nil" THEN Ret(<<>>, x.err, [f EXCEPT !.err = x.err, !.in = x.rd])
          ELSE Drain([f EXCEPT !.open = TRUE, !.state = x.state, !.in = x.rd], n)

-----------------------------------------------------------------------------
(* Cogroup *)

Cogroup(ins) ==
  [k |-> "cogroup", ins |-> ins, open |-> FALSE, heap |-> <<>>, err |-> "nil"]

\* The first Read: every input is sorted and its buffer filled, one by one.
FillSorted(s, i) ==
  IF s.err # "nil" THEN s ELSE Fill(FrameBuffer(s.rd, ChunkSize, i))
RECURSIVE SortAll(_, _, _)
SortAll(ins, i, h) ==
  IF i > Len(ins) THEN [heap |-> h, err |-> "nil"]
  ELSE LET x == FillSorted(SortReader(ins[i]), i)
       IN IF Failed(x.err) THEN [heap |-> h, err |-> x.err]
          ELSE SortAll(ins, i + 1, IF x.err = "EOF" THEN h ELSE Append(h, x.buf))

\* All rows of the front's key, by input; row holds the values so far.
RECURSIVE Gather(_, _, _)
Gather(h, key, row) ==
  IF h = <<>> \/ Key(Head(h)) > key THEN [heap |-> h, row |-> row, err |-> "nil"]
  ELSE LET b == Head(h)
           x == Advance(b)
       IN IF Failed(x.err) THEN [heap |-> h, row |-> row, err |-> x.err]
          ELSE Gather(Moved(h, x), key,
                      [row EXCEPT ![b.id] = Append(@, Current(b)[2])])

RECURSIVE CogroupMore(_, _, _)
CogroupMore(c, n, out) ==
  IF Len(out) = n \/ c.heap = <<>>
  THEN LET err == IF out = <<>> THEN "EOF" ELSE "nil"
       IN Ret(out, err, [c EXCEPT !.err = err])
  ELSE LET key == Key(Head(c.heap))
           x   == Gather(c.heap, key, [i \in DOMAIN c.ins |-> <<>>])
       IN IF x.err # "nil" THEN Ret(out, x.err, [c EXCEPT !.err = x.err])
          ELSE CogroupMore([c EXCEPT !.heap = x.heap], n, Append(out, <<key, x.row>>))

CogroupOpened(c, x, n) ==
  IF x.err # "nil" THEN Ret(<<>>, x.err, [c EXCEPT !.err = x.err])
  ELSE CogroupMore([c EXCEPT !.open = TRUE, !.heap = Fix(x.heap)], n, <<>>)

\* cogroupReader.Read.
CogroupRead(c, n) ==
  IF c.err # "nil" THEN Ret(<<>>, c.err, c)
  ELSE IF c.open THEN CogroupMore([c EXCEPT !.heap = Fix(@)], n, <<>>)
  ELSE CogroupOpened(c, SortAll(c.ins, 1, <<>>), n)

-----------------------------------------------------------------------------
(* Reduce, the shuffles, and the cache *)

\* reduceSlice.Reader, reshuffleSlice.Reader, reshardSlice.Reader.
ReduceSlice(ins) == IF Len(ins) = 1 THEN Head(ins) ELSE Reduce(ins)
Reshuffle(ins) == Head(ins)

\* writethroughReader.Read: every batch is also written to a file, which
\* appears under its name when it is closed at EOF, and not if it is discarded
\* or left open.  fault is what fails at the file: "create", "write" (of the
\* second batch), "close" or "none".  A write to a closed file fails.
Writethrough(in, fault) ==
  [k |-> "through", in |-> in, fault |-> fault, file |-> "none", stream |-> <<>>]

\* Mutant: the file has its name from the first write on.
WritethroughEarly(w, n) ==
  LET x == Read(w.in, n)
  IN Ret(x.rows, x.err, [w EXCEPT !.in = x.rd, !.stream = Encode(@, x.rows), !.file = "closed"])

WritethroughRead(w, n) ==
  IF w.file = "none" /\ w.fault = "create" THEN Ret(<<>>, "io", w)
  ELSE LET x    == Read(w.in, n)
           over == x.err = "EOF"
           werr == CASE w.file \in {"closed", "discarded"} -> "closed"
                     [] w.fault = "write" /\ Len(w.stream) = 1 -> "io"
                     [] OTHER -> "nil"
       IN IF Failed(x.err) THEN Ret(x.rows, x.err, [w EXCEPT !.in = x.rd, !.file = "discarded"])
          ELSE IF werr # "nil" THEN Ret(x.rows, werr, [w EXCEPT !.in = x.rd])
          ELSE LET closes == over /\ w.fault # "close"
               IN Ret(x.rows, IF over /\ ~closes THEN "io" ELSE x.err,
                      [w EXCEPT !.in = x.rd, !.stream = Encode(@, x.rows),
                                !.file = IF closes THEN "closed" ELSE "open"])

\* fileReader.Read: the file is opened on the first read and closed on the
\* first error.
CacheReader(stream) == NewClosingReader(NewDecodingReader(stream))

-----------------------------------------------------------------------------
(* taskBufferReader.Read: q holds the frames of one partition, j and k the *)
(* frame and the offset in it of the next row.                             *)

BufferReader(frames) == [k |-> "buffer", q |-> frames, j |-> 1, k0 |-> 0]
RECURSIVE BufferRead(_, _)
BufferRead(r, n) ==
  IF r.j > Len(r.q) THEN Ret(<<>>, "EOF", r)
  ELSE IF Len(r.q[r.j]) = r.k0 THEN BufferRead([r EXCEPT !.j = @ + 1, !.k0 = 0], n)
  ELSE LET rows == First(Rest(r.q[r.j], r.k0), n)
       IN Ret(rows, "nil", [r EXCEPT !.k0 = @ + Len(rows)])

\* Reader.Read.
Read(r, n) ==
  CASE r.k = "multi" -> MultiRead(r, n)
    [] r.k = "frame" -> FrameRead(r, n)
    [] r.k = "err" -> ErrRead(r)
    [] r.k = "empty" -> EmptyRead(r)
    [] r.k = "closing" -> ClosingRead(r, n)
    [] r.k = "decode" -> DecodeRead(r, n)
    [] r.k = "merge" -> MergeRead(r, n)
    [] r.k = "reduce" -> ReduceRead(r, n)
    [] r.k = "const" -> ConstRead(r, n)
    [] r.k = "user" -> ReaderFuncRead(r, n)
    [] r.k = "writer" -> WriterFuncRead(r, n)
    [] r.k = "map" -> MapRead(r, n)
    [] r.k = "filter" -> FilterRead(r, n)
    [] r.k = "flatmap" -> FlatmapRead(r, n)
    [] r.k = "head" -> HeadRead(r, n)
    [] r.k = "scan" -> ScanRead(r)
    [] r.k = "fold" -> FoldRead(r, n)
    [] r.k = "cogroup" -> CogroupRead(r, n)
    [] r.k = "through" -> WritethroughRead(r, n)
    [] r.k = "buffer" -> BufferRead(r, n)

=============================================================================
