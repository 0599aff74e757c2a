------------------------------- MODULE TaskIO -------------------------------
(***************************************************************************)
(* What happens to the rows of a task: the sinks its output goes to, in    *)
(* the local executor (buffers of frames) and in a worker (encoded streams *)
(* in its store, combined or not), and the readers over its dependencies.  *)
(***************************************************************************)
EXTENDS Combiner

CONSTANTS Hash(_),          \* frame.Hash of a key
          PartSize,         \* psize: rows a worker gathers per partition
          PartTableSize     \* size of a task's own combining tables

\* defaultPartitioner; partitions count from 1.
Partitioner(row, nparts) == (Hash(row[1]) % nparts) + 1

\* The rows of a read that go to partition p.
RowsFor(rows, p, nparts) ==
  SelectSeq(rows, LAMBDA row : Partitioner(row, nparts) = p)

-----------------------------------------------------------------------------
(* bufferOutput of the local executor *)

\* The frames of a partition with one more row: in the last frame while it
\* has capacity, else in a new one.
AppendRow(frames, row) ==
  LET m    == Len(frames)
      full == m = 0 \/ frames[m].cap = frames[m].len
      open == IF full THEN Append(frames, Make(0, ChunkSize)) ELSE frames
  IN [open EXCEPT ![Len(open)] = AppendFrame(Last(open), Slices(<<row>>))]

\* One turn of its loop: rows go to their partition's frames; an output of
\* one partition keeps the frame that was read.
BufferRows(parts, rows) ==
  IF Len(parts) > 1
  THEN [p \in DOMAIN parts |->
         FoldLeft(AppendRow, parts[p], RowsFor(rows, p, Len(parts)))]
  ELSE IF rows # <<>> THEN <<Append(parts[1], Slices(rows))>> ELSE parts

\* taskBuffer.Reader.
PartitionReader(parts, p) ==
  IF parts = <<>> THEN EmptyReader
  ELSE BufferReader([i \in DOMAIN parts[p] |-> Rows(parts[p][i])])

-----------------------------------------------------------------------------
(* worker.Run: output streamed to the store *)

\* A partition being written: rows not yet flushed, and the stream.
StreamRow(part, row) ==
  LET pending == Append(part.pending, row)
  IN IF Len(pending) = PartSize
     THEN [pending |-> <<>>, stream |-> Encode(part.stream, pending)]
     ELSE [part EXCEPT !.pending = pending]

StreamRows(parts, rows) ==
  IF Len(parts) > 1
  THEN [p \in DOMAIN parts |->
         FoldLeft(StreamRow, parts[p], RowsFor(rows, p, Len(parts)))]
  ELSE <<[parts[1] EXCEPT !.stream = Encode(@, rows)]>>

\* Mutant: the rows that are left are not flushed.
FlushNothing(part) == part.stream

\* The flush of what remains.
FlushStream(part) ==
  IF part.pending = <<>> THEN part.stream ELSE Encode(part.stream, part.pending)

-----------------------------------------------------------------------------
(* worker.runCombine: output combined in a table of the task, and from     *)
(* there in the partition's combiner                                       *)

CombineRow(part, row) ==
  LET t == CombineRows(part.table, <<row>>)
      x == Compact(t)
  IN IF t.len <= t.cap \div 2 THEN [part EXCEPT !.table = t]
     ELSE [table |-> x.c, comb |-> CombineInto(part.comb, Rows(x.f))]

CombinePartRows(parts, rows) ==
  [p \in DOMAIN parts |-> FoldLeft(CombineRow, parts[p], RowsFor(rows, p, Len(parts)))]

\* The flush of the task's table, and the commit of the combiner
\* (writeCombiner): the stream the store keeps.
FlushCombiner(part) ==
  WriteTo(CombineInto(part.comb, Rows(Compact(part.table).f)))

-----------------------------------------------------------------------------
(* Sinks, uniformly: s is "buffer", "stream" or "combine". *)

NewSink(s, nparts) ==
  [p \in 1..nparts |->
    CASE s = "buffer" -> <<>>
      [] s = "stream" -> [pending |-> <<>>, stream |-> <<>>]
      [] s = "combine" -> [table |-> MakeTable(PartTableSize, 1), comb |-> NewCombiner]]
Put(s, parts, rows) ==
  CASE s = "buffer" -> BufferRows(parts, rows)
    [] s = "stream" -> StreamRows(parts, rows)
    [] s = "combine" -> CombinePartRows(parts, rows)
Finish(s, parts) ==
  CASE s = "buffer" -> parts
    [] s = "stream" -> [p \in DOMAIN parts |-> FlushStream(parts[p])]
    [] s = "combine" -> [p \in DOMAIN parts |-> FlushCombiner(parts[p]).stream]
Open(s, parts, p) ==
  IF s = "buffer" THEN PartitionReader(parts, p)
  ELSE IF parts = <<>> THEN EmptyReader ELSE NewDecodingReader(parts[p])

-----------------------------------------------------------------------------
(* Dependencies *)

\* depReaders of the local executor for a dependency whose tasks have a
\* combiner: their rows are combined before the task starts.  x is what was
\* read last.
RECURSIVE CombineAll(_, _)
CombineAll(x, c) ==
  IF Failed(x.err) THEN [err |-> x.err, ins |-> <<>>]
  ELSE IF x.err = "EOF"
  THEN [err |-> "nil", ins |-> <<CombinerReader(CombineInto(c, x.rows))>>]
  ELSE CombineAll(Read(x.rd, ChunkSize), CombineInto(c, x.rows))

\* The readers a task is given for one dependency: readers are those of the
\* partition in every task of the dependency.
DepReaders(s, readers, combine, expand) ==
  IF s = "buffer" /\ combine
  THEN CombineAll(Read(MultiReader(readers), ChunkSize), NewCombiner)
  ELSE [err |-> "nil", ins |-> IF expand THEN readers ELSE <<MultiReader(readers)>>]

=============================================================================
