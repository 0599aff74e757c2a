------------------------------ MODULE Combiner ------------------------------
(***************************************************************************)
(* exec/combiner.go: a hash table over a frame in which the values of a    *)
(* key are combined, and the combiner that spills it to disk.  Indices of  *)
(* the table count from 0, as in the code.                                 *)
(***************************************************************************)
EXTENDS SliceOps

CONSTANTS HashWithSeed(_),   \* frame.HashWithSeed of a key
          TargetSize         \* keys in memory from which a combiner spills

\* combiningFrame.make: data holds the table and, after it, the scratch rows.
MakeTable(ndata, nscratch) ==
  [data |-> Make(ndata + nscratch, ndata + nscratch), cap |-> ndata,
   nscratch |-> nscratch, hits |-> [i \in 0..(ndata - 1) |-> 0],
   len |-> 0, threshold |-> (7 * ndata) \div 10]

\* makeCombiningFrame.
MakeCombiningFrame == MakeTable(ChunkSize, ChunkSize)

Scratch(c) == Slice(c.data, c.cap, c.cap + c.nscratch)

\* The quadratic probe for a key: the first slot that is free or holds the
\* key.  (A rehash meets every key once, so there it is the first free one.)
RECURSIVE Probe(_, _, _, _)
Probe(c, key, idx, try) ==
  IF c.hits[idx] = 0 \/ c.data.mem[idx + 1][1] = key THEN idx
  ELSE Probe(c, key, (idx + try) % c.cap, try + 1)
Slot(c, key) == Probe(c, key, HashWithSeed(key) % c.cap, 1)

\* combiningFrame.added, when the threshold is exceeded: a table of twice the
\* size with the scratch rows copied and the keys hashed anew, in slot order.
RECURSIVE Rehash(_, _, _)
Rehash(old, i, c) ==
  IF i = old.cap THEN c
  ELSE IF old.hits[i] = 0 THEN Rehash(old, i + 1, c)
  ELSE LET row == old.data.mem[i + 1]
           idx == Slot(c, row[1])
       IN Rehash(old, i + 1, [c EXCEPT !.hits[idx] = old.hits[i],
                                       !.data.mem[idx + 1] = row])
Doubled(c) ==
  LET new  == MakeTable(2 * c.cap, c.nscratch)
      data == [new.data EXCEPT !.mem = Copy(Scratch(new), Scratch(c)).mem]
  IN [new EXCEPT !.data = data, !.len = c.len]
Added(c) ==
  LET d == [c EXCEPT !.len = @ + 1]
  IN IF d.len <= d.threshold THEN d ELSE Rehash(d, 0, Doubled(d))

\* combiningFrame.combine(n), from scratch row i on.
RECURSIVE CombineScratch(_, _, _)
CombineScratch(c, i, n) ==
  IF i = n THEN c
  ELSE LET idx == Slot(c, c.data.mem[c.cap + i + 1][1])
           hit == [c EXCEPT !.hits[idx] = @ + 1]
           v   == Combiner(Value(c.data, idx), Value(Scratch(c), i))
       IN CombineScratch(IF c.hits[idx] = 0
                         THEN Added([hit EXCEPT !.data = Swap(c.data, idx, c.cap + i)])
                         ELSE [hit EXCEPT !.data = SetValue(c.data, idx, v)], i + 1, n)

\* combiningFrame.Combine: the rows go through the scratch space in chunks.
RECURSIVE CombineRows(_, _)
CombineRows(c, rows) ==
  IF rows = <<>> THEN c
  ELSE LET n == Copied(Scratch(c), Slices(rows))
           d == [c EXCEPT !.data.mem = Copy(Scratch(c), Slices(rows)).mem]
       IN CombineRows(CombineScratch(d, 0, n), Rest(rows, n))

\* combiningFrame.Compact: the used slots move to the front; the table is
\* empty afterwards.
RECURSIVE CompactFrom(_, _, _)
CompactFrom(c, i, j) ==
  IF i = c.cap THEN [c |-> [c EXCEPT !.len = 0], f |-> Slice(c.data, 0, j)]
  ELSE IF c.hits[i] = 0 THEN CompactFrom(c, i + 1, j)
  ELSE CompactFrom([c EXCEPT !.data = Swap(c.data, i, j), !.hits[i] = 0], i + 1, j + 1)
Compact(c) == CompactFrom(c, 0, 0)

-----------------------------------------------------------------------------
(* combiner: the table and its spilled files *)

NewCombiner == [comb |-> MakeCombiningFrame, files |-> <<>>]

\* combiner.Combine, with the spill of a table that was already at its
\* target size.
CombineInto(c, rows) ==
  LET t == CombineRows(c.comb, rows)
      x == Compact(t)
  IN IF c.comb.len >= TargetSize
     THEN [comb |-> x.c, files |-> Spill(c.files, Rows(Sort(x.f)))]
     ELSE [c EXCEPT !.comb = t]

\* Mutant: the table is not sorted.
CombinerReaderUnsorted(c) ==
  Reduce(Append(ClosingReaders(c.files), FrameReader(Rows(Compact(c.comb).f))))

\* combiner.Reader: the spilled runs and the table, merged by Reduce.
CombinerReader(c) ==
  Reduce(Append(ClosingReaders(c.files), FrameReader(Rows(Sort(Compact(c.comb).f)))))

\* combiner.WriteTo: the stream it encodes, in batches of ChunkSize; the last
\* batch is empty when the reader ends without rows.  x is what was read last.
RECURSIVE WriteBatches(_, _)
WriteBatches(x, stream) ==
  IF Failed(x.err) THEN [stream |-> stream, err |-> x.err]
  ELSE IF x.err = "EOF" THEN [stream |-> Encode(stream, x.rows), err |-> "nil"]
  ELSE WriteBatches(Read(x.rd, ChunkSize), Encode(stream, x.rows))
WriteTo(c) == WriteBatches(Read(CombinerReader(c), ChunkSize), <<>>)

=============================================================================
