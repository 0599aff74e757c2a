------------------------------ MODULE SliceIO -------------------------------
(***************************************************************************)
(* Package sliceio: readers as values.  A reader is a record with a kind   *)
(* and its fields.  What the Read method of each kind does is in module    *)
(* SliceOps, where all of them are together because they call each other;  *)
(* here are those that read no other reader, the format of streams, and    *)
(* spill files.                                                            *)
(***************************************************************************)
EXTENDS Integers, Sequences, SequencesExt

CONSTANT SpillBatchSize   \* rows of a batch in a spill file

\* What Read returns; "nil" is Go's nil error and "EOF" is sliceio.EOF.
Ret(rows, err, rd) == [rows |-> rows, err |-> err, rd |-> rd]

Failed(err) == err \notin {"nil", "EOF"}

First(rows, n) == SubSeq(rows, 1, Min({n, Len(rows)}))
Rest(rows, n)  == SubSeq(rows, n + 1, Len(rows))

-----------------------------------------------------------------------------
(* Readers of reader.go *)

MultiReader(readers) == [k |-> "multi", q |-> readers, err |-> "nil"]

\* FrameReader: EOF comes with the last rows.
FrameReader(rows) == [k |-> "frame", rows |-> rows]
FrameRead(f, n) ==
  LET rest == Rest(f.rows, Min({n, Len(f.rows)}))
  IN Ret(First(f.rows, n), IF rest = <<>> THEN "EOF" ELSE "nil",
         [f EXCEPT !.rows = rest])

ErrReader(err) == [k |-> "err", err |-> err]
ErrRead(e) == Ret(<<>>, e.err, e)

EmptyReader == [k |-> "empty"]
EmptyRead(e) == Ret(<<>>, "EOF", e)

\* ClosingReader closes the file under it on the first error, EOF included.
NewClosingReader(r) == [k |-> "closing", in |-> r, closed |-> FALSE]
-----------------------------------------------------------------------------
(* codec.go: a stream is a sequence of batches.  A batch is a row count,   *)
(* then for each column a codec flag and the values, then a checksum; cut  *)
(* names the part before which a truncated stream ends.                    *)


\* Encoder.Write.
Encode(stream, rows) ==
  Append(stream, [rows |-> rows, sum |-> rows, cut |-> "none"])

\* NewDecodingReader over a stream.
NewDecodingReader(stream) ==
  [k |-> "decode", in |-> stream, buf |-> <<>>, err |-> "nil"]

\* decodingReader.decode of the next batch: the checksum must match.  The
\* end of the stream before a column's values comes back as sliceio.EOF,
\* before another part as io.EOF, an error like any other.
DecodeErr(batch) ==
  CASE batch.cut \in {"flag", "sum"} -> "io"
    [] batch.cut = "column" -> "EOF"
    [] batch.cut = "none" -> IF batch.sum = batch.rows THEN "nil" ELSE "integrity"

\* decodingReader.Read: a batch that fits is returned at once, even an
\* empty one; a larger one is buffered.
DecodeRead(d, n) ==
  IF d.err # "nil" THEN Ret(<<>>, d.err, d)
  ELSE IF d.buf # <<>>
  THEN Ret(First(d.buf, n), "nil", [d EXCEPT !.buf = Rest(@, Min({n, Len(@)}))])
  ELSE IF d.in = <<>> THEN Ret(<<>>, "EOF", [d EXCEPT !.err = "EOF"])
  ELSE LET b    == Head(d.in)
           err  == DecodeErr(b)
           next == [d EXCEPT !.in = Tail(@), !.err = err]
       IN IF err # "nil" THEN Ret(<<>>, err, next)
          ELSE IF Len(b.rows) <= n THEN Ret(b.rows, "nil", next)
          ELSE Ret(First(b.rows, n), "nil", [next EXCEPT !.buf = Rest(b.rows, n)])

-----------------------------------------------------------------------------
(* spiller.go: a spiller is the sequence of its files. *)

\* Spiller.Spill: a new file, in batches of SpillBatchSize.
RECURSIVE Batches(_, _)
Batches(rows, stream) ==
  IF rows = <<>> THEN stream
  ELSE Batches(Rest(rows, Min({SpillBatchSize, Len(rows)})),
               Encode(stream, First(rows, SpillBatchSize)))
Spill(files, rows) == Append(files, Batches(rows, <<>>))

\* Spiller.ClosingReaders; the order of the files is that of their random
\* names, here the reverse of their creation.
ClosingReaders(files) ==
  [i \in DOMAIN files |->
    NewClosingReader(NewDecodingReader(files[Len(files) + 1 - i]))]

-----------------------------------------------------------------------------
(* scanner.go *)

NewScanner(r) == [in |-> r, buf |-> <<>>, atEOF |-> FALSE, err |-> "nil"]

\* Mutant: no error is an error.
ScanErrNil(s) == "nil"

\* Scanner.Err.
ScanErr(s) == IF s.err = "EOF" THEN "nil" ELSE s.err

=============================================================================
