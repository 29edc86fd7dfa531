------------------------------ MODULE CsvReader ------------------------------
(***************************************************************************)
(* The lines of a stream and the fields of a line: CSVRow and CSVIterator   *)
(* of src/src/io/csv_reader.cpp.                                            *)
(***************************************************************************)
EXTENDS Integers, Sequences, SequencesExt

VARIABLES
    stream,     \* the characters getline has not taken yet
    good,       \* stream.good()
    line_,      \* the line of the row
    at_end      \* the iterator has no stream any more

readerVars == <<stream, good, line_, at_end>>

LineFeed == "\n"
CarriageReturn == "\r"
Comma == ","

\* readNextRow takes one carriage return off the end of the line.
StripCR(line) ==
    IF line # << >> /\ Last(line) = CarriageReturn THEN Front(line) ELSE line

\* std::getline and readNextRow's trimming of what it read.  The line feed is
\* taken from the stream and left out; without one the stream is at its end
\* and not good, but fails only when there was nothing to take.
ReadLine ==
    LET feeds == {k \in DOMAIN stream : stream[k] = LineFeed}
        feed  == CHOOSE k \in feeds : \A j \in feeds : k <= j
    IN /\ good
       /\ \/ /\ feeds # {}
             /\ line_' = StripCR(SubSeq(stream, 1, feed - 1))
             /\ stream' = SubSeq(stream, feed + 1, Len(stream))
             /\ UNCHANGED <<good, at_end>>
          \/ /\ feeds = {} /\ stream # << >>
             /\ line_' = StripCR(stream)
             /\ stream' = << >>
             /\ good' = FALSE
             /\ UNCHANGED at_end

\* MUTANT: an empty line is taken for one more row.
ReadFails_EmptyLine ==
    /\ ~good \/ stream = << >>
    /\ line_' = << >>
    /\ UNCHANGED <<stream, good, at_end>>

\* Nothing can be read: the iterator becomes the end.
ReadFails ==
    /\ ~good \/ stream = << >>
    /\ line_' = IF good THEN << >> ELSE StripCR(line_)
    /\ good' = FALSE
    /\ at_end' = TRUE
    /\ UNCHANGED stream

\* ++ of the iterator, which its constructor does too.
Advance == ~at_end /\ (ReadLine \/ ReadFails)

\* After each number of characters: 0 and the places of c among them.
Places(text, c) ==
    LET found[k \in 0 .. Len(text)] ==
            IF k = 0 THEN <<0>>
            ELSE IF text[k] = c THEN Append(found[k - 1], k) ELSE found[k - 1]
    IN found

\* The ends of the fields: before the line, at each comma, behind the line.
field_positions_ == Append(Places(line_, Comma)[Len(line_)], Len(line_) + 1)

size == Len(field_positions_) - 1

\* The field at an index, which the code counts from 0.
row(index) ==
    SubSeq(line_, field_positions_[index + 1] + 1, field_positions_[index + 2] - 1)
=============================================================================
