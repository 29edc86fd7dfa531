------------------------------ MODULE CsvFiles ------------------------------
(***************************************************************************)
(* From the text of an order file to the text of the report file: the loop  *)
(* of CsvOrderProducer::produce over the rows of the file, and for a        *)
(* refused order what OrderProcessor::consume and                           *)
(* CsvReportWriter::append_csv_row make of it, which is where texts of the  *)
(* input reach the output.                                                  *)
(*                                                                          *)
(* Which orders are refused is in OrderProcessor; here any may be.  The      *)
(* reports on the others are left out: they carry the client's id through   *)
(* the same kind of copies, and else the program's own texts.               *)
(* The queues and threads between the parts are in Pipeline.                *)
(***************************************************************************)
EXTENDS CsvReader, Conversions

CONSTANTS
    Files,          \* the texts of the input files
    CoidSize,       \* sizeof InboundOrderMsg::coid
    InstrumentSize, \* sizeof InboundOrderMsg::instrument
    PriceSize,      \* sizeof OutboundReportMsg::price_text
    ShortModulus,   \* 2 to the width of uint16_t
    Reasons,        \* the texts of a refusal
    Timestamp       \* the text of a time

ASSUME FilesAssumption == Files \subseteq Seq(STRING)

\* Each destination has room for the terminator, and that of a price for the
\* sign of an amount too.
ASSUME SizesAssumption ==
    /\ CoidSize \in Nat \ {0} /\ InstrumentSize \in Nat \ {0}
    /\ PriceSize \in Nat /\ Len(Amount(LongMax)) + 1 < PriceSize
    /\ ShortModulus \in Nat \ {0}

\* The character '\0', which ends a C string and is one like any other in a
\* line of the input.
Nul == "NUL"

\* The program's own texts are whole in a C string and in a field of a row.
IsFieldText(text) ==
    text \in Seq(STRING) /\ \A k \in DOMAIN text : text[k] \notin {Comma, LineFeed, Nul}

ASSUME OwnTextsAssumption == \A text \in Reasons \cup {Timestamp} : IsFieldText(text)

VARIABLES
    file,       \* history: the whole text
    producer,   \* where produce is: advance, row, ended, or died of a throw
    first_row,
    messages,   \* history: the orders published
    reports     \* history: the rows appended to the report file

vars == <<readerVars, file, producer, first_row, messages, reports>>

Init ==
    /\ file \in Files
    /\ stream = file
    /\ good = TRUE
    /\ line_ = << >>
    /\ at_end = FALSE
    /\ producer = "advance"
    /\ first_row = TRUE
    /\ messages = << >>
    /\ reports = << >>

-----------------------------------------------------------------------------
(* The producer.                                                            *)

\* The head of the loop: one more row, or the end of the range.
NextRow ==
    /\ producer = "advance"
    /\ Advance
    /\ producer' = IF at_end' THEN "ended" ELSE "row"
    /\ UNCHANGED <<file, first_row, messages, reports>>

\* The header and rows of fewer than five fields are passed over.
Skipped == first_row \/ size < 5

SkipRow ==
    /\ producer = "row" /\ Skipped
    /\ producer' = "advance"
    /\ first_row' = FALSE
    /\ UNCHANGED <<readerVars, file, messages, reports>>

\* The producer's copy_text: a text and its terminator fit into the
\* destination, or it is cut off.  A NUL in it is copied.
copy_text(destination_size, source) ==
    IF Len(source) < destination_size THEN source
    ELSE SubSeq(source, 1, destination_size - 1)

Parsed(side, quantity, price) == side # Throws /\ quantity # Throws /\ price # Throws

\* The order of a row is published, or a number of it throws and, nothing
\* catching that in the producer's thread, the process ends.
PublishRow ==
    LET side     == string_view_to_int(row(2))
        quantity == string_view_to_int(row(3))
        price    == string_view_to_double(row(4))
    IN /\ producer = "row" /\ ~Skipped
       /\ \/ /\ Parsed(side, quantity, price)
             /\ messages' = Append(messages,
                    [coid       |-> copy_text(CoidSize, row(0)),
                     instrument |-> copy_text(InstrumentSize, row(1)),
                     side |-> side[1], quantity |-> quantity[1], price |-> price[1]])
             /\ producer' = "advance"
          \/ /\ ~Parsed(side, quantity, price)
             /\ producer' = "died"
             /\ UNCHANGED messages
       /\ UNCHANGED <<readerVars, file, first_row, reports>>

-----------------------------------------------------------------------------
(* The report on a refused order.                                           *)

format_order_id(id) == <<"o", "r", "d">> \o to_chars(id)

\* The processor's copy_text and the constructor of ExecutionReport: up to a
\* NUL, or what fits.
copy_c_string(destination_size, source) ==
    LET ends == {n \in 0 .. Len(source) :
                    \/ n = destination_size - 1
                    \/ n = Len(source)
                    \/ source[n + 1] = Nul}
    IN SubSeq(source, 1, Min(ends))

\* The fields of the row: the client's id by way of the ExecutionReport, the
\* instrument and the side from the message, the quantity through a uint16_t.
RejectFields(id, message, price_text, reason) ==
    <<format_order_id(id),
      copy_c_string(CoidSize, copy_c_string(CoidSize, message.coid)),
      copy_c_string(InstrumentSize, message.instrument),
      write_side_to_buffer(message.side), <<"Reject">>,
      write_quantity_to_buffer(
          (IF message.quantity > 0 THEN message.quantity ELSE 0) % ShortModulus),
      price_text, reason, Timestamp>>

\* The fields with commas between them and a line feed behind.
append_csv_row(fields) ==
    fields[1] \o <<Comma>> \o fields[2] \o <<Comma>> \o fields[3] \o <<Comma>>
        \o fields[4] \o <<Comma>> \o fields[5] \o <<Comma>> \o fields[6] \o <<Comma>>
        \o fields[7] \o <<Comma>> \o fields[8] \o <<Comma>> \o fields[9] \o <<LineFeed>>

Refuse ==
    /\ producer # "died"
    /\ Len(reports) < Len(messages)
    /\ LET id == Len(reports) + 1 IN
       \E price_text \in format_price_to_buffer(messages[id].price, PriceSize),
          reason \in Reasons :
            reports' = Append(reports, append_csv_row(
                            RejectFields(id, messages[id], price_text, reason)))
    /\ UNCHANGED <<readerVars, file, producer, first_row, messages>>

Finished ==
    /\ \/ producer = "died"
       \/ producer = "ended" /\ Len(reports) = Len(messages)
    /\ UNCHANGED vars

Next == NextRow \/ SkipRow \/ PublishRow \/ Refuse \/ Finished

Spec == Init /\ [][Next]_vars

-----------------------------------------------------------------------------
(* What the texts mean, told without scanning them.                         *)

\* The pieces of the first characters of a text between separators.
Pieces(text, separator) ==
    LET pieces[k \in 0 .. Len(text)] ==
            IF k = 0 THEN << << >> >>
            ELSE LET before == pieces[k - 1]
                 IN IF text[k] = separator THEN Append(before, << >>)
                    ELSE [before EXCEPT ![Len(before)] = Append(@, text[k])]
    IN pieces

SplitBy(text, separator) == Pieces(text, separator)[Len(text)]

\* The lines of a text: what is behind the last line feed is one too, unless
\* it is nothing.
LinesOf(text) ==
    LET pieces == SplitBy(text, LineFeed)
    IN IF Last(pieces) = << >> THEN Front(pieces) ELSE pieces

FieldsOf(line) ==
    SplitBy(IF line # << >> /\ Last(line) = CarriageReturn THEN Front(line) ELSE line,
            Comma)

\* The fields of the orders among the first lines of a file.
RecordsAmong(lines) ==
    LET records[k \in 0 .. Len(lines)] ==
            IF k = 0 THEN << >>
            ELSE IF k > 1 /\ Len(FieldsOf(lines[k])) >= 5
            THEN Append(records[k - 1], FieldsOf(lines[k]))
            ELSE records[k - 1]
    IN records

Records == LET lines == LinesOf(file) IN RecordsAmong(lines)[Len(lines)]

\* The first and the last character of a text that is no blank are at the
\* ends of what it says.
Solid(text) == {k \in DOMAIN text : text[k] \notin Blanks}

AllIn(text, from, to, C) == \A k \in from .. to : text[k] \in C
IsSign(text, from, to) == to < from \/ (to = from /\ text[from] \in {"+", "-"})

Sign(text, from, to, n) == IF from <= to /\ text[from] = "-" THEN -n ELSE n
Clamp(n) == IF n > IntMax THEN IntMax ELSE IF n < -IntMax THEN -IntMax ELSE n

\* The integers that the characters from .. to can be read as: one if they
\* are a sign and digits, held within the range of int, none otherwise.
IntegersIn(text, from, to) ==
    {Clamp(Sign(text, from, k - 1, Numeral(text, k)[to])) :
        k \in {k \in from .. to : IsSign(text, from, k - 1) /\ AllIn(text, k, to, Digits)}}

IntegersOf(text) ==
    LET solid == Solid(text)
    IN IF solid = {} THEN {} ELSE IntegersIn(text, Min(solid), Max(solid))

Points(text, from, to) == {k \in from .. to : text[k] = "."}

\* A point among digits, or none.
IsMantissa(text, from, to) ==
    /\ \E k \in from .. to : text[k] \in Digits
    /\ AllIn(text, from, to, Digits \cup {"."})
    /\ \A j, k \in Points(text, from, to) : j = k

\* Nothing, or e and an integer.
IsExponent(text, from, to) ==
    to < from \/ (text[from] \in {"e", "E"} /\ IntegersIn(text, from + 1, to) # {})

\* What a sign from first on, a mantissa from c[1] on and an exponent from c[2]
\* on mean.
MeaningOf(text, first, c, last) ==
    Decimal(c[1] > first /\ text[first] = "-",
            Numeral(text, c[1])[c[2] - 1],
            Cardinality({k \in c[1] .. c[2] - 1 : Points(text, c[1], k - 1) # {}}),
            IF last < c[2] THEN 0
            ELSE CHOOSE n \in IntegersIn(text, c[2] + 1, last) : TRUE)

DecimalsIn(text, first, last) ==
    {MeaningOf(text, first, c, last) :
        c \in {c \in (first .. last) \X (first .. last + 1) :
                  /\ IsSign(text, first, c[1] - 1)
                  /\ IsMantissa(text, c[1], c[2] - 1)
                  /\ IsExponent(text, c[2], last)}}

DecimalsOf(text) ==
    LET solid == Solid(text)
    IN IF solid = {} THEN {} ELSE DecimalsIn(text, Min(solid), Max(solid))

-----------------------------------------------------------------------------
(* Properties.                                                              *)

\* A record can be read as this message.
Says(fields, message) ==
    /\ message.side \in IntegersOf(fields[3])
    /\ message.quantity \in IntegersOf(fields[4])
    /\ message.price \in DecimalsOf(fields[5])
    /\ Len(message.coid) < CoidSize /\ Len(message.instrument) < InstrumentSize
    /\ IsPrefix(message.coid, fields[1]) /\ IsPrefix(message.instrument, fields[2])
    /\ Len(fields[1]) < CoidSize => message.coid = fields[1]
    /\ Len(fields[2]) < InstrumentSize => message.instrument = fields[2]

Malformed(fields) ==
    {} \in {IntegersOf(fields[3]), IntegersOf(fields[4])} \/ DecimalsOf(fields[5]) = {}

\* The orders published are the records of the file, in order, each field
\* with the value it says: whatever the line ends, with or without a last
\* line feed, with blanks, signs, exponents and numbers too large for an int;
\* the producer dies of a malformed number and of nothing else
\* (csv_reader.cpp:9-26, csv_order_producer.cpp:61-81, types.cpp:91-223).
MessagesAsWritten ==
    LET read == Len(messages) IN
    /\ read <= Len(Records)
    /\ \A k \in 1 .. read : Says(Records[k], messages[k])
    /\ producer = "ended" => read = Len(Records)
    /\ producer = "died" => read < Len(Records) /\ Malformed(Records[read + 1])

\* A text is as much of the characters as a C string of them holds.
UpToNul(text, chars) ==
    /\ IsPrefix(text, chars) /\ \A k \in DOMAIN text : text[k] # Nul
    /\ text # chars => chars[Len(text) + 1] = Nul

\* A report row has the form of the header (csv_report_writer.cpp:111),
\* whatever the input: one line of nine fields, where the client's texts are in
\* their columns, up to a NUL in them, the side reads back as what was read,
\* and so do the quantity asked for, if it fits the report's field, and the
\* price, to the hundredth, unless it is beyond a long long
\* (csv_report_writer.cpp:15-76, 153-185, order_processor.cpp:16-69,
\* types.cpp:235-345).  The documentation has eight columns and another
\* quantity: RowsAsDocumented.
RowsReadBack ==
    \A k \in DOMAIN reports :
        LET lines   == LinesOf(reports[k])
            fields  == SplitBy(lines[1], Comma)
            price   == messages[k].price
            cents   == Hundredths(price)
            again   == string_view_to_double(fields[7])
        IN /\ Len(lines) = 1 /\ Last(reports[k]) = LineFeed
           /\ Len(fields) = 9
           /\ UpToNul(fields[2], messages[k].coid)
           /\ UpToNul(fields[3], messages[k].instrument)
           /\ string_view_to_int(fields[4]) = Value(messages[k].side)
           /\ messages[k].quantity \in 0 .. ShortModulus - 1 =>
                string_view_to_int(fields[6]) = Value(messages[k].quantity)
           /\ cents <= LongMax /\ ~IsNaN(price) =>
                again = Value(Decimal(price.negative /\ cents > 0, cents, 2, 0))

\* What src/README.md:59-68 says of the reports, for a refused order: the
\* columns are eight, the status is Rejected, and the quantity is the number of
\* units executed, here none.  The header and the rows have nine columns, the
\* status is Reject, and the quantity is that of the order
\* (csv_report_writer.cpp:111, order_processor.cpp:151-153).
RowsAsDocumented ==
    \A k \in DOMAIN reports :
        LET fields == SplitBy(LinesOf(reports[k])[1], Comma)
        IN /\ Len(fields) = 8
           /\ fields[5] = <<"Rejected">>
           /\ string_view_to_int(fields[6]) = Value(0)

\* The loop over the rows comes to an end: every turn of it takes something
\* from the stream or is the last (csv_reader.cpp:41-47).
RowsRunOut ==
    [][producer = "advance" /\ producer' # "advance" =>
            producer' = "ended" \/ Len(stream') < Len(stream)]_vars
=============================================================================
