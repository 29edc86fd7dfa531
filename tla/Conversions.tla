----------------------------- MODULE Conversions -----------------------------
(***************************************************************************)
(* Between texts and numbers: src/src/common/types.cpp and the helpers of   *)
(* the report writer.  A text is a sequence of characters, a character a    *)
(* string of length one.                                                    *)
(*                                                                          *)
(* A double is what its text says, exactly: the sign, the digits as one     *)
(* number, how many of them stand behind the point, and the exponent.  The  *)
(* rounding of binary fractions is left out.  The widths of the machine's   *)
(* types are constants.                                                     *)
(***************************************************************************)
EXTENDS Integers, Sequences, SequencesExt

CONSTANTS
    IntMax,         \* numeric_limits<int>::max()
    LongMax,        \* numeric_limits<long long>::max()
    TickMax,        \* numeric_limits<PriceTick>::max()
    MaxExponent,    \* the largest n for which pow(10, n) is finite
    MaxShift,       \* bound: the largest power of ten to work with
    MaxQuantity,    \* MAX_QUANTITY
    QuantitySize    \* the size of an entry of kQuantityText

ASSUME ConversionsAssumption ==
    /\ IntMax \in Nat /\ IntMax >= 10
    /\ LongMax \in Nat /\ TickMax \in Nat /\ LongMax < TickMax
    /\ MaxExponent \in Nat /\ MaxShift \in Nat
    /\ MaxQuantity \in Nat /\ QuantitySize \in Nat \ {0, 1}

DigitChars == <<"0", "1", "2", "3", "4", "5", "6", "7", "8", "9">>
Digits == {DigitChars[k] : k \in DOMAIN DigitChars}
DigitValue(c) == (CHOOSE k \in DOMAIN DigitChars : DigitChars[k] = c) - 1
Blanks == {" ", "\t"}

\* The first place from i on that holds none of the characters of C.
Skip(text, i, C) ==
    CHOOSE j \in i .. Len(text) + 1 :
        /\ j = Len(text) + 1 \/ text[j] \notin C
        /\ \A k \in i .. j - 1 : text[k] \in C

HasOneOf(text, i, C) == i <= Len(text) /\ text[i] \in C

\* A parser throws invalid_argument or returns a value.
Throws == << >>
Value(v) == <<v>>

\* MUTANT: the limit is taken without the digit.
Accumulate_NoDigit(result, c) ==
    IF result > IntMax \div 10 THEN IntMax
    ELSE result * 10 + DigitValue(c)

\* One more digit, held at the largest int.  From there it stays: the code
\* skips the remaining digits of an integer, and tests those of an exponent.
Accumulate(result, c) ==
    IF result > (IntMax - DigitValue(c)) \div 10 THEN IntMax
    ELSE result * 10 + DigitValue(c)

\* The digits from .. to of a text.
Accumulated(sv, from, to) ==
    LET result[k \in 0 .. to] ==
            IF k < from THEN 0 ELSE Accumulate(result[k - 1], sv[k])
    IN result[to]

string_view_to_int(sv) ==
    LET sign     == Skip(sv, 1, Blanks)
        first    == IF HasOneOf(sv, sign, {"-", "+"}) THEN sign + 1 ELSE sign
        past     == Skip(sv, first, Digits)
        end      == Skip(sv, past, Blanks)
        result   == Accumulated(sv, first, past - 1)
    IN IF sign > Len(sv) \/ past = first \/ end # Len(sv) + 1 THEN Throws
       ELSE Value(IF sv[sign] = "-" THEN -result ELSE result)

Decimal(negative, digits, places, exponent) ==
    [negative |-> negative, digits |-> digits, places |-> places,
     exponent |-> exponent]

\* Up to each place: the digits from a place on as one number, with no regard
\* to a point among them.
Numeral(text, from) ==
    LET number[k \in 0 .. Len(text)] ==
            IF k < from THEN 0
            ELSE IF text[k] \in Digits THEN number[k - 1] * 10 + DigitValue(text[k])
            ELSE number[k - 1]
    IN number

string_view_to_double(sv) ==
    LET sign     == Skip(sv, 1, Blanks)
        whole    == IF HasOneOf(sv, sign, {"-", "+"}) THEN sign + 1 ELSE sign
        point    == Skip(sv, whole, Digits)
        fraction == IF HasOneOf(sv, point, {"."}) THEN point + 1 ELSE point
        past     == IF fraction = point THEN point ELSE Skip(sv, fraction, Digits)
        scaled   == HasOneOf(sv, past, {"e", "E"})
        power    == IF HasOneOf(sv, past + 1, {"-", "+"}) THEN past + 2
                    ELSE past + 1
        end      == IF scaled THEN Skip(sv, power, Digits) ELSE past
        exponent == IF scaled THEN Accumulated(sv, power, end - 1) ELSE 0
    IN IF \/ sign > Len(sv)
          \/ whole = point /\ fraction = past
          \/ scaled /\ end = power
          \/ Skip(sv, end, Blanks) # Len(sv) + 1
       THEN Throws
       ELSE Value(Decimal(sv[sign] = "-",
                          Numeral(sv, whole)[past - 1],
                          past - fraction,
                          IF scaled /\ sv[past + 1] = "-" THEN -exponent
                                                          ELSE exponent))

-----------------------------------------------------------------------------
(* From numbers to texts.                                                   *)

\* 0 times an infinite power is no number.
IsNaN(price) == price.digits = 0 /\ price.exponent > MaxExponent

PowersOfTen ==
    LET power[k \in 0 .. MaxShift] == IF k = 0 THEN 1 ELSE 10 * power[k - 1]
    IN power

\* The amount in hundredths, rounded half away from zero; TickMax + 1 stands
\* for all that is far too large, infinity included.  A shift of more than
\* MaxShift places is not carried out: up it leads beyond TickMax, down to
\* nothing, if MaxShift is large enough for the limits and the texts.
Hundredths(price) ==
    LET shift == price.exponent + 2 - price.places
        unit  == PowersOfTen[-shift]
    IN IF price.digits = 0 THEN 0
       ELSE IF price.exponent > MaxExponent \/ shift > MaxShift THEN TickMax + 1
       ELSE IF shift < -MaxShift THEN 0
       ELSE IF shift >= 0 THEN price.digits * PowersOfTen[shift]
       ELSE (2 * price.digits + unit) \div (2 * unit)

\* The tick of an amount that is not negative.  llround has no promised
\* answer between the two limits: the least, the greatest and no long long
\* stand for it.
double_to_ticks(price) ==
    LET ticks == Hundredths(price)
    IN IF ticks >= TickMax THEN {TickMax}
       ELSE IF ticks > LongMax THEN {0, LongMax, LongMax + 1} ELSE {ticks}

\* A number without its last digit, the last two, and so on.
Shortened(n) ==
    LET left[k \in 0 .. n + 1] == IF k = 0 THEN n ELSE left[k - 1] \div 10
    IN left

\* std::to_chars.
DigitsOf(n) ==
    LET left  == Shortened(n)
        count == CHOOSE k \in 1 .. n + 1 : left[k] = 0 /\ (k = 1 \/ left[k - 1] # 0)
    IN [k \in 1 .. count |-> DigitChars[(left[count - k] % 10) + 1]]

to_chars(n) == IF n < 0 THEN <<"-">> \o DigitsOf(-n) ELSE DigitsOf(n)

\* MUTANT: the hundredths are written without a leading zero.
Amount_NoZero(cents) == DigitsOf(cents \div 100) \o <<".">> \o DigitsOf(cents % 100)

\* Units, a point and two digits.
Amount(cents) ==
    DigitsOf(cents \div 100)
        \o <<".", DigitChars[((cents % 100) \div 10) + 1],
                  DigitChars[(cents % 10) + 1]>>

\* A text and its terminator fit into the buffer, or nothing is written.
Into(buffer_size, text) == IF Len(text) < buffer_size THEN text ELSE << >>

format_ticks_to_buffer(ticks, buffer_size) == Into(buffer_size, Amount(ticks))

\* The texts a price may be given: what is below zero has a sign unless it
\* rounds to nothing, what is no number or too far below has no text.
format_price_to_buffer(price, buffer_size) ==
    LET cents == Hundredths(price)
    IN IF IsNaN(price) THEN {<< >>}
       ELSE IF ~price.negative \/ price.digits = 0
       THEN {format_ticks_to_buffer(t, buffer_size) : t \in double_to_ticks(price)}
       ELSE IF cents > LongMax + 1 THEN {<< >>}
       ELSE {Into(buffer_size,
                  (IF cents > 0 THEN <<"-">> ELSE << >>) \o Amount(cents))}

\* The two sides and any other number alike.
write_side_to_buffer(side) == to_chars(side)

\* The table of texts made when the program is loaded: a number with no room
\* for its digits and the terminator would have that of 0.
kQuantityText ==
    [i \in 0 .. MaxQuantity |->
        IF Len(to_chars(i)) < QuantitySize THEN to_chars(i) ELSE <<"0">>]

\* An entry of the table holds the digits of each of its numbers.
ASSUME QuantityTextAssumption ==
    \A i \in 0 .. MaxQuantity : Len(to_chars(i)) < QuantitySize

write_quantity_to_buffer(quantity) ==
    IF quantity \in 0 .. MaxQuantity THEN kQuantityText[quantity]
    ELSE to_chars(quantity)
=============================================================================
