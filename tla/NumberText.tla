----------------------------- MODULE NumberText -----------------------------
(* The numbers of a FIX message: fix_field_unparse writes them with the     *)
(* encoders of itoa.c and with modp_dtoa2, the parser reads them back.  A   *)
(* text is a sequence of digits, Minus and Point.  A floating point number  *)
(* is a whole number of quarters of its last decimal: the code tells apart  *)
(* what lies below, on and above the half, and nothing finer.               *)
EXTENDS Integers, Sequences, SequencesExt

CONSTANTS Precision,   \* decimals of a float; fix_field_unparse asks for 7
          Word,        \* how many values an int has (2^32)
          Numbers,     \* the integers, tags and sums to write,
          Tags,
          Sums,
          Floats       \* and the floats, in quarters

ASSUME NumberAssumption ==
    /\ Precision \in Nat \ {0}
    /\ Word \in Nat /\ Word > 0 /\ Word % 2 = 0
    /\ Numbers \subseteq Int /\ Floats \subseteq Int
    /\ Tags \subseteq 0 .. Word \div 2 - 1
    /\ Sums \subseteq 0 .. 255

VARIABLES type,    \* of the field: "none" before it is written
          number,  \* what was to be written
          text,    \* what was written
          read     \* what the parser made of it: << >> until it did

vars == <<type, number, text, read>>

Digit == 0 .. 9
Minus == -1
Point == -2
SOH == -3           \* the delimiter that follows every value

TypeOK ==
    /\ type \in {"none", "Int", "Tag", "CheckSum", "Float"}
    /\ number \in Int
    /\ text \in Seq(Digit \cup {Minus, Point})
    /\ read \in Seq(Int) /\ Len(read) <= 1
-----------------------------------------------------------------------------
(* itoa.c                                                                   *)

IntMax == Word \div 2 - 1
IntMin == -(Word \div 2)

\* itoa_tab
Pair(n) == <<n \div 10, n % 10>>

Mutuilog_10(n) == CHOOSE k \in 1 .. 10 : n <= 10 ^ k /\ \A j \in 1 .. k - 1 : n > 10 ^ j
uilog_10(n) == CHOOSE k \in 1 .. 10 : n < 10 ^ k /\ \A j \in 1 .. k - 1 : n >= 10 ^ j

\* Two digits at a time, the last pair first, into a place of uilog_10 digits.
Pairs[n \in Nat] ==
    IF n < 100 THEN (IF n < 10 THEN <<n>> ELSE Pair(n))
               ELSE Pairs[n \div 100] \o Pair(n % 100)

uitoa_general(n) ==
    LET before == uilog_10(n) - Len(Pairs[n])
    IN  [k \in 1 .. uilog_10(n) |-> IF k > before THEN Pairs[n][k - before] ELSE SOH]

uitoa(n) ==
    CASE n \in 0 .. 9   -> <<n>>
      [] n \in 10 .. 99 -> Pair(n)
      [] OTHER          -> uitoa_general(n)

\* The negation is done on an unsigned int.
itoa(n) ==
    IF n < 0 THEN <<Minus>> \o uitoa((-n) % Word) ELSE uitoa(n)

\* sprintf, external
Printed[n \in Nat] ==
    IF n < 10 THEN <<n>> ELSE Append(Printed[n \div 10], n % 10)
Decimal(n) == IF n < 0 THEN <<Minus>> \o Printed[-n] ELSE Printed[n]

i64toa(n) == IF n > IntMax \/ n < IntMin THEN Decimal(n) ELSE itoa(n)

checksumtoa(n) == IF n \in 0 .. 99 THEN <<0>> \o Pair(n) ELSE uitoa_general(n)
-----------------------------------------------------------------------------
(* modp_dtoa2.  Left out are values that are no number or beyond 2^31, and  *)
(* a precision of 0, which nothing asks for.                                *)

Power == 10 ^ Precision

\* A float's parts: the whole number, the decimals, and what is left of them.
Whole(q) == q \div (4 * Power)
Frac(q)  == (q % (4 * Power)) \div 4
Left(q)  == q % 4

MutRounded(q) ==
    IF Left(q) > 2 THEN <<Whole(q), Frac(q) + 1>> ELSE <<Whole(q), Frac(q)>>
Rounded(q) ==
    CASE Left(q) > 2 /\ Frac(q) + 1 >= Power -> <<Whole(q) + 1, 0>>
      [] Left(q) > 2 /\ Frac(q) + 1 < Power  -> <<Whole(q), Frac(q) + 1>>
      [] Left(q) = 2 /\ (Frac(q) = 0 \/ Frac(q) % 2 = 1) -> <<Whole(q), Frac(q) + 1>>
      [] OTHER -> <<Whole(q), Frac(q)>>

\* The decimals without the zeros at their end; the zeros before them are put
\* back as long as there is room for them in Precision decimals.
TrailingZeros(frac) ==
    CHOOSE k \in 0 .. Precision :
       frac % 10 ^ k = 0 /\ (k < Precision => frac % 10 ^ (k + 1) # 0)

Decimals(frac) ==
    LET zeros  == TrailingZeros(frac)
        digits == Printed[frac \div 10 ^ zeros]
    IN  [k \in 1 .. Precision - zeros - Len(digits) |-> 0] \o digits

MutUnsignedText(whole, frac) ==
    Printed[whole] \o <<Point>> \o [k \in 1 .. Precision |-> (frac \div 10 ^ (Precision - k)) % 10]
UnsignedText(whole, frac) ==
    IF frac = 0 THEN Printed[whole] ELSE Printed[whole] \o <<Point>> \o Decimals(frac)

modp_dtoa2(q) ==
    LET rounded == Rounded(IF q < 0 THEN -q ELSE q)
        digits  == UnsignedText(rounded[1], rounded[2])
    IN  IF q < 0 THEN <<Minus>> \o digits ELSE digits
-----------------------------------------------------------------------------
(* The parser                                                               *)

\* Reading stops at the first character that is no digit.
Digits(s) ==
    SubSeq(s, 1, CHOOSE k \in 0 .. Len(s) - 1 :
                    s[k + 1] \notin Digit /\ \A j \in 1 .. k : s[j] \in Digit)
ValueOf(s) == FoldLeft(LAMBDA ret, d : ret * 10 + d, 0, Digits(s))

\* An int that overflows wraps around.
fix_uatoi(s) == ((ValueOf(s) + Word \div 2) % Word) - Word \div 2
fix_atoi64(s) == IF Head(s) = Minus THEN -ValueOf(Tail(s)) ELSE ValueOf(s)

\* strtod (external): the decimals after the point, if there is one.
strtod(s) ==
    LET signed   == Head(s) = Minus
        body     == IF signed THEN Tail(s) ELSE s
        whole    == Digits(body)
        rest     == SubSeq(body, Len(whole) + 1, Len(body))
        decimals == IF Head(rest) = Point THEN Digits(Tail(rest)) ELSE << >>
        quarters == 4 * (ValueOf(whole \o <<SOH>>) * Power
                          + ValueOf(decimals \o <<SOH>>) * 10 ^ (Precision - Len(decimals)))
    IN  IF signed THEN -quarters ELSE quarters
-----------------------------------------------------------------------------
Init == type = "none" /\ number = 0 /\ text = << >> /\ read = << >>

Write(kind, n, digits) ==
    /\ type = "none"
    /\ type' = kind /\ number' = n /\ text' = digits
    /\ UNCHANGED read

WriteInt == \E n \in Numbers : Write("Int", n, i64toa(n))
WriteTag == \E n \in Tags : Write("Tag", n, uitoa(n))
WriteCheckSum == \E n \in Sums : Write("CheckSum", n, checksumtoa(n))
WriteFloat == \E q \in Floats : Write("Float", q, modp_dtoa2(q))

ReadField ==
    /\ type # "none" /\ read = << >>
    /\ LET value == Append(text, SOH)
       IN  read' = <<CASE type = "Int"   -> fix_atoi64(value)
                      [] type = "Float" -> strtod(value)
                      [] OTHER          -> fix_uatoi(value)>>
    /\ UNCHANGED <<type, number, text>>

Ended == read # << >> /\ UNCHANGED vars

Next == WriteInt \/ WriteTag \/ WriteCheckSum \/ WriteFloat \/ ReadField \/ Ended

Spec == Init /\ [][Next]_vars
-----------------------------------------------------------------------------
(* Properties                                                               *)

\* Every integer and tag is written as sprintf writes it, at the limits of an int and
\* beyond them too, and a checksum in the three digits FIX requires; and each is
\* read as the number that was written (itoa.c, fix_message.c:130-160).
IntegersTravel ==
    /\ type \in {"Int", "Tag"} => text = Decimal(number)
    /\ type = "CheckSum" => Len(text) = 3
    /\ (read # << >> /\ type # "Float") => read[1] = number

Abs(n) == IF n < 0 THEN -n ELSE n

\* What lies on the half above decimals that are all nines is not carried into
\* the whole number: the decimals are written as .1.
OnHalfOfNines(q) == Left(Abs(q)) = 2 /\ Frac(Abs(q)) = Power - 1

\* A float is read as the nearest number of Precision decimals, and so unchanged
\* when it has no more of them; the next whole number is included when its
\* decimals round up to it, except on the half above all nines
\* (modp_dtoa2).
FloatsNearest ==
    (type = "Float" /\ read # << >> /\ ~OnHalfOfNines(number))
       => Abs(read[1] - number) <= 2

\* A float is written in its shortest form: no zero at the end of the decimals,
\* no point without decimals, no zero before the whole number
\* (fix_message.c:884, "dtoa2 do not print leading zeros or .0").
FloatsShort ==
    (type = "Float") =>
       LET body == IF Head(text) = Minus THEN Tail(text) ELSE text
       IN  /\ Contains(text, Point) => Last(text) \in 1 .. 9
           /\ Head(body) = 0 => Len(body) = 1 \/ body[2] = Point
=============================================================================
