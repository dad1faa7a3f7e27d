------------------------------ MODULE Numbers ------------------------------
(***************************************************************************)
(* The numbers of a text: valfromstring (Parser.cpp) and the selector pair *)
(* of HandleSegSelectorOperand (OperandSegSel.cpp).  A token is a sequence *)
(* of characters, of which Digit tells the value as a digit.  A selector   *)
(* has WordModulus values, an offset DwordModulus, a number QwordModulus:  *)
(* 2^16, 2^32 and 2^64.                                                    *)
(***************************************************************************)
EXTENDS Integers, SequencesExt

CONSTANTS WordModulus, DwordModulus, QwordModulus

ASSUME NumbersAssumption ==
    /\ WordModulus \in Nat /\ DwordModulus \in Nat /\ QwordModulus \in Nat
    /\ 1 < WordModulus /\ WordModulus < DwordModulus /\ 2 * DwordModulus <= QwordModulus
    /\ QwordModulus % WordModulus = 0 /\ QwordModulus % 2 = 0

Digits == [c \in {"0", "1", "9", "b"} |->
              CASE c = "0" -> 0 [] c = "1" -> 1 [] c = "9" -> 9 [] c = "b" -> 11]

IsDigit(c, radix) == c \in DOMAIN Digits /\ Digits[c] < radix

None == [ok |-> FALSE, value |-> 0]
Some(v) == [ok |-> TRUE, value |-> v]

Signed64(v) == IF v >= QwordModulus \div 2 THEN v - QwordModulus ELSE v

Negate(v) == (QwordModulus - v) % QwordModulus

-----------------------------------------------------------------------------

\* What strtoull takes before the digits: a sign, and 0x for a radix of 16.
AfterSign(s) == IF s # <<>> /\ s[1] = "-" THEN Tail(s) ELSE s

AfterMarker(s, radix) ==
    IF radix = 16 /\ Len(s) >= 3 /\ s[1] = "0" /\ s[2] = "x" /\ IsDigit(s[3], 16)
    THEN SubSeq(s, 3, Len(s)) ELSE s

Number(digits, radix) == FoldLeft(LAMBDA v, c : v * radix + Digits[c], 0, digits)

strtoull(s, radix) ==
    LET n == Number(AfterMarker(AfterSign(s), radix), radix)
    IN  IF n >= QwordModulus THEN [value |-> QwordModulus - 1, errno |-> TRUE]
        ELSE [value |-> IF AfterSign(s) = s THEN n ELSE Negate(n), errno |-> FALSE]

\* The whole token is digits, and at least one.
IsNumber(s, radix) ==
    LET digits == AfterMarker(AfterSign(s), radix)
    IN  digits # <<>> /\ \A k \in 1 .. Len(digits) : IsDigit(digits[k], radix)

\* Variant of convertNumber that takes the largest number for any larger one.
convertNumberSaturating(s, radix) ==
    IF ~IsNumber(s, radix) THEN None ELSE Some(strtoull(s, radix).value)

convertNumber(s, radix) ==
    IF ~IsNumber(s, radix) THEN None
    ELSE LET r == strtoull(s, radix)
         IN  IF r.value = QwordModulus - 1 /\ r.errno THEN None ELSE Some(r.value)

\* Past an optional 0 that x follows.
AfterZero(s) == IF Len(s) >= 2 /\ s[1] = "0" /\ s[2] = "x" THEN Tail(s) ELSE s

\* What follows the marker of the radix, and the radix.
Marked(s) ==
    LET c == IF s = <<>> THEN "" ELSE s[1]
    IN  CASE c = "x" -> [digits |-> Tail(s), radix |-> 16]
          [] c = "." -> IF Len(s) >= 2 /\ s[2] = "b"
                        THEN [digits |-> SubSeq(s, 3, Len(s)), radix |-> 2]
                        ELSE [digits |-> Tail(s), radix |-> 10]
          [] c = "o" -> [digits |-> Tail(s), radix |-> 8]
          [] OTHER   -> [digits |-> s, radix |-> 16]

Unsigned(s) == convertNumber(Marked(s).digits, Marked(s).radix)

valfromstring(text) ==
    IF text = <<>> THEN None
    ELSE LET negative == text[1] = "-"
             r == Unsigned(AfterZero(IF negative THEN Tail(text) ELSE text))
         IN  IF r.ok /\ negative THEN Some(Negate(r.value)) ELSE r

-----------------------------------------------------------------------------

\* Variant of TooLargeSelector without the absolute value.
TooLargeSelectorSigned(v) == Signed64(v) >= WordModulus

\* abs((LONGLONG)selVal) > USHRT_MAX; the absolute value of the least number
\* is that number again.
TooLargeSelector(v) ==
    LET s == Signed64(v)
    IN  s # -(QwordModulus \div 2) /\ (s >= WordModulus \/ -s >= WordModulus)

\* Before the first colon, and after the last.
SelectorText(s) == SubSeq(s, 1, SelectInSeq(s, LAMBDA c : c = ":") - 1)
OffsetText(s) == SubSeq(s, SelectLastInSeq(s, LAMBDA c : c = ":") + 1, Len(s))

\* HandleSegSelectorOperand, where callback is what cbUnknown says of the offset.
SegSel(s, callback) ==
    LET selector == valfromstring(SelectorText(s))
        number   == valfromstring(OffsetText(s))
        offset   == IF number.ok THEN number ELSE callback
    IN  [ok |-> /\ SelectorText(s) # <<>> /\ selector.ok /\ ~TooLargeSelector(selector.value)
                /\ OffsetText(s) # <<>> /\ offset.ok,
         Selector |-> selector.value % WordModulus, Offset |-> offset.value % DwordModulus]
=============================================================================
