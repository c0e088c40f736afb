---------------------------- MODULE SalaryFormat ----------------------------
(***************************************************************************)
(* format_salary_idr, the written form of a salary in an offer letter:     *)
(* "Rp 12.000.000,50".  The amount is a decimal of any scale; here it has  *)
(* up to three places, one more than a salary is written with.  A text is  *)
(* the sequence of its characters; the "Rp" in front is left out.          *)
(***************************************************************************)
EXTENDS Integers, SequencesExt

DigitName == <<"0", "1", "2", "3", "4", "5", "6", "7", "8", "9">>
Digit(k) == DigitName[k + 1]

Character == {DigitName[i] : i \in DOMAIN DigitName} \cup {".", ","}

(* The decimal digits of a natural number, as to_string prints them.       *)
Digits[n \in Nat] ==
  IF n < 10 THEN <<Digit(n)>> ELSE Digits[n \div 10] \o <<Digit(n % 10)>>

(* The loop of the code: a dot before every digit that starts a complete   *)
(* group of three, counted from the right, the first digit excepted.       *)
Grouped_LeadingDot(n) ==
  LET d == Digits[n]
  IN FlattenSeq([i \in 1..Len(d) |->
       IF (Len(d) - (i - 1)) % 3 = 0 THEN <<".", d[i]>> ELSE <<d[i]>>])

Grouped(n) ==
  LET d == Digits[n]
  IN FlattenSeq([i \in 1..Len(d) |->
       IF i > 1 /\ (Len(d) - (i - 1)) % 3 = 0 THEN <<".", d[i]>> ELSE <<d[i]>>])

(* Hundredths of the fraction, rounded to the nearest, ties to even.       *)
Cents(m) ==
  LET down == m \div 10 IN
  IF m % 10 > 5 \/ (m % 10 = 5 /\ down % 2 = 1) THEN down + 1 ELSE down

(* Cents are written only when there are any, and padded to two digits.    *)
CentsText_Unpadded(c) == IF c = 0 THEN <<>> ELSE <<",">> \o Digits[c]

CentsText(c) ==
  CASE c = 0           -> <<>>
    [] c \in 1..9      -> <<",", "0">> \o Digits[c]
    [] OTHER           -> <<",">> \o Digits[c]

FormatSalaryIdr(n, m) == Grouped(n) \o CentsText(Cents(m))

-----------------------------------------------------------------------------
(* What a reader makes of a written amount.                                *)

(* Thousands, the way one writes them by hand: the last three digits, with *)
(* all that stands before them and a dot in front.                         *)
ByHand[n \in Nat] ==
  IF n < 1000 THEN Digits[n]
  ELSE ByHand[n \div 1000] \o <<".">> \o Tail(Digits[1000 + (n % 1000)])

IsDigit(ch) == \E i \in DOMAIN DigitName : DigitName[i] = ch

ValueOf(ch) == (CHOOSE i \in DOMAIN DigitName : DigitName[i] = ch) - 1

NumberIn[text \in Seq(Character)] ==
  IF text = <<>> THEN 0
  ELSE IF IsDigit(Last(text)) THEN 10 * NumberIn[Front(text)] + ValueOf(Last(text))
  ELSE NumberIn[Front(text)]

CommaAt(text) == SelectInSeq(text, LAMBDA ch : ch = ",")

WholePart(text) ==
  IF CommaAt(text) = 0 THEN text ELSE SubSeq(text, 1, CommaAt(text) - 1)

CentsPart(text) ==
  IF CommaAt(text) = 0 THEN <<>> ELSE SubSeq(text, CommaAt(text) + 1, Len(text))
=============================================================================
