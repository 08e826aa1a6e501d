---------------------------- MODULE NationalNumbers ----------------------------
(***************************************************************************)
(* Belgian national numbers (services/rrn_validator.py), YYMMDD-SSS-CC     *)
(* without the punctuation that validate_rrn strips.  What is not eleven   *)
(* digits is no member of NationalNumber.                                  *)
(***************************************************************************)
EXTENDS Integers

NationalNumber ==
  [yy : 0 .. 99, mm : 0 .. 99, dd : 0 .. 99, serial : 0 .. 999, check : 0 .. 99]

\* The nine digits before the check digits, as a number.
First9(n) == ((n.yy * 100 + n.mm) * 100 + n.dd) * 1000 + n.serial

CheckDigits(x) == 97 - (x % 97)

\* The rule of those born before 2000, and of those born since, which puts a 2 before the
\* nine digits; the 2 is reduced first, to stay within the integers of TLC.
Prefix2 == (2 * 1000 * 1000 * 1000) % 97
Pre2000(n)  == CheckDigits(First9(n)) = n.check
Post2000(n) == CheckDigits(Prefix2 + First9(n)) = n.check

-----------------------------------------------------------------------------
(* Dates, as datetime.date accepts them (external).                        *)

IsLeap(y) == y % 4 = 0 /\ (y % 100 # 0 \/ y % 400 = 0)
DaysIn(y, m) ==
  IF m = 2 THEN IF IsLeap(y) THEN 29 ELSE 28
           ELSE IF m \in {4, 6, 9, 11} THEN 30 ELSE 31
IsDate(d) == d.month \in 1 .. 12 /\ d.day \in 1 .. DaysIn(d.year, d.month)

-----------------------------------------------------------------------------
(* The date of birth.                                                      *)

\* Mutant: the test for 20 comes first.
MonthTwentyFirst(n) ==
  IF n.mm > 20 THEN n.mm - 20 ELSE IF n.mm > 40 THEN n.mm - 40 ELSE n.mm
\* BIS numbers add 20 or 40 to the month.
Month(n) == IF n.mm > 40 THEN n.mm - 40 ELSE IF n.mm > 20 THEN n.mm - 20 ELSE n.mm

BirthDate(n) ==
  [year |-> (IF Post2000(n) THEN 2000 ELSE 1900) + n.yy, month |-> Month(n), day |-> n.dd]

\* validate_rrn(rrn).is_valid
IsValid(n) ==
  /\ n \in NationalNumber
  /\ Pre2000(n) \/ Post2000(n)
  /\ IsDate(BirthDate(n))
=============================================================================
