------------------------------- MODULE Digits -------------------------------
(***************************************************************************)
(* Numbers by their digits, least significant first: what shifts, masks    *)
(* and int.from_bytes compute.  The recursion is over positions, so that   *)
(* no power of the base is ever formed.                                    *)
(***************************************************************************)
EXTENDS Integers, Sequences

\* What is left of a value once n digits are taken off: value >> n groups.
Left(value, base, n) ==
  LET left[i \in Nat] == IF i = 0 THEN value ELSE left[i - 1] \div base
  IN  left[n]

\* Its digit number i, from 1.
Digit(value, base, i) == Left(value, base, i - 1) % base

\* How many it takes to write it; zero takes one.
DigitCount(value, base) ==
  CHOOSE k \in 1 .. value + 1 :
    Left(value, base, k) = 0 /\ \A i \in 1 .. k - 1 : Left(value, base, i) # 0

\* The number that has these digits.
NumberOf(digits, base) ==
  LET above[k \in 0 .. Len(digits)] ==
        IF k = 0 THEN 0 ELSE digits[Len(digits) + 1 - k] + base * above[k - 1]
  IN  above[Len(digits)]

=============================================================================
