------------------------------ MODULE Difficulty ------------------------------
(***************************************************************************)
(* computeDifficulty of src/c++/src/server/blockchain.cpp: from the        *)
(* difficulty of a period's blocks, the time they took and the time they   *)
(* should have taken, the difficulty of the next period.                   *)
(*                                                                         *)
(* The code keeps a multiplier k and divides or multiplies the elapsed     *)
(* time by it; here `e' is the time already divided or multiplied, which   *)
(* is the same number (a truncated quotient halved is the truncated        *)
(* quotient by the double).                                                *)
(***************************************************************************)
EXTENDS Integers

LeastDifficulty == 16        \* MIN_DIFFICULTY, written 16 in the code
GreatestDifficulty == 254

Distance(a, b) == IF a < b THEN b - a ELSE a - b

\* One difficulty less halves the time, as long as that is no further away.
Ease[d \in Nat, e \in Nat, expected \in Nat] ==
  IF d > LeastDifficulty /\ Distance(e \div 2, expected) <= Distance(e, expected)
  THEN Ease[d - 1, e \div 2, expected] ELSE d

\* One difficulty more doubles it.
Harden[d \in Nat, e \in Int, expected \in Nat] ==
  IF d < GreatestDifficulty /\ Distance(2 * e, expected) <= Distance(e, expected)
  THEN Harden[d + 1, 2 * e, expected] ELSE d

\* Mutant: a period much too long eases one step only.
EaseOnce(current, elapsed, expected) ==
  IF elapsed <= expected THEN Harden[current, elapsed, expected]
  ELSE IF current > LeastDifficulty /\ Distance(elapsed \div 2, expected) <= Distance(elapsed, expected)
  THEN current - 1 ELSE current

ComputeDifficulty(current, elapsed, expected) ==
  IF elapsed > expected THEN Ease[current, elapsed, expected]
                        ELSE Harden[current, elapsed, expected]

===============================================================================
