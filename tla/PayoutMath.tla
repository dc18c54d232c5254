------------------------------ MODULE PayoutMath ------------------------------
(***************************************************************************)
(* The arithmetic of a round's payout, src/shifupool/lib/bmbpool/payout/   *)
(* payout/task.ex:17-95.  Amounts are in leaves, the coin's smallest unit. *)
(* A round pays the participants in proportion to their shares, after the  *)
(* pool's fee, and what is left goes to the pool's owner.                  *)
(*                                                                         *)
(* The code computes the divisor in floating point and rounds it; here it  *)
(* is the exact rational rounded to the nearest integer, which agrees with *)
(* the float for share totals below 2^53 / 100.                            *)
(***************************************************************************)
EXTENDS Integers, Functions

CONSTANT Fee    \* the pool's fee in percent

\* runtime.exs refuses to start the pool with any other fee.
ASSUME FeeAssumption == Fee \in 0..50

\* The fee of one transaction on the chain.
TxFee == 1

\* round(total * (100 / (100 - poolfee)) + 1)
Divisor(total) == 1 + (200 * total + (100 - Fee)) \div (2 * (100 - Fee))

\* What a participant with `amount' of the round's `total' shares is paid of
\* the `mined' leaves; a participant whose payout is 0 gets no transaction.
Payout(mined, amount, total) ==
  LET p == ((mined * amount) \div Divisor(total)) - 1
  IN  IF p > 0 THEN p ELSE 0

\* What the transactions of a round take from its wallet: every positive
\* payout and the fee of its transaction.
PayoutSum(payout) ==
  SumFunction([a \in DOMAIN payout |-> IF payout[a] > 0 THEN payout[a] + TxFee ELSE 0])

\* What is left for the owner.
Keep(mined, payout) == mined - PayoutSum(payout)

\* Mutant: the owner's transaction fee is not subtracted.
OwnerAmountWithFee(mined, payout) ==
  IF Keep(mined, payout) > TxFee THEN Keep(mined, payout) ELSE 0

\* The amount of the owner's transaction, made only when it is positive.
OwnerAmount(mined, payout) ==
  IF Keep(mined, payout) > TxFee THEN Keep(mined, payout) - TxFee ELSE 0
================================================================================
