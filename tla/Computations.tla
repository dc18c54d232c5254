------------------------------ MODULE Computations -----------------------------
(***************************************************************************)
(* Two computations of the pool, for every input.  The payout of a round   *)
(* (PayoutMath): what its transactions add up to, for any distribution of  *)
(* the shares and any balance of the wallet.  The leading zero bits of a   *)
(* hash (ProofOfWork), for any hash.  A step chooses one and its input.    *)
(***************************************************************************)
EXTENDS PayoutMath, ProofOfWork, FiniteSets

CONSTANTS Participants, \* those with a share in the round
          MaxRow,       \* bound on the shares of one participant
          MaxMined,     \* bound on the wallet's balance
          HashValue     \* hashes

ASSUME ComputationsAssumption ==
  /\ IsFiniteSet(Participants) /\ MaxRow \in Nat /\ MaxMined \in Nat
  /\ \A hash \in HashValue : hash \in Seq(0 .. 255) /\ hash # <<>>

VARIABLE input

ComputationsInit == input = [of |-> "nothing"]
PayRound ==
  input' \in [of : {"payout"}, shares : [Participants -> 0 .. MaxRow], mined : 0 .. MaxMined]
CountZeros == input' \in [of : {"zeros"}, hash : HashValue]
ComputationsNext == PayRound \/ CountZeros
ComputationsSpec == ComputationsInit /\ [][ComputationsNext]_input

-------------------------------------------------------------------------------
\* The round's total of shares is the sum of its rows (PoolRounds says why).
Total == SumFunction(input.shares)
Paid(a) == Payout(input.mined, input.shares[a], Total)
Payouts == [a \in Participants |-> Paid(a)]

\* The transactions of a round never take more than the participants' part of the
\* mined balance: their payouts and fees together stay within (100 - Fee) percent of
\* it, whatever the rounding does, so the last transaction of the round is not
\* refused for lack of funds; and with the owner's transaction no more is sent than
\* was mined, and no more than one transaction fee stays behind.
RoundCovered ==
  input.of = "payout" =>
    LET own  == OwnerAmount(input.mined, Payouts)
        sent == PayoutSum(Payouts) + (IF own > 0 THEN own + TxFee ELSE 0)
    IN  /\ 100 * PayoutSum(Payouts) <= (100 - Fee) * input.mined
        /\ sent <= input.mined /\ input.mined - sent <= TxFee

\* The exact contribution of a participant: (100 - Fee) percent of the mined balance
\* in proportion to its shares, a hundred times the total to keep it whole.
Exact(a) == (100 - Fee) * input.mined * input.shares[a]
LossBelow(loss) ==
  \A a \in Participants :
    input.shares[a] > 0 => Exact(a) - 100 * Total * Paid(a) < 100 * Total * loss

\* What stratum-protocol.md:87 says of a payout: "The amount is floored on leaf level
\* (i.e. rounding may cause loss of less than 1 leaf in worst case compared to the exact
\* contribution based on pool shares)".
LossBelowOneLeaf == input.of = "payout" => LossBelow(1)

\* What holds instead: nobody is paid more than the exact contribution, and as long as
\* the round has at least as many shares as mined leaves, the roundings of the code (the
\* divisor's and its extra 1, the floor, and the leaf held back for the transaction fee)
\* together cost a participant less than 4 leaves.
LossBounded ==
  input.of = "payout" =>
    /\ \A a \in Participants : 100 * Total * Paid(a) <= Exact(a)
    /\ input.mined <= Total => LossBelow(4)

-------------------------------------------------------------------------------
\* A share that the pool credits for its zeros is a nonce that the node takes at
\* that difficulty, and the other way round: a nonce that reaches the difficulty of
\* the block has as many zeros as the pool compares, at the boundary of each byte
\* and for the hash that is zero all through.
ZerosAgree ==
  input.of = "zeros" =>
    \A c \in 0 .. 8 * Len(input.hash) :
      CheckLeadingZeroBits(input.hash, c) <=> Zeros(input.hash) >= c

===============================================================================
