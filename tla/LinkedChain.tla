------------------------------ MODULE LinkedChain ------------------------------
(***************************************************************************)
(* What a chain of blocks promises its readers, without difficulty, time,  *)
(* stores or the order of the writes: the history is a list of blocks,     *)
(* each the child of the one before it, no transaction is in two of them,  *)
(* and no wallet ever pays what it does not have.  Blocks are added and    *)
(* removed at the end; removing may go on to the first block.              *)
(*                                                                         *)
(* BlockChain implements it (module BlockChain).                         *)
(***************************************************************************)
EXTENDS Integers, Sequences, Functions

CONSTANTS Block, Genesis, Wallet,
          Parent,   \* Parent[b]: the block b was made for
          Mined,    \* Mined[b]: its transactions that are no mining fee
          Gain      \* Gain[b][w]: what w has more (or less) after b

VARIABLE history

Balance(h, w) == SumFunction([i \in DOMAIN h |-> Gain[h[i]][w]])

Follows(h, b) ==
  /\ Parent[b] = h[Len(h)]
  /\ \A i \in DOMAIN h : Mined[h[i]] \cap Mined[b] = {}
  /\ \A w \in Wallet : Balance(h, w) + Gain[b][w] >= 0

Init == history = <<Genesis>>
Grow == \E b \in Block : history' = Append(history, b) /\ Follows(history, b)
Cut == Len(history) > 1 /\ history' = SubSeq(history, 1, Len(history) - 1)
Spec == Init /\ [][Grow \/ Cut]_history

===============================================================================
