-------------------------------- MODULE MCNode --------------------------------
(***************************************************************************)
(* Node with three blocks besides the first and three transactions.  The   *)
(* block o2 executes a transaction and fails at the next.                  *)
(***************************************************************************)
EXTENDS Node

Wallets == {"miner", "alice", "bob", "null"}

Body(from, to, amount, fees, hash) ==
  [fee |-> FALSE, from |-> from, to |-> to, amount |-> amount, fees |-> fees,
   signed |-> TRUE, signer |-> from, hash |-> hash]
Reward(to, amount, hash) ==
  [Body("null", to, amount, 0, hash) EXCEPT !.fee = TRUE]
TxBodies ==
  [f |-> Reward("miner", 5, 50), p |-> Body("null", "alice", 10, 0, 10),
   t1 |-> Body("alice", "bob", 4, 1, 60), t2 |-> Body("alice", "bob", 3, 0, 11),
   t3 |-> Body("bob", "alice", 2, 0, 12), t4 |-> Body("bob", "alice", 7, 0, 5)]
Txs == DOMAIN TxBodies

B(id, parent, txs) ==
  [id |-> id, parent |-> parent, difficulty |-> 16, time |-> 0,
   nonceOk |-> TRUE, rootOk |-> TRUE, txs |-> txs]
BlockBodies ==
  [g |-> B(1, "none", <<"f", "p">>), a2 |-> B(2, "g", <<"f", "t1">>),
   a3 |-> B(3, "a2", <<"f", "t3">>), o2 |-> B(2, "g", <<"f", "t1", "t4">>)]
Blocks == DOMAIN BlockBodies

\* For the liveness run: one block that can be added, one that fails.
FewBlockBodies == [b \in {"g", "a2", "o2"} |-> BlockBodies[b]]
FewBlocks == DOMAIN FewBlockBodies

Eras == <<10>>
Fees == <<5>>

===============================================================================
