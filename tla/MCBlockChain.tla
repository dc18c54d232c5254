----------------------------- MODULE MCBlockChain -----------------------------
(***************************************************************************)
(* BlockChain on a small universe of blocks: a chain of seven (the mining  *)
(* fee changes three times, the difficulty once), two forks, and for every *)
(* check of addBlock and ExecuteBlock a block that fails it.               *)
(***************************************************************************)
EXTENDS BlockChain

Wallets == {"miner", "alice", "bob", "carol", "null"}

Body(from, to, amount, fees, hash) ==
  [fee |-> FALSE, from |-> from, to |-> to, amount |-> amount, fees |-> fees,
   signed |-> TRUE, signer |-> from, hash |-> hash]
Reward(to, amount, hash) ==
  [Body("null", to, amount, 0, hash) EXCEPT !.fee = TRUE]

TxBodies ==
  [f5 |-> Reward("miner", 5, 50), f5b |-> Reward("bob", 5, 51), f2 |-> Reward("miner", 2, 30),
   f1 |-> Reward("miner", 1, 31), f0 |-> Reward("miner", 0, 32),
   p0 |-> Body("null", "alice", 10, 0, 10), t1 |-> Body("alice", "bob", 3, 1, 60),
   t2 |-> Body("bob", "alice", 2, 0, 11), t3 |-> Body("bob", "carol", 1, 0, 61),
   t4 |-> Body("alice", "bob", 9, 2, 12), t5 |-> Body("alice", "alice", 2, 1, 13),
   t6 |-> [Body("alice", "bob", 1, 0, 14) EXCEPT !.signed = FALSE],
   t7 |-> [Body("alice", "bob", 1, 0, 15) EXCEPT !.signer = "bob"],
   t8 |-> Body("carol", "bob", 1, 0, 16), t9 |-> Body("carol", "bob", 0, 0, 17)]

B(id, parent, time, txs) ==
  [id |-> id, parent |-> parent, difficulty |-> 16, time |-> time,
   nonceOk |-> TRUE, rootOk |-> TRUE, txs |-> txs]

BlockBodies ==
  [g |-> B(1, "none", 0, <<"f5", "p0">>),
   a2 |-> B(2, "g", 10, <<"f5", "t1">>), a3 |-> B(3, "a2", 15, <<"t2", "f2">>),
   a4 |-> B(4, "a3", 20, <<"f2", "t5">>), a5 |-> B(5, "a4", 25, <<"f1">>),
   a6 |-> B(6, "a5", 30, <<"f1">>), a7w |-> B(7, "a6", 35, <<"f0">>),
   a7 |-> [B(7, "a6", 35, <<"f0">>) EXCEPT !.difficulty = 17],
   \* forks, on the first block and the second
   b2 |-> B(2, "g", 11, <<"f5b">>), b3 |-> B(3, "b2", 16, <<"f2", "t1", "t3">>),
   b4 |-> B(4, "b3", 21, <<"f2", "t7">>),
   d3 |-> B(3, "a2", 15, <<"f2", "t2", "t2">>), k3 |-> B(3, "a2", 15, <<"f2", "t9">>),
   \* refused after execution began: the overdraft comes last
   o3 |-> B(3, "b2", 16, <<"t4", "t3", "f2">>), s3 |-> B(3, "a2", 15, <<"t3", "f2", "t8", "t6">>),
   u5 |-> B(5, "a4", 25, <<"f1", "t7">>),
   \* refused before
   x3 |-> B(3, "a2", 15, <<"f2", "t1">>), y3 |-> B(3, "a2", 15, <<"t2">>),
   z3 |-> B(3, "a2", 15, <<"f1", "t2">>), q3 |-> B(3, "a2", 15, <<"f2", "f1">>),
   m3 |-> B(3, "a2", 15, <<"f2", "t2", "t3", "t4", "t5">>),
   h3 |-> B(3, "a2", 99, <<"f2">>), l4 |-> B(4, "a3", 12, <<"f2">>),
   n3 |-> [B(3, "a2", 15, <<"f2">>) EXCEPT !.nonceOk = FALSE],
   r3 |-> [B(3, "a2", 15, <<"f2">>) EXCEPT !.rootOk = FALSE]]

Txs == DOMAIN TxBodies
Blocks == DOMAIN BlockBodies
Eras == <<4, 6, 8>>
Fees == <<5, 2, 1>>
Times == {0, 40}

===============================================================================
