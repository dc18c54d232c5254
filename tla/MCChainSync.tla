----------------------------- MODULE MCChainSync -----------------------------
(***************************************************************************)
(* ChainSync with a chain of five blocks, whose difficulty changes after   *)
(* the third, a fork of it after the third and one after the first.  Other *)
(* blocks may be submitted, one with a good nonce and a wrong Merkle root. *)
(***************************************************************************)
EXTENDS ChainSync

TxBodies ==
  [f |-> [fee |-> TRUE, from |-> "null", to |-> "miner", amount |-> 5, fees |-> 0,
          signed |-> TRUE, signer |-> "null", hash |-> 1]]
Txs == DOMAIN TxBodies
Wallets == {"miner", "null"}

B(id, parent, difficulty, time) ==
  [id |-> id, parent |-> parent, difficulty |-> difficulty, time |-> time,
   nonceOk |-> TRUE, rootOk |-> TRUE, txs |-> <<"f">>]
BlockBodies ==
  [g |-> B(1, "none", 16, 0), a2 |-> B(2, "g", 16, 10), a3 |-> B(3, "a2", 16, 15),
   a4 |-> B(4, "a3", 17, 25), a5 |-> B(5, "a4", 17, 35), c4 |-> B(4, "a3", 17, 26),
   b2 |-> B(2, "g", 16, 11), b3 |-> B(3, "b2", 16, 21),
   x3 |-> [B(3, "b2", 16, 21) EXCEPT !.rootOk = FALSE], x4 |-> B(4, "x3", 16, 31)]
Blocks == DOMAIN BlockBodies
A == <<"g", "a2", "a3", "a4", "a5">>
FewChains == {A, <<"g", "b2">>, <<"g", "a2", "a3", "c4">>}
Points == <<>>
TwoPeers == <<"p", "q">>
OnePeer == <<"p">>
Eras == <<10>>
Fees == <<5>>

===============================================================================
