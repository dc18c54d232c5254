-------------------------------- MODULE MCParts --------------------------------
(***************************************************************************)
(* The parts that share no state with each other, each running by itself:  *)
(* the pure computations (MCAlgorithms), the execution of a block, the     *)
(* block database, the rate limiter, the headers read from peers, and the  *)
(* hosts a node knows in two settings.  `running' is the one that runs,    *)
(* the others stay in an initial state.                                    *)
(*                                                                         *)
(* Blocks have up to three transactions out of eight, the mining fee among *)
(* them at any place, with amounts of 3 bits.  The hosts are one or two    *)
(* that ping regularly and one that does not; one more is blacklisted.     *)
(* In the setting "races" two requests are handled at once and one host    *)
(* sends on another's requests; in "clocks" they come one by one, from     *)
(* three hosts with different clocks.  A peer has a chain of up to four    *)
(* blocks, a fork of it at the second block, or one with a bad nonce.      *)
(***************************************************************************)
EXTENDS BlockExecution, RateLimiter, HeaderChain, BlockStore, HostManager,
        Computations

CONSTANTS MaxUndone,              \* bound: moves of the rate limiter's time point undone
          ClocksTime,             \* bound: the last time of the hosts with clocks
          Currents, Expecteds, Backwards, LastElapsed,      \* inputs of the computations,
          Hashes, MaxTxs                                    \* as in MCAlgorithms

VARIABLE running

Algorithms == INSTANCE MCAlgorithms WITH Txs <- Hashes

\* A hash: zero bytes, a byte of any value, and what may come after it.
Tails == {<<>>, <<0>>, <<1>>, <<255>>, <<0, 128>>}
Hashed == {[i \in 1 .. n |-> 0] \o <<byte>> \o tail : n \in 0 .. 1, byte \in 0 .. 255, tail \in Tails}

Sizes == [g |-> 1, a |-> 3, b |-> 1, c |-> 2]
SizedBlocks == DOMAIN Sizes

\* The setting "races" is that of the .cfg.
Offsets == [r |-> 0, s |-> 1, x |-> -3]
Clocks == INSTANCE HostManager WITH
  Addr <- {"r", "s", "x"}, Forwarder <- {}, Handler <- {1}, MaxTime <- ClocksTime

partsVars == <<vars, rateVars, headerVars, storeVars, hostVars, input, running>>

-------------------------------------------------------------------------------
Wallets == {"miner", "alice", "bob", "null"}

Body(from, to, amount, fees) ==
  [fee |-> FALSE, from |-> from, to |-> to, amount |-> amount, fees |-> fees,
   signed |-> TRUE, signer |-> from, hash |-> 0]

TxBodies ==
  [reward |-> [Body("null", "miner", 2, 0) EXCEPT !.fee = TRUE],
   pay |-> Body("alice", "bob", 2, 1), all |-> Body("alice", "bob", 3, 0),
   back |-> Body("bob", "alice", 2, 0), self |-> Body("alice", "alice", 2, 1),
   spend |-> Body("miner", "bob", 1, 1), zero |-> Body("bob", "alice", 0, 0),
   forged |-> [Body("bob", "alice", 1, 0) EXCEPT !.signed = FALSE]]
Txs == DOMAIN TxBodies

Lists == {<<t, u, v>> : t, u, v \in Txs} \cup {<<t, u>> : t, u \in Txs}
Starts == {<<>>, [alice |-> 3], [alice |-> 3, bob |-> 0], [alice |-> 2, miner |-> 2, bob |-> 1]}

H(parent, difficulty, ok) == [parent |-> parent, difficulty |-> difficulty, nonceOk |-> ok]
Bodies ==
  [g |-> H("none", 1, TRUE), a2 |-> H("g", 1, TRUE), a3 |-> H("a2", 1, TRUE),
   a4 |-> H("a3", 2, TRUE), b2 |-> H("g", 2, TRUE), b3 |-> H("b2", 1, TRUE),
   x3 |-> H("b2", 3, FALSE)]
Blocks == DOMAIN Bodies
Chains == {<<"g">>, <<"g", "a2", "a3">>, <<"g", "a2", "a3", "a4">>, <<"g", "b2">>,
           <<"g", "b2", "b3">>, <<"g", "b2", "x3">>}
Points == (2 :> "a2")

-------------------------------------------------------------------------------
PartsInit ==
  /\ running \in {"algorithms", "execution", "storage", "limiter", "headers", "races", "clocks"}
  /\ Init /\ (running # "execution" => txs = <<"reward", "pay">> /\ start = <<>>)
  /\ StoreInit /\ RateInit /\ Algorithms!Init
  /\ HeaderInit /\ (running # "headers" => \A h \in Host : peer[h] = [blocks |-> <<"g">>, up |-> TRUE])
  /\ IF running = "races" THEN HostInit ELSE Clocks!HostInit
  /\ running \notin {"races", "clocks"} => hosts = <<>>

PartsNext ==
  /\ UNCHANGED running
  /\ \/ /\ running = "algorithms" /\ Algorithms!Next
        /\ UNCHANGED <<vars, storeVars, rateVars, headerVars, hostVars>>
     \/ /\ running = "execution" /\ Next
        /\ UNCHANGED <<storeVars, rateVars, headerVars, hostVars, input>>
     \/ /\ running = "storage" /\ StoreNext
        /\ UNCHANGED <<vars, rateVars, headerVars, hostVars, input>>
     \/ /\ running = "limiter" /\ RateNext /\ \A k \in DOMAIN undone' : undone'[k] <= MaxUndone
        /\ UNCHANGED <<vars, storeVars, headerVars, hostVars, input>>
     \/ /\ running = "headers" /\ HeaderNext
        /\ UNCHANGED <<vars, storeVars, rateVars, hostVars, input>>
     \/ /\ running = "races" /\ HostNext
        /\ UNCHANGED <<vars, storeVars, rateVars, headerVars, input>>
     \/ /\ running = "clocks" /\ Clocks!HostNext
        /\ UNCHANGED <<vars, storeVars, rateVars, headerVars, input>>
PartsSpec == PartsInit /\ [][PartsNext]_partsVars

-------------------------------------------------------------------------------
\* The next difficulty is the one that brings the period nearest to its target, and
\* a slower period never makes it higher.
DifficultyFits == Algorithms!NearestDifficulty /\ Algorithms!SlowerIsEasier

\* The root in a block's header fixes its transactions, up to the repeated last one
\* of an odd number, and every transaction of the block has a proof for it.
RootFixesTransactions == Algorithms!RootFixesTransactions /\ Algorithms!ProofsHold

===============================================================================
