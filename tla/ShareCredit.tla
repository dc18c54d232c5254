------------------------------ MODULE ShareCredit ------------------------------
(***************************************************************************)
(* How a proof of work becomes a pool share and, when it solves the block, *)
(* a block for the network: the miners' connections (Network.Acceptor and  *)
(* WorkerConnection, src/shifupool/lib/bmbpool/users), Poolstate.Mining's  *)
(* handlers of new work and of shares, and the request threads of the      *)
(* backend on its one global block (src/c++/src/miningproblem/main.cpp).   *)
(*                                                                         *)
(* A connection's process waits for every call it makes; `conn[c].pc'      *)
(* names the next step of its submission.  Casts to it wait in `inbox',    *)
(* calls to Mining's add_valid_share in `calls'.  Mining waits for the     *)
(* backend, so its two handlers are a start and an end; meanwhile the      *)
(* request thread has written one part of the block.                       *)
(*                                                                         *)
(* Abstractions: a block is its height's job and the number of transaction *)
(* batches in it, and stands for its hash.  A proof is made for one hash,  *)
(* has share value 1 (difficulties of 60 and more, which Mining does not   *)
(* compare, are out of reach), and reaches the network's difficulty or     *)
(* not.  Rate limits, bans and addresses are left out, a refused message   *)
(* changing nothing here.  Rounds are those of PoolRounds: only whether    *)
(* there is one matters.                                                   *)
(***************************************************************************)
EXTENDS Naturals, Sequences, FiniteSets

CONSTANTS Conns,       \* connections; a closed one does not come back
          Nonces,      \* what tells two proofs for one block apart
          Solving,     \* nonces whose proofs reach the network's difficulty
          Faults,      \* the kinds of fault of this model
          MaxHeight,   \* bound: heights announced
          MaxBatches,  \* bound: transaction batches in one block
          MaxCredits,  \* bound: shares after which nothing more is submitted
          MaxFaults,   \* bound: faults
          Nil          \* the empty block hash of a fresh Mining, and no value

FaultKinds == {"backend", "mining", "timeout"}

ASSUME ShareAssumption ==
  /\ IsFiniteSet(Conns) /\ Solving \subseteq Nonces /\ Faults \subseteq FaultKinds
  /\ MaxHeight \in Nat /\ MaxBatches \in Nat /\ MaxCredits \in Nat /\ MaxFaults \in Nat
  /\ Nil \notin Nonces \cup (Nat \X Nat)

VARIABLES mining,    \* Poolstate.Mining
          calls,     \* add_valid_share calls waiting for Mining
          txdata,    \* transaction_data casts waiting for Mining (their number)
          db,        \* share total and rows of the round
          backend,   \* globalBlock and the thread that is writing to it
          conn,      \* the connections' processes
          inbox,     \* casts waiting for each of them
          height,    \* heights announced by Nodes.GenServer
          epoch,     \* times Mining's powset was emptied (history)
          credited,  \* shares credited (history)
          faults     \* faults so far
vars == <<mining, calls, txdata, db, backend, conn, inbox, height, epoch, credited, faults>>

-------------------------------------------------------------------------------
(* Blocks are <<job, batches>>; job 0 is the block the backend starts with.*)
Blocks == (0..MaxHeight) \X (0..MaxBatches)
Hashes == Blocks \cup {Nil}
Pows == [block : Hashes, nonce : Nonces]
NoPow == [block |-> Nil, nonce |-> Nil]

\* Block::verifyNonce: the first block has no predecessor and passes.
verifyNonce(block, pow) ==
  \/ block[1] = 0
  \/ pow.block = block /\ pow.nonce \in Solving

\* Submission steps of a connection behind a positive answer of Mining.
Submitting == {"nonce", "verify", "header", "body", "send"}
Credited == Submitting \cup {"accept"}
ConnPcs == {"new", "init", "ready", "hash", "credit", "broken", "closed"} \cup Credited

\* A serialised block: the header's root and nonce, and the transactions.
NoOut == [root |-> Nil, nonce |-> NoPow, body |-> Nil]
Out == [root : Hashes, nonce : Pows \cup {NoPow}, body : Hashes]

ConnState == [pc : ConnPcs, work : Hashes, seen : Hashes, pow : Pows \cup {NoPow},
              accepted : Nat, out : Out]
NewConn == [pc |-> "new", work |-> Nil, seen |-> Nil, pow |-> NoPow,
            accepted |-> 0, out |-> NoOut]

Mail == [type : {"work", "close"}, hash : Hashes]

\* pc is "problem" or "transactions" while Mining waits for the backend;
\* difficulty tells whether new_height has set one, round whether the
\* database has a round.
MiningState == [pc : {"down", "idle", "problem", "transactions"}, blockhash : Hashes,
                powset : SUBSET Pows, difficulty : BOOLEAN, round : BOOLEAN]
BackendState == [root : Blocks, body : Blocks, nonce : Pows \cup {NoPow},
                 writing : BOOLEAN, target : Blocks]

TypeOK ==
  /\ mining \in MiningState /\ calls \subseteq [conn : Conns, pow : Pows]
  /\ txdata \in Nat /\ db \in [total : Nat, shares : [Conns -> Nat]]
  /\ backend \in BackendState
  /\ conn \in [Conns -> ConnState] /\ inbox \in [Conns -> Seq(Mail)]
  /\ height \in 0..MaxHeight /\ epoch \in Nat /\ faults \in 0..MaxFaults
  /\ credited \subseteq [pow : Pows, epoch : Nat]

Init ==
  /\ mining = [pc |-> "idle", blockhash |-> Nil, powset |-> {}, difficulty |-> FALSE,
               round |-> FALSE]
  /\ calls = {} /\ txdata = 0
  /\ db = [total |-> 0, shares |-> [c \in Conns |-> 0]]
  /\ backend = [root |-> <<0, 0>>, body |-> <<0, 0>>, nonce |-> NoPow,
                writing |-> FALSE, target |-> <<0, 0>>]
  /\ conn = [c \in Conns |-> NewConn] /\ inbox = [c \in Conns |-> <<>>]
  /\ height = 0 /\ epoch = 0 /\ credited = {} /\ faults = 0

-------------------------------------------------------------------------------
(* Helpers.                                                                *)

Fault(kind) == kind \in Faults /\ faults < MaxFaults /\ faults' = faults + 1

\* The entries of IpRegistry under :socket; a process that ends loses its own.
Registered(c) == conn[c].pc \notin {"new", "closed"}

\* dispatch_work and disconnect_all: a cast to every registered connection.
CastAll(mail) ==
  inbox' = [c \in Conns |-> IF Registered(c) THEN Append(inbox[c], mail) ELSE inbox[c]]
dispatch_work(hash) == CastAll([type |-> "work", hash |-> hash])
disconnect_all == CastAll([type |-> "close", hash |-> Nil])

\* Mutant: no proof is remembered.
NoDuplicates(pow) == FALSE

\* The powset knows the proof.
Duplicate(pow) == pow \in mining.powset

\* Mutant: only a new height is new work.
NewHash(hash) == mining.blockhash = Nil \/ hash[1] # mining.blockhash[1]

\* Work is dispatched again when transactions changed the block.
NewWork(hash) == hash # mining.blockhash

\* A connection's process ends or its socket is shut down; what its miner was
\* sent is still known.
Closed(k) == [NewConn EXCEPT !.pc = "closed", !.work = k.work]
Close(c) == /\ conn' = [conn EXCEPT ![c] = Closed(@)]
            /\ inbox' = [inbox EXCEPT ![c] = <<>>]

\* The locals of a submission go out of scope.
Forget(k, pc) == [k EXCEPT !.pc = pc, !.seen = Nil, !.pow = NoPow, !.out = NoOut]

\* The backend's writing thread has written everything; the header of a new
\* job brings its own nonce.
Written ==
  [backend EXCEPT !.root = backend.target, !.body = backend.target, !.writing = FALSE,
                  !.nonce = IF backend.root[1] = backend.target[1] THEN @ ELSE NoPow]

-------------------------------------------------------------------------------
(* Poolstate.Mining and the backend threads that serve it.                 *)

\* The thread of a failed Mining's request has ended.  Nothing in the code waits
\* for it: it takes less time than the restart and the nodes' next height.
BackendQuiet == ~backend.writing

\* new_height up to mining_problem, whose thread assigns globalBlock member
\* by member, the nonce with the header; or the backend cannot be reached.
NewHeight ==
  /\ mining.pc = "idle" /\ BackendQuiet /\ height < MaxHeight
  /\ height' = height + 1 /\ epoch' = epoch + 1
  /\ mining' = [mining EXCEPT !.pc = "problem", !.powset = {}, !.difficulty = TRUE,
                              !.round = TRUE]
  /\ LET job == <<height', 0>>
         start == [backend EXCEPT !.writing = TRUE, !.target = job]
     IN  \/ /\ \/ backend' = [start EXCEPT !.root = job, !.nonce = NoPow]
               \/ backend' = [start EXCEPT !.body = job]
            /\ UNCHANGED faults
         \/ Fault("backend") /\ UNCHANGED backend
  /\ UNCHANGED <<calls, txdata, db, conn, inbox, credited>>

\* The transactions of a good node are requested, and cast back unless no
\* node answers.
RequestTransactions == txdata' \in {txdata, txdata + 1}

\* The answer of mining_problem: the hash is dispatched, then kept.
ProblemAnswered ==
  /\ mining.pc = "problem" /\ backend.writing
  /\ backend' = Written
  /\ dispatch_work(backend.target)
  /\ mining' = [mining EXCEPT !.pc = "idle", !.blockhash = backend.target]
  /\ RequestTransactions
  /\ UNCHANGED <<calls, db, conn, height, epoch, credited, faults>>

\* mining_problem ends without an answer: the request or the answer is lost.
\* Mining keeps the hash it had.
ProblemFails ==
  /\ mining.pc = "problem"
  /\ \/ ~backend.writing /\ UNCHANGED <<backend, faults>>
     \/ backend.writing /\ Fault("backend") /\ backend' = Written
  /\ disconnect_all
  /\ mining' = [mining EXCEPT !.pc = "idle"]
  /\ RequestTransactions
  /\ UNCHANGED <<calls, db, conn, height, epoch, credited>>

\* transaction_data up to add_transactions, whose thread appends to
\* globalBlock, whichever that is by now, and sets the Merkle root
\* afterwards; a batch may be empty.
TransactionData ==
  /\ mining.pc = "idle" /\ txdata > 0
  /\ txdata' = txdata - 1
  /\ mining' = [mining EXCEPT !.pc = "transactions"]
  /\ LET job == backend.root[1]
         batches == backend.root[2]
         start == [backend EXCEPT !.writing = TRUE, !.target = backend.root]
     IN  \/ backend' = start /\ UNCHANGED faults
         \/ /\ batches < MaxBatches
            /\ backend' = [start EXCEPT !.target = <<job, batches + 1>>,
                                        !.body = <<job, batches + 1>>]
            /\ UNCHANGED faults
         \/ Fault("backend") /\ UNCHANGED backend
  /\ UNCHANGED <<calls, db, conn, inbox, height, epoch, credited>>

TransactionsAnswered ==
  /\ mining.pc = "transactions" /\ backend.writing
  /\ backend' = Written
  /\ IF NewWork(backend.target)
     THEN dispatch_work(backend.target) ELSE UNCHANGED inbox
  /\ mining' = [mining EXCEPT !.pc = "idle", !.blockhash = backend.target]
  /\ UNCHANGED <<calls, txdata, db, conn, height, epoch, credited, faults>>

TransactionsFail ==
  /\ mining.pc = "transactions"
  /\ \/ ~backend.writing /\ UNCHANGED <<backend, faults>>
     \/ backend.writing /\ Fault("backend") /\ backend' = Written
  /\ disconnect_all
  /\ mining' = [mining EXCEPT !.pc = "idle"]
  /\ UNCHANGED <<calls, txdata, db, conn, height, epoch, credited>>

\* A backend thread goes on when Mining has failed in the meantime.
BackendFinishes ==
  /\ backend.writing /\ mining.pc \notin {"problem", "transactions"}
  /\ backend' = Written
  /\ UNCHANGED <<mining, calls, txdata, db, conn, inbox, height, epoch, credited, faults>>

\* Mutant: the block hash survives a restart.
MiningInitKeepsHash ==
  /\ mining.pc = "down"
  /\ mining' = [mining EXCEPT !.pc = "idle", !.powset = {}, !.difficulty = FALSE]
  /\ epoch' = epoch + 1
  /\ UNCHANGED <<calls, txdata, db, backend, conn, inbox, height, credited, faults>>

\* init: nothing is left of the hash and the set of proofs.
MiningInit ==
  /\ mining.pc = "down"
  /\ mining' = [mining EXCEPT !.pc = "idle", !.blockhash = Nil, !.powset = {},
                              !.difficulty = FALSE]
  /\ epoch' = epoch + 1
  /\ UNCHANGED <<calls, txdata, db, backend, conn, inbox, height, credited, faults>>

\* Mining fails: its mailbox is lost and every waiting caller exits with it.
MiningDown ==
  /\ mining' = [mining EXCEPT !.pc = "down"]
  /\ calls' = {} /\ txdata' = 0
  /\ LET waiting == {c \in Conns : conn[c].pc = "credit"}
     IN  /\ conn' = [c \in Conns |-> IF c \in waiting THEN Closed(conn[c]) ELSE conn[c]]
         /\ inbox' = [c \in Conns |-> IF c \in waiting THEN <<>> ELSE inbox[c]]
MiningCrashes ==
  /\ Fault("mining") /\ mining.pc # "down"
  /\ MiningDown
  /\ UNCHANGED <<db, backend, height, epoch, credited>>

-------------------------------------------------------------------------------
(* add_valid_share.                                                        *)

\* What the call k returns to its connection, if that still waits for it.
Answer(k, solved) ==
  IF conn[k.conn].pc = "credit"
  THEN conn' = [conn EXCEPT ![k.conn] = IF solved THEN [@ EXCEPT !.pc = "nonce"]
                                        ELSE Forget(@, "accept")]
  ELSE UNCHANGED conn

\* A proof that is not in the powset is put there and credited to the row of
\* the connection's address, and may solve the block.
CreditShare(k) ==
  /\ mining.pc = "idle" /\ k \in calls /\ ~Duplicate(k.pow) /\ mining.round
  /\ calls' = calls \ {k}
  /\ mining' = [mining EXCEPT !.powset = @ \cup {k.pow}]
  /\ db' = [total |-> db.total + 1, shares |-> [db.shares EXCEPT ![k.conn] = @ + 1]]
  /\ credited' = credited \cup {[pow |-> k.pow, epoch |-> epoch]}
  /\ Answer(k, mining.difficulty /\ k.pow.nonce \in Solving)
  /\ UNCHANGED <<txdata, backend, inbox, height, epoch, faults>>

\* Mutant: a duplicate is not answered.
RefuseDuplicateSilently(k) ==
  /\ mining.pc = "idle" /\ k \in calls /\ Duplicate(k.pow)
  /\ calls' = calls \ {k}
  /\ UNCHANGED <<mining, txdata, db, backend, conn, inbox, height, epoch, credited, faults>>

\* Mutant: a duplicate is accepted without a credit.
AcceptDuplicate(k) ==
  /\ mining.pc = "idle" /\ k \in calls /\ Duplicate(k.pow)
  /\ calls' = calls \ {k}
  /\ Answer(k, FALSE)
  /\ UNCHANGED <<mining, txdata, db, backend, inbox, height, epoch, credited, faults>>

\* A duplicate is banned and its connection shut down.
RefuseDuplicate(k) ==
  /\ mining.pc = "idle" /\ k \in calls /\ Duplicate(k.pow)
  /\ calls' = calls \ {k}
  /\ IF conn[k.conn].pc = "credit" THEN Close(k.conn) ELSE UNCHANGED <<conn, inbox>>
  /\ UNCHANGED <<mining, txdata, db, backend, height, epoch, credited, faults>>

\* Before the first round there is no row to credit: Poolstate.DB.add_shares
\* has no clause for it and Mining fails.
EarlyShare(k) ==
  /\ mining.pc = "idle" /\ k \in calls /\ ~Duplicate(k.pow) /\ ~mining.round
  /\ MiningDown
  /\ UNCHANGED <<db, backend, height, epoch, credited, faults>>

-------------------------------------------------------------------------------
(* A connection's process.                                                 *)

Step(c, from, to) == conn[c].pc = from /\ conn' = [conn EXCEPT ![c].pc = to]
OnlyConn == UNCHANGED <<mining, calls, txdata, db, backend, inbox, height, epoch,
                        credited, faults>>

\* process_init: the socket is registered before Mining is asked for work.
Register(c) == Step(c, "new", "init") /\ OnlyConn
FirstWork(c) ==
  /\ conn[c].pc = "init" /\ mining.pc = "idle"
  /\ conn' = [conn EXCEPT ![c].pc = "ready", ![c].work = mining.blockhash]
  /\ OnlyConn

\* handle_cast send_work.
SendWork(c) ==
  /\ conn[c].pc = "ready" /\ inbox[c] # <<>> /\ Head(inbox[c]).type = "work"
  /\ conn' = [conn EXCEPT ![c].work = Head(inbox[c]).hash]
  /\ inbox' = [inbox EXCEPT ![c] = Tail(@)]
  /\ UNCHANGED <<mining, calls, txdata, db, backend, height, epoch, credited, faults>>

\* handle_cast close.
HandleClose(c) ==
  /\ conn[c].pc = "ready" /\ inbox[c] # <<>> /\ Head(inbox[c]).type = "close"
  /\ Close(c)
  /\ UNCHANGED <<mining, calls, txdata, db, backend, height, epoch, credited, faults>>

\* The miner leaves, or is shut down for a message that is not accepted.
Stop(c) ==
  /\ conn[c].pc = "ready"
  /\ Close(c)
  /\ UNCHANGED <<mining, calls, txdata, db, backend, height, epoch, credited, faults>>

\* process_submit asks Mining for the block hash.  The miner's proof is made
\* for the hash it or another miner was sent.
Submit(c, pow) ==
  /\ conn[c].pc = "ready" /\ mining.pc = "idle" /\ Cardinality(credited) < MaxCredits
  /\ pow.block \in {conn[d].work : d \in Conns}
  /\ conn' = [conn EXCEPT ![c].pc = "hash", ![c].pow = pow, ![c].seen = mining.blockhash]
  /\ OnlyConn

\* pufferfish_hash and the call of add_valid_share.
ValidProof(c) ==
  /\ Step(c, "hash", "credit") /\ conn[c].pow.block = conn[c].seen /\ mining.pc # "down"
  /\ calls' = calls \cup {[conn |-> c, pow |-> conn[c].pow]}
  /\ UNCHANGED <<mining, txdata, db, backend, inbox, height, epoch, credited, faults>>
InvalidProof(c) ==
  /\ conn[c].pc = "hash" /\ conn[c].pow.block # conn[c].seen
  /\ conn' = [conn EXCEPT ![c] = Forget(@, "ready")]
  /\ OnlyConn

\* The size of the proof is wrong or the backend does not answer: the answer
\* of transport.send replaces the connection's state, and the next message of
\* any kind fails on it.
HashFails(c) ==
  /\ conn[c].pc = "hash"
  /\ conn' = [conn EXCEPT ![c] = Forget(@, "broken")]
  /\ OnlyConn
BrokenStops(c) ==
  /\ conn[c].pc = "broken"
  /\ Close(c)
  /\ UNCHANGED <<mining, calls, txdata, db, backend, height, epoch, credited, faults>>

\* A call made while Mining is down exits.
CallFails(c) ==
  /\ mining.pc = "down"
  /\ \/ conn[c].pc \in {"init", "ready"}
     \/ conn[c].pc = "hash" /\ conn[c].pow.block = conn[c].seen
  /\ Close(c)
  /\ UNCHANGED <<mining, calls, txdata, db, backend, height, epoch, credited, faults>>

\* Mining is busy for longer than a call waits.  The call is handled later.
CallTimesOut(c) ==
  /\ conn[c].pc \in {"init", "ready", "credit"} /\ Fault("timeout")
  /\ Close(c)
  /\ UNCHANGED <<mining, calls, txdata, db, backend, height, epoch, credited>>

\* /submit_pufferfish: line 225 of main.cpp declares a function, so that
\* setNonce, verifyNonce, serialize and the copy of the transactions of one
\* thread interleave with those of the others and with Mining's threads.
SetNonce(c) ==
  /\ conn[c].pc = "nonce"
  /\ conn' = [conn EXCEPT ![c] = Forget(@, "verify")]
  /\ backend' = [backend EXCEPT !.nonce = conn[c].pow]
  /\ UNCHANGED <<mining, calls, txdata, db, inbox, height, epoch, credited, faults>>
VerifyNonce(c) ==
  /\ Step(c, "verify",
          IF verifyNonce(backend.root, backend.nonce) THEN "header" ELSE "accept")
  /\ OnlyConn
SerializeHeader(c) ==
  /\ conn[c].pc = "header"
  /\ conn' = [conn EXCEPT ![c].pc = "body",
                          ![c].out = [NoOut EXCEPT !.root = backend.root,
                                                   !.nonce = backend.nonce]]
  /\ OnlyConn
CopyTransactions(c) ==
  /\ conn[c].pc = "body"
  /\ conn' = [conn EXCEPT ![c].pc = "send", ![c].out.body = backend.body]
  /\ OnlyConn

\* The backend is not reached or its answer is lost and the match fails, or
\* the answer says neither: the miners are disconnected and the share stands.
SubmitFails(c) ==
  /\ conn[c].pc \in {"nonce", "send"} /\ Fault("backend")
  /\ \/ Close(c)
     \/ conn' = [conn EXCEPT ![c] = Forget(@, "accept")] /\ disconnect_all
  /\ UNCHANGED <<mining, calls, txdata, db, backend, height, epoch, credited>>

\* Nodes.submit, the answer to the miner and the connection's own count.
SendBlock(c) ==
  /\ conn[c].pc = "send"
  /\ conn' = [conn EXCEPT ![c] = Forget(@, "accept")]
  /\ OnlyConn
Accept(c) ==
  /\ conn[c].pc = "accept"
  /\ conn' = [conn EXCEPT ![c].pc = "ready", ![c].accepted = @ + 1]
  /\ OnlyConn

-------------------------------------------------------------------------------
MiningNext ==
  \/ NewHeight \/ ProblemAnswered \/ ProblemFails
  \/ TransactionData \/ TransactionsAnswered \/ TransactionsFail
  \/ MiningInit \/ BackendFinishes \/ MiningCrashes
HandleShare == \E k \in calls : CreditShare(k) \/ RefuseDuplicate(k) \/ EarlyShare(k)

Connects(c) == Register(c) \/ FirstWork(c)
Submits(c) == \E pow \in Pows : Submit(c, pow)
Proceeds(c) ==
  \/ SendWork(c) \/ HandleClose(c) \/ ValidProof(c) \/ InvalidProof(c)
  \/ SetNonce(c) \/ VerifyNonce(c) \/ SerializeHeader(c) \/ CopyTransactions(c)
  \/ SendBlock(c) \/ Accept(c)
Fails(c) ==
  Stop(c) \/ HashFails(c) \/ BrokenStops(c) \/ CallFails(c) \/ CallTimesOut(c)
  \/ SubmitFails(c)

Next ==
  \/ MiningNext \/ HandleShare
  \/ \E c \in Conns : Connects(c) \/ Submits(c) \/ Proceeds(c) \/ Fails(c)

Spec == Init /\ [][Next]_vars

\* Mining and the connections handle their messages, the backend answers or
\* the request fails, and the supervisor restarts Mining.
Fairness ==
  /\ WF_vars(ProblemAnswered) /\ WF_vars(ProblemFails)
  /\ WF_vars(TransactionsAnswered) /\ WF_vars(TransactionsFail) /\ WF_vars(MiningInit)
  /\ \A c \in Conns :
       /\ WF_vars(HandleShare /\ \E k \in calls : k.conn = c /\ k \notin calls')
       /\ WF_vars(Proceeds(c)) /\ WF_vars(BrokenStops(c)) /\ WF_vars(CallFails(c))

FairSpec == Spec /\ Fairness

-------------------------------------------------------------------------------
(* Correctness.                                                            *)

(* Between two times that Mining forgets the known proofs (a new height, a *)
(* restart) no proof is credited twice, whichever connections submit it,   *)
(* however late their hashes are ready and whether or not the caller has   *)
(* given up: the round's total counts different proofs.                    *)
CreditedOnce == db.total = Cardinality(credited)

(* No miner is left on old work: for every connection that has had its     *)
(* first work, the last work sent to it or waiting in its mailbox is the   *)
(* hash that Mining checks shares for, also when the connection starts     *)
(* while new work is dispatched.                                           *)
Works(mails) == {i \in DOMAIN mails : mails[i].type = "work"}
LastIs(mails, work, hash) ==
  IF Works(mails) = {} THEN work = hash
  ELSE \E i \in Works(mails) : mails[i].hash = hash /\ \A j \in Works(mails) : j <= i
NoStaleWork ==
  \A c \in Conns : (Registered(c) /\ conn[c].pc # "init" /\ mining.blockhash # Nil)
                      => LastIs(inbox[c], conn[c].work, mining.blockhash)

(* As long as the backend answers, the hash that Mining checks shares for  *)
(* is that of the block a solution would be submitted with, across new     *)
(* heights, late transactions and restarts of Mining.                      *)
MiningKnowsBlock ==
  (mining.pc = "idle" /\ mining.blockhash # Nil)
    => backend.root = mining.blockhash /\ backend.body = mining.blockhash

(* What a connection that is still open has accepted is what the database  *)
(* has credited for it, but for the share it is just about to accept.      *)
AcceptedIsCredited ==
  \A c \in Conns : conn[c].pc # "closed" =>
    db.shares[c] = conn[c].accepted + IF conn[c].pc \in Credited THEN 1 ELSE 0

(* Every submission ends: the connection is ready again or closed, though  *)
(* Mining may be busy, fail or be restarted while it waits.                *)
SubmissionsEnd ==
  \A c \in Conns : conn[c].pc = "hash" ~> conn[c].pc \in {"ready", "closed"}

(* A block handed to the nodes has been verified (main.cpp:225-232): its   *)
(* nonce solves its header, and its transactions are the header's.         *)
SentVerified ==
  \A c \in Conns : conn[c].pc = "send" =>
    /\ verifyNonce(conn[c].out.root, conn[c].out.nonce)
    /\ conn[c].out.body = conn[c].out.root

-------------------------------------------------------------------------------
(* The inductive invariants behind CreditedOnce and MiningKnowsBlock.      *)

\* A connection submits a proof.
SubmitsPow ==
  \A c \in Conns : conn[c].pc \in {"hash", "credit", "nonce"} => conn[c].pow \in Pows

\* The powset knows every proof that was credited since it was emptied.
PowsetKnows ==
  /\ IsFiniteSet(credited)
  /\ \A x \in credited : /\ x.epoch <= epoch
                         /\ x.epoch = epoch => x.pow \in mining.powset
CreditInv == TypeOK /\ SubmitsPow /\ PowsetKnows /\ CreditedOnce

\* Without faults of the backend, Mining waits only while a thread writes.
WaitsForBackend == mining.pc \in {"problem", "transactions"} => backend.writing
BlockInv ==
  /\ WaitsForBackend /\ MiningKnowsBlock
  /\ mining.pc = "idle" /\ mining.blockhash # Nil => ~backend.writing
================================================================================
