--------------------------------- MODULE Node ---------------------------------
(***************************************************************************)
(* The threads of a node around its chain and its pool of transactions:    *)
(* src/c++/src/server/request_manager.cpp and mempool.cpp composed with    *)
(* the operations of ChainCore, here cut at the places where a lock is     *)
(* taken or given back or another thread can look in.                      *)
(*                                                                         *)
(* Request threads add transactions and submit blocks, one thread runs     *)
(* startChainSync (which may remove and add blocks, all under one hold of  *)
(* the chain's lock), one sends accepted transactions on.  The pool's lock *)
(* is held while a transaction is verified, for which the chain's lock is  *)
(* taken; the chain's lock is held while a block is finished, for which    *)
(* the pool's lock is taken.                                               *)
(***************************************************************************)
EXTENDS ChainCore

CONSTANTS Adder,        \* threads that call MemPool::addTransaction
          Starter,      \* the one of them that is the constructor's
          Writer,       \* threads that call submitProofOfWork
          Syncer,       \* the thread of chain_sync
          None,         \* no thread, no transaction, no block
          Now,          \* network time
          Offered,      \* the transactions handed in
          MaxRequests,  \* bound: transactions handed in
          MaxSubmits,   \* bound: blocks handed in
          MaxSyncs      \* bound: rounds of chain_sync

Writers == Writer \cup {Syncer}

ASSUME NodeAssumption ==
  /\ Starter \in Adder /\ Syncer \notin Writer /\ Adder \cap Writers = {}
  /\ None \notin Adder \cup Writers \cup Tx \cup Block
  /\ Now \in Nat /\ Offered \subseteq Tx /\ {MaxRequests, MaxSubmits, MaxSyncs} \subseteq Nat

VARIABLES chain,      \* the BlockChain object; in the middle of addBlock too
          stable,     \* history: the chain before the running operation
          chainLock, poolLock,        \* the thread that holds it, or None
          queue, outgoing, toSend,    \* transactionQueue, mempoolOutgoing, toSend
          poolSet,    \* setMemPool was called: the node is constructed
          adder,      \* pc and transaction of each request thread
          writer,     \* pc, block and deltas of each writing thread
          sent,       \* history: transactions sent to the neighbours
          early,      \* history: transactions of blocks added before setMemPool
          count       \* requests, submits and syncs so far
chainVars == <<chain, stable, chainLock>>
poolVars == <<poolLock, queue, outgoing, toSend>>
vars == <<chainVars, poolVars, poolSet, adder, writer, sent, early, count>>

IdleAdder == [pc |-> "idle", tx |-> None]
IdleWriter == [pc |-> "idle", block |-> None, deltas |-> <<>>]

Init ==
  /\ chain = ResetChain /\ stable = chain /\ chainLock = None
  /\ poolLock = None /\ queue = {} /\ outgoing = <<>> /\ toSend = <<>>
  /\ poolSet = FALSE
  /\ adder = [a \in Adder |-> IdleAdder] /\ writer = [w \in Writers |-> IdleWriter]
  /\ sent = {} /\ early = {}
  /\ count = [requests |-> 0, submits |-> 0, syncs |-> 0]

-------------------------------------------------------------------------------
(* MemPool::addTransaction                                                 *)

AddTransaction(a, t) ==
  /\ adder[a].pc = "idle" /\ (poolSet \/ a = Starter)
  /\ count.requests < MaxRequests /\ count' = [count EXCEPT !.requests = @ + 1]
  /\ adder' = [adder EXCEPT ![a] = [pc |-> "pool", tx |-> t]]
  /\ UNCHANGED <<chainVars, poolVars, poolSet, writer, sent, early>>

Answer(a) == adder' = [adder EXCEPT ![a] = IdleAdder]
Goto(a, pc) == adder' = [adder EXCEPT ![a].pc = pc]

\* Mutant: the lock is not given back for a transaction that is already queued.
CheckQueueLeaks(a) ==
  /\ adder[a].pc = "pool" /\ poolLock = None
  /\ poolLock' = a
  /\ IF adder[a].tx \in queue THEN Answer(a) ELSE Goto(a, "chain")
  /\ UNCHANGED <<chainVars, queue, outgoing, toSend, poolSet, writer, sent, early, count>>

\* Mutant: the pool's lock is given back before the transaction is verified.
CheckQueueUnlocked(a) ==
  /\ adder[a].pc = "pool" /\ poolLock = None
  /\ IF adder[a].tx \in queue THEN Answer(a) ELSE Goto(a, "chain")
  /\ UNCHANGED <<chainVars, poolVars, poolSet, writer, sent, early, count>>

\* Under the pool's lock: is it queued, is it a fee, is it signed?
CheckQueue(a) ==
  LET t == adder[a].tx
  IN  /\ adder[a].pc = "pool" /\ poolLock = None
      /\ IF t \in queue \/ TxBody[t].fee \/ ~TxBody[t].signed
         THEN Answer(a) /\ UNCHANGED poolLock
         ELSE Goto(a, "chain") /\ poolLock' = a
      /\ UNCHANGED <<chainVars, queue, outgoing, toSend, poolSet, writer, sent, early, count>>

\* Under both locks: verifyTransaction.
VerifyUnderLock(a) ==
  LET verdict == VerifyTransaction(chain, adder[a].tx)
  IN  /\ adder[a].pc = "chain" /\ chainLock = None
      /\ chain' = verdict.chain
      /\ IF verdict.status = "SUCCESS" THEN Goto(a, "queue") /\ UNCHANGED poolLock
                                       ELSE Answer(a) /\ poolLock' = None
      /\ UNCHANGED <<stable, chainLock, queue, outgoing, toSend, poolSet, writer, sent, early, count>>

\* Under the pool's lock only: the balance is read from whatever the ledger holds
\* now, which throws where the wallet is gone, and then the lock stays taken.
Enqueue(a) ==
  LET t == adder[a].tx
      from == TxBody[t].from
      fits == Plus(ValueOf(outgoing, from), TxBody[t].amount) <= ValueOf(chain.ledger, from)
  IN  /\ adder[a].pc = "queue"
      /\ IF ~HasWallet(chain.ledger, from)
         THEN Goto(a, "threw") /\ UNCHANGED poolVars
         ELSE /\ Answer(a) /\ poolLock' = None
              /\ IF fits /\ Cardinality(queue) < MaxTransactions
                 THEN /\ queue' = queue \cup {t}
                      /\ outgoing' = Increase(outgoing, from, TxBody[t].amount)
                      /\ toSend' = Append(toSend, t)
                 ELSE UNCHANGED <<queue, outgoing, toSend>>
      /\ UNCHANGED <<chainVars, poolSet, writer, sent, early, count>>

\* mempool_sync
SendNext ==
  /\ poolSet /\ toSend # <<>>
  /\ sent' = sent \cup {Head(toSend)} /\ toSend' = Tail(toSend)
  /\ UNCHANGED <<chainVars, poolLock, queue, outgoing, poolSet, adder, writer, early, count>>

\* The constructor's last line, after the Starter's transactions; one that throws ends
\* their loop, is caught, and leaves the pool's lock taken.
SetMemPool ==
  /\ ~poolSet /\ adder[Starter].pc \in {"idle", "threw"}
  /\ poolSet' = TRUE
  /\ UNCHANGED <<chainVars, poolVars, adder, writer, sent, early, count>>

-------------------------------------------------------------------------------
(* submitProofOfWork and chain_sync                                        *)

To(w, pc) == writer' = [writer EXCEPT ![w].pc = pc]

SubmitProofOfWork(w, b) ==
  /\ w # Syncer /\ poolSet /\ writer[w].pc = "idle"
  /\ count.submits < MaxSubmits /\ count' = [count EXCEPT !.submits = @ + 1]
  /\ IF BlockBody[b].id <= chain.numBlocks THEN UNCHANGED writer
     ELSE writer' = [writer EXCEPT ![w].pc = "lock", ![w].block = b]
  /\ UNCHANGED <<chainVars, poolVars, poolSet, adder, sent, early>>

StartSync ==
  /\ writer[Syncer].pc = "idle"
  /\ count.syncs < MaxSyncs /\ count' = [count EXCEPT !.syncs = @ + 1]
  /\ To(Syncer, "lock")
  /\ UNCHANGED <<chainVars, poolVars, poolSet, adder, sent, early>>

\* Mutant: the lock is not waited for.
AcquireUnlocked(w) ==
  /\ writer[w].pc = "lock"
  /\ chainLock' = w /\ stable' = chain
  /\ To(w, IF w = Syncer THEN "pop" ELSE "add")
  /\ UNCHANGED <<chain, poolVars, poolSet, adder, sent, early, count>>

Acquire(w) ==
  /\ writer[w].pc = "lock" /\ chainLock = None
  /\ chainLock' = w /\ stable' = chain
  /\ To(w, IF w = Syncer THEN "pop" ELSE "add")
  /\ UNCHANGED <<chain, poolVars, poolSet, adder, sent, early, count>>

\* startChainSync removes blocks, then downloads and adds some.  Removing the
\* second block resets the chain, which adds the first one again by addBlock.
SyncPop ==
  /\ writer[Syncer].pc = "pop" /\ chain.numBlocks > 1
  /\ IF chain.numBlocks > 2
     THEN chain' = PopBlock(chain) /\ stable' = chain' /\ UNCHANGED writer
     ELSE /\ chain' = Cleared /\ UNCHANGED stable
          /\ writer' = [writer EXCEPT ![Syncer].pc = "add", ![Syncer].block = Genesis]
  /\ UNCHANGED <<chainLock, poolVars, poolSet, adder, sent, early, count>>
SyncDownload(b) ==
  /\ writer[Syncer].pc \in {"pop", "next"}
  /\ writer' = [writer EXCEPT ![Syncer].pc = "add", ![Syncer].block = b]
  /\ UNCHANGED <<chainVars, poolVars, poolSet, adder, sent, early, count>>
SyncEnds ==
  /\ writer[Syncer].pc \in {"pop", "next"}
  /\ To(Syncer, "release")
  /\ UNCHANGED <<chainVars, poolVars, poolSet, adder, sent, early, count>>

\* The transactions of a block that finishBlock takes out of the queue and that go
\* into the store: those of its list, sorted by now.
MinedOf(b) == {t \in Range(Ordered(b)) : ~TxBody[t].fee}

\* What the transactions ts take out of wallet w.
OutgoingOf(w, ts) ==
  SumFunctionOnSet([t \in Tx |-> IF TxBody[t].from = w THEN TxBody[t].amount ELSE 0], ts)

\* addBlock: checks and execution.  The ledger is written before the block is
\* known to be good.
AddExecute(w) ==
  LET b == writer[w].block
      x == Execution(chain, b)
  IN  /\ writer[w].pc = "add"
      /\ IF CheckBlock(chain, b, Now) # "SUCCESS"
         THEN To(w, "release") /\ UNCHANGED <<chain, early>>
         ELSE /\ chain' = [chain EXCEPT !.ledger = x.ledger]
              /\ writer' = [writer EXCEPT ![w].deltas = x.deltas,
                              ![w].pc = IF x.status # "SUCCESS" THEN "undo"
                                        ELSE IF poolSet THEN "finish" ELSE "commit"]
              /\ early' = IF poolSet THEN early ELSE early \cup MinedOf(b)
      /\ UNCHANGED <<stable, chainLock, poolVars, poolSet, adder, sent, count>>

AddUndo(w) ==
  /\ writer[w].pc = "undo"
  /\ chain' = [chain EXCEPT !.ledger = Rollback(@, writer[w].deltas)]
  /\ To(w, "release")
  /\ UNCHANGED <<stable, chainLock, poolVars, poolSet, adder, sent, early, count>>

\* A wallet with a transaction taken out is written, also where the map has no
\* entry for it (the amounts of the others wrapped to 0), and dropped at 0.
OutgoingAfter(b) ==
  LET gone == queue \cap MinedOf(b)
      senders == {TxBody[t].from : t \in gone}
      Left(w) == Minus(ValueOf(outgoing, w), OutgoingOf(w, gone) % AmountLimit)
  IN  [w \in {v \in DOMAIN outgoing \cup senders : v \in senders => Left(v) # 0} |-> Left(w)]

FinishBlock(w) ==
  /\ writer[w].pc = "finish" /\ poolLock = None
  /\ queue' = queue \ MinedOf(writer[w].block)
  /\ outgoing' = OutgoingAfter(writer[w].block)
  /\ To(w, "commit")
  /\ UNCHANGED <<chainVars, poolLock, toSend, poolSet, adder, sent, early, count>>

\* The rest of addBlock: the stores, the counts, the difficulty.
AddCommit(w) ==
  /\ writer[w].pc = "commit"
  /\ chain' = Commit(chain, writer[w].block, chain.ledger) /\ stable' = chain'
  /\ To(w, IF w = Syncer
           THEN IF writer[w].block = Genesis THEN "pop" ELSE "next"
           ELSE "release")
  /\ UNCHANGED <<chainLock, poolVars, poolSet, adder, sent, early, count>>

Release(w) ==
  /\ writer[w].pc = "release"
  /\ chainLock' = None /\ writer' = [writer EXCEPT ![w] = IdleWriter]
  /\ UNCHANGED <<chain, stable, poolVars, poolSet, adder, sent, early, count>>

AdderStep(a) == CheckQueue(a) \/ VerifyUnderLock(a) \/ Enqueue(a)
WriterStep(w) ==
  Acquire(w) \/ AddExecute(w) \/ AddUndo(w) \/ FinishBlock(w) \/ AddCommit(w) \/ Release(w)
SyncStep == SyncPop \/ SyncEnds \/ \E b \in Block : SyncDownload(b)

Next ==
  \/ \E a \in Adder : AdderStep(a) \/ \E t \in Offered : AddTransaction(a, t)
  \/ \E w \in Writers : WriterStep(w) \/ \E b \in Block : SubmitProofOfWork(w, b)
  \/ StartSync \/ SyncStep \/ SendNext \/ SetMemPool
Spec == Init /\ [][Next]_vars

\* Threads go on; a lock that is free is taken by one that waits (the numbers of
\* requests and rounds are finite here; chain_sync sleeps 10 s between its rounds).
\* A round of startChainSync ends: the blocks to download are counted before.
Fairness ==
  /\ \A a \in Adder : WF_vars(AdderStep(a))
  /\ \A w \in Writers : WF_vars(WriterStep(w))
  /\ WF_vars(SyncEnds) /\ WF_vars(SendNext) /\ WF_vars(SetMemPool)
LiveSpec == Spec /\ Fairness

-------------------------------------------------------------------------------
\* A request thread that holds the pool's lock and waits for the chain's, while a
\* writer holds that one and waits for the pool's: nothing resolves it.
LockCycle ==
  \E a \in Adder, w \in Writers :
    poolLock = a /\ adder[a].pc = "chain" /\ chainLock = w /\ writer[w].pc = "finish"
LockLost == \E a \in Adder : poolLock = a /\ adder[a].pc = "threw"

Waits ==
  {a \in Adder : \/ adder[a].pc = "pool" /\ poolLock # None
                 \/ adder[a].pc = "chain" /\ chainLock # None}
  \cup {w \in Writers : \/ writer[w].pc = "lock" /\ chainLock # None
                        \/ writer[w].pc = "finish" /\ poolLock # None}
Busy == {a \in Adder : adder[a].pc \notin {"idle", "threw"}} \cup
        {w \in Writers : writer[w].pc # "idle"}

\* Threads wait for each other for ever in two ways only: in the cycle of the two
\* locks, and for a request that threw between lock() and unlock().  Every other
\* path through addTransaction and addBlock gives back what it took.
StuckOnlyKnown == Waits # {} /\ Waits = Busy => LockCycle \/ LockLost

\* A transaction is in the pool or in the chain, not in both, whenever no writer
\* works: it cannot be queued between the moment a block is finished in the pool
\* and the moment it is in the store, because verifying waits for the chain's lock
\* under the pool's.  Blocks added before setMemPool leave their transactions.
PoolApartFromChain == chainLock = None => queue \cap DOMAIN chain.txdb \subseteq early

\* What a wallet has outstanding is the sum of its queued transactions, also after
\* blocks that hold some of them and some that were never queued.
OutgoingIsQueued ==
  \A w \in Wallet : ValueOf(outgoing, w) = OutgoingOf(w, queue) % AmountLimit

\* Together: the pool agrees with the chain and with itself.
PoolAgrees == PoolApartFromChain /\ OutgoingIsQueued

\* Seen through the locks every operation on the chain is one step of BlockChain:
\* while one is under way, the chain is what it was before.
Held == chainLock # None /\ writer[chainLock].pc \in {"add", "undo", "finish", "commit"}
Atomic == INSTANCE BlockChain WITH
  chain <- IF Held THEN stable ELSE chain, crashes <- 0,
  NetworkTimes <- {Now}, MaxCrashes <- 0
ImplementsBlockChain == Atomic!Spec

\* Every transaction the pool took is sent to the neighbours, whatever the other
\* threads wait for, also when a block took it out of the queue before.
AcceptedIsSent == \A t \in Offered : t \in queue ~> t \in sent

\* Every request is answered and every block's submission ends, or the node is in
\* one of the two states it never leaves; and every transaction the pool took was
\* sent to the neighbours, whatever the threads wait for.
RequestsEnd ==
  /\ AcceptedIsSent
  /\ \A a \in Adder : adder[a].pc # "idle" ~> adder[a].pc = "idle" \/ LockCycle \/ LockLost
  /\ \A w \in Writers : writer[w].pc # "idle" ~> writer[w].pc = "idle" \/ LockCycle \/ LockLost

===============================================================================
