------------------------------- MODULE NodeProofs -------------------------------
(***************************************************************************)
(* Node: however many threads there are, whatever blocks and transactions  *)
(* they hand in, the threads wait for each other for ever in two ways      *)
(* only, and under its lock the chain is that of BlockChain: every         *)
(* operation on it is one step for whoever takes the lock.                 *)
(***************************************************************************)
EXTENDS Node, ChainCoreProofs

\* The inductive invariant: who is where holds which lock.
PoolPcs == {"chain", "queue", "threw"}
ChainPcs == {"pop", "next", "add", "undo", "finish", "commit", "release"}
AddersPart ==
  /\ adder \in [Adder -> [pc : {"idle", "pool"} \cup PoolPcs, tx : Tx \cup {None}]]
  /\ poolLock \in Adder \cup {None}
  /\ \A a \in Adder : adder[a].pc \in PoolPcs <=> poolLock = a
WriterRecord(r) ==
  /\ r = [pc |-> r.pc, block |-> r.block, deltas |-> r.deltas]
  /\ r.pc \in {"idle", "lock"} \cup ChainPcs
WritersPart ==
  /\ writer = [w \in Writers |-> writer[w]] /\ \A w \in Writers : WriterRecord(writer[w])
  /\ chainLock \in Writers \cup {None}
  /\ \A w \in Writers : writer[w].pc \in ChainPcs <=> chainLock = w
LockInv == AddersPart /\ WritersPart

\* A writer's record with two fields changed.
LEMMA PcAndBlock ==
  ASSUME NEW r, WriterRecord(r), NEW pc, NEW v
  PROVE  [r EXCEPT !.pc = pc, !.block = v] = [pc |-> pc, block |-> v, deltas |-> r.deltas]
<1> DEFINE p == [pc |-> pc, block |-> r.block, deltas |-> r.deltas]
<1>1. [r EXCEPT !.pc = pc] = p
  BY DEF WriterRecord
<1>2. [p EXCEPT !.block = v] = [pc |-> pc, block |-> v, deltas |-> r.deltas]
  OBVIOUS
<1>3. [r EXCEPT !.pc = pc, !.block = v] = [[r EXCEPT !.pc = pc] EXCEPT !.block = v]
  BY Zenon
<1> HIDE DEF p
<1> QED
  BY <1>1, <1>2, <1>3, Zenon

LEMMA DeltasAndPc ==
  ASSUME NEW r, WriterRecord(r), NEW pc, NEW v
  PROVE  [r EXCEPT !.deltas = v, !.pc = pc] = [pc |-> pc, block |-> r.block, deltas |-> v]
<1> DEFINE d == [pc |-> r.pc, block |-> r.block, deltas |-> v]
<1>1. [r EXCEPT !.deltas = v] = d
  BY DEF WriterRecord
<1>2. [d EXCEPT !.pc = pc] = [pc |-> pc, block |-> r.block, deltas |-> v]
  OBVIOUS
<1>3. [r EXCEPT !.deltas = v, !.pc = pc] = [[r EXCEPT !.deltas = v] EXCEPT !.pc = pc]
  BY Zenon
<1> HIDE DEF d
<1> QED
  BY <1>1, <1>2, <1>3, Zenon

\* One request thread goes on.  It is without the pool's lock where the lock is

\* given back, and at one of the places under the lock where it is taken or kept.
LEMMA AdderGoes ==
  ASSUME AddersPart, NEW a \in Adder, NEW pc \in {"idle", "pool"} \cup PoolPcs,
         NEW t \in Tx \cup {None}, adder' = [adder EXCEPT ![a] = [pc |-> pc, tx |-> t]],
         \/ poolLock \in {None, a} /\ pc \in PoolPcs /\ poolLock' = a
         \/ poolLock = a /\ pc \notin PoolPcs /\ poolLock' = None
         \/ poolLock # a /\ pc \notin PoolPcs /\ poolLock' = poolLock
  PROVE  AddersPart'
<1>1. adder' \in [Adder -> [pc : {"idle", "pool"} \cup PoolPcs, tx : Tx \cup {None}]]
  BY DEF AddersPart
<1>2. adder'[a].pc = pc /\ \A b \in Adder : b # a => adder'[b] = adder[b]
  BY DEF AddersPart
<1>3. poolLock' \in Adder \cup {None}
  BY DEF AddersPart
<1>4. None \notin Adder
  BY NodeAssumption
<1> QED
  BY <1>1, <1>2, <1>3, <1>4 DEF AddersPart

\* The same of a writing thread and the chain's lock.
LEMMA WriterGoes ==
  ASSUME WritersPart, NEW w \in Writers, NEW new, WriterRecord(new),
         writer' = [writer EXCEPT ![w] = new],
         \/ chainLock \in {None, w} /\ new.pc \in ChainPcs /\ chainLock' = w
         \/ chainLock = w /\ new.pc \notin ChainPcs /\ chainLock' = None
         \/ chainLock # w /\ new.pc \notin ChainPcs /\ chainLock' = chainLock
  PROVE  WritersPart'
<1>1. writer' = [v \in Writers |-> writer'[v]]
  BY DEF WritersPart
<1>2. writer'[w] = new /\ \A v \in Writers : v # w => writer'[v] = writer[v]
  BY DEF WritersPart
<1>3. chainLock' \in Writers \cup {None} /\ None \notin Writers
  BY NodeAssumption DEF WritersPart, Writers
<1> QED
  BY <1>1, <1>2, <1>3 DEF WritersPart, WriterRecord

\* A writing thread that only moves on.
LEMMA WriterMoves ==
  ASSUME WritersPart, NEW w \in Writers, NEW pc \in {"idle", "lock"} \cup ChainPcs,
         writer' = [writer EXCEPT ![w].pc = pc],
         \/ chainLock \in {None, w} /\ pc \in ChainPcs /\ chainLock' = w
         \/ chainLock = w /\ pc \notin ChainPcs /\ chainLock' = None
         \/ chainLock # w /\ pc \notin ChainPcs /\ chainLock' = chainLock
  PROVE  WritersPart'
<1> DEFINE new == [writer[w] EXCEPT !.pc = pc]
<1>1. new = [pc |-> pc, block |-> writer[w].block, deltas |-> writer[w].deltas]
  BY DEF WritersPart, WriterRecord
<1>2. WriterRecord(new) /\ new.pc = pc
  BY <1>1 DEF WriterRecord
<1>3. writer' = [writer EXCEPT ![w] = new]
  OBVIOUS
<1> HIDE DEF new
<1> QED
  BY <1>2, <1>3, WriterGoes

\* The other half is untouched.
LEMMA AddersStay == ASSUME AddersPart, UNCHANGED <<adder, poolLock>> PROVE AddersPart'
BY DEF AddersPart
LEMMA WritersStay == ASSUME WritersPart, UNCHANGED <<writer, chainLock>> PROVE WritersPart'
BY DEF WritersPart, WriterRecord

LEMMA InitLocks == Init => LockInv
<1> SUFFICES ASSUME Init PROVE LockInv
  OBVIOUS
<1>1. AddersPart
  BY NodeAssumption DEF Init, AddersPart, IdleAdder, PoolPcs
<1>2. WritersPart
  BY NodeAssumption DEF Init, WritersPart, WriterRecord, IdleWriter, ChainPcs, Writers
<1> QED
  BY <1>1, <1>2 DEF LockInv

\* The steps of a request thread.
LEMMA AnswerGoes ==
  ASSUME AddersPart, NEW a \in Adder, Answer(a),
         \/ poolLock = a /\ poolLock' = None
         \/ poolLock # a /\ poolLock' = poolLock
  PROVE  AddersPart'
BY AdderGoes DEF Answer, IdleAdder, PoolPcs
LEMMA GotoGoes ==
  ASSUME AddersPart, NEW a \in Adder, NEW pc \in PoolPcs, Goto(a, pc),
         poolLock \in {None, a}, poolLock' = a
  PROVE  AddersPart'
<1>1. adder[a].tx \in Tx \cup {None}
  BY DEF AddersPart
<1>2. [adder[a] EXCEPT !.pc = pc] = [pc |-> pc, tx |-> adder[a].tx]
  BY DEF AddersPart
<1>3. adder' = [adder EXCEPT ![a] = [pc |-> pc, tx |-> adder[a].tx]]
  BY <1>2 DEF Goto
<1> QED
  BY <1>1, <1>3, AdderGoes

\* Where a thread is tells whether it holds the pool's lock.
LEMMA AdderHolds ==
  ASSUME AddersPart, NEW a \in Adder
  PROVE  (adder[a].pc \in PoolPcs <=> poolLock = a) /\ (poolLock = None => poolLock # a)
BY NodeAssumption DEF AddersPart

LEMMA AddTransactionLocks ==
  ASSUME LockInv, NEW a \in Adder, NEW t \in Offered, AddTransaction(a, t) PROVE LockInv'
<1>1. AddersPart'
  <2>1. poolLock # a /\ poolLock' = poolLock
    BY AdderHolds DEF LockInv, AddTransaction, poolVars, PoolPcs
  <2>2. t \in Tx \cup {None}
    BY NodeAssumption
  <2> QED
    BY <2>1, <2>2, AdderGoes DEF LockInv, AddTransaction, PoolPcs
<1>2. WritersPart'
  BY WritersStay DEF LockInv, AddTransaction, chainVars
<1> QED
  BY <1>1, <1>2 DEF LockInv

LEMMA CheckQueueLocks ==
  ASSUME LockInv, NEW a \in Adder, CheckQueue(a) PROVE LockInv'
<1>1. AddersPart'
  <2>1. poolLock = None /\ poolLock # a
    BY AdderHolds DEF LockInv, CheckQueue
  <2>2. (Answer(a) /\ UNCHANGED poolLock) \/ (Goto(a, "chain") /\ poolLock' = a)
    BY DEF CheckQueue
  <2> QED
    BY <2>1, <2>2, AnswerGoes, GotoGoes DEF LockInv, PoolPcs
<1>2. WritersPart'
  BY WritersStay DEF LockInv, CheckQueue, chainVars
<1> QED
  BY <1>1, <1>2 DEF LockInv

LEMMA VerifyLocks ==
  ASSUME LockInv, NEW a \in Adder, VerifyUnderLock(a) PROVE LockInv'
<1>1. AddersPart'
  <2>1. poolLock = a
    BY AdderHolds DEF LockInv, VerifyUnderLock, PoolPcs
  <2>2. (Goto(a, "queue") /\ UNCHANGED poolLock) \/ (Answer(a) /\ poolLock' = None)
    BY DEF VerifyUnderLock
  <2> QED
    BY <2>1, <2>2, AnswerGoes, GotoGoes DEF LockInv, PoolPcs
<1>2. WritersPart'
  BY WritersStay DEF LockInv, VerifyUnderLock
<1> QED
  BY <1>1, <1>2 DEF LockInv

LEMMA EnqueueLocks ==
  ASSUME LockInv, NEW a \in Adder, Enqueue(a) PROVE LockInv'
<1>1. AddersPart'
  <2>1. poolLock = a
    BY AdderHolds DEF LockInv, Enqueue, PoolPcs
  <2>2. (Goto(a, "threw") /\ UNCHANGED poolLock) \/ (Answer(a) /\ poolLock' = None)
    BY DEF Enqueue, poolVars
  <2> QED
    BY <2>1, <2>2, AnswerGoes, GotoGoes DEF LockInv, PoolPcs
<1>2. WritersPart'
  BY WritersStay DEF LockInv, Enqueue, chainVars
<1> QED
  BY <1>1, <1>2 DEF LockInv

\* The steps of a writing thread.
LEMMA WriterHolds ==
  ASSUME WritersPart, NEW w \in Writers
  PROVE  (writer[w].pc \in ChainPcs <=> chainLock = w) /\ (chainLock = None => chainLock # w)
BY NodeAssumption DEF WritersPart, Writers

LEMMA SubmitLocks ==
  ASSUME LockInv, NEW w \in Writers, NEW b \in Block, SubmitProofOfWork(w, b) PROVE LockInv'
<1>1. WritersPart'
  <2>1. chainLock # w /\ chainLock' = chainLock
    BY WriterHolds DEF LockInv, SubmitProofOfWork, chainVars, ChainPcs
  <2>2. CASE UNCHANGED writer
    BY <2>1, <2>2, WritersStay DEF LockInv
  <2>3. CASE writer' = [writer EXCEPT ![w].pc = "lock", ![w].block = b]
    <3> DEFINE new == [pc |-> "lock", block |-> b, deltas |-> writer[w].deltas]
    <3>1. writer' = [writer EXCEPT ![w] = new]
      <4>1. WriterRecord(writer[w])
        BY DEF LockInv, WritersPart
      <4>2. [writer[w] EXCEPT !.pc = "lock", !.block = b] = new
        BY <4>1, PcAndBlock, Zenon
      <4>3. writer' = [writer EXCEPT ![w] = [writer[w] EXCEPT !.pc = "lock", !.block = b]]
        BY <2>3 DEF LockInv, WritersPart
      <4> QED
        BY <4>2, <4>3
    <3>2. WriterRecord(new) /\ new.pc \notin ChainPcs
      BY DEF WriterRecord, ChainPcs
    <3> HIDE DEF new
    <3> QED
      BY <2>1, <3>1, <3>2, WriterGoes DEF LockInv
  <2> QED
    BY <2>2, <2>3 DEF SubmitProofOfWork
<1>2. AddersPart'
  BY AddersStay DEF LockInv, SubmitProofOfWork, poolVars
<1> QED
  BY <1>1, <1>2 DEF LockInv

LEMMA AcquireLocks == ASSUME LockInv, NEW w \in Writers, Acquire(w) PROVE LockInv'
<1>1. WritersPart'
  <2>1. (IF w = Syncer THEN "pop" ELSE "add") \in ChainPcs
    BY DEF ChainPcs
  <2> QED
    BY <2>1, WriterMoves DEF LockInv, Acquire, To
<1>2. AddersPart'
  BY AddersStay DEF LockInv, Acquire, poolVars
<1> QED
  BY <1>1, <1>2 DEF LockInv

LEMMA ReleaseLocks == ASSUME LockInv, NEW w \in Writers, Release(w) PROVE LockInv'
<1>1. WritersPart'
  <2>1. chainLock = w
    BY WriterHolds DEF LockInv, Release, ChainPcs
  <2>2. WriterRecord(IdleWriter) /\ IdleWriter.pc \notin ChainPcs
    BY DEF WriterRecord, IdleWriter, ChainPcs
  <2> QED
    BY <2>1, <2>2, WriterGoes DEF LockInv, Release
<1>2. AddersPart'
  BY AddersStay DEF LockInv, Release, poolVars
<1> QED
  BY <1>1, <1>2 DEF LockInv

\* A writer that works holds the lock and goes on to another step under it.
LEMMA WorkGoes ==
  ASSUME LockInv, NEW w \in Writers, writer[w].pc \in ChainPcs, chainLock' = chainLock,
         UNCHANGED <<adder, poolLock>>,
         \/ \E pc \in ChainPcs : To(w, pc)
         \/ \E pc \in ChainPcs : \E b, d :
               writer' = [writer EXCEPT ![w] = [pc |-> pc, block |-> b, deltas |-> d]]
         \/ UNCHANGED writer
  PROVE  LockInv'
<1>1. chainLock = w /\ chainLock' = w
  BY WriterHolds DEF LockInv
<1>2. AddersPart'
  BY AddersStay DEF LockInv
<1>3. CASE \E pc \in ChainPcs : To(w, pc)
  BY <1>1, <1>2, <1>3, WriterMoves DEF LockInv, To
<1>4. ASSUME NEW pc \in ChainPcs, NEW b, NEW d,
             writer' = [writer EXCEPT ![w] = [pc |-> pc, block |-> b, deltas |-> d]]
      PROVE  LockInv'
  <2> DEFINE new == [pc |-> pc, block |-> b, deltas |-> d]
  <2>1. WriterRecord(new) /\ new.pc \in ChainPcs
    BY DEF WriterRecord
  <2>2. writer' = [writer EXCEPT ![w] = new]
    BY <1>4
  <2> HIDE DEF new
  <2> QED
    BY <1>1, <1>2, <2>1, <2>2, WriterGoes DEF LockInv
<1>5. CASE UNCHANGED writer
  BY <1>1, <1>2, <1>5, WritersStay DEF LockInv
<1> QED
  BY <1>3, <1>4, <1>5

LEMMA AddLocks ==
  ASSUME LockInv, NEW w \in Writers,
         AddExecute(w) \/ AddUndo(w) \/ FinishBlock(w) \/ AddCommit(w)
  PROVE  LockInv'
<1>1. CASE AddExecute(w)
  <2>1. /\ writer[w].pc \in ChainPcs /\ chainLock' = chainLock
        /\ UNCHANGED <<adder, poolLock>>
    BY <1>1 DEF AddExecute, poolVars, ChainPcs
  <2>2. CASE To(w, "release")
    BY <2>1, <2>2, WorkGoes DEF ChainPcs
  <2>3. ASSUME NEW d, NEW pc \in ChainPcs, writer' = [writer EXCEPT ![w].deltas = d, ![w].pc = pc]
        PROVE  LockInv'
    <3>1. WriterRecord(writer[w])
      BY DEF LockInv, WritersPart
    <3>2. [writer[w] EXCEPT !.deltas = d, !.pc = pc] = [pc |-> pc, block |-> writer[w].block, deltas |-> d]
      BY <3>1, DeltasAndPc, Zenon
    <3>3. writer' = [writer EXCEPT ![w] = [writer[w] EXCEPT !.deltas = d, !.pc = pc]]
      BY <2>3 DEF LockInv, WritersPart
    <3>4. \E q \in ChainPcs : \E b, e : writer' = [writer EXCEPT ![w] = [pc |-> q, block |-> b, deltas |-> e]]
      BY <3>2, <3>3, Zenon
    <3> QED
      BY <2>1, <3>4, WorkGoes
  <2>4. \A s : (IF s # "SUCCESS" THEN "undo" ELSE IF poolSet THEN "finish" ELSE "commit") \in ChainPcs
    BY DEF ChainPcs
  <2> QED
    BY <1>1, <2>2, <2>3, <2>4 DEF AddExecute
<1>2. CASE AddUndo(w)
  BY <1>2, WorkGoes DEF AddUndo, poolVars, ChainPcs
<1>3. CASE FinishBlock(w)
  BY <1>3, WorkGoes DEF FinishBlock, chainVars, ChainPcs
<1>4. CASE AddCommit(w)
  <2>1. (IF w = Syncer THEN IF writer[w].block = Genesis THEN "pop" ELSE "next" ELSE "release") \in ChainPcs
    BY DEF ChainPcs
  <2> QED
    BY <1>4, <2>1, WorkGoes DEF AddCommit, poolVars, ChainPcs
<1> QED
  BY <1>1, <1>2, <1>3, <1>4

\* The rounds of chain_sync.
LEMMA StartSyncLocks == ASSUME LockInv, StartSync PROVE LockInv'
<1>1. Syncer \in Writers
  BY DEF Writers
<1>2. WritersPart'
  <2>1. chainLock # Syncer /\ chainLock' = chainLock
    BY <1>1, WriterHolds DEF LockInv, StartSync, chainVars, ChainPcs
  <2> QED
    BY <1>1, <2>1, WriterMoves DEF LockInv, StartSync, To, ChainPcs
<1>3. AddersPart'
  BY AddersStay DEF LockInv, StartSync, poolVars
<1> QED
  BY <1>2, <1>3 DEF LockInv

LEMMA SyncStepLocks == ASSUME LockInv, SyncStep PROVE LockInv'
<1>1. Syncer \in Writers
  BY DEF Writers
<1>2. ASSUME NEW b, writer' = [writer EXCEPT ![Syncer].pc = "add", ![Syncer].block = b],
             writer[Syncer].pc \in ChainPcs, chainLock' = chainLock, UNCHANGED <<adder, poolLock>>
      PROVE  LockInv'
  <2>1. WriterRecord(writer[Syncer])
    BY <1>1 DEF LockInv, WritersPart
  <2>2. [writer[Syncer] EXCEPT !.pc = "add", !.block = b] =
          [pc |-> "add", block |-> b, deltas |-> writer[Syncer].deltas]
    BY <2>1, PcAndBlock, Zenon
  <2>3. writer' = [writer EXCEPT ![Syncer] = [writer[Syncer] EXCEPT !.pc = "add", !.block = b]]
    BY <1>1, <1>2 DEF LockInv, WritersPart
  <2>4. "add" \in ChainPcs
    BY DEF ChainPcs
  <2>5. writer' = [writer EXCEPT ![Syncer] = [pc |-> "add", block |-> b, deltas |-> writer[Syncer].deltas]]
    BY <2>2, <2>3, Zenon
  <2>6. \E q \in ChainPcs : \E c, e : writer' = [writer EXCEPT ![Syncer] = [pc |-> q, block |-> c, deltas |-> e]]
    BY <2>4, <2>5
  <2> QED
    BY <1>1, <1>2, <2>6, WorkGoes
<1>3. CASE SyncPop
  BY <1>1, <1>2, <1>3, WorkGoes DEF SyncPop, poolVars, ChainPcs
<1>4. ASSUME NEW b \in Block, SyncDownload(b) PROVE LockInv'
  BY <1>2, <1>4 DEF SyncDownload, chainVars, poolVars, ChainPcs
<1>5. CASE SyncEnds
  BY <1>1, <1>5, WorkGoes DEF SyncEnds, chainVars, poolVars, ChainPcs
<1> QED
  BY <1>3, <1>4, <1>5 DEF SyncStep

\* Every step keeps the invariant.
LEMMA NextLocks == LockInv /\ [Next]_vars => LockInv'
<1> SUFFICES ASSUME LockInv, [Next]_vars PROVE LockInv'
  OBVIOUS
<1>1. ASSUME NEW a \in Adder, AdderStep(a) PROVE LockInv'
  BY <1>1, CheckQueueLocks, VerifyLocks, EnqueueLocks DEF AdderStep
<1>2. ASSUME NEW a \in Adder, NEW t \in Offered, AddTransaction(a, t) PROVE LockInv'
  BY <1>2, AddTransactionLocks
<1>3. ASSUME NEW w \in Writers, WriterStep(w) PROVE LockInv'
  BY <1>3, AcquireLocks, ReleaseLocks, AddLocks DEF WriterStep
<1>4. ASSUME NEW w \in Writers, NEW b \in Block, SubmitProofOfWork(w, b) PROVE LockInv'
  BY <1>4, SubmitLocks
<1>5. CASE StartSync \/ SyncStep
  BY <1>5, StartSyncLocks, SyncStepLocks
<1>6. CASE SendNext \/ SetMemPool \/ UNCHANGED vars
  BY <1>6, AddersStay, WritersStay DEF SendNext, SetMemPool, vars, chainVars, poolVars, LockInv
<1> QED
  BY <1>1, <1>2, <1>3, <1>4, <1>5, <1>6 DEF Next

\* In a state where every thread that is at work waits, one of the two happened.
LEMMA LocksExplain == LockInv => StuckOnlyKnown
<1> SUFFICES ASSUME LockInv, Waits # {}, Waits = Busy PROVE LockCycle \/ LockLost
  BY DEF StuckOnlyKnown
<1>1. /\ None \notin Adder /\ None \notin Writers /\ Adder \cap Writers = {}
  BY NodeAssumption DEF Writers
<1>2. ASSUME NEW a \in Adder, poolLock = a, adder[a].pc # "threw"
      PROVE  adder[a].pc = "chain" /\ chainLock # None
  <2>1. adder[a].pc \in {"chain", "queue"}
    BY <1>2 DEF LockInv, AddersPart, PoolPcs
  <2>2. a \in Waits
    BY <2>1 DEF Busy
  <2> QED
    BY <1>1, <2>1, <2>2 DEF Waits
<1>3. ASSUME NEW w \in Writers, chainLock = w
      PROVE  writer[w].pc = "finish" /\ poolLock # None
  <2>1. writer[w].pc \in ChainPcs
    BY <1>3 DEF LockInv, WritersPart
  <2>2. w \in Waits
    BY <2>1 DEF Busy, ChainPcs
  <2> QED
    BY <1>1, <2>1, <2>2 DEF Waits, ChainPcs
<1>4. poolLock # None \/ chainLock # None
  <2>1. PICK x : x \in Waits
    OBVIOUS
  <2> QED
    BY <2>1 DEF Waits
<1>5. poolLock \in Adder \cup {None} /\ chainLock \in Writers \cup {None}
  BY DEF LockInv, AddersPart, WritersPart
<1>6. poolLock # None
  BY <1>3, <1>4, <1>5
<1>7. CASE adder[poolLock].pc = "threw"
  BY <1>5, <1>6, <1>7 DEF LockLost
<1>8. CASE adder[poolLock].pc # "threw"
  BY <1>2, <1>3, <1>5, <1>6, <1>8 DEF LockCycle
<1> QED
  BY <1>7, <1>8

\* For every number of request threads and writers, and whatever they hand in: the
\* threads wait for each other for ever in the cycle of the two locks or after a
\* request that threw, and in no other way.
THEOREM OnlyKnownDeadlocks == Spec => []StuckOnlyKnown
BY InitLocks, NextLocks, LocksExplain, PTL DEF Spec

-------------------------------------------------------------------------------
(* Seen through the locks a node is BlockChain.                            *)

\* What the chain's record is while a writer works on it.  A block is added to the
\* chain that was there before, or, after everything was removed, the first again
\* to nothing.
Base(c, w) ==
  \/ c = stable
  \/ /\ w = Syncer /\ writer[w].block = Genesis /\ c = Cleared
     /\ stable.numBlocks > 1 /\ ~ (stable.numBlocks > 2)
Executing(w, c) ==
  LET b == writer[w].block
  IN  /\ b \in Block /\ Base(c, w) /\ CheckBlock(c, b, Now) = "SUCCESS"
      /\ chain = [c EXCEPT !.ledger = Execution(c, b).ledger]
WorkPart(w) ==
  LET r == writer[w]
  IN  /\ r.pc \in {"pop", "next"} => stable = chain
      /\ r.pc = "add" => r.block \in Block /\ Base(chain, w)
      /\ r.pc \in {"finish", "commit"} =>
           \E c \in {stable, Cleared} : Executing(w, c) /\ Execution(c, r.block).status = "SUCCESS"
      /\ r.pc = "undo" => /\ Executing(w, stable)
                          /\ Execution(stable, r.block).status # "SUCCESS"
                          /\ r.deltas = Execution(stable, r.block).deltas
IsNumbered(c) == IsChain(c) /\ c.numBlocks \in Int
ChainPart ==
  /\ IsNumbered(chain) /\ IsNumbered(stable)
  /\ \A w \in Writers : chainLock = w => WorkPart(w)
  /\ \A w \in Writer : writer[w].pc # "idle" => writer[w].block \in Block

\* What others see of the chain, and its steps.
View == IF Held THEN stable ELSE chain
ViewStep ==
  \/ \E b \in Block : View' = AddBlock(View, b, Now).chain
  \/ View.numBlocks > 1 /\ View' = PopBlock(View)
  \/ \E t \in Tx : View' = VerifyTransaction(View, t).chain
  \/ View' = View

(* A commit does not look at the ledger before.                            *)
LEMMA CommitOverwrites ==
  ASSUME NEW c, IsNumbered(c), NEW b, NEW l
  PROVE  /\ Commit([c EXCEPT !.ledger = l], b, l) = Commit(c, b, l)
         /\ IsNumbered(Commit(c, b, l)) /\ [c EXCEPT !.ledger = l].ledger = l
         /\ IsNumbered([c EXCEPT !.ledger = l])
<1> DEFINE t == InsertTransactions(c.txdb, Ordered(b), BlockBody[b].id)
           s == SetBlock(c.blocks, b)
           n == c.numBlocks + 1
           w == c.totalWork + Work(b)
           Added(d) == [d EXCEPT !.ledger = l, !.txdb = t, !.blocks = s, !.numBlocks = n,
                                 !.count = n, !.totalWork = w, !.work = w, !.lastHash = b]
           Done(d) == [Added(d) EXCEPT !.difficulty = UpdateDifficulty(Added(d))]
           e == [c EXCEPT !.ledger = l]
<1>1. /\ IsChain(e) /\ e.txdb = c.txdb /\ e.blocks = c.blocks /\ e.numBlocks = c.numBlocks
      /\ e.totalWork = c.totalWork /\ e.ledger = l
  BY DEF IsNumbered, IsChain, ChainFields
<1>2. Commit(c, b, l) = Done(c)
  BY DEF Commit
<1>3. Commit(e, b, l) = Done(e)
  <2> HIDE DEF e
  <2> QED BY <1>1 DEF Commit
<1> HIDE DEF t, s, n, w
<1>4. Added(e) = Added(c)
  BY DEF IsNumbered, IsChain, ChainFields
<1>5. IsChain(Added(c)) /\ Added(c).numBlocks = n
  BY DEF IsNumbered, IsChain, ChainFields
<1> HIDE DEF Added
<1>6. IsChain(Done(c)) /\ Done(c).numBlocks = n
  BY <1>5 DEF IsChain, ChainFields
<1>7. n \in Int
  BY DEF n, IsNumbered
<1> HIDE DEF e, Done
<1>8. Done(e) = Done(c)
  BY <1>4 DEF Done
<1> QED BY <1>1, <1>2, <1>3, <1>6, <1>7, <1>8 DEF e, IsNumbered

(* The first block can be added again whenever everything was removed.     *)
LEMMA FirstAgain ==
  /\ CheckBlock(Cleared, Genesis, Now) = "SUCCESS"
  /\ Execution(Cleared, Genesis).status = "SUCCESS"
  /\ Commit(Cleared, Genesis, Execution(Cleared, Genesis).ledger) = ResetChain
  /\ IsNumbered(Cleared) /\ IsNumbered(ResetChain)
<1>1. CheckBlock(Cleared, Genesis, 0) = "SUCCESS"
  BY GenesisAssumption DEF AddBlock
<1>2. Execution(Cleared, Genesis).status = "SUCCESS"
  BY <1>1, GenesisAssumption DEF AddBlock, Finish
<1>3. Cleared.numBlocks = 0 /\ IsNumbered(Cleared)
  BY DEF Cleared, IsNumbered, IsChain, ChainFields
<1>4. BlockBody[Genesis].id = 1
  BY <1>1, <1>3 DEF CheckBlock
<1>5. CheckBlock(Cleared, Genesis, Now) = "SUCCESS"
  BY <1>1, <1>4 DEF CheckBlock
<1>6. Commit(Cleared, Genesis, Execution(Cleared, Genesis).ledger) = ResetChain
  BY <1>1, <1>2 DEF ResetChain, AddBlock, Finish
<1> QED BY <1>2, <1>3, <1>5, <1>6, CommitOverwrites

(* Removing one of more than two blocks.                                   *)
LEMMA PopNumbered ==
  ASSUME NEW c, IsNumbered(c)
  PROVE  IsNumbered(PopBlock(c))
<1> DEFINE undone == RollbackBlock(Ordered(Tip(c)), c.ledger, c.txdb)
           l == undone.ledger
           t == undone.txdb
           n == c.numBlocks - 1
           w == c.totalWork - Work(Tip(c))
           d == BlockBody[c.blocks[n]].difficulty
           h == c.blocks[n]
           popped == [c EXCEPT !.ledger = l, !.txdb = t, !.numBlocks = n, !.count = n,
                               !.totalWork = w, !.work = w]
           e == [popped EXCEPT !.difficulty = d, !.lastHash = h]
<1>1. PopBlock(c) = IF n > 1 THEN e ELSE ResetChain
  BY DEF PopBlock, Popped
<1>2. n \in Int
  BY DEF IsNumbered
<1> HIDE DEF l, t, n, w, d, h
<1>3. IsChain(popped) /\ popped.numBlocks = n
  BY DEF IsNumbered, IsChain, ChainFields
<1> HIDE DEF popped
<1>4. IsChain(e) /\ e.numBlocks = n
  BY <1>3 DEF IsChain, ChainFields
<1> HIDE DEF e
<1> QED BY <1>1, <1>2, <1>4, FirstAgain DEF IsNumbered

\* Nothing of it changes.
LEMMA ChainStays ==
  ASSUME ChainPart, UNCHANGED <<chain, stable, chainLock, writer>>
  PROVE  ChainPart' /\ ViewStep
BY DEF ChainPart, WorkPart, Executing, Base, ViewStep, View, Held

(* The writer that has the lock decides what is seen.                      *)
LEMMA HolderSees ==
  ASSUME LockInv, NEW w \in Writers, chainLock = w
  PROVE  View = IF writer[w].pc \in {"add", "undo", "finish", "commit"} THEN stable ELSE chain
BY NodeAssumption DEF View, Held, Writers

(* What follows about the state after a step of the writer that has it.    *)
LEMMA HolderStep ==
  ASSUME LockInv, ChainPart, NEW w \in Writers, chainLock' = w, writer[w].pc # "idle",
         NEW new, writer' = [writer EXCEPT ![w] = new], w # Syncer => new.block = writer[w].block,
         IsNumbered(chain'), IsNumbered(stable'), WorkPart(w)'
  PROVE  /\ ChainPart'
         /\ View' = IF new.pc \in {"add", "undo", "finish", "commit"} THEN stable' ELSE chain'
<1>1. \A v \in Writers : writer'[v] = IF v = w THEN new ELSE writer[v]
  BY DEF LockInv, WritersPart
<1>2. \A v \in Writer : writer'[v].pc # "idle" => writer'[v].block \in Block
  <2>1. Writer \subseteq Writers /\ Syncer \notin Writer
    BY NodeAssumption DEF Writers
  <2> QED BY <1>1, <2>1 DEF ChainPart
<1>3. w # None
  BY NodeAssumption DEF Writers
<1> QED BY <1>1, <1>2, <1>3 DEF ChainPart, View, Held

(* The record of a writer, and with another place in the code.             *)
LEMMA HolderRecord ==
  ASSUME LockInv, NEW w \in Writers
  PROVE  \A pc : /\ [writer[w] EXCEPT !.pc = pc].pc = pc
                 /\ [writer[w] EXCEPT !.pc = pc].block = writer[w].block
                 /\ [writer[w] EXCEPT !.pc = pc].deltas = writer[w].deltas
                 /\ To(w, pc) => /\ writer' = [writer EXCEPT ![w] = [writer[w] EXCEPT !.pc = pc]]
                                 /\ writer'[w] = [writer[w] EXCEPT !.pc = pc]
BY DEF LockInv, WritersPart, WriterRecord, To

\* While no writer has the lock the chain is what it is.
LEMMA FreeSees == chainLock = None => View = chain
BY DEF View, Held

\* The lock is taken: the chain is what it was.
LEMMA AcquireSees ==
  ASSUME LockInv, ChainPart, NEW w \in Writers, Acquire(w)
  PROVE  ChainPart' /\ ViewStep
<1> DEFINE pc == IF w = Syncer THEN "pop" ELSE "add"
           new == [writer[w] EXCEPT !.pc = pc]
<1>1. /\ chainLock = None /\ chainLock' = w /\ chain' = chain /\ stable' = chain /\ To(w, pc)
      /\ writer[w].pc = "lock"
  BY DEF Acquire
<1>2. /\ writer' = [writer EXCEPT ![w] = new] /\ writer'[w] = new /\ new.pc = pc
      /\ new.block = writer[w].block
  BY <1>1, HolderRecord
<1>3. IsNumbered(chain') /\ IsNumbered(stable')
  BY <1>1 DEF ChainPart
<1>4. w # Syncer => writer[w].block \in Block
  BY <1>1 DEF ChainPart, Writers
<1>5. WorkPart(w)'
  BY <1>1, <1>2, <1>4 DEF WorkPart, Base
<1> HIDE DEF new
<1>6. ChainPart' /\ View' = chain
  BY <1>1, <1>2, <1>3, <1>5, HolderStep
<1> QED BY <1>1, <1>6, FreeSees DEF ViewStep

\* The ledger is written, but not seen; or the block is refused.
LEMMA ExecuteSees ==
  ASSUME LockInv, ChainPart, NEW w \in Writers, AddExecute(w)
  PROVE  ChainPart' /\ ViewStep
<1> DEFINE b == writer[w].block
           x == Execution(chain, b)
<1>1. /\ writer[w].pc = "add" /\ chainLock = w /\ chainLock' = w /\ stable' = stable
  BY WriterHolds DEF LockInv, AddExecute, ChainPcs
<1>2. View = stable /\ b \in Block /\ Base(chain, w)
  BY <1>1, HolderSees DEF ChainPart, WorkPart
<1>3. CASE CheckBlock(chain, b, Now) # "SUCCESS"
  <2> DEFINE new == [writer[w] EXCEPT !.pc = "release"]
  <2>1. chain = stable
    BY <1>2, <1>3, FirstAgain DEF Base
  <2>2. To(w, "release") /\ chain' = chain
    BY <1>3 DEF AddExecute
  <2>3. /\ writer' = [writer EXCEPT ![w] = new] /\ writer'[w] = new /\ new.pc = "release"
        /\ new.block = b
    BY <2>2, HolderRecord
  <2>4. WorkPart(w)'
    BY <2>3 DEF WorkPart
  <2> HIDE DEF new
  <2>5. ChainPart' /\ View' = chain'
    BY <1>1, <2>2, <2>3, <2>4, HolderStep DEF ChainPart
  <2> QED BY <1>2, <2>1, <2>2, <2>5 DEF ViewStep
<1>4. CASE CheckBlock(chain, b, Now) = "SUCCESS"
  <2> DEFINE pc == IF x.status # "SUCCESS" THEN "undo" ELSE IF poolSet THEN "finish" ELSE "commit"
             new == [pc |-> pc, block |-> b, deltas |-> x.deltas]
  <2>1. chain' = [chain EXCEPT !.ledger = x.ledger]
    BY <1>4 DEF AddExecute
  <2>2. writer' = [writer EXCEPT ![w].deltas = x.deltas, ![w].pc = pc]
    BY <1>4 DEF AddExecute
  <2>3. writer' = [writer EXCEPT ![w] = new] /\ writer'[w] = new
    <3> HIDE DEF x, pc
    <3>1. WriterRecord(writer[w])
      BY DEF LockInv, WritersPart
    <3>2. [writer[w] EXCEPT !.deltas = x.deltas, !.pc = pc] = new
      BY <3>1, DeltasAndPc, Zenon
    <3>3. writer' = [writer EXCEPT ![w] = [writer[w] EXCEPT !.deltas = x.deltas, !.pc = pc]]
      BY <2>2 DEF LockInv, WritersPart
    <3>4. writer' = [writer EXCEPT ![w] = new]
      BY <3>2, <3>3
    <3> QED BY <3>4 DEF LockInv, WritersPart
  <2>4. IsNumbered(chain')
    BY <2>1, CommitOverwrites DEF ChainPart
  <2>5. x.status # "SUCCESS" => chain = stable
    BY <1>2, FirstAgain DEF Base
  <2>6. Base(chain, w)'  \/ (chain = stable \/ chain = Cleared)
    BY <1>2 DEF Base
  <2>7. WorkPart(w)'
    <3>1. Executing(w, stable)' \/ chain # stable
      BY <1>1, <1>2, <1>4, <2>1, <2>3 DEF Executing, Base
    <3>2. chain # stable => chain = Cleared /\ Executing(w, Cleared)'
      BY <1>1, <1>2, <1>4, <2>1, <2>3 DEF Executing, Base
    <3> QED BY <1>1, <2>3, <2>5, <3>1, <3>2 DEF WorkPart
  <2>8. new.pc \in {"add", "undo", "finish", "commit"} /\ new.block = b
    OBVIOUS
  <2> HIDE DEF new, b
  <2>9. ChainPart' /\ View' = stable'
    BY <1>1, <2>3, <2>4, <2>7, <2>8, HolderStep DEF ChainPart, b
  <2> QED BY <1>1, <1>2, <2>9 DEF ViewStep
<1> QED BY <1>3, <1>4

\* The ledger is as addBlock leaves it for a block that fails.
LEMMA UndoSees ==
  ASSUME LockInv, ChainPart, NEW w \in Writers, AddUndo(w)
  PROVE  ChainPart' /\ ViewStep
<1> DEFINE b == writer[w].block
           x == Execution(stable, b)
           new == [writer[w] EXCEPT !.pc = "release"]
<1>1. /\ writer[w].pc = "undo" /\ chainLock = w /\ chainLock' = w /\ stable' = stable
      /\ chain' = [chain EXCEPT !.ledger = Rollback(@, writer[w].deltas)] /\ To(w, "release")
  BY WriterHolds DEF LockInv, AddUndo, ChainPcs
<1>2. /\ View = stable /\ b \in Block /\ CheckBlock(stable, b, Now) = "SUCCESS"
      /\ chain = [stable EXCEPT !.ledger = x.ledger]
      /\ x.status # "SUCCESS" /\ writer[w].deltas = x.deltas
  BY <1>1, HolderSees DEF ChainPart, WorkPart, Executing
<1>3. chain' = AddBlock(stable, b, Now).chain
  <2>1. chain.ledger = x.ledger
    BY <1>2, CommitOverwrites DEF ChainPart
  <2>2. chain' = [chain EXCEPT !.ledger = Rollback(x.ledger, x.deltas)]
    BY <1>1, <1>2, <2>1
  <2> DEFINE m == Rollback(x.ledger, x.deltas)
  <2>3. AddBlock(stable, b, Now).chain = [stable EXCEPT !.ledger = m]
    BY <1>2 DEF AddBlock, Finish
  <2> HIDE DEF m, x
  <2>4. chain' = [stable EXCEPT !.ledger = m]
    BY <1>2, <2>2 DEF ChainPart, IsNumbered, IsChain, ChainFields, m
  <2> QED BY <2>3, <2>4
<1>4. /\ writer' = [writer EXCEPT ![w] = new] /\ writer'[w] = new /\ new.pc = "release"
      /\ new.block = b
  BY <1>1, HolderRecord
<1>5. WorkPart(w)'
  BY <1>4 DEF WorkPart
<1>6. IsNumbered(chain')
  <2> DEFINE m == Rollback(chain.ledger, writer[w].deltas)
  <2>1. chain' = [chain EXCEPT !.ledger = m]
    BY <1>1
  <2> HIDE DEF m
  <2> QED BY <2>1, CommitOverwrites DEF ChainPart
<1> HIDE DEF new
<1>7. ChainPart' /\ View' = chain'
  BY <1>1, <1>4, <1>5, <1>6, HolderStep DEF ChainPart
<1> QED BY <1>2, <1>3, <1>7 DEF ViewStep

\* The pool is another matter.
LEMMA FinishSees ==
  ASSUME LockInv, ChainPart, NEW w \in Writers, FinishBlock(w)
  PROVE  ChainPart' /\ ViewStep
<1> DEFINE new == [writer[w] EXCEPT !.pc = "commit"]
<1>1. /\ writer[w].pc = "finish" /\ chainLock = w /\ chainLock' = w /\ stable' = stable
      /\ chain' = chain /\ To(w, "commit")
  BY WriterHolds DEF LockInv, FinishBlock, chainVars, ChainPcs
<1>2. View = stable
  BY <1>1, HolderSees
<1>3. /\ writer' = [writer EXCEPT ![w] = new] /\ writer'[w] = new /\ new.pc = "commit"
      /\ new.block = writer[w].block
  BY <1>1, HolderRecord
<1>4. WorkPart(w)'
  BY <1>1, <1>3 DEF ChainPart, WorkPart, Executing, Base
<1> HIDE DEF new
<1>5. ChainPart' /\ View' = stable'
  BY <1>1, <1>3, <1>4, HolderStep DEF ChainPart
<1> QED BY <1>1, <1>2, <1>5 DEF ViewStep

\* The block is added, or the chain was reset.
LEMMA CommitSees ==
  ASSUME LockInv, ChainPart, NEW w \in Writers, AddCommit(w)
  PROVE  ChainPart' /\ ViewStep
<1> DEFINE b == writer[w].block
           pc == IF w = Syncer THEN IF b = Genesis THEN "pop" ELSE "next" ELSE "release"
           new == [writer[w] EXCEPT !.pc = pc]
<1>1. /\ writer[w].pc = "commit" /\ chainLock = w /\ chainLock' = w
      /\ chain' = Commit(chain, b, chain.ledger) /\ stable' = chain' /\ To(w, pc)
  BY WriterHolds DEF LockInv, AddCommit, ChainPcs
<1>2. PICK c \in {stable, Cleared} : Executing(w, c) /\ Execution(c, b).status = "SUCCESS"
  BY <1>1 DEF ChainPart, WorkPart
<1> DEFINE l == Execution(c, b).ledger
<1>3. /\ View = stable /\ b \in Block /\ Base(c, w) /\ CheckBlock(c, b, Now) = "SUCCESS"
      /\ chain = [c EXCEPT !.ledger = l]
  BY <1>1, <1>2, HolderSees DEF Executing
<1>4. chain' = Commit(c, b, l) /\ IsNumbered(chain')
  <2>1. IsNumbered(c)
    BY <1>2, FirstAgain DEF ChainPart
  <2> HIDE DEF l
  <2> QED BY <1>1, <1>3, <2>1, CommitOverwrites
<1>5. (\E a \in Block : chain' = AddBlock(View, a, Now).chain) \/ (View.numBlocks > 1 /\ chain' = PopBlock(View))
  <2>1. CASE c = stable
    BY <1>2, <1>3, <1>4, <2>1 DEF AddBlock, Finish
  <2>2. CASE c # stable
    <3>1. b = Genesis /\ c = Cleared /\ stable.numBlocks > 1 /\ ~ (stable.numBlocks > 2)
      BY <1>3, <2>2 DEF Base
    <3>2. chain' = ResetChain
      BY <1>4, <3>1, FirstAgain
    <3>3. PopBlock(stable) = ResetChain
      BY <3>1 DEF PopBlock, ChainPart, IsNumbered
    <3> QED BY <1>3, <3>1, <3>2, <3>3
  <2> QED BY <2>1, <2>2
<1>6. /\ writer' = [writer EXCEPT ![w] = new] /\ writer'[w] = new /\ new.pc = pc
      /\ new.block = b
  <2> HIDE DEF pc
  <2> QED BY <1>1, HolderRecord
<1>7. pc \notin {"add", "undo", "finish", "commit"}
  OBVIOUS
<1>8. WorkPart(w)'
  BY <1>1, <1>6, <1>7 DEF WorkPart
<1> HIDE DEF new, pc
<1>9. ChainPart' /\ View' = chain'
  BY <1>1, <1>4, <1>6, <1>7, <1>8, HolderStep
<1> QED BY <1>5, <1>9 DEF ViewStep

\* The lock is given back: the chain is what it was.
LEMMA ReleaseSees ==
  ASSUME LockInv, ChainPart, NEW w \in Writers, Release(w)
  PROVE  ChainPart' /\ ViewStep
<1>1. /\ writer[w].pc = "release" /\ chainLock = w /\ chainLock' = None
      /\ chain' = chain /\ stable' = stable /\ writer' = [writer EXCEPT ![w] = IdleWriter]
  BY WriterHolds DEF LockInv, Release, ChainPcs
<1>2. View = chain /\ View' = chain'
  BY <1>1, HolderSees DEF View, Held
<1>3. \A v \in Writer : writer'[v].pc # "idle" => writer'[v].block \in Block
  <2>1. \A v \in Writer : writer'[v] = IF v = w THEN IdleWriter ELSE writer[v]
    BY <1>1 DEF LockInv, WritersPart, Writers
  <2> QED BY <2>1 DEF ChainPart, IdleWriter
<1>4. None \notin Writers
  BY NodeAssumption DEF Writers
<1> QED BY <1>1, <1>2, <1>3, <1>4 DEF ChainPart, ViewStep

(* A writer without the lock goes on.                                      *)
LEMMA OtherSees ==
  ASSUME LockInv, ChainPart, NEW w \in Writers, chainLock # w, NEW new,
         UNCHANGED <<chain, stable, chainLock>>, writer' = [writer EXCEPT ![w] = new],
         w # Syncer => new.block \in Block
  PROVE  ChainPart' /\ ViewStep
<1>1. \A v \in Writers : writer'[v] = IF v = w THEN new ELSE writer[v]
  BY DEF LockInv, WritersPart
<1>2. \A v \in Writer : writer'[v].pc # "idle" => writer'[v].block \in Block
  <2>1. Writer \subseteq Writers /\ Syncer \notin Writer
    BY NodeAssumption DEF Writers
  <2> QED BY <1>1, <2>1 DEF ChainPart
<1>3. View' = View
  <2>1. chainLock # None => chainLock \in Writers
    BY DEF LockInv, WritersPart
  <2> QED BY <1>1, <2>1 DEF View, Held
<1>4. \A v \in Writers : chainLock' = v => WorkPart(v)'
  <2> SUFFICES ASSUME NEW v \in Writers, chainLock' = v PROVE WorkPart(v)'
    OBVIOUS
  <2>1. v # w /\ writer'[v] = writer[v] /\ WorkPart(v)
    BY <1>1 DEF ChainPart
  <2> QED BY <2>1 DEF WorkPart, Executing, Base
<1> QED BY <1>2, <1>3, <1>4 DEF ChainPart, ViewStep

\* A block is handed in.
LEMMA SubmitSees ==
  ASSUME LockInv, ChainPart, NEW w \in Writers, NEW b \in Block, SubmitProofOfWork(w, b)
  PROVE  ChainPart' /\ ViewStep
<1>1. CASE UNCHANGED writer
  BY <1>1, ChainStays DEF SubmitProofOfWork, chainVars
<1>2. CASE writer' = [writer EXCEPT ![w].pc = "lock", ![w].block = b]
  <2> DEFINE new == [pc |-> "lock", block |-> b, deltas |-> writer[w].deltas]
  <2>1. writer' = [writer EXCEPT ![w] = new]
    <3>1. WriterRecord(writer[w])
      BY DEF LockInv, WritersPart
    <3>2. [writer[w] EXCEPT !.pc = "lock", !.block = b] = new
      BY <3>1, PcAndBlock, Zenon
    <3>3. writer' = [writer EXCEPT ![w] = [writer[w] EXCEPT !.pc = "lock", !.block = b]]
      BY <1>2 DEF LockInv, WritersPart
    <3> QED BY <3>2, <3>3
  <2>2. chainLock # w /\ UNCHANGED <<chain, stable, chainLock>>
    BY WriterHolds DEF LockInv, SubmitProofOfWork, chainVars, ChainPcs
  <2> QED BY <2>1, <2>2, OtherSees
<1> QED BY <1>1, <1>2 DEF SubmitProofOfWork

\* A round of chain_sync begins.
LEMMA StartSyncSees == ASSUME LockInv, ChainPart, StartSync PROVE ChainPart' /\ ViewStep
<1>1. Syncer \in Writers
  BY DEF Writers
<1>2. chainLock # Syncer /\ UNCHANGED <<chain, stable, chainLock>>
  BY <1>1, WriterHolds DEF LockInv, StartSync, chainVars, ChainPcs
<1>3. writer' = [writer EXCEPT ![Syncer] = [writer[Syncer] EXCEPT !.pc = "lock"]]
  <2>1. To(Syncer, "lock")
    BY DEF StartSync
  <2> QED BY <1>1, <2>1, HolderRecord
<1> QED BY <1>1, <1>2, <1>3, OtherSees

(* A round of startChainSync: removals, and the blocks it downloads.       *)
LEMMA SyncStepSees == ASSUME LockInv, ChainPart, SyncStep PROVE ChainPart' /\ ViewStep
<1> DEFINE r == writer[Syncer]
<1>1. /\ Syncer \in Writers /\ r.pc \in {"pop", "next"} /\ chainLock = Syncer
      /\ chainLock' = Syncer
  BY WriterHolds DEF LockInv, SyncStep, SyncPop, SyncDownload, SyncEnds, chainVars, ChainPcs, Writers
<1>2. View = chain /\ stable = chain
  BY <1>1, HolderSees DEF ChainPart, WorkPart
<1>3. ASSUME NEW b, writer' = [writer EXCEPT ![Syncer].pc = "add", ![Syncer].block = b]
      PROVE  LET new == [pc |-> "add", block |-> b, deltas |-> r.deltas]
             IN  writer' = [writer EXCEPT ![Syncer] = new] /\ writer'[Syncer] = new
  <2>1. WriterRecord(writer[Syncer])
    BY <1>1 DEF LockInv, WritersPart
  <2>2. [writer[Syncer] EXCEPT !.pc = "add", !.block = b] =
          [pc |-> "add", block |-> b, deltas |-> writer[Syncer].deltas]
    BY <2>1, PcAndBlock, Zenon
  <2>3. writer' = [writer EXCEPT ![Syncer] = [writer[Syncer] EXCEPT !.pc = "add", !.block = b]]
    BY <1>1, <1>3 DEF LockInv, WritersPart
  <2>4. writer' = [writer EXCEPT ![Syncer] = [pc |-> "add", block |-> b, deltas |-> writer[Syncer].deltas]]
    BY <2>2, <2>3, Zenon
  <2> QED BY <1>1, <2>4 DEF LockInv, WritersPart
<1>4. CASE SyncPop /\ chain.numBlocks > 2
  <2>1. /\ chain' = PopBlock(chain) /\ stable' = chain' /\ chain.numBlocks > 1
        /\ writer' = [writer EXCEPT ![Syncer] = r] /\ writer'[Syncer] = r /\ r.pc = "pop"
    BY <1>1, <1>4 DEF SyncPop, LockInv, WritersPart
  <2>2. IsNumbered(chain')
    BY <2>1, PopNumbered DEF ChainPart
  <2>3. WorkPart(Syncer)'
    BY <2>1 DEF WorkPart
  <2> HIDE DEF r
  <2>4. ChainPart' /\ View' = chain'
    BY <1>1, <2>1, <2>2, <2>3, HolderStep DEF r
  <2> QED BY <1>2, <2>1, <2>4 DEF ViewStep
<1>5. CASE SyncPop /\ ~ (chain.numBlocks > 2)
  <2> DEFINE new == [pc |-> "add", block |-> Genesis, deltas |-> r.deltas]
  <2>1. /\ chain' = Cleared /\ stable' = stable /\ chain.numBlocks > 1
        /\ writer' = [writer EXCEPT ![Syncer].pc = "add", ![Syncer].block = Genesis]
    BY <1>5 DEF SyncPop
  <2>2. writer' = [writer EXCEPT ![Syncer] = new] /\ writer'[Syncer] = new /\ new.pc = "add"
    BY <1>3, <2>1
  <2>3. WorkPart(Syncer)'
    BY <1>2, <1>5, <2>1, <2>2, ChainAssumption DEF WorkPart, Base
  <2> HIDE DEF new
  <2>4. ChainPart' /\ View' = stable'
    BY <1>1, <2>1, <2>2, <2>3, HolderStep, FirstAgain DEF ChainPart
  <2> QED BY <1>2, <2>1, <2>4 DEF ViewStep
<1>6. ASSUME NEW b \in Block, SyncDownload(b) PROVE ChainPart' /\ ViewStep
  <2> DEFINE new == [pc |-> "add", block |-> b, deltas |-> r.deltas]
  <2>1. /\ chain' = chain /\ stable' = stable
        /\ writer' = [writer EXCEPT ![Syncer].pc = "add", ![Syncer].block = b]
    BY <1>6 DEF SyncDownload, chainVars
  <2>2. writer' = [writer EXCEPT ![Syncer] = new] /\ writer'[Syncer] = new /\ new.pc = "add" /\ new.block = b
    BY <1>3, <2>1
  <2>3. WorkPart(Syncer)'
    BY <1>2, <2>1, <2>2 DEF WorkPart, Base
  <2> HIDE DEF new
  <2>4. ChainPart' /\ View' = stable'
    BY <1>1, <2>1, <2>2, <2>3, HolderStep DEF ChainPart
  <2> QED BY <1>2, <2>1, <2>4 DEF ViewStep
<1>7. CASE SyncEnds
  <2> DEFINE new == [r EXCEPT !.pc = "release"]
  <2>1. chain' = chain /\ stable' = stable /\ To(Syncer, "release")
    BY <1>7 DEF SyncEnds, chainVars
  <2>2. /\ writer' = [writer EXCEPT ![Syncer] = new] /\ writer'[Syncer] = new
        /\ new.pc = "release"
    BY <1>1, <2>1, HolderRecord
  <2>3. WorkPart(Syncer)'
    BY <2>2 DEF WorkPart
  <2> HIDE DEF new
  <2>4. ChainPart' /\ View' = chain'
    BY <1>1, <2>1, <2>2, <2>3, HolderStep DEF ChainPart
  <2> QED BY <1>2, <2>1, <2>4 DEF ViewStep
<1> QED BY <1>4, <1>5, <1>6, <1>7 DEF SyncStep

(* A transaction is verified while no writer has the lock.                 *)
LEMMA VerifySees ==
  ASSUME LockInv, ChainPart, NEW a \in Adder, adder[a].tx \in Tx, VerifyUnderLock(a)
  PROVE  ChainPart' /\ ViewStep
<1> DEFINE t == adder[a].tx
<1>1. /\ chainLock = None /\ chain' = VerifyTransaction(chain, t).chain
      /\ UNCHANGED <<stable, chainLock, writer>>
  BY DEF VerifyUnderLock
<1>2. View = chain /\ View' = chain' /\ None \notin Writers
  BY <1>1, NodeAssumption DEF View, Held, Writers
<1>3. IsNumbered(chain')
  <2>1. chain' = chain \/ \E l : chain' = [chain EXCEPT !.ledger = l]
    BY <1>1 DEF VerifyTransaction
  <2> QED BY <2>1, CommitOverwrites DEF ChainPart
<1> QED BY <1>1, <1>2, <1>3 DEF ChainPart, ViewStep

(* A request that waits for a lock has a transaction.                      *)
TxPart == \A a \in Adder : adder[a].pc # "idle" => adder[a].tx \in Tx
LEMMA TxStays == LockInv /\ TxPart /\ [Next]_vars => TxPart'
<1> SUFFICES ASSUME LockInv, TxPart, [Next]_vars PROVE TxPart'
  OBVIOUS
<1>1. ASSUME NEW a \in Adder, NEW t \in Tx, NEW pc, adder' = [adder EXCEPT ![a] = [pc |-> pc, tx |-> t]]
      PROVE  TxPart'
  BY <1>1 DEF TxPart, LockInv, AddersPart
<1>2. ASSUME NEW a \in Adder, Answer(a) \/ \E pc : Goto(a, pc), adder[a].pc # "idle" PROVE TxPart'
  BY <1>2 DEF TxPart, LockInv, AddersPart, Answer, Goto, IdleAdder
<1>3. CASE UNCHANGED adder
  BY <1>3 DEF TxPart
<1>4. ASSUME NEW a \in Adder, AdderStep(a) PROVE TxPart'
  BY <1>2, <1>4 DEF AdderStep, CheckQueue, VerifyUnderLock, Enqueue
<1>5. ASSUME NEW a \in Adder, NEW t \in Offered, AddTransaction(a, t) PROVE TxPart'
  BY <1>1, <1>5, NodeAssumption DEF AddTransaction
<1> QED
  BY <1>3, <1>4, <1>5 DEF Next, WriterStep, SyncStep, SubmitProofOfWork, StartSync, SyncPop, SyncDownload,
     SyncEnds, SendNext, SetMemPool, Acquire, AddExecute, AddUndo, FinishBlock, AddCommit, Release, vars

\* It begins with the first block.
LEMMA InitSees == Init => ChainPart /\ TxPart /\ View = ResetChain
<1> SUFFICES ASSUME Init PROVE ChainPart /\ TxPart /\ View = ResetChain
  OBVIOUS
<1>1. None \notin Writers /\ Writer \subseteq Writers
  BY NodeAssumption DEF Writers
<1> QED BY <1>1, FirstAgain DEF Init, ChainPart, TxPart, View, Held, IdleAdder, IdleWriter

(* Every step is one of the chain's, or none.                              *)
LEMMA NextSees == LockInv /\ ChainPart /\ TxPart /\ [Next]_vars => ChainPart' /\ ViewStep
<1> SUFFICES ASSUME LockInv, ChainPart, TxPart, [Next]_vars PROVE ChainPart' /\ ViewStep
  OBVIOUS
<1>1. ASSUME NEW a \in Adder, AdderStep(a) PROVE ChainPart' /\ ViewStep
  <2>1. CASE VerifyUnderLock(a)
    BY <2>1, VerifySees DEF TxPart, VerifyUnderLock
  <2> QED BY <1>1, <2>1, ChainStays DEF AdderStep, CheckQueue, Enqueue, chainVars
<1>2. ASSUME NEW a \in Adder, NEW t \in Offered, AddTransaction(a, t) PROVE ChainPart' /\ ViewStep
  BY <1>2, ChainStays DEF AddTransaction, chainVars
<1>3. ASSUME NEW w \in Writers, WriterStep(w) PROVE ChainPart' /\ ViewStep
  BY <1>3, AcquireSees, ExecuteSees, UndoSees, FinishSees, CommitSees, ReleaseSees DEF WriterStep
<1>4. ASSUME NEW w \in Writers, NEW b \in Block, SubmitProofOfWork(w, b) PROVE ChainPart' /\ ViewStep
  BY <1>4, SubmitSees
<1>5. CASE StartSync \/ SyncStep
  BY <1>5, StartSyncSees, SyncStepSees
<1>6. CASE SendNext \/ SetMemPool \/ UNCHANGED vars
  BY <1>6, ChainStays DEF SendNext, SetMemPool, vars, chainVars
<1> QED
  BY <1>1, <1>2, <1>3, <1>4, <1>5, <1>6 DEF Next

-------------------------------------------------------------------------------
(* The operators of the instance are those of this module: it extends      *)
(* ChainCore too, with the same constants.                                 *)

\* 64-bit amounts.
LEMMA AmountsSame ==
  /\ \A f, w : Atomic!ValueOf(f, w) = ValueOf(f, w)
  /\ \A a, b : Atomic!Plus(a, b) = Plus(a, b) /\ Atomic!Minus(a, b) = Minus(a, b)
BY DEF Atomic!ValueOf, ValueOf, Atomic!Plus, Plus, Atomic!Minus, Minus

\* Changes of one wallet.
LEMMA IncreaseSame ==
  \A f, w, amt : /\ Atomic!Increase(f, w, amt) = Increase(f, w, amt)
                 /\ Atomic!Decrease(f, w, amt) = Decrease(f, w, amt)
<1>1. \A f, w, v : Atomic!SetWalletValue(f, w, v) = SetWalletValue(f, w, v)
  BY DEF Atomic!SetWalletValue, SetWalletValue
<1> QED BY <1>1, AmountsSame DEF Atomic!Increase, Increase, Atomic!Decrease, Decrease

\* Changes an execution remembers.
LEMMA DepositSame ==
  \A x, w, amt : /\ Atomic!Deposit(x, w, amt) = Deposit(x, w, amt)
                 /\ Atomic!Withdraw(x, w, amt) = Withdraw(x, w, amt)
BY IncreaseSame DEF Atomic!Deposit, Deposit, Atomic!Withdraw, Withdraw

\* What one transaction moves.
LEMMA MovesSame == \A x, t, m, i : Atomic!Moves(x, t, m, i) = Moves(x, t, m, i)
BY DepositSame DEF Atomic!Moves, Moves

\* Who signed it.
LEMMA MismatchSame == \A t : Atomic!Mismatch(t) = Mismatch(t)
BY DEF Atomic!Mismatch, Mismatch

\* updateLedger.
LEMMA UpdateSame ==
  \A x, t, m, f, i : Atomic!UpdateLedger(x, t, m, f, i) = UpdateLedger(x, t, m, f, i)
<1>1. \A l, t, f, i : Atomic!UpdateStatus(l, t, f, i) = UpdateStatus(l, t, f, i)
  BY AmountsSame, MismatchSame DEF Atomic!UpdateStatus, UpdateStatus, Atomic!HasWallet, HasWallet
<1> QED BY <1>1, MovesSame DEF Atomic!UpdateLedger, UpdateLedger

\* An execution that begins.
LEMMA BeginSame == \A l : Atomic!Begin(l) = Begin(l)
BY DEF Atomic!Begin, Begin

\* ExecuteTransaction.
LEMMA TransactionSame == \A l, t : Atomic!ExecuteTransaction(l, t) = ExecuteTransaction(l, t)
BY UpdateSame, BeginSame, MismatchSame DEF Atomic!ExecuteTransaction, ExecuteTransaction

\* The next transaction of a block.
LEMMA NextSame ==
  \A x, t, m, f, i : Atomic!ExecuteNext(x, t, m, f, i) = ExecuteNext(x, t, m, f, i)
BY UpdateSame DEF Atomic!ExecuteNext, ExecuteNext

\* Who gets the fees.
LEMMA MinerSame == \A txs : Atomic!Miner(txs) = Miner(txs) /\ Atomic!FeeTxs(txs) = FeeTxs(txs)
BY DEF Atomic!Miner, Miner, Atomic!FeeTxs, FeeTxs, Atomic!Min, Min

\* The transactions executed so far, by the table that defines them.
LEMMA ExecutedSame ==
  ASSUME NEW txs, NEW k, NEW id, NEW l, NEW f
  PROVE  Atomic!Executed(txs, k, id, l, f) = Executed(txs, k, id, l, f)
<1> DEFINE Table(g) == [i \in 0 .. Len(txs) |->
              IF i = 0 THEN Begin(l) ELSE ExecuteNext(g[i - 1], txs[i], Miner(txs), f, id)]
           AtomicTable(g) == [i \in 0 .. Len(txs) |->
              IF i = 0 THEN Atomic!Begin(l)
              ELSE Atomic!ExecuteNext(g[i - 1], txs[i], Atomic!Miner(txs), f, id)]
<1>1. Executed(txs, k, id, l, f) = (CHOOSE g : g = Table(g))[k]
  BY Zenon DEF Executed
<1>2. Atomic!Executed(txs, k, id, l, f) = (CHOOSE g : g = AtomicTable(g))[k]
  BY Zenon DEF Atomic!Executed
<1>3. \A g : Table(g) = AtomicTable(g)
  BY BeginSame, NextSame, MinerSame
<1>4. \A g : g = Table(g) <=> g = AtomicTable(g)
  BY <1>3
<1> HIDE DEF Table, AtomicTable
<1>5. (CHOOSE g : g = Table(g)) = (CHOOSE g : g = AtomicTable(g))
  BY <1>4, Zenon
<1> QED BY <1>1, <1>2, <1>5

\* The order of execution.
LEMMA OrderedSame == \A b : Atomic!Ordered(b) = Ordered(b)
<1>1. \A txs, p : Atomic!Descends(txs, p) <=> Descends(txs, p)
  BY DEF Atomic!Descends, Descends
<1>2. \A S : Atomic!SetToSeqs(S) = SetToSeqs(S)
  BY Zenon DEF Atomic!SetToSeqs, SetToSeqs, Atomic!Cardinality, Cardinality
<1> DEFINE order(txs) == CHOOSE p \in SetToSeqs(DOMAIN txs) : Descends(txs, p)
           other(txs) == CHOOSE p \in Atomic!SetToSeqs(DOMAIN txs) : Atomic!Descends(txs, p)
<1>3. \A txs : other(txs) = order(txs)
  BY <1>1, <1>2
<1>4. /\ OrderedTxs = [b \in Block |-> [i \in DOMAIN BlockBody[b].txs |->
                                       BlockBody[b].txs[order(BlockBody[b].txs)[i]]]]
      /\ Atomic!OrderedTxs = [b \in Block |-> [i \in DOMAIN BlockBody[b].txs |->
                                              BlockBody[b].txs[other(BlockBody[b].txs)[i]]]]
  BY Zenon DEF OrderedTxs, Atomic!OrderedTxs
<1> HIDE DEF order, other
<1>5. Atomic!OrderedTxs = OrderedTxs
  BY <1>3, <1>4
<1> QED BY <1>5 DEF Atomic!Ordered, Ordered

\* ExecuteBlock.
LEMMA ExecutionSame == \A c, b : Atomic!Execution(c, b) = Execution(c, b)
<1>1. \A txs, i, txdb, id : Atomic!PassStatus(txs, i, txdb, id) = PassStatus(txs, i, txdb, id)
  BY MinerSame, MismatchSame DEF Atomic!PassStatus, PassStatus
<1>2. \A txs, txdb, id, f : Atomic!FirstPass(txs, txdb, id, f) = FirstPass(txs, txdb, id, f)
  <2>1. \A S : Atomic!Min(S) = Min(S)
    BY DEF Atomic!Min, Min
  <2> QED BY <1>1, <2>1, MinerSame DEF Atomic!FirstPass, FirstPass
<1>3. \A txs, id, l, txdb, f : Atomic!ExecuteBlock(txs, id, l, txdb, f) = ExecuteBlock(txs, id, l, txdb, f)
  BY <1>2, ExecutedSame, BeginSame DEF Atomic!ExecuteBlock, ExecuteBlock
<1>4. \A n : Atomic!MiningFee(n) = MiningFee(n)
  BY DEF Atomic!MiningFee, MiningFee, Atomic!Cardinality, Cardinality
<1> QED BY <1>3, <1>4, OrderedSame DEF Atomic!Execution, Execution

\* The checks of addBlock.
LEMMA CheckSame == \A c, b, now : Atomic!CheckBlock(c, b, now) = CheckBlock(c, b, now)
<1>1. \A c : Atomic!MedianTime(c) = MedianTime(c)
  BY DEF Atomic!MedianTime, MedianTime
<1> QED BY <1>1 DEF Atomic!CheckBlock, CheckBlock

\* updateDifficulty.
LEMMA DifficultySame == \A c : Atomic!UpdateDifficulty(c) = UpdateDifficulty(c)
<1>1. Atomic!Ease = Ease /\ Atomic!Harden = Harden
  BY DEF Atomic!Ease, Ease, Atomic!Harden, Harden, Atomic!LeastDifficulty, LeastDifficulty,
         Atomic!GreatestDifficulty, GreatestDifficulty, Atomic!Distance, Distance
<1>2. \A d, e, x : Atomic!ComputeDifficulty(d, e, x) = ComputeDifficulty(d, e, x)
  BY <1>1 DEF Atomic!ComputeDifficulty, ComputeDifficulty
<1> QED BY <1>2 DEF Atomic!UpdateDifficulty, UpdateDifficulty, Atomic!AtRetarget, AtRetarget

\* The writes of addBlock.
LEMMA CommitSame == \A c, b, l : Atomic!Commit(c, b, l) = Commit(c, b, l)
<1>1. \A txdb, txs, id : Atomic!InsertTransactions(txdb, txs, id) = InsertTransactions(txdb, txs, id)
  BY DEF Atomic!InsertTransactions, InsertTransactions, Atomic!Range, Range
<1>2. \A blocks, b : Atomic!SetBlock(blocks, b) = SetBlock(blocks, b)
  BY DEF Atomic!SetBlock, SetBlock
<1>3. \A b : Atomic!Work(b) = Work(b)
  BY DEF Atomic!Work, Work
<1> SUFFICES ASSUME NEW c, NEW b, NEW l PROVE Atomic!Commit(c, b, l) = Commit(c, b, l)
  OBVIOUS
<1> DEFINE Added(txdb, blocks, work) ==
      [c EXCEPT !.ledger = l, !.txdb = txdb, !.blocks = blocks, !.numBlocks = @ + 1,
                !.count = c.numBlocks + 1, !.totalWork = @ + work, !.work = c.totalWork + work,
                !.lastHash = b]
           t == InsertTransactions(c.txdb, Ordered(b), BlockBody[b].id)
           s == SetBlock(c.blocks, b)
           w == Work(b)
<1>4. Commit(c, b, l) = [Added(t, s, w) EXCEPT !.difficulty = UpdateDifficulty(Added(t, s, w))]
  BY DEF Commit
<1>5. /\ Atomic!InsertTransactions(c.txdb, Atomic!Ordered(b), BlockBody[b].id) = t
      /\ Atomic!SetBlock(c.blocks, b) = s /\ Atomic!Work(b) = w
  BY <1>1, <1>2, <1>3, OrderedSame
<1> HIDE DEF t, s, w
<1>6. Atomic!Commit(c, b, l) = [Added(t, s, w) EXCEPT !.difficulty = Atomic!UpdateDifficulty(Added(t, s, w))]
  BY <1>5, Zenon DEF Atomic!Commit
<1> HIDE DEF Added
<1> QED BY <1>4, <1>6, DifficultySame

\* Executor::Rollback.
LEMMA TakenBackSame == \A l, d : Atomic!Rollback(l, d) = Rollback(l, d)
BY AmountsSame DEF Atomic!Rollback, Rollback

\* addBlock.
LEMMA AddSame == \A c, b, now : Atomic!AddBlock(c, b, now) = AddBlock(c, b, now)
<1>1. \A c, b, x : Atomic!Finish(c, b, x) = Finish(c, b, x)
  BY CommitSame, TakenBackSame DEF Atomic!Finish, Finish
<1> QED BY <1>1, CheckSame, ExecutionSame DEF Atomic!AddBlock, AddBlock

\* resetChain.
LEMMA ResetSame == Atomic!ResetChain = ResetChain
<1>1. Atomic!Cleared = Cleared
  BY DEF Atomic!Cleared, Cleared, Atomic!LeastDifficulty, LeastDifficulty
<1> QED BY <1>1, AddSame DEF Atomic!ResetChain, ResetChain

\* RollbackBlock, likewise.
LEMMA UndoneSame ==
  ASSUME NEW txs, NEW l, NEW txdb
  PROVE  Atomic!RollbackBlock(txs, l, txdb) = RollbackBlock(txs, l, txdb)
<1> DEFINE Table(g) == [i \in 1 .. Len(txs) + 1 |->
              IF i > Len(txs) THEN l ELSE RollbackLedger(g[i + 1], txs[i], Miner(txs))]
           AtomicTable(g) == [i \in 1 .. Len(txs) + 1 |->
              IF i > Len(txs) THEN l
              ELSE Atomic!RollbackLedger(g[i + 1], txs[i], Atomic!Miner(txs))]
           last == {txs[i] : i \in 1 .. Len(txs)}
           kept == [t \in DOMAIN txdb \ {u \in last : ~TxBody[u].fee} |-> txdb[t]]
<1>1. RollbackBlock(txs, l, txdb) = [ledger |-> (CHOOSE g : g = Table(g))[1], txdb |-> kept]
  BY Zenon DEF RollbackBlock, RollbackFrom
<1>2. Atomic!RollbackBlock(txs, l, txdb) =
        [ledger |-> (CHOOSE g : g = AtomicTable(g))[1], txdb |-> kept]
  BY Zenon DEF Atomic!RollbackBlock, Atomic!RollbackFrom
<1>3. \A m, t, w : Atomic!RollbackLedger(m, t, w) = RollbackLedger(m, t, w)
  BY IncreaseSame DEF Atomic!RollbackLedger, RollbackLedger
<1>4. \A g : Table(g) = AtomicTable(g)
  BY <1>3, MinerSame
<1>5. \A g : g = Table(g) <=> g = AtomicTable(g)
  BY <1>4
<1> HIDE DEF Table, AtomicTable
<1>6. (CHOOSE g : g = Table(g)) = (CHOOSE g : g = AtomicTable(g))
  BY <1>5, Zenon
<1> QED BY <1>1, <1>2, <1>6

\* popBlock.
LEMMA PopSame == \A c : Atomic!PopBlock(c) = PopBlock(c)
<1>1. \A c : Atomic!Tip(c) = Tip(c)
  BY DEF Atomic!Tip, Tip
<1>2. \A b : Atomic!Work(b) = Work(b)
  BY DEF Atomic!Work, Work
<1>3. \A c : Atomic!Popped(c) = Popped(c)
  BY <1>1, <1>2, OrderedSame, UndoneSame DEF Atomic!Popped, Popped
<1> QED BY <1>3, ResetSame DEF Atomic!PopBlock, PopBlock

\* verifyTransaction.
LEMMA VerifySame == \A c, t : Atomic!VerifyTransaction(c, t) = VerifyTransaction(c, t)
BY TransactionSame, TakenBackSame DEF Atomic!VerifyTransaction, VerifyTransaction

-------------------------------------------------------------------------------
\* For every number of threads and whatever they hand in: whoever looks at the chain
\* under its lock sees a state of BlockChain, and every addBlock, popBlock and
\* verifyTransaction is one step of it, although it writes in several.
THEOREM LocksMakeAtomic == Spec => ImplementsBlockChain
<1> DEFINE Seen == LockInv /\ ChainPart /\ TxPart
<1>1. Init => Atomic!Init
  BY InitSees, ResetSame DEF Atomic!Init, View
<1>2. Seen /\ [Next]_vars => [Atomic!Next]_Atomic!vars
  <2> SUFFICES ASSUME Seen, [Next]_vars PROVE Atomic!Next \/ UNCHANGED Atomic!vars
    BY DEF Atomic!vars
  <2>1. ViewStep
    BY NextSees
  <2>2. ASSUME NEW b \in Block, View' = AddBlock(View, b, Now).chain PROVE Atomic!Next
    BY <2>2, AddSame DEF Atomic!Next, Atomic!Add, View
  <2>3. ASSUME View.numBlocks > 1, View' = PopBlock(View) PROVE Atomic!Next
    BY <2>3, PopSame DEF Atomic!Next, Atomic!Pop, View
  <2>4. ASSUME NEW t \in Tx, View' = VerifyTransaction(View, t).chain PROVE Atomic!Next
    BY <2>4, VerifySame DEF Atomic!Next, Atomic!Verify, View
  <2>5. ASSUME View' = View PROVE UNCHANGED Atomic!vars
    BY <2>5 DEF Atomic!vars, View
  <2> QED BY <2>1, <2>2, <2>3, <2>4, <2>5 DEF ViewStep
<1>3. Init => Seen
  BY InitLocks, InitSees
<1>4. Seen /\ [Next]_vars => Seen'
  BY NextLocks, NextSees, TxStays
<1> HIDE DEF Seen
<1> QED BY <1>1, <1>2, <1>3, <1>4, PTL DEF Spec, ImplementsBlockChain, Atomic!Spec

-------------------------------------------------------------------------------
(* The pool.  Its amounts are those of its queue; a transaction of the     *)
(* store is not in the queue and is not about to be, because a request     *)
(* that found it new holds the pool's lock until it is queued, and a block *)
(* is finished in the pool, under that lock, before it is committed.       *)

PoolAmounts ==
  /\ IsFiniteSet(queue) /\ queue \subseteq Tx
  /\ \A w : ValueOf(outgoing, w) = OutgoingOf(w, queue) % AmountLimit
Committed(w) ==
  LET mined == MinedOf(writer[w].block)
  IN  \/ mined \subseteq early
      \/ queue \cap mined = {} /\ \A a \in Adder : adder[a].pc # "queue"
PoolPlaces ==
  /\ queue \cap DOMAIN chain.txdb \subseteq early
  /\ \A a \in Adder :
       /\ adder[a].pc = "queue" /\ adder[a].tx \in DOMAIN chain.txdb => adder[a].tx \in early
       /\ adder[a].pc \in {"chain", "queue"} => adder[a].tx \notin queue
  /\ \A w \in Writers : writer[w].pc = "commit" => Committed(w)
PoolInv == PoolAmounts /\ PoolPlaces

(* What a set of transactions takes out of a wallet.                       *)
LEMMA OutgoingSums ==
  ASSUME NEW w, NEW ts, IsFiniteSet(ts), ts \subseteq Tx
  PROVE  /\ OutgoingOf(w, ts) \in Nat
         /\ \A gone \in SUBSET ts : /\ OutgoingOf(w, gone) \in Nat
                                    /\ OutgoingOf(w, ts \ gone) = OutgoingOf(w, ts) - OutgoingOf(w, gone)
         /\ \A t \in Tx \ ts :
              OutgoingOf(w, ts \cup {t}) =
                OutgoingOf(w, ts) + IF TxBody[t].from = w THEN TxBody[t].amount ELSE 0
<1> DEFINE f == [t \in Tx |-> IF TxBody[t].from = w THEN TxBody[t].amount ELSE 0]
<1>1. \A t \in Tx : f[t] \in Nat
  BY ExecutorAssumption DEF Transaction, Amount
<1>2. \A s \in SUBSET ts : IsFiniteSet(s) /\ SumFunctionOnSet(f, s) \in Nat
  BY <1>1, FS_Subset, SumIsNat
<1>3. ASSUME NEW gone \in SUBSET ts
      PROVE  SumFunctionOnSet(f, ts \ gone) = SumFunctionOnSet(f, ts) - SumFunctionOnSet(f, gone)
  <2>1. \A t \in ts : f[t] \in Int
    BY <1>1
  <2> HIDE DEF f
  <2>2. SumFunctionOnSet(f, ts) = SumFunctionOnSet(f, gone) + SumFunctionOnSet(f, ts \ gone)
    BY <2>1, SumParts
  <2> QED BY <1>2, <2>2
<1>4. ASSUME NEW t \in Tx \ ts
      PROVE  SumFunctionOnSet(f, ts \cup {t}) = SumFunctionOnSet(f, ts) + f[t]
  <2>1. \A u \in ts \cup {t} : f[u] \in Int
    BY <1>1
  <2>2. SumFunctionOnSet(f, ts \cup {t}) = f[t] + SumFunctionOnSet(f, ts)
    BY <2>1, SumAddElement
  <2> QED BY <1>1, <1>2, <2>2
<1>5. \A s : OutgoingOf(w, s) = SumFunctionOnSet(f, s)
  BY DEF OutgoingOf
<1>6. \A t \in Tx : f[t] = IF TxBody[t].from = w THEN TxBody[t].amount ELSE 0
  OBVIOUS
<1> HIDE DEF f
<1> QED BY <1>2, <1>3, <1>4, <1>5, <1>6

(* A wallet that sent none of them has nothing outgoing.                   *)
LEMMA NothingOutgoing ==
  ASSUME NEW w, NEW ts, IsFiniteSet(ts), ts \subseteq Tx, \A t \in ts : TxBody[t].from # w
  PROVE  OutgoingOf(w, ts) = 0
<1> DEFINE f == [t \in Tx |-> IF TxBody[t].from = w THEN TxBody[t].amount ELSE 0]
<1>1. \A t \in ts : f[t] \in Int /\ f[t] \in Nat /\ 1 * f[t] <= 0 * f[t]
  OBVIOUS
<1>2. 1 * SumFunctionOnSet(f, ts) <= 0 * SumFunctionOnSet(f, ts) /\ SumFunctionOnSet(f, ts) \in Nat
  BY <1>1, SumScaled, SumIsNat
<1>3. SumFunctionOnSet(f, ts) = 0
  BY <1>2
<1> QED BY <1>3 DEF OutgoingOf

(* Amounts wrap as remainders do.                                          *)
LEMMA AmountsWrap ==
  ASSUME NEW s \in Int, NEW a \in Amount, NEW g \in Int
  PROVE  /\ (s + a) % AmountLimit = Plus(s % AmountLimit, a)
         /\ (s - g) % AmountLimit = Minus(s % AmountLimit, g % AmountLimit)
<1>1. AmountLimit \in Nat \ {0} /\ a \in 0 .. AmountLimit - 1
  BY ExecutorAssumption DEF Amount
<1>2. (s + a) % AmountLimit = IF (s % AmountLimit) + a < AmountLimit
                              THEN (s % AmountLimit) + a ELSE (s % AmountLimit) + a - AmountLimit
  BY <1>1, PlusMod, Zenon
<1>3. (s - g) % AmountLimit = IF (g % AmountLimit) <= (s % AmountLimit)
                              THEN (s % AmountLimit) - (g % AmountLimit)
                              ELSE (s % AmountLimit) - (g % AmountLimit) + AmountLimit
  BY <1>1, MinusMod, Zenon
<1> QED BY <1>2, <1>3, Zenon DEF Plus, Minus

(* One more transaction in the queue.                                      *)
LEMMA QueueGrows ==
  ASSUME PoolAmounts, NEW t \in Tx \ queue, queue' = queue \cup {t},
         outgoing' = Increase(outgoing, TxBody[t].from, TxBody[t].amount)
  PROVE  PoolAmounts'
<1> DEFINE b == TxBody[t]
<1>1. b.amount \in Amount
  BY ExecutorAssumption DEF Transaction
<1>2. IsFiniteSet(queue') /\ queue' \subseteq Tx
  BY FS_AddElement DEF PoolAmounts
<1>3. ASSUME NEW w
      PROVE  ValueOf(outgoing', w) = OutgoingOf(w, queue') % AmountLimit
  <2> DEFINE s == OutgoingOf(w, queue)
  <2>1. s \in Nat /\ OutgoingOf(w, queue') = s + IF b.from = w THEN b.amount ELSE 0
    BY OutgoingSums DEF PoolAmounts
  <2>2. ValueOf(outgoing, w) = s % AmountLimit
    BY DEF PoolAmounts
  <2>3. ValueOf(outgoing', w) = IF b.from = w THEN Plus(ValueOf(outgoing, w), b.amount)
                                ELSE ValueOf(outgoing, w)
    BY DEF Increase, SetWalletValue, ValueOf
  <2> HIDE DEF s, b
  <2>4. CASE b.from = w
    <3>1. (s + b.amount) % AmountLimit = Plus(s % AmountLimit, b.amount)
      BY <1>1, <2>1, AmountsWrap
    <3> QED BY <2>1, <2>2, <2>3, <2>4, <3>1
  <2>5. CASE b.from # w
    <3>1. OutgoingOf(w, queue') = s
      BY <2>1, <2>5
    <3> QED BY <2>2, <2>3, <2>5, <3>1
  <2> QED BY <2>4, <2>5
<1> QED BY <1>2, <1>3 DEF PoolAmounts

(* The transactions of a block leave the queue, some of them queued, some  *)
(* not.                                                                    *)
LEMMA QueueShrinks ==
  ASSUME PoolAmounts, NEW b, queue' = queue \ MinedOf(b), outgoing' = OutgoingAfter(b)
  PROVE  PoolAmounts'
<1> DEFINE gone == queue \cap MinedOf(b)
           senders == {TxBody[t].from : t \in gone}
           Left(w) == Minus(ValueOf(outgoing, w), OutgoingOf(w, gone) % AmountLimit)
<1>1. queue' = queue \ gone /\ gone \in SUBSET queue /\ IsFiniteSet(queue') /\ queue' \subseteq Tx
  <2>1. queue' = queue \ gone /\ gone \in SUBSET queue /\ queue' \subseteq queue
    OBVIOUS
  <2> QED BY <2>1, FS_Subset DEF PoolAmounts
<1>2. ASSUME NEW w
      PROVE  ValueOf(outgoing', w) = OutgoingOf(w, queue') % AmountLimit
  <2> DEFINE s == OutgoingOf(w, queue)
             g == OutgoingOf(w, gone)
  <2>1. s \in Int /\ g \in Int /\ OutgoingOf(w, queue') = s - g
    <3> HIDE DEF gone
    <3>1. s \in Nat /\ g \in Nat /\ OutgoingOf(w, queue \ gone) = s - g
      BY <1>1, OutgoingSums DEF PoolAmounts
    <3>2. OutgoingOf(w, queue') = OutgoingOf(w, queue \ gone)
      BY <1>1
    <3> QED BY <3>1, <3>2
  <2>2. ValueOf(outgoing, w) = s % AmountLimit
    BY DEF PoolAmounts
  <2>3. OutgoingOf(w, queue') % AmountLimit = Left(w)
    <3> HIDE DEF s, g, gone
    <3>1. s \in Int /\ g \in Int /\ 0 \in Amount
      BY <2>1, ExecutorAssumption DEF Amount
    <3>2. (s - g) % AmountLimit = Minus(s % AmountLimit, g % AmountLimit)
      BY <3>1, AmountsWrap, Zenon
    <3> QED BY <2>1, <2>2, <3>2 DEF g
  <2>4. outgoing' = [v \in {u \in DOMAIN outgoing \cup senders : u \in senders => Left(u) # 0} |-> Left(v)]
    BY DEF OutgoingAfter
  <2>5. CASE w \in DOMAIN outgoing \/ w \in senders
    <3>1. ValueOf(outgoing', w) = Left(w) \/ (ValueOf(outgoing', w) = 0 /\ Left(w) = 0)
      <4> HIDE DEF Left, senders
      <4> QED BY <2>4, <2>5 DEF ValueOf
    <3> QED BY <2>3, <3>1
  <2>6. CASE w \notin DOMAIN outgoing /\ w \notin senders
    <3>1. \A t \in gone : TxBody[t].from # w
      BY <2>6
    <3>2. g = 0
      <4> HIDE DEF gone
      <4>1. IsFiniteSet(gone) /\ gone \subseteq Tx
        BY <1>1, FS_Subset DEF PoolAmounts
      <4> QED BY <3>1, <4>1, NothingOutgoing
    <3>3. ValueOf(outgoing', w) = 0 /\ ValueOf(outgoing, w) = 0
      <4> HIDE DEF Left, senders
      <4> QED BY <2>4, <2>6 DEF ValueOf
    <3>4. OutgoingOf(w, queue') = s
      <4> HIDE DEF s, g
      <4> QED BY <2>1, <3>2
    <3> QED BY <2>2, <3>3, <3>4
  <2> QED BY <2>5, <2>6
<1> QED BY <1>1, <1>2 DEF PoolAmounts

(* Steps that leave the queue and the store alone and bring no request to  *)
(* the place where it queues its transaction.                              *)
LEMMA PlacesStay ==
  ASSUME PoolInv, UNCHANGED <<queue, outgoing>>, DOMAIN chain'.txdb \subseteq DOMAIN chain.txdb,
         early \subseteq early',
         \A a \in Adder : \/ adder'[a] = adder[a]
                          \/ adder'[a].pc \notin {"chain", "queue"}
                          \/ adder'[a].pc = "chain" /\ adder'[a].tx \notin queue,
         \A w \in Writers : writer'[w].pc = "commit" =>
           (writer[w].pc = "commit" /\ writer'[w].block = writer[w].block)
             \/ MinedOf(writer'[w].block) \subseteq early'
  PROVE  PoolInv'
<1>1. PoolAmounts'
  BY DEF PoolInv, PoolAmounts, OutgoingOf
<1>2. PoolPlaces'
  <2>1. /\ queue' \cap DOMAIN chain'.txdb \subseteq early'
        /\ \A a \in Adder :
             /\ adder'[a].pc = "queue" /\ adder'[a].tx \in DOMAIN chain'.txdb => adder'[a].tx \in early'
             /\ adder'[a].pc \in {"chain", "queue"} => adder'[a].tx \notin queue'
    BY DEF PoolInv, PoolPlaces
  <2>2. ASSUME NEW w \in Writers, writer'[w].pc = "commit"
        PROVE  Committed(w)'
    <3>1. CASE writer[w].pc = "commit" /\ writer'[w].block = writer[w].block
      <4>1. Committed(w)
        BY <3>1 DEF PoolInv, PoolPlaces
      <4> QED BY <3>1, <4>1 DEF Committed, MinedOf
    <3>2. CASE MinedOf(writer'[w].block) \subseteq early'
      BY <3>2 DEF Committed, MinedOf
    <3> QED BY <2>2, <3>1, <3>2
  <2> QED BY <2>1, <2>2 DEF PoolPlaces
<1> QED BY <1>1, <1>2 DEF PoolInv

(* Beginnings.                                                             *)
LEMMA PoolStarts == Init => PoolInv
<1> SUFFICES ASSUME Init PROVE PoolInv
  OBVIOUS
<1>1. queue = {} /\ outgoing = <<>> /\ AmountLimit \in Nat \ {0}
  BY ExecutorAssumption DEF Init
<1>2. ASSUME NEW w
      PROVE  ValueOf(outgoing, w) = OutgoingOf(w, queue) % AmountLimit
  <2>1. OutgoingOf(w, queue) = 0
    BY <1>1, SumOfEmpty DEF OutgoingOf
  <2>2. 0 % AmountLimit = 0
    BY <1>1
  <2>3. ValueOf(outgoing, w) = 0
    BY <1>1 DEF ValueOf
  <2> QED BY <2>1, <2>2, <2>3
<1>3. PoolAmounts
  BY <1>1, <1>2, FS_EmptySet DEF PoolAmounts
<1>4. PoolPlaces
  BY <1>1 DEF Init, PoolPlaces, IdleAdder, IdleWriter
<1> QED BY <1>3, <1>4 DEF PoolInv

(* The steps of a request thread.                                          *)
LEMMA CheckQueuePool ==
  ASSUME LockInv, TxPart, PoolInv, NEW a \in Adder, CheckQueue(a) PROVE PoolInv'
<1>1. /\ adder \in [Adder -> [pc : {"idle", "pool"} \cup PoolPcs, tx : Tx \cup {None}]]
      /\ UNCHANGED <<queue, outgoing, early, chain, writer>>
  BY DEF LockInv, AddersPart, CheckQueue, chainVars
<1>2. \A c \in Adder : \/ adder'[c] = adder[c]
                       \/ adder'[c].pc \notin {"chain", "queue"}
                       \/ adder'[c].pc = "chain" /\ adder'[c].tx \notin queue
  BY <1>1 DEF CheckQueue, Answer, Goto, IdleAdder
<1> QED BY <1>1, <1>2, PlacesStay

LEMMA VerifyPool ==
  ASSUME LockInv, ChainPart, TxPart, PoolInv, NEW a \in Adder, VerifyUnderLock(a) PROVE PoolInv'
<1> DEFINE t == adder[a].tx
           v == VerifyTransaction(chain, t)
<1>1. /\ adder \in [Adder -> [pc : {"idle", "pool"} \cup PoolPcs, tx : Tx \cup {None}]]
      /\ UNCHANGED <<queue, outgoing, early, writer>> /\ chain' = v.chain /\ chainLock = None
      /\ adder[a].pc = "chain"
      /\ IF v.status = "SUCCESS" THEN Goto(a, "queue") ELSE Answer(a)
  BY DEF LockInv, AddersPart, VerifyUnderLock
<1>2. chain'.txdb = chain.txdb
  <2>1. IsNumbered(chain) /\ (chain' = chain \/ \E l : chain' = [chain EXCEPT !.ledger = l])
    BY <1>1 DEF VerifyTransaction, ChainPart
  <2> QED BY <2>1 DEF IsNumbered, IsChain, ChainFields
<1>3. \A w \in Writers : writer[w].pc # "commit"
  BY <1>1, NodeAssumption DEF LockInv, WritersPart, ChainPcs
<1>4. CASE v.status # "SUCCESS"
  <2>1. \A c \in Adder : adder'[c] = adder[c] \/ adder'[c].pc \notin {"chain", "queue"}
    BY <1>1, <1>4 DEF Answer, IdleAdder
  <2> QED BY <1>1, <1>2, <2>1, PlacesStay
<1>5. CASE v.status = "SUCCESS"
  <2>1. /\ adder'[a].pc = "queue" /\ adder'[a].tx = t
        /\ \A c \in Adder : c # a => adder'[c] = adder[c]
    BY <1>1, <1>5 DEF Goto
  <2>2. t \notin DOMAIN chain.txdb
    BY <1>5 DEF VerifyTransaction
  <2>3. t \notin queue
    BY <1>1 DEF PoolInv, PoolPlaces
  <2> HIDE DEF t, v
  <2>4. PoolPlaces'
    BY <1>1, <1>2, <1>3, <2>1, <2>2, <2>3 DEF PoolInv, PoolPlaces
  <2>5. PoolAmounts'
    BY <1>1 DEF PoolInv, PoolAmounts, OutgoingOf
  <2> QED BY <2>4, <2>5 DEF PoolInv
<1> QED BY <1>4, <1>5

LEMMA EnqueuePool ==
  ASSUME LockInv, TxPart, PoolInv, NEW a \in Adder, Enqueue(a) PROVE PoolInv'
<1> DEFINE t == adder[a].tx
<1>1. /\ adder \in [Adder -> [pc : {"idle", "pool"} \cup PoolPcs, tx : Tx \cup {None}]]
      /\ UNCHANGED <<early, chain, writer>> /\ adder[a].pc = "queue" /\ t \in Tx
  BY DEF LockInv, AddersPart, TxPart, Enqueue, chainVars
<1>2. /\ \A c \in Adder : adder'[c] = adder[c] \/ (c = a /\ adder'[c].pc \notin {"chain", "queue"})
  BY <1>1 DEF Enqueue, Answer, Goto, IdleAdder
<1>3. CASE UNCHANGED <<queue, outgoing>>
  BY <1>1, <1>2, <1>3, PlacesStay
<1>4. CASE /\ queue' = queue \cup {t}
           /\ outgoing' = Increase(outgoing, TxBody[t].from, TxBody[t].amount)
  <2>1. t \notin queue /\ (t \in DOMAIN chain.txdb => t \in early)
    BY <1>1 DEF PoolInv, PoolPlaces
  <2>2. PoolAmounts'
    BY <1>1, <1>4, <2>1, QueueGrows DEF PoolInv
  <2>3. ASSUME NEW c \in Adder, c # a
        PROVE  adder[c].pc \notin {"chain", "queue"}
    BY <1>1, <2>3 DEF LockInv, AddersPart, PoolPcs
  <2>4. ASSUME NEW w \in Writers, writer'[w].pc = "commit"
        PROVE  Committed(w)'
    <3>1. MinedOf(writer[w].block) \subseteq early
      BY <1>1, <2>4 DEF PoolInv, PoolPlaces, Committed
    <3> QED BY <1>1, <3>1 DEF Committed, MinedOf
  <2> HIDE DEF t
  <2>5. queue' \cap DOMAIN chain'.txdb \subseteq early'
    BY <1>1, <1>4, <2>1 DEF PoolInv, PoolPlaces
  <2>6. \A c \in Adder : adder'[c].pc \notin {"chain", "queue"}
    <3>1. Answer(a)
      BY <1>4, <2>1 DEF Enqueue, poolVars
    <3>2. adder'[a].pc = "idle"
      BY <1>1, <3>1 DEF Answer, IdleAdder
    <3> QED BY <1>2, <2>3, <3>2
  <2> QED BY <2>2, <2>4, <2>5, <2>6 DEF PoolInv, PoolPlaces
<1> QED BY <1>3, <1>4 DEF Enqueue, poolVars

(* A block finished in the pool: no request holds the pool's lock.         *)
LEMMA FinishPool ==
  ASSUME LockInv, PoolInv, NEW w \in Writers, FinishBlock(w) PROVE PoolInv'
<1> DEFINE mined == MinedOf(writer[w].block)
<1>1. /\ queue' = queue \ mined /\ outgoing' = OutgoingAfter(writer[w].block)
      /\ UNCHANGED <<chain, early, adder>> /\ poolLock = None
      /\ writer = [v \in Writers |-> writer[v]] /\ WriterRecord(writer[w])
      /\ writer' = [writer EXCEPT ![w].pc = "commit"]
  BY DEF FinishBlock, chainVars, LockInv, WritersPart, To
<1>2. PoolAmounts'
  BY <1>1, QueueShrinks DEF PoolInv
<1>3. \A a \in Adder : adder[a].pc \notin {"chain", "queue"}
  BY <1>1, NodeAssumption DEF LockInv, AddersPart, PoolPcs
<1>4. /\ writer'[w].block = writer[w].block
      /\ \A v \in Writers : v # w => writer'[v] = writer[v]
  BY <1>1 DEF WriterRecord
<1>5. queue' \subseteq queue /\ queue' \cap mined = {}
  BY <1>1
<1>6. ASSUME NEW v \in Writers, writer'[v].pc = "commit"
      PROVE  Committed(v)'
  <2>1. CASE v = w
    BY <1>1, <1>3, <1>4, <1>5, <2>1 DEF Committed, MinedOf
  <2>2. CASE v # w
    <3>1. writer'[v] = writer[v] /\ Committed(v)
      BY <1>4, <1>6, <2>2 DEF PoolInv, PoolPlaces
    <3> QED BY <1>1, <1>3, <1>5, <3>1 DEF Committed, MinedOf
  <2> QED BY <2>1, <2>2
<1> HIDE DEF mined
<1>7. PoolPlaces'
  BY <1>1, <1>3, <1>5, <1>6 DEF PoolInv, PoolPlaces
<1> QED BY <1>2, <1>7 DEF PoolInv

(* A block committed: its transactions go into the store.                  *)
LEMMA CommitPool ==
  ASSUME LockInv, ChainPart, PoolInv, NEW w \in Writers, AddCommit(w) PROVE PoolInv'
<1> DEFINE b == writer[w].block
           mined == MinedOf(b)
<1>1. /\ UNCHANGED <<queue, outgoing, adder, early>> /\ writer[w].pc = "commit"
      /\ chain' = Commit(chain, b, chain.ledger)
      /\ writer = [v \in Writers |-> writer[v]] /\ WriterRecord(writer[w])
      /\ \E pc \in {"pop", "next", "release"} : writer' = [writer EXCEPT ![w].pc = pc]
  <2> DEFINE pc == IF w = Syncer THEN IF b = Genesis THEN "pop" ELSE "next" ELSE "release"
  <2>1. To(w, pc) /\ pc \in {"pop", "next", "release"}
    BY DEF AddCommit
  <2> HIDE DEF pc
  <2>2. \E q \in {"pop", "next", "release"} : writer' = [writer EXCEPT ![w].pc = q]
    BY <2>1 DEF To
  <2> QED BY <2>2 DEF AddCommit, poolVars, LockInv, WritersPart
<1>2. DOMAIN chain'.txdb = DOMAIN chain.txdb \cup mined
  <2>1. chain'.txdb = InsertTransactions(chain.txdb, Ordered(b), BlockBody[b].id)
    BY <1>1, CommitFields DEF ChainPart, IsNumbered
  <2> QED BY <2>1 DEF InsertTransactions, MinedOf
<1>3. mined \subseteq early \/ (queue \cap mined = {} /\ \A a \in Adder : adder[a].pc # "queue")
  BY <1>1 DEF PoolInv, PoolPlaces, Committed
<1>4. \A v \in Writers : writer'[v].pc = "commit" => v # w /\ writer'[v] = writer[v]
  BY <1>1 DEF WriterRecord
<1>5. ASSUME NEW v \in Writers, writer'[v].pc = "commit"
      PROVE  Committed(v)'
  <2>1. writer'[v] = writer[v] /\ Committed(v)
    BY <1>4, <1>5 DEF PoolInv, PoolPlaces
  <2> QED BY <1>1, <2>1 DEF Committed, MinedOf
<1>6. PoolAmounts'
  BY <1>1 DEF PoolInv, PoolAmounts, OutgoingOf
<1> HIDE DEF mined
<1>7. PoolPlaces'
  BY <1>1, <1>2, <1>3, <1>5 DEF PoolInv, PoolPlaces
<1> QED BY <1>6, <1>7 DEF PoolInv

(* Blocks removed by startChainSync leave the store.                       *)
LEMMA SyncPool ==
  ASSUME LockInv, ChainPart, PoolInv, SyncStep PROVE PoolInv'
<1>1. /\ UNCHANGED <<queue, outgoing, adder, early>> /\ Syncer \in Writers
      /\ writer = [v \in Writers |-> writer[v]] /\ WriterRecord(writer[Syncer])
      /\ writer[Syncer].pc # "commit"
  BY DEF SyncStep, SyncPop, SyncDownload, SyncEnds, poolVars, LockInv, WritersPart, Writers
<1>2. DOMAIN chain'.txdb \subseteq DOMAIN chain.txdb
  <2>1. CASE chain' = chain
    BY <2>1
  <2>2. CASE chain' = Cleared
    BY <2>2 DEF Cleared
  <2>3. CASE chain' = PopBlock(chain) /\ chain.numBlocks > 2
    <3> DEFINE last == {Ordered(Tip(chain))[i] : i \in 1 .. Len(Ordered(Tip(chain)))}
               gone == {u \in last : ~TxBody[u].fee}
    <3>1. IsChain(chain) /\ chain.numBlocks \in Int
      BY DEF ChainPart, IsNumbered
    <3>2. chain'.txdb = RollbackBlock(Ordered(Tip(chain)), chain.ledger, chain.txdb).txdb
      BY <2>3, <3>1 DEF PopBlock, Popped, IsChain, ChainFields
    <3>3. chain'.txdb = [t \in DOMAIN chain.txdb \ gone |-> chain.txdb[t]]
      BY <3>2 DEF RollbackBlock, RollbackFrom
    <3> HIDE DEF gone
    <3> QED BY <3>3
  <2> QED BY <2>1, <2>2, <2>3 DEF SyncStep, SyncPop, SyncDownload, SyncEnds, chainVars
<1>3. /\ \A v \in Writers : v # Syncer => writer'[v] = writer[v]
      /\ writer'[Syncer].pc # "commit"
  <2>1. CASE UNCHANGED writer
    BY <1>1, <2>1
  <2>2. ASSUME NEW b, writer' = [writer EXCEPT ![Syncer].pc = "add", ![Syncer].block = b]
        PROVE  /\ \A v \in Writers : v # Syncer => writer'[v] = writer[v]
               /\ writer'[Syncer].pc # "commit"
    <3>1. writer'[Syncer] = [writer[Syncer] EXCEPT !.pc = "add", !.block = b]
      BY <1>1, <2>2
    <3>2. writer'[Syncer].pc = "add"
      BY <1>1, <3>1, PcAndBlock
    <3> QED BY <1>1, <2>2, <3>2
  <2>3. CASE To(Syncer, "release")
    BY <1>1, <2>3 DEF To, WriterRecord
  <2> QED BY <2>1, <2>2, <2>3 DEF SyncStep, SyncPop, SyncDownload, SyncEnds
<1> QED BY <1>1, <1>2, <1>3, PlacesStay

(* A block executed: it goes past the pool only before setMemPool.         *)
LEMMA ExecutePool ==
  ASSUME LockInv, ChainPart, PoolInv, NEW w \in Writers, AddExecute(w) PROVE PoolInv'
<1> DEFINE b == writer[w].block
           x == Execution(chain, b)
<1>1. /\ UNCHANGED <<queue, outgoing, adder>> /\ early \subseteq early'
      /\ writer = [v \in Writers |-> writer[v]] /\ WriterRecord(writer[w])
      /\ writer[w].pc = "add"
  BY DEF AddExecute, poolVars, LockInv, WritersPart
<1>2. chain'.txdb = chain.txdb
  BY DEF AddExecute, ChainPart, IsNumbered, IsChain, ChainFields
<1>3. /\ \A v \in Writers : v # w => writer'[v] = writer[v]
      /\ writer'[w].pc = "commit" => MinedOf(writer'[w].block) \subseteq early'
  <2>1. CASE To(w, "release")
    BY <1>1, <2>1 DEF To, WriterRecord
  <2> DEFINE pc == IF x.status # "SUCCESS" THEN "undo" ELSE IF poolSet THEN "finish" ELSE "commit"
  <2>2. CASE /\ writer' = [writer EXCEPT ![w].deltas = x.deltas, ![w].pc = pc]
             /\ early' = IF poolSet THEN early ELSE early \cup MinedOf(b)
    <3>1. writer'[w] = [writer[w] EXCEPT !.deltas = x.deltas, !.pc = pc]
      BY <1>1, <2>2
    <3> HIDE DEF pc, x
    <3>2. writer'[w] = [pc |-> pc, block |-> b, deltas |-> x.deltas]
      BY <1>1, <3>1, DeltasAndPc
    <3>3. \A v \in Writers : v # w => writer'[v] = writer[v]
      BY <1>1, <2>2
    <3>4. pc = "commit" => ~poolSet
      BY DEF pc
    <3>5. writer'[w].pc = pc /\ writer'[w].block = b
      BY <3>2
    <3>6. ~poolSet => MinedOf(b) \subseteq early'
      BY <2>2
    <3> HIDE DEF b
    <3> QED BY <3>3, <3>4, <3>5, <3>6
  <2> QED BY <2>1, <2>2 DEF AddExecute
<1>4. \A v \in Writers : writer'[v].pc = "commit" =>
        (writer[v].pc = "commit" /\ writer'[v].block = writer[v].block)
          \/ MinedOf(writer'[v].block) \subseteq early'
  BY <1>3
<1> QED BY <1>1, <1>2, <1>4, PlacesStay

(* The other steps of a writing thread.                                    *)
LEMMA OtherPool ==
  ASSUME LockInv, ChainPart, PoolInv, NEW w \in Writers, Acquire(w) \/ AddUndo(w) \/ Release(w)
  PROVE  PoolInv'
<1>1. /\ UNCHANGED <<queue, outgoing, adder, early>>
      /\ writer = [v \in Writers |-> writer[v]] /\ WriterRecord(writer[w])
  BY DEF Acquire, AddUndo, Release, poolVars, LockInv, WritersPart
<1>2. chain'.txdb = chain.txdb
  BY DEF Acquire, AddUndo, Release, ChainPart, IsNumbered, IsChain, ChainFields
<1>3. /\ \A v \in Writers : v # w => writer'[v] = writer[v]
      /\ writer'[w].pc # "commit"
  BY <1>1 DEF Acquire, AddUndo, Release, To, WriterRecord, IdleWriter
<1> QED BY <1>1, <1>2, <1>3, PlacesStay

LEMMA SubmitPool ==
  ASSUME LockInv, PoolInv, StartSync \/ \E w \in Writers, b \in Block : SubmitProofOfWork(w, b)
  PROVE  PoolInv'
<1>1. /\ UNCHANGED <<queue, outgoing, adder, early, chain>>
      /\ writer = [v \in Writers |-> writer[v]] /\ \A v \in Writers : WriterRecord(writer[v])
  BY DEF StartSync, SubmitProofOfWork, poolVars, chainVars, LockInv, WritersPart
<1>2. \A v \in Writers : writer'[v] = writer[v] \/ writer'[v].pc # "commit"
  <2>1. CASE StartSync
    BY <1>1, <2>1 DEF StartSync, To, WriterRecord
  <2>2. ASSUME NEW w \in Writers, NEW b \in Block, SubmitProofOfWork(w, b), ~UNCHANGED writer
        PROVE  \A v \in Writers : writer'[v] = writer[v] \/ writer'[v].pc # "commit"
    <3>1. writer' = [writer EXCEPT ![w].pc = "lock", ![w].block = b]
      BY <2>2 DEF SubmitProofOfWork
    <3>2. writer'[w] = [writer[w] EXCEPT !.pc = "lock", !.block = b]
      BY <1>1, <3>1
    <3>3. writer'[w].pc = "lock"
      BY <1>1, <3>2, PcAndBlock
    <3> QED BY <1>1, <3>1, <3>3
  <2>3. CASE UNCHANGED writer
    BY <2>3
  <2> QED BY <2>1, <2>2, <2>3
<1> QED BY <1>1, <1>2, PlacesStay

LEMMA NextPool ==
  LockInv /\ ChainPart /\ TxPart /\ PoolInv /\ [Next]_vars => PoolInv'
<1> SUFFICES ASSUME LockInv, ChainPart, TxPart, PoolInv, [Next]_vars PROVE PoolInv'
  OBVIOUS
<1>1. ASSUME NEW a \in Adder, AdderStep(a) PROVE PoolInv'
  BY <1>1, CheckQueuePool, VerifyPool, EnqueuePool DEF AdderStep
<1>2. ASSUME NEW a \in Adder, NEW t \in Offered, AddTransaction(a, t) PROVE PoolInv'
  <2>1. \A c \in Adder : adder'[c] = adder[c] \/ adder'[c].pc = "pool"
    BY <1>2 DEF AddTransaction, LockInv, AddersPart
  <2> QED BY <1>2, <2>1, PlacesStay DEF AddTransaction, chainVars, poolVars
<1>3. ASSUME NEW w \in Writers, WriterStep(w) PROVE PoolInv'
  BY <1>3, ExecutePool, FinishPool, CommitPool, OtherPool DEF WriterStep
<1>4. ASSUME NEW w \in Writers, NEW b \in Block, SubmitProofOfWork(w, b) PROVE PoolInv'
  BY <1>4, SubmitPool
<1>5. CASE StartSync \/ SyncStep
  BY <1>5, SubmitPool, SyncPool
<1>6. CASE SendNext \/ SetMemPool \/ UNCHANGED vars
  BY <1>6, PlacesStay DEF SendNext, SetMemPool, vars, chainVars, poolVars
<1> QED
  BY <1>1, <1>2, <1>3, <1>4, <1>5, <1>6 DEF Next

\* Whatever threads there are and whatever they hand in: no transaction is in the pool
\* and in the chain's store, but those of blocks added before setMemPool, and what a
\* wallet has outstanding is the sum of its queued transactions.
THEOREM PoolFollowsChain == Spec => []PoolAgrees
<1>1. PoolInv => PoolAgrees
  BY DEF PoolInv, PoolAmounts, PoolPlaces, PoolAgrees, PoolApartFromChain, OutgoingIsQueued
<1> QED BY <1>1, InitLocks, NextLocks, InitSees, NextSees, TxStays, PoolStarts, NextPool, PTL DEF Spec

===============================================================================
