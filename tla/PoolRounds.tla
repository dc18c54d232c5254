------------------------------ MODULE PoolRounds ------------------------------
(***************************************************************************)
(* Rounds, shares and payouts of the pool: the processes Poolstate.Mining  *)
(* and Poolstate.DB (src/shifupool/lib/bmbpool/poolstate), the process     *)
(* Payout.Genserver and the task it spawns (.../payout), and of            *)
(* Nodes.GenServer (.../nodes) the chain length that makes it announce     *)
(* heights.  The miners' connections, the chain's nodes and the backend    *)
(* are the environment.                                                    *)
(*                                                                         *)
(* Poolstate.DB keeps one SQL transaction open and commits it every ten    *)
(* seconds and at the end of a payout: `db' is what it answers from,       *)
(* `disk' what a restart finds.  GenServer calls are one step of caller    *)
(* and callee; casts to Poolstate.DB wait in `dbq', casts to the payout    *)
(* process in `notify', casts to Poolstate.Mining in `done'.               *)
(*                                                                         *)
(* Abstractions: a row of the table payouts is named by its round and      *)
(* address and not by its ROWID (the two agree until the database process  *)
(* is restarted); a signed transaction is the number of the signature; the *)
(* wallet's keys, the table unpaid and the statistics are left out.        *)
(***************************************************************************)
EXTENDS PayoutMath, Sequences, FiniteSets

CONSTANTS Addresses,      \* payout addresses of the miners
          RoundBlocks,    \* application env round_blocks
          PayoutDelay,    \* application env payoutdelay_blocks
          ShareValues,    \* values of a share, 1 <<< share_difficulty
          Balances,       \* balances the chain's nodes may report
          Faults,         \* the kinds of fault of this model
          MaxHeight,      \* bound: heights announced
          MaxShares,      \* bound: shares of one address in one round, none in
                          \* a round that MaxHeight leaves no time to pay
          MaxNotify,      \* bound: notifications waiting for the payout process
          MaxFaults,      \* bound: faults
          Nil             \* Elixir's nil and SQL's NULL

FaultKinds == {"vm", "db", "payout", "mining", "nodes"}

ASSUME ConfigAssumption ==
  /\ RoundBlocks \in Nat \ {0} /\ PayoutDelay \in Nat
  /\ ShareValues \subseteq Nat \ {0} /\ Balances \subseteq Nat
  /\ Faults \subseteq FaultKinds
  /\ MaxHeight \in Nat /\ MaxShares \in Nat /\ MaxNotify \in Nat /\ MaxFaults \in Nat
  /\ Nil \notin Nat

\* The miners that ever sent a share; the sums of a round need it.
ASSUME FiniteAssumption == IsFiniteSet(Addresses)

VARIABLES db,           \* the database as Poolstate.DB's connection sees it
          disk,         \* the committed database
          dbUp,         \* Poolstate.DB is running
          dbq,          \* casts of payout tasks waiting in its mailbox
          mining,       \* Poolstate.Mining
          chainLength,  \* Nodes.GenServer's longest chain so far
          task,         \* Payout.Genserver's task
          notify,       \* rounds waiting in Payout.Genserver's mailbox
          done,         \* notify_processed_block casts waiting for Mining
          signed,       \* signatures made for each row (history)
          broadcast,    \* transactions sent to the network (history)
          faults        \* how many so far, and whether a payout, running or
                        \* notified, outlived the database process (history)
vars == <<db, disk, dbUp, dbq, mining, chainLength, task, notify, done,
          signed, broadcast, faults>>

-------------------------------------------------------------------------------
(* The tables and statements of Poolstate.DB.                              *)

\* newround_check: the first block of the round of a height, and the block
\* at which a round ends.
RoundStart(h) == RoundBlocks * ((h - 1) \div RoundBlocks)
RoundEnd(r) == RoundBlocks * (1 + r \div RoundBlocks)

Heights == 1..MaxHeight
Rounds == {RoundStart(h) : h \in Heights}
PerRow(S) == [Rounds -> [Addresses -> S]]
NoRows == [r \in Rounds |-> [a \in Addresses |-> 0]]

\* Tables rounds (the set of its blockstarts, and its columns), payouts (an
\* address has a row of a round when its shares are positive; tx is 0 when
\* NULL) and owner_payouts (the rounds that have a row).
Database == [rounds : SUBSET Rounds, blockend : [Rounds -> Nat \cup {Nil}],
             processed : SUBSET Rounds, reward : [Rounds -> Nat],
             total : [Rounds -> Nat], shares : PerRow(Nat), tx : PerRow(Nat),
             owner : SUBSET Rounds]

EmptyDatabase ==
  [rounds |-> {}, blockend |-> [r \in Rounds |-> Nil], processed |-> {},
   reward |-> [r \in Rounds |-> 0], total |-> [r \in Rounds |-> 0],
   shares |-> NoRows, tx |-> NoRows, owner |-> {}]

\* The maximum of rounds.blockstart, Nil when there is no round.
IsNewest(d, r) == r \in d.rounds /\ \A q \in d.rounds : q <= r
active_round(d) ==
  IF \E r \in d.rounds : IsNewest(d, r)
  THEN CHOOSE r \in d.rounds : IsNewest(d, r)
  ELSE Nil

\* Mutant: the latest closed round that is not processed.
unprocessed_latest(d) ==
  LET closed == {r \in d.rounds \ d.processed : d.blockend[r] # Nil}
  IN  IF closed = {} THEN Nil
      ELSE LET r == CHOOSE r \in closed : \A q \in closed : q <= r IN <<r, d.blockend[r]>>

\* The oldest round that is not processed, Nil when there is none or when
\* that round is not closed.
IsFirstUnprocessed(d, r) ==
  /\ r \in d.rounds \ d.processed
  /\ \A q \in d.rounds \ d.processed : r <= q
unprocessed_round(d) ==
  IF \E r \in d.rounds : IsFirstUnprocessed(d, r) /\ d.blockend[r] # Nil
  THEN LET r == CHOOSE r \in d.rounds : IsFirstUnprocessed(d, r) /\ d.blockend[r] # Nil
       IN  <<r, d.blockend[r]>>
  ELSE Nil

\* UPDATE rounds SET blockend; UPDATE of a blockstart without row does nothing.
SetEnd(d, r) ==
  IF r \in d.rounds THEN [d EXCEPT !.blockend[r] = RoundEnd(r)] ELSE d

InsertRound(d, r) == [d EXCEPT !.rounds = @ \cup {r}]

\* add_shares: the round's total, and the row of the address, made when missing.
AddShares(d, r, a, v) == [d EXCEPT !.total[r] = @ + v, !.shares[r][a] = @ + v]

\* The casts of a payout task.  A transaction is stored in the row it was
\* signed for, whatever the row holds by then.
HasRow(d, r, a) == d.shares[r][a] > 0
InsertTransactions(d, r, sig) ==
  [d EXCEPT !.tx[r] =
     [a \in Addresses |-> IF sig[a] # 0 /\ HasRow(d, r, a) THEN sig[a] ELSE d.tx[r][a]]]
SetProcessed(d, r, mined) ==
  IF r \in d.rounds
  THEN [d EXCEPT !.processed = @ \cup {r}, !.reward[r] = mined]
  ELSE d
InsertOwnerPayout(d, r) == [d EXCEPT !.owner = @ \cup {r}]

-------------------------------------------------------------------------------
(* The processes.                                                          *)

\* Poolstate.Mining: pc is "wallet" inside new_height, between setend_round
\* and the answer of Backend.create_wallet.
MiningDown == [pc |-> "down", round |-> Nil, height |-> 0, unprocessed |-> Nil, total |-> 0]
MiningState == [pc : {"down", "idle", "wallet"}, round : Rounds \cup {Nil},
                height : 0..MaxHeight, unprocessed : (Rounds \X Nat) \cup {Nil},
                total : Nat]

\* Payout.Task: pc names the call or cast that is next.
NoTask == [pc |-> "none", round |-> Nil, total |-> 0, mined |-> 0,
           amount |-> [a \in Addresses |-> 0], sig |-> [a \in Addresses |-> 0],
           txs |-> {}]
Transactions == Rounds \X Addresses \X Nat
TaskState == [pc : {"none", "round", "balance", "shares", "owner", "insert",
                    "setprocessed", "flush", "txs", "broadcast", "done"},
              round : Rounds \cup {Nil}, total : Nat, mined : Nat,
              amount : [Addresses -> Nat], sig : [Addresses -> Nat],
              txs : SUBSET Transactions]

OwnerCast == [type : {"owner"}, round : Rounds]
InsertCast == [type : {"insert"}, round : Rounds, sig : [Addresses -> Nat]]
ProcessedCast == [type : {"setprocessed"}, round : Rounds, mined : Nat]
FlushCast == [type : {"flush"}]
Casts == OwnerCast \cup InsertCast \cup ProcessedCast \cup FlushCast

TypeOK ==
  /\ db \in Database /\ disk \in Database /\ dbUp \in BOOLEAN /\ dbq \in Seq(Casts)
  /\ mining \in MiningState /\ chainLength \in 0..MaxHeight
  /\ task \in TaskState /\ notify \in Seq(Rounds) /\ done \in Nat
  /\ signed \in PerRow(Nat) /\ broadcast \subseteq Transactions
  /\ faults \in [n : 0..MaxFaults, outlived : BOOLEAN]

Init ==
  /\ db = EmptyDatabase /\ disk = EmptyDatabase /\ dbUp = TRUE /\ dbq = <<>>
  /\ mining = MiningDown /\ chainLength = 0
  /\ task = NoTask /\ notify = <<>> /\ done = 0
  /\ signed = NoRows /\ broadcast = {} /\ faults = [n |-> 0, outlived |-> FALSE]

-------------------------------------------------------------------------------
(* Poolstate.Mining.                                                       *)

\* Mutant: the height is not compared.
PayoutDueAtOnce(m) == m.unprocessed # Nil

\* roundprocessing_check: a closed round is paid once PayoutDelay blocks are
\* on top of it.
PayoutDue(m) == m.unprocessed # Nil /\ m.unprocessed[2] + PayoutDelay <= m.height
roundprocessing_check(m) ==
  /\ mining' = m
  /\ notify' = IF PayoutDue(m) THEN Append(notify, m.unprocessed[1]) ELSE notify

\* Mutant: the total is asked for without a round too, and is then SQL's NULL.
MiningInitTotalNull ==
  /\ dbUp /\ mining.pc = "down"
  /\ LET r == active_round(db)
     IN  mining' = [pc |-> "idle", round |-> r, height |-> 0,
                    unprocessed |-> unprocessed_round(db),
                    total |-> IF r = Nil THEN Nil ELSE db.total[r]]
  /\ UNCHANGED <<db, disk, dbUp, dbq, chainLength, task, notify, done,
                 signed, broadcast, faults>>

\* init: what Mining knows after a start comes from the database; the height
\* is unknown until the next new_height.
MiningInit ==
  /\ dbUp /\ mining.pc = "down"
  /\ LET r == active_round(db)
     IN  mining' = [pc |-> "idle", round |-> r, height |-> 0,
                    unprocessed |-> unprocessed_round(db),
                    total |-> IF r = Nil THEN 0 ELSE db.total[r]]
  /\ UNCHANGED <<db, disk, dbUp, dbq, chainLength, task, notify, done,
                 signed, broadcast, faults>>

\* newround_check on a height of the current round.
SameRound(h) ==
  /\ mining.round # Nil /\ RoundStart(h) <= mining.round
  /\ roundprocessing_check([mining EXCEPT !.height = h])
  /\ UNCHANGED db

\* Mutant: the current round is not closed.
EndRoundLeavesOpen(h) ==
  /\ mining.round # Nil => mining.round < RoundStart(h)
  /\ mining' = [mining EXCEPT !.pc = "wallet", !.height = h]
  /\ UNCHANGED <<db, notify>>

\* newround_check on a height past the current round, or without a round:
\* the current round is closed, then Mining waits for the next round's wallet.
EndRound(h) ==
  /\ mining.round # Nil => mining.round < RoundStart(h)
  /\ db' = IF mining.round = Nil THEN db ELSE SetEnd(db, mining.round)
  /\ mining' = [mining EXCEPT !.pc = "wallet", !.height = h]
  /\ UNCHANGED notify

\* Nodes.GenServer's mine_result hears of a longer chain, and Mining handles
\* the new_height it casts.
NewHeight(h) ==
  /\ mining.pc = "idle" /\ h - 1 > chainLength /\ Len(notify) < MaxNotify
  /\ chainLength' = h - 1
  /\ SameRound(h) \/ EndRound(h)
  /\ UNCHANGED <<disk, dbUp, dbq, task, done, signed, broadcast, faults>>

\* Mutant: the cached total of the ended round is kept.
InsertNewRoundKeepsTotal ==
  /\ mining.pc = "wallet"
  /\ LET r == RoundStart(mining.height)
         started == [mining EXCEPT !.pc = "idle", !.round = r]
     IN  /\ db' = InsertRound(db, r)
         /\ roundprocessing_check(
              IF mining.round = Nil THEN started
              ELSE [started EXCEPT !.unprocessed = unprocessed_round(db')])
  /\ UNCHANGED <<disk, dbUp, dbq, chainLength, task, done, signed, broadcast, faults>>

\* The rest of new_height's newround_check once the backend made a wallet:
\* insert_round, and only for a round that follows another one the fresh
\* unprocessed round and share total.
InsertNewRound ==
  /\ mining.pc = "wallet"
  /\ LET r == RoundStart(mining.height)
         started == [mining EXCEPT !.pc = "idle", !.round = r]
     IN  /\ db' = InsertRound(db, r)
         /\ roundprocessing_check(
              IF mining.round = Nil THEN started
              ELSE [started EXCEPT !.unprocessed = unprocessed_round(db'), !.total = 0])
  /\ UNCHANGED <<disk, dbUp, dbq, chainLength, task, done, signed, broadcast, faults>>

\* add_valid_share: one share of a miner with payout address a.
AddShare(a, v) ==
  /\ mining.pc = "idle" /\ mining.round # Nil
  /\ db.shares[mining.round][a] + v <= MaxShares
  /\ RoundEnd(mining.round) + PayoutDelay <= MaxHeight
  /\ db' = AddShares(db, mining.round, a, v)
  /\ mining' = [mining EXCEPT !.total = db.total[mining.round] + v]
  /\ UNCHANGED <<disk, dbUp, dbq, chainLength, task, notify, done,
                 signed, broadcast, faults>>

\* notify_processed_block, cast by Payout.Genserver when a task ended.
ProcessedBlock ==
  /\ mining.pc = "idle" /\ done > 0 /\ Len(notify) < MaxNotify
  /\ done' = done - 1
  /\ roundprocessing_check([mining EXCEPT !.unprocessed = unprocessed_round(db)])
  /\ UNCHANGED <<db, disk, dbUp, dbq, chainLength, task, signed, broadcast, faults>>

-------------------------------------------------------------------------------
(* Payout.Genserver and Payout.Task.                                       *)

\* The casts of a task reach Poolstate.DB when it is running; a cast to a
\* process that is down is dropped.
Cast(msg) == dbq' = IF dbUp THEN Append(dbq, msg) ELSE dbq

\* Mutant: a call may overtake the casts sent before it.
CanCallAtOnce == dbUp

\* The answer to a call comes after all the casts sent before it.
CanCall == dbUp /\ dbq = <<>>

\* A failing task takes Payout.Genserver, which is linked to it, and its
\* mailbox down; the supervisor starts it again.
PayoutRestart == task' = NoTask /\ notify' = <<>>

\* handle_cast notify: ignored while a task is running.
Notify ==
  /\ notify # <<>>
  /\ notify' = Tail(notify)
  /\ task' = IF task.pc = "none"
             THEN [NoTask EXCEPT !.pc = "round", !.round = Head(notify)]
             ELSE task
  /\ UNCHANGED <<db, disk, dbUp, dbq, mining, chainLength, done,
                 signed, broadcast, faults>>

\* get_round; without such a round the match fails.
TaskGetRound ==
  /\ task.pc = "round" /\ CanCall
  /\ IF task.round \in db.rounds
     THEN /\ task' = [task EXCEPT !.pc = "balance", !.total = db.total[task.round]]
          /\ UNCHANGED notify
     ELSE PayoutRestart
  /\ UNCHANGED <<db, disk, dbUp, dbq, mining, chainLength, done,
                 signed, broadcast, faults>>

\* The smallest balance of the round's wallet that the good nodes report.
TaskBalance(b) ==
  /\ task.pc = "balance"
  /\ task' = [task EXCEPT !.pc = "shares", !.mined = b]
  /\ UNCHANGED <<db, disk, dbUp, dbq, mining, chainLength, notify, done,
                 signed, broadcast, faults>>

\* No node answers: the task ends without paying.
TaskNoBalance ==
  /\ task.pc = "balance"
  /\ task' = [task EXCEPT !.pc = "done"]
  /\ UNCHANGED <<db, disk, dbUp, dbq, mining, chainLength, notify, done,
                 signed, broadcast, faults>>

\* Mutant: rows that have a transaction are paid again.
UnpaidOrPaid(d, r, a) == HasRow(d, r, a)

\* get_round_shares, the rows without a transaction, and their payouts, each
\* positive one signed by the backend; the owner's transaction is only made
\* when something is left for it.
Unpaid(d, r, a) == HasRow(d, r, a) /\ d.tx[r][a] = 0
TaskGetShares ==
  /\ task.pc = "shares" /\ CanCall
  /\ LET r == task.round
         amount == [a \in Addresses |->
                      IF Unpaid(db, r, a)
                      THEN Payout(task.mined, db.shares[r][a], task.total) ELSE 0]
         signatures == [a \in Addresses |->
                          IF amount[a] > 0 THEN signed[r][a] + 1 ELSE signed[r][a]]
     IN  /\ signed' = [signed EXCEPT ![r] = signatures]
         /\ task' = [task EXCEPT
                       !.pc = IF OwnerAmount(task.mined, amount) > 0 THEN "owner" ELSE "insert",
                       !.amount = amount,
                       !.sig = [a \in Addresses |-> IF amount[a] > 0 THEN signatures[a] ELSE 0]]
  /\ UNCHANGED <<db, disk, dbUp, dbq, mining, chainLength, notify, done,
                 broadcast, faults>>

\* The four casts that store the payout, in the order of the code.
TaskCast(pc, msg, next) ==
  /\ task.pc = pc
  /\ Cast(msg)
  /\ task' = [task EXCEPT !.pc = next]
  /\ UNCHANGED <<db, disk, dbUp, mining, chainLength, notify, done,
                 signed, broadcast, faults>>
TaskInsertOwner == TaskCast("owner", [type |-> "owner", round |-> task.round], "insert")
TaskInsert ==
  TaskCast("insert", [type |-> "insert", round |-> task.round, sig |-> task.sig], "setprocessed")
TaskSetProcessed ==
  TaskCast("setprocessed",
           [type |-> "setprocessed", round |-> task.round, mined |-> task.mined], "flush")
\* Mutant: no flush before the broadcast.
TaskFlushLeftOut ==
  /\ task.pc = "flush"
  /\ task' = [task EXCEPT !.pc = "txs"]
  /\ UNCHANGED <<db, disk, dbUp, dbq, mining, chainLength, notify, done,
                 signed, broadcast, faults>>
TaskFlush == TaskCast("flush", [type |-> "flush"], "txs")

\* round_transactions: the stored transactions of the round, old ones included.
StoredTransactions(d, r) ==
  {<<r, a, d.tx[r][a]>> : a \in {a \in Addresses : d.tx[r][a] # 0}}
TaskReadTransactions ==
  /\ task.pc = "txs" /\ CanCall
  /\ task' = [task EXCEPT !.pc = "broadcast", !.txs = StoredTransactions(db, task.round)]
  /\ UNCHANGED <<db, disk, dbUp, dbq, mining, chainLength, notify, done,
                 signed, broadcast, faults>>

\* Requests.add_transaction_json to every good node.
TaskBroadcast ==
  /\ task.pc = "broadcast"
  /\ broadcast' = broadcast \cup task.txs
  /\ task' = [task EXCEPT !.pc = "done"]
  /\ UNCHANGED <<db, disk, dbUp, dbq, mining, chainLength, notify, done, signed, faults>>

\* Mutant: Mining is not told.
PayoutDoneUntold ==
  /\ task.pc = "done"
  /\ task' = NoTask
  /\ UNCHANGED <<db, disk, dbUp, dbq, mining, chainLength, notify, done,
                 signed, broadcast, faults>>

\* handle_info payout_done: Mining is told, unless it is down.
PayoutDone ==
  /\ task.pc = "done"
  /\ task' = NoTask
  /\ done' = IF mining.pc = "down" THEN done ELSE done + 1
  /\ UNCHANGED <<db, disk, dbUp, dbq, mining, chainLength, notify,
                 signed, broadcast, faults>>

-------------------------------------------------------------------------------
(* Poolstate.DB: the casts in its mailbox and its timer.                   *)

HandleCast(type) ==
  /\ dbUp /\ dbq # <<>> /\ Head(dbq).type = type
  /\ dbq' = Tail(dbq)
  /\ UNCHANGED <<dbUp, mining, chainLength, task, notify, done,
                 signed, broadcast, faults>>

DBInsertOwnerPayout ==
  /\ HandleCast("owner")
  /\ db' = InsertOwnerPayout(db, Head(dbq).round)
  /\ UNCHANGED disk
DBInsertTransactions ==
  /\ HandleCast("insert")
  /\ db' = InsertTransactions(db, Head(dbq).round, Head(dbq).sig)
  /\ UNCHANGED disk
DBSetProcessed ==
  /\ HandleCast("setprocessed")
  /\ db' = SetProcessed(db, Head(dbq).round, Head(dbq).mined)
  /\ UNCHANGED disk
DBFlush ==
  /\ HandleCast("flush")
  /\ disk' = db
  /\ UNCHANGED db

\* handle_info flush, every ten seconds.
DBTimedFlush ==
  /\ dbUp /\ disk # db
  /\ disk' = db
  /\ UNCHANGED <<db, dbUp, dbq, mining, chainLength, task, notify, done,
                 signed, broadcast, faults>>

\* init: the database as the disk has it.
DBInit ==
  /\ ~dbUp
  /\ dbUp' = TRUE /\ db' = disk
  /\ UNCHANGED <<disk, dbq, mining, chainLength, task, notify, done,
                 signed, broadcast, faults>>

-------------------------------------------------------------------------------
(* Faults, at most MaxFaults of them, of the kinds in Faults.              *)

Outlives(kind) == kind = "db" /\ (task.pc # "none" \/ notify # <<>>)
Fault(kind) ==
  /\ kind \in Faults /\ faults.n < MaxFaults
  /\ faults' = [n |-> faults.n + 1, outlived |-> faults.outlived \/ Outlives(kind)]

\* Poolstate.Mining is alone in failing: it is the last child of its
\* rest_for_one supervisor.
MiningFails ==
  /\ mining' = MiningDown /\ done' = 0
  /\ UNCHANGED <<db, disk, dbUp, dbq, chainLength, task, notify, signed, broadcast>>

\* It fails with the match on create_wallet's answer (between closing a round
\* and starting the next), with a share before the first round (add_shares has
\* no clause for it), or with a call that Nodes or the backend does not answer.
MiningCrashes == Fault("mining") /\ mining.pc # "down" /\ MiningFails

\* Poolstate.DB fails, and its supervisor stops Mining with it: the open
\* transaction is rolled back and both mailboxes are lost.
DBDown ==
  /\ dbUp' = FALSE /\ db' = disk /\ dbq' = <<>>
  /\ mining' = MiningDown /\ done' = 0
  /\ UNCHANGED <<disk, signed, broadcast>>
DBFails == Fault("db") /\ dbUp /\ DBDown /\ UNCHANGED <<chainLength, task, notify>>

\* The whole pool stops and is started again.
PoolStops == Fault("vm") /\ DBDown /\ PayoutRestart /\ chainLength' = 0

\* A task fails (a backend or node request, a lost call), or Payout.Genserver.
PayoutFails ==
  /\ Fault("payout") /\ PayoutRestart
  /\ UNCHANGED <<db, disk, dbUp, dbq, mining, chainLength, done, signed, broadcast>>

\* A task calls Poolstate.DB while it is down.
TaskCallFails ==
  /\ task.pc \in {"round", "shares", "txs"} /\ ~dbUp
  /\ PayoutRestart
  /\ UNCHANGED <<db, disk, dbUp, dbq, mining, chainLength, done, signed, broadcast, faults>>

\* Nodes.GenServer is restarted, and forgets the longest chain.
NodesFail ==
  /\ Fault("nodes") /\ chainLength' = 0
  /\ UNCHANGED <<db, disk, dbUp, dbq, mining, task, notify, done, signed, broadcast>>

\* A new_height cast while Mining is down is dropped.
HeightLost(h) ==
  /\ mining.pc = "down" /\ h - 1 > chainLength
  /\ chainLength' = h - 1
  /\ UNCHANGED <<db, disk, dbUp, dbq, mining, task, notify, done,
                 signed, broadcast, faults>>

-------------------------------------------------------------------------------
MiningNext ==
  \/ MiningInit \/ InsertNewRound \/ ProcessedBlock
  \/ \E h \in Heights : NewHeight(h)
  \/ \E a \in Addresses, v \in ShareValues : AddShare(a, v)

PayoutNext ==
  \/ Notify \/ TaskGetRound \/ TaskNoBalance \/ TaskGetShares
  \/ \E b \in Balances : TaskBalance(b)
  \/ TaskInsertOwner \/ TaskInsert \/ TaskSetProcessed \/ TaskFlush
  \/ TaskReadTransactions \/ TaskBroadcast \/ PayoutDone

DBHandlesCast ==
  DBInsertOwnerPayout \/ DBInsertTransactions \/ DBSetProcessed \/ DBFlush
DBNext == DBHandlesCast \/ DBTimedFlush \/ DBInit

FaultNext ==
  \/ MiningCrashes \/ DBFails \/ PoolStops \/ PayoutFails
  \/ TaskCallFails \/ NodesFail
  \/ \E h \in Heights : HeightLost(h)

Next == MiningNext \/ PayoutNext \/ DBNext \/ FaultNext

Spec == Init /\ [][Next]_vars

\* What the processes do of themselves: a GenServer takes its next message, a
\* supervisor restarts a child, a task runs on, and the chain grows.
TaskGoesOn ==
  \/ TaskGetRound \/ TaskGetShares \/ TaskInsertOwner \/ TaskInsert \/ TaskSetProcessed
  \/ TaskFlush \/ TaskReadTransactions \/ TaskBroadcast \/ PayoutDone \/ TaskCallFails
PoolGoesOn ==
  \/ MiningInit \/ InsertNewRound \/ ProcessedBlock \/ (\E h \in Heights : NewHeight(h))
  \/ Notify \/ TaskGoesOn \/ DBHandlesCast \/ DBInit

\* While there is something of this to do, some of it is done; no process needs to be
\* preferred.  A node may fail to report a balance any number of times, but not for ever.
Fairness == WF_vars(PoolGoesOn) /\ SF_vars(\E b \in Balances : TaskBalance(b))

FairSpec == Spec /\ Fairness

-------------------------------------------------------------------------------
(* Correctness.                                                            *)

(* Only the newest round is ever open, in the database and in what a       *)
(* restart would find: a round left open behind a newer one would be the   *)
(* first unprocessed round for ever, and no later round would be paid      *)
(* (db.ex:140-144 and 235-237).                                            *)
OnlyNewestOpen(d) ==
  \A r \in d.rounds : d.blockend[r] = Nil => \A q \in d.rounds : q <= r
OnlyLastRoundOpen == OnlyNewestOpen(db) /\ OnlyNewestOpen(disk)

(* The share total that Mining caches and shows to the miners is the sum   *)
(* of the rows of its round, across new rounds and restarts.               *)
ShareTotals ==
  mining.round # Nil => mining.total = SumFunction(db.shares[mining.round])

(* Once a round's payout has started, or the round is processed, no share  *)
(* is added to it: such a share would never be paid, or be paid from       *)
(* others' part (a step in which the database restarts is no credit).  A   *)
(* payout that outlives the database is excepted: a round that was open    *)
(* when it was last committed is credited again under the running task.    *)
PayoutStarted(r) == r \in db.processed \/ (task.pc # "none" /\ task.round = r)
SharesFrozen ==
  [][dbUp /\ dbUp' /\ ~faults.outlived => \A r \in Rounds :
       PayoutStarted(r) => db'.shares[r] = db.shares[r]]_vars

(* The transactions a task made are covered by the participants' part of   *)
(* the balance it saw, though it read the round's total and its rows at    *)
(* different times.                                                        *)
PayoutsCovered == 100 * PayoutSum(task.amount) <= (100 - Fee) * task.mined

(* A round's shares add up, in memory and in the task that pays it, unless  *)
(* that outlived the database.                                             *)
RoundAmounts == ShareTotals /\ (~faults.outlived => PayoutsCovered)

(* Rounds are paid in order: while the payout of a round runs, every       *)
(* earlier round is processed.                                             *)
PaidInOrder ==
  task.pc # "none" => \A q \in db.rounds : q < task.round => q \in db.processed

(* A transaction that was sent to the network is the one the committed     *)
(* database holds for its row: a restart cannot forget it, and nothing     *)
(* replaces it.                                                            *)
BroadcastSaved == \A t \in broadcast : disk.tx[t[1]][t[2]] = t[3]

(* A miner is paid at most once for a round: whatever crashes, restarts    *)
(* and repeated notifications, no two different transactions for the same  *)
(* row reach the network.                                                  *)
PaidOnce ==
  \A t, u \in broadcast : (t[1] = u[1] /\ t[2] = u[2]) => t = u

(* The same promise as a specification: the committed database and the     *)
(* broadcasts of the pool behave as PayoutLedger says.                     *)
Ledger == INSTANCE PayoutLedger WITH saved <- disk.tx, sent <- broadcast
LedgerSpec == Ledger!Spec

(* Every row of a committed processed round whose payout is positive has   *)
(* its transaction saved, so that it can be resent                         *)
(* (stratum-protocol.md:89: "The hexdump of these transactions will be     *)
(* saved such that participants can resend failed transactions").          *)
ProcessedPaid ==
  \A r \in disk.processed, a \in Addresses :
    (HasRow(disk, r, a) /\ Payout(disk.reward[r], disk.shares[r][a], disk.total[r]) > 0)
      => disk.tx[r][a] # 0

(* What is processed was paid: earlier rounds before later ones, and every *)
(* payout of a processed round can be sent again.  A task that outlives    *)
(* the database process loses the casts sent while it was down, and may    *)
(* mark a round processed whose transactions are gone.                     *)
RoundsSettled == ~faults.outlived => PaidInOrder /\ ProcessedPaid

(* Closed rounds are processed in the end, all of them, when no more       *)
(* faults happen and the chain still grows past the payout delay: neither  *)
(* a busy payout process, a lost notification nor silent nodes leave one   *)
(* behind.  (A payout of a round that a rollback took away still fails,    *)
(* and its notifications with it; that is counted as a fault.)             *)
Waiting ==
  {r \in db.rounds \ db.processed :
     db.blockend[r] # Nil /\ RoundEnd(r) + PayoutDelay <= MaxHeight}
NoMoreFaults ==
  /\ faults.n = MaxFaults /\ mining.pc = "idle"
  /\ task.pc = "round" => task.round \in db.rounds
  /\ \A i \in DOMAIN notify : notify[i] \in db.rounds
RoundsGetPaid ==
  (Waiting # {} /\ NoMoreFaults /\ chainLength + 1 < MaxHeight) ~> Waiting = {}

-------------------------------------------------------------------------------
(* The inductive invariant behind OnlyLastRoundOpen, BroadcastSaved and    *)
(* PaidOnce.                                                               *)

\* A waiting Mining knows the height, a running task its round.
WaitsAndRuns == /\ mining.pc = "wallet" => mining.height \in Heights
                /\ task.pc # "none" => task.round \in Rounds

\* The database process and Mining stop together, and what is in memory only
\* is gone then.
DownIsDisk == /\ ~dbUp => db = disk /\ dbq = <<>>
              /\ mining.pc # "down" => dbUp

\* A database with rounds has a newest one.
HasNewest(d) == d.rounds = {} \/ \E r \in d.rounds : IsNewest(d, r)

\* Mining works on the newest round, and when it waits for a wallet that round
\* is closed and the next one later.
MiningOnNewest ==
  /\ mining.pc # "down" =>
       IF mining.round = Nil THEN db.rounds = {} ELSE IsNewest(db, mining.round)
  /\ mining.pc = "wallet" /\ mining.round # Nil =>
       mining.round < RoundStart(mining.height) /\ db.blockend[mining.round] # Nil

RoundsInv == /\ DownIsDisk /\ MiningOnNewest
             /\ HasNewest(db) /\ HasNewest(disk)
             /\ OnlyLastRoundOpen

\* The open SQL transaction never takes a committed payment back.
CommittedKept ==
  \A r \in Rounds, a \in Addresses :
    disk.tx[r][a] # 0 => db.tx[r][a] = disk.tx[r][a]

\* No insert cast, neither waiting nor about to be sent, meets a row that has
\* a transaction; there is at most one of them.
RowsFree(r, sig) == \A a \in Addresses : sig[a] # 0 => db.tx[r][a] = 0
NoInsertWaiting == \A i \in 1..Len(dbq) : dbq[i].type # "insert"
InsertsFree ==
  /\ \A i \in 1..Len(dbq) : dbq[i].type = "insert" =>
       /\ RowsFree(dbq[i].round, dbq[i].sig)
       /\ \A j \in 1..Len(dbq) : dbq[j].type = "insert" => j = i
  /\ task.pc \in {"owner", "insert"} => RowsFree(task.round, task.sig) /\ NoInsertWaiting

\* A task asks for the round's transactions behind its own flush, so all of
\* them are committed when it gets them.
FlushedFirst ==
  task.pc = "txs" => IF dbq = <<>> THEN db.tx = disk.tx
                     ELSE dbq[Len(dbq)].type = "flush"

Committed(txs) ==
  \A t \in txs : t \in Transactions /\ t[3] # 0 /\ t[3] = disk.tx[t[1]][t[2]]

PaymentsInv == /\ CommittedKept /\ InsertsFree /\ FlushedFirst
               /\ task.pc = "broadcast" => Committed(task.txs)
               /\ Committed(broadcast)

(* The strengthening is checked by itself: every part of it is used by the *)
(* proofs in PoolRoundsProofs.                                             *)
IInv == TypeOK /\ WaitsAndRuns /\ RoundsInv /\ PaymentsInv
================================================================================
