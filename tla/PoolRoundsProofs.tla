--------------------------- MODULE PoolRoundsProofs ---------------------------
(***************************************************************************)
(* Proofs about PoolRounds for every value of its constants.               *)
(*                                                                         *)
(* The rounds: their types (TInv), the one that is open (RoundsInv) and    *)
(* the sums of their shares (SumsInv).  The payments: PaymentsInv is       *)
(* inductive, and from it follow BroadcastSaved, PaidOnce and the          *)
(* implementation of PayoutLedger.  For a deployment like the one in the   *)
(* code (Deployment) rounds are settled in order and behind the one that   *)
(* is mined (SettleInv), so their shares stay as they are once one of them *)
(* is due, the amounts of a payment are covered by what was mined          *)
(* (CoverInv), and what is processed was paid (PaidInv), until the         *)
(* database process fails while a payout runs or waits (OutlivedStays).    *)
(*                                                                         *)
(* Computations: the bounds on the payouts of one round, which the theorem *)
(* on amounts rests on too, and the two counts of a hash's zero bits.      *)
(***************************************************************************)
EXTENDS PoolRounds, Computations, SumLemmas

-------------------------------------------------------------------------------
(* The operators of the database.                                          *)

(* The quotient of two naturals is a natural.                              *)
LEMMA QuotientIsNat ==
  ASSUME NEW a \in Nat, NEW b \in Nat \ {0}
  PROVE  a \div b \in Nat
  BY SMT

(* The product of two naturals is a natural.                               *)
LEMMA ProductIsNat ==
  ASSUME NEW a \in Nat, NEW b \in Nat
  PROVE  a * b \in Nat
  BY SMT

(* A payout is a number of leaves, never negative.                         *)
LEMMA PayoutIsNat ==
  ASSUME NEW mined \in Nat, NEW amount \in Nat, NEW total \in Nat
  PROVE  Payout(mined, amount, total) \in Nat
<1> DEFINE num == 200 * total + (100 - Fee)
           den == 2 * (100 - Fee)
<1>1. num \in Nat /\ den \in Nat \ {0}
  BY FeeAssumption
<1>2. num \div den \in Nat
  BY <1>1, QuotientIsNat
<1>3. Divisor(total) \in Nat \ {0}
  BY <1>2 DEF Divisor
<1>4. mined * amount \in Nat
  BY ProductIsNat
<1>5. (mined * amount) \div Divisor(total) \in Nat
  BY <1>3, <1>4, QuotientIsNat
<1> QED
  BY <1>5 DEF Payout

(* Blockstarts are naturals.                                               *)
LEMMA RoundsAreNat == Rounds \subseteq Nat
<1> SUFFICES ASSUME NEW h \in Heights PROVE RoundStart(h) \in Nat
  BY DEF Rounds
<1>1. h - 1 \in Nat
  BY ConfigAssumption DEF Heights
<1>2. (h - 1) \div RoundBlocks \in Nat
  BY <1>1, QuotientIsNat, ConfigAssumption
<1> QED
  BY <1>2, ProductIsNat, ConfigAssumption DEF RoundStart

(* The ends of rounds are naturals.                                        *)
LEMMA RoundEndIsNat ==
  ASSUME NEW r \in Rounds
  PROVE  RoundEnd(r) \in Nat
<1>1. r \div RoundBlocks \in Nat
  BY RoundsAreNat, QuotientIsNat, ConfigAssumption
<1> QED
  BY <1>1, ProductIsNat, ConfigAssumption DEF RoundEnd

(* The active round, read when Mining starts, is a round or Nil.           *)
LEMMA ActiveRoundType ==
  ASSUME NEW d \in Database
  PROVE  /\ active_round(d) \in Rounds \cup {Nil}
         /\ active_round(d) # Nil => IsNewest(d, active_round(d))
         /\ HasNewest(d) /\ active_round(d) = Nil => d.rounds = {}
<1>1. d.rounds \subseteq Rounds /\ Nil \notin Rounds
  BY RoundsAreNat, ConfigAssumption DEF Database
<1>2. CASE \E r \in d.rounds : IsNewest(d, r)
  <2>1. active_round(d) \in d.rounds /\ IsNewest(d, active_round(d))
    BY <1>2 DEF active_round
  <2> QED BY <1>1, <2>1
<1>3. CASE ~ \E r \in d.rounds : IsNewest(d, r)
  BY <1>3 DEF active_round, HasNewest
<1> QED BY <1>2, <1>3

(* The unprocessed round is a round with its end, or Nil.                  *)
LEMMA UnprocessedRoundType ==
  ASSUME NEW d \in Database
  PROVE  unprocessed_round(d) \in (Rounds \X Nat) \cup {Nil}
<1> DEFINE P(r) == IsFirstUnprocessed(d, r) /\ d.blockend[r] # Nil
<1>1. CASE \E r \in d.rounds : P(r)
  <2> DEFINE q == CHOOSE r \in d.rounds : P(r)
  <2>1. q \in d.rounds /\ P(q)
    BY <1>1
  <2>2. q \in Rounds /\ d.blockend[q] \in Nat
    BY <2>1 DEF Database
  <2>3. unprocessed_round(d) = <<q, d.blockend[q]>>
    BY <1>1 DEF unprocessed_round
  <2> HIDE DEF P, q
  <2> QED BY <2>2, <2>3
<1>2. CASE ~ \E r \in d.rounds : P(r)
  BY <1>2 DEF unprocessed_round
<1> QED BY <1>1, <1>2

(* Closing a round keeps the types of the tables.                          *)
LEMMA SetEndType ==
  ASSUME NEW d \in Database, NEW r \in Rounds
  PROVE  SetEnd(d, r) \in Database
  BY RoundEndIsNat DEF SetEnd, Database

(* Inserting a round keeps the types of the tables.                        *)
LEMMA InsertRoundType ==
  ASSUME NEW d \in Database, NEW r \in Rounds
  PROVE  InsertRound(d, r) \in Database
  BY DEF InsertRound, Database

(* Crediting a share keeps the types of the tables.                        *)
LEMMA AddSharesType ==
  ASSUME NEW d \in Database, NEW r \in Rounds, NEW a \in Addresses, NEW n \in Nat
  PROVE  AddShares(d, r, a, n) \in Database
<1>1. d.total[r] + n \in Nat /\ d.shares[r][a] + n \in Nat
  BY DEF Database, PerRow
<1>2. [d.total EXCEPT ![r] = @ + n] \in [Rounds -> Nat]
  BY <1>1 DEF Database
<1>3. [d.shares EXCEPT ![r][a] = @ + n] \in [Rounds -> [Addresses -> Nat]]
  <2>1. d.shares \in [Rounds -> [Addresses -> Nat]]
    BY DEF Database, PerRow
  <2>2. [d.shares[r] EXCEPT ![a] = @ + n] \in [Addresses -> Nat]
    BY <1>1, <2>1
  <2> QED BY <2>1, <2>2
<1> QED BY <1>2, <1>3 DEF AddShares, Database, PerRow

(* Storing transactions keeps the types of the tables.                     *)
LEMMA InsertTransactionsType ==
  ASSUME NEW d \in Database, NEW r \in Rounds, NEW sig \in [Addresses -> Nat]
  PROVE  InsertTransactions(d, r, sig) \in Database
<1> DEFINE row == [b \in Addresses |->
                     IF sig[b] # 0 /\ HasRow(d, r, b) THEN sig[b] ELSE d.tx[r][b]]
<1>1. d.tx \in [Rounds -> [Addresses -> Nat]]
  BY DEF Database, PerRow
<1>2. row \in [Addresses -> Nat]
  BY <1>1
<1>3. InsertTransactions(d, r, sig) = [d EXCEPT !.tx[r] = row]
  BY DEF InsertTransactions
<1> HIDE DEF row
<1>4. [d.tx EXCEPT ![r] = row] \in [Rounds -> [Addresses -> Nat]]
  BY <1>1, <1>2
<1>5. [d EXCEPT !.tx = [d.tx EXCEPT ![r] = row]] \in Database
  BY <1>4 DEF Database, PerRow
<1> QED BY <1>3, <1>5

(* Marking a round processed keeps the types of the tables.                *)
LEMMA SetProcessedType ==
  ASSUME NEW d \in Database, NEW r \in Rounds, NEW n \in Nat
  PROVE  SetProcessed(d, r, n) \in Database
  BY DEF SetProcessed, Database

(* Storing the owner's payout keeps the types of the tables.               *)
LEMMA InsertOwnerPayoutType ==
  ASSUME NEW d \in Database, NEW r \in Rounds
  PROVE  InsertOwnerPayout(d, r) \in Database
  BY DEF InsertOwnerPayout, Database

-------------------------------------------------------------------------------
(* Type correctness.                                                       *)

\* The types, and what the program counters say of the fields they guard.
TInv == TypeOK /\ WaitsAndRuns

(* The empty database has the right types.                                 *)
LEMMA EmptyDatabaseType == EmptyDatabase \in Database
  BY DEF EmptyDatabase, Database, NoRows, PerRow

(* roundprocessing_check sends rounds only.                                *)
LEMMA RoundProcessingType ==
  ASSUME NEW m \in MiningState, notify \in Seq(Rounds), roundprocessing_check(m)
  PROVE  mining' \in MiningState /\ notify' \in Seq(Rounds)
<1>1. CASE PayoutDue(m)
  <2>1. m.unprocessed \in Rounds \X Nat
    BY <1>1 DEF MiningState, PayoutDue
  <2> QED BY <1>1, <2>1 DEF roundprocessing_check
<1>2. CASE ~PayoutDue(m)
  BY <1>2 DEF roundprocessing_check
<1> QED BY <1>1, <1>2

(* Every step keeps the types.                                             *)
LEMMA TInvInductive == TInv /\ [Next]_vars => TInv'
<1> SUFFICES ASSUME TypeOK, WaitsAndRuns, [Next]_vars
             PROVE  TInv'
  BY DEF TInv
<1> USE DEF TInv
<1>1. CASE MiningInit
  <2>1. active_round(db) \in Rounds \cup {Nil} /\ unprocessed_round(db) \in (Rounds \X Nat) \cup {Nil}
    BY ActiveRoundType, UnprocessedRoundType DEF TypeOK
  <2>2. mining' \in MiningState /\ mining.pc' = "idle"
    BY <1>1, <2>1, ConfigAssumption DEF MiningInit, MiningState, TypeOK, Database
  <2> QED BY <1>1, <2>2 DEF MiningInit, TypeOK, WaitsAndRuns
<1>2. ASSUME NEW h \in Heights, NewHeight(h)
      PROVE  TInv'
  <2>0. h \in 0..MaxHeight
    BY ConfigAssumption DEF Heights
  <2>1. CASE SameRound(h)
    <3>1. [mining EXCEPT !.height = h] \in MiningState
      BY <2>0 DEF TypeOK, MiningState
    <3>2. mining' \in MiningState /\ notify' \in Seq(Rounds) /\ mining.pc' = "idle"
      BY <1>2, <2>1, <3>1, RoundProcessingType DEF SameRound, NewHeight, TypeOK, roundprocessing_check, MiningState
    <3>3. chainLength' \in 0..MaxHeight
      BY <1>2, ConfigAssumption DEF NewHeight, Heights, TypeOK
    <3> QED BY <1>2, <2>1, <3>2, <3>3 DEF NewHeight, SameRound, TypeOK, WaitsAndRuns
  <2>2. CASE EndRound(h)
    <3>1. mining' \in MiningState /\ mining.height' = h
      BY <2>0, <2>2 DEF EndRound, TypeOK, MiningState
    <3>2. db' \in Database
      BY <2>2, SetEndType DEF EndRound, TypeOK, MiningState
    <3>3. chainLength' \in 0..MaxHeight
      BY <1>2, ConfigAssumption DEF NewHeight, Heights, TypeOK
    <3> QED BY <1>2, <2>2, <3>1, <3>2, <3>3 DEF NewHeight, EndRound, TypeOK, WaitsAndRuns
  <2> QED BY <1>2, <2>1, <2>2 DEF NewHeight
<1>3. CASE InsertNewRound
  <2> DEFINE r == RoundStart(mining.height)
             started == [mining EXCEPT !.pc = "idle", !.round = r]
             m == IF mining.round = Nil THEN started
                  ELSE [started EXCEPT !.unprocessed = unprocessed_round(db'), !.total = 0]
  <2>1. r \in Rounds
    BY <1>3 DEF InsertNewRound, WaitsAndRuns, Rounds
  <2>2. db' \in Database
    BY <1>3, <2>1, InsertRoundType DEF InsertNewRound, TypeOK
  <2>3. unprocessed_round(db') \in (Rounds \X Nat) \cup {Nil}
    BY <2>2, UnprocessedRoundType
  <2>4. m \in MiningState /\ m.pc = "idle"
    BY <2>1, <2>3 DEF TypeOK, MiningState
  <2>5. roundprocessing_check(m)
    BY <1>3 DEF InsertNewRound
  <2> HIDE DEF m
  <2>6. mining' \in MiningState /\ notify' \in Seq(Rounds) /\ mining' = m
    BY <2>4, <2>5, RoundProcessingType DEF TypeOK, roundprocessing_check
  <2> QED BY <1>3, <2>2, <2>4, <2>6 DEF InsertNewRound, TypeOK, WaitsAndRuns
<1>4. ASSUME NEW a \in Addresses, NEW v \in ShareValues, AddShare(a, v)
      PROVE  TInv'
  <2>1. mining.round \in Rounds /\ v \in Nat
    BY <1>4, ConfigAssumption DEF AddShare, TypeOK, MiningState
  <2>2. db' \in Database
    BY <1>4, <2>1, AddSharesType DEF AddShare, TypeOK
  <2>3. db.total[mining.round] + v \in Nat
    BY <2>1 DEF TypeOK, Database
  <2>4. mining' \in MiningState /\ mining.pc' = "idle"
    BY <1>4, <2>3 DEF AddShare, TypeOK, MiningState
  <2> QED BY <1>4, <2>2, <2>4 DEF AddShare, TypeOK, WaitsAndRuns
<1>5. CASE ProcessedBlock
  <2>1. [mining EXCEPT !.unprocessed = unprocessed_round(db)] \in MiningState
    BY UnprocessedRoundType DEF TypeOK, MiningState
  <2>2. mining' \in MiningState /\ notify' \in Seq(Rounds) /\ mining.pc' = "idle"
    BY <1>5, <2>1, RoundProcessingType DEF ProcessedBlock, TypeOK, roundprocessing_check, MiningState
  <2>3. done' \in Nat
    BY <1>5 DEF ProcessedBlock, TypeOK
  <2> QED BY <1>5, <2>2, <2>3 DEF ProcessedBlock, TypeOK, WaitsAndRuns
<1>6. CASE Notify
  <2>1. Head(notify) \in Rounds /\ Tail(notify) \in Seq(Rounds)
    BY <1>6 DEF Notify, TypeOK
  <2>2. task' \in TaskState /\ (task.pc' # "none" => task.round' \in Rounds)
    BY <1>6, <2>1 DEF Notify, TypeOK, WaitsAndRuns, TaskState, NoTask
  <2> QED BY <1>6, <2>1, <2>2 DEF Notify, TypeOK, WaitsAndRuns
<1>7. PayoutRestart => task' \in TaskState /\ task.pc' = "none" /\ notify' \in Seq(Rounds)
  BY DEF PayoutRestart, NoTask, TaskState
<1>8. CASE TaskGetRound
  <2>1. CASE task.round \in db.rounds
    <3>1. db.total[task.round] \in Nat
      BY <2>1 DEF TypeOK, Database
    <3>2. task' \in TaskState /\ task.round' \in Rounds
      <4>1. db \in Database /\ task \in TaskState
        BY DEF TypeOK
      <4> QED BY <1>8, <2>1, <3>1, <4>1 DEF TaskGetRound, TaskState, Database
    <3> QED BY <1>8, <2>1, <3>2 DEF TaskGetRound, TypeOK, WaitsAndRuns
  <2>2. CASE task.round \notin db.rounds
    BY <1>7, <1>8, <2>2 DEF TaskGetRound, TypeOK, WaitsAndRuns
  <2> QED BY <2>1, <2>2
<1>9. ASSUME NEW b \in Balances, TaskBalance(b)
      PROVE  TInv'
  <2>1. task' \in TaskState /\ task.round' = task.round
    BY <1>9, ConfigAssumption DEF TaskBalance, TypeOK, TaskState
  <2> QED BY <1>9, <2>1 DEF TaskBalance, TypeOK, WaitsAndRuns
<1>10. CASE TaskNoBalance
  <2>1. task' \in TaskState /\ task.round' = task.round
    BY <1>10 DEF TaskNoBalance, TypeOK, TaskState
  <2> QED BY <1>10, <2>1 DEF TaskNoBalance, TypeOK, WaitsAndRuns
<1>11. CASE TaskGetShares
  <2> DEFINE r == task.round
             amount == [a \in Addresses |->
                          IF Unpaid(db, r, a)
                          THEN Payout(task.mined, db.shares[r][a], task.total) ELSE 0]
             signatures == [a \in Addresses |->
                              IF amount[a] > 0 THEN signed[r][a] + 1 ELSE signed[r][a]]
             sig == [a \in Addresses |-> IF amount[a] > 0 THEN signatures[a] ELSE 0]
  <2>1. r \in Rounds /\ task.mined \in Nat /\ task.total \in Nat
    BY <1>11 DEF TaskGetShares, WaitsAndRuns, TypeOK, TaskState
  <2>2. amount \in [Addresses -> Nat]
    <3>1. ASSUME NEW a \in Addresses
          PROVE  Payout(task.mined, db.shares[r][a], task.total) \in Nat
      <4>1. db.shares[r][a] \in Nat
        BY <2>1 DEF TypeOK, Database, PerRow
      <4> QED BY <2>1, <4>1, PayoutIsNat
    <3> QED BY <3>1
  <2> HIDE DEF amount
  <2>3. signatures \in [Addresses -> Nat]
    <3>1. \A a \in Addresses : signed[r][a] \in Nat
      BY <2>1 DEF TypeOK, PerRow
    <3> QED BY <2>2, <3>1
  <2> HIDE DEF signatures
  <2>4. sig \in [Addresses -> Nat]
    BY <2>3
  <2> HIDE DEF sig
  <2>5. /\ signed' = [signed EXCEPT ![r] = signatures]
        /\ task' = [task EXCEPT
                      !.pc = IF OwnerAmount(task.mined, amount) > 0 THEN "owner" ELSE "insert",
                      !.amount = amount, !.sig = sig]
        /\ UNCHANGED <<db, disk, dbUp, dbq, mining, chainLength, notify, done, broadcast, faults>>
    BY <1>11 DEF TaskGetShares, amount, signatures, sig
  <2>6. signed' \in PerRow(Nat)
    BY <2>1, <2>3, <2>5 DEF TypeOK, PerRow
  <2>7. task' \in TaskState /\ task.round' = task.round
    BY <2>2, <2>4, <2>5 DEF TypeOK, TaskState
  <2> QED BY <2>1, <2>5, <2>6, <2>7 DEF TypeOK, WaitsAndRuns
<1>12. ASSUME NEW pc, NEW msg \in Casts,
              NEW next \in {"insert", "setprocessed", "flush", "txs"},
              pc # "none", TaskCast(pc, msg, next)
       PROVE  TInv'
  <2>1. task' \in TaskState /\ task.round' = task.round
    BY <1>12 DEF TaskCast, TypeOK, TaskState
  <2>2. dbq' \in Seq(Casts)
    BY <1>12 DEF TaskCast, Cast, TypeOK
  <2> QED BY <1>12, <2>1, <2>2 DEF TaskCast, TypeOK, WaitsAndRuns
<1>13. CASE TaskInsertOwner
  <2>1. [type |-> "owner", round |-> task.round] \in Casts
    BY <1>13 DEF TaskInsertOwner, TaskCast, WaitsAndRuns, Casts, OwnerCast
  <2> QED BY <1>12, <1>13, <2>1 DEF TaskInsertOwner
<1>14. CASE TaskInsert
  <2>1. [type |-> "insert", round |-> task.round, sig |-> task.sig] \in Casts
    BY <1>14 DEF TaskInsert, TaskCast, WaitsAndRuns, Casts, InsertCast, TypeOK, TaskState
  <2> QED BY <1>12, <1>14, <2>1 DEF TaskInsert
<1>15. CASE TaskSetProcessed
  <2>1. [type |-> "setprocessed", round |-> task.round, mined |-> task.mined] \in Casts
    BY <1>15 DEF TaskSetProcessed, TaskCast, WaitsAndRuns, Casts, ProcessedCast, TypeOK, TaskState
  <2> QED BY <1>12, <1>15, <2>1 DEF TaskSetProcessed
<1>16. CASE TaskFlush
  <2>1. [type |-> "flush"] \in Casts
    BY DEF Casts, FlushCast
  <2> QED BY <1>12, <1>16, <2>1 DEF TaskFlush
<1>17. CASE TaskReadTransactions
  <2>1. StoredTransactions(db, task.round) \subseteq Transactions
    BY <1>17 DEF TaskReadTransactions, WaitsAndRuns, StoredTransactions, Transactions, TypeOK, Database, PerRow
  <2>2. task' \in TaskState /\ task.round' = task.round
    BY <1>17, <2>1 DEF TaskReadTransactions, TypeOK, TaskState
  <2> QED BY <1>17, <2>2 DEF TaskReadTransactions, TypeOK, WaitsAndRuns
<1>18. CASE TaskBroadcast
  <2>1. task' \in TaskState /\ task.round' = task.round
    BY <1>18 DEF TaskBroadcast, TypeOK, TaskState
  <2>2. broadcast' \subseteq Transactions
    BY <1>18 DEF TaskBroadcast, TypeOK, TaskState
  <2> QED BY <1>18, <2>1, <2>2 DEF TaskBroadcast, TypeOK, WaitsAndRuns
<1>19. CASE PayoutDone
  BY <1>19 DEF PayoutDone, NoTask, TaskState, TypeOK, WaitsAndRuns
<1>20. CASE DBHandlesCast
  <2>1. Head(dbq) \in Casts /\ Tail(dbq) \in Seq(Casts)
    BY <1>20 DEF DBHandlesCast, DBInsertOwnerPayout, DBInsertTransactions, DBSetProcessed,
                 DBFlush, HandleCast, TypeOK
  <2>2. db' \in Database /\ disk' \in Database
    <3>1. CASE DBInsertOwnerPayout
      <4>1. Head(dbq) \in OwnerCast
        BY <2>1, <3>1 DEF DBInsertOwnerPayout, HandleCast, Casts, OwnerCast, InsertCast,
                          ProcessedCast, FlushCast
      <4> QED BY <3>1, <4>1, InsertOwnerPayoutType DEF DBInsertOwnerPayout, OwnerCast, TypeOK
    <3>2. CASE DBInsertTransactions
      <4>1. Head(dbq) \in InsertCast
        BY <2>1, <3>2 DEF DBInsertTransactions, HandleCast, Casts, OwnerCast, InsertCast,
                          ProcessedCast, FlushCast
      <4>2. Head(dbq).round \in Rounds /\ Head(dbq).sig \in [Addresses -> Nat]
        BY <4>1 DEF InsertCast
      <4>3. InsertTransactions(db, Head(dbq).round, Head(dbq).sig) \in Database
        BY <4>2, InsertTransactionsType DEF TypeOK
      <4> QED BY <3>2, <4>3 DEF DBInsertTransactions, TypeOK
    <3>3. CASE DBSetProcessed
      <4>1. Head(dbq) \in ProcessedCast
        BY <2>1, <3>3 DEF DBSetProcessed, HandleCast, Casts, OwnerCast, InsertCast,
                          ProcessedCast, FlushCast
      <4>2. Head(dbq).round \in Rounds /\ Head(dbq).mined \in Nat
        BY <4>1 DEF ProcessedCast
      <4>3. SetProcessed(db, Head(dbq).round, Head(dbq).mined) \in Database
        BY <4>2, SetProcessedType DEF TypeOK
      <4> QED BY <3>3, <4>3 DEF DBSetProcessed, TypeOK
    <3>4. CASE DBFlush
      BY <3>4 DEF DBFlush, TypeOK
    <3> QED BY <1>20, <3>1, <3>2, <3>3, <3>4 DEF DBHandlesCast
  <2> QED BY <1>20, <2>1, <2>2 DEF DBHandlesCast, DBInsertOwnerPayout, DBInsertTransactions,
             DBSetProcessed, DBFlush, HandleCast, TypeOK, WaitsAndRuns
<1>21. CASE DBTimedFlush
  BY <1>21 DEF DBTimedFlush, TypeOK, WaitsAndRuns
<1>22. CASE DBInit
  BY <1>22 DEF DBInit, TypeOK, WaitsAndRuns
<1>23. MiningDown \in MiningState /\ MiningDown.pc = "down"
  BY ConfigAssumption DEF MiningDown, MiningState
<1>24. \A kind \in FaultKinds : Fault(kind) => faults' \in [n : 0..MaxFaults, outlived : BOOLEAN]
  <2>1. faults.outlived \in BOOLEAN /\ \A kind : Outlives(kind) \in BOOLEAN
    BY DEF TypeOK, Outlives
  <2>2. faults.n \in 0..MaxFaults
    BY DEF TypeOK
  <2>3. ASSUME NEW kind \in FaultKinds, Fault(kind)
        PROVE  faults' \in [n : 0..MaxFaults, outlived : BOOLEAN]
    <3>1. (faults.outlived \/ Outlives(kind)) \in BOOLEAN
      BY <2>1
    <3>2. faults.n + 1 \in 0..MaxFaults
      BY <2>2, <2>3, ConfigAssumption DEF Fault
    <3> QED BY <2>3, <3>1, <3>2 DEF Fault
  <2> QED BY <2>3
<1>25. CASE MiningCrashes
  BY <1>23, <1>24, <1>25 DEF MiningCrashes, MiningFails, FaultKinds, TypeOK, WaitsAndRuns
<1>26. CASE DBFails
  <2>1. <<>> \in Seq(Casts)
    OBVIOUS
  <2>2. db' \in Database /\ disk' \in Database /\ mining' \in MiningState /\ mining.pc' = "down"
    BY <1>23, <1>26 DEF DBFails, DBDown, TypeOK
  <2> QED BY <1>24, <1>26, <2>1, <2>2 DEF DBFails, DBDown, FaultKinds, TypeOK, WaitsAndRuns
<1>27. CASE PoolStops
  <2>1. <<>> \in Seq(Casts) /\ 0 \in 0..MaxHeight
    BY ConfigAssumption
  <2>2. db' \in Database /\ disk' \in Database /\ mining' \in MiningState /\ mining.pc' = "down"
    BY <1>23, <1>27 DEF PoolStops, DBDown, TypeOK
  <2> QED BY <1>7, <1>24, <1>27, <2>1, <2>2 DEF PoolStops, DBDown, FaultKinds, TypeOK, WaitsAndRuns
<1>28. CASE PayoutFails
  BY <1>7, <1>24, <1>28 DEF PayoutFails, FaultKinds, TypeOK, WaitsAndRuns
<1>29. CASE TaskCallFails
  BY <1>7, <1>29 DEF TaskCallFails, TypeOK, WaitsAndRuns
<1>30. CASE NodesFail
  BY <1>24, <1>30, ConfigAssumption DEF NodesFail, FaultKinds, TypeOK, WaitsAndRuns
<1>31. ASSUME NEW h \in Heights, HeightLost(h)
       PROVE  TInv'
  BY <1>31, ConfigAssumption DEF HeightLost, Heights, TypeOK, WaitsAndRuns
<1>32. CASE UNCHANGED vars
  BY <1>32 DEF vars, TypeOK, WaitsAndRuns
<1> QED
  BY <1>1, <1>2, <1>3, <1>4, <1>5, <1>6, <1>8, <1>9, <1>10, <1>11, <1>13, <1>14, <1>15,
     <1>16, <1>17, <1>18, <1>19, <1>20, <1>21, <1>22, <1>25, <1>26, <1>27, <1>28, <1>29,
     <1>30, <1>31, <1>32
  DEF Next, MiningNext, PayoutNext, DBNext, FaultNext

(* Every state of the system is of the types that TypeOK says.             *)
THEOREM TypeCorrect == Spec => []TypeOK
<1>1. Init => TInv
  BY EmptyDatabaseType, ConfigAssumption DEF Init, TInv, TypeOK, WaitsAndRuns, NoTask, TaskState,
     MiningDown, MiningState, NoRows, PerRow
<1>2. TInv => TypeOK
  BY DEF TInv
<1> QED
  BY <1>1, <1>2, TInvInductive, PTL DEF Spec

-------------------------------------------------------------------------------
(* Only the newest round is open.                                          *)

(* Statements that leave the rounds and their ends alone.                  *)
LEMMA RoundsKept ==
  ASSUME NEW d \in Database, NEW r, NEW a, NEW n, NEW sig,
         NEW e \in {AddShares(d, r, a, n), InsertTransactions(d, r, sig),
                    SetProcessed(d, r, n), InsertOwnerPayout(d, r)}
  PROVE  e.rounds = d.rounds /\ e.blockend = d.blockend
  BY DEF Database, AddShares, InsertTransactions, SetProcessed, InsertOwnerPayout

(* Closing the newest round and starting a later one keeps the older       *)
(* rounds closed and makes the new one the newest.                         *)
LEMMA InsertNewest ==
  ASSUME NEW d \in Database, NEW r \in Rounds, OnlyNewestOpen(d),
         \/ d.rounds = {}
         \/ \E q \in Rounds : IsNewest(d, q) /\ q < r /\ d.blockend[q] # Nil
  PROVE  IsNewest(InsertRound(d, r), r) /\ OnlyNewestOpen(InsertRound(d, r))
<1> DEFINE e == InsertRound(d, r)
<1>1. e.rounds = d.rounds \cup {r} /\ e.blockend = d.blockend
  BY DEF InsertRound, Database
<1>2. d.rounds \subseteq Nat /\ r \in Nat
  BY RoundsAreNat DEF Database
<1>3. \A q \in d.rounds : q < r /\ d.blockend[q] # Nil
  <2>1. CASE d.rounds = {}
    BY <2>1
  <2>2. ASSUME NEW q \in Rounds, IsNewest(d, q), q < r, d.blockend[q] # Nil
        PROVE  \A p \in d.rounds : p < r /\ d.blockend[p] # Nil
    <3> TAKE p \in d.rounds
    <3>1. p <= q /\ q \in d.rounds /\ q \in Nat /\ p \in Nat
      BY <1>2, <2>2 DEF IsNewest
    <3>2. p < r
      BY <1>2, <2>2, <3>1
    <3>3. d.blockend[p] # Nil
      <4>1. CASE p = q
        BY <2>2, <4>1
      <4>2. CASE p # q
        BY <3>1, <4>2 DEF OnlyNewestOpen
      <4> QED BY <4>1, <4>2
    <3> QED BY <3>2, <3>3
  <2> QED BY <2>1, <2>2
<1> HIDE DEF e
<1>4. IsNewest(e, r)
  BY <1>1, <1>2, <1>3 DEF IsNewest
<1>5. OnlyNewestOpen(e)
  BY <1>1, <1>2, <1>3 DEF OnlyNewestOpen
<1> QED BY <1>4, <1>5 DEF e

(* A step keeps the invariant of the rounds.                               *)
LEMMA RoundsInvInductive == TInv /\ RoundsInv /\ [Next]_vars => RoundsInv'
<1> SUFFICES ASSUME TypeOK, WaitsAndRuns, RoundsInv, [Next]_vars
             PROVE  RoundsInv'
  BY DEF TInv
<1>1. ASSUME UNCHANGED <<db, disk, dbUp, mining>>, dbUp \/ UNCHANGED dbq
      PROVE  RoundsInv'
  BY <1>1 DEF RoundsInv, DownIsDisk, MiningOnNewest, HasNewest, OnlyLastRoundOpen,
              OnlyNewestOpen, IsNewest
<1>2. ASSUME db'.rounds = db.rounds, db'.blockend = db.blockend, disk' \in {disk, db},
             dbUp, UNCHANGED <<dbUp, mining>>
      PROVE  RoundsInv'
  <2>1. HasNewest(db)' /\ OnlyNewestOpen(db)' /\ (\A r : IsNewest(db, r) => IsNewest(db, r)')
    BY <1>2 DEF RoundsInv, OnlyLastRoundOpen, HasNewest, OnlyNewestOpen, IsNewest
  <2>2. HasNewest(disk)' /\ OnlyNewestOpen(disk)'
    BY <1>2 DEF RoundsInv, OnlyLastRoundOpen
  <2>3. MiningOnNewest'
    BY <1>2, <2>1 DEF RoundsInv, MiningOnNewest
  <2> QED BY <1>2, <2>1, <2>2, <2>3 DEF RoundsInv, DownIsDisk, OnlyLastRoundOpen
<1>3. ASSUME UNCHANGED <<db, disk, dbUp, dbq>>,
             mining.pc = "idle", mining.pc' = "idle", mining.round' = mining.round
      PROVE  RoundsInv'
  BY <1>3 DEF RoundsInv, DownIsDisk, MiningOnNewest, HasNewest, OnlyLastRoundOpen,
              OnlyNewestOpen, IsNewest
<1>4. CASE MiningInit
  <2>1. mining.pc' = "idle" /\ mining.round' = active_round(db) /\ dbUp
        /\ UNCHANGED <<db, disk, dbUp, dbq>>
    BY <1>4 DEF MiningInit
  <2>2. IF mining.round' = Nil THEN db.rounds = {} ELSE IsNewest(db, mining.round')
    BY <2>1, ActiveRoundType DEF RoundsInv, TypeOK
  <2> QED
    BY <2>1, <2>2 DEF RoundsInv, DownIsDisk, MiningOnNewest, HasNewest, OnlyLastRoundOpen,
                      OnlyNewestOpen, IsNewest
<1>5. ASSUME NEW h \in Heights, NewHeight(h)
      PROVE  RoundsInv'
  <2>1. CASE SameRound(h)
    <3>1. mining' = [mining EXCEPT !.height = h] /\ UNCHANGED <<db, disk, dbUp, dbq>>
      BY <1>5, <2>1 DEF NewHeight, SameRound, roundprocessing_check
    <3>2. mining.pc = "idle" /\ mining.pc' = "idle" /\ mining.round' = mining.round
      BY <1>5, <3>1 DEF NewHeight, TypeOK, MiningState
    <3> QED BY <1>3, <3>1, <3>2
  <2>2. CASE EndRound(h)
    <3>1. /\ mining.pc = "idle" /\ mining.pc' = "wallet"
          /\ mining.round' = mining.round /\ mining.height' = h
          /\ mining.round # Nil => mining.round < RoundStart(h)
          /\ UNCHANGED <<disk, dbUp, dbq>> /\ dbUp
      BY <1>5, <2>2 DEF NewHeight, EndRound, TypeOK, MiningState, RoundsInv, DownIsDisk
    <3>2. CASE mining.round = Nil
      <4>1. db' = db
        BY <2>2, <3>2 DEF EndRound
      <4> QED
        BY <3>1, <3>2, <4>1 DEF RoundsInv, DownIsDisk, MiningOnNewest, HasNewest,
           OnlyLastRoundOpen, OnlyNewestOpen, IsNewest
    <3>3. CASE mining.round # Nil
      <4>1. IsNewest(db, mining.round) /\ mining.round \in Rounds
        BY <3>1, <3>3 DEF RoundsInv, MiningOnNewest, TypeOK, MiningState
      <4>2. db' = [db EXCEPT !.blockend[mining.round] = RoundEnd(mining.round)]
        BY <2>2, <3>3, <4>1 DEF EndRound, SetEnd, IsNewest
      <4>3. /\ db'.rounds = db.rounds
            /\ db'.blockend = [db.blockend EXCEPT ![mining.round] = RoundEnd(mining.round)]
            /\ db.blockend \in [Rounds -> Nat \cup {Nil}]
        BY <4>2 DEF TypeOK, Database
      <4>4. RoundEnd(mining.round) # Nil
        BY <4>1, RoundEndIsNat, ConfigAssumption
      <4>5. HasNewest(db)' /\ IsNewest(db, mining.round)'
        BY <3>1, <4>1, <4>3 DEF HasNewest, IsNewest
      <4>6. OnlyNewestOpen(db)'
        BY <4>3, <4>4 DEF RoundsInv, OnlyLastRoundOpen, OnlyNewestOpen, TypeOK, Database
      <4>7. MiningOnNewest'
        <5>1. db'.blockend[mining.round] = RoundEnd(mining.round)
          BY <4>1, <4>3
        <5>2. mining.round' = mining.round /\ mining.height' = h /\ mining.pc' = "wallet"
          BY <3>1
        <5>3. mining.round < RoundStart(h)
          BY <3>1, <3>3
        <5> QED BY <3>3, <4>4, <4>5, <5>1, <5>2, <5>3 DEF MiningOnNewest
      <4>8. HasNewest(disk)' /\ OnlyNewestOpen(disk)'
        BY <3>1 DEF RoundsInv, OnlyLastRoundOpen, HasNewest, OnlyNewestOpen, IsNewest
      <4> QED BY <3>1, <4>5, <4>6, <4>7, <4>8 DEF RoundsInv, DownIsDisk, OnlyLastRoundOpen
    <3> QED BY <3>2, <3>3
  <2> QED BY <1>5, <2>1, <2>2 DEF NewHeight
<1>6. CASE InsertNewRound
  <2> DEFINE r == RoundStart(mining.height)
  <2>1. r \in Rounds
    BY <1>6 DEF InsertNewRound, WaitsAndRuns, Rounds
  <2>2. mining.pc' = "idle" /\ mining.round' = r /\ db' = InsertRound(db, r)
        /\ UNCHANGED <<disk, dbUp, dbq>> /\ dbUp
    BY <1>6 DEF InsertNewRound, roundprocessing_check, TypeOK, MiningState, RoundsInv, DownIsDisk
  <2>3. \/ db.rounds = {}
        \/ \E q \in Rounds : IsNewest(db, q) /\ q < r /\ db.blockend[q] # Nil
    BY <1>6 DEF InsertNewRound, RoundsInv, MiningOnNewest, TypeOK, MiningState
  <2>4. IsNewest(db', r) /\ OnlyNewestOpen(db')
    BY <2>1, <2>2, <2>3, InsertNewest DEF RoundsInv, OnlyLastRoundOpen, TypeOK
  <2>5. HasNewest(db') /\ r # Nil
    BY <2>1, <2>4, RoundsAreNat, ConfigAssumption DEF HasNewest, IsNewest
  <2> HIDE DEF r
  <2> QED
    BY <2>2, <2>4, <2>5 DEF RoundsInv, DownIsDisk, MiningOnNewest, OnlyLastRoundOpen
<1>7. ASSUME NEW a \in Addresses, NEW v \in ShareValues, AddShare(a, v)
      PROVE  RoundsInv'
  <2>1. db'.rounds = db.rounds /\ db'.blockend = db.blockend
    BY <1>7 DEF AddShare, AddShares, TypeOK, Database
  <2>2. mining.pc = "idle" /\ mining.pc' = "idle" /\ mining.round' = mining.round
        /\ UNCHANGED <<disk, dbUp, dbq>> /\ dbUp
    BY <1>7 DEF AddShare, TypeOK, MiningState, RoundsInv, DownIsDisk
  <2>3. HasNewest(db)' /\ OnlyNewestOpen(db)' /\ (\A r : IsNewest(db, r) => IsNewest(db, r)')
    BY <2>1 DEF RoundsInv, OnlyLastRoundOpen, HasNewest, OnlyNewestOpen, IsNewest
  <2> QED
    BY <2>1, <2>2, <2>3 DEF RoundsInv, DownIsDisk, MiningOnNewest, OnlyLastRoundOpen
<1>8. CASE ProcessedBlock
  <2>1. mining' = [mining EXCEPT !.unprocessed = unprocessed_round(db)]
        /\ mining.pc = "idle" /\ UNCHANGED <<db, disk, dbUp, dbq>>
    BY <1>8 DEF ProcessedBlock, roundprocessing_check
  <2>2. mining.pc' = "idle" /\ mining.round' = mining.round
    BY <2>1 DEF TypeOK, MiningState
  <2> QED BY <1>3, <2>1, <2>2
<1>9. CASE PayoutNext \/ UNCHANGED vars
  <2>1. UNCHANGED <<db, disk, dbUp, mining>> /\ (dbUp \/ UNCHANGED dbq)
    BY <1>9 DEF PayoutNext, Notify, TaskGetRound, TaskNoBalance, TaskGetShares, TaskBalance,
       TaskInsertOwner, TaskInsert, TaskSetProcessed, TaskFlush, TaskCast, Cast,
       TaskReadTransactions, TaskBroadcast, PayoutDone, vars
  <2> QED BY <1>1, <2>1
<1>10. CASE DBHandlesCast
  <2>1. dbUp /\ UNCHANGED <<dbUp, mining>> /\ disk' \in {disk, db}
        /\ db'.rounds = db.rounds /\ db'.blockend = db.blockend
    <3>1. db \in Database
      BY DEF TypeOK
    <3>2. CASE DBInsertOwnerPayout \/ DBInsertTransactions
      BY <3>1, <3>2, RoundsKept DEF DBInsertOwnerPayout, DBInsertTransactions, HandleCast
    <3>3. CASE DBSetProcessed \/ DBFlush
      BY <3>1, <3>3, RoundsKept DEF DBSetProcessed, DBFlush, HandleCast
    <3> QED BY <1>10, <3>2, <3>3 DEF DBHandlesCast
  <2> QED BY <1>2, <2>1
<1>11. CASE DBTimedFlush
  <2>1. dbUp /\ UNCHANGED <<db, dbUp, mining>> /\ disk' \in {disk, db}
    BY <1>11 DEF DBTimedFlush
  <2> QED BY <1>2, <2>1
<1>12. ASSUME db' = disk, UNCHANGED disk, mining.pc' = "down", ~dbUp' => dbq' = <<>>
       PROVE  RoundsInv'
  BY <1>12 DEF RoundsInv, DownIsDisk, MiningOnNewest, HasNewest, OnlyLastRoundOpen,
               OnlyNewestOpen, IsNewest
<1>13. CASE DBInit
  <2>1. db' = disk /\ UNCHANGED disk /\ mining.pc' = "down" /\ dbUp'
    BY <1>13 DEF DBInit, RoundsInv, DownIsDisk
  <2> QED BY <1>12, <2>1
<1>14. CASE MiningCrashes
  <2>1. UNCHANGED <<db, disk, dbUp, dbq>> /\ mining.pc' = "down"
    BY <1>14 DEF MiningCrashes, MiningFails, MiningDown
  <2> QED
    BY <2>1 DEF RoundsInv, DownIsDisk, MiningOnNewest, HasNewest, OnlyLastRoundOpen,
                OnlyNewestOpen, IsNewest
<1>15. CASE DBFails \/ PoolStops
  <2>1. db' = disk /\ UNCHANGED disk /\ mining.pc' = "down" /\ dbq' = <<>>
    BY <1>15 DEF DBFails, PoolStops, DBDown, MiningDown
  <2> QED BY <1>12, <2>1
<1>16. CASE PayoutFails \/ TaskCallFails \/ NodesFail \/ \E h \in Heights : HeightLost(h)
  <2>1. UNCHANGED <<db, disk, dbUp, dbq, mining>>
    BY <1>16 DEF PayoutFails, TaskCallFails, NodesFail, HeightLost
  <2> QED BY <1>1, <2>1
<1> QED
  BY <1>4, <1>5, <1>6, <1>7, <1>8, <1>9, <1>10, <1>11, <1>13, <1>14, <1>15, <1>16
  DEF Next, MiningNext, DBNext, FaultNext

(* The rounds' invariant holds from the start.                             *)
THEOREM RoundsCorrect == Spec => [](TInv /\ RoundsInv)
<1>1. Init => TInv
  BY EmptyDatabaseType, ConfigAssumption DEF Init, TInv, TypeOK, WaitsAndRuns, NoTask, TaskState,
     MiningDown, MiningState, NoRows, PerRow
<1>2. Init => RoundsInv
  BY DEF Init, RoundsInv, DownIsDisk, MiningOnNewest, MiningDown, HasNewest, OnlyLastRoundOpen,
         OnlyNewestOpen, EmptyDatabase
<1> QED
  BY <1>1, <1>2, TInvInductive, RoundsInvInductive, PTL DEF Spec

(* Only the newest round is ever open, in memory and on disk.              *)
THEOREM RoundsClosedInOrder == Spec => []OnlyLastRoundOpen
<1>1. RoundsInv => OnlyLastRoundOpen
  BY DEF RoundsInv
<1> QED
  BY <1>1, RoundsCorrect, PTL

-------------------------------------------------------------------------------
(* The amounts of a round add up.                                          *)

\* The column total of a round is the sum of its rows, and a round that is
\* not there has no shares.
TotalsOf(d) ==
  \A r \in Rounds : /\ d.total[r] = SumFunction(d.shares[r])
                    /\ r \notin d.rounds => d.total[r] = 0
SumsInv == /\ TotalsOf(db) /\ TotalsOf(disk)
           /\ mining.total = IF mining.round = Nil THEN 0 ELSE db.total[mining.round]
           /\ mining.pc = "down" => mining.round = Nil

(* No shares add up to nothing.                                            *)
LEMMA SumOfZeros == SumFunction([a \in Addresses |-> 0]) = 0
<1> DEFINE z == [a \in Addresses |-> 0]
<1>1. SumFunctionOnSet(z, Addresses) \in Int
  BY FiniteAssumption, SumIsInt
<1>2. \A a \in Addresses : z[a] \in Int /\ 1 * z[a] <= 0 * z[a] /\ 1 * z[a] <= 1 * z[a]
                           /\ 0 * z[a] <= 1 * z[a]
  OBVIOUS
<1> HIDE DEF z
<1>3. 1 * SumFunctionOnSet(z, Addresses) <= 0 * SumFunctionOnSet(z, Addresses)
  BY <1>2, FiniteAssumption, SumScaled
<1>4. 0 * SumFunctionOnSet(z, Addresses) <= 1 * SumFunctionOnSet(z, Addresses)
  BY <1>2, FiniteAssumption, SumScaled
<1>5. SumFunctionOnSet(z, Addresses) = 0
  BY <1>1, <1>3, <1>4
<1> QED BY <1>5 DEF SumFunction, z

(* A share raises the total of its round and the sum of the rows alike.    *)
LEMMA AddSharesTotals ==
  ASSUME NEW d \in Database, TotalsOf(d),
         NEW r \in d.rounds, NEW a \in Addresses, NEW v \in Nat
  PROVE  TotalsOf(AddShares(d, r, a, v)) /\ AddShares(d, r, a, v).total[r] = d.total[r] + v
<1> DEFINE e == AddShares(d, r, a, v)
<1>1. r \in Rounds /\ d.shares \in [Rounds -> [Addresses -> Nat]] /\ d.total \in [Rounds -> Nat]
  BY DEF Database, PerRow
<1>2. /\ e.rounds = d.rounds /\ e.total = [d.total EXCEPT ![r] = d.total[r] + v]
      /\ e.shares = [d.shares EXCEPT ![r] = [d.shares[r] EXCEPT ![a] = d.shares[r][a] + v]]
  BY <1>1 DEF AddShares, Database
<1> HIDE DEF e
<1>3. ASSUME NEW q \in Rounds
      PROVE  /\ e.total[q] = SumFunction(e.shares[q])
             /\ q \notin e.rounds => e.total[q] = 0
  <2>1. CASE q = r
    <3>1. d.shares[r] \in [Addresses -> Int] /\ d.shares[r][a] \in Nat
      BY <1>1
    <3>2. SumFunction([d.shares[r] EXCEPT ![a] = d.shares[r][a] + v])
            = SumFunction(d.shares[r]) - d.shares[r][a] + (d.shares[r][a] + v)
      BY <3>1, FiniteAssumption, SumUpdate
    <3>3. d.total[r] = SumFunction(d.shares[r]) /\ d.total[r] \in Nat
      BY <1>1 DEF TotalsOf
    <3>4. SumFunction(e.shares[q]) = d.total[r] + v
      BY <1>1, <1>2, <2>1, <3>1, <3>2, <3>3
    <3> QED BY <1>1, <1>2, <2>1, <3>4
  <2>2. CASE q # r
    BY <1>1, <1>2, <2>2 DEF TotalsOf
  <2> QED BY <2>1, <2>2
<1>4. e.total[r] = d.total[r] + v
  BY <1>1, <1>2
<1> QED BY <1>3, <1>4 DEF TotalsOf, e

(* A step keeps the totals.                                                *)
LEMMA SumsInvInductive == TInv /\ RoundsInv /\ SumsInv /\ [Next]_vars => SumsInv'
<1> SUFFICES ASSUME TypeOK, WaitsAndRuns, RoundsInv, SumsInv, [Next]_vars
             PROVE  SumsInv'
  BY DEF TInv
<1> USE DEF SumsInv
\* Steps that leave the shares and Mining's round alone.
<1>1. ASSUME db'.rounds = db.rounds, db'.total = db.total, db'.shares = db.shares,
             disk' \in {disk, db}, mining'.total = mining.total, mining'.round = mining.round,
             mining'.pc = mining.pc \/ mining'.pc # "down"
      PROVE  SumsInv'
  BY <1>1 DEF TotalsOf
\* Steps in which Mining stops.
<1>2. ASSUME db' \in {db, disk}, UNCHANGED disk, mining' = MiningDown
      PROVE  SumsInv'
  BY <1>2 DEF TotalsOf, MiningDown
<1>3. CASE MiningInit
  <2>1. /\ UNCHANGED <<db, disk>> /\ mining.pc' = "idle" /\ mining.round' = active_round(db)
        /\ mining.total' = IF active_round(db) = Nil THEN 0 ELSE db.total[active_round(db)]
    BY <1>3 DEF MiningInit
  <2> QED BY <2>1 DEF TotalsOf
<1>4. ASSUME NEW h \in Heights, NewHeight(h)
      PROVE  SumsInv'
  <2>1. CASE SameRound(h)
    BY <1>1, <1>4, <2>1 DEF NewHeight, SameRound, roundprocessing_check, TypeOK, MiningState
  <2>2. CASE EndRound(h)
    <3>1. db'.rounds = db.rounds /\ db'.total = db.total /\ db'.shares = db.shares
      BY <2>2 DEF EndRound, SetEnd, TypeOK, Database
    <3> QED BY <1>1, <1>4, <2>2, <3>1 DEF NewHeight, EndRound, TypeOK, MiningState
  <2> QED BY <1>4, <2>1, <2>2 DEF NewHeight
<1>5. CASE InsertNewRound
  <2> DEFINE r == RoundStart(mining.height)
  <2>1. r \in Rounds
    BY <1>5 DEF InsertNewRound, WaitsAndRuns, Rounds
  <2>2. /\ db' = InsertRound(db, r) /\ UNCHANGED disk
        /\ mining.pc' = "idle" /\ mining.round' = r
        /\ mining.total' = IF mining.round = Nil THEN mining.total ELSE 0
    BY <1>5 DEF InsertNewRound, roundprocessing_check, TypeOK, MiningState
  <2>3. r \notin db.rounds
    <3>1. CASE mining.round = Nil
      BY <1>5, <3>1 DEF InsertNewRound, RoundsInv, MiningOnNewest
    <3>2. CASE mining.round # Nil
      <4>1. IsNewest(db, mining.round) /\ mining.round < r
        BY <1>5, <3>2 DEF InsertNewRound, RoundsInv, MiningOnNewest
      <4>2. r \in Nat /\ mining.round \in Nat
        BY <2>1, <4>1, RoundsAreNat DEF IsNewest, TypeOK, Database
      <4>3. ~(r <= mining.round)
        BY <4>1, <4>2
      <4> QED BY <4>1, <4>3 DEF IsNewest
    <3> QED BY <3>1, <3>2
  <2>4. r # Nil
    BY <2>1, RoundsAreNat, ConfigAssumption
  <2>5. mining.total' = 0 /\ db.total[r] = 0
    BY <2>1, <2>2, <2>3 DEF TotalsOf
  <2>6. db'.rounds = db.rounds \cup {r} /\ db'.total = db.total /\ db'.shares = db.shares
    BY <2>2 DEF InsertRound, TypeOK, Database
  <2> HIDE DEF r
  <2> QED BY <2>2, <2>4, <2>5, <2>6 DEF TotalsOf
<1>6. ASSUME NEW a \in Addresses, NEW v \in ShareValues, AddShare(a, v)
      PROVE  SumsInv'
  <2>1. /\ v \in Nat /\ mining.round # Nil /\ mining.round \in db.rounds
        /\ db' = AddShares(db, mining.round, a, v) /\ UNCHANGED disk
        /\ mining.total' = db.total[mining.round] + v
        /\ mining.round' = mining.round /\ mining.pc' = mining.pc
    BY <1>6, ConfigAssumption DEF AddShare, RoundsInv, MiningOnNewest, IsNewest, TypeOK, MiningState
  <2>2. TotalsOf(db') /\ db'.total[mining.round] = db.total[mining.round] + v
    BY <2>1, AddSharesTotals DEF TypeOK
  <2> QED BY <1>6, <2>1, <2>2 DEF TotalsOf, AddShare
<1>7. CASE ProcessedBlock
  BY <1>1, <1>7 DEF ProcessedBlock, roundprocessing_check, TypeOK, MiningState
<1>8. CASE PayoutNext \/ UNCHANGED vars
  <2>1. UNCHANGED <<db, disk, mining>>
    BY <1>8 DEF PayoutNext, Notify, TaskGetRound, TaskNoBalance, TaskGetShares, TaskBalance,
       TaskInsertOwner, TaskInsert, TaskSetProcessed, TaskFlush, TaskCast,
       TaskReadTransactions, TaskBroadcast, PayoutDone, vars
  <2> QED BY <1>1, <2>1
<1>9. CASE DBHandlesCast
  <2>1. UNCHANGED mining /\ disk' \in {disk, db}
    BY <1>9 DEF DBHandlesCast, DBInsertOwnerPayout, DBInsertTransactions,
       DBSetProcessed, DBFlush, HandleCast
  <2>2. db'.rounds = db.rounds /\ db'.total = db.total /\ db'.shares = db.shares
    BY <1>9 DEF DBHandlesCast, DBInsertOwnerPayout, DBInsertTransactions, DBSetProcessed, DBFlush,
       InsertOwnerPayout, InsertTransactions, SetProcessed, TypeOK, Database
  <2> QED BY <1>1, <2>1, <2>2
<1>10. CASE DBTimedFlush
  BY <1>1, <1>10 DEF DBTimedFlush
<1>11. CASE DBInit
  <2>1. UNCHANGED <<db, disk, mining>>
    BY <1>11 DEF DBInit, RoundsInv, DownIsDisk
  <2> QED BY <1>1, <2>1
<1>12. CASE MiningCrashes \/ DBFails \/ PoolStops
  BY <1>2, <1>12 DEF MiningCrashes, MiningFails, DBFails, PoolStops, DBDown
<1>13. CASE PayoutFails \/ TaskCallFails \/ NodesFail \/ \E h \in Heights : HeightLost(h)
  <2>1. UNCHANGED <<db, disk, mining>>
    BY <1>13 DEF PayoutFails, TaskCallFails, NodesFail, HeightLost
  <2> QED BY <1>1, <2>1
<1> QED
  BY <1>3, <1>4, <1>5, <1>6, <1>7, <1>8, <1>9, <1>10, <1>11, <1>12, <1>13
  DEF Next, MiningNext, DBNext, FaultNext

(* The totals of the rounds are right whatever fails.                      *)
THEOREM TotalsCorrect == Spec => [](TInv /\ RoundsInv /\ SumsInv)
<1>1. Init => SumsInv
  <2> SUFFICES ASSUME Init PROVE SumsInv
    OBVIOUS
  <2>1. TotalsOf(EmptyDatabase)
    BY SumOfZeros DEF TotalsOf, EmptyDatabase, NoRows
  <2> QED BY <2>1 DEF Init, SumsInv, MiningDown
<1>2. TInv /\ RoundsInv /\ SumsInv /\ [Next]_vars => SumsInv'
  BY SumsInvInductive
<1> QED BY <1>1, <1>2, RoundsCorrect, PTL DEF Spec

(* The share total the miners see is the sum of the rows of their round,   *)
(* for every number of miners and across restarts of every part.           *)
THEOREM TotalIsSum == Spec => []ShareTotals
<1>1. TInv /\ RoundsInv /\ SumsInv => ShareTotals
  <2> SUFFICES ASSUME TypeOK, SumsInv, mining.round # Nil
               PROVE  mining.total = SumFunction(db.shares[mining.round])
    BY DEF TInv, ShareTotals
  <2>1. mining.round \in Rounds
    BY DEF TypeOK, MiningState
  <2> QED BY <2>1 DEF SumsInv, TotalsOf
<1> QED BY <1>1, TotalsCorrect, PTL

-------------------------------------------------------------------------------
(* What the transactions of a round take.                                  *)

(* The divisor is at least the share total, and with the fee's percentage  *)
(* at least a hundred times the total, so the participants' part is never  *)
(* exceeded by the rounding.                                               *)
LEMMA DivisorCovers ==
  ASSUME NEW total \in Nat
  PROVE  /\ Divisor(total) \in Nat \ {0} /\ total <= Divisor(total)
         /\ 100 * total <= (100 - Fee) * Divisor(total)
<1> DEFINE c == 100 - Fee
           q == (200 * total + c) \div (2 * c)
<1>1. c \in 50..100 /\ 200 * total + c \in Nat /\ 2 * c \in Nat \ {0}
  BY FeeAssumption
<1>2. q \in Nat
  BY <1>1, QuotientIsNat
<1>3. 200 * total + c < 2 * c * (q + 1)
  BY <1>1
<1>4. Divisor(total) = 1 + q
  BY DEF Divisor
<1> HIDE DEF q
<1> DEFINE cd == c * (q + 1)
<1>5. cd \in Nat /\ 2 * c * (q + 1) = 2 * cd
  BY <1>1, <1>2, ProductIsNat
<1>6. cd <= 100 * (q + 1)
  BY <1>1, <1>2
<1> HIDE DEF c, cd
<1>7. 100 * total <= cd
  BY <1>1, <1>3, <1>5
<1>8. 100 * total <= 100 * (q + 1)
  BY <1>2, <1>5, <1>6, <1>7
<1> QED BY <1>2, <1>4, <1>7, <1>8 DEF c, cd

(* A product with a positive factor on both sides can be divided by it.    *)
LEMMA CancelFactor ==
  ASSUME NEW d \in Nat \ {0}, NEW a \in Int, NEW b \in Int, d * a <= d * b
  PROVE  a <= b
<1> SUFFICES ASSUME b < a PROVE FALSE
  OBVIOUS
<1>1. d * (a - b) > 0 /\ d * (a - b) = d * a - d * b
  BY SMT
<1>2. d * a \in Int /\ d * b \in Int
  OBVIOUS
<1> QED BY <1>1, <1>2

(* The transactions of a round, each with its fee, stay within the         *)
(* participants' part of the mined balance, whatever rows are left out.    *)
LEMMA PayoutsWithinPart ==
  ASSUME NEW S, IsFiniteSet(S), NEW shares \in [S -> Nat], NEW mined \in Nat,
         NEW amount \in [S -> Nat],
         \A a \in S : amount[a] \in {0, Payout(mined, shares[a], SumFunction(shares))}
  PROVE  /\ PayoutSum(amount) \in Nat /\ PayoutSum(amount) <= mined
         /\ 100 * PayoutSum(amount) <= (100 - Fee) * mined
<1> DEFINE total == SumFunction(shares)
           D == Divisor(total)
           e == [a \in S |-> IF amount[a] > 0 THEN amount[a] + TxFee ELSE 0]
           c == 100 - Fee
           p == SumFunction(e)
<1>1. total = SumFunctionOnSet(shares, S) /\ total \in Nat
  BY SumIsNat DEF SumFunction
<1>2. p = SumFunctionOnSet(e, S) /\ PayoutSum(amount) = p /\ \A a \in S : e[a] \in Nat
  BY DEF SumFunction, PayoutSum, TxFee
<1>3. p \in Nat
  BY <1>2, SumIsNat
<1>4. D \in Nat \ {0} /\ total <= D /\ 100 * total <= c * D
  BY <1>1, DivisorCovers
<1>5. ASSUME NEW a \in S
      PROVE  D * e[a] <= mined * shares[a]
  <2> DEFINE m == mined * shares[a]
  <2>1. m \in Nat
    BY ProductIsNat
  <2>2. CASE amount[a] > 0
    <3>1. amount[a] = (m \div D) - 1
      <4>1. amount[a] = Payout(mined, shares[a], total)
        BY <2>2
      <4> HIDE DEF total
      <4> QED BY <2>2, <4>1 DEF Payout
    <3>2. e[a] = amount[a] + 1
      BY <2>2 DEF TxFee
    <3> HIDE DEF m, D, e
    <3>3. m \div D \in Nat /\ D * (m \div D) <= m
      BY <1>4, <2>1
    <3>4. e[a] = m \div D
      BY <3>1, <3>2, <3>3
    <3> QED BY <3>3, <3>4 DEF m
  <2>3. CASE ~(amount[a] > 0)
    <3>1. e[a] = 0
      BY <2>3
    <3> HIDE DEF D, e
    <3> QED BY <1>4, <2>1, <3>1
  <2> QED BY <2>2, <2>3
<1>6. D * p <= mined * total
  <2>1. \A a \in S : shares[a] \in Int /\ e[a] \in Int /\ D * e[a] <= mined * shares[a]
    BY <1>2, <1>5
  <2> HIDE DEF D, e
  <2> QED BY <1>1, <1>2, <1>4, <2>1, SumScaled
<1> HIDE DEF total, D, e, p
<1>7. c \in Nat
  BY FeeAssumption
<1> HIDE DEF c
<1>8. mined * total <= mined * D /\ mined * D = D * mined
  BY <1>1, <1>4
<1>9. mined * (100 * total) <= mined * (c * D)
  BY <1>1, <1>4, <1>7
<1>10. mined * (100 * total) = 100 * (mined * total) /\ mined * (c * D) = D * (c * mined)
       /\ D * (100 * p) = 100 * (D * p)
  BY <1>1, <1>3, <1>4, <1>7
<1>11. mined * total \in Nat /\ D * p \in Nat /\ D * mined \in Nat /\ c * mined \in Nat
       /\ D * (c * mined) \in Nat
  BY <1>1, <1>3, <1>4, <1>7, ProductIsNat
<1>12. D * p <= D * mined
  BY <1>6, <1>8, <1>11
<1>13. D * (100 * p) <= D * (c * mined)
  BY <1>6, <1>9, <1>10, <1>11
<1>14. p <= mined
  BY <1>3, <1>4, <1>12, CancelFactor
<1>15. 100 * p <= c * mined
  BY <1>3, <1>4, <1>11, <1>13, CancelFactor
<1> QED BY <1>2, <1>3, <1>14, <1>15 DEF c

-------------------------------------------------------------------------------
(* The payout of one round, for every distribution and balance.            *)

(* The divisor is above the total, by less than a hundredth of 150 when    *)
(* both are taken with the fee's percentage.                               *)
LEMMA DivisorClose ==
  ASSUME NEW total \in Nat
  PROVE  total + 1 <= Divisor(total) /\ (100 - Fee) * Divisor(total) <= 100 * total + 150
<1> DEFINE c == 100 - Fee
           n == 200 * total + c
           q == n \div (2 * c)
<1>1. c \in 50..100 /\ n \in Nat /\ 2 * c \in Nat \ {0}
  BY FeeAssumption
<1>2. q \in Nat
  BY <1>1, QuotientIsNat
<1>3. n < 2 * c * (q + 1) /\ 2 * c * q <= n
  <2> DEFINE d == 2 * c
  <2>1. d \in Nat \ {0} /\ n \in Nat
    BY <1>1
  <2> HIDE DEF d, n
  <2>2. n < d * ((n \div d) + 1) /\ d * (n \div d) <= n
    BY <2>1
  <2> QED BY <2>2 DEF d
<1>4. Divisor(total) = 1 + q
  BY DEF Divisor
<1> HIDE DEF q
<1> DEFINE cq == c * q
<1>5. cq \in Nat /\ 2 * c * (q + 1) = 2 * cq + 2 * c /\ 2 * c * q = 2 * cq /\ c * (1 + q) = cq + c
  BY <1>1, <1>2, ProductIsNat
<1>6. cq <= 100 * q
  BY <1>1, <1>2
<1> HIDE DEF c, cq
<1>7. n = 200 * total + c
  OBVIOUS
<1> HIDE DEF n
<1>8. cq + c <= 100 * total + 150
  BY <1>1, <1>3, <1>5, <1>7
<1>9. 200 * total < 200 * q + c
  BY <1>1, <1>2, <1>3, <1>5, <1>6, <1>7
<1>10. total <= q
  BY <1>1, <1>2, <1>9
<1> QED BY <1>2, <1>4, <1>5, <1>8, <1>10 DEF c

(* A payout is the quotient less one leaf, or nothing.                     *)
LEMMA PayoutNearQuotient ==
  ASSUME NEW mined \in Nat, NEW amount \in Nat, NEW total \in Nat
  PROVE  \E q \in Nat :
           /\ q * Divisor(total) <= mined * amount /\ mined * amount < (q + 1) * Divisor(total)
           /\ Payout(mined, amount, total) \in {0, q - 1} /\ Payout(mined, amount, total) >= q - 1
<1> DEFINE m == mined * amount
           D == Divisor(total)
           q == m \div D
<1>1. m \in Nat /\ D \in Nat \ {0}
  BY ProductIsNat, DivisorCovers
<1>2. Payout(mined, amount, total) = IF q - 1 > 0 THEN q - 1 ELSE 0
  BY DEF Payout
<1> HIDE DEF m, D
<1>3. q \in Nat /\ q * D <= m /\ m < (q + 1) * D
  BY <1>1
<1> HIDE DEF q
<1>4. /\ Payout(mined, amount, total) \in {0, q - 1} /\ Payout(mined, amount, total) >= q - 1
  BY <1>2, <1>3
<1> QED BY <1>3, <1>4 DEF m, D

(* Nobody is paid more than the exact contribution, and not much less when *)
(* there is no more to share than there are shares.                        *)
LEMMA PayoutNearExact ==
  ASSUME NEW mined \in Nat, NEW amount \in Nat, NEW total \in Nat, amount <= total
  PROVE  /\ 100 * total * Payout(mined, amount, total) <= (100 - Fee) * mined * amount
         /\ amount > 0 /\ mined <= total =>
              (100 - Fee) * mined * amount - 100 * total * Payout(mined, amount, total)
                < 100 * total * 4
<1> DEFINE m == mined * amount
           D == Divisor(total)
           P == Payout(mined, amount, total)
           c == 100 - Fee
           cD == c * D
           T == 100 * total
<1>1. PICK q \in Nat : q * D <= m /\ m < (q + 1) * D /\ P \in {0, q - 1} /\ P >= q - 1
  BY PayoutNearQuotient
<1>2. /\ c \in 50 .. 100 /\ D \in Nat \ {0} /\ total + 1 <= D /\ T <= cD /\ cD <= T + 150
      /\ m \in Nat /\ P \in Nat /\ T \in Nat /\ cD \in Nat
  <2>1. D \in Nat \ {0} /\ T <= cD
    BY DivisorCovers
  <2>2. total + 1 <= D /\ cD <= T + 150
    BY DivisorClose
  <2>3. c \in 50 .. 100 /\ T \in Nat
    BY FeeAssumption
  <2>4. m \in Nat
    BY ProductIsNat
  <2>5. P \in Nat
    BY PayoutIsNat
  <2> HIDE DEF m, P, T, c, D
  <2>6. cD \in Nat
    BY <2>1, <2>3, ProductIsNat
  <2> QED BY <2>1, <2>2, <2>3, <2>4, <2>5, <2>6
<1>3. c * mined * amount = c * m
  BY <1>2
<1>4. c * (q * D) = q * cD /\ c * ((q + 1) * D) = (q + 1) * cD
  BY <1>1, <1>2
<1>5. T = 100 * total
  OBVIOUS
<1> DEFINE cm == c * m
<1>6. cm \in Nat
  BY <1>2, ProductIsNat
<1>7. q * cD <= cm
  <2> HIDE DEF D, m, c
  <2>1. q * D \in Nat
    BY <1>1, <1>2, ProductIsNat
  <2>2. c * (q * D) <= c * m
    BY <1>1, <1>2, <2>1
  <2> QED BY <1>4, <2>2
<1>8. cm < (q + 1) * cD
  <2> HIDE DEF D, m, c
  <2>1. (q + 1) * D \in Nat
    BY <1>1, <1>2, ProductIsNat
  <2>2. c * m < c * ((q + 1) * D)
    BY <1>1, <1>2, <2>1
  <2> QED BY <1>4, <2>2
<1>9. T * P <= cm
  <2> HIDE DEF cD, P, T, cm
  <2>1. CASE P = 0
    BY <1>2, <1>6, <2>1
  <2>2. CASE P # 0
    <3>1. P <= q
      BY <1>1, <2>2
    <3>2. T * P <= T * q
      BY <1>1, <1>2, <3>1
    <3>3. T * q <= q * cD
      BY <1>1, <1>2
    <3>4. T * P \in Nat /\ T * q \in Nat /\ q * cD \in Nat
      BY <1>1, <1>2, ProductIsNat
    <3> QED BY <1>6, <1>7, <3>2, <3>3, <3>4
  <2> QED BY <2>1, <2>2
<1>10. ASSUME amount > 0, mined <= total
       PROVE  cm - T * P < T * 4
  <2>1. q + 1 <= total
    <3> SUFFICES ASSUME total <= q PROVE FALSE
      BY <1>1
    <3>1. total * D <= q * D
      BY <1>1, <1>2
    <3>2. total * (total + 1) <= total * D
      BY <1>2
    <3>3. m <= total * amount /\ total * amount <= total * total
      BY <1>10
    <3>4. total * (total + 1) = total * total + total /\ total > 0
      BY <1>10
    <3>5. /\ total * total \in Nat /\ total * amount \in Nat /\ total * D \in Nat /\ q * D \in Nat
      BY <1>1, <1>2, ProductIsNat
    <3> HIDE DEF m, D
    <3> QED BY <1>1, <1>2, <3>1, <3>2, <3>3, <3>4, <3>5
  <2> HIDE DEF cD, P, cm
  <2>2. (q + 1) * cD <= (q + 1) * (T + 150)
    BY <1>1, <1>2
  <2>3. (q + 1) * (T + 150) = T * (q + 1) + 150 * (q + 1)
    BY <1>1, <1>2
  <2>4. 150 * (q + 1) <= 150 * total
    BY <1>1, <2>1
  <2>5. T * (q - 1) <= T * P /\ T * (q + 1) = T * (q - 1) + T * 2
    BY <1>1, <1>2
  <2>6. /\ (q + 1) * cD \in Nat /\ T * (q + 1) \in Nat /\ T * (q - 1) \in Int /\ T * P \in Nat
        /\ total > 0
    BY <1>1, <1>2, <1>10, ProductIsNat
  <2> DEFINE a == (q + 1) * cD
             b == T * (q + 1)
             d == T * (q - 1)
             e == T * P
  <2>7. cm < a /\ a <= b + 150 * (q + 1) /\ 150 * (q + 1) <= 150 * total /\ d <= e /\ b = d + T * 2
    BY <1>8, <2>2, <2>3, <2>4, <2>5
  <2>8. a \in Nat /\ b \in Nat /\ d \in Int /\ e \in Nat
    BY <2>6
  <2> HIDE DEF a, b, d, e, T
  <2>9. cm - e < T * 4
    BY <1>1, <1>2, <1>5, <1>6, <2>6, <2>7, <2>8
  <2> QED BY <2>9 DEF e
<1> QED BY <1>3, <1>9, <1>10 DEF T

(* The inputs are distributions of shares, and hashes.                     *)
ComputationsInput ==
  \/ input = [of |-> "nothing"]
  \/ input \in [of : {"payout"}, shares : [Participants -> 0 .. MaxRow], mined : 0 .. MaxMined]
  \/ input \in [of : {"zeros"}, hash : HashValue]
LEMMA ComputationsInputs == ComputationsSpec => []ComputationsInput
<1>1. ComputationsInit => ComputationsInput
  BY DEF ComputationsInit, ComputationsInput
<1>2. ComputationsInput /\ [ComputationsNext]_input => ComputationsInput'
  BY DEF ComputationsNext, PayRound, CountZeros, ComputationsInput
<1> QED BY <1>1, <1>2, PTL DEF ComputationsSpec

LEMMA PayoutInputTypes ==
  ASSUME ComputationsInput, input.of = "payout"
  PROVE  /\ input.shares \in [Participants -> Nat] /\ input.mined \in Nat
         /\ Total \in Nat /\ \A a \in Participants : input.shares[a] <= Total
<1>1. input \in [of : {"payout"}, shares : [Participants -> 0 .. MaxRow], mined : 0 .. MaxMined]
  BY DEF ComputationsInput
<1>2. input.shares \in [Participants -> Nat] /\ input.mined \in Nat
  BY <1>1, ComputationsAssumption
<1> DEFINE s == input.shares
<1>3. Total = SumFunctionOnSet(s, Participants)
  BY <1>2 DEF Total, SumFunction
<1>4. \A a \in Participants : s[a] \in Nat
  BY <1>2
<1> HIDE DEF s
<1>5. SumFunctionOnSet(s, Participants) \in Nat
  BY <1>4, SumIsNat, ComputationsAssumption
<1>6. \A a \in Participants : s[a] <= SumFunctionOnSet(s, Participants)
  BY <1>4, SumBounds, ComputationsAssumption
<1> QED BY <1>2, <1>3, <1>5, <1>6 DEF s

(* However many participants a round has, whatever their shares and the    *)
(* balance: payouts and fees stay within the participants' part of it, and *)
(* with the owner's transaction all is sent but one transaction fee.       *)
THEOREM PayoutsStayCovered == ComputationsSpec => []RoundCovered
<1>1. ComputationsInput => RoundCovered
  <2> SUFFICES ASSUME ComputationsInput, input.of = "payout" PROVE RoundCovered
    BY DEF RoundCovered
  <2> DEFINE p == PayoutSum(Payouts)
             own == OwnerAmount(input.mined, Payouts)
             sent == p + (IF own > 0 THEN own + TxFee ELSE 0)
  <2>1. input.shares \in [Participants -> Nat] /\ input.mined \in Nat /\ Total \in Nat
    BY PayoutInputTypes
  <2>2. /\ Payouts \in [Participants -> Nat]
        /\ \A a \in Participants :
             Payouts[a] \in {0, Payout(input.mined, input.shares[a], SumFunction(input.shares))}
    <3>1. \A a \in Participants : Paid(a) \in Nat
      BY <2>1, PayoutIsNat DEF Paid
    <3> QED BY <3>1 DEF Payouts, Paid, Total
  <2>3. p \in Nat /\ p <= input.mined /\ 100 * p <= (100 - Fee) * input.mined
    BY <2>1, <2>2, PayoutsWithinPart, ComputationsAssumption
  <2>4. own = IF input.mined - p > 1 THEN input.mined - p - 1 ELSE 0
    BY DEF OwnerAmount, Keep, TxFee
  <2> HIDE DEF p, own
  <2>5. sent <= input.mined /\ input.mined - sent <= TxFee
    BY <2>1, <2>3, <2>4 DEF TxFee
  <2> QED BY <2>3, <2>5 DEF RoundCovered, p, own
<1> QED BY <1>1, ComputationsInputs, PTL

(* Whatever the shares and the balance, nobody is paid more than the exact *)
(* contribution, and in a round with at least as many shares as leaves the *)
(* roundings cost a participant less than four leaves.                     *)
THEOREM LossIsBounded == ComputationsSpec => []LossBounded
<1>1. ComputationsInput => LossBounded
  <2> SUFFICES ASSUME ComputationsInput, input.of = "payout" PROVE LossBounded
    BY DEF LossBounded
  <2>1. /\ input.shares \in [Participants -> Nat] /\ input.mined \in Nat /\ Total \in Nat
        /\ \A a \in Participants : input.shares[a] <= Total
    BY PayoutInputTypes
  <2>2. ASSUME NEW a \in Participants
        PROVE  /\ 100 * Total * Paid(a) <= Exact(a)
               /\ input.shares[a] > 0 /\ input.mined <= Total =>
                    Exact(a) - 100 * Total * Paid(a) < 100 * Total * 4
    BY <2>1, PayoutNearExact DEF Paid, Exact
  <2> QED BY <2>2 DEF LossBounded, LossBelow
<1> QED BY <1>1, ComputationsInputs, PTL

-------------------------------------------------------------------------------
(* The leading zero bits of a hash.                                        *)

\* How many of the limits a byte keeps to.
KeptLimits(v) == {n \in DOMAIN Limits : v <= Limits[n]}
LEMMA LimitsCount ==
  ASSUME NEW v \in 1 .. 255
  PROVE  /\ Cardinality(KeptLimits(v)) \in 0 .. 7
         /\ \A r \in 1 .. 7 : v \div PowersOfTwo[8 - r] = 0 <=> Cardinality(KeptLimits(v)) >= r
<1> DEFINE Keeps(k) == \A n \in 1 .. 7 : v <= Limits[n] <=> n <= k
<1>1. /\ DOMAIN Limits = 1 .. 7
      /\ Limits[1] = 127 /\ Limits[2] = 63 /\ Limits[3] = 31 /\ Limits[4] = 15
      /\ Limits[5] = 7 /\ Limits[6] = 3 /\ Limits[7] = 1
  BY DEF Limits
<1>2. \E k \in 0 .. 7 : Keeps(k)
  <2>1. ASSUME v > 127 PROVE Keeps(0)
    BY <1>1, <2>1
  <2>2. ASSUME v <= 127 /\ v > 63 PROVE Keeps(1)
    BY <1>1, <2>2
  <2>3. ASSUME v <= 63 /\ v > 31 PROVE Keeps(2)
    BY <1>1, <2>3
  <2>4. ASSUME v <= 31 /\ v > 15 PROVE Keeps(3)
    BY <1>1, <2>4
  <2>5. ASSUME v <= 15 /\ v > 7 PROVE Keeps(4)
    BY <1>1, <2>5
  <2>6. ASSUME v <= 7 /\ v > 3 PROVE Keeps(5)
    BY <1>1, <2>6
  <2>7. ASSUME v <= 3 /\ v > 1 PROVE Keeps(6)
    BY <1>1, <2>7
  <2>8. ASSUME v <= 1 PROVE Keeps(7)
    BY <1>1, <2>8
  <2> HIDE DEF Keeps
  <2> QED BY <2>1, <2>2, <2>3, <2>4, <2>5, <2>6, <2>7, <2>8
<1>3. PICK k \in 0 .. 7 : Keeps(k)
  BY <1>2
<1>4. Cardinality(KeptLimits(v)) = k
  <2>1. KeptLimits(v) = 1 .. k
    <3>1. \A n : n \in KeptLimits(v) <=> n \in 1 .. 7 /\ v <= Limits[n]
      BY <1>1 DEF KeptLimits
    <3> DEFINE first == 1 .. k
    <3>2. \A n : n \in KeptLimits(v) <=> n \in first
      BY <1>3, <3>1
    <3> HIDE DEF first
    <3>3. KeptLimits(v) = first
      BY <3>2, Zenon
    <3> QED BY <3>3 DEF first
  <2>2. Cardinality(1 .. k) = k
    <3>1. 1 \in Int /\ k \in Int /\ k \in Nat
      OBVIOUS
    <3>2. Cardinality(1 .. k) = IF 1 > k THEN 0 ELSE k - 1 + 1
      BY <3>1, FS_Interval
    <3> QED BY <3>1, <3>2
  <2> QED BY <2>1, <2>2
<1>5. ASSUME NEW r \in 1 .. 7
      PROVE  v \div PowersOfTwo[8 - r] = 0 <=> k >= r
  <2>1. v \div PowersOfTwo[8 - r] = 0 <=> v <= Limits[r]
    BY <1>1 DEF PowersOfTwo
  <2> QED BY <1>3, <2>1
<1> QED BY <1>4, <1>5

(* For every hash, of any length, the backend's count of its leading zero  *)
(* bits is the greatest difficulty that the node's check lets it pass.     *)
THEOREM ZerosAlwaysAgree == ComputationsSpec => []ZerosAgree
<1>1. ComputationsInput => ZerosAgree
  <2> SUFFICES ASSUME ComputationsInput, input.of = "zeros" PROVE ZerosAgree
    BY DEF ZerosAgree
  <2> DEFINE hash == input.hash
             len == Len(hash)
             set == {i \in DOMAIN hash : hash[i] # 0}
  <2>1. hash \in Seq(0 .. 255) /\ hash # <<>>
    BY ComputationsAssumption DEF ComputationsInput
  <2> SUFFICES ASSUME NEW c \in 0 .. 8 * len
               PROVE  CheckLeadingZeroBits(hash, c) <=> Zeros(hash) >= c
    BY DEF ZerosAgree
  <2> DEFINE b == c \div 8
             r == c - 8 * b
             Bytes == \A i \in 1 .. b : hash[i] = 0
             Bits == r > 0 => ShiftedRight(hash[b + 1], 8 - r) = 0
  <2> HIDE DEF hash
  <2>2. len \in Nat /\ DOMAIN hash = 1 .. len /\ \A i \in 1 .. len : hash[i] \in 0 .. 255
    <3>1. ASSUME NEW B, NEW s \in Seq(B)
          PROVE  Len(s) \in Nat /\ DOMAIN s = 1 .. Len(s) /\ \A i \in 1 .. Len(s) : s[i] \in B
      OBVIOUS
    <3> QED BY <2>1, <3>1 DEF len
  <2> HIDE DEF len
  <2>3. b \in 0 .. len /\ r \in 0 .. 7 /\ c = 8 * b + r /\ (r > 0 => b + 1 \in 1 .. len)
    BY <2>2
  <2>4. CheckLeadingZeroBits(hash, c) <=> Bytes /\ Bits
    BY DEF CheckLeadingZeroBits
  <2>5. Zeros(hash) = IF set = {} THEN 8 * len
                      ELSE 8 * (Min(set) - 1)
                             + Cardinality(KeptLimits(hash[Min(set)]))
    BY DEF Zeros, KeptLimits, len
  <2>6. \A i \in 1 .. len : hash[i] = 0 <=> i \notin set
    BY <2>2
  <2>7. set \subseteq 1 .. len
    BY <2>2
  <2>8. \A n \in 1 .. 7 : ShiftedRight(0, n) = 0
    BY DEF ShiftedRight, PowersOfTwo
  <2> HIDE DEF set, b, r
  <2>9. CASE set = {}
    <3>1. Bytes
      BY <2>2, <2>3, <2>6, <2>9
    <3>2. Bits
      BY <2>3, <2>6, <2>8, <2>9
    <3> QED BY <2>2, <2>4, <2>5, <2>9, <3>1, <3>2
  <2>10. CASE set # {}
    <3> DEFINE m == Min(set)
               v == hash[m]
               k == Cardinality(KeptLimits(v))
    <3>1. m \in set /\ \A i \in set : m <= i
      <4>1. set \subseteq Nat
        BY <2>2, <2>7
      <4> QED BY <2>10, <4>1, LeastNat, Zenon
    <3> HIDE DEF m
    <3>2. m \in 1 .. len /\ v \in 1 .. 255 /\ \A i \in 1 .. m - 1 : hash[i] = 0
      <4>1. m \in 1 .. len
        BY <2>7, <3>1
      <4>2. v \in 0 .. 255 /\ v # 0
        BY <2>2, <2>6, <3>1, <4>1
      <4>3. ASSUME NEW i \in 1 .. m - 1 PROVE hash[i] = 0
        BY <2>2, <2>6, <3>1, <4>1, <4>3
      <4> QED BY <4>1, <4>2, <4>3
    <3>3. Zeros(hash) = 8 * (m - 1) + k
      BY <2>5, <2>10 DEF m
    <3>4. k \in 0 .. 7 /\ \A x \in 1 .. 7 : v \div PowersOfTwo[8 - x] = 0 <=> k >= x
      <4>1. v \in 1 .. 255
        BY <3>2
      <4> HIDE DEF v
      <4> QED BY <4>1, LimitsCount
    <3> HIDE DEF k
    <3>5. CASE b < m - 1
      <4>1. Bytes
        BY <2>2, <2>3, <3>2, <3>5
      <4>2. Bits
        BY <2>2, <2>3, <2>8, <3>2, <3>5
      <4>3. Zeros(hash) >= c
        BY <2>2, <2>3, <3>2, <3>3, <3>4, <3>5
      <4> QED BY <2>4, <4>1, <4>2, <4>3
    <3>6. CASE b = m - 1
      <4>1. Bytes
        BY <3>2, <3>6
      <4>2. b + 1 = m
        BY <2>2, <2>3, <3>2, <3>6
      <4>3. Bits <=> k >= r
        <5>1. CASE r = 0
          BY <3>4, <5>1
        <5>2. CASE r > 0
          <6>1. r \in 1 .. 7
            BY <2>3, <5>2
          <6>2. Bits <=> v \div PowersOfTwo[8 - r] = 0
            BY <4>2, <5>2 DEF ShiftedRight
          <6> QED BY <3>4, <6>1, <6>2
        <5> QED BY <2>3, <5>1, <5>2
      <4>4. Zeros(hash) >= c <=> k >= r
        <5> HIDE DEF v
        <5> QED BY <2>2, <2>3, <3>2, <3>3, <3>4, <4>2
      <4> QED BY <2>4, <4>1, <4>3, <4>4
    <3>7. CASE b > m - 1
      <4>1. ~Bytes
        <5>1. m \in 1 .. b
          BY <2>2, <2>3, <3>2, <3>7
        <5> QED BY <3>2, <5>1
      <4>2. ~(Zeros(hash) >= c)
        <5> HIDE DEF v
        <5> QED BY <2>2, <2>3, <3>2, <3>3, <3>4, <3>7
      <4> QED BY <2>4, <4>1, <4>2
    <3> QED BY <2>2, <2>3, <3>2, <3>5, <3>6, <3>7
  <2> QED BY <2>9, <2>10
<1> QED BY <1>1, ComputationsInputs, PTL

-------------------------------------------------------------------------------
(* Nobody is paid twice.                                                   *)

(* The mailbox behind its first message.                                   *)
LEMMA TailOfMailbox ==
  ASSUME NEW q \in Seq(Casts), q # <<>>
  PROVE  /\ Head(q) = q[1] /\ Head(q) \in Casts
         /\ Tail(q) \in Seq(Casts) /\ Len(Tail(q)) = Len(q) - 1
         /\ \A i \in 1..Len(Tail(q)) : Tail(q)[i] = q[i + 1] /\ i + 1 \in 1..Len(q)
         /\ Tail(q) # <<>> => Tail(q)[Len(Tail(q))] = q[Len(q)]
         /\ Tail(q) = <<>> => Head(q) = q[Len(q)]
<1>1. Len(q) \in Nat /\ Len(q) >= 1 /\ Head(q) = q[1] /\ Head(q) \in Casts
  OBVIOUS
<1>2. Tail(q) \in Seq(Casts) /\ Len(Tail(q)) = Len(q) - 1
  OBVIOUS
<1>3. \A i \in 1..Len(Tail(q)) : Tail(q)[i] = q[i + 1] /\ i + 1 \in 1..Len(q)
  BY <1>1, <1>2
<1>4. ASSUME Tail(q) # <<>>
      PROVE  Tail(q)[Len(Tail(q))] = q[Len(q)]
  <2>1. Len(Tail(q)) \in 1..Len(Tail(q))
    BY <1>1, <1>2, <1>4
  <2> QED BY <1>1, <1>2, <1>3, <2>1
<1>5. ASSUME Tail(q) = <<>>
      PROVE  Head(q) = q[Len(q)]
  <2>1. Len(q) = 1
    BY <1>1, <1>2, <1>5
  <2> QED BY <1>1, <2>1
<1> QED BY <1>1, <1>2, <1>3, <1>4, <1>5

(* Storing signatures in rows without a transaction takes no transaction   *)
(* back.                                                                   *)
LEMMA InsertKeeps ==
  ASSUME NEW d \in Database, NEW r \in Rounds, NEW sig \in [Addresses -> Nat],
         \A a \in Addresses : sig[a] # 0 => d.tx[r][a] = 0,
         NEW q \in Rounds, NEW a \in Addresses, d.tx[q][a] # 0
  PROVE  InsertTransactions(d, r, sig).tx[q][a] = d.tx[q][a]
<1> DEFINE row == [b \in Addresses |->
                     IF sig[b] # 0 /\ HasRow(d, r, b) THEN sig[b] ELSE d.tx[r][b]]
<1>1. d.tx \in [Rounds -> [Addresses -> Nat]]
  BY DEF Database, PerRow
<1>2. InsertTransactions(d, r, sig).tx = [d.tx EXCEPT ![r] = row]
  BY DEF InsertTransactions, Database
<1>3. CASE q = r
  <2>1. sig[a] = 0
    BY <1>3
  <2>2. row[a] = d.tx[r][a]
    BY <2>1
  <2> QED BY <1>1, <1>2, <1>3, <2>2
<1>4. CASE q # r
  BY <1>1, <1>2, <1>4
<1> QED BY <1>3, <1>4

(* A step keeps the invariant of the payments.                             *)
LEMMA PaymentsInvInductive ==
  TInv /\ RoundsInv /\ PaymentsInv /\ [Next]_vars => PaymentsInv'
<1> SUFFICES ASSUME TypeOK, WaitsAndRuns, RoundsInv, PaymentsInv, [Next]_vars
             PROVE  PaymentsInv'
  BY DEF TInv
<1> USE DEF PaymentsInv
\* Steps without an effect on transactions, casts and the task.
<1>1. ASSUME db'.tx = db.tx, disk'.tx = disk.tx, UNCHANGED <<dbq, task, broadcast>>
      PROVE  PaymentsInv'
  BY <1>1 DEF CommittedKept, InsertsFree, RowsFree, NoInsertWaiting, FlushedFirst, Committed
\* Steps of the task that lead to a place PaymentsInv says nothing about.
<1>2. ASSUME UNCHANGED <<db, disk, dbq, broadcast>>,
             task.pc' \notin {"owner", "insert", "txs", "broadcast"} \/ UNCHANGED task
      PROVE  PaymentsInv'
  BY <1>2 DEF CommittedKept, InsertsFree, RowsFree, NoInsertWaiting, FlushedFirst, Committed
\* A commit keeps what was committed.
<1>3. ASSUME disk' = db, UNCHANGED <<task, broadcast>>
      PROVE  Committed(broadcast)' /\ (task.pc = "broadcast" => Committed(task.txs)')
  <2>1. ASSUME NEW txs, Committed(txs)
        PROVE  \A t \in txs : t \in Transactions /\ t[3] # 0 /\ t[3] = db.tx[t[1]][t[2]]
    BY <2>1 DEF Committed, CommittedKept, Transactions
  <2> QED BY <1>3, <2>1 DEF Committed
<1>4. CASE MiningNext
  <2>1. db'.tx = db.tx
    <3>1. CASE MiningInit \/ ProcessedBlock
      BY <3>1 DEF MiningInit, ProcessedBlock
    <3>2. CASE InsertNewRound
      BY <3>2 DEF InsertNewRound, InsertRound, TypeOK, Database
    <3>3. ASSUME NEW h \in Heights, NewHeight(h)
          PROVE  db'.tx = db.tx
      BY <3>3 DEF NewHeight, SameRound, EndRound, SetEnd, TypeOK, Database
    <3>4. ASSUME NEW a \in Addresses, NEW v \in ShareValues, AddShare(a, v)
          PROVE  db'.tx = db.tx
      BY <3>4 DEF AddShare, AddShares, TypeOK, Database
    <3> QED BY <1>4, <3>1, <3>2, <3>3, <3>4 DEF MiningNext
  <2>2. UNCHANGED <<disk, dbq, task, broadcast>>
    BY <1>4 DEF MiningNext, MiningInit, InsertNewRound, ProcessedBlock, NewHeight, AddShare
  <2> QED BY <1>1, <2>1, <2>2
<1>5. CASE Notify \/ TaskGetRound \/ TaskNoBalance \/ (\E b \in Balances : TaskBalance(b))
           \/ PayoutDone \/ PayoutFails \/ TaskCallFails
  <2>1. UNCHANGED <<db, disk, dbq, broadcast>>
    BY <1>5 DEF Notify, TaskGetRound, TaskNoBalance, TaskBalance, PayoutDone, PayoutFails,
       TaskCallFails
  <2>2. task.pc' \in {"none", "round", "balance", "shares", "done"} \/ UNCHANGED task
    <3>1. PayoutRestart => task.pc' = "none"
      BY DEF PayoutRestart, NoTask
    <3>2. CASE Notify
      BY <3>2 DEF Notify, NoTask, TypeOK, TaskState
    <3>3. CASE TaskGetRound
      BY <3>1, <3>3 DEF TaskGetRound, TypeOK, TaskState
    <3>4. CASE TaskNoBalance \/ \E b \in Balances : TaskBalance(b)
      BY <3>4 DEF TaskNoBalance, TaskBalance, TypeOK, TaskState
    <3>5. CASE PayoutDone \/ PayoutFails \/ TaskCallFails
      BY <3>1, <3>5 DEF PayoutDone, PayoutFails, TaskCallFails, NoTask
    <3> QED BY <1>5, <3>2, <3>3, <3>4, <3>5
  <2> QED BY <1>2, <2>1, <2>2
<1>6. CASE TaskGetShares
  <2>1. /\ UNCHANGED <<db, disk, dbq, broadcast>> /\ dbq = <<>>
        /\ task.pc' \in {"owner", "insert"} /\ task.round' = task.round
    BY <1>6 DEF TaskGetShares, CanCall, TypeOK, TaskState
  <2>2. ASSUME NEW a \in Addresses, task.sig'[a] # 0
        PROVE  db.tx[task.round][a] = 0
    <3> DEFINE amount == [b \in Addresses |->
                            IF Unpaid(db, task.round, b)
                            THEN Payout(task.mined, db.shares[task.round][b], task.total) ELSE 0]
               signatures == [b \in Addresses |->
                                IF amount[b] > 0 THEN signed[task.round][b] + 1
                                ELSE signed[task.round][b]]
               sig == [b \in Addresses |-> IF amount[b] > 0 THEN signatures[b] ELSE 0]
    <3>1. task.sig' = sig
      BY <1>6 DEF TaskGetShares, TypeOK, TaskState
    <3> HIDE DEF signatures
    <3>2. amount[a] > 0
      BY <2>2, <3>1
    <3>3. Unpaid(db, task.round, a)
      BY <3>2
    <3> QED BY <3>3 DEF Unpaid
  <2>3. RowsFree(task.round, task.sig)'
    BY <2>1, <2>2 DEF RowsFree
  <2> QED
    BY <2>1, <2>3 DEF CommittedKept, InsertsFree, NoInsertWaiting, FlushedFirst, Committed
<1>7. ASSUME NEW pc, NEW msg \in Casts, NEW next, TaskCast(pc, msg, next)
      PROVE  /\ UNCHANGED <<db, disk, broadcast>> /\ task.pc = pc
             /\ task.pc' = next /\ task.round' = task.round /\ task.sig' = task.sig
             /\ \A i \in 1..Len(dbq') : \/ i \in 1..Len(dbq) /\ dbq'[i] = dbq[i]
                                        \/ i = Len(dbq') /\ dbq'[i] = msg
             /\ IF dbq' = <<>> THEN db = disk ELSE dbq'[Len(dbq')] = msg
  <2>1. /\ UNCHANGED <<db, disk, broadcast>> /\ task.pc = pc
        /\ task.pc' = next /\ task.round' = task.round /\ task.sig' = task.sig
    BY <1>7 DEF TaskCast, TypeOK, TaskState
  <2>2. CASE dbUp
    <3>1. dbq' = Append(dbq, msg) /\ dbq \in Seq(Casts)
      BY <1>7, <2>2 DEF TaskCast, Cast, TypeOK
    <3>2. dbq' # <<>> /\ Len(dbq') = Len(dbq) + 1 /\ Len(dbq) \in Nat /\ dbq'[Len(dbq')] = msg
          /\ \A i \in 1..Len(dbq) : dbq'[i] = dbq[i]
      BY <3>1
    <3>3. \A i \in 1..Len(dbq') : i \in 1..Len(dbq) \/ i = Len(dbq')
      BY <3>2
    <3>4. \A i \in 1..Len(dbq') : \/ i \in 1..Len(dbq) /\ dbq'[i] = dbq[i]
                                  \/ i = Len(dbq') /\ dbq'[i] = msg
      BY <3>2, <3>3
    <3>5. IF dbq' = <<>> THEN db = disk ELSE dbq'[Len(dbq')] = msg
      BY <3>2
    <3> QED BY <2>1, <3>4, <3>5
  <2>3. CASE ~dbUp
    BY <1>7, <2>1, <2>3 DEF TaskCast, Cast, RoundsInv, DownIsDisk
  <2> QED BY <2>2, <2>3
<1>8. CASE TaskInsertOwner
  <2> DEFINE msg == [type |-> "owner", round |-> task.round]
  <2>1. msg \in Casts
    BY <1>8 DEF TaskInsertOwner, TaskCast, WaitsAndRuns, Casts, OwnerCast
  <2>2. TaskCast("owner", msg, "insert")
    BY <1>8 DEF TaskInsertOwner
  <2>3. /\ UNCHANGED <<db, disk, broadcast>> /\ task.pc = "owner" /\ task.pc' = "insert"
        /\ task.round' = task.round /\ task.sig' = task.sig
        /\ \A i \in 1..Len(dbq') : \/ i \in 1..Len(dbq) /\ dbq'[i] = dbq[i]
                                   \/ i = Len(dbq') /\ dbq'[i] = msg
        /\ IF dbq' = <<>> THEN db = disk ELSE dbq'[Len(dbq')] = msg
    BY <1>7, <2>1, <2>2
  <2>4. NoInsertWaiting'
    BY <2>3 DEF InsertsFree, NoInsertWaiting
  <2>5. RowsFree(task.round, task.sig)'
    BY <2>3 DEF InsertsFree, RowsFree
  <2> QED
    BY <2>3, <2>4, <2>5 DEF CommittedKept, InsertsFree, NoInsertWaiting, FlushedFirst, Committed
<1>9. CASE TaskInsert
  <2> DEFINE msg == [type |-> "insert", round |-> task.round, sig |-> task.sig]
  <2>1. msg \in Casts
    BY <1>9 DEF TaskInsert, TaskCast, WaitsAndRuns, Casts, InsertCast, TypeOK, TaskState
  <2>2. TaskCast("insert", msg, "setprocessed")
    BY <1>9 DEF TaskInsert
  <2>3. /\ UNCHANGED <<db, disk, broadcast>> /\ task.pc = "insert" /\ task.pc' = "setprocessed"
        /\ task.round' = task.round /\ task.sig' = task.sig
        /\ \A i \in 1..Len(dbq') : \/ i \in 1..Len(dbq) /\ dbq'[i] = dbq[i]
                                   \/ i = Len(dbq') /\ dbq'[i] = msg
        /\ IF dbq' = <<>> THEN db = disk ELSE dbq'[Len(dbq')] = msg
    BY <1>7, <2>1, <2>2
  <2>4. NoInsertWaiting /\ \A a \in Addresses : task.sig[a] # 0 => db.tx[task.round][a] = 0
    BY <2>3 DEF InsertsFree, RowsFree
  <2>5. \A i \in 1..Len(dbq') : dbq'[i].type = "insert" =>
          i = Len(dbq') /\ dbq'[i].round = task.round /\ dbq'[i].sig = task.sig
    BY <2>3, <2>4 DEF NoInsertWaiting
  <2>6. ASSUME NEW i \in 1..Len(dbq'), dbq'[i].type = "insert"
        PROVE  /\ \A a \in Addresses : dbq'[i].sig[a] # 0 => db'.tx[dbq'[i].round][a] = 0
               /\ \A j \in 1..Len(dbq') : dbq'[j].type = "insert" => j = i
    <3>1. i = Len(dbq') /\ dbq'[i].round = task.round /\ dbq'[i].sig = task.sig /\ db' = db
      BY <2>3, <2>5, <2>6
    <3> QED BY <2>4, <2>5, <3>1
  <2>7. InsertsFree'
    BY <2>3, <2>6 DEF InsertsFree, RowsFree
  <2> QED BY <2>3, <2>7 DEF CommittedKept, FlushedFirst, Committed
<1>10. CASE TaskSetProcessed
  <2> DEFINE msg == [type |-> "setprocessed", round |-> task.round, mined |-> task.mined]
  <2>1. msg \in Casts
    BY <1>10 DEF TaskSetProcessed, TaskCast, WaitsAndRuns, Casts, ProcessedCast, TypeOK, TaskState
  <2>2. TaskCast("setprocessed", msg, "flush")
    BY <1>10 DEF TaskSetProcessed
  <2>3. /\ UNCHANGED <<db, disk, broadcast>> /\ task.pc = "setprocessed" /\ task.pc' = "flush"
        /\ task.round' = task.round /\ task.sig' = task.sig
        /\ \A i \in 1..Len(dbq') : \/ i \in 1..Len(dbq) /\ dbq'[i] = dbq[i]
                                   \/ i = Len(dbq') /\ dbq'[i] = msg
        /\ IF dbq' = <<>> THEN db = disk ELSE dbq'[Len(dbq')] = msg
    BY <1>7, <2>1, <2>2
  <2>4. \A i \in 1..Len(dbq') : dbq'[i].type = "insert" =>
          i \in 1..Len(dbq) /\ dbq'[i] = dbq[i]
    BY <2>3
  <2>5. InsertsFree'
    BY <2>3, <2>4 DEF InsertsFree, RowsFree
  <2> QED BY <2>3, <2>5 DEF CommittedKept, FlushedFirst, Committed
<1>11. CASE TaskFlush
  <2> DEFINE msg == [type |-> "flush"]
  <2>1. msg \in Casts
    BY <1>11 DEF TaskFlush, TaskCast, Casts, FlushCast
  <2>2. TaskCast("flush", msg, "txs")
    BY <1>11 DEF TaskFlush
  <2>3. /\ UNCHANGED <<db, disk, broadcast>> /\ task.pc = "flush" /\ task.pc' = "txs"
        /\ task.round' = task.round /\ task.sig' = task.sig
        /\ \A i \in 1..Len(dbq') : \/ i \in 1..Len(dbq) /\ dbq'[i] = dbq[i]
                                   \/ i = Len(dbq') /\ dbq'[i] = msg
        /\ IF dbq' = <<>> THEN db = disk ELSE dbq'[Len(dbq')] = msg
    BY <1>7, <2>1, <2>2
  <2>4. \A i \in 1..Len(dbq') : dbq'[i].type = "insert" =>
          i \in 1..Len(dbq) /\ dbq'[i] = dbq[i]
    BY <2>3
  <2>5. InsertsFree'
    BY <2>3, <2>4 DEF InsertsFree, RowsFree
  <2>6. FlushedFirst'
    BY <2>3 DEF FlushedFirst
  <2> QED BY <2>3, <2>5, <2>6 DEF CommittedKept, Committed
<1>12. CASE TaskReadTransactions
  <2>1. /\ UNCHANGED <<db, disk, dbq, broadcast>> /\ dbq = <<>> /\ task.pc = "txs"
        /\ task.pc' = "broadcast" /\ task.round' = task.round
        /\ task.txs' = StoredTransactions(db, task.round)
    BY <1>12 DEF TaskReadTransactions, CanCall, TypeOK, TaskState
  <2>2. db.tx = disk.tx
    BY <2>1 DEF FlushedFirst
  <2>3. Committed(task.txs)'
    BY <2>1, <2>2 DEF Committed, StoredTransactions, Transactions, WaitsAndRuns, TypeOK, Database,
       PerRow
  <2> QED BY <2>1, <2>3 DEF CommittedKept, InsertsFree, NoInsertWaiting, FlushedFirst, Committed
<1>13. CASE TaskBroadcast
  <2>1. /\ UNCHANGED <<db, disk, dbq>> /\ task.pc = "broadcast" /\ task.pc' = "done"
        /\ broadcast' = broadcast \cup task.txs
    BY <1>13 DEF TaskBroadcast, TypeOK, TaskState
  <2> QED BY <2>1 DEF CommittedKept, InsertsFree, RowsFree, NoInsertWaiting, FlushedFirst, Committed
\* What handling a cast does to the casts that stay in the mailbox.
<1>14. ASSUME dbq # <<>>, dbq' = Tail(dbq), UNCHANGED task, db'.tx = db.tx
       PROVE  InsertsFree'
  <2>1. \A i \in 1..Len(dbq') : dbq'[i] = dbq[i + 1] /\ i + 1 \in 1..Len(dbq)
    BY <1>14, TailOfMailbox DEF TypeOK
  <2>2. NoInsertWaiting => NoInsertWaiting'
    BY <2>1 DEF NoInsertWaiting
  <2>3. \A r, sig : RowsFree(r, sig) => RowsFree(r, sig)'
    BY <1>14 DEF RowsFree
  <2>4. ASSUME NEW i \in 1..Len(dbq'), dbq'[i].type = "insert"
        PROVE  /\ RowsFree(dbq'[i].round, dbq'[i].sig)
               /\ \A j \in 1..Len(dbq') : dbq'[j].type = "insert" => j = i
    <3>1. i + 1 \in 1..Len(dbq) /\ dbq[i + 1].type = "insert" /\ dbq'[i] = dbq[i + 1]
      BY <2>1, <2>4
    <3>2. RowsFree(dbq[i + 1].round, dbq[i + 1].sig)
      BY <3>1 DEF InsertsFree
    <3>3. ASSUME NEW j \in 1..Len(dbq'), dbq'[j].type = "insert"
          PROVE  j = i
      <4>1. j + 1 \in 1..Len(dbq) /\ dbq[j + 1].type = "insert"
        BY <2>1, <3>3
      <4>2. j + 1 = i + 1
        BY <3>1, <4>1 DEF InsertsFree
      <4> QED BY <4>2
    <3> QED BY <3>1, <3>2, <3>3
  <2> QED BY <1>14, <2>2, <2>3, <2>4 DEF InsertsFree
<1>15. ASSUME dbq # <<>>, dbq' = Tail(dbq), UNCHANGED task,
              Head(dbq).type = "flush" => db'.tx = disk'.tx
       PROVE  FlushedFirst'
  <2>1. /\ Tail(dbq) # <<>> => Tail(dbq)[Len(Tail(dbq))] = dbq[Len(dbq)]
        /\ Tail(dbq) = <<>> => Head(dbq) = dbq[Len(dbq)]
    BY <1>15, TailOfMailbox DEF TypeOK
  <2> QED BY <1>15, <2>1 DEF FlushedFirst
<1>16. CASE DBInsertOwnerPayout \/ DBSetProcessed
  <2>1. /\ dbq # <<>> /\ dbq' = Tail(dbq) /\ UNCHANGED <<disk, task, broadcast>>
        /\ Head(dbq).type # "flush"
    BY <1>16 DEF DBInsertOwnerPayout, DBSetProcessed, HandleCast
  <2>2. db'.tx = db.tx
    BY <1>16 DEF DBInsertOwnerPayout, DBSetProcessed, InsertOwnerPayout, SetProcessed, TypeOK,
                 Database
  <2>3. InsertsFree' /\ FlushedFirst'
    BY <1>14, <1>15, <2>1, <2>2
  <2> QED BY <2>1, <2>2, <2>3 DEF CommittedKept, Committed
<1>17. CASE DBInsertTransactions
  <2> DEFINE msg == Head(dbq)
  <2>1. /\ dbq # <<>> /\ dbq' = Tail(dbq) /\ UNCHANGED <<disk, task, broadcast>>
        /\ msg.type = "insert" /\ db' = InsertTransactions(db, msg.round, msg.sig)
    BY <1>17 DEF DBInsertTransactions, HandleCast
  <2>2. /\ msg = dbq[1] /\ msg \in Casts /\ 1 \in 1..Len(dbq)
        /\ \A i \in 1..Len(dbq') : dbq'[i] = dbq[i + 1] /\ i + 1 \in 1..Len(dbq) /\ i + 1 # 1
    BY <2>1, TailOfMailbox DEF TypeOK
  <2>3. msg.round \in Rounds /\ msg.sig \in [Addresses -> Nat]
    BY <2>1, <2>2 DEF Casts, OwnerCast, InsertCast, ProcessedCast, FlushCast
  <2>4. RowsFree(msg.round, msg.sig)
        /\ \A j \in 1..Len(dbq) : dbq[j].type = "insert" => j = 1
    BY <2>1, <2>2 DEF InsertsFree
  <2>5. \A r \in Rounds, a \in Addresses : db.tx[r][a] # 0 => db'.tx[r][a] = db.tx[r][a]
    <3>1. db \in Database
      BY DEF TypeOK
    <3> QED BY <2>1, <2>3, <2>4, <3>1, InsertKeeps DEF RowsFree
  <2>6. CommittedKept'
    BY <2>1, <2>5 DEF CommittedKept
  <2>7. NoInsertWaiting'
    BY <2>2, <2>4 DEF NoInsertWaiting
  <2>8. task.pc \notin {"owner", "insert"}
    BY <2>1, <2>2 DEF InsertsFree, NoInsertWaiting
  <2>9. InsertsFree'
    BY <2>1, <2>7, <2>8 DEF InsertsFree, NoInsertWaiting
  <2>10. FlushedFirst'
    BY <1>15, <2>1
  <2> QED BY <2>1, <2>6, <2>9, <2>10 DEF Committed
<1>18. CASE DBFlush
  <2>1. /\ dbq # <<>> /\ dbq' = Tail(dbq) /\ UNCHANGED <<db, task, broadcast>> /\ disk' = db
    BY <1>18 DEF DBFlush, HandleCast
  <2>2. InsertsFree' /\ FlushedFirst'
    BY <1>14, <1>15, <2>1
  <2> QED BY <1>3, <2>1, <2>2 DEF CommittedKept
<1>19. CASE DBTimedFlush
  <2>1. UNCHANGED <<db, dbq, task, broadcast>> /\ disk' = db
    BY <1>19 DEF DBTimedFlush
  <2>2. InsertsFree'
    BY <2>1 DEF InsertsFree, RowsFree, NoInsertWaiting
  <2> QED BY <1>3, <2>1, <2>2 DEF CommittedKept, FlushedFirst
<1>20. CASE DBInit
  <2>1. UNCHANGED <<db, disk, dbq, task, broadcast>>
    BY <1>20 DEF DBInit, RoundsInv, DownIsDisk
  <2> QED BY <1>1, <2>1
\* A restart of the database: rows may lose transactions, never gain them.
<1>21. ASSUME db' = disk, UNCHANGED <<disk, broadcast>>, dbq' = <<>>
       PROVE  /\ CommittedKept' /\ Committed(broadcast)'
              /\ \A r \in Rounds : \A sig : RowsFree(r, sig) => RowsFree(r, sig)'
  BY <1>21 DEF CommittedKept, Committed, RowsFree
<1>22. CASE DBFails
  <2>1. db' = disk /\ UNCHANGED <<disk, task, broadcast>> /\ dbq' = <<>>
    BY <1>22 DEF DBFails, DBDown
  <2>2. InsertsFree'
    <3>1. task.pc \in {"owner", "insert"} => RowsFree(task.round, task.sig)'
      BY <1>21, <2>1 DEF InsertsFree, WaitsAndRuns, RowsFree
    <3> QED BY <2>1, <3>1 DEF InsertsFree, NoInsertWaiting
  <2> QED BY <1>21, <2>1, <2>2 DEF FlushedFirst, Committed
<1>23. CASE PoolStops
  <2>1. db' = disk /\ UNCHANGED <<disk, broadcast>> /\ dbq' = <<>> /\ task.pc' = "none"
    BY <1>23 DEF PoolStops, DBDown, PayoutRestart, NoTask
  <2> QED BY <1>21, <2>1 DEF InsertsFree, NoInsertWaiting, FlushedFirst
<1>24. CASE MiningCrashes \/ NodesFail \/ (\E h \in Heights : HeightLost(h))
            \/ UNCHANGED vars
  <2>1. UNCHANGED <<db, disk, dbq, task, broadcast>>
    BY <1>24 DEF MiningCrashes, MiningFails, NodesFail, HeightLost, vars
  <2> QED BY <1>1, <2>1
<1> QED
  BY <1>4, <1>5, <1>6, <1>8, <1>9, <1>10, <1>11, <1>12, <1>13, <1>16, <1>17, <1>18, <1>19,
     <1>20, <1>22, <1>23, <1>24
  DEF Next, PayoutNext, DBNext, DBHandlesCast, FaultNext

(* Everything the proofs need of a reachable state, part by part.          *)
THEOREM PaymentsCorrect == Spec => []IInv
<1>1. Init => PaymentsInv
  BY EmptyDatabaseType DEF Init, PaymentsInv, CommittedKept, InsertsFree, NoInsertWaiting,
     FlushedFirst, Committed, NoTask
<1>2. TInv /\ RoundsInv /\ PaymentsInv /\ [Next]_vars => PaymentsInv'
  BY PaymentsInvInductive
<1>3. TInv /\ RoundsInv /\ PaymentsInv => IInv
  BY DEF IInv, TInv
<1> QED BY <1>1, <1>2, <1>3, RoundsCorrect, PTL DEF Spec

(* No restart forgets and nothing replaces a transaction that was sent to  *)
(* the network: the flush before the broadcast (task.ex:55-82) is enough.  *)
THEOREM BroadcastIsSaved == Spec => []BroadcastSaved
<1>1. IInv => BroadcastSaved
  BY DEF IInv, PaymentsInv, Committed, BroadcastSaved
<1> QED BY <1>1, PaymentsCorrect, PTL

(* No row is ever paid by two different transactions, for every number of  *)
(* miners, rounds, faults and repeated notifications.                      *)
THEOREM NobodyPaidTwice == Spec => []PaidOnce
<1>1. IInv => PaidOnce
  BY DEF IInv, PaymentsInv, Committed, PaidOnce, Transactions
<1> QED BY <1>1, PaymentsCorrect, PTL

(* The initial state of the pool is one of the ledger's.                   *)
LEMMA LedgerInit == Init => Ledger!Init
  BY DEF Init, EmptyDatabase, NoRows, Ledger!Init

(* A commit saves payments, a broadcast sends saved ones, and no other     *)
(* step of the pool is seen by the ledger.                                 *)
LEMMA LedgerStep == IInv /\ IInv' /\ [Next]_vars => [Ledger!Next]_(Ledger!vars)
<1> SUFFICES ASSUME IInv, IInv', [Next]_vars
             PROVE  [Ledger!Next]_(Ledger!vars)
  OBVIOUS
<1>1. CASE UNCHANGED <<disk, broadcast>>
  BY <1>1 DEF Ledger!vars
<1>2. ASSUME disk' = db, UNCHANGED broadcast
      PROVE  Ledger!Save
  <2>1. disk'.tx \in [Rounds -> [Addresses -> Nat]]
    BY <1>2 DEF IInv, TypeOK, Database, PerRow
  <2>2. \A r \in Rounds, a \in Addresses : disk.tx[r][a] # 0 => disk'.tx[r][a] = disk.tx[r][a]
    BY <1>2 DEF IInv, PaymentsInv, CommittedKept
  <2> QED BY <1>2, <2>1, <2>2 DEF Ledger!Save
<1>3. CASE DBFlush \/ DBTimedFlush
  <2>1. disk' = db /\ UNCHANGED broadcast
    BY <1>3 DEF DBFlush, HandleCast, DBTimedFlush
  <2> QED BY <1>2, <2>1 DEF Ledger!Next
<1>4. CASE TaskBroadcast
  <2>1. /\ UNCHANGED disk /\ broadcast' = broadcast \cup task.txs
        /\ task.pc = "broadcast"
    BY <1>4 DEF TaskBroadcast
  <2>2. Committed(task.txs)
    BY <2>1 DEF IInv, PaymentsInv
  <2>3. Ledger!Send
    BY <2>1, <2>2 DEF Ledger!Send, Committed, Transactions
  <2> QED BY <2>3 DEF Ledger!Next
<1>5. CASE MiningNext
  BY <1>1, <1>5 DEF MiningNext, MiningInit, InsertNewRound, ProcessedBlock, NewHeight, AddShare
<1>6. CASE PayoutNext
  <2>1. ASSUME NEW pc, NEW msg, NEW next, TaskCast(pc, msg, next)
        PROVE  UNCHANGED <<disk, broadcast>>
    BY <2>1 DEF TaskCast
  <2>2. CASE TaskInsertOwner \/ TaskInsert \/ TaskSetProcessed \/ TaskFlush
    BY <1>1, <2>1, <2>2 DEF TaskInsertOwner, TaskInsert, TaskSetProcessed, TaskFlush
  <2>3. CASE \/ Notify \/ TaskGetRound \/ TaskNoBalance \/ TaskGetShares
             \/ (\E b \in Balances : TaskBalance(b)) \/ TaskReadTransactions \/ PayoutDone
    BY <1>1, <2>3 DEF Notify, TaskGetRound, TaskNoBalance, TaskGetShares, TaskBalance,
       TaskReadTransactions, PayoutDone
  <2> QED BY <1>4, <1>6, <2>2, <2>3 DEF PayoutNext
<1>7. CASE DBNext
  <2>1. CASE DBInsertOwnerPayout \/ DBInsertTransactions \/ DBSetProcessed \/ DBInit
    BY <1>1, <2>1 DEF DBInsertOwnerPayout, DBInsertTransactions, DBSetProcessed, HandleCast, DBInit
  <2> QED BY <1>3, <1>7, <2>1 DEF DBNext, DBHandlesCast
<1>8. CASE FaultNext \/ UNCHANGED vars
  BY <1>1, <1>8 DEF FaultNext, MiningCrashes, MiningFails, DBFails, PoolStops, DBDown,
     PayoutFails, TaskCallFails, NodesFail, HeightLost, vars
<1> QED BY <1>5, <1>6, <1>7, <1>8 DEF Next

(* The pool implements the ledger: what is committed and what is sent      *)
(* behaves as PayoutLedger promises.                                       *)
THEOREM ImplementsLedger == Spec => LedgerSpec
<1> QED
  BY LedgerInit, LedgerStep, PaymentsCorrect, PTL DEF Spec, LedgerSpec, Ledger!Spec

-------------------------------------------------------------------------------
(* Rounds are paid behind the round that is mined, and in order.           *)

\* A closed round waits for at least one block (config/runtime.exs:64 has 150);
\* else the newest round may be due while a restarted Nodes has Mining still
\* crediting it.
Deployment == PayoutDelay # 0

(* Once a payout outlived the database, it did; before that, the database  *)
(* process failed without a payout under way only.                         *)
LEMMA OutlivedStays ==
  [Next]_vars /\ ~faults'.outlived =>
    ~faults.outlived /\ (DBFails => task.pc = "none" /\ notify = <<>>)
<1> SUFFICES ASSUME [Next]_vars, ~faults'.outlived
             PROVE  ~faults.outlived /\ (DBFails => task.pc = "none" /\ notify = <<>>)
  OBVIOUS
<1>1. ASSUME NEW kind, Fault(kind)
      PROVE  ~faults.outlived /\ ~Outlives(kind)
  BY <1>1 DEF Fault
<1>2. ASSUME DBFails
      PROVE  ~faults.outlived /\ task.pc = "none" /\ notify = <<>>
  BY <1>1, <1>2 DEF DBFails, Outlives
<1>3. CASE MiningCrashes \/ PoolStops \/ PayoutFails \/ NodesFail
  <2>1. ~faults.outlived
    BY <1>1, <1>3 DEF MiningCrashes, PoolStops, PayoutFails, NodesFail
  <2> QED BY <1>2, <2>1
<1>4. CASE MiningNext \/ PayoutNext \/ DBNext \/ TaskCallFails
           \/ (\E h \in Heights : HeightLost(h)) \/ UNCHANGED vars
  <2>1. CASE DBFails
    BY <1>2, <2>1
  <2>2. faults' = faults
    <3>1. CASE MiningNext
      BY <3>1 DEF MiningNext, MiningInit, InsertNewRound, ProcessedBlock, NewHeight, AddShare
    <3>2. CASE PayoutNext
      BY <3>2 DEF PayoutNext, Notify, TaskGetRound, TaskNoBalance, TaskGetShares, TaskBalance,
         TaskInsertOwner, TaskInsert, TaskSetProcessed, TaskFlush, TaskCast,
         TaskReadTransactions, TaskBroadcast, PayoutDone
    <3>3. CASE DBNext
      BY <3>3 DEF DBNext, DBHandlesCast, DBInsertOwnerPayout, DBInsertTransactions,
         DBSetProcessed, DBFlush, HandleCast, DBTimedFlush, DBInit
    <3>4. CASE TaskCallFails \/ (\E h \in Heights : HeightLost(h)) \/ UNCHANGED vars
      BY <3>4 DEF TaskCallFails, HeightLost, vars
    <3> QED BY <1>4, <3>1, <3>2, <3>3, <3>4
  <2> QED BY <2>1, <2>2
<1> QED BY <1>2, <1>3, <1>4 DEF Next, FaultNext

\* A round with a later one behind which it is settled.
Behind(d, r) == r \in d.rounds /\ \E q \in d.rounds : r < q
InOrder(d, r) == \A q \in d.rounds : q < r => q \in d.processed
Ready(d, r) == Behind(d, r) /\ InOrder(d, r)

\* Every round that is processed, or on its way to it, is behind a later one;
\* one that is about to be paid has no unprocessed round before it.
SettledBehind ==
  /\ \A r \in db.processed : Behind(db, r)
  /\ \A r \in disk.processed : Behind(disk, r)
  /\ \A i \in 1..Len(notify) : Ready(db, notify[i])
  /\ task.pc # "none" => Ready(db, task.round)
  /\ \A i \in 1..Len(dbq) : dbq[i].type # "flush" => Behind(db, dbq[i].round)

EndsKnown(d) == \A r \in Rounds : d.blockend[r] \in {Nil, RoundEnd(r)}

\* What Mining remembers: the oldest unprocessed round with its end, and a
\* height that its round has not passed.
OldestOf(d, m) ==
  m.unprocessed # Nil =>
    /\ m.unprocessed[1] \in d.rounds /\ InOrder(d, m.unprocessed[1])
    /\ m.unprocessed[2] = RoundEnd(m.unprocessed[1])
HeightOf(m) == m.pc = "idle" /\ m.round # Nil => m.height <= RoundEnd(m.round)

SettleInv ==
  /\ SettledBehind /\ EndsKnown(db) /\ EndsKnown(disk)
  /\ OldestOf(db, mining) /\ HeightOf(mining)
  /\ mining.pc = "down" => mining = MiningDown
  /\ ~dbUp => task.pc = "none" /\ notify = <<>>

(* A height belongs to a round or to one before it when it is not past the *)
(* round's end.                                                            *)
LEMMA HeightInRound ==
  ASSUME NEW r \in Rounds, NEW h \in Heights, RoundStart(h) <= r
  PROVE  h <= RoundEnd(r)
<1>1. PICK g \in Heights : r = RoundStart(g)
  BY DEF Rounds
<1> DEFINE k == (g - 1) \div RoundBlocks
           q == (h - 1) \div RoundBlocks
<1>2. RoundBlocks \in Nat \ {0} /\ g - 1 \in Nat /\ h - 1 \in Nat
  BY ConfigAssumption DEF Heights
<1>3. k \in Nat /\ q \in Nat
  BY <1>2, QuotientIsNat
<1>4. r = RoundBlocks * k /\ RoundStart(h) = RoundBlocks * q
  BY <1>1 DEF RoundStart
<1>5. h - 1 < RoundBlocks * (q + 1)
  BY <1>2
<1> HIDE DEF k, q
<1>6. (RoundBlocks * k) \div RoundBlocks = k
  BY <1>2, <1>3
<1>7. RoundEnd(r) = RoundBlocks * (1 + k)
  BY <1>4, <1>6 DEF RoundEnd
<1>8. q <= k
  BY <1>2, <1>3, <1>4
<1>9. RoundBlocks * (q + 1) <= RoundBlocks * (1 + k)
  BY <1>2, <1>3, <1>8
<1>10. RoundBlocks * (q + 1) \in Nat /\ RoundBlocks * (1 + k) \in Nat /\ h \in Nat
  BY <1>2, <1>3, ProductIsNat DEF Heights
<1> QED BY <1>5, <1>7, <1>9, <1>10

(* The oldest unprocessed round has no unprocessed round before it.        *)
LEMMA UnprocessedIsOldest ==
  ASSUME NEW d \in Database, EndsKnown(d), unprocessed_round(d) # Nil
  PROVE  LET u == unprocessed_round(d)
         IN  u[1] \in d.rounds /\ InOrder(d, u[1]) /\ u[2] = RoundEnd(u[1])
<1> DEFINE P(r) == IsFirstUnprocessed(d, r) /\ d.blockend[r] # Nil
           q == CHOOSE r \in d.rounds : P(r)
<1>1. \E r \in d.rounds : P(r)
  BY DEF unprocessed_round
<1>2. q \in d.rounds /\ P(q)
  BY <1>1
<1>3. unprocessed_round(d) = <<q, d.blockend[q]>>
  BY <1>1 DEF unprocessed_round
<1> HIDE DEF q
<1>4. d.blockend[q] = RoundEnd(q)
  <2>1. q \in Rounds
    BY <1>2 DEF Database
  <2> QED BY <1>2, <2>1 DEF EndsKnown
<1>5. \A p \in d.rounds : p < q => p \in d.processed
  <2> SUFFICES ASSUME NEW p \in d.rounds, p < q, p \notin d.processed
               PROVE  FALSE
    OBVIOUS
  <2>1. q <= p
    BY <1>2 DEF IsFirstUnprocessed
  <2>2. p \in Nat /\ q \in Nat
    BY <1>2, RoundsAreNat DEF Database
  <2> QED BY <2>1, <2>2
<1> QED BY <1>2, <1>3, <1>4, <1>5 DEF InOrder

(* A round is sent to the payout process only when it is ready.            *)
LEMMA CheckSendsReady ==
  ASSUME Deployment, NEW m \in MiningState, m.pc = "idle", roundprocessing_check(m),
         NEW d \in Database, notify \in Seq(Rounds),
         IF m.round = Nil THEN d.rounds = {} ELSE IsNewest(d, m.round),
         OldestOf(d, m), HeightOf(m),
         \A i \in 1..Len(notify) : Ready(d, notify[i])
  PROVE  \A i \in 1..Len(notify') : Ready(d, notify'[i])
<1>1. CASE PayoutDue(m)
  <2> DEFINE r == m.unprocessed[1]
  <2>1. /\ r \in d.rounds /\ InOrder(d, r) /\ m.unprocessed[2] = RoundEnd(r)
        /\ RoundEnd(r) + PayoutDelay <= m.height
    BY <1>1 DEF PayoutDue, OldestOf
  <2>2. m.round # Nil /\ IsNewest(d, m.round) /\ r <= m.round /\ m.round \in d.rounds
    BY <2>1 DEF IsNewest
  <2>3. r \in Rounds /\ r \in Nat /\ m.round \in Rounds /\ m.round \in Nat
    BY <2>1, <2>2, RoundsAreNat DEF Database
  <2>4. r # m.round
    <3>1. m.height <= RoundEnd(m.round) /\ m.height \in Nat
      BY <2>2 DEF HeightOf, MiningState
    <3>2. RoundEnd(r) \in Nat /\ PayoutDelay \in Nat \ {0}
      BY <2>3, RoundEndIsNat, ConfigAssumption DEF Deployment
    <3> QED BY <2>1, <3>1, <3>2
  <2>5. r < m.round
    BY <2>2, <2>3, <2>4
  <2>6. Ready(d, r)
    BY <2>1, <2>2, <2>5 DEF Ready, Behind
  <2>7. notify' = Append(notify, r)
    BY <1>1 DEF roundprocessing_check
  <2> HIDE DEF r
  <2>8. \A i \in 1..Len(notify') : \/ i \in 1..Len(notify) /\ notify'[i] = notify[i]
                                  \/ notify'[i] = r
    BY <2>3, <2>7
  <2> QED BY <2>6, <2>8
<1>2. CASE ~PayoutDue(m)
  BY <1>2 DEF roundprocessing_check
<1> QED BY <1>1, <1>2

(* More rounds and more processed rounds keep a round behind the newest,   *)
(* and later rounds keep it in order.                                      *)
LEMMA ReadyKept ==
  ASSUME NEW d \in Database, NEW e \in Database,
         d.rounds \subseteq e.rounds, d.processed \subseteq e.processed,
         \A q \in e.rounds \ d.rounds : \A r \in d.rounds : r < q
  PROVE  \A r : /\ Behind(d, r) => Behind(e, r)
                /\ r \in d.rounds /\ InOrder(d, r) => InOrder(e, r)
                /\ Ready(d, r) => Ready(e, r)
<1>1. ASSUME NEW r \in d.rounds, InOrder(d, r)
      PROVE  InOrder(e, r)
  <2> SUFFICES ASSUME NEW q \in e.rounds, q < r
               PROVE  q \in e.processed
    BY DEF InOrder
  <2>1. q \in Nat /\ r \in Nat
    BY RoundsAreNat DEF Database
  <2>2. q \in d.rounds
    <3>1. ASSUME q \notin d.rounds PROVE FALSE
      <4>1. r < q
        BY <3>1
      <4> QED BY <2>1, <4>1
    <3> QED BY <3>1
  <2> QED BY <1>1, <2>2 DEF InOrder
<1>2. \A r : Behind(d, r) => Behind(e, r)
  BY DEF Behind
<1> QED BY <1>1, <1>2 DEF Ready, Behind

(* A step keeps the rounds settled in order.                               *)
LEMMA SettleInvInductive ==
  Deployment /\ TInv /\ TInv' /\ RoundsInv /\ RoundsInv' /\ SettleInv /\ [Next]_vars
    /\ ~faults'.outlived => SettleInv'
<1> SUFFICES ASSUME Deployment, TypeOK, WaitsAndRuns, TypeOK', RoundsInv, RoundsInv',
                    SettleInv, [Next]_vars, ~faults'.outlived
             PROVE  SettleInv'
  BY DEF TInv
<1> USE DEF SettleInv
<1>0. db \in Database /\ db' \in Database /\ disk \in Database /\ disk' \in Database
      /\ notify \in Seq(Rounds) /\ dbq \in Seq(Casts)
  BY DEF TypeOK
\* Steps of the payout process and of other parts: they leave the database and
\* Mining alone, and send casts of the task's round only.
<1>1. ASSUME UNCHANGED <<db, disk, dbUp, mining>>,
             notify' = notify \/ notify' = <<>> \/ (notify # <<>> /\ notify' = Tail(notify)),
             \/ task.pc' = "none"
             \/ task.pc # "none" /\ task.round' = task.round
             \/ notify # <<>> /\ task.round' = Head(notify),
             \A i \in 1..Len(dbq') : \/ i \in 1..Len(dbq) /\ dbq'[i] = dbq[i]
                                     \/ task.pc # "none" /\ dbq'[i].round = task.round
                                     \/ dbq'[i].type = "flush",
             ~dbUp => task.pc' = "none"
      PROVE  SettleInv'
  <2>1. \A i \in 1..Len(notify') : Ready(db, notify'[i])
    <3>1. CASE notify' = notify \/ notify' = <<>>
      BY <3>1 DEF SettledBehind
    <3>2. CASE notify # <<>> /\ notify' = Tail(notify)
      <4>1. \A i \in 1..Len(notify') : i + 1 \in 1..Len(notify) /\ notify'[i] = notify[i + 1]
        BY <1>0, <3>2
      <4> QED BY <4>1 DEF SettledBehind
    <3> QED BY <1>1, <3>1, <3>2
  <2>2. task.pc' # "none" => Ready(db, task.round')
    <3>1. notify # <<>> => Head(notify) = notify[1] /\ 1 \in 1..Len(notify)
      BY <1>0
    <3> QED BY <1>1, <3>1 DEF SettledBehind
  <2>3. \A i \in 1..Len(dbq') : dbq'[i].type # "flush" => Behind(db, dbq'[i].round)
    BY <1>1 DEF SettledBehind, Ready
  <2>4. ~dbUp => notify' = <<>>
    BY <1>1
  <2>5. OldestOf(db, mining)' /\ HeightOf(mining)' /\ EndsKnown(db)' /\ EndsKnown(disk)'
    BY <1>1 DEF OldestOf, HeightOf, EndsKnown, InOrder
  <2> QED BY <1>1, <2>1, <2>2, <2>3, <2>4, <2>5 DEF SettledBehind, Ready, Behind, InOrder
\* Steps of Mining that may tell the payout process.
<1>2. ASSUME NEW m \in MiningState, m.pc = "idle", roundprocessing_check(m), mining.pc # "down",
             UNCHANGED <<disk, dbUp, dbq, task>>, db'.processed = db.processed,
             db.rounds \subseteq db'.rounds, EndsKnown(db'),
             \A q \in db'.rounds \ db.rounds : \A r \in db.rounds : r < q,
             OldestOf(db', m), HeightOf(m)
      PROVE  SettleInv'
  <2>1. mining' = m /\ dbUp
    BY <1>2 DEF roundprocessing_check, RoundsInv, DownIsDisk
  <2>2. \A r : /\ Behind(db, r) => Behind(db', r)
               /\ Ready(db, r) => Ready(db', r)
    BY <1>0, <1>2, ReadyKept
  <2>3. IF m.round = Nil THEN db'.rounds = {} ELSE IsNewest(db', m.round)
    BY <1>2, <2>1 DEF RoundsInv, MiningOnNewest
  <2>4. \A i \in 1..Len(notify') : Ready(db', notify'[i])
    <3>1. \A i \in 1..Len(notify) : Ready(db', notify[i])
      BY <2>2 DEF SettledBehind
    <3> QED BY <1>0, <1>2, <2>3, <3>1, CheckSendsReady
  <2>5. SettledBehind'
    BY <1>2, <2>2, <2>4 DEF SettledBehind
  <2>6. EndsKnown(disk)' /\ dbUp' /\ mining.pc' # "down"
    BY <1>2, <2>1 DEF EndsKnown
  <2> QED BY <1>2, <2>1, <2>5, <2>6
\* Steps of the database process.
<1>3. ASSUME dbUp, UNCHANGED <<dbUp, mining, task, notify>>, disk' \in {disk, db},
             dbq' = dbq \/ (dbq # <<>> /\ dbq' = Tail(dbq)),
             db'.rounds = db.rounds, db'.blockend = db.blockend,
             db.processed \subseteq db'.processed,
             \A r \in db'.processed : Behind(db, r)
      PROVE  SettleInv'
  <2>1. \A r : /\ Behind(db, r) => Behind(db', r)
               /\ r \in db.rounds /\ InOrder(db, r) => InOrder(db', r)
               /\ Ready(db, r) => Ready(db', r)
    BY <1>0, <1>3, ReadyKept
  <2>2. \A i \in 1..Len(dbq') : \E j \in 1..Len(dbq) : dbq'[i] = dbq[j]
    <3>1. CASE dbq' = dbq
      BY <3>1
    <3>2. CASE dbq # <<>> /\ dbq' = Tail(dbq)
      BY <1>0, <3>2, TailOfMailbox
    <3> QED BY <1>3, <3>1, <3>2
  <2>3. \A r \in disk'.processed : Behind(disk', r)
    BY <1>3 DEF SettledBehind
  <2>4. SettledBehind'
    BY <1>3, <2>1, <2>2, <2>3 DEF SettledBehind
  <2>5. EndsKnown(db)' /\ EndsKnown(disk)'
    BY <1>3 DEF EndsKnown
  <2>6. OldestOf(db, mining)'
    BY <1>3, <2>1 DEF OldestOf
  <2> QED BY <1>3, <2>4, <2>5, <2>6 DEF HeightOf
<1>4. CASE MiningInit
  <2>1. /\ mining.pc' = "idle" /\ mining.height' = 0 /\ mining.round' = active_round(db)
        /\ mining.unprocessed' = unprocessed_round(db) /\ dbUp /\ mining.pc = "down"
        /\ UNCHANGED <<db, disk, dbUp, dbq, task, notify>>
    BY <1>4 DEF MiningInit
  <2>2. OldestOf(db, mining)'
    BY <1>0, <2>1, UnprocessedIsOldest DEF OldestOf
  <2>3. HeightOf(mining)'
    <3>1. active_round(db) # Nil => RoundEnd(active_round(db)) \in Nat
      BY <1>0, ActiveRoundType, RoundEndIsNat
    <3> QED BY <2>1, <3>1 DEF HeightOf
  <2>4. SettledBehind' /\ EndsKnown(db)' /\ EndsKnown(disk)'
    BY <2>1 DEF SettledBehind, Ready, Behind, InOrder, EndsKnown
  <2> QED BY <2>1, <2>2, <2>3, <2>4
<1>5. ASSUME NEW h \in Heights, NewHeight(h)
      PROVE  SettleInv'
  <2>0. mining.pc = "idle" /\ UNCHANGED <<disk, dbUp, dbq, task>>
    BY <1>5 DEF NewHeight
  <2>1. CASE SameRound(h)
    <3> DEFINE m == [mining EXCEPT !.height = h]
    <3>0. h \in 0..MaxHeight
      BY ConfigAssumption DEF Heights
    <3>1. /\ m \in MiningState /\ m.pc = "idle" /\ m.round = mining.round /\ m.height = h
          /\ m.unprocessed = mining.unprocessed
      BY <2>0, <3>0 DEF TypeOK, MiningState
    <3>2. mining.round \in Rounds /\ RoundStart(h) <= mining.round /\ db' = db
          /\ roundprocessing_check(m)
      BY <2>1 DEF SameRound, TypeOK, MiningState
    <3> HIDE DEF m
    <3>3. HeightOf(m)
      BY <3>1, <3>2, HeightInRound DEF HeightOf
    <3>4. OldestOf(db', m)
      BY <3>1, <3>2 DEF OldestOf
    <3>5. db' \in Database /\ mining.pc # "down"
      BY <1>0, <2>0
    <3> QED BY <1>2, <2>0, <3>1, <3>2, <3>3, <3>4, <3>5
  <2>2. CASE EndRound(h)
    <3>1. /\ mining.pc' = "wallet" /\ mining.unprocessed' = mining.unprocessed
          /\ UNCHANGED notify
          /\ db' = IF mining.round = Nil THEN db ELSE SetEnd(db, mining.round)
      BY <2>2 DEF EndRound, TypeOK, MiningState
    <3>2. /\ db'.rounds = db.rounds /\ db'.processed = db.processed
          /\ \A r \in Rounds : db'.blockend[r] \in {db.blockend[r], RoundEnd(r)}
      BY <1>0, <3>1 DEF SetEnd, Database
    <3>3. \A r : /\ Behind(db, r) <=> Behind(db', r)
                 /\ InOrder(db, r) <=> InOrder(db', r)
      BY <3>2 DEF Behind, InOrder
    <3>4. SettledBehind'
      BY <2>0, <3>1, <3>2, <3>3 DEF SettledBehind, Ready
    <3>5. EndsKnown(db)' /\ EndsKnown(disk)'
      BY <2>0, <3>2 DEF EndsKnown
    <3>6. OldestOf(db, mining)' /\ HeightOf(mining)'
      BY <3>1, <3>2, <3>3 DEF OldestOf, HeightOf
    <3> QED BY <2>0, <3>1, <3>4, <3>5, <3>6
  <2> QED BY <1>5, <2>1, <2>2 DEF NewHeight
<1>6. CASE InsertNewRound
  <2> DEFINE r == RoundStart(mining.height)
             started == [mining EXCEPT !.pc = "idle", !.round = r]
             m == IF mining.round = Nil THEN started
                  ELSE [started EXCEPT !.unprocessed = unprocessed_round(db'), !.total = 0]
  <2>1. r \in Rounds /\ mining.height \in Heights
    BY <1>6 DEF InsertNewRound, WaitsAndRuns, Rounds
  <2>2. db' = InsertRound(db, r) /\ roundprocessing_check(m)
        /\ mining.pc = "wallet" /\ UNCHANGED <<disk, dbUp, dbq, task>>
    BY <1>6 DEF InsertNewRound
  <2>3. /\ db'.rounds = db.rounds \cup {r} /\ db'.processed = db.processed
        /\ db'.blockend = db.blockend
    BY <1>0, <2>2 DEF InsertRound, Database
  <2>4. m \in MiningState /\ m.pc = "idle" /\ m.round = r /\ m.height = mining.height
        /\ m.unprocessed = IF mining.round = Nil THEN mining.unprocessed ELSE unprocessed_round(db')
    BY <1>0, <2>1, UnprocessedRoundType DEF TypeOK, MiningState
  <2>5. \A q \in db.rounds : q < r
    <3>1. CASE mining.round = Nil
      BY <2>2, <3>1 DEF RoundsInv, MiningOnNewest
    <3>2. CASE mining.round # Nil
      <4>1. IsNewest(db, mining.round) /\ mining.round < r
        BY <2>2, <3>2 DEF RoundsInv, MiningOnNewest
      <4>2. db.rounds \subseteq Nat /\ r \in Nat /\ mining.round \in db.rounds
        BY <1>0, <2>1, <4>1, RoundsAreNat DEF IsNewest, Database
      <4> QED BY <4>1, <4>2 DEF IsNewest
    <3> QED BY <3>1, <3>2
  <2>6. EndsKnown(db')
    BY <2>3 DEF EndsKnown
  <2>7. OldestOf(db', m)
    <3>1. CASE mining.round = Nil
      <4>1. db.rounds = {}
        BY <2>2, <3>1 DEF RoundsInv, MiningOnNewest
      <4> QED BY <2>4, <3>1, <4>1 DEF OldestOf
    <3>2. CASE mining.round # Nil
      BY <1>0, <2>4, <2>6, <3>2, UnprocessedIsOldest DEF OldestOf
    <3> QED BY <3>1, <3>2
  <2>8. RoundStart(mining.height) = r /\ r \in Nat
    BY <2>1, RoundsAreNat
  <2> HIDE DEF r, m
  <2>9. HeightOf(m)
    BY <2>1, <2>4, <2>8, HeightInRound DEF HeightOf
  <2> QED BY <1>2, <2>2, <2>3, <2>4, <2>5, <2>6, <2>7, <2>9
<1>7. ASSUME NEW a \in Addresses, NEW v \in ShareValues, AddShare(a, v)
      PROVE  SettleInv'
  <2>1. /\ db'.rounds = db.rounds /\ db'.processed = db.processed /\ db'.blockend = db.blockend
        /\ mining.pc = "idle" /\ mining.pc' = "idle" /\ mining.round' = mining.round
        /\ mining.height' = mining.height /\ mining.unprocessed' = mining.unprocessed
        /\ UNCHANGED <<disk, dbUp, dbq, task, notify>>
    BY <1>0, <1>7 DEF AddShare, AddShares, Database, TypeOK, MiningState
  <2>2. \A r : /\ Behind(db, r) <=> Behind(db', r)
               /\ InOrder(db, r) <=> InOrder(db', r)
    BY <2>1 DEF Behind, InOrder
  <2>3. SettledBehind'
    BY <2>1, <2>2 DEF SettledBehind, Ready
  <2> QED BY <2>1, <2>2, <2>3 DEF EndsKnown, OldestOf, HeightOf
<1>8. CASE ProcessedBlock
  <2> DEFINE m == [mining EXCEPT !.unprocessed = unprocessed_round(db)]
  <2>1. /\ mining.pc = "idle" /\ roundprocessing_check(m) /\ UNCHANGED <<db, disk, dbUp, dbq, task>>
    BY <1>8 DEF ProcessedBlock
  <2>2. /\ m \in MiningState /\ m.pc = "idle" /\ m.round = mining.round
        /\ m.height = mining.height /\ m.unprocessed = unprocessed_round(db)
    BY <1>0, <2>1, UnprocessedRoundType DEF TypeOK, MiningState
  <2> HIDE DEF m
  <2>3. OldestOf(db', m)
    BY <1>0, <2>1, <2>2, UnprocessedIsOldest DEF OldestOf
  <2>4. HeightOf(m)
    BY <2>1, <2>2 DEF HeightOf
  <2>5. db'.rounds = db.rounds /\ db'.processed = db.processed /\ EndsKnown(db')
    BY <2>1
  <2> QED BY <1>2, <2>1, <2>2, <2>3, <2>4, <2>5
<1>9. CASE Notify
  <2>1. task.pc' = "none" \/ (task.pc # "none" /\ task.round' = task.round)
        \/ (notify # <<>> /\ task.round' = Head(notify))
    BY <1>9 DEF Notify, NoTask
  <2> QED BY <1>1, <1>9, <2>1 DEF Notify
<1>10. PayoutRestart => task.pc' = "none" /\ notify' = <<>>
  BY DEF PayoutRestart, NoTask
<1>11. CASE TaskGetRound
  <2>1. task.pc # "none" /\ UNCHANGED <<db, disk, dbUp, dbq, mining>>
    BY <1>11 DEF TaskGetRound
  <2>2. \/ task.pc' = "none" /\ notify' = <<>>
        \/ task.round' = task.round /\ notify' = notify
    BY <1>10, <1>11 DEF TaskGetRound, TypeOK, TaskState
  <2> QED BY <1>1, <2>1, <2>2
<1>12. CASE \/ TaskNoBalance \/ TaskGetShares \/ (\E b \in Balances : TaskBalance(b))
            \/ TaskReadTransactions \/ TaskBroadcast
  <2>1. task.pc # "none" /\ UNCHANGED <<db, disk, dbUp, dbq, mining, notify>>
    BY <1>12 DEF TaskNoBalance, TaskGetShares, TaskBalance, TaskReadTransactions, TaskBroadcast
  <2>2. task.round' = task.round
    BY <1>12 DEF TaskNoBalance, TaskGetShares, TaskBalance, TaskReadTransactions, TaskBroadcast,
                 TypeOK, TaskState
  <2> QED BY <1>1, <2>1, <2>2
<1>13. ASSUME NEW pc, pc # "none", NEW msg, NEW next, TaskCast(pc, msg, next),
              msg.type = "flush" \/ msg.round = task.round
       PROVE  SettleInv'
  <2>1. /\ UNCHANGED <<db, disk, dbUp, mining, notify>> /\ task.pc # "none"
        /\ task.round' = task.round
    BY <1>13 DEF TaskCast, TypeOK, TaskState
  <2>2. \A i \in 1..Len(dbq') : \/ i \in 1..Len(dbq) /\ dbq'[i] = dbq[i]
                                \/ dbq'[i] = msg
    BY <1>0, <1>13 DEF TaskCast, Cast
  <2> QED BY <1>1, <1>13, <2>1, <2>2
<1>14. CASE TaskInsertOwner
  <2> DEFINE msg == [type |-> "owner", round |-> task.round]
  <2>1. TaskCast("owner", msg, "insert") /\ msg.round = task.round
    BY <1>14 DEF TaskInsertOwner
  <2> QED BY <1>13, <2>1
<1>15. CASE TaskInsert
  <2> DEFINE msg == [type |-> "insert", round |-> task.round, sig |-> task.sig]
  <2>1. TaskCast("insert", msg, "setprocessed") /\ msg.round = task.round
    BY <1>15 DEF TaskInsert
  <2> QED BY <1>13, <2>1
<1>16. CASE TaskSetProcessed
  <2> DEFINE msg == [type |-> "setprocessed", round |-> task.round, mined |-> task.mined]
  <2>1. TaskCast("setprocessed", msg, "flush") /\ msg.round = task.round
    BY <1>16 DEF TaskSetProcessed
  <2> QED BY <1>13, <2>1
<1>17. CASE TaskFlush
  <2> DEFINE msg == [type |-> "flush"]
  <2>1. TaskCast("flush", msg, "txs") /\ msg.type = "flush"
    BY <1>17 DEF TaskFlush
  <2> QED BY <1>13, <2>1
<1>18. CASE PayoutDone \/ PayoutFails \/ TaskCallFails
  <2>1. UNCHANGED <<db, disk, dbUp, dbq>> /\ task.pc' = "none"
    BY <1>10, <1>18 DEF PayoutDone, PayoutFails, TaskCallFails, NoTask
  <2>2. UNCHANGED mining /\ (notify' = notify \/ notify' = <<>>)
    BY <1>10, <1>18 DEF PayoutDone, PayoutFails, TaskCallFails
  <2> QED BY <1>1, <2>1, <2>2
<1>19. CASE DBHandlesCast
  <2>1. /\ dbUp /\ UNCHANGED <<dbUp, mining, task, notify>> /\ disk' \in {disk, db}
        /\ dbq # <<>> /\ dbq' = Tail(dbq)
    BY <1>19 DEF DBHandlesCast, DBInsertOwnerPayout, DBInsertTransactions, DBSetProcessed, DBFlush,
                 HandleCast
  <2>2. db'.rounds = db.rounds /\ db'.blockend = db.blockend
    <3>1. CASE DBInsertOwnerPayout \/ DBInsertTransactions
      BY <1>0, <3>1, RoundsKept DEF DBInsertOwnerPayout, DBInsertTransactions
    <3>2. CASE DBSetProcessed \/ DBFlush
      BY <1>0, <3>2, RoundsKept DEF DBSetProcessed, DBFlush
    <3> QED BY <1>19, <3>1, <3>2 DEF DBHandlesCast
  <2>3. db.processed \subseteq db'.processed /\ \A r \in db'.processed : Behind(db, r)
    <3>1. CASE DBInsertOwnerPayout \/ DBInsertTransactions \/ DBFlush
      <4>1. db'.processed = db.processed
        BY <1>0, <3>1 DEF DBInsertOwnerPayout, DBInsertTransactions, DBFlush, InsertOwnerPayout,
                          InsertTransactions, Database
      <4> QED BY <4>1 DEF SettledBehind
    <3>2. CASE DBSetProcessed
      <4>1. Head(dbq) = dbq[1] /\ 1 \in 1..Len(dbq) /\ Head(dbq).type = "setprocessed"
        BY <1>0, <2>1, <3>2 DEF DBSetProcessed, HandleCast
      <4>2. Behind(db, Head(dbq).round)
        BY <4>1 DEF SettledBehind
      <4>3. db'.processed = db.processed \cup {Head(dbq).round}
        BY <1>0, <3>2, <4>2 DEF DBSetProcessed, SetProcessed, Behind, Database
      <4> QED BY <4>2, <4>3 DEF SettledBehind
    <3> QED BY <1>19, <3>1, <3>2 DEF DBHandlesCast
  <2> QED BY <1>3, <2>1, <2>2, <2>3
<1>20. CASE DBTimedFlush
  <2>1. dbUp /\ UNCHANGED <<db, dbUp, dbq, mining, task, notify>> /\ disk' = db
    BY <1>20 DEF DBTimedFlush
  <2> QED BY <1>3, <2>1 DEF SettledBehind
\* Steps in which Mining stops, with the rest of the pool or alone.
<1>21. ASSUME mining' = MiningDown, UNCHANGED disk,
              \/ UNCHANGED <<db, dbUp, dbq, task, notify>>
              \/ db' = disk /\ dbq' = <<>> /\ task.pc' = "none" /\ notify' = <<>>
       PROVE  SettleInv'
  <2>1. OldestOf(db, mining)' /\ HeightOf(mining)'
    BY <1>21 DEF OldestOf, HeightOf, MiningDown
  <2> QED BY <1>21, <2>1 DEF SettledBehind, Ready, Behind, InOrder, EndsKnown
<1>22. CASE MiningCrashes
  BY <1>21, <1>22 DEF MiningCrashes, MiningFails
<1>23. CASE PoolStops
  BY <1>10, <1>21, <1>23 DEF PoolStops, DBDown
<1>24. CASE DBInit
  <2>1. /\ db' = db /\ ~dbUp /\ mining.pc = "down" /\ task.pc = "none"
        /\ UNCHANGED <<disk, dbq, mining, task, notify>>
    BY <1>24 DEF DBInit, RoundsInv, DownIsDisk
  <2> QED BY <2>1 DEF SettledBehind, Ready, Behind, InOrder, EndsKnown, OldestOf, HeightOf
<1>25. CASE DBFails
  <2>1. task.pc = "none" /\ notify = <<>>
    BY <1>25, OutlivedStays
  <2> QED BY <1>21, <1>25, <2>1 DEF DBFails, DBDown
<1>26. CASE NodesFail \/ (\E h \in Heights : HeightLost(h)) \/ UNCHANGED vars
  <2>1. UNCHANGED <<db, disk, dbUp, dbq, mining, task, notify>>
    BY <1>26 DEF NodesFail, HeightLost, vars
  <2> QED BY <2>1 DEF SettledBehind, Ready, Behind, InOrder, EndsKnown, OldestOf, HeightOf
<1> QED
  BY <1>4, <1>5, <1>6, <1>7, <1>8, <1>9, <1>11, <1>12, <1>14, <1>15, <1>16, <1>17, <1>18, <1>19,
     <1>20, <1>22, <1>23, <1>24, <1>25, <1>26
  DEF Next, MiningNext, PayoutNext, DBNext, FaultNext

\* What holds while no payout outlived the database.
Settled == ~faults.outlived => SettleInv

(* Rounds are paid behind the round that is mined, in order.               *)
THEOREM SettledCorrect ==
  ASSUME Deployment
  PROVE  Spec => [](TInv /\ RoundsInv /\ Settled)
<1>1. Init => Settled
  BY DEF Init, Settled, SettleInv, SettledBehind, EndsKnown, OldestOf, HeightOf, MiningDown, NoTask,
     EmptyDatabase
<1>2. TInv /\ TInv' /\ RoundsInv /\ RoundsInv' /\ Settled /\ [Next]_vars => Settled'
  BY SettleInvInductive, OutlivedStays DEF Settled
<1> QED BY <1>1, <1>2, RoundsCorrect, PTL DEF Spec

(* A share goes to the round that is mined, which is not behind another;   *)
(* the rows of every other round stay, while the database process runs.    *)
LEMMA SharesStep ==
  ASSUME TInv, RoundsInv, [Next]_vars, dbUp, dbUp', NEW r, Behind(db, r)
  PROVE  db'.shares[r] = db.shares[r] /\ db'.total[r] = db.total[r]
<1>0. db \in Database /\ mining \in MiningState
  BY DEF TInv, TypeOK
<1>2. ASSUME NEW a \in Addresses, NEW v \in ShareValues, AddShare(a, v)
      PROVE  db'.shares[r] = db.shares[r] /\ db'.total[r] = db.total[r]
  <2>1. mining.round # Nil /\ mining.pc = "idle" /\ db' = AddShares(db, mining.round, a, v)
    BY <1>2 DEF AddShare
  <2>2. IsNewest(db, mining.round)
    BY <2>1 DEF RoundsInv, MiningOnNewest
  <2>3. r # mining.round
    <3>1. PICK q \in db.rounds : r < q
      BY DEF Behind
    <3>2. q <= mining.round /\ q \in Nat /\ mining.round \in Nat
      BY <1>0, <2>2, RoundsAreNat DEF IsNewest, Database
    <3> QED BY <3>1, <3>2
  <2> QED BY <1>0, <2>1, <2>3 DEF AddShares, Database
<1>3. CASE MiningInit \/ ProcessedBlock \/ PayoutNext \/ DBTimedFlush \/ PayoutFails
           \/ TaskCallFails \/ NodesFail \/ (\E h \in Heights : HeightLost(h))
           \/ MiningCrashes \/ UNCHANGED vars
  <2>1. db' = db
    BY <1>3 DEF MiningInit, ProcessedBlock, PayoutNext, Notify, TaskGetRound, TaskNoBalance,
       TaskGetShares, TaskBalance, TaskInsertOwner, TaskInsert, TaskSetProcessed, TaskFlush,
       TaskCast, TaskReadTransactions, TaskBroadcast, PayoutDone, DBTimedFlush, PayoutFails,
       TaskCallFails, NodesFail, HeightLost, MiningCrashes, MiningFails, vars
  <2> QED BY <2>1
<1>4. ASSUME NEW h \in Heights, NewHeight(h)
      PROVE  db'.shares = db.shares /\ db'.total = db.total
  BY <1>0, <1>4 DEF NewHeight, SameRound, EndRound, SetEnd, Database
<1>5. CASE InsertNewRound
  BY <1>0, <1>5 DEF InsertNewRound, InsertRound, Database
<1>6. CASE DBHandlesCast
  BY <1>0, <1>6 DEF DBHandlesCast, DBInsertOwnerPayout, DBInsertTransactions, DBSetProcessed,
     DBFlush, InsertOwnerPayout, InsertTransactions, SetProcessed, Database
<1>7. CASE DBInit \/ DBFails \/ PoolStops
  BY <1>7 DEF DBInit, DBFails, PoolStops, DBDown
<1> QED
  BY <1>2, <1>3, <1>4, <1>5, <1>6, <1>7 DEF Next, MiningNext, DBNext, FaultNext

(* No share is added to a round whose payout started or is done, for every *)
(* number of miners, rounds and faults, until the database process fails   *)
(* during a payout.                                                        *)
THEOREM StartedRoundsFrozen ==
  ASSUME Deployment
  PROVE  Spec => SharesFrozen
<1>1. TInv /\ RoundsInv /\ Settled /\ [Next]_vars
        => (dbUp /\ dbUp' /\ ~faults.outlived
              => \A r \in Rounds : PayoutStarted(r) => db'.shares[r] = db.shares[r])
  <2> SUFFICES ASSUME TInv, RoundsInv, SettleInv, [Next]_vars, dbUp, dbUp',
                      NEW r \in Rounds, PayoutStarted(r)
               PROVE  db'.shares[r] = db.shares[r]
    BY DEF Settled
  <2>1. Behind(db, r)
    BY DEF PayoutStarted, SettleInv, SettledBehind, Ready
  <2> QED BY <2>1, SharesStep
<1> QED BY <1>1, SettledCorrect, PTL DEF Spec, SharesFrozen

-------------------------------------------------------------------------------
(* The payouts of a round are covered by what was mined.                   *)

\* A task has the total of its round from when it read it on, and its amounts
\* are covered by the balance it saw.
CoverInv ==
  /\ task.pc \notin {"none", "round"} => task.total = db.total[task.round]
  /\ task.pc \in {"round", "balance", "shares"} => task.amount = NoTask.amount
  /\ PayoutsCovered

(* Nothing is taken before the amounts are known.                          *)
LEMMA NothingTaken == PayoutSum(NoTask.amount) = 0
<1> DEFINE z == NoTask.amount
           e == [a \in DOMAIN z |-> IF z[a] > 0 THEN z[a] + TxFee ELSE 0]
<1>1. z = [a \in Addresses |-> 0]
  BY DEF NoTask
<1>2. e = [a \in Addresses |-> 0]
  BY <1>1
<1> QED BY <1>2, SumOfZeros DEF PayoutSum

\* And nothing is covered by any balance.
LEMMA NothingIsCovered ==
  ASSUME NEW m \in Nat
  PROVE  100 * PayoutSum(NoTask.amount) <= (100 - Fee) * m
<1>1. 100 - Fee \in Nat
  BY FeeAssumption
<1>2. 0 <= (100 - Fee) * m
  BY <1>1
<1> QED BY <1>2, NothingTaken

(* A step keeps the payouts covered.                                       *)
LEMMA CoverInvInductive ==
  TInv /\ RoundsInv /\ SumsInv /\ SettleInv /\ CoverInv /\ [Next]_vars /\ ~faults'.outlived
    => CoverInv'
<1> SUFFICES ASSUME TInv, RoundsInv, SumsInv, SettleInv, CoverInv, [Next]_vars, ~faults'.outlived
             PROVE  CoverInv'
  OBVIOUS
<1>0. db \in Database /\ task \in TaskState /\ dbUp \in BOOLEAN
  BY DEF TInv, TypeOK
<1>1. \A m \in Nat : 100 * PayoutSum(NoTask.amount) <= (100 - Fee) * m
  BY NothingIsCovered
\* Without a task nothing is covered.
<1>2. ASSUME task' = NoTask
      PROVE  CoverInv'
  BY <1>1, <1>2 DEF CoverInv, PayoutsCovered, NoTask
\* Steps that leave the task alone keep the total of its round.
<1>3. ASSUME task' = task, (dbUp => dbUp') \/ task.pc = "none"
      PROVE  CoverInv'
  <2>1. CASE task.pc \in {"none", "round"}
    BY <1>3, <2>1 DEF CoverInv, PayoutsCovered
  <2>2. CASE task.pc \notin {"none", "round"}
    <3>1. Behind(db, task.round) /\ dbUp /\ dbUp'
      BY <1>0, <1>3, <2>2 DEF SettleInv, SettledBehind, Ready
    <3>2. db'.total[task.round] = db.total[task.round]
      BY <3>1, SharesStep
    <3> QED BY <1>3, <3>2 DEF CoverInv, PayoutsCovered
  <2> QED BY <2>1, <2>2
\* Steps of the task after it made its transactions.
<1>4. ASSUME UNCHANGED db, task.pc \notin {"none", "round"}, task.pc' \notin {"none", "round", "balance", "shares"},
             task'.round = task.round, task'.total = task.total,
             task'.amount = task.amount, task'.mined = task.mined
      PROVE  CoverInv'
  BY <1>4 DEF CoverInv, PayoutsCovered
<1>5. CASE Notify
  <2>1. CASE task.pc = "none"
    <3>1. task' = [NoTask EXCEPT !.pc = "round", !.round = Head(notify)]
      BY <1>5, <2>1 DEF Notify
    <3>2. task'.pc = "round" /\ task'.amount = NoTask.amount /\ task'.mined = 0
      BY <3>1 DEF NoTask
    <3> QED BY <1>1, <3>2 DEF CoverInv, PayoutsCovered
  <2>2. CASE task.pc # "none"
    BY <1>3, <1>5, <2>2 DEF Notify
  <2> QED BY <2>1, <2>2
<1>6. CASE TaskGetRound
  <2>1. CASE task.round \in db.rounds
    <3>1. /\ task'.pc = "balance" /\ task'.total = db.total[task.round] /\ task'.round = task.round
          /\ task'.amount = task.amount /\ task'.mined = task.mined /\ UNCHANGED db
          /\ task.pc = "round"
      BY <1>0, <1>6, <2>1 DEF TaskGetRound, TaskState
    <3> QED BY <3>1 DEF CoverInv, PayoutsCovered
  <2>2. CASE task.round \notin db.rounds
    BY <1>2, <1>6, <2>2 DEF TaskGetRound, PayoutRestart
  <2> QED BY <2>1, <2>2
<1>7. ASSUME NEW b \in Balances, TaskBalance(b)
      PROVE  CoverInv'
  <2>1. /\ task.pc = "balance" /\ task'.pc = "shares" /\ task'.mined = b /\ UNCHANGED db
        /\ task'.total = task.total /\ task'.round = task.round /\ task'.amount = task.amount
    BY <1>0, <1>7 DEF TaskBalance, TaskState
  <2>2. b \in Nat
    BY ConfigAssumption
  <2> QED BY <1>1, <2>1, <2>2 DEF CoverInv, PayoutsCovered
<1>8. CASE TaskGetShares
  <2> DEFINE r == task.round
  <2>1. task.pc = "shares" /\ UNCHANGED db /\ r \in Rounds /\ task.mined \in Nat
    BY <1>0, <1>8 DEF TaskGetShares, TInv, WaitsAndRuns, TaskState
  <2>2. /\ task'.pc \in {"owner", "insert"} /\ task'.round = r /\ task'.total = task.total
        /\ task'.mined = task.mined
        /\ task'.amount = [a \in Addresses |->
             IF Unpaid(db, r, a) THEN Payout(task.mined, db.shares[r][a], task.total) ELSE 0]
    BY <1>0, <1>8 DEF TaskGetShares, TaskState
  <2>3. task.total = db.total[r] /\ db.total[r] = SumFunction(db.shares[r])
    BY <2>1 DEF CoverInv, SumsInv, TotalsOf
  <2>4. db.shares[r] \in [Addresses -> Nat] /\ db.total[r] \in Nat
    BY <1>0, <2>1 DEF Database, PerRow
  <2>5. task'.amount \in [Addresses -> Nat]
    <3>1. \A a \in Addresses : Payout(task.mined, db.shares[r][a], task.total) \in Nat
      BY <2>1, <2>3, <2>4, PayoutIsNat
    <3> QED BY <2>2, <3>1
  <2>6. 100 * PayoutSum(task'.amount) <= (100 - Fee) * task.mined
    BY <2>1, <2>2, <2>3, <2>4, <2>5, FiniteAssumption, PayoutsWithinPart
  <2> HIDE DEF r
  <2> QED BY <2>1, <2>2, <2>3, <2>6 DEF CoverInv, PayoutsCovered, r
<1>9. CASE TaskNoBalance
  BY <1>0, <1>4, <1>9 DEF TaskNoBalance, TaskState
<1>10. CASE TaskInsertOwner \/ TaskInsert \/ TaskSetProcessed \/ TaskFlush
  BY <1>0, <1>4, <1>10 DEF TaskInsertOwner, TaskInsert, TaskSetProcessed, TaskFlush, TaskCast, TaskState
<1>11. CASE TaskReadTransactions \/ TaskBroadcast
  BY <1>0, <1>4, <1>11 DEF TaskReadTransactions, TaskBroadcast, TaskState
<1>12. CASE PayoutDone \/ PayoutFails \/ TaskCallFails \/ PoolStops
  BY <1>2, <1>12 DEF PayoutDone, PayoutFails, TaskCallFails, PoolStops, PayoutRestart
<1>13. CASE MiningNext
  BY <1>3, <1>13 DEF MiningNext, MiningInit, InsertNewRound, ProcessedBlock, NewHeight, AddShare
<1>14. CASE DBNext
  BY <1>3, <1>14 DEF DBNext, DBHandlesCast, DBInsertOwnerPayout, DBInsertTransactions,
     DBSetProcessed, DBFlush, HandleCast, DBTimedFlush, DBInit
<1>15. CASE MiningCrashes \/ NodesFail \/ (\E h \in Heights : HeightLost(h)) \/ UNCHANGED vars
  BY <1>3, <1>15 DEF MiningCrashes, MiningFails, NodesFail, HeightLost, vars
<1>16. CASE DBFails
  <2>1. task' = task /\ task.pc = "none"
    BY <1>16, OutlivedStays DEF DBFails
  <2> QED BY <1>3, <2>1
<1> QED
  BY <1>5, <1>6, <1>7, <1>8, <1>9, <1>10, <1>11, <1>12, <1>13, <1>14, <1>15, <1>16
  DEF Next, PayoutNext, FaultNext

\* What holds while no payout outlived the database.
Covered == ~faults.outlived => CoverInv

(* A round's shares add up, in Mining's memory and in what a task pays:    *)
(* for every number of miners and every balance, the transactions made for *)
(* a round are covered by the balance its wallet was seen to hold, until   *)
(* the database process fails during a payout.                             *)
THEOREM RoundAmountsCorrect ==
  ASSUME Deployment
  PROVE  Spec => []RoundAmounts
<1>1. Init => Covered
  BY NothingIsCovered DEF Init, Covered, CoverInv, PayoutsCovered, NoTask
<1>2. TInv /\ RoundsInv /\ SumsInv /\ Settled /\ Covered /\ [Next]_vars => Covered'
  BY CoverInvInductive, OutlivedStays DEF Settled, Covered
<1>3. Covered /\ ShareTotals => RoundAmounts
  BY DEF Covered, CoverInv, RoundAmounts
<1> QED
  BY <1>1, <1>2, <1>3, TotalsCorrect, TotalIsSum, SettledCorrect, PTL DEF Spec

-------------------------------------------------------------------------------
(* What is processed was paid.                                             *)

\* A payout that has no transaction yet.
IsOwed(d, r, a, mined) ==
  HasRow(d, r, a) /\ Payout(mined, d.shares[r][a], d.total[r]) > 0 /\ d.tx[r][a] = 0
NoneOwed(d) == \A r \in d.processed, a \in Addresses : ~IsOwed(d, r, a, d.reward[r])

\* One of the first n casts of the mailbox q stores a transaction for the row.
InsertedBy(cast, r, a) == cast.type = "insert" /\ cast.round = r /\ cast.sig[a] # 0
InsertedBefore(q, r, a, n) == \E i \in 1..n : InsertedBy(q[i], r, a)

\* A round is marked as processed behind the transactions of all it owes.
PaidInv ==
  /\ NoneOwed(db) /\ NoneOwed(disk)
  /\ \A j \in 1..Len(dbq) : dbq[j].type = "setprocessed" =>
       \A a \in Addresses : IsOwed(db, dbq[j].round, a, dbq[j].mined)
                              => InsertedBefore(dbq, dbq[j].round, a, j - 1)
  /\ task.pc = "setprocessed" =>
       \A a \in Addresses : IsOwed(db, task.round, a, task.mined)
                              => InsertedBefore(dbq, task.round, a, Len(dbq))
  /\ task.pc \in {"owner", "insert"} =>
       \A a \in Addresses : IsOwed(db, task.round, a, task.mined) => task.sig[a] # 0

(* A step keeps the processed rounds paid.                                 *)
LEMMA PaidInvInductive ==
  TInv /\ RoundsInv /\ SettleInv /\ CoverInv /\ PaidInv /\ [Next]_vars /\ ~faults'.outlived
    => PaidInv'
<1> SUFFICES ASSUME TInv, RoundsInv, SettleInv, CoverInv, PaidInv, [Next]_vars, ~faults'.outlived
             PROVE  PaidInv'
  OBVIOUS
<1>0. /\ db \in Database /\ task \in TaskState /\ dbUp \in BOOLEAN /\ dbq \in Seq(Casts)
      /\ signed \in PerRow(Nat)
  BY DEF TInv, TypeOK
\* Steps that only add shares to the newest round, or commit.
<1>1. ASSUME db'.processed = db.processed, db'.reward = db.reward, db'.tx = db.tx,
             dbUp, dbUp', disk' \in {disk, db}, UNCHANGED <<dbq, task>>
      PROVE  PaidInv'
  <2>1. \A r, a, m : Behind(db, r) => (IsOwed(db', r, a, m) <=> IsOwed(db, r, a, m))
    BY <1>1, SharesStep DEF IsOwed, HasRow
  <2>2. NoneOwed(db') /\ NoneOwed(disk')
    BY <1>1, <2>1 DEF PaidInv, NoneOwed, SettleInv, SettledBehind
  <2>3. task.pc # "none" => Behind(db, task.round)
    BY DEF SettleInv, SettledBehind, Ready
  <2>4. \A j \in 1..Len(dbq) : dbq[j].type = "setprocessed" => Behind(db, dbq[j].round)
    BY DEF SettleInv, SettledBehind
  <2> QED BY <1>1, <2>1, <2>2, <2>3, <2>4 DEF PaidInv
\* Steps that leave the database and send at most a flush.
<1>2. ASSUME UNCHANGED <<db, disk>>, task.pc' \notin {"owner", "insert", "setprocessed"},
             dbq' \in {dbq, <<>>}
      PROVE  PaidInv'
  BY <1>2 DEF PaidInv
\* Steps that send a cast.
<1>3. ASSUME NEW c \in Casts, UNCHANGED <<db, disk>>, dbq' = Append(dbq, c),
             c.type = "setprocessed" =>
               task.pc = "setprocessed" /\ c.round = task.round /\ c.mined = task.mined,
             task.pc' = "setprocessed" =>
               c.type = "insert" /\ c.round = task.round /\ c.sig = task.sig
                 /\ task.pc = "insert",
             task.pc' \in {"owner", "insert"} => task.pc \in {"owner", "insert"},
             task'.round = task.round, task'.mined = task.mined, task'.sig = task.sig
      PROVE  PaidInv'
  <2>1. /\ Len(dbq') = Len(dbq) + 1 /\ dbq'[Len(dbq')] = c /\ Len(dbq) \in Nat
        /\ \A i \in 1..Len(dbq) : dbq'[i] = dbq[i]
    BY <1>0, <1>3
  <2>2. \A r, a : \A n \in 0..Len(dbq) : InsertedBefore(dbq, r, a, n) => InsertedBefore(dbq', r, a, n)
    BY <2>1 DEF InsertedBefore
  <2>3. ASSUME NEW j \in 1..Len(dbq'), dbq'[j].type = "setprocessed", NEW a \in Addresses,
               IsOwed(db, dbq'[j].round, a, dbq'[j].mined)
        PROVE  InsertedBefore(dbq', dbq'[j].round, a, j - 1)
    <3>1. CASE j \in 1..Len(dbq)
      <4>1. dbq'[j] = dbq[j] /\ j - 1 \in 0..Len(dbq)
        BY <2>1, <3>1
      <4>2. InsertedBefore(dbq, dbq[j].round, a, j - 1)
        BY <2>3, <3>1, <4>1 DEF PaidInv
      <4> QED BY <2>2, <4>1, <4>2
    <3>2. CASE j = Len(dbq')
      <4>1. dbq'[j] = c /\ j - 1 = Len(dbq) /\ Len(dbq) \in 0..Len(dbq)
        BY <2>1, <3>2
      <4>2. InsertedBefore(dbq, task.round, a, Len(dbq))
        BY <1>3, <2>3, <4>1 DEF PaidInv
      <4> QED BY <1>3, <2>2, <2>3, <4>1, <4>2
    <3> QED BY <2>1, <3>1, <3>2
  <2>4. ASSUME task.pc' = "setprocessed", NEW a \in Addresses, IsOwed(db, task.round, a, task.mined)
        PROVE  InsertedBefore(dbq', task.round, a, Len(dbq'))
    <3>1. task.sig[a] # 0
      BY <1>3, <2>4 DEF PaidInv
    <3>2. InsertedBy(dbq'[Len(dbq')], task.round, a) /\ Len(dbq') \in 1..Len(dbq')
      BY <1>3, <2>1, <2>4, <3>1 DEF InsertedBy
    <3> QED BY <3>2 DEF InsertedBefore
  <2> QED BY <1>3, <2>3, <2>4 DEF PaidInv
\* Steps that take a cast.
<1>4. ASSUME dbq # <<>>, dbq' = Tail(dbq), task' = task, NoneOwed(db'), NoneOwed(disk'),
             \A r \in Rounds, a \in Addresses : \A m : IsOwed(db', r, a, m) =>
               IsOwed(db, r, a, m) /\ ~InsertedBy(Head(dbq), r, a)
      PROVE  PaidInv'
  <2>1. /\ Head(dbq) = dbq[1] /\ Len(dbq') = Len(dbq) - 1 /\ Len(dbq) \in Nat /\ dbq' \in Seq(Casts)
        /\ \A i \in 1..Len(dbq') : dbq'[i] = dbq[i + 1] /\ i + 1 \in 1..Len(dbq)
    BY <1>0, <1>4, TailOfMailbox
  <2>2. ASSUME NEW r \in Rounds, NEW a \in Addresses, NEW m, IsOwed(db', r, a, m),
               NEW n \in Nat, n <= Len(dbq'), InsertedBefore(dbq, r, a, n + 1)
        PROVE  InsertedBefore(dbq', r, a, n)
    <3>1. PICK i \in 1..(n + 1) : InsertedBy(dbq[i], r, a)
      BY <2>2 DEF InsertedBefore
    <3>2. i # 1
      BY <1>4, <2>1, <2>2, <3>1
    <3>3. i - 1 \in 1..n /\ i - 1 \in 1..Len(dbq') /\ (i - 1) + 1 = i
      BY <2>1, <2>2, <3>2
    <3>4. InsertedBy(dbq'[i - 1], r, a)
      BY <2>1, <3>1, <3>3
    <3> QED BY <3>3, <3>4 DEF InsertedBefore
  <2>3. ASSUME NEW j \in 1..Len(dbq'), dbq'[j].type = "setprocessed", NEW a \in Addresses,
               IsOwed(db', dbq'[j].round, a, dbq'[j].mined)
        PROVE  InsertedBefore(dbq', dbq'[j].round, a, j - 1)
    <3>1. dbq'[j] = dbq[j + 1] /\ j + 1 \in 1..Len(dbq) /\ (j + 1) - 1 = (j - 1) + 1
          /\ j - 1 \in Nat /\ j - 1 <= Len(dbq')
      BY <2>1
    <3>2. dbq'[j].round \in Rounds
      <4>1. dbq'[j] \in Casts
        BY <2>1
      <4> QED BY <2>3, <4>1 DEF Casts, OwnerCast, InsertCast, ProcessedCast, FlushCast
    <3>3. InsertedBefore(dbq, dbq'[j].round, a, (j - 1) + 1)
      BY <1>4, <2>3, <3>1, <3>2 DEF PaidInv
    <3> QED BY <2>2, <2>3, <3>1, <3>2, <3>3
  <2>4. ASSUME task.pc = "setprocessed", NEW a \in Addresses, IsOwed(db', task.round, a, task.mined)
        PROVE  InsertedBefore(dbq', task.round, a, Len(dbq'))
    <3>1. task.round \in Rounds /\ Len(dbq') \in Nat /\ Len(dbq) = Len(dbq') + 1
          /\ Len(dbq') <= Len(dbq')
      BY <2>1, <2>4 DEF TInv, WaitsAndRuns
    <3>2. InsertedBefore(dbq, task.round, a, Len(dbq') + 1)
      BY <1>4, <2>4, <3>1 DEF PaidInv
    <3> QED BY <2>2, <2>4, <3>1, <3>2
  <2>5. task.pc \in {"owner", "insert"} =>
          \A a \in Addresses : IsOwed(db', task.round, a, task.mined) => task.sig[a] # 0
    BY <1>4 DEF PaidInv, TInv, WaitsAndRuns
  <2> QED BY <1>4, <2>3, <2>4, <2>5 DEF PaidInv
<1>5. CASE MiningNext
  <2>1. dbUp
    BY <1>5 DEF MiningNext, MiningInit, InsertNewRound, ProcessedBlock, NewHeight, AddShare,
       RoundsInv, DownIsDisk
  <2>2. UNCHANGED <<disk, dbUp, dbq, task>>
    BY <1>5 DEF MiningNext, MiningInit, InsertNewRound, ProcessedBlock, NewHeight, AddShare
  <2>3. db'.processed = db.processed /\ db'.reward = db.reward /\ db'.tx = db.tx
    BY <1>0, <1>5 DEF MiningNext, MiningInit, InsertNewRound, InsertRound, ProcessedBlock,
       NewHeight, SameRound, EndRound, SetEnd, AddShare, AddShares, Database
  <2> QED BY <1>1, <2>1, <2>2, <2>3
<1>6. CASE TaskGetShares
  <2> DEFINE r == task.round
  <2>1. /\ task.pc = "shares" /\ UNCHANGED <<db, disk, dbq>> /\ r \in Rounds
        /\ task.total = db.total[r]
    BY <1>6 DEF TaskGetShares, TInv, WaitsAndRuns, CoverInv
  <2>2. ASSUME NEW a \in Addresses, IsOwed(db, r, a, task.mined)
        PROVE  task'.sig[a] # 0
    <3>1. Unpaid(db, r, a) /\ Payout(task.mined, db.shares[r][a], task.total) > 0
      BY <2>1, <2>2 DEF IsOwed, Unpaid
    <3>2. task'.sig[a] = signed[r][a] + 1
      BY <1>0, <1>6, <3>1 DEF TaskGetShares, TaskState
    <3>3. signed[r][a] \in Nat
      BY <1>0, <2>1 DEF PerRow
    <3> QED BY <3>2, <3>3
  <2>3. task'.round = r /\ task'.mined = task.mined /\ task'.pc \in {"owner", "insert"}
    BY <1>0, <1>6 DEF TaskGetShares, TaskState
  <2> HIDE DEF r
  <2> QED BY <2>1, <2>2, <2>3 DEF PaidInv, r
<1>7. CASE TaskInsertOwner \/ TaskInsert \/ TaskSetProcessed \/ TaskFlush
  <2>1. dbUp
    BY <1>0, <1>7 DEF TaskInsertOwner, TaskInsert, TaskSetProcessed, TaskFlush, TaskCast, SettleInv
  <2>2. task.round \in Rounds /\ task.mined \in Nat /\ task.sig \in [Addresses -> Nat]
    BY <1>0, <1>7 DEF TaskInsertOwner, TaskInsert, TaskSetProcessed, TaskFlush, TaskCast,
       TInv, WaitsAndRuns, TaskState
  <2>3. CASE TaskInsertOwner
    <3> DEFINE c == [type |-> "owner", round |-> task.round]
    <3>1. /\ UNCHANGED <<db, disk>> /\ dbq' = Append(dbq, c) /\ task.pc = "owner" /\ task'.pc = "insert"
          /\ task'.round = task.round /\ task'.mined = task.mined /\ task'.sig = task.sig
      BY <1>0, <2>1, <2>3 DEF TaskInsertOwner, TaskCast, Cast, TaskState
    <3>2. c \in Casts /\ c.type = "owner"
      BY <2>2 DEF Casts, OwnerCast
    <3> QED BY <1>3, <3>1, <3>2
  <2>4. CASE TaskInsert
    <3> DEFINE c == [type |-> "insert", round |-> task.round, sig |-> task.sig]
    <3>1. /\ UNCHANGED <<db, disk>> /\ dbq' = Append(dbq, c) /\ task.pc = "insert"
          /\ task'.pc = "setprocessed"
          /\ task'.round = task.round /\ task'.mined = task.mined /\ task'.sig = task.sig
      BY <1>0, <2>1, <2>4 DEF TaskInsert, TaskCast, Cast, TaskState
    <3>2. c \in Casts /\ c.type = "insert" /\ c.round = task.round /\ c.sig = task.sig
      BY <2>2 DEF Casts, InsertCast
    <3> QED BY <1>3, <3>1, <3>2
  <2>5. CASE TaskSetProcessed
    <3> DEFINE c == [type |-> "setprocessed", round |-> task.round, mined |-> task.mined]
    <3>1. /\ UNCHANGED <<db, disk>> /\ dbq' = Append(dbq, c) /\ task.pc = "setprocessed"
          /\ task'.pc = "flush"
          /\ task'.round = task.round /\ task'.mined = task.mined /\ task'.sig = task.sig
      BY <1>0, <2>1, <2>5 DEF TaskSetProcessed, TaskCast, Cast, TaskState
    <3>2. c \in Casts /\ c.type = "setprocessed" /\ c.round = task.round /\ c.mined = task.mined
      BY <2>2 DEF Casts, ProcessedCast
    <3> QED BY <1>3, <3>1, <3>2
  <2>6. CASE TaskFlush
    <3> DEFINE c == [type |-> "flush"]
    <3>1. /\ UNCHANGED <<db, disk>> /\ dbq' = Append(dbq, c) /\ task'.pc = "txs"
          /\ task'.round = task.round /\ task'.mined = task.mined /\ task'.sig = task.sig
      BY <1>0, <2>1, <2>6 DEF TaskFlush, TaskCast, Cast, TaskState
    <3>2. c \in Casts /\ c.type = "flush"
      BY DEF Casts, FlushCast
    <3> QED BY <1>3, <3>1, <3>2
  <2> QED BY <1>7, <2>3, <2>4, <2>5, <2>6
<1>8. CASE DBHandlesCast
  <2>1. dbq # <<>> /\ dbq' = Tail(dbq) /\ task' = task /\ dbUp
    BY <1>8 DEF DBHandlesCast, DBInsertOwnerPayout, DBInsertTransactions, DBSetProcessed, DBFlush,
       HandleCast
  <2> DEFINE c == Head(dbq)
  <2>2. c \in Casts /\ c = dbq[1] /\ 1 \in 1..Len(dbq)
    BY <1>0, <2>1, TailOfMailbox
  <2>3. CASE DBInsertOwnerPayout \/ DBFlush
    <3>1. /\ c.type # "insert" /\ disk' \in {disk, db} /\ db'.processed = db.processed
          /\ db'.reward = db.reward /\ db'.tx = db.tx /\ db'.shares = db.shares
          /\ db'.total = db.total
      BY <1>0, <2>3 DEF DBInsertOwnerPayout, DBFlush, HandleCast, InsertOwnerPayout, Database
    <3>2. \A r, a, m : IsOwed(db', r, a, m) <=> IsOwed(db, r, a, m)
      BY <3>1 DEF IsOwed, HasRow
    <3>3. NoneOwed(db') /\ NoneOwed(disk')
      BY <3>1, <3>2 DEF PaidInv, NoneOwed
    <3>4. \A r, a : ~InsertedBy(c, r, a)
      BY <3>1 DEF InsertedBy
    <3> QED BY <1>4, <2>1, <3>2, <3>3, <3>4
  <2>4. CASE DBInsertTransactions
    <3>1. c.type = "insert" /\ db' = InsertTransactions(db, c.round, c.sig) /\ disk' = disk
      BY <2>4 DEF DBInsertTransactions, HandleCast
    <3>2. c.round \in Rounds /\ c.sig \in [Addresses -> Nat]
      BY <2>2, <3>1 DEF Casts, OwnerCast, InsertCast, ProcessedCast, FlushCast
    <3>3. /\ db'.processed = db.processed /\ db'.reward = db.reward
          /\ db'.shares = db.shares /\ db'.total = db.total
      BY <1>0, <3>1 DEF InsertTransactions, Database
    <3>4. \A r \in Rounds, a \in Addresses :
            db'.tx[r][a] = IF r = c.round /\ c.sig[a] # 0 /\ HasRow(db, r, a)
                           THEN c.sig[a] ELSE db.tx[r][a]
      <4>1. db.tx \in [Rounds -> [Addresses -> Nat]]
        BY <1>0 DEF Database, PerRow
      <4>2. db'.tx = [db.tx EXCEPT ![c.round] = [a \in Addresses |->
               IF c.sig[a] # 0 /\ HasRow(db, c.round, a) THEN c.sig[a] ELSE db.tx[c.round][a]]]
        BY <1>0, <3>1 DEF InsertTransactions, Database
      <4> HIDE DEF c
      <4> QED BY <3>2, <4>1, <4>2
    <3> HIDE DEF c
    <3>5. \A r \in Rounds, a \in Addresses : \A m :
            IsOwed(db', r, a, m) => IsOwed(db, r, a, m) /\ ~InsertedBy(c, r, a)
      <4> SUFFICES ASSUME NEW r \in Rounds, NEW a \in Addresses, NEW m, IsOwed(db', r, a, m)
                   PROVE  IsOwed(db, r, a, m) /\ ~InsertedBy(c, r, a)
        OBVIOUS
      <4>1. HasRow(db, r, a) /\ Payout(m, db.shares[r][a], db.total[r]) > 0 /\ db'.tx[r][a] = 0
        BY <3>3 DEF IsOwed, HasRow
      <4> QED BY <3>4, <4>1 DEF IsOwed, InsertedBy
    <3>6. NoneOwed(db') /\ NoneOwed(disk')
      <4>1. db.processed \subseteq Rounds
        BY <1>0 DEF Database
      <4> QED BY <3>1, <3>3, <3>5, <4>1 DEF PaidInv, NoneOwed
    <3> QED BY <1>4, <2>1, <3>5, <3>6 DEF c
  <2>5. CASE DBSetProcessed
    <3>1. c.type = "setprocessed" /\ db' = SetProcessed(db, c.round, c.mined) /\ disk' = disk
      BY <2>5 DEF DBSetProcessed, HandleCast
    <3>2. c.round \in Rounds
      BY <2>2, <3>1 DEF Casts, OwnerCast, InsertCast, ProcessedCast, FlushCast
    <3>3. /\ db'.processed \subseteq db.processed \cup {c.round}
          /\ \A r \in Rounds : r # c.round => db'.reward[r] = db.reward[r]
          /\ c.round \in db.rounds => db'.reward[c.round] = c.mined
          /\ c.round \notin db.rounds => db' = db
          /\ db'.shares = db.shares /\ db'.total = db.total /\ db'.tx = db.tx
      BY <1>0, <3>1, <3>2 DEF SetProcessed, Database
    <3>4. \A r, a, m : IsOwed(db', r, a, m) <=> IsOwed(db, r, a, m)
      BY <3>3 DEF IsOwed, HasRow
    <3>5. \A a \in Addresses : ~IsOwed(db, c.round, a, c.mined)
      BY <2>2, <3>1 DEF PaidInv, InsertedBefore
    <3>6. NoneOwed(db') /\ NoneOwed(disk')
      <4>1. db.processed \subseteq Rounds
        BY <1>0 DEF Database
      <4> QED BY <3>1, <3>2, <3>3, <3>4, <3>5, <4>1 DEF PaidInv, NoneOwed
    <3>7. \A r, a : ~InsertedBy(c, r, a)
      BY <3>1 DEF InsertedBy
    <3> QED BY <1>4, <2>1, <3>4, <3>6, <3>7
  <2> QED BY <1>8, <2>3, <2>4, <2>5 DEF DBHandlesCast
<1>9. CASE DBTimedFlush
  BY <1>1, <1>9 DEF DBTimedFlush
<1>10. CASE DBInit
  <2>1. db' = db /\ UNCHANGED <<disk, dbq, task>>
    BY <1>10 DEF DBInit, RoundsInv, DownIsDisk
  <2> QED BY <2>1 DEF PaidInv
<1>11. CASE \/ TaskGetRound \/ (\E b \in Balances : TaskBalance(b)) \/ TaskNoBalance
            \/ TaskReadTransactions \/ TaskBroadcast \/ PayoutDone \/ PayoutFails \/ TaskCallFails
  <2>1. task' = NoTask \/ task'.pc \in {"balance", "shares", "broadcast", "done"}
    <3>1. CASE TaskGetRound
      BY <1>0, <3>1 DEF TaskGetRound, PayoutRestart, TaskState
    <3>2. CASE (\E b \in Balances : TaskBalance(b)) \/ TaskNoBalance \/ TaskReadTransactions
               \/ TaskBroadcast
      BY <1>0, <3>2 DEF TaskBalance, TaskNoBalance, TaskReadTransactions, TaskBroadcast, TaskState
    <3>3. CASE PayoutDone \/ PayoutFails \/ TaskCallFails
      BY <3>3 DEF PayoutDone, PayoutFails, TaskCallFails, PayoutRestart
    <3> QED BY <1>11, <3>1, <3>2, <3>3
  <2>2. UNCHANGED <<db, disk, dbq>>
    BY <1>11 DEF TaskGetRound, TaskBalance, TaskNoBalance, TaskReadTransactions,
       TaskBroadcast, PayoutDone, PayoutFails, TaskCallFails
  <2> QED BY <1>2, <2>1, <2>2 DEF NoTask
<1>12. CASE Notify
  <2>1. UNCHANGED <<db, disk, dbq>> /\ (task' = task \/ task'.pc = "round")
    BY <1>12 DEF Notify, NoTask
  <2> QED BY <1>2, <2>1 DEF PaidInv
<1>13. CASE PoolStops
  <2>1. db' = disk /\ disk' = disk /\ dbq' = <<>> /\ task'.pc = "none"
    BY <1>13 DEF PoolStops, DBDown, PayoutRestart, NoTask
  <2> QED BY <2>1 DEF PaidInv
<1>14. CASE MiningCrashes \/ NodesFail \/ (\E h \in Heights : HeightLost(h)) \/ UNCHANGED vars
  <2>1. UNCHANGED <<db, disk, dbq, task>>
    BY <1>14 DEF MiningCrashes, MiningFails, NodesFail, HeightLost, vars
  <2> QED BY <2>1 DEF PaidInv
<1>15. CASE DBFails
  <2>1. db' = disk /\ disk' = disk /\ dbq' = <<>> /\ task' = task /\ task.pc = "none"
    BY <1>15, OutlivedStays DEF DBFails, DBDown
  <2> QED BY <2>1 DEF PaidInv
<1> QED
  BY <1>5, <1>6, <1>7, <1>8, <1>9, <1>10, <1>11, <1>12, <1>13, <1>14, <1>15
  DEF Next, PayoutNext, DBNext, FaultNext

\* What holds while no payout outlived the database.
SettledPaid == ~faults.outlived => PaidInv

(* Rounds are paid in order, and every payout of a committed processed     *)
(* round is saved with its transaction, for every number of miners and     *)
(* rounds and whatever crashes, until the database process fails during a  *)
(* payout.                                                                 *)
THEOREM RoundsSettledInOrder ==
  ASSUME Deployment
  PROVE  Spec => []RoundsSettled
<1>1. Init => SettledPaid /\ Covered
  BY NothingIsCovered DEF Init, SettledPaid, PaidInv, NoneOwed, EmptyDatabase, Covered, CoverInv,
                      PayoutsCovered, NoTask
<1>2. TInv /\ RoundsInv /\ Settled /\ Covered /\ SettledPaid /\ [Next]_vars => SettledPaid'
  BY PaidInvInductive, OutlivedStays DEF Settled, Covered, SettledPaid
<1>3. TInv /\ RoundsInv /\ SumsInv /\ Settled /\ Covered /\ [Next]_vars => Covered'
  BY CoverInvInductive, OutlivedStays DEF Settled, Covered
<1>4. Settled /\ SettledPaid => RoundsSettled
  BY DEF Settled, SettleInv, SettledBehind, Ready, InOrder, SettledPaid, PaidInv, NoneOwed, IsOwed,
     RoundsSettled, PaidInOrder, ProcessedPaid
<1> QED
  BY <1>1, <1>2, <1>3, <1>4, TotalsCorrect, SettledCorrect, PTL DEF Spec
================================================================================
