-------------------------- MODULE BlockExecutionProofs --------------------------
(***************************************************************************)
(* BlockExecution: a block that fails or is removed leaves every balance   *)
(* as it was, for every list of transactions, every ledger and every width *)
(* of the amounts, also where sender, receiver and miner are one wallet.   *)
(*                                                                         *)
(* BlockStore: the block database holds whole blocks at every moment, for  *)
(* blocks of every size, chains of every length and any number of crashes. *)
(***************************************************************************)
EXTENDS BlockExecution, BlockStore, ChainCoreProofs

-------------------------------------------------------------------------------
(* The steps.                                                              *)

\* What the ledger holds when the transactions from next on are not executed: what
\* was there before the next one, or after the last one.
Current(u) ==
  IF next <= Len(past) THEN ValueOf(past[next], u)
  ELSE IF Len(past) = 0 THEN ValueOf(start, u)
  ELSE Forward(txs[Len(past)], Miner(txs), u, ValueOf(past[Len(past)], u))

\* The inductive invariant: the ledgers of the past follow from each other, the
\* present one is one of theirs, and as long as deltas are remembered they explain it.
Bounds ==
  /\ txs \in Seq(Tx) /\ next \in 1 .. Len(txs) + 1
  /\ mode \in {"execute", "rollback", "stored", "undo", "restored"}
  /\ AmountMap(start) /\ ExecutionRecord(x) /\ AmountMap(x.ledger)
  /\ \E S : past \in Seq(S)
  /\ Len(past) <= Len(txs)
  /\ mode = "execute" => next = Len(past) + 1
  /\ mode \in {"stored", "undo"} => next <= Len(past) + 1
Chained ==
  /\ \A i \in 1 .. Len(past) : AmountMap(past[i])
  /\ Len(past) # 0 => \A u : ValueOf(past[1], u) = ValueOf(start, u)
  /\ \A i \in 1 .. Len(past) : i + 1 <= Len(past) =>
       \A u : ValueOf(past[i + 1], u) = Forward(txs[i], Miner(txs), u, ValueOf(past[i], u))
Inv ==
  /\ Bounds /\ Chained
  /\ mode \in {"execute", "stored", "undo"} => \A u : ValueOf(x.ledger, u) = Current(u)
  /\ mode \in {"execute", "rollback"} => Explains(x, start)
  /\ mode = "restored" => \A u : ValueOf(x.ledger, u) = ValueOf(start, u)

LEMMA InitInv == Init => Inv
<1> SUFFICES ASSUME Init PROVE Inv
  OBVIOUS
<1>1. AmountMap(start)
  BY BlockExecutionAssumption, AmountArithmetic DEF Init, AmountMap, ValueOf, Amount
<1>2. /\ ExecutionRecord(x) /\ x.ledger = start /\ x.deltas = <<>>
  BY DEF Init, Begin, ExecutionRecord
<1>3. \A u : ValueOf(<<>>, u) = 0
  BY DEF ValueOf
<1>4. Explains(x, start)
  BY <1>1, <1>2, <1>3, AmountArithmetic DEF Explains, AmountMap
<1>5. /\ txs \in Seq(Tx) /\ past = <<>> /\ next = 1 /\ mode = "execute" /\ past \in Seq({})
  BY BlockExecutionAssumption DEF Init
<1> QED
  BY <1>1, <1>2, <1>4, <1>5 DEF Inv, Bounds, Chained, Current

LEMMA ExecuteOneInv == ASSUME Inv, ExecuteOne PROVE Inv'
<1>1. /\ txs \in Seq(Tx) /\ next \in 1 .. Len(txs) /\ next = Len(past) + 1 /\ Len(past) \in Nat
      /\ AmountMap(start) /\ Explains(x, start)
      /\ txs' = txs /\ start' = start
  BY DEF Inv, Bounds, ExecuteOne
<1>2. /\ Explains(x', start)
      /\ x'.status = "SUCCESS" =>
           \A u : ValueOf(x'.ledger, u) = Forward(txs[next], Miner(txs), u, ValueOf(x.ledger, u))
  <2>1. txs[next] \in Tx
    BY <1>1
  <2> DEFINE t == txs[next]
             m == Miner(txs)
             r2 == x'
  <2>2. r2 = ExecuteNext(x, t, m, BlockMiningFee, BlockId)
    BY DEF ExecuteOne
  <2>3. t \in Tx /\ AmountMap(start) /\ Explains(x, start)
    BY <1>1, <2>1
  <2> HIDE DEF t, m, r2
  <2>4. /\ Explains(r2, start)
        /\ r2.status = "SUCCESS" =>
             \A u : ValueOf(r2.ledger, u) = Moved(t, m, BlockId, u, ValueOf(x.ledger, u))
    BY <2>2, <2>3, ExecuteExplains
  <2>5. BlockId # 1
    BY BlockExecutionAssumption
  <2> QED
    BY <2>4, <2>5, Zenon DEF t, m, r2, Moved
<1>3. ExecutionRecord(x') /\ AmountMap(x'.ledger) /\ Explains(x, start)'
  BY <1>1, <1>2 DEF Explains
<1>4. CASE x'.status # "SUCCESS"
  BY <1>1, <1>3, <1>4 DEF Inv, Bounds, Chained, ExecuteOne
<1>5. CASE x'.status = "SUCCESS"
  <2>1. past' = Append(past, x.ledger) /\ next' = next + 1 /\ mode' = mode /\ mode = "execute"
    BY <1>5 DEF ExecuteOne
  <2>2. PICK S : past \in Seq(S)
    BY DEF Inv, Bounds
  <2>3. /\ past' \in Seq(S \cup {x.ledger}) /\ Len(past') = Len(past) + 1 /\ past'[next] = x.ledger
        /\ \A i \in 1 .. Len(past) : past'[i] = past[i]
    BY <1>1, <2>1, <2>2
  <2>4. Bounds'
    BY <1>1, <1>3, <2>1, <2>3 DEF Inv, Bounds
  <2>5. \A u : ValueOf(x.ledger, u) =
           IF Len(past) = 0 THEN ValueOf(start, u)
           ELSE Forward(txs[Len(past)], Miner(txs), u, ValueOf(past[Len(past)], u))
    BY <1>1, <2>1 DEF Inv, Current
  <2>6. Chained'
    <3>1. \A i \in 1 .. Len(past') : AmountMap(past'[i])
      BY <1>1, <2>3 DEF Inv, Chained, Bounds
    <3>2. \A u : ValueOf(past'[1], u) = ValueOf(start, u)
      <4>1. CASE Len(past) = 0
        BY <1>1, <2>3, <2>5, <4>1
      <4>2. CASE Len(past) # 0
        <5>1. past'[1] = past[1]
          BY <1>1, <2>3, <4>2
        <5> QED
          BY <4>2, <5>1 DEF Inv, Chained
      <4> QED
        BY <4>1, <4>2
    <3>3. ASSUME NEW i \in 1 .. Len(past'), i + 1 <= Len(past'), NEW u
          PROVE  ValueOf(past'[i + 1], u) = Forward(txs[i], Miner(txs), u, ValueOf(past'[i], u))
      <4>1. CASE i + 1 <= Len(past)
        <5>1. i \in 1 .. Len(past) /\ i + 1 \in 1 .. Len(past)
          BY <1>1, <3>3, <4>1
        <5>2. past'[i] = past[i] /\ past'[i + 1] = past[i + 1]
          BY <2>3, <5>1
        <5> QED
          BY <4>1, <5>1, <5>2 DEF Inv, Chained
      <4>2. CASE i = Len(past)
        BY <1>1, <2>3, <2>5, <3>3, <4>2
      <4> QED
        BY <1>1, <2>3, <3>3, <4>1, <4>2
    <3> QED
      BY <1>1, <3>1, <3>2, <3>3 DEF Chained
  <2>7. \A u : ValueOf(x'.ledger, u) = Current(u)'
    BY <1>1, <1>2, <1>5, <2>1, <2>3 DEF Current
  <2> QED
    BY <1>3, <2>1, <2>4, <2>6, <2>7 DEF Inv
<1> QED
  BY <1>4, <1>5

\* Taking a wallet's delta back leaves its balance explained by no delta at all.
LEMMA RollbackOneInv == ASSUME Inv, NEW w \in Wallet, RollbackOne(w) PROVE Inv'
<1> DEFINE l == Decrease(x.ledger, w, x.deltas[w])
           d == [v \in DOMAIN x.deltas \ {w} |-> x.deltas[v]]
<1>1. /\ Explains(x, start) /\ AmountMap(start) /\ mode = "rollback" /\ w \in DOMAIN x.deltas
      /\ UNCHANGED <<txs, start, past, next, mode>>
  BY DEF Inv, Bounds, RollbackOne
<1>2. x' = [status |-> x.status, ledger |-> l, deltas |-> d]
  BY <1>1, TwoMaps DEF RollbackOne, Explains
<1>3. /\ \A u : ValueOf(l, u) = Lowered(u, w, ValueOf(x.ledger, u), x.deltas[w])
      /\ x.deltas[w] = ValueOf(x.deltas, w)
  BY <1>1, DecreaseValue DEF ValueOf
<1>4. \A u : ValueOf(d, u) = IF u = w THEN 0 ELSE ValueOf(x.deltas, u)
  BY DEF ValueOf
<1> HIDE DEF l, d
<1>5. ASSUME NEW u
      PROVE  /\ ValueOf(l, u) \in Amount /\ ValueOf(d, u) \in Amount
             /\ ValueOf(l, u) = Plus(ValueOf(start, u), ValueOf(d, u))
  <2>1. /\ ValueOf(x.ledger, u) \in Amount /\ ValueOf(x.deltas, u) \in Amount /\ ValueOf(start, u) \in Amount
        /\ ValueOf(x.ledger, u) = Plus(ValueOf(start, u), ValueOf(x.deltas, u))
    BY <1>1 DEF Explains, AmountMap
  <2>2. CASE u = w
    BY <1>3, <1>4, <2>1, <2>2, AmountArithmetic DEF Lowered
  <2>3. CASE u # w
    BY <1>3, <1>4, <2>1, <2>3 DEF Lowered
  <2> QED
    BY <2>2, <2>3
<1>6. Explains(x', start') /\ ExecutionRecord(x') /\ AmountMap(x'.ledger)
  BY <1>1, <1>2, <1>5 DEF Explains, AmountMap, ExecutionRecord
<1> QED
  BY <1>1, <1>6 DEF Inv, Bounds, Chained

LEMMA RollbackEndsInv == ASSUME Inv, RollbackEnds PROVE Inv'
<1>1. \A u : ValueOf(x.deltas, u) = 0
  BY DEF RollbackEnds, ValueOf
<1>2. \A u : ValueOf(x.ledger, u) = ValueOf(start, u)
  BY <1>1, AmountArithmetic DEF Inv, Bounds, RollbackEnds, Explains, AmountMap
<1> QED
  BY <1>2 DEF Inv, Bounds, Chained, RollbackEnds

LEMMA UndoOneInv == ASSUME Inv, UndoOne PROVE Inv'
<1> DEFINE i == next - 1
           l == RollbackLedger(x.ledger, txs[i], Miner(txs))
<1>1. /\ txs \in Seq(Tx) /\ Len(past) \in Nat /\ Len(past) <= Len(txs)
      /\ next \in 1 .. Len(txs) + 1 /\ next <= Len(past) + 1 /\ next > 1
      /\ ExecutionRecord(x) /\ AmountMap(x.ledger) /\ mode = "undo"
      /\ UNCHANGED <<txs, start, past, mode>> /\ next' = i
  BY DEF Inv, Bounds, UndoOne
<1>2. i \in 1 .. Len(past) /\ txs[i] \in Tx /\ i + 1 = next
  BY <1>1
<1>3. x' = [status |-> x.status, ledger |-> l, deltas |-> x.deltas]
  <2>1. x' = [x EXCEPT !.ledger = l]
    BY DEF UndoOne
  <2> HIDE DEF l
  <2> QED
    BY <1>1, <2>1 DEF ExecutionRecord
<1>4. \A u : ValueOf(x.ledger, u) = Forward(txs[i], Miner(txs), u, ValueOf(past[i], u))
  <2>1. CASE next <= Len(past)
    <3>1. \A u : ValueOf(past[i + 1], u) = Forward(txs[i], Miner(txs), u, ValueOf(past[i], u))
      BY <1>1, <1>2, <2>1 DEF Inv, Chained
    <3> QED
      BY <1>1, <1>2, <2>1, <3>1 DEF Inv, Current
  <2>2. CASE next > Len(past)
    <3>1. i = Len(past) /\ Len(past) # 0
      BY <1>1, <2>2
    <3> QED
      BY <1>1, <2>2, <3>1 DEF Inv, Current
  <2> QED
    BY <1>1, <2>1, <2>2
<1>5. \A u : ValueOf(l, u) = ValueOf(past[i], u)
  <2> SUFFICES ASSUME NEW u PROVE ValueOf(l, u) = ValueOf(past[i], u)
    OBVIOUS
  <2>1. ValueOf(l, u) = Backward(txs[i], Miner(txs), u, ValueOf(x.ledger, u))
    BY <1>1, <1>2, RollbackValue
  <2>2. ValueOf(past[i], u) \in Amount
    BY <1>2 DEF Inv, Chained, AmountMap
  <2> QED
    BY <1>2, <1>4, <2>1, <2>2, BackwardUndoes
<1>6. AmountMap(l)
  BY <1>2, <1>5 DEF Inv, Chained, AmountMap
<1> HIDE DEF l
<1>7. ExecutionRecord(x') /\ x'.ledger = l
  BY <1>3 DEF ExecutionRecord
<1>8. Bounds' /\ Chained'
  BY <1>1, <1>2, <1>6, <1>7 DEF Inv, Bounds, Chained
<1>9. \A u : ValueOf(x'.ledger, u) = Current(u)'
  BY <1>1, <1>2, <1>5, <1>7 DEF Current
<1> QED
  BY <1>1, <1>8, <1>9 DEF Inv

LEMMA UndoEndsInv == ASSUME Inv, UndoEnds PROVE Inv'
<1>1. \A u : ValueOf(x.ledger, u) = ValueOf(start, u)
  <2>1. /\ next = 1 /\ mode = "undo" /\ Len(past) \in Nat
        /\ \A u : ValueOf(x.ledger, u) = Current(u)
    BY DEF Inv, Bounds, UndoEnds
  <2>2. CASE Len(past) = 0
    BY <2>1, <2>2 DEF Current
  <2>3. CASE Len(past) # 0
    BY <2>1, <2>3 DEF Current, Inv, Chained
  <2> QED
    BY <2>2, <2>3
<1> QED
  BY <1>1 DEF Inv, Bounds, Chained, UndoEnds

\* Every step keeps the invariant.
LEMMA NextInv == Inv /\ [Next]_vars => Inv'
<1> SUFFICES ASSUME Inv, [Next]_vars PROVE Inv'
  OBVIOUS
<1>1. CASE Store
  BY <1>1 DEF Store, Inv, Bounds, Chained, Current
<1>2. CASE Removal
  BY <1>2 DEF Removal, Inv, Bounds, Chained, Current
<1>3. CASE UNCHANGED vars
  BY <1>3 DEF vars, Inv, Bounds, Chained, Current, Explains
<1> QED
  BY <1>1, <1>2, <1>3, ExecuteOneInv, RollbackOneInv, RollbackEndsInv, UndoOneInv, UndoEndsInv
     DEF Next, Done

\* The invariant gives the three properties.
LEMMA InvGives == Inv => DeltasExplain /\ UndoRetraces /\ Restored
BY DEF Inv, DeltasExplain, UndoRetraces, Restored, SameMoney, Current, Explains

\* Until a failed execution is taken back, the remembered deltas explain every
\* balance, for every ledger and every block.
THEOREM DeltasExplainBalances == Spec => []DeltasExplain
BY InitInv, NextInv, InvGives, PTL DEF Spec

\* Undoing a block without deltas goes back through the ledgers it went through.
THEOREM UndoingRetraces == Spec => []UndoRetraces
BY InitInv, NextInv, InvGives, PTL DEF Spec

\* A block that fails, at whatever transaction, and a block that is removed leave
\* every balance as it was.
THEOREM BlocksAreUndone == Spec => []Restored
BY InitInv, NextInv, InvGives, PTL DEF Spec

-------------------------------------------------------------------------------
(* The block database.                                                     *)

\* What is left of the writes s once the first k are done.
Rest(s, k) == [j \in 1 .. Len(s) - k |-> s[k + j]]

\* The n-th write of AddBlockWrites(b, id).
AddOp(b, id, n) ==
  IF n = 1 THEN [op |-> "header", id |-> id, block |-> b]
  ELSE IF n <= Size[b] + 1 THEN [op |-> "row", id |-> id, index |-> n - 1, block |-> b]
  ELSE IF n = Size[b] + 2 THEN [op |-> "grow", block |-> b]
  ELSE [op |-> "count"]

\* ResetChainWrites with d ids to delete, and its n-th write.
ResetOf(d) ==
  <<[op |-> "empty"]>> \o ([i \in 1 .. d |-> [op |-> "drop", id |-> i]] \o <<[op |-> "uncount"]>>)
    \o AddBlockWrites(Origin, 1)
ResetOp(d, n) ==
  IF n = 1 THEN [op |-> "empty"]
  ELSE IF n <= d + 1 THEN [op |-> "drop", id |-> n - 1]
  ELSE IF n = d + 2 THEN [op |-> "uncount"]
  ELSE AddOp(Origin, 1, n - d - 2)

\* Header and rows of b are under the id i; so are those of every block of c.
HeaderOf(i, b) == i \in DOMAIN disk.headers /\ disk.headers[i] = b
RowOf(i, n, b) == <<i, n>> \in DOMAIN disk.rows /\ disk.rows[<<i, n>>] = b
Stored(i, b) == HeaderOf(i, b) /\ \A n \in 1 .. Size[b] : RowOf(i, n, b)
AllStored(c) == \A i \in 1 .. Len(c) : Stored(i, c[i])
Counted == disk.count = Len(committed) /\ AllStored(committed)

\* The phases of the writer: nothing to do; k writes of the addition of b done; k of
\* the two writes of a removal done, with s after them; k writes of a reset that
\* deletes d ids done.
Idle == todo = <<>> /\ chain = committed /\ Counted
Adding(b, k) ==
  /\ Len(committed) <= MaxBlocks
  /\ k \in 0 .. Size[b] + 2 /\ todo = Rest(AddBlockWrites(b, Len(committed) + 1), k)
  /\ chain = IF k = Size[b] + 2 THEN Append(committed, b) ELSE committed
  /\ k >= 1 => HeaderOf(Len(committed) + 1, b)
  /\ \A n \in 1 .. Size[b] : n < k => RowOf(Len(committed) + 1, n, b)
  /\ Counted
Removing(k, s) ==
  /\ k \in 0 .. 1 /\ todo = Rest(<<[op |-> "shrink"], [op |-> "count"]>> \o s, k)
  /\ Len(committed) >= 2
  /\ chain = IF k = 0 THEN committed ELSE SubSeq(committed, 1, Len(committed) - 1)
  /\ Counted
Resetting(d, k) ==
  /\ d \in Nat /\ k \in 0 .. d + 1 /\ todo = Rest(ResetOf(d), k)
  /\ Len(committed) <= 1 /\ disk.count = Len(committed)
  /\ Len(committed) = 1 => d >= 1
  /\ chain = IF k = 0 THEN committed ELSE <<>>
  /\ k <= 1 => AllStored(committed)
  /\ k >= 2 => 1 \notin DOMAIN disk.headers

\* A node is in one of the phases, or broken by a crash of the deletions.
WriterInv ==
  \/ node = "up" /\ Idle
  \/ node = "up" /\ \E b \in StoredBlock, k \in Nat : Adding(b, k)
  \/ node = "up" /\ \E k \in Nat : Removing(k, <<>>) /\ Len(committed) > 2
  \/ node = "up" /\ \E k \in Nat, d \in Nat : Removing(k, ResetOf(d)) /\ Len(committed) = 2 /\ d >= 1
  \/ node = "up" /\ \E d, k \in Nat : Resetting(d, k)
  \/ node = "broken" /\ todo = <<>> /\ 1 \notin DOMAIN disk.headers /\ reader = NoReader

\* What the request thread has read, as long as no block was removed under it.
Reading == [pc : {"header"}, id : Nat, removed : BOOLEAN]
  \cup [pc : {"rows", "read"}, id : Nat, removed : BOOLEAN, header : StoredBlock,
        rows : Seq(StoredBlock)]
ReaderInv ==
  /\ reader \in {NoReader} \cup Reading
  /\ reader # NoReader /\ ~reader.removed =>
       /\ reader.id \in 1 .. Len(chain)
       /\ reader.pc # "header" =>
            /\ reader.header = chain[reader.id]
            /\ Len(reader.rows) <= Size[reader.header]
            /\ \A i \in 1 .. Len(reader.rows) : reader.rows[i] = reader.header
       /\ reader.pc = "read" => Len(reader.rows) = Size[reader.header]

\* Types; the ids on disk are those a chain can have.
StoreTypes ==
  /\ disk = [headers |-> disk.headers, rows |-> disk.rows, count |-> disk.count]
  /\ disk.headers \in [DOMAIN disk.headers -> StoredBlock]
  /\ disk.rows \in [DOMAIN disk.rows -> StoredBlock]
  /\ DOMAIN disk.headers \subseteq 1 .. MaxBlocks + 1
  /\ disk.count \in Nat
  /\ chain \in Seq(StoredBlock) /\ committed \in Seq(StoredBlock)
  /\ Len(committed) <= MaxBlocks + 1
StoreInv == StoreTypes /\ WriterInv /\ ReaderInv

\* The elements of two sequences after each other.
LEMMA TwoParts ==
  ASSUME NEW S, NEW s \in Seq(S), NEW t \in Seq(S)
  PROVE  /\ s \o t \in Seq(S) /\ Len(s \o t) = Len(s) + Len(t)
         /\ \A n \in 1 .. Len(s) + Len(t) :
              (s \o t)[n] = IF n <= Len(s) THEN s[n] ELSE t[n - Len(s)]
  OBVIOUS

\* The next of the writes left, and what is left after it.
LEMMA RestNext ==
  ASSUME NEW S, NEW s \in Seq(S), NEW k \in Nat, k <= Len(s)
  PROVE  /\ k < Len(s) => /\ Rest(s, k) # <<>> /\ Head(Rest(s, k)) = s[k + 1]
                          /\ Tail(Rest(s, k)) = Rest(s, k + 1)
         /\ k = Len(s) => Rest(s, k) = <<>>
         /\ Rest(s, 0) = s
<1>1. Len(s) \in Nat /\ Rest(s, k) \in Seq(S) /\ Len(Rest(s, k)) = Len(s) - k
  BY DEF Rest
<1>2. ASSUME k < Len(s) PROVE Rest(s, k) # <<>> /\ Head(Rest(s, k)) = s[k + 1]
  <2>1. Len(Rest(s, k)) >= 1
    BY <1>1, <1>2
  <2>2. Rest(s, k) # <<>> /\ Head(Rest(s, k)) = Rest(s, k)[1]
    BY <1>1, <2>1
  <2> QED BY <1>2, <2>2 DEF Rest
<1>3. ASSUME k < Len(s) PROVE Tail(Rest(s, k)) = Rest(s, k + 1)
  BY <1>1, <1>3 DEF Rest
<1>4. k = Len(s) => Rest(s, k) = <<>>
  BY <1>1
<1>5. Rest(s, 0) = s
  BY <1>1 DEF Rest
<1> QED BY <1>2, <1>3, <1>4, <1>5


\* The values that the writes of AddBlockWrites(b, id) and of a reset have.
AddOps(b, id) == {AddOp(b, id, n) : n \in 1 .. Size[b] + 3}
ResetOps(d) == {ResetOp(d, n) : n \in 1 .. d + 2 + Size[Origin] + 3}

\* The writes of an addition: header, rows, the node's count, the count on disk.
LEMMA AddWrites ==
  ASSUME NEW b \in StoredBlock, NEW id \in Nat
  PROVE  /\ AddBlockWrites(b, id) \in Seq(AddOps(b, id))
         /\ Len(AddBlockWrites(b, id)) = Size[b] + 3
         /\ \A n \in 1 .. Size[b] + 3 : AddBlockWrites(b, id)[n] = AddOp(b, id, n)
<1> DEFINE first == <<[op |-> "header", id |-> id, block |-> b]>>
           rows == [i \in 1 .. Size[b] |-> [op |-> "row", id |-> id, index |-> i, block |-> b]]
           last == <<[op |-> "grow", block |-> b], [op |-> "count"]>>
           O == AddOps(b, id)
           front == first \o rows
           all == AddBlockWrites(b, id)
<1>1. Size[b] \in Nat
  BY BlockStoreAssumption
<1>2. /\ first[1] = AddOp(b, id, 1)
      /\ \A i \in 1 .. Size[b] : rows[i] = AddOp(b, id, i + 1)
      /\ last[1] = AddOp(b, id, Size[b] + 2) /\ last[2] = AddOp(b, id, Size[b] + 3)
  BY <1>1 DEF AddOp
<1>3. \A n \in 1 .. Size[b] + 3 : AddOp(b, id, n) \in O
  BY DEF AddOps
<1>4. /\ first \in Seq(O) /\ Len(first) = 1
      /\ rows \in Seq(O) /\ Len(rows) = Size[b]
      /\ last \in Seq(O) /\ Len(last) = 2
  <2>1. first[1] \in O /\ last[1] \in O /\ last[2] \in O /\ \A i \in 1 .. Size[b] : rows[i] \in O
    <3>1. /\ AddOp(b, id, 1) \in O /\ AddOp(b, id, Size[b] + 2) \in O
          /\ AddOp(b, id, Size[b] + 3) \in O
          /\ \A i \in 1 .. Size[b] : AddOp(b, id, i + 1) \in O
      <4> HIDE DEF O
      <4> QED BY <1>1, <1>3
    <3> HIDE DEF O, first, rows, last
    <3> QED BY <1>2, <3>1
  <2>2. [op |-> "header", id |-> id, block |-> b] \in O /\ [op |-> "grow", block |-> b] \in O
        /\ [op |-> "count"] \in O
    BY <2>1
  <2>3. rows \in [1 .. Size[b] -> O]
    BY <2>1
  <2> HIDE DEF O
  <2> QED BY <1>1, <2>2, <2>3
<1>5. all = front \o last
  BY DEF AddBlockWrites, BlockWrites
<1> HIDE DEF first, rows, last, O, all
<1>6. /\ front \in Seq(O) /\ Len(front) = Size[b] + 1
      /\ \A n \in 1 .. Size[b] + 1 : front[n] = AddOp(b, id, n)
  <2>1. /\ front \in Seq(O) /\ Len(front) = Len(first) + Len(rows)
        /\ \A n \in 1 .. Len(first) + Len(rows) :
             front[n] = IF n <= Len(first) THEN first[n] ELSE rows[n - Len(first)]
    BY <1>4, TwoParts
  <2> QED BY <1>1, <1>2, <1>4, <2>1
<1> HIDE DEF front
<1>7. /\ all \in Seq(O) /\ Len(all) = Len(front) + Len(last)
      /\ \A n \in 1 .. Len(front) + Len(last) :
           all[n] = IF n <= Len(front) THEN front[n]
                                ELSE last[n - Len(front)]
  BY <1>4, <1>5, <1>6, TwoParts
<1>8. ASSUME NEW n \in 1 .. Size[b] + 3 PROVE all[n] = AddOp(b, id, n)
  <2>0. /\ all[n] = IF n <= Size[b] + 1 THEN front[n] ELSE last[n - (Size[b] + 1)]
        /\ n = Size[b] + 2 => n - (Size[b] + 1) = 1
        /\ n = Size[b] + 3 => n - (Size[b] + 1) = 2
    <3>1. Len(front) = Size[b] + 1 /\ Len(last) = 2 /\ n \in 1 .. (Size[b] + 1) + 2
      BY <1>1, <1>4, <1>6
    <3> QED BY <1>1, <1>7, <3>1
  <2>1. CASE n <= Size[b] + 1
    <3>1. n \in 1 .. Size[b] + 1
      BY <1>1, <2>1
    <3> QED BY <1>6, <2>0, <2>1, <3>1
  <2>2. CASE n = Size[b] + 2
    BY <1>1, <1>2, <2>0, <2>2
  <2>3. CASE n = Size[b] + 3
    BY <1>1, <1>2, <2>0, <2>3
  <2> QED BY <1>1, <2>1, <2>2, <2>3
<1> QED BY <1>1, <1>4, <1>6, <1>7, <1>8 DEF O, all

\* The writes of a reset: the drops of the ids, then the addition of the first block.
LEMMA ResetWrites ==
  ASSUME NEW d \in Nat
  PROVE  /\ ResetOf(d) \in Seq(ResetOps(d))
         /\ Len(ResetOf(d)) = d + 2 + Size[Origin] + 3
         /\ \A n \in 1 .. d + 2 + Size[Origin] + 3 : ResetOf(d)[n] = ResetOp(d, n)
<1> DEFINE first == <<[op |-> "empty"]>>
           drops == [i \in 1 .. d |-> [op |-> "drop", id |-> i]]
           last == <<[op |-> "uncount"]>>
           add == AddBlockWrites(Origin, 1)
           O == ResetOps(d)
           tail == drops \o last
           front == first \o tail
           all == ResetOf(d)
<1>1. Origin \in StoredBlock /\ Size[Origin] \in Nat
  BY BlockStoreAssumption
<1>2. /\ first[1] = ResetOp(d, 1)
      /\ \A i \in 1 .. d : drops[i] = ResetOp(d, i + 1)
      /\ last[1] = ResetOp(d, d + 2)
  BY <1>1 DEF ResetOp
<1>3. \A n \in 1 .. d + 2 + Size[Origin] + 3 : ResetOp(d, n) \in O
  BY DEF ResetOps
<1>4. /\ add \in Seq(AddOps(Origin, 1)) /\ Len(add) = Size[Origin] + 3
      /\ \A n \in 1 .. Size[Origin] + 3 : add[n] = ResetOp(d, n + d + 2)
  <2>1. /\ add \in Seq(AddOps(Origin, 1)) /\ Len(add) = Size[Origin] + 3
        /\ \A n \in 1 .. Size[Origin] + 3 : add[n] = AddOp(Origin, 1, n)
    BY <1>1, AddWrites
  <2>2. ASSUME NEW n \in 1 .. Size[Origin] + 3 PROVE ResetOp(d, n + d + 2) = AddOp(Origin, 1, n)
    <3>1. n + d + 2 # 1 /\ ~(n + d + 2 <= d + 1) /\ n + d + 2 # d + 2 /\ (n + d + 2) - d - 2 = n
      BY <1>1
    <3> QED BY <3>1 DEF ResetOp
  <2> HIDE DEF add
  <2> QED BY <2>1, <2>2
<1>5. /\ first \in Seq(O) /\ Len(first) = 1
      /\ drops \in Seq(O) /\ Len(drops) = d
      /\ last \in Seq(O) /\ Len(last) = 1
      /\ add \in Seq(O)
  <2>1. first[1] \in O /\ last[1] \in O /\ \A i \in 1 .. d : drops[i] \in O
    BY <1>1, <1>2, <1>3
  <2>2. [op |-> "empty"] \in O /\ [op |-> "uncount"] \in O
    BY <2>1
  <2>3. drops \in [1 .. d -> O]
    BY <2>1
  <2>4. \A n \in 1 .. Size[Origin] + 3 : add[n] \in O
    <3> HIDE DEF add, O
    <3> QED BY <1>1, <1>3, <1>4
  <2> HIDE DEF O, add
  <2>5. add \in Seq(O)
    BY <1>1, <1>4, <2>4
  <2> QED BY <2>2, <2>3, <2>5
<1>6. all = front \o add
  BY DEF ResetOf
<1> HIDE DEF first, drops, last, add, O, all
<1>7. /\ tail \in Seq(O) /\ Len(tail) = d + 1
      /\ \A n \in 1 .. d + 1 : tail[n] = ResetOp(d, n + 1)
  <2>1. /\ tail \in Seq(O) /\ Len(tail) = Len(drops) + Len(last)
        /\ \A n \in 1 .. Len(drops) + Len(last) :
             tail[n] = IF n <= Len(drops) THEN drops[n] ELSE last[n - Len(drops)]
    BY <1>5, TwoParts
  <2>2. ASSUME NEW n \in 1 .. d + 1 PROVE tail[n] = ResetOp(d, n + 1)
    <3>1. tail[n] = IF n <= d THEN drops[n] ELSE last[n - d]
      BY <1>5, <2>1
    <3>2. n \in 1 .. d \/ (n = d + 1 /\ n - d = 1 /\ n + 1 = d + 2 /\ ~(n <= d))
      OBVIOUS
    <3> QED BY <1>2, <3>1, <3>2
  <2> QED BY <1>5, <2>1, <2>2
<1> HIDE DEF tail
<1>8. /\ front \in Seq(O) /\ Len(front) = d + 2
      /\ \A n \in 1 .. d + 2 : front[n] = ResetOp(d, n)
  <2>1. /\ front \in Seq(O)
        /\ Len(front) = Len(first) + Len(tail)
        /\ \A n \in 1 .. Len(first) + Len(tail) :
             front[n] =
               IF n <= Len(first) THEN first[n] ELSE tail[n - Len(first)]
    BY <1>5, <1>7, TwoParts
  <2>2. ASSUME NEW n \in 1 .. d + 2 PROVE front[n] = ResetOp(d, n)
    <3>1. Len(first) = 1 /\ Len(tail) = d + 1 /\ n \in 1 .. 1 + (d + 1)
      BY <1>5, <1>7
    <3>2. front[n] = IF n <= 1 THEN first[n] ELSE tail[n - 1]
      BY <2>1, <3>1
    <3>3. n = 1 \/ (n - 1 \in 1 .. d + 1 /\ (n - 1) + 1 = n /\ ~(n <= 1))
      OBVIOUS
    <3> QED BY <1>2, <1>7, <3>2, <3>3
  <2> QED BY <1>5, <1>7, <2>1, <2>2
<1> HIDE DEF front
<1>9. /\ all \in Seq(O)
      /\ Len(all) = Len(front) + Len(add)
      /\ \A n \in 1 .. Len(front) + Len(add) :
           all[n] = IF n <= Len(front) THEN front[n]
                           ELSE add[n - Len(front)]
  BY <1>5, <1>6, <1>8, TwoParts
<1>10. ASSUME NEW n \in 1 .. d + 2 + Size[Origin] + 3 PROVE all[n] = ResetOp(d, n)
  <2>1. CASE n <= d + 2
    BY <1>1, <1>4, <1>8, <1>9, <2>1
  <2>2. CASE n > d + 2
    <3>1. n - d - 2 \in 1 .. Size[Origin] + 3 /\ (n - d - 2) + d + 2 = n /\ n - (d + 2) = n - d - 2
      BY <1>1, <2>2
    <3>2. all[n] = add[n - d - 2]
      BY <1>1, <1>4, <1>8, <1>9, <2>2, <3>1
    <3> QED BY <1>4, <3>1, <3>2
  <2> QED BY <1>1, <2>1, <2>2
<1> QED BY <1>1, <1>4, <1>8, <1>9, <1>10 DEF O, all


\* What is left of an addition at each of its writes.
LEMMA AddRest ==
  ASSUME NEW b \in StoredBlock, NEW id \in Nat
  PROVE  /\ Rest(AddBlockWrites(b, id), 0) = AddBlockWrites(b, id)
         /\ Rest(AddBlockWrites(b, id), Size[b] + 3) = <<>>
         /\ \A k \in 0 .. Size[b] + 2 :
              /\ Rest(AddBlockWrites(b, id), k) # <<>>
              /\ Head(Rest(AddBlockWrites(b, id), k)) = AddOp(b, id, k + 1)
              /\ Tail(Rest(AddBlockWrites(b, id), k)) = Rest(AddBlockWrites(b, id), k + 1)
<1> DEFINE all == AddBlockWrites(b, id)
           O == AddOps(b, id)
<1>1. Size[b] \in Nat /\ all \in Seq(O) /\ Len(all) = Size[b] + 3
      /\ \A n \in 1 .. Size[b] + 3 : all[n] = AddOp(b, id, n)
  BY BlockStoreAssumption, AddWrites
<1> HIDE DEF all, O
<1>2. Rest(all, 0) = all /\ Rest(all, Size[b] + 3) = <<>>
  <2>1. 0 <= Len(all) /\ Size[b] + 3 = Len(all)
    BY <1>1
  <2> QED BY <1>1, <2>1, RestNext
<1>3. ASSUME NEW k \in 0 .. Size[b] + 2
      PROVE  /\ Rest(all, k) # <<>> /\ Head(Rest(all, k)) = AddOp(b, id, k + 1)
             /\ Tail(Rest(all, k)) = Rest(all, k + 1)
  <2>1. k \in Nat /\ k < Len(all) /\ k <= Len(all) /\ k + 1 \in 1 .. Size[b] + 3
    BY <1>1
  <2> QED BY <1>1, <2>1, RestNext
<1> QED BY <1>2, <1>3 DEF all

\* What is left of a reset; after its deletions an addition is left.
LEMMA ResetRest ==
  ASSUME NEW d \in Nat
  PROVE  /\ Rest(ResetOf(d), 0) = ResetOf(d)
         /\ Rest(ResetOf(d), d + 2) = AddBlockWrites(Origin, 1)
         /\ \A k \in 0 .. d + 1 :
              /\ Rest(ResetOf(d), k) # <<>>
              /\ Head(Rest(ResetOf(d), k)) = ResetOp(d, k + 1)
              /\ Tail(Rest(ResetOf(d), k)) = Rest(ResetOf(d), k + 1)
<1> DEFINE all == ResetOf(d)
           add == AddBlockWrites(Origin, 1)
           O == ResetOps(d)
           A == AddOps(Origin, 1)
<1>1. Size[Origin] \in Nat /\ all \in Seq(O) /\ Len(all) = d + 2 + Size[Origin] + 3
      /\ \A n \in 1 .. d + 2 + Size[Origin] + 3 : all[n] = ResetOp(d, n)
  BY BlockStoreAssumption, ResetWrites
<1>2. add \in Seq(A) /\ Len(add) = Size[Origin] + 3
      /\ \A n \in 1 .. Size[Origin] + 3 : add[n] = AddOp(Origin, 1, n)
  BY BlockStoreAssumption, AddWrites
<1> HIDE DEF all, add, O, A
<1>3. Rest(all, 0) = all
  <2>1. 0 <= Len(all)
    BY <1>1
  <2> QED BY <1>1, <2>1, RestNext
<1>4. Rest(all, d + 2) = add
  <2>1. Len(all) - (d + 2) = Len(add)
    BY <1>1, <1>2
  <2>2. add = [n \in 1 .. Len(add) |-> add[n]]
    BY <1>2
  <2>3. ASSUME NEW n \in 1 .. Len(add) PROVE all[(d + 2) + n] = add[n]
    <3>1. /\ (d + 2) + n \in 1 .. d + 2 + Size[Origin] + 3 /\ n \in 1 .. Size[Origin] + 3
          /\ (d + 2) + n # 1 /\ ~((d + 2) + n <= d + 1) /\ (d + 2) + n # d + 2
          /\ ((d + 2) + n) - d - 2 = n
      BY <1>1, <1>2
    <3>2. ResetOp(d, (d + 2) + n) = AddOp(Origin, 1, n)
      BY <3>1 DEF ResetOp
    <3> QED BY <1>1, <1>2, <3>1, <3>2
  <2> QED BY <2>1, <2>2, <2>3 DEF Rest
<1>5. ASSUME NEW k \in 0 .. d + 1
      PROVE  /\ Rest(all, k) # <<>> /\ Head(Rest(all, k)) = ResetOp(d, k + 1)
             /\ Tail(Rest(all, k)) = Rest(all, k + 1)
  <2>1. k \in Nat /\ k < Len(all) /\ k <= Len(all) /\ k + 1 \in 1 .. d + 2 + Size[Origin] + 3
    BY <1>1
  <2> QED BY <1>1, <2>1, RestNext
<1> QED BY <1>3, <1>4, <1>5 DEF all, add

\* What is left of a removal, whatever follows it.
LEMMA RemoveRest ==
  ASSUME NEW O, NEW s \in Seq(O)
  PROVE  LET all == <<[op |-> "shrink"], [op |-> "count"]>> \o s
         IN  /\ Rest(all, 0) = all /\ Rest(all, 0) # <<>> /\ Rest(all, 1) # <<>>
             /\ Head(Rest(all, 0)) = [op |-> "shrink"] /\ Tail(Rest(all, 0)) = Rest(all, 1)
             /\ Head(Rest(all, 1)) = [op |-> "count"] /\ Tail(Rest(all, 1)) = s
<1> DEFINE first == <<[op |-> "shrink"], [op |-> "count"]>>
           all == first \o s
           P == O \cup {[op |-> "shrink"], [op |-> "count"]}
<1>1. first \in Seq(P) /\ s \in Seq(P) /\ Len(first) = 2
      /\ first[1] = [op |-> "shrink"] /\ first[2] = [op |-> "count"]
  OBVIOUS
<1> HIDE DEF first, P
<1>2. /\ all \in Seq(P) /\ Len(all) = Len(first) + Len(s)
      /\ \A n \in 1 .. Len(first) + Len(s) :
           all[n] = IF n <= Len(first) THEN first[n] ELSE s[n - Len(first)]
  BY <1>1, TwoParts
<1>3. Len(s) \in Nat /\ Len(all) = 2 + Len(s)
      /\ all[1] = [op |-> "shrink"] /\ all[2] = [op |-> "count"]
      /\ \A n \in 1 .. Len(s) : all[2 + n] = s[n]
  <2>1. Len(s) \in Nat
    OBVIOUS
  <2>2. ASSUME NEW n \in 1 .. Len(s) PROVE all[2 + n] = s[n]
    <3>1. 2 + n \in 1 .. Len(first) + Len(s) /\ ~(2 + n <= Len(first)) /\ (2 + n) - Len(first) = n
      BY <1>1, <2>1
    <3> HIDE DEF all
    <3> QED BY <1>2, <3>1
  <2> HIDE DEF all
  <2>3. 1 \in 1 .. Len(first) + Len(s) /\ 2 \in 1 .. Len(first) + Len(s)
    BY <1>1, <2>1
  <2> QED BY <1>1, <1>2, <2>1, <2>2, <2>3
<1> HIDE DEF all
<1>4. /\ Rest(all, 0) = all /\ Rest(all, 0) # <<>> /\ Head(Rest(all, 0)) = all[1]
      /\ Tail(Rest(all, 0)) = Rest(all, 1)
  <2>1. 0 < Len(all) /\ 0 <= Len(all) /\ 0 + 1 = 1
    BY <1>3
  <2> QED BY <1>2, <2>1, RestNext
<1>5. /\ Rest(all, 1) # <<>> /\ Head(Rest(all, 1)) = all[2] /\ Tail(Rest(all, 1)) = Rest(all, 2)
  <2>1. 1 < Len(all) /\ 1 <= Len(all) /\ 1 + 1 = 2
    BY <1>3
  <2>2. /\ Rest(all, 1) # <<>> /\ Head(Rest(all, 1)) = all[1 + 1]
        /\ Tail(Rest(all, 1)) = Rest(all, 1 + 1)
    BY <1>2, <2>1, RestNext
  <2> QED BY <2>1, <2>2
<1>6. Rest(all, 2) = s
  <2>1. Len(all) - 2 = Len(s) /\ s = [n \in 1 .. Len(s) |-> s[n]]
    BY <1>3
  <2> QED BY <1>3, <2>1 DEF Rest
<1> QED BY <1>3, <1>4, <1>5, <1>6 DEF all, first

\* A write of an addition goes on with it or ends it; the blocks before stay stored.
LEMMA AddWriteInv ==
  ASSUME StoreTypes, node = "up", NEW b \in StoredBlock, NEW k \in Nat, Adding(b, k), Write
  PROVE  /\ StoreTypes' /\ node' = "up"
         /\ Idle' \/ Adding(b, k + 1)'
<1>0. PICK id : id = Len(committed) + 1
  OBVIOUS
<1> DEFINE w == AddOp(b, id, k + 1)
<1>1. /\ Size[b] \in Nat /\ Len(committed) \in Nat /\ id \in 1 .. MaxBlocks + 1 /\ id \in Nat
      /\ k \in 0 .. Size[b] + 2 /\ MaxBlocks \in Nat
  BY <1>0, BlockStoreAssumption DEF Adding, StoreTypes
<1>2. todo # <<>> /\ Head(todo) = w /\ Tail(todo) = Rest(AddBlockWrites(b, id), k + 1)
  BY <1>0, <1>1, AddRest DEF Adding
<1>3. /\ disk' = DiskAfter(w) /\ chain' = ChainAfter(w)
      /\ committed' = IF w.op \in {"count", "uncount"} THEN chain ELSE committed
      /\ todo' = Rest(AddBlockWrites(b, id), k + 1) /\ node' = node
  BY <1>2 DEF Write
<1>4. CASE k = 0
  <2>1. w = [op |-> "header", id |-> id, block |-> b] /\ k + 1 = 1
    BY <1>4 DEF AddOp
  <2>2. /\ disk' = [disk EXCEPT !.headers = Set(@, id, b)] /\ chain' = chain
        /\ committed' = committed /\ todo' = Rest(AddBlockWrites(b, id), 1)
    BY <1>3, <2>1 DEF DiskAfter, ChainAfter
  <2>3. /\ disk' = [headers |-> Set(disk.headers, id, b), rows |-> disk.rows, count |-> disk.count]
        /\ disk'.headers = Set(disk.headers, id, b) /\ disk'.rows = disk.rows
        /\ disk'.count = disk.count
    BY <2>2 DEF StoreTypes
  <2>8. /\ DOMAIN disk'.headers = DOMAIN disk.headers \cup {id} /\ disk'.headers[id] = b
        /\ \A i \in DOMAIN disk.headers : i # id => disk'.headers[i] = disk.headers[i]
        /\ disk'.headers = [i \in DOMAIN disk'.headers |-> disk'.headers[i]]
    <3>1. /\ DOMAIN Set(disk.headers, id, b) = DOMAIN disk.headers \cup {id} /\ Set(disk.headers, id, b)[id] = b
          /\ \A i \in DOMAIN disk.headers : i # id => Set(disk.headers, id, b)[i] = disk.headers[i]
          /\ Set(disk.headers, id, b) = [i \in DOMAIN Set(disk.headers, id, b) |-> Set(disk.headers, id, b)[i]]
      BY DEF Set
    <3> QED BY <2>3, <3>1
  <2>9. disk'.headers \in [DOMAIN disk'.headers -> StoredBlock]
    BY <2>8 DEF StoreTypes
  <2>4. StoreTypes'
    BY <1>1, <2>2, <2>3, <2>8, <2>9 DEF StoreTypes
  <2>5. Counted'
    <3>1. \A i \in 1 .. Len(committed) : i # id
      BY <1>0, <1>1
    <3>2. \A i \in 1 .. Len(committed) : HeaderOf(i, committed[i])'
      BY <2>2, <2>8, <3>1 DEF Adding, Counted, AllStored, Stored, HeaderOf
    <3>3. \A i \in 1 .. Len(committed) : \A n \in 1 .. Size[committed[i]] : RowOf(i, n, committed[i])'
      BY <2>2, <2>3 DEF Adding, Counted, AllStored, Stored, RowOf
    <3> QED BY <2>2, <2>3, <3>2, <3>3 DEF Adding, Counted, AllStored, Stored
  <2>6. HeaderOf(id, b)'
    BY <2>8 DEF HeaderOf
  <2>7. \A n \in 1 .. Size[b] : ~(n < 1)
    BY <1>1
  <2> QED BY <1>0, <1>1, <1>3, <1>4, <2>2, <2>4, <2>5, <2>6, <2>7 DEF Adding
<1>5. CASE k \in 1 .. Size[b]
  <2>1. w = [op |-> "row", id |-> id, index |-> k, block |-> b]
    BY <1>1, <1>5 DEF AddOp
  <2>2. /\ disk' = [disk EXCEPT !.rows = Set(@, <<id, k>>, b)] /\ chain' = chain
        /\ committed' = committed /\ todo' = Rest(AddBlockWrites(b, id), k + 1)
    BY <1>3, <2>1 DEF DiskAfter, ChainAfter
  <2>3. /\ disk' = [headers |-> disk.headers, rows |-> Set(disk.rows, <<id, k>>, b),
                    count |-> disk.count]
        /\ disk'.rows = Set(disk.rows, <<id, k>>, b) /\ disk'.headers = disk.headers
        /\ disk'.count = disk.count
    BY <2>2 DEF StoreTypes
  <2>11. /\ DOMAIN disk'.rows = DOMAIN disk.rows \cup {<<id, k>>} /\ disk'.rows[<<id, k>>] = b
         /\ \A r \in DOMAIN disk.rows : r # <<id, k>> => disk'.rows[r] = disk.rows[r]
         /\ disk'.rows = [r \in DOMAIN disk'.rows |-> disk'.rows[r]]
    <3>1. /\ DOMAIN Set(disk.rows, <<id, k>>, b) = DOMAIN disk.rows \cup {<<id, k>>} /\ Set(disk.rows, <<id, k>>, b)[<<id, k>>] = b
          /\ \A r \in DOMAIN disk.rows : r # <<id, k>> => Set(disk.rows, <<id, k>>, b)[r] = disk.rows[r]
          /\ Set(disk.rows, <<id, k>>, b) = [r \in DOMAIN Set(disk.rows, <<id, k>>, b) |-> Set(disk.rows, <<id, k>>, b)[r]]
      BY DEF Set
    <3> QED BY <2>3, <3>1
  <2>12. disk'.rows \in [DOMAIN disk'.rows -> StoredBlock]
    BY <2>11 DEF StoreTypes
  <2>4. StoreTypes'
    BY <1>1, <2>2, <2>3, <2>11, <2>12 DEF StoreTypes
  <2>5. \A i, n : RowOf(i, n, b) => RowOf(i, n, b)'
    BY <2>11 DEF RowOf
  <2>6. \A i \in 1 .. Len(committed) : \A n : RowOf(i, n, committed[i]) => RowOf(i, n, committed[i])'
    <3>1. \A i \in 1 .. Len(committed) : \A n : <<i, n>> # <<id, k>>
      BY <1>0, <1>1
    <3> QED BY <2>2, <2>11, <3>1 DEF RowOf
  <2>7. Counted'
    BY <2>2, <2>3, <2>6 DEF Adding, Counted, AllStored, Stored, HeaderOf
  <2>8. RowOf(id, k, b)'
    BY <2>11 DEF RowOf
  <2>9. k + 1 \in 0 .. Size[b] + 2 /\ k # Size[b] + 2 /\ k + 1 # Size[b] + 2
        /\ \A n \in 1 .. Size[b] : n < k + 1 => n < k \/ n = k
    BY <1>1, <1>5
  <2>10. HeaderOf(id, b)'
    BY <1>0, <1>5, <2>3 DEF Adding, HeaderOf
  <2> QED BY <1>0, <1>1, <1>3, <2>2, <2>4, <2>5, <2>7, <2>8, <2>9, <2>10 DEF Adding
<1>6. CASE k = Size[b] + 1
  <2>1. w = [op |-> "grow", block |-> b]
    BY <1>1, <1>6 DEF AddOp
  <2>2. /\ disk' = disk /\ chain' = Append(chain, b)
        /\ committed' = committed /\ todo' = Rest(AddBlockWrites(b, id), k + 1)
    BY <1>3, <2>1 DEF DiskAfter, ChainAfter
  <2>3. k + 1 = Size[b] + 2 /\ k # Size[b] + 2 /\ k + 1 \in 0 .. Size[b] + 2 /\ k >= 1
        /\ \A n \in 1 .. Size[b] : n < k
    BY <1>1, <1>6
  <2>4. StoreTypes'
    BY <2>2 DEF StoreTypes
  <2>5. Adding(b, k + 1)'
    BY <1>0, <2>2, <2>3 DEF Adding, Counted, AllStored, Stored, HeaderOf, RowOf
  <2> QED BY <1>3, <2>4, <2>5
<1>7. CASE k = Size[b] + 2
  <2>1. w = [op |-> "count"]
    BY <1>1, <1>7 DEF AddOp
  <2>2. /\ disk' = [disk EXCEPT !.count = Len(chain)] /\ chain' = chain
        /\ committed' = chain /\ chain = Append(committed, b) /\ todo' = <<>>
    <3>1. k + 1 = Size[b] + 3
      BY <1>1, <1>7
    <3>2. chain = Append(committed, b)
      BY <1>7 DEF Adding
    <3>3. todo' = <<>>
      BY <1>1, <1>3, <3>1, AddRest
    <3>4. w.op = "count"
      BY <2>1
    <3> QED BY <1>3, <3>2, <3>3, <3>4 DEF DiskAfter, ChainAfter
  <2>3. /\ disk' = [headers |-> disk.headers, rows |-> disk.rows, count |-> Len(chain)]
        /\ disk'.headers = disk.headers /\ disk'.rows = disk.rows /\ disk'.count = Len(chain)
    BY <2>2 DEF StoreTypes
  <2>4. /\ Len(chain) = id /\ chain[id] = b /\ chain \in Seq(StoredBlock)
        /\ \A i \in 1 .. Len(chain) :
             i = id \/ (i \in 1 .. Len(committed) /\ chain[i] = committed[i])
    BY <1>0, <1>1, <2>2 DEF StoreTypes
  <2>5. StoreTypes'
    BY <1>1, <2>2, <2>3, <2>4 DEF StoreTypes
  <2>6. Stored(id, b)
    BY <1>0, <1>1, <1>7 DEF Adding, Stored
  <2>7. AllStored(chain)
    BY <2>4, <2>6 DEF Adding, Counted, AllStored
  <2>8. Counted'
    BY <2>2, <2>3, <2>7 DEF Counted, AllStored, Stored, HeaderOf, RowOf
  <2> QED BY <1>3, <2>2, <2>5, <2>8 DEF Idle
<1> QED BY <1>1, <1>4, <1>5, <1>6, <1>7


\* A write of a removal ends it, goes on with it or begins the reset that follows.
LEMMA RemoveWriteInv ==
  ASSUME StoreTypes, node = "up", NEW k \in Nat, NEW s, NEW d \in Nat, Removing(k, s), Write,
         (s = <<>> /\ Len(committed) > 2) \/ (s = ResetOf(d) /\ Len(committed) = 2 /\ d >= 1)
  PROVE  /\ StoreTypes' /\ node' = "up"
         /\ Idle' \/ Resetting(d, 0)' \/ (Removing(1, s)' /\ Len(committed)' = Len(committed))
<1> DEFINE O == ResetOps(d)
           all == <<[op |-> "shrink"], [op |-> "count"]>> \o s
<1>1. s \in Seq(O) /\ Len(committed) \in Nat /\ k \in 0 .. 1 /\ committed \in Seq(StoredBlock)
      /\ Len(committed) >= 2
  <2>1. <<>> \in Seq(O)
    OBVIOUS
  <2>2. ResetOf(d) \in Seq(O)
    BY ResetWrites
  <2>3. committed \in Seq(StoredBlock) /\ k \in 0 .. 1 /\ Len(committed) >= 2
    BY DEF Removing, StoreTypes
  <2>4. s \in Seq(O)
    <3> HIDE DEF O
    <3> QED BY <2>1, <2>2
  <2> HIDE DEF O, all
  <2> QED BY <2>3, <2>4
<1>2. /\ Rest(all, 0) # <<>> /\ Rest(all, 1) # <<>>
      /\ Head(Rest(all, 0)) = [op |-> "shrink"] /\ Tail(Rest(all, 0)) = Rest(all, 1)
      /\ Head(Rest(all, 1)) = [op |-> "count"] /\ Tail(Rest(all, 1)) = s
  <2> HIDE DEF O
  <2> QED BY <1>1, RemoveRest
<1>3. todo = Rest(all, k) /\ Counted /\ node' = "up"
      /\ chain = IF k = 0 THEN committed ELSE SubSeq(committed, 1, Len(committed) - 1)
  BY DEF Removing, Write
<1> HIDE DEF all, O
<1>4. CASE k = 0
  <2>1. /\ Head(todo) = [op |-> "shrink"] /\ Tail(todo) = Rest(all, 1) /\ todo # <<>>
    BY <1>2, <1>3, <1>4
  <2>2. Head(todo).op = "shrink"
    BY <2>1
  <2>3. /\ disk' = disk /\ chain' = SubSeq(committed, 1, Len(committed) - 1)
        /\ committed' = committed /\ todo' = Rest(all, 1)
    BY <1>3, <1>4, <2>1, <2>2 DEF Write, DiskAfter, ChainAfter
  <2>4. SubSeq(committed, 1, Len(committed) - 1) \in Seq(StoredBlock)
    BY <1>1
  <2>5. StoreTypes'
    BY <2>3, <2>4 DEF StoreTypes
  <2>6. Counted'
    BY <1>3, <2>3 DEF Counted, AllStored, Stored, HeaderOf, RowOf
  <2>7. Removing(1, s)'
    BY <1>1, <2>3, <2>6 DEF Removing, all
  <2> QED BY <1>3, <2>3, <2>5, <2>7
<1>5. CASE k = 1
  <2>1. /\ Head(todo) = [op |-> "count"] /\ Tail(todo) = s /\ todo # <<>>
    BY <1>2, <1>3, <1>5
  <2>2. Head(todo).op = "count"
    BY <2>1
  <2>3. /\ disk' = [disk EXCEPT !.count = Len(chain)] /\ chain' = chain
        /\ committed' = chain /\ todo' = s
    BY <2>1, <2>2 DEF Write, DiskAfter, ChainAfter
  <2>4. /\ disk' = [headers |-> disk.headers, rows |-> disk.rows, count |-> Len(chain)]
        /\ disk'.headers = disk.headers /\ disk'.rows = disk.rows /\ disk'.count = Len(chain)
    BY <2>3 DEF StoreTypes
  <2>5. /\ Len(chain) = Len(committed) - 1 /\ chain \in Seq(StoredBlock)
        /\ \A i \in 1 .. Len(chain) : i \in 1 .. Len(committed) /\ chain[i] = committed[i]
    BY <1>1, <1>3, <1>5
  <2>6. StoreTypes'
    <3>1. Len(chain) \in Nat /\ Len(chain) <= MaxBlocks + 1
      <4>1. Len(committed) <= MaxBlocks + 1 /\ MaxBlocks \in Nat
        BY BlockStoreAssumption DEF StoreTypes
      <4>2. Len(chain) = Len(committed) - 1
        BY <2>5
      <4> QED BY <1>1, <4>1, <4>2
    <3> QED BY <2>3, <2>4, <2>5, <3>1 DEF StoreTypes
  <2>7. Counted'
    <3>1. AllStored(chain)
      BY <1>3, <2>5 DEF Counted, AllStored
    <3> QED BY <2>3, <2>4, <3>1 DEF Counted, AllStored, Stored, HeaderOf, RowOf
  <2>8. CASE s = <<>>
    BY <1>3, <2>3, <2>6, <2>7, <2>8 DEF Idle
  <2>9. CASE s = ResetOf(d) /\ Len(committed) = 2 /\ d >= 1
    <3>1. todo' = Rest(ResetOf(d), 0)
      BY <2>3, <2>9, ResetRest
    <3>2. Len(committed)' = 1
      BY <2>3, <2>5, <2>9
    <3>3. Resetting(d, 0)'
      BY <2>3, <2>7, <2>9, <3>1, <3>2 DEF Resetting, Counted
    <3> QED BY <1>3, <2>6, <3>3
  <2> QED BY <2>8, <2>9
<1> QED BY <1>1, <1>4, <1>5

\* A write of a reset goes on with it or begins the addition of the first block.
LEMMA ResetWriteInv ==
  ASSUME StoreTypes, node = "up", NEW k \in Nat, NEW d \in Nat, Resetting(d, k), Write
  PROVE  /\ StoreTypes' /\ node' = "up"
         /\ Resetting(d, k + 1)' \/ Adding(Origin, 0)'
<1>1. /\ k \in 0 .. d + 1 /\ Len(committed) \in Nat /\ committed \in Seq(StoredBlock)
      /\ todo # <<>> /\ Head(todo) = ResetOp(d, k + 1)
      /\ Tail(todo) = Rest(ResetOf(d), k + 1)
  BY ResetRest DEF Resetting, StoreTypes
<1>2. /\ disk' = DiskAfter(Head(todo)) /\ chain' = ChainAfter(Head(todo))
      /\ committed' = IF Head(todo).op \in {"count", "uncount"} THEN chain ELSE committed
      /\ todo' = Rest(ResetOf(d), k + 1) /\ node' = "up"
  BY <1>1 DEF Write
<1>3. CASE k = 0
  <2>1. Head(todo).op = "empty"
    BY <1>1, <1>3 DEF ResetOp
  <2>2. disk' = disk /\ chain' = <<>> /\ committed' = committed
    BY <1>2, <2>1 DEF DiskAfter, ChainAfter
  <2>3. StoreTypes'
    BY <2>2 DEF StoreTypes
  <2>4. Resetting(d, k + 1)'
    BY <1>2, <1>3, <2>2 DEF Resetting, AllStored, Stored, HeaderOf, RowOf
  <2> QED BY <1>2, <2>3, <2>4
<1>4. CASE k \in 1 .. d
  <2>1. Head(todo) = [op |-> "drop", id |-> k]
    BY <1>1, <1>4 DEF ResetOp
  <2>2. /\ disk' = [disk EXCEPT !.headers = [i \in DOMAIN @ \ {k} |-> @[i]],
                                !.rows = [r \in {r \in DOMAIN @ : r[1] # k} |-> @[r]]]
        /\ chain' = chain /\ committed' = committed
    <3>1. Head(todo).op = "drop" /\ Head(todo).id = k
      BY <2>1
    <3>2. chain' = chain /\ committed' = committed
      BY <1>2, <3>1 DEF ChainAfter
    <3>3. disk' = [disk EXCEPT !.headers = [i \in DOMAIN @ \ {Head(todo).id} |-> @[i]],
                   !.rows = [r \in {q \in DOMAIN @ : q[1] # Head(todo).id} |-> @[r]]]
      BY <1>2, <3>1 DEF DiskAfter
    <3> QED BY <3>1, <3>2, <3>3
  <2>3. /\ disk' = [headers |-> disk'.headers, rows |-> disk'.rows, count |-> disk'.count]
        /\ disk'.headers = [i \in DOMAIN disk.headers \ {k} |-> disk.headers[i]]
        /\ disk'.rows = [r \in {r \in DOMAIN disk.rows : r[1] # k} |-> disk.rows[r]]
        /\ disk'.count = disk.count
    BY <2>2 DEF StoreTypes
  <2>4. StoreTypes'
    <3>1. disk'.headers \in [DOMAIN disk'.headers -> StoredBlock]
      BY <2>3 DEF StoreTypes
    <3>2. disk'.rows \in [DOMAIN disk'.rows -> StoredBlock]
      BY <2>3 DEF StoreTypes
    <3>3. DOMAIN disk'.headers \subseteq 1 .. MaxBlocks + 1
      BY <2>3 DEF StoreTypes
    <3>4. disk'.count \in Nat /\ chain' \in Seq(StoredBlock) /\ committed' \in Seq(StoredBlock)
          /\ Len(committed') <= MaxBlocks + 1
      BY <2>2, <2>3 DEF StoreTypes
    <3> QED BY <2>3, <3>1, <3>2, <3>3, <3>4 DEF StoreTypes
  <2>5. 1 \notin DOMAIN disk'.headers
    <3>1. k = 1 \/ k >= 2
      BY <1>4
    <3> QED BY <2>3, <3>1 DEF Resetting
  <2>6. chain = <<>> /\ k + 1 \in 0 .. d + 1 /\ k + 1 # 0 /\ ~(k + 1 <= 1)
    BY <1>4 DEF Resetting
  <2>7. Resetting(d, k + 1)'
    BY <1>2, <2>2, <2>3, <2>5, <2>6 DEF Resetting
  <2> QED BY <1>2, <2>4, <2>7
<1>5. CASE k = d + 1
  <2>1. Head(todo).op = "uncount"
    <3>1. k + 1 # 1 /\ ~(k + 1 <= d + 1) /\ k + 1 = d + 2
      BY <1>5
    <3> QED BY <1>1, <3>1 DEF ResetOp
  <2>2. chain = <<>>
    BY <1>5 DEF Resetting
  <2>3. disk' = [disk EXCEPT !.count = 0] /\ chain' = <<>> /\ committed' = <<>>
    BY <1>2, <2>1, <2>2 DEF DiskAfter, ChainAfter
  <2>4. /\ disk' = [headers |-> disk.headers, rows |-> disk.rows, count |-> 0]
        /\ disk'.headers = disk.headers /\ disk'.rows = disk.rows /\ disk'.count = 0
    BY <2>3 DEF StoreTypes
  <2>5. StoreTypes'
    BY <2>3, <2>4, BlockStoreAssumption DEF StoreTypes
  <2>6. Len(committed') = 0
    BY <2>3
  <2>7. todo' = Rest(AddBlockWrites(Origin, 1), 0)
    <3>1. k + 1 = d + 2
      BY <1>5
    <3> QED BY <1>2, <3>1, ResetRest, AddRest, BlockStoreAssumption
  <2>8. Counted'
    BY <2>4, <2>6 DEF Counted, AllStored
  <2>9. Adding(Origin, 0)'
    BY <2>3, <2>6, <2>7, <2>8, BlockStoreAssumption DEF Adding
  <2> QED BY <1>2, <2>5, <2>9
<1> QED BY <1>1, <1>3, <1>4, <1>5

\* A reader keeps what it has read through any write.
LEMMA ReaderKept ==
  ASSUME StoreTypes, StoreTypes', ReaderInv, Write
  PROVE  ReaderInv'
<1>1. chain \in Seq(StoredBlock) /\ chain' \in Seq(StoredBlock)
  BY DEF StoreTypes
<1>2. reader = NoReader \/ reader \in Reading
  BY DEF ReaderInv
<1>3. CASE reader = NoReader
  <2>1. reader' = NoReader
    BY <1>3 DEF Write, NoReader
  <2> QED BY <2>1 DEF ReaderInv
<1>4. CASE reader \in Reading /\ Head(todo).op \in {"shrink", "empty"}
  <2>1. reader.pc # "idle"
    BY <1>4 DEF Reading
  <2>2. reader' = [reader EXCEPT !.removed = TRUE]
    BY <1>4, <2>1 DEF Write
  <2>3. reader' \in Reading /\ reader'.removed
    BY <1>4, <2>2 DEF Reading
  <2> QED BY <2>3 DEF ReaderInv
<1>5. CASE reader \in Reading /\ Head(todo).op \notin {"shrink", "empty"}
  <2>1. reader' = reader
    BY <1>5 DEF Write
  <2>2. chain' = chain \/ \E b : chain' = Append(chain, b)
    BY <1>5 DEF Write, ChainAfter
  <2>3. \A i \in 1 .. Len(chain) : i \in 1 .. Len(chain') /\ chain'[i] = chain[i]
    BY <1>1, <2>2
  <2> QED BY <1>5, <2>1, <2>3 DEF ReaderInv
<1> QED BY <1>2, <1>3, <1>4, <1>5


\* The ids that a reset deletes go up to the last one on disk, at least to a first one.
LEMMA LastIdIs ==
  ASSUME StoreTypes
  PROVE  LET d == Max(DOMAIN disk.headers \cup {0})
         IN  /\ d \in Nat /\ ResetChainWrites = ResetOf(d)
             /\ 1 \in DOMAIN disk.headers => d >= 1
<1> DEFINE S == DOMAIN disk.headers \cup {0}
           d == Max(S)
<1>1. IsFiniteSet(S)
  <2>1. MaxBlocks + 1 \in Int /\ S \subseteq 0 .. MaxBlocks + 1
    BY BlockStoreAssumption DEF StoreTypes
  <2>2. IsFiniteSet(0 .. MaxBlocks + 1)
    BY <2>1, FS_Interval
  <2> QED BY <2>1, <2>2, FS_Subset
<1>2. S \subseteq Nat /\ S \subseteq Int /\ S # {}
  BY BlockStoreAssumption DEF StoreTypes
<1>3. d \in S /\ \A i \in S : d >= i
  <2> HIDE DEF S
  <2> QED BY <1>1, <1>2, FiniteHasMax
<1>4. ResetChainWrites = ResetOf(d)
  BY DEF ResetChainWrites, Clear, ResetOf
<1> HIDE DEF d
<1> QED BY <1>2, <1>3, <1>4 DEF d

\* Only the idle phase has nothing left to write.
LEMMA QuietIsIdle ==
  ASSUME StoreTypes, WriterInv, node = "up", todo = <<>>
  PROVE  Idle
<1>1. ASSUME NEW b \in StoredBlock, NEW k \in Nat, Adding(b, k) PROVE FALSE
  <2>1. Len(committed) + 1 \in Nat /\ k \in 0 .. Size[b] + 2
        /\ todo = Rest(AddBlockWrites(b, Len(committed) + 1), k)
    BY <1>1 DEF StoreTypes, Adding
  <2> QED BY <2>1, AddRest
<1>2. ASSUME NEW k \in Nat, NEW s, NEW O, s \in Seq(O), Removing(k, s) PROVE FALSE
  <2>1. k \in 0 .. 1 /\ todo = Rest(<<[op |-> "shrink"], [op |-> "count"]>> \o s, k)
    BY <1>2 DEF Removing
  <2>2. k = 0 \/ k = 1
    BY <2>1
  <2> QED BY <1>2, <2>1, <2>2, RemoveRest
<1>3. ASSUME NEW d \in Nat, NEW k \in Nat, Resetting(d, k) PROVE FALSE
  BY <1>3, ResetRest DEF Resetting
<1>4. <<>> \in Seq({}) /\ \A d \in Nat : ResetOf(d) \in Seq(ResetOps(d))
  BY ResetWrites
<1> QED BY <1>1, <1>2, <1>3, <1>4 DEF WriterInv

\* What the node holds is stored at every moment.
LEMMA HeldStored ==
  ASSUME StoreTypes, WriterInv, node = "up"
  PROVE  AllStored(chain)
<1>1. committed \in Seq(StoredBlock) /\ Len(committed) \in Nat
  BY DEF StoreTypes
<1>2. ASSUME NEW b \in StoredBlock, NEW k \in Nat, Adding(b, k) PROVE AllStored(chain)
  <2>1. Size[b] \in Nat /\ k \in 0 .. Size[b] + 2 /\ AllStored(committed)
    BY <1>2, BlockStoreAssumption DEF Adding, Counted
  <2>2. CASE k = Size[b] + 2
    <3>1. Stored(Len(committed) + 1, b)
      BY <1>2, <2>1, <2>2 DEF Adding, Stored
    <3>2. chain = Append(committed, b)
      BY <1>2, <2>2 DEF Adding
    <3>3. \A i \in 1 .. Len(chain) : (i = Len(committed) + 1 /\ chain[i] = b)
                                  \/ (i \in 1 .. Len(committed) /\ chain[i] = committed[i])
      BY <1>1, <3>2
    <3> QED BY <2>1, <3>1, <3>3 DEF AllStored
  <2>3. CASE k # Size[b] + 2
    BY <1>2, <2>1, <2>3 DEF Adding
  <2> QED BY <2>2, <2>3
<1>3. ASSUME NEW k \in Nat, NEW s, Removing(k, s) PROVE AllStored(chain)
  <2>1. \A i \in 1 .. Len(chain) : i \in 1 .. Len(committed) /\ chain[i] = committed[i]
    <3>1. chain = committed \/ chain = SubSeq(committed, 1, Len(committed) - 1)
      BY <1>3 DEF Removing
    <3> QED BY <1>1, <3>1
  <2> QED BY <1>3, <2>1 DEF Removing, Counted, AllStored
<1>4. ASSUME NEW d \in Nat, NEW k \in Nat, Resetting(d, k) PROVE AllStored(chain)
  <2>1. CASE k = 0
    BY <1>4, <2>1 DEF Resetting
  <2>2. CASE k # 0
    BY <1>4, <2>2 DEF Resetting, AllStored
  <2> QED BY <2>1, <2>2
<1>5. Idle => AllStored(chain)
  BY DEF Idle, Counted
<1> QED BY <1>2, <1>3, <1>4, <1>5 DEF WriterInv

\* The count is that of the blocks it was written for, and they are stored unless
\* clear() has begun to delete: then the only one has lost its header.
LEMMA CountedStored ==
  ASSUME StoreTypes, WriterInv, node = "up"
  PROVE  /\ disk.count = Len(committed)
         /\ AllStored(committed) \/ (Len(committed) = 1 /\ 1 \notin DOMAIN disk.headers)
<1>1. ASSUME NEW d \in Nat, NEW k \in Nat, Resetting(d, k)
      PROVE  AllStored(committed) \/ (Len(committed) = 1 /\ 1 \notin DOMAIN disk.headers)
  <2>1. Len(committed) = 0 \/ Len(committed) = 1
    BY <1>1 DEF Resetting, StoreTypes
  <2>2. k <= 1 \/ k >= 2
    OBVIOUS
  <2>3. Len(committed) = 0 => AllStored(committed)
    BY DEF AllStored
  <2> QED BY <1>1, <2>1, <2>2, <2>3 DEF Resetting
<1>2. \A d, k \in Nat : Resetting(d, k) => disk.count = Len(committed)
  BY DEF Resetting
<1>3. \A b \in StoredBlock, k \in Nat : Adding(b, k) => Counted
  BY DEF Adding
<1>4. \A k, s : Removing(k, s) => Counted
  BY DEF Removing
<1> QED BY <1>1, <1>2, <1>3, <1>4 DEF WriterInv, Idle, Counted

\* A block that is stored can be read, as it is.
LEMMA StoredIsWhole ==
  ASSUME StoreTypes, NEW i, NEW b, Stored(i, b)
  PROVE  Readable(i) /\ GetBlock(i) = WholeBlock(b)
  BY DEF Stored, HeaderOf, RowOf, Readable, HasRows, GetBlock, WholeBlock


\* The invariant holds when the node starts with an empty database.
LEMMA StoreInitInv == StoreInit => StoreInv
<1> SUFFICES ASSUME StoreInit PROVE StoreInv
  OBVIOUS
<1>1. Origin \in StoredBlock /\ Size[Origin] \in Nat /\ MaxBlocks \in Nat
  BY BlockStoreAssumption
<1>2. /\ disk = [headers |-> <<>>, rows |-> <<>>, count |-> 0]
      /\ disk.headers = <<>> /\ disk.rows = <<>> /\ disk.count = 0
      /\ chain = <<>> /\ committed = <<>> /\ Len(committed) = 0
      /\ node = "up" /\ reader = NoReader
  BY DEF StoreInit
<1>3. StoreTypes
  <2>1. DOMAIN disk.headers = {} /\ DOMAIN disk.rows = {}
    BY <1>2
  <2>2. disk.headers \in [DOMAIN disk.headers -> StoredBlock]
        /\ disk.rows \in [DOMAIN disk.rows -> StoredBlock]
    BY <1>2
  <2> QED BY <1>1, <1>2, <2>1, <2>2 DEF StoreTypes
<1>4. todo = Rest(AddBlockWrites(Origin, 1), 0)
  BY <1>1, AddRest DEF StoreInit
<1>5. Counted
  BY <1>2 DEF Counted, AllStored
<1>6. Adding(Origin, 0)
  BY <1>1, <1>2, <1>4, <1>5 DEF Adding
<1> QED BY <1>1, <1>2, <1>3, <1>6 DEF StoreInv, WriterInv, ReaderInv

\* An addition begins on an idle database.
LEMMA StartAddInv == ASSUME StoreInv, NEW b \in StoredBlock, StartAdd(b) PROVE StoreInv'
<1>1. /\ StoreTypes /\ WriterInv /\ ReaderInv /\ node = "up" /\ todo = <<>>
      /\ todo' = AddBlockWrites(b, Len(chain) + 1)
      /\ disk' = disk /\ chain' = chain /\ committed' = committed /\ node' = node
      /\ reader' = reader /\ Len(chain) < MaxBlocks
  BY DEF StoreInv, StartAdd
<1>2. chain = committed /\ Counted
  BY <1>1, QuietIsIdle DEF Idle
<1>3. Size[b] \in Nat /\ Len(committed) \in Nat /\ MaxBlocks \in Nat /\ Len(committed) <= MaxBlocks
  BY <1>1, <1>2, BlockStoreAssumption DEF StoreTypes
<1>4. StoreTypes' /\ ReaderInv' /\ Counted'
  BY <1>1, <1>2 DEF StoreTypes, ReaderInv, Counted, AllStored, Stored, HeaderOf, RowOf
<1>5. todo' = Rest(AddBlockWrites(b, Len(committed) + 1), 0)
  BY <1>1, <1>2, <1>3, AddRest
<1>6. Adding(b, 0)'
  BY <1>1, <1>2, <1>3, <1>4, <1>5 DEF Adding
<1> QED BY <1>1, <1>4, <1>6 DEF StoreInv, WriterInv

\* A removal begins on an idle database; that of the second block resets it.
LEMMA StartPopInv == ASSUME StoreInv, StartPop PROVE StoreInv'
<1>1. /\ StoreTypes /\ WriterInv /\ ReaderInv /\ node = "up" /\ todo = <<>>
      /\ todo' = PopBlockWrites /\ Len(chain) > 1
      /\ disk' = disk /\ chain' = chain /\ committed' = committed /\ node' = node
      /\ reader' = reader
  BY DEF StoreInv, StartPop
<1>2. chain = committed /\ Counted
  BY <1>1, QuietIsIdle DEF Idle
<1>3. Len(committed) \in Nat /\ Len(committed) >= 2
  BY <1>1, <1>2 DEF StoreTypes
<1>4. StoreTypes' /\ ReaderInv' /\ Counted'
  BY <1>1, <1>2 DEF StoreTypes, ReaderInv, Counted, AllStored, Stored, HeaderOf, RowOf
<1>5. CASE Len(chain) > 2
  <2>1. todo' = <<[op |-> "shrink"], [op |-> "count"]>> \o <<>>
    BY <1>1, <1>5 DEF PopBlockWrites
  <2>2. <<>> \in Seq({})
    OBVIOUS
  <2>3. todo' = Rest(<<[op |-> "shrink"], [op |-> "count"]>> \o <<>>, 0)
    BY <2>1, <2>2, RemoveRest
  <2>4. Removing(0, <<>>)'
    BY <1>1, <1>2, <1>3, <1>4, <2>3 DEF Removing
  <2> QED BY <1>1, <1>2, <1>4, <1>5, <2>4 DEF StoreInv, WriterInv
<1>6. CASE Len(chain) = 2
  <2>1. Stored(1, committed[1])
    BY <1>2, <1>3 DEF Counted, AllStored
  <2>2. 1 \in DOMAIN disk.headers
    BY <2>1 DEF Stored, HeaderOf
  <2>3. PICK d \in Nat : ResetChainWrites = ResetOf(d) /\ d >= 1
    BY <1>1, <2>2, LastIdIs
  <2>4. todo' = <<[op |-> "shrink"], [op |-> "count"]>> \o ResetOf(d)
    BY <1>1, <1>6, <2>3 DEF PopBlockWrites
  <2>5. todo' = Rest(<<[op |-> "shrink"], [op |-> "count"]>> \o ResetOf(d), 0)
    BY <2>4, ResetWrites, RemoveRest
  <2>6. Removing(0, ResetOf(d))'
    BY <1>1, <1>2, <1>3, <1>4, <2>5 DEF Removing
  <2>7. Len(committed') = 2
    BY <1>1, <1>2, <1>6
  <2> QED BY <1>1, <1>4, <2>3, <2>6, <2>7 DEF StoreInv, WriterInv
<1> QED BY <1>1, <1>2, <1>3, <1>5, <1>6

\* Every write keeps the invariant.
LEMMA WriteInv == ASSUME StoreInv, Write PROVE StoreInv'
<1>1. StoreTypes /\ WriterInv /\ ReaderInv /\ node = "up" /\ todo # <<>>
  BY DEF StoreInv, Write
<1>2. StoreTypes' /\ WriterInv'
  <2>1. ASSUME NEW b \in StoredBlock, NEW k \in Nat, Adding(b, k)
        PROVE  StoreTypes' /\ WriterInv'
    <3>1. StoreTypes' /\ node' = "up" /\ (Idle' \/ Adding(b, k + 1)')
      BY <1>1, <2>1, AddWriteInv
    <3> QED BY <3>1 DEF WriterInv
  <2>2. ASSUME NEW k \in Nat, Removing(k, <<>>), Len(committed) > 2
        PROVE  StoreTypes' /\ WriterInv'
    <3>1. /\ StoreTypes' /\ node' = "up"
          /\ Idle' \/ Resetting(0, 0)' \/ (Removing(1, <<>>)' /\ Len(committed)' = Len(committed))
      BY <1>1, <2>2, RemoveWriteInv
    <3> QED BY <2>2, <3>1 DEF WriterInv
  <2>3. ASSUME NEW k \in Nat, NEW d \in Nat, Removing(k, ResetOf(d)), Len(committed) = 2, d >= 1
        PROVE  StoreTypes' /\ WriterInv'
    <3>0. PICK s : s = ResetOf(d)
      OBVIOUS
    <3>1. /\ StoreTypes' /\ node' = "up"
          /\ Idle' \/ Resetting(d, 0)' \/ (Removing(1, s)' /\ Len(committed)' = Len(committed))
      BY <1>1, <2>3, <3>0, RemoveWriteInv
    <3>2. Removing(1, s)' => Removing(1, ResetOf(d))'
      BY <3>0 DEF ResetOf, AddBlockWrites, BlockWrites
    <3> QED BY <2>3, <3>1, <3>2 DEF WriterInv
  <2>4. ASSUME NEW d \in Nat, NEW k \in Nat, Resetting(d, k)
        PROVE  StoreTypes' /\ WriterInv'
    <3>1. StoreTypes' /\ node' = "up" /\ (Resetting(d, k + 1)' \/ Adding(Origin, 0)')
      BY <1>1, <2>4, ResetWriteInv
    <3>2. CASE Resetting(d, k + 1)'
      BY <3>1, <3>2 DEF WriterInv
    <3>3. CASE Adding(Origin, 0)'
      <4>1. Origin \in StoredBlock
        BY BlockStoreAssumption
      <4> QED BY <3>1, <3>3, <4>1 DEF WriterInv
    <3> QED BY <3>1, <3>2, <3>3
  <2>5. ~Idle
    BY <1>1 DEF Idle
  <2> QED BY <1>1, <2>1, <2>2, <2>3, <2>4, <2>5 DEF WriterInv
<1>3. ReaderInv'
  BY <1>1, <1>2, ReaderKept
<1> QED BY <1>2, <1>3 DEF StoreInv

\* A crash at any write: the node starts with the blocks counted, resets, or is broken.
LEMMA CrashInv == ASSUME StoreInv, Crash PROVE StoreInv'
<1>1. /\ StoreTypes /\ WriterInv /\ node = "up" /\ reader' = NoReader
      /\ disk' = disk /\ committed' = committed
  BY DEF StoreInv, Crash
<1>2. committed \in Seq(StoredBlock) /\ Len(committed) \in Nat /\ disk.count = Len(committed)
  BY <1>1, CountedStored DEF StoreTypes
<1>3. ReaderInv'
  BY <1>1 DEF ReaderInv
<1>4. CASE disk.count # 0
  <2>1. /\ node' = IF Readable(disk.count) THEN "up" ELSE "broken"
        /\ chain' = committed /\ todo' = <<>>
    BY <1>4 DEF Crash, HasBlockCount
  <2>2. StoreTypes'
    BY <1>1, <2>1 DEF StoreTypes
  <2>3. CASE AllStored(committed)
    <3>1. Stored(disk.count, committed[disk.count])
      BY <1>2, <1>4, <2>3 DEF AllStored
    <3>2. Readable(disk.count)
      BY <1>1, <3>1, StoredIsWhole
    <3>3. Counted'
      BY <1>1, <1>2, <2>3 DEF Counted, AllStored, Stored, HeaderOf, RowOf
    <3>4. Idle' /\ node' = "up"
      BY <1>1, <2>1, <3>2, <3>3 DEF Idle
    <3> QED BY <1>3, <2>2, <3>4 DEF StoreInv, WriterInv
  <2>4. CASE Len(committed) = 1 /\ 1 \notin DOMAIN disk.headers
    <3>1. node' = "broken"
      BY <1>2, <2>1, <2>4 DEF Readable
    <3> QED BY <1>1, <1>3, <2>1, <2>2, <2>4, <3>1 DEF StoreInv, WriterInv
  <2> QED BY <1>1, <2>3, <2>4, CountedStored
<1>5. CASE disk.count = 0
  <2>1. node' = "up" /\ chain' = <<>> /\ todo' = ResetChainWrites
    BY <1>5 DEF Crash, HasBlockCount
  <2>2. committed = <<>>
    <3>1. Len(committed) = 0
      BY <1>2, <1>5
    <3> QED BY <1>2, <3>1
  <2>3. PICK d \in Nat : ResetChainWrites = ResetOf(d)
    BY <1>1, LastIdIs
  <2>4. todo' = Rest(ResetOf(d), 0)
    BY <2>1, <2>3, ResetRest
  <2>5. StoreTypes'
    BY <1>1, <2>1 DEF StoreTypes
  <2>6. AllStored(committed)' /\ Len(committed') = 0
    BY <1>1, <2>2 DEF AllStored
  <2>7. Resetting(d, 0)'
    BY <1>1, <1>5, <2>1, <2>2, <2>4, <2>6 DEF Resetting
  <2> QED BY <1>3, <2>1, <2>5, <2>7 DEF StoreInv, WriterInv
<1> QED BY <1>4, <1>5


\* What the request thread does changes only what it has read.
LEMMA ReadInv ==
  ASSUME StoreInv, UNCHANGED <<disk, chain, committed, todo, node>>, ReaderInv',
         node = "up" \/ reader' = NoReader
  PROVE  StoreInv'
<1>1. StoreTypes'
  BY DEF StoreInv, StoreTypes
<1>2. /\ Idle => Idle'
      /\ \A b \in StoredBlock, k \in Nat : Adding(b, k) => Adding(b, k)'
      /\ \A k \in Nat : Removing(k, <<>>) => Removing(k, <<>>)'
      /\ \A k, d \in Nat : Removing(k, ResetOf(d)) => Removing(k, ResetOf(d))'
      /\ \A k, d \in Nat : Resetting(d, k) => Resetting(d, k)'
  <2>1. Counted => Counted'
    BY DEF Counted, AllStored, Stored, HeaderOf, RowOf
  <2>2. \A c : AllStored(c) => AllStored(c)'
    BY DEF AllStored, Stored, HeaderOf, RowOf
  <2>3. \A i, n, b : (HeaderOf(i, b) => HeaderOf(i, b)') /\ (RowOf(i, n, b) => RowOf(i, n, b)')
    BY DEF HeaderOf, RowOf
  <2>4. Idle => Idle'
    BY <2>1 DEF Idle
  <2>5. ASSUME NEW b \in StoredBlock, NEW k \in Nat, Adding(b, k) PROVE Adding(b, k)'
    BY <2>1, <2>3, <2>5 DEF Adding, HeaderOf, RowOf
  <2>6. ASSUME NEW k \in Nat, Removing(k, <<>>) PROVE Removing(k, <<>>)'
    BY <2>1, <2>6 DEF Removing
  <2>7. ASSUME NEW k \in Nat, NEW d \in Nat, Removing(k, ResetOf(d)) PROVE Removing(k, ResetOf(d))'
    BY <2>1, <2>7 DEF Removing, ResetOf, AddBlockWrites, BlockWrites
  <2>8. ASSUME NEW k \in Nat, NEW d \in Nat, Resetting(d, k) PROVE Resetting(d, k)'
    BY <2>8 DEF Resetting, ResetOf, AddBlockWrites, BlockWrites, AllStored, Stored, HeaderOf, RowOf
  <2> QED BY <2>4, <2>5, <2>6, <2>7, <2>8
<1>3. WriterInv'
  BY <1>2 DEF StoreInv, WriterInv
<1> QED BY <1>1, <1>3 DEF StoreInv

\* The steps of the request thread.
LEMMA CheckIdInv == ASSUME StoreInv, NEW id \in 1 .. MaxBlocks, CheckId(id) PROVE StoreInv'
<1>1. id \in Nat /\ id \in 1 .. Len(chain)
  BY DEF CheckId, MayRead
<1>2. reader' = [pc |-> "header", id |-> id, removed |-> FALSE] /\ chain' = chain
  BY DEF CheckId
<1>3. reader' \in Reading /\ reader'.pc = "header" /\ reader'.id = id
  BY <1>1, <1>2 DEF Reading
<1>4. ReaderInv'
  BY <1>1, <1>2, <1>3 DEF ReaderInv
<1> QED BY <1>4, ReadInv DEF CheckId

\* The header read is that of the block held, unless that one was removed.
LEMMA ReadHeaderInv == ASSUME StoreInv, ReadHeader PROVE StoreInv'
<1>1. /\ StoreTypes /\ WriterInv /\ ReaderInv /\ node = "up" /\ reader.pc = "header"
      /\ chain' = chain /\ chain \in Seq(StoredBlock) /\ AllStored(chain)
  BY HeldStored DEF StoreInv, StoreTypes, ReadHeader
<1>2. reader # NoReader /\ reader \in Reading /\ reader.id \in Nat /\ reader.removed \in BOOLEAN
  BY <1>1 DEF ReaderInv, NoReader, Reading
<1>3. CASE reader.id \in DOMAIN disk.headers
  <2>1. PICK h \in StoredBlock : h = disk.headers[reader.id]
    BY <1>1, <1>3 DEF StoreTypes
  <2>2. reader' = [pc |-> "rows", id |-> reader.id, removed |-> reader.removed,
                   header |-> h, rows |-> <<>>]
    BY <1>3, <2>1 DEF ReadHeader
  <2>3. <<>> \in Seq(StoredBlock) /\ Len(<<>>) = 0 /\ Size[h] \in Nat
    BY BlockStoreAssumption
  <2>4. reader' \in Reading
    BY <1>2, <2>2, <2>3 DEF Reading
  <2>5. ~reader.removed => reader.id \in 1 .. Len(chain) /\ h = chain[reader.id]
    BY <1>1, <1>2, <2>1 DEF ReaderInv, AllStored, Stored, HeaderOf
  <2>6. ReaderInv'
    BY <1>1, <2>2, <2>3, <2>4, <2>5 DEF ReaderInv
  <2> QED BY <1>1, <2>6, ReadInv DEF ReadHeader
<1>4. CASE reader.id \notin DOMAIN disk.headers
  <2>1. reader' = NoReader
    BY <1>4 DEF ReadHeader
  <2>2. ReaderInv'
    BY <2>1 DEF ReaderInv
  <2> QED BY <2>1, <2>2, ReadInv DEF ReadHeader
<1> QED BY <1>3, <1>4

\* The row read is one of the block whose header was read, unless that one was removed.
LEMMA ReadRowInv == ASSUME StoreInv, ReadRow PROVE StoreInv'
<1>1. /\ StoreTypes /\ WriterInv /\ ReaderInv /\ node = "up" /\ reader.pc = "rows"
      /\ chain' = chain /\ chain \in Seq(StoredBlock) /\ AllStored(chain)
  BY HeldStored DEF StoreInv, StoreTypes, ReadRow
<1>2. /\ reader # NoReader /\ reader \in Reading
      /\ reader \in [pc : {"rows", "read"}, id : Nat, removed : BOOLEAN, header : StoredBlock,
                     rows : Seq(StoredBlock)]
  BY <1>1 DEF ReaderInv, NoReader, Reading
<1> DEFINE n == Len(reader.rows) + 1
<1>3. /\ n \in Nat /\ n - 1 = Len(reader.rows) /\ Size[reader.header] \in Nat
      /\ reader.rows \in Seq(StoredBlock)
  BY <1>2, BlockStoreAssumption
<1>4. CASE n > Size[reader.header]
  <2>1. reader' = [reader EXCEPT !.pc = "read"]
    BY <1>4 DEF ReadRow
  <2>2. /\ reader' \in Reading /\ reader'.pc = "read" /\ reader'.id = reader.id
        /\ reader'.removed = reader.removed /\ reader'.header = reader.header
        /\ reader'.rows = reader.rows
    BY <1>2, <2>1 DEF Reading
  <2>3. ReaderInv'
    BY <1>1, <1>2, <1>3, <1>4, <2>2 DEF ReaderInv
  <2> QED BY <1>1, <2>3, ReadInv DEF ReadRow
<1>5. CASE n <= Size[reader.header] /\ <<reader.id, n>> \in DOMAIN disk.rows
  <2>1. PICK row \in StoredBlock : row = disk.rows[<<reader.id, n>>]
    BY <1>1, <1>5 DEF StoreTypes
  <2>2. reader' = [reader EXCEPT !.rows = Append(@, row)]
    BY <1>3, <1>5, <2>1 DEF ReadRow
  <2>3. /\ Append(reader.rows, row) \in Seq(StoredBlock) /\ Len(Append(reader.rows, row)) = n
        /\ \A i \in 1 .. n :
             \/ Append(reader.rows, row)[i] = row
             \/ i \in 1 .. Len(reader.rows) /\ Append(reader.rows, row)[i] = reader.rows[i]
        /\ Append(reader.rows, row)[n] = row
    BY <1>3
  <2>4. /\ reader' \in Reading /\ reader'.pc = "rows" /\ reader'.id = reader.id
        /\ reader'.removed = reader.removed /\ reader'.header = reader.header
        /\ reader'.rows = Append(reader.rows, row)
    BY <1>1, <1>2, <2>2, <2>3 DEF Reading
  <2>5. ~reader.removed => row = reader.header
    <3>1. ~reader.removed => reader.id \in 1 .. Len(chain) /\ reader.header = chain[reader.id]
      BY <1>1, <1>2 DEF ReaderInv
    <3>2. n \in 1 .. Size[reader.header]
      BY <1>3, <1>5
    <3> QED BY <1>1, <2>1, <3>1, <3>2 DEF AllStored, Stored, RowOf
  <2>6. ReaderInv'
    <3>1. ~reader.removed => /\ reader.id \in 1 .. Len(chain) /\ reader.header = chain[reader.id]
                             /\ \A i \in 1 .. Len(reader.rows) : reader.rows[i] = reader.header
      BY <1>1, <1>2 DEF ReaderInv
    <3> QED BY <1>1, <1>5, <2>3, <2>4, <2>5, <3>1 DEF ReaderInv
  <2> QED BY <1>1, <2>6, ReadInv DEF ReadRow
<1>6. CASE n <= Size[reader.header] /\ <<reader.id, n>> \notin DOMAIN disk.rows
  <2>1. reader' = NoReader
    BY <1>3, <1>6 DEF ReadRow
  <2>2. ReaderInv'
    BY <2>1 DEF ReaderInv
  <2> QED BY <2>1, <2>2, ReadInv DEF ReadRow
<1> QED BY <1>3, <1>4, <1>5, <1>6

\* Every step keeps the invariant.
LEMMA StoreNextInv == StoreInv /\ [StoreNext]_storeVars => StoreInv'
<1> SUFFICES ASSUME StoreInv, [StoreNext]_storeVars PROVE StoreInv'
  OBVIOUS
<1>1. ASSUME NEW b \in StoredBlock, StartAdd(b) PROVE StoreInv'
  BY <1>1, StartAddInv
<1>2. ASSUME NEW id \in 1 .. MaxBlocks, CheckId(id) PROVE StoreInv'
  BY <1>2, CheckIdInv
<1>3. CASE EndRead
  <2>1. reader' = NoReader /\ ReaderInv'
    BY <1>3 DEF EndRead, ReaderInv
  <2> QED BY <1>3, <2>1, ReadInv DEF EndRead
<1>4. CASE UNCHANGED storeVars
  <2>1. ReaderInv'
    BY <1>4 DEF storeVars, StoreInv, ReaderInv
  <2>2. node = "up" \/ reader' = NoReader
    BY <1>4 DEF storeVars, StoreInv, WriterInv
  <2> QED BY <1>4, <2>1, <2>2, ReadInv DEF storeVars
<1> QED BY <1>1, <1>2, <1>3, <1>4, StartPopInv, WriteInv, CrashInv, ReadHeaderInv, ReadRowInv
        DEF StoreNext

\* The invariant gives the property.
LEMMA StoreInvGives == StoreInv => BlocksWhole
<1> SUFFICES ASSUME StoreInv PROVE BlocksWhole
  OBVIOUS
<1>1. /\ StoreTypes /\ WriterInv /\ ReaderInv
      /\ chain \in Seq(StoredBlock) /\ committed \in Seq(StoredBlock)
  BY DEF StoreInv, StoreTypes
<1>2. HeldBlocksWhole
  <2> SUFFICES ASSUME node = "up", NEW i \in DOMAIN chain
               PROVE  Readable(i) /\ GetBlock(i) = WholeBlock(chain[i])
    BY DEF HeldBlocksWhole
  <2>1. Stored(i, chain[i])
    BY <1>1, HeldStored DEF AllStored
  <2> QED BY <1>1, <2>1, StoredIsWhole
<1>3. CountedBlocksWhole
  <2>1. node = "broken" => 1 \notin DOMAIN disk.headers
    BY <1>1 DEF WriterInv
  <2>2. ASSUME node = "up", \A i \in DOMAIN todo : todo[i].op # "uncount"
        PROVE  Counted
    <3>1. ASSUME NEW d \in Nat, NEW k \in Nat, Resetting(d, k) PROVE FALSE
      <4>1. k \in 0 .. d + 1 /\ todo = Rest(ResetOf(d), k)
        BY <3>1 DEF Resetting
      <4>2. Size[Origin] \in Nat /\ Len(ResetOf(d)) = d + 2 + Size[Origin] + 3
            /\ ResetOf(d)[d + 2] = ResetOp(d, d + 2)
        <5>1. Size[Origin] \in Nat
          BY BlockStoreAssumption
        <5>2. d + 2 \in 1 .. d + 2 + Size[Origin] + 3
          BY <5>1
        <5> QED BY <5>1, <5>2, ResetWrites
      <4>3. d + 2 - k \in 1 .. Len(ResetOf(d)) - k /\ k + (d + 2 - k) = d + 2
        BY <4>1, <4>2
      <4>4. d + 2 - k \in DOMAIN todo /\ todo[d + 2 - k] = ResetOp(d, d + 2)
        BY <4>1, <4>2, <4>3 DEF Rest
      <4>5. ResetOp(d, d + 2).op = "uncount"
        BY DEF ResetOp
      <4> QED BY <2>2, <4>4, <4>5
    <3> QED BY <1>1, <2>2, <3>1 DEF WriterInv, Idle, Adding, Removing
  <2>3. ASSUME Counted, NEW i \in DOMAIN committed
        PROVE  Readable(i) /\ GetBlock(i) = WholeBlock(committed[i])
    <3>1. Stored(i, committed[i])
      BY <1>1, <2>3 DEF Counted, AllStored
    <3> QED BY <1>1, <3>1, StoredIsWhole
  <2> QED BY <2>1, <2>2, <2>3 DEF CountedBlocksWhole, Counted
<1>4. ReadsWhole
  <2> SUFFICES ASSUME reader.pc = "read", ~reader.removed
               PROVE  /\ [header |-> reader.header, rows |-> reader.rows] = WholeBlock(reader.header)
                      /\ reader.id \in DOMAIN chain /\ chain[reader.id] = reader.header
    BY DEF ReadsWhole
  <2>1. /\ reader # NoReader
        /\ reader \in [pc : {"rows", "read"}, id : Nat, removed : BOOLEAN, header : StoredBlock,
                       rows : Seq(StoredBlock)]
    BY <1>1 DEF ReaderInv, NoReader, Reading
  <2>2. /\ reader.id \in 1 .. Len(chain) /\ reader.header = chain[reader.id]
        /\ \A i \in 1 .. Len(reader.rows) : reader.rows[i] = reader.header
        /\ Len(reader.rows) = Size[reader.header]
    BY <1>1, <2>1 DEF ReaderInv
  <2>3. reader.rows = [i \in 1 .. Size[reader.header] |-> reader.header]
    <3>1. reader.rows \in Seq(StoredBlock)
      BY <2>1
    <3> QED BY <2>2, <3>1
  <2> QED BY <1>1, <2>2, <2>3 DEF WholeBlock
<1> QED BY <1>2, <1>3, <1>4 DEF BlocksWhole

\* The blocks of a node are whole in its database at every moment, of any sizes, through
\* additions, removals and crashes, and a reader without the lock gets whole blocks.
THEOREM StoredBlocksWhole == StoreSpec => []BlocksWhole
<1>1. StoreSpec => []StoreInv
  BY StoreInitInv, StoreNextInv, PTL DEF StoreSpec
<1> QED BY <1>1, StoreInvGives, PTL

===============================================================================
