---------------------------- MODULE ChainCoreProofs ----------------------------
(***************************************************************************)
(* Lemmas about the operations of ChainCore on one BlockChain object: what *)
(* executing and undoing transactions does to the balances, and that each  *)
(* operation leaves the blocks linked and the total work as far from the   *)
(* work of the blocks as it was.                                           *)
(***************************************************************************)
EXTENDS ChainCore, SumLemmas

-------------------------------------------------------------------------------
(* The transactions of a block in order.                                   *)

\* Sorting permutes.
LEMMA OrderedIsSeq == \A b \in Block : Ordered(b) \in Seq(Tx)
<1> SUFFICES ASSUME NEW b \in Block PROVE Ordered(b) \in Seq(Tx)
  OBVIOUS
<1> DEFINE txs == BlockBody[b].txs
           n == Len(txs)
           f == [i \in 1 .. n |-> 0 - TxBody[txs[i]].hash]
           order == CHOOSE p \in SetToSeqs(DOMAIN txs) : Descends(txs, p)
<1>1. txs \in Seq(Tx)
  BY ChainAssumption
<1>2. Ordered(b) = [i \in DOMAIN txs |-> txs[order[i]]]
  BY DEF Ordered, OrderedTxs
<1> HIDE DEF txs
<1>3. DOMAIN txs = 1 .. n /\ n \in Nat /\ \A i \in 1 .. n : txs[i] \in Tx
  BY <1>1
<1>4. \A i \in 1 .. n : TxBody[txs[i]].hash \in Int
  BY <1>3, ExecutorAssumption DEF Transaction
<1>5. IsFiniteSet(1 .. n) /\ Cardinality(1 .. n) = n
  BY <1>3, FS_Interval
<1>6. \A i \in 1 .. n : f[i] \in Int /\ f[i] = 0 - TxBody[txs[i]].hash
  BY <1>4
<1> HIDE DEF f, n
<1>7. PICK s \in [1 .. n -> 1 .. n] :
        /\ \A i, j \in 1 .. n : i # j => s[i] # s[j]
        /\ \A i, j \in 1 .. n : i <= j => f[s[i]] <= f[s[j]]
  <2>1. \E s \in [1 .. Cardinality(1 .. n) -> 1 .. n] :
          /\ \A i, j \in 1 .. Cardinality(1 .. n) : i # j => s[i] # s[j]
          /\ \A i, j \in 1 .. Cardinality(1 .. n) : i <= j => f[s[i]] <= f[s[j]]
    BY <1>5, <1>6, SetIsSorted
  <2> QED BY <1>5, <2>1
<1>8. s \in SetToSeqs(DOMAIN txs)
  BY <1>3, <1>5, <1>7 DEF SetToSeqs
<1>9. Descends(txs, s)
  <2> SUFFICES ASSUME NEW i \in 1 .. n, NEW j \in 1 .. n, i <= j
               PROVE  TxBody[txs[s[i]]].hash >= TxBody[txs[s[j]]].hash
    BY <1>3 DEF Descends
  <2>1. s[i] \in 1 .. n /\ s[j] \in 1 .. n /\ f[s[i]] <= f[s[j]]
    BY <1>7
  <2>2. /\ TxBody[txs[s[i]]].hash \in Int /\ f[s[i]] = 0 - TxBody[txs[s[i]]].hash
        /\ TxBody[txs[s[j]]].hash \in Int /\ f[s[j]] = 0 - TxBody[txs[s[j]]].hash
    BY <1>4, <1>6, <2>1
  <2> QED BY <2>1, <2>2
<1>10. order \in SetToSeqs(DOMAIN txs)
  BY <1>8, <1>9
<1> HIDE DEF order
<1>11. order \in [1 .. n -> 1 .. n]
  BY <1>3, <1>5, <1>10 DEF SetToSeqs
<1> QED BY <1>2, <1>3, <1>11

-------------------------------------------------------------------------------
(* Amounts.                                                                *)

\* Sums and differences of amounts are amounts, and undo each other.
LEMMA AmountArithmetic ==
  ASSUME NEW a \in Amount, NEW b \in Amount, NEW c \in Amount
  PROVE  /\ Plus(a, b) \in Amount /\ Minus(a, b) \in Amount
         /\ Minus(Plus(a, b), b) = a /\ Plus(Minus(a, b), b) = a
         /\ Plus(Plus(a, b), c) = Plus(a, Plus(b, c))
         /\ Minus(Plus(a, b), c) = Plus(a, Minus(b, c))
         /\ Plus(Plus(a, b), c) = Plus(Plus(a, c), b)
         /\ Plus(Minus(a, b), c) = Minus(Plus(a, c), b)
         /\ Minus(Minus(a, b), c) = Minus(Minus(a, c), b)
         /\ Plus(a, 0) = a /\ 0 \in Amount
BY ExecutorAssumption DEF Amount, Plus, Minus

\* What a transaction does to the value v of the wallet u.
Raised(u, w, v, amt) == IF u = w THEN Plus(v, amt) ELSE v
Lowered(u, w, v, amt) == IF u = w THEN Minus(v, amt) ELSE v
Shift(u, from, to, v, amt) == Raised(u, to, Lowered(u, from, v, amt), amt)
Sent(t, u, v) == Shift(u, TxBody[t].from, TxBody[t].to, v, TxBody[t].amount)
Unsent(t, u, v) == Shift(u, TxBody[t].to, TxBody[t].from, v, TxBody[t].amount)
Charged(t, m, u, v) == Shift(u, TxBody[t].from, m, v, TxBody[t].fees)
Uncharged(t, m, u, v) == Shift(u, m, TxBody[t].from, v, TxBody[t].fees)
Forward(t, m, u, v) ==
  IF TxBody[t].fee THEN Raised(u, TxBody[t].to, v, TxBody[t].amount)
  ELSE IF TxBody[t].fees = 0 THEN Sent(t, u, v) ELSE Charged(t, m, u, Sent(t, u, v))
Backward(t, m, u, v) ==
  IF TxBody[t].fee THEN Lowered(u, TxBody[t].to, v, TxBody[t].amount)
  ELSE IF TxBody[t].fees = 0 THEN Unsent(t, u, v) ELSE Uncharged(t, m, u, Unsent(t, u, v))

\* The first block only pays out.
Moved(t, m, id, u, v) ==
  IF id = 1 THEN Raised(u, TxBody[t].to, v, TxBody[t].amount) ELSE Forward(t, m, u, v)

LEMMA BodyType ==
  ASSUME NEW t \in Tx PROVE TxBody[t].amount \in Amount /\ TxBody[t].fees \in Amount
BY ExecutorAssumption DEF Transaction

\* An amount moved from one wallet to another, forwards and backwards.
LEMMA AddType ==
  ASSUME NEW v \in Amount, NEW a \in Amount, NEW u, NEW w
  PROVE  /\ Raised(u, w, v, a) \in Amount /\ Lowered(u, w, v, a) \in Amount
         /\ Lowered(u, w, Raised(u, w, v, a), a) = v /\ Raised(u, w, Lowered(u, w, v, a), a) = v
<1>1. CASE u = w
  BY <1>1, AmountArithmetic DEF Raised, Lowered
<1>2. CASE u # w
  BY <1>2 DEF Raised, Lowered
<1> QED
  BY <1>1, <1>2

LEMMA ShiftBack ==
  ASSUME NEW v \in Amount, NEW a \in Amount, NEW u, NEW from, NEW to
  PROVE  /\ Shift(u, from, to, v, a) \in Amount
         /\ Shift(u, to, from, Shift(u, from, to, v, a), a) = v
<1>1. Lowered(u, from, v, a) \in Amount
  BY AddType
<1>2. /\ Raised(u, to, Lowered(u, from, v, a), a) \in Amount
      /\ Lowered(u, to, Raised(u, to, Lowered(u, from, v, a), a), a) = Lowered(u, from, v, a)
  BY <1>1, AddType
<1>3. Raised(u, from, Lowered(u, from, v, a), a) = v
  BY AddType
<1> QED
  BY <1>2, <1>3, Zenon DEF Shift

\* Changes of one value can be made in any order.
LEMMA AddCommutes ==
  ASSUME NEW v \in Amount, NEW a \in Amount, NEW b \in Amount, NEW u, NEW w, NEW p
  PROVE  /\ Raised(u, w, Raised(u, p, v, b), a) = Raised(u, p, Raised(u, w, v, a), b)
         /\ Raised(u, w, Lowered(u, p, v, b), a) = Lowered(u, p, Raised(u, w, v, a), b)
         /\ Lowered(u, w, Lowered(u, p, v, b), a) = Lowered(u, p, Lowered(u, w, v, a), b)
<1>1. CASE u = w /\ u = p
  BY <1>1, AmountArithmetic DEF Raised, Lowered
<1>2. CASE u # w \/ u # p
  BY <1>2 DEF Raised, Lowered
<1> QED
  BY <1>1, <1>2

LEMMA ShiftCommutes ==
  ASSUME NEW v \in Amount, NEW a \in Amount, NEW b \in Amount,
         NEW u, NEW from, NEW to, NEW p, NEW q
  PROVE  Shift(u, from, to, Shift(u, p, q, v, b), a) = Shift(u, p, q, Shift(u, from, to, v, a), b)
<1>1. /\ Lowered(u, p, v, b) \in Amount /\ Lowered(u, from, v, a) \in Amount
      /\ Lowered(u, from, Lowered(u, p, v, b), a) \in Amount
  BY AddType
<1>2. Lowered(u, from, Raised(u, q, Lowered(u, p, v, b), b), a) = Raised(u, q, Lowered(u, from, Lowered(u, p, v, b), a), b)
  BY <1>1, AddCommutes
<1>3. Lowered(u, from, Lowered(u, p, v, b), a) = Lowered(u, p, Lowered(u, from, v, a), b)
  BY AddCommutes
<1>4. Raised(u, to, Raised(u, q, Lowered(u, from, Lowered(u, p, v, b), a), b), a)
        = Raised(u, q, Raised(u, to, Lowered(u, from, Lowered(u, p, v, b), a), a), b)
  BY <1>1, AddCommutes
<1>5. Raised(u, to, Lowered(u, p, Lowered(u, from, v, a), b), a) = Lowered(u, p, Raised(u, to, Lowered(u, from, v, a), a), b)
  BY <1>1, AddCommutes
<1> QED
  BY <1>2, <1>3, <1>4, <1>5, Zenon DEF Shift

\* What a transaction did is undone, though the amount goes back before the fees.
LEMMA BackwardUndoes ==
  ASSUME NEW t \in Tx, NEW m, NEW u, NEW v \in Amount
  PROVE  Forward(t, m, u, v) \in Amount /\ Backward(t, m, u, Forward(t, m, u, v)) = v
<1>1. TxBody[t].amount \in Amount /\ TxBody[t].fees \in Amount
  BY BodyType
<1>2. Sent(t, u, v) \in Amount /\ Unsent(t, u, Sent(t, u, v)) = v
  BY <1>1, ShiftBack DEF Sent, Unsent
<1>3. /\ Charged(t, m, u, Sent(t, u, v)) \in Amount
      /\ Unsent(t, u, Charged(t, m, u, Sent(t, u, v))) = Charged(t, m, u, v)
      /\ Uncharged(t, m, u, Charged(t, m, u, v)) = v
  <2>1. Charged(t, m, u, Sent(t, u, v)) = Sent(t, u, Charged(t, m, u, v))
    BY <1>1, ShiftCommutes DEF Charged, Sent
  <2>2. /\ Charged(t, m, u, v) \in Amount /\ Charged(t, m, u, Sent(t, u, v)) \in Amount
        /\ Uncharged(t, m, u, Charged(t, m, u, v)) = v
    BY <1>1, <1>2, ShiftBack DEF Charged, Uncharged
  <2>3. Unsent(t, u, Sent(t, u, Charged(t, m, u, v))) = Charged(t, m, u, v)
    BY <1>1, <2>2, ShiftBack DEF Sent, Unsent
  <2> QED
    BY <2>1, <2>2, <2>3, Zenon
<1>4. /\ Raised(u, TxBody[t].to, v, TxBody[t].amount) \in Amount
      /\ Lowered(u, TxBody[t].to, Raised(u, TxBody[t].to, v, TxBody[t].amount), TxBody[t].amount) = v
  BY <1>1, AddType, Zenon
<1>5. CASE TxBody[t].fee
  BY <1>4, <1>5, Zenon DEF Forward, Backward
<1>6. CASE ~TxBody[t].fee /\ TxBody[t].fees = 0
  BY <1>2, <1>6, Zenon DEF Forward, Backward
<1>7. CASE ~TxBody[t].fee /\ TxBody[t].fees # 0
  BY <1>3, <1>7, Zenon DEF Forward, Backward
<1> QED
  BY <1>5, <1>6, <1>7

-------------------------------------------------------------------------------
(* Ledgers and deltas.                                                     *)

\* A map of amounts, read with ValueOf.
AmountMap(f) == \A u : ValueOf(f, u) \in Amount

LEMMA SetValue ==
  ASSUME NEW f, NEW w, NEW v, NEW u
  PROVE  ValueOf(SetWalletValue(f, w, v), u) = IF u = w THEN v ELSE ValueOf(f, u)
BY DEF SetWalletValue, ValueOf

LEMMA IncreaseValue ==
  ASSUME NEW f, NEW w, NEW a, NEW u
  PROVE  ValueOf(Increase(f, w, a), u) = Raised(u, w, ValueOf(f, u), a)
BY SetValue DEF Increase, Raised
LEMMA DecreaseValue ==
  ASSUME NEW f, NEW w, NEW a, NEW u
  PROVE  ValueOf(Decrease(f, w, a), u) = Lowered(u, w, ValueOf(f, u), a)
BY SetValue DEF Decrease, Lowered

\* An execution under way is a record of three fields.
ExecutionRecord(r) == r = [status |-> r.status, ledger |-> r.ledger, deltas |-> r.deltas]

LEMMA TwoMaps ==
  ASSUME NEW r, ExecutionRecord(r), NEW l, NEW d
  PROVE  [r EXCEPT !.ledger = l, !.deltas = d] = [status |-> r.status, ledger |-> l, deltas |-> d]
<1> DEFINE p == [status |-> r.status, ledger |-> l, deltas |-> r.deltas]
<1>1. [r EXCEPT !.ledger = l] = p
  BY DEF ExecutionRecord
<1>2. [p EXCEPT !.deltas = d] = [status |-> r.status, ledger |-> l, deltas |-> d]
  OBVIOUS
<1>3. [r EXCEPT !.ledger = l, !.deltas = d] = [[r EXCEPT !.ledger = l] EXCEPT !.deltas = d]
  BY Zenon
<1> HIDE DEF p
<1> QED
  BY <1>1, <1>2, <1>3, Zenon

\* The deltas explain the ledger.
Explains(r, before) ==
  /\ ExecutionRecord(r) /\ AmountMap(r.ledger) /\ AmountMap(r.deltas)
  /\ \A u : ValueOf(r.ledger, u) = Plus(ValueOf(before, u), ValueOf(r.deltas, u))

LEMMA DepositExplains ==
  ASSUME NEW r, NEW before, AmountMap(before), Explains(r, before), NEW w, NEW a \in Amount
  PROVE  /\ Explains(Deposit(r, w, a), before)
         /\ \A u : ValueOf(Deposit(r, w, a).ledger, u) = Raised(u, w, ValueOf(r.ledger, u), a)
         /\ Deposit(r, w, a).status = r.status
         /\ DOMAIN r.ledger \subseteq DOMAIN Deposit(r, w, a).ledger
<1> DEFINE l == Increase(r.ledger, w, a)
           d == Increase(r.deltas, w, a)
<1>1. Deposit(r, w, a) = [status |-> r.status, ledger |-> l, deltas |-> d]
  BY TwoMaps DEF Deposit, Explains
<1>2. \A u : /\ ValueOf(l, u) = Raised(u, w, ValueOf(r.ledger, u), a)
             /\ ValueOf(d, u) = Raised(u, w, ValueOf(r.deltas, u), a)
  BY IncreaseValue
<1>4. DOMAIN r.ledger \subseteq DOMAIN l
  BY DEF Increase, SetWalletValue
<1> HIDE DEF l, d
<1>3. ASSUME NEW u
      PROVE  /\ ValueOf(l, u) \in Amount /\ ValueOf(d, u) \in Amount
             /\ ValueOf(l, u) = Plus(ValueOf(before, u), ValueOf(d, u))
  <2>1. /\ ValueOf(r.ledger, u) \in Amount /\ ValueOf(r.deltas, u) \in Amount
        /\ ValueOf(before, u) \in Amount
        /\ ValueOf(r.ledger, u) = Plus(ValueOf(before, u), ValueOf(r.deltas, u))
    BY DEF Explains, AmountMap
  <2>2. CASE u = w
    BY <1>2, <2>1, <2>2, AmountArithmetic DEF Raised
  <2>3. CASE u # w
    BY <1>2, <2>1, <2>3 DEF Raised
  <2> QED
    BY <2>2, <2>3
<1> QED
  BY <1>1, <1>2, <1>3, <1>4 DEF Explains, AmountMap, ExecutionRecord

LEMMA WithdrawExplains ==
  ASSUME NEW r, NEW before, AmountMap(before), Explains(r, before), NEW w, NEW a \in Amount
  PROVE  /\ Explains(Withdraw(r, w, a), before)
         /\ \A u : ValueOf(Withdraw(r, w, a).ledger, u) = Lowered(u, w, ValueOf(r.ledger, u), a)
         /\ Withdraw(r, w, a).status = r.status
         /\ DOMAIN r.ledger \subseteq DOMAIN Withdraw(r, w, a).ledger
<1> DEFINE l == Decrease(r.ledger, w, a)
           d == Decrease(r.deltas, w, a)
<1>1. Withdraw(r, w, a) = [status |-> r.status, ledger |-> l, deltas |-> d]
  BY TwoMaps DEF Withdraw, Explains
<1>2. \A u : /\ ValueOf(l, u) = Lowered(u, w, ValueOf(r.ledger, u), a)
             /\ ValueOf(d, u) = Lowered(u, w, ValueOf(r.deltas, u), a)
  BY DecreaseValue
<1>4. DOMAIN r.ledger \subseteq DOMAIN l
  BY DEF Decrease, SetWalletValue
<1> HIDE DEF l, d
<1>3. ASSUME NEW u
      PROVE  /\ ValueOf(l, u) \in Amount /\ ValueOf(d, u) \in Amount
             /\ ValueOf(l, u) = Plus(ValueOf(before, u), ValueOf(d, u))
  <2>1. /\ ValueOf(r.ledger, u) \in Amount /\ ValueOf(r.deltas, u) \in Amount
        /\ ValueOf(before, u) \in Amount
        /\ ValueOf(r.ledger, u) = Plus(ValueOf(before, u), ValueOf(r.deltas, u))
    BY DEF Explains, AmountMap
  <2>2. CASE u = w
    BY <1>2, <2>1, <2>2, AmountArithmetic DEF Lowered
  <2>3. CASE u # w
    BY <1>2, <2>1, <2>3 DEF Lowered
  <2> QED
    BY <2>2, <2>3
<1> QED
  BY <1>1, <1>2, <1>3, <1>4 DEF Explains, AmountMap, ExecutionRecord

LEMMA StatusExplains ==
  ASSUME NEW r, NEW before, Explains(r, before), NEW s
  PROVE  /\ Explains([r EXCEPT !.status = s], before) /\ [r EXCEPT !.status = s].status = s
         /\ [r EXCEPT !.status = s].ledger = r.ledger
<1>1. [r EXCEPT !.status = s] = [status |-> s, ledger |-> r.ledger, deltas |-> r.deltas]
  BY DEF Explains, ExecutionRecord
<1> QED
  BY <1>1 DEF Explains, ExecutionRecord

\* A transaction that is executed does to every wallet what Forward says.
LEMMA MovesExplain ==
  ASSUME NEW r, NEW before, AmountMap(before), Explains(r, before), NEW t \in Tx, NEW m,
         NEW id
  PROVE  /\ Explains(Moves(r, t, m, id), before)
         /\ \A u : ValueOf(Moves(r, t, m, id).ledger, u) = Moved(t, m, id, u, ValueOf(r.ledger, u))
         /\ Moves(r, t, m, id).status = r.status
         /\ DOMAIN r.ledger \subseteq DOMAIN Moves(r, t, m, id).ledger
<1> DEFINE b == TxBody[t]
           taken == Withdraw(r, b.from, b.amount)
           paid == Deposit(taken, b.to, b.amount)
           charged == Withdraw(paid, b.from, b.fees)
<1>1. b.amount \in Amount /\ b.fees \in Amount
  BY BodyType
<1>2. /\ Explains(taken, before)
      /\ \A u : ValueOf(taken.ledger, u) = Lowered(u, b.from, ValueOf(r.ledger, u), b.amount)
      /\ taken.status = r.status /\ DOMAIN r.ledger \subseteq DOMAIN taken.ledger
  <2> HIDE DEF b
  <2> QED
    BY <1>1, WithdrawExplains
<1>3. /\ Explains(paid, before)
      /\ \A u : ValueOf(paid.ledger, u) = Sent(t, u, ValueOf(r.ledger, u))
      /\ paid.status = r.status /\ DOMAIN r.ledger \subseteq DOMAIN paid.ledger
  <2> HIDE DEF taken
  <2>1. /\ Explains(paid, before)
        /\ \A u : ValueOf(paid.ledger, u) = Raised(u, b.to, ValueOf(taken.ledger, u), b.amount)
        /\ paid.status = taken.status /\ DOMAIN taken.ledger \subseteq DOMAIN paid.ledger
    BY <1>1, <1>2, DepositExplains
  <2> HIDE DEF paid
  <2> QED
    BY <1>2, <2>1 DEF Sent, Shift
<1>4. /\ Explains(charged, before)
      /\ \A u : ValueOf(charged.ledger, u) = Lowered(u, b.from, ValueOf(paid.ledger, u), b.fees)
      /\ charged.status = paid.status /\ DOMAIN paid.ledger \subseteq DOMAIN charged.ledger
  <2> HIDE DEF paid
  <2> QED
    BY <1>1, <1>3, WithdrawExplains
<1>5. CASE b.fee \/ id = 1
  <2>1. Moves(r, t, m, id) = Deposit(r, b.to, b.amount)
    BY <1>5 DEF Moves
  <2> QED
    BY <1>1, <1>5, <2>1, DepositExplains DEF Moved, Forward
<1>6. CASE ~b.fee /\ id # 1 /\ b.fees = 0
  <2>1. Moves(r, t, m, id) = paid
    BY <1>1, <1>6 DEF Moves
  <2> HIDE DEF paid
  <2> QED
    BY <1>3, <1>6, <2>1 DEF Moved, Forward
<1>7. CASE ~b.fee /\ id # 1 /\ b.fees # 0
  <2>1. Moves(r, t, m, id) = Deposit(charged, m, b.fees)
    BY <1>1, <1>7 DEF Moves
  <2> HIDE DEF charged, paid
  <2>2. /\ Explains(Deposit(charged, m, b.fees), before)
        /\ \A u : ValueOf(Deposit(charged, m, b.fees).ledger, u) = Raised(u, m, ValueOf(charged.ledger, u), b.fees)
        /\ Deposit(charged, m, b.fees).status = charged.status
        /\ DOMAIN charged.ledger \subseteq DOMAIN Deposit(charged, m, b.fees).ledger
    BY <1>1, <1>4, DepositExplains
  <2> QED
    BY <1>3, <1>4, <1>7, <2>1, <2>2 DEF Moved, Forward, Charged, Shift
<1> QED
  BY <1>5, <1>6, <1>7

LEMMA ExecuteExplains ==
  ASSUME NEW r, NEW before, AmountMap(before), Explains(r, before), NEW t \in Tx, NEW m,
         NEW fee, NEW id, NEW r2, r2 = ExecuteNext(r, t, m, fee, id)
  PROVE  /\ Explains(r2, before)
         /\ DOMAIN r.ledger \subseteq DOMAIN r2.ledger
         /\ r2.status = "SUCCESS" =>
              /\ r.status = "SUCCESS" /\ UpdateStatus(r.ledger, t, fee, id) = "SUCCESS"
              /\ \A u : ValueOf(r2.ledger, u) = Moved(t, m, id, u, ValueOf(r.ledger, u))
<1>1. CASE r2 = r /\ r.status # "SUCCESS"
  BY <1>1
<1>2. ASSUME NEW s, s # "SUCCESS", r2 = [r EXCEPT !.status = s]
      PROVE  Explains(r2, before) /\ r2.status # "SUCCESS" /\ r2.ledger = r.ledger
  BY <1>2, StatusExplains
<1>3. CASE /\ r.status = "SUCCESS" /\ UpdateStatus(r.ledger, t, fee, id) = "SUCCESS"
           /\ r2 = Moves(r, t, m, id)
  BY <1>3, MovesExplain
<1>4. \/ r2 = r /\ r.status # "SUCCESS"
      \/ \E s : s # "SUCCESS" /\ r2 = [r EXCEPT !.status = s]
      \/ /\ r.status = "SUCCESS" /\ UpdateStatus(r.ledger, t, fee, id) = "SUCCESS"
         /\ r2 = Moves(r, t, m, id)
  BY DEF ExecuteNext, UpdateLedger
<1> QED
  BY <1>1, <1>2, <1>3, <1>4

\* Undoing a transaction does to every wallet what Backward says.
LEMMA RollbackValue ==
  ASSUME NEW l, AmountMap(l), NEW t \in Tx, NEW m, NEW u
  PROVE  ValueOf(RollbackLedger(l, t, m), u) = Backward(t, m, u, ValueOf(l, u))
<1> DEFINE b == TxBody[t]
           unpaid == Decrease(l, b.to, b.amount)
           unsent == Increase(unpaid, b.from, b.amount)
           refused == Decrease(unsent, m, b.fees)
<1>1. /\ ValueOf(unpaid, u) = Lowered(u, b.to, ValueOf(l, u), b.amount)
      /\ ValueOf(unsent, u) = Raised(u, b.from, ValueOf(unpaid, u), b.amount)
      /\ ValueOf(refused, u) = Lowered(u, m, ValueOf(unsent, u), b.fees)
      /\ ValueOf(Increase(refused, b.from, b.fees), u) = Raised(u, b.from, ValueOf(refused, u), b.fees)
  <2> HIDE DEF b
  <2>1. ValueOf(unpaid, u) = Lowered(u, b.to, ValueOf(l, u), b.amount)
    BY DecreaseValue
  <2>2. ValueOf(unsent, u) = Raised(u, b.from, ValueOf(unpaid, u), b.amount)
    BY IncreaseValue
  <2>3. ValueOf(refused, u) = Lowered(u, m, ValueOf(unsent, u), b.fees)
    BY DecreaseValue
  <2>4. ValueOf(Increase(refused, b.from, b.fees), u) = Raised(u, b.from, ValueOf(refused, u), b.fees)
    BY IncreaseValue
  <2> QED
    BY <2>1, <2>2, <2>3, <2>4
<1>2. RollbackLedger(l, t, m) = IF b.fee THEN unpaid ELSE IF b.fees = 0 THEN unsent
                                ELSE Increase(refused, b.from, b.fees)
  BY Zenon DEF RollbackLedger
<1> HIDE DEF unpaid, unsent, refused
<1> QED
  BY <1>1, <1>2 DEF Backward, Unsent, Uncharged, Shift

-------------------------------------------------------------------------------
(* Lists of transactions, executed one after the other and undone.         *)

\* The recursive function of Executed exists, so that it starts and goes on as written.
LEMMA ExecutedSteps ==
  ASSUME NEW txs \in Seq(Tx), NEW id, NEW l, NEW fee, NEW k \in 0 .. Len(txs)
  PROVE  Executed(txs, k, id, l, fee)
           = IF k = 0 THEN Begin(l)
             ELSE ExecuteNext(Executed(txs, k - 1, id, l, fee), txs[k], Miner(txs), fee, id)
<1> DEFINE NextOf(r, i) == ExecuteNext(r, txs[i], Miner(txs), fee, id)
           first == Begin(l)
           Table(g, n) == g = [i \in 0 .. n |-> IF i = 0 THEN first ELSE NextOf(g[i - 1], i)]
           G == {n \in Nat : \E g : Table(g, n)}
           x == CHOOSE g : Table(g, Len(txs))
<1>1. \A i : Executed(txs, i, id, l, fee) = x[i]
  BY Zenon DEF Executed
<1> HIDE DEF NextOf, first
<1>2. 0 \in G
  <2>1. Table([i \in 0 .. 0 |-> first], 0)
    OBVIOUS
  <2> QED BY <2>1
<1>3. ASSUME NEW n \in Nat, n \in G
      PROVE  n + 1 \in G
  <2>1. PICK g : Table(g, n)
    BY <1>3
  <2> DEFINE h == [i \in 0 .. n + 1 |-> IF i = n + 1 THEN NextOf(g[n], n + 1) ELSE g[i]]
  <2>2. ASSUME NEW i \in 0 .. n + 1
        PROVE  h[i] = IF i = 0 THEN first ELSE NextOf(h[i - 1], i)
    <3>1. CASE i = n + 1
      BY <3>1
    <3>2. CASE i # n + 1
      <4>1. i \in 0 .. n /\ (i # 0 => i - 1 \in 0 .. n + 1 /\ i - 1 # n + 1)
        BY <3>2
      <4>2. h[i] = g[i] /\ g[i] = IF i = 0 THEN first ELSE NextOf(g[i - 1], i)
        BY <2>1, <3>2, <4>1
      <4> QED BY <4>1, <4>2
    <3> QED BY <3>1, <3>2
  <2>3. h = [i \in 0 .. n + 1 |-> h[i]]
    OBVIOUS
  <2> HIDE DEF h
  <2>4. Table(h, n + 1)
    BY <2>2, <2>3
  <2> HIDE DEF Table
  <2> QED BY <2>4
<1>4. Len(txs) \in G
  <2> HIDE DEF G
  <2> QED BY <1>2, <1>3, SetInduction
<1>5. Table(x, Len(txs))
  <2>1. \E g : Table(g, Len(txs))
    BY <1>4
  <2> HIDE DEF Table
  <2> QED BY <2>1
<1> HIDE DEF x
<1>6. x[k] = IF k = 0 THEN first ELSE NextOf(x[k - 1], k)
  BY <1>5
<1> QED BY <1>1, <1>6, Zenon DEF NextOf, first

\* So does that of RollbackFrom, from the last transaction down.
LEMMA UndoneSteps ==
  ASSUME NEW txs \in Seq(Tx), NEW l, NEW d, NEW k \in 1 .. Len(txs) + 1
  PROVE  RollbackFrom(txs, k, l, d).ledger
           = IF k > Len(txs) THEN l
             ELSE RollbackLedger(RollbackFrom(txs, k + 1, l, d).ledger, txs[k], Miner(txs))
<1> DEFINE len == Len(txs)
           Undo(r, i) == RollbackLedger(r, txs[i], Miner(txs))
           Table(g, n) == g = [i \in n .. len + 1 |-> IF i > len THEN l ELSE Undo(g[i + 1], i)]
           G == {n \in Nat : n <= len => \E g : Table(g, len + 1 - n)}
           u == CHOOSE g : Table(g, 1)
<1>1. \A i : RollbackFrom(txs, i, l, d).ledger = u[i]
  <2>1. ASSUME NEW i PROVE RollbackFrom(txs, i, l, d).ledger = u[i]
    BY DEF RollbackFrom
  <2> QED BY <2>1
<1>0. len \in Nat
  OBVIOUS
<1> HIDE DEF Undo, len
<1>2. 0 \in G
  <2>1. Table([i \in len + 1 .. len + 1 |-> l], len + 1)
    BY <1>0
  <2>2. len + 1 - 0 = len + 1
    BY <1>0
  <2> HIDE DEF Table
  <2> QED BY <2>1, <2>2
<1>3. ASSUME NEW n \in Nat, n \in G
      PROVE  n + 1 \in G
  <2> SUFFICES ASSUME n + 1 <= len PROVE \E g : Table(g, len + 1 - (n + 1))
    OBVIOUS
  <2> DEFINE m == len + 1 - n
  <2>0. m \in Nat /\ m > 1 /\ m - 1 <= len /\ len + 1 - (n + 1) = m - 1
    BY <1>0
  <2>1. PICK g : Table(g, m)
    BY <1>0, <1>3
  <2> HIDE DEF m
  <2> DEFINE h == [i \in m - 1 .. len + 1 |-> IF i = m - 1 THEN Undo(g[m], m - 1) ELSE g[i]]
  <2>2. ASSUME NEW i \in m - 1 .. len + 1
        PROVE  h[i] = IF i > len THEN l ELSE Undo(h[i + 1], i)
    <3>1. CASE i = m - 1
      <4>1. i + 1 = m /\ m \in m - 1 .. len + 1 /\ ~(i > len) /\ m # m - 1
        BY <1>0, <2>0, <3>1
      <4> QED BY <3>1, <4>1
    <3>2. CASE i # m - 1
      <4>1. i \in m .. len + 1 /\ (~(i > len) => i + 1 \in m .. len + 1 /\ i + 1 # m - 1 /\ i + 1 \in m - 1 .. len + 1)
        BY <1>0, <2>0, <3>2
      <4>2. h[i] = g[i] /\ g[i] = IF i > len THEN l ELSE Undo(g[i + 1], i)
        BY <2>1, <3>2, <4>1
      <4> QED BY <4>1, <4>2
    <3> QED BY <3>1, <3>2
  <2>3. h = [i \in m - 1 .. len + 1 |-> h[i]]
    OBVIOUS
  <2> HIDE DEF h
  <2>4. Table(h, m - 1)
    BY <2>2, <2>3
  <2> QED BY <2>0, <2>4
<1>4. \E g : Table(g, 1)
  <2>1. len \in G
    <3> HIDE DEF G
    <3> QED BY <1>0, <1>2, <1>3, SetInduction
  <2>2. len + 1 - len = 1
    BY <1>0
  <2> QED BY <1>0, <2>1, <2>2
<1>5. Table(u, 1)
  <2> HIDE DEF Table
  <2> QED BY <1>4
<1> HIDE DEF u
<1>6. u[k] = IF k > len THEN l ELSE Undo(u[k + 1], k)
  <2>1. k \in 1 .. len + 1
    BY DEF len
  <2> QED BY <1>5, <2>1
<1> QED BY <1>1, <1>6, Zenon DEF Undo, len

\* Up to each transaction the deltas explain the ledger, and no wallet was removed from it.
LEMMA ExecutedExplains ==
  ASSUME NEW txs \in Seq(Tx), NEW id, NEW l, AmountMap(l), NEW fee, NEW k \in 0 .. Len(txs),
         NEW x, x = Executed(txs, k, id, l, fee)
  PROVE  Explains(x, l) /\ DOMAIN l \subseteq DOMAIN x.ledger
<1> DEFINE E(i) == Executed(txs, i, id, l, fee)
           m == Miner(txs)
           P(i) == Explains(E(i), l) /\ DOMAIN l \subseteq DOMAIN E(i).ledger
           G == {n \in Nat : n <= Len(txs) => P(n)}
<1>1. E(0) = Begin(l) /\ \A i \in 1 .. Len(txs) : E(i) = ExecuteNext(E(i - 1), txs[i], m, fee, id)
  <2>1. 0 \in 0 .. Len(txs)
    OBVIOUS
  <2>2. E(0) = Begin(l)
    BY <2>1, ExecutedSteps
  <2>3. ASSUME NEW i \in 1 .. Len(txs)
        PROVE  E(i) = ExecuteNext(E(i - 1), txs[i], m, fee, id)
    <3>1. i \in 0 .. Len(txs) /\ i # 0
      OBVIOUS
    <3> QED BY <3>1, ExecutedSteps
  <2> QED BY <2>2, <2>3
<1>0. x = E(k)
  OBVIOUS
<1> HIDE DEF E, m
<1>2. P(0)
  <2>1. \A u : ValueOf(<<>>, u) = 0
    BY DEF ValueOf
  <2>2. E(0).ledger = l /\ E(0).deltas = <<>> /\ ExecutionRecord(E(0))
    BY <1>1 DEF Begin, ExecutionRecord
  <2>3. ASSUME NEW u
        PROVE  ValueOf(l, u) \in Amount /\ ValueOf(l, u) = Plus(ValueOf(l, u), ValueOf(<<>>, u))
    <3>1. ValueOf(l, u) \in Amount
      BY DEF AmountMap
    <3>2. Plus(ValueOf(l, u), 0) = ValueOf(l, u)
      BY <3>1, AmountArithmetic
    <3> QED BY <2>1, <3>1, <3>2
  <2>4. AmountMap(<<>>)
    BY <2>1, <2>3, AmountArithmetic DEF AmountMap
  <2> QED BY <2>2, <2>3, <2>4 DEF Explains
<1>3. ASSUME NEW i \in 1 .. Len(txs), P(i - 1)
      PROVE  P(i)
  <2>1. txs[i] \in Tx /\ E(i) = ExecuteNext(E(i - 1), txs[i], m, fee, id)
    BY <1>1
  <2>2. Explains(E(i - 1), l) /\ DOMAIN l \subseteq DOMAIN E(i - 1).ledger
    BY <1>3
  <2> DEFINE e == E(i)
             d == E(i - 1)
             t == txs[i]
  <2>3. e = ExecuteNext(d, t, m, fee, id) /\ Explains(d, l) /\ t \in Tx
    BY <2>1, <2>2
  <2> HIDE DEF e, d, t
  <2>4. Explains(e, l) /\ DOMAIN d.ledger \subseteq DOMAIN e.ledger
    BY <2>3, ExecuteExplains
  <2> QED BY <2>2, <2>4 DEF e, d, t
<1>4. \A n \in 0 .. Len(txs) : P(n)
  <2>1. 0 \in G
    BY <1>2
  <2>2. ASSUME NEW n \in Nat, n \in G
        PROVE  n + 1 \in G
    <3> SUFFICES ASSUME n + 1 <= Len(txs) PROVE P(n + 1)
      OBVIOUS
    <3>1. n + 1 \in 1 .. Len(txs) /\ (n + 1) - 1 = n /\ P(n)
      BY <2>2
    <3> HIDE DEF P
    <3> QED BY <1>3, <3>1
  <2>3. Nat \subseteq G
    <3> HIDE DEF G
    <3> QED BY <2>1, <2>2, SetInduction
  <2> HIDE DEF P
  <2> QED BY <2>3
<1> HIDE DEF P
<1>5. P(k)
  BY <1>4
<1> QED BY <1>0, <1>5 DEF P

\* Taking the deltas back gives every wallet the value it had.
LEMMA RollbackRestores ==
  ASSUME NEW r, NEW before, AmountMap(before), Explains(r, before),
         DOMAIN before \subseteq DOMAIN r.ledger, NEW u
  PROVE  ValueOf(Rollback(r.ledger, r.deltas), u) = ValueOf(before, u)
<1>1. /\ ValueOf(r.ledger, u) = Plus(ValueOf(before, u), ValueOf(r.deltas, u))
      /\ ValueOf(before, u) \in Amount /\ ValueOf(r.deltas, u) \in Amount
  BY DEF Explains, AmountMap
<1>2. CASE u \in DOMAIN r.ledger
  <2>1. ValueOf(Rollback(r.ledger, r.deltas), u) = Minus(ValueOf(r.ledger, u), ValueOf(r.deltas, u))
    BY <1>2 DEF Rollback, ValueOf
  <2> QED BY <1>1, <2>1, AmountArithmetic
<1>3. CASE u \notin DOMAIN r.ledger
  BY <1>3 DEF Rollback, ValueOf
<1> QED BY <1>2, <1>3

\* A block that passes the first pass has a mining fee, and no transaction of the store
\* unless it is the first.
LEMMA FirstPassed ==
  ASSUME NEW txs \in Seq(Tx), NEW txdb, NEW id, NEW fee, FirstPass(txs, txdb, id, fee) = "SUCCESS"
  PROVE  /\ FeeTxs(txs) # {} /\ TxBody[txs[Min(FeeTxs(txs))]].amount = fee
         /\ \A i \in DOMAIN txs : PassStatus(txs, i, txdb, id) = "SUCCESS"
         /\ \A i \in DOMAIN txs : ~TxBody[txs[i]].fee /\ id # 1 => txs[i] \notin DOMAIN txdb
<1> DEFINE refused == {i \in DOMAIN txs : PassStatus(txs, i, txdb, id) # "SUCCESS"}
<1>1. refused = {}
  <2> SUFFICES ASSUME refused # {} PROVE FALSE
    OBVIOUS
  <2>1. refused \subseteq Nat
    OBVIOUS
  <2>2. Min(refused) \in refused
    <3> HIDE DEF refused
    <3> QED BY <2>1, LeastNat
  <2>3. PassStatus(txs, Min(refused), txdb, id) # "SUCCESS"
    BY <2>2
  <2>4. FirstPass(txs, txdb, id, fee) = PassStatus(txs, Min(refused), txdb, id)
    BY DEF FirstPass
  <2> QED BY <2>3, <2>4
<1>2. FeeTxs(txs) # {} /\ TxBody[txs[Min(FeeTxs(txs))]].amount = fee
  BY <1>1 DEF FirstPass
<1>3. \A i \in DOMAIN txs : PassStatus(txs, i, txdb, id) = "SUCCESS"
  BY <1>1
<1>4. \A i \in DOMAIN txs : ~TxBody[txs[i]].fee /\ id # 1 => txs[i] \notin DOMAIN txdb
  BY <1>3 DEF PassStatus
<1> QED BY <1>2, <1>3, <1>4

\* Its miner is a wallet.
LEMMA MinerIsWallet ==
  ASSUME NEW txs \in Seq(Tx), FeeTxs(txs) # {}
  PROVE  Miner(txs) \in Wallet
<1>1. FeeTxs(txs) \subseteq Nat /\ \A i \in FeeTxs(txs) : txs[i] \in Tx
  BY DEF FeeTxs
<1>2. txs[Min(FeeTxs(txs))] \in Tx
  BY <1>1, LeastNat
<1> QED BY <1>2, ExecutorAssumption DEF Miner, Transaction

-------------------------------------------------------------------------------
(* The record of a chain, and what the blocks alone say.                   *)

ChainFields == {"ledger", "txdb", "blocks", "count", "work", "numBlocks", "totalWork",
                "difficulty", "lastHash"}
IsChain(c) == c = [f \in ChainFields |-> c[f]]

DifficultyOf(b) == BlockBody[b].difficulty

\* The difficulty after the first n of the blocks, when it was d for the last.
NextDifficulty(blocks, n, d) == UpdateDifficulty([blocks |-> blocks, numBlocks |-> n, difficulty |-> d])
MayFollow(blocks, n) ==
  {DifficultyOf(blocks[n]), NextDifficulty(blocks, n, DifficultyOf(blocks[n]))}

LinkedUpTo(blocks, n) ==
  /\ 1 .. n \subseteq DOMAIN blocks
  /\ \A i \in 1 .. n : blocks[i] \in Block
  /\ blocks[1] = Genesis
  /\ \A i \in 2 .. n : /\ BlockBody[blocks[i]].parent = blocks[i - 1]
                       /\ DifficultyOf(blocks[i]) \in MayFollow(blocks, i - 1)

\* What holds between two operations, and what a crash leaves on disk.
Sound(c) ==
  /\ IsChain(c)
  /\ c.numBlocks \in Nat \ {0} /\ c.count = c.numBlocks
  /\ c.totalWork \in Int /\ c.work = c.totalWork
  /\ LinkedUpTo(c.blocks, c.numBlocks)
  /\ c.lastHash = c.blocks[c.numBlocks]
  /\ c.difficulty \in MayFollow(c.blocks, c.numBlocks)
OnDisk(c) ==
  IsChain(c) /\ c.count \in Nat /\ c.work \in Int /\ (c.count # 0 => LinkedUpTo(c.blocks, c.count))

(* The difficulty after a block is a matter of the blocks up to it.        *)
LEMMA DifficultyFromBlocks ==
  ASSUME NEW c, NEW e, NEW n \in Nat \ {0}, c.numBlocks = n, e.numBlocks = n,
         c.difficulty = e.difficulty, \A i \in 1 .. n : c.blocks[i] = e.blocks[i]
  PROVE  UpdateDifficulty(c) = UpdateDifficulty(e)
<1>1. CASE ~AtRetarget(n)
  BY <1>1 DEF UpdateDifficulty
<1>2. CASE AtRetarget(n)
  <2>1. Lookback \in Nat \ {0} /\ n > 2 * Lookback
    BY <1>2, ChainAssumption DEF AtRetarget
  <2>2. n - Lookback \in 1 .. n /\ n \in 1 .. n
    BY <2>1
  <2> QED BY <2>2 DEF UpdateDifficulty
<1> QED BY <1>1, <1>2

(* So is which difficulties may follow.                                   *)
LEMMA FollowFromBlocks ==
  ASSUME NEW n \in Nat \ {0}, NEW blocks, NEW other, \A i \in 1 .. n : other[i] = blocks[i]
  PROVE  MayFollow(other, n) = MayFollow(blocks, n)
<1> DEFINE d == DifficultyOf(blocks[n])
           c == [blocks |-> blocks, numBlocks |-> n, difficulty |-> d]
           e == [blocks |-> other, numBlocks |-> n, difficulty |-> d]
<1>1. UpdateDifficulty(c) = UpdateDifficulty(e)
  BY DifficultyFromBlocks
<1>2. other[n] = blocks[n]
  OBVIOUS
<1> QED BY <1>1, <1>2 DEF MayFollow, NextDifficulty

(* Blocks behind the last do not matter, nor do fewer blocks.              *)
LEMMA LinkedPart ==
  ASSUME NEW n \in Nat, NEW m \in Nat \ {0}, m <= n, NEW blocks, NEW other, LinkedUpTo(blocks, n),
         1 .. m \subseteq DOMAIN other, \A i \in 1 .. m : other[i] = blocks[i]
  PROVE  LinkedUpTo(other, m)
<1>1. 1 .. m \subseteq 1 .. n /\ 2 .. m \subseteq 2 .. n /\ 1 \in 1 .. m
  OBVIOUS
<1>2. ASSUME NEW i \in 2 .. m
      PROVE  /\ BlockBody[other[i]].parent = other[i - 1]
             /\ DifficultyOf(other[i]) \in MayFollow(other, i - 1)
  <2>1. i - 1 \in Nat \ {0} /\ i - 1 \in 1 .. m /\ i \in 1 .. m /\ 1 .. i - 1 \subseteq 1 .. m
    OBVIOUS
  <2>2. MayFollow(other, i - 1) = MayFollow(blocks, i - 1)
    BY <2>1, FollowFromBlocks
  <2> QED BY <1>1, <2>1, <2>2 DEF LinkedUpTo
<1> QED BY <1>1, <1>2 DEF LinkedUpTo

(* A block that was made for the last one extends the chain.               *)
LEMMA LinkedGrows ==
  ASSUME NEW n \in Nat \ {0}, NEW blocks, LinkedUpTo(blocks, n),
         NEW b \in Block, BlockBody[b].id = n + 1, BlockBody[b].parent = blocks[n],
         DifficultyOf(b) \in MayFollow(blocks, n)
  PROVE  LinkedUpTo(SetBlock(blocks, b), n + 1)
<1> DEFINE other == SetBlock(blocks, b)
<1>1. /\ DOMAIN other = DOMAIN blocks \cup {n + 1} /\ other[n + 1] = b
      /\ \A i \in 1 .. n : other[i] = blocks[i] /\ i \in DOMAIN other
  BY DEF SetBlock, LinkedUpTo
<1> HIDE DEF other
<1>2. LinkedUpTo(other, n)
  BY <1>1, LinkedPart
<1>3. MayFollow(other, n) = MayFollow(blocks, n) /\ other[n] = blocks[n]
  BY <1>1, FollowFromBlocks
<1>4. 1 .. n + 1 = 1 .. n \cup {n + 1} /\ 2 .. n + 1 = 2 .. n \cup {n + 1} /\ (n + 1) - 1 = n
  OBVIOUS
<1> QED BY <1>1, <1>2, <1>3, <1>4 DEF LinkedUpTo, other

-------------------------------------------------------------------------------
(* The operations.                                                         *)

(* The written fields of a commit.                                         *)
LEMMA CommitFields ==
  ASSUME NEW c, IsChain(c), NEW b, NEW ledger
  PROVE  LET e == Commit(c, b, ledger)
         IN  /\ IsChain(e) /\ e.ledger = ledger
             /\ e.txdb = InsertTransactions(c.txdb, Ordered(b), BlockBody[b].id)
             /\ e.blocks = SetBlock(c.blocks, b)
             /\ e.numBlocks = c.numBlocks + 1 /\ e.count = c.numBlocks + 1
             /\ e.totalWork = c.totalWork + Work(b) /\ e.work = c.totalWork + Work(b)
             /\ e.lastHash = b
             /\ e.difficulty = NextDifficulty(SetBlock(c.blocks, b), c.numBlocks + 1, c.difficulty)
<1> DEFINE t == InsertTransactions(c.txdb, Ordered(b), BlockBody[b].id)
           s == SetBlock(c.blocks, b)
           n == c.numBlocks + 1
           w == c.totalWork + Work(b)
           added == [ledger |-> ledger, txdb |-> t, blocks |-> s, count |-> n, work |-> w,
                     numBlocks |-> n, totalWork |-> w, difficulty |-> c.difficulty, lastHash |-> b]
           written == [c EXCEPT !.ledger = ledger, !.txdb = t, !.blocks = s, !.numBlocks = n,
                                !.count = n, !.totalWork = w, !.work = w, !.lastHash = b]
<1>1. Commit(c, b, ledger) = [added EXCEPT !.difficulty = UpdateDifficulty(added)]
  <2>1. Commit(c, b, ledger) = [written EXCEPT !.difficulty = UpdateDifficulty(written)]
    BY DEF Commit
  <2>2. written = added
    <3> HIDE DEF t, s, n, w
    <3>1. written = [f \in ChainFields |-> written[f]]
      BY DEF IsChain, ChainFields
    <3>3. /\ written.ledger = ledger /\ written.txdb = t /\ written.blocks = s
          /\ written.count = n /\ written.work = w /\ written.numBlocks = n
          /\ written.totalWork = w /\ written.difficulty = c.difficulty /\ written.lastHash = b
      BY DEF IsChain, ChainFields
    <3> HIDE DEF written
    <3> QED BY <3>1, <3>3 DEF ChainFields
  <2> HIDE DEF written, added
  <2> QED BY <2>1, <2>2
<1>2. UpdateDifficulty(added) = NextDifficulty(SetBlock(c.blocks, b), c.numBlocks + 1, c.difficulty)
  BY DEF UpdateDifficulty, NextDifficulty
<1> QED BY <1>1, <1>2 DEF IsChain, ChainFields

(* The first block is the block that resetChain adds to nothing.           *)
LEMMA FirstBlock ==
  /\ CheckBlock(Cleared, Genesis, 0) = "SUCCESS" /\ Execution(Cleared, Genesis).status = "SUCCESS"
  /\ ResetChain = Commit(Cleared, Genesis, Execution(Cleared, Genesis).ledger)
<1>1. CheckBlock(Cleared, Genesis, 0) = "SUCCESS"
  BY GenesisAssumption DEF AddBlock
<1>2. Execution(Cleared, Genesis).status = "SUCCESS"
  BY <1>1, GenesisAssumption DEF AddBlock, Finish
<1> QED BY <1>1, <1>2 DEF ResetChain, AddBlock, Finish

(* A chain that was reset has the first block, and its work.               *)
LEMMA ResetSound ==
  Sound(ResetChain) /\ ResetChain.totalWork = Work(Genesis) /\ ResetChain.numBlocks = 1
<1> DEFINE e == ResetChain
           l == Execution(Cleared, Genesis).ledger
<1>1. IsChain(Cleared)
  BY DEF IsChain, ChainFields, Cleared
<1>2. BlockBody[Genesis].id = 1
  BY FirstBlock DEF CheckBlock, Cleared
<1>3. /\ IsChain(e) /\ e.numBlocks = 1 /\ e.count = 1 /\ e.totalWork = Work(Genesis)
      /\ e.work = Work(Genesis) /\ e.lastHash = Genesis /\ e.blocks = SetBlock(<<>>, Genesis)
      /\ e.difficulty = NextDifficulty(SetBlock(<<>>, Genesis), 1, Cleared.difficulty)
  <2>1. Work(Genesis) \in Nat
    BY WorkAssumption, ChainAssumption
  <2>2. Cleared.blocks = <<>> /\ Cleared.numBlocks = 0 /\ Cleared.totalWork = 0
    BY DEF Cleared
  <2> HIDE DEF l
  <2> QED BY <1>1, <2>1, <2>2, FirstBlock, CommitFields DEF l
<1>4. LinkedUpTo(e.blocks, 1) /\ e.blocks[1] = Genesis
  BY <1>2, <1>3, ChainAssumption DEF LinkedUpTo, SetBlock
<1>5. e.difficulty \in MayFollow(e.blocks, 1)
  <2>1. Cleared.difficulty = DifficultyOf(Genesis)
    BY FirstBlock DEF CheckBlock, DifficultyOf
  <2> QED BY <1>3, <1>4, <2>1 DEF MayFollow
<1>6. e.totalWork \in Int
  BY <1>3, WorkAssumption, ChainAssumption
<1> HIDE DEF e
<1> QED BY <1>3, <1>4, <1>5, <1>6 DEF Sound, e

(* A block that is accepted is linked to the last one.                     *)
LEMMA CommitSound ==
  ASSUME NEW c, Sound(c), NEW b \in Block, NEW now, NEW ledger, CheckBlock(c, b, now) = "SUCCESS"
  PROVE  /\ Sound(Commit(c, b, ledger)) /\ BlockBody[b].id = c.numBlocks + 1
         /\ Commit(c, b, ledger).totalWork = c.totalWork + Work(b)
         /\ Commit(c, b, ledger).numBlocks = c.numBlocks + 1
         /\ Commit(c, b, ledger).blocks = SetBlock(c.blocks, b)
         /\ LinkedUpTo(SetBlock(c.blocks, b), c.numBlocks + 1)
<1> DEFINE e == Commit(c, b, ledger)
           n == c.numBlocks
<1>1. /\ BlockBody[b].id = n + 1 /\ DifficultyOf(b) = c.difficulty /\ BlockBody[b].parent = c.lastHash
  BY DEF CheckBlock, DifficultyOf
<1>2. n \in Nat \ {0} /\ LinkedUpTo(c.blocks, n) /\ IsChain(c) /\ c.totalWork \in Int
  BY DEF Sound
<1>3. LinkedUpTo(SetBlock(c.blocks, b), n + 1)
  BY <1>1, <1>2, LinkedGrows DEF Sound
<1>4. /\ IsChain(e) /\ e.numBlocks = n + 1 /\ e.count = n + 1 /\ e.blocks = SetBlock(c.blocks, b)
      /\ e.totalWork = c.totalWork + Work(b) /\ e.work = e.totalWork /\ e.lastHash = b
      /\ e.difficulty = NextDifficulty(e.blocks, n + 1, c.difficulty)
  BY <1>2, CommitFields
<1>5. e.blocks[n + 1] = b
  BY <1>1, <1>4 DEF SetBlock
<1>6. e.totalWork \in Int
  BY <1>2, <1>4, WorkAssumption
<1> HIDE DEF e, n
<1>7. e.difficulty \in MayFollow(e.blocks, e.numBlocks)
  BY <1>1, <1>4, <1>5 DEF MayFollow
<1>8. e.numBlocks \in Nat \ {0}
  BY <1>2, <1>4
<1>9. LinkedUpTo(e.blocks, e.numBlocks) /\ e.lastHash = e.blocks[e.numBlocks]
  BY <1>3, <1>4, <1>5
<1>10. Sound(e)
  BY <1>4, <1>6, <1>7, <1>8, <1>9 DEF Sound
<1> QED BY <1>1, <1>3, <1>4, <1>10 DEF e, n

(* Only the ledger changes when a block is refused half way.               *)
LEMMA LedgerSound ==
  ASSUME NEW c, Sound(c), NEW l
  PROVE  /\ Sound([c EXCEPT !.ledger = l]) /\ OnDisk([c EXCEPT !.ledger = l])
         /\ [c EXCEPT !.ledger = l].numBlocks = c.numBlocks
         /\ [c EXCEPT !.ledger = l].totalWork = c.totalWork
         /\ [c EXCEPT !.ledger = l].blocks = c.blocks
         /\ [c EXCEPT !.ledger = l].count = c.count /\ [c EXCEPT !.ledger = l].work = c.work
<1> DEFINE e == [c EXCEPT !.ledger = l]
<1>1. IsChain(c)
  BY DEF Sound
<1>2. /\ IsChain(e) /\ e.blocks = c.blocks /\ e.count = c.count /\ e.work = c.work
      /\ e.numBlocks = c.numBlocks /\ e.totalWork = c.totalWork /\ e.difficulty = c.difficulty
      /\ e.lastHash = c.lastHash
  BY <1>1 DEF IsChain, ChainFields
<1> HIDE DEF e
<1> QED BY <1>2 DEF Sound, OnDisk, e

(* addBlock commits the block, or leaves all but the ledger as it is.      *)
LEMMA AddCases ==
  ASSUME NEW c, Sound(c), NEW b \in Block, NEW now
  PROVE  \/ /\ CheckBlock(c, b, now) = "SUCCESS"
            /\ AddBlock(c, b, now).chain = Commit(c, b, Execution(c, b).ledger)
         \/ \E l : AddBlock(c, b, now).chain = [c EXCEPT !.ledger = l]
         \/ AddBlock(c, b, now).chain = c
<1> DEFINE x == Execution(c, b)
<1> HIDE DEF x
<1> QED BY DEF AddBlock, Finish, x

(* Reading a disk back gives a sound chain again.                          *)
LEMMA InitSound ==
  ASSUME NEW c, OnDisk(c)
  PROVE  /\ Sound(InitChain(c))
         /\ c.count = 0 => InitChain(c) = ResetChain
         /\ c.count # 0 => /\ InitChain(c).numBlocks = c.count /\ InitChain(c).totalWork = c.work
                           /\ InitChain(c).blocks = c.blocks
<1>1. CASE c.count = 0
  BY <1>1, ResetSound DEF InitChain
<1>2. CASE c.count # 0
  <2> DEFINE n == c.count
             w == c.work
             d == BlockBody[c.blocks[c.count]].difficulty
             h == c.blocks[c.count]
             e == [c EXCEPT !.numBlocks = n, !.totalWork = w, !.difficulty = d, !.lastHash = h]
  <2>1. InitChain(c) = e
    BY <1>2 DEF InitChain
  <2>2. IsChain(c) /\ n \in Nat \ {0} /\ w \in Int /\ LinkedUpTo(c.blocks, n)
    BY <1>2 DEF OnDisk
  <2>3. /\ IsChain(e) /\ e.blocks = c.blocks /\ e.count = c.count /\ e.work = c.work
        /\ e.numBlocks = n /\ e.totalWork = w /\ e.difficulty = d /\ e.lastHash = h
    <3> HIDE DEF n, w, d, h
    <3> QED BY <2>2 DEF IsChain, ChainFields
  <2>4. d \in MayFollow(c.blocks, n)
    BY DEF MayFollow, DifficultyOf
  <2> HIDE DEF e
  <2>5. Sound(e)
    BY <2>2, <2>3, <2>4 DEF Sound
  <2> QED BY <1>2, <2>1, <2>3, <2>5
<1> QED BY <1>1, <1>2

(* A removal that leaves more than one block.                              *)
LEMMA PopSound ==
  ASSUME NEW c, Sound(c), c.numBlocks > 2
  PROVE  /\ Sound(PopBlock(c)) /\ PopBlock(c).numBlocks = c.numBlocks - 1
         /\ PopBlock(c).totalWork = c.totalWork - Work(Tip(c)) /\ PopBlock(c).blocks = c.blocks
<1> DEFINE undone == RollbackBlock(Ordered(Tip(c)), c.ledger, c.txdb)
           l == undone.ledger
           t == undone.txdb
           n == c.numBlocks - 1
           w == c.totalWork - Work(Tip(c))
           d == BlockBody[c.blocks[n]].difficulty
           h == c.blocks[n]
           popped == [c EXCEPT !.ledger = l, !.txdb = t, !.numBlocks = n, !.count = n,
                               !.totalWork = w, !.work = w]
           e == [popped EXCEPT !.difficulty = d, !.lastHash = h]
<1>1. c.numBlocks \in Nat /\ n \in Nat \ {0} /\ n > 1 /\ n <= c.numBlocks
  BY DEF Sound
<1>2. PopBlock(c) = e
  BY <1>1 DEF PopBlock, Popped
<1>3. w \in Int
  <2>1. Tip(c) \in Block
    BY DEF Sound, Tip, LinkedUpTo
  <2> QED BY <2>1, WorkAssumption DEF Sound
<1>4. /\ IsChain(e) /\ e.blocks = c.blocks /\ e.count = n /\ e.work = w
      /\ e.numBlocks = n /\ e.totalWork = w /\ e.difficulty = d /\ e.lastHash = h
  <2>1. IsChain(c)
    BY DEF Sound
  <2> HIDE DEF l, t, n, w, d, h
  <2>2. /\ IsChain(popped) /\ popped.blocks = c.blocks /\ popped.count = n /\ popped.work = w
        /\ popped.numBlocks = n /\ popped.totalWork = w
    BY <2>1 DEF IsChain, ChainFields
  <2> HIDE DEF popped
  <2> QED BY <2>2 DEF IsChain, ChainFields
<1>5. d \in MayFollow(c.blocks, n)
  BY DEF MayFollow, DifficultyOf
<1>6. LinkedUpTo(c.blocks, n)
  BY <1>1, LinkedPart DEF Sound, LinkedUpTo
<1> HIDE DEF e
<1>7. Sound(e)
  BY <1>1, <1>3, <1>4, <1>5, <1>6 DEF Sound
<1> QED BY <1>2, <1>4, <1>7

-------------------------------------------------------------------------------
(* The work of the blocks, and how far the total work is from it.          *)

BlocksWork(blocks, n) == SumFunction([i \in 1 .. n |-> Work(blocks[i])])
Off(c) == c.totalWork - BlocksWork(c.blocks, c.numBlocks)

(* The work of n + 1 blocks is that of n blocks and of the last.           *)
LEMMA WorkGrows ==
  ASSUME NEW n \in Nat, NEW blocks, \A i \in 1 .. n + 1 : blocks[i] \in Block
  PROVE  /\ BlocksWork(blocks, n) \in Int
         /\ BlocksWork(blocks, n + 1) = BlocksWork(blocks, n) + Work(blocks[n + 1])
<1> DEFINE f == [i \in 1 .. n |-> Work(blocks[i])]
           g == [i \in 1 .. n + 1 |-> Work(blocks[i])]
<1>1. /\ IsFiniteSet(1 .. n) /\ n + 1 \notin 1 .. n /\ 1 .. n + 1 = (1 .. n) \cup {n + 1}
  BY FS_Interval
<1>2. \A i \in 1 .. n + 1 : g[i] = Work(blocks[i]) /\ g[i] \in Int
  BY WorkAssumption
<1>3. /\ \A i \in 1 .. n : f[i] = g[i]
      /\ \A i \in (1 .. n) \cup {n + 1} : g[i] \in Int
      /\ n + 1 \in 1 .. n + 1
  BY <1>1, <1>2
<1>4. /\ BlocksWork(blocks, n) = SumFunctionOnSet(f, 1 .. n)
      /\ BlocksWork(blocks, n + 1) = SumFunctionOnSet(g, 1 .. n + 1)
  BY DEF BlocksWork, SumFunction
<1> HIDE DEF f, g
<1>5. SumFunctionOnSet(g, 1 .. n + 1) = g[n + 1] + SumFunctionOnSet(g, 1 .. n)
  BY <1>1, <1>3, SumAddElement
<1>6. SumFunctionOnSet(f, 1 .. n) = SumFunctionOnSet(g, 1 .. n)
  BY <1>1, <1>3, SumSame
<1>7. SumFunctionOnSet(g, 1 .. n) \in Int
  BY <1>1, <1>3, SumIsInt
<1>8. g[n + 1] = Work(blocks[n + 1]) /\ g[n + 1] \in Int
  BY <1>2, <1>3
<1> QED BY <1>4, <1>5, <1>6, <1>7, <1>8

(* It is that of the first blocks only.                                    *)
LEMMA WorkOfPart ==
  ASSUME NEW n \in Nat, NEW blocks, NEW other, \A i \in 1 .. n : other[i] = blocks[i]
  PROVE  BlocksWork(other, n) = BlocksWork(blocks, n)
<1>1. [i \in 1 .. n |-> Work(other[i])] = [i \in 1 .. n |-> Work(blocks[i])]
  OBVIOUS
<1> QED BY <1>1 DEF BlocksWork

(* The blocks of a chain, and one more of them or one less.                *)
LEMMA WorkOfLinked ==
  ASSUME NEW n \in Nat \ {0}, NEW blocks, LinkedUpTo(blocks, n)
  PROVE  /\ BlocksWork(blocks, n) \in Int /\ Work(blocks[n]) \in Int /\ blocks[n] \in Block
         /\ BlocksWork(blocks, n) = BlocksWork(blocks, n - 1) + Work(blocks[n])
         /\ \A b \in Block : BlockBody[b].id = n + 1 =>
              /\ BlocksWork(SetBlock(blocks, b), n) = BlocksWork(blocks, n)
              /\ BlocksWork(SetBlock(blocks, b), n + 1) = BlocksWork(blocks, n) + Work(b)
<1>1. \A i \in 1 .. n : blocks[i] \in Block /\ i \in DOMAIN blocks
  BY DEF LinkedUpTo
<1>2. n - 1 \in Nat /\ (n - 1) + 1 = n /\ n \in 1 .. n
  OBVIOUS
<1>3. /\ BlocksWork(blocks, n - 1) \in Int
      /\ BlocksWork(blocks, n) = BlocksWork(blocks, n - 1) + Work(blocks[n])
  BY <1>1, <1>2, WorkGrows
<1>4. Work(blocks[n]) \in Int /\ blocks[n] \in Block
  BY <1>1, <1>2, WorkAssumption
<1>5. ASSUME NEW b \in Block, BlockBody[b].id = n + 1
      PROVE  /\ BlocksWork(SetBlock(blocks, b), n) = BlocksWork(blocks, n)
             /\ BlocksWork(SetBlock(blocks, b), n + 1) = BlocksWork(blocks, n) + Work(b)
  <2> DEFINE other == SetBlock(blocks, b)
  <2>1. /\ \A i \in 1 .. n : other[i] = blocks[i]
        /\ other[n + 1] = b /\ \A i \in 1 .. n + 1 : other[i] \in Block
    BY <1>1, <1>5 DEF SetBlock
  <2> HIDE DEF other
  <2>2. BlocksWork(other, n + 1) = BlocksWork(other, n) + Work(other[n + 1])
    BY <2>1, WorkGrows
  <2>3. BlocksWork(other, n) = BlocksWork(blocks, n)
    BY <2>1, WorkOfPart
  <2> QED BY <2>1, <2>2, <2>3 DEF other
<1> QED BY <1>3, <1>4, <1>5

(* The total work of the first block is right.                             *)
LEMMA ResetExact == Off(ResetChain) = 0
<1>1. LinkedUpTo(ResetChain.blocks, 1) /\ ResetChain.blocks[1] = Genesis /\ Genesis \in Block
  BY ResetSound, ChainAssumption DEF Sound, LinkedUpTo
<1>2. BlocksWork(ResetChain.blocks, 0) = 0
  <2>1. SumFunctionOnSet([i \in 1 .. 0 |-> Work(ResetChain.blocks[i])], {}) = 0
    BY SumOfEmpty
  <2>2. 1 .. 0 = {}
    OBVIOUS
  <2> QED BY <2>1, <2>2 DEF BlocksWork, SumFunction
<1>3. BlocksWork(ResetChain.blocks, 1) = BlocksWork(ResetChain.blocks, 0) + Work(Genesis)
  BY <1>1, WorkOfLinked
<1>4. Work(Genesis) \in Int
  BY <1>1, WorkAssumption
<1> QED BY <1>2, <1>3, <1>4, ResetSound DEF Off

(* The total work of a sound chain is off by an integer.                   *)
LEMMA OffIsInt ==
  ASSUME NEW c, Sound(c)
  PROVE  Off(c) \in Int
BY WorkOfLinked DEF Sound, Off

(* addBlock, also when it refuses.                                         *)
LEMMA AddKeeps ==
  ASSUME NEW c, Sound(c), NEW b \in Block, NEW now
  PROVE  Sound(AddBlock(c, b, now).chain) /\ Off(AddBlock(c, b, now).chain) = Off(c)
<1> DEFINE e == AddBlock(c, b, now).chain
<1>1. CASE CheckBlock(c, b, now) = "SUCCESS" /\ e = Commit(c, b, Execution(c, b).ledger)
  <2>1. /\ Sound(e) /\ BlockBody[b].id = c.numBlocks + 1 /\ e.totalWork = c.totalWork + Work(b)
        /\ e.numBlocks = c.numBlocks + 1 /\ e.blocks = SetBlock(c.blocks, b)
    BY <1>1, CommitSound
  <2>2. /\ c.numBlocks \in Nat \ {0} /\ LinkedUpTo(c.blocks, c.numBlocks) /\ c.totalWork \in Int
        /\ Work(b) \in Int
    BY WorkAssumption DEF Sound
  <2>3. /\ BlocksWork(c.blocks, c.numBlocks) \in Int
        /\ BlocksWork(e.blocks, e.numBlocks) = BlocksWork(c.blocks, c.numBlocks) + Work(b)
    BY <2>1, <2>2, WorkOfLinked
  <2> HIDE DEF e
  <2>4. Off(e) = Off(c)
    BY <2>1, <2>2, <2>3 DEF Off
  <2> QED BY <2>1, <2>4 DEF e
<1>2. CASE \E l : e = [c EXCEPT !.ledger = l]
  BY <1>2, LedgerSound DEF Off
<1>3. CASE e = c
  BY <1>3
<1> QED BY <1>1, <1>2, <1>3, AddCases

(* popBlock.                                                               *)
LEMMA PopKeeps ==
  ASSUME NEW c, Sound(c), c.numBlocks > 1
  PROVE  Sound(PopBlock(c)) /\ Off(PopBlock(c)) \in {0, Off(c)}
<1>1. CASE c.numBlocks > 2
  <2> DEFINE e == PopBlock(c)
  <2>1. /\ Sound(e) /\ e.numBlocks = c.numBlocks - 1
        /\ e.totalWork = c.totalWork - Work(Tip(c)) /\ e.blocks = c.blocks
    BY <1>1, PopSound
  <2>2. c.numBlocks \in Nat \ {0} /\ LinkedUpTo(c.blocks, c.numBlocks) /\ c.totalWork \in Int
    BY DEF Sound
  <2> HIDE DEF e
  <2>3. /\ BlocksWork(c.blocks, c.numBlocks) \in Int /\ Work(Tip(c)) \in Int
        /\ BlocksWork(c.blocks, c.numBlocks) = BlocksWork(c.blocks, c.numBlocks - 1) + Work(Tip(c))
    BY <2>2, WorkOfLinked DEF Tip
  <2>4. BlocksWork(c.blocks, c.numBlocks - 1) \in Int
    BY <1>1, <2>1, <2>2, WorkOfLinked DEF Sound
  <2>5. Off(e) = Off(c)
    BY <2>1, <2>2, <2>3, <2>4 DEF Off
  <2> QED BY <2>1, <2>5 DEF e
<1>2. CASE ~ (c.numBlocks > 2)
  <2>1. PopBlock(c) = ResetChain
    BY <1>2 DEF PopBlock, Sound
  <2> QED BY <2>1, ResetSound, ResetExact
<1> QED BY <1>1, <1>2
================================================================================
