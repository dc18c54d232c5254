---------------------------- MODULE BlockExecution ----------------------------
(***************************************************************************)
(* One block's execution and its undoing, a transaction or a wallet at a   *)
(* time: ExecuteBlock and, if a transaction fails, Executor::Rollback from *)
(* the remembered deltas; or, when the block is removed later,             *)
(* RollbackBlock, which has no deltas and works from the transactions.     *)
(*                                                                         *)
(* The database is written at every step; the chain's lock keeps other     *)
(* writers away, readers of balances take no lock and see the steps.       *)
(***************************************************************************)
EXTENDS Executor

CONSTANTS TxLists,   \* the blocks' transactions, in the order of execution
          Ledgers,   \* ledgers before
          BlockId, BlockMiningFee

ASSUME BlockExecutionAssumption ==
  /\ TxLists \subseteq Seq(Tx)
  /\ \A l \in Ledgers : DOMAIN l \subseteq Wallet /\ \A w \in DOMAIN l : l[w] \in Amount
  /\ BlockId \in Nat /\ BlockId > 1   \* the first block is never undone
  /\ BlockMiningFee \in Amount

VARIABLES txs,    \* the transactions
          start,  \* history: the ledger before
          past,   \* history: past[i] is the ledger before the i-th was executed
          x,      \* status, ledger and deltas
          next,   \* the transaction to execute; undoing, the one after it
          mode
vars == <<txs, start, past, x, next, mode>>

SameMoney(l, m) == \A w \in Wallet : ValueOf(l, w) = ValueOf(m, w)

Init ==
  /\ txs \in {l \in TxLists : FirstPass(l, <<>>, BlockId, BlockMiningFee) = "SUCCESS"}
  /\ start \in Ledgers
  /\ past = <<>> /\ x = Begin(start) /\ next = 1 /\ mode = "execute"

ExecuteOne ==
  /\ mode = "execute" /\ next <= Len(txs)
  /\ x' = ExecuteNext(x, txs[next], Miner(txs), BlockMiningFee, BlockId)
  /\ IF x'.status = "SUCCESS"
     THEN past' = Append(past, x.ledger) /\ next' = next + 1 /\ UNCHANGED mode
     ELSE mode' = "rollback" /\ UNCHANGED <<past, next>>
  /\ UNCHANGED <<txs, start>>

\* The block is stored.  It may be removed at any later time.
Store ==
  /\ mode = "execute" /\ next > Len(txs)
  /\ mode' = "stored"
  /\ UNCHANGED <<txs, start, past, x, next>>
Removal ==
  /\ mode = "stored"
  /\ mode' = "undo"
  /\ UNCHANGED <<txs, start, past, x, next>>

\* Mutant: a delta is added again instead of taken back.
RollbackOneAgain(w) ==
  /\ mode = "rollback" /\ w \in DOMAIN x.deltas
  /\ x' = [x EXCEPT !.ledger = Increase(@, w, x.deltas[w]),
                    !.deltas = [v \in DOMAIN @ \ {w} |-> @[v]]]
  /\ UNCHANGED <<txs, start, past, next, mode>>

RollbackOne(w) ==
  /\ mode = "rollback" /\ w \in DOMAIN x.deltas
  /\ x' = [x EXCEPT !.ledger = Decrease(@, w, x.deltas[w]),
                    !.deltas = [v \in DOMAIN @ \ {w} |-> @[v]]]
  /\ UNCHANGED <<txs, start, past, next, mode>>
RollbackEnds ==
  /\ mode = "rollback" /\ DOMAIN x.deltas = {}
  /\ mode' = "restored"
  /\ UNCHANGED <<txs, start, past, x, next>>

UndoOne ==
  /\ mode = "undo" /\ next > 1
  /\ x' = [x EXCEPT !.ledger = RollbackLedger(@, txs[next - 1], Miner(txs))]
  /\ next' = next - 1
  /\ UNCHANGED <<txs, start, past, mode>>
UndoEnds ==
  /\ mode = "undo" /\ next = 1
  /\ mode' = "restored"
  /\ UNCHANGED <<txs, start, past, x, next>>

Done == mode = "restored" /\ UNCHANGED vars

Next ==
  \/ ExecuteOne \/ Store \/ Removal \/ UndoOne \/ UndoEnds
  \/ \E w \in Wallet : RollbackOne(w)
  \/ RollbackEnds \/ Done
Spec == Init /\ [][Next]_vars

-------------------------------------------------------------------------------
TypeOK ==
  /\ txs \in Seq(Tx) /\ next \in 1 .. Len(txs) + 1
  /\ mode \in {"execute", "rollback", "stored", "undo", "restored"}
  /\ DOMAIN x.ledger \subseteq Wallet /\ \A w \in DOMAIN x.ledger : x.ledger[w] \in Amount
  /\ DOMAIN x.deltas \subseteq Wallet /\ \A w \in DOMAIN x.deltas : x.deltas[w] \in Amount

\* Until a failed execution is taken back, each balance is the one before plus
\* the wallet's remembered delta, modulo 2^64: also when a wallet sends, receives
\* and mines in one block, and half way through the taking back.
DeltasExplain ==
  mode \in {"execute", "rollback"} =>
    \A w \in Wallet : ValueOf(x.ledger, w) = Plus(ValueOf(start, w), ValueOf(x.deltas, w))

\* While a block is undone without deltas, the balances are those that were there
\* before the transactions undone so far.
UndoRetraces ==
  mode = "undo" /\ next <= Len(past) => SameMoney(x.ledger, past[next])

\* A block that fails, at whatever transaction, and a block that is removed leave
\* every balance as it was before the block.
Restored == mode = "restored" => SameMoney(x.ledger, start)

===============================================================================
