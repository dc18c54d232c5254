------------------------------- MODULE ChainCore -------------------------------
(***************************************************************************)
(* What one operation of src/c++/src/server/blockchain.cpp does to a       *)
(* BlockChain object and its three databases (block_store.cpp, ledger.cpp, *)
(* tx_store.cpp, data_store.cpp).                                          *)
(*                                                                         *)
(* The object is a record: `ledger', `txdb', `blocks', `count' and `work'  *)
(* are on disk, `numBlocks', `totalWork', `difficulty' and `lastHash' in   *)
(* memory.  A block is a name, which also stands for its hash; `BlockBody' *)
(* gives its contents.  Whether its nonce and its Merkle root are right is *)
(* part of them.                                                           *)
(***************************************************************************)
EXTENDS Executor, Difficulty, Headers, TLC

CONSTANTS Genesis,           \* the block of genesis.json
          Lookback,          \* DIFFICULTY_LOOKBACK
          BlockTime,         \* DESIRED_BLOCK_TIME_SEC
          MedianSpan,        \* 10, blocks whose median time bounds a new one
          FutureLimit,       \* 120*60 seconds
          MaxTransactions,   \* MAX_TRANSACTIONS_PER_BLOCK
          ChainOffset,       \* 125180 + 7750
          EraEnds, EraFees   \* logical heights where the mining fee changes, fees

ASSUME ChainAssumption ==
  /\ Genesis \in Block
  /\ BlockBody \in [Block -> [id : Nat \ {0}, parent : Block \cup {NullHash},
                              difficulty : LeastDifficulty .. GreatestDifficulty,
                              time : Nat, nonceOk : BOOLEAN, rootOk : BOOLEAN,
                              txs : Seq(Tx)]]
  /\ Lookback \in Nat \ {0} /\ BlockTime \in Nat \ {0}
  /\ MedianSpan \in Nat \ {0} /\ MedianSpan % 2 = 0
  /\ FutureLimit \in Nat /\ MaxTransactions \in Nat /\ ChainOffset \in Nat
  /\ EraEnds \in Seq(Nat) /\ EraFees \in Seq(Amount) /\ Len(EraEnds) = Len(EraFees)

-------------------------------------------------------------------------------
\* The transactions of a block in the order it executes them: setItems sorts
\* them in place, by descending hash, when the Merkle root is computed.
Descends(txs, order) ==
  \A i, j \in DOMAIN txs :
    i <= j => TxBody[txs[order[i]]].hash >= TxBody[txs[order[j]]].hash
OrderedTxs ==
  [b \in Block |->
     LET txs == BlockBody[b].txs
         order == CHOOSE p \in SetToSeqs(DOMAIN txs) : Descends(txs, p)
     IN  [i \in DOMAIN txs |-> txs[order[i]]]]
Ordered(b) == OrderedTxs[b]

\* getCurrentMiningFee
MiningFee(numBlocks) ==
  LET past == {i \in DOMAIN EraEnds : EraEnds[i] <= numBlocks + ChainOffset}
  IN  IF Cardinality(past) = Len(EraEnds) THEN 0 ELSE EraFees[Cardinality(past) + 1]

-------------------------------------------------------------------------------
(* addBlock: the checks, the execution, the writes.                        *)

MedianTime(c) ==
  LET recent == [i \in 1 .. MedianSpan |-> BlockBody[c.blocks[c.numBlocks - i + 1]].time]
      times == SortSeq(recent, LAMBDA a, b : a < b)
      half == MedianSpan \div 2
  IN  (times[half + 1] + times[half]) \div 2

\* Mutant: the hash of the block before is not compared.
CheckBlockUnlinked(c, b, now) ==
  LET body == BlockBody[b]
  IN  IF Len(body.txs) > MaxTransactions THEN "INVALID_TRANSACTION_COUNT"
      ELSE IF body.id # c.numBlocks + 1 THEN "INVALID_BLOCK_ID"
      ELSE IF body.difficulty # c.difficulty THEN "INVALID_DIFFICULTY"
      ELSE IF ~body.nonceOk THEN "INVALID_NONCE"
      ELSE IF ~body.rootOk THEN "INVALID_MERKLE_ROOT" ELSE "SUCCESS"

CheckBlock(c, b, now) ==
  LET body == BlockBody[b]
  IN  IF Len(body.txs) > MaxTransactions THEN "INVALID_TRANSACTION_COUNT"
      ELSE IF body.id # c.numBlocks + 1 THEN "INVALID_BLOCK_ID"
      ELSE IF body.difficulty # c.difficulty THEN "INVALID_DIFFICULTY"
      ELSE IF ~body.nonceOk THEN "INVALID_NONCE"
      ELSE IF body.parent # c.lastHash THEN "INVALID_LASTBLOCK_HASH"
      ELSE IF body.id # 1 /\ body.time > now + FutureLimit THEN "BLOCK_TIMESTAMP_IN_FUTURE"
      ELSE IF body.id # 1 /\ c.numBlocks > MedianSpan /\ body.time < MedianTime(c)
           THEN "BLOCK_TIMESTAMP_TOO_OLD"
      ELSE IF ~body.rootOk THEN "INVALID_MERKLE_ROOT" ELSE "SUCCESS"

Execution(c, b) ==
  ExecuteBlock(Ordered(b), BlockBody[b].id, c.ledger, c.txdb, MiningFee(c.numBlocks))

InsertTransactions(txdb, txs, id) ==
  LET mined == {t \in Range(txs) : ~TxBody[t].fee}
  IN  [t \in DOMAIN txdb \cup mined |-> IF t \in mined THEN id ELSE txdb[t]]

\* Mutant: a block of that id, left by a removal, is not replaced.
SetBlockOnce(blocks, b) ==
  [i \in DOMAIN blocks \cup {BlockBody[b].id} |-> IF i \in DOMAIN blocks THEN blocks[i] ELSE b]

SetBlock(blocks, b) ==
  [i \in DOMAIN blocks \cup {BlockBody[b].id} |-> IF i = BlockBody[b].id THEN b ELSE blocks[i]]

AtRetarget(n) == n > 2 * Lookback /\ n % Lookback = 0

\* updateDifficulty: the difficulty of the block after the last one.
UpdateDifficulty(c) ==
  IF ~AtRetarget(c.numBlocks) THEN c.difficulty
  ELSE LET first == BlockBody[c.blocks[c.numBlocks - Lookback]]
           last == BlockBody[c.blocks[c.numBlocks]]
       IN  ComputeDifficulty(last.difficulty, last.time - first.time, Lookback * BlockTime)

Commit(c, b, ledger) ==
  LET added == [c EXCEPT !.ledger = ledger,
                         !.txdb = InsertTransactions(@, Ordered(b), BlockBody[b].id),
                         !.blocks = SetBlock(@, b),
                         !.numBlocks = @ + 1, !.count = c.numBlocks + 1,
                         !.totalWork = @ + Work(b), !.work = c.totalWork + Work(b),
                         !.lastHash = b]
  IN  [added EXCEPT !.difficulty = UpdateDifficulty(added)]

\* What becomes of the chain when the block was executed to x.
Finish(c, b, x) ==
  IF x.status = "SUCCESS" THEN [status |-> "SUCCESS", chain |-> Commit(c, b, x.ledger)]
  ELSE [status |-> x.status, chain |-> [c EXCEPT !.ledger = Rollback(x.ledger, x.deltas)]]

AddBlock(c, b, now) ==
  LET check == CheckBlock(c, b, now)
  IN  IF check = "SUCCESS" THEN Finish(c, b, Execution(c, b))
      ELSE [status |-> check, chain |-> c]

-------------------------------------------------------------------------------
(* resetChain, initChain and popBlock.  A count of 0 is a store without    *)
(* the key BLOCK_COUNT.                                                    *)

Cleared == [ledger |-> <<>>, txdb |-> <<>>, blocks |-> <<>>, count |-> 0, work |-> 0,
            numBlocks |-> 0, totalWork |-> 0, difficulty |-> LeastDifficulty,
            lastHash |-> NullHash]

ResetChain == AddBlock(Cleared, Genesis, 0).chain

\* resetChain throws when the first block is refused: no such node runs.
ASSUME GenesisAssumption == AddBlock(Cleared, Genesis, 0).status = "SUCCESS"

InitChain(c) ==
  IF c.count = 0 THEN ResetChain
  ELSE [c EXCEPT !.numBlocks = c.count, !.totalWork = c.work,
                 !.difficulty = BlockBody[c.blocks[c.count]].difficulty,
                 !.lastHash = c.blocks[c.count]]

Tip(c) == c.blocks[c.numBlocks]

\* Mutant: the removed block's work stays.
PoppedKeepsWork(c) ==
  LET undone == RollbackBlock(Ordered(Tip(c)), c.ledger, c.txdb)
      n == c.numBlocks - 1
  IN  [c EXCEPT !.ledger = undone.ledger, !.txdb = undone.txdb, !.numBlocks = n, !.count = n]

Popped(c) ==
  LET undone == RollbackBlock(Ordered(Tip(c)), c.ledger, c.txdb)
      n == c.numBlocks - 1
      work == c.totalWork - Work(Tip(c))
  IN  [c EXCEPT !.ledger = undone.ledger, !.txdb = undone.txdb,
                !.numBlocks = n, !.count = n, !.totalWork = work, !.work = work]

\* Mutant: the difficulty is not that of the new last block.
PopBlockKeepsDifficulty(c) ==
  LET n == c.numBlocks - 1
  IN  IF n > 1 THEN [Popped(c) EXCEPT !.lastHash = c.blocks[n]] ELSE ResetChain

PopBlock(c) ==
  LET n == c.numBlocks - 1
  IN  IF n > 1 THEN [Popped(c) EXCEPT !.difficulty = BlockBody[c.blocks[n]].difficulty,
                                      !.lastHash = c.blocks[n]]
      ELSE ResetChain

(* verifyTransaction executes on the ledger itself and takes it back.      *)

VerifyTransaction(c, t) ==
  LET x == ExecuteTransaction(c.ledger, t)
      restored == [c EXCEPT !.ledger = Rollback(x.ledger, x.deltas)]
  IN  IF TxBody[t].fee THEN [status |-> "EXTRA_MINING_FEE", chain |-> c]
      ELSE IF ~TxBody[t].signed THEN [status |-> "INVALID_SIGNATURE", chain |-> c]
      ELSE [status |-> IF t \in DOMAIN c.txdb THEN "EXPIRED_TRANSACTION" ELSE x.status,
            chain |-> restored]

===============================================================================
