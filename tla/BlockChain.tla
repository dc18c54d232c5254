------------------------------ MODULE BlockChain ------------------------------
(***************************************************************************)
(* The chain of a node as a state machine.  Every operation of ChainCore   *)
(* runs under the chain's lock and is one step, but a crash may come       *)
(* between any two writes of it: the databases keep what was written, the  *)
(* memory is rebuilt by initChain.                                         *)
(*                                                                         *)
(* Which blocks are submitted, and when blocks are removed, is left open   *)
(* here: module ChainSync says when startChainSync does what.              *)
(***************************************************************************)
EXTENDS ChainCore

CONSTANTS NetworkTimes,  \* what getNetworkTimestamp may return
          MaxCrashes     \* bound: crashes

ASSUME BlockChainAssumption ==
  /\ NetworkTimes \subseteq Nat /\ MaxCrashes \in Nat
  /\ IsFiniteSet(Wallet)   \* arrays of 25 bytes

VARIABLES chain, crashes
vars == <<chain, crashes>>

-------------------------------------------------------------------------------
(* Crashes.  What the disk may hold when addBlock or popBlock stops half   *)
(* way: they write the ledger transaction by transaction, then the         *)
(* transaction store, the block, the total work and the count.             *)

\* Those after the execution x, before the whole is done.
Inserts(c, b, x, done) ==
  LET executed == [c EXCEPT !.ledger = x.ledger]
      stored == [executed EXCEPT !.txdb = done.txdb, !.blocks = done.blocks]
  IN  {[executed EXCEPT !.txdb = InsertTransactions(@, SubSeq(Ordered(b), 1, k), BlockBody[b].id)] :
         k \in DOMAIN Ordered(b)}
      \cup {stored, [stored EXCEPT !.work = done.work]}

Withdrawals(c, x) ==
  {[c EXCEPT !.ledger = [w \in DOMAIN x.ledger |->
      IF w \in ws THEN Rollback(x.ledger, x.deltas)[w] ELSE x.ledger[w]]] :
   ws \in SUBSET DOMAIN x.deltas}

ExecutionWrites(c, b, x) ==
  {[c EXCEPT !.ledger =
      Executed(Ordered(b), k, BlockBody[b].id, @, MiningFee(c.numBlocks)).ledger] :
   k \in DOMAIN Ordered(b)} \cup
  IF x.status = "SUCCESS" THEN Inserts(c, b, x, Commit(c, b, x.ledger)) ELSE Withdrawals(c, x)

AddWrites(c, b, now) ==
  IF \/ CheckBlock(c, b, now) # "SUCCESS"
     \/ FirstPass(Ordered(b), c.txdb, BlockBody[b].id, MiningFee(c.numBlocks)) # "SUCCESS"
  THEN {} ELSE ExecutionWrites(c, b, Execution(c, b))

PopEnds(undone) ==
  LET worked == [undone EXCEPT !.work = undone.totalWork - Work(Tip(undone))]
      counted == [worked EXCEPT !.count = undone.numBlocks - 1]
  IN  {worked, counted} \cup
      IF undone.numBlocks > 2 THEN {}
      ELSE {[counted EXCEPT !.ledger = <<>>], [Cleared EXCEPT !.txdb = counted.txdb], Cleared}

PopWrites(c) ==
  LET txs == Ordered(Tip(c))
      Wrote(x) == [c EXCEPT !.ledger = x.ledger, !.txdb = x.txdb]
  IN  {Wrote(RollbackFrom(txs, k, c.ledger, c.txdb)) : k \in 1 .. Len(txs)}
      \cup PopEnds(Wrote(RollbackBlock(txs, c.ledger, c.txdb)))

-------------------------------------------------------------------------------
(* The steps: a block submitted or downloaded, a block removed by          *)
(* startChainSync, a transaction verified, a restart, a crash.             *)

Init == chain = ResetChain /\ crashes = 0

Add(b) ==
  \E now \in NetworkTimes : chain' = AddBlock(chain, b, now).chain /\ UNCHANGED crashes

\* startChainSync removes no block when there is one only.
Pop == chain.numBlocks > 1 /\ chain' = PopBlock(chain) /\ UNCHANGED crashes

Verify(t) == chain' = VerifyTransaction(chain, t).chain /\ UNCHANGED crashes

Restart == chain' = InitChain(chain) /\ UNCHANGED crashes

\* addBlock has a block that was handed in, or the first one again: popBlock clears
\* everything when only that is left.
Adding ==
  {<<chain, b, now>> : b \in Block, now \in NetworkTimes}
    \cup IF chain.numBlocks = 2 THEN {<<Cleared, Genesis, 0>>} ELSE {}

CrashAdding ==
  /\ crashes < MaxCrashes /\ crashes' = crashes + 1
  /\ \E a \in Adding : \E half \in AddWrites(a[1], a[2], a[3]) : chain' = InitChain(half)

CrashPopping ==
  /\ crashes < MaxCrashes /\ crashes' = crashes + 1
  /\ chain.numBlocks > 1 /\ \E half \in PopWrites(chain) : chain' = InitChain(half)

Next ==
  \/ \E b \in Block : Add(b)
  \/ Pop
  \/ \E t \in Tx : Verify(t)
  \/ Restart
  \/ CrashAdding \/ CrashPopping
Spec == Init /\ [][Next]_vars

-------------------------------------------------------------------------------
\* The blocks from the first to the last are each made for the one before, the
\* memory agrees with the disk and with the last block, and from a block on disk
\* to the next the difficulty changes only after a full period, to what
\* computeDifficulty gives: also after removals, restarts and crashes between the
\* writes of addBlock and popBlock.
ChainLinked ==
  LET n == chain.numBlocks
      Difficulty(i) == BlockBody[chain.blocks[i]].difficulty
      Upto(i) == [chain EXCEPT !.numBlocks = i, !.difficulty = Difficulty(i)]
  IN  /\ n = chain.count /\ chain.totalWork = chain.work
      /\ chain.lastHash = Tip(chain)
      /\ chain.blocks[1] = Genesis
      /\ \A i \in 2 .. n : /\ BlockBody[chain.blocks[i]].parent = chain.blocks[i - 1]
                           /\ Difficulty(i) \in {Difficulty(i - 1), UpdateDifficulty(Upto(i - 1))}

\* Without a crash the total work, by which nodes choose between chains, is the
\* sum of the blocks' work; each crash can put it wrong by one block's work at most
\* (the work is written before the number of blocks, by addBlock and by popBlock).
WorkOfChain ==
  LET sum == SumFunction([i \in 1 .. chain.numBlocks |-> Work(chain.blocks[i])])
      most == Max({Work(b) : b \in Block})
  IN  Distance(chain.totalWork, sum) <= crashes * most

-------------------------------------------------------------------------------
(* What the blocks alone say of the transactions and the money.            *)

MinedIn(b) == {t \in Range(Ordered(b)) : ~TxBody[t].fee}

\* What w has more, or less, after the i-th transaction of b, in integers.
When(cond, v) == IF cond THEN v ELSE 0
Change(b, i, w) ==
  LET txs == Ordered(b)
      t == TxBody[txs[i]]
      received == When(t.to = w, t.amount)
  IN  IF t.fee \/ BlockBody[b].id = 1 THEN received
      ELSE received - When(t.from = w, t.amount + t.fees) + When(Miner(txs) = w, t.fees)
GainOf(b, w) == SumFunction([i \in DOMAIN Ordered(b) |-> Change(b, i, w)])
Balance(blocks, n, w) == SumFunction([i \in 1 .. n |-> GainOf(blocks[i], w)])

\* What the first block and the mining fees give out.
Mints(b, i) ==
  LET t == TxBody[Ordered(b)[i]]
  IN  When(t.fee \/ BlockBody[b].id = 1, t.amount)
Minted(b) == SumFunction([i \in DOMAIN Ordered(b) |-> Mints(b, i)])
Supply(blocks, n) == SumFunction([i \in 1 .. n |-> Minted(blocks[i])])

\* No sum that the code forms is too large for an amount; the code does not check it.
Moderate(blocks, n) ==
  /\ Supply(blocks, n) < AmountLimit
  /\ \A i \in 1 .. n : \A t \in MinedIn(blocks[i]) : TxBody[t].amount + TxBody[t].fees < AmountLimit

-------------------------------------------------------------------------------
\* Without a crash every balance is, modulo 2^64, what the chain's transactions paid
\* the wallet less what they took from it, whatever blocks were removed, refused half
\* way or checked and whatever transactions were verified in between.
LedgerOfChain ==
  crashes = 0 => \A w \in Wallet :
    ValueOf(chain.ledger, w) = Balance(chain.blocks, chain.numBlocks, w) % AmountLimit

\* Without a crash no balance has wrapped around zero, and they sum up to what the
\* first block and the mining fees gave out: transfers and fees, and their removal,
\* create and destroy nothing.
MoneySupply ==
  LET n == chain.numBlocks
  IN  crashes = 0 /\ Moderate(chain.blocks, n) =>
        /\ \A w \in Wallet : ValueOf(chain.ledger, w) = Balance(chain.blocks, n, w)
        /\ SumFunction([w \in Wallet |-> ValueOf(chain.ledger, w)]) = Supply(chain.blocks, n)

\* Without a crash the transaction store holds exactly the transactions of the
\* chain, each with its block: none is in two blocks, and one whose block was
\* removed can be mined again.
StoredTxs(c) == UNION {MinedIn(c.blocks[i]) : i \in 1 .. c.numBlocks}
StoreOfChain ==
  crashes = 0 =>
    /\ DOMAIN chain.txdb = StoredTxs(chain)
    /\ \A i \in 1 .. chain.numBlocks : \A t \in MinedIn(chain.blocks[i]) : chain.txdb[t] = i

\* Together: the ledger and the transaction store are those of the chain's blocks.
StateOfChain == LedgerOfChain /\ MoneySupply /\ StoreOfChain

\* A transaction that verifyTransaction answers SUCCESS for can be executed by
\* the next block, whoever mines it: the pool and the blocks do not disagree about it.
VerifiedExecutes ==
  \A t \in Tx :
    VerifyTransaction(chain, t).status = "SUCCESS" =>
      LET id == chain.numBlocks + 1
      IN  /\ PassStatus(<<t>>, 1, chain.txdb, id) = "SUCCESS"
          /\ \A miner \in Wallet :
               ExecuteNext(Begin(chain.ledger), t, miner, 0, id).status = "SUCCESS"

\* The chain that has these blocks and no other past.
FromBlocks(c) ==
  [c EXCEPT
     !.ledger = [w \in Wallet |-> Balance(c.blocks, c.numBlocks, w) % AmountLimit],
     !.txdb = [t \in StoredTxs(c) |-> CHOOSE i \in 1 .. c.numBlocks : t \in MinedIn(c.blocks[i])],
     !.difficulty = UpdateDifficulty([c EXCEPT !.difficulty = BlockBody[Tip(c)].difficulty])]

\* Whether a block is accepted depends on the blocks before it only, so that two
\* nodes with the same blocks accept the same next one, whatever each did before, with
\* two exceptions the code has: the difficulty after a full period is forgotten by a
\* restart or a removal, and a transfer of nothing succeeds from a wallet that
\* verifying or a removed block left behind.
SameVerdict ==
  crashes = 0 =>
    LET fresh == FromBlocks(chain)
        Accepts(c, b, now) == AddBlock(c, b, now).status = "SUCCESS"
    IN  \/ AtRetarget(chain.numBlocks) /\ chain.difficulty # fresh.difficulty
        \/ \A b \in Block, now \in NetworkTimes :
             \/ Accepts(chain, b, now) <=> Accepts(fresh, b, now)
             \/ \E t \in MinedIn(b) : Plus(TxBody[t].amount, TxBody[t].fees) = 0

\* No two judges of a transaction or a block disagree: neither the pool and the
\* blocks, nor two nodes with the same chain.
VerdictsAgree == VerifiedExecutes /\ SameVerdict

-------------------------------------------------------------------------------
History == [i \in 1 .. chain.numBlocks |-> chain.blocks[i]]
ParentOf == [b \in Block |-> BlockBody[b].parent]
MinedOf == [b \in Block |-> MinedIn(b)]
GainsOf == [b \in Block |-> [w \in Wallet |-> GainOf(b, w)]]
Abstract == INSTANCE LinkedChain WITH
  Parent <- ParentOf, Mined <- MinedOf, Gain <- GainsOf, history <- History

\* Until a crash every step of the node's chain is a step of LinkedChain or changes
\* nothing of it, as long as the amounts are moderate: a block added is linked, its
\* transactions are new and paid for from balances computed without the ledger, a
\* removal takes the last block only.
ImplementsLinkedChain ==
  /\ Abstract!Init
  /\ [][crashes' = 0 /\ Moderate(chain.blocks, chain.numBlocks)' =>
          Abstract!Grow \/ Abstract!Cut]_History

===============================================================================
