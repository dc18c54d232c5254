---------------------------- MODULE BlockChainProofs ---------------------------
(***************************************************************************)
(* Proofs about BlockChain for every universe of blocks and transactions:  *)
(* the blocks of a node stay linked, and its total work is that of its     *)
(* blocks, through removals, restarts and crashes between two writes.      *)
(* Until a crash its ledger and transaction store are those of its blocks, *)
(* no two judges of a block disagree, and it implements LinkedChain.       *)
(***************************************************************************)
EXTENDS BlockChain, ChainCoreProofs

-------------------------------------------------------------------------------
(* What a crash leaves.                                                    *)

(* addBlock leaves the count; it writes the block before its work.         *)
LEMMA AddHalves ==
  ASSUME NEW c, IsChain(c), NEW b, NEW now, NEW half \in AddWrites(c, b, now)
  PROVE  /\ CheckBlock(c, b, now) = "SUCCESS" /\ IsChain(half) /\ half.count = c.count
         /\ \/ half.blocks = c.blocks /\ half.work = c.work
            \/ half.blocks = SetBlock(c.blocks, b) /\ half.work = c.work
            \/ half.blocks = SetBlock(c.blocks, b) /\ half.work = c.totalWork + Work(b)
<1> DEFINE x == Execution(c, b)
           done == Commit(c, b, x.ledger)
           l == x.ledger
           executed == [c EXCEPT !.ledger = l]
           t == done.txdb
           s == done.blocks
           w == done.work
           stored == [executed EXCEPT !.txdb = t, !.blocks = s]
           worked == [stored EXCEPT !.work = w]
<1>0. done.work = c.totalWork + Work(b) /\ done.blocks = SetBlock(c.blocks, b)
  BY CommitFields
<1>1. CheckBlock(c, b, now) = "SUCCESS" /\ half \in ExecutionWrites(c, b, x)
  BY DEF AddWrites
<1>2. ASSUME NEW m, half = [c EXCEPT !.ledger = m]
      PROVE  IsChain(half) /\ half.count = c.count /\ half.blocks = c.blocks /\ half.work = c.work
  BY <1>2 DEF IsChain, ChainFields
<1>3. ASSUME NEW m, half = [executed EXCEPT !.txdb = m]
      PROVE  IsChain(half) /\ half.count = c.count /\ half.blocks = c.blocks /\ half.work = c.work
  <2> HIDE DEF l
  <2> QED BY <1>3 DEF IsChain, ChainFields
<1>4. /\ IsChain(stored) /\ stored.count = c.count /\ stored.blocks = s /\ stored.work = c.work
  <2> HIDE DEF l, t, s
  <2> QED BY DEF IsChain, ChainFields
<1>5. /\ IsChain(worked) /\ worked.count = c.count /\ worked.blocks = s /\ worked.work = w
  <2> HIDE DEF stored, s, w
  <2> QED BY <1>4 DEF IsChain, ChainFields
<1>6. CASE \E k \in DOMAIN Ordered(b) :
             half = [c EXCEPT !.ledger =
                       Executed(Ordered(b), k, BlockBody[b].id, @, MiningFee(c.numBlocks)).ledger]
  <2>1. PICK k : half = [c EXCEPT !.ledger =
                  Executed(Ordered(b), k, BlockBody[b].id, c.ledger, MiningFee(c.numBlocks)).ledger]
    BY <1>6
  <2> QED BY <1>1, <1>2, <2>1
<1>7. CASE half \in Withdrawals(c, x)
  <2>1. PICK m : half = [c EXCEPT !.ledger = m]
    <3> HIDE DEF x
    <3> QED BY <1>7 DEF Withdrawals
  <2> QED BY <1>1, <1>2, <2>1
<1>8. CASE half \in Inserts(c, b, x, done)
  <2>1. CASE half \in {stored, worked}
    <3> HIDE DEF stored, worked, done, s, w
    <3>1. s = done.blocks /\ w = done.work
      BY DEF s, w
    <3> QED BY <1>0, <1>1, <1>4, <1>5, <2>1, <3>1
  <2>2. CASE \E k \in DOMAIN Ordered(b) :
               half = [executed EXCEPT !.txdb =
                         InsertTransactions(@, SubSeq(Ordered(b), 1, k), BlockBody[b].id)]
    <3>1. PICK m : half = [executed EXCEPT !.txdb = m]
      <4>1. PICK k : half = [executed EXCEPT !.txdb =
                      InsertTransactions(executed.txdb, SubSeq(Ordered(b), 1, k), BlockBody[b].id)]
        BY <2>2
      <4> QED BY <4>1
    <3> QED BY <1>1, <1>3, <3>1
  <2> HIDE DEF x, done
  <2> QED BY <1>8, <2>1, <2>2 DEF Inserts
<1> HIDE DEF x
<1> QED BY <1>1, <1>6, <1>7, <1>8 DEF ExecutionWrites

(* popBlock leaves the blocks; it writes the work before the count, and    *)
(* clears everything with the last block but one.                          *)
LEMMA PopHalves ==
  ASSUME NEW c, Sound(c), NEW half \in PopWrites(c)
  PROVE  /\ IsChain(half)
         /\ \/ half.blocks = c.blocks /\ half.count = c.count /\ half.work = c.work
            \/ /\ half.blocks = c.blocks /\ half.work = c.totalWork - Work(Tip(c))
               /\ half.count \in {c.count, c.count - 1}
            \/ half.count = 0 /\ half.work = 0
<1>0. IsChain(c) /\ c.count = c.numBlocks
  BY DEF Sound
<1>1. ASSUME NEW l, NEW t, half = [c EXCEPT !.ledger = l, !.txdb = t]
      PROVE  IsChain(half) /\ half.count = c.count /\ half.blocks = c.blocks /\ half.work = c.work
  BY <1>0, <1>1 DEF IsChain, ChainFields
<1>2. ASSUME NEW l, NEW t, half \in PopEnds([c EXCEPT !.ledger = l, !.txdb = t])
      PROVE  /\ IsChain(half)
             /\ \/ /\ half.blocks = c.blocks /\ half.work = c.totalWork - Work(Tip(c))
                   /\ half.count \in {c.count, c.count - 1}
                \/ half.count = 0 /\ half.work = 0
  <2> DEFINE undone == [c EXCEPT !.ledger = l, !.txdb = t]
             w == undone.totalWork - Work(Tip(undone))
             n == undone.numBlocks - 1
             worked == [undone EXCEPT !.work = w]
             counted == [worked EXCEPT !.count = n]
             bare == [counted EXCEPT !.ledger = <<>>]
             u == counted.txdb
             empty == [Cleared EXCEPT !.txdb = u]
  <2>1. /\ IsChain(undone) /\ undone.blocks = c.blocks /\ undone.count = c.count
        /\ undone.totalWork = c.totalWork /\ undone.numBlocks = c.numBlocks
    BY <1>0 DEF IsChain, ChainFields
  <2>2. w = c.totalWork - Work(Tip(c)) /\ n = c.count - 1
    <3> HIDE DEF undone
    <3> QED BY <1>0, <2>1 DEF Tip, w, n
  <2> HIDE DEF undone, w, n
  <2>3. IsChain(worked) /\ worked.blocks = c.blocks /\ worked.work = w /\ worked.count = c.count
    BY <2>1 DEF IsChain, ChainFields
  <2> HIDE DEF worked
  <2>4. IsChain(counted) /\ counted.blocks = c.blocks /\ counted.work = w /\ counted.count = n
    BY <2>3 DEF IsChain, ChainFields
  <2> HIDE DEF counted, u
  <2>5. IsChain(bare) /\ bare.blocks = c.blocks /\ bare.work = w /\ bare.count = n
    BY <2>4 DEF IsChain, ChainFields
  <2>6. IsChain(Cleared) /\ Cleared.count = 0 /\ Cleared.work = 0
    BY DEF IsChain, ChainFields, Cleared
  <2>7. IsChain(empty) /\ empty.count = 0 /\ empty.work = 0
    BY <2>6 DEF IsChain, ChainFields
  <2>8. half \in {worked, counted, bare, empty, Cleared}
    BY <1>2 DEF PopEnds, undone, worked, counted, w, n, u
  <2> HIDE DEF bare, empty
  <2> QED BY <2>2, <2>3, <2>4, <2>5, <2>6, <2>7, <2>8
<1>3. CASE \E l, t : half = [c EXCEPT !.ledger = l, !.txdb = t]
  BY <1>1, <1>3
<1>4. CASE \E l, t : half \in PopEnds([c EXCEPT !.ledger = l, !.txdb = t])
  BY <1>2, <1>4
<1> QED BY <1>3, <1>4 DEF PopWrites

-------------------------------------------------------------------------------
(* The most work that one block has.                                       *)

MostWork == Max({Work(b) : b \in Block})
Within(d, e) == d <= e /\ -d <= e

(* No block has more work than MostWork.                                   *)
LEMMA MostIsMost == MostWork \in Nat /\ \A b \in Block : Work(b) <= MostWork
<1> DEFINE S == {Work(b) : b \in Block}
           D == LeastDifficulty .. GreatestDifficulty
           P == {2 ^ d : d \in D}
<1>1. IsFiniteSet(P)
  <2>1. IsFiniteSet(D)
    <3>1. LeastDifficulty \in Int /\ GreatestDifficulty \in Int
      BY DEF LeastDifficulty, GreatestDifficulty
    <3> QED BY <3>1, FS_Interval
  <2> DEFINE f == [d \in D |-> 2 ^ d]
  <2>2. P = {f[d] : d \in D} /\ f \in [D -> P]
    OBVIOUS
  <2>3. \A q \in P : \E d \in D : f[d] = q
    BY <2>2
  <2>4. f \in Surjection(D, P)
    BY <2>2, <2>3 DEF Surjection
  <2> HIDE DEF f, D, P
  <2> QED BY <2>1, <2>4, FS_Surjection
<1>2. S \subseteq P
  <2>1. \A b \in Block : BlockBody[b].difficulty \in D
    BY ChainAssumption
  <2> HIDE DEF D
  <2> QED BY <2>1 DEF Work
<1>3. IsFiniteSet(S)
  BY <1>1, <1>2, FS_Subset
<1>4. S \subseteq Nat /\ S # {}
  BY WorkAssumption, ChainAssumption
<1> HIDE DEF S
<1>5. Max(S) \in S /\ \A x \in S : Max(S) >= x
  <2>1. S \subseteq Int
    BY <1>4
  <2> QED BY <1>3, <1>4, <2>1, FiniteHasMax
<1>6. \A b \in Block : Work(b) \in S
  BY DEF S
<1> QED BY <1>4, <1>5, <1>6 DEF MostWork, S

-------------------------------------------------------------------------------
(* The invariant: the chain is sound, and each crash has put its total     *)
(* work wrong by the work of one block at most.                            *)

Allowed == crashes * MostWork
ChainInv == Sound(chain) /\ crashes \in Nat /\ Within(Off(chain), Allowed)

(* One crash more, one block's work further off.                           *)
LEMMA OneCrashMore ==
  ASSUME NEW k \in Nat, NEW d \in Int, NEW e \in Int, Within(d, k * MostWork),
         NEW b \in Block, e \in {0, d, d + Work(b), d - Work(b)}
  PROVE  Within(e, (k + 1) * MostWork)
<1>1. MostWork \in Nat /\ Work(b) \in Nat /\ Work(b) <= MostWork
  BY MostIsMost, WorkAssumption
<1>2. k * MostWork \in Nat /\ (k + 1) * MostWork = k * MostWork + MostWork
  BY <1>1
<1> QED BY <1>1, <1>2 DEF Within

(* initChain after a crash: the count of blocks on disk is that before,    *)
(* or one less.                                                            *)
LEMMA InitAfterCrash ==
  ASSUME NEW c, Sound(c), NEW half, IsChain(half), NEW b \in Block,
         \/ half.count = 0 /\ half.work \in Int
         \/ /\ half.blocks = c.blocks \/ (half.blocks = SetBlock(c.blocks, b) /\ BlockBody[b].id = c.numBlocks + 1)
            /\ half.count = c.count
            /\ half.work \in {c.totalWork, c.totalWork + Work(b), c.totalWork - Work(b)}
         \/ /\ half.blocks = c.blocks /\ half.count = c.count - 1 /\ half.count # 0
            /\ half.work = c.totalWork - Work(b) /\ b = c.blocks[c.numBlocks]
  PROVE  /\ Sound(InitChain(half))
         /\ Off(InitChain(half)) \in {0, Off(c), Off(c) + Work(b), Off(c) - Work(b)}
<1> DEFINE n == c.numBlocks
           e == InitChain(half)
<1>0. /\ n \in Nat \ {0} /\ c.count = n /\ LinkedUpTo(c.blocks, n) /\ c.totalWork \in Int
      /\ Work(b) \in Int /\ BlocksWork(c.blocks, n) \in Int
  BY WorkAssumption, WorkOfLinked DEF Sound
<1>1. CASE half.count = 0 /\ half.work \in Int
  <2>1. OnDisk(half)
    BY <1>1 DEF OnDisk
  <2>2. Sound(e) /\ e = ResetChain
    BY <1>1, <2>1, InitSound
  <2> QED BY <2>2, ResetExact
<1>2. CASE /\ half.blocks = c.blocks \/ (half.blocks = SetBlock(c.blocks, b) /\ BlockBody[b].id = c.numBlocks + 1)
           /\ half.count = c.count
           /\ half.work \in {c.totalWork, c.totalWork + Work(b), c.totalWork - Work(b)}
  <2>1. /\ 1 .. n \subseteq DOMAIN half.blocks /\ \A i \in 1 .. n : half.blocks[i] = c.blocks[i]
    <3>1. CASE half.blocks = c.blocks
      BY <1>0, <3>1 DEF LinkedUpTo
    <3>2. CASE half.blocks = SetBlock(c.blocks, b) /\ BlockBody[b].id = c.numBlocks + 1
      BY <1>0, <3>2 DEF LinkedUpTo, SetBlock
    <3> QED BY <1>2, <3>1, <3>2
  <2>2. LinkedUpTo(half.blocks, n)
    BY <1>0, <2>1, LinkedPart
  <2>3. BlocksWork(half.blocks, n) = BlocksWork(c.blocks, n)
    BY <1>0, <2>1, WorkOfPart
  <2>4. half.work \in Int /\ half.count = n
    BY <1>0, <1>2
  <2>5. OnDisk(half)
    BY <1>0, <2>2, <2>4 DEF OnDisk
  <2>6. Sound(e) /\ e.numBlocks = n /\ e.totalWork = half.work /\ e.blocks = half.blocks
    BY <1>0, <2>4, <2>5, InitSound
  <2> HIDE DEF e
  <2>7. Off(e) = half.work - BlocksWork(c.blocks, n)
    BY <2>3, <2>6 DEF Off
  <2> QED BY <1>0, <1>2, <2>6, <2>7 DEF Off, e
<1>3. CASE /\ half.blocks = c.blocks /\ half.count = c.count - 1 /\ half.count # 0
           /\ half.work = c.totalWork - Work(b) /\ b = c.blocks[c.numBlocks]
  <2>1. n - 1 \in Nat \ {0} /\ half.count = n - 1 /\ half.work \in Int
    BY <1>0, <1>3
  <2>2. LinkedUpTo(half.blocks, n - 1)
    BY <1>0, <1>3, <2>1, LinkedPart DEF LinkedUpTo
  <2>3. OnDisk(half)
    BY <2>1, <2>2 DEF OnDisk
  <2>4. Sound(e) /\ e.numBlocks = n - 1 /\ e.totalWork = half.work /\ e.blocks = c.blocks
    BY <1>3, <2>1, <2>3, InitSound
  <2>5. /\ BlocksWork(c.blocks, n) = BlocksWork(c.blocks, n - 1) + Work(b)
        /\ BlocksWork(c.blocks, n - 1) \in Int
    BY <1>0, <1>3, <2>1, <2>2, WorkOfLinked
  <2> HIDE DEF e
  <2>6. Off(e) = Off(c)
    BY <1>0, <1>3, <2>4, <2>5 DEF Off
  <2> QED BY <2>4, <2>6 DEF e
<1> QED BY <1>1, <1>2, <1>3

(* A crash while a block is added, also the first one again.               *)
LEMMA CrashAddingKeeps ==
  ASSUME ChainInv, CrashAdding
  PROVE  ChainInv'
<1> DEFINE n == chain.numBlocks
<1>0. Sound(chain) /\ crashes \in Nat /\ crashes' = crashes + 1 /\ Off(chain) \in Int
  BY OffIsInt DEF ChainInv, CrashAdding
<1>1. PICK a \in Adding : \E half \in AddWrites(a[1], a[2], a[3]) : chain' = InitChain(half)
  BY DEF CrashAdding
<1>2. PICK half \in AddWrites(a[1], a[2], a[3]) : chain' = InitChain(half)
  BY <1>1
<1>3. PICK b \in Block :
        /\ Sound(InitChain(half))
        /\ Off(InitChain(half)) \in {0, Off(chain), Off(chain) + Work(b), Off(chain) - Work(b)}
  <2>1. CASE \E b \in Block, now \in NetworkTimes : a = <<chain, b, now>>
    <3>1. PICK b \in Block, now \in NetworkTimes : a = <<chain, b, now>>
      BY <2>1
    <3>2. half \in AddWrites(chain, b, now)
      BY <1>2, <3>1
    <3>3. IsChain(chain) /\ chain.work = chain.totalWork
      BY <1>0 DEF Sound
    <3>4. /\ CheckBlock(chain, b, now) = "SUCCESS" /\ IsChain(half) /\ half.count = chain.count
          /\ half.blocks = chain.blocks \/ half.blocks = SetBlock(chain.blocks, b)
          /\ half.work \in {chain.totalWork, chain.totalWork + Work(b)}
      BY <3>2, <3>3, AddHalves
    <3>5. BlockBody[b].id = chain.numBlocks + 1
      BY <3>4 DEF CheckBlock
    <3> QED BY <1>0, <3>4, <3>5, InitAfterCrash
  <2>2. CASE a = <<Cleared, Genesis, 0>>
    <3>1. half \in AddWrites(Cleared, Genesis, 0)
      BY <1>2, <2>2
    <3>2. IsChain(Cleared) /\ Cleared.count = 0 /\ Cleared.work = 0 /\ Cleared.totalWork = 0
      BY DEF IsChain, ChainFields, Cleared
    <3>3. Genesis \in Block /\ Work(Genesis) \in Int
      BY ChainAssumption, WorkAssumption
    <3>4. IsChain(half) /\ half.count = 0 /\ half.work \in Int
      BY <3>1, <3>2, <3>3, AddHalves
    <3> QED BY <1>0, <3>3, <3>4, InitAfterCrash
  <2> QED BY <2>1, <2>2 DEF Adding
<1>4. Off(chain') \in Int
  BY <1>2, <1>3, OffIsInt
<1>5. Within(Off(chain'), (crashes + 1) * MostWork)
  BY <1>0, <1>2, <1>3, <1>4, OneCrashMore DEF ChainInv, Allowed
<1> QED BY <1>0, <1>2, <1>3, <1>5 DEF ChainInv, Allowed

(* A crash while a block is removed.                                       *)
LEMMA CrashPoppingKeeps ==
  ASSUME ChainInv, CrashPopping
  PROVE  ChainInv'
<1> DEFINE b == Tip(chain)
<1>0. Sound(chain) /\ crashes \in Nat /\ crashes' = crashes + 1 /\ Off(chain) \in Int
  BY OffIsInt DEF ChainInv, CrashPopping
<1>1. PICK half \in PopWrites(chain) : chain' = InitChain(half)
  BY DEF CrashPopping
<1>2. /\ chain.numBlocks \in Nat \ {0} /\ chain.count = chain.numBlocks
      /\ chain.work = chain.totalWork /\ chain.totalWork \in Int
      /\ b \in Block /\ b = chain.blocks[chain.numBlocks]
  BY <1>0, WorkOfLinked DEF Sound, Tip
<1>3. /\ IsChain(half)
      /\ \/ half.blocks = chain.blocks /\ half.count = chain.count /\ half.work = chain.work
         \/ /\ half.blocks = chain.blocks /\ half.work = chain.totalWork - Work(b)
            /\ half.count \in {chain.count, chain.count - 1}
         \/ half.count = 0 /\ half.work = 0
  BY <1>0, PopHalves
<1> HIDE DEF b
<1>4. /\ Sound(InitChain(half))
      /\ Off(InitChain(half)) \in {0, Off(chain), Off(chain) + Work(b), Off(chain) - Work(b)}
  <2>1. CASE half.count = 0 /\ half.work \in Int
    BY <1>0, <1>2, <1>3, <2>1, InitAfterCrash
  <2>2. CASE /\ half.blocks = chain.blocks /\ half.count = chain.count
             /\ half.work \in {chain.totalWork, chain.totalWork - Work(b)}
    BY <1>0, <1>2, <1>3, <2>2, InitAfterCrash
  <2>3. CASE /\ half.blocks = chain.blocks /\ half.count = chain.count - 1 /\ half.count # 0
             /\ half.work = chain.totalWork - Work(b)
    BY <1>0, <1>2, <1>3, <2>3, InitAfterCrash
  <2>4. Work(b) \in Int
    BY <1>2, WorkAssumption
  <2> QED BY <1>2, <1>3, <2>1, <2>2, <2>3, <2>4
<1>5. Off(chain') \in Int
  BY <1>1, <1>4, OffIsInt
<1>6. Within(Off(chain'), (crashes + 1) * MostWork)
  BY <1>0, <1>1, <1>2, <1>4, <1>5, OneCrashMore DEF ChainInv, Allowed
<1> QED BY <1>0, <1>1, <1>4, <1>6 DEF ChainInv, Allowed

(* Every step keeps the invariant.                                         *)
LEMMA ChainInvInductive ==
  /\ Init => ChainInv
  /\ ChainInv /\ [Next]_vars => ChainInv'
<1>1. ASSUME Init PROVE ChainInv
  <2>1. Sound(chain) /\ Off(chain) = 0 /\ crashes = 0
    BY <1>1, ResetSound, ResetExact DEF Init
  <2>2. Allowed = 0
    BY <2>1, MostIsMost DEF Allowed
  <2> QED BY <2>1, <2>2 DEF ChainInv, Within
<1>2. ASSUME ChainInv, [Next]_vars PROVE ChainInv'
  <2>0. Sound(chain) /\ crashes \in Nat /\ Within(Off(chain), Allowed) /\ Allowed \in Nat
    BY <1>2, MostIsMost DEF ChainInv, Allowed
  <2>1. ASSUME Sound(chain'), Off(chain') \in {0, Off(chain)}, crashes' = crashes
        PROVE  ChainInv'
    <3>1. Within(0, Allowed)
      BY <2>0 DEF Within
    <3> QED BY <2>0, <2>1, <3>1 DEF ChainInv, Allowed
  <2>2. CASE \E b \in Block : Add(b)
    <3>1. PICK b \in Block, now \in NetworkTimes :
            chain' = AddBlock(chain, b, now).chain /\ crashes' = crashes
      BY <2>2 DEF Add
    <3> QED BY <2>0, <2>1, <3>1, AddKeeps
  <2>3. CASE Pop
    BY <2>0, <2>1, <2>3, PopKeeps DEF Pop
  <2>4. CASE \E t \in Tx : Verify(t)
    <3>1. PICK t \in Tx : chain' = VerifyTransaction(chain, t).chain /\ crashes' = crashes
      BY <2>4 DEF Verify
    <3>2. chain' = chain \/ \E l : chain' = [chain EXCEPT !.ledger = l]
      BY <3>1 DEF VerifyTransaction
    <3>3. ASSUME NEW l, chain' = [chain EXCEPT !.ledger = l]
          PROVE  Sound(chain') /\ Off(chain') = Off(chain)
      BY <2>0, <3>3, LedgerSound DEF Off
    <3>4. Sound(chain') /\ Off(chain') = Off(chain)
      BY <2>0, <3>2, <3>3
    <3> QED BY <2>1, <3>1, <3>4
  <2>5. CASE Restart
    <3>1. OnDisk(chain) /\ chain.count # 0 /\ chain.count = chain.numBlocks /\ chain.work = chain.totalWork
      BY <2>0 DEF Sound, OnDisk
    <3>2. Sound(InitChain(chain)) /\ Off(InitChain(chain)) = Off(chain)
      BY <3>1, InitSound DEF Off
    <3> QED BY <2>1, <2>5, <3>2 DEF Restart
  <2>6. CASE CrashAdding
    BY <1>2, <2>6, CrashAddingKeeps
  <2>7. CASE CrashPopping
    BY <1>2, <2>7, CrashPoppingKeeps
  <2>8. CASE UNCHANGED vars
    BY <2>0, <2>1, <2>8 DEF vars
  <2> QED BY <1>2, <2>2, <2>3, <2>4, <2>5, <2>6, <2>7, <2>8 DEF Next
<1> QED BY <1>1, <1>2

-------------------------------------------------------------------------------
\* Always the blocks of a node are a chain from the first one to the last, and the
\* memory and the disk agree on it: whatever blocks addBlock was given, startChainSync
\* removed, and wherever between two writes the process died.
THEOREM BlocksStayLinked == Spec => []ChainLinked
<1>1. ChainInv => ChainLinked
  <2> SUFFICES ASSUME ChainInv PROVE ChainLinked
    OBVIOUS
  <2> DEFINE n == chain.numBlocks
             Upto(i) == [chain EXCEPT !.numBlocks = i, !.difficulty = BlockBody[chain.blocks[i]].difficulty]
  <2>1. Sound(chain)
    BY DEF ChainInv
  <2>2. ASSUME NEW i \in 2 .. n
        PROVE  /\ BlockBody[chain.blocks[i]].parent = chain.blocks[i - 1]
               /\ DifficultyOf(chain.blocks[i]) \in
                    {DifficultyOf(chain.blocks[i - 1]), UpdateDifficulty(Upto(i - 1))}
    <3>1. /\ BlockBody[chain.blocks[i]].parent = chain.blocks[i - 1]
          /\ DifficultyOf(chain.blocks[i]) \in MayFollow(chain.blocks, i - 1)
      BY <2>1 DEF Sound, LinkedUpTo
    <3> DEFINE d == DifficultyOf(chain.blocks[i - 1])
               e == [blocks |-> chain.blocks, numBlocks |-> i - 1, difficulty |-> d]
    <3>2. /\ Upto(i - 1).numBlocks = i - 1 /\ Upto(i - 1).blocks = chain.blocks
          /\ Upto(i - 1).difficulty = d
      BY <2>1 DEF Sound, IsChain, ChainFields, DifficultyOf
    <3>3. i - 1 \in Nat \ {0}
      BY <2>1 DEF Sound
    <3> HIDE DEF Upto
    <3>4. UpdateDifficulty(Upto(i - 1)) = UpdateDifficulty(e)
      BY <3>2, <3>3, DifficultyFromBlocks
    <3> QED BY <3>1, <3>4 DEF MayFollow, NextDifficulty
  <2>3. /\ n = chain.count /\ chain.totalWork = chain.work /\ chain.lastHash = Tip(chain)
        /\ chain.blocks[1] = Genesis
    BY <2>1 DEF Sound, LinkedUpTo, Tip
  <2> QED BY <2>2, <2>3 DEF ChainLinked, DifficultyOf
<1>2. Spec => []ChainInv
  BY ChainInvInductive, PTL DEF Spec
<1> QED BY <1>1, <1>2, PTL

\* Always the total work, by which nodes choose between chains, is the sum of the
\* blocks' work, but for the work of at most one block for every crash.
THEOREM WorkIsSum == Spec => []WorkOfChain
<1>1. ChainInv => WorkOfChain
  <2> SUFFICES ASSUME ChainInv PROVE WorkOfChain
    OBVIOUS
  <2> DEFINE s == BlocksWork(chain.blocks, chain.numBlocks)
             k == crashes * MostWork
  <2>1. s \in Int /\ chain.totalWork \in Int /\ k \in Nat
    BY WorkOfLinked, MostIsMost DEF ChainInv, Sound
  <2>2. chain.totalWork - s <= k /\ -(chain.totalWork - s) <= k
    BY DEF ChainInv, Within, Off, Allowed
  <2> HIDE DEF s, k
  <2>3. Distance(chain.totalWork, s) <= k
    BY <2>1, <2>2 DEF Distance
  <2> QED BY <2>3 DEF WorkOfChain, s, k, BlocksWork, MostWork
<1>2. Spec => []ChainInv
  BY ChainInvInductive, PTL DEF Spec
<1> QED BY <1>1, <1>2, PTL
-------------------------------------------------------------------------------
(* Sums over the transactions of a block and the blocks of a chain.        *)

ChangesOf(b, w) == [i \in DOMAIN Ordered(b) |-> Change(b, i, w)]
GainUpTo(b, k, w) == SumFunctionOnSet(ChangesOf(b, w), 1 .. k)
MintsOf(b) == [i \in DOMAIN Ordered(b) |-> Mints(b, i)]
MintedUpTo(b, k) == SumFunctionOnSet(MintsOf(b), 1 .. k)

\* What a transaction changes is a number, what it mints a natural one.
LEMMA ChangeType ==
  ASSUME NEW b \in Block, NEW i \in DOMAIN Ordered(b), NEW w
  PROVE  /\ Ordered(b)[i] \in Tx /\ Change(b, i, w) \in Int /\ Mints(b, i) \in Nat
<1>1. Ordered(b)[i] \in Tx
  <2>1. Ordered(b) \in Seq(Tx)
    BY OrderedIsSeq
  <2> HIDE DEF Ordered
  <2> QED BY <2>1
<1>2. TxBody[Ordered(b)[i]].amount \in Nat /\ TxBody[Ordered(b)[i]].fees \in Nat
  BY <1>1, BodyType, ExecutorAssumption DEF Amount
<1> HIDE DEF Ordered
<1> QED BY <1>1, <1>2 DEF Change, Mints, When

\* The gain of a block, one transaction after the other.
LEMMA GainGrows ==
  ASSUME NEW b \in Block, NEW w
  PROVE  /\ GainUpTo(b, 0, w) = 0 /\ GainUpTo(b, Len(Ordered(b)), w) = GainOf(b, w)
         /\ GainOf(b, w) \in Int
         /\ \A k \in 1 .. Len(Ordered(b)) :
              /\ GainUpTo(b, k - 1, w) \in Int
              /\ GainUpTo(b, k, w) = GainUpTo(b, k - 1, w) + Change(b, k, w)
<1> DEFINE f == ChangesOf(b, w)
           len == Len(Ordered(b))
<1>1. Ordered(b) \in Seq(Tx)
  BY OrderedIsSeq
<1>2. len \in Nat /\ DOMAIN Ordered(b) = 1 .. len
  <2> HIDE DEF Ordered
  <2> QED BY <1>1
<1>3. DOMAIN f = 1 .. len /\ \A i \in 1 .. len : f[i] = Change(b, i, w) /\ f[i] \in Int
  BY <1>2, ChangeType DEF ChangesOf
<1>4. GainOf(b, w) = SumFunctionOnSet(f, 1 .. len)
  <2>1. GainOf(b, w) = SumFunction(f)
    BY DEF GainOf, ChangesOf
  <2> HIDE DEF f
  <2> QED BY <1>3, <2>1 DEF SumFunction
<1> HIDE DEF f, len
<1>5. ASSUME NEW k \in 1 .. len
      PROVE  /\ SumFunctionOnSet(f, 1 .. k - 1) \in Int
             /\ SumFunctionOnSet(f, 1 .. k) = SumFunctionOnSet(f, 1 .. k - 1) + f[k]
  <2>1. k - 1 \in Nat /\ (k - 1) + 1 = k /\ \A i \in 1 .. (k - 1) + 1 : f[i] \in Int
    BY <1>2, <1>3
  <2> QED BY <2>1, SumUpTo
<1>6. SumFunctionOnSet(f, 1 .. 0) = 0
  <2>1. 1 .. 0 = {}
    OBVIOUS
  <2> QED BY <2>1, SumOfEmpty
<1>7. SumFunctionOnSet(f, 1 .. len) \in Int
  BY <1>2, <1>3, SumIsInt, FS_Interval
<1> QED BY <1>3, <1>4, <1>5, <1>6, <1>7 DEF GainUpTo, f, len

\* So is what it mints, which is no less in the end than on the way.
LEMMA MintedGrows ==
  ASSUME NEW b \in Block
  PROVE  /\ MintedUpTo(b, 0) = 0 /\ MintedUpTo(b, Len(Ordered(b))) = Minted(b)
         /\ Minted(b) \in Nat
         /\ \A k \in 0 .. Len(Ordered(b)) : MintedUpTo(b, k) \in Nat /\ MintedUpTo(b, k) <= Minted(b)
         /\ \A k \in 1 .. Len(Ordered(b)) : MintedUpTo(b, k) = MintedUpTo(b, k - 1) + Mints(b, k)
<1> DEFINE f == MintsOf(b)
           len == Len(Ordered(b))
<1>1. Ordered(b) \in Seq(Tx)
  BY OrderedIsSeq
<1>2. len \in Nat /\ DOMAIN Ordered(b) = 1 .. len
  <2> HIDE DEF Ordered
  <2> QED BY <1>1
<1>3. DOMAIN f = 1 .. len /\ \A i \in 1 .. len : f[i] = Mints(b, i) /\ f[i] \in Nat
  <2>1. \A i \in DOMAIN Ordered(b) : Mints(b, i) \in Nat
    BY ChangeType
  <2> QED BY <1>2, <2>1 DEF MintsOf
<1>4. Minted(b) = SumFunctionOnSet(f, 1 .. len)
  <2>1. Minted(b) = SumFunction(f)
    BY DEF Minted, MintsOf
  <2> HIDE DEF f
  <2> QED BY <1>3, <2>1 DEF SumFunction
<1> HIDE DEF f, len
<1>5. ASSUME NEW k \in 1 .. len
      PROVE  SumFunctionOnSet(f, 1 .. k) = SumFunctionOnSet(f, 1 .. k - 1) + f[k]
  <2>1. k - 1 \in Nat /\ (k - 1) + 1 = k /\ \A i \in 1 .. (k - 1) + 1 : f[i] \in Int
    BY <1>2, <1>3
  <2> QED BY <2>1, SumUpTo
<1>6. SumFunctionOnSet(f, 1 .. 0) = 0
  <2>1. 1 .. 0 = {}
    OBVIOUS
  <2> QED BY <2>1, SumOfEmpty
<1>7. ASSUME NEW k \in 0 .. len
      PROVE  /\ SumFunctionOnSet(f, 1 .. k) \in Nat
             /\ SumFunctionOnSet(f, 1 .. k) <= SumFunctionOnSet(f, 1 .. len)
  <2>1. IsFiniteSet(1 .. len) /\ 1 .. k \in SUBSET (1 .. len)
    BY <1>2, FS_Interval
  <2>2. IsFiniteSet(1 .. k) /\ IsFiniteSet((1 .. len) \ (1 .. k))
    BY <2>1, FS_Subset
  <2>3. /\ SumFunctionOnSet(f, 1 .. k) \in Nat
        /\ SumFunctionOnSet(f, (1 .. len) \ (1 .. k)) \in Nat
    BY <1>3, <2>1, <2>2, SumIsNat
  <2>4. SumFunctionOnSet(f, 1 .. len)
          = SumFunctionOnSet(f, 1 .. k) + SumFunctionOnSet(f, (1 .. len) \ (1 .. k))
    <3> DEFINE whole == 1 .. len
               part == 1 .. k
    <3>1. \A i \in whole : f[i] \in Int
      BY <1>3
    <3>2. IsFiniteSet(whole) /\ part \in SUBSET whole
      BY <2>1
    <3> HIDE DEF whole, part
    <3>3. SumFunctionOnSet(f, whole) = SumFunctionOnSet(f, part) + SumFunctionOnSet(f, whole \ part)
      BY <3>1, <3>2, SumParts
    <3> QED BY <3>3 DEF whole, part
  <2> QED BY <2>3, <2>4
<1>8. SumFunctionOnSet(f, 1 .. len) \in Nat
  BY <1>2, <1>7
<1> QED BY <1>3, <1>4, <1>5, <1>6, <1>7, <1>8 DEF MintedUpTo, f, len

\* Balances, one block after the other.
LEMMA BalanceGrows ==
  ASSUME NEW n \in Nat, NEW blocks, \A i \in 1 .. n + 1 : blocks[i] \in Block, NEW w
  PROVE  /\ Balance(blocks, 0, w) = 0 /\ Balance(blocks, n, w) \in Int
         /\ GainOf(blocks[n + 1], w) \in Int
         /\ Balance(blocks, n + 1, w) = Balance(blocks, n, w) + GainOf(blocks[n + 1], w)
<1> DEFINE f == [i \in 1 .. n |-> GainOf(blocks[i], w)]
           g == [i \in 1 .. n + 1 |-> GainOf(blocks[i], w)]
           z == [i \in 1 .. 0 |-> GainOf(blocks[i], w)]
<1>1. /\ 1 .. n \subseteq 1 .. n + 1 /\ n + 1 \in 1 .. n + 1 /\ 1 .. 0 = {} /\ IsFiniteSet(1 .. n)
  BY FS_Interval
<1>2. \A i \in 1 .. n + 1 : GainOf(blocks[i], w) \in Int
  BY GainGrows
<1>3. \A i \in 1 .. n + 1 : g[i] = GainOf(blocks[i], w) /\ g[i] \in Int
  BY <1>2
<1>4. \A i \in 1 .. n : f[i] = g[i]
  BY <1>1
<1>5. /\ Balance(blocks, n, w) = SumFunctionOnSet(f, 1 .. n)
      /\ Balance(blocks, n + 1, w) = SumFunctionOnSet(g, 1 .. n + 1)
      /\ Balance(blocks, 0, w) = SumFunctionOnSet(z, 1 .. 0)
  BY DEF Balance, SumFunction
<1> HIDE DEF f, g, z
<1>6. /\ SumFunctionOnSet(g, 1 .. n) \in Int
      /\ SumFunctionOnSet(g, 1 .. n + 1) = SumFunctionOnSet(g, 1 .. n) + g[n + 1]
  BY <1>3, SumUpTo
<1>7. SumFunctionOnSet(f, 1 .. n) = SumFunctionOnSet(g, 1 .. n)
  BY <1>1, <1>3, <1>4, SumSame
<1>8. SumFunctionOnSet(z, 1 .. 0) = 0
  BY <1>1, SumOfEmpty
<1> QED BY <1>1, <1>3, <1>5, <1>6, <1>7, <1>8

\* What the blocks give out.
LEMMA SupplyGrows ==
  ASSUME NEW n \in Nat, NEW blocks, \A i \in 1 .. n + 1 : blocks[i] \in Block
  PROVE  /\ Supply(blocks, 0) = 0 /\ Supply(blocks, n) \in Nat
         /\ Minted(blocks[n + 1]) \in Nat
         /\ Supply(blocks, n + 1) = Supply(blocks, n) + Minted(blocks[n + 1])
<1> DEFINE f == [i \in 1 .. n |-> Minted(blocks[i])]
           g == [i \in 1 .. n + 1 |-> Minted(blocks[i])]
           z == [i \in 1 .. 0 |-> Minted(blocks[i])]
<1>1. /\ 1 .. n \subseteq 1 .. n + 1 /\ n + 1 \in 1 .. n + 1 /\ 1 .. 0 = {} /\ IsFiniteSet(1 .. n)
  BY FS_Interval
<1>2. \A i \in 1 .. n + 1 : Minted(blocks[i]) \in Nat
  BY MintedGrows
<1>3. \A i \in 1 .. n + 1 : g[i] = Minted(blocks[i]) /\ g[i] \in Nat
  BY <1>2
<1>4. \A i \in 1 .. n : f[i] = g[i]
  BY <1>1
<1>5. /\ Supply(blocks, n) = SumFunctionOnSet(f, 1 .. n)
      /\ Supply(blocks, n + 1) = SumFunctionOnSet(g, 1 .. n + 1)
      /\ Supply(blocks, 0) = SumFunctionOnSet(z, 1 .. 0)
  BY DEF Supply, SumFunction
<1> HIDE DEF f, g, z
<1>6. SumFunctionOnSet(g, 1 .. n + 1) = SumFunctionOnSet(g, 1 .. n) + g[n + 1]
  BY <1>3, SumUpTo
<1>7. SumFunctionOnSet(g, 1 .. n) \in Nat
  BY <1>1, <1>3, SumIsNat
<1>8. SumFunctionOnSet(f, 1 .. n) = SumFunctionOnSet(g, 1 .. n)
  BY <1>1, <1>3, <1>4, SumSame
<1>9. SumFunctionOnSet(z, 1 .. 0) = 0
  BY <1>1, SumOfEmpty
<1> QED BY <1>1, <1>3, <1>5, <1>6, <1>7, <1>8, <1>9

\* Both depend on the blocks that are counted only.
LEMMA SumsOfPart ==
  ASSUME NEW n \in Nat, NEW blocks, NEW other, \A i \in 1 .. n : other[i] = blocks[i]
  PROVE  /\ \A w : Balance(other, n, w) = Balance(blocks, n, w)
         /\ Supply(other, n) = Supply(blocks, n) /\ (Moderate(other, n) <=> Moderate(blocks, n))
<1>1. ASSUME NEW w PROVE Balance(other, n, w) = Balance(blocks, n, w)
  <2>1. [i \in 1 .. n |-> GainOf(other[i], w)] = [i \in 1 .. n |-> GainOf(blocks[i], w)]
    OBVIOUS
  <2> QED BY <2>1 DEF Balance
<1>2. Supply(other, n) = Supply(blocks, n)
  <2>1. [i \in 1 .. n |-> Minted(other[i])] = [i \in 1 .. n |-> Minted(blocks[i])]
    OBVIOUS
  <2> QED BY <2>1 DEF Supply
<1> QED BY <1>1, <1>2 DEF Moderate

\* Amounts that stay moderate were so all the time.
LEMMA ModerateBefore ==
  ASSUME NEW n \in Nat, NEW blocks, \A i \in 1 .. n + 1 : blocks[i] \in Block,
         Moderate(blocks, n + 1)
  PROVE  Moderate(blocks, n)
<1>1. /\ Supply(blocks, n) \in Nat /\ Minted(blocks[n + 1]) \in Nat
      /\ Supply(blocks, n + 1) = Supply(blocks, n) + Minted(blocks[n + 1])
      /\ Supply(blocks, n + 1) < AmountLimit /\ AmountLimit \in Nat
  BY SupplyGrows, ExecutorAssumption DEF Moderate
<1>2. Supply(blocks, n) < AmountLimit
  <2> HIDE DEF Supply, Minted
  <2> QED BY <1>1
<1>3. 1 .. n \subseteq 1 .. n + 1
  OBVIOUS
<1> QED BY <1>2, <1>3 DEF Moderate

-------------------------------------------------------------------------------
(* What a block does to a wallet, modulo the limit of an amount.           *)

LEMMA RaisedMod ==
  ASSUME NEW s \in Int, NEW a \in Amount, NEW u, NEW w
  PROVE  Raised(u, w, s % AmountLimit, a) = (s + When(w = u, a)) % AmountLimit
<1>1. CASE u = w
  <2>1. a \in 0 .. AmountLimit - 1 /\ AmountLimit \in Nat \ {0}
    BY ExecutorAssumption DEF Amount
  <2>2. (s + a) % AmountLimit = IF (s % AmountLimit) + a < AmountLimit
                                THEN (s % AmountLimit) + a ELSE (s % AmountLimit) + a - AmountLimit
    BY <2>1, PlusMod
  <2> QED BY <1>1, <2>2, Zenon DEF Raised, When, Plus
<1>2. CASE u # w
  <2>1. s + 0 = s
    OBVIOUS
  <2> QED BY <1>2, <2>1, Zenon DEF Raised, When
<1> QED BY <1>1, <1>2

LEMMA LoweredMod ==
  ASSUME NEW s \in Int, NEW a \in Amount, NEW u, NEW w
  PROVE  Lowered(u, w, s % AmountLimit, a) = (s - When(w = u, a)) % AmountLimit
<1>1. CASE u = w
  <2>1. a \in 0 .. AmountLimit - 1 /\ a \in Int /\ AmountLimit \in Nat \ {0}
    BY ExecutorAssumption DEF Amount
  <2>2. (s - a) % AmountLimit = IF (a % AmountLimit) <= (s % AmountLimit)
          THEN (s % AmountLimit) - (a % AmountLimit)
          ELSE (s % AmountLimit) - (a % AmountLimit) + AmountLimit
    BY <2>1, MinusMod
  <2>3. a % AmountLimit = a
    <3>1. (0 * AmountLimit + a) % AmountLimit = a
      BY <2>1, ModUnique
    <3>2. 0 * AmountLimit + a = a
      BY <2>1
    <3> QED BY <3>1, <3>2
  <2> QED BY <1>1, <2>2, <2>3, Zenon DEF Lowered, When, Minus
<1>2. CASE u # w
  <2>1. s - 0 = s
    OBVIOUS
  <2> QED BY <1>2, <2>1, Zenon DEF Lowered, When
<1> QED BY <1>1, <1>2

\* From one wallet to another.
LEMMA ShiftMod ==
  ASSUME NEW s \in Int, NEW a \in Amount, NEW u, NEW from, NEW to
  PROVE  /\ s - When(from = u, a) + When(to = u, a) \in Int
         /\ Shift(u, from, to, s % AmountLimit, a)
              = (s - When(from = u, a) + When(to = u, a)) % AmountLimit
<1>1. s - When(from = u, a) \in Int /\ When(to = u, a) \in Int
  BY ExecutorAssumption DEF Amount, When
<1>2. Lowered(u, from, s % AmountLimit, a) = (s - When(from = u, a)) % AmountLimit
  BY LoweredMod
<1>3. Raised(u, to, (s - When(from = u, a)) % AmountLimit, a)
        = (s - When(from = u, a) + When(to = u, a)) % AmountLimit
  BY <1>1, RaisedMod
<1>4. s - When(from = u, a) + When(to = u, a) \in Int
  BY <1>1
<1> QED BY <1>2, <1>3, <1>4, Zenon DEF Shift

\* What a transaction changes of the wallet u, in a block with this id and this miner.
Delta(t, m, id, u) ==
  LET rec == When(TxBody[t].to = u, TxBody[t].amount)
  IN  IF TxBody[t].fee \/ id = 1 THEN rec
      ELSE rec - When(TxBody[t].from = u, TxBody[t].amount + TxBody[t].fees) + When(m = u, TxBody[t].fees)

\* A transaction changes every wallet by its Delta, and undoing it changes it back.
LEMMA MovedMod ==
  ASSUME NEW t \in Tx, NEW m, NEW id, NEW u, NEW s \in Int
  PROVE  /\ Moved(t, m, id, u, s % AmountLimit) = (s + Delta(t, m, id, u)) % AmountLimit
         /\ id # 1 => Backward(t, m, u, s % AmountLimit) = (s - Delta(t, m, id, u)) % AmountLimit
<1> DEFINE body == TxBody[t]
           rec == When(body.to = u, body.amount)
           gave == When(body.from = u, body.amount)
           paid == When(body.from = u, body.fees)
           earned == When(m = u, body.fees)
           both == When(body.from = u, body.amount + body.fees)
           d == Delta(t, m, id, u)
<1>1. body.amount \in Amount /\ body.fees \in Amount
  BY BodyType
<1>2. d = IF body.fee \/ id = 1 THEN rec ELSE rec - both + earned
  BY Zenon DEF Delta
<1>3. /\ rec \in Int /\ gave \in Int /\ paid \in Int /\ earned \in Int /\ both = gave + paid
      /\ body.fees = 0 => paid = 0 /\ earned = 0
  <2> HIDE DEF body
  <2> QED BY <1>1, ExecutorAssumption DEF Amount, When
<1>4. ASSUME NEW r \in Int
      PROVE  /\ Raised(u, body.to, r % AmountLimit, body.amount) = (r + rec) % AmountLimit
             /\ Lowered(u, body.to, r % AmountLimit, body.amount) = (r - rec) % AmountLimit
             /\ Sent(t, u, r % AmountLimit) = (r - gave + rec) % AmountLimit
             /\ Unsent(t, u, r % AmountLimit) = (r - rec + gave) % AmountLimit
             /\ Charged(t, m, u, r % AmountLimit) = (r - paid + earned) % AmountLimit
             /\ Uncharged(t, m, u, r % AmountLimit) = (r - earned + paid) % AmountLimit
  <2>1. /\ Raised(u, body.to, r % AmountLimit, body.amount) = (r + rec) % AmountLimit
        /\ Lowered(u, body.to, r % AmountLimit, body.amount) = (r - rec) % AmountLimit
    BY <1>1, RaisedMod, LoweredMod
  <2>2. /\ Shift(u, body.from, body.to, r % AmountLimit, body.amount) = (r - gave + rec) % AmountLimit
        /\ Shift(u, body.to, body.from, r % AmountLimit, body.amount) = (r - rec + gave) % AmountLimit
        /\ Shift(u, body.from, m, r % AmountLimit, body.fees) = (r - paid + earned) % AmountLimit
        /\ Shift(u, m, body.from, r % AmountLimit, body.fees) = (r - earned + paid) % AmountLimit
    BY <1>1, ShiftMod
  <2> HIDE DEF rec, gave, paid, earned
  <2> QED BY <2>1, <2>2 DEF Sent, Unsent, Charged, Uncharged
<1> HIDE DEF rec, gave, paid, earned, both, d
<1>5. /\ s - gave + rec \in Int /\ s - rec + gave \in Int
      /\ s - gave + rec - paid + earned = s + (rec - both + earned)
      /\ s - rec + gave - earned + paid = s - (rec - both + earned)
      /\ body.fees = 0 => /\ s - gave + rec = s + (rec - both + earned)
                          /\ s - rec + gave = s - (rec - both + earned)
  <2> HIDE DEF body
  <2> QED BY <1>3
<1>6. CASE body.fee \/ id = 1
  <2>1. /\ Raised(u, body.to, s % AmountLimit, body.amount) = (s + d) % AmountLimit
        /\ Lowered(u, body.to, s % AmountLimit, body.amount) = (s - d) % AmountLimit
    BY <1>2, <1>4, <1>6
  <2> QED BY <1>6, <2>1, Zenon DEF Moved, Forward, Backward, d
<1>7. CASE ~(body.fee \/ id = 1)
  <2>1. d = rec - both + earned
    BY <1>2, <1>7
  <2>2. CASE body.fees = 0
    <3>1. Sent(t, u, s % AmountLimit) = (s + d) % AmountLimit
      BY <1>4, <1>5, <2>1, <2>2, Zenon
    <3>2. Unsent(t, u, s % AmountLimit) = (s - d) % AmountLimit
      BY <1>4, <1>5, <2>1, <2>2, Zenon
    <3> QED BY <1>7, <2>2, <3>1, <3>2, Zenon DEF Moved, Forward, Backward, d
  <2>3. CASE body.fees # 0
    <3>1. Charged(t, m, u, Sent(t, u, s % AmountLimit)) = (s + d) % AmountLimit
      <4> DEFINE q == s - gave + rec
      <4>0. Sent(t, u, s % AmountLimit) = q % AmountLimit
        BY <1>4, Zenon
      <4>1. q \in Int /\ q - paid + earned = s + d
        BY <1>3, <2>1
      <4> HIDE DEF q
      <4>2. Charged(t, m, u, q % AmountLimit) = (q - paid + earned) % AmountLimit
        BY <1>4, <4>1, Zenon
      <4> QED BY <4>0, <4>1, <4>2, Zenon
    <3>2. Uncharged(t, m, u, Unsent(t, u, s % AmountLimit)) = (s - d) % AmountLimit
      <4> DEFINE q == s - rec + gave
      <4>0. Unsent(t, u, s % AmountLimit) = q % AmountLimit
        BY <1>4, Zenon
      <4>1. q \in Int /\ q - earned + paid = s - d
        BY <1>3, <2>1
      <4> HIDE DEF q
      <4>2. Uncharged(t, m, u, q % AmountLimit) = (q - earned + paid) % AmountLimit
        BY <1>4, <4>1, Zenon
      <4> QED BY <4>0, <4>1, <4>2, Zenon
    <3> QED BY <1>7, <2>3, <3>1, <3>2, Zenon DEF Moved, Forward, Backward, d
  <2> QED BY <2>2, <2>3
<1> QED BY <1>6, <1>7 DEF d

\* For the transaction of a block that is its Change.
LEMMA ChangeIsDelta ==
  ASSUME NEW b, NEW i, NEW u
  PROVE  Change(b, i, u) = Delta(Ordered(b)[i], Miner(Ordered(b)), BlockBody[b].id, u)
BY Zenon DEF Change, Delta

-------------------------------------------------------------------------------
(* What executing and undoing a block does to the ledger.                  *)

\* The block b was executed on the ledger l as far as its k-th transaction, without a
\* failure, to x.
Reaches(b, l, fee, k, x) ==
  /\ x = Executed(Ordered(b), k, BlockBody[b].id, l, fee)
  /\ k \in 0 .. Len(Ordered(b)) /\ x.status = "SUCCESS"

\* As long as the execution succeeds, every wallet has what it had and its gain so far.
LEMMA ExecutedValues ==
  ASSUME NEW b, NEW l, NEW fee, NEW u, NEW s, NEW j, NEW after, NEW v,
         b \in Block, AmountMap(l), s \in Int, ValueOf(l, u) = s % AmountLimit,
         Reaches(b, l, fee, j, after), v = s + GainUpTo(b, j, u)
  PROVE  ValueOf(after.ledger, u) = v % AmountLimit
<1> DEFINE txs == Ordered(b)
           len == Len(txs)
           id == BlockBody[b].id
           m == Miner(txs)
           x(k) == Executed(txs, k, id, l, fee)
           P(k) == x(k).status = "SUCCESS" =>
                     ValueOf(x(k).ledger, u) = (s + GainUpTo(b, k, u)) % AmountLimit
           G == {n \in Nat : n <= len => P(n)}
<1>1. txs \in Seq(Tx) /\ len \in Nat /\ \A k \in 1 .. len : txs[k] \in Tx /\ k \in DOMAIN txs
  <2>1. txs \in Seq(Tx)
    BY OrderedIsSeq
  <2> HIDE DEF txs
  <2> QED BY <2>1
<1>2. /\ x(0) = Begin(l)
      /\ \A k \in 1 .. len : x(k).status = "SUCCESS" =>
           /\ x(k - 1).status = "SUCCESS"
           /\ ValueOf(x(k).ledger, u) = Moved(txs[k], m, id, u, ValueOf(x(k - 1).ledger, u))
  <2>1. x(0) = Begin(l)
    <3>1. txs \in Seq(Tx) /\ 0 \in 0 .. Len(txs)
      BY <1>1
    <3> HIDE DEF txs
    <3> QED BY <3>1, ExecutedSteps
  <2>2. ASSUME NEW k \in 1 .. len, x(k).status = "SUCCESS"
        PROVE  /\ x(k - 1).status = "SUCCESS"
               /\ ValueOf(x(k).ledger, u) = Moved(txs[k], m, id, u, ValueOf(x(k - 1).ledger, u))
    <3> DEFINE now == x(k)
               before == x(k - 1)
    <3>1. txs \in Seq(Tx) /\ k \in 1 .. Len(txs)
      BY <1>1
    <3>2. now = Executed(txs, k, id, l, fee) /\ before = Executed(txs, k - 1, id, l, fee)
      OBVIOUS
    <3>3. now.status = "SUCCESS"
      BY <2>2
    <3> DEFINE t == txs[k]
               miner == Miner(txs)
    <3>4. k - 1 \in 0 .. Len(txs) /\ k \in 0 .. Len(txs) /\ k # 0 /\ t \in Tx
      BY <1>1
    <3> HIDE DEF txs, id, x, now, before
    <3>5. Explains(before, l)
      BY <3>1, <3>2, <3>4, ExecutedExplains
    <3>6. now = ExecuteNext(before, t, miner, fee, id)
      BY <3>1, <3>2, <3>4, ExecutedSteps
    <3> HIDE DEF t, miner
    <3>7. /\ before.status = "SUCCESS"
          /\ \A w : ValueOf(now.ledger, w) = Moved(t, miner, id, w, ValueOf(before.ledger, w))
      BY <3>3, <3>4, <3>5, <3>6, ExecuteExplains
    <3> QED BY <3>7 DEF now, before, t, miner, m
  <2> HIDE DEF x, txs, id, m
  <2> QED BY <2>1, <2>2
<1>3. P(0)
  <2>1. s + 0 = s /\ GainUpTo(b, 0, u) = 0
    BY GainGrows
  <2> QED BY <1>2, <2>1 DEF Begin
<1>4. ASSUME NEW k \in 1 .. len, P(k - 1), x(k).status = "SUCCESS"
      PROVE  ValueOf(x(k).ledger, u) = (s + GainUpTo(b, k, u)) % AmountLimit
  <2> DEFINE q == s + GainUpTo(b, k - 1, u)
  <2>1. ValueOf(x(k - 1).ledger, u) = q % AmountLimit
    BY <1>2, <1>4
  <2>2. /\ GainUpTo(b, k - 1, u) \in Int /\ q \in Int /\ Change(b, k, u) \in Int
        /\ GainUpTo(b, k, u) = GainUpTo(b, k - 1, u) + Change(b, k, u)
    <3>1. k \in 1 .. Len(Ordered(b)) /\ k \in DOMAIN Ordered(b)
      BY <1>1
    <3>2. /\ GainUpTo(b, k - 1, u) \in Int
          /\ GainUpTo(b, k, u) = GainUpTo(b, k - 1, u) + Change(b, k, u)
      BY <3>1, GainGrows
    <3>3. Change(b, k, u) \in Int
      BY <3>1, ChangeType
    <3> QED BY <3>2, <3>3
  <2>3. q + Change(b, k, u) = s + GainUpTo(b, k, u)
    BY <2>2
  <2>4. Change(b, k, u) = Delta(txs[k], m, id, u)
    BY ChangeIsDelta
  <2> HIDE DEF q, m, id, txs
  <2>5. Moved(txs[k], m, id, u, q % AmountLimit) = (q + Delta(txs[k], m, id, u)) % AmountLimit
    BY <1>1, <2>2, MovedMod
  <2>6. ValueOf(x(k).ledger, u) = Moved(txs[k], m, id, u, q % AmountLimit)
    BY <1>2, <1>4, <2>1
  <2> QED BY <2>3, <2>4, <2>5, <2>6
<1> HIDE DEF x, txs
<1>5. \A n \in 0 .. len : P(n)
  <2>1. 0 \in G
    BY <1>3
  <2>2. ASSUME NEW n \in Nat, n \in G
        PROVE  n + 1 \in G
    <3> SUFFICES ASSUME n + 1 <= len PROVE P(n + 1)
      OBVIOUS
    <3>1. n + 1 \in 1 .. len /\ (n + 1) - 1 = n /\ P(n)
      BY <1>1, <2>2
    <3> QED BY <1>4, <3>1
  <2>3. Nat \subseteq G
    <3> HIDE DEF G
    <3> QED BY <2>1, <2>2, SetInduction
  <2> HIDE DEF P
  <2> QED BY <1>1, <2>3
<1>6. j \in 0 .. len /\ after = x(j) /\ after.status = "SUCCESS"
  BY DEF x, txs, Reaches
<1>7. ValueOf(x(j).ledger, u) = (s + GainUpTo(b, j, u)) % AmountLimit
  BY <1>5, <1>6
<1> QED BY <1>6, <1>7

\* Undoing gives amounts.
LEMMA BackwardType ==
  ASSUME NEW t \in Tx, NEW m, NEW u, NEW v \in Amount
  PROVE  Backward(t, m, u, v) \in Amount
<1> DEFINE b == TxBody[t]
<1>1. b.amount \in Amount /\ b.fees \in Amount
  BY BodyType
<1>2. Lowered(u, b.to, v, b.amount) \in Amount /\ Unsent(t, u, v) \in Amount
  <2> HIDE DEF b
  <2> QED BY <1>1, AddType, ShiftBack DEF Unsent, b
<1>3. Uncharged(t, m, u, Unsent(t, u, v)) \in Amount
  BY <1>1, <1>2, ShiftBack DEF Uncharged
<1> QED BY <1>2, <1>3, Zenon DEF Backward

\* When a block is undone, every wallet loses its gain.
LEMMA UndoneValues ==
  ASSUME NEW b \in Block, BlockBody[b].id # 1, NEW l, AmountMap(l), NEW d,
         NEW u, NEW s \in Int, ValueOf(l, u) = s % AmountLimit
  PROVE  ValueOf(RollbackBlock(Ordered(b), l, d).ledger, u) = (s - GainOf(b, u)) % AmountLimit
<1> DEFINE txs == Ordered(b)
           len == Len(txs)
           id == BlockBody[b].id
           m == Miner(txs)
           y(k) == RollbackFrom(txs, k, l, d).ledger
           gained(k) == GainUpTo(b, k, u)
           left(k) == s - (GainOf(b, u) - gained(k - 1))
           P(k) == AmountMap(y(k)) /\ ValueOf(y(k), u) = left(k) % AmountLimit
           G == {n \in Nat : n <= len => P(len + 1 - n)}
<1>1. txs \in Seq(Tx) /\ len \in Nat /\ \A k \in 1 .. len : txs[k] \in Tx /\ k \in DOMAIN txs
  <2>1. txs \in Seq(Tx)
    BY OrderedIsSeq
  <2> HIDE DEF txs
  <2> QED BY <2>1
<1>2. /\ y(len + 1) = l
      /\ \A k \in 1 .. len : y(k) = RollbackLedger(y(k + 1), txs[k], m)
  <2>1. txs \in Seq(Tx)
    BY <1>1
  <2> HIDE DEF txs
  <2>2. \A k \in 1 .. len + 1 : y(k) = IF k > len THEN l ELSE RollbackLedger(y(k + 1), txs[k], m)
    BY <2>1, UndoneSteps
  <2>3. len + 1 \in 1 .. len + 1 /\ len + 1 > len /\ \A k \in 1 .. len : k \in 1 .. len + 1 /\ ~(k > len)
    BY <1>1
  <2> HIDE DEF y, m, len
  <2> QED BY <2>2, <2>3
<1>3. /\ GainOf(b, u) \in Int /\ gained(len) = GainOf(b, u) /\ gained(0) = 0
      /\ \A k \in 1 .. len : gained(k - 1) \in Int /\ gained(k) = gained(k - 1) + Change(b, k, u)
      /\ \A k \in 1 .. len : Change(b, k, u) \in Int
  <2>1. /\ GainOf(b, u) \in Int /\ gained(len) = GainOf(b, u) /\ gained(0) = 0
        /\ \A k \in 1 .. len : gained(k - 1) \in Int /\ gained(k) = gained(k - 1) + Change(b, k, u)
    BY GainGrows
  <2>2. \A k \in 1 .. len : Change(b, k, u) \in Int
    BY <1>1, ChangeType
  <2> QED BY <2>1, <2>2
<1> HIDE DEF gained
<1>4. P(len + 1)
  <2>1. (len + 1) - 1 = len
    BY <1>1
  <2>2. left(len + 1) = s
    BY <1>3, <2>1
  <2> HIDE DEF left, y, len
  <2> QED BY <1>2, <2>2
<1>5. ASSUME NEW k \in 1 .. len, P(k + 1)
      PROVE  P(k)
  <2> DEFINE q == left(k + 1)
  <2>1. q \in Int /\ Change(b, k, u) \in Int /\ left(k) = q - Change(b, k, u)
    <3>1. (k + 1) - 1 = k /\ Change(b, k, u) \in Int /\ gained(k - 1) \in Int /\ GainOf(b, u) \in Int
          /\ gained(k) = gained(k - 1) + Change(b, k, u)
      BY <1>1, <1>3
    <3> QED BY <3>1
  <2>2. AmountMap(y(k + 1)) /\ ValueOf(y(k + 1), u) = q % AmountLimit
    BY <1>5
  <2>3. \A w : ValueOf(y(k), w) = Backward(txs[k], m, w, ValueOf(y(k + 1), w))
    <3>1. y(k) = RollbackLedger(y(k + 1), txs[k], m) /\ txs[k] \in Tx
      BY <1>1, <1>2
    <3> HIDE DEF txs, m, y
    <3> QED BY <2>2, <3>1, RollbackValue
  <2> HIDE DEF q, y, left
  <2>4. AmountMap(y(k))
    <3>1. txs[k] \in Tx
      BY <1>1
    <3> HIDE DEF txs, m
    <3> QED BY <2>2, <2>3, <3>1, BackwardType DEF AmountMap
  <2>5. Change(b, k, u) = Delta(txs[k], m, id, u)
    BY ChangeIsDelta
  <2>6. Backward(txs[k], m, u, q % AmountLimit) = (q - Delta(txs[k], m, id, u)) % AmountLimit
    <3>1. txs[k] \in Tx /\ id # 1
      BY <1>1
    <3> HIDE DEF txs, m, id
    <3> QED BY <2>1, <3>1, MovedMod
  <2> HIDE DEF txs, m, id
  <2> QED BY <2>1, <2>2, <2>3, <2>4, <2>5, <2>6
<1>6. P(1)
  <2> HIDE DEF P
  <2>1. 0 \in G
    <3>1. len + 1 - 0 = len + 1
      BY <1>1
    <3> HIDE DEF len
    <3> QED BY <1>4, <3>1
  <2>2. ASSUME NEW n \in Nat, n \in G
        PROVE  n + 1 \in G
    <3> SUFFICES ASSUME n + 1 <= len PROVE P(len + 1 - (n + 1))
      OBVIOUS
    <3> DEFINE k == len + 1 - (n + 1)
    <3>1. k \in 1 .. len /\ k + 1 = len + 1 - n /\ n <= len
      BY <1>1
    <3>2. P(k + 1)
      BY <2>2, <3>1
    <3> HIDE DEF k
    <3>3. P(k)
      BY <1>5, <3>1, <3>2
    <3> QED BY <3>3 DEF k
  <2>3. len \in G /\ len + 1 - len = 1
    <3>1. Nat \subseteq G
      <4> HIDE DEF G
      <4> QED BY <2>1, <2>2, SetInduction
    <3> HIDE DEF G
    <3> QED BY <1>1, <3>1
  <2> HIDE DEF len
  <2> QED BY <1>1, <2>3
<1>7. left(1) = s - GainOf(b, u)
  <2>1. 1 - 1 = 0 /\ GainOf(b, u) - 0 = GainOf(b, u)
    BY <1>3
  <2> QED BY <1>3, <2>1
<1> HIDE DEF left
<1> QED BY <1>6, <1>7 DEF RollbackBlock


-------------------------------------------------------------------------------
(* What a block gives to all wallets together.                             *)

LEMMA SumOfWhen ==
  ASSUME NEW a \in Wallet, NEW v \in Int
  PROVE  SumFunctionOnSet([w \in Wallet |-> When(a = w, v)], Wallet) = v
<1> DEFINE f == [w \in Wallet |-> When(a = w, v)]
<1>1. f[a] = v /\ \A w \in Wallet \ {a} : f[w] = 0
  BY DEF When
<1> HIDE DEF f
<1>2. SumFunctionOnSet(f, Wallet) = f[a]
  BY <1>1, BlockChainAssumption, SumOfOne
<1> QED BY <1>1, <1>2 DEF f

\* A transaction gives them what it mints.
LEMMA ChangesSum ==
  ASSUME NEW b \in Block, FeeTxs(Ordered(b)) # {}, NEW k \in DOMAIN Ordered(b)
  PROVE  SumFunctionOnSet([w \in Wallet |-> Change(b, k, w)], Wallet) = Mints(b, k)
<1> DEFINE t == TxBody[Ordered(b)[k]]
           m == Miner(Ordered(b))
           rec == [w \in Wallet |-> When(t.to = w, t.amount)]
           gave == [w \in Wallet |-> When(t.from = w, 0 - (t.amount + t.fees))]
           earned == [w \in Wallet |-> When(m = w, t.fees)]
           most == [w \in Wallet |-> rec[w] + gave[w]]
           all == [w \in Wallet |-> Change(b, k, w)]
<1>1. /\ t.to \in Wallet /\ t.from \in Wallet /\ m \in Wallet
      /\ t.amount \in Int /\ t.fees \in Int
  <2>1. Ordered(b)[k] \in Tx
    BY ChangeType
  <2>2. t \in Transaction
    BY <2>1, ExecutorAssumption
  <2>3. m \in Wallet
    <3>1. Ordered(b) \in Seq(Tx)
      BY OrderedIsSeq
    <3> QED BY <3>1, MinerIsWallet
  <2> HIDE DEF t, m
  <2> QED BY <2>2, <2>3, ExecutorAssumption DEF Transaction, Amount
<1> HIDE DEF t, m
<1>2. /\ SumFunctionOnSet(rec, Wallet) = t.amount
      /\ SumFunctionOnSet(gave, Wallet) = 0 - (t.amount + t.fees)
      /\ SumFunctionOnSet(earned, Wallet) = t.fees
  <2>1. 0 - (t.amount + t.fees) \in Int
    BY <1>1
  <2> QED BY <1>1, <2>1, SumOfWhen
<1>3. \A w \in Wallet : rec[w] \in Int /\ gave[w] \in Int /\ earned[w] \in Int
  BY <1>1 DEF When
<1>4. CASE t.fee \/ BlockBody[b].id = 1
  <2>1. all = rec /\ Mints(b, k) = t.amount
    BY <1>4 DEF Change, Mints, When, t
  <2> QED BY <1>2, <2>1
<1>5. CASE ~(t.fee \/ BlockBody[b].id = 1)
  <2>1. \A w \in Wallet : Change(b, k, w) = rec[w] - When(t.from = w, t.amount + t.fees) + earned[w]
    BY <1>5 DEF Change, When, t, m
  <2>2. \A w \in Wallet : all[w] = most[w] + earned[w] /\ most[w] = rec[w] + gave[w] /\ most[w] \in Int
    BY <1>1, <1>3, <2>1 DEF When
  <2>3. Mints(b, k) = 0
    BY <1>5, Zenon DEF Mints, When, t
  <2> HIDE DEF rec, gave, earned, most, all
  <2>4. SumFunctionOnSet(most, Wallet) = SumFunctionOnSet(rec, Wallet) + SumFunctionOnSet(gave, Wallet)
    BY <1>3, <2>2, BlockChainAssumption, SumPlus
  <2>5. SumFunctionOnSet(all, Wallet) = SumFunctionOnSet(most, Wallet) + SumFunctionOnSet(earned, Wallet)
    BY <1>3, <2>2, BlockChainAssumption, SumPlus
  <2>6. SumFunctionOnSet(all, Wallet) = 0
    BY <1>1, <1>2, <2>4, <2>5
  <2> QED BY <2>3, <2>6 DEF all
<1> QED BY <1>4, <1>5

\* And its first transactions what they mint.
LEMMA GainsSum ==
  ASSUME NEW b \in Block, FeeTxs(Ordered(b)) # {}
  PROVE  \A k \in 0 .. Len(Ordered(b)) :
           SumFunctionOnSet([w \in Wallet |-> GainUpTo(b, k, w)], Wallet) = MintedUpTo(b, k)
<1> DEFINE len == Len(Ordered(b))
           f(k) == [w \in Wallet |-> GainUpTo(b, k, w)]
           P(k) == SumFunctionOnSet(f(k), Wallet) = MintedUpTo(b, k)
           G == {n \in Nat : n <= len => P(n)}
<1>1. len \in Nat /\ \A k \in 1 .. len : k \in DOMAIN Ordered(b) /\ k - 1 \in 0 .. len
  <2>1. Ordered(b) \in Seq(Tx)
    BY OrderedIsSeq
  <2> QED BY <2>1
<1>2. P(0)
  <2>1. \A w \in Wallet : f(0)[w] = 0
    BY GainGrows
  <2>2. \A w \in Wallet : f(0)[w] \in Int /\ f(0)[w] = f(0)[w] + f(0)[w]
    BY <2>1
  <2>3. MintedUpTo(b, 0) = 0
    BY MintedGrows
  <2>4. SumFunctionOnSet(f(0), Wallet) = 0
    <3>1. NullAddress \in Wallet
      BY ExecutorAssumption
    <3> DEFINE g == f(0)
    <3> HIDE DEF f
    <3> HIDE DEF g
    <3>2. SumFunctionOnSet(g, Wallet) = g[NullAddress]
      BY <2>1, <3>1, BlockChainAssumption, SumOfOne DEF g
    <3> QED BY <2>1, <3>1, <3>2 DEF g
  <2> QED BY <2>3, <2>4
<1>3. ASSUME NEW k \in 1 .. len, P(k - 1)
      PROVE  P(k)
  <2> DEFINE before == f(k - 1)
             step == [w \in Wallet |-> Change(b, k, w)]
             after == f(k)
  <2>1. \A w \in Wallet : /\ GainUpTo(b, k - 1, w) \in Int /\ Change(b, k, w) \in Int
                          /\ GainUpTo(b, k, w) = GainUpTo(b, k - 1, w) + Change(b, k, w)
    BY <1>1, GainGrows, ChangeType
  <2>2. \A w \in Wallet : /\ before[w] \in Int /\ step[w] \in Int
                          /\ after[w] = before[w] + step[w]
    BY <2>1
  <2>3. SumFunctionOnSet(step, Wallet) = Mints(b, k)
    BY <1>1, ChangesSum
  <2> HIDE DEF step, f, before, after
  <2>4. SumFunctionOnSet(after, Wallet) = SumFunctionOnSet(before, Wallet) + SumFunctionOnSet(step, Wallet)
    BY <2>2, BlockChainAssumption, SumPlus
  <2>5. MintedUpTo(b, k) = MintedUpTo(b, k - 1) + Mints(b, k)
    BY MintedGrows
  <2> QED BY <1>3, <2>3, <2>4, <2>5 DEF before, after
<1> HIDE DEF P
<1>4. 0 \in G
  BY <1>2
<1>5. ASSUME NEW n \in Nat, n \in G
      PROVE  n + 1 \in G
  <2> SUFFICES ASSUME n + 1 <= len PROVE P(n + 1)
    OBVIOUS
  <2>1. n + 1 \in 1 .. len /\ (n + 1) - 1 = n /\ P(n)
    BY <1>1, <1>5
  <2> QED BY <1>3, <2>1
<1>6. Nat \subseteq G
  <2> HIDE DEF G
  <2> QED BY <1>4, <1>5, SetInduction
<1>7. \A k \in 0 .. len : P(k)
  BY <1>1, <1>6
<1> QED BY <1>7 DEF P

\* A balance is an integer.
LEMMA BalanceType ==
  ASSUME NEW n \in Nat, NEW blocks, \A i \in 1 .. n : blocks[i] \in Block, NEW w
  PROVE  Balance(blocks, n, w) \in Int
<1>1. CASE n = 0
  <2> DEFINE z == [i \in 1 .. 0 |-> GainOf(blocks[i], w)]
  <2>1. 1 .. 0 = {}
    OBVIOUS
  <2>2. Balance(blocks, n, w) = SumFunctionOnSet(z, 1 .. 0)
    BY <1>1 DEF Balance, SumFunction
  <2> HIDE DEF z
  <2> QED BY <2>1, <2>2, SumOfEmpty
<1>2. CASE n # 0
  <2>1. n - 1 \in Nat /\ (n - 1) + 1 = n /\ n \in 1 .. n
    BY <1>2
  <2>2. /\ Balance(blocks, n - 1, w) \in Int /\ GainOf(blocks[n], w) \in Int
        /\ Balance(blocks, n, w) = Balance(blocks, n - 1, w) + GainOf(blocks[n], w)
    BY <2>1, BalanceGrows
  <2> QED BY <2>2
<1> QED BY <1>1, <1>2

\* The blocks of a chain: their ids count them, and each pays a miner.
HeldBlocks(blocks, n) ==
  \A i \in 1 .. n : blocks[i] \in Block /\ BlockBody[blocks[i]].id = i /\ FeeTxs(Ordered(blocks[i])) # {}

\* The balances sum up to what was minted.
LEMMA BalancesSum ==
  ASSUME NEW blocks, NEW n \in Nat, HeldBlocks(blocks, n)
  PROVE  SumFunctionOnSet([w \in Wallet |-> Balance(blocks, n, w)], Wallet) = Supply(blocks, n)
<1> DEFINE f(k) == [w \in Wallet |-> Balance(blocks, k, w)]
           P(k) == SumFunctionOnSet(f(k), Wallet) = Supply(blocks, k)
           G == {k \in Nat : k <= n => P(k)}
<1>1. \A i \in 1 .. n : blocks[i] \in Block /\ FeeTxs(Ordered(blocks[i])) # {}
  BY DEF HeldBlocks
<1>2. P(0)
  <2> DEFINE z == f(0)
             y == [i \in 1 .. 0 |-> Minted(blocks[i])]
  <2>1. \A w \in Wallet : z[w] = 0
    <3>1. ASSUME NEW w \in Wallet PROVE Balance(blocks, 0, w) = 0
      <4> DEFINE g == [i \in 1 .. 0 |-> GainOf(blocks[i], w)]
      <4>1. 1 .. 0 = {}
        OBVIOUS
      <4>2. Balance(blocks, 0, w) = SumFunctionOnSet(g, 1 .. 0)
        BY DEF Balance, SumFunction
      <4> HIDE DEF g
      <4> QED BY <4>1, <4>2, SumOfEmpty
    <3> QED BY <3>1
  <2>2. Supply(blocks, 0) = 0
    <3>1. 1 .. 0 = {} /\ Supply(blocks, 0) = SumFunctionOnSet(y, 1 .. 0)
      BY DEF Supply, SumFunction
    <3> HIDE DEF y
    <3> QED BY <3>1, SumOfEmpty
  <2>3. NullAddress \in Wallet
    BY ExecutorAssumption
  <2> HIDE DEF f
  <2> HIDE DEF z
  <2>4. SumFunctionOnSet(z, Wallet) = z[NullAddress]
    BY <2>1, <2>3, BlockChainAssumption, SumOfOne
  <2> QED BY <2>1, <2>2, <2>3, <2>4 DEF z
<1>3. ASSUME NEW k \in Nat, k + 1 <= n, P(k)
      PROVE  P(k + 1)
  <2> DEFINE b == blocks[k + 1]
             before == f(k)
             step == [w \in Wallet |-> GainUpTo(b, Len(Ordered(b)), w)]
             after == f(k + 1)
  <2>1. /\ k + 1 \in 1 .. n /\ \A i \in 1 .. k + 1 : blocks[i] \in Block
        /\ b \in Block /\ FeeTxs(Ordered(b)) # {}
    BY <1>1, <1>3
  <2>2. \A w \in Wallet : /\ Balance(blocks, k, w) \in Int /\ GainOf(b, w) \in Int
                          /\ Balance(blocks, k + 1, w) = Balance(blocks, k, w) + GainOf(b, w)
                          /\ GainUpTo(b, Len(Ordered(b)), w) = GainOf(b, w)
    BY <2>1, BalanceGrows, GainGrows
  <2>3. \A w \in Wallet : before[w] \in Int /\ step[w] \in Int /\ after[w] = before[w] + step[w]
    BY <2>2
  <2>4. SumFunctionOnSet(step, Wallet) = Minted(b)
    <3>1. Len(Ordered(b)) \in 0 .. Len(Ordered(b)) /\ MintedUpTo(b, Len(Ordered(b))) = Minted(b)
      <4>1. Ordered(b) \in Seq(Tx)
        BY <2>1, OrderedIsSeq
      <4>2. Len(Ordered(b)) \in 0 .. Len(Ordered(b))
        <5> DEFINE len == Len(Ordered(b))
        <5>1. len \in Nat
          BY <4>1
        <5> HIDE DEF len
        <5>2. len \in 0 .. len
          BY <5>1
        <5> QED BY <5>2 DEF len
      <4> QED BY <2>1, <4>2, MintedGrows
    <3> QED BY <2>1, <3>1, GainsSum
  <2> HIDE DEF step, f, before, after
  <2>5. SumFunctionOnSet(after, Wallet) = SumFunctionOnSet(before, Wallet) + SumFunctionOnSet(step, Wallet)
    BY <2>3, BlockChainAssumption, SumPlus
  <2>6. Supply(blocks, k + 1) = Supply(blocks, k) + Minted(b)
    BY <2>1, SupplyGrows
  <2> QED BY <1>3, <2>4, <2>5, <2>6 DEF before, after
<1> HIDE DEF P
<1>4. 0 \in G /\ \A k \in Nat : k \in G => k + 1 \in G
  BY <1>2, <1>3
<1>5. Nat \subseteq G
  <2> HIDE DEF G
  <2> QED BY <1>4, SetInduction
<1>6. P(n)
  BY <1>5
<1> QED BY <1>6 DEF P

-------------------------------------------------------------------------------
(* What the ledger and the transaction store say of the blocks.            *)

BalancesOf(ledger, blocks, n) == \A w : ValueOf(ledger, w) = Balance(blocks, n, w) % AmountLimit
StoreOf(txdb, blocks, n) ==
  /\ DOMAIN txdb = UNION {MinedIn(blocks[i]) : i \in 1 .. n}
  /\ \A i \in 1 .. n : \A t \in MinedIn(blocks[i]) : txdb[t] = i
PaidOf(blocks, n) ==
  \A i \in 1 .. n : Moderate(blocks, i) => \A w \in Wallet : Balance(blocks, i, w) >= 0

\* Such a ledger holds amounts.
LEMMA BalancesAreAmounts ==
  ASSUME NEW l, NEW blocks, NEW n \in Nat, HeldBlocks(blocks, n), BalancesOf(l, blocks, n)
  PROVE  AmountMap(l)
<1> SUFFICES ASSUME NEW w PROVE ValueOf(l, w) \in Amount
  BY DEF AmountMap
<1> DEFINE s == Balance(blocks, n, w)
<1>1. s \in Int
  BY BalanceType DEF HeldBlocks
<1>2. ValueOf(l, w) = s % AmountLimit
  BY DEF BalancesOf
<1> HIDE DEF s
<1>3. s % AmountLimit \in 0 .. AmountLimit - 1
  BY <1>1, ExecutorAssumption, ModForm
<1> QED BY <1>2, <1>3 DEF Amount

\* A number below the limit is its own remainder.
LEMMA SmallMod ==
  ASSUME NEW s \in Nat, s < AmountLimit
  PROVE  s % AmountLimit = s
<1>1. s \in 0 .. AmountLimit - 1 /\ AmountLimit \in Nat \ {0} /\ 0 * AmountLimit + s = s
  BY ExecutorAssumption
<1> QED BY <1>1, ModUnique

\* Balances that are not negative are small as long as the amounts are moderate.
LEMMA BalancesAreSmall ==
  ASSUME NEW blocks, NEW n \in Nat, HeldBlocks(blocks, n), Moderate(blocks, n),
         \A w \in Wallet : Balance(blocks, n, w) >= 0, NEW w \in Wallet
  PROVE  /\ Balance(blocks, n, w) \in Nat /\ Balance(blocks, n, w) < AmountLimit
         /\ Balance(blocks, n, w) % AmountLimit = Balance(blocks, n, w)
<1> DEFINE f == [u \in Wallet |-> Balance(blocks, n, u)]
<1>1. \A u \in Wallet : f[u] \in Nat
  BY BalanceType DEF HeldBlocks
<1>2. SumFunctionOnSet(f, Wallet) = Supply(blocks, n) /\ Supply(blocks, n) < AmountLimit
  BY BalancesSum DEF Moderate
<1>3. f[w] = Balance(blocks, n, w)
  OBVIOUS
<1> HIDE DEF f
<1>4. f[w] <= SumFunctionOnSet(f, Wallet) /\ SumFunctionOnSet(f, Wallet) \in Nat
  BY <1>1, BlockChainAssumption, SumBounds, SumIsNat
<1>5. f[w] \in Nat /\ f[w] < AmountLimit
  BY <1>1, <1>2, <1>4, ExecutorAssumption
<1>6. f[w] % AmountLimit = f[w]
  BY <1>5, SmallMod
<1> QED BY <1>3, <1>5, <1>6

\* What a wallet has while the block b is executed.
Held(blocks, n, b, k, w) == Balance(blocks, n, w) + GainUpTo(b, k, w)

\* It is small while the amounts of the chain with b are moderate.
LEMMA HeldIsSmall ==
  ASSUME NEW blocks, NEW n \in Nat, HeldBlocks(blocks, n + 1), Moderate(blocks, n + 1),
         NEW k \in 0 .. Len(Ordered(blocks[n + 1])),
         \A u \in Wallet : Held(blocks, n, blocks[n + 1], k, u) \in Nat, NEW w \in Wallet
  PROVE  Held(blocks, n, blocks[n + 1], k, w) < AmountLimit
<1> DEFINE b == blocks[n + 1]
           f == [u \in Wallet |-> Balance(blocks, n, u)]
           g == [u \in Wallet |-> GainUpTo(b, k, u)]
           h == [u \in Wallet |-> Held(blocks, n, b, k, u)]
<1>1. /\ b \in Block /\ FeeTxs(Ordered(b)) # {} /\ HeldBlocks(blocks, n)
      /\ \A i \in 1 .. n + 1 : blocks[i] \in Block
  BY DEF HeldBlocks
<1>2. ASSUME NEW u \in Wallet
      PROVE  Balance(blocks, n, u) \in Int /\ GainUpTo(b, k, u) \in Int
  <2>1. Balance(blocks, n, u) \in Int
    BY <1>1, BalanceGrows
  <2>2. GainUpTo(b, k, u) \in Int
    <3>1. Ordered(b) \in Seq(Tx)
      BY <1>1, OrderedIsSeq
    <3>2. CASE k = 0
      BY <1>1, <3>2, GainGrows
    <3>3. CASE k # 0
      <4>1. k \in 1 .. Len(Ordered(b)) /\ k \in DOMAIN Ordered(b)
        BY <3>1, <3>3
      <4>2. /\ GainUpTo(b, k - 1, u) \in Int
            /\ GainUpTo(b, k, u) = GainUpTo(b, k - 1, u) + Change(b, k, u)
        BY <1>1, <4>1, GainGrows
      <4>3. Change(b, k, u) \in Int
        BY <1>1, <4>1, ChangeType
      <4> QED BY <4>2, <4>3
    <3> QED BY <3>2, <3>3
  <2> QED BY <2>1, <2>2
<1>3. \A u \in Wallet : f[u] \in Int /\ g[u] \in Int /\ h[u] = f[u] + g[u] /\ h[u] \in Nat
  BY <1>2 DEF Held
<1>4. /\ SumFunctionOnSet(f, Wallet) = Supply(blocks, n)
      /\ SumFunctionOnSet(g, Wallet) = MintedUpTo(b, k)
  BY <1>1, BalancesSum, GainsSum
<1>5. /\ Supply(blocks, n) \in Nat /\ MintedUpTo(b, k) \in Nat /\ MintedUpTo(b, k) <= Minted(b)
      /\ Supply(blocks, n + 1) = Supply(blocks, n) + Minted(b) /\ Minted(b) \in Nat
      /\ Supply(blocks, n + 1) < AmountLimit
  BY <1>1, SupplyGrows, MintedGrows DEF Moderate
<1>6. h[w] = Held(blocks, n, b, k, w)
  OBVIOUS
<1> HIDE DEF f, g, h
<1>7. SumFunctionOnSet(h, Wallet) = SumFunctionOnSet(f, Wallet) + SumFunctionOnSet(g, Wallet)
  BY <1>3, BlockChainAssumption, SumPlus
<1>8. h[w] <= SumFunctionOnSet(h, Wallet) /\ SumFunctionOnSet(h, Wallet) \in Nat /\ h[w] \in Nat
  BY <1>3, BlockChainAssumption, SumBounds, SumIsNat
<1>9. SumFunctionOnSet(h, Wallet) < AmountLimit
  <2> HIDE DEF b
  <2> QED BY <1>4, <1>5, <1>7, ExecutorAssumption
<1>10. h[w] < AmountLimit
  BY <1>8, <1>9, ExecutorAssumption
<1> QED BY <1>6, <1>10

\* A transaction that is executed is paid for from the ledger before it.
LEMMA StepPays ==
  ASSUME NEW b, NEW l, NEW fee, NEW k, NEW before, NEW after,
         b \in Block, AmountMap(l), k \in 1 .. Len(Ordered(b)),
         before = Executed(Ordered(b), k - 1, BlockBody[b].id, l, fee),
         after = Executed(Ordered(b), k, BlockBody[b].id, l, fee), after.status = "SUCCESS"
  PROVE  /\ before.status = "SUCCESS"
         /\ LET t == TxBody[Ordered(b)[k]]
            IN  ~(t.fee \/ BlockBody[b].id = 1) =>
                  ~(ValueOf(before.ledger, t.from) < Plus(t.amount, t.fees))
<1> DEFINE txs == Ordered(b)
           id == BlockBody[b].id
           t == txs[k]
           m == Miner(txs)
<1>1. txs \in Seq(Tx)
  BY OrderedIsSeq
<1>2. k - 1 \in 0 .. Len(txs) /\ k \in 0 .. Len(txs) /\ k # 0 /\ k \in 1 .. Len(txs) /\ t \in Tx
  BY <1>1
<1>3. before = Executed(txs, k - 1, id, l, fee) /\ after = Executed(txs, k, id, l, fee)
  OBVIOUS
<1> HIDE DEF txs, id
<1>4. Explains(before, l)
  BY <1>1, <1>2, <1>3, ExecutedExplains
<1>5. after = ExecuteNext(before, t, m, fee, id)
  BY <1>1, <1>2, <1>3, ExecutedSteps
<1> HIDE DEF t, m
<1>6. before.status = "SUCCESS" /\ UpdateStatus(before.ledger, t, fee, id) = "SUCCESS"
  BY <1>2, <1>4, <1>5, ExecuteExplains
<1>7. ~(TxBody[t].fee \/ id = 1) =>
        ~(ValueOf(before.ledger, TxBody[t].from) < Plus(TxBody[t].amount, TxBody[t].fees))
  BY <1>6 DEF UpdateStatus, HasWallet, ValueOf
<1> QED BY <1>6, <1>7 DEF t, txs, id

\* The last block was executed to its end on the ledger l.
Completes(blocks, n, l, fee) ==
  \E x : Reaches(blocks[n], l, fee, Len(Ordered(blocks[n])), x)

\* It leaves no wallet with less than nothing, as long as the amounts are moderate.
LEMMA BlockIsPaid ==
  ASSUME NEW n \in Nat, NEW blocks, NEW l, NEW fee,
         HeldBlocks(blocks, n + 1), Moderate(blocks, n + 1), BalancesOf(l, blocks, n),
         \A w \in Wallet : Balance(blocks, n, w) >= 0, Completes(blocks, n + 1, l, fee)
  PROVE  \A w \in Wallet : Balance(blocks, n + 1, w) >= 0
<1> DEFINE b == blocks[n + 1]
           txs == Ordered(b)
           len == Len(txs)
           id == BlockBody[b].id
           x(k) == Executed(txs, k, id, l, fee)
           P(k) == x(k).status = "SUCCESS" /\ \A w \in Wallet : Held(blocks, n, b, k, w) \in Nat
           Q(k) == x(k).status = "SUCCESS"
           G == {i \in Nat : i <= len => Q(len - i)}
           H == {k \in Nat : k <= len => P(k)}
<1>1. /\ b \in Block /\ id = n + 1 /\ FeeTxs(txs) # {} /\ HeldBlocks(blocks, n)
      /\ \A i \in 1 .. n + 1 : blocks[i] \in Block
  BY DEF HeldBlocks
<1>2. txs \in Seq(Tx) /\ len \in Nat /\ \A k \in 1 .. len : k \in DOMAIN txs /\ txs[k] \in Tx
  <2>1. txs \in Seq(Tx)
    BY <1>1, OrderedIsSeq
  <2> HIDE DEF txs
  <2> QED BY <2>1
<1>3. AmountMap(l)
  BY <1>1, BalancesAreAmounts
<1>4. x(len).status = "SUCCESS"
  BY DEF Completes, Reaches
<1>5. ASSUME NEW k \in 1 .. len, x(k).status = "SUCCESS"
      PROVE  /\ x(k - 1).status = "SUCCESS"
             /\ LET t == TxBody[txs[k]]
                IN  ~(t.fee \/ id = 1) =>
                      ~(ValueOf(x(k - 1).ledger, t.from) < Plus(t.amount, t.fees))
  <2> DEFINE before == x(k - 1)
             after == x(k)
  <2>1. /\ before = Executed(Ordered(b), k - 1, BlockBody[b].id, l, fee)
        /\ after = Executed(Ordered(b), k, BlockBody[b].id, l, fee)
        /\ after.status = "SUCCESS" /\ k \in 1 .. Len(Ordered(b))
    BY <1>5
  <2> HIDE DEF before, after, b
  <2>2. /\ before.status = "SUCCESS"
        /\ LET t == TxBody[Ordered(b)[k]]
           IN  ~(t.fee \/ BlockBody[b].id = 1) =>
                 ~(ValueOf(before.ledger, t.from) < Plus(t.amount, t.fees))
    BY <1>1, <1>3, <2>1, StepPays
  <2> QED BY <2>2 DEF before
<1>6. \A k \in 0 .. len : Q(k)
  <2> HIDE DEF x
  <2>1. 0 \in G
    <3>1. len - 0 = len
      BY <1>2
    <3> QED BY <1>4, <3>1
  <2>2. ASSUME NEW i \in Nat, i \in G PROVE i + 1 \in G
    <3> SUFFICES ASSUME i + 1 <= len PROVE Q(len - (i + 1))
      OBVIOUS
    <3>1. len - i \in 1 .. len /\ (len - i) - 1 = len - (i + 1) /\ i <= len
      BY <1>2
    <3> HIDE DEF len
    <3> QED BY <1>5, <2>2, <3>1
  <2>3. Nat \subseteq G
    <3> HIDE DEF G
    <3> QED BY <2>1, <2>2, SetInduction
  <2>4. ASSUME NEW k \in 0 .. len PROVE Q(k)
    <3>1. len - k \in Nat /\ len - k <= len /\ len - (len - k) = k
      BY <1>2
    <3>2. len - k \in G
      BY <2>3, <3>1
    <3> HIDE DEF Q, len
    <3> QED BY <3>1, <3>2
  <2> QED BY <2>4
<1>7. ASSUME NEW w \in Wallet
      PROVE  /\ Balance(blocks, n, w) \in Nat /\ GainOf(b, w) \in Int
             /\ Balance(blocks, n + 1, w) = Balance(blocks, n, w) + GainOf(b, w)
             /\ GainUpTo(b, 0, w) = 0 /\ GainUpTo(b, len, w) = GainOf(b, w)
  <2>1. /\ Balance(blocks, n, w) \in Int /\ GainOf(b, w) \in Int
        /\ Balance(blocks, n + 1, w) = Balance(blocks, n, w) + GainOf(b, w)
    BY <1>1, BalanceGrows
  <2>2. Balance(blocks, n, w) >= 0
    OBVIOUS
  <2>3. GainUpTo(b, 0, w) = 0 /\ GainUpTo(b, len, w) = GainOf(b, w)
    BY <1>1, GainGrows
  <2> QED BY <2>1, <2>2, <2>3
<1>8. P(0)
  <2>1. ASSUME NEW w \in Wallet PROVE Held(blocks, n, b, 0, w) \in Nat
    BY <1>7 DEF Held
  <2>2. 0 \in 0 .. len
    BY <1>2
  <2> HIDE DEF x
  <2> QED BY <1>6, <2>1, <2>2
<1>9. ASSUME NEW k \in 1 .. len, P(k - 1), NEW w \in Wallet
      PROVE  Held(blocks, n, b, k, w) \in Nat
  <2> DEFINE t == TxBody[txs[k]]
             had(u) == Held(blocks, n, b, k - 1, u)
  <2>1. k - 1 \in 0 .. len /\ k \in 0 .. len
    BY <1>2
  <2>2. ASSUME NEW u \in Wallet
        PROVE  had(u) \in Nat /\ ValueOf(x(k - 1).ledger, u) = had(u)
    <3>1. had(u) \in Nat
      BY <1>9
    <3>2. had(u) < AmountLimit
      <4>1. \A v \in Wallet : Held(blocks, n, blocks[n + 1], k - 1, v) \in Nat
        BY <1>9
      <4> QED BY <2>1, <4>1, HeldIsSmall
    <3>3. ValueOf(x(k - 1).ledger, u) = had(u) % AmountLimit
      <4> DEFINE s == Balance(blocks, n, u)
      <4>1. s \in Int /\ ValueOf(l, u) = s % AmountLimit
        BY <1>7 DEF BalancesOf
      <4>2. x(k - 1).status = "SUCCESS"
        BY <1>6, <2>1
      <4> DEFINE e == x(k - 1)
                 v == had(u)
      <4>3. Reaches(b, l, fee, k - 1, e) /\ v = s + GainUpTo(b, k - 1, u)
        BY <2>1, <4>2 DEF Held, Reaches
      <4> HIDE DEF s, b, e, v
      <4>4. ValueOf(e.ledger, u) = v % AmountLimit
        BY <1>1, <1>3, <4>1, <4>3, ExecutedValues
      <4> QED BY <4>4 DEF e, v
    <3> HIDE DEF had
    <3>4. had(u) % AmountLimit = had(u)
      BY <3>1, <3>2, SmallMod
    <3> QED BY <3>1, <3>3, <3>4
  <2>3. /\ Held(blocks, n, b, k, w) = had(w) + Change(b, k, w) /\ Change(b, k, w) \in Int
        /\ had(w) \in Nat
    <3>1. /\ GainUpTo(b, k - 1, w) \in Int /\ Change(b, k, w) \in Int
          /\ GainUpTo(b, k, w) = GainUpTo(b, k - 1, w) + Change(b, k, w)
      BY <1>1, <1>2, GainGrows, ChangeType
    <3>2. Balance(blocks, n, w) \in Nat /\ had(w) \in Nat
      BY <1>7, <1>9
    <3> QED BY <3>1, <3>2 DEF Held
  <2>4. t.amount \in Nat /\ t.fees \in Nat /\ t.from \in Wallet /\ txs[k] \in Tx
    <3>1. txs[k] \in Tx /\ TxBody[txs[k]] \in Transaction
      BY <1>2, ExecutorAssumption
    <3> HIDE DEF txs
    <3> QED BY <3>1, ExecutorAssumption DEF Transaction, Amount
  <2>5. CASE t.fee \/ id = 1
    <3>1. Change(b, k, w) >= 0
      <4>1. Change(b, k, w) = When(t.to = w, t.amount)
        BY <2>5, Zenon DEF Change
      <4> HIDE DEF t
      <4> QED BY <2>4, <4>1 DEF When
    <3> HIDE DEF had
    <3> QED BY <2>3, <3>1
  <2>6. CASE ~(t.fee \/ id = 1)
    <3>1. had(t.from) >= t.amount + t.fees /\ had(t.from) \in Nat
      <4>1. ~(ValueOf(x(k - 1).ledger, t.from) < Plus(t.amount, t.fees))
        BY <1>5, <1>6, <2>1, <2>6
      <4>2. t.amount + t.fees < AmountLimit
        <5>1. txs[k] \in MinedIn(b)
          BY <1>2, <2>6 DEF MinedIn, Range
        <5>2. n + 1 \in 1 .. n + 1
          OBVIOUS
        <5> QED BY <5>1, <5>2 DEF Moderate
      <4>3. Plus(t.amount, t.fees) = t.amount + t.fees
        BY <4>2 DEF Plus
      <4>4. had(t.from) \in Nat /\ ValueOf(x(k - 1).ledger, t.from) = had(t.from)
        BY <2>2, <2>4
      <4> HIDE DEF had, t, x
      <4> QED BY <2>4, <4>1, <4>3, <4>4
    <3>2. Change(b, k, w) >= 0 \/ (w = t.from /\ Change(b, k, w) >= 0 - (t.amount + t.fees))
      <4> DEFINE r == When(t.to = w, t.amount)
                 g == When(t.from = w, t.amount + t.fees)
                 e == When(Miner(txs) = w, t.fees)
      <4>1. Change(b, k, w) = r - g + e
        BY <2>6, Zenon DEF Change
      <4>2. r \in Nat /\ e \in Nat /\ (g = 0 \/ (w = t.from /\ g = t.amount + t.fees))
        BY <2>4 DEF When
      <4> HIDE DEF r, g, e, t
      <4> QED BY <2>4, <4>1, <4>2
    <3> HIDE DEF t, had
    <3> QED BY <2>3, <2>4, <3>1, <3>2
  <2> QED BY <2>5, <2>6
<1>10. len \in H
  <2>1. 0 \in H
    BY <1>8
  <2>2. ASSUME NEW k \in Nat, k \in H PROVE k + 1 \in H
    <3> SUFFICES ASSUME k + 1 <= len PROVE P(k + 1)
      OBVIOUS
    <3>1. k + 1 \in 1 .. len /\ (k + 1) - 1 = k /\ k <= len /\ k + 1 \in 0 .. len
      BY <1>2
    <3> HIDE DEF x
    <3>2. P(k)
      BY <2>2, <3>1
    <3>3. \A w \in Wallet : Held(blocks, n, b, k + 1, w) \in Nat
      BY <1>9, <3>1, <3>2
    <3> QED BY <1>6, <3>1, <3>3
  <2>3. Nat \subseteq H
    <3> HIDE DEF H
    <3> QED BY <2>1, <2>2, SetInduction
  <2> QED BY <1>2, <2>3
<1>11. ASSUME NEW w \in Wallet PROVE Balance(blocks, n + 1, w) >= 0
  <2>1. Held(blocks, n, b, len, w) \in Nat
    BY <1>2, <1>10
  <2>2. Held(blocks, n, b, len, w) = Balance(blocks, n + 1, w)
    BY <1>7 DEF Held
  <2> QED BY <2>1, <2>2
<1> QED BY <1>11

-------------------------------------------------------------------------------
(* The state of the chain without a crash, and the operations that keep it.*)

\* The ids count the blocks, each of which pays a miner; ledger and transaction store
\* are theirs; and as far as the amounts are moderate no wallet was ever below zero.
State(c) ==
  /\ HeldBlocks(c.blocks, c.numBlocks) /\ BalancesOf(c.ledger, c.blocks, c.numBlocks)
  /\ StoreOf(c.txdb, c.blocks, c.numBlocks) /\ PaidOf(c.blocks, c.numBlocks)

\* It says nothing of the chain's other parts, nor of which wallets the ledger has.
LEMMA StateSame ==
  ASSUME NEW c, NEW e, State(c), e.blocks = c.blocks, e.numBlocks = c.numBlocks,
         e.txdb = c.txdb, \A w : ValueOf(e.ledger, w) = ValueOf(c.ledger, w)
  PROVE  State(e)
BY Zenon DEF State, BalancesOf

\* The transactions of a block that is added are new.
LEMMA StoreGrows ==
  ASSUME NEW n \in Nat, NEW blocks, NEW txdb, NEW b, NEW other, NEW fee,
         StoreOf(txdb, blocks, n), b \in Block, BlockBody[b].id = n + 1,
         \A i \in 1 .. n : other[i] = blocks[i], other[n + 1] = b,
         FirstPass(Ordered(b), txdb, n + 1, fee) = "SUCCESS"
  PROVE  StoreOf(InsertTransactions(txdb, Ordered(b), n + 1), other, n + 1)
<1> DEFINE txs == Ordered(b)
           mined == MinedIn(b)
           new == InsertTransactions(txdb, txs, n + 1)
<1>1. mined = {t \in Range(txs) : ~TxBody[t].fee}
  BY DEF MinedIn
<1>2. /\ DOMAIN new = DOMAIN txdb \cup mined
      /\ \A t \in DOMAIN new : new[t] = IF t \in mined THEN n + 1 ELSE txdb[t]
  BY <1>1 DEF InsertTransactions
<1>3. mined \cap DOMAIN txdb = {}
  <2>1. CASE n = 0
    <3>1. DOMAIN txdb = {}
      BY <2>1 DEF StoreOf
    <3> QED BY <3>1
  <2>2. CASE n # 0
    <3>1. txs \in Seq(Tx) /\ n + 1 # 1
      BY <2>2, OrderedIsSeq
    <3>2. FirstPass(txs, txdb, n + 1, fee) = "SUCCESS"
      OBVIOUS
    <3> HIDE DEF txs
    <3>3. \A i \in DOMAIN txs : ~TxBody[txs[i]].fee => txs[i] \notin DOMAIN txdb
      BY <3>1, <3>2, FirstPassed
    <3> QED BY <1>1, <3>3, Zenon DEF Range
  <2> QED BY <2>1, <2>2
<1> HIDE DEF mined, new, txs
<1>4. DOMAIN new = UNION {MinedIn(other[i]) : i \in 1 .. n + 1}
  <2>1. MinedIn(other[n + 1]) = mined /\ \A i \in 1 .. n : MinedIn(other[i]) = MinedIn(blocks[i])
    BY DEF mined
  <2>2. 1 .. n + 1 = (1 .. n) \cup {n + 1}
    OBVIOUS
  <2>3. DOMAIN txdb = UNION {MinedIn(blocks[i]) : i \in 1 .. n}
    BY DEF StoreOf
  <2>4. \A t : t \in UNION {MinedIn(other[i]) : i \in 1 .. n + 1} <=>
               t \in mined \/ t \in UNION {MinedIn(blocks[i]) : i \in 1 .. n}
    BY <2>1, <2>2, Zenon
  <2> QED BY <1>2, <2>3, <2>4
<1>5. ASSUME NEW i \in 1 .. n + 1, NEW t \in MinedIn(other[i]) PROVE new[t] = i
  <2>1. CASE i = n + 1
    BY <1>2, <2>1 DEF mined
  <2>2. CASE i # n + 1
    <3>1. i \in 1 .. n /\ t \in MinedIn(blocks[i])
      BY <2>2
    <3>2. t \in DOMAIN txdb /\ txdb[t] = i
      BY <3>1 DEF StoreOf
    <3> QED BY <1>2, <1>3, <3>2
  <2> QED BY <2>1, <2>2
<1> QED BY <1>4, <1>5 DEF StoreOf, new, txs

\* The block that is added was executed to its end.
LEMMA ExecutedWhole ==
  ASSUME NEW c, NEW b, NEW x, b \in Block, x = Execution(c, b), x.status = "SUCCESS"
  PROVE  /\ FirstPass(Ordered(b), c.txdb, BlockBody[b].id, MiningFee(c.numBlocks)) = "SUCCESS"
         /\ Reaches(b, c.ledger, MiningFee(c.numBlocks), Len(Ordered(b)), x)
<1> DEFINE txs == Ordered(b)
           fee == MiningFee(c.numBlocks)
           pass == FirstPass(txs, c.txdb, BlockBody[b].id, fee)
<1>1. x = IF pass # "SUCCESS" THEN [Begin(c.ledger) EXCEPT !.status = pass]
          ELSE Executed(txs, Len(txs), BlockBody[b].id, c.ledger, fee)
  BY DEF Execution, ExecuteBlock
<1>2. pass # "SUCCESS" => [Begin(c.ledger) EXCEPT !.status = pass].status = pass
  BY DEF Begin
<1>3. pass = "SUCCESS"
  BY <1>1, <1>2
<1>4. Len(txs) \in 0 .. Len(txs)
  <2> DEFINE len == Len(txs)
  <2>1. len \in Nat
    <3>1. txs \in Seq(Tx)
      BY OrderedIsSeq
    <3> HIDE DEF txs
    <3> QED BY <3>1
  <2> HIDE DEF len
  <2>2. len \in 0 .. len
    BY <2>1
  <2> QED BY <2>2 DEF len
<1> QED BY <1>1, <1>3, <1>4 DEF Reaches

\* An execution that has not begun.
LEMMA BeginExplains ==
  ASSUME NEW l, AmountMap(l), NEW s
  PROVE  LET x == [Begin(l) EXCEPT !.status = s]
         IN  Explains(x, l) /\ x.ledger = l /\ Explains(Begin(l), l) /\ Begin(l).ledger = l
<1> DEFINE y == Begin(l)
           x == [y EXCEPT !.status = s]
<1>1. /\ y = [status |-> "SUCCESS", ledger |-> l, deltas |-> <<>>]
      /\ x = [status |-> s, ledger |-> l, deltas |-> <<>>]
  BY DEF Begin
<1>2. \A u : ValueOf(<<>>, u) = 0
  BY DEF ValueOf
<1>3. ASSUME NEW u
      PROVE  ValueOf(l, u) \in Amount /\ ValueOf(l, u) = Plus(ValueOf(l, u), ValueOf(<<>>, u))
  <2>1. ValueOf(l, u) \in Amount
    BY DEF AmountMap
  <2>2. Plus(ValueOf(l, u), 0) = ValueOf(l, u)
    BY <2>1, AmountArithmetic
  <2> QED BY <1>2, <2>1, <2>2
<1>4. AmountMap(<<>>)
  BY <1>2, <1>3, AmountArithmetic DEF AmountMap
<1>5. ExecutionRecord(y) /\ ExecutionRecord(x) /\ y.ledger = l /\ x.ledger = l
      /\ y.deltas = <<>> /\ x.deltas = <<>>
  BY <1>1 DEF ExecutionRecord
<1> HIDE DEF x, y
<1> QED BY <1>3, <1>4, <1>5, Zenon DEF Explains, x, y

\* A block's execution, also one that fails, is explained by its deltas.
LEMMA ExecutionExplains ==
  ASSUME NEW c, AmountMap(c.ledger), NEW b \in Block
  PROVE  LET x == Execution(c, b)
         IN  Explains(x, c.ledger) /\ DOMAIN c.ledger \subseteq DOMAIN x.ledger
<1> DEFINE txs == Ordered(b)
           id == BlockBody[b].id
           fee == MiningFee(c.numBlocks)
           l == c.ledger
           len == Len(txs)
           pass == FirstPass(txs, c.txdb, id, fee)
           x == Execution(c, b)
           y == Executed(txs, len, id, l, fee)
<1>1. x = IF pass # "SUCCESS" THEN [Begin(l) EXCEPT !.status = pass] ELSE y
  BY DEF Execution, ExecuteBlock
<1>2. Explains([Begin(l) EXCEPT !.status = pass], l) /\ [Begin(l) EXCEPT !.status = pass].ledger = l
  BY BeginExplains
<1>3. Explains(y, l) /\ DOMAIN l \subseteq DOMAIN y.ledger
  <2>1. txs \in Seq(Tx) /\ len \in 0 .. Len(txs) /\ AmountMap(l)
    <3>1. txs \in Seq(Tx)
      BY OrderedIsSeq
    <3> HIDE DEF txs
    <3>2. len \in Nat
      BY <3>1
    <3>3. len \in 0 .. len
      <4> HIDE DEF len
      <4> QED BY <3>2
    <3> QED BY <3>1, <3>3
  <2>2. y = Executed(txs, len, id, l, fee)
    OBVIOUS
  <2> HIDE DEF txs, id, fee, l, len, y
  <2> QED BY <2>1, <2>2, ExecutedExplains
<1> HIDE DEF pass, y, x, l
<1>4. Explains(x, l) /\ DOMAIN l \subseteq DOMAIN x.ledger
  BY <1>1, <1>2, <1>3
<1> QED BY <1>4 DEF x, l

\* A block that is added.
LEMMA CommitState ==
  ASSUME NEW c, NEW b, NEW x, State(c), IsChain(c), c.numBlocks \in Nat, b \in Block,
         1 .. c.numBlocks \subseteq DOMAIN c.blocks, BlockBody[b].id = c.numBlocks + 1,
         x = Execution(c, b), x.status = "SUCCESS"
  PROVE  State(Commit(c, b, x.ledger))
<1> DEFINE n == c.numBlocks
           old == c.blocks
           new == SetBlock(c.blocks, b)
           fee == MiningFee(c.numBlocks)
           l == c.ledger
           e == Commit(c, b, x.ledger)
           txdb == InsertTransactions(c.txdb, Ordered(b), BlockBody[b].id)
<1>1. /\ e.ledger = x.ledger /\ e.txdb = txdb
      /\ e.blocks = new /\ e.numBlocks = n + 1
  BY CommitFields
<1>2. new[n + 1] = b /\ \A i \in 1 .. n : new[i] = old[i]
  BY DEF SetBlock
<1>3. FirstPass(Ordered(b), c.txdb, n + 1, fee) = "SUCCESS" /\ Reaches(b, l, fee, Len(Ordered(b)), x)
  BY ExecutedWhole
<1>4. /\ HeldBlocks(old, n) /\ BalancesOf(l, old, n) /\ StoreOf(c.txdb, old, n) /\ PaidOf(old, n)
      /\ n \in Nat
  BY DEF State
<1>5. HeldBlocks(new, n + 1)
  <2>1. FeeTxs(Ordered(b)) # {}
    <3>1. Ordered(b) \in Seq(Tx)
      BY OrderedIsSeq
    <3> QED BY <1>3, <3>1, FirstPassed
  <2> QED BY <1>2, <1>4, <2>1 DEF HeldBlocks
<1>6. StoreOf(txdb, new, n + 1)
  BY <1>2, <1>3, <1>4, StoreGrows
<1> HIDE DEF new, old, l, fee, n, txdb
<1>7. \A i \in 0 .. n : /\ \A w : Balance(new, i, w) = Balance(old, i, w)
                        /\ Moderate(new, i) <=> Moderate(old, i)
  <2> SUFFICES ASSUME NEW i \in 0 .. n
               PROVE  /\ \A w : Balance(new, i, w) = Balance(old, i, w)
                      /\ Moderate(new, i) <=> Moderate(old, i)
    OBVIOUS
  <2>1. i \in Nat /\ \A k \in 1 .. i : new[k] = old[k]
    BY <1>2, <1>4
  <2> QED BY <2>1, SumsOfPart
<1>8. n \in 0 .. n /\ \A i \in 1 .. n + 1 : new[i] \in Block
  BY <1>4, <1>5 DEF HeldBlocks
<1>9. BalancesOf(l, new, n)
  BY <1>4, <1>7, <1>8, Zenon DEF BalancesOf
<1>10. BalancesOf(x.ledger, new, n + 1)
  <2> SUFFICES ASSUME NEW w PROVE ValueOf(x.ledger, w) = Balance(new, n + 1, w) % AmountLimit
    BY DEF BalancesOf
  <2> DEFINE s == Balance(new, n, w)
             v == Balance(new, n + 1, w)
  <2>1. AmountMap(l)
    BY <1>4, BalancesAreAmounts
  <2>2. s \in Int /\ v = s + GainOf(new[n + 1], w)
    BY <1>4, <1>8, BalanceGrows
  <2>3. GainUpTo(b, Len(Ordered(b)), w) = GainOf(b, w)
    BY GainGrows
  <2>4. v = s + GainUpTo(b, Len(Ordered(b)), w)
    BY <1>2, <2>2, <2>3
  <2>5. ValueOf(l, w) = s % AmountLimit
    BY <1>9 DEF BalancesOf
  <2> HIDE DEF s, v
  <2>6. ValueOf(x.ledger, w) = v % AmountLimit
    BY <1>3, <2>1, <2>2, <2>4, <2>5, ExecutedValues
  <2> QED BY <2>6 DEF v
<1>11. PaidOf(new, n + 1)
  <2> SUFFICES ASSUME NEW i \in 1 .. n + 1, Moderate(new, i)
               PROVE  \A w \in Wallet : Balance(new, i, w) >= 0
    BY DEF PaidOf
  <2>1. CASE i # n + 1
    <3>1. i \in 1 .. n /\ i \in 0 .. n
      BY <1>4, <2>1
    <3>2. \A w \in Wallet : Balance(old, i, w) >= 0
      BY <1>4, <1>7, <3>1 DEF PaidOf
    <3> QED BY <1>7, <3>1, <3>2, Zenon
  <2>2. CASE i = n + 1
    <3>1. Moderate(new, n)
      BY <1>4, <1>8, <2>2, ModerateBefore
    <3>2. \A w \in Wallet : Balance(new, n, w) >= 0
      <4>1. CASE n = 0
        <5>1. ASSUME NEW w \in Wallet PROVE Balance(new, n, w) >= 0
          <6>1. Balance(new, 0, w) = 0
            BY <1>4, <1>8, BalanceGrows
          <6> QED BY <4>1, <6>1
        <5> QED BY <5>1
      <4>2. CASE n # 0
        <5>1. n \in 1 .. n /\ Moderate(old, n)
          BY <1>4, <1>7, <1>8, <3>1, <4>2
        <5>2. \A w \in Wallet : Balance(old, n, w) >= 0
          BY <1>4, <5>1 DEF PaidOf
        <5> QED BY <1>7, <1>8, <5>2, Zenon
      <4> QED BY <4>1, <4>2
    <3>3. Completes(new, n + 1, l, fee)
      BY <1>2, <1>3, Zenon DEF Completes
    <3>4. Moderate(new, n + 1)
      BY <2>2
    <3>5. \A w \in Wallet : Balance(new, n + 1, w) >= 0
      BY <1>4, <1>5, <1>9, <3>2, <3>3, <3>4, BlockIsPaid
    <3> QED BY <2>2, <3>5
  <2> QED BY <2>1, <2>2
<1> QED BY <1>1, <1>5, <1>6, <1>10, <1>11, Zenon DEF State

\* A chain that was reset.
LEMMA ResetState == State(ResetChain)
<1> DEFINE x == Execution(Cleared, Genesis)
<1>1. /\ ResetChain = Commit(Cleared, Genesis, x.ledger) /\ x.status = "SUCCESS"
      /\ BlockBody[Genesis].id = 0 + 1 /\ Genesis \in Block
  BY FirstBlock, ChainAssumption DEF CheckBlock, Cleared
<1>2. IsChain(Cleared) /\ Cleared.numBlocks = 0 /\ 1 .. 0 = {} /\ 0 \in Nat
  BY DEF IsChain, ChainFields, Cleared
<1>3. State(Cleared)
  <2>1. Cleared.ledger = <<>> /\ Cleared.txdb = <<>> /\ Cleared.blocks = <<>>
    BY DEF Cleared
  <2>2. BalancesOf(<<>>, <<>>, 0)
    <3> SUFFICES ASSUME NEW w PROVE ValueOf(<<>>, w) = Balance(<<>>, 0, w) % AmountLimit
      BY DEF BalancesOf
    <3> DEFINE z == [i \in 1 .. 0 |-> GainOf(<<>>[i], w)]
    <3>1. Balance(<<>>, 0, w) = SumFunctionOnSet(z, 1 .. 0)
      BY DEF Balance, SumFunction
    <3> HIDE DEF z
    <3>2. Balance(<<>>, 0, w) = 0
      BY <1>2, <3>1, SumOfEmpty
    <3>3. 0 < AmountLimit /\ 0 \in Nat
      BY ExecutorAssumption
    <3>4. 0 % AmountLimit = 0
      BY <3>3, SmallMod
    <3> QED BY <3>2, <3>4 DEF ValueOf
  <2>3. StoreOf(<<>>, <<>>, 0)
    BY <1>2 DEF StoreOf
  <2>4. HeldBlocks(<<>>, 0) /\ PaidOf(<<>>, 0)
    BY <1>2 DEF HeldBlocks, PaidOf
  <2> QED BY <1>2, <2>1, <2>2, <2>3, <2>4, Zenon DEF State
<1> HIDE DEF x
<1>4. 1 .. Cleared.numBlocks \subseteq DOMAIN Cleared.blocks
  BY <1>2
<1>5. BlockBody[Genesis].id = Cleared.numBlocks + 1 /\ Cleared.numBlocks \in Nat
  BY <1>1, <1>2
<1>6. State(Commit(Cleared, Genesis, x.ledger))
  BY <1>1, <1>2, <1>3, <1>4, <1>5, CommitState DEF x
<1> QED BY <1>1, <1>6

\* A block that is refused, half way or before.
LEMMA AddState ==
  ASSUME NEW c, Sound(c), State(c), NEW b \in Block, NEW now
  PROVE  State(AddBlock(c, b, now).chain)
<1> DEFINE x == Execution(c, b)
           l == Rollback(x.ledger, x.deltas)
           e == [c EXCEPT !.ledger = l]
           add == AddBlock(c, b, now)
<1>1. IsChain(c) /\ c.numBlocks \in Nat /\ 1 .. c.numBlocks \subseteq DOMAIN c.blocks
  BY DEF Sound, LinkedUpTo
<1>2. CASE CheckBlock(c, b, now) # "SUCCESS"
  BY <1>2 DEF AddBlock
<1>3. CASE CheckBlock(c, b, now) = "SUCCESS" /\ x.status = "SUCCESS"
  <2>1. BlockBody[b].id = c.numBlocks + 1
    BY <1>3, CommitSound
  <2>2. add.chain = Commit(c, b, x.ledger)
    BY <1>3 DEF AddBlock, Finish
  <2> HIDE DEF x
  <2>3. State(Commit(c, b, x.ledger))
    BY <1>1, <1>3, <2>1, CommitState DEF x
  <2> QED BY <2>2, <2>3
<1>4. CASE CheckBlock(c, b, now) = "SUCCESS" /\ x.status # "SUCCESS"
  <2>1. add.chain = e
    BY <1>4 DEF AddBlock, Finish
  <2>2. AmountMap(c.ledger)
    <3>1. HeldBlocks(c.blocks, c.numBlocks) /\ BalancesOf(c.ledger, c.blocks, c.numBlocks)
      BY DEF State
    <3> QED BY <1>1, <3>1, BalancesAreAmounts
  <2>3. Explains(x, c.ledger) /\ DOMAIN c.ledger \subseteq DOMAIN x.ledger
    BY <2>2, ExecutionExplains
  <2> HIDE DEF x
  <2>4. \A w : ValueOf(l, w) = ValueOf(c.ledger, w)
    BY <2>2, <2>3, RollbackRestores
  <2>5. /\ e.blocks = c.blocks /\ e.numBlocks = c.numBlocks /\ e.txdb = c.txdb /\ e.ledger = l
    BY <1>1 DEF IsChain, ChainFields
  <2> HIDE DEF e, l
  <2>6. State(e)
    BY <2>4, <2>5, StateSame
  <2> QED BY <2>1, <2>6
<1> QED BY <1>2, <1>3, <1>4

\* A transaction that is verified: it is executed and taken back.
LEMMA VerifyState ==
  ASSUME NEW c, Sound(c), State(c), NEW t \in Tx
  PROVE  State(VerifyTransaction(c, t).chain)
<1> DEFINE x == ExecuteTransaction(c.ledger, t)
           l == Rollback(x.ledger, x.deltas)
           e == [c EXCEPT !.ledger = l]
<1>1. VerifyTransaction(c, t).chain \in {c, e}
  BY DEF VerifyTransaction
<1>2. IsChain(c) /\ c.numBlocks \in Nat
  BY DEF Sound
<1>3. AmountMap(c.ledger)
  <2>1. HeldBlocks(c.blocks, c.numBlocks) /\ BalancesOf(c.ledger, c.blocks, c.numBlocks)
    BY DEF State
  <2> QED BY <1>2, <2>1, BalancesAreAmounts
<1>4. Explains(x, c.ledger) /\ DOMAIN c.ledger \subseteq DOMAIN x.ledger
  <2> DEFINE y == Begin(c.ledger)
             status == UpdateStatus(y.ledger, t, 0, 0)
             moved == Moves(y, t, NullAddress, 0)
  <2>1. \/ \E s : x = [y EXCEPT !.status = s]
        \/ x = moved
    BY DEF ExecuteTransaction, UpdateLedger
  <2>2. Explains(y, c.ledger) /\ y.ledger = c.ledger
    BY <1>3, BeginExplains
  <2>3. ASSUME NEW s
        PROVE  Explains([y EXCEPT !.status = s], c.ledger) /\ [y EXCEPT !.status = s].ledger = c.ledger
    BY <1>3, BeginExplains
  <2> HIDE DEF y
  <2>4. Explains(moved, c.ledger) /\ DOMAIN y.ledger \subseteq DOMAIN moved.ledger
    BY <1>3, <2>2, MovesExplain
  <2> HIDE DEF moved, x
  <2> QED BY <2>1, <2>2, <2>3, <2>4
<1> HIDE DEF x
<1>5. \A w : ValueOf(l, w) = ValueOf(c.ledger, w)
  BY <1>3, <1>4, RollbackRestores
<1>6. /\ e.blocks = c.blocks /\ e.numBlocks = c.numBlocks /\ e.txdb = c.txdb /\ e.ledger = l
  BY <1>2 DEF IsChain, ChainFields
<1> HIDE DEF e, l
<1>7. State(e)
  BY <1>5, <1>6, StateSame
<1> QED BY <1>1, <1>7

\* The fields of a chain whose last block was removed, not the second one.
LEMMA PopFields ==
  ASSUME NEW c, IsChain(c), c.numBlocks \in Nat, c.numBlocks > 2
  PROVE  LET undone == RollbackBlock(Ordered(Tip(c)), c.ledger, c.txdb)
             e == PopBlock(c)
         IN  /\ e.ledger = undone.ledger /\ e.txdb = undone.txdb
             /\ e.blocks = c.blocks /\ e.numBlocks = c.numBlocks - 1
<1> DEFINE undone == RollbackBlock(Ordered(Tip(c)), c.ledger, c.txdb)
           l == undone.ledger
           t == undone.txdb
           n == c.numBlocks - 1
           w == c.totalWork - Work(Tip(c))
           d == BlockBody[c.blocks[n]].difficulty
           h == c.blocks[n]
           popped == [c EXCEPT !.ledger = l, !.txdb = t, !.numBlocks = n, !.count = n,
                               !.totalWork = w, !.work = w]
           e == [popped EXCEPT !.difficulty = d, !.lastHash = h]
<1>1. PopBlock(c) = e
  BY DEF PopBlock, Popped
<1> HIDE DEF l, t, n, w, d, h
<1>2. /\ IsChain(popped) /\ popped.blocks = c.blocks /\ popped.numBlocks = n
      /\ popped.ledger = l /\ popped.txdb = t
  BY DEF IsChain, ChainFields
<1> HIDE DEF popped
<1>3. e.blocks = c.blocks /\ e.numBlocks = n /\ e.ledger = l /\ e.txdb = t
  BY <1>2 DEF IsChain, ChainFields
<1> QED BY <1>1, <1>3, Zenon DEF l, t, n

\* A block that is removed: the others keep what they gave and mined.
LEMMA PopState ==
  ASSUME NEW c, Sound(c), State(c), c.numBlocks > 1
  PROVE  State(PopBlock(c))
<1>1. CASE ~(c.numBlocks > 2)
  <2>1. PopBlock(c) = ResetChain
    <3>1. c.numBlocks \in Nat
      BY DEF Sound
    <3>2. ~(c.numBlocks - 1 > 1)
      BY <1>1, <3>1
    <3> QED BY <3>2 DEF PopBlock
  <2> QED BY <2>1, ResetState
<1>2. CASE c.numBlocks > 2
  <2> DEFINE n == c.numBlocks - 1
             blocks == c.blocks
             b == Tip(c)
             undone == RollbackBlock(Ordered(b), c.ledger, c.txdb)
             e == PopBlock(c)
  <2>1. n \in Nat /\ n > 1 /\ c.numBlocks = n + 1 /\ IsChain(c)
    BY <1>2 DEF Sound
  <2>2. /\ e.ledger = undone.ledger /\ e.txdb = undone.txdb
        /\ e.blocks = blocks /\ e.numBlocks = n
    BY <1>2, <2>1, PopFields
  <2>3. /\ HeldBlocks(blocks, n + 1) /\ BalancesOf(c.ledger, blocks, n + 1)
        /\ StoreOf(c.txdb, blocks, n + 1) /\ PaidOf(blocks, n + 1)
    BY <2>1 DEF State
  <2>4. b = blocks[n + 1] /\ b \in Block /\ BlockBody[b].id = n + 1 /\ Ordered(b) \in Seq(Tx)
    BY <2>1, <2>3, OrderedIsSeq DEF HeldBlocks, Tip
  <2> HIDE DEF n, blocks, b, e
  <2>5. HeldBlocks(blocks, n) /\ PaidOf(blocks, n)
    BY <2>1, <2>3 DEF HeldBlocks, PaidOf
  <2>6. BalancesOf(undone.ledger, blocks, n)
    <3> SUFFICES ASSUME NEW w PROVE ValueOf(undone.ledger, w) = Balance(blocks, n, w) % AmountLimit
      BY DEF BalancesOf
    <3> DEFINE s == Balance(blocks, n + 1, w)
               v == Balance(blocks, n, w)
               l == c.ledger
               d == c.txdb
    <3>1. s \in Int /\ v \in Int /\ GainOf(b, w) \in Int /\ v = s - GainOf(b, w)
      <4>1. \A i \in 1 .. n + 1 : blocks[i] \in Block
        BY <2>3 DEF HeldBlocks
      <4>2. v \in Int /\ GainOf(b, w) \in Int /\ s = v + GainOf(b, w)
        BY <2>1, <2>4, <4>1, BalanceGrows
      <4> HIDE DEF s, v
      <4> QED BY <4>2
    <3>2. ValueOf(l, w) = s % AmountLimit
      BY <2>3 DEF BalancesOf
    <3>3. AmountMap(l)
      <4>1. n + 1 \in Nat
        BY <2>1
      <4> QED BY <2>3, <4>1, BalancesAreAmounts
    <3>4. BlockBody[b].id # 1
      BY <2>1, <2>4
    <3> HIDE DEF s, v, l, d
    <3>5. ValueOf(RollbackBlock(Ordered(b), l, d).ledger, w) = (s - GainOf(b, w)) % AmountLimit
      BY <2>4, <3>1, <3>2, <3>3, <3>4, UndoneValues
    <3> QED BY <3>1, <3>5, Zenon DEF v, l, d
  <2>7. StoreOf(undone.txdb, blocks, n)
    <3> DEFINE txs == Ordered(b)
               mined == MinedIn(b)
               kept == undone.txdb
    <3>1. kept = [t \in DOMAIN c.txdb \ mined |-> c.txdb[t]]
      <4>1. {txs[i] : i \in 1 .. Len(txs)} = Range(txs)
        BY <2>4 DEF Range
      <4>2. {u \in {txs[i] : i \in 1 .. Len(txs)} : ~TxBody[u].fee} = mined
        BY <4>1 DEF MinedIn
      <4> QED BY <4>2, Zenon DEF RollbackBlock, RollbackFrom
    <3>2. DOMAIN kept = DOMAIN c.txdb \ mined /\ \A t \in DOMAIN kept : kept[t] = c.txdb[t]
      BY <3>1
    <3>3. \A t \in mined : c.txdb[t] = n + 1
      <4>1. n + 1 \in 1 .. n + 1
        BY <2>1
      <4> QED BY <2>3, <2>4, <4>1 DEF StoreOf
    <3>4. \A i \in 1 .. n : \A t \in MinedIn(blocks[i]) : c.txdb[t] = i /\ t \notin mined
      <4>1. ASSUME NEW i \in 1 .. n, NEW t \in MinedIn(blocks[i])
            PROVE  c.txdb[t] = i /\ t \notin mined
        <5>1. i \in 1 .. n + 1 /\ i # n + 1
          BY <2>1
        <5>2. c.txdb[t] = i
          BY <2>3, <5>1 DEF StoreOf
        <5> QED BY <3>3, <5>1, <5>2
      <4> QED BY <4>1
    <3>5. DOMAIN c.txdb = UNION {MinedIn(blocks[i]) : i \in 1 .. n + 1}
      BY <2>3 DEF StoreOf
    <3>6. 1 .. n + 1 = (1 .. n) \cup {n + 1} /\ MinedIn(blocks[n + 1]) = mined
      BY <2>1, <2>4
    <3> HIDE DEF mined, kept, undone
    <3>7. DOMAIN kept = UNION {MinedIn(blocks[i]) : i \in 1 .. n}
      <4>1. \A t : t \in UNION {MinedIn(blocks[i]) : i \in 1 .. n + 1} <=>
                   t \in mined \/ t \in UNION {MinedIn(blocks[i]) : i \in 1 .. n}
        BY <3>6, Zenon
      <4>2. \A t \in UNION {MinedIn(blocks[i]) : i \in 1 .. n} : t \notin mined
        BY <3>4
      <4> QED BY <3>2, <3>5, <4>1, <4>2
    <3>8. \A i \in 1 .. n : \A t \in MinedIn(blocks[i]) : kept[t] = i
      <4>1. ASSUME NEW i \in 1 .. n, NEW t \in MinedIn(blocks[i]) PROVE kept[t] = i
        <5>1. t \in DOMAIN kept
          BY <3>7
        <5> QED BY <3>2, <3>4, <5>1
      <4> QED BY <4>1
    <3> QED BY <3>7, <3>8 DEF StoreOf, kept
  <2> HIDE DEF undone
  <2>8. State(e)
    BY <2>2, <2>5, <2>6, <2>7, Zenon DEF State
  <2> QED BY <2>8 DEF e
<1> QED BY <1>1, <1>2

\* A restart reads the same chain again.
LEMMA InitState ==
  ASSUME NEW c, Sound(c), State(c)
  PROVE  State(InitChain(c))
<1> DEFINE d == BlockBody[c.blocks[c.count]].difficulty
           h == c.blocks[c.count]
           k == c.count
           w == c.work
           e == [c EXCEPT !.numBlocks = k, !.totalWork = w, !.difficulty = d, !.lastHash = h]
<1>1. c.count # 0 /\ c.count = c.numBlocks /\ IsChain(c)
  BY DEF Sound
<1>2. InitChain(c) = e
  BY <1>1 DEF InitChain
<1> HIDE DEF d, h, k, w
<1>3. e.blocks = c.blocks /\ e.numBlocks = k /\ e.txdb = c.txdb /\ e.ledger = c.ledger
  BY <1>1 DEF IsChain, ChainFields
<1> HIDE DEF e
<1>4. State(e)
  BY <1>1, <1>3, StateSame DEF k
<1> QED BY <1>2, <1>4

-------------------------------------------------------------------------------
\* The inductive invariant of the three theorems below.
StateInv == ChainInv /\ (crashes = 0 => State(chain))

\* Every step without a crash keeps the state that of the blocks.
LEMMA StateInvInductive ==
  /\ Init => StateInv
  /\ StateInv /\ [Next]_vars => StateInv'
<1>1. ASSUME Init PROVE StateInv
  BY <1>1, ChainInvInductive, ResetState DEF Init, StateInv
<1>2. ASSUME StateInv, [Next]_vars PROVE StateInv'
  <2>1. ChainInv /\ ChainInv' /\ Sound(chain) /\ crashes \in Nat
    BY <1>2, ChainInvInductive DEF StateInv, ChainInv
  <2> SUFFICES ASSUME crashes' = 0 PROVE State(chain')
    BY <2>1 DEF StateInv
  <2>2. CASE \E b \in Block : Add(b)
    <3>1. PICK b \in Block, now \in NetworkTimes :
            chain' = AddBlock(chain, b, now).chain /\ crashes' = crashes
      BY <2>2 DEF Add
    <3> QED BY <1>2, <2>1, <3>1, AddState DEF StateInv
  <2>3. CASE Pop
    BY <1>2, <2>1, <2>3, PopState DEF Pop, StateInv
  <2>4. CASE \E t \in Tx : Verify(t)
    BY <1>2, <2>1, <2>4, VerifyState DEF Verify, StateInv
  <2>5. CASE Restart
    BY <1>2, <2>1, <2>5, InitState DEF Restart, StateInv
  <2>6. CASE CrashAdding \/ CrashPopping
    BY <2>1, <2>6 DEF CrashAdding, CrashPopping
  <2>7. CASE UNCHANGED vars
    BY <1>2, <2>7 DEF vars, StateInv
  <2> QED BY <1>2, <2>2, <2>3, <2>4, <2>5, <2>6, <2>7 DEF Next
<1> QED BY <1>1, <1>2

\* What State says of the money, as long as the amounts are moderate.
LEMMA StateIsMoney ==
  ASSUME NEW c, State(c), c.numBlocks \in Nat \ {0}, Moderate(c.blocks, c.numBlocks)
  PROVE  /\ \A w \in Wallet : ValueOf(c.ledger, w) = Balance(c.blocks, c.numBlocks, w)
         /\ SumFunction([w \in Wallet |-> ValueOf(c.ledger, w)]) = Supply(c.blocks, c.numBlocks)
<1> DEFINE n == c.numBlocks
           blocks == c.blocks
           f == [w \in Wallet |-> Balance(blocks, n, w)]
           g == [w \in Wallet |-> ValueOf(c.ledger, w)]
<1>1. /\ n \in Nat /\ n \in 1 .. n /\ HeldBlocks(blocks, n) /\ BalancesOf(c.ledger, blocks, n)
      /\ PaidOf(blocks, n) /\ Moderate(blocks, n)
  BY DEF State
<1>2. \A w \in Wallet : Balance(blocks, n, w) >= 0
  BY <1>1 DEF PaidOf
<1>3. ASSUME NEW w \in Wallet PROVE ValueOf(c.ledger, w) = Balance(blocks, n, w)
  <2> HIDE DEF n, blocks
  <2>1. Balance(blocks, n, w) % AmountLimit = Balance(blocks, n, w)
    BY <1>1, <1>2, BalancesAreSmall
  <2> QED BY <1>1, <2>1, Zenon DEF BalancesOf
<1>4. SumFunctionOnSet(f, Wallet) = Supply(blocks, n)
  BY <1>1, BalancesSum
<1>5. g = f
  BY <1>3
<1>6. SumFunction(g) = SumFunctionOnSet(g, Wallet)
  BY DEF SumFunction
<1> HIDE DEF f, g
<1>7. SumFunction(g) = Supply(blocks, n)
  BY <1>4, <1>5, <1>6
<1> QED BY <1>3, <1>7 DEF g

\* Without a crash the ledger and the transaction store are those of the chain's blocks,
\* for every set of blocks, wallets and transactions: whatever was added, refused half
\* way, verified, removed and read back; and while the amounts are moderate no balance
\* has wrapped and all of them sum up to what was minted.
THEOREM StateIsOfChain == Spec => []StateOfChain
<1>1. StateInv => StateOfChain
  <2> SUFFICES ASSUME StateInv, crashes = 0
               PROVE  /\ \A w \in Wallet :
                           ValueOf(chain.ledger, w) = Balance(chain.blocks, chain.numBlocks, w) % AmountLimit
                      /\ MoneySupply
                      /\ DOMAIN chain.txdb = StoredTxs(chain)
                      /\ \A i \in 1 .. chain.numBlocks : \A t \in MinedIn(chain.blocks[i]) : chain.txdb[t] = i
    BY Zenon DEF StateOfChain, LedgerOfChain, StoreOfChain, MoneySupply
  <2>1. State(chain) /\ chain.numBlocks \in Nat \ {0}
    BY DEF StateInv, ChainInv, Sound
  <2>2. MoneySupply
    BY <2>1, StateIsMoney DEF MoneySupply
  <2> QED BY <2>1, <2>2, Zenon DEF State, BalancesOf, StoreOf, StoredTxs
<1> QED BY <1>1, StateInvInductive, PTL DEF Spec

-------------------------------------------------------------------------------
(* LinkedChain is implemented, until a crash.                              *)

HistoryOf(c) == [i \in 1 .. c.numBlocks |-> c.blocks[i]]

\* The sums of LinkedChain are those of Functions.
LEMMA SameSum ==
  ASSUME NEW f
  PROVE  Abstract!SumFunction(f) = SumFunction(f)
BY Zenon DEF Abstract!SumFunction, Abstract!SumFunctionOnSet, Abstract!FoldFunctionOnSet,
  Abstract!MapThenFoldSet, SumFunction, SumFunctionOnSet, FoldFunctionOnSet, MapThenFoldSet

\* And its balances those of the blocks.
LEMMA SameBalance ==
  ASSUME NEW n \in Nat, NEW blocks, NEW h, NEW w \in Wallet,
         h = [i \in 1 .. n |-> blocks[i]], \A i \in 1 .. n : blocks[i] \in Block
  PROVE  Abstract!Balance(h, w) = Balance(blocks, n, w)
<1> DEFINE f == [i \in DOMAIN h |-> GainsOf[h[i]][w]]
           g == [i \in 1 .. n |-> GainOf(blocks[i], w)]
<1>1. f = g
  <2>1. DOMAIN h = 1 .. n /\ \A i \in 1 .. n : h[i] = blocks[i] /\ h[i] \in Block
    OBVIOUS
  <2>2. \A b \in Block : GainsOf[b][w] = GainOf(b, w)
    BY DEF GainsOf
  <2> HIDE DEF GainsOf, GainOf
  <2> QED BY <2>1, <2>2
<1>2. Abstract!Balance(h, w) = Abstract!SumFunction(f) /\ Balance(blocks, n, w) = SumFunction(g)
  BY Zenon DEF Abstract!Balance, Balance
<1> HIDE DEF f, g
<1> QED BY <1>1, <1>2, SameSum

\* A chain with one block more than another.
LEMMA LongerFollows ==
  ASSUME NEW n \in Nat \ {0}, NEW c, NEW d, c.numBlocks = n, d.numBlocks = n + 1,
         Sound(d), State(d), \A i \in 1 .. n : d.blocks[i] = c.blocks[i],
         Moderate(d.blocks, n + 1)
  PROVE  \E b \in Block : HistoryOf(d) = Append(HistoryOf(c), b) /\ Abstract!Follows(HistoryOf(c), b)
<1> DEFINE blocks == d.blocks
           b == blocks[n + 1]
           h == HistoryOf(c)
<1>1. /\ HeldBlocks(blocks, n + 1) /\ StoreOf(d.txdb, blocks, n + 1) /\ PaidOf(blocks, n + 1)
      /\ \A i \in 1 .. n + 1 : blocks[i] \in Block
      /\ BlockBody[b].parent = blocks[n] /\ b \in Block
  <2>1. LinkedUpTo(blocks, n + 1)
    BY DEF Sound
  <2>2. n + 1 \in 2 .. n + 1 /\ n + 1 \in 1 .. n + 1 /\ (n + 1) - 1 = n
    OBVIOUS
  <2>3. BlockBody[b].parent = blocks[n] /\ \A i \in 1 .. n + 1 : blocks[i] \in Block
    BY <2>1, <2>2 DEF LinkedUpTo
  <2>4. HeldBlocks(blocks, n + 1) /\ StoreOf(d.txdb, blocks, n + 1) /\ PaidOf(blocks, n + 1)
    BY DEF State
  <2> QED BY <2>2, <2>3, <2>4
<1>2. /\ h = [i \in 1 .. n |-> blocks[i]]
      /\ HistoryOf(d) = [i \in 1 .. n + 1 |-> blocks[i]]
  BY DEF HistoryOf
<1> HIDE DEF h, blocks, HistoryOf
<1>3. /\ h \in Seq(Block) /\ Len(h) = n /\ DOMAIN h = 1 .. n /\ h[n] = blocks[n]
      /\ \A i \in 1 .. n : h[i] = blocks[i] /\ h[i] \in Block /\ i \in 1 .. n + 1
  BY <1>1, <1>2
<1>4. HistoryOf(d) = Append(h, b)
  BY <1>2, <1>3
<1>5. ParentOf[b] = h[Len(h)]
  BY <1>1, <1>3 DEF ParentOf
<1>6. \A i \in DOMAIN h : MinedOf[h[i]] \cap MinedOf[b] = {}
  <2> SUFFICES ASSUME NEW i \in 1 .. n, NEW t \in MinedOf[h[i]], t \in MinedOf[b] PROVE FALSE
    BY <1>3
  <2>1. t \in MinedIn(blocks[i]) /\ t \in MinedIn(blocks[n + 1])
    BY <1>1, <1>3 DEF MinedOf
  <2>2. i \in 1 .. n + 1 /\ n + 1 \in 1 .. n + 1 /\ i # n + 1
    OBVIOUS
  <2>3. d.txdb[t] = i /\ d.txdb[t] = n + 1
    BY <1>1, <2>1, <2>2 DEF StoreOf
  <2> QED BY <2>2, <2>3
<1>7. ASSUME NEW w \in Wallet PROVE Abstract!Balance(h, w) + GainsOf[b][w] >= 0
  <2>1. Abstract!Balance(h, w) = Balance(blocks, n, w)
    BY <1>1, <1>2, <1>3, SameBalance
  <2>2. GainsOf[b][w] = GainOf(b, w)
    BY <1>1 DEF GainsOf
  <2>3. Balance(blocks, n + 1, w) = Balance(blocks, n, w) + GainOf(b, w)
    BY <1>1, BalanceGrows
  <2>4. Balance(blocks, n + 1, w) >= 0
    <3>1. n + 1 \in 1 .. n + 1 /\ Moderate(blocks, n + 1)
      BY DEF blocks
    <3> QED BY <1>1, <3>1 DEF PaidOf
  <2> QED BY <2>1, <2>2, <2>3, <2>4
<1>8. Abstract!Follows(h, b)
  BY <1>5, <1>6, <1>7, Zenon DEF Abstract!Follows
<1> QED BY <1>1, <1>4, <1>8 DEF h

\* One with the last block removed.
LEMMA ShorterIsCut ==
  ASSUME NEW n \in Nat, n > 1, NEW c, NEW d, c.numBlocks = n, d.numBlocks = n - 1,
         \A i \in 1 .. n - 1 : d.blocks[i] = c.blocks[i]
  PROVE  Len(HistoryOf(c)) > 1 /\ HistoryOf(d) = SubSeq(HistoryOf(c), 1, Len(HistoryOf(c)) - 1)
<1> DEFINE h == HistoryOf(c)
           s == SubSeq(h, 1, n - 1)
<1>1. h = [i \in 1 .. n |-> c.blocks[i]] /\ HistoryOf(d) = [i \in 1 .. n - 1 |-> d.blocks[i]]
  BY DEF HistoryOf
<1>2. Len(h) = n /\ DOMAIN h = 1 .. n
  BY <1>1
<1>3. s = [i \in 1 .. n - 1 |-> h[i]]
  <2> HIDE DEF h
  <2>1. s = [i \in 1 .. (n - 1) - 1 + 1 |-> h[i + 1 - 1]]
    BY DEF SubSeq
  <2>2. (n - 1) - 1 + 1 = n - 1 /\ \A i \in 1 .. n - 1 : i + 1 - 1 = i
    OBVIOUS
  <2> QED BY <2>1, <2>2
<1>4. \A i \in 1 .. n - 1 : h[i] = d.blocks[i]
  BY <1>1
<1> HIDE DEF h
<1>5. s = HistoryOf(d)
  BY <1>1, <1>3, <1>4
<1> QED BY <1>2, <1>5 DEF h

\* What a step without a crash does to the blocks, from a sound chain.
LEMMA StepOfHistory ==
  ASSUME StateInv, StateInv', Next, crashes' = 0
  PROVE  \/ HistoryOf(chain') = HistoryOf(chain)
         \/ /\ chain'.numBlocks = chain.numBlocks + 1
            /\ \A i \in 1 .. chain.numBlocks : chain'.blocks[i] = chain.blocks[i]
         \/ /\ chain.numBlocks > 1 /\ chain'.numBlocks = chain.numBlocks - 1
            /\ \A i \in 1 .. chain.numBlocks - 1 : chain'.blocks[i] = chain.blocks[i]
<1>1. /\ Sound(chain) /\ IsChain(chain) /\ chain.numBlocks \in Nat \ {0} /\ crashes \in Nat
      /\ LinkedUpTo(chain.blocks, chain.numBlocks) /\ chain.count = chain.numBlocks
  BY DEF StateInv, ChainInv, Sound
<1>2. ASSUME NEW l, chain' = [chain EXCEPT !.ledger = l]
      PROVE  HistoryOf(chain') = HistoryOf(chain)
  <2>1. chain'.numBlocks = chain.numBlocks /\ chain'.blocks = chain.blocks
    BY <1>1, <1>2, LedgerSound
  <2> QED BY <2>1, Zenon DEF HistoryOf
<1>3. CASE \E b \in Block : Add(b)
  <2>1. PICK b \in Block, now \in NetworkTimes : chain' = AddBlock(chain, b, now).chain
    BY <1>3 DEF Add
  <2>2. CASE /\ CheckBlock(chain, b, now) = "SUCCESS"
             /\ AddBlock(chain, b, now).chain = Commit(chain, b, Execution(chain, b).ledger)
    <3> DEFINE l == Execution(chain, b).ledger
    <3>1. chain' = Commit(chain, b, l)
      BY <2>1, <2>2
    <3> HIDE DEF l
    <3>2. /\ chain'.numBlocks = chain.numBlocks + 1 /\ chain'.blocks = SetBlock(chain.blocks, b)
          /\ BlockBody[b].id = chain.numBlocks + 1
      BY <1>1, <2>2, <3>1, CommitSound
    <3>3. \A i \in 1 .. chain.numBlocks : chain'.blocks[i] = chain.blocks[i]
      BY <1>1, <3>2 DEF SetBlock, LinkedUpTo
    <3> QED BY <3>2, <3>3
  <2>3. CASE chain' = chain \/ \E l : chain' = [chain EXCEPT !.ledger = l]
    BY <1>2, <2>3, Zenon DEF HistoryOf
  <2>4. \/ /\ CheckBlock(chain, b, now) = "SUCCESS"
           /\ AddBlock(chain, b, now).chain = Commit(chain, b, Execution(chain, b).ledger)
        \/ chain' = chain \/ \E l : chain' = [chain EXCEPT !.ledger = l]
    BY <1>1, <2>1, AddCases
  <2> QED BY <2>2, <2>3, <2>4, Zenon
<1>4. CASE Pop
  <2>1. chain' = PopBlock(chain) /\ chain.numBlocks > 1
    BY <1>4 DEF Pop
  <2>2. CASE chain.numBlocks > 2
    BY <1>1, <2>1, <2>2, PopFields
  <2>3. CASE ~(chain.numBlocks > 2)
    <3>1. chain.numBlocks = 2 /\ ~(chain.numBlocks - 1 > 1)
      BY <1>1, <2>1, <2>3
    <3>2. chain' = ResetChain
      BY <2>1, <3>1 DEF PopBlock
    <3>3. chain'.numBlocks = 1 /\ chain'.blocks[1] = Genesis
      BY <3>2, ResetSound DEF Sound, LinkedUpTo
    <3>4. chain.blocks[1] = Genesis
      BY <1>1 DEF LinkedUpTo
    <3>5. 2 > 1 /\ 2 - 1 = 1 /\ \A i \in 1 .. 2 - 1 : i = 1
      OBVIOUS
    <3> QED BY <3>1, <3>3, <3>4, <3>5
  <2> QED BY <2>2, <2>3
<1>5. CASE \E t \in Tx : Verify(t)
  <2>1. PICK t \in Tx : chain' = VerifyTransaction(chain, t).chain
    BY <1>5 DEF Verify
  <2>2. chain' = chain \/ \E l : chain' = [chain EXCEPT !.ledger = l]
    BY <2>1 DEF VerifyTransaction
  <2> QED BY <1>2, <2>2, Zenon DEF HistoryOf
<1>6. CASE Restart
  <2>1. OnDisk(chain) /\ chain.count # 0
    BY <1>1 DEF OnDisk, Sound
  <2>2. chain'.numBlocks = chain.numBlocks /\ chain'.blocks = chain.blocks
    BY <1>1, <1>6, <2>1, InitSound DEF Restart
  <2> QED BY <2>2, Zenon DEF HistoryOf
<1>7. CASE CrashAdding \/ CrashPopping
  BY <1>1, <1>7 DEF CrashAdding, CrashPopping
<1> QED BY <1>3, <1>4, <1>5, <1>6, <1>7 DEF Next

\* Until a crash, and while the amounts are moderate, every step of a node's chain is a
\* step of LinkedChain or changes nothing of it: so its history is linked, has no
\* transaction twice, and no wallet in it pays what it does not have.
THEOREM ChainImplementsLinkedChain == Spec => ImplementsLinkedChain
<1>1. Init => Abstract!Init
  <2> SUFFICES ASSUME Init PROVE History = <<Genesis>>
    BY DEF Abstract!Init
  <2>1. chain.numBlocks = 1 /\ chain.blocks[1] = Genesis
    BY ResetSound DEF Init, Sound, LinkedUpTo
  <2>2. History = [i \in 1 .. 1 |-> chain.blocks[i]]
    BY <2>1 DEF History
  <2>3. [i \in 1 .. 1 |-> chain.blocks[i]] = <<Genesis>>
    BY <2>1
  <2> QED BY <2>2, <2>3
<1>2. StateInv /\ StateInv' /\ [Next]_vars =>
        [crashes' = 0 /\ Moderate(chain.blocks, chain.numBlocks)' =>
           Abstract!Grow \/ Abstract!Cut]_History
  <2> SUFFICES ASSUME StateInv, StateInv', [Next]_vars, History' # History, crashes' = 0,
                      Moderate(chain'.blocks, chain'.numBlocks)
               PROVE  Abstract!Grow \/ Abstract!Cut
    OBVIOUS
  <2>1. History = HistoryOf(chain) /\ History' = HistoryOf(chain')
    BY DEF History, HistoryOf
  <2>2. Next
    BY DEF vars, History
  <2>3. /\ chain.numBlocks \in Nat \ {0} /\ Sound(chain') /\ State(chain')
    BY DEF StateInv, ChainInv, Sound
  <2> DEFINE n == chain.numBlocks
             c == chain
             d == chain'
  <2> HIDE DEF n, c, d
  <2>4. CASE /\ chain'.numBlocks = chain.numBlocks + 1
             /\ \A i \in 1 .. chain.numBlocks : chain'.blocks[i] = chain.blocks[i]
    <3>1. /\ n \in Nat \ {0} /\ c.numBlocks = n /\ d.numBlocks = n + 1
          /\ Sound(d) /\ State(d) /\ \A i \in 1 .. n : d.blocks[i] = c.blocks[i]
          /\ Moderate(d.blocks, n + 1)
      BY <2>3, <2>4 DEF n, c, d
    <3>2. \E b \in Block : HistoryOf(d) = Append(HistoryOf(c), b) /\ Abstract!Follows(HistoryOf(c), b)
      BY <3>1, LongerFollows
    <3> QED BY <2>1, <3>2, Zenon DEF Abstract!Grow, c, d
  <2>5. CASE /\ chain.numBlocks > 1 /\ chain'.numBlocks = chain.numBlocks - 1
             /\ \A i \in 1 .. chain.numBlocks - 1 : chain'.blocks[i] = chain.blocks[i]
    <3>1. /\ n \in Nat /\ n > 1 /\ c.numBlocks = n /\ d.numBlocks = n - 1
          /\ \A i \in 1 .. n - 1 : d.blocks[i] = c.blocks[i]
      BY <2>3, <2>5 DEF n, c, d
    <3>2. Len(HistoryOf(c)) > 1 /\ HistoryOf(d) = SubSeq(HistoryOf(c), 1, Len(HistoryOf(c)) - 1)
      BY <3>1, ShorterIsCut
    <3> QED BY <2>1, <3>2, Zenon DEF Abstract!Cut, c, d
  <2> QED BY <2>1, <2>2, <2>4, <2>5, StepOfHistory
<1> QED BY <1>1, <1>2, StateInvInductive, PTL DEF Spec, ImplementsLinkedChain

-------------------------------------------------------------------------------
(* The pool and the blocks: what verifyTransaction accepts.                *)

\* The status of an execution does not change when amounts are moved.
LEMMA MovesStatus ==
  ASSUME NEW r, ExecutionRecord(r), NEW t, NEW m, NEW id
  PROVE  Moves(r, t, m, id).status = r.status
<1>1. ASSUME NEW x, ExecutionRecord(x), x.status = r.status, NEW w, NEW a
      PROVE  /\ ExecutionRecord(Deposit(x, w, a)) /\ Deposit(x, w, a).status = r.status
             /\ ExecutionRecord(Withdraw(x, w, a)) /\ Withdraw(x, w, a).status = r.status
  <2> DEFINE up == Increase(x.ledger, w, a)
             more == Increase(x.deltas, w, a)
             down == Decrease(x.ledger, w, a)
             less == Decrease(x.deltas, w, a)
  <2>1. /\ Deposit(x, w, a) = [x EXCEPT !.ledger = up, !.deltas = more]
        /\ Withdraw(x, w, a) = [x EXCEPT !.ledger = down, !.deltas = less]
    BY <1>1 DEF Deposit, Withdraw
  <2> HIDE DEF up, more, down, less
  <2>2. /\ Deposit(x, w, a) = [status |-> x.status, ledger |-> up, deltas |-> more]
        /\ Withdraw(x, w, a) = [status |-> x.status, ledger |-> down, deltas |-> less]
    BY <1>1, <2>1, TwoMaps
  <2> QED BY <1>1, <2>2 DEF ExecutionRecord
<1> DEFINE b == TxBody[t]
           taken == Withdraw(r, b.from, b.amount)
           paid == Deposit(taken, b.to, b.amount)
           charged == Withdraw(paid, b.from, b.fees)
<1>2. /\ ExecutionRecord(taken) /\ taken.status = r.status
      /\ Deposit(r, b.to, b.amount).status = r.status
  BY <1>1
<1> HIDE DEF taken
<1>3. ExecutionRecord(paid) /\ paid.status = r.status
  BY <1>1, <1>2
<1> HIDE DEF paid
<1>4. ExecutionRecord(charged) /\ charged.status = r.status
  BY <1>1, <1>3
<1> HIDE DEF charged
<1>5. Deposit(charged, m, b.fees).status = r.status
  BY <1>1, <1>4
<1>6. Moves(r, t, m, id) \in {Deposit(r, b.to, b.amount), paid, Deposit(charged, m, b.fees)}
  BY Zenon DEF Moves, paid, charged, taken
<1> QED BY <1>2, <1>3, <1>5, <1>6

\* When a transaction is executed successfully.
LEMMA NextSucceeds ==
  ASSUME NEW r, ExecutionRecord(r), NEW t, NEW m, NEW fee, NEW id
  PROVE  ExecuteNext(r, t, m, fee, id).status = "SUCCESS" <=>
           /\ r.status = "SUCCESS" /\ (TxBody[t].fee \/ TxBody[t].signed \/ id = 1)
           /\ UpdateStatus(r.ledger, t, fee, id) = "SUCCESS"
<1> DEFINE status == UpdateStatus(r.ledger, t, fee, id)
           moved == Moves(r, t, m, id)
           e == ExecuteNext(r, t, m, fee, id)
<1>1. /\ moved.status = r.status
      /\ \A s : [r EXCEPT !.status = s].status = s
  BY MovesStatus DEF ExecutionRecord
<1>2. e = IF r.status # "SUCCESS" THEN r
          ELSE IF ~TxBody[t].fee /\ ~TxBody[t].signed /\ id # 1
               THEN [r EXCEPT !.status = "INVALID_SIGNATURE"]
          ELSE IF status = "SUCCESS" THEN moved ELSE [r EXCEPT !.status = status]
  BY Zenon DEF ExecuteNext, UpdateLedger
<1>3. "INVALID_SIGNATURE" # "SUCCESS"
  OBVIOUS
<1> HIDE DEF status, moved, e
<1> QED BY <1>1, <1>2, <1>3, Zenon DEF status, e

\* What verifyTransaction accepts can be executed by the next block.
LEMMA VerifiedCanBeMined ==
  ASSUME NEW c, c.numBlocks \in Nat \ {0}, NEW t \in Tx, VerifyTransaction(c, t).status = "SUCCESS"
  PROVE  LET id == c.numBlocks + 1
         IN  /\ PassStatus(<<t>>, 1, c.txdb, id) = "SUCCESS"
             /\ \A miner \in Wallet : ExecuteNext(Begin(c.ledger), t, miner, 0, id).status = "SUCCESS"
<1> DEFINE id == c.numBlocks + 1
           l == c.ledger
           x == ExecuteTransaction(l, t)
           y == Begin(l)
<1>1. ~TxBody[t].fee /\ TxBody[t].signed /\ t \notin DOMAIN c.txdb /\ x.status = "SUCCESS"
  <2>1. /\ TxBody[t].fee => VerifyTransaction(c, t).status = "EXTRA_MINING_FEE"
        /\ ~TxBody[t].fee /\ ~TxBody[t].signed => VerifyTransaction(c, t).status = "INVALID_SIGNATURE"
        /\ ~TxBody[t].fee /\ TxBody[t].signed =>
             VerifyTransaction(c, t).status = IF t \in DOMAIN c.txdb THEN "EXPIRED_TRANSACTION" ELSE x.status
    BY DEF VerifyTransaction
  <2> HIDE DEF x
  <2> QED BY <2>1
<1>2. id # 1
  OBVIOUS
<1>3. /\ ExecutionRecord(y) /\ y.status = "SUCCESS" /\ y.ledger = l
      /\ \A s : [y EXCEPT !.status = s].status = s
  BY DEF Begin, ExecutionRecord
<1>4. ~Mismatch(t) /\ UpdateStatus(l, t, 0, 0) = "SUCCESS"
  <2> DEFINE s == UpdateStatus(l, t, 0, 0)
             moved == Moves(y, t, NullAddress, 0)
  <2>1. x = IF ~TxBody[t].signed THEN [y EXCEPT !.status = "INVALID_SIGNATURE"]
            ELSE IF Mismatch(t) THEN [y EXCEPT !.status = "WALLET_SIGNATURE_MISMATCH"]
            ELSE IF s = "SUCCESS" THEN moved ELSE [y EXCEPT !.status = s]
    BY <1>3, Zenon DEF ExecuteTransaction, UpdateLedger
  <2> HIDE DEF s, moved, x, y
  <2> QED BY <1>1, <1>3, <2>1 DEF s
<1>5. UpdateStatus(l, t, 0, id) = "SUCCESS"
  BY <1>1, <1>2, <1>4 DEF UpdateStatus
<1>6. PassStatus(<<t>>, 1, c.txdb, id) = "SUCCESS"
  <2>1. <<t>>[1] = t
    OBVIOUS
  <2> QED BY <1>1, <1>4, <2>1, Zenon DEF PassStatus
<1> HIDE DEF id, l, y
<1>7. ASSUME NEW miner \in Wallet PROVE ExecuteNext(y, t, miner, 0, id).status = "SUCCESS"
  BY <1>1, <1>3, <1>5, NextSucceeds
<1> QED BY <1>6, <1>7 DEF id, l, y

-------------------------------------------------------------------------------
(* Two nodes with the same blocks: what their executions have in common.   *)

SameOnWallets(l, k) == \A u \in Wallet : ValueOf(l, u) = ValueOf(k, u)
Alike(r, s) ==
  /\ r.status = "SUCCESS" <=> s.status = "SUCCESS"
  /\ r.status = "SUCCESS" => SameOnWallets(r.ledger, s.ledger)

\* Whether something is paid is a matter of the value, unless nothing is to be paid.
LEMMA PaidAlike ==
  ASSUME NEW l, NEW k, NEW t \in Tx, NEW fee, NEW id, SameOnWallets(l, k),
         TxBody[t].fee \/ Plus(TxBody[t].amount, TxBody[t].fees) # 0,
         UpdateStatus(l, t, fee, id) = "SUCCESS"
  PROVE  UpdateStatus(k, t, fee, id) = "SUCCESS"
<1> DEFINE b == TxBody[t]
           due == Plus(b.amount, b.fees)
<1>1. b.from \in Wallet /\ due \in Amount
  <2>1. b \in Transaction
    BY ExecutorAssumption
  <2>2. b.from \in Wallet /\ b.amount \in Amount /\ b.fees \in Amount
    <3> HIDE DEF b
    <3> QED BY <2>1 DEF Transaction
  <2> QED BY <2>2, AmountArithmetic
<1>2. /\ ~(id > SigForkBlock /\ Mismatch(t)) /\ ~(b.fee /\ b.amount # fee)
      /\ b.fee \/ id = 1 \/ (HasWallet(l, b.from) /\ ~(l[b.from] < due))
  BY DEF UpdateStatus
<1>3. CASE b.fee \/ id = 1
  BY <1>2, <1>3 DEF UpdateStatus
<1>4. CASE ~(b.fee \/ id = 1)
  <2>1. ValueOf(l, b.from) = l[b.from] /\ ValueOf(k, b.from) = ValueOf(l, b.from)
    BY <1>1, <1>2, <1>4, Zenon DEF HasWallet, ValueOf, SameOnWallets
  <2>2. ~(ValueOf(k, b.from) < due)
    BY <1>2, <1>4, <2>1
  <2>3. 0 < due
    <3>1. due # 0
      BY <1>4
    <3> HIDE DEF due
    <3> QED BY <1>1, <3>1, ExecutorAssumption DEF Amount
  <2>4. b.from \in DOMAIN k /\ k[b.from] = ValueOf(k, b.from)
    <3>1. b.from \notin DOMAIN k => ValueOf(k, b.from) = 0
      BY DEF ValueOf
    <3> HIDE DEF b, due
    <3>2. b.from \in DOMAIN k
      BY <2>2, <2>3, <3>1
    <3> QED BY <3>2, Zenon DEF ValueOf
  <2>5. HasWallet(k, b.from) /\ ~(k[b.from] < due)
    BY <2>2, <2>4 DEF HasWallet
  <2> QED BY <1>2, <1>4, <2>5 DEF UpdateStatus
<1> QED BY <1>3, <1>4

\* One transaction.
LEMMA NextAlike ==
  ASSUME NEW r, NEW s, NEW l, NEW k, NEW t, NEW m, NEW fee, NEW id, NEW r2, NEW s2,
         AmountMap(l), AmountMap(k), Explains(r, l), Explains(s, k), Alike(r, s), t \in Tx,
         TxBody[t].fee \/ Plus(TxBody[t].amount, TxBody[t].fees) # 0,
         r2 = ExecuteNext(r, t, m, fee, id), s2 = ExecuteNext(s, t, m, fee, id)
  PROVE  Alike(r2, s2)
<1>1. ExecutionRecord(r) /\ ExecutionRecord(s)
  BY DEF Explains
<1>2. /\ r2.status = "SUCCESS" <=>
           /\ r.status = "SUCCESS" /\ (TxBody[t].fee \/ TxBody[t].signed \/ id = 1)
           /\ UpdateStatus(r.ledger, t, fee, id) = "SUCCESS"
      /\ s2.status = "SUCCESS" <=>
           /\ s.status = "SUCCESS" /\ (TxBody[t].fee \/ TxBody[t].signed \/ id = 1)
           /\ UpdateStatus(s.ledger, t, fee, id) = "SUCCESS"
  BY <1>1, NextSucceeds
<1>3. r.status = "SUCCESS" <=> s.status = "SUCCESS"
  BY DEF Alike
<1>4. r.status = "SUCCESS" => SameOnWallets(r.ledger, s.ledger) /\ SameOnWallets(s.ledger, r.ledger)
  BY Zenon DEF Alike, SameOnWallets
<1>5. r.status = "SUCCESS" => (UpdateStatus(r.ledger, t, fee, id) = "SUCCESS" <=>
                               UpdateStatus(s.ledger, t, fee, id) = "SUCCESS")
  <2> SUFFICES ASSUME r.status = "SUCCESS"
               PROVE  UpdateStatus(r.ledger, t, fee, id) = "SUCCESS" <=>
                      UpdateStatus(s.ledger, t, fee, id) = "SUCCESS"
    OBVIOUS
  <2> DEFINE a == r.ledger
             b == s.ledger
  <2>1. SameOnWallets(a, b) /\ SameOnWallets(b, a)
    BY <1>4
  <2> HIDE DEF a, b
  <2>2. UpdateStatus(a, t, fee, id) = "SUCCESS" => UpdateStatus(b, t, fee, id) = "SUCCESS"
    BY <2>1, PaidAlike
  <2>3. UpdateStatus(b, t, fee, id) = "SUCCESS" => UpdateStatus(a, t, fee, id) = "SUCCESS"
    BY <2>1, PaidAlike
  <2> QED BY <2>2, <2>3 DEF a, b
<1>6. r2.status = "SUCCESS" <=> s2.status = "SUCCESS"
  BY <1>2, <1>3, <1>5
<1>7. ASSUME r2.status = "SUCCESS" PROVE SameOnWallets(r2.ledger, s2.ledger)
  <2>1. \A u : ValueOf(r2.ledger, u) = Moved(t, m, id, u, ValueOf(r.ledger, u))
    BY <1>7, ExecuteExplains
  <2>2. \A u : ValueOf(s2.ledger, u) = Moved(t, m, id, u, ValueOf(s.ledger, u))
    BY <1>6, <1>7, ExecuteExplains
  <2>3. \A u \in Wallet : ValueOf(r.ledger, u) = ValueOf(s.ledger, u)
    BY <1>2, <1>4, <1>7 DEF SameOnWallets
  <2> QED BY <2>1, <2>2, <2>3, Zenon DEF SameOnWallets
<1> QED BY <1>6, <1>7 DEF Alike

\* All transactions.
LEMMA ExecutedAlike ==
  ASSUME NEW txs, NEW l, NEW k, NEW fee, NEW id, txs \in Seq(Tx), AmountMap(l), AmountMap(k),
         SameOnWallets(l, k),
         \A i \in 1 .. Len(txs) : TxBody[txs[i]].fee \/ Plus(TxBody[txs[i]].amount, TxBody[txs[i]].fees) # 0
  PROVE  Alike(Executed(txs, Len(txs), id, l, fee), Executed(txs, Len(txs), id, k, fee))
<1> DEFINE len == Len(txs)
           E(i) == Executed(txs, i, id, l, fee)
           F(i) == Executed(txs, i, id, k, fee)
           P(i) == Alike(E(i), F(i))
           G == {n \in Nat : n <= len => P(n)}
<1>1. len \in Nat /\ \A i \in 1 .. len : txs[i] \in Tx
  OBVIOUS
<1>2. P(0)
  <2>1. 0 \in 0 .. Len(txs)
    BY <1>1
  <2>2. E(0) = Begin(l) /\ F(0) = Begin(k)
    BY <2>1, ExecutedSteps
  <2>3. /\ Begin(l).status = "SUCCESS" /\ Begin(k).status = "SUCCESS"
        /\ Begin(l).ledger = l /\ Begin(k).ledger = k
    BY DEF Begin
  <2> HIDE DEF E, F
  <2> QED BY <2>2, <2>3, Zenon DEF Alike
<1>3. ASSUME NEW i \in 1 .. len, P(i - 1)
      PROVE  P(i)
  <2> DEFINE r == E(i - 1)
             s == F(i - 1)
             r2 == E(i)
             s2 == F(i)
             t == txs[i]
             m == Miner(txs)
  <2>1. i - 1 \in 0 .. Len(txs) /\ i \in 0 .. Len(txs) /\ i # 0 /\ t \in Tx
    BY <1>1
  <2>2. r = Executed(txs, i - 1, id, l, fee) /\ s = Executed(txs, i - 1, id, k, fee)
    OBVIOUS
  <2>3. r2 = ExecuteNext(r, t, m, fee, id) /\ s2 = ExecuteNext(s, t, m, fee, id)
    BY <2>1, ExecutedSteps
  <2>4. TxBody[t].fee \/ Plus(TxBody[t].amount, TxBody[t].fees) # 0
    OBVIOUS
  <2>5. Alike(r, s)
    BY <1>3
  <2> HIDE DEF E, F, r, s, r2, s2, t, m
  <2>6. Explains(r, l) /\ Explains(s, k)
    BY <2>1, <2>2, ExecutedExplains
  <2>7. Alike(r2, s2)
    BY <2>1, <2>3, <2>4, <2>5, <2>6, NextAlike
  <2> QED BY <2>7 DEF r2, s2
<1> HIDE DEF P
<1>4. 0 \in G
  BY <1>2
<1>5. ASSUME NEW n \in Nat, n \in G PROVE n + 1 \in G
  <2> SUFFICES ASSUME n + 1 <= len PROVE P(n + 1)
    OBVIOUS
  <2>1. n + 1 \in 1 .. len /\ (n + 1) - 1 = n /\ P(n)
    BY <1>1, <1>5
  <2> QED BY <1>3, <2>1
<1>6. Nat \subseteq G
  <2> HIDE DEF G
  <2> QED BY <1>4, <1>5, SetInduction
<1>7. P(len)
  BY <1>1, <1>6
<1> QED BY <1>7 DEF P

\* The first pass asks the transaction store for its transactions only.
LEMMA PassAlike ==
  ASSUME NEW txs, NEW d, NEW e, NEW id, NEW fee, DOMAIN d = DOMAIN e
  PROVE  FirstPass(txs, d, id, fee) = FirstPass(txs, e, id, fee)
<1>1. \A i : PassStatus(txs, i, d, id) = PassStatus(txs, i, e, id)
  BY Zenon DEF PassStatus
<1>2. {i \in DOMAIN txs : PassStatus(txs, i, d, id) # "SUCCESS"}
        = {i \in DOMAIN txs : PassStatus(txs, i, e, id) # "SUCCESS"}
  BY <1>1
<1> QED BY <1>1, <1>2, Zenon DEF FirstPass

\* The chain that has the same blocks and no other past.
LEMMA FreshFields ==
  ASSUME NEW c, Sound(c), State(c)
  PROVE  LET e == FromBlocks(c)
         IN  /\ e.blocks = c.blocks /\ e.numBlocks = c.numBlocks /\ e.lastHash = c.lastHash
             /\ DOMAIN e.txdb = DOMAIN c.txdb
             /\ AmountMap(e.ledger) /\ AmountMap(c.ledger) /\ SameOnWallets(c.ledger, e.ledger)
             /\ ~AtRetarget(c.numBlocks) => c.difficulty = e.difficulty
<1> DEFINE n == c.numBlocks
           ledger == [w \in Wallet |-> Balance(c.blocks, c.numBlocks, w) % AmountLimit]
           txdb == [t \in StoredTxs(c) |-> CHOOSE i \in 1 .. c.numBlocks : t \in MinedIn(c.blocks[i])]
           tip == BlockBody[Tip(c)].difficulty
           d == UpdateDifficulty([c EXCEPT !.difficulty = tip])
           e == [c EXCEPT !.ledger = ledger, !.txdb = txdb, !.difficulty = d]
<1>1. FromBlocks(c) = e
  BY DEF FromBlocks
<1>2. /\ IsChain(c) /\ n \in Nat \ {0} /\ HeldBlocks(c.blocks, n) /\ BalancesOf(c.ledger, c.blocks, n)
      /\ c.difficulty \in MayFollow(c.blocks, n) /\ StoreOf(c.txdb, c.blocks, n)
  BY DEF Sound, State
<1>3. AmountMap(c.ledger)
  BY <1>2, BalancesAreAmounts
<1>4. \A w \in Wallet : ValueOf(ledger, w) = ValueOf(c.ledger, w)
  BY <1>2, Zenon DEF BalancesOf, ValueOf
<1>5. AmountMap(ledger)
  <2> SUFFICES ASSUME NEW w PROVE ValueOf(ledger, w) \in Amount
    BY DEF AmountMap
  <2>1. CASE w \in Wallet
    <3>1. ValueOf(c.ledger, w) \in Amount
      BY <1>3 DEF AmountMap
    <3> HIDE DEF ledger
    <3> QED BY <1>4, <2>1, <3>1
  <2>2. CASE w \notin Wallet
    <3>1. ValueOf(ledger, w) = 0
      BY <2>2 DEF ValueOf
    <3>2. 0 \in Amount
      BY ExecutorAssumption DEF Amount
    <3> QED BY <3>1, <3>2
  <2> QED BY <2>1, <2>2
<1>6. DOMAIN txdb = DOMAIN c.txdb
  BY <1>2, Zenon DEF StoreOf, StoredTxs
<1>7. ~AtRetarget(n) => c.difficulty = d
  <2> SUFFICES ASSUME ~AtRetarget(n) PROVE c.difficulty = d
    OBVIOUS
  <2> DEFINE h == [c EXCEPT !.difficulty = tip]
  <2>1. h.numBlocks = n /\ h.difficulty = tip
    <3> HIDE DEF tip
    <3> QED BY <1>2 DEF IsChain, ChainFields
  <2> HIDE DEF h
  <2>2. UpdateDifficulty(h) = tip
    BY <2>1, Zenon DEF UpdateDifficulty
  <2> DEFINE g == [blocks |-> c.blocks, numBlocks |-> n, difficulty |-> tip]
  <2>3. g.numBlocks = n /\ g.difficulty = tip
    OBVIOUS
  <2>4. NextDifficulty(c.blocks, n, tip) = UpdateDifficulty(g)
    BY DEF NextDifficulty
  <2> HIDE DEF g
  <2>5. NextDifficulty(c.blocks, n, tip) = tip
    BY <2>3, <2>4, Zenon DEF UpdateDifficulty
  <2>6. c.difficulty = tip
    BY <1>2, <2>5 DEF MayFollow, DifficultyOf, Tip
  <2> QED BY <2>2, <2>6 DEF h
<1> HIDE DEF ledger, txdb, d
<1>8. /\ e.blocks = c.blocks /\ e.numBlocks = n /\ e.lastHash = c.lastHash
      /\ e.txdb = txdb /\ e.ledger = ledger /\ e.difficulty = d
  BY <1>2 DEF IsChain, ChainFields
<1> HIDE DEF e
<1>9. SameOnWallets(c.ledger, ledger)
  BY <1>4 DEF SameOnWallets
<1> QED BY <1>1, <1>3, <1>5, <1>6, <1>7, <1>8, <1>9, Zenon

\* It accepts the same blocks.
LEMMA FreshAccepts ==
  ASSUME NEW c, Sound(c), State(c), NEW b \in Block, NEW now, c.difficulty = FromBlocks(c).difficulty,
         \A t \in MinedIn(b) : Plus(TxBody[t].amount, TxBody[t].fees) # 0
  PROVE  AddBlock(c, b, now).status = "SUCCESS" <=> AddBlock(FromBlocks(c), b, now).status = "SUCCESS"
<1> DEFINE e == FromBlocks(c)
           txs == Ordered(b)
           id == BlockBody[b].id
           fee == MiningFee(c.numBlocks)
           l == c.ledger
           k == e.ledger
           E == Executed(txs, Len(txs), id, l, fee)
           F == Executed(txs, Len(txs), id, k, fee)
           x == Execution(c, b)
           y == Execution(e, b)
           pass == FirstPass(txs, c.txdb, id, fee)
           refused == [Begin(l) EXCEPT !.status = pass]
           refusedToo == [Begin(k) EXCEPT !.status = pass]
<1>1. /\ e.blocks = c.blocks /\ e.numBlocks = c.numBlocks /\ e.lastHash = c.lastHash
      /\ DOMAIN e.txdb = DOMAIN c.txdb /\ e.difficulty = c.difficulty
      /\ AmountMap(k) /\ AmountMap(l) /\ SameOnWallets(l, k)
  BY FreshFields
<1> HIDE DEF e
<1>2. MedianTime(e) = MedianTime(c)
  BY <1>1, Zenon DEF MedianTime
<1>3. CheckBlock(e, b, now) = CheckBlock(c, b, now)
  BY <1>1, <1>2, Zenon DEF CheckBlock
<1>4. pass = FirstPass(txs, e.txdb, id, fee)
  BY <1>1, PassAlike
<1>5. /\ x = IF pass # "SUCCESS" THEN refused ELSE E
      /\ y = IF pass # "SUCCESS" THEN refusedToo ELSE F
  BY <1>1, <1>4, Zenon DEF Execution, ExecuteBlock
<1>6. refused.status = pass /\ refusedToo.status = pass
  BY DEF Begin
<1>7. Alike(E, F)
  <2>1. txs \in Seq(Tx)
    BY OrderedIsSeq
  <2>2. \A i \in 1 .. Len(txs) : TxBody[txs[i]].fee \/ Plus(TxBody[txs[i]].amount, TxBody[txs[i]].fees) # 0
    <3>1. \A i \in 1 .. Len(txs) : txs[i] \in Range(txs)
      BY <2>1 DEF Range
    <3> QED BY <3>1 DEF MinedIn
  <2> HIDE DEF txs, id, fee, l, k
  <2> QED BY <1>1, <2>1, <2>2, ExecutedAlike
<1> HIDE DEF E, F, refused, refusedToo, pass, x, y
<1>8. x.status = "SUCCESS" <=> y.status = "SUCCESS"
  BY <1>5, <1>6, <1>7 DEF Alike
<1>9. /\ AddBlock(c, b, now).status = "SUCCESS" <=> CheckBlock(c, b, now) = "SUCCESS" /\ x.status = "SUCCESS"
      /\ AddBlock(e, b, now).status = "SUCCESS" <=> CheckBlock(e, b, now) = "SUCCESS" /\ y.status = "SUCCESS"
  <2>1. ASSUME NEW f, NEW z, z = Execution(f, b)
        PROVE  AddBlock(f, b, now).status = "SUCCESS" <=> CheckBlock(f, b, now) = "SUCCESS" /\ z.status = "SUCCESS"
    <3> DEFINE check == CheckBlock(f, b, now)
    <3>1. AddBlock(f, b, now) = IF check = "SUCCESS" THEN Finish(f, b, z) ELSE [status |-> check, chain |-> f]
      BY <2>1, Zenon DEF AddBlock
    <3>2. Finish(f, b, z).status = z.status
      BY DEF Finish
    <3>3. [status |-> check, chain |-> f].status = check
      OBVIOUS
    <3> HIDE DEF check
    <3>4. AddBlock(f, b, now).status = "SUCCESS" <=> check = "SUCCESS" /\ z.status = "SUCCESS"
      BY <3>1, <3>2, <3>3
    <3> QED BY <3>4 DEF check
  <2> QED BY <2>1, Zenon DEF x, y
<1> QED BY <1>3, <1>8, <1>9 DEF e

\* No two judges disagree: a transaction that the pool verified can be mined, whoever
\* mines it and also after a crash, and until a crash a block is accepted for the blocks
\* before it, whatever else the node has done.
THEOREM JudgesAgree == Spec => []VerdictsAgree
<1>1. StateInv => VerdictsAgree
  <2> SUFFICES ASSUME StateInv PROVE VerdictsAgree
    OBVIOUS
  <2>1. Sound(chain) /\ chain.numBlocks \in Nat \ {0} /\ (crashes = 0 => State(chain))
    BY DEF StateInv, ChainInv, Sound
  <2>2. VerifiedExecutes
    <3>1. \A t \in Tx : VerifyTransaction(chain, t).status = "SUCCESS" =>
            LET id == chain.numBlocks + 1
            IN  /\ PassStatus(<<t>>, 1, chain.txdb, id) = "SUCCESS"
                /\ \A miner \in Wallet : ExecuteNext(Begin(chain.ledger), t, miner, 0, id).status = "SUCCESS"
      <4> DEFINE c == chain
      <4>1. c.numBlocks \in Nat \ {0}
        BY <2>1
      <4> HIDE DEF c
      <4>2. \A t \in Tx : VerifyTransaction(c, t).status = "SUCCESS" =>
              LET id == c.numBlocks + 1
              IN  /\ PassStatus(<<t>>, 1, c.txdb, id) = "SUCCESS"
                  /\ \A miner \in Wallet : ExecuteNext(Begin(c.ledger), t, miner, 0, id).status = "SUCCESS"
        BY <4>1, VerifiedCanBeMined
      <4> QED BY <4>2 DEF c
    <3> QED BY <3>1, Zenon DEF VerifiedExecutes
  <2>3. SameVerdict
    <3> DEFINE fresh == FromBlocks(chain)
    <3> SUFFICES ASSUME crashes = 0, ~(AtRetarget(chain.numBlocks) /\ chain.difficulty # fresh.difficulty),
                        NEW b \in Block, NEW now \in NetworkTimes,
                        ~\E t \in MinedIn(b) : Plus(TxBody[t].amount, TxBody[t].fees) = 0
                 PROVE  AddBlock(chain, b, now).status = "SUCCESS" <=> AddBlock(fresh, b, now).status = "SUCCESS"
      BY Zenon DEF SameVerdict
    <3>1. chain.difficulty = fresh.difficulty
      BY <2>1, FreshFields
    <3>2. \A t \in MinedIn(b) : Plus(TxBody[t].amount, TxBody[t].fees) # 0
      OBVIOUS
    <3> QED BY <2>1, <3>1, <3>2, FreshAccepts
  <2> QED BY <2>2, <2>3 DEF VerdictsAgree
<1> QED BY <1>1, StateInvInductive, PTL DEF Spec
================================================================================
