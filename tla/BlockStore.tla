------------------------------ MODULE BlockStore ------------------------------
(***************************************************************************)
(* The block database of a node, key by key: src/c++/src/server/           *)
(* block_store.cpp as addBlock, popBlock and resetChain of blockchain.cpp  *)
(* use it, with a request thread that reads a block without the chain's    *)
(* lock (getRaw) and crashes between any two writes.                       *)
(*                                                                         *)
(* A block is a header under its id and one row for each transaction under *)
(* its id and index.  Nothing is deleted when a block is removed: only the *)
(* count goes down, and the next block of that id overwrites what it needs.*)
(***************************************************************************)
EXTENDS Integers, Sequences, FiniteSetsExt

CONSTANTS StoredBlock, \* blocks, each may come at any height
          Origin,
          Size,        \* Size[b]: the number of its transactions
          MaxBlocks,   \* bound: the longest chain
          MaxCrashes   \* bound: crashes

ASSUME BlockStoreAssumption ==
  /\ Origin \in StoredBlock /\ Size \in [StoredBlock -> Nat]
  /\ MaxBlocks \in Nat /\ MaxCrashes \in Nat

VARIABLES disk,       \* the database: headers, rows, count (0 for none)
          chain,      \* the blocks the node holds; its length is numBlocks
          committed,  \* history: those at the last write of the count
          todo,       \* writes that the running addBlock or popBlock has yet to do
          node,       \* "up", or "broken": initChain has thrown
          reader,     \* the request thread
          crashes
storeVars == <<disk, chain, committed, todo, node, reader, crashes>>

-------------------------------------------------------------------------------
(* The writes of each operation, in order.                                 *)

Set(f, key, value) == [k \in DOMAIN f \cup {key} |-> IF k = key THEN value ELSE f[k]]

BlockWrites(b, id) ==
  <<[op |-> "header", id |-> id, block |-> b]>> \o
  [i \in 1 .. Size[b] |-> [op |-> "row", id |-> id, index |-> i, block |-> b]]

\* Mutant: node and disk count the block before it is stored.
AddBlockCountFirst(b, id) ==
  <<[op |-> "grow", block |-> b], [op |-> "count"]>> \o BlockWrites(b, id)

AddBlockWrites(b, id) ==
  BlockWrites(b, id) \o <<[op |-> "grow", block |-> b], [op |-> "count"]>>

\* clear() deletes in the order of the keys: the keys of a block begin with its
\* id, a low byte, BLOCK_COUNT with a letter.  The ids run from 1 to the last one.
Clear ==
  [i \in 1 .. Max(DOMAIN disk.headers \cup {0}) |-> [op |-> "drop", id |-> i]]
    \o <<[op |-> "uncount"]>>
ResetChainWrites == <<[op |-> "empty"]>> \o Clear \o AddBlockWrites(Origin, 1)

PopBlockWrites ==
  <<[op |-> "shrink"], [op |-> "count"]>> \o IF Len(chain) > 2 THEN <<>> ELSE ResetChainWrites

-------------------------------------------------------------------------------
(* Reading.                                                                *)

HasBlockCount == disk.count # 0
\* A row under its id and index, as getBlockTransactions and getRawData read it.
HasRows(id, n) == \A i \in 1 .. n : <<id, i>> \in DOMAIN disk.rows
Readable(id) == id \in DOMAIN disk.headers /\ HasRows(id, Size[disk.headers[id]])
GetBlock(id) ==
  LET header == disk.headers[id]
  IN  [header |-> header, rows |-> [i \in 1 .. Size[header] |-> disk.rows[<<id, i>>]]]
WholeBlock(b) == [header |-> b, rows |-> [i \in 1 .. Size[b] |-> b]]

NoReader == [pc |-> "idle"]

-------------------------------------------------------------------------------
StoreInit ==
  /\ disk = [headers |-> <<>>, rows |-> <<>>, count |-> 0]
  /\ chain = <<>> /\ committed = <<>>
  /\ todo = AddBlockWrites(Origin, 1)
  /\ node = "up" /\ reader = NoReader /\ crashes = 0

StartAdd(b) ==
  /\ node = "up" /\ todo = <<>> /\ Len(chain) < MaxBlocks
  /\ todo' = AddBlockWrites(b, Len(chain) + 1)
  /\ UNCHANGED <<disk, chain, committed, node, reader, crashes>>

StartPop ==
  /\ node = "up" /\ todo = <<>> /\ Len(chain) > 1
  /\ todo' = PopBlockWrites
  /\ UNCHANGED <<disk, chain, committed, node, reader, crashes>>

\* The next write.  The reader notes that a block was removed under it.
DiskAfter(w) ==
  CASE w.op = "header" -> [disk EXCEPT !.headers = Set(@, w.id, w.block)]
    [] w.op = "row" -> [disk EXCEPT !.rows = Set(@, <<w.id, w.index>>, w.block)]
    [] w.op = "count" -> [disk EXCEPT !.count = Len(chain)]
    [] w.op = "drop" -> [disk EXCEPT !.headers = [i \in DOMAIN @ \ {w.id} |-> @[i]],
                                     !.rows = [k \in {r \in DOMAIN @ : r[1] # w.id} |-> @[k]]]
    [] w.op = "uncount" -> [disk EXCEPT !.count = 0]
    [] OTHER -> disk
ChainAfter(w) ==
  CASE w.op = "grow" -> Append(chain, w.block)
    [] w.op = "shrink" -> SubSeq(chain, 1, Len(chain) - 1)
    [] w.op = "empty" -> <<>>
    [] OTHER -> chain
Write ==
  /\ node = "up" /\ todo # <<>>
  /\ disk' = DiskAfter(Head(todo))
  /\ chain' = ChainAfter(Head(todo))
  /\ committed' = IF Head(todo).op \in {"count", "uncount"} THEN chain ELSE committed
  /\ reader' = IF Head(todo).op \in {"shrink", "empty"} /\ reader.pc # "idle"
               THEN [reader EXCEPT !.removed = TRUE] ELSE reader
  /\ todo' = Tail(todo)
  /\ UNCHANGED <<node, crashes>>

\* The process ends and initChain runs again: with a count it loads the last
\* block, without one it resets the chain.
Crash ==
  /\ node = "up" /\ crashes < MaxCrashes
  /\ crashes' = crashes + 1
  /\ reader' = NoReader
  /\ IF HasBlockCount
     THEN /\ node' = IF Readable(disk.count) THEN "up" ELSE "broken"
          /\ chain' = committed /\ todo' = <<>>
     ELSE node' = "up" /\ chain' = <<>> /\ todo' = ResetChainWrites
  /\ UNCHANGED <<disk, committed>>

-------------------------------------------------------------------------------
(* getRaw: the id is compared with numBlocks, then header and rows are     *)
(* read one after the other.                                               *)

MayRead(id) == id \in 1 .. Len(chain)

CheckId(id) ==
  /\ node = "up" /\ reader.pc = "idle" /\ MayRead(id)
  /\ reader' = [pc |-> "header", id |-> id, removed |-> FALSE]
  /\ UNCHANGED <<disk, chain, committed, todo, node, crashes>>

ReadHeader ==
  /\ node = "up" /\ reader.pc = "header"
  /\ reader' = IF reader.id \in DOMAIN disk.headers
               THEN [pc |-> "rows", id |-> reader.id, removed |-> reader.removed,
                     header |-> disk.headers[reader.id], rows |-> <<>>]
               ELSE NoReader
  /\ UNCHANGED <<disk, chain, committed, todo, node, crashes>>

ReadRow ==
  /\ node = "up" /\ reader.pc = "rows"
  /\ LET i == Len(reader.rows) + 1
     IN  IF i > Size[reader.header] THEN reader' = [reader EXCEPT !.pc = "read"]
         ELSE IF <<reader.id, i>> \in DOMAIN disk.rows
         THEN reader' = [reader EXCEPT !.rows = Append(@, disk.rows[<<reader.id, i>>])]
         ELSE reader' = NoReader
  /\ UNCHANGED <<disk, chain, committed, todo, node, crashes>>

EndRead ==
  /\ reader.pc = "read"
  /\ reader' = NoReader
  /\ UNCHANGED <<disk, chain, committed, todo, node, crashes>>

StoreNext ==
  \/ \E b \in StoredBlock : StartAdd(b)
  \/ StartPop \/ Write \/ Crash
  \/ \E id \in 1 .. MaxBlocks : CheckId(id)
  \/ ReadHeader \/ ReadRow \/ EndRead
StoreSpec == StoreInit /\ [][StoreNext]_storeVars

-------------------------------------------------------------------------------
\* Every block the node holds can be read from the database, header and rows all
\* of that block, at every moment of an addition or a removal: also where an
\* earlier, removed block of the same id had other and more transactions.
HeldBlocksWhole ==
  node = "up" => \A i \in DOMAIN chain : Readable(i) /\ GetBlock(i) = WholeBlock(chain[i])

\* Whenever the process ends, the blocks up to the count on disk are those the
\* node held when the count was written, and whole; only a crash while clear()
\* deletes block by block leaves a count without its block, and a node that
\* cannot be started again.
CountedBlocksWhole ==
  LET clearing == \E i \in DOMAIN todo : todo[i].op = "uncount"
  IN  /\ node = "up" /\ ~clearing =>
           /\ disk.count = Len(committed)
           /\ \A i \in DOMAIN committed : Readable(i) /\ GetBlock(i) = WholeBlock(committed[i])
      /\ node = "broken" => 1 \notin DOMAIN disk.headers

\* A thread that reads a block without the lock gets one block, and one the node
\* held, unless a block was removed while it read (then rows of another block may
\* follow the header).
ReadsWhole ==
  reader.pc = "read" /\ ~reader.removed =>
    /\ [header |-> reader.header, rows |-> reader.rows] = WholeBlock(reader.header)
    /\ reader.id \in DOMAIN chain /\ chain[reader.id] = reader.header

\* The blocks that the node holds are whole in the database at every moment, those
\* counted on disk when the process ends too, and a reader without the lock gets one
\* block that the node held, unless one was removed while it read.
BlocksWhole == HeldBlocksWhole /\ CountedBlocksWhole /\ ReadsWhole

===============================================================================
