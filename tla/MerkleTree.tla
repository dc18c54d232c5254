------------------------------ MODULE MerkleTree ------------------------------
(***************************************************************************)
(* src/c++/src/core/merkle_tree.cpp: the tree over a block's transactions, *)
(* whose root is in the block's header, and the proof that the request     *)
(* manager gives for one of them.                                          *)
(*                                                                         *)
(* A transaction is its hash, a number.  concatHashes has no collisions    *)
(* here: the hash of two hashes is the pair of them, so a node is its      *)
(* hash.  A leaf is a list of one, to tell it from them.                   *)
(***************************************************************************)
EXTENDS Integers, Sequences, SequencesExt

NoTree == <<>>

\* Mutant: the items stay in the order they came in.
Unsorted(items) == items

\* setItems sorts the items themselves, by descending hash.
Sorted(items) == SortSeq(items, LAMBDA a, b : a > b)

\* An odd number of leaves is made even by the last one.
Leaves(items) ==
  LET sorted == Sorted(items)
      s == [i \in DOMAIN sorted |-> <<sorted[i]>>]
  IN  IF Len(s) % 2 = 1 THEN Append(s, s[Len(s)]) ELSE s

\* The two nodes that are longest in the queue become one at its end.
Join(queue) == Append(SubSeq(queue, 3, Len(queue)), <<queue[1], queue[2]>>)

RECURSIVE Joined(_)
Joined(queue) == IF Len(queue) > 1 THEN Joined(Join(queue)) ELSE queue[1]

\* setItems and getRootHash; without items there is no tree to ask.
Root(items) == IF items = <<>> THEN NoTree ELSE Joined(Leaves(items))

IsLeaf(node) == Len(node) = 1

RECURSIVE LeavesOf(_)
LeavesOf(node) == IF IsLeaf(node) THEN {node[1]} ELSE LeavesOf(node[1]) \cup LeavesOf(node[2])

\* getProof goes up from a leaf and keeps the last level only: the root with its
\* two children.  What is below them stays attached, and hashTreeToJson writes all
\* of it.
GetProof(items) == Root(items)

\* getMerkleProof
MerkleProof(items, t) == IF t \notin ToSet(items) THEN NoTree ELSE GetProof(items)

\* RequestManager::verifyTransaction: the transaction store names a block, whose
\* transactions are read again.
Proof(txdb, blocks, t) ==
  IF t \notin DOMAIN txdb \/ txdb[t] \notin DOMAIN blocks
  THEN [error |-> "Could not find block", proof |-> NoTree]
  ELSE IF MerkleProof(blocks[txdb[t]], t) = NoTree
       THEN [error |-> "Could not find transaction in block", proof |-> NoTree]
       ELSE [error |-> "", proof |-> MerkleProof(blocks[txdb[t]], t)]

===============================================================================
