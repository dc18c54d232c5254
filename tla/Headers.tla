-------------------------------- MODULE Headers --------------------------------
(***************************************************************************)
(* Blocks as src/c++/src/core/block.hpp has them: a block is a name, which *)
(* also stands for its hash; `BlockBody' gives its contents, whether its   *)
(* nonce is right among them.                                              *)
(***************************************************************************)
EXTENDS Integers

CONSTANTS Block, BlockBody,  \* blocks and their contents
          NullHash           \* NULL_SHA256_HASH

ASSUME HeaderAssumption ==
  /\ NullHash \notin Block
  /\ \A b \in Block : /\ BlockBody[b].parent \in Block \cup {NullHash}
                      /\ BlockBody[b].difficulty \in Nat /\ BlockBody[b].nonceOk \in BOOLEAN

\* What a block adds to the work of its chain.
Work(b) == 2 ^ BlockBody[b].difficulty

\* A power of two is a natural number: for the provers, which do not know `^'.
ASSUME WorkAssumption == \A b \in Block : Work(b) \in Nat

===============================================================================
