----------------------------- MODULE MCAlgorithms -----------------------------
(***************************************************************************)
(* The pure computations over all inputs within bounds: those of           *)
(* Computations, the next difficulty (Difficulty) and the tree over a      *)
(* block's transactions (MerkleTree).  A step chooses one and its input.   *)
(***************************************************************************)
EXTENDS Computations, Difficulty, MerkleTree

CONSTANTS Currents,     \* difficulties of the last block
          Expecteds,    \* target times of a period
          Backwards,    \* seconds the clock may have gone back
          LastElapsed,  \* greatest elapsed time
          Txs,          \* transactions, by their hashes
          MaxTxs        \* bound: transactions in a block

Bundles == UNION {[1 .. n -> Txs] : n \in 1 .. MaxTxs}

EndPeriod ==
  input' \in [of : {"difficulty"}, current : Currents, expected : Expecteds,
              elapsed : -Backwards .. LastElapsed]
BuildTree == input' \in [of : {"tree"}, items : Bundles]

Init == ComputationsInit
Next == input.of = "nothing" /\ (ComputationsNext \/ EndPeriod \/ BuildTree)
Spec == Init /\ [][Next]_input

-------------------------------------------------------------------------------
(* The next difficulty.                                                    *)

Result(e) == ComputeDifficulty(input.current, e, input.expected)

\* The time a period is thought to take some difficulties away.
RECURSIVE Scaled(_, _)
Scaled(e, steps) ==
  IF steps = 0 THEN e ELSE IF steps > 0 THEN Scaled(2 * e, steps - 1) ELSE Scaled(e \div 2, steps + 1)

\* Among all difficulties at most ten away, in the direction of the change, the
\* result brings the period's time as near to the target as any, and the most
\* distant of the equally near ones is taken (computeDifficulty stops at the
\* first step that is worse: no later step may be better).
NearestDifficulty ==
  input.of = "difficulty" /\ input.elapsed > 0 =>
    LET up == input.elapsed <= input.expected
        from == IF up THEN input.current ELSE Max({LeastDifficulty, input.current - 10})
        to == IF up THEN Min({GreatestDifficulty, input.current + 10}) ELSE input.current
        Error(d) == Distance(Scaled(input.elapsed, d - input.current), input.expected)
        best == {d \in from .. to : \A x \in from .. to : Error(d) <= Error(x)}
    IN  Result(input.elapsed) = IF up THEN Max(best) ELSE Min(best)

\* A period that took longer never yields a higher difficulty than one that took
\* less time, once any time has passed; at no time at all the loop runs to its
\* upper end, and for a clock that went back nothing changes.
SlowerIsEasier ==
  input.of = "difficulty" =>
    LET e == input.elapsed
    IN  /\ 0 < e => Result(e) >= Result(e + 1)
        /\ e = 0 => Result(e) = GreatestDifficulty
        /\ e < 0 => Result(e) = input.current

-------------------------------------------------------------------------------
(* The tree over a block's transactions.                                   *)

Count(list, t) == Cardinality({i \in DOMAIN list : list[i] = t})

\* The last transaction in the order of the tree.
Least(list) == CHOOSE t \in ToSet(list) : \A u \in ToSet(list) : t <= u

RootOf == [list \in Bundles |-> Root(list)]

\* A miner that lists the transactions in any order computes the root that every
\* node computes; two lists with one root hold the same transactions, each as many
\* times, except that an odd list and the one that repeats its last transaction
\* have one root.
RootFixesTransactions ==
  input.of = "tree" =>
    \A list \in Bundles :
      LET same(t) == Count(input.items, t) = Count(list, t)
          repeated(a, b) == /\ Len(a) % 2 = 1 /\ Len(b) = Len(a) + 1
                            /\ Count(b, Least(a)) = Count(a, Least(a)) + 1
                            /\ \A t \in Txs \ {Least(a)} : same(t)
      IN  RootOf[input.items] = RootOf[list] <=>
            (\A t \in Txs : same(t)) \/ repeated(input.items, list) \/ repeated(list, input.items)

\* A proof exists for exactly the transactions of the block, ends in the root that
\* is in its header and has the transaction at one of its leaves, though only one
\* level of it is kept on the way up.
ProofsHold ==
  input.of = "tree" =>
    \A t \in Txs :
      LET p == Proof([u \in Txs |-> 1], [i \in {1} |-> input.items], t)
      IN  IF t \in ToSet(input.items)
          THEN p.error = "" /\ p.proof = Root(input.items) /\ t \in LeavesOf(p.proof)
          ELSE p.error # ""

===============================================================================
