------------------------------ MODULE HeaderChain ------------------------------
(***************************************************************************)
(* src/c++/src/core/header_chain.cpp: what a node knows of each peer's     *)
(* chain.  One thread per peer runs load() every ten seconds; other        *)
(* threads read hashes, length and work without a lock, so a step ends     *)
(* wherever one of them is written.                                        *)
(*                                                                         *)
(* A peer (the environment) may at any time be unreachable, grow, or go    *)
(* over to another chain, a bad one too.                                   *)
(***************************************************************************)
EXTENDS Headers, Sequences, SequencesExt, TLC

CONSTANTS Host,        \* the peers that have a HeaderChain
          PerFetch,    \* BLOCK_HEADERS_PER_FETCH
          CheckPoints, \* block id -> hash
          PeerChains,  \* the chains a peer may have
          MaxChanges   \* bound: changes of peers

ASSUME HeaderChainAssumption ==
  /\ PerFetch \in Nat \ {0} /\ PeerChains \subseteq Seq(Block) /\ MaxChanges \in Nat
  /\ DOMAIN CheckPoints \subseteq Nat

VARIABLES headers,  \* the HeaderChain object of each peer and load()'s locals
          peer,     \* each peer's chain, and whether it answers
          changes
headerVars == <<headers, peer, changes>>

Empty == [pc |-> "sleep", hashes |-> <<>>, work |-> 0, length |-> 0, failed |-> FALSE,
          target |-> 0, next |-> 1, last |-> NullHash, sum |-> 0, batch |-> <<>>]

HeaderInit ==
  /\ headers = [h \in Host |-> Empty]
  /\ peer \in [Host -> [blocks : PeerChains, up : BOOLEAN]]
  /\ changes = 0

-------------------------------------------------------------------------------
(* What readers see.                                                       *)

\* The last hash is not given out: the index is compared with the size.
GetHash(h, blockId) ==
  IF blockId >= Len(headers[h].hashes) THEN NullHash ELSE headers[h].hashes[blockId]

GetTotalWork(h) == IF headers[h].failed THEN 0 ELSE headers[h].work

GetChainLength(h) == IF headers[h].failed THEN 0 ELSE headers[h].length

-------------------------------------------------------------------------------
(* load()                                                                  *)

Update(h, new) == headers' = [headers EXCEPT ![h] = new] /\ UNCHANGED <<peer, changes>>

\* A failure is noted first; reset() then takes it back before it throws away the
\* work, the length and the hashes, one after the other.
Fail(h) == Update(h, [headers[h] EXCEPT !.pc = "reset", !.failed = TRUE])
Reset(h) ==
  LET c == headers[h]
  IN  \/ c.pc = "reset" /\ Update(h, [c EXCEPT !.pc = "nowork", !.failed = FALSE])
      \/ c.pc = "nowork" /\ Update(h, [c EXCEPT !.pc = "nolength", !.work = 0])
      \/ c.pc = "nolength" /\ Update(h, [c EXCEPT !.pc = "nohashes", !.length = 0])
      \/ c.pc = "nohashes" /\ Update(h, Empty)

\* Mutant: a new chain of headers is summed up from the old sum.
LoadFromZero(h) ==
  LET c == headers[h]
  IN  /\ c.pc = "sleep"
      /\ IF peer[h].up
         THEN Update(h, [c EXCEPT !.pc = "fetch", !.target = Len(peer[h].blocks),
                           !.next = Len(c.hashes) + 1, !.sum = 0,
                           !.last = IF c.hashes = <<>> THEN NullHash ELSE c.hashes[Len(c.hashes)]])
         ELSE Update(h, [c EXCEPT !.failed = TRUE])

\* The peer's block count is asked; the chain goes on after the hashes it has.
Load(h) ==
  LET c == headers[h]
  IN  /\ c.pc = "sleep"
      /\ IF peer[h].up
         THEN Update(h, [c EXCEPT !.pc = "fetch", !.target = Len(peer[h].blocks),
                           !.next = Len(c.hashes) + 1, !.sum = c.work,
                           !.last = IF c.hashes = <<>> THEN NullHash ELSE c.hashes[Len(c.hashes)]])
         ELSE Update(h, [c EXCEPT !.failed = TRUE])

\* A batch comes from the chain the peer has now.
Fetch(h) ==
  LET c == headers[h]
      end == IF c.target < c.next + PerFetch - 1 THEN c.target ELSE c.next + PerFetch - 1
      have == IF end < Len(peer[h].blocks) THEN end ELSE Len(peer[h].blocks)
  IN  /\ c.pc = "fetch" /\ c.next <= c.target
      /\ IF peer[h].up
         THEN Update(h, [c EXCEPT !.pc = "check", !.batch = SubSeq(peer[h].blocks, c.next, have)])
         ELSE Fail(h)

\* Mutant: the block before is not compared.
HeaderBadUnlinked(c, b) ==
  \/ c.next \in DOMAIN CheckPoints /\ b # CheckPoints[c.next]
  \/ ~BlockBody[b].nonceOk

\* A header is refused.  `curr' is the number of the batch's first block, for
\* every header of the batch.
HeaderBad(c, b) ==
  \/ c.next \in DOMAIN CheckPoints /\ b # CheckPoints[c.next]
  \/ ~BlockBody[b].nonceOk
  \/ BlockBody[b].parent # c.last

\* A good header's hash is in the chain at once, its work is not.
CheckHeader(h) ==
  LET c == headers[h]
      b == Head(c.batch)
  IN  /\ c.pc = "check" /\ c.batch # <<>>
      /\ IF HeaderBad(c, b) THEN Fail(h)
         ELSE Update(h, [c EXCEPT !.batch = Tail(@), !.last = b,
                                  !.hashes = Append(@, b), !.sum = @ + Work(b)])

NextBatch(h) ==
  /\ headers[h].pc = "check" /\ headers[h].batch = <<>>
  /\ Update(h, [headers[h] EXCEPT !.pc = "fetch", !.next = @ + PerFetch])

\* The length, the work, and that all went well: load() ends, and its locals with it.
Publish(h) ==
  LET c == headers[h]
  IN  \/ /\ c.pc = "fetch" /\ c.next > c.target
         /\ Update(h, [c EXCEPT !.pc = "work", !.length = Len(c.hashes)])
      \/ c.pc = "work" /\ Update(h, [c EXCEPT !.pc = "good", !.work = c.sum])
      \/ /\ c.pc = "good"
         /\ Update(h, [Empty EXCEPT !.hashes = c.hashes, !.work = c.work, !.length = c.length])

LoadStep(h) ==
  Load(h) \/ Fetch(h) \/ CheckHeader(h) \/ NextBatch(h) \/ Reset(h) \/ Publish(h)

\* The environment.
PeerChanges(h) ==
  /\ changes < MaxChanges /\ changes' = changes + 1
  /\ \E c \in PeerChains, up \in BOOLEAN : peer' = [peer EXCEPT ![h] = [blocks |-> c, up |-> up]]
  /\ UNCHANGED headers

HeaderNext == \E h \in Host : LoadStep(h) \/ PeerChanges(h)
HeaderSpec == HeaderInit /\ [][HeaderNext]_headerVars

-------------------------------------------------------------------------------
WorkOf(blocks) == FoldSeq(LAMBDA b, sum : Work(b) + sum, 0, blocks)

Linked(blocks) ==
  \A i \in DOMAIN blocks : BlockBody[blocks[i]].parent = IF i = 1 THEN NullHash ELSE blocks[i - 1]
Valid(blocks) == Linked(blocks) /\ \A i \in DOMAIN blocks : BlockBody[blocks[i]].nonceOk

HeaderRecord ==
  [pc : {"sleep", "fetch", "check", "work", "good", "reset", "nowork", "nolength", "nohashes"},
   hashes : Seq(Block), work : Nat, length : Nat, failed : BOOLEAN, target : Nat,
   next : Nat \ {0}, last : Block \cup {NullHash}, sum : Nat, batch : Seq(Block)]

HeaderTypeOK ==
  /\ headers \in [Host -> HeaderRecord]
  /\ peer \in [Host -> [blocks : PeerChains, up : BOOLEAN]]
  /\ changes \in 0 .. MaxChanges

\* Whatever chains a peer went through between two batches, the hashes held for it
\* are one chain from the first block on, with nonces that were checked.
HashesLinked == \A h \in Host : Valid(headers[h].hashes)

\* While a peer does not answer, or after its headers were thrown away, it has no
\* work to win with; otherwise what it has never shrinks.
Kept ==
  \A h \in Host : \/ GetTotalWork(h)' >= GetTotalWork(h) /\ IsPrefix(headers[h].hashes, headers[h].hashes')
                  \/ GetTotalWork(h)' = 0
NeverShrinks == [][Kept]_headerVars

===============================================================================
