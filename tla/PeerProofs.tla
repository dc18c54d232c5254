------------------------------ MODULE PeerProofs ------------------------------
(***************************************************************************)
(* What a node does with its peers.                                        *)
(*                                                                         *)
(* HeaderChain: the hashes held for a peer are one chain of checked blocks,*)
(* whatever the peer answers, and what a peer has to win with never        *)
(* shrinks unless it is all taken back.                                    *)
(*                                                                         *)
(* ChainSync: while what is known of the peers is right, a round removes no*)
(* block it shares with the trusted peer, and one that succeeds gains work.*)
(*                                                                         *)
(* RateLimiter: what was accepted is bounded by the time that passed, a    *)
(* refused address waits one share at most, and with more requests than    *)
(* seconds nothing is refused.                                             *)
(*                                                                         *)
(* HostManager: what requests handled at once can do to the lists of hosts *)
(* and peers (Counted), which hosts stay fresh (HeardKept), and that the   *)
(* network's time mirrors most of the fresh hosts' clocks (DeltasTold).    *)
(***************************************************************************)
EXTENDS ChainSync, ChainCoreProofs, RateLimiter, HostManager

-------------------------------------------------------------------------------
(* HeaderChain.                                                            *)

\* The inductive invariant.  While load() goes on, `last' is the last hash of the
\* chain, and the work it sums up is not less than what it published before.
LastHash(hashes) == IF hashes = <<>> THEN NullHash ELSE hashes[Len(hashes)]
LoadPart ==
  \A h \in Host : headers[h].pc # "sleep" =>
    headers[h].last = LastHash(headers[h].hashes) /\ headers[h].sum >= headers[h].work
HeaderInv == HeaderTypeOK /\ HashesLinked /\ LoadPart

\* What no step takes away from an object, unless all of it.
Grows(old, new) ==
  \/ new.failed \/ new.work = 0
  \/ new.work >= old.work /\ IsPrefix(old.hashes, new.hashes)

\* A chain's last hash is a block or the null hash.
LEMMA LastHashType == \A s \in Seq(Block) : LastHash(s) \in Block \cup {NullHash}
BY DEF LastHash

\* A checked block on top of a checked chain is a checked chain.
LEMMA AppendValid ==
  ASSUME NEW s \in Seq(Block), Valid(s), NEW b \in Block,
         BlockBody[b].nonceOk, BlockBody[b].parent = LastHash(s)
  PROVE  Valid(Append(s, b))
<1>1. /\ DOMAIN Append(s, b) = 1 .. Len(s) + 1 /\ DOMAIN s = 1 .. Len(s) /\ Len(s) \in Nat
      /\ \A i \in 1 .. Len(s) : Append(s, b)[i] = s[i]
      /\ Append(s, b)[Len(s) + 1] = b
  OBVIOUS
<1>2. ASSUME NEW i \in 1 .. Len(s) + 1
      PROVE  /\ BlockBody[Append(s, b)[i]].parent = IF i = 1 THEN NullHash ELSE Append(s, b)[i - 1]
             /\ BlockBody[Append(s, b)[i]].nonceOk
  <2>1. CASE i = Len(s) + 1
    <3>1. i = 1 <=> s = <<>>
      BY <1>1, <2>1
    <3>2. s # <<>> => i - 1 \in 1 .. Len(s) /\ i - 1 = Len(s)
      BY <1>1, <2>1
    <3> QED
      BY <1>1, <2>1, <3>1, <3>2 DEF LastHash
  <2>2. CASE i # Len(s) + 1
    <3>1. i \in 1 .. Len(s) /\ (i # 1 => i - 1 \in 1 .. Len(s))
      BY <1>1, <2>2
    <3> QED
      BY <1>1, <3>1 DEF Valid, Linked
  <2> QED
    BY <2>1, <2>2
<1> QED
  BY <1>1, <1>2 DEF Valid, Linked

\* No chain is a checked one.
LEMMA EmptyValid == Valid(<<>>)
BY DEF Valid, Linked

LEMMA HeaderInitInv == HeaderInit => HeaderInv
<1> SUFFICES ASSUME HeaderInit PROVE HeaderInv
  OBVIOUS
<1>1. HeaderTypeOK
  BY HeaderAssumption, HeaderChainAssumption DEF HeaderInit, HeaderTypeOK, HeaderRecord, Empty
<1>2. HashesLinked
  BY EmptyValid DEF HeaderInit, HashesLinked, Empty
<1>3. LoadPart
  BY DEF HeaderInit, LoadPart, Empty
<1> QED
  BY <1>1, <1>2, <1>3 DEF HeaderInv

\* A sequence is a prefix of itself and of one with an element more.
LEMMA PrefixFacts ==
  ASSUME NEW s \in Seq(Block)
  PROVE  IsPrefix(s, s) /\ \A b \in Block : IsPrefix(s, Append(s, b))
<1>1. \A b \in Block : /\ Append(s, b) \in Seq(Block) /\ Len(Append(s, b)) = Len(s) + 1
                        /\ SubSeq(Append(s, b), 1, Len(s)) = SubSeq(s, 1, Len(s))
  OBVIOUS
<1> QED
  BY <1>1 DEF IsPrefix

\* A step that gives one peer's object a new value that is a good one.
LEMMA UpdateInv ==
  ASSUME HeaderInv, NEW h \in Host, NEW new, Update(h, new),
         new \in HeaderRecord, Valid(new.hashes),
         new.pc # "sleep" => new.last = LastHash(new.hashes) /\ new.sum >= new.work,
         Grows(headers[h], new)
  PROVE  HeaderInv' /\ Kept
<1>1. /\ headers'[h] = new /\ \A x \in Host : x # h => headers'[x] = headers[x]
      /\ peer' = peer /\ changes' = changes
  BY DEF Update, HeaderInv, HeaderTypeOK
<1>2. HeaderTypeOK'
  BY <1>1 DEF Update, HeaderInv, HeaderTypeOK
<1>3. HashesLinked'
  BY <1>1 DEF HeaderInv, HashesLinked, Valid, Linked
<1>4. LoadPart'
  BY <1>1 DEF HeaderInv, LoadPart, LastHash
<1>5. Kept
  <2> SUFFICES ASSUME NEW x \in Host
               PROVE  \/ /\ GetTotalWork(x)' >= GetTotalWork(x)
                         /\ IsPrefix(headers[x].hashes, headers[x].hashes')
                      \/ GetTotalWork(x)' = 0
    BY DEF Kept
  <2>1. headers[x] \in HeaderRecord
    BY DEF HeaderInv, HeaderTypeOK
  <2>2. headers[x].work \in Nat /\ headers[x].hashes \in Seq(Block)
    BY <2>1 DEF HeaderRecord
  <2>3. CASE x = h
    <3>1. GetTotalWork(x)' = IF new.failed THEN 0 ELSE new.work
      BY <1>1, <2>3 DEF GetTotalWork
    <3>2. GetTotalWork(x) \in {0, headers[x].work} /\ new.work \in Nat /\ headers[x].hashes' = new.hashes
      BY <1>1, <2>3 DEF GetTotalWork, HeaderRecord
    <3> QED
      BY <2>2, <2>3, <3>1, <3>2 DEF Grows
  <2>4. CASE x # h
    BY <1>1, <2>2, <2>4, PrefixFacts DEF GetTotalWork
  <2> QED
    BY <2>3, <2>4
<1> QED
  BY <1>2, <1>3, <1>4, <1>5 DEF HeaderInv

\* What the steps of load() make of an object, for any values of the fields.
LEMMA FailedRecord ==
  ASSUME NEW c \in HeaderRecord, NEW new, new = [c EXCEPT !.failed = TRUE]
  PROVE  new \in HeaderRecord /\ new.hashes = c.hashes /\ new.pc = c.pc /\ new.failed
BY DEF HeaderRecord

\* Published is the work, the length or that nothing failed.
Written(new, c, pc, work, length, failed) ==
  new = [c EXCEPT !.pc = pc, !.work = work, !.length = length, !.failed = failed]
LEMMA WrittenRecord ==
  ASSUME NEW c, NEW pc, NEW work, NEW length, NEW failed, NEW new,
         Written(new, c, pc, work, length, failed),
         c \in HeaderRecord, work \in Nat, length \in Nat, failed \in BOOLEAN,
         pc \in {"work", "good", "reset", "nowork", "nolength", "nohashes"}
  PROVE  /\ new \in HeaderRecord /\ new.pc = pc /\ new.work = work /\ new.length = length
         /\ new.failed = failed /\ new.hashes = c.hashes /\ new.last = c.last /\ new.sum = c.sum
BY DEF HeaderRecord, Written

\* A failure is noted, or taken back.
Flagged(new, c) == \/ new = [c EXCEPT !.pc = "reset", !.failed = TRUE]
                   \/ new = [c EXCEPT !.pc = "nowork", !.failed = FALSE]
LEMMA FlaggedRecord ==
  ASSUME NEW c, NEW new, Flagged(new, c), c \in HeaderRecord
  PROVE  /\ new \in HeaderRecord /\ new.work = c.work /\ new.hashes = c.hashes
         /\ new.last = c.last /\ new.sum = c.sum
         /\ (new.pc = "reset" /\ new.failed) \/ (new.pc = "nowork" /\ ~new.failed)
<1>1. CASE new = [c EXCEPT !.pc = "reset", !.failed = TRUE]
  <2>1. new \in HeaderRecord
    BY <1>1 DEF HeaderRecord
  <2>2. new.pc = "reset" /\ new.failed
    BY <1>1 DEF HeaderRecord
  <2>3. new.work = c.work /\ new.hashes = c.hashes /\ new.last = c.last /\ new.sum = c.sum
    BY <1>1 DEF HeaderRecord
  <2> QED BY <2>1, <2>2, <2>3
<1>2. CASE new = [c EXCEPT !.pc = "nowork", !.failed = FALSE]
  <2>1. new \in HeaderRecord
    BY <1>2 DEF HeaderRecord
  <2>2. new.pc = "nowork" /\ ~new.failed
    BY <1>2 DEF HeaderRecord
  <2>3. new.work = c.work /\ new.hashes = c.hashes /\ new.last = c.last /\ new.sum = c.sum
    BY <1>2 DEF HeaderRecord
  <2> QED BY <2>1, <2>2, <2>3
<1> QED BY <1>1, <1>2 DEF Flagged

\* A field that is written with what it has stays.
LEMMA SameFields ==
  ASSUME NEW c \in HeaderRecord, NEW pc, NEW work, NEW length
  PROVE  /\ [c EXCEPT !.pc = pc, !.work = work]
              = [c EXCEPT !.pc = pc, !.work = work, !.length = c.length, !.failed = c.failed]
         /\ [c EXCEPT !.pc = pc, !.length = length]
              = [c EXCEPT !.pc = pc, !.work = c.work, !.length = length, !.failed = c.failed]
BY DEF HeaderRecord

LEMMA FetchedRecord ==
  ASSUME NEW c \in HeaderRecord, NEW batch \in Seq(Block), NEW new,
         new = [c EXCEPT !.pc = "check", !.batch = batch]
  PROVE  /\ new \in HeaderRecord /\ new.hashes = c.hashes /\ new.work = c.work
         /\ new.last = c.last /\ new.sum = c.sum
BY DEF HeaderRecord

LEMMA NextRecord ==
  ASSUME NEW c \in HeaderRecord, NEW next \in Nat \ {0}, NEW new,
         new = [c EXCEPT !.pc = "fetch", !.next = next]
  PROVE  /\ new \in HeaderRecord /\ new.hashes = c.hashes /\ new.work = c.work
         /\ new.last = c.last /\ new.sum = c.sum
BY DEF HeaderRecord

\* What the invariant says of one peer's object and of the peer.
LEMMA HostFacts ==
  ASSUME HeaderInv, NEW h \in Host
  PROVE  /\ headers[h] \in HeaderRecord
         /\ headers[h].hashes \in Seq(Block) /\ Valid(headers[h].hashes)
         /\ headers[h].batch \in Seq(Block)
         /\ headers[h].work \in Nat /\ headers[h].sum \in Nat /\ headers[h].target \in Nat
         /\ headers[h].next \in Nat \ {0}
         /\ headers[h].pc # "sleep" =>
              headers[h].last = LastHash(headers[h].hashes) /\ headers[h].sum >= headers[h].work
         /\ peer[h].blocks \in Seq(Block)
<1>1. headers[h] \in HeaderRecord
  BY DEF HeaderInv, HeaderTypeOK
<1>2. /\ headers[h].hashes \in Seq(Block) /\ headers[h].batch \in Seq(Block)
      /\ headers[h].work \in Nat /\ headers[h].sum \in Nat /\ headers[h].target \in Nat
      /\ headers[h].next \in Nat \ {0}
  BY <1>1 DEF HeaderRecord
<1>3. peer[h].blocks \in Seq(Block)
  BY HeaderChainAssumption DEF HeaderInv, HeaderTypeOK
<1> QED
  BY <1>1, <1>2, <1>3 DEF HeaderInv, HashesLinked, LoadPart

\* A failure takes the work back at once.
LEMMA FailInv ==
  ASSUME HeaderInv, NEW h \in Host, headers[h].pc # "sleep", Fail(h)
  PROVE  HeaderInv' /\ Kept
<1> DEFINE c == headers[h]
           new == [c EXCEPT !.pc = "reset", !.failed = TRUE]
<1>1. c \in HeaderRecord /\ c.work \in Nat /\ c.length \in Nat
  BY HostFacts DEF HeaderRecord
<1>2. Flagged(new, c) /\ ~ (new.pc = "nowork")
  BY <1>1 DEF Flagged, HeaderRecord
<1>3. Update(h, new)
  BY DEF Fail
<1> HIDE DEF new
<1>4. /\ new \in HeaderRecord /\ new.failed /\ new.hashes = c.hashes /\ new.last = c.last
      /\ new.sum = c.sum /\ new.work = c.work /\ new.pc = "reset"
  BY <1>1, <1>2, FlaggedRecord
<1>5. Grows(c, new)
  BY <1>4 DEF Grows
<1> QED BY <1>3, <1>4, <1>5, HostFacts, UpdateInv

\* reset() shows the old work once more, with the old hashes, before it is taken.
LEMMA ResetInv == ASSUME HeaderInv, NEW h \in Host, Reset(h) PROVE HeaderInv' /\ Kept
<1> DEFINE c == headers[h]
<1>1. /\ c \in HeaderRecord /\ c.work \in Nat /\ c.length \in Nat /\ c.failed \in BOOLEAN
      /\ c.hashes \in Seq(Block) /\ c.sum \in Nat
  BY HostFacts DEF HeaderRecord
<1>2. ASSUME c.pc = "reset", Update(h, [c EXCEPT !.pc = "nowork", !.failed = FALSE])
      PROVE  HeaderInv' /\ Kept
  <2> DEFINE new == [c EXCEPT !.pc = "nowork", !.failed = FALSE]
  <2>1. Flagged(new, c)
    BY DEF Flagged
  <2>2. Update(h, new)
    BY <1>2
  <2> HIDE DEF new
  <2>3. /\ new \in HeaderRecord /\ new.hashes = c.hashes /\ new.last = c.last
        /\ new.sum = c.sum /\ new.work = c.work
    BY <1>1, <2>1, FlaggedRecord
  <2>4. Grows(c, new)
    BY <1>1, <2>3, PrefixFacts DEF Grows
  <2> QED BY <1>2, <2>2, <2>3, <2>4, HostFacts, UpdateInv
<1>3. ASSUME c.pc = "nowork", Update(h, [c EXCEPT !.pc = "nolength", !.work = 0])
      PROVE  HeaderInv' /\ Kept
  <2> DEFINE new == [c EXCEPT !.pc = "nolength", !.work = 0]
  <2>1. Written(new, c, "nolength", 0, c.length, c.failed)
    BY <1>1, SameFields DEF Written
  <2>2. Update(h, new)
    BY <1>3
  <2> HIDE DEF new
  <2>3. /\ new \in HeaderRecord /\ new.hashes = c.hashes /\ new.last = c.last
        /\ new.sum = c.sum /\ new.work = 0
    BY <1>1, <2>1, WrittenRecord
  <2>4. Grows(c, new)
    BY <2>3 DEF Grows
  <2> QED BY <1>1, <1>3, <2>2, <2>3, <2>4, HostFacts, UpdateInv
<1>4. ASSUME c.pc = "nolength", Update(h, [c EXCEPT !.pc = "nohashes", !.length = 0])
      PROVE  HeaderInv' /\ Kept
  <2> DEFINE new == [c EXCEPT !.pc = "nohashes", !.length = 0]
  <2>1. Written(new, c, "nohashes", c.work, 0, c.failed)
    BY <1>1, SameFields DEF Written
  <2>2. Update(h, new)
    BY <1>4
  <2> HIDE DEF new
  <2>3. /\ new \in HeaderRecord /\ new.hashes = c.hashes /\ new.last = c.last
        /\ new.sum = c.sum /\ new.work = c.work
    BY <1>1, <2>1, WrittenRecord
  <2>4. Grows(c, new)
    BY <1>1, <2>3, PrefixFacts DEF Grows
  <2> QED BY <1>4, <2>2, <2>3, <2>4, HostFacts, UpdateInv
<1>5. ASSUME Update(h, Empty)
      PROVE  HeaderInv' /\ Kept
  <2>1. Valid(Empty.hashes) /\ Empty.pc = "sleep" /\ Grows(c, Empty)
    BY EmptyValid DEF Empty, Grows
  <2>2. Empty \in HeaderRecord
    BY DEF Empty, HeaderRecord
  <2> QED BY <1>5, <2>1, <2>2, UpdateInv
<1> QED BY <1>2, <1>3, <1>4, <1>5 DEF Reset

\* load() goes on where the hashes end, from the work that is published.
LEMMA LoadInv == ASSUME HeaderInv, NEW h \in Host, Load(h) PROVE HeaderInv' /\ Kept
<1> DEFINE c == headers[h]
<1>1. CASE peer[h].up
  <2> DEFINE new == [c EXCEPT !.pc = "fetch", !.target = Len(peer[h].blocks),
                       !.next = Len(c.hashes) + 1, !.sum = c.work, !.last = LastHash(c.hashes)]
  <2>1. Update(h, new)
    BY <1>1 DEF Load, LastHash
  <2>2. /\ Len(peer[h].blocks) \in Nat /\ Len(c.hashes) + 1 \in Nat \ {0}
        /\ LastHash(c.hashes) \in Block \cup {NullHash}
    BY HostFacts, LastHashType
  <2>3. /\ new \in HeaderRecord /\ new.hashes = c.hashes /\ new.work = c.work
        /\ new.last = LastHash(c.hashes) /\ new.sum = c.work
    <3>1. PICK target \in Nat, next \in Nat \ {0}, sum \in Nat, last \in Block \cup {NullHash} :
            /\ target = Len(peer[h].blocks) /\ next = Len(c.hashes) + 1
            /\ sum = c.work /\ last = LastHash(c.hashes)
      BY <2>2, HostFacts
    <3>2. new = [c EXCEPT !.pc = "fetch", !.target = target, !.next = next, !.sum = sum, !.last = last]
      BY <3>1, Zenon
    <3>3. c \in HeaderRecord
      BY HostFacts
    <3> HIDE DEF new, c
    <3>4. new \in HeaderRecord /\ new.hashes = c.hashes /\ new.work = c.work
          /\ new.last = last /\ new.sum = sum
      BY <3>2, <3>3 DEF HeaderRecord
    <3> QED
      BY <3>1, <3>4
  <2> HIDE DEF new
  <2>4. new.sum >= new.work /\ Grows(c, new)
    BY <2>3, HostFacts, PrefixFacts DEF Grows
  <2> QED
    BY <2>1, <2>3, <2>4, HostFacts, UpdateInv
<1>2. CASE ~peer[h].up
  <2> DEFINE new == [c EXCEPT !.failed = TRUE]
  <2>1. Update(h, new) /\ c.pc = "sleep"
    BY <1>2 DEF Load
  <2>2. new \in HeaderRecord /\ new.hashes = c.hashes /\ new.pc = c.pc /\ Grows(c, new)
    BY HostFacts, FailedRecord DEF Grows
  <2> HIDE DEF new
  <2> QED
    BY <2>1, <2>2, HostFacts, UpdateInv
<1> QED
  BY <1>1, <1>2

\* What a peer answers is a sequence of blocks.
LEMMA FetchInv == ASSUME HeaderInv, NEW h \in Host, Fetch(h) PROVE HeaderInv' /\ Kept
<1> DEFINE c == headers[h]
           end == IF c.target < c.next + PerFetch - 1 THEN c.target ELSE c.next + PerFetch - 1
           have == IF end < Len(peer[h].blocks) THEN end ELSE Len(peer[h].blocks)
           batch == SubSeq(peer[h].blocks, c.next, have)
           new == [c EXCEPT !.pc = "check", !.batch = batch]
<1>1. c.pc = "fetch" /\ (Fail(h) \/ Update(h, new))
  BY DEF Fetch
<1>2. end \in Int
  BY HostFacts, HeaderChainAssumption
<1>3. have \in Int /\ have <= Len(peer[h].blocks)
  <2> HIDE DEF end
  <2> QED
    BY <1>2, HostFacts
<1>4. batch \in Seq(Block)
  <2> HIDE DEF have
  <2> QED
    BY <1>3, HostFacts
<1>5. /\ new \in HeaderRecord /\ new.hashes = c.hashes /\ new.work = c.work
      /\ new.last = c.last /\ new.sum = c.sum
  <2> HIDE DEF batch
  <2> QED
    <3>1. c \in HeaderRecord
      BY HostFacts
    <3> QED
      BY <1>4, FetchedRecord, <3>1, ZenonT(30)
<1>6. CASE Fail(h)
  BY <1>1, <1>6, FailInv
<1>7. CASE Update(h, new)
  <2> HIDE DEF new
  <2>1. new.sum >= new.work /\ Grows(c, new)
    BY <1>1, <1>5, HostFacts, PrefixFacts DEF Grows
  <2> QED
    BY <1>1, <1>5, <1>7, <2>1, HostFacts, UpdateInv
<1> QED
  BY <1>1, <1>6, <1>7

\* A header that was not refused goes on top of the chain.
LEMMA CheckHeaderInv == ASSUME HeaderInv, NEW h \in Host, CheckHeader(h) PROVE HeaderInv' /\ Kept
<1> DEFINE c == headers[h]
           b == Head(c.batch)
           new == [c EXCEPT !.batch = Tail(c.batch), !.last = b,
                            !.hashes = Append(c.hashes, b), !.sum = c.sum + Work(b)]
<1>1. c.pc = "check" /\ c.batch # <<>>
  BY DEF CheckHeader
<1>2. /\ b \in Block /\ Tail(c.batch) \in Seq(Block)
  BY <1>1, HostFacts
<1>3. Fail(h) \/ (~HeaderBad(c, b) /\ Update(h, new))
  BY DEF CheckHeader
<1>4. CASE Fail(h)
  BY <1>1, <1>4, FailInv
<1>5. CASE ~HeaderBad(c, b) /\ Update(h, new)
  <2>1. BlockBody[b].nonceOk /\ BlockBody[b].parent = LastHash(c.hashes)
    BY <1>1, <1>5, HostFacts DEF HeaderBad
  <2> HIDE DEF b
  <2>2. Append(c.hashes, b) \in Seq(Block) /\ LastHash(Append(c.hashes, b)) = b
    BY <1>2, HostFacts DEF LastHash
  <2>3. Valid(Append(c.hashes, b))
    BY <1>2, <2>1, HostFacts, AppendValid
  <2>4. c.sum + Work(b) \in Nat /\ c.sum + Work(b) >= c.work
    BY <1>1, <1>2, HostFacts, WorkAssumption
  <2>5. /\ new \in HeaderRecord /\ new.hashes = Append(c.hashes, b) /\ new.work = c.work
        /\ new.last = b /\ new.sum = c.sum + Work(b)
    <3>1. PICK batch \in Seq(Block), hashes \in Seq(Block), sum \in Nat :
            batch = Tail(c.batch) /\ hashes = Append(c.hashes, b) /\ sum = c.sum + Work(b)
      BY <1>2, <2>2, <2>4
    <3>2. new = [c EXCEPT !.batch = batch, !.last = b, !.hashes = hashes, !.sum = sum]
      BY <3>1, Zenon
    <3>3. c \in HeaderRecord
      BY HostFacts
    <3> HIDE DEF new, c
    <3>4. new \in HeaderRecord /\ new.hashes = hashes /\ new.work = c.work
          /\ new.last = b /\ new.sum = sum
      BY <1>2, <3>2, <3>3 DEF HeaderRecord
    <3> QED
      BY <3>1, <3>4
  <2> HIDE DEF new
  <2>6. Grows(c, new)
    BY <1>2, <2>5, HostFacts, PrefixFacts DEF Grows
  <2> QED
    BY <1>5, <2>2, <2>3, <2>4, <2>5, <2>6, UpdateInv
<1> QED
  BY <1>3, <1>4, <1>5

LEMMA NextBatchInv == ASSUME HeaderInv, NEW h \in Host, NextBatch(h) PROVE HeaderInv' /\ Kept
<1> DEFINE c == headers[h]
           new == [c EXCEPT !.pc = "fetch", !.next = c.next + PerFetch]
<1>1. Update(h, new) /\ c.pc = "check"
  BY DEF NextBatch
<1>2. c.next + PerFetch \in Nat \ {0}
  BY HostFacts, HeaderChainAssumption
<1>3. /\ new \in HeaderRecord /\ new.hashes = c.hashes /\ new.work = c.work
      /\ new.last = c.last /\ new.sum = c.sum
  <2>1. c \in HeaderRecord
    BY HostFacts
  <2> QED
    BY <1>2, NextRecord, <2>1, ZenonT(30)
<1> HIDE DEF new
<1>4. new.sum >= new.work /\ Grows(c, new)
  BY <1>1, <1>3, HostFacts, PrefixFacts DEF Grows
<1> QED
  BY <1>1, <1>3, <1>4, HostFacts, UpdateInv

\* The object that load() leaves behind.
Loaded(new, hashes, work, length) ==
  new = [Empty EXCEPT !.hashes = hashes, !.work = work, !.length = length]
LEMMA LoadedRecord ==
  ASSUME NEW hashes, NEW work, NEW length, NEW new, Loaded(new, hashes, work, length),
         hashes \in Seq(Block), work \in Nat, length \in Nat
  PROVE  /\ new \in HeaderRecord /\ new.pc = "sleep" /\ new.hashes = hashes
         /\ new.work = work /\ new.length = length /\ ~new.failed
<1>1. Empty \in HeaderRecord /\ Empty.pc = "sleep" /\ ~Empty.failed
  BY DEF Empty, HeaderRecord
<1> QED BY <1>1 DEF HeaderRecord, Loaded

LEMMA PublishInv == ASSUME HeaderInv, NEW h \in Host, Publish(h) PROVE HeaderInv' /\ Kept
<1> DEFINE c == headers[h]
<1>1. /\ c \in HeaderRecord /\ c.work \in Nat /\ c.length \in Nat /\ c.failed \in BOOLEAN
      /\ c.hashes \in Seq(Block) /\ Len(c.hashes) \in Nat /\ c.sum \in Nat
  <2>1. c \in HeaderRecord
    BY HostFacts
  <2> HIDE DEF c
  <2>2. c.hashes \in Seq(Block) /\ c.sum \in Nat /\ c.work \in Nat /\ c.length \in Nat
        /\ c.failed \in BOOLEAN
    BY <2>1 DEF HeaderRecord
  <2> QED BY <2>1, <2>2
<1>2. ASSUME c.pc = "fetch", Update(h, [c EXCEPT !.pc = "work", !.length = Len(c.hashes)])
      PROVE  HeaderInv' /\ Kept
  <2> DEFINE new == [c EXCEPT !.pc = "work", !.length = Len(c.hashes)]
  <2>1. Written(new, c, "work", c.work, Len(c.hashes), c.failed)
    BY <1>1, SameFields DEF Written
  <2>2. Update(h, new)
    BY <1>2
  <2> HIDE DEF new
  <2>3. /\ new \in HeaderRecord /\ new.hashes = c.hashes /\ new.last = c.last
        /\ new.sum = c.sum /\ new.work = c.work
    BY <1>1, <2>1, WrittenRecord
  <2>4. Grows(c, new)
    BY <1>1, <2>3, PrefixFacts DEF Grows
  <2> QED BY <1>2, <2>2, <2>3, <2>4, HostFacts, UpdateInv
<1>3. ASSUME c.pc = "work", Update(h, [c EXCEPT !.pc = "good", !.work = c.sum])
      PROVE  HeaderInv' /\ Kept
  <2> DEFINE new == [c EXCEPT !.pc = "good", !.work = c.sum]
  <2>1. Written(new, c, "good", c.sum, c.length, c.failed)
    BY <1>1, SameFields DEF Written
  <2>2. Update(h, new)
    BY <1>3
  <2> HIDE DEF new
  <2>3. /\ new \in HeaderRecord /\ new.hashes = c.hashes /\ new.last = c.last
        /\ new.sum = c.sum /\ new.work = c.sum
    BY <1>1, <2>1, WrittenRecord
  <2>4. Grows(c, new)
    BY <1>1, <1>3, <2>3, HostFacts, PrefixFacts DEF Grows
  <2> QED BY <1>1, <1>3, <2>2, <2>3, <2>4, HostFacts, UpdateInv
<1>4. ASSUME c.pc = "good",
             Update(h, [Empty EXCEPT !.hashes = c.hashes, !.work = c.work, !.length = c.length])
      PROVE  HeaderInv' /\ Kept
  <2> DEFINE new == [Empty EXCEPT !.hashes = c.hashes, !.work = c.work, !.length = c.length]
  <2>1. Loaded(new, c.hashes, c.work, c.length)
    BY DEF Loaded
  <2>2. Update(h, new)
    BY <1>4
  <2> HIDE DEF new
  <2>3. /\ new \in HeaderRecord /\ new.pc = "sleep" /\ new.hashes = c.hashes
        /\ new.work = c.work
    BY <1>1, <2>1, LoadedRecord
  <2>4. Grows(c, new)
    BY <1>1, <2>3, PrefixFacts DEF Grows
  <2> QED BY <2>3, <2>2, <2>4, HostFacts, UpdateInv
<1> QED BY <1>2, <1>3, <1>4 DEF Publish

LEMMA PeerChangesInv == ASSUME HeaderInv, NEW h \in Host, PeerChanges(h) PROVE HeaderInv' /\ Kept
<1>1. HeaderTypeOK'
  BY HeaderChainAssumption DEF PeerChanges, HeaderInv, HeaderTypeOK
<1>2. HashesLinked' /\ LoadPart'
  BY DEF PeerChanges, HeaderInv, HashesLinked, LoadPart, Valid, Linked, LastHash
<1>3. Kept
  BY HostFacts, PrefixFacts DEF PeerChanges, Kept, GetTotalWork
<1> QED
  BY <1>1, <1>2, <1>3 DEF HeaderInv

\* Every step keeps the invariant, and takes nothing away.
LEMMA HeaderNextInv == HeaderInv /\ [HeaderNext]_headerVars => HeaderInv' /\ [Kept]_headerVars
<1> SUFFICES ASSUME HeaderInv, [HeaderNext]_headerVars PROVE HeaderInv' /\ [Kept]_headerVars
  OBVIOUS
<1>1. ASSUME NEW h \in Host, LoadStep(h) PROVE HeaderInv' /\ Kept
  BY <1>1, LoadInv, FetchInv, CheckHeaderInv, NextBatchInv, ResetInv, PublishInv DEF LoadStep
<1>2. ASSUME NEW h \in Host, PeerChanges(h) PROVE HeaderInv' /\ Kept
  BY <1>2, PeerChangesInv
<1>3. ASSUME UNCHANGED headerVars PROVE HeaderInv'
  BY <1>3 DEF headerVars, HeaderInv, HeaderTypeOK, HashesLinked, LoadPart, Valid, Linked, LastHash
<1> QED
  BY <1>1, <1>2, <1>3 DEF HeaderNext

\* Whatever a peer answers, and whatever chains it goes through between two
\* batches, the hashes held for it are one checked chain from the first block on.
THEOREM HashesAreOneChain == HeaderSpec => []HashesLinked
<1>1. HeaderInv => HashesLinked
  BY DEF HeaderInv
<1> QED
  BY <1>1, HeaderInitInv, HeaderNextInv, PTL DEF HeaderSpec

\* What other threads read of a peer's work and hashes grows, or the work is zero.
THEOREM WorkNeverShrinks == HeaderSpec => NeverShrinks
BY HeaderInitInv, HeaderNextInv, PTL DEF HeaderSpec, NeverShrinks
-------------------------------------------------------------------------------
(* RateLimiter.                                                            *)

\* The inductive invariant.  Each accepted request moved the time point on by a
\* share, from a period before the first request, if it was not undone, and it never
\* is further than a share ahead of the clock.
Account ==
  \A k \in DOMAIN point : /\ since[k] <= now
                         /\ point[k] >= since[k] - Period + (accepted[k] - undone[k]) * Share
                         /\ point[k] <= now + Share
\* A thread that will write has read a time point that was not in the future, with the
\* moves in it that were made until then and are not undone now.
ReadWell(c) ==
  /\ c.key \in DOMAIN point /\ c.read <= c.at /\ c.seen <= accepted[c.key]
  /\ c.read >= since[c.key] - Period + (c.seen - undone[c.key]) * Share
Calls ==
  \A t \in Caller : /\ caller[t].pc # "idle" => caller[t].at <= now
                    /\ caller[t].pc = "compare" => caller[t].key \in DOMAIN point
                    /\ caller[t].pc = "move" => ReadWell(caller[t])
RateInv == RateTypeOK /\ Account /\ Calls

\* The period and the share are natural numbers.
LEMMA ShareType == Share \in Nat /\ Period \in Nat
<1>1. Seconds \div N \in Nat
  BY RateLimiterAssumption
<1>2. (Seconds \div N) * Second \in Nat /\ Seconds * Second \in Nat
  BY <1>1, RateLimiterAssumption
<1> QED
  BY <1>2 DEF Share, Period

\* With more requests than seconds the quotient is zero.
LEMMA NoShare == ASSUME N > Seconds PROVE Share = 0
<1>1. Seconds \div N = 0
  BY RateLimiterAssumption
<1> QED
  BY <1>1, RateLimiterAssumption DEF Share

\* One request more is one share more, and fewer are not more.
LEMMA OneMore == \A n \in Int : (n + 1) * Share = n * Share + Share /\ n * Share \in Int
BY ShareType

LEMMA FewerShares == ASSUME NEW m \in Int, NEW n \in Int, m <= n PROVE m * Share <= n * Share
<1>1. n - m \in Nat /\ Share \in Nat
  BY ShareType
<1>2. (n - m) * Share \in Nat
  BY <1>1
<1>3. n * Share = m * Share + (n - m) * Share /\ m * Share \in Int
  BY ShareType
<1> QED BY <1>2, <1>3

\* What a thread holds.
LEMMA CallFields ==
  ASSUME RateTypeOK, NEW t \in Caller
  PROVE  /\ caller[t].pc \in {"insert", "compare", "move"} => caller[t].key \in Key /\ caller[t].at \in Nat
         /\ caller[t].pc = "move" => caller[t].read \in Int /\ caller[t].seen \in Nat
         /\ caller[t].pc \in {"idle", "insert", "compare", "move"}
BY DEF RateTypeOK, CallStates, NoCall

\* One thread goes on, the others stay.
CallMoves(t, c) == caller' = [caller EXCEPT ![t] = c]
LEMMA CallerGoes ==
  ASSUME NEW t, NEW c, CallMoves(t, c), RateTypeOK, t \in Caller, c \in CallStates
  PROVE  /\ caller' \in [Caller -> CallStates] /\ caller'[t] = c
         /\ \A u \in Caller : u # t => caller'[u] = caller[u]
BY DEF RateTypeOK, CallMoves

LEMMA ReturnIdles ==
  ASSUME NEW t, Return(t) PROVE CallMoves(t, NoCall) /\ NoCall \in CallStates /\ NoCall.pc = "idle"
BY DEF Return, CallMoves, NoCall, CallStates

\* What was read stays well read when moves are made or undone.
LEMMA StillRead ==
  ASSUME NEW u, caller'[u] = caller[u], ReadWell(caller[u]),
         caller[u].seen \in Nat, caller[u].read \in Int, RateTypeOK, RateTypeOK',
         DOMAIN point' = DOMAIN point, since' = since,
         \A x \in DOMAIN point : undone'[x] >= undone[x] /\ accepted'[x] >= accepted[x]
  PROVE  ReadWell(caller[u])'
<1> DEFINE c == caller[u]
           x == c.key
           old == (c.seen - undone[x]) * Share
           new == (c.seen - undone'[x]) * Share
<1>1. /\ x \in DOMAIN point /\ c.read <= c.at /\ c.seen <= accepted[x]
      /\ c.read >= since[x] - Period + old
  BY DEF ReadWell
<1>2. /\ undone[x] \in Nat /\ undone'[x] \in Nat /\ since[x] \in Nat
      /\ accepted[x] \in Nat /\ accepted'[x] \in Nat
      /\ c.seen \in Nat /\ c.read \in Int
  BY <1>1 DEF RateTypeOK
<1>3. undone'[x] >= undone[x] /\ accepted'[x] >= accepted[x]
  BY <1>1
<1>4. old \in Int /\ new \in Int
  BY <1>2, OneMore
<1>5. new <= old
  BY <1>2, <1>3, FewerShares
<1>6. Period \in Nat
  BY ShareType
<1> HIDE DEF c, x, old, new
<1>7. c.seen <= accepted'[x]
  BY <1>1, <1>2, <1>3
<1>8. c.read >= since[x] - Period + new
  BY <1>1, <1>2, <1>4, <1>5, <1>6
<1>9. /\ x \in DOMAIN point' /\ c.read <= c.at /\ c.seen <= accepted'[x]
      /\ c.read >= since'[x] - Period + new
  BY <1>1, <1>7, <1>8
<1> QED BY <1>9 DEF ReadWell, c, x, new

LEMMA RateInitInv == RateInit => RateInv
BY DEF RateInit, RateInv, RateTypeOK, Account, Calls, NoCall, CallStates

\* A request that only reads keeps the accounts.
LEMMA LookUpInv == ASSUME RateInv, NEW t \in Caller, NEW k \in Key, LookUp(t, k) PROVE RateInv'
<1> DEFINE c == [pc |-> IF k \in DOMAIN point THEN "compare" ELSE "insert", key |-> k, at |-> now]
<1>1. /\ RateTypeOK /\ Account /\ now \in Nat
      /\ CallMoves(t, c) /\ UNCHANGED <<now, point, limited, accepted, undone, since>>
  BY DEF LookUp, CallMoves, RateInv, RateTypeOK
<1>2. /\ c \in CallStates /\ c.key = k /\ c.at = now /\ c.pc \in {"compare", "insert"}
      /\ c.pc = "compare" => k \in DOMAIN point
  BY <1>1 DEF CallStates
<1> HIDE DEF c
<1>3. /\ caller' \in [Caller -> CallStates] /\ caller'[t] = c
      /\ \A u \in Caller : u # t => caller'[u] = caller[u]
  BY <1>1, <1>2, CallerGoes
<1>4. RateTypeOK' /\ Account'
  BY <1>1, <1>3 DEF RateTypeOK, Account
<1>5. Calls'
  <2> SUFFICES ASSUME NEW u \in Caller
               PROVE  /\ caller'[u].pc # "idle" => caller'[u].at <= now
                      /\ caller'[u].pc = "compare" => caller'[u].key \in DOMAIN point
                      /\ caller'[u].pc = "move" => ReadWell(caller'[u])
    BY <1>1 DEF Calls, ReadWell
  <2>1. CASE u = t
    BY <1>1, <1>2, <1>3, <2>1
  <2>2. CASE u # t
    BY <1>3, <2>2 DEF RateInv, Calls
  <2> QED BY <2>1, <2>2
<1> QED BY <1>4, <1>5 DEF RateInv

\* An address that another thread put in first has one move less than requests.
LEMMA InsertInv == ASSUME RateInv, NEW t \in Caller, Insert(t) PROVE RateInv'
<1> DEFINE k == caller[t].key
           at == caller[t].at
<1>1. /\ RateTypeOK /\ Account /\ Calls /\ now \in Nat /\ CallMoves(t, NoCall)
      /\ k \in Key /\ at \in Nat /\ at <= now /\ now' = now /\ limited' = limited
      /\ Share \in Nat /\ Period \in Nat
  BY CallFields, ReturnIdles, ShareType DEF Insert, RateInv, RateTypeOK, Calls
<1>2. /\ caller' \in [Caller -> CallStates] /\ caller'[t].pc = "idle"
      /\ \A u \in Caller : u # t => caller'[u] = caller[u]
  <2>1. Return(t)
    BY DEF Insert
  <2> QED BY <1>1, <2>1, CallerGoes, ReturnIdles
<1>3. CASE k \in DOMAIN point
  <2>1. /\ accepted' = [accepted EXCEPT ![k] = @ + 1] /\ undone' = [undone EXCEPT ![k] = @ + 1]
        /\ UNCHANGED <<point, since>>
    BY <1>3 DEF Insert
  <2> HIDE DEF k, at
  <2>2. RateTypeOK'
    BY <1>1, <1>2, <2>1 DEF RateTypeOK
  <2>3. ASSUME NEW x \in DOMAIN point
        PROVE  /\ accepted[x] \in Nat /\ undone[x] \in Nat
               /\ accepted'[x] - undone'[x] = accepted[x] - undone[x]
               /\ accepted'[x] >= accepted[x] /\ undone'[x] >= undone[x]
    BY <1>1, <2>1 DEF RateTypeOK
  <2>4. Account'
    BY <1>1, <2>1, <2>3 DEF Account
  <2>5. ASSUME NEW u \in Caller, caller'[u].pc = "move" PROVE ReadWell(caller[u])'
    <3>1. caller'[u] = caller[u] /\ caller[u].pc = "move" /\ ReadWell(caller[u])
      BY <1>1, <1>2, <2>5 DEF Calls
    <3>2. caller[u].seen \in Nat /\ caller[u].read \in Int
      BY <1>1, <3>1, CallFields
    <3>3. DOMAIN point' = DOMAIN point /\ since' = since
      BY <2>1
    <3> QED BY <1>1, <2>2, <2>3, <3>1, <3>2, <3>3, StillRead
  <2>6. Calls'
    BY <1>1, <1>2, <2>1, <2>5 DEF Calls
  <2> QED BY <2>2, <2>4, <2>6 DEF RateInv
<1>4. CASE k \notin DOMAIN point
  <2>1. /\ point' = SetAt(point, k, at - Period + Share)
        /\ accepted' = SetAt(accepted, k, 1) /\ undone' = SetAt(undone, k, 0)
        /\ since' = SetAt(since, k, at)
    BY <1>4 DEF Insert
  <2> HIDE DEF k, at
  <2>2. RateTypeOK'
    BY <1>1, <1>2, <2>1 DEF RateTypeOK, SetAt
  <2>3. ASSUME NEW x \in DOMAIN point
        PROVE  /\ x \in DOMAIN point' /\ point'[x] = point[x] /\ since'[x] = since[x]
               /\ accepted'[x] = accepted[x] /\ undone'[x] = undone[x]
    BY <1>1, <1>4, <2>1 DEF SetAt, RateTypeOK
  <2>4. /\ point'[k] = at - Period + Share /\ since'[k] = at /\ accepted'[k] - undone'[k] = 1
        /\ DOMAIN point' = DOMAIN point \cup {k}
    BY <1>1, <2>1 DEF SetAt, RateTypeOK
  <2>5. 1 * Share = Share
    BY <1>1
  <2>6. Account'
    <3> SUFFICES ASSUME NEW x \in DOMAIN point'
                 PROVE  /\ since'[x] <= now
                        /\ point'[x] >= since'[x] - Period + (accepted'[x] - undone'[x]) * Share
                        /\ point'[x] <= now + Share
      BY <1>1 DEF Account
    <3>1. CASE x = k
      BY <1>1, <2>4, <2>5, <3>1
    <3>2. CASE x # k
      BY <1>1, <2>3, <2>4, <3>2 DEF Account
    <3> QED BY <3>1, <3>2
  <2>7. Calls'
    BY <1>1, <1>2, <2>3 DEF Calls, ReadWell
  <2> QED BY <2>2, <2>6, <2>7 DEF RateInv
<1> QED BY <1>3, <1>4

\* What is read is a time point with the moves that were made until then.
LEMMA RateCompareInv == ASSUME RateInv, NEW t \in Caller, Compare(t) PROVE RateInv'
<1> DEFINE k == caller[t].key
           c == [pc |-> "move", key |-> k, at |-> caller[t].at, read |-> point[k],
                 seen |-> accepted[k]]
<1>1. /\ RateTypeOK /\ Account /\ Calls /\ UNCHANGED <<now, point, limited, accepted, undone, since>>
      /\ k \in DOMAIN point /\ k \in Key /\ caller[t].at \in Nat /\ caller[t].at <= now
      /\ point[k] \in Int /\ accepted[k] \in Nat
  BY CallFields DEF Compare, RateInv, RateTypeOK, Calls
<1>2. CASE Return(t)
  <2>1. /\ caller' \in [Caller -> CallStates] /\ caller'[t].pc = "idle"
        /\ \A u \in Caller : u # t => caller'[u] = caller[u]
    BY <1>1, <1>2, CallerGoes, ReturnIdles
  <2>2. RateTypeOK' /\ Account'
    BY <1>1, <2>1 DEF RateTypeOK, Account
  <2>3. Calls'
    BY <1>1, <2>1 DEF Calls, ReadWell
  <2> QED BY <2>2, <2>3 DEF RateInv
<1>3. CASE point[k] <= caller[t].at /\ CallMoves(t, c)
  <2>1. /\ c \in CallStates /\ c.key = k /\ c.at = caller[t].at /\ c.pc = "move"
        /\ c.read = point[k] /\ c.seen = accepted[k]
    BY <1>1 DEF CallStates
  <2> HIDE DEF c
  <2>2. /\ caller' \in [Caller -> CallStates] /\ caller'[t] = c
        /\ \A u \in Caller : u # t => caller'[u] = caller[u]
    BY <1>1, <1>3, <2>1, CallerGoes
  <2>3. RateTypeOK' /\ Account'
    BY <1>1, <2>2 DEF RateTypeOK, Account
  <2>4. ReadWell(c)
    BY <1>1, <1>3, <2>1 DEF ReadWell, Account
  <2>5. Calls'
    <3> SUFFICES ASSUME NEW u \in Caller
                 PROVE  /\ caller'[u].pc # "idle" => caller'[u].at <= now
                        /\ caller'[u].pc = "compare" => caller'[u].key \in DOMAIN point
                        /\ caller'[u].pc = "move" => ReadWell(caller'[u])
      BY <1>1 DEF Calls, ReadWell
    <3>1. CASE u = t
      BY <1>1, <2>1, <2>2, <2>4, <3>1
    <3>2. CASE u # t
      BY <1>1, <2>2, <3>2 DEF Calls
    <3> QED BY <3>1, <3>2
  <2> QED BY <2>3, <2>5 DEF RateInv
<1>4. Return(t) \/ (point[k] <= caller[t].at /\ CallMoves(t, c))
  BY <1>1 DEF Compare, CallMoves
<1> QED BY <1>2, <1>3, <1>4

\* The write makes one move more than those that were read and not undone; all that
\* were made in between are undone by it.
LEMMA MoveInv == ASSUME RateInv, NEW t \in Caller, Move(t) PROVE RateInv'
<1> DEFINE c == caller[t]
           k == c.key
<1>1. /\ RateTypeOK /\ Account /\ Calls /\ UNCHANGED <<now, limited, since>>
      /\ c.pc = "move" /\ c.at \in Nat /\ c.at <= now /\ now \in Nat
      /\ c.read \in Int /\ c.seen \in Nat /\ ReadWell(c)
      /\ Share \in Nat /\ Period \in Nat
  BY CallFields, ShareType DEF Move, RateInv, RateTypeOK, Calls
<1>2. /\ k \in DOMAIN point /\ c.read <= c.at /\ c.seen <= accepted[k]
      /\ c.read >= since[k] - Period + (c.seen - undone[k]) * Share
      /\ accepted[k] \in Nat /\ undone[k] \in Nat /\ since[k] \in Nat /\ point[k] \in Int
  BY <1>1 DEF ReadWell, RateTypeOK
<1>3. /\ caller' \in [Caller -> CallStates] /\ caller'[t].pc = "idle"
      /\ \A u \in Caller : u # t => caller'[u] = caller[u]
  <2>1. Return(t)
    BY DEF Move
  <2> QED BY <1>1, <2>1, CallerGoes, ReturnIdles
<1> DEFINE next == Later(c.at - Period, c.read) + Share
           more == undone[k] + (accepted[k] - c.seen)
<1>4. /\ point' = [point EXCEPT ![k] = next] /\ undone' = [undone EXCEPT ![k] = more]
      /\ accepted' = [accepted EXCEPT ![k] = @ + 1]
  BY DEF Move
<1>5. next \in Int /\ next >= c.read + Share /\ next <= c.at + Share
  BY <1>1, <1>2 DEF Later
<1>6. more \in Nat /\ more >= undone[k]
  BY <1>1, <1>2
<1>7. (accepted[k] + 1) - more = (c.seen - undone[k]) + 1
  <2> HIDE DEF c, k
  <2> QED BY <1>1, <1>2
<1> HIDE DEF c, k, next, more
<1>8. /\ DOMAIN point' = DOMAIN point /\ point'[k] = next /\ undone'[k] = more
      /\ accepted'[k] = accepted[k] + 1
      /\ \A x \in DOMAIN point : x # k => /\ point'[x] = point[x] /\ undone'[x] = undone[x]
                                         /\ accepted'[x] = accepted[x]
  BY <1>1, <1>2, <1>4 DEF RateTypeOK
<1>9. RateTypeOK'
  BY <1>1, <1>2, <1>3, <1>4, <1>5, <1>6, <1>8 DEF RateTypeOK
<1>10. Account'
  <2> SUFFICES ASSUME NEW x \in DOMAIN point
               PROVE  /\ since[x] <= now
                      /\ point'[x] >= since[x] - Period + (accepted'[x] - undone'[x]) * Share
                      /\ point'[x] <= now + Share
    BY <1>1, <1>8 DEF Account
  <2>1. CASE x = k
    <3>1. accepted'[x] - undone'[x] = (c.seen - undone[k]) + 1
      BY <1>7, <1>8, <2>1
    <3>2. c.seen - undone[k] \in Int
      BY <1>1, <1>2
    <3>3. /\ (accepted'[x] - undone'[x]) * Share = (c.seen - undone[k]) * Share + Share
          /\ (c.seen - undone[k]) * Share \in Int
      BY <3>1, <3>2, OneMore
    <3>4. since[x] <= now /\ since[x] = since[k] /\ point'[x] = next
      BY <1>1, <1>2, <1>8, <2>1 DEF Account
    <3> QED BY <1>1, <1>2, <1>5, <3>3, <3>4
  <2>2. CASE x # k
    BY <1>1, <1>8, <2>2 DEF Account
  <2> QED BY <2>1, <2>2
<1>11. ASSUME NEW u \in Caller, caller'[u].pc = "move" PROVE ReadWell(caller[u])'
  <2>1. caller'[u] = caller[u] /\ caller[u].pc = "move" /\ ReadWell(caller[u])
    BY <1>1, <1>3, <1>11 DEF Calls
  <2>2. caller[u].seen \in Nat /\ caller[u].read \in Int
    BY <1>1, <2>1, CallFields
  <2>3. ASSUME NEW x \in DOMAIN point
        PROVE  undone'[x] >= undone[x] /\ accepted'[x] >= accepted[x]
    <3>1. undone[x] \in Nat /\ accepted[x] \in Nat
      BY <1>1 DEF RateTypeOK
    <3> QED BY <1>6, <1>8, <3>1
  <2> QED BY <1>1, <1>8, <1>9, <2>1, <2>2, <2>3, StillRead
<1>12. Calls'
  BY <1>1, <1>3, <1>8, <1>11 DEF Calls
<1> QED BY <1>9, <1>10, <1>12 DEF RateInv

LEMMA TickInv == ASSUME RateInv, Tick PROVE RateInv'
<1>1. RateTypeOK' /\ Account'
  BY ShareType DEF Tick, RateInv, RateTypeOK, Account
<1>2. ASSUME NEW t \in Caller, caller[t].pc # "idle" PROVE caller[t].at <= now'
  <2>1. caller[t].at \in Nat /\ caller[t].at <= now /\ now \in Nat
    BY <1>2, CallFields DEF RateInv, RateTypeOK, Calls
  <2> QED BY <2>1 DEF Tick
<1>3. Calls'
  BY <1>2 DEF Tick, RateInv, Calls, ReadWell
<1> QED BY <1>1, <1>3 DEF RateInv

\* Every step keeps the invariant.
LEMMA RateNextInv == RateInv /\ [RateNext]_rateVars => RateInv'
<1> SUFFICES ASSUME RateInv, [RateNext]_rateVars PROVE RateInv'
  OBVIOUS
<1>1. CASE UNCHANGED rateVars
  BY <1>1 DEF rateVars, RateInv, RateTypeOK, Account, Calls, ReadWell
<1>2. CASE Unlimited
  BY <1>1, <1>2 DEF Unlimited
<1>3. ASSUME NEW on \in BOOLEAN, EnableRateLimiting(on) PROVE RateInv'
  BY <1>3 DEF EnableRateLimiting, RateInv, RateTypeOK, Account, Calls, ReadWell
<1> QED
  BY <1>1, <1>2, <1>3, LookUpInv, InsertInv, RateCompareInv, MoveInv, TickInv DEF RateNext

\* The invariant gives the three properties.
LEMMA InvBounds == RateInv => RateBounded /\ RefusedBriefly /\ NeverRefuses
<1> SUFFICES ASSUME RateInv PROVE RateBounded /\ RefusedBriefly /\ NeverRefuses
  OBVIOUS
<1>1. RateBounded
  <2> SUFFICES ASSUME NEW k \in DOMAIN point
               PROVE (accepted[k] - undone[k]) * Share <= (now - since[k]) + Period + Share
    BY DEF RateBounded
  <2>1. /\ accepted[k] - undone[k] \in Int /\ point[k] \in Int /\ since[k] \in Nat /\ now \in Nat
    BY DEF RateInv, RateTypeOK
  <2>2. (accepted[k] - undone[k]) * Share \in Int
    BY <2>1, OneMore
  <2>3. /\ point[k] >= since[k] - Period + (accepted[k] - undone[k]) * Share
        /\ point[k] <= now + Share
    BY DEF RateInv, Account
  <2> QED
    BY <2>1, <2>2, <2>3, ShareType
<1>2. RefusedBriefly
  BY DEF RateInv, Account, RefusedBriefly
<1>3. NeverRefuses
  BY NoShare DEF RateInv, RateTypeOK, Account, NeverRefuses
<1> QED
  BY <1>1, <1>2, <1>3

\* What the limiter accepts of one address is bounded by the time since its first
\* request and one period, for every number of requests and every period, but for
\* what threads that were late with their write have undone.
THEOREM RateIsBounded == RateSpec => []RateBounded
BY RateInitInv, RateNextInv, InvBounds, PTL DEF RateSpec

\* One thread undoes nothing: the address it found missing is missing when it inserts,
\* and what it compared is what it moves on.
Alone ==
  /\ \A k \in DOMAIN point : undone[k] = 0
  /\ \A t \in Caller : /\ caller[t].pc = "insert" => caller[t].key \notin DOMAIN point
                       /\ caller[t].pc = "move" => caller[t].seen = accepted[caller[t].key]
AcceptedBounded ==
  \A k \in DOMAIN point : accepted[k] * Share <= (now - since[k]) + Period + Share

LEMMA AloneNext ==
  ASSUME \A t, u \in Caller : t = u
  PROVE  RateInv /\ Alone /\ [RateNext]_rateVars => Alone'
<1> SUFFICES ASSUME RateInv, Alone, [RateNext]_rateVars PROVE Alone'
  OBVIOUS
<1>1. RateTypeOK /\ Calls /\ DOMAIN caller = Caller
  BY DEF RateInv, RateTypeOK
<1>2. CASE UNCHANGED <<point, caller, accepted, undone>>
  BY <1>2 DEF Alone
<1>3. ASSUME NEW t \in Caller, NEW k \in Key, LookUp(t, k) PROVE Alone'
  <2>1. /\ caller'[t].key = k /\ caller'[t].pc = IF k \in DOMAIN point THEN "compare" ELSE "insert"
        /\ UNCHANGED <<point, accepted, undone>>
    BY <1>1, <1>3 DEF LookUp
  <2> QED BY <2>1 DEF Alone
<1>4. ASSUME NEW t \in Caller, Insert(t) PROVE Alone'
  <2>1. /\ caller[t].key \notin DOMAIN point /\ undone' = SetAt(undone, caller[t].key, 0)
        /\ point' = SetAt(point, caller[t].key, caller[t].at - Period + Share)
    BY <1>4 DEF Insert, Alone
  <2>2. caller'[t].pc = "idle"
    BY <1>1, <1>4 DEF Insert, Return, NoCall
  <2>3. \A k \in DOMAIN point' : undone'[k] = 0
    BY <1>1, <2>1 DEF SetAt, Alone, RateTypeOK
  <2> QED BY <2>2, <2>3 DEF Alone
<1>5. ASSUME NEW t \in Caller, Compare(t) PROVE Alone'
  <2>1. UNCHANGED <<point, accepted, undone>>
    BY <1>5 DEF Compare
  <2>2. CASE Return(t)
    BY <1>1, <2>1, <2>2 DEF Return, NoCall, Alone
  <2>3. CASE caller' = [caller EXCEPT ![t] =
               [pc |-> "move", key |-> caller[t].key, at |-> caller[t].at,
                read |-> point[caller[t].key], seen |-> accepted[caller[t].key]]]
    <3>1. /\ caller'[t].pc = "move" /\ caller'[t].key = caller[t].key
          /\ caller'[t].seen = accepted[caller[t].key]
      BY <1>1, <2>3
    <3> QED BY <2>1, <3>1 DEF Alone
  <2> QED BY <1>5, <2>2, <2>3 DEF Compare
<1>6. ASSUME NEW t \in Caller, Move(t) PROVE Alone'
  <2> DEFINE k == caller[t].key
  <2>1. /\ k \in DOMAIN point /\ accepted[k] - caller[t].seen = 0 /\ undone[k] = 0
    <3>1. k \in DOMAIN point
      BY <1>1, <1>6 DEF Move, Calls, ReadWell
    <3>2. accepted[k] \in Nat /\ caller[t].seen = accepted[k] /\ undone[k] = 0
      BY <1>1, <1>6, <3>1 DEF Move, Alone, RateTypeOK
    <3> QED BY <3>1, <3>2
  <2>2. undone' = [undone EXCEPT ![k] = undone[k] + (accepted[k] - caller[t].seen)]
    BY <1>6 DEF Move
  <2>3. DOMAIN point' = DOMAIN point /\ DOMAIN undone = DOMAIN point /\ caller'[t].pc = "idle"
    BY <1>1, <1>6 DEF Move, Return, NoCall, RateTypeOK
  <2> HIDE DEF k
  <2>4. \A x \in DOMAIN point : undone'[x] = 0
    BY <2>1, <2>2, <2>3 DEF Alone
  <2> QED BY <2>3, <2>4 DEF Alone
<1>7. Unlimited \/ Tick \/ (\E on \in BOOLEAN : EnableRateLimiting(on)) \/ UNCHANGED rateVars
      => UNCHANGED <<point, caller, accepted, undone>>
  BY DEF Unlimited, Tick, EnableRateLimiting, rateVars
<1> QED BY <1>2, <1>3, <1>4, <1>5, <1>6, <1>7 DEF RateNext

\* When requests come one by one, what is accepted is bounded without exception.
THEOREM OneByOneIsBounded ==
  ASSUME \A t, u \in Caller : t = u
  PROVE  RateSpec => []AcceptedBounded
<1>1. RateInit => Alone
  BY DEF RateInit, Alone, NoCall
<1>2. RateInv /\ Alone /\ [RateNext]_rateVars => Alone'
  BY AloneNext
<1>3. RateInv /\ Alone => AcceptedBounded
  <2> SUFFICES ASSUME RateInv, Alone, NEW k \in DOMAIN point
               PROVE  accepted[k] * Share <= (now - since[k]) + Period + Share
    BY DEF AcceptedBounded
  <2>1. undone[k] = 0 /\ accepted[k] \in Nat /\ accepted[k] - undone[k] = accepted[k]
    BY DEF Alone, RateInv, RateTypeOK
  <2>2. (accepted[k] - undone[k]) * Share <= (now - since[k]) + Period + Share
    BY InvBounds DEF RateBounded
  <2> QED BY <2>1, <2>2
<1> QED BY <1>1, <1>2, <1>3, RateInitInv, RateNextInv, PTL DEF RateSpec

\* A refused address is accepted again one share later.
THEOREM RefusalIsBrief == RateSpec => []RefusedBriefly
BY RateInitInv, RateNextInv, InvBounds, PTL DEF RateSpec

\* The limiter of the request manager (30 requests, 5 seconds) refuses nobody who asks
\* now.
THEOREM MoreThanSecondsNeverRefuses == RateSpec => []NeverRefuses
BY RateInitInv, RateNextInv, InvBounds, PTL DEF RateSpec
-------------------------------------------------------------------------------
(* ChainSync.                                                              *)

(* Sums of work.                                                           *)

LEMMA NoWork == \A blocks : BlocksWork(blocks, 0) = 0
<1> SUFFICES ASSUME NEW blocks PROVE BlocksWork(blocks, 0) = 0
  OBVIOUS
<1>1. SumFunctionOnSet([i \in 1 .. 0 |-> Work(blocks[i])], {}) = 0
  BY SumOfEmpty
<1>2. 1 .. 0 = {}
  OBVIOUS
<1> QED BY <1>1, <1>2 DEF BlocksWork, SumFunction

(* More blocks have no less work.                                          *)
LEMMA WorkMonotone ==
  ASSUME NEW m \in Nat, NEW n \in 0 .. m, NEW blocks, \A i \in 1 .. m : blocks[i] \in Block
  PROVE  BlocksWork(blocks, n) \in Nat /\ BlocksWork(blocks, n) <= BlocksWork(blocks, m)
<1> DEFINE W(k) == BlocksWork(blocks, k)
           G == {k \in Nat : k <= m => \A j \in 0 .. k : W(j) \in Nat /\ W(j) <= W(k)}
<1>1. 0 \in G
  BY NoWork
<1>2. ASSUME NEW k \in Nat, k \in G PROVE k + 1 \in G
  <2> SUFFICES ASSUME k + 1 <= m PROVE \A j \in 0 .. k + 1 : W(j) \in Nat /\ W(j) <= W(k + 1)
    OBVIOUS
  <2>1. \A i \in 1 .. k + 1 : blocks[i] \in Block
    OBVIOUS
  <2>2. W(k + 1) = W(k) + Work(blocks[k + 1])
    BY <2>1, WorkGrows
  <2>3. Work(blocks[k + 1]) \in Nat
    BY <2>1, WorkAssumption
  <2>4. \A j \in 0 .. k : W(j) \in Nat /\ W(j) <= W(k)
    BY <1>2
  <2> HIDE DEF W
  <2>5. \A j \in 0 .. k + 1 : j \in 0 .. k \/ j = k + 1
    OBVIOUS
  <2> QED BY <2>2, <2>3, <2>4, <2>5
<1> HIDE DEF W
<1>3. Nat \subseteq G
  <2> HIDE DEF G
  <2> QED BY <1>1, <1>2, SetInduction
<1>4. m \in G /\ n \in G
  BY <1>3
<1> QED BY <1>4 DEF W

(* What is known of a peer is the work of the hashes that were published,  *)
(* but for the moments in which they are, and load() sums up the work of   *)
(* all of them.                                                            *)
Loading == {"fetch", "check"}
Summed(c) ==
  /\ c.length <= Len(c.hashes)
  /\ c.pc \in Loading \cup {"sleep"} => c.work = BlocksWork(c.hashes, c.length)
  /\ c.pc \in {"sleep", "work", "good"} => c.length = Len(c.hashes)
  /\ c.pc \in Loading \cup {"work"} => c.sum = BlocksWork(c.hashes, Len(c.hashes))
  /\ c.pc = "good" => c.work = BlocksWork(c.hashes, Len(c.hashes))
HeadersSummed == \A h \in Host : Summed(headers[h])

(* A new value of one object.                                              *)
LEMMA UpdateSummed ==
  ASSUME HeaderInv, HeadersSummed, NEW h \in Host, NEW new, Update(h, new), Summed(new)
  PROVE  HeadersSummed'
<1>1. headers'[h] = new /\ \A x \in Host : x # h => headers'[x] = headers[x]
  BY DEF Update, HeaderInv, HeaderTypeOK
<1> QED BY <1>1 DEF HeadersSummed, Summed

(* The steps of load() keep the sums.                                      *)
LEMMA LoadSummed ==
  ASSUME HeaderInv, HeadersSummed, NEW h \in Host, LoadStep(h)
  PROVE  HeadersSummed'
<1> DEFINE c == headers[h]
<1>1. c \in HeaderRecord /\ Summed(c)
  <2>1. Summed(c)
    BY DEF HeadersSummed
  <2> QED BY <2>1, HostFacts
<1>2. c.length \in Nat /\ c.hashes \in Seq(Block) /\ Len(c.hashes) \in Nat /\ c.batch \in Seq(Block)
  BY <1>1 DEF HeaderRecord
<1>3. ASSUME Fail(h) PROVE HeadersSummed'
  <2> DEFINE new == [c EXCEPT !.pc = "reset", !.failed = TRUE]
  <2>1. Update(h, new)
    BY <1>3 DEF Fail
  <2>2. new.pc = "reset" /\ new.hashes = c.hashes /\ new.length = c.length
    BY <1>1 DEF HeaderRecord
  <2> HIDE DEF new
  <2>3. Summed(new)
    BY <1>1, <2>2 DEF Summed, Loading
  <2> QED BY <2>1, <2>3, UpdateSummed
<1>4. CASE Load(h)
  <2>1. CASE peer[h].up
    <3> DEFINE new == [c EXCEPT !.pc = "fetch", !.target = Len(peer[h].blocks),
                         !.next = Len(c.hashes) + 1, !.sum = c.work,
                         !.last = IF c.hashes = <<>> THEN NullHash ELSE c.hashes[Len(c.hashes)]]
    <3>1. Update(h, new) /\ c.pc = "sleep"
      BY <1>4, <2>1 DEF Load
    <3>2. new.pc = "fetch" /\ new.sum = c.work /\ new.hashes = c.hashes
          /\ new.work = c.work /\ new.length = c.length
      BY <1>1 DEF HeaderRecord
    <3> HIDE DEF new
    <3>3. Summed(new)
      BY <1>1, <3>1, <3>2 DEF Summed, Loading
    <3> QED BY <3>1, <3>3, UpdateSummed
  <2>2. CASE ~peer[h].up
    <3> DEFINE new == [c EXCEPT !.failed = TRUE]
    <3>1. Update(h, new) /\ c.pc = "sleep"
      BY <1>4, <2>2 DEF Load
    <3>2. new.pc = c.pc /\ new.hashes = c.hashes /\ new.work = c.work /\ new.length = c.length
      BY <1>1 DEF HeaderRecord
    <3> HIDE DEF new
    <3>3. Summed(new)
      BY <1>1, <3>1, <3>2 DEF Summed, Loading
    <3> QED BY <3>1, <3>3, UpdateSummed
  <2> QED BY <2>1, <2>2
<1>5. CASE Fetch(h)
  <2> DEFINE end == IF c.target < c.next + PerFetch - 1 THEN c.target ELSE c.next + PerFetch - 1
             have == IF end < Len(peer[h].blocks) THEN end ELSE Len(peer[h].blocks)
             batch == SubSeq(peer[h].blocks, c.next, have)
             new == [c EXCEPT !.pc = "check", !.batch = batch]
  <2>1. c.pc = "fetch" /\ (Fail(h) \/ Update(h, new))
    BY <1>5 DEF Fetch
  <2> HIDE DEF batch
  <2>2. new.pc = "check" /\ new.hashes = c.hashes /\ new.work = c.work /\ new.length = c.length
        /\ new.sum = c.sum
    BY <1>1 DEF HeaderRecord
  <2> HIDE DEF new
  <2>3. Summed(new)
    BY <1>1, <2>1, <2>2 DEF Summed, Loading
  <2> QED BY <1>3, <2>1, <2>3, UpdateSummed
<1>6. CASE CheckHeader(h)
  <2> DEFINE b == Head(c.batch)
             new == [c EXCEPT !.batch = Tail(c.batch), !.last = b,
                              !.hashes = Append(c.hashes, b), !.sum = c.sum + Work(b)]
  <2>1. c.pc = "check" /\ (Fail(h) \/ Update(h, new)) /\ b \in Block
    BY <1>2, <1>6 DEF CheckHeader
  <2>2. new.pc = "check" /\ new.hashes = Append(c.hashes, b) /\ new.work = c.work
        /\ new.length = c.length /\ new.sum = c.sum + Work(b)
    BY <1>1, <2>1 DEF HeaderRecord
  <2> HIDE DEF new, b
  <2>3. /\ Len(Append(c.hashes, b)) = Len(c.hashes) + 1
        /\ \A i \in 1 .. Len(c.hashes) : Append(c.hashes, b)[i] = c.hashes[i]
        /\ \A i \in 1 .. Len(c.hashes) + 1 : Append(c.hashes, b)[i] \in Block
        /\ Append(c.hashes, b)[Len(c.hashes) + 1] = b
    BY <1>2, <2>1
  <2> DEFINE more == Append(c.hashes, b)
  <2> HIDE DEF more
  <2>4. BlocksWork(more, Len(c.hashes) + 1) = BlocksWork(c.hashes, Len(c.hashes)) + Work(b)
    <3>1. BlocksWork(more, Len(c.hashes) + 1) = BlocksWork(more, Len(c.hashes)) + Work(more[Len(c.hashes) + 1])
      BY <1>2, <2>3, WorkGrows DEF more
    <3>2. BlocksWork(more, Len(c.hashes)) = BlocksWork(c.hashes, Len(c.hashes))
      BY <1>2, <2>3, WorkOfPart DEF more
    <3> QED BY <2>3, <3>1, <3>2 DEF more
  <2>5. c.length <= Len(c.hashes) /\ c.work = BlocksWork(c.hashes, c.length)
        /\ c.sum = BlocksWork(c.hashes, Len(c.hashes))
    BY <1>1, <2>1 DEF Summed, Loading
  <2>6. BlocksWork(more, c.length) = BlocksWork(c.hashes, c.length)
    <3>1. \A i \in 1 .. c.length : more[i] = c.hashes[i]
      BY <1>2, <2>3, <2>5 DEF more
    <3> QED BY <1>2, <3>1, WorkOfPart
  <2>7. Summed(new)
    BY <1>2, <2>1, <2>2, <2>3, <2>4, <2>5, <2>6 DEF Summed, Loading, more
  <2> QED BY <1>3, <2>1, <2>7, UpdateSummed
<1>7. CASE NextBatch(h)
  <2> DEFINE new == [c EXCEPT !.pc = "fetch", !.next = c.next + PerFetch]
  <2>1. Update(h, new) /\ c.pc = "check"
    BY <1>7 DEF NextBatch
  <2>2. new.pc = "fetch" /\ new.hashes = c.hashes /\ new.work = c.work /\ new.length = c.length
        /\ new.sum = c.sum
    BY <1>1 DEF HeaderRecord
  <2> HIDE DEF new
  <2>3. Summed(new)
    BY <1>1, <2>1, <2>2 DEF Summed, Loading
  <2> QED BY <2>1, <2>3, UpdateSummed
<1>8. CASE Publish(h)
  <2>1. ASSUME c.pc = "fetch", Update(h, [c EXCEPT !.pc = "work", !.length = Len(c.hashes)])
        PROVE  HeadersSummed'
    <3> DEFINE new == [c EXCEPT !.pc = "work", !.length = Len(c.hashes)]
    <3>1. new.pc = "work" /\ new.hashes = c.hashes /\ new.length = Len(c.hashes) /\ new.sum = c.sum
      BY <1>1 DEF HeaderRecord
    <3>2. Update(h, new)
      BY <2>1
    <3> HIDE DEF new
    <3>3. Summed(new)
      BY <1>1, <1>2, <2>1, <3>1 DEF Summed, Loading
    <3> QED BY <3>2, <3>3, UpdateSummed
  <2>2. ASSUME c.pc = "work", Update(h, [c EXCEPT !.pc = "good", !.work = c.sum])
        PROVE  HeadersSummed'
    <3> DEFINE new == [c EXCEPT !.pc = "good", !.work = c.sum]
    <3>1. new.pc = "good" /\ new.hashes = c.hashes /\ new.length = c.length /\ new.work = c.sum
      BY <1>1 DEF HeaderRecord
    <3>2. Update(h, new)
      BY <2>2
    <3> HIDE DEF new
    <3>3. Summed(new)
      BY <1>1, <1>2, <2>2, <3>1 DEF Summed, Loading
    <3> QED BY <3>2, <3>3, UpdateSummed
  <2>3. ASSUME c.pc = "good",
               Update(h, [Empty EXCEPT !.hashes = c.hashes, !.work = c.work, !.length = c.length])
        PROVE  HeadersSummed'
    <3> DEFINE new == [Empty EXCEPT !.hashes = c.hashes, !.work = c.work, !.length = c.length]
    <3>1. new.pc = "sleep" /\ new.hashes = c.hashes /\ new.length = c.length /\ new.work = c.work
      BY DEF Empty
    <3>2. Update(h, new)
      BY <2>3
    <3> HIDE DEF new
    <3>3. Summed(new)
      BY <1>1, <1>2, <2>3, <3>1 DEF Summed, Loading
    <3> QED BY <3>2, <3>3, UpdateSummed
  <2> QED BY <1>8, <2>1, <2>2, <2>3 DEF Publish
<1>9. CASE Reset(h)
  <2>1. ASSUME NEW new, Update(h, new), new.hashes = c.hashes, new.length \in {0, c.length},
               new.pc \in {"nowork", "nolength", "nohashes"}
        PROVE  HeadersSummed'
    <3>1. new.pc \notin Loading \cup {"sleep", "work", "good"}
      BY <2>1 DEF Loading
    <3>2. new.length <= Len(new.hashes)
      BY <1>1, <1>2, <2>1 DEF Summed
    <3>3. Summed(new)
      BY <3>1, <3>2 DEF Summed
    <3> QED BY <2>1, <3>3, UpdateSummed
  <2>2. CASE Update(h, [c EXCEPT !.pc = "nowork", !.failed = FALSE])
    BY <1>1, <2>1, <2>2 DEF HeaderRecord
  <2>3. CASE Update(h, [c EXCEPT !.pc = "nolength", !.work = 0])
    BY <1>1, <2>1, <2>3 DEF HeaderRecord
  <2>4. CASE Update(h, [c EXCEPT !.pc = "nohashes", !.length = 0])
    BY <1>1, <2>1, <2>4 DEF HeaderRecord
  <2>5. CASE Update(h, Empty)
    <3>1. Summed(Empty)
      BY NoWork DEF Summed, Loading, Empty
    <3> QED BY <2>5, <3>1, UpdateSummed
  <2> QED BY <1>9, <2>2, <2>3, <2>4, <2>5 DEF Reset
<1> QED BY <1>4, <1>5, <1>6, <1>7, <1>8, <1>9 DEF LoadStep

(* What addBlock and popBlock do to the blocks.                            *)
LEMMA AddEffect ==
  ASSUME NEW c, Sound(c), NEW b \in Block, NEW time
  PROVE  LET added == AddBlock(c, b, time)
             e == added.chain
         IN  /\ Sound(e) /\ Off(e) = Off(c)
             /\ \A i \in 1 .. c.numBlocks : e.blocks[i] = c.blocks[i]
             /\ \/ e.numBlocks = c.numBlocks + 1 /\ e.blocks[c.numBlocks + 1] = b
                \/ e.numBlocks = c.numBlocks /\ added.status # "SUCCESS"
<1> DEFINE added == AddBlock(c, b, time)
           e == added.chain
           x == Execution(c, b)
<1>1. Sound(e) /\ Off(e) = Off(c)
  BY AddKeeps
<1>2. CASE CheckBlock(c, b, time) = "SUCCESS" /\ x.status = "SUCCESS"
  <2>1. e = Commit(c, b, x.ledger)
    BY <1>2 DEF AddBlock, Finish
  <2>2. /\ BlockBody[b].id = c.numBlocks + 1 /\ e.numBlocks = c.numBlocks + 1
        /\ e.blocks = SetBlock(c.blocks, b)
    BY <1>2, <2>1, CommitSound
  <2>3. c.numBlocks \in Nat /\ 1 .. c.numBlocks \subseteq DOMAIN c.blocks
    BY DEF Sound, LinkedUpTo
  <2> HIDE DEF e
  <2> QED BY <1>1, <2>2, <2>3 DEF SetBlock, e
<1>3. CASE CheckBlock(c, b, time) = "SUCCESS" /\ x.status # "SUCCESS"
  <2>1. added.status # "SUCCESS" /\ e = [c EXCEPT !.ledger = Rollback(x.ledger, x.deltas)]
    BY <1>3 DEF AddBlock, Finish
  <2>2. e.numBlocks = c.numBlocks /\ e.blocks = c.blocks
    BY <2>1, LedgerSound
  <2> QED BY <1>1, <2>1, <2>2
<1>4. CASE CheckBlock(c, b, time) # "SUCCESS"
  <2>1. added.status # "SUCCESS" /\ e = c
    BY <1>4 DEF AddBlock
  <2> QED BY <1>1, <2>1
<1> QED BY <1>2, <1>3, <1>4

LEMMA PopEffect ==
  ASSUME NEW c, Sound(c), Off(c) = 0, c.numBlocks > 1
  PROVE  LET e == PopBlock(c)
         IN  /\ Sound(e) /\ Off(e) = 0 /\ e.numBlocks = c.numBlocks - 1
             /\ \A i \in 1 .. e.numBlocks : e.blocks[i] = c.blocks[i]
<1> DEFINE e == PopBlock(c)
<1>1. Sound(e) /\ Off(e) = 0
  BY PopKeeps
<1>2. CASE c.numBlocks > 2
  BY <1>1, <1>2, PopSound
<1>3. CASE c.numBlocks <= 2
  <2>1. c.numBlocks = 2 /\ e = ResetChain
    BY <1>3 DEF Sound, PopBlock
  <2>2. e.numBlocks = 1 /\ e.blocks[1] = Genesis /\ c.blocks[1] = Genesis
    BY <1>1, <2>1, ResetSound DEF Sound, LinkedUpTo
  <2>3. \A i \in 1 .. 1 : i = 1
    OBVIOUS
  <2> QED BY <1>1, <2>1, <2>2, <2>3
<1>4. c.numBlocks \in Nat
  BY DEF Sound
<1> QED BY <1>2, <1>3, <1>4

-------------------------------------------------------------------------------
(* What a round knows and has done.                                        *)

SyncFields == {"pc", "status", "best", "target", "next", "toPop", "blocks"}
IsSync(s) == s = [f \in SyncFields |-> s[f]]
SyncTypes ==
  /\ IsSync(sync) /\ sync.best \in ToSet(Peers)
  /\ sync.pc \in {"sleep", "target", "work", "compare", "pop", "fetch", "add"}
  /\ sync.next \in Nat \ {0} /\ sync.target \in Nat /\ sync.toPop \in Nat
  /\ sync.blocks \in Seq(Block)

ChainsSound == /\ Sound(chain) /\ Off(chain) = 0
               /\ Sound(before) /\ Off(before) = 0

\* What the peers have in common with each other and with this node: they start
\* with the first block, and serve the special blocks themselves.
SameOrigin ==
  \A c \in PeerChains : /\ c # <<>> => c[1] = Genesis
                        /\ \A i \in DOMAIN c : Special(c[i]) = c[i]

Trusted == headers[sync.best].hashes
Announced == headers[sync.best].length
Served == peer[sync.best].blocks
Behind == GetTotalWork(sync.best) > before.totalWork
BestSummed == headers[sync.best].work = BlocksWork(Trusted, Announced)

\* The round keeps the blocks up to m: all of them, unless the peer has more
\* work and m is the last one they have in common.
KeptUpTo(m) ==
  /\ m \in 0 .. before.numBlocks /\ m <= chain.numBlocks
  /\ \A i \in 1 .. m : chain.blocks[i] = before.blocks[i]
  /\ ~Behind => m = before.numBlocks
  /\ Behind => /\ m < Len(Trusted) /\ \A i \in 1 .. m : before.blocks[i] = Trusted[i]
               /\ m = before.numBlocks \/ before.blocks[m + 1] # Trusted[m + 1]

\* Above them are the peer's.
FetchedFrom(m) ==
  SameOrigin /\ Behind => m >= 1 /\ \A i \in m + 1 .. chain.numBlocks : chain.blocks[i] = Served[i]

\* Where the next blocks come from, and that they reach the peer's length.
Reaches ==
  SameOrigin /\ Behind =>
    IF sync.pc = "fetch"
    THEN \/ sync.next = chain.numBlocks + 1
         \/ sync.next > sync.target /\ chain.numBlocks >= sync.target
    ELSE LET end == chain.numBlocks + Len(sync.blocks)
         IN  /\ end <= Len(Served)
             /\ \A i \in 1 .. Len(sync.blocks) : sync.blocks[i] = Served[chain.numBlocks + i]
             /\ \/ end = sync.next + PerBlockFetch - 1
                \/ end >= sync.target /\ sync.next + PerBlockFetch > sync.target

RoundKnows ==
  /\ sync.best = GoodHost /\ (Behind => BestSummed)
  /\ Behind => Announced <= Len(Served) /\ \A i \in 1 .. Announced : Served[i] = Trusted[i]
  /\ Behind /\ sync.pc # "target" => sync.target = Announced
RoundPlace ==
  /\ sync.pc \in {"target", "work", "compare"} => chain = before /\ sync.toPop = 0
  /\ sync.pc = "compare" =>
       /\ Behind /\ sync.next <= before.numBlocks + 1
       /\ \A i \in 1 .. sync.next - 1 : i < Len(Trusted) /\ before.blocks[i] = Trusted[i]
  /\ sync.pc = "pop" =>
       /\ Behind /\ sync.toPop <= chain.numBlocks /\ KeptUpTo(chain.numBlocks - sync.toPop)
       /\ SameOrigin => chain.numBlocks - sync.toPop >= 1
  /\ sync.pc \in {"fetch", "add"} =>
       Reaches /\ \E m \in 0 .. before.numBlocks : KeptUpTo(m) /\ FetchedFrom(m)
RoundInv == calm /\ InRound => RoundKnows /\ RoundPlace

SyncInv == HeaderInv /\ HeadersSummed /\ SyncTypes /\ ChainsSound /\ RoundInv

-------------------------------------------------------------------------------
(* The best peer.                                                          *)

(* The peer that is trusted is one of the peers with the most work.        *)
LEMMA GoodHostIsBest ==
  ASSUME HeaderInv
  PROVE  /\ \A h \in Host : GetTotalWork(h) \in Nat
         /\ GoodHost \in ToSet(Peers) /\ GoodHost \in Host
         /\ GetTotalWork(GoodHost) = BestWork /\ BestWork \in Nat
<1>1. \A h \in Host : GetTotalWork(h) \in Nat
  BY HostFacts DEF GetTotalWork
<1> DEFINE D == DOMAIN Peers
           S == {GetTotalWork(Peers[i]) : i \in D}
           B == {i \in D : GetTotalWork(Peers[i]) = BestWork}
<1>2. /\ D = 1 .. Len(Peers) /\ Len(Peers) \in Nat \ {0}
      /\ \A i \in D : Peers[i] \in Host /\ i \in Nat
  BY ChainSyncAssumption
<1>3. IsFiniteSet(S)
  <2>1. IsFiniteSet(D)
    BY <1>2, FS_Interval
  <2> DEFINE work == [i \in D |-> GetTotalWork(Peers[i])]
  <2>2. S = {work[i] : i \in D}
    OBVIOUS
  <2> HIDE DEF D, S, work
  <2> QED BY <2>1, <2>2, ImageIsFinite
<1>4. S \subseteq Int /\ S # {} /\ S \subseteq Nat
  BY <1>1, <1>2
<1>5. BestWork \in S
  <2> HIDE DEF S
  <2>1. Max(S) \in S
    BY <1>3, <1>4, FiniteHasMax
  <2> QED BY <2>1 DEF BestWork, S
<1>6. B # {} /\ B \subseteq Nat
  BY <1>2, <1>5
<1>7. Min(B) \in B
  <2> HIDE DEF B
  <2> QED BY <1>6, LeastNat
<1>8. GoodHost = Peers[Min(B)]
  BY DEF GoodHost
<1>9. BestWork \in Nat
  BY <1>4, <1>5
<1> HIDE DEF S
<1> QED BY <1>1, <1>2, <1>7, <1>8, <1>9 DEF ToSet

(* A peer that has more work than a sound chain has hashes with that work, *)
(* and they are not all on the chain.                                      *)
LEMMA BehindFacts ==
  ASSUME HeaderInv, HeadersSummed, SyncTypes, ChainsSound, RoundKnows, Behind
  PROVE  /\ Announced \in 1 .. Len(Trusted) /\ Trusted \in Seq(Block)
         /\ GetTotalWork(sync.best) = BlocksWork(Trusted, Announced)
         /\ GetTotalWork(sync.best) > 0
         /\ Len(Trusted) <= before.numBlocks =>
              \E i \in 1 .. Len(Trusted) : before.blocks[i] # Trusted[i]
<1> DEFINE c == headers[sync.best]
           n == before.numBlocks
<1>1. sync.best \in Host
  <2>1. \A i \in DOMAIN Peers : Peers[i] \in Host
    BY ChainSyncAssumption
  <2> QED BY <2>1 DEF SyncTypes, ToSet
<1>2. /\ c.hashes \in Seq(Block) /\ c.length \in Nat /\ c.length <= Len(c.hashes)
      /\ c.work = BlocksWork(c.hashes, c.length)
  BY <1>1, HostFacts DEF HeadersSummed, Summed, HeaderRecord, RoundKnows, BestSummed, Trusted,
                         Announced
<1>3. n \in Nat /\ before.totalWork = BlocksWork(before.blocks, n)
      /\ \A i \in 1 .. n : before.blocks[i] \in Block
  <2>1. n \in Nat \ {0} /\ before.totalWork \in Int /\ LinkedUpTo(before.blocks, n)
    BY DEF ChainsSound, Sound
  <2>2. BlocksWork(before.blocks, n) \in Int
    BY <2>1, WorkOfLinked
  <2>3. before.totalWork - BlocksWork(before.blocks, n) = 0
    BY DEF ChainsSound, Off
  <2> QED BY <2>1, <2>2, <2>3 DEF LinkedUpTo
<1>4. before.totalWork \in Nat
  BY <1>3, WorkMonotone
<1>5. GetTotalWork(sync.best) = c.work /\ c.work > 0
  BY <1>1, <1>2, <1>4, HostFacts DEF Behind, GetTotalWork
<1>6. c.length # 0
  BY <1>2, <1>5, NoWork
<1>7. ASSUME Len(c.hashes) <= n, \A i \in 1 .. Len(c.hashes) : before.blocks[i] = c.hashes[i]
      PROVE  FALSE
  <2>1. \A i \in 1 .. c.length : before.blocks[i] = c.hashes[i]
    BY <1>2, <1>7
  <2>2. BlocksWork(before.blocks, c.length) = BlocksWork(c.hashes, c.length)
    BY <1>2, <2>1, WorkOfPart
  <2>3. c.length \in 0 .. n
    BY <1>2, <1>3, <1>7
  <2>4. /\ BlocksWork(before.blocks, c.length) \in Nat
        /\ BlocksWork(before.blocks, c.length) <= BlocksWork(before.blocks, n)
    BY <1>3, <2>3, WorkMonotone
  <2>5. c.work > before.totalWork
    BY <1>5 DEF Behind
  <2> QED BY <1>2, <1>3, <1>4, <2>2, <2>4, <2>5
<1>8. Len(c.hashes) \in Nat
  BY <1>2
<1> QED BY <1>2, <1>5, <1>6, <1>7, <1>8 DEF Trusted, Announced

-------------------------------------------------------------------------------
(* The steps of a round.                                                   *)

\* A step of a round that is not its last.
Goes == UNCHANGED <<headerVars, count, before, calm>> /\ sync'.best = sync.best

(* What stays while a round goes on.                                       *)
LEMMA GoesKeeps ==
  ASSUME SyncInv, Goes
  PROVE  /\ HeaderInv' /\ HeadersSummed'
         /\ Trusted' = Trusted /\ Served' = Served /\ Announced' = Announced
         /\ (Behind' <=> Behind) /\ (BestSummed' <=> BestSummed)
         /\ GoodHost' = GoodHost
         /\ GetTotalWork(sync.best)' = GetTotalWork(sync.best)
<1>1. headers' = headers /\ peer' = peer /\ changes' = changes /\ before' = before
  BY DEF Goes, headerVars
<1>2. GetTotalWork(sync.best)' = GetTotalWork(sync.best)
  BY <1>1 DEF Goes, GetTotalWork
<1>3. GoodHost' = GoodHost
  BY <1>1 DEF GoodHost, BestWork, GetTotalWork
<1>4. HeaderInv' /\ HeadersSummed'
  BY <1>1 DEF SyncInv, HeaderInv, HeaderTypeOK, HashesLinked, LoadPart, Valid, Linked, LastHash,
              HeadersSummed, Summed
<1> QED BY <1>1, <1>2, <1>3, <1>4 DEF Goes, Trusted, Served, Announced, Behind, BestSummed

(* A step that ends the round or does not take place within one.           *)
LEMMA RoundOver ==
  ASSUME sync'.pc = "sleep", before' = chain', Sound(chain'), Off(chain') = 0
  PROVE  ChainsSound' /\ RoundInv'
  BY DEF ChainsSound, RoundInv, InRound, Off, Sound

(* The steps of a round that leave the chain alone keep what is kept.      *)
LEMMA KeptOn ==
  ASSUME SyncInv, Goes, NEW m \in Nat, KeptUpTo(m), m <= chain'.numBlocks,
         \A i \in 1 .. m : chain'.blocks[i] = chain.blocks[i]
  PROVE  KeptUpTo(m)'
<1>1. before' = before /\ Trusted' = Trusted /\ (Behind' <=> Behind)
  BY GoesKeeps DEF Goes
<1> HIDE DEF Trusted, Behind
<1> QED BY <1>1 DEF KeptUpTo

(* What a round begins and ends with.                                      *)
LEMMA NoRoundTypes ==
  /\ IsSync(NoRound) /\ NoRound.pc = "sleep" /\ NoRound.best \in ToSet(Peers)
  /\ NoRound.next = 1 /\ NoRound.target = 1 /\ NoRound.toPop = 0 /\ NoRound.blocks = <<>>
  /\ \A status : LET n == Ended(status)
                 IN  /\ IsSync(n) /\ n.pc = "sleep" /\ n.best = NoRound.best
                     /\ n.next = 1 /\ n.target = 1 /\ n.toPop = 0 /\ n.blocks = <<>>
                     /\ n.status = status
<1>1. Peers[1] \in ToSet(Peers)
  BY ChainSyncAssumption DEF ToSet
<1> QED BY <1>1 DEF IsSync, SyncFields, NoRound, Ended

(* The round begins: the chain and the best peer are what they are now.    *)
LEMMA BeginInv ==
  ASSUME SyncInv, SyncBegin
  PROVE  SyncInv'
<1>1. sync' = [NoRound EXCEPT !.pc = "target", !.best = GoodHost]
  BY DEF SyncBegin, Round
<1>2. /\ IsSync(sync') /\ sync'.pc = "target" /\ sync'.best = GoodHost /\ sync'.next = 1
      /\ sync'.target = 1 /\ sync'.toPop = 0 /\ sync'.blocks = <<>>
  BY <1>1 DEF NoRound, IsSync, SyncFields
<1>3. GoodHost \in ToSet(Peers) /\ GoodHost \in Host
  BY GoodHostIsBest DEF SyncInv
<1>4. SyncTypes'
  BY <1>2, <1>3 DEF SyncTypes, IsSync
<1>5. /\ headers' = headers /\ peer' = peer /\ changes' = changes
      /\ chain' = chain /\ before' = chain /\ calm' = Agreed
  BY DEF SyncBegin, headerVars
<1>6. HeaderInv' /\ HeadersSummed' /\ GoodHost' = GoodHost
  BY <1>5 DEF SyncInv, HeaderInv, HeaderTypeOK, HashesLinked, LoadPart, Valid, Linked, LastHash,
              HeadersSummed, Summed, GoodHost, BestWork, GetTotalWork
<1>7. ChainsSound'
  BY <1>5 DEF SyncInv, ChainsSound, Sound, Off
<1>8. ASSUME Agreed
      PROVE  /\ headers[GoodHost].work = BlocksWork(headers[GoodHost].hashes, headers[GoodHost].length)
             /\ headers[GoodHost].length <= Len(peer[GoodHost].blocks)
             /\ \A i \in 1 .. headers[GoodHost].length :
                  peer[GoodHost].blocks[i] = headers[GoodHost].hashes[i]
  <2> DEFINE c == headers[GoodHost]
             p == peer[GoodHost].blocks
  <2>1. c.hashes \in Seq(Block) /\ p \in Seq(Block) /\ c.length \in Nat
    BY <1>3, HostFacts DEF SyncInv, HeaderRecord
  <2>2. /\ c.length <= Len(c.hashes) /\ IsPrefix(c.hashes, p)
        /\ c.work = BlocksWork(c.hashes, c.length)
    BY <1>3, <1>8 DEF SyncInv, HeadersSummed, Summed, Agreed
  <2> HIDE DEF c, p
  <2>3. Len(c.hashes) <= Len(p) /\ \A i \in 1 .. Len(c.hashes) : p[i] = c.hashes[i]
    BY <2>1, <2>2 DEF IsPrefix
  <2>4. Len(c.hashes) \in Nat /\ Len(p) \in Nat
    BY <2>1
  <2> QED BY <2>1, <2>2, <2>3, <2>4 DEF c, p
<1>9. RoundInv'
  BY <1>2, <1>5, <1>6, <1>8 DEF RoundInv, RoundKnows, RoundPlace, Announced, Served, Trusted,
                                  BestSummed
<1> QED BY <1>4, <1>6, <1>7, <1>9 DEF SyncInv

(* What the peers have now is what the trusted one has.                    *)
LEMMA TargetInv ==
  ASSUME SyncInv, SyncTarget
  PROVE  SyncInv'
<1> USE DEF SyncInv
<1>1. BlockCount \in Nat
  <2>1. GetChainLength(GoodHost) \in Nat
    BY GoodHostIsBest, HostFacts DEF GetChainLength, HeaderRecord
  <2> QED BY <2>1 DEF BlockCount
<1>2. sync' = [sync EXCEPT !.pc = "work", !.target = BlockCount]
  BY DEF SyncTarget, Round
<1>3. /\ IsSync(sync') /\ sync'.pc = "work" /\ sync'.target = BlockCount /\ sync'.best = sync.best
      /\ sync'.next = sync.next /\ sync'.toPop = sync.toPop /\ sync'.blocks = sync.blocks
  <2>1. IsSync(sync)
    BY DEF SyncTypes
  <2> HIDE DEF SyncInv
  <2> QED BY <1>2, <2>1 DEF IsSync, SyncFields
<1>4. Goes /\ chain' = chain
  BY <1>3 DEF SyncTarget, Stay, Goes
<1>5. SyncTypes'
  BY <1>1, <1>3 DEF SyncTypes, IsSync
<1>6. ChainsSound'
  BY <1>4 DEF Goes, ChainsSound, Sound, Off
<1>7. ASSUME calm, Behind, sync.best = GoodHost
      PROVE  BlockCount = Announced
  <2>1. GetTotalWork(sync.best) > 0 /\ GetTotalWork(sync.best) = BestWork
    <3>1. RoundKnows
      BY <1>7 DEF RoundInv, InRound, SyncTarget
    <3> QED BY <1>7, <3>1, BehindFacts, GoodHostIsBest
  <2>2. ~headers[sync.best].failed
    BY <2>1 DEF GetTotalWork
  <2> QED BY <1>7, <2>1, <2>2 DEF BlockCount, GetChainLength, Announced
<1>8. RoundInv'
  <2> SUFFICES ASSUME calm PROVE RoundKnows' /\ RoundPlace'
    BY <1>4 DEF RoundInv, Goes
  <2>1. RoundKnows /\ RoundPlace /\ sync.pc = "target"
    BY DEF RoundInv, InRound, SyncTarget
  <2>2. chain = before /\ sync.toPop = 0
    BY <2>1 DEF RoundPlace
  <2>3. RoundPlace'
    BY <1>3, <1>4, <2>2 DEF RoundPlace, Goes
  <2>4. RoundKnows'
    BY <1>3, <1>4, <1>7, <2>1, GoesKeeps DEF RoundKnows
  <2> QED BY <2>3, <2>4
<1> QED BY <1>4, <1>5, <1>6, <1>8, GoesKeeps

(* The steps after the peers' length is known.                             *)
LEMMA Onward ==
  ASSUME SyncInv, Goes, InRound, sync.pc # "target", sync'.target = sync.target,
         SyncTypes', ChainsSound', calm => RoundPlace'
  PROVE  SyncInv'
<1> USE DEF SyncInv
<1>1. RoundInv'
  <2> SUFFICES ASSUME calm PROVE RoundKnows' /\ RoundPlace'
    BY DEF RoundInv, Goes
  <2>1. RoundKnows
    BY DEF RoundInv
  <2>2. RoundKnows'
    BY <2>1, GoesKeeps DEF RoundKnows, Goes
  <2> QED BY <2>2
<1> QED BY <1>1, GoesKeeps

(* The chain that stays the same stays sound.                              *)
LEMMA SameChain ==
  ASSUME ChainsSound, chain' = chain, before' = before
  PROVE  ChainsSound'
  BY DEF ChainsSound, Sound, Off

(* With no more work to win, nothing is removed.                           *)
LEMMA WorkInv ==
  ASSUME SyncInv, SyncWork
  PROVE  SyncInv'
<1>1. IsSync(sync) /\ SyncTypes /\ chain.numBlocks \in Nat \ {0}
  BY DEF SyncInv, SyncTypes, ChainsSound, Sound
<1>2. sync' = IF BestWork > chain.totalWork
              THEN [sync EXCEPT !.pc = "compare", !.next = 1]
              ELSE [sync EXCEPT !.pc = "fetch", !.next = chain.numBlocks + 1]
  BY DEF SyncWork, Round, Download
<1>3. /\ IsSync(sync') /\ sync'.best = sync.best /\ sync'.target = sync.target
      /\ sync'.toPop = sync.toPop /\ sync'.blocks = sync.blocks
      /\ IF BestWork > chain.totalWork THEN sync'.pc = "compare" /\ sync'.next = 1
         ELSE sync'.pc = "fetch" /\ sync'.next = chain.numBlocks + 1
  BY <1>1, <1>2 DEF IsSync, SyncFields
<1>4. Goes /\ chain' = chain /\ InRound /\ sync.pc = "work"
  BY <1>3 DEF SyncWork, Stay, Goes, InRound
<1>5. SyncTypes'
  BY <1>1, <1>3 DEF SyncTypes, IsSync
<1>6. ChainsSound'
  BY <1>4, SameChain DEF Goes, SyncInv
<1>7. ASSUME calm PROVE RoundPlace'
  <2>1. RoundKnows /\ RoundPlace
    BY <1>4, <1>7 DEF SyncInv, RoundInv
  <2>2. chain = before /\ sync.toPop = 0 /\ (Behind <=> BestWork > chain.totalWork)
    BY <1>4, <2>1, GoodHostIsBest DEF RoundPlace, RoundKnows, Behind, SyncInv
  <2>3. chain' = before' /\ (Behind' <=> Behind) /\ before' = before
    BY <1>4, <2>2, GoesKeeps DEF Goes
  <2>4. CASE BestWork > chain.totalWork
    BY <1>1, <1>3, <2>2, <2>3, <2>4 DEF RoundPlace
  <2>5. CASE ~(BestWork > chain.totalWork)
    <3>1. sync'.pc = "fetch" /\ ~Behind'
      BY <1>3, <2>2, <2>3, <2>5
    <3>0. PICK m \in Nat : m = before.numBlocks
      BY <1>1, <2>2
    <3>2. m \in 0 .. before'.numBlocks /\ KeptUpTo(m)' /\ FetchedFrom(m)'
      BY <1>1, <2>2, <2>3, <3>0, <3>1 DEF KeptUpTo, FetchedFrom
    <3>3. Reaches'
      BY <3>1 DEF Reaches
    <3> QED BY <3>1, <3>2, <3>3 DEF RoundPlace
  <2> QED BY <2>4, <2>5
<1> QED BY <1>3, <1>4, <1>5, <1>6, <1>7, Onward

(* What comparing the chain with the hashes of a peer that has more work   *)
(* finds at one place, when they agree before it.                          *)
LEMMA Differs ==
  ASSUME SyncInv, Behind, RoundKnows, chain = before,
         NEW n \in Nat, n \in 1 .. before.numBlocks,
         \A i \in 1 .. n - 1 : i < Len(Trusted) /\ before.blocks[i] = Trusted[i]
  PROVE  /\ GetBlockHash(sync.best, n) # before.blocks[n] =>
              /\ n - 1 < Len(Trusted) /\ before.blocks[n] # Trusted[n]
              /\ SameOrigin => n # 1
         /\ GetBlockHash(sync.best, n) = before.blocks[n] =>
              n < Len(Trusted) /\ before.blocks[n] = Trusted[n]
<1> USE DEF SyncInv
<1>1. sync.best \in ToSet(Peers) /\ sync.best \in Host
  BY GoodHostIsBest DEF RoundKnows
<1>2. GetBlockHash(sync.best, n) = IF n >= Len(Trusted) THEN NullHash ELSE Trusted[n]
  BY <1>1 DEF GetBlockHash, GetHash, Trusted
<1>3. /\ before.blocks[n] \in Block /\ before.blocks[1] = Genesis /\ NullHash \notin Block
      /\ before.numBlocks \in Nat
  BY HeaderAssumption DEF ChainsSound, Sound, LinkedUpTo
<1>4. Trusted \in Seq(Block) /\ Announced \in 1 .. Len(Trusted) /\ Len(Trusted) \in Nat
  BY BehindFacts
<1> HIDE DEF Trusted, Announced, Behind, GetBlockHash, SyncInv
<1>5. n - 1 < Len(Trusted)
  BY <1>4
<1>6. ASSUME GetBlockHash(sync.best, n) # before.blocks[n]
      PROVE  before.blocks[n] # Trusted[n]
  <2>1. CASE n < Len(Trusted)
    BY <1>2, <1>4, <1>6, <2>1
  <2>2. CASE n >= Len(Trusted)
    <3>1. n = Len(Trusted) /\ Len(Trusted) <= before.numBlocks
      BY <1>3, <1>4, <1>5, <2>2
    <3>2. PICK i \in 1 .. Len(Trusted) : before.blocks[i] # Trusted[i]
      BY <3>1, BehindFacts DEF SyncInv
    <3>3. i \notin 1 .. n - 1
      BY <3>2
    <3>4. i = n
      BY <1>4, <3>1, <3>2, <3>3
    <3> QED BY <3>2, <3>4
  <2> QED BY <1>4, <2>1, <2>2
<1>7. ASSUME SameOrigin, before.blocks[n] # Trusted[n] PROVE n # 1
  <2>1. Served \in PeerChains
    BY <1>1 DEF Served, SyncInv, HeaderInv, HeaderTypeOK
  <2>2. Announced <= Len(Served) /\ \A i \in 1 .. Announced : Served[i] = Trusted[i]
    BY DEF RoundKnows
  <2>3. Served \in Seq(Block)
    BY <2>1, HeaderChainAssumption
  <2>4. Served # <<>> /\ Served[1] = Trusted[1]
    BY <1>4, <2>2, <2>3
  <2>5. Served[1] = Genesis
    BY <1>7, <2>1, <2>4 DEF SameOrigin
  <2> QED BY <1>3, <1>7, <2>4, <2>5
<1> QED BY <1>2, <1>3, <1>4, <1>5, <1>6, <1>7

(* Where the hashes differ, the blocks from there on are to go.            *)
LEMMA CompareInv ==
  ASSUME SyncInv, SyncCompare
  PROVE  SyncInv'
<1> DEFINE differs == GetBlockHash(sync.best, sync.next) # chain.blocks[sync.next]
           past == sync.next > chain.numBlocks
<1>1. /\ IsSync(sync) /\ SyncTypes /\ chain.numBlocks \in Nat \ {0}
      /\ sync.next \in Nat \ {0} /\ sync.toPop \in Nat
  BY DEF SyncInv, SyncTypes, ChainsSound, Sound
<1>2. sync' = IF past THEN [sync EXCEPT !.pc = "pop"]
              ELSE IF differs
              THEN [sync EXCEPT !.pc = "pop", !.toPop = chain.numBlocks - sync.next + 1]
              ELSE [sync EXCEPT !.next = sync.next + 1]
  BY DEF SyncCompare, Round
<1> HIDE DEF differs
<1>3. /\ IsSync(sync') /\ sync'.best = sync.best /\ sync'.target = sync.target
      /\ sync'.blocks = sync.blocks
      /\ past => sync'.pc = "pop" /\ sync'.toPop = sync.toPop /\ sync'.next = sync.next
      /\ ~past /\ differs => /\ sync'.pc = "pop" /\ sync'.next = sync.next
                             /\ sync'.toPop = chain.numBlocks - sync.next + 1
      /\ ~past /\ ~differs => /\ sync'.pc = sync.pc /\ sync'.next = sync.next + 1
                              /\ sync'.toPop = sync.toPop
  BY <1>1, <1>2 DEF IsSync, SyncFields
<1>4. Goes /\ chain' = chain /\ InRound /\ sync.pc = "compare"
  <2>1. sync'.pc # "sleep"
    BY <1>3 DEF SyncCompare
  <2> QED BY <1>3, <2>1 DEF SyncCompare, Stay, Goes, InRound
<1>5. SyncTypes'
  <2>1. chain.numBlocks - sync.next + 1 \in Nat \/ past
    BY <1>1
  <2> QED BY <1>1, <1>3, <1>4, <2>1 DEF SyncTypes, IsSync
<1>6. ChainsSound'
  BY <1>4, SameChain DEF Goes, SyncInv
<1>7. ASSUME calm PROVE RoundPlace'
  <2>1. RoundKnows /\ RoundPlace
    BY <1>4, <1>7 DEF SyncInv, RoundInv
  <2>2. /\ chain = before /\ sync.toPop = 0 /\ Behind /\ sync.next <= before.numBlocks + 1
        /\ \A i \in 1 .. sync.next - 1 : i < Len(Trusted) /\ before.blocks[i] = Trusted[i]
    BY <1>4, <2>1 DEF RoundPlace
  <2>3. /\ chain' = before' /\ Behind' /\ before' = before /\ Trusted' = Trusted
        /\ chain' = chain
    BY <1>4, <2>2, GoesKeeps DEF Goes
  <2> HIDE DEF Trusted, Behind
  <2>4. CASE past
    <3>0. PICK m \in Nat : m = before.numBlocks
      BY <1>1, <2>2
    <3>1. sync.next = m + 1 /\ m \in 1 .. sync.next - 1
      BY <1>1, <2>2, <2>4, <3>0
    <3>2. m < Len(Trusted) /\ \A i \in 1 .. m : before.blocks[i] = Trusted[i]
      BY <2>2, <3>1
    <3>3. KeptUpTo(m)'
      BY <2>2, <2>3, <3>0, <3>2 DEF KeptUpTo
    <3>4. m = chain'.numBlocks - sync'.toPop
      BY <1>3, <2>2, <2>3, <2>4, <3>0
    <3> QED BY <1>1, <1>3, <2>2, <2>3, <2>4, <3>3, <3>4 DEF RoundPlace
  <2>5. CASE ~past /\ differs
    <3>0. PICK m \in Nat : m = sync.next - 1
      BY <1>1
    <3>1. sync.next \in 1 .. before.numBlocks
      BY <1>1, <2>2, <2>5
    <3>2. /\ m < Len(Trusted) /\ before.blocks[m + 1] # Trusted[m + 1]
          /\ SameOrigin => m >= 1
      <4>1. GetBlockHash(sync.best, sync.next) # before.blocks[sync.next]
        BY <2>2, <2>5 DEF differs
      <4>2. /\ sync.next - 1 < Len(Trusted) /\ before.blocks[sync.next] # Trusted[sync.next]
            /\ SameOrigin => sync.next # 1
        BY <1>1, <2>1, <2>2, <3>1, <4>1, Differs
      <4> QED BY <1>1, <3>0, <4>2
    <3>3. KeptUpTo(m)'
      <4>1. m \in 0 .. before.numBlocks /\ before.numBlocks \in Nat
        BY <1>1, <2>2, <3>0, <3>1
      <4>2. \A i \in 1 .. m : before.blocks[i] = Trusted[i]
        BY <1>1, <2>2, <3>0
      <4> QED BY <2>2, <2>3, <3>2, <4>1, <4>2 DEF KeptUpTo
    <3>4. /\ m = chain'.numBlocks - sync'.toPop /\ sync'.toPop <= chain'.numBlocks
          /\ sync'.pc = "pop"
      BY <1>1, <1>3, <2>3, <2>5, <3>0
    <3> QED BY <2>3, <3>2, <3>3, <3>4 DEF RoundPlace
  <2>6. CASE ~past /\ ~differs
    <3>1. sync.next \in 1 .. before.numBlocks
      BY <1>1, <2>2, <2>6
    <3>2. sync.next < Len(Trusted) /\ before.blocks[sync.next] = Trusted[sync.next]
      BY <2>1, <2>2, <2>6, <3>1, Differs DEF differs
    <3>3. \A i \in 1 .. sync'.next - 1 : i < Len(Trusted) /\ before.blocks[i] = Trusted[i]
      BY <1>1, <1>3, <2>2, <2>6, <3>2
    <3>4. /\ sync'.pc = "compare" /\ sync'.toPop = 0
          /\ sync'.next <= before'.numBlocks + 1
      BY <1>1, <1>3, <1>4, <2>2, <2>3, <2>6, <3>1
    <3> QED BY <2>3, <3>3, <3>4 DEF RoundPlace
  <2> QED BY <2>4, <2>5, <2>6
<1> QED BY <1>3, <1>4, <1>5, <1>6, <1>7, Onward

(* The last of the blocks to go goes, or the download begins.              *)
LEMMA PopInv ==
  ASSUME SyncInv, SyncPop
  PROVE  SyncInv'
<1> DEFINE more == sync.toPop > 0 /\ chain.numBlocks # 1
<1>1. /\ IsSync(sync) /\ SyncTypes /\ chain.numBlocks \in Nat \ {0} /\ sync.toPop \in Nat
      /\ Sound(chain) /\ Off(chain) = 0 /\ Sound(before) /\ Off(before) = 0
  BY DEF SyncInv, SyncTypes, ChainsSound, Sound
<1>2. sync' = IF more THEN [sync EXCEPT !.toPop = sync.toPop - 1]
              ELSE [sync EXCEPT !.pc = "fetch", !.next = chain.numBlocks + 1]
  BY DEF SyncPop, Round, Download
<1>3. chain' = IF more THEN PopBlock(chain) ELSE chain
  BY DEF SyncPop
<1>4. /\ IsSync(sync') /\ sync'.best = sync.best /\ sync'.target = sync.target
      /\ sync'.blocks = sync.blocks
      /\ more => /\ sync'.pc = sync.pc /\ sync'.toPop = sync.toPop - 1
                 /\ sync'.next = sync.next
      /\ ~more => /\ sync'.pc = "fetch" /\ sync'.toPop = sync.toPop
                  /\ sync'.next = chain.numBlocks + 1
  BY <1>1, <1>2 DEF IsSync, SyncFields
<1>5. Goes /\ InRound /\ sync.pc = "pop"
  <2>1. sync'.pc # "sleep"
    BY <1>4 DEF SyncPop
  <2> QED BY <1>4, <2>1 DEF SyncPop, Stay, Goes, InRound
<1>6. SyncTypes'
  <2>1. sync'.toPop \in Nat /\ sync'.next \in Nat \ {0}
    BY <1>1, <1>4 DEF SyncTypes
  <2> QED BY <1>1, <1>4, <1>5, <2>1 DEF SyncTypes, IsSync
<1>7. more => /\ chain'.numBlocks = chain.numBlocks - 1
              /\ \A i \in 1 .. chain'.numBlocks : chain'.blocks[i] = chain.blocks[i]
              /\ Sound(chain') /\ Off(chain') = 0
  BY <1>1, <1>3, PopEffect
<1>8. ChainsSound'
  <2>1. Sound(chain') /\ Off(chain') = 0 /\ before' = before
    BY <1>1, <1>3, <1>5, <1>7 DEF Goes
  <2> QED BY <1>1, <2>1 DEF ChainsSound, Sound, Off
<1>9. ASSUME calm PROVE RoundPlace'
  <2>1. RoundPlace
    BY <1>5, <1>9 DEF SyncInv, RoundInv
  <2>2. /\ Behind /\ sync.toPop <= chain.numBlocks
        /\ KeptUpTo(chain.numBlocks - sync.toPop)
        /\ SameOrigin => chain.numBlocks - sync.toPop >= 1
    BY <1>5, <2>1 DEF RoundPlace
  <2>3. PICK m \in Nat : m = chain.numBlocks - sync.toPop
    BY <1>1, <2>2
  <2>4. KeptUpTo(m)
    BY <2>2, <2>3
  <2>5. Behind' /\ before' = before /\ before.numBlocks \in Nat
    BY <1>1, <1>5, <2>2, GoesKeeps DEF Goes, Sound
  <2> HIDE DEF Behind
  <2>6. CASE more
    <3>1. /\ m <= chain'.numBlocks /\ m = chain'.numBlocks - sync'.toPop
          /\ sync'.toPop <= chain'.numBlocks /\ chain'.numBlocks \in Nat
      BY <1>1, <1>4, <1>7, <2>2, <2>3, <2>6
    <3>2. \A i \in 1 .. m : chain'.blocks[i] = chain.blocks[i]
      BY <1>7, <2>6, <3>1
    <3>3. KeptUpTo(m)'
      BY <1>5, <2>4, <3>1, <3>2, KeptOn
    <3> QED BY <1>4, <1>5, <2>2, <2>3, <2>5, <2>6, <3>1, <3>3 DEF RoundPlace
  <2>7. CASE ~more
    <3>1. chain' = chain
      BY <1>3, <2>7
    <3>2. KeptUpTo(m)'
      BY <1>1, <1>5, <2>3, <2>4, <3>1, KeptOn
    <3>3. FetchedFrom(m)'
      <4> SUFFICES ASSUME SameOrigin
                   PROVE  m >= 1 /\ \A i \in m + 1 .. chain.numBlocks : FALSE
        BY <3>1 DEF FetchedFrom
      <4>1. m >= 1
        BY <2>2, <2>3
      <4>2. m = chain.numBlocks
        BY <1>1, <2>3, <2>7, <4>1
      <4> QED BY <1>1, <4>1, <4>2
    <3>4. sync'.pc = "fetch" /\ sync'.next = chain'.numBlocks + 1
      BY <1>4, <2>7, <3>1
    <3>5. Reaches'
      BY <3>4 DEF Reaches
    <3>6. m \in 0 .. before'.numBlocks
      BY <2>4, <2>5 DEF KeptUpTo
    <3> QED BY <3>2, <3>3, <3>4, <3>5, <3>6 DEF RoundPlace
  <2> QED BY <2>6, <2>7
<1> QED BY <1>4, <1>5, <1>6, <1>8, <1>9, Onward

(* The last step of a round.                                               *)
LEMMA EndInv ==
  ASSUME SyncInv, NEW status, sync' = Ended(status), Stay, Sound(chain'), Off(chain') = 0
  PROVE  SyncInv'
<1>1. /\ IsSync(sync') /\ sync'.pc = "sleep" /\ sync'.best \in ToSet(Peers) /\ sync'.next = 1
      /\ sync'.target = 1 /\ sync'.toPop = 0 /\ sync'.blocks = <<>>
  BY NoRoundTypes
<1>2. SyncTypes'
  BY <1>1 DEF SyncTypes, IsSync
<1>3. headers' = headers /\ peer' = peer /\ changes' = changes /\ before' = chain'
  BY <1>1 DEF Stay, headerVars
<1>4. HeaderInv' /\ HeadersSummed'
  BY <1>3 DEF SyncInv, HeaderInv, HeaderTypeOK, HashesLinked, LoadPart, Valid, Linked, LastHash,
              HeadersSummed, Summed
<1> QED BY <1>1, <1>2, <1>3, <1>4, RoundOver DEF SyncInv

(* The least of three.                                                     *)
LEMMA LeastOfThree ==
  ASSUME NEW a \in Nat, NEW b \in Nat, NEW c \in Nat
  PROVE  Min({a, b, c}) \in {a, b, c} /\ \A x \in {a, b, c} : Min({a, b, c}) <= x
<1>1. {a, b, c} \subseteq Nat /\ {a, b, c} # {}
  OBVIOUS
<1> QED BY <1>1, LeastNat

(* The next blocks come from the peer's chain, or the round is over.       *)
LEMMA SyncFetchInv ==
  ASSUME SyncInv, SyncFetch
  PROVE  SyncInv'
<1> DEFINE p == peer[sync.best]
           end == Min({sync.target, sync.next + PerBlockFetch - 1, Len(p.blocks)})
           give == p.up /\ sync.next <= end
           batch == SubSeq(p.blocks, sync.next, end)
<1>1. /\ IsSync(sync) /\ SyncTypes /\ chain.numBlocks \in Nat \ {0}
      /\ sync.target \in Nat /\ sync.next \in Nat \ {0}
      /\ Sound(chain) /\ Off(chain) = 0
  BY DEF SyncInv, SyncTypes, ChainsSound, Sound
<1>2. /\ sync.pc = "fetch" /\ chain' = chain /\ Stay
      /\ sync' = IF sync.next > sync.target THEN Ended("SUCCESS")
                 ELSE IF give THEN [sync EXCEPT !.pc = "add", !.blocks = batch]
                 ELSE Ended("UNKNOWN_ERROR")
  BY DEF SyncFetch, Round
<1>3. CASE sync.next > sync.target \/ ~give
  <2>1. sync' = Ended("SUCCESS") \/ sync' = Ended("UNKNOWN_ERROR")
    BY <1>2, <1>3
  <2> QED BY <1>1, <1>2, <2>1, EndInv
<1>4. CASE sync.next <= sync.target /\ give
  <2> HIDE DEF batch
  <2>1. sync' = [sync EXCEPT !.pc = "add", !.blocks = batch]
    BY <1>1, <1>2, <1>4
  <2>2. /\ IsSync(sync') /\ sync'.best = sync.best /\ sync'.target = sync.target
        /\ sync'.next = sync.next /\ sync'.toPop = sync.toPop
        /\ sync'.pc = "add" /\ sync'.blocks = batch
    BY <1>1, <2>1 DEF IsSync, SyncFields
  <2>3. Goes /\ InRound
    BY <1>2, <2>2 DEF Stay, Goes, InRound
  <2>4. p.blocks \in Seq(Block) /\ Len(p.blocks) \in Nat
    <3>1. sync.best \in Host
      <4>1. \A i \in DOMAIN Peers : Peers[i] \in Host
        BY ChainSyncAssumption
      <4> QED BY <1>1, <4>1 DEF SyncTypes, ToSet
    <3> QED BY <3>1, HostFacts DEF SyncInv
  <2>5. /\ end \in {sync.target, sync.next + PerBlockFetch - 1, Len(p.blocks)}
        /\ end <= sync.target /\ end <= sync.next + PerBlockFetch - 1 /\ end <= Len(p.blocks)
    <3>1. sync.next + PerBlockFetch - 1 \in Nat
      BY <1>1, ChainSyncAssumption
    <3> DEFINE k == sync.next + PerBlockFetch - 1
               l == Len(p.blocks)
    <3> HIDE DEF p, k, l
    <3>2. /\ Min({sync.target, k, l}) \in {sync.target, k, l}
          /\ \A x \in {sync.target, k, l} : Min({sync.target, k, l}) <= x
      BY <1>1, <2>4, <3>1, LeastOfThree DEF k, l
    <3> QED BY <3>2 DEF k, l
  <2>6. end \in Nat
    BY <1>1, <2>4, <2>5, ChainSyncAssumption
  <2> HIDE DEF end, p
  <2>7. /\ batch \in Seq(Block) /\ Len(batch) = end - sync.next + 1
        /\ \A i \in 1 .. Len(batch) : batch[i] = p.blocks[sync.next + i - 1]
    BY <1>1, <1>4, <2>4, <2>5, <2>6 DEF batch
  <2>8. SyncTypes'
    BY <1>1, <2>2, <2>3, <2>7 DEF SyncTypes, IsSync
  <2>9. ChainsSound'
    BY <1>2, <2>3, SameChain DEF Goes, SyncInv
  <2>10. ASSUME calm PROVE RoundPlace'
    <3>1. RoundPlace /\ RoundKnows
      BY <1>2, <2>3, <2>10 DEF SyncInv, RoundInv
    <3>2. PICK m \in Nat : KeptUpTo(m) /\ FetchedFrom(m)
      BY <1>2, <3>1 DEF RoundPlace, KeptUpTo
    <3>3. /\ before' = before /\ Served' = Served /\ (Behind' <=> Behind) /\ chain' = chain
          /\ Served = p.blocks
      BY <1>2, <2>3, GoesKeeps DEF Goes, Served, p
    <3> HIDE DEF Served, Behind
    <3>4. KeptUpTo(m)'
      BY <1>1, <2>3, <3>2, <3>3, KeptOn DEF KeptUpTo
    <3>5. FetchedFrom(m)'
      BY <3>2, <3>3 DEF FetchedFrom
    <3>6. m \in 0 .. before'.numBlocks
      BY <3>2, <3>3 DEF KeptUpTo
    <3>7. Reaches'
      <4> SUFFICES ASSUME SameOrigin, Behind
                   PROVE  LET to == chain.numBlocks + Len(batch)
                          IN  /\ to <= Len(Served)
                              /\ \A i \in 1 .. Len(batch) : batch[i] = Served[chain.numBlocks + i]
                              /\ \/ to = sync.next + PerBlockFetch - 1
                                 \/ to >= sync.target /\ sync.next + PerBlockFetch > sync.target
        BY <2>2, <3>3 DEF Reaches
      <4>1. sync.next = chain.numBlocks + 1
        BY <1>1, <1>2, <1>4, <3>1 DEF Reaches, RoundPlace
      <4>2. sync.target = Announced /\ Announced <= Len(Served)
        BY <1>2, <3>1 DEF RoundKnows
      <4>3. chain.numBlocks + Len(batch) = end
        BY <1>1, <2>6, <2>7, <4>1
      <4>4. \A i \in 1 .. Len(batch) : batch[i] = Served[chain.numBlocks + i]
        <5> SUFFICES ASSUME NEW i \in 1 .. Len(batch)
                     PROVE  batch[i] = Served[chain.numBlocks + i]
          OBVIOUS
        <5>1. sync.next + i - 1 = chain.numBlocks + i
          BY <1>1, <2>6, <2>7, <4>1
        <5> QED BY <2>7, <3>3, <5>1
      <4>5. end = sync.next + PerBlockFetch - 1 \/ end = sync.target
        BY <1>1, <2>4, <2>5, <2>6, <3>3, <4>2
      <4>6. end = sync.target => sync.next + PerBlockFetch > sync.target
        BY <1>1, <2>5, <2>6, ChainSyncAssumption
      <4> QED BY <1>1, <2>5, <2>6, <3>3, <4>3, <4>4, <4>5, <4>6
    <3> QED BY <2>2, <3>4, <3>5, <3>6, <3>7 DEF RoundPlace
  <2> QED BY <1>2, <2>2, <2>3, <2>8, <2>9, <2>10, Onward
<1> QED BY <1>1, <1>3, <1>4

(* A block is on top of the chain now, or it was refused.                  *)
LEMMA SyncAddInv ==
  ASSUME SyncInv, SyncAdd
  PROVE  SyncInv'
<1> DEFINE b == Head(sync.blocks)
           added == AddBlock(chain, Special(b), Now)
           e == added.chain
<1>1. /\ IsSync(sync) /\ SyncTypes /\ chain.numBlocks \in Nat \ {0}
      /\ sync.target \in Nat /\ sync.next \in Nat \ {0}
      /\ Sound(chain) /\ Off(chain) = 0 /\ sync.blocks \in Seq(Block)
  BY DEF SyncInv, SyncTypes, ChainsSound, Sound
<1>2. sync.pc = "add" /\ Stay
  BY DEF SyncAdd
<1>3. CASE sync.blocks = <<>>
  <2>1. sync' = [sync EXCEPT !.pc = "fetch", !.next = sync.next + PerBlockFetch] /\ chain' = chain
    BY <1>3 DEF SyncAdd, Round
  <2>2. /\ IsSync(sync') /\ sync'.best = sync.best /\ sync'.target = sync.target
        /\ sync'.next = sync.next + PerBlockFetch /\ sync'.toPop = sync.toPop
        /\ sync'.pc = "fetch" /\ sync'.blocks = sync.blocks
    BY <1>1, <2>1 DEF IsSync, SyncFields
  <2>3. Goes /\ InRound
    BY <1>2, <2>2 DEF Stay, Goes, InRound
  <2>4. SyncTypes'
    <3>1. sync.next + PerBlockFetch \in Nat \ {0}
      BY <1>1, ChainSyncAssumption
    <3> QED BY <1>1, <2>2, <2>3, <3>1 DEF SyncTypes, IsSync
  <2>5. ChainsSound'
    BY <2>1, <2>3, SameChain DEF Goes, SyncInv
  <2>6. ASSUME calm PROVE RoundPlace'
    <3>1. RoundPlace
      BY <2>3, <2>6 DEF SyncInv, RoundInv
    <3>2. PICK m \in Nat : KeptUpTo(m) /\ FetchedFrom(m)
      BY <1>2, <3>1 DEF RoundPlace, KeptUpTo
    <3>3. before' = before /\ Served' = Served /\ (Behind' <=> Behind)
      BY <2>3, GoesKeeps DEF Goes
    <3> HIDE DEF Served, Behind
    <3>4. KeptUpTo(m)'
      BY <1>1, <2>1, <2>3, <3>2, KeptOn DEF KeptUpTo
    <3>5. FetchedFrom(m)'
      BY <2>1, <3>2, <3>3 DEF FetchedFrom
    <3>6. m \in 0 .. before'.numBlocks
      BY <3>2, <3>3 DEF KeptUpTo
    <3>7. Reaches'
      <4> SUFFICES ASSUME SameOrigin, Behind
                   PROVE  \/ sync.next + PerBlockFetch = chain.numBlocks + 1
                          \/ /\ sync.next + PerBlockFetch > sync.target
                             /\ chain.numBlocks >= sync.target
        BY <2>1, <2>2, <3>3 DEF Reaches
      <4>1. \/ chain.numBlocks + Len(sync.blocks) = sync.next + PerBlockFetch - 1
            \/ /\ chain.numBlocks + Len(sync.blocks) >= sync.target
               /\ sync.next + PerBlockFetch > sync.target
        BY <1>2, <3>1 DEF Reaches, RoundPlace
      <4> QED BY <1>1, <1>3, <4>1, ChainSyncAssumption
    <3> QED BY <2>2, <3>4, <3>5, <3>6, <3>7 DEF RoundPlace
  <2> QED BY <1>2, <2>2, <2>3, <2>4, <2>5, <2>6, Onward
<1>4. CASE sync.blocks # <<>>
  <2>1. b \in Block /\ Special(b) \in Block /\ Tail(sync.blocks) \in Seq(Block)
        /\ Len(Tail(sync.blocks)) = Len(sync.blocks) - 1
        /\ \A i \in 1 .. Len(Tail(sync.blocks)) : Tail(sync.blocks)[i] = sync.blocks[i + 1]
    BY <1>1, <1>4, ChainSyncAssumption DEF Special
  <2>2. /\ chain' = e
        /\ sync' = IF added.status = "SUCCESS" THEN [sync EXCEPT !.blocks = Tail(sync.blocks)]
                   ELSE Ended(added.status)
    BY <1>4 DEF SyncAdd, Round
  <2>3. /\ Sound(e) /\ Off(e) = 0
        /\ \A i \in 1 .. chain.numBlocks : e.blocks[i] = chain.blocks[i]
        /\ \/ e.numBlocks = chain.numBlocks + 1 /\ e.blocks[chain.numBlocks + 1] = Special(b)
           \/ e.numBlocks = chain.numBlocks /\ added.status # "SUCCESS"
    BY <1>1, <2>1, AddEffect
  <2> DEFINE rest == Tail(sync.blocks)
  <2> HIDE DEF added, b, rest
  <2>4. CASE added.status # "SUCCESS"
    <3>1. sync' = Ended(added.status)
      BY <2>2, <2>4
    <3>2. Sound(chain') /\ Off(chain') = 0
      BY <2>2, <2>3 DEF Sound, Off
    <3> QED BY <1>2, <3>1, <3>2, EndInv
  <2>5. CASE added.status = "SUCCESS"
    <3>1. sync' = [sync EXCEPT !.blocks = rest]
      BY <2>2, <2>5 DEF rest
    <3>2. /\ IsSync(sync') /\ sync'.best = sync.best /\ sync'.target = sync.target
          /\ sync'.next = sync.next /\ sync'.toPop = sync.toPop
          /\ sync'.pc = "add" /\ sync'.blocks = rest
      BY <1>1, <1>2, <3>1 DEF IsSync, SyncFields
    <3>3. Goes /\ InRound
      BY <1>2, <3>2 DEF Stay, Goes, InRound
    <3>4. SyncTypes'
      BY <1>1, <2>1, <3>2, <3>3 DEF SyncTypes, IsSync, rest
    <3>5. /\ chain'.numBlocks = chain.numBlocks + 1
          /\ chain'.blocks[chain.numBlocks + 1] = Special(b)
          /\ \A i \in 1 .. chain.numBlocks : chain'.blocks[i] = chain.blocks[i]
      BY <2>2, <2>3, <2>5
    <3>6. ChainsSound'
      <4>1. Sound(chain') /\ Off(chain') = 0 /\ before' = before
        BY <2>2, <2>3, <3>3 DEF Goes, Sound, Off
      <4> QED BY <4>1 DEF ChainsSound, Sound, Off, SyncInv
    <3>7. ASSUME calm PROVE RoundPlace'
      <4>1. RoundPlace
        BY <3>3, <3>7 DEF SyncInv, RoundInv
      <4>2. PICK m \in Nat : KeptUpTo(m) /\ FetchedFrom(m)
        BY <1>2, <4>1 DEF RoundPlace, KeptUpTo
      <4>3. before' = before /\ Served' = Served /\ (Behind' <=> Behind)
        BY <3>3, GoesKeeps DEF Goes
      <4>4. Served \in PeerChains /\ Served \in Seq(Block)
        <5>1. \A i \in DOMAIN Peers : Peers[i] \in Host
          BY ChainSyncAssumption
        <5>2. sync.best \in Host
          BY <1>1, <5>1 DEF SyncTypes, ToSet
        <5> QED BY <5>2, HeaderChainAssumption DEF Served, SyncInv, HeaderInv, HeaderTypeOK
      <4> HIDE DEF Served, Behind
      <4>5. KeptUpTo(m)'
        <5>1. m <= chain'.numBlocks /\ \A i \in 1 .. m : chain'.blocks[i] = chain.blocks[i]
          BY <1>1, <3>5, <4>2 DEF KeptUpTo
        <5> QED BY <3>3, <4>2, <5>1, KeptOn
      <4>6. m \in 0 .. before'.numBlocks
        BY <4>2, <4>3 DEF KeptUpTo
      <4>7. ASSUME SameOrigin, Behind
            PROVE  /\ chain.numBlocks + Len(sync.blocks) <= Len(Served)
                   /\ \A i \in 1 .. Len(sync.blocks) :
                        sync.blocks[i] = Served[chain.numBlocks + i]
                   /\ \/ chain.numBlocks + Len(sync.blocks) = sync.next + PerBlockFetch - 1
                      \/ /\ chain.numBlocks + Len(sync.blocks) >= sync.target
                         /\ sync.next + PerBlockFetch > sync.target
        BY <1>2, <4>1, <4>7 DEF Reaches, RoundPlace
      <4>8. FetchedFrom(m)'
        <5> SUFFICES ASSUME SameOrigin, Behind
                     PROVE  /\ m >= 1
                            /\ \A i \in m + 1 .. chain'.numBlocks : chain'.blocks[i] = Served[i]
          BY <4>3 DEF FetchedFrom
        <5>1. m >= 1 /\ \A i \in m + 1 .. chain.numBlocks : chain.blocks[i] = Served[i]
          BY <4>2 DEF FetchedFrom
        <5>2. b = Served[chain.numBlocks + 1] /\ chain.numBlocks + 1 \in DOMAIN Served
          <6>1. Len(sync.blocks) \in Nat \ {0} /\ b = sync.blocks[1]
            BY <1>1, <1>4 DEF b
          <6> QED BY <1>1, <4>4, <4>7, <6>1
        <5>3. Special(b) = b
          BY <4>4, <5>2 DEF SameOrigin
        <5>4. chain'.blocks[chain.numBlocks + 1] = Served[chain.numBlocks + 1]
          BY <3>5, <5>2, <5>3
        <5> QED BY <1>1, <3>5, <5>1, <5>4
      <4>9. Reaches'
        <5> SUFFICES ASSUME SameOrigin, Behind
                     PROVE  LET to == chain'.numBlocks + Len(rest)
                            IN  /\ to <= Len(Served)
                                /\ \A i \in 1 .. Len(rest) : rest[i] = Served[chain'.numBlocks + i]
                                /\ \/ to = sync.next + PerBlockFetch - 1
                                   \/ to >= sync.target /\ sync.next + PerBlockFetch > sync.target
          BY <3>2, <4>3 DEF Reaches
        <5>1. Len(rest) = Len(sync.blocks) - 1 /\ Len(sync.blocks) \in Nat
          BY <1>1, <2>1 DEF rest
        <5>2. chain'.numBlocks + Len(rest) = chain.numBlocks + Len(sync.blocks)
          BY <1>1, <3>5, <5>1
        <5>3. ASSUME NEW i \in 1 .. Len(rest) PROVE rest[i] = Served[chain'.numBlocks + i]
          <6>1. rest[i] = sync.blocks[i + 1] /\ i + 1 \in 1 .. Len(sync.blocks)
            BY <2>1, <5>1 DEF rest
          <6>2. chain'.numBlocks + i = chain.numBlocks + (i + 1)
            BY <1>1, <3>5
          <6> QED BY <4>7, <6>1, <6>2
        <5> QED BY <4>7, <5>2, <5>3
      <4> QED BY <3>2, <4>5, <4>6, <4>8, <4>9 DEF RoundPlace
    <3> QED BY <1>2, <3>2, <3>3, <3>4, <3>6, <3>7, Onward
  <2> QED BY <2>4, <2>5
<1> QED BY <1>3, <1>4

-------------------------------------------------------------------------------
(* The other steps.                                                        *)

(* A block is handed in between two rounds.                                *)
LEMMA SubmitInv ==
  ASSUME SyncInv, NEW b \in Block, Submit(b)
  PROVE  SyncInv'
<1>1. /\ headers' = headers /\ peer' = peer /\ changes' = changes /\ sync' = sync
      /\ before' = chain' /\ chain' = AddBlock(chain, b, Now).chain /\ sync.pc = "sleep"
  BY DEF Submit, headerVars
<1>2. Sound(chain) /\ Off(chain) = 0
  BY DEF SyncInv, ChainsSound
<1>3. Sound(chain') /\ Off(chain') = 0
  <2> DEFINE e == AddBlock(chain, b, Now).chain
  <2>1. Sound(e) /\ Off(e) = 0
    BY <1>2, AddEffect
  <2>2. chain' = e
    BY <1>1
  <2> QED BY <2>1, <2>2 DEF Sound, Off
<1>4. HeaderInv' /\ HeadersSummed'
  BY <1>1 DEF SyncInv, HeaderInv, HeaderTypeOK, HashesLinked, LoadPart, Valid, Linked, LastHash,
              HeadersSummed, Summed
<1>5. SyncTypes'
  BY <1>1 DEF SyncInv, SyncTypes
<1> QED BY <1>1, <1>3, <1>4, <1>5, RoundOver DEF SyncInv

(* The process starts with the chain it has on disk and no headers.        *)
LEMMA RestartInv ==
  ASSUME SyncInv, Restart
  PROVE  SyncInv'
<1>1. /\ headers' = [h \in Host |-> Empty] /\ peer' = peer /\ changes' = changes
      /\ sync' = NoRound /\ before' = chain' /\ chain' = InitChain(chain)
  BY DEF Restart
<1>2. /\ Sound(chain) /\ Off(chain) = 0 /\ OnDisk(chain) /\ chain.count # 0
      /\ chain.totalWork = chain.work /\ chain.count = chain.numBlocks
  BY DEF SyncInv, ChainsSound, Sound, OnDisk
<1>3. Sound(chain') /\ Off(chain') = 0
  <2> DEFINE e == InitChain(chain)
  <2>1. Sound(e) /\ Off(e) = 0
    BY <1>2, InitSound DEF Off
  <2>2. chain' = e
    BY <1>1
  <2> QED BY <2>1, <2>2 DEF Sound, Off
<1>4. HeaderInv'
  <2>1. HeaderTypeOK'
    <3>1. Empty \in HeaderRecord
      BY DEF HeaderRecord, Empty
    <3> QED BY <1>1, <3>1 DEF SyncInv, HeaderInv, HeaderTypeOK
  <2>2. HashesLinked'
    BY <1>1, EmptyValid DEF HashesLinked, Empty
  <2>3. LoadPart'
    BY <1>1 DEF LoadPart, Empty
  <2> QED BY <2>1, <2>2, <2>3 DEF HeaderInv
<1>5. HeadersSummed'
  BY <1>1, NoWork DEF HeadersSummed, Summed, Loading, Empty
<1>6. SyncTypes'
  <2>1. /\ IsSync(sync') /\ sync'.pc = "sleep" /\ sync'.best \in ToSet(Peers)
        /\ sync'.next = 1 /\ sync'.target = 1 /\ sync'.toPop = 0 /\ sync'.blocks = <<>>
    BY <1>1, NoRoundTypes
  <2> QED BY <2>1 DEF SyncTypes, IsSync
<1>7. sync'.pc = "sleep"
  BY <1>1, NoRoundTypes
<1> QED BY <1>1, <1>3, <1>4, <1>5, <1>6, <1>7, RoundOver DEF SyncInv

(* A peer changes: what is known of it may be wrong now.                   *)
LEMMA PeerMovesInv ==
  ASSUME SyncInv, NEW h \in Host, PeerMoves(h)
  PROVE  SyncInv'
<1>1. /\ headers' = headers /\ chain' = chain /\ sync' = sync /\ before' = before
      /\ calm' = FALSE /\ PeerChanges(h)
  BY DEF PeerMoves, PeerChanges
<1>2. HeaderInv'
  BY <1>1, PeerChangesInv DEF SyncInv
<1>3. HeadersSummed' /\ SyncTypes' /\ RoundInv'
  BY <1>1 DEF SyncInv, HeadersSummed, Summed, SyncTypes, RoundInv
<1>4. ChainsSound'
  BY <1>1, SameChain DEF SyncInv
<1> QED BY <1>2, <1>3, <1>4 DEF SyncInv

(* A step of load() keeps the headers, and only adds to what they say of a *)
(* peer.                                                                   *)
LEMMA LoadStepInv ==
  ASSUME HeaderInv, NEW h \in Host, LoadStep(h)
  PROVE  HeaderInv' /\ Kept /\ peer' = peer
<1>1. HeaderInv' /\ Kept
  BY LoadInv, FetchInv, CheckHeaderInv, NextBatchInv, ResetInv, PublishInv DEF LoadStep
<1>2. peer' = peer
  BY DEF LoadStep, Load, Fetch, CheckHeader, NextBatch, Publish, Fail, Reset, Update
<1> QED BY <1>1, <1>2

(* When what is known of the peers stays the same, the trusted one stays,  *)
(* and so do its hashes.                                                   *)
LEMMA StillKnown ==
  ASSUME SyncInv, NEW h \in Host, HeadersMove(h), calm', InRound
  PROVE  /\ GoodHost' = GoodHost /\ (Behind' <=> Behind)
         /\ RoundKnows /\ Behind =>
              /\ BestSummed'
              /\ Announced' = Announced /\ Announced <= Len(Trusted)
              /\ Len(Trusted) \in Nat /\ Len(Trusted') \in Nat
              /\ Len(Trusted) <= Len(Trusted')
              /\ \A i \in 1 .. Len(Trusted) : Trusted'[i] = Trusted[i]
<1> USE DEF SyncInv
<1>1. /\ LoadStep(h) /\ sync' = sync /\ before' = before /\ calm
      /\ KnownOfPeers' = KnownOfPeers
  BY DEF HeadersMove
<1>2. HeaderInv' /\ Kept /\ peer' = peer /\ HeadersSummed'
  BY <1>1, LoadStepInv, LoadSummed
<1>3. ASSUME NEW x \in Host
      PROVE  GetTotalWork(x)' = GetTotalWork(x) /\ GetChainLength(x)' = GetChainLength(x)
  <2>1. KnownOfPeers[x] = <<GetTotalWork(x), GetChainLength(x)>>
    BY DEF KnownOfPeers
  <2>2. KnownOfPeers'[x] = <<GetTotalWork(x)', GetChainLength(x)'>>
    BY DEF KnownOfPeers
  <2> HIDE DEF KnownOfPeers
  <2> QED BY <1>1, <2>1, <2>2
<1>4. \A i \in DOMAIN Peers : Peers[i] \in Host
  BY ChainSyncAssumption
<1>5. sync.best \in Host
  BY <1>4 DEF SyncTypes, ToSet
<1>6. GoodHost' = GoodHost
  BY <1>3, <1>4 DEF GoodHost, BestWork
<1>7. Behind' <=> Behind
  BY <1>1, <1>3, <1>5 DEF Behind
<1>8. ASSUME RoundKnows, Behind
      PROVE  /\ BestSummed'
             /\ Announced' = Announced /\ Announced <= Len(Trusted)
             /\ Len(Trusted) \in Nat /\ Len(Trusted') \in Nat
             /\ Len(Trusted) <= Len(Trusted')
             /\ \A i \in 1 .. Len(Trusted) : Trusted'[i] = Trusted[i]
  <2>1. /\ Announced \in 1 .. Len(Trusted) /\ Trusted \in Seq(Block)
        /\ GetTotalWork(sync.best) > 0
    BY <1>8, BehindFacts
  <2>2. GetTotalWork(sync.best)' = GetTotalWork(sync.best)
        /\ GetChainLength(sync.best)' = GetChainLength(sync.best)
    BY <1>1, <1>3, <1>5
  <2>3. ~headers[sync.best].failed /\ ~headers'[sync.best].failed
    BY <1>1, <2>1, <2>2 DEF GetTotalWork
  <2>4. Announced' = Announced
    BY <1>1, <2>2, <2>3 DEF GetChainLength, Announced
  <2>5. IsPrefix(Trusted, Trusted')
    <3>1. GetTotalWork(sync.best)' # 0
      BY <2>1, <2>2
    <3> QED BY <1>1, <1>2, <1>5, <3>1 DEF Kept, Trusted
  <2>6. Trusted' \in Seq(Block)
    BY <1>1, <1>2, <1>5 DEF Trusted, HeaderInv, HeaderTypeOK, HeaderRecord
  <2> DEFINE old == Trusted
             new == Trusted'
  <2> HIDE DEF old, new
  <2>7. Len(old) <= Len(new) /\ \A i \in 1 .. Len(old) : new[i] = old[i]
    <3>1. old \in Seq(Block) /\ new \in Seq(Block) /\ IsPrefix(old, new)
      BY <2>1, <2>5, <2>6 DEF old, new
    <3> QED BY <3>1 DEF IsPrefix
  <2>8. Len(Trusted) \in Nat /\ Len(Trusted') \in Nat /\ Announced <= Len(Trusted)
    <3> HIDE DEF Trusted, Announced
    <3> QED BY <2>1, <2>6
  <2>9. BestSummed'
    <3>1. headers'[sync.best].work = headers[sync.best].work
      BY <1>1, <2>2, <2>3 DEF GetTotalWork
    <3>2. BlocksWork(new, Announced) = BlocksWork(old, Announced)
      <4>1. Announced \in Nat /\ \A i \in 1 .. Announced : new[i] = old[i]
        <5> HIDE DEF Announced
        <5> QED BY <2>1, <2>7, <2>8 DEF old, new
      <4> HIDE DEF Announced
      <4> QED BY <4>1, WorkOfPart
    <3>3. headers[sync.best].work = BlocksWork(old, Announced)
      BY <1>8 DEF RoundKnows, BestSummed, old
    <3> QED BY <1>1, <2>4, <3>1, <3>2, <3>3 DEF BestSummed, old, new
  <2> QED BY <2>4, <2>7, <2>8, <2>9 DEF old, new
<1> QED BY <1>6, <1>7, <1>8

(* The headers go on while a round does.                                   *)
LEMMA HeadersMoveInv ==
  ASSUME SyncInv, NEW h \in Host, HeadersMove(h)
  PROVE  SyncInv'
<1>1. /\ LoadStep(h) /\ sync' = sync /\ before' = before /\ chain' = chain
      /\ calm' => calm
  BY DEF HeadersMove
<1>2. HeaderInv' /\ HeadersSummed' /\ peer' = peer
  BY <1>1, LoadStepInv, LoadSummed DEF SyncInv
<1>3. SyncTypes' /\ ChainsSound'
  BY <1>1, SameChain DEF SyncInv, SyncTypes
<1>4. ASSUME calm', InRound PROVE RoundKnows' /\ RoundPlace'
  <2>1. calm /\ RoundKnows /\ RoundPlace
    BY <1>1, <1>4 DEF SyncInv, RoundInv
  <2>2. /\ GoodHost' = GoodHost /\ (Behind' <=> Behind) /\ Served' = Served
        /\ Behind => /\ BestSummed' /\ Announced' = Announced /\ Announced <= Len(Trusted)
                     /\ Len(Trusted) \in Nat /\ Len(Trusted') \in Nat
                     /\ Len(Trusted) <= Len(Trusted')
                     /\ \A i \in 1 .. Len(Trusted) : Trusted'[i] = Trusted[i]
    BY <1>1, <1>2, <1>4, <2>1, StillKnown DEF Served
  <2>3. Announced \in Nat /\ before.numBlocks \in Nat /\ sync.next \in Nat
        /\ chain.numBlocks \in Nat /\ sync.toPop \in Nat
    <3>1. sync.best \in Host
      <4>1. \A i \in DOMAIN Peers : Peers[i] \in Host
        BY ChainSyncAssumption
      <4> QED BY <4>1 DEF SyncInv, SyncTypes, ToSet
    <3>2. headers[sync.best].length \in Nat
      BY <3>1 DEF SyncInv, HeaderInv, HeaderTypeOK, HeaderRecord
    <3> QED BY <3>2 DEF Announced, SyncInv, SyncTypes, ChainsSound, Sound
  <2> HIDE DEF Served, Behind, BestSummed, Announced, Trusted, GoodHost
  <2>4. RoundKnows'
    BY <1>1, <2>1, <2>2, <2>3 DEF RoundKnows
  <2>5. ASSUME NEW m \in Nat, KeptUpTo(m) PROVE KeptUpTo(m)'
    BY <1>1, <2>2, <2>3, <2>5 DEF KeptUpTo
  <2>6. ASSUME NEW m \in Nat, FetchedFrom(m) PROVE FetchedFrom(m)'
    BY <1>1, <2>2, <2>6 DEF FetchedFrom
  <2>7. Reaches' <=> Reaches
    BY <1>1, <2>2 DEF Reaches
  <2>8. sync.pc \in {"target", "work", "compare"} => chain' = before' /\ sync'.toPop = 0
    BY <1>1, <2>1 DEF RoundPlace
  <2>9. ASSUME sync.pc = "compare"
        PROVE  /\ Behind' /\ sync'.next <= before'.numBlocks + 1
               /\ \A i \in 1 .. sync'.next - 1 :
                    i < Len(Trusted') /\ before'.blocks[i] = Trusted'[i]
    <3>1. /\ Behind /\ sync.next <= before.numBlocks + 1
          /\ \A i \in 1 .. sync.next - 1 : i < Len(Trusted) /\ before.blocks[i] = Trusted[i]
      BY <2>1, <2>9 DEF RoundPlace
    <3>2. Behind' /\ sync' = sync /\ before' = before /\ sync.next \in Nat
      BY <1>1, <2>2, <2>3, <3>1
    <3>3. \A i \in 1 .. sync.next - 1 : i < Len(Trusted') /\ before.blocks[i] = Trusted'[i]
      <4>1. /\ Len(Trusted) \in Nat /\ Len(Trusted') \in Nat /\ Len(Trusted) <= Len(Trusted')
            /\ \A i \in 1 .. Len(Trusted) : Trusted'[i] = Trusted[i]
        BY <2>2, <3>1
      <4> QED BY <3>1, <3>2, <4>1
    <3> QED BY <3>1, <3>2, <3>3
  <2>10. ASSUME sync.pc = "pop"
         PROVE  /\ Behind' /\ sync'.toPop <= chain'.numBlocks
                /\ KeptUpTo(chain.numBlocks - sync.toPop)'
                /\ SameOrigin => chain'.numBlocks - sync'.toPop >= 1
    <3>1. /\ Behind /\ sync.toPop <= chain.numBlocks /\ KeptUpTo(chain.numBlocks - sync.toPop)
          /\ SameOrigin => chain.numBlocks - sync.toPop >= 1
      BY <2>1, <2>10 DEF RoundPlace
    <3>2. PICK m \in Nat : m = chain.numBlocks - sync.toPop
      BY <2>3, <3>1
    <3>3. KeptUpTo(m)'
      BY <2>5, <3>1, <3>2
    <3>4. KeptUpTo(chain.numBlocks - sync.toPop)'
      BY <1>1, <3>2, <3>3 DEF KeptUpTo
    <3> QED BY <1>1, <2>2, <3>1, <3>4
  <2>11. ASSUME sync.pc \in {"fetch", "add"}
         PROVE  Reaches' /\ \E m \in 0 .. before'.numBlocks : KeptUpTo(m)' /\ FetchedFrom(m)'
    <3>1. PICK m \in 0 .. before.numBlocks : KeptUpTo(m) /\ FetchedFrom(m)
      BY <2>1, <2>11 DEF RoundPlace
    <3>2. m \in Nat
      BY <2>3
    <3>3. KeptUpTo(m)' /\ FetchedFrom(m)'
      BY <2>5, <2>6, <3>1, <3>2
    <3>4. Reaches'
      BY <2>1, <2>7, <2>11 DEF RoundPlace
    <3> QED BY <1>1, <3>1, <3>3, <3>4
  <2>12. RoundPlace'
    BY <1>1, <2>8, <2>9, <2>10, <2>11 DEF RoundPlace
  <2> QED BY <2>4, <2>12
<1>5. RoundInv'
  BY <1>1, <1>4 DEF RoundInv, InRound
<1> QED BY <1>2, <1>3, <1>5 DEF SyncInv

-------------------------------------------------------------------------------
(* The invariant of every run, and what it says.                           *)

LEMMA SyncInitInv == Init => SyncInv
<1> SUFFICES ASSUME Init PROVE SyncInv
  OBVIOUS
<1>1. HeaderInv
  BY HeaderInitInv DEF Init
<1>2. HeadersSummed
  BY NoWork DEF Init, HeaderInit, HeadersSummed, Summed, Loading, Empty
<1>3. SyncTypes
  <2>1. sync = NoRound
    BY DEF Init
  <2>2. /\ IsSync(sync) /\ sync.pc = "sleep" /\ sync.best \in ToSet(Peers)
        /\ sync.next = 1 /\ sync.target = 1 /\ sync.toPop = 0 /\ sync.blocks = <<>>
    BY <2>1, NoRoundTypes
  <2> QED BY <2>2 DEF SyncTypes
<1>4. ChainsSound
  <2>1. chain = ResetChain /\ before = ResetChain
    BY DEF Init
  <2> QED BY <2>1, ResetSound, ResetExact DEF ChainsSound, Off, Sound
<1>5. RoundInv
  BY DEF Init, RoundInv
<1> QED BY <1>1, <1>2, <1>3, <1>4, <1>5 DEF SyncInv

LEMMA SyncNextInv == SyncInv /\ [Next]_vars => SyncInv'
<1> SUFFICES ASSUME SyncInv, [Next]_vars PROVE SyncInv'
  OBVIOUS
<1>1. CASE SyncStep
  BY <1>1, BeginInv, TargetInv, WorkInv, CompareInv, PopInv, SyncFetchInv, SyncAddInv DEF SyncStep
<1>2. CASE Restart
  BY <1>2, RestartInv
<1>3. ASSUME NEW b \in Block, Submit(b) PROVE SyncInv'
  BY <1>3, SubmitInv
<1>4. ASSUME NEW h \in Host, HeadersMove(h) PROVE SyncInv'
  BY <1>4, HeadersMoveInv
<1>5. ASSUME NEW h \in Host, PeerMoves(h) PROVE SyncInv'
  BY <1>5, PeerMovesInv
<1>6. CASE UNCHANGED vars
  <2>1. /\ headers' = headers /\ peer' = peer /\ changes' = changes /\ chain' = chain
        /\ sync' = sync /\ before' = before /\ calm' = calm
    BY <1>6 DEF vars, headerVars, nodeVars
  <2>2. HeaderInv' /\ HeadersSummed'
    BY <2>1 DEF SyncInv, HeaderInv, HeaderTypeOK, HashesLinked, LoadPart, Valid, Linked, LastHash,
                HeadersSummed, Summed
  <2>3. SyncTypes' /\ ChainsSound'
    BY <2>1, SameChain DEF SyncInv, SyncTypes
  <2>4. RoundInv'
    BY <2>1 DEF SyncInv, RoundInv, InRound, RoundKnows, RoundPlace, Reaches, KeptUpTo, FetchedFrom,
                Behind, BestSummed, Trusted, Announced, Served, GoodHost, BestWork, GetTotalWork
  <2> QED BY <2>2, <2>3, <2>4 DEF SyncInv
<1> QED BY <1>1, <1>2, <1>3, <1>4, <1>5, <1>6 DEF Next

(* A round that keeps the blocks up to m keeps all that the peer has too.  *)
LEMMA PartKept ==
  ASSUME SyncInv, NEW m, KeptUpTo(m),
         NEW i \in 1 .. before.numBlocks,
         \A j \in 1 .. i : j <= Len(Trusted) /\ before.blocks[j] = Trusted[j]
  PROVE  i <= chain.numBlocks /\ chain.blocks[i] = Trusted[i]
<1>1. before.numBlocks \in Nat /\ chain.numBlocks \in Nat
  BY DEF SyncInv, ChainsSound, Sound
<1>2. m \in 0 .. before.numBlocks /\ m <= chain.numBlocks
      /\ \A j \in 1 .. m : chain.blocks[j] = before.blocks[j]
  BY DEF KeptUpTo
<1>3. i <= m
  <2>1. CASE m = before.numBlocks
    BY <1>1, <2>1
  <2>2. CASE m # before.numBlocks
    <3>1. before.blocks[m + 1] # Trusted[m + 1]
      BY <2>2 DEF KeptUpTo
    <3>2. m + 1 \notin 1 .. i
      BY <3>1
    <3> QED BY <1>1, <1>2, <3>2
  <2> QED BY <2>1, <2>2
<1> QED BY <1>1, <1>2, <1>3

LEMMA InvKeeps == SyncInv => KeepsTrusted
<1> SUFFICES ASSUME SyncInv, calm, InRound,
                    NEW i \in 1 .. before.numBlocks,
                    \A j \in 1 .. i : j <= Len(Trusted) /\ before.blocks[j] = Trusted[j]
             PROVE  i <= chain.numBlocks /\ chain.blocks[i] = Trusted[i]
  BY DEF KeepsTrusted, Trusted
<1>1. RoundPlace
  BY DEF SyncInv, RoundInv
<1>2. before.numBlocks \in Nat
  BY DEF SyncInv, ChainsSound, Sound
<1>3. CASE sync.pc \in {"target", "work", "compare"}
  BY <1>1, <1>2, <1>3 DEF RoundPlace
<1>4. CASE sync.pc = "pop"
  BY <1>1, <1>4, PartKept DEF RoundPlace
<1>5. CASE sync.pc \in {"fetch", "add"}
  <2>1. PICK m \in 0 .. before.numBlocks : KeptUpTo(m)
    BY <1>1, <1>5 DEF RoundPlace
  <2> QED BY <2>1, PartKept
<1> QED BY <1>3, <1>4, <1>5 DEF SyncInv, SyncTypes, InRound

(* When what is known of the peers is right and stays so, no round removes *)
(* a block that the trusted peer's chain has up to there, whatever the     *)
(* blocks, the peers and the number of steps are.                          *)
THEOREM TrustedBlocksStay == Spec => []KeepsTrusted
BY SyncInitInv, SyncNextInv, InvKeeps, PTL DEF Spec

(* How often the node started is counted.                                  *)
CountInv == count.restarts \in Nat /\ count = [f \in {"submits", "restarts"} |-> count[f]]
LEMMA CountsStarts == Spec => []CountInv
<1>1. Init => CountInv
  BY DEF Init, CountInv
<1>2. CountInv /\ [Next]_vars => CountInv'
  <2> SUFFICES ASSUME CountInv, [Next]_vars PROVE CountInv'
    OBVIOUS
  <2>1. CASE Restart
    BY <2>1 DEF Restart, CountInv
  <2>2. ASSUME NEW b \in Block, Submit(b) PROVE CountInv'
    BY <2>2 DEF Submit, CountInv
  <2>3. CASE UNCHANGED count
    BY <2>3 DEF CountInv
  <2>4. SyncStep => UNCHANGED count
    BY DEF SyncStep, SyncBegin, SyncTarget, SyncWork, SyncCompare, SyncPop, SyncFetch, SyncAdd, Stay
  <2>5. \A h \in Host : HeadersMove(h) \/ PeerMoves(h) => UNCHANGED count
    BY DEF HeadersMove, PeerMoves
  <2>6. UNCHANGED vars => UNCHANGED count
    BY DEF vars, nodeVars
  <2> QED BY <2>1, <2>2, <2>3, <2>4, <2>5, <2>6 DEF Next
<1> QED BY <1>1, <1>2, PTL DEF Spec

(* The steps of a round that are not its last.                             *)
LEMMA StillInRound ==
  ASSUME SyncInv, SyncStep, InRound, sync'.pc = "sleep", sync'.status = "SUCCESS"
  PROVE  sync.pc = "fetch" /\ sync.next > sync.target /\ chain' = chain
<1>1. IsSync(sync) /\ sync.pc # "sleep"
  BY DEF SyncInv, SyncTypes, InRound
<1>2. ~SyncBegin
  BY <1>1 DEF SyncBegin
<1>3. ~SyncTarget
  <2> SUFFICES ASSUME SyncTarget PROVE FALSE
    OBVIOUS
  <2>1. sync' = [sync EXCEPT !.pc = "work", !.target = BlockCount]
    BY DEF SyncTarget, Round
  <2> QED BY <1>1, <2>1 DEF IsSync, SyncFields
<1>4. ~SyncWork
  <2> SUFFICES ASSUME SyncWork PROVE FALSE
    OBVIOUS
  <2>1. \/ sync' = [sync EXCEPT !.pc = "compare", !.next = 1]
        \/ sync' = [sync EXCEPT !.pc = "fetch", !.next = chain.numBlocks + 1]
    BY DEF SyncWork, Round, Download
  <2> QED BY <1>1, <2>1 DEF IsSync, SyncFields
<1>5. ~SyncCompare
  <2> SUFFICES ASSUME SyncCompare PROVE FALSE
    OBVIOUS
  <2>1. \/ sync' = [sync EXCEPT !.pc = "pop"]
        \/ sync' = [sync EXCEPT !.pc = "pop", !.toPop = chain.numBlocks - sync.next + 1]
        \/ sync' = [sync EXCEPT !.next = sync.next + 1]
    BY DEF SyncCompare, Round
  <2> QED BY <1>1, <2>1 DEF IsSync, SyncFields
<1>6. ~SyncPop
  <2> SUFFICES ASSUME SyncPop PROVE FALSE
    OBVIOUS
  <2>1. \/ sync' = [sync EXCEPT !.toPop = sync.toPop - 1]
        \/ sync' = [sync EXCEPT !.pc = "fetch", !.next = chain.numBlocks + 1]
    BY DEF SyncPop, Round, Download
  <2> QED BY <1>1, <2>1 DEF IsSync, SyncFields
<1>7. ~SyncAdd
  <2> SUFFICES ASSUME SyncAdd PROVE FALSE
    OBVIOUS
  <2> DEFINE status == AddBlock(chain, Special(Head(sync.blocks)), Now).status
  <2>1. \/ sync' = [sync EXCEPT !.pc = "fetch", !.next = sync.next + PerBlockFetch]
        \/ sync' = [sync EXCEPT !.blocks = Tail(sync.blocks)]
        \/ sync' = Ended(status) /\ status # "SUCCESS"
    BY DEF SyncAdd, Round
  <2>2. sync.pc = "add"
    BY DEF SyncAdd
  <2> HIDE DEF status
  <2>3. CASE sync' = [sync EXCEPT !.pc = "fetch", !.next = sync.next + PerBlockFetch]
    BY <1>1, <2>3 DEF IsSync, SyncFields
  <2>4. CASE sync' = [sync EXCEPT !.blocks = Tail(sync.blocks)]
    BY <1>1, <2>2, <2>4 DEF IsSync, SyncFields
  <2>5. CASE sync' = Ended(status) /\ status # "SUCCESS"
    <3>1. Ended(status).status = status
      BY NoRoundTypes
    <3> QED BY <2>5, <3>1
  <2> QED BY <2>1, <2>3, <2>4, <2>5
<1>8. CASE SyncFetch
  <2> DEFINE p == peer[sync.best]
             end == Min({sync.target, sync.next + PerBlockFetch - 1, Len(p.blocks)})
             batch == SubSeq(p.blocks, sync.next, end)
  <2>1. /\ sync.pc = "fetch" /\ chain' = chain
        /\ \/ sync.next > sync.target
           \/ sync' = [sync EXCEPT !.pc = "add", !.blocks = batch]
           \/ sync' = Ended("UNKNOWN_ERROR")
    BY <1>8 DEF SyncFetch, Round
  <2> HIDE DEF batch
  <2>2. sync' # [sync EXCEPT !.pc = "add", !.blocks = batch]
    BY <1>1 DEF IsSync, SyncFields
  <2>3. sync' # Ended("UNKNOWN_ERROR")
    <3>1. Ended("UNKNOWN_ERROR").status = "UNKNOWN_ERROR"
      BY NoRoundTypes
    <3> QED BY <3>1
  <2> QED BY <2>1, <2>2, <2>3
<1> QED BY <1>2, <1>3, <1>4, <1>5, <1>6, <1>7, <1>8 DEF SyncStep

(* A sound chain has at least the work of the blocks it shares with another*)
LEMMA WorkOfShared ==
  ASSUME NEW c, Sound(c), Off(c) = 0, NEW n \in 0 .. c.numBlocks,
         NEW blocks, \A i \in 1 .. n : c.blocks[i] = blocks[i]
  PROVE  c.totalWork >= BlocksWork(blocks, n) /\ c.totalWork \in Int /\ BlocksWork(blocks, n) \in Nat
<1>1. c.numBlocks \in Nat /\ c.totalWork \in Int /\ LinkedUpTo(c.blocks, c.numBlocks) /\ n \in Nat
  BY DEF Sound
<1>2. \A i \in 1 .. c.numBlocks : c.blocks[i] \in Block
  BY <1>1 DEF LinkedUpTo
<1>3. /\ BlocksWork(c.blocks, n) \in Nat /\ BlocksWork(c.blocks, c.numBlocks) \in Nat
      /\ BlocksWork(c.blocks, n) <= BlocksWork(c.blocks, c.numBlocks)
  BY <1>1, <1>2, WorkMonotone
<1>4. BlocksWork(c.blocks, n) = BlocksWork(blocks, n)
  BY <1>1, WorkOfPart
<1>5. c.totalWork = BlocksWork(c.blocks, c.numBlocks)
  BY <1>1, <1>3 DEF Off
<1> QED BY <1>1, <1>3, <1>4, <1>5

(* Where the download is over, the node has the work.                      *)
LEMMA DownloadGains ==
  ASSUME SameOrigin, SyncInv, calm, sync.pc = "fetch", sync.next > sync.target
  PROVE  chain.totalWork >= before.totalWork /\ chain.totalWork >= GetTotalWork(sync.best)
<1>1. RoundKnows /\ Reaches
  BY DEF SyncInv, RoundInv, InRound, RoundPlace
<1>2. PICK m \in 0 .. before.numBlocks : KeptUpTo(m) /\ FetchedFrom(m)
  BY DEF SyncInv, RoundInv, InRound, RoundPlace
<1>3. /\ chain.numBlocks \in Nat /\ before.numBlocks \in Nat /\ before.totalWork \in Int
      /\ Sound(chain) /\ Off(chain) = 0 /\ Sound(before) /\ Off(before) = 0
      /\ sync.next \in Nat /\ sync.target \in Nat
  BY DEF SyncInv, ChainsSound, Sound, SyncTypes
<1>4. GetTotalWork(sync.best) \in Nat
  <2>1. \A i \in DOMAIN Peers : Peers[i] \in Host
    BY ChainSyncAssumption
  <2>2. sync.best \in Host
    BY <2>1 DEF SyncInv, SyncTypes, ToSet
  <2> QED BY <2>2, GoodHostIsBest DEF SyncInv
<1>5. CASE ~Behind
  <2> DEFINE n == before.numBlocks
  <2>1. n \in 0 .. chain.numBlocks /\ \A i \in 1 .. n : chain.blocks[i] = before.blocks[i]
    BY <1>2, <1>3, <1>5 DEF KeptUpTo
  <2>2. chain.totalWork >= BlocksWork(before.blocks, n) /\ chain.totalWork \in Int
        /\ BlocksWork(before.blocks, n) \in Nat
    BY <1>3, <2>1, WorkOfShared
  <2>3. before.totalWork = BlocksWork(before.blocks, n)
    BY <1>3, <2>2 DEF Off
  <2> QED BY <1>3, <1>4, <1>5, <2>2, <2>3 DEF Behind
<1>6. CASE Behind
  <2>1. /\ Announced \in 1 .. Len(Trusted) /\ Len(Trusted) \in Nat
        /\ GetTotalWork(sync.best) = BlocksWork(Trusted, Announced)
    BY <1>1, <1>6, BehindFacts DEF SyncInv
  <2>2. /\ sync.target = Announced
        /\ \A i \in 1 .. Announced : Served[i] = Trusted[i]
    BY <1>1, <1>6 DEF RoundKnows
  <2>3. Announced \in 0 .. chain.numBlocks
    BY <1>1, <1>3, <1>6, <2>1, <2>2 DEF Reaches
  <2>4. /\ \A i \in 1 .. m : chain.blocks[i] = before.blocks[i] /\ before.blocks[i] = Trusted[i]
        /\ \A i \in m + 1 .. chain.numBlocks : chain.blocks[i] = Served[i]
    BY <1>2, <1>6 DEF KeptUpTo, FetchedFrom
  <2>5. \A i \in 1 .. Announced : chain.blocks[i] = Trusted[i]
    <3> HIDE DEF Announced, Trusted, Served
    <3> QED BY <1>3, <2>1, <2>2, <2>3, <2>4
  <2>6. chain.totalWork >= BlocksWork(Trusted, Announced) /\ chain.totalWork \in Int
    BY <1>3, <2>3, <2>5, WorkOfShared
  <2>7. GetTotalWork(sync.best) > before.totalWork
    BY <1>6 DEF Behind
  <2> QED BY <1>3, <1>4, <2>1, <2>6, <2>7
<1> QED BY <1>5, <1>6

(* Where the peers' chains begin with the node's first block and hold the  *)
(* special blocks, a round that succeeds without a restart leaves the node *)
(* with no less work than before and no less than the trusted peer's.      *)
THEOREM RoundsGainWork == ASSUME SameOrigin PROVE Spec => RoundGains
<1> DEFINE Gains ==
             /\ InRound /\ sync'.pc = "sleep" /\ sync'.status = "SUCCESS" /\ calm
             /\ count'.restarts = count.restarts
             => /\ chain'.totalWork >= before.totalWork
                /\ chain'.totalWork >= GetTotalWork(sync.best)
<1>1. SyncInv /\ CountInv /\ [Next]_vars => [Gains]_vars
  <2> SUFFICES ASSUME SyncInv, CountInv, Next,
                      InRound, sync'.pc = "sleep", sync'.status = "SUCCESS", calm,
                      count'.restarts = count.restarts
               PROVE  /\ chain'.totalWork >= before.totalWork
                      /\ chain'.totalWork >= GetTotalWork(sync.best)
    OBVIOUS
  <2>1. ~Restart
    BY DEF Restart, CountInv
  <2>2. ~\E b \in Block : Submit(b)
    BY DEF Submit, InRound
  <2>3. ~\E h \in Host : HeadersMove(h) \/ PeerMoves(h)
    BY DEF HeadersMove, PeerMoves, InRound
  <2>4. SyncStep
    BY <2>1, <2>2, <2>3 DEF Next
  <2>5. sync.pc = "fetch" /\ sync.next > sync.target /\ chain' = chain
    BY <2>4, StillInRound
  <2>6. chain.totalWork >= before.totalWork /\ chain.totalWork >= GetTotalWork(sync.best)
    BY <2>5, DownloadGains
  <2> QED BY <2>5, <2>6
<1>2. Spec => []SyncInv
  BY SyncInitInv, SyncNextInv, PTL DEF Spec
<1>3. Spec => [][Gains]_vars
  BY <1>1, <1>2, CountsStarts, PTL DEF Spec
<1> QED BY <1>3 DEF RoundGains

-------------------------------------------------------------------------------
(* HostManager.                                                            *)

\* What a request can be at, and the requests for hosts of A at one of pcs.
HandlerStates ==
  {IdleHandler} \cup [pc : {"find"}, addr : Addr, by : Addr, time : Int]
    \cup [pc : {"reach", "peer", "track"}, addr : Addr, by : Addr]
Handled(A, pcs) == {t \in Handler : handler[t].pc \in pcs /\ handler[t].addr \in A}

HostTypeOK ==
  /\ hosts \in Seq(Addr) /\ currPeers \in Seq(Addr) /\ hostNow \in Nat
  /\ DOMAIN pingTime \subseteq Addr /\ \A a \in DOMAIN pingTime : pingTime[a] \in 0 .. hostNow
  /\ DOMAIN delta \subseteq Addr /\ \A a \in DOMAIN delta : delta[a] \in Int
  /\ ahead \in [Addr -> Int]
  /\ heard \in [Addr -> [times : 0 .. 2, at : 0 .. hostNow]]
  /\ handler \in [Handler -> HandlerStates]

\* A request between the look into the list and the insertion counts as if it had
\* inserted, and so does one between the insertion and the one into the peers.
Reaching(a) == Cardinality(Handled({a}, {"reach"}))
Holding(a) == Cardinality(Handled({a}, {"peer", "track"}))
Tracking == Cardinality(Handled(Addr, {"track"}))
Counted ==
  /\ \A a \in Addr : Times(hosts, a) + Reaching(a) <= Cardinality(Handler)
  /\ \A a \in Addr : Times(currPeers, a) + Holding(a) <= Times(hosts, a)
  /\ Len(currPeers) + Tracking < MaxPeers + Cardinality(Handler)

\* A host's own requests come one by one.  One that is not yet in the list was not
\* heard; one that was heard twice was found in the list when it was heard last.
Own(t) == handler[t].pc # "idle" /\ handler[t].by = handler[t].addr
HeardKept ==
  /\ \A t, u \in Handler : Own(t) /\ Own(u) /\ handler[t].addr = handler[u].addr => t = u
  /\ \A t \in Handler : Own(t) /\ handler[t].pc = "reach" => heard[handler[t].addr].times = 0
  /\ \A a \in Addr :
       /\ heard[a].times # 0 => a \in ToSet(hosts)
       /\ heard[a].times = 2 => a \in DOMAIN pingTime /\ pingTime[a] >= heard[a].at
       /\ heard[a].times = 2 /\ a \in Regular => hostNow - heard[a].at <= PingPeriod

\* A host is in a list as often as it is found there.
LEMMA TimesIsNat ==
  ASSUME NEW s \in Seq(Addr), NEW a
  PROVE  /\ IsFiniteSet({i \in DOMAIN s : s[i] = a}) /\ Times(s, a) \in Nat
         /\ Times(s, a) = 0 <=> a \notin ToSet(s)
<1> DEFINE found == {i \in DOMAIN s : s[i] = a}
<1>1. DOMAIN s = 1 .. Len(s) /\ IsFiniteSet(1 .. Len(s)) /\ found \in SUBSET (1 .. Len(s))
  BY FS_Interval
<1>2. IsFiniteSet(found)
  BY <1>1, FS_Subset
<1>3. found = {} <=> a \notin ToSet(s)
  BY DEF ToSet
<1> HIDE DEF found
<1>4. Cardinality(found) \in Nat /\ (Cardinality(found) = 0 <=> found = {})
  BY <1>2, FS_CardinalityType, FS_EmptySet
<1> QED BY <1>2, <1>3, <1>4 DEF found, Times

LEMMA TimesAppend ==
  ASSUME NEW s \in Seq(Addr), NEW b \in Addr, NEW a
  PROVE  /\ Times(Append(s, b), a) = IF a = b THEN Times(s, a) + 1 ELSE Times(s, a)
         /\ ToSet(Append(s, b)) = ToSet(s) \cup {b}
<1> DEFINE e == Append(s, b)
           n == Len(s)
           found == {i \in DOMAIN s : s[i] = a}
           later == {i \in DOMAIN e : e[i] = a}
<1>1. /\ DOMAIN s = 1 .. n /\ DOMAIN e = 1 .. n + 1 /\ n \in Nat
      /\ e[n + 1] = b /\ \A i \in 1 .. n : e[i] = s[i]
  OBVIOUS
<1> HIDE DEF e
<1>2. ToSet(e) = ToSet(s) \cup {b}
  BY <1>1 DEF ToSet
<1>3. IsFiniteSet(found) /\ n + 1 \notin found
  <2>1. IsFiniteSet(found)
    BY TimesIsNat
  <2> QED BY <1>1, <2>1
<1>4. later = IF a = b THEN found \cup {n + 1} ELSE found
  BY <1>1
<1> HIDE DEF found, later
<1>5. Cardinality(later) = IF a = b THEN Cardinality(found) + 1 ELSE Cardinality(found)
  BY <1>3, <1>4, FS_AddElement
<1> QED BY <1>2, <1>5 DEF e, found, later, Times

LEMMA TimesOfDistinct ==
  ASSUME NEW s \in Seq(Addr), \A i, j \in DOMAIN s : i # j => s[i] # s[j], NEW a
  PROVE  Times(s, a) = IF a \in ToSet(s) THEN 1 ELSE 0
<1> SUFFICES ASSUME a \in ToSet(s) PROVE Times(s, a) = 1
  BY TimesIsNat
<1>1. PICK i \in DOMAIN s : s[i] = a
  BY DEF ToSet
<1>2. {j \in DOMAIN s : s[j] = a} = {i}
  BY <1>1
<1> QED BY <1>2, FS_Singleton DEF Times

\* A set as a sequence.
LEMMA SetToSeqLists ==
  ASSUME NEW S, IsFiniteSet(S)
  PROVE  /\ SetToSeq(S) \in Seq(S) /\ Len(SetToSeq(S)) = Cardinality(S)
         /\ \A i, j \in DOMAIN SetToSeq(S) : i # j => SetToSeq(S)[i] # SetToSeq(S)[j]
<1> DEFINE n == Cardinality(S)
           zero == [x \in S |-> 0]
           s == SetToSeq(S)
<1>1. n \in Nat
  BY FS_CardinalityType
<1>2. \E r \in [1 .. n -> S] : \A i, j \in 1 .. n : i # j => r[i] # r[j]
  <2>1. \A x \in S : zero[x] \in Int
    OBVIOUS
  <2> HIDE DEF zero
  <2> QED BY <2>1, SetIsSorted
<1>3. \E r \in [1 .. n -> S] : IsInjective(r)
  BY <1>2 DEF IsInjective
<1>4. s \in [1 .. n -> S] /\ IsInjective(s)
  BY <1>3 DEF SetToSeq
<1> HIDE DEF n, s
<1>5. DOMAIN s = 1 .. n /\ s \in Seq(S) /\ Len(s) = n
  BY <1>1, <1>4
<1>6. \A i, j \in DOMAIN s : i # j => s[i] # s[j]
  BY <1>4 DEF IsInjective
<1> QED BY <1>5, <1>6 DEF n, s

\* How a step of one request changes a count of requests.
Becomes(t, v) == handler' = [handler EXCEPT ![t] = v]
OneIf(w, A, pcs) == IF w.pc \in pcs /\ w.addr \in A THEN 1 ELSE 0
LEMMA HandledMoves ==
  ASSUME NEW t \in Handler, NEW v, NEW A, NEW pcs, HostTypeOK, Becomes(t, v)
  PROVE  /\ Cardinality(Handled(A, pcs)) \in Nat /\ Cardinality(Handled(A, pcs)') \in Nat
         /\ Cardinality(Handled(A, pcs)') <= Cardinality(Handler)
         /\ Cardinality(Handled(A, pcs)') =
              Cardinality(Handled(A, pcs)) + OneIf(v, A, pcs) - OneIf(handler[t], A, pcs)
<1> DEFINE P == Handled(A, pcs)
           Q == Handled(A, pcs)'
           R == P \ {t}
<1>1. /\ handler'[t] = v /\ \A u \in Handler \ {t} : handler'[u] = handler[u]
  BY DEF HostTypeOK, Becomes
<1>2. /\ P \in SUBSET Handler /\ Q \in SUBSET Handler
      /\ t \in P <=> handler[t].pc \in pcs /\ handler[t].addr \in A
      /\ t \in Q <=> v.pc \in pcs /\ v.addr \in A
      /\ Q = IF t \in Q THEN R \cup {t} ELSE R
  BY <1>1 DEF Handled
<1> HIDE DEF P, Q
<1>3. /\ IsFiniteSet(P) /\ IsFiniteSet(Q) /\ Cardinality(P) \in Nat /\ Cardinality(Q) \in Nat
      /\ Cardinality(Q) <= Cardinality(Handler)
  BY <1>2, FS_Subset, FS_CardinalityType, HostAssumption
<1>4. /\ IsFiniteSet(R) /\ t \notin R
      /\ Cardinality(R) = IF t \in P THEN Cardinality(P) - 1 ELSE Cardinality(P)
  BY <1>3, FS_RemoveElement
<1> HIDE DEF R
<1>5. Cardinality(R \cup {t}) = Cardinality(R) + 1
  BY <1>4, FS_AddElement
<1>6. Cardinality(Q) = Cardinality(P) + (IF t \in Q THEN 1 ELSE 0) - (IF t \in P THEN 1 ELSE 0)
  <2>1. Cardinality(Q) = IF t \in Q THEN Cardinality(R) + 1 ELSE Cardinality(R)
    BY <1>2, <1>5
  <2> QED BY <1>3, <1>4, <2>1
<1>7. /\ (IF t \in P THEN 1 ELSE 0) = OneIf(handler[t], A, pcs)
      /\ (IF t \in Q THEN 1 ELSE 0) = OneIf(v, A, pcs)
  BY <1>2 DEF OneIf
<1> QED BY <1>3, <1>6, <1>7 DEF P, Q

\* A request that is handled is for a host; what it becomes.
LEMMA HandlerFields ==
  ASSUME HostTypeOK, NEW t \in Handler
  PROVE  /\ handler[t].pc \in {"idle", "find", "reach", "peer", "track"}
         /\ handler[t].pc = "idle" <=> handler[t] = IdleHandler
         /\ handler[t].pc # "idle" => handler[t].addr \in Addr /\ handler[t].by \in Addr
         /\ handler[t].pc = "find" => handler[t].time \in Int
         /\ handler[t].pc \in {"reach", "peer", "track"} =>
              handler[t] \in [pc : {"reach", "peer", "track"}, addr : Addr, by : Addr]
<1>1. handler[t] \in HandlerStates
  BY DEF HostTypeOK
<1> QED BY <1>1 DEF HandlerStates, IdleHandler

\* A request that moves on keeps its host and its sender.
LEMMA RequestGoesOn ==
  ASSUME HostTypeOK, NEW t \in Handler, NEW p \in {"reach", "peer", "track"},
         handler[t].pc \in {"reach", "peer", "track"}, handler' = [handler EXCEPT ![t].pc = p],
         NEW v, v = [pc |-> p, addr |-> handler[t].addr, by |-> handler[t].by]
  PROVE  v \in HandlerStates /\ handler' = [handler EXCEPT ![t] = v]
<1> DEFINE h == handler[t]
<1>1. h \in [pc : {"reach", "peer", "track"}, addr : Addr, by : Addr]
  BY HandlerFields
<1>2. handler' = [handler EXCEPT ![t] = [h EXCEPT !.pc = p]]
  BY DEF HostTypeOK
<1> HIDE DEF h
<1>3. [h EXCEPT !.pc = p] = [pc |-> p, addr |-> h.addr, by |-> h.by]
  BY <1>1
<1>4. [pc |-> p, addr |-> h.addr, by |-> h.by] \in HandlerStates
  BY <1>1 DEF HandlerStates
<1> QED BY <1>2, <1>3, <1>4 DEF h

LEMMA HostInitInv == HostInit => HostTypeOK /\ Counted /\ HeardKept
<1> SUFFICES ASSUME HostInit PROVE HostTypeOK /\ Counted /\ HeardKept
  OBVIOUS
<1>1. PICK answered \in SUBSET {a \in Addr \ Blacklist : Allowed(a)} :
        /\ hosts \in SetToAllKPermutations(answered)
        /\ pingTime = [a \in answered |-> 0]
  BY DEF HostInit
<1>2. PICK T \in SUBSET answered : hosts \in SetToSeqs(T)
  BY <1>1 DEF SetToAllKPermutations
<1>3. hosts \in Seq(Addr) /\ \A i, j \in DOMAIN hosts : i # j => hosts[i] # hosts[j]
  <2> DEFINE n == Cardinality(T)
  <2>1. hosts \in [1 .. n -> T] /\ \A i, j \in 1 .. n : i # j => hosts[i] # hosts[j]
    BY <1>2 DEF SetToSeqs
  <2>2. n \in Nat
    <3>1. IsFiniteSet(T)
      BY FS_Subset, HostAssumption
    <3> QED BY <3>1, FS_CardinalityType
  <2> HIDE DEF n
  <2> QED BY <2>1, <2>2
<1>4. PICK sample \in Samples(hosts) : currPeers = SetToSeq(sample)
  BY DEF HostInit
<1>5. sample \in SUBSET ToSet(hosts) /\ IsFiniteSet(sample) /\ Cardinality(sample) <= MaxPeers
  <2>1. sample \in SUBSET ToSet(hosts) /\ ToSet(hosts) \subseteq Addr
    BY <1>3, <1>4 DEF Samples, ToSet
  <2>2. IsFiniteSet(sample)
    BY <2>1, FS_Subset, HostAssumption
  <2>3. Cardinality(sample) = IF Len(hosts) < MaxPeers THEN Len(hosts) ELSE MaxPeers
    BY <1>4 DEF Samples
  <2>4. Len(hosts) \in Nat
    BY <1>3
  <2> QED BY <2>1, <2>2, <2>3, <2>4, HostAssumption
<1>6. /\ currPeers \in Seq(sample) /\ Len(currPeers) = Cardinality(sample)
      /\ \A i, j \in DOMAIN currPeers : i # j => currPeers[i] # currPeers[j]
  BY <1>4, <1>5, SetToSeqLists
<1>7. currPeers \in Seq(Addr) /\ ToSet(currPeers) \subseteq ToSet(hosts)
  <2>1. sample \subseteq Addr
    BY <1>3, <1>5 DEF ToSet
  <2>2. DOMAIN currPeers = 1 .. Len(currPeers) /\ \A i \in DOMAIN currPeers : currPeers[i] \in sample
    BY <1>6
  <2> QED BY <1>5, <1>6, <2>1, <2>2 DEF ToSet
<1>8. HostTypeOK
  BY <1>1, <1>3, <1>7 DEF HostInit, HostTypeOK, HandlerStates
<1>9. \A t \in Handler : handler[t].pc = "idle"
  BY DEF HostInit, IdleHandler
<1>10. Counted
  <2>1. \A A, pcs : "idle" \notin pcs => Handled(A, pcs) = {}
    BY <1>9 DEF Handled
  <2>2. Cardinality({}) = 0
    BY FS_EmptySet
  <2>3. Cardinality(Handler) \in Nat /\ Cardinality(Handler) > 0
    BY HostAssumption, FS_CardinalityType, FS_EmptySet
  <2>4. \A a \in Addr : Times(hosts, a) = IF a \in ToSet(hosts) THEN 1 ELSE 0
    BY <1>3, TimesOfDistinct
  <2>5. \A a \in Addr : Times(currPeers, a) = IF a \in ToSet(currPeers) THEN 1 ELSE 0
    BY <1>6, <1>7, TimesOfDistinct
  <2>6. /\ \A a \in Addr : Reaching(a) = 0 /\ Holding(a) = 0
        /\ Tracking = 0
    BY <2>1, <2>2 DEF Reaching, Holding, Tracking
  <2>7. Len(currPeers) \in Nat /\ Len(currPeers) <= MaxPeers
    BY <1>5, <1>6
  <2> QED BY <1>7, <2>3, <2>4, <2>5, <2>6, <2>7, HostAssumption DEF Counted
<1>11. HeardKept
  <2>1. heard = [a \in Addr |-> [times |-> 0, at |-> 0]]
    BY DEF HostInit
  <2> QED BY <1>9, <2>1 DEF HeardKept, Own
<1> QED BY <1>8, <1>10, <1>11

LEMMA HeardTypes ==
  ASSUME HostTypeOK, NEW t \in Handler, handler[t].addr \in Addr, Heard(t)
  PROVE  heard' \in [Addr -> [times : 0 .. 2, at : 0 .. hostNow]]
<1> DEFINE a == handler[t].addr
           E == [times : 0 .. 2, at : 0 .. hostNow]
           w == [times |-> IF heard[a].times = 0 THEN 1 ELSE 2, at |-> hostNow]
<1>1. w \in E
  BY DEF HostTypeOK
<1>2. heard \in [Addr -> E] /\ a \in Addr
  BY DEF HostTypeOK
<1>3. heard' = heard \/ heard' = [heard EXCEPT ![a] = w]
  BY DEF Heard
<1> HIDE DEF a, E, w
<1>4. heard' \in [Addr -> E]
  BY <1>1, <1>2, <1>3
<1> QED BY <1>4 DEF E

\* What int32_t holds is kept as it is.
LEMMA Int32Keeps ==
  ASSUME NEW x \in Int
  PROVE  /\ Int32(x) \in Int
         /\ -Int32Limit <= x /\ x < Int32Limit => Int32(x) = x
<1>1. Int32Limit \in Nat /\ Int32Limit > 0
  BY HostAssumption
<1>2. 2 * Int32Limit \in Nat \ {0} /\ x + Int32Limit \in Int
  BY <1>1
<1>3. (x + Int32Limit) % (2 * Int32Limit) \in Int
  BY <1>2
<1>4. ASSUME -Int32Limit <= x, x < Int32Limit
      PROVE  (x + Int32Limit) % (2 * Int32Limit) = x + Int32Limit
  <2>1. x + Int32Limit \in 0 .. 2 * Int32Limit - 1
    BY <1>1, <1>4
  <2> QED BY <1>2, <2>1
<1> QED BY <1>1, <1>3, <1>4 DEF Int32

LEMMA HostTypesKept == HostTypeOK /\ [HostNext]_hostVars => HostTypeOK'
<1> SUFFICES ASSUME HostTypeOK, [HostNext]_hostVars PROVE HostTypeOK'
  OBVIOUS
<1>1. /\ hosts \in Seq(Addr) /\ currPeers \in Seq(Addr) /\ hostNow \in Nat
      /\ DOMAIN pingTime \subseteq Addr /\ \A a \in DOMAIN pingTime : pingTime[a] \in 0 .. hostNow
      /\ DOMAIN delta \subseteq Addr /\ \A a \in DOMAIN delta : delta[a] \in Int
      /\ ahead \in [Addr -> Int]
      /\ heard \in [Addr -> [times : 0 .. 2, at : 0 .. hostNow]]
      /\ handler \in [Handler -> HandlerStates]
  BY DEF HostTypeOK
<1>2. ASSUME NEW t \in Handler, NEW a \in Addr, NEW by \in Forwarder \cup {a}, AddPeer(t, a, by)
      PROVE  HostTypeOK'
  <2>1. by \in Addr /\ hostNow + Offset[by] \in Int
    BY <1>1, HostAssumption
  <2>2. [pc |-> "find", addr |-> a, by |-> by, time |-> hostNow + Offset[by]] \in HandlerStates
    BY <2>1 DEF HandlerStates
  <2>3. handler' \in [Handler -> HandlerStates]
    BY <1>1, <1>2, <2>2 DEF AddPeer
  <2> QED BY <1>1, <1>2, <2>3 DEF AddPeer, HostTypeOK
<1>3. ASSUME NEW t \in Handler, FindHost(t) PROVE HostTypeOK'
  <2> DEFINE a == handler[t].addr
  <2>1. a \in Addr /\ handler[t].by \in Addr /\ handler[t].time \in Int
    BY <1>3, HandlerFields DEF FindHost
  <2>2. hosts' = hosts /\ currPeers' = currPeers /\ hostNow' = hostNow
    BY <1>3 DEF FindHost
  <2>3. handler' \in [Handler -> HandlerStates]
    <3>1. IdleHandler \in HandlerStates /\ [pc |-> "reach", addr |-> a, by |-> handler[t].by] \in HandlerStates
      BY <2>1 DEF HandlerStates
    <3> QED BY <1>1, <1>3, <3>1 DEF FindHost, Answer
  <2>4. CASE UNCHANGED <<pingTime, delta, ahead, heard>>
    BY <1>1, <2>2, <2>3, <2>4 DEF HostTypeOK
  <2>5. CASE pingTime' = Remember(pingTime, a, hostNow)
             /\ delta' = Remember(delta, a, Int32(hostNow - handler[t].time))
             /\ ahead' = [ahead EXCEPT ![a] = handler[t].time - hostNow] /\ Heard(t)
    <3> HIDE DEF a
    <3>1. /\ DOMAIN pingTime' \subseteq Addr
          /\ \A x \in DOMAIN pingTime' : pingTime'[x] \in 0 .. hostNow
      BY <1>1, <2>1, <2>5 DEF Remember
    <3>2. DOMAIN delta' \subseteq Addr /\ \A x \in DOMAIN delta' : delta'[x] \in Int
      <4>1. Int32(hostNow - handler[t].time) \in Int
        BY <1>1, <2>1, Int32Keeps
      <4> HIDE DEF a
      <4> QED BY <1>1, <2>1, <2>5, <4>1 DEF Remember
    <3>4. ahead' \in [Addr -> Int]
      BY <1>1, <2>1, <2>5
    <3>3. heard' \in [Addr -> [times : 0 .. 2, at : 0 .. hostNow]]
      BY <1>3, <2>1, <2>5, HeardTypes DEF FindHost, a
    <3> QED BY <1>1, <2>2, <2>3, <3>1, <3>2, <3>3, <3>4 DEF HostTypeOK
  <2> QED BY <1>3, <2>4, <2>5 DEF FindHost
<1>4. ASSUME NEW t \in Handler, ReachHost(t) PROVE HostTypeOK'
  <2> DEFINE a == handler[t].addr
  <2>1. a \in Addr /\ handler[t].by \in Addr /\ handler[t].pc = "reach"
    BY <1>4, HandlerFields DEF ReachHost
  <2>2. handler' \in [Handler -> HandlerStates]
    <3>1. CASE handler' = [handler EXCEPT ![t].pc = "peer"]
      <4> DEFINE v == [pc |-> "peer", addr |-> a, by |-> handler[t].by]
      <4>1. v \in HandlerStates /\ handler' = [handler EXCEPT ![t] = v]
        BY <2>1, <3>1, RequestGoesOn
      <4> HIDE DEF v
      <4> QED BY <1>1, <4>1
    <3>2. CASE Answer(t)
      BY <1>1, <3>2 DEF Answer, HandlerStates
    <3>3. handler' = [handler EXCEPT ![t].pc = "peer"] \/ Answer(t)
      BY <1>4 DEF ReachHost
    <3> QED BY <3>1, <3>2, <3>3
  <2>3. hosts' \in Seq(Addr)
    <3>1. hosts' = hosts \/ hosts' = Append(hosts, a)
      BY <1>4 DEF ReachHost
    <3>2. a \in Addr /\ hosts \in Seq(Addr)
      BY <1>1, <2>1
    <3> HIDE DEF a
    <3>3. Append(hosts, a) \in Seq(Addr)
      BY <3>2
    <3> QED BY <3>1, <3>2, <3>3
  <2>4. heard' \in [Addr -> [times : 0 .. 2, at : 0 .. hostNow]]
    <3>1. heard' = heard \/ Heard(t)
      BY <1>4 DEF ReachHost
    <3>2. t \in Handler /\ handler[t].addr \in Addr
      BY <2>1
    <3>3. Heard(t) => heard' \in [Addr -> [times : 0 .. 2, at : 0 .. hostNow]]
      BY <3>2, HeardTypes
    <3> QED BY <1>1, <3>1, <3>3
  <2> QED BY <1>1, <1>4, <2>2, <2>3, <2>4 DEF ReachHost, HostTypeOK
<1>5. ASSUME NEW t \in Handler, CountPeers(t) PROVE HostTypeOK'
  <2>1. handler[t].pc = "peer"
    BY <1>5 DEF CountPeers
  <2>2. handler' \in [Handler -> HandlerStates]
    <3>1. CASE handler' = [handler EXCEPT ![t].pc = "track"]
      <4> DEFINE v == [pc |-> "track", addr |-> handler[t].addr, by |-> handler[t].by]
      <4>1. v \in HandlerStates /\ handler' = [handler EXCEPT ![t] = v]
        BY <2>1, <3>1, RequestGoesOn
      <4> HIDE DEF v
      <4> QED BY <1>1, <4>1
    <3>2. CASE Answer(t)
      BY <1>1, <3>2 DEF Answer, HandlerStates
    <3> QED BY <1>5, <3>1, <3>2 DEF CountPeers
  <2> QED BY <1>1, <1>5, <2>2 DEF CountPeers, HostTypeOK
<1>6. ASSUME NEW t \in Handler, TrackPeer(t) PROVE HostTypeOK'
  <2>1. handler[t].addr \in Addr
    BY <1>6, HandlerFields DEF TrackPeer
  <2>2. handler' \in [Handler -> HandlerStates]
    BY <1>1, <1>6 DEF TrackPeer, Answer, HandlerStates
  <2>3. currPeers' \in Seq(Addr)
    BY <1>1, <1>6, <2>1 DEF TrackPeer
  <2> QED BY <1>1, <1>6, <2>2, <2>3 DEF TrackPeer, HostTypeOK
<1>7. CASE PeriodPasses
  <2>1. hostNow' = hostNow + 1 /\ UNCHANGED <<hosts, pingTime, delta, currPeers, handler, ahead, heard>>
    BY <1>7 DEF PeriodPasses
  <2>2. heard \in [Addr -> [times : 0 .. 2, at : 0 .. hostNow + 1]]
    BY <1>1
  <2> QED BY <1>1, <2>1, <2>2 DEF HostTypeOK
<1>8. CASE UNCHANGED hostVars
  BY <1>1, <1>8 DEF hostVars, HostTypeOK
<1> QED BY <1>2, <1>3, <1>4, <1>5, <1>6, <1>7, <1>8 DEF HostNext

\* How the counts go, and that they are numbers.
LEMMA CountsMove ==
  ASSUME NEW t \in Handler, NEW v \in HandlerStates, HostTypeOK, Becomes(t, v)
  PROVE  LET h == handler[t] IN
         /\ \A a \in Addr :
              /\ Reaching(a) \in Nat /\ Reaching(a)' \in Nat /\ Reaching(a)' <= Cardinality(Handler)
              /\ Reaching(a)' = Reaching(a) + (IF v.pc = "reach" /\ v.addr = a THEN 1 ELSE 0)
                                            - (IF h.pc = "reach" /\ h.addr = a THEN 1 ELSE 0)
              /\ Holding(a) \in Nat /\ Holding(a)' \in Nat
              /\ Holding(a)' = Holding(a) + (IF v.pc \in {"peer", "track"} /\ v.addr = a THEN 1 ELSE 0)
                                          - (IF h.pc \in {"peer", "track"} /\ h.addr = a THEN 1 ELSE 0)
         /\ Tracking \in Nat /\ Tracking' \in Nat /\ Tracking' <= Cardinality(Handler)
         /\ Tracking' = Tracking + (IF v.pc = "track" THEN 1 ELSE 0)
                                 - (IF h.pc = "track" THEN 1 ELSE 0)
<1> DEFINE h == handler[t]
<1>1. ASSUME NEW A, NEW pcs
      PROVE  /\ Cardinality(Handled(A, pcs)) \in Nat /\ Cardinality(Handled(A, pcs)') \in Nat
             /\ Cardinality(Handled(A, pcs)') <= Cardinality(Handler)
             /\ Cardinality(Handled(A, pcs)') =
                  Cardinality(Handled(A, pcs)) + OneIf(v, A, pcs) - OneIf(h, A, pcs)
  BY HandledMoves
<1>2. h \in HandlerStates
  BY DEF HostTypeOK
<1>3. \A w \in HandlerStates : OneIf(w, Addr, {"track"}) = IF w.pc = "track" THEN 1 ELSE 0
  BY DEF HandlerStates, IdleHandler, OneIf
<1> HIDE DEF h
<1>4. ASSUME NEW a \in Addr
      PROVE  /\ Reaching(a) \in Nat /\ Reaching(a)' \in Nat /\ Reaching(a)' <= Cardinality(Handler)
             /\ Reaching(a)' = Reaching(a) + OneIf(v, {a}, {"reach"}) - OneIf(h, {a}, {"reach"})
             /\ Holding(a) \in Nat /\ Holding(a)' \in Nat
             /\ Holding(a)' = Holding(a) + OneIf(v, {a}, {"peer", "track"}) - OneIf(h, {a}, {"peer", "track"})
  BY <1>1 DEF Reaching, Holding
<1>5. /\ Tracking \in Nat /\ Tracking' \in Nat /\ Tracking' <= Cardinality(Handler)
      /\ Tracking' = Tracking + OneIf(v, Addr, {"track"}) - OneIf(h, Addr, {"track"})
  BY <1>1 DEF Tracking
<1>6. ASSUME NEW a \in Addr
      PROVE  /\ Reaching(a)' = Reaching(a) + (IF v.pc = "reach" /\ v.addr = a THEN 1 ELSE 0)
                                           - (IF h.pc = "reach" /\ h.addr = a THEN 1 ELSE 0)
             /\ Holding(a)' = Holding(a) + (IF v.pc \in {"peer", "track"} /\ v.addr = a THEN 1 ELSE 0)
                                         - (IF h.pc \in {"peer", "track"} /\ h.addr = a THEN 1 ELSE 0)
  <2>1. /\ OneIf(v, {a}, {"reach"}) = IF v.pc = "reach" /\ v.addr = a THEN 1 ELSE 0
        /\ OneIf(h, {a}, {"reach"}) = IF h.pc = "reach" /\ h.addr = a THEN 1 ELSE 0
    BY DEF OneIf
  <2>2. /\ OneIf(v, {a}, {"peer", "track"}) = IF v.pc \in {"peer", "track"} /\ v.addr = a THEN 1 ELSE 0
        /\ OneIf(h, {a}, {"peer", "track"}) = IF h.pc \in {"peer", "track"} /\ h.addr = a THEN 1 ELSE 0
    BY DEF OneIf
  <2>3. Reaching(a)' = Reaching(a) + (IF v.pc = "reach" /\ v.addr = a THEN 1 ELSE 0)
                                   - (IF h.pc = "reach" /\ h.addr = a THEN 1 ELSE 0)
    BY <1>4, <2>1
  <2>4. Holding(a)' = Holding(a) + (IF v.pc \in {"peer", "track"} /\ v.addr = a THEN 1 ELSE 0)
                                 - (IF h.pc \in {"peer", "track"} /\ h.addr = a THEN 1 ELSE 0)
    BY <1>4, <2>2
  <2> QED BY <2>3, <2>4
<1>7. Tracking' = Tracking + (IF v.pc = "track" THEN 1 ELSE 0) - (IF h.pc = "track" THEN 1 ELSE 0)
  BY <1>2, <1>3, <1>5
<1> QED BY <1>4, <1>5, <1>6, <1>7 DEF h

LEMMA AnswerIdles ==
  ASSUME NEW t, Answer(t)
  PROVE  Becomes(t, IdleHandler) /\ IdleHandler \in HandlerStates /\ IdleHandler.pc = "idle"
BY DEF Answer, Becomes, HandlerStates, IdleHandler

LEMMA CountedKept == HostTypeOK /\ Counted /\ [HostNext]_hostVars => Counted'
<1> SUFFICES ASSUME HostTypeOK, Counted, [HostNext]_hostVars PROVE Counted'
  OBVIOUS
<1> DEFINE n == Cardinality(Handler)
           H(x) == Times(hosts, x)
           P(x) == Times(currPeers, x)
<1>1. /\ n \in Nat /\ Len(currPeers) \in Nat /\ MaxPeers \in Nat
      /\ \A x \in Addr : /\ H(x) \in Nat /\ P(x) \in Nat
                         /\ H(x) + Reaching(x) <= n /\ P(x) + Holding(x) <= H(x)
      /\ Len(currPeers) + Tracking < MaxPeers + n
  <2>1. n \in Nat /\ MaxPeers \in Nat
    BY HostAssumption, FS_CardinalityType
  <2>2. Len(currPeers) \in Nat /\ \A x \in Addr : H(x) \in Nat /\ P(x) \in Nat
    <3>1. hosts \in Seq(Addr) /\ currPeers \in Seq(Addr)
      BY DEF HostTypeOK
    <3>2. \A x : Times(hosts, x) \in Nat /\ Times(currPeers, x) \in Nat
      BY <3>1, TimesIsNat
    <3>3. Len(currPeers) \in Nat
      BY <3>1
    <3> QED BY <3>2, <3>3
  <2> QED BY <2>1, <2>2 DEF Counted
<1>2. IdleHandler \in HandlerStates /\ IdleHandler.pc = "idle"
  BY DEF HandlerStates, IdleHandler
<1>3. /\ hosts \in Seq(Addr) /\ currPeers \in Seq(Addr)
  BY DEF HostTypeOK
<1>4. ASSUME NEW t \in Handler, NEW a \in Addr, NEW by \in Forwarder \cup {a}, AddPeer(t, a, by)
      PROVE  Counted'
  <2> DEFINE v == [pc |-> "find", addr |-> a, by |-> by, time |-> hostNow + Offset[by]]
  <2>1. v \in HandlerStates /\ v.pc = "find"
    <3>1. by \in Addr /\ hostNow + Offset[by] \in Int
      BY HostAssumption DEF HostTypeOK
    <3> QED BY <3>1 DEF HandlerStates
  <2>2. handler[t].pc = "idle" /\ Becomes(t, v)
        /\ hosts' = hosts /\ currPeers' = currPeers
    BY <1>2, <1>4 DEF AddPeer, Becomes
  <2> HIDE DEF v
  <2>3. Tracking' = Tracking /\ \A x \in Addr : Reaching(x)' = Reaching(x) /\ Holding(x)' = Holding(x)
    BY <2>1, <2>2, CountsMove
  <2> QED BY <1>1, <2>2, <2>3 DEF Counted
<1>5. ASSUME NEW t \in Handler, FindHost(t) PROVE Counted'
  <2> DEFINE a == handler[t].addr
             v == [pc |-> "reach", addr |-> a, by |-> handler[t].by]
  <2>1. /\ handler[t].pc = "find" /\ hosts' = hosts /\ currPeers' = currPeers
        /\ a \in Addr /\ handler[t].by \in Addr
    BY <1>5, HandlerFields DEF FindHost
  <2>2. CASE Answer(t)
    <3>1. Tracking' = Tracking /\ \A x \in Addr : Reaching(x)' = Reaching(x) /\ Holding(x)' = Holding(x)
      BY <1>2, <2>1, <2>2, CountsMove, AnswerIdles
    <3> QED BY <1>1, <2>1, <3>1 DEF Counted
  <2>3. CASE a \notin ToSet(hosts) /\ Becomes(t, v)
    <3>1. v \in HandlerStates /\ v.pc = "reach" /\ v.addr = a
      BY <2>1 DEF HandlerStates
    <3>2. H(a) = 0
      BY <1>3, <2>1, <2>3, TimesIsNat
    <3> HIDE DEF v, H
    <3>3. /\ Tracking' = Tracking
          /\ \A x \in Addr : /\ Reaching(x)' \in Nat /\ Reaching(x)' <= n
                             /\ x # a => Reaching(x)' = Reaching(x)
                             /\ Holding(x)' = Holding(x)
      <4>1. Becomes(t, v)
        BY <2>3
      <4>2. Tracking' = Tracking
        BY <2>1, <3>1, <4>1, CountsMove
      <4>3. ASSUME NEW x \in Addr
            PROVE  /\ Reaching(x)' \in Nat /\ Reaching(x)' <= n
                   /\ x # a => Reaching(x)' = Reaching(x)
                   /\ Holding(x)' = Holding(x)
        BY <2>1, <3>1, <4>1, CountsMove
      <4> QED BY <4>2, <4>3
    <3>4. \A x \in Addr : H(x) + Reaching(x)' <= n
      BY <1>1, <3>2, <3>3
    <3> QED BY <1>1, <2>1, <3>3, <3>4 DEF Counted, H
  <2>4. Answer(t) \/ (a \notin ToSet(hosts) /\ Becomes(t, v))
    BY <1>5 DEF FindHost, Becomes
  <2> QED BY <2>2, <2>3, <2>4
<1>6. ASSUME NEW t \in Handler, ReachHost(t) PROVE Counted'
  <2> DEFINE a == handler[t].addr
             v == [pc |-> "peer", addr |-> a, by |-> handler[t].by]
  <2>1. /\ handler[t].pc = "reach" /\ currPeers' = currPeers
        /\ a \in Addr /\ handler[t].by \in Addr
    BY <1>6, HandlerFields DEF ReachHost
  <2>2. CASE Answer(t) /\ hosts' = hosts
    <3>1. /\ Tracking' = Tracking
          /\ \A x \in Addr : /\ Reaching(x) \in Nat /\ Reaching(x)' \in Nat
                             /\ Reaching(x)' <= Reaching(x) /\ Holding(x)' = Holding(x)
      BY <1>2, <2>1, <2>2, CountsMove, AnswerIdles
    <3>2. \A x \in Addr : H(x) + Reaching(x)' <= n
      BY <1>1, <3>1
    <3> QED BY <1>1, <2>1, <2>2, <3>1, <3>2 DEF Counted
  <2>3. CASE hosts' = Append(hosts, a) /\ handler' = [handler EXCEPT ![t].pc = "peer"]
    <3>1. v \in HandlerStates /\ v.pc = "peer" /\ v.addr = a /\ Becomes(t, v)
      BY <2>1, <2>3, RequestGoesOn DEF Becomes
    <3>2. \A x \in Addr : Times(hosts', x) = IF x = a THEN H(x) + 1 ELSE H(x)
      BY <1>3, <2>1, <2>3, TimesAppend
    <3> HIDE DEF v, a, H
    <3>3. /\ Tracking' = Tracking
          /\ \A x \in Addr :
               /\ Reaching(x) \in Nat /\ Holding(x) \in Nat
               /\ Reaching(x)' = IF x = a THEN Reaching(x) - 1 ELSE Reaching(x)
               /\ Holding(x)' = IF x = a THEN Holding(x) + 1 ELSE Holding(x)
      BY <2>1, <3>1, CountsMove DEF a
    <3>4. \A x \in Addr : Times(hosts', x) + Reaching(x)' <= n
      BY <1>1, <3>2, <3>3
    <3>5. \A x \in Addr : P(x) + Holding(x)' <= Times(hosts', x)
      <4> SUFFICES ASSUME NEW x \in Addr PROVE P(x) + Holding(x)' <= Times(hosts', x)
        OBVIOUS
      <4>1. H(x) \in Nat /\ P(x) \in Nat /\ Holding(x) \in Nat /\ P(x) + Holding(x) <= H(x)
        BY <1>1, <3>3
      <4>2. CASE x = a
        <5>1. Times(hosts', x) = H(x) + 1 /\ Holding(x)' = Holding(x) + 1
          BY <3>2, <3>3, <4>2
        <5> HIDE DEF P
        <5> QED BY <4>1, <5>1
      <4>3. CASE x # a
        <5>1. Times(hosts', x) = H(x) /\ Holding(x)' = Holding(x)
          BY <3>2, <3>3, <4>3
        <5> QED BY <4>1, <5>1
      <4> QED BY <4>2, <4>3
    <3> QED BY <1>1, <2>1, <3>3, <3>4, <3>5 DEF Counted
  <2>4. (Answer(t) /\ hosts' = hosts)
          \/ (hosts' = Append(hosts, a) /\ handler' = [handler EXCEPT ![t].pc = "peer"])
    BY <1>6 DEF ReachHost
  <2> QED BY <2>2, <2>3, <2>4
<1>7. ASSUME NEW t \in Handler, CountPeers(t) PROVE Counted'
  <2> DEFINE a == handler[t].addr
             v == [pc |-> "track", addr |-> a, by |-> handler[t].by]
  <2>1. handler[t].pc = "peer" /\ hosts' = hosts /\ currPeers' = currPeers
    BY <1>7 DEF CountPeers
  <2>2. CASE Answer(t)
    <3>1. /\ Tracking' = Tracking
          /\ \A x \in Addr : /\ Holding(x) \in Nat /\ Holding(x)' \in Nat
                             /\ Holding(x)' <= Holding(x) /\ Reaching(x)' = Reaching(x)
      BY <1>2, <2>1, <2>2, CountsMove, AnswerIdles
    <3>2. \A x \in Addr : P(x) + Holding(x)' <= H(x)
      BY <1>1, <3>1
    <3> QED BY <1>1, <2>1, <3>1, <3>2 DEF Counted
  <2>3. CASE Len(currPeers) < MaxPeers /\ handler' = [handler EXCEPT ![t].pc = "track"]
    <3>1. v \in HandlerStates /\ v.pc = "track" /\ v.addr = a /\ Becomes(t, v)
      BY <2>1, <2>3, RequestGoesOn DEF Becomes
    <3> HIDE DEF v
    <3>2. /\ Tracking' \in Nat /\ Tracking' <= n
          /\ \A x \in Addr : Holding(x)' = Holding(x) /\ Reaching(x)' = Reaching(x)
      BY <2>1, <3>1, CountsMove
    <3>3. Len(currPeers) + Tracking' < MaxPeers + n
      BY <1>1, <2>3, <3>2
    <3> QED BY <1>1, <2>1, <3>2, <3>3 DEF Counted
  <2>4. Answer(t) \/ (Len(currPeers) < MaxPeers /\ handler' = [handler EXCEPT ![t].pc = "track"])
    BY <1>7 DEF CountPeers
  <2> QED BY <2>2, <2>3, <2>4
<1>8. ASSUME NEW t \in Handler, TrackPeer(t) PROVE Counted'
  <2> DEFINE a == handler[t].addr
  <2>1. /\ handler[t].pc = "track" /\ hosts' = hosts /\ currPeers' = Append(currPeers, a)
        /\ a \in Addr /\ Answer(t)
    BY <1>8, HandlerFields DEF TrackPeer
  <2>2. Len(currPeers') = Len(currPeers) + 1
    BY <1>3, <2>1
  <2>3. \A x \in Addr : Times(currPeers', x) = IF x = a THEN P(x) + 1 ELSE P(x)
    BY <1>3, <2>1, TimesAppend
  <2>4. /\ Tracking \in Nat /\ Tracking' = Tracking - 1
        /\ \A x \in Addr : /\ Reaching(x)' = Reaching(x) /\ Holding(x) \in Nat
                           /\ Holding(x)' = IF x = a THEN Holding(x) - 1 ELSE Holding(x)
    <3>1. Becomes(t, IdleHandler)
      BY <2>1, AnswerIdles
    <3>2. Tracking \in Nat /\ Tracking' = Tracking - 1
      BY <1>2, <2>1, <3>1, CountsMove
    <3>3. ASSUME NEW x \in Addr
          PROVE  /\ Reaching(x)' = Reaching(x) /\ Holding(x) \in Nat
                 /\ Holding(x)' = IF x = a THEN Holding(x) - 1 ELSE Holding(x)
      <4>1. "track" \in {"peer", "track"} /\ "idle" \notin {"peer", "track"}
        OBVIOUS
      <4>2. Reaching(x) \in Nat /\ Reaching(x)' = Reaching(x) + 0 - 0
        BY <1>2, <2>1, <3>1, CountsMove
      <4>3. Holding(x) \in Nat /\ Holding(x)' = Holding(x) + 0 - (IF a = x THEN 1 ELSE 0)
        <5> HIDE DEF a
        <5> QED BY <1>2, <2>1, <3>1, <4>1, CountsMove DEF a
      <4> QED BY <4>2, <4>3
    <3> QED BY <3>2, <3>3
  <2> HIDE DEF P, n
  <2>5. Len(currPeers') + Tracking' < MaxPeers + n
    <3>1. /\ Len(currPeers) \in Nat /\ MaxPeers \in Nat /\ n \in Nat
          /\ Len(currPeers) + Tracking < MaxPeers + n
      BY <1>1
    <3> QED BY <2>2, <2>4, <3>1
  <2>6. \A x \in Addr : Times(currPeers', x) + Holding(x)' <= H(x)
    <3> HIDE DEF H
    <3> QED BY <1>1, <2>3, <2>4
  <2> QED BY <1>1, <2>1, <2>4, <2>5, <2>6 DEF Counted
<1>9. CASE PeriodPasses \/ UNCHANGED hostVars
  BY <1>9 DEF PeriodPasses, hostVars, Counted, Reaching, Holding, Tracking, Handled
<1> QED BY <1>4, <1>5, <1>6, <1>7, <1>8, <1>9 DEF HostNext

LEMMA HeardNext == HostTypeOK /\ HeardKept /\ [HostNext]_hostVars => HeardKept'
<1> SUFFICES ASSUME HostTypeOK, HeardKept, [HostNext]_hostVars PROVE HeardKept'
  OBVIOUS
<1>1. /\ \A t, u \in Handler : Own(t) /\ Own(u) /\ handler[t].addr = handler[u].addr => t = u
      /\ \A t \in Handler : Own(t) /\ handler[t].pc = "reach" => heard[handler[t].addr].times = 0
      /\ \A a \in Addr :
           /\ heard[a].times # 0 => a \in ToSet(hosts)
           /\ heard[a].times = 2 => a \in DOMAIN pingTime /\ pingTime[a] >= heard[a].at
           /\ heard[a].times = 2 /\ a \in Regular => hostNow - heard[a].at <= PingPeriod
  BY DEF HeardKept
<1>2. /\ hosts \in Seq(Addr) /\ hostNow \in Nat /\ PingPeriod \in Nat
      /\ \A a \in DOMAIN pingTime : pingTime[a] \in 0 .. hostNow
      /\ \A a \in Addr : heard[a].times \in 0 .. 2 /\ heard[a].at \in 0 .. hostNow
      /\ DOMAIN heard = Addr
  BY HostAssumption DEF HostTypeOK
<1>3. ASSUME NEW t, NEW v, Becomes(t, v)
      PROVE  /\ \A u \in Handler : u # t => handler'[u] = handler[u]
             /\ t \in Handler => handler'[t] = v
  BY <1>3 DEF Becomes, HostTypeOK
\* A request that is answered or goes on for the same host is no new one.
<1>4. ASSUME NEW t \in Handler, NEW v, Becomes(t, v), handler[t].pc # "idle",
             v.pc # "idle" => v.addr = handler[t].addr /\ v.by = handler[t].by
      PROVE  /\ \A u \in Handler : Own(u)' => Own(u) /\ handler'[u].addr = handler[u].addr
             /\ \A s, u \in Handler :
                  Own(s)' /\ Own(u)' /\ handler'[s].addr = handler'[u].addr => s = u
  BY <1>1, <1>3, <1>4 DEF Own
<1>5. ASSUME NEW t \in Handler, NEW a \in Addr, NEW by \in Forwarder \cup {a}, AddPeer(t, a, by)
      PROVE  HeardKept'
  <2> DEFINE v == [pc |-> "find", addr |-> a, by |-> by, time |-> hostNow + Offset[by]]
  <2>1. /\ Becomes(t, v) /\ UNCHANGED <<hosts, pingTime, hostNow, heard>>
        /\ by = a => \A u \in Handler : Own(u) => handler[u].addr # a
    BY <1>5 DEF AddPeer, Becomes, Own, IdleHandler
  <2>2. v.pc = "find" /\ v.addr = a /\ v.by = by
    OBVIOUS
  <2> HIDE DEF v
  <2>3. /\ \A u \in Handler : u # t => handler'[u] = handler[u]
        /\ handler'[t] = v
    BY <1>3, <2>1
  <2>4. \A u \in Handler : /\ u # t => (Own(u)' <=> Own(u))
                           /\ Own(t)' => by = a
    BY <2>2, <2>3 DEF Own
  <2>5. \A s, u \in Handler : Own(s)' /\ Own(u)' /\ handler'[s].addr = handler'[u].addr => s = u
    BY <1>1, <2>1, <2>2, <2>3, <2>4
  <2>6. \A u \in Handler : Own(u)' /\ handler'[u].pc = "reach" => heard[handler'[u].addr].times = 0
    BY <1>1, <2>2, <2>3, <2>4
  <2> QED BY <1>1, <2>1, <2>5, <2>6 DEF HeardKept
<1>6. ASSUME NEW t \in Handler, FindHost(t) PROVE HeardKept'
  <2> DEFINE a == handler[t].addr
             v == [pc |-> "reach", addr |-> a, by |-> handler[t].by]
  <2>1. /\ handler[t].pc = "find" /\ hosts' = hosts /\ hostNow' = hostNow
        /\ a \in Addr /\ handler[t].by \in Addr
    BY <1>6, HandlerFields DEF FindHost
  <2>2. CASE Answer(t) /\ UNCHANGED <<pingTime, heard>>
    <3>1. Becomes(t, IdleHandler) /\ IdleHandler.pc = "idle"
      BY <2>2, AnswerIdles
    <3>2. /\ \A u \in Handler : Own(u)' => Own(u) /\ handler'[u].addr = handler[u].addr
          /\ \A s, u \in Handler :
               Own(s)' /\ Own(u)' /\ handler'[s].addr = handler'[u].addr => s = u
      BY <1>4, <2>1, <3>1
    <3>3. \A u \in Handler : Own(u)' /\ handler'[u].pc = "reach" => heard[handler'[u].addr].times = 0
      BY <1>1, <1>3, <3>1, <3>2
    <3> QED BY <1>1, <2>1, <2>2, <3>2, <3>3 DEF HeardKept
  <2>3. CASE /\ a \in ToSet(hosts) /\ pingTime' = Remember(pingTime, a, hostNow)
             /\ Heard(t) /\ Answer(t)
    <3>1. Becomes(t, IdleHandler) /\ IdleHandler.pc = "idle"
      BY <2>3, AnswerIdles
    <3>2. /\ \A u \in Handler : Own(u)' => Own(u) /\ handler'[u].addr = handler[u].addr
          /\ \A s, u \in Handler :
               Own(s)' /\ Own(u)' /\ handler'[s].addr = handler'[u].addr => s = u
      BY <1>4, <2>1, <3>1
    <3>3. \A x \in Addr : heard'[x] # heard[x] => x = a /\ heard'[x].at = hostNow /\ Own(t)
      BY <1>2, <2>1, <2>3 DEF Heard, Own
    <3>4. \A u \in Handler : Own(u)' /\ handler'[u].pc = "reach" => heard'[handler'[u].addr].times = 0
      <4> SUFFICES ASSUME NEW u \in Handler, Own(u)', handler'[u].pc = "reach"
                   PROVE  heard'[handler'[u].addr].times = 0
        OBVIOUS
      <4>1. u # t
        BY <1>3, <3>1
      <4>2. handler'[u] = handler[u] /\ Own(u)
        BY <1>3, <3>1, <3>2, <4>1
      <4>3. heard[handler[u].addr].times = 0 /\ handler[u].addr \in Addr
        BY <1>1, <4>2, HandlerFields DEF Own
      <4>4. heard'[handler[u].addr] = heard[handler[u].addr]
        BY <1>1, <3>3, <4>1, <4>2, <4>3
      <4> QED BY <4>2, <4>3, <4>4
    <3>5. a \in DOMAIN pingTime' /\ pingTime'[a] = hostNow
          /\ \A x \in DOMAIN pingTime : x # a => x \in DOMAIN pingTime' /\ pingTime'[x] = pingTime[x]
      <4> HIDE DEF a
      <4> QED BY <2>3 DEF Remember
    <3>6. ASSUME NEW x \in Addr
          PROVE  /\ heard'[x].times # 0 => x \in ToSet(hosts)
                 /\ heard'[x].times = 2 => x \in DOMAIN pingTime' /\ pingTime'[x] >= heard'[x].at
                 /\ heard'[x].times = 2 /\ x \in Regular => hostNow - heard'[x].at <= PingPeriod
      <4> HIDE DEF a
      <4>1. CASE heard'[x] = heard[x]
        BY <1>1, <1>2, <2>3, <3>5, <4>1
      <4>2. CASE x = a /\ heard'[x].at = hostNow
        BY <1>2, <2>3, <3>5, <4>2
      <4> QED BY <3>3, <4>1, <4>2
    <3> QED BY <2>1, <3>2, <3>4, <3>6 DEF HeardKept
  <2>4. CASE a \notin ToSet(hosts) /\ Becomes(t, v) /\ UNCHANGED <<pingTime, heard>>
    <3>1. v.pc = "reach" /\ v.addr = a /\ v.by = handler[t].by
      OBVIOUS
    <3> HIDE DEF v
    <3>2. /\ \A u \in Handler : Own(u)' => Own(u) /\ handler'[u].addr = handler[u].addr
          /\ \A s, u \in Handler :
               Own(s)' /\ Own(u)' /\ handler'[s].addr = handler'[u].addr => s = u
      BY <1>4, <2>1, <2>4, <3>1
    <3>3. heard[a].times = 0
      BY <1>1, <2>1, <2>4
    <3>4. \A u \in Handler : Own(u)' /\ handler'[u].pc = "reach" => heard[handler'[u].addr].times = 0
      BY <1>1, <1>3, <2>4, <3>2, <3>3
    <3> QED BY <1>1, <2>1, <2>4, <3>2, <3>4 DEF HeardKept
  <2> QED BY <1>6, <2>2, <2>3, <2>4 DEF FindHost, Becomes
<1>7. ASSUME NEW t \in Handler, ReachHost(t) PROVE HeardKept'
  <2> DEFINE a == handler[t].addr
             v == [pc |-> "peer", addr |-> a, by |-> handler[t].by]
  <2>1. /\ handler[t].pc = "reach" /\ pingTime' = pingTime /\ hostNow' = hostNow
        /\ a \in Addr /\ handler[t].by \in Addr
    BY <1>7, HandlerFields DEF ReachHost
  <2>2. CASE Answer(t) /\ UNCHANGED <<hosts, heard>>
    <3>1. Becomes(t, IdleHandler) /\ IdleHandler.pc = "idle"
      BY <2>2, AnswerIdles
    <3>2. /\ \A u \in Handler : Own(u)' => Own(u) /\ handler'[u].addr = handler[u].addr
          /\ \A s, u \in Handler :
               Own(s)' /\ Own(u)' /\ handler'[s].addr = handler'[u].addr => s = u
      BY <1>4, <2>1, <3>1
    <3>3. \A u \in Handler : Own(u)' /\ handler'[u].pc = "reach" => heard[handler'[u].addr].times = 0
      BY <1>1, <1>3, <3>1, <3>2
    <3> QED BY <1>1, <2>1, <2>2, <3>2, <3>3 DEF HeardKept
  <2>3. CASE /\ hosts' = Append(hosts, a) /\ Heard(t)
             /\ handler' = [handler EXCEPT ![t].pc = "peer"]
    <3>1. v.pc = "peer" /\ v.addr = a /\ v.by = handler[t].by /\ Becomes(t, v)
      BY <2>1, <2>3, RequestGoesOn DEF Becomes
    <3> HIDE DEF v
    <3>2. /\ \A u \in Handler : Own(u)' => Own(u) /\ handler'[u].addr = handler[u].addr
          /\ \A s, u \in Handler :
               Own(s)' /\ Own(u)' /\ handler'[s].addr = handler'[u].addr => s = u
      BY <1>4, <2>1, <3>1
    \* A request of the host itself was not heard before, so that it is heard once.
    <3>3. \A x \in Addr : heard'[x] # heard[x] => x = a /\ heard'[x].times = 1 /\ Own(t)
      <4>1. Own(t) => heard[a].times = 0
        BY <1>1, <2>1
      <4> QED BY <1>2, <2>1, <2>3, <4>1 DEF Heard, Own
    <3>4. \A u \in Handler : Own(u)' /\ handler'[u].pc = "reach" => heard'[handler'[u].addr].times = 0
      <4> SUFFICES ASSUME NEW u \in Handler, Own(u)', handler'[u].pc = "reach"
                   PROVE  heard'[handler'[u].addr].times = 0
        OBVIOUS
      <4>1. u # t
        BY <1>3, <3>1
      <4>2. handler'[u] = handler[u] /\ Own(u)
        BY <1>3, <3>1, <3>2, <4>1
      <4>3. heard[handler[u].addr].times = 0 /\ handler[u].addr \in Addr
        BY <1>1, <4>2, HandlerFields DEF Own
      <4>4. heard'[handler[u].addr] = heard[handler[u].addr]
        BY <1>1, <3>3, <4>1, <4>2, <4>3
      <4> QED BY <4>2, <4>3, <4>4
    <3>5. ToSet(hosts') = ToSet(hosts) \cup {a}
      BY <1>2, <2>1, <2>3, TimesAppend
    <3>6. ASSUME NEW x \in Addr
          PROVE  /\ heard'[x].times # 0 => x \in ToSet(hosts')
                 /\ heard'[x].times = 2 => x \in DOMAIN pingTime /\ pingTime[x] >= heard'[x].at
                 /\ heard'[x].times = 2 /\ x \in Regular => hostNow - heard'[x].at <= PingPeriod
      <4> HIDE DEF a
      <4>1. CASE heard'[x] = heard[x]
        BY <1>1, <3>5, <4>1
      <4>2. CASE x = a /\ heard'[x].times = 1
        BY <3>5, <4>2
      <4> QED BY <3>3, <4>1, <4>2
    <3> QED BY <2>1, <3>2, <3>4, <3>6 DEF HeardKept
  <2> QED BY <1>7, <2>2, <2>3 DEF ReachHost
<1>8. ASSUME NEW t \in Handler, CountPeers(t) PROVE HeardKept'
  <2> DEFINE v == [pc |-> "track", addr |-> handler[t].addr, by |-> handler[t].by]
  <2>1. handler[t].pc = "peer" /\ UNCHANGED <<hosts, pingTime, hostNow, heard>>
    BY <1>8 DEF CountPeers
  <2>2. PICK w \in {IdleHandler, v} : Becomes(t, w)
    BY <1>8, <2>1, RequestGoesOn, AnswerIdles DEF CountPeers, Becomes
  <2>3. w.pc # "reach" /\ (w.pc # "idle" => w.addr = handler[t].addr /\ w.by = handler[t].by)
    BY DEF IdleHandler
  <2>4. /\ \A u \in Handler : Own(u)' => Own(u) /\ handler'[u].addr = handler[u].addr
        /\ \A s, u \in Handler :
             Own(s)' /\ Own(u)' /\ handler'[s].addr = handler'[u].addr => s = u
    BY <1>4, <2>1, <2>2, <2>3
  <2>5. \A u \in Handler : Own(u)' /\ handler'[u].pc = "reach" => heard[handler'[u].addr].times = 0
    BY <1>1, <1>3, <2>2, <2>3, <2>4
  <2> QED BY <1>1, <2>1, <2>4, <2>5 DEF HeardKept
<1>9. ASSUME NEW t \in Handler, TrackPeer(t) PROVE HeardKept'
  <2>1. /\ handler[t].pc = "track" /\ UNCHANGED <<hosts, pingTime, hostNow, heard>>
        /\ Becomes(t, IdleHandler) /\ IdleHandler.pc = "idle"
    BY <1>9, AnswerIdles DEF TrackPeer
  <2>2. /\ \A u \in Handler : Own(u)' => Own(u) /\ handler'[u].addr = handler[u].addr
        /\ \A s, u \in Handler :
             Own(s)' /\ Own(u)' /\ handler'[s].addr = handler'[u].addr => s = u
    BY <1>4, <2>1
  <2>3. \A u \in Handler : Own(u)' /\ handler'[u].pc = "reach" => heard[handler'[u].addr].times = 0
    BY <1>1, <1>3, <2>1, <2>2
  <2> QED BY <1>1, <2>1, <2>2, <2>3 DEF HeardKept
<1>10. CASE PeriodPasses
  <2>1. /\ hostNow' = hostNow + 1 /\ UNCHANGED <<hosts, pingTime, handler, heard>>
        /\ \A a \in Regular : heard[a].times = 2 => hostNow - heard[a].at < PingPeriod
    BY <1>10 DEF PeriodPasses
  <2>2. \A a \in Addr : heard[a].times = 2 /\ a \in Regular => hostNow' - heard[a].at <= PingPeriod
    BY <1>2, <2>1
  <2> QED BY <1>1, <2>1, <2>2 DEF HeardKept, Own
<1>11. CASE UNCHANGED hostVars
  BY <1>11 DEF hostVars, HeardKept, Own
<1> QED BY <1>5, <1>6, <1>7, <1>8, <1>9, <1>10, <1>11 DEF HostNext

\* A host's delta is how far behind the time was that it gave, as int32_t.
DeltasTold == \A a \in Addr : Delta(a) = Int32(0 - ahead[a])

LEMMA DeltasNext == HostTypeOK /\ DeltasTold /\ [HostNext]_hostVars => DeltasTold'
<1> SUFFICES ASSUME HostTypeOK, DeltasTold, [HostNext]_hostVars PROVE DeltasTold'
  OBVIOUS
<1>1. ahead \in [Addr -> Int] /\ hostNow \in Int
  BY DEF HostTypeOK
<1>2. CASE UNCHANGED <<delta, ahead>>
  BY <1>2 DEF DeltasTold, Delta
<1>3. ASSUME NEW t \in Handler, FindHost(t) PROVE DeltasTold'
  <2> DEFINE a == handler[t].addr
             behind == hostNow - handler[t].time
  <2>1. a \in Addr /\ handler[t].time \in Int
    BY <1>3, HandlerFields DEF FindHost
  <2>2. \/ UNCHANGED <<pingTime, delta, ahead, heard>>
        \/ /\ delta' = Remember(delta, a, Int32(behind))
           /\ ahead' = [ahead EXCEPT ![a] = handler[t].time - hostNow]
    <3>1. CASE a \in Blacklist
      BY <1>3, <3>1, Zenon DEF FindHost
    <3>2. CASE a \notin Blacklist /\ a \in ToSet(hosts)
      BY <1>3, <3>2, Zenon DEF FindHost
    <3>3. CASE a \notin Blacklist /\ a \notin ToSet(hosts)
      BY <1>3, <3>3, Zenon DEF FindHost
    <3> QED BY <3>1, <3>2, <3>3
  <2>3. 0 - (handler[t].time - hostNow) = behind
    BY <1>1, <2>1
  <2>4. CASE delta' = Remember(delta, a, Int32(behind))
             /\ ahead' = [ahead EXCEPT ![a] = handler[t].time - hostNow]
    <3> SUFFICES ASSUME NEW x \in Addr PROVE Delta(x)' = Int32(0 - ahead'[x])
      BY DEF DeltasTold
    <3>1. CASE x = a
      <4>1. Delta(x)' = Int32(behind) /\ ahead'[x] = handler[t].time - hostNow
        BY <1>1, <2>1, <2>4, <3>1 DEF Delta, Remember
      <4> QED BY <2>3, <4>1
    <3>2. CASE x # a
      <4>1. Delta(x)' = Delta(x) /\ ahead'[x] = ahead[x]
        BY <1>1, <2>4, <3>2 DEF Delta, Remember
      <4> QED BY <4>1 DEF DeltasTold
    <3> QED BY <3>1, <3>2
  <2> QED BY <1>2, <2>2, <2>4
<1>4. ASSUME NEW t \in Handler, NEW a, NEW by,
             AddPeer(t, a, by) \/ ReachHost(t) \/ CountPeers(t) \/ TrackPeer(t)
      PROVE  UNCHANGED <<delta, ahead>>
  <2>1. AddPeer(t, a, by) => UNCHANGED <<delta, ahead>>
    BY Zenon DEF AddPeer
  <2>2. ReachHost(t) => UNCHANGED <<delta, ahead>>
    BY Zenon DEF ReachHost
  <2>3. CountPeers(t) \/ TrackPeer(t) => UNCHANGED <<delta, ahead>>
    BY Zenon DEF CountPeers, TrackPeer
  <2> QED BY <1>4, <2>1, <2>2, <2>3
<1>5. PeriodPasses \/ UNCHANGED hostVars => UNCHANGED <<delta, ahead>>
  BY DEF PeriodPasses, hostVars
<1> QED BY <1>2, <1>3, <1>4, <1>5 DEF HostNext

LEMMA DeltasInit == HostInit => DeltasTold
<1> SUFFICES ASSUME HostInit PROVE DeltasTold
  OBVIOUS
<1>1. delta = <<>> /\ ahead = [a \in Addr |-> 0]
  BY DEF HostInit
<1>2. \A a \in Addr : 0 - ahead[a] = 0
  <2>1. \A a \in Addr : ahead[a] = 0
    BY <1>1
  <2>2. 0 - 0 = 0
    OBVIOUS
  <2> QED BY <2>1, <2>2
<1>3. Int32(0) = 0
  BY HostAssumption, Int32Keeps
<1>4. \A a : Delta(a) = 0
  BY <1>1 DEF Delta
<1> QED BY <1>2, <1>3, <1>4 DEF DeltasTold

\* What holds of the hosts in every reachable state.
LEMMA HostInvKept == HostSpec => [](HostTypeOK /\ Counted /\ HeardKept /\ DeltasTold)
<1>1. /\ HostTypeOK /\ Counted /\ HeardKept /\ DeltasTold /\ [HostNext]_hostVars
      => (HostTypeOK /\ Counted /\ HeardKept /\ DeltasTold)'
  BY HostTypesKept, CountedKept, HeardNext, DeltasNext
<1> QED BY <1>1, HostInitInv, DeltasInit, PTL DEF HostSpec

(* However the requests for the same host interleave, it is in the list at *)
(* most as often as there are request threads, the peers are at most the   *)
(* wanted ones and the other threads, and every peer was inserted first.   *)
THEOREM HostRacesBounded == HostSpec => []RacesBounded
<1>1. HostTypeOK /\ Counted => RacesBounded
  <2> SUFFICES ASSUME HostTypeOK, Counted PROVE RacesBounded
    OBVIOUS
  <2> DEFINE n == Cardinality(Handler)
  <2>1. /\ hosts \in Seq(Addr) /\ currPeers \in Seq(Addr) /\ DOMAIN handler = Handler
    BY DEF HostTypeOK
  <2>2. n \in Nat /\ MaxPeers \in Nat /\ Len(currPeers) \in Nat
    BY <2>1, HostAssumption, FS_CardinalityType
  <2>3. \A A, pcs : Cardinality(Handled(A, pcs)) \in Nat
    <3> SUFFICES ASSUME NEW A, NEW pcs PROVE Cardinality(Handled(A, pcs)) \in Nat
      OBVIOUS
    <3>1. Handled(A, pcs) \in SUBSET Handler
      BY DEF Handled
    <3> HIDE DEF Handled
    <3> QED BY <3>1, HostAssumption, FS_Subset, FS_CardinalityType
  <2>4. Tracking \in Nat /\ \A a \in Addr : Reaching(a) \in Nat /\ Holding(a) \in Nat
    BY <2>3 DEF Tracking, Reaching, Holding
  <2>5. \A a : Times(hosts, a) \in Nat /\ Times(currPeers, a) \in Nat
    BY <2>1, TimesIsNat
  <2>6. ToSet(hosts) \subseteq Addr /\ ToSet(currPeers) \subseteq Addr
    BY <2>1 DEF ToSet
  <2> HIDE DEF n
  <2>7. /\ \A a \in Addr : Times(hosts, a) <= 1 + (n - 1)
        /\ \A a \in Addr : Times(currPeers, a) <= Times(hosts, a)
        /\ Len(currPeers) <= MaxPeers + (n - 1)
    <3>1. /\ \A a \in Addr : Times(hosts, a) + Reaching(a) <= n
          /\ \A a \in Addr : Times(currPeers, a) + Holding(a) <= Times(hosts, a)
          /\ Len(currPeers) + Tracking < MaxPeers + n
      BY DEF Counted, n
    <3>2. ASSUME NEW a \in Addr
          PROVE  Times(hosts, a) <= 1 + (n - 1) /\ Times(currPeers, a) <= Times(hosts, a)
      BY <2>2, <2>4, <2>5, <3>1
    <3>3. Len(currPeers) <= MaxPeers + (n - 1)
      BY <2>2, <2>4, <3>1
    <3> QED BY <3>2, <3>3
  <2> QED BY <2>1, <2>6, <2>7 DEF RacesBounded, n
<1> QED BY <1>1, HostInvKept, PTL

(* A regular host that was heard twice stays fresh: the second time it was *)
(* in the list, so its ping time was noted, and it pings again before that *)
(* is too old.                                                             *)
THEOREM PingersStayFresh == HostSpec => []KeepsPingers
<1>1. HostTypeOK /\ HeardKept => KeepsPingers
  <2> SUFFICES ASSUME HostTypeOK, HeardKept, NEW a \in Regular, heard[a].times = 2
               PROVE  a \in Fresh
    BY DEF KeepsPingers
  <2>1. a \in Addr /\ PingPeriod < Freshness /\ PingPeriod \in Nat /\ Freshness \in Nat
    BY HostAssumption
  <2>2. /\ a \in DOMAIN pingTime /\ pingTime[a] >= heard[a].at /\ hostNow - heard[a].at <= PingPeriod
    BY <2>1 DEF HeardKept
  <2>3. hostNow \in Nat /\ pingTime[a] \in Nat /\ heard[a].at \in Nat
    BY <2>1, <2>2 DEF HostTypeOK
  <2>4. hostNow - pingTime[a] < Freshness
    BY <2>1, <2>2, <2>3
  <2> QED BY <2>2, <2>4 DEF Fresh
<1> QED BY <1>1, HostInvKept, PTL

-------------------------------------------------------------------------------
(* The network's time.                                                     *)

\* Where more than half of the entries of an ascending list lie between two bounds,
\* so does the one in the middle, or both that are.
LEMMA MiddleBetween ==
  ASSUME NEW n \in Nat \ {0}, NEW d \in [1 .. n -> Int],
         \A i, j \in 1 .. n : i <= j => d[i] <= d[j],
         NEW lo \in Int, NEW hi \in Int,
         2 * Cardinality({i \in 1 .. n : lo <= d[i] /\ d[i] <= hi}) > n
  PROVE  LET m == n \div 2 IN
         /\ m \in 0 .. n - 1 /\ lo <= d[m + 1] /\ d[m + 1] <= hi
         /\ n = 2 * m => m \in 1 .. n /\ lo <= d[m] /\ d[m] <= hi
<1> DEFINE m == n \div 2
           K == {i \in 1 .. n : lo <= d[i] /\ d[i] <= hi}
           k == Cardinality(K)
           Within(x, y) == K \subseteq x + 1 .. y
<1>1. m \in Nat /\ (n = 2 * m \/ n = 2 * m + 1)
  OBVIOUS
<1> HIDE DEF m
<1>2. m \in 0 .. n - 1 /\ (n = 2 * m => m \in 1 .. n)
  BY <1>1
<1>3. \A i \in 1 .. n : d[i] \in Int
  OBVIOUS
\* The entries between the bounds are not all among the first x, nor among the last.
<1>4. ASSUME NEW x \in 0 .. n, NEW y \in 0 .. n, Within(x, y)
      PROVE  x <= y => 2 * (y - x) > n
  <2>1. IsFiniteSet(x + 1 .. y) /\ Cardinality(x + 1 .. y) = IF x + 1 > y THEN 0 ELSE y - (x + 1) + 1
    <3>1. x + 1 \in Int /\ y \in Int
      OBVIOUS
    <3> QED BY <3>1, FS_Interval
  <2>2. k <= Cardinality(x + 1 .. y) /\ k \in Nat
    <3>1. IsFiniteSet(K) /\ Cardinality(K) <= Cardinality(x + 1 .. y)
      BY <1>4, <2>1, FS_Subset
    <3> QED BY <3>1, FS_CardinalityType
  <2>3. 2 * k > n
    OBVIOUS
  <2> HIDE DEF k
  <2> QED BY <2>1, <2>2, <2>3
<1>5. lo <= hi
  <2>1. k # 0
    BY <1>1
  <2>2. K # {}
    BY <2>1, FS_EmptySet
  <2> QED BY <1>3, <2>2
<1>6. ASSUME NEW i \in 1 .. n
      PROVE  /\ d[i] < lo => 2 * (n - i) > n
             /\ d[i] > hi => 2 * (i - 1) > n
  <2>1. CASE d[i] < lo
    <3>1. \A j \in K : j \in 1 .. n /\ ~(j <= i)
      BY <1>3, <2>1
    <3>2. Within(i, n)
      BY <3>1
    <3> HIDE DEF Within, K
    <3>3. 2 * (n - i) > n
      BY <1>4, <3>2
    <3> QED BY <1>3, <1>5, <2>1, <3>3
  <2>2. CASE d[i] > hi
    <3>1. \A j \in K : j \in 1 .. n /\ ~(j >= i)
      BY <1>3, <2>2
    <3>2. Within(0, i - 1)
      BY <3>1
    <3> HIDE DEF Within, K
    <3>3. 2 * ((i - 1) - 0) > n
      <4>1. i - 1 \in 0 .. n /\ 0 \in 0 .. n /\ 0 <= i - 1
        OBVIOUS
      <4> QED BY <1>4, <3>2, <4>1
    <3> QED BY <1>3, <1>5, <2>2, <3>3
  <2> QED BY <2>1, <2>2
<1> HIDE DEF k, K
<1>7. lo <= d[m + 1] /\ d[m + 1] <= hi
  <2>1. m + 1 \in 1 .. n
    BY <1>1, <1>2
  <2>2. ~(d[m + 1] < lo) /\ ~(d[m + 1] > hi)
    BY <1>1, <1>6, <2>1
  <2> QED BY <1>3, <2>1, <2>2
<1>8. ASSUME n = 2 * m PROVE m \in 1 .. n /\ lo <= d[m] /\ d[m] <= hi
  <2>1. m \in 1 .. n
    BY <1>2, <1>8
  <2>2. ~(d[m] < lo) /\ ~(d[m] > hi)
    BY <1>1, <1>6, <1>8, <2>1
  <2> QED BY <1>3, <2>1, <2>2
<1> QED BY <1>2, <1>7, <1>8 DEF m

\* The deltas of the fresh hosts, listed from the least to the largest, each as often
\* as there are hosts with it.
LEMMA DeltasSorted ==
  ASSUME HostTypeOK
  PROVE  LET n == Cardinality(Fresh) IN
         /\ IsFiniteSet(Fresh) /\ n \in Nat /\ SortedDeltas \in [1 .. n -> Int]
         /\ \A i, j \in 1 .. n : i <= j => SortedDeltas[i] <= SortedDeltas[j]
         /\ \A lo, hi \in Int :
              Cardinality({a \in Fresh : lo <= Delta(a) /\ Delta(a) <= hi})
                <= Cardinality({i \in 1 .. n : lo <= SortedDeltas[i] /\ SortedDeltas[i] <= hi})
<1> DEFINE n == Cardinality(Fresh)
           f == [a \in Fresh |-> Delta(a)]
           order == CHOOSE s \in SetToSeqs(Fresh) : Ascends(s)
           d == SortedDeltas
<1>1. IsFiniteSet(Fresh) /\ n \in Nat /\ \A a \in Fresh : Delta(a) \in Int
  <2>1. Fresh \in SUBSET Addr
    BY DEF Fresh, HostTypeOK
  <2>2. \A a : Delta(a) \in Int
    BY DEF Delta, HostTypeOK
  <2> QED BY <2>1, <2>2, HostAssumption, FS_Subset, FS_CardinalityType
<1>2. d = [i \in DOMAIN order |-> Delta(order[i])]
  BY DEF SortedDeltas
<1>3. \A a \in Fresh : f[a] \in Int /\ f[a] = Delta(a)
  BY <1>1
<1> HIDE DEF f, n
<1>4. PICK s \in [1 .. n -> Fresh] :
        /\ \A i, j \in 1 .. n : i # j => s[i] # s[j]
        /\ \A i, j \in 1 .. n : i <= j => f[s[i]] <= f[s[j]]
  BY <1>1, <1>3, SetIsSorted DEF n
<1>5. s \in SetToSeqs(Fresh)
  BY <1>4 DEF SetToSeqs, n
<1>6. Ascends(s)
  BY <1>3, <1>4 DEF Ascends
<1>7. order \in SetToSeqs(Fresh) /\ Ascends(order)
  BY <1>5, <1>6
<1> HIDE DEF order
<1>8. order \in [1 .. n -> Fresh] /\ \A i, j \in 1 .. n : i # j => order[i] # order[j]
  BY <1>7 DEF SetToSeqs, n
<1>9. d \in [1 .. n -> Int] /\ \A i \in 1 .. n : d[i] = Delta(order[i])
  BY <1>1, <1>2, <1>8
<1>10. \A i, j \in 1 .. n : i <= j => d[i] <= d[j]
  BY <1>7, <1>8, <1>9 DEF Ascends
\* Every fresh host is somewhere in the order.
<1>11. \A a \in Fresh : \E i \in 1 .. n : order[i] = a
  <2>1. order \in Injection(1 .. n, Fresh)
    BY <1>8 DEF Injection, IsInjective
  <2>2. Cardinality(1 .. n) = n /\ IsFiniteSet(1 .. n)
    BY <1>1, FS_Interval
  <2>3. order \in Surjection(1 .. n, Fresh)
    BY <1>1, <2>1, <2>2, FS_Injection DEF n
  <2> QED BY <2>3 DEF Surjection
<1>12. ASSUME NEW lo \in Int, NEW hi \in Int
       PROVE  Cardinality({a \in Fresh : lo <= Delta(a) /\ Delta(a) <= hi})
                <= Cardinality({i \in 1 .. n : lo <= d[i] /\ d[i] <= hi})
  <2> DEFINE M == {a \in Fresh : lo <= Delta(a) /\ Delta(a) <= hi}
             K == {i \in 1 .. n : lo <= d[i] /\ d[i] <= hi}
             g == [i \in K |-> order[i]]
  <2>1. g \in [K -> M] /\ \A a \in M : \E i \in K : g[i] = a
    BY <1>8, <1>9, <1>11
  <2>2. IsFiniteSet(K)
    <3>1. K \in SUBSET (1 .. n) /\ IsFiniteSet(1 .. n)
      BY <1>1, FS_Interval
    <3> QED BY <3>1, FS_Subset
  <2> HIDE DEF M, K, g
  <2>3. g \in Surjection(K, M)
    BY <2>1 DEF Surjection
  <2> QED BY <2>2, <2>3, FS_Surjection DEF M, K
<1> HIDE DEF d
<1> QED BY <1>1, <1>9, <1>10, <1>12 DEF d, n

\* Half of the sum of two numbers is between the bounds that they are between.
LEMMA HalfBetween ==
  ASSUME NEW x \in Int, NEW y \in Int, NEW lo \in Int, NEW hi \in Int,
         lo <= x, x <= hi, lo <= y, y <= hi
  PROVE  Half(x + y) \in Int /\ lo <= Half(x + y) /\ Half(x + y) <= hi
BY DEF Half

\* Where more than half of the fresh hosts' deltas lie between two bounds that leave
\* room for the sum of two, so does the network's time.
LEMMA MiddleOfDeltas ==
  ASSUME HostTypeOK, NEW lo \in Int, NEW hi \in Int,
         -Int32Limit <= 2 * lo, 2 * hi < Int32Limit,
         2 * Cardinality({a \in Fresh : lo <= Delta(a) /\ Delta(a) <= hi}) > Cardinality(Fresh)
  PROVE  lo <= NetworkTimestamp - hostNow /\ NetworkTimestamp - hostNow <= hi
<1> DEFINE n == Cardinality(Fresh)
           d == SortedDeltas
           m == n \div 2
           Between(x) == lo <= x /\ x <= hi
           M == {a \in Fresh : lo <= Delta(a) /\ Delta(a) <= hi}
           K == {i \in 1 .. n : lo <= d[i] /\ d[i] <= hi}
<1>1. hostNow \in Int /\ Int32Limit \in Nat
  BY HostAssumption DEF HostTypeOK
<1>2. /\ IsFiniteSet(Fresh) /\ n \in Nat /\ d \in [1 .. n -> Int]
      /\ \A i, j \in 1 .. n : i <= j => d[i] <= d[j]
      /\ Cardinality(M) <= Cardinality(K)
  BY DeltasSorted
<1>3. Cardinality(M) \in Nat /\ Cardinality(K) \in Nat
  <2>1. M \in SUBSET Fresh /\ K \in SUBSET (1 .. n) /\ IsFiniteSet(1 .. n)
    BY <1>2, FS_Interval
  <2> HIDE DEF M, K
  <2> QED BY <1>2, <2>1, FS_Subset, FS_CardinalityType
<1>4. 2 * Cardinality(M) > n
  OBVIOUS
<1>5. n # 0
  <2>1. Cardinality(M) <= n
    <3>1. M \in SUBSET Fresh
      OBVIOUS
    <3> HIDE DEF M
    <3> QED BY <1>2, <3>1, FS_Subset
  <2> HIDE DEF M, n
  <2> QED BY <1>2, <1>3, <1>4, <2>1
<1>6. 2 * Cardinality(K) > n
  <2> HIDE DEF M, K, n
  <2> QED BY <1>2, <1>3, <1>4
<1> HIDE DEF d, n, M
<1>7. /\ m \in 0 .. n - 1 /\ lo <= d[m + 1] /\ d[m + 1] <= hi
      /\ n = 2 * m => m \in 1 .. n /\ lo <= d[m] /\ d[m] <= hi
  BY <1>2, <1>5, <1>6, MiddleBetween
<1>8. Len(d) = n /\ d # <<>>
  BY <1>2, <1>5
<1>9. NetworkTimestamp = IF n % 2 = 0 THEN hostNow + Half(Int32(d[m + 1] + d[m]))
                         ELSE hostNow + d[m + 1]
  BY <1>8 DEF NetworkTimestamp, d
<1>10. d[m + 1] \in Int /\ (n = 2 * m => d[m] \in Int)
  <2> HIDE DEF m
  <2>1. m + 1 \in 1 .. n
    BY <1>2, <1>7
  <2> QED BY <1>2, <1>7, <2>1
<1>11. n % 2 = 0 <=> n = 2 * m
  BY <1>2
<1> HIDE DEF m
<1>12. CASE n % 2 = 0
  <2>1. d[m] \in Int /\ Between(d[m]) /\ Between(d[m + 1])
    BY <1>7, <1>10, <1>11, <1>12
  <2>2. d[m + 1] + d[m] \in Int /\ -Int32Limit <= d[m + 1] + d[m] /\ d[m + 1] + d[m] < Int32Limit
    BY <1>1, <1>10, <2>1
  <2>3. Int32(d[m + 1] + d[m]) = d[m + 1] + d[m]
    BY <2>2, Int32Keeps
  <2>4. Half(d[m + 1] + d[m]) \in Int /\ Between(Half(d[m + 1] + d[m]))
    BY <1>10, <2>1, HalfBetween
  <2>5. NetworkTimestamp - hostNow = Half(d[m + 1] + d[m])
    BY <1>1, <1>9, <1>12, <2>3, <2>4
  <2> QED BY <2>4, <2>5
<1>13. CASE n % 2 # 0
  <2>1. NetworkTimestamp - hostNow = d[m + 1]
    BY <1>1, <1>9, <1>10, <1>13
  <2> QED BY <1>7, <2>1
<1> QED BY <1>12, <1>13

(* The network's time is behind the node's by as much as the times are     *)
(* ahead of it that more than half of the fresh hosts gave, whatever the   *)
(* others gave: the deltas are what is stored of those times, negated      *)
(* (DeltasTold), and the middle of them is between those of the majority.  *)
THEOREM NetworkTimeIsMirrored == HostSpec => []NetworkTimeMirrored
<1>1. HostTypeOK /\ DeltasTold => NetworkTimeMirrored
  <2> DEFINE Agreeing(lo, hi) == {a \in Fresh : lo <= ahead[a] /\ ahead[a] <= hi}
  <2> SUFFICES ASSUME HostTypeOK, DeltasTold,
                      NEW lo \in {ahead[a] : a \in Fresh}, NEW hi \in {ahead[a] : a \in Fresh},
                      -Int32Limit < 2 * lo, 2 * hi <= Int32Limit,
                      2 * Cardinality(Agreeing(lo, hi)) > Cardinality(Fresh)
               PROVE  /\ -hi <= NetworkTimestamp - hostNow
                      /\ NetworkTimestamp - hostNow <= -lo
    BY DEF NetworkTimeMirrored
  <2>1. /\ Fresh \in SUBSET Addr /\ ahead \in [Addr -> Int] /\ Int32Limit \in Nat \ {0}
        /\ \A a \in Addr : Delta(a) \in Int
    BY HostAssumption DEF Fresh, Delta, HostTypeOK
  <2>2. lo \in Int /\ hi \in Int /\ -lo \in Int /\ -hi \in Int
    BY <2>1
  <2> DEFINE M == {a \in Fresh : -hi <= Delta(a) /\ Delta(a) <= -lo}
  <2>3. ASSUME NEW a \in Agreeing(lo, hi) PROVE a \in M
    <3>1. a \in Fresh /\ a \in Addr /\ ahead[a] \in Int /\ lo <= ahead[a] /\ ahead[a] <= hi
      BY <2>1
    <3>2. /\ 0 - ahead[a] \in Int /\ -Int32Limit <= 0 - ahead[a] /\ 0 - ahead[a] < Int32Limit
          /\ -hi <= 0 - ahead[a] /\ 0 - ahead[a] <= -lo
      BY <2>1, <2>2, <3>1
    <3>3. Delta(a) = 0 - ahead[a]
      BY <3>1, <3>2, Int32Keeps DEF DeltasTold
    <3> QED BY <3>1, <3>2, <3>3
  <2>4. IsFiniteSet(Fresh) /\ Cardinality(Fresh) \in Nat
    BY <2>1, HostAssumption, FS_Subset, FS_CardinalityType
  <2>5. 2 * Cardinality(M) > Cardinality(Fresh)
    <3>1. M \in SUBSET Fresh /\ Agreeing(lo, hi) \in SUBSET M
      BY <2>3
    <3>2. 2 * Cardinality(Agreeing(lo, hi)) > Cardinality(Fresh)
      OBVIOUS
    <3> HIDE DEF M, Agreeing
    <3>3. /\ IsFiniteSet(M) /\ Cardinality(M) \in Nat
          /\ Cardinality(Agreeing(lo, hi)) \in Nat /\ Cardinality(Agreeing(lo, hi)) <= Cardinality(M)
      <4>1. IsFiniteSet(M)
        BY <2>4, <3>1, FS_Subset
      <4> QED BY <3>1, <4>1, FS_Subset, FS_CardinalityType
    <3> QED BY <2>4, <3>2, <3>3
  <2>6. -Int32Limit <= 2 * (-hi) /\ 2 * (-lo) < Int32Limit
    BY <2>1, <2>2
  <2> QED BY <2>2, <2>5, <2>6, MiddleOfDeltas
<1> QED BY <1>1, HostInvKept, PTL

===============================================================================
