------------------------------- MODULE ChainSync -------------------------------
(***************************************************************************)
(* How a node follows its peers: startChainSync of                         *)
(* src/c++/src/server/blockchain.cpp over the header chains of module      *)
(* HeaderChain and the chain of module ChainCore.                          *)
(*                                                                         *)
(* A round asks the host manager for the best peer, then for the best      *)
(* length, then for the best work, then for one hash after the other;      *)
(* between two questions the threads of the header chains go on.  The      *)
(* chain's lock is held from the first question to the end of the round,   *)
(* so submitted blocks come between rounds only.  A question is one step   *)
(* here, though the code asks each peer's chain in turn.                   *)
(***************************************************************************)
EXTENDS ChainCore, HeaderChain

CONSTANTS Peers,          \* currPeers, a sequence
          PerBlockFetch,  \* BLOCKS_PER_FETCH
          SpecialBlocks,  \* id -> block: special.json
          Now,            \* network time
          MaxSubmits,     \* bound: blocks handed in
          MaxRestarts     \* bound: restarts

ASSUME ChainSyncAssumption ==
  /\ Peers \in Seq(Host) /\ Peers # <<>> /\ PerBlockFetch \in Nat \ {0}
  /\ {Now, MaxSubmits, MaxRestarts} \subseteq Nat
  /\ \A id \in DOMAIN SpecialBlocks : SpecialBlocks[id] \in Block

VARIABLES chain,   \* the BlockChain object
          sync,    \* startChainSync's place and locals
          before,  \* history: the chain when the round began
          calm,    \* history: what peers have and what is known of them agreed
                   \* when the round began and has not changed
          count    \* submits and restarts so far
nodeVars == <<chain, sync, before, calm, count>>
vars == <<headerVars, nodeVars>>

NoRound == [pc |-> "sleep", status |-> "SUCCESS", best |-> Peers[1], target |-> 1,
            next |-> 1, toPop |-> 0, blocks |-> <<>>]

Init ==
  /\ HeaderInit
  /\ chain = ResetChain /\ before = chain /\ calm = FALSE
  /\ sync = NoRound
  /\ count = [submits |-> 0, restarts |-> 0]

-------------------------------------------------------------------------------
(* The host manager's answers: getGoodHost, getBlockCount, getTotalWork,   *)
(* getBlockHash.                                                           *)

BestWork == Max({GetTotalWork(Peers[i]) : i \in DOMAIN Peers})

\* The first of the peers with the most work.
GoodHost == Peers[Min({i \in DOMAIN Peers : GetTotalWork(Peers[i]) = BestWork})]

\* getBlockHash: of the peer named, if it is one.
GetBlockHash(h, blockId) == IF h \in ToSet(Peers) THEN GetHash(h, blockId) ELSE NullHash

BlockCount == IF BestWork = 0 THEN 0 ELSE GetChainLength(GoodHost)

-------------------------------------------------------------------------------
(* startChainSync                                                          *)

Round(new) == sync' = new
\* The rest of a step; the histories end with the round.
Stay ==
  /\ UNCHANGED <<headerVars, count>>
  /\ IF sync'.pc = "sleep" THEN before' = chain' /\ calm' = FALSE ELSE UNCHANGED <<before, calm>>

KnownOfPeers == [h \in Host |-> <<GetTotalWork(h), GetChainLength(h)>>]
Agreed == \A h \in Host : headers[h].pc = "sleep" /\ IsPrefix(headers[h].hashes, peer[h].blocks)

SyncBegin ==
  /\ sync.pc = "sleep"
  /\ Round([NoRound EXCEPT !.pc = "target", !.best = GoodHost])
  /\ before' = chain /\ calm' = Agreed
  /\ UNCHANGED <<headerVars, chain, count>>

SyncTarget ==
  /\ sync.pc = "target"
  /\ Round([sync EXCEPT !.pc = "work", !.target = BlockCount])
  /\ UNCHANGED chain /\ Stay

Download(s, c) == [s EXCEPT !.pc = "fetch", !.next = c.numBlocks + 1]

\* Mutant: the chain is compared whether or not the peers' work is more.
SyncWorkAnyway ==
  /\ sync.pc = "work"
  /\ Round([sync EXCEPT !.pc = "compare", !.next = 1])
  /\ UNCHANGED chain /\ Stay

SyncWork ==
  /\ sync.pc = "work"
  /\ Round(IF BestWork > chain.totalWork THEN [sync EXCEPT !.pc = "compare", !.next = 1]
                                         ELSE Download(sync, chain))
  /\ UNCHANGED chain /\ Stay

\* The first block whose hash is not the trusted one, and all after it, go.
SyncCompare ==
  /\ sync.pc = "compare"
  /\ Round(IF sync.next > chain.numBlocks THEN [sync EXCEPT !.pc = "pop"]
           ELSE IF GetBlockHash(sync.best, sync.next) # chain.blocks[sync.next]
                THEN [sync EXCEPT !.pc = "pop", !.toPop = chain.numBlocks - sync.next + 1]
                ELSE [sync EXCEPT !.next = @ + 1])
  /\ UNCHANGED chain /\ Stay

\* Mutant: one block too many is removed.
SyncPopMore ==
  /\ sync.pc = "pop"
  /\ IF sync.toPop > 0 /\ chain.numBlocks # 1
     THEN /\ chain' = IF sync.toPop = 1 /\ chain.numBlocks > 2
                      THEN PopBlock(PopBlock(chain)) ELSE PopBlock(chain)
          /\ Round([sync EXCEPT !.toPop = @ - 1])
     ELSE Round(Download(sync, chain)) /\ UNCHANGED chain
  /\ Stay

SyncPop ==
  /\ sync.pc = "pop"
  /\ IF sync.toPop > 0 /\ chain.numBlocks # 1
     THEN chain' = PopBlock(chain) /\ Round([sync EXCEPT !.toPop = @ - 1])
     ELSE Round(Download(sync, chain)) /\ UNCHANGED chain
  /\ Stay

Ended(status) == [NoRound EXCEPT !.status = status]

\* Mutant: a single last block is not downloaded.
SyncFetchShort ==
  LET p == peer[sync.best]
      end == Min({sync.target, sync.next + PerBlockFetch - 1, Len(p.blocks)})
  IN  /\ sync.pc = "fetch"
      /\ Round(IF sync.next >= sync.target THEN Ended("SUCCESS")
               ELSE IF p.up /\ sync.next <= end
                    THEN [sync EXCEPT !.pc = "add", !.blocks = SubSeq(p.blocks, sync.next, end)]
                    ELSE Ended("UNKNOWN_ERROR"))
      /\ UNCHANGED chain /\ Stay

\* readRawBlocks, from the chain the best peer has now.  Where it has nothing to
\* give, the answer cannot be read as a block.
SyncFetch ==
  LET p == peer[sync.best]
      end == Min({sync.target, sync.next + PerBlockFetch - 1, Len(p.blocks)})
  IN  /\ sync.pc = "fetch"
      /\ Round(IF sync.next > sync.target THEN Ended("SUCCESS")
               ELSE IF p.up /\ sync.next <= end
                    THEN [sync EXCEPT !.pc = "add", !.blocks = SubSeq(p.blocks, sync.next, end)]
                    ELSE Ended("UNKNOWN_ERROR"))
      /\ UNCHANGED chain /\ Stay

Special(b) ==
  IF BlockBody[b].id \in DOMAIN SpecialBlocks THEN SpecialBlocks[BlockBody[b].id] ELSE b

SyncAdd ==
  /\ sync.pc = "add"
  /\ IF sync.blocks = <<>>
     THEN Round([sync EXCEPT !.pc = "fetch", !.next = @ + PerBlockFetch]) /\ UNCHANGED chain
     ELSE LET added == AddBlock(chain, Special(Head(sync.blocks)), Now)
          IN  /\ chain' = added.chain
              /\ Round(IF added.status = "SUCCESS" THEN [sync EXCEPT !.blocks = Tail(@)]
                                                   ELSE Ended(added.status))
  /\ Stay

SyncStep ==
  SyncBegin \/ SyncTarget \/ SyncWork \/ SyncCompare \/ SyncPop \/ SyncFetch \/ SyncAdd

-------------------------------------------------------------------------------
(* The rest of the node, and the peers.                                    *)

\* submitProofOfWork, under the chain's lock.
Submit(b) ==
  /\ sync.pc = "sleep" /\ BlockBody[b].id > chain.numBlocks
  /\ count.submits < MaxSubmits /\ count' = [count EXCEPT !.submits = @ + 1]
  /\ chain' = AddBlock(chain, b, Now).chain /\ before' = chain'
  /\ UNCHANGED <<headerVars, sync, calm>>

\* The process ends and starts: the headers are read again from the first.
Restart ==
  /\ count.restarts < MaxRestarts /\ count' = [count EXCEPT !.restarts = @ + 1]
  /\ chain' = InitChain(chain) /\ before' = chain' /\ sync' = NoRound /\ calm' = FALSE
  /\ headers' = [h \in Host |-> Empty]
  /\ UNCHANGED <<peer, changes>>

HeadersMove(h) ==
  /\ LoadStep(h)
  /\ calm' = (calm /\ KnownOfPeers' = KnownOfPeers)
  /\ UNCHANGED <<chain, sync, before, count>>

PeerMoves(h) == PeerChanges(h) /\ calm' = FALSE /\ UNCHANGED <<chain, sync, before, count>>

Next ==
  \/ SyncStep \/ Restart \/ \E b \in Block : Submit(b)
  \/ \E h \in Host : HeadersMove(h) \/ PeerMoves(h)
Spec == Init /\ [][Next]_vars

\* Every header chain's thread and the thread of chain_sync go on for ever; each
\* sleeps ten seconds between its rounds.
Fairness ==
  /\ WF_vars(SyncStep)
  /\ \A h \in Host : WF_vars(HeadersMove(h))
LiveSpec == Spec /\ Fairness

-------------------------------------------------------------------------------
InRound == sync.pc # "sleep"

\* When what is known of the peers is right and stays so, a round removes no block
\* that the trusted peer's chain has up to there: the hash that GetHash never gives
\* out, the last one, makes no difference.
KeepsTrusted ==
  calm /\ InRound =>
    \A i \in 1 .. before.numBlocks :
      LET trusted == headers[sync.best].hashes
          Shared(j) == j <= Len(trusted) /\ before.blocks[j] = trusted[j]
      IN  (\A j \in 1 .. i : Shared(j)) => i <= chain.numBlocks /\ chain.blocks[i] = trusted[i]

\* Such a round, when it succeeds and is not cut off by a restart, leaves the node
\* with no less work than it had, and with the trusted peer's when that was more.
RoundGains ==
  [][/\ InRound /\ sync'.pc = "sleep" /\ sync'.status = "SUCCESS" /\ calm
     /\ count'.restarts = count.restarts
     => /\ chain'.totalWork >= before.totalWork
        /\ chain'.totalWork >= GetTotalWork(sync.best)]_vars

\* The difficulty that popBlock and initChain set at the end of a period is the
\* last block's, not the next one's.
DifficultyForgotten == AtRetarget(chain.numBlocks) /\ chain.difficulty # UpdateDifficulty(chain)

\* A header chain that is not its peer's and no shorter reads nothing from it.
Outdated(h) == Len(headers[h].hashes) >= Len(peer[h].blocks) /\ headers[h].hashes # peer[h].blocks

OnChain(c) == chain.numBlocks = Len(c) /\ \A i \in DOMAIN c : chain.blocks[i] = c[i]

\* When every peer stays with the same good chain, the node comes to have it or
\* one with as much work, unless it forgot the difficulty of the next block (no
\* block is then accepted any more) or headers are outdated.
NodeFollows ==
  \A c \in PeerChains :
    /\ Valid(c) /\ \A i \in DOMAIN c : BlockBody[c[i]].rootOk
    /\ <>[](\A h \in Host : peer[h] = [blocks |-> c, up |-> TRUE])
    => <>[](\/ OnChain(c) \/ chain.totalWork >= WorkOf(c)
            \/ DifficultyForgotten \/ \E h \in Host : Outdated(h))

===============================================================================
