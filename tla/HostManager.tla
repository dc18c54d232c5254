------------------------------ MODULE HostManager ------------------------------
(***************************************************************************)
(* The hosts a node knows: src/c++/src/core/host_manager.cpp.              *)
(*                                                                         *)
(* Hosts come from the lists of the host sources when the node starts and  *)
(* from add_peer requests, which each host sends again every five minutes. *)
(* A request is handled in steps, because the host is asked for its name   *)
(* between the look into the list and the insertion; `Handler' is how many *)
(* requests are handled at once (the server around it is not in the        *)
(* repository; with one handler they come one by one).                     *)
(*                                                                         *)
(* Time is a count of ping periods.  The node's own clock is right; host   *)
(* a's is `Offset[a]' ahead of it.  Differences of clocks are stored and   *)
(* added as int32_t, whose overflow is taken to wrap, as the processor's   *)
(* addition does.                                                          *)
(***************************************************************************)
EXTENDS Integers, Sequences, FiniteSets, SequencesExt

CONSTANTS Addr,          \* hosts
          Regular,       \* those that never miss a ping period
          Offset,        \* host -> how far its clock is ahead
          Blacklist, Whitelist,
          Forwarder,     \* hosts that send on the requests of others
          Handler,       \* request threads
          Freshness,     \* HOST_MIN_FRESHNESS
          PingPeriod,    \* a regular host's requests are never further apart
          MaxPeers,      \* RANDOM_GOOD_HOST_COUNT
          Int32Limit,    \* 2^31: int32_t is from -Int32Limit on and below Int32Limit
          MaxTime        \* bound: the last time

ASSUME HostAssumption ==
  /\ IsFiniteSet(Addr) /\ Regular \subseteq Addr /\ Forwarder \subseteq Addr
  /\ \A a \in Addr : Offset[a] \in Int
  /\ IsFiniteSet(Handler) /\ Handler # {}
  /\ Freshness \in Nat /\ PingPeriod \in Nat /\ PingPeriod < Freshness
  /\ MaxPeers \in Nat /\ MaxTime \in Nat /\ Int32Limit \in Nat \ {0}

VARIABLES hosts,      \* the list of hosts
          pingTime,   \* hostPingTimes
          delta,      \* peerClockDeltas
          currPeers,  \* the hosts that have a header chain
          handler,    \* the requests being handled
          hostNow,
          ahead,      \* history: how far ahead the time was that a host's delta is of
          heard       \* history: how many of a host's own requests ended with the
                      \* host in the list, two at most, and when the last one did
hostVars == <<hosts, pingTime, delta, currPeers, handler, hostNow, ahead, heard>>

Allowed(a) == Whitelist = {} \/ a \in Whitelist
IdleHandler == [pc |-> "idle"]
Remember(f, a, v) == [x \in DOMAIN f \cup {a} |-> IF x = a THEN v ELSE f[x]]

-------------------------------------------------------------------------------
(* What is fresh, and what is read from it.                                *)

\* Mutant: a host is fresh one period too few.
FreshShort == {a \in DOMAIN pingTime : hostNow - pingTime[a] < Freshness - 2}

\* sampleFreshHosts and getHosts
Fresh == {a \in DOMAIN pingTime : hostNow - pingTime[a] < Freshness}

\* A host that was on a source's list has a ping time before it has a delta; the
\* map then gives 0.
Delta(a) == IF a \in DOMAIN delta THEN delta[a] ELSE 0

\* The conversion to int32_t, and what its addition gives.
Int32(x) == ((x + Int32Limit) % (2 * Int32Limit)) - Int32Limit

\* The division of C++ goes towards zero.
Half(x) == IF x < 0 THEN -((-x) \div 2) ELSE x \div 2

\* The deltas of the fresh hosts, the least first.
Ascends(order) == \A i, j \in DOMAIN order : i <= j => Delta(order[i]) <= Delta(order[j])
SortedDeltas ==
  LET order == CHOOSE s \in SetToSeqs(Fresh) : Ascends(s)
  IN  [i \in DOMAIN order |-> Delta(order[i])]

\* getNetworkTimestamp
NetworkTimestamp ==
  LET d == SortedDeltas
      m == Len(d) \div 2
  IN  IF d = <<>> THEN hostNow
      ELSE IF Len(d) % 2 = 0 THEN hostNow + Half(Int32(d[m + 1] + d[m]))
      ELSE hostNow + d[m + 1]

-------------------------------------------------------------------------------
(* The start: refreshHostList asks every listed host for its name,         *)
(* syncHeadersWithPeers takes a sample of those that answered.             *)

\* sampleAllHosts
Samples(list) ==
  {s \in SUBSET ToSet(list) :
     Cardinality(s) = IF Len(list) < MaxPeers THEN Len(list) ELSE MaxPeers}

HostInit ==
  /\ \E answered \in SUBSET {a \in Addr \ Blacklist : Allowed(a)} :
       /\ hosts \in SetToAllKPermutations(answered) /\ Len(hosts) = Cardinality(answered)
       /\ pingTime = [a \in answered |-> 0]
  /\ \E sample \in Samples(hosts) : currPeers = SetToSeq(sample)
  /\ delta = <<>> /\ hostNow = 0
  /\ handler = [t \in Handler |-> IdleHandler]
  /\ ahead = [a \in Addr |-> 0]
  /\ heard = [a \in Addr |-> [times |-> 0, at |-> 0]]

-------------------------------------------------------------------------------
(* addPeer                                                                 *)

Heard(t) ==
  LET a == handler[t].addr
  IN  heard' = IF handler[t].by # a THEN heard
               ELSE [heard EXCEPT ![a] = [times |-> IF @.times = 0 THEN 1 ELSE 2, at |-> hostNow]]
Answer(t) == handler' = [handler EXCEPT ![t] = IdleHandler]

\* A request for a, of a itself, one after the other, or sent on by another host,
\* with the sender's time.  (One of another version is dropped.)
AddPeer(t, a, by) ==
  /\ handler[t] = IdleHandler
  /\ by = a => \A u \in Handler : handler[u] # IdleHandler => handler[u].addr # a \/ handler[u].by # a
  /\ handler' = [handler EXCEPT ![t] =
                   [pc |-> "find", addr |-> a, by |-> by, time |-> hostNow + Offset[by]]]
  /\ UNCHANGED <<hosts, pingTime, delta, currPeers, hostNow, ahead, heard>>

\* Mutant: the list is not looked into.
FindHostAnew(t) ==
  LET a == handler[t].addr
  IN  /\ handler[t].pc = "find"
      /\ IF a \in Blacklist THEN Answer(t) /\ UNCHANGED <<pingTime, delta, ahead, heard>>
         ELSE /\ handler' = [handler EXCEPT ![t] = [pc |-> "reach", addr |-> a, by |-> @.by]]
              /\ IF a \notin ToSet(hosts) THEN UNCHANGED <<pingTime, delta, ahead, heard>>
                 ELSE /\ pingTime' = Remember(pingTime, a, hostNow)
                      /\ delta' = Remember(delta, a, Int32(hostNow - handler[t].time))
                      /\ ahead' = [ahead EXCEPT ![a] = handler[t].time - hostNow]
                      /\ Heard(t)
      /\ UNCHANGED <<hosts, currPeers, hostNow>>

\* Mutant: the difference is taken the other way round.
FindHostAhead(t) ==
  LET a == handler[t].addr
  IN  /\ handler[t].pc = "find"
      /\ IF a \in Blacklist THEN Answer(t) /\ UNCHANGED <<pingTime, delta, ahead, heard>>
         ELSE IF a \in ToSet(hosts)
         THEN /\ pingTime' = Remember(pingTime, a, hostNow)
              /\ delta' = Remember(delta, a, Int32(handler[t].time - hostNow))
              /\ ahead' = [ahead EXCEPT ![a] = handler[t].time - hostNow]
              /\ Heard(t) /\ Answer(t)
         ELSE /\ handler' = [handler EXCEPT ![t] = [pc |-> "reach", addr |-> a, by |-> @.by]]
              /\ UNCHANGED <<pingTime, delta, ahead, heard>>
      /\ UNCHANGED <<hosts, currPeers, hostNow>>

\* A host of the list is remembered as pinging, with how far its clock is behind: the
\* node's time less the host's, cut to int32_t.
FindHost(t) ==
  LET a == handler[t].addr
  IN  /\ handler[t].pc = "find"
      /\ IF a \in Blacklist THEN Answer(t) /\ UNCHANGED <<pingTime, delta, ahead, heard>>
         ELSE IF a \in ToSet(hosts)
         THEN /\ pingTime' = Remember(pingTime, a, hostNow)
              /\ delta' = Remember(delta, a, Int32(hostNow - handler[t].time))
              /\ ahead' = [ahead EXCEPT ![a] = handler[t].time - hostNow]
              /\ Heard(t) /\ Answer(t)
         ELSE /\ handler' = [handler EXCEPT ![t] = [pc |-> "reach", addr |-> a, by |-> @.by]]
              /\ UNCHANGED <<pingTime, delta, ahead, heard>>
      /\ UNCHANGED <<hosts, currPeers, hostNow>>

\* Any other is asked for its name, then put into the list, but not taken for fresh.
ReachHost(t) ==
  LET a == handler[t].addr
  IN  /\ handler[t].pc = "reach"
      /\ \/ Answer(t) /\ UNCHANGED <<hosts, heard>>
         \/ /\ Allowed(a)
            /\ hosts' = Append(hosts, a) /\ Heard(t)
            /\ handler' = [handler EXCEPT ![t].pc = "peer"]
      /\ UNCHANGED <<pingTime, delta, currPeers, hostNow, ahead>>

\* The number of peers is read before the lock is taken.
CountPeers(t) ==
  /\ handler[t].pc = "peer"
  /\ IF Len(currPeers) < MaxPeers THEN handler' = [handler EXCEPT ![t].pc = "track"] ELSE Answer(t)
  /\ UNCHANGED <<hosts, pingTime, delta, currPeers, hostNow, ahead, heard>>

TrackPeer(t) ==
  /\ handler[t].pc = "track"
  /\ currPeers' = Append(currPeers, handler[t].addr)
  /\ Answer(t)
  /\ UNCHANGED <<hosts, pingTime, delta, hostNow, ahead, heard>>

\* Time passes, while every regular host that was heard twice pings again in time.
PeriodPasses ==
  /\ hostNow < MaxTime /\ hostNow' = hostNow + 1
  /\ \A a \in Regular : heard[a].times = 2 => hostNow - heard[a].at < PingPeriod
  /\ UNCHANGED <<hosts, pingTime, delta, currPeers, handler, ahead, heard>>

HostNext ==
  \/ \E t \in Handler : \/ \E a \in Addr : \E by \in Forwarder \cup {a} : AddPeer(t, a, by)
                        \/ FindHost(t) \/ ReachHost(t) \/ CountPeers(t) \/ TrackPeer(t)
  \/ PeriodPasses
HostSpec == HostInit /\ [][HostNext]_hostVars

-------------------------------------------------------------------------------
Times(list, a) == Cardinality({i \in DOMAIN list : list[i] = a})

\* Looking a host up and inserting it are apart, counting the peers and adding one
\* too: each goes wrong by the requests handled at once, less one, and no more.
\* With one handler the hosts are distinct and the peers never too many.
RacesBounded ==
  LET more == Cardinality(DOMAIN handler) - 1
  IN  /\ \A a \in ToSet(hosts) : Times(hosts, a) <= 1 + more
      /\ Len(currPeers) <= MaxPeers + more
      /\ \A a \in ToSet(currPeers) : Times(currPeers, a) <= Times(hosts, a)

\* A host that was heard twice and goes on pinging in time is always fresh: it is
\* among the hosts that others are told of, that blocks are sent to and whose clocks
\* count.  Once is not enough.
KeepsPingers == \A a \in Regular : heard[a].times = 2 => a \in Fresh

\* The network's time mirrors the clocks of the majority: when more than half of the
\* fresh hosts gave times that were ahead of the node's by an amount between two bounds
\* (0 for one that gave none), it is behind the node's time by such an amount, however
\* the others' clocks are and whatever became of them as int32_t.  It takes a majority
\* within half of what int32_t holds, for two of its deltas to be added.
NetworkTimeMirrored ==
  LET d == NetworkTimestamp - hostNow
      fresh == Fresh
  IN  \A lo, hi \in {ahead[a] : a \in fresh} :
        /\ -Int32Limit < 2 * lo /\ 2 * hi <= Int32Limit
        /\ 2 * Cardinality({a \in fresh : lo <= ahead[a] /\ ahead[a] <= hi}) > Cardinality(fresh)
        => -hi <= d /\ d <= -lo

===============================================================================
