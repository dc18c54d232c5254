------------------------------ MODULE RateLimiter ------------------------------
(***************************************************************************)
(* src/c++/src/server/rate_limiter.cpp and acceptRequest of                *)
(* request_manager.cpp: each address has a time point; a request is        *)
(* refused while that is in the future, else it moves on by a share of the *)
(* period.                                                                 *)
(*                                                                         *)
(* limit() takes no lock.  `Caller' is the threads that may be in it at    *)
(* once (the server around it is not in the repository); a step ends where *)
(* the map is read or written.  What moves on is the time point that was   *)
(* compared, as a compiler may keep it.  The map itself is taken to survive*)
(* insertions at the same time.                                            *)
(*                                                                         *)
(* Time is in ticks of the clock; the share is a whole number of seconds,  *)
(* because it is a quotient of std::chrono::seconds.                       *)
(***************************************************************************)
EXTENDS Integers

CONSTANTS Key,      \* addresses
          Caller,   \* threads that ask
          N,        \* requests ...
          Seconds,  \* ... over this period
          Second,   \* ticks of steady_clock
          MaxNow    \* bound: the last time

ASSUME RateLimiterAssumption ==
  N \in Nat \ {0} /\ Seconds \in Nat /\ Second \in Nat \ {0} /\ MaxNow \in Nat

Period == Seconds * Second

\* std::chrono::seconds(seconds) / N
Share == (Seconds \div N) * Second

VARIABLES now,       \* steady_clock
          point,     \* the time point of each address that has one
          limited,   \* limitRequests
          caller,    \* where each thread is, with what it has read
          accepted,  \* history: requests of each address that were accepted
          undone,    \* history: those whose move the write of another one undid
          since      \* history: when its first one asked
rateVars == <<now, point, limited, caller, accepted, undone, since>>

NoCall == [pc |-> "idle"]

RateInit ==
  /\ now = 0 /\ limited = TRUE /\ caller = [t \in Caller |-> NoCall]
  /\ point = [k \in {} |-> 0] /\ accepted = [k \in {} |-> 0]
  /\ undone = [k \in {} |-> 0] /\ since = [k \in {} |-> 0]

SetAt(f, k, v) == [x \in DOMAIN f \cup {k} |-> IF x = k THEN v ELSE f[x]]
Later(a, b) == IF a < b THEN b ELSE a
Return(t) == caller' = [caller EXCEPT ![t] = NoCall]

\* acceptRequest, and limit's search for the address.
LookUp(t, k) ==
  /\ limited /\ caller[t] = NoCall
  /\ caller' = [caller EXCEPT ![t] =
       [pc |-> IF k \in DOMAIN point THEN "compare" ELSE "insert", key |-> k, at |-> now]]
  /\ UNCHANGED <<now, point, limited, accepted, undone, since>>

\* emplace leaves an address alone that another thread has put in.
Insert(t) ==
  LET c == caller[t]
      k == c.key
  IN  /\ c.pc = "insert" /\ Return(t)
      /\ IF k \in DOMAIN point
         THEN /\ accepted' = [accepted EXCEPT ![k] = @ + 1]
              /\ undone' = [undone EXCEPT ![k] = @ + 1]
              /\ UNCHANGED <<point, since>>
         ELSE /\ point' = SetAt(point, k, c.at - Period + Share)
              /\ accepted' = SetAt(accepted, k, 1) /\ undone' = SetAt(undone, k, 0)
              /\ since' = SetAt(since, k, c.at)
      /\ UNCHANGED <<now, limited>>

\* `seen' is a history: what was accepted when the time point was read.
Compare(t) ==
  LET c == caller[t]
      k == c.key
  IN  /\ c.pc = "compare"
      /\ IF point[k] > c.at THEN Return(t)
         ELSE caller' = [caller EXCEPT ![t] =
                [pc |-> "move", key |-> k, at |-> c.at, read |-> point[k], seen |-> accepted[k]]]
      /\ UNCHANGED <<now, point, limited, accepted, undone, since>>

\* Mutant: the time point does not move on.
MoveStanding(t) ==
  LET c == caller[t]
      k == c.key
  IN  /\ c.pc = "move" /\ Return(t)
      /\ point' = [point EXCEPT ![k] = Later(c.at - Period, c.read)]
      /\ accepted' = [accepted EXCEPT ![k] = @ + 1]
      /\ undone' = [undone EXCEPT ![k] = @ + (accepted[k] - c.seen)]
      /\ UNCHANGED <<now, limited, since>>

\* What others have moved since is overwritten.
Move(t) ==
  LET c == caller[t]
      k == c.key
  IN  /\ c.pc = "move" /\ Return(t)
      /\ point' = [point EXCEPT ![k] = Later(c.at - Period, c.read) + Share]
      /\ accepted' = [accepted EXCEPT ![k] = @ + 1]
      /\ undone' = [undone EXCEPT ![k] = @ + (accepted[k] - c.seen)]
      /\ UNCHANGED <<now, limited, since>>

\* acceptRequest without a limit, and enableRateLimiting.
Unlimited == ~limited /\ UNCHANGED rateVars
EnableRateLimiting(on) ==
  limited' = on /\ UNCHANGED <<now, point, caller, accepted, undone, since>>

Tick ==
  /\ now < MaxNow /\ now' = now + 1
  /\ UNCHANGED <<point, limited, caller, accepted, undone, since>>

RateNext ==
  \/ \E t \in Caller : (\E k \in Key : LookUp(t, k)) \/ Insert(t) \/ Compare(t) \/ Move(t)
  \/ Unlimited \/ (\E on \in BOOLEAN : EnableRateLimiting(on)) \/ Tick
RateSpec == RateInit /\ [][RateNext]_rateVars

-------------------------------------------------------------------------------
CallStates ==
  {NoCall} \cup [pc : {"insert", "compare"}, key : Key, at : Nat]
    \cup [pc : {"move"}, key : Key, at : Nat, read : Int, seen : Nat]

RateTypeOK ==
  /\ now \in Nat /\ limited \in BOOLEAN /\ caller \in [Caller -> CallStates]
  /\ DOMAIN point \subseteq Key /\ DOMAIN accepted = DOMAIN point
  /\ DOMAIN undone = DOMAIN point /\ DOMAIN since = DOMAIN point
  /\ \A k \in DOMAIN point :
       point[k] \in Int /\ accepted[k] \in Nat /\ undone[k] \in Nat /\ since[k] \in Nat

\* However the requests of an address come, what was accepted since the first of
\* them is bounded by the time that passed and one period more: with a share of
\* Period/N that is N and one at once, and N more in every further period.  That is
\* but for the moves that were undone, which are none when requests come one by one;
\* nothing bounds those of a thread that is late with its write.
RateBounded ==
  \A k \in DOMAIN point : (accepted[k] - undone[k]) * Share <= (now - since[k]) + Period + Share

\* A refused address waits for one share at most.
RefusedBriefly == \A k \in DOMAIN point : point[k] <= now + Share

\* "max of 30 requests over 5 sec period" (request_manager.cpp:15), of one address
\* in the first period.
MaxOverPeriod == \A k \in DOMAIN point : now - since[k] < Period => accepted[k] <= N

\* With more requests than seconds the share is nothing, and who asks now is not refused.
NeverRefuses == N > Seconds => \A k \in DOMAIN point : point[k] <= now

===============================================================================
