----------------------------- MODULE PayoutLedger -----------------------------
(***************************************************************************)
(* What the pool promises about the payments of a round, without its       *)
(* processes, mailboxes and crashes: a row (a round and an address) is     *)
(* given at most one transaction, for good; and only such a transaction is *)
(* sent to the network.                                                    *)
(*                                                                         *)
(* PoolRounds implements this with the transactions of the committed       *)
(* database for `saved' and what its tasks broadcast for `sent'.           *)
(***************************************************************************)
EXTENDS Naturals

CONSTANTS Rounds, Addresses

VARIABLES saved,   \* the transaction of each row, 0 while it has none
          sent     \* the transactions sent, <<round, address, transaction>>
vars == <<saved, sent>>

Init == /\ saved = [r \in Rounds |-> [a \in Addresses |-> 0]]
        /\ sent = {}

\* Rows get their transactions, any number of rows at once.
Save == /\ saved' \in [Rounds -> [Addresses -> Nat]]
        /\ \A r \in Rounds, a \in Addresses :
             saved[r][a] # 0 => saved'[r][a] = saved[r][a]
        /\ UNCHANGED sent

\* Saved transactions are sent, possibly again.
Send == /\ sent \subseteq sent'
        /\ \A t \in sent' \ sent :
             /\ t \in Rounds \X Addresses \X Nat
             /\ t[3] # 0 /\ t[3] = saved[t[1]][t[2]]
        /\ UNCHANGED saved

Next == Save \/ Send

Spec == Init /\ [][Next]_vars

(* What follows for the miners: every transaction sent is the one saved    *)
(* for its row, so no row is ever paid by two different transactions.      *)
SentIsSaved ==
  \A t \in sent : /\ t \in Rounds \X Addresses \X Nat
                  /\ t[3] # 0 /\ t[3] = saved[t[1]][t[2]]
NeverTwice ==
  \A t, u \in sent : (t[1] = u[1] /\ t[2] = u[2]) => t = u
================================================================================
