--------------------------- MODULE ShareCreditProofs --------------------------
(***************************************************************************)
(* Proofs about ShareCredit for every value of its constants: a share      *)
(* counts once (CreditInv), Mining's hash is the backend's block           *)
(* (BlockInv), a connection counts what the database credits it with       *)
(* (AcceptedInv), and no miner is left on old work (WorkInv).              *)
(***************************************************************************)
EXTENDS ShareCredit, FiniteSetTheorems, TLAPS

-------------------------------------------------------------------------------
(* Types of the connections and their mailboxes.                           *)

(* A closed connection has the type of connections.                        *)
LEMMA ClosedType ==
  ASSUME NEW k \in ConnState
  PROVE  Closed(k) \in ConnState
  BY DEF Closed, ConnState, NewConn, NoOut, NoPow, Out, Hashes, ConnPcs, Credited, Submitting

(* Forgetting the locals of a submission keeps the type.                   *)
LEMMA ForgetType ==
  ASSUME NEW k \in ConnState, NEW pc \in ConnPcs
  PROVE  Forget(k, pc) \in ConnState /\ Forget(k, pc).pc = pc
  BY DEF Forget, ConnState, NoOut, NoPow, Out, Hashes

(* A process that ends leaves a typed connection and an empty mailbox.     *)
LEMMA CloseType ==
  ASSUME TypeOK, NEW c \in Conns, Close(c)
  PROVE  conn' \in [Conns -> ConnState] /\ inbox' \in [Conns -> Seq(Mail)]
<1>1. Closed(conn[c]) \in ConnState
  BY ClosedType DEF TypeOK
<1> QED
  BY <1>1 DEF Close, TypeOK

(* Casting to the registered connections keeps the mailboxes' type.        *)
LEMMA CastAllType ==
  ASSUME TypeOK, NEW mail \in Mail, CastAll(mail)
  PROVE  inbox' \in [Conns -> Seq(Mail)]
<1>1. \A c \in Conns : inbox[c] \in Seq(Mail) /\ Append(inbox[c], mail) \in Seq(Mail)
  BY DEF TypeOK
<1> QED
  BY <1>1 DEF CastAll

(* Dispatched work and the order to close are mail.                        *)
LEMMA MailType ==
  /\ \A h \in Hashes : [type |-> "work", hash |-> h] \in Mail
  /\ [type |-> "close", hash |-> Nil] \in Mail
  BY DEF Mail, Hashes

(* What a finished backend thread leaves is a typed block.                 *)
LEMMA WrittenType ==
  ASSUME backend \in BackendState
  PROVE  Written \in BackendState
  BY DEF Written, BackendState

(* A changed program counter keeps the type of a connection.               *)
LEMMA StepType ==
  ASSUME TypeOK, NEW c \in Conns, NEW from, NEW to \in ConnPcs, Step(c, from, to)
  PROVE  conn' \in [Conns -> ConnState]
<1>1. [conn[c] EXCEPT !.pc = to] \in ConnState
  BY DEF TypeOK, ConnState
<1>2. conn' = [conn EXCEPT ![c] = [conn[c] EXCEPT !.pc = to]]
  BY DEF Step, TypeOK
<1> QED
  BY <1>1, <1>2 DEF TypeOK

(* A failing Mining leaves typed connections and mailboxes.                *)
LEMMA MiningDownType ==
  ASSUME TypeOK, MiningDown
  PROVE  /\ mining' \in MiningState /\ calls' = {} /\ txdata' = 0
         /\ conn' \in [Conns -> ConnState] /\ inbox' \in [Conns -> Seq(Mail)]
<1>1. \A c \in Conns : conn[c] \in ConnState /\ Closed(conn[c]) \in ConnState
  BY ClosedType DEF TypeOK
<1>2. conn' \in [Conns -> ConnState]
  BY <1>1 DEF MiningDown
<1>3. inbox' \in [Conns -> Seq(Mail)]
  BY DEF MiningDown, TypeOK
<1>4. mining' \in MiningState
  BY DEF MiningDown, TypeOK, MiningState
<1> QED
  BY <1>2, <1>3, <1>4 DEF MiningDown

-------------------------------------------------------------------------------
(* Type correctness.  A submission's proof is part of it: calls carry it.  *)

(* The initial state is typed.                                             *)
LEMMA InitTypes == Init => TypeOK /\ SubmitsPow
<1> SUFFICES ASSUME Init PROVE TypeOK /\ SubmitsPow
  OBVIOUS
<1>1. NewConn \in ConnState /\ NewConn.pc = "new"
  BY DEF NewConn, ConnState, ConnPcs, NoOut, NoPow, Out, Hashes
<1>2. <<0, 0>> \in Blocks
  BY ShareAssumption DEF Blocks
<1>3. backend \in BackendState
  BY <1>2 DEF Init, BackendState
<1>4. mining \in MiningState
  BY DEF Init, MiningState, Hashes
<1>5. /\ conn \in [Conns -> ConnState] /\ inbox \in [Conns -> Seq(Mail)]
      /\ db \in [total : Nat, shares : [Conns -> Nat]]
  BY <1>1 DEF Init
<1>6. SubmitsPow
  BY <1>1 DEF Init, SubmitsPow
<1> QED
  BY <1>3, <1>4, <1>5, <1>6, ShareAssumption DEF Init, TypeOK

(* Mining's handlers and the backend threads keep the types.               *)
LEMMA MiningTypes == TypeOK /\ SubmitsPow /\ MiningNext => TypeOK' /\ SubmitsPow'
<1> SUFFICES ASSUME TypeOK, SubmitsPow, MiningNext PROVE TypeOK' /\ SubmitsPow'
  OBVIOUS
<1>1. Blocks \subseteq Hashes /\ Nil \in Hashes
  BY DEF Hashes
<1>2. CASE NewHeight
  <2> DEFINE job == <<height + 1, 0>>
  <2>1. height + 1 \in 0..MaxHeight /\ job \in Blocks
    BY <1>2, ShareAssumption DEF NewHeight, TypeOK, Blocks
  <2>2. backend' \in BackendState
    BY <1>2, <2>1 DEF NewHeight, TypeOK, BackendState
  <2>3. mining' \in MiningState
    BY <1>2 DEF NewHeight, TypeOK, MiningState
  <2>4. faults' \in 0..MaxFaults
    BY <1>2, ShareAssumption DEF NewHeight, Fault, TypeOK
  <2> QED BY <1>2, <2>1, <2>2, <2>3, <2>4 DEF NewHeight, TypeOK, SubmitsPow
<1>3. CASE ProblemAnswered
  <2>1. backend.target \in Hashes
    BY <1>1 DEF TypeOK, BackendState
  <2>2. inbox' \in [Conns -> Seq(Mail)]
    BY <1>3, <2>1, CastAllType, MailType DEF ProblemAnswered, dispatch_work
  <2>3. mining' \in MiningState
    BY <1>3, <2>1 DEF ProblemAnswered, TypeOK, MiningState
  <2>4. txdata' \in Nat
    BY <1>3 DEF ProblemAnswered, RequestTransactions, TypeOK
  <2> QED BY <1>3, <2>2, <2>3, <2>4, WrittenType DEF ProblemAnswered, TypeOK, SubmitsPow
<1>4. CASE ProblemFails
  <2>1. inbox' \in [Conns -> Seq(Mail)]
    BY <1>4, CastAllType, MailType DEF ProblemFails, disconnect_all
  <2>2. mining' \in MiningState
    BY <1>4 DEF ProblemFails, TypeOK, MiningState
  <2>3. txdata' \in Nat
    BY <1>4 DEF ProblemFails, RequestTransactions, TypeOK
  <2>4. faults' \in 0..MaxFaults /\ backend' \in BackendState
    BY <1>4, ShareAssumption, WrittenType DEF ProblemFails, Fault, TypeOK
  <2> QED BY <1>4, <2>1, <2>2, <2>3, <2>4 DEF ProblemFails, TypeOK, SubmitsPow
<1>5. CASE TransactionData
  <2>1. backend.root[1] \in 0..MaxHeight /\ backend.root[2] \in 0..MaxBatches
    BY DEF TypeOK, BackendState, Blocks
  <2>2. backend.root[2] < MaxBatches => <<backend.root[1], backend.root[2] + 1>> \in Blocks
    BY <2>1, ShareAssumption DEF Blocks
  <2>3. backend' \in BackendState
    BY <1>5, <2>2 DEF TransactionData, TypeOK, BackendState
  <2>4. mining' \in MiningState
    BY <1>5 DEF TransactionData, TypeOK, MiningState
  <2>6. txdata' \in Nat
    BY <1>5 DEF TransactionData, TypeOK
  <2>5. faults' \in 0..MaxFaults
    BY <1>5, ShareAssumption DEF TransactionData, Fault, TypeOK
  <2> QED BY <1>5, <2>3, <2>4, <2>5, <2>6 DEF TransactionData, TypeOK, SubmitsPow
<1>6. CASE TransactionsAnswered
  <2>1. backend.target \in Hashes
    BY <1>1 DEF TypeOK, BackendState
  <2>2. inbox' \in [Conns -> Seq(Mail)]
    <3>1. CASE NewWork(backend.target)
      BY <1>6, <2>1, <3>1, CastAllType, MailType DEF TransactionsAnswered, dispatch_work
    <3>2. CASE ~NewWork(backend.target)
      BY <1>6, <3>2 DEF TransactionsAnswered, TypeOK
    <3> QED BY <3>1, <3>2
  <2>3. mining' \in MiningState
    BY <1>6, <2>1 DEF TransactionsAnswered, TypeOK, MiningState
  <2> QED BY <1>6, <2>2, <2>3, WrittenType DEF TransactionsAnswered, TypeOK, SubmitsPow
<1>7. CASE TransactionsFail
  <2>1. inbox' \in [Conns -> Seq(Mail)]
    BY <1>7, CastAllType, MailType DEF TransactionsFail, disconnect_all
  <2>2. mining' \in MiningState
    BY <1>7 DEF TransactionsFail, TypeOK, MiningState
  <2>3. faults' \in 0..MaxFaults /\ backend' \in BackendState
    BY <1>7, ShareAssumption, WrittenType DEF TransactionsFail, Fault, TypeOK
  <2> QED BY <1>7, <2>1, <2>2, <2>3 DEF TransactionsFail, TypeOK, SubmitsPow
<1>8. CASE MiningInit
  <2>1. mining' \in MiningState
    BY <1>1, <1>8 DEF MiningInit, TypeOK, MiningState
  <2> QED BY <1>8, <2>1 DEF MiningInit, TypeOK, SubmitsPow
<1>9. CASE BackendFinishes
  BY <1>9, WrittenType DEF BackendFinishes, TypeOK, SubmitsPow
<1>10. CASE MiningCrashes
  <2>1. faults' \in 0..MaxFaults
    BY <1>10, ShareAssumption DEF MiningCrashes, Fault, TypeOK
  <2>2. SubmitsPow'
    BY <1>10 DEF MiningCrashes, MiningDown, SubmitsPow, Closed, NewConn, TypeOK, ConnState
  <2> QED BY <1>10, <2>1, <2>2, MiningDownType DEF MiningCrashes, TypeOK
<1> QED
  BY <1>2, <1>3, <1>4, <1>5, <1>6, <1>7, <1>8, <1>9, <1>10 DEF MiningNext

(* The handling of shares keeps the types.                                 *)
LEMMA ShareTypes == TypeOK /\ SubmitsPow /\ HandleShare => TypeOK' /\ SubmitsPow'
<1> SUFFICES ASSUME TypeOK, SubmitsPow, NEW k \in calls,
                    CreditShare(k) \/ RefuseDuplicate(k) \/ EarlyShare(k)
             PROVE  TypeOK' /\ SubmitsPow'
  BY DEF HandleShare
<1>1. k.conn \in Conns /\ k.pow \in Pows /\ conn[k.conn] \in ConnState
  BY DEF TypeOK
<1>2. CASE CreditShare(k)
  <2>1. mining' \in MiningState
    BY <1>1, <1>2 DEF CreditShare, TypeOK, MiningState
  <2>2. db' \in [total : Nat, shares : [Conns -> Nat]]
    BY <1>1, <1>2 DEF CreditShare, TypeOK
  <2>3. conn' \in [Conns -> ConnState] /\ SubmitsPow'
    <3>1. CASE UNCHANGED conn
      BY <3>1 DEF TypeOK, SubmitsPow
    <3>2. CASE /\ conn[k.conn].pc = "credit"
               /\ conn' = [conn EXCEPT ![k.conn] = [conn[k.conn] EXCEPT !.pc = "nonce"]]
      <4>1. [conn[k.conn] EXCEPT !.pc = "nonce"] \in ConnState
        BY <1>1 DEF ConnState, ConnPcs, Credited, Submitting
      <4>2. conn[k.conn].pow \in Pows
        BY <1>1, <3>2 DEF SubmitsPow
      <4> QED BY <1>1, <3>2, <4>1, <4>2 DEF TypeOK, SubmitsPow, ConnState
    <3>3. CASE conn' = [conn EXCEPT ![k.conn] = Forget(conn[k.conn], "accept")]
      <4>1. "accept" \in ConnPcs
        BY DEF ConnPcs, Credited
      <4>2. Forget(conn[k.conn], "accept") \in ConnState
            /\ Forget(conn[k.conn], "accept").pc = "accept"
        BY <1>1, <4>1, ForgetType
      <4> QED BY <1>1, <3>3, <4>2 DEF TypeOK, SubmitsPow
    <3> QED BY <1>2, <3>1, <3>2, <3>3 DEF CreditShare, Answer
  <2>4. credited' \subseteq [pow : Pows, epoch : Nat]
    BY <1>1, <1>2 DEF CreditShare, TypeOK
  <2> QED BY <1>2, <2>1, <2>2, <2>3, <2>4 DEF CreditShare, TypeOK
<1>3. CASE RefuseDuplicate(k)
  <2>1. CASE Close(k.conn)
    <3>1. SubmitsPow'
      BY <1>1, <2>1 DEF Close, Closed, NewConn, SubmitsPow, TypeOK
    <3> QED BY <1>1, <1>3, <2>1, <3>1, CloseType DEF RefuseDuplicate, TypeOK
  <2>2. CASE UNCHANGED <<conn, inbox>>
    BY <1>3, <2>2 DEF RefuseDuplicate, TypeOK, SubmitsPow
  <2> QED BY <1>3, <2>1, <2>2 DEF RefuseDuplicate
<1>4. CASE EarlyShare(k)
  <2>1. SubmitsPow'
    BY <1>4 DEF EarlyShare, MiningDown, SubmitsPow, Closed, NewConn, TypeOK
  <2> QED BY <1>4, <2>1, MiningDownType DEF EarlyShare, TypeOK
<1> QED
  BY <1>2, <1>3, <1>4

(* The steps of a connection keep the types.                               *)
LEMMA ConnTypes ==
  ASSUME TypeOK, SubmitsPow, NEW c \in Conns,
         Connects(c) \/ Submits(c) \/ Proceeds(c) \/ Fails(c)
  PROVE  TypeOK' /\ SubmitsPow'
<1> DEFINE Only(k) == /\ k \in ConnState
                      /\ k.pc \in {"hash", "credit", "nonce"} => k.pow \in Pows
                      /\ conn' = [conn EXCEPT ![c] = k]
<1>1. ASSUME NEW k, Only(k)
      PROVE  conn' \in [Conns -> ConnState] /\ SubmitsPow'
  BY <1>1 DEF TypeOK, SubmitsPow
<1>2. conn[c] \in ConnState /\ inbox[c] \in Seq(Mail)
  BY DEF TypeOK
<1>3. \A pc \in ConnPcs \ {"hash", "credit", "nonce"} :
        conn' = [conn EXCEPT ![c] = Forget(conn[c], pc)] => Only(Forget(conn[c], pc))
  BY <1>2, ForgetType
<1>4. Close(c) => Only(Closed(conn[c])) /\ inbox' \in [Conns -> Seq(Mail)]
  <2>1. Closed(conn[c]) \in ConnState /\ Closed(conn[c]).pc = "closed"
    BY <1>2, ClosedType DEF Closed, NewConn
  <2> QED BY <2>1, CloseType DEF Close
<1>5. \A from : \A to \in ConnPcs : Step(c, from, to) =>
        Only([conn[c] EXCEPT !.pc = to])
          \/ (to \in {"hash", "credit", "nonce"} /\ conn[c].pow \notin Pows)
  BY <1>2 DEF Step, ConnState, TypeOK
<1>6. {"init", "ready", "verify", "header", "body", "send", "accept", "broken", "credit"}
        \subseteq ConnPcs
  BY DEF ConnPcs, Credited, Submitting
<1> HIDE DEF Only
<1>7. CASE Connects(c)
  <2>1. CASE Register(c)
    BY <1>1, <1>5, <1>6, <2>1 DEF Register, OnlyConn, TypeOK
  <2>2. CASE FirstWork(c)
    <3>1. Only([conn[c] EXCEPT !.pc = "ready", !.work = mining.blockhash])
      BY <1>2, <1>6, <2>2 DEF Only, FirstWork, TypeOK, ConnState, MiningState
    <3> QED BY <1>1, <2>2, <3>1 DEF FirstWork, OnlyConn, TypeOK
  <2> QED BY <1>7, <2>1, <2>2 DEF Connects
<1>8. CASE Submits(c)
  <2> SUFFICES ASSUME NEW pow \in Pows, Submit(c, pow) PROVE TypeOK' /\ SubmitsPow'
    BY <1>8 DEF Submits
  <2>1. Only([conn[c] EXCEPT !.pc = "hash", !.pow = pow, !.seen = mining.blockhash])
    BY <1>2 DEF Only, Submit, TypeOK, ConnState, ConnPcs, MiningState
  <2> QED BY <1>1, <2>1 DEF Submit, OnlyConn, TypeOK
<1>9. CASE Proceeds(c)
  <2>1. CASE SendWork(c)
    <3>1. Head(inbox[c]) \in Mail /\ Tail(inbox[c]) \in Seq(Mail)
      BY <1>2, <2>1 DEF SendWork
    <3>2. Only([conn[c] EXCEPT !.work = Head(inbox[c]).hash])
      BY <1>2, <2>1, <3>1 DEF Only, SendWork, TypeOK, ConnState, Mail
    <3>3. inbox' \in [Conns -> Seq(Mail)]
      BY <2>1, <3>1 DEF SendWork, TypeOK
    <3> QED BY <1>1, <2>1, <3>2, <3>3 DEF SendWork, TypeOK
  <2>2. CASE HandleClose(c)
    BY <1>1, <1>4, <2>2 DEF HandleClose, TypeOK
  <2>3. CASE ValidProof(c)
    <3>1. conn[c].pow \in Pows
      BY <2>3 DEF ValidProof, Step, SubmitsPow
    <3>2. conn' \in [Conns -> ConnState] /\ SubmitsPow'
      BY <1>1, <1>5, <1>6, <2>3, <3>1 DEF ValidProof
    <3> QED BY <2>3, <3>1, <3>2 DEF ValidProof, TypeOK
  <2>4. CASE InvalidProof(c)
    BY <1>1, <1>3, <1>6, <2>4 DEF InvalidProof, OnlyConn, TypeOK
  <2>5. CASE SetNonce(c)
    <3>1. conn[c].pow \in Pows
      BY <2>5 DEF SetNonce, SubmitsPow
    <3>2. backend' \in BackendState
      BY <2>5, <3>1 DEF SetNonce, TypeOK, BackendState
    <3> QED BY <1>1, <1>3, <1>6, <2>5, <3>2 DEF SetNonce, TypeOK
  <2>6. CASE VerifyNonce(c)
    BY <1>1, <1>5, <1>6, <2>6 DEF VerifyNonce, OnlyConn, TypeOK
  <2>7. CASE SerializeHeader(c)
    <3>1. Only([conn[c] EXCEPT !.pc = "body",
                               !.out = [NoOut EXCEPT !.root = backend.root,
                                                     !.nonce = backend.nonce]])
      BY <1>2, <1>6, <2>7
         DEF Only, SerializeHeader, TypeOK, ConnState, BackendState, NoOut, Out, Hashes
    <3> QED BY <1>1, <2>7, <3>1 DEF SerializeHeader, OnlyConn, TypeOK
  <2>8. CASE CopyTransactions(c)
    <3>1. Only([conn[c] EXCEPT !.pc = "send", !.out.body = backend.body])
      BY <1>2, <1>6, <2>8
         DEF Only, CopyTransactions, TypeOK, ConnState, BackendState, Out, Hashes
    <3> QED BY <1>1, <2>8, <3>1 DEF CopyTransactions, OnlyConn, TypeOK
  <2>9. CASE SendBlock(c)
    BY <1>1, <1>3, <1>6, <2>9 DEF SendBlock, OnlyConn, TypeOK
  <2>10. CASE Accept(c)
    <3> DEFINE n == conn[c].accepted + 1
    <3>2. n \in Nat
      BY <1>2 DEF ConnState
    <3>3. conn' = [conn EXCEPT ![c] = [conn[c] EXCEPT !.pc = "ready", !.accepted = n]]
      BY <2>10 DEF Accept, TypeOK
    <3> HIDE DEF n
    <3>1. Only([conn[c] EXCEPT !.pc = "ready", !.accepted = n])
      BY <1>2, <1>6, <3>2, <3>3 DEF Only, ConnState
    <3> QED BY <1>1, <2>10, <3>1 DEF Accept, OnlyConn, TypeOK
  <2> QED BY <1>9, <2>1, <2>2, <2>3, <2>4, <2>5, <2>6, <2>7, <2>8, <2>9, <2>10 DEF Proceeds
<1>10. CASE Fails(c)
  <2>1. CASE Stop(c)
    BY <1>1, <1>4, <2>1 DEF Stop, TypeOK
  <2>2. CASE HashFails(c)
    BY <1>1, <1>3, <1>6, <2>2 DEF HashFails, OnlyConn, TypeOK
  <2>3. CASE BrokenStops(c)
    BY <1>1, <1>4, <2>3 DEF BrokenStops, TypeOK
  <2>4. CASE CallFails(c)
    BY <1>1, <1>4, <2>4 DEF CallFails, TypeOK
  <2>5. CASE CallTimesOut(c)
    BY <1>1, <1>4, <2>5, ShareAssumption DEF CallTimesOut, Fault, TypeOK
  <2>6. CASE SubmitFails(c)
    <3>1. faults' \in 0..MaxFaults
      BY <2>6, ShareAssumption DEF SubmitFails, Fault, TypeOK
    <3>2. CASE Close(c)
      BY <1>1, <1>4, <2>6, <3>1, <3>2 DEF SubmitFails, TypeOK
    <3>3. CASE conn' = [conn EXCEPT ![c] = Forget(conn[c], "accept")] /\ disconnect_all
      <4>1. inbox' \in [Conns -> Seq(Mail)]
        BY <3>3, CastAllType, MailType DEF disconnect_all
      <4> QED BY <1>1, <1>3, <1>6, <2>6, <3>1, <3>3, <4>1 DEF SubmitFails, TypeOK
    <3> QED BY <2>6, <3>2, <3>3 DEF SubmitFails
  <2> QED BY <1>10, <2>1, <2>2, <2>3, <2>4, <2>5, <2>6 DEF Fails
<1> QED BY <1>7, <1>8, <1>9, <1>10

(* Every step keeps the types.                                             *)
LEMMA NextTypes == TypeOK /\ SubmitsPow /\ [Next]_vars => TypeOK' /\ SubmitsPow'
<1>1. CASE UNCHANGED vars
  BY <1>1 DEF vars, TypeOK, SubmitsPow
<1> QED
  BY <1>1, MiningTypes, ShareTypes, ConnTypes DEF Next

(* The state of Mining, the connections, their mailboxes and the backend   *)
(* is always typed, and a running submission has a proof.                  *)
THEOREM SharesTypeCorrect == Spec => [](TypeOK /\ SubmitsPow)
<1> QED BY InitTypes, NextTypes, PTL DEF Spec

-------------------------------------------------------------------------------
(* A share counts once.                                                    *)

(* No share is credited at the start.                                      *)
LEMMA InitCredits == Init => CreditInv
<1> SUFFICES ASSUME Init PROVE PowsetKnows /\ CreditedOnce
  BY InitTypes DEF CreditInv
<1>1. IsFiniteSet({}) /\ Cardinality({}) = 0
  BY FS_EmptySet
<1> QED BY <1>1 DEF Init, PowsetKnows, CreditedOnce

(* A step that credits nothing and either keeps the known proofs or opens  *)
(* another epoch keeps what is known of the credited ones.                 *)
LEMMA CreditsKept ==
  ASSUME CreditInv, UNCHANGED <<db, credited>>, epoch' \in Nat,
         \/ epoch' = epoch /\ mining'.powset = mining.powset
         \/ epoch' = epoch + 1
  PROVE  PowsetKnows' /\ CreditedOnce'
<1>1. epoch \in Nat /\ \A x \in credited : x.epoch \in Nat
  BY DEF CreditInv, TypeOK
<1> QED
  BY <1>1 DEF CreditInv, PowsetKnows, CreditedOnce

(* Crediting a proof that the powset does not know adds one to the total   *)
(* and a new share to those credited.                                      *)
LEMMA CreditCounts ==
  ASSUME CreditInv, NEW k \in calls, CreditShare(k)
  PROVE  PowsetKnows' /\ CreditedOnce'
<1> DEFINE x == [pow |-> k.pow, epoch |-> epoch]
<1>1. k.pow \notin mining.powset /\ credited' = credited \cup {x} /\ epoch' = epoch
  BY DEF CreditShare, Duplicate
<1>2. mining'.powset = mining.powset \cup {k.pow} /\ db'.total = db.total + 1
  BY DEF CreditShare, CreditInv, TypeOK, MiningState
<1>3. x \notin credited
  BY <1>1 DEF CreditInv, PowsetKnows
<1>4. IsFiniteSet(credited') /\ Cardinality(credited') = Cardinality(credited) + 1
  BY <1>1, <1>3, FS_AddElement DEF CreditInv, PowsetKnows
<1>5. PowsetKnows'
  <2>1. epoch \in Nat
    BY DEF CreditInv, TypeOK
  <2> QED BY <1>1, <1>2, <1>4, <2>1 DEF CreditInv, PowsetKnows
<1> QED
  BY <1>2, <1>4, <1>5 DEF CreditInv, CreditedOnce

(* Every step keeps the invariant.                                         *)
LEMMA NextCredits == CreditInv /\ [Next]_vars => CreditInv'
<1> SUFFICES ASSUME CreditInv, [Next]_vars PROVE PowsetKnows' /\ CreditedOnce'
  BY NextTypes DEF CreditInv
<1>1. mining \in MiningState /\ epoch \in Nat
  BY DEF CreditInv, TypeOK
<1>2. epoch' \in Nat
  BY NextTypes DEF CreditInv, TypeOK
<1>3. CASE \E k \in calls : CreditShare(k)
  BY <1>3, CreditCounts
<1>4. CASE MiningNext
  <2>1. UNCHANGED <<db, credited>>
    BY <1>4 DEF MiningNext, NewHeight, ProblemAnswered, ProblemFails, TransactionData,
                TransactionsAnswered, TransactionsFail, MiningInit, BackendFinishes,
                MiningCrashes
  <2>2. NewHeight \/ MiningInit => epoch' = epoch + 1
    BY DEF NewHeight, MiningInit
  <2>3. ~(NewHeight \/ MiningInit) => epoch' = epoch /\ mining'.powset = mining.powset
    BY <1>1, <1>4 DEF MiningNext, ProblemAnswered, ProblemFails, TransactionData,
                      TransactionsAnswered, TransactionsFail, BackendFinishes,
                      MiningCrashes, MiningDown, MiningState
  <2> QED BY <1>2, <2>1, <2>2, <2>3, CreditsKept
<1>5. CASE \E k \in calls : RefuseDuplicate(k) \/ EarlyShare(k)
  <2>1. UNCHANGED <<db, credited, epoch>> /\ mining'.powset = mining.powset
    BY <1>1, <1>5 DEF RefuseDuplicate, EarlyShare, MiningDown, MiningState
  <2> QED BY <1>2, <2>1, CreditsKept
<1>6. CASE \E c \in Conns : Connects(c) \/ Submits(c) \/ Proceeds(c) \/ Fails(c)
  <2>1. UNCHANGED <<db, credited, epoch, mining>>
    BY <1>6 DEF Connects, Register, FirstWork, Submits, Submit, Proceeds, SendWork,
                HandleClose, ValidProof, InvalidProof, SetNonce, VerifyNonce,
                SerializeHeader, CopyTransactions, SendBlock, Accept, Fails, Stop,
                HashFails, BrokenStops, CallFails, CallTimesOut, SubmitFails, OnlyConn
  <2> QED BY <1>2, <2>1, CreditsKept
<1>7. CASE UNCHANGED vars
  BY <1>2, <1>7, CreditsKept DEF vars
<1> QED
  BY <1>3, <1>4, <1>5, <1>6, <1>7 DEF Next, HandleShare

(* Whatever the connections submit and whenever Mining fails or is told of *)
(* a new height, between two resets of the known proofs every proof is     *)
(* credited at most once.                                                  *)
THEOREM SharesCountOnce == Spec => []CreditedOnce
<1>1. CreditInv => CreditedOnce
  BY DEF CreditInv
<1> QED BY <1>1, InitCredits, NextCredits, PTL DEF Spec

-------------------------------------------------------------------------------
(* Mining's hash and the backend's block.                                  *)

(* Every step of a pool whose backend answers keeps Mining's block hash    *)
(* and the backend's block together.                                       *)
LEMMA NextBlock ==
  ASSUME "backend" \notin Faults, TypeOK, BlockInv, [Next]_vars
  PROVE  BlockInv'
<1>1. mining \in MiningState /\ backend \in BackendState
  BY DEF TypeOK
<1>2. ~Fault("backend")
  BY DEF Fault
<1> USE DEF BlockInv, WaitsForBackend, MiningKnowsBlock
<1>3. CASE MiningNext
  <2>1. CASE NewHeight
    BY <1>1, <1>2, <2>1 DEF NewHeight, MiningState, BackendState
  <2>2. CASE ProblemAnswered
    BY <1>1, <2>2 DEF ProblemAnswered, Written, MiningState, BackendState
  <2>3. CASE ProblemFails
    BY <1>2, <2>3 DEF ProblemFails
  <2>4. CASE TransactionData
    BY <1>1, <1>2, <2>4 DEF TransactionData, MiningState, BackendState
  <2>5. CASE TransactionsAnswered
    BY <1>1, <2>5 DEF TransactionsAnswered, Written, MiningState, BackendState
  <2>6. CASE TransactionsFail
    BY <1>2, <2>6 DEF TransactionsFail
  <2>7. CASE MiningInit
    BY <1>1, <2>7 DEF MiningInit, MiningState
  <2>8. CASE BackendFinishes
    BY <1>1, <2>8 DEF BackendFinishes, MiningState
  <2>9. CASE MiningCrashes
    BY <1>1, <2>9 DEF MiningCrashes, MiningDown, MiningState
  <2> QED BY <1>3, <2>1, <2>2, <2>3, <2>4, <2>5, <2>6, <2>7, <2>8, <2>9 DEF MiningNext
<1>4. CASE HandleShare
  <2> SUFFICES ASSUME NEW k \in calls,
                      CreditShare(k) \/ RefuseDuplicate(k) \/ EarlyShare(k)
               PROVE  BlockInv'
    BY <1>4 DEF HandleShare
  <2> QED BY <1>1 DEF CreditShare, RefuseDuplicate, EarlyShare, MiningDown, MiningState
<1>5. CASE \E c \in Conns : Connects(c) \/ Submits(c) \/ Proceeds(c) \/ Fails(c)
  <2>1. UNCHANGED mining
    BY <1>5 DEF Connects, Register, FirstWork, Submits, Submit, Proceeds, SendWork,
                HandleClose, ValidProof, InvalidProof, SetNonce, VerifyNonce,
                SerializeHeader, CopyTransactions, SendBlock, Accept, Fails, Stop,
                HashFails, BrokenStops, CallFails, CallTimesOut, SubmitFails, OnlyConn
  <2>2. /\ backend'.root = backend.root /\ backend'.body = backend.body
        /\ backend'.writing = backend.writing
    BY <1>1, <1>5 DEF Connects, Register, FirstWork, Submits, Submit, Proceeds, SendWork,
                HandleClose, ValidProof, InvalidProof, SetNonce, VerifyNonce,
                SerializeHeader, CopyTransactions, SendBlock, Accept, Fails, Stop,
                HashFails, BrokenStops, CallFails, CallTimesOut, SubmitFails, OnlyConn,
                BackendState
  <2> QED BY <2>1, <2>2
<1>6. CASE UNCHANGED vars
  BY <1>6 DEF vars
<1> QED
  BY <1>3, <1>4, <1>5, <1>6 DEF Next

(* As long as the backend answers, the hash that Mining checks shares for  *)
(* is that of the block a solution would be submitted with, whatever the   *)
(* order of heights, transactions and restarts.                            *)
THEOREM MiningAndBackendAgree ==
  ASSUME "backend" \notin Faults
  PROVE  Spec => []MiningKnowsBlock
<1>1. Init => BlockInv
  BY DEF Init, BlockInv, WaitsForBackend, MiningKnowsBlock
<1>2. (TypeOK /\ SubmitsPow) /\ BlockInv /\ [Next]_vars => BlockInv'
  BY NextBlock
<1>3. BlockInv => MiningKnowsBlock
  BY DEF BlockInv
<1> QED BY <1>1, <1>2, <1>3, SharesTypeCorrect, PTL DEF Spec

-------------------------------------------------------------------------------
(* The connections' count and the database's.                              *)

(* While an accepted share is on its way through the connection's process, *)
(* the credit is one ahead of the count.  What keeps it so: a connection   *)
(* whose call waits in Mining's mailbox waits for it or has ended, and it  *)
(* has one call there at most.                                             *)
Ahead(k) == IF k.pc \in Credited THEN 1 ELSE 0
OneCallEach ==
  /\ \A k \in calls : conn[k.conn].pc \in {"credit", "closed"}
  /\ \A k, l \in calls : k.conn = l.conn => k = l
AcceptedInv == OneCallEach /\ AcceptedIsCredited

(* A connection's own step keeps the books when it closes the connection,  *)
(* or when the connection neither waits for Mining nor starts to and the   *)
(* step moves what is counted and what is credited ahead together.         *)
LEMMA BooksKept ==
  ASSUME TypeOK, AcceptedInv, NEW c \in Conns, NEW k \in ConnState,
         conn' = [conn EXCEPT ![c] = k], UNCHANGED <<calls, db>>,
         \/ k.pc = "closed"
         \/ /\ conn[c].pc \notin {"credit", "closed"}
            /\ k.accepted + Ahead(k) = conn[c].accepted + Ahead(conn[c])
  PROVE  AcceptedInv'
<1>1. conn'[c] = k /\ \A d \in Conns \ {c} : conn'[d] = conn[d]
  BY DEF TypeOK
<1>2. \A x \in calls : x.conn \in Conns
  BY DEF TypeOK
<1>3. OneCallEach'
  BY <1>1, <1>2 DEF AcceptedInv, OneCallEach
<1>4. AcceptedIsCredited'
  <2> SUFFICES ASSUME NEW d \in Conns, conn'[d].pc # "closed"
               PROVE  db.shares[d] = conn'[d].accepted + Ahead(conn'[d])
    BY DEF AcceptedIsCredited, Ahead
  <2>1. conn[d].pc # "closed" => db.shares[d] = conn[d].accepted + Ahead(conn[d])
    BY DEF AcceptedInv, AcceptedIsCredited, Ahead
  <2> QED BY <1>1, <2>1
<1> QED BY <1>3, <1>4 DEF AcceptedInv

(* Mining's end closes the connections that wait for it.                   *)
LEMMA BooksWithoutMining ==
  ASSUME TypeOK, AcceptedInv, MiningDown, UNCHANGED db
  PROVE  AcceptedInv'
<1>1. \A d \in Conns : conn'[d] = conn[d] \/ conn'[d].pc = "closed"
  BY DEF TypeOK, MiningDown, Closed, NewConn
<1>2. OneCallEach'
  BY DEF MiningDown, OneCallEach
<1> QED BY <1>1, <1>2 DEF AcceptedInv, AcceptedIsCredited

(* Handling a call keeps the books: the share is credited to a connection  *)
(* that waits and is one ahead from then on, or to one that has ended.     *)
LEMMA BooksOfShares ==
  ASSUME TypeOK, AcceptedInv, HandleShare
  PROVE  AcceptedInv'
<1>1. PICK k \in calls : CreditShare(k) \/ RefuseDuplicate(k) \/ EarlyShare(k)
  BY DEF HandleShare
<1>2. k.conn \in Conns /\ conn[k.conn] \in ConnState
  BY DEF TypeOK
<1>3. conn[k.conn].pc \in {"credit", "closed"} /\ \A l \in calls \ {k} : l.conn # k.conn
  BY DEF AcceptedInv, OneCallEach
<1>4. \A l \in calls : l.conn \in Conns
  BY DEF TypeOK
<1>5. CASE EarlyShare(k)
  BY <1>5, BooksWithoutMining DEF EarlyShare
<1>6. CASE CreditShare(k)
  <2>1. \A d \in Conns \ {k.conn} : conn'[d] = conn[d] /\ db'.shares[d] = db.shares[d]
    BY <1>2, <1>6 DEF TypeOK, CreditShare, Answer
  <2>2. db'.shares[k.conn] = db.shares[k.conn] + 1 /\ calls' = calls \ {k}
    BY <1>2, <1>6 DEF TypeOK, CreditShare
  <2>3. OneCallEach'
    BY <1>3, <1>4, <2>1, <2>2 DEF AcceptedInv, OneCallEach
  <2>4. CASE conn[k.conn].pc = "credit"
    <3>1. conn'[k.conn].pc \in {"nonce", "accept"}
          /\ conn'[k.conn].accepted = conn[k.conn].accepted
      <4> DEFINE old == conn[k.conn]
                 n == [old EXCEPT !.pc = "nonce"]
                 f == Forget(old, "accept")
      <4>1. conn' = [conn EXCEPT ![k.conn] = n] \/ conn' = [conn EXCEPT ![k.conn] = f]
        BY <1>6, <2>4 DEF CreditShare, Answer
      <4>2. /\ n.pc = "nonce" /\ n.accepted = old.accepted
            /\ f.pc = "accept" /\ f.accepted = old.accepted
        BY <1>2 DEF Forget, ConnState
      <4> HIDE DEF n, f
      <4>3. conn \in [Conns -> ConnState]
        BY DEF TypeOK
      <4>4. conn'[k.conn] = n \/ conn'[k.conn] = f
        BY <1>2, <4>1, <4>3
      <4> QED BY <4>2, <4>4
    <3>2. "credit" \notin Credited /\ {"nonce", "accept"} \subseteq Credited
      BY DEF Credited, Submitting
    <3>3. db.shares[k.conn] = conn[k.conn].accepted
      BY <1>2, <2>4, <3>2 DEF AcceptedInv, AcceptedIsCredited, ConnState
    <3>4. db'.shares[k.conn] = conn'[k.conn].accepted + 1
      BY <2>2, <3>1, <3>3
    <3> QED BY <2>1, <2>3, <3>1, <3>2, <3>4 DEF AcceptedInv, AcceptedIsCredited
  <2>5. CASE conn[k.conn].pc = "closed"
    <3>1. conn' = conn
      BY <1>6, <2>5 DEF CreditShare, Answer
    <3> QED BY <2>1, <2>3, <2>5, <3>1 DEF AcceptedInv, AcceptedIsCredited
  <2> QED BY <1>3, <2>4, <2>5
<1>7. CASE RefuseDuplicate(k)
  <2>1. \A d \in Conns : conn'[d] = conn[d] \/ conn'[d].pc = "closed"
    <3>1. Closed(conn[k.conn]).pc = "closed"
      BY DEF Closed, NewConn
    <3>2. conn' = conn \/ conn' = [conn EXCEPT ![k.conn] = Closed(conn[k.conn])]
      BY <1>7 DEF RefuseDuplicate, Close
    <3> QED BY <1>2, <3>1, <3>2 DEF TypeOK
  <2>2. db' = db /\ calls' = calls \ {k}
    BY <1>7 DEF RefuseDuplicate
  <2>3. OneCallEach'
    BY <1>4, <2>1, <2>2 DEF AcceptedInv, OneCallEach
  <2> QED BY <2>1, <2>2, <2>3 DEF AcceptedInv, AcceptedIsCredited
<1> QED BY <1>1, <1>5, <1>6, <1>7

(* The steps of a connection's process keep the books.                     *)
LEMMA BooksOfConns ==
  ASSUME TypeOK, AcceptedInv, NEW c \in Conns,
         Connects(c) \/ Submits(c) \/ Proceeds(c) \/ Fails(c)
  PROVE  AcceptedInv'
<1> DEFINE Even(k) == /\ k.pc \notin {"credit", "closed"} /\ k.accepted = conn[c].accepted
                      /\ k.pc \in Credited <=> conn[c].pc \in Credited
<1>1. conn[c] \in ConnState /\ conn[c].accepted \in Nat
  BY DEF TypeOK, ConnState
<1>2. Close(c) /\ UNCHANGED <<calls, db>> => AcceptedInv'
  <2>1. Closed(conn[c]) \in ConnState /\ Closed(conn[c]).pc = "closed"
    BY <1>1, ClosedType DEF Closed, NewConn
  <2> QED BY <2>1, BooksKept DEF Close
<1>3. ASSUME NEW k \in ConnState, Even(k), conn[c].pc \notin {"credit", "closed"},
             conn' = [conn EXCEPT ![c] = k], UNCHANGED <<calls, db>>
      PROVE  AcceptedInv'
  <2>1. k.accepted + Ahead(k) = conn[c].accepted + Ahead(conn[c])
    BY <1>3 DEF Ahead
  <2> QED BY <1>3, <2>1, BooksKept
<1>4. ASSUME NEW from, NEW to \in ConnPcs, Step(c, from, to), UNCHANGED <<calls, db>>,
             from \notin {"credit", "closed"}, to \notin {"credit", "closed"},
             to \in Credited <=> from \in Credited
      PROVE  AcceptedInv'
  <2>1. [conn[c] EXCEPT !.pc = to] \in ConnState /\ Even([conn[c] EXCEPT !.pc = to])
    BY <1>1, <1>4 DEF Step, ConnState
  <2> QED BY <1>3, <1>4, <2>1 DEF Step, TypeOK
<1>5. ASSUME NEW to \in ConnPcs, conn' = [conn EXCEPT ![c] = Forget(conn[c], to)],
             UNCHANGED <<calls, db>>,
             conn[c].pc \notin {"credit", "closed"}, to \notin {"credit", "closed"},
             to \in Credited <=> conn[c].pc \in Credited
      PROVE  AcceptedInv'
  <2>1. Forget(conn[c], to) \in ConnState /\ Even(Forget(conn[c], to))
    BY <1>1, <1>5, ForgetType DEF Forget, ConnState
  <2> QED BY <1>3, <1>5, <2>1
<1> HIDE DEF Even
<1>6. /\ Credited = {"nonce", "verify", "header", "body", "send", "accept"}
      /\ {"new", "init", "ready", "hash", "credit", "broken", "closed"} \cap Credited = {}
      /\ {"new", "init", "ready", "hash", "broken"} \cup Credited \subseteq ConnPcs
  BY DEF Credited, Submitting, ConnPcs
<1>7. CASE Connects(c)
  <2>1. CASE Register(c)
    BY <1>4, <1>6, <2>1 DEF Register, OnlyConn
  <2>2. CASE FirstWork(c)
    <3> DEFINE k == [conn[c] EXCEPT !.pc = "ready", !.work = mining.blockhash]
    <3>1. k \in ConnState /\ Even(k)
      BY <1>1, <1>6, <2>2 DEF Even, FirstWork, TypeOK, ConnState, MiningState
    <3> QED BY <1>3, <2>2, <3>1 DEF FirstWork, OnlyConn, TypeOK
  <2> QED BY <1>7, <2>1, <2>2 DEF Connects
<1>8. CASE Submits(c)
  <2>1. PICK pow \in Pows : Submit(c, pow)
    BY <1>8 DEF Submits
  <2> DEFINE k == [conn[c] EXCEPT !.pc = "hash", !.pow = pow, !.seen = mining.blockhash]
  <2>2. k \in ConnState /\ Even(k)
    BY <1>1, <1>6, <2>1 DEF Even, Submit, TypeOK, ConnState, MiningState
  <2> QED BY <1>3, <2>1, <2>2 DEF Submit, OnlyConn, TypeOK
<1>9. CASE Proceeds(c)
  <2>1. CASE SendWork(c)
    <3> DEFINE k == [conn[c] EXCEPT !.work = Head(inbox[c]).hash]
    <3>1. Head(inbox[c]) \in Mail
      BY <2>1 DEF SendWork, TypeOK
    <3>2. k \in ConnState /\ Even(k)
      BY <1>1, <1>6, <2>1, <3>1 DEF Even, SendWork, ConnState, Mail
    <3> QED BY <1>3, <2>1, <3>2 DEF SendWork, TypeOK
  <2>2. CASE HandleClose(c)
    BY <1>2, <2>2 DEF HandleClose
  <2>3. CASE ValidProof(c)
    <3> DEFINE call == [conn |-> c, pow |-> conn[c].pow]
    <3>1. conn[c].pc = "hash" /\ calls' = calls \cup {call} /\ db' = db
      BY <2>3 DEF ValidProof, Step
    <3>2. /\ conn'[c].pc = "credit" /\ conn'[c].accepted = conn[c].accepted
          /\ \A d \in Conns \ {c} : conn'[d] = conn[d]
      BY <1>1, <2>3 DEF ValidProof, Step, TypeOK, ConnState
    <3>3. \A l \in calls : l.conn \in Conns \ {c}
      BY <3>1 DEF AcceptedInv, OneCallEach, TypeOK
    <3>4. OneCallEach'
      BY <3>1, <3>2, <3>3 DEF AcceptedInv, OneCallEach
    <3>5. AcceptedIsCredited'
      BY <1>6, <3>1, <3>2 DEF AcceptedInv, AcceptedIsCredited
    <3> QED BY <3>4, <3>5 DEF AcceptedInv
  <2>4. CASE InvalidProof(c)
    BY <1>5, <1>6, <2>4 DEF InvalidProof, OnlyConn
  <2>5. CASE SetNonce(c)
    BY <1>5, <1>6, <2>5 DEF SetNonce
  <2>6. CASE VerifyNonce(c)
    BY <1>4, <1>6, <2>6 DEF VerifyNonce, OnlyConn
  <2>7. CASE SerializeHeader(c)
    <3> DEFINE k == [conn[c] EXCEPT !.pc = "body",
                       !.out = [NoOut EXCEPT !.root = backend.root, !.nonce = backend.nonce]]
    <3>1. k \in ConnState /\ Even(k)
      BY <1>1, <1>6, <2>7
         DEF Even, SerializeHeader, TypeOK, ConnState, BackendState, NoOut, Out, Hashes
    <3> QED BY <1>3, <2>7, <3>1 DEF SerializeHeader, OnlyConn, TypeOK
  <2>8. CASE CopyTransactions(c)
    <3> DEFINE k == [conn[c] EXCEPT !.pc = "send", !.out.body = backend.body]
    <3>1. k \in ConnState /\ Even(k)
      BY <1>1, <1>6, <2>8
         DEF Even, CopyTransactions, TypeOK, ConnState, BackendState, Out, Hashes
    <3>2. conn' = [conn EXCEPT ![c] = k]
      BY <1>1, <2>8 DEF CopyTransactions, TypeOK, ConnState, Out
    <3> HIDE DEF k
    <3> QED BY <1>3, <2>8, <3>1, <3>2 DEF CopyTransactions, OnlyConn
  <2>9. CASE SendBlock(c)
    BY <1>5, <1>6, <2>9 DEF SendBlock, OnlyConn
  <2>10. CASE Accept(c)
    <3> DEFINE n == conn[c].accepted + 1
               k == [conn[c] EXCEPT !.pc = "ready", !.accepted = n]
    <3>1. conn' = [conn EXCEPT ![c] = k] /\ conn[c].pc = "accept" /\ UNCHANGED <<calls, db>>
      BY <2>10 DEF Accept, OnlyConn, TypeOK
    <3>2. n \in Nat
      BY <1>1
    <3>3. k.pc = "ready" /\ k.accepted = n /\ k \in ConnState
      BY <1>1, <1>6, <3>2 DEF ConnState
    <3>4. k.accepted + Ahead(k) = conn[c].accepted + Ahead(conn[c])
      BY <1>1, <1>6, <3>1, <3>3 DEF Ahead
    <3> HIDE DEF k
    <3> QED BY <3>1, <3>3, <3>4, BooksKept
  <2> QED BY <1>9, <2>1, <2>2, <2>3, <2>4, <2>5, <2>6, <2>7, <2>8, <2>9, <2>10 DEF Proceeds
<1>10. CASE Fails(c)
  <2>1. CASE HashFails(c)
    BY <1>5, <1>6, <2>1 DEF HashFails, OnlyConn
  <2>2. CASE SubmitFails(c)
    BY <1>2, <1>5, <1>6, <2>2 DEF SubmitFails
  <2>3. CASE Stop(c) \/ BrokenStops(c) \/ CallFails(c) \/ CallTimesOut(c)
    BY <1>2, <2>3 DEF Stop, BrokenStops, CallFails, CallTimesOut
  <2> QED BY <1>10, <2>1, <2>2, <2>3 DEF Fails
<1> QED BY <1>7, <1>8, <1>9, <1>10

(* Every step keeps the books.                                             *)
LEMMA NextBooks == TypeOK /\ AcceptedInv /\ [Next]_vars => AcceptedInv'
<1> SUFFICES ASSUME TypeOK, AcceptedInv, [Next]_vars PROVE AcceptedInv'
  OBVIOUS
<1>1. UNCHANGED <<calls, conn, db>> => AcceptedInv'
  BY DEF AcceptedInv, OneCallEach, AcceptedIsCredited
<1>2. CASE MiningNext
  <2>1. MiningCrashes \/ UNCHANGED <<calls, conn, db>>
    BY <1>2 DEF MiningNext, NewHeight, ProblemAnswered, ProblemFails, TransactionData,
                TransactionsAnswered, TransactionsFail, MiningInit, BackendFinishes
  <2> QED BY <1>1, <2>1, BooksWithoutMining DEF MiningCrashes
<1> QED
  BY <1>1, <1>2, BooksOfShares, BooksOfConns DEF Next, vars

(* What an open connection has counted is what the database credits it     *)
(* with, whatever fails on the way.                                        *)
THEOREM CountsAgree == Spec => []AcceptedIsCredited
<1>1. Init => AcceptedInv
  <2> SUFFICES ASSUME Init PROVE AcceptedInv
    OBVIOUS
  <2>1. "new" \notin Credited
    BY DEF Credited, Submitting
  <2> QED BY <2>1 DEF Init, AcceptedInv, OneCallEach, AcceptedIsCredited, NewConn
<1>2. TypeOK /\ SubmitsPow /\ AcceptedInv /\ [Next]_vars => AcceptedInv'
  BY NextBooks
<1>3. AcceptedInv => AcceptedIsCredited
  BY DEF AcceptedInv
<1> QED BY <1>1, <1>2, <1>3, SharesTypeCorrect, PTL DEF Spec

-------------------------------------------------------------------------------
(* No miner is left on old work.                                           *)

(* A registered connection was last sent Mining's hash, or is about to ask *)
(* for its first work and has been sent none; an unregistered process has  *)
(* no mail.                                                                *)
NoMail(c) == ~Registered(c) => inbox[c] = <<>>
UpToDate(c) ==
  (Registered(c) /\ mining.blockhash # Nil) =>
    \/ conn[c].pc = "init" /\ Works(inbox[c]) = {}
    \/ LastIs(inbox[c], conn[c].work, mining.blockhash)
WorkInv == \A c \in Conns : NoMail(c) /\ UpToDate(c)

(* Work that is put into a mailbox is the last there.                      *)
LEMMA WorkAppended ==
  ASSUME NEW mails \in Seq(Mail), NEW work, NEW hash \in Hashes
  PROVE  LastIs(Append(mails, [type |-> "work", hash |-> hash]), work, hash)
<1> DEFINE m == [type |-> "work", hash |-> hash]
           all == Append(mails, m)
<1>1. /\ DOMAIN all = 1..(Len(mails) + 1) /\ Len(mails) \in Nat
      /\ all[Len(mails) + 1] = m
  BY MailType
<1>2. Len(mails) + 1 \in Works(all)
  BY <1>1 DEF Works
<1> HIDE DEF all
<1>3. \A j \in Works(all) : j <= Len(mails) + 1
  BY <1>1 DEF Works
<1> QED BY <1>1, <1>2, <1>3 DEF LastIs, all

(* An order to close changes nothing of the work in a mailbox.             *)
LEMMA CloseAppended ==
  ASSUME NEW mails \in Seq(Mail), NEW work, NEW hash
  PROVE  LET all == Append(mails, [type |-> "close", hash |-> Nil])
         IN  /\ Works(all) = Works(mails)
             /\ LastIs(mails, work, hash) => LastIs(all, work, hash)
<1> DEFINE m == [type |-> "close", hash |-> Nil]
           all == Append(mails, m)
<1>1. /\ DOMAIN all = 1..(Len(mails) + 1) /\ Len(mails) \in Nat
      /\ DOMAIN mails = 1..Len(mails)
      /\ all[Len(mails) + 1] = m /\ \A i \in 1..Len(mails) : all[i] = mails[i]
  BY MailType
<1> HIDE DEF all
<1>2. Works(all) = Works(mails)
  <2>1. \A i \in DOMAIN mails : i \in DOMAIN all /\ all[i] = mails[i]
    BY <1>1
  <2>2. \A i \in DOMAIN all : i \in DOMAIN mails \/ i = Len(mails) + 1
    BY <1>1
  <2>3. all[Len(mails) + 1].type # "work"
    BY <1>1
  <2> QED BY <2>1, <2>2, <2>3 DEF Works
<1>3. \A i \in Works(mails) : all[i] = mails[i]
  BY <1>1 DEF Works
<1> QED BY <1>2, <1>3 DEF LastIs, all

(* Work that is taken from a mailbox is the miner's; what is last stays.   *)
LEMMA WorkTaken ==
  ASSUME NEW mails \in Seq(Mail), NEW work, NEW hash,
         mails # <<>>, Head(mails).type = "work", LastIs(mails, work, hash)
  PROVE  LastIs(Tail(mails), Head(mails).hash, hash)
<1> DEFINE rest == Tail(mails)
<1>1. /\ Len(mails) \in Nat \ {0} /\ DOMAIN mails = 1..Len(mails)
      /\ DOMAIN rest = 1..(Len(mails) - 1) /\ Head(mails) = mails[1]
      /\ \A i \in 1..(Len(mails) - 1) : rest[i] = mails[i + 1]
  OBVIOUS
<1>2. PICK i \in Works(mails) : mails[i].hash = hash /\ \A j \in Works(mails) : j <= i
  BY <1>1 DEF LastIs, Works
<1> HIDE DEF rest
<1>3. i \in 1..Len(mails)
  BY <1>1 DEF Works
<1>4. \A j \in Works(rest) : j + 1 \in Works(mails) /\ j \in Nat /\ j + 1 <= i
  BY <1>1, <1>2 DEF Works
<1>5. CASE i = 1
  <2>1. Works(rest) = {}
    <3> SUFFICES ASSUME NEW j \in Works(rest) PROVE FALSE
      OBVIOUS
    <3>1. j \in 1..(Len(mails) - 1)
      BY <1>1 DEF Works
    <3> QED BY <1>4, <1>5, <3>1
  <2> QED BY <1>1, <1>2, <1>5, <2>1 DEF LastIs, rest
<1>6. CASE i # 1
  <2>1. i - 1 \in Works(rest) /\ rest[i - 1].hash = hash
    BY <1>1, <1>2, <1>3, <1>6 DEF Works
  <2>2. \A j \in Works(rest) : j <= i - 1
    BY <1>3, <1>4
  <2> QED BY <2>1, <2>2 DEF LastIs, rest
<1> QED BY <1>5, <1>6

(* A mailbox without work is up to date when the miner is.                 *)
LEMMA NoWorks ==
  /\ \A hash : LastIs(<<>>, hash, hash) /\ Works(<<>>) = {}
  /\ \A mails, work, hash :
       Works(mails) # {} => (LastIs(mails, work, hash) <=> LastIs(mails, hash, hash))
  /\ \A mails, hash : Works(mails) = {} => LastIs(mails, hash, hash)
<1>1. Works(<<>>) = {}
  BY DEF Works
<1> QED BY <1>1 DEF LastIs

(* A connection that ends or whose mail and work stay is as up to date as  *)
(* before, if Mining's hash stays or is lost.                              *)
LEMMA UpToDateKept ==
  ASSUME WorkInv, NEW c \in Conns, mining'.blockhash \in {mining.blockhash, Nil},
         \/ conn'[c].pc = "closed" /\ inbox'[c] = <<>>
         \/ /\ inbox'[c] = inbox[c] /\ conn'[c].work = conn[c].work
            /\ Registered(c)' <=> Registered(c)
            /\ conn'[c].pc = "init" <=> conn[c].pc = "init"
  PROVE  NoMail(c)' /\ UpToDate(c)'
  BY DEF WorkInv, NoMail, UpToDate, Registered

(* What a cast leaves in a registered connection's mailbox.                *)
LEMMA CastLeaves ==
  ASSUME TypeOK, NEW mail \in Mail, CastAll(mail), NEW c \in Conns
  PROVE  inbox'[c] = IF Registered(c) THEN Append(inbox[c], mail) ELSE inbox[c]
  BY DEF CastAll

(* New work brings every connection up to date.                            *)
LEMMA DispatchReaches ==
  ASSUME TypeOK, WorkInv, NEW hash \in Hashes, dispatch_work(hash),
         mining'.blockhash = hash, UNCHANGED conn
  PROVE  WorkInv'
<1> SUFFICES ASSUME NEW c \in Conns PROVE NoMail(c)' /\ UpToDate(c)'
  BY DEF WorkInv
<1> DEFINE mail == [type |-> "work", hash |-> hash]
<1>1. inbox'[c] = IF Registered(c) THEN Append(inbox[c], mail) ELSE inbox[c]
  BY MailType, CastLeaves DEF dispatch_work
<1>2. LastIs(Append(inbox[c], mail), conn[c].work, hash)
  BY WorkAppended DEF TypeOK
<1> QED BY <1>1, <1>2 DEF WorkInv, NoMail, UpToDate, Registered

(* The order to close leaves every connection as up to date as it was.     *)
LEMMA CloseReaches ==
  ASSUME TypeOK, WorkInv, disconnect_all, mining'.blockhash = mining.blockhash,
         NEW c \in Conns, conn'[c].work = conn[c].work,
         Registered(c)' <=> Registered(c), conn'[c].pc = "init" <=> conn[c].pc = "init"
  PROVE  NoMail(c)' /\ UpToDate(c)'
<1> DEFINE mail == [type |-> "close", hash |-> Nil]
<1>1. inbox'[c] = IF Registered(c) THEN Append(inbox[c], mail) ELSE inbox[c]
  BY MailType, CastLeaves DEF disconnect_all
<1>2. /\ Works(Append(inbox[c], mail)) = Works(inbox[c])
      /\ LastIs(inbox[c], conn[c].work, mining.blockhash)
           => LastIs(Append(inbox[c], mail), conn[c].work, mining.blockhash)
  BY CloseAppended DEF TypeOK
<1> QED BY <1>1, <1>2 DEF WorkInv, NoMail, UpToDate

(* Mining's end closes the connections that wait for it.                   *)
LEMMA WorkWithoutMining ==
  ASSUME TypeOK, WorkInv, MiningDown
  PROVE  WorkInv'
<1> SUFFICES ASSUME NEW c \in Conns PROVE NoMail(c)' /\ UpToDate(c)'
  BY DEF WorkInv
<1>1. mining'.blockhash = mining.blockhash
  BY DEF MiningDown, TypeOK, MiningState
<1>2. \/ conn'[c].pc = "closed" /\ inbox'[c] = <<>>
      \/ conn'[c] = conn[c] /\ inbox'[c] = inbox[c]
  BY DEF MiningDown, Closed, NewConn, TypeOK
<1> QED BY <1>1, <1>2, UpToDateKept DEF Registered

(* Mining's handlers keep the connections up to date.                      *)
LEMMA WorkOfMining == TypeOK /\ WorkInv /\ MiningNext => WorkInv'
<1> SUFFICES ASSUME TypeOK, WorkInv, MiningNext PROVE WorkInv'
  OBVIOUS
<1>1. mining \in MiningState /\ backend.target \in Hashes
  BY DEF TypeOK, BackendState, Hashes
<1>2. mining'.blockhash \in {mining.blockhash, Nil} /\ UNCHANGED <<conn, inbox>> => WorkInv'
  BY UpToDateKept DEF WorkInv, Registered
<1>3. mining'.blockhash = mining.blockhash /\ disconnect_all /\ UNCHANGED conn => WorkInv'
  BY CloseReaches DEF WorkInv, Registered
<1>4. CASE ProblemAnswered
  BY <1>1, <1>4, DispatchReaches DEF ProblemAnswered, MiningState
<1>5. CASE TransactionsAnswered
  <2>1. mining'.blockhash = backend.target /\ UNCHANGED conn
    BY <1>1, <1>5 DEF TransactionsAnswered, MiningState
  <2>2. CASE NewWork(backend.target)
    BY <1>1, <1>5, <2>1, <2>2, DispatchReaches DEF TransactionsAnswered
  <2>3. CASE ~NewWork(backend.target)
    BY <1>2, <1>5, <2>1, <2>3 DEF TransactionsAnswered, NewWork
  <2> QED BY <2>2, <2>3
<1>6. CASE ProblemFails
  BY <1>1, <1>3, <1>6 DEF ProblemFails, MiningState
<1>7. CASE TransactionsFail
  BY <1>1, <1>3, <1>7 DEF TransactionsFail, MiningState
<1>8. CASE NewHeight
  BY <1>1, <1>2, <1>8 DEF NewHeight, MiningState
<1>9. CASE TransactionData
  BY <1>1, <1>2, <1>9 DEF TransactionData, MiningState
<1>10. CASE MiningInit
  BY <1>1, <1>2, <1>10 DEF MiningInit, MiningState
<1>11. CASE BackendFinishes
  BY <1>1, <1>2, <1>11 DEF BackendFinishes
<1>12. CASE MiningCrashes
  BY <1>12, WorkWithoutMining DEF MiningCrashes
<1> QED
  BY <1>4, <1>5, <1>6, <1>7, <1>8, <1>9, <1>10, <1>11, <1>12 DEF MiningNext

(* So does the handling of shares.                                         *)
LEMMA WorkOfShares == TypeOK /\ WorkInv /\ HandleShare => WorkInv'
<1> SUFFICES ASSUME TypeOK, WorkInv, NEW k \in calls,
                    CreditShare(k) \/ RefuseDuplicate(k) \/ EarlyShare(k)
             PROVE  WorkInv'
  BY DEF HandleShare
<1>1. k.conn \in Conns /\ conn[k.conn] \in ConnState /\ mining \in MiningState
  BY DEF TypeOK
<1>2. CASE EarlyShare(k)
  BY <1>2, WorkWithoutMining DEF EarlyShare
<1> SUFFICES ASSUME NEW c \in Conns, CreditShare(k) \/ RefuseDuplicate(k)
             PROVE  NoMail(c)' /\ UpToDate(c)'
  BY <1>2 DEF WorkInv
<1>3. CASE CreditShare(k)
  <2> DEFINE old == conn[k.conn]
             n == [old EXCEPT !.pc = "nonce"]
             f == Forget(old, "accept")
  <2>1. \/ UNCHANGED conn
        \/ /\ conn[k.conn].pc = "credit"
           /\ conn' = [conn EXCEPT ![k.conn] = n] \/ conn' = [conn EXCEPT ![k.conn] = f]
    BY <1>3 DEF CreditShare, Answer
  <2>2. /\ n.pc = "nonce" /\ n.work = old.work
        /\ f.pc = "accept" /\ f.work = old.work
    BY <1>1 DEF Forget, ConnState
  <2> HIDE DEF n, f
  <2>3. conn \in [Conns -> ConnState]
    BY DEF TypeOK
  <2>4. /\ conn'[c].work = conn[c].work
        /\ Registered(c)' <=> Registered(c)
        /\ conn'[c].pc = "init" <=> conn[c].pc = "init"
    BY <1>1, <2>1, <2>2, <2>3 DEF Registered
  <2>5. mining'.blockhash = mining.blockhash /\ inbox' = inbox
    BY <1>1, <1>3 DEF CreditShare, MiningState
  <2>6. mining'.blockhash \in {mining.blockhash, Nil} /\ inbox'[c] = inbox[c]
    BY <2>5
  <2> QED BY <2>4, <2>6, UpToDateKept
<1>4. CASE RefuseDuplicate(k)
  <2>1. Closed(conn[k.conn]).pc = "closed"
    BY DEF Closed, NewConn
  <2>2. \/ conn'[c].pc = "closed" /\ inbox'[c] = <<>>
        \/ conn'[c] = conn[c] /\ inbox'[c] = inbox[c]
    BY <1>1, <1>4, <2>1 DEF RefuseDuplicate, Close, TypeOK
  <2> QED BY <1>4, <2>2, UpToDateKept DEF RefuseDuplicate, Registered
<1> QED BY <1>3, <1>4

(* The steps of a connection's process keep all connections up to date.    *)
LEMMA WorkOfConns ==
  ASSUME TypeOK, WorkInv, NEW d \in Conns,
         Connects(d) \/ Submits(d) \/ Proceeds(d) \/ Fails(d)
  PROVE  WorkInv'
<1> DEFINE pcs == ConnPcs \ {"new", "init", "closed"}
<1>1. /\ conn \in [Conns -> ConnState] /\ inbox \in [Conns -> Seq(Mail)]
      /\ conn[d] \in ConnState
  BY DEF TypeOK
<1>2. mining' = mining
  BY DEF Connects, Register, FirstWork, Submits, Submit, Proceeds, SendWork, HandleClose,
         ValidProof, InvalidProof, SetNonce, VerifyNonce, SerializeHeader,
         CopyTransactions, SendBlock, Accept, Fails, Stop, HashFails, BrokenStops,
         CallFails, CallTimesOut, SubmitFails, OnlyConn
<1>3. \A c \in Conns : conn'[c] = conn[c] /\ inbox'[c] = inbox[c] => NoMail(c)' /\ UpToDate(c)'
  BY <1>2, UpToDateKept DEF Registered
<1>4. ASSUME NEW k, conn' = [conn EXCEPT ![d] = k], k.pc \in pcs, conn[d].pc \in pcs,
             k.work = conn[d].work, inbox' = inbox
      PROVE  WorkInv'
  <2>1. /\ conn'[d] = k /\ inbox'[d] = inbox[d] /\ Registered(d) /\ Registered(d)'
        /\ conn'[d].work = conn[d].work /\ conn[d].pc # "init" /\ conn'[d].pc # "init"
    BY <1>1, <1>4 DEF Registered
  <2>2. NoMail(d)' /\ UpToDate(d)'
    BY <1>2, <2>1, UpToDateKept
  <2> QED BY <1>1, <1>3, <1>4, <2>2 DEF WorkInv
<1>5. ASSUME Close(d) PROVE WorkInv'
  <2>1. conn'[d].pc = "closed" /\ inbox'[d] = <<>>
    BY <1>1, <1>5 DEF Close, Closed, NewConn
  <2>2. NoMail(d)' /\ UpToDate(d)'
    BY <1>2, <2>1, UpToDateKept
  <2>3. \A c \in Conns \ {d} : conn'[c] = conn[c] /\ inbox'[c] = inbox[c]
    BY <1>1, <1>5 DEF Close
  <2> QED BY <1>3, <2>2, <2>3 DEF WorkInv
<1>6. ASSUME NEW to \in pcs, Step(d, conn[d].pc, to), conn[d].pc \in pcs, inbox' = inbox
      PROVE  WorkInv'
  <2>1. [conn[d] EXCEPT !.pc = to].pc = to /\ [conn[d] EXCEPT !.pc = to].work = conn[d].work
    BY <1>1 DEF ConnState
  <2> QED BY <1>1, <1>4, <1>6, <2>1 DEF Step
<1>7. ASSUME NEW to \in pcs, conn' = [conn EXCEPT ![d] = Forget(conn[d], to)],
             conn[d].pc \in pcs, inbox' = inbox
      PROVE  WorkInv'
  <2>1. Forget(conn[d], to).pc = to /\ Forget(conn[d], to).work = conn[d].work
    BY <1>1 DEF Forget, ConnState
  <2> QED BY <1>4, <1>7, <2>1
<1>8. {"ready", "hash", "credit", "broken", "nonce", "verify", "header", "body", "send",
       "accept"} \subseteq pcs
  BY DEF ConnPcs, Credited, Submitting
<1> HIDE DEF pcs
<1>9. CASE Connects(d)
  <2>1. \A c \in Conns \ {d} : conn'[c] = conn[c] /\ inbox' = inbox
    BY <1>1, <1>9 DEF Connects, Register, FirstWork, Step, OnlyConn
  <2>2. CASE Register(d)
    <3>1. conn'[d].pc = "init" /\ inbox'[d] = <<>>
      BY <1>1, <2>2 DEF Register, Step, OnlyConn, WorkInv, NoMail, Registered, ConnState
    <3> QED BY <1>3, <2>1, <3>1, NoWorks DEF WorkInv, NoMail, UpToDate, Registered
  <2>3. CASE FirstWork(d)
    <3>1. /\ conn[d].pc = "init" /\ conn'[d].pc = "ready" /\ inbox'[d] = inbox[d]
          /\ conn'[d].work = mining.blockhash
      BY <1>1, <2>3 DEF FirstWork, OnlyConn, ConnState
    <3>2. mining.blockhash # Nil => LastIs(inbox[d], mining.blockhash, mining.blockhash)
      BY <3>1, NoWorks DEF WorkInv, UpToDate, Registered
    <3> QED BY <1>2, <1>3, <2>1, <3>1, <3>2 DEF WorkInv, NoMail, UpToDate, Registered
  <2> QED BY <1>9, <2>2, <2>3 DEF Connects
<1>10. CASE Submits(d)
  <2>1. PICK pow \in Pows : Submit(d, pow)
    BY <1>10 DEF Submits
  <2> DEFINE k == [conn[d] EXCEPT !.pc = "hash", !.pow = pow, !.seen = mining.blockhash]
  <2>2. k.pc = "hash" /\ k.work = conn[d].work /\ conn' = [conn EXCEPT ![d] = k]
    BY <1>1, <2>1 DEF Submit, ConnState
  <2> HIDE DEF k
  <2> QED BY <1>4, <1>8, <2>1, <2>2 DEF Submit, OnlyConn
<1>11. CASE Proceeds(d)
  <2>1. CASE SendWork(d)
    <3> DEFINE m == Head(inbox[d])
    <3>1. /\ conn'[d].work = m.hash /\ inbox'[d] = Tail(inbox[d])
          /\ conn[d].pc = "ready" /\ conn'[d].pc = "ready"
          /\ inbox[d] # <<>> /\ m.type = "work"
          /\ \A c \in Conns \ {d} : conn'[c] = conn[c] /\ inbox'[c] = inbox[c]
      BY <1>1, <2>1 DEF SendWork, ConnState
    <3>2. mining.blockhash # Nil => LastIs(inbox[d], conn[d].work, mining.blockhash)
      BY <3>1 DEF WorkInv, UpToDate, Registered
    <3>3. mining.blockhash # Nil => LastIs(Tail(inbox[d]), m.hash, mining.blockhash)
      BY <1>1, <3>1, <3>2, WorkTaken
    <3> QED BY <1>2, <1>3, <3>1, <3>3 DEF WorkInv, NoMail, UpToDate, Registered
  <2>2. CASE HandleClose(d)
    BY <1>5, <2>2 DEF HandleClose
  <2>3. CASE ValidProof(d)
    BY <1>6, <1>8, <2>3 DEF ValidProof, Step
  <2>4. CASE InvalidProof(d)
    BY <1>7, <1>8, <2>4 DEF InvalidProof, OnlyConn
  <2>5. CASE SetNonce(d)
    BY <1>7, <1>8, <2>5 DEF SetNonce
  <2>6. CASE VerifyNonce(d)
    BY <1>6, <1>8, <2>6 DEF VerifyNonce, Step, OnlyConn
  <2>7. CASE SerializeHeader(d)
    <3> DEFINE k == [conn[d] EXCEPT !.pc = "body",
                       !.out = [NoOut EXCEPT !.root = backend.root, !.nonce = backend.nonce]]
    <3>1. k.pc = "body" /\ k.work = conn[d].work /\ conn' = [conn EXCEPT ![d] = k]
      BY <1>1, <2>7 DEF SerializeHeader, ConnState
    <3> HIDE DEF k
    <3> QED BY <1>4, <1>8, <2>7, <3>1 DEF SerializeHeader, OnlyConn
  <2>8. CASE CopyTransactions(d)
    <3> DEFINE k == [conn[d] EXCEPT !.pc = "send", !.out.body = backend.body]
    <3>1. k.pc = "send" /\ k.work = conn[d].work /\ conn' = [conn EXCEPT ![d] = k]
      BY <1>1, <2>8 DEF CopyTransactions, ConnState, Out
    <3> HIDE DEF k
    <3> QED BY <1>4, <1>8, <2>8, <3>1 DEF CopyTransactions, OnlyConn
  <2>9. CASE SendBlock(d)
    BY <1>7, <1>8, <2>9 DEF SendBlock, OnlyConn
  <2>10. CASE Accept(d)
    <3> DEFINE k == [conn[d] EXCEPT !.pc = "ready", !.accepted = conn[d].accepted + 1]
    <3>1. k.pc = "ready" /\ k.work = conn[d].work /\ conn' = [conn EXCEPT ![d] = k]
      BY <1>1, <2>10 DEF Accept, ConnState
    <3> HIDE DEF k
    <3> QED BY <1>4, <1>8, <2>10, <3>1 DEF Accept, OnlyConn
  <2> QED BY <1>11, <2>1, <2>2, <2>3, <2>4, <2>5, <2>6, <2>7, <2>8, <2>9, <2>10 DEF Proceeds
<1>12. CASE Fails(d)
  <2>1. CASE HashFails(d)
    BY <1>7, <1>8, <2>1 DEF HashFails, OnlyConn
  <2>2. CASE SubmitFails(d)
    <3>1. CASE conn' = [conn EXCEPT ![d] = Forget(conn[d], "accept")] /\ disconnect_all
      <4> DEFINE k == Forget(conn[d], "accept")
      <4>1. k.pc = "accept" /\ k.work = conn[d].work /\ conn[d].pc \in {"nonce", "send"}
        BY <1>1, <2>2 DEF Forget, ConnState, SubmitFails
      <4> HIDE DEF k
      <4>2. \A c \in Conns : /\ conn'[c].work = conn[c].work
                             /\ Registered(c)' <=> Registered(c)
                             /\ conn'[c].pc = "init" <=> conn[c].pc = "init"
        BY <1>1, <3>1, <4>1 DEF Registered, k
      <4> QED BY <1>2, <3>1, <4>2, CloseReaches DEF WorkInv
    <3> QED BY <1>5, <2>2, <3>1 DEF SubmitFails
  <2>3. CASE Stop(d) \/ BrokenStops(d) \/ CallFails(d) \/ CallTimesOut(d)
    BY <1>5, <2>3 DEF Stop, BrokenStops, CallFails, CallTimesOut
  <2> QED BY <1>12, <2>1, <2>2, <2>3 DEF Fails
<1> QED BY <1>9, <1>10, <1>11, <1>12

(* No miner is left on old work, whichever messages overtake each other,   *)
(* whatever fails and whenever connections start and end.                  *)
THEOREM MinersGetNewWork == Spec => []NoStaleWork
<1>1. Init => WorkInv
  BY DEF Init, WorkInv, NoMail, UpToDate, Registered, NewConn
<1>2. TypeOK /\ WorkInv /\ [Next]_vars => WorkInv'
  <2> SUFFICES ASSUME TypeOK, WorkInv, UNCHANGED vars PROVE WorkInv'
    BY WorkOfMining, WorkOfShares, WorkOfConns DEF Next
  <2> QED BY UpToDateKept DEF WorkInv, vars, Registered
<1>3. WorkInv => NoStaleWork
  BY DEF WorkInv, UpToDate, NoStaleWork
<1> QED BY <1>1, <1>2, <1>3, SharesTypeCorrect, PTL DEF Spec
================================================================================
