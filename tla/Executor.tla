------------------------------- MODULE Executor -------------------------------
(***************************************************************************)
(* The ledger of a node and what executing and undoing transactions does   *)
(* to it: src/c++/src/server/executor.cpp, ledger.cpp and tx_store.cpp.    *)
(*                                                                         *)
(* A ledger is a function on the wallets the database has a value of, the  *)
(* transaction store a function from transactions to block ids.  A         *)
(* transaction is a name: `TxBody' gives its contents, the signature is    *)
(* its validity and the wallet of the signing key, and the hash of the     *)
(* contents is the name itself.                                            *)
(***************************************************************************)
EXTENDS Integers, Sequences, SequencesExt, TLC

CONSTANTS Wallet,        \* PublicWalletAddress
          NullAddress,   \* NULL_ADDRESS
          Tx,            \* transactions
          TxBody,        \* their contents
          AmountLimit,   \* 2^64, the values of a TransactionAmount
          SigForkBlock   \* WALLET_SIG_FORK_BLOCK

Amount == 0 .. AmountLimit - 1

Transaction == [fee : BOOLEAN,       \* isTransactionFee, a mining fee
                from : Wallet, to : Wallet, amount : Amount, fees : Amount,
                signed : BOOLEAN,    \* signatureValid()
                signer : Wallet,     \* walletAddressFromPublicKey(signingKey)
                hash : Nat]          \* rank of getHash(), by which trees sort

ASSUME ExecutorAssumption ==
  /\ NullAddress \in Wallet
  /\ AmountLimit \in Nat \ {0} /\ SigForkBlock \in Nat
  /\ TxBody \in [Tx -> Transaction]

-------------------------------------------------------------------------------
(* Amounts are 64-bit unsigned.                                            *)

Plus(a, b) == IF a + b < AmountLimit THEN a + b ELSE a + b - AmountLimit
Minus(a, b) == IF b <= a THEN a - b ELSE a - b + AmountLimit

(* The ledger and the map of deltas.                                       *)

HasWallet(ledger, w) == w \in DOMAIN ledger
ValueOf(f, w) == IF w \in DOMAIN f THEN f[w] ELSE 0
SetWalletValue(f, w, v) == [x \in DOMAIN f \cup {w} |-> IF x = w THEN v ELSE f[x]]
Increase(f, w, amt) == SetWalletValue(f, w, Plus(ValueOf(f, w), amt))
Decrease(f, w, amt) == SetWalletValue(f, w, Minus(ValueOf(f, w), amt))

\* An execution under way: the ledger it writes and the deltas it remembers.
Begin(ledger) == [status |-> "SUCCESS", ledger |-> ledger, deltas |-> <<>>]
Deposit(x, to, amt) ==
  [x EXCEPT !.ledger = Increase(@, to, amt), !.deltas = Increase(@, to, amt)]
\* Mutant: a withdrawal is not remembered.
WithdrawForgotten(x, from, amt) == [x EXCEPT !.ledger = Decrease(@, from, amt)]

Withdraw(x, from, amt) ==
  [x EXCEPT !.ledger = Decrease(@, from, amt), !.deltas = Decrease(@, from, amt)]

-------------------------------------------------------------------------------
(* updateLedger and rollbackLedger, one transaction.                       *)

Mismatch(t) == ~TxBody[t].fee /\ TxBody[t].signer # TxBody[t].from

UpdateStatus(ledger, t, blockMiningFee, blockId) ==
  LET b == TxBody[t]
  IN  IF blockId > SigForkBlock /\ Mismatch(t) THEN "WALLET_SIGNATURE_MISMATCH"
      ELSE IF b.fee /\ b.amount # blockMiningFee THEN "INCORRECT_MINING_FEE"
      ELSE IF b.fee \/ blockId = 1 THEN "SUCCESS"
      ELSE IF ~HasWallet(ledger, b.from) THEN "SENDER_DOES_NOT_EXIST"
      ELSE IF ledger[b.from] < Plus(b.amount, b.fees) THEN "BALANCE_TOO_LOW"
      ELSE "SUCCESS"

Moves(x, t, miner, blockId) ==
  LET b == TxBody[t]
      paid == Deposit(Withdraw(x, b.from, b.amount), b.to, b.amount)
  IN  IF b.fee \/ blockId = 1 THEN Deposit(x, b.to, b.amount)
      ELSE IF b.fees = 0 THEN paid
      ELSE Deposit(Withdraw(paid, b.from, b.fees), miner, b.fees)

UpdateLedger(x, t, miner, blockMiningFee, blockId) ==
  LET status == UpdateStatus(x.ledger, t, blockMiningFee, blockId)
  IN  IF status = "SUCCESS" THEN Moves(x, t, miner, blockId)
      ELSE [x EXCEPT !.status = status]

\* Mutant: the sender does not get the fees back.
RollbackLedgerKeepsFees(ledger, t, miner) ==
  LET b == TxBody[t]
      unpaid == Decrease(ledger, b.to, b.amount)
  IN  IF b.fee THEN unpaid ELSE Increase(unpaid, b.from, b.amount)

RollbackLedger(ledger, t, miner) ==
  LET b == TxBody[t]
      unpaid == Decrease(ledger, b.to, b.amount)
      unsent == Increase(unpaid, b.from, b.amount)
  IN  IF b.fee THEN unpaid
      ELSE IF b.fees = 0 THEN unsent
      ELSE Increase(Decrease(unsent, miner, b.fees), b.from, b.fees)

\* Executor::Rollback: every wallet of the deltas is withdrawn its delta.
Rollback(ledger, deltas) ==
  [w \in DOMAIN ledger |-> Minus(ledger[w], ValueOf(deltas, w))]

-------------------------------------------------------------------------------
(* ExecuteTransaction, for one that is not a mining fee.                   *)

ExecuteTransaction(ledger, t) ==
  IF ~TxBody[t].signed THEN [Begin(ledger) EXCEPT !.status = "INVALID_SIGNATURE"]
  ELSE IF Mismatch(t) THEN [Begin(ledger) EXCEPT !.status = "WALLET_SIGNATURE_MISMATCH"]
  ELSE UpdateLedger(Begin(ledger), t, NullAddress, 0, 0)

(* ExecuteBlock: first a pass over the transactions, then their execution  *)
(* in order up to the first that fails.                                    *)

FeeTxs(txs) == {i \in DOMAIN txs : TxBody[txs[i]].fee}
Miner(txs) == TxBody[txs[Min(FeeTxs(txs))]].to

PassStatus(txs, i, txdb, blockId) ==
  LET t == txs[i]
  IN  IF TxBody[t].fee /\ \E j \in FeeTxs(txs) : j < i THEN "EXTRA_MINING_FEE"
      ELSE IF ~TxBody[t].fee /\ t \in DOMAIN txdb /\ blockId # 1 THEN "EXPIRED_TRANSACTION"
      ELSE IF blockId > SigForkBlock /\ Mismatch(t) THEN "WALLET_SIGNATURE_MISMATCH"
      ELSE "SUCCESS"

FirstPass(txs, txdb, blockId, blockMiningFee) ==
  LET refused == {i \in DOMAIN txs : PassStatus(txs, i, txdb, blockId) # "SUCCESS"}
  IN  IF refused # {} THEN PassStatus(txs, Min(refused), txdb, blockId)
      ELSE IF FeeTxs(txs) = {} THEN "NO_MINING_FEE"
      ELSE IF TxBody[txs[Min(FeeTxs(txs))]].amount # blockMiningFee THEN "INCORRECT_MINING_FEE"
      ELSE "SUCCESS"

ExecuteNext(x, t, miner, blockMiningFee, blockId) ==
  IF x.status # "SUCCESS" THEN x
  ELSE IF ~TxBody[t].fee /\ ~TxBody[t].signed /\ blockId # 1
       THEN [x EXCEPT !.status = "INVALID_SIGNATURE"]
  ELSE UpdateLedger(x, t, miner, blockMiningFee, blockId)

\* The first k transactions, executed up to the first that fails.
Executed(txs, k, blockId, ledger, blockMiningFee) ==
  LET x[i \in 0 .. Len(txs)] ==
        IF i = 0 THEN Begin(ledger)
        ELSE ExecuteNext(x[i - 1], txs[i], Miner(txs), blockMiningFee, blockId)
  IN  x[k]

ExecuteBlock(txs, blockId, ledger, txdb, blockMiningFee) ==
  LET pass == FirstPass(txs, txdb, blockId, blockMiningFee)
  IN  IF pass # "SUCCESS" THEN [Begin(ledger) EXCEPT !.status = pass]
      ELSE Executed(txs, Len(txs), blockId, ledger, blockMiningFee)

(* RollbackBlock: the transactions are undone from the last to the first,  *)
(* here down to the k-th.                                                  *)

RollbackFrom(txs, k, ledger, txdb) ==
  LET undone[i \in 1 .. Len(txs) + 1] ==
        IF i > Len(txs) THEN ledger ELSE RollbackLedger(undone[i + 1], txs[i], Miner(txs))
      last == {txs[i] : i \in k .. Len(txs)}
  IN  [ledger |-> undone[k],
       txdb |-> [t \in DOMAIN txdb \ {u \in last : ~TxBody[u].fee} |-> txdb[t]]]
RollbackBlock(txs, ledger, txdb) == RollbackFrom(txs, 1, ledger, txdb)

===============================================================================
