------------------------------ MODULE Channel ------------------------------
(* One payment channel: the on-chain program that escrows a payer's deposit *)
(* and the cluster that runs it, as the settlement worker and the gateway   *)
(* use them. External to the repository.                                    *)
(*                                                                          *)
(* Clocks are replaced by what they decide: the grace period of a close has *)
(* lapsed or it has not.                                                    *)
EXTENDS Integers

CONSTANTS
  Senders,    \* processes that submit transactions
  Deposit,    \* what the payer escrowed
  MaxForks    \* how many times unfinalized blocks are dropped

ASSUME ChannelAssumption == Deposit \in Nat \ {0} /\ MaxForks \in Nat

VARIABLES
  chain,      \* the channel account at confirmed commitment
  fin,        \* the channel account at finalized commitment
  tx,         \* the transaction each sender waits for
  landing,    \* how far that transaction got
  forks,
  payerClosed \* the payer ever requested a close

channelVars == <<chain, fin, tx, landing, forks, payerClosed>>

Statuses == {"open", "closing", "sealed", "distributed", "gone"}

(* settled is the voucher watermark, paid what distributions paid out,      *)
(* lapsed whether a requested close outlived its grace period.              *)
Accounts ==
  [status : Statuses, settled : 0..Deposit, paid : 0..Deposit, lapsed : BOOLEAN]

(* A transaction is a close step, then possibly a distribution; both happen *)
(* or neither. Amount 0 stands for no voucher.                              *)
Txs ==
  [op : {"settle", "settleAndSeal", "seal", "reclaim", "none"},
   amount : 0..Deposit, distribute : BOOLEAN]

NoTx == [op |-> "none", amount |-> 0, distribute |-> FALSE]

InGrace(c) == c.status = "closing" /\ ~c.lapsed

Lapsed(c) == c.status = "closing" /\ c.lapsed

(* What the first instruction needs. Vouchers are strictly monotonic.       *)
OpAccepted(t, c) ==
  CASE t.op = "settle"        -> c.status = "open" /\ t.amount > c.settled
    [] t.op = "settleAndSeal" -> /\ c.status = "open" \/ InGrace(c)
                                 /\ t.amount # 0 => t.amount > c.settled
    [] t.op = "seal"          -> Lapsed(c)
    [] t.op = "reclaim"       -> c.status = "distributed"
    [] t.op = "none"          -> t.distribute

AfterOp(t, c) ==
  [c EXCEPT !.settled = IF t.amount # 0 THEN t.amount ELSE @,
            !.status = CASE t.op \in {"settleAndSeal", "seal"} -> "sealed"
                         [] t.op = "reclaim" -> "gone"
                         [] OTHER -> @]

AfterDistribute(c) ==
  [c EXCEPT !.paid = c.settled,
            !.status = IF @ = "sealed" THEN "distributed" ELSE @]

Accepted(t, c) ==
  /\ OpAccepted(t, c)
  /\ t.distribute => AfterOp(t, c).status \in {"open", "sealed"}

After(t, c) ==
  IF t.distribute THEN AfterDistribute(AfterOp(t, c)) ELSE AfterOp(t, c)

NewAccount == [status |-> "open", settled |-> 0, paid |-> 0, lapsed |-> FALSE]

ChannelInit ==
  /\ chain = NewAccount
  /\ fin = NewAccount
  /\ tx = [s \in Senders |-> NoTx]
  /\ landing = [s \in Senders |-> "none"]
  /\ forks = 0
  /\ payerClosed = FALSE

ChannelTypeOK ==
  /\ chain \in Accounts
  /\ fin \in Accounts
  /\ tx \in [Senders -> Txs]
  /\ landing \in [Senders -> {"none", "pending", "confirmed", "finalized"}]
  /\ forks \in 0..MaxForks
  /\ payerClosed \in BOOLEAN

(* A sent transaction is confirmed. Landing twice changes nothing: every    *)
(* effect of a transaction makes it unacceptable.                           *)
Confirmed(s) ==
  /\ landing[s] = "pending"
  /\ Accepted(tx[s], chain)
  /\ chain' = After(tx[s], chain)
  /\ landing' = [landing EXCEPT ![s] = "confirmed"]
  /\ UNCHANGED <<fin, tx, forks, payerClosed>>

(* The payer, or anyone where the program asks for no signature, acts.      *)
RequestClose ==
  /\ chain.status = "open"
  /\ chain' = [chain EXCEPT !.status = "closing"]
  /\ payerClosed' = TRUE
  /\ UNCHANGED <<fin, tx, landing, forks>>

(* Time passes for the confirmed and for the finalized account alike.       *)
GraceLapses ==
  /\ InGrace(chain)
  /\ chain' = [chain EXCEPT !.lapsed = TRUE]
  /\ fin' = [fin EXCEPT !.lapsed = fin.status = "closing"]
  /\ UNCHANGED <<tx, landing, forks, payerClosed>>

PermissionlessTxs ==
  {[op |-> "seal", amount |-> 0, distribute |-> FALSE],
   [op |-> "none", amount |-> 0, distribute |-> TRUE]}

Permissionless(t) ==
  /\ t \in PermissionlessTxs
  /\ chain.status \in {"closing", "sealed"}
  /\ Accepted(t, chain)
  /\ chain' = After(t, chain)
  /\ UNCHANGED <<fin, tx, landing, forks, payerClosed>>

(* Everything confirmed becomes final.                                      *)
Finalize ==
  /\ fin # chain
  /\ fin' = chain
  /\ landing' = [s \in Senders |-> IF landing[s] = "confirmed" THEN "finalized" ELSE landing[s]]
  /\ UNCHANGED <<chain, tx, forks, payerClosed>>

(* The confirmed blocks after the last finalized one are dropped.           *)
Fork ==
  /\ forks < MaxForks
  /\ chain # fin
  /\ forks' = forks + 1
  /\ chain' = fin
  /\ landing' = [s \in Senders |-> IF landing[s] = "confirmed" THEN "pending" ELSE landing[s]]
  /\ UNCHANGED <<fin, tx, payerClosed>>

(* Broadcast t on behalf of s.                                              *)
Broadcast(s, t) ==
  /\ tx' = [tx EXCEPT ![s] = t]
  /\ landing' = [landing EXCEPT ![s] = "pending"]
  /\ UNCHANGED <<chain, fin, forks, payerClosed>>

(* s stops waiting and its transaction expires unseen. One that lands after *)
(* its sender moved on is one another sender still waits for.               *)
Abandon(s) ==
  /\ tx' = [tx EXCEPT ![s] = NoTx]
  /\ landing' = [landing EXCEPT ![s] = "none"]
  /\ UNCHANGED <<chain, fin, forks, payerClosed>>

(* What a read at confirmed commitment may return: a node may lag.          *)
Views == {chain, fin}
=============================================================================
