------------------------------- MODULE Ledger -------------------------------
(***************************************************************************)
(* The Solana cluster as the payout code sees it through JSON-RPC.  The     *)
(* cluster itself is not part of this repository; this module is the        *)
(* environment that landing.rs, fanout.rs, executor.rs and redeem.rs are    *)
(* written against.                                                         *)
(*                                                                          *)
(* The chain is a sequence of blocks numbered from 1 (slots without a block *)
(* are left out, so a slot and a block height are the same number).  A      *)
(* prefix of it is confirmed and a prefix of that is finalized.  A signed   *)
(* transaction names a recent block and can be included only in blocks up   *)
(* to its expiry height.  Blocks above the reorganisation floor can be      *)
(* dropped; what they held may be included again while it is still valid.   *)
(***************************************************************************)
EXTENDS Integers

CONSTANTS
  Tx,                 \* the signed transactions there may ever be
  Window,             \* how many blocks a recent block stays usable
  MaxHeight,          \* bound: the last block of the model
  MaxExpiry,          \* bound: the last height a transaction may be valid at
  MaxForks,           \* bound: how many reorganisations may happen
  ConfirmedIsFinal    \* TRUE when a confirmed block is never dropped

ASSUME LedgerAssumption ==
  /\ Window \in Nat
  /\ MaxHeight \in Nat
  /\ MaxExpiry \in Nat
  /\ MaxForks \in Nat
  /\ ConfirmedIsFinal \in BOOLEAN

VARIABLES
  height,      \* the newest block
  confirmed,   \* the newest confirmed block
  final,       \* the newest finalized block
  expiry,      \* last valid block height of each signed transaction
  pool,        \* transactions handed to the network
  block,       \* the block a transaction was executed in, 0 if none
  failed,      \* transactions whose execution returned an error
  forks        \* reorganisations so far

ledgerVars == <<height, confirmed, final, expiry, pool, block, failed, forks>>

LedgerTypeOK ==
  /\ height \in Nat /\ confirmed \in Nat /\ final \in Nat
  /\ expiry \in [Tx -> Nat]
  /\ pool \subseteq Tx
  /\ block \in [Tx -> Nat]
  /\ failed \subseteq Tx
  /\ forks \in Nat

LedgerInit ==
  /\ height = 0 /\ confirmed = 0 /\ final = 0 /\ forks = 0
  /\ expiry = [t \in Tx |-> 0]
  /\ block = [t \in Tx |-> 0]
  /\ pool = {} /\ failed = {}

-----------------------------------------------------------------------------
(* The cluster's own steps.                                                 *)

NewBlock ==
  /\ height < MaxHeight
  /\ height' = height + 1
  /\ UNCHANGED <<confirmed, final, expiry, pool, block, failed, forks>>

(* A pooled transaction executes in the newest block, if that block is not  *)
(* confirmed yet and the transaction has neither executed nor expired.      *)
Include(t, succeeds) ==
  /\ t \in pool
  /\ block[t] = 0
  /\ confirmed < height
  /\ height <= expiry[t]
  /\ block' = [block EXCEPT ![t] = height]
  /\ failed' = IF succeeds THEN failed ELSE failed \cup {t}
  /\ UNCHANGED <<height, confirmed, final, expiry, pool, forks>>

Confirm ==
  /\ confirmed < height
  /\ confirmed' = confirmed + 1
  /\ UNCHANGED <<height, final, expiry, pool, block, failed, forks>>

Finalize ==
  /\ final < confirmed
  /\ final' = final + 1
  /\ UNCHANGED <<height, confirmed, expiry, pool, block, failed, forks>>

(* Every block above h is dropped.                                          *)
Fork(h) ==
  /\ forks < MaxForks
  /\ h < height
  /\ h >= IF ConfirmedIsFinal THEN confirmed ELSE final
  /\ height' = h
  /\ confirmed' = IF confirmed > h THEN h ELSE confirmed
  /\ block' = [t \in Tx |-> IF block[t] > h THEN 0 ELSE block[t]]
  /\ failed' = {t \in failed : block[t] <= h}
  /\ forks' = forks + 1
  /\ UNCHANGED <<final, expiry, pool>>

LedgerNext ==
  \/ NewBlock
  \/ Confirm
  \/ Finalize
  \/ \E t \in Tx, succeeds \in BOOLEAN : Include(t, succeeds)
  \/ \E h \in 0..MaxHeight : Fork(h)

-----------------------------------------------------------------------------
(* What a client does to the ledger and reads from it.                      *)

(* Signing fixes the bytes, and with them the last block they are valid in. *)
SignTx(t, lastValid) ==
  /\ expiry' = [expiry EXCEPT ![t] = lastValid]
  /\ UNCHANGED <<height, confirmed, final, pool, block, failed, forks>>

(* sendTransaction.  A node that answers has forwarded the bytes; when the  *)
(* call fails the bytes may or may not have reached the network.            *)
SendTx(t, forwarded) ==
  /\ pool' = IF forwarded THEN pool \cup {t} ELSE pool
  /\ UNCHANGED <<height, confirmed, final, expiry, block, failed, forks>>

(* getLatestBlockhash at confirmed commitment, from a node that may lag or  *)
(* a client-side cache: the last valid height of any block confirmed so far.*)
RecentExpiries == {b + Window : b \in 0..confirmed} \cap 0..MaxExpiry

(* The getSignatureStatuses entry of t at a node whose newest block is v.   *)
RpcEntry(t, v) ==
  IF block[t] = 0 \/ block[t] > v
  THEN [found |-> FALSE, err |-> FALSE, commitment |-> "none"]
  ELSE [found |-> TRUE, err |-> t \in failed,
        commitment |-> IF block[t] <= final THEN "finalized"
                       ELSE IF block[t] <= confirmed THEN "confirmed"
                       ELSE "processed"]

Landed(t) == block[t] # 0 /\ t \notin failed

(* t has not executed successfully and never will.                          *)
Dead(t) ==
  \/ final > expiry[t] /\ ~Landed(t)
  \/ block[t] # 0 /\ block[t] <= final /\ t \in failed
=============================================================================
