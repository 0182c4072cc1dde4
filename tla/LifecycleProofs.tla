--------------------------- MODULE LifecycleProofs ---------------------------
(***************************************************************************)
(* The embedded lifecycle seals a channel at what its replicas accepted,    *)
(* writes off nothing that is left to do on chain, and closes no channel    *)
(* under a request: for any number of replicas, requests and restarts, and  *)
(* any deposit.                                                             *)
(***************************************************************************)
EXTENDS Lifecycle, TLAPS

(* Most steps are logic without arithmetic; the others name the SMT backend. *)
USE Zenon

-----------------------------------------------------------------------------
(* The inductive invariant.                                                 *)

Past == {"sealed"} \cup Ended

(* The task of a client's close.                                            *)
Client(g) == <<g, "client">>

(* The capacity slot has one holder.                                        *)
SlotInv ==
  /\ \A g \in Gateways :
       /\ pc[Runloop(g)] \in {"claim", "settle", "closing"} => slot[g] = "runloop"
       /\ pc[Client(g)] # "idle" => \E q \in Requests : at[q] = g /\ req[q] = "closing"
  /\ \A q \in Requests : req[q] \in {"held", "charged", "closing"} => slot[at[q]] = q

(* A scan that is current was made by the owner of the lease.               *)
ScanInv == current \subseteq {rec.owner}

(* A close is on record before anything is sent for it, and a payout task   *)
(* waits for a payout.                                                      *)
TaskInv ==
  \A s \in Closers :
    /\ pc[s] \in {"settle", "closing"} => Ending(rec)
    /\ pc[s] = "paid" => tx[s].distribute \/ tx[s].op = "reclaim"
    /\ s[2] = "client" => pc[s] \in {"idle", "claim", "settle", "closing"}

(* The channel leaves "open" only by a close on record, at what was         *)
(* accepted; the record is not ahead of it.                                 *)
ChainInv ==
  /\ chain.status # "closing"
  /\ chain.settled <= rec.cum
  /\ chain.status # "open" => Ending(rec) /\ chain.settled = rec.cum
  /\ rec.sealed => chain.status \in Ended
  /\ rec.deferred => chain.status \in Past

(* What was sent and may land, or has landed.                               *)
TxInv(s) ==
  /\ landing[s] \in {"none", "pending", "confirmed"}
  /\ landing[s] # "none" =>
       /\ tx[s].op # "seal"
       /\ (tx[s].op = "settle") = (s[2] = "push")
       /\ tx[s].op = "settle" => tx[s].amount # 0 /\ tx[s].amount <= rec.cum /\ ~tx[s].distribute
       /\ tx[s].op = "settleAndSeal" =>
            /\ Ending(rec)
            /\ IF tx[s].amount = 0 THEN chain.settled = rec.cum ELSE tx[s].amount = rec.cum
       /\ tx[s].op \in {"none", "reclaim"} => tx[s].amount = 0 /\ chain.status \in Past
  /\ landing[s] = "confirmed" =>
       /\ s[2] # "push" /\ chain.status \in Past
       /\ tx[s].distribute \/ tx[s].op = "reclaim" => chain.status \in Ended

ChannelInv == ChainInv /\ \A s \in Senders : TxInv(s)

IInv == TypeOK /\ SlotInv /\ ScanInv /\ TaskInv /\ ChannelInv

-----------------------------------------------------------------------------
(* Accounts and transactions.                                               *)

(* What a transaction that lands does to a channel nobody asked to close    *)
(* on chain.                                                                *)
LEMMA Landing ==
  ASSUME NEW t \in Txs, NEW c \in Accounts, Accepted(t, c), c.status # "closing", t.op # "seal"
  PROVE  /\ After(t, c) \in Accounts
         /\ After(t, c).settled = IF t.amount # 0 THEN t.amount ELSE c.settled
         /\ t.amount # 0 /\ t.op \in {"settle", "settleAndSeal"} => t.amount > c.settled
         /\ t.op \in {"settle", "settleAndSeal"} => c.status = "open"
         /\ t.op = "settle" /\ ~t.distribute => After(t, c).status = "open"
         /\ t.op = "settleAndSeal" =>
              After(t, c).status = IF t.distribute THEN "distributed" ELSE "sealed"
         /\ t.op = "none" => t.distribute /\ (c.status # "open" => c.status = "sealed" /\ After(t, c).status = "distributed")
         /\ t.op = "reclaim" => ~t.distribute /\ c.status = "distributed" /\ After(t, c).status = "gone"
<1>1. /\ t.op \in {"settle", "settleAndSeal", "seal", "reclaim", "none"} /\ t.amount \in 0..Deposit
      /\ t.distribute \in BOOLEAN
  BY DEF Txs
<1>2. c.status \in Statuses /\ c.settled \in 0..Deposit /\ c.paid \in 0..Deposit /\ c.lapsed \in BOOLEAN
  BY DEF Accounts
<1>3. AfterOp(t, c) \in Accounts /\ AfterOp(t, c).settled = (IF t.amount # 0 THEN t.amount ELSE c.settled)
  BY <1>1, <1>2 DEF AfterOp, Accounts, Statuses
<1>4. AfterOp(t, c).status = CASE t.op = "settleAndSeal" -> "sealed" [] t.op = "reclaim" -> "gone" [] OTHER -> c.status
  BY <1>1 DEF AfterOp, Accounts
<1>5. OpAccepted(t, c) /\ (t.distribute => AfterOp(t, c).status \in {"open", "sealed"})
  BY DEF Accepted
<1> DEFINE a == AfterOp(t, c)
<1>6. a \in Accounts
  BY <1>3
<1> HIDE DEF a
<1>7. /\ AfterDistribute(a) \in Accounts /\ AfterDistribute(a).settled = a.settled
      /\ AfterDistribute(a).status = IF a.status = "sealed" THEN "distributed" ELSE a.status
  BY <1>6 DEF AfterDistribute, Accounts, Statuses
<1>8. After(t, c) = IF t.distribute THEN AfterDistribute(a) ELSE a
  BY DEF After, a
<1>9. /\ After(t, c) \in Accounts /\ After(t, c).settled = a.settled
      /\ After(t, c).status = IF t.distribute /\ a.status = "sealed" THEN "distributed" ELSE a.status
  BY <1>6, <1>7, <1>8
<1>10. /\ t.op \in {"settle", "settleAndSeal"} => c.status = "open" /\ (t.amount # 0 => t.amount > c.settled)
       /\ t.op = "reclaim" => c.status = "distributed"
       /\ t.op = "none" => t.distribute
  BY <1>1, <1>5 DEF OpAccepted, InGrace
<1>11. a.settled = (IF t.amount # 0 THEN t.amount ELSE c.settled)
  BY <1>3 DEF a
<1>12. a.status = CASE t.op = "settleAndSeal" -> "sealed" [] t.op = "reclaim" -> "gone" [] OTHER -> c.status
  BY <1>4 DEF a
<1>13. t.distribute => a.status \in {"open", "sealed"}
  BY <1>5 DEF a
<1> QED BY <1>1, <1>9, <1>10, <1>11, <1>12, <1>13

(* The records the code makes of a record.                                  *)
LEMMA RecordUpdates ==
  ASSUME NEW r \in Records
  PROVE  /\ \A g \in Gateways : /\ Leased(r, g) \in Records
                                /\ [Leased(r, g) EXCEPT !.due = FALSE] \in Records
         /\ Sealed(r) \in Records
         /\ [r EXCEPT !.asked = TRUE] \in Records
         /\ [r EXCEPT !.deferred = TRUE] \in Records
         /\ [r EXCEPT !.owner = Departed] \in Records
         /\ [r EXCEPT !.live = FALSE] \in Records
         /\ [r EXCEPT !.due = TRUE] \in Records
         /\ r.cum < Deposit => [r EXCEPT !.cum = @ + 1, !.due = FALSE] \in Records
<1>1. /\ r.cum \in 0..Deposit /\ r.asked \in BOOLEAN /\ r.sealed \in BOOLEAN /\ r.deferred \in BOOLEAN
      /\ r.owner \in Gateways \cup {Departed} /\ r.live \in BOOLEAN /\ r.due \in BOOLEAN
  BY DEF Records
<1>2. /\ Sealed(r) \in Records
      /\ [r EXCEPT !.asked = TRUE] \in Records /\ [r EXCEPT !.deferred = TRUE] \in Records
      /\ [r EXCEPT !.live = FALSE] \in Records /\ [r EXCEPT !.due = TRUE] \in Records
  BY <1>1 DEF Records, Sealed
<1>3. [r EXCEPT !.owner = Departed] \in Records
  BY <1>1 DEF Records
<1>4. \A g \in Gateways : Leased(r, g) \in Records /\ [Leased(r, g) EXCEPT !.due = FALSE] \in Records
  BY <1>1 DEF Records, Leased
<1>5. r.cum < Deposit => [r EXCEPT !.cum = @ + 1, !.due = FALSE] \in Records
  <2>1. r.cum < Deposit => r.cum + 1 \in 0..Deposit
    BY SMTT(30), <1>1, ChannelAssumption
  <2>2. \A n \in 0..Deposit : [r EXCEPT !.cum = n, !.due = FALSE] \in Records
    BY <1>1 DEF Records
  <2> QED BY <2>1, <2>2
<1> QED BY <1>2, <1>3, <1>4, <1>5

(* What they leave alone.                                                   *)
LEMMA RecordFields ==
  ASSUME NEW r \in Records
  PROVE  /\ \A g \in Gateways :
              \A l \in {Leased(r, g), [Leased(r, g) EXCEPT !.due = FALSE]} :
                /\ l.owner = g /\ l.cum = r.cum /\ l.sealed = r.sealed /\ l.deferred = r.deferred
                /\ l.asked = r.asked
         /\ \A l \in {Sealed(r), [r EXCEPT !.asked = TRUE], [r EXCEPT !.deferred = TRUE],
                      [r EXCEPT !.owner = Departed], [r EXCEPT !.live = FALSE],
                      [r EXCEPT !.due = TRUE]} :
              l.cum = r.cum
         /\ Sealed(r).sealed /\ Sealed(r).deferred = r.deferred /\ Sealed(r).owner = r.owner
         /\ Sealed(r).asked = r.asked
         /\ LET l == [r EXCEPT !.asked = TRUE]
            IN  l.asked /\ l.sealed = r.sealed /\ l.deferred = r.deferred /\ l.owner = r.owner
         /\ LET l == [r EXCEPT !.deferred = TRUE]
            IN  l.asked = r.asked /\ l.sealed = r.sealed /\ l.deferred /\ l.owner = r.owner
         /\ LET l == [r EXCEPT !.owner = Departed]
            IN  l.asked = r.asked /\ l.sealed = r.sealed /\ l.deferred = r.deferred /\ l.owner = Departed
         /\ \A l \in {[r EXCEPT !.live = FALSE], [r EXCEPT !.due = TRUE],
                      [r EXCEPT !.cum = @ + 1, !.due = FALSE]} :
              /\ l.asked = r.asked /\ l.sealed = r.sealed /\ l.deferred = r.deferred
              /\ l.owner = r.owner
         /\ [r EXCEPT !.cum = @ + 1, !.due = FALSE].cum = r.cum + 1
BY DEF Records, Leased, Sealed

-----------------------------------------------------------------------------
(* Types.                                                                   *)

(* The part of the types that is not about the channel or its record.       *)
LocalTypes ==
  /\ current \subseteq Gateways
  /\ slot \in [Gateways -> Requests \cup {"free", "runloop"}]
  /\ req \in [Requests -> {"new", "vouched", "touched", "held", "charged", "closing", "done"}]
  /\ at \in [Requests -> Gateways]
  /\ pc \in [Closers -> {"idle", "payouts", "paying", "paid", "scan", "claim", "settle",
                         "closing"}]
  /\ pending \subseteq Gateways
  /\ known \subseteq Gateways
  /\ restarts \in 0..MaxRestarts

(* The lanes of a replica are senders, and two of them close.               *)
LEMMA Lane ==
  /\ \A s \in Closers : s \in Senders /\ s[1] \in Gateways /\ s[2] \in {"runloop", "client"}
                        /\ s = <<s[1], s[2]>>
  /\ \A g \in Gateways : /\ Runloop(g) \in Closers /\ Runloop(g)[1] = g /\ Runloop(g)[2] = "runloop"
                         /\ Client(g) \in Closers /\ <<g, "push">> \in Senders
                         /\ <<g, "push">>[2] = "push" /\ Client(g)[1] = g /\ Client(g)[2] = "client"
  /\ \A s \in Senders : s[2] # "push" => s \in Closers
  /\ \A s \in Senders : s[1] \in Gateways /\ s[2] \in Lanes /\ s = <<s[1], s[2]>>
  /\ \A s \in Closers : s = IF s[2] = "runloop" THEN Runloop(s[1]) ELSE Client(s[1])
  /\ \A g, h \in Gateways : /\ Runloop(g) # Client(h)
                            /\ g # h => Runloop(g) # Runloop(h) /\ Client(g) # Client(h)
BY SMTT(30), LifecycleAssumption DEF Closers, Runloop, Client, Lanes

(* A request's step keeps the local types.                                  *)
LEMMA RequestTypes ==
  ASSUME TypeOK, NEW q \in Requests, RequestStep(q)
  PROVE  LocalTypes' /\ rec' \in Records /\ UNCHANGED channelVars
<1>1. LocalTypes /\ rec \in Records /\ at[q] \in Gateways
  BY DEF TypeOK, LocalTypes
<1>2. ASSUME PersistTouch(at[q]) PROVE rec' \in Records /\ current' \subseteq Gateways
  BY <1>1, <1>2, RecordUpdates DEF PersistTouch, LocalTypes
<1>3. CASE Touch(q)
  BY <1>1, <1>2, <1>3 DEF Touch, LocalTypes, replicaVars
<1>4. CASE ReserveCapacity(q)
  BY SMTT(30), <1>1, <1>4 DEF ReserveCapacity, LocalTypes, recordVars
<1>5. ASSUME AcceptVoucher(q)
      PROVE  /\ rec' \in Records /\ current' \subseteq Gateways /\ known' \subseteq Gateways
             /\ UNCHANGED <<channelVars, slot, pc, pending, restarts, at>>
  BY <1>1, <1>5, RecordUpdates DEF AcceptVoucher, LocalTypes
<1>6. CASE Charge(q)
  BY <1>1, <1>5, <1>6 DEF Charge, LocalTypes
<1>7. CASE Voucher(q)
  BY <1>1, <1>5, <1>7 DEF Voucher, LocalTypes
<1>8. CASE Heartbeat(q)
  BY <1>1, <1>2, <1>8 DEF Heartbeat, LocalTypes, replicaVars, requestVars
<1>9. CASE EndRequest(q)
  BY <1>1, <1>9 DEF EndRequest, LocalTypes, recordVars
<1>10. CASE ClientCloses(q)
  BY <1>1, <1>10, Lane DEF ClientCloses, Client, Goto, LocalTypes, recordVars
<1> QED BY <1>3, <1>4, <1>6, <1>7, <1>8, <1>9, <1>10 DEF RequestStep

(* A closing task's step keeps the local types.                             *)
LEMMA CloseTypes ==
  ASSUME TypeOK, NEW s \in Closers, CloseStep(s)
  PROVE  LocalTypes' /\ rec' \in Records
<1>1. LocalTypes /\ rec \in Records /\ s[1] \in Gateways
  BY Lane DEF TypeOK, LocalTypes
<1>2. ASSUME PersistTouch(s[1]) PROVE rec' \in Records /\ current' \subseteq Gateways
  BY <1>1, <1>2, RecordUpdates DEF PersistTouch, LocalTypes
<1>3. ASSUME Done(s)
      PROVE  /\ slot' \in [Gateways -> Requests \cup {"free", "runloop"}]
             /\ req' \in [Requests -> {"new", "vouched", "touched", "held", "charged", "closing", "done"}]
             /\ pc' \in [Closers -> {"idle", "payouts", "paying", "paid", "scan", "claim", "settle",
                                    "closing"}]
  BY <1>1, <1>3 DEF Done, Goto, LocalTypes
<1>4. CASE RequestServerClose(s)
  <2>1. rec' \in Records /\ current' \subseteq Gateways
    BY <1>1, <1>4, RecordUpdates DEF RequestServerClose, LocalTypes
  <2>2. CASE Done(s)
    BY <1>1, <1>3, <1>4, <2>1, <2>2 DEF RequestServerClose, LocalTypes
  <2>3. CASE Goto(s, "settle") /\ UNCHANGED <<slot, req>>
    BY <1>1, <1>4, <2>1, <2>3 DEF RequestServerClose, Goto, LocalTypes
  <2> QED BY <1>4, <2>2, <2>3 DEF RequestServerClose
<1>5. CASE FinishClose(s)
  <2>1. rec' \in Records
    BY <1>1, <1>5, RecordUpdates DEF FinishClose, AfterClose
  <2> QED BY <1>1, <1>3, <1>5, <2>1 DEF FinishClose, LocalTypes
<1>6. CASE CloseFails(s)
  <2>1. rec' \in Records /\ current' \subseteq Gateways
    BY <1>1, <1>2, <1>6, RecordUpdates DEF CloseFails, recordVars, LocalTypes
  <2> QED BY <1>1, <1>3, <1>6, <2>1 DEF CloseFails, LocalTypes
<1>7. ASSUME NEW pays \in BOOLEAN, SubmitSettlement(s, pays) PROVE LocalTypes' /\ rec' \in Records
  BY <1>1, <1>7 DEF SubmitSettlement, Goto, LocalTypes, recordVars, requestVars
<1> QED BY <1>4, <1>5, <1>6, <1>7 DEF CloseStep

(* A step of a runloop, or its end, keeps the local types.                  *)
LEMMA RunloopTypes ==
  ASSUME TypeOK, NEW g \in Gateways, RunloopStep(g) \/ Restart(g)
  PROVE  LocalTypes' /\ rec' \in Records
<1>1. LocalTypes /\ rec \in Records /\ Runloop(g) \in Closers
  BY Lane DEF TypeOK, LocalTypes
<1>2. CASE ReconcileOwnership(g)
  BY <1>1, <1>2, RecordUpdates
     DEF ReconcileOwnership, Goto, LocalTypes, recordVars, requestVars
<1>3. CASE RetryDeferredPayouts(g)
  BY ZenonT(30), <1>1, <1>3, RecordUpdates
     DEF RetryDeferredPayouts, Goto, LocalTypes, recordVars, requestVars
<1>4. ASSUME NEW pays \in BOOLEAN, DistributeDeferred(g, pays) PROVE LocalTypes' /\ rec' \in Records
  BY <1>1, <1>4, RecordUpdates DEF DistributeDeferred, Goto, LocalTypes, requestVars
<1>5. CASE PayoutConfirmed(g)
  BY <1>1, <1>5, RecordUpdates DEF PayoutConfirmed, Goto, LocalTypes, requestVars
<1>6. CASE PayoutWaits(g) \/ NothingDue(g)
  BY <1>1, <1>6 DEF PayoutWaits, NothingDue, Goto, LocalTypes, recordVars, requestVars
<1>7. CASE CloseDueChannels(g)
  <2>1. rec' = rec \/ rec' = [Leased(rec, g) EXCEPT !.due = FALSE]
    BY <1>7 DEF CloseDueChannels, PersistTouch
  <2>2. rec' \in Records
    BY <1>1, <2>1, RecordUpdates
  <2>3. current' \subseteq Gateways
    BY <1>1, <1>7 DEF CloseDueChannels, PersistTouch, LocalTypes
  <2> QED BY <1>1, <1>7, <2>2, <2>3 DEF CloseDueChannels, Goto, LocalTypes, requestVars
<1>8. CASE PushWatermark(g)
  BY <1>1, <1>8 DEF PushWatermark, LocalTypes, recordVars, replicaVars, requestVars
<1>9. CASE Restart(g)
  <2>1. rec' = rec \/ rec' = [rec EXCEPT !.owner = Departed]
    BY <1>9 DEF Restart
  <2>2. rec' \in Records
    BY <1>1, <2>1, RecordUpdates
  <2>3. restarts' \in 0..MaxRestarts
    BY SMTT(30), <1>1, <1>9, LifecycleAssumption DEF Restart, LocalTypes
  <2> QED BY <1>1, <1>9, <2>2, <2>3 DEF Restart, LocalTypes
<1> QED BY <1>2, <1>3, <1>4, <1>5, <1>6, <1>7, <1>8, <1>9 DEF RunloopStep

-----------------------------------------------------------------------------
(* The record and the channel.                                              *)

(* The record gains nothing but what the channel already shows.             *)
RecordMoves ==
  /\ rec'.cum = rec.cum
  /\ Ending(rec) => Ending(rec')
  /\ rec'.sealed => rec.sealed \/ chain.status \in Ended
  /\ rec'.deferred => rec.deferred \/ chain.status \in Past

(* A step that leaves the channel alone, and sends only what may be sent.   *)
LEMMA SendOrDrop ==
  ASSUME ChannelInv, chain' = chain, RecordMoves,
         \A s \in Senders : \/ landing'[s] = "none"
                            \/ tx'[s] = tx[s] /\ landing'[s] = landing[s]
                            \/ TxInv(s)'
  PROVE  ChannelInv'
<1>1. ChainInv'
  BY DEF ChannelInv, ChainInv, RecordMoves, Past, Ended
<1>2. ASSUME NEW s \in Senders PROVE TxInv(s)'
  <2>1. CASE landing'[s] = "none"
    BY <2>1 DEF TxInv
  <2>2. CASE tx'[s] = tx[s] /\ landing'[s] = landing[s]
    <3>1. TxInv(s)
      BY DEF ChannelInv
    <3> QED BY <2>2, <3>1 DEF TxInv, RecordMoves
  <2> QED BY <2>1, <2>2
<1> QED BY <1>1, <1>2 DEF ChannelInv

(* What lands on a channel that is sealed, or seals it at what was accepted.*)
LEMMA SealedLanding ==
  ASSUME ChannelInv, rec' = rec, rec.cum \in Nat, Ending(rec), NEW z \in Senders, TxInv(z)',
         chain'.settled = rec.cum, chain'.status \in Past,
         chain.status \in Ended => chain'.status \in Ended,
         \A s \in Senders \ {z} : tx'[s] = tx[s] /\ landing'[s] = landing[s]
  PROVE  ChannelInv'
<1>1. ChainInv'
  BY SMTT(30) DEF ChannelInv, ChainInv, Past, Ended
<1>2. ASSUME NEW s \in Senders, s # z PROVE TxInv(s)'
  <2>1. TxInv(s)
    BY DEF ChannelInv
  <2> QED BY <1>2, <2>1 DEF TxInv, Past, Ended
<1> QED BY <1>1, <1>2 DEF ChannelInv

(* persist_touch leaves everything but the lease alone.                     *)
LEMMA TouchMoves ==
  ASSUME rec \in Records, NEW g \in Gateways, PersistTouch(g)
  PROVE  RecordMoves
<1>1. rec' = rec \/ rec' = [Leased(rec, g) EXCEPT !.due = FALSE]
  BY DEF PersistTouch
<1>2. /\ rec'.cum = rec.cum /\ rec'.asked = rec.asked /\ rec'.sealed = rec.sealed
      /\ rec'.deferred = rec.deferred
  BY <1>1 DEF Records, Leased
<1> QED BY <1>2 DEF RecordMoves, Ending

(* A request's step.                                                        *)
LEMMA RequestChannel ==
  ASSUME TypeOK, ChannelInv, NEW q \in Requests, RequestStep(q)
  PROVE  ChannelInv'
<1>1. rec \in Records /\ at[q] \in Gateways /\ UNCHANGED channelVars
  BY RequestTypes DEF TypeOK
<1>2. CASE RecordMoves
  BY <1>1, <1>2, SendOrDrop DEF channelVars
<1>3. CASE AcceptVoucher(q)
  <2>1. /\ rec'.cum = rec.cum + 1 /\ rec'.sealed = rec.sealed /\ rec'.deferred = rec.deferred
        /\ ~Ending(rec)
    BY <1>1, <1>3, RecordFields DEF AcceptVoucher
  <2>2. chain.status = "open" /\ chain.settled <= rec.cum /\ chain' = chain
    BY <1>1, <2>1 DEF ChannelInv, ChainInv, channelVars
  <2>3. rec.cum \in Nat /\ chain.settled \in Nat /\ chain.settled <= rec.cum + 1
    BY SMTT(30), <1>1, <2>2 DEF Records, TypeOK, ChannelTypeOK, Accounts
  <2>4. ChainInv'
    BY <2>1, <2>2, <2>3 DEF ChannelInv, ChainInv, Past, Ended
  <2>5. ASSUME NEW s \in Senders PROVE TxInv(s)'
    <3>1. TxInv(s) /\ tx'[s] = tx[s] /\ landing'[s] = landing[s] /\ tx[s].amount \in Nat
      BY SMTT(30), <1>1 DEF ChannelInv, channelVars, TypeOK, ChannelTypeOK, Txs
    <3>2. landing[s] # "none" => tx[s].op = "settle"
      BY SMTT(30), <2>1, <2>2, <3>1 DEF TxInv, Past, Ended, TypeOK, ChannelTypeOK, Txs
    <3>3. landing[s] # "confirmed"
      BY <2>2, <3>1 DEF TxInv, Past, Ended
    <3>4. tx[s].amount <= rec.cum => tx[s].amount <= rec'.cum
      BY SMTT(30), <2>1, <2>3, <3>1
    <3> QED BY <3>1, <3>2, <3>3, <3>4 DEF TxInv
  <2> QED BY <2>4, <2>5 DEF ChannelInv
<1>4. CASE Touch(q) \/ Heartbeat(q)
  BY <1>1, <1>2, <1>4, TouchMoves DEF Touch, Heartbeat
<1>5. CASE ReserveCapacity(q) \/ EndRequest(q) \/ ClientCloses(q)
  BY <1>2, <1>5 DEF ReserveCapacity, EndRequest, ClientCloses, recordVars, RecordMoves
<1> QED BY <1>3, <1>4, <1>5 DEF RequestStep, Charge, Voucher

(* A closing task's step.                                                   *)
LEMMA CloseChannel ==
  ASSUME TypeOK, ChannelInv, TaskInv, NEW s \in Closers, CloseStep(s)
  PROVE  ChannelInv'
<1>1. /\ rec \in Records /\ s \in Senders /\ s[1] \in Gateways /\ s[2] # "push"
      /\ tx \in [Senders -> Txs] /\ landing \in [Senders -> {"none", "pending", "confirmed", "finalized"}]
      /\ chain.settled \in Nat /\ rec.cum \in 0..Deposit /\ TxInv(s)
  BY SMTT(30), Lane DEF TypeOK, ChannelTypeOK, Accounts, Records, ChannelInv
<1>2. CASE RequestServerClose(s)
  <2>1. \/ rec' = rec \/ rec' = [rec EXCEPT !.asked = TRUE]
        \/ rec' = Sealed(rec) /\ chain.status = "gone"
    BY <1>2 DEF RequestServerClose
  <2>2. RecordMoves
    <3>1. CASE rec' = [rec EXCEPT !.asked = TRUE]
      BY <1>1, <3>1, RecordFields DEF RecordMoves, Ending
    <3>2. CASE rec' = Sealed(rec) /\ chain.status = "gone"
      BY SMTT(30), <1>1, <3>2, RecordFields DEF RecordMoves, Ending, Ended
    <3> QED BY <2>1, <3>1, <3>2 DEF RecordMoves
  <2> QED BY <1>2, <2>2, SendOrDrop DEF RequestServerClose, channelVars
<1>3. CASE FinishClose(s)
  <2>1. /\ chain.status \in Past
        /\ tx[s].distribute => chain.status \in Ended
    BY <1>1, <1>3 DEF FinishClose, HasLanded, TxInv
  <2>2. RecordMoves
    BY SMTT(30), <1>1, <1>3, <2>1, RecordFields DEF FinishClose, AfterClose, RecordMoves, Ending
  <2>3. /\ chain' = chain
        /\ \A z \in Senders : landing'[z] = "none" \/ (tx'[z] = tx[z] /\ landing'[z] = landing[z])
    BY <1>1, <1>3 DEF FinishClose, Abandon
  <2>4. \A z \in Senders : \/ landing'[z] = "none"
                           \/ tx'[z] = tx[z] /\ landing'[z] = landing[z]
                           \/ TxInv(z)'
    BY <2>3
  <2> QED BY <2>2, <2>3, <2>4, SendOrDrop
<1>4. CASE CloseFails(s)
  <2>1. PersistTouch(s[1]) \/ rec' = rec \/ (rec' = Sealed(rec) /\ chain.status = "gone")
    BY <1>4 DEF CloseFails, recordVars
  <2>2. RecordMoves
    BY SMTT(30), <1>1, <2>1, TouchMoves, RecordFields DEF RecordMoves, Ending, Ended
  <2> QED BY <1>4, <2>2, SendOrDrop DEF CloseFails, channelVars
<1>5. ASSUME NEW pays \in BOOLEAN, SubmitSettlement(s, pays) PROVE ChannelInv'
  <2> DEFINE t == [op |-> "settleAndSeal", distribute |-> pays,
                   amount |-> IF CloseVoucherRequired(chain.settled, rec.cum) THEN rec.cum ELSE 0]
  <2>1. /\ chain' = chain /\ rec' = rec /\ tx' = [tx EXCEPT ![s] = t]
        /\ landing' = [landing EXCEPT ![s] = "pending"]
    BY <1>5 DEF SubmitSettlement, Broadcast, recordVars
  <2>2. tx'[s] = t /\ landing'[s] = "pending"
    BY <1>1, <2>1
  <2>3. /\ t.op = "settleAndSeal"
        /\ IF t.amount = 0 THEN chain.settled = rec.cum ELSE t.amount = rec.cum
    BY SMTT(30), <1>1 DEF CloseVoucherRequired, ChannelInv, ChainInv
  <2>4. Ending(rec)
    BY <1>5 DEF SubmitSettlement, TaskInv
  <2>5. TxInv(s)'
    BY <1>1, <2>1, <2>2, <2>3, <2>4 DEF TxInv
  <2>6. \A z \in Senders : z # s => tx'[z] = tx[z] /\ landing'[z] = landing[z]
    BY <1>1, <2>1
  <2>7. RecordMoves
    BY <2>1 DEF RecordMoves
  <2> QED BY <2>1, <2>5, <2>6, <2>7, SendOrDrop
<1> QED BY <1>2, <1>3, <1>4, <1>5 DEF CloseStep

(* A step of a runloop, or its end.                                         *)
LEMMA RunloopChannel ==
  ASSUME TypeOK, ChannelInv, TaskInv, NEW g \in Gateways, RunloopStep(g) \/ Restart(g)
  PROVE  ChannelInv'
<1> DEFINE s == Runloop(g)
<1>0. s \in Senders /\ s \in Closers /\ s[2] # "push"
  BY Lane
<1>1. /\ rec \in Records /\ s \in Senders /\ s \in Closers /\ s[2] # "push" /\ TxInv(s)
      /\ tx \in [Senders -> Txs] /\ landing \in [Senders -> {"none", "pending", "confirmed", "finalized"}]
      /\ chain.settled \in Nat /\ rec.cum \in 0..Deposit
      /\ <<g, "push">> \in Senders /\ <<g, "push">>[2] = "push"
  <2>1. TxInv(s)
    BY <1>0 DEF ChannelInv
  <2>2. <<g, "push">> \in Senders /\ <<g, "push">>[2] = "push"
    BY Lane
  <2>3. /\ rec \in Records /\ tx \in [Senders -> Txs] /\ chain \in Accounts
        /\ landing \in [Senders -> {"none", "pending", "confirmed", "finalized"}]
    BY DEF TypeOK, ChannelTypeOK
  <2>4. chain.settled \in Nat /\ rec.cum \in 0..Deposit
    BY SMTT(30), <2>3 DEF Accounts, Records
  <2> QED BY <1>0, <2>1, <2>2, <2>3, <2>4, Zenon
<1> HIDE DEF s
<1>2. ASSUME UNCHANGED channelVars, RecordMoves PROVE ChannelInv'
  BY <1>2, SendOrDrop DEF channelVars
<1>4. ASSUME NEW pays \in BOOLEAN, DistributeDeferred(g, pays) PROVE ChannelInv'
  <2>1. CASE chain.status \in Ended /\ rec' = Sealed(rec) /\ UNCHANGED channelVars
    BY SMTT(30), <1>1, <1>2, <2>1, RecordFields DEF RecordMoves, Ending
  <2>2. ASSUME chain.status \in {"sealed", "distributed"}, rec' = rec,
               NEW t \in {[NoTx EXCEPT !.distribute = TRUE], [NoTx EXCEPT !.op = "reclaim"]},
               Broadcast(s, t)
        PROVE  ChannelInv'
    <3>1. /\ tx'[s] = t /\ landing'[s] = "pending" /\ chain' = chain
          /\ \A z \in Senders : z # s => tx'[z] = tx[z] /\ landing'[z] = landing[z]
      BY <1>1, <2>2 DEF Broadcast
    <3>2. t.op \in {"none", "reclaim"} /\ t.amount = 0
      BY <2>2 DEF NoTx
    <3>3. TxInv(s)'
      BY <1>1, <2>2, <3>1, <3>2 DEF TxInv, Past, Ended
    <3>4. RecordMoves
      BY <2>2 DEF RecordMoves
    <3> QED BY <3>1, <3>3, <3>4, SendOrDrop
  <2> QED BY <1>4, <2>1, <2>2 DEF DistributeDeferred, s
<1>5. CASE PayoutConfirmed(g)
  <2>1. chain.status \in Ended
    BY <1>1, <1>5 DEF PayoutConfirmed, HasLanded, TxInv, TaskInv, s
  <2>2. RecordMoves
    BY <1>1, <1>5, <2>1, RecordFields DEF PayoutConfirmed, RecordMoves, Ending
  <2>3. /\ chain' = chain
        /\ \A z \in Senders : landing'[z] = "none" \/ (tx'[z] = tx[z] /\ landing'[z] = landing[z])
    BY <1>1, <1>5 DEF PayoutConfirmed, Abandon, s
  <2>4. \A z \in Senders : \/ landing'[z] = "none"
                           \/ tx'[z] = tx[z] /\ landing'[z] = landing[z]
                           \/ TxInv(z)'
    BY <2>3
  <2> QED BY <2>2, <2>3, <2>4, SendOrDrop
<1>6. CASE PushWatermark(g)
  <2> DEFINE t == [op |-> "settle", amount |-> rec.cum, distribute |-> FALSE]
             p == <<g, "push">>
  <2>1. /\ tx' = [tx EXCEPT ![p] = t] /\ landing' = [landing EXCEPT ![p] = "pending"] /\ chain' = chain
        /\ rec' = rec /\ rec.cum > chain.settled
    BY <1>6 DEF PushWatermark, Broadcast, recordVars, WatermarkDue
  <2>2. p \in Senders /\ p[2] = "push"
    BY <1>1
  <2>3. t.op = "settle" /\ t.amount = rec.cum /\ ~t.distribute /\ rec.cum # 0 /\ rec.cum <= rec.cum
    BY SMTT(30), <1>1, <2>1
  <2> HIDE DEF t, p
  <2>4. tx'[p] = t /\ landing'[p] = "pending"
    BY <1>1, <2>1, <2>2
  <2>5. TxInv(p)'
    BY <2>1, <2>2, <2>3, <2>4 DEF TxInv
  <2>6. \A z \in Senders : z # p => tx'[z] = tx[z] /\ landing'[z] = landing[z]
    BY <1>1, <2>1, <2>2
  <2>7. RecordMoves
    BY <2>1 DEF RecordMoves
  <2> QED BY <2>1, <2>5, <2>6, <2>7, SendOrDrop
<1>7. CASE Restart(g)
  <2>1. rec' = rec \/ rec' = [rec EXCEPT !.owner = Departed]
    BY <1>7 DEF Restart
  <2>2. RecordMoves
    <3>1. /\ rec'.cum = rec.cum /\ rec'.asked = rec.asked /\ rec'.sealed = rec.sealed
          /\ rec'.deferred = rec.deferred
      BY <1>1, <2>1 DEF Records
    <3> QED BY <3>1 DEF RecordMoves, Ending
  <2> QED BY <1>2, <1>7, <2>2 DEF Restart
<1>8. CASE CloseDueChannels(g)
  <2>1. rec' = rec \/ PersistTouch(g)
    BY <1>8 DEF CloseDueChannels
  <2>2. RecordMoves
    BY <1>1, <2>1, TouchMoves DEF RecordMoves
  <2> QED BY <1>2, <1>8, <2>2 DEF CloseDueChannels
<1>9. ASSUME rec' = rec \/ rec' = Leased(rec, g), UNCHANGED channelVars PROVE ChannelInv'
  <2>1. RecordMoves
    <3>1. /\ rec'.cum = rec.cum /\ rec'.asked = rec.asked /\ rec'.sealed = rec.sealed
          /\ rec'.deferred = rec.deferred
      BY <1>1, <1>9 DEF Records, Leased
    <3> QED BY <3>1 DEF RecordMoves, Ending
  <2> QED BY <1>2, <1>9, <2>1
<1> QED BY <1>4, <1>5, <1>6, <1>7, <1>8, <1>9
        DEF RunloopStep, ReconcileOwnership, RetryDeferredPayouts, PayoutWaits, NothingDue, recordVars

(* The chain's own steps.                                                   *)
LEMMA ChainChannel ==
  ASSUME TypeOK, ChannelInv, ChainStep
  PROVE  /\ chain' \in Accounts /\ tx' \in [Senders -> Txs]
         /\ landing' \in [Senders -> {"none", "pending", "confirmed", "finalized"}]
         /\ UNCHANGED <<fin, forks, payerClosed>>
         /\ \A s \in Closers : tx'[s] = tx[s]
         /\ ChannelInv'
<1>1. /\ rec \in Records /\ tx \in [Senders -> Txs] /\ chain \in Accounts /\ rec' = rec
      /\ landing \in [Senders -> {"none", "pending", "confirmed", "finalized"}]
      /\ chain.status # "closing"
  BY DEF TypeOK, ChannelTypeOK, ChainStep, recordVars, ChannelInv, ChainInv
<1>2. /\ chain.settled \in Nat /\ rec.cum \in Nat /\ chain.status \in Statuses
      /\ \A s \in Senders : tx[s].amount \in Nat /\ tx[s] \in Txs /\ TxInv(s)
      /\ \A s \in Senders : tx[s].op \in {"settle", "settleAndSeal", "seal", "reclaim", "none"}
  BY SMTT(30), <1>1 DEF Accounts, Records, Txs, ChannelInv
<1>3. /\ chain.status # "open" => Ending(rec) /\ chain.settled = rec.cum
      /\ chain.settled <= rec.cum
  BY DEF ChannelInv, ChainInv
<1>4. ASSUME NEW s \in Closers, CloseLands(s)
      PROVE  /\ chain' \in Accounts /\ tx' \in [Senders -> Txs]
             /\ landing' \in [Senders -> {"none", "pending", "confirmed", "finalized"}]
             /\ UNCHANGED <<fin, forks, payerClosed, tx>>
             /\ ChannelInv'
  <2>1. s \in Senders /\ s[2] # "push"
    BY Lane
  <2>2. /\ landing[s] = "pending" /\ Accepted(tx[s], chain)
        /\ tx' = tx /\ landing' = [landing EXCEPT ![s] = "confirmed"]
        /\ chain' = Freed(After(tx[s], chain)) /\ UNCHANGED <<fin, forks, payerClosed>>
    BY <1>4 DEF CloseLands
  <2> DEFINE c == After(tx[s], chain)
             t == tx[s]
  <2>3. /\ t.op \in {"settleAndSeal", "reclaim", "none"}
        /\ t.op = "settleAndSeal" =>
             Ending(rec) /\ IF t.amount = 0 THEN chain.settled = rec.cum ELSE t.amount = rec.cum
        /\ t.op # "settleAndSeal" => t.amount = 0 /\ chain.status \in Past
    BY <1>2, <2>1, <2>2 DEF TxInv
  <2>4. /\ c \in Accounts /\ c.settled = IF t.amount # 0 THEN t.amount ELSE chain.settled
        /\ t.op = "settleAndSeal" => /\ chain.status = "open"
                                     /\ c.status = IF t.distribute THEN "distributed" ELSE "sealed"
        /\ t.op = "none" => t.distribute /\ (chain.status # "open" =>
                                             chain.status = "sealed" /\ c.status = "distributed")
        /\ t.op = "reclaim" => ~t.distribute /\ chain.status = "distributed" /\ c.status = "gone"
    BY <1>1, <1>2, <2>1, <2>2, <2>3, Landing
  <2> HIDE DEF c, t
  <2>5. /\ Freed(c) \in Accounts /\ Freed(c).settled = c.settled
        /\ Freed(c).status = IF c.status = "distributed" THEN "gone" ELSE c.status
    BY <2>4 DEF Freed, Accounts, Statuses
  <2>6. chain' = Freed(c)
    BY <2>2 DEF c
  <2>7. Ending(rec) /\ chain'.settled = rec.cum /\ chain' \in Accounts
    BY <1>3, <2>3, <2>4, <2>5, <2>6 DEF Past, Ended
  <2>8. /\ chain'.status \in Past
        /\ t.distribute \/ t.op = "reclaim" => chain'.status \in Ended
        /\ chain.status \in Ended => chain'.status \in Ended
    BY <2>3, <2>4, <2>5, <2>6 DEF Past, Ended
  <2>9. landing'[s] = "confirmed" /\ tx'[s] = t
    BY <1>1, <2>1, <2>2 DEF t
  <2>10. TxInv(s)'
    BY <1>1, <2>1, <2>3, <2>7, <2>8, <2>9 DEF TxInv
  <2>11. \A z \in Senders \ {s} : tx'[z] = tx[z] /\ landing'[z] = landing[z]
    BY <1>1, <2>2
  <2>12. ChannelInv'
    BY <1>1, <1>2, <2>1, <2>7, <2>8, <2>10, <2>11, SealedLanding
  <2>13. landing' \in [Senders -> {"none", "pending", "confirmed", "finalized"}]
    BY <1>1, <2>2
  <2> QED BY <1>1, <2>2, <2>7, <2>12, <2>13
<1>5. ASSUME NEW g \in Gateways, WatermarkLands(g)
      PROVE  /\ chain' \in Accounts /\ tx' \in [Senders -> Txs]
             /\ landing' \in [Senders -> {"none", "pending", "confirmed", "finalized"}]
             /\ UNCHANGED <<fin, forks, payerClosed>>
             /\ \A s \in Closers : tx'[s] = tx[s]
             /\ ChannelInv'
  <2> DEFINE p == <<g, "push">>
             t == tx[p]
  <2>1. p \in Senders /\ p[2] = "push" /\ p \notin Closers
    BY Lane DEF Closers
  <2>2. /\ landing[p] = "pending" /\ Accepted(t, chain) /\ chain' = After(t, chain)
        /\ tx' = [tx EXCEPT ![p] = NoTx] /\ landing' = [landing EXCEPT ![p] = "none"]
        /\ UNCHANGED <<fin, forks, payerClosed>>
    BY <1>5 DEF WatermarkLands
  <2> HIDE DEF p
  <2>3. t.op = "settle" /\ t.amount # 0 /\ t.amount <= rec.cum /\ ~t.distribute
    BY <1>2, <2>1, <2>2 DEF TxInv
  <2>4. /\ chain' \in Accounts /\ chain'.settled = t.amount /\ t.amount > chain.settled
        /\ chain.status = "open" /\ chain'.status = "open"
    BY <1>1, <1>2, <2>1, <2>2, <2>3, Landing
  <2>5. chain'.settled <= rec.cum /\ chain.settled # rec.cum
    BY SMTT(30), <1>2, <2>1, <2>3, <2>4
  <2>6. ~rec.sealed /\ ~rec.deferred
    BY <2>4 DEF ChannelInv, ChainInv, Past, Ended
  <2>7. ChainInv'
    BY <1>1, <2>4, <2>5, <2>6 DEF ChainInv
  <2>8. ASSUME NEW s \in Senders PROVE TxInv(s)'
    <3>1. CASE s = p
      BY <1>1, <2>1, <2>2, <3>1 DEF TxInv
    <3>2. CASE s # p
      <4>1. TxInv(s) /\ tx'[s] = tx[s] /\ landing'[s] = landing[s]
        BY <1>1, <1>2, <2>2, <3>2
      <4> QED BY <1>1, <2>4, <2>5, <4>1 DEF TxInv, Past, Ended
    <3> QED BY <3>1, <3>2
  <2>9. NoTx \in Txs
    BY SMTT(30), ChannelAssumption DEF NoTx, Txs
  <2> QED BY SMTT(30), <1>1, <2>1, <2>2, <2>4, <2>7, <2>8, <2>9, Lane DEF ChannelInv
<1>6. ASSUME NEW t \in PermissionlessTxs, Permissionless(t)
      PROVE  chain' \in Accounts /\ UNCHANGED <<fin, tx, landing, forks, payerClosed>> /\ ChannelInv'
  <2>1. /\ Accepted(t, chain) /\ chain.status = "sealed" /\ chain' = After(t, chain)
        /\ UNCHANGED <<fin, tx, landing, forks, payerClosed>>
    BY <1>1, <1>6 DEF Permissionless
  <2>2. t.op = "none" /\ t.amount = 0 /\ t \in Txs
    <3>1. t.op \in {"seal", "none"} /\ t.amount = 0 /\ t \in Txs
      <4>1. 0 \in 0..Deposit
        BY SMTT(30), ChannelAssumption
      <4>2. CASE t = [op |-> "seal", amount |-> 0, distribute |-> FALSE]
        BY <4>1, <4>2 DEF Txs
      <4>3. CASE t = [op |-> "none", amount |-> 0, distribute |-> TRUE]
        BY <4>1, <4>3 DEF Txs
      <4> QED BY <1>6, <4>2, <4>3 DEF PermissionlessTxs
    <3>2. t.op = "seal" => Lapsed(chain)
      BY <2>1 DEF Accepted, OpAccepted
    <3> QED BY <2>1, <3>1, <3>2 DEF Lapsed
  <2>3. chain' \in Accounts /\ chain'.settled = chain.settled /\ chain'.status = "distributed"
    BY <1>1, <2>1, <2>2, Landing
  <2>4. ChainInv'
    BY <1>1, <1>2, <1>3, <2>1, <2>3 DEF ChannelInv, ChainInv, Past, Ended
  <2>5. ASSUME NEW s \in Senders PROVE TxInv(s)'
    BY <1>1, <1>2, <2>1, <2>3, <2>5 DEF TxInv, Past, Ended
  <2> QED BY <2>1, <2>3, <2>4, <2>5 DEF ChannelInv
<1>7. CASE \E t \in PermissionlessTxs : Permissionless(t)
  BY <1>1, <1>6, <1>7
<1>8. CASE \E g \in Gateways : WatermarkLands(g)
  BY <1>5, <1>8
<1>9. CASE \E s \in Closers : CloseLands(s)
  BY <1>1, <1>4, <1>9
<1> QED BY <1>7, <1>8, <1>9 DEF ChainStep

-----------------------------------------------------------------------------
(* The capacity slot, the scans and the closing tasks.                      *)

(* The holders of a slot exclude each other.                                *)
LEMMA OneHolder ==
  ASSUME TypeOK, SlotInv
  PROVE  /\ \A q \in Requests : q # "free" /\ q # "runloop"
         /\ \A q \in Requests : req[q] \in {"held", "charged", "closing"} =>
              /\ slot[at[q]] = q /\ at[q] \in Gateways
              /\ pc[Runloop(at[q])] \notin {"claim", "settle", "closing"}
         /\ \A q, r \in Requests :
              req[q] \in {"held", "charged", "closing"} /\ req[r] \in {"held", "charged", "closing"}
                /\ at[q] = at[r] => q = r
BY SMTT(30), LifecycleAssumption DEF SlotInv, TypeOK

(* A closing task ends and gives the slot back.                             *)
LEMMA DoneFreesSlot ==
  ASSUME TypeOK, SlotInv, TaskInv, NEW s \in Closers, pc[s] \in {"claim", "settle", "closing"}, Done(s),
         at' = at
  PROVE  SlotInv'
<1> DEFINE g == s[1]
<1>1. /\ g \in Gateways /\ s[2] \in {"runloop", "client"} /\ s = <<g, s[2]>>
      /\ slot \in [Gateways -> Requests \cup {"free", "runloop"}] /\ at \in [Requests -> Gateways]
      /\ pc \in [Closers -> {"idle", "payouts", "paying", "paid", "scan", "claim", "settle",
                             "closing"}]
      /\ req \in [Requests -> {"new", "vouched", "touched", "held", "charged", "closing", "done"}]
  BY Lane DEF TypeOK
<1>2. /\ slot' = [slot EXCEPT ![g] = "free"]
      /\ req' = IF s[2] = "client" THEN [req EXCEPT ![slot[g]] = "done"] ELSE req
      /\ pc' = [pc EXCEPT ![s] = "idle"]
  BY DEF Done, Goto
<1> HIDE DEF g
<1>3. CASE s[2] = "runloop"
  <2>1. slot[g] = "runloop" /\ s = Runloop(g)
    BY <1>1, <1>3 DEF SlotInv, Runloop
  <2>2. \A q \in Requests : req[q] \in {"held", "charged", "closing"} => at[q] # g
    BY <2>1, OneHolder
  <2>3. \A h \in Gateways : /\ pc'[Client(h)] = pc[Client(h)]
                            /\ Runloop(h) # s => pc'[Runloop(h)] = pc[Runloop(h)]
    BY SMTT(30), <1>1, <1>2, <1>3, Lane
  <2>4. \A h \in Gateways : h # g => slot'[h] = slot[h]
    BY <1>1, <1>2
  <2>5. req' = req
    BY <1>2, <1>3
  <2>6. ASSUME NEW h \in Gateways, pc'[Runloop(h)] \in {"claim", "settle", "closing"}
        PROVE  slot'[h] = "runloop"
    <3>0. pc'[s] = "idle"
      BY <1>1, <1>2
    <3>1. Runloop(h) # s
      BY <2>6, <3>0
    <3>2. h # g /\ pc'[Runloop(h)] = pc[Runloop(h)]
      BY <2>1, <2>3, <3>1
    <3> QED BY <2>4, <2>6, <3>2 DEF SlotInv
  <2>7. \A q \in Requests : req'[q] \in {"held", "charged", "closing"} => slot'[at'[q]] = q
    BY SMTT(30), <1>1, <2>2, <2>4, <2>5 DEF SlotInv
  <2>8. \A h \in Gateways : pc'[Client(h)] # "idle" =>
          \E q \in Requests : at'[q] = h /\ req'[q] = "closing"
    BY SMTT(30), <2>3, <2>5 DEF SlotInv
  <2> QED BY <2>6, <2>7, <2>8 DEF SlotInv
<1>4. CASE s[2] = "client"
  <2>0. s = Client(g) /\ pc[Client(g)] # "idle"
    BY <1>4, Lane DEF g
  <2>1. PICK q \in Requests : at[q] = g /\ req[q] = "closing"
    BY <1>1, <2>0 DEF SlotInv
  <2>2. /\ slot[g] = q /\ pc[Runloop(g)] \notin {"claim", "settle", "closing"}
        /\ \A r \in Requests : req[r] \in {"held", "charged", "closing"} /\ r # q => at[r] # g
    BY <2>1, OneHolder
  <2>3. req' = [req EXCEPT ![q] = "done"]
    BY <1>2, <1>4, <2>2
  <2>4. /\ \A h \in Gateways : h # g => pc'[Client(h)] = pc[Client(h)] /\ slot'[h] = slot[h]
        /\ \A h \in Gateways : pc'[Runloop(h)] = pc[Runloop(h)]
        /\ pc'[Client(g)] = "idle"
    BY SMTT(30), <1>1, <1>2, <2>0, Lane
  <2>5. ASSUME NEW h \in Gateways, pc'[Runloop(h)] \in {"claim", "settle", "closing"}
        PROVE  slot'[h] = "runloop"
    BY SMTT(30), <2>2, <2>4, <2>5 DEF SlotInv
  <2>6. ASSUME NEW r \in Requests, req'[r] \in {"held", "charged", "closing"}
        PROVE  slot'[at'[r]] = r
    BY SMTT(30), <1>1, <2>2, <2>3, <2>4, <2>6 DEF SlotInv
  <2>7. ASSUME NEW h \in Gateways, pc'[Client(h)] # "idle"
        PROVE  \E r \in Requests : at'[r] = h /\ req'[r] = "closing"
    <3>1. PICK r \in Requests : at[r] = h /\ req[r] = "closing"
      BY SMTT(30), <2>4, <2>7 DEF SlotInv
    <3> QED BY <1>1, <2>1, <2>3, <2>4, <2>7, <3>1
  <2> QED BY SMTT(30), <2>5, <2>6, <2>7 DEF SlotInv
<1> QED BY <1>1, <1>3, <1>4

(* A request's step.                                                        *)
LEMMA RequestSlots ==
  ASSUME TypeOK, SlotInv, NEW q \in Requests, RequestStep(q)
  PROVE  SlotInv'
<1>1. /\ slot \in [Gateways -> Requests \cup {"free", "runloop"}] /\ at \in [Requests -> Gateways]
      /\ pc \in [Closers -> {"idle", "payouts", "paying", "paid", "scan", "claim", "settle",
                             "closing"}]
      /\ req \in [Requests -> {"new", "vouched", "touched", "held", "charged", "closing", "done"}]
  BY DEF TypeOK
<1>2. ASSUME UNCHANGED <<slot, pc, at>>, req[q] # "closing",
             NEW l \in {"done", "touched", "vouched", "charged"}, req' = [req EXCEPT ![q] = l],
             l = "charged" => req[q] = "held"
      PROVE  SlotInv'
  BY SMTT(30), <1>1, <1>2 DEF SlotInv
<1>3. CASE Touch(q) \/ Charge(q) \/ Voucher(q)
  <2>1. PICK l \in {"done", "touched", "vouched", "charged"} :
          req' = [req EXCEPT ![q] = l] /\ (l = "charged" => req[q] = "held")
    BY <1>1, <1>3 DEF Touch, Charge, Voucher
  <2> QED BY <1>2, <1>3, <2>1 DEF Touch, Charge, Voucher, AcceptVoucher, replicaVars
<1>4. CASE ReserveCapacity(q)
  <2>1. CASE slot[at[q]] # "free"
    <3>1. UNCHANGED <<slot, pc, at>> /\ req' = [req EXCEPT ![q] = "done"] /\ req[q] # "closing"
      BY <1>4, <2>1 DEF ReserveCapacity
    <3> QED BY <1>2, <3>1
  <2>2. CASE slot[at[q]] = "free"
    <3>1. /\ slot' = [slot EXCEPT ![at[q]] = q] /\ req' = [req EXCEPT ![q] = "held"]
          /\ req[q] = "touched" /\ UNCHANGED <<pc, at>>
      BY <1>4, <2>2 DEF ReserveCapacity
    <3>2. \A r \in Requests : req[r] \in {"held", "charged", "closing"} => at[r] # at[q]
      BY <2>2, OneHolder
    <3> QED BY SMTT(30), <1>1, <2>2, <3>1, <3>2 DEF SlotInv
  <2> QED BY <2>1, <2>2
<1>5. CASE Heartbeat(q)
  BY SMTT(30), <1>5 DEF Heartbeat, replicaVars, requestVars, SlotInv
<1>6. CASE EndRequest(q)
  <2>1. /\ slot' = [slot EXCEPT ![at[q]] = "free"] /\ req' = [req EXCEPT ![q] = "done"]
        /\ req[q] \in {"held", "charged"} /\ UNCHANGED <<pc, at>>
    BY <1>6 DEF EndRequest
  <2>2. /\ \A r \in Requests : req[r] \in {"held", "charged", "closing"} /\ r # q => at[r] # at[q]
        /\ pc[Runloop(at[q])] \notin {"claim", "settle", "closing"}
    BY <2>1, OneHolder
  <2> QED BY SMTT(30), <1>1, <2>1, <2>2 DEF SlotInv
<1>7. CASE ClientCloses(q)
  <2>1. /\ pc' = [pc EXCEPT ![Client(at[q])] = "claim"] /\ req' = [req EXCEPT ![q] = "closing"]
        /\ req[q] = "held" /\ UNCHANGED <<slot, at>>
    BY <1>7 DEF ClientCloses, Client, Goto
  <2>2. /\ \A h \in Gateways : /\ pc'[Runloop(h)] = pc[Runloop(h)]
                               /\ h # at[q] => pc'[Client(h)] = pc[Client(h)]
    BY SMTT(30), <1>1, <2>1, Lane
  <2> QED BY SMTT(30), <1>1, <2>1, <2>2 DEF SlotInv
<1> QED BY <1>3, <1>4, <1>5, <1>6, <1>7 DEF RequestStep

(* A closing task's step.                                                   *)
LEMMA CloseSlots ==
  ASSUME TypeOK, SlotInv, TaskInv, NEW s \in Closers, CloseStep(s)
  PROVE  SlotInv'
<1>1. /\ pc \in [Closers -> {"idle", "payouts", "paying", "paid", "scan", "claim", "settle",
                             "closing"}]
      /\ \A h \in Gateways : Runloop(h) \in Closers /\ Client(h) \in Closers
  BY Lane DEF TypeOK
<1>2. ASSUME NEW l \in {"settle", "closing"}, pc[s] \in {"claim", "settle"}, Goto(s, l),
             UNCHANGED <<slot, req, at>>
      PROVE  SlotInv'
  <2>1. \A z \in Closers : /\ pc'[z] \in {"claim", "settle", "closing"} =>
                                pc[z] \in {"claim", "settle", "closing"}
                           /\ pc'[z] # "idle" => pc[z] # "idle"
    BY <1>1, <1>2 DEF Goto
  <2> QED BY SMTT(30), <1>1, <1>2, <2>1 DEF SlotInv
<1>3. CASE RequestServerClose(s)
  BY <1>2, <1>3, DoneFreesSlot DEF RequestServerClose
<1>4. CASE FinishClose(s) \/ CloseFails(s)
  BY <1>4, DoneFreesSlot DEF FinishClose, CloseFails
<1>5. ASSUME NEW pays \in BOOLEAN, SubmitSettlement(s, pays) PROVE SlotInv'
  BY <1>2, <1>5 DEF SubmitSettlement, requestVars
<1> QED BY <1>3, <1>4, <1>5 DEF CloseStep

(* A step of a runloop, or its end.                                         *)
LEMMA RunloopSlots ==
  ASSUME TypeOK, SlotInv, NEW g \in Gateways, RunloopStep(g) \/ Restart(g)
  PROVE  SlotInv'
<1>1. /\ slot \in [Gateways -> Requests \cup {"free", "runloop"}] /\ at \in [Requests -> Gateways]
      /\ pc \in [Closers -> {"idle", "payouts", "paying", "paid", "scan", "claim", "settle",
                             "closing"}]
      /\ req \in [Requests -> {"new", "vouched", "touched", "held", "charged", "closing", "done"}]
      /\ \A h \in Gateways : Runloop(h) \in Closers /\ Client(h) \in Closers /\ Client(h) # Runloop(g)
  BY Lane DEF TypeOK
<1>2. ASSUME NEW l, l \notin {"claim", "settle", "closing"}, Goto(Runloop(g), l),
             UNCHANGED <<slot, req, at>>
      PROVE  SlotInv'
  <2>1. /\ \A h \in Gateways : pc'[Client(h)] = pc[Client(h)]
        /\ \A h \in Gateways : pc'[Runloop(h)] = pc[Runloop(h)] \/ pc'[Runloop(h)] = l
    BY <1>1, <1>2 DEF Goto
  <2> QED BY SMTT(30), <1>2, <2>1 DEF SlotInv
<1>3. CASE ReconcileOwnership(g) \/ RetryDeferredPayouts(g)
  <2>1. \E l \in {"payouts", "scan", "paying"} : Goto(Runloop(g), l)
    BY <1>3 DEF ReconcileOwnership, RetryDeferredPayouts
  <2> QED BY <1>2, <1>3, <2>1 DEF ReconcileOwnership, RetryDeferredPayouts, requestVars
<1>4. ASSUME NEW pays \in BOOLEAN, DistributeDeferred(g, pays) PROVE SlotInv'
  <2>1. \E l \in {"scan", "paid"} : Goto(Runloop(g), l)
    BY <1>4 DEF DistributeDeferred
  <2> QED BY <1>2, <1>4, <2>1 DEF DistributeDeferred, requestVars
<1>5. CASE PayoutConfirmed(g) \/ PayoutWaits(g) \/ NothingDue(g)
  <2>1. \E l \in {"scan", "idle"} : Goto(Runloop(g), l)
    BY <1>5 DEF PayoutConfirmed, PayoutWaits, NothingDue
  <2> QED BY <1>2, <1>5, <2>1 DEF PayoutConfirmed, PayoutWaits, NothingDue, requestVars
<1>6. CASE CloseDueChannels(g)
  <2>1. CASE slot[g] # "free"
    <3>1. Goto(Runloop(g), "idle") /\ UNCHANGED <<slot, req, at>>
      BY <1>6, <2>1 DEF CloseDueChannels, requestVars
    <3> QED BY <1>2, <3>1
  <2>2. CASE slot[g] = "free"
    <3>1. /\ slot' = [slot EXCEPT ![g] = "runloop"] /\ pc' = [pc EXCEPT ![Runloop(g)] = "claim"]
          /\ UNCHANGED <<req, at>>
      BY <1>6, <2>2 DEF CloseDueChannels, Goto, requestVars
    <3>2. \A q \in Requests : req[q] \in {"held", "charged", "closing"} => at[q] # g
      BY SMTT(30), <2>2, OneHolder
    <3>3. /\ \A h \in Gateways : pc'[Client(h)] = pc[Client(h)]
          /\ \A h \in Gateways : h # g => pc'[Runloop(h)] = pc[Runloop(h)] /\ slot'[h] = slot[h]
          /\ slot'[g] = "runloop"
      BY SMTT(30), <1>1, <3>1, Lane
    <3>4. \A q \in Requests : req[q] \in {"held", "charged", "closing"} => slot'[at[q]] = q
      BY SMTT(30), <1>1, <3>2, <3>3 DEF SlotInv
    <3> QED BY SMTT(30), <3>1, <3>3, <3>4 DEF SlotInv
  <2> QED BY <2>1, <2>2
<1>7. CASE PushWatermark(g)
  BY SMTT(30), <1>7 DEF PushWatermark, replicaVars, requestVars, SlotInv
<1>8. CASE Restart(g)
  <2>1. /\ slot' = [slot EXCEPT ![g] = "free"] /\ at' = at
        /\ pc' = [s \in Closers |-> IF s[1] = g THEN "idle" ELSE pc[s]]
        /\ req' = [q \in Requests |-> IF at[q] = g THEN "done" ELSE req[q]]
    BY <1>8 DEF Restart
  <2>2. \A h \in Gateways : /\ pc'[Client(h)] = IF h = g THEN "idle" ELSE pc[Client(h)]
                            /\ pc'[Runloop(h)] = IF h = g THEN "idle" ELSE pc[Runloop(h)]
    BY SMTT(30), <1>1, <2>1, Lane
  <2>3. \A q \in Requests : req'[q] \in {"held", "charged", "closing"} => at[q] # g /\ req'[q] = req[q]
    BY <1>1, <2>1
  <2>4. \A q \in Requests : at[q] # g => req'[q] = req[q] /\ slot'[at[q]] = slot[at[q]]
    BY <1>1, <2>1
  <2>5. \A q \in Requests : req'[q] \in {"held", "charged", "closing"} => slot'[at'[q]] = q
    BY SMTT(30), <2>1, <2>3, <2>4 DEF SlotInv
  <2>6. ASSUME NEW h \in Gateways, pc'[Client(h)] # "idle"
        PROVE  \E q \in Requests : at'[q] = h /\ req'[q] = "closing"
    <3>1. PICK q \in Requests : at[q] = h /\ req[q] = "closing"
      BY SMTT(30), <2>2, <2>6 DEF SlotInv
    <3> QED BY <2>1, <2>2, <2>4, <2>6, <3>1
  <2>7. ASSUME NEW h \in Gateways, pc'[Runloop(h)] \in {"claim", "settle", "closing"}
        PROVE  slot'[h] = "runloop"
    BY ZenonT(30), <1>1, <2>1, <2>2, <2>7 DEF SlotInv
  <2> QED BY SMTT(30), <2>5, <2>6, <2>7 DEF SlotInv
<1> QED BY <1>3, <1>4, <1>5, <1>6, <1>7, <1>8 DEF RunloopStep

(* A scan that is current stays the owner's.                                *)
LEMMA ScanKept ==
  ASSUME TypeOK, ScanInv,
         \/ current' = {}
         \/ current' \subseteq current /\ rec'.owner = rec.owner
         \/ \E g \in Gateways : current' \subseteq current \cup {g} /\ rec'.owner = rec.owner /\ rec.owner = g
  PROVE  ScanInv'
BY DEF ScanInv

(* A request's step.                                                        *)
LEMMA RequestScans ==
  ASSUME TypeOK, ScanInv, NEW q \in Requests, RequestStep(q)
  PROVE  ScanInv'
<1>1. CASE Touch(q) \/ Heartbeat(q)
  BY <1>1, ScanKept DEF Touch, Heartbeat, PersistTouch
<1>2. CASE Charge(q) \/ Voucher(q)
  BY <1>2, ScanKept DEF Charge, Voucher, AcceptVoucher
<1>3. CASE ReserveCapacity(q) \/ EndRequest(q) \/ ClientCloses(q)
  BY <1>3, ScanKept DEF ReserveCapacity, EndRequest, ClientCloses, recordVars
<1> QED BY <1>1, <1>2, <1>3 DEF RequestStep

(* A closing task's step.                                                   *)
LEMMA CloseScans ==
  ASSUME TypeOK, ScanInv, NEW s \in Closers, CloseStep(s)
  PROVE  ScanInv'
<1>1. rec \in Records
  BY DEF TypeOK
<1>2. ASSUME rec' \in {rec, Sealed(rec), [rec EXCEPT !.asked = TRUE], [rec EXCEPT !.deferred = TRUE]}
      PROVE  rec'.owner = rec.owner
  BY <1>1, <1>2 DEF Records, Sealed
<1>3. CASE RequestServerClose(s)
  <2>1. rec'.owner = rec.owner /\ current' \subseteq current
    BY <1>2, <1>3 DEF RequestServerClose
  <2> QED BY <2>1, ScanKept
<1>4. CASE FinishClose(s)
  <2>1. rec'.owner = rec.owner /\ current' \subseteq current
    BY <1>2, <1>4 DEF FinishClose, AfterClose
  <2> QED BY <2>1, ScanKept
<1>5. CASE CloseFails(s)
  <2>1. current' = {} \/ (rec'.owner = rec.owner /\ current' \subseteq current)
    BY <1>2, <1>5 DEF CloseFails, PersistTouch, recordVars
  <2> QED BY <2>1, ScanKept
<1>6. ASSUME NEW pays \in BOOLEAN, SubmitSettlement(s, pays) PROVE ScanInv'
  BY <1>6, ScanKept DEF SubmitSettlement, recordVars
<1> QED BY <1>3, <1>4, <1>5, <1>6 DEF CloseStep

(* A step of a runloop, or its end.                                         *)
LEMMA RunloopScans ==
  ASSUME TypeOK, ScanInv, NEW g \in Gateways, RunloopStep(g) \/ Restart(g)
  PROVE  ScanInv'
<1>1. rec \in Records
  BY DEF TypeOK
<1>2. Sealed(rec).owner = rec.owner
  BY <1>1 DEF Records, Sealed
<1>3. CASE ReconcileOwnership(g) \/ RetryDeferredPayouts(g)
  <2>1. current' = {} \/ (rec'.owner = rec.owner /\ current' \subseteq current)
    BY <1>3 DEF ReconcileOwnership, RetryDeferredPayouts, recordVars
  <2> QED BY <2>1, ScanKept
<1>4. ASSUME NEW pays \in BOOLEAN, DistributeDeferred(g, pays) PROVE ScanInv'
  <2>1. rec'.owner = rec.owner /\ current' \subseteq current
    BY <1>2, <1>4 DEF DistributeDeferred
  <2> QED BY <2>1, ScanKept
<1>5. CASE PayoutConfirmed(g) \/ PayoutWaits(g) \/ NothingDue(g) \/ PushWatermark(g)
  <2>1. rec'.owner = rec.owner /\ current' \subseteq current
    BY <1>2, <1>5 DEF PayoutConfirmed, PayoutWaits, NothingDue, PushWatermark, recordVars
  <2> QED BY <2>1, ScanKept
<1>6. CASE CloseDueChannels(g)
  <2>1. \/ current' \subseteq current /\ rec' = rec
        \/ current' = {}
        \/ current' \subseteq current \cup {g} /\ rec' = rec /\ rec.owner = g
    BY <1>6 DEF CloseDueChannels, CloseDue, PersistTouch
  <2> QED BY <2>1, ScanKept
<1>7. CASE Restart(g)
  BY <1>7 DEF Restart, ScanInv
<1> QED BY <1>3, <1>4, <1>5, <1>6, <1>7 DEF RunloopStep

(* What a task's step does to the tasks.                                    *)
LEMMA TasksKept ==
  ASSUME TaskInv, Ending(rec) => Ending(rec'),
         \A z \in Closers :
           \/ pc'[z] = pc[z] /\ (tx'[z] = tx[z] \/ pc[z] # "paid")
           \/ pc'[z] \in {"idle", "claim"}
           \/ pc'[z] \in {"settle", "closing"} /\ Ending(rec')
           \/ /\ z[2] = "runloop" /\ pc'[z] \notin {"settle", "closing"}
              /\ pc'[z] = "paid" => tx'[z].distribute \/ tx'[z].op = "reclaim"
  PROVE  TaskInv'
<1> SUFFICES ASSUME NEW z \in Closers
             PROVE  /\ pc'[z] \in {"settle", "closing"} => Ending(rec')
                    /\ pc'[z] = "paid" => tx'[z].distribute \/ tx'[z].op = "reclaim"
                    /\ z[2] = "client" => pc'[z] \in {"idle", "claim", "settle", "closing"}
  BY DEF TaskInv
<1>1. /\ pc[z] \in {"settle", "closing"} => Ending(rec)
      /\ pc[z] = "paid" => tx[z].distribute \/ tx[z].op = "reclaim"
      /\ z[2] = "client" => pc[z] \in {"idle", "claim", "settle", "closing"}
  BY DEF TaskInv
<1> QED BY SMTT(30), <1>1

(* A request's step.                                                        *)
LEMMA RequestTasks ==
  ASSUME TypeOK, TaskInv, NEW q \in Requests, RequestStep(q)
  PROVE  TaskInv'
<1>1. /\ rec \in Records /\ at[q] \in Gateways /\ tx' = tx
      /\ pc \in [Closers -> {"idle", "payouts", "paying", "paid", "scan", "claim", "settle",
                             "closing"}]
  BY RequestTypes DEF TypeOK, channelVars
<1>2. Ending(rec) => Ending(rec')
  <2>1. CASE Touch(q) \/ Heartbeat(q)
    BY <1>1, <2>1, TouchMoves DEF Touch, Heartbeat, RecordMoves
  <2>2. CASE Charge(q) \/ Voucher(q)
    BY <2>2 DEF Charge, Voucher, AcceptVoucher
  <2>3. CASE ReserveCapacity(q) \/ EndRequest(q) \/ ClientCloses(q)
    BY <2>3 DEF ReserveCapacity, EndRequest, ClientCloses, recordVars
  <2> QED BY <2>1, <2>2, <2>3 DEF RequestStep
<1>3. \A z \in Closers : pc'[z] = pc[z] \/ pc'[z] = "claim"
  BY <1>1 DEF RequestStep, Touch, ReserveCapacity, Charge, Voucher, AcceptVoucher, Heartbeat, EndRequest,
              ClientCloses, Goto, replicaVars
<1> QED BY <1>1, <1>2, <1>3, TasksKept

(* A closing task's step.                                                   *)
LEMMA CloseTasks ==
  ASSUME TypeOK, ChannelInv, TaskInv, NEW s \in Closers, CloseStep(s)
  PROVE  TaskInv'
<1>1. /\ rec \in Records /\ s[1] \in Gateways /\ s \in Senders /\ tx \in [Senders -> Txs]
      /\ pc \in [Closers -> {"idle", "payouts", "paying", "paid", "scan", "claim", "settle",
                             "closing"}]
      /\ \A z \in Closers : z \in Senders
  BY Lane DEF TypeOK, ChannelTypeOK
<1>2. Ending(Sealed(rec)) /\ Ending([rec EXCEPT !.asked = TRUE])
  BY <1>1 DEF Sealed, Ending, Records
<1>3. Ending(rec) => Ending([rec EXCEPT !.deferred = TRUE])
  BY <1>1 DEF Ending, Records
<1>4. CASE RequestServerClose(s)
  <2>1. Ending(rec) => Ending(rec')
    BY <1>2, <1>4 DEF RequestServerClose
  <2>2. tx' = tx
    BY <1>4 DEF RequestServerClose, channelVars
  <2>3. pc' = [pc EXCEPT ![s] = "idle"] \/ (pc' = [pc EXCEPT ![s] = "settle"] /\ Ending(rec'))
    BY <1>2, <1>4 DEF RequestServerClose, Done, Goto
  <2>4. \A z \in Closers : pc'[z] = pc[z] \/ pc'[z] = "idle" \/ (pc'[z] = "settle" /\ Ending(rec'))
    BY <1>1, <2>3
  <2> QED BY <2>1, <2>2, <2>4, TasksKept
<1>5. CASE FinishClose(s)
  <2>1. Ending(rec) => Ending(rec')
    BY <1>2, <1>3, <1>5 DEF FinishClose, AfterClose
  <2>2. pc' = [pc EXCEPT ![s] = "idle"] /\ tx' = [tx EXCEPT ![s] = NoTx]
    BY <1>5 DEF FinishClose, Done, Goto, Abandon
  <2>3. \A z \in Closers : (pc'[z] = pc[z] /\ tx'[z] = tx[z]) \/ pc'[z] = "idle"
    BY <1>1, <2>2
  <2> QED BY <2>1, <2>3, TasksKept
<1>6. CASE CloseFails(s)
  <2>1. Ending(rec) => Ending(rec')
    BY <1>1, <1>2, <1>6, TouchMoves DEF CloseFails, recordVars, RecordMoves
  <2>2. pc' = [pc EXCEPT ![s] = "idle"] /\ tx' = tx
    BY <1>6 DEF CloseFails, Done, Goto, channelVars
  <2>3. \A z \in Closers : (pc'[z] = pc[z] /\ tx'[z] = tx[z]) \/ pc'[z] = "idle"
    BY <1>1, <2>2
  <2> QED BY <2>1, <2>3, TasksKept
<1>7. ASSUME NEW pays \in BOOLEAN, SubmitSettlement(s, pays) PROVE TaskInv'
  <2>1. /\ pc' = [pc EXCEPT ![s] = "closing"] /\ rec' = rec /\ Ending(rec)
        /\ \A z \in Senders : z # s => tx'[z] = tx[z]
    BY <1>1, <1>7 DEF SubmitSettlement, Goto, recordVars, TaskInv, Broadcast
  <2>2. \A z \in Closers : (pc'[z] = pc[z] /\ tx'[z] = tx[z]) \/ (pc'[z] = "closing" /\ Ending(rec'))
    BY <1>1, <2>1
  <2> QED BY <2>1, <2>2, TasksKept
<1> QED BY <1>4, <1>5, <1>6, <1>7 DEF CloseStep

(* A step of a runloop, or its end.                                         *)
LEMMA RunloopTasks ==
  ASSUME TypeOK, TaskInv, NEW g \in Gateways, RunloopStep(g) \/ Restart(g)
  PROVE  TaskInv'
<1> DEFINE s == Runloop(g)
<1>1. /\ rec \in Records /\ s \in Closers /\ s[2] = "runloop" /\ s \in Senders /\ tx \in [Senders -> Txs]
      /\ pc \in [Closers -> {"idle", "payouts", "paying", "paid", "scan", "claim", "settle",
                             "closing"}]
      /\ \A z \in Closers : z \in Senders /\ z # <<g, "push">>
  <2>1. /\ rec \in Records /\ tx \in [Senders -> Txs]
        /\ pc \in [Closers -> {"idle", "payouts", "paying", "paid", "scan", "claim", "settle",
                               "closing"}]
    BY DEF TypeOK, ChannelTypeOK
  <2> QED BY <2>1, Lane
<1> HIDE DEF s
<1>2. /\ Ending(Sealed(rec))
      /\ Ending(rec) => Ending(Leased(rec, g)) /\ Ending([rec EXCEPT !.owner = Departed])
  BY <1>1 DEF Sealed, Leased, Ending, Records
<1>3. ASSUME NEW l \in {"idle", "payouts", "scan", "paying", "claim"}, pc' = [pc EXCEPT ![s] = l],
             Ending(rec) => Ending(rec'), \A z \in Closers : z # s => tx'[z] = tx[z]
      PROVE  TaskInv'
  <2>1. \A z \in Closers : (pc'[z] = pc[z] /\ tx'[z] = tx[z]) \/ (z = s /\ pc'[z] = l)
    BY <1>1, <1>3
  <2> QED BY <1>1, <1>3, <2>1, TasksKept
<1>4. CASE ReconcileOwnership(g) \/ RetryDeferredPayouts(g)
  <2>1. Ending(rec) => Ending(rec')
    BY <1>2, <1>4 DEF ReconcileOwnership, RetryDeferredPayouts, recordVars
  <2>2. /\ tx' = tx
        /\ \E l \in {"payouts", "scan", "paying"} : pc' = [pc EXCEPT ![s] = l]
    BY <1>4 DEF ReconcileOwnership, RetryDeferredPayouts, channelVars, Goto, s
  <2> QED BY <1>3, <2>1, <2>2
<1>5. ASSUME NEW pays \in BOOLEAN, DistributeDeferred(g, pays) PROVE TaskInv'
  <2>1. CASE rec' = Sealed(rec) /\ Goto(Runloop(g), "scan") /\ UNCHANGED channelVars
    BY <1>2, <1>3, <2>1 DEF Goto, channelVars, s
  <2>2. ASSUME NEW t \in {[NoTx EXCEPT !.distribute = TRUE], [NoTx EXCEPT !.op = "reclaim"]},
               Broadcast(s, t), rec' = rec, pc' = [pc EXCEPT ![s] = "paid"]
        PROVE  TaskInv'
    <3>1. t.distribute \/ t.op = "reclaim"
      BY <2>2 DEF NoTx
    <3>2. \A z \in Closers : \/ pc'[z] = pc[z] /\ tx'[z] = tx[z]
                             \/ z = s /\ pc'[z] = "paid" /\ tx'[z] = t
      BY <1>1, <2>2 DEF Broadcast
    <3> QED BY <1>1, <2>2, <3>1, <3>2, TasksKept
  <2> QED BY <1>5, <2>1, <2>2 DEF DistributeDeferred, Goto, s
<1>6. CASE PayoutConfirmed(g)
  <2>1. /\ Ending(rec') /\ pc' = [pc EXCEPT ![s] = "scan"]
        /\ \A z \in Closers : z # s => tx'[z] = tx[z]
    BY <1>1, <1>2, <1>6 DEF PayoutConfirmed, Goto, Abandon, s
  <2> QED BY <1>3, <2>1
<1>7. CASE PayoutWaits(g) \/ NothingDue(g)
  <2>1. /\ rec' = rec /\ tx' = tx
        /\ \E l \in {"scan", "idle"} : pc' = [pc EXCEPT ![s] = l]
    BY <1>7 DEF PayoutWaits, NothingDue, recordVars, channelVars, Goto, s
  <2> QED BY <1>3, <2>1
<1>8. CASE CloseDueChannels(g)
  <2>1. rec' = rec \/ PersistTouch(g)
    BY <1>8 DEF CloseDueChannels
  <2>2. Ending(rec) => Ending(rec')
    BY <1>1, <2>1, TouchMoves DEF RecordMoves
  <2>3. /\ tx' = tx
        /\ \E l \in {"claim", "idle"} : pc' = [pc EXCEPT ![s] = l]
    BY <1>8 DEF CloseDueChannels, channelVars, Goto, s
  <2> QED BY <1>3, <2>2, <2>3
<1>9. CASE PushWatermark(g)
  <2>1. rec' = rec /\ pc' = pc /\ \A z \in Closers : tx'[z] = tx[z]
    BY <1>1, <1>9 DEF PushWatermark, Broadcast, recordVars, replicaVars
  <2> QED BY <2>1, TasksKept
<1>10. CASE Restart(g)
  <2>1. /\ tx' = tx
        /\ Ending(rec) => Ending(rec')
        /\ \A z \in Closers : pc'[z] = pc[z] \/ pc'[z] = "idle"
    BY <1>2, <1>10 DEF Restart, channelVars
  <2> QED BY <2>1, TasksKept
<1> QED BY <1>4, <1>5, <1>6, <1>7, <1>8, <1>9, <1>10 DEF RunloopStep

-----------------------------------------------------------------------------
(* The invariant is inductive.                                              *)

(* Sending and dropping transactions keeps the channel's types.             *)
LEMMA SendTypes ==
  ASSUME ChannelTypeOK, UNCHANGED <<chain, fin, forks, payerClosed>>,
         tx' \in [Senders -> Txs],
         landing' \in [Senders -> {"none", "pending", "confirmed", "finalized"}]
  PROVE  ChannelTypeOK'
BY DEF ChannelTypeOK

(* Nothing changes the types.                                               *)
LEMMA TypesCombine ==
  ASSUME ChannelTypeOK', LocalTypes', rec' \in Records
  PROVE  TypeOK'
BY DEF TypeOK, LocalTypes

(* The channel's types, in every step but the chain's own.                  *)
LEMMA ChannelTypes ==
  ASSUME TypeOK,
         \/ \E q \in Requests : RequestStep(q)
         \/ \E s \in Closers : CloseStep(s)
         \/ \E g \in Gateways : RunloopStep(g) \/ Restart(g)
         \/ LeaseExpires \/ IdleDeadline
  PROVE  ChannelTypeOK'
<1>1. /\ ChannelTypeOK /\ tx \in [Senders -> Txs] /\ rec.cum \in 0..Deposit /\ 0 \in 0..Deposit
      /\ landing \in [Senders -> {"none", "pending", "confirmed", "finalized"}]
  BY SMTT(30), ChannelAssumption DEF TypeOK, ChannelTypeOK, Records
<1>2. CASE UNCHANGED channelVars
  BY <1>1, <1>2, SendTypes DEF channelVars
<1>3. ASSUME NEW s \in Senders, NEW t \in Txs, Broadcast(s, t) PROVE ChannelTypeOK'
  BY <1>1, <1>3, SendTypes DEF Broadcast
<1>4. NoTx \in Txs /\ [NoTx EXCEPT !.distribute = TRUE] \in Txs /\ [NoTx EXCEPT !.op = "reclaim"] \in Txs
  BY <1>1 DEF NoTx, Txs
<1>5. ASSUME NEW s \in Senders, Abandon(s) PROVE ChannelTypeOK'
  BY <1>1, <1>4, <1>5, SendTypes DEF Abandon
<1>6. ASSUME NEW q \in Requests, RequestStep(q) PROVE ChannelTypeOK'
  BY <1>2, <1>6, RequestTypes
<1>7. ASSUME NEW s \in Closers, CloseStep(s) PROVE ChannelTypeOK'
  <2>1. s \in Senders
    BY Lane
  <2>2. ASSUME NEW pays \in BOOLEAN, SubmitSettlement(s, pays) PROVE ChannelTypeOK'
    <3>1. \A n \in 0..Deposit : [op |-> "settleAndSeal", distribute |-> pays, amount |-> n] \in Txs
      BY DEF Txs
    <3>2. \E n \in 0..Deposit : Broadcast(s, [op |-> "settleAndSeal", distribute |-> pays, amount |-> n])
      <4>1. CASE CloseVoucherRequired(chain.settled, rec.cum)
        BY <1>1, <2>2, <4>1 DEF SubmitSettlement
      <4>2. CASE ~CloseVoucherRequired(chain.settled, rec.cum)
        BY <1>1, <2>2, <4>2 DEF SubmitSettlement
      <4> QED BY <4>1, <4>2
    <3> QED BY <1>3, <2>1, <3>1, <3>2
  <2>3. CASE RequestServerClose(s) \/ CloseFails(s)
    BY <1>2, <2>3 DEF RequestServerClose, CloseFails
  <2>4. CASE FinishClose(s)
    BY <1>5, <2>1, <2>4 DEF FinishClose
  <2> QED BY <1>7, <2>2, <2>3, <2>4 DEF CloseStep
<1>8. ASSUME NEW g \in Gateways, RunloopStep(g) \/ Restart(g) PROVE ChannelTypeOK'
  <2>1. Runloop(g) \in Senders /\ <<g, "push">> \in Senders
    BY Lane
  <2>2. ASSUME NEW pays \in BOOLEAN, DistributeDeferred(g, pays) PROVE ChannelTypeOK'
    BY <1>2, <1>3, <1>4, <2>1, <2>2 DEF DistributeDeferred
  <2>3. CASE PayoutConfirmed(g)
    BY <1>5, <2>1, <2>3 DEF PayoutConfirmed
  <2>4. CASE PushWatermark(g)
    <3>1. [op |-> "settle", amount |-> rec.cum, distribute |-> FALSE] \in Txs
      BY <1>1 DEF Txs
    <3> QED BY <1>3, <2>1, <2>4, <3>1 DEF PushWatermark
  <2>5. CASE ReconcileOwnership(g) \/ RetryDeferredPayouts(g) \/ PayoutWaits(g)
    BY <1>2, <2>5 DEF ReconcileOwnership, RetryDeferredPayouts, PayoutWaits
  <2>6. CASE CloseDueChannels(g) \/ NothingDue(g) \/ Restart(g)
    BY <1>2, <2>6 DEF CloseDueChannels, NothingDue, Restart
  <2> QED BY <1>8, <2>2, <2>3, <2>4, <2>5, <2>6 DEF RunloopStep
<1>9. CASE LeaseExpires \/ IdleDeadline
  BY <1>2, <1>9 DEF LeaseExpires, IdleDeadline
<1> QED BY <1>6, <1>7, <1>8, <1>9

(* Leases expire and deadlines pass without moving anything else.           *)
LEMMA TimePasses ==
  ASSUME IInv, LeaseExpires \/ IdleDeadline
  PROVE  IInv'
<1>1. rec \in Records /\ LocalTypes /\ TypeOK
  BY DEF IInv, TypeOK, LocalTypes
<1>2. rec' = [rec EXCEPT !.live = FALSE] \/ rec' = [rec EXCEPT !.due = TRUE]
  BY DEF LeaseExpires, IdleDeadline
<1>3. UNCHANGED <<channelVars, current, replicaVars, requestVars>>
  BY DEF LeaseExpires, IdleDeadline
<1>4. /\ rec' \in Records /\ rec'.owner = rec.owner /\ rec'.cum = rec.cum /\ rec'.asked = rec.asked
      /\ rec'.sealed = rec.sealed /\ rec'.deferred = rec.deferred
  BY <1>1, <1>2 DEF Records
<1>5. RecordMoves
  BY <1>4 DEF RecordMoves, Ending
<1>6. ChannelInv'
  BY <1>3, <1>5, SendOrDrop DEF IInv, channelVars
<1>7. SlotInv'
  BY SMTT(30), <1>3 DEF IInv, SlotInv, replicaVars, requestVars
<1>8. ScanInv'
  BY <1>3, <1>4 DEF IInv, ScanInv
<1>9. TaskInv'
  BY <1>3, <1>5, TasksKept DEF IInv, RecordMoves, channelVars, replicaVars
<1>10. LocalTypes'
  BY <1>1, <1>3 DEF LocalTypes, replicaVars, requestVars
<1>11. TypeOK'
  BY <1>1, <1>4, <1>10, ChannelTypes, TypesCombine
<1> QED BY <1>6, <1>7, <1>8, <1>9, <1>11 DEF IInv

(* Every step keeps the invariant.                                          *)
LEMMA StepKeepsIInv ==
  ASSUME IInv, [Next]_vars
  PROVE  IInv'
<1>1. TypeOK /\ SlotInv /\ ScanInv /\ TaskInv /\ ChannelInv /\ LocalTypes /\ rec \in Records
  BY DEF IInv, TypeOK, LocalTypes
<1>2. ASSUME NEW q \in Requests, RequestStep(q) PROVE IInv'
  <2>1. TypeOK'
    BY <1>1, <1>2, RequestTypes, ChannelTypes, TypesCombine
  <2>2. SlotInv' /\ ScanInv' /\ TaskInv' /\ ChannelInv'
    BY <1>1, <1>2, RequestSlots, RequestScans, RequestTasks, RequestChannel
  <2> QED BY <2>1, <2>2 DEF IInv
<1>3. ASSUME NEW s \in Closers, CloseStep(s) PROVE IInv'
  <2>1. TypeOK'
    BY <1>1, <1>3, CloseTypes, ChannelTypes, TypesCombine
  <2>2. SlotInv' /\ ScanInv' /\ TaskInv' /\ ChannelInv'
    BY <1>1, <1>3, CloseSlots, CloseScans, CloseTasks, CloseChannel
  <2> QED BY <2>1, <2>2 DEF IInv
<1>4. ASSUME NEW g \in Gateways, RunloopStep(g) \/ Restart(g) PROVE IInv'
  <2>1. TypeOK'
    BY <1>1, <1>4, RunloopTypes, ChannelTypes, TypesCombine
  <2>2. SlotInv' /\ ScanInv' /\ TaskInv' /\ ChannelInv'
    BY <1>1, <1>4, RunloopSlots, RunloopScans, RunloopTasks, RunloopChannel
  <2> QED BY <2>1, <2>2 DEF IInv
<1>5. CASE ChainStep
  <2>1. /\ chain' \in Accounts /\ tx' \in [Senders -> Txs]
        /\ landing' \in [Senders -> {"none", "pending", "confirmed", "finalized"}]
        /\ UNCHANGED <<fin, forks, payerClosed>>
        /\ \A s \in Closers : tx'[s] = tx[s]
        /\ ChannelInv'
    BY <1>1, <1>5, ChainChannel
  <2>2. UNCHANGED <<recordVars, replicaVars, requestVars>>
    BY <1>5 DEF ChainStep
  <2>3. ChannelTypeOK'
    BY <1>1, <2>1, Zenon DEF TypeOK, ChannelTypeOK
  <2>4. LocalTypes' /\ rec' \in Records /\ SlotInv' /\ ScanInv'
    BY SMTT(30), <1>1, <2>2 DEF LocalTypes, SlotInv, ScanInv, recordVars, replicaVars, requestVars
  <2>5. TaskInv'
    BY <1>1, <2>1, <2>2, TasksKept DEF recordVars, replicaVars
  <2> QED BY <2>1, <2>3, <2>4, <2>5, TypesCombine DEF IInv
<1>6. CASE UNCHANGED vars
  <2>1. UNCHANGED <<channelVars, recordVars, replicaVars, requestVars>>
    BY <1>6 DEF vars
  <2>2. LocalTypes' /\ rec' \in Records /\ SlotInv' /\ ScanInv'
    BY SMTT(30), <1>1, <2>1 DEF LocalTypes, SlotInv, ScanInv, recordVars, replicaVars, requestVars
  <2>3. TaskInv' /\ ChannelTypeOK'
    BY <1>1, <2>1, TasksKept, SendTypes DEF TypeOK, ChannelTypeOK, channelVars, recordVars, replicaVars
  <2>4. RecordMoves
    BY <2>1 DEF RecordMoves, recordVars
  <2>5. ChannelInv'
    BY <1>1, <2>1, <2>4, SendOrDrop DEF channelVars
  <2> QED BY <2>2, <2>3, <2>5, TypesCombine DEF IInv
<1> QED BY <1>2, <1>3, <1>4, <1>5, <1>6, TimePasses DEF Next

(* The invariant holds at the start.                                        *)
LEMMA InitIInv == Init => IInv
<1> SUFFICES ASSUME Init PROVE IInv
  OBVIOUS
<1>1. /\ 0 \in 0..Deposit /\ 0 \in 0..MaxForks /\ 0 \in 0..MaxRestarts
  BY SMTT(30), ChannelAssumption, LifecycleAssumption
<1>2. NewAccount \in Accounts /\ NoTx \in Txs
  BY <1>1 DEF NewAccount, Accounts, Statuses, NoTx, Txs
<1>3. ChannelTypeOK
  <2>1. /\ chain \in Accounts /\ fin \in Accounts /\ tx \in [Senders -> Txs]
        /\ landing \in [Senders -> {"none", "pending", "confirmed", "finalized"}]
        /\ forks \in 0..MaxForks
    BY <1>1, <1>2 DEF Init, ChannelInit
  <2>2. payerClosed = FALSE
    BY DEF Init, ChannelInit
  <2> QED BY <2>1, <2>2, Zenon DEF ChannelTypeOK
<1>4. /\ rec \in Records /\ rec.cum = 0 /\ ~rec.asked /\ ~rec.sealed /\ ~rec.deferred
  BY SMTT(30), <1>1 DEF Init, Records
<1>5. LocalTypes
  BY <1>1 DEF Init, LocalTypes
<1>6. TypeOK
  BY <1>3, <1>4, <1>5, Zenon DEF TypeOK, LocalTypes
<1>7. SlotInv /\ ScanInv
  BY Lane DEF Init, SlotInv, ScanInv
<1>8. TaskInv
  BY DEF Init, TaskInv
<1>9. chain.status = "open" /\ chain.settled = 0 /\ \A s \in Senders : landing[s] = "none"
  BY DEF Init, ChannelInit, NewAccount
<1>10. ChannelInv
  BY SMTT(30), <1>4, <1>9 DEF ChannelInv, ChainInv, TxInv
<1> QED BY <1>6, <1>7, <1>8, <1>10 DEF IInv

(* The invariant holds throughout.                                          *)
LEMMA Inductive == Spec => []IInv
<1>1. IInv /\ [Next]_vars => IInv'
  BY StepKeepsIInv
<1> QED BY InitIInv, <1>1, PTL DEF Spec

-----------------------------------------------------------------------------
(* The theorems.                                                            *)

(* The variables keep their types.                                          *)
THEOREM TypeCorrect == Spec => []TypeOK
<1>1. IInv => TypeOK
  BY DEF IInv
<1> QED BY <1>1, Inductive, PTL

(* Whatever pushes, retries and restarts interleave with the close, the     *)
(* channel is sealed at exactly what the record says was accepted.          *)
THEOREM SealsWhatWasAccepted == Spec => []SealedAtAccepted
<1>1. IInv => SealedAtAccepted
  BY DEF IInv, ChannelInv, ChainInv, SealedAtAccepted, Ended
<1> QED BY <1>1, Inductive, PTL

(* The store writes off no channel that still has something to be done.     *)
THEOREM RecordNeverAhead == Spec => []RecordFollowsChannel
<1>1. IInv => RecordFollowsChannel
  BY DEF IInv, ChannelInv, ChainInv, RecordFollowsChannel, Past
<1> QED BY <1>1, Inductive, PTL

(* A close is put on record only by a closing task in "claim".              *)
LEMMA OnlyClaimsAsk ==
  ASSUME IInv, [Next]_vars, rec'.asked, ~rec.asked
  PROVE  \E s \in Closers : pc[s] = "claim" /\ ~Rearmed(s)
<1>1. rec \in Records
  BY DEF IInv, TypeOK
<1>2. /\ Sealed(rec).asked = rec.asked /\ [rec EXCEPT !.deferred = TRUE].asked = rec.asked
      /\ [rec EXCEPT !.owner = Departed].asked = rec.asked
      /\ [rec EXCEPT !.live = FALSE].asked = rec.asked /\ [rec EXCEPT !.due = TRUE].asked = rec.asked
      /\ [rec EXCEPT !.cum = @ + 1, !.due = FALSE].asked = rec.asked
      /\ \A g \in Gateways : /\ Leased(rec, g).asked = rec.asked
                             /\ [Leased(rec, g) EXCEPT !.due = FALSE].asked = rec.asked
  BY <1>1 DEF Records, Sealed, Leased
<1>3. ASSUME NEW g \in Gateways, PersistTouch(g) PROVE FALSE
  BY <1>2, <1>3 DEF PersistTouch
<1>4. ASSUME NEW q \in Requests, RequestStep(q) PROVE FALSE
  <2>1. at[q] \in Gateways
    BY DEF IInv, TypeOK
  <2> QED BY <1>2, <1>3, <1>4, <2>1
          DEF RequestStep, Touch, ReserveCapacity, Charge, Voucher, AcceptVoucher, Heartbeat, EndRequest,
              ClientCloses, recordVars
<1>5. ASSUME NEW s \in Closers, CloseStep(s) PROVE pc[s] = "claim" /\ ~Rearmed(s)
  <2>1. s[1] \in Gateways
    BY Lane
  <2>2. ~FinishClose(s)
    BY <1>2 DEF FinishClose, AfterClose
  <2>3. ~CloseFails(s)
    BY <1>2, <1>3, <2>1 DEF CloseFails, recordVars
  <2>4. \A pays \in BOOLEAN : ~SubmitSettlement(s, pays)
    BY DEF SubmitSettlement, recordVars
  <2>5. RequestServerClose(s)
    BY <1>5, <2>2, <2>3, <2>4 DEF CloseStep
  <2> QED BY <1>2, <2>5 DEF RequestServerClose
<1>6. ASSUME NEW g \in Gateways, RunloopStep(g) \/ Restart(g) PROVE FALSE
  <2>1. CASE ReconcileOwnership(g) \/ RetryDeferredPayouts(g)
    BY <1>2, <2>1 DEF ReconcileOwnership, RetryDeferredPayouts, recordVars
  <2>2. ASSUME NEW pays \in BOOLEAN, DistributeDeferred(g, pays) PROVE FALSE
    BY <1>2, <2>2 DEF DistributeDeferred
  <2>3. CASE PayoutConfirmed(g) \/ PayoutWaits(g) \/ NothingDue(g) \/ PushWatermark(g)
    BY <1>2, <2>3 DEF PayoutConfirmed, PayoutWaits, NothingDue, PushWatermark, recordVars
  <2>4. CASE CloseDueChannels(g)
    BY <1>2, <1>3, <2>4 DEF CloseDueChannels
  <2>5. CASE Restart(g)
    BY <1>2, <2>5 DEF Restart
  <2> QED BY <1>6, <2>1, <2>2, <2>3, <2>4, <2>5 DEF RunloopStep
<1>7. ASSUME LeaseExpires \/ IdleDeadline PROVE FALSE
  BY <1>2, <1>7 DEF LeaseExpires, IdleDeadline
<1>8. ~ChainStep /\ ~(UNCHANGED vars)
  BY DEF ChainStep, vars, recordVars
<1> QED BY <1>4, <1>5, <1>6, <1>7, <1>8 DEF Next

(* No idle close begins under a request of the replica that holds the       *)
(* lease: the claim is good only while the scan is current, a current scan  *)
(* is the owner's, and the owner's slot has one holder.                     *)
THEOREM IdleCloseSpares == Spec => IdleCloseSparesRequests
<1> DEFINE Spares == (rec'.asked /\ ~rec.asked /\ \A q \in Requests : req[q] # "closing")
                       => \A q \in Requests : ~Serving(q)
<1>1. IInv /\ [Next]_vars => Spares
  <2> SUFFICES ASSUME IInv, [Next]_vars, rec'.asked, ~rec.asked,
                      \A q \in Requests : req[q] # "closing",
                      NEW q \in Requests, Serving(q)
               PROVE  FALSE
    OBVIOUS
  <2>1. PICK s \in Closers : pc[s] = "claim" /\ ~Rearmed(s)
    BY OnlyClaimsAsk
  <2>2. s[1] \in Gateways /\ s = IF s[2] = "runloop" THEN Runloop(s[1]) ELSE Client(s[1])
    BY Lane
  <2>3. TypeOK /\ SlotInv /\ ScanInv
    BY DEF IInv
  <2>4. s = Runloop(s[1]) /\ s[2] = "runloop"
    <3>1. CASE s[2] # "runloop"
      BY <2>1, <2>2, <2>3, <3>1 DEF SlotInv
    <3> QED BY <2>2, <3>1
  <2>5. rec.owner = s[1]
    BY <2>1, <2>3, <2>4 DEF Rearmed, ScanInv
  <2>6. pc[Runloop(at[q])] = "claim" /\ req[q] \in {"held", "charged", "closing"}
    BY <2>1, <2>4, <2>5 DEF Serving
  <2> QED BY <2>3, <2>6, OneHolder
<1> QED BY <1>1, Inductive, PTL DEF Spec, IdleCloseSparesRequests
=============================================================================
