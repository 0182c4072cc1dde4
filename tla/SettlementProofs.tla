-------------------------- MODULE SettlementProofs ---------------------------
(***************************************************************************)
(* The settle-sessions workers close a channel at what the gateway          *)
(* accepted, cut off no request at work, charge none twice, and end no      *)
(* record before its channel: for any number of workers and requests, any   *)
(* deposit, and passes that fail and overlap anywhere.                      *)
(***************************************************************************)
EXTENDS Settlement, TLAPS

(* Most steps are logic without arithmetic; the others name the SMT backend. *)
USE Zenon

-----------------------------------------------------------------------------
(* The inductive invariant.                                                 *)

Past == {"sealed"} \cup Ended

(* The close is on record, or the payer's own.                              *)
Closing == payerClosed \/ rec = NoRecord \/ rec.asked

(* The requests a record holds a reservation for.                           *)
Held(r) == {q \in Requests : r.res[q] # "none"}

(* The record and the requests: what a live reservation and a charge mean.  *)
StoreInv ==
  /\ \A q \in Requests : charged[q] <= 1 /\ (req[q] = "new" => charged[q] = 0)
  /\ rec # NoRecord =>
       /\ rec.frozen => rec.asked
       /\ rec.owner # NoOwner => rec.asked
       /\ rec.expiring => rec.sealed
       /\ bound /\ rec.sealed => Closing
       /\ \A q \in Requests :
            /\ rec.res[q] = "live" => ~rec.frozen
            /\ ~bound /\ charged[q] # 0 => rec.res[q] = "none"
            /\ bound =>
                 /\ rec.res[q] = "live" /\ ~payerClosed => ~rec.asked /\ ~rec.sealed
                 /\ rec.res[q] = "live" => rec.owner = NoOwner
                 /\ rec.res[q] = "live" => \A p \in Requests : rec.res[p] = "live" => p = q
                 /\ req[q] = "held" /\ charged[q] # 0 => rec.cum > base[q]
                 /\ req[q] = "held" /\ charged[q] = 0 /\ rec.res[q] = "live" =>
                      rec.cum = base[q] /\ rec.cum < Deposit

(* The reservations of an unbound channel fit into what is left of its      *)
(* deposit.                                                                 *)
Room == rec # NoRecord /\ ~bound => Cardinality(Held(rec)) <= Deposit - rec.cum

(* Only a reservation and a charge take from what is left of the deposit.   *)
Sparing ==
  \/ \E q \in Requests : Reserve(q) \/ Commit(q)
  \/ rec' # NoRecord => rec'.cum = rec.cum /\ Held(rec') \subseteq Held(rec)

(* All of what was accepted is settled, and no more will be.                *)
SettledAll == rec.frozen /\ chain.settled = rec.cum

(* Where the amount of a close is guaranteed. Nothing fences the gateway of *)
(* a legacy session that its payer closes.                                  *)
Fixed == forks = 0 /\ rec # NoRecord /\ (mode = "legacy" => ~payerClosed)

(* The finalized account is behind the confirmed one, the record is not     *)
(* behind either, and a close has a reason.                                 *)
ChainInv ==
  /\ fin.settled <= chain.settled
  /\ fin.status \in Past => chain.status \in Past
  /\ fin.status \in Ended => chain.status \in Ended
  /\ \A c \in Views : /\ c.status = "closing" \/ c.lapsed => payerClosed
                      /\ bound /\ c.status # "open" => Closing
  /\ rec # NoRecord => chain.settled <= rec.cum
  /\ RecordOutlivesChannel
  /\ Fixed /\ ~batch /\ chain.status \in {"sealed", "distributed"} /\ ~chain.lapsed => SettledAll

(* A transaction settles no more than was accepted, and a close all of it.  *)
TxOK(t) ==
  /\ rec # NoRecord => t.amount <= rec.cum
  /\ t.op \in {"none", "seal", "reclaim"} => t.amount = 0
  /\ bound /\ t.op \in {"settleAndSeal", "seal"} => Closing
  /\ Fixed /\ t.op = "settleAndSeal" =>
       rec.frozen /\ (t.amount = rec.cum \/ (t.amount = 0 /\ chain.settled = rec.cum))
  /\ Fixed /\ batch /\ t.op = "seal" => SettledAll

(* What a pass read is not ahead of the record and the chain.               *)
SnapInv(w) ==
  pc[w] = "reconcile" =>
    /\ IF batch THEN snap[w] \in BatchCopies ELSE snap[w] \in SessionCopies
    /\ rec # NoRecord => snap[w].cum <= rec.cum
    /\ batch /\ rec # NoRecord => snap[w].read.settled <= rec.cum
    /\ bound /\ (snap[w].asked \/ snap[w].sealed) => Closing
    /\ forks = 0 => IF batch
                    THEN /\ snap[w].read.settled <= chain.settled
                         /\ snap[w].read.status = "sealed" => chain.status \in Past
                    ELSE snap[w].sealed => fin.status \in Ended

(* The plans after which a record ends once their transaction is final.     *)
Terminal(w) == IF batch THEN plan[w].store # "keep" ELSE plan[w].kind = "idleClose"

TerminalTx(t) ==
  \/ t.op = "reclaim"
  \/ t.distribute /\ t.op \in {"settleAndSeal", "seal"}
  \/ t.distribute /\ t.op = "none" /\ chain.status \in Past

(* A plan ends a record only when its channel is over, or by a transaction  *)
(* that ends the channel, which is then the one that was sent.              *)
PlanInv(w) ==
  /\ TxOK(plan[w].tx)
  /\ bound /\ (plan[w].kind = "idleClose" \/ plan[w].store # "keep") => Closing
  /\ forks = 0 /\ ~batch /\ plan[w].store # "keep" => fin.status \in Ended
  /\ forks = 0 /\ Terminal(w) => TerminalTx(plan[w].tx)

SentInv(w) ==
  /\ TxOK(tx[w])
  /\ landing[w] # "none" => pc[w] \in {"confirm", "finalize"}
  /\ pc[w] \in {"confirm", "finalize"} /\ Terminal(w) => tx[w] = plan[w].tx
  /\ pc[w] = "finalize" => plan[w].store # "keep"
  /\ pc[w] \in {"refresh", "guard"} => bound
  /\ pc[w] = "finalize" => batch
  /\ forks = 0 /\ Terminal(w) =>
       /\ landing[w] = "confirmed" => chain.status \in Ended
       /\ landing[w] = "finalized" => fin.status \in Ended

WorkInv(w) == SnapInv(w) /\ PlanInv(w) /\ SentInv(w)

IInv == TypeOK /\ StoreInv /\ ChainInv /\ \A w \in Workers : WorkInv(w)

-----------------------------------------------------------------------------
(* What happens to a record.                                                *)

(* The types of a record's fields.                                          *)
LEMMA FieldTypes ==
  ASSUME NEW r \in Records
  PROVE  /\ r.cum \in 0..Deposit /\ r.cum \in Int /\ r.cum >= 0 /\ r.cum <= Deposit
         /\ r.asked \in BOOLEAN /\ r.frozen \in BOOLEAN /\ r.sealed \in BOOLEAN
         /\ r.expiring \in BOOLEAN /\ r.due \in BOOLEAN /\ r.live \in BOOLEAN
         /\ r.res \in [Requests -> {"none", "live", "expired"}]
         /\ r.owner \in Workers \cup {NoOwner}
         /\ r # NoRecord
<1>1. r.cum \in 0..Deposit
  BY DEF Records
<1> QED BY SMTT(30), <1>1, ChannelAssumption, RecordAssumption DEF Records

(* A record with any field replaced.                                        *)
LEMMA FieldUpdates ==
  ASSUME NEW r \in Records
  PROVE  /\ \A n \in 0..Deposit : [r EXCEPT !.cum = n, !.due = FALSE] \in Records
         /\ \A n \in 0..Deposit, f \in [Requests -> {"none", "live", "expired"}] :
              [r EXCEPT !.cum = n, !.due = FALSE, !.res = f] \in Records
         /\ \A f \in [Requests -> {"none", "live", "expired"}] :
              /\ [r EXCEPT !.res = f] \in Records
              /\ [r EXCEPT !.res = f, !.due = FALSE] \in Records
              /\ \A w \in Workers :
                   [r EXCEPT !.res = f, !.owner = w, !.live = TRUE, !.asked = TRUE, !.frozen = TRUE]
                     \in Records
         /\ [r EXCEPT !.due = TRUE] \in Records
         /\ [r EXCEPT !.live = FALSE] \in Records
         /\ [r EXCEPT !.asked = TRUE] \in Records
         /\ [r EXCEPT !.asked = TRUE, !.frozen = TRUE] \in Records
         /\ [r EXCEPT !.sealed = TRUE] \in Records
         /\ [r EXCEPT !.sealed = TRUE, !.expiring = TRUE] \in Records
         /\ \A a, s \in BOOLEAN : [r EXCEPT !.asked = a, !.sealed = s] \in Records
         /\ \A f \in BOOLEAN, n \in 0..Deposit :
              [r EXCEPT !.asked = TRUE, !.frozen = f, !.cum = n] \in Records
BY ZenonT(30) DEF Records

(* What a pass, or time, may do to a record: nothing that was accepted is   *)
(* lost, nothing fixed is undone, and nobody at work is cut off but by the  *)
(* payer.                                                                   *)
Fencing(r, s) ==
  /\ r \in Records /\ s \in Records
  /\ s.cum = r.cum
  /\ r.asked => s.asked
  /\ r.frozen => s.frozen
  /\ r.sealed => s.sealed
  /\ \A q \in Requests : /\ s.res[q] = "live" => r.res[q] = "live"
                         /\ r.res[q] = "none" => s.res[q] = "none"
  /\ s.frozen /\ ~r.frozen => s.asked /\ ~Blocking(s)
  /\ s.owner # r.owner => s.asked /\ ~Blocking(s)
  /\ s.expiring => s.sealed
  /\ bound /\ s.asked /\ ~r.asked => payerClosed \/ ~Blocking(s)
  /\ bound /\ s.sealed => payerClosed \/ s.asked

(* A record ends only with its channel.                                     *)
Writes ==
  \/ rec' = rec
  \/ rec' = NoRecord /\ (forks = 0 => fin.status \in Ended)
  \/ /\ Fencing(rec, rec')
     /\ forks = 0 /\ (IF batch THEN rec'.expiring ELSE rec'.sealed) => fin.status \in Ended

(* The claim of a close.                                                    *)
LEMMA ClaimFences ==
  ASSUME TypeOK, StoreInv, NEW w \in Workers, ClaimDueClose(w)
  PROVE  /\ Fencing(rec, rec')
         /\ rec'.sealed = rec.sealed /\ rec'.expiring = rec.expiring
         /\ ChannelCloseDue(rec') => rec'.frozen
         /\ bound => rec'.asked /\ rec'.frozen /\ ~rec'.sealed
<1>1. rec # NoRecord /\ rec \in Records
  BY DEF ClaimDueClose, TypeOK, StoreTypeOK
<1>2. /\ rec.frozen => rec.asked
      /\ rec.expiring => rec.sealed
      /\ \A q \in Requests : rec.res[q] = "live" => ~rec.frozen
      /\ bound /\ rec.sealed => payerClosed \/ rec.asked
  BY <1>1 DEF StoreInv, Closing
<1>3. NoReservations \in [Requests -> {"none", "live", "expired"}]
  BY DEF NoReservations
<1>4. CASE bound
  <2>1. /\ rec' = [rec EXCEPT !.res = NoReservations, !.owner = w, !.live = TRUE,
                              !.asked = TRUE, !.frozen = TRUE]
        /\ ~rec.sealed
    BY <1>4 DEF ClaimDueClose, TransitionDueClose, TransitionAllowed, ClaimCloseAllowed
  <2>2. rec' \in Records
    BY <1>1, <1>3, <2>1, FieldUpdates
  <2>3. /\ rec'.cum = rec.cum /\ rec'.asked /\ rec'.frozen /\ rec'.sealed = rec.sealed
        /\ rec'.expiring = rec.expiring /\ rec'.res = NoReservations
    BY <1>1, <2>1 DEF Records
  <2>4. ~Blocking(rec')
    BY <2>3 DEF Blocking, NoReservations
  <2> QED BY SMTT(30), <1>1, <1>2, <1>4, <2>1, <2>2, <2>3, <2>4 DEF Fencing, NoReservations
<1>5. CASE ~bound /\ ChannelCloseDue(rec)
  <2>1. /\ rec' = [rec EXCEPT !.asked = TRUE, !.frozen = TRUE]
        /\ ~rec.frozen => ~Blocking(rec)
    BY <1>5 DEF ClaimDueClose, TransitionDueClose, TransitionAllowed, ClaimChannelCloseAllowed,
                ClaimChannelClose
  <2>2. rec' \in Records
    BY <1>1, <2>1, FieldUpdates
  <2>3. /\ rec'.cum = rec.cum /\ rec'.asked /\ rec'.frozen /\ rec'.sealed = rec.sealed
        /\ rec'.expiring = rec.expiring /\ rec'.res = rec.res /\ rec'.owner = rec.owner
    BY <1>1, <2>1 DEF Records
  <2>4. Blocking(rec') = Blocking(rec)
    BY <2>3 DEF Blocking
  <2> QED BY <1>1, <1>2, <1>5, <2>1, <2>2, <2>3, <2>4 DEF Fencing
<1>6. CASE ~bound /\ ~ChannelCloseDue(rec)
  <2>1. rec' = rec
    BY <1>6 DEF ClaimDueClose, TransitionDueClose, ClaimChannelClose
  <2> QED BY <1>1, <1>2, <1>6, <2>1 DEF Fencing
<1> QED BY <1>4, <1>5, <1>6

(* Time moves on, for what the passes of the workers rely on.               *)
Onward ==
  /\ mode' = mode
  /\ rec' \in Records \cup {NoRecord}
  /\ rec = NoRecord => rec' = NoRecord
  /\ rec' # NoRecord =>
       /\ rec.cum <= rec'.cum
       /\ rec.frozen => rec'.frozen /\ rec'.cum = rec.cum
       /\ rec.asked => rec'.asked
       /\ chain'.settled <= rec'.cum
  /\ payerClosed => payerClosed'
  /\ forks' = 0 =>
       /\ forks = 0
       /\ chain.settled <= chain'.settled
       /\ chain.status \in Past => chain'.status \in Past
       /\ chain.status \in Ended => chain'.status \in Ended
       /\ fin.status \in Ended => fin'.status \in Ended
  /\ Sparing

(* The types of the channel's accounts.                                     *)
LEMMA AccountTypes ==
  ASSUME TypeOK
  PROVE  /\ chain \in Accounts /\ fin \in Accounts
         /\ \A c \in Accounts : /\ c.settled \in 0..Deposit /\ c.settled \in Int
                                /\ 0 <= c.settled /\ c.settled <= Deposit
                                /\ c.status \in Statuses /\ c.lapsed \in BOOLEAN
         /\ forks \in Int /\ forks >= 0
<1>1. chain \in Accounts /\ fin \in Accounts /\ forks \in 0..MaxForks
  BY DEF TypeOK, ChannelTypeOK
<1>2. \A c \in Accounts : c.settled \in 0..Deposit /\ c.status \in Statuses /\ c.lapsed \in BOOLEAN
  BY DEF Accounts
<1> QED BY SMTT(30), <1>1, <1>2, ChannelAssumption

(* A record that is fenced keeps its bookkeeping.                           *)
LEMMA FencingKeepsStore ==
  ASSUME StoreInv, Fencing(rec, rec'), UNCHANGED <<mode, gatewayVars>>, payerClosed => payerClosed'
  PROVE  StoreInv'
<1>1. rec \in Records /\ rec' \in Records /\ rec # NoRecord /\ rec' # NoRecord
  BY FieldTypes DEF Fencing
<1>2. req' = req /\ base' = base /\ charged' = charged /\ bound' = bound
  BY DEF gatewayVars, bound
<1>3. \A q \in Requests : charged[q] <= 1 /\ (req[q] = "new" => charged[q] = 0)
  BY DEF StoreInv
<1>4. /\ rec'.frozen => rec'.asked
      /\ rec'.owner # NoOwner => rec'.asked
      /\ rec'.expiring => rec'.sealed
      /\ bound /\ rec'.sealed => Closing'
  BY <1>1 DEF StoreInv, Fencing, Closing
<1>5. ASSUME NEW q \in Requests
      PROVE  /\ rec'.res[q] = "live" => ~rec'.frozen
             /\ ~bound /\ charged[q] # 0 => rec'.res[q] = "none"
             /\ bound =>
                  /\ rec'.res[q] = "live" /\ ~payerClosed' => ~rec'.asked /\ ~rec'.sealed
                  /\ rec'.res[q] = "live" => rec'.owner = NoOwner
                  /\ rec'.res[q] = "live" => \A p \in Requests : rec'.res[p] = "live" => p = q
                  /\ req[q] = "held" /\ charged[q] # 0 => rec'.cum > base[q]
                  /\ req[q] = "held" /\ charged[q] = 0 /\ rec'.res[q] = "live" =>
                       rec'.cum = base[q] /\ rec'.cum < Deposit
  BY <1>1 DEF StoreInv, Fencing, Blocking
<1> QED BY <1>1, <1>2, <1>3, <1>4, <1>5 DEF StoreInv

(* The reasons to close a channel last.                                     *)
LEMMA ClosingLasts ==
  ASSUME Onward, Closing
  PROVE  Closing'
BY DEF Onward, Closing

(* What is settled in full stays so.                                        *)
LEMMA SettledAllLasts ==
  ASSUME chain \in Accounts, chain' \in Accounts, Onward, Fixed', Fixed => SettledAll
  PROVE  SettledAll'
<1>1. Fixed /\ rec' # NoRecord /\ rec # NoRecord /\ forks' = 0
  BY DEF Fixed, Onward
<1>2. chain.settled \in Int /\ chain'.settled \in Int
  BY SMTT(30), ChannelAssumption DEF Accounts
<1> QED BY SMTT(30), <1>1, <1>2 DEF SettledAll, Onward

(* A step that only writes the record.                                      *)
LEMMA WritesKeep ==
  ASSUME TypeOK, StoreInv, ChainInv, Writes,
         UNCHANGED <<chain, fin, forks, payerClosed, mode, gatewayVars>>
  PROVE  StoreInv' /\ ChainInv' /\ Onward
<1>1. rec \in Records \cup {NoRecord} /\ chain \in Accounts
  BY DEF TypeOK, StoreTypeOK, ChannelTypeOK
<1>2. bound' = bound /\ batch' = batch /\ mode' = mode
  BY DEF bound, batch
<1>3. \/ rec' = rec
      \/ rec' = NoRecord
      \/ rec \in Records /\ rec' \in Records /\ rec # NoRecord /\ rec' # NoRecord /\ Fencing(rec, rec')
  BY FieldTypes DEF Writes, Fencing
<1>4. StoreInv'
  <2>1. CASE rec' = rec
    BY <1>2, <2>1 DEF StoreInv, Closing, gatewayVars
  <2>2. CASE rec' = NoRecord
    BY <1>2, <2>2 DEF StoreInv, gatewayVars
  <2> QED BY <1>3, <2>1, <2>2, FencingKeepsStore
<1>5. rec # NoRecord => chain.settled <= rec.cum
  BY DEF ChainInv
<1>6. Onward
  <2>1. rec # NoRecord => rec.cum \in Int
    BY <1>1, FieldTypes
  <2>2. rec' # NoRecord =>
          /\ rec # NoRecord /\ rec' \in Records
          /\ rec.cum <= rec'.cum
          /\ rec.frozen => rec'.frozen /\ rec'.cum = rec.cum
          /\ rec.asked => rec'.asked
          /\ chain'.settled <= rec'.cum
    BY SMTT(30), <1>1, <1>3, <1>5, <2>1 DEF Fencing
  <2>3. chain.settled \in Int
    BY SMTT(30), <1>1, ChannelAssumption DEF Accounts
  <2>4. Sparing
    BY <1>3 DEF Sparing, Fencing, Held
  <2> QED BY SMTT(30), <1>2, <2>2, <2>3, <2>4 DEF Onward
<1>7. RecordOutlivesChannel'
  <2>1. ASSUME forks = 0, Finished(rec)' PROVE fin.status \in Ended
    <3>1. CASE rec' = rec
      BY <1>2, <2>1, <3>1 DEF ChainInv, RecordOutlivesChannel, Finished
    <3>2. CASE rec' = NoRecord
      BY <2>1, <3>2, FieldTypes DEF Writes, Fencing, ChainInv, RecordOutlivesChannel, Finished
    <3>3. CASE rec' # rec /\ rec' # NoRecord
      BY <1>2, <2>1, <3>3 DEF Writes, Finished
    <3> QED BY <3>1, <3>2, <3>3
  <2> QED BY <2>1 DEF RecordOutlivesChannel
<1>8. Closing => Closing'
  BY <1>6, ClosingLasts
<1>9. \A c \in Views' : /\ c.status = "closing" \/ c.lapsed => payerClosed'
                        /\ (bound /\ c.status # "open" => Closing)'
  BY <1>2, <1>8 DEF ChainInv, Views
<1>10. (Fixed /\ ~batch /\ chain.status \in {"sealed", "distributed"} /\ ~chain.lapsed => SettledAll)'
  <2>1. Fixed /\ ~batch /\ chain.status \in {"sealed", "distributed"} /\ ~chain.lapsed => SettledAll
    BY DEF ChainInv
  <2> QED BY <1>1, <1>2, <1>6, <2>1, SettledAllLasts
<1>11. (rec # NoRecord => chain.settled <= rec.cum)'
  BY <1>6 DEF Onward
<1> QED BY <1>4, <1>6, <1>7, <1>9, <1>10, <1>11 DEF ChainInv

(* A transaction that may be sent still may.                                *)
LEMMA TxLasts ==
  ASSUME chain \in Accounts, chain' \in Accounts, rec \in Records \cup {NoRecord}, Onward,
         NEW t \in Txs, TxOK(t)
  PROVE  TxOK(t)'
<1>1. t.amount \in Int /\ chain.settled \in Int /\ chain'.settled \in Int
  BY SMTT(30), ChannelAssumption DEF Accounts, Txs
<1>2. /\ rec # NoRecord => rec.cum \in Int
      /\ rec' # NoRecord => rec # NoRecord /\ rec'.cum \in Int
      /\ bound' = bound /\ batch' = batch
  BY FieldTypes DEF Onward, bound, batch
<1>3. (rec # NoRecord => t.amount <= rec.cum)'
  BY SMTT(30), <1>1, <1>2 DEF TxOK, Onward
<1>4. (bound /\ t.op \in {"settleAndSeal", "seal"} => Closing)'
  BY <1>2, ClosingLasts DEF TxOK
<1>5. Fixed' => Fixed /\ rec' # NoRecord /\ forks' = 0
  BY DEF Fixed, Onward
<1>6. (Fixed /\ t.op = "settleAndSeal" =>
         rec.frozen /\ (t.amount = rec.cum \/ (t.amount = 0 /\ chain.settled = rec.cum)))'
  BY SMTT(30), <1>1, <1>2, <1>5 DEF TxOK, Onward
<1>7. (Fixed /\ batch /\ t.op = "seal" => SettledAll)'
  BY <1>2, SettledAllLasts DEF TxOK
<1> QED BY <1>3, <1>4, <1>6, <1>7 DEF TxOK

(* What a pass read stays behind.                                           *)
LEMMA SnapLasts ==
  ASSUME chain \in Accounts, chain' \in Accounts, rec \in Records \cup {NoRecord}, Onward,
         NEW w \in Workers, SnapInv(w), pc'[w] = pc[w], snap'[w] = snap[w]
  PROVE  SnapInv(w)'
<1>1. /\ rec # NoRecord => rec.cum \in Int
      /\ rec' # NoRecord => rec # NoRecord /\ rec'.cum \in Int /\ rec.cum <= rec'.cum
      /\ bound' = bound /\ batch' = batch
  BY FieldTypes DEF Onward, bound, batch
<1>2. SUFFICES ASSUME pc[w] = "reconcile"
      PROVE  /\ (IF batch THEN snap[w] \in BatchCopies ELSE snap[w] \in SessionCopies)'
             /\ (rec # NoRecord => snap[w].cum <= rec.cum)'
             /\ (batch /\ rec # NoRecord => snap[w].read.settled <= rec.cum)'
             /\ (bound /\ (snap[w].asked \/ snap[w].sealed) => Closing)'
             /\ (forks = 0 => IF batch
                              THEN /\ snap[w].read.settled <= chain.settled
                                   /\ snap[w].read.status = "sealed" => chain.status \in Past
                              ELSE snap[w].sealed => fin.status \in Ended)'
  BY DEF SnapInv
<1>3. /\ IF batch THEN snap[w] \in BatchCopies ELSE snap[w] \in SessionCopies
      /\ rec # NoRecord => snap[w].cum <= rec.cum
      /\ batch /\ rec # NoRecord => snap[w].read.settled <= rec.cum
      /\ bound /\ (snap[w].asked \/ snap[w].sealed) => Closing
      /\ forks = 0 => IF batch
                      THEN /\ snap[w].read.settled <= chain.settled
                           /\ snap[w].read.status = "sealed" => chain.status \in Past
                      ELSE snap[w].sealed => fin.status \in Ended
  BY <1>2 DEF SnapInv
<1>4. /\ snap[w].cum \in Int
      /\ batch => snap[w].read.settled \in Int
      /\ chain.settled \in Int /\ chain'.settled \in Int
  BY SMTT(30), <1>3, ChannelAssumption DEF BatchCopies, SessionCopies, Accounts
<1>5. (IF batch THEN snap[w] \in BatchCopies ELSE snap[w] \in SessionCopies)'
  BY <1>1, <1>3 DEF BatchCopies, SessionCopies, Accounts
<1>6. (rec # NoRecord => snap[w].cum <= rec.cum)'
  BY SMTT(30), <1>1, <1>3, <1>4
<1>7. (batch /\ rec # NoRecord => snap[w].read.settled <= rec.cum)'
  BY SMTT(30), <1>1, <1>3, <1>4
<1>8. (bound /\ (snap[w].asked \/ snap[w].sealed) => Closing)'
  BY <1>1, <1>3, ClosingLasts
<1>9. (forks = 0 => IF batch
                    THEN /\ snap[w].read.settled <= chain.settled
                         /\ snap[w].read.status = "sealed" => chain.status \in Past
                    ELSE snap[w].sealed => fin.status \in Ended)'
  BY SMTT(30), <1>1, <1>3, <1>4 DEF Onward
<1> QED BY <1>5, <1>6, <1>7, <1>8, <1>9

(* A plan stays sound.                                                      *)
LEMMA PlanLasts ==
  ASSUME chain \in Accounts, chain' \in Accounts, rec \in Records \cup {NoRecord}, Onward,
         NEW w \in Workers, PlanInv(w), plan[w] \in Plans, plan'[w] = plan[w]
  PROVE  PlanInv(w)'
<1>1. bound' = bound /\ batch' = batch /\ Terminal(w)' = Terminal(w)
  BY DEF Onward, bound, batch, Terminal
<1>2. TxOK(plan[w].tx)'
  <2>1. PICK t \in Txs : t = plan[w].tx
    BY DEF Plans
  <2>2. TxOK(t)
    BY <2>1 DEF PlanInv
  <2>3. TxOK(t)'
    BY <2>2, TxLasts
  <2> QED BY <2>1, <2>3 DEF TxOK
<1>3. Closing => Closing'
  BY ClosingLasts
<1>4. (forks = 0 /\ Terminal(w) => TerminalTx(plan[w].tx))'
  BY <1>1 DEF PlanInv, TerminalTx, Onward
<1> QED BY <1>1, <1>2, <1>3, <1>4 DEF PlanInv, Onward

(* A transaction on its way stays sound.                                    *)
LEMMA SentLasts ==
  ASSUME chain \in Accounts, chain' \in Accounts, rec \in Records \cup {NoRecord}, Onward,
         NEW w \in Workers, SentInv(w), tx[w] \in Txs,
         pc'[w] = pc[w], plan'[w] = plan[w], tx'[w] = tx[w], landing'[w] = landing[w]
  PROVE  SentInv(w)'
<1>1. bound' = bound /\ batch' = batch /\ Terminal(w)' = Terminal(w)
  BY DEF Onward, bound, batch, Terminal
<1>2. TxOK(tx[w])'
  <2>1. PICK t \in Txs : t = tx[w]
    OBVIOUS
  <2>2. TxOK(t)
    BY <2>1 DEF SentInv
  <2>3. TxOK(t)'
    BY <2>2, TxLasts
  <2> QED BY <2>1, <2>3 DEF TxOK
<1> QED BY <1>1, <1>2 DEF SentInv, Onward

(* A worker that did not move.                                              *)
LEMMA WorkLasts ==
  ASSUME TypeOK, chain' \in Accounts, Onward, NEW w \in Workers, WorkInv(w),
         pc'[w] = pc[w], snap'[w] = snap[w], plan'[w] = plan[w],
         tx'[w] = tx[w], landing'[w] = landing[w]
  PROVE  WorkInv(w)'
<1>1. /\ chain \in Accounts /\ rec \in Records \cup {NoRecord}
      /\ plan[w] \in Plans /\ tx[w] \in Txs
  BY DEF TypeOK, ChannelTypeOK, StoreTypeOK, Workers
<1> QED BY <1>1, SnapLasts, PlanLasts, SentLasts DEF WorkInv

(* The empty transaction may be sent.                                       *)
LEMMA NoTxOK ==
  ASSUME rec' \in Records \cup {NoRecord}
  PROVE  TxOK(NoTx)'
<1>1. rec' # NoRecord => rec'.cum >= 0
  BY FieldTypes
<1> QED BY <1>1 DEF TxOK, NoTx

(* A pass that ended.                                                       *)
LEMMA EndedWork ==
  ASSUME TypeOK, rec' \in Records \cup {NoRecord}, NEW w \in Workers, EndPass(w)
  PROVE  WorkInv(w)'
<1>1. /\ pc'[w] = "idle" /\ plan'[w] = Nothing /\ tx'[w] = NoTx /\ landing'[w] = "none"
  BY DEF EndPass, Goto, Abandon, TypeOK, ChannelTypeOK, Workers
<1>2. TxOK(NoTx)'
  BY NoTxOK
<1>3. TxOK(tx[w])' /\ TxOK(plan[w].tx)'
  BY SMTT(30), <1>1, <1>2 DEF TxOK, Nothing
<1>4. ~Terminal(w)' /\ plan'[w].kind = "none" /\ plan'[w].store = "keep"
  BY SMTT(30), <1>1 DEF Terminal, Nothing
<1> QED BY <1>1, <1>3, <1>4 DEF WorkInv, SnapInv, PlanInv, SentInv

-----------------------------------------------------------------------------
(* What a pass plans.                                                       *)

(* reconcile_channel plans a close only of a channel whose close is         *)
(* actionable, claimed if the channel is bound, and ends a record only with *)
(* its channel.                                                             *)
LEMMA SessionPlan ==
  ASSUME NEW r \in SessionCopies, NEW c \in Accounts, NEW pays \in BOOLEAN,
         NEW p, p = ReconcileChannel(r, c, pays)
  PROVE  /\ p \in Plans
         /\ p.tx.amount \in {0, r.cum}
         /\ p.tx.op \in {"none", "seal", "reclaim"} => p.tx.amount = 0
         /\ p.tx.op \in {"settleAndSeal", "seal"} \/ p.kind = "idleClose" =>
              /\ ~r.sealed /\ CloseActionable(r, c) /\ (bound => r.asked)
              /\ c.status \in {"open", "closing", "sealed"}
         /\ p.tx.op = "settleAndSeal" => p.tx.amount = CloseAmount(r, c) /\ c.status # "sealed"
         /\ p.kind = "idleClose" =>
              /\ p.tx.distribute /\ p.tx.op \in {"settleAndSeal", "seal", "none"}
              /\ p.tx.op = "none" => c.status = "sealed"
         /\ p.store # "keep" => FinalizedDistributed \/ (r.sealed /\ ~bound)
<1> DEFINE Goal(x) ==
         /\ x \in Plans
         /\ x.tx.amount \in {0, r.cum}
         /\ x.tx.op \in {"none", "seal", "reclaim"} => x.tx.amount = 0
         /\ x.tx.op \in {"settleAndSeal", "seal"} \/ x.kind = "idleClose" =>
              /\ ~r.sealed /\ CloseActionable(r, c) /\ (bound => r.asked)
              /\ c.status \in {"open", "closing", "sealed"}
         /\ x.tx.op = "settleAndSeal" => x.tx.amount = CloseAmount(r, c) /\ c.status # "sealed"
         /\ x.kind = "idleClose" =>
              /\ x.tx.distribute /\ x.tx.op \in {"settleAndSeal", "seal", "none"}
              /\ x.tx.op = "none" => c.status = "sealed"
         /\ x.store # "keep" => FinalizedDistributed \/ (r.sealed /\ ~bound)
<1>1. r.cum \in 0..Deposit /\ 0 \in 0..Deposit /\ c.status \in Statuses
  BY SMTT(30), ChannelAssumption DEF SessionCopies, Accounts
<1>2. \A n \in 0..Deposit, d \in BOOLEAN, o \in {"settle", "settleAndSeal", "seal", "reclaim", "none"} :
        [op |-> o, amount |-> n, distribute |-> d] \in Txs
  BY DEF Txs
<1>3. NoTx \in Txs /\ Nothing.store = "keep" /\ Nothing.kind = "none" /\ Nothing.tx = NoTx
  BY <1>1, <1>2 DEF NoTx, Nothing
<1>4. \A s \in {"keep", "seal", "expire", "delete"} :
        [Nothing EXCEPT !.store = s] = [kind |-> "none", tx |-> NoTx, store |-> s]
  BY SMTT(30) DEF Nothing
<1>5. Goal(Nothing)
  BY <1>3 DEF Plans, Nothing, NoTx
<1>6. ASSUME NEW s \in {"keep", "seal", "expire", "delete"},
             s # "keep" => FinalizedDistributed \/ (r.sealed /\ ~bound)
      PROVE  Goal([Nothing EXCEPT !.store = s])
  BY SMTT(30), <1>3, <1>4, <1>6 DEF Plans, NoTx
<1>7. CASE c.status = "gone"
  <2>1. p = AbsentDisposition
    BY <1>7 DEF ReconcileChannel
  <2>2. CASE ~bound /\ ChannelAbsenceProven
    <3>1. FinalizedDistributed /\ p = [Nothing EXCEPT !.store = "delete"]
      BY <2>1, <2>2 DEF AbsentDisposition, ChannelAbsenceProven, FinalizedDistributed
    <3> QED BY <1>6, <3>1
  <2>3. CASE ~(~bound /\ ChannelAbsenceProven)
    BY <1>5, <2>1, <2>3 DEF AbsentDisposition
  <2> QED BY <2>2, <2>3
<1>8. CASE c.status = "distributed"
  <2>1. p = DistributedDisposition(r)
    BY <1>8 DEF ReconcileChannel
  <2>2. \/ p = Nothing
        \/ p = [Nothing EXCEPT !.store = "expire"] /\ (FinalizedDistributed \/ (r.sealed /\ ~bound))
        \/ p = [Nothing EXCEPT !.store = "seal"] /\ (FinalizedDistributed \/ (r.sealed /\ ~bound))
    BY <2>1 DEF DistributedDisposition
  <2> QED BY ZenonT(30), <1>5, <1>6, <2>2
<1>9. CASE c.status \in {"open", "closing", "sealed"}
  <2>1. \/ p = Nothing
        \/ /\ p = IdleCloseCandidate(r, c, pays)
           /\ ~r.sealed /\ CloseActionable(r, c) /\ (bound => r.asked)
        \/ p = WatermarkCandidate(r, c)
    BY <1>9 DEF ReconcileChannel, CloseUnclaimed
  <2>2. CASE p = WatermarkCandidate(r, c) /\ p # Nothing
    <3>1. p = [kind |-> "watermark", store |-> "keep",
               tx |-> [op |-> "settle", amount |-> r.cum, distribute |-> FALSE]]
      BY <2>2 DEF WatermarkCandidate
    <3>2. [op |-> "settle", amount |-> r.cum, distribute |-> FALSE] \in Txs
      BY <1>1, <1>2
    <3> QED BY SMTT(30), <3>1, <3>2 DEF Plans
  <2>3. CASE /\ p = IdleCloseCandidate(r, c, pays) /\ p # Nothing
             /\ ~r.sealed /\ CloseActionable(r, c) /\ (bound => r.asked)
    <3> DEFINE op == CloseOp(c)
               amount == IF op = "settleAndSeal" THEN CloseAmount(r, c) ELSE 0
               t == [op |-> op, distribute |-> pays, amount |-> amount]
    <3>1. /\ p = [kind |-> IF pays THEN "idleClose" ELSE "watermark", tx |-> t, store |-> "keep"]
      BY <2>3 DEF IdleCloseCandidate
    <3>2. /\ op \in {"settleAndSeal", "seal", "none"}
          /\ op = "settleAndSeal" => c.status # "sealed"
          /\ op = "none" => c.status = "sealed"
      BY <1>9 DEF CloseOp, InGrace, Lapsed
    <3>3. amount \in {0, r.cum} /\ amount \in 0..Deposit
      BY <1>1 DEF CloseAmount
    <3> HIDE DEF op, amount
    <3>4. t \in Txs /\ t.op = op /\ t.amount = amount /\ t.distribute = pays
      BY <1>2, <3>2, <3>3
    <3>5. amount = IF op = "settleAndSeal" THEN CloseAmount(r, c) ELSE 0
      BY DEF amount
    <3> HIDE DEF t
    <3>6. /\ p.tx = t /\ p.store = "keep" /\ p.kind \in {"idleClose", "watermark"}
          /\ p.kind = "idleClose" => pays
          /\ p \in Plans
      BY SMTT(30), <3>1, <3>4 DEF Plans
    <3> QED BY <1>9, <2>3, <3>2, <3>3, <3>4, <3>5, <3>6
  <2> QED BY <1>5, <2>1, <2>2, <2>3
<1> QED BY <1>1, <1>7, <1>8, <1>9 DEF Statuses

(* What a worker may have read: an account not ahead of the channel.        *)
LEMMA ReadFacts ==
  ASSUME TypeOK, ChainInv, NEW c \in Reads
  PROVE  /\ c \in Accounts
         /\ c.settled <= chain.settled
         /\ c.status = "sealed" => chain.status \in Past
         /\ c.status = "closing" => payerClosed
         /\ bound /\ c.status \in {"closing", "sealed"} => Closing
<1>1. chain \in Accounts /\ fin \in Accounts /\ chain.settled \in Int
  BY AccountTypes
<1>2. CASE c \in Views
  BY SMTT(30), <1>1, <1>2 DEF Views, ChainInv, Past
<1>3. CASE c = [chain EXCEPT !.status = "gone"]
  <2>1. c \in Accounts /\ c.settled = chain.settled /\ c.status = "gone"
    BY <1>1, <1>3 DEF Accounts, Statuses
  <2> QED BY SMTT(30), <1>1, <2>1
<1> QED BY <1>2, <1>3 DEF Reads

(* The plan of a session pass is sound.                                     *)
LEMMA SessionPlanOK ==
  ASSUME TypeOK, ChainInv, Onward, UNCHANGED <<chain, fin, forks, payerClosed>>, ~batch,
         NEW w \in Workers, NEW r \in SessionCopies, NEW c \in Reads, NEW pays \in BOOLEAN,
         rec' # NoRecord => r.cum <= rec'.cum,
         bound /\ (r.asked \/ r.sealed) => Closing',
         forks = 0 /\ r.sealed => fin.status \in Ended,
         ChannelCloseDue(r) => rec' # NoRecord /\ rec'.frozen /\ r.cum = rec'.cum,
         plan'[w] = ReconcileChannel(r, c, pays)
  PROVE  PlanInv(w)' /\ plan'[w] \in Plans
<1>1. PICK p : p = ReconcileChannel(r, c, pays)
  OBVIOUS
<1>2. plan'[w] = p
  BY <1>1
<1>3. /\ p \in Plans
      /\ p.tx.amount \in {0, r.cum}
      /\ p.tx.op \in {"none", "seal", "reclaim"} => p.tx.amount = 0
      /\ p.tx.op \in {"settleAndSeal", "seal"} \/ p.kind = "idleClose" =>
           /\ ~r.sealed /\ CloseActionable(r, c) /\ (bound => r.asked)
           /\ c.status \in {"open", "closing", "sealed"}
      /\ p.tx.op = "settleAndSeal" => p.tx.amount = CloseAmount(r, c) /\ c.status # "sealed"
      /\ p.kind = "idleClose" =>
           /\ p.tx.distribute /\ p.tx.op \in {"settleAndSeal", "seal", "none"}
           /\ p.tx.op = "none" => c.status = "sealed"
      /\ p.store # "keep" => FinalizedDistributed \/ (r.sealed /\ ~bound)
  BY SMTT(30), <1>1, ReadFacts, SessionPlan
<1>4. /\ bound' = bound /\ batch' = batch /\ mode' = mode
      /\ rec' # NoRecord => rec'.cum \in Int /\ rec'.cum >= 0 /\ chain.settled <= rec'.cum
      /\ chain.settled \in Int /\ c.settled \in Int /\ r.cum \in Int
  BY SMTT(30), FieldTypes, AccountTypes, ReadFacts, ChannelAssumption DEF Onward, bound, batch, SessionCopies
<1>5. TxOK(p.tx)'
  <2>1. (rec # NoRecord => p.tx.amount <= rec.cum)'
    BY <1>3, <1>4
  <2>2. (bound /\ p.tx.op \in {"settleAndSeal", "seal"} => Closing)'
    BY <1>3, <1>4
  <2>3. ASSUME Fixed', p.tx.op = "settleAndSeal"
        PROVE  rec'.frozen /\ (p.tx.amount = rec'.cum \/ (p.tx.amount = 0 /\ chain.settled = rec'.cum))
    <3>1. ~r.sealed /\ CloseActionable(r, c) /\ (bound => r.asked) /\ c.status # "sealed"
          /\ p.tx.amount = CloseAmount(r, c)
      BY <1>3, <2>3
    <3>2. ChannelCloseDue(r)
      <4>1. CASE bound
        BY <3>1, <4>1 DEF ChannelCloseDue
      <4>2. CASE ~bound
        <5>1. mode = "legacy"
          BY <4>2, StoreAssumption DEF TypeOK, StoreTypeOK, bound, batch
        <5>2. ~payerClosed
          BY <1>4, <2>3, <5>1 DEF Fixed
        <5> QED BY <3>1, <5>2, ReadFacts DEF CloseActionable
      <4> QED BY <4>1, <4>2
    <3>3. rec' # NoRecord /\ rec'.frozen /\ r.cum = rec'.cum
      BY <3>2
    <3>4. c.settled <= chain.settled
      BY ReadFacts
    <3> QED BY SMTT(30), <1>4, <3>1, <3>3, <3>4 DEF CloseAmount
  <2> QED BY <1>3, <1>4, <2>1, <2>2, <2>3 DEF TxOK
<1>6. bound /\ (p.kind = "idleClose" \/ p.store # "keep") => Closing'
  <2>1. bound /\ p.kind = "idleClose" => Closing'
    BY <1>3
  <2>2. bound /\ FinalizedDistributed => Closing
    BY DEF ChainInv, Views, FinalizedDistributed
  <2> QED BY <1>3, <2>1, <2>2, ClosingLasts
<1>7. forks = 0 /\ p.store # "keep" => fin.status \in Ended
  BY <1>3 DEF FinalizedDistributed, Ended
<1>8. p.kind = "idleClose" => TerminalTx(p.tx)'
  <2>1. c.status = "sealed" => chain.status \in Past
    BY ReadFacts
  <2> QED BY <1>3, <2>1 DEF TerminalTx
<1>9. Terminal(w)' => p.kind = "idleClose"
  BY <1>2, <1>4 DEF Terminal
<1>10. TxOK(plan[w].tx)' /\ (Terminal(w) => TerminalTx(plan[w].tx))'
  BY <1>2, <1>5, <1>8, <1>9 DEF TxOK, TerminalTx
<1> QED BY <1>2, <1>3, <1>4, <1>6, <1>7, <1>10 DEF PlanInv

(* reconcile_batch_channel plans a close only at an amount that is frozen,  *)
(* past the grace period only one settled in full, and ends a record only   *)
(* after a transaction that ends the channel.                               *)
LEMMA BatchPlan ==
  ASSUME NEW r \in BatchCopies, NEW c \in Accounts, NEW pays \in BOOLEAN, NEW old \in BOOLEAN,
         NEW p, p = ReconcileBatchChannel(r, c, pays, old)
  PROVE  /\ p \in Plans
         /\ p.tx.amount \in {0, r.cum}
         /\ p.tx.op \in {"none", "seal", "reclaim"} => p.tx.amount = 0
         /\ p.tx.op = "settleAndSeal" =>
              r.frozen /\ p.tx.amount = CloseAmount(r, c) /\ c.status = "closing"
         /\ p.tx.op = "seal" => r.frozen /\ Lapsed(c)
         /\ p.store # "keep" =>
              \/ p.tx.op = "reclaim"
              \/ p.tx.distribute /\ p.tx.op \in {"settleAndSeal", "seal"}
              \/ p.tx.distribute /\ p.tx.op = "none" /\ c.status = "sealed"
<1>1. /\ r.cum \in 0..Deposit /\ 0 \in 0..Deposit /\ c.status \in Statuses
      /\ c.settled \in Int /\ c.settled >= 0 /\ r.cum \in Int
  BY SMTT(30), ChannelAssumption DEF BatchCopies, Accounts
<1>2. \A n \in 0..Deposit, d \in BOOLEAN, o \in {"settle", "settleAndSeal", "seal", "reclaim", "none"} :
        [op |-> o, amount |-> n, distribute |-> d] \in Txs
  BY DEF Txs
<1>3. NoTx \in Txs /\ NoTx.op = "none" /\ NoTx.amount = 0
  BY <1>1, <1>2 DEF NoTx
<1>4. CloseAmount(r, c) \in 0..Deposit /\ CloseAmount(r, c) \in {0, r.cum}
      /\ (~(r.cum > c.settled) => CloseAmount(r, c) = 0)
  BY <1>1 DEF CloseAmount
<1>5. ASSUME NEW o \in {"settleAndSeal", "seal", "none"}, NEW n \in 0..Deposit, NEW d \in BOOLEAN,
             p = SealedClose(o, n, d)
      PROVE  /\ p \in Plans /\ p.tx.op = o /\ p.tx.amount = n
             /\ p.store # "keep" => p.tx.distribute
  <2> DEFINE t == [op |-> o, amount |-> n, distribute |-> d]
  <2>1. t \in Txs /\ t.op = o /\ t.amount = n /\ t.distribute = d
    BY <1>2
  <2>2. p = [kind |-> "close", tx |-> t, store |-> IF d THEN "expire" ELSE "keep"]
    BY <1>5 DEF SealedClose
  <2> HIDE DEF t
  <2>3. p.tx = t /\ (p.store # "keep" => d) /\ p \in Plans
    BY SMTT(30), <2>1, <2>2 DEF Plans
  <2> QED BY <2>1, <2>3
<1>6. CASE c.status = "open"
  <2>1. p = Claim(r, c, pays)
    BY <1>6 DEF ReconcileBatchChannel, Lapsed, InGrace
  <2>2. CASE p = Nothing
    BY SMTT(30), <1>1, <1>3, <2>2 DEF Nothing, Plans
  <2>3. CASE p # Nothing
    <3> DEFINE d == pays /\ DistributionThresholdReached(Larger(r.cum, c.settled), c.paid)
               o == IF r.cum > c.settled THEN "settle" ELSE "none"
               t == [op |-> o, amount |-> CloseAmount(r, c), distribute |-> d]
    <3>1. p = [kind |-> "claim", tx |-> t, store |-> "keep"]
      BY <2>1, <2>3 DEF Claim
    <3>2. d \in BOOLEAN
      OBVIOUS
    <3>3. o \in {"settle", "none"} /\ (o = "none" => CloseAmount(r, c) = 0)
      BY <1>4
    <3> HIDE DEF d, o
    <3>4. t \in Txs /\ t.op = o /\ t.amount = CloseAmount(r, c)
      BY <1>2, <1>4, <3>2, <3>3
    <3> HIDE DEF t
    <3>5. p \in Plans /\ p.tx = t /\ p.store = "keep"
      BY SMTT(30), <3>1, <3>4 DEF Plans
    <3> QED BY <1>4, <3>3, <3>4, <3>5
  <2> QED BY <2>2, <2>3
<1>7. CASE InGrace(c) /\ r.frozen
  <2>1. p = SealedClose("settleAndSeal", CloseAmount(r, c), pays)
    BY <1>7 DEF ReconcileBatchChannel, Lapsed, InGrace
  <2> QED BY <1>4, <1>5, <1>7, <2>1 DEF InGrace
<1>8. CASE Lapsed(c) /\ r.frozen
  <2>1. p = SealedClose("seal", 0, pays)
    BY <1>8 DEF ReconcileBatchChannel, Lapsed, InGrace
  <2> QED BY <1>1, <1>5, <1>8, <2>1
<1>9. CASE c.status = "sealed" /\ pays
  <2>1. p = SealedClose("none", 0, TRUE)
    BY <1>9 DEF ReconcileBatchChannel, Lapsed, InGrace
  <2> QED BY <1>1, <1>5, <1>9, <2>1
<1>10. CASE c.status = "distributed" /\ old
  <2>1. p = [kind |-> "reclaim", tx |-> [NoTx EXCEPT !.op = "reclaim"], store |-> "delete"]
    <3>1. c.status # "open" /\ ~InGrace(c) /\ ~Lapsed(c) /\ c.status # "sealed"
      BY <1>10 DEF Lapsed, InGrace
    <3> QED BY <1>10, <3>1 DEF ReconcileBatchChannel
  <2>2. \A t \in Txs : LET u == [t EXCEPT !.op = "reclaim"] IN
          u \in Txs /\ u.op = "reclaim" /\ u.amount = t.amount
    BY DEF Txs
  <2>3. PICK u \in Txs : u = [NoTx EXCEPT !.op = "reclaim"] /\ u.op = "reclaim" /\ u.amount = 0
    BY <1>3, <2>2
  <2>4. p = [kind |-> "reclaim", tx |-> u, store |-> "delete"]
    BY <2>1, <2>3
  <2>5. p.tx = u /\ p.store = "delete" /\ p \in Plans
    BY SMTT(30), <2>4 DEF Plans
  <2>6. p.tx.op = "reclaim" /\ p.tx.amount = 0
    BY <2>3, <2>5
  <2> QED BY <2>5, <2>6
<1>11. CASE /\ c.status # "open" /\ ~(InGrace(c) /\ r.frozen) /\ ~(Lapsed(c) /\ r.frozen)
            /\ ~(c.status = "sealed" /\ pays) /\ ~(c.status = "distributed" /\ old)
  <2>1. p = Nothing
    BY <1>11 DEF ReconcileBatchChannel
  <2> QED BY SMTT(30), <1>1, <1>3, <2>1 DEF Nothing, Plans
<1> QED BY <1>6, <1>7, <1>8, <1>9, <1>10, <1>11

(* The fence a batch pass puts on a record, and the observation it adds,    *)
(* leave the amount alone.                                                  *)
LEMMA BatchFences ==
  ASSUME TypeOK, StoreInv, batch, rec # NoRecord, NEW c \in Accounts, c.settled <= rec.cum,
         NEW s, s = Fenced(c) \/ s = Observe(Fenced(c), c)
  PROVE  /\ Fencing(rec, s) /\ s.expiring = rec.expiring
         /\ s.frozen = Fenced(c).frozen /\ s.cum = Fenced(c).cum
         /\ Fenced(c) \in Records
<1>1. rec \in Records /\ ~bound /\ rec.cum \in 0..Deposit /\ rec.cum \in Int /\ c.settled \in Int
  BY FieldTypes, AccountTypes DEF TypeOK, StoreTypeOK, bound, batch
<1>2. /\ rec.frozen => rec.asked
      /\ rec.expiring => rec.sealed
      /\ \A q \in Requests : rec.res[q] = "live" => ~rec.frozen
  BY DEF StoreInv
<1>3. PICK f : f = Fenced(c)
  OBVIOUS
<1>4. /\ f \in Records /\ f.cum = rec.cum /\ f.sealed = rec.sealed /\ f.expiring = rec.expiring
      /\ f.res = rec.res /\ f.owner = rec.owner /\ f.due = rec.due
      /\ rec.asked => f.asked
      /\ rec.frozen => f.frozen
      /\ f.frozen /\ ~rec.frozen => f.asked /\ ~Blocking(rec)
  <2>1. CASE c.status # "closing"
    BY <1>1, <1>3, <2>1 DEF Fenced
  <2>2. CASE c.status = "closing"
    <3>1. PICK freeze \in BOOLEAN :
            freeze = (~rec.frozen /\ ~Blocking(rec) /\ (~c.lapsed \/ rec.cum <= c.settled))
      OBVIOUS
    <3>2. f = FreezeAt(rec, c, freeze)
      BY <1>3, <2>2, <3>1 DEF Fenced, BatchCloseTransition
    <3>3. (IF freeze THEN Larger(rec.cum, c.settled) ELSE rec.cum) = rec.cum
      BY SMTT(30), <1>1 DEF Larger
    <3>4. PICK z \in BOOLEAN : z = (rec.frozen \/ freeze)
      OBVIOUS
    <3>5. f = [rec EXCEPT !.asked = TRUE, !.frozen = z, !.cum = rec.cum]
      BY <3>2, <3>3, <3>4 DEF FreezeAt
    <3>6. f \in Records
      BY <1>1, <3>5, FieldUpdates
    <3>7. /\ f.cum = rec.cum /\ f.sealed = rec.sealed /\ f.expiring = rec.expiring /\ f.asked = TRUE
          /\ f.res = rec.res /\ f.owner = rec.owner /\ f.due = rec.due /\ f.frozen = z
      BY <1>1, <3>5 DEF Records
    <3> QED BY <3>1, <3>4, <3>6, <3>7
  <2> QED BY <2>1, <2>2
<1>5. Fencing(rec, f)
  BY <1>1, <1>2, <1>4 DEF Fencing, Blocking
<1>6. CASE s = f
  BY <1>3, <1>4, <1>5, <1>6
<1>7. CASE s = Observe(f, c)
  <2>1. PICK x \in BOOLEAN, y \in BOOLEAN :
          /\ x = (f.asked \/ c.status # "open")
          /\ y = (f.sealed \/ c.status \in {"sealed", "distributed"})
    OBVIOUS
  <2>2. s = [f EXCEPT !.asked = x, !.sealed = y]
    BY <1>7, <2>1 DEF Observe
  <2>3. s \in Records
    BY <1>4, <2>2, FieldUpdates
  <2>4. /\ s.cum = f.cum /\ s.expiring = f.expiring /\ s.res = f.res /\ s.owner = f.owner
        /\ s.frozen = f.frozen /\ s.asked = x /\ s.sealed = y
    BY <1>4, <2>2 DEF Records
  <2>5. (f.asked => s.asked) /\ (f.sealed => s.sealed)
    BY <2>1, <2>4
  <2>6. Fencing(rec, s)
    BY <1>1, <1>2, <1>4, <2>3, <2>4, <2>5 DEF Fencing, Blocking
  <2> QED BY <1>3, <1>4, <2>4, <2>6
<1> QED BY <1>3, <1>6, <1>7

(* The plan of a batch pass is sound.                                       *)
LEMMA BatchPlanOK ==
  ASSUME TypeOK, ChainInv, Onward, UNCHANGED <<chain, fin, forks, payerClosed>>, batch,
         NEW w \in Workers, NEW r \in BatchCopies, NEW c \in Accounts,
         NEW pays \in BOOLEAN, NEW old \in BOOLEAN,
         rec' # NoRecord => r.cum <= rec'.cum,
         forks = 0 => c.settled <= chain.settled,
         forks = 0 /\ c.status = "sealed" => chain.status \in Past,
         c.status = "closing" /\ r.frozen /\ rec' # NoRecord => rec'.frozen /\ r.cum = rec'.cum,
         ~BatchFails(r, c),
         plan'[w] = ReconcileBatchChannel(r, c, pays, old)
  PROVE  PlanInv(w)' /\ plan'[w] \in Plans
<1>1. PICK p : p = ReconcileBatchChannel(r, c, pays, old)
  OBVIOUS
<1>2. plan'[w] = p
  BY <1>1
<1>3. /\ p \in Plans
      /\ p.tx.amount \in {0, r.cum}
      /\ p.tx.op \in {"none", "seal", "reclaim"} => p.tx.amount = 0
      /\ p.tx.op = "settleAndSeal" =>
           r.frozen /\ p.tx.amount = CloseAmount(r, c) /\ c.status = "closing"
      /\ p.tx.op = "seal" => r.frozen /\ Lapsed(c)
      /\ p.store # "keep" =>
           \/ p.tx.op = "reclaim"
           \/ p.tx.distribute /\ p.tx.op \in {"settleAndSeal", "seal"}
           \/ p.tx.distribute /\ p.tx.op = "none" /\ c.status = "sealed"
  BY SMTT(30), <1>1, BatchPlan
<1>4. /\ batch' /\ ~bound' /\ ~bound
      /\ rec' # NoRecord => rec'.cum \in Int /\ rec'.cum >= 0 /\ chain.settled <= rec'.cum
      /\ chain.settled \in Int /\ c.settled \in Int /\ r.cum \in Int
  BY SMTT(30), FieldTypes, AccountTypes, ChannelAssumption DEF Onward, bound, batch, BatchCopies
<1>5. TxOK(p.tx)'
  <2>1. (rec # NoRecord => p.tx.amount <= rec.cum)'
    BY <1>3, <1>4
  <2>2. ASSUME Fixed', p.tx.op = "settleAndSeal"
        PROVE  rec'.frozen /\ (p.tx.amount = rec'.cum \/ (p.tx.amount = 0 /\ chain.settled = rec'.cum))
    <3>1. /\ rec' # NoRecord /\ forks = 0
          /\ r.frozen /\ p.tx.amount = CloseAmount(r, c) /\ c.status = "closing"
      BY <1>3, <2>2 DEF Fixed
    <3>2. rec'.frozen /\ r.cum = rec'.cum /\ c.settled <= chain.settled
      BY <3>1
    <3> QED BY SMTT(30), <1>4, <3>1, <3>2 DEF CloseAmount
  <2>3. ASSUME Fixed', p.tx.op = "seal"
        PROVE  SettledAll'
    <3>1. rec' # NoRecord /\ forks = 0 /\ r.frozen /\ Lapsed(c) /\ c.status = "closing"
      BY <1>3, <2>3 DEF Fixed, Lapsed
    <3>2. rec'.frozen /\ r.cum = rec'.cum /\ c.settled <= chain.settled /\ r.cum <= c.settled
      BY <3>1 DEF BatchFails, SettledCoversAccepted
    <3> QED BY SMTT(30), <1>4, <3>1, <3>2 DEF SettledAll
  <2> QED BY <1>3, <1>4, <2>1, <2>2, <2>3 DEF TxOK
<1>6. forks = 0 /\ p.store # "keep" => TerminalTx(p.tx)'
  BY <1>3 DEF TerminalTx
<1>7. Terminal(w)' => p.store # "keep"
  BY <1>2, <1>4 DEF Terminal
<1>8. TxOK(plan[w].tx)' /\ (forks = 0 /\ Terminal(w) => TerminalTx(plan[w].tx))'
  BY <1>2, <1>5, <1>6, <1>7 DEF TxOK, TerminalTx
<1> QED BY <1>2, <1>3, <1>4, <1>8 DEF PlanInv

-----------------------------------------------------------------------------
(* The steps of a pass.                                                     *)

(* The types of what the workers hold.                                      *)
WorkTypes ==
  /\ pc \in [Workers -> {"idle", "reconcile", "submit", "refresh", "guard", "send",
                         "confirm", "finalize"}]
  /\ snap \in [Workers -> SessionCopies \cup BatchCopies \cup {NoRecord}]
  /\ plan \in [Workers -> Plans]
  /\ tx \in [Workers -> Txs]
  /\ landing \in [Workers -> {"none", "pending", "confirmed", "finalized"}]

(* The step of a pass leaves the other passes, the channel and the requests *)
(* alone.                                                                   *)
Alone(w) ==
  /\ UNCHANGED <<chain, fin, forks, payerClosed, mode, gatewayVars>>
  /\ \A v \in Workers \ {w} :
       /\ pc'[v] = pc[v] /\ snap'[v] = snap[v] /\ plan'[v] = plan[v]
       /\ tx'[v] = tx[v] /\ landing'[v] = landing[v]

(* What is to be shown of a pass's step.                                    *)
LEMMA PassKeeps ==
  ASSUME IInv, NEW w \in Workers, Writes, Alone(w), WorkTypes', Onward => WorkInv(w)'
  PROVE  IInv' /\ Onward
<1>1. TypeOK /\ StoreInv /\ ChainInv
  BY DEF IInv
<1>2. StoreInv' /\ ChainInv' /\ Onward
  BY <1>1, WritesKeep DEF Alone
<1>3. chain' = chain /\ chain \in Accounts
  BY <1>1, AccountTypes DEF Alone
<1>4. ASSUME NEW v \in Workers PROVE WorkInv(v)'
  <2>1. CASE v = w
    BY <1>2, <2>1
  <2>2. CASE v # w
    <3>1. WorkInv(v)
      BY DEF IInv
    <3> QED BY <1>1, <1>2, <1>3, <2>2, <3>1, WorkLasts DEF Alone
  <2> QED BY <2>1, <2>2
<1>5. ChannelTypeOK'
  <2>1. /\ chain' \in Accounts /\ fin' \in Accounts /\ forks' \in 0..MaxForks
        /\ tx' \in [Senders -> Txs]
        /\ landing' \in [Senders -> {"none", "pending", "confirmed", "finalized"}]
        /\ payerClosed' \in BOOLEAN
    BY <1>1 DEF Alone, WorkTypes, TypeOK, ChannelTypeOK, Workers
  <2> QED BY <2>1 DEF ChannelTypeOK
<1>6. StoreTypeOK'
  <2>1. /\ mode' = mode /\ req' = req /\ base' = base /\ charged' = charged
        /\ rec' \in Records \cup {NoRecord}
    BY <1>2 DEF Alone, gatewayVars, Onward
  <2> QED BY <1>1, <2>1 DEF TypeOK, StoreTypeOK
<1>7. TypeOK'
  BY <1>5, <1>6 DEF TypeOK, WorkTypes
<1> QED BY <1>2, <1>4, <1>7 DEF IInv

(* The types, of all workers and of one.                                    *)
LEMMA WorkerTypes ==
  ASSUME TypeOK, NEW w \in Workers
  PROVE  /\ WorkTypes
         /\ plan[w] \in Plans /\ plan[w].tx \in Txs /\ tx[w] \in Txs
         /\ rec \in Records \cup {NoRecord} /\ chain \in Accounts
<1>1. WorkTypes
  BY DEF TypeOK, ChannelTypeOK, WorkTypes, Workers
<1>2. rec \in Records \cup {NoRecord} /\ chain \in Accounts
  BY DEF TypeOK, ChannelTypeOK, StoreTypeOK
<1>3. plan[w] \in Plans /\ tx[w] \in Txs
  BY <1>1 DEF WorkTypes
<1>4. plan[w].tx \in Txs
  BY <1>3 DEF Plans
<1> QED BY <1>1, <1>2, <1>3, <1>4

(* A pass that ends.                                                        *)
LEMMA EndPassMoves ==
  ASSUME TypeOK, NEW w \in Workers, EndPass(w), UNCHANGED <<mode, gatewayVars>>
  PROVE  Alone(w) /\ WorkTypes' /\ (Onward => WorkInv(w)')
<1>1. WorkTypes
  BY WorkerTypes
<1>2. NoTx \in Txs /\ Nothing \in Plans
  BY SMTT(30), ChannelAssumption DEF NoTx, Nothing, Txs, Plans
<1>3. Alone(w)
  BY <1>1 DEF EndPass, Goto, Forget, Abandon, Alone, WorkTypes, Workers
<1>4. WorkTypes'
  BY <1>1, <1>2 DEF EndPass, Goto, Forget, Abandon, WorkTypes, Workers
<1>5. Onward => WorkInv(w)'
  BY EndedWork DEF Onward
<1> QED BY <1>3, <1>4, <1>5

(* The transaction of a worker that sends nothing.                          *)
LEMMA SentTxLasts ==
  ASSUME TypeOK, Onward, chain' = chain, NEW w \in Workers, WorkInv(w), tx'[w] = tx[w]
  PROVE  TxOK(tx[w])'
<1>1. rec \in Records \cup {NoRecord} /\ chain \in Accounts /\ chain' \in Accounts
  BY WorkerTypes
<1>2. PICK t \in Txs : t = tx[w]
  BY WorkerTypes
<1>3. TxOK(t)
  BY <1>2 DEF WorkInv, SentInv
<1>4. TxOK(t)'
  BY <1>1, <1>3, TxLasts
<1> QED BY <1>2, <1>4 DEF TxOK

(* A worker before it sends.                                                *)
LEMMA NotSent ==
  ASSUME TypeOK, Onward, chain' = chain, NEW w \in Workers, WorkInv(w),
         tx'[w] = tx[w], landing'[w] = landing[w],
         pc[w] \notin {"confirm", "finalize"}, pc'[w] \notin {"confirm", "finalize"},
         pc'[w] \in {"refresh", "guard"} => bound
  PROVE  SentInv(w)'
<1>1. TxOK(tx[w])'
  BY SentTxLasts
<1>2. landing'[w] = "none"
  BY DEF WorkInv, SentInv
<1>3. bound' = bound
  BY DEF Onward, bound
<1> QED BY <1>1, <1>2, <1>3 DEF SentInv

(* A worker that sends t.                                                   *)
LEMMA Sent ==
  ASSUME TypeOK, Onward, chain' = chain, NEW w \in Workers, NEW t \in Txs, TxOK(t), Broadcast(w, t),
         pc'[w] = "confirm", Terminal(w)' => plan'[w].tx = t
  PROVE  SentInv(w)' /\ SnapInv(w)'
<1>1. rec \in Records \cup {NoRecord} /\ chain \in Accounts /\ chain' \in Accounts
  BY WorkerTypes
<1>2. tx'[w] = t /\ landing'[w] = "pending"
  BY DEF Broadcast, TypeOK, ChannelTypeOK, Workers
<1>3. TxOK(t)'
  BY <1>1, TxLasts
<1>4. TxOK(tx[w])'
  BY <1>2, <1>3 DEF TxOK
<1> QED BY <1>2, <1>4 DEF SentInv, SnapInv

(* Moving on, reading the record or planning changes one worker.            *)
LEMMA Moving ==
  ASSUME TypeOK, NEW w \in Workers
  PROVE  /\ \A l \in {"idle", "reconcile", "submit", "refresh", "guard", "send", "confirm", "finalize"} :
              Goto(w, l) =>
                /\ pc' \in [Workers -> {"idle", "reconcile", "submit", "refresh", "guard", "send",
                                        "confirm", "finalize"}]
                /\ pc'[w] = l
                /\ \A v \in Workers \ {w} : pc'[v] = pc[v]
         /\ \A p \in Plans : plan' = [plan EXCEPT ![w] = p] =>
                /\ plan' \in [Workers -> Plans]
                /\ plan'[w] = p
                /\ \A v \in Workers \ {w} : plan'[v] = plan[v]
         /\ \A s \in SessionCopies \cup BatchCopies \cup {NoRecord} : snap' = [snap EXCEPT ![w] = s] =>
                /\ snap' \in [Workers -> SessionCopies \cup BatchCopies \cup {NoRecord}]
                /\ snap'[w] = s
                /\ \A v \in Workers \ {w} : snap'[v] = snap[v]
         /\ \A t \in Txs : Broadcast(w, t) =>
                /\ tx' \in [Workers -> Txs]
                /\ landing' \in [Workers -> {"none", "pending", "confirmed", "finalized"}]
                /\ \A v \in Workers \ {w} : tx'[v] = tx[v] /\ landing'[v] = landing[v]
<1>1. WorkTypes
  BY WorkerTypes
<1> QED BY SMTT(30), <1>1 DEF WorkTypes, Goto, Broadcast, Workers

(* A session pass lists the channel.                                        *)
LEMMA ScanStep ==
  ASSUME IInv, NEW w \in Workers, Scan(w)
  PROVE  Writes /\ Alone(w) /\ WorkTypes' /\ (Onward => WorkInv(w)')
<1>1. TypeOK /\ StoreInv /\ ChainInv /\ WorkInv(w) /\ WorkTypes
  BY WorkerTypes DEF IInv
<1>2. rec \in Records /\ rec # NoRecord /\ ~batch
  BY <1>1 DEF Scan, TypeOK, StoreTypeOK
<1>3. /\ Fencing(rec, rec')
      /\ rec'.sealed = rec.sealed
  <2>1. /\ rec.frozen => rec.asked
        /\ rec.expiring => rec.sealed
        /\ bound /\ rec.sealed => payerClosed \/ rec.asked
    BY <1>1, <1>2 DEF StoreInv, Closing
  <2>2. CASE rec' = rec
    BY <1>2, <2>1, <2>2 DEF Fencing
  <2>3. CASE rec' # rec
    <3>1. PICK c \in Views : bound /\ c.status \in {"closing", "sealed"}
                             /\ rec' = [rec EXCEPT !.asked = TRUE]
      BY <2>3 DEF Scan
    <3>2. Closing
      BY <1>1, <3>1 DEF ChainInv
    <3>3. rec' \in Records
      BY <1>2, <3>1, FieldUpdates
    <3>4. /\ rec'.cum = rec.cum /\ rec'.asked /\ rec'.frozen = rec.frozen /\ rec'.sealed = rec.sealed
          /\ rec'.expiring = rec.expiring /\ rec'.res = rec.res /\ rec'.owner = rec.owner
      BY <1>2, <3>1 DEF Records
    <3> QED BY <1>2, <2>1, <3>2, <3>3, <3>4 DEF Fencing, Closing
  <2> QED BY <2>2, <2>3
<1>4. forks = 0 /\ rec.sealed => fin.status \in Ended
  BY <1>1, <1>2 DEF ChainInv, RecordOutlivesChannel, Finished
<1>5. Writes
  BY <1>2, <1>3, <1>4 DEF Writes
<1>6. Copy(rec') \in SessionCopies /\ rec' \in Records
  <2>1. rec' \in Records
    BY <1>3 DEF Fencing
  <2> QED BY <2>1, FieldTypes DEF Copy, SessionCopies
<1>7. PICK s \in SessionCopies : s = Copy(rec')
  BY <1>6
<1>8. /\ Goto(w, "reconcile") /\ snap' = [snap EXCEPT ![w] = s]
      /\ pc[w] = "idle"
      /\ UNCHANGED <<chain, fin, tx, landing, forks, payerClosed, mode, gatewayVars, plan>>
  BY <1>7 DEF Scan, channelVars
<1>9. Alone(w) /\ WorkTypes'
  BY SMTT(30), <1>1, <1>8, Moving DEF Alone, WorkTypes
<1>10. pc'[w] = "reconcile" /\ snap'[w] = s
  BY <1>1, <1>8, Moving
<1>11. ASSUME Onward PROVE WorkInv(w)'
  <2>1. PlanInv(w)'
    BY <1>1, <1>8, <1>11, WorkerTypes, PlanLasts DEF WorkInv
  <2>2. SentInv(w)'
    BY <1>1, <1>8, <1>10, <1>11, NotSent
  <2>3. s.cum = rec'.cum /\ s.asked = rec'.asked /\ s.sealed = rec'.sealed
    BY <1>7 DEF Copy
  <2>4. bound' = bound /\ ~batch'
    BY <1>2, <1>11 DEF Onward, bound, batch
  <2>5. bound /\ rec'.sealed => payerClosed \/ rec'.asked
    BY <1>3 DEF Fencing
  <2>6. rec'.cum \in Int /\ rec'.cum <= rec'.cum
    BY SMTT(30), <1>6, FieldTypes
  <2>7. SnapInv(w)'
    BY <1>3, <1>4, <1>8, <1>10, <2>3, <2>4, <2>5, <2>6 DEF SnapInv, Closing
  <2> QED BY <2>1, <2>2, <2>7 DEF WorkInv
<1> QED BY <1>5, <1>9, <1>11

(* A claim is a legal write.                                                *)
LEMMA ClaimWrites ==
  ASSUME IInv, NEW w \in Workers, ClaimDueClose(w), ~batch
  PROVE  Writes
<1>1. TypeOK /\ StoreInv /\ ChainInv
  BY DEF IInv
<1>2. Fencing(rec, rec') /\ rec'.sealed = rec.sealed /\ rec # NoRecord
  BY <1>1, ClaimFences DEF ClaimDueClose
<1>3. forks = 0 /\ rec.sealed => fin.status \in Ended
  BY <1>1, <1>2 DEF ChainInv, RecordOutlivesChannel, Finished
<1> QED BY <1>2, <1>3 DEF Writes

(* A session pass claims a due close, and plans.                            *)
LEMMA ReconcileStep ==
  ASSUME IInv, NEW w \in Workers, NEW pays \in BOOLEAN, Reconcile(w, pays)
  PROVE  IInv' /\ Onward
<1>1. TypeOK /\ StoreInv /\ ChainInv /\ WorkInv(w) /\ WorkTypes
  BY WorkerTypes DEF IInv
<1>2. /\ ~batch /\ pc[w] = "reconcile" /\ snap[w] \in SessionCopies
      /\ UNCHANGED <<chain, fin, tx, landing, forks, payerClosed, mode, gatewayVars>>
      /\ Goto(w, "submit") /\ snap' = [snap EXCEPT ![w] = NoRecord]
  BY <1>1 DEF Reconcile, WorkInv, SnapInv, channelVars, Forget
<1>3. Writes
  <2>1. CASE ChannelCloseDue(snap[w])
    BY <1>2, <2>1, ClaimWrites DEF Reconcile
  <2>2. CASE ~ChannelCloseDue(snap[w])
    BY <2>2 DEF Reconcile, Writes
  <2> QED BY <2>1, <2>2
<1>4. Onward
  BY <1>1, <1>2, <1>3, WritesKeep
<1> PICK r : r = IF ChannelCloseDue(snap[w]) THEN Copy(rec') ELSE snap[w]
  OBVIOUS
<1>5. PICK c \in Reads : plan' = [plan EXCEPT ![w] = ReconcileChannel(r, c, pays)]
  BY DEF Reconcile
<1>6. /\ r \in SessionCopies
      /\ rec' # NoRecord => r.cum <= rec'.cum
      /\ bound /\ (r.asked \/ r.sealed) => Closing'
      /\ forks = 0 /\ r.sealed => fin.status \in Ended
      /\ ChannelCloseDue(r) => rec' # NoRecord /\ rec'.frozen /\ r.cum = rec'.cum
  <2>1. CASE ChannelCloseDue(snap[w])
    <3>1. ClaimDueClose(w) /\ r = Copy(rec') /\ rec # NoRecord
      BY <1>5, <2>1 DEF Reconcile, ClaimDueClose
    <3>2. /\ Fencing(rec, rec') /\ rec'.sealed = rec.sealed
          /\ ChannelCloseDue(rec') => rec'.frozen
      BY <1>1, <3>1, ClaimFences
    <3>3. rec' \in Records /\ rec' # NoRecord /\ rec'.cum \in Int
      BY <3>2, FieldTypes DEF Fencing
    <3>4. /\ r.cum = rec'.cum /\ r.asked = rec'.asked /\ r.sealed = rec'.sealed /\ r.due = rec'.due
      BY SMTT(30), <3>1 DEF Copy
    <3>5. r \in SessionCopies
      BY SMTT(30), <3>1, <3>3, FieldTypes DEF Copy, SessionCopies
    <3>6. forks = 0 /\ rec.sealed => fin.status \in Ended
      BY <1>1, <1>2, <3>1 DEF ChainInv, RecordOutlivesChannel, Finished
    <3>7. bound /\ rec'.sealed => Closing'
      BY <1>2, <3>2 DEF Fencing, Closing
    <3>8. ChannelCloseDue(r) => ChannelCloseDue(rec')
      BY <3>4 DEF ChannelCloseDue
    <3> QED BY SMTT(30), <3>2, <3>3, <3>4, <3>5, <3>6, <3>7, <3>8 DEF Closing
  <2>2. CASE ~ChannelCloseDue(snap[w])
    <3>1. rec' = rec /\ r = snap[w]
      BY <1>5, <2>2 DEF Reconcile
    <3>2. Closing => Closing'
      BY <1>4, ClosingLasts
    <3> QED BY <1>1, <1>2, <2>2, <3>1, <3>2 DEF WorkInv, SnapInv
  <2> QED BY <2>1, <2>2
<1>7. ReconcileChannel(r, c, pays) \in Plans
  BY <1>1, <1>6, SessionPlan, ReadFacts
<1>8. plan'[w] = ReconcileChannel(r, c, pays)
  BY <1>1, <1>5 DEF WorkTypes
<1>9. PlanInv(w)'
  BY <1>1, <1>2, <1>4, <1>6, <1>8, SessionPlanOK
<1>10. Alone(w) /\ WorkTypes'
  BY SMTT(30), <1>1, <1>2, <1>5, <1>7, Moving DEF Alone, WorkTypes
<1>11. pc'[w] = "submit"
  BY <1>1, <1>2, Moving
<1>12. SentInv(w)' /\ SnapInv(w)'
  BY <1>1, <1>2, <1>4, <1>11, NotSent DEF SnapInv
<1> QED BY <1>3, <1>9, <1>10, <1>12, PassKeeps DEF WorkInv

(* A bound pass renews its claim, and plans again.                          *)
LEMMA RefreshStep ==
  ASSUME IInv, NEW w \in Workers, NEW pays \in BOOLEAN, Refresh(w, pays)
  PROVE  IInv' /\ Onward
<1>1. TypeOK /\ StoreInv /\ ChainInv /\ WorkInv(w) /\ WorkTypes
  BY WorkerTypes DEF IInv
<1>2. /\ bound /\ ~batch /\ pc[w] = "refresh" /\ ClaimDueClose(w)
      /\ UNCHANGED <<chain, fin, tx, landing, forks, payerClosed, mode, gatewayVars, snap>>
      /\ Goto(w, "guard")
  BY <1>1 DEF Refresh, WorkInv, SentInv, channelVars, bound, batch
<1>3. Writes
  BY <1>2, ClaimWrites
<1>4. Onward
  BY <1>1, <1>2, <1>3, WritesKeep
<1> PICK r : r = Copy(rec')
  OBVIOUS
<1>5. PICK c \in Reads : plan' = [plan EXCEPT ![w] = ReconcileChannel(r, c, pays)]
  BY DEF Refresh
<1>6. /\ Fencing(rec, rec') /\ rec'.asked /\ rec'.frozen /\ ~rec'.sealed
      /\ rec' \in Records /\ rec' # NoRecord /\ rec'.cum \in Int
  BY <1>1, <1>2, ClaimFences, FieldTypes DEF Fencing
<1>7. r \in SessionCopies /\ r.cum = rec'.cum /\ ~r.sealed
  BY <1>5, <1>6, FieldTypes DEF Copy, SessionCopies
<1>8. ReconcileChannel(r, c, pays) \in Plans
  BY <1>1, <1>7, SessionPlan, ReadFacts
<1>9. plan'[w] = ReconcileChannel(r, c, pays)
  BY <1>1, <1>5 DEF WorkTypes
<1>10. PlanInv(w)'
  <2>1. r.cum <= rec'.cum /\ Closing'
    BY SMTT(30), <1>6, <1>7 DEF Closing
  <2> QED BY <1>1, <1>2, <1>4, <1>6, <1>7, <1>9, <2>1, SessionPlanOK
<1>11. Alone(w) /\ WorkTypes'
  BY SMTT(30), <1>1, <1>2, <1>5, <1>8, Moving DEF Alone, WorkTypes
<1>12. pc'[w] = "guard"
  BY <1>1, <1>2, Moving
<1>13. SentInv(w)' /\ SnapInv(w)'
  BY <1>1, <1>2, <1>4, <1>12, NotSent DEF SnapInv
<1> QED BY <1>3, <1>10, <1>11, <1>13, PassKeeps DEF WorkInv

(* A bound pass renews its claim before it sends, and while it works.       *)
LEMMA GuardStep ==
  ASSUME IInv, NEW w \in Workers, Guard(w) \/ Heartbeat(w)
  PROVE  IInv' /\ Onward
<1>1. TypeOK /\ StoreInv /\ ChainInv /\ WorkInv(w) /\ WorkTypes
  BY WorkerTypes DEF IInv
<1>2. /\ bound /\ ~batch /\ ClaimDueClose(w)
      /\ UNCHANGED <<chain, fin, tx, landing, forks, payerClosed, mode, gatewayVars, snap, plan>>
  BY <1>1 DEF Guard, Heartbeat, WorkInv, SentInv, channelVars, passVars, bound, batch
<1>3. Writes
  BY <1>2, ClaimWrites
<1>4. Onward
  BY <1>1, <1>2, <1>3, WritesKeep
<1>5. CASE Heartbeat(w)
  <2>1. pc' = pc
    BY <1>5 DEF Heartbeat, passVars
  <2>2. Alone(w) /\ WorkTypes'
    BY <1>1, <1>2, <2>1 DEF Alone, WorkTypes
  <2>3. WorkInv(w)'
    BY <1>1, <1>2, <1>4, <2>1, WorkerTypes, WorkLasts
  <2> QED BY <1>3, <2>2, <2>3, PassKeeps
<1>6. CASE Guard(w)
  <2>1. pc[w] = "guard" /\ Goto(w, "send")
    BY <1>6 DEF Guard
  <2>2. pc'[w] = "send"
    BY <1>1, <2>1, Moving
  <2>3. Alone(w) /\ WorkTypes'
    BY SMTT(30), <1>1, <1>2, <2>1, Moving DEF Alone, WorkTypes
  <2>4. PlanInv(w)'
    BY <1>1, <1>2, <1>4, WorkerTypes, PlanLasts DEF WorkInv
  <2>5. SentInv(w)' /\ SnapInv(w)'
    BY <1>1, <1>2, <1>4, <2>1, <2>2, NotSent DEF SnapInv
  <2> QED BY <1>3, <2>3, <2>4, <2>5, PassKeeps DEF WorkInv
<1> QED BY <1>5, <1>6

(* A pass sends what it planned.                                            *)
LEMMA SendStep ==
  ASSUME IInv, NEW w \in Workers, Send(w)
  PROVE  IInv' /\ Onward
<1>1. TypeOK /\ StoreInv /\ ChainInv /\ WorkInv(w) /\ WorkTypes
  BY WorkerTypes DEF IInv
<1>2. PICK t \in Txs : t = plan[w].tx
  BY <1>1, WorkerTypes
<1>3. /\ Broadcast(w, t) /\ Goto(w, "confirm")
      /\ UNCHANGED <<chain, fin, forks, payerClosed, mode, rec, gatewayVars, snap, plan>>
  BY <1>2 DEF Send, Broadcast, storeVars
<1>4. Writes
  BY <1>3 DEF Writes
<1>5. Onward
  BY <1>1, <1>3, <1>4, WritesKeep
<1>6. pc'[w] = "confirm"
  BY <1>1, <1>3, Moving
<1>7. Alone(w) /\ WorkTypes'
  BY SMTT(30), <1>1, <1>3, Moving DEF Alone, WorkTypes
<1>8. PlanInv(w)'
  BY <1>1, <1>3, <1>5, WorkerTypes, PlanLasts DEF WorkInv
<1>9. TxOK(t)
  BY <1>1, <1>2 DEF WorkInv, PlanInv
<1>10. SentInv(w)' /\ SnapInv(w)'
  BY <1>1, <1>2, <1>3, <1>5, <1>6, <1>9, Sent
<1> QED BY <1>4, <1>7, <1>8, <1>10, PassKeeps DEF WorkInv

(* The ends of a record are legal writes once its channel is over, and      *)
(* sealing the record of a batch channel always is.                         *)
LEMMA EndWrites ==
  ASSUME IInv, bound => Closing,
         \/ /\ forks = 0 => fin.status \in Ended
            /\ rec' \in {rec, RetainSealed(rec), MarkFinalized(rec), DeleteFencedChannel(rec)}
         \/ batch /\ rec' = RetainSealed(rec)
  PROVE  Writes
<1>1. TypeOK /\ StoreInv /\ ChainInv
  BY DEF IInv
<1>2. CASE rec' = rec
  BY <1>2 DEF Writes
<1>3. CASE rec = NoRecord
  BY <1>3 DEF Writes, RetainSealed, MarkFinalized, DeleteFencedChannel
<1>4. CASE rec' # rec /\ rec # NoRecord /\ rec' = DeleteFencedChannel(rec) /\ rec' # RetainSealed(rec)
  BY <1>4 DEF Writes, DeleteFencedChannel
<1>5. CASE rec # NoRecord /\ rec' \in {RetainSealed(rec), MarkFinalized(rec)}
  <2>1. rec \in Records
    BY <1>1, <1>5 DEF TypeOK, StoreTypeOK
  <2>2. /\ rec.frozen => rec.asked
        /\ rec.expiring => rec.sealed
        /\ bound => payerClosed \/ rec.asked
        /\ forks = 0 /\ batch /\ rec.expiring => fin.status \in Ended
    BY <1>1, <1>5 DEF StoreInv, Closing, ChainInv, RecordOutlivesChannel, Finished
  <2>3. /\ rec' \in {[rec EXCEPT !.sealed = TRUE], [rec EXCEPT !.sealed = TRUE, !.expiring = TRUE]}
        /\ rec' = RetainSealed(rec) => rec' = [rec EXCEPT !.sealed = TRUE]
    BY <1>5 DEF RetainSealed, MarkFinalized
  <2>4. rec' \in Records
    BY <2>1, <2>3, FieldUpdates
  <2>5. /\ rec'.cum = rec.cum /\ rec'.asked = rec.asked /\ rec'.frozen = rec.frozen /\ rec'.sealed
        /\ rec'.res = rec.res /\ rec'.owner = rec.owner
        /\ rec' = RetainSealed(rec) => rec'.expiring = rec.expiring
    BY <2>1, <2>3 DEF Records
  <2>6. Fencing(rec, rec')
    BY <2>1, <2>2, <2>4, <2>5 DEF Fencing
  <2>7. forks = 0 /\ (IF batch THEN rec'.expiring ELSE rec'.sealed) => fin.status \in Ended
    BY <2>2, <2>5
  <2> QED BY <2>6, <2>7 DEF Writes
<1> QED BY <1>2, <1>3, <1>4, <1>5

(* A session pass submits its plan.                                         *)
LEMMA SubmitStep ==
  ASSUME IInv, NEW w \in Workers, Submit(w)
  PROVE  IInv' /\ Onward
<1>1. TypeOK /\ StoreInv /\ ChainInv /\ WorkInv(w) /\ WorkTypes
  BY WorkerTypes DEF IInv
<1>2. ~batch /\ pc[w] = "submit" /\ UNCHANGED <<mode, gatewayVars>> /\ rec' \in AfterStore(w)
  BY DEF Submit
<1>3. Writes
  <2>1. CASE plan[w].store = "keep"
    BY <1>2, <2>1 DEF AfterStore, Writes
  <2>2. CASE plan[w].store # "keep"
    <3>1. plan[w].store \in {"seal", "expire", "delete"}
      BY <1>1, <2>2, WorkerTypes DEF Plans
    <3>2. (bound => Closing) /\ (forks = 0 => fin.status \in Ended)
      BY <1>1, <1>2, <2>2 DEF WorkInv, PlanInv
    <3>3. rec' \in {rec, RetainSealed(rec), MarkFinalized(rec), DeleteFencedChannel(rec)}
      BY <1>2, <3>1 DEF AfterStore
    <3> QED BY <3>2, <3>3, EndWrites
  <2> QED BY <2>1, <2>2
<1>4. CASE EndPass(w)
  BY <1>1, <1>2, <1>3, <1>4, EndPassMoves, PassKeeps
<1>5. CASE /\ bound /\ plan[w].kind = "idleClose"
           /\ Goto(w, "refresh")
           /\ UNCHANGED <<channelVars, snap, plan>>
  <2>1. UNCHANGED <<chain, fin, tx, landing, forks, payerClosed, mode, gatewayVars, snap, plan>>
    BY <1>2, <1>5 DEF channelVars
  <2>2. Onward
    BY <1>1, <1>3, <2>1, WritesKeep
  <2>3. pc'[w] = "refresh"
    BY <1>1, <1>5, Moving
  <2>4. Alone(w) /\ WorkTypes'
    BY SMTT(30), <1>1, <1>5, <2>1, Moving DEF Alone, WorkTypes
  <2>5. PlanInv(w)'
    BY <1>1, <2>1, <2>2, WorkerTypes, PlanLasts DEF WorkInv
  <2>6. SentInv(w)' /\ SnapInv(w)'
    BY <1>1, <1>2, <1>5, <2>1, <2>2, <2>3, NotSent DEF SnapInv
  <2> QED BY <1>3, <2>4, <2>5, <2>6, PassKeeps DEF WorkInv
<1>6. CASE /\ Broadcast(w, plan[w].tx)
           /\ Goto(w, "confirm")
           /\ UNCHANGED <<snap, plan>>
  <2>1. PICK t \in Txs : t = plan[w].tx
    BY <1>1, WorkerTypes
  <2>2. /\ Broadcast(w, t)
        /\ UNCHANGED <<chain, fin, forks, payerClosed, mode, gatewayVars, snap, plan>>
    BY <1>2, <1>6, <2>1 DEF Broadcast
  <2>3. Onward
    BY <1>1, <1>3, <2>2, WritesKeep
  <2>4. pc'[w] = "confirm"
    BY <1>1, <1>6, Moving
  <2>5. Alone(w) /\ WorkTypes'
    BY SMTT(30), <1>1, <1>6, <2>2, Moving DEF Alone, WorkTypes
  <2>6. PlanInv(w)'
    BY <1>1, <2>2, <2>3, WorkerTypes, PlanLasts DEF WorkInv
  <2>7. TxOK(t)
    BY <1>1, <2>1 DEF WorkInv, PlanInv
  <2>8. SentInv(w)' /\ SnapInv(w)'
    BY <1>1, <2>1, <2>2, <2>3, <2>4, <2>7, Sent
  <2> QED BY <1>3, <2>5, <2>6, <2>8, PassKeeps DEF WorkInv
<1>7. CASE /\ Broadcast(w, [plan[w].tx EXCEPT !.distribute = FALSE])
           /\ plan' = [plan EXCEPT ![w].kind = "watermark"]
           /\ Goto(w, "confirm")
           /\ UNCHANGED snap
  <2>1. PICK t \in Txs : t = plan[w].tx
    BY <1>1, WorkerTypes
  <2>2. PICK u \in Txs : u = [t EXCEPT !.distribute = FALSE] /\ u.op = t.op /\ u.amount = t.amount
    <3>1. LET u == [t EXCEPT !.distribute = FALSE] IN u \in Txs /\ u.op = t.op /\ u.amount = t.amount
      BY DEF Txs
    <3> QED BY <3>1
  <2>3. PICK p \in Plans : p = [plan[w] EXCEPT !.kind = "watermark"] /\ p.tx = t
                           /\ p.store = plan[w].store /\ p.kind = "watermark"
    <3>1. PICK o \in Plans : o = plan[w]
      BY <1>1, WorkerTypes
    <3>2. LET p == [o EXCEPT !.kind = "watermark"] IN
            p \in Plans /\ p.tx = o.tx /\ p.store = o.store /\ p.kind = "watermark"
      BY DEF Plans
    <3> QED BY <2>1, <3>1, <3>2
  <2>4. /\ Broadcast(w, u) /\ plan' = [plan EXCEPT ![w] = p]
        /\ UNCHANGED <<chain, fin, forks, payerClosed, mode, gatewayVars, snap>>
    BY <1>2, <1>7, <2>1, <2>2, <2>3 DEF Broadcast
  <2>5. Onward
    BY <1>1, <1>3, <2>4, WritesKeep
  <2>6. pc'[w] = "confirm" /\ plan'[w] = p
    BY <1>1, <1>7, <2>4, Moving
  <2>7. Alone(w) /\ WorkTypes'
    BY SMTT(30), <1>1, <1>7, <2>4, Moving DEF Alone, WorkTypes
  <2>8. ~batch' /\ bound' = bound /\ ~Terminal(w)'
    BY <1>2, <2>3, <2>6 DEF batch, bound, Terminal
  <2>9. TxOK(t)
    BY <1>1, <2>1 DEF WorkInv, PlanInv
  <2>10. TxOK(u)
    BY <2>2, <2>9 DEF TxOK
  <2>11. PlanInv(w)'
    <3>1. TxOK(t)'
      BY <1>1, <2>4, <2>5, <2>9, WorkerTypes, TxLasts
    <3>2. TxOK(plan[w].tx)'
      BY <2>3, <2>6, <3>1 DEF TxOK
    <3>3. Closing => Closing'
      BY <2>5, ClosingLasts
    <3> QED BY <1>1, <2>3, <2>4, <2>6, <2>8, <3>2, <3>3, <1>2 DEF PlanInv, WorkInv
  <2>12. SentInv(w)' /\ SnapInv(w)'
    BY <1>1, <2>4, <2>5, <2>6, <2>8, <2>10, Sent
  <2> QED BY <1>3, <2>7, <2>11, <2>12, PassKeeps DEF WorkInv
<1> QED BY <1>4, <1>5, <1>6, <1>7 DEF Submit

(* A session pass sees its close final, or gives up.                        *)
LEMMA ConfirmStep ==
  ASSUME IInv, NEW w \in Workers, Confirm(w) \/ GiveUp(w)
  PROVE  IInv' /\ Onward
<1>1. TypeOK /\ WorkInv(w)
  BY DEF IInv
<1>2. EndPass(w) /\ UNCHANGED <<mode, gatewayVars>>
  BY DEF Confirm, GiveUp, storeVars
<1>3. Writes
  <2>1. CASE GiveUp(w)
    BY <2>1 DEF GiveUp, storeVars, Writes
  <2>2. CASE Confirm(w)
    <3>1. ~batch /\ plan[w].kind = "idleClose" /\ landing[w] = "finalized"
      BY <2>2 DEF Confirm, CloseFinal
    <3>2. (bound => Closing) /\ (forks = 0 => fin.status \in Ended)
      BY <1>1, <3>1 DEF WorkInv, PlanInv, SentInv, Terminal
    <3> QED BY <2>2, <3>2, EndWrites DEF Confirm
  <2> QED BY <2>1, <2>2
<1> QED BY <1>1, <1>2, <1>3, EndPassMoves, PassKeeps

(* A batch pass reads the record and the channel.                           *)
LEMMA ScanBatchStep ==
  ASSUME IInv, NEW w \in Workers, ScanBatch(w)
  PROVE  IInv' /\ Onward
<1>1. TypeOK /\ StoreInv /\ ChainInv /\ WorkInv(w) /\ WorkTypes
  BY WorkerTypes DEF IInv
<1>2. /\ rec \in Records /\ rec # NoRecord /\ batch /\ pc[w] = "idle" /\ Goto(w, "reconcile")
      /\ UNCHANGED <<chain, fin, tx, landing, forks, payerClosed, mode, rec, gatewayVars, plan>>
  BY <1>1 DEF ScanBatch, TypeOK, StoreTypeOK, channelVars, storeVars
<1>3. PICK c \in Reads : snap' = [snap EXCEPT ![w] = Listed(rec, c)]
  BY DEF ScanBatch
<1>4. /\ c \in Accounts /\ c.settled <= chain.settled
      /\ c.status = "sealed" => chain.status \in Past
  BY <1>1, ReadFacts
<1>5. PICK s : s = Listed(rec, c)
  OBVIOUS
<1>6. PICK a \in Accounts :
        /\ a = IF c.status \in {"open", "closing"} THEN c ELSE [NewAccount EXCEPT !.status = c.status]
        /\ a.status = c.status /\ a.settled \in {0, c.settled}
  <2>1. CASE c.status \in {"open", "closing"}
    BY <1>4, <2>1
  <2>2. CASE c.status \notin {"open", "closing"}
    <3>1. c.status \in Statuses /\ 0 \in 0..Deposit
      BY SMT, <1>4, ChannelAssumption DEF Accounts
    <3>2. NewAccount \in Accounts /\ NewAccount.settled = 0
      BY SMT, <3>1 DEF NewAccount, Accounts, Statuses
    <3> DEFINE b == [NewAccount EXCEPT !.status = c.status]
    <3>3. b \in Accounts /\ b.status = c.status /\ b.settled = 0
      BY SMT, <3>1, <3>2 DEF Accounts
    <3> QED BY <2>2, <3>3
  <2> QED BY <2>1, <2>2
<1>7. s \in BatchCopies /\ s.cum \in {0, rec.cum} /\ s.read = a
  <2>1. (c.status = "gone" /\ InFlight(rec)) \in BOOLEAN
    OBVIOUS
  <2>2. (IF c.status = "open" THEN rec.cum ELSE 0) \in {0, rec.cum}
    OBVIOUS
  <2>3. {0, rec.cum} \subseteq 0..Deposit
    BY SMT, <1>2, FieldTypes, ChannelAssumption
  <2>4. s = [cum |-> IF c.status = "open" THEN rec.cum ELSE 0, frozen |-> FALSE,
             busy |-> c.status = "gone" /\ InFlight(rec), read |-> a]
    BY <1>5, <1>6 DEF Listed
  <2> QED BY <2>1, <2>2, <2>3, <2>4 DEF BatchCopies
<1>8. Writes
  BY <1>2 DEF Writes
<1>9. Onward
  BY <1>1, <1>2, <1>8, WritesKeep
<1>10. pc'[w] = "reconcile" /\ snap'[w] = s
  BY <1>1, <1>2, <1>3, <1>5, <1>7, Moving
<1>11. Alone(w) /\ WorkTypes'
  BY SMTT(30), <1>1, <1>2, <1>3, <1>5, <1>7, Moving DEF Alone, WorkTypes
<1>12. PlanInv(w)'
  BY <1>1, <1>2, <1>9, WorkerTypes, PlanLasts DEF WorkInv
<1>13. SentInv(w)'
  BY <1>1, <1>2, <1>9, <1>10, NotSent
<1>14. SnapInv(w)'
  <2>1. batch' /\ ~bound'
    BY <1>2 DEF batch, bound
  <2>2. /\ 0 <= rec.cum /\ rec.cum <= rec.cum /\ c.settled <= rec.cum
        /\ 0 <= chain.settled
    BY SMTT(30), <1>1, <1>2, <1>4, FieldTypes, AccountTypes DEF ChainInv, Accounts
  <2>3. /\ snap'[w].cum <= rec.cum /\ snap'[w].read.settled <= rec.cum
        /\ snap'[w].read.settled <= chain.settled
        /\ snap'[w].read.status = c.status /\ snap'[w] \in BatchCopies
    BY <1>4, <1>6, <1>7, <1>10, <2>2
  <2> QED BY <1>2, <1>4, <2>1, <2>3 DEF SnapInv
<1> QED BY <1>8, <1>11, <1>12, <1>13, <1>14, PassKeeps DEF WorkInv

(* A batch pass fences, plans and records what it saw.                      *)
LEMMA ReconcileBatchStep ==
  ASSUME IInv, NEW w \in Workers, NEW pays \in BOOLEAN, ReconcileBatch(w, pays)
  PROVE  IInv' /\ Onward
<1>1. TypeOK /\ StoreInv /\ ChainInv /\ WorkInv(w) /\ WorkTypes
  BY WorkerTypes DEF IInv
<1> PICK c : c = snap[w].read
  OBVIOUS
<1> PICK r : r = IF c.status = "closing" THEN BatchCopy(Fenced(c), c) ELSE snap[w]
  OBVIOUS
<1>2. /\ pc[w] = "reconcile" /\ batch /\ rec # NoRecord
      /\ UNCHANGED <<mode, gatewayVars>>
      /\ rec' = IF BatchFails(r, c) THEN Fenced(c) ELSE Observe(Fenced(c), c)
  BY DEF ReconcileBatch
<1>3. /\ snap[w] \in BatchCopies /\ c \in Accounts
      /\ snap[w].cum <= rec.cum /\ c.settled <= rec.cum
      /\ forks = 0 => c.settled <= chain.settled
      /\ forks = 0 /\ c.status = "sealed" => chain.status \in Past
  <2>1. snap[w] \in BatchCopies
    BY <1>1, <1>2 DEF WorkInv, SnapInv
  <2>2. c \in Accounts
    BY <2>1 DEF BatchCopies
  <2> QED BY <1>1, <1>2, <2>1, <2>2 DEF WorkInv, SnapInv
<1>4. /\ Fencing(rec, rec') /\ rec'.expiring = rec.expiring
      /\ rec'.frozen = Fenced(c).frozen /\ rec'.cum = Fenced(c).cum
      /\ Fenced(c) \in Records
  BY <1>1, <1>2, <1>3, BatchFences
<1>5. forks = 0 /\ rec.expiring => fin.status \in Ended
  BY <1>1, <1>2 DEF ChainInv, RecordOutlivesChannel, Finished
<1>6. Writes
  BY <1>2, <1>4, <1>5 DEF Writes
<1>7. PICK old \in BOOLEAN :
        IF BatchFails(r, c) \/ ReconcileBatchChannel(r, c, pays, old) = Nothing
        THEN EndPass(w)
        ELSE /\ plan' = [plan EXCEPT ![w] = ReconcileBatchChannel(r, c, pays, old)]
             /\ Forget(w)
             /\ Goto(w, "send")
             /\ UNCHANGED channelVars
  BY DEF ReconcileBatch
<1>8. CASE EndPass(w)
  BY <1>1, <1>2, <1>6, <1>8, EndPassMoves, PassKeeps
<1>9. CASE ~EndPass(w)
  <2>1. /\ ~BatchFails(r, c)
        /\ plan' = [plan EXCEPT ![w] = ReconcileBatchChannel(r, c, pays, old)]
        /\ snap' = [snap EXCEPT ![w] = NoRecord] /\ Goto(w, "send")
        /\ UNCHANGED <<chain, fin, tx, landing, forks, payerClosed>>
    BY <1>7, <1>9 DEF Forget, channelVars
  <2>2. Onward
    BY <1>1, <1>2, <1>6, <2>1, WritesKeep
  <2>3. rec' \in Records /\ rec' # NoRecord /\ rec'.cum = rec.cum /\ rec'.cum \in Int
    BY <1>4, FieldTypes DEF Fencing
  <2>4. /\ r \in BatchCopies
        /\ r.cum <= rec'.cum
        /\ c.status = "closing" => r.frozen = rec'.frozen /\ r.cum = rec'.cum
    <3>1. CASE c.status = "closing"
      <4>1. PICK f : f = Fenced(c)
        OBVIOUS
      <4>2. f \in Records /\ r = BatchCopy(f, c) /\ rec'.frozen = f.frozen /\ rec'.cum = f.cum
        BY <1>4, <3>1, <4>1
      <4>3. InFlight(f) \in BOOLEAN
        BY DEF InFlight
      <4>4. r \in BatchCopies /\ r.frozen = f.frozen /\ r.cum = f.cum
        BY SMTT(30), <1>3, <4>2, <4>3, FieldTypes DEF BatchCopy, BatchCopies
      <4> QED BY SMTT(30), <2>3, <4>2, <4>4
    <3>2. CASE c.status # "closing"
      BY <1>3, <2>3, <3>2
    <3> QED BY <3>1, <3>2
  <2>5. ReconcileBatchChannel(r, c, pays, old) \in Plans
    BY SMTT(30), <1>3, <2>4, BatchPlan
  <2>6. plan'[w] = ReconcileBatchChannel(r, c, pays, old)
    BY <1>1, <2>1 DEF WorkTypes
  <2>7. PlanInv(w)'
    <3>1. /\ rec' # NoRecord => r.cum <= rec'.cum
          /\ c.status = "closing" /\ r.frozen /\ rec' # NoRecord => rec'.frozen /\ r.cum = rec'.cum
      BY <2>4
    <3>2. UNCHANGED <<chain, fin, forks, payerClosed>> /\ ~BatchFails(r, c)
      BY <2>1
    <3>3. TypeOK /\ ChainInv /\ batch /\ r \in BatchCopies /\ c \in Accounts
      BY <1>1, <1>2, <1>3, <2>4
    <3> QED BY <1>3, <2>2, <2>6, <3>1, <3>2, <3>3, BatchPlanOK
  <2>8. Alone(w) /\ WorkTypes'
    BY SMTT(30), <1>1, <1>2, <2>1, <2>5, Moving DEF Alone, WorkTypes
  <2>9. pc'[w] = "send"
    BY <1>1, <2>1, Moving
  <2>10. SentInv(w)' /\ SnapInv(w)'
    BY <1>1, <1>2, <2>1, <2>2, <2>9, NotSent DEF SnapInv
  <2> QED BY <1>6, <2>7, <2>8, <2>10, PassKeeps DEF WorkInv
<1> QED BY <1>8, <1>9

(* A batch pass sends what it planned, or the close or claim alone.         *)
LEMMA SendBatchStep ==
  ASSUME IInv, NEW w \in Workers, SendBatch(w)
  PROVE  IInv' /\ Onward
<1>1. TypeOK /\ StoreInv /\ ChainInv /\ WorkInv(w) /\ WorkTypes
  BY WorkerTypes DEF IInv
<1>2. PICK t \in Txs : t = plan[w].tx
  BY <1>1, WorkerTypes
<1>3. /\ batch /\ Goto(w, "confirm")
      /\ UNCHANGED <<chain, fin, forks, payerClosed, mode, rec, gatewayVars, snap>>
  BY DEF SendBatch, Broadcast, storeVars
<1>4. Writes
  BY <1>3 DEF Writes
<1>5. Onward
  BY <1>1, <1>3, <1>4, WritesKeep
<1>6. pc'[w] = "confirm" /\ batch' /\ ~bound'
  BY <1>1, <1>3, Moving DEF batch, bound
<1>7. TxOK(t)
  BY <1>1, <1>2 DEF WorkInv, PlanInv
<1>8. CASE Broadcast(w, plan[w].tx) /\ plan' = plan
  <2>1. Alone(w) /\ WorkTypes'
    BY SMTT(30), <1>1, <1>2, <1>3, <1>8, Moving DEF Alone, WorkTypes
  <2>2. PlanInv(w)'
    BY <1>1, <1>3, <1>5, <1>8, WorkerTypes, PlanLasts DEF WorkInv
  <2>3. SentInv(w)' /\ SnapInv(w)'
    BY <1>1, <1>2, <1>3, <1>5, <1>6, <1>7, <1>8, Sent
  <2> QED BY <1>4, <2>1, <2>2, <2>3, PassKeeps DEF WorkInv
<1>9. CASE /\ Broadcast(w, [plan[w].tx EXCEPT !.distribute = FALSE])
           /\ plan' = [plan EXCEPT ![w].store = "keep"]
  <2>1. PICK u \in Txs : u = [t EXCEPT !.distribute = FALSE] /\ u.op = t.op /\ u.amount = t.amount
    <3>1. LET u == [t EXCEPT !.distribute = FALSE] IN u \in Txs /\ u.op = t.op /\ u.amount = t.amount
      BY DEF Txs
    <3> QED BY <3>1
  <2>2. PICK p \in Plans : p = [plan[w] EXCEPT !.store = "keep"] /\ p.tx = t /\ p.store = "keep"
    <3>1. PICK o \in Plans : o = plan[w]
      BY <1>1, WorkerTypes
    <3>2. LET p == [o EXCEPT !.store = "keep"] IN p \in Plans /\ p.tx = o.tx /\ p.store = "keep"
      BY DEF Plans
    <3> QED BY <1>2, <3>1, <3>2
  <2>3. Broadcast(w, u) /\ plan' = [plan EXCEPT ![w] = p]
    BY <1>2, <1>9, <2>1, <2>2
  <2>4. plan'[w] = p
    BY <1>1, <2>3, Moving
  <2>5. Alone(w) /\ WorkTypes'
    BY SMTT(30), <1>1, <1>3, <2>3, Moving DEF Alone, WorkTypes
  <2>6. ~Terminal(w)'
    BY <1>6, <2>2, <2>4 DEF Terminal
  <2>7. TxOK(u)
    BY <1>7, <2>1 DEF TxOK
  <2>8. PlanInv(w)'
    <3>1. TxOK(t)'
      BY <1>1, <1>3, <1>5, <1>7, WorkerTypes, TxLasts
    <3>2. TxOK(plan[w].tx)'
      BY <2>2, <2>4, <3>1 DEF TxOK
    <3> QED BY <1>6, <2>6, <3>2 DEF PlanInv
  <2>9. SentInv(w)' /\ SnapInv(w)'
    BY <1>1, <1>3, <1>5, <1>6, <2>3, <2>6, <2>7, Sent
  <2> QED BY <1>4, <2>5, <2>8, <2>9, PassKeeps DEF WorkInv
<1> QED BY <1>8, <1>9 DEF SendBatch

(* A batch pass finds the channel gone, sees its transaction confirmed, or  *)
(* sees it final.                                                           *)
LEMMA EndBatchStep ==
  ASSUME IInv, NEW w \in Workers, ReconcileAbsent(w) \/ ConfirmBatch(w) \/ FinishBatch(w)
  PROVE  IInv' /\ Onward
<1>1. TypeOK /\ StoreInv /\ ChainInv /\ WorkInv(w) /\ WorkTypes
  BY WorkerTypes DEF IInv
<1>2. batch /\ ~bound /\ UNCHANGED <<mode, gatewayVars>>
  BY <1>1 DEF ReconcileAbsent, ConfirmBatch, FinishBatch, WorkInv, SentInv, batch, bound
<1>3. Writes
  <2>1. CASE ReconcileAbsent(w)
    <3>1. rec' = rec \/ (ChannelAbsenceProven /\ rec' = DeleteFencedChannel(rec))
      BY <2>1 DEF ReconcileAbsent
    <3> QED BY <1>2, <3>1, EndWrites DEF Writes, ChannelAbsenceProven, Ended
  <2>2. CASE ConfirmBatch(w)
    <3>1. rec' = rec \/ rec' = RetainSealed(rec)
      BY <2>2 DEF ConfirmBatch
    <3> QED BY <1>2, <3>1, EndWrites DEF Writes
  <2>3. CASE FinishBatch(w)
    <3>1. pc[w] = "finalize" /\ landing[w] = "finalized"
      BY <2>3 DEF FinishBatch, TerminalFinal
    <3>2. forks = 0 => fin.status \in Ended
      BY <1>1, <1>2, <3>1 DEF WorkInv, SentInv, Terminal
    <3>3. rec' \in {MarkFinalized(rec), DeleteFencedChannel(rec)}
      BY <2>3 DEF FinishBatch
    <3> QED BY <1>2, <3>2, <3>3, EndWrites
  <2> QED BY <2>1, <2>2, <2>3
<1>4. CASE EndPass(w)
  BY <1>1, <1>2, <1>3, <1>4, EndPassMoves, PassKeeps
<1>5. CASE ~EndPass(w)
  <2>1. /\ pc[w] = "confirm" /\ plan[w].store # "keep" /\ Goto(w, "finalize")
        /\ UNCHANGED <<chain, fin, tx, landing, forks, payerClosed, snap, plan>>
    BY <1>5 DEF ReconcileAbsent, FinishBatch, ConfirmBatch, channelVars
  <2>2. Onward
    BY <1>1, <1>2, <1>3, <2>1, WritesKeep
  <2>3. pc'[w] = "finalize" /\ batch' /\ ~bound'
    BY <1>1, <1>2, <2>1, Moving DEF batch, bound
  <2>4. Alone(w) /\ WorkTypes'
    BY SMTT(30), <1>1, <1>2, <2>1, Moving DEF Alone, WorkTypes
  <2>5. PlanInv(w)'
    BY <1>1, <2>1, <2>2, WorkerTypes, PlanLasts DEF WorkInv
  <2>6. TxOK(tx[w])'
    BY <1>1, <2>1, <2>2, SentTxLasts
  <2>7. SentInv(w)' /\ SnapInv(w)'
    BY <1>1, <1>2, <2>1, <2>2, <2>3, <2>6 DEF WorkInv, SentInv, SnapInv, Terminal, Onward
  <2> QED BY <1>3, <2>4, <2>5, <2>7, PassKeeps DEF WorkInv
<1> QED BY <1>4, <1>5

(* Every step of a worker keeps the invariant.                              *)
LEMMA WorkerKeeps ==
  ASSUME IInv, NEW w \in Workers, WorkerStep(w)
  PROVE  IInv' /\ Onward
<1>1. ASSUME NEW pays \in Refunds PROVE pays \in BOOLEAN
  BY <1>1, PassAssumption
<1>2. CASE SessionStep(w)
  BY <1>1, <1>2, ScanStep, PassKeeps, SubmitStep, GuardStep, SendStep, ConfirmStep, ReconcileStep,
     RefreshStep DEF SessionStep
<1>3. CASE BatchStep(w)
  BY <1>1, <1>3, ScanBatchStep, EndBatchStep, SendBatchStep, ReconcileBatchStep DEF BatchStep
<1> QED BY <1>2, <1>3, ConfirmStep DEF WorkerStep

-----------------------------------------------------------------------------
(* The steps of the gateway and of time.                                    *)

(* What is to be shown of a step that leaves the channel and the passes     *)
(* alone.                                                                   *)
LEMMA StoreStepKeeps ==
  ASSUME IInv, StoreInv', StoreTypeOK', Onward, UNCHANGED <<channelVars, mode, passVars>>,
         forks = 0 /\ Finished(rec)' => fin.status \in Ended
  PROVE  IInv'
<1>1. TypeOK /\ ChainInv /\ \A w \in Workers : WorkInv(w)
  BY DEF IInv
<1>2. /\ UNCHANGED <<chain, fin, tx, landing, forks, payerClosed, mode, pc, snap, plan>>
      /\ bound' = bound /\ batch' = batch
  BY DEF channelVars, passVars, bound, batch
<1>3. chain \in Accounts /\ chain' \in Accounts
  BY <1>1, <1>2, AccountTypes
<1>4. ChainInv'
  <2>1. RecordOutlivesChannel'
    BY <1>2 DEF RecordOutlivesChannel
  <2>2. Closing => Closing'
    BY ClosingLasts
  <2>3. \A c \in Views' : /\ c.status = "closing" \/ c.lapsed => payerClosed'
                          /\ (bound /\ c.status # "open" => Closing)'
    BY <1>1, <1>2, <2>2 DEF ChainInv, Views
  <2>4. (Fixed /\ ~batch /\ chain.status \in {"sealed", "distributed"} /\ ~chain.lapsed => SettledAll)'
    <3>1. Fixed /\ ~batch /\ chain.status \in {"sealed", "distributed"} /\ ~chain.lapsed => SettledAll
      BY <1>1 DEF ChainInv
    <3> QED BY <1>2, <1>3, <3>1, SettledAllLasts
  <2>5. (rec # NoRecord => chain.settled <= rec.cum)'
    BY DEF Onward
  <2> QED BY <1>1, <1>2, <2>1, <2>3, <2>4, <2>5 DEF ChainInv
<1>5. ASSUME NEW w \in Workers PROVE WorkInv(w)'
  BY <1>1, <1>2, <1>3, WorkLasts
<1>6. TypeOK'
  <2>1. ChannelTypeOK'
    BY <1>1, <1>2 DEF TypeOK, ChannelTypeOK
  <2> QED BY <1>1, <1>2, <2>1 DEF TypeOK
<1> QED BY <1>4, <1>5, <1>6 DEF IInv

(* A request reserves.                                                      *)
LEMMA ReserveStep ==
  ASSUME IInv, NEW q \in Requests, Reserve(q), UNCHANGED <<channelVars, passVars>>
  PROVE  IInv' /\ Onward
<1>1. TypeOK /\ StoreInv /\ ChainInv /\ StoreTypeOK
  BY DEF IInv, TypeOK
<1>2. /\ rec \in Records /\ rec # NoRecord /\ req[q] = "new" /\ charged[q] = 0
      /\ mode' = mode /\ charged' = charged /\ bound' = bound /\ batch' = batch
      /\ req' = [req EXCEPT ![q] = "held"] /\ base' = [base EXCEPT ![q] = rec.cum]
      /\ payerClosed' = payerClosed
  BY <1>1 DEF Reserve, StoreTypeOK, StoreInv, bound, batch, channelVars
<1>3. /\ rec.cum \in 0..Deposit /\ rec.cum \in Int /\ Deposit \in Int
      /\ rec.res \in [Requests -> {"none", "live", "expired"}]
  BY SMTT(30), <1>2, FieldTypes, ChannelAssumption
<1>4. /\ rec' \in Records
      /\ rec'.cum = rec.cum /\ rec'.asked = rec.asked /\ rec'.frozen = rec.frozen
      /\ rec'.sealed = rec.sealed /\ rec'.expiring = rec.expiring /\ rec'.owner = rec.owner
      /\ ~rec.sealed /\ ~rec.asked
      /\ bound => /\ rec.owner = NoOwner /\ rec.cum < Deposit
                  /\ rec'.res = [NoReservations EXCEPT ![q] = "live"]
      /\ ~bound => rec'.res = [rec.res EXCEPT ![q] = "live"]
  <2>1. CASE bound
    <3>1. PICK f : f = [NoReservations EXCEPT ![q] = "live"]
      OBVIOUS
    <3>2. f \in [Requests -> {"none", "live", "expired"}]
      BY <3>1 DEF NoReservations
    <3>3. /\ rec' = [rec EXCEPT !.res = f]
          /\ ~rec.sealed /\ ~rec.asked /\ rec.owner = NoOwner /\ 1 <= Deposit - rec.cum
      BY <2>1, <3>1 DEF Reserve, ReserveBound
    <3>4. rec' \in Records
      BY <1>2, <3>2, <3>3, FieldUpdates
    <3>5. /\ rec'.cum = rec.cum /\ rec'.asked = rec.asked /\ rec'.frozen = rec.frozen
          /\ rec'.sealed = rec.sealed /\ rec'.expiring = rec.expiring /\ rec'.owner = rec.owner
          /\ rec'.res = f
      BY <1>2, <3>3 DEF Records
    <3>6. rec.cum < Deposit
      BY SMTT(30), <1>3, <3>3
    <3> QED BY <2>1, <3>1, <3>3, <3>4, <3>5, <3>6
  <2>2. CASE ~bound
    <3>1. PICK f : f = [rec.res EXCEPT ![q] = "live"]
      OBVIOUS
    <3>2. f \in [Requests -> {"none", "live", "expired"}]
      BY <1>3, <3>1
    <3>3. /\ rec' = [rec EXCEPT !.res = f, !.due = FALSE]
          /\ ~rec.sealed /\ ~rec.asked
      BY <2>2, <3>1 DEF Reserve, ReserveLegacy
    <3>4. rec' \in Records
      BY <1>2, <3>2, <3>3, FieldUpdates
    <3>5. /\ rec'.cum = rec.cum /\ rec'.asked = rec.asked /\ rec'.frozen = rec.frozen
          /\ rec'.sealed = rec.sealed /\ rec'.expiring = rec.expiring /\ rec'.owner = rec.owner
          /\ rec'.res = f
      BY <1>2, <3>3 DEF Records
    <3> QED BY <2>2, <3>1, <3>3, <3>4, <3>5
  <2> QED BY <2>1, <2>2
<1>5. StoreTypeOK'
  BY <1>1, <1>2, <1>3, <1>4 DEF StoreTypeOK
<1>6. \A p \in Requests : req'[p] = (IF p = q THEN "held" ELSE req[p])
                          /\ base'[p] = (IF p = q THEN rec.cum ELSE base[p])
  BY <1>1, <1>2 DEF StoreTypeOK
<1>7. \A p \in Requests : rec'.res[p] = IF p = q THEN "live" ELSE IF bound THEN "none" ELSE rec.res[p]
  BY <1>3, <1>4 DEF NoReservations
<1>8. rec' # NoRecord
  BY <1>4, FieldTypes
<1>9. StoreInv'
  <2>1. \A p \in Requests : charged'[p] <= 1 /\ (req'[p] = "new" => charged'[p] = 0)
    BY SMTT(30), <1>1, <1>2, <1>6 DEF StoreInv
  <2>2. /\ rec'.frozen => rec'.asked
        /\ rec'.owner # NoOwner => rec'.asked
        /\ rec'.expiring => rec'.sealed
        /\ bound /\ rec'.sealed => Closing'
    BY <1>1, <1>2, <1>4 DEF StoreInv
  <2>3. ASSUME NEW p \in Requests
        PROVE  /\ rec'.res[p] = "live" => ~rec'.frozen
               /\ ~bound /\ charged[p] # 0 => rec'.res[p] = "none"
               /\ bound =>
                    /\ rec'.res[p] = "live" => ~rec'.asked /\ ~rec'.sealed
                    /\ rec'.res[p] = "live" => rec'.owner = NoOwner
                    /\ rec'.res[p] = "live" => \A o \in Requests : rec'.res[o] = "live" => o = p
                    /\ req'[p] = "held" /\ charged[p] # 0 => rec'.cum > base'[p]
                    /\ req'[p] = "held" /\ charged[p] = 0 /\ rec'.res[p] = "live" =>
                         rec'.cum = base'[p] /\ rec'.cum < Deposit
    BY SMTT(30), <1>1, <1>2, <1>4, <1>6, <1>7, <2>2 DEF StoreInv
  <2> QED BY <1>2, <1>8, <2>1, <2>2, <2>3 DEF StoreInv
<1>10. Onward
  <2>1. chain.settled <= rec.cum /\ chain.settled \in Int
    BY <1>1, <1>2, AccountTypes DEF ChainInv
  <2>2. Sparing
    BY DEF Sparing
  <2> QED BY SMTT(30), <1>2, <1>3, <1>4, <2>1, <2>2 DEF Onward, channelVars
<1>11. forks = 0 /\ Finished(rec)' => fin.status \in Ended
  BY <1>1, <1>2, <1>4, <1>8 DEF ChainInv, RecordOutlivesChannel, Finished
<1> QED BY <1>2, <1>5, <1>9, <1>10, <1>11, StoreStepKeeps

(* A request is charged.                                                    *)
LEMMA CommitStep ==
  ASSUME IInv, NEW q \in Requests, Commit(q), ~bound => rec.cum < Deposit,
         UNCHANGED <<channelVars, passVars>>
  PROVE  IInv' /\ Onward
<1>1. TypeOK /\ StoreInv /\ ChainInv /\ StoreTypeOK
  BY DEF IInv, TypeOK
<1>2. /\ rec \in Records /\ rec # NoRecord /\ req[q] = "held"
      /\ mode' = mode /\ req' = req /\ base' = base /\ bound' = bound /\ batch' = batch
      /\ charged' = [charged EXCEPT ![q] = @ + 1]
      /\ payerClosed' = payerClosed
  BY <1>1 DEF Commit, StoreTypeOK, bound, batch, channelVars
<1>3. /\ rec.cum \in 0..Deposit /\ rec.cum \in Int /\ Deposit \in Int
      /\ rec.res \in [Requests -> {"none", "live", "expired"}]
      /\ \A p \in Requests : charged[p] \in Nat /\ base[p] \in Int
  BY SMTT(30), <1>1, <1>2, FieldTypes, ChannelAssumption DEF StoreTypeOK
<1>4. /\ rec.frozen => rec.asked
      /\ rec.expiring => rec.sealed
      /\ rec.owner # NoOwner => rec.asked
  BY <1>1, <1>2 DEF StoreInv
<1>5. ASSUME bound
      PROVE  /\ ~rec.sealed /\ ~rec.asked /\ rec.owner = NoOwner /\ rec.res[q] = "live"
             /\ rec.cum = base[q] /\ charged[q] = 0 /\ rec.cum < Deposit
             /\ rec' = [rec EXCEPT !.cum = rec.cum + 1, !.due = FALSE]
  <2>1. /\ rec.cum = base[q] /\ RequireReservation(q, rec)
        /\ rec' = [rec EXCEPT !.cum = rec.cum + 1, !.due = FALSE]
    BY <1>5 DEF Commit, CommitBound
  <2>2. charged[q] = 0
    BY SMTT(30), <1>1, <1>2, <1>3, <1>5, <2>1 DEF StoreInv
  <2> QED BY <1>1, <1>2, <1>5, <2>1, <2>2 DEF StoreInv, RequireReservation
<1>6. ASSUME ~bound
      PROVE  /\ ~rec.sealed /\ ~rec.frozen /\ charged[q] = 0 /\ rec.cum < Deposit
             /\ rec' = [rec EXCEPT !.cum = rec.cum + 1, !.due = FALSE,
                                   !.res = [rec.res EXCEPT ![q] = "none"]]
  <2>1. /\ ~rec.sealed /\ ~rec.frozen /\ rec.res[q] # "none"
        /\ rec' = [rec EXCEPT !.cum = rec.cum + 1, !.due = FALSE,
                              !.res = [rec.res EXCEPT ![q] = "none"]]
    BY <1>6 DEF Commit, CommitLegacy
  <2>2. charged[q] = 0
    BY <1>1, <1>2, <1>6, <2>1 DEF StoreInv
  <2> QED BY <1>6, <2>1, <2>2
<1>7. ~rec.sealed /\ ~rec.frozen /\ charged[q] = 0 /\ rec.cum + 1 \in 0..Deposit
  BY SMTT(30), <1>3, <1>4, <1>5, <1>6
<1>8. /\ rec' \in Records
      /\ rec'.cum = rec.cum + 1 /\ rec'.asked = rec.asked /\ rec'.frozen = rec.frozen
      /\ rec'.sealed = rec.sealed /\ rec'.expiring = rec.expiring /\ rec'.owner = rec.owner
      /\ rec'.res = IF bound THEN rec.res ELSE [rec.res EXCEPT ![q] = "none"]
  <2>1. PICK n \in 0..Deposit : n = rec.cum + 1
    BY <1>7
  <2>2. CASE bound
    <3>1. rec' = [rec EXCEPT !.cum = n, !.due = FALSE]
      BY <1>5, <2>1, <2>2
    <3>2. rec' \in Records
      BY <1>2, <3>1, FieldUpdates
    <3>3. /\ rec'.cum = n /\ rec'.asked = rec.asked /\ rec'.frozen = rec.frozen
          /\ rec'.sealed = rec.sealed /\ rec'.expiring = rec.expiring /\ rec'.owner = rec.owner
          /\ rec'.res = rec.res
      BY <1>2, <3>1 DEF Records
    <3> QED BY <2>1, <2>2, <3>2, <3>3
  <2>3. CASE ~bound
    <3>1. PICK f : f = [rec.res EXCEPT ![q] = "none"]
      OBVIOUS
    <3>2. rec' = [rec EXCEPT !.cum = n, !.due = FALSE, !.res = f]
      BY <1>6, <2>1, <2>3, <3>1
    <3>3. f \in [Requests -> {"none", "live", "expired"}]
      BY <1>3, <3>1
    <3>4. rec' \in Records
      BY <1>2, <3>2, <3>3, FieldUpdates
    <3>5. /\ rec'.cum = n /\ rec'.asked = rec.asked /\ rec'.frozen = rec.frozen
          /\ rec'.sealed = rec.sealed /\ rec'.expiring = rec.expiring /\ rec'.owner = rec.owner
          /\ rec'.res = f
      BY <1>2, <3>2 DEF Records
    <3> QED BY <2>1, <2>3, <3>1, <3>4, <3>5
  <2> QED BY <2>2, <2>3
<1>9. StoreTypeOK'
  BY SMTT(30), <1>1, <1>2, <1>8 DEF StoreTypeOK
<1>10. \A p \in Requests : charged'[p] = IF p = q THEN 1 ELSE charged[p]
  BY SMTT(30), <1>1, <1>2, <1>7 DEF StoreTypeOK
<1>11. \A p \in Requests : rec'.res[p] = IF ~bound /\ p = q THEN "none" ELSE rec.res[p]
  BY <1>3, <1>8
<1>12. rec' # NoRecord
  BY <1>8, FieldTypes
<1>13. StoreInv'
  <2>1. \A p \in Requests : charged'[p] <= 1 /\ (req'[p] = "new" => charged'[p] = 0)
    BY SMTT(30), <1>1, <1>2, <1>10 DEF StoreInv
  <2>2. /\ rec'.frozen => rec'.asked
        /\ rec'.owner # NoOwner => rec'.asked
        /\ rec'.expiring => rec'.sealed
        /\ bound /\ rec'.sealed => Closing'
    BY <1>4, <1>7, <1>8
  <2>3. ASSUME NEW p \in Requests
        PROVE  /\ rec'.res[p] = "live" => ~rec'.frozen
               /\ ~bound /\ charged'[p] # 0 => rec'.res[p] = "none"
    BY <1>1, <1>2, <1>7, <1>8, <1>10, <1>11 DEF StoreInv
  <2>4. ASSUME NEW p \in Requests, bound
        PROVE  /\ rec'.res[p] = "live" => ~rec'.asked /\ ~rec'.sealed
               /\ rec'.res[p] = "live" => rec'.owner = NoOwner
               /\ rec'.res[p] = "live" => \A o \in Requests : rec'.res[o] = "live" => o = p
               /\ req'[p] = "held" /\ charged'[p] # 0 => rec'.cum > base'[p]
               /\ req'[p] = "held" /\ charged'[p] = 0 /\ rec'.res[p] = "live" =>
                    rec'.cum = base'[p] /\ rec'.cum < Deposit
    <3>1. /\ rec.res[q] = "live" => \A o \in Requests : rec.res[o] = "live" => o = q
          /\ req[p] = "held" /\ charged[p] # 0 => rec.cum > base[p]
      BY <1>1, <1>2, <2>4 DEF StoreInv
    <3> QED BY SMTT(30), <1>2, <1>3, <1>5, <1>8, <1>10, <1>11, <2>4, <3>1
  <2> QED BY <1>2, <1>12, <2>1, <2>2, <2>3, <2>4 DEF StoreInv
<1>14. Onward
  <2>1. chain.settled <= rec.cum /\ chain.settled \in Int
    BY <1>1, <1>2, AccountTypes DEF ChainInv
  <2>2. Sparing
    BY DEF Sparing
  <2> QED BY SMTT(30), <1>2, <1>3, <1>7, <1>8, <2>1, <2>2 DEF Onward, channelVars
<1>15. forks = 0 /\ Finished(rec)' => fin.status \in Ended
  BY <1>1, <1>2, <1>8, <1>12 DEF ChainInv, RecordOutlivesChannel, Finished
<1> QED BY <1>2, <1>9, <1>13, <1>14, <1>15, StoreStepKeeps

(* A request ends.                                                          *)
LEMMA DropStep ==
  ASSUME IInv, NEW q \in Requests, Drop(q), UNCHANGED <<channelVars, passVars>>
  PROVE  IInv' /\ Onward
<1>1. TypeOK /\ StoreInv /\ ChainInv /\ StoreTypeOK
  BY DEF IInv, TypeOK
<1>2. /\ req[q] = "held" /\ mode' = mode /\ charged' = charged /\ bound' = bound /\ batch' = batch
      /\ req' = [req EXCEPT ![q] = "done"] /\ base' = [base EXCEPT ![q] = 0]
      /\ payerClosed' = payerClosed
  BY <1>1 DEF Drop, StoreTypeOK, bound, batch, channelVars
<1>3. \/ rec' = rec
      \/ /\ rec \in Records /\ rec' \in Records /\ rec # NoRecord /\ rec' # NoRecord
         /\ rec'.cum = rec.cum /\ rec'.asked = rec.asked /\ rec'.frozen = rec.frozen
         /\ rec'.sealed = rec.sealed /\ rec'.expiring = rec.expiring /\ rec'.owner = rec.owner
         /\ \A p \in Requests : rec'.res[p] = IF p = q THEN "none" ELSE rec.res[p]
  <2>1. CASE rec # NoRecord /\ rec' = [rec EXCEPT !.res[q] = "none"]
    <3>1. rec \in Records /\ rec.res \in [Requests -> {"none", "live", "expired"}]
      BY <1>1, <2>1, FieldTypes DEF StoreTypeOK
    <3>2. PICK f : f = [rec.res EXCEPT ![q] = "none"]
      OBVIOUS
    <3>3. f \in [Requests -> {"none", "live", "expired"}] /\ rec' = [rec EXCEPT !.res = f]
      BY <2>1, <3>1, <3>2
    <3>4. rec' \in Records
      BY <3>1, <3>3, FieldUpdates
    <3>5. /\ rec'.cum = rec.cum /\ rec'.asked = rec.asked /\ rec'.frozen = rec.frozen
          /\ rec'.sealed = rec.sealed /\ rec'.expiring = rec.expiring /\ rec'.owner = rec.owner
          /\ rec'.res = f
      BY <3>1, <3>3 DEF Records
    <3> QED BY SMTT(30), <2>1, <3>1, <3>2, <3>4, <3>5, FieldTypes
  <2> QED BY <2>1 DEF Drop
<1>4. rec' \in Records \cup {NoRecord}
  BY <1>1, <1>3 DEF StoreTypeOK
<1>5. StoreTypeOK'
  <2>1. 0 \in 0..Deposit
    BY SMTT(30), ChannelAssumption
  <2> QED BY <1>1, <1>2, <1>4, <2>1 DEF StoreTypeOK
<1>6. \A p \in Requests : req'[p] = (IF p = q THEN "done" ELSE req[p])
                          /\ base'[p] = (IF p = q THEN 0 ELSE base[p])
  BY <1>1, <1>2 DEF StoreTypeOK
<1>7. /\ rec' = NoRecord <=> rec = NoRecord
      /\ rec' # NoRecord =>
           /\ rec'.cum = rec.cum /\ rec'.asked = rec.asked /\ rec'.frozen = rec.frozen
           /\ rec'.sealed = rec.sealed /\ rec'.expiring = rec.expiring /\ rec'.owner = rec.owner
           /\ \A p \in Requests : rec'.res[p] \in {"none", rec.res[p]}
  BY <1>3
<1>8. StoreInv'
  <2>1. \A p \in Requests : charged'[p] <= 1 /\ (req'[p] = "new" => charged'[p] = 0)
    BY SMTT(30), <1>1, <1>2, <1>6 DEF StoreInv
  <2>2. SUFFICES ASSUME rec' # NoRecord
        PROVE  /\ rec'.frozen => rec'.asked
               /\ rec'.owner # NoOwner => rec'.asked
               /\ rec'.expiring => rec'.sealed
               /\ bound /\ rec'.sealed => Closing'
               /\ \A p \in Requests :
                    /\ rec'.res[p] = "live" => ~rec'.frozen
                    /\ ~bound /\ charged[p] # 0 => rec'.res[p] = "none"
                    /\ bound =>
                         /\ rec'.res[p] = "live" /\ ~payerClosed => ~rec'.asked /\ ~rec'.sealed
                         /\ rec'.res[p] = "live" => rec'.owner = NoOwner
                         /\ rec'.res[p] = "live" => \A o \in Requests : rec'.res[o] = "live" => o = p
                         /\ req'[p] = "held" /\ charged[p] # 0 => rec'.cum > base'[p]
                         /\ req'[p] = "held" /\ charged[p] = 0 /\ rec'.res[p] = "live" =>
                              rec'.cum = base'[p] /\ rec'.cum < Deposit
    BY <1>2, <2>1 DEF StoreInv
  <2>3. /\ rec'.frozen => rec'.asked
        /\ rec'.owner # NoOwner => rec'.asked
        /\ rec'.expiring => rec'.sealed
        /\ bound /\ rec'.sealed => Closing'
    BY <1>1, <1>2, <1>7, <2>2 DEF StoreInv, Closing
  <2>4. ASSUME NEW p \in Requests
        PROVE  /\ rec'.res[p] = "live" => ~rec'.frozen
               /\ ~bound /\ charged[p] # 0 => rec'.res[p] = "none"
               /\ bound =>
                    /\ rec'.res[p] = "live" /\ ~payerClosed => ~rec'.asked /\ ~rec'.sealed
                    /\ rec'.res[p] = "live" => rec'.owner = NoOwner
                    /\ rec'.res[p] = "live" => \A o \in Requests : rec'.res[o] = "live" => o = p
                    /\ req'[p] = "held" /\ charged[p] # 0 => rec'.cum > base'[p]
                    /\ req'[p] = "held" /\ charged[p] = 0 /\ rec'.res[p] = "live" =>
                         rec'.cum = base'[p] /\ rec'.cum < Deposit
    BY SMTT(30), <1>1, <1>6, <1>7, <2>2 DEF StoreInv
  <2> QED BY <2>3, <2>4
<1>9. Onward
  <2>1. rec # NoRecord => chain.settled <= rec.cum /\ chain.settled \in Int /\ rec.cum \in Int
    BY <1>1, AccountTypes, FieldTypes DEF ChainInv, StoreTypeOK
  <2>2. Sparing
    BY <1>7 DEF Sparing, Held
  <2> QED BY SMTT(30), <1>1, <1>2, <1>4, <1>7, <2>1, <2>2, AccountTypes DEF Onward, channelVars
<1>10. forks = 0 /\ Finished(rec)' => fin.status \in Ended
  BY <1>1, <1>2, <1>7 DEF ChainInv, RecordOutlivesChannel, Finished
<1> QED BY <1>2, <1>5, <1>8, <1>9, <1>10, StoreStepKeeps

(* Reservations, deadlines, leases and records run out.                     *)
LEMMA TimeStep ==
  ASSUME IInv, UNCHANGED <<channelVars, passVars>>,
         \/ \E q \in Requests : ReservationExpires(q)
         \/ IdleDeadline \/ CloseLeaseExpires \/ RecordExpires
  PROVE  IInv' /\ Onward
<1>1. TypeOK /\ StoreInv /\ ChainInv /\ StoreTypeOK
  BY DEF IInv, TypeOK
<1>2. rec \in Records /\ rec # NoRecord /\ UNCHANGED <<mode, gatewayVars>>
  BY <1>1 DEF ReservationExpires, IdleDeadline, CloseLeaseExpires, RecordExpires, StoreTypeOK
<1>3. /\ rec.frozen => rec.asked
      /\ rec.expiring => rec.sealed
      /\ bound /\ rec.sealed => payerClosed \/ rec.asked
      /\ forks = 0 /\ (IF batch THEN rec.expiring ELSE rec.sealed) => fin.status \in Ended
  BY <1>1, <1>2 DEF StoreInv, Closing, ChainInv, RecordOutlivesChannel, Finished
<1>4. ASSUME rec' \in Records, rec'.cum = rec.cum, rec'.asked = rec.asked, rec'.frozen = rec.frozen,
             rec'.sealed = rec.sealed, rec'.expiring = rec.expiring, rec'.owner = rec.owner,
             \A p \in Requests : /\ rec'.res[p] = "live" => rec.res[p] = "live"
                                 /\ rec.res[p] = "none" => rec'.res[p] = "none"
      PROVE  Writes
  <2>1. Fencing(rec, rec')
    BY <1>2, <1>3, <1>4 DEF Fencing
  <2> QED BY <1>3, <1>4, <2>1 DEF Writes
<1>5. ASSUME NEW q \in Requests, ReservationExpires(q) PROVE Writes
  <2>1. rec.res \in [Requests -> {"none", "live", "expired"}] /\ rec.res[q] = "live"
    BY <1>2, <1>5, FieldTypes DEF ReservationExpires
  <2>2. PICK f : f = [rec.res EXCEPT ![q] = IF bound THEN "none" ELSE "expired"]
    OBVIOUS
  <2>3. f \in [Requests -> {"none", "live", "expired"}] /\ rec' = [rec EXCEPT !.res = f]
    BY <1>5, <2>1, <2>2 DEF ReservationExpires
  <2>4. rec' \in Records
    BY <1>2, <2>3, FieldUpdates
  <2>5. /\ rec'.cum = rec.cum /\ rec'.asked = rec.asked /\ rec'.frozen = rec.frozen
        /\ rec'.sealed = rec.sealed /\ rec'.expiring = rec.expiring /\ rec'.owner = rec.owner
        /\ rec'.res = f
    BY <1>2, <2>3 DEF Records
  <2>6. \A p \in Requests : /\ rec'.res[p] = "live" => rec.res[p] = "live"
                            /\ rec.res[p] = "none" => rec'.res[p] = "none"
    BY <2>1, <2>2, <2>5
  <2> QED BY <1>4, <2>4, <2>5, <2>6
<1>6. ASSUME IdleDeadline \/ CloseLeaseExpires PROVE Writes
  <2>1. rec' \in {[rec EXCEPT !.due = TRUE], [rec EXCEPT !.live = FALSE]}
    BY <1>6 DEF IdleDeadline, CloseLeaseExpires
  <2>2. rec' \in Records
    BY <1>2, <2>1, FieldUpdates
  <2>3. /\ rec'.cum = rec.cum /\ rec'.asked = rec.asked /\ rec'.frozen = rec.frozen
        /\ rec'.sealed = rec.sealed /\ rec'.expiring = rec.expiring /\ rec'.owner = rec.owner
        /\ rec'.res = rec.res
    BY <1>2, <2>1 DEF Records
  <2> QED BY <1>4, <2>2, <2>3
<1>7. ASSUME RecordExpires PROVE Writes
  BY <1>3, <1>7 DEF RecordExpires, Writes
<1>8. Writes
  BY <1>5, <1>6, <1>7
<1>9. UNCHANGED <<chain, fin, forks, payerClosed>>
  BY DEF channelVars
<1>10. StoreInv' /\ ChainInv' /\ Onward
  BY <1>1, <1>2, <1>8, <1>9, WritesKeep
<1>11. StoreTypeOK'
  BY <1>1, <1>2, <1>10 DEF StoreTypeOK, gatewayVars, Onward
<1>12. forks = 0 /\ Finished(rec)' => fin.status \in Ended
  BY <1>9, <1>10 DEF ChainInv, RecordOutlivesChannel
<1> QED BY <1>2, <1>10, <1>11, <1>12, StoreStepKeeps

(* Every step of the gateway, and of time, keeps the invariant.             *)
LEMMA GatewayKeeps ==
  ASSUME IInv, GatewayStep, \A q \in Requests : Commit(q) /\ ~bound => rec.cum < Deposit
  PROVE  IInv' /\ Onward
BY ReserveStep, CommitStep, DropStep, TimeStep DEF GatewayStep

-----------------------------------------------------------------------------
(* The steps of the chain.                                                  *)

(* What an accepted transaction makes of an account.                        *)
LEMMA Landing ==
  ASSUME NEW t \in Txs, NEW c \in Accounts, Accepted(t, c), NEW d, d = After(t, c)
  PROVE  /\ d \in Accounts /\ d.lapsed = c.lapsed
         /\ d.settled = IF t.amount # 0 THEN t.amount ELSE c.settled
         /\ t.op \in {"none", "seal", "reclaim"} /\ t.amount = 0 => d.settled = c.settled
         /\ t.op \in {"settle", "settleAndSeal"} => c.settled <= d.settled
         /\ t.op = "settle" => c.status = "open" /\ d.status = "open"
         /\ t.op = "settleAndSeal" =>
              c.status \in {"open", "closing"} /\ d.status = IF t.distribute THEN "distributed" ELSE "sealed"
         /\ t.op = "seal" =>
              /\ c.status = "closing" /\ c.lapsed
              /\ d.status = IF t.distribute THEN "distributed" ELSE "sealed"
         /\ t.op = "reclaim" => c.status = "distributed" /\ d.status = "gone"
         /\ t.op = "none" => \/ c.status = "open" /\ d.status = "open"
                             \/ c.status = "sealed" /\ d.status = "distributed"
<1>1. /\ t.op \in {"settle", "settleAndSeal", "seal", "reclaim", "none"}
      /\ t.amount \in 0..Deposit /\ t.amount \in Int /\ t.amount >= 0
  BY SMTT(30), ChannelAssumption DEF Txs
<1>2. /\ c.settled \in 0..Deposit /\ c.status \in Statuses /\ c.lapsed \in BOOLEAN
      /\ c.settled \in Int
  BY SMTT(30), ChannelAssumption DEF Accounts
<1>3. PICK a : a = AfterOp(t, c)
  OBVIOUS
<1>4. PICK n \in 0..Deposit : n = IF t.amount # 0 THEN t.amount ELSE c.settled
  BY <1>1, <1>2
<1>5. PICK s \in Statuses : s = CASE t.op \in {"settleAndSeal", "seal"} -> "sealed"
                                  [] t.op = "reclaim" -> "gone"
                                  [] OTHER -> c.status
  BY <1>2 DEF Statuses
<1>6. a = [c EXCEPT !.settled = n, !.status = s]
  BY <1>3, <1>4, <1>5 DEF AfterOp
<1>7. a \in Accounts /\ a.settled = n /\ a.status = s /\ a.lapsed = c.lapsed
  BY <1>6 DEF Accounts
<1>8. /\ AfterDistribute(a) \in Accounts /\ AfterDistribute(a).settled = n
      /\ AfterDistribute(a).lapsed = c.lapsed
      /\ AfterDistribute(a).status = IF s = "sealed" THEN "distributed" ELSE s
  BY <1>7 DEF AfterDistribute, Accounts, Statuses
<1>9. /\ d \in Accounts /\ d.settled = n /\ d.lapsed = c.lapsed
      /\ d.status = IF t.distribute /\ s = "sealed" THEN "distributed" ELSE s
  BY <1>3, <1>7, <1>8 DEF After
<1>10. t.distribute => s \in {"open", "sealed"}
  BY <1>3, <1>7 DEF Accepted
<1>11. /\ t.op = "settle" => c.status = "open" /\ t.amount > c.settled
       /\ t.op = "settleAndSeal" => /\ c.status = "open" \/ InGrace(c)
                                    /\ t.amount # 0 => t.amount > c.settled
       /\ t.op = "seal" => Lapsed(c)
       /\ t.op = "reclaim" => c.status = "distributed"
       /\ t.op = "none" => t.distribute
  BY <1>1 DEF Accepted, OpAccepted
<1>12. /\ t.op \in {"settleAndSeal", "seal"} => s = "sealed"
       /\ t.op = "reclaim" => s = "gone"
       /\ t.op \in {"settle", "none"} => s = c.status
  BY <1>5
<1> QED BY SMTT(30), <1>1, <1>2, <1>4, <1>9, <1>10, <1>11, <1>12 DEF InGrace, Lapsed

(* A transaction lands.                                                     *)
LEMMA LandingKeeps ==
  ASSUME IInv, NEW t \in Txs, Accepted(t, chain), chain' = After(t, chain),
         UNCHANGED <<fin, forks, payerClosed, mode, rec>>,
         rec # NoRecord => t.amount <= rec.cum,
         t.op \in {"none", "seal", "reclaim"} => t.amount = 0,
         bound /\ t.op \in {"settleAndSeal", "seal"} => Closing,
         Fixed /\ t.op = "settleAndSeal" =>
           rec.frozen /\ (t.amount = rec.cum \/ (t.amount = 0 /\ chain.settled = rec.cum))
  PROVE  Onward /\ ChainInv' /\ chain' \in Accounts
<1>1. TypeOK /\ ChainInv /\ rec \in Records \cup {NoRecord} /\ chain \in Accounts /\ fin \in Accounts
  BY AccountTypes DEF IInv, TypeOK, StoreTypeOK
<1>2. PICK d : d = After(t, chain)
  OBVIOUS
<1>3. /\ d \in Accounts /\ d.lapsed = chain.lapsed
      /\ d.settled = IF t.amount # 0 THEN t.amount ELSE chain.settled
      /\ t.op \in {"none", "seal", "reclaim"} /\ t.amount = 0 => d.settled = chain.settled
      /\ t.op \in {"settle", "settleAndSeal"} => chain.settled <= d.settled
      /\ t.op = "settle" => chain.status = "open" /\ d.status = "open"
      /\ t.op = "settleAndSeal" =>
           /\ chain.status \in {"open", "closing"}
           /\ d.status = IF t.distribute THEN "distributed" ELSE "sealed"
      /\ t.op = "seal" =>
           /\ chain.status = "closing" /\ chain.lapsed
           /\ d.status = IF t.distribute THEN "distributed" ELSE "sealed"
      /\ t.op = "reclaim" => chain.status = "distributed" /\ d.status = "gone"
      /\ t.op = "none" => \/ chain.status = "open" /\ d.status = "open"
                          \/ chain.status = "sealed" /\ d.status = "distributed"
  BY SMTT(30), <1>1, <1>2, Landing
<1>4. t.op \in {"settle", "settleAndSeal", "seal", "reclaim", "none"}
  BY DEF Txs
<1>5. chain' = d /\ bound' = bound /\ batch' = batch /\ (Fixed' => Fixed) /\ (Closing => Closing')
  BY <1>2 DEF bound, batch, Fixed, Closing
<1>6. /\ chain.settled \in Int /\ fin.settled \in Int /\ d.settled \in Int
      /\ rec # NoRecord => rec.cum \in Int
  BY <1>1, <1>3, AccountTypes, FieldTypes
<1>7. /\ chain.settled <= d.settled
      /\ rec # NoRecord => d.settled <= rec.cum
  BY SMTT(30), <1>1, <1>3, <1>4, <1>6 DEF ChainInv
<1>8. /\ chain.status \in Past => d.status \in Past
      /\ chain.status \in Ended => d.status \in Ended
      /\ d.status = "closing" => chain.status = "closing"
      /\ bound /\ d.status # "open" => Closing
  BY <1>1, <1>3, <1>4 DEF Past, Ended, ChainInv, Views
<1>9. Onward
  <2>1. Sparing
    BY DEF Sparing
  <2> QED BY SMTT(30), <1>1, <1>5, <1>6, <1>7, <1>8, <2>1 DEF Onward
<1>10. (Fixed /\ ~batch /\ chain.status \in {"sealed", "distributed"} /\ ~chain.lapsed => SettledAll)'
  <2>1. ASSUME Fixed, ~batch, d.status \in {"sealed", "distributed"}, ~d.lapsed
        PROVE  rec.frozen /\ d.settled = rec.cum
    <3>1. t.op \in {"settleAndSeal", "none"}
      BY <1>3, <1>4, <2>1
    <3>2. CASE t.op = "settleAndSeal"
      <4>1. chain.settled >= 0 /\ rec # NoRecord
        BY <1>1, <2>1, AccountTypes DEF Fixed
      <4> QED BY SMTT(30), <1>3, <1>6, <1>7, <2>1, <3>2, <4>1
    <3>3. CASE t.op = "none"
      BY <1>1, <1>3, <2>1, <3>3 DEF ChainInv, SettledAll
    <3> QED BY <3>1, <3>2, <3>3
  <2>2. Fixed' = Fixed
    BY DEF Fixed
  <2> QED BY <1>5, <2>1, <2>2 DEF SettledAll
<1>11. \A c \in Views' : /\ c.status = "closing" \/ c.lapsed => payerClosed'
                         /\ (bound /\ c.status # "open" => Closing)'
  <2>1. Views = {chain, fin} /\ Views' = {d, fin}
    BY <1>5 DEF Views
  <2>2. \A c \in {chain, fin} : /\ c.status = "closing" \/ c.lapsed => payerClosed
                                /\ bound /\ c.status # "open" => Closing
    BY <1>1, <2>1 DEF ChainInv
  <2>3. /\ d.status = "closing" \/ d.lapsed => payerClosed
        /\ bound /\ d.status # "open" => Closing
    BY <1>3, <1>8, <2>2
  <2> QED BY <1>5, <2>1, <2>2, <2>3
<1>12. /\ fin.settled <= d.settled
       /\ fin.status \in Past => d.status \in Past
       /\ fin.status \in Ended => d.status \in Ended
  BY SMTT(30), <1>1, <1>6, <1>7, <1>8 DEF ChainInv
<1>13. RecordOutlivesChannel'
  BY <1>1, <1>5 DEF ChainInv, RecordOutlivesChannel, Finished
<1>14. (rec # NoRecord => chain.settled <= rec.cum)'
  BY <1>5, <1>7
<1> QED BY <1>3, <1>5, <1>9, <1>10, <1>11, <1>12, <1>13, <1>14 DEF ChainInv

(* What is to be shown of a step of the chain.                              *)
LEMMA ChainStepKeeps ==
  ASSUME IInv, UNCHANGED <<storeVars, passVars, tx>>, Onward, ChainInv', ChannelTypeOK',
         \A w \in Workers :
           /\ landing'[w] # "none" => landing[w] # "none"
           /\ forks' = 0 /\ Terminal(w) =>
                /\ landing'[w] = "confirmed" => chain'.status \in Ended
                /\ landing'[w] = "finalized" => fin'.status \in Ended
  PROVE  IInv'
<1>1. TypeOK /\ StoreInv /\ \A w \in Workers : WorkInv(w)
  BY DEF IInv
<1>2. /\ UNCHANGED <<mode, rec, req, base, charged, pc, snap, plan, tx>>
      /\ bound' = bound /\ batch' = batch /\ (payerClosed => payerClosed')
  BY DEF storeVars, gatewayVars, passVars, bound, batch, Onward
<1>3. chain \in Accounts /\ chain' \in Accounts /\ rec \in Records \cup {NoRecord}
  BY <1>1 DEF ChannelTypeOK, TypeOK, StoreTypeOK
<1>4. StoreInv'
  <2>1. Closing => Closing'
    BY ClosingLasts
  <2> QED BY <1>1, <1>2, <2>1 DEF StoreInv
<1>5. TypeOK'
  <2>1. StoreTypeOK'
    BY <1>1, <1>2 DEF TypeOK, StoreTypeOK
  <2> QED BY <1>1, <1>2, <2>1 DEF TypeOK
<1>6. ASSUME NEW w \in Workers PROVE WorkInv(w)'
  <2>1. WorkInv(w) /\ plan[w] \in Plans /\ tx[w] \in Txs
    BY <1>1, WorkerTypes
  <2>2. SnapInv(w)' /\ PlanInv(w)'
    BY <1>2, <1>3, <2>1, SnapLasts, PlanLasts DEF WorkInv
  <2>3. TxOK(tx[w])'
    <3>1. PICK t \in Txs : t = tx[w]
      BY <2>1
    <3>2. TxOK(t)
      BY <2>1, <3>1 DEF WorkInv, SentInv
    <3>3. TxOK(t)'
      BY <1>3, <3>2, TxLasts
    <3> QED BY <1>2, <3>1, <3>3 DEF TxOK
  <2>4. Terminal(w)' = Terminal(w)
    BY <1>2 DEF Terminal
  <2>5. SentInv(w)'
    BY <1>2, <2>1, <2>3, <2>4 DEF WorkInv, SentInv
  <2> QED BY <2>2, <2>5 DEF WorkInv
<1> QED BY <1>4, <1>5, <1>6 DEF IInv

(* A worker's transaction is confirmed.                                     *)
LEMMA ConfirmedStep ==
  ASSUME IInv, NEW v \in Workers, Confirmed(v), UNCHANGED <<storeVars, passVars>>
  PROVE  IInv' /\ Onward
<1>1. TypeOK /\ ChainInv /\ \A w \in Workers : WorkInv(w)
  BY DEF IInv
<1>2. PICK t \in Txs : t = tx[v]
  BY <1>1, WorkerTypes
<1>3. /\ TxOK(t) /\ Accepted(t, chain) /\ chain' = After(t, chain) /\ landing[v] = "pending"
      /\ UNCHANGED <<fin, forks, payerClosed, mode, rec, tx, plan, pc>>
      /\ landing' = [landing EXCEPT ![v] = "confirmed"]
  BY <1>1, <1>2 DEF Confirmed, WorkInv, SentInv, storeVars, passVars
<1>4. Onward /\ ChainInv' /\ chain' \in Accounts
  BY <1>3, LandingKeeps DEF TxOK
<1>5. ChannelTypeOK'
  <2>1. landing' \in [Senders -> {"none", "pending", "confirmed", "finalized"}]
    BY <1>1, <1>3 DEF TypeOK, ChannelTypeOK, Workers
  <2> QED BY <1>1, <1>3, <1>4, <2>1 DEF TypeOK, ChannelTypeOK
<1>6. \A w \in Workers : landing'[w] = IF w = v THEN "confirmed" ELSE landing[w]
  BY <1>1, <1>3 DEF TypeOK, ChannelTypeOK, Workers
<1>7. forks' = 0 /\ Terminal(v) => chain'.status \in Ended
  <2>1. SUFFICES ASSUME forks = 0, Terminal(v) PROVE chain'.status \in Ended
    BY <1>3
  <2>2. TerminalTx(t)
    BY <1>1, <1>2, <1>3, <2>1 DEF WorkInv, SentInv, PlanInv
  <2>3. PICK d : d = After(t, chain)
    OBVIOUS
  <2>4. chain \in Accounts
    BY <1>1, AccountTypes
  <2>5. /\ t.op = "reclaim" => d.status = "gone"
        /\ t.op \in {"settleAndSeal", "seal"} => d.status = IF t.distribute THEN "distributed" ELSE "sealed"
        /\ t.op = "none" => \/ chain.status = "open" /\ d.status = "open"
                            \/ chain.status = "sealed" /\ d.status = "distributed"
    BY SMTT(30), <1>3, <2>3, <2>4, Landing
  <2>6. d.status \in Ended
    BY <2>2, <2>5 DEF TerminalTx, Past, Ended
  <2> QED BY <1>3, <2>3, <2>6
<1>8. ASSUME NEW w \in Workers
      PROVE  /\ landing'[w] # "none" => landing[w] # "none"
             /\ forks' = 0 /\ Terminal(w) =>
                  /\ landing'[w] = "confirmed" => chain'.status \in Ended
                  /\ landing'[w] = "finalized" => fin'.status \in Ended
  <2>1. CASE w = v
    BY SMTT(30), <1>3, <1>6, <1>7, <2>1
  <2>2. CASE w # v
    <3>1. landing'[w] = landing[w]
      BY <1>6, <2>2
    <3>2. forks' = 0 => forks = 0 /\ (chain.status \in Ended => chain'.status \in Ended)
      BY <1>4 DEF Onward
    <3> QED BY <1>1, <1>3, <3>1, <3>2 DEF WorkInv, SentInv
  <2> QED BY <2>1, <2>2
<1> QED BY <1>3, <1>4, <1>5, <1>8, ChainStepKeeps

(* Anyone seals a channel past its grace period, or distributes it.         *)
LEMMA PermissionlessStep ==
  ASSUME IInv, NEW t \in PermissionlessTxs, Permissionless(t), UNCHANGED <<storeVars, passVars>>
  PROVE  IInv' /\ Onward
<1>1. TypeOK /\ ChainInv /\ rec \in Records \cup {NoRecord} /\ \A w \in Workers : WorkInv(w)
  BY DEF IInv, TypeOK, StoreTypeOK
<1>2. t \in Txs /\ t.op \in {"seal", "none"} /\ t.amount = 0
  <2>1. 0 \in 0..Deposit
    BY SMTT(30), ChannelAssumption
  <2>2. CASE t = [op |-> "seal", amount |-> 0, distribute |-> FALSE]
    BY <2>1, <2>2 DEF Txs
  <2>3. CASE t = [op |-> "none", amount |-> 0, distribute |-> TRUE]
    BY <2>1, <2>3 DEF Txs
  <2> QED BY <2>2, <2>3 DEF PermissionlessTxs
<1>3. /\ Accepted(t, chain) /\ chain' = After(t, chain) /\ chain.status \in {"closing", "sealed"}
      /\ UNCHANGED <<fin, forks, payerClosed, mode, rec, tx, landing, plan>>
  BY DEF Permissionless, storeVars, passVars
<1>4. rec # NoRecord => t.amount <= rec.cum
  BY <1>1, <1>2, FieldTypes
<1>5. bound => Closing
  BY <1>1, <1>3 DEF ChainInv, Views
<1>6. Onward /\ ChainInv' /\ chain' \in Accounts
  BY <1>2, <1>3, <1>4, <1>5, LandingKeeps
<1>7. ChannelTypeOK'
  BY <1>1, <1>3, <1>6 DEF TypeOK, ChannelTypeOK
<1>8. \A w \in Workers :
        /\ landing'[w] # "none" => landing[w] # "none"
        /\ forks' = 0 /\ Terminal(w) =>
             /\ landing'[w] = "confirmed" => chain'.status \in Ended
             /\ landing'[w] = "finalized" => fin'.status \in Ended
  BY <1>1, <1>3, <1>6 DEF WorkInv, SentInv, Onward
<1> QED BY <1>3, <1>6, <1>7, <1>8, ChainStepKeeps

(* The payer requests a close, and its grace period lapses.                 *)
LEMMA PayerStep ==
  ASSUME IInv, RequestClose \/ GraceLapses, UNCHANGED <<storeVars, passVars>>
  PROVE  IInv' /\ Onward
<1>1. /\ TypeOK /\ ChainInv /\ rec \in Records \cup {NoRecord} /\ \A w \in Workers : WorkInv(w)
      /\ chain \in Accounts /\ fin \in Accounts
  BY AccountTypes DEF IInv, TypeOK, StoreTypeOK
<1>2. /\ UNCHANGED <<mode, rec, tx, landing, forks, plan>>
      /\ bound' = bound /\ batch' = batch
  BY DEF RequestClose, GraceLapses, storeVars, passVars, bound, batch
<1>3. /\ payerClosed' \in BOOLEAN /\ payerClosed'
      /\ chain.status \in {"open", "closing"} /\ chain'.status = "closing"
      /\ chain'.settled = chain.settled /\ chain' \in Accounts
      /\ fin'.status = fin.status /\ fin'.settled = fin.settled /\ fin' \in Accounts
  <2>1. CASE RequestClose
    <3>1. /\ payerClosed' = TRUE /\ chain' = [chain EXCEPT !.status = "closing"] /\ fin' = fin
          /\ chain.status = "open"
      BY <2>1 DEF RequestClose
    <3>2. chain'.status = "closing" /\ chain'.settled = chain.settled /\ chain' \in Accounts
      BY <1>1, <3>1 DEF Accounts, Statuses
    <3> QED BY <1>1, <3>1, <3>2
  <2>2. CASE GraceLapses
    <3>1. PICK b \in BOOLEAN : b = (fin.status = "closing")
      OBVIOUS
    <3>2. /\ payerClosed' = payerClosed /\ chain' = [chain EXCEPT !.lapsed = TRUE]
          /\ fin' = [fin EXCEPT !.lapsed = b] /\ chain.status = "closing"
      BY <2>2, <3>1 DEF GraceLapses, InGrace
    <3>3. /\ chain'.status = "closing" /\ chain'.settled = chain.settled /\ chain' \in Accounts
      BY <1>1, <3>2 DEF Accounts, Statuses
    <3>4. /\ fin'.status = fin.status /\ fin'.settled = fin.settled /\ fin' \in Accounts
      BY <1>1, <3>1, <3>2 DEF Accounts, Statuses
    <3>5. payerClosed
      BY <1>1, <3>2 DEF ChainInv, Views
    <3>6. payerClosed' \in BOOLEAN
      BY <1>1, <3>2 DEF TypeOK, ChannelTypeOK
    <3> QED BY <3>2, <3>3, <3>4, <3>5, <3>6
  <2> QED BY <2>1, <2>2
<1>4. /\ chain.settled \in Int /\ fin.settled \in Int
      /\ rec # NoRecord => rec.cum \in Int
  BY <1>1, AccountTypes, FieldTypes
<1>5. Onward
  <2>1. Sparing
    BY <1>2 DEF Sparing
  <2> QED BY SMTT(30), <1>1, <1>2, <1>3, <1>4, <2>1 DEF Onward, ChainInv, Past, Ended
<1>6. ChainInv'
  <2>1. /\ (fin.settled <= chain.settled)'
        /\ (fin.status \in Past => chain.status \in Past)'
        /\ (fin.status \in Ended => chain.status \in Ended)'
        /\ (rec # NoRecord => chain.settled <= rec.cum)'
    BY <1>1, <1>2, <1>3 DEF ChainInv, Past, Ended
  <2>2. Closing'
    BY <1>3 DEF Closing
  <2>3. RecordOutlivesChannel'
    BY <1>1, <1>2, <1>3 DEF ChainInv, RecordOutlivesChannel, Finished
  <2> QED BY <1>3, <2>1, <2>2, <2>3 DEF ChainInv
<1>7. ChannelTypeOK'
  BY <1>1, <1>2, <1>3 DEF TypeOK, ChannelTypeOK
<1>8. \A w \in Workers :
        /\ landing'[w] # "none" => landing[w] # "none"
        /\ forks' = 0 /\ Terminal(w) =>
             /\ landing'[w] = "confirmed" => chain'.status \in Ended
             /\ landing'[w] = "finalized" => fin'.status \in Ended
  <2>1. chain.status \notin Ended
    BY <1>3 DEF Ended
  <2> QED BY <1>1, <1>2, <1>3, <2>1 DEF WorkInv, SentInv
<1> QED BY <1>2, <1>5, <1>6, <1>7, <1>8, ChainStepKeeps

(* What is confirmed becomes final, or is dropped.                          *)
LEMMA ForkStep ==
  ASSUME IInv, Finalize \/ Fork, UNCHANGED <<storeVars, passVars>>
  PROVE  IInv' /\ Onward
<1>1. /\ TypeOK /\ ChainInv /\ rec \in Records \cup {NoRecord} /\ \A w \in Workers : WorkInv(w)
      /\ chain \in Accounts /\ fin \in Accounts
  BY AccountTypes DEF IInv, TypeOK, StoreTypeOK
<1>2. /\ UNCHANGED <<mode, rec, tx, payerClosed, plan>>
      /\ bound' = bound /\ batch' = batch
  BY DEF Finalize, Fork, storeVars, passVars, bound, batch
<1>3. \/ fin' = chain /\ chain' = chain /\ forks' = forks
      \/ fin' = fin /\ chain' = fin /\ forks' = forks + 1 /\ forks < MaxForks
  BY DEF Finalize, Fork
<1>4. /\ chain.settled \in Int /\ fin.settled \in Int /\ forks \in Int /\ forks >= 0 /\ MaxForks \in Int
      /\ rec # NoRecord => rec.cum \in Int
  BY SMTT(30), <1>1, AccountTypes, FieldTypes, ChannelAssumption
<1>5. /\ chain' \in Accounts /\ fin' \in Accounts /\ forks' \in 0..MaxForks
      /\ forks' = 0 => fin' = chain /\ chain' = chain /\ forks' = forks
      /\ fin' = chain' /\ fin' \in {chain, fin}
  BY SMTT(30), <1>1, <1>3, <1>4 DEF TypeOK, ChannelTypeOK
<1>6. Onward
  <2>1. rec # NoRecord => chain.settled <= rec.cum /\ fin.settled <= rec.cum
    BY SMTT(30), <1>1, <1>4 DEF ChainInv
  <2>2. Sparing
    BY <1>2 DEF Sparing
  <2> QED BY SMTT(30), <1>1, <1>2, <1>4, <1>5, <2>1, <2>2 DEF Onward, ChainInv
<1>7. ChainInv'
  <2>1. /\ (fin.settled <= chain.settled)'
        /\ (fin.status \in Past => chain.status \in Past)'
        /\ (fin.status \in Ended => chain.status \in Ended)'
        /\ (rec # NoRecord => chain.settled <= rec.cum)'
    BY SMTT(30), <1>4, <1>5, <1>6 DEF Onward
  <2>2. \A c \in Views' : /\ c.status = "closing" \/ c.lapsed => payerClosed'
                          /\ (bound /\ c.status # "open" => Closing)'
    BY <1>1, <1>2, <1>5 DEF ChainInv, Views, Closing
  <2>3. RecordOutlivesChannel'
    <3>1. forks' = 0 => forks = 0 /\ (fin.status \in Ended => fin'.status \in Ended)
      BY <1>6 DEF Onward
    <3>2. Finished(rec)' = Finished(rec)
      BY <1>2 DEF Finished
    <3> QED BY <1>1, <3>1, <3>2 DEF ChainInv, RecordOutlivesChannel
  <2>4. (Fixed /\ ~batch /\ chain.status \in {"sealed", "distributed"} /\ ~chain.lapsed => SettledAll)'
    BY <1>1, <1>2, <1>5 DEF ChainInv, Fixed, SettledAll
  <2> QED BY <2>1, <2>2, <2>3, <2>4 DEF ChainInv
<1>8. landing \in [Workers -> {"none", "pending", "confirmed", "finalized"}]
  BY <1>1 DEF TypeOK, ChannelTypeOK, Workers
<1>9. /\ landing' \in [Senders -> {"none", "pending", "confirmed", "finalized"}]
      /\ \A w \in Workers :
           /\ landing'[w] # "none" => landing[w] # "none"
           /\ forks' = 0 =>
                landing'[w] = IF landing[w] = "confirmed" THEN "finalized" ELSE landing[w]
  <2>1. CASE Finalize
    BY <1>8, <2>1 DEF Finalize, Workers
  <2>2. CASE Fork
    <3>1. forks' # 0
      BY SMTT(30), <1>4, <2>2 DEF Fork
    <3> QED BY <1>8, <2>2, <3>1 DEF Fork, Workers
  <2> QED BY <2>1, <2>2
<1>10. ChannelTypeOK'
  BY <1>1, <1>2, <1>5, <1>9 DEF TypeOK, ChannelTypeOK
<1>11. ASSUME NEW w \in Workers, forks' = 0, Terminal(w)
       PROVE  /\ landing'[w] = "confirmed" => chain'.status \in Ended
              /\ landing'[w] = "finalized" => fin'.status \in Ended
  <2>1. /\ landing[w] = "confirmed" => chain.status \in Ended
        /\ landing[w] = "finalized" => fin.status \in Ended
    BY <1>1, <1>5, <1>11 DEF WorkInv, SentInv
  <2>2. fin.status \in Ended => chain.status \in Ended
    BY <1>1 DEF ChainInv
  <2> QED BY <1>5, <1>9, <1>11, <2>1, <2>2
<1> QED BY <1>2, <1>6, <1>7, <1>9, <1>10, <1>11, ChainStepKeeps

-----------------------------------------------------------------------------
(* What is left of the deposit.                                             *)

INSTANCE FiniteSetTheorems

(* The requests a record holds are finitely many.                           *)
LEMMA HeldFinite ==
  ASSUME NEW r
  PROVE  IsFiniteSet(Held(r)) /\ Cardinality(Held(r)) \in Nat
<1>1. Held(r) \subseteq Requests
  BY DEF Held
<1> QED BY <1>1, StoreAssumption, FS_Subset, FS_CardinalityType

(* A charge has room.                                                       *)
LEMMA RoomForCharge ==
  ASSUME StoreTypeOK, Room, NEW q \in Requests, Commit(q), ~bound
  PROVE  rec \in Records /\ q \in Held(rec) /\ rec.cum < Deposit
<1>1. rec # NoRecord /\ rec.res[q] # "none"
  BY DEF Commit, CommitLegacy
<1>2. rec \in Records /\ rec.cum \in Int /\ Deposit \in Int
  BY SMTT(30), <1>1, FieldTypes, ChannelAssumption DEF StoreTypeOK
<1>3. Cardinality(Held(rec)) <= Deposit - rec.cum
  BY <1>1 DEF Room
<1>4. q \in Held(rec)
  BY <1>1 DEF Held
<1>5. Cardinality(Held(rec)) # 0 /\ Cardinality(Held(rec)) \in Nat
  BY <1>4, HeldFinite, FS_EmptySet
<1> QED BY SMTT(30), <1>2, <1>3, <1>4, <1>5

(* The reservations go on to fit.                                           *)
LEMMA RoomKept ==
  ASSUME StoreTypeOK, Room, Onward
  PROVE  Room'
<1>1. SUFFICES ASSUME rec' # NoRecord, ~bound
               PROVE  Cardinality(Held(rec')) <= Deposit - rec'.cum
  BY DEF Room, Onward, bound
<1>2. /\ rec \in Records /\ rec.cum \in Int /\ Deposit \in Int
      /\ rec.res \in [Requests -> {"none", "live", "expired"}]
      /\ Cardinality(Held(rec)) <= Deposit - rec.cum
  BY SMTT(30), <1>1, FieldTypes, ChannelAssumption DEF StoreTypeOK, Onward, Room
<1>3. Cardinality(Held(rec)) \in Nat /\ Cardinality(Held(rec')) \in Nat
  BY HeldFinite
<1>4. ASSUME NEW q \in Requests, Reserve(q)
      PROVE  Cardinality(Held(rec')) <= Deposit - rec'.cum
  <2>1. PICK f : f = [rec.res EXCEPT ![q] = "live"]
    OBVIOUS
  <2>2. rec' = [rec EXCEPT !.res = f, !.due = FALSE] /\ Cardinality(Held(rec)) < Deposit - rec.cum
    BY <1>1, <1>4, <2>1 DEF Reserve, ReserveLegacy, Held
  <2>3. rec'.cum = rec.cum /\ rec'.res = f
    BY <1>2, <2>2 DEF Records
  <2>4. Held(rec') \subseteq Held(rec) \cup {q}
    BY <1>2, <2>1, <2>3 DEF Held
  <2>5. /\ IsFiniteSet(Held(rec) \cup {q})
        /\ Cardinality(Held(rec) \cup {q}) <= Cardinality(Held(rec)) + 1
    BY SMTT(30), HeldFinite, FS_AddElement
  <2>6. Cardinality(Held(rec')) <= Cardinality(Held(rec) \cup {q})
    BY <2>4, <2>5, FS_Subset
  <2>7. Cardinality(Held(rec) \cup {q}) \in Nat
    BY <2>5, FS_CardinalityType
  <2> QED BY SMTT(30), <1>2, <1>3, <2>2, <2>3, <2>5, <2>6, <2>7
<1>5. ASSUME NEW q \in Requests, Commit(q)
      PROVE  Cardinality(Held(rec')) <= Deposit - rec'.cum
  <2>1. PICK f, n : f = [rec.res EXCEPT ![q] = "none"] /\ n = rec.cum + 1
    OBVIOUS
  <2>2. rec' = [rec EXCEPT !.cum = n, !.due = FALSE, !.res = f]
    BY <1>1, <1>5, <2>1 DEF Commit, CommitLegacy
  <2>3. rec'.cum = n /\ rec'.res = f
    BY <1>2, <2>2 DEF Records
  <2>4. Held(rec') = Held(rec) \ {q}
    BY <1>2, <2>1, <2>3 DEF Held
  <2>5. Cardinality(Held(rec) \ {q}) = Cardinality(Held(rec)) - 1
    BY <1>1, <1>5, RoomForCharge, HeldFinite, FS_RemoveElement
  <2> QED BY SMTT(30), <1>2, <1>3, <2>1, <2>3, <2>4, <2>5
<1>6. ASSUME rec'.cum = rec.cum, Held(rec') \subseteq Held(rec)
      PROVE  Cardinality(Held(rec')) <= Deposit - rec'.cum
  <2>1. Cardinality(Held(rec')) <= Cardinality(Held(rec))
    BY <1>6, HeldFinite, FS_Subset
  <2> QED BY SMTT(30), <1>2, <1>3, <1>6, <2>1
<1> QED BY <1>1, <1>4, <1>5, <1>6 DEF Onward, Sparing

-----------------------------------------------------------------------------
(* The theorems.                                                            *)

(* The channel as it is opened satisfies the invariant.                     *)
LEMMA InitIInv == Init => IInv /\ Room
<1> SUFFICES ASSUME Init PROVE IInv /\ Room
  OBVIOUS
<1>1. /\ chain = NewAccount /\ fin = NewAccount /\ forks = 0 /\ payerClosed = FALSE
      /\ tx = [s \in Senders |-> NoTx] /\ landing = [s \in Senders |-> "none"]
      /\ mode \in Modes
      /\ rec = [cum |-> 0, asked |-> FALSE, frozen |-> FALSE, sealed |-> FALSE,
                expiring |-> FALSE, due |-> FALSE, res |-> NoReservations,
                owner |-> NoOwner, live |-> FALSE]
      /\ req = [q \in Requests |-> "new"] /\ base = [q \in Requests |-> 0]
      /\ charged = [q \in Requests |-> 0]
      /\ pc = [w \in Workers |-> "idle"] /\ snap = [w \in Workers |-> NoRecord]
      /\ plan = [w \in Workers |-> Nothing]
  BY DEF Init, ChannelInit, StoreInit, PassInit
<1>2. 0 \in 0..Deposit /\ 0 \in 0..MaxForks /\ Deposit \in Nat
  BY SMTT(30), ChannelAssumption
<1>3. NewAccount \in Accounts /\ NoTx \in Txs /\ Nothing \in Plans
  BY <1>2 DEF NewAccount, Accounts, Statuses, NoTx, Txs, Nothing, Plans
<1>4. rec \in Records
  <2>1. NoReservations \in [Requests -> {"none", "live", "expired"}]
    BY DEF NoReservations
  <2> QED BY <1>1, <1>2, <2>1 DEF Records
<1>5. /\ rec.cum = 0 /\ ~rec.asked /\ ~rec.frozen /\ ~rec.sealed /\ ~rec.expiring
      /\ rec.owner = NoOwner /\ rec # NoRecord
      /\ \A q \in Requests : rec.res[q] = "none"
  <2>1. rec.res = NoReservations /\ rec.cum = 0 /\ rec.owner = NoOwner
        /\ ~rec.asked /\ ~rec.frozen /\ ~rec.sealed /\ ~rec.expiring
    BY <1>1
  <2>2. rec # NoRecord
    BY <1>4, FieldTypes
  <2> QED BY <2>1, <2>2 DEF NoReservations
<1>6. TypeOK
  <2>1. /\ tx \in [Senders -> Txs] /\ landing \in [Senders -> {"none", "pending", "confirmed", "finalized"}]
        /\ req \in [Requests -> {"new", "held", "done"}]
        /\ base \in [Requests -> 0..Deposit] /\ charged \in [Requests -> Nat]
        /\ pc \in [Workers -> {"idle", "reconcile", "submit", "refresh", "guard", "send",
                               "confirm", "finalize"}]
        /\ snap \in [Workers -> SessionCopies \cup BatchCopies \cup {NoRecord}]
        /\ plan \in [Workers -> Plans]
    BY <1>1, <1>2, <1>3
  <2>2. ChannelTypeOK
    BY <1>1, <1>2, <1>3, <2>1 DEF ChannelTypeOK
  <2>3. StoreTypeOK
    BY <1>1, <1>4, <2>1 DEF StoreTypeOK
  <2> QED BY <2>1, <2>2, <2>3 DEF TypeOK
<1>7. StoreInv
  BY SMTT(30), <1>1, <1>5 DEF StoreInv
<1>8. ChainInv
  <2>1. chain.status = "open" /\ chain.settled = 0 /\ ~chain.lapsed /\ fin = chain
    BY <1>1 DEF NewAccount
  <2> QED BY SMTT(30), <1>5, <2>1 DEF ChainInv, Views, Past, Ended, RecordOutlivesChannel, Finished
<1>9. ASSUME NEW w \in Workers PROVE WorkInv(w)
  <2>1. pc[w] = "idle" /\ plan[w] = Nothing /\ tx[w] = NoTx /\ landing[w] = "none"
    BY <1>1 DEF Workers
  <2>2. TxOK(NoTx)
    BY SMTT(30), <1>5 DEF TxOK, NoTx
  <2>3. TxOK(tx[w]) /\ TxOK(plan[w].tx) /\ plan[w].kind = "none" /\ plan[w].store = "keep"
    BY SMTT(30), <2>1, <2>2 DEF Nothing
  <2> QED BY <2>1, <2>3 DEF WorkInv, SnapInv, PlanInv, SentInv, Terminal
<1>10. Room
  <2>1. Held(rec) = {}
    BY <1>5 DEF Held
  <2>2. Cardinality(Held(rec)) <= Deposit - rec.cum
    BY SMTT(30), <1>2, <1>5, <2>1, FS_EmptySet
  <2> QED BY <2>2 DEF Room
<1> QED BY <1>6, <1>7, <1>8, <1>9, <1>10 DEF IInv

(* Every step keeps it, and undoes nothing that a pass relies on.           *)
LEMMA StepKeepsIInv ==
  ASSUME IInv, Room, [Next]_vars
  PROVE  IInv' /\ Onward
<1>1. CASE UNCHANGED vars
  <2>1. /\ UNCHANGED <<chain, fin, tx, landing, forks, payerClosed, mode, rec, req, base, charged>>
        /\ UNCHANGED <<pc, snap, plan>> /\ UNCHANGED <<channelVars, mode, passVars>>
    BY <1>1 DEF vars, channelVars, storeVars, gatewayVars, passVars
  <2>2. Writes /\ UNCHANGED <<mode, gatewayVars>>
    BY <2>1 DEF Writes, gatewayVars
  <2>3. TypeOK /\ StoreInv /\ ChainInv /\ StoreTypeOK
    BY DEF IInv, TypeOK
  <2>4. StoreInv' /\ ChainInv' /\ Onward
    BY <2>1, <2>2, <2>3, WritesKeep
  <2>5. StoreTypeOK'
    BY <2>1, <2>3 DEF StoreTypeOK
  <2>6. forks = 0 /\ Finished(rec)' => fin.status \in Ended
    BY <2>1, <2>4 DEF ChainInv, RecordOutlivesChannel
  <2>7. IInv'
    BY <2>1, <2>4, <2>5, <2>6, StoreStepKeeps
  <2> QED BY <2>4, <2>7
<1>2. CASE ChainStep
  <2>1. UNCHANGED <<storeVars, passVars>>
    BY <1>2 DEF ChainStep
  <2> QED BY <1>2, <2>1, ConfirmedStep, PayerStep, PermissionlessStep, ForkStep DEF ChainStep
<1> QED BY <1>1, <1>2, WorkerKeeps, GatewayKeeps, RoomForCharge DEF Next, IInv, TypeOK

(* The invariant holds forever.                                             *)
LEMMA Inductive == Spec => []IInv /\ []Room
<1>1. IInv /\ Room /\ [Next]_vars => IInv' /\ Room'
  <2>1. IInv => StoreTypeOK
    BY DEF IInv, TypeOK
  <2> QED BY <2>1, StepKeepsIInv, RoomKept
<1> QED BY <1>1, InitIInv, PTL DEF Spec

(* The variables keep their types; in particular a watermark never exceeds  *)
(* the deposit, though commit_reserved_usage does not compare the two: the  *)
(* reservations made room for it.                                           *)
THEOREM TypeCorrect == Spec => []TypeOK
BY Inductive, PTL DEF IInv

(* What settle-sessions seals in time is settled at everything the gateway  *)
(* accepted, with any number of workers and requests.                       *)
THEOREM SealsEverything == Spec => []SealCoversAccepted
<1>1. IInv => SealCoversAccepted
  BY DEF IInv, ChainInv, SealCoversAccepted, Fixed, SettledAll, bound, batch
<1> QED BY <1>1, Inductive, PTL

(* No transaction of a worker can seal a batch channel below what was       *)
(* accepted.                                                                *)
THEOREM NothingForfeited == Spec => []NoForfeit
<1>1. IInv => NoForfeit
  <2> SUFFICES ASSUME IInv, NEW w \in Workers, batch, rec # NoRecord, forks = 0,
                      tx[w].op \in {"settleAndSeal", "seal"}, Accepted(tx[w], chain)
               PROVE  After(tx[w], chain).settled >= rec.cum
    BY DEF NoForfeit
  <2>1. TypeOK /\ chain \in Accounts /\ tx[w] \in Txs /\ TxOK(tx[w]) /\ rec \in Records
    BY WorkerTypes DEF IInv, WorkInv, SentInv
  <2>2. PICK t, d : t \in Txs /\ t = tx[w] /\ d = After(t, chain)
    BY <2>1
  <2>3. d.settled = IF t.amount # 0 THEN t.amount ELSE chain.settled
    BY <2>1, <2>2, Landing
  <2>4. Fixed
    BY DEF Fixed, batch
  <2>5. /\ t.op = "settleAndSeal" => t.amount = rec.cum \/ (t.amount = 0 /\ chain.settled = rec.cum)
        /\ t.op = "seal" => t.amount = 0 /\ chain.settled = rec.cum
    BY <2>1, <2>2, <2>4 DEF TxOK, SettledAll
  <2>6. rec.cum \in Int /\ rec.cum >= 0 /\ chain.settled \in Int /\ chain.settled >= 0
    BY <2>1, FieldTypes, AccountTypes
  <2> QED BY SMTT(30), <2>2, <2>3, <2>5, <2>6
<1> QED BY <1>1, Inductive, PTL

(* While a request holds a live reservation its charge is accepted, unless  *)
(* the payer closes the session.                                            *)
THEOREM ReservationsHonoured == Spec => []LiveReservationHonoured
<1>1. IInv => LiveReservationHonoured
  BY DEF IInv, StoreInv, LiveReservationHonoured, RequireReservation
<1> QED BY <1>1, Inductive, PTL

(* No request is charged twice.                                             *)
THEOREM NeverChargedTwice == Spec => []ChargedOnce
<1>1. IInv => ChargedOnce
  BY DEF IInv, StoreInv, ChargedOnce
<1> QED BY <1>1, Inductive, PTL

(* A record ends only after the distribution of its channel is final.       *)
THEOREM RecordsOutlive == Spec => []RecordOutlivesChannel
<1>1. IInv => RecordOutlivesChannel
  BY DEF IInv, ChainInv
<1> QED BY <1>1, Inductive, PTL

(* Once a close is claimed its amount is fixed.                             *)
THEOREM AmountIsFixed == Spec => ClaimFixesAmount
<1>1. IInv /\ Room /\ [Next]_vars =>
        [rec # NoRecord /\ rec' # NoRecord /\ rec.frozen => rec'.frozen /\ rec'.cum = rec.cum]_vars
  BY StepKeepsIInv DEF Onward
<1> QED BY <1>1, Inductive, PTL DEF Spec, ClaimFixesAmount
=============================================================================
