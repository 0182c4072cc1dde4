------------------------------ MODULE Journal -------------------------------
(***************************************************************************)
(* The journal file of core/src/client/push/journal.rs at the level of      *)
(* writes, fsyncs and crashes.  Fanout.tla takes from here that an append   *)
(* that returned is there after a restart.                                  *)
(*                                                                          *)
(* The file is the sequence of what the appends wrote: a whole line, a      *)
(* record without its newline, or a part of a record.  A write that does    *)
(* not end in a newline shares its line with the next one.                  *)
(***************************************************************************)
EXTENDS Integers, Sequences, Functions

CONSTANTS
  MaxEvents,          \* bound: appends altogether
  CutBeforeNewline,   \* TRUE if a write may stop exactly before the newline
  SyncErrors          \* TRUE if sync_data may fail

ASSUME JournalAssumption ==
  MaxEvents \in Nat /\ CutBeforeNewline \in BOOLEAN /\ SyncErrors \in BOOLEAN

VARIABLES
  exists,         \* the file was created
  file,           \* its content as written
  durable,        \* how many writes of it were fsynced
  state,          \* the writer: closed, open, writing, or failed
  nextSequence,   \* Journal::next_sequence
  acked,          \* events whose append returned Ok
  id              \* events so far; each has a number of its own

vars == <<exists, file, durable, state, nextSequence, acked, id>>

Forms == {"line", "bare", "part"}
TypeOK ==
  /\ exists \in BOOLEAN
  /\ file \in Seq([id : 1..MaxEvents, sequence : Nat, form : Forms])
  /\ durable \in 0..Len(file)
  /\ state \in {"closed", "open", "writing", "failed"}
  /\ nextSequence \in Nat
  /\ acked \subseteq 1..MaxEvents
  /\ id \in 0..MaxEvents

Init ==
  /\ exists = FALSE /\ file = <<>> /\ durable = 0 /\ state = "closed"
  /\ nextSequence = 1 /\ acked = {} /\ id = 0

-----------------------------------------------------------------------------
(* load_events.                                                             *)

StartsLine(f, i) == i = 1 \/ f[i - 1].form = "line"

(* The line that starts with write i is one record, with or without its     *)
(* newline.                                                                 *)
Parses(f, i) ==
  /\ f[i].form \in {"line", "bare"}
  /\ f[i].form = "line" \/ i = Len(f)

LastLine(f) == CHOOSE i \in DOMAIN f : StartsLine(f, i) /\ \A k \in DOMAIN f : k > i => ~StartsLine(f, k)

(* One unparsable last line is cut off; any other is an error.              *)
Corrupted(f) == \E i \in DOMAIN f : StartsLine(f, i) /\ ~Parses(f, i) /\ i # LastLine(f)

(* A bug: the partial line stays.                                           *)
RecoveredKeepsPart(f) == f

Recovered(f) == IF f = <<>> \/ Parses(f, LastLine(f)) THEN f ELSE SubSeq(f, 1, LastLine(f) - 1)
Monotonic(f) == \A i \in 1..(Len(f) - 1) : f[i].sequence < f[i + 1].sequence

Loads(f) == ~Corrupted(f) /\ Monotonic(Recovered(f))

-----------------------------------------------------------------------------
CreateNew ==
  /\ ~exists
  /\ exists' = TRUE
  /\ state' = "open"
  /\ nextSequence' = 1
  /\ UNCHANGED <<file, durable, acked, id>>

(* A bug: the next number is taken from the last index.                     *)
OpenExistingAtLastIndex ==
  /\ exists /\ state = "closed" /\ ~Corrupted(file)
  /\ file' = Recovered(file)
  /\ durable' = IF durable > Len(file') THEN Len(file') ELSE durable
  /\ nextSequence' = Len(file') - 1
  /\ state' = "open"
  /\ UNCHANGED <<exists, acked, id>>

(* The torn line is cut off before the sequence numbers are looked at.      *)
OpenExisting ==
  /\ exists /\ state = "closed" /\ ~Corrupted(file)
  /\ LET f == Recovered(file)
     IN  /\ file' = f
         /\ durable' = IF durable > Len(f) THEN Len(f) ELSE durable
         /\ IF Monotonic(f)
            THEN /\ nextSequence' = IF f = <<>> THEN 1 ELSE f[Len(f)].sequence + 1
                 /\ state' = "open"
            ELSE UNCHANGED <<nextSequence, state>>
  /\ UNCHANGED <<exists, acked, id>>

(* What a write that stopped early leaves of a line.                        *)
Cuts == {"part"} \cup IF CutBeforeNewline THEN {"bare"} ELSE {}

Record(form) == [id |-> id + 1, sequence |-> nextSequence, form |-> form]

(* append_event: the write ...                                              *)
Write ==
  /\ state = "open" /\ id < MaxEvents
  /\ id' = id + 1
  /\ file' = Append(file, Record("line"))
  /\ state' = "writing"
  /\ UNCHANGED <<exists, durable, nextSequence, acked>>

(* ... and the fsync, after which the append returns.                       *)
Sync ==
  /\ state = "writing"
  /\ durable' = Len(file)
  /\ nextSequence' = nextSequence + 1
  /\ acked' = acked \cup {id}
  /\ state' = "open"
  /\ UNCHANGED <<exists, file, id>>

(* write_all fails before or halfway through the line (the disk is full).   *)
WriteFails ==
  /\ state = "open" /\ id < MaxEvents
  /\ id' = id + 1
  /\ \/ UNCHANGED file
     \/ \E form \in Cuts : file' = Append(file, Record(form))
  /\ state' = "failed"
  /\ UNCHANGED <<exists, durable, nextSequence, acked>>

(* A bug: the error of sync_data is ignored.                                *)
SyncFailsIgnored ==
  /\ SyncErrors
  /\ state = "writing"
  /\ nextSequence' = nextSequence + 1
  /\ acked' = acked \cup {id}
  /\ state' = "open"
  /\ UNCHANGED <<exists, file, durable, id>>

(* sync_data fails after the line was written.                              *)
SyncFails ==
  /\ SyncErrors
  /\ state = "writing"
  /\ state' = "failed"
  /\ UNCHANGED <<exists, file, durable, nextSequence, acked, id>>

(* After an error the command still appends a RunInterrupted; its own error *)
(* is ignored, and the command ends.                                        *)
AppendRunInterrupted ==
  /\ state = "failed" /\ id < MaxEvents
  /\ id' = id + 1
  /\ \E form \in {"line"} \cup Cuts : file' = Append(file, Record(form))
  /\ durable' \in {durable, Len(file')}
  /\ state' = "closed"
  /\ UNCHANGED <<exists, nextSequence, acked>>

(* The process ends.                                                        *)
Close ==
  /\ state \in {"open", "failed"}
  /\ state' = "closed"
  /\ UNCHANGED <<exists, file, durable, nextSequence, acked, id>>

(* The machine stops: of what was not fsynced a prefix survives.            *)
Crash ==
  /\ exists
  /\ \E n \in durable..Len(file) :
       \/ file' = SubSeq(file, 1, n)
       \/ /\ n > durable
          /\ \E form \in IF file[n].form = "part" THEN {"part"} ELSE Cuts :
               file' = [SubSeq(file, 1, n) EXCEPT ![n].form = form]
  /\ state' = "closed"
  /\ UNCHANGED <<exists, durable, nextSequence, acked, id>>

Next ==
  \/ CreateNew \/ OpenExisting \/ Write \/ Sync \/ WriteFails \/ SyncFails
  \/ AppendRunInterrupted \/ Close \/ Crash

Spec == Init /\ [][Next]_vars

-----------------------------------------------------------------------------
(* Every event whose append returned is among the events a restart loads:   *)
(* a chunk_signed record that allowed a broadcast is never lost.            *)
AckedSurvives ==
  state = "closed" /\ Loads(file) => \A e \in acked : \E w \in Range(Recovered(file)) : w.id = e

(* An interrupted write never merges with a later event: in a journal that  *)
(* only this code wrote, no line but the last fails to parse.               *)
OnlyLastLineIsTorn == state = "closed" => ~Corrupted(file)

(* A journal that only this code wrote can be opened again, so that its run *)
(* can be resumed.                                                          *)
LoadsAgain == state = "closed" => Loads(file)
=============================================================================
