----------------------------- MODULE SessionFile ----------------------------
(***************************************************************************)
(* FileSessionStore: a session document is written to a temporary file,    *)
(* synced, and renamed over the session's file.  Any step may fail, the    *)
(* process may die between any two, and a power loss undoes what was not   *)
(* synced.  A document is the clock readings of its turns; the serializer  *)
(* refuses one whose readings are out of order.                            *)
(*                                                                         *)
(* The store has one writer (its class comment): one session, one process  *)
(* at a time.  notice and synced are history variables.                    *)
(***************************************************************************)
EXTENDS Integers, Sequences

CONSTANTS
    Time,        \* the readings of the wall clock, which may step back
    NoFile,      \* there is no such file
    Torn,        \* bytes that are no whole document
    MaxTurns     \* bound: turns of the session

ASSUME TimeAssumption == Time \subseteq Int
ASSUME TurnsAssumption == MaxTurns \in Nat

VARIABLES
    pc,          \* "idle", a stage of save(), or "down"
    session,     \* the live SessionState
    candidate,   \* the document being saved
    temp,        \* the temporary file of this save
    target,      \* the session's file, as the kernel shows it
    disk,        \* the files a power loss may leave under the session's name
    notice,      \* the process ended with "turn was not persisted"
    synced       \* the last document whose directory entry was synced

vars == <<pc, session, candidate, temp, target, disk, notice, synced>>

Document == [created_at : Time, updated_at : Time, turns : Seq(Time)]
Contents == Document \cup {Torn}
File == [contents : Contents, durable : BOOLEAN]

ASSUME MarksAssumption == NoFile \notin File \cup Document /\ Torn \notin Document

(* main.py creates the session that a process without --session-id runs.   *)
Init ==
    /\ pc = "idle"
    /\ \E now \in Time :
          session = [created_at |-> now, updated_at |-> now, turns |-> <<>>]
    /\ candidate = session
    /\ temp = NoFile /\ target = NoFile /\ disk = {NoFile}
    /\ notice = FALSE /\ synced = NoFile

-----------------------------------------------------------------------------
(* The serializer *)

(* Mutant: the clock of the new turn is not compared with the creation.    *)
valid_NoClockCheck(d) ==
    d.turns # <<>> => d.updated_at = d.turns[Len(d.turns)]

(* _validate_invariants, which to_dict and from_dict both apply            *)
valid(d) ==
    /\ d.updated_at >= d.created_at
    /\ d.turns # <<>> => d.updated_at = d.turns[Len(d.turns)]

-----------------------------------------------------------------------------
(* save() *)

(* _record_terminal_state hands a copy of the session with the new turn to *)
(* save, whose serializer may refuse it before any file is touched.        *)
BeginSave(now) ==
    /\ pc = "idle" /\ Len(session.turns) < MaxTurns
    /\ candidate' = [session EXCEPT !.turns = Append(@, now), !.updated_at = now]
    /\ IF valid(candidate')
       THEN pc' = "saving" /\ UNCHANGED notice
       ELSE pc' = "down" /\ notice' = TRUE
    /\ UNCHANGED <<session, temp, target, disk, synced>>

CreateTemp ==
    /\ pc = "saving"
    /\ pc' = "created"
    /\ temp' = [contents |-> Torn, durable |-> FALSE]
    /\ UNCHANGED <<session, candidate, target, disk, notice, synced>>

WriteTemp ==
    /\ pc = "created"
    /\ pc' = "written"
    /\ temp' = [contents |-> candidate, durable |-> FALSE]
    /\ UNCHANGED <<session, candidate, target, disk, notice, synced>>

(* Mutant: the temporary file is flushed but not synced.                   *)
FsyncTemp_FlushOnly ==
    /\ pc = "written"
    /\ pc' = "synced"
    /\ UNCHANGED <<session, candidate, temp, target, disk, notice, synced>>

FsyncTemp ==
    /\ pc = "written"
    /\ pc' = "synced"
    /\ temp' = [temp EXCEPT !.durable = TRUE]
    /\ UNCHANGED <<session, candidate, target, disk, notice, synced>>

(* Mutant: the rename happens on the way in, before the data is there.     *)
Replace_Early ==
    /\ pc \in {"created", "synced"}
    /\ pc' = "replaced"
    /\ target' = temp /\ temp' = NoFile
    /\ disk' = disk \cup {temp}
    /\ UNCHANGED <<session, candidate, notice, synced>>

(* The commit: os.replace.  The new entry reaches the disk now or later.   *)
Replace ==
    /\ pc = "synced"
    /\ pc' = "replaced"
    /\ target' = temp /\ temp' = NoFile
    /\ disk' = disk \cup {temp}
    /\ UNCHANGED <<session, candidate, notice, synced>>

(* Mutant: a failed sync of the directory is raised to the caller.         *)
FsyncParent_Raises(ok) ==
    /\ pc = "replaced"
    /\ IF ok
       THEN pc' = "saved" /\ disk' = {target} /\ synced' = target.contents
                /\ UNCHANGED notice
       ELSE pc' = "down" /\ notice' = TRUE /\ UNCHANGED <<disk, synced>>
    /\ UNCHANGED <<session, candidate, temp, target>>

(* The clean-up finds no temporary file any more; then the directory is    *)
(* synced, and a failure to do so is only logged.                          *)
FsyncParent(ok) ==
    /\ pc = "replaced"
    /\ pc' = "saved"
    /\ IF ok
       THEN disk' = {target} /\ synced' = target.contents
       ELSE UNCHANGED <<disk, synced>>
    /\ UNCHANGED <<session, candidate, temp, target, notice>>

(* Mutant: the turn is dropped from the live session.                      *)
AppendTurn_Forgets ==
    /\ pc = "saved"
    /\ pc' = "idle"
    /\ UNCHANGED <<session, candidate, temp, target, disk, notice, synced>>

(* append_turn, only after save returned                                   *)
AppendTurn ==
    /\ pc = "saved"
    /\ pc' = "idle"
    /\ session' = candidate
    /\ UNCHANGED <<candidate, temp, target, disk, notice, synced>>

(* An OSError before the commit: the finally clause removes the temporary  *)
(* file if it can, the error reaches main, and the process ends.           *)
SaveRaises(unlinked) ==
    /\ pc \in {"saving", "created", "written", "synced"}
    /\ pc' = "down" /\ notice' = TRUE
    /\ temp' = IF unlinked THEN NoFile ELSE temp
    /\ UNCHANGED <<session, candidate, target, disk, synced>>

-----------------------------------------------------------------------------
(* The end of a process, and load() *)

(* The process ends between turns, is interrupted, or is killed; a         *)
(* temporary file it leaves has a name of its own that nothing reads.      *)
Stop ==
    /\ pc # "down"
    /\ pc' = "down"
    /\ temp' \in {temp, NoFile}
    /\ UNCHANGED <<session, candidate, target, disk, notice, synced>>

(* A file that was not synced comes back whole or torn.                    *)
AfterPowerLoss(f) ==
    IF f = NoFile \/ f.durable THEN {f}
    ELSE {[f EXCEPT !.contents = c, !.durable = TRUE] : c \in {f.contents, Torn}}

PowerLoss ==
    /\ \E f \in disk : target' \in AfterPowerLoss(f)
    /\ disk' = {target'}
    /\ pc' = "down"
    /\ temp' = NoFile
    /\ UNCHANGED <<session, candidate, notice, synced>>

(* load: no file is SessionNotFoundError, a torn or invalid one is         *)
(* SessionDataCorruptionError; either ends the process again.              *)
Restart ==
    /\ pc = "down" /\ target # NoFile
    /\ target.contents # Torn /\ valid(target.contents)
    /\ pc' = "idle"
    /\ session' = target.contents /\ candidate' = target.contents
    /\ temp' = NoFile /\ notice' = FALSE
    /\ UNCHANGED <<target, disk, synced>>

-----------------------------------------------------------------------------
Saving ==
    \/ \E now \in Time : BeginSave(now)
    \/ CreateTemp \/ WriteTemp \/ FsyncTemp \/ Replace
    \/ \E ok \in BOOLEAN : FsyncParent(ok) \/ SaveRaises(ok)
    \/ AppendTurn

Next == Saving \/ Stop \/ PowerLoss \/ Restart

Spec == Init /\ [][Next]_vars

-----------------------------------------------------------------------------
(* Properties *)

(* Every document in memory satisfies what from_dict will ask of it.       *)
Sound(d) ==
    /\ d \in Document
    /\ d.updated_at >= d.created_at
    /\ d.turns # <<>> => d.updated_at = d.turns[Len(d.turns)]

TypeOK ==
    /\ pc \in {"idle", "saving", "created", "written", "synced", "replaced",
               "saved", "down"}
    /\ Sound(session) /\ candidate \in Document
    /\ temp \in File \cup {NoFile} /\ target \in File \cup {NoFile}
    /\ disk \subseteq File \cup {NoFile}
    /\ notice \in BOOLEAN /\ synced \in Document \cup {NoFile}

(* Whatever was interrupted, and whenever the power went, a session file   *)
(* that exists can be loaded again.                                        *)
AlwaysLoadable ==
    target # NoFile => target.contents # Torn /\ Sound(target.contents)

(* main.py tells the user "turn was not persisted" only of a turn that the *)
(* session file does not hold.                                             *)
NotPersistedTrue ==
    notice => target = NoFile \/ target.contents # candidate

(* d has every turn of e, in order.                                        *)
Extends(d, e) ==
    /\ Len(e.turns) <= Len(d.turns)
    /\ \A i \in 1..Len(e.turns) : d.turns[i] = e.turns[i]

(* No turn of a document whose save was fully synced is ever missing from  *)
(* the file, across failed saves, restarts and power losses.               *)
SyncedTurnsStay ==
    synced # NoFile => target # NoFile /\ Extends(target.contents, synced)

(* The file protocol implements the register the session runtime assumes.  *)
Visible(f) == IF f = NoFile THEN NoFile ELSE f.contents

Register == INSTANCE SessionStore
                WITH stored <- Visible(target), possible <- {Visible(f) : f \in disk}

ImplementsRegister == Register!Spec
=============================================================================
