---------------------------- MODULE EvidenceStore ---------------------------
(***************************************************************************)
(* The evidence store of the build harness: artifacts written with a temp  *)
(* file and a rename, and an event log written by appending lines.  Its    *)
(* callers are processes of their own (command-line calls, agents), so     *)
(* several may write at once, die half-way, or lose power.                 *)
(*                                                                         *)
(* One artifact name and one log stand for all: names share nothing.  A    *)
(* file is what the kernel shows; files_on_disk are the files a power loss *)
(* may bring back under the name, since the directory is never synced.     *)
(***************************************************************************)
EXTENDS Integers, Sequences, FiniteSets

CONSTANTS
    Writer,        \* concurrent calls of save_* or append_event
    Content,       \* what a caller may want to save
    Absent,        \* no file under the name
    Torn           \* a file whose bytes did not reach the disk

VARIABLES
    saving,          \* per writer: step of _write_atomic
    wanted,          \* per writer: the content it saves
    artifact,        \* the file under the artifact's name
    files_on_disk,   \* what a power loss may leave under that name
    overtaken,       \* history: writers that looked before another one's file appeared
    appending,       \* per writer: step of append_event
    log,             \* the event log: fragments <<writer, "head" | "tail">>
    synced_length    \* length of the log that is on disk

storeVars == <<saving, wanted, artifact, files_on_disk, overtaken,
               appending, log, synced_length>>

\* A line of the log, and where the reader splits it.
Fragment == Writer \X {"head", "tail"}

file(content, synced) == [content |-> content, synced |-> synced]
StoredFile == [content : Content, synced : BOOLEAN]

\* The marks are no files.
ASSUME MarksAssumption == Absent \notin StoredFile /\ Torn \notin StoredFile \cup {Absent}

StoreTypeOK ==
    /\ saving \in [Writer -> {"idle", "looked", "written", "synced", "saved", "conflict", "failed", "dead"}]
    /\ wanted \in [Writer -> Content \cup {Absent}]
    /\ artifact \in StoredFile \cup {Absent, Torn}
    /\ files_on_disk \subseteq StoredFile \cup {Absent, Torn}
    /\ appending \in [Writer -> {"idle", "opened", "partial", "complete", "logged", "dead"}]
    /\ log \in Seq(Fragment)
    /\ synced_length \in 0..Len(log)

StoreInit ==
    /\ saving = [w \in Writer |-> "idle"]
    /\ wanted = [w \in Writer |-> Absent]
    /\ artifact = Absent
    /\ files_on_disk = {Absent}
    /\ overtaken = {}
    /\ appending = [w \in Writer |-> "idle"]
    /\ log = <<>>
    /\ synced_length = 0

LogUnchanged == UNCHANGED <<appending, log, synced_length>>
ArtifactUnchanged == UNCHANGED <<saving, wanted, artifact, files_on_disk, overtaken>>

-----------------------------------------------------------------------------
(* save_contract, save_prompt, save_report, save_gate_result *)

\* Mutant: an artifact with other content does not stop the save.
Look_Overwrites(w, c) ==
    /\ saving[w] = "idle"
    /\ wanted' = [wanted EXCEPT ![w] = c]
    /\ saving' = [saving EXCEPT ![w] = "looked"]
    /\ UNCHANGED <<artifact, files_on_disk, overtaken>>
    /\ LogUnchanged

\* The target is looked at: identical bytes are a no-op, others a conflict.
Look(w, c) ==
    /\ saving[w] = "idle"
    /\ wanted' = [wanted EXCEPT ![w] = c]
    /\ saving' = [saving EXCEPT ![w] =
          IF artifact = Absent THEN "looked"
          ELSE IF artifact # Torn /\ artifact.content = c THEN "saved" ELSE "conflict"]
    /\ UNCHANGED <<artifact, files_on_disk, overtaken>>
    /\ LogUnchanged

WriteTempFile(w) ==
    /\ saving[w] = "looked"
    /\ saving' = [saving EXCEPT ![w] = "written"]
    /\ UNCHANGED <<wanted, artifact, files_on_disk, overtaken>>
    /\ LogUnchanged

FsyncTempFile(w) ==
    /\ saving[w] = "written"
    /\ saving' = [saving EXCEPT ![w] = "synced"]
    /\ UNCHANGED <<wanted, artifact, files_on_disk, overtaken>>
    /\ LogUnchanged

\* Mutant: the rename does not wait for the sync.
ReplaceTarget_Unsynced(w) ==
    /\ saving[w] \in {"written", "synced"}
    /\ saving' = [saving EXCEPT ![w] = "saved"]
    /\ artifact' = file(wanted[w], saving[w] = "synced")
    /\ files_on_disk' = files_on_disk \cup {artifact'}
    /\ overtaken' = overtaken \cup
          {v \in Writer \ {w} : saving[v] \in {"looked", "written", "synced"}}
    /\ UNCHANGED wanted
    /\ LogUnchanged

\* os.replace: whatever is under the name by now is gone.
ReplaceTarget(w) ==
    /\ saving[w] = "synced"
    /\ saving' = [saving EXCEPT ![w] = "saved"]
    /\ artifact' = file(wanted[w], TRUE)
    /\ files_on_disk' = files_on_disk \cup {artifact'}
    /\ overtaken' = overtaken \cup
          {v \in Writer \ {w} : saving[v] \in {"looked", "written", "synced"}}
    /\ UNCHANGED wanted
    /\ LogUnchanged

\* An error on the way: the temp file is removed, the target was not touched.
SaveFails(w) ==
    /\ saving[w] \in {"looked", "written", "synced"}
    /\ saving' = [saving EXCEPT ![w] = "failed"]
    /\ UNCHANGED <<wanted, artifact, files_on_disk, overtaken>>
    /\ LogUnchanged

-----------------------------------------------------------------------------
(* append_event and load_task_summary *)

OpenLog(w) ==
    /\ appending[w] = "idle"
    /\ appending' = [appending EXCEPT ![w] = "opened"]
    /\ UNCHANGED <<log, synced_length>>
    /\ ArtifactUnchanged

\* The buffer is flushed in one write or, when the line is longer, in several.
FlushLine(w, whole) ==
    /\ \/ appending[w] = "opened" /\ whole
          /\ log' = log \o <<<<w, "head">>, <<w, "tail">>>>
       \/ appending[w] = "opened" /\ ~whole
          /\ log' = Append(log, <<w, "head">>)
       \/ appending[w] = "partial" /\ whole
          /\ log' = Append(log, <<w, "tail">>)
    /\ appending' = [appending EXCEPT ![w] = IF whole THEN "complete" ELSE "partial"]
    /\ UNCHANGED synced_length
    /\ ArtifactUnchanged

\* Mutant: the line is flushed and not synced.
FsyncLog_FlushOnly(w) ==
    /\ appending[w] = "complete"
    /\ appending' = [appending EXCEPT ![w] = "logged"]
    /\ UNCHANGED <<log, synced_length>>
    /\ ArtifactUnchanged

FsyncLog(w) ==
    /\ appending[w] = "complete"
    /\ appending' = [appending EXCEPT ![w] = "logged"]
    /\ synced_length' = Len(log)
    /\ UNCHANGED log
    /\ ArtifactUnchanged

\* Position i of a log starts a line: it is the first, or a line ended before.
StartsLine(i) == i = 1 \/ log[i - 1][2] = "tail"

\* Every line is one event: its head directly followed by its own tail.
Readable ==
    \A i \in DOMAIN log :
        StartsLine(i) =>
            /\ log[i][2] = "head"
            /\ i < Len(log) /\ log[i + 1] = <<log[i][1], "tail">>

\* What load_task_summary returns; it raises when the log is not readable.
events == {log[i][1] : i \in {i \in DOMAIN log : StartsLine(i)}}

-----------------------------------------------------------------------------
Die(w) ==
    /\ saving' = [saving EXCEPT ![w] =
          IF @ \in {"looked", "written", "synced"} THEN "dead" ELSE @]
    /\ appending' = [appending EXCEPT ![w] =
          IF @ \in {"opened", "partial", "complete"} THEN "dead" ELSE @]
    /\ <<saving', appending'>> # <<saving, appending>>
    /\ UNCHANGED <<wanted, artifact, files_on_disk, overtaken, log, synced_length>>

\* All writers die; a file that was not synced comes back torn; of the log at
\* least what was synced remains.
PowerLoss ==
    /\ saving' = [w \in Writer |->
          IF saving[w] \in {"looked", "written", "synced"} THEN "dead" ELSE saving[w]]
    /\ appending' = [w \in Writer |->
          IF appending[w] \in {"opened", "partial", "complete"} THEN "dead" ELSE appending[w]]
    /\ \E f \in files_on_disk :
          artifact' = IF f \in {Absent, Torn} THEN f ELSE IF f.synced THEN f ELSE Torn
    /\ files_on_disk' = {artifact'}
    /\ \E n \in synced_length..Len(log) :
          /\ log' = SubSeq(log, 1, n)
          /\ synced_length' = n
    /\ UNCHANGED <<wanted, overtaken>>

StoreNext ==
    \/ \E w \in Writer, c \in Content : Look(w, c)
    \/ \E w \in Writer :
          \/ WriteTempFile(w) \/ FsyncTempFile(w) \/ ReplaceTarget(w) \/ SaveFails(w)
          \/ OpenLog(w) \/ FsyncLog(w) \/ Die(w)
    \/ \E w \in Writer, whole \in BOOLEAN : FlushLine(w, whole)
    \/ PowerLoss

StoreSpec == StoreInit /\ [][StoreNext]_storeVars

-----------------------------------------------------------------------------
(* Properties *)

(* Whatever happens to the writers and the machine, a reader of an artifact *)
(* finds nothing or the whole content of a save that was begun.             *)
ArtifactIsWhole ==
    artifact # Absent => artifact # Torn /\ \E w \in Writer : artifact.content = wanted[w]

(* A save that succeeded is only ever replaced by a writer that looked      *)
(* before the saved file was there: with one writer at a time evidence is   *)
(* never overwritten, a second one can slip in between look and rename.     *)
OverwriteNeedsRace ==
    [][\A w \in Writer :
          /\ artifact # Absent /\ artifact' # Absent
          /\ artifact'.content # artifact.content
          /\ saving[w] # "saved" /\ saving'[w] = "saved"
          => w \in overtaken]_storeVars

(* An event whose append returned is read back, or the reader refuses the   *)
(* whole log; it never returns a list with a recorded event missing, also   *)
(* after torn lines, interleaved lines and a power loss.                    *)
LoggedEventsAreRead ==
    Readable => \A w \in Writer : appending[w] = "logged" => w \in events
=============================================================================
