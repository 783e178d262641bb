--------------------------- MODULE SessionRuntime ---------------------------
(***************************************************************************)
(* The multi-turn session of the command line: SessionRuntime.handle_turn  *)
(* as a chain of handlers over session-local pending state, each turn      *)
(* persisted before it is appended to the live session, and the process    *)
(* that main.py starts, resumes and ends.                                  *)
(*                                                                         *)
(* A user message is represented by its class: one representative per      *)
(* distinct answer of the detectors the chain consults, in the order it    *)
(* consults them.  The agent behind the chain is RuntimeAgent; here a run  *)
(* of it is its terminal status.                                           *)
(*                                                                         *)
(* log and shown are history variables: the turns handled, each with its   *)
(* process and its handler, and the answers printed.                       *)
(***************************************************************************)
EXTENDS Integers, Sequences

CONSTANTS
    Input,              \* the message classes the user sends
    MaxTurns,           \* bound: turns handled in a behaviour
    MaxRuns,            \* bound: processes started for the session
    expires_after_turns \* PendingConversationState.expires_after_turns (2)

-----------------------------------------------------------------------------
(* Message classes                                                         *)

Message == {
    "confirm_delete",  \* "xac nhan xoa ky uc": the strict confirmation
    "ok",              \* "ok": confirms a pending wipe, an ack to a note prompt
    "no",              \* "khong": cancels either pending, otherwise not understood
    "delete_all",      \* "xoa het ky uc ve toi"
    "query",           \* "toi ten la gi?": a read-only profile query
    "external",        \* "gui email cho Nam": the lanes 1.45 to 1.46
    "repair",          \* "sai roi"
    "choice",          \* "quan he": an answer to the repair question
    "continuation",    \* "va ML nua"
    "skill",           \* "toi biet Python": a fact with a continuation kind
    "name",            \* "toi ten la Bac": a fact without one
    "greeting",        \* "xin chao": answered by the conversation router
    "command",         \* "tinh 1 + 1": a complete intent, run by the agent
    "note"             \* "Luu ghi chu ve toi: ...": a note without its name
}

ASSUME InputAssumption == Input \subseteq Message

ASSUME BoundsAssumption ==
    MaxTurns \in Nat /\ MaxRuns \in Nat \ {0} /\ expires_after_turns \in Nat \ {0}

detect_delete_all_confirmation == {"confirm_delete"}
detect_delete_all_confirmation_pending == {"confirm_delete", "ok"}
RE_DELETE_CANCEL == {"no"}
PENDING_CANCEL == {"no"}
PENDING_AMBIGUOUS_ACK == {"ok"}
CONV_DIRECT_ROUTES == {"ok", "greeting"}

(* What the store may hold about the user, and what a turn may write.      *)
Fact == {"skill", "name", "continuation"}

Marker == {
    "memory_deleted_all", "memory_delete_cancelled",
    "memory_query_while_delete_pending", "external_action",
    "memory_delete_confirm", "memory_delete_no_pending",
    "repair_choice_clarify", "repair_clarify",
    "continuation_no_context", "continuation_saved",
    "pending_note_cancelled", "pending_note_reprompt",
    "pending_note_name_resolved", "profile_query_answered", "fact_saved",
    "direct", "run", "note_clarified", "dedicated" }

AgentStatus == {"COMPLETED", "FAILED"}
TurnRecord == [task_id : Nat, status : AgentStatus, answered : BOOLEAN]
Turn == [run : Nat, marker : Marker]

NoNote == -1   \* no pending note-name question

-----------------------------------------------------------------------------
VARIABLES
    pc, run,                      \* where the process is; how often it started
    pending_delete_all, pending_repair_choice,
    pending_note,                 \* created_at_turn, or NoNote
    last_memory_write_kind, confirmed_profile_fact_count,
    facts, notes,                 \* the in-memory store
    turns,                        \* SessionState.turns
    state,                        \* the terminal state being recorded
    disk,                         \* the turns of the session file
    log, shown

pendings == <<pending_delete_all, pending_repair_choice, pending_note>>
store == <<facts, notes, last_memory_write_kind, confirmed_profile_fact_count>>
vars == <<pc, run, pendings, store, turns, state, disk, log, shown>>

NoState == [task_id |-> 0, status |-> "FAILED", captures |-> FALSE]

Init ==
    /\ pc = "idle" /\ run = 1
    /\ pending_delete_all = FALSE /\ pending_repair_choice = FALSE
    /\ pending_note = NoNote
    /\ last_memory_write_kind = "none" /\ confirmed_profile_fact_count = 0
    /\ facts = {} /\ notes = {}
    /\ turns = <<>> /\ disk = <<>> /\ state = NoState
    /\ log = <<>> /\ shown = {}

-----------------------------------------------------------------------------
(* Which handler takes a message                                           *)

(* Mutant: one turn too late.                                              *)
note_expired_Late == Len(turns) - pending_note > expires_after_turns

note_expired == Len(turns) - pending_note >= expires_after_turns

(* The lanes after the pending-note question: profile query, fact writers, *)
(* conversation router, agent.                                             *)
normal_lane(m) ==
    IF m = "query" THEN "profile_query_answered"
    ELSE IF m \in {"skill", "name"} THEN "fact_saved"
    ELSE IF m \in CONV_DIRECT_ROUTES THEN "direct"
    ELSE IF m = "note" THEN "note_clarified"
    ELSE "run"

(* _try_handle_pending; falling through to the normal lanes clears the     *)
(* question.                                                               *)
note_lane(m) ==
    IF m \in PENDING_CANCEL THEN "pending_note_cancelled"
    ELSE IF m \in PENDING_AMBIGUOUS_ACK THEN "pending_note_reprompt"
    ELSE IF m \in CONV_DIRECT_ROUTES \cup {"command", "query"} THEN normal_lane(m)
    ELSE IF note_expired THEN normal_lane(m)
    ELSE "pending_note_name_resolved"

(* The chain of _handle_turn_impl, first match first.                      *)
lane(m) ==
    IF pending_delete_all /\ m \in detect_delete_all_confirmation_pending
        THEN "memory_deleted_all"
    ELSE IF pending_delete_all /\ m \in RE_DELETE_CANCEL
        THEN "memory_delete_cancelled"
    ELSE IF pending_delete_all /\ m = "query"
        THEN "memory_query_while_delete_pending"
    ELSE IF m = "external" THEN "external_action"
    ELSE IF m = "delete_all" THEN "memory_delete_confirm"
    ELSE IF m \in detect_delete_all_confirmation THEN "memory_delete_no_pending"
    ELSE IF pending_repair_choice /\ m = "choice" THEN "repair_choice_clarify"
    ELSE IF m = "repair" THEN "repair_clarify"
    ELSE IF m = "continuation"
        THEN IF last_memory_write_kind = "none" THEN "continuation_no_context"
             ELSE "continuation_saved"
    ELSE IF pending_note # NoNote THEN note_lane(m)
    ELSE normal_lane(m)

-----------------------------------------------------------------------------
(* The turn.  A handler changes the pending state and the store and ends   *)
(* in a terminal state, which is then saved, appended and printed.         *)

Handled(marker, status) ==
    /\ pc = "idle" /\ Len(log) < MaxTurns
    /\ pc' = "recording"
    /\ log' = Append(log, [run |-> run, marker |-> marker])
    /\ state' = [task_id |-> Len(log) + 1, status |-> status,
                 captures |-> marker = "note_clarified" /\ status = "COMPLETED"]
    /\ UNCHANGED <<run, turns, disk, shown>>

(* What reaching a handler further down has done on the way: a message     *)
(* that does not resolve the pending wipe drops it (_handle_delete_all_    *)
(* pending, case 4), and one that reaches the repair-choice handler        *)
(* consumes the choice.                                                    *)
(* Mutant: the wipe stays pending until it is confirmed or cancelled.      *)
PassDeletePending_Keeps == UNCHANGED pending_delete_all
PassDeletePending == pending_delete_all' = FALSE
PassRepairChoice == PassDeletePending /\ pending_repair_choice' = FALSE
PassNotePending == PassRepairChoice /\ pending_note' = NoNote

(* Mutant: the wipe keeps the continuation context.                        *)
ConfirmDelete_KeepsContext ==
    \E m \in Input :
        /\ lane(m) = "memory_deleted_all"
        /\ Handled(lane(m), "COMPLETED")
        /\ pending_delete_all' = FALSE
        /\ facts' = {} /\ confirmed_profile_fact_count' = 0
        /\ UNCHANGED <<notes, pending_repair_choice, pending_note, last_memory_write_kind>>

ConfirmDelete ==
    \E m \in Input :
        /\ lane(m) = "memory_deleted_all"
        /\ Handled(lane(m), "COMPLETED")
        /\ pending_delete_all' = FALSE
        /\ facts' = {} /\ confirmed_profile_fact_count' = 0
        /\ last_memory_write_kind' = "none"
        /\ UNCHANGED <<notes, pending_repair_choice, pending_note>>

CancelDelete ==
    \E m \in Input :
        /\ lane(m) = "memory_delete_cancelled"
        /\ Handled(lane(m), "COMPLETED")
        /\ pending_delete_all' = FALSE
        /\ UNCHANGED <<pending_repair_choice, pending_note, store>>

QueryWhileDeletePending ==
    \E m \in Input :
        /\ lane(m) = "memory_query_while_delete_pending"
        /\ Handled(lane(m), "COMPLETED")
        /\ UNCHANGED <<pendings, store>>

(* The lanes above the delete request, the request itself and the stray    *)
(* confirmation return before the repair choice is looked at.              *)
ExternalAction ==
    \E m \in Input :
        /\ lane(m) = "external_action"
        /\ Handled(lane(m), "COMPLETED")
        /\ PassDeletePending
        /\ UNCHANGED <<pending_repair_choice, pending_note, store>>

RequestDelete ==
    \E m \in Input :
        /\ lane(m) = "memory_delete_confirm"
        /\ Handled(lane(m), "COMPLETED")
        /\ pending_delete_all' = TRUE
        /\ UNCHANGED <<pending_repair_choice, pending_note, store>>

StrayDeleteConfirmation ==
    \E m \in Input :
        /\ lane(m) = "memory_delete_no_pending"
        /\ Handled(lane(m), "COMPLETED")
        /\ PassDeletePending
        /\ UNCHANGED <<pending_repair_choice, pending_note, store>>

RepairChoice ==
    \E m \in Input :
        /\ lane(m) = "repair_choice_clarify"
        /\ Handled(lane(m), "COMPLETED")
        /\ PassRepairChoice
        /\ UNCHANGED <<pending_note, store>>

Repair ==
    \E m \in Input :
        /\ lane(m) = "repair_clarify"
        /\ Handled(lane(m), "COMPLETED")
        /\ PassDeletePending
        /\ pending_repair_choice' = TRUE
        /\ UNCHANGED <<pending_note, store>>

(* A writer adds its fact and counts it; only some relations set the       *)
(* continuation kind, and no other turn resets it.                         *)
SaveFact(fact) ==
    /\ facts' = facts \cup {fact}
    /\ confirmed_profile_fact_count' = confirmed_profile_fact_count + 1
    /\ last_memory_write_kind' = IF fact = "name" THEN last_memory_write_kind ELSE "skill"
    /\ UNCHANGED notes

Continuation ==
    \E m \in Input :
        /\ lane(m) \in {"continuation_no_context", "continuation_saved"}
        /\ Handled(lane(m), "COMPLETED")
        /\ PassRepairChoice
        /\ IF lane(m) = "continuation_saved" THEN SaveFact(m) ELSE UNCHANGED store
        /\ UNCHANGED pending_note

CancelNote ==
    \E m \in Input :
        /\ lane(m) = "pending_note_cancelled"
        /\ Handled(lane(m), "COMPLETED")
        /\ PassNotePending
        /\ UNCHANGED store

RepromptNote ==
    \E m \in Input :
        /\ lane(m) = "pending_note_reprompt"
        /\ Handled(lane(m), "COMPLETED")
        /\ PassRepairChoice
        /\ UNCHANGED <<pending_note, store>>

(* _resume_write_note: the message is the name, the content was kept; the  *)
(* note goes to the session's own store whatever the backend.  A write     *)
(* that raises is answered with an apology.                                *)
ResumeWriteNote ==
    \E m \in Input :
        /\ lane(m) = "pending_note_name_resolved"
        /\ Handled(lane(m), "COMPLETED")
        /\ PassNotePending
        /\ notes' \in {notes, notes \cup {Len(log) + 1}}
        /\ UNCHANGED <<facts, last_memory_write_kind, confirmed_profile_fact_count>>

AnswerQuery ==
    \E m \in Input :
        /\ lane(m) = "profile_query_answered"
        /\ Handled(lane(m), "COMPLETED")
        /\ PassNotePending
        /\ UNCHANGED store

WriteFact ==
    \E m \in Input :
        /\ lane(m) = "fact_saved"
        /\ Handled(lane(m), "COMPLETED")
        /\ PassNotePending
        /\ SaveFact(m)

DirectAnswer ==
    \E m \in Input :
        /\ lane(m) = "direct"
        /\ Handled(lane(m), "COMPLETED")
        /\ PassNotePending
        /\ UNCHANGED store

(* Everything else is a run of the agent, which completes or fails; its    *)
(* own notes go through the tools of RuntimeAgent and are not tracked here.*)
RunAgent ==
    \E m \in Input, status \in AgentStatus :
        /\ lane(m) \in {"run", "note_clarified"}
        /\ Handled(lane(m), status)
        /\ PassNotePending
        /\ UNCHANGED store

(* run_confirmed_decision_save and run_memory_recall record a turn of      *)
(* their own and never look at the pending state.                          *)
DedicatedRun ==
    \E status \in AgentStatus :
        /\ Handled("dedicated", status)
        /\ UNCHANGED <<pendings, store>>

-----------------------------------------------------------------------------
(* _record_terminal_state: the candidate is the live session plus this     *)
(* record; an answer of a failed run is masked.                            *)
record == [task_id |-> state.task_id, status |-> state.status,
           answered |-> state.status = "COMPLETED"]

(* Mutant: the live session is appended first and is what gets saved.      *)
Save_MutatesFirst ==
    /\ pc = "recording"
    /\ turns' = Append(turns, record)
    /\ pc' = "saved"
    /\ UNCHANGED <<run, pendings, store, state, disk, log, shown>>

Save ==
    /\ pc = "recording"
    /\ disk' = Append(turns, record)
    /\ pc' = "saved"
    /\ UNCHANGED <<run, pendings, store, turns, state, log, shown>>

(* append_turn, then _maybe_capture_pending with the new turn count, then  *)
(* handle_turn returns and the answer is printed.                          *)
AppendTurn ==
    /\ pc = "saved"
    /\ turns' = Append(turns, record)
    /\ pending_note' = IF state.captures THEN Len(turns) + 1 ELSE pending_note
    /\ shown' = shown \cup {state.task_id}
    /\ pc' = "idle"
    /\ UNCHANGED <<run, pending_delete_all, pending_repair_choice, store,
                   state, disk, log>>

(* The process ends, by /exit or by a crash at any point of a turn; also   *)
(* when save() raises before its commit, where main says that the turn was *)
(* not persisted and exits.  The pending state and the in-memory store go  *)
(* with it.                                                                *)
Stop ==
    /\ pc # "down"
    /\ pc' = "down"
    /\ pending_delete_all' = FALSE /\ pending_repair_choice' = FALSE
    /\ pending_note' = NoNote
    /\ last_memory_write_kind' = "none" /\ confirmed_profile_fact_count' = 0
    /\ facts' = {} /\ notes' = {}
    /\ turns' = <<>> /\ state' = NoState
    /\ UNCHANGED <<run, disk, log, shown>>

(* main --session-id: a SessionRuntime with fresh pending state over the   *)
(* session loaded from its file.                                           *)
Restart ==
    /\ pc = "down" /\ run < MaxRuns
    /\ pc' = "idle" /\ run' = run + 1
    /\ turns' = disk
    /\ UNCHANGED <<pendings, store, state, disk, log, shown>>

HandleTurn ==
    \/ ConfirmDelete \/ CancelDelete \/ QueryWhileDeletePending
    \/ ExternalAction \/ RequestDelete \/ StrayDeleteConfirmation
    \/ RepairChoice \/ Repair \/ Continuation
    \/ CancelNote \/ RepromptNote \/ ResumeWriteNote
    \/ AnswerQuery \/ WriteFact \/ DirectAnswer \/ RunAgent \/ DedicatedRun

Next ==
    \/ HandleTurn
    \/ Save \/ AppendTurn
    \/ Stop \/ Restart

Spec == Init /\ [][Next]_vars

-----------------------------------------------------------------------------
(* Properties *)

TypeOK ==
    /\ pc \in {"idle", "recording", "saved", "down"} /\ run \in Nat
    /\ pending_delete_all \in BOOLEAN /\ pending_repair_choice \in BOOLEAN
    /\ pending_note \in Nat \cup {NoNote}
    /\ last_memory_write_kind \in {"none", "skill"}
    /\ confirmed_profile_fact_count \in Nat
    /\ facts \subseteq Fact /\ notes \subseteq Nat
    /\ turns \in Seq(TurnRecord) /\ disk \in Seq(TurnRecord)
    /\ state \in [task_id : Nat, status : AgentStatus, captures : BOOLEAN]
    /\ log \in Seq(Turn) /\ shown \subseteq Nat

(* Turn i of the log was handled by the same process as turn j.            *)
SameRun(i, j) == log[i].run = log[j].run

(* A wipe of the user's memory answers a wipe request of the same process, *)
(* and only read-only queries and the dedicated commands came between: a   *)
(* change of subject, a cancel or a restart always disarms the request     *)
(* (_handle_delete_all_pending).                                           *)
WipeIsConfirmed ==
    \A i \in DOMAIN log :
        log[i].marker = "memory_deleted_all" =>
            \E j \in 1..(i - 1) :
                /\ log[j].marker = "memory_delete_confirm" /\ SameRun(i, j)
                /\ \A k \in (j + 1)..(i - 1) :
                      log[k].marker \in {"memory_query_while_delete_pending", "dedicated"}

(* A note is written under the user's words only as the answer to a name   *)
(* question asked at most expires_after_turns turns before, by the same    *)
(* process, with no other question answered or cancelled since             *)
(* (_try_handle_pending).                                                  *)
NoteAnswersFreshQuestion ==
    \A i \in DOMAIN log :
        log[i].marker = "pending_note_name_resolved" =>
            \E j \in 1..(i - 1) :
                /\ log[j].marker = "note_clarified" /\ SameRun(i, j)
                /\ i - j <= expires_after_turns
                /\ \A k \in (j + 1)..(i - 1) :
                      log[k].marker \notin {"pending_note_name_resolved",
                                            "pending_note_cancelled"}

(* A continuation is saved only when a fact was told to this process and   *)
(* the memory was not wiped after it (_handle_delete_all_pending resets    *)
(* the continuation context).                                              *)
ContinuationHasFact ==
    \A i \in DOMAIN log :
        log[i].marker = "continuation_saved" =>
            \E j \in 1..(i - 1) :
                /\ log[j].marker = "fact_saved" /\ SameRun(i, j)
                /\ \A k \in (j + 1)..(i - 1) : log[k].marker # "memory_deleted_all"

(* The fact counter, whose change a turn's trace reports as memory_diff,   *)
(* is positive whenever the store holds a fact: no wipe resets it without  *)
(* removing the facts, no writer stores one without counting it.           *)
FactsCounted == facts # {} => confirmed_profile_fact_count > 0

(* The live session is the file, or one turn behind it between the save    *)
(* and the append: never ahead of what is durable (persist before mutate). *)
LiveSessionDurable ==
    pc # "down" =>
        disk = IF pc = "saved" THEN Append(turns, record) ELSE turns

(* Every answer the user saw, in every process, is on disk (handle_turn    *)
(* persists before it returns).                                            *)
ShownIsDurable == shown \subseteq {disk[i].task_id : i \in DOMAIN disk}

(* The session file only grows, by one turn at a time: no save and no      *)
(* restart loses a turn that was durable.                                  *)
HistoryAppendOnly ==
    [][\/ disk' = disk
       \/ /\ Len(disk') = Len(disk) + 1
          /\ SubSeq(disk', 1, Len(disk)) = disk]_vars
=============================================================================
