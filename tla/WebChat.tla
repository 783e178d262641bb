------------------------------- MODULE WebChat ------------------------------
(***************************************************************************)
(* The web API: one SessionManager on the event loop, one SessionRuntime   *)
(* per web session, one memory store for all of them.  A chat request is   *)
(* admitted on the loop, handled by a thread of its own (asyncio.to_thread *)
(* with no lock), and answered on the loop: two requests of one session    *)
(* run the handler chain at the same time over the same pending state.     *)
(*                                                                         *)
(* A thread's step is what it does between two accesses to shared state.   *)
(* The chain is the one of SessionRuntime, cut to the handlers that share  *)
(* state between turns: the wipe, the note-name question, and the writer   *)
(* of skills and preferences, which takes a batch of statements from one   *)
(* message and looks for records that say the opposite before each.        *)
(*                                                                         *)
(* wiped, resets and cause are history variables.                          *)
(***************************************************************************)
EXTENDS Integers, Sequences, FiniteSets

CONSTANTS
    Request,               \* the requests the clients make
    Session, Project,
    Input,                 \* the kinds of message they send
    configured_project_id, \* the remote backend's project, or NoProject
    NoProject,
    Batch,                 \* the statements one message may hold, in order
    limit,                 \* MemoryQuery.limit of the wipe (500)
    conflict_limit,        \* MemoryQuery.limit of a conflict search (200)
    expires_after_turns

Message == {"delete_all", "ok", "no", "query", "note", "fact", "reset"}
NoNote == -1

(* "toi (khong) biet X" and "toi (khong) thich X"                          *)
Statement == [value : STRING, kind : {"skill", "preference"}, negative : BOOLEAN]
opposite(st) == [st EXCEPT !.negative = ~st.negative]

(* A liking is stored as a PREFERENCE record, all else as a FACT.          *)
memory_type(st) ==
    IF st.kind = "preference" /\ ~st.negative THEN "preference" ELSE "fact"

(* What one request asks; only a fact message carries statements.          *)
Ask == [session : Session, project : Project, message : Input \ {"fact"}, batch : {<<>>}]
       \cup [session : Session, project : Project, message : Input \cap {"fact"}, batch : Batch]

ASSUME InputAssumption == Input \subseteq Message
ASSUME BatchAssumption == Batch \subseteq Seq(Statement) \ {<<>>}
ASSUME LimitAssumption ==
    limit \in Nat \ {0} /\ conflict_limit \in Nat \ {0} /\ expires_after_turns \in Nat \ {0}
ASSUME ProjectAssumption ==
    NoProject \notin Project /\ configured_project_id \in Project \cup {NoProject}

VARIABLES
    project,          \* project_id of each created web session, else NoProject
    transcript,       \* the messages of each web session
    req,              \* what each request asks; never changes
    pc,               \* where each request is
    pending_delete_all, pending_note, turns,   \* of each SessionRuntime
    keys, deleted,    \* the store's records: <<r, i>> is the i-th statement of r
    notes,            \* the requests that wrote a note, each its own
    applied,          \* the statements of its batch a request has stored
    size, found,      \* locals of a running search: dict size, result
    held,             \* local copy of the pending question
    wiped, resets, cause

loop == <<project, transcript>>
memory == <<keys, deleted, notes, applied>>
locals == <<size, found, held>>
history == <<wiped, resets, cause>>
vars == <<loop, req, pc, pending_delete_all, pending_note, turns, memory,
          locals, history>>

Init ==
    /\ project = [s \in Session |-> NoProject]
    /\ transcript = [s \in Session |-> <<>>]
    /\ req \in [Request -> Ask]
    /\ pc = [r \in Request |-> "new"]
    /\ pending_delete_all = [s \in Session |-> FALSE]
    /\ pending_note = [s \in Session |-> NoNote]
    /\ turns = [s \in Session |-> 0]
    /\ keys = {} /\ deleted = {} /\ notes = {}
    /\ applied = [r \in Request |-> 0]
    /\ size = [r \in Request |-> 0] /\ found = [r \in Request |-> {}]
    /\ held = [r \in Request |-> NoNote]
    /\ wiped = {} /\ resets = {} /\ cause = [r \in Request |-> "none"]

live == keys \ deleted
S(r) == req[r].session
M(r) == req[r].message
B(r) == req[r].batch

(* What a record says, and the statement a request is at.                  *)
Said(k) == B(k[1])[k[2]]
Current(r) == B(r)[applied[r] + 1]

Goto(r, from, to) == pc[r] = from /\ pc' = [pc EXCEPT ![r] = to]
Say(s, role, r) ==
    transcript' = [transcript EXCEPT ![s] = Append(@, [role |-> role, request |-> r])]

(* reset_memory runs on the loop without awaiting: no other request is     *)
(* admitted or answered meanwhile, but the threads go on.                  *)
LoopFree == \A r \in Request : pc[r] # "resetting"

-----------------------------------------------------------------------------
(* The event loop *)

CreateSession(s, p) ==
    /\ LoopFree /\ project[s] = NoProject
    /\ configured_project_id \in {NoProject, p}
    /\ project' = [project EXCEPT ![s] = p]
    /\ UNCHANGED <<transcript, req, pc, pending_delete_all, pending_note, turns,
                   memory, locals, history>>

(* 404 for an unknown session, 400 for another project than the session's. *)
Reject(r) ==
    /\ LoopFree
    /\ IF M(r) = "reset" THEN project[S(r)] = NoProject
                         ELSE project[S(r)] # req[r].project
    /\ Goto(r, "new", "rejected")
    /\ UNCHANGED <<loop, req, pending_delete_all, pending_note, turns, memory, locals,
                   history>>

(* send_chat up to its await: the user's message, then the thread.         *)
Admit(r) ==
    /\ LoopFree
    /\ M(r) # "reset" /\ project[S(r)] = req[r].project
    /\ Goto(r, "new", "chain")
    /\ Say(S(r), "user", r)
    /\ UNCHANGED <<project, req, pending_delete_all, pending_note, turns, memory,
                   locals, history>>

(* send_chat after its await: the answer.                                  *)
Answer(r) ==
    /\ LoopFree
    /\ Goto(r, "return", "answered")
    /\ Say(S(r), "assistant", r)
    /\ UNCHANGED <<project, req, pending_delete_all, pending_note, turns, memory,
                   locals, history>>

-----------------------------------------------------------------------------
(* The thread: handle_turn *)

Step(r, from, to) ==
    /\ Goto(r, from, to)
    /\ UNCHANGED <<loop, req, turns, resets>>

(* An exception in the thread becomes RUNTIME_ERROR, status 500.           *)
Raise(r, from, why) ==
    /\ Goto(r, from, "failed")
    /\ cause' = [cause EXCEPT ![r] = why]
    /\ UNCHANGED <<loop, req, turns, resets>>

CheckDeletePending(r) ==
    /\ Step(r, "chain", IF pending_delete_all[S(r)] THEN "delete_pending" ELSE "request")
    /\ UNCHANGED <<pending_delete_all, pending_note, memory, locals, wiped, cause>>

(* _handle_delete_all_pending, by now on what was read a step ago          *)
ResolveDeletePending(r) ==
    /\ Step(r, "delete_pending",
            CASE M(r) = "ok" -> "wipe" [] M(r) \in {"no", "query"} -> "record"
              [] OTHER -> "request")
    /\ pending_delete_all' =
          [pending_delete_all EXCEPT ![S(r)] = @ /\ M(r) = "query"]
    /\ UNCHANGED <<pending_note, memory, locals, wiped, cause>>

RequestDelete(r) ==
    /\ M(r) = "delete_all"
    /\ Step(r, "request", "record")
    /\ pending_delete_all' = [pending_delete_all EXCEPT ![S(r)] = TRUE]
    /\ UNCHANGED <<pending_note, memory, locals, wiped, cause>>

CheckNotePending(r) ==
    /\ M(r) # "delete_all"
    /\ Step(r, "request", IF pending_note[S(r)] # NoNote THEN "note_pending" ELSE "normal")
    /\ UNCHANGED <<pending_delete_all, pending_note, memory, locals, wiped, cause>>

(* _try_handle_pending reads the question again and asserts it is there.   *)
HoldNote(r) ==
    /\ IF pending_note[S(r)] # NoNote
       THEN /\ Step(r, "note_pending", "note_held")
            /\ held' = [held EXCEPT ![r] = pending_note[S(r)]]
            /\ UNCHANGED cause
       ELSE Raise(r, "note_pending", "assert") /\ UNCHANGED held
    /\ UNCHANGED <<pending_delete_all, pending_note, memory, size, found, wiped>>

expired(r) == turns[S(r)] - held[r] >= expires_after_turns

(* Mutant: a refused name sends the message through the chain again.       *)
ResolveNote_Again(r) ==
    /\ Step(r, "note_held", IF M(r) = "ok" THEN "request" ELSE "record")
    /\ pending_note' =
          [pending_note EXCEPT ![S(r)] = IF M(r) = "ok" THEN @ ELSE NoNote]
    /\ held' = [held EXCEPT ![r] = NoNote]
    /\ UNCHANGED <<pending_delete_all, memory, size, found, wiped, cause>>

ResolveNote(r) ==
    /\ Step(r, "note_held",
            IF M(r) = "query" \/ (M(r) \notin {"no", "ok"} /\ expired(r))
            THEN "normal" ELSE "record")
    /\ pending_note' =
          [pending_note EXCEPT ![S(r)] = IF M(r) = "ok" THEN @ ELSE NoNote]
    /\ notes' = IF M(r) \notin {"no", "ok", "query"} /\ ~expired(r)
                THEN notes \cup {r} ELSE notes
    /\ held' = [held EXCEPT ![r] = NoNote]
    /\ UNCHANGED <<pending_delete_all, keys, deleted, applied, size, found, wiped, cause>>

(* The profile query, the router and the agent end in a turn.              *)
Normal(r) ==
    /\ Step(r, "normal", CASE M(r) = "fact" -> "write" [] M(r) = "note" -> "record_note"
                           [] OTHER -> "record")
    /\ UNCHANGED <<pending_delete_all, pending_note, memory, locals, wiped, cause>>

-----------------------------------------------------------------------------
(* The store.  A search iterates over the records dict, and raises if a    *)
(* record was added meanwhile; a deletion only marks its record.           *)

records == Cardinality(keys) + Cardinality(notes)

BeginSearch(r, from, to) ==
    /\ Goto(r, from, to)
    /\ size' = [size EXCEPT ![r] = records]
    /\ UNCHANGED <<loop, req, pending_delete_all, pending_note, turns, memory,
                   found, held, history>>

(* Mutant: the record is written before the search for conflicts.          *)
SearchConflicts_AfterStore(r) ==
    /\ Step(r, "write", "searching")
    /\ keys' = keys \cup {<<r, applied[r] + 1>>}
    /\ size' = [size EXCEPT ![r] = records + 1]
    /\ UNCHANGED <<pending_delete_all, pending_note, deleted, notes, applied, found, held,
                   wiped, cause>>

(* resolve_skill_conflicts, resolve_preference_conflicts: before each      *)
(* statement of the batch.                                                 *)
SearchConflicts(r) == BeginSearch(r, "write", "searching")
SearchWipe(r) == BeginSearch(r, "wipe", "scanning")

Searching == {"searching", "checking", "scanning", "resetting"}
DictChanged(r) == records # size[r]

SearchRaises(r, from) ==
    /\ DictChanged(r)
    /\ Raise(r, from, "dict_changed")
    /\ size' = [size EXCEPT ![r] = 0]
    /\ UNCHANGED <<pending_delete_all, pending_note, memory, found, held, wiped>>

EndSearch(r, from, to) ==
    /\ ~DictChanged(r)
    /\ Step(r, from, to)
    /\ size' = [size EXCEPT ![r] = 0]

(* What a search returns is cut to its limit.                              *)
Cut(set, most) == {c \in SUBSET set :
    Cardinality(c) = IF Cardinality(set) < most THEN Cardinality(set) ELSE most}

(* Mutant: a record of the same polarity counts as a conflict too.         *)
FindConflicts_AnyPolarity(r) ==
    /\ EndSearch(r, "searching", "resolving")
    /\ found' = [found EXCEPT ![r] = {k \in live : Said(k).value = Current(r).value}]
    /\ UNCHANGED <<pending_delete_all, pending_note, memory, held, wiped, cause>>

(* The live records of the opposite polarity, whichever session wrote them.*)
FindConflicts(r) ==
    /\ EndSearch(r, "searching", "resolving")
    /\ LET other == opposite(Current(r))
           filed == {k \in live : memory_type(Said(k)) = memory_type(other)} IN
       \E c \in Cut(filed, conflict_limit) :
           found' = [found EXCEPT ![r] = {k \in c : Said(k) = other}]
    /\ UNCHANGED <<pending_delete_all, pending_note, memory, held, wiped, cause>>

ResolveConflicts(r) ==
    /\ Step(r, "resolving", IF Current(r).kind = "preference" THEN "aliases" ELSE "storing")
    /\ deleted' = deleted \cup found[r]
    /\ found' = [found EXCEPT ![r] = {}]
    /\ UNCHANGED <<pending_delete_all, pending_note, keys, notes, applied, size, held, wiped,
                   cause>>

(* _delete_canonical_alias_preference_records: one more search before a    *)
(* preference is stored; what is stored is canonical, so it finds none.    *)
SearchAliases(r) == BeginSearch(r, "aliases", "checking")

CheckAliases(r) ==
    /\ EndSearch(r, "checking", "storing")
    /\ UNCHANGED <<pending_delete_all, pending_note, memory, found, held, wiped, cause>>

(* save_auto_profile_fact, then the next statement of the batch.           *)
StoreFact(r) ==
    /\ Step(r, "storing", IF applied[r] + 1 = Len(B(r)) THEN "record" ELSE "write")
    /\ keys' = keys \cup {<<r, applied[r] + 1>>}
    /\ applied' = [applied EXCEPT ![r] = @ + 1]
    /\ UNCHANGED <<pending_delete_all, pending_note, deleted, notes, locals, wiped, cause>>

FindRecords(r) ==
    /\ EndSearch(r, "scanning", "deleting")
    /\ \E c \in Cut(live, limit) : found' = [found EXCEPT ![r] = c]
    /\ UNCHANGED <<pending_delete_all, pending_note, memory, held, wiped, cause>>

(* Mutant: the deletion skips the first record found.                      *)
DeleteRecords_SkipsFirst(r) ==
    /\ Step(r, "deleting", "record")
    /\ \/ found[r] = {} /\ UNCHANGED deleted
       \/ \E k \in found[r] : deleted' = deleted \cup (found[r] \ {k})
    /\ wiped' = wiped \cup {r}
    /\ UNCHANGED <<pending_delete_all, pending_note, keys, notes, applied, locals, cause>>

(* delete_all_profile_memory: every session's records, not only its own.   *)
DeleteRecords(r) ==
    /\ Step(r, "deleting", "record")
    /\ deleted' = deleted \cup found[r]
    /\ found' = [found EXCEPT ![r] = {}]
    /\ wiped' = wiped \cup {r}
    /\ UNCHANGED <<pending_delete_all, pending_note, keys, notes, applied, size, held, cause>>

(* reset_memory and delete_profile_memory_for_session                      *)
BeginReset(r) ==
    /\ LoopFree
    /\ M(r) = "reset" /\ project[S(r)] # NoProject
    /\ BeginSearch(r, "new", "resetting")

Reset(r) ==
    /\ ~DictChanged(r)
    /\ Goto(r, "resetting", "answered")
    /\ \E c \in Cut(live, limit) : deleted' = deleted \cup {k \in c : S(k[1]) = S(r)}
    /\ size' = [size EXCEPT ![r] = 0]
    /\ resets' = resets \cup {S(r)}
    /\ UNCHANGED <<loop, req, pending_delete_all, pending_note, turns, keys, notes,
                   applied, found, held, wiped, cause>>

-----------------------------------------------------------------------------
(* The end of the turn; there is no session file on the web.               *)

Recorded(r, from, to) ==
    /\ Goto(r, from, to)
    /\ turns' = [turns EXCEPT ![S(r)] = @ + 1]
    /\ UNCHANGED <<loop, req, pending_delete_all, pending_note, memory, locals, history>>

Record(r) == Recorded(r, "record", "return") \/ Recorded(r, "record_note", "capture")

CapturePending(r) ==
    /\ Step(r, "capture", "return")
    /\ pending_note' = [pending_note EXCEPT ![S(r)] = turns[S(r)]]
    /\ UNCHANGED <<pending_delete_all, memory, locals, wiped, cause>>

Thread(r) ==
    \/ CheckDeletePending(r) \/ ResolveDeletePending(r) \/ RequestDelete(r)
    \/ CheckNotePending(r) \/ HoldNote(r) \/ ResolveNote(r) \/ Normal(r)
    \/ SearchConflicts(r) \/ SearchAliases(r) \/ SearchWipe(r)
    \/ (\E from \in Searching : SearchRaises(r, from))
    \/ FindConflicts(r) \/ ResolveConflicts(r) \/ CheckAliases(r) \/ StoreFact(r)
    \/ FindRecords(r) \/ DeleteRecords(r) \/ Reset(r)
    \/ Record(r) \/ CapturePending(r)

Next ==
    \/ \E s \in Session, p \in Project : CreateSession(s, p)
    \/ \E r \in Request : Reject(r) \/ Admit(r) \/ BeginReset(r) \/ Thread(r) \/ Answer(r)

Spec == Init /\ [][Next]_vars

(* Every thread keeps running, and so does the loop.                       *)
FairSpec == Spec /\ \A r \in Request : WF_vars(Thread(r)) /\ WF_vars(Answer(r))

-----------------------------------------------------------------------------
(* Properties *)

Stage == {"new", "rejected", "chain", "delete_pending", "request", "note_pending",
          "note_held", "normal", "write", "searching", "resolving", "aliases", "checking",
          "storing", "wipe", "scanning", "deleting", "resetting", "record", "record_note",
          "capture", "return", "answered", "failed"}

(* The keys of the statements that were applied.                           *)
stored == UNION {{r} \X (1 .. applied[r]) : r \in Request}

TypeOK ==
    /\ project \in [Session -> Project \cup {NoProject}]
    /\ transcript \in [Session -> Seq([role : {"user", "assistant"}, request : Request])]
    /\ req \in [Request -> Ask]
    /\ pc \in [Request -> Stage]
    /\ pending_delete_all \in [Session -> BOOLEAN]
    /\ pending_note \in [Session -> Nat \cup {NoNote}] /\ turns \in [Session -> Nat]
    /\ applied \in [Request -> Nat] /\ \A r \in Request : applied[r] <= Len(B(r))
    /\ keys = stored
    /\ deleted \subseteq keys /\ notes \subseteq Request
    /\ size \in [Request -> Nat] /\ found \in [Request -> SUBSET keys]
    /\ held \in [Request -> Nat \cup {NoNote}]
    /\ wiped \subseteq Request /\ resets \subseteq Session
    /\ cause \in [Request -> {"none", "assert", "dict_changed"}]

Position(s, role, r) ==
    {i \in DOMAIN transcript[s] : transcript[s][i] = [role |-> role, request |-> r]}

(* Message a of session s comes before message b.                          *)
Before(s, roleA, a, roleB, b) ==
    \E i \in Position(s, roleA, a), j \in Position(s, roleB, b) : i < j

(* The facts the session had acknowledged before the confirmation r was    *)
(* sent, and that are still there.                                         *)
Survivors(r) == {k \in live : Before(S(r), "assistant", k[1], "user", r)}

(* Once the user is told that the memory is wiped, no fact is left that    *)
(* the session had acknowledged before the confirmation was sent, however  *)
(* the threads ran, if the store holds no more than delete_all_profile_    *)
(* memory's search returns.                                                *)
WipeForgetsAcknowledged ==
    Cardinality(keys) <= limit =>
        \A r \in wiped : pc[r] = "answered" => Survivors(r) = {}

(* The i-th statement of r is stored, or r was stopped or is on its way    *)
(* between the deletion of what contradicts it and its being stored; only a*)
(* preference is stopped there, by the search for aliases.                 *)
Superseding(r, i) ==
    \/ i <= applied[r]
    \/ i = applied[r] + 1 /\ pc[r] \in {"aliases", "checking", "storing"}
    \/ i = applied[r] + 1 /\ pc[r] = "failed" /\ B(r)[i].kind = "preference"

(* Without a wipe a fact is lost only to a reset of the session that wrote *)
(* it, or because someone stated its opposite: in any session, for the     *)
(* store is shared and resolve_..._conflicts does not ask who wrote what.  *)
(* The opposite of a lost skill is stored or about to be.                  *)
LossHasACause ==
    wiped = {} =>
        \A k \in deleted :
            \/ S(k[1]) \in resets
            \/ \E r \in Request : \E i \in DOMAIN B(r) :
                  B(r)[i] = opposite(Said(k)) /\ Superseding(r, i)

(* A request that ends in a runtime error has noted and wiped nothing, and *)
(* of its statements it has stored the first ones and never all, so a      *)
(* message of one statement has stored nothing.                            *)
FailedLeavesPrefix ==
    \A r \in Request : pc[r] = "failed" =>
        /\ r \notin notes \cup wiped
        /\ \A k \in keys : k[1] = r =>
              k[2] < Len(B(r)) /\ \A j \in 1..k[2] : <<r, j>> \in keys

(* The way of a request through the chain; "write" to "storing" is gone    *)
(* through once for each statement of its batch.                           *)
Place(stage) ==
    CASE stage = "new" -> 0 [] stage = "chain" -> 1 [] stage = "delete_pending" -> 2
      [] stage = "request" -> 3 [] stage = "note_pending" -> 4 [] stage = "note_held" -> 5
      [] stage = "normal" -> 6 [] stage \in {"write", "wipe"} -> 7
      [] stage \in {"searching", "scanning", "resetting"} -> 8
      [] stage \in {"resolving", "deleting"} -> 9 [] stage = "aliases" -> 10
      [] stage = "checking" -> 11 [] stage = "storing" -> 12
      [] stage \in {"record", "record_note"} -> 13 [] stage = "capture" -> 14
      [] stage = "return" -> 15 [] stage \in {"answered", "failed", "rejected"} -> 16
Distance(r) == Place(pc[r]) + 6 * applied[r]

(* A step creates a session or takes one request further: whatever the     *)
(* other threads do to the pending questions and the store, no request     *)
(* goes back or waits in a loop.  It is the safety half of                 *)
(* EveryRequestEnds: a request has at most 16 steps and 6 per statement.   *)
RequestsAdvance ==
    /\ [](\A r \in Request : Distance(r) \in 0..(16 + 6 * Len(B(r))))
    /\ [][\/ /\ UNCHANGED <<pc, applied, transcript>>
             /\ \E s \in Session : project[s] = NoProject /\ project'[s] # NoProject
          \/ \E r \in Request : /\ Distance(r) < Distance(r)'
                                /\ \A q \in Request \ {r} : UNCHANGED <<pc[q], applied[q]>>]_vars

(* However the answers interleave, a transcript holds each chat request of *)
(* its session at most once as the user's message and at most once, later, *)
(* as the answer, and it has the answer exactly when the request ended in  *)
(* one: no answer is shown twice, in another session or without question.  *)
TranscriptsTell ==
    /\ \A s \in Session : \A i, j \in DOMAIN transcript[s] :
          /\ S(transcript[s][i].request) = s
          /\ transcript[s][i] = transcript[s][j] => i = j
    /\ \A r \in Request :
          /\ Position(S(r), "user", r) # {} <=> M(r) # "reset" /\ pc[r] \notin {"new", "rejected"}
          /\ Position(S(r), "assistant", r) # {} <=> M(r) # "reset" /\ pc[r] = "answered"
          /\ \A i \in Position(S(r), "user", r), j \in Position(S(r), "assistant", r) : i < j

(* The handler that asks for the confirmation of a wipe has been there.    *)
WipeAsked(s) ==
    \E q \in Request : S(q) = s /\ M(q) = "delete_all" /\ pc[q] \in {"record", "return", "answered"}

(* The question for the name of a note has been kept.                      *)
NameAsked(s) == \E q \in Request : S(q) = s /\ M(q) = "note" /\ pc[q] \in {"return", "answered"}

(* What the threads leave of "never delete without an explicit             *)
(* confirmation": a wipe is a confirmation, sent in a session that has     *)
(* asked for one, and a note is an answer in a session that has asked for  *)
(* its name.  That the question was shown before is not guaranteed.        *)
ActsWereAskedFor ==
    /\ \A r \in wiped : M(r) = "ok" /\ WipeAsked(S(r))
    /\ \A r \in notes : M(r) \notin {"ok", "no", "query"} /\ NameAsked(S(r))

(* Every admitted request ends, in an answer or an error.                  *)
EveryRequestEnds ==
    \A r \in Request : pc[r] = "chain" ~> pc[r] \in {"answered", "failed"}

-----------------------------------------------------------------------------
(* What a comment of the code says, and threads break                      *)

(* "never delete without an explicit confirmation": the confirmation that  *)
(* wiped the memory was sent after the question was shown.                 *)
WipeAnswersQuestion ==
    \A r \in wiped :
        \E q \in Request : M(q) = "delete_all" /\ Before(S(r), "assistant", q, "user", r)
=============================================================================
