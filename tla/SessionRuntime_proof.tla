------------------------ MODULE SessionRuntime_proof ------------------------
(***************************************************************************)
(* Safety of SessionRuntime for every bound, input set and expiry.         *)
(*                                                                         *)
(* The handlers differ in many ways the theorems do not depend on.  Effect *)
(* says what they have in common: how a handler that answers with a marker *)
(* may change the pending state and the store.  HandlerEffect shows it of  *)
(* all seventeen, and the invariants follow from it alone.                 *)
(***************************************************************************)
EXTENDS MCSessionRuntime, TLAPS

Between == {"memory_query_while_delete_pending", "dedicated"}
NoteEnd == {"pending_note_name_resolved", "pending_note_cancelled"}

-----------------------------------------------------------------------------
(* The strengthenings: what each piece of session-local state remembers.   *)

(* A pending wipe was requested, and nothing since has disarmed it.        *)
DeletePendingWitness ==
    pending_delete_all =>
        \E j \in 1..Len(log) :
            /\ log[j].marker = "memory_delete_confirm" /\ log[j].run = run
            /\ \A k \in (j + 1)..Len(log) : log[k].marker \in Between

(* A pending name question is as old as the turns recorded since.          *)
InFlight == IF pc \in {"recording", "saved"} THEN 1 ELSE 0

NotePendingWitness ==
    pending_note # NoNote =>
        \E j \in 1..Len(log) :
            /\ log[j].marker = "note_clarified" /\ log[j].run = run
            /\ Len(log) - j = Len(turns) - pending_note + InFlight
            /\ \A k \in (j + 1)..Len(log) : log[k].marker \notin NoteEnd

(* The turn whose state is being recorded is the last one handled.         *)
StateWitness ==
    state.captures /\ pc # "down" =>
        /\ log # <<>> /\ log[Len(log)].marker = "note_clarified"
        /\ log[Len(log)].run = run

(* The continuation context stems from a fact that was not wiped.          *)
ContextWitness ==
    last_memory_write_kind # "none" =>
        \E j \in 1..Len(log) :
            /\ log[j].marker = "fact_saved" /\ log[j].run = run
            /\ \A k \in (j + 1)..Len(log) : log[k].marker # "memory_deleted_all"

(* A stopped process has no pending state, no store and no turn in flight. *)
DownIsFresh ==
    pc = "down" =>
        /\ pending_delete_all = FALSE /\ pending_note = NoNote
        /\ last_memory_write_kind = "none" /\ facts = {} /\ state.captures = FALSE

IInv ==
    /\ TypeOK /\ DownIsFresh
    /\ WipeIsConfirmed /\ DeletePendingWitness
    /\ NoteAnswersFreshQuestion /\ NotePendingWitness /\ StateWitness
    /\ ContinuationHasFact /\ ContextWitness
    /\ FactsCounted
    /\ LiveSessionDurable /\ ShownIsDurable

-----------------------------------------------------------------------------
Effect(marker) ==
    /\ pending_delete_all' \in BOOLEAN /\ pending_repair_choice' \in BOOLEAN
    /\ pending_note' \in {NoNote, pending_note}
    /\ last_memory_write_kind' \in {"none", "skill"}
    /\ confirmed_profile_fact_count' \in Nat
    /\ facts' \subseteq Fact /\ notes' \subseteq Nat
    /\ pending_delete_all' => \/ marker = "memory_delete_confirm"
                              \/ pending_delete_all /\ marker \in Between
    /\ marker = "memory_deleted_all" => pending_delete_all
    /\ marker = "pending_note_name_resolved" => pending_note # NoNote /\ ~note_expired
    /\ marker \in NoteEnd => pending_note' = NoNote
    /\ marker = "continuation_saved" => last_memory_write_kind # "none"
    /\ last_memory_write_kind' # "none" =>
          \/ marker = "fact_saved"
          \/ last_memory_write_kind # "none" /\ marker # "memory_deleted_all"
    /\ FactsCounted => (facts' # {} => confirmed_profile_fact_count' > 0)

(* The chain picks a marker of the list, and the three markers whose       *)
(* handlers act on remembered state are only picked when it is there.      *)
LEMMA LaneFacts ==
    ASSUME NEW m \in Message
    PROVE /\ lane(m) \in Marker
          /\ lane(m) = "memory_deleted_all" => pending_delete_all
          /\ lane(m) = "pending_note_name_resolved" =>
                pending_note # NoNote /\ ~note_expired
          /\ lane(m) = "continuation_saved" =>
                last_memory_write_kind # "none" /\ m = "continuation"
          /\ lane(m) = "fact_saved" => m \in {"skill", "name"}
  BY DEF lane, note_lane, normal_lane, Marker, Message

(* A fact writer keeps the store typed and counts its fact.                *)
LEMMA SaveFactEffect ==
    ASSUME TypeOK, NEW fact \in Fact, SaveFact(fact)
    PROVE /\ facts' \subseteq Fact /\ notes' \subseteq Nat
          /\ last_memory_write_kind' \in {"none", "skill"}
          /\ confirmed_profile_fact_count' \in Nat
          /\ confirmed_profile_fact_count' > 0
  <1>1. facts' \subseteq Fact
    BY DEF SaveFact, TypeOK
  <1>2. notes' \subseteq Nat /\ last_memory_write_kind' \in {"none", "skill"}
    BY DEF SaveFact, TypeOK
  <1>3. confirmed_profile_fact_count' \in Nat /\ confirmed_profile_fact_count' > 0
    BY DEF SaveFact, TypeOK
  <1> QED BY <1>1, <1>2, <1>3

(* A turn leads to a terminal state of the agent and to one marker whose   *)
(* handler respects Effect (_handle_turn_impl, all handlers).              *)
LEMMA HandlerEffect ==
    ASSUME TypeOK, HandleTurn
    PROVE \E marker \in Marker, status \in AgentStatus :
              Handled(marker, status) /\ Effect(marker)
  <1> USE DEF TypeOK
  <1>l. \A m \in Input :
          /\ m \in Message /\ lane(m) \in Marker
          /\ lane(m) = "memory_deleted_all" => pending_delete_all
          /\ lane(m) = "pending_note_name_resolved" =>
                pending_note # NoNote /\ ~note_expired
          /\ lane(m) = "continuation_saved" =>
                last_memory_write_kind # "none" /\ m = "continuation"
          /\ lane(m) = "fact_saved" => m \in {"skill", "name"}
    BY LaneFacts, InputAssumption
  <1>1. CASE ConfirmDelete
    <2>1. PICK m \in Input : ConfirmDelete!(m)
      BY <1>1 DEF ConfirmDelete
    <2>2. Effect(lane(m))
      BY <2>1, <1>l
      DEF Effect, Between, NoteEnd, FactsCounted
    <2> QED BY <2>1, <2>2, <1>l DEF AgentStatus
  <1>2. CASE CancelDelete
    <2>1. PICK m \in Input : CancelDelete!(m)
      BY <1>2 DEF CancelDelete
    <2>2. Effect(lane(m))
      BY <2>1, <1>l
      DEF Effect, Between, NoteEnd, FactsCounted, store
    <2> QED BY <2>1, <2>2, <1>l DEF AgentStatus
  <1>3. CASE QueryWhileDeletePending
    <2>1. PICK m \in Input : QueryWhileDeletePending!(m)
      BY <1>3 DEF QueryWhileDeletePending
    <2>2. Effect(lane(m))
      BY <2>1, <1>l
      DEF Effect, Between, NoteEnd, FactsCounted, pendings, store
    <2> QED BY <2>1, <2>2, <1>l DEF AgentStatus
  <1>4. CASE ExternalAction
    <2>1. PICK m \in Input : ExternalAction!(m)
      BY <1>4 DEF ExternalAction
    <2>2. Effect(lane(m))
      BY <2>1, <1>l
      DEF Effect, Between, NoteEnd, FactsCounted, PassDeletePending, store
    <2> QED BY <2>1, <2>2, <1>l DEF AgentStatus
  <1>5. CASE RequestDelete
    <2>1. PICK m \in Input : RequestDelete!(m)
      BY <1>5 DEF RequestDelete
    <2>2. Effect(lane(m))
      BY <2>1, <1>l
      DEF Effect, Between, NoteEnd, FactsCounted, store
    <2> QED BY <2>1, <2>2, <1>l DEF AgentStatus
  <1>6. CASE StrayDeleteConfirmation
    <2>1. PICK m \in Input : StrayDeleteConfirmation!(m)
      BY <1>6 DEF StrayDeleteConfirmation
    <2>2. Effect(lane(m))
      BY <2>1, <1>l
      DEF Effect, Between, NoteEnd, FactsCounted, PassDeletePending, store
    <2> QED BY <2>1, <2>2, <1>l DEF AgentStatus
  <1>7. CASE RepairChoice
    <2>1. PICK m \in Input : RepairChoice!(m)
      BY <1>7 DEF RepairChoice
    <2>2. Effect(lane(m))
      BY <2>1, <1>l
      DEF Effect, Between, NoteEnd, FactsCounted, PassRepairChoice, PassDeletePending, store
    <2> QED BY <2>1, <2>2, <1>l DEF AgentStatus
  <1>8. CASE Repair
    <2>1. PICK m \in Input : Repair!(m)
      BY <1>8 DEF Repair
    <2>2. Effect(lane(m))
      BY <2>1, <1>l
      DEF Effect, Between, NoteEnd, FactsCounted, PassDeletePending, store
    <2> QED BY <2>1, <2>2, <1>l DEF AgentStatus
  <1>9. CASE Continuation
    <2>1. PICK m \in Input : Continuation!(m)
      BY <1>9 DEF Continuation
    <2>2. CASE lane(m) = "continuation_saved"
      <3>1. m \in Fact /\ SaveFact(m)
        BY <2>1, <2>2, <1>l DEF Fact
      <3>2. /\ facts' \subseteq Fact /\ notes' \subseteq Nat
            /\ last_memory_write_kind' \in {"none", "skill"}
            /\ confirmed_profile_fact_count' \in Nat
            /\ confirmed_profile_fact_count' > 0
        BY <3>1, SaveFactEffect
      <3>3. Effect(lane(m))
        BY <2>1, <2>2, <3>2, <1>l
        DEF Effect, Between, NoteEnd, PassRepairChoice, PassDeletePending
      <3> QED BY <2>1, <3>3, <1>l DEF AgentStatus
    <2>3. CASE lane(m) = "continuation_no_context"
      <3>1. Effect(lane(m))
        BY <2>1, <2>3, <1>l
        DEF Effect, Between, NoteEnd, FactsCounted, PassRepairChoice, PassDeletePending, store
      <3> QED BY <2>1, <3>1, <1>l DEF AgentStatus
    <2> QED BY <2>1, <2>2, <2>3
  <1>10. CASE CancelNote
    <2>1. PICK m \in Input : CancelNote!(m)
      BY <1>10 DEF CancelNote
    <2>2. Effect(lane(m))
      BY <2>1, <1>l
      DEF Effect, Between, NoteEnd, FactsCounted, PassNotePending, PassRepairChoice, PassDeletePending, store
    <2> QED BY <2>1, <2>2, <1>l DEF AgentStatus
  <1>11. CASE RepromptNote
    <2>1. PICK m \in Input : RepromptNote!(m)
      BY <1>11 DEF RepromptNote
    <2>2. Effect(lane(m))
      BY <2>1, <1>l
      DEF Effect, Between, NoteEnd, FactsCounted, PassRepairChoice, PassDeletePending, store
    <2> QED BY <2>1, <2>2, <1>l DEF AgentStatus
  <1>12. CASE ResumeWriteNote
    <2>1. PICK m \in Input : ResumeWriteNote!(m)
      BY <1>12 DEF ResumeWriteNote
    <2>3. Len(log) + 1 \in Nat
      OBVIOUS
    <2>4. notes' \subseteq Nat
      BY <2>1, <2>3
    <2>2. Effect(lane(m))
      BY <2>1, <2>4, <1>l
      DEF Effect, Between, NoteEnd, FactsCounted, PassNotePending, PassRepairChoice, PassDeletePending
    <2> QED BY <2>1, <2>2, <1>l DEF AgentStatus
  <1>13. CASE AnswerQuery
    <2>1. PICK m \in Input : AnswerQuery!(m)
      BY <1>13 DEF AnswerQuery
    <2>2. Effect(lane(m))
      BY <2>1, <1>l
      DEF Effect, Between, NoteEnd, FactsCounted, PassNotePending, PassRepairChoice, PassDeletePending, store
    <2> QED BY <2>1, <2>2, <1>l DEF AgentStatus
  <1>14. CASE WriteFact
    <2>1. PICK m \in Input : WriteFact!(m)
      BY <1>14 DEF WriteFact
    <2>3. m \in Fact
      BY <2>1, <1>l DEF Fact
    <2>4. /\ facts' \subseteq Fact /\ notes' \subseteq Nat
          /\ last_memory_write_kind' \in {"none", "skill"}
          /\ confirmed_profile_fact_count' \in Nat
          /\ confirmed_profile_fact_count' > 0
      BY <2>1, <2>3, SaveFactEffect
    <2>2. Effect(lane(m))
      BY <2>1, <2>4, <1>l
      DEF Effect, Between, NoteEnd, PassNotePending, PassRepairChoice, PassDeletePending
    <2> QED BY <2>1, <2>2, <1>l DEF AgentStatus
  <1>15. CASE DirectAnswer
    <2>1. PICK m \in Input : DirectAnswer!(m)
      BY <1>15 DEF DirectAnswer
    <2>2. Effect(lane(m))
      BY <2>1, <1>l
      DEF Effect, Between, NoteEnd, FactsCounted, PassNotePending, PassRepairChoice, PassDeletePending, store
    <2> QED BY <2>1, <2>2, <1>l DEF AgentStatus
  <1>16. CASE RunAgent
    <2>1. PICK m \in Input, status \in AgentStatus : RunAgent!(m, status)
      BY <1>16 DEF RunAgent
    <2>2. Effect(lane(m))
      BY <2>1, <1>l
      DEF Effect, Between, NoteEnd, FactsCounted, PassNotePending, PassRepairChoice, PassDeletePending, store
    <2> QED BY <2>1, <2>2, <1>l
  <1>17. CASE DedicatedRun
    <2>1. PICK status \in AgentStatus : DedicatedRun!(status)
      BY <1>17 DEF DedicatedRun
    <2>2. Effect("dedicated")
      BY <2>1 DEF Effect, Between, NoteEnd, FactsCounted, pendings, store
    <2> QED BY <2>1, <2>2 DEF Marker
  <1> QED
    BY <1>1, <1>2, <1>3, <1>4, <1>5, <1>6, <1>7, <1>8, <1>9, <1>10, <1>11, <1>12,
       <1>13, <1>14, <1>15, <1>16, <1>17 DEF HandleTurn

-----------------------------------------------------------------------------
(* A turn keeps every part of the invariant.                               *)
LEMMA HandledIInv ==
    ASSUME IInv, NEW marker \in Marker, NEW status \in AgentStatus,
           Handled(marker, status), Effect(marker)
    PROVE IInv'
  <1> DEFINE n == Len(log) + 1
             turn == [run |-> run, marker |-> marker]
  <1>t. TypeOK
    BY DEF IInv
  <1>1. /\ pc = "idle" /\ pc' = "recording" /\ log' = Append(log, turn)
        /\ run' = run /\ turns' = turns /\ disk' = disk /\ shown' = shown
        /\ state' = [task_id |-> n, status |-> status,
                     captures |-> marker = "note_clarified" /\ status = "COMPLETED"]
    BY DEF Handled
  <1>2. /\ n \in Nat /\ n > 0 /\ Len(log) = n - 1 /\ turn \in Turn /\ log \in Seq(Turn)
        /\ log' \in Seq(Turn) /\ Len(log') = n /\ log'[n] = turn
        /\ DOMAIN log = 1..(n - 1) /\ DOMAIN log' = 1..n
        /\ \A i \in 1..(n - 1) : log'[i] = log[i]
    BY <1>t, <1>1 DEF TypeOK, Turn
  <1>3. state' \in [task_id : Nat, status : AgentStatus, captures : BOOLEAN]
    BY <1>1, <1>2
  <1>4. TypeOK'
    BY <1>t, <1>1, <1>2, <1>3 DEF TypeOK, Effect
  <1> HIDE DEF n, turn
  <1> USE DEF SameRun
  <1>w. run \in Nat /\ turn.run = run /\ turn.marker = marker
    BY <1>t DEF turn, TypeOK
  <1>k. n \in Nat /\ \A k \in 1..(n - 1) : log'[k] = log[k]
    BY <1>2
  <1>p. pending_note # NoNote =>
          \E j \in 1..(n - 1) :
              /\ log[j].marker = "note_clarified" /\ log[j].run = run
              /\ n - 1 - j = Len(turns) - pending_note
              /\ \A k \in (j + 1)..(n - 1) : log[k].marker \notin NoteEnd
    <2>1. /\ InFlight = 0 /\ Len(turns) \in Nat /\ pending_note \in Int
          /\ Len(turns) - pending_note + 0 = Len(turns) - pending_note
      BY <1>1, <1>t DEF InFlight, TypeOK, NoNote
    <2> QED BY <2>1, <1>2 DEF IInv, NotePendingWitness
  <1>5. WipeIsConfirmed'
    <2> SUFFICES ASSUME NEW i \in 1..n, log'[i].marker = "memory_deleted_all"
                 PROVE \E j \in 1..(i - 1) :
                          /\ log'[j].marker = "memory_delete_confirm"
                          /\ log'[i].run = log'[j].run
                          /\ \A k \in (j + 1)..(i - 1) : log'[k].marker \in Between
      BY <1>2 DEF WipeIsConfirmed, Between
    <2>1. CASE i = n
      BY <2>1, <1>2, <1>w DEF IInv, Effect, DeletePendingWitness
    <2>2. CASE i # n
      <3>1. i \in 1..(n - 1) /\ log[i].marker = "memory_deleted_all"
        BY <2>2, <1>2
      <3>2. PICK j \in 1..(i - 1) :
               /\ log[j].marker = "memory_delete_confirm" /\ SameRun(i, j)
               /\ \A k \in (j + 1)..(i - 1) : log[k].marker \in Between
        BY <3>1, <1>2 DEF IInv, WipeIsConfirmed, Between
      <3>3. \A k \in (j + 1)..(i - 1) : log'[k].marker \in Between
        <4> SUFFICES ASSUME NEW k \in (j + 1)..(i - 1)
                     PROVE log'[k].marker \in Between
          OBVIOUS
        <4>1. k \in 1..(n - 1) /\ log'[k] = log[k]
          BY <3>1, <3>2, <1>k
        <4> QED BY <4>1, <3>2
      <3>4. log'[j].marker = "memory_delete_confirm" /\ log'[i].run = log'[j].run
        BY <3>1, <3>2, <1>2
      <3> QED BY <3>2, <3>3, <3>4
    <2> QED BY <2>1, <2>2
  <1>6. DeletePendingWitness'
    <2> SUFFICES ASSUME pending_delete_all'
                 PROVE \E j \in 1..n :
                          /\ log'[j].marker = "memory_delete_confirm" /\ log'[j].run = run
                          /\ \A k \in (j + 1)..n : log'[k].marker \in Between
      BY <1>1, <1>2 DEF DeletePendingWitness
    <2>1. CASE marker = "memory_delete_confirm"
      BY <2>1, <1>2, <1>w
    <2>2. CASE pending_delete_all /\ marker \in Between
      <3>1. PICK j \in 1..(n - 1) :
               /\ log[j].marker = "memory_delete_confirm" /\ log[j].run = run
               /\ \A k \in (j + 1)..(n - 1) : log[k].marker \in Between
        BY <2>2, <1>2 DEF IInv, DeletePendingWitness
      <3>2. \A k \in (j + 1)..n : log'[k].marker \in Between
        BY <2>2, <3>1, <1>2, <1>w
      <3>3. /\ j \in 1..n /\ log'[j].marker = "memory_delete_confirm"
            /\ log'[j].run = run
        BY <3>1, <1>2
      <3> QED BY <3>2, <3>3
    <2> QED BY <2>1, <2>2 DEF Effect
  <1>7. NoteAnswersFreshQuestion'
    <2> SUFFICES ASSUME NEW i \in 1..n, log'[i].marker = "pending_note_name_resolved"
                 PROVE \E j \in 1..(i - 1) :
                          /\ log'[j].marker = "note_clarified"
                          /\ log'[i].run = log'[j].run
                          /\ i - j <= expires_after_turns
                          /\ \A k \in (j + 1)..(i - 1) : log'[k].marker \notin NoteEnd
      BY <1>2 DEF NoteAnswersFreshQuestion, NoteEnd
    <2>1. CASE i = n
      <3>1. pending_note # NoNote /\ ~note_expired
        BY <2>1, <1>2, <1>w DEF Effect
      <3>2. PICK j \in 1..(n - 1) :
               /\ log[j].marker = "note_clarified" /\ log[j].run = run
               /\ n - 1 - j = Len(turns) - pending_note
               /\ \A k \in (j + 1)..(n - 1) : log[k].marker \notin NoteEnd
        BY <3>1, <1>p
      <3>3. n - j <= expires_after_turns
        BY <3>1, <3>2, <1>t, <1>2, BoundsAssumption DEF note_expired, TypeOK, NoNote
      <3>4. \A k \in (j + 1)..(n - 1) : log'[k].marker \notin NoteEnd
        BY <3>2, <1>k
      <3>5. /\ j \in 1..(i - 1) /\ log'[j].marker = "note_clarified"
            /\ log'[i].run = log'[j].run /\ i - j <= expires_after_turns
        BY <2>1, <3>2, <3>3, <1>2, <1>w
      <3>6. \A k \in (j + 1)..(i - 1) : log'[k].marker \notin NoteEnd
        BY <2>1, <3>4
      <3> QED BY <3>5, <3>6
    <2>2. CASE i # n
      <3>1. i \in 1..(n - 1) /\ log[i].marker = "pending_note_name_resolved"
        BY <2>2, <1>2
      <3>2. PICK j \in 1..(i - 1) :
               /\ log[j].marker = "note_clarified" /\ SameRun(i, j)
               /\ i - j <= expires_after_turns
               /\ \A k \in (j + 1)..(i - 1) : log[k].marker \notin NoteEnd
        BY <3>1, <1>2 DEF IInv, NoteAnswersFreshQuestion, NoteEnd
      <3>3. \A k \in (j + 1)..(i - 1) : log'[k].marker \notin NoteEnd
        <4> SUFFICES ASSUME NEW k \in (j + 1)..(i - 1)
                     PROVE log'[k].marker \notin NoteEnd
          OBVIOUS
        <4>1. k \in 1..(n - 1) /\ log'[k] = log[k]
          BY <3>1, <3>2, <1>k
        <4> QED BY <4>1, <3>2
      <3>4. /\ log'[j].marker = "note_clarified" /\ log'[i].run = log'[j].run
            /\ i - j <= expires_after_turns
        BY <3>1, <3>2, <1>2
      <3> QED BY <3>2, <3>3, <3>4
    <2> QED BY <2>1, <2>2
  <1>8. NotePendingWitness'
    <2> SUFFICES ASSUME pending_note' # NoNote
                 PROVE \E j \in 1..n :
                          /\ log'[j].marker = "note_clarified" /\ log'[j].run = run
                          /\ n - j = Len(turns) - pending_note' + 1
                          /\ \A k \in (j + 1)..n : log'[k].marker \notin NoteEnd
      BY <1>1, <1>2 DEF NotePendingWitness, InFlight
    <2>1. pending_note' = pending_note /\ marker \notin NoteEnd
      BY DEF Effect
    <2>2. PICK j \in 1..(n - 1) :
             /\ log[j].marker = "note_clarified" /\ log[j].run = run
             /\ n - 1 - j = Len(turns) - pending_note
             /\ \A k \in (j + 1)..(n - 1) : log[k].marker \notin NoteEnd
      BY <2>1, <1>p
    <2>3. n - j = Len(turns) - pending_note' + 1
      BY <2>1, <2>2, <1>t, <1>2 DEF TypeOK, NoNote
    <2>4. \A k \in (j + 1)..n : log'[k].marker \notin NoteEnd
      BY <2>1, <2>2, <1>2, <1>w
    <2>5. j \in 1..n /\ log'[j].marker = "note_clarified" /\ log'[j].run = run
      BY <2>2, <1>2
    <2> QED BY <2>3, <2>4, <2>5
  <1>9. StateWitness'
    <2>1. state'.captures => marker = "note_clarified"
      BY <1>1
    <2>2. log' # <<>>
      BY <1>2
    <2> QED BY <2>1, <2>2, <1>1, <1>2, <1>w DEF StateWitness
  <1>10. ContinuationHasFact'
    <2> SUFFICES ASSUME NEW i \in 1..n, log'[i].marker = "continuation_saved"
                 PROVE \E j \in 1..(i - 1) :
                          /\ log'[j].marker = "fact_saved"
                          /\ log'[i].run = log'[j].run
                          /\ \A k \in (j + 1)..(i - 1) :
                                log'[k].marker # "memory_deleted_all"
      BY <1>2 DEF ContinuationHasFact
    <2>1. CASE i = n
      BY <2>1, <1>2, <1>w DEF IInv, Effect, ContextWitness
    <2>2. CASE i # n
      <3>1. i \in 1..(n - 1) /\ log[i].marker = "continuation_saved"
        BY <2>2, <1>2
      <3>2. PICK j \in 1..(i - 1) :
               /\ log[j].marker = "fact_saved" /\ SameRun(i, j)
               /\ \A k \in (j + 1)..(i - 1) : log[k].marker # "memory_deleted_all"
        BY <3>1, <1>2 DEF IInv, ContinuationHasFact
      <3>3. \A k \in (j + 1)..(i - 1) : log'[k].marker # "memory_deleted_all"
        <4> SUFFICES ASSUME NEW k \in (j + 1)..(i - 1)
                     PROVE log'[k].marker # "memory_deleted_all"
          OBVIOUS
        <4>1. k \in 1..(n - 1) /\ log'[k] = log[k]
          BY <3>1, <3>2, <1>k
        <4> QED BY <4>1, <3>2
      <3>4. log'[j].marker = "fact_saved" /\ log'[i].run = log'[j].run
        BY <3>1, <3>2, <1>2
      <3> QED BY <3>2, <3>3, <3>4
    <2> QED BY <2>1, <2>2
  <1>11. ContextWitness'
    <2> SUFFICES ASSUME last_memory_write_kind' # "none"
                 PROVE \E j \in 1..n :
                          /\ log'[j].marker = "fact_saved" /\ log'[j].run = run
                          /\ \A k \in (j + 1)..n : log'[k].marker # "memory_deleted_all"
      BY <1>1, <1>2 DEF ContextWitness
    <2>1. CASE marker = "fact_saved"
      BY <2>1, <1>2, <1>w
    <2>2. CASE last_memory_write_kind # "none" /\ marker # "memory_deleted_all"
      <3>1. PICK j \in 1..(n - 1) :
               /\ log[j].marker = "fact_saved" /\ log[j].run = run
               /\ \A k \in (j + 1)..(n - 1) : log[k].marker # "memory_deleted_all"
        BY <2>2, <1>2 DEF IInv, ContextWitness
      <3>2. \A k \in (j + 1)..n : log'[k].marker # "memory_deleted_all"
        BY <2>2, <3>1, <1>2, <1>w
      <3>3. j \in 1..n /\ log'[j].marker = "fact_saved" /\ log'[j].run = run
        BY <3>1, <1>2
      <3> QED BY <3>2, <3>3
    <2> QED BY <2>1, <2>2 DEF Effect
  <1>12. FactsCounted'
    BY DEF IInv, Effect, FactsCounted
  <1>13. LiveSessionDurable' /\ ShownIsDurable' /\ DownIsFresh'
    BY <1>1 DEF IInv, LiveSessionDurable, ShownIsDurable, DownIsFresh
  <1> QED
    BY <1>4, <1>5, <1>6, <1>7, <1>8, <1>9, <1>10, <1>11, <1>12, <1>13 DEF IInv

-----------------------------------------------------------------------------
(* The steps of recording keep it: the log does not change, and what is    *)
(* saved, appended and shown is the record of the turn in flight.          *)

(* The record built from a typed state is a TurnRecord.                    *)
LEMMA RecordTyped ==
    ASSUME TypeOK
    PROVE record \in TurnRecord /\ record.task_id = state.task_id
  BY DEF TypeOK, record, TurnRecord

LEMMA SaveIInv ==
    ASSUME IInv, Save
    PROVE IInv'
  <1>t. TypeOK /\ record \in TurnRecord
    BY RecordTyped DEF IInv
  <1>1. TypeOK'
    BY <1>t DEF Save, TypeOK, pendings, store
  <1>2. /\ WipeIsConfirmed' /\ DeletePendingWitness' /\ NoteAnswersFreshQuestion'
        /\ ContinuationHasFact' /\ ContextWitness' /\ FactsCounted'
    BY DEF IInv, Save, pendings, store, WipeIsConfirmed, DeletePendingWitness,
           NoteAnswersFreshQuestion, ContinuationHasFact, ContextWitness,
           FactsCounted, SameRun
  <1>3. NotePendingWitness' /\ StateWitness'
    BY DEF IInv, Save, pendings, NotePendingWitness, StateWitness, InFlight
  <1>4. disk = turns
    BY DEF IInv, Save, LiveSessionDurable
  <1>5. LiveSessionDurable'
    BY DEF Save, LiveSessionDurable, record
  <1>7. DownIsFresh'
    BY DEF Save, DownIsFresh
  <1>6. ShownIsDurable'
    BY <1>t, <1>4 DEF IInv, Save, ShownIsDurable, TypeOK
  <1> QED BY <1>1, <1>2, <1>3, <1>5, <1>6, <1>7 DEF IInv

LEMMA AppendIInv ==
    ASSUME IInv, AppendTurn
    PROVE IInv'
  <1>t. TypeOK /\ record \in TurnRecord /\ record.task_id = state.task_id
    BY RecordTyped DEF IInv
  <1>a. /\ pc = "saved" /\ pc' = "idle" /\ turns' = Append(turns, record)
        /\ pending_note' = (IF state.captures THEN Len(turns) + 1 ELSE pending_note)
        /\ shown' = shown \cup {state.task_id}
        /\ run' = run /\ state' = state /\ disk' = disk /\ log' = log
        /\ pending_delete_all' = pending_delete_all
        /\ pending_repair_choice' = pending_repair_choice
        /\ facts' = facts /\ notes' = notes
        /\ last_memory_write_kind' = last_memory_write_kind
        /\ confirmed_profile_fact_count' = confirmed_profile_fact_count
    BY DEF AppendTurn, store
  <1>b. /\ turns \in Seq(TurnRecord) /\ disk \in Seq(TurnRecord) /\ log \in Seq(Turn)
        /\ Len(turns') = Len(turns) + 1 /\ turns' \in Seq(TurnRecord)
        /\ pending_note \in Nat \cup {NoNote} /\ state.captures \in BOOLEAN
    BY <1>t, <1>a DEF TypeOK
  <1>1. TypeOK'
    <2>1. state.task_id \in Nat /\ pending_note' \in Nat \cup {NoNote}
      BY <1>t, <1>a, <1>b DEF TypeOK
    <2> QED BY <2>1, <1>t, <1>a, <1>b DEF TypeOK
  <1>2. /\ WipeIsConfirmed' /\ DeletePendingWitness' /\ NoteAnswersFreshQuestion'
        /\ ContinuationHasFact' /\ ContextWitness' /\ FactsCounted'
    BY <1>a DEF IInv, WipeIsConfirmed, DeletePendingWitness, NoteAnswersFreshQuestion,
           ContinuationHasFact, ContextWitness, FactsCounted, SameRun
  <1>3. NotePendingWitness'
    <2> SUFFICES ASSUME pending_note' # NoNote
                 PROVE \E j \in 1..Len(log) :
                          /\ log[j].marker = "note_clarified" /\ log[j].run = run
                          /\ Len(log) - j = Len(turns) + 1 - pending_note'
                          /\ \A k \in (j + 1)..Len(log) : log[k].marker \notin NoteEnd
      BY <1>a, <1>b DEF NotePendingWitness, InFlight, NoNote
    <2>1. CASE state.captures
      <3>1. /\ log # <<>> /\ log[Len(log)].marker = "note_clarified"
            /\ log[Len(log)].run = run
        BY <2>1, <1>a DEF IInv, StateWitness
      <3>2. Len(log) \in 1..Len(log)
        BY <3>1, <1>b
      <3>3. Len(log) - Len(log) = Len(turns) + 1 - pending_note'
        BY <2>1, <1>a, <1>b
      <3> QED BY <3>1, <3>2, <3>3
    <2>2. CASE ~state.captures
      <3>1. /\ InFlight = 1 /\ pending_note' = pending_note
            /\ Len(turns) \in Nat /\ pending_note \in Int
        BY <2>2, <1>a, <1>b DEF InFlight, NoNote
      <3>2. PICK j \in 1..Len(log) :
               /\ log[j].marker = "note_clarified" /\ log[j].run = run
               /\ Len(log) - j = Len(turns) - pending_note + 1
               /\ \A k \in (j + 1)..Len(log) : log[k].marker \notin NoteEnd
        BY <3>1 DEF IInv, NotePendingWitness
      <3>3. Len(log) - j = Len(turns) + 1 - pending_note'
        BY <3>1, <3>2
      <3> QED BY <3>2, <3>3
    <2> QED BY <2>1, <2>2, <1>b
  <1>4. StateWitness'
    BY <1>a DEF IInv, StateWitness
  <1>5. disk = Append(turns, record)
    BY <1>a DEF IInv, LiveSessionDurable
  <1>6. LiveSessionDurable'
    BY <1>a, <1>5 DEF LiveSessionDurable
  <1>7. ShownIsDurable'
    <2>1. Len(disk) \in DOMAIN disk /\ disk[Len(disk)].task_id = state.task_id
      BY <1>5, <1>t, <1>b
    <2> QED BY <2>1, <1>a DEF IInv, ShownIsDurable
  <1>8. DownIsFresh'
    BY <1>a DEF DownIsFresh
  <1> QED BY <1>1, <1>2, <1>3, <1>4, <1>6, <1>7, <1>8 DEF IInv

(* A stop forgets everything that needed a witness; a restart finds the    *)
(* session on disk.                                                        *)
LEMMA ProcessIInv ==
    ASSUME IInv, Stop \/ Restart
    PROVE IInv'
  <1>t. TypeOK
    BY DEF IInv
  <1>1. CASE Stop
    <2>1. NoState \in [task_id : Nat, status : AgentStatus, captures : BOOLEAN]
      BY DEF NoState, AgentStatus
    <2>2. TypeOK'
      <3>1. /\ turns' \in Seq(TurnRecord) /\ state' = NoState
            /\ facts' \subseteq Fact /\ notes' \subseteq Nat
        BY <1>1 DEF Stop
      <3> QED BY <1>t, <1>1, <2>1, <3>1 DEF Stop, TypeOK
    <2>3. /\ WipeIsConfirmed' /\ NoteAnswersFreshQuestion' /\ ContinuationHasFact'
          /\ ShownIsDurable'
      BY <1>1 DEF IInv, Stop, WipeIsConfirmed, NoteAnswersFreshQuestion,
                  ContinuationHasFact, ShownIsDurable, SameRun
    <2>4. /\ DeletePendingWitness' /\ NotePendingWitness' /\ StateWitness'
          /\ ContextWitness' /\ FactsCounted' /\ LiveSessionDurable' /\ DownIsFresh'
      BY <1>1 DEF Stop, DeletePendingWitness, NotePendingWitness, StateWitness,
                  ContextWitness, FactsCounted, LiveSessionDurable, DownIsFresh, NoState
    <2> QED BY <2>2, <2>3, <2>4 DEF IInv
  <1>2. CASE Restart
    <2>1. TypeOK'
      BY <1>t, <1>2 DEF Restart, TypeOK, pendings, store
    <2>2. /\ WipeIsConfirmed' /\ NoteAnswersFreshQuestion' /\ ContinuationHasFact'
          /\ ShownIsDurable'
      BY <1>2 DEF IInv, Restart, WipeIsConfirmed, NoteAnswersFreshQuestion,
                  ContinuationHasFact, ShownIsDurable, SameRun
    <2>3. /\ pending_delete_all' = FALSE /\ pending_note' = NoNote
          /\ last_memory_write_kind' = "none" /\ facts' = {} /\ state'.captures = FALSE
          /\ pc' = "idle" /\ disk' = turns'
      BY <1>2 DEF IInv, DownIsFresh, Restart, pendings, store
    <2>4. /\ DeletePendingWitness' /\ NotePendingWitness' /\ StateWitness'
          /\ ContextWitness' /\ FactsCounted' /\ LiveSessionDurable' /\ DownIsFresh'
      BY <2>3 DEF DeletePendingWitness, NotePendingWitness, StateWitness,
                  ContextWitness, FactsCounted, LiveSessionDurable, DownIsFresh
    <2> QED BY <2>1, <2>2, <2>4 DEF IInv
  <1> QED BY <1>1, <1>2

-----------------------------------------------------------------------------
LEMMA InitIInv == Init => IInv
  <1> SUFFICES ASSUME Init PROVE IInv
    OBVIOUS
  <1>0. NoState \in [task_id : Nat, status : AgentStatus, captures : BOOLEAN]
    BY DEF NoState, AgentStatus
  <1>1. TypeOK
    <2>1. /\ turns \in Seq(TurnRecord) /\ disk \in Seq(TurnRecord) /\ log \in Seq(Turn)
          /\ facts \subseteq Fact /\ notes \subseteq Nat /\ shown \subseteq Nat
      BY DEF Init
    <2>2. state \in [task_id : Nat, status : AgentStatus, captures : BOOLEAN]
      BY <1>0 DEF Init
    <2> QED BY <2>1, <2>2 DEF Init, TypeOK
  <1>2. /\ DOMAIN log = {} /\ state.captures = FALSE /\ turns = disk
    BY DEF Init, NoState
  <1>3. /\ WipeIsConfirmed /\ NoteAnswersFreshQuestion /\ ContinuationHasFact
        /\ ShownIsDurable
    BY <1>2 DEF Init, WipeIsConfirmed, NoteAnswersFreshQuestion, ContinuationHasFact,
                ShownIsDurable
  <1>4. /\ DeletePendingWitness /\ NotePendingWitness /\ StateWitness
        /\ ContextWitness /\ FactsCounted /\ LiveSessionDurable /\ DownIsFresh
    BY <1>2 DEF Init, DeletePendingWitness, NotePendingWitness, StateWitness,
                ContextWitness, FactsCounted, LiveSessionDurable, DownIsFresh
  <1> QED BY <1>1, <1>3, <1>4 DEF IInv

LEMMA NextIInv == IInv /\ [Next]_vars => IInv'
  <1> SUFFICES ASSUME IInv, [Next]_vars PROVE IInv'
    OBVIOUS
  <1>1. CASE HandleTurn
    <2>1. PICK marker \in Marker, status \in AgentStatus :
             Handled(marker, status) /\ Effect(marker)
      BY <1>1, HandlerEffect DEF IInv
    <2> QED BY <2>1, HandledIInv
  <1>2. CASE Save
    BY <1>2, SaveIInv
  <1>3. CASE AppendTurn
    BY <1>3, AppendIInv
  <1>4. CASE Stop \/ Restart
    BY <1>4, ProcessIInv
  <1>5. CASE UNCHANGED vars
    <2> USE <1>5 DEF vars, pendings, store
    <2>1. TypeOK' /\ DownIsFresh' /\ FactsCounted'
      BY DEF IInv, TypeOK, DownIsFresh, FactsCounted
    <2>2. WipeIsConfirmed' /\ DeletePendingWitness'
      BY DEF IInv, WipeIsConfirmed, DeletePendingWitness, SameRun
    <2>3. NoteAnswersFreshQuestion' /\ NotePendingWitness' /\ StateWitness'
      BY DEF IInv, NoteAnswersFreshQuestion, NotePendingWitness, StateWitness,
             InFlight, SameRun
    <2>4. ContinuationHasFact' /\ ContextWitness'
      BY DEF IInv, ContinuationHasFact, ContextWitness, SameRun
    <2>5. LiveSessionDurable' /\ ShownIsDurable'
      BY DEF IInv, LiveSessionDurable, ShownIsDurable, record
    <2> QED BY <2>1, <2>2, <2>3, <2>4, <2>5 DEF IInv
  <1> QED BY <1>1, <1>2, <1>3, <1>4, <1>5 DEF Next

-----------------------------------------------------------------------------
(* Every variable of the session keeps its type.                           *)
THEOREM SessionTypeOK == Spec => []TypeOK
  <1>1. IInv => TypeOK
    BY DEF IInv
  <1> QED BY <1>1, InitIInv, NextIInv, PTL DEF Spec

(* Memory is wiped, a note named and a continuation saved only on the      *)
(* strength of what this process was told before, however the turns, the   *)
(* dedicated commands and the restarts interleave (_handle_turn_impl).     *)
THEOREM SessionActsOnRequest ==
    Spec => [](WipeIsConfirmed /\ NoteAnswersFreshQuestion /\ ContinuationHasFact)
  <1>1. IInv => WipeIsConfirmed /\ NoteAnswersFreshQuestion /\ ContinuationHasFact
    BY DEF IInv
  <1> QED BY <1>1, InitIInv, NextIInv, PTL DEF Spec

(* A note is named only by the answer to a fresh question of this process  *)
(* (_try_handle_pending).                                                  *)
THEOREM SessionNotesAnswer == Spec => []NoteAnswersFreshQuestion
  BY SessionActsOnRequest, PTL

(* A continuation is saved only after a fact that was not wiped since.     *)
THEOREM SessionContinuations == Spec => []ContinuationHasFact
  BY SessionActsOnRequest, PTL

(* The fact counter never denies a stored fact, for any number of turns.   *)
THEOREM SessionFactsCounted == Spec => []FactsCounted
  <1>1. IInv => FactsCounted
    BY DEF IInv
  <1> QED BY <1>1, InitIInv, NextIInv, PTL DEF Spec

(* The live session is never ahead of the file, and every answer shown is  *)
(* durable, whenever the process stops (_record_terminal_state).           *)
THEOREM SessionDurable == Spec => [](LiveSessionDurable /\ ShownIsDurable)
  <1>1. IInv => LiveSessionDurable /\ ShownIsDurable
    BY DEF IInv
  <1> QED BY <1>1, InitIInv, NextIInv, PTL DEF Spec

(* The session file only grows, one turn at a time.                        *)
THEOREM SessionHistory == Spec => HistoryAppendOnly
  <1> DEFINE Grows == \/ disk' = disk
                      \/ /\ Len(disk') = Len(disk) + 1
                         /\ SubSeq(disk', 1, Len(disk)) = disk
  <1>1. ASSUME IInv, [Next]_vars PROVE [Grows]_vars
    <2>1. CASE Save
      <3>1. turns \in Seq(TurnRecord) /\ record \in TurnRecord
        BY <1>1, RecordTyped DEF IInv, TypeOK
      <3>2. disk = turns /\ disk' = Append(turns, record)
        BY <1>1, <2>1 DEF IInv, Save, LiveSessionDurable
      <3> QED BY <3>1, <3>2
    <2>2. CASE HandleTurn
      <3>1. PICK marker \in Marker, status \in AgentStatus : Handled(marker, status)
        BY <1>1, <2>2, HandlerEffect DEF IInv
      <3> QED BY <3>1 DEF Handled
    <2>3. CASE AppendTurn \/ Stop \/ Restart
      BY <2>3 DEF AppendTurn, Stop, Restart
    <2> QED BY <1>1, <2>1, <2>2, <2>3 DEF Next
  <1> QED BY <1>1, InitIInv, NextIInv, PTL DEF Spec, HistoryAppendOnly

(* The topics only leave conversations out: each conversation of the run   *)
(* is one of SessionRuntime, so that all of the above holds of it.         *)
THEOREM SessionTopicsAreConversations ==
    MCSpec => /\ Spec
              /\ [](/\ TypeOK /\ ShownIsDurable /\ WipeIsConfirmed
                    /\ NoteAnswersFreshQuestion /\ ContinuationHasFact)
  <1>1. MCInit => Init
    BY DEF MCInit
  <1>2. [MCNext]_<<vars, topic>> => [Next]_vars
    BY DEF MCNext
  <1>3. MCSpec => Spec
    BY <1>1, <1>2, PTL DEF MCSpec, Spec
  <1> QED BY <1>3, SessionTypeOK, SessionActsOnRequest, SessionDurable, PTL

=============================================================================
