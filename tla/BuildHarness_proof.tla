------------------------- MODULE BuildHarness_proof -------------------------
(***************************************************************************)
(* Proofs about the three parts of the build harness, for every contract,  *)
(* change, evidence list and report text, every set of writers, and every  *)
(* checkout.  Each part has its inductive invariant at the head of its     *)
(* section; the last section puts the parts together.                      *)
(***************************************************************************)
EXTENDS MCBuildHarness, SequenceTheorems, WellFoundedInduction, TLAPS

-----------------------------------------------------------------------------
(* The delivery workflow.  The invariant says of the gate decision that    *)
(* the caller holds that it has no finding exactly when the change is      *)
(* proven, and that only a decision without findings is complete; of the   *)
(* answer that it is still the one the guard gives in this state; and of   *)
(* the task state that the trail holds the events it takes to get there.   *)

Types(gi) == PathFindings(gi.changed) \cup EvidenceFindings(gi)

GateSound ==
    gate # NoneYet =>
        /\ DOMAIN gate = {"decision", "findings", "matched", "missing"}
        /\ gate = [f \in DOMAIN gate |-> gate[f]]
        /\ gate.findings = {} <=> proven
        /\ gate.findings = {} => /\ gate.decision = "PASS"
                                 /\ gate.missing = {}
                                 /\ RequiredEvidence \subseteq gate.matched

AnswerCurrent ==
    answer # NoneYet =>
        \/ answer.guard = NoneYet
        \/ /\ answer.approved \in BOOLEAN
           /\ answer.guard = evaluate_process_guard(answer.action, task_state, reports, gate,
                                                    answer.approved)

Verified == \E i \in DOMAIN trail : trail[i] = "verification_passed"

Gated ==
    \E i, j \in DOMAIN trail :
        i < j /\ trail[i] = "verification_passed" /\ trail[j] = "changegate_passed"

Approved ==
    \E i, j, k \in DOMAIN trail :
        /\ i < j /\ j < k
        /\ trail[i] = "verification_passed"
        /\ trail[j] = "changegate_passed"
        /\ trail[k] = "human_approved"

TrailEarns ==
    /\ task_state # "READY_FOR_MERGE"
    /\ task_state = "VERIFIED_PASS" => Verified
    /\ task_state = "READY_FOR_HUMAN_APPROVAL" => Gated
    /\ task_state \in {"APPROVED", "DONE"} => Approved

DeliveryTyped ==
    /\ task_state \in TaskState
    /\ trail \in Seq(TaskEvent)
    /\ proven \in BOOLEAN

DeliveryInv == DeliveryTyped /\ GateSound /\ AnswerCurrent /\ TrailEarns

-----------------------------------------------------------------------------
(* The gate finds nothing exactly when the change is proven                *)

LEMMA PathsProven ==
    ASSUME NEW changed
    PROVE PathFindings(changed) = {} <=>
            /\ changed # {}
            /\ changed \cap (InvalidPaths \cup forbidden_paths) = {}
            /\ broad_scope_allowed \/ changed \subseteq allowed_paths
            /\ DependencyApproval => changed \cap DEPENDENCY_FILES = {}
  <1> DEFINE files == changed \ InvalidPaths
  <1>1. PathFindings(changed) = {} <=>
          /\ changed \cap InvalidPaths = {}
          /\ changed # {}
          /\ files \cap forbidden_paths = {}
          /\ {f \in files \ forbidden_paths :
                 allowed_paths # {} /\ ~broad_scope_allowed /\ f \notin allowed_paths} = {}
          /\ {f \in files \cap DEPENDENCY_FILES : DependencyApproval} = {}
    BY Zenon DEF PathFindings
  <1> QED BY <1>1, ContractAssumption, FlagsAssumption DEF validate_contract_dict

LEMMA EvidenceProven ==
    ASSUME NEW gi
    PROVE EvidenceFindings(gi) = {} <=>
            /\ \A i \in DOMAIN gi.evidence : gi.evidence[i].outcome # "malformed"
            /\ \A i, j \in DOMAIN gi.evidence : gi.evidence[i].id = gi.evidence[j].id => i = j
            /\ \A c \in RequiredEvidence : \E i \in DOMAIN gi.evidence :
                  /\ gi.evidence[i].command = c
                  /\ gi.evidence[i].outcome = "passed"
                  /\ gi.expected # NoneYet
                  /\ gi.evidence[i].commit = gi.expected
            /\ RequiredEvidence = {} => gi.evidence # <<>>
  <1> DEFINE E == gi.evidence
  <1>1. EvidenceFindings(gi) = {} <=>
          /\ \A i \in DOMAIN E : ~malformed(E[i])
          /\ duplicate_ids(E) = {}
          /\ RequiredEvidence \subseteq matched(gi)
          /\ ~(E = <<>> /\ RequiredEvidence = {})
    BY Zenon DEF EvidenceFindings
  <1>2. duplicate_ids(E) = {} <=> \A i, j \in DOMAIN E : E[i].id = E[j].id => i = j
    BY Zenon DEF duplicate_ids
  <1>3. ASSUME duplicate_ids(E) = {}, \A i \in DOMAIN E : ~malformed(E[i])
        PROVE RequiredEvidence \subseteq matched(gi) <=>
                \A c \in RequiredEvidence : \E i \in DOMAIN E :
                    /\ E[i].command = c
                    /\ E[i].outcome = "passed"
                    /\ gi.expected # NoneYet
                    /\ E[i].commit = gi.expected
    BY <1>3, Zenon DEF matched, satisfies, evidence_verdict
  <1> QED BY <1>1, <1>2, <1>3, Zenon DEF malformed

LEMMA FindsNothing ==
    ASSUME NEW gi
    PROVE Types(gi) = {} <=> Proven(gi)
  BY PathsProven, EvidenceProven, Zenon DEF Types, Proven

(* What the gate answers, in the terms of GateSound.                       *)
LEMMA GateAnswers ==
    ASSUME NEW gi
    PROVE LET g == evaluate_change_gate(gi) IN
            /\ DOMAIN g = {"decision", "findings", "matched", "missing"}
            /\ g = [f \in DOMAIN g |-> g[f]]
            /\ g.findings = {} <=> Proven(gi)
            /\ g.findings = {} => /\ g.decision = "PASS"
                                  /\ g.missing = {}
                                  /\ RequiredEvidence \subseteq g.matched
  <1> DEFINE F == {finding(t, SEVERITY[t]) : t \in Types(gi)}
             g == evaluate_change_gate(gi)
  <1>1. g = [decision |-> DecisionFrom(F), findings |-> F,
             matched |-> matched(gi), missing |-> RequiredEvidence \ matched(gi)]
    BY DEF evaluate_change_gate, Types
  <1>2. F = {} <=> Types(gi) = {}
    OBVIOUS
  <1>3. F = {} => DecisionFrom(F) = "PASS"
    BY DEF DecisionFrom
  <1>4. Types(gi) = {} => RequiredEvidence \subseteq matched(gi)
    BY Zenon DEF Types, EvidenceFindings
  <1> HIDE DEF F, g
  <1>5. /\ DOMAIN g = {"decision", "findings", "matched", "missing"}
        /\ g = [f \in DOMAIN g |-> g[f]]
        /\ g.findings = F /\ g.decision = DecisionFrom(F)
        /\ g.matched = matched(gi) /\ g.missing = RequiredEvidence \ matched(gi)
    BY <1>1
  <1>6. g.findings = {} <=> Proven(gi)
    BY <1>5, <1>2, FindsNothing
  <1>7. g.findings = {} => /\ g.decision = "PASS" /\ g.missing = {}
                           /\ RequiredEvidence \subseteq g.matched
    BY <1>5, <1>2, <1>3, <1>4
  <1> QED BY <1>5, <1>6, <1>7 DEF g

-----------------------------------------------------------------------------
(* What a PASS of the guard says                                           *)

LEMMA NothingOutstanding ==
    ASSUME NEW rs, NEW g, Outstanding(rs, g) = {}
    PROVE /\ result(rs["implementer"]) = "PASS"
          /\ result(rs["verifier"]) = "PASS"
          /\ g # NoneYet /\ validate_change_gate_decision(g)
  BY Zenon DEF Outstanding

LEMMA GuardPasses ==
    ASSUME NEW action \in SHIP_ACTIONS, NEW st, NEW rs, NEW g, NEW approved \in BOOLEAN,
           evaluate_process_guard(action, st, rs, g, approved).decision = "PASS"
    PROVE /\ approved
          /\ st \in VALID_SHIP_STATES[action]
          /\ Outstanding(rs, g) = {}
          /\ \A s \in Slot : report_identity_ok(rs[s], s)
  <1> DEFINE untrusted == {s \in Slot : ~report_identity_ok(rs[s], s)}
             outstanding == Outstanding(rs, g)
             unshippable == IF action \in SHIP_ACTIONS /\ st \notin VALID_SHIP_STATES[action]
                            THEN {"valid_task_state"} ELSE {}
             approval == IF approved THEN {} ELSE {"human_approval"}
  <1>1. action \in IntendedAction
    BY DEF SHIP_ACTIONS, IntendedAction
  <1>2. \A missing : /\ guard_decision("BLOCK", missing).decision # "PASS"
                     /\ guard_decision("REVIEW_REQUIRED", missing).decision # "PASS"
    BY DEF guard_decision
  <1>3. untrusted = {}
    <2> SUFFICES ASSUME untrusted # {} PROVE FALSE
      OBVIOUS
    <2>1. evaluate_process_guard(action, st, rs, g, approved)
            = guard_decision("BLOCK", {"trusted_report"})
      BY <1>1, Zenon DEF evaluate_process_guard
    <2> QED BY <2>1, <1>2
  <1>4. evaluate_process_guard(action, st, rs, g, approved) =
           IF \E s \in Slot : result(rs[s]) = "BLOCKED" THEN guard_decision("BLOCK", {})
           ELSE IF result(rs["verifier"]) = "NEEDS_FIX"
                THEN guard_decision("BLOCK", {"fix_and_reverify"})
           ELSE IF action \in SHIP_ACTIONS
                THEN IF unshippable \cup outstanding # {}
                     THEN guard_decision("BLOCK", unshippable \cup outstanding)
                     ELSE IF approval = {} THEN guard_decision("PASS", {})
                     ELSE guard_decision(IF action \in APPROVAL_HARD_ACTIONS
                                         THEN "BLOCK" ELSE "REVIEW_REQUIRED", approval)
                ELSE IF outstanding \cup approval # {}
                     THEN guard_decision("REVIEW_REQUIRED", outstanding \cup approval)
                     ELSE guard_decision("PASS", {})
    BY <1>1, <1>3, Zenon DEF evaluate_process_guard
  <1>5. unshippable \cup outstanding = {} /\ approval = {}
    <2> HIDE DEF untrusted, outstanding, unshippable, approval
    <2> QED BY <1>2, <1>4
  <1> QED BY <1>3, <1>5

-----------------------------------------------------------------------------
(* The trail                                                               *)

LEMMA TransitionKnown ==
    ASSUME NEW current, NEW event, NEW next \in transition(current, event)
    PROVE \/ event = "blocked" /\ next = "BLOCKED"
          \/ event # "blocked" /\ <<current, event, next>> \in TRANSITIONS
  <1>1. CASE event = "blocked"
    BY <1>1 DEF transition
  <1>2. CASE event # "blocked"
    <2>1. PICK t \in TRANSITIONS : t[1] = current /\ t[2] = event /\ next = t[3]
      BY <1>2, Zenon DEF transition
    <2>2. t = <<t[1], t[2], t[3]>>
      BY <2>1 DEF TRANSITIONS
    <2> QED BY <1>2, <2>1, <2>2
  <1> QED BY <1>1, <1>2

(* Appending an event keeps what the trail holds and adds the event last.  *)
LEMMA TrailGrows ==
    ASSUME NEW old \in Seq(TaskEvent), NEW event \in TaskEvent, NEW new,
           new = Append(old, event)
    PROVE /\ new \in Seq(TaskEvent)
          /\ \A i \in DOMAIN old : i \in DOMAIN new /\ new[i] = old[i]
          /\ \A i \in DOMAIN old : i < Len(new)
          /\ Len(new) \in DOMAIN new /\ new[Len(new)] = event
          /\ \A i \in DOMAIN old : i \in Int
  OBVIOUS

LEMMA AdvanceEarns ==
    ASSUME DeliveryTyped, TrailEarns, NEW event \in TaskEvent, Advance(event)
    PROVE DeliveryTyped' /\ TrailEarns'
  <1>1. /\ task_state' \in transition(task_state, event)
        /\ trail' = IF event \in {"implementation_started", "blocked"} THEN <<event>>
                    ELSE Append(trail, event)
        /\ proven' = proven
    BY DEF Advance
  <1>2. \/ event = "blocked" /\ task_state' = "BLOCKED"
        \/ event # "blocked" /\ <<task_state, event, task_state'>> \in TRANSITIONS
    BY <1>1, TransitionKnown
  <1>3. trail' \in Seq(TaskEvent)
    BY <1>1 DEF DeliveryTyped
  <1>4. DeliveryTyped'
    BY <1>1, <1>2, <1>3 DEF DeliveryTyped, TRANSITIONS, TaskState
  <1>5. CASE event \in {"implementation_started", "blocked"}
    <2>1. task_state' \in {"IMPLEMENTING", "BLOCKED"}
      BY <1>2, <1>5 DEF TRANSITIONS
    <2> QED BY <2>1, <1>4 DEF TrailEarns
  <1>6. CASE event \notin {"implementation_started", "blocked"}
    <2>1. trail' = Append(trail, event)
      BY <1>1, <1>6
    <2>2. /\ \A i \in DOMAIN trail : i \in DOMAIN trail' /\ trail'[i] = trail[i]
          /\ \A i \in DOMAIN trail : i < Len(trail')
          /\ Len(trail') \in DOMAIN trail' /\ trail'[Len(trail')] = event
      BY <2>1, TrailGrows DEF DeliveryTyped
    <2>3. task_state' # "READY_FOR_MERGE"
      BY <1>2 DEF TRANSITIONS
    <2>4. task_state' = "VERIFIED_PASS" => Verified'
      <3>1. task_state' = "VERIFIED_PASS" => event = "verification_passed"
        BY <1>2 DEF TRANSITIONS
      <3> QED BY <2>2, <3>1 DEF Verified
    <2>5. task_state' = "READY_FOR_HUMAN_APPROVAL" => Gated'
      <3> SUFFICES ASSUME task_state' = "READY_FOR_HUMAN_APPROVAL" PROVE Gated'
        OBVIOUS
      <3>1. event = "changegate_passed" /\ task_state = "VERIFIED_PASS"
        BY <1>2 DEF TRANSITIONS
      <3>2. PICK i \in DOMAIN trail : trail[i] = "verification_passed"
        BY <3>1 DEF TrailEarns, Verified
      <3> QED BY <2>2, <3>1, <3>2 DEF Gated
    <2>6. task_state' \in {"APPROVED", "DONE"} => Approved'
      <3>1. CASE task_state' = "APPROVED"
        <4>1. event = "human_approved" /\ task_state = "READY_FOR_HUMAN_APPROVAL"
          BY <1>2, <3>1 DEF TRANSITIONS, TrailEarns
        <4>2. PICK i, j \in DOMAIN trail :
                 i < j /\ trail[i] = "verification_passed" /\ trail[j] = "changegate_passed"
          BY <4>1 DEF TrailEarns, Gated
        <4> QED BY <2>2, <4>1, <4>2 DEF Approved
      <3>2. CASE task_state' = "DONE"
        <4>1. task_state = "APPROVED"
          BY <1>2, <3>2 DEF TRANSITIONS, TrailEarns
        <4>2. PICK i, j, k \in DOMAIN trail :
                 /\ i < j /\ j < k
                 /\ trail[i] = "verification_passed"
                 /\ trail[j] = "changegate_passed"
                 /\ trail[k] = "human_approved"
          BY <4>1 DEF TrailEarns, Approved
        <4> QED BY <2>2, <4>2 DEF Approved
      <3> QED BY <3>1, <3>2
    <2> QED BY <1>4, <2>3, <2>4, <2>5, <2>6 DEF TrailEarns
  <1> QED BY <1>5, <1>6

-----------------------------------------------------------------------------
(* The invariant is inductive                                              *)

LEMMA DeliveryInitInv == DeliveryInit => DeliveryInv
  <1> SUFFICES ASSUME DeliveryInit PROVE DeliveryInv
    OBVIOUS
  <1>1. DeliveryTyped
    <2>1. task_state \in TaskState /\ proven \in BOOLEAN
      BY Zenon DEF DeliveryInit, TaskState
    <2>2. trail \in Seq(TaskEvent)
      BY DEF DeliveryInit
    <2> QED BY <2>1, <2>2 DEF DeliveryTyped
  <1>2. GateSound /\ AnswerCurrent
    BY DEF DeliveryInit, GateSound, AnswerCurrent
  <1>3. TrailEarns
    BY DEF DeliveryInit, TrailEarns
  <1> QED BY <1>1, <1>2, <1>3 DEF DeliveryInv

(* A step that leaves state, trail, gate and proven alone and has no       *)
(* answer outstanding.                                                     *)
LEMMA QuietStep ==
    ASSUME DeliveryInv, UNCHANGED <<task_state, trail, gate, proven>>, AnswerCurrent'
    PROVE DeliveryInv'
  BY DEF DeliveryInv, DeliveryTyped, GateSound, TrailEarns, Verified, Gated, Approved

LEMMA GateStep ==
    ASSUME DeliveryInv, NEW gi, answer = NoneYet,
           UNCHANGED <<task_state, trail, reports, answer>>, proven' = Proven(gi),
           \/ gate' = evaluate_change_gate(gi)
           \/ load_evidence_file(gi.evidence) # {} /\ gate' = LoadErrors
    PROVE DeliveryInv'
  <1>1. Proven(gi) \in BOOLEAN
    BY Zenon DEF Proven
  <1>2. GateSound'
    <2>1. CASE gate' = evaluate_change_gate(gi)
      BY <2>1, GateAnswers DEF GateSound
    <2>2. CASE load_evidence_file(gi.evidence) # {} /\ gate' = LoadErrors
      <3>1. ~Proven(gi)
        BY <2>2 DEF load_evidence_file, malformed, Proven
      <3>2. gate'.findings # {}
        BY <2>2 DEF LoadErrors
      <3>3. /\ DOMAIN gate' = {"decision", "findings", "matched", "missing"}
            /\ gate' = [f \in DOMAIN gate' |-> gate'[f]]
        BY <2>2 DEF LoadErrors
      <3> QED BY <3>1, <3>2, <3>3 DEF GateSound
    <2> QED BY <2>1, <2>2
  <1> QED BY <1>1, <1>2 DEF DeliveryInv, DeliveryTyped, AnswerCurrent, TrailEarns,
                           Verified, Gated, Approved

(* A decision marked PASS by somebody else keeps its findings.             *)
LEMMA AlterStep ==
    ASSUME DeliveryInv, AlterGate
    PROVE DeliveryInv'
  <1>1. /\ gate # NoneYet /\ gate.decision # "PASS" /\ answer = NoneYet
        /\ gate' = [gate EXCEPT !.decision = "PASS",
                                !.findings = {finding(f.type, "info") : f \in @}]
        /\ UNCHANGED <<task_state, trail, reports, proven, answer>>
    BY DEF AlterGate
  <1>2. /\ DOMAIN gate = {"decision", "findings", "matched", "missing"}
        /\ gate.findings # {} /\ proven = FALSE
    BY <1>1 DEF DeliveryInv, GateSound, DeliveryTyped
  <1>3. /\ DOMAIN gate' = DOMAIN gate
        /\ gate' = [f \in DOMAIN gate' |-> gate'[f]]
        /\ gate'.findings = {finding(f.type, "info") : f \in gate.findings}
    BY <1>1, <1>2
  <1>4. gate'.findings # {}
    BY <1>2, <1>3
  <1>5. GateSound'
    BY <1>1, <1>2, <1>3, <1>4 DEF GateSound
  <1> QED BY <1>1, <1>5 DEF DeliveryInv, DeliveryTyped, AnswerCurrent, TrailEarns,
                           Verified, Gated, Approved

LEMMA DeliveryNextInv == DeliveryInv /\ [DeliveryNext]_deliveryVars => DeliveryInv'
  <1> SUFFICES ASSUME DeliveryInv, [DeliveryNext]_deliveryVars PROVE DeliveryInv'
    OBVIOUS
  <1>1. ASSUME NEW e \in TaskEvent, Advance(e) PROVE DeliveryInv'
    <2>1. DeliveryTyped' /\ TrailEarns'
      BY <1>1, AdvanceEarns DEF DeliveryInv
    <2>2. GateSound' /\ AnswerCurrent'
      BY <1>1 DEF Advance, DeliveryInv, GateSound, AnswerCurrent
    <2> QED BY <2>1, <2>2 DEF DeliveryInv
  <1>2. ASSUME NEW s \in Slot, NEW text \in RawReports,
               ReceiveReport(s, text) \/ IngestReport(s, text)
        PROVE DeliveryInv'
    BY <1>2, QuietStep DEF IngestReport, ReceiveReport, AnswerCurrent
  <1>3. ASSUME NEW gi \in GateInputs, RunChangeGate(gi) PROVE DeliveryInv'
    BY <1>3, GateStep DEF RunChangeGate
  <1>4. ASSUME NEW gi \in GateInputs, ChangeGateCommand(gi) PROVE DeliveryInv'
    BY <1>4, GateStep DEF ChangeGateCommand
  <1>5. ASSUME AlterGate PROVE DeliveryInv'
    BY <1>5, AlterStep
  <1>6. ASSUME NEW a, NEW approved \in BOOLEAN, AskGuard(a, approved) PROVE DeliveryInv'
    <2>1. /\ answer'.action = a /\ answer'.approved = approved
          /\ answer'.guard = evaluate_process_guard(a, task_state, reports, gate, approved)
          /\ UNCHANGED <<task_state, trail, reports, gate, proven>>
      BY <1>6 DEF AskGuard
    <2>2. AnswerCurrent'
      BY <2>1 DEF AnswerCurrent
    <2> QED BY <2>1, <2>2, QuietStep
  <1>7. ASSUME NextActionCommand PROVE DeliveryInv'
    <2>1. answer'.guard = NoneYet /\ UNCHANGED <<task_state, trail, reports, gate, proven>>
      BY <1>7 DEF NextActionCommand
    <2> QED BY <2>1, QuietStep DEF AnswerCurrent
  <1>8. ASSUME TakeAnswer PROVE DeliveryInv'
    BY <1>8, QuietStep DEF TakeAnswer, AnswerCurrent
  <1>9. ASSUME UNCHANGED deliveryVars PROVE DeliveryInv'
    <2>1. UNCHANGED <<task_state, trail, reports, gate, proven, answer>>
      BY <1>9 DEF deliveryVars
    <2>2. AnswerCurrent'
      BY <2>1 DEF DeliveryInv, AnswerCurrent
    <2> QED BY <2>1, <2>2, QuietStep
  <1> QED BY <1>1, <1>2, <1>3, <1>4, <1>5, <1>6, <1>7, <1>8, <1>9 DEF DeliveryNext

-----------------------------------------------------------------------------
(* The gate passes exactly the changes that satisfy the contract, whatever *)
(* the change, the evidence and the contract, and also when a caller marks *)
(* a decision as PASS (evaluate_change_gate, validate_change_gate_decision *)
(* of process_guard.py).                                                   *)
THEOREM DeliveryGateIsProof == DeliverySpec => []GatePassIsProof
  <1>1. DeliveryInv => GatePassIsProof
    BY DEF DeliveryInv, DeliveryTyped, GateSound, GatePassIsProof, validate_change_gate_decision
  <1> QED BY <1>1, DeliveryInitInv, DeliveryNextInv, PTL DEF DeliverySpec

(* The guard lets a shipping action pass only when the change is proven,   *)
(* both reports are PASS and of this task, a human approved, and the task  *)
(* was verified, gated and approved in this order since implementation     *)
(* last started (evaluate_process_guard, transition).                      *)
THEOREM DeliveryShippingIsEarned == DeliverySpec => []ShippingIsEarned
  <1>1. ASSUME DeliveryInv PROVE ShippingIsEarned
    <2> SUFFICES ASSUME Guarded, answer.guard.decision = "PASS",
                        answer.action \in SHIP_ACTIONS
                 PROVE /\ proven
                       /\ answer.approved
                       /\ \A s \in Slot : reports[s].result = "PASS" /\ reports[s].task = "this"
                       /\ Approved
      BY DEF ShippingIsEarned, Approved
    <2>1. /\ answer.approved \in BOOLEAN
          /\ answer.guard = evaluate_process_guard(answer.action, task_state, reports, gate,
                                                   answer.approved)
      BY <1>1 DEF DeliveryInv, AnswerCurrent, Guarded
    <2>2. /\ answer.approved
          /\ task_state \in VALID_SHIP_STATES[answer.action]
          /\ Outstanding(reports, gate) = {}
          /\ \A s \in Slot : report_identity_ok(reports[s], s)
      BY <1>1, <2>1, GuardPasses
    <2>3. /\ result(reports["implementer"]) = "PASS"
          /\ result(reports["verifier"]) = "PASS"
          /\ gate # NoneYet /\ validate_change_gate_decision(gate)
      BY <2>2, NothingOutstanding
    <2>4. proven
      BY <1>1, <2>3 DEF DeliveryInv, DeliveryTyped, GateSound, validate_change_gate_decision
    <2>5. \A s \in Slot : reports[s] # NoneYet /\ reports[s].result = "PASS"
      BY <2>3, NoneYetAssumption DEF Slot, result
    <2>6. \A s \in Slot : reports[s].task = "this"
      BY <2>2, <2>5 DEF report_identity_ok
    <2>7. task_state \in {"READY_FOR_MERGE", "APPROVED", "DONE"}
      BY <2>2 DEF VALID_SHIP_STATES, SHIP_ACTIONS
    <2>8. Approved
      BY <1>1, <2>7 DEF DeliveryInv, TrailEarns
    <2> QED BY <2>2, <2>4, <2>5, <2>6, <2>8
  <1> QED BY <1>1, DeliveryInitInv, DeliveryNextInv, PTL DEF DeliverySpec

-----------------------------------------------------------------------------
(* The evidence store.  Every file that a reader or a power loss can meet  *)
(* was synced and holds what a writer wanted; a writer on its way past a   *)
(* file was overtaken by it; what was logged is synced.                    *)

UnderWay == {"looked", "written", "synced"}

FilesWhole ==
    \A f \in files_on_disk \cup {artifact} :
        f # Absent => /\ f \in StoredFile /\ f.synced
                      /\ \E w \in Writer : saving[w] # "idle" /\ f.content = wanted[w]

Overtaken ==
    \A w \in Writer : saving[w] \in UnderWay /\ artifact # Absent => w \in overtaken

WantedKnown == \A w \in Writer : saving[w] # "idle" => wanted[w] \in Content

\* The line of w ends within the first n fragments of l.
Ends(l, n, w) == \E j \in 1..n : l[j] = <<w, "tail">>

LogSynced ==
    \A w \in Writer :
        /\ appending[w] = "complete" => Ends(log, Len(log), w)
        /\ appending[w] = "logged" => Ends(log, synced_length, w)

StoreInv == StoreTypeOK /\ FilesWhole /\ Overtaken /\ WantedKnown /\ LogSynced

LEMMA StoreInitInv == StoreInit => StoreInv
  BY DEF StoreInit, StoreInv, StoreTypeOK, FilesWhole, Overtaken, WantedKnown, LogSynced, UnderWay

(* The steps that leave the log alone.                                     *)
LEMMA SavingKeepsLog ==
    ASSUME StoreInv, LogUnchanged
    PROVE LogSynced' /\ log' \in Seq(Fragment) /\ synced_length' \in 0..Len(log')
            /\ appending' = appending
  BY DEF StoreInv, StoreTypeOK, LogUnchanged, LogSynced

(* The steps that leave the artifact alone.                                *)
LEMMA AppendingKeepsArtifact ==
    ASSUME StoreInv, ArtifactUnchanged,
           appending' \in [Writer -> {"idle", "opened", "partial", "complete", "logged", "dead"}],
           log' \in Seq(Fragment), synced_length' \in 0..Len(log'), LogSynced'
    PROVE StoreInv'
  BY DEF StoreInv, StoreTypeOK, ArtifactUnchanged, FilesWhole, Overtaken, WantedKnown

LEMMA LookInv ==
    ASSUME StoreInv, NEW w \in Writer, NEW c \in Content, Look(w, c)
    PROVE StoreInv'
  <1>1. LogUnchanged
    BY DEF Look
  <1>2. StoreTypeOK'
    BY <1>1, SavingKeepsLog DEF Look, StoreInv, StoreTypeOK
  <1>3. FilesWhole'
    BY DEF Look, StoreInv, StoreTypeOK, FilesWhole
  <1>4. Overtaken'
    BY DEF Look, StoreInv, StoreTypeOK, Overtaken, UnderWay
  <1>5. WantedKnown'
    BY DEF Look, StoreInv, StoreTypeOK, WantedKnown
  <1> QED BY <1>1, <1>2, <1>3, <1>4, <1>5, SavingKeepsLog DEF StoreInv

LEMMA TempFileInv ==
    ASSUME StoreInv, NEW w \in Writer, WriteTempFile(w) \/ FsyncTempFile(w) \/ SaveFails(w)
    PROVE StoreInv'
  <1>1. LogUnchanged
    BY DEF WriteTempFile, FsyncTempFile, SaveFails
  <1>2. StoreTypeOK'
    BY <1>1, SavingKeepsLog DEF WriteTempFile, FsyncTempFile, SaveFails, StoreInv, StoreTypeOK
  <1>3. FilesWhole'
    BY DEF WriteTempFile, FsyncTempFile, SaveFails, StoreInv, StoreTypeOK, FilesWhole
  <1>4. Overtaken'
    BY DEF WriteTempFile, FsyncTempFile, SaveFails, StoreInv, StoreTypeOK, Overtaken, UnderWay
  <1>5. WantedKnown'
    BY DEF WriteTempFile, FsyncTempFile, SaveFails, StoreInv, StoreTypeOK, WantedKnown
  <1> QED BY <1>1, <1>2, <1>3, <1>4, <1>5, SavingKeepsLog DEF StoreInv

LEMMA ReplaceTargetInv ==
    ASSUME StoreInv, NEW w \in Writer, ReplaceTarget(w)
    PROVE StoreInv'
  <1>1. LogUnchanged
    BY DEF ReplaceTarget
  <1>2. /\ saving[w] = "synced" /\ saving' = [saving EXCEPT ![w] = "saved"]
        /\ artifact' = file(wanted[w], TRUE)
        /\ files_on_disk' = files_on_disk \cup {artifact'}
        /\ wanted' = wanted /\ wanted[w] \in Content
    BY DEF ReplaceTarget, StoreInv, WantedKnown
  <1>3. artifact' \in StoredFile /\ artifact'.synced /\ artifact'.content = wanted[w]
    BY <1>2 DEF file, StoredFile
  <1>4. StoreTypeOK'
    BY <1>1, <1>2, <1>3, SavingKeepsLog DEF StoreInv, StoreTypeOK
  <1>5. FilesWhole'
    BY <1>2, <1>3 DEF StoreInv, StoreTypeOK, FilesWhole
  <1>6. Overtaken' /\ WantedKnown'
    BY DEF ReplaceTarget, StoreInv, StoreTypeOK, Overtaken, WantedKnown, UnderWay
  <1> QED BY <1>1, <1>4, <1>5, <1>6, SavingKeepsLog DEF StoreInv

(* What ends in a log ends in every longer one.                            *)
LEMMA EndsMonotonic ==
    ASSUME NEW l, NEW m, NEW n \in Nat, NEW k \in Nat, n <= k, NEW w,
           \A j \in 1..n : m[j] = l[j], Ends(l, n, w)
    PROVE Ends(m, k, w)
  BY DEF Ends

(* A line that is complete ends in the log, and stays there.               *)
LEMMA FlushLineInv ==
    ASSUME StoreInv, NEW w \in Writer, NEW whole \in BOOLEAN, FlushLine(w, whole)
    PROVE StoreInv'
  <1> log \in Seq(Fragment) /\ <<w, "head">> \in Fragment /\ <<w, "tail">> \in Fragment
    BY DEF StoreInv, StoreTypeOK, Fragment
  <1> DEFINE h == <<w, "head">>
             t == <<w, "tail">>
  <1>1. /\ log' \in Seq(Fragment) /\ Len(log) <= Len(log')
        /\ \A j \in 1..Len(log) : log'[j] = log[j]
        /\ whole => Len(log') # 0 /\ log'[Len(log')] = t
    <2> h \in Fragment /\ t \in Fragment
      OBVIOUS
    <2> HIDE DEF h, t
    <2>1. CASE log' = log \o <<h, t>>
      BY <2>1
    <2>2. CASE ~whole /\ log' = Append(log, h)
      BY <2>2
    <2>3. CASE log' = Append(log, t)
      BY <2>3
    <2> QED BY <2>1, <2>2, <2>3 DEF FlushLine, h, t
  <1>2. /\ ArtifactUnchanged /\ synced_length' = synced_length
        /\ appending' = [appending EXCEPT ![w] = IF whole THEN "complete" ELSE "partial"]
    BY DEF FlushLine
  <1>3. synced_length' \in 0..Len(log')
    BY <1>1, <1>2 DEF StoreInv, StoreTypeOK
  <1>4. LogSynced'
    <2>1. whole => Ends(log', Len(log'), w)
      BY <1>1 DEF Ends
    <2>2. ASSUME NEW v \in Writer PROVE Ends(log, Len(log), v) => Ends(log', Len(log'), v)
      <3>1. Len(log) \in Nat /\ Len(log') \in Nat
        BY <1>1
      <3> QED BY <1>1, <3>1, EndsMonotonic
    <2>3. ASSUME NEW v \in Writer
          PROVE Ends(log, synced_length, v) => Ends(log', synced_length', v)
      <3>1. synced_length \in Nat /\ \A j \in 1..synced_length : log'[j] = log[j]
        BY <1>1 DEF StoreInv, StoreTypeOK
      <3>2. synced_length <= synced_length
        BY <3>1
      <3>3. Ends(log, synced_length, v) => Ends(log', synced_length, v)
        BY <3>1, <3>2, EndsMonotonic
      <3> QED BY <1>2, <3>3
    <2> QED BY <1>2, <2>1, <2>2, <2>3 DEF StoreInv, StoreTypeOK, LogSynced
  <1>5. appending' \in [Writer -> {"idle", "opened", "partial", "complete", "logged", "dead"}]
    BY <1>2 DEF StoreInv, StoreTypeOK
  <1> QED BY <1>1, <1>2, <1>3, <1>4, <1>5, AppendingKeepsArtifact

LEMMA OpenOrSyncInv ==
    ASSUME StoreInv, NEW w \in Writer, OpenLog(w) \/ FsyncLog(w)
    PROVE StoreInv'
  <1>1. ArtifactUnchanged /\ log' = log
    BY DEF OpenLog, FsyncLog
  <1>2. appending' \in [Writer -> {"idle", "opened", "partial", "complete", "logged", "dead"}]
    BY DEF OpenLog, FsyncLog, StoreInv, StoreTypeOK
  <1>3. synced_length' \in 0..Len(log)
    BY DEF OpenLog, FsyncLog, StoreInv, StoreTypeOK
  <1>4. LogSynced'
    <2>1. CASE OpenLog(w)
      BY <2>1 DEF OpenLog, StoreInv, StoreTypeOK, LogSynced
    <2>2. CASE FsyncLog(w)
      <3>1. ASSUME NEW v \in Writer, Ends(log, synced_length, v) PROVE Ends(log, Len(log), v)
        <4>1. synced_length \in Nat /\ Len(log) \in Nat /\ synced_length <= Len(log)
          BY DEF StoreInv, StoreTypeOK
        <4> QED BY <3>1, <4>1, EndsMonotonic
      <3> QED BY <2>2, <3>1 DEF FsyncLog, StoreInv, StoreTypeOK, LogSynced
    <2> QED BY <2>1, <2>2
  <1> QED BY <1>1, <1>2, <1>3, <1>4, AppendingKeepsArtifact DEF StoreInv, StoreTypeOK

LEMMA DieInv ==
    ASSUME StoreInv, NEW w \in Writer, Die(w)
    PROVE StoreInv'
  <1>1. StoreTypeOK'
    BY DEF Die, StoreInv, StoreTypeOK
  <1>2. FilesWhole'
    BY DEF Die, StoreInv, StoreTypeOK, FilesWhole
  <1>3. Overtaken'
    BY DEF Die, StoreInv, StoreTypeOK, Overtaken, UnderWay
  <1>4. LogSynced'
    BY DEF Die, StoreInv, StoreTypeOK, LogSynced
  <1>5. WantedKnown'
    BY DEF Die, StoreInv, StoreTypeOK, WantedKnown
  <1> QED BY <1>1, <1>2, <1>3, <1>4, <1>5 DEF StoreInv

(* What comes back after a power loss was synced, and so was every event   *)
(* whose append returned.                                                  *)
LEMMA PowerLossInv ==
    ASSUME StoreInv, PowerLoss
    PROVE StoreInv'
  <1>1. PICK f \in files_on_disk :
            artifact' = IF f \in {Absent, Torn} THEN f ELSE IF f.synced THEN f ELSE Torn
    BY DEF PowerLoss
  <1>2. artifact' = f /\ files_on_disk' = {f}
    BY <1>1, MarksAssumption DEF PowerLoss, StoreInv, FilesWhole
  <1>3. PICK n \in synced_length..Len(log) : log' = SubSeq(log, 1, n) /\ synced_length' = n
    BY DEF PowerLoss
  <1>4. /\ log' \in Seq(Fragment) /\ Len(log') = n
        /\ \A j \in 1..n : log'[j] = log[j]
    BY <1>3 DEF StoreInv, StoreTypeOK
  <1>5. StoreTypeOK'
    <2>1. saving' \in [Writer -> {"idle", "looked", "written", "synced", "saved",
                                  "conflict", "failed", "dead"}]
      BY DEF PowerLoss, StoreInv, StoreTypeOK
    <2>2. appending' \in [Writer -> {"idle", "opened", "partial", "complete", "logged", "dead"}]
      BY DEF PowerLoss, StoreInv, StoreTypeOK
    <2> QED BY <1>2, <1>3, <1>4, <2>1, <2>2 DEF PowerLoss, StoreInv, StoreTypeOK
  <1>6. FilesWhole'
    BY <1>2 DEF PowerLoss, StoreInv, StoreTypeOK, FilesWhole
  <1>7. Overtaken'
    BY DEF PowerLoss, StoreInv, StoreTypeOK, Overtaken, UnderWay
  <1>8. LogSynced'
    <2>1. ASSUME NEW v \in Writer
          PROVE Ends(log, synced_length, v) => Ends(log', synced_length', v)
      <3>1. /\ synced_length \in Nat /\ n \in Nat /\ synced_length <= n
            /\ \A j \in 1..synced_length : log'[j] = log[j]
        BY <1>3, <1>4 DEF StoreInv, StoreTypeOK
      <3> QED BY <1>3, <3>1, EndsMonotonic
    <2> QED BY <2>1 DEF PowerLoss, StoreInv, StoreTypeOK, LogSynced
  <1>9. WantedKnown'
    BY DEF PowerLoss, StoreInv, StoreTypeOK, WantedKnown
  <1> QED BY <1>5, <1>6, <1>7, <1>8, <1>9 DEF StoreInv

LEMMA StoreNextInv == StoreInv /\ [StoreNext]_storeVars => StoreInv'
  <1> SUFFICES ASSUME StoreInv, [StoreNext]_storeVars PROVE StoreInv'
    OBVIOUS
  <1>1. CASE UNCHANGED storeVars
    BY <1>1 DEF storeVars, StoreInv, StoreTypeOK, FilesWhole, Overtaken, WantedKnown, LogSynced
  <1>2. CASE StoreNext
    BY <1>2, LookInv, TempFileInv, ReplaceTargetInv, FlushLineInv, OpenOrSyncInv, DieInv,
       PowerLossInv DEF StoreNext
  <1> QED BY <1>1, <1>2

(* Whatever happens to the writers and the machine, what _write_atomic     *)
(* leaves under an artifact's name is nothing or a whole file.             *)
THEOREM StoreArtifactIsWhole == StoreSpec => []ArtifactIsWhole
  <1>1. StoreInv => ArtifactIsWhole
    BY MarksAssumption DEF StoreInv, FilesWhole, ArtifactIsWhole
  <1> QED BY <1>1, StoreInitInv, StoreNextInv, PTL DEF StoreSpec

(* An artifact that was saved is only ever overwritten by a writer that    *)
(* looked for it before it was there (_write_atomic).                      *)
THEOREM StoreOverwriteNeedsRace == StoreSpec => OverwriteNeedsRace
  <1>1. ASSUME StoreInv, StoreNext, NEW w \in Writer,
               artifact # Absent, artifact' # Absent,
               artifact'.content # artifact.content,
               saving[w] # "saved", saving'[w] = "saved"
        PROVE w \in overtaken
    <2>1. ASSUME NEW v \in Writer, ReplaceTarget(v) PROVE w \in overtaken
      <3>1. v = w
        BY <1>1, <2>1 DEF ReplaceTarget, StoreInv, StoreTypeOK
      <3> QED BY <1>1, <2>1, <3>1 DEF ReplaceTarget, StoreInv, Overtaken, UnderWay
    <2>2. ASSUME NEW v \in Writer, NEW c \in Content, Look(v, c) PROVE FALSE
      BY <1>1, <2>2 DEF Look
    <2>3. ASSUME NEW v \in Writer,
                 WriteTempFile(v) \/ FsyncTempFile(v) \/ SaveFails(v) \/ OpenLog(v)
                   \/ FsyncLog(v) \/ Die(v)
          PROVE FALSE
      BY <1>1, <2>3 DEF WriteTempFile, FsyncTempFile, SaveFails, OpenLog, FsyncLog, Die,
                        ArtifactUnchanged
    <2>4. ASSUME NEW v \in Writer, NEW whole \in BOOLEAN, FlushLine(v, whole) PROVE FALSE
      BY <1>1, <2>4 DEF FlushLine, ArtifactUnchanged
    <2>5. ASSUME PowerLoss PROVE FALSE
      BY <1>1, <2>5 DEF PowerLoss
    <2> QED BY <1>1, <2>1, <2>2, <2>3, <2>4, <2>5 DEF StoreNext
  <1>2. StoreInv /\ [StoreNext]_storeVars =>
          [\A w \in Writer :
              /\ artifact # Absent /\ artifact' # Absent
              /\ artifact'.content # artifact.content
              /\ saving[w] # "saved" /\ saving'[w] = "saved"
              => w \in overtaken]_storeVars
    BY <1>1
  <1> QED BY <1>2, StoreInitInv, StoreNextInv, PTL DEF StoreSpec, OverwriteNeedsRace

(* In a log that can be read no head follows a head: the first one that    *)
(* did would start a line, whose second fragment has to be a tail.         *)
LEMMA ReadableAlternates ==
    ASSUME log \in Seq(Fragment), Readable, NEW k \in 1..Len(log), k + 1 \in 1..Len(log),
           log[k][2] = "head"
    PROVE log[k + 1][2] # "head"
  <1> DEFINE Bad == {i \in Nat : /\ i \in 1..Len(log) /\ i + 1 \in 1..Len(log)
                                /\ log[i][2] = "head" /\ log[i + 1][2] = "head"}
  <1> SUFFICES ASSUME log[k + 1][2] = "head" PROVE FALSE
    OBVIOUS
  <1>0. k \in Bad
    BY LenProperties
  <1>1. PICK m \in Bad : \A i \in Bad : ~(<<i, m>> \in OpToRel(<, Nat))
    BY <1>0, WFMin, NatLessThanWellFounded
  <1>2. \A i \in Bad : ~(i < m)
    BY <1>1 DEF OpToRel
  <1>3. m = 1 \/ log[m - 1][2] # "head"
    BY <1>2
  <1>4. StartsLine(m)
    BY <1>3 DEF StartsLine, Fragment
  <1>5. log[m + 1] = <<log[m][1], "tail">>
    BY <1>4 DEF Readable
  <1> QED BY <1>5

(* A writer whose line ends in a readable log is among the events read.    *)
LEMMA EndedIsRead ==
    ASSUME log \in Seq(Fragment), Readable, NEW w, NEW n \in 0..Len(log), Ends(log, n, w)
    PROVE w \in events
  <1>1. PICK j \in 1..Len(log) : log[j] = <<w, "tail">>
    BY DEF Ends
  <1>2. ~StartsLine(j)
    BY <1>1 DEF Readable
  <1>3. j # 1 /\ log[j - 1][2] = "head"
    BY <1>1, <1>2 DEF StartsLine, Fragment
  <1>4. StartsLine(j - 1)
    <2>1. CASE j - 1 = 1
      BY <2>1 DEF StartsLine
    <2>2. CASE j - 1 # 1
      <3>1. j - 2 \in 1..Len(log) /\ (j - 2) + 1 = j - 1
        BY <1>3, <2>2
      <3>2. log[j - 2][2] # "head"
        BY <1>3, <3>1, ReadableAlternates
      <3> QED BY <3>1, <3>2 DEF StartsLine, Fragment
    <2> QED BY <2>1, <2>2
  <1>5. log[j] = <<log[j - 1][1], "tail">>
    BY <1>3, <1>4 DEF Readable
  <1>6. log[j - 1][1] = w
    BY <1>1, <1>5
  <1> QED BY <1>3, <1>4, <1>6 DEF events

(* An event whose append_event returned is read back by load_task_summary, *)
(* or the whole log is refused.                                            *)
THEOREM StoreLoggedEventsAreRead == StoreSpec => []LoggedEventsAreRead
  <1>1. StoreInv => LoggedEventsAreRead
    BY EndedIsRead DEF StoreInv, StoreTypeOK, LogSynced, LoggedEventsAreRead
  <1> QED BY <1>1, StoreInitInv, StoreNextInv, PTL DEF StoreSpec

-----------------------------------------------------------------------------
(* The evidence run.  Everything built passed its constructor, and a run   *)
(* record lists evidence that was collected.                               *)

RunInv == RunTypeOK /\ (record # Nothing => record.collected \subseteq collected)

LEMMA RunInitInv == RunInit => RunInv
  BY DEF RunInit, RunInv, RunTypeOK

LEMMA RunNextInv == RunInv /\ [RunNext]_runVars => RunInv'
  <1> SUFFICES ASSUME RunInv, [RunNext]_runVars PROVE RunInv'
    OBVIOUS
  <1> USE DEF RunInv, RunTypeOK
  <1>1. ASSUME NEW next \in Checkout, MoveCheckout(next) PROVE RunInv'
    BY <1>1 DEF MoveCheckout
  <1>2. ASSUME NEW e, NEW run, NEW task, NEW q, StartCommand(e, run, task, q) PROVE RunInv'
    BY <1>2 DEF StartCommand
  <1>3. ASSUME NEW terminal, NEW exit_code, NEW told, NEW dirty_state,
               CollectEvidence(terminal, exit_code, told, dirty_state)
        PROVE RunInv'
    BY <1>3 DEF CollectEvidence
  <1>4. ASSUME LoseEvidence PROVE RunInv'
    BY <1>4 DEF LoseEvidence
  <1>5. ASSUME NEW task, NEW candidate, NEW items, NEW accept, NEW status, NEW snapshot,
               Verify(task, candidate, items, accept, status, snapshot)
        PROVE RunInv'
    BY <1>5 DEF Verify
  <1>6. ASSUME NEW run, NEW task, NEW candidate, NEW items \in SUBSET collected, NEW withBundle,
               BuildRecord(run, task, candidate, items, withBundle)
        PROVE RunInv'
    BY <1>6 DEF BuildRecord
  <1>7. CASE UNCHANGED runVars
    BY <1>7 DEF runVars
  <1> QED BY <1>1, <1>2, <1>3, <1>4, <1>5, <1>6, <1>7 DEF RunNext

(* A verified entry of a run record stands for one command of that run and *)
(* task, which left the checkout at the candidate's commit                 *)
(* (EvidenceRunRecord, CollectedCommandEvidence).                          *)
THEOREM RunVerifiedBelongs == RunSpec => []VerifiedBelongsToRun
  <1>1. ASSUME RunInv, Recorded, NEW v \in record.bundle.verified
        PROVE \E item \in collected :
                /\ Identity(item) = Identity(v)
                /\ item.run_id = record.run_id /\ item.task_id = record.task_id
                /\ item.post.commit = record.candidate.commit
                /\ \A other \in record.collected :
                      other.evidence_id = v.evidence_id => other = item
    <2>1. EvidenceRunRecord(record) /\ record.collected \subseteq collected
      BY <1>1 DEF RunInv, RunTypeOK, Recorded
    <2>2. PICK item \in record.collected : Identity(v) = Identity(item)
      BY <1>1, <2>1 DEF EvidenceRunRecord, Recorded
    <2>3. item.evidence_id = v.evidence_id
      BY <2>2 DEF Identity
    <2>4. item.commit = record.candidate.commit
      BY <2>1, <2>2 DEF EvidenceRunRecord, collected_candidate_mismatches, BindingField
    <2>5. item.post.commit = item.commit
      BY <1>1, <2>1, <2>2 DEF RunInv, RunTypeOK, CollectedCommandEvidence
    <2> QED BY <2>1, <2>2, <2>3, <2>4, <2>5 DEF EvidenceRunRecord, UniqueIds
  <1>2. RunInv => VerifiedBelongsToRun
    BY <1>1 DEF VerifiedBelongsToRun
  <1> QED BY <1>2, RunInitInv, RunNextInv, PTL DEF RunSpec

-----------------------------------------------------------------------------
(* The harness: one part moves, the others stand still.                    *)

ReportsTyped ==
    /\ reports = [s \in Slot |-> reports[s]]
    /\ \A s \in Slot :
          reports[s] = NoneYet \/ reports[s].result \in {"PASS", "NEEDS_FIX", "BLOCKED"}

LEMMA ParsedResult ==
    ASSUME NEW text
    PROVE parse_agent_report(text).result \in {"PASS", "NEEDS_FIX", "BLOCKED"}
  <1> DEFINE r == [parse_ok |-> TRUE, task |-> text.task, role |-> text.role,
                   status |-> text.status, result |-> text.result]
  <1>1. CASE text.blocks = 1 /\ is_allowed_status_result(r)
    <2>1. parse_agent_report(text) = r
      BY <1>1 DEF parse_agent_report
    <2>2. /\ r.role \in {"implementer", "verifier", "gatekeeper"}
          /\ <<r.status, r.result>> \in ALLOWED_STATUS_RESULT_BY_ROLE[r.role]
      BY <1>1 DEF is_allowed_status_result, ALLOWED_STATUS_RESULT_BY_ROLE
    <2> HIDE DEF r
    <2>3. r.result \in {"PASS", "NEEDS_FIX", "BLOCKED"}
      BY <2>2 DEF ALLOWED_STATUS_RESULT_BY_ROLE
    <2> QED BY <2>1, <2>3
  <1>2. CASE ~(text.blocks = 1 /\ is_allowed_status_result(r))
    <2>1. parse_agent_report(text) = FailedReport
      BY <1>2 DEF parse_agent_report
    <2>2. FailedReport.result = "BLOCKED"
      BY DEF FailedReport
    <2> HIDE DEF r
    <2> QED BY <2>1, <2>2
  <1> QED BY <1>1, <1>2

LEMMA ReportsStayTyped == ReportsTyped /\ [DeliveryNext]_deliveryVars => ReportsTyped'
  <1> SUFFICES ASSUME ReportsTyped, [DeliveryNext]_deliveryVars PROVE ReportsTyped'
    OBVIOUS
  <1>1. ASSUME NEW s \in Slot, NEW text, ReceiveReport(s, text) PROVE ReportsTyped'
    <2>1. reports' = [reports EXCEPT ![s] = parse_agent_report(text)]
      BY <1>1 DEF ReceiveReport
    <2> QED BY <2>1, ParsedResult DEF ReportsTyped
  <1>2. CASE reports' = reports
    BY <1>2 DEF ReportsTyped
  <1>3. \/ \E s \in Slot, text \in RawReports : ReceiveReport(s, text)
        \/ reports' = reports
    BY DEF DeliveryNext, deliveryVars, Advance, IngestReport, RunChangeGate, ChangeGateCommand,
           AlterGate, AskGuard, NextActionCommand, TakeAnswer
  <1> QED BY <1>1, <1>2, <1>3

HarnessInv == DeliveryInv /\ ReportsTyped /\ StoreInv /\ RunInv

LEMMA PartsUnchanged ==
    /\ DeliveryInv /\ UNCHANGED deliveryVars => DeliveryInv'
    /\ ReportsTyped /\ UNCHANGED deliveryVars => ReportsTyped'
    /\ StoreInv /\ UNCHANGED storeVars => StoreInv'
    /\ RunInv /\ UNCHANGED runVars => RunInv'
  BY DeliveryNextInv, ReportsStayTyped, StoreNextInv, RunNextInv

(* Whatever library calls, commands, processes and checkouts do, every     *)
(* part of the harness is in a state of its types: in particular all that  *)
(* was built passed the constructors of provenance.py and ports.py.        *)
THEOREM HarnessTyped == HarnessSpec => []HarnessTypeOK
  <1>1. HarnessInit => HarnessInv
    <2>1. DeliveryInit => ReportsTyped
      BY DEF DeliveryInit, ReportsTyped
    <2> QED BY <2>1, DeliveryInitInv, StoreInitInv, RunInitInv DEF HarnessInit, HarnessInv
  <1>2. HarnessInv /\ [HarnessNext]_<<part, deliveryVars, storeVars, runVars>> => HarnessInv'
    BY PartsUnchanged, DeliveryNextInv, ReportsStayTyped, StoreNextInv, RunNextInv
       DEF HarnessInv, HarnessNext
  <1>3. HarnessInv => HarnessTypeOK
    BY DEF HarnessInv, HarnessTypeOK, DeliveryInv, DeliveryTyped, DeliveryTypeOK, ReportsTyped,
           StoreInv, RunInv
  <1> QED BY <1>1, <1>2, <1>3, PTL DEF HarnessSpec

(* The harness does what each of its parts does alone, so that the results *)
(* about the parts hold of any interleaving of the three.                  *)
THEOREM HarnessSafe ==
    HarnessSpec => /\ DeliverySpec /\ StoreSpec /\ RunSpec
                   /\ [](/\ ShippingIsEarned /\ GatePassIsProof /\ ArtifactIsWhole
                         /\ LoggedEventsAreRead /\ VerifiedBelongsToRun)
                   /\ OverwriteNeedsRace
  <1>1. HarnessInit => DeliveryInit /\ StoreInit /\ RunInit
    BY DEF HarnessInit
  <1>2. [HarnessNext]_<<part, deliveryVars, storeVars, runVars>> =>
          [DeliveryNext]_deliveryVars /\ [StoreNext]_storeVars /\ [RunNext]_runVars
    BY DEF HarnessNext
  <1>3. HarnessSpec => DeliverySpec /\ StoreSpec /\ RunSpec
    BY <1>1, <1>2, PTL DEF HarnessSpec, DeliverySpec, StoreSpec, RunSpec
  <1> QED BY <1>3, DeliveryShippingIsEarned, DeliveryGateIsProof, StoreArtifactIsWhole,
             StoreLoggedEventsAreRead, StoreOverwriteNeedsRace, RunVerifiedBelongs, PTL

=============================================================================
