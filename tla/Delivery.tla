------------------------------ MODULE Delivery ------------------------------
(***************************************************************************)
(* The delivery workflow of the build harness: the task state machine, the *)
(* change gate that judges a change and its evidence, the reports of the   *)
(* agents, the process guard that decides whether an intended action may   *)
(* go ahead, and the recommendation of the next action.                    *)
(*                                                                         *)
(* The harness is a library.  What its callers hold between calls is the   *)
(* state here: the task state, the reports received, the last gate         *)
(* decision.  A guard decision or a recommendation is an answer and lasts  *)
(* until something changes.  A file stands for a changed path, with the    *)
(* pattern sets of the contract as sets of files.                          *)
(***************************************************************************)
EXTENDS Integers, Sequences, FiniteSets

CONSTANTS
    RequiredEvidence,      \* commands the contract requires evidence for
    allowed_paths,         \* files the contract allows
    forbidden_paths,       \* files the contract forbids
    DEPENDENCY_FILES,      \* dependency manifests
    InvalidPaths,          \* paths normalize_repo_path rejects
    broad_scope_allowed,   \* TRUE: no scope check
    DependencyApproval,    \* TRUE: dependency changes need human approval
    GateInputs,            \* changes offered to the gate: [changed, evidence, expected]
    RawReports,            \* report texts offered to the parser
    NoneYet

\* Of a contract without allowed paths validate_contract_dict demands that it
\* asks for broad scope.
validate_contract_dict == allowed_paths = {} => broad_scope_allowed

ASSUME ContractAssumption == validate_contract_dict

ASSUME FlagsAssumption == broad_scope_allowed \in BOOLEAN /\ DependencyApproval \in BOOLEAN

\* None is no report result.
ASSUME NoneYetAssumption == NoneYet \notin {"PASS", "NEEDS_FIX", "BLOCKED"}

TaskState == {"DRAFT", "READY_FOR_IMPLEMENTATION", "IMPLEMENTING", "IMPLEMENTED",
              "READY_FOR_VERIFICATION", "VERIFIED_PASS", "NEEDS_FIX", "READY_FOR_MERGE",
              "READY_FOR_HUMAN_APPROVAL", "APPROVED", "DONE", "BLOCKED"}

TaskEvent == {"contract_validated", "implementation_started",
              "implementation_report_ingested", "verification_requested",
              "verification_passed", "verification_failed", "changegate_passed",
              "changegate_failed", "human_approved", "merged", "blocked"}

TRANSITIONS ==
    {<<"DRAFT", "contract_validated", "READY_FOR_IMPLEMENTATION">>,
     <<"READY_FOR_IMPLEMENTATION", "implementation_started", "IMPLEMENTING">>,
     <<"IMPLEMENTING", "implementation_report_ingested", "IMPLEMENTED">>,
     <<"IMPLEMENTED", "verification_requested", "READY_FOR_VERIFICATION">>,
     <<"READY_FOR_VERIFICATION", "verification_passed", "VERIFIED_PASS">>,
     <<"READY_FOR_VERIFICATION", "verification_failed", "NEEDS_FIX">>,
     <<"NEEDS_FIX", "implementation_started", "IMPLEMENTING">>,
     <<"VERIFIED_PASS", "changegate_passed", "READY_FOR_HUMAN_APPROVAL">>,
     <<"VERIFIED_PASS", "changegate_failed", "NEEDS_FIX">>,
     <<"READY_FOR_HUMAN_APPROVAL", "human_approved", "APPROVED">>,
     <<"APPROVED", "merged", "DONE">>,
     <<"READY_FOR_MERGE", "human_approved", "APPROVED">>,
     <<"READY_FOR_MERGE", "merged", "DONE">>}

\* The states an event may lead to: none when transition() raises.
transition(current, event) ==
    IF event = "blocked" THEN IF current = "DONE" THEN {} ELSE {"BLOCKED"}
    ELSE {t[3] : t \in {t \in TRANSITIONS : t[1] = current /\ t[2] = event}}

-----------------------------------------------------------------------------
(* The change gate *)

finding(type, severity) == [type |-> type, severity |-> severity]

SEVERITY ==
    [no_changed_files |-> "warning", out_of_scope |-> "warning",
     dependency_change |-> "warning", missing_evidence |-> "warning",
     no_evidence |-> "warning", invalid_changed_path |-> "block",
     forbidden_path |-> "block", invalid_evidence |-> "block",
     duplicate_evidence_id |-> "block"]

\* An evidence record: id, command, commit, and whether it is well formed,
\* ran to completion and exited with 0.
malformed(ev) == ev.outcome = "malformed"

\* Identities are counted before bodies are validated.
duplicate_ids(evidence) ==
    {evidence[i].id : i \in {i \in DOMAIN evidence :
        \E j \in DOMAIN evidence : j # i /\ evidence[j].id = evidence[i].id}}

\* Mutant: evidence of any commit counts.
evidence_verdict_AnyCommit(ev, expected) ==
    /\ ev.outcome = "passed"
    /\ expected # NoneYet

evidence_verdict(ev, expected) ==
    /\ ev.outcome = "passed"
    /\ expected # NoneYet
    /\ ev.commit = expected

satisfies(ev, command, gi) ==
    /\ ~malformed(ev)
    /\ ev.id \notin duplicate_ids(gi.evidence)
    /\ ev.command = command
    /\ evidence_verdict(ev, gi.expected)

matched(gi) ==
    {c \in RequiredEvidence : \E i \in DOMAIN gi.evidence : satisfies(gi.evidence[i], c, gi)}

PathFindings(changed) ==
    LET files == changed \ InvalidPaths IN
       {"invalid_changed_path" : f \in changed \cap InvalidPaths}
         \cup {"no_changed_files" : x \in {x \in {1} : changed = {}}}
         \cup {"forbidden_path" : f \in files \cap forbidden_paths}
         \cup {"out_of_scope" : f \in {f \in files \ forbidden_paths :
                    allowed_paths # {} /\ ~broad_scope_allowed /\ f \notin allowed_paths}}
         \cup {"dependency_change" : f \in {f \in files \cap DEPENDENCY_FILES : DependencyApproval}}

EvidenceFindings(gi) ==
    {"invalid_evidence" : i \in {i \in DOMAIN gi.evidence : malformed(gi.evidence[i])}}
      \cup {"duplicate_evidence_id" : e \in duplicate_ids(gi.evidence)}
      \cup {"missing_evidence" : c \in RequiredEvidence \ matched(gi)}
      \cup {"no_evidence" : x \in {x \in {1} : gi.evidence = <<>> /\ RequiredEvidence = {}}}

DecisionFrom(findings) ==
    IF \E f \in findings : f.severity = "block" THEN "BLOCK"
    ELSE IF \E f \in findings : f.severity = "warning" THEN "REVIEW_REQUIRED" ELSE "PASS"

evaluate_change_gate(gi) ==
    LET findings == {finding(t, SEVERITY[t]) :
                        t \in PathFindings(gi.changed) \cup EvidenceFindings(gi)}
    IN [decision |-> DecisionFrom(findings), findings |-> findings,
        matched |-> matched(gi), missing |-> RequiredEvidence \ matched(gi)]

\* What the command line answers when a record of the evidence file cannot be
\* loaded: the gate is not asked.
LoadErrors == [decision |-> "BLOCK", findings |-> {finding("validation_error", "block")},
               matched |-> {}, missing |-> RequiredEvidence]

load_evidence_file(evidence) ==
    {i \in DOMAIN evidence : malformed(evidence[i])}

\* A PASS is trusted only when it looks like one the gate itself produced: no
\* finding type is classified as informational.
validate_change_gate_decision(d) ==
    /\ d.decision = "PASS"
    /\ d.missing = {}
    /\ RequiredEvidence \subseteq d.matched
    /\ d.findings = {}

-----------------------------------------------------------------------------
(* Agent reports *)

Slot == {"implementer", "verifier"}

ALLOWED_STATUS_RESULT_BY_ROLE ==
    [implementer |-> {<<"IMPLEMENTED", "PASS">>, <<"BLOCKED", "BLOCKED">>},
     verifier |-> {<<"VERIFIED_PASS", "PASS">>, <<"NEEDS_FIX", "NEEDS_FIX">>,
                   <<"BLOCKED", "BLOCKED">>},
     gatekeeper |-> {<<"GATED", "PASS">>, <<"GATED", "NEEDS_FIX">>, <<"BLOCKED", "BLOCKED">>}]

is_allowed_status_result(r) ==
    /\ r.role \in DOMAIN ALLOWED_STATUS_RESULT_BY_ROLE
    /\ <<r.status, r.result>> \in ALLOWED_STATUS_RESULT_BY_ROLE[r.role]

\* Mutant: the result of a report that does not parse stays empty.
FailedReport_Unset == [parse_ok |-> FALSE, task |-> "", role |-> "", status |-> "", result |-> ""]

FailedReport == [parse_ok |-> FALSE, task |-> "", role |-> "", status |-> "BLOCKED",
                 result |-> "BLOCKED"]

\* Exactly one summary block, and its fields must make sense together.
parse_agent_report(raw) ==
    LET r == [parse_ok |-> TRUE, task |-> raw.task, role |-> raw.role,
              status |-> raw.status, result |-> raw.result]
    IN IF raw.blocks = 1 /\ is_allowed_status_result(r) THEN r ELSE FailedReport

\* ingest-report of the command line accepts a report for a slot.
IngestAccepts(r, slot) ==
    r.parse_ok /\ r.result # "BLOCKED" /\ r.task = "this" /\ r.role = slot

report_identity_ok(r, slot) ==
    r = NoneYet \/ (r.parse_ok /\ r.task = "this" /\ r.role = slot /\ is_allowed_status_result(r))

-----------------------------------------------------------------------------
(* The process guard and the recommendation *)

IntendedAction == {"continue", "merge", "push", "deploy", "done"}
SHIP_ACTIONS == {"merge", "push", "deploy", "done"}

\* Mutant: a change may be merged while the approval is still awaited.
VALID_SHIP_STATES_Early ==
    [merge |-> {"READY_FOR_MERGE", "READY_FOR_HUMAN_APPROVAL", "APPROVED"}, push |-> {"APPROVED"},
     deploy |-> {"APPROVED"}, done |-> {"APPROVED", "DONE"}]

VALID_SHIP_STATES ==
    [merge |-> {"READY_FOR_MERGE", "APPROVED"}, push |-> {"APPROVED"},
     deploy |-> {"APPROVED"}, done |-> {"APPROVED", "DONE"}]

APPROVAL_HARD_ACTIONS == {"push", "deploy"}

result(r) == IF r = NoneYet THEN NoneYet ELSE r.result

Outstanding(reports, gate) ==
    {"implementer_report_pass" : x \in {x \in {1} : result(reports["implementer"]) # "PASS"}}
      \cup {"verifier_report_pass" : x \in {x \in {1} : result(reports["verifier"]) # "PASS"}}
      \cup (IF gate = NoneYet THEN {"changegate_pass"}
            ELSE IF gate.decision # "PASS" THEN {"changegate_pass"}
            ELSE IF ~validate_change_gate_decision(gate) THEN {"valid_changegate_decision"}
            ELSE {})

guard_decision(d, missing) == [decision |-> d, missing |-> missing]

evaluate_process_guard(action, state, reports, gate, approved) ==
    LET untrusted == {s \in Slot : ~report_identity_ok(reports[s], s)}
        outstanding == Outstanding(reports, gate)
        unshippable == IF action \in SHIP_ACTIONS /\ state \notin VALID_SHIP_STATES[action]
                       THEN {"valid_task_state"} ELSE {}
        approval == IF approved THEN {} ELSE {"human_approval"}
    IN CASE action \notin IntendedAction -> guard_decision("BLOCK", {"valid_intended_action"})
         [] action \in IntendedAction /\ untrusted # {} ->
               guard_decision("BLOCK", {"trusted_report"})
         [] OTHER ->
               IF \E s \in Slot : result(reports[s]) = "BLOCKED" THEN guard_decision("BLOCK", {})
               ELSE IF result(reports["verifier"]) = "NEEDS_FIX"
                    THEN guard_decision("BLOCK", {"fix_and_reverify"})
               ELSE IF action \in SHIP_ACTIONS
                    THEN IF unshippable \cup outstanding # {}
                         THEN guard_decision("BLOCK", unshippable \cup outstanding)
                         ELSE IF approval = {} THEN guard_decision("PASS", {})
                         ELSE guard_decision(IF action \in APPROVAL_HARD_ACTIONS
                                             THEN "BLOCK" ELSE "REVIEW_REQUIRED", approval)
                    ELSE IF outstanding \cup approval # {}
                         THEN guard_decision("REVIEW_REQUIRED", outstanding \cup approval)
                         ELSE guard_decision("PASS", {})

\* Only identity is looked at again; a parse failure has its own branch.
advice_identity_ok(r, slot) ==
    r = NoneYet \/ ~r.parse_ok \/ (r.task = "this" /\ r.role = slot)

recommend_next_action(impl, verifier, gate, guard) ==
    CASE ~advice_identity_ok(impl, "implementer") \/ ~advice_identity_ok(verifier, "verifier")
            -> "ESCALATE_TO_HUMAN"
      [] OTHER ->
         IF impl = NoneYet THEN "SEND_TO_IMPLEMENTER"
         ELSE IF ~impl.parse_ok \/ impl.result = "BLOCKED" THEN "ESCALATE_TO_HUMAN"
         ELSE IF result(verifier) = "NEEDS_FIX" THEN "SEND_FIX_PROMPT_TO_IMPLEMENTER"
         ELSE IF verifier = NoneYet THEN "SEND_TO_VERIFIER"
         ELSE IF gate # NoneYet /\ gate.decision = "BLOCK"
              THEN "SEND_FIX_PROMPT_TO_IMPLEMENTER"
         ELSE IF gate # NoneYet /\ gate.decision = "REVIEW_REQUIRED" THEN "REQUEST_HUMAN_REVIEW"
         ELSE IF guard # NoneYet /\ guard.decision = "BLOCK" THEN "REQUEST_HUMAN_REVIEW"
         ELSE IF guard # NoneYet /\ guard.decision = "REVIEW_REQUIRED"
                   /\ "human_approval" \in guard.missing
              THEN "REQUEST_HUMAN_APPROVAL"
         ELSE IF guard # NoneYet /\ guard.decision = "PASS" THEN "READY_FOR_MERGE_OR_PUSH"
         ELSE "REQUEST_HUMAN_REVIEW"

-----------------------------------------------------------------------------
VARIABLES
    task_state,     \* the state of the task
    trail,          \* history: events since implementation last started or the task was blocked
    reports,        \* the parsed report in each slot, or NoneYet
    gate,           \* the gate decision the caller holds, or NoneYet
    proven,         \* history: the change behind gate satisfies the contract
    answer          \* the last guard decision and recommendation, or NoneYet

deliveryVars == <<task_state, trail, reports, gate, proven, answer>>

DeliveryTypeOK ==
    /\ task_state \in TaskState
    /\ trail \in Seq(TaskEvent)
    /\ \A s \in Slot : reports[s] = NoneYet \/ reports[s].result \in {"PASS", "NEEDS_FIX", "BLOCKED"}
    /\ proven \in BOOLEAN

DeliveryInit ==
    /\ task_state = "DRAFT"
    /\ trail = <<>>
    /\ reports = [s \in Slot |-> NoneYet]
    /\ gate = NoneYet
    /\ proven = FALSE
    /\ answer = NoneYet

Advance(event) ==
    /\ answer = NoneYet
    /\ task_state' \in transition(task_state, event)
    /\ trail' = IF event \in {"implementation_started", "blocked"} THEN <<event>>
                ELSE Append(trail, event)
    /\ UNCHANGED <<reports, gate, proven, answer>>

ReceiveReport(slot, raw) ==
    /\ answer = NoneYet
    /\ reports' = [reports EXCEPT ![slot] = parse_agent_report(raw)]
    /\ UNCHANGED <<task_state, trail, gate, proven, answer>>

\* ingest-report of the command line: a report that is refused is not taken.
IngestReport(slot, raw) ==
    /\ IngestAccepts(parse_agent_report(raw), slot)
    /\ ReceiveReport(slot, raw)

\* What a PASS is meant to say of a change, stated without the gate's passes:
\* every required command has a completed, successful run at the expected
\* commit under an identity no other record claims, every record is well
\* formed and identities are unique, and every path is in scope.
Proven(gi) ==
    /\ gi.changed # {}
    /\ gi.changed \cap (InvalidPaths \cup forbidden_paths) = {}
    /\ broad_scope_allowed \/ gi.changed \subseteq allowed_paths
    /\ DependencyApproval => gi.changed \cap DEPENDENCY_FILES = {}
    /\ \A i \in DOMAIN gi.evidence : gi.evidence[i].outcome # "malformed"
    /\ \A i, j \in DOMAIN gi.evidence : gi.evidence[i].id = gi.evidence[j].id => i = j
    /\ \A c \in RequiredEvidence : \E i \in DOMAIN gi.evidence :
          /\ gi.evidence[i].command = c
          /\ gi.evidence[i].outcome = "passed"
          /\ gi.expected # NoneYet
          /\ gi.evidence[i].commit = gi.expected
    /\ RequiredEvidence = {} => gi.evidence # <<>>

RunChangeGate(gi) ==
    /\ answer = NoneYet
    /\ gate' = evaluate_change_gate(gi)
    /\ proven' = Proven(gi)
    /\ UNCHANGED <<task_state, trail, reports, answer>>

\* changegate of the command line.
ChangeGateCommand(gi) ==
    /\ answer = NoneYet
    /\ gate' = IF load_evidence_file(gi.evidence) # {} THEN LoadErrors ELSE evaluate_change_gate(gi)
    /\ proven' = Proven(gi)
    /\ UNCHANGED <<task_state, trail, reports, answer>>

\* A decision that did not come out of the gate as it stands: marked PASS, its
\* findings relabelled as informational.
AlterGate ==
    /\ answer = NoneYet
    /\ gate # NoneYet /\ gate.decision # "PASS"
    /\ gate' = [gate EXCEPT !.decision = "PASS",
                            !.findings = {finding(f.type, "info") : f \in @}]
    /\ UNCHANGED <<task_state, trail, reports, proven, answer>>

AskGuard(action, approved) ==
    LET d == evaluate_process_guard(action, task_state, reports, gate, approved)
    IN /\ answer = NoneYet
       /\ answer' = [action |-> action, approved |-> approved, guard |-> d,
                     advice |-> recommend_next_action(reports["implementer"],
                                                      reports["verifier"], gate, d)]
       /\ UNCHANGED <<task_state, trail, reports, gate, proven>>

\* next-action of the command line asks without a gate or guard decision.
NextActionCommand ==
    /\ answer = NoneYet
    /\ answer' = [action |-> "none", approved |-> FALSE, guard |-> NoneYet,
                  advice |-> recommend_next_action(reports["implementer"],
                                                   reports["verifier"], NoneYet, NoneYet)]
    /\ UNCHANGED <<task_state, trail, reports, gate, proven>>

\* The caller has read the answer and goes on.
TakeAnswer ==
    /\ answer # NoneYet
    /\ answer' = NoneYet
    /\ UNCHANGED <<task_state, trail, reports, gate, proven>>

DeliveryNext ==
    \/ \E e \in TaskEvent : Advance(e)
    \/ \E s \in Slot, raw \in RawReports : ReceiveReport(s, raw) \/ IngestReport(s, raw)
    \/ \E gi \in GateInputs : RunChangeGate(gi) \/ ChangeGateCommand(gi)
    \/ AlterGate
    \/ \E a \in IntendedAction \cup {"Merge"}, approved \in BOOLEAN : AskGuard(a, approved)
    \/ NextActionCommand
    \/ TakeAnswer

DeliverySpec == DeliveryInit /\ [][DeliveryNext]_deliveryVars

-----------------------------------------------------------------------------
(* Properties *)

Guarded == answer # NoneYet /\ answer.guard # NoneYet

(* A shipping action the guard lets pass was earned: the change behind the *)
(* gate decision satisfies the contract, both agents reported PASS for     *)
(* this task, a human approved, and since implementation last started the  *)
(* task went through verification, gate and approval, in this order and    *)
(* with no failure in between.                                             *)
ShippingIsEarned ==
    Guarded /\ answer.guard.decision = "PASS" /\ answer.action \in SHIP_ACTIONS =>
        /\ proven
        /\ answer.approved
        /\ \A s \in Slot : reports[s].result = "PASS" /\ reports[s].task = "this"
        /\ \E i, j, k \in DOMAIN trail :
              /\ i < j /\ j < k
              /\ trail[i] = "verification_passed"
              /\ trail[j] = "changegate_passed"
              /\ trail[k] = "human_approved"

(* The gate passes exactly the changes that satisfy the contract: neither  *)
(* a malformed record, a reused identity, a stale commit nor a path rule   *)
(* slips through its passes or the command line's loading of the evidence, *)
(* and nothing that is proven is refused.                                  *)
GatePassIsProof ==
    gate # NoneYet => (validate_change_gate_decision(gate) <=> proven)
=============================================================================
