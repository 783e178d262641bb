---------------------------- MODULE RuntimeAgent ----------------------------
(***************************************************************************)
(* One call of RuntimeAgent.run(state): retrieve memory, plan, execute the *)
(* plan step by step through ToolExecutor, finalize.  The run is one       *)
(* thread; what is uncertain is what the injected parts answer: the memory *)
(* client (pack, degraded pack, exception), the planner (any plan, or an   *)
(* exception), the schema check of argument values and the tools.          *)
(*                                                                         *)
(* A variable named as in AgentState is that field.  backend is what the   *)
(* composition root wired in (registry, client, candidate collector); it   *)
(* and read_only, approved_tools never change during a run.  calls is a    *)
(* history variable: the tool functions invoked, in order.                 *)
(***************************************************************************)
EXTENDS Integers, Sequences, FiniteSets

CONSTANTS
    ToolName,      \* the members of the ToolName enumeration
    Backends,      \* the wirings [specs, packs, collects] a run may have
    PlansFor(_),   \* the plans the injected planner may return for a registry
    StepId,        \* step identifiers
    MaxSteps       \* AgentState.max_steps (5 by default)

ASSUME MaxStepsAssumption == MaxSteps \in Nat \ {0}

ASSUME FinishAssumption == {"CALCULATE", "FINISH"} \subseteq ToolName

-----------------------------------------------------------------------------
(* Data *)

RiskLevel == {"LOW", "MEDIUM", "HIGH", "CRITICAL"}

(* What retrieve_context_pack may do; no client at all is the empty set.   *)
PackAnswer == {"fresh", "degraded", "raises"}

(* A reference the resolver must look up in an argument: none, $last or    *)
(* $last_text (never fails), a path that every result has ($last.success), *)
(* a path into the output of the one tool that has such a field, the slot  *)
(* written by CALCULATE, or an expression nothing answers.                 *)
Placeholder == {"none", "$last_text", "$last.success", "$slot.calc_result",
                "unknown"} \cup ToolName

ToolSpec == [required_args : SUBSET STRING, allowed_args : SUBSET STRING,
             mutates_state : BOOLEAN, risk_level : RiskLevel,
             requires_approval : BOOLEAN]

(* placeholder is what the planner wrote into an argument, text what the   *)
(* user's own words in the arguments refer to.                             *)
Step == [id : StepId, action : ToolName, depends_on : SUBSET StepId,
         args : SUBSET STRING, placeholder : Placeholder,
         text : SUBSET Placeholder]

ASSUME BackendAssumption ==
    \A b \in Backends :
        /\ DOMAIN b.specs \subseteq ToolName
        /\ b.specs \in [DOMAIN b.specs -> ToolSpec]
        /\ b.packs \subseteq PackAnswer
        /\ b.collects \in BOOLEAN

ASSUME PlannerAssumption ==
    \A b \in Backends : PlansFor(b.specs) \subseteq Seq(Step)

(* The actions whose presence in a plan means the run depends on memory.   *)
MEMORY_ACTIONS == {"WRITE_NOTE", "SAVE_FACT", "SAVE_PREFERENCE", "SAVE_DECISION"}
MEMORY_PLAN_ACTIONS == MEMORY_ACTIONS \cup {"READ_NOTE", "ANSWER_FROM_CONTEXT"}

NoResult == [tool |-> "none", success |-> FALSE]

(* Why a step failed: the executor refused it, or the call went wrong.     *)
Refusal == {"UnknownTool", "ValueError", "InvalidToolArgs",
            "PolicyDenied", "ApprovalRequired"}
CallOutcome == {"ok", "error", "crash", "bad_type"}
Cause == {"memory_retrieve_failed", "plan_validation_failed",
          "max_steps_exceeded", "tool_error", "memory_write_failed"}

-----------------------------------------------------------------------------
VARIABLES
    pc, backend, read_only, approved_tools,
    status, done, plan, current_step, step_status, last_result, calc_slot,
    observations, errors, final_answer,
    has_pack, memory_degraded, memory_write_failed, disclosure_reasons,
    calls

wiring == <<backend, read_only, approved_tools>>
progress == <<plan, current_step, step_status, last_result, calc_slot,
              observations, calls>>
memory == <<has_pack, memory_degraded, memory_write_failed, disclosure_reasons>>
outcome == <<status, done, errors, final_answer>>
vars == <<pc, wiring, progress, memory, outcome>>

specs == backend.specs

Init ==
    /\ pc = "retrieve"
    /\ backend \in Backends
    /\ read_only \in BOOLEAN
    /\ approved_tools \in SUBSET {t \in DOMAIN specs : specs[t].requires_approval}
    /\ status = "CREATED" /\ done = FALSE
    /\ plan = <<>> /\ current_step = 0 /\ step_status = <<>>
    /\ last_result = NoResult /\ calc_slot = FALSE
    /\ observations = <<>> /\ errors = <<>>
    /\ final_answer = [kind |-> "none"]
    /\ has_pack = FALSE /\ memory_degraded = FALSE
    /\ memory_write_failed = FALSE /\ disclosure_reasons = {}
    /\ calls = <<>>

is_terminal == done \/ status \in {"COMPLETED", "FAILED"}

fail(cause) ==
    /\ status' = "FAILED" /\ done' = TRUE
    /\ final_answer' = [kind |-> "error", cause |-> cause]
    /\ errors' = Append(errors, cause)

-----------------------------------------------------------------------------
(* _retrieve_memory: without a client nothing happens; an exception fails  *)
(* the run before planning; a degraded pack raises the flag, never lowers  *)
(* it.  A terminal state returns at once (its finalize is a no-op).        *)

RetrieveMemory ==
    /\ pc = "retrieve"
    /\ \/ /\ backend.packs = {}
          /\ pc' = "plan"
          /\ UNCHANGED <<memory, outcome>>
       \/ \E answer \in backend.packs \ {"raises"} :
             /\ has_pack' = TRUE
             /\ memory_degraded' = (memory_degraded \/ answer = "degraded")
             /\ pc' = "plan"
             /\ UNCHANGED <<memory_write_failed, disclosure_reasons, outcome>>
       \/ /\ "raises" \in backend.packs
          /\ fail("memory_retrieve_failed")
          /\ pc' = "returned"
          /\ UNCHANGED memory
    /\ UNCHANGED <<wiring, progress>>

(* validate_plan: non-empty, distinct ids, registered actions, dependencies*)
(* on this or an earlier step, no missing and no unknown argument.         *)
validate_plan(p) ==
    /\ p # <<>>
    /\ \A i \in DOMAIN p :
          /\ \A j \in 1..(i - 1) : p[j].id # p[i].id
          /\ p[i].action \in DOMAIN specs
          /\ p[i].depends_on \subseteq {p[j].id : j \in 1..i}
          /\ specs[p[i].action].required_args \subseteq p[i].args
          /\ p[i].args \subseteq specs[p[i].action].allowed_args

(* _plan: the plan is stored before it is validated, so a rejected plan    *)
(* stays in the state of the failed run.                                   *)
Plan(p) ==
    /\ pc = "plan"
    /\ plan' = p
    /\ step_status' = [i \in DOMAIN p |-> "PENDING"]
    /\ IF validate_plan(p)
       THEN /\ status' = "PLANNING" /\ pc' = "start"
            /\ UNCHANGED <<done, errors, final_answer>>
       ELSE /\ fail("plan_validation_failed") /\ pc' = "returned"
    /\ UNCHANGED <<wiring, memory, current_step, last_result, calc_slot,
                   observations, calls>>

(* make_plan itself raises (an invalid skill plan, a parser error).        *)
PlannerRaises ==
    /\ pc = "plan"
    /\ fail("plan_validation_failed")
    /\ pc' = "returned"
    /\ UNCHANGED <<wiring, progress, memory>>

(* Mutant: execution is announced and never entered.                       *)
StartExecution_Stays ==
    /\ pc = "start"
    /\ status' = "RUNNING"
    /\ UNCHANGED <<pc, wiring, progress, memory, done, errors, final_answer>>

StartExecution ==
    /\ pc = "start"
    /\ status' = "RUNNING"
    /\ pc' = "loop"
    /\ UNCHANGED <<wiring, progress, memory, done, errors, final_answer>>

-----------------------------------------------------------------------------
(* _execute_plan and ToolExecutor.execute *)

(* Mutant: enumerate(plan) without start=1.                                *)
step_index_FromZero == current_step

step_index == current_step + 1

(* resolve_path: a path needs a result, or the output of the tool that has *)
(* the field; ${slot.calc_result} needs the slot.                          *)
Found(ref) ==
    \/ ref \in {"none", "$last_text"}
    \/ ref = "$last.success" /\ last_result.tool # "none"
    \/ ref = "$slot.calc_result" /\ calc_slot
    \/ ref = last_result.tool /\ last_result.success

(* resolve_args looks up every reference of every argument, the planner's  *)
(* and those in the user's text alike.                                     *)
Resolvable(step) == \A ref \in {step.placeholder} \cup step.text : Found(ref)

(* Mutant: the read-only check is dropped.                                 *)
PolicyAllows_RiskOnly(spec) == spec.risk_level \notin {"HIGH", "CRITICAL"}

PolicyAllows(spec) ==
    /\ spec.risk_level \notin {"HIGH", "CRITICAL"}
    /\ ~(spec.mutates_state /\ read_only)

Approved(tool) == specs[tool].requires_approval => tool \in approved_tools

(* The executor's checks, in order; "none" lets the call through.          *)
RefusalOf(step, values_ok) ==
    IF step.action \notin DOMAIN specs THEN "UnknownTool"
    ELSE IF ~Resolvable(step) THEN "ValueError"
    ELSE IF \/ ~(step.args \subseteq specs[step.action].allowed_args)
            \/ ~(specs[step.action].required_args \subseteq step.args)
            \/ ~values_ok THEN "InvalidToolArgs"
    ELSE IF ~PolicyAllows(specs[step.action]) THEN "PolicyDenied"
    ELSE IF ~Approved(step.action) THEN "ApprovalRequired"
    ELSE "none"

(* Mutant: the failing step is recorded as completed.                      *)
record_result_AlwaysCompleted(step, success, why) ==
    /\ last_result' = [tool |-> step.action, success |-> success]
    /\ observations' = Append(observations,
          [step_index |-> step_index, action |-> step.action,
           success |-> success, error |-> why])
    /\ step_status' = [step_status EXCEPT ![step_index] = "COMPLETED"]

(* _record_result: the result becomes last_result and one observation.     *)
record_result(step, success, why) ==
    /\ last_result' = [tool |-> step.action, success |-> success]
    /\ observations' = Append(observations,
          [step_index |-> step_index, action |-> step.action,
           success |-> success, error |-> why])
    /\ step_status' = [step_status EXCEPT
          ![step_index] = IF success THEN "COMPLETED" ELSE "FAILED"]

AtStep == pc = "loop" /\ ~is_terminal /\ step_index \in DOMAIN plan

RefuseStep(values_ok) ==
    /\ AtStep /\ step_index <= MaxSteps
    /\ LET why == RefusalOf(plan[step_index], values_ok) IN
          /\ why # "none"
          /\ record_result(plan[step_index], FALSE, why)
    /\ current_step' = step_index
    /\ fail("tool_error")
    /\ pc' = "returned"
    /\ UNCHANGED <<wiring, memory, plan, calc_slot, calls>>

CallTool(result) ==
    /\ AtStep /\ step_index <= MaxSteps
    /\ RefusalOf(plan[step_index], TRUE) = "none"
    /\ calls' = Append(calls, [step_index |-> step_index,
                               tool |-> plan[step_index].action])
    /\ record_result(plan[step_index], result = "ok",
                     IF result = "ok" THEN "none" ELSE result)
    /\ current_step' = step_index
    /\ calc_slot' = (calc_slot \/ (plan[step_index].action = "CALCULATE"
                                   /\ result = "ok"))
    /\ IF result = "ok"
       THEN /\ pc' = IF plan[step_index].action = "FINISH"
                     THEN "finalize" ELSE "loop"
            /\ UNCHANGED outcome
       ELSE fail("tool_error") /\ pc' = "returned"
    /\ UNCHANGED <<wiring, memory, plan>>

(* The step budget is checked before current_step moves.                   *)
ExceedMaxSteps ==
    /\ AtStep /\ step_index > MaxSteps
    /\ fail("max_steps_exceeded")
    /\ pc' = "returned"
    /\ UNCHANGED <<wiring, progress, memory>>

(* The plan has no step left and no FINISH was reached.                    *)
EndOfPlan ==
    /\ pc = "loop" /\ ~is_terminal /\ step_index \notin DOMAIN plan
    /\ pc' = "finalize"
    /\ UNCHANGED <<wiring, progress, memory, outcome>>

-----------------------------------------------------------------------------
(* _finalize_run, the only place that completes a run *)

PlanHas(actions) == \E i \in DOMAIN plan : plan[i].action \in actions

(* Mutant: disclosure is decided before the memory write.                  *)
FinalizeRun_DisclosesFirst(write_ok) ==
    /\ pc = "finalize"
    /\ write_ok \/ (backend.collects /\ backend.packs # {})
    /\ memory_write_failed' = (memory_write_failed \/ ~write_ok)
    /\ disclosure_reasons' =
          IF memory_degraded /\ PlanHas(MEMORY_PLAN_ACTIONS)
          THEN {"memory_degraded"} ELSE {}
    /\ status' = "COMPLETED" /\ done' = TRUE
    /\ final_answer' = [kind |-> "draft", from |-> last_result.tool,
                        notes |-> disclosure_reasons']
    /\ pc' = "returned"
    /\ UNCHANGED <<wiring, progress, has_pack, memory_degraded, errors>>

(* compose, _write_memory (only where candidates are collected), then      *)
(* _apply_disclosure on the flags as the write left them, then complete.   *)
FinalizeRun(write_ok) ==
    /\ pc = "finalize"
    /\ write_ok \/ (backend.collects /\ backend.packs # {})
    /\ memory_write_failed' = (memory_write_failed \/ ~write_ok)
    /\ disclosure_reasons' =
          {r \in {"memory_degraded", "memory_write_failed"} :
              \/ r = "memory_degraded"
                 /\ memory_degraded /\ PlanHas(MEMORY_PLAN_ACTIONS)
              \/ r = "memory_write_failed"
                 /\ memory_write_failed' /\ PlanHas(MEMORY_ACTIONS)}
    /\ status' = "COMPLETED" /\ done' = TRUE
    /\ final_answer' = [kind |-> "draft", from |-> last_result.tool,
                        notes |-> disclosure_reasons']
    /\ errors' = IF write_ok THEN errors
                 ELSE Append(errors, "memory_write_failed")
    /\ pc' = "returned"
    /\ UNCHANGED <<wiring, progress, has_pack, memory_degraded>>

Next ==
    \/ RetrieveMemory
    \/ \E p \in PlansFor(specs) : Plan(p)
    \/ PlannerRaises
    \/ StartExecution
    \/ \E values_ok \in BOOLEAN : RefuseStep(values_ok)
    \/ \E result \in CallOutcome : CallTool(result)
    \/ ExceedMaxSteps
    \/ EndOfPlan
    \/ \E write_ok \in BOOLEAN : FinalizeRun(write_ok)

Spec == Init /\ [][Next]_vars

(* One thread runs the loop to its end: a step that can be taken is taken. *)
FairSpec == Spec /\ WF_vars(Next)
-----------------------------------------------------------------------------
(* Properties *)

Observation == [step_index : Nat \ {0}, action : ToolName, success : BOOLEAN,
                error : Refusal \cup CallOutcome \cup {"none"}]
FinalAnswer == [kind : {"none"}] \cup [kind : {"error"}, cause : Cause]
               \cup [kind : {"draft"}, from : ToolName,
                     notes : SUBSET {"memory_degraded", "memory_write_failed"}]

(* Types.  A completed run composes its answer from a tool's result: run() *)
(* never reaches _finalize_run with last_result still None.                *)
TypeOK ==
    /\ pc \in {"retrieve", "plan", "start", "loop", "finalize", "returned"}
    /\ backend \in Backends /\ read_only \in BOOLEAN
    /\ approved_tools \subseteq ToolName
    /\ status \in {"CREATED", "PLANNING", "RUNNING", "COMPLETED", "FAILED"}
    /\ done \in BOOLEAN
    /\ plan \in Seq(Step) /\ current_step \in 0..MaxSteps
    /\ step_status \in [DOMAIN plan -> {"PENDING", "COMPLETED", "FAILED"}]
    /\ last_result \in [tool : ToolName \cup {"none"}, success : BOOLEAN]
    /\ calc_slot \in BOOLEAN
    /\ observations \in Seq(Observation) /\ errors \in Seq(Cause)
    /\ final_answer \in FinalAnswer
    /\ has_pack \in BOOLEAN /\ memory_degraded \in BOOLEAN
    /\ memory_write_failed \in BOOLEAN
    /\ disclosure_reasons \subseteq {"memory_degraded", "memory_write_failed"}
    /\ calls \in Seq([step_index : Nat \ {0}, tool : ToolName])

(* Every tool function ToolExecutor.execute ever invoked was a registered  *)
(* tool of the plan, once per step and in plan order, that the policy      *)
(* engine and the approval gate admit for this run.                        *)
CallsGated ==
    \A k \in DOMAIN calls :
        /\ calls[k].step_index = k
        /\ k \in DOMAIN plan /\ calls[k].tool = plan[k].action
        /\ calls[k].tool \in DOMAIN specs
        /\ specs[calls[k].tool].risk_level \in {"LOW", "MEDIUM"}
        /\ specs[calls[k].tool].mutates_state => ~read_only
        /\ specs[calls[k].tool].requires_approval =>
              calls[k].tool \in approved_tools

(* The observation trail is the executed prefix of the plan, one entry per *)
(* executed step; only its last entry may be a failure, and then the run   *)
(* is FAILED: nothing runs after a step that failed.                       *)
TrailIsPrefix ==
    /\ Len(observations) = current_step
    /\ \A k \in DOMAIN observations :
          /\ observations[k].step_index = k
          /\ k \in DOMAIN plan /\ observations[k].action = plan[k].action
          /\ ~observations[k].success =>
                k = current_step /\ status = "FAILED" /\ done
          /\ step_status[k] = IF observations[k].success
                              THEN "COMPLETED" ELSE "FAILED"
    /\ \A k \in DOMAIN plan : k > current_step => step_status[k] = "PENDING"

(* A COMPLETED run executed its plan to the end or to a FINISH step with   *)
(* every step successful, answers from the last executed step, and says so *)
(* when memory was degraded or the write failed and the plan relied on it. *)
CompletedHonest ==
    status = "COMPLETED" =>
        /\ current_step \in DOMAIN plan
        /\ current_step = Len(plan) \/ plan[current_step].action = "FINISH"
        /\ \A k \in DOMAIN observations : observations[k].success
        /\ final_answer.kind = "draft"
        /\ final_answer.from = plan[current_step].action
        /\ memory_degraded /\ PlanHas(MEMORY_PLAN_ACTIONS) =>
              "memory_degraded" \in final_answer.notes
        /\ memory_write_failed /\ PlanHas(MEMORY_ACTIONS) =>
              "memory_write_failed" \in final_answer.notes

(* Where the run stands: done, status and the program counter agree, and   *)
(* inside the loop the trail, the calls and last_result are in step with   *)
(* current_step.  It makes the invariants above inductive.                 *)
Control ==
    /\ done <=> pc = "returned"
    /\ done <=> status \in {"COMPLETED", "FAILED"}
    /\ current_step <= Len(plan) /\ Len(calls) <= current_step
    /\ pc \in {"retrieve", "plan"} => plan = <<>>
    /\ pc \in {"retrieve", "plan", "start"} => current_step = 0
    /\ pc \in {"start", "loop", "finalize"} => plan # <<>>
    /\ pc \in {"loop", "finalize"} => Len(calls) = current_step
    /\ pc \in {"loop", "finalize"} /\ current_step > 0 =>
          last_result.tool = plan[current_step].action
    /\ pc = "finalize" =>
          /\ current_step > 0
          /\ current_step = Len(plan) \/ plan[current_step].action = "FINISH"

(* The inductive invariant of the specification.                           *)
IInv == TypeOK /\ Control /\ CallsGated /\ TrailIsPrefix /\ CompletedHonest

(* fail() and complete() are final: once done, no step of run() changes    *)
(* the verdict, the answer or the plan, or invokes another tool.           *)
TerminalStable == [][done => UNCHANGED <<outcome, progress>>]_vars

(* What is left of run(): nothing once it has returned, and in the loop    *)
(* one step per unit of the step budget, the end of the loop and the end   *)
(* of the run.                                                             *)
StepsLeft ==
    CASE pc = "returned" -> 0
      [] pc = "finalize" -> 1
      [] pc = "loop" -> MaxSteps - current_step + 2
      [] pc = "start" -> MaxSteps + 3
      [] pc = "plan" -> MaxSteps + 4
      [] pc = "retrieve" -> MaxSteps + 5

(* However long the plan and whatever the tools, the planner and the       *)
(* client answer: every step of run() uses up one of the steps left, and   *)
(* no more tools are called than max_steps allows.  No part of run() sends *)
(* it back; it is the safety half of Terminates.                           *)
RunBounded ==
    /\ [](StepsLeft \in 0..(MaxSteps + 5) /\ Len(calls) <= MaxSteps)
    /\ [][StepsLeft' < StepsLeft]_vars

(* run() returns, with a verdict.                                          *)
Terminates == <>(pc = "returned" /\ done)

=============================================================================
