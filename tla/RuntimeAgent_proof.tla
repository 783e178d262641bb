------------------------- MODULE RuntimeAgent_proof -------------------------
(***************************************************************************)
(* IInv is an inductive invariant of RuntimeAgent for every registry,      *)
(* client, planner and step budget; the safety properties follow from it.  *)
(***************************************************************************)
EXTENDS MCRuntimeAgent, TLAPS

(* fail() keeps the result fields well typed.                              *)
LEMMA FailTyped ==
    ASSUME TypeOK, NEW c \in Cause, fail(c)
    PROVE  /\ errors' \in Seq(Cause) /\ final_answer' \in FinalAnswer
           /\ status' = "FAILED" /\ done' = TRUE
<1>1. errors' \in Seq(Cause)
  BY DEF TypeOK, fail
<1>2. final_answer' \in FinalAnswer
  <2>1. final_answer' = [kind |-> "error", cause |-> c]
    BY DEF fail
  <2>2. final_answer' \in [kind : {"error"}, cause : Cause]
    BY <2>1
  <2> QED  BY <2>2 DEF FinalAnswer
<1> QED  BY <1>1, <1>2 DEF fail

(* The state a fresh AgentState starts in satisfies the invariant.         *)
LEMMA InitIInv == Init => IInv
<1> SUFFICES ASSUME Init PROVE IInv
    OBVIOUS
<1> USE DEF Init
<1>1. TypeOK
  <2>1. approved_tools \subseteq ToolName
    BY BackendAssumption DEF specs
  <2>2. step_status \in [DOMAIN plan -> {"PENDING", "COMPLETED", "FAILED"}]
    OBVIOUS
  <2>3. final_answer \in FinalAnswer
    BY DEF FinalAnswer
  <2>4. current_step \in 0..MaxSteps
    BY MaxStepsAssumption
  <2>5. last_result \in [tool : ToolName \cup {"none"}, success : BOOLEAN]
    BY DEF NoResult
  <2>6. plan \in Seq(Step) /\ observations \in Seq(Observation)
        /\ errors \in Seq(Cause)
        /\ calls \in Seq([step_index : Nat \ {0}, tool : ToolName])
    OBVIOUS
  <2> HIDE DEF Init
  <2>7. pc = "retrieve" /\ backend \in Backends /\ read_only \in BOOLEAN
        /\ status = "CREATED" /\ done = FALSE /\ calc_slot = FALSE
        /\ has_pack = FALSE /\ memory_degraded = FALSE
        /\ memory_write_failed = FALSE /\ disclosure_reasons = {}
    BY DEF Init
  <2> QED
    BY <2>1, <2>2, <2>3, <2>4, <2>5, <2>6, <2>7 DEF TypeOK
<1>2. Control /\ CallsGated /\ TrailIsPrefix /\ CompletedHonest
  BY DEF Control, CallsGated, TrailIsPrefix, CompletedHonest
<1> QED  BY <1>1, <1>2 DEF IInv

(* _retrieve_memory preserves the invariant, also when it fails the run.   *)
LEMMA RetrieveIInv == IInv /\ RetrieveMemory => IInv'
<1> SUFFICES ASSUME IInv, RetrieveMemory PROVE IInv'
    OBVIOUS
<1> USE DEF IInv, RetrieveMemory, wiring, progress, memory, outcome, fail
<1>1. TypeOK'
  <2> HIDE DEF fail
  <2>1. "memory_retrieve_failed" \in Cause
    BY DEF Cause
  <2>2. CASE fail("memory_retrieve_failed") /\ pc' = "returned" /\ UNCHANGED memory
    BY <2>1, <2>2, FailTyped DEF TypeOK
  <2>3. CASE pc' = "plan" /\ UNCHANGED outcome
    <3>1. has_pack' \in BOOLEAN /\ memory_degraded' \in BOOLEAN
      BY <2>3 DEF TypeOK
    <3>2. memory_write_failed' = memory_write_failed
          /\ disclosure_reasons' = disclosure_reasons
      BY <2>3
    <3>3. UNCHANGED <<wiring, progress>>
      OBVIOUS
    <3> HIDE DEF RetrieveMemory
    <3> QED  BY <2>3, <3>1, <3>2, <3>3 DEF TypeOK
  <2> QED  BY <2>2, <2>3
<1>2. Control'
  BY DEF TypeOK, Control
<1>3. CallsGated'
  BY DEF CallsGated, specs
<1>4. TrailIsPrefix'
  BY DEF TrailIsPrefix
<1>5. CompletedHonest'
  BY DEF CompletedHonest, Control
<1> QED  BY <1>1, <1>2, <1>3, <1>4, <1>5

(* _plan: a plan is only followed when validate_plan accepted it.          *)
LEMMA PlanIInv ==
    ASSUME IInv, NEW p \in PlansFor(specs), Plan(p)
    PROVE  IInv'
<1> USE DEF IInv, Plan, wiring, memory, fail
<1>1. p \in Seq(Step) /\ observations = <<>> /\ calls = <<>> /\ current_step = 0
  <2>1. p \in Seq(Step)
    BY PlannerAssumption DEF TypeOK, specs
  <2> QED  BY <2>1 DEF TypeOK, Control, TrailIsPrefix
<1>2. TypeOK'
  <2>1. step_status' \in [DOMAIN plan' -> {"PENDING", "COMPLETED", "FAILED"}]
    OBVIOUS
  <2>2. status' \in {"PLANNING", "FAILED"} /\ done' \in BOOLEAN
        /\ pc' \in {"start", "returned"}
    BY DEF TypeOK
  <2>3. errors' \in Seq(Cause) /\ final_answer' \in FinalAnswer
    <3>1. "plan_validation_failed" \in Cause
      BY DEF Cause
    <3> HIDE DEF fail
    <3> QED  BY <3>1, FailTyped DEF TypeOK
  <2> QED  BY <1>1, <2>1, <2>2, <2>3 DEF TypeOK
<1>3. Control'
  BY <1>1 DEF Control, TypeOK, validate_plan
<1>4. CallsGated' /\ TrailIsPrefix'
  BY <1>1 DEF CallsGated, TrailIsPrefix
<1>5. CompletedHonest'
  BY DEF CompletedHonest, Control
<1> QED  BY <1>2, <1>3, <1>4, <1>5

(* A planner that raises, the entry into the loop, the step budget and the *)
(* end of the plan leave the trail alone.                                  *)
LEMMA QuietIInv ==
    IInv /\ (PlannerRaises \/ StartExecution \/ ExceedMaxSteps \/ EndOfPlan)
    => IInv'
<1> SUFFICES ASSUME IInv,
                    PlannerRaises \/ StartExecution \/ ExceedMaxSteps \/ EndOfPlan
             PROVE  IInv'
    OBVIOUS
<1> USE DEF IInv, PlannerRaises, StartExecution, ExceedMaxSteps, EndOfPlan,
            wiring, progress, memory, outcome, fail, AtStep, is_terminal
<1>1. TypeOK'
  <2> HIDE DEF fail
  <2>1. {"plan_validation_failed", "max_steps_exceeded"} \subseteq Cause
    BY DEF Cause
  <2>2. CASE UNCHANGED <<wiring, progress, memory>> /\ pc' = "returned"
             /\ \E c \in Cause : fail(c)
    BY <2>2, FailTyped DEF TypeOK
  <2>3. CASE StartExecution \/ EndOfPlan
    BY <2>3 DEF TypeOK
  <2> QED  BY <2>1, <2>2, <2>3
<1>2. Control'
  <2>1. CASE EndOfPlan
    <3>1. current_step = Len(plan) /\ current_step > 0
      BY <2>1 DEF Control, TypeOK, step_index
    <3> QED  BY <2>1, <3>1 DEF Control
  <2>2. CASE ~EndOfPlan
    <3>1. PlannerRaises \/ StartExecution \/ ExceedMaxSteps
      BY <2>2
    <3> HIDE DEF EndOfPlan
    <3> QED  BY <3>1 DEF Control, TypeOK, TrailIsPrefix
  <2> QED  BY <2>1, <2>2
<1>3. CallsGated'
  BY DEF CallsGated, specs
<1>4. TrailIsPrefix'
  BY DEF TrailIsPrefix, Control
<1>5. CompletedHonest'
  BY DEF CompletedHonest, Control
<1> QED  BY <1>1, <1>2, <1>3, <1>4, <1>5

(* What a step of the loop finds: the next plan step, every observation so *)
(* far a success, and the calls in step with current_step.                 *)
LEMMA AtStepFacts ==
    ASSUME IInv, AtStep, step_index <= MaxSteps
    PROVE  /\ step_index = current_step + 1 /\ step_index \in 1..MaxSteps
           /\ step_index \in 1..Len(plan) /\ plan[step_index] \in Step
           /\ Len(observations) = current_step /\ Len(calls) = current_step
           /\ pc = "loop" /\ ~done /\ status \notin {"COMPLETED", "FAILED"}
           /\ \A k \in DOMAIN observations : observations[k].success
<1> USE DEF IInv, AtStep, is_terminal
<1>1. step_index = current_step + 1 /\ step_index \in 1..MaxSteps
  BY MaxStepsAssumption DEF step_index, TypeOK
<1>2. step_index \in 1..Len(plan) /\ plan[step_index] \in Step
  BY <1>1 DEF TypeOK
<1>3. Len(observations) = current_step /\ Len(calls) = current_step
  BY DEF Control, TrailIsPrefix
<1>4. \A k \in DOMAIN observations : observations[k].success
  BY DEF TrailIsPrefix, TypeOK, Observation
<1> QED  BY <1>1, <1>2, <1>3, <1>4

(* record_result appends the observation of the executed step.             *)
LEMMA RecordTyped ==
    ASSUME IInv, AtStep, step_index <= MaxSteps, NEW ok \in BOOLEAN,
           NEW why \in Refusal \cup CallOutcome \cup {"none"},
           record_result(plan[step_index], ok, why), plan' = plan
    PROVE  /\ last_result' \in [tool : ToolName \cup {"none"}, success : BOOLEAN]
           /\ last_result'.tool = plan[step_index].action
           /\ observations' \in Seq(Observation)
           /\ Len(observations') = current_step + 1
           /\ \A k \in 1..current_step : observations'[k] = observations[k]
           /\ observations'[current_step + 1] =
                 [step_index |-> step_index, action |-> plan[step_index].action,
                  success |-> ok, error |-> why]
           /\ step_status' \in [DOMAIN plan' -> {"PENDING", "COMPLETED", "FAILED"}]
           /\ step_status' = [step_status EXCEPT
                 ![step_index] = IF ok THEN "COMPLETED" ELSE "FAILED"]
<1> DEFINE obs == [step_index |-> step_index, action |-> plan[step_index].action,
                   success |-> ok, error |-> why]
<1>1. /\ last_result' = [tool |-> plan[step_index].action, success |-> ok]
      /\ observations' = Append(observations, obs)
      /\ step_status' = [step_status EXCEPT
                 ![step_index] = IF ok THEN "COMPLETED" ELSE "FAILED"]
  BY DEF record_result
<1>2. plan[step_index] \in Step /\ plan[step_index].action \in ToolName
      /\ step_index \in Nat \ {0}
  BY AtStepFacts DEF Step
<1>3. obs \in Observation
  BY <1>2 DEF Observation
<1>4. observations \in Seq(Observation) /\ Len(observations) = current_step
      /\ step_status \in [DOMAIN plan -> {"PENDING", "COMPLETED", "FAILED"}]
  BY AtStepFacts DEF IInv, TypeOK
<1> HIDE DEF obs
<1>5. /\ observations' \in Seq(Observation)
      /\ Len(observations') = current_step + 1
      /\ \A k \in 1..current_step : observations'[k] = observations[k]
      /\ observations'[current_step + 1] = obs
  BY <1>1, <1>3, <1>4
<1>6. step_status' \in [DOMAIN plan' -> {"PENDING", "COMPLETED", "FAILED"}]
  BY <1>1, <1>4
<1>7. last_result' \in [tool : ToolName \cup {"none"}, success : BOOLEAN]
      /\ last_result'.tool = plan[step_index].action
  BY <1>1, <1>2
<1> QED  BY <1>1, <1>5, <1>6, <1>7 DEF obs

(* The trail after an executed step: the old one and the new observation.  *)
LEMMA RecordTrail ==
    ASSUME IInv, AtStep, step_index <= MaxSteps, NEW ok \in BOOLEAN,
           NEW why \in Refusal \cup CallOutcome \cup {"none"},
           record_result(plan[step_index], ok, why), plan' = plan,
           current_step' = step_index, ~ok => status' = "FAILED" /\ done'
    PROVE  TrailIsPrefix'
<1>1. /\ Len(observations') = current_step + 1
      /\ \A k \in 1..current_step : observations'[k] = observations[k]
      /\ observations'[current_step + 1].step_index = step_index
      /\ observations'[current_step + 1].action = plan[step_index].action
      /\ observations'[current_step + 1].success = ok
      /\ step_status' = [step_status EXCEPT
                 ![step_index] = IF ok THEN "COMPLETED" ELSE "FAILED"]
      /\ observations' \in Seq(Observation)
  <2>1. observations'[current_step + 1] =
          [step_index |-> step_index, action |-> plan[step_index].action,
           success |-> ok, error |-> why]
    BY RecordTyped
  <2>2. /\ observations'[current_step + 1].step_index = step_index
        /\ observations'[current_step + 1].action = plan[step_index].action
        /\ observations'[current_step + 1].success = ok
    BY <2>1
  <2> QED  BY <2>2, RecordTyped
<1>2. /\ step_index = current_step + 1 /\ step_index \in 1..Len(plan)
      /\ current_step \in Nat
      /\ DOMAIN observations = 1..current_step
      /\ DOMAIN step_status = DOMAIN plan /\ DOMAIN plan = 1..Len(plan)
      /\ \A k \in DOMAIN observations : observations[k].success
  BY AtStepFacts DEF IInv, TypeOK
<1>3. DOMAIN observations' = 1..(current_step + 1)
  BY <1>1, <1>2
<1>4. ASSUME NEW k \in DOMAIN observations'
      PROVE  /\ observations'[k].step_index = k
             /\ k \in DOMAIN plan' /\ observations'[k].action = plan'[k].action
             /\ ~observations'[k].success =>
                   k = current_step' /\ status' = "FAILED" /\ done'
             /\ step_status'[k] = IF observations'[k].success
                                  THEN "COMPLETED" ELSE "FAILED"
  <2>1. CASE k = current_step + 1
    BY <2>1, <1>1, <1>2
  <2>2. CASE k \in 1..current_step
    BY <2>2, <1>1, <1>2 DEF IInv, TrailIsPrefix
  <2> QED  BY <1>2, <1>3, <2>1, <2>2
<1>5. ASSUME NEW k \in DOMAIN plan', k > current_step'
      PROVE  step_status'[k] = "PENDING"
  BY <1>1, <1>2, <1>5 DEF IInv, TrailIsPrefix
<1> QED  BY <1>1, <1>2, <1>4, <1>5 DEF TrailIsPrefix

(* A refused step ends the run FAILED without a call.                      *)
LEMMA RefuseIInv ==
    ASSUME IInv, NEW v \in BOOLEAN, RefuseStep(v)
    PROVE  IInv'
<1> DEFINE why == RefusalOf(plan[step_index], v)
<1>1. AtStep /\ step_index <= MaxSteps /\ current_step' = step_index
      /\ fail("tool_error") /\ pc' = "returned"
      /\ record_result(plan[step_index], FALSE, why)
      /\ UNCHANGED <<wiring, memory, plan, calc_slot, calls>>
  BY DEF RefuseStep
<1>2. why \in Refusal \cup CallOutcome \cup {"none"}
  BY DEF RefusalOf, Refusal
<1>3. status' = "FAILED" /\ done' = TRUE /\ errors' \in Seq(Cause)
      /\ final_answer' \in FinalAnswer
  <2>1. "tool_error" \in Cause
    BY DEF Cause
  <2> QED  BY <1>1, <2>1, FailTyped DEF IInv
<1> HIDE DEF why
<1>4. /\ last_result' \in [tool : ToolName \cup {"none"}, success : BOOLEAN]
      /\ observations' \in Seq(Observation)
      /\ step_status' \in [DOMAIN plan' -> {"PENDING", "COMPLETED", "FAILED"}]
  BY <1>1, <1>2, RecordTyped
<1>5. step_index \in 1..MaxSteps /\ step_index <= Len(plan)
      /\ step_index = current_step + 1 /\ Len(calls) = current_step
  BY <1>1, AtStepFacts DEF IInv, TypeOK
<1>6. TypeOK'
  BY <1>1, <1>3, <1>4, <1>5 DEF IInv, TypeOK, wiring, memory
<1>7. Control'
  BY <1>1, <1>3, <1>5 DEF IInv, Control, TypeOK
<1>8. CallsGated'
  BY <1>1 DEF IInv, CallsGated, specs, wiring
<1>9. TrailIsPrefix'
  BY <1>1, <1>2, <1>3, RecordTrail
<1>10. CompletedHonest'
  BY <1>3 DEF CompletedHonest
<1> QED  BY <1>6, <1>7, <1>8, <1>9, <1>10 DEF IInv

(* A call happens only past every check, and is recorded as one.           *)
LEMMA CallIInv ==
    ASSUME IInv, NEW r \in CallOutcome, CallTool(r)
    PROVE  IInv'
<1> DEFINE tool == plan[step_index].action
           ok == r = "ok"
           why == IF r = "ok" THEN "none" ELSE r
<1>1. /\ AtStep /\ step_index <= MaxSteps /\ current_step' = step_index
      /\ RefusalOf(plan[step_index], TRUE) = "none"
      /\ calls' = Append(calls, [step_index |-> step_index, tool |-> tool])
      /\ record_result(plan[step_index], ok, why)
      /\ calc_slot' = (calc_slot \/ (tool = "CALCULATE" /\ ok))
      /\ UNCHANGED <<wiring, memory, plan>>
      /\ ok => /\ pc' = IF tool = "FINISH" THEN "finalize" ELSE "loop"
               /\ UNCHANGED outcome
      /\ ~ok => fail("tool_error") /\ pc' = "returned"
  BY DEF CallTool
<1>2. ok \in BOOLEAN /\ why \in Refusal \cup CallOutcome \cup {"none"}
  OBVIOUS
<1>3. calc_slot' \in BOOLEAN
  BY <1>1
<1> HIDE DEF ok, why
<1>4. ~ok => status' = "FAILED" /\ done' = TRUE /\ errors' \in Seq(Cause)
             /\ final_answer' \in FinalAnswer
  <2>1. "tool_error" \in Cause
    BY DEF Cause
  <2> QED  BY <1>1, <2>1, FailTyped DEF IInv
<1>5. /\ last_result' \in [tool : ToolName \cup {"none"}, success : BOOLEAN]
      /\ last_result'.tool = tool
      /\ observations' \in Seq(Observation)
      /\ step_status' \in [DOMAIN plan' -> {"PENDING", "COMPLETED", "FAILED"}]
  BY <1>1, <1>2, RecordTyped
<1>6. /\ step_index \in 1..MaxSteps /\ step_index \in 1..Len(plan)
      /\ step_index = current_step + 1 /\ Len(calls) = current_step
      /\ plan[step_index] \in Step /\ tool \in ToolName
      /\ pc = "loop" /\ ~done /\ status \notin {"COMPLETED", "FAILED"}
  BY <1>1, AtStepFacts DEF Step
<1>7. calls \in Seq([step_index : Nat \ {0}, tool : ToolName])
      /\ calls' \in Seq([step_index : Nat \ {0}, tool : ToolName])
  BY <1>1, <1>6 DEF IInv, TypeOK
<1>8. /\ Len(calls') = current_step + 1
      /\ \A k \in 1..current_step : calls'[k] = calls[k]
      /\ calls'[current_step + 1].step_index = step_index
      /\ calls'[current_step + 1].tool = tool
  <2>1. calls'[current_step + 1] = [step_index |-> step_index, tool |-> tool]
    BY <1>1, <1>6, <1>7
  <2>2. calls'[current_step + 1].step_index = step_index
        /\ calls'[current_step + 1].tool = tool
    BY <2>1
  <2> QED  BY <1>1, <1>6, <1>7, <2>2
<1> HIDE DEF tool
<1>9. TypeOK'
  <2>1. UNCHANGED <<backend, read_only, approved_tools, plan, has_pack,
          memory_degraded, memory_write_failed, disclosure_reasons>>
    BY <1>1 DEF wiring, memory
  <2>2. current_step' \in 0..MaxSteps
    BY <1>1, <1>6, MaxStepsAssumption
  <2>3. pc' \in {"loop", "finalize", "returned"} /\ status' \in {status, "FAILED"}
        /\ done' \in {done, TRUE}
    BY <1>1, <1>2, <1>4 DEF outcome
  <2>4. errors' \in Seq(Cause) /\ final_answer' \in FinalAnswer
    BY <1>1, <1>2, <1>4 DEF outcome, IInv, TypeOK
  <2> QED
    BY <1>3, <1>5, <1>7, <2>1, <2>2, <2>3, <2>4 DEF IInv, TypeOK
<1>10. Control'
  <2>1. plan' = plan /\ current_step' = step_index /\ current_step' > 0
        /\ current_step' <= Len(plan) /\ Len(calls') = current_step'
        /\ last_result'.tool = plan'[current_step'].action
    BY <1>1, <1>5, <1>6, <1>8 DEF tool
  <2>2. CASE ok
    BY <2>1, <2>2, <1>1, <1>6 DEF IInv, Control, TypeOK, outcome, tool
  <2>3. CASE ~ok
    BY <2>1, <2>3, <1>1, <1>4 DEF IInv, Control, TypeOK
  <2> QED  BY <2>2, <2>3
<1>11. CallsGated'
  <2>1. /\ tool \in DOMAIN specs
        /\ specs[tool].risk_level \notin {"HIGH", "CRITICAL"}
        /\ specs[tool].mutates_state => ~read_only
        /\ specs[tool].requires_approval => tool \in approved_tools
    BY <1>1 DEF RefusalOf, PolicyAllows, Approved, tool
  <2>2. specs[tool].risk_level \in {"LOW", "MEDIUM"}
    <3>1. specs[tool] \in ToolSpec
      BY <2>1, BackendAssumption DEF IInv, TypeOK, specs
    <3> QED  BY <2>1, <3>1 DEF ToolSpec, RiskLevel
  <2>3. backend' = backend /\ specs' = specs /\ read_only' = read_only
        /\ approved_tools' = approved_tools /\ plan' = plan
    BY <1>1 DEF wiring, specs
  <2>4. DOMAIN calls' = 1..(current_step + 1) /\ DOMAIN calls = 1..current_step
        /\ current_step \in Nat
    BY <1>6, <1>7, <1>8 DEF IInv, TypeOK
  <2>5. ASSUME NEW k \in DOMAIN calls'
        PROVE  /\ calls'[k].step_index = k
               /\ k \in DOMAIN plan' /\ calls'[k].tool = plan'[k].action
               /\ calls'[k].tool \in DOMAIN specs'
               /\ specs'[calls'[k].tool].risk_level \in {"LOW", "MEDIUM"}
               /\ specs'[calls'[k].tool].mutates_state => ~read_only'
               /\ specs'[calls'[k].tool].requires_approval =>
                     calls'[k].tool \in approved_tools'
    <3>1. CASE k = current_step + 1
      <4>1. calls'[k].step_index = k /\ calls'[k].tool = tool
        BY <3>1, <1>6, <1>8
      <4>2. k \in DOMAIN plan /\ tool = plan[k].action
        BY <3>1, <1>6 DEF tool, IInv, TypeOK
      <4> QED  BY <4>1, <4>2, <2>1, <2>2, <2>3
    <3>2. CASE k \in 1..current_step
      <4>1. calls'[k] = calls[k] /\ k \in DOMAIN calls
        BY <3>2, <1>8, <2>4
      <4> QED  BY <4>1, <2>3 DEF IInv, CallsGated
    <3> QED  BY <2>4, <3>1, <3>2
  <2> QED  BY <2>5 DEF CallsGated
<1>12. TrailIsPrefix'
  BY <1>1, <1>2, <1>4, RecordTrail
<1>13. CompletedHonest'
  BY <1>1, <1>2, <1>4, <1>6 DEF CompletedHonest, outcome
<1> QED  BY <1>9, <1>10, <1>11, <1>12, <1>13 DEF IInv

(* _finalize_run completes honestly.                                       *)
LEMMA FinalizeIInv ==
    ASSUME IInv, NEW w \in BOOLEAN, FinalizeRun(w)
    PROVE  IInv'
<1> DEFINE notes == {"memory_degraded", "memory_write_failed"}
<1>1. /\ pc = "finalize" /\ pc' = "returned"
      /\ memory_write_failed' = (memory_write_failed \/ ~w)
      /\ status' = "COMPLETED" /\ done' = TRUE
      /\ final_answer' = [kind |-> "draft", from |-> last_result.tool,
                          notes |-> disclosure_reasons']
      /\ errors' = IF w THEN errors ELSE Append(errors, "memory_write_failed")
      /\ UNCHANGED <<wiring, progress, has_pack, memory_degraded>>
  BY DEF FinalizeRun
<1>2. /\ disclosure_reasons' \subseteq notes
      /\ memory_degraded /\ PlanHas(MEMORY_PLAN_ACTIONS) =>
            "memory_degraded" \in disclosure_reasons'
      /\ memory_write_failed' /\ PlanHas(MEMORY_ACTIONS) =>
            "memory_write_failed" \in disclosure_reasons'
  BY DEF FinalizeRun
<1>3. /\ current_step \in DOMAIN plan
      /\ current_step = Len(plan) \/ plan[current_step].action = "FINISH"
      /\ last_result.tool = plan[current_step].action
      /\ plan[current_step] \in Step
  BY <1>1 DEF IInv, Control, TypeOK
<1>4. last_result.tool \in ToolName
  BY <1>3 DEF Step
<1>5. final_answer' \in FinalAnswer
  <2>1. final_answer' \in [kind : {"draft"}, from : ToolName, notes : SUBSET notes]
    BY <1>1, <1>2, <1>4
  <2> QED  BY <2>1 DEF FinalAnswer
<1>6. errors' \in Seq(Cause)
  BY <1>1 DEF IInv, TypeOK, Cause
<1>7. memory_write_failed' \in BOOLEAN
  BY <1>1
<1>8. TypeOK'
  BY <1>1, <1>2, <1>5, <1>6, <1>7 DEF IInv, TypeOK, wiring, progress
<1>9. Control'
  BY <1>1 DEF IInv, Control, progress
<1>10. CallsGated'
  BY <1>1 DEF IInv, CallsGated, wiring, progress, specs
<1>11. \A k \in DOMAIN observations : observations[k].success
  BY <1>1 DEF IInv, Control, TrailIsPrefix, TypeOK, Observation
<1>12. TrailIsPrefix'
  BY <1>1, <1>11 DEF IInv, TrailIsPrefix, progress
<1>13. CompletedHonest'
  <2>1. final_answer'.kind = "draft" /\ final_answer'.from = last_result.tool
        /\ final_answer'.notes = disclosure_reasons'
    BY <1>1
  <2> QED
    BY <1>1, <1>2, <1>3, <1>11, <2>1 DEF CompletedHonest, progress, PlanHas
<1> QED  BY <1>8, <1>9, <1>10, <1>12, <1>13 DEF IInv

(* Every step of run(), and every stuttering step, keeps the invariant.    *)
LEMMA NextIInv == IInv /\ [Next]_vars => IInv'
<1> SUFFICES ASSUME IInv, [Next]_vars PROVE IInv'
    OBVIOUS
<1>1. CASE RetrieveMemory
  BY <1>1, RetrieveIInv
<1>2. CASE \E p \in PlansFor(specs) : Plan(p)
  BY <1>2, PlanIInv
<1>3. CASE PlannerRaises \/ StartExecution \/ ExceedMaxSteps \/ EndOfPlan
  BY <1>3, QuietIInv
<1>4. CASE \E v \in BOOLEAN : RefuseStep(v)
  BY <1>4, RefuseIInv
<1>5. CASE \E r \in CallOutcome : CallTool(r)
  BY <1>5, CallIInv
<1>6. CASE \E w \in BOOLEAN : FinalizeRun(w)
  BY <1>6, FinalizeIInv
<1>7. CASE UNCHANGED vars
  BY <1>7 DEF vars, wiring, progress, memory, outcome, IInv, TypeOK, Control,
     CallsGated, TrailIsPrefix, CompletedHonest, specs, PlanHas
<1> QED  BY <1>1, <1>2, <1>3, <1>4, <1>5, <1>6, <1>7 DEF Next

(* The fields of AgentState keep their types through every run.            *)
THEOREM RunTypeOK == Spec => []TypeOK
<1>1. IInv => TypeOK
  BY DEF IInv
<1> QED  BY <1>1, InitIInv, NextIInv, PTL DEF Spec

(* No tool function runs unless registered, planned, allowed by the policy *)
(* engine and approved; the trail is the executed prefix of the plan; a    *)
(* completed run completed its plan and disclosed what it must: for every  *)
(* registry, planner, client and step budget.                              *)
THEOREM RunSafe == Spec => [](CallsGated /\ TrailIsPrefix /\ CompletedHonest)
<1>1. IInv => CallsGated /\ TrailIsPrefix /\ CompletedHonest
  BY DEF IInv
<1> QED  BY <1>1, InitIInv, NextIInv, PTL DEF Spec

(* No tool function runs unless registered, planned, allowed and approved  *)
(* (ToolExecutor.execute).                                                 *)
THEOREM RunCallsGated == Spec => []CallsGated
BY RunSafe, PTL

(* The recorded results are those of the executed prefix of the plan       *)
(* (_execute_plan).                                                        *)
THEOREM RunTrailIsPrefix == Spec => []TrailIsPrefix
BY RunSafe, PTL

(* Once fail() or complete() ran, no step of run() changes the verdict or  *)
(* calls a tool.                                                           *)
THEOREM RunTerminalStable == Spec => TerminalStable
<1>1. IInv /\ [Next]_vars => [done => UNCHANGED <<outcome, progress>>]_vars
  <2> SUFFICES ASSUME IInv, Next, done PROVE FALSE
    OBVIOUS
  <2>1. pc = "returned"
    BY DEF IInv, Control
  <2> QED
    BY <2>1 DEF Next, RetrieveMemory, Plan, PlannerRaises, StartExecution,
       RefuseStep, CallTool, ExceedMaxSteps, EndOfPlan, FinalizeRun, AtStep
<1> QED  BY <1>1, InitIInv, NextIInv, PTL DEF Spec, TerminalStable

(* Every step of run() uses up one of the steps left, and at most max_steps*)
(* tools are called.                                                       *)
LEMMA StepsLeftInRange ==
    ASSUME IInv
    PROVE  StepsLeft \in 0..(MaxSteps + 5) /\ Len(calls) <= MaxSteps
<1>1. MaxSteps \in Nat /\ current_step \in 0..MaxSteps
  BY MaxStepsAssumption DEF IInv, TypeOK
<1>2. pc \in {"retrieve", "plan", "start", "loop", "finalize", "returned"}
  BY DEF IInv, TypeOK
<1>3. StepsLeft \in 0..(MaxSteps + 5)
  BY <1>1, <1>2 DEF StepsLeft
<1>4. Len(calls) \in Nat /\ Len(calls) <= current_step
  BY DEF IInv, TypeOK, Control
<1> QED  BY <1>1, <1>3, <1>4

LEMMA StepUsesOne ==
    ASSUME IInv, Next
    PROVE  StepsLeft' < StepsLeft
<1>1. MaxSteps \in Nat \ {0} /\ current_step \in 0..MaxSteps
  BY MaxStepsAssumption DEF IInv, TypeOK
<1>2. CASE RetrieveMemory
  BY <1>1, <1>2 DEF RetrieveMemory, progress, StepsLeft
<1>3. ASSUME NEW p \in PlansFor(specs), Plan(p) PROVE StepsLeft' < StepsLeft
  BY <1>1, <1>3 DEF Plan, StepsLeft
<1>4. CASE PlannerRaises
  BY <1>1, <1>4 DEF PlannerRaises, StepsLeft
<1>5. CASE StartExecution
  <2>1. pc = "start" /\ pc' = "loop" /\ current_step' = 0
    BY <1>5 DEF StartExecution, progress, IInv, Control
  <2> QED  BY <1>1, <2>1 DEF StepsLeft
<1>6. CASE (\E v \in BOOLEAN : RefuseStep(v)) \/ ExceedMaxSteps
  <2>1. pc = "loop" /\ pc' = "returned"
    BY <1>6 DEF RefuseStep, ExceedMaxSteps, AtStep
  <2> QED  BY <1>1, <2>1 DEF StepsLeft
<1>7. ASSUME NEW r \in CallOutcome, CallTool(r) PROVE StepsLeft' < StepsLeft
  <2>1. /\ pc = "loop" /\ pc' \in {"loop", "finalize", "returned"}
        /\ current_step' = current_step + 1 /\ current_step + 1 <= MaxSteps
    BY <1>7 DEF CallTool, AtStep, step_index
  <2> QED  BY <1>1, <2>1 DEF StepsLeft
<1>8. CASE EndOfPlan
  BY <1>1, <1>8 DEF EndOfPlan, StepsLeft
<1>9. ASSUME NEW w \in BOOLEAN, FinalizeRun(w) PROVE StepsLeft' < StepsLeft
  BY <1>9 DEF FinalizeRun, StepsLeft
<1> QED  BY <1>2, <1>3, <1>4, <1>5, <1>6, <1>7, <1>8, <1>9 DEF Next

(* A run has at most max_steps + 5 steps and calls at most max_steps tools,*)
(* for every plan, registry and client: _execute_plan neither repeats nor  *)
(* skips back, and its budget holds for plans longer than max_steps.       *)
THEOREM RunIsBounded == Spec => RunBounded
<1>1. IInv /\ [Next]_vars => [StepsLeft' < StepsLeft]_vars
  BY StepUsesOne
<1> QED  BY <1>1, InitIInv, NextIInv, StepsLeftInRange, PTL DEF Spec, RunBounded

-----------------------------------------------------------------------------
(* The repository's own planner                                            *)

(* Every placeholder of the planner is filled by the step before, or by a  *)
(* calculation; a step that writes memory is the first or follows the      *)
(* calculation, and only an answer that quotes its text comes after it.    *)
Resolving(p) ==
    /\ DOMAIN p \subseteq 1..3
    /\ \A i \in DOMAIN p :
          \/ p[i].placeholder \in {"none", "$last_text"}
          \/ p[i].placeholder = "$slot.calc_result"
                /\ \E j \in DOMAIN p : j < i /\ p[j].action = "CALCULATE"
          \/ i - 1 \in DOMAIN p /\ p[i].placeholder = p[i - 1].action
    /\ \A i \in DOMAIN p : p[i].action \in MEMORY_ACTIONS =>
          /\ i = 1 \/ (i - 1 \in DOMAIN p /\ p[i - 1].action = "CALCULATE")
          /\ \A j \in DOMAIN p : i < j =>
                j = i + 1 /\ p[j].action = "FINISH" /\ p[j].text \subseteq p[i].text

LEMMA PlanResolves ==
    ASSUME NEW steps, Resolving(steps)
    PROVE  Resolving(P!AsPlan(steps))
<1> DEFINE p == P!AsPlan(steps)
<1>1. /\ DOMAIN p = DOMAIN steps
      /\ \A i \in DOMAIN steps : /\ p[i].action = steps[i].action
                                 /\ p[i].placeholder = steps[i].placeholder
                                 /\ p[i].text = steps[i].text
  BY DEF P!AsPlan
<1> HIDE DEF p
<1>2. DOMAIN p \subseteq 1..3
  BY <1>1 DEF Resolving
<1>3. ASSUME NEW i \in DOMAIN p
      PROVE  \/ p[i].placeholder \in {"none", "$last_text"}
             \/ /\ p[i].placeholder = "$slot.calc_result"
                /\ \E j \in DOMAIN p : j < i /\ p[j].action = "CALCULATE"
             \/ i - 1 \in DOMAIN p /\ p[i].placeholder = p[i - 1].action
  BY <1>1, <1>3 DEF Resolving
<1>4. ASSUME NEW i \in DOMAIN p, p[i].action \in MEMORY_ACTIONS
      PROVE  /\ i = 1 \/ (i - 1 \in DOMAIN p /\ p[i - 1].action = "CALCULATE")
             /\ \A j \in DOMAIN p : i < j =>
                   j = i + 1 /\ p[j].action = "FINISH" /\ p[j].text \subseteq p[i].text
  <2>1. i \in DOMAIN steps /\ steps[i].action \in MEMORY_ACTIONS /\ i \in 1..3
    BY <1>1, <1>2, <1>4
  <2>2. i = 1 \/ (i - 1 \in DOMAIN steps /\ steps[i - 1].action = "CALCULATE")
    BY <2>1 DEF Resolving
  <2>3. \A j \in DOMAIN steps : i < j =>
           /\ j = i + 1 /\ steps[j].action = "FINISH"
           /\ steps[j].text \subseteq steps[i].text
    BY <2>1 DEF Resolving
  <2> QED BY <1>1, <2>1, <2>2, <2>3
<1>5. Resolving(p)
  BY <1>2, <1>3, <1>4 DEF Resolving
<1> QED BY <1>5 DEF p

LEMMA OwnPlanResolves ==
    ASSUME NEW intent, NEW filled, NEW n, NEW t, NEW s
    PROVE  Resolving(P!make_plan(intent, filled, n, t, s))
<1> USE DEF P!step, P!finish, MEMORY_ACTIONS
<1>1. Resolving(<<P!finish("none")>>)
  BY DEF Resolving
<1>2. ASSUME intent \in P!SkillIntents PROVE Resolving(P!SkillPlan(intent, n, t))
  <2>1. CASE intent = "calculate_then_save_note"
    <3> DEFINE p == P!SkillPlan(intent, n, t)
    <3>1. p = <<P!step("CALCULATE", {"expression"}, "none", {}),
                P!step("WRITE_NOTE", {"name", "content"}, "$last_text", n.refs),
                P!step("FINISH", {"answer"}, "$slot.calc_result", P!Quoted(n))>>
      BY <2>1 DEF P!SkillPlan
    <3>2. /\ DOMAIN p = 1..3 /\ p[1].action = "CALCULATE" /\ p[2].action = "WRITE_NOTE"
          /\ p[3].action = "FINISH" /\ p[1].placeholder = "none"
          /\ p[2].placeholder = "$last_text" /\ p[3].placeholder = "$slot.calc_result"
          /\ p[3].text \subseteq p[2].text
      BY <3>1 DEF P!Quoted
    <3> HIDE DEF p
    <3>3. Resolving(p)
      BY <3>2 DEF Resolving
    <3> QED BY <3>3 DEF p
  <2>2. CASE intent = "read_note_then_summarize"
    BY <2>2 DEF P!SkillPlan, Resolving
  <2>3. CASE intent = "web_search"
    BY <2>3 DEF P!SkillPlan, Resolving
  <2> QED BY <1>2, <2>1, <2>2, <2>3 DEF P!SkillIntents
<1>3. ASSUME intent \notin P!SkillIntents PROVE Resolving(P!FallbackPlan(intent, n, t))
  <2>1. CASE intent = "write_note"
    <3> DEFINE p == P!FallbackPlan(intent, n, t)
    <3>1. p = <<P!step("WRITE_NOTE", {"name", "content"}, "none", n.refs \cup t.refs),
                P!step("FINISH", {"answer"}, "none", P!Quoted(n))>>
      BY <2>1 DEF P!FallbackPlan
    <3>2. /\ DOMAIN p = 1..2 /\ p[1].action = "WRITE_NOTE" /\ p[2].action = "FINISH"
          /\ p[1].placeholder = "none" /\ p[2].placeholder = "none"
          /\ p[2].text \subseteq p[1].text
      BY <3>1 DEF P!Quoted
    <3> HIDE DEF p
    <3>3. Resolving(p)
      BY <3>2 DEF Resolving
    <3> QED BY <3>3 DEF p
  <2>2. CASE intent = "calculate"
    BY <2>2 DEF P!FallbackPlan, Resolving
  <2>3. CASE intent = "read_note"
    BY <2>3 DEF P!FallbackPlan, Resolving
  <2>4. CASE intent = "project_context_query"
    BY <2>4 DEF P!FallbackPlan, Resolving
  <2>5. CASE intent \notin {"write_note", "calculate", "read_note",
                           "project_context_query"}
    BY <1>1, <2>5 DEF P!FallbackPlan
  <2> QED BY <2>1, <2>2, <2>3, <2>4, <2>5
<1> QED BY <1>1, <1>2, <1>3, PlanResolves DEF P!make_plan, P!active

(* What is still found after the memory write whose text it was found in.  *)
Kept(ref) == \/ ref \in {"none", "$last_text", "$last.success", "CALCULATE"}
             \/ ref = "$slot.calc_result" /\ calc_slot

(* What a run with the repository's planner knows in its loop: the plan    *)
(* was validated, the step before succeeded and left what the next needs,  *)
(* and the text of a memory write was found.                               *)
Prepared ==
    /\ pc \in {"start", "loop", "finalize"} =>
          /\ Resolving(plan)
          /\ \A i \in DOMAIN plan : plan[i].action \in DOMAIN specs
    /\ pc \in {"retrieve", "plan", "start", "loop"} /\ current_step = 0 =>
          ~last_result.success
    /\ pc = "loop" =>
          /\ current_step > 0 => last_result.success
          /\ \A j \in DOMAIN plan :
                j <= current_step /\ plan[j].action = "CALCULATE" => calc_slot
          /\ \A j \in DOMAIN plan :
                j <= current_step /\ plan[j].action \in MEMORY_ACTIONS =>
                   \A ref \in plan[j].text : Kept(ref)

NoRefusal ==
    /\ \A k \in DOMAIN observations :
          observations[k].error \notin {"UnknownTool", "ValueError"}
    /\ \A k \in DOMAIN errors : errors[k] # "max_steps_exceeded"

(* The step was refused for what the user wrote.                           *)
ByUserText(k) ==
    /\ plan[k].text \ {"$last_text"} # {}
    /\ (\E c \in DOMAIN calls : calls[c].tool \in MEMORY_ACTIONS)
          => plan[k].action = "FINISH" /\ "CALCULATE" \in plan[k].text

RefusedByText ==
    /\ \A k \in DOMAIN observations :
          /\ observations[k].error # "UnknownTool"
          /\ observations[k].error = "ValueError" => ByUserText(k)
    /\ \A k \in DOMAIN errors : errors[k] # "max_steps_exceeded"

PlannedInv == backend \in OwnBackends =>
    Prepared /\ (NoRefusal \/ (pc = "returned" /\ RefusedByText))

(* The next step of a prepared run is registered, and what the planner put *)
(* into it is found.                                                       *)
LEMMA NextStepResolves ==
    ASSUME IInv, Prepared, AtStep
    PROVE  /\ step_index \in 1..3 /\ plan[step_index].action \in DOMAIN specs
           /\ Found(plan[step_index].placeholder)
<1>1. pc = "loop" /\ step_index \in DOMAIN plan /\ current_step \in Nat
  BY MaxStepsAssumption DEF AtStep, IInv, TypeOK
<1>2. Resolving(plan) /\ plan[step_index].action \in DOMAIN specs
  BY <1>1 DEF Prepared
<1>3. step_index \in 1..3 /\ step_index - 1 = current_step
  BY <1>1, <1>2 DEF Resolving, step_index
<1>4. CASE plan[step_index].placeholder \in {"none", "$last_text"}
  BY <1>2, <1>3, <1>4 DEF Found
<1>5. CASE /\ plan[step_index].placeholder = "$slot.calc_result"
           /\ \E j \in DOMAIN plan : j < step_index /\ plan[j].action = "CALCULATE"
  <2>1. PICK j \in DOMAIN plan : j < step_index /\ plan[j].action = "CALCULATE"
    BY <1>5
  <2>2. j \in 1..3
    BY <1>2 DEF Resolving
  <2>3. j <= current_step
    BY <1>1, <2>1, <2>2 DEF step_index
  <2>4. calc_slot
    BY <1>1, <2>1, <2>3 DEF Prepared
  <2> QED BY <1>2, <1>3, <1>5, <2>4 DEF Found
<1>6. CASE /\ step_index - 1 \in DOMAIN plan
           /\ plan[step_index].placeholder = plan[step_index - 1].action
  <2>1. current_step > 0
    BY <1>1, <1>2, <1>3, <1>6 DEF Resolving
  <2>2. last_result.tool = plan[current_step].action /\ last_result.success
    BY <1>1, <2>1 DEF IInv, Control, Prepared
  <2> QED BY <1>2, <1>3, <1>6, <2>2 DEF Found
<1>7. \/ plan[step_index].placeholder \in {"none", "$last_text"}
      \/ /\ plan[step_index].placeholder = "$slot.calc_result"
         /\ \E j \in DOMAIN plan : j < step_index /\ plan[j].action = "CALCULATE"
      \/ /\ step_index - 1 \in DOMAIN plan
         /\ plan[step_index].placeholder = plan[step_index - 1].action
  BY <1>1, <1>2 DEF Resolving
<1> QED BY <1>2, <1>3, <1>4, <1>5, <1>6, <1>7

(* A step that memory was written before is the answer, and only a path to *)
(* the calculation's output is no longer found in its text.                *)
LEMMA AfterMemoryWrite ==
    ASSUME IInv, Prepared, AtStep,
           NEW c \in DOMAIN calls, calls[c].tool \in MEMORY_ACTIONS
    PROVE  /\ plan[step_index].action = "FINISH"
           /\ \A ref \in plan[step_index].text : Found(ref) \/ ref = "CALCULATE"
<1>1. /\ pc = "loop" /\ step_index \in DOMAIN plan /\ current_step \in Nat
      /\ step_index = current_step + 1 /\ Resolving(plan)
  BY MaxStepsAssumption DEF AtStep, IInv, TypeOK, Prepared, step_index
<1>2. c \in 1..current_step
  <2>1. Len(calls) = current_step /\ DOMAIN calls = 1..Len(calls)
    BY <1>1 DEF IInv, TypeOK, Control
  <2> QED BY <2>1
<1>3. c \in DOMAIN plan /\ plan[c].action \in MEMORY_ACTIONS
  BY DEF IInv, CallsGated
<1>4. /\ step_index = c + 1 /\ plan[step_index].action = "FINISH"
      /\ plan[step_index].text \subseteq plan[c].text
  BY <1>1, <1>2, <1>3 DEF Resolving
<1>5. c = current_step
  BY <1>1, <1>2, <1>4
<1>6. \A ref \in plan[c].text : Kept(ref)
  BY <1>1, <1>3, <1>5 DEF Prepared
<1>7. last_result.tool # "none"
  BY <1>1, <1>2, <1>3, <1>5 DEF IInv, Control, MEMORY_ACTIONS
<1> QED BY <1>4, <1>6, <1>7 DEF Kept, Found

(* A memory write whose text was found keeps it findable.                  *)
LEMMA WrittenTextKept ==
    ASSUME IInv, Prepared, AtStep, plan[step_index].action \in MEMORY_ACTIONS,
           Resolvable(plan[step_index]), NEW ref \in plan[step_index].text
    PROVE  Kept(ref)
<1>1. /\ pc = "loop" /\ step_index \in DOMAIN plan /\ current_step \in Nat
      /\ step_index = current_step + 1 /\ Resolving(plan)
  BY MaxStepsAssumption DEF AtStep, IInv, TypeOK, Prepared, step_index
<1>2. Found(ref)
  BY DEF Resolvable
<1>3. CASE ref = last_result.tool /\ last_result.success
  <2>1. current_step > 0
    BY <1>1, <1>3 DEF Prepared
  <2>2. last_result.tool = plan[current_step].action
    BY <1>1, <2>1 DEF IInv, Control
  <2>3. step_index # 1 /\ step_index - 1 = current_step
    BY <1>1, <2>1
  <2>4. plan[current_step].action = "CALCULATE"
    BY <1>1, <2>3 DEF Resolving
  <2> QED BY <1>3, <2>2, <2>4 DEF Kept
<1> QED BY <1>2, <1>3 DEF Found, Kept

(* A failing step that is no placeholder error keeps the verdicts clean.   *)
LEMMA NoRefusalKept ==
    ASSUME IInv, NoRefusal, NEW o \in Observation, NEW c \in Cause,
           o.error \notin {"UnknownTool", "ValueError"}, c # "max_steps_exceeded",
           observations' = observations \/ observations' = Append(observations, o),
           errors' = errors \/ errors' = Append(errors, c)
    PROVE  NoRefusal'
<1>1. observations \in Seq(Observation) /\ errors \in Seq(Cause)
  BY DEF IInv, TypeOK
<1>2. \A k \in DOMAIN observations' :
         observations'[k].error \notin {"UnknownTool", "ValueError"}
  BY <1>1 DEF NoRefusal
<1>3. \A k \in DOMAIN errors' : errors'[k] # "max_steps_exceeded"
  BY <1>1 DEF NoRefusal
<1> QED BY <1>2, <1>3 DEF NoRefusal

LEMMA PlannedInit == Init => PlannedInv
BY DEF Init, PlannedInv, Prepared, NoRefusal, NoResult

LEMMA PlannedNext == IInv /\ PlannedInv /\ [Next]_vars => PlannedInv'
<1> SUFFICES ASSUME IInv, PlannedInv, [Next]_vars, backend' \in OwnBackends
             PROVE  Prepared' /\ (NoRefusal \/ (pc = "returned" /\ RefusedByText))'
  BY DEF PlannedInv
<1>1. backend' = backend
  BY DEF Next, RetrieveMemory, Plan, PlannerRaises, StartExecution, RefuseStep, CallTool,
     ExceedMaxSteps, EndOfPlan, FinalizeRun, vars, wiring
<1>2. /\ backend \in OwnBackends /\ Prepared /\ specs' = specs
      /\ pc # "returned" => NoRefusal
  BY <1>1 DEF PlannedInv, specs
<1>3. /\ observations \in Seq(Observation) /\ errors \in Seq(Cause)
      /\ current_step \in Nat /\ plan \in Seq(Step)
  BY MaxStepsAssumption DEF IInv, TypeOK
<1>4. CASE RetrieveMemory
  <2>1. /\ observations' = observations /\ pc' \in {"plan", "returned"}
        /\ pc = "retrieve" /\ current_step' = current_step
        /\ last_result' = last_result
    BY <1>4 DEF RetrieveMemory, progress
  <2>2. errors' = errors \/ errors' = Append(errors, "memory_retrieve_failed")
    BY <1>4 DEF RetrieveMemory, outcome, fail
  <2>3. NoRefusal'
    BY <1>2, <1>3, <2>1, <2>2, SMTT(30) DEF NoRefusal, Cause
  <2> QED BY <1>2, <2>1, <2>3 DEF Prepared
<1>5. ASSUME NEW p \in PlansFor(specs), Plan(p) PROVE Prepared' /\ NoRefusal'
  <2>1. /\ observations' = observations /\ plan' = p /\ pc' \in {"start", "returned"}
        /\ pc' = "start" => validate_plan(p)
        /\ pc = "plan" /\ current_step' = current_step
        /\ last_result' = last_result
    BY <1>5 DEF Plan
  <2>2. errors' = errors \/ errors' = Append(errors, "plan_validation_failed")
    BY <1>5 DEF Plan, fail
  <2>3. NoRefusal'
    BY <1>2, <1>3, <2>1, <2>2 DEF NoRefusal, Cause
  <2>4. Resolving(p)
    <3>1. p \in OwnPlans(specs)
      BY <1>2, OwnWiringAssumption DEF specs
    <3> QED BY <3>1, OwnPlanResolves DEF OwnPlans
  <2> QED BY <1>2, <2>1, <2>3, <2>4 DEF Prepared, validate_plan
<1>6. CASE PlannerRaises
  <2>1. /\ observations' = observations /\ pc = "plan" /\ pc' = "returned"
        /\ errors' = Append(errors, "plan_validation_failed")
    BY <1>6 DEF PlannerRaises, progress, fail
  <2>2. NoRefusal'
    BY <1>2, <1>3, <2>1 DEF NoRefusal, Cause
  <2> QED BY <2>1, <2>2 DEF Prepared
<1>7. CASE StartExecution
  <2>1. /\ pc = "start" /\ observations' = observations /\ errors' = errors
        /\ plan' = plan /\ current_step' = current_step
        /\ last_result' = last_result /\ pc' = "loop"
    BY <1>7 DEF StartExecution, progress
  <2>2. current_step = 0
    BY <2>1 DEF IInv, Control
  <2>3. \A j \in DOMAIN plan : j \in 1..3
    BY <1>2, <2>1 DEF Prepared, Resolving
  <2> QED BY <1>2, <2>1, <2>2, <2>3 DEF Prepared, NoRefusal
<1>8. ASSUME NEW v \in BOOLEAN, RefuseStep(v)
      PROVE  Prepared' /\ (NoRefusal \/ (pc = "returned" /\ RefusedByText))'
  <2> DEFINE why == RefusalOf(plan[step_index], v)
             o == [step_index |-> step_index, action |-> plan[step_index].action,
                   success |-> FALSE, error |-> why]
  <2>1. /\ AtStep /\ pc = "loop" /\ pc' = "returned"
        /\ errors' = Append(errors, "tool_error") /\ calls' = calls /\ plan' = plan
    BY <1>8 DEF RefuseStep, fail, AtStep
  <2>2. observations' = Append(observations, o)
    BY <1>8 DEF RefuseStep, record_result
  <2>3. plan[step_index].action \in DOMAIN specs /\ Found(plan[step_index].placeholder)
    BY <1>2, <2>1, NextStepResolves
  <2>4. /\ why \in Refusal \cup {"none"} /\ why # "UnknownTool"
        /\ why = "ValueError" => ~Resolvable(plan[step_index])
    BY <2>3 DEF RefusalOf, Refusal
  <2> HIDE DEF why
  <2>5. o \in Observation
    <3>1. step_index \in Nat \ {0} /\ plan[step_index] \in Step
      BY <1>3, <2>1 DEF AtStep, step_index
    <3>2. plan[step_index].action \in ToolName
      BY <3>1 DEF Step
    <3> QED BY <2>4, <3>1, <3>2 DEF Observation
  <2>6. CASE why # "ValueError"
    <3>1. o.error \notin {"UnknownTool", "ValueError"}
      BY <2>4, <2>6
    <3> HIDE DEF o
    <3>2. NoRefusal'
      BY <1>2, <2>1, <2>2, <2>5, <3>1, NoRefusalKept DEF Cause
    <3> QED BY <2>1, <3>2 DEF Prepared
  <2>7. CASE why = "ValueError"
    <3>1. PICK ref \in plan[step_index].text : ~Found(ref)
      BY <2>3, <2>4, <2>7 DEF Resolvable
    <3>2. ref \in plan[step_index].text \ {"$last_text"}
      BY <3>1 DEF Found
    <3>3. ASSUME NEW c \in DOMAIN calls, calls[c].tool \in MEMORY_ACTIONS
          PROVE  plan[step_index].action = "FINISH" /\ "CALCULATE" \in plan[step_index].text
      BY <1>2, <2>1, <3>1, <3>3, AfterMemoryWrite
    <3>4. PICK m \in Nat : m = step_index
      BY <1>3 DEF step_index
    <3>5. ByUserText(m)'
      BY <2>1, <3>2, <3>3, <3>4 DEF ByUserText
    <3>6. m = Len(observations) + 1
      BY <1>3, <3>4 DEF IInv, TrailIsPrefix, step_index
    <3>7. RefusedByText'
      <4>1. \A k \in DOMAIN observations' :
               IF k = m THEN observations'[k].error = "ValueError"
               ELSE k \in DOMAIN observations /\ observations'[k] = observations[k]
        BY <1>3, <2>2, <2>5, <2>7, <3>6
      <4>2. \A k \in DOMAIN errors' : errors'[k] # "max_steps_exceeded"
        BY <1>2, <1>3, <2>1 DEF NoRefusal, Cause
      <4>3. NoRefusal
        BY <1>2, <2>1
      <4> QED BY <3>5, <4>1, <4>2, <4>3 DEF RefusedByText, NoRefusal
    <3> QED BY <2>1, <3>7 DEF Prepared
  <2> QED BY <2>6, <2>7
<1>9. ASSUME NEW r \in CallOutcome, CallTool(r) PROVE Prepared' /\ NoRefusal'
  <2> DEFINE why == IF r = "ok" THEN "none" ELSE r
             o == [step_index |-> step_index, action |-> plan[step_index].action,
                   success |-> (r = "ok"), error |-> why]
  <2>1. /\ AtStep /\ plan' = plan /\ current_step' = step_index
        /\ last_result' = [tool |-> plan[step_index].action, success |-> (r = "ok")]
        /\ calc_slot' = (calc_slot \/ (plan[step_index].action = "CALCULATE" /\ r = "ok"))
        /\ pc' \in {"finalize", "loop", "returned"}
        /\ pc' # "returned" => r = "ok"
        /\ errors' = errors \/ errors' = Append(errors, "tool_error")
    BY <1>9 DEF CallTool, record_result, outcome, fail
  <2>2. observations' = Append(observations, o)
    BY <1>9 DEF CallTool, record_result
  <2>3. why \in CallOutcome \cup {"none"} /\ why \notin {"UnknownTool", "ValueError"}
    BY DEF CallOutcome
  <2> HIDE DEF why
  <2>4. o \in Observation
    <3>1. step_index \in Nat \ {0} /\ plan[step_index] \in Step
      BY <1>3, <2>1 DEF AtStep, step_index
    <3>2. plan[step_index].action \in ToolName
      BY <3>1 DEF Step
    <3> QED BY <2>3, <3>1, <3>2 DEF Observation
  <2>5. NoRefusal'
    <3>1. o.error \notin {"UnknownTool", "ValueError"}
      BY <2>3
    <3> HIDE DEF o
    <3>2. NoRefusal
      BY <1>2, <2>1 DEF AtStep
    <3> QED BY <2>1, <2>2, <2>4, <3>1, <3>2, NoRefusalKept DEF Cause
  <2>6. /\ pc = "loop" /\ RefusalOf(plan[step_index], TRUE) = "none"
        /\ \A j \in DOMAIN plan : j \in 1..3
    BY <1>2, <1>9, <2>1 DEF CallTool, AtStep, Prepared, Resolving
  <2>7. Prepared'
    <3>1. pc' = "loop" => last_result'.success
      BY <2>1
    <3>2. \A j \in DOMAIN plan : j <= current_step' => j <= current_step \/ j = step_index
      BY <1>3, <2>1, <2>6 DEF step_index
    <3>3. ASSUME pc' = "loop", NEW j \in DOMAIN plan, j <= current_step',
                 plan[j].action = "CALCULATE"
          PROVE  calc_slot'
      <4>1. CASE j <= current_step
        BY <1>2, <2>1, <2>6, <3>3, <4>1 DEF Prepared
      <4>2. CASE j = step_index
        BY <2>1, <3>3, <4>2
      <4> QED BY <3>2, <3>3, <4>1, <4>2
    <3>5. Resolvable(plan[step_index])
      BY <2>6 DEF RefusalOf
    <3>6. ASSUME pc' = "loop", NEW j \in DOMAIN plan, j <= current_step',
                 plan[j].action \in MEMORY_ACTIONS, NEW ref \in plan[j].text
          PROVE  Kept(ref)'
      <4>1. Kept(ref)
        <5>1. CASE j <= current_step
          BY <1>2, <2>6, <3>6, <5>1 DEF Prepared
        <5>2. CASE j = step_index
          BY <1>2, <2>1, <3>5, <3>6, <5>2, WrittenTextKept
        <5> QED BY <3>2, <3>6, <5>1, <5>2
      <4> QED BY <2>1, <4>1 DEF Kept
    <3>4. Resolving(plan) /\ \A i \in DOMAIN plan : plan[i].action \in DOMAIN specs
      BY <1>2, <2>6 DEF Prepared
    <3>7. current_step' # 0
      BY <1>3, <2>1 DEF step_index
    <3> QED BY <1>2, <2>1, <3>1, <3>3, <3>4, <3>6, <3>7 DEF Prepared
  <2> QED BY <2>5, <2>7
<1>10. CASE ExceedMaxSteps
  <2>1. AtStep /\ step_index > MaxSteps
    BY <1>10 DEF ExceedMaxSteps
  <2>2. step_index \in 1..3
    BY <1>2, <2>1, NextStepResolves
  <2> QED BY <2>1, <2>2, OwnWiringAssumption, MaxStepsAssumption
<1>11. CASE EndOfPlan
  BY <1>2, <1>11 DEF EndOfPlan, progress, outcome, Prepared, NoRefusal
<1>12. ASSUME NEW w \in BOOLEAN, FinalizeRun(w) PROVE Prepared' /\ NoRefusal'
  <2>1. /\ observations' = observations /\ pc = "finalize" /\ pc' = "returned"
        /\ errors' = errors \/ errors' = Append(errors, "memory_write_failed")
    BY <1>12 DEF FinalizeRun, progress
  <2>2. NoRefusal'
    BY <1>2, <1>3, <2>1 DEF NoRefusal, Cause
  <2> QED BY <2>1, <2>2 DEF Prepared
<1>13. CASE UNCHANGED vars
  <2>1. /\ pc' = pc /\ plan' = plan /\ calls' = calls /\ observations' = observations
        /\ errors' = errors /\ current_step' = current_step /\ specs' = specs
        /\ last_result' = last_result /\ calc_slot' = calc_slot
    BY <1>2, <1>13 DEF vars, progress, outcome
  <2>2. Prepared'
    BY <1>2, <2>1 DEF Prepared, Kept
  <2>3. (NoRefusal \/ (pc = "returned" /\ RefusedByText))'
    BY <1>1, <2>1 DEF PlannedInv, NoRefusal, RefusedByText, ByUserText
  <2> QED BY <2>2, <2>3
<1> QED
  BY <1>4, <1>5, <1>6, <1>7, <1>8, <1>9, <1>10, <1>11, <1>12, <1>13 DEF Next

(* With the repository's planner, registries and backends, for whatever    *)
(* the user writes, for every step budget that holds its longest plan and  *)
(* beside any injected wiring: no step is refused because its tool is      *)
(* missing, resolve_args refuses one only for a reference in the user's    *)
(* text and, once a note was written, only in the answer that repeats the  *)
(* note's name; a local durable tool runs only where its backend keeps     *)
(* what it writes.                                                         *)
THEOREM RunOnlyUserTextUnresolved == Spec => []OnlyUserTextUnresolved
<1>1. IInv /\ PlannedInv => OnlyUserTextUnresolved
  <2> SUFFICES ASSUME IInv, PlannedInv, backend \in OwnBackends
               PROVE  OnlyUserTextUnresolved
    BY DEF OnlyUserTextUnresolved
  <2>1. RefusedByText
    BY DEF PlannedInv, NoRefusal, RefusedByText
  <2>2. ASSUME NEW k \in DOMAIN calls, calls[k].tool \in P!LOCAL_DURABLE_TOOLS
        PROVE  backend = P!Backend("local")
    <3>1. calls[k].tool \in DOMAIN backend.specs
      BY <2>2 DEF IInv, CallsGated, specs
    <3>2. PICK b \in {"local", "none", "remote"} : backend = P!Backend(b)
      BY DEF OwnBackends
    <3>3. b # "local" => DOMAIN backend.specs = P!AllTools \ P!LOCAL_DURABLE_TOOLS
      BY <3>2 DEF P!Backend, P!build_tool_registry
    <3> QED BY <2>2, <3>1, <3>2, <3>3
  <2> QED BY <2>1, <2>2 DEF OnlyUserTextUnresolved, RefusedByText, ByUserText
<1> QED
  BY <1>1, InitIInv, NextIInv, PlannedInit, PlannedNext, PTL DEF Spec
=============================================================================
