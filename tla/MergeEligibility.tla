--------------------------- MODULE MergeEligibility -------------------------
(***************************************************************************)
(* The merge-eligibility policy of the build harness.  A caller supplies   *)
(* the facts it established about a candidate; a policy, which is data,    *)
(* turns every deviating fact into a reason code; the codes give the       *)
(* disposition; decision and input are sealed by digests into a record     *)
(* that anybody can later replay against registries of known policies and  *)
(* evaluators.                                                             *)
(*                                                                         *)
(* A canonical digest is modelled as the tagged payload it is computed     *)
(* from, so digests are equal exactly when the payloads are.  The tuples   *)
(* the code keeps sorted and duplicate-free are sets.  The seven digests   *)
(* that bind an input to its sources are one value, source.                *)
(***************************************************************************)
EXTENDS Integers, FiniteSets, Sequences

CONSTANTS
    Requirement,     \* requirement ids a task contract may name
    Evidence,        \* evidence record ids
    Source,          \* what the source-binding digests of an input stand for
    Evaluator,       \* evaluator versions
    OtherPolicies,   \* well-formed policies that are not the production one
    MaxDeviations,   \* bound: facts off their clean value at one time
    NoRecord

Good == [task_context_current |-> "CURRENT", candidate_binding_current |-> "CURRENT",
         repository_snapshot_current |-> "CURRENT", repository_release_clean |-> "CLEAN",
         policy_context_current |-> "CURRENT", evidence_context_status |-> "COHERENT",
         scope_status |-> "COMPLIANT", approval_status |-> "VALID",
         authority_status |-> "VALID"]

EnumFact == {"task_context_current", "candidate_binding_current",
             "repository_snapshot_current", "repository_release_clean",
             "policy_context_current", "evidence_context_status",
             "scope_status", "approval_status", "authority_status"}

Values(fact) ==
    CASE fact \in {"task_context_current", "candidate_binding_current",
                   "policy_context_current"} -> {"CURRENT", "STALE", "UNKNOWN"}
      [] fact = "repository_snapshot_current" -> {"CURRENT", "MISMATCH", "UNKNOWN"}
      [] fact = "repository_release_clean" -> {"CLEAN", "DIRTY", "UNKNOWN"}
      [] fact = "evidence_context_status" -> {"COHERENT", "INCOHERENT", "UNKNOWN"}
      [] fact = "scope_status" ->
            {"COMPLIANT", "VIOLATION", "SEMANTIC_UNCERTAIN", "NOT_EVALUATED"}
      [] fact = "approval_status" -> {"VALID", "MISSING", "STALE", "UNKNOWN"}
      [] OTHER -> {"VALID", "INVALID", "UNKNOWN"}

AnyValue == UNION {Values(fact) : fact \in EnumFact}

Violation == {"TASK_MISMATCH", "RUN_MISMATCH", "CANDIDATE_MISMATCH",
              "PROVENANCE_INVALID", "DUPLICATE_IDENTITY"}

VerifierIdentity == {"ATTESTED", "PRESENT_UNATTESTED", "ABSENT", "INVALID"}
VerifierIndependence == {"INDEPENDENT", "NOT_INDEPENDENT", "UNKNOWN"}

RequirementSet == {"required", "satisfied", "invalid", "missing"}
EvidenceSet == {"rejected", "invalid_provenance", "unexpected"}
SetFact == RequirementSet \cup EvidenceSet

Disposition == {"ELIGIBLE_TO_MERGE_UNDER_POLICY", "REVIEW_REQUIRED", "BLOCK"}
EvaluationMode == {"ENFORCE", "SHADOW"}

\* The schema a record is written under, and another one.
SCHEMA == "policy-evaluation-record.v1"

NoReason == "none"

-----------------------------------------------------------------------------
(* The facts *)

\* Tuples of ids are sorted and without repetition.
IdSet == SUBSET (Requirement \cup Evidence)

Facts ==
    [enum : [EnumFact -> AnyValue], violations : SUBSET Violation,
     identity : VerifierIdentity, independence : VerifierIndependence,
     set : [SetFact -> IdSet]]

\* What the constructor of EligibilityFacts accepts.
EligibilityFacts(f) ==
    /\ f.identity \in VerifierIdentity /\ f.independence \in VerifierIndependence
    /\ f.violations \subseteq Violation
    /\ \A fact \in EnumFact : f.enum[fact] \in Values(fact)
    /\ (f.violations # {}) <=> (f.enum["evidence_context_status"] = "INCOHERENT")
    /\ f.set["satisfied"] \cap f.set["invalid"] = {}
    /\ f.set["satisfied"] \cap f.set["missing"] = {}
    /\ f.set["invalid"] \cap f.set["missing"] = {}
    /\ f.set["satisfied"] \cup f.set["invalid"] \cup f.set["missing"] = f.set["required"]

CleanFacts ==
    [enum |-> Good, violations |-> {}, identity |-> "ATTESTED",
     independence |-> "INDEPENDENT",
     set |-> [s \in SetFact |->
                IF s \in {"required", "satisfied"} THEN Requirement ELSE {}]]

Deviations(f) ==
    Cardinality({fact \in EnumFact \ {"evidence_context_status"} :
                    f.enum[fact] # Good[fact]})
      + Cardinality(f.violations)
      + (IF f.enum["evidence_context_status"] = "UNKNOWN" THEN 1 ELSE 0)
      + (IF f.identity # "ATTESTED" THEN 1 ELSE 0)
      + (IF f.independence # "INDEPENDENT" THEN 1 ELSE 0)
      + Cardinality({s \in SetFact \ {"required", "satisfied"} : f.set[s] # {}})

-----------------------------------------------------------------------------
(* A policy *)

Reason == {"AUTHORITY_INVALID", "REQUIRED_CONTEXT_INCOMPLETE",
           "EVIDENCE_TASK_MISMATCH", "EVIDENCE_RUN_MISMATCH",
           "EVIDENCE_CANDIDATE_MISMATCH", "REPOSITORY_CONTEXT_MISMATCH",
           "EVIDENCE_PROVENANCE_INVALID", "EVIDENCE_DUPLICATE_IDENTITY",
           "REQUIRED_EVIDENCE_INVALID", "TASK_CONTEXT_STALE", "CANDIDATE_STALE",
           "POLICY_CONTEXT_STALE", "REQUIRED_EVIDENCE_MISSING",
           "RELEASE_STATE_NOT_CLEAN", "SCOPE_VIOLATION", "APPROVAL_MISSING",
           "APPROVAL_STALE", "VERIFIER_NOT_INDEPENDENT", "SCOPE_UNCERTAIN",
           "VERIFIER_INDEPENDENCE_UNKNOWN"}

matches(row, identity, independence) ==
    identity \in row.identity /\ independence \in row.independence

KnownCodes(p) == DOMAIN p.rank

\* Every code has a disposition, and a rank of its own.
validate_reason_definitions(p) ==
    /\ DOMAIN p.default = KnownCodes(p)
    /\ \A c, d \in KnownCodes(p) : c # d => p.rank[c] # p.rank[d]

\* The tables are total over the facts and name known codes.
validate_enum_fact_reasons(p) ==
    \A fact \in EnumFact : \A v \in Values(fact) :
        p.enum_fact_reasons[fact][v] \in KnownCodes(p) \cup {NoReason}

validate_violation_tag_reasons(p) ==
    \A tag \in Violation : p.violation_tag_reasons[tag] \in KnownCodes(p)

validate_set_fact_triggers(p) ==
    \A s \in SetFact : p.set_fact_triggers[s] \in KnownCodes(p) \cup {NoReason}

verifier_rule_covers_all_combinations(p) ==
    \A a \in VerifierIdentity, b \in VerifierIndependence :
        \E i \in DOMAIN p.verifier_rule : matches(p.verifier_rule[i], a, b)

MergeEligibilityPolicy(p) ==
    /\ validate_reason_definitions(p)
    /\ validate_enum_fact_reasons(p)
    /\ validate_violation_tag_reasons(p)
    /\ validate_set_fact_triggers(p)
    /\ \A i \in DOMAIN p.verifier_rule :
          p.verifier_rule[i].reason \in KnownCodes(p) \cup {NoReason}
    /\ verifier_rule_covers_all_combinations(p)

resolve_verifier_reason(p, identity, independence) ==
    LET first == CHOOSE i \in DOMAIN p.verifier_rule :
                    /\ matches(p.verifier_rule[i], identity, independence)
                    /\ \A j \in DOMAIN p.verifier_rule :
                          j < i => ~matches(p.verifier_rule[j], identity, independence)
    IN p.verifier_rule[first].reason

REASON_RANK ==
    [AUTHORITY_INVALID |-> 10, REQUIRED_CONTEXT_INCOMPLETE |-> 20,
     EVIDENCE_TASK_MISMATCH |-> 30, EVIDENCE_RUN_MISMATCH |-> 40,
     EVIDENCE_CANDIDATE_MISMATCH |-> 50, REPOSITORY_CONTEXT_MISMATCH |-> 60,
     EVIDENCE_PROVENANCE_INVALID |-> 70, EVIDENCE_DUPLICATE_IDENTITY |-> 80,
     REQUIRED_EVIDENCE_INVALID |-> 90, TASK_CONTEXT_STALE |-> 95,
     CANDIDATE_STALE |-> 100, POLICY_CONTEXT_STALE |-> 110,
     REQUIRED_EVIDENCE_MISSING |-> 120, RELEASE_STATE_NOT_CLEAN |-> 130,
     SCOPE_VIOLATION |-> 140, APPROVAL_MISSING |-> 150, APPROVAL_STALE |-> 160,
     VERIFIER_NOT_INDEPENDENT |-> 170, SCOPE_UNCERTAIN |-> 180,
     VERIFIER_INDEPENDENCE_UNKNOWN |-> 190]

\* Mutant: a missing approval only asks for review.
REASON_DISPOSITION_ApprovalReviewed ==
    [c \in Reason |-> IF c \in {"SCOPE_UNCERTAIN", "APPROVAL_MISSING"}
                      THEN "REVIEW_REQUIRED" ELSE "BLOCK"]

REASON_DISPOSITION ==
    [c \in Reason |-> IF c \in {"SCOPE_UNCERTAIN", "VERIFIER_INDEPENDENCE_UNKNOWN"}
                      THEN "REVIEW_REQUIRED" ELSE "BLOCK"]

ReasonOf(fact, v) ==
    IF v = Good[fact] \/ (fact = "evidence_context_status" /\ v = "INCOHERENT") THEN NoReason
    ELSE IF fact = "approval_status"
         THEN IF v = "STALE" THEN "APPROVAL_STALE" ELSE "APPROVAL_MISSING"
    ELSE IF v \in {"UNKNOWN", "NOT_EVALUATED"} THEN "REQUIRED_CONTEXT_INCOMPLETE"
    ELSE CASE fact = "task_context_current" -> "TASK_CONTEXT_STALE"
           [] fact = "candidate_binding_current" -> "CANDIDATE_STALE"
           [] fact = "repository_snapshot_current" -> "REPOSITORY_CONTEXT_MISMATCH"
           [] fact = "repository_release_clean" -> "RELEASE_STATE_NOT_CLEAN"
           [] fact = "policy_context_current" -> "POLICY_CONTEXT_STALE"
           [] fact = "scope_status" ->
                 IF v = "VIOLATION" THEN "SCOPE_VIOLATION" ELSE "SCOPE_UNCERTAIN"
           [] OTHER -> "AUTHORITY_INVALID"

ENUM_FACT_REASONS == [fact \in EnumFact |-> [v \in Values(fact) |-> ReasonOf(fact, v)]]

VIOLATION_TAG_REASONS ==
    [TASK_MISMATCH |-> "EVIDENCE_TASK_MISMATCH", RUN_MISMATCH |-> "EVIDENCE_RUN_MISMATCH",
     CANDIDATE_MISMATCH |-> "EVIDENCE_CANDIDATE_MISMATCH",
     PROVENANCE_INVALID |-> "EVIDENCE_PROVENANCE_INVALID",
     DUPLICATE_IDENTITY |-> "EVIDENCE_DUPLICATE_IDENTITY"]

SET_FACT_TRIGGERS ==
    [s \in SetFact |->
        CASE s = "missing" -> "REQUIRED_EVIDENCE_MISSING"
          [] s = "invalid" -> "REQUIRED_EVIDENCE_INVALID"
          [] s = "invalid_provenance" -> "EVIDENCE_PROVENANCE_INVALID"
          [] OTHER -> NoReason]

\* Mutant: an attested verifier of unknown independence falls to an earlier row.
VERIFIER_RULE_Overlapping ==
    LET row(a, b, r) == [identity |-> a, independence |-> b, reason |-> r]
    IN <<row({"INVALID"}, VerifierIndependence, "AUTHORITY_INVALID"),
         row({"ABSENT"}, VerifierIndependence, "REQUIRED_CONTEXT_INCOMPLETE"),
         row({"ATTESTED"}, {"NOT_INDEPENDENT", "UNKNOWN"}, "VERIFIER_NOT_INDEPENDENT"),
         row({"ATTESTED"}, {"INDEPENDENT"}, NoReason),
         row({"PRESENT_UNATTESTED"}, VerifierIndependence, "VERIFIER_INDEPENDENCE_UNKNOWN")>>

VERIFIER_RULE ==
    LET row(a, b, r) == [identity |-> a, independence |-> b, reason |-> r]
    IN <<row({"INVALID"}, VerifierIndependence, "AUTHORITY_INVALID"),
         row({"ABSENT"}, VerifierIndependence, "REQUIRED_CONTEXT_INCOMPLETE"),
         row({"ATTESTED", "PRESENT_UNATTESTED"}, {"NOT_INDEPENDENT"}, "VERIFIER_NOT_INDEPENDENT"),
         row({"ATTESTED"}, {"INDEPENDENT"}, NoReason),
         row({"ATTESTED"}, {"UNKNOWN"}, "VERIFIER_INDEPENDENCE_UNKNOWN"),
         row({"PRESENT_UNATTESTED"}, {"INDEPENDENT", "UNKNOWN"},
             "VERIFIER_INDEPENDENCE_UNKNOWN")>>

POLICY_V1 ==
    [version |-> "v2-draft", digest |-> "majority",
     rank |-> REASON_RANK, default |-> REASON_DISPOSITION,
     enum_fact_reasons |-> ENUM_FACT_REASONS,
     violation_tag_reasons |-> VIOLATION_TAG_REASONS,
     set_fact_triggers |-> SET_FACT_TRIGGERS, verifier_rule |-> VERIFIER_RULE]

PolicyIdentity(p) == [version |-> p.version, digest |-> p.digest]

\* Nobody else uses the declared identity of the production policy.
ASSUME IdentityAssumption ==
    \A p \in OtherPolicies : PolicyIdentity(p) # PolicyIdentity(POLICY_V1)

Policies == {POLICY_V1} \cup OtherPolicies

-----------------------------------------------------------------------------
(* Evaluation *)

ReasonsFor(f, p) ==
    ({p.enum_fact_reasons[fact][f.enum[fact]] : fact \in EnumFact}
       \cup {p.violation_tag_reasons[tag] : tag \in f.violations}
       \cup {p.set_fact_triggers[s] : s \in {s \in SetFact : f.set[s] # {}}}
       \cup {resolve_verifier_reason(p, f.identity, f.independence)}) \ {NoReason}

WithDisposition(reasons, p, d) == {c \in reasons : p.default[c] = d}

DerivedDisposition(blocking, review) ==
    IF blocking # {} THEN "BLOCK"
    ELSE IF review # {} THEN "REVIEW_REQUIRED" ELSE "ELIGIBLE_TO_MERGE_UNDER_POLICY"

\* The evaluator raises on a reason that neither blocks nor asks for review.
EvaluatorRaises(f, p) ==
    WithDisposition(ReasonsFor(f, p), p, "ELIGIBLE_TO_MERGE_UNDER_POLICY") # {}

DecisionCore(input, p) ==
    LET reasons == ReasonsFor(input.facts, p)
        blocking == WithDisposition(reasons, p, "BLOCK")
        review == WithDisposition(reasons, p, "REVIEW_REQUIRED")
    IN [disposition |-> DerivedDisposition(blocking, review),
        authority |-> IF input.mode = "ENFORCE" THEN "AUTHORITATIVE" ELSE "ADVISORY_ONLY",
        primary |-> IF reasons = {} THEN NoReason
                    ELSE CHOOSE c \in reasons : \A d \in reasons : p.rank[c] <= p.rank[d],
        complete |-> reasons, blocking |-> blocking, review |-> review,
        set |-> input.facts.set]

-----------------------------------------------------------------------------
(* The decision, its record and their digests *)

canonical_digest(kind, payload) == [kind |-> kind, payload |-> payload]

input_digest(input) == canonical_digest("input", input)

\* The part of the input that a record repeats.
Echo(x) == [source |-> x.source, policy |-> x.policy, evaluator |-> x.evaluator, mode |-> x.mode]

Identity(r) == [echo |-> r.echo, input_digest |-> r.input_digest, core |-> r.core]

decision_digest_for(r) == canonical_digest("decision", Identity(r))

record_digest_for(r) ==
    canonical_digest("record", [schema |-> r.schema, identity |-> Identity(r),
                                decision_digest |-> r.decision_digest])

\* Mutant: the record digest is computed before the decision digest is set.
SealRecord_RecordFirst(r) ==
    [r EXCEPT !.record_digest = record_digest_for(r), !.decision_digest = decision_digest_for(r)]

SealRecord(r) ==
    LET s == [r EXCEPT !.decision_digest = decision_digest_for(r)]
    IN [s EXCEPT !.record_digest = record_digest_for(s)]

\* finalize_decision and build_policy_evaluation_record
RecordOf(input, core) ==
    SealRecord([schema |-> SCHEMA, echo |-> Echo(input), input_digest |-> input_digest(input),
                core |-> core, decision_digest |-> NoRecord, record_digest |-> NoRecord])

\* The facade evaluates under the production policy, whatever the input names.
evaluate_merge_eligibility(input) == RecordOf(input, DecisionCore(input, POLICY_V1))

NormalCore(c) ==
    /\ c.complete \subseteq Reason
    /\ c.blocking \cap c.review = {}
    /\ c.blocking \cup c.review = c.complete
    /\ IF c.complete = {} THEN c.primary = NoReason ELSE c.primary \in c.complete
    /\ c.disposition = DerivedDisposition(c.blocking, c.review)
    /\ c.set["satisfied"] \cap c.set["invalid"] = {}
    /\ c.set["satisfied"] \cap c.set["missing"] = {}
    /\ c.set["invalid"] \cap c.set["missing"] = {}
    /\ c.set["satisfied"] \cup c.set["invalid"] \cup c.set["missing"] = c.set["required"]

StructurallyValid(r) ==
    /\ r.schema = SCHEMA
    /\ NormalCore(r.core)
    /\ r.decision_digest = decision_digest_for(r)
    /\ r.record_digest = record_digest_for(r)

InputBound(r, input) == r.echo = Echo(input) /\ r.input_digest = input_digest(input)

-----------------------------------------------------------------------------
(* Replay *)

\* A registry maps every policy under its own identity, once.
PolicyRegistry(policies) ==
    /\ \A p \in policies : MergeEligibilityPolicy(p)
    /\ \A p, q \in policies : PolicyIdentity(p) = PolicyIdentity(q) => p = q

Registries == {policies \in SUBSET Policies : PolicyRegistry(policies)}

resolve(policies, identity) == {p \in policies : PolicyIdentity(p) = identity}

\* Mutant: only what else the decision lists is compared.
mismatch_codes_Accounting(replayed, r) ==
    {f \in {"set"} : replayed.core[f] # r.core[f]}

\* Mutant: the digests are not compared.
mismatch_codes_NoDigests(replayed, r) ==
    {f \in {"disposition", "primary", "complete", "blocking", "review", "set"} :
        replayed.core[f] # r.core[f]}

mismatch_codes(replayed, r) ==
    {f \in {"disposition", "primary", "complete", "blocking", "review", "set"} :
        replayed.core[f] # r.core[f]}
      \cup {d \in {"decision_digest", "record_digest"} : replayed[d] # r[d]}

verify_semantic_replay(input, r, policies, evaluators) ==
    LET named == resolve(policies, r.echo.policy)
        policy == CHOOSE p \in named : TRUE
    IN CASE ~StructurallyValid(r) -> "RECORD_STRUCTURALLY_INVALID"
         [] StructurallyValid(r) /\ ~InputBound(r, input) -> "INPUT_BINDING_MISMATCH"
         [] StructurallyValid(r) /\ InputBound(r, input) /\ named = {} ->
               "UNKNOWN_POLICY_IDENTITY"
         [] OTHER ->
               IF r.echo.evaluator \notin evaluators THEN "UNKNOWN_EVALUATOR_IDENTITY"
               ELSE IF EvaluatorRaises(input.facts, policy) THEN "RAISES"
               ELSE IF mismatch_codes(RecordOf(input, DecisionCore(input, policy)), r) = {}
                    THEN "SEMANTICALLY_REPLAY_VERIFIED"
                    ELSE "SEMANTIC_REPLAY_MISMATCH"

-----------------------------------------------------------------------------
VARIABLES
    facts,      \* the facts the caller last established
    input,      \* the input of the stored record
    stored,     \* the stored record, or NoRecord
    edited,     \* TRUE: the stored record is no longer as the facade returned it
    replay      \* the replay of stored: [input, registered, class], or NoRecord

vars == <<facts, input, stored, edited, replay>>

PolicyNames == {PolicyIdentity(p) : p \in Policies}

InputType ==
    [source : Source, policy : PolicyNames, evaluator : Evaluator,
     mode : EvaluationMode, facts : Facts]

TypeOK ==
    /\ facts \in Facts /\ EligibilityFacts(facts)
    /\ input \in InputType \cup {NoRecord}
    /\ stored # NoRecord => input # NoRecord /\ EligibilityFacts(input.facts)
    /\ edited \in BOOLEAN

Init ==
    /\ facts = CleanFacts
    /\ input = NoRecord
    /\ stored = NoRecord
    /\ edited = FALSE
    /\ replay = NoRecord

\* The caller looks again: new facts are accepted by the constructor.
Establish(f) ==
    /\ stored = NoRecord
    /\ EligibilityFacts(f)
    /\ Deviations(f) <= MaxDeviations
    /\ facts' = f
    /\ UNCHANGED <<input, stored, edited, replay>>

ObserveEnum(fact, v) ==
    /\ fact = "evidence_context_status" => facts.violations = {}
    /\ Establish([facts EXCEPT !.enum[fact] = v])

ObserveViolations(tags) ==
    /\ tags # facts.violations
    /\ Establish([facts EXCEPT
          !.violations = tags,
          !.enum["evidence_context_status"] = IF tags = {} THEN "COHERENT" ELSE "INCOHERENT"])

ObserveVerifier(identity, independence) ==
    Establish([facts EXCEPT !.identity = identity, !.independence = independence])

\* A requirement is found satisfied, invalid or missing.
ObserveRequirement(r, where) ==
    Establish([facts EXCEPT !.set =
        [s \in SetFact |->
            IF s = where THEN @[s] \cup {r}
            ELSE IF s \in RequirementSet \ {"required"} THEN @[s] \ {r} ELSE @[s]]])

ObserveEvidence(s, ids) == Establish([facts EXCEPT !.set[s] = ids])

Evaluate(source, policy, evaluator, mode) ==
    /\ stored = NoRecord
    /\ input' = [source |-> source, policy |-> policy, evaluator |-> evaluator,
                 mode |-> mode, facts |-> facts]
    /\ stored' = evaluate_merge_eligibility(input')
    /\ edited' = FALSE
    /\ replay' = NoRecord
    /\ UNCHANGED facts

\* Between writing and replay a stored record may be changed (once); what is
\* changed may have been sealed again or not.
Edit(r) ==
    /\ stored # NoRecord /\ edited = FALSE
    /\ r # stored
    /\ stored' = r
    /\ edited' = TRUE
    /\ replay' = NoRecord
    /\ UNCHANGED <<facts, input>>

Rewritten(core, resealed) ==
    LET r == [stored EXCEPT !.core = core] IN IF resealed THEN SealRecord(r) ELSE r

\* The record loses one reason, and what follows from it.
DropReason(code, resealed) ==
    /\ stored # NoRecord /\ code \in stored.core.complete
    /\ LET c == stored.core
           complete == c.complete \ {code}
           blocking == c.blocking \ {code}
           review == c.review \ {code}
       IN Edit(Rewritten(
             [c EXCEPT !.complete = complete, !.blocking = blocking, !.review = review,
                       !.disposition = DerivedDisposition(blocking, review),
                       !.primary = IF complete = {} THEN NoReason
                                   ELSE IF @ # code THEN @ ELSE CHOOSE d \in complete : TRUE],
             resealed))

ChangeAuthority(resealed) ==
    /\ stored # NoRecord
    /\ Edit(Rewritten([stored.core EXCEPT !.authority = "AUTHORITATIVE"], resealed))

ChangeSchema(schema) ==
    /\ stored # NoRecord
    /\ Edit(SealRecord([stored EXCEPT !.schema = schema]))

\* What a record may be replayed against: its own input, the input of another
\* candidate, or its input with the facts put right.
OtherInputs ==
    IF stored = NoRecord THEN {}
    ELSE {[input EXCEPT !.source = s] : s \in Source} \cup {[input EXCEPT !.facts = CleanFacts]}

Replay(other, policies, evaluators) ==
    /\ stored # NoRecord /\ replay = NoRecord
    /\ replay' = [input |-> other, registered |-> resolve(policies, stored.echo.policy) # {},
                  class |-> verify_semantic_replay(other, stored, policies, evaluators)]
    /\ UNCHANGED <<facts, input, stored, edited>>

Discard ==
    /\ stored # NoRecord
    /\ stored' = NoRecord /\ input' = NoRecord /\ edited' = FALSE /\ replay' = NoRecord
    /\ UNCHANGED facts

Next ==
    \/ \E fact \in EnumFact : \E v \in Values(fact) : ObserveEnum(fact, v)
    \/ \E tags \in SUBSET Violation : ObserveViolations(tags)
    \/ \E a \in VerifierIdentity, b \in VerifierIndependence : ObserveVerifier(a, b)
    \/ \E r \in Requirement, s \in RequirementSet \ {"required"} : ObserveRequirement(r, s)
    \/ \E s \in EvidenceSet, ids \in SUBSET Evidence : ObserveEvidence(s, ids)
    \/ \E s \in Source, p \in PolicyNames, e \in Evaluator, m \in EvaluationMode :
          Evaluate(s, p, e, m)
    \/ \E c \in Reason, resealed \in BOOLEAN : DropReason(c, resealed)
    \/ \E resealed \in BOOLEAN : ChangeAuthority(resealed)
    \/ ChangeSchema("policy-evaluation-record.v0")
    \/ \E policies \in Registries, evaluators \in SUBSET Evaluator :
          \E other \in OtherInputs : Replay(other, policies, evaluators)
    \/ Discard

Spec == Init /\ [][Next]_vars

-----------------------------------------------------------------------------
(* Properties *)

\* Nothing about the candidate is off: stated on the facts alone.
Clean(f) ==
    /\ \A fact \in EnumFact : f.enum[fact] = Good[fact]
    /\ f.violations = {}
    /\ f.identity = "ATTESTED" /\ f.independence = "INDEPENDENT"
    /\ f.set["satisfied"] = f.set["required"]
    /\ f.set["invalid_provenance"] = {}

(* A record that replays as verified under the production policy and says  *)
(* "eligible" is about a candidate with no deviating fact, also when the   *)
(* stored record was changed and sealed again: no combination of facts     *)
(* slips between the reason tables of merge_eligibility.py.                *)
VerifiedEligibleIsClean ==
    /\ replay # NoRecord
    /\ replay.class = "SEMANTICALLY_REPLAY_VERIFIED"
    /\ stored.echo.policy = PolicyIdentity(POLICY_V1)
    /\ stored.core.disposition = "ELIGIBLE_TO_MERGE_UNDER_POLICY"
    => Clean(replay.input.facts)

(* The record the facade wrote for an input that names the production      *)
(* policy replays as verified against its own input wherever that policy   *)
(* and the evaluator are registered, and otherwise as unknown: the facade, *)
(* the record validator and the replay agree.                              *)
GenuineRecordVerifies ==
    /\ replay # NoRecord /\ edited = FALSE
    /\ replay.input = input
    /\ input.policy = PolicyIdentity(POLICY_V1)
    => \/ replay.class \in {"SEMANTICALLY_REPLAY_VERIFIED", "UNKNOWN_EVALUATOR_IDENTITY"}
       \/ ~replay.registered /\ replay.class = "UNKNOWN_POLICY_IDENTITY"

(* A record that replays as verified is bound to the input it was replayed *)
(* against and states, to the last field, the decision on that input of a  *)
(* policy with the identity it names, edited or not.  The facade decides   *)
(* under the production policy whatever identity the input names, so its   *)
(* record for another identity is verified only where both policies decide *)
(* alike.                                                                  *)
VerifiedIsTheDecision ==
    replay # NoRecord /\ replay.class = "SEMANTICALLY_REPLAY_VERIFIED" =>
        /\ InputBound(stored, replay.input)
        /\ \E p \in Policies :
              /\ PolicyIdentity(p) = stored.echo.policy
              /\ stored.core = DecisionCore(replay.input, p)
              /\ edited = FALSE =>
                    DecisionCore(replay.input, p) = DecisionCore(replay.input, POLICY_V1)

(* The reason reported first explains the disposition: it blocks exactly   *)
(* when the decision is BLOCK.  Ranks and default dispositions are two     *)
(* columns of one table that nothing ties together.                        *)
PrimaryExplains ==
    stored # NoRecord /\ edited = FALSE =>
        LET c == stored.core IN
            /\ (c.primary \in c.blocking) <=> (c.disposition = "BLOCK")
            /\ (c.primary \in c.review) <=> (c.disposition = "REVIEW_REQUIRED")

Severity(d) == CASE d = "BLOCK" -> 2 [] d = "REVIEW_REQUIRED" -> 1 [] OTHER -> 0

SeverityOf(f) ==
    Severity(DecisionCore([mode |-> "SHADOW", facts |-> f], POLICY_V1).disposition)

\* g is f with some facts put right and none made worse.
Repairs(f, g) ==
    /\ \A fact \in EnumFact : g.enum[fact] \in {f.enum[fact], Good[fact]}
    /\ g.violations \subseteq f.violations
    /\ g.identity \in {f.identity, "ATTESTED"}
    /\ g.independence \in {f.independence, "INDEPENDENT"}
    /\ \A s \in {"invalid", "missing", "invalid_provenance"} : g.set[s] \subseteq f.set[s]

(* Putting facts right never makes the decision worse: the first-match     *)
(* verifier rule and the reason tables are monotone.                       *)
RepairNeverHurts ==
    [][Repairs(facts, facts') => SeverityOf(facts') <= SeverityOf(facts)]_vars
=============================================================================
