------------------------ MODULE MergeEligibility_proof ----------------------
(***************************************************************************)
(* Proofs about the merge-eligibility policy: for all sets of requirements *)
(* and evidence, any number of deviating facts, any other policies and any *)
(* registries, the tables of the production policy leave no deviating fact *)
(* without a reason, rank what blocks before what asks for review, and are *)
(* monotone; and a record that replays as verified says what they say.     *)
(*                                                                         *)
(* The inductive invariant adds to the properties that the facts and the   *)
(* input passed the constructor of EligibilityFacts, and that an unedited  *)
(* record is the one the facade writes for its input.                      *)
(***************************************************************************)
EXTENDS MergeEligibility, WellFoundedInduction, TLAPS

V1 == POLICY_V1

Rank(c) == REASON_RANK[c]

-----------------------------------------------------------------------------
(* The tables of the production policy                                     *)

LEMMA V1Fields ==
    /\ V1.rank = REASON_RANK
    /\ V1.default = REASON_DISPOSITION
    /\ V1.enum_fact_reasons = ENUM_FACT_REASONS
    /\ V1.violation_tag_reasons = VIOLATION_TAG_REASONS
    /\ V1.set_fact_triggers = SET_FACT_TRIGGERS
    /\ V1.verifier_rule = VERIFIER_RULE
  BY DEF V1, POLICY_V1

(* Every code blocks or asks for review, and those that ask for review     *)
(* rank behind all that block.                                             *)
LEMMA Dispositions ==
    ASSUME NEW c \in Reason
    PROVE /\ V1.default[c] \in {"BLOCK", "REVIEW_REQUIRED"}
          /\ V1.default[c] = "REVIEW_REQUIRED" <=> c \in {"SCOPE_UNCERTAIN", "VERIFIER_INDEPENDENCE_UNKNOWN"}
          /\ Rank(c) \in Nat
          /\ V1.default[c] = "BLOCK" <=> Rank(c) < 180
          /\ c # NoReason
  <1>1. V1.default[c] = IF c \in {"SCOPE_UNCERTAIN", "VERIFIER_INDEPENDENCE_UNKNOWN"}
                        THEN "REVIEW_REQUIRED" ELSE "BLOCK"
    BY V1Fields DEF REASON_DISPOSITION
  <1>2. /\ Rank(c) \in Nat
        /\ Rank(c) < 180 <=> c \notin {"SCOPE_UNCERTAIN", "VERIFIER_INDEPENDENCE_UNKNOWN"}
    BY DEF Rank, REASON_RANK, Reason
  <1>3. c # NoReason
    BY DEF Reason, NoReason
  <1> QED BY <1>1, <1>2, <1>3

LEMMA EnumReasons ==
    ASSUME NEW fact \in EnumFact, NEW v \in Values(fact)
    PROVE LET r == V1.enum_fact_reasons[fact][v] IN
            /\ r \in Reason \cup {NoReason}
            /\ r = NoReason <=> \/ v = Good[fact]
                                \/ fact = "evidence_context_status" /\ v = "INCOHERENT"
  <1>1. V1.enum_fact_reasons[fact][v] = ReasonOf(fact, v)
    BY V1Fields DEF ENUM_FACT_REASONS
  <1>2. CASE v = Good[fact] \/ (fact = "evidence_context_status" /\ v = "INCOHERENT")
    BY <1>1, <1>2 DEF ReasonOf
  <1>3. CASE ~(v = Good[fact] \/ (fact = "evidence_context_status" /\ v = "INCOHERENT"))
    <2>1. ReasonOf(fact, v) \in Reason
      <3>1. CASE fact = "approval_status"
        BY <1>3, <3>1 DEF ReasonOf, Reason
      <3>2. CASE fact # "approval_status" /\ v \in {"UNKNOWN", "NOT_EVALUATED"}
        BY <1>3, <3>2 DEF ReasonOf, Reason
      <3>3. CASE fact # "approval_status" /\ v \notin {"UNKNOWN", "NOT_EVALUATED"}
        BY <1>3, <3>3 DEF ReasonOf, Reason
      <3> QED BY <3>1, <3>2, <3>3
    <2> QED BY <1>1, <1>3, <2>1 DEF Reason, NoReason
  <1> QED BY <1>2, <1>3

LEMMA ViolationReasons ==
    ASSUME NEW tag \in Violation
    PROVE V1.violation_tag_reasons[tag] \in Reason
  BY V1Fields DEF VIOLATION_TAG_REASONS, Violation, Reason

LEMMA SetReasons ==
    ASSUME NEW s \in SetFact
    PROVE /\ V1.set_fact_triggers[s] \in Reason \cup {NoReason}
          /\ V1.set_fact_triggers[s] # NoReason <=> s \in {"missing", "invalid", "invalid_provenance"}
  <1>1. V1.set_fact_triggers[s] =
          CASE s = "missing" -> "REQUIRED_EVIDENCE_MISSING"
            [] s = "invalid" -> "REQUIRED_EVIDENCE_INVALID"
            [] s = "invalid_provenance" -> "EVIDENCE_PROVENANCE_INVALID"
            [] OTHER -> NoReason
    BY V1Fields DEF SET_FACT_TRIGGERS
  <1> QED BY <1>1 DEF Reason, NoReason

(* The first row that matches decides.                                     *)
LEMMA FirstMatch ==
    ASSUME NEW a, NEW b, NEW k \in 1..6,
           matches(VERIFIER_RULE[k], a, b),
           \A j \in 1..6 : j < k => ~matches(VERIFIER_RULE[j], a, b)
    PROVE resolve_verifier_reason(V1, a, b) = VERIFIER_RULE[k].reason
  <1>1. DOMAIN VERIFIER_RULE = 1..6
    BY DEF VERIFIER_RULE
  <1> DEFINE First(i) == /\ matches(VERIFIER_RULE[i], a, b)
                         /\ \A j \in DOMAIN VERIFIER_RULE :
                               j < i => ~matches(VERIFIER_RULE[j], a, b)
  <1>2. First(k)
    BY <1>1
  <1>3. \A i \in 1..6 : First(i) => i = k
    BY <1>1
  <1>4. (CHOOSE i \in DOMAIN VERIFIER_RULE : First(i)) = k
    <2> HIDE DEF First
    <2> QED BY <1>1, <1>2, <1>3
  <1>5. resolve_verifier_reason(V1, a, b)
          = VERIFIER_RULE[CHOOSE i \in DOMAIN VERIFIER_RULE : First(i)].reason
    BY V1Fields, Zenon DEF resolve_verifier_reason
  <1> QED BY <1>4, <1>5

LEMMA VerifierReason ==
    ASSUME NEW a \in VerifierIdentity, NEW b \in VerifierIndependence
    PROVE resolve_verifier_reason(V1, a, b) =
            IF a = "INVALID" THEN "AUTHORITY_INVALID"
            ELSE IF a = "ABSENT" THEN "REQUIRED_CONTEXT_INCOMPLETE"
            ELSE IF b = "NOT_INDEPENDENT" THEN "VERIFIER_NOT_INDEPENDENT"
            ELSE IF a = "ATTESTED" /\ b = "INDEPENDENT" THEN NoReason
            ELSE "VERIFIER_INDEPENDENCE_UNKNOWN"
  <1> DEFINE M(k) == matches(VERIFIER_RULE[k], a, b)
  <1>1. /\ M(1) <=> a = "INVALID"
        /\ M(2) <=> a = "ABSENT"
        /\ M(3) <=> a \in {"ATTESTED", "PRESENT_UNATTESTED"} /\ b = "NOT_INDEPENDENT"
        /\ M(4) <=> a = "ATTESTED" /\ b = "INDEPENDENT"
        /\ M(5) <=> a = "ATTESTED" /\ b = "UNKNOWN"
        /\ M(6) <=> a = "PRESENT_UNATTESTED" /\ b \in {"INDEPENDENT", "UNKNOWN"}
    BY DEF matches, VERIFIER_RULE
  <1>2. /\ VERIFIER_RULE[1].reason = "AUTHORITY_INVALID"
        /\ VERIFIER_RULE[2].reason = "REQUIRED_CONTEXT_INCOMPLETE"
        /\ VERIFIER_RULE[3].reason = "VERIFIER_NOT_INDEPENDENT"
        /\ VERIFIER_RULE[4].reason = NoReason
        /\ VERIFIER_RULE[5].reason = "VERIFIER_INDEPENDENCE_UNKNOWN"
        /\ VERIFIER_RULE[6].reason = "VERIFIER_INDEPENDENCE_UNKNOWN"
    BY DEF VERIFIER_RULE
  <1>3. \A j \in 1..6 : j = 1 \/ j = 2 \/ j = 3 \/ j = 4 \/ j = 5 \/ j = 6
    OBVIOUS
  <1>4. \A k \in 1..6 : M(k) /\ (\A j \in 1..6 : j < k => ~M(j)) =>
            resolve_verifier_reason(V1, a, b) = VERIFIER_RULE[k].reason
    BY FirstMatch
  <1> HIDE DEF M
  <1>5. \E k \in 1..6 :
          /\ M(k) /\ \A j \in 1..6 : j < k => ~M(j)
          /\ VERIFIER_RULE[k].reason =
                IF a = "INVALID" THEN "AUTHORITY_INVALID"
                ELSE IF a = "ABSENT" THEN "REQUIRED_CONTEXT_INCOMPLETE"
                ELSE IF b = "NOT_INDEPENDENT" THEN "VERIFIER_NOT_INDEPENDENT"
                ELSE IF a = "ATTESTED" /\ b = "INDEPENDENT" THEN NoReason
                ELSE "VERIFIER_INDEPENDENCE_UNKNOWN"
    <2>1. CASE a = "INVALID"
      <3> WITNESS 1 \in 1..6
      <3> QED BY <2>1, <1>1, <1>2
    <2>2. CASE a = "ABSENT"
      <3> WITNESS 2 \in 1..6
      <3> QED BY <2>2, <1>1, <1>2, <1>3
    <2>3. CASE a \in {"ATTESTED", "PRESENT_UNATTESTED"} /\ b = "NOT_INDEPENDENT"
      <3> WITNESS 3 \in 1..6
      <3> QED BY <2>3, <1>1, <1>2, <1>3
    <2>4. CASE a = "ATTESTED" /\ b = "INDEPENDENT"
      <3> WITNESS 4 \in 1..6
      <3> QED BY <2>4, <1>1, <1>2, <1>3
    <2>5. CASE a = "ATTESTED" /\ b = "UNKNOWN"
      <3> WITNESS 5 \in 1..6
      <3> QED BY <2>5, <1>1, <1>2, <1>3
    <2>6. CASE a = "PRESENT_UNATTESTED" /\ b \in {"INDEPENDENT", "UNKNOWN"}
      <3> WITNESS 6 \in 1..6
      <3> QED BY <2>6, <1>1, <1>2, <1>3
    <2> QED BY <2>1, <2>2, <2>3, <2>4, <2>5, <2>6 DEF VerifierIdentity, VerifierIndependence
  <1> QED BY <1>4, <1>5

-----------------------------------------------------------------------------
(* The reasons of a candidate                                              *)

LEMMA Members ==
    ASSUME NEW f, NEW p, NEW c
    PROVE c \in ReasonsFor(f, p) <=>
            /\ c # NoReason
            /\ \/ \E fact \in EnumFact : c = p.enum_fact_reasons[fact][f.enum[fact]]
               \/ \E tag \in f.violations : c = p.violation_tag_reasons[tag]
               \/ \E s \in SetFact : f.set[s] # {} /\ c = p.set_fact_triggers[s]
               \/ c = resolve_verifier_reason(p, f.identity, f.independence)
  BY Zenon DEF ReasonsFor

LEMMA ReasonsKnown ==
    ASSUME NEW f, EligibilityFacts(f)
    PROVE ReasonsFor(f, V1) \subseteq Reason
  <1> SUFFICES ASSUME NEW c \in ReasonsFor(f, V1) PROVE c \in Reason
    OBVIOUS
  <1>1. ASSUME NEW fact \in EnumFact, c = V1.enum_fact_reasons[fact][f.enum[fact]]
        PROVE c \in Reason \cup {NoReason}
    BY <1>1, EnumReasons DEF EligibilityFacts
  <1>2. ASSUME NEW tag \in f.violations, c = V1.violation_tag_reasons[tag]
        PROVE c \in Reason
    BY <1>2, ViolationReasons DEF EligibilityFacts
  <1>3. ASSUME NEW s \in SetFact, c = V1.set_fact_triggers[s]
        PROVE c \in Reason \cup {NoReason}
    BY <1>3, SetReasons
  <1>4. resolve_verifier_reason(V1, f.identity, f.independence) \in Reason \cup {NoReason}
    BY VerifierReason DEF EligibilityFacts, Reason
  <1> QED BY <1>1, <1>2, <1>3, <1>4, Members

(* No deviating fact goes without a reason.                                *)
LEMMA NoReasonIsClean ==
    ASSUME NEW f, EligibilityFacts(f), ReasonsFor(f, V1) = {}
    PROVE Clean(f)
  <1>1. f.violations = {}
    <2> SUFFICES ASSUME NEW tag \in f.violations PROVE FALSE
      OBVIOUS
    <2>1. tag \in Violation /\ V1.violation_tag_reasons[tag] \in Reason
      BY ViolationReasons DEF EligibilityFacts
    <2>2. V1.violation_tag_reasons[tag] # NoReason
      BY <2>1, Dispositions
    <2> QED BY <2>2, Members
  <1>2. ASSUME NEW fact \in EnumFact PROVE f.enum[fact] = Good[fact]
    <2>1. f.enum[fact] \in Values(fact)
      BY DEF EligibilityFacts
    <2>2. V1.enum_fact_reasons[fact][f.enum[fact]] = NoReason
      BY Members
    <2>3. ~(fact = "evidence_context_status" /\ f.enum[fact] = "INCOHERENT")
      BY <1>1 DEF EligibilityFacts
    <2> QED BY <2>1, <2>2, <2>3, EnumReasons
  <1>3. \A s \in {"missing", "invalid", "invalid_provenance"} : f.set[s] = {}
    <2> SUFFICES ASSUME NEW s \in {"missing", "invalid", "invalid_provenance"}, f.set[s] # {}
                 PROVE FALSE
      OBVIOUS
    <2>1. s \in SetFact
      BY DEF SetFact, RequirementSet, EvidenceSet
    <2> QED BY <2>1, SetReasons, Members, ZenonT(60)
  <1>4. f.set["satisfied"] = f.set["required"]
    BY <1>3 DEF EligibilityFacts
  <1>5. resolve_verifier_reason(V1, f.identity, f.independence) = NoReason
    BY Members
  <1>6. f.identity = "ATTESTED" /\ f.independence = "INDEPENDENT"
    BY <1>5, VerifierReason DEF EligibilityFacts, NoReason, VerifierIdentity, VerifierIndependence
  <1> QED BY <1>1, <1>2, <1>3, <1>4, <1>6 DEF Clean

-----------------------------------------------------------------------------
(* The decision under the production policy                                *)

LEMMA CoreFields ==
    ASSUME NEW x, NEW p
    PROVE LET reasons == ReasonsFor(x.facts, p)
              blocking == WithDisposition(reasons, p, "BLOCK")
              review == WithDisposition(reasons, p, "REVIEW_REQUIRED")
              core == DecisionCore(x, p)
          IN /\ core.disposition = DerivedDisposition(blocking, review)
             /\ core.primary = IF reasons = {} THEN NoReason
                    ELSE CHOOSE c \in reasons : \A d \in reasons : p.rank[c] <= p.rank[d]
             /\ core.complete = reasons /\ core.blocking = blocking /\ core.review = review
             /\ core.set = x.facts.set
  BY DEF DecisionCore

LEMMA Split ==
    ASSUME NEW R \in SUBSET Reason
    PROVE LET blocking == WithDisposition(R, V1, "BLOCK")
              review == WithDisposition(R, V1, "REVIEW_REQUIRED")
          IN /\ blocking \cap review = {}
             /\ blocking \cup review = R
             /\ WithDisposition(R, V1, "ELIGIBLE_TO_MERGE_UNDER_POLICY") = {}
  BY Dispositions DEF WithDisposition

(* A set of reasons has one of least rank.                                 *)
LEMMA LeastReason ==
    ASSUME NEW R \in SUBSET Reason, R # {}
    PROVE \E c \in R : \A d \in R : V1.rank[c] <= V1.rank[d]
  <1> DEFINE T == {Rank(c) : c \in R}
  <1>1. T \subseteq Nat /\ T # {}
    BY Dispositions
  <1>2. \E n \in T : \A m \in T : ~(<<m, n>> \in OpToRel(<, Nat))
    <2> HIDE DEF T
    <2> QED BY <1>1, WFMin, NatLessThanWellFounded
  <1>3. PICK n \in T : \A m \in T : ~(m < n)
    BY <1>1, <1>2 DEF OpToRel
  <1>4. PICK c \in R : n = Rank(c)
    BY <1>3
  <1>5. \A d \in R : Rank(c) <= Rank(d)
    BY <1>3, <1>4, Dispositions
  <1> QED BY <1>4, <1>5, V1Fields DEF Rank

LEMMA CoreNormal ==
    ASSUME NEW x, EligibilityFacts(x.facts)
    PROVE LET c == DecisionCore(x, V1) IN
            /\ NormalCore(c)
            /\ (c.primary \in c.blocking) <=> (c.disposition = "BLOCK")
            /\ (c.primary \in c.review) <=> (c.disposition = "REVIEW_REQUIRED")
            /\ c.disposition = "ELIGIBLE_TO_MERGE_UNDER_POLICY" <=> c.complete = {}
  <1> DEFINE R == ReasonsFor(x.facts, V1)
             B == WithDisposition(R, V1, "BLOCK")
             W == WithDisposition(R, V1, "REVIEW_REQUIRED")
             c == DecisionCore(x, V1)
  <1>1. R \in SUBSET Reason
    BY ReasonsKnown
  <1>2. B \cap W = {} /\ B \cup W = R
    BY <1>1, Split
  <1>3. /\ c.disposition = DerivedDisposition(B, W)
        /\ c.primary = IF R = {} THEN NoReason
                       ELSE CHOOSE d \in R : \A e \in R : V1.rank[d] <= V1.rank[e]
        /\ c.complete = R /\ c.blocking = B /\ c.review = W
        /\ c.set = x.facts.set
    BY CoreFields
  <1>4. R # {} => c.primary \in R /\ \A e \in R : V1.rank[c.primary] <= V1.rank[e]
    <2> HIDE DEF R, c, B, W
    <2> QED BY <1>1, <1>3, LeastReason
  <1>5. NoReason \notin Reason
    BY Dispositions
  <1>6. B # {} /\ R # {} => c.primary \in B
    <2> SUFFICES ASSUME NEW b \in B, R # {} PROVE c.primary \in B
      OBVIOUS
    <2>1. b \in R /\ b \in Reason /\ V1.default[b] = "BLOCK"
      BY <1>1 DEF WithDisposition
    <2>2. c.primary \in R /\ c.primary \in Reason /\ Rank(c.primary) <= Rank(b)
      BY <1>1, <1>4, <2>1, V1Fields DEF Rank
    <2>3. V1.default[c.primary] = "BLOCK"
      BY <2>1, <2>2, Dispositions
    <2> QED BY <2>2, <2>3 DEF WithDisposition
  <1>7. NormalCore(c)
    <2>1. IF R = {} THEN c.primary = NoReason ELSE c.primary \in R
      BY <1>3, <1>4
    <2>2. /\ c.set["satisfied"] \cap c.set["invalid"] = {}
          /\ c.set["satisfied"] \cap c.set["missing"] = {}
          /\ c.set["invalid"] \cap c.set["missing"] = {}
          /\ c.set["satisfied"] \cup c.set["invalid"] \cup c.set["missing"] = c.set["required"]
      BY <1>3 DEF EligibilityFacts
    <2> HIDE DEF R, c, B, W
    <2> QED BY <1>1, <1>2, <1>3, <2>1, <2>2 DEF NormalCore
  <1> HIDE DEF R, c, B, W
  <1>8. /\ (c.primary \in c.blocking) <=> (c.disposition = "BLOCK")
        /\ (c.primary \in c.review) <=> (c.disposition = "REVIEW_REQUIRED")
        /\ c.disposition = "ELIGIBLE_TO_MERGE_UNDER_POLICY" <=> c.complete = {}
    BY <1>1, <1>2, <1>3, <1>4, <1>5, <1>6 DEF DerivedDisposition
  <1> QED BY <1>7, <1>8 DEF c

-----------------------------------------------------------------------------
(* The record and its replay                                               *)

LEMMA RecordFields ==
    ASSUME NEW x, NEW core
    PROVE LET r == RecordOf(x, core) IN
            /\ r.schema = SCHEMA /\ r.echo = Echo(x) /\ r.input_digest = input_digest(x)
            /\ r.core = core
            /\ r.decision_digest = decision_digest_for(r)
            /\ r.record_digest = record_digest_for(r)
  <1> DEFINE q == [schema |-> SCHEMA, echo |-> Echo(x), input_digest |-> input_digest(x),
                   core |-> core, decision_digest |-> NoRecord, record_digest |-> NoRecord]
             s == [q EXCEPT !.decision_digest = decision_digest_for(q)]
             r == RecordOf(x, core)
  <1>1. r = [s EXCEPT !.record_digest = record_digest_for(s)]
    BY DEF RecordOf, SealRecord
  <1>2. /\ s.schema = SCHEMA /\ s.echo = Echo(x) /\ s.input_digest = input_digest(x)
        /\ s.core = core /\ s.decision_digest = decision_digest_for(q)
        /\ DOMAIN s = {"schema", "echo", "input_digest", "core", "decision_digest", "record_digest"}
    OBVIOUS
  <1>3. /\ q.echo = Echo(x) /\ q.input_digest = input_digest(x) /\ q.core = core
    OBVIOUS
  <1> HIDE DEF q, s, r
  <1>4. /\ r.schema = SCHEMA /\ r.echo = Echo(x) /\ r.input_digest = input_digest(x)
        /\ r.core = core /\ r.decision_digest = decision_digest_for(q)
        /\ r.record_digest = record_digest_for(s)
    BY <1>1, <1>2
  <1>5. Identity(q) = Identity(r) /\ Identity(s) = Identity(r)
    BY <1>2, <1>3, <1>4 DEF Identity
  <1>6. decision_digest_for(q) = decision_digest_for(r)
    BY <1>5 DEF decision_digest_for
  <1>7. record_digest_for(s) = record_digest_for(r)
    BY <1>2, <1>4, <1>5 DEF record_digest_for
  <1> QED BY <1>4, <1>6, <1>7 DEF r

(* A registry that knows the identity of the production policy knows no    *)
(* other policy under it.                                                  *)
LEMMA ResolvesToV1 ==
    ASSUME NEW policies \in Registries, resolve(policies, PolicyIdentity(V1)) # {}
    PROVE (CHOOSE p \in resolve(policies, PolicyIdentity(V1)) : TRUE) = V1
  <1>1. \A p \in resolve(policies, PolicyIdentity(V1)) : p = V1
    BY IdentityAssumption DEF resolve, Registries, Policies, V1
  <1> QED BY <1>1

LEMMA VerifiedIsClean ==
    ASSUME NEW x, NEW r, NEW policies \in Registries, NEW evaluators,
           EligibilityFacts(x.facts),
           verify_semantic_replay(x, r, policies, evaluators) = "SEMANTICALLY_REPLAY_VERIFIED",
           r.echo.policy = PolicyIdentity(V1),
           r.core.disposition = "ELIGIBLE_TO_MERGE_UNDER_POLICY"
    PROVE Clean(x.facts)
  <1> DEFINE named == resolve(policies, r.echo.policy)
             policy == CHOOSE p \in named : TRUE
             again == RecordOf(x, DecisionCore(x, policy))
  <1>1. named # {} /\ mismatch_codes(again, r) = {}
    BY DEF verify_semantic_replay
  <1>2. policy = V1
    BY <1>1, ResolvesToV1
  <1>3. again.core = DecisionCore(x, V1)
    BY <1>2, RecordFields
  <1>4. again.core["disposition"] = r.core["disposition"]
    <2> HIDE DEF again
    <2> QED BY <1>1 DEF mismatch_codes
  <1>5. DecisionCore(x, V1).complete = {}
    BY <1>3, <1>4, CoreNormal
  <1>6. ReasonsFor(x.facts, V1) = {}
    BY <1>5, CoreFields
  <1> QED BY <1>6, NoReasonIsClean

LEMMA GenuineReplays ==
    ASSUME NEW x, NEW policies \in Registries, NEW evaluators, NEW r,
           EligibilityFacts(x.facts), x.policy = PolicyIdentity(V1),
           r = RecordOf(x, DecisionCore(x, V1))
    PROVE LET class == verify_semantic_replay(x, r, policies, evaluators) IN
            \/ class \in {"SEMANTICALLY_REPLAY_VERIFIED", "UNKNOWN_EVALUATOR_IDENTITY"}
            \/ resolve(policies, r.echo.policy) = {} /\ class = "UNKNOWN_POLICY_IDENTITY"
  <1> DEFINE named == resolve(policies, r.echo.policy)
             policy == CHOOSE p \in named : TRUE
             class == verify_semantic_replay(x, r, policies, evaluators)
  <1>1. /\ r.schema = SCHEMA /\ r.echo = Echo(x) /\ r.input_digest = input_digest(x)
        /\ r.core = DecisionCore(x, V1)
        /\ r.decision_digest = decision_digest_for(r)
        /\ r.record_digest = record_digest_for(r)
    BY RecordFields
  <1>2. StructurallyValid(r)
    BY <1>1, CoreNormal DEF StructurallyValid
  <1>3. InputBound(r, x) /\ r.echo.policy = PolicyIdentity(V1)
    BY <1>1 DEF InputBound, Echo
  <1>4. CASE named = {}
    <2>1. class = "UNKNOWN_POLICY_IDENTITY"
      BY <1>2, <1>3, <1>4 DEF verify_semantic_replay
    <2> QED BY <1>4, <2>1
  <1>5. CASE named # {}
    <2>1. policy = V1
      BY <1>3, <1>5, ResolvesToV1
    <2>2. ~EvaluatorRaises(x.facts, V1)
      BY ReasonsKnown, Split DEF EvaluatorRaises
    <2>3. mismatch_codes(r, r) = {}
      BY DEF mismatch_codes
    <2>4. class = IF r.echo.evaluator \notin evaluators THEN "UNKNOWN_EVALUATOR_IDENTITY"
                  ELSE IF EvaluatorRaises(x.facts, policy) THEN "RAISES"
                  ELSE IF mismatch_codes(RecordOf(x, DecisionCore(x, policy)), r) = {}
                       THEN "SEMANTICALLY_REPLAY_VERIFIED"
                       ELSE "SEMANTIC_REPLAY_MISMATCH"
      BY <1>2, <1>3, <1>5, Zenon DEF verify_semantic_replay
    <2> QED BY <2>1, <2>2, <2>3, <2>4
  <1> QED BY <1>4, <1>5

-----------------------------------------------------------------------------
(* Repairs                                                                 *)

(* A reason that remains after a repair was there before, or it is the     *)
(* verifier's, which can only have become milder.                          *)
LEMMA RepairedReasons ==
    ASSUME NEW f, NEW g, EligibilityFacts(f), EligibilityFacts(g), Repairs(f, g),
           NEW c \in ReasonsFor(g, V1)
    PROVE \/ c \in ReasonsFor(f, V1)
          \/ /\ c = "VERIFIER_INDEPENDENCE_UNKNOWN"
             /\ ReasonsFor(f, V1) # {}
          \/ /\ c = "VERIFIER_NOT_INDEPENDENT"
             /\ \E d \in ReasonsFor(f, V1) : V1.default[d] = "BLOCK"
  <1>1. c # NoReason
    BY Members
  <1>2. ASSUME NEW fact \in EnumFact, c = V1.enum_fact_reasons[fact][g.enum[fact]]
        PROVE c \in ReasonsFor(f, V1)
    <2>1. g.enum[fact] \in Values(fact)
      BY DEF EligibilityFacts
    <2>2. g.enum[fact] # Good[fact]
      BY <1>1, <1>2, <2>1, EnumReasons
    <2>3. g.enum[fact] = f.enum[fact]
      BY <2>2 DEF Repairs
    <2> QED BY <1>1, <1>2, <2>3, Members
  <1>3. ASSUME NEW tag \in g.violations, c = V1.violation_tag_reasons[tag]
        PROVE c \in ReasonsFor(f, V1)
    <2>1. tag \in f.violations
      BY DEF Repairs
    <2> QED BY <1>1, <1>3, <2>1, Members
  <1>4. ASSUME NEW s \in SetFact, g.set[s] # {}, c = V1.set_fact_triggers[s]
        PROVE c \in ReasonsFor(f, V1)
    <2>1. s \in {"missing", "invalid", "invalid_provenance"}
      BY <1>1, <1>4, SetReasons
    <2>2. f.set[s] # {}
      BY <1>4, <2>1 DEF Repairs
    <2> QED BY <1>1, <1>4, <2>2, Members
  <1>5. ASSUME c = resolve_verifier_reason(V1, g.identity, g.independence)
        PROVE \/ c \in ReasonsFor(f, V1)
              \/ /\ c = "VERIFIER_INDEPENDENCE_UNKNOWN"
                 /\ ReasonsFor(f, V1) # {}
              \/ /\ c = "VERIFIER_NOT_INDEPENDENT"
                 /\ \E d \in ReasonsFor(f, V1) : V1.default[d] = "BLOCK"
    <2> DEFINE was == resolve_verifier_reason(V1, f.identity, f.independence)
    <2>1. was = IF f.identity = "INVALID" THEN "AUTHORITY_INVALID"
                ELSE IF f.identity = "ABSENT" THEN "REQUIRED_CONTEXT_INCOMPLETE"
                ELSE IF f.independence = "NOT_INDEPENDENT" THEN "VERIFIER_NOT_INDEPENDENT"
                ELSE IF f.identity = "ATTESTED" /\ f.independence = "INDEPENDENT" THEN NoReason
                ELSE "VERIFIER_INDEPENDENCE_UNKNOWN"
      BY VerifierReason DEF EligibilityFacts
    <2>2. c = IF g.identity = "INVALID" THEN "AUTHORITY_INVALID"
              ELSE IF g.identity = "ABSENT" THEN "REQUIRED_CONTEXT_INCOMPLETE"
              ELSE IF g.independence = "NOT_INDEPENDENT" THEN "VERIFIER_NOT_INDEPENDENT"
              ELSE IF g.identity = "ATTESTED" /\ g.independence = "INDEPENDENT" THEN NoReason
              ELSE "VERIFIER_INDEPENDENCE_UNKNOWN"
      BY <1>5, VerifierReason DEF EligibilityFacts
    <2>3. /\ g.identity \in {f.identity, "ATTESTED"}
          /\ g.independence \in {f.independence, "INDEPENDENT"}
      BY DEF Repairs
    <2>4. was # NoReason => was \in ReasonsFor(f, V1)
      BY Members
    <2> HIDE DEF was
    <2>5. \/ c = was
          \/ c = "VERIFIER_INDEPENDENCE_UNKNOWN" /\ was # NoReason
          \/ /\ c = "VERIFIER_NOT_INDEPENDENT"
             /\ was \in {"AUTHORITY_INVALID", "REQUIRED_CONTEXT_INCOMPLETE"}
      BY <1>1, <2>1, <2>2, <2>3 DEF NoReason
    <2>6. was \in {"AUTHORITY_INVALID", "REQUIRED_CONTEXT_INCOMPLETE"} =>
            V1.default[was] = "BLOCK" /\ was # NoReason
      BY Dispositions DEF Reason
    <2> QED BY <1>1, <2>4, <2>5, <2>6
  <1> QED BY <1>2, <1>3, <1>4, <1>5, Members

LEMMA SeverityIs ==
    ASSUME NEW f, EligibilityFacts(f)
    PROVE LET R == ReasonsFor(f, V1) IN
          SeverityOf(f) = IF \E c \in R : V1.default[c] = "BLOCK" THEN 2
                          ELSE IF R # {} THEN 1 ELSE 0
  <1> DEFINE x == [mode |-> "SHADOW", facts |-> f]
             R == ReasonsFor(f, V1)
             B == WithDisposition(R, V1, "BLOCK")
             W == WithDisposition(R, V1, "REVIEW_REQUIRED")
  <1>1. x.facts = f
    OBVIOUS
  <1>2. DecisionCore(x, V1).disposition = DerivedDisposition(B, W)
    BY <1>1, CoreFields
  <1>3. B \cup W = R
    BY ReasonsKnown, Split
  <1>4. B # {} <=> \E c \in R : V1.default[c] = "BLOCK"
    BY DEF WithDisposition
  <1>5. SeverityOf(f) = Severity(DerivedDisposition(B, W))
    BY <1>2 DEF SeverityOf, V1
  <1> HIDE DEF R, B, W
  <1>6. Severity(DerivedDisposition(B, W)) = IF B # {} THEN 2 ELSE IF R # {} THEN 1 ELSE 0
    BY <1>3 DEF Severity, DerivedDisposition
  <1> QED BY <1>4, <1>5, <1>6 DEF R

LEMMA RepairIsMonotone ==
    ASSUME NEW f, NEW g, EligibilityFacts(f), EligibilityFacts(g), Repairs(f, g)
    PROVE SeverityOf(g) <= SeverityOf(f)
  <1>1. (\E c \in ReasonsFor(g, V1) : V1.default[c] = "BLOCK")
          => \E c \in ReasonsFor(f, V1) : V1.default[c] = "BLOCK"
    <2> SUFFICES ASSUME NEW c \in ReasonsFor(g, V1), V1.default[c] = "BLOCK"
                 PROVE \E d \in ReasonsFor(f, V1) : V1.default[d] = "BLOCK"
      OBVIOUS
    <2>1. c # "VERIFIER_INDEPENDENCE_UNKNOWN"
      BY ReasonsKnown, Dispositions
    <2> QED BY <2>1, RepairedReasons
  <1>2. ReasonsFor(g, V1) # {} => ReasonsFor(f, V1) # {}
    BY RepairedReasons
  <1> QED BY <1>1, <1>2, SeverityIs

-----------------------------------------------------------------------------
(* The invariant is inductive                                              *)

InputShape(x) ==
    /\ DOMAIN x = {"source", "policy", "evaluator", "mode", "facts"}
    /\ x = [field \in DOMAIN x |-> x[field]]

Sound ==
    /\ EligibilityFacts(facts)
    /\ edited \in BOOLEAN
    /\ stored # NoRecord => InputShape(input) /\ EligibilityFacts(input.facts)
    /\ stored # NoRecord /\ edited = FALSE => stored = RecordOf(input, DecisionCore(input, V1))

IInv == Sound /\ VerifiedEligibleIsClean /\ GenuineRecordVerifies

LEMMA CleanIsEligible == EligibilityFacts(CleanFacts)
  <1>1. \A fact \in EnumFact : Good[fact] \in Values(fact)
    BY DEF EnumFact, Good, Values
  <1>2. /\ CleanFacts.enum = Good /\ CleanFacts.violations = {}
        /\ CleanFacts.identity \in VerifierIdentity
        /\ CleanFacts.independence \in VerifierIndependence
    BY DEF CleanFacts, VerifierIdentity, VerifierIndependence
  <1>3. Good["evidence_context_status"] # "INCOHERENT"
    BY DEF Good
  <1>4. /\ CleanFacts.set["required"] = Requirement /\ CleanFacts.set["satisfied"] = Requirement
        /\ CleanFacts.set["invalid"] = {} /\ CleanFacts.set["missing"] = {}
    BY DEF CleanFacts, SetFact, RequirementSet, EvidenceSet
  <1> QED BY <1>1, <1>2, <1>3, <1>4 DEF EligibilityFacts

LEMMA InitIInv == Init => IInv
  BY CleanIsEligible DEF Init, IInv, Sound, VerifiedEligibleIsClean, GenuineRecordVerifies

LEMMA EstablishIInv ==
    ASSUME IInv, NEW f, Establish(f)
    PROVE IInv'
  BY DEF IInv, Sound, Establish, VerifiedEligibleIsClean, GenuineRecordVerifies

(* A step that leaves no replay behind keeps the properties of replays.    *)
LEMMA UnreplayedIInv ==
    ASSUME Sound', replay' = NoRecord
    PROVE IInv'
  BY DEF IInv, VerifiedEligibleIsClean, GenuineRecordVerifies

LEMMA EditIInv ==
    ASSUME IInv, NEW r, Edit(r)
    PROVE IInv'
  <1>1. Sound' /\ replay' = NoRecord
    BY DEF IInv, Sound, Edit
  <1> QED BY <1>1, UnreplayedIInv

LEMMA EvaluateIInv ==
    ASSUME IInv, NEW s, NEW p, NEW e, NEW m, Evaluate(s, p, e, m)
    PROVE IInv'
  <1>1. /\ input' = [source |-> s, policy |-> p, evaluator |-> e, mode |-> m, facts |-> facts]
        /\ stored' = RecordOf(input', DecisionCore(input', V1))
        /\ edited' = FALSE /\ replay' = NoRecord /\ facts' = facts
    BY DEF Evaluate, evaluate_merge_eligibility, V1
  <1>2. InputShape(input') /\ input'.facts = facts
    BY <1>1 DEF InputShape
  <1>3. Sound'
    BY <1>1, <1>2 DEF IInv, Sound
  <1> QED BY <1>1, <1>3, UnreplayedIInv

LEMMA ReplayIInv ==
    ASSUME IInv, NEW policies \in Registries, NEW evaluators, NEW other \in OtherInputs,
           Replay(other, policies, evaluators)
    PROVE IInv'
  <1>1. /\ stored # NoRecord
        /\ replay'.input = other
        /\ replay'.registered = (resolve(policies, stored.echo.policy) # {})
        /\ replay'.class = verify_semantic_replay(other, stored, policies, evaluators)
        /\ UNCHANGED <<facts, input, stored, edited>>
    BY DEF Replay
  <1>2. InputShape(input) /\ EligibilityFacts(input.facts)
    BY <1>1 DEF IInv, Sound
  <1>3. EligibilityFacts(other.facts)
    <2>1. ASSUME NEW src, other = [input EXCEPT !.source = src] PROVE other.facts = input.facts
      BY <1>2, <2>1 DEF InputShape
    <2>2. ASSUME other = [input EXCEPT !.facts = CleanFacts] PROVE other.facts = CleanFacts
      BY <1>2, <2>2 DEF InputShape
    <2> QED BY <1>1, <1>2, <2>1, <2>2, CleanIsEligible DEF OtherInputs
  <1>4. VerifiedEligibleIsClean'
    <2> SUFFICES ASSUME replay'.class = "SEMANTICALLY_REPLAY_VERIFIED",
                        stored.echo.policy = PolicyIdentity(V1),
                        stored.core.disposition = "ELIGIBLE_TO_MERGE_UNDER_POLICY"
                 PROVE Clean(other.facts)
      BY <1>1 DEF VerifiedEligibleIsClean, V1
    <2> QED BY <1>1, <1>3, VerifiedIsClean
  <1>5. GenuineRecordVerifies'
    <2> SUFFICES ASSUME edited = FALSE, other = input, input.policy = PolicyIdentity(V1)
                 PROVE \/ replay'.class \in {"SEMANTICALLY_REPLAY_VERIFIED",
                                             "UNKNOWN_EVALUATOR_IDENTITY"}
                       \/ ~replay'.registered /\ replay'.class = "UNKNOWN_POLICY_IDENTITY"
      BY <1>1 DEF GenuineRecordVerifies, V1
    <2>1. stored = RecordOf(input, DecisionCore(input, V1))
      BY <1>1 DEF IInv, Sound
    <2> QED BY <1>1, <1>2, <2>1, GenuineReplays
  <1>6. Sound'
    BY <1>1 DEF IInv, Sound
  <1> QED BY <1>4, <1>5, <1>6 DEF IInv

LEMMA NextIInv == IInv /\ [Next]_vars => IInv'
  <1> SUFFICES ASSUME IInv, [Next]_vars PROVE IInv'
    OBVIOUS
  <1>1. ASSUME NEW fact \in EnumFact, NEW v \in Values(fact), ObserveEnum(fact, v) PROVE IInv'
    BY <1>1, EstablishIInv DEF ObserveEnum
  <1>2. ASSUME NEW tags \in SUBSET Violation, ObserveViolations(tags) PROVE IInv'
    BY <1>2, EstablishIInv DEF ObserveViolations
  <1>3. ASSUME NEW a \in VerifierIdentity, NEW b \in VerifierIndependence, ObserveVerifier(a, b)
        PROVE IInv'
    BY <1>3, EstablishIInv DEF ObserveVerifier
  <1>4. ASSUME NEW r \in Requirement, NEW s \in RequirementSet \ {"required"},
               ObserveRequirement(r, s)
        PROVE IInv'
    BY <1>4, EstablishIInv DEF ObserveRequirement
  <1>5. ASSUME NEW s \in EvidenceSet, NEW ids \in SUBSET Evidence, ObserveEvidence(s, ids)
        PROVE IInv'
    BY <1>5, EstablishIInv DEF ObserveEvidence
  <1>6. ASSUME NEW s \in Source, NEW p \in PolicyNames, NEW e \in Evaluator,
               NEW m \in EvaluationMode, Evaluate(s, p, e, m)
        PROVE IInv'
    BY <1>6, EvaluateIInv
  <1>7. ASSUME NEW c \in Reason, NEW resealed \in BOOLEAN, DropReason(c, resealed) PROVE IInv'
    BY <1>7, EditIInv DEF DropReason
  <1>8. ASSUME NEW resealed \in BOOLEAN, ChangeAuthority(resealed) PROVE IInv'
    BY <1>8, EditIInv DEF ChangeAuthority
  <1>9. ASSUME ChangeSchema("policy-evaluation-record.v0") PROVE IInv'
    BY <1>9, EditIInv DEF ChangeSchema
  <1>10. ASSUME NEW policies \in Registries, NEW evaluators \in SUBSET Evaluator,
                NEW other \in OtherInputs, Replay(other, policies, evaluators)
         PROVE IInv'
    BY <1>10, ReplayIInv
  <1>11. ASSUME Discard PROVE IInv'
    <2>1. Sound' /\ replay' = NoRecord
      BY <1>11 DEF Discard, IInv, Sound
    <2> QED BY <2>1, UnreplayedIInv
  <1>12. ASSUME UNCHANGED vars PROVE IInv'
    BY <1>12 DEF vars, IInv, Sound, VerifiedEligibleIsClean, GenuineRecordVerifies
  <1> QED BY <1>1, <1>2, <1>3, <1>4, <1>5, <1>6, <1>7, <1>8, <1>9, <1>10, <1>11, <1>12 DEF Next

-----------------------------------------------------------------------------
(* A record that replays as verified under the production policy and says  *)
(* "eligible" is about a candidate with no deviating fact, for every       *)
(* combination of facts (evaluate_decision_core, verify_semantic_replay).  *)
THEOREM EligibleIsClean == Spec => []VerifiedEligibleIsClean
  <1>1. IInv => VerifiedEligibleIsClean
    BY DEF IInv
  <1> QED BY <1>1, InitIInv, NextIInv, PTL DEF Spec

(* The facade's own record replays as verified wherever its policy and its *)
(* evaluator are registered (evaluate_merge_eligibility, finalize_decision,*)
(* verify_semantic_replay).                                                *)
THEOREM RecordVerifies == Spec => []GenuineRecordVerifies
  <1>1. IInv => GenuineRecordVerifies
    BY DEF IInv
  <1> QED BY <1>1, InitIInv, NextIInv, PTL DEF Spec

(* The reason of least rank explains the disposition                       *)
(* (evaluate_decision_core).                                               *)
THEOREM PrimaryReasonExplains == Spec => []PrimaryExplains
  <1>1. IInv => PrimaryExplains
    <2> SUFFICES ASSUME IInv, stored # NoRecord, edited = FALSE
                 PROVE LET c == stored.core IN
                         /\ (c.primary \in c.blocking) <=> (c.disposition = "BLOCK")
                         /\ (c.primary \in c.review) <=> (c.disposition = "REVIEW_REQUIRED")
      BY DEF PrimaryExplains
    <2>1. stored = RecordOf(input, DecisionCore(input, V1)) /\ EligibilityFacts(input.facts)
      BY DEF IInv, Sound
    <2>2. stored.core = DecisionCore(input, V1)
      BY <2>1, RecordFields
    <2> QED BY <2>1, <2>2, CoreNormal
  <1> QED BY <1>1, InitIInv, NextIInv, PTL DEF Spec

(* Putting facts right never makes the decision worse.                     *)
THEOREM RepairsHelp == Spec => RepairNeverHurts
  <1>1. ASSUME IInv, IInv', [Next]_vars
        PROVE [Repairs(facts, facts') => SeverityOf(facts') <= SeverityOf(facts)]_vars
    BY <1>1, RepairIsMonotone DEF IInv, Sound
  <1> QED BY <1>1, InitIInv, NextIInv, PTL DEF Spec, RepairNeverHurts

-----------------------------------------------------------------------------
(* What a verified replay says                                             *)

(* A digest is the digest of one payload.                                  *)
LEMMA DigestInjective ==
    ASSUME NEW kind, NEW a, NEW b, canonical_digest(kind, a) = canonical_digest(kind, b)
    PROVE  a = b
  <1>1. canonical_digest(kind, a).payload = a /\ canonical_digest(kind, b).payload = b
    BY DEF canonical_digest
  <1> QED BY <1>1

LEMMA VerifiedStates ==
    ASSUME NEW x, NEW r, NEW policies \in Registries, NEW evaluators,
           verify_semantic_replay(x, r, policies, evaluators) = "SEMANTICALLY_REPLAY_VERIFIED"
    PROVE  /\ InputBound(r, x)
           /\ \E p \in Policies : /\ PolicyIdentity(p) = r.echo.policy
                                  /\ r.core = DecisionCore(x, p)
  <1> DEFINE named == resolve(policies, r.echo.policy)
             policy == CHOOSE p \in named : TRUE
             again == RecordOf(x, DecisionCore(x, policy))
  <1>1. StructurallyValid(r) /\ InputBound(r, x) /\ named # {} /\ mismatch_codes(again, r) = {}
    BY Zenon DEF verify_semantic_replay
  <1>2. policy \in named
    BY <1>1
  <1>3. policy \in Policies /\ PolicyIdentity(policy) = r.echo.policy
    BY <1>2 DEF resolve, Registries
  <1>4. again.core = DecisionCore(x, policy) /\ again.decision_digest = decision_digest_for(again)
    BY RecordFields
  <1> HIDE DEF named, policy, again
  <1>5. again["decision_digest"] = r["decision_digest"]
    BY <1>1 DEF mismatch_codes
  <1>6. decision_digest_for(again) = decision_digest_for(r)
    BY <1>1, <1>4, <1>5 DEF StructurallyValid
  <1>7. Identity(again) = Identity(r)
    BY <1>6, DigestInjective DEF decision_digest_for
  <1>8. Identity(again).core = again.core /\ Identity(r).core = r.core
    BY DEF Identity
  <1> QED BY <1>1, <1>3, <1>4, <1>7, <1>8

LEMMA BoundToOneInput ==
    ASSUME NEW r, NEW x, NEW y, InputBound(r, x), InputBound(r, y)
    PROVE  x = y
  <1>1. canonical_digest("input", x) = canonical_digest("input", y)
    BY DEF InputBound, input_digest
  <1> QED BY <1>1, DigestInjective

LEMMA ReplayStates ==
    ASSUME Sound, NEW policies \in Registries, NEW evaluators, NEW other,
           Replay(other, policies, evaluators)
    PROVE  VerifiedIsTheDecision'
  <1>1. /\ stored # NoRecord
        /\ replay'.input = other
        /\ replay'.class = verify_semantic_replay(other, stored, policies, evaluators)
        /\ UNCHANGED <<facts, input, stored, edited>>
    BY DEF Replay
  <1> SUFFICES ASSUME replay'.class = "SEMANTICALLY_REPLAY_VERIFIED"
               PROVE  /\ InputBound(stored, other)
                      /\ \E p \in Policies :
                            /\ PolicyIdentity(p) = stored.echo.policy
                            /\ stored.core = DecisionCore(other, p)
                            /\ edited = FALSE =>
                                  DecisionCore(other, p) = DecisionCore(other, POLICY_V1)
    BY <1>1 DEF VerifiedIsTheDecision
  <1>2. /\ InputBound(stored, other)
        /\ \E p \in Policies : /\ PolicyIdentity(p) = stored.echo.policy
                               /\ stored.core = DecisionCore(other, p)
    BY <1>1, VerifiedStates
  <1>3. ASSUME edited = FALSE PROVE stored.core = DecisionCore(other, V1)
    <2>1. stored = RecordOf(input, DecisionCore(input, V1))
      BY <1>1, <1>3 DEF Sound
    <2>2. /\ stored.core = DecisionCore(input, V1)
          /\ stored.echo = Echo(input) /\ stored.input_digest = input_digest(input)
      BY <2>1, RecordFields
    <2>3. InputBound(stored, input)
      BY <2>2 DEF InputBound
    <2>4. other = input
      BY <1>2, <2>3, BoundToOneInput
    <2> QED BY <2>2, <2>4
  <1> QED BY <1>2, <1>3 DEF V1

LEMMA DecisionKept ==
    IInv /\ VerifiedIsTheDecision /\ [Next]_vars => VerifiedIsTheDecision'
  <1> SUFFICES ASSUME IInv, VerifiedIsTheDecision, [Next]_vars PROVE VerifiedIsTheDecision'
    OBVIOUS
  <1>1. CASE UNCHANGED <<stored, edited, replay>>
    BY <1>1 DEF VerifiedIsTheDecision
  <1>2. CASE replay' = NoRecord
    BY <1>2 DEF VerifiedIsTheDecision
  <1>3. CASE \E policies \in Registries, evaluators \in SUBSET Evaluator :
               \E other \in OtherInputs : Replay(other, policies, evaluators)
    BY <1>3, ReplayStates DEF IInv
  <1>4. CASE UNCHANGED vars
    BY <1>1, <1>4 DEF vars
  <1> QED
    BY <1>1, <1>2, <1>3, <1>4
    DEF Next, ObserveEnum, ObserveViolations, ObserveVerifier, ObserveRequirement,
        ObserveEvidence, Establish, Evaluate, DropReason, ChangeAuthority, ChangeSchema,
        Edit, Discard

(* A verified replay means that the record states the decision of the      *)
(* policy it names on the input it is bound to; the facade's own record    *)
(* for an input that names another policy than the production one is       *)
(* verified only where both decide alike (evaluate_merge_eligibility,      *)
(* verify_semantic_replay).                                                *)
THEOREM VerifiedStatesDecision == Spec => []VerifiedIsTheDecision
  <1>1. Init => VerifiedIsTheDecision
    BY DEF Init, VerifiedIsTheDecision
  <1> QED BY <1>1, InitIInv, NextIInv, DecisionKept, PTL DEF Spec
=============================================================================
