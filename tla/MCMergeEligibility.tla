-------------------------- MODULE MCMergeEligibility ------------------------
EXTENDS MergeEligibility, TLC

(* A stricter policy under the production version but another digest, and  *)
(* a policy the constructor accepts although one of its reasons neither    *)
(* blocks nor asks for review.                                             *)
Strict == [POLICY_V1 EXCEPT !.digest = "strict", !.default["SCOPE_UNCERTAIN"] = "BLOCK"]

Lenient == [POLICY_V1 EXCEPT !.version = "v3", !.digest = "lenient",
                             !.default["APPROVAL_STALE"] = "ELIGIBLE_TO_MERGE_UNDER_POLICY"]

MCOtherPolicies == {Strict, Lenient}
Sources == Permutations(Source)
=============================================================================
