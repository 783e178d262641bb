--------------------------- MODULE MCBuildHarness ---------------------------
(* The delivery workflow, the evidence store and the evidence run share no *)
(* state: a behaviour of the harness is an interleaving of one of each,    *)
(* and each is explored on its own, chosen by part.                        *)
EXTENDS Delivery, EvidenceStore, EvidenceRun, TLC

VARIABLE part

HarnessInit ==
    /\ part \in {"delivery", "store", "run"}
    /\ DeliveryInit
    /\ StoreInit
    /\ RunInit
    /\ part # "run" => checkout = CHOOSE c \in Checkout : TRUE

HarnessNext ==
    \/ part = "delivery" /\ DeliveryNext /\ UNCHANGED <<part, storeVars, runVars>>
    \/ part = "store" /\ StoreNext /\ UNCHANGED <<part, deliveryVars, runVars>>
    \/ part = "run" /\ RunNext /\ UNCHANGED <<part, deliveryVars, storeVars>>

HarnessSpec == HarnessInit /\ [][HarnessNext]_<<part, deliveryVars, storeVars, runVars>>

(* Every part of the harness is in a state its types allow; in particular  *)
(* everything built so far is what the constructors of provenance.py and   *)
(* ports.py accept.                                                        *)
HarnessTypeOK == DeliveryTypeOK /\ StoreTypeOK /\ RunTypeOK

-----------------------------------------------------------------------------
(* Changes and reports offered to the delivery workflow *)

EvidenceRecords(ids) ==
    {[id |-> i, command |-> "pytest", commit |-> c[1], outcome |-> c[2]] :
        i \in ids, c \in {<<"head", "passed">>, <<"old", "passed">>,
                         <<"head", "failed">>, <<"head", "malformed">>}}

Good1 == [id |-> "e1", command |-> "pytest", commit |-> "head", outcome |-> "passed"]

\* Every kind of path with good evidence, every kind of evidence with a good
\* path, and evidence with no commit to compare it with.
MCGateInputs ==
    [changed : {{}, {"in"}, {"bad"}, {"in", "out"}, {"out", "both"}, {"in", "manifest"}},
     evidence : {<<Good1>>}, expected : {"head"}]
      \cup [changed : {{"in"}},
            evidence : {<<>>} \cup {<<ev>> : ev \in EvidenceRecords({"e1"})}
                          \cup {<<Good1, ev>> : ev \in EvidenceRecords({"e1", "e2"})},
            expected : {"head"}]
      \cup [changed : {{"in"}}, evidence : {<<>>, <<Good1>>}, expected : {NoneYet}]

raw(b, t, r, s, x) == [blocks |-> b, task |-> t, role |-> r, status |-> s, result |-> x]

MCRawReports ==
    {raw(1, "this", "implementer", "IMPLEMENTED", "PASS"),
     raw(1, "this", "verifier", "VERIFIED_PASS", "PASS"),
     raw(1, "this", "verifier", "NEEDS_FIX", "NEEDS_FIX"),
     raw(1, "other", "implementer", "IMPLEMENTED", "PASS"),
     raw(2, "this", "implementer", "IMPLEMENTED", "PASS"),
     raw(1, "this", "verifier", "IMPLEMENTED", "PASS")}

-----------------------------------------------------------------------------
(* States of the checkout and the candidate of the evidence run *)

state(r, b, c, ch, clean) ==
    [repository |-> r, format |-> "sha1", base |-> b, commit |-> c, tree |-> c,
     changed |-> ch, clean |-> clean]

MCCheckout ==
    {state("here", "b1", "c1", "f1", TRUE), state("here", "b1", "c1", "f1", FALSE),
     state("here", "b1", "c2", "f2", TRUE), state("clone", "b1", "c1", "f1", TRUE)}

MCCandidate ==
    {[repository |-> "here", format |-> "sha1", base |-> "b1", commit |-> "c1", tree |-> "c1",
      changed |-> "f1"]}

Ids == Permutations(EvidenceId) \cup Permutations(RunId) \cup Permutations(Content)
=============================================================================
