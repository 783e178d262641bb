----------------------------- MODULE EvidenceRun ----------------------------
(***************************************************************************)
(* Provenance of evidence in the build harness: commands run in a checkout *)
(* that moves underneath them, the evidence collected from them, the       *)
(* verification bundle and the run record.                                 *)
(*                                                                         *)
(* The inspector, the command runner and the verifier are ports: code      *)
(* elsewhere.  What the repository fixes is what the immutable models let  *)
(* them say: every constructor of provenance.py and ports.py is a guard    *)
(* here, and the ports do anything the guards allow.  A checkout state     *)
(* stands for the snapshot an inspection of it yields, without the id and  *)
(* the time, which are compared with copies of themselves only.            *)
(***************************************************************************)
EXTENDS Integers, FiniteSets

CONSTANTS
    Checkout,        \* states of the checkout: [repository, format, base, commit, tree, changed, clean]
    Candidate,       \* candidate bindings: the same fields without clean
    Requirement,     \* ids of the command requirements of the request
    EvidenceId, RunId, TaskId,
    RejectionStatus, \* statuses a verifier gives: members of the two sets below
    MaxCollected,    \* bound: evidence items collected
    Nothing

CONTEXT_MISMATCH_STATUSES ==
    {"STALE", "REPOSITORY_MISMATCH", "COMMIT_MISMATCH", "TREE_MISMATCH", "DIRTY_WORKTREE",
     "SNAPSHOT_CHANGED"}

NON_CONTEXT_REJECTION_STATUSES ==
    {"COMMAND_MISMATCH", "EXECUTION_FAILED", "DUPLICATE_IDENTITY", "INVALID_PROVENANCE",
     "UNSUPPORTED_SCHEMA", "UNSUPPORTED_COLLECTOR", "INSPECTION_FAILED"}

BindingField == {"repository", "format", "base", "commit", "tree"}

candidate_snapshot_mismatches(candidate, snapshot) ==
    {f \in BindingField \cup {"changed"} : snapshot[f] # candidate[f]}

\* The files a single command changed are not compared.
collected_candidate_mismatches(candidate, item) ==
    {f \in BindingField : item[f] # candidate[f]}

expected_context_mismatch_status(candidate, snapshot) ==
    LET differs(f) == snapshot[f] # candidate[f] IN
    IF differs("repository") THEN "REPOSITORY_MISMATCH"
    ELSE IF differs("format") \/ differs("base") THEN "STALE"
    ELSE IF differs("commit") THEN "COMMIT_MISMATCH"
    ELSE IF differs("tree") THEN "TREE_MISMATCH"
    ELSE IF differs("changed") THEN "SNAPSHOT_CHANGED"
    ELSE IF ~snapshot.clean THEN "DIRTY_WORKTREE"
    ELSE Nothing

-----------------------------------------------------------------------------
(* What the immutable models accept *)

\* The three terminal states of a command; only a completed one has an exit code.
terminal_state(completed, timed_out, interrupted, exit_code) ==
    /\ Cardinality({i \in 1..3 : <<completed, timed_out, interrupted>>[i]}) = 1
    /\ completed <=> exit_code # Nothing

\* Evidence names the checkout as the command left it; of the checkout as it
\* found it only repository, format and base must agree.
CollectedCommandEvidence(item) ==
    /\ \A snapshot \in {item.pre, item.post}, f \in {"repository", "format", "base"} :
          snapshot[f] = item[f]
    /\ item.post.commit = item.commit
    /\ item.post.tree = item.tree
    /\ item.dirty_state = IF item.pre.clean /\ item.post.clean THEN "CLEAN" ELSE "DIRTY"

Identity(entry) == <<entry.evidence_id, entry.run_id, entry.task_id>>

UniqueIds(entries) ==
    \A a, b \in entries : a.evidence_id = b.evidence_id => a = b

validate_rejected_context(status, candidate, snapshot) ==
    /\ snapshot # Nothing => candidate # Nothing
    /\ status \in CONTEXT_MISMATCH_STATUSES =>
          /\ snapshot # Nothing
          /\ status = expected_context_mismatch_status(candidate, snapshot)
    /\ status \in NON_CONTEXT_REJECTION_STATUSES /\ snapshot # Nothing =>
          expected_context_mismatch_status(candidate, snapshot) = Nothing

\* A result that rejects: no matched requirement, and the context matrix.
EvidenceVerificationResult(r) ==
    /\ r.status # "VERIFIED"
    /\ validate_rejected_context(r.status, r.candidate, r.snapshot)

EvidenceVerificationRequest(task_id, candidate, items, snapshot) ==
    /\ UniqueIds(items)
    /\ \A item \in items :
          /\ item.task_id = task_id
          /\ item.requirement_id \in Requirement
          /\ collected_candidate_mismatches(candidate, item) = {}
    /\ candidate_snapshot_mismatches(candidate, snapshot) = {}

EvidenceVerificationBundle(b) ==
    /\ UniqueIds(b.verified) /\ UniqueIds(b.rejected)
    /\ \A v \in b.verified, r \in b.rejected : v.evidence_id # r.evidence_id
    /\ \A v \in b.verified : v.task_id = b.task_id /\ v.candidate = b.candidate
    /\ \A r \in b.rejected : r.task_id = b.task_id /\ r.candidate \in {Nothing, b.candidate}
    /\ candidate_snapshot_mismatches(b.candidate, b.verified_at_snapshot) = {}

\* Mutant: evidence of another run of the task is taken.
EvidenceRunRecord_AnyRun(rec) ==
    /\ UniqueIds(rec.collected)
    /\ \A item \in rec.collected :
          /\ item.task_id = rec.task_id
          /\ collected_candidate_mismatches(rec.candidate, item) = {}
    /\ candidate_snapshot_mismatches(rec.candidate, rec.final_snapshot) = {}
    /\ rec.bundle # Nothing =>
          /\ rec.bundle.task_id = rec.task_id
          /\ rec.bundle.candidate = rec.candidate
          /\ \A entry \in rec.bundle.verified \cup rec.bundle.rejected :
                Identity(entry) \in {Identity(item) : item \in rec.collected}

EvidenceRunRecord(rec) ==
    /\ UniqueIds(rec.collected)
    /\ \A item \in rec.collected :
          /\ item.task_id = rec.task_id
          /\ item.run_id = rec.run_id
          /\ collected_candidate_mismatches(rec.candidate, item) = {}
    /\ candidate_snapshot_mismatches(rec.candidate, rec.final_snapshot) = {}
    /\ rec.bundle # Nothing =>
          /\ rec.bundle.task_id = rec.task_id
          /\ rec.bundle.candidate = rec.candidate
          /\ \A entry \in rec.bundle.verified \cup rec.bundle.rejected :
                Identity(entry) \in {Identity(item) : item \in rec.collected}

-----------------------------------------------------------------------------
VARIABLES
    checkout,     \* the checkout as it is
    running,      \* the command under way and the snapshot taken before it, or Nothing
    collected,    \* evidence items collected so far
    bundle,       \* the verification bundle the verifier returned, or Nothing
    record        \* the run record that was built, or Nothing

runVars == <<checkout, running, collected, bundle, record>>

RunTypeOK ==
    /\ checkout \in Checkout
    /\ running # Nothing => running.pre \in Checkout
    /\ \A item \in collected : CollectedCommandEvidence(item)
    /\ bundle # Nothing => EvidenceVerificationBundle(bundle)
    /\ record # Nothing => EvidenceRunRecord(record)

RunInit ==
    /\ checkout \in Checkout
    /\ running = Nothing
    /\ collected = {}
    /\ bundle = Nothing
    /\ record = Nothing

\* Somebody commits, edits, rebases or switches the checkout.
MoveCheckout(next) ==
    /\ record = Nothing /\ next # checkout
    /\ checkout' = next
    /\ UNCHANGED <<running, collected, bundle, record>>

\* The collector inspects the checkout and starts the command.
StartCommand(e, run, task, requirement) ==
    /\ running = Nothing /\ bundle = Nothing /\ record = Nothing
    /\ Cardinality(collected) < MaxCollected
    /\ running' = [evidence_id |-> e, run_id |-> run, task_id |-> task,
                   requirement_id |-> requirement, pre |-> checkout]
    /\ UNCHANGED <<checkout, collected, bundle, record>>

\* The command ends and the checkout is inspected again.  The collector fills
\* in commit, tree and cleanliness; the constructor decides whether it may.
CollectEvidence(terminal, exit_code, told, dirty_state) ==
    LET item == [evidence_id |-> running.evidence_id, run_id |-> running.run_id,
                 task_id |-> running.task_id, requirement_id |-> running.requirement_id,
                 repository |-> told.repository, format |-> told.format, base |-> told.base,
                 commit |-> told.commit, tree |-> told.tree,
                 pre |-> running.pre, post |-> checkout, dirty_state |-> dirty_state]
    IN /\ running # Nothing
       /\ told \in {running.pre, checkout}
       /\ terminal_state(terminal[1], terminal[2], terminal[3], exit_code)
       /\ CollectedCommandEvidence(item)
       /\ collected' = collected \cup {item}
       /\ running' = Nothing
       /\ UNCHANGED <<checkout, bundle, record>>

\* The inspector or the runner reports an error, or the item is refused.
LoseEvidence ==
    /\ running # Nothing
    /\ running' = Nothing
    /\ UNCHANGED <<checkout, collected, bundle, record>>

\* The verifier answers a request about some of the items.  An item it does
\* not mention is left out; one it rejects carries what the verifier saw.
Verify(task_id, candidate, items, accept, status, snapshot) ==
    LET verified(i) == [evidence_id |-> i.evidence_id, run_id |-> i.run_id,
                        task_id |-> i.task_id, candidate |-> candidate]
        rejected(i) == [evidence_id |-> i.evidence_id, run_id |-> i.run_id,
                        task_id |-> i.task_id, status |-> status, snapshot |-> snapshot,
                        candidate |-> IF snapshot = Nothing THEN Nothing ELSE candidate]
        b == [task_id |-> task_id, candidate |-> candidate,
              verified |-> {verified(i) : i \in accept},
              rejected |-> {rejected(i) : i \in items \ accept},
              verified_at_snapshot |-> checkout]
    IN /\ running = Nothing /\ bundle = Nothing /\ record = Nothing
       /\ EvidenceVerificationRequest(task_id, candidate, items, checkout)
       /\ \A r \in b.rejected : EvidenceVerificationResult(r)
       /\ EvidenceVerificationBundle(b)
       /\ bundle' = b
       /\ UNCHANGED <<checkout, running, collected, record>>

\* The record of a run, with or without a bundle.
BuildRecord(run, task, candidate, items, withBundle) ==
    LET rec == [task_id |-> task, run_id |-> run, candidate |-> candidate,
                collected |-> items, final_snapshot |-> checkout,
                bundle |-> IF withBundle THEN bundle ELSE Nothing]
    IN /\ running = Nothing /\ record = Nothing
       /\ EvidenceRunRecord(rec)
       /\ record' = rec
       /\ UNCHANGED <<checkout, running, collected, bundle>>

RunNext ==
    \/ \E next \in Checkout : MoveCheckout(next)
    \/ \E e \in EvidenceId, run \in RunId, task \in TaskId, q \in Requirement :
          StartCommand(e, run, task, q)
    \/ \E terminal \in [1..3 -> BOOLEAN], exit_code \in {0, Nothing}, told \in Checkout,
          dirty_state \in {"CLEAN", "DIRTY"} :
             CollectEvidence(terminal, exit_code, told, dirty_state)
    \/ LoseEvidence
    \/ \E task \in TaskId, candidate \in Candidate, items \in SUBSET collected :
          \E accept \in SUBSET items, status \in RejectionStatus,
             snapshot \in Checkout \cup {Nothing} :
                Verify(task, candidate, items, accept, status, snapshot)
    \/ \E run \in RunId, task \in TaskId, candidate \in Candidate, items \in SUBSET collected,
          withBundle \in BOOLEAN :
             BuildRecord(run, task, candidate, items, withBundle)

RunSpec == RunInit /\ [][RunNext]_runVars

-----------------------------------------------------------------------------
(* Properties *)

Recorded == record # Nothing /\ record.bundle # Nothing

(* A verified entry of a run record stands for one command of that very    *)
(* run and task, and that command left the checkout at the candidate's     *)
(* commit: nothing collected for another run, task or commit is passed off *)
(* as evidence for the candidate, however bundle and record were combined. *)
VerifiedBelongsToRun ==
    Recorded =>
        \A v \in record.bundle.verified :
            \E item \in collected :
                /\ Identity(item) = Identity(v)
                /\ item.run_id = record.run_id /\ item.task_id = record.task_id
                /\ item.post.commit = record.candidate.commit
                /\ \A other \in record.collected :
                      other.evidence_id = v.evidence_id => other = item
=============================================================================
