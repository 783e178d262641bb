---------------------------- MODULE ConfirmedSave ---------------------------
(***************************************************************************)
(* The dedicated memory commands: /memory save-decision writes one         *)
(* explicitly confirmed decision to the remote memory service, /memory     *)
(* recall reads it back.  One client process issues them in turn over a    *)
(* network that loses and delays; the client gives up after its timeout,   *)
(* which does not recall the request.                                      *)
(*                                                                         *)
(* TOMTIT-Memory is not part of the repository: its actions say what       *)
(* RemoteMemoryClient relies on, duplicate detection by content and a      *)
(* search index that lags behind the writes, and nothing more.             *)
(*                                                                         *)
(* claims and recalls are history variables: what the user was told.       *)
(***************************************************************************)
EXTENDS Integers, Sequences, FiniteSets

CONSTANTS
    Content,       \* the decisions a user may confirm
    max_attempts,  \* _RECALL_MAX_ATTEMPTS (5)
    MaxOps,        \* bound: confirmations
    MaxRecalls     \* bound: recalls

ASSUME AttemptsAssumption == max_attempts \in Nat \ {0}
ASSUME OpsAssumption == MaxOps \in Nat /\ MaxRecalls \in Nat

VARIABLES
    capable,    \* memory_client.supports_required_write
    pc,         \* "idle", "writing" or "recalling"
    ops,        \* the confirmed decisions; a confirmation_id is an index
    requests,   \* write requests on their way to the service
    responses,  \* write responses on their way back
    memories,   \* the service's records; a memory_id is an index
    indexed,    \* the memory_ids its search can see
    query, attempt, visible_before,
    claims, recalls

service == <<memories, indexed>>
reading == <<query, attempt, visible_before, recalls>>
writing == <<ops, requests, responses, claims>>
vars == <<capable, pc, service, reading, writing>>

Request == [request_id : Nat, content : Content]
Response == [request_id : Nat, candidate_id : Nat, memory_id : Nat,
             status : {"written", "skipped_duplicate", "error", "malformed"}]
Memory == [content : Content, evidence_ref : Nat]
Answer == {"saved", "already_existed", "not_saved"}
Claim == [confirmation_id : Nat, answer : Answer, memory_id : Nat]
Recall == [query : Content, answer : {"found", "no_result", "failed"},
           visible_before : BOOLEAN]

Stored(c) == \E m \in DOMAIN memories : memories[m].content = c
Searchable(c) == \E m \in indexed : memories[m].content = c

Init ==
    /\ capable \in BOOLEAN
    /\ pc = "idle"
    /\ ops = <<>> /\ requests = {} /\ responses = {}
    /\ memories = <<>> /\ indexed = {}
    /\ query \in Content /\ attempt = 0 /\ visible_before = FALSE
    /\ claims = {} /\ recalls = {}

-----------------------------------------------------------------------------
(* The save: run_confirmed_save and RemoteMemoryClient                     *)

confirmation_id == Len(ops)

Told(id, answer, memory_id) ==
    claims' = claims \cup {[confirmation_id |-> id, answer |-> answer,
                            memory_id |-> memory_id]}

(* handle_save_decision: each confirmation makes a fresh operation, whose  *)
(* request id derives from its confirmation id.  A backend that cannot do  *)
(* a required write fails the run before any client access.                *)
ConfirmSave(c) ==
    /\ pc = "idle" /\ Len(ops) < MaxOps
    /\ ops' = Append(ops, c)
    /\ \/ /\ capable
          /\ requests' = requests \cup {[request_id |-> Len(ops) + 1, content |-> c]}
          /\ pc' = "writing"
          /\ UNCHANGED claims
       \/ /\ ~capable
          /\ Told(Len(ops) + 1, "not_saved", 0)
          /\ UNCHANGED <<pc, requests>>
    /\ UNCHANGED <<capable, responses, service, reading>>

(* Mutant: any well-formed answer is taken for the answer to this request. *)
Correlates_Any(r) == r.status \in {"written", "skipped_duplicate"}

(* _verify_write_correlation and validate_required_write_response: the     *)
(* response names this request and its one candidate.                      *)
Correlates(r) ==
    /\ r.status \in {"written", "skipped_duplicate"}
    /\ r.request_id = confirmation_id /\ r.candidate_id = confirmation_id

(* The client reads a response from its connection; one that is left over  *)
(* from an earlier request is a contract error, like a malformed one.      *)
ReceiveResponse(r) ==
    /\ pc = "writing"
    /\ responses' = responses \ {r}
    /\ IF Correlates(r)
       THEN IF r.status = "written"
            THEN Told(confirmation_id, "saved", r.memory_id)
            ELSE Told(confirmation_id, "already_existed", 0)
       ELSE Told(confirmation_id, "not_saved", 0)
    /\ pc' = "idle"
    /\ UNCHANGED <<capable, ops, requests, service, reading>>

(* A timeout or a transport error; the request may still be on its way.    *)
WriteTimeout ==
    /\ pc = "writing"
    /\ Told(confirmation_id, "not_saved", 0)
    /\ pc' = "idle"
    /\ UNCHANGED <<capable, ops, requests, responses, service, reading>>

(* The process dies and is started again: the operation is not persisted.  *)
Crash ==
    /\ pc # "idle"
    /\ pc' = "idle"
    /\ UNCHANGED <<capable, writing, service, reading>>

-----------------------------------------------------------------------------
(* The recall: run_memory_recall                                           *)

Answered(answer) ==
    recalls' = recalls \cup {[query |-> query, answer |-> answer,
                              visible_before |-> visible_before]}

(* visible_before remembers whether the answer was there to be found.      *)
StartRecall(c) ==
    /\ pc = "idle" /\ Cardinality(recalls) < MaxRecalls
    /\ query' = c /\ attempt' = 1
    /\ visible_before' = Searchable(c)
    /\ pc' = "recalling"
    /\ UNCHANGED <<capable, writing, service, recalls>>

(* Mutant: an exhausted recall starts over.                                *)
RecallEmpty_StartsOver ==
    /\ pc = "recalling" /\ ~Searchable(query)
    /\ attempt' = IF attempt >= max_attempts THEN 1 ELSE attempt + 1
    /\ UNCHANGED <<capable, pc, writing, service, query, visible_before, recalls>>

(* Mutant: one attempt too many.                                           *)
RecallEmpty_OffByOne ==
    /\ pc = "recalling" /\ ~Searchable(query)
    /\ IF attempt > max_attempts
       THEN Answered("no_result") /\ pc' = "idle" /\ UNCHANGED attempt
       ELSE attempt' = attempt + 1 /\ UNCHANGED <<pc, recalls>>
    /\ UNCHANGED <<capable, writing, service, query, visible_before>>

(* A non-degraded empty pack is retried within the bound.                  *)
RecallEmpty ==
    /\ pc = "recalling" /\ ~Searchable(query)
    /\ IF attempt >= max_attempts
       THEN Answered("no_result") /\ pc' = "idle" /\ UNCHANGED attempt
       ELSE attempt' = attempt + 1 /\ UNCHANGED <<pc, recalls>>
    /\ UNCHANGED <<capable, writing, service, query, visible_before>>

RecallHit ==
    /\ pc = "recalling" /\ Searchable(query)
    /\ Answered("found")
    /\ pc' = "idle"
    /\ UNCHANGED <<capable, writing, service, query, attempt, visible_before>>

(* Mutant: an outage is read as an empty pack.                             *)
RecallFails_AsEmpty ==
    /\ pc = "recalling"
    /\ Answered("no_result")
    /\ pc' = "idle"
    /\ UNCHANGED <<capable, writing, service, query, attempt, visible_before>>

(* A degraded pack (timeout, transport, 5xx) or an exception is a failure, *)
(* never an empty result, and is not retried.                              *)
RecallFails ==
    /\ pc = "recalling"
    /\ Answered("failed")
    /\ pc' = "idle"
    /\ UNCHANGED <<capable, writing, service, query, attempt, visible_before>>

-----------------------------------------------------------------------------
(* The network and the memory service (external)                           *)

Reply(r, status, memory_id) ==
    responses' = responses \cup {[request_id |-> r.request_id,
                                  candidate_id |-> r.request_id,
                                  memory_id |-> memory_id, status |-> status]}

ServiceWrites(r) ==
    /\ ~Stored(r.content)
    /\ memories' = Append(memories, [content |-> r.content, evidence_ref |-> r.request_id])
    /\ requests' = requests \ {r}
    /\ Reply(r, "written", Len(memories) + 1)
    /\ UNCHANGED <<capable, pc, ops, indexed, reading, claims>>

ServiceSkipsDuplicate(r) ==
    /\ Stored(r.content)
    /\ requests' = requests \ {r}
    /\ \E m \in DOMAIN memories :
          memories[m].content = r.content /\ Reply(r, "skipped_duplicate", m)
    /\ UNCHANGED <<capable, pc, ops, service, reading, claims>>

(* An error status, or a body that fails the schema after the write.       *)
ServiceRejects(r) ==
    /\ requests' = requests \ {r}
    /\ Reply(r, "error", 0)
    /\ UNCHANGED <<capable, pc, ops, service, reading, claims>>

ServiceGarbles(r) ==
    /\ ~Stored(r.content)
    /\ memories' = Append(memories, [content |-> r.content, evidence_ref |-> r.request_id])
    /\ requests' = requests \ {r}
    /\ Reply(r, "malformed", 0)
    /\ UNCHANGED <<capable, pc, ops, indexed, reading, claims>>

LoseRequest(r) ==
    /\ requests' = requests \ {r}
    /\ UNCHANGED <<capable, pc, ops, responses, service, reading, claims>>

LoseResponse(r) ==
    /\ responses' = responses \ {r}
    /\ UNCHANGED <<capable, pc, ops, requests, service, reading, claims>>

IndexCatchesUp(m) ==
    /\ m \notin indexed
    /\ indexed' = indexed \cup {m}
    /\ UNCHANGED <<capable, pc, writing, memories, reading>>

-----------------------------------------------------------------------------
ClientStep ==
    \/ \E c \in Content : ConfirmSave(c) \/ StartRecall(c)
    \/ \E r \in responses : ReceiveResponse(r)
    \/ WriteTimeout
    \/ RecallEmpty \/ RecallHit \/ RecallFails
    \/ Crash

Environment ==
    \/ \E r \in requests : \/ ServiceWrites(r) \/ ServiceSkipsDuplicate(r)
                           \/ ServiceRejects(r) \/ ServiceGarbles(r) \/ LoseRequest(r)
    \/ \E r \in responses : LoseResponse(r)
    \/ \E m \in DOMAIN memories : IndexCatchesUp(m)

Next == ClientStep \/ Environment

Spec == Init /\ [][Next]_vars

(* The client's HTTP timeout bounds every wait; nothing is assumed of the  *)
(* service, the network or the index.                                      *)
FairSpec ==
    /\ Spec
    /\ WF_vars(WriteTimeout)
    /\ WF_vars(RecallEmpty \/ RecallHit \/ RecallFails)

-----------------------------------------------------------------------------
(* Properties *)

TypeOK ==
    /\ capable \in BOOLEAN /\ pc \in {"idle", "writing", "recalling"}
    /\ ops \in Seq(Content)
    /\ requests \subseteq Request /\ responses \subseteq Response
    /\ memories \in Seq(Memory) /\ indexed \subseteq DOMAIN memories
    /\ query \in Content /\ attempt \in 0..max_attempts /\ visible_before \in BOOLEAN
    /\ claims \subseteq Claim /\ recalls \subseteq Recall

(* "Decision saved" names the record of exactly this confirmation, and     *)
(* "already existed" is true of the confirmed content, whatever was lost,  *)
(* late or left over on the connection (run_confirmed_save).               *)
SavedClaimTrue ==
    \A c \in claims :
        /\ c.answer = "saved" =>
              /\ c.memory_id \in DOMAIN memories
              /\ memories[c.memory_id] = [content |-> ops[c.confirmation_id],
                                          evidence_ref |-> c.confirmation_id]
        /\ c.answer = "already_existed" => Stored(ops[c.confirmation_id])

(* A confirmation is answered at most once, and never by a claim about     *)
(* another one: no late response revises what the user was told.           *)
OneAnswer ==
    \A c, d \in claims : c.confirmation_id = d.confirmation_id => c = d

(* "No matching project decision" is never said of a decision that could   *)
(* already be found when the recall started, outage or not                 *)
(* (run_memory_recall).                                                    *)
NoResultHonest ==
    \A r \in recalls : r.answer = "no_result" => ~r.visible_before

(* The answers the client may still wait for: one of a write, and of a     *)
(* recall one per attempt that is left.                                    *)
WaitsLeft ==
    CASE pc = "idle" -> 0 [] pc = "writing" -> 1
      [] pc = "recalling" -> max_attempts - attempt + 1

(* While a command runs, the service, the network and the index cannot     *)
(* make it wait for one answer more: whatever they do, each step of the    *)
(* client itself takes it closer to its end, after at most max_attempts    *)
(* searches.  It is the safety half of OperationEnds.                      *)
OperationBounded ==
    /\ [](WaitsLeft \in 0..max_attempts)
    /\ [][pc # "idle" => \/ WaitsLeft' < WaitsLeft
                         \/ UNCHANGED <<pc, query, attempt, claims, recalls>>]_vars

(* Both commands come to an end: the write by its timeout, the recall by   *)
(* its attempt bound, even if the index never catches up.                  *)
OperationEnds == (pc # "idle") ~> (pc = "idle")

(* "Decision was not saved." is true of the confirmation it answers.       *)
NotSavedClaimTrue ==
    \A c \in claims :
        c.answer = "not_saved" =>
            \A m \in DOMAIN memories : memories[m].evidence_ref # c.confirmation_id

=============================================================================
