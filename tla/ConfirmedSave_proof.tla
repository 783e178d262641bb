------------------------- MODULE ConfirmedSave_proof ------------------------
(***************************************************************************)
(* What the user is told about a confirmed decision is true, for any       *)
(* number of decisions, confirmations and attempts.                        *)
(*                                                                         *)
(* The invariant follows a decision from the confirmation into the request,*)
(* the record and the response: each of them still says what was           *)
(* confirmed, so that a response that correlates says it too.              *)
(***************************************************************************)
EXTENDS ConfirmedSave, TLAPS

RequestsTrue ==
    \A r \in requests : r.request_id \in 1..Len(ops) /\ r.content = ops[r.request_id]

ResponseTrue(r) ==
    /\ r.request_id \in 1..Len(ops) /\ r.candidate_id = r.request_id
    /\ r.status = "written" =>
          /\ r.memory_id \in DOMAIN memories
          /\ memories[r.memory_id] = [content |-> ops[r.request_id],
                                      evidence_ref |-> r.request_id]
    /\ r.status = "skipped_duplicate" => Stored(ops[r.request_id])

ResponsesTrue == \A r \in responses : ResponseTrue(r)

(* The confirmation in flight has not been answered.                       *)
ClaimsKnown ==
    /\ \A c \in claims : c.confirmation_id \in 1..Len(ops)
    /\ pc = "writing" =>
          /\ Len(ops) > 0
          /\ \A c \in claims : c.confirmation_id # Len(ops)

(* What could be found when the recall started can still be found.         *)
StillVisible == pc = "recalling" /\ visible_before => Searchable(query)

IInv ==
    /\ TypeOK /\ RequestsTrue /\ ResponsesTrue /\ ClaimsKnown /\ StillVisible
    /\ (pc = "recalling" => attempt >= 1)
    /\ SavedClaimTrue /\ OneAnswer /\ NoResultHonest

-----------------------------------------------------------------------------
(* Confirmations and records are only appended, so what was true of them   *)
(* stays true.                                                             *)
LEMMA GrowthKeeps ==
    ASSUME IInv,
           Len(ops') >= Len(ops), Len(ops') \in Nat,
           \A i \in 1..Len(ops) : ops'[i] = ops[i],
           DOMAIN memories \subseteq DOMAIN memories',
           \A m \in DOMAIN memories : memories'[m] = memories[m],
           indexed \subseteq indexed'
    PROVE /\ \A c \in Content : Stored(c) => Stored(c)'
          /\ \A c \in Content : Searchable(c) => Searchable(c)'
          /\ \A r \in responses : ResponseTrue(r)'
          /\ \A r \in requests : r.request_id \in 1..Len(ops')
                                 /\ r.content = ops'[r.request_id]
          /\ claims' = claims => SavedClaimTrue'
  <1>1. TypeOK /\ RequestsTrue /\ ResponsesTrue /\ ClaimsKnown /\ SavedClaimTrue
    BY DEF IInv
  <1>2. \A c \in Content : Stored(c) => Stored(c)'
    BY <1>1 DEF Stored
  <1>3. \A c \in Content : Searchable(c) => Searchable(c)'
    BY <1>1 DEF Searchable, TypeOK
  <1>4. \A i \in 1..Len(ops) : ops[i] \in Content /\ i \in 1..Len(ops')
    BY <1>1 DEF TypeOK
  <1>5. \A r \in responses : ResponseTrue(r)'
    BY <1>1, <1>2, <1>4 DEF ResponsesTrue, ResponseTrue
  <1>6. \A r \in requests : r.request_id \in 1..Len(ops') /\ r.content = ops'[r.request_id]
    BY <1>1, <1>4 DEF RequestsTrue
  <1>7. claims' = claims => SavedClaimTrue'
    BY <1>1, <1>2, <1>4 DEF SavedClaimTrue, ClaimsKnown
  <1> QED BY <1>2, <1>3, <1>5, <1>6, <1>7

(* Answering the confirmation in flight with a true claim keeps the        *)
(* invariant of the claims.                                                *)
LEMMA ToldKeeps ==
    ASSUME IInv, NEW answer \in Answer, NEW id \in Nat,
           pc = "writing", pc' = "idle", ops' = ops, memories' = memories,
           Told(confirmation_id, answer, id),
           answer = "saved" =>
              /\ id \in DOMAIN memories
              /\ memories[id] = [content |-> ops[Len(ops)], evidence_ref |-> Len(ops)],
           answer = "already_existed" => Stored(ops[Len(ops)])
    PROVE claims' \subseteq Claim /\ ClaimsKnown' /\ SavedClaimTrue' /\ OneAnswer'
  <1> DEFINE c0 == [confirmation_id |-> Len(ops), answer |-> answer, memory_id |-> id]
  <1>1. TypeOK /\ ClaimsKnown /\ SavedClaimTrue /\ OneAnswer
    BY DEF IInv
  <1>2. claims' = claims \cup {c0} /\ Len(ops) \in Nat /\ Len(ops) > 0
    BY <1>1 DEF Told, confirmation_id, TypeOK, ClaimsKnown
  <1>3. /\ c0 \in Claim /\ c0.confirmation_id = Len(ops)
        /\ c0.answer = answer /\ c0.memory_id = id
    BY <1>2 DEF Claim
  <1> HIDE DEF c0
  <1>4. claims' \subseteq Claim
    BY <1>1, <1>2, <1>3 DEF TypeOK
  <1>5. ClaimsKnown'
    BY <1>1, <1>2, <1>3 DEF ClaimsKnown
  <1>6. SavedClaimTrue'
    BY <1>1, <1>2, <1>3 DEF SavedClaimTrue, Stored
  <1>7. OneAnswer'
    BY <1>1, <1>2, <1>3 DEF OneAnswer, ClaimsKnown
  <1> QED BY <1>4, <1>5, <1>6, <1>7

-----------------------------------------------------------------------------
(* The steps of the save                                                   *)

LEMMA ConfirmIInv ==
    ASSUME IInv, NEW c \in Content, ConfirmSave(c)
    PROVE IInv'
  <1> DEFINE n == Len(ops) + 1
             req == [request_id |-> n, content |-> c]
  <1>t. TypeOK
    BY DEF IInv
  <1>1. /\ pc = "idle" /\ ops' = Append(ops, c) /\ memories' = memories
        /\ indexed' = indexed /\ responses' = responses /\ capable' = capable
        /\ query' = query /\ attempt' = attempt /\ visible_before' = visible_before
        /\ recalls' = recalls
    BY DEF ConfirmSave, service, reading
  <1>2. /\ n \in Nat /\ n > 0 /\ Len(ops') = n /\ ops' \in Seq(Content) /\ ops'[n] = c
        /\ Len(ops') >= Len(ops) /\ Len(ops) = n - 1
        /\ \A i \in 1..Len(ops) : ops'[i] = ops[i]
    BY <1>t, <1>1 DEF TypeOK
  <1>3. /\ \A r \in responses : ResponseTrue(r)'
        /\ \A r \in requests : r.request_id \in 1..Len(ops')
                               /\ r.content = ops'[r.request_id]
        /\ claims' = claims => SavedClaimTrue'
    BY <1>1, <1>2, GrowthKeeps
  <1>4. ResponsesTrue'
    BY <1>1, <1>3 DEF ResponsesTrue
  <1>5. NoResultHonest'
    BY <1>1 DEF IInv, NoResultHonest
  <1>6. CASE capable /\ requests' = requests \cup {req} /\ pc' = "writing"
             /\ claims' = claims
    <2>1. req \in Request /\ req.request_id = n /\ req.content = c
      BY <1>2 DEF Request
    <2> HIDE DEF req, n
    <2>2. TypeOK'
      BY <1>t, <1>1, <1>2, <1>6, <2>1 DEF TypeOK
    <2>3. RequestsTrue'
      BY <1>2, <1>3, <1>6, <2>1 DEF RequestsTrue
    <2>4. ClaimsKnown'
      BY <1>2, <1>6 DEF IInv, ClaimsKnown
    <2>5. StillVisible' /\ OneAnswer' /\ (pc' = "recalling" => attempt' >= 1)
      BY <1>6 DEF IInv, StillVisible, OneAnswer
    <2> QED BY <1>3, <1>4, <1>5, <1>6, <2>2, <2>3, <2>4, <2>5 DEF IInv
  <1>7. CASE Told(n, "not_saved", 0) /\ pc' = pc /\ requests' = requests
    <2> DEFINE c0 == [confirmation_id |-> n, answer |-> "not_saved", memory_id |-> 0]
    <2>1. claims' = claims \cup {c0}
      BY <1>7 DEF Told
    <2>2. c0 \in Claim /\ c0.confirmation_id = n /\ c0.answer = "not_saved"
      BY <1>2 DEF Claim, Answer
    <2> HIDE DEF c0, n
    <2>3. TypeOK'
      BY <1>t, <1>1, <1>2, <1>7, <2>1, <2>2 DEF TypeOK
    <2>4. RequestsTrue'
      BY <1>3, <1>7 DEF RequestsTrue
    <2>5. ClaimsKnown'
      BY <1>1, <1>2, <1>7, <2>1, <2>2 DEF IInv, ClaimsKnown
    <2>6. StillVisible' /\ (pc' = "recalling" => attempt' >= 1)
      BY <1>1, <1>7 DEF StillVisible
    <2>7. OneAnswer'
      BY <1>2, <2>1, <2>2 DEF IInv, OneAnswer, ClaimsKnown
    <2>8. SavedClaimTrue'
      <3>1. \A d \in claims : d.confirmation_id \in 1..Len(ops)
        BY DEF IInv, ClaimsKnown
      <3>2. \A d \in claims : ops'[d.confirmation_id] = ops[d.confirmation_id]
        BY <3>1, <1>2
      <3> QED BY <3>2, <1>1, <2>1, <2>2 DEF IInv, SavedClaimTrue, Stored
    <2> QED BY <1>4, <1>5, <2>3, <2>4, <2>5, <2>6, <2>7, <2>8 DEF IInv
  <1> QED BY <1>6, <1>7 DEF ConfirmSave

(* ReceiveResponse and WriteTimeout answer the confirmation in flight; a   *)
(* response that correlates tells the truth about it.                      *)
LEMMA AnswerIInv ==
    ASSUME IInv, WriteTimeout \/ \E r \in responses : ReceiveResponse(r)
    PROVE IInv'
  <1>t. TypeOK /\ ClaimsKnown /\ ResponsesTrue
    BY DEF IInv
  <1>1. /\ pc = "writing" /\ pc' = "idle" /\ ops' = ops /\ requests' = requests
        /\ memories' = memories /\ indexed' = indexed /\ responses' \subseteq responses
        /\ capable' = capable /\ query' = query /\ attempt' = attempt
        /\ visible_before' = visible_before /\ recalls' = recalls
    BY DEF WriteTimeout, ReceiveResponse, service, reading
  <1>2. claims' \subseteq Claim /\ ClaimsKnown' /\ SavedClaimTrue' /\ OneAnswer'
    <2>1. CASE Told(confirmation_id, "not_saved", 0)
      BY <2>1, <1>1, ToldKeeps DEF Answer
    <2>2. CASE \E r \in responses : ReceiveResponse(r) /\ Correlates(r)
      <3>1. PICK r \in responses : ReceiveResponse(r) /\ Correlates(r)
        BY <2>2
      <3>2. r.request_id = Len(ops) /\ ResponseTrue(r) /\ r.memory_id \in Nat
        BY <3>1, <1>t DEF Correlates, confirmation_id, ResponsesTrue, TypeOK, Response
      <3>3. CASE r.status = "written"
        <4>1. Told(confirmation_id, "saved", r.memory_id)
          BY <3>1, <3>3 DEF ReceiveResponse
        <4> QED BY <4>1, <3>2, <3>3, <1>1, ToldKeeps DEF ResponseTrue, Answer
      <3>4. CASE r.status # "written"
        <4>1. Told(confirmation_id, "already_existed", 0) /\ r.status = "skipped_duplicate"
          BY <3>1, <3>4 DEF ReceiveResponse, Correlates
        <4> QED BY <4>1, <3>2, <1>1, ToldKeeps DEF ResponseTrue, Answer
      <3> QED BY <3>3, <3>4
    <2> QED BY <2>1, <2>2 DEF WriteTimeout, ReceiveResponse
  <1>3. TypeOK'
    BY <1>t, <1>1, <1>2 DEF TypeOK
  <1>4. RequestsTrue' /\ ResponsesTrue' /\ NoResultHonest'
    BY <1>1 DEF IInv, RequestsTrue, ResponsesTrue, ResponseTrue, Stored, NoResultHonest
  <1>5. StillVisible' /\ (pc' = "recalling" => attempt' >= 1)
    BY <1>1 DEF StillVisible
  <1> QED BY <1>2, <1>3, <1>4, <1>5 DEF IInv

(* A crash ends the operation without an answer.                           *)
LEMMA CrashIInv ==
    ASSUME IInv, Crash
    PROVE IInv'
  <1>1. /\ pc' = "idle" /\ UNCHANGED <<capable, ops, requests, responses, memories,
           indexed, query, attempt, visible_before, claims, recalls>>
    BY DEF Crash, writing, service, reading
  <1>2. TypeOK'
    BY <1>1 DEF IInv, TypeOK
  <1>3. /\ RequestsTrue' /\ ResponsesTrue' /\ ClaimsKnown' /\ StillVisible'
        /\ (pc' = "recalling" => attempt' >= 1)
    BY <1>1 DEF IInv, RequestsTrue, ResponsesTrue, ResponseTrue, Stored, ClaimsKnown,
                StillVisible
  <1>4. SavedClaimTrue' /\ OneAnswer' /\ NoResultHonest'
    BY <1>1 DEF IInv, SavedClaimTrue, Stored, OneAnswer, NoResultHonest
  <1> QED BY <1>2, <1>3, <1>4 DEF IInv

-----------------------------------------------------------------------------
(* The steps of the recall: only the reading side changes.                 *)

LEMMA RecallIInv ==
    ASSUME IInv,
           (\E c \in Content : StartRecall(c)) \/ RecallEmpty \/ RecallHit \/ RecallFails
    PROVE IInv'
  <1>t. TypeOK
    BY DEF IInv
  <1>1. UNCHANGED <<capable, ops, requests, responses, memories, indexed, claims>>
    BY DEF StartRecall, RecallEmpty, RecallHit, RecallFails, writing, service
  <1>2. pc' \in {"idle", "recalling"}
    BY DEF StartRecall, RecallEmpty, RecallHit, RecallFails
  <1>3. RequestsTrue' /\ ResponsesTrue' /\ SavedClaimTrue' /\ OneAnswer' /\ ClaimsKnown'
    BY <1>1, <1>2 DEF IInv, RequestsTrue, ResponsesTrue, ResponseTrue, Stored,
                      SavedClaimTrue, OneAnswer, ClaimsKnown
  <1> DEFINE Reads ==
               /\ query' \in Content /\ attempt' \in 0..max_attempts
               /\ visible_before' \in BOOLEAN /\ recalls' \subseteq Recall
               /\ StillVisible' /\ (pc' = "recalling" => attempt' >= 1)
               /\ NoResultHonest'
  <1>4. ASSUME NEW c \in Content, StartRecall(c)
        PROVE Reads
    <2>1. /\ query' = c /\ attempt' = 1 /\ visible_before' = Searchable(c)
          /\ recalls' = recalls /\ Searchable(c) \in BOOLEAN
      BY <1>4 DEF StartRecall, Searchable
    <2>2. StillVisible'
      BY <2>1, <1>1 DEF StillVisible, Searchable
    <2> QED BY <2>1, <2>2, <1>t, AttemptsAssumption DEF IInv, TypeOK, NoResultHonest
  <1>5. ASSUME NEW answer \in {"found", "no_result", "failed"}, Answered(answer),
               pc = "recalling", pc' = "idle",
               answer = "no_result" => ~Searchable(query),
               UNCHANGED <<query, attempt, visible_before>>
        PROVE Reads
    <2> DEFINE r0 == [query |-> query, answer |-> answer, visible_before |-> visible_before]
    <2>1. recalls' = recalls \cup {r0}
      BY <1>5 DEF Answered
    <2>2. r0 \in Recall /\ r0.answer = answer /\ r0.visible_before = visible_before
      BY <1>5, <1>t DEF Recall, TypeOK
    <2>3. answer = "no_result" => ~visible_before
      BY <1>5 DEF IInv, StillVisible
    <2> HIDE DEF r0
    <2>4. NoResultHonest'
      BY <2>1, <2>2, <2>3 DEF IInv, NoResultHonest
    <2> QED BY <2>1, <2>2, <2>4, <1>5, <1>t DEF TypeOK, StillVisible
  <1>6. ASSUME RecallEmpty PROVE Reads
    <2>1. CASE attempt >= max_attempts
      BY <1>6, <2>1, <1>5 DEF RecallEmpty
    <2>2. CASE ~(attempt >= max_attempts)
      <3>1. /\ attempt' = attempt + 1 /\ pc = "recalling"
            /\ UNCHANGED <<pc, recalls, query, visible_before>>
        BY <1>6, <2>2 DEF RecallEmpty
      <3>2. attempt' \in 0..max_attempts /\ attempt' >= 1
        BY <3>1, <2>2, <1>t, AttemptsAssumption DEF TypeOK
      <3>3. StillVisible' /\ NoResultHonest'
        BY <3>1, <1>1 DEF IInv, StillVisible, Searchable, NoResultHonest
      <3> QED BY <3>1, <3>2, <3>3, <1>t DEF TypeOK
    <2> QED BY <2>1, <2>2
  <1>7. ASSUME RecallHit PROVE Reads
    BY <1>7, <1>5 DEF RecallHit
  <1>8. ASSUME RecallFails PROVE Reads
    BY <1>8, <1>5 DEF RecallFails
  <1>9. Reads
    BY <1>4, <1>6, <1>7, <1>8
  <1>10. TypeOK'
    BY <1>t, <1>1, <1>2, <1>9 DEF TypeOK
  <1> QED BY <1>3, <1>9, <1>10 DEF IInv

-----------------------------------------------------------------------------
(* The steps of the service and the network                                *)

(* A reply that is true of its request keeps the responses true.           *)
LEMMA ReplyKeeps ==
    ASSUME IInv, NEW r \in requests, NEW id \in Nat,
           NEW status \in {"written", "skipped_duplicate", "error", "malformed"},
           ops' = ops, Reply(r, status, id),
           \A q \in responses : ResponseTrue(q)',
           status = "written" =>
              /\ id \in DOMAIN memories'
              /\ memories'[id] = [content |-> r.content, evidence_ref |-> r.request_id],
           status = "skipped_duplicate" => Stored(r.content)'
    PROVE responses' \subseteq Response /\ ResponsesTrue'
  <1> DEFINE q0 == [request_id |-> r.request_id, candidate_id |-> r.request_id,
                    memory_id |-> id, status |-> status]
  <1>1. /\ r.request_id \in 1..Len(ops) /\ r.content = ops[r.request_id]
        /\ r.request_id \in Nat
    BY DEF IInv, RequestsTrue, TypeOK, Request
  <1>2. responses' = responses \cup {q0}
    BY DEF Reply
  <1>3. /\ q0 \in Response /\ q0.request_id = r.request_id
        /\ q0.candidate_id = r.request_id /\ q0.memory_id = id /\ q0.status = status
    BY <1>1 DEF Response
  <1> HIDE DEF q0
  <1>4. ResponseTrue(q0)'
    BY <1>1, <1>3 DEF ResponseTrue
  <1>5. responses' \subseteq Response
    BY <1>2, <1>3 DEF IInv, TypeOK
  <1>6. ResponsesTrue'
    BY <1>2, <1>4 DEF ResponsesTrue
  <1> QED BY <1>5, <1>6

(* A record is appended: everything said of the records stays true.        *)
LEMMA WriteIInv ==
    ASSUME IInv, NEW r \in requests, ServiceWrites(r) \/ ServiceGarbles(r)
    PROVE IInv'
  <1> DEFINE m == Len(memories) + 1
             rec == [content |-> r.content, evidence_ref |-> r.request_id]
  <1>t. TypeOK
    BY DEF IInv
  <1>1. /\ memories' = Append(memories, rec) /\ requests' \subseteq requests
        /\ \/ Reply(r, "written", m)
           \/ Reply(r, "malformed", 0)
        /\ UNCHANGED <<capable, pc, ops, indexed, claims, query, attempt,
                       visible_before, recalls>>
    BY DEF ServiceWrites, ServiceGarbles, reading
  <1>2. rec \in Memory /\ m \in Nat
    BY <1>t DEF TypeOK, Request, Memory
  <1>3. /\ memories' \in Seq(Memory) /\ DOMAIN memories' = 1..m /\ memories'[m] = rec
        /\ DOMAIN memories \subseteq DOMAIN memories' /\ m \in 1..m
        /\ \A i \in DOMAIN memories : memories'[i] = memories[i]
    BY <1>t, <1>1, <1>2 DEF TypeOK
  <1>4. /\ \A c \in Content : Searchable(c) => Searchable(c)'
        /\ \A q \in responses : ResponseTrue(q)'
        /\ SavedClaimTrue'
    BY <1>1, <1>3, <1>t, GrowthKeeps DEF TypeOK
  <1>5. responses' \subseteq Response /\ ResponsesTrue'
    BY <1>1, <1>2, <1>3, <1>4, ReplyKeeps
  <1>6. TypeOK'
    BY <1>t, <1>1, <1>3, <1>5 DEF TypeOK
  <1>7. RequestsTrue' /\ ClaimsKnown' /\ OneAnswer' /\ NoResultHonest'
    BY <1>1 DEF IInv, RequestsTrue, ClaimsKnown, OneAnswer, NoResultHonest
  <1>8. StillVisible' /\ (pc' = "recalling" => attempt' >= 1)
    BY <1>1, <1>4, <1>t DEF IInv, StillVisible, TypeOK, Searchable
  <1> QED BY <1>4, <1>5, <1>6, <1>7, <1>8 DEF IInv

(* The records do not change.                                              *)
LEMMA DeliveryIInv ==
    ASSUME IInv,
           \/ \E r \in requests : \/ ServiceSkipsDuplicate(r) \/ ServiceRejects(r)
                                  \/ LoseRequest(r)
           \/ \E r \in responses : LoseResponse(r)
    PROVE IInv'
  <1>t. TypeOK
    BY DEF IInv
  <1>1. /\ requests' \subseteq requests
        /\ UNCHANGED <<capable, pc, ops, memories, indexed, claims, query, attempt,
                       visible_before, recalls>>
    BY DEF ServiceSkipsDuplicate, ServiceRejects, LoseRequest, LoseResponse, reading, service
  <1>2. \A q \in responses : ResponseTrue(q)'
    BY <1>1 DEF IInv, ResponsesTrue, ResponseTrue, Stored
  <1>3. responses' \subseteq Response /\ ResponsesTrue'
    <2>1. ASSUME NEW r \in requests, ServiceSkipsDuplicate(r)
          PROVE responses' \subseteq Response /\ ResponsesTrue'
      <3>1. PICK m \in DOMAIN memories : Reply(r, "skipped_duplicate", m)
        BY <2>1 DEF ServiceSkipsDuplicate
      <3>2. Stored(r.content)' /\ m \in Nat
        BY <2>1, <1>1, <1>t DEF ServiceSkipsDuplicate, Stored, TypeOK
      <3> QED BY <3>1, <3>2, <1>1, <1>2, ReplyKeeps
    <2>2. ASSUME NEW r \in requests, ServiceRejects(r)
          PROVE responses' \subseteq Response /\ ResponsesTrue'
      BY <2>2, <1>1, <1>2, ReplyKeeps DEF ServiceRejects
    <2>3. ASSUME responses' \subseteq responses
          PROVE responses' \subseteq Response /\ ResponsesTrue'
      BY <2>3, <1>2, <1>t DEF ResponsesTrue, TypeOK
    <2> QED BY <2>1, <2>2, <2>3 DEF LoseRequest, LoseResponse
  <1>4. TypeOK'
    BY <1>t, <1>1, <1>3 DEF TypeOK
  <1>5. /\ RequestsTrue' /\ ClaimsKnown' /\ StillVisible'
        /\ (pc' = "recalling" => attempt' >= 1)
    BY <1>1 DEF IInv, RequestsTrue, ClaimsKnown, StillVisible, Searchable
  <1>6. SavedClaimTrue' /\ OneAnswer' /\ NoResultHonest'
    BY <1>1 DEF IInv, SavedClaimTrue, Stored, OneAnswer, NoResultHonest
  <1> QED BY <1>3, <1>4, <1>5, <1>6 DEF IInv

LEMMA IndexIInv ==
    ASSUME IInv, NEW m \in DOMAIN memories, IndexCatchesUp(m)
    PROVE IInv'
  <1>1. /\ indexed' = indexed \cup {m}
        /\ UNCHANGED <<capable, pc, ops, requests, responses, memories, query, attempt,
                       visible_before, claims, recalls>>
    BY DEF IndexCatchesUp, writing, reading
  <1>2. TypeOK'
    BY <1>1 DEF IInv, TypeOK
  <1>3. /\ RequestsTrue' /\ ResponsesTrue' /\ ClaimsKnown' /\ StillVisible'
        /\ (pc' = "recalling" => attempt' >= 1)
    BY <1>1 DEF IInv, RequestsTrue, ResponsesTrue, ResponseTrue, Stored, ClaimsKnown,
                StillVisible, Searchable
  <1>4. SavedClaimTrue' /\ OneAnswer' /\ NoResultHonest'
    BY <1>1 DEF IInv, SavedClaimTrue, Stored, OneAnswer, NoResultHonest
  <1> QED BY <1>2, <1>3, <1>4 DEF IInv

-----------------------------------------------------------------------------
LEMMA InitIInv == Init => IInv
  <1> SUFFICES ASSUME Init PROVE IInv
    OBVIOUS
  <1>1. TypeOK
    <2>1. ops \in Seq(Content) /\ memories \in Seq(Memory)
      BY DEF Init
    <2>2. 0 \in 0..max_attempts
      BY AttemptsAssumption
    <2>3. capable \in BOOLEAN /\ visible_before \in BOOLEAN
      BY DEF Init
    <2> QED BY <2>1, <2>2, <2>3 DEF Init, TypeOK
  <1>2. /\ RequestsTrue /\ ResponsesTrue /\ ClaimsKnown /\ StillVisible
        /\ (pc = "recalling" => attempt >= 1)
    BY DEF Init, RequestsTrue, ResponsesTrue, ClaimsKnown, StillVisible
  <1>3. SavedClaimTrue /\ OneAnswer /\ NoResultHonest
    BY DEF Init, SavedClaimTrue, OneAnswer, NoResultHonest
  <1> QED BY <1>1, <1>2, <1>3 DEF IInv

LEMMA NextIInv == IInv /\ [Next]_vars => IInv'
  <1> SUFFICES ASSUME IInv, [Next]_vars PROVE IInv'
    OBVIOUS
  <1>1. CASE ClientStep
    <2>1. ASSUME NEW c \in Content, ConfirmSave(c) PROVE IInv'
      BY <2>1, ConfirmIInv
    <2>2. CASE WriteTimeout \/ \E r \in responses : ReceiveResponse(r)
      BY <2>2, AnswerIInv
    <2>3. CASE \/ \E c \in Content : StartRecall(c)
               \/ RecallEmpty \/ RecallHit \/ RecallFails
      BY <2>3, RecallIInv
    <2>4. CASE Crash
      BY <2>4, CrashIInv
    <2> QED BY <1>1, <2>1, <2>2, <2>3, <2>4 DEF ClientStep
  <1>2. CASE Environment
    <2>1. ASSUME NEW r \in requests, ServiceWrites(r) \/ ServiceGarbles(r) PROVE IInv'
      BY <2>1, WriteIInv
    <2>2. CASE \/ \E r \in requests : \/ ServiceSkipsDuplicate(r) \/ ServiceRejects(r)
                                      \/ LoseRequest(r)
               \/ \E r \in responses : LoseResponse(r)
      BY <2>2, DeliveryIInv
    <2>3. ASSUME NEW m \in DOMAIN memories, IndexCatchesUp(m) PROVE IInv'
      BY <2>3, IndexIInv
    <2> QED BY <1>2, <2>1, <2>2, <2>3 DEF Environment
  <1>3. CASE UNCHANGED vars
    <2> USE <1>3 DEF vars, service, reading, writing
    <2>1. TypeOK' /\ ClaimsKnown' /\ (pc' = "recalling" => attempt' >= 1)
      BY DEF IInv, TypeOK, ClaimsKnown
    <2>2. RequestsTrue' /\ ResponsesTrue' /\ StillVisible'
      BY DEF IInv, RequestsTrue, ResponsesTrue, ResponseTrue, Stored, StillVisible,
             Searchable
    <2>3. SavedClaimTrue' /\ OneAnswer' /\ NoResultHonest'
      BY DEF IInv, SavedClaimTrue, Stored, OneAnswer, NoResultHonest
    <2> QED BY <2>1, <2>2, <2>3 DEF IInv
  <1> QED BY <1>1, <1>2, <1>3 DEF Next

-----------------------------------------------------------------------------
(* Every variable keeps its type; the attempts stay within their bound.    *)
THEOREM SaveTypeOK == Spec => []TypeOK
  <1>1. IInv => TypeOK
    BY DEF IInv
  <1> QED BY <1>1, InitIInv, NextIInv, PTL DEF Spec

(* A saved claim is true, and there is one answer per confirmation,        *)
(* whatever the network does (run_confirmed_save).                         *)
THEOREM SaveClaimsTrue == Spec => [](SavedClaimTrue /\ OneAnswer)
  <1>1. IInv => SavedClaimTrue /\ OneAnswer
    BY DEF IInv
  <1> QED BY <1>1, InitIInv, NextIInv, PTL DEF Spec

(* No recall misses a decision that was there to be found                  *)
(* (run_memory_recall).                                                    *)
THEOREM RecallHonest == Spec => []NoResultHonest
  <1>1. IInv => NoResultHonest
    BY DEF IInv
  <1> QED BY <1>1, InitIInv, NextIInv, PTL DEF Spec

(* A command takes at most max_attempts answers, and nothing but its own   *)
(* steps brings it closer to its end or changes what it says               *)
(* (run_confirmed_save, run_memory_recall).                                *)
THEOREM OperationIsBounded == Spec => OperationBounded
  <1> DEFINE Quiet == UNCHANGED <<pc, query, attempt, claims, recalls>>
  <1>1. IInv => WaitsLeft \in 0..max_attempts
    <2> SUFFICES ASSUME IInv PROVE WaitsLeft \in 0..max_attempts
      OBVIOUS
    <2>1. /\ max_attempts \in Nat \ {0} /\ attempt \in 0..max_attempts
          /\ pc \in {"idle", "writing", "recalling"} /\ (pc = "recalling" => attempt >= 1)
      BY AttemptsAssumption DEF IInv, TypeOK
    <2> QED BY <2>1 DEF WaitsLeft
  <1>2. ASSUME IInv, Next, pc # "idle" PROVE WaitsLeft' < WaitsLeft \/ Quiet
    <2>1. /\ max_attempts \in Nat \ {0} /\ attempt \in 0..max_attempts
          /\ pc \in {"writing", "recalling"}
      BY <1>2, AttemptsAssumption DEF IInv, TypeOK
    <2>2. CASE Environment
      BY <2>2 DEF Environment, ServiceWrites, ServiceSkipsDuplicate, ServiceRejects,
         ServiceGarbles, LoseRequest, LoseResponse, IndexCatchesUp, reading, writing
    <2>3. CASE pc' = "idle"
      BY <2>1, <2>3 DEF WaitsLeft
    <2>4. CASE RecallEmpty /\ pc' # "idle"
      <3>1. pc = "recalling" /\ pc' = pc /\ attempt' = attempt + 1
        BY <2>4 DEF RecallEmpty
      <3> QED BY <2>1, <3>1 DEF WaitsLeft
    <2>5. CASE ClientStep /\ ~RecallEmpty
      <3>1. pc' = "idle"
        BY <1>2, <2>5 DEF ClientStep, ConfirmSave, StartRecall, ReceiveResponse, WriteTimeout,
           RecallHit, RecallFails, Crash
      <3> QED BY <2>3, <3>1
    <2> QED BY <1>2, <2>2, <2>3, <2>4, <2>5 DEF Next
  <1>3. IInv /\ [Next]_vars => [pc # "idle" => WaitsLeft' < WaitsLeft \/ Quiet]_vars
    BY <1>2
  <1> QED BY <1>1, <1>3, InitIInv, NextIInv, PTL DEF Spec, OperationBounded
=============================================================================
