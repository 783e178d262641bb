---------------------------- MODULE WebChat_proof ---------------------------
(***************************************************************************)
(* The web API's safety properties, for every number of requests, sessions *)
(* and projects, every limit and every interleaving of the threads.        *)
(*                                                                         *)
(* WebInv strengthens the types by what the threads may rely on: a request *)
(* that has stored statements is at work on the next, failed at it or past *)
(* them all, a fact whose answer is in the transcript is stored or never   *)
(* will be, and a wipe has in its hands, or has deleted, what was          *)
(* acknowledged before it was sent.                                        *)
(***************************************************************************)
EXTENDS WebChat, FiniteSetTheorems, TLAPS

Writing == {"write", "searching", "resolving", "aliases", "checking", "storing"}
Ended == {"record", "return", "answered"}

(* A request that wrote a note or wiped is past its searches; one that has *)
(* stored statements is at work on the next, failed at it, or is past them.*)
Settled ==
    /\ \A r \in notes \cup wiped : pc[r] \in Ended
    /\ \A r \in Request : pc[r] \in Writing => M(r) = "fact" /\ applied[r] < Len(B(r))
    /\ \A r \in Request : applied[r] > 0 =>
          pc[r] \in Ended \/ (pc[r] \in Writing \cup {"failed"} /\ applied[r] < Len(B(r)))

(* An answer is said when the request has ended.                           *)
AnswersSaid ==
    \A s \in Session : \A i \in DOMAIN transcript[s] :
        transcript[s][i].role = "assistant" => pc[transcript[s][i].request] = "answered"

(* What was acknowledged before the wipe r was sent.                       *)
Acknowledged(r) == {k \in keys : Before(S(r), "assistant", k[1], "user", r)}

(* A wipe that has searched holds all that was acknowledged before it.     *)
Forgotten ==
    Cardinality(keys) <= limit =>
        \A r \in Request :
            /\ pc[r] = "deleting" => Acknowledged(r) \subseteq found[r] \cup deleted
            /\ r \in wiped => Acknowledged(r) \subseteq deleted

WebInv ==
    /\ TypeOK /\ IsFiniteSet(keys) /\ IsFiniteSet(notes)
    /\ Settled /\ AnswersSaid /\ Forgotten

(* What the clients ask: only a fact message has statements, and it does.  *)
LEMMA Asks ==
    ASSUME NEW a \in Ask
    PROVE  /\ a.session \in Session /\ a.project \in Project /\ a.message \in Message
           /\ a.batch \in Seq(Statement)
           /\ a.message = "fact" => Len(a.batch) > 0
  <1>1. CASE a \in [session : Session, project : Project, message : Input \ {"fact"}, batch : {<<>>}]
    <2>1. a.batch = <<>> /\ <<>> \in Seq(Statement)
      BY <1>1
    <2>2. a.session \in Session /\ a.project \in Project /\ a.message \in Input \ {"fact"}
      BY <1>1
    <2> QED BY <2>1, <2>2, InputAssumption
  <1>2. CASE a \in [session : Session, project : Project, message : Input \cap {"fact"}, batch : Batch]
    <2>1. a.batch \in Seq(Statement) /\ a.batch # <<>>
      BY <1>2, BatchAssumption
    <2>2. Len(a.batch) > 0
      BY <2>1
    <2> QED BY <1>2, <2>1, <2>2, InputAssumption
  <1> QED BY <1>1, <1>2 DEF Ask

LEMMA RequestAsks ==
    ASSUME TypeOK, NEW r \in Request
    PROVE  /\ S(r) \in Session /\ M(r) \in Message /\ B(r) \in Seq(Statement)
           /\ M(r) = "fact" => Len(B(r)) > 0
           /\ Len(B(r)) \in Nat /\ DOMAIN B(r) = 1 .. Len(B(r))
  <1>1. req[r] \in Ask
    BY DEF TypeOK
  <1> QED BY <1>1, Asks DEF S, M, B

(* The store's keys are the statements that were applied.                  *)
LEMMA Keyed ==
    ASSUME TypeOK
    PROVE  /\ \A k \in keys : /\ k[1] \in Request /\ k[2] \in 1 .. applied[k[1]]
                              /\ k = <<k[1], k[2]>>
           /\ \A r \in Request : \A i \in 1 .. applied[r] : <<r, i>> \in keys
  BY DEF TypeOK, stored

LEMMA InitInv == Init => WebInv
  <1> SUFFICES ASSUME Init PROVE WebInv
    OBVIOUS
  <1> USE DEF Init
  <1>1. TypeOK
    <2>1. \A r \in Request : applied[r] = 0 /\ 0 <= Len(B(r))
      <3> SUFFICES ASSUME NEW r \in Request PROVE 0 <= Len(B(r))
        OBVIOUS
      <3>1. req[r] \in Ask
        OBVIOUS
      <3>2. req[r].batch \in Seq(Statement)
        BY <3>1, Asks
      <3> QED BY <3>2 DEF B
    <2>2. keys = stored
      <3>1. \A r \in Request : {r} \X (1 .. applied[r]) = {}
        BY <2>1
      <3> QED BY <3>1 DEF stored
    <2>3. transcript \in [Session -> Seq([role : {"user", "assistant"}, request : Request])]
      OBVIOUS
    <2> QED BY <2>1, <2>2, <2>3 DEF TypeOK, Stage, NoNote
  <1>2. IsFiniteSet(keys) /\ IsFiniteSet(notes)
    BY FS_EmptySet
  <1>3. Settled /\ AnswersSaid /\ Forgotten
    BY DEF Settled, AnswersSaid, Forgotten, Acknowledged, Writing
  <1> QED BY <1>1, <1>2, <1>3 DEF WebInv

(* Storing the next statement of a request adds its key and no other.      *)
LEMMA StoredKeys ==
    ASSUME TypeOK, NEW r \in Request, NEW a, a = [applied EXCEPT ![r] = @ + 1]
    PROVE  keys \cup {<<r, applied[r] + 1>>} = UNION {{q} \X (1 .. a[q]) : q \in Request}
  <1>1. \A q \in Request : applied[q] \in Nat /\ a[q] = IF q = r THEN applied[q] + 1 ELSE applied[q]
    BY DEF TypeOK
  <1>2. \A q \in Request :
          {q} \X (1 .. a[q]) = IF q = r THEN ({q} \X (1 .. applied[q])) \cup {<<r, applied[r] + 1>>}
                               ELSE {q} \X (1 .. applied[q])
    BY <1>1
  <1>3. keys = UNION {{q} \X (1 .. applied[q]) : q \in Request}
    BY DEF TypeOK, stored
  <1> QED BY <1>2, <1>3

(* The types.                                                              *)
LEMMA TypesKept ==
    TypeOK /\ IsFiniteSet(keys) /\ IsFiniteSet(notes) /\ Settled /\ [Next]_vars => TypeOK'
  <1> SUFFICES ASSUME TypeOK, IsFiniteSet(keys), IsFiniteSet(notes), Settled, [Next]_vars
               PROVE  TypeOK'
    OBVIOUS
  <1>0. applied' = applied => stored' = stored
    BY DEF stored
  <1> USE <1>0 DEF TypeOK, loop, memory, locals, history, Goto, M, B
  <1>1. CASE UNCHANGED vars
    BY <1>1 DEF vars
  <1>2. ASSUME NEW s \in Session, NEW p \in Project, CreateSession(s, p) PROVE TypeOK'
    BY <1>2 DEF CreateSession
  <1>3. ASSUME NEW r \in Request, Reject(r) PROVE TypeOK'
    BY <1>3 DEF Reject, Stage
  <1>4. ASSUME NEW r \in Request, NEW role \in {"user", "assistant"}, NEW to \in Stage,
               Say(S(r), role, r), pc' = [pc EXCEPT ![r] = to],
               UNCHANGED <<project, req, pending_delete_all, pending_note, turns, memory,
                           locals, history>>
        PROVE  TypeOK'
    <2>1. [role |-> role, request |-> r] \in [role : {"user", "assistant"}, request : Request]
      OBVIOUS
    <2>2. S(r) \in Session
      BY RequestAsks
    <2>3. transcript' \in [Session -> Seq([role : {"user", "assistant"}, request : Request])]
      BY <1>4, <2>1, <2>2, SMTT(30) DEF Say
    <2> QED BY <1>4, <2>3
  <1>5. ASSUME NEW r \in Request, Admit(r) PROVE TypeOK'
    BY <1>4, <1>5 DEF Admit, Stage
  <1>6. ASSUME NEW r \in Request, Answer(r) PROVE TypeOK'
    BY <1>4, <1>6 DEF Answer, Stage
  <1>7. ASSUME NEW r \in Request, NEW from, NEW to \in Stage, BeginSearch(r, from, to)
        PROVE  TypeOK'
    <2>1. records \in Nat
      BY FS_CardinalityType DEF records
    <2> QED BY <1>7, <2>1 DEF BeginSearch
  <1>8. ASSUME NEW r \in Request, BeginReset(r) PROVE TypeOK'
    BY <1>7, <1>8 DEF BeginReset, Stage
  <1>9. ASSUME NEW r \in Request, Thread(r) PROVE TypeOK'
    <2>1. CASE CheckDeletePending(r)
      BY <2>1 DEF CheckDeletePending, Step, Stage
    <2>2. CASE ResolveDeletePending(r)
      BY <2>2 DEF ResolveDeletePending, Step, Stage
    <2>3. CASE RequestDelete(r)
      BY <2>3 DEF RequestDelete, Step, Stage
    <2>4. CASE CheckNotePending(r)
      BY <2>4 DEF CheckNotePending, Step, Stage
    <2>5. CASE HoldNote(r)
      BY <2>5, RequestAsks DEF HoldNote, Step, Raise, Stage
    <2>6. CASE ResolveNote(r)
      BY <2>6 DEF ResolveNote, Step, Stage
    <2>7. CASE Normal(r)
      BY <2>7 DEF Normal, Step, Stage
    <2>8. CASE SearchConflicts(r) \/ SearchAliases(r) \/ SearchWipe(r)
      BY <2>8, <1>7 DEF SearchConflicts, SearchAliases, SearchWipe, Stage
    <2>9. ASSUME NEW from, SearchRaises(r, from) PROVE TypeOK'
      BY <2>9 DEF SearchRaises, Raise, Stage
    <2>10. CASE FindConflicts(r)
      <3>1. PICK f \in SUBSET keys : found' = [found EXCEPT ![r] = f]
        <4>1. PICK c \in SUBSET live :
                found' = [found EXCEPT ![r] = {k \in c : Said(k) = opposite(Current(r))}]
          BY <2>10 DEF FindConflicts, Cut
        <4> QED BY <4>1 DEF live
      <3> QED BY <2>10, <3>1 DEF FindConflicts, EndSearch, Step, Stage
    <2>11. CASE ResolveConflicts(r)
      BY <2>11 DEF ResolveConflicts, Step, Stage
    <2>12. CASE CheckAliases(r)
      BY <2>12 DEF CheckAliases, EndSearch, Step, Stage
    <2>13. CASE StoreFact(r)
      <3>1. applied[r] < Len(B(r)) /\ Len(B(r)) \in Nat
        BY <2>13, RequestAsks DEF StoreFact, Step, Settled, Writing
      <3>2. keys' = stored'
        BY <2>13, StoredKeys DEF StoreFact, stored
      <3> QED BY <2>13, <3>1, <3>2 DEF StoreFact, Step, Stage
    <2>14. CASE FindRecords(r)
      BY <2>14 DEF FindRecords, EndSearch, Step, Stage, Cut, live
    <2>15. CASE DeleteRecords(r)
      BY <2>15 DEF DeleteRecords, Step, Stage
    <2>16. CASE Reset(r)
      BY <2>16, RequestAsks DEF Reset, Stage, Cut, live
    <2>17. CASE Record(r)
      <3>1. PICK to \in {"return", "capture"} : Recorded(r, pc[r], to)
        BY <2>17 DEF Record, Recorded
      <3>2. turns' \in [Session -> Nat]
        BY <3>1, RequestAsks DEF Recorded
      <3> QED BY <3>1, <3>2 DEF Recorded, Stage
    <2>18. CASE CapturePending(r)
      BY <2>18, RequestAsks DEF CapturePending, Step, Stage
    <2> QED BY <1>9, <2>1, <2>2, <2>3, <2>4, <2>5, <2>6, <2>7, <2>8, <2>9, <2>10, <2>11,
               <2>12, <2>13, <2>14, <2>15, <2>16, <2>17, <2>18 DEF Thread
  <1> QED BY <1>1, <1>2, <1>3, <1>5, <1>6, <1>8, <1>9 DEF Next

-----------------------------------------------------------------------------
(* Most steps only move their request: they touch neither the store nor    *)
(* the transcript.                                                         *)
shared == <<transcript, req, keys, deleted, notes, applied, found, wiped, resets>>

Quiet(r) ==
    /\ UNCHANGED shared
    /\ pc[r] \notin {"answered", "failed"}
    /\ \E to \in Stage :
          /\ pc' = [pc EXCEPT ![r] = to]
          /\ to \notin {"deleting", "resolving"}
          /\ pc[r] \in Ended => to \in Ended
          /\ pc[r] \in Writing => to \in Writing \cup {"failed"}
          /\ to \in Writing => pc[r] \in Writing \/ (pc[r] = "normal" /\ M(r) = "fact")

Writes(r) ==
    \/ Admit(r) \/ Answer(r) \/ ResolveNote(r)
    \/ FindConflicts(r) \/ ResolveConflicts(r) \/ StoreFact(r)
    \/ FindRecords(r) \/ DeleteRecords(r) \/ Reset(r)

LEMMA StepKinds ==
    ASSUME TypeOK, [Next]_vars
    PROVE  \/ UNCHANGED shared /\ UNCHANGED pc
           \/ \E r \in Request : Quiet(r) \/ Writes(r)
  <1> USE DEF TypeOK, loop, memory, locals, history, Goto, shared, Ended, Writing, Stage
  <1>1. CASE UNCHANGED vars
    BY <1>1 DEF vars
  <1>2. ASSUME NEW s \in Session, NEW p \in Project, CreateSession(s, p)
        PROVE  UNCHANGED shared /\ UNCHANGED pc
    BY <1>2 DEF CreateSession
  <1>3. ASSUME NEW r \in Request, Reject(r) PROVE Quiet(r)
    BY <1>3 DEF Reject, Quiet
  <1>4. ASSUME NEW r \in Request, BeginReset(r) PROVE Quiet(r)
    BY <1>4 DEF BeginReset, BeginSearch, Quiet
  <1>5. ASSUME NEW r \in Request, Thread(r) PROVE Quiet(r) \/ Writes(r)
    <2>1. CASE CheckDeletePending(r)
      BY <2>1 DEF CheckDeletePending, Step, Quiet
    <2>2. CASE ResolveDeletePending(r)
      BY <2>2 DEF ResolveDeletePending, Step, Quiet
    <2>3. CASE RequestDelete(r)
      BY <2>3 DEF RequestDelete, Step, Quiet
    <2>4. CASE CheckNotePending(r)
      BY <2>4 DEF CheckNotePending, Step, Quiet
    <2>5. CASE HoldNote(r)
      BY <2>5 DEF HoldNote, Step, Raise, Quiet
    <2>7. CASE Normal(r)
      BY <2>7 DEF Normal, Step, Quiet
    <2>8. CASE SearchConflicts(r) \/ SearchAliases(r) \/ SearchWipe(r)
      BY <2>8 DEF SearchConflicts, SearchAliases, SearchWipe, BeginSearch, Quiet
    <2>9. ASSUME NEW from \in Searching, SearchRaises(r, from)
          PROVE  Quiet(r)
      BY <2>9 DEF SearchRaises, Raise, Quiet, Searching
    <2>12. CASE CheckAliases(r)
      BY <2>12 DEF CheckAliases, EndSearch, Step, Quiet
    <2>14. CASE Record(r)
      BY <2>14 DEF Record, Recorded, Quiet
    <2>15. CASE CapturePending(r)
      BY <2>15 DEF CapturePending, Step, Quiet
    <2> QED BY <1>5, <2>1, <2>2, <2>3, <2>4, <2>5, <2>7, <2>8, <2>9, <2>12, <2>14, <2>15
            DEF Thread, Writes
  <1> QED BY <1>1, <1>2, <1>3, <1>4, <1>5 DEF Next, Writes

LEMMA StoreKept ==
    WebInv /\ [Next]_vars =>
        IsFiniteSet(keys)' /\ IsFiniteSet(notes)' /\ Settled' /\ keys \subseteq keys'
  <1> SUFFICES ASSUME WebInv, [Next]_vars
               PROVE  IsFiniteSet(keys)' /\ IsFiniteSet(notes)' /\ Settled' /\ keys \subseteq keys'
    OBVIOUS
  <1> DEFINE Kept == IsFiniteSet(keys)' /\ IsFiniteSet(notes)' /\ Settled' /\ keys \subseteq keys'
  <1> USE DEF WebInv, Settled, memory, locals, history, Goto, Step, Ended, Writing, M, B
  <1>0. /\ TypeOK /\ pc \in [Request -> Stage] /\ applied \in [Request -> Nat]
        /\ notes \subseteq Request /\ wiped \subseteq Request
        /\ \A r \in Request : M(r) = "fact" => 0 < Len(B(r))
    BY RequestAsks DEF TypeOK
  <1> USE <1>0
  <1>1. CASE UNCHANGED shared /\ UNCHANGED pc
    BY <1>1 DEF shared
  <1>2. ASSUME NEW r \in Request, Quiet(r) PROVE Kept
    <2>1. UNCHANGED shared
      BY <1>2 DEF Quiet
    <2>2. PICK to \in Stage :
            /\ pc' = [pc EXCEPT ![r] = to]
            /\ pc[r] \in Ended => to \in Ended
            /\ pc[r] \in Writing => to \in Writing \cup {"failed"}
            /\ to \in Writing => pc[r] \in Writing \/ (pc[r] = "normal" /\ M(r) = "fact")
      BY <1>2 DEF Quiet
    <2>3. pc[r] \notin {"answered", "failed"}
      BY <1>2 DEF Quiet
    <2>4. pc[r] = "normal" => applied[r] = 0
      OBVIOUS
    <2> QED BY <2>1, <2>2, <2>3, <2>4 DEF shared
  <1>3. ASSUME NEW r \in Request, Admit(r) \/ Answer(r) PROVE Kept
    BY <1>3 DEF Admit, Answer
  <1>4. ASSUME NEW r \in Request, ResolveNote(r) PROVE Kept
    <2>1. IsFiniteSet(notes \cup {r})
      BY FS_AddElement
    <2> QED BY <1>4, <2>1 DEF ResolveNote
  <1>5. ASSUME NEW r \in Request, StoreFact(r) PROVE Kept
    <2>1. IsFiniteSet(keys \cup {<<r, applied[r] + 1>>})
      BY FS_AddElement
    <2>2. applied[r] < Len(B(r)) /\ Len(B(r)) \in Nat
      BY <1>5, RequestAsks DEF StoreFact
    <2> QED BY <1>5, <2>1, <2>2 DEF StoreFact
  <1>6. ASSUME NEW r \in Request, FindConflicts(r) PROVE Kept
    BY <1>6 DEF FindConflicts, EndSearch
  <1>7. ASSUME NEW r \in Request, ResolveConflicts(r) PROVE Kept
    BY <1>7 DEF ResolveConflicts
  <1>8. ASSUME NEW r \in Request, FindRecords(r) PROVE Kept
    BY <1>8 DEF FindRecords, EndSearch
  <1>9. ASSUME NEW r \in Request, DeleteRecords(r) PROVE Kept
    BY <1>9 DEF DeleteRecords
  <1>10. ASSUME NEW r \in Request, Reset(r) PROVE Kept
    BY <1>10 DEF Reset
  <1> QED BY <1>1, <1>2, <1>3, <1>4, <1>5, <1>6, <1>7, <1>8, <1>9, <1>10, StepKinds DEF Writes

LEMMA AnswersKept == WebInv /\ [Next]_vars => AnswersSaid'
  <1> SUFFICES ASSUME WebInv, [Next]_vars PROVE AnswersSaid'
    OBVIOUS
  <1> USE DEF WebInv, TypeOK, AnswersSaid, Goto
  <1>1. CASE UNCHANGED shared /\ UNCHANGED pc
    BY <1>1 DEF shared
  <1>2. ASSUME NEW r \in Request, NEW to, pc' = [pc EXCEPT ![r] = to], pc[r] # "answered",
               UNCHANGED transcript
        PROVE  AnswersSaid'
    BY <1>2, SMTT(30)
  <1>3. ASSUME NEW r \in Request, Admit(r) PROVE AnswersSaid'
    <2>1. S(r) \in Session
      BY RequestAsks
    <2>2. transcript' = [transcript EXCEPT ![S(r)] =
                            Append(transcript[S(r)], [role |-> "user", request |-> r])]
      BY <1>3 DEF Admit, Say
    <2>3. pc' = [pc EXCEPT ![r] = "chain"] /\ pc[r] = "new"
      BY <1>3 DEF Admit
    <2>4. ASSUME NEW s \in Session, NEW i \in DOMAIN transcript'[s],
                 transcript'[s][i].role = "assistant"
          PROVE  i \in DOMAIN transcript[s] /\ transcript'[s][i] = transcript[s][i]
      <3>1. transcript[s] \in Seq([role : {"user", "assistant"}, request : Request])
        OBVIOUS
      <3>2. CASE s # S(r)
        BY <2>1, <2>2, <2>4, <3>2
      <3>3. CASE s = S(r)
        <4>1. transcript'[s] = Append(transcript[s], [role |-> "user", request |-> r])
          BY <2>1, <2>2, <3>3
        <4>2. i # Len(transcript[s]) + 1
          BY <2>4, <3>1, <4>1
        <4> QED BY <2>4, <3>1, <4>1, <4>2
      <3> QED BY <3>2, <3>3
    <2>5. ASSUME NEW s \in Session, NEW i \in DOMAIN transcript'[s],
                 transcript'[s][i].role = "assistant"
          PROVE  pc'[transcript'[s][i].request] = "answered"
      <3>1. i \in DOMAIN transcript[s] /\ transcript'[s][i] = transcript[s][i]
        BY <2>4, <2>5
      <3>2. pc[transcript[s][i].request] = "answered"
        BY <2>5, <3>1
      <3>3. transcript[s][i].request \in Request
        <4> DEFINE Line == [role : {"user", "assistant"}, request : Request]
                   l == transcript[s]
        <4>1. l \in Seq(Line) /\ i \in DOMAIN l
          BY <3>1
        <4> HIDE DEF Line, l
        <4>2. l[i] \in Line
          BY <4>1
        <4> QED BY <4>2 DEF Line, l
      <3> QED BY <2>3, <3>1, <3>2, <3>3
    <2> QED BY <2>5
  <1>4. ASSUME NEW r \in Request, Answer(r) PROVE AnswersSaid'
    <2>1. S(r) \in Session
      BY RequestAsks
    <2>2. transcript' = [transcript EXCEPT ![S(r)] =
                            Append(transcript[S(r)], [role |-> "assistant", request |-> r])]
      BY <1>4 DEF Answer, Say
    <2> QED BY <1>4, <2>1, <2>2, SMTT(30) DEF Answer
  <1>5. ASSUME NEW r \in Request, Writes(r) PROVE AnswersSaid'
    BY <1>2, <1>3, <1>4, <1>5 DEF Writes, ResolveNote, FindConflicts, ResolveConflicts,
        StoreFact, FindRecords, EndSearch, DeleteRecords, Reset, Step, loop
  <1>6. ASSUME NEW r \in Request, Quiet(r) PROVE AnswersSaid'
    BY <1>2, <1>6 DEF Quiet, shared
  <1> QED BY <1>1, <1>5, <1>6, StepKinds

-----------------------------------------------------------------------------
(* The transcripts only grow: a new message comes after all others.        *)

LEMMA BeforeKept ==
    ASSUME WebInv, [Next]_vars, NEW r \in Request, NEW k, ~Admit(r),
           Before(S(r), "assistant", k, "user", r)'
    PROVE  Before(S(r), "assistant", k, "user", r)
  <1> USE DEF WebInv, TypeOK
  <1>1. req' = req /\ S(r) \in Session
    <2>1. req' = req
      BY StepKinds DEF shared, Quiet, Writes, Admit, Answer, ResolveNote, FindConflicts,
         ResolveConflicts, StoreFact, FindRecords, EndSearch, DeleteRecords, Reset, Step
    <2> QED BY <2>1, RequestAsks
  <1>2. CASE transcript' = transcript
    BY <1>1, <1>2 DEF Before, Position, S
  <1>3. ASSUME NEW q \in Request, NEW role \in {"user", "assistant"}, Say(S(q), role, q),
               <<role, q>> # <<"user", r>>
        PROVE  Before(S(r), "assistant", k, "user", r)
    <2> DEFINE s == S(r)
               l == transcript[S(r)]
               m == [role |-> role, request |-> q]
    <2>1. transcript'[s] = l \/ transcript'[s] = Append(l, m)
      BY <1>1, <1>3 DEF Say
    <2>2. l \in Seq([role : {"user", "assistant"}, request : Request])
      BY <1>1
    <2>3. PICK i \in DOMAIN transcript'[s], j \in DOMAIN transcript'[s] :
            /\ transcript'[s][i] = [role |-> "assistant", request |-> k]
            /\ transcript'[s][j] = [role |-> "user", request |-> r]
            /\ i < j
      BY <1>1 DEF Before, Position, S
    <2>4. m # [role |-> "user", request |-> r]
      BY <1>3
    <2> DEFINE t == transcript'[s]
    <2>5. (t = l \/ t = Append(l, m)) /\ i \in DOMAIN t /\ j \in DOMAIN t /\ i < j
          /\ t[j] # m
      BY <2>1, <2>3, <2>4
    <2>6. m \in [role : {"user", "assistant"}, request : Request]
      BY <1>3
    <2> HIDE DEF l, m, s, t
    <2>7. /\ i \in DOMAIN l /\ j \in DOMAIN l
          /\ t[i] = l[i] /\ t[j] = l[j]
      <3>1. CASE t = l
        BY <2>5, <3>1
      <3>2. CASE t = Append(l, m)
        <4>1. /\ Len(l) \in Nat /\ DOMAIN l = 1 .. Len(l)
              /\ DOMAIN t = 1 .. (Len(l) + 1) /\ t[Len(l) + 1] = m
              /\ \A n \in 1 .. Len(l) : t[n] = l[n]
          BY <2>2, <2>6, <3>2
        <4>2. j # Len(l) + 1
          BY <2>5, <4>1
        <4> QED BY <2>5, <4>1, <4>2
      <3> QED BY <2>5, <3>1, <3>2
    <2> USE DEF s, t
    <2> QED BY <2>3, <2>7 DEF Before, Position, l
  <1>4. CASE \E q \in Request : Admit(q) \/ Answer(q)
    BY <1>3, <1>4 DEF Admit, Answer
  <1>5. transcript' = transcript \/ \E q \in Request : Admit(q) \/ Answer(q)
    BY StepKinds DEF shared, Quiet, Writes, ResolveNote, FindConflicts, ResolveConflicts,
       StoreFact, FindRecords, EndSearch, DeleteRecords, Reset, Step, loop
  <1> QED BY <1>2, <1>4, <1>5

(* A fact acknowledged in the transcript was written before.               *)
LEMMA AcknowledgedFixed ==
    ASSUME WebInv, [Next]_vars, NEW r \in Request, ~Admit(r)
    PROVE  Acknowledged(r)' \subseteq Acknowledged(r)
  <1> SUFFICES ASSUME NEW k \in Acknowledged(r)' PROVE k \in Acknowledged(r)
    OBVIOUS
  <1>0. k \in keys' /\ Before(S(r), "assistant", k[1], "user", r)'
    BY DEF Acknowledged
  <1>1. Before(S(r), "assistant", k[1], "user", r)
    BY <1>0, BeforeKept
  <1>2. k \in keys' /\ pc[k[1]] = "answered"
    <2>1. S(r) \in Session
      BY RequestAsks DEF WebInv
    <2> QED BY <1>0, <1>1, <2>1 DEF Before, Position, WebInv, AnswersSaid
  <1>3. keys' = keys \/ \E q \in Request : pc[q] = "storing" /\ keys' = keys \cup {<<q, applied[q] + 1>>}
    BY StepKinds DEF shared, Quiet, Writes, ResolveNote, FindConflicts, ResolveConflicts,
       StoreFact, FindRecords, EndSearch, DeleteRecords, Reset, Step, Goto, Admit, Answer,
       memory, WebInv
  <1>4. k \in keys
    BY <1>2, <1>3
  <1> QED BY <1>1, <1>4 DEF Acknowledged

(* A search that is not cut returns all there is.                          *)
LEMMA WholeCut ==
    ASSUME IsFiniteSet(keys), Cardinality(keys) <= limit, NEW c \in Cut(live, limit)
    PROVE  c = live
  <1>1. IsFiniteSet(live) /\ Cardinality(live) <= Cardinality(keys)
    BY FS_Subset DEF live
  <1>2. Cardinality(live) \in Nat /\ Cardinality(keys) \in Nat
    BY <1>1, FS_CardinalityType
  <1>3. c \subseteq live /\ Cardinality(c) = Cardinality(live)
    BY <1>1, <1>2, LimitAssumption DEF Cut
  <1> QED BY <1>1, <1>3, FS_Subset

LEMMA ForgottenKept == WebInv /\ [Next]_vars => Forgotten'
  <1> SUFFICES ASSUME WebInv, [Next]_vars, Cardinality(keys') <= limit, NEW r \in Request
               PROVE  /\ pc'[r] = "deleting" => Acknowledged(r)' \subseteq found'[r] \cup deleted'
                      /\ r \in wiped' => Acknowledged(r)' \subseteq deleted'
    BY DEF Forgotten
  <1> DEFINE Kept == /\ pc'[r] = "deleting" => Acknowledged(r)' \subseteq found'[r] \cup deleted'
                     /\ r \in wiped' => Acknowledged(r)' \subseteq deleted'
  <1>1. Cardinality(keys) <= limit
    <2>1. IsFiniteSet(keys') /\ keys \subseteq keys'
      BY StoreKept
    <2>2. IsFiniteSet(keys) /\ Cardinality(keys) <= Cardinality(keys')
      BY <2>1, FS_Subset
    <2> QED BY <2>1, <2>2, FS_CardinalityType, LimitAssumption
  <1>2. /\ pc[r] = "deleting" => Acknowledged(r) \subseteq found[r] \cup deleted
        /\ r \in wiped => Acknowledged(r) \subseteq deleted
    BY <1>1 DEF WebInv, Forgotten
  <1> USE DEF TypeOK, Goto, Step
  <1>3. CASE Admit(r)
    <2>1. r \notin wiped
      BY <1>3 DEF WebInv, Settled, Admit, Ended
    <2> QED BY <1>3, <2>1 DEF WebInv, Admit, history
  <1>4. CASE ~Admit(r)
    <2>1. Acknowledged(r)' \subseteq Acknowledged(r)
      BY <1>4, AcknowledgedFixed
    <2> HIDE DEF Acknowledged
    <2> USE <1>2, <2>1 DEF WebInv
    <2>2. CASE UNCHANGED shared /\ UNCHANGED pc
      BY <2>2 DEF shared
    <2>3. ASSUME NEW q \in Request, Quiet(q) PROVE Kept
      BY <2>3 DEF Quiet, shared
    <2>4. ASSUME NEW q \in Request,
                 \/ Admit(q) \/ Answer(q) \/ ResolveNote(q) \/ FindConflicts(q)
                 \/ ResolveConflicts(q) \/ StoreFact(q) \/ Reset(q)
          PROVE  Kept
      BY <2>4 DEF Admit, Answer, ResolveNote, FindConflicts, EndSearch, ResolveConflicts,
         StoreFact, Reset, memory, locals, history
    <2>5. ASSUME NEW q \in Request, FindRecords(q) PROVE Kept
      <3>1. PICK c \in Cut(live, limit) : found' = [found EXCEPT ![q] = c]
        BY <2>5 DEF FindRecords
      <3>2. c = live
        BY <1>1, <3>1, WholeCut
      <3>3. Acknowledged(r) \subseteq live \cup deleted
        BY DEF Acknowledged, live
      <3> QED BY <2>5, <3>1, <3>2, <3>3 DEF FindRecords, EndSearch, memory
    <2>6. ASSUME NEW q \in Request, DeleteRecords(q) PROVE Kept
      BY <2>6 DEF DeleteRecords
    <2> QED BY <2>2, <2>3, <2>4, <2>5, <2>6, StepKinds DEF Writes
  <1> QED BY <1>3, <1>4

LEMMA NextInv == WebInv /\ [Next]_vars => WebInv'
  BY TypesKept, StoreKept, AnswersKept, ForgottenKept DEF WebInv

-----------------------------------------------------------------------------
(* The results *)

(* Every reachable state of the web API is of its types.                   *)
THEOREM WebTyped == Spec => []TypeOK
  <1>1. WebInv => TypeOK
    BY DEF WebInv
  <1> QED BY <1>1, InitInv, NextInv, PTL DEF Spec

(* Once the user is told that the memory is wiped, no fact is left that    *)
(* the session had acknowledged before the confirmation was sent: for      *)
(* every number of concurrent threads, as long as the store holds no more  *)
(* than delete_all_profile_memory's search returns.                        *)
THEOREM WebWipeForgets == Spec => []WipeForgetsAcknowledged
  <1>1. WebInv => WipeForgetsAcknowledged
    BY DEF WebInv, TypeOK, Forgotten, Acknowledged, WipeForgetsAcknowledged, Survivors, live
  <1> QED BY <1>1, InitInv, NextInv, PTL DEF Spec

(* A request that ends in a runtime error has noted and wiped nothing, and *)
(* has stored a proper prefix of its batch: for a message of one statement *)
(* send_chat's RUNTIME_ERROR means that nothing was stored, for a batch    *)
(* (apply_memory_operations) it does not.                                  *)
THEOREM WebFailedLeavesPrefix == Spec => []FailedLeavesPrefix
  <1>1. WebInv => FailedLeavesPrefix
    <2> SUFFICES ASSUME WebInv, NEW r \in Request, pc[r] = "failed"
                 PROVE  /\ r \notin notes \cup wiped
                        /\ \A k \in keys : k[1] = r =>
                              k[2] < Len(B(r)) /\ \A n \in 1..k[2] : <<r, n>> \in keys
      BY DEF FailedLeavesPrefix
    <2> USE DEF WebInv
    <2>1. r \notin notes \cup wiped
      BY DEF Settled, Ended
    <2>2. ASSUME NEW k \in keys, k[1] = r
          PROVE  k[2] < Len(B(r)) /\ \A n \in 1..k[2] : <<r, n>> \in keys
      <3>1. applied[r] \in Nat /\ k[2] \in 1 .. applied[r] /\ Len(B(r)) \in Nat
        BY <2>2, Keyed, RequestAsks DEF TypeOK
      <3>2. applied[r] < Len(B(r))
        BY <3>1 DEF Settled, Ended
      <3>3. \A n \in 1 .. applied[r] : <<r, n>> \in keys
        BY Keyed
      <3> QED BY <3>1, <3>2, <3>3
    <2> QED BY <2>1, <2>2
  <1> QED BY <1>1, InitInv, NextInv, PTL DEF Spec

-----------------------------------------------------------------------------
(* How a request moves                                                     *)

(* What a request says never changes; a turn that is recorded is answered  *)
(* next, an answer and an error are the end, and from the deletion of what *)
(* contradicts a statement a request only goes on to its being stored.     *)
Moves(q) ==
    /\ req' = req
    /\ pc[q] = "record" => pc'[q] \in {"record", "return"}
    /\ pc[q] \in {"return", "answered"} => pc'[q] \in {"return", "answered"}
    /\ pc[q] = "failed" => pc'[q] = "failed"
    /\ pc[q] # "storing" => applied'[q] = applied[q]
    /\ pc[q] = "storing" => applied'[q] = applied[q] + 1 \/ (pc'[q] = pc[q] /\ applied'[q] = applied[q])
    /\ pc[q] = "aliases" => pc'[q] \in {"aliases", "checking"}
    /\ pc[q] = "checking" => pc'[q] \in {"checking", "storing", "failed"}
    /\ pc'[q] = "checking" => pc[q] \in {"aliases", "checking"}
    /\ pc'[q] = "aliases" =>
          pc[q] = "aliases" \/ (pc[q] = "resolving" /\ Current(q).kind = "preference")

LEMMA RequestsMove ==
    ASSUME TypeOK, [Next]_vars, NEW q \in Request
    PROVE  Moves(q)
  <1> USE DEF TypeOK, Goto, Step, Raise, memory, Moves
  <1>1. CASE UNCHANGED vars
    BY <1>1 DEF vars
  <1>2. ASSUME NEW s \in Session, NEW p \in Project, CreateSession(s, p) PROVE Moves(q)
    BY <1>2 DEF CreateSession
  <1>3. ASSUME NEW r \in Request, Reject(r) \/ Admit(r) \/ BeginReset(r) \/ Answer(r)
        PROVE  Moves(q)
    BY <1>3 DEF Reject, Admit, BeginReset, BeginSearch, Answer
  <1>4. ASSUME NEW r \in Request, Thread(r) PROVE Moves(q)
    <2>1. CASE \/ CheckDeletePending(r) \/ ResolveDeletePending(r) \/ RequestDelete(r)
               \/ CheckNotePending(r)
      BY <2>1 DEF CheckDeletePending, ResolveDeletePending, RequestDelete, CheckNotePending
    <2>2. CASE HoldNote(r) \/ ResolveNote(r) \/ Normal(r)
      BY <2>2 DEF HoldNote, ResolveNote, Normal
    <2>3. CASE SearchConflicts(r) \/ SearchAliases(r) \/ SearchWipe(r)
      BY <2>3 DEF SearchConflicts, SearchAliases, SearchWipe, BeginSearch
    <2>4. ASSUME NEW from \in Searching, SearchRaises(r, from) PROVE Moves(q)
      BY <2>4 DEF SearchRaises, Searching
    <2>5. CASE FindConflicts(r) \/ CheckAliases(r) \/ FindRecords(r)
      BY <2>5 DEF FindConflicts, CheckAliases, FindRecords, EndSearch
    <2>6. CASE ResolveConflicts(r)
      BY <2>6 DEF ResolveConflicts
    <2>7. CASE StoreFact(r)
      BY <2>7 DEF StoreFact
    <2>8. CASE DeleteRecords(r) \/ Reset(r) \/ CapturePending(r)
      BY <2>8 DEF DeleteRecords, Reset, CapturePending
    <2>9. CASE Record(r)
      BY <2>9 DEF Record, Recorded
    <2> QED BY <1>4, <2>1, <2>2, <2>3, <2>4, <2>5, <2>6, <2>7, <2>8, <2>9 DEF Thread
  <1> QED BY <1>1, <1>2, <1>3, <1>4 DEF Next

-----------------------------------------------------------------------------
(* Why a fact is gone                                                      *)

(* What a thread is about to delete contradicts the statement it is at,    *)
(* and only a preference is followed by the search for aliases.            *)
Contradicted ==
    \A r \in Request :
        /\ pc[r] = "resolving" =>
              \A k \in found[r] : k \in keys /\ Said(k) = opposite(Current(r))
        /\ pc[r] \in {"aliases", "checking"} => Current(r).kind = "preference"

Cause(k) ==
    \/ S(k[1]) \in resets
    \/ \E r \in Request : \E i \in DOMAIN B(r) : B(r)[i] = opposite(Said(k)) /\ Superseding(r, i)

LEMMA StatementsAreStatements ==
    ASSUME TypeOK
    PROVE  /\ \A k \in keys : k[2] \in DOMAIN B(k[1]) /\ Said(k) \in Statement
           /\ \A r \in Request : applied[r] < Len(B(r)) =>
                 applied[r] + 1 \in DOMAIN B(r) /\ Current(r) \in Statement
  <1>1. ASSUME NEW r \in Request, NEW i \in 1 .. Len(B(r))
        PROVE  i \in DOMAIN B(r) /\ B(r)[i] \in Statement
    <2> DEFINE b == B(r)
    <2>1. b \in Seq(Statement) /\ i \in 1 .. Len(b)
      BY <1>1, RequestAsks
    <2> HIDE DEF b
    <2>2. i \in DOMAIN b /\ b[i] \in Statement
      BY <2>1
    <2> QED BY <2>2 DEF b
  <1>2. ASSUME NEW k \in keys PROVE k[1] \in Request /\ k[2] \in 1 .. Len(B(k[1]))
    <2>1. k[1] \in Request /\ k[2] \in 1 .. applied[k[1]]
      BY Keyed
    <2>2. applied[k[1]] \in Nat /\ applied[k[1]] <= Len(B(k[1])) /\ Len(B(k[1])) \in Nat
      BY <2>1, RequestAsks DEF TypeOK
    <2> QED BY <2>1, <2>2
  <1>3. ASSUME NEW r \in Request, applied[r] < Len(B(r)) PROVE applied[r] + 1 \in 1 .. Len(B(r))
    BY <1>3, RequestAsks DEF TypeOK
  <1> QED BY <1>1, <1>2, <1>3 DEF Said, Current

(* The opposite of the opposite of a statement is the statement.           *)
LEMMA OppositeTwice ==
    ASSUME NEW st \in Statement
    PROVE  opposite(opposite(st)) = st
  BY DEF Statement, opposite

(* What was said and which statement is next changes with no other step.   *)
LEMMA SaidKept ==
    ASSUME req' = req
    PROVE  /\ \A k : Said(k)' = Said(k)
           /\ \A r : S(r)' = S(r) /\ B(r)' = B(r) /\ M(r)' = M(r)
           /\ \A r : applied'[r] = applied[r] => Current(r)' = Current(r)
  BY DEF Said, S, B, M, Current

(* A statement that supersedes another goes on to do so.                   *)
LEMMA SupersedingKept ==
    ASSUME TypeOK, Contradicted, [Next]_vars, NEW r \in Request, NEW i \in DOMAIN B(r),
           Superseding(r, i)
    PROVE  Superseding(r, i)'
  <1>1. Moves(r) /\ B(r)' = B(r)
    BY RequestsMove, SaidKept DEF Moves
  <1>2. applied[r] \in Nat /\ i \in Nat
    BY RequestAsks DEF TypeOK
  <1>3. pc[r] = "checking" /\ i = applied[r] + 1 => B(r)[i].kind = "preference"
    BY DEF Contradicted, Current
  <1> HIDE DEF B
  <1> QED BY <1>1, <1>2, <1>3 DEF Superseding, Moves

LEMMA CauseKept ==
    ASSUME TypeOK, Contradicted, [Next]_vars, resets \subseteq resets', NEW k, Cause(k)
    PROVE  Cause(k)'
  <1>1. req' = req
    <2>1. CASE Request = {}
      BY <2>1, StepKinds DEF shared
    <2>2. ASSUME NEW q \in Request PROVE req' = req
      BY RequestsMove DEF Moves
    <2> QED BY <2>1, <2>2
  <1>2. /\ S(k[1])' = S(k[1]) /\ Said(k)' = Said(k)
        /\ \A r \in Request : B(r)' = B(r)
    BY <1>1, SaidKept
  <1>3. CASE S(k[1]) \in resets
    BY <1>2, <1>3 DEF Cause
  <1>4. ASSUME NEW r \in Request, NEW i \in DOMAIN B(r), B(r)[i] = opposite(Said(k)),
               Superseding(r, i)
        PROVE  Cause(k)'
    <2>1. Superseding(r, i)'
      BY <1>4, SupersedingKept
    <2>2. i \in DOMAIN B(r)' /\ B(r)'[i] = opposite(Said(k)')
      BY <1>2, <1>4
    <2>3. opposite(Said(k)') = opposite(Said(k))'
      BY DEF opposite
    <2> HIDE DEF S, B, Said, Superseding, opposite
    <2> QED BY <2>1, <2>2, <2>3 DEF Cause
  <1> QED BY <1>3, <1>4 DEF Cause

LEMMA ContradictedKept == WebInv /\ Contradicted /\ [Next]_vars => Contradicted'
  <1> SUFFICES ASSUME WebInv, Contradicted, [Next]_vars, NEW r \in Request
               PROVE  /\ pc'[r] = "resolving" =>
                            \A k \in found'[r] : k \in keys' /\ Said(k)' = opposite(Current(r))'
                      /\ pc'[r] \in {"aliases", "checking"} => Current(r).kind' = "preference"
    BY DEF Contradicted
  <1>1. TypeOK /\ Moves(r) /\ req' = req
    BY RequestsMove DEF WebInv, Moves
  <1>2. /\ \A k : Said(k)' = Said(k)
        /\ applied'[r] = applied[r] =>
              Current(r)' = Current(r) /\ opposite(Current(r))' = opposite(Current(r))
    BY <1>1, SaidKept DEF opposite
  <1>3. CASE pc'[r] \in {"aliases", "checking"}
    <2>1. applied'[r] = applied[r] /\ Current(r).kind = "preference"
      BY <1>1, <1>3 DEF Moves, Contradicted
    <2> QED BY <1>2, <1>3, <2>1
  <1>4. CASE pc'[r] = "resolving"
    <2>1. \/ pc[r] = "resolving" /\ found'[r] = found[r] /\ keys \subseteq keys'
          \/ FindConflicts(r)
      <3> USE DEF WebInv, TypeOK, Goto, Step, Raise, memory, locals
      <3>1. keys \subseteq keys'
        BY StoreKept
      <3>2. CASE UNCHANGED shared /\ UNCHANGED pc
        BY <1>4, <3>1, <3>2 DEF shared
      <3>3. ASSUME NEW q \in Request, Quiet(q) PROVE pc[r] = "resolving" /\ found'[r] = found[r]
        BY <1>4, <3>3 DEF Quiet, shared
      <3>4. ASSUME NEW q \in Request, Admit(q) \/ Answer(q) \/ ResolveNote(q)
            PROVE  pc[r] = "resolving" /\ found'[r] = found[r]
        BY <1>4, <3>4 DEF Admit, Answer, ResolveNote
      <3>5. ASSUME NEW q \in Request, ResolveConflicts(q) \/ StoreFact(q)
            PROVE  pc[r] = "resolving" /\ found'[r] = found[r]
        BY <1>4, <3>5 DEF ResolveConflicts, StoreFact
      <3>6. ASSUME NEW q \in Request, FindRecords(q) \/ DeleteRecords(q) \/ Reset(q)
            PROVE  pc[r] = "resolving" /\ found'[r] = found[r]
        BY <1>4, <3>6 DEF FindRecords, EndSearch, DeleteRecords, Reset
      <3>7. ASSUME NEW q \in Request, FindConflicts(q), q # r
            PROVE  pc[r] = "resolving" /\ found'[r] = found[r]
        BY <1>4, <3>7 DEF FindConflicts, EndSearch
      <3> QED BY <3>1, <3>2, <3>3, <3>4, <3>5, <3>6, <3>7, StepKinds DEF Writes
    <2>2. CASE pc[r] = "resolving" /\ found'[r] = found[r] /\ keys \subseteq keys'
      BY <1>1, <1>2, <1>4, <2>2 DEF Moves, Contradicted
    <2>3. CASE FindConflicts(r)
      <3>1. /\ keys' = keys /\ applied' = applied
            /\ \A k \in found'[r] : k \in keys /\ Said(k) = opposite(Current(r))
        BY <1>1, <2>3 DEF FindConflicts, EndSearch, Step, Cut, live, memory, TypeOK
      <3> QED BY <1>2, <1>4, <3>1
    <2> QED BY <2>1, <2>2, <2>3
  <1> QED BY <1>3, <1>4

(* A fact leaves the store by a reset of the session that wrote it         *)
(* (delete_profile_memory_for_session), because its opposite was stated in *)
(* some session (resolve_skill_conflicts, resolve_preference_conflicts) or *)
(* by a wipe, for any batches, limits and number of threads.               *)
THEOREM WebLossHasACause == Spec => []LossHasACause
  <1> DEFINE Inv == Contradicted /\ (wiped = {} => \A k \in deleted : Cause(k))
  <1>1. Init => Inv
    BY DEF Init, Contradicted
  <1>2. WebInv /\ Inv /\ [Next]_vars => Inv'
    <2> SUFFICES ASSUME WebInv, Inv, [Next]_vars PROVE Inv'
      OBVIOUS
    <2>1. Contradicted'
      BY ContradictedKept
    <2>2. ASSUME wiped' = {}, NEW k \in deleted' PROVE Cause(k)'
      <3> USE DEF WebInv, TypeOK, Goto, Step, memory, history
      <3>1. \/ wiped' = wiped /\ deleted' = deleted /\ resets' = resets
            \/ \E r \in Request : ResolveConflicts(r) \/ Reset(r)
        BY <2>2, StepKinds DEF shared, Quiet, Writes, Admit, Answer, ResolveNote, FindConflicts,
           StoreFact, FindRecords, EndSearch, DeleteRecords
      <3>2. resets \subseteq resets' /\ wiped = {}
        BY <2>2, <3>1 DEF ResolveConflicts, Reset
      <3>3. CASE k \in deleted
        <4>1. Cause(k)
          BY <3>2, <3>3
        <4> QED BY <3>2, <4>1, CauseKept
      <3>4. ASSUME NEW r \in Request, Reset(r), k \notin deleted PROVE Cause(k)'
        BY <2>2, <3>4 DEF Reset, Cause, S
      <3>5. ASSUME NEW r \in Request, ResolveConflicts(r), k \notin deleted PROVE Cause(k)'
        <4>1. k \in found[r] /\ pc[r] = "resolving"
          BY <2>2, <3>5 DEF ResolveConflicts
        <4>2. k \in keys /\ Said(k) = opposite(Current(r))
          BY <4>1 DEF Contradicted
        <4>3. applied[r] < Len(B(r))
          BY <4>1 DEF Settled, Writing
        <4>4. applied[r] + 1 \in DOMAIN B(r) /\ Current(r) \in Statement
          BY <4>3, StatementsAreStatements
        <4>5. B(r)[applied[r] + 1] = opposite(Said(k))
          BY <4>2, <4>4, OppositeTwice DEF Current
        <4>6. /\ req' = req /\ applied' = applied
              /\ pc'[r] \in {"aliases", "storing"}
          BY <3>5 DEF ResolveConflicts
        <4>7. Superseding(r, applied[r] + 1)'
          BY <4>6 DEF Superseding
        <4>8. Said(k)' = Said(k) /\ B(r)' = B(r)
          BY <4>6, SaidKept
        <4>9. applied[r] + 1 \in DOMAIN B(r)' /\ B(r)'[applied[r] + 1] = opposite(Said(k))'
          BY <4>4, <4>5, <4>8 DEF opposite
        <4> HIDE DEF B, Said, opposite, Superseding
        <4> QED BY <4>6, <4>7, <4>9 DEF Cause
      <3> QED BY <3>1, <3>3, <3>4, <3>5
    <2> HIDE DEF Contradicted, Cause
    <2> QED BY <2>1, <2>2
  <1>3. Inv => LossHasACause
    BY DEF LossHasACause, Cause
  <1> QED BY <1>1, <1>2, <1>3, InitInv, NextInv, PTL DEF Spec

-----------------------------------------------------------------------------
(* Requests go forward                                                     *)

(* A step moves one request, and forward.                                  *)
Forward(r) ==
    /\ Distance(r) < Distance(r)'
    /\ \A q \in Request \ {r} : pc'[q] = pc[q] /\ applied'[q] = applied[q]

LEMMA PlaceBound == \A stage \in Stage : Place(stage) \in 0 .. 16
  BY DEF Stage, Place

LEMMA GotoForward ==
    ASSUME TypeOK, NEW r \in Request, NEW from \in Stage, NEW to \in Stage, Goto(r, from, to),
           applied' = applied, Place(from) < Place(to)
    PROVE  Forward(r)
  <1>1. Place(from) \in 0 .. 16 /\ Place(to) \in 0 .. 16
    BY PlaceBound
  <1>2. pc[r] = from /\ pc'[r] = to /\ \A q \in Request \ {r} : pc'[q] = pc[q]
    BY DEF TypeOK, Goto
  <1>3. applied[r] \in Nat /\ \A q \in Request : applied'[q] = applied[q]
    BY DEF TypeOK
  <1>4. Place(from) + 6 * applied[r] < Place(to) + 6 * applied[r]
    BY <1>1, <1>3
  <1> HIDE DEF Place
  <1> QED BY <1>2, <1>3, <1>4 DEF Forward, Distance

LEMMA ThreadForward ==
    ASSUME TypeOK, NEW r \in Request, Thread(r)
    PROVE  Forward(r)
  <1> USE DEF Step, Raise, Stage, memory
  <1>1. CASE CheckDeletePending(r)
    <2>1. PICK to \in {"delete_pending", "request"} : Goto(r, "chain", to)
      BY <1>1 DEF CheckDeletePending
    <2> QED BY <1>1, <2>1, GotoForward DEF Place, CheckDeletePending
  <1>2. CASE ResolveDeletePending(r)
    <2>1. PICK to \in {"wipe", "record", "request"} : Goto(r, "delete_pending", to)
      BY <1>2 DEF ResolveDeletePending
    <2> QED BY <1>2, <2>1, GotoForward DEF Place, ResolveDeletePending
  <1>3. CASE RequestDelete(r)
    BY <1>3, GotoForward DEF RequestDelete, Place
  <1>4. CASE CheckNotePending(r)
    <2>1. PICK to \in {"note_pending", "normal"} : Goto(r, "request", to)
      BY <1>4 DEF CheckNotePending
    <2> QED BY <1>4, <2>1, GotoForward DEF Place, CheckNotePending
  <1>5. CASE HoldNote(r)
    <2>1. PICK to \in {"note_held", "failed"} : Goto(r, "note_pending", to)
      BY <1>5 DEF HoldNote
    <2> QED BY <1>5, <2>1, GotoForward DEF Place, HoldNote
  <1>6. CASE ResolveNote(r)
    <2>1. PICK to \in {"normal", "record"} : Goto(r, "note_held", to)
      BY <1>6 DEF ResolveNote
    <2> QED BY <1>6, <2>1, GotoForward DEF Place, ResolveNote
  <1>7. CASE Normal(r)
    <2>1. PICK to \in {"write", "record_note", "record"} : Goto(r, "normal", to)
      BY <1>7 DEF Normal
    <2> QED BY <1>7, <2>1, GotoForward DEF Place, Normal
  <1>8. CASE SearchConflicts(r) \/ SearchAliases(r) \/ SearchWipe(r)
    <2>1. /\ applied' = applied
          /\ \/ Goto(r, "write", "searching") \/ Goto(r, "aliases", "checking")
             \/ Goto(r, "wipe", "scanning")
      BY <1>8 DEF SearchConflicts, SearchAliases, SearchWipe, BeginSearch
    <2> QED BY <2>1, GotoForward DEF Place
  <1>9. ASSUME NEW from \in Searching, SearchRaises(r, from)
        PROVE  Forward(r)
    BY <1>9, GotoForward DEF SearchRaises, Place, Searching
  <1>10. CASE FindConflicts(r) \/ CheckAliases(r) \/ FindRecords(r)
    <2>1. /\ applied' = applied
          /\ \/ Goto(r, "searching", "resolving") \/ Goto(r, "checking", "storing")
             \/ Goto(r, "scanning", "deleting")
      BY <1>10 DEF FindConflicts, CheckAliases, FindRecords, EndSearch
    <2> QED BY <2>1, GotoForward DEF Place
  <1>11. CASE ResolveConflicts(r)
    <2>1. PICK to \in {"aliases", "storing"} : Goto(r, "resolving", to)
      BY <1>11 DEF ResolveConflicts
    <2> QED BY <1>11, <2>1, GotoForward DEF Place, ResolveConflicts
  <1>12. CASE StoreFact(r)
    <2>1. PICK to \in {"record", "write"} : Goto(r, "storing", to)
      BY <1>12 DEF StoreFact
    <2>2. pc[r] = "storing" /\ pc'[r] = to /\ \A q \in Request \ {r} : pc'[q] = pc[q]
      BY <2>1 DEF TypeOK, Goto
    <2>3. /\ applied[r] \in Nat /\ applied'[r] = applied[r] + 1
          /\ \A q \in Request \ {r} : applied'[q] = applied[q]
      BY <1>12 DEF StoreFact, TypeOK
    <2>4. Place("storing") = 12 /\ Place(to) \in {7, 13}
      BY DEF Place
    <2> QED BY <2>2, <2>3, <2>4 DEF Forward, Distance
  <1>13. CASE DeleteRecords(r)
    BY <1>13, GotoForward DEF DeleteRecords, Place
  <1>14. CASE Reset(r)
    BY <1>14, GotoForward DEF Reset, Place
  <1>15. CASE Record(r)
    <2>1. /\ applied' = applied
          /\ Goto(r, "record", "return") \/ Goto(r, "record_note", "capture")
      BY <1>15 DEF Record, Recorded
    <2> QED BY <2>1, GotoForward DEF Place
  <1>16. CASE CapturePending(r)
    BY <1>16, GotoForward DEF CapturePending, Place
  <1> QED BY <1>1, <1>2, <1>3, <1>4, <1>5, <1>6, <1>7, <1>8, <1>9, <1>10, <1>11, <1>12,
             <1>13, <1>14, <1>15, <1>16 DEF Thread

LEMMA LoopForward ==
    ASSUME TypeOK, NEW r \in Request, Reject(r) \/ Admit(r) \/ BeginReset(r) \/ Answer(r)
    PROVE  Forward(r)
  <1>1. PICK from \in {"new", "return"}, to \in {"rejected", "chain", "resetting", "answered"} :
          Goto(r, from, to) /\ applied' = applied /\ (from = "new" \/ to = "answered")
    BY DEF Reject, Admit, BeginReset, BeginSearch, Answer, memory
  <1> QED BY <1>1, GotoForward DEF Stage, Place

(* Whatever the other threads do, a step takes one request further or      *)
(* creates a session, and no request is further than 16 steps and 6 for    *)
(* each statement of its batch: with finitely many requests and sessions   *)
(* there are finitely many steps (send_chat, handle_turn).                 *)
THEOREM WebRequestsAdvance == Spec => RequestsAdvance
  <1> DEFINE Bounded == \A r \in Request : Distance(r) \in 0..(16 + 6 * Len(B(r)))
             A == \/ /\ UNCHANGED <<pc, applied, transcript>>
                     /\ \E s \in Session : project[s] = NoProject /\ project'[s] # NoProject
                  \/ \E r \in Request : /\ Distance(r) < Distance(r)'
                                        /\ \A q \in Request \ {r} : UNCHANGED <<pc[q], applied[q]>>
  <1>1. ASSUME TypeOK, Next PROVE A
    <2>1. ASSUME NEW s \in Session, NEW p \in Project, CreateSession(s, p) PROVE A
      BY <1>1, <2>1, ProjectAssumption DEF CreateSession, TypeOK, memory
    <2>2. ASSUME NEW r \in Request, Forward(r) PROVE A
      BY <2>2 DEF Forward
    <2> HIDE DEF A
    <2> QED BY <1>1, <2>1, <2>2, ThreadForward, LoopForward DEF Next
  <1>2. TypeOK /\ [Next]_vars => [A]_vars
    BY <1>1
  <1>3. TypeOK => Bounded
    <2> SUFFICES ASSUME TypeOK, NEW r \in Request
                 PROVE  Distance(r) \in 0..(16 + 6 * Len(B(r)))
      OBVIOUS
    <2>1. Place(pc[r]) \in 0 .. 16
      BY PlaceBound DEF TypeOK
    <2>2. applied[r] \in Nat /\ applied[r] <= Len(B(r)) /\ Len(B(r)) \in Nat
      BY RequestAsks DEF TypeOK
    <2>3. ASSUME NEW place \in 0 .. 16, NEW steps \in Nat, NEW most \in Nat, steps <= most
          PROVE  place + 6 * steps \in 0..(16 + 6 * most)
      BY <2>3, SMT
    <2>4. Place(pc[r]) + 6 * applied[r] \in 0..(16 + 6 * Len(B(r)))
      BY <2>1, <2>2, <2>3
    <2> QED BY <2>4, Zenon DEF Distance
  <1> HIDE DEF Bounded, A
  <1>4. Spec => []Bounded /\ [][A]_vars
    BY <1>2, <1>3, WebTyped, PTL DEF Spec
  <1> QED BY <1>4 DEF RequestsAdvance, Bounded, A

-----------------------------------------------------------------------------
(* What wipes and notes answer to                                          *)

(* A pending question was asked, and so was the one a thread acts on.      *)
Asked ==
    /\ \A s \in Session : pending_delete_all[s] => WipeAsked(s)
    /\ \A s \in Session : pending_note[s] # NoNote => NameAsked(s)
    /\ \A r \in Request : pc[r] = "delete_pending" => WipeAsked(S(r))
    /\ \A r \in Request : pc[r] \in {"wipe", "scanning", "deleting"} =>
                              M(r) = "ok" /\ WipeAsked(S(r))
    /\ \A r \in Request : pc[r] = "note_held" => NameAsked(S(r))
    /\ \A r \in Request : pc[r] \in {"record_note", "capture"} => M(r) = "note"

(* A question that was asked stays asked.                                  *)
LEMMA AskedStays ==
    ASSUME TypeOK, [Next]_vars, NEW s
    PROVE  /\ WipeAsked(s) => WipeAsked(s)'
           /\ NameAsked(s) => NameAsked(s)'
  <1>1. \A q \in Request :
           /\ req' = req
           /\ pc[q] = "record" => pc'[q] \in {"record", "return"}
           /\ pc[q] \in {"return", "answered"} => pc'[q] \in {"return", "answered"}
    BY RequestsMove DEF Moves
  <1> QED BY <1>1 DEF WipeAsked, NameAsked, S, M

(* Steps that keep every pending question and go nowhere that needs one.   *)
LEMMA AskedQuietly ==
    ASSUME TypeOK, Asked, [Next]_vars, NEW r \in Request, NEW to,
           pc' = [pc EXCEPT ![r] = to], req' = req,
           \A s \in Session : pending_delete_all'[s] => pending_delete_all[s],
           \A s \in Session : pending_note'[s] # NoNote => pending_note[s] # NoNote,
           to = "delete_pending" => WipeAsked(S(r)),
           to \in {"wipe", "scanning", "deleting"} => M(r) = "ok" /\ WipeAsked(S(r)),
           to = "note_held" => NameAsked(S(r)),
           to \in {"record_note", "capture"} => M(r) = "note"
    PROVE  Asked'
  <1>1. \A s : (WipeAsked(s) => WipeAsked(s)') /\ (NameAsked(s) => NameAsked(s)')
    BY AskedStays
  <1>2. \A q : S(q)' = S(q) /\ M(q)' = M(q)
    BY DEF S, M
  <1>3. \A q \in Request : pc'[q] = IF q = r THEN to ELSE pc[q]
    BY DEF TypeOK
  <1> HIDE DEF WipeAsked, NameAsked, S, M
  <1> QED BY <1>1, <1>2, <1>3 DEF Asked

(* A question is asked, or the name of a note is.                          *)
LEMMA AskedNewly ==
    ASSUME TypeOK, Asked, [Next]_vars, NEW r \in Request, RequestDelete(r) \/ CapturePending(r)
    PROVE  Asked'
  <1>1. \A s : (WipeAsked(s) => WipeAsked(s)') /\ (NameAsked(s) => NameAsked(s)')
    BY AskedStays
  <1>2. req' = req /\ S(r) \in Session
    BY RequestAsks DEF RequestDelete, CapturePending, Step
  <1>3. \A q : S(q)' = S(q) /\ M(q)' = M(q)
    BY <1>2 DEF S, M
  <1>4. CASE RequestDelete(r)
    <2>1. WipeAsked(S(r))'
      BY <1>2, <1>4 DEF RequestDelete, Step, Goto, TypeOK, WipeAsked, S, M
    <2>2. /\ \A q \in Request : pc'[q] = pc[q] \/ pc'[q] = "record"
          /\ \A s \in Session : pending_delete_all'[s] => pending_delete_all[s] \/ s = S(r)
          /\ pending_note' = pending_note
      BY <1>4 DEF RequestDelete, Step, Goto, TypeOK
    <2> HIDE DEF WipeAsked, NameAsked, S, M
    <2> QED BY <1>1, <1>3, <2>1, <2>2 DEF Asked
  <1>5. CASE CapturePending(r)
    <2>1. M(r) = "note"
      BY <1>5 DEF CapturePending, Step, Goto, Asked
    <2>2. NameAsked(S(r))'
      BY <1>2, <1>5, <2>1 DEF CapturePending, Step, Goto, TypeOK, NameAsked, S, M
    <2>3. /\ \A q \in Request : pc'[q] = pc[q] \/ pc'[q] = "return"
          /\ \A s \in Session : pending_note'[s] # NoNote => pending_note[s] # NoNote \/ s = S(r)
          /\ pending_delete_all' = pending_delete_all
      BY <1>5 DEF CapturePending, Step, Goto, TypeOK
    <2> HIDE DEF WipeAsked, NameAsked, S, M
    <2> QED BY <1>1, <1>3, <2>2, <2>3 DEF Asked
  <1> QED BY <1>4, <1>5

LEMMA AskedThread ==
    ASSUME TypeOK, Asked, [Next]_vars, NEW r \in Request, Thread(r)
    PROVE  Asked'
  <1>1. S(r) \in Session
    BY RequestAsks
  <1> DEFINE Same == /\ \A s \in Session : pending_delete_all'[s] => pending_delete_all[s]
                     /\ \A s \in Session : pending_note'[s] # NoNote => pending_note[s] # NoNote
  <1> USE DEF Goto, Step, Raise
  <1>2. ASSUME UNCHANGED <<pending_delete_all, pending_note>> PROVE Same
    BY <1>2
  <1>3. CASE CheckDeletePending(r)
    <2>1. PICK to \in {"delete_pending", "request"} :
            pc' = [pc EXCEPT ![r] = to] /\ (to = "delete_pending" => pending_delete_all[S(r)])
      BY <1>3 DEF CheckDeletePending
    <2>2. to = "delete_pending" => WipeAsked(S(r))
      BY <1>1, <2>1 DEF Asked
    <2>3. Same /\ req' = req
      BY <1>2, <1>3 DEF CheckDeletePending
    <2> QED BY <2>1, <2>2, <2>3, AskedQuietly
  <1>4. CASE ResolveDeletePending(r)
    <2>1. PICK to \in {"wipe", "record", "request"} :
            pc' = [pc EXCEPT ![r] = to] /\ (to = "wipe" => M(r) = "ok")
      BY <1>4 DEF ResolveDeletePending
    <2>2. WipeAsked(S(r))
      BY <1>4 DEF ResolveDeletePending, Asked
    <2>3. Same /\ req' = req
      BY <1>4 DEF ResolveDeletePending, TypeOK
    <2> QED BY <2>1, <2>2, <2>3, AskedQuietly
  <1>5. CASE CheckNotePending(r) \/ Normal(r)
    <2>1. PICK to \in {"note_pending", "normal", "write", "record_note", "record"} :
            pc' = [pc EXCEPT ![r] = to] /\ (to = "record_note" => M(r) = "note")
      BY <1>5 DEF CheckNotePending, Normal
    <2>2. Same /\ req' = req
      BY <1>2, <1>5 DEF CheckNotePending, Normal
    <2> QED BY <2>1, <2>2, AskedQuietly
  <1>6. CASE HoldNote(r)
    <2>1. PICK to \in {"note_held", "failed"} :
            pc' = [pc EXCEPT ![r] = to] /\ (to = "note_held" => pending_note[S(r)] # NoNote)
      BY <1>6 DEF HoldNote
    <2>2. to = "note_held" => NameAsked(S(r))
      BY <1>1, <2>1 DEF Asked
    <2>3. Same /\ req' = req
      BY <1>2, <1>6 DEF HoldNote
    <2> QED BY <2>1, <2>2, <2>3, AskedQuietly
  <1>7. CASE ResolveNote(r)
    <2>1. PICK to \in {"normal", "record"} : pc' = [pc EXCEPT ![r] = to]
      BY <1>7 DEF ResolveNote
    <2>2. Same /\ req' = req
      BY <1>7 DEF ResolveNote, TypeOK
    <2> QED BY <2>1, <2>2, AskedQuietly
  <1>8. CASE \/ SearchConflicts(r) \/ FindConflicts(r) \/ ResolveConflicts(r) \/ SearchAliases(r)
             \/ CheckAliases(r) \/ StoreFact(r) \/ Reset(r) \/ DeleteRecords(r)
             \/ \E from \in Searching : SearchRaises(r, from)
    <2> USE DEF SearchConflicts, SearchAliases, BeginSearch, FindConflicts, ResolveConflicts,
                CheckAliases, EndSearch, StoreFact, Reset, DeleteRecords, SearchRaises
    <2>1. PICK to \in {"searching", "resolving", "aliases", "checking", "storing", "write",
                      "record", "answered", "failed"} : pc' = [pc EXCEPT ![r] = to]
      BY <1>8
    <2>2. Same /\ req' = req
      BY <1>2, <1>8
    <2> QED BY <2>1, <2>2, AskedQuietly
  <1>9. CASE SearchWipe(r) \/ FindRecords(r)
    <2> USE DEF EndSearch
    <2>1. PICK to \in {"scanning", "deleting"} : pc' = [pc EXCEPT ![r] = to]
      BY <1>9 DEF SearchWipe, BeginSearch, FindRecords
    <2>2. pc[r] \in {"wipe", "scanning"}
      BY <1>9 DEF SearchWipe, BeginSearch, FindRecords
    <2>3. M(r) = "ok" /\ WipeAsked(S(r))
      BY <2>2 DEF Asked
    <2>4. Same /\ req' = req
      BY <1>2, <1>9 DEF SearchWipe, BeginSearch, FindRecords
    <2> QED BY <2>1, <2>3, <2>4, AskedQuietly
  <1>10. CASE Record(r)
    <2>1. PICK to \in {"return", "capture"} :
            pc' = [pc EXCEPT ![r] = to] /\ (to = "capture" => pc[r] = "record_note")
      BY <1>10 DEF Record, Recorded
    <2>2. to = "capture" => M(r) = "note"
      BY <2>1 DEF Asked
    <2>3. Same /\ req' = req
      BY <1>2, <1>10 DEF Record, Recorded
    <2> QED BY <2>1, <2>2, <2>3, AskedQuietly
  <1> QED BY <1>3, <1>4, <1>5, <1>6, <1>7, <1>8, <1>9, <1>10, AskedNewly DEF Thread

LEMMA AskedNext == TypeOK /\ Asked /\ [Next]_vars => Asked'
  <1> SUFFICES ASSUME TypeOK, Asked, [Next]_vars PROVE Asked'
    OBVIOUS
  <1>1. CASE UNCHANGED vars
    BY <1>1 DEF vars, Asked, WipeAsked, NameAsked, S, M
  <1>2. ASSUME NEW s \in Session, NEW p \in Project, CreateSession(s, p) PROVE Asked'
    BY <1>2 DEF CreateSession, Asked, WipeAsked, NameAsked, S, M
  <1>3. ASSUME NEW r \in Request, Reject(r) \/ Admit(r) \/ BeginReset(r) \/ Answer(r)
        PROVE  Asked'
    <2>1. PICK to \in {"rejected", "chain", "resetting", "answered"} : pc' = [pc EXCEPT ![r] = to]
      BY <1>3 DEF Reject, Admit, BeginReset, BeginSearch, Answer, Goto
    <2>2. req' = req /\ pending_delete_all' = pending_delete_all /\ pending_note' = pending_note
      BY <1>3 DEF Reject, Admit, BeginReset, BeginSearch, Answer
    <2> QED BY <2>1, <2>2, AskedQuietly
  <1> QED BY <1>1, <1>2, <1>3, AskedThread DEF Next

(* A wipe and a note change the history only in their own handlers.        *)
LEMMA ActsAsked == TypeOK /\ Asked /\ ActsWereAskedFor /\ [Next]_vars => ActsWereAskedFor'
  <1> SUFFICES ASSUME TypeOK, Asked, ActsWereAskedFor, [Next]_vars PROVE ActsWereAskedFor'
    OBVIOUS
  <1>1. \A s : (WipeAsked(s) => WipeAsked(s)') /\ (NameAsked(s) => NameAsked(s)')
    BY AskedStays
  <1>2. \/ wiped' = wiped /\ notes' = notes
        \/ \E r \in Request : DeleteRecords(r) \/ ResolveNote(r)
    BY StepKinds DEF shared, Quiet, Writes, Admit, Answer, FindConflicts, ResolveConflicts,
       StoreFact, FindRecords, EndSearch, Reset, Step, memory, history
  <1>3. req' = req
    <2>1. CASE UNCHANGED vars
      BY <2>1 DEF vars
    <2>2. CASE Next
      BY StepKinds DEF shared, Quiet, Writes, Admit, Answer, FindConflicts, ResolveConflicts,
         StoreFact, FindRecords, EndSearch, Reset, Step, ResolveNote, DeleteRecords
    <2> QED BY <2>1, <2>2
  <1>4. \A q : S(q)' = S(q) /\ M(q)' = M(q)
    BY <1>3 DEF S, M
  <1>5. CASE wiped' = wiped /\ notes' = notes
    <2> HIDE DEF WipeAsked, NameAsked, S, M
    <2> QED BY <1>1, <1>4, <1>5 DEF ActsWereAskedFor
  <1>6. ASSUME NEW r \in Request, DeleteRecords(r) PROVE ActsWereAskedFor'
    <2>1. wiped' = wiped \cup {r} /\ notes' = notes /\ pc[r] = "deleting"
      BY <1>6 DEF DeleteRecords, Step, Goto
    <2>2. M(r) = "ok" /\ WipeAsked(S(r))
      BY <2>1 DEF Asked
    <2> HIDE DEF WipeAsked, NameAsked, S, M
    <2> QED BY <1>1, <1>4, <2>1, <2>2 DEF ActsWereAskedFor
  <1>7. ASSUME NEW r \in Request, ResolveNote(r) PROVE ActsWereAskedFor'
    <2>1. wiped' = wiped /\ pc[r] = "note_held"
          /\ (notes' = notes \/ (notes' = notes \cup {r} /\ M(r) \notin {"ok", "no", "query"}))
      BY <1>7 DEF ResolveNote, Step, Goto
    <2>2. NameAsked(S(r))
      BY <2>1 DEF Asked
    <2> HIDE DEF WipeAsked, NameAsked, S, M
    <2> QED BY <1>1, <1>4, <2>1, <2>2 DEF ActsWereAskedFor
  <1> QED BY <1>2, <1>5, <1>6, <1>7

(* However the threads of a session interleave, nothing is wiped but by a  *)
(* confirmation in a session that asked for one, and no note is written    *)
(* but in a session that asked for its name (_handle_delete_all_pending,   *)
(* _try_handle_pending).  Whether the question was shown before is what    *)
(* the run WipeAnswersQuestion refutes.                                    *)
THEOREM WebActsWereAskedFor == Spec => []ActsWereAskedFor
  <1>1. Init => Asked /\ ActsWereAskedFor
    BY DEF Init, Asked, ActsWereAskedFor
  <1> QED BY <1>1, AskedNext, ActsAsked, WebTyped, PTL DEF Spec

-----------------------------------------------------------------------------
(* The transcripts tell who asked what and what was answered               *)

(* A reset is no message: it never enters the chain, and only it resets.   *)
ResetsApart ==
    \A r \in Request :
        /\ M(r) = "reset" => pc[r] \in {"new", "rejected", "resetting", "answered", "failed"}
        /\ M(r) # "reset" => pc[r] # "resetting"

(* TranscriptsTell, message by message.                                    *)
Told ==
    /\ \A s \in Session, role \in {"user", "assistant"}, q \in Request :
          /\ Position(s, role, q) # {} => S(q) = s
          /\ \A i, j \in Position(s, role, q) : i = j
    /\ \A r \in Request :
          /\ Position(S(r), "user", r) # {} <=> M(r) # "reset" /\ pc[r] \notin {"new", "rejected"}
          /\ Position(S(r), "assistant", r) # {} <=> M(r) # "reset" /\ pc[r] = "answered"
          /\ \A i \in Position(S(r), "user", r), j \in Position(S(r), "assistant", r) : i < j

Line == [role : {"user", "assistant"}, request : Request]

LEMMA ToldTells == TypeOK /\ Told => TranscriptsTell
  <1> SUFFICES ASSUME TypeOK, Told,
                      NEW s \in Session, NEW i \in DOMAIN transcript[s],
                      NEW j \in DOMAIN transcript[s]
               PROVE  /\ S(transcript[s][i].request) = s
                      /\ transcript[s][i] = transcript[s][j] => i = j
    BY DEF TranscriptsTell, Told
  <1> DEFINE m == transcript[s][i]
  <1>1. transcript[s] \in Seq(Line)
    BY DEF TypeOK, Line
  <1>2. m \in Line
    <2> DEFINE l == transcript[s]
    <2>1. l \in Seq(Line) /\ i \in DOMAIN l
      BY <1>1
    <2> HIDE DEF l
    <2>2. l[i] \in Line
      BY <2>1
    <2> QED BY <2>2 DEF l
  <1>3. m = [role |-> m.role, request |-> m.request] /\ m.role \in {"user", "assistant"}
        /\ m.request \in Request
    BY <1>2 DEF Line
  <1>4. i \in Position(s, m.role, m.request)
    BY <1>3 DEF Position
  <1>5. m = transcript[s][j] => j \in Position(s, m.role, m.request)
    BY <1>3 DEF Position
  <1> HIDE DEF m
  <1>6. /\ Position(s, m.role, m.request) # {} => S(m.request) = s
        /\ \A a, b \in Position(s, m.role, m.request) : a = b
    BY <1>3 DEF Told
  <1>7. S(m.request) = s /\ (m = transcript[s][j] => i = j)
    BY <1>4, <1>5, <1>6
  <1> QED BY <1>7 DEF m

(* A new message is the last of its transcript, and changes no other.      *)
LEMMA SayPositions ==
    ASSUME TypeOK, NEW r \in Request, NEW role \in {"user", "assistant"}, Say(S(r), role, r),
           NEW s \in Session, NEW ro \in {"user", "assistant"}, NEW q \in Request
    PROVE  /\ Position(s, ro, q) \subseteq 1 .. Len(transcript[s])
           /\ Len(transcript[s]) \in Nat
           /\ Position(s, ro, q)' =
                 IF s = S(r) /\ ro = role /\ q = r
                 THEN Position(s, ro, q) \cup {Len(transcript[s]) + 1} ELSE Position(s, ro, q)
  <1> DEFINE l == transcript[s]
             t == transcript'[s]
             m == [role |-> role, request |-> r]
             n == [role |-> ro, request |-> q]
  <1>1. l \in Seq(Line) /\ m \in Line
    BY DEF TypeOK, Line
  <1>2. t = IF s = S(r) THEN Append(l, m) ELSE l
    BY DEF Say, TypeOK
  <1>3. Position(s, ro, q) = {i \in DOMAIN l : l[i] = n}
        /\ Position(s, ro, q)' = {i \in DOMAIN t : t[i] = n}
    BY DEF Position
  <1>4. m = n <=> ro = role /\ q = r
    OBVIOUS
  <1> HIDE DEF l, t, m, n
  <1>5. Len(l) \in Nat /\ DOMAIN l = 1 .. Len(l)
    BY <1>1
  <1>6. CASE s # S(r)
    BY <1>2, <1>3, <1>5, <1>6 DEF l
  <1>7. CASE s = S(r)
    <2>1. /\ DOMAIN t = 1 .. (Len(l) + 1) /\ t[Len(l) + 1] = m
          /\ \A i \in 1 .. Len(l) : t[i] = l[i]
      BY <1>1, <1>2, <1>7
    <2>2. DOMAIN t = DOMAIN l \cup {Len(l) + 1}
      BY <1>5, <2>1
    <2>3. {i \in DOMAIN t : t[i] = n} =
            IF m = n THEN {i \in DOMAIN l : l[i] = n} \cup {Len(l) + 1}
                     ELSE {i \in DOMAIN l : l[i] = n}
      BY <1>5, <2>1, <2>2
    <2> QED BY <1>3, <1>4, <1>5, <1>7, <2>3 DEF l
  <1> QED BY <1>6, <1>7

(* Steps that say nothing.                                                 *)
LEMMA SilentTold ==
    ASSUME TypeOK, Told, NEW r \in Request, NEW to, pc' = [pc EXCEPT ![r] = to],
           UNCHANGED <<req, transcript>>,
           M(r) # "reset" => /\ pc[r] # "answered" /\ to # "answered"
                             /\ pc[r] \in {"new", "rejected"} <=> to \in {"new", "rejected"}
    PROVE  Told'
  <1>1. \A q : S(q)' = S(q) /\ M(q)' = M(q)
    BY DEF S, M
  <1>2. \A s, role, q : Position(s, role, q)' = Position(s, role, q)
    BY DEF Position
  <1>3. \A q \in Request : pc'[q] = IF q = r THEN to ELSE pc[q]
    BY DEF TypeOK
  <1> HIDE DEF Position, S, M
  <1>4. ASSUME NEW q \in Request
        PROVE  /\ Position(S(q), "user", q)' # {}
                    <=> M(q)' # "reset" /\ pc'[q] \notin {"new", "rejected"}
               /\ Position(S(q), "assistant", q)' # {} <=> M(q)' # "reset" /\ pc'[q] = "answered"
    <2>1. /\ Position(S(q), "user", q) # {} <=> M(q) # "reset" /\ pc[q] \notin {"new", "rejected"}
          /\ Position(S(q), "assistant", q) # {} <=> M(q) # "reset" /\ pc[q] = "answered"
      BY DEF Told
    <2> QED BY <1>1, <1>2, <1>3, <2>1
  <1>5. \A q \in Request :
           \A i \in Position(S(q), "user", q)', j \in Position(S(q), "assistant", q)' : i < j
    BY <1>1, <1>2 DEF Told
  <1>6. \A s \in Session, role \in {"user", "assistant"}, q \in Request :
          /\ Position(s, role, q)' # {} => S(q)' = s
          /\ \A i, j \in Position(s, role, q)' : i = j
    BY <1>1, <1>2 DEF Told
  <1> QED BY <1>1, <1>4, <1>5, <1>6 DEF Told

(* A message or an answer is said once, the answer after the message.      *)
LEMMA SayTold ==
    ASSUME TypeOK, Told, NEW r \in Request, M(r) # "reset", req' = req,
           \/ Goto(r, "new", "chain") /\ Say(S(r), "user", r)
           \/ Goto(r, "return", "answered") /\ Say(S(r), "assistant", r)
    PROVE  Told'
  <1>1. \A q : S(q)' = S(q) /\ M(q)' = M(q)
    BY DEF S, M
  <1>2. PICK role \in {"user", "assistant"} :
          /\ Say(S(r), role, r)
          /\ role = "user" => pc[r] = "new" /\ pc' = [pc EXCEPT ![r] = "chain"]
          /\ role = "assistant" => pc[r] = "return" /\ pc' = [pc EXCEPT ![r] = "answered"]
    BY DEF Goto
  <1>3. S(r) \in Session /\ \A q \in Request : S(q) \in Session
    BY RequestAsks
  <1>4. \A s \in Session, ro \in {"user", "assistant"}, q \in Request :
           /\ Position(s, ro, q) \subseteq 1 .. Len(transcript[s])
           /\ Len(transcript[s]) \in Nat
           /\ Position(s, ro, q)' =
                 IF s = S(r) /\ ro = role /\ q = r
                 THEN Position(s, ro, q) \cup {Len(transcript[s]) + 1} ELSE Position(s, ro, q)
    BY <1>2, SayPositions
  <1>5. \A q \in Request :
          pc'[q] = IF q = r THEN IF role = "user" THEN "chain" ELSE "answered" ELSE pc[q]
    BY <1>2 DEF TypeOK
  <1> HIDE DEF Position, S, M
  <1>6. /\ Position(S(r), "user", r) # {} <=> pc[r] \notin {"new", "rejected"}
        /\ Position(S(r), "assistant", r) # {} <=> pc[r] = "answered"
        /\ Position(S(r), role, r) = {}
    BY <1>2 DEF Told
  <1>7. ASSUME NEW s \in Session, NEW ro \in {"user", "assistant"}, NEW q \in Request
        PROVE  /\ Position(s, ro, q)' # {} => S(q)' = s
               /\ \A i, j \in Position(s, ro, q)' : i = j
    <2>1. CASE s = S(r) /\ ro = role /\ q = r
      <3>1. Position(s, ro, q)' = {Len(transcript[s]) + 1}
        BY <1>4, <1>6, <2>1
      <3> QED BY <1>1, <2>1, <3>1
    <2>2. CASE ~(s = S(r) /\ ro = role /\ q = r)
      <3>1. Position(s, ro, q)' = Position(s, ro, q)
        BY <1>4, <2>2
      <3> QED BY <1>1, <3>1 DEF Told
    <2> QED BY <2>1, <2>2
  <1>8. ASSUME NEW q \in Request, q # r
        PROVE  /\ Position(S(q), "user", q)' = Position(S(q), "user", q)
               /\ Position(S(q), "assistant", q)' = Position(S(q), "assistant", q)
               /\ pc'[q] = pc[q]
    <2>1. \A ro \in {"user", "assistant"} :
             LET s == S(q) IN Position(s, ro, q)' = Position(s, ro, q)
      BY <1>1, <1>3, <1>4, <1>8
    <2> QED BY <1>5, <1>8, <2>1
  <1>9. /\ Position(S(r), role, r)' = {Len(transcript[S(r)]) + 1}
        /\ Len(transcript[S(r)]) \in Nat
        /\ \A ro \in {"user", "assistant"} \ {role} :
              /\ Position(S(r), ro, r)' = Position(S(r), ro, r)
              /\ Position(S(r), ro, r) \subseteq 1 .. Len(transcript[S(r)])
    BY <1>1, <1>3, <1>4, <1>6
  <1>10. ASSUME NEW q \in Request
         PROVE  /\ Position(S(q), "user", q)' # {}
                     <=> M(q)' # "reset" /\ pc'[q] \notin {"new", "rejected"}
                /\ Position(S(q), "assistant", q)' # {}
                     <=> M(q)' # "reset" /\ pc'[q] = "answered"
                /\ \A i \in Position(S(q), "user", q)', j \in Position(S(q), "assistant", q)' : i < j
    <2>1. CASE q # r
      BY <1>1, <1>8, <2>1 DEF Told
    <2>2. CASE q = r /\ role = "user"
      <3>1. /\ Position(S(r), "user", r)' = {Len(transcript[S(r)]) + 1}
            /\ Position(S(r), "assistant", r)' = {}
        BY <1>2, <1>6, <1>9, <2>2
      <3> QED BY <1>1, <1>5, <2>2, <3>1
    <2>3. CASE q = r /\ role = "assistant"
      <3>1. /\ Position(S(r), "assistant", r)' = {Len(transcript[S(r)]) + 1}
            /\ Position(S(r), "user", r)' # {}
            /\ \A i \in Position(S(r), "user", r)' : i \in 1 .. Len(transcript[S(r)])
            /\ Len(transcript[S(r)]) \in Nat
        BY <1>2, <1>6, <1>9, <2>3
      <3>2. pc'[q] = "answered" /\ M(q)' # "reset"
        BY <1>1, <1>5, <2>3
      <3>3. \A i \in Position(S(r), "user", r)', j \in Position(S(r), "assistant", r)' : i < j
        BY <3>1
      <3> QED BY <2>3, <3>1, <3>2, <3>3
    <2> QED BY <2>1, <2>2, <2>3
  <1> QED BY <1>7, <1>10 DEF Told

(* What a step says, and where it goes.                                    *)
LEMMA ThreadSilent ==
    ASSUME TypeOK, ResetsApart, NEW r \in Request, Thread(r)
    PROVE  \E to \in Stage :
              /\ pc' = [pc EXCEPT ![r] = to] /\ UNCHANGED <<req, transcript>>
              /\ pc[r] \notin {"new", "rejected", "answered"} /\ to \notin {"new", "rejected"}
              /\ M(r) # "reset" => to \notin {"answered", "resetting"}
              /\ M(r) = "reset" => to \in {"answered", "failed"}
  <1> USE DEF Goto, Step, Raise, Stage, loop, ResetsApart
  <1>1. CASE \/ CheckDeletePending(r) \/ ResolveDeletePending(r) \/ RequestDelete(r)
             \/ CheckNotePending(r)
    BY <1>1 DEF CheckDeletePending, ResolveDeletePending, RequestDelete, CheckNotePending
  <1>2. CASE HoldNote(r) \/ ResolveNote(r) \/ Normal(r)
    BY <1>2 DEF HoldNote, ResolveNote, Normal
  <1>3. CASE \/ SearchConflicts(r) \/ SearchAliases(r) \/ SearchWipe(r)
             \/ FindConflicts(r) \/ CheckAliases(r) \/ FindRecords(r)
             \/ ResolveConflicts(r) \/ StoreFact(r)
    BY <1>3 DEF SearchConflicts, SearchAliases, SearchWipe, BeginSearch, FindConflicts,
       CheckAliases, FindRecords, EndSearch, ResolveConflicts, StoreFact
  <1>4. ASSUME NEW from \in Searching, SearchRaises(r, from)
        PROVE  /\ pc' = [pc EXCEPT ![r] = "failed"] /\ UNCHANGED <<req, transcript>>
               /\ pc[r] \notin {"new", "rejected", "answered"}
    BY <1>4 DEF SearchRaises, Searching
  <1>5. CASE DeleteRecords(r) \/ Reset(r) \/ CapturePending(r)
    BY <1>5 DEF DeleteRecords, Reset, CapturePending
  <1>6. CASE Record(r)
    BY <1>6 DEF Record, Recorded
  <1>7. "failed" \in Stage
    OBVIOUS
  <1> QED BY <1>1, <1>2, <1>3, <1>4, <1>5, <1>6, <1>7 DEF Thread

LEMMA ToldNext == TypeOK /\ ResetsApart /\ Told /\ [Next]_vars => ResetsApart' /\ Told'
  <1> SUFFICES ASSUME TypeOK, ResetsApart, Told, [Next]_vars PROVE ResetsApart' /\ Told'
    OBVIOUS
  <1>1. CASE UNCHANGED <<pc, req, transcript>>
    <2>1. \A q : S(q)' = S(q) /\ M(q)' = M(q)
      BY <1>1 DEF S, M
    <2>2. \A s, role, q : Position(s, role, q)' = Position(s, role, q)
      BY <1>1 DEF Position
    <2> HIDE DEF Position, S, M
    <2>3. ResetsApart'
      BY <1>1, <2>1 DEF ResetsApart
    <2>4. Told'
      BY <1>1, <2>1, <2>2 DEF Told
    <2> QED BY <2>3, <2>4
  <1>2. ASSUME NEW r \in Request, Thread(r) PROVE ResetsApart' /\ Told'
    <2>1. PICK to \in Stage :
              /\ pc' = [pc EXCEPT ![r] = to] /\ UNCHANGED <<req, transcript>>
              /\ pc[r] \notin {"new", "rejected", "answered"} /\ to \notin {"new", "rejected"}
              /\ M(r) # "reset" => to \notin {"answered", "resetting"}
              /\ M(r) = "reset" => to \in {"answered", "failed"}
      BY <1>2, ThreadSilent
    <2>2. Told'
      BY <2>1, SilentTold
    <2>3. ResetsApart'
      BY <2>1 DEF ResetsApart, TypeOK, M
    <2> QED BY <2>2, <2>3
  <1>3. ASSUME NEW r \in Request, Reject(r) PROVE ResetsApart' /\ Told'
    <2>1. pc[r] = "new" /\ pc' = [pc EXCEPT ![r] = "rejected"] /\ UNCHANGED <<req, transcript>>
      BY <1>3 DEF Reject, Goto, loop
    <2>2. Told'
      BY <2>1, SilentTold
    <2> QED BY <2>1, <2>2 DEF ResetsApart, TypeOK, M
  <1>4. ASSUME NEW r \in Request, BeginReset(r) PROVE ResetsApart' /\ Told'
    <2>1. /\ M(r) = "reset"
          /\ pc' = [pc EXCEPT ![r] = "resetting"] /\ UNCHANGED <<req, transcript>>
      BY <1>4 DEF BeginReset, BeginSearch, Goto, loop
    <2>2. Told'
      BY <2>1, SilentTold
    <2> QED BY <2>1, <2>2 DEF ResetsApart, TypeOK, M
  <1>5. ASSUME NEW r \in Request, Admit(r) \/ Answer(r) PROVE ResetsApart' /\ Told'
    <2>1. /\ req' = req
          /\ \/ Goto(r, "new", "chain") /\ Say(S(r), "user", r)
             \/ Goto(r, "return", "answered") /\ Say(S(r), "assistant", r)
      BY <1>5 DEF Admit, Answer
    <2>2. M(r) # "reset"
      BY <1>5 DEF Admit, Answer, Goto, ResetsApart
    <2>3. Told'
      BY <2>1, <2>2, SayTold
    <2> QED BY <2>1, <2>2, <2>3 DEF ResetsApart, TypeOK, M, Goto
  <1>6. UNCHANGED <<pc, req, transcript>> \/
        \E r \in Request : Thread(r) \/ Reject(r) \/ BeginReset(r) \/ Admit(r) \/ Answer(r)
    BY DEF Next, vars, CreateSession, loop
  <1> QED BY <1>1, <1>2, <1>3, <1>4, <1>5, <1>6

(* For every interleaving of the event loop with the threads, the          *)
(* transcript of a session shows each admitted message once, its answer at *)
(* most once and after it, and nothing of another session (send_chat,      *)
(* list_messages).                                                         *)
THEOREM WebTranscriptsTell == Spec => []TranscriptsTell
  <1>1. Init => ResetsApart /\ Told
    <2> SUFFICES ASSUME Init PROVE ResetsApart /\ Told
      OBVIOUS
    <2>1. \A s \in Session : \A role, q : Position(s, role, q) = {}
      BY DEF Init, Position
    <2>2. \A r \in Request : pc[r] = "new" /\ S(r) \in Session
      BY RequestAsks, InitInv DEF Init, WebInv
    <2> QED BY <2>1, <2>2 DEF ResetsApart, Told
  <1> QED BY <1>1, ToldNext, ToldTells, WebTyped, PTL DEF Spec
=============================================================================
