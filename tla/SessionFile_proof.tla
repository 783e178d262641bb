-------------------------- MODULE SessionFile_proof -------------------------
(***************************************************************************)
(* The session file survives any interruption, and the file protocol       *)
(* implements the register of SessionStore, for any clock and any number   *)
(* of turns.                                                               *)
(*                                                                         *)
(* The invariant says that every file the disk may bring back is a whole   *)
(* document, not ahead of the file the kernel shows, and that this one is  *)
(* the live session's until the rename and the candidate's after it.       *)
(***************************************************************************)
EXTENDS SessionFile, TLAPS

Uncommitted == {"saving", "created", "written", "synced"}

WholeFile(f) == f \in File /\ f.durable = TRUE /\ Sound(f.contents)

DiskWhole == target \in disk /\ \A f \in disk : f = NoFile \/ WholeFile(f)

DiskBehind ==
    \A f \in disk :
        f # NoFile =>
            target # NoFile /\ Len(f.contents.turns) <= Len(target.contents.turns)

SyncedBelow ==
    synced # NoFile => \A f \in disk : f # NoFile /\ Extends(f.contents, synced)

Current ==
    pc \in Uncommitted \cup {"idle"} =>
        /\ target = NoFile => session.turns = <<>>
        /\ target # NoFile => target.contents = session

Adding ==
    pc \in Uncommitted =>
        /\ Sound(candidate)
        /\ candidate.created_at = session.created_at
        /\ \E now \in Time : candidate.turns = Append(session.turns, now)

TempWhole ==
    /\ pc = "written" => temp = [contents |-> candidate, durable |-> FALSE]
    /\ pc = "synced" => temp = [contents |-> candidate, durable |-> TRUE]

Committed ==
    pc \in {"replaced", "saved"} => target # NoFile /\ target.contents = candidate

NoticeTrue ==
    /\ pc # "down" => notice = FALSE
    /\ notice = TRUE =>
          target = NoFile \/ Len(target.contents.turns) < Len(candidate.turns)

Files == DiskWhole /\ DiskBehind /\ SyncedBelow

IInv == TypeOK /\ Files /\ Current /\ Adding /\ TempWhole /\ Committed /\ NoticeTrue

-----------------------------------------------------------------------------
(* Documents and sequences *)

LEMMA AppendFacts ==
    ASSUME NEW s \in Seq(Time), NEW x \in Time
    PROVE /\ Append(s, x) \in Seq(Time) /\ Append(s, x) # <<>>
          /\ Len(Append(s, x)) = Len(s) + 1
          /\ Append(s, x)[Len(Append(s, x))] = x
          /\ \A i \in 1..Len(s) : Append(s, x)[i] = s[i]
          /\ SubSeq(Append(s, x), 1, Len(Append(s, x)) - 1) = s
  <1> DEFINE a == Append(s, x)
  <1>1. /\ a \in Seq(Time) /\ a # <<>> /\ Len(a) = Len(s) + 1
        /\ a[Len(a)] = x /\ \A i \in 1..Len(s) : a[i] = s[i]
    OBVIOUS
  <1>2. SubSeq(a, 1, Len(a) - 1) = s
    <2>1. Len(a) - 1 = Len(s) /\ Len(s) \in Nat
      BY <1>1
    <2>2. SubSeq(a, 1, Len(s)) \in Seq(Time) /\ Len(SubSeq(a, 1, Len(s))) = Len(s)
      BY <1>1, <2>1
    <2>3. \A i \in 1..Len(s) : SubSeq(a, 1, Len(s))[i] = s[i]
      BY <1>1, <2>1
    <2> HIDE DEF a
    <2>4. SubSeq(a, 1, Len(s)) = s
      BY <2>2, <2>3
    <2> QED BY <2>4, <2>1
  <1> QED BY <1>1, <1>2

(* Saving extends what is stored, and extending is transitive.             *)
LEMMA ExtendsFacts ==
    ASSUME NEW d \in Document
    PROVE /\ Extends(d, d)
          /\ \A e, f \in Document : Extends(f, e) /\ Extends(d, f) => Extends(d, e)
  <1>1. Len(d.turns) \in Nat
    BY DEF Document
  <1>2. ASSUME NEW e \in Document, NEW f \in Document, Extends(f, e), Extends(d, f)
        PROVE Extends(d, e)
    <2>1. Len(e.turns) \in Nat /\ Len(f.turns) \in Nat
      BY DEF Document
    <2> QED BY <1>1, <1>2, <2>1 DEF Extends
  <1> QED BY <1>1, <1>2 DEF Extends

LEMMA AddingExtends ==
    ASSUME NEW s \in Document, NEW d \in Document, NEW now \in Time,
           d.turns = Append(s.turns, now)
    PROVE Extends(d, s) /\ Len(s.turns) < Len(d.turns) /\ d # s
  <1>1. s.turns \in Seq(Time) /\ Len(s.turns) \in Nat
    BY DEF Document
  <1>2. Len(d.turns) = Len(s.turns) + 1 /\ \A i \in 1..Len(s.turns) : d.turns[i] = s.turns[i]
    BY <1>1, AppendFacts
  <1> QED BY <1>1, <1>2 DEF Extends

LEMMA WholeContents ==
    ASSUME NEW f, WholeFile(f)
    PROVE f # NoFile /\ f.contents \in Document /\ f.contents # Torn /\ Sound(f.contents)
  BY MarksAssumption DEF WholeFile, Sound

-----------------------------------------------------------------------------
(* The steps that leave the files under the session's name alone           *)

LEMMA FilesKept ==
    ASSUME Files, UNCHANGED <<target, disk, synced>>
    PROVE Files'
  BY DEF Files, DiskWhole, DiskBehind, SyncedBelow, WholeFile, Sound, Extends

LEMMA BeginIInv ==
    ASSUME IInv, NEW now \in Time, BeginSave(now)
    PROVE IInv'
  <1>1. TypeOK /\ Files /\ Current /\ NoticeTrue /\ pc = "idle"
    BY DEF IInv, BeginSave
  <1>2. /\ session \in Document /\ Sound(session)
        /\ session.turns \in Seq(Time) /\ Len(session.turns) \in Nat
    BY <1>1 DEF TypeOK, Sound, Document
  <1>3. UNCHANGED <<session, temp, target, disk, synced>>
    BY DEF BeginSave
  <1>4. candidate' = [session EXCEPT !.turns = Append(@, now), !.updated_at = now]
    BY DEF BeginSave
  <1>5. /\ candidate' \in Document
        /\ candidate'.created_at = session.created_at
        /\ candidate'.turns = Append(session.turns, now)
    BY <1>2, <1>4, AppendFacts DEF Document
  <1>6. Len(session.turns) < Len(candidate'.turns)
    BY <1>2, <1>5, AppendFacts
  <1>7. target = NoFile \/ Len(target.contents.turns) < Len(candidate'.turns)
    BY <1>1, <1>6 DEF Current
  <1>8. \/ pc' = "saving" /\ notice' = notice /\ valid(candidate')
        \/ pc' = "down" /\ notice' = TRUE
    BY DEF BeginSave
  <1>9. TypeOK'
    BY <1>1, <1>3, <1>5, <1>8 DEF TypeOK, Sound
  <1>10. Current' /\ TempWhole' /\ Committed'
    BY <1>1, <1>3, <1>8 DEF Current, TempWhole, Committed, Uncommitted
  <1>11. Adding'
    BY <1>3, <1>5, <1>8 DEF Adding, Uncommitted, Sound, valid
  <1>12. NoticeTrue'
    BY <1>1, <1>3, <1>7, <1>8 DEF NoticeTrue
  <1> QED BY <1>1, <1>3, <1>9, <1>10, <1>11, <1>12, FilesKept DEF IInv

LEMMA TempIInv ==
    ASSUME IInv, CreateTemp \/ WriteTemp \/ FsyncTemp
    PROVE IInv'
  <1>1. TypeOK /\ Files /\ Current /\ Adding /\ TempWhole /\ NoticeTrue
    BY DEF IInv
  <1>2. UNCHANGED <<session, candidate, target, disk, notice, synced>>
    BY DEF CreateTemp, WriteTemp, FsyncTemp
  <1>3. pc \in Uncommitted /\ pc' \in Uncommitted /\ pc # "down" /\ pc' # "down"
    BY DEF CreateTemp, WriteTemp, FsyncTemp, Uncommitted
  <1>4. temp' \in File /\ TempWhole'
    <2>1. CASE CreateTemp
      BY <2>1 DEF CreateTemp, File, Contents, TempWhole
    <2>2. CASE WriteTemp
      BY <2>2, <1>1 DEF WriteTemp, File, Contents, TempWhole, TypeOK
    <2>3. CASE FsyncTemp
      <3>1. /\ pc = "written" /\ pc' = "synced" /\ candidate' = candidate
            /\ temp' = [temp EXCEPT !.durable = TRUE]
        BY <2>3 DEF FsyncTemp
      <3>2. temp = [contents |-> candidate, durable |-> FALSE]
        BY <3>1, <1>1 DEF TempWhole
      <3>3. temp' = [contents |-> candidate, durable |-> TRUE]
        BY <3>1, <3>2
      <3>4. candidate \in Contents
        BY <1>1 DEF TypeOK, Contents
      <3>5. temp' \in File
        BY <3>3, <3>4 DEF File
      <3>6. TempWhole'
        BY <3>1, <3>3 DEF TempWhole
      <3> QED BY <3>5, <3>6
    <2> QED BY <2>1, <2>2, <2>3
  <1>5. TypeOK'
    BY <1>1, <1>2, <1>3, <1>4 DEF TypeOK, Sound, Uncommitted
  <1>6. Current' /\ Adding' /\ Committed'
    BY <1>1, <1>2, <1>3 DEF Current, Adding, Committed, Uncommitted, Sound
  <1>7. NoticeTrue'
    BY <1>1, <1>2, <1>3 DEF NoticeTrue
  <1> QED BY <1>1, <1>2, <1>4, <1>5, <1>6, <1>7, FilesKept DEF IInv

(* The process ends: only the notice needs an argument.                    *)
LEMMA EndIInv ==
    ASSUME IInv, (\E ok \in BOOLEAN : SaveRaises(ok)) \/ Stop
    PROVE IInv'
  <1>1. TypeOK /\ Files /\ Current /\ Adding /\ NoticeTrue
    BY DEF IInv
  <1>2. UNCHANGED <<session, candidate, target, disk, synced>> /\ pc' = "down"
    BY DEF SaveRaises, Stop
  <1>3. temp' = temp \/ temp' = NoFile
    BY DEF SaveRaises, Stop
  <1>4. notice' \in BOOLEAN
    BY <1>1 DEF SaveRaises, Stop, TypeOK
  <1>5. TypeOK'
    BY <1>1, <1>2, <1>3, <1>4 DEF TypeOK, Sound
  <1>6. Current' /\ Adding' /\ TempWhole' /\ Committed'
    BY <1>2 DEF Current, Adding, TempWhole, Committed, Uncommitted
  <1>7. NoticeTrue'
    <2>1. CASE Stop
      BY <2>1, <1>1, <1>2 DEF Stop, NoticeTrue
    <2>2. CASE \E ok \in BOOLEAN : SaveRaises(ok)
      <3>1. pc \in Uncommitted
        BY <2>2 DEF SaveRaises, Uncommitted
      <3>2. session \in Document /\ candidate \in Document
        BY <1>1 DEF TypeOK, Sound
      <3>3. Len(session.turns) < Len(candidate.turns)
        BY <1>1, <3>1, <3>2, AddingExtends DEF Adding
      <3>4. target # NoFile => target.contents = session
        BY <1>1, <3>1 DEF Current
      <3> QED BY <3>3, <3>4, <1>2 DEF NoticeTrue
    <2> QED BY <2>1, <2>2
  <1> QED BY <1>1, <1>2, <1>5, <1>6, <1>7, FilesKept DEF IInv

LEMMA AppendTurnIInv ==
    ASSUME IInv, AppendTurn
    PROVE IInv'
  <1>1. TypeOK /\ Files /\ Committed /\ NoticeTrue
    BY DEF IInv
  <1>2. UNCHANGED <<candidate, temp, target, disk, notice, synced>>
        /\ pc = "saved" /\ pc' = "idle" /\ session' = candidate
    BY DEF AppendTurn
  <1>3. target # NoFile /\ target.contents = candidate /\ WholeFile(target)
    BY <1>1, <1>2 DEF Committed, Files, DiskWhole
  <1>4. Sound(candidate)
    BY <1>3, WholeContents
  <1>5. TypeOK'
    BY <1>1, <1>2, <1>4 DEF TypeOK, Sound
  <1>6. Current' /\ Adding' /\ TempWhole' /\ Committed'
    BY <1>2, <1>3 DEF Current, Adding, TempWhole, Committed, Uncommitted
  <1>7. NoticeTrue'
    BY <1>1, <1>2 DEF NoticeTrue
  <1> QED BY <1>1, <1>2, <1>5, <1>6, <1>7, FilesKept DEF IInv

LEMMA RestartIInv ==
    ASSUME IInv, Restart
    PROVE IInv'
  <1>1. TypeOK /\ Files
    BY DEF IInv
  <1>2. /\ UNCHANGED <<target, disk, synced>> /\ target # NoFile
        /\ pc' = "idle" /\ notice' = FALSE /\ temp' = NoFile
        /\ session' = target.contents /\ candidate' = target.contents
    BY DEF Restart
  <1>3. WholeFile(target)
    BY <1>1, <1>2 DEF Files, DiskWhole
  <1>4. Sound(target.contents) /\ target.contents \in Document
    BY <1>3, WholeContents
  <1>5. TypeOK'
    BY <1>1, <1>2, <1>4 DEF TypeOK, Sound
  <1>6. Current' /\ Adding' /\ TempWhole' /\ Committed' /\ NoticeTrue'
    BY <1>2 DEF Current, Adding, TempWhole, Committed, NoticeTrue, Uncommitted
  <1> QED BY <1>1, <1>2, <1>5, <1>6, FilesKept DEF IInv

-----------------------------------------------------------------------------
(* The steps that change the files under the session's name                *)

LEMMA ReplaceIInv ==
    ASSUME IInv, Replace
    PROVE IInv'
  <1>1. TypeOK /\ Files /\ Current /\ Adding /\ TempWhole /\ NoticeTrue
    BY DEF IInv
  <1>2. /\ UNCHANGED <<session, candidate, notice, synced>>
        /\ pc = "synced" /\ pc' = "replaced"
        /\ target' = temp /\ temp' = NoFile /\ disk' = disk \cup {temp}
    BY DEF Replace
  <1>3. temp = [contents |-> candidate, durable |-> TRUE] /\ Sound(candidate)
    BY <1>1, <1>2 DEF TempWhole, Adding, Uncommitted
  <1>4. WholeFile(temp) /\ temp.contents = candidate
    BY <1>3 DEF WholeFile, File, Contents, Sound
  <1>5. temp # NoFile /\ candidate \in Document
    BY <1>4, WholeContents
  <1>6. session \in Document
    BY <1>1 DEF TypeOK, Sound
  <1>7. Extends(candidate, session) /\ Len(session.turns) < Len(candidate.turns)
    BY <1>1, <1>2, <1>5, <1>6, AddingExtends DEF Adding, Uncommitted
  <1>8. target # NoFile => target.contents = session
    BY <1>1, <1>2 DEF Current, Uncommitted
  <1>9. DiskWhole'
    BY <1>1, <1>2, <1>4 DEF Files, DiskWhole, WholeFile, Sound
  <1>10. DiskBehind'
    <2> SUFFICES ASSUME NEW f \in disk \cup {temp}, f # NoFile
                 PROVE Len(f.contents.turns) <= Len(candidate.turns)
      BY <1>2, <1>4, <1>5 DEF DiskBehind
    <2>1. Len(candidate.turns) \in Nat /\ Len(session.turns) \in Nat
      BY <1>5, <1>6 DEF Document
    <2>2. CASE f = temp
      BY <2>1, <2>2, <1>4
    <2>3. CASE f \in disk
      <3>1. target # NoFile /\ Len(f.contents.turns) <= Len(target.contents.turns)
        BY <1>1, <2>3 DEF Files, DiskBehind
      <3>2. f.contents \in Document
        BY <1>1, <2>3, WholeContents DEF Files, DiskWhole
      <3>3. Len(f.contents.turns) \in Nat
        BY <3>2 DEF Document
      <3> QED BY <3>1, <3>3, <2>1, <1>7, <1>8
    <2> QED BY <2>2, <2>3
  <1>11. SyncedBelow'
    <2> SUFFICES ASSUME synced # NoFile
                 PROVE Extends(candidate, synced)
      BY <1>1, <1>2, <1>4, <1>5 DEF Files, SyncedBelow, Extends
    <2>1. target # NoFile /\ Extends(target.contents, synced)
      BY <1>1 DEF Files, SyncedBelow, DiskWhole
    <2>2. synced \in Document
      BY <1>1 DEF TypeOK
    <2> QED BY <2>1, <2>2, <1>5, <1>6, <1>7, <1>8, ExtendsFacts
  <1>12. TypeOK'
    BY <1>1, <1>2 DEF TypeOK, Sound
  <1>13. Current' /\ Adding' /\ TempWhole' /\ Committed' /\ NoticeTrue'
    BY <1>1, <1>2, <1>4, <1>5
       DEF Current, Adding, TempWhole, Committed, NoticeTrue, Uncommitted
  <1> QED BY <1>9, <1>10, <1>11, <1>12, <1>13 DEF IInv, Files

LEMMA FsyncParentIInv ==
    ASSUME IInv, NEW ok \in BOOLEAN, FsyncParent(ok)
    PROVE IInv'
  <1>1. TypeOK /\ Files /\ Committed /\ NoticeTrue
    BY DEF IInv
  <1>2. /\ UNCHANGED <<session, candidate, temp, target, notice>>
        /\ pc = "replaced" /\ pc' = "saved"
    BY DEF FsyncParent
  <1>3. \/ disk' = {target} /\ synced' = target.contents
        \/ UNCHANGED <<disk, synced>>
    BY DEF FsyncParent
  <1>4. WholeFile(target)
    BY <1>1, <1>2 DEF Committed, Files, DiskWhole
  <1>5. target # NoFile /\ target.contents \in Document
    BY <1>4, WholeContents
  <1>6. Files'
    <2>1. CASE disk' = {target} /\ synced' = target.contents
      <3>1. Len(target.contents.turns) \in Nat
        BY <1>5 DEF Document
      <3>2. Extends(target.contents, target.contents)
        BY <1>5, ExtendsFacts
      <3>3. DiskWhole'
        BY <2>1, <1>2, <1>4 DEF DiskWhole, WholeFile, Sound
      <3>4. DiskBehind' /\ SyncedBelow'
        BY <2>1, <1>2, <1>5, <3>1, <3>2 DEF DiskBehind, SyncedBelow, Extends
      <3> QED BY <3>3, <3>4 DEF Files
    <2>2. CASE UNCHANGED <<disk, synced>>
      BY <2>2, <1>1, <1>2, FilesKept
    <2> QED BY <1>3, <2>1, <2>2
  <1>7. TypeOK'
    BY <1>1, <1>2, <1>3, <1>5 DEF TypeOK, Sound
  <1>8. Current' /\ Adding' /\ TempWhole' /\ Committed' /\ NoticeTrue'
    BY <1>1, <1>2 DEF Current, Adding, TempWhole, Committed, NoticeTrue, Uncommitted
  <1> QED BY <1>6, <1>7, <1>8 DEF IInv

(* Every file on the disk is durable, so the power loss tears none.        *)
LEMMA PowerLossPicks ==
    ASSUME Files, PowerLoss
    PROVE target' \in disk /\ disk' = {target'}
  <1>1. PICK f \in disk : target' \in AfterPowerLoss(f)
    BY DEF PowerLoss
  <1>2. f = NoFile \/ f.durable = TRUE
    BY DEF Files, DiskWhole, WholeFile
  <1>3. target' = f
    BY <1>1, <1>2 DEF AfterPowerLoss
  <1> QED BY <1>3 DEF PowerLoss

LEMMA PowerLossIInv ==
    ASSUME IInv, PowerLoss
    PROVE IInv'
  <1>1. TypeOK /\ Files /\ NoticeTrue
    BY DEF IInv
  <1>2. UNCHANGED <<session, candidate, notice, synced>> /\ pc' = "down" /\ temp' = NoFile
    BY DEF PowerLoss
  <1>3. target' \in disk /\ disk' = {target'}
    BY <1>1, PowerLossPicks
  <1>4. target' = NoFile \/ WholeFile(target')
    BY <1>1, <1>3 DEF Files, DiskWhole
  <1>5. target' = NoFile \/ target'.contents \in Document
    BY <1>4, WholeContents
  <1>6. DiskWhole'
    BY <1>3, <1>4 DEF DiskWhole, WholeFile, Sound
  <1>7. DiskBehind'
    BY <1>3, <1>5 DEF DiskBehind, Document
  <1>8. SyncedBelow'
    BY <1>1, <1>2, <1>3 DEF Files, SyncedBelow, Extends
  <1>9. TypeOK'
    BY <1>1, <1>2, <1>3 DEF TypeOK, Sound
  <1>10. NoticeTrue'
    <2>1. CASE target' = NoFile
      BY <2>1, <1>2 DEF NoticeTrue
    <2>2. CASE target' # NoFile
      <3>1. target # NoFile /\ Len(target'.contents.turns) <= Len(target.contents.turns)
        BY <2>2, <1>1, <1>3 DEF Files, DiskBehind
      <3>2. target.contents \in Document
        BY <3>1, <1>1, WholeContents DEF Files, DiskWhole
      <3>3. /\ Len(target.contents.turns) \in Nat /\ Len(target'.contents.turns) \in Nat
            /\ Len(candidate.turns) \in Nat
        BY <3>2, <2>2, <1>5, <1>1 DEF Document, TypeOK
      <3> QED BY <3>1, <3>3, <1>1, <1>2 DEF NoticeTrue
    <2> QED BY <2>1, <2>2
  <1>11. Current' /\ Adding' /\ TempWhole' /\ Committed'
    BY <1>2 DEF Current, Adding, TempWhole, Committed, Uncommitted
  <1> QED BY <1>6, <1>7, <1>8, <1>9, <1>10, <1>11 DEF IInv, Files

-----------------------------------------------------------------------------
LEMMA InitIInv == Init => IInv
  <1> SUFFICES ASSUME Init PROVE IInv
    OBVIOUS
  <1>1. PICK now \in Time :
            session = [created_at |-> now, updated_at |-> now, turns |-> <<>>]
    BY DEF Init
  <1>2. now \in Int /\ <<>> \in Seq(Time)
    BY TimeAssumption
  <1>3. session \in Document /\ session.turns = <<>> /\ Sound(session)
    BY <1>1, <1>2 DEF Document, Sound
  <1>4. TypeOK
    BY <1>3 DEF Init, TypeOK
  <1>5. Files
    BY DEF Init, Files, DiskWhole, DiskBehind, SyncedBelow
  <1>6. Current /\ Adding /\ TempWhole /\ Committed /\ NoticeTrue
    BY <1>3 DEF Init, Current, Adding, TempWhole, Committed, NoticeTrue, Uncommitted
  <1> QED BY <1>4, <1>5, <1>6 DEF IInv

LEMMA StutterIInv ==
    ASSUME IInv, UNCHANGED vars
    PROVE IInv'
  <1>1. UNCHANGED <<pc, session, candidate, temp, target, disk, notice, synced>>
    BY DEF vars
  <1>2. TypeOK'
    BY <1>1 DEF IInv, TypeOK, Sound
  <1>3. Files'
    BY <1>1, FilesKept DEF IInv
  <1>4. Current' /\ Adding' /\ TempWhole' /\ Committed' /\ NoticeTrue'
    BY <1>1 DEF IInv, Current, Adding, TempWhole, Committed, NoticeTrue, Sound
  <1> QED BY <1>2, <1>3, <1>4 DEF IInv

LEMMA NextIInv == IInv /\ [Next]_vars => IInv'
  <1> SUFFICES ASSUME IInv, [Next]_vars PROVE IInv'
    OBVIOUS
  <1>1. CASE Saving
    <2>1. ASSUME NEW now \in Time, BeginSave(now) PROVE IInv'
      BY <2>1, BeginIInv
    <2>2. CASE CreateTemp \/ WriteTemp \/ FsyncTemp
      BY <2>2, TempIInv
    <2>3. CASE Replace
      BY <2>3, ReplaceIInv
    <2>4. ASSUME NEW ok \in BOOLEAN, FsyncParent(ok) PROVE IInv'
      BY <2>4, FsyncParentIInv
    <2>5. CASE \E ok \in BOOLEAN : SaveRaises(ok)
      BY <2>5, EndIInv
    <2>6. CASE AppendTurn
      BY <2>6, AppendTurnIInv
    <2> QED BY <1>1, <2>1, <2>2, <2>3, <2>4, <2>5, <2>6 DEF Saving
  <1>2. CASE Stop
    BY <1>2, EndIInv
  <1>3. CASE PowerLoss
    BY <1>3, PowerLossIInv
  <1>4. CASE Restart
    BY <1>4, RestartIInv
  <1>5. CASE UNCHANGED vars
    BY <1>5, StutterIInv
  <1> QED BY <1>1, <1>2, <1>3, <1>4, <1>5 DEF Next

-----------------------------------------------------------------------------
(* Every variable keeps its type, and the live session always satisfies    *)
(* what the serializer will ask of it.                                     *)
THEOREM FileTypeOK == Spec => []TypeOK
  <1>1. IInv => TypeOK
    BY DEF IInv
  <1> QED BY <1>1, InitIInv, NextIInv, PTL DEF Spec

(* A session file can always be loaded, a turn reported as not persisted   *)
(* is not in it, and no synced turn is ever missing from it.               *)
THEOREM FileSafe == Spec => [](AlwaysLoadable /\ NotPersistedTrue /\ SyncedTurnsStay)
  <1>1. IInv => AlwaysLoadable /\ NotPersistedTrue /\ SyncedTurnsStay
    <2> SUFFICES ASSUME IInv
                 PROVE AlwaysLoadable /\ NotPersistedTrue /\ SyncedTurnsStay
      OBVIOUS
    <2>1. Files /\ NoticeTrue /\ TypeOK
      BY DEF IInv
    <2>2. AlwaysLoadable
      BY <2>1, WholeContents DEF Files, DiskWhole, AlwaysLoadable
    <2>3. NotPersistedTrue
      <3>1. Len(candidate.turns) \in Nat
        BY <2>1 DEF TypeOK, Document
      <3>2. notice = TRUE => target = NoFile \/ Len(target.contents.turns) < Len(candidate.turns)
        BY <2>1 DEF NoticeTrue
      <3>3. notice \in BOOLEAN
        BY <2>1 DEF TypeOK
      <3> QED BY <3>1, <3>2, <3>3 DEF NotPersistedTrue
    <2>4. SyncedTurnsStay
      BY <2>1 DEF Files, DiskWhole, SyncedBelow, SyncedTurnsStay
    <2> QED BY <2>2, <2>3, <2>4
  <1> QED BY <1>1, InitIInv, NextIInv, PTL DEF Spec

(* main says "not persisted" only of a turn that is not in the file.       *)
THEOREM FileNotPersistedTrue == Spec => []NotPersistedTrue
  BY FileSafe, PTL

(* No crash and no power loss takes back a turn whose save was synced.     *)
THEOREM FileSyncedTurnsStay == Spec => []SyncedTurnsStay
  BY FileSafe, PTL

-----------------------------------------------------------------------------
(* The refinement *)

LEMMA InitRegister == Init => Register!Init
  BY DEF Init, Register!Init, Visible

(* Only the rename, a successful sync of the directory and a power loss    *)
(* are steps of the register.                                              *)
LEMMA NextRegister == IInv /\ [Next]_vars => [Register!Next]_(Register!vars)
  <1> SUFFICES ASSUME IInv, [Next]_vars PROVE [Register!Next]_(Register!vars)
    OBVIOUS
  <1>1. TypeOK /\ Files /\ Current /\ Adding /\ TempWhole /\ Committed
    BY DEF IInv
  <1>2. ASSUME UNCHANGED <<target, disk>>
        PROVE [Register!Next]_(Register!vars)
    <2>1. Visible(target)' = Visible(target)
      BY <1>2 DEF Visible
    <2>2. {Visible(f) : f \in disk}' = {Visible(f) : f \in disk}
      BY <1>2 DEF Visible
    <2> QED BY <2>1, <2>2 DEF Register!vars
  <1>3. CASE Replace
    <2>1. /\ pc = "synced" /\ target' = temp /\ disk' = disk \cup {temp}
      BY <1>3 DEF Replace
    <2>2. temp = [contents |-> candidate, durable |-> TRUE] /\ Sound(candidate)
      BY <1>1, <2>1 DEF TempWhole, Adding, Uncommitted
    <2>3. temp \in File /\ temp.contents = candidate /\ candidate \in Document
      BY <2>2 DEF File, Contents, Sound
    <2>4. temp # NoFile
      BY <2>3, MarksAssumption
    <2>5. Visible(target)' = candidate /\ Visible(temp) = candidate
      BY <2>1, <2>3, <2>4 DEF Visible
    <2>6. {Visible(f) : f \in disk}' = {Visible(f) : f \in disk} \cup {candidate}
      <3>1. {Visible(f) : f \in disk}' = {Visible(f) : f \in disk \cup {temp}}
        BY <2>1 DEF Visible
      <3> QED BY <3>1, <2>5
    <2>7. PICK now \in Time : candidate.turns = Append(session.turns, now)
      BY <1>1, <2>1 DEF Adding, Uncommitted
    <2>8. session.turns \in Seq(Time) /\ Len(session.turns) \in Nat
      BY <1>1 DEF TypeOK, Sound, Document
    <2>9. /\ Len(candidate.turns) = Len(session.turns) + 1
          /\ SubSeq(candidate.turns, 1, Len(candidate.turns) - 1) = session.turns
      BY <2>7, <2>8, AppendFacts
    <2>10. candidate.created_at = session.created_at
      BY <1>1, <2>1 DEF Adding, Uncommitted
    <2>11. CASE target = NoFile
      <3>1. session.turns = <<>> /\ Visible(target) = NoFile
        BY <1>1, <2>1, <2>11 DEF Current, Uncommitted, Visible
      <3>2. Register!Adds(candidate)
        BY <3>1, <2>8, <2>9 DEF Register!Adds
      <3>3. Register!Save
        BY <3>2, <2>3, <2>5, <2>6 DEF Register!Save, Register!Document, Document
      <3> QED BY <3>3 DEF Register!Next
    <2>12. CASE target # NoFile
      <3>1. Visible(target) = session
        BY <1>1, <2>1, <2>12 DEF Current, Uncommitted, Visible
      <3>2. session # NoFile
        BY <1>1, MarksAssumption DEF TypeOK, Sound
      <3>3. Register!Adds(candidate)
        BY <3>1, <3>2, <2>8, <2>9, <2>10 DEF Register!Adds
      <3>4. Register!Save
        BY <3>3, <2>3, <2>5, <2>6 DEF Register!Save, Register!Document, Document
      <3> QED BY <3>4 DEF Register!Next
    <2> QED BY <2>11, <2>12
  <1>4. ASSUME NEW ok \in BOOLEAN, FsyncParent(ok)
        PROVE [Register!Next]_(Register!vars)
    <2>1. CASE disk' = {target}
      <3>1. target' = target
        BY <1>4 DEF FsyncParent
      <3>2. Visible(target)' = Visible(target)
        BY <3>1 DEF Visible
      <3>3. {Visible(f) : f \in disk}' = {Visible(target)}
        BY <2>1 DEF Visible
      <3>4. Register!Sync
        BY <3>2, <3>3 DEF Register!Sync
      <3> QED BY <3>4 DEF Register!Next
    <2>2. CASE UNCHANGED disk
      BY <2>2, <1>4, <1>2 DEF FsyncParent
    <2> QED BY <1>4, <2>1, <2>2 DEF FsyncParent
  <1>5. CASE PowerLoss
    <2>1. target' \in disk /\ disk' = {target'}
      BY <1>1, <1>5, PowerLossPicks
    <2>2. Visible(target)' \in {Visible(f) : f \in disk}
      BY <2>1 DEF Visible
    <2>3. {Visible(f) : f \in disk}' = {Visible(target)'}
      BY <2>1 DEF Visible
    <2>4. Register!PowerLoss
      BY <2>2, <2>3 DEF Register!PowerLoss
    <2> QED BY <2>4 DEF Register!Next
  <1>6. CASE \/ \E now \in Time : BeginSave(now)
             \/ CreateTemp \/ WriteTemp \/ FsyncTemp \/ AppendTurn
             \/ (\E ok \in BOOLEAN : SaveRaises(ok)) \/ Stop \/ Restart
    <2>1. UNCHANGED <<target, disk>>
      BY <1>6 DEF BeginSave, CreateTemp, WriteTemp, FsyncTemp, AppendTurn, SaveRaises,
                  Stop, Restart
    <2> QED BY <2>1, <1>2
  <1>7. CASE UNCHANGED vars
    BY <1>7, <1>2 DEF vars
  <1> QED BY <1>3, <1>4, <1>5, <1>6, <1>7 DEF Next, Saving

(* FileSessionStore implements the register: a session is replaced in one  *)
(* step, by a document with one more turn, or not at all.                  *)
THEOREM FileImplementsRegister == Spec => ImplementsRegister
  <1> QED BY InitIInv, NextIInv, InitRegister, NextRegister, PTL
          DEF Spec, ImplementsRegister, Register!Spec

=============================================================================
