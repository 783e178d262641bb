----------------------------- MODULE MemoryStores ---------------------------
(***************************************************************************)
(* The two memory stores behind one protocol, the memory agent and the     *)
(* memory tools that write to them, and the context pack the local client  *)
(* builds.  Every operation is applied to both stores, so that what a      *)
(* caller reads from the one can be compared with the other: InMemoryStore *)
(* finds a note through an index, FileMemoryStore through the time stamps  *)
(* of the lines of a file that outlives the process.                       *)
(*                                                                         *)
(* A record is named by its id.  The wall clock gives the time stamps: it  *)
(* may stand still or be set back between two operations.                  *)
(***************************************************************************)
EXTENDS Integers, Sequences, FiniteSets, SequencesExt, Ordered

CONSTANTS
    Name,            \* note names
    Content,         \* texts, none of them blank
    Blank,           \* a blank text
    Scope,           \* the (user, session) pairs a memory agent works for
    Tokens,          \* [Content -> Nat]: size of a text
    SavedKind,       \* kinds saved by tools, notes apart
    TokenBudget,     \* token_budget of a context pack
    MaxItems,        \* max_items of a context pack
    MaxRecords,      \* bound: records ever created
    MaxTime,         \* bound: largest time stamp
    MaxFaults,       \* bound: clock faults and deaths of the process together
    None

Kind == {"note", "fact", "preference", "decision"}

\* Importance, in tenths, that MemoryAgent gives to each kind.
Importance == [note |-> 5, fact |-> 5, preference |-> 7, decision |-> 8]

Id == 1..MaxRecords

MemoryRecord == [kind : Kind, name : Name \cup {None}, content : Content,
                 scope : Scope \cup {None}, deleted : BOOLEAN, updated_at : 0..MaxTime]

ASSUME BoundAssumption ==
    MaxRecords \in Nat /\ MaxTime \in Nat /\ SavedKind \subseteq Kind \ {"note"}
ASSUME PackAssumption == Tokens \in [Content -> Nat] /\ TokenBudget \in Nat /\ MaxItems \in Nat
ASSUME NoneAssumption == None \notin MemoryRecord \cup Content \cup Name \cup Id

VARIABLES
    records,       \* InMemoryStore: id -> record, or None
    note_index,    \* InMemoryStore: name -> id, or None
    lines,         \* FileMemoryStore: the lines of records.jsonl, <<id, record>>
    torn,          \* a line of that file is not valid JSON
    now,           \* the wall clock
    ties, setbacks, \* history: times the clock stood still, or was set back
    orphaned,      \* history: a name was given up while an older note still carried it
    restarted,     \* history: the process died
    expected       \* history: what a load may return for each id

vars == <<records, note_index, lines, torn, now, ties, setbacks, orphaned, restarted, expected>>

TypeOK ==
    /\ records \in [Id -> MemoryRecord \cup {None}]
    /\ note_index \in [Name -> Id \cup {None}]
    /\ lines \in Seq(Id \X MemoryRecord)
    /\ torn \in BOOLEAN /\ orphaned \in BOOLEAN /\ restarted \in BOOLEAN
    /\ now \in 0..MaxTime
    /\ ties \in Nat /\ setbacks \in Nat
    /\ expected \in [Id -> SUBSET (MemoryRecord \cup {None})]

Init ==
    /\ records = [i \in Id |-> None]
    /\ note_index = [n \in Name |-> None]
    /\ lines = <<>>
    /\ torn = FALSE
    /\ now = 0
    /\ ties = 0 /\ setbacks = 0
    /\ orphaned = FALSE
    /\ restarted = FALSE
    /\ expected = [i \in Id |-> {None}]

-----------------------------------------------------------------------------
(* Reading *)

Live(r) == r # None /\ ~r.deleted

IsNote(r, n) == Live(r) /\ r.kind = "note" /\ r.name = n

memory_read_note(n) ==
    IF note_index[n] = None THEN None
    ELSE IF Live(records[note_index[n]]) THEN records[note_index[n]].content ELSE None

\* The line that wins for an id: the latest time stamp, the last line on a tie.
Wins(ls, i, id) ==
    /\ ls[i][1] = id
    /\ \A j \in DOMAIN ls : ls[j][1] = id =>
          \/ ls[j][2].updated_at < ls[i][2].updated_at
          \/ ls[j][2].updated_at = ls[i][2].updated_at /\ j <= i

load_latest_records(ls) ==
    [id \in Id |-> IF \E i \in DOMAIN ls : Wins(ls, i, id)
                   THEN ls[CHOOSE i \in DOMAIN ls : Wins(ls, i, id)][2] ELSE None]

\* Both sorts are stable: of two notes with one time stamp the older id wins.
latest_note_by_name(n) ==
    LET latest == load_latest_records(lines)
        candidates == {id \in Id : IsNote(latest[id], n)}
    IN IF candidates = {} THEN None
       ELSE CHOOSE id \in candidates : \A other \in candidates :
               \/ latest[id].updated_at > latest[other].updated_at
               \/ latest[id].updated_at = latest[other].updated_at /\ id <= other

file_read_note(n) ==
    IF latest_note_by_name(n) = None THEN None
    ELSE load_latest_records(lines)[latest_note_by_name(n)].content

\* The ranking of search(): importance, then recency; the limit comes last.
Ranks(a, b) ==
    \/ Importance[records[a].kind] > Importance[records[b].kind]
    \/ /\ Importance[records[a].kind] = Importance[records[b].kind]
       /\ \/ records[a].updated_at > records[b].updated_at
          \/ records[a].updated_at = records[b].updated_at /\ a < b

Matching(scope) == {i \in Id : Live(records[i]) /\ records[i].scope = scope}

\* How many records of the scope a search lists before i.
Before(scope, i) == Cardinality({j \in Matching(scope) : Ranks(j, i)})

ranked(scope) ==
    [k \in 1..Cardinality(Matching(scope)) |->
        CHOOSE i \in Matching(scope) : Before(scope, i) = k - 1]

search(scope, limit) ==
    SubSeq(ranked(scope), 1, IF limit < Len(ranked(scope)) THEN limit ELSE Len(ranked(scope)))

\* Mutant: an item over the budget is passed by.
retrieve_context_pack_Skips(scope) ==
    FoldLeft(LAMBDA pack, id :
                LET cost == Tokens[records[id].content] IN
                IF pack.tokens_used + cost > TokenBudget
                     THEN [pack EXCEPT !.truncated = TRUE]
                ELSE [pack EXCEPT !.items = Append(@, id), !.tokens_used = @ + cost],
             [items |-> <<>>, tokens_used |-> 0, truncated |-> FALSE],
             search(scope, MaxItems))

\* retrieve_context_pack stops at the first item over the budget.
retrieve_context_pack(scope) ==
    FoldLeft(LAMBDA pack, id :
                LET cost == Tokens[records[id].content] IN
                IF pack.truncated THEN pack
                ELSE IF pack.tokens_used + cost > TokenBudget
                     THEN [pack EXCEPT !.truncated = TRUE]
                ELSE [pack EXCEPT !.items = Append(@, id), !.tokens_used = @ + cost],
             [items |-> <<>>, tokens_used |-> 0, truncated |-> FALSE],
             search(scope, MaxItems))

-----------------------------------------------------------------------------
(* Writing *)

\* The clock is read once for an operation.
ReadClock(t) ==
    /\ now' = t
    /\ ties' = ties + (IF t = now THEN 1 ELSE 0)
    /\ setbacks' = setbacks + (IF t < now THEN 1 ELSE 0)

sync_note_index(index, id, r) ==
    IF r.kind = "note" /\ ~r.deleted /\ r.name # None THEN [index EXCEPT ![r.name] = id] ELSE index

\* Mutant: a name that is given up stays in the index.
remove_stale_note_index_Keeps(index, name, id) == index

remove_stale_note_index(index, name, id) ==
    IF name # None /\ index[name] = id THEN [index EXCEPT ![name] = None] ELSE index

Faults == ties + setbacks + (IF restarted THEN 1 ELSE 0)

\* Ids are handed out in order; a uuid is never handed out twice.
FreshId == 1 + Max({0} \cup {i \in Id : records[i] # None \/ expected[i] # {None}})

MemoryWrite(id, r) ==
    /\ records' = [records EXCEPT ![id] = r]
    /\ note_index' = sync_note_index(note_index, id, r)

FileAppend(id, r) ==
    /\ lines' = Append(lines, <<id, r>>)
    /\ expected' = [expected EXCEPT ![id] = {r}]

WriteRecord(id, r) == MemoryWrite(id, r) /\ FileAppend(id, r) /\ UNCHANGED torn

\* Mutant: the rewrite leaves the deleted records out.
rewrite_records_LiveOnly(latest) ==
    LET ids == InOrder({i \in Id : Live(latest[i])})
    IN [k \in DOMAIN ids |-> <<ids[k], latest[ids[k]]>>]

\* The file as a rewrite leaves it: one line per id.
rewrite_records(latest) ==
    LET ids == InOrder({i \in Id : latest[i] # None})
    IN [k \in DOMAIN ids |-> <<ids[k], latest[ids[k]]>>]

\* FileMemoryStore.update and delete rewrite the file; they raise when a
\* line cannot be read.
FileRewrite(id, r) ==
    IF torn \/ ~Live(load_latest_records(lines)[id]) THEN UNCHANGED <<lines, expected>>
    ELSE /\ lines' = rewrite_records([load_latest_records(lines) EXCEPT ![id] = r])
         /\ expected' = [expected EXCEPT ![id] = {r}]

new_record(kind, name, content, scope, t) ==
    [kind |-> kind, name |-> name, content |-> content, scope |-> scope,
     deleted |-> FALSE, updated_at |-> t]

\* tool_write_note and the resumed note: MemoryAgent.write_note never looks
\* for a note of that name, it writes a record of its own.
ToolWriteNote(n, c, scope, t) ==
    /\ FreshId \in Id
    /\ ReadClock(t)
    /\ WriteRecord(FreshId, new_record("note", n, c, scope, t))
    /\ UNCHANGED <<orphaned, restarted>>

\* save_fact, save_preference, save_decision; blank content is refused.
ToolSaveMemory(kind, c, scope, t) ==
    /\ c # Blank
    /\ FreshId \in Id
    /\ ReadClock(t)
    /\ WriteRecord(FreshId, new_record(kind, None, c, scope, t))
    /\ UNCHANGED <<orphaned, restarted>>

\* Another note carries the name that id gives up.
Orphans(id, n) == \E i \in Id \ {id} : IsNote(records[i], n)

\* store.write_note: the note of that name gets the content in place; when
\* there is none a record without user and session is written.
StoreWriteNote(n, c, t) ==
    LET m == note_index[n]
        f == latest_note_by_name(n)
        new == new_record("note", n, c, None, t)
    IN /\ FreshId \in Id
       /\ ReadClock(t)
       /\ IF memory_read_note(n) # None
          THEN /\ records' = [records EXCEPT ![m].content = c, ![m].updated_at = t]
               /\ UNCHANGED note_index
          ELSE MemoryWrite(FreshId, new)
       /\ IF torn THEN UNCHANGED <<lines, expected>>
          ELSE IF f = None THEN FileAppend(FreshId, new)
          ELSE FileRewrite(f, [load_latest_records(lines)[f] EXCEPT !.content = c, !.updated_at = t])
       /\ UNCHANGED <<torn, orphaned, restarted>>

\* update(): new content, or a new name in the metadata.
StoreUpdate(id, field, value, t) ==
    LET old == records[id]
        r == [old EXCEPT ![field] = value, !.updated_at = t]
    IN /\ Live(old)
       /\ field = "name" => old.kind = "note"
       /\ ReadClock(t)
       /\ records' = [records EXCEPT ![id] = r]
       /\ note_index' = sync_note_index(remove_stale_note_index(note_index, old.name, id), id, r)
       /\ FileRewrite(id, r)
       /\ orphaned' = (orphaned \/ (r.name # old.name /\ Orphans(id, old.name)))
       /\ UNCHANGED <<torn, restarted>>

StoreDelete(id, t) ==
    LET old == records[id]
        r == [old EXCEPT !.deleted = TRUE, !.updated_at = t]
    IN /\ Live(old)
       /\ ReadClock(t)
       /\ records' = [records EXCEPT ![id] = r]
       /\ note_index' = remove_stale_note_index(note_index, old.name, id)
       /\ FileRewrite(id, r)
       /\ orphaned' = (orphaned \/ (old.kind = "note" /\ Orphans(id, old.name)))
       /\ UNCHANGED <<torn, restarted>>

-----------------------------------------------------------------------------
(* The process dies: what was only in memory is gone *)

MemoryLost ==
    /\ records' = [i \in Id |-> None]
    /\ note_index' = [n \in Name |-> None]
    /\ restarted' = TRUE

\* ... while a line is appended: the line is missing, whole or torn.
DieInWrite(n, c, scope, outcome) ==
    LET r == new_record("note", n, c, scope, now) IN
    /\ Faults < MaxFaults
    /\ FreshId \in Id
    /\ MemoryLost
    /\ lines' = IF outcome = "whole" THEN Append(lines, <<FreshId, r>>) ELSE lines
    /\ torn' = (torn \/ outcome = "torn")
    /\ expected' = [expected EXCEPT ![FreshId] = {None, r}]
    /\ UNCHANGED <<now, ties, setbacks, orphaned>>

\* ... while the file is rewritten: the old file or the new one is there.
DieInDelete(id, replaced) ==
    LET r == [records[id] EXCEPT !.deleted = TRUE, !.updated_at = now] IN
    /\ Faults < MaxFaults
    /\ Live(records[id])
    /\ ~torn
    /\ MemoryLost
    /\ IF replaced THEN FileRewrite(id, r)
       ELSE lines' = lines /\ expected' = [expected EXCEPT ![id] = @ \cup {r}]
    /\ UNCHANGED <<torn, now, ties, setbacks, orphaned>>

Time == {t \in {now - 1, now, now + 1} \cap 0..MaxTime :
            t <= now => Faults < MaxFaults}

Next ==
    \/ \E n \in Name, c \in Content, scope \in Scope, t \in Time : ToolWriteNote(n, c, scope, t)
    \/ \E k \in SavedKind, c \in Content \cup {Blank}, scope \in Scope, t \in Time :
          ToolSaveMemory(k, c, scope, t)
    \/ \E n \in Name, c \in Content, t \in Time : StoreWriteNote(n, c, t)
    \/ \E id \in Id, c \in Content, t \in Time : StoreUpdate(id, "content", c, t)
    \/ \E id \in Id, n \in Name, t \in Time : StoreUpdate(id, "name", n, t)
    \/ \E id \in Id, t \in Time : StoreDelete(id, t)
    \/ \E n \in Name, c \in Content, scope \in Scope, outcome \in {"missing", "whole", "torn"} :
          DieInWrite(n, c, scope, outcome)
    \/ \E id \in Id, replaced \in BOOLEAN : DieInDelete(id, replaced)

Spec == Init /\ [][Next]_vars

-----------------------------------------------------------------------------
(* Properties *)

(* A caller cannot tell the two stores apart: every note reads the same    *)
(* and the same records are live, although one follows an index and the    *)
(* other compares time stamps.  This holds as long as the clock moves      *)
(* forward and no name is given up while an older note still carries it:   *)
(* then the file store falls back to the older note, the index forgets it. *)
StoresAgree ==
    ~restarted /\ ties + setbacks = 0 /\ ~orphaned =>
        /\ \A n \in Name : memory_read_note(n) = file_read_note(n)
        /\ load_latest_records(lines) = records

(* Nothing acknowledged is lost to a dying process or to a clock that is   *)
(* set back: a load returns for every record its last acknowledged         *)
(* version, or the one being written when the process died, or it raises.  *)
LoadReturnsAcknowledged ==
    ~torn =>
        \A id \in Id : load_latest_records(lines)[id] \in expected[id]

(* The context pack is the best that fits: within the budget, the scope's  *)
(* own live records only, nothing ranked higher left out, and cut short    *)
(* only when the next record does not fit or the item limit is reached.    *)
ContextPackIsBestPrefix ==
    \A scope \in Scope :
        LET pack == retrieve_context_pack(scope)
            chosen == {pack.items[i] : i \in DOMAIN pack.items}
            left_out == Matching(scope) \ chosen
            cost(S) == FoldLeft(LAMBDA sum, id : sum + Tokens[records[id].content], 0, SetToSeq(S))
        IN /\ chosen \subseteq Matching(scope)
           /\ cost(chosen) <= TokenBudget
           /\ \A a \in chosen, b \in left_out : Ranks(a, b)
           /\ left_out # {} =>
                 \/ Cardinality(chosen) = MaxItems
                 \/ /\ pack.truncated
                    /\ \E b \in left_out : cost(chosen \cup {b}) > TokenBudget
=============================================================================
