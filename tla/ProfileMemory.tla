---------------------------- MODULE ProfileMemory ---------------------------
(***************************************************************************)
(* What the assistant remembers about the user: confirmed profile records  *)
(* in the memory store, written by the handlers of the session runtime and *)
(* by the memory operations, and read back through a snapshot.             *)
(*                                                                         *)
(* The handlers decide from the text which operation a message is; here a  *)
(* message is the operation.  The store is read through searches that      *)
(* return a limited number of records, the important and then the newest   *)
(* first, so records are kept in the order they were written.  Spellings   *)
(* that the code normalises to one value are one value.                    *)
(***************************************************************************)
EXTENDS Integers, FiniteSets, Sequences, Ordered

CONSTANTS
    Thing,          \* what may be liked, known or wanted
    Person,
    Overlap,        \* pairs of goals whose words contain one another
    AiKey,          \* the goal "AI"
    AiRelated,      \* the goals related to AI; plain machine learning is not one
    Label,          \* relation labels in use
    LookupLimit,    \* limit of the searches for one name
    ScanLimit,      \* limit of the searches behind snapshot and conflict resolution
    WipeLimit,      \* limit of the searches of the wipe
    MaxFacts,       \* bound: records at one time
    Nobody

Value == Thing \cup Person

ASSUME LimitAssumption ==
    /\ LookupLimit \in Nat /\ ScanLimit \in Nat /\ WipeLimit \in Nat
    /\ LookupLimit < ScanLimit /\ ScanLimit <= WipeLimit

ASSUME ValueAssumption == Thing \cap Person = {} /\ Nobody \notin Value \cup Label

PositiveRelation == {"preference", "skill", "affection", "affection_to_user", "goal"}

Opposite ==
    [preference |-> "negative_preference", skill |-> "negative_skill",
     affection |-> "negative_affection", affection_to_user |-> "affection_to_user_negative",
     goal |-> "negative_goal"]

\* "I like X best" and "I like X more than Y"; the winner is the value.
Superlative == {"favorite_food", "favorite_general", "comparative"}

PlainRelation == {"occupation", "wants_to_eat", "temporal_today"}

Relation == PositiveRelation \cup {Opposite[r] : r \in PositiveRelation}
              \cup Superlative \cup PlainRelation \cup {"goal_focus", "name", "relation_name"}

ProfileRecord == [relation : Relation, label : Label \cup {Nobody}, value : Value]

VARIABLES
    facts,       \* the live profile records, oldest first
    said,        \* history: what the user last said of a value, per relation; a
                 \* new favorite replaces the former one
    kept,        \* history: goals the user was last told are kept
    removed,     \* history: <<label, person>> the user was told is removed
    crowded      \* history: more records than the searches return were live

profileVars == <<facts, said, kept, removed, crowded>>

ProfileTypeOK ==
    /\ facts \in Seq(ProfileRecord)
    /\ said \in [PositiveRelation \cup Superlative -> [Value -> {"yes", "no", "nothing"}]]
    /\ kept \subseteq Value
    /\ removed \subseteq Label \X Person
    /\ crowded \in BOOLEAN

ProfileInit ==
    /\ facts = <<>>
    /\ said = [r \in PositiveRelation \cup Superlative |-> [v \in Value |-> "nothing"]]
    /\ kept = {}
    /\ removed = {}
    /\ crowded = FALSE

-----------------------------------------------------------------------------
(* Searching and deleting *)

\* Preferences are records of a type of their own.
MemoryType(r) == IF r.relation = "preference" THEN "PREFERENCE" ELSE "FACT"

\* Names are saved with a higher importance.
importance(r) == IF r.relation \in {"name", "relation_name"} THEN 9 ELSE 8

OfType(fs, type) == {i \in DOMAIN fs : MemoryType(fs[i]) = type}

\* store.search for the profile records of a type.
search_profile(fs, type, limit) ==
    LET before(j, i) == \/ importance(fs[j]) > importance(fs[i])
                        \/ importance(fs[j]) = importance(fs[i]) /\ j > i
    IN {i \in OfType(fs, type) :
          Cardinality({j \in OfType(fs, type) : before(j, i)}) < limit}

Without(fs, indices) ==
    LET left == InOrder(DOMAIN fs \ indices)
    IN [k \in DOMAIN left |-> fs[left[k]]]

record(relation, label, value) == [relation |-> relation, label |-> label, value |-> value]

save_fact(fs, relation, value) == Append(fs, record(relation, Nobody, value))

\* _delete_profile_records, delete_affection_fact and delete_occupation_fact
delete_profile_records(fs, relations, values) ==
    Without(fs, {i \in search_profile(fs, "FACT", ScanLimit) :
                    fs[i].relation \in relations /\ fs[i].value \in values})

\* Conflicting preferences are looked for among both types of record.
resolve_preference_conflicts(fs, value, new_relation) ==
    LET opposite == IF new_relation = "preference" THEN "negative_preference" ELSE "preference"
    IN Without(fs, {i \in search_profile(fs, "FACT", ScanLimit) \cup search_profile(fs, "PREFERENCE", ScanLimit) :
                       fs[i].relation = opposite /\ fs[i].value = value})

resolve_skill_conflicts(fs, value, new_relation) ==
    delete_profile_records(fs, {IF new_relation = "skill" THEN "negative_skill" ELSE "skill"},
                           {value})

-----------------------------------------------------------------------------
(* The snapshot and the answers *)

\* The values remembered, by relation.  Of names and favorites the newest counts.
collect_profile_snapshot(fs) ==
    LET found == search_profile(fs, "FACT", ScanLimit) \cup search_profile(fs, "PREFERENCE", ScanLimit)
    IN [r \in Relation |-> {fs[i].value : i \in {i \in found : fs[i].relation = r}}]

Newest(fs, indices) == IF indices = {} THEN Nobody
                       ELSE fs[CHOOSE i \in indices : \A j \in indices : j <= i].value

newest_fact(fs, relation) ==
    Newest(fs, {i \in search_profile(fs, "FACT", ScanLimit) : fs[i].relation = relation})

goals(s) == s["goal"] \cup s["goal_focus"]

\* A comparison counts as a preference for its winner, a favorite in its domain.
Liked(fs, s) ==
    s["preference"] \cup s["comparative"]
      \cup {newest_fact(fs, "favorite_food"), newest_fact(fs, "favorite_general")}

answer_taste(fs, s, v) ==
    IF v \in s["negative_preference"] THEN "no"
    ELSE IF v \in Liked(fs, s) THEN "yes" ELSE "unknown"

\* "Do I like X?": the question about one thing asks for affection first ...
answer_preference(fs, s, v) ==
    IF v \in s["affection"] THEN "yes"
    ELSE IF v \in s["negative_affection"] THEN "no" ELSE answer_taste(fs, s, v)

\* ... and the question about several things for its retraction.
preference_item_state(fs, s, v) ==
    IF v \in s["negative_affection"] THEN "no"
    ELSE IF v \in s["affection"] THEN "yes" ELSE answer_taste(fs, s, v)

answer_skill(s, v) ==
    IF v \in s["skill"] THEN "yes" ELSE IF v \in s["negative_skill"] THEN "no" ELSE "unknown"

answer_third_party_affection(s, v) ==
    IF v \in s["affection_to_user"] THEN "yes"
    ELSE IF v \in s["affection_to_user_negative"] THEN "no" ELSE "unknown"

goal_keys_match(a, b) == a = b \/ <<a, b>> \in Overlap \/ <<b, a>> \in Overlap

\* "Do I do X?": occupations, goals, then retracted goals.
answer_self_do(s, v) ==
    LET match(S) == \E w \in S : goal_keys_match(v, w) IN
    IF match(s["occupation"]) \/ match(goals(s)) THEN "yes"
    ELSE IF match(s["negative_goal"]) THEN "no" ELSE "unknown"

-----------------------------------------------------------------------------
(* One message *)

Crowded(fs) ==
    \/ Cardinality(OfType(fs, "FACT")) > LookupLimit
    \/ Cardinality(OfType(fs, "PREFERENCE")) > ScanLimit

Keep(fs) ==
    /\ Len(fs) <= MaxFacts
    /\ facts' = fs
    /\ crowded' = (crowded \/ Crowded(fs))

Says(relation, values, what) ==
    said' = [said EXCEPT ![relation] = [v \in Value |-> IF v \in values THEN what ELSE @[v]]]

\* "I like X", "I do not like X", from the detectors and from a batch.
SavePreference(v, relation) ==
    /\ Keep(save_fact(resolve_preference_conflicts(facts, v, relation), relation, v))
    /\ Says("preference", {v}, IF relation = "preference" THEN "yes" ELSE "no")
    /\ UNCHANGED <<kept, removed>>

\* A favorite or a comparison is stored beside what is said of liking X: no
\* dislike of X is looked for.
SaveSuperlative(relation, v) ==
    /\ Keep(save_fact(facts, relation, v))
    /\ said' = [said EXCEPT ![relation] =
          [w \in Value |-> IF w = v THEN "yes"
                           ELSE IF relation = "comparative" THEN @[w] ELSE "nothing"]]
    /\ UNCHANGED <<kept, removed>>

\* "Now I do not like X any more": said again, it is not stored again.
UpdateDislike(v) ==
    /\ Keep(IF v \in collect_profile_snapshot(facts)["negative_preference"] THEN facts
            ELSE save_fact(resolve_preference_conflicts(facts, v, "negative_preference"),
                           "negative_preference", v))
    /\ Says("preference", {v}, "no")
    /\ UNCHANGED <<kept, removed>>

SaveSkill(v, relation) ==
    /\ Keep(save_fact(resolve_skill_conflicts(facts, v, relation), relation, v))
    /\ Says("skill", {v}, IF relation = "skill" THEN "yes" ELSE "no")
    /\ UNCHANGED <<kept, removed>>

save_affection_fact(fs, p) ==
    save_fact(delete_profile_records(fs, {"negative_affection"}, {p}), "affection", p)

save_negative_affection_fact(fs, p) ==
    save_fact(delete_profile_records(fs, {"affection"}, {p}), "negative_affection", p)

SaveAffection(p) ==
    /\ Keep(save_affection_fact(facts, p))
    /\ Says("affection", {p}, "yes")
    /\ UNCHANGED <<kept, removed>>

\* The memory operation stores an affection that is already active only once.
AddAffection(p) ==
    /\ Keep(IF p \in collect_profile_snapshot(facts)["affection"] THEN facts
            ELSE save_affection_fact(facts, p))
    /\ Says("affection", {p}, "yes")
    /\ UNCHANGED <<kept, removed>>

\* "I do not like P any more", whether or not an affection is active.
RemoveAffection(p) ==
    /\ Keep(save_negative_affection_fact(facts, p))
    /\ Says("affection", {p}, "no")
    /\ UNCHANGED <<kept, removed>>

RemoveAllAffections ==
    /\ Keep(delete_profile_records(facts, {"affection"}, Value))
    /\ Says("affection", Value, "no")
    /\ UNCHANGED <<kept, removed>>

save_external_affection_fact(fs, p) ==
    save_fact(delete_profile_records(fs, {"affection_to_user_negative"}, {p}),
              "affection_to_user", p)

\* Mutant: a denial does not take back the earlier report.
save_negative_external_affection_fact_Keeps(fs, p) ==
    save_fact(fs, "affection_to_user_negative", p)

save_negative_external_affection_fact(fs, p) ==
    save_fact(delete_profile_records(fs, {"affection_to_user"}, {p}),
              "affection_to_user_negative", p)

SaveExternalAffection(p, negated) ==
    /\ Keep(IF negated THEN save_negative_external_affection_fact(facts, p)
            ELSE save_external_affection_fact(facts, p))
    /\ Says("affection_to_user", {p}, IF negated THEN "no" ELSE "yes")
    /\ UNCHANGED <<kept, removed>>

\* "P likes me and I like P": both edges.
SaveMutualAffection(p) ==
    /\ Keep(save_affection_fact(save_external_affection_fact(facts, p), p))
    /\ said' = [said EXCEPT !["affection_to_user"][p] = "yes", !["affection"][p] = "yes"]
    /\ UNCHANGED <<kept, removed>>

-----------------------------------------------------------------------------
(* Goals *)

GoalRelation == {"goal", "goal_focus"}

goal_already_active(fs, v) == v \in goals(collect_profile_snapshot(fs))

\* The goals a key takes back: those whose words contain the key's or the
\* reverse, and for "AI" everything related to it.
MatchingGoals(key) ==
    {w \in Value : goal_keys_match(w, key) \/ (key = AiKey /\ w \in AiRelated)}

delete_goal_facts(fs, key) == delete_profile_records(fs, GoalRelation, MatchingGoals(key))

add_goal(fs, v) == IF goal_already_active(fs, v) THEN fs ELSE save_fact(fs, "goal", v)

AddGoal(v) ==
    /\ Keep(add_goal(facts, v))
    /\ Says("goal", {v}, "yes")
    /\ UNCHANGED <<kept, removed>>

\* "I intend to do X" also withdraws the retraction.
IntendGoal(v) ==
    /\ Keep(save_fact(delete_profile_records(facts, {"negative_goal"}, {v}), "goal", v))
    /\ Says("goal", {v}, "yes")
    /\ UNCHANGED <<kept, removed>>

\* "I no longer intend to do X": exactly X.
RetractGoal(v) ==
    /\ Keep(save_fact(delete_profile_records(
                delete_profile_records(facts, {"goal"}, {v}), {"goal_focus"}, {v}),
                "negative_goal", v))
    /\ Says("goal", {v}, "no")
    /\ kept' = kept \ {v}
    /\ UNCHANGED removed

\* REMOVE goal, REMOVE occupation: what one does not find the other looks for.
RemoveGoalOrOccupation(v, goalFirst) ==
    LET withoutGoal == delete_goal_facts(facts, v)
        withoutOccupation == delete_profile_records(facts, {"occupation"}, {v})
        hitGoal == IF goalFirst THEN withoutGoal # facts ELSE withoutOccupation = facts
    IN /\ withoutGoal # facts \/ withoutOccupation # facts
       /\ Keep(IF hitGoal THEN withoutGoal ELSE withoutOccupation)
       /\ IF hitGoal THEN Says("goal", MatchingGoals(v), "no") ELSE UNCHANGED said
       /\ kept' = IF hitGoal THEN kept \ MatchingGoals(v) ELSE kept
       /\ UNCHANGED removed

\* "Not X any more but Y", "only Y".
SwitchGoal(old, v, all) ==
    LET gone == IF all THEN Value ELSE MatchingGoals(old) IN
    /\ Keep(add_goal(IF all THEN delete_profile_records(facts, GoalRelation, Value)
                     ELSE delete_goal_facts(facts, old), v))
    /\ said' = [said EXCEPT !["goal"] =
          [w \in Value |-> IF w = v THEN "yes" ELSE IF w \in gone THEN "no" ELSE @[w]]]
    /\ kept' = kept \ gone
    /\ UNCHANGED removed

\* "I want X and not Z" in one batch: the goals are added first.
AddAndRemoveGoal(v, key) ==
    /\ v # key
    /\ Keep(delete_goal_facts(add_goal(facts, v), key))
    /\ said' = [said EXCEPT !["goal"] =
          [w \in Value |-> IF w \in MatchingGoals(key) THEN "no" ELSE IF w = v THEN "yes" ELSE @[w]]]
    /\ kept' = kept \ MatchingGoals(key)
    /\ UNCHANGED removed

\* save_goal_focus: the former focus is deleted; the user is told that the
\* other goals are kept.
FocusGoal(v) ==
    LET active == goals(collect_profile_snapshot(facts)) IN
    /\ Keep(save_fact(delete_profile_records(facts, {"goal_focus"}, Value), "goal_focus", v))
    /\ kept' = active \cup {v}
    /\ said' = [said EXCEPT !["goal"] =
          [w \in Value |-> IF w = v THEN "yes"
                           ELSE IF w \in active \ goals(collect_profile_snapshot(facts'))
                           THEN "nothing" ELSE @[w]]]
    /\ UNCHANGED removed

-----------------------------------------------------------------------------
(* Facts without an opposite *)

SavePlain(relation, v) ==
    /\ Keep(save_fact(facts, relation, v))
    /\ UNCHANGED <<said, kept, removed>>

\* "I do not want to eat X any more", "not today", "I am not a farmer"
RemovePlain(relation, v) ==
    /\ v \in collect_profile_snapshot(facts)[relation]
    /\ Keep(delete_profile_records(facts, {relation}, {v}))
    /\ UNCHANGED <<said, kept, removed>>

-----------------------------------------------------------------------------
(* Names and relations *)

\* A friend may be one of several; some labels stand for others.
get_lookup_labels(label) ==
    IF label \in {"nguoi yeu", "partner"}
    THEN {"ban gai", "ban trai", "nguoi yeu", "partner"} ELSE {label}

Named(fs, labels) ==
    {i \in search_profile(fs, "FACT", LookupLimit) :
        fs[i].relation = "relation_name" /\ fs[i].label \in labels}

find_existing_profile_value(fs, label) ==
    IF label = Nobody THEN Newest(fs, {i \in search_profile(fs, "FACT", LookupLimit) : fs[i].relation = "name"})
    ELSE Newest(fs, Named(fs, {label}))

\* Only the first record found is deleted: the newest under any of the labels.
delete_relation_fact(fs, label) ==
    LET found == Named(fs, get_lookup_labels(label)) IN
    IF found = {} THEN fs ELSE Without(fs, {CHOOSE i \in found : \A j \in found : j <= i})

save_relation(fs, label, p) == Append(fs, record("relation_name", label, p))

\* Mutant: the old relation stays.
save_relation_update_Appends(fs, label, p) == save_relation(fs, label, p)

save_relation_update(fs, label, p) == save_relation(delete_relation_fact(fs, label), label, p)

NotRemoved(label, p) == removed' = removed \ {<<label, p>>}

SaveName(p, update) ==
    /\ update \/ find_existing_profile_value(facts, Nobody) = Nobody
    /\ Keep(save_fact(facts, "name", p))
    /\ UNCHANGED <<said, kept, removed>>

\* A relation claimed for the first time is saved, another one refused.
SaveRelation(label, p) ==
    /\ find_existing_profile_value(facts, label) = Nobody
    /\ Keep(save_relation(facts, label, p))
    /\ NotRemoved(label, p)
    /\ UNCHANGED <<said, kept>>

\* "My girlfriend is P" updates; friends are added.
AssertRelation(label, p) ==
    LET existing == find_existing_profile_value(facts, label) IN
    /\ existing # p
    /\ Keep(IF existing = Nobody \/ label = "ban" THEN save_relation(facts, label, p)
            ELSE save_relation_update(facts, label, p))
    /\ NotRemoved(label, p)
    /\ UNCHANGED <<said, kept>>

UpdateRelation(label, p) ==
    /\ Keep(save_relation_update(facts, label, p))
    /\ NotRemoved(label, p)
    /\ UNCHANGED <<said, kept>>

\* "P is not my girlfriend": only if P is the one found under that label.
RemoveRelation(label, p) ==
    /\ find_existing_profile_value(facts, label) = p
    /\ Keep(delete_relation_fact(facts, label))
    /\ removed' = removed \cup {<<label, p>>}
    /\ UNCHANGED <<said, kept>>

DeleteAllProfileMemory ==
    /\ Keep(Without(facts, search_profile(facts, "FACT", WipeLimit) \cup search_profile(facts, "PREFERENCE", WipeLimit)))
    /\ said' = [r \in PositiveRelation \cup Superlative |-> [v \in Value |-> "nothing"]]
    /\ kept' = {}
    /\ UNCHANGED removed

-----------------------------------------------------------------------------
(* The messages, by what they are about *)

LikesNext ==
    \/ \E v \in Thing, r \in {"preference", "negative_preference"} : SavePreference(v, r)
    \/ \E v \in Thing : UpdateDislike(v)
    \/ \E v \in Thing, r \in Superlative : SaveSuperlative(r, v)

AbilitiesNext ==
    \/ \E v \in Thing, r \in {"skill", "negative_skill"} : SaveSkill(v, r)
    \/ \E v \in Thing, r \in PlainRelation :
          SavePlain(r, v) \/ RemovePlain(r, v)

AffectionsNext ==
    \/ \E p \in Person : SaveAffection(p) \/ AddAffection(p) \/ RemoveAffection(p)
                            \/ SaveMutualAffection(p)
    \/ \E p \in Person, negated \in BOOLEAN : SaveExternalAffection(p, negated)
    \/ RemoveAllAffections

GoalsNext ==
    \/ \E v \in Thing : AddGoal(v) \/ IntendGoal(v) \/ RetractGoal(v) \/ FocusGoal(v)
    \/ \E v \in Thing, goalFirst \in BOOLEAN : RemoveGoalOrOccupation(v, goalFirst)
    \/ \E old, v \in Thing, all \in BOOLEAN : SwitchGoal(old, v, all)
    \/ \E v, key \in Thing : AddAndRemoveGoal(v, key)
    \/ \E v \in Thing : SavePlain("occupation", v)

NamesNext == \E p \in Person, update \in BOOLEAN : SaveName(p, update)

RelationsNext ==
    \E label \in Label, p \in Person :
       \/ SaveRelation(label, p) \/ AssertRelation(label, p)
       \/ UpdateRelation(label, p) \/ RemoveRelation(label, p)

ProfileNext ==
    \/ LikesNext \/ AbilitiesNext \/ AffectionsNext \/ GoalsNext \/ NamesNext
    \/ RelationsNext \/ DeleteAllProfileMemory

ProfileSpec == ProfileInit /\ [][ProfileNext]_profileVars

-----------------------------------------------------------------------------
(* Properties *)

Agrees(what, answer) == what \in {"yes", "no"} => answer = what

(* The assistant answers what the user said, through every write path, as  *)
(* long as all records fit the searches.  Of plain likes and dislikes, of   *)
(* skills and of feelings the last one said counts: the new polarity has    *)
(* removed the old one everywhere, so that the two ways of asking about a   *)
(* person, which look in opposite orders, agree.  A favorite or the winner  *)
(* of a comparison is liked, unless a dislike of it stands: only a plain "I *)
(* like" takes a dislike back, a later "I like it best" does not.  A goal   *)
(* that was only removed may be unknown, and a goal may be answered by      *)
(* another one with the same words.                                         *)
AnswersWhatWasSaid ==
    LET s == collect_profile_snapshot(facts)
        favored(v) == \E r \in Superlative : said[r][v] = "yes"
    IN ~crowded =>
        /\ \A v \in Thing :
              /\ Agrees(said["preference"][v], answer_preference(facts, s, v))
              /\ said["preference"][v] = "nothing" /\ favored(v) =>
                    answer_preference(facts, s, v) = "yes"
              /\ Agrees(said["skill"][v], answer_skill(s, v))
              /\ said["goal"][v] = "yes" => answer_self_do(s, v) = "yes"
              /\ said["goal"][v] = "no" => v \notin goals(s)
        /\ \A p \in Person :
              /\ said["affection"][p] = "yes" => answer_preference(facts, s, p) = "yes"
              /\ said["affection"][p] = "no" => answer_preference(facts, s, p) # "yes"
              /\ answer_preference(facts, s, p) = preference_item_state(facts, s, p)
              /\ Agrees(said["affection_to_user"][p], answer_third_party_affection(s, p))

(* What the user was told is removed is removed: a person taken back from  *)
(* a label without synonyms is not named under it again.  For a label that *)
(* stands for others the newest of all of them is deleted instead.         *)
RemovalForgets ==
    ~crowded =>
        \A label \in Label, p \in Person :
            <<label, p>> \in removed /\ get_lookup_labels(label) = {label} /\ label # "ban" =>
                find_existing_profile_value(facts, label) # p

(* Setting a goal as the main one keeps the other goals, as save_goal_focus *)
(* says and as the user is told.                                            *)
FocusKeepsGoals == ~crowded => kept \subseteq goals(collect_profile_snapshot(facts))
=============================================================================
