------------------------------- MODULE MCMemory -----------------------------
(* The stores and the profile kept in them, each explored on its own: the  *)
(* stores with every kind of record, the profile over a store that keeps   *)
(* what it is given.  The messages about one subject touch no record of    *)
(* another, so the subjects are explored one at a time.  A profile whose    *)
(* records have once crowded the searches is not followed: nothing is      *)
(* claimed of its answers.                                                 *)
EXTENDS MemoryStores, ProfileMemory, TLC

VARIABLE part

MemoryInit ==
    /\ part \in {"stores", "likes", "abilities", "affections", "goals", "names", "relations"}
    /\ Init
    /\ ProfileInit

MemoryNext ==
    /\ UNCHANGED part
    /\ \/ part = "stores" /\ Next /\ UNCHANGED profileVars
       \/ /\ ~crowded
          /\ \/ part = "likes" /\ LikesNext
             \/ part = "abilities" /\ AbilitiesNext
             \/ part = "affections" /\ AffectionsNext
             \/ part = "goals" /\ GoalsNext
             \/ part = "names" /\ NamesNext
             \/ part = "relations" /\ RelationsNext
             \/ part # "stores" /\ DeleteAllProfileMemory
          /\ UNCHANGED vars

MemorySpec == MemoryInit /\ [][MemoryNext]_<<part, vars, profileVars>>

-----------------------------------------------------------------------------
\* Two of the smaller texts fill a pack; the larger one never fits.
MCTokens == [c \in Content |-> IF c = CHOOSE x \in Content : TRUE THEN 1 ELSE 3]

\* The words of one goal contain those of another; the third is an AI goal
\* whose words say nothing of it.
MCOverlap == {<<"ai", "ai agent">>}

MemorySymmetry == Permutations(Name) \cup Permutations(Scope) \cup Permutations(Person)
=============================================================================
