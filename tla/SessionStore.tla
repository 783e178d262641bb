---------------------------- MODULE SessionStore ----------------------------
(***************************************************************************)
(* What the session runtime relies on: a session is one register that      *)
(* holds whole documents.  A save takes effect in one step or not at all   *)
(* and only ever adds a turn; a power loss may take the register back, but *)
(* never behind the last save that was synced, and never to anything but a *)
(* document that was saved.                                                *)
(***************************************************************************)
EXTENDS Integers, Sequences

CONSTANTS
    Time,     \* the readings of the wall clock
    NoFile    \* the session was never saved

VARIABLES
    stored,     \* what a load returns
    possible    \* what a load may return after a power loss

vars == <<stored, possible>>

Document == [created_at : Time, updated_at : Time, turns : Seq(Time)]

Init == stored = NoFile /\ possible = {NoFile}

(* The document saved repeats the stored one and adds the new turn.        *)
Adds(d) ==
    LET n == Len(d.turns) IN
    /\ n >= 1
    /\ stored = NoFile => n = 1
    /\ stored # NoFile => /\ d.created_at = stored.created_at
                          /\ SubSeq(d.turns, 1, n - 1) = stored.turns

Save ==
    /\ stored' \in Document /\ Adds(stored')
    /\ possible' = possible \cup {stored'}

Sync ==
    /\ possible' = {stored}
    /\ UNCHANGED stored

PowerLoss ==
    /\ stored' \in possible
    /\ possible' = {stored'}

Next == Save \/ Sync \/ PowerLoss

Spec == Init /\ [][Next]_vars
=============================================================================
