------------------------------ MODULE MCWebChat -----------------------------
EXTENDS WebChat, TLC

St(value, kind, negative) == [value |-> value, kind |-> kind, negative |-> negative]

(* A skill; its opposite with a liking; the opposite of the liking.        *)
MCBatch == {<<St("python", "skill", FALSE)>>,
            <<St("python", "skill", TRUE), St("tea", "preference", FALSE)>>,
            <<St("tea", "preference", TRUE)>>}

Symmetry == Permutations(Request) \cup Permutations(Session) \cup Permutations(Project)
=============================================================================
