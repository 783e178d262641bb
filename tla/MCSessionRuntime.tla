--------------------------- MODULE MCSessionRuntime -------------------------
(***************************************************************************)
(* SessionRuntime for TLC: every conversation of three turns, and those of *)
(* four turns that keep to what one kind of pending state is about (a wipe *)
(* of a fact and its continuation, a question for a note's name).          *)
(* The bounds MaxTurns and MaxRuns end a behaviour, and so may the user.   *)
(***************************************************************************)
EXTENDS SessionRuntime

VARIABLE topic

AllMessages == Message

Topic == {"wipe", "note", "any"}

\* The lanes that a conversation on a topic takes.
Lanes ==
    [wipe |-> {"memory_delete_confirm", "memory_deleted_all", "memory_delete_cancelled",
               "memory_query_while_delete_pending", "fact_saved", "continuation_saved",
               "dedicated"},
     note |-> {"note_clarified", "pending_note_cancelled", "pending_note_reprompt",
               "pending_note_name_resolved", "memory_delete_confirm", "dedicated"},
     any |-> Marker]

OnTopic ==
    log' # log =>
        /\ log'[Len(log')].marker \in Lanes[topic]
        /\ topic = "any" => Len(log) < MaxTurns - 1

MCInit == Init /\ topic \in Topic

MCNext == Next /\ OnTopic /\ UNCHANGED topic

MCSpec == MCInit /\ [][MCNext]_<<vars, topic>>

=============================================================================
