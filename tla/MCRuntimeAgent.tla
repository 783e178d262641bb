--------------------------- MODULE MCRuntimeAgent ---------------------------
(***************************************************************************)
(* RuntimeAgent wired in two ways.  With injected parts, as the            *)
(* constructor allows: a registry with a high-risk, a mutating and an      *)
(* approval-gated tool, a client that answers, degrades or raises (or no   *)
(* client), a candidate collector, and a planner that returns good,        *)
(* malformed and over-long plans.  And with the repository's own planner,  *)
(* tools and backends: every intent, with every subset of its slots        *)
(* filled, on each backend, the texts holding a reference or none.         *)
(***************************************************************************)
EXTENDS RuntimeAgent

CONSTANT UserText      \* what the user may write as a note's name, content or query

P == INSTANCE IntentPlanner

MCToolName == P!AllTools

InjectedTool == {"CALCULATE", "WRITE_NOTE", "READ_NOTE", "WEB_SEARCH", "FINISH"}

Tool(mutates, risk, approval) ==
    [required_args |-> {"a"}, allowed_args |-> {"a", "b"},
     mutates_state |-> mutates, risk_level |-> risk,
     requires_approval |-> approval]

(* SUMMARIZE is not registered; WEB_SEARCH is registered as high-risk.     *)
MCSpecs == [t \in InjectedTool |->
    CASE t = "CALCULATE" -> Tool(FALSE, "LOW", TRUE)
      [] t = "WRITE_NOTE" -> Tool(TRUE, "MEDIUM", FALSE)
      [] t = "WEB_SEARCH" -> Tool(FALSE, "HIGH", FALSE)
      [] OTHER -> Tool(FALSE, "LOW", FALSE)]

InjectedBackends == {[specs |-> MCSpecs, packs |-> p, collects |-> c] :
                        p \in {{}, {"fresh", "degraded", "raises"}}, c \in BOOLEAN}
OwnBackends == {P!Backend(b) : b \in {"local", "none", "remote"}}
MCBackends == InjectedBackends \cup OwnBackends

S(id, action, deps, args, placeholder) ==
    [id |-> id, action |-> action, depends_on |-> deps, args |-> args,
     placeholder |-> placeholder, text |-> {}]
Good(id, action) == S(id, action, {}, {"a"}, "none")

GoodPlans == {
    <<Good(1, "CALCULATE"), S(2, "WRITE_NOTE", {1}, {"a", "b"}, "CALCULATE"),
      S(3, "FINISH", {1, 2}, {"a"}, "$slot.calc_result")>>,
    <<Good(1, "READ_NOTE"), S(2, "FINISH", {}, {"a"}, "$last_text"),
      Good(3, "WRITE_NOTE")>>,
    <<Good(1, "WRITE_NOTE"), Good(2, "READ_NOTE")>>,
    <<S(1, "FINISH", {}, {"a"}, "$slot.calc_result")>>,
    <<Good(1, "READ_NOTE"), S(2, "FINISH", {}, {"a"}, "CALCULATE")>>,
    <<Good(1, "WRITE_NOTE"), Good(2, "WEB_SEARCH"), Good(3, "FINISH")>>,
    <<Good(1, "READ_NOTE"), Good(2, "WRITE_NOTE"), Good(3, "CALCULATE"),
      Good(4, "FINISH")>> }
BadPlans == {
    <<>>,
    <<Good(1, "READ_NOTE"), Good(1, "FINISH")>>,
    <<Good(1, "SUMMARIZE")>>,
    <<S(1, "READ_NOTE", {2}, {"a"}, "none"), Good(2, "FINISH")>>,
    <<S(1, "FINISH", {}, {}, "none")>>,
    <<S(1, "FINISH", {}, {"a", "c"}, "none")>> }

Slots == {"expression", "note_name", "content", "query"}
OwnPlans(s) == {P!make_plan(i, f, n, t, s) :
    i \in P!IntentName, f \in SUBSET Slots, n \in UserText, t \in UserText}

(* A plain text, one whole reference, and a text with one inside.          *)
References == {"$last_text", "$last.success", "$slot.calc_result", "CALCULATE",
               "unknown"}
MCUserText == {P!Plain} \cup
    {[whole |-> w, refs |-> {ref}] : w \in BOOLEAN, ref \in References}

OwnPlansOf == [s \in {b.specs : b \in OwnBackends} |-> OwnPlans(s)]

MCPlansFor(s) == IF s = MCSpecs THEN GoodPlans \cup BadPlans ELSE OwnPlansOf[s]

(* A registry of the repository goes with its planner, and the step budget *)
(* (five by default) is enough for the longest of its plans.               *)
ASSUME OwnWiringAssumption ==
    /\ \A b \in OwnBackends : PlansFor(b.specs) \subseteq OwnPlans(b.specs)
    /\ MaxSteps >= 3

(* The planner's placeholders agree with what the earlier steps of its own *)
(* plans leave behind: resolve_args refuses a step only for a reference in *)
(* the user's own text, and once a note was written only for a note whose  *)
(* name quotes the calculation's output, in the answer that repeats it.  No*)
(* tool is missing, the step budget is never exceeded, and a durable tool  *)
(* runs only on the backend that keeps what it writes.                     *)
OnlyUserTextUnresolved ==
    backend \in OwnBackends =>
        /\ \A k \in DOMAIN observations :
              /\ observations[k].error # "UnknownTool"
              /\ observations[k].error = "ValueError" =>
                    /\ plan[k].text \ {"$last_text"} # {}
                    /\ (\E c \in DOMAIN calls : calls[c].tool \in MEMORY_ACTIONS)
                          => plan[k].action = "FINISH" /\ "CALCULATE" \in plan[k].text
        /\ \A k \in DOMAIN errors : errors[k] # "max_steps_exceeded"
        /\ \A k \in DOMAIN calls :
              calls[k].tool \in P!LOCAL_DURABLE_TOOLS => backend = P!Backend("local")
=============================================================================
