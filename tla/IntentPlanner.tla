--------------------------- MODULE IntentPlanner ---------------------------
(***************************************************************************)
(* The repository's own planner and registry, as operators: the thirteen   *)
(* built-in ToolSpecs, the registry each memory backend resolves, the      *)
(* skill catalog partitioned by that registry, and the plan that           *)
(* SkillAwareIntentPlanner (with IntentPlanner as its fallback) makes for  *)
(* a parsed intent.  Texts are dropped; argument names, the placeholder    *)
(* the planner puts into an argument and the references the user's own     *)
(* text may hold are kept, for they decide validation and resolution.      *)
(***************************************************************************)
EXTENDS Integers, Sequences

LOCAL_DURABLE_TOOLS == {"WRITE_NOTE", "READ_NOTE", "LIST_NOTES", "SAVE_FACT",
    "SAVE_PREFERENCE", "SAVE_DECISION", "SEARCH_MEMORY", "SUMMARIZE_MEMORY"}
AllTools == LOCAL_DURABLE_TOOLS \cup {"CALCULATE", "SUMMARIZE", "WEB_SEARCH",
                                      "FINISH", "ANSWER_FROM_CONTEXT"}

spec(required, optional, mutates) ==
    [required_args |-> required, allowed_args |-> required \cup optional,
     mutates_state |-> mutates, risk_level |-> "LOW",
     requires_approval |-> FALSE]

builtin_tool_specs == [t \in AllTools |->
    CASE t = "CALCULATE" -> spec({"expression"}, {}, FALSE)
      [] t = "WRITE_NOTE" -> spec({"name", "content"}, {}, TRUE)
      [] t = "READ_NOTE" -> spec({"name"}, {}, FALSE)
      [] t = "LIST_NOTES" -> spec({}, {}, FALSE)
      [] t \in {"SAVE_FACT", "SAVE_PREFERENCE", "SAVE_DECISION"}
           -> spec({"content"}, {"tags"}, TRUE)
      [] t = "SEARCH_MEMORY" -> spec({"query"}, {"limit"}, FALSE)
      [] t = "SUMMARIZE_MEMORY" -> spec({}, {"query", "limit"}, FALSE)
      [] t = "SUMMARIZE" -> spec({"text"}, {}, FALSE)
      [] t = "WEB_SEARCH" -> spec({"query"}, {"max_results"}, FALSE)
      [] t = "FINISH" -> spec({"answer"}, {}, FALSE)
      [] t = "ANSWER_FROM_CONTEXT" -> spec({"query"}, {}, FALSE)]

build_tool_registry(disabled) ==
    [t \in AllTools \ disabled |-> builtin_tool_specs[t]]

(* build_memory_backend: what each backend wires in.  The local client     *)
(* always answers a degraded pack, the null client never does, the remote  *)
(* one answers, degrades or raises.  No production agent collects          *)
(* candidates.                                                             *)
Backend(name) ==
    CASE name = "local" -> [specs |-> build_tool_registry({}),
                            packs |-> {"degraded"}, collects |-> FALSE]
      [] name = "none" -> [specs |-> build_tool_registry(LOCAL_DURABLE_TOOLS),
                           packs |-> {"fresh"}, collects |-> FALSE]
      [] name = "remote" -> [specs |-> build_tool_registry(LOCAL_DURABLE_TOOLS),
                             packs |-> {"fresh", "degraded", "raises"},
                             collects |-> FALSE]

-----------------------------------------------------------------------------
(* A text of the user, by the references the resolver finds in it.  The    *)
(* whole text may be one reference ($last.x, $slot.x), which is looked up  *)
(* only where the text is the argument; a ${...} is looked up also where   *)
(* the planner quotes the text in a longer one.                            *)
Plain == [whole |-> FALSE, refs |-> {}]
Quoted(text) == IF text.whole THEN {} ELSE text.refs

(* Steps get fresh uuids and no dependencies: the position serves as id.   *)
step(action, args, placeholder, text) ==
    [action |-> action, args |-> args, placeholder |-> placeholder, text |-> text]
AsPlan(steps) ==
    [i \in DOMAIN steps |-> [id |-> i, depends_on |-> {},
        action |-> steps[i].action, args |-> steps[i].args,
        placeholder |-> steps[i].placeholder, text |-> steps[i].text]]

finish(placeholder) == step("FINISH", {"answer"}, placeholder, {})

REQUIRED_SLOTS(intent) ==
    CASE intent = "calculate" -> {"expression"}
      [] intent = "calculate_then_save_note" -> {"expression", "note_name"}
      [] intent \in {"read_note", "read_note_then_summarize"} -> {"note_name"}
      [] intent = "write_note" -> {"note_name", "content"}
      [] intent = "web_search_then_save_note" -> {"query", "note_name"}
      [] intent \in {"web_search", "project_context_query"} -> {"query"}
      [] OTHER -> {}

IntentName == {"calculate", "calculate_then_save_note", "read_note",
    "read_note_then_summarize", "write_note", "web_search",
    "web_search_then_save_note", "project_context_query", "greeting", "unknown"}

(* SlotValidator: a parsed intent with the slots the parser filled.        *)
missing_slots(intent, filled) == REQUIRED_SLOTS(intent) \ filled

(* Mutant: the answer is looked up in the output of an earlier step.       *)
SkillPlan_StalePath(intent, note_name, text) ==
    CASE intent = "calculate_then_save_note" ->
           <<step("CALCULATE", {"expression"}, "none", {}),
             step("WRITE_NOTE", {"name", "content"}, "$last_text", note_name.refs),
             step("FINISH", {"answer"}, "CALCULATE", Quoted(note_name))>>
      [] intent = "read_note_then_summarize" ->
           <<step("READ_NOTE", {"name"}, "none", note_name.refs),
             step("SUMMARIZE", {"text"}, "READ_NOTE", {}),
             finish("SUMMARIZE")>>
      [] intent = "web_search" ->
           <<step("WEB_SEARCH", {"query", "max_results"}, "none", text.refs),
             finish("$last_text")>>

(* note_name is the user's name for the note, text the content or query.   *)
SkillPlan(intent, note_name, text) ==
    CASE intent = "calculate_then_save_note" ->
           <<step("CALCULATE", {"expression"}, "none", {}),
             step("WRITE_NOTE", {"name", "content"}, "$last_text", note_name.refs),
             step("FINISH", {"answer"}, "$slot.calc_result", Quoted(note_name))>>
      [] intent = "read_note_then_summarize" ->
           <<step("READ_NOTE", {"name"}, "none", note_name.refs),
             step("SUMMARIZE", {"text"}, "READ_NOTE", {}),
             finish("SUMMARIZE")>>
      [] intent = "web_search" ->
           <<step("WEB_SEARCH", {"query", "max_results"}, "none", text.refs),
             finish("$last_text")>>

SkillIntents ==
    {"calculate_then_save_note", "read_note_then_summarize", "web_search"}

required_tools(intent) == {SkillPlan(intent, Plain, Plain)[i].action :
                              i \in DOMAIN SkillPlan(intent, Plain, Plain)}

(* SkillCatalog.from_specs: a skill is active when the registry has all of *)
(* its tools, and disabled otherwise.                                      *)
active(intent, specs) ==
    intent \in SkillIntents /\ required_tools(intent) \subseteq DOMAIN specs

(* An expression holds digits and operators only; the query about the      *)
(* project is the sentence that starts with it, never one whole reference. *)
FallbackPlan(intent, note_name, text) ==
    CASE intent = "calculate" ->
           <<step("CALCULATE", {"expression"}, "none", {}), finish("CALCULATE")>>
      [] intent = "read_note" ->
           <<step("READ_NOTE", {"name"}, "none", note_name.refs),
             finish("$last_text")>>
      [] intent = "write_note" ->
           <<step("WRITE_NOTE", {"name", "content"}, "none",
                  note_name.refs \cup text.refs),
             step("FINISH", {"answer"}, "none", Quoted(note_name))>>
      [] intent = "project_context_query" ->
           <<step("ANSWER_FROM_CONTEXT", {"query"}, "none", Quoted(text)),
             finish("ANSWER_FROM_CONTEXT")>>
      [] OTHER -> <<finish("none")>>

(* Clarification first, then an active skill, then the unavailable answer  *)
(* of a disabled one, then the fallback planner.                           *)
make_plan(intent, filled, note_name, text, specs) == AsPlan(
    IF missing_slots(intent, filled) # {} THEN <<finish("none")>>
    ELSE IF active(intent, specs) THEN SkillPlan(intent, note_name, text)
    ELSE IF intent \in SkillIntents THEN <<finish("none")>>
    ELSE FallbackPlan(intent, note_name, text))
=============================================================================
