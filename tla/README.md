# TLA+ models of TOMTIT-Agent

TOMTIT-Agent is a Python agent: a command line and a web API over one session
runtime, which answers a message itself or runs a planned sequence of tools, keeps
the turns of a session in a file, and remembers facts in a local store or in a
remote memory service. Beside it lives a build harness, a library that decides
whether a change may be verified, approved and merged. This directory holds TLA+
models of the parts that carry state or decide something, TLC configurations that
check them, and TLAPS proofs of their main properties.

`PROJECT.json` lists components, runs, mutants, the source lines of every
definition, the findings, the hazards and the theorems.

## Inventory

| Part | State | Operations | Hard because |
|---|---|---|---|
| Agent run (`runtime/runtime_agent.py`, `tools/executor.py`, `safety/`) | `AgentState`: status, plan, step, observations, memory flags | retrieve, plan, execute a step, finalize | every part is injected and may answer anything or raise; early returns; order of write and disclosure |
| Planner, registry, skills (`planning/`, `skills/`, `tools/registry.py`) | none | intent and slots to plan | placeholders refer to what earlier steps leave; tools vary with the backend |
| Session runtime (`runtime/session_runtime.py`) | turns, pending wipe, pending repair choice, pending note name, continuation kind, fact counter | one turn = first handler of a long chain that matches, then record | pending state survives some turns and not others; restart |
| Session file (`session_persistence/`) | temporary file, target, directory entry | save, load | failures and power loss between any two system calls; a clock that steps back |
| Confirmed save, recall (`confirmation/`, `memory/remote_client.py`, `cli.py`) | operation, request on the wire | save-decision, recall | timeout against late success; index that lags |
| Web API (`web_api/`) | sessions, transcripts, one `SessionRuntime` per session, one shared store | create, chat, reset | one thread per request and no lock |
| Memory stores (`memory/in_memory_store.py`, `memory/file_store.py`, `memory/memory_agent.py`, `memory/local_client.py`) | records, note index; lines of a file | write, update, delete, search, load, context pack | two implementations of one protocol; latest record by time stamp; a process that dies while writing |
| Profile memory (`conversation/profile_memory.py`, `conversation/memory_operations.py`) | records with relation, label, value | many writers, conflict resolution, corrections, wipe, answers | every relation has its own conflict rule; searches return a limited number of records |
| Merge eligibility (`build_harness/merge_eligibility*.py`) | facts, policy, sealed record | evaluate, seal, validate, replay | four tables of reasons that must cover every fact; records that come back edited |
| Delivery workflow (`build_harness/change_gate.py`, `process_guard.py`, `state.py`, `next_action.py`, `reports.py`) | task state, reports, last gate decision | events, gate, guard, recommendation | callers may call in any order and pass anything on |
| Evidence store (`build_harness/evidence_store.py`) | artifacts, event log | save, append, read | several processes, no lock, no directory sync |
| Evidence run (`build_harness/provenance.py`, `ports.py`) | checkout, collected and verified evidence, bundle, run record | collect, verify or reject, bundle, record | the checkout moves while commands run |
| Parsers, detectors, wording, projections, traces, evaluation | none | text in, text out | regular expressions over natural language |

The command line and the web API call `SessionRuntime.handle_turn`; it calls the
agent, which calls client and tools; it records the turn in the session store. The
dedicated commands go from the command line through `SessionRuntime` to
`RuntimeAgent.run_confirmed_save` and `run_memory_recall`. Memory tools and profile
handlers write the same store. The build harness is not called by the agent.

## Modules

| Module | What it models |
|---|---|
| `RuntimeAgent` | one call of `RuntimeAgent.run`; variables are the fields of `AgentState`, one action per stage and outcome |
| `IntentPlanner` | registry, skills and planner as operators; the user's texts by the `${...}` and `$last` references in them, which the executor resolves like the planner's own |
| `SessionRuntime` | the turn chain; a message is a class of messages on which the detectors agree; one action per handler |
| `ConfirmedSave` | the dedicated commands, the network and (external) the memory service |
| `SessionFile` | `FileSessionStore.save`, one action per system call, with failures, death and power loss |
| `SessionStore` | abstract: a register whose latest synced value survives; `SessionFile` refines it |
| `WebChat` | the event loop and one thread per request over the shared state of a session, and the one store of all sessions, from which a statement deletes what says the opposite |
| `MemoryStores` | both stores under the same operations, the memory agent and tools that write them, the context pack of the local client |
| `ProfileMemory` | the profile records, the handlers and memory operations that write them, the snapshot and the answers read from it |
| `MergeEligibility` | facts, policy tables as data, evaluator, sealed record, edits of a stored record, replay against registries |
| `Delivery` | task state machine, change gate, report parser, process guard, next-action recommendation |
| `EvidenceStore` | `_write_atomic` and `append_event` by several processes, one action per system call |
| `EvidenceRun` | the constructors of collected, verified and rejected evidence, bundle and run record, over a checkout that moves |
| `Ordered` | a set of positions as an increasing sequence; what is left of a file or a profile after a deletion |
| `*_proof` | theorems about the module, or the composition `MC*`, they are named after |
| `MC*` | constants for TLC, and the compositions below |

How they compose:

* `MCRuntimeAgent` runs `RuntimeAgent` with injected parts, as its constructor
  allows, and with the repository's own planner, registry and backends from
  `IntentPlanner`.
* `SessionRuntime` sees the file as one variable, `disk`, that `Save` writes at once;
  `SessionFile` justifies that step by refining `SessionStore`.
* `WebChat` is the turn chain cut to the handlers that share state between turns and to
  the writer of skills and preferences, at the grain of single reads and writes. A
  message may hold several statements; each is searched for, resolved and stored in turn.
* `MCBuildHarness` and `MCMemory` hold modules that share no state. A variable `part`
  says which one moves, so that the state space is the sum of theirs and not the
  product. In `MCMemory` the profile is cut once more, by subject (likes, abilities,
  affections, goals, names, relations): the messages about one subject touch no
  record of another, except for the wipe, which is in every part. A profile that was
  once crowded, so that a search did not return all of it, is not followed further:
  both properties claim nothing of it.

A name ending in `_Something` whose comment starts with *Mutant* is a deliberately
wrong version of the definition after it; no specification uses it.

## Runs

| Run | Bounds | Shows |
|---|---|---|
| `RuntimeAgent` | 13 injected plans, good and malformed, with 3 steps allowed against plans of up to 4; every own intent with every subset of its slots on 3 backends, each text plain, one whole reference or with one reference inside | gates, trail, honest completion; an own plan's step is refused only for a reference in the user's own text, and durable tools run only where memory is; every run ends |
| `SessionRuntime` | every conversation of 3 turns, and those of 4 turns about a wipe or a note; expiry after 2 turns; one restart. A question, a turn that lets it expire, its late answer and a restart fit in | persistence; wipes, notes and continuations answer what was asked |
| `ConfirmedSave` | 2 confirmations, 2 recalls, 2 contents: a duplicate, a left-over response and a late write all happen | claims to the user, and both commands end |
| `SessionFile` | 3 clock readings, so a turn is before, at or after the creation; 3 turns | file protocol and refinement |
| `WebChat` | 3 requests over 2 sessions, without the refusal "no", which `WebEnds` has; a skill, its opposite together with a liking, the opposite of the liking; search limits of 2 | a wipe forgets what was acknowledged; without one, a fact is lost only to a reset of its session or to a statement of the opposite, in whichever session; a failed request leaves a proper prefix of its statements and nothing else |
| `WebEnds` | 2 requests, a configured project | requests end |
| `MergeEligibility` | up to 2 facts off their clean value, which meets every pair of table rows; 2 policies beside the production one | eligible means clean, genuine records replay, a verified record states its policy's decision, the primary reason explains, a repair never hurts |
| `BuildHarness` | one required command, every kind of path and of evidence; 2 writers; 2 evidence ids, 2 runs, 4 checkout states | nothing ships, is stored or counts as verified without what it stands for |
| `Memory` | 3 records, 2 names, one clock fault or death; 4 profile records with search limits 3, 4 and 5, so that a store can be over the first limit; 3 things, one with the words of another, all related to AI | the stores agree, acknowledged records are read back, the answers are what was said, what was removed stays removed |

Three runs end in a counterexample; see below.

In `WebChat` the limits of the wipe's search (500 in the code) and of a conflict search
(200) are 2 against stores of up to 6 records, so that both sides occur. Beyond its
limit a wipe leaves records, and `WipeForgetsAcknowledged` says so in its hypothesis; a
conflict search that misses a record leaves both sides of a statement in the store,
which none of the properties excludes.

Requests, sessions, projects, names, people and ids are symmetric where no liveness is
checked. Deadlock is checked in `MergeEligibility` only: a run, a session, a set of
requests, a bounded store really end.

`TypeOK` of `SessionRuntime`, `WebChat` and `MemoryStores` is proved and in no run; that
of `MergeEligibility` and `ProfileMemory` documents those modules.

### Fairness

* `RuntimeAgent!FairSpec`: one thread executes `run`; it does not stop on its own.
* `ConfirmedSave!FairSpec`: the HTTP client has a timeout, so a wait for the write
  ends and each recall attempt returns. Nothing is assumed of service, network, index.
* `WebChat!FairSpec`: each thread and the event loop keep running. Admission is not
  fair: a client need not send.

## Where code and text disagree

Each of these runs checks one sentence of a comment or a document and ends in a
counterexample.

| Run | The text | What happens |
|---|---|---|
| `NotSavedClaimTrue` | "Decision was not saved." | also said when the outcome is unknown |
| `WipeAnswersQuestion` | "never delete without an explicit confirmation" | an "ok" sent before the question was shown confirms it |
| `FocusKeepsGoals` | "set the current goal focus without removing other active goals" | a goal known only as the former focus is dropped |

Also seen, and part of the models, but not kept as runs:

* the continuation kind is kept until a wipe, through turns that write nothing
  (`session_runtime.py:2084`), though it "only fires when the previous turn wrote
  memory"; `assert pending is not None` (`:3026`) fails when another thread clears the
  question after the check; the repair choice is not one-shot when a lane above it
  answers; an "ok" reprompts for a note's name before the expiry is looked at;
  `_resume_write_note` writes the process-local store on every backend;
* the wipe deletes what a search limited to 500 records per type returns;
* when the newest of two notes of a name is deleted, the file store reads the older
  one again and the in-memory store reads none: `StoresAgree` says so in its
  hypothesis, as it does for a clock that stands still or is set back. A process that
  dies while a line is appended leaves a file that no later load accepts;
* the executor resolves every string argument (`executor.py:59`), so that a user's text
  with `${...}`, or one that is just `$last.x` or `$slot.x`, is taken for a reference.
  Not found, it ends the run in a `ValueError`, possibly in the answer that follows a
  note, when the note has been written (`OnlyUserTextUnresolved` says when). Found, it is
  replaced by what an earlier step left;
* all sessions of the web share one store, and a statement first deletes what says its
  opposite without asking who wrote it (`profile_memory.py:3021-3032`, `:3050-3071`): "I
  do not know X" in one session deletes the "I know X" of another;
* `apply_memory_operations`, called a transaction (`memory_operations.py:886`), says that
  "partial failure is reported" (`:894`), but a search that raises after the first
  statement was stored ends the request in status 500 with no word of it
  (`FailedLeavesPrefix` says what is left);
* "I like X best" after "I do not like X" is acknowledged, and the question is still
  answered "no": favorites and comparisons delete no dislike
  (`profile_memory.py:2212-2247`), and the dislike is looked at first (`:1947`);
* a retraction of a goal compares texts (`profile_memory.py:2371-2372`) where the other
  operations on goals compare keys (`memory_operations.py:578-594`);
* removing a relation by a label that has synonyms deletes the newest record of all of them;
* the merge-eligibility facade decides under the production policy and seals the
  policy the input names; the replay finds that out wherever the two decide differently
  (`VerifiedIsTheDecision`);
* `next_action.py:127` is reached from `DRAFT` too, where not "everything" has passed;
* two processes that both look before either renames overwrite one another's
  artifact: `OverwriteNeedsRace` says that this is the only way.

## Proofs

For every value of the constants, under the assumptions named in the modules:

* `RuntimeAgent_proof`: `RunTypeOK`, `RunSafe` with its parts `RunCallsGated` and
  `RunTrailIsPrefix`, `RunTerminalStable`. The inductive invariant adds `Control`:
  status, `done` and the stage agree, and inside the loop calls, trail and
  `last_result` are in step with `current_step`. Without it, the completed run's
  answer could not be tied to its last step. `RunOnlyUserTextUnresolved` is about the
  wiring of `MCRuntimeAgent`, whatever the user writes: every own plan names in a
  placeholder only the step before or a calculation before it, and only an answer that
  quotes the same text follows a memory write (`Resolving`); in the loop the step before
  succeeded, a calculation has left its slot, and the text of a memory write was found
  (`Prepared`). So a reference found before the write is found again after it, unless it
  means the step before, which is now another one. `OwnWiringAssumption`
  says that a registry of the repository goes with its planner and that three steps
  are allowed (five by default). `RunIsBounded` is the safety half of `Terminates`: the
  stage and the steps not yet executed make a number that every step lowers
  (`StepsLeft`), so a run has at most `MaxSteps + 5` steps and calls at most `MaxSteps`
  tools, however long the plan is.
* `SessionRuntime_proof`: `SessionTypeOK`, `SessionActsOnRequest` with its parts
  `SessionNotesAnswer` and `SessionContinuations`, `SessionFactsCounted`,
  `SessionDurable`, `SessionHistory`. The strengthening says of each pending flag
  which logged turn set it and what may have come since.
  `SessionTopicsAreConversations`: what the run explores by topic are conversations of
  `SessionRuntime`, so that all this holds of them.
* `ConfirmedSave_proof`: `SaveTypeOK`, `SaveClaimsTrue`, `RecallHonest`. The
  strengthening follows a request id from the confirmation through request,
  response and record, and says that a confirmation being waited for has no claim yet.
  `OperationIsBounded` is the safety half of `OperationEnds`: a command waits for at
  most `max_attempts` answers, and a step of service, network or index leaves it where
  it is.
* `SessionFile_proof`: `FileTypeOK`, `FileSafe` with its parts `FileNotPersistedTrue`
  and `FileSyncedTurnsStay`, and `FileImplementsRegister`, the refinement: rename is
  the register's save, the directory sync its sync, every other step stutters. The
  strengthening says what each stage of `save` knows of the temporary file and that
  every file that may survive a power loss is whole.
* `BuildHarness_proof`, about the three modules `MCBuildHarness` composes and, for
  `HarnessTyped` and `HarnessSafe`, about their composition, which implements each of
  the three:
  * `DeliveryGateIsProof`, `DeliveryShippingIsEarned`. Of the contract it assumes what
    `validate_contract_dict` demands. `GateSound` ties the findings of the last gate
    decision to what was proven of the change, `AnswerCurrent` says that an answer of
    the guard is the one the present state gives, and `TrailEarns` says which events
    lie behind each task state; a ship action that passes then has them all.
  * `StoreArtifactIsWhole`, `StoreOverwriteNeedsRace`, `StoreLoggedEventsAreRead`, for
    any number of writers. The strengthening says that every file a reader or a power
    loss can meet was synced and holds what a writer wanted (`FilesWhole`), that a
    writer on its way past an artifact was overtaken by it, and that the line of an
    append that returned ends within the synced part of the log (`LogSynced`).
    `MarksAssumption` says that the marks for an absent and a torn file are no files.
  * `RunVerifiedBelongs`: everything built passed its constructor, and a run record
    lists evidence that was collected.
* `WebChat_proof`: `WebTyped`, `WebWipeForgets`, `WebFailedLeavesPrefix`,
  `WebLossHasACause`, for any number of requests, sessions and projects, any batches and
  any limits. The stored records are the statements each request has applied
  (`keys = stored`, in `TypeOK`). The strengthening says that a request that noted or
  wiped can no longer fail, and that one that fails among its statements has not
  applied all of them (`Settled`), that an answer in the transcript belongs to a request
  that ended (`AnswersSaid`), and that after the search of a wipe every fact
  acknowledged earlier is among those it still deletes or is gone (`Forgotten`): a fact
  another thread stores in between was not acknowledged. `WebLossHasACause` adds that
  what a thread is about to delete says the opposite of the statement it is at
  (`Contradicted`), and that from there a request goes on only to storing it (`Moves`); a
  skill is stored in the next step, a preference unless its search for aliases raises.
  Three more results are about the interleaving itself:
  * `WebRequestsAdvance`, the safety half of `EveryRequestEnds`: every stage of the chain
    has a place (`Place`), and a step creates a session or takes one request to a later
    place, or round the six stages of a statement to the next one, and leaves the others
    where they are: at most 16 steps, and 6 for each statement.
  * `WebActsWereAskedFor` is what threads leave of "never delete without an explicit
    confirmation": a wipe is a confirmation in a session that asked for one, a note is
    written in a session that asked for its name. The invariant says so of every request
    on its way to the wipe or the note and of every pending question, also of one that
    was read before another thread cleared it. That the question was shown first is
    false; see `WipeAnswersQuestion`.
  * `WebTranscriptsTell`: each admitted message is once in the transcript of its session,
    its answer once and later, exactly when the request ended in one.
* `Memory_proof`, about `MemoryStores` and `ProfileMemory`:
  * `StoresLoadAcknowledged`. A record has one line in the file (`OneLine`), because an
    update rewrites the file; so the latest-record rule has nothing to choose from and
    the clock cannot mislead it. The property therefore needs no hypothesis on the
    clock.
  * `StoresCannotBeToldApart` adds that the index points to the newest note of each
    name, which is where the hypotheses on clock and orphaned names are used.
  * `StoresPackIsBest`: for every limit, budget and size of the records the context pack
    is the longest prefix of the ranking that fits. Loop and sum are folds, whose
    recursion the proof first shows to have a solution (`FoldExists`, `SumExists`). The
    induction is over a set of naturals and not over a predicate: a number missing from
    it has a least companion (`Induction`), so no operator has to be instantiated. Then
    the ranking lists every match once, the loop keeps a prefix of it with its sum, and
    the sum of a set does not depend on the order in which it is listed (`CostIsSum`).
    `PackAssumption` says that limit, budget and sizes are naturals.
  * `StoresTyped`, and `MemorySafe` about `MCMemory`: its behaviours are behaviours of
    the stores and of the profile, and have all of the invariants.
  * `ProfileAnswersWhatWasSaid`, `ProfileRemovalForgets`. The invariant speaks of the
    live records: of a plain like, an ability or a feeling what was said last is live and
    its opposite is not, no dislike is live where none was said, the winners of
    comparisons are live and a favorite is the newest of its kind (`Favored`), no person
    is both loved and not loved, things are liked and persons are loved, and a label
    without synonyms names one person. A favorite is a record by itself, and every other
    deletion must be shown to leave it the newest (`KeepsFavorites`). Every message is shown to keep it by way of a few
    lemmas on what deleting and saving do to the set of live records. `LimitAssumption`
    orders the search limits as in the code (100 for one name, 200 for snapshot and
    conflicts, 500 for the wipe), which leaves room for the record a message stores
    between two searches; `ValueAssumption` says that things and persons are different
    texts. Were one text both, the answer about it would follow the affection.
* `MergeEligibility_proof`: `EligibleIsClean`, `RecordVerifies`,
  `PrimaryReasonExplains`, `RepairsHelp`, for any number of deviating facts and any
  registry. `Sound` says that facts and input passed their constructors and that an
  unedited record is the one the evaluator seals for its input; the core is that each
  deviating fact has a row that gives a reason, and that the reason of least rank,
  which exists because the ranks are naturals, blocks exactly when some reason does.
  `IdentityAssumption` says that the other policies and the production one differ in
  version or digest. `VerifiedStatesDecision`: a record that replays as verified, even
  an edited one, is bound to the input it was replayed against and states the decision
  on it of a policy with the identity it names. The facade's own record for an input
  that names another policy is therefore verified only where both decide alike.

Only model-checked: the liveness properties `Terminates`, `OperationEnds` and
`EveryRequestEnds`, because the prover handles neither fairness nor `ENABLED`. What is
proved of them is their bound (`RunIsBounded`, `OperationIsBounded`,
`WebRequestsAdvance`): a run, a command, a request has only so many steps. That it takes
them, and is never stuck before its end, is TLC's.

Every other property of a passing run is stated by a theorem. The three properties that
TLC refutes are, of course, not.

## Abstractions

* Text is dropped. A message is a class or an operation, an answer is what it claims.
* A digest is the payload it is computed from, so digests are equal when payloads are.
* In the web model a search and the deletions after it are two steps each; the two
  searches of the wipe and of a conflict (facts, preferences) are one, and the search of
  what is active, which a batch makes once at its start and from which skills and
  preferences take nothing, is one with its first conflict search. Values are canonical,
  so the search for aliases finds nothing and only may raise. Of the writers of facts
  those of skills and preferences are modelled. Notes have names of their own.
* Goals whose keys agree are one value, though the retraction of a goal compares texts.
* `StoreUpdate` changes a content or a name; no caller changes type or scope, and a
  record that only the file holds after a restart is not updated.
* The change gate's `dependency_files_changed` is left out: it only makes a decision
  stricter.
* In `EvidenceRun` the verified entries name items of the request, and the rejected ones
  share one status and one snapshot. The constructor of the record decides what counts,
  and it looks at each entry alone.
* The in-memory store does not fail to write; its writers' failure branches are left out,
  except the apology of a resumed note.
* The file memory store syncs nothing, so nothing can be said of it after a power loss;
  the model has the death of the process.
* `ProfileMemory` applies one operation at a time, except the batch of goals; what a
  batch leaves when a search in it raises is in `WebChat`. Spellings that the code
  normalises to one value are one value.
* `EvidenceStore` has one artifact name and one log; names share nothing.
* A web process has no session file; its restart loses everything and is not modelled.
* `FileSessionStore` has one writer, as its class comment says.

## Not modelled

* Intent parser, extractors, profile semantics, the detectors in profile memory and
  the conversation router: tables of regular expressions over Vietnamese and English
  text without state. What they decide is an input of the models; what they should
  decide is stated nowhere but in themselves and in example sentences.
* Composer, LLM responder, prompts of the build harness: wording.
* Web debug projections, models, schemas, turn trace, evaluation: read-only records of
  what happened, and an offline scorer.
* The checks of single strings in the build harness (ids, digests, paths): the models
  have valid and invalid inputs.
* What tools compute; a tool's outcome is ok, an error, an exception or a bad type.

## Plan

1. Type correctness of `ProfileMemory` when the profile is crowded, and of
   `MergeEligibility` beside the part the proofs need.
2. An action property of `ProfileMemory`: that a message about one subject leaves what
   is known of the others.
3. Batches of memory operations on affections and occupations, whose active records are
   read once for all of them (`WebChat` has those on skills and preferences).
