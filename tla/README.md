# Verification of codex-model-bridge

The bridge stands between Codex, a client that speaks the OpenAI Responses API,
and upstream model services that speak Chat Completions, or a smaller dialect of
Responses. It translates requests and streamed events, adds tools of its own
(web search, a task-end call, proxied file tools), runs those itself in extra
upstream rounds that Codex does not see, and remembers tool results, verified
model capabilities and model slots between requests.

This directory holds TLA+ models of that core, configurations that model-check
them with TLC on small instances, and theorems that TLAPS proves for every value
of the constants. `PROJECT.json` maps every definition to the source lines it
stands for, and lists runs, hazards, findings and theorems.

## 1. The system

Paths are below `src/internal/` unless they start with `cmd/`.

| Component | State it keeps | Operations | Talks to |
|---|---|---|---|
| Streamed chat turn (`server/internal_stream.go`, `task_completion.go`, `convert.go`, `internal_tools.go`) | the conversation so far, the output items, item ids and indexes, the count of rounds, the text shown | open a round, take a chunk, an error, a cancel; correct the protocol; follow up on internal calls; end the task; write events | upstream client, tools, event writer, tool memory |
| Projected turn (`server/projected_responses.go`, `structured_output.go`), streamed or not | the same for upstream Responses events: offset of indexes, hidden items, what was announced and finished | take an event or a whole answer, finish a round, hidden correction, follow-up, structured output and its one repair | the same |
| Plain and native handlers (`server/server.go`) | handler position, one terminal event | open, receive, conclude | upstream client |
| Upstream client (`providers/chat.go`) | attempt, reader goroutine, a channel of 32 events, the terminal flag | call with retry, read a line, send, close | the handlers, over the channel and the request's context |
| State files (`config/state_file.go`, `model_capabilities.go`) | the file, `.tmp`, `.lock`, each process's copy | load, change, lock, break an old lock, read, merge, write, rename, release | other processes, over the file system only |
| Model discovery (`config/model_discovery_state.go`, `cmd/codex-bridge/main.go`) | slots, configured models, saved assignments | list, restore, place, save | upstream listings, state files |
| Tool memory and broker (`toollog/tool_calls.go`, `toolruntime/runtime.go`) | outputs, logical calls and failures by session; their ages | remember, observe, record a failure, decide, expire, evict, restart | the turns, the transcript conversion |
| Transcript conversion (`transcript/`, `server/convert.go`) | none of its own; Codex keeps the history, the disk the files | Codex history to chat messages, calls of the model to items of Codex | tool memory, tool registry, editor tools |
| Tool registry and editor tools (`tools/`) | the tools of one request | register, filter, look up by either name; make a patch of a call, a call of a patch | the disk, the transcript conversion |
| Execution plan, configuration (`config/`) | `config.toml`, `model-capabilities.json` | load, plan a request, warn, write the catalog | all |
| Capability probe (`upstreamprobe/`) | the result of a probe | ask stage by stage, retry once, classify | upstream, capability cache |
| Adapters, search and vision providers, event writer | none, or one mutex | pure transformations; calls of services | the turns |
| Diagnostics, dumps, logs | rotated files, counters | append, rotate, prune | all |
| Command line, setup (`cmd/codex-bridge/`, `setup/`) | the files above, Codex's configuration | setup, verify, serve; edit Codex's file | probe, configuration, discovery |

What is hard here:

* A turn is a *dialogue of three*: one response for Codex is made from several
  upstream responses. Item ids, output indexes, the final output and the
  terminal event must come out as if there had been one; events are on the wire
  before it is known how their round ends.
* Codex may leave, upstream may fail or time out, at every one of those points.
* The upstream stream is read by a goroutine of its own through a bounded
  channel; the call may still be retrying when its handler has gone.
* Processes share state files with nothing but a lock file that has no owner,
  and they may be killed while they hold it.
* A conversation is translated in both directions, again with every request, with
  the tools, the profile and the memory of that moment; the patch of an edit is
  made from a file that others change before Codex applies it.
* A capability is measured once and believed for days, by servers that loaded it
  earlier, while addresses, keys, profiles and the upstream itself change.
* Slots and tool results persist over starts whose inputs (listings, histories)
  change in between; memories are bounded and expire on separate clocks.

What makes each component correct: a turn keeps the *contract* of section 3 and
its output is what streamed; a stream that breaks is never passed on as a
complete one, and its goroutines end; the lock excludes, files are complete, no
record is lost; a slot keeps naming the model it named; a result is counted
once, in its own session; an old call is shown as a call that means the same, with
the one answer it got; an edit does what the call said; a record says what the
upstream could do, and a plan follows a record that counts.

## 2. Modules

| Module | Lines it models | Role |
|---|---|---|
| `TurnContract` | both turn loops | abstract: what a turn promises Codex |
| `ChatTurn` | `server/internal_stream.go`, `task_completion.go`, `convert.go`, `internal_tools.go` | the streamed Chat Completions turn; implements `TurnContract` |
| `ProjectedTurn` | `server/projected_responses.go`, `structured_output.go`, `task_completion.go` | the projected Responses turn, streamed or not; implements `TurnContract` |
| `UpstreamStream` | `providers/chat.go`, `server/server.go` | call with retry, reader, channel, plain and native handlers |
| `StateFile` | `config/state_file.go`, `model_capabilities.go` | the state files under several processes and crashes |
| `ModelSlots` | `config/model_discovery_state.go`, `config.go`, `cmd/codex-bridge/main.go` | slots over several starts |
| `ToolMemory` | `toollog/tool_calls.go`, `toolruntime/runtime.go`, parts of `transcript/` | tool results by session |
| `ToolRegistry` | `tools/tools.go`, `namespace_tool.go`, the proxies, `server/tool_runtime_availability.go` | tools offered in place of Codex's, and names in both directions |
| `TextEditor` | `tools/text_editor.go` | the editor tools, the patches made of them, and the way back |
| `Transcript` | `transcript/`, `server/convert.go`, `adapters/deepseek.go` and the other profiles | the two translations, as operators; extends `TextEditor` and `ToolRegistry` |
| `Conversation` | the request handler around them, Codex, the model and a disk | composes the three above over several requests |
| `UpstreamProbe` | `upstreamprobe/probe.go` | what a probe learns from answers and faults |
| `Capabilities` | `config/` (plan, configuration, capability records), `setup/setup.go`, `cmd/codex-bridge/main.go` | setup, verify and serve over days; extends `UpstreamProbe` |
| `ChatTurnProofs`, `ProjectedTurnProofs`, `UpstreamStreamProofs`, `ModelSlotsProofs`, `ToolMemoryProofs`, `CapabilitiesProofs`, `ConversationProofs` | | the theorems about each module, those about `StateFile` with those about `Capabilities`, section 4 |
| `DataLemmas` | | lemmas on induction over numbers and finite sets, and on loops written as recursive functions |
| `MC...` | | the instances for TLC |

Definitions named as the mutated form of another ("Mutant: ..." in their
comments) are not part of any specification. They are plausible mistakes; put in
the place of the definition they follow, each makes one property fail, so none
of the properties holds for want of behaviour.

### 2.1 TurnContract

State: the phase of the turn, what the latest answer amounts to, follow-ups and
corrections counted. A turn asks upstream again for a follow-up (internal calls) or a
correction (the task protocol was violated), at most so many times each; it does
not complete on a violation; it concludes once. `ChatTurn` and `ProjectedTurn`
instantiate it with a refinement mapping and check it as a property,
`KeepsContract`; the refinement is proved for both.

### 2.2 ChatTurn and ProjectedTurn

One action per point where the loop can be: opening a round (answered, failed or
cancelled), one upstream chunk or event, the end of the upstream stream, an
error, Codex leaving. What the code does after the end of a round without
waiting for anybody (correct, follow up, end the task, complete) is one action,
with all its writes. Abstracted: a text is one of a set of texts, because the
code compares texts only (whether the result has been shown); a call is its
kind: an internal search, the task end, or one Codex executes; arguments and
usage are left out. `wire` is the sequence of events Codex got, reduced to
items, their ids and indexes, and the terminal event.

`ProjectedTurn` has the three modes of the code (task protocol, plain, structured
output) and both ways of answering (`streamed`) chosen in `Init`, and an upstream
that may leave out the events of an item and list it in the completed response
only (`MaxOmissions`); items that the code then shows or numbers differently are
outside the last part of `StreamMatchesOutput` and outside `NarrativeHidden`, which
say so by `omissions = 0`. Without streaming there is no event: answers come whole (`WholeAnswer`) and one is returned (`EndTaskWhole`,
`ReturnWhole`). Follow-ups are then counted in `resolveProjectedInternalTools`,
which each correction calls again, so its contract has the limit of follow-ups
once more for every correction (`WholeContract`).

### 2.3 UpstreamStream

`Client` is `doWithRetry`; `Reader` is the goroutine of `Stream` and
`StreamResponse`, its send blocking on a full channel; the handler is the select
loop of the plain path, of a round of the chat turn, or of the native path.
`ContextDone` is the request's context: Codex has left *or* the handler has
returned. Lines that the body still holds are read even when the context is
done, as buffered lines are.

### 2.4 StateFile

Processes go through the loop of `withStateFileLock` one system call at a time:
create exclusively, stat, remove, read, truncate, write, rename, remove. A crash
leaves every file as it is. A lock may become old (two minutes) at any time;
`broken` records that the lock of a live process was taken for an old one, or
that a fresh lock was removed in the place of an old one by a process that had
seen the old one. The safety properties hold until then, and not afterwards: see
section 6. Its theorems share a module with those of `Capabilities`, so the names of
its specification and types carry a `File`.

### 2.5 ModelSlots and ToolMemory

`ModelSlots`: a start takes the providers one after the other, each with any
listing or a failure, restores what was saved, places what is new, and saves or
fails to save. `ToolMemory`: a request replays the history of its session, with
new results at its end; entries are evicted at the limits, expire with the days,
and are lost with the process. A variable that the code does not have, `observed`,
counts the observations that the output's present entry in `seen` made; that is
what the code can promise. An output whose entry was evicted between the look-up
and the record, by another session that filled the memory, is observed again: TLC
shows it with five requests.

The loops over a listing, over the saved slots and over a history are recursive
functions on positions, one argument per step of the loop, because the
proofs of section 4 can follow those and cannot follow a fold of a library.

### 2.6 Conversation and what it composes

`ToolRegistry`, `TextEditor` and `Transcript` are operators without state.
`Conversation` gives them a world: the user asks (perhaps with a new environment
context), the bridge sends the translated history (`Send`), the model replies with
a batch of calls, the bridge translates them one by one against the disk of that
moment (`Emit`), Codex runs each when it gets to it (`Run`), somebody else edits
the file in between (`Interfere`), Codex records everything and sends its history
again (`Record`), the user interrupts or goes on with another profile, the bridge
restarts. Codex and the model are external: Codex's patch tool is modelled by what
`text_editor.go` and its tests take it to do (`Apply`). A text of a file is a
sequence of characters, since the editor tools are about lines; any other text is
the set of the phrases the code looks for in it, and its environment contexts.
`EditsFulfilled`, an assumption of `MCConversation`, checks the editor tools alone
over every text of up to four characters.

### 2.7 Capabilities

One provider, whose upstream is able to do certain stages of a probe, by address
and key, and changes. `setup` probes and writes `config.toml`, once there is one
only with `--replace-upstream` (`ExistingPreserved`); an operator edits it;
`verify` loads configuration and records, probes model by model and writes at the
end; a server loads both once, discovers, writes the catalog, and plans every
request by what it has loaded. A probe may meet a busy, refusing, silent or cut-off
answer in any stage, an upstream may have neither protocol, and a listing may fail
or be empty; `setup` may be told a model that the upstream does not list. Days pass,
records expire. Before the first `setup` there is
no configuration, and the other commands end at once. The record's fingerprints
are the things they are made of.

## 3. Runs

All runs take the whole `Next` of their module. State counts are those of TLC
with two workers.

| Run | Bounds | Distinct states | Shows |
|---|---|---|---|
| `chat_protocol` | 1 internal round, 1 correction, 2 calls in a response, 2 texts, every kind of call | 368,992 | the contract is kept; plain text never completes a turn under the task protocol; an item finishes where it was announced; the result of a task is shown once |
| `chat_any_order` | reasoning, text and calls in any order, 1 call, 2 texts, fairness | 460,294 | the output is what streamed; no shown narrative is lost; ids are unique but for that of a finished task's result; the turn ends |
| `projected_turn` | streamed or not, 1 internal round, 1 correction, 2 items in a response, 2 texts of which 1 is valid, 1 omission, fairness | 1,014,796 | the contract is kept; what was announced or finished stands in the output at its index; hidden corrections and internal calls stay hidden; structured output is validated before it is shown; the turn ends |
| `upstream_stream` | 2 attempts, a channel of 2, 5 lines, fairness | 6,093 | cut-off answers are reported; one terminal event; goroutines end |
| `state_file` | 2 processes, 2 records, 3 changes, 1 crash, fairness | 443,568 | the lock excludes; no record is lost; every writer gets an answer |
| `model_slots` | 2 providers, 3 models, 3 slots, 3 starts, 1 model written by hand | 283,036 | a slot keeps naming the model it named |
| `tool_memory` | 2 sessions (symmetric) with 2 call ids, 2 entries, 1 session remembered, 4 requests | 1,277,868 | a result is observed once; failures follow the history; proxied calls are shown as such |
| `conversation` | 2 profiles, 11 calls a model may make, 2 calls in an answer and in all, 2 messages of the user, 2 files | 420,304 | old calls are shown as what they meant; each has its one answer; reasoning stays with its call; the user's messages and latest environment are seen; names keep their meaning; edits take effect |
| `capabilities` | 1 model with 2 slugs, 2 addresses, 2 keys, each able to do everything, Chat alone or nothing, both modes of discovery, 3 days, records valid for 1, 3 commands, 1 change of the upstream | 1,114,562 | records tell the truth; plans follow the records that count; the catalog is honoured |
| `chat_task_end_leak`, `state_file_old_snapshot`, `insert_after_empty_line` | as above or smaller | | the findings of section 5 |

Why these bounds are enough to meet the interesting cases: one internal round
and one correction give a turn of up to three upstream responses, so there is a
first, a middle and a last one, and both limits are reached; two calls in one
response give every mixture of internal and other calls; two texts are "the same
text" and "another text". A channel of two is empty, part full and full. Five
lines hold data, an end, `[DONE]` and something after it. Two processes with
three changes and a crash reach the removal of a fresh lock; the theorems of
section 4 lift the number of processes. Three starts are one that assigns, one
that fails to list or lists something new, and one that restores. Memories of two
entries with four requests overflow. Two calls are a batch of two, with each of
the eleven calls beside each other one, or two answers of one call, the second
after the history of the first was sent, perhaps under the other profile. Two
addresses, two keys and two profiles let a record fit in all but one respect; three
days with records of one let it expire while a server runs; three commands are a
verification, an edit or setup, and a start in any order. Every one of these limits is a constant of
the module, named in its comments where it is a bound of the model and not one
of the code (`MaxCalls`, `MaxItems`, `MaxOmissions`, `MaxLines`, `MaxChanges`,
`MaxCrashes`, `MaxStarts`, `MaxRequests`, `MaxBatch`, `MaxAsks`, `MaxDay`,
`MaxCommands`, `MaxUpdates`).

Deadlock is not checked: a turn, a stream and a sequence of starts end, and the
bounded counters stop the others.

### Fairness

`TurnEnds` and `GoroutinesEnd` assume that the goroutines of a request are
scheduled, and that a call or a read that upstream leaves open is ended by the
HTTP client's timeout of ten minutes, which every upstream request has. Nothing
is assumed of Codex: it may stay or leave. `WriteEnds` assumes that a process
that is running is scheduled; nothing forces a lock to become old, a process to
start, or a crash.

`GoroutinesEnd` has one exception, which the code has: a reader whose channel is
full when Codex leaves stays blocked in its send, since the send does not watch
the context.

## 4. Theorems

All are proved by `tlapm` to the last leaf, for every value of the constants
that their named assumptions allow. Each invariant was first checked by TLC on the
instance of its run. Every proof has the same outline: `Init => IInv`, one lemma
per action that the action keeps `IInv`, `IInv => Inv`, and a temporal step.

**ChatTurnProofs**, first part. The inductive invariant is `TypeOK /\ StreamInv`.
`StreamInv` relates the three places where an item is known: what has streamed, what
the state of the current round holds, and what was finished on the wire; while the
turn goes on there is no terminal event, and the finished items are those that
the trace of streamed items demands. `StreamMatchesOutput` alone is not
inductive: it speaks of the completed response, which is made in the last step
from what the earlier ones gathered. From it: `TypeCorrect`, `StreamMatches`,
`RoundsAreBounded` (for any limits), `PlainTextKept`, `KeepsTheContract` (the
refinement of `TurnContract`: initial states map to initial states, every step
to a step or a stutter), `WireOnlyGrows` (nothing written is taken back, nothing
follows the terminal event), `SilenceMeansGivenUp`. `RoundsAreBounded` and the
last two are not properties of a run: the theorems say more.

Second part, what is on the wire. `WireInv` adds: the ids of the trace are unique
and carry numbers that the current round does not use (`TraceIds`); the ids of
the round are made of its offset and its number (`RoundIds`); a message that was
announced is in the trace or in the round (`MessagesHeld`); in canonical order what is
announced are the items of the trace and of the round, at their places
(`AnnouncedHeld`). From it, for any order and any limits: `ResultIsShownOnce`, and
`ItemIdsAreUnique`, which has one exception: the message that the bridge makes from
the result of a finished task may repeat an id (section 6). `AnnouncedOnce`
needs the order in which upstream services stream (`CanonicalOrder`: reasoning, text,
calls); in any other order an item may finish at another index than the one it was
announced with, as TLC shows. It and `NarrativeIsKept` are proved for
`MaxTaskProtocolRetries <= 1`; the source has 1 (`task_completion.go:28`). With 2,
`NarrativeKept` is false: the code keeps the narrative only before the first
correction (`captureNarrative`), so text streamed between a follow-up and a second
correction is lost. What is announced is then no longer in the trace, and the
invariant of `AnnouncedOnce` does not hold, although TLC finds the property itself
true on the instance with 2.

**ProjectedTurnProofs.** The invariant ties an item of an upstream answer to its
slot in the output: an item has at most one slot, which holds it or is reserved for it,
and the keys name the slots of messages (`SlotsGood`); what was finished stands in its
slot (`FinishedStand`); while upstream omits nothing, every item is hidden or has a
slot that holds it (`Tracked`) and what is finished is a prefix of the slots
(`InOrder`); structured output and whole answers write nothing before the end
(`StructuredQuiet`, `WholeQuiet`). From it: `TypeCorrect`, `StreamMatches`,
`StructuredIsGuarded`, `InternalCallsAreHidden`, `NarrativeIsHidden` (of an upstream
that leaves out no events), and
`KeepsTheContract`, the refinement of `TurnContract` (of `WholeContract` without
streaming). On top of it `PlacesStand`: an announced item has its slot, whoever else
is given one, and a slot that is only reserved was not announced: the half of
`StreamMatches` about what was announced. `StreamMatches` leaves out the turns whose
result is returned in place of what streamed (`ResultReplaces`).

**UpstreamStreamProofs.** Invariant: an event that reports an end goes back to a
line of upstream (`Announced`); in a native stream whose handler is still there,
the end of the channel stands behind a terminal event (`NativeOrder`): without
it, a handler could meet the end of the channel and leave in silence; an error
of the context reaches a handler only after Codex left (`CancelKnown`); the
reader exists only after an answer and holds an event only to send it
(`ReaderState`). From it: `TypeCorrect`, `CutOffIsReported`, `EndsOnce`, for any
capacity of the channel, number of attempts and length of the body.

**ModelSlotsProofs.** Invariant: in the mode `merge` no saved assignment and no step
of discovery puts a model into a slot that is written for another one (`Fits`,
`Kept`); when every listed model has an old slot of its own, each provider asked so
far has kept its slots (`Stable`), the others' are untouched, and whoever is in a slot
was written there or returned to its own (`Origins`): without the last, the
next provider could find its old slot taken. From it: `TypeCorrect`, `SlotsAreStable`,
and `HandWrittenModelsStay` (in the mode `merge`, no discovery replaces a model
that the operator wrote into a slot), for any providers, models and slots, any
listings and failures, and any number of starts.

**ToolMemoryProofs.** Invariant, session by session: a key in `seen` stands for one
observation, made or about to be made (`SeenGood`); the proxied calls of a history
are remembered or known as lost, and the request has shown those it has read
(`LogicalGood`); outputs are observed in the order of the history, and the count of
a signature's failures is the number of failing outputs since the last one with
progress (`CountGood`). A request touches one session, and all others may only
forget; a lemma says so of each action, so that the rest of a proof looks at one
session. From it: `TypeCorrect`, `OutputsObservedOnce`, `FailuresAreCurrent`,
`LogicalCallsAreShown`, for any number of sessions, calls and requests and any
capacity of the memories.

**CapabilitiesProofs**, first part, the records and the plans. Invariant: a record that
counts is true and its protocol is the one its stages recommend (`GoodRecord`), wherever
it is: in the file, in a running verification, in a server; the configuration says of
the model that setup probed what the upstream can do, unless that changed
(`GoodConfig`); the catalog is the one of the server's start (`GoodServer`). From it:
`TypeCorrect`, `RecordsAreTrue`, `PlansAreTrue`, `CatalogIsHonoured`, for any models,
endpoints, faults and upstreams, and any number of days, changes and commands.
`PlansAreTrue` speaks of what nobody has set by hand, and of an upstream that has been
the same for longer than records count. A plan by a record then takes Responses exactly
where the upstream has it (a torn record may take less), and options and structured
output only where they work; that Chat Completions works where a record plans it is not
said, for it may not (section 6). A plan by what `setup` found takes a way that works.

Second part, the files that hold the records (`StateFile`). Invariant `FileInv`, as long
as no live lock was removed: who is inside has a lock that is not old (`LockHeld`),
what a process will rename is what it wrote (`TempWritten`), and no record of the file
is missing in it (`NothingMissing`). From it: `FileTypeCorrect`, `LockExcludes`,
`ReadersSeeCompleteFiles`, `NoRecordIsLost`, for any set of processes and
records and any number of changes and crashes. The assumption that there is a
record at all (`Keys # {}`) is used: without records a complete and an empty
file are the same.

**ConversationProofs.** The translations are loops over the history and joins of the
messages that single items give. Lemmas say what a join holds and in which order
(`FlattenAny`, `FlattenPlaced`, `FlattenCount`), what a registry holds after its
loops (`AllRegistered`: of every name the first entry, none that an earlier list took)
and what one item does to what has been read (`ConvertMessage`, `ConvertOutput`,
`ConvertCall`, ...), step by step of `Readings`. The invariant `Good` gives the kinds
of everything that is kept: items, runs, the batch against the number of calls made,
the messages of the last request. It is what type correctness needs, since the roles
of messages come out of the loop, the compaction and the repair, and the paths of the
disk out of the patches that the editor tools make. From it: `TypeCorrect`, and
`NamesStay`: what a name on offer means is a function of the tools that Codex sends and
those a search finds (`Means`), whatever of these has been found so far, for any tools,
histories and profiles. Its hypothesis `FoundAreNoProxies`, that no search finds a tool
of the name of a command proxy, is needed: section 6 has the case.

The other three theorems follow single items through conversion, compaction and repair.
Three invariants say what the histories are that a program can send. `Orderly`:
calls are numbered in their order; each call that Codex has received is one the bridge
has made, and is in the history or among the running ones, never in both; a call has
at most one output, behind it, and the calls of an answer come before its outputs
(`CallsOnce`). `Asked`: the history has as many messages of the user as there were
asks, and its last environment context is the current one. `Thoughts`: when reasoning
comes, every earlier call has a text or its output behind it, and between reasoning and
a call of its answer stand only texts, notes and earlier calls of that answer. The last
one needs the calls that are still being translated and run (`AnswerThinks`): they share
one reasoning, which stands before the text at the end of the history. `Sent` says that
the request an answer is awaited for is the one of the history.

For such histories an induction over the items shows what has been read after n of them:
which calls are known, shown or wait, and which answers stand next to them (`Told`),
which messages of the user are shown (`SeenBy`), and whose reasoning waits (`Reasoned`).
`Reads` lists the nine things an item can do to a reading; each lemma of the induction is
a case split over them. `KeptPlaces` and `RepairedPlaces` then say where compaction
and repair leave a message, so that what holds of the messages read holds of those
sent. From it, for any tools, calls, outputs, disks and profiles, and any number of
asks, interrupts, switches and restarts:

* `UserIsSeen`: each message of the user is shown once, and the current
  environment alone;
* `CallsAreAnswered`: a call that is shown has the one answer Codex recorded;
  repaired, it stands right behind it, and says that there is none exactly if
  there is none, but for the batches that `CutOff` names;
* `ReasoningIsKept`: the reasoning of an answer is with the first of its calls
  that is shown, also after a repair has taken the calls of a message apart.

**DataLemmas.** A non-empty set of naturals has a least element (`SmallestNat`, from
the library's well-founded order of finite subsets); a set that holds 0 and
successors holds all naturals (`SetInduction`); the function of the states of a loop,
given by its first state and a table of its steps, exists (`LoopExists`). The library
states induction for an operator parameter, which the installed provers cannot
instantiate; stated of sets it can be used, and the recursive functions of
`ProjectedTurn`, `ModelSlots` and `ToolMemory` are reasoned about this way.

Only model-checked, and why:

* every liveness property (`TurnEnds`, `GoroutinesEnd`, `WriteEnds`): fairness and
  ENABLED are out of the prover's reach;
* of `Conversation`, `ReplayedSame` and `EditsTakeEffect`: they depend on what the
  editor tools make of texts and on the names of an instance, and both are false of
  some texts and names (section 6);
* the findings of section 5, which are counterexamples.

## 5. Findings

Each is a run that ends in a counterexample to a sentence of the repository.

* `chat_task_end_leak`: a response that mixes the task-end call with another
  call is projected as a whole; Codex gets a call of a tool it does not know,
  although `docs/configuration.md:162` says the tool is hidden.
* `state_file_old_snapshot`: a writer puts its copy of *every* record over the
  file it has just read, so a record that another process verified in between
  goes back to an old version, against `docs/configuration.md:214`.
* `insert_after_empty_line`: the patch of `insert_text_at_line` finds its place by the
  lines above it and loses the last one when it is empty, so the text lands before
  the empty line it should follow, although `tools/text_editor.go:47` says "Line
  number after which to insert text".

## 6. Seen while modelling, without a run of their own

Turns:

* The task result of a streamed projected turn is emitted at index 0 although items
  of earlier rounds were finished there (`projected_responses.go:550`); the test at
  `projected_stream_state_test.go:16` wants global indexes. `StreamMatchesOutput`
  leaves out exactly these turns (`ResultReplaces`). TLC shows two items at index 0.
* A streamed chat turn that ends by the task-end tool after it has shown some other
  text makes the message with the result in a new state (`internal_stream.go:120`), whose
  text has the id `msg_<request id>` again (`convert.go:98`): two items of the
  completed response share it. TLC shows it; `ItemIdsUnique` allows it for this
  message alone.
* An item of a projected turn that was announced, but whose done event upstream leaves
  out, is put into the completed response and never finished on the wire
  (`absorbCompletedResponse`, `projected_responses.go:754`). TLC shows it;
  `StreamMatchesOutput` says that it stands under its index.
* An upstream `response.failed` in a projected turn is passed on, and the error
  of its stream then writes a second terminal event.
* If upstream leaves out the added event of an item in a correction round, its
  done event shows the item that was meant to be hidden.
* Without streaming, a web search beside a normal call is projected to Codex as a
  call of `codex_web_search` (`projected_responses.go:182`; only the end tool is
  filtered, `task_completion.go:122`); the limit of follow-ups starts again with each
  correction; and a timeout of the upstream client returns without writing anything,
  which the HTTP server turns into an empty 200. The fallback for structured output
  does not filter internal calls.
* Sparse indexes of tool calls in a chat stream lose the last call. A batch of a web
  search and a normal call runs the search again while the calls are projected
  (`convert.go:276`).
* A retry event promises a retry (`docs/diagnostics-and-local-debug.md:142`),
  which a cancel during the wait prevents; an error that is not retryable is
  reported as failed with a retry count of 0.
* The HTTP server stops writing ten minutes after a request came in
  (`main.go:242`), while each upstream call of a turn may take ten minutes.

State files and slots:

* Two processes may both see an old lock; the slower one then removes the fresh
  lock of the faster one and both are inside (`state_file.go:33`). The model has
  these steps. They set `broken`, and the properties speak of the time before;
  without that condition TLC shows two processes inside after 18 steps.
* In the mode `upstream` the second provider that lists the same model overwrites
  the first one's entry (`config.go:526`), against `docs/configuration.md:252`. TLC
  shows it in `ModelSlots`.
* A provider's new model takes a free slot before the saved slots of the providers
  behind it are restored (`model_discovery_state.go:91`), and a model that had the slot
  moves to another one. `SlotsStable` speaks of starts without a new model; TLC shows
  the move in `ModelSlots` for a start with one.

Tools and conversation:

* The broker is called so that it cannot stop a call (`convert.go:268`), against
  `docs/diagnostics-and-local-debug.md:112`: `ToolMemory` with
  `CanReturnLocalText = FALSE` lets a call that has failed be made again and again.
* `repairToolPairing` looks for the answers of a call among the tool messages right
  behind it (`deepseek.go:49`). A summary of a hidden edit, or a note, stands between
  them in a batch; the real result is then replaced by the word that the call was
  interrupted. `AnsweredByResult` names these batches (`CutOff`).
* The first message that names a collaboration mode decides
  (`tool_runtime_availability.go:26`), so the tools of the plan mode stay after it was
  left, against `docs/native-codex-tool-event-shapes.md:47`.
* A move, a write and an insertion by line carry the file as it was when the call was
  translated, and overwrite what was edited since. `EditsTakeEffect` speaks of these
  three only while the file is unchanged.
* `replace_text` of a line and its end by nothing leaves an empty line; a replacement
  of a part of a line is not widened to the line when the line contains the new text;
  a text that the file happens to contain already is reported as applied; a moved
  empty file gets a line.
* A tool output that quotes an environment context displaces the user's own
  (`compaction.go:17`). Reasoning of an answer without calls goes to a later call
  (`transcript.go:224`). Notes of the editor tools become messages of the assistant.
* Two namespaces that are the same when sanitised share a name, which the first one
  keeps; a plain function found later under the name of a proxy (`read_file`) takes
  it; a call of the proxy of the MCP resources is shown as `list_mcp_resources`; a
  successful output that names a path with `apply_patch` in it counts as a failure;
  a forced choice of `apply_patch` picks one of the six editor tools by map order
  (`tool_choice.go:121`).

Capabilities:

* A body that breaks off during a probe counts as a missing capability and
  overwrites the record (`probe.go:708`; `docs/configuration.md:210` keeps old records
  on inconclusive results). `RecordTrue` excepts it (`torn`).
* Discovery in the mode `merge` adds a second slug for a configured model, with the
  provider's profile; the fingerprint of its record then differs and a fresh
  verification is not used (`model_capabilities.go:223-244`,
  `docs/configuration.md:208`). The warnings come before the discovery
  (`main.go:211`), so discovered models get none (`docs/configuration.md:212`). TLC
  shows it in `Capabilities`.
* `verify` stores the record of an upstream that has neither protocol, and a plan by it
  is Chat Completions (`probe.go:143`), where `setup` refuses (`main.go:448`).
* `CapabilityWarnings` does not compare the address, so a record that no longer
  counts because the base URL changed is not warned about.
* `setup` with one stage in doubt writes the protocol and the switches of that
  moment into the configuration, where no later verification changes them. A 401,
  403 or 5xx on the list of models leaves every `verify` without a record.
* When a verification expires while a server runs, plans change and the catalog does
  not; `AdvertisedHonoured` excepts it. `catalog generate` after an edit writes a
  catalog that the running server does not follow.

## 7. Not modelled

The non-streamed chat turn shares the decisions of the streamed one but none of its
events. Tool schemas, descriptions, the command lines of the proxies and the check
and rewriting of free-form patches (`adapters/patch_contract.go`) are functions from
text to text; what they could get wrong are characters, which these models leave out
except in files. `tool_choice.go` has no effect with the value `auto` that Codex
sends. The edit of Codex's own TOML file is one sequential rewrite with a backup.
Search and vision providers have no state. Logs, dumps and counters are append-only
records that no decision reads; their rotation and retention are not modelled.
`PROJECT.json` gives the reason for each component.

## 8. Plan

Written in this order, the most important behaviour first: `TurnContract`,
`ChatTurn` and its proofs, `ProjectedTurn`, `StateFile`, `ModelSlots`,
`ToolMemory`, `UpstreamStream`, proofs of `UpstreamStream` and `StateFile`; then
`TextEditor`, `ToolRegistry`, `Transcript` and `Conversation`, `UpstreamProbe` and
`Capabilities`, and the non-streamed half of `ProjectedTurn`; then the
invariants and theorems of `ChatTurn`'s wire, `ProjectedTurn`, `Capabilities`,
`ToolMemory` and `ModelSlots`; then the tool
registry and the translations as recursive functions, and the theorems of
`Conversation`. Next:

1. The non-streamed chat turn, as actions of `ChatTurn`, with its proofs.
2. Rotation and retention of logs under their mutex; tool choice as operators.

Abstract specifications still worth stating: a map of records per key with atomic
merge, for `StateFile` to implement where each process writes only what it
changed; a memory without eviction, for `ToolMemory`.
