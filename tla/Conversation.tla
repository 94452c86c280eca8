---------------------------- MODULE Conversation ----------------------------
(***************************************************************************)
(* A conversation over several requests: Codex with its history and its    *)
(* disk, the bridge that translates both ways (Transcript) and remembers   *)
(* which exec_command was a tool of its own, and the model.                *)
(*                                                                         *)
(* Codex sends its whole history with every request.  A call of the answer *)
(* is translated against the disk of that moment (Emit); Codex runs it     *)
(* when it gets to it (Run), while later calls are still being translated  *)
(* and others edit files (Interfere).  The user may interrupt a turn,      *)
(* switch to a model with another profile, and the bridge may restart.     *)
(***************************************************************************)
EXTENDS Transcript

CONSTANTS
  Tools,          \* the tools Codex offers
  Deferred,       \* the tools a tool_search of Codex finds
  Modes,          \* collaboration modes the user may choose
  Outputs,        \* external: what Codex may answer to a call that is no edit
  ModelCalls,     \* what the model may call: [up, args]
  FirstDisk,      \* the disk at the start
  OutsideEdits,   \* disks an edit from outside may leave
  ProfileNames,   \* profiles of the models of this conversation
  MaxBatch,       \* bound: calls of one answer
  MaxCalls,       \* bound: calls of the conversation
  MaxAsks         \* bound: messages of the user

\* What is external keeps to its kind: lists are lists, an edit from outside
\* leaves the paths there are, and no tool prints the bridge's own words for a
\* call without a result.
ASSUME ConversationConstants ==
  /\ Tools \in Seq(ToSet(Tools)) /\ Deferred \in Seq(ToSet(Deferred))
  /\ ProfileNames \subseteq DOMAIN Profiles
  /\ \A edited \in OutsideEdits : DOMAIN edited = DOMAIN FirstDisk
  /\ \A output \in Outputs : 
       output.blocks \in Seq(ToSet(output.blocks)) /\ output.body \cap NoResult = {}
  /\ \A call \in ModelCalls :
       (\E tool \in ToSet(EditorTools) : call.up = <<tool>>) \/ call.args \in Seq(ToSet(call.args))
  /\ MaxCalls \in Nat

VARIABLES
  profile,     \* of the model in use
  disk,
  history,     \* Codex's: the items of every request
  phase,       \* idle, ready to send, waiting for the answer, calling
  request,     \* the last chat request: its messages and the tools on offer
  batch,       \* calls of the answer that are not translated yet
  running,     \* calls translated, with what Codex has made of them
  remembered,  \* toollog's logical calls: those sent as an exec_command
  made,        \* history: calls with their items and the disk they were read with
  asks         \* history: what the user and Codex have done so far

vars == <<profile, disk, history, phase, request, batch, running, remembered, made, asks>>

Settings == Profiles[profile]
NoOutput == [type |-> "none"]

Found(items) ==
  FlattenSeq([i \in DOMAIN items |->
                IF items[i].type = "additional_tools" THEN items[i].tools ELSE <<>>])

Init ==
  /\ profile \in ProfileNames
  /\ disk = FirstDisk
  /\ history = <<>> /\ phase = "idle"
  /\ request = [profile |-> profile, messages |-> <<>>, offered |-> <<>>]
  /\ batch = <<>> /\ running = <<>> /\ remembered = {} /\ made = {}
  /\ asks = [count |-> 0, env |-> 0, mode |-> "none", switched |-> FALSE, edited |-> FALSE]

\* The user asks for something.  A changed environment comes as a message of
\* its own, as the first one does, a changed mode in a message of the developer.
Ask(moved, mode) ==
  /\ phase = "idle"
  /\ asks.count < MaxAsks
  /\ asks.count = 0 => moved
  /\ LET env   == IF moved THEN asks.count + 1 ELSE asks.env
         modes == IF mode = asks.mode THEN <<>>
                  ELSE <<MessageItem("developer", {"collaboration mode: " \o mode}, <<>>)>>
         envs  == IF moved THEN <<MessageItem("user", {}, <<env>>)>> ELSE <<>>
     IN  /\ history' = history \o modes \o envs \o <<MessageItem("user", {"ask"}, <<>>)>>
         /\ asks' = [asks EXCEPT !.count = @ + 1, !.env = env, !.mode = mode]
  /\ phase' = "ready"
  /\ UNCHANGED <<profile, disk, request, batch, running, remembered, made>>

\* The first message that names a mode decides.
collaborationMode(messages) ==
  LET naming == {i \in DOMAIN messages :
                   messages[i].body \cap {"collaboration mode: plan", "collaboration mode: default"} # {}}
  IN  CASE naming = {} -> "none"
        [] naming # {} /\ "collaboration mode: plan" \in messages[Min(naming)].body -> "plan"
        [] OTHER -> "default"

\* The handler of a request, up to the chat request it sends.
Send ==
  /\ phase = "ready"
  /\ LET registry == RequestTools(Tools, Found(history), Settings.editor)
         messages == ToChatMessages(history, Settings, registry, remembered)
     IN  request' = [profile  |-> profile,
                     messages |-> PrepareChatRequest(messages, Settings),
                     offered  |-> OfferedTools(registry, collaborationMode(messages), FALSE, FALSE)]
  /\ phase' = "waiting"
  /\ UNCHANGED <<profile, disk, history, batch, running, remembered, made, asks>>

\* The answer: calls of tools on offer, or of names nobody offered; reasoning
\* and a text may come before them.  An answer without calls ends the turn.
Callable(up) ==
  \/ Has(request.offered, up)
  \/ Len(up) = 1 /\ up[1] \notin {"apply_patch"} \cup ToSet(EditorTools)

\* The reasoning of an answer, told apart by its place.
Thought == Len(history) + 1

Reply(calls, reasoned) ==
  /\ phase = "waiting"
  /\ Cardinality(made) + Len(calls) <= MaxCalls
  /\ reasoned => Settings.reasoning
  /\ \A i \in DOMAIN calls : Callable(calls[i].up)
  /\ batch' = [i \in DOMAIN calls |->
                 [call    |-> [id |-> Cardinality(made) + i, up |-> calls[i].up, args |-> calls[i].args],
                  thought |-> IF reasoned THEN Thought ELSE NoReasoning]]
  /\ history' = history \o
       (IF reasoned THEN <<ReasoningItem(Thought), MessageItem("assistant", {"text"}, <<>>)>>
        ELSE IF calls = <<>> THEN <<MessageItem("assistant", {"text"}, <<>>)>> ELSE <<>>)
  /\ phase' = IF calls = <<>> THEN "idle" ELSE "calling"
  /\ UNCHANGED <<profile, disk, request, running, remembered, made, asks>>

\* The bridge translates the next call of the answer.
Emit ==
  /\ phase = "calling" /\ batch # <<>>
  /\ LET call == Head(batch).call
         item == responseItemFromToolCall(call, request.offered, disk)
     IN  /\ running' = Append(running, [item |-> item, output |-> NoOutput])
         /\ remembered' = IF EntryOf(request.offered, call.up).kind \in CommandProxies \cup {"file_search"}
                          THEN remembered \cup {call} ELSE remembered
         /\ made' = made \cup {[call |-> call, thought |-> Head(batch).thought,
                                item |-> item, disk |-> disk,
                                known |-> Has(request.offered, call.up)]}
  /\ batch' = Tail(batch)
  /\ UNCHANGED <<profile, disk, history, phase, request, asks>>

\* External: Codex runs a call it has received; a command may print a text
\* that quotes an environment context.
PatchOutput(applied) ==
  OutputItem(0, IF applied THEN {"success. updated the following files"}
                ELSE {"verification failed", "failed to find expected lines"}, <<>>)

Run(i, output) ==
  /\ i \in DOMAIN running
  /\ IsCall(running[i].item) /\ running[i].output = NoOutput
  /\ LET item    == running[i].item
         applied == Apply(disk, item.args)
     IN  IF IsPatch(item)
         THEN /\ output = CHOOSE o \in Outputs : TRUE
              /\ running' = [running EXCEPT ![i].output = [PatchOutput(applied.ok) EXCEPT !.id = item.id]]
              /\ disk' = IF applied.ok THEN applied.disk ELSE disk
         ELSE /\ output.blocks # <<>> => item.name = "exec_command"
              /\ running' = [running EXCEPT ![i].output = OutputItem(item.id, output.body, output.blocks)]
              /\ UNCHANGED disk
  /\ UNCHANGED <<profile, history, phase, request, batch, remembered, made, asks>>

\* External: Codex records the answer's items, then the outputs in their order.
Recorded ==
  LET outputs(r) == CASE r.output = NoOutput -> <<>>
                      [] r.output # NoOutput /\ r.item.type = "tool_search_call" ->
                           <<FoundItem(Deferred), r.output>>
                      [] OTHER -> <<r.output>>
  IN  history \o [i \in DOMAIN running |-> running[i].item]
              \o FlattenSeq([i \in DOMAIN running |-> outputs(running[i])])

\* Everything has been run: the history goes out again, or the turn is over
\* because no call was left for Codex.
Record ==
  /\ phase = "calling" /\ batch = <<>>
  /\ \A i \in DOMAIN running : IsCall(running[i].item) => running[i].output # NoOutput
  /\ history' = Recorded
  /\ running' = <<>>
  /\ phase' = IF \E i \in DOMAIN running : IsCall(running[i].item) THEN "ready" ELSE "idle"
  /\ UNCHANGED <<profile, disk, request, batch, remembered, made, asks>>

\* External: the user interrupts; calls not run yet stay without an output.
Interrupt ==
  /\ phase = "calling"
  /\ \E i \in DOMAIN running : IsCall(running[i].item) /\ running[i].output = NoOutput
  /\ history' = Recorded
  /\ running' = <<>> /\ batch' = <<>>
  /\ phase' = "idle"
  /\ UNCHANGED <<profile, disk, request, remembered, made, asks>>

\* External: a command, or somebody else, edits files while a patch is on its
\* way; at other times the edit shows in the disk the next call is read with.
Interfere ==
  /\ \E i \in DOMAIN running : IsPatch(running[i].item) /\ running[i].output = NoOutput
  /\ ~asks.edited
  /\ disk' \in OutsideEdits
  /\ asks' = [asks EXCEPT !.edited = TRUE]
  /\ UNCHANGED <<profile, history, phase, request, batch, running, remembered, made>>

\* External: the user goes on with another model.
Switch ==
  /\ phase = "idle" /\ ~asks.switched /\ history # <<>>
  /\ profile' \in ProfileNames \ {profile}
  /\ asks' = [asks EXCEPT !.switched = TRUE]
  /\ UNCHANGED <<disk, history, phase, request, batch, running, remembered, made>>

\* The bridge restarts between two turns.
Restart ==
  /\ phase = "idle" /\ remembered # {}
  /\ remembered' = {}
  /\ UNCHANGED <<profile, disk, history, phase, request, batch, running, made, asks>>

Batches == UNION {[1..n -> ModelCalls] : n \in 0..MaxBatch}

Next ==
  \/ \E moved \in BOOLEAN, mode \in Modes : Ask(moved, mode)
  \/ Send
  \/ \E calls \in Batches, reasoned \in BOOLEAN : Reply(calls, reasoned)
  \/ Emit
  \/ \E i \in DOMAIN running, output \in Outputs : Run(i, output)
  \/ Record
  \/ Interrupt
  \/ Interfere
  \/ Switch
  \/ Restart

Spec == Init /\ [][Next]_vars

-----------------------------------------------------------------------------
(* Properties.                                                             *)

\* Every variable holds what its comment says; calls are only open while an
\* answer is being worked on.
TypeOK ==
  /\ profile \in ProfileNames
  /\ DOMAIN disk = DOMAIN FirstDisk
  /\ phase \in {"idle", "ready", "waiting", "calling"}
  /\ phase # "calling" => batch = <<>> /\ running = <<>>
  /\ \A i \in DOMAIN history : history[i].type \in
       CallTypes \cup {"message", "output", "reasoning", "additional_tools"}
  /\ \A i \in DOMAIN request.messages :
       request.messages[i].role \in {"system", "user", "assistant", "tool"}
  /\ Cardinality(made) <= MaxCalls

Fresh == phase = "waiting"      \* the request is the one of this history

Messages == DOMAIN request.messages
CallsAt(i) == ToSet(request.messages[i].calls)
OutputsOf(id) == {j \in DOMAIN history : history[j].type = "output" /\ history[j].id = id}

\* An edit of the history that no tool can express.
HiddenEdits ==
  {m \in made : IsCall(m.item) /\ IsPatch(m.item) /\ CallFromPatch(m.item.args) = NoCall}

\* A text, or a hidden edit or its output, stands between a call and the
\* call's output.
CutOff(id) ==
  \E i, j, k \in DOMAIN history :
    /\ IsCall(history[i]) /\ history[i].id = id
    /\ j \in OutputsOf(id) /\ i < k /\ k < j
    /\ \/ history[k].type = "message"
       \/ /\ history[k].type \in {"custom_tool_call", "output"}
          /\ \E m \in HiddenEdits : m.call.id = history[k].id

\* What a model is shown as its earlier call of a tool on offer means what the
\* call meant: made again on the disk of that moment, it would become the same
\* item for Codex, also when another model with other tools goes on
\* (functionToolCall, TextEditorToolCallFromPatch, logicalProxyHistoryToolCall).
ReplayedSame ==
  Fresh =>
    \A i \in Messages : \A c \in CallsAt(i) : \A m \in made :
      m.known /\ c.id = m.call.id =>
        responseItemFromToolCall(c, request.offered, m.disk) = m.item

\* Every call shown has the one answer Codex recorded for it, or, where the
\* profile repairs pairs, the word that there is none exactly if there is
\* none; repaired, it stands right behind its call (transcript.go:179-247,
\* repairToolPairing).  CutOff names the batches in which a real result gives way
\* to that word: those with a hidden edit or a note among the calls.
AnsweredByResult ==
  Fresh =>
    \A i \in Messages : \A c \in CallsAt(i) :
      LET answers == {j \in Messages : request.messages[j].answers = c.id}
      IN  /\ Settings.repair => Cardinality(CallsAt(i)) = 1 /\ answers = {i + 1}
          /\ ~CutOff(c.id) =>
               /\ \A j \in answers : OutputsOf(c.id) = {} <=> request.messages[j].body = NoResult
               /\ OutputsOf(c.id) # {} => Cardinality(answers) = 1

\* The reasoning of an answer is shown again with the first of its calls that
\* is shown, whatever text, notes or hidden calls stand between (pendingReasoning).
ReasoningKept ==
  Fresh /\ Settings.reasoning =>
    \A i \in Messages, m \in made :
      LET before == {n \in made : n.thought = m.thought /\ n.call.id < m.call.id
                                    /\ \E j \in Messages : n.call.id \in {c.id : c \in CallsAt(j)}}
      IN  m.thought # NoReasoning /\ before = {} /\ m.call.id \in {c.id : c \in CallsAt(i)}
            => request.messages[i].reasoning = m.thought

\* The model sees every message of the user, and of the environment contexts
\* the last one alone, as long as no tool output quotes one.
UserSeen ==
  LET shown == Contexts(request.messages)
      asked == {i \in Messages : request.messages[i].role = "user" /\ "ask" \in request.messages[i].body}
      quoted == \E j \in DOMAIN history : history[j].type = "output" /\ history[j].blocks # <<>>
  IN  Fresh => /\ Cardinality(asked) = asks.count
               /\ Len(shown) <= 1
               /\ ~quoted => shown = IF asks.env = 0 THEN <<>> ELSE <<asks.env>>

\* A name on offer never comes to mean another tool, whatever namespaced tools
\* are found on the way (registerConvertedTool, namespacedToolName).
NamesKeepMeaning ==
  [][\A i \in DOMAIN request.offered, j \in DOMAIN request'.offered :
       LET old == request.offered[i]
           new == request'.offered[j]
       IN  request.profile = request'.profile /\ old.up = new.up
             => old = new
    ]_request

\* Codex applies the patch of call m in this step.
Applies(m) ==
  /\ \E i \in DOMAIN running \cap DOMAIN running' :
       running[i] # running'[i] /\ running[i].item = m.item
  /\ IsPatch(m.item) /\ Apply(disk, m.item.args).ok
  /\ m.call.up \in {<<tool>> : tool \in ToSet(EditorTools)}

\* These tools carry no more of the file than their arguments.
FollowsFile == {"replace_text", "insert_text_after_match", "delete_file"}

\* An edit Codex applies does what the tool's call asks for, to the file as it
\* is when it is applied.  A write, a move or an insertion by line carries what
\* the file was when the call was translated, and does so only if the file has
\* not changed since; of insertions see InsertsAfterLine.
EditsTakeEffect ==
  [][\A m \in made :
       /\ Applies(m)
       /\ m.call.args.tool \in FollowsFile \/ disk = m.disk
       /\ ~AfterEmptyLine(m.call.args, disk)
       => Fulfils(m.call.args, disk, disk')
    ]_<<running, disk>>

\* insert_text_at_line puts the text after the line it names.
InsertsAfterLine ==
  [][\A m \in made :
       Applies(m) /\ m.call.args.tool = "insert_text_at_line" /\ disk = m.disk
         => Fulfils(m.call.args, disk, disk')
    ]_<<running, disk>>
=============================================================================
