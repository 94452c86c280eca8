----------------------------- MODULE Transcript -----------------------------
(***************************************************************************)
(* The two translations between Codex and a chat model.  A call of the     *)
(* model becomes an item for Codex (responseItemFromToolCall in            *)
(* internal/server/convert.go); the items of the conversation, which Codex *)
(* sends with every request, become the messages of the next chat request  *)
(* (ToChatMessagesWithRuntime in internal/transcript/transcript.go), of    *)
(* which superseded environment contexts are removed (compaction.go) and   *)
(* calls and answers are paired (adapters/deepseek.go).                    *)
(*                                                                         *)
(* A text is its body, the set of the phrases in it that the code looks    *)
(* for, and its blocks, the sequence of its environment contexts.  The     *)
(* system notes around the conversation and the recovery advice of failed  *)
(* tools other than edits are left out.                                    *)
(***************************************************************************)
EXTENDS TextEditor, ToolRegistry

\* What a model profile (internal/adapters) is to the translation.
Profile(editor, repair, reasoning, images) ==
  [editor |-> editor, repair |-> repair, reasoning |-> reasoning, images |-> images]

Profiles ==
  [ deepseek |-> Profile(TRUE, TRUE, TRUE, FALSE),
    kimi     |-> Profile(TRUE, TRUE, FALSE, FALSE),
    mimo     |-> Profile(TRUE, TRUE, FALSE, TRUE),
    openai   |-> Profile(FALSE, FALSE, FALSE, TRUE),
    default  |-> Profile(TRUE, FALSE, FALSE, FALSE) ]

\* The reasoning of an answer is a number, of which this one is none.
NoReasoning == 0

-----------------------------------------------------------------------------
(* Items of Codex.                                                         *)

MessageItem(role, body, blocks) ==
  [type |-> "message", role |-> role, body |-> body, blocks |-> blocks]
CallItem(type, id, ns, name, args) ==
  [type |-> type, id |-> id, ns |-> ns, name |-> name, args |-> args]
OutputItem(id, body, blocks) ==
  [type |-> "output", id |-> id, body |-> body, blocks |-> blocks]
ReasoningItem(text) == [type |-> "reasoning", text |-> text]
FoundItem(tools) == [type |-> "additional_tools", tools |-> tools]

CallTypes == {"function_call", "custom_tool_call", "tool_search_call", "shell_call"}
IsCall(item) == item.type \in CallTypes
IsPatch(item) == item.type = "custom_tool_call" /\ item.name = "apply_patch"

-----------------------------------------------------------------------------
(* From a call of the model to an item.                                    *)

localToolResultMessageItem(code) == MessageItem("assistant", {code}, <<>>)

\* The native MCP call by the action asked for, or by the name used.
MCPResourceCallForTool(name, args) ==
  CASE args[1] = "read_mcp" \/ (name = "read_mcp_resource" /\ args[1] = "") -> "read_mcp_resource"
    [] args[1] = "list_mcp_templates" \/ (name = "list_mcp_resource_templates" /\ args[1] = "") ->
         "list_mcp_resource_templates"
    [] OTHER -> "list_mcp_resources"

\* Mutant: of a patch only the first operation is passed on.
firstOperationItem(id, call, disk) ==
  LET result == PatchFor(call, disk)
  IN  IF result.kind = "note" THEN localToolResultMessageItem(result.code)
      ELSE CallItem("custom_tool_call", id, NoNs, "apply_patch", <<Head(result.ops)>>)

textEditorItem(id, call, disk) ==
  LET result == PatchFor(call, disk)
  IN  IF result.kind = "note" THEN localToolResultMessageItem(result.code)
      ELSE CallItem("custom_tool_call", id, NoNs, "apply_patch", result.ops)

\* A call is [id, up, args]; the editor's args are a Call of TextEditor, those
\* of other tools a tuple of strings.
responseItemFromToolCall(call, registry, disk) ==
  LET entry == EntryOf(registry, call.up)
      native(type, name, args) == CallItem(type, call.id, NoNs, name, args)
  IN  CASE entry.kind = "text_editor_patch" -> textEditorItem(call.id, call.args, disk)
        [] entry.kind \in {"custom", "patch"} -> native("custom_tool_call", entry.name, call.args)
        [] entry.kind = "tool_search" -> native("tool_search_call", "tool_search", call.args)
        [] entry.kind = "mcp_resource" ->
             native("function_call", MCPResourceCallForTool(entry.name, call.args), call.args)
        [] entry.kind \in CommandProxies \cup {"file_search"} ->
             native("function_call", "exec_command", <<"run", entry.kind>> \o call.args)
        [] entry.kind = "shell" -> native("shell_call", "shell", call.args)
        [] OTHER -> CallItem("function_call", call.id, entry.ns, entry.name, call.args)

-----------------------------------------------------------------------------
(* The state of an edit, read off Codex's answer to the patch.             *)

\* The phrases looked for, the first rule with a phrase in the text applies.
PatchRules ==
  << [phrases |-> {"file_edit_state: completed"}, kind |-> "none"],
     [phrases |-> {"*** read file:"}, kind |-> "read_file_operation"],
     [phrases |-> {"text_editor_invalid_arguments"}, kind |-> "invalid_arguments"],
     [phrases |-> {"text_editor_already_applied"}, kind |-> "already_applied"],
     [phrases |-> {"file_edit_state: not_modified"}, kind |-> "no_progress"],
     [phrases |-> {"invalid hunk", "expected context"}, kind |-> "invalid_hunk"],
     [phrases |-> {"failed to find expected lines", "verification failed"},
      kind |-> "context_mismatch"],
     [phrases |-> {"permission denied"}, kind |-> "permission_or_sandbox"],
     [phrases |-> {"no such file"}, kind |-> "path_error"],
     [phrases |-> {"malformed"}, kind |-> "malformed_patch"],
     [phrases |-> {"apply_patch"}, kind |-> "unknown"] >>

ClassifyPatchFailure(body) ==
  LET hits == {i \in DOMAIN PatchRules : PatchRules[i].phrases \cap body # {}}
  IN  IF hits = {} THEN "none" ELSE PatchRules[Min(hits)].kind

PatchSucceeded(body) == "success. updated the following files" \in body

\* What the model reads of the answer to an edit it made.
formatTextEditorToolOutput(body) ==
  LET kind == ClassifyPatchFailure(body)
  IN  CASE kind # "none" -> body \cup {"edit failed: " \o kind}
        [] kind = "none" /\ PatchSucceeded(body) -> body \cup {"file_edit_state: completed"}
        [] OTHER -> body

\* Of an edit that is hidden it reads the state alone.
hiddenTextEditorHistoryOutputSummary(body, edit) ==
  LET kind == ClassifyPatchFailure(body)
  IN  {"output hidden",
       CASE edit.alreadyApplied -> "file_edit_state: already_applied"
         [] ~edit.alreadyApplied /\ (PatchSucceeded(body) \/ "file_edit_state: completed" \in body) ->
              "file_edit_state: completed"
         [] OTHER ->
              (CASE kind = "already_applied" -> "file_edit_state: already_applied"
                 [] kind = "no_progress" -> "file_edit_state: not_modified"
                 [] kind = "invalid_arguments" -> "file_edit_state: rejected"
                 [] kind = "permission_or_sandbox" -> "file_edit_state: blocked"
                 [] OTHER -> "file_edit_state: failed")}

-----------------------------------------------------------------------------
(* From items to messages.                                                 *)

ChatMessage(role, body, blocks) ==
  [role |-> role, body |-> body, blocks |-> blocks,
   reasoning |-> NoReasoning, calls |-> <<>>, answers |-> 0]
CallsMessage(reasoning, calls) ==
  [ChatMessage("assistant", {}, <<>>) EXCEPT !.reasoning = reasoning, !.calls = calls]
ToolMessage(id, body, blocks) == [ChatMessage("tool", body, blocks) EXCEPT !.answers = id]

\* Mutant: the developer keeps a role that chat upstreams do not know.
roleAsSent(role, body) ==
  IF role = "user" /\ "# AGENTS.md instructions" \in body THEN "system" ELSE role

normalizeRole(role, body) ==
  CASE role = "developer" -> "system"
    [] role = "user" /\ "# AGENTS.md instructions" \in body -> "system"
    [] role \in {"assistant", "system", "tool"} -> role
    [] OTHER -> "user"

\* A function call of the history by the name the model knows it under; an
\* exec_command that was one of the command proxies, by what is remembered.
functionToolCall(item, registry, remembered) ==
  LET up   == NativeHistoryName(registry, item.ns, item.name)
      mine == {call \in remembered : call.id = item.id}
  IN  IF up = <<"exec_command">> /\ mine # {} THEN CHOOSE call \in mine : TRUE
      ELSE [id |-> item.id, up |-> up, args |-> item.args]

plainToolCall(item) == [id |-> item.id, up |-> <<item.name>>, args |-> item.args]

editorToolCall(item) ==
  LET call == CallFromPatch(item.args)
  IN  [id |-> item.id, up |-> <<call.tool>>, args |-> call]

shouldHideFunctionToolHistory(item, profile) ==
  item.name \in {"view_image", "inspect_local_image"} /\ ~profile.images

flush(s) ==
  IF s.pending = <<>> THEN s
  ELSE [s EXCEPT !.messages = Append(@, CallsMessage(s.reasoning, s.pending)),
                 !.pending = <<>>, !.reasoning = NoReasoning]

\* Mutant: a message ends the reasoning.
sayAndForget(s, message) ==
  [s EXCEPT !.messages = Append(@, message), !.reasoning = NoReasoning]

say(s, message) == [s EXCEPT !.messages = Append(@, message)]

showCall(s, call) ==
  [s EXCEPT !.pending = Append(@, call),
            !.known = {c \in @ : c.id # call.id} \cup {call}]

\* An edit the tools cannot express is hidden behind a summary.
hideEdit(s, item) ==
  LET edit == [id |-> item.id, files |-> PatchTouchedFiles(item.args),
               alreadyApplied |-> PatchIsNoopUpdate(item.args)]
  IN  say([flush(s) EXCEPT !.edits = {e \in @ : e.id # edit.id} \cup {edit}],
          ChatMessage("system", {"edit hidden"}, <<>>))

convertCall(s, item, profile, registry, remembered) ==
  CASE item.type = "function_call" /\ shouldHideFunctionToolHistory(item, profile) ->
         [s EXCEPT !.hidden = @ \cup {item.id}]
    [] item.type = "function_call" /\ ~shouldHideFunctionToolHistory(item, profile) ->
         showCall(s, functionToolCall(item, registry, remembered))
    [] IsPatch(item) /\ profile.editor ->
         IF CallFromPatch(item.args) = NoCall THEN hideEdit(s, item)
         ELSE showCall(s, editorToolCall(item))
    [] OTHER -> showCall(s, plainToolCall(item))

\* Answers to calls that are hidden or unknown are left out.
convertOutput(s, item) ==
  LET edits == {e \in s.edits : e.id = item.id}
      calls == {c \in s.known : c.id = item.id}
      call  == CHOOSE c \in calls : TRUE
      body  == IF call.up \in {<<n>> : n \in ToSet(EditorTools)}
               THEN formatTextEditorToolOutput(item.body) ELSE item.body
  IN  CASE item.id \in s.hidden -> s
        [] item.id \notin s.hidden /\ edits # {} ->
             say(flush(s),
                 ChatMessage("system",
                             hiddenTextEditorHistoryOutputSummary(item.body, CHOOSE e \in edits : TRUE),
                             <<>>))
        [] item.id \notin s.hidden /\ edits = {} /\ calls # {} ->
             say(flush(s), ToolMessage(item.id, body, item.blocks))
        [] OTHER -> flush(s)

convertItem(s, item, profile, registry, remembered) ==
  CASE item.type = "message" ->
         say(flush(s), ChatMessage(normalizeRole(item.role, item.body), item.body, item.blocks))
    [] item.type = "output" -> convertOutput(s, item)
    [] item.type = "reasoning" ->
         IF profile.reasoning THEN [s EXCEPT !.reasoning = item.text] ELSE s
    [] IsCall(item) -> convertCall(s, item, profile, registry, remembered)
    [] OTHER -> s

\* The environment contexts in the texts.
Contexts(messages) == FlattenSeq([i \in DOMAIN messages |-> messages[i].blocks])

\* Mutant: every message keeps the last of its own contexts.
keepLastOfEachMessage(messages) ==
  [i \in DOMAIN messages |->
     [messages[i] EXCEPT !.blocks = IF @ = <<>> THEN @ ELSE <<Last(@)>>]]

\* Of message i stays the last context, if it is the last of all; a message of
\* the user that held nothing else goes.
keptMessage(messages, i) ==
  LET last == Max({j \in DOMAIN messages : messages[j].blocks # <<>>})
      kept == IF i = last THEN <<Last(messages[i].blocks)>> ELSE <<>>
  IN  IF messages[i].role = "user" /\ messages[i].body = {} /\ kept = <<>> THEN <<>>
      ELSE <<[messages[i] EXCEPT !.blocks = kept]>>

\* Of several environment contexts in the texts the last one is kept.
keepLatestEnvironmentContext(messages) ==
  IF Len(Contexts(messages)) <= 1 THEN messages
  ELSE FlattenSeq([i \in DOMAIN messages |-> keptMessage(messages, i)])

NothingRead ==
  [messages |-> <<>>, pending |-> <<>>, reasoning |-> NoReasoning,
   known |-> {}, edits |-> {}, hidden |-> {}]

\* What has been read after each item.
Readings(items, profile, registry, remembered) ==
  LET read[n \in 0 .. Len(items)] ==
        IF n = 0 THEN NothingRead
        ELSE convertItem(read[n - 1], items[n], profile, registry, remembered)
  IN  read

ToChatMessages(items, profile, registry, remembered) ==
  LET read == Readings(items, profile, registry, remembered)
  IN  keepLatestEnvironmentContext(flush(read[Len(items)]).messages)

-----------------------------------------------------------------------------
(* One call, one answer.                                                   *)

NoResult == {"no result: the previous turn was interrupted"}

\* Mutant: only the next message is looked at.
nextCandidate(messages, i) ==
  {j \in {i + 1} \cap DOMAIN messages : messages[j].role = "tool"}

\* The answers right behind message i.
candidates(messages, i) ==
  {j \in i + 1 .. Len(messages) : \A k \in i + 1 .. j : messages[k].role = "tool"}

pairedToolMessage(call, messages, i) ==
  LET mine == {j \in candidates(messages, i) : messages[j].answers = call.id}
  IN  IF mine = {} THEN ToolMessage(call.id, NoResult, <<>>) ELSE messages[Max(mine)]

\* A batch of calls is split into calls of their own, each with its answer;
\* other answers are left out.
pairs(messages, i) ==
  [k \in DOMAIN messages[i].calls |->
     << [messages[i] EXCEPT !.calls = <<messages[i].calls[k]>>,
                            !.reasoning = IF k = 1 THEN @ ELSE NoReasoning],
        pairedToolMessage(messages[i].calls[k], messages, i) >>]

repairedMessage(messages, i) ==
  CASE messages[i].calls # <<>> -> FlattenSeq(pairs(messages, i))
    [] messages[i].calls = <<>> /\ messages[i].role = "tool" -> <<>>
    [] OTHER -> <<messages[i]>>

repairToolPairing(messages) ==
  FlattenSeq([i \in DOMAIN messages |-> repairedMessage(messages, i)])

PrepareChatRequest(messages, profile) ==
  IF profile.repair THEN repairToolPairing(messages) ELSE messages
=============================================================================
