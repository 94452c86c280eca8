---------------------------- MODULE ToolRegistry ----------------------------
(***************************************************************************)
(* The tools a model is offered in place of Codex's own, and the way from  *)
(* one name to the other (src/internal/tools: tools.go, namespace_tool.go, *)
(* the proxies of read_file, list_files and search_files, of the MCP       *)
(* resources and the web search, and the end of the task).                 *)
(*                                                                         *)
(* A tool of Codex is a type, a namespace and a name.  A registry is the   *)
(* sequence of the entries offered, in the order they were registered; the *)
(* name an entry is offered under is a tuple, <<name>> or, in a namespace, *)
(* the two sanitised names that the code joins with "__".  Descriptions    *)
(* and schemas are left out.                                               *)
(***************************************************************************)
EXTENDS Integers, Sequences, SequencesExt, FiniteSets

CONSTANTS NoNs,        \* the tool stands in no namespace
          Sanitized    \* sanitizeToolName, on the names in use

EditorTools == <<"write_file", "replace_text", "insert_text_at_line",
                 "insert_text_after_match", "move_file", "delete_file">>
McpResourceTools == {"list_mcp_resources", "list_mcp_resource_templates", "read_mcp_resource"}
PlanModeOnlyTools == {"create_goal", "get_goal", "update_goal", "request_user_input"}
HarnessUITools == PlanModeOnlyTools \cup {"update_plan"}
UnsupportedTypes == {"mcp", "computer", "image_generation", "code_interpreter"}
CommandProxies == {"read_file", "list_files", "search_files"}

namespacedToolName(ns, name) ==
  IF ns = NoNs THEN <<name>> ELSE <<Sanitized[ns], Sanitized[name]>>

\* `up` is the name upstream, `name` and `ns` are those Codex knows.
Entry(kind, name, up) == [kind |-> kind, name |-> name, up |-> up, ns |-> NoNs]

McpProxy == Entry("mcp_resource", "codex_context_resource", <<"codex_context_resource">>)
TextEditorEntries ==
  [i \in DOMAIN EditorTools |-> Entry("text_editor_patch", "apply_patch", <<EditorTools[i]>>)]

convertFunction(tool, editor) ==
  CASE tool.name = "skill_view" -> <<McpProxy>>
    [] tool.name \in McpResourceTools /\ editor -> <<McpProxy>>
    [] tool.name \in HarnessUITools -> <<Entry("harness_ui", tool.name, <<tool.name>>)>>
    [] tool.name = "view_image" -> <<Entry("image_view", tool.name, <<"inspect_local_image">>)>>
    [] OTHER -> <<Entry("function", tool.name, <<tool.name>>)>>

\* Codex's patch tool becomes the six file editor tools, except for OpenAI.
convertCustom(tool, editor) ==
  CASE tool.name = "apply_patch" /\ editor -> TextEditorEntries
    [] tool.name = "apply_patch" -> <<Entry("patch", tool.name, <<tool.name>>)>>
    [] OTHER -> <<Entry("custom", tool.name, <<tool.name>>)>>

ConvertTool(tool, editor) ==
  CASE tool.type = "function" -> convertFunction(tool, editor)
    [] tool.type \in {"custom", "apply_patch"} -> convertCustom(tool, editor)
    [] tool.type = "tool_search" -> <<Entry("tool_search", "tool_search", <<"tool_search">>)>>
    [] tool.type = "file_search" -> <<Entry("file_search", "file_search", <<"search_files">>)>>
    [] tool.type \in {"shell", "local_shell"} -> <<Entry("shell", "shell", <<"shell">>)>>
    [] tool.type \in UnsupportedTypes \cup {"web_search"} -> <<>>
    [] OTHER -> <<Entry("function", tool.name, <<tool.name>>)>>

\* The tools of a namespace are offered under both names.
Converted(tool, editor) ==
  LET entries == ConvertTool(tool, editor)
  IN  IF tool.ns = NoNs \/ tool.name = "skill_view" THEN entries
      ELSE [i \in DOMAIN entries |->
              [entries[i] EXCEPT !.ns = tool.ns,
                                 !.up = namespacedToolName(tool.ns, entries[i].name)]]

Has(registry, up) == \E i \in DOMAIN registry : registry[i].up = up

\* Mutant: the last tool of a name gets it.
registerLastTool(registry, entry) ==
  Append(SelectSeq(registry, LAMBDA e : e.up # entry.up), entry)

\* The first tool of a name keeps it.
registerConvertedTool(registry, entry) ==
  IF Has(registry, entry.up) THEN registry ELSE Append(registry, entry)

RegisterEntries(registry, entries) ==
  LET after[n \in 0 .. Len(entries)] ==
        IF n = 0 THEN registry ELSE registerConvertedTool(after[n - 1], entries[n])
  IN  after[Len(entries)]

RegisterAll(registry, tools, editor) ==
  LET after[n \in 0 .. Len(tools)] ==
        IF n = 0 THEN registry ELSE RegisterEntries(after[n - 1], Converted(tools[n], editor))
  IN  after[Len(tools)]

\* Tools offered on top of exec_command, which runs them.
CommandProxyEntries ==
  << Entry("read_file", "read_file", <<"read_file">>),
     Entry("list_files", "list_files", <<"list_files">>),
     Entry("file_search", "file_search", <<"search_files">>) >>

AddCommandProxies(registry) ==
  IF Has(registry, <<"exec_command">>) THEN RegisterEntries(registry, CommandProxyEntries)
  ELSE registry

AddWebSearchProxy(registry) ==
  registerConvertedTool(registry, Entry("web_search", "codex_web_search", <<"codex_web_search">>))

AddTaskEndTool(registry) ==
  registerConvertedTool(registry, Entry("task_end", "codex_bridge_task_end",
                                        <<"codex_bridge_task_end">>))

filterUnavailableRuntimeTools(registry, mode) ==
  LET withheld == IF mode = "plan" THEN {} ELSE {<<n>> : n \in PlanModeOnlyTools}
  IN  FlattenSeq([i \in DOMAIN registry |->
                    IF registry[i].up \in withheld THEN <<>> ELSE <<registry[i]>>])

\* The tools of a request: those Codex sends, those found by earlier
\* searches, the proxies.  The history is read with them.
RequestTools(tools, found, editor) ==
  AddCommandProxies(RegisterAll(RegisterAll(<<>>, tools, editor), found, editor))

\* What is offered: what this turn cannot use is taken out, the bridge's own
\* tools are added.
OfferedTools(registry, mode, search, taskEnd) ==
  LET usable    == filterUnavailableRuntimeTools(registry, mode)
      searching == IF search THEN AddWebSearchProxy(usable) ELSE usable
  IN  IF taskEnd THEN AddTaskEndTool(searching) ELSE searching

-----------------------------------------------------------------------------
(* Names.                                                                  *)

\* The entry a call of the model is read with; an unknown name is taken for a
\* function of that name.
EntryOf(registry, up) ==
  CASE Has(registry, up) -> registry[CHOOSE i \in DOMAIN registry : registry[i].up = up]
    [] ~Has(registry, up) /\ up[1] \in McpResourceTools /\ Has(registry, McpProxy.up) ->
         Entry("mcp_resource", up[1], up)
    [] OTHER -> Entry("function", up[1], up)

\* The entries that stand for Codex's tool `name`.
WithOriginalName(registry, name) == {i \in DOMAIN registry : registry[i].name = name}

\* Mutant: the namespace of a call is forgotten.
nameWithoutNamespace(registry, ns, name) == <<name>>

\* The name a call of the history is shown under.
NativeHistoryName(registry, ns, name) ==
  LET same == WithOriginalName(registry, name)
  IN  IF ns # NoNs THEN namespacedToolName(ns, name)
      ELSE IF Has(registry, <<name>>) \/ Cardinality(same) # 1 THEN <<name>>
      ELSE registry[CHOOSE i \in same : TRUE].up
=============================================================================
