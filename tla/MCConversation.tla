--------------------------- MODULE MCConversation ---------------------------
(* Instances of Conversation for TLC. *)
EXTENDS Conversation

MCSanitized == [n \in {"m.c", "m_c", "q", "skill_view"} |-> IF n = "m.c" THEN "m_c" ELSE n]

Tool(type, ns, name) == [type |-> type, ns |-> ns, name |-> name]

MCTools ==
  << Tool("function", NoNs, "exec_command"), Tool("custom", NoNs, "apply_patch"),
     Tool("function", NoNs, "list_mcp_resources"), Tool("function", NoNs, "view_image"),
     Tool("function", NoNs, "request_user_input"), Tool("tool_search", NoNs, "tool_search"),
     Tool("function", "m.c", "q") >>

\* Found later: a tool whose namespace is the same when sanitised.
MCDeferred == << Tool("function", "m_c", "q") >>

MCOutputs == { [body |-> {"output"}, blocks |-> <<>>], [body |-> {"output"}, blocks |-> <<0>>] }

Text == <<"x", "y", NL, "z", NL>>
MCFirstDisk == [a |-> Text, b |-> Absent]
MCOutsideEdits == { [a |-> <<"w", NL>> \o Text, b |-> Absent] }

Edit(tool, dest, old, text, line) ==
  [up |-> <<tool>>, args |-> Call(tool, "a", dest, old, text, line)]
Use(up, args) == [up |-> up, args |-> args]

MultiFilePatch == Patch(<<AddOp("b", <<"w">>), DeleteOp("a")>>).ops

MCModelCalls ==
  { Edit("write_file", NoPath, <<>>, <<"w">>, 0),
    Edit("replace_text", NoPath, <<"y">>, <<"w">>, 0),
    Edit("insert_text_after_match", NoPath, <<"z">>, <<"w">>, 0),
    Edit("insert_text_at_line", NoPath, <<>>, <<"w">>, 1),
    Edit("move_file", "b", <<>>, <<>>, 0),
    Use(<<"apply_patch">>, MultiFilePatch),
    Use(<<"read_file">>, <<"a">>),
    Use(<<"codex_context_resource">>, <<"read_mcp">>),
    Use(<<"inspect_local_image">>, <<"i">>),
    Use(<<"tool_search">>, <<"q">>),
    Use(<<"m_c", "q">>, <<"q">>) }

-----------------------------------------------------------------------------
(* The editor tools over every short text: an edit that Codex applies to   *)
(* the file it was translated for does what the tool says.                 *)

\* Files that do not begin with an empty line: with nothing but empty lines
\* above, insertLinePatch finds no anchor.
Contents == {text \in SeqOf({"x", "y", NL}, 4) : text = <<>> \/ text[1] # NL}
Pieces == {<<"x">>, <<"y">>, <<"x", "y">>, <<"x", NL, "y">>, <<"y", NL, "y">>}
AllEdits ==
  {Call("write_file", "a", NoPath, <<>>, text, 0) : text \in Pieces}
  \cup {Call(tool, "a", NoPath, old, text, 0) :
          tool \in {"replace_text", "insert_text_after_match"}, old \in Pieces, text \in Pieces}
  \cup {Call("insert_text_at_line", "a", NoPath, <<>>, text, n) : text \in Pieces, n \in 0..3}
  \cup {Call("move_file", "a", "b", <<>>, <<>>, 0), Call("delete_file", "a", NoPath, <<>>, <<>>, 0)}

ASSUME EditsFulfilled ==
  \A content \in Contents \cup {Absent}, edit \in AllEdits :
    LET before  == [a |-> content, b |-> Absent]
        result  == PatchFor(edit, before)
        applied == Apply(before, result.ops)
    IN  result.kind = "patch" /\ applied.ok /\ ~AfterEmptyLine(edit, before)
          => Fulfils(edit, before, applied.disk)

-----------------------------------------------------------------------------
EmptyLineDisk == [a |-> <<"x", NL, NL, "y", NL>>, b |-> Absent]
InsertCalls == {Edit("insert_text_at_line", NoPath, <<>>, <<"w">>, n) : n \in 0..3}
=============================================================================
