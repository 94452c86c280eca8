----------------------------- MODULE TextEditor -----------------------------
(***************************************************************************)
(* The file editor tools the bridge offers to a model in place of Codex's  *)
(* apply_patch: write_file, replace_text, insert_text_at_line,             *)
(* insert_text_after_match, move_file and delete_file                      *)
(* (src/internal/tools/text_editor.go).                                    *)
(*                                                                         *)
(* A call is turned into a patch for Codex (PatchFor), which reads the     *)
(* file on disk to pick the lines the patch names, or into a note that is  *)
(* returned to the model and never reaches Codex.  A patch found later in  *)
(* the history of the conversation is turned back into a call              *)
(* (CallFromPatch), or hidden when it is none that the tools can make.     *)
(*                                                                         *)
(* A text is a sequence of characters, NL among them; a line is a text     *)
(* without NL.  A disk maps each path to a text, or to Absent.  A patch is *)
(* the sequence of its file operations.  Alignment of indentation, the     *)
(* read limit of 4 MB and the spelling of paths are left out.              *)
(***************************************************************************)
EXTENDS Integers, Sequences, SequencesExt, FiniteSets

CONSTANTS NL,       \* the end of a line
          Absent,   \* the content of a path with no file
          NoPath    \* a call without a destination

-----------------------------------------------------------------------------
(* Lines.                                                                  *)

SplitLines(text) ==
  FoldLeft(LAMBDA lines, c : IF c = NL THEN Append(lines, <<>>)
                             ELSE [lines EXCEPT ![Len(lines)] = Append(@, c)],
           << <<>> >>, text)

\* The lines of a text: what follows a final NL is not a line of its own.
EditorLines(text) ==
  LET lines == SplitLines(text)
  IN  IF Len(lines) > 1 /\ Last(lines) = <<>> THEN Front(lines) ELSE lines

TextOf(lines) == FlattenSeq([i \in DOMAIN lines |-> Append(lines[i], NL)])

JoinLines(lines) == Front(TextOf(lines))

Blank(text) == \A i \in DOMAIN text : text[i] = NL

\* `part` stands in `whole` from position i on.
StandsAt(whole, i, part) ==
  /\ i + Len(part) - 1 <= Len(whole)
  /\ SubSeq(whole, i, i + Len(part) - 1) = part

\* The positions at which the lines of `block` stand in `text` as whole lines.
BlocksOf(text, block) ==
  IF block = <<>> THEN {}
  ELSE {k \in DOMAIN EditorLines(text) : StandsAt(EditorLines(text), k, EditorLines(block))}

\* The places of a piece of text, lines or not.
Occurrences(text, piece) == {i \in DOMAIN text : StandsAt(text, i, piece)}

\* strings.Count is 1: a second place that overlaps the first is not counted.
OccursOnce(text, piece) ==
  \E i \in Occurrences(text, piece) :
    \A j \in Occurrences(text, piece) : i <= j /\ j < i + Len(piece)

HasPiece(text, piece) == piece = <<>> \/ Occurrences(text, piece) # {}

-----------------------------------------------------------------------------
(* Patches: a patch is a sequence of file operations.                      *)

AddOp(path, text) ==
  [op |-> "add", path |-> path, lines |-> EditorLines(text)]
DeleteOp(path) ==
  [op |-> "delete", path |-> path]
\* One hunk: lines of context, then lines removed, then lines added.
UpdateOp(path, dest, context, old, new) ==
  [op |-> "update", path |-> path, dest |-> dest,
   context |-> context, old |-> old, new |-> new]

Patch(ops)  == [kind |-> "patch", ops |-> ops]
Note(code)  == [kind |-> "note", code |-> code]

addFilePatch(path, text) == Patch(<<AddOp(path, text)>>)

replaceWholeFilePatch(path, text) == Patch(<<DeleteOp(path), AddOp(path, text)>>)

insertAfterPatch(path, anchor, text) ==
  Patch(<<UpdateOp(path, path, EditorLines(anchor), <<>>, EditorLines(text))>>)

moveFilePatch(path, dest, old, new) ==
  Patch(<<UpdateOp(path, dest, <<>>, EditorLines(old), EditorLines(new))>>)

\* The content read now travels with the patch.
moveWholeFilePatch(path, dest, disk) ==
  IF disk[path] = Absent THEN Note("invalid")
  ELSE Patch(<<DeleteOp(path), AddOp(dest, disk[path])>>)

\* A piece of a line is widened to the lines it stands in, when it stands in
\* the file once and those lines do not hold the replacement already.
ExpandReplacement(content, old, new) ==
  LET start   == Min(Occurrences(content, old))
      end     == start + Len(old)                    \* the first character after
      first   == Max({0} \cup {i \in 1 .. start - 1 : content[i] = NL}) + 1
      last    == Min({Len(content) + 1} \cup {i \in end .. Len(content) : content[i] = NL}) - 1
      segment == SubSeq(content, first, last)
  IN  IF content = Absent \/ ~OccursOnce(content, old) \/ HasPiece(segment, new)
      THEN [old |-> old, new |-> new]
      ELSE [old |-> segment,
            new |-> SubSeq(content, first, start - 1) \o new \o SubSeq(content, end, last)]

replacePatch(path, disk, old, new) ==
  LET wide == ExpandReplacement(disk[path], old, new)
  IN  Patch(<<UpdateOp(path, path, <<>>, EditorLines(wide.old), EditorLines(wide.new))>>)

\* Insertion after line n: the shortest run of at most five lines that ends
\* there and stands in the file once is the anchor.
insertLinePatch(path, disk, n, text) ==
  LET content == disk[path]
      lines   == EditorLines(content)
      unique(part) == Cardinality(BlocksOf(content, JoinLines(part))) = 1
      heads   == {e \in 1 .. Len(lines) : e <= 5 /\ unique(SubSeq(lines, 1, e))}
      starts  == {s \in 1 .. n : n - s < 5 /\ unique(SubSeq(lines, s, n))}
      head    == JoinLines(SubSeq(lines, 1, Min(heads)))
      anchor  == SubSeq(lines, Max(starts), n)
  IN  IF content = Absent \/ n > Len(lines) THEN Note("invalid")
      ELSE IF n = 0 /\ heads # {} THEN replacePatch(path, disk, head, text \o <<NL>> \o head)
      ELSE IF n = 0 THEN replaceWholeFilePatch(path, text \o <<NL>> \o JoinLines(lines))
      ELSE insertAfterPatch(path, JoinLines(IF starts # {} THEN anchor
                                            ELSE SubSeq(lines, 1, n)), text)

-----------------------------------------------------------------------------
(* Calls: `text` is file_text, insert_text or new_str, `old` is old_str.   *)

Call(tool, path, dest, old, text, line) ==
  [tool |-> tool, path |-> path, dest |-> dest, old |-> old, text |-> text, line |-> line]

\* The edit a call asks for is there already, as far as the tool can tell.
AlreadyApplied(call, disk) ==
  LET content == disk[call.path]
      lines   == EditorLines(content)
      block   == EditorLines(call.text)
      anchor  == EditorLines(call.old)
  IN  /\ content # Absent
      /\ \/ call.tool = "write_file" /\ content = call.text
         \/ /\ call.tool = "replace_text"
            /\ ~Blank(call.text)
            /\ BlocksOf(content, call.old) = {}
            /\ Cardinality(BlocksOf(content, call.text)) = 1
         \/ /\ call.tool = "insert_text_at_line"
            /\ ~Blank(call.text)
            /\ call.line <= Len(lines)
            /\ StandsAt(lines, call.line + 1, block)
         \/ /\ call.tool = "insert_text_after_match"
            /\ ~Blank(call.text) /\ ~Blank(call.old)
            /\ Cardinality(BlocksOf(content, call.old)) = 1
            /\ \E k \in BlocksOf(content, call.old) : StandsAt(lines, k + Len(anchor), block)

\* A required field that is empty.
MissingField(call) ==
  \/ call.tool \in {"write_file", "insert_text_at_line", "insert_text_after_match"}
       /\ call.text = <<>>
  \/ call.tool \in {"replace_text", "insert_text_after_match"} /\ call.old = <<>>
  \/ call.tool = "move_file" /\ call.dest = NoPath

\* The patch a call becomes, or the note it is answered with, by what is on
\* disk at that moment.
PatchFor(call, disk) ==
  IF MissingField(call) THEN Note("invalid")
  ELSE IF AlreadyApplied(call, disk) THEN Note("already_applied")
  ELSE CASE call.tool = "write_file" ->
              (CASE disk[call.path] = Absent -> addFilePatch(call.path, call.text)
                 [] disk[call.path] = <<>>   -> replaceWholeFilePatch(call.path, call.text)
                 [] OTHER -> replacePatch(call.path, disk, disk[call.path], call.text))
         [] call.tool = "replace_text" ->
              replacePatch(call.path, disk, call.old, call.text)
         [] call.tool = "insert_text_at_line" ->
              insertLinePatch(call.path, disk, call.line, call.text)
         [] call.tool = "insert_text_after_match" ->
              insertAfterPatch(call.path, call.old, call.text)
         [] call.tool = "move_file" ->
              (CASE call.dest = call.path -> Note("same_path")
                 [] call.old # <<>> -> moveFilePatch(call.path, call.dest, call.old, call.text)
                 [] OTHER -> moveWholeFilePatch(call.path, call.dest, disk))
         [] call.tool = "delete_file" -> Patch(<<DeleteOp(call.path)>>)
         [] OTHER -> Note("invalid")

-----------------------------------------------------------------------------
(* The way back: the call a patch of the history is shown as.              *)

NoCall == [tool |-> "none"]

\* An update that adds and removes nothing.
PatchIsNoopUpdate(ops) ==
  \A i \in DOMAIN ops :
    ops[i].op = "update" /\ ops[i].dest = ops[i].path /\ ops[i].old = <<>> /\ ops[i].new = <<>>

CallFromUpdate(u) ==
  LET replaces == u.context = <<>> /\ u.old # <<>> /\ u.new # <<>>
      inserts  == u.context # <<>> /\ u.old = <<>> /\ u.new # <<>>
      bare     == u.context = <<>> /\ u.old = <<>> /\ u.new = <<>>
      moves    == u.dest # u.path
  IN  CASE moves /\ bare     -> Call("move_file", u.path, u.dest, <<>>, <<>>, 0)
        [] moves /\ replaces -> Call("move_file", u.path, u.dest, JoinLines(u.old), JoinLines(u.new), 0)
        [] ~moves /\ replaces -> Call("replace_text", u.path, NoPath, JoinLines(u.old), JoinLines(u.new), 0)
        [] ~moves /\ inserts -> Call("insert_text_after_match", u.path, NoPath, JoinLines(u.context), JoinLines(u.new), 0)
        [] OTHER -> NoCall

CallFromPatch(ops) ==
  LET first   == Head(ops)
      content == JoinLines(Last(ops).lines)
  IN  CASE Len(ops) = 1 /\ first.op = "add" ->
             Call("write_file", first.path, NoPath, <<>>, content, 0)
        [] Len(ops) = 1 /\ first.op = "delete" ->
             Call("delete_file", first.path, NoPath, <<>>, <<>>, 0)
        [] Len(ops) = 2 /\ first.op = "delete" /\ ops[2].op = "add" /\ ops[2].path = first.path ->
             Call("write_file", first.path, NoPath, <<>>, content, 0)
        [] Len(ops) = 1 /\ first.op = "update" /\ ~PatchIsNoopUpdate(ops) -> CallFromUpdate(first)
        [] OTHER -> NoCall

PatchTouchedFiles(ops) ==
  {ops[i].path : i \in DOMAIN ops}
    \cup {ops[i].dest : i \in {j \in DOMAIN ops : ops[j].op = "update"}}

-----------------------------------------------------------------------------
(* External: what Codex's apply_patch does with a patch.  Every operation  *)
(* must be possible or nothing is written; an update replaces the first    *)
(* place where its context and removed lines stand.                        *)

Refused == [ok |-> FALSE]

FileLines(content) == IF content = <<>> THEN <<>> ELSE EditorLines(content)

ApplyOp(disk, op) ==
  LET lines == FileLines(disk[op.path])
      block == op.context \o op.old
      at    == {k \in DOMAIN lines : StandsAt(lines, k, block)}
      text  == TextOf(SubSeq(lines, 1, Min(at) - 1) \o op.context \o op.new
                        \o SubSeq(lines, Min(at) + Len(block), Len(lines)))
  IN  CASE op.op = "add" -> [ok |-> TRUE, disk |-> [disk EXCEPT ![op.path] = TextOf(op.lines)]]
        [] disk[op.path] = Absent -> Refused
        [] op.op = "delete" -> [ok |-> TRUE, disk |-> [disk EXCEPT ![op.path] = Absent]]
        [] at = {} -> Refused
        [] OTHER -> [ok |-> TRUE,
                     disk |-> [[disk EXCEPT ![op.path] = Absent] EXCEPT ![op.dest] = text]]

Apply(disk, ops) ==
  LET after[n \in 0 .. Len(ops)] ==
        IF n = 0 THEN [ok |-> TRUE, disk |-> disk]
        ELSE IF after[n - 1].ok THEN ApplyOp(after[n - 1].disk, ops[n]) ELSE after[n - 1]
  IN  after[Len(ops)]

-----------------------------------------------------------------------------
(* What the tools say they do, in terms of the file before and after.      *)

SameLines(one, other) ==
  IF one = Absent \/ other = Absent THEN one = other
  ELSE EditorLines(one) = EditorLines(other)

KeptElsewhere(before, after, paths) ==
  \A p \in DOMAIN before \ paths : after[p] = before[p]

\* An anchor that ends in an empty line loses it when it is split into lines
\* again, in insertLinePatch and in insertAfterPatch.
AfterEmptyLine(call, disk) ==
  /\ call.tool = "insert_text_at_line" /\ call.line # 0
  /\ EditorLines(disk[call.path])[call.line] = <<>>

Fulfils(call, before, after) ==
  LET content == before[call.path]
      lines   == FileLines(content)
      block   == EditorLines(call.text)
      spliced(k) == TextOf(SubSeq(lines, 1, k) \o block \o SubSeq(lines, k + 1, Len(lines)))
  IN  CASE call.tool = "write_file" ->
             /\ SameLines(after[call.path], call.text)
             /\ KeptElsewhere(before, after, {call.path})
        [] call.tool = "replace_text" ->
             /\ \E i \in Occurrences(content, call.old) :
                  SameLines(after[call.path],
                            SubSeq(content, 1, i - 1) \o call.text
                              \o SubSeq(content, i + Len(call.old), Len(content)))
             /\ KeptElsewhere(before, after, {call.path})
        [] call.tool = "insert_text_at_line" ->
             /\ SameLines(after[call.path], spliced(call.line))
             /\ KeptElsewhere(before, after, {call.path})
        [] call.tool = "insert_text_after_match" ->
             /\ \E k \in BlocksOf(content, call.old) :
                  SameLines(after[call.path], spliced(k + Len(EditorLines(call.old)) - 1))
             /\ KeptElsewhere(before, after, {call.path})
        [] call.tool = "move_file" ->
             /\ after[call.path] = Absent
             /\ SameLines(after[call.dest], content)
             /\ KeptElsewhere(before, after, {call.path, call.dest})
        [] call.tool = "delete_file" ->
             /\ after[call.path] = Absent
             /\ KeptElsewhere(before, after, {call.path})
=============================================================================
