---------------------------- MODULE WorkspaceEdit ----------------------------
(***************************************************************************)
(* One file of a RepositoryWorkspace, read and edited by the coding tools  *)
(* while other programs write it too.  A content is the sequence of its    *)
(* lines and never empty, as split('\n') returns it.  An edit is an exact  *)
(* replacement of whole lines, or a unified patch.                         *)
(***************************************************************************)
EXTENDS Integers, Sequences, SequencesExt, FiniteSetsExt

CONSTANTS
  Callers,    \* calls of the tools that may overlap
  Contents,   \* what the other programs write
  Edits,      \* [old, new] for a replacement, [hunks] for a patch
  Blank,      \* the empty line
  None,
  MaxCalls,   \* calls of the tools
  MaxOthers   \* writes of the other programs

VARIABLES
  file,       \* what is on the disk
  snapshot,   \* #snapshots.get(path)
  call,       \* call[c]: the call going on, None between calls
  seen,       \* history: every content the workspace has returned
  calls, others

vars == <<file, snapshot, call, seen, calls, others>>

Empty == <<Blank>>   \* ''.split('\n')

-----------------------------------------------------------------------------
(* content.indexOf(old, from), 0 when there is no occurrence.              *)
Occurrences(content, old) ==
  {i \in 1..(Len(content) - Len(old) + 1) : SubSeq(content, i, i + Len(old) - 1) = old}

IndexOf(content, old, from) ==
  LET later == {i \in Occurrences(content, old) : i >= from}
  IN  IF later = {} THEN 0 ELSE Min(later)

(* Where the replacement looks for a second occurrence.                    *)
SecondFrom(edit, first) == first + Len(edit.old)

(* ExactReplaceTool: the edited content, None for a wrong match count.     *)
Replace(content, edit) ==
  LET first == IndexOf(content, edit.old, 1)
  IN  IF first = 0 \/ IndexOf(content, edit.old, SecondFrom(edit, first)) # 0 THEN None
      ELSE SubSeq(content, 1, first - 1) \o edit.new
             \o SubSeq(content, first + Len(edit.old), Len(content))

(* Mutant: a line to remove is not compared with the file's.               *)
MatchesContext(content, t, line) == line.mark = "-" \/ (t.at < Len(content) /\ content[t.at + 1] = line.text)

(* The lines of a hunk against the content.  t.at lines of it are used.    *)
Matches(content, t, line) ==
  /\ t.at < Len(content)
  /\ content[t.at + 1] = line.text

TakeLine(content, t, line) ==
  CASE ~t.ok -> t
    [] t.ok /\ line.mark = "+" -> [t EXCEPT !.out = Append(@, line.text)]
    [] t.ok /\ line.mark \in {" ", "-"} ->
         [t EXCEPT !.ok = Matches(content, t, line), !.at = @ + 1,
                   !.out = IF line.mark = " " THEN Append(@, line.text) ELSE @]

TakeHunk(content, t, hunk) ==
  IF ~t.ok \/ hunk.start - 1 < t.at \/ hunk.start - 1 > Len(content) THEN [t EXCEPT !.ok = FALSE]
  ELSE FoldLeft(LAMBDA u, line : TakeLine(content, u, line),
                [t EXCEPT !.at = hunk.start - 1, !.out = @ \o SubSeq(content, t.at + 1, hunk.start - 1)],
                hunk.lines)

(* applyUnifiedPatch: the edited content, None for a conflict.             *)
ApplyUnifiedPatch(content, hunks) ==
  LET t == FoldLeft(LAMBDA u, hunk : TakeHunk(content, u, hunk),
                    [at |-> 0, out |-> <<>>, ok |-> TRUE], hunks)
      out == t.out \o SubSeq(content, t.at + 1, Len(content))
  IN  CASE ~t.ok -> None
        [] t.ok /\ out = <<>> -> Empty
        [] OTHER -> out

Transform(content, edit) ==
  IF "hunks" \in DOMAIN edit THEN ApplyUnifiedPatch(content, edit.hunks) ELSE Replace(content, edit)

-----------------------------------------------------------------------------
Init ==
  /\ file \in Contents
  /\ snapshot = None
  /\ call = [c \in Callers |-> None]
  /\ seen = {}
  /\ calls = 0 /\ others = 0

Calling(c, record) == call' = [call EXCEPT ![c] = record]

Ends(c) == Calling(c, None)

At(c, pc) == call[c] # None /\ call[c].pc = pc

Starts(c) == call[c] = None /\ calls < MaxCalls /\ calls' = calls + 1

(* RepositoryWorkspace.read: the system reads, the snapshot is set later.  *)
Read(c) ==
  /\ Starts(c)
  /\ Calling(c, [pc |-> "read", base |-> file])
  /\ UNCHANGED <<file, snapshot, seen, others>>

ReadReturns(c) ==
  /\ At(c, "read")
  /\ snapshot' = call[c].base
  /\ seen' = seen \cup {call[c].base}
  /\ Ends(c)
  /\ UNCHANGED <<file, calls, others>>

(* RepositoryWorkspace.edit: what is expected is looked up before the file *)
(* is read; a file never read is a conflict.                               *)
Edit(c, edit) ==
  /\ Starts(c)
  /\ Calling(c, IF snapshot = None THEN None ELSE [pc |-> "edit", edit |-> edit, expected |-> snapshot])
  /\ UNCHANGED <<file, snapshot, seen, others>>

ReadCurrent(c) ==
  /\ At(c, "edit")
  /\ Calling(c, [pc |-> "compare", edit |-> call[c].edit, expected |-> call[c].expected, base |-> file])
  /\ UNCHANGED <<file, snapshot, seen, calls, others>>

(* Mutant: the edit is applied whatever the file holds by now.             *)
UnchangedNow(c) == TRUE

Unchanged(c) == call[c].base = call[c].expected

(* A changed file is a conflict; an edit that does not apply leaves it.    *)
Rewrite(c) ==
  /\ At(c, "compare")
  /\ LET next == IF Unchanged(c) THEN Transform(call[c].base, call[c].edit) ELSE None
     IN  Calling(c, IF next = None THEN None
                    ELSE [pc |-> "open", edit |-> call[c].edit, base |-> call[c].base, next |-> next])
  /\ UNCHANGED <<file, snapshot, seen, calls, others>>

(* writeFile truncates the file when it opens it.                          *)
OpenToWrite(c) ==
  /\ At(c, "open")
  /\ file' = Empty
  /\ call' = [call EXCEPT ![c].pc = "write"]
  /\ UNCHANGED <<snapshot, seen, calls, others>>

Write(c) ==
  /\ At(c, "write")
  /\ file' = call[c].next
  /\ call' = [call EXCEPT ![c].pc = "written"]
  /\ UNCHANGED <<snapshot, seen, calls, others>>

(* The file cannot be opened, or the system fails halfway: the call fails, *)
(* and the snapshot stays what it was.                                     *)
Halfway(content) == {Empty} \cup {SubSeq(content, 1, n) : n \in 1..Len(content)}

WriteFails(c) ==
  /\ \/ At(c, "open") /\ UNCHANGED file
     \/ At(c, "write") /\ file' \in Halfway(call[c].next)
  /\ Ends(c)
  /\ UNCHANGED <<snapshot, seen, calls, others>>

(* The call succeeds, or reports that it was aborted, and has edited.      *)
EditReturns(c) ==
  /\ At(c, "written")
  /\ snapshot' = call[c].next
  /\ seen' = seen \cup {call[c].next}
  /\ Ends(c)
  /\ UNCHANGED <<file, calls, others>>

OthersWrite(content) ==
  /\ others < MaxOthers
  /\ others' = others + 1
  /\ file' = content
  /\ UNCHANGED <<snapshot, call, seen, calls>>

Next ==
  \/ \E c \in Callers :
       \/ Read(c) \/ ReadReturns(c) \/ ReadCurrent(c) \/ Rewrite(c)
       \/ OpenToWrite(c) \/ Write(c) \/ WriteFails(c) \/ EditReturns(c)
       \/ \E edit \in Edits : Edit(c, edit)
  \/ \E content \in Contents : OthersWrite(content)

Spec == Init /\ [][Next]_vars

-----------------------------------------------------------------------------
Writing(c) == call[c] # None /\ call[c].pc \in {"open", "write", "written"}

(* What an edit rewrites is a content the workspace has returned to a      *)
(* caller: of what the other programs wrote, only what came after the edit *)
(* read the file can be lost (workspace.ts, edit).                         *)
RewritesWhatWasRead == \A c \in Callers : Writing(c) => call[c].base \in seen

(* The patch that takes a patch back.                                      *)
Growth(hunk) ==
  Len(SelectSeq(hunk.lines, LAMBDA l : l.mark = "+")) - Len(SelectSeq(hunk.lines, LAMBDA l : l.mark = "-"))

Opposite(line) ==
  [line EXCEPT !.mark = CASE @ = "+" -> "-" [] @ = "-" -> "+" [] OTHER -> @]

Undo(hunks) ==
  [i \in DOMAIN hunks |->
     [start |-> hunks[i].start + FoldLeft(LAMBDA n, h : n + Growth(h), 0, SubSeq(hunks, 1, i - 1)),
      lines |-> [j \in DOMAIN hunks[i].lines |-> Opposite(hunks[i].lines[j])]]]

(* A patch that applied is undone by its inverse: every line it removed or *)
(* kept as context was there, and nothing else was touched.  (A patch that *)
(* removes every line leaves an empty line behind.)                        *)
PatchesUndo ==
  \A c \in Callers :
    Writing(c) /\ "hunks" \in DOMAIN call[c].edit /\ call[c].next # Empty
      => ApplyUnifiedPatch(call[c].next, Undo(call[c].edit.hunks)) = call[c].base
=============================================================================
