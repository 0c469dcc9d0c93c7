----------------------------- MODULE MCComponents -----------------------------
EXTENDS Components

AllParts == {"steering", "cost", "journal", "history", "trace", "context", "record",
             "edit", "prompts", "layers", "stream", "process"}

Bounds == [
  steering |-> [inputs |-> 3, steps |-> 4, lost |-> 1, fails |-> 1],
  cost |-> [turns |-> 1, steps |-> 2, lost |-> 1, fails |-> 1, crashes |-> 1],
  journal |-> [attempts |-> 2, chunk |-> 3, crashes |-> 1],
  history |-> [steps |-> 3],
  trace |-> [steps |-> 2, calls |-> 1, lost |-> 1, crashes |-> 1, fails |-> 1],
  context |-> [messages |-> 5, rewrites |-> 2],
  record |-> [calls |-> 2, chunks |-> 2, broken |-> 1],
  edit |-> [calls |-> 3, others |-> 1],
  prompts |-> [revision |-> 3],
  layers |-> [inputs |-> 3],
  process |-> [output |-> 3, chunk |-> 2, arrived |-> 4]]

-----------------------------------------------------------------------------
(* ModelJournal: native answers, with middleware that adds to them or an   *)
(* answer of three, and prompted ones.                                     *)
OneCall == {"call"}
Prefix == <<"P", "Q">>
BothModes == {"discard", "strict-prefix"}
SomeSetups == {
  [prompted |-> FALSE, provider |-> {<<"a", "b">>, <<"a", "call">>}, tails |-> {<<"a">>, <<"call">>}],
  [prompted |-> FALSE, provider |-> {<<"a", "b", "call">>}, tails |-> {}],
  [prompted |-> TRUE, provider |-> {<<"a", "P", "Q", "call">>, <<"P", "a">>, <<"P", "Q", "call", "a">>},
   tails |-> {<<"P", "Q", "call">>}]}

(* MessageHistory: any compaction, or a window of one or two entries.      *)
Shape(inputs, discarded, texts, calls) ==
  [inputs |-> inputs, discarded |-> discarded, texts |-> texts, calls |-> calls]
SomeSessions == {
  [window |-> 0, shapes |-> {Shape(0, 1, 1, 0), Shape(0, 0, 0, 1)}],
  [window |-> 1, shapes |-> {Shape(2, 1, 1, 0), Shape(0, 1, 1, 2)}],
  [window |-> 2, shapes |-> {Shape(0, 0, 1, 0), Shape(0, 0, 0, 2)}]}

(* ContextAssembly: histories with an answer and its call, a failed result *)
(* and a summary, prompts of several parts, and a request with an input.   *)
Item(kind, role, of, word, seq, failed) ==
  [kind |-> kind, role |-> role, step |-> of, words |-> <<word>>, seq |-> seq, failed |-> failed]
User(seq) == Item("message", "user", 0, "question", seq, FALSE)
Answer(of, seq) == Item("message", "assistant", of, "answer", seq, FALSE)
Call(of, seq) == Item("tool-call", "none", of, "call", seq, FALSE)
Result(of, seq, failed) == Item("tool-result", "none", of, "result", seq, failed)
Summary == Item("summary", "none", 0, "summary", 1, FALSE)
SomeHistories == {
  <<>>,
  <<User(1), User(2)>>,
  <<User(1), Answer(1, 2), Call(1, 3), Result(1, 4, TRUE)>>,
  <<Summary, Call(2, 2), Result(2, 3, FALSE)>>}
PromptIds == {"identity", "capabilities", "tool-protocol", "project-context", "skills", "user-custom",
              "tool.protocol.prompted", "error.retry-hint"}
SomePrompts == [id \in PromptIds |->
  CASE id = "identity" -> <<<<"You">>, <<>>, <<"are">>>>
    [] id = "error.retry-hint" -> <<<<"retry">>>>
    [] OTHER -> <<<<>>>>]
NoPrompts == [id \in PromptIds |-> <<<<>>>>]
SomeRequests ==
  {[history |-> h, toolUse |-> t, prompts |-> SomePrompts, input |-> <<>>] :
     h \in SomeHistories, t \in {"native", "prompted"}}
  \cup {[history |-> <<User(1)>>, toolUse |-> "none", prompts |-> NoPrompts, input |-> <<"more">>]}

(* WorkspaceEdit: replacements, one of an overlapping text, and patches.   *)
Old(old, new) == [old |-> old, new |-> new]
L(mark, text) == [mark |-> mark, text |-> text]
Hunk(start, of) == [start |-> start, lines |-> of]
SomeContents == {<<"x">>, <<"x", "y", "x">>, <<"x", "x", "x">>}
SomeEdits == {
  Old(<<"x">>, <<"y", "y", "y">>),
  Old(<<"x", "x">>, <<"y">>),
  [hunks |-> <<Hunk(1, <<L("-", "x"), L("+", "y")>>), Hunk(3, <<L(" ", "x"), L("+", "x")>>)>>],
  [hunks |-> <<Hunk(2, <<L("-", "y"), L("+", "x")>>)>>]}

(* ConfigLayers: the header in two spellings, and twice in one input.      *)
Lower(name) == IF name = "Authorization" THEN "authorization" ELSE name
SomeHeaders == SUBSET {<<"Authorization", "v1">>, <<"authorization", "v2">>}

(* ModelStream: an answer with text, one with the pieces of two calls      *)
(* mixed, and answers that break the protocol or the endpoint.             *)
NoField == [field |-> "blank"]   \* the empty line
Data(p) == <<[field |-> "data", payload |-> p], NoField>>
Choice(text, fragments, finish) ==
  [kind |-> "choice", text |-> text, fragments |-> fragments, finish |-> finish, usage |-> FALSE]
ChoiceAndUsage(text, fragments, finish) == [Choice(text, fragments, finish) EXCEPT !.usage = TRUE]
Piece(i, id, arg) == [index |-> i, id |-> id, name |-> IF id = None THEN None ELSE "tool", arg |-> arg]
Named(i, id, name, arg) == [Piece(i, id, arg) EXCEPT !.name = name]
Done == Data([kind |-> "done"])
Usage == Data([kind |-> "usage"])
SomeBodies == {
  <<[field |-> "comment"], NoField>> \o Data(Choice(<<"a">>, <<>>, None))
    \o Data(Choice(<<"b">>, <<>>, "stop")) \o Usage \o Done,
  Data(Choice(<<>>, <<Piece(0, "c1", "o")>>, None)) \o Data(Choice(<<>>, <<Piece(1, "c2", "x")>>, None))
    \o Data(Choice(<<"a">>, <<Piece(0, "c1", "p"), Piece(1, None, "y")>>, None))
    \o Data(ChoiceAndUsage(<<>>, <<>>, "tool-calls")) \o Done,
  Data(Choice(<<>>, <<Named(0, "c1", None, "o"), Named(0, None, "tool", "p")>>, "tool-calls")) \o Done,
  Data(Choice(<<>>, <<Piece(0, "c1", "o"), Named(0, "c1", "other", "p")>>, "tool-calls")) \o Done,
  Data(Choice(<<>>, <<Named(0, "c1", None, "o")>>, "tool-calls")) \o Done,
  Data(Choice(<<>>, <<Piece(0, "c1", "p"), Piece(1, "c1", "y")>>, "tool-calls")) \o Done,
  Data(Choice(<<"a">>, <<>>, "stop")) \o <<[field |-> "data", payload |-> [kind |-> "done"]]>>,
  <<[field |-> "data", payload |-> [kind |-> "usage"]]>> \o Usage \o Done,
  Data(Choice(<<"a">>, <<>>, "length")) \o Data(Choice(<<"b">>, <<>>, None)) \o Done,
  Data(Choice(<<"a">>, <<>>, None)) \o Data([kind |-> "error"])}

(* ProcessRun.                                                             *)
SomeCommands == [dangerous : BOOLEAN, cwd : BOOLEAN]
=============================================================================
