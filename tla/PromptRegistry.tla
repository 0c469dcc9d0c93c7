---------------------------- MODULE PromptRegistry ----------------------------
(***************************************************************************)
(* The prompts of an agent: the builtin ones, those of a directory and the *)
(* overrides made at run time, resolved again whenever a source changes.   *)
(***************************************************************************)
EXTENDS Integers, Sequences, SequencesExt

CONSTANTS
  Ids,          \* of prompts
  Texts,        \* non-empty contents
  None,
  MaxRevision   \* changes

Kinds == {"builtin", "directory", "runtime"}

(* A content is the sequence of the texts it joins, <<>> the empty string. *)
Written == {<<>>} \cup {<<text>> : text \in Texts}

Definitions == [content : Written, mode : {"replace", "append"}]

(* What normalizeSource accepts: one definition per id.                    *)
Prompts == UNION {[ids -> Definitions] : ids \in SUBSET Ids}

VARIABLES
  revision,   \* of #state
  sources,    \* sources[kind]: its prompts, None before it is set
  prompts     \* the resolved prompts

vars == <<revision, sources, prompts>>

-----------------------------------------------------------------------------
Defines(of, kind, id) == of[kind] # None /\ id \in DOMAIN of[kind]

(* appendContent: joined by a line break unless one of them is empty.      *)
Extended(content, addition) == content \o addition

(* Mutant: a replacement stays attributed to the sources it replaced.      *)
ContributeKeeping(prompt, kind, definition) ==
  IF definition.mode = "replace"
  THEN [content |-> definition.content, parts |-> Append(prompt.parts, kind)]
  ELSE [content |-> Extended(prompt.content, definition.content), parts |-> Append(prompt.parts, kind)]

(* A source that defines the prompt.                                       *)
Contribute(prompt, kind, definition) ==
  IF definition.mode = "replace"
  THEN [content |-> definition.content, parts |-> <<kind>>]
  ELSE [content |-> Extended(prompt.content, definition.content), parts |-> Append(prompt.parts, kind)]

Turn(prompt, kind, id, of) ==
  IF Defines(of, kind, id) THEN Contribute(prompt, kind, of[kind][id]) ELSE prompt

(* The sources have their turns in the order of PROMPT_SOURCE_KINDS.       *)
ResolvePrompt(id, of) ==
  LET builtin == Turn([content |-> <<>>, parts |-> <<>>], "builtin", id, of)
      directory == Turn(builtin, "directory", id, of)
  IN  Turn(directory, "runtime", id, of)

BuildState(of) ==
  [id \in {i \in Ids : \E kind \in Kinds : Defines(of, kind, i)} |-> ResolvePrompt(id, of)]

-----------------------------------------------------------------------------
Init ==
  /\ revision = 0
  /\ sources = [kind \in Kinds |-> None]
  /\ prompts = BuildState(sources)

ReplaceSource(kind, of) ==
  /\ revision < MaxRevision
  /\ revision' = revision + 1
  /\ sources' = [sources EXCEPT ![kind] = of]
  /\ prompts' = BuildState(sources')

Runtime == IF sources["runtime"] = None THEN << >> ELSE sources["runtime"]

With(of, id, definition) ==
  [i \in DOMAIN of \cup {id} |-> IF i = id THEN definition ELSE of[i]]

Without(of, id) == [i \in DOMAIN of \ {id} |-> of[i]]

(* replace and append: the override takes the place of an earlier one.     *)
SetRuntimePrompt(id, definition) == ReplaceSource("runtime", With(Runtime, id, definition))

Deleted(of, id) == Without(of, id)

(* Answers false, and changes nothing, when the id has no override.        *)
DeleteRuntime(id) ==
  /\ Defines(sources, "runtime", id)
  /\ ReplaceSource("runtime", Deleted(Runtime, id))

Next ==
  \/ \E kind \in {"builtin", "directory"}, of \in Prompts : ReplaceSource(kind, of)
  \/ \E id \in Ids, definition \in Definitions : SetRuntimePrompt(id, definition)
  \/ \E id \in Ids : DeleteRuntime(id)

Spec == Init /\ [][Next]_vars

-----------------------------------------------------------------------------
(* The parts of a prompt are the sources that explain its content: the     *)
(* last one that replaces it, if any, and those after it, in order         *)
(* (registry.ts, resolvePrompt; shown to hosts and in a context snapshot). *)
PartsExplainContent ==
  \A id \in DOMAIN prompts :
    LET parts == prompts[id].parts
        At(i) == sources[parts[i]][id]
    IN  /\ prompts[id].content = FlattenSeq([i \in DOMAIN parts |-> At(i).content])
        /\ \A i \in DOMAIN parts : At(i).mode = "replace" => i = 1
        /\ \A kind \in Kinds : Defines(sources, kind, id) =>
             \/ kind \in ToSet(parts)
             \/ At(1).mode = "replace"
=============================================================================
