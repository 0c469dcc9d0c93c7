----------------------------- MODULE ConfigLayers -----------------------------
(***************************************************************************)
(* The layers of an AgentBuilder's configuration, merged when the agent is *)
(* built, and the credential the model port gets: an API key or an         *)
(* Authorization header, each of which any layer may set.                  *)
(***************************************************************************)
EXTENDS Integers, Sequences, SequencesExt, FiniteSets

CONSTANTS
  Keys,        \* API keys
  Header(_),   \* Header(name): the name in lower case
  Headers,     \* the headers an input may set: sets of <<name, value>>
  None,
  MaxInputs    \* configFile, environment and configure calls

Layers == <<"builtin", "preset", "config-file", "environment", "explicit-code">>

Given == {"config-file", "environment", "explicit-code"}

EmptyKey == "empty"   \* apiKey: ''

(* A partial configuration: a key or none, and headers.                    *)
Inputs == [apiKey : Keys \cup {EmptyKey, None}, headers : Headers]

VARIABLES
  inputs,   \* inputs[layer]: what the calls added, in order
  built     \* the outcome of build, None when there are newer inputs

vars == <<inputs, built>>

-----------------------------------------------------------------------------
(* validatePartialConfiguration: no header twice in one input.             *)
Valid(input) == \A a, b \in input.headers : Header(a[1]) = Header(b[1]) => a = b

(* mergeHeaders: a header replaces the one of its name, however spelled.   *)
Replaces(a, b) == Header(a[1]) = Header(b[1])

MergeHeaders(current, new) ==
  {old \in current : \A h \in new : ~Replaces(h, old)} \cup new

(* provenance: who set a path last; it is kept when the header is dropped. *)
Provenance(known, paths, layer) ==
  [path \in DOMAIN known \cup paths |-> IF path \in paths THEN layer ELSE known[path]]

MergeLayer(config, input, layer) ==
  [apiKey |-> IF input.apiKey = None THEN config.apiKey ELSE input.apiKey,
   headers |-> MergeHeaders(config.headers, input.headers),
   provenance |-> Provenance(config.provenance,
                             {h[1] : h \in input.headers} \cup (IF input.apiKey = None THEN {} ELSE {"apiKey"}),
                             layer)]

(* #resolveConfig: layer by layer; the builtin and preset layers set       *)
(* neither a key nor a header.                                             *)
ResolveConfig(of) ==
  FoldLeft(LAMBDA config, layer : FoldLeft(LAMBDA c, input : MergeLayer(c, input, layer), config, of[layer]),
           [apiKey |-> None, headers |-> {}, provenance |-> <<>>],
           <<"config-file", "environment", "explicit-code">>)

LayerPriority(layer) == CHOOSE i \in DOMAIN Layers : Layers[i] = layer

IsAuthorization(h) == Header(h[1]) = "authorization"

Fails(outcome) == [outcome |-> outcome]

Model(apiKey, headers) == [outcome |-> "built", apiKey |-> apiKey, headers |-> headers]

(* What a layer counts for against another: a higher one wins.             *)
Outranks(config, path, other) ==
  LayerPriority(config.provenance[path]) > LayerPriority(config.provenance[other])

(* Mutant: a key and an Authorization header are both kept.                *)
ResolveKeepingHeader(config) ==
  Model(IF config.apiKey = EmptyKey THEN None ELSE config.apiKey, config.headers)

(* resolveModelConfig: an empty key is none; of a key and a header, the    *)
(* one of the higher layer is kept.                                        *)
ResolveModelConfig(config) ==
  LET authorization == {h \in config.headers : IsAuthorization(h)}
      name == (CHOOSE h \in authorization : TRUE)[1]
  IN  CASE config.apiKey \in {None, EmptyKey} -> Model(None, config.headers)
        [] config.apiKey \in Keys /\ authorization = {} -> Model(config.apiKey, config.headers)
        [] config.apiKey \in Keys /\ authorization # {} ->
             CASE Outranks(config, "apiKey", name) -> Model(config.apiKey, config.headers \ authorization)
               [] Outranks(config, name, "apiKey") -> Model(None, config.headers)
               [] OTHER -> Fails("conflict")

-----------------------------------------------------------------------------
Init ==
  /\ inputs = [layer \in Given |-> <<>>]
  /\ built = None

(* configFile, environment and configure only collect.                     *)
Add(layer, input) ==
  /\ Len(inputs["config-file"]) + Len(inputs["environment"]) + Len(inputs["explicit-code"]) < MaxInputs
  /\ inputs' = [inputs EXCEPT ![layer] = Append(@, input)]
  /\ built' = None

(* An environment sets a key only: OAC_MODEL_API_KEY.                      *)
AddInput ==
  \E layer \in Given, input \in Inputs :
    /\ layer = "environment" => input.headers = {}
    /\ Add(layer, input)

(* build, which may be called again after more inputs.                     *)
Build ==
  /\ built = None
  /\ built' = IF \E layer \in Given : \E i \in DOMAIN inputs[layer] : ~Valid(inputs[layer][i])
              THEN Fails("invalid")
              ELSE ResolveModelConfig(ResolveConfig(inputs))
  /\ UNCHANGED inputs

Next == AddInput \/ Build

Spec == Init /\ [][Next]_vars

-----------------------------------------------------------------------------
IsBuilt == built # None /\ built.outcome = "built"

(* Every input, in the order of its layer, lowest first.                   *)
Ranked ==
  FlattenSeq([i \in DOMAIN Layers |->
    IF Layers[i] \in Given THEN [j \in DOMAIN inputs[Layers[i]] |-> [input |-> inputs[Layers[i]][j], rank |-> i]]
    ELSE <<>>])

SetsKey(i) == Ranked[i].input.apiKey # None

SetsHeader(i) == \E h \in Ranked[i].input.headers : IsAuthorization(h)

Latest(P(_)) ==
  LET found == {i \in DOMAIN Ranked : P(i)}
  IN  IF found = {} THEN 0 ELSE CHOOSE i \in found : \A j \in found : j <= i

(* The model is built with one credential at most, that of the highest     *)
(* layer that sets one: an input of a lower layer never comes back through *)
(* the other way to set it, and two in one layer are refused.  An empty    *)
(* key takes back the key, not the header.  Whatever the spellings of a    *)
(* header, it is sent once, with the value the last input gave it          *)
(* (agent.ts, resolveModelConfig and mergeHeaders).                        *)
HighestLayerWins ==
  IsBuilt =>
    LET key == Latest(SetsKey)
        header == Latest(SetsHeader)
        hasKey == key # 0 /\ Ranked[key].input.apiKey # EmptyKey
        used == {h \in built.headers : IsAuthorization(h)}
    IN  /\ Cardinality(used) + (IF built.apiKey = None THEN 0 ELSE 1) <= 1
        /\ hasKey /\ header # 0 => Ranked[key].rank # Ranked[header].rank
        /\ built.apiKey # None <=> hasKey /\ (header # 0 => Ranked[key].rank > Ranked[header].rank)
        /\ used = {} /\ header # 0 => hasKey
        /\ Valid(built)
        /\ \A h \in built.headers : \E i \in DOMAIN Ranked :
             /\ h \in Ranked[i].input.headers
             /\ \A j \in DOMAIN Ranked : j > i => \A o \in Ranked[j].input.headers : ~Replaces(o, h)
=============================================================================
