------------------------------ MODULE Settings ------------------------------
(***************************************************************************)
(* The agent a session is launched with and that agent's flags, layered    *)
(* from the global settings file, chainsaw.toml, chainsaw.local.toml and   *)
(* the --set flags (src/infra/settings.rs).                                *)
(*                                                                         *)
(* Flags are known by the agent they were written for.  The third key,     *)
(* prompt-timeout-seconds, is laid over like any other and left out.       *)
(***************************************************************************)
EXTENDS Naturals, Sequences, SequencesExt

CONSTANTS
  AgentKinds, \* the agents a layer may name
  Claude,     \* the one a role has when no layer names another
  None        \* a key a layer leaves out

ASSUME SettingsAssumption == Claude \in AgentKinds /\ None \notin AgentKinds

-----------------------------------------------------------------------------
Kinds == {"implementer", "commentator"}

\* One role's table in one layer.
Role == [agent : AgentKinds \cup {None}, args : AgentKinds \cup {None}]

Table == [Kinds -> Role]

EmptyTable == [kind \in Kinds |-> [agent |-> None, args |-> None]]

\* merge: key by key, descending into the roles.
Merge(target, source) ==
  [kind \in Kinds |->
     [key \in {"agent", "args"} |->
        IF source[kind][key] # None THEN source[kind][key] ELSE target[kind][key]]]

\* Slip: the args of the layer below are kept for the agent of the layer above.
LayOverKeepingArgs(table, layer) == Merge(table, layer)

\* lay_over: a role that names its agent and no args loses the args of the
\* layers below.
LayOver(table, layer) ==
  Merge([kind \in Kinds |->
           IF layer[kind].agent # None /\ layer[kind].args = None
           THEN [table[kind] EXCEPT !.args = None] ELSE table[kind]],
        layer)

\* One --set: the key as it was spelled, and the table it stands for.
Set == [key : {"implementer", "implementer.agent", "implementer.args",
               "commentator", "commentator.agent", "commentator.args"},
        table : Table]

\* sets_layer: two sets may not spell the same key.
Accepted(sets) == \A i, j \in DOMAIN sets : sets[i].key = sets[j].key => i = j

SetsLayer(sets) ==
  LET upTo[n \in 0..Len(sets)] ==
        IF n = 0 THEN EmptyTable ELSE Merge(upTo[n - 1], sets[n].table)
  IN  upTo[Len(sets)]

\* launch_agent: of the layers as laid over each other.
LaunchAgent(table, kind) ==
  IF table[kind].agent = None THEN Claude ELSE table[kind].agent

\* launch_args: the agent's own defaults when no layer has any.
LaunchArgs(table, kind) ==
  IF table[kind].args = None THEN LaunchAgent(table, kind) ELSE table[kind].args

\* load_from.
Load(global, project, local, sets) ==
  LayOver(LayOver(LayOver(LayOver(EmptyTable, global), project), local), SetsLayer(sets))

-----------------------------------------------------------------------------
\* Whoever writes flags into a layer writes them for the agent that layer, laid
\* over those below it, makes the role run.
WrittenFor(table, layer) ==
  \A kind \in Kinds :
    layer[kind].args \in {None, LaunchAgent(LayOver(table, layer), kind)}

\* No role runs with flags that were written for another agent ("instead of
\* flags written for another agent", settings.rs:229).
FlagsFit(table) == \A kind \in Kinds : LaunchArgs(table, kind) = LaunchAgent(table, kind)
=============================================================================
