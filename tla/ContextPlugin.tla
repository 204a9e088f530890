--------------------------- MODULE ContextPlugin ---------------------------
(***************************************************************************)
(* The context-efficiency plugin (internal/opencode/pluginseed.go): before *)
(* every call of the model it masks, in the messages it is handed, the     *)
(* tool observations that are superseded or stale.  It writes into those   *)
(* messages; whether the next call is handed them as it left them or as    *)
(* they were recorded is opencode's business.                              *)
(***************************************************************************)
EXTENDS Integers, Sequences, FiniteSets

CONSTANTS CallKeys, \* calls told apart: a tool with its arguments
          Outputs,  \* what they may return
          KeepFirst, KeepRecent, \* KEEP_FIRST, KEEP_RECENT
          MaxTools  \* bound on the calls of a session

Mark == [superseded |-> "superseded", elided |-> "elided",
         foreign |-> "marked"] \* an output that itself begins with "[aegis:"
Empty == "empty"

(* An observation with text of its own: "cur" and no "[aegis:" in front. *)
Legible(obs) == obs \notin {Empty, Mark.superseded, Mark.elided, Mark.foreign}

ASSUME PluginAssumption == KeepFirst \in Nat /\ KeepRecent \in Nat /\ MaxTools \in Nat

VARIABLES recorded, \* the session's tool calls with what they returned
          shown     \* those the last call of the model got, as it got them

pluginVars == <<recorded, shown>>

PluginInit == recorded = <<>> /\ shown = <<>>

-----------------------------------------------------------------------------
(* A slip: what is marked already is left as it is. *)
Superseded_OnlyOnce(tools, i) ==
    /\ \E j \in i + 1..Len(tools) : tools[j].key = tools[i].key
    /\ Legible(tools[i].obs)

(* All but the last of identical calls are masked, marked or not; *)
Superseded(tools, i) == \E j \in i + 1..Len(tools) : tools[j].key = tools[i].key

(* of a long run the middle goes, but for what is empty or marked. *)
Elided(tools, i) == /\ Len(tools) > KeepFirst + KeepRecent
                    /\ i > KeepFirst /\ i <= Len(tools) - KeepRecent
                    /\ Legible(tools[i].obs)

(* What the hook makes of the observations it is handed. *)
Pruned(tools) ==
    [i \in DOMAIN tools |->
        [key |-> tools[i].key,
         obs |-> IF Superseded(tools, i) THEN Mark.superseded
                 ELSE IF Elided(tools, i) THEN Mark.elided
                 ELSE tools[i].obs]]

Seen == SubSeq(recorded, 1, Len(shown))
Unseen == SubSeq(recorded, Len(shown) + 1, Len(recorded))

(* The agent calls a tool, and perhaps another before the model is asked. *)
CallTool(key, obs) == /\ Len(recorded) < MaxTools
                      /\ recorded' = Append(recorded, [key |-> key, obs |-> obs])
                      /\ UNCHANGED shown

(* The model is called: the hook gets the older observations as it left    *)
(* them, or as they were recorded, and those that are new.                 *)
Transform == /\ \E older \in {shown, Seen} : shown' = Pruned(older \o Unseen)
             /\ UNCHANGED recorded

PluginNext == \/ \E key \in CallKeys, obs \in Outputs : CallTool(key, obs)
              \/ Transform

PluginSpec == PluginInit /\ [][PluginNext]_pluginVars

-----------------------------------------------------------------------------
(* "deterministic pruning" (pluginseed.go:66): what the model is shown     *)
(* depends on the calls of the session alone, not on how often the hook    *)
(* has run over them before, on which of them it found new or on whether   *)
(* its marks were kept; and however long the session, it never leaves      *)
(* more to read than it is to keep.                                        *)
PruningIsDeterministic ==
    /\ shown = Pruned(Seen)
    /\ Cardinality({i \in DOMAIN shown : Legible(shown[i].obs)}) <= KeepFirst + KeepRecent
=============================================================================
