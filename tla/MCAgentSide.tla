---------------------------- MODULE MCAgentSide ----------------------------
(* An instance of what surrounds an agent: the gates before it is driven,  *)
(* the server it is driven through, the client its claims go through, and  *)
(* what is made of its steps and kept of its findings.  The parts do not   *)
(* touch one another's state: a behaviour is one part's.                   *)
EXTENDS McpClient, OpencodeRun, AgentTrace, ContextPlugin, AgentMemory, Gates

VARIABLE scene

allVars == <<scene, mcpVars, ocVars, traceVars, pluginVars, memVars, gateVars>>

MCInit == /\ scene \in {"mcp", "opencode", "trace", "plugin", "memory", "gates"}
          /\ McpInit /\ OcInit /\ TraceInit /\ PluginInit /\ MemInit /\ GatesInit
          /\ scene # "gates" => onDisk = Default

(* One part moves, the others' variables keep their values. *)
MCNext == /\ UNCHANGED scene
          /\ \/ scene = "mcp" /\ McpNext
             \/ scene # "mcp" /\ UNCHANGED mcpVars
          /\ \/ scene = "opencode" /\ OcNext
             \/ scene # "opencode" /\ UNCHANGED ocVars
          /\ \/ scene = "trace" /\ TraceNext
             \/ scene # "trace" /\ UNCHANGED traceVars
          /\ \/ scene = "plugin" /\ PluginNext
             \/ scene # "plugin" /\ UNCHANGED pluginVars
          /\ \/ scene = "memory" /\ MemNext
             \/ scene # "memory" /\ UNCHANGED memVars
          /\ \/ scene = "gates" /\ GatesNext
             \/ scene # "gates" /\ UNCHANGED gateVars

MCFairSpec == MCInit /\ [][MCNext]_allVars /\ McpFairness /\ OcFairness

-----------------------------------------------------------------------------
Step(act, obs, err, kind) == [act |-> act, obs |-> obs, err |-> err, kind |-> kind]

(* Two tool calls, one with two outcomes, a message, and a condensation. *)
MCSteps == {Step("say", "x", FALSE, "none"), Step("say", "x", FALSE, "condense"),
            Step("a", "x", FALSE, "none"), Step("a", "y", TRUE, "none"),
            Step("b", "x", FALSE, "none")}

(* The detector's own thresholds, its condensing limit halved. *)
MCThresholds == [action |-> 4, error |-> 3, say |-> 3, cycles |-> 3, condense |-> 5]

MCCaps == [fact |-> 2, snippet |-> 1]

Config(endpoint, egress, harness, sane, model) ==
    [endpoint |-> endpoint, egress |-> egress, harness |-> harness, sane |-> sane,
     model |-> model]

(* A sound file, and each of the ways in which one is refused. *)
MCConfigs == {Config("loopback", FALSE, "builtin", TRUE, "m"),
              Config("remote", FALSE, "builtin", TRUE, "m"),
              Config("remote", TRUE, "goose", TRUE, NoModel),
              Config("loopback", TRUE, "builtin", TRUE, "m"),
              Config("bad", FALSE, "opencode", TRUE, "m"),
              Config("loopback", FALSE, "unknown", TRUE, "m"),
              Config("loopback", FALSE, "builtin", FALSE, "m")}
=============================================================================
