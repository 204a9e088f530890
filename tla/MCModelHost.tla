---------------------------- MODULE MCModelHost ----------------------------
(* An instance of what aegis does about the models of a host.  The parts   *)
(* do not touch one another's state: a behaviour is one part's, the others *)
(* stay as they began.                                                     *)
EXTENDS ModelHost, OllamaFallback, BakeOff, HostProfile

CONSTANT Scenes   \* the parts of this run
VARIABLE scene

allVars == <<scene, hostVars, ollamaVars, bakeVars, profileVars>>

(* A part that is not played starts in one state only. *)
Quiet ==
    /\ scene # "host" =>
          LET b == CHOOSE x \in Budgets : TRUE
          IN  /\ \A p \in Provs : prov[p].runs = b[p]
              /\ \A t \in Tuis : tui[t].runs = b[t]
    /\ scene # "ollama" => home
    /\ scene # "bakeoff" => holder = -1
    /\ scene # "profile" => policy = CHOOSE p \in Policies : TRUE

MCInit == /\ scene \in Scenes
          /\ HostInit /\ OllamaInit /\ BakeInit /\ ProfileInit
          /\ Quiet

(* One part moves, the others' variables keep their values. *)
MCNext == /\ UNCHANGED scene
          /\ \/ /\ scene = "host" /\ HostNext
                /\ UNCHANGED <<ollamaVars, bakeVars, profileVars>>
             \/ /\ scene = "ollama" /\ OllamaNext
                /\ UNCHANGED <<hostVars, bakeVars, profileVars>>
             \/ /\ scene = "bakeoff" /\ BakeNext
                /\ UNCHANGED <<hostVars, ollamaVars, profileVars>>
             \/ /\ scene = "profile" /\ ProfileNext
                /\ UNCHANGED <<hostVars, ollamaVars, bakeVars>>

MCSpec == MCInit /\ [][MCNext]_allVars
MCFairSpec == MCSpec /\ HostFairness

-----------------------------------------------------------------------------
(* The wanted model is served with half its window in 24 GiB, the side     *)
(* model with the default; the profiler also meets a large foreign one.    *)
MCCatalog ==
    <<[size |-> 13, num_ctx |-> 64, active |-> 2, origin |-> "US"],
      [size |-> 2, num_ctx |-> 0, active |-> 2, origin |-> "US"],
      [size |-> 13, num_ctx |-> 0, active |-> 9, origin |-> "FR"]>>
MCRAM == 24 * GiB

(* AEGIS_CTX_SIZE: a rung that would not be chosen, something rejected, or *)
(* unset, in each terminal anew.                                           *)
MCPins == [x \in Provs \cup Tuis |-> CASE x = "t1" -> {0, 24} [] x = "t2" -> {0, 24, -1}
                                        [] OTHER -> {0, -1}]

(* Starts: a download and a retry beside a TUI; one download, a TUI twice; *)
(* two TUIs.                                                               *)
MCBudgets ==
    {[x \in {"p", "t1", "t2"} |-> CASE x = "p" -> n[1] [] x = "t1" -> n[2] [] x = "t2" -> n[3]] :
        n \in {<<2, 1, 0>>, <<1, 2, 0>>, <<0, 1, 1>>}}
(* Two downloads, once each. *)
MCOnceEach == {[x \in {"p", "q"} |-> 1]}

(* A base sound by itself only, and one that is not sound at all. *)
MCHangs == {<<"a", 1>>, <<"b", 0>>, <<"b", 1>>}

MCCandidates == <<"g", "d">>
(* A repeat and an index out of range, two models, nothing real. *)
MCSelections == {<<2, 9, 2>>, <<2, 1>>, <<3>>}
Cell(edited, closed, out, wall) ==
    [edited |-> edited, closed |-> closed, out |-> out, wall |-> wall]
MCOutcomes == {Cell(1, 0, 3, 1), Cell(1, 1, 2, 1), Cell(2, 1, 3, 2)}

MCAvailRAMs == {2 * GiB, 12 * GiB, 24 * GiB}
MCBandwidths == {20, 70}
MCRates == {2, 5, 12}
MCPolicies == {Unreadable, [default |-> "allow", countries |-> [FR |-> "deny"]],
               [default |-> "deny", countries |-> [US |-> "allow"]],
               [default |-> "deny", countries |-> [FR |-> "allow"]]}
=============================================================================
