------------------------------- MODULE Gates -------------------------------
(***************************************************************************)
(* What a command passes before an agent is driven: the configuration is   *)
(* read and validated, egress is refused, the harness chosen, the model    *)
(* endpoint tried and its model compared (cmd/aegis/main.go, config.Load   *)
(* and Validate, serving.NewClient, CheckModel).  aegis loop, aegis run    *)
(* and aegis verify-env read one file, at moments of their own, while      *)
(* aegis init writes it, the operator edits it and models come and go at   *)
(* the endpoint.  Without --config a command reads no file at all.         *)
(***************************************************************************)
EXTENDS Integers, FiniteSets

CONSTANTS Shells,   \* processes that run commands
          Configs,  \* what the file may hold: [endpoint, egress, harness, sane, model]
          ModelIds, \* models that may be served
          Edits     \* bound on the edits of the file

NoModel == "no model"      \* of a config: any model will do; served: none
Default == [endpoint |-> "loopback", egress |-> FALSE, harness |-> "opencode",
            sane |-> TRUE, model |-> NoModel]

ASSUME GatesAssumption ==
    /\ Configs \subseteq [endpoint : {"loopback", "remote", "bad"}, egress : BOOLEAN,
                          harness : {"builtin", "opencode", "goose", "unknown"},
                          sane : BOOLEAN, model : ModelIds \cup {NoModel}]
    /\ NoModel \notin ModelIds /\ Edits \in Nat

VARIABLES onDisk,  \* the config file
          atEnd,   \* the model served at the loopback endpoint, or NoModel
          sh,      \* per shell: [pc, cmd, cfg, told], told what verify-env had said
          said,    \* the verdict of the last verify-env, until the file changes
          edits

gateVars == <<onDisk, atEnd, sh, said, edits>>

Junk == [Default EXCEPT !.endpoint = "junk"]      \* torn, or not to be parsed
Missing == [Default EXCEPT !.endpoint = "missing"]
Files == {Default, Junk, Missing} \cup Configs
NoCommand == [pc |-> "idle", cmd |-> "none", cfg |-> Default, told |-> "none"]

GatesInit == /\ onDisk \in Files
             /\ atEnd = NoModel
             /\ sh = [s \in Shells |-> NoCommand]
             /\ said = "none" /\ edits = 0

-----------------------------------------------------------------------------
(* config.Validate.  With egress allowed the endpoint may be anywhere. *)
Validate(c) ==
    /\ c.endpoint \in {"loopback", "remote"}
    /\ c.egress \/ c.endpoint = "loopback"
    /\ c.harness # "unknown"
    /\ c.sane

(* loadConfig, config.Load: without --config, or when the file is not      *)
(* there, the defaults; a file that cannot be parsed or is not valid is an *)
(* error, and comes back all the same.                                     *)
Load(given) ==
    LET c == IF given /\ onDisk \notin {Junk, Missing} THEN onDisk ELSE Default
    IN  [cfg |-> c, ok |-> ~(given /\ onDisk = Junk) /\ Validate(c)]

Idle(s) == sh[s].pc \in {"idle", "refused", "unlogged", "unserved"}
Go(s, l, cmd, c, given) ==
    sh' = [sh EXCEPT ![s] = [pc |-> l, cmd |-> cmd, cfg |-> c,
                             told |-> IF given THEN said ELSE "none"]]

(* serving.NewClient: a client for loopback only. *)
NewClient(c) == c.endpoint = "loopback"

(* selectHarness: the built-in harness makes a client of its own. *)
selectHarness(c) == /\ c.harness \in {"builtin", "opencode", "goose"}
                    /\ c.harness = "builtin" => NewClient(c)

(* aegis loop: an invalid config, open egress and an unusable harness end  *)
(* it before anything is touched, and an audit log that cannot be opened   *)
(* before the model is tried.                                              *)
cmdLoop(s, given) ==
    /\ Idle(s)
    /\ LET c == Load(given)
       IN  IF c.ok /\ ~c.cfg.egress /\ selectHarness(c.cfg)
           THEN \E l \in {"preflight", "unlogged"} : Go(s, l, "loop", c.cfg, given)
           ELSE Go(s, "refused", "loop", Default, given)
    /\ UNCHANGED <<onDisk, atEnd, said, edits>>

(* PreflightSmoke: a completion of one token. *)
PreflightSmoke == atEnd # NoModel

(* CheckModel: the model asked for is among those served. *)
CheckModel(c) == c.model \in {NoModel, atEnd}

(* servingPreflight; any of its answers may also be late or lost. *)
servingPreflight(s) ==
    /\ sh[s].pc = "preflight"
    /\ LET c == sh[s].cfg
       IN  \/ /\ NewClient(c) /\ PreflightSmoke /\ CheckModel(c)
              /\ sh' = [sh EXCEPT ![s].pc = "drive"]
           \/ sh' = [sh EXCEPT ![s].pc = "unserved"]
    /\ UNCHANGED <<onDisk, atEnd, said, edits>>

(* A slip: the config that failed to load is used all the same. *)
cmdRun_KeepInvalid(s, given) ==
    /\ Idle(s)
    /\ LET c == Load(given).cfg
       IN  Go(s, IF c.egress THEN "refused" ELSE "drive", "run", c, given)
    /\ UNCHANGED <<onDisk, atEnd, said, edits>>

(* aegis run goes on with the defaults when the config cannot be used. *)
cmdRun(s, given) ==
    /\ Idle(s)
    /\ LET c == IF Load(given).ok THEN Load(given).cfg ELSE Default
       IN  Go(s, IF c.egress THEN "refused" ELSE "drive", "run", c, given)
    /\ UNCHANGED <<onDisk, atEnd, said, edits>>

(* aegis code reads no file. *)
cmdPassthrough(s) ==
    /\ Idle(s)
    /\ Go(s, "drive", "code", Default, FALSE)
    /\ UNCHANGED <<onDisk, atEnd, said, edits>>

(* ollamaHost: OLLAMA_HOST as it stands, which nobody validates. *)
ollamaHost == {"loopback", "remote"}

(* Bare aegis: the model at the loopback endpoint, or the operator's       *)
(* Ollama where there is none.                                             *)
cmdTUI(s) ==
    /\ Idle(s)
    /\ \E e \in {Default.endpoint} \cup ollamaHost :
          Go(s, "drive", "tui", [Default EXCEPT !.endpoint = e], FALSE)
    /\ UNCHANGED <<onDisk, atEnd, said, edits>>

(* --check-origin and --check-opencode, when asked for: the pinned model's *)
(* origin against the policy, and a trial launch; either may be skipped.   *)
FurtherChecks == {"OK", "unfit"}

(* A slip: what validates is taken to be closed. *)
cmdVerifyEnv_ValidIsClosed ==
    /\ IF Load(TRUE).ok THEN said' \in FurtherChecks ELSE said' = "FAIL"
    /\ UNCHANGED <<onDisk, atEnd, sh, edits>>

(* aegis verify-env --config: the config first, then what else was asked   *)
(* for.  (Without --config it says nothing about the file.)                *)
cmdVerifyEnv ==
    /\ LET c == Load(TRUE)
       IN  IF c.ok /\ ~c.cfg.egress THEN said' \in FurtherChecks ELSE said' = "FAIL"
    /\ UNCHANGED <<onDisk, atEnd, sh, edits>>

(* aegis init: unless forced it leaves a file alone that is there now. *)
cmdInit(s, force) ==
    /\ Idle(s)
    /\ \/ /\ force \/ onDisk = Missing
          /\ edits < Edits /\ edits' = edits + 1
          /\ Go(s, "truncate", "init", Default, FALSE)
       \/ /\ ~force /\ onDisk # Missing
          /\ Go(s, "refused", "init", Default, FALSE) /\ UNCHANGED edits
    /\ UNCHANGED <<onDisk, atEnd, said>>

(* WriteConfig: os.WriteFile truncates the file, then writes the plan's    *)
(* config, which is the default one for this target.                       *)
WriteConfig(s) ==
    /\ \/ /\ sh[s].pc = "truncate" /\ onDisk' = Junk
          /\ sh' = [sh EXCEPT ![s].pc = "write"]
       \/ /\ sh[s].pc = "write" /\ onDisk' = Default
          /\ sh' = [sh EXCEPT ![s] = NoCommand]
    /\ said' = "none"
    /\ UNCHANGED <<atEnd, edits>>

Returns(s) == /\ sh[s].pc = "drive"
              /\ sh' = [sh EXCEPT ![s] = NoCommand]
              /\ UNCHANGED <<onDisk, atEnd, said, edits>>

(* Outside: the operator edits the file; models come and go. *)
EditConfig == /\ edits < Edits
              /\ onDisk' \in Files
              /\ said' = "none" /\ edits' = edits + 1
              /\ UNCHANGED <<atEnd, sh>>
SwapModel == /\ atEnd' \in ModelIds \cup {NoModel}
             /\ UNCHANGED <<onDisk, sh, said, edits>>

GatesNext == \/ \E s \in Shells, given \in BOOLEAN : cmdLoop(s, given) \/ cmdRun(s, given)
             \/ \E s \in Shells, force \in BOOLEAN : cmdInit(s, force)
             \/ \E s \in Shells : \/ servingPreflight(s) \/ cmdPassthrough(s) \/ cmdTUI(s)
                                  \/ WriteConfig(s) \/ Returns(s)
             \/ cmdVerifyEnv \/ EditConfig \/ SwapModel

GatesSpec == GatesInit /\ [][GatesNext]_gateVars

-----------------------------------------------------------------------------
GatesTypeOK ==
    /\ onDisk \in Files
    /\ atEnd \in ModelIds \cup {NoModel}
    /\ sh \in [Shells -> [pc : {"idle", "refused", "unlogged", "unserved", "preflight", "drive",
                                "truncate", "write"},
                          cmd : {"none", "loop", "run", "code", "tui", "init"},
                          cfg : {Default, [Default EXCEPT !.endpoint = "remote"]} \cup Configs,
                          told : {"none", "OK", "FAIL", "unfit"}]]
    /\ said \in {"none", "OK", "FAIL", "unfit"} /\ edits \in 0..Edits

(* "the single gate every config passes before the loop runs"              *)
(* (config.go:235-236): whatever the file holds or held, no command that   *)
(* takes a config drives an agent on an endpoint that is not loopback, or  *)
(* with egress allowed.  (Bare aegis on a remote OLLAMA_HOST does.)        *)
ClosedEnvironment ==
    \A s \in Shells : sh[s].pc = "drive" =>
        /\ sh[s].cmd # "tui" => sh[s].cfg.endpoint = "loopback"
        /\ ~sh[s].cfg.egress

(* verify-env "reports whether the environment is closed ... before a real *)
(* run" (main.go:1134-1135): with a file it has called open and that has   *)
(* not been edited since, no loop is started, and one it has passed gets   *)
(* past the configuration gates of both loop and run as it stands: what    *)
(* may still stop them is the audit log or the model endpoint, which it    *)
(* does not look at.                                                       *)
VerifyEnvPredicts ==
    \A s \in Shells :
        /\ sh[s].cmd = "loop" /\ sh[s].told = "FAIL" => sh[s].pc = "refused"
        /\ sh[s].told = "OK" => sh[s].pc # "refused"
=============================================================================
