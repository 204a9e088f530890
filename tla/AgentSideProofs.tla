-------------------------- MODULE AgentSideProofs --------------------------
(***************************************************************************)
(* Proofs about what surrounds an agent, for every value of the constants: *)
(* the gates before it is driven (Gates), the server it is driven through  *)
(* (OpencodeRun), what is made of its steps (AgentTrace), what the model   *)
(* is shown of them (ContextPlugin) and what is kept of its findings       *)
(* (AgentMemory).                                                          *)
(***************************************************************************)
EXTENDS Gates, OpencodeRun, AgentTrace, ContextPlugin, AgentMemory, OrderingProofs

-----------------------------------------------------------------------------
(* The gates, for any number of shells, any set of configuration files and *)
(* any number of edits.  Neither property is inductive: what a loop drives *)
(* was checked when it passed into its preflight, and what verify-env said *)
(* is to be held against the file it said it of, so GatesInv also speaks   *)
(* of the preflight and of the file on disk.                               *)

Config == [endpoint : {"loopback", "remote", "bad", "junk", "missing"}, egress : BOOLEAN,
           harness : {"builtin", "opencode", "goose", "unknown"},
           sane : BOOLEAN, model : ModelIds \cup {NoModel}]

GateLabels == {"idle", "refused", "unlogged", "unserved", "preflight", "drive", "truncate",
               "write"}
Commands == {"none", "loop", "run", "code", "tui", "init"}
Verdicts == {"none", "OK", "FAIL", "unfit"}

GatesTyped == /\ onDisk \in Files
         /\ sh \in [Shells -> [pc : GateLabels, cmd : Commands, cfg : Config, told : Verdicts]]
         /\ said \in Verdicts

(* A loop on its way to its model has passed the gates. *)
PreflightIsClosed ==
    \A s \in Shells : sh[s].pc = "preflight" =>
        sh[s].cmd = "loop" /\ sh[s].cfg.endpoint = "loopback" /\ ~sh[s].cfg.egress

(* The file on disk is as open or closed as it was last said to be. *)
SaidOfFile ==
    LET closed == Load(TRUE).ok /\ ~Load(TRUE).cfg.egress
    IN  /\ said = "OK" => closed
        /\ said = "FAIL" => ~closed

GatesInv == /\ GatesTyped /\ PreflightIsClosed /\ SaidOfFile
            /\ ClosedEnvironment /\ VerifyEnvPredicts

-----------------------------------------------------------------------------
(* Every file there may be is a configuration of the declared shape. *)
LEMMA FilesAreConfigs == Files \subseteq Config
  <1>1. Default \in Config /\ Junk \in Config /\ Missing \in Config
    BY DEF Default, Junk, Missing, Config
  <1>2. Configs \subseteq Config
    BY GatesAssumption DEF Config
  <1> QED BY <1>1, <1>2 DEF Files

(* What config.Load hands back: a configuration, which is valid when the   *)
(* load succeeded; a valid one without egress is loopback and every        *)
(* harness can be made for it.                                             *)
LEMMA LoadedConfig ==
    ASSUME NEW given \in BOOLEAN, onDisk \in Files
    PROVE  /\ Load(given).cfg \in Config
           /\ Load(given).ok /\ ~Load(given).cfg.egress =>
                 /\ Load(given).cfg.endpoint = "loopback"
                 /\ selectHarness(Load(given).cfg)
  <1>1. Default \in Files BY DEF Files
  <1>2. Load(given).cfg \in Files
    BY <1>1 DEF Load
  <1>3. Load(given).cfg \in Config BY <1>2, FilesAreConfigs
  <1>4. Load(given).ok => Validate(Load(given).cfg) BY DEF Load
  <1>5. ASSUME NEW c \in Config, Validate(c), ~c.egress
        PROVE  c.endpoint = "loopback" /\ selectHarness(c)
    BY <1>5 DEF Validate, selectHarness, NewClient, Config
  <1> QED BY <1>3, <1>4, <1>5

(* No command has been started. *)
LEMMA GatesStart == GatesInit => GatesInv
  <1> SUFFICES ASSUME GatesInit PROVE GatesInv OBVIOUS
  <1> USE DEF GatesInit
  <1>1. Default \in Config BY FilesAreConfigs DEF Files
  <1>2. NoCommand \in [pc : GateLabels, cmd : Commands, cfg : Config, told : Verdicts]
    BY <1>1 DEF NoCommand, GateLabels, Commands, Verdicts
  <1>3. GatesTyped BY <1>2 DEF GatesTyped, Verdicts
  <1>4. \A s \in Shells : sh[s].pc = "idle" /\ sh[s].told = "none"
    BY DEF NoCommand
  <1> QED BY <1>3, <1>4 DEF GatesInv, PreflightIsClosed, SaidOfFile, ClosedEnvironment,
             VerifyEnvPredicts

-----------------------------------------------------------------------------
(* A shell enters a command: if what it enters with is typed, closed where *)
(* it is to be closed and in keeping with the last verdict, GatesInv is kept.  *)
LEMMA Entered ==
    ASSUME GatesInv, NEW s \in Shells, NEW l \in GateLabels, NEW cmd \in Commands,
           NEW c \in Config,
           NEW given \in BOOLEAN, Go(s, l, cmd, c, given), UNCHANGED <<onDisk, said>>,
           l = "preflight" => cmd = "loop" /\ c.endpoint = "loopback" /\ ~c.egress,
           l = "drive" => ~c.egress /\ (cmd # "tui" => c.endpoint = "loopback"),
           given /\ said = "FAIL" /\ cmd = "loop" => l = "refused",
           given /\ said = "OK" => l # "refused"
    PROVE  GatesInv'
  <1> DEFINE told == IF given THEN said ELSE "none"
             new == [pc |-> l, cmd |-> cmd, cfg |-> c, told |-> told]
  <1>1. sh' = [sh EXCEPT ![s] = new] BY DEF Go
  <1>2. told \in Verdicts BY DEF GatesInv, GatesTyped, Verdicts
  <1>3. new \in [pc : GateLabels, cmd : Commands, cfg : Config, told : Verdicts]
    BY <1>2
  <1>4. GatesTyped'
    BY <1>1, <1>3 DEF GatesInv, GatesTyped
  <1>5. /\ sh'[s] = new
        /\ \A t \in Shells \ {s} : sh'[t] = sh[t]
    BY <1>1 DEF GatesInv, GatesTyped
  <1>6. new.pc = l /\ new.cmd = cmd /\ new.cfg = c /\ new.told = told OBVIOUS
  <1> HIDE DEF new
  <1>7. PreflightIsClosed'
    BY <1>5, <1>6 DEF GatesInv, PreflightIsClosed
  <1>8. SaidOfFile'
    BY DEF GatesInv, SaidOfFile, Load
  <1>9. ClosedEnvironment'
    BY <1>5, <1>6 DEF GatesInv, ClosedEnvironment
  <1>10. VerifyEnvPredicts'
    BY <1>5, <1>6 DEF GatesInv, VerifyEnvPredicts
  <1> QED BY <1>4, <1>7, <1>8, <1>9, <1>10 DEF GatesInv

(* A shell that goes on, or back to its prompt, in one of the ways below.  *)
LEMMA ShellMoved ==
    ASSUME GatesInv, NEW s \in Shells,
           NEW new \in [pc : GateLabels, cmd : Commands, cfg : Config, told : Verdicts],
           sh' = [sh EXCEPT ![s] = new], onDisk' \in Files, said' \in Verdicts,
           SaidOfFile',
           new.pc # "preflight",
           new.pc = "drive" => ~new.cfg.egress /\ new.cfg.endpoint = "loopback",
           new.told = "FAIL" /\ new.cmd = "loop" => new.pc = "refused",
           new.told = "OK" => new.pc # "refused"
    PROVE  GatesInv'
  <1>1. GatesTyped' BY DEF GatesInv, GatesTyped
  <1>2. /\ sh'[s] = new
        /\ \A t \in Shells \ {s} : sh'[t] = sh[t]
    BY DEF GatesInv, GatesTyped
  <1>3. PreflightIsClosed' BY <1>2 DEF GatesInv, PreflightIsClosed
  <1>4. ClosedEnvironment' BY <1>2 DEF GatesInv, ClosedEnvironment
  <1>5. VerifyEnvPredicts' BY <1>2 DEF GatesInv, VerifyEnvPredicts
  <1> QED BY <1>1, <1>3, <1>4, <1>5 DEF GatesInv

(* Nothing but the verdict or the file changes. *)
LEMMA OnlyFile ==
    ASSUME GatesInv, UNCHANGED sh, onDisk' \in Files, said' \in Verdicts, SaidOfFile'
    PROVE  GatesInv'
  BY DEF GatesInv, GatesTyped, PreflightIsClosed, ClosedEnvironment, VerifyEnvPredicts

(* aegis loop starts. *)
LEMMA LoopStep ==
    ASSUME GatesInv, NEW s \in Shells, NEW given \in BOOLEAN, cmdLoop(s, given)
    PROVE  GatesInv'
  <1> DEFINE c == Load(given)
             pass == c.ok /\ ~c.cfg.egress /\ selectHarness(c.cfg)
  <1>1. onDisk \in Files BY DEF GatesInv, GatesTyped
  <1>2. /\ c.cfg \in Config
        /\ c.ok /\ ~c.cfg.egress => c.cfg.endpoint = "loopback" /\ selectHarness(c.cfg)
    BY <1>1, LoadedConfig
  <1>3. Default \in Config BY FilesAreConfigs DEF Files
  <1>4. UNCHANGED <<onDisk, said>> BY DEF cmdLoop
  <1>5. CASE pass
    <2>1. PICK l \in {"preflight", "unlogged"} : Go(s, l, "loop", c.cfg, given)
      BY <1>5 DEF cmdLoop
    <2>2. ~(given /\ said = "FAIL")
      BY <1>5 DEF GatesInv, SaidOfFile
    <2>3. l \in GateLabels /\ "loop" \in Commands BY DEF GateLabels, Commands
    <2> HIDE DEF c
    <2> QED BY <1>2, <1>4, <1>5, <2>1, <2>2, <2>3, Entered
  <1>6. CASE ~pass
    <2>1. Go(s, "refused", "loop", Default, given) BY <1>6 DEF cmdLoop
    <2>2. ~(given /\ said = "OK")
      BY <1>2, <1>6 DEF GatesInv, SaidOfFile
    <2>3. "refused" \in GateLabels /\ "loop" \in Commands BY DEF GateLabels, Commands
    <2> QED BY <1>3, <1>4, <2>1, <2>2, <2>3, Entered
  <1> QED BY <1>5, <1>6

(* aegis run starts. *)
LEMMA CmdRunStep ==
    ASSUME GatesInv, NEW s \in Shells, NEW given \in BOOLEAN, cmdRun(s, given)
    PROVE  GatesInv'
  <1> DEFINE c == IF Load(given).ok THEN Load(given).cfg ELSE Default
             l == IF c.egress THEN "refused" ELSE "drive"
  <1>1. onDisk \in Files BY DEF GatesInv, GatesTyped
  <1>2. /\ Load(given).cfg \in Config
        /\ Load(given).ok /\ ~Load(given).cfg.egress => Load(given).cfg.endpoint = "loopback"
    BY <1>1, LoadedConfig
  <1>3. Default \in Config BY FilesAreConfigs DEF Files
  <1>4. Default.endpoint = "loopback" /\ ~Default.egress BY DEF Default
  <1>5. c \in Config /\ (~c.egress => c.endpoint = "loopback")
    BY <1>2, <1>3, <1>4
  <1>6. given /\ said = "OK" => ~c.egress
    BY DEF GatesInv, SaidOfFile
  <1>7. UNCHANGED <<onDisk, said>> /\ Go(s, l, "run", c, given) BY DEF cmdRun
  <1>8. l \in GateLabels /\ "run" \in Commands BY DEF GateLabels, Commands
  <1>9. (l = "drive" => ~c.egress) /\ (l = "refused" => c.egress) /\ l # "preflight"
    OBVIOUS
  <1> HIDE DEF c, l
  <1> QED BY <1>5, <1>6, <1>7, <1>8, <1>9, Entered

(* The other commands start. *)
LEMMA OtherStarts ==
    ASSUME GatesInv, NEW s \in Shells,
           cmdPassthrough(s) \/ cmdTUI(s) \/ \E force \in BOOLEAN : cmdInit(s, force)
    PROVE  GatesInv'
  <1>1. Default \in Config /\ Default.endpoint = "loopback" /\ ~Default.egress
    BY FilesAreConfigs DEF Files, Default
  <1>2. CASE cmdPassthrough(s)
    <2>1. UNCHANGED <<onDisk, said>> /\ Go(s, "drive", "code", Default, FALSE)
      BY <1>2 DEF cmdPassthrough
    <2>2. "drive" \in GateLabels /\ "code" \in Commands BY DEF GateLabels, Commands
    <2> QED BY <1>1, <2>1, <2>2, Entered
  <1>3. CASE cmdTUI(s)
    <2>1. PICK e \in {"loopback", "remote"} :
             /\ UNCHANGED <<onDisk, said>>
             /\ Go(s, "drive", "tui", [Default EXCEPT !.endpoint = e], FALSE)
      BY <1>1, <1>3 DEF cmdTUI, ollamaHost
    <2>2. [Default EXCEPT !.endpoint = e] \in Config /\ ~[Default EXCEPT !.endpoint = e].egress
      BY <1>1 DEF Config
    <2>3. "drive" \in GateLabels /\ "tui" \in Commands BY DEF GateLabels, Commands
    <2> QED BY <2>1, <2>2, <2>3, Entered
  <1>4. CASE \E force \in BOOLEAN : cmdInit(s, force)
    <2>1. PICK l \in {"truncate", "refused"} :
             UNCHANGED <<onDisk, said>> /\ Go(s, l, "init", Default, FALSE)
      BY <1>4 DEF cmdInit
    <2>2. l \in GateLabels /\ "init" \in Commands BY DEF GateLabels, Commands
    <2> QED BY <1>1, <2>1, <2>2, Entered
  <1> QED BY <1>2, <1>3, <1>4

(* A loop goes through its preflight. *)
LEMMA PreflightStep ==
    ASSUME GatesInv, NEW s \in Shells, servingPreflight(s)
    PROVE  GatesInv'
  <1> DEFINE Shell == [pc : GateLabels, cmd : Commands, cfg : Config, told : Verdicts]
  <1>1. PICK l \in {"drive", "unserved"} : sh' = [sh EXCEPT ![s].pc = l]
    BY DEF servingPreflight
  <1>2. UNCHANGED <<onDisk, said>> /\ sh[s].pc = "preflight" BY DEF servingPreflight
  <1> DEFINE new == [sh[s] EXCEPT !.pc = l]
  <1>3. sh[s] \in Shell BY DEF GatesInv, GatesTyped
  <1>4. /\ new \in Shell /\ new.pc = l
        /\ new.cfg = sh[s].cfg /\ new.cmd = sh[s].cmd /\ new.told = sh[s].told
    BY <1>3 DEF GateLabels
  <1>5. sh' = [sh EXCEPT ![s] = new] BY <1>1 DEF GatesInv, GatesTyped
  <1>6. /\ sh[s].cfg.endpoint = "loopback" /\ ~sh[s].cfg.egress
        /\ ~(sh[s].told = "FAIL" /\ sh[s].cmd = "loop")
    BY <1>2 DEF GatesInv, PreflightIsClosed, VerifyEnvPredicts
  <1>7. SaidOfFile' /\ onDisk' \in Files /\ said' \in Verdicts
    BY <1>2 DEF GatesInv, GatesTyped, SaidOfFile, Load
  <1> HIDE DEF new
  <1> QED BY <1>4, <1>5, <1>6, <1>7, ShellMoved

(* aegis init writes its file; a command returns. *)
LEMMA WriteStep ==
    ASSUME GatesInv, NEW s \in Shells, WriteConfig(s) \/ Returns(s)
    PROVE  GatesInv'
  <1> DEFINE Shell == [pc : GateLabels, cmd : Commands, cfg : Config, told : Verdicts]
  <1>1. sh[s] \in Shell BY DEF GatesInv, GatesTyped
  <1>2. Default \in Config BY FilesAreConfigs DEF Files
  <1>3. /\ NoCommand \in Shell /\ NoCommand.pc = "idle"
        /\ NoCommand.told = "none"
    BY <1>2 DEF NoCommand, GateLabels, Commands, Verdicts
  <1>4. {Junk, Default} \subseteq Files BY DEF Files
  <1>5. CASE WriteConfig(s) /\ sh[s].pc = "truncate"
    <2> DEFINE new == [sh[s] EXCEPT !.pc = "write"]
    <2>1. new \in Shell /\ new.pc = "write" /\ new.cmd = sh[s].cmd /\ new.told = sh[s].told
      BY <1>1 DEF GateLabels
    <2>2. sh' = [sh EXCEPT ![s] = new] /\ said' = "none" /\ onDisk' = Junk
      BY <1>5 DEF WriteConfig, GatesInv, GatesTyped
    <2>3. ~(sh[s].told = "FAIL" /\ sh[s].cmd = "loop")
      BY <1>5 DEF GatesInv, VerifyEnvPredicts
    <2>4. SaidOfFile' /\ onDisk' \in Files /\ said' \in Verdicts
      BY <1>4, <2>2 DEF SaidOfFile, Verdicts
    <2> HIDE DEF new
    <2> QED BY <2>1, <2>2, <2>3, <2>4, ShellMoved
  <1>6. CASE WriteConfig(s) /\ sh[s].pc = "write"
    <2>1. sh' = [sh EXCEPT ![s] = NoCommand] /\ said' = "none" /\ onDisk' = Default
      BY <1>6 DEF WriteConfig
    <2>2. SaidOfFile' /\ onDisk' \in Files /\ said' \in Verdicts
      BY <1>4, <2>1 DEF SaidOfFile, Verdicts
    <2> QED BY <1>3, <2>1, <2>2, ShellMoved
  <1>7. CASE Returns(s)
    <2>1. sh' = [sh EXCEPT ![s] = NoCommand] /\ UNCHANGED <<said, onDisk>>
      BY <1>7 DEF Returns
    <2>2. SaidOfFile' /\ onDisk' \in Files /\ said' \in Verdicts
      BY <2>1 DEF GatesInv, GatesTyped, SaidOfFile, Load
    <2> QED BY <1>3, <2>1, <2>2, ShellMoved
  <1> QED BY <1>5, <1>6, <1>7 DEF WriteConfig

(* verify-env speaks; outside, the file or the served model is changed. *)
LEMMA OutsideStep ==
    ASSUME GatesInv, cmdVerifyEnv \/ EditConfig \/ SwapModel
    PROVE  GatesInv'
  <1>1. CASE cmdVerifyEnv
    <2> DEFINE closed == Load(TRUE).ok /\ ~Load(TRUE).cfg.egress
    <2>1. UNCHANGED <<onDisk, sh>> BY <1>1 DEF cmdVerifyEnv
    <2>2. IF closed THEN said' \in {"OK", "unfit"} ELSE said' = "FAIL"
      BY <1>1 DEF cmdVerifyEnv, FurtherChecks
    <2>3. SaidOfFile' BY <2>1, <2>2 DEF SaidOfFile, Load
    <2>4. said' \in Verdicts BY <2>2 DEF Verdicts
    <2> QED BY <2>1, <2>3, <2>4, OnlyFile DEF GatesInv, GatesTyped
  <1>2. CASE EditConfig
    <2>1. UNCHANGED sh /\ onDisk' \in Files /\ said' = "none" BY <1>2 DEF EditConfig
    <2>2. SaidOfFile' /\ said' \in Verdicts BY <2>1 DEF SaidOfFile, Verdicts
    <2> QED BY <2>1, <2>2, OnlyFile
  <1>3. CASE SwapModel
    <2>1. UNCHANGED <<sh, onDisk, said>> BY <1>3 DEF SwapModel
    <2>2. SaidOfFile' /\ said' \in Verdicts /\ onDisk' \in Files
      BY <2>1 DEF GatesInv, GatesTyped, SaidOfFile, Load
    <2> QED BY <2>1, <2>2, OnlyFile
  <1> QED BY <1>1, <1>2, <1>3

(* Every step keeps GatesInv. *)
LEMMA GatesStep == GatesInv /\ [GatesNext]_gateVars => GatesInv'
  <1> SUFFICES ASSUME GatesInv, [GatesNext]_gateVars PROVE GatesInv' OBVIOUS
  <1>1. CASE GatesNext
    BY <1>1, LoopStep, CmdRunStep, OtherStarts, PreflightStep, WriteStep, OutsideStep
       DEF GatesNext
  <1>2. CASE UNCHANGED gateVars
    BY <1>2 DEF gateVars, GatesInv, GatesTyped, PreflightIsClosed, SaidOfFile, Load,
                ClosedEnvironment, VerifyEnvPredicts
  <1> QED BY <1>1, <1>2

(* However many commands race with edits of the config file, init's half   *)
(* written one included, none that takes a config drives an agent on an    *)
(* endpoint that is not loopback or with egress allowed.                   *)
THEOREM Closed == GatesSpec => []ClosedEnvironment
  <1>1. GatesInv => ClosedEnvironment BY DEF GatesInv
  <1> QED BY <1>1, GatesStart, GatesStep, PTL DEF GatesSpec

(* What verify-env said of a file holds for every loop and run started     *)
(* with that file until it is edited, as far as the configuration gates    *)
(* go: the audit log and the endpoint are not its subject.                 *)
THEOREM Predicted == GatesSpec => []VerifyEnvPredicts
  <1>1. GatesInv => VerifyEnvPredicts BY DEF GatesInv
  <1> QED BY <1>1, GatesStart, GatesStep, PTL DEF GatesSpec

-----------------------------------------------------------------------------
(* The run of opencode, for any number of runs and ports: what a run       *)
(* reports is true, and no run that returns leaves its server behind.      *)

Places == Ended \cup {"off", "ready", "session", "send", "collect", "partial"}
RunRec == [pc : Places, kind : {"solve", "verify"}, port : Ports \cup {0},
           on : Runs \cup {"none"}, got : 0..MaxMsgs]

(* A port is held by a server that is up; a server that is starting has a  *)
(* port to try, and so has a run under way.                                *)
Holders == /\ \A p \in Ports : bound[p] # "none" => serve[bound[p]] = "up"
           /\ \A r \in Runs :
                 serve[r] = "starting" \/ oc[r].pc \in {"ready", "session"} =>
                     oc[r].port \in Ports

(* A run has no server before it starts one and after it has returned, but *)
(* for one that was killed.                                                *)
Owned == \A r \in Runs : oc[r].pc \in {"off", "done", "timedout", "failed"} =>
                             serve[r] \in {"none", "gone"}

(* What a run knows of its turn by the way it got where it is. *)
Known == \A r \in Runs : /\ oc[r].pc = "collect" => turn[r].done
                         /\ oc[r].pc = "partial" => r \in expired

OcInv == OcTypeOK /\ Holders /\ Owned /\ Known /\ ReportIsTrue

-----------------------------------------------------------------------------
(* One run moves: the others, and the fields it does not set, stay.        *)
Moved(r, l, n) ==
    /\ oc' \in [Runs -> RunRec]
    /\ oc'[r].pc = l /\ oc'[r].got = n
    /\ oc'[r].kind = oc[r].kind /\ oc'[r].port = oc[r].port
    /\ \A q \in Runs \ {r} : oc'[q] = oc[q]

(* A step that only sets pc. *)
LEMMA MoveTo ==
    ASSUME OcTypeOK, NEW r \in Runs, NEW l \in Places,
           oc' = [oc EXCEPT ![r].pc = l]
    PROVE  Moved(r, l, oc[r].got)
  BY DEF OcTypeOK, Moved, RunRec, Places

(* Its record is replaced by another. *)
LEMMA Replaced ==
    ASSUME OcTypeOK, NEW r \in Runs, NEW new \in RunRec, oc' = [oc EXCEPT ![r] = new]
    PROVE  oc' \in [Runs -> RunRec] /\ oc'[r] = new /\ \A q \in Runs \ {r} : oc'[q] = oc[q]
  BY DEF OcTypeOK, RunRec, Places

(* Finish sets where the run is and what it got. *)
LEMMA FinishMoves ==
    ASSUME OcTypeOK, NEW r \in Runs, NEW l \in Places, NEW n \in 0..MaxMsgs, Finish(r, l, n)
    PROVE  Moved(r, l, n)
  <1> DEFINE new == [oc[r] EXCEPT !.pc = l, !.got = n]
  <1>0. oc \in [Runs -> RunRec]
      BY DEF OcTypeOK, RunRec, Places
  <1>1. /\ new \in RunRec /\ new.pc = l /\ new.got = n
        /\ new.kind = oc[r].kind /\ new.port = oc[r].port
      BY <1>0 DEF RunRec
  <1>2. oc' = [oc EXCEPT ![r] = new]
      BY <1>0 DEF Finish
  <1> HIDE DEF new
  <1> QED BY <1>1, <1>2, Replaced DEF Moved

(* stop takes the server and every port it has. *)
LEMMA Stopped ==
    ASSUME OcTypeOK, Holders, NEW r \in Runs, stop(r)
    PROVE  /\ serve' \in [Runs -> {"none", "starting", "up", "gone"}]
           /\ bound' \in [Ports -> Runs \cup {"none"}]
           /\ serve'[r] = "gone" /\ \A q \in Runs \ {r} : serve'[q] = serve[q]
           /\ \A p \in Ports : bound'[p] # "none" => serve'[bound'[p]] = "up"
  <1>1. serve' \in [Runs -> {"none", "starting", "up", "gone"}]
        /\ serve'[r] = "gone" /\ \A q \in Runs \ {r} : serve'[q] = serve[q]
      BY DEF OcTypeOK, stop
  <1>2. \A p \in Ports : bound'[p] = IF bound[p] = r THEN "none" ELSE bound[p]
      BY DEF stop
  <1>3. bound' \in [Ports -> Runs \cup {"none"}]
      BY DEF OcTypeOK, stop
  <1>4. \A p \in Ports : bound[p] \in Runs \cup {"none"}
      BY DEF OcTypeOK
  <1> QED BY <1>1, <1>2, <1>3, <1>4, RunAssumption DEF Holders

(* A run that finishes: its server is stopped, and its report must be true.*)
LEMMA FinishKeeps ==
    ASSUME OcInv, NEW r \in Runs, NEW l \in {"done", "timedout", "failed"},
           NEW n \in 0..MaxMsgs, Finish(r, l, n), UNCHANGED <<expired, turn>>,
           l = "done" => oc[r].kind = "verify" \/ (turn[r].done /\ n = turn[r].len),
           l = "timedout" => r \in expired /\ n <= turn[r].len
    PROVE  OcInv'
  <1>1. Moved(r, l, n) /\ stop(r)
      BY FinishMoves DEF OcInv, Finish, Places, Ended
  <1>2. OcTypeOK'
      BY <1>1, Stopped DEF OcInv, OcTypeOK, Moved, RunRec, Places
  <1>3. Holders' /\ Owned'
      BY <1>1, Stopped DEF OcInv, Holders, Owned, Moved
  <1>4. Known'
      BY <1>1 DEF OcInv, Known, Moved
  <1>5. ReportIsTrue'
      BY <1>1 DEF OcInv, ReportIsTrue, Moved, OcAt
  <1> QED BY <1>2, <1>3, <1>4, <1>5 DEF OcInv

(* A run that goes on: nothing else moves. *)
LEMMA GoOnKeeps ==
    ASSUME OcInv, NEW r \in Runs, NEW l \in Places, Moved(r, l, oc[r].got),
           l \notin {"off", "done", "timedout", "failed"},
           UNCHANGED <<expired, turn, serve, bound>>,
           l \in {"ready", "session"} => oc[r].port \in Ports,
           l = "collect" => turn[r].done,
           l = "partial" => r \in expired
    PROVE  OcInv'
  <1>2. OcTypeOK'
      BY DEF OcInv, OcTypeOK, Moved, RunRec, Places
  <1>3. Holders' /\ Owned'
      BY DEF OcInv, Holders, Owned, Moved
  <1>4. Known'
      BY DEF OcInv, Known, Moved
  <1>5. ReportIsTrue'
      BY DEF OcInv, ReportIsTrue, Moved, OcAt
  <1> QED BY <1>2, <1>3, <1>4, <1>5 DEF OcInv

(* No run has started. *)
LEMMA InitOcInv == OcInit => OcInv
  <1> SUFFICES ASSUME OcInit PROVE OcInv
      OBVIOUS
  <1>1. NewRun \in RunRec
      BY RunAssumption DEF NewRun, RunRec, Places
  <1>2. OcTypeOK
      BY <1>1, RunAssumption DEF OcInit, OcTypeOK, RunRec, Places
  <1>3. \A r \in Runs : oc[r].pc = "off"
      BY DEF OcInit, NewRun
  <1> QED BY <1>2, <1>3 DEF OcInit, OcInv, Holders, Owned, Known, ReportIsTrue, OcAt

(* Every step of a run, its server or its turn keeps OcInv. *)
LEMMA NextOcInv == OcInv /\ [OcNext]_ocVars => OcInv'
  <1> SUFFICES ASSUME OcInv, [OcNext]_ocVars PROVE OcInv'
      OBVIOUS
  <1> USE RunAssumption
  <1>1. CASE UNCHANGED ocVars
      BY <1>1 DEF ocVars, OcInv, OcTypeOK, Holders, Owned, Known, ReportIsTrue, OcAt
  <1> SUFFICES ASSUME NEW r \in Runs,
                      \/ StartServe(r) \/ ServeBinds(r) \/ ServeDies(r)
                      \/ Expire(r) \/ TurnAdvances(r) \/ RequestFails(r)
                      \/ RunStep(r) \/ RunKilled(r)
               PROVE  OcInv'
      BY <1>1 DEF OcNext
  <1>0. /\ oc[r] \in RunRec /\ 0 \in 0..MaxMsgs /\ oc[r].got \in 0..MaxMsgs
        /\ turn[r].len \in 0..MaxMsgs /\ turn[r].done \in BOOLEAN
      BY DEF OcInv, OcTypeOK, RunRec, Places
  <1>2. CASE StartServe(r)
    <2>1. CASE oc' = [oc EXCEPT ![r].pc = "failed"] /\ UNCHANGED serve
      <3>1. Moved(r, "failed", oc[r].got) /\ serve[r] \in {"none", "gone"}
          BY <1>2, <2>1, MoveTo DEF OcInv, Places, Ended, StartServe, Owned, OcAt
      <3>2. UNCHANGED <<expired, bound, turn, serve>>
          BY <1>2, <2>1 DEF StartServe
      <3>3. OcTypeOK'
          BY <3>1, <3>2 DEF OcInv, OcTypeOK, Moved, RunRec, Places
      <3> QED BY <3>1, <3>2, <3>3 DEF OcInv, Holders, Owned, Known, ReportIsTrue, Moved, OcAt
    <2>2. ASSUME NEW p \in Ports, NEW k \in {"solve", "verify"}, bound[p] = "none",
                 oc' = [oc EXCEPT ![r].pc = "ready", ![r].kind = k, ![r].port = p],
                 serve' = [serve EXCEPT ![r] = "starting"]
          PROVE  OcInv'
      <3> DEFINE new == [oc[r] EXCEPT !.pc = "ready", !.kind = k, !.port = p]
      <3>a. oc \in [Runs -> RunRec]
          BY DEF OcInv, OcTypeOK, RunRec, Places
      <3>b. new \in RunRec /\ new.pc = "ready" /\ new.port = p
          BY <1>0 DEF RunRec, Places
      <3>c. oc' = [oc EXCEPT ![r] = new]
          BY <2>2, <3>a
      <3>1. /\ oc' \in [Runs -> RunRec] /\ oc'[r].pc = "ready" /\ oc'[r].port = p
            /\ \A q \in Runs \ {r} : oc'[q] = oc[q]
        <4> HIDE DEF new
        <4> QED BY <3>b, <3>c, Replaced DEF OcInv
      <3>2. /\ UNCHANGED <<expired, bound, turn>> /\ serve[r] \in {"none", "gone"}
          BY <1>2 DEF StartServe, OcInv, Owned, OcAt
      <3>3. /\ serve' \in [Runs -> {"none", "starting", "up", "gone"}] /\ serve'[r] = "starting"
            /\ \A q \in Runs \ {r} : serve'[q] = serve[q]
          BY <2>2 DEF OcInv, OcTypeOK
      <3>4. OcTypeOK'
          BY <3>1, <3>2, <3>3 DEF OcInv, OcTypeOK, RunRec, Places
      <3>5. Holders'
        <4>1. \A q \in Ports : bound[q] \in Runs \cup {"none"}
            BY DEF OcInv, OcTypeOK
        <4> QED BY <3>1, <3>2, <3>3, <4>1 DEF OcInv, Holders
      <3> QED BY <3>1, <3>2, <3>3, <3>4, <3>5 DEF OcInv, Owned, Known, ReportIsTrue, OcAt
    <2> QED BY <1>2, <2>1, <2>2 DEF StartServe
  <1>3. CASE ServeBinds(r)
    <2>1. serve[r] = "starting" /\ UNCHANGED <<oc, expired, turn>> /\ oc[r].port \in Ports
        BY <1>3 DEF ServeBinds, OcInv, Holders
    <2>2. oc[r].pc \notin {"off", "done", "timedout", "failed"}
        BY <2>1 DEF OcInv, Owned
    <2>3. \/ serve' = [serve EXCEPT ![r] = "gone"] /\ UNCHANGED bound
          \/ serve' = [serve EXCEPT ![r] = "up"] /\ bound' = [bound EXCEPT ![oc[r].port] = r]
        BY <1>3 DEF ServeBinds
    <2>4. OcTypeOK'
      <3>1. serve' \in [Runs -> {"none", "starting", "up", "gone"}]
          BY <2>3 DEF OcInv, OcTypeOK
      <3>2. bound' \in [Ports -> Runs \cup {"none"}]
          BY <2>1, <2>3 DEF OcInv, OcTypeOK
      <3> QED BY <2>1, <3>1, <3>2 DEF OcInv, OcTypeOK
    <2>5. Holders'
      <3>1. \A q \in Ports : bound[q] \in Runs \cup {"none"}
          BY DEF OcInv, OcTypeOK
      <3>2. \A q \in Ports : bound[q] # r
          BY <2>1 DEF OcInv, Holders
      <3> QED BY <2>1, <2>3, <3>1, <3>2 DEF OcInv, OcTypeOK, Holders
    <2>6. Owned'
        BY <2>1, <2>2, <2>3 DEF OcInv, OcTypeOK, Owned
    <2> QED BY <2>1, <2>4, <2>5, <2>6 DEF OcInv, Known, ReportIsTrue, OcAt
  <1>4. CASE ServeDies(r)
    <2>1. stop(r) /\ UNCHANGED <<oc, expired, turn>>
        BY <1>4 DEF ServeDies
    <2>2. OcTypeOK'
        BY <2>1, Stopped DEF OcInv, OcTypeOK
    <2>3. Holders' /\ Owned'
        BY <2>1, Stopped DEF OcInv, Holders, Owned
    <2> QED BY <2>1, <2>2, <2>3 DEF OcInv, Known, ReportIsTrue, OcAt
  <1>5. CASE Expire(r)
      BY <1>5 DEF Expire, OcInv, OcTypeOK, Holders, Owned, Known, ReportIsTrue, OcAt
  <1>6. CASE TurnAdvances(r)
    <2>1. oc[r].pc = "send" /\ UNCHANGED <<oc, expired, serve, bound>>
        BY <1>6 DEF TurnAdvances, OcAt
    <2>2. turn \in [Runs -> [len : 0..MaxMsgs, done : BOOLEAN]]
        BY DEF OcInv, OcTypeOK
    <2>3. turn' \in [Runs -> [len : 0..MaxMsgs, done : BOOLEAN]]
          /\ \A q \in Runs \ {r} : turn'[q] = turn[q]
      <3>1. CASE turn[r].len < MaxMsgs /\ turn' = [turn EXCEPT ![r].len = @ + 1]
        <4> DEFINE new == [turn[r] EXCEPT !.len = turn[r].len + 1]
        <4>0. turn[r].len + 1 \in 0..MaxMsgs
            BY <1>0, <3>1
        <4>1. new \in [len : 0..MaxMsgs, done : BOOLEAN]
            BY <2>2, <4>0
        <4>2. turn' = [turn EXCEPT ![r] = new]
            BY <2>2, <3>1
        <4> HIDE DEF new
        <4> QED BY <2>2, <4>1, <4>2
      <3>2. CASE turn' = [turn EXCEPT ![r].done = TRUE]
          BY <2>2, <3>2
      <3> QED BY <1>6, <3>1, <3>2 DEF TurnAdvances
    <2>4. OcTypeOK'
        BY <2>1, <2>3 DEF OcInv, OcTypeOK
    <2> QED BY <2>1, <2>3, <2>4 DEF OcInv, Holders, Owned, Known, ReportIsTrue, OcAt
  <1>7. CASE RequestFails(r)
      BY <1>0, <1>7, FinishKeeps DEF RequestFails
  <1>8. CASE WaitReady(r)
    <2>1. CASE oc' = [oc EXCEPT ![r].pc = "session"] /\ UNCHANGED <<serve, bound>>
      <3>1. Moved(r, "session", oc[r].got) BY <2>1, MoveTo DEF OcInv, Places
      <3>2. oc[r].port \in Ports BY <1>8 DEF WaitReady, OcAt, OcInv, Holders
      <3> QED BY <1>8, <2>1, <3>1, <3>2, GoOnKeeps DEF WaitReady, Places
    <2>2. CASE Finish(r, "failed", 0)
        BY <1>0, <1>8, <2>2, FinishKeeps DEF WaitReady
    <2>3. CASE oc[r].kind = "verify" /\ Finish(r, "done", 0)
        BY <1>0, <1>8, <2>3, FinishKeeps DEF WaitReady
    <2> QED BY <1>8, <2>1, <2>2, <2>3 DEF WaitReady
  <1>9. CASE CreateSession(r)
    <2>1. CASE Finish(r, "failed", 0)
        BY <1>0, <1>9, <2>1, FinishKeeps DEF CreateSession
    <2>2. CASE /\ oc' = [oc EXCEPT ![r].pc = "send", ![r].on = bound[oc[r].port]]
               /\ oc[r].port \in Ports /\ UNCHANGED <<serve, bound>>
      <3>0. bound[oc[r].port] \in Runs \cup {"none"}
          BY <2>2 DEF OcInv, OcTypeOK
      <3> DEFINE new == [oc[r] EXCEPT !.pc = "send", !.on = bound[oc[r].port]]
      <3>a. oc \in [Runs -> RunRec]
          BY DEF OcInv, OcTypeOK, RunRec, Places
      <3>b. /\ new \in RunRec /\ new.pc = "send" /\ new.got = oc[r].got
            /\ new.kind = oc[r].kind /\ new.port = oc[r].port
          BY <1>0, <3>0 DEF RunRec, Places
      <3>c. oc' = [oc EXCEPT ![r] = new]
          BY <2>2, <3>a
      <3>1. Moved(r, "send", oc[r].got)
        <4> HIDE DEF new
        <4> QED BY <3>b, <3>c, Replaced DEF OcInv, Moved
      <3> QED BY <1>9, <2>2, <3>1, GoOnKeeps DEF CreateSession, Places
    <2> QED BY <1>9, <2>1, <2>2 DEF CreateSession, OcInv, Holders, OcAt
  <1>10. CASE SendMessage(r)
    <2>1. CASE turn[r].done /\ oc' = [oc EXCEPT ![r].pc = "collect"] /\ UNCHANGED <<serve, bound>>
      <3>1. Moved(r, "collect", oc[r].got) BY <2>1, MoveTo DEF OcInv, Places
      <3> QED BY <1>10, <2>1, <3>1, GoOnKeeps DEF SendMessage, Places
    <2>2. CASE r \in expired /\ oc' = [oc EXCEPT ![r].pc = "partial"] /\ UNCHANGED <<serve, bound>>
      <3>1. Moved(r, "partial", oc[r].got) BY <2>2, MoveTo DEF OcInv, Places
      <3> QED BY <1>10, <2>2, <3>1, GoOnKeeps DEF SendMessage, Places
    <2>3. CASE Finish(r, "failed", 0)
        BY <1>0, <1>10, <2>3, FinishKeeps DEF SendMessage
    <2> QED BY <1>10, <2>1, <2>2, <2>3 DEF SendMessage
  <1>11. CASE Collect(r)
    <2>1. turn[r].done /\ UNCHANGED <<expired, turn>>
        BY <1>11 DEF Collect, OcInv, Known, OcAt
    <2>2. CASE Finish(r, "done", turn[r].len)
        BY <1>0, <2>1, <2>2, FinishKeeps
    <2>3. CASE Finish(r, "failed", 0)
        BY <1>0, <2>1, <2>3, FinishKeeps
    <2> QED BY <1>11, <2>2, <2>3 DEF Collect
  <1>12. CASE partialMessages(r)
    <2>1. r \in expired /\ UNCHANGED <<expired, turn>>
        BY <1>12 DEF partialMessages, OcInv, Known, OcAt
    <2>2. CASE Finish(r, "timedout", turn[r].len)
        BY <1>0, <2>1, <2>2, FinishKeeps
    <2>3. CASE Finish(r, "timedout", 0)
        BY <1>0, <2>1, <2>3, FinishKeeps
    <2>4. CASE Finish(r, "failed", 0)
        BY <1>0, <2>1, <2>4, FinishKeeps
    <2> QED BY <1>12, <2>2, <2>3, <2>4 DEF partialMessages
  <1>13. CASE RunKilled(r)
    <2>1. Moved(r, "killed", oc[r].got) BY <1>13, MoveTo DEF RunKilled, OcInv, Places, Ended
    <2> QED BY <1>13, <2>1, GoOnKeeps DEF RunKilled, Places, Ended
  <1> QED BY <1>2, <1>3, <1>4, <1>5, <1>6, <1>7, <1>8, <1>9, <1>10, <1>11, <1>12, <1>13
          DEF RunStep

(* The inductive invariant holds of every behaviour, for any number of     *)
(* runs, ports and messages.                                               *)
THEOREM OcInvariance == OcSpec => []OcInv
  BY InitOcInv, NextOcInv, PTL DEF OcSpec

(* What a run reports by its exit code and its transcript is true of its   *)
(* own turn, whatever other run took its port or was stopped (Drive,       *)
(* cmdRun).                                                                *)
THEOREM ReportsAreTrue == OcSpec => []ReportIsTrue
  <1>1. OcInv => ReportIsTrue
      BY DEF OcInv
  <1> QED BY <1>1, OcInvariance, PTL

(* A run that returns has stopped its server and freed every port that one *)
(* held: the deferred stop runs on every way out but a kill (StartServe,   *)
(* realSolveDrive, VerifyLaunch).                                          *)
THEOREM ServersStopped == OcSpec => []NoServerLeft
  <1>1. OcInv => NoServerLeft
      BY RunAssumption DEF OcInv, NoServerLeft, Owned, Holders
  <1> QED BY <1>1, OcInvariance, PTL

-----------------------------------------------------------------------------
(* The stuck detector.                                                     *)

TraceInv == trace \in Seq(StepKinds) /\ stuck = DetectStuck(trace)

(* The last k steps, counted from the end of the trajectory. *)
LEMMA LastOnes ==
    ASSUME NEW steps \in Seq(StepKinds), NEW k \in Nat \ {0}, k <= Len(steps)
    PROVE  /\ DOMAIN LastSteps(steps, k) = 1..k
           /\ \A i \in 1..k : /\ LastSteps(steps, k)[i] = steps[Len(steps) - k + i]
                              /\ LastSteps(steps, k)[i] \in StepKinds
  BY DEF LastSteps

(* There are no more than two things in a pair. *)
LEMMA PairCount ==
    ASSUME NEW a, NEW b, NEW S \in SUBSET {a, b}
    PROVE  /\ Cardinality(S) <= 2
           /\ a # b /\ a \in S /\ b \in S => Cardinality(S) = 2
  <1>1. IsFiniteSet({a}) /\ Cardinality({a}) = 1 BY FS_Singleton
  <1>2. {a} \cup {b} = {a, b} OBVIOUS
  <1>3. /\ IsFiniteSet({a, b})
        /\ Cardinality({a, b}) = IF b \in {a} THEN 1 ELSE 1 + 1
    BY <1>1, <1>2, FS_AddElement
  <1>4. Cardinality(S) <= Cardinality({a, b}) BY <1>3, FS_Subset
  <1>5. IsFiniteSet(S) BY <1>3, FS_Subset
  <1>6. Cardinality(S) \in Nat BY <1>5, FS_CardinalityType
  <1>7. Cardinality(S) <= 2 BY <1>3, <1>4, <1>6
  <1>8. a # b /\ a \in S /\ b \in S => Cardinality(S) = 2
    <2> SUFFICES ASSUME a # b, a \in S, b \in S PROVE Cardinality(S) = 2 OBVIOUS
    <2>1. S = {a, b} OBVIOUS
    <2> QED BY <1>3, <2>1
  <1> QED BY <1>7, <1>8

(* Steps that repeat with period two are two steps over and over. *)
LEMMA PeriodTwo ==
    ASSUME NEW n \in Nat, n >= 2, NEW u, \A i \in 1..n - 2 : u[i] = u[i + 2]
    PROVE  \A i \in 1..n : u[i] = u[IF i % 2 = 1 THEN 1 ELSE 2]
  <1> DEFINE T == {i \in 1..n : u[i] # u[IF i % 2 = 1 THEN 1 ELSE 2]}
  <1> SUFFICES ASSUME T # {} PROVE FALSE OBVIOUS
  <1>1. PICK i \in T : \A y \in T : i <= y
    <2>1. T \subseteq Nat OBVIOUS
    <2> HIDE DEF T
    <2> QED BY <2>1, LeastNat
  <1>2. i \in 1..n /\ i \in Nat OBVIOUS
  <1>3. 1 % 2 = 1 /\ 2 % 2 = 0 OBVIOUS
  <1>4. i # 1 /\ i # 2 BY <1>3
  <1>5. i - 2 \in 1..n /\ i - 2 \in 1..n - 2 /\ (i - 2) + 2 = i /\ ~(i <= i - 2) 
    BY <1>2, <1>4
  <1>6. i - 2 \notin T
    <2> HIDE DEF T
    <2> QED BY <1>1, <1>5
  <1>7. u[i - 2] = u[IF (i - 2) % 2 = 1 THEN 1 ELSE 2] BY <1>5, <1>6
  <1>8. (i - 2) % 2 = i % 2 BY <1>2, <1>4
  <1>9. u[i - 2] = u[i] BY <1>5
  <1> QED BY <1>7, <1>8, <1>9

(* A verdict other than "no" is that of the first pattern found; "no" says *)
(* that there is none.                                                     *)
LEMMA VerdictsFit ==
    ASSUME NEW steps
    PROVE  LET v == DetectStuck(steps)
           IN  /\ v \in {"no", "condensing", "error", "action", "pingpong", "say"}
               /\ v = "error" => RepeatedError(steps)
               /\ v = "action" => RepeatedAction(steps)
               /\ v = "pingpong" => PingPong(steps)
               /\ v = "say" => Monologue(steps)
               /\ v = "no" => /\ ~RepeatedAction(steps) /\ ~PingPong(steps)
                              /\ ~Monologue(steps)
  BY DEF DetectStuck

(* A trajectory that only goes back and forth is never let on. *)
LEMMA SpinnersParked ==
    ASSUME NEW steps \in Seq(StepKinds), DetectStuck(steps) = "no",
           Len(steps) >= 2 * Thresholds.cycles,
           \A i \in 1..2 * Thresholds.cycles - 2 :
               Key(LastSteps(steps, 2 * Thresholds.cycles)[i]) =
               Key(LastSteps(steps, 2 * Thresholds.cycles)[i + 2])
    PROVE  FALSE
  <1> DEFINE n == 2 * Thresholds.cycles
             m == Len(steps)
             L(k, i) == LastSteps(steps, k)[i]
             u == [i \in 1..n |-> Key(L(n, i))]
             a == Thresholds.action
             b == Thresholds.say
             odd(i) == IF i % 2 = 1 THEN 1 ELSE 2
  <1>1. /\ n \in Nat /\ n >= 4 /\ m \in Nat /\ n <= m
        /\ a \in Nat /\ a > 0 /\ a <= n /\ b \in Nat /\ b > 0 /\ b <= n
        /\ Thresholds.cycles >= 2
    BY TraceAssumption
  <1>2. \A i \in 1..n - 2 : Key(L(n, i)) = Key(L(n, i + 2)) OBVIOUS
  <1>3. ~RepeatedAction(steps) /\ ~PingPong(steps) /\ ~Monologue(steps) BY VerdictsFit
  <1>4. PingPong(steps) <=> /\ Thresholds.cycles >= 2 /\ m >= n
                            /\ Key(L(n, 1)) # Key(L(n, 2))
                            /\ \A i \in 1..n : Key(L(n, i)) = Key(L(n, odd(i)))
    BY DEF PingPong
  <1>5. RepeatedAction(steps) <=> /\ a > 0 /\ m >= a /\ L(a, 1).kind # "condense"
                                  /\ \A i \in 1..a : Key(L(a, i)) = Key(L(a, 1))
    BY DEF RepeatedAction
  <1>6. Monologue(steps) <=> /\ b > 0 /\ m >= b /\ \A i \in 1..b : L(b, i).act = Say
    BY DEF Monologue
  <1>7. \A k \in 1..n : \A i \in 1..k : /\ L(k, i) = steps[m - k + i]
                                        /\ L(k, i) \in StepKinds
    <2> SUFFICES ASSUME NEW k \in 1..n
                 PROVE  \A i \in 1..k : L(k, i) = steps[m - k + i] /\ L(k, i) \in StepKinds
      OBVIOUS
    <2>1. k \in Nat \ {0} /\ k <= Len(steps) BY <1>1
    <2> QED BY <2>1, LastOnes
  <1> HIDE DEF n, m, L, a, b
  <1>8. \A i \in 1..n : u[i] = Key(L(n, i)) OBVIOUS
  <1>9. \A i \in 1..n - 2 : u[i] = u[i + 2]
    <2> SUFFICES ASSUME NEW i \in 1..n - 2 PROVE u[i] = u[i + 2] OBVIOUS
    <2>1. i \in 1..n /\ i + 2 \in 1..n BY <1>1
    <2> QED BY <1>2, <1>8, <2>1
  <1> HIDE DEF u
  <1>10. n >= 2 BY <1>1
  <1>11. \A i \in 1..n : u[i] = u[odd(i)] BY <1>1, <1>9, <1>10, PeriodTwo
  <1>12. \A i \in 1..n : odd(i) \in 1..n BY <1>1
  <1>13. \A i \in 1..n : Key(L(n, i)) = Key(L(n, odd(i)))
    <2> HIDE DEF odd
    <2> QED BY <1>8, <1>11, <1>12
  <1>14. Key(L(n, 1)) = Key(L(n, 2)) BY <1>1, <1>3, <1>4, <1>13
  <1>15. \A i \in 1..n : Key(L(n, i)) = Key(L(n, 1))
    <2>1. \A i \in 1..n : odd(i) \in {1, 2} OBVIOUS
    <2> HIDE DEF odd
    <2> QED BY <1>13, <1>14, <2>1
  <1>16. \A k \in 1..n : \A i \in 1..k : Key(L(k, i)) = Key(L(n, 1))
    <2> SUFFICES ASSUME NEW k \in 1..n, NEW i \in 1..k PROVE Key(L(k, i)) = Key(L(n, 1))
      OBVIOUS
    <2>1. n - k + i \in 1..n /\ m - n + (n - k + i) = m - k + i /\ n \in 1..n BY <1>1
    <2>2. L(k, i) = steps[m - k + i] BY <1>7
    <2>3. L(n, n - k + i) = steps[m - n + (n - k + i)] BY <1>7, <2>1
    <2>4. L(n, n - k + i) = L(k, i) BY <2>1, <2>2, <2>3
    <2> QED BY <1>15, <2>1, <2>4
  <1>17. a \in 1..n /\ b \in 1..n /\ 1 \in 1..a /\ m >= a /\ m >= b BY <1>1
  <1>18. L(a, 1).kind = "condense"
    <2>1. \A i \in 1..a : Key(L(a, i)) = Key(L(a, 1)) BY <1>16, <1>17
    <2> QED BY <1>1, <1>3, <1>5, <1>17, <2>1
  <1>19. L(a, 1).act = Say
    <2>1. L(a, 1) \in StepKinds BY <1>7, <1>17
    <2> QED BY <1>18, <2>1, TraceAssumption
  <1>20. \A i \in 1..b : L(b, i).act = Say
    <2>1. \A i \in 1..b : Key(L(b, i)) = Key(L(a, 1)) BY <1>16, <1>17
    <2> QED BY <1>19, <2>1 DEF Key
  <1> QED BY <1>1, <1>3, <1>6, <1>17, <1>20

(* Whatever pattern is found, what the last steps did is what it says. *)
LEMMA TailsOfPatterns ==
    ASSUME NEW steps \in Seq(StepKinds)
    PROVE  LET tail == LastSteps(steps, Thresholds.error)
           IN  /\ RepeatedError(steps) \/ RepeatedAction(steps) \/ PingPong(steps) =>
                      Cardinality({tail[i].act : i \in DOMAIN tail}) <= 2
               /\ Monologue(steps) => \A i \in DOMAIN tail : tail[i].act = Say
  <1> DEFINE e == Thresholds.error
             m == Len(steps)
             L(k, i) == LastSteps(steps, k)[i]
             tail == LastSteps(steps, e)
             acts == {tail[i].act : i \in DOMAIN tail}
             k1 == Thresholds.action
             k2 == 2 * Thresholds.cycles
             k3 == Thresholds.say
             odd(i) == IF i % 2 = 1 THEN 1 ELSE 2
  <1>1. /\ e \in Nat \ {0} /\ m \in Nat
        /\ k1 \in Nat \ {0} /\ e <= k1 /\ k2 \in Nat \ {0} /\ e <= k2
        /\ k3 \in Nat \ {0} /\ e <= k3
    BY TraceAssumption
  <1>2. RepeatedError(steps) => m >= e /\ \A i \in 1..e : tail[i].act = tail[1].act
    BY DEF RepeatedError
  <1>3. RepeatedAction(steps) => m >= k1 /\ \A i \in 1..k1 : L(k1, i).act = L(k1, 1).act
    BY DEF RepeatedAction, Key
  <1>4. PingPong(steps) => /\ m >= k2
                           /\ \A i \in 1..k2 : L(k2, i).act = L(k2, odd(i)).act
    BY DEF PingPong, Key
  <1>5. Monologue(steps) => m >= k3 /\ \A i \in 1..k3 : L(k3, i).act = Say
    BY DEF Monologue
  <1>6. \A k \in Nat \ {0} : k <= m => \A i \in 1..k : L(k, i) = steps[m - k + i]
    BY LastOnes
  <1>7. e <= m => DOMAIN tail = 1..e BY <1>1, LastOnes
  <1>8. \A i : tail[i] = L(e, i) OBVIOUS
  <1> HIDE DEF e, m, L, k1, k2, k3, tail
  (* The tail is the end of any longer one. *)
  <1>9. \A k \in Nat \ {0} : e <= k /\ k <= m =>
            \A i \in DOMAIN tail : \E j \in 1..k : tail[i] = L(k, j)
    <2> SUFFICES ASSUME NEW k \in Nat \ {0}, e <= k, k <= m, NEW i \in DOMAIN tail
                 PROVE  \E j \in 1..k : tail[i] = L(k, j)
      OBVIOUS
    <2>1. e <= m /\ i \in 1..e BY <1>1, <1>7
    <2>2. k - e + i \in 1..k /\ m - k + (k - e + i) = m - e + i BY <1>1, <2>1
    <2>3. tail[i] = steps[m - e + i] BY <1>1, <1>6, <1>8, <2>1
    <2>4. L(k, k - e + i) = steps[m - k + (k - e + i)] BY <1>6, <2>2
    <2> QED BY <2>2, <2>3, <2>4
  <1>10. ASSUME NEW x, NEW y, \A i \in DOMAIN tail : tail[i].act \in {x, y}
         PROVE  Cardinality(acts) <= 2
    <2>1. acts \in SUBSET {x, y} BY <1>10
    <2> HIDE DEF acts
    <2> QED BY <2>1, PairCount
  <1>11. RepeatedError(steps) => Cardinality(acts) <= 2
    <2> SUFFICES ASSUME RepeatedError(steps) PROVE Cardinality(acts) <= 2 OBVIOUS
    <2>1. \A i \in DOMAIN tail : tail[i].act \in {tail[1].act, tail[1].act}
      BY <1>1, <1>2, <1>7
    <2> HIDE DEF acts
    <2> QED BY <1>10, <2>1
  <1>12. RepeatedAction(steps) => Cardinality(acts) <= 2
    <2> SUFFICES ASSUME RepeatedAction(steps) PROVE Cardinality(acts) <= 2 OBVIOUS
    <2>1. \A i \in DOMAIN tail : \E j \in 1..k1 : tail[i] = L(k1, j) BY <1>1, <1>3, <1>9
    <2>2. \A i \in DOMAIN tail : tail[i].act \in {L(k1, 1).act, L(k1, 1).act}
      BY <1>3, <2>1
    <2> HIDE DEF acts
    <2> QED BY <1>10, <2>2
  <1>13. PingPong(steps) => Cardinality(acts) <= 2
    <2> SUFFICES ASSUME PingPong(steps) PROVE Cardinality(acts) <= 2 OBVIOUS
    <2>1. \A i \in DOMAIN tail : \E j \in 1..k2 : tail[i] = L(k2, j) BY <1>1, <1>4, <1>9
    <2>2. \A j \in 1..k2 : odd(j) \in {1, 2} OBVIOUS
    <2> HIDE DEF acts, odd
    <2>3. \A i \in DOMAIN tail : tail[i].act \in {L(k2, 1).act, L(k2, 2).act}
      BY <1>4, <2>1, <2>2
    <2> QED BY <1>10, <2>3
  <1>14. Monologue(steps) => \A i \in DOMAIN tail : tail[i].act = Say
    <2> SUFFICES ASSUME Monologue(steps), NEW i \in DOMAIN tail PROVE tail[i].act = Say
      OBVIOUS
    <2>1. \E j \in 1..k3 : tail[i] = L(k3, j) BY <1>1, <1>5, <1>9
    <2> QED BY <1>5, <2>1
  <1> QED BY <1>11, <1>12, <1>13, <1>14 DEF tail, e

(* A ping-pong is of two. *)
LEMMA PingPongOfTwo ==
    ASSUME NEW steps \in Seq(StepKinds), PingPong(steps)
    PROVE  LET last == LastSteps(steps, 2 * Thresholds.cycles)
           IN  Cardinality({Key(last[i]) : i \in DOMAIN last}) = 2
  <1> DEFINE n == 2 * Thresholds.cycles
             last == LastSteps(steps, n)
             x == Key(last[1])
             y == Key(last[2])
             S == {Key(last[i]) : i \in DOMAIN last}
  <1>1. n \in Nat \ {0} /\ 1 \in 1..n /\ 2 \in 1..n BY TraceAssumption
  <1>2. n <= Len(steps) /\ x # y /\ \A i \in 1..n : Key(last[i]) \in {x, y}
    BY <1>1 DEF PingPong
  <1>3. DOMAIN last = 1..n BY <1>1, <1>2, LastOnes
  <1>4. S \in SUBSET {x, y} /\ x \in S /\ y \in S BY <1>1, <1>2, <1>3
  <1> HIDE DEF S, x, y
  <1> QED BY <1>2, <1>4, PairCount DEF S

(* The verdict is DetectStuck's of the trajectory so far. *)
THEOREM TraceInvariance == TraceSpec => []TraceInv
  <1>1. TraceInit => TraceInv
    <2> SUFFICES ASSUME TraceInit PROVE TraceInv OBVIOUS
    <2>1. trace = <<>> /\ stuck = "no" /\ Len(trace) = 0 /\ DOMAIN trace = {}
      BY DEF TraceInit
    <2>2. {i \in DOMAIN trace : trace[i].kind = "condense"} = {} BY <2>1
    <2>3. ~Condensing(trace)
      <3>1. Cardinality({i \in DOMAIN trace : trace[i].kind = "condense"}) = 0
        BY <2>2, FS_EmptySet
      <3> QED BY <3>1, TraceAssumption DEF Condensing
    <2>4. /\ ~RepeatedError(trace) /\ ~RepeatedAction(trace) /\ ~PingPong(trace)
          /\ ~Monologue(trace)
      BY <2>1, TraceAssumption DEF RepeatedError, RepeatedAction, PingPong, Monologue
    <2> QED BY <2>1, <2>3, <2>4 DEF TraceInv, DetectStuck
  <1>2. TraceInv /\ [TraceNext]_traceVars => TraceInv'
    <2> SUFFICES ASSUME TraceInv, [TraceNext]_traceVars PROVE TraceInv' OBVIOUS
    <2>1. ASSUME NEW n \in 1..2, NEW new \in [1..n -> StepKinds], DriveSteps(new)
          PROVE  TraceInv'
      <3>1. new \in Seq(StepKinds) OBVIOUS
      <3>2. trace' = trace \o new /\ stuck' = DetectStuck(trace') BY <2>1 DEF DriveSteps
      <3>3. trace' \in Seq(StepKinds) BY <3>1, <3>2 DEF TraceInv
      <3> QED BY <3>2, <3>3 DEF TraceInv
    <2>2. CASE UNCHANGED traceVars BY <2>2 DEF traceVars, TraceInv
    <2> QED BY <2>1, <2>2 DEF TraceNext
  <1> QED BY <1>1, <1>2, PTL DEF TraceSpec

(* Whatever an agent does, and for any thresholds graded as the code's     *)
(* own, one that only repeats itself is parked and one that is parked for  *)
(* its last steps did at most two things in them.                          *)
THEOREM SpinnersOnly == TraceSpec => []ParksSpinnersOnly
  <1>1. TraceInv => ParksSpinnersOnly
    <2> SUFFICES ASSUME TraceInv PROVE ParksSpinnersOnly OBVIOUS
    <2> DEFINE n == 2 * Thresholds.cycles
               last == LastSteps(trace, n)
               tail == LastSteps(trace, Thresholds.error)
    <2>1. trace \in Seq(StepKinds) /\ stuck = DetectStuck(trace) BY DEF TraceInv
    <2>2. /\ stuck \in {"no", "condensing", "error", "action", "pingpong", "say"}
          /\ stuck = "error" => RepeatedError(trace)
          /\ stuck = "action" => RepeatedAction(trace)
          /\ stuck = "pingpong" => PingPong(trace)
          /\ stuck = "say" => Monologue(trace)
      BY <2>1, VerdictsFit
    <2>3. Len(trace) >= n /\ (\A i \in 1..n - 2 : Key(last[i]) = Key(last[i + 2])) =>
              stuck # "no"
      BY <2>1, SpinnersParked
    <2>4. /\ RepeatedError(trace) \/ RepeatedAction(trace) \/ PingPong(trace) =>
                 Cardinality({tail[i].act : i \in DOMAIN tail}) <= 2
          /\ Monologue(trace) => \A i \in DOMAIN tail : tail[i].act = Say
      BY <2>1, TailsOfPatterns
    <2>5. stuck = "pingpong" => Cardinality({Key(last[i]) : i \in DOMAIN last}) = 2
      BY <2>1, <2>2, PingPongOfTwo
    <2> QED BY <2>2, <2>3, <2>4, <2>5 DEF ParksSpinnersOnly
  <1> QED BY <1>1, TraceInvariance, PTL

-----------------------------------------------------------------------------
(* The plugin.  That what is shown depends on the calls alone is inductive *)
(* once it is known that the hook, run over what it has left behind and    *)
(* something new, makes of it what it makes of what was recorded.          *)

RecordedCall == [key : CallKeys, obs : Outputs]
ShownCall == [key : CallKeys, obs : Outputs \cup {"superseded", "elided"}]

PluginInv == /\ recorded \in Seq(RecordedCall)
             /\ Len(shown) \in Nat /\ Len(shown) <= Len(recorded)
             /\ shown = Pruned(Seen)

(* A function on 1..n is a sequence of length n. *)
LEMMA FunctionIsSeq ==
    ASSUME NEW S, NEW n \in Nat, NEW f \in [1..n -> S]
    PROVE  f \in Seq(S) /\ Len(f) = n /\ DOMAIN f = 1..n
  OBVIOUS

(* What the hook makes of each observation. *)
MarkOf(s, i) == IF Superseded(s, i) THEN "superseded"
                ELSE IF Elided(s, i) THEN "elided" ELSE s[i].obs

LEMMA PrunedIs ==
    ASSUME NEW s \in Seq(ShownCall)
    PROVE  /\ Pruned(s) \in Seq(ShownCall) /\ Len(Pruned(s)) = Len(s)
           /\ Pruned(s) = [i \in 1..Len(s) |-> [key |-> s[i].key, obs |-> MarkOf(s, i)]]
           /\ \A i \in 1..Len(s) : /\ Pruned(s)[i].key = s[i].key
                                   /\ Pruned(s)[i].obs = MarkOf(s, i)
  <1> DEFINE f == [i \in 1..Len(s) |-> [key |-> s[i].key, obs |-> MarkOf(s, i)]]
  <1>1. Mark.superseded = "superseded" /\ Mark.elided = "elided" BY DEF Mark
  <1>2. DOMAIN s = 1..Len(s) /\ Len(s) \in Nat /\ Pruned(s) = f
    BY <1>1 DEF Pruned, MarkOf
  <1>3. \A i \in 1..Len(s) : s[i] \in ShownCall OBVIOUS
  <1>4. \A i \in 1..Len(s) :
           s[i].key \in CallKeys /\ MarkOf(s, i) \in Outputs \cup {"superseded", "elided"}
    BY <1>3 DEF ShownCall, MarkOf
  <1>5. f \in [1..Len(s) -> ShownCall]
    <2> SUFFICES ASSUME NEW i \in 1..Len(s)
                 PROVE  [key |-> s[i].key, obs |-> MarkOf(s, i)] \in ShownCall
      OBVIOUS
    <2> QED BY <1>4 DEF ShownCall
  <1>6. \A i \in 1..Len(s) : f[i].key = s[i].key /\ f[i].obs = MarkOf(s, i) OBVIOUS
  <1> HIDE DEF f
  <1>7. f \in Seq(ShownCall) /\ Len(f) = Len(s) BY <1>2, <1>5, FunctionIsSeq
  <1> QED BY <1>2, <1>6, <1>7 DEF f

(* Two sequences, one after the other. *)
LEMMA Joined ==
    ASSUME NEW S, NEW a \in Seq(S), NEW b \in Seq(S)
    PROVE  /\ a \o b \in Seq(S) /\ Len(a \o b) = Len(a) + Len(b)
           /\ \A i \in 1..Len(a) : (a \o b)[i] = a[i]
           /\ \A i \in Len(a) + 1..Len(a) + Len(b) : (a \o b)[i] = b[i - Len(a)]
  OBVIOUS

(* Of two sequences of calls with the same keys, of which the second has   *)
(* the marks of an earlier run in its first n places, the hook makes the   *)
(* same: a call once superseded stays so, an observation once in the       *)
(* middle stays there, and a mark is no text.                              *)
LEMMA SameMarks ==
    ASSUME NEW s \in Seq(ShownCall), NEW u \in Seq(ShownCall), NEW v \in Seq(ShownCall),
           Len(s) <= Len(u), Len(v) = Len(u),
           \A i \in 1..Len(s) : u[i] = s[i] /\ v[i].key = s[i].key /\ v[i].obs = MarkOf(s, i),
           \A i \in Len(s) + 1..Len(u) : u[i] = v[i],
           NEW i \in 1..Len(u)
    PROVE  u[i].key = v[i].key /\ MarkOf(u, i) = MarkOf(v, i)
  <1> DEFINE n == Len(s)
             m == Len(u)
  <1>1. n \in Nat /\ m \in Nat /\ n <= m /\ Len(v) = m OBVIOUS
  <1>2. \A j \in 1..m : u[j].key = v[j].key
    <2> SUFFICES ASSUME NEW j \in 1..m PROVE u[j].key = v[j].key OBVIOUS
    <2>1. j \in 1..n \/ j \in n + 1..m BY <1>1
    <2> QED BY <2>1
  <1>3. Superseded(u, i) <=> Superseded(v, i)
    <2>1. \A j \in i + 1..m : j \in 1..m BY <1>1
    <2> QED BY <1>1, <1>2, <2>1 DEF Superseded
  <1>4. CASE Superseded(u, i) BY <1>2, <1>3, <1>4 DEF MarkOf
  <1>5. CASE ~Superseded(u, i) /\ i \in n + 1..m
    <2>1. u[i] = v[i] BY <1>5
    <2>2. Elided(u, i) <=> Elided(v, i) BY <1>1, <2>1 DEF Elided
    <2> QED BY <1>3, <1>5, <2>1, <2>2 DEF MarkOf
  <1>6. CASE ~Superseded(u, i) /\ i \in 1..n
    <2>1. u[i] = s[i] /\ v[i].obs = MarkOf(s, i) BY <1>6
    <2>2. ~Superseded(s, i)
      <3>1. ASSUME NEW j \in i + 1..n, s[j].key = s[i].key PROVE FALSE
        <4>1. j \in i + 1..m /\ j \in 1..n BY <1>1, <1>6
        <4>2. u[j].key = u[i].key BY <2>1, <3>1, <4>1
        <4> QED BY <1>6, <4>1, <4>2 DEF Superseded
      <3> QED BY <3>1 DEF Superseded
    <2>3. CASE Elided(s, i)
      <3>1. Elided(u, i) BY <1>1, <2>1, <2>3, PluginAssumption DEF Elided
      <3>2. v[i].obs = "elided" BY <2>1, <2>2, <2>3 DEF MarkOf
      <3>3. ~Elided(v, i) BY <3>2 DEF Elided, Legible, Mark
      <3> QED BY <1>2, <1>3, <1>6, <3>1, <3>2, <3>3 DEF MarkOf
    <2>4. CASE ~Elided(s, i)
      <3>1. v[i].obs = u[i].obs BY <2>1, <2>2, <2>4 DEF MarkOf
      <3>2. Elided(u, i) <=> Elided(v, i) BY <1>1, <3>1 DEF Elided
      <3> QED BY <1>2, <1>3, <1>6, <3>1, <3>2 DEF MarkOf
    <2> QED BY <2>3, <2>4
  <1> QED BY <1>1, <1>2, <1>4, <1>5, <1>6

(* Run over its own marks and over something new, the hook makes the same  *)
(* of them as of what was recorded.                                        *)
LEMMA PrunedAgain ==
    ASSUME NEW s \in Seq(ShownCall), NEW t \in Seq(ShownCall)
    PROVE  Pruned(Pruned(s) \o t) = Pruned(s \o t)
  <1> DEFINE p == Pruned(s)
             u == s \o t
             v == p \o t
             n == Len(s)
             m == Len(s) + Len(t)
  <1>1. /\ p \in Seq(ShownCall) /\ Len(p) = n
        /\ \A i \in 1..n : p[i].key = s[i].key /\ p[i].obs = MarkOf(s, i)
    BY PrunedIs
  <1> HIDE DEF p
  <1>2. n \in Nat /\ m \in Nat /\ Len(t) \in Nat /\ n <= m OBVIOUS
  <1>3. /\ u \in Seq(ShownCall) /\ Len(u) = m
        /\ \A i \in 1..n : u[i] = s[i]
        /\ \A i \in n + 1..m : u[i] = t[i - n]
    BY Joined
  <1>4. /\ v \in Seq(ShownCall) /\ Len(v) = m
        /\ \A i \in 1..n : v[i] = p[i]
        /\ \A i \in n + 1..m : v[i] = t[i - n]
    <2>1. /\ v \in Seq(ShownCall) /\ Len(v) = Len(p) + Len(t)
          /\ \A i \in 1..Len(p) : v[i] = p[i]
          /\ \A i \in Len(p) + 1..Len(p) + Len(t) : v[i] = t[i - Len(p)]
      <3>1. p \in Seq(ShownCall) /\ t \in Seq(ShownCall) BY <1>1
      <3> QED BY <3>1, Joined, Zenon
    <2> HIDE DEF v
    <2> QED BY <1>1, <2>1
  <1> HIDE DEF u, v, n, m
  <1>5. \A i \in 1..m : u[i].key = v[i].key /\ MarkOf(u, i) = MarkOf(v, i)
    <2>1. \A i \in 1..Len(s) : u[i] = s[i] /\ v[i].key = s[i].key /\ v[i].obs = MarkOf(s, i)
      BY <1>1, <1>3, <1>4 DEF n
    <2>2. \A i \in Len(s) + 1..Len(u) : u[i] = v[i] BY <1>3, <1>4 DEF n
    <2>3. Len(s) <= Len(u) /\ Len(v) = Len(u) BY <1>2, <1>3, <1>4 DEF n
    <2>4. u \in Seq(ShownCall) /\ v \in Seq(ShownCall) /\ Len(u) = m BY <1>3, <1>4
    <2> SUFFICES ASSUME NEW i \in 1..Len(u)
                 PROVE  u[i].key = v[i].key /\ MarkOf(u, i) = MarkOf(v, i)
      BY <2>4
    <2> QED BY <2>1, <2>2, <2>3, <2>4, SameMarks, Zenon
  <1>6. /\ Pruned(u) = [i \in 1..m |-> [key |-> u[i].key, obs |-> MarkOf(u, i)]]
        /\ Pruned(v) = [i \in 1..m |-> [key |-> v[i].key, obs |-> MarkOf(v, i)]]
    BY <1>3, <1>4, PrunedIs
  <1>7. Pruned(u) = Pruned(v) BY <1>5, <1>6
  <1> QED BY <1>7 DEF u, v, p

(* A sequence cut in two is its first part and its second. *)
LEMMA CutInTwo ==
    ASSUME NEW S, NEW s \in Seq(S), NEW k \in Nat, k <= Len(s)
    PROVE  /\ SubSeq(s, 1, k) \in Seq(S) /\ Len(SubSeq(s, 1, k)) = k
           /\ SubSeq(s, k + 1, Len(s)) \in Seq(S)
           /\ SubSeq(s, 1, k) \o SubSeq(s, k + 1, Len(s)) = s
  <1> DEFINE a == SubSeq(s, 1, k)
             b == SubSeq(s, k + 1, Len(s))
             n == Len(s)
             c == a \o b
  <1>0. n \in Nat /\ k \in 0..n OBVIOUS
  <1>1. a \in Seq(S) /\ Len(a) = k /\ \A i \in 1..k : a[i] = s[i] OBVIOUS
  <1>2. b \in Seq(S) /\ Len(b) = n - k /\ \A i \in 1..n - k : b[i] = s[k + i] OBVIOUS
  <1>3. c = a \o b OBVIOUS
  <1> HIDE DEF a, b, n, c
  <1>4. /\ c \in Seq(S) /\ Len(c) = n
        /\ \A i \in 1..k : c[i] = a[i]
        /\ \A i \in k + 1..n : c[i] = b[i - k]
    <2>1. /\ c \in Seq(S) /\ Len(c) = Len(a) + Len(b)
          /\ \A i \in 1..Len(a) : c[i] = a[i]
          /\ \A i \in Len(a) + 1..Len(a) + Len(b) : c[i] = b[i - Len(a)]
      BY <1>1, <1>2, Joined DEF c
    <2>2. Len(a) = k /\ Len(a) + Len(b) = n BY <1>0, <1>1, <1>2
    <2>3. \A i \in 1..k : c[i] = a[i] BY <2>1, <2>2
    <2>4. \A i \in k + 1..n : c[i] = b[i - k] BY <2>1, <2>2
    <2> QED BY <2>1, <2>2, <2>3, <2>4
  <1>5. \A i \in 1..n : c[i] = s[i]
    <2> SUFFICES ASSUME NEW i \in 1..n PROVE c[i] = s[i] OBVIOUS
    <2>1. CASE i \in 1..k BY <1>1, <1>4, <2>1
    <2>2. CASE i \in k + 1..n
      <3>1. i - k \in 1..n - k /\ k + (i - k) = i BY <1>0, <2>2
      <3> QED BY <1>2, <1>4, <2>2, <3>1
    <2> QED BY <1>0, <2>1, <2>2
  <1>6. s = [i \in 1..n |-> s[i]] /\ c = [i \in 1..n |-> c[i]] BY <1>0, <1>4 DEF n
  <1>7. c = s BY <1>5, <1>6
  <1> QED BY <1>1, <1>2, <1>3, <1>7 DEF a, b, n

(* What is shown is the hook's of what was recorded. *)
THEOREM PluginInvariance == PluginSpec => []PluginInv
  <1>0. RecordedCall \subseteq ShownCall BY DEF RecordedCall, ShownCall
  <1>1. PluginInit => PluginInv
    <2> SUFFICES ASSUME PluginInit PROVE PluginInv OBVIOUS
    <2>1. recorded = <<>> /\ shown = <<>> /\ Seen = <<>> BY DEF PluginInit, Seen
    <2>2. Pruned(<<>>) = <<>> BY DEF Pruned
    <2> QED BY <2>1, <2>2 DEF PluginInv
  <1>2. PluginInv /\ [PluginNext]_pluginVars => PluginInv'
    <2> SUFFICES ASSUME PluginInv, [PluginNext]_pluginVars PROVE PluginInv' OBVIOUS
    <2>0. recorded \in Seq(RecordedCall) /\ recorded \in Seq(ShownCall)
      BY <1>0 DEF PluginInv
    <2>1. ASSUME NEW key \in CallKeys, NEW obs \in Outputs, CallTool(key, obs) PROVE PluginInv'
      <3> DEFINE e == [key |-> key, obs |-> obs]
      <3>1. e \in RecordedCall BY DEF RecordedCall
      <3>2. recorded' = Append(recorded, e) /\ UNCHANGED shown BY <2>1 DEF CallTool
      <3> HIDE DEF e
      <3>3. recorded' \in Seq(RecordedCall) /\ Len(recorded') = Len(recorded) + 1
        BY <2>0, <3>1, <3>2
      <3>4. Seen' = Seen BY <2>0, <3>1, <3>2 DEF PluginInv, Seen
      <3>5. Len(shown') \in Nat /\ Len(shown') <= Len(recorded') BY <2>0, <3>2, <3>3 DEF PluginInv
      <3>6. Pruned(Seen)' = Pruned(Seen') OBVIOUS
      <3> QED BY <3>2, <3>3, <3>4, <3>5 DEF PluginInv
    <2>2. CASE Transform
      <3>1. PICK older \in {shown, Seen} : shown' = Pruned(older \o Unseen)
        BY <2>2 DEF Transform
      <3>2. UNCHANGED recorded BY <2>2 DEF Transform
      <3>3. /\ Seen \in Seq(ShownCall) /\ Unseen \in Seq(ShownCall)
            /\ Seen \o Unseen = recorded
        BY <2>0, CutInTwo DEF PluginInv, Seen, Unseen
      <3>4. Pruned(shown \o Unseen) = Pruned(Seen \o Unseen)
        <4>1. Seen \in Seq(ShownCall) /\ Unseen \in Seq(ShownCall) /\ shown = Pruned(Seen)
          BY <3>3 DEF PluginInv
        <4>2. Pruned(Pruned(Seen) \o Unseen) = Pruned(Seen \o Unseen) BY <4>1, PrunedAgain
        <4> QED BY <4>1, <4>2
      <3>5. shown' = Pruned(recorded) BY <3>1, <3>3, <3>4
      <3>6. Len(shown') = Len(recorded) BY <2>0, <3>5, PrunedIs
      <3>7. Seen' = recorded
        <4>1. Seen' = SubSeq(recorded, 1, Len(recorded)) BY <3>2, <3>6 DEF Seen
        <4> QED BY <2>0, <4>1
      <3> QED BY <2>0, <3>2, <3>5, <3>6, <3>7 DEF PluginInv
    <2>3. CASE UNCHANGED pluginVars BY <2>3 DEF pluginVars, PluginInv, Seen
    <2> QED BY <2>1, <2>2, <2>3 DEF PluginNext
  <1> QED BY <1>1, <1>2, PTL DEF PluginSpec

(* Pruning is deterministic for sessions of any length: however often the  *)
(* hook ran and whatever became of its marks, the model is shown what the  *)
(* recorded calls determine, and no more to read than is to be kept.       *)
THEOREM PrunesTheSame == PluginSpec => []PruningIsDeterministic
  <1>1. PluginInv => PruningIsDeterministic
    <2> SUFFICES ASSUME PluginInv PROVE PruningIsDeterministic OBVIOUS
    <2> DEFINE n == Len(shown)
               seen == {i \in DOMAIN shown : Legible(shown[i].obs)}
    <2>1. Seen \in Seq(ShownCall) /\ Len(Seen) = n
      <3>1. RecordedCall \subseteq ShownCall BY DEF RecordedCall, ShownCall
      <3>2. recorded \in Seq(ShownCall) BY <3>1 DEF PluginInv
      <3>3. n \in Nat /\ n <= Len(recorded) /\ Seen = SubSeq(recorded, 1, n)
        BY DEF PluginInv, Seen
      <3> HIDE DEF n
      <3> QED BY <3>2, <3>3, CutInTwo
    <2>2. /\ DOMAIN shown = 1..n
          /\ \A i \in 1..n :
                shown[i].obs = IF Superseded(Seen, i) THEN "superseded"
                               ELSE IF Elided(Seen, i) THEN "elided" ELSE Seen[i].obs
      <3>1. shown = Pruned(Seen) BY DEF PluginInv
      <3>2. /\ shown = [i \in 1..n |-> [key |-> Seen[i].key, obs |-> MarkOf(Seen, i)]]
            /\ \A i \in 1..n : shown[i].obs = MarkOf(Seen, i)
        <4> HIDE DEF n
        <4> QED BY <2>1, <3>1, PrunedIs
      <3> QED BY <3>2 DEF MarkOf
    <2>3. n \in Nat /\ KeepFirst \in Nat /\ KeepRecent \in Nat
      BY PluginAssumption DEF PluginInv
    <2>4. seen \in SUBSET (1..n) BY <2>2
    <2>5. ~Legible("superseded") /\ ~Legible("elided") BY DEF Legible, Mark
    <2>6. n > KeepFirst + KeepRecent =>
             seen \in SUBSET ((1..KeepFirst) \cup (n - KeepRecent + 1..n))
      <3> SUFFICES ASSUME n > KeepFirst + KeepRecent, NEW i \in seen
                   PROVE  i \in (1..KeepFirst) \cup (n - KeepRecent + 1..n)
        OBVIOUS
      <3>1. i \in 1..n /\ Legible(shown[i].obs) BY <2>2
      <3>2. ~Superseded(Seen, i) /\ ~Elided(Seen, i) BY <2>2, <2>5, <3>1
      <3>3. Legible(Seen[i].obs) BY <2>2, <3>1, <3>2
      <3>4. ~(i > KeepFirst /\ i <= n - KeepRecent) BY <2>1, <3>2, <3>3 DEF Elided
      <3> QED BY <2>3, <3>1, <3>4
    <2> HIDE DEF n, seen
    <2>7. Cardinality(seen) <= KeepFirst + KeepRecent
      <3>1. CASE n <= KeepFirst + KeepRecent
        <4>2. IsFiniteSet(1..n) /\ Cardinality(1..n) = n
          <5>1. 1 \in Int /\ n \in Int BY <2>3
          <5>2. IsFiniteSet(1..n) /\ Cardinality(1..n) = IF 1 > n THEN 0 ELSE n - 1 + 1
            BY <5>1, FS_Interval
          <5> QED BY <2>3, <5>2
        <4>3. IsFiniteSet(seen) /\ Cardinality(seen) <= n BY <2>4, <4>2, FS_Subset
        <4>4. Cardinality(seen) \in Nat BY <4>3, FS_CardinalityType
        <4> QED BY <2>3, <3>1, <4>3, <4>4
      <3>2. CASE n > KeepFirst + KeepRecent
        <4> DEFINE A == 1..KeepFirst
                   B == n - KeepRecent + 1..n
        <4>1. seen \in SUBSET (A \cup B) BY <2>6, <3>2
        <4>2. IsFiniteSet(A) /\ Cardinality(A) = KeepFirst BY <2>3, FS_Interval
        <4>3. IsFiniteSet(B) /\ Cardinality(B) = KeepRecent
          <5>1. n - KeepRecent + 1 \in Int /\ n \in Int BY <2>3
          <5>2. /\ IsFiniteSet(B)
                /\ Cardinality(B) = IF n - KeepRecent + 1 > n THEN 0
                                    ELSE n - (n - KeepRecent + 1) + 1
            BY <5>1, FS_Interval
          <5> HIDE DEF B
          <5> QED BY <2>3, <5>2
        <4> HIDE DEF A, B
        <4>4. /\ IsFiniteSet(A \cup B)
              /\ Cardinality(A \cup B) = Cardinality(A) + Cardinality(B) - Cardinality(A \cap B)
          BY <4>2, <4>3, FS_Union
        <4>5. IsFiniteSet(A \cap B) BY <4>2, FS_Intersection
        <4>6. Cardinality(A \cap B) \in Nat BY <4>5, FS_CardinalityType
        <4>7. IsFiniteSet(seen) /\ Cardinality(seen) <= Cardinality(A \cup B)
          BY <4>1, <4>4, FS_Subset
        <4>8. Cardinality(seen) \in Nat BY <4>7, FS_CardinalityType
        <4> QED BY <2>3, <4>2, <4>3, <4>4, <4>6, <4>7, <4>8
      <3> QED BY <2>3, <3>1, <3>2
    <2> QED BY <2>7 DEF PruningIsDeterministic, PluginInv, seen
  <1> QED BY <1>1, PluginInvariance, PTL

-----------------------------------------------------------------------------
(* The working memory, for any keys and caps.  That it keeps the newest is *)
(* not inductive: an entry is evicted by its number, which the property    *)
(* does not speak of, and what is read back was written some time ago.     *)
(* MemInv adds that numbers go by age, in memory and in the file.          *)

MemEntry == [kind : Kinds, key : MemKeys, seq : Nat]

(* The numbers of the entries of a kind go by when they were emitted. *)
ByAge(es, kind, when) ==
    /\ \A k, m \in MemKeys : when[k] = when[m] /\ when[k] > 0 => k = m
    /\ \A i \in Held(es, kind) : when[es[i].key] > 0
    /\ \A i, j \in Held(es, kind) : es[i].key = es[j].key => i = j
    /\ \A i, j \in Held(es, kind) :
           es[i].seq < es[j].seq <=> when[es[i].key] < when[es[j].key]

KeysOf(es, kind) == {es[i].key : i \in Held(es, kind)}

(* What of the keys K stays under a cap. *)
Staying(K, when, cap) == {k \in K : Cardinality({m \in K : when[m] > when[k]}) < cap}

Mirrors(es, when, n) ==
    /\ es \in Seq(MemEntry) /\ when \in [Kinds -> [MemKeys -> Nat]]
    /\ \A i \in DOMAIN es : es[i].seq <= n
    /\ \A kind \in Kinds : \A key \in MemKeys : when[kind][key] <= n
    /\ \A kind \in Kinds : /\ ByAge(es, kind, when[kind])
                           /\ KeysOf(es, kind) = Newest(when[kind], Caps[kind])

MemInv ==
    /\ emits \in Nat /\ seqNo \in Nat /\ seqNo <= emits
    /\ Mirrors(entries, stamps, emits)
    /\ \A i \in DOMAIN entries : entries[i].seq <= seqNo
    /\ file.whole => Mirrors(file.entries, kept, emits)

-----------------------------------------------------------------------------
(* What is picked from a sequence: every element at a position in S, once. *)
LEMMA Picked ==
    ASSUME NEW X, NEW s \in Seq(X), NEW S \in SUBSET DOMAIN s, NEW t, t = ElementsAt(s, S)
    PROVE  /\ t \in Seq(X)
           /\ \E p \in [DOMAIN t -> S] :
                 /\ \A i \in DOMAIN t : t[i] = s[p[i]]
                 /\ \A i, j \in DOMAIN t : p[i] = p[j] => i = j
                 /\ \A x \in S : \E i \in DOMAIN t : p[i] = x
  <1> DEFINE q == Ascending(S)
             n == Cardinality(S)
  <1>1. S \in SUBSET (1..Len(s)) /\ Len(s) \in Nat OBVIOUS
  <1>2. /\ n \in Nat /\ q \in [1..n -> S]
        /\ \A x \in S : \E i \in 1..n : q[i] = x
        /\ \A i, j \in 1..n : i < j => q[i] < q[j]
    BY <1>1, Listing
  <1>3. t = [i \in 1..n |-> s[q[i]]] BY <1>2 DEF ElementsAt
  <1>4. \A i \in 1..n : s[q[i]] \in X BY <1>2
  <1>5. t \in Seq(X) /\ DOMAIN t = 1..n
    <2> HIDE DEF q, n
    <2>1. t \in [1..n -> X] BY <1>3, <1>4
    <2> QED BY <1>2, <2>1
  <1>6. \A i, j \in 1..n : q[i] = q[j] => i = j
    <2> SUFFICES ASSUME NEW i \in 1..n, NEW j \in 1..n, q[i] = q[j], i # j PROVE FALSE OBVIOUS
    <2>1. i < j \/ j < i BY <1>2
    <2>2. q[i] \in Nat /\ q[j] \in Nat BY <1>1, <1>2
    <2> HIDE DEF q, n
    <2> QED BY <1>2, <2>1, <2>2
  <1>7. \A i \in DOMAIN t : t[i] = s[q[i]] BY <1>3, <1>5
  <1>8. q \in [DOMAIN t -> S] /\ \A x \in S : \E i \in DOMAIN t : q[i] = x BY <1>2, <1>5
  <1>9. \A i, j \in DOMAIN t : q[i] = q[j] => i = j BY <1>5, <1>6
  <1> HIDE DEF q, n
  <1>10. \E p \in [DOMAIN t -> S] :
            /\ \A i \in DOMAIN t : t[i] = s[p[i]]
            /\ \A i, j \in DOMAIN t : p[i] = p[j] => i = j
            /\ \A x \in S : \E i \in DOMAIN t : p[i] = x
    BY <1>7, <1>8, <1>9
  <1> QED BY <1>5, <1>10

(* A key emitted later than one of the newest is one of the newest. *)
LEMMA NewestIsUpward ==
    ASSUME NEW f \in [MemKeys -> Nat], NEW c \in Nat, NEW k \in Newest(f, c),
           NEW m \in MemKeys, f[m] > f[k]
    PROVE  m \in Newest(f, c)
  <1> DEFINE A == {y \in MemKeys : f[y] > f[m]}
             B == {y \in MemKeys : f[y] > f[k]}
  <1>1. k \in MemKeys /\ f[k] > 0 /\ Cardinality(B) < c BY DEF Newest
  <1>2. A \in SUBSET B /\ B \in SUBSET MemKeys BY <1>1
  <1>3. f[m] > 0 BY <1>1
  <1>4. m \in Newest(f, c) <=> Cardinality(A) < c BY <1>3 DEF Newest
  <1> HIDE DEF A, B
  <1>5. IsFiniteSet(B) BY <1>2, FS_Subset, MemoryAssumption
  <1>6. IsFiniteSet(A) /\ Cardinality(A) <= Cardinality(B) BY <1>2, <1>5, FS_Subset
  <1>7. Cardinality(A) \in Nat /\ Cardinality(B) \in Nat BY <1>5, <1>6, FS_CardinalityType
  <1> QED BY <1>1, <1>4, <1>6, <1>7

(* Once a key is emitted again, the newest are those that stay when the    *)
(* cap is put on the newest so far and it.                                 *)
LEMMA NewestNow ==
    ASSUME NEW f \in [MemKeys -> Nat], NEW c \in Nat \ {0}, NEW key \in MemKeys, NEW t \in Nat,
           \A m \in MemKeys : f[m] < t,
           NEW g \in [MemKeys -> Nat], g[key] = t, \A m \in MemKeys \ {key} : g[m] = f[m],
           NEW H, H = Newest(f, c) \cup {key}
    PROVE  Newest(g, c) = Staying(H, g, c)
  <1> DEFINE N == Newest(f, c)
             up1(k) == {m \in MemKeys : f[m] > f[k]}
             up2(k) == {m \in MemKeys : g[m] > g[k]}
             uph(k) == {m \in H : g[m] > g[k]}
  <1>1. /\ g \in [MemKeys -> Nat] /\ g[key] = t /\ t > 0
        /\ \A m \in MemKeys \ {key} : g[m] = f[m]
    OBVIOUS
  <1>2. N \in SUBSET MemKeys /\ \A k \in N : f[k] > 0 BY DEF Newest
  <1>3. \A k \in MemKeys \ {key} : up1(k) \in SUBSET up2(k) BY <1>1
  <1>4. \A k \in H : up2(k) = uph(k)
    <2> SUFFICES ASSUME NEW k \in H, NEW m \in MemKeys, g[m] > g[k] PROVE m \in H
      BY <1>2
    <2>1. CASE m = key BY <2>1
    <2>2. CASE m # key
      <3>1. k # key BY <1>1, <2>2
      <3>2. k \in N /\ f[m] > f[k] BY <1>1, <1>2, <2>2, <3>1
      <3> HIDE DEF N
      <3> QED BY <3>2, NewestIsUpward DEF N
    <2> QED BY <2>1, <2>2
  <1>5. \A k \in MemKeys : k \in Newest(g, c) <=> g[k] > 0 /\ Cardinality(up2(k)) < c
    BY DEF Newest
  <1>6. \A k \in MemKeys : k \in N <=> f[k] > 0 /\ Cardinality(up1(k)) < c BY DEF Newest
  <1>7. \A k \in MemKeys : up1(k) \in SUBSET MemKeys /\ up2(k) \in SUBSET MemKeys OBVIOUS
  <1>8. \A k \in H : k \in MemKeys /\ g[k] > 0 BY <1>1, <1>2
  <1>9. Newest(g, c) \in SUBSET MemKeys BY DEF Newest
  <1> HIDE DEF N, up1, up2, uph
  <1>10. \A k \in Newest(g, c) : k \in H
    <2> SUFFICES ASSUME NEW k \in Newest(g, c), k # key PROVE k \in N BY DEF N
    <2>1. k \in MemKeys /\ g[k] > 0 /\ Cardinality(up2(k)) < c BY <1>5, <1>9
    <2>2. IsFiniteSet(up2(k)) BY <1>7, <2>1, FS_Subset, MemoryAssumption
    <2>3. IsFiniteSet(up1(k)) /\ Cardinality(up1(k)) <= Cardinality(up2(k))
      BY <1>3, <2>1, <2>2, FS_Subset
    <2>4. Cardinality(up1(k)) \in Nat /\ Cardinality(up2(k)) \in Nat
      BY <2>2, <2>3, FS_CardinalityType
    <2>5. f[k] > 0 BY <1>1, <2>1
    <2> QED BY <1>6, <2>1, <2>3, <2>4, <2>5
  <1>11. \A k \in H : k \in Newest(g, c) <=> Cardinality(uph(k)) < c
    BY <1>4, <1>5, <1>8
  <1>12. Newest(g, c) = {k \in H : Cardinality(uph(k)) < c} BY <1>10, <1>11
  <1> QED BY <1>12 DEF uph, Staying

(* An entry is renewed, or one more is there; the others are as they were. *)
LEMMA RenewedAges ==
    ASSUME entries \in Seq(MemEntry), NEW kind \in Kinds, NEW key \in MemKeys, NEW n \in Nat,
           NEW t \in Nat, NEW f \in [MemKeys -> Nat], ByAge(entries, kind, f),
           \A i \in DOMAIN entries : entries[i].seq < n, \A m \in MemKeys : f[m] < t
    PROVE  LET es == Renewed(kind, key, n)
           IN  /\ es \in Seq(MemEntry) /\ \A i \in DOMAIN es : es[i].seq <= n
               /\ ByAge(es, kind, [f EXCEPT ![key] = t])
               /\ KeysOf(es, kind) = KeysOf(entries, kind) \cup {key}
               /\ \A k \in Kinds \ {kind} :
                     /\ Held(es, k) = Held(entries, k)
                     /\ \A i \in Held(entries, k) : es[i] = entries[i]
  <1> DEFINE es == Renewed(kind, key, n)
             g == [f EXCEPT ![key] = t]
             e == [kind |-> kind, key |-> key, seq |-> n]
             same == {i \in Held(entries, kind) : entries[i].key = key}
  <1>1. e \in MemEntry /\ e.kind = kind /\ e.key = key /\ e.seq = n BY DEF MemEntry
  <1>2. \A i \in DOMAIN entries :
           entries[i] \in MemEntry /\ entries[i].seq \in Nat /\ entries[i].key \in MemKeys
    <2>1. \A i \in DOMAIN entries : entries[i] \in MemEntry OBVIOUS
    <2> QED BY <2>1 DEF MemEntry
  <1>3. /\ g \in [MemKeys -> Nat] /\ g[key] = t /\ t > 0
        /\ \A m \in MemKeys \ {key} : g[m] = f[m]
    OBVIOUS
  (* Where the entry goes. *)
  <1>5. PICK p : /\ es \in Seq(MemEntry) /\ DOMAIN es = DOMAIN entries \cup {p} /\ es[p] = e
                 /\ \A i \in DOMAIN entries \ {p} : es[i] = entries[i]
                 /\ p \in DOMAIN entries => p \in Held(entries, kind)
                 /\ \A i \in Held(entries, kind) : i = p <=> entries[i].key = key
    <2>1. CASE same = {}
      <3>1. es = Append(entries, e) BY <2>1 DEF Renewed
      <3>2. /\ es \in Seq(MemEntry) /\ DOMAIN es = DOMAIN entries \cup {Len(entries) + 1}
            /\ es[Len(entries) + 1] = e /\ Len(entries) + 1 \notin DOMAIN entries
            /\ \A i \in DOMAIN entries : es[i] = entries[i]
        <4> HIDE DEF e, es
        <4> QED BY <1>1, <3>1
      <3>3. \A i \in Held(entries, kind) : i \in DOMAIN entries /\ entries[i].key # key
        BY <2>1 DEF Held
      <3> HIDE DEF e, es
      <3> QED BY <3>2, <3>3
    <2>2. CASE same # {}
      <3> DEFINE p == Min(same)
      <3>1. same \subseteq Nat BY DEF Held
      <3>2. p \in same
        <4> HIDE DEF same
        <4>1. \E x \in same : \A y \in same : x <= y BY <2>2, <3>1, LeastNat
        <4> QED BY <4>1 DEF Min
      <3>3. es = [entries EXCEPT ![p] = e] BY <2>2 DEF Renewed
      <3>4. p \in Held(entries, kind) /\ p \in DOMAIN entries /\ entries[p].key = key
        BY <3>2 DEF Held
      <3> HIDE DEF p, e, es
      <3>5. /\ es \in Seq(MemEntry) /\ DOMAIN es = DOMAIN entries /\ es[p] = e
            /\ \A i \in DOMAIN entries \ {p} : es[i] = entries[i]
        BY <1>1, <3>3, <3>4
      <3>6. \A i \in Held(entries, kind) : i = p <=> entries[i].key = key BY <3>4 DEF ByAge
      <3> QED BY <3>4, <3>5, <3>6
    <2> QED BY <2>1, <2>2
  <1> HIDE DEF es, e, g
  <1>6. Held(es, kind) = Held(entries, kind) \cup {p} BY <1>1, <1>5 DEF Held
  <1>7. \A i \in Held(entries, kind) \ {p} :
           /\ i \in DOMAIN entries /\ es[i] = entries[i] /\ entries[i].key # key
           /\ entries[i].key \in MemKeys /\ g[entries[i].key] = f[entries[i].key]
           /\ entries[i].seq \in Nat /\ entries[i].seq < n
    BY <1>2, <1>3, <1>5 DEF Held
  <1>8. ByAge(es, kind, g)
    <2>1. \A k, m \in MemKeys : g[k] = g[m] /\ g[k] > 0 => k = m
      BY <1>3 DEF ByAge
    <2>2. \A i \in Held(es, kind) : g[es[i].key] > 0
      BY <1>1, <1>3, <1>5, <1>6, <1>7 DEF ByAge
    <2>3. \A i, j \in Held(es, kind) : es[i].key = es[j].key => i = j
      BY <1>1, <1>5, <1>6, <1>7 DEF ByAge
    <2>4. \A i, j \in Held(es, kind) :
             es[i].seq < es[j].seq <=> g[es[i].key] < g[es[j].key]
      <3> SUFFICES ASSUME NEW i \in Held(es, kind), NEW j \in Held(es, kind)
                   PROVE  es[i].seq < es[j].seq <=> g[es[i].key] < g[es[j].key]
        OBVIOUS
      <3>1. CASE i = p /\ j = p BY <1>1, <1>3, <1>5, <3>1
      <3>2. CASE i = p /\ j # p
        <4>1. /\ es[j].seq \in Nat /\ es[j].seq < n
              /\ g[es[j].key] \in Nat /\ g[es[j].key] < t
          BY <1>3, <1>6, <1>7, <3>2
        <4> QED BY <1>1, <1>3, <1>5, <3>2, <4>1
      <3>3. CASE i # p /\ j = p
        <4>1. /\ es[i].seq \in Nat /\ es[i].seq < n
              /\ g[es[i].key] \in Nat /\ g[es[i].key] < t
          BY <1>3, <1>6, <1>7, <3>3
        <4> QED BY <1>1, <1>3, <1>5, <3>3, <4>1
      <3>4. CASE i # p /\ j # p BY <1>6, <1>7, <3>4 DEF ByAge
      <3> QED BY <3>1, <3>2, <3>3, <3>4
    <2> QED BY <2>1, <2>2, <2>3, <2>4 DEF ByAge
  <1>9. KeysOf(es, kind) = KeysOf(entries, kind) \cup {key}
    <2>1. \A i \in Held(es, kind) : es[i].key \in KeysOf(entries, kind) \cup {key}
      BY <1>1, <1>5, <1>6, <1>7 DEF KeysOf
    <2>2. \A i \in Held(entries, kind) : entries[i].key \in KeysOf(es, kind)
      BY <1>1, <1>5, <1>6, <1>7 DEF KeysOf
    <2>3. key \in KeysOf(es, kind) BY <1>1, <1>5, <1>6 DEF KeysOf
    <2> QED BY <2>1, <2>2, <2>3 DEF KeysOf
  <1>10. \A i \in DOMAIN es : es[i].seq <= n
    <2> SUFFICES ASSUME NEW i \in DOMAIN es PROVE es[i].seq <= n OBVIOUS
    <2>1. CASE i = p BY <1>1, <1>5, <2>1
    <2>2. CASE i # p BY <1>2, <1>5, <2>2
    <2> QED BY <2>1, <2>2
  <1>11. \A k \in Kinds \ {kind} : /\ Held(es, k) = Held(entries, k)
                                   /\ \A i \in Held(entries, k) : es[i] = entries[i]
    BY <1>1, <1>5 DEF Held
  <1> QED BY <1>5, <1>8, <1>9, <1>10, <1>11 DEF es, g

(* As many entries have a higher number as keys were emitted later. *)
LEMMA HigherIsLater ==
    ASSUME NEW es \in Seq(MemEntry), NEW kind \in Kinds, NEW g \in [MemKeys -> Nat],
           ByAge(es, kind, g), NEW i \in Held(es, kind)
    PROVE  LET K == KeysOf(es, kind)
               older == {j \in Held(es, kind) : es[j].seq < es[i].seq}
               later == {m \in K : g[m] > g[es[i].key]}
           IN  Cardinality(older) < Cardinality(Held(es, kind)) - Caps[kind]
                   <=> ~(Cardinality(later) < Caps[kind])
  <1> DEFINE S == Held(es, kind)
             K == KeysOf(es, kind)
             older == {j \in S : es[j].seq < es[i].seq}
             newer == {j \in S : es[j].seq > es[i].seq}
             later == {m \in K : g[m] > g[es[i].key]}
             h == [j \in newer |-> es[j].key]
  <1>1. /\ S \in SUBSET (1..Len(es)) /\ Len(es) \in Nat
        /\ \A j \in S : es[j] \in MemEntry
    BY DEF Held
  <1>2. \A j \in S : es[j].seq \in Nat /\ es[j].key \in MemKeys /\ g[es[j].key] \in Nat
    BY <1>1 DEF MemEntry
  <1>3. IsFiniteSet(S)
    <2>1. IsFiniteSet(1..Len(es)) BY <1>1, FS_Interval
    <2> HIDE DEF S
    <2> QED BY <1>1, <2>1, FS_Subset
  <1>4. \A j \in S : es[j].seq = es[i].seq => j = i
    <2> SUFFICES ASSUME NEW j \in S, es[j].seq = es[i].seq PROVE j = i OBVIOUS
    <2>1. ~(g[es[i].key] < g[es[j].key]) /\ ~(g[es[j].key] < g[es[i].key])
      BY <1>2 DEF ByAge
    <2>2. g[es[i].key] = g[es[j].key] BY <1>2, <2>1
    <2> QED BY <1>2, <2>2 DEF ByAge
  <1>5. /\ Cardinality(older) \in Nat /\ Cardinality(newer) \in Nat
        /\ Cardinality(S) = Cardinality(older) + Cardinality(newer) + 1
    <2>1. older \in SUBSET S /\ newer \in SUBSET S OBVIOUS
    <2>2. older \cap newer = {} /\ i \notin older \cup newer BY <1>2
    <2>3. S = (older \cup newer) \cup {i} BY <1>2, <1>4
    <2> HIDE DEF S, older, newer
    <2>4. IsFiniteSet(older) /\ IsFiniteSet(newer) BY <1>3, <2>1, FS_Subset
    <2>5. Cardinality(older) \in Nat /\ Cardinality(newer) \in Nat BY <2>4, FS_CardinalityType
    <2>6. /\ IsFiniteSet(older \cup newer)
          /\ Cardinality(older \cup newer) =
                 Cardinality(older) + Cardinality(newer) - Cardinality(older \cap newer)
      BY <2>4, FS_Union
    <2>7. Cardinality(older \cap newer) = 0 BY <2>2, FS_EmptySet
    <2>8. Cardinality(S) = Cardinality(older \cup newer) + 1 BY <2>2, <2>3, <2>6, FS_AddElement
    <2> QED BY <2>5, <2>6, <2>7, <2>8
  <1>6. Cardinality(later) = Cardinality(newer)
    <2>1. newer \in SUBSET S OBVIOUS
    <2>2. IsFiniteSet(newer)
      <3> HIDE DEF S, newer
      <3> QED BY <1>3, <2>1, FS_Subset
    <2>3. \A j \in S : es[j].seq > es[i].seq <=> g[es[j].key] > g[es[i].key]
      BY <1>2 DEF ByAge
    <2>4. h \in [newer -> later] BY <2>3 DEF KeysOf
    <2>5. \A a, b \in newer : h[a] = h[b] => a = b BY <2>1 DEF ByAge
    <2>6. \A m \in later : \E j \in newer : h[j] = m
      <3> SUFFICES ASSUME NEW m \in later PROVE \E j \in newer : h[j] = m OBVIOUS
      <3>1. PICK j \in S : es[j].key = m BY DEF KeysOf
      <3>2. j \in newer BY <2>3, <3>1
      <3> QED BY <3>1, <3>2
    <2> HIDE DEF newer, later, h
    <2>7. h \in Bijection(newer, later) BY <2>4, <2>5, <2>6, Fun_IsBij
    <2>8. ExistsBijection(newer, later) BY <2>7, Fun_ExistsBij
    <2> QED BY <2>2, <2>8, FS_Bijection
  <1>7. Caps[kind] \in Nat BY MemoryAssumption
  <1> HIDE DEF S, older, newer, later
  <1>8. Cardinality(older) < Cardinality(S) - Caps[kind] <=> ~(Cardinality(later) < Caps[kind])
    BY <1>5, <1>6, <1>7
  <1> QED BY <1>8 DEF S, older, later

(* What the collection leaves of a kind are the entries emitted last, and  *)
(* it leaves the other kinds alone.                                        *)
LEMMA CollectedStays ==
    ASSUME NEW es \in Seq(MemEntry), NEW kind \in Kinds, NEW g \in [MemKeys -> Nat],
           ByAge(es, kind, g), NEW cs, cs = Collected(es, kind)
    PROVE  /\ cs \in Seq(MemEntry)
           /\ \A i \in DOMAIN cs : \E j \in DOMAIN es : cs[i] = es[j]
           /\ KeysOf(cs, kind) = Staying(KeysOf(es, kind), g, Caps[kind])
           /\ \A k \in Kinds : \A f : ByAge(es, k, f) => ByAge(cs, k, f)
           /\ \A k \in Kinds \ {kind} : KeysOf(cs, k) = KeysOf(es, k)
  <1> DEFINE K == KeysOf(es, kind)
             older(i) == {j \in Held(es, kind) : es[j].seq < es[i].seq}
             later(k) == {m \in K : g[m] > g[k]}
             drop == {i \in Held(es, kind) :
                         Cardinality(older(i)) < Cardinality(Held(es, kind)) - Caps[kind]}
             S == (DOMAIN es) \ drop
  <1>1. cs = ElementsAt(es, S) BY DEF Collected
  <1>2. S \in SUBSET DOMAIN es OBVIOUS
  <1>3. \A i \in Held(es, kind) : i \in S <=> Cardinality(later(es[i].key)) < Caps[kind]
    <2>1. \A i \in Held(es, kind) : i \in DOMAIN es BY DEF Held
    <2> QED BY <2>1, HigherIsLater
  <1>4. \A k \in Kinds \ {kind} : \A i \in Held(es, k) : i \in S BY DEF Held
  <1> HIDE DEF S
  <1>5. PICK p \in [DOMAIN cs -> S] : /\ \A i \in DOMAIN cs : cs[i] = es[p[i]]
                                      /\ \A i, j \in DOMAIN cs : p[i] = p[j] => i = j
                                      /\ \A x \in S : \E i \in DOMAIN cs : p[i] = x
    BY <1>1, <1>2, Picked
  <1>6. cs \in Seq(MemEntry) BY <1>1, <1>2, Picked
  <1>7. \A i \in DOMAIN cs : p[i] \in S /\ p[i] \in DOMAIN es BY <1>2, <1>5
  <1>8. \A k \in Kinds : \A i \in Held(cs, k) : /\ i \in DOMAIN cs /\ p[i] \in Held(es, k)
                                                /\ p[i] \in S /\ cs[i] = es[p[i]]
    BY <1>5, <1>7 DEF Held
  <1>9. \A k \in Kinds : \A x \in Held(es, k) \cap S :
           \E i \in Held(cs, k) : p[i] = x /\ cs[i] = es[x]
    BY <1>5 DEF Held
  <1>10. \A k \in Kinds : \A f : ByAge(es, k, f) => ByAge(cs, k, f)
    <2> SUFFICES ASSUME NEW k \in Kinds, NEW f, ByAge(es, k, f) PROVE ByAge(cs, k, f)
      OBVIOUS
    <2>1. \A i, j \in Held(cs, k) : cs[i].key = cs[j].key => i = j
      BY <1>5, <1>8 DEF ByAge
    <2>2. \A i \in Held(cs, k) : f[cs[i].key] > 0 BY <1>8 DEF ByAge
    <2>3. \A i, j \in Held(cs, k) : cs[i].seq < cs[j].seq <=> f[cs[i].key] < f[cs[j].key]
      BY <1>8 DEF ByAge
    <2> QED BY <2>1, <2>2, <2>3 DEF ByAge
  <1>11. KeysOf(cs, kind) = {k \in K : Cardinality(later(k)) < Caps[kind]}
    <2> HIDE DEF later
    <2>1. \A i \in Held(cs, kind) : cs[i].key \in K /\ Cardinality(later(cs[i].key)) < Caps[kind]
      BY <1>3, <1>8 DEF KeysOf
    <2>2. \A k \in K : Cardinality(later(k)) < Caps[kind] => \E i \in Held(cs, kind) : cs[i].key = k
      <3> SUFFICES ASSUME NEW k \in K, Cardinality(later(k)) < Caps[kind]
                   PROVE  \E i \in Held(cs, kind) : cs[i].key = k
        OBVIOUS
      <3>1. PICK x \in Held(es, kind) : es[x].key = k BY DEF KeysOf
      <3>2. x \in S BY <1>3, <3>1
      <3> QED BY <1>9, <3>1, <3>2
    <2> HIDE DEF K
    <2> QED BY <2>1, <2>2 DEF KeysOf
  <1>12. \A k \in Kinds \ {kind} : KeysOf(cs, k) = KeysOf(es, k)
    <2> SUFFICES ASSUME NEW k \in Kinds \ {kind} PROVE KeysOf(cs, k) = KeysOf(es, k) OBVIOUS
    <2>1. \A i \in Held(cs, k) : cs[i].key \in KeysOf(es, k) BY <1>8 DEF KeysOf
    <2>2. \A x \in Held(es, k) : es[x].key \in KeysOf(cs, k) BY <1>4, <1>9 DEF KeysOf
    <2> QED BY <2>1, <2>2 DEF KeysOf
  <1>13. KeysOf(cs, kind) = Staying(K, g, Caps[kind]) BY <1>11 DEF Staying
  <1> QED BY <1>5, <1>6, <1>7, <1>10, <1>12, <1>13

-----------------------------------------------------------------------------
(* An empty memory mirrors that nothing was emitted. *)
LEMMA EmptyMirrors ==
    ASSUME NEW n \in Nat
    PROVE  Mirrors(<<>>, Never, n)
  <1>1. \A kind \in Kinds : \A key \in MemKeys : Never[kind][key] = 0 BY DEF Never
  <1>2. Never \in [Kinds -> [MemKeys -> Nat]] BY DEF Never
  <1>3. \A kind \in Kinds : Held(<<>>, kind) = {} BY DEF Held
  <1>4. \A kind \in Kinds : Newest(Never[kind], Caps[kind]) = {} BY <1>1 DEF Newest
  <1>5. \A kind \in Kinds : KeysOf(<<>>, kind) = {} BY <1>3 DEF KeysOf
  <1>6. \A kind \in Kinds : ByAge(<<>>, kind, Never[kind]) BY <1>1, <1>3 DEF ByAge
  <1>7. <<>> \in Seq(MemEntry) /\ DOMAIN <<>> = {} OBVIOUS
  <1>8. \A kind \in Kinds : \A key \in MemKeys : Never[kind][key] <= n BY <1>1
  <1>9. \A i \in DOMAIN <<>> : <<>>[i].seq <= n BY <1>7
  <1>10. \A kind \in Kinds : KeysOf(<<>>, kind) = Newest(Never[kind], Caps[kind])
    BY <1>4, <1>5
  <1> QED BY <1>2, <1>6, <1>7, <1>8, <1>9, <1>10, Zenon DEF Mirrors

(* More calls of Emit change nothing of what is mirrored. *)
LEMMA StillMirrors ==
    ASSUME NEW n \in Nat, NEW m \in Nat, n <= m, NEW es, NEW when, Mirrors(es, when, n)
    PROVE  Mirrors(es, when, m)
  <1>1. \A i \in DOMAIN es : es[i].seq <= m
    <2>1. \A i \in DOMAIN es : es[i] \in MemEntry /\ es[i].seq <= n BY DEF Mirrors
    <2>2. \A i \in DOMAIN es : es[i].seq \in Nat BY <2>1 DEF MemEntry
    <2> QED BY <2>1, <2>2
  <1>2. \A kind \in Kinds : \A key \in MemKeys : when[kind][key] <= m
    BY DEF Mirrors
  <1> QED BY <1>1, <1>2 DEF Mirrors

(* The highest number of the entries read back is one of theirs, or 0. *)
LEMMA Highest ==
    ASSUME NEW T \in SUBSET Nat, NEW b \in Nat, \A x \in T : x <= b, 0 \in T
    PROVE  Max(T) \in T /\ \A x \in T : x <= Max(T)
  <1> DEFINE U == {u \in Nat : \A x \in T : x <= u}
  <1>1. U \in SUBSET Nat /\ U # {} OBVIOUS
  <1>2. PICK u \in U : \A v \in U : u <= v
    <2> HIDE DEF U
    <2> QED BY <1>1, LeastNat
  <1>3. u \in T
    <2> SUFFICES ASSUME u \notin T PROVE FALSE OBVIOUS
    <2>1. u \in Nat /\ u # 0 /\ \A x \in T : x <= u /\ x # u OBVIOUS
    <2>2. u - 1 \in Nat /\ \A x \in T : x <= u - 1 BY <2>1
    <2>3. u - 1 \in U BY <2>2
    <2> QED BY <1>2, <2>1, <2>3
  <1>4. \E x \in T : \A y \in T : x >= y BY <1>3
  <1>5. Max(T) \in T /\ \A y \in T : Max(T) >= y BY <1>4 DEF Max
  <1> QED BY <1>5

(* Emit keeps the mirror. *)
LEMMA EmitMirrors ==
    ASSUME MemInv, NEW kind \in Kinds, NEW key \in MemKeys, Emit(kind, key)
    PROVE  Mirrors(entries', stamps', emits') /\ \A i \in DOMAIN entries' : entries'[i].seq <= seqNo'
  <1> DEFINE n == seqNo + 1
             t == emits + 1
             f == stamps[kind]
             g == [f EXCEPT ![key] = t]
             es == Renewed(kind, key, n)
             H == KeysOf(entries, kind)
             c == Caps[kind]
  <1>1. /\ entries \in Seq(MemEntry) /\ stamps \in [Kinds -> [MemKeys -> Nat]]
        /\ f \in [MemKeys -> Nat] /\ n \in Nat /\ t \in Nat /\ n <= t
        /\ seqNo' = n /\ emits' = t /\ c \in Nat \ {0}
    <2>1. entries \in Seq(MemEntry) /\ stamps \in [Kinds -> [MemKeys -> Nat]]
      BY DEF MemInv, Mirrors
    <2>2. n \in Nat /\ t \in Nat /\ n <= t BY DEF MemInv
    <2>3. seqNo' = n /\ emits' = t BY DEF Emit
    <2>4. c \in Nat \ {0} BY MemoryAssumption
    <2>5. f \in [MemKeys -> Nat] BY <2>1
    <2> HIDE DEF n, t, c, f
    <2> QED BY <2>1, <2>2, <2>3, <2>4, <2>5
  <1>2. \A i \in DOMAIN entries : entries[i].seq < n
    <2>1. \A i \in DOMAIN entries : entries[i] \in MemEntry /\ entries[i].seq <= seqNo
      BY DEF MemInv, Mirrors
    <2>2. \A i \in DOMAIN entries : entries[i].seq \in Nat BY <2>1 DEF MemEntry
    <2> QED BY <2>1, <2>2 DEF MemInv
  <1>3. \A k \in Kinds : \A m \in MemKeys : stamps[k][m] < t BY <1>1 DEF MemInv, Mirrors
  <1>4. \A k \in Kinds : /\ ByAge(entries, k, stamps[k])
                         /\ KeysOf(entries, k) = Newest(stamps[k], Caps[k])
    BY DEF MemInv, Mirrors
  <1>5. entries' = Collected(es, kind) BY DEF Emit
  <1>6. /\ stamps' \in [Kinds -> [MemKeys -> Nat]] /\ stamps'[kind] = g
        /\ \A k \in Kinds \ {kind} : stamps'[k] = stamps[k]
    BY <1>1 DEF Emit
  <1>7. g \in [MemKeys -> Nat] BY <1>1
  <1>8. \A k \in Kinds : \A m \in MemKeys : stamps'[k][m] <= t
    <2> SUFFICES ASSUME NEW k \in Kinds, NEW m \in MemKeys PROVE stamps'[k][m] <= t OBVIOUS
    <2>1. stamps[k] \in [MemKeys -> Nat] /\ stamps[k][m] \in Nat /\ stamps[k][m] < t
      BY <1>1, <1>3
    <2>2. CASE k = kind
      <3>1. g[m] = t \/ g[m] = stamps[k][m] BY <1>1, <2>2
      <3>2. stamps'[k][m] = g[m] BY <1>6, <2>2
      <3>3. t \in Nat BY <1>1
      <3> HIDE DEF g, t
      <3> QED BY <2>1, <3>1, <3>2, <3>3
    <2>3. CASE k # kind
      <3>1. stamps'[k][m] = stamps[k][m] /\ t \in Nat BY <1>1, <1>6, <2>3
      <3> HIDE DEF t
      <3> QED BY <2>1, <3>1
    <2> QED BY <2>2, <2>3
  <1>9. H = Newest(f, c) /\ ByAge(entries, kind, f) /\ \A m \in MemKeys : f[m] < t
    BY <1>3, <1>4
  <1> HIDE DEF n, t, f, c
  <1>10. /\ es \in Seq(MemEntry) /\ \A i \in DOMAIN es : es[i].seq <= n
         /\ ByAge(es, kind, g) /\ KeysOf(es, kind) = H \cup {key}
         /\ \A k \in Kinds \ {kind} : /\ Held(es, k) = Held(entries, k)
                                      /\ \A i \in Held(entries, k) : es[i] = entries[i]
    BY <1>1, <1>2, <1>9, RenewedAges
  <1>11. Newest(g, c) = Staying(H \cup {key}, g, c)
    <2> DEFINE G == H \cup {key}
    <2>1. G = Newest(f, c) \cup {key} BY <1>9
    <2>2. g[key] = t /\ \A m \in MemKeys \ {key} : g[m] = f[m] BY <1>1
    <2> HIDE DEF g, G, H, es
    <2>3. Newest(g, c) = Staying(G, g, c)
      <3>1. f \in [MemKeys -> Nat] /\ c \in Nat \ {0} /\ t \in Nat BY <1>1
      <3>2. \A m \in MemKeys : f[m] < t BY <1>9
      <3> QED BY <1>7, <2>1, <2>2, <3>1, <3>2, NewestNow
    <2> QED BY <2>3 DEF G
  <1>12. \A k \in Kinds \ {kind} : /\ ByAge(es, k, stamps[k])
                                   /\ KeysOf(es, k) = KeysOf(entries, k)
    <2> HIDE DEF es
    <2> QED BY <1>4, <1>10 DEF ByAge, KeysOf
  <1> HIDE DEF es, g, H
  <1>13. /\ entries' \in Seq(MemEntry)
         /\ \A i \in DOMAIN entries' : \E j \in DOMAIN es : entries'[i] = es[j]
         /\ KeysOf(entries', kind) = Staying(KeysOf(es, kind), g, Caps[kind])
         /\ \A k \in Kinds : \A h : ByAge(es, k, h) => ByAge(entries', k, h)
         /\ \A k \in Kinds \ {kind} : KeysOf(entries', k) = KeysOf(es, k)
    <2>1. es \in Seq(MemEntry) /\ ByAge(es, kind, g) BY <1>10
    <2> QED BY <1>5, <1>7, <2>1, CollectedStays
  <1>14. KeysOf(entries', kind) = Newest(g, Caps[kind])
    BY <1>10, <1>11, <1>13 DEF c
  <1>15. \A k \in Kinds : /\ ByAge(entries', k, stamps'[k])
                          /\ KeysOf(entries', k) = Newest(stamps'[k], Caps[k])
    <2> SUFFICES ASSUME NEW k \in Kinds
                 PROVE  /\ ByAge(entries', k, stamps'[k])
                        /\ KeysOf(entries', k) = Newest(stamps'[k], Caps[k])
      OBVIOUS
    <2>1. CASE k = kind BY <1>6, <1>10, <1>13, <1>14, <2>1
    <2>2. CASE k # kind BY <1>4, <1>6, <1>12, <1>13, <2>2
    <2> QED BY <2>1, <2>2
  <1>16. \A i \in DOMAIN entries' : entries'[i].seq <= n /\ entries'[i].seq <= emits'
    <2> SUFFICES ASSUME NEW i \in DOMAIN entries'
                 PROVE  entries'[i].seq <= n /\ entries'[i].seq <= emits'
      OBVIOUS
    <2>1. PICK j \in DOMAIN es : entries'[i] = es[j] BY <1>13
    <2>2. es[j] \in MemEntry /\ es[j].seq <= n BY <1>10
    <2>3. es[j].seq \in Nat BY <2>2 DEF MemEntry
    <2> QED BY <1>1, <2>1, <2>2, <2>3
  <1>17. Mirrors(entries', stamps', emits') BY <1>1, <1>6, <1>8, <1>13, <1>15, <1>16 DEF Mirrors
  <1> QED BY <1>1, <1>16, <1>17

(* In memory and in the file, what is held is what was emitted last. *)
THEOREM MemInvariance == MemSpec => []MemInv
  <1>1. MemInit => MemInv
    <2> SUFFICES ASSUME MemInit PROVE MemInv OBVIOUS
    <2>1. /\ entries = <<>> /\ seqNo = 0 /\ emits = 0 /\ file.entries = <<>>
          /\ stamps = Never /\ kept = Never
      BY DEF MemInit
    <2>2. Mirrors(<<>>, Never, emits) BY <2>1, EmptyMirrors
    <2> QED BY <2>1, <2>2 DEF MemInv
  <1>2. MemInv /\ [MemNext]_memVars => MemInv'
    <2> SUFFICES ASSUME MemInv, [MemNext]_memVars PROVE MemInv' OBVIOUS
    <2>0. emits \in Nat BY DEF MemInv
    <2>1. CASE MemOpen
      <3> DEFINE T == {0} \cup {entries'[i].seq : i \in DOMAIN entries'}
      <3>1. UNCHANGED <<emits, file, kept>> /\ seqNo' = Max(T) BY <2>1 DEF MemOpen
      <3>2. Mirrors(entries', stamps', emits)
        <4>1. CASE file.whole /\ entries' = file.entries /\ stamps' = kept
          BY <4>1 DEF MemInv
        <4>2. CASE entries' = <<>> /\ stamps' = Never
          BY <2>0, <4>2, EmptyMirrors
        <4> QED BY <2>1, <4>1, <4>2 DEF MemOpen
      <3>3. \A i \in DOMAIN entries' : entries'[i].seq \in Nat /\ entries'[i].seq <= emits
        <4>1. \A i \in DOMAIN entries' : entries'[i] \in MemEntry /\ entries'[i].seq <= emits
          BY <3>2 DEF Mirrors
        <4> QED BY <4>1 DEF MemEntry
      <3>4. T \in SUBSET Nat /\ 0 \in T /\ \A x \in T : x <= emits BY <2>0, <3>3
      <3>5. \A i \in DOMAIN entries' : entries'[i].seq \in T OBVIOUS
      <3> HIDE DEF T
      <3>6. Max(T) \in T /\ \A x \in T : x <= Max(T) BY <2>0, <3>4, Highest
      <3>7. /\ seqNo' \in Nat /\ seqNo' <= emits
            /\ \A i \in DOMAIN entries' : entries'[i].seq <= seqNo'
        BY <3>1, <3>4, <3>5, <3>6
      <3>8. Mirrors(entries', stamps', emits') /\ (file'.whole => Mirrors(file'.entries, kept', emits'))
        BY <3>1, <3>2 DEF MemInv
      <3> QED BY <2>0, <3>1, <3>7, <3>8 DEF MemInv
    <2>2. CASE Saved
      <3>1. UNCHANGED <<entries, seqNo, emits, stamps>> BY <2>2 DEF Saved
      <3>2. \/ file'.entries = entries /\ kept' = stamps
            \/ UNCHANGED <<file, kept>>
        BY <2>2 DEF Saved
      <3>3. (file'.whole => Mirrors(file'.entries, kept', emits'))
        BY <3>1, <3>2 DEF MemInv
      <3>4. Mirrors(entries', stamps', emits') BY <3>1 DEF MemInv
      <3> QED BY <3>1, <3>3, <3>4 DEF MemInv
    <2>3. CASE MemDown
      <3>1. UNCHANGED <<file, emits, kept>> /\ entries' = <<>> /\ seqNo' = 0 /\ stamps' = Never
        BY <2>3 DEF MemDown
      <3>2. Mirrors(<<>>, Never, emits) BY <2>0, EmptyMirrors
      <3>3. Mirrors(entries', stamps', emits') /\ (file'.whole => Mirrors(file'.entries, kept', emits'))
        BY <3>1, <3>2 DEF MemInv
      <3> QED BY <2>0, <3>1, <3>3 DEF MemInv
    <2>4. ASSUME NEW kind \in Kinds, NEW key \in MemKeys, Emit(kind, key) PROVE MemInv'
      <3>1. /\ Mirrors(entries', stamps', emits')
            /\ \A i \in DOMAIN entries' : entries'[i].seq <= seqNo'
        BY <2>4, EmitMirrors
      <3>2. emits' = emits + 1 /\ seqNo' = seqNo + 1 /\ UNCHANGED kept BY <2>4 DEF Emit
      <3>3. ~file'.whole \/ UNCHANGED file BY <2>4 DEF Emit
      <3>4. file.whole => Mirrors(file.entries, kept, emits') BY <2>0, <3>2, StillMirrors DEF MemInv
      <3> QED BY <2>0, <3>1, <3>2, <3>3, <3>4 DEF MemInv
    <2>5. CASE UNCHANGED memVars
      BY <2>5 DEF memVars, MemInv
    <2> QED BY <2>1, <2>2, <2>3, <2>4, <2>5 DEF MemNext
  <1> QED BY <1>1, <1>2, PTL DEF MemSpec

(* However often the work is resumed and wherever a save was cut off, the  *)
(* memory holds of each kind the entries emitted last up to its cap, each  *)
(* once, since it was last found empty or not to be read (Open, Emit,      *)
(* gcAndSave).                                                             *)
THEOREM MemoryIsNewest == MemSpec => []MemoryKeepsNewest
  <1>1. MemInv => MemoryKeepsNewest
    BY DEF MemInv, MemoryKeepsNewest, Mirrors, ByAge, KeysOf
  <1> QED BY <1>1, MemInvariance, PTL
=============================================================================
