---------------------------- MODULE OpencodeRun ----------------------------
(***************************************************************************)
(* `aegis run` and the verify launch: each process starts an `opencode     *)
(* serve` of its own on a port that was free a moment ago, waits until     *)
(* something answers there, drives one turn over HTTP within a wall-clock  *)
(* budget, collects the transcript and stops the server (cmdRun, Solve,    *)
(* realSolveDrive, VerifyLaunch, StartServe, Drive).                       *)
(***************************************************************************)
EXTENDS Integers, FiniteSets

CONSTANTS Runs,    \* aegis processes
          Ports,   \* loopback ports
          MaxMsgs  \* bound on the messages of a turn

ASSUME RunAssumption == MaxMsgs \in Nat /\ "none" \notin Runs

VARIABLES oc,      \* per run: [pc, kind, port, on, got]
          expired, \* the runs whose budget is over
          serve,   \* per run, its server: none, starting, up, gone
          bound,   \* per port, the run whose server has it, or "none"
          turn     \* per run, its session: [len, done]

ocVars == <<oc, expired, serve, bound, turn>>

Ended == {"done", "timedout", "failed", "killed"}
NewRun == [pc |-> "off", kind |-> "solve", port |-> 0, on |-> "none", got |-> 0]

OcInit == /\ oc = [r \in Runs |-> NewRun]
          /\ expired = {}
          /\ serve = [r \in Runs |-> "none"]
          /\ bound = [p \in Ports |-> "none"]
          /\ turn = [r \in Runs |-> [len |-> 0, done |-> FALSE]]

OcAt(r, l) == oc[r].pc = l
Listening(r) == bound[oc[r].port] # "none"     \* something answers at its port
Alive(r) == oc[r].on # "none" /\ serve[oc[r].on] = "up"  \* its session's server

(* A slip: the server is left to itself. *)
stop_Forgotten(r) == UNCHANGED <<serve, bound>>

(* stop: kill and reap the server this run started; that one process, not  *)
(* a group of processes (StartServe sets none up).                         *)
stop(r) == /\ serve' = [serve EXCEPT ![r] = "gone"]
           /\ bound' = [p \in Ports |-> IF bound[p] = r THEN "none" ELSE bound[p]]

Finish(r, l, n) == /\ oc' = [oc EXCEPT ![r].pc = l, ![r].got = n]
                   /\ stop(r)

-----------------------------------------------------------------------------
(* freeLoopbackPort, and StartServe up to cmd.Start; no binary, no port or *)
(* a failed start end the run before there is a server.                    *)
StartServe(r) ==
    /\ OcAt(r, "off")
    /\ \/ /\ \E p \in Ports, k \in {"solve", "verify"} :
                /\ bound[p] = "none"
                /\ oc' = [oc EXCEPT ![r].pc = "ready", ![r].kind = k, ![r].port = p]
          /\ serve' = [serve EXCEPT ![r] = "starting"]
       \/ oc' = [oc EXCEPT ![r].pc = "failed"] /\ UNCHANGED serve
    /\ UNCHANGED <<expired, bound, turn>>

(* The server binds its port, or finds it taken and exits. *)
ServeBinds(r) ==
    /\ serve[r] = "starting"
    /\ IF Listening(r) THEN serve' = [serve EXCEPT ![r] = "gone"] /\ UNCHANGED bound
       ELSE /\ serve' = [serve EXCEPT ![r] = "up"]
            /\ bound' = [bound EXCEPT ![oc[r].port] = r]
    /\ UNCHANGED <<oc, expired, turn>>

(* The server crashes, or exec.CommandContext kills it once the budget of  *)
(* its run is over.                                                        *)
ServeDies(r) == /\ serve[r] \in {"starting", "up"}
                /\ stop(r)
                /\ UNCHANGED <<oc, expired, turn>>

(* The budget of aegis run; the verify launch has none. *)
Expire(r) == /\ ~(oc[r].pc \in Ended \cup {"off"}) /\ oc[r].kind = "solve"
             /\ r \notin expired
             /\ expired' = expired \cup {r}
             /\ UNCHANGED <<oc, serve, bound, turn>>

(* Ready takes any server at the port for its own.  With the budget over   *)
(* no request is sent any more, but the loop goes on for its 90 seconds.   *)
WaitReady(r) ==
    /\ OcAt(r, "ready")
    /\ \/ /\ Listening(r) /\ r \notin expired
          /\ IF oc[r].kind = "verify" THEN Finish(r, "done", 0)
             ELSE oc' = [oc EXCEPT ![r].pc = "session"] /\ UNCHANGED <<serve, bound>>
       \/ Finish(r, "failed", 0)
    /\ UNCHANGED <<expired, turn>>

CreateSession(r) ==
    /\ OcAt(r, "session")
    /\ \/ /\ Listening(r) /\ r \notin expired
          /\ oc' = [oc EXCEPT ![r].pc = "send", ![r].on = bound[oc[r].port]]
          /\ UNCHANGED <<serve, bound>>
       \/ Finish(r, "failed", 0)
    /\ UNCHANGED <<expired, turn>>

(* The agent works in r's session: a message, or the end of the turn. *)
TurnAdvances(r) ==
    /\ OcAt(r, "send") /\ Alive(r) /\ ~turn[r].done
    /\ \/ turn[r].len < MaxMsgs /\ turn' = [turn EXCEPT ![r].len = @ + 1]
       \/ turn' = [turn EXCEPT ![r].done = TRUE]
    /\ UNCHANGED <<oc, expired, serve, bound>>

(* A slip: the request does not carry the run's context. *)
SendMessage_NoBudget(r) ==
    /\ OcAt(r, "send")
    /\ turn[r].done /\ Alive(r)
    /\ oc' = [oc EXCEPT ![r].pc = "collect"]
    /\ UNCHANGED <<expired, serve, bound, turn>>

(* SendMessage blocks until the server answers it, the server is gone, or  *)
(* the budget is over; Drive tells the last two apart by the context.  It  *)
(* looks at the status of the answer only: that a server answers at the    *)
(* end of the turn and not before is opencode's doing.                     *)
SendMessage(r) ==
    /\ OcAt(r, "send")
    /\ \/ /\ turn[r].done /\ Alive(r)
          /\ oc' = [oc EXCEPT ![r].pc = "collect"] /\ UNCHANGED <<serve, bound>>
       \/ /\ r \in expired
          /\ oc' = [oc EXCEPT ![r].pc = "partial"] /\ UNCHANGED <<serve, bound>>
       \/ r \notin expired /\ ~Alive(r) /\ Finish(r, "failed", 0)
    /\ UNCHANGED <<expired, turn>>

(* A slip: the error is overlooked. *)
RequestFails_Overlooked(r) ==
    /\ OcAt(r, "send") /\ r \notin expired
    /\ oc' = [oc EXCEPT ![r].pc = "collect"]
    /\ UNCHANGED <<expired, serve, bound, turn>>

(* The server answers with an error, or the client's own 30 minutes pass. *)
RequestFails(r) ==
    /\ OcAt(r, "send") /\ r \notin expired
    /\ Finish(r, "failed", 0)
    /\ UNCHANGED <<expired, turn>>

(* The whole transcript, within the same budget; what cannot be fetched,   *)
(* or then not be written to --out, is a failure (cmdRun).                 *)
Collect(r) ==
    /\ OcAt(r, "collect")
    /\ \/ Alive(r) /\ r \notin expired /\ Finish(r, "done", turn[r].len)
       \/ Finish(r, "failed", 0)
    /\ UNCHANGED <<expired, turn>>

(* partialMessages: what there is, if the server is still there to ask; it *)
(* too has to be written before cmdRun exits with 124.                     *)
partialMessages(r) ==
    /\ OcAt(r, "partial")
    /\ \/ Alive(r) /\ Finish(r, "timedout", turn[r].len)
       \/ Finish(r, "timedout", 0)
       \/ Finish(r, "failed", 0)
    /\ UNCHANGED <<expired, turn>>

(* aegis is killed: nobody stops its server. *)
RunKilled(r) == /\ ~(oc[r].pc \in Ended \cup {"off"})
                /\ oc' = [oc EXCEPT ![r].pc = "killed"]
                /\ UNCHANGED <<expired, serve, bound, turn>>

RunStep(r) == \/ WaitReady(r) \/ CreateSession(r) \/ SendMessage(r) \/ Collect(r)
              \/ partialMessages(r)

OcNext == \E r \in Runs : \/ StartServe(r) \/ ServeBinds(r) \/ ServeDies(r)
                          \/ Expire(r) \/ TurnAdvances(r) \/ RequestFails(r)
                          \/ RunStep(r) \/ RunKilled(r)

OcSpec == OcInit /\ [][OcNext]_ocVars

(* Every wait but the turn's has a short deadline of its own; a turn may   *)
(* go on, and the budget passes.                                           *)
OcFairness == \A r \in Runs : WF_ocVars(RunStep(r)) /\ WF_ocVars(Expire(r))

-----------------------------------------------------------------------------
OcTypeOK ==
    /\ oc \in [Runs -> [pc : Ended \cup {"off", "ready", "session", "send", "collect",
                                         "partial"},
                        kind : {"solve", "verify"}, port : Ports \cup {0},
                        on : Runs \cup {"none"}, got : 0..MaxMsgs]]
    /\ expired \subseteq Runs
    /\ serve \in [Runs -> {"none", "starting", "up", "gone"}]
    /\ bound \in [Ports -> Runs \cup {"none"}]
    /\ turn \in [Runs -> [len : 0..MaxMsgs, done : BOOLEAN]]

(* What a run reports is true of its own turn: exit 0 comes with the whole *)
(* transcript of a turn that ended, 124 only after the budget, with no     *)
(* more than the messages there were; even when another run's server took  *)
(* the port and is stopped in the middle (Drive, cmdRun's exit codes).     *)
ReportIsTrue ==
    \A r \in Runs :
        /\ OcAt(r, "done") /\ oc[r].kind = "solve" =>
               turn[r].done /\ oc[r].got = turn[r].len
        /\ OcAt(r, "timedout") => r \in expired /\ oc[r].got <= turn[r].len

(* No run that returns leaves a server, or a port, behind (realSolveDrive's*)
(* deferred stop, StartServe's on a bring-up that failed, VerifyLaunch's). *)
NoServerLeft ==
    \A r \in Runs : oc[r].pc \in {"done", "timedout", "failed"} =>
        /\ serve[r] \in {"none", "gone"}
        /\ \A p \in Ports : bound[p] # r

(* "the wall-clock budget" (RUNQ-001): every run ends, however long the    *)
(* agent's turn would go on.                                               *)
RunEnds == \A r \in Runs : OcAt(r, "ready") ~> oc[r].pc \in Ended
=============================================================================
