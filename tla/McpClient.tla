----------------------------- MODULE McpClient -----------------------------
(***************************************************************************)
(* The MCP client of internal/rtmx/client.go: goroutines that share one    *)
(* connection to `rtmx mcp-server --stdio`, a child process which answers  *)
(* one JSON-RPC request after the other, line by line.  Between answers it *)
(* may write notifications, repeat an answer, or die.  What it keeps of    *)
(* the claims outlives it; other agents have clients of their own, and     *)
(* every aegis process among them gives the agent id "aegis".              *)
(***************************************************************************)
EXTENDS Integers, Sequences, FiniteSets

CONSTANTS Callers,  \* the goroutines that use the client
          Reqs,     \* requirement ids
          MaxCalls  \* bound on the calls made over one connection

ASSUME McpAssumption == /\ MaxCalls \in Nat
                        /\ "free" \notin Callers /\ "initialize" \notin Reqs

VARIABLES conn,    \* new, open or closed, as the client sees it
          alive,   \* the child runs
          mu,      \* the caller that holds the mutex, or "free"
          nextID,  \* the id of the last request
          cl,      \* per caller: [pc, op, req, id]
          stdin,   \* requests the child has not read: [id, op, req]
          stdout,  \* lines the client has not read: [id, ans], id 0 a notification
          holder,  \* the agent id a requirement is claimed for: aegis or other, or free
          mine,    \* claims the client was told it has
          theirs,  \* claims the other aegis processes were told they have
          doubtful \* history: requirements an aegis was told it has although the
                   \* server refused it, or had given it to an aegis before

mcpVars == <<conn, alive, mu, nextID, cl, stdin, stdout, holder, mine, theirs, doubtful>>

NoCall == [pc |-> "idle", op |-> "none", req |-> "none", id |-> 0]

McpInit == /\ conn = "new" /\ alive = TRUE
           /\ mu = "free" /\ nextID = 0
           /\ cl = [c \in Callers |-> NoCall]
           /\ stdin = <<>> /\ stdout = <<>>
           /\ holder = [r \in Reqs |-> "free"]
           /\ mine = {} /\ theirs = {} /\ doubtful = {}

-----------------------------------------------------------------------------
(* DialMCP's initialize comes first; then any goroutine may call a tool.   *)
(* Of the tools only claim and release change anything.  Release is for    *)
(* what one has claimed, and nobody relies on a claim being released.      *)
Begin(c) ==
    /\ cl[c].pc = "idle" /\ nextID + Cardinality({d \in Callers : cl[d].pc = "lock"}) < MaxCalls
    /\ \/ /\ conn = "new" /\ \A d \in Callers : cl[d].pc = "idle"
          /\ cl' = [cl EXCEPT ![c] = [NoCall EXCEPT !.pc = "lock", !.op = "initialize"]]
          /\ UNCHANGED mine
       \/ /\ conn = "open"
          /\ \E op \in {"claim", "release", "next", "health"}, r \in Reqs :
                /\ op = "release" => r \in mine
                /\ cl' = [cl EXCEPT ![c] = [NoCall EXCEPT !.pc = "lock", !.op = op, !.req = r]]
                /\ mine' = IF op = "release" THEN mine \ {r} ELSE mine
    /\ UNCHANGED <<conn, alive, mu, nextID, stdin, stdout, holder, theirs, doubtful>>

(* call: the mutex is held until it returns. *)
Lock(c) == /\ cl[c].pc = "lock" /\ mu = "free"
           /\ mu' = c
           /\ nextID' = nextID + 1
           /\ cl' = [cl EXCEPT ![c].pc = "write", ![c].id = nextID + 1]
           /\ UNCHANGED <<conn, alive, stdin, stdout, holder, mine, theirs, doubtful>>

(* toolCall: an answer without content is a success, whatever its isError  *)
(* says.  (An answer is yes, no, or mute: a refusal without content.)      *)
toolCall(ans) == ans # "no"

(* call returns to toolCall, which reports an error for an error answer;   *)
(* a failed initialize closes the connection and kills the child.          *)
Return(c, ok) ==
    LET op == cl[c].op
    IN  /\ mu' = "free"
        /\ cl' = [cl EXCEPT ![c] = NoCall]
        /\ mine' = IF op = "claim" /\ ok THEN mine \cup {cl[c].req} ELSE mine
        /\ conn' = IF op # "initialize" THEN conn ELSE IF ok THEN "open" ELSE "closed"
        /\ alive' = (alive /\ (op = "initialize" => ok))

Write(c) ==
    /\ cl[c].pc = "write"
    /\ \/ /\ alive
          /\ stdin' = Append(stdin, [id |-> cl[c].id, op |-> cl[c].op, req |-> cl[c].req])
          /\ cl' = [cl EXCEPT ![c].pc = "read"]
          /\ UNCHANGED <<conn, alive, mu, mine>>
       \/ ~alive /\ Return(c, FALSE) /\ UNCHANGED stdin       \* a broken pipe
    /\ UNCHANGED <<nextID, stdout, holder, theirs, doubtful>>

(* A slip: the next answer is taken, whichever request it answers. *)
ReadLine_AnyId(c) ==
    /\ cl[c].pc = "read" /\ stdout # <<>>
    /\ stdout' = Tail(stdout)
    /\ IF Head(stdout).id = 0 THEN UNCHANGED <<conn, alive, mu, cl, mine>>
       ELSE Return(c, toolCall(Head(stdout).ans))
    /\ UNCHANGED <<nextID, stdin, holder, theirs, doubtful>>

(* Lines that are no answer to this request are skipped. *)
ReadLine(c) ==
    /\ cl[c].pc = "read" /\ stdout # <<>>
    /\ stdout' = Tail(stdout)
    /\ IF Head(stdout).id = cl[c].id THEN Return(c, toolCall(Head(stdout).ans))
       ELSE UNCHANGED <<conn, alive, mu, cl, mine>>
    /\ UNCHANGED <<nextID, stdin, holder, theirs, doubtful>>

(* A slip: the end of the stream is one more line that does not match. *)
ReadEOF_Continue(c) ==
    /\ cl[c].pc = "read" /\ stdout = <<>> /\ ~alive
    /\ UNCHANGED mcpVars

(* What the child wrote before it died is still read, unless Close took    *)
(* the pipe away; then the call fails.                                     *)
ReadEOF(c) ==
    /\ cl[c].pc = "read" /\ ~alive /\ (stdout = <<>> \/ conn = "closed")
    /\ Return(c, FALSE)
    /\ UNCHANGED <<nextID, stdin, stdout, holder, theirs, doubtful>>

(* Close, by the owner, who may do so while a call waits. *)
Close == /\ conn = "open"
         /\ conn' = "closed" /\ alive' = FALSE
         /\ UNCHANGED <<mu, nextID, cl, stdin, stdout, holder, mine, theirs, doubtful>>

-----------------------------------------------------------------------------
(* The child, as the client relies on it: external.                        *)

(* It answers the oldest request, once or twice, notifying before.  What   *)
(* another agent id has it does not grant; whether the same id may claim   *)
(* once more is left open.                                                 *)
Serve ==
    /\ alive /\ stdin # <<>>
    /\ LET q == Head(stdin)
           may == /\ q.op = "claim" => holder[q.req] # "other"
                  /\ q.op = "release" => holder[q.req] = "aegis"
           line(ans) == [id |-> q.id, ans |-> ans]
           note == [id |-> 0, ans |-> "yes"]
       IN  \E ans \in {"yes", "no", "mute"} :
              /\ ans = "yes" => may
              /\ \E lines \in {<<line(ans)>>, <<line(ans), line(ans)>>, <<note, line(ans)>>} :
                    stdout' = stdout \o lines
              /\ holder' = IF ans = "yes" /\ q.op = "claim"
                           THEN [holder EXCEPT ![q.req] = "aegis"]
                           ELSE IF ans = "yes" /\ q.op = "release"
                           THEN [holder EXCEPT ![q.req] = "free"] ELSE holder
              /\ doubtful' = IF /\ q.op = "claim"
                                /\ ans = "mute" \/ (ans = "yes" /\ holder[q.req] = "aegis")
                             THEN doubtful \cup {q.req} ELSE doubtful
    /\ stdin' = Tail(stdin)
    /\ UNCHANGED <<conn, alive, mu, nextID, cl, mine, theirs>>

(* It dies: a claim it has just granted may never be heard of. *)
Dies == /\ alive
        /\ alive' = FALSE
        /\ UNCHANGED <<conn, mu, nextID, cl, stdin, stdout, holder, mine, theirs, doubtful>>

(* Other agents, over servers of their own.  An aegis may not live to hear *)
(* that it was granted a claim, and its release may be lost.               *)
Others(r) ==
    /\ \/ /\ holder[r] = "free" /\ holder' = [holder EXCEPT ![r] = "aegis"]
          /\ theirs' \in {theirs, theirs \cup {r}} /\ UNCHANGED doubtful
       \/ /\ theirs' = theirs \cup {r} /\ doubtful' = doubtful \cup {r}
          /\ UNCHANGED holder
       \/ /\ r \in theirs /\ theirs' = theirs \ {r}
          /\ \/ holder[r] = "aegis" /\ holder' = [holder EXCEPT ![r] = "free"]
             \/ UNCHANGED holder
          /\ UNCHANGED doubtful
       \/ /\ holder[r] = "free" /\ holder' = [holder EXCEPT ![r] = "other"]
          /\ UNCHANGED <<theirs, doubtful>>
       \/ /\ holder[r] = "other" /\ holder' = [holder EXCEPT ![r] = "free"]
          /\ UNCHANGED <<theirs, doubtful>>
    /\ UNCHANGED <<conn, alive, mu, nextID, cl, stdin, stdout, mine>>

-----------------------------------------------------------------------------
CallStep(c) == Lock(c) \/ Write(c) \/ ReadLine(c) \/ ReadEOF(c)

McpNext == \/ \E c \in Callers : Begin(c) \/ CallStep(c)
           \/ Close \/ Serve \/ Dies
           \/ \E r \in Reqs : Others(r)

McpSpec == McpInit /\ [][McpNext]_mcpVars

(* Goroutines run, and a child that lives answers what it has read: the    *)
(* client itself has no deadline.                                          *)
McpFairness == /\ \A c \in Callers : WF_mcpVars(CallStep(c))
               /\ WF_mcpVars(Serve)

-----------------------------------------------------------------------------
McpTypeOK ==
    /\ conn \in {"new", "open", "closed"} /\ alive \in BOOLEAN
    /\ mu \in Callers \cup {"free"} /\ nextID \in Nat
    /\ cl \in [Callers -> [pc : {"idle", "lock", "write", "read"},
                           op : {"none", "initialize", "claim", "release", "next", "health"},
                           req : Reqs \cup {"none"}, id : Nat]]
    /\ stdin \in Seq([id : Nat, op : {"initialize", "claim", "release", "next", "health"},
                      req : Reqs \cup {"none"}])
    /\ stdout \in Seq([id : Nat, ans : {"yes", "no", "mute"}])
    /\ holder \in [Reqs -> {"free", "aegis", "other"}]
    /\ mine \subseteq Reqs /\ theirs \subseteq Reqs /\ doubtful \subseteq Reqs

(* "Claim claims via the MCP server (atomic, multi-agent safe)"            *)
(* (client.go:270): a requirement the client was told it has is recorded   *)
(* for an aegis by the server and no other aegis was told it has it,       *)
(* whatever was repeated, lost, delayed or given back in between; an       *)
(* answer is never taken for that of another call.  There are two ways     *)
(* out only, both in doubtful: a refusal without content, which toolCall   *)
(* takes for a success (client.go:237-239), and a server that grants what  *)
(* the shared agent id has already.                                        *)
ClaimIsHeld == \A r \in mine \ doubtful : holder[r] = "aegis" /\ r \notin theirs

(* No call waits for ever on a child that lives and answers or has died:   *)
(* the mutex is given back on every path out of call (client.go:191-220).  *)
CallsReturn == \A c \in Callers : cl[c].pc # "idle" ~> cl[c].pc = "idle"
=============================================================================
