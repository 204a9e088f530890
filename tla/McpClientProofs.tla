-------------------------- MODULE McpClientProofs --------------------------
(***************************************************************************)
(* Proofs about McpClient, for any number of goroutines, requirements and  *)
(* calls: a claim the client was told it has is the server's record too.   *)
(***************************************************************************)
EXTENDS McpClient, TLAPS

CallOps == {"initialize", "claim", "release", "next", "health"}
CallRec == [pc : {"idle", "lock", "write", "read"}, op : CallOps \cup {"none"},
            req : Reqs \cup {"none"}, id : Nat]

(* The mutex: one call at a time is under way, with the last id given out. *)
Mutex ==
    \A c \in Callers :
        /\ cl[c].pc \in {"write", "read"} <=> mu = c
        /\ mu = c => cl[c].id = nextID /\ nextID > 0
        /\ cl[c].pc # "idle" => cl[c].op # "none"
        /\ cl[c].op \in {"claim", "release"} => cl[c].req \in Reqs

(* Of the requests the child has yet to read there is at most one, that of *)
(* the call under way, and no line answers a request before it is read.    *)
Sent ==
    /\ \A i \in 1..Len(stdout) : stdout[i].id <= nextID
    /\ \A c \in Callers :
          cl[c].pc = "write" \/ (cl[c].pc = "read" /\ stdin # <<>>) =>
              \A i \in 1..Len(stdout) : stdout[i].id < nextID
    /\ alive /\ stdin # <<>> =>
          /\ Len(stdin) = 1
          /\ \E c \in Callers :
                /\ cl[c].pc = "read"
                /\ stdin[1] = [id |-> cl[c].id, op |-> cl[c].op, req |-> cl[c].req]

(* Call c has been granted r and has not read the answer; c gives r back   *)
(* and the child has not seen it.                                          *)
Granted(r, c) ==
    /\ cl[c].pc = "read" /\ cl[c].op = "claim" /\ cl[c].req = r
    /\ \E i \in 1..Len(stdout) : stdout[i].id = cl[c].id /\ toolCall(stdout[i].ans)
Releasing(r, c) ==
    /\ cl[c].op = "release" /\ cl[c].req = r
    /\ cl[c].pc \in {"lock", "write"} \/ (cl[c].pc = "read" /\ stdin # <<>>)
Right(r, c) == Granted(r, c) \/ Releasing(r, c)

(* The child's record of r for an aegis is accounted for once at most: by  *)
(* mine, by an answer on its way, by a release on its way or by another    *)
(* process.                                                                *)
Rights ==
    \A r \in Reqs \ doubtful :
        /\ r \in mine \cup theirs => holder[r] = "aegis"
        /\ r \in mine => r \notin theirs /\ \A c \in Callers : ~Right(r, c)
        /\ \A c \in Callers : Right(r, c) => holder[r] = "aegis" /\ r \notin theirs
        /\ \A c, d \in Callers : Right(r, c) /\ Right(r, d) => c = d

McpInv == McpTypeOK /\ Mutex /\ Sent /\ Rights

Requests == [id : Nat, op : CallOps, req : Reqs \cup {"none"}]
Lines == [id : Nat, ans : {"yes", "no", "mute"}]

-----------------------------------------------------------------------------
(* McpTypeOK with its records named. *)
LEMMA TypesOf ==
    McpTypeOK <=>
        /\ conn \in {"new", "open", "closed"} /\ alive \in BOOLEAN
        /\ mu \in Callers \cup {"free"} /\ nextID \in Nat
        /\ cl \in [Callers -> CallRec]
        /\ stdin \in Seq(Requests) /\ stdout \in Seq(Lines)
        /\ holder \in [Reqs -> {"free", "aegis", "other"}]
        /\ mine \subseteq Reqs /\ theirs \subseteq Reqs /\ doubtful \subseteq Reqs
  <1>1. CallOps \cup {"none"} = {"none", "initialize", "claim", "release", "next", "health"}
      BY DEF CallOps
  <1> QED BY <1>1 DEF McpTypeOK, CallRec, Requests, Lines, CallOps

(* One call's record is replaced by another. *)
LEMMA Replaced ==
    ASSUME McpTypeOK, NEW c \in Callers, NEW new \in CallRec, cl' = [cl EXCEPT ![c] = new]
    PROVE  cl' \in [Callers -> CallRec] /\ cl'[c] = new /\ \A d \in Callers \ {c} : cl'[d] = cl[d]
  BY TypesOf

(* A step that lets go of rights and of claims, and takes nothing from the *)
(* record, keeps the account.                                              *)
LEMMA RightsShrink ==
    ASSUME Rights, mine' \subseteq mine, theirs' \subseteq theirs, doubtful \subseteq doubtful',
           \A r \in Reqs \ doubtful' : holder[r] = "aegis" => holder'[r] = "aegis",
           \A r \in Reqs, d \in Callers : Right(r, d)' => Right(r, d)
    PROVE  Rights'
  BY DEF Rights

(* Every line carries a number. *)
LEMMA LineIds ==
    ASSUME McpTypeOK
    PROVE  \A i \in 1..Len(stdout) : stdout[i] \in Lines /\ stdout[i].id \in Nat
  <1>1. \A i \in 1..Len(stdout) : stdout[i] \in Lines
      BY TypesOf
  <1> QED BY <1>1 DEF Lines

(* The lines left once the first is read. *)
LEMMA TailLines ==
    ASSUME NEW s \in Seq(Lines), s # <<>>
    PROVE  /\ Tail(s) \in Seq(Lines) /\ Len(Tail(s)) = Len(s) - 1 /\ Len(s) \in Nat \ {0}
           /\ \A i \in 1..Len(Tail(s)) : i + 1 \in 1..Len(s) /\ Tail(s)[i] = s[i + 1]
           /\ 1 \in 1..Len(s) /\ Head(s) = s[1] /\ s[1] \in Lines
  OBVIOUS

(* The lines there are after an answer: those before, the answer, a note. *)
LEMMA MoreLines ==
    ASSUME NEW s \in Seq(Lines), NEW a, NEW n, NEW t \in Seq(Lines), NEW u, u = s \o t,
           \A k \in 1..Len(t) : t[k] = a \/ t[k] = n
    PROVE  /\ u \in Seq(Lines)
           /\ \A i \in 1..Len(u) : \/ i \in 1..Len(s) /\ u[i] = s[i]
                                  \/ u[i] = a \/ u[i] = n
  OBVIOUS

-----------------------------------------------------------------------------
(* A call that returns: the mutex is free, and what was on its way for it  *)
(* is settled; mine gains its requirement only from a granted claim.       *)
LEMMA ReturnKeeps ==
    ASSUME McpInv, NEW c \in Callers, NEW ok \in BOOLEAN, Return(c, ok), mu = c,
           UNCHANGED <<nextID, stdin, holder, theirs, doubtful>>,
           stdout' \in Seq(Lines),
           \A i \in 1..Len(stdout') : \E j \in 1..Len(stdout) : stdout'[i] = stdout[j],
           alive' => stdin = <<>>,
           cl[c].op = "claim" /\ ok => Granted(cl[c].req, c)
    PROVE  McpInv'
  <1>0. NoCall \in CallRec
      BY DEF NoCall, CallRec
  <1>1. cl' \in [Callers -> CallRec] /\ cl'[c] = NoCall /\ \A d \in Callers \ {c} : cl'[d] = cl[d]
      BY <1>0, Replaced DEF McpInv, Return
  <1>2. /\ NoCall.pc = "idle" /\ NoCall.op = "none"
        /\ cl[c] \in CallRec
        /\ cl[c].op \in {"claim", "release"} => cl[c].req \in Reqs
      BY TypesOf DEF NoCall, McpInv, Mutex
  <1>3. McpTypeOK'
    <2>1. /\ conn' \in {"new", "open", "closed"} /\ alive' \in BOOLEAN
          /\ mu' \in Callers \cup {"free"} /\ mine' \subseteq Reqs
        BY <1>2, TypesOf DEF Return, McpInv
    <2> QED BY <1>1, <2>1, TypesOf DEF McpInv, McpTypeOK, CallRec, CallOps, Lines
  <1>4. Mutex'
      BY <1>1, <1>2, McpAssumption DEF McpInv, Mutex, Return
  <1>5. \A d \in Callers : cl'[d].pc \notin {"write", "read"}
      BY <1>1, <1>2 DEF McpInv, Mutex
  <1>6. Sent'
      BY <1>5 DEF McpInv, Sent
  <1>7. Rights'
    <2>1. \A r \in Reqs, d \in Callers : Right(r, d)' => d # c /\ Right(r, d)
      <3> SUFFICES ASSUME NEW r \in Reqs, NEW d \in Callers, Right(r, d)'
                   PROVE  d # c /\ Right(r, d)
          OBVIOUS
      <3>1. Releasing(r, d)' /\ cl'[d].pc = "lock"
          BY <1>5 DEF Right, Granted, Releasing
      <3> QED BY <1>1, <1>2, <3>1 DEF Right, Releasing
    <2>2. CASE mine' = mine
        BY <2>1, <2>2, RightsShrink DEF McpInv
    <2>3. CASE cl[c].op = "claim" /\ ok
      <3>1. mine' = mine \cup {cl[c].req}
          BY <2>3 DEF Return
      <3>2. cl[c].req \in Reqs
          BY <1>2, <2>3
      <3>3. Right(cl[c].req, c)
          BY <2>3 DEF Right
      <3> QED BY <2>1, <3>1, <3>2, <3>3 DEF McpInv, Rights
    <2> QED BY <2>2, <2>3 DEF Return
  <1> QED BY <1>3, <1>4, <1>6, <1>7 DEF McpInv

(* Nothing has been asked yet. *)
LEMMA InitMcpInv == McpInit => McpInv
  <1> SUFFICES ASSUME McpInit PROVE McpInv
      OBVIOUS
  <1>1. NoCall \in CallRec /\ NoCall.pc = "idle" /\ NoCall.op = "none"
      BY DEF NoCall, CallRec
  <1>2. \A c \in Callers : cl[c] = NoCall
      BY DEF McpInit
  <1>3. McpTypeOK
      BY <1>1, TypesOf DEF McpInit
  <1>4. Mutex
      BY <1>1, <1>2, McpAssumption DEF McpInit, Mutex
  <1>5. Sent
      BY <1>1, <1>2 DEF McpInit, Sent
  <1>6. Rights
      BY <1>1, <1>2 DEF McpInit, Rights, Right, Granted, Releasing
  <1> QED BY <1>3, <1>4, <1>5, <1>6 DEF McpInv

(* Begin: a goroutine waits for the mutex; with a release mine lets go. *)
LEMMA BeginKeeps ==
    ASSUME McpInv, NEW c \in Callers, Begin(c)
    PROVE  McpInv'
  <1>1. PICK new \in CallRec :
           /\ cl' = [cl EXCEPT ![c] = new] /\ new.pc = "lock" /\ new.op # "none"
           /\ new.op \in {"claim", "release"} => new.req \in Reqs
           /\ \/ new.op # "release" /\ mine' = mine
              \/ new.op = "release" /\ new.req \in mine /\ mine' = mine \ {new.req}
    <2>1. CASE /\ cl' = [cl EXCEPT ![c] = [NoCall EXCEPT !.pc = "lock", !.op = "initialize"]]
               /\ mine' = mine
      <3> DEFINE new == [NoCall EXCEPT !.pc = "lock", !.op = "initialize"]
      <3>1. new \in CallRec /\ new.pc = "lock" /\ new.op = "initialize"
          BY DEF NoCall, CallRec, CallOps
      <3>2. cl' = [cl EXCEPT ![c] = new]
          BY <2>1
      <3> HIDE DEF new
      <3> QED BY <2>1, <3>1, <3>2
    <2>2. ASSUME NEW op \in {"claim", "release", "next", "health"}, NEW r \in Reqs,
                 op = "release" => r \in mine,
                 cl' = [cl EXCEPT ![c] = [NoCall EXCEPT !.pc = "lock", !.op = op, !.req = r]],
                 mine' = IF op = "release" THEN mine \ {r} ELSE mine
          PROVE  \E new \in CallRec :
                   /\ cl' = [cl EXCEPT ![c] = new] /\ new.pc = "lock" /\ new.op # "none"
                   /\ new.op \in {"claim", "release"} => new.req \in Reqs
                   /\ \/ new.op # "release" /\ mine' = mine
                      \/ new.op = "release" /\ new.req \in mine /\ mine' = mine \ {new.req}
      <3> DEFINE new == [NoCall EXCEPT !.pc = "lock", !.op = op, !.req = r]
      <3>1. new \in CallRec /\ new.pc = "lock" /\ new.op = op /\ new.req = r
          BY DEF NoCall, CallRec, CallOps
      <3>2. cl' = [cl EXCEPT ![c] = new]
          BY <2>2
      <3> HIDE DEF new
      <3> QED BY <2>2, <3>1, <3>2
    <2> QED BY <2>1, <2>2 DEF Begin
  <1>2. /\ UNCHANGED <<conn, alive, mu, nextID, stdin, stdout, holder, theirs, doubtful>>
        /\ cl[c].pc = "idle"
      BY DEF Begin
  <1>3. cl' \in [Callers -> CallRec] /\ cl'[c] = new /\ \A d \in Callers \ {c} : cl'[d] = cl[d]
      BY <1>1, Replaced DEF McpInv
  <1>4. McpTypeOK'
    <2>1. mine' \subseteq Reqs
        BY <1>1 DEF McpInv, McpTypeOK
    <2> QED BY <1>2, <1>3, <2>1, TypesOf DEF McpInv, McpTypeOK, CallRec, CallOps
  <1>5. Mutex'
      BY <1>1, <1>2, <1>3 DEF McpInv, Mutex
  <1>6. Sent'
      BY <1>1, <1>2, <1>3 DEF McpInv, Sent
  <1>7. Rights'
    <2>1. \A r \in Reqs, d \in Callers :
             Right(r, d)' => \/ d # c /\ Right(r, d)
                             \/ d = c /\ new.op = "release" /\ r = new.req
        BY <1>1, <1>2, <1>3 DEF Right, Granted, Releasing
    <2>2. CASE new.op # "release"
        BY <1>1, <1>2, <2>1, <2>2, RightsShrink DEF McpInv
    <2>3. CASE new.op = "release"
        BY <1>1, <1>2, <2>1, <2>3 DEF McpInv, Rights
    <2> QED BY <2>2, <2>3
  <1> QED BY <1>4, <1>5, <1>6, <1>7 DEF McpInv

(* Lock: a new id, which no line carries yet. *)
LEMMA LockKeeps ==
    ASSUME McpInv, NEW c \in Callers, Lock(c)
    PROVE  McpInv'
  <1> DEFINE new == [cl[c] EXCEPT !.pc = "write", !.id = nextID + 1]
  <1>0. cl \in [Callers -> CallRec] /\ nextID \in Nat /\ nextID + 1 \in Nat
      BY TypesOf DEF McpInv
  <1>1. /\ new \in CallRec /\ new.pc = "write" /\ new.id = nextID + 1
        /\ new.op = cl[c].op /\ new.req = cl[c].req
      BY <1>0 DEF CallRec
  <1>2. cl' = [cl EXCEPT ![c] = new]
      BY <1>0 DEF Lock
  <1> HIDE DEF new
  <1>3. cl' \in [Callers -> CallRec] /\ cl'[c] = new /\ \A d \in Callers \ {c} : cl'[d] = cl[d]
      BY <1>1, <1>2, Replaced DEF McpInv
  <1>4. /\ cl[c].pc = "lock" /\ mu = "free" /\ mu' = c /\ nextID' = nextID + 1
        /\ UNCHANGED <<conn, alive, stdin, stdout, holder, mine, theirs, doubtful>>
      BY DEF Lock
  <1>5. McpTypeOK'
      BY <1>0, <1>3, <1>4, TypesOf DEF McpInv, McpTypeOK, CallRec, CallOps
  <1>a. \A d \in Callers : cl[d].pc \notin {"write", "read"}
      BY <1>4, McpAssumption DEF McpInv, Mutex
  <1>6. Mutex'
      BY <1>0, <1>1, <1>3, <1>4, <1>a DEF McpInv, Mutex
  <1>7. Sent'
    <2>1. \A i \in 1..Len(stdout) : stdout[i].id \in Nat /\ stdout[i].id <= nextID
        BY LineIds DEF McpInv, Sent
    <2>2. \A i \in 1..Len(stdout) : stdout[i].id <= nextID' /\ stdout[i].id < nextID'
        BY <1>0, <1>4, <2>1
    <2>3. ~(alive /\ stdin # <<>>)
        BY <1>a DEF McpInv, Sent
    <2> QED BY <1>4, <2>2, <2>3 DEF Sent
  <1>8. \A r \in Reqs, d \in Callers : Right(r, d)' => Right(r, d)
      BY <1>1, <1>3, <1>4 DEF Right, Granted, Releasing
  <1>9. Rights'
      BY <1>4, <1>8, RightsShrink DEF McpInv
  <1> QED BY <1>5, <1>6, <1>7, <1>9 DEF McpInv

(* Write: the request is on its way, or the pipe is broken. *)
LEMMA WriteKeeps ==
    ASSUME McpInv, NEW c \in Callers, Write(c)
    PROVE  McpInv'
  <1>0. /\ cl \in [Callers -> CallRec] /\ cl[c] \in CallRec /\ cl[c].pc = "write" /\ mu = c
        /\ cl[c].id = nextID /\ cl[c].op # "none" /\ stdin \in Seq(Requests)
        /\ stdout \in Seq(Lines)
      BY TypesOf DEF McpInv, Write, Mutex
  <1>1. CASE ~alive /\ Return(c, FALSE) /\ UNCHANGED stdin
    <2>1. ~alive' /\ UNCHANGED <<nextID, stdin, stdout, holder, theirs, doubtful>>
        BY <1>1 DEF Return, Write
    <2> QED BY <1>0, <1>1, <2>1, ReturnKeeps
  <1>2. CASE /\ alive
             /\ stdin' = Append(stdin, [id |-> cl[c].id, op |-> cl[c].op, req |-> cl[c].req])
             /\ cl' = [cl EXCEPT ![c].pc = "read"]
             /\ UNCHANGED <<conn, alive, mu, mine>>
    <2> DEFINE new == [cl[c] EXCEPT !.pc = "read"]
               q == [id |-> cl[c].id, op |-> cl[c].op, req |-> cl[c].req]
    <2>1. /\ new \in CallRec /\ new.pc = "read" /\ new.id = cl[c].id
          /\ new.op = cl[c].op /\ new.req = cl[c].req
        BY <1>0 DEF CallRec
    <2>2. cl' = [cl EXCEPT ![c] = new]
        BY <1>0, <1>2
    <2>3. q \in Requests
        BY <1>0 DEF CallRec, Requests
    <2>4. stdin = <<>>
        BY <1>0, <1>2 DEF McpInv, Sent, Mutex
    <2>5. stdin' = <<q>>
      <3> HIDE DEF q
      <3>1. stdin' = Append(<<>>, q)
          BY <1>2, <2>4 DEF q
      <3> QED BY <2>3, <3>1
    <2>6. q = [id |-> new.id, op |-> new.op, req |-> new.req]
        BY <2>1
    <2> HIDE DEF new
    <2>7. /\ stdin' \in Seq(Requests) /\ stdin' # <<>> /\ Len(stdin') = 1
          /\ stdin'[1] = [id |-> new.id, op |-> new.op, req |-> new.req]
      <3> HIDE DEF q
      <3> QED BY <2>3, <2>5, <2>6
    <2> HIDE DEF q
    <2>8. cl' \in [Callers -> CallRec] /\ cl'[c] = new /\ \A d \in Callers \ {c} : cl'[d] = cl[d]
        BY <2>1, <2>2, Replaced DEF McpInv
    <2>9. UNCHANGED <<conn, alive, mu, mine, nextID, stdout, holder, theirs, doubtful>>
        BY <1>2 DEF Write
    <2>10. McpTypeOK'
        BY <2>7, <2>8, <2>9, TypesOf DEF McpInv, McpTypeOK, CallRec, CallOps, Requests
    <2>11. Mutex'
        BY <1>0, <2>1, <2>8, <2>9 DEF McpInv, Mutex
    <2>12. \A i \in 1..Len(stdout) : stdout[i].id < nextID /\ stdout[i].id <= nextID
        BY <1>0 DEF McpInv, Sent
    <2>13. Sent'
        BY <2>1, <2>7, <2>8, <2>9, <2>12 DEF Sent
    <2>14. \A r \in Reqs, d \in Callers : Right(r, d)' => Right(r, d)
      <3> SUFFICES ASSUME NEW r \in Reqs, NEW d \in Callers, Right(r, d)'
                   PROVE  Right(r, d)
          OBVIOUS
      <3>0. nextID \in Nat /\ \A i \in 1..Len(stdout) : stdout[i].id \in Nat
          BY LineIds, TypesOf DEF McpInv
      <3>1. CASE d = c
        <4>1. ~Granted(r, c)'
            BY <1>0, <2>1, <2>8, <2>9, <2>12, <3>0 DEF Granted
        <4> QED BY <1>0, <2>1, <2>8, <3>1, <4>1 DEF Right, Releasing
      <3>2. CASE d # c
        <4>1. cl'[d] = cl[d] /\ cl[d].pc \notin {"write", "read"}
            BY <1>0, <2>8, <3>2 DEF McpInv, Mutex
        <4> QED BY <4>1 DEF Right, Granted, Releasing
      <3> QED BY <3>1, <3>2
    <2>15. Rights'
        BY <2>9, <2>14, RightsShrink DEF McpInv
    <2> QED BY <2>10, <2>11, <2>13, <2>15 DEF McpInv
  <1> QED BY <1>1, <1>2 DEF Write

(* ReadLine: a line is taken for the answer only by the call it answers. *)
LEMMA ReadLineKeeps ==
    ASSUME McpInv, NEW c \in Callers, ReadLine(c)
    PROVE  McpInv'
  <1>0. /\ cl[c].pc = "read" /\ mu = c /\ cl[c].id = nextID /\ nextID \in Nat
        /\ stdout \in Seq(Lines) /\ stdout # <<>>
      BY TypesOf DEF McpInv, ReadLine, Mutex
  <1>1. /\ stdout' = Tail(stdout) /\ UNCHANGED <<nextID, stdin, holder, theirs, doubtful>>
        /\ stdout' \in Seq(Lines) /\ Head(stdout) = stdout[1] /\ 1 \in 1..Len(stdout)
        /\ Head(stdout) \in Lines
        /\ \A i \in 1..Len(stdout') : i + 1 \in 1..Len(stdout) /\ stdout'[i] = stdout[i + 1]
      BY <1>0, TailLines DEF ReadLine
  <1>2. Head(stdout).id \in Nat /\ toolCall(Head(stdout).ans) \in BOOLEAN
      BY <1>1 DEF Lines, toolCall
  <1>3. \A i \in 1..Len(stdout') : \E j \in 1..Len(stdout) : stdout'[i] = stdout[j]
      BY <1>1
  <1>4. CASE Head(stdout).id = cl[c].id
    <2>1. Return(c, toolCall(Head(stdout).ans))
        BY <1>4 DEF ReadLine
    <2>2. stdin = <<>>
        BY <1>0, <1>1, <1>2, <1>4 DEF McpInv, Sent
    <2>3. cl[c].op = "claim" /\ toolCall(Head(stdout).ans) => Granted(cl[c].req, c)
        BY <1>0, <1>1, <1>4 DEF Granted
    <2> QED BY <1>0, <1>1, <1>2, <1>3, <2>1, <2>2, <2>3, ReturnKeeps
  <1>5. CASE Head(stdout).id # cl[c].id
    <2>1. UNCHANGED <<conn, alive, mu, cl, mine, nextID, stdin, holder, theirs, doubtful>>
        BY <1>1, <1>5 DEF ReadLine
    <2>2. McpTypeOK'
        BY <1>1, <2>1 DEF McpInv, McpTypeOK, Lines
    <2>3. Mutex'
        BY <2>1 DEF McpInv, Mutex
    <2>4. Sent'
        BY <1>3, <2>1 DEF McpInv, Sent
    <2>5. \A r \in Reqs, d \in Callers : Right(r, d)' => Right(r, d)
        BY <1>3, <2>1 DEF Right, Granted, Releasing
    <2>6. Rights'
        BY <2>1, <2>5, RightsShrink DEF McpInv
    <2> QED BY <2>2, <2>3, <2>4, <2>6 DEF McpInv
  <1> QED BY <1>4, <1>5

(* ReadEOF: the call fails; the child will read nothing more. *)
LEMMA ReadEOFKeeps ==
    ASSUME McpInv, NEW c \in Callers, ReadEOF(c)
    PROVE  McpInv'
  <1>1. /\ cl[c].pc = "read" /\ mu = c /\ ~alive /\ Return(c, FALSE)
        /\ UNCHANGED <<nextID, stdin, stdout, holder, theirs, doubtful>> /\ stdout \in Seq(Lines)
      BY TypesOf DEF McpInv, Mutex, ReadEOF
  <1>2. ~alive'
      BY <1>1 DEF Return
  <1> QED BY <1>1, <1>2, ReturnKeeps

(* The connection closes or the child dies: nothing else changes. *)
LEMMA DeathKeeps ==
    ASSUME McpInv, ~alive', conn' \in {"new", "open", "closed"}, alive' \in BOOLEAN,
           UNCHANGED <<mu, nextID, cl, stdin, stdout, holder, mine, theirs, doubtful>>
    PROVE  McpInv'
  <1>1. McpTypeOK' /\ Mutex' /\ Sent'
      BY DEF McpInv, McpTypeOK, Mutex, Sent
  <1>2. \A r \in Reqs, d \in Callers : Right(r, d)' => Right(r, d)
      BY DEF Right, Granted, Releasing
  <1> QED BY <1>1, <1>2, RightsShrink DEF McpInv

(* Serve: a claim is granted when nobody has it, a release frees what only *)
(* that release accounts for.                                              *)
LEMMA ServeKeeps ==
    ASSUME McpInv, Serve
    PROVE  McpInv'
  <1> DEFINE q == Head(stdin)
  <1>1. /\ alive /\ stdin # <<>> /\ stdin \in Seq(Requests) /\ stdout \in Seq(Lines)
        /\ Len(stdin) = 1 /\ nextID \in Nat
        /\ UNCHANGED <<conn, alive, mu, nextID, cl, mine, theirs>> /\ stdin' = Tail(stdin)
      BY TypesOf DEF McpInv, Sent, Serve
  <1>2. PICK c \in Callers :
           /\ cl[c].pc = "read"
           /\ stdin[1] = [id |-> cl[c].id, op |-> cl[c].op, req |-> cl[c].req]
      BY <1>1 DEF McpInv, Sent
  <1>3. stdin' = <<>> /\ q = stdin[1] /\ q \in Requests
      BY <1>1
  <1>4. /\ q.id = cl[c].id /\ q.op = cl[c].op /\ q.req = cl[c].req /\ q.id \in Nat
      BY <1>2, <1>3 DEF Requests
  <1>5. /\ mu = c /\ cl[c].id = nextID /\ nextID > 0
        /\ cl[c].op \in {"claim", "release"} => cl[c].req \in Reqs
        /\ \A d \in Callers : d # c => cl[d].pc \notin {"write", "read"}
      BY <1>2 DEF McpInv, Mutex
  <1>6. PICK ans \in {"yes", "no", "mute"} :
           /\ ans = "yes" => /\ q.op = "claim" => holder[q.req] # "other"
                             /\ q.op = "release" => holder[q.req] = "aegis"
           /\ \E lines \in {<<[id |-> q.id, ans |-> ans]>>,
                            <<[id |-> q.id, ans |-> ans], [id |-> q.id, ans |-> ans]>>,
                            <<[id |-> 0, ans |-> "yes"], [id |-> q.id, ans |-> ans]>>} :
                 stdout' = stdout \o lines
           /\ holder' = IF ans = "yes" /\ q.op = "claim"
                        THEN [holder EXCEPT ![q.req] = "aegis"]
                        ELSE IF ans = "yes" /\ q.op = "release"
                        THEN [holder EXCEPT ![q.req] = "free"] ELSE holder
           /\ doubtful' = IF /\ q.op = "claim"
                             /\ ans = "mute" \/ (ans = "yes" /\ holder[q.req] = "aegis")
                          THEN doubtful \cup {q.req} ELSE doubtful
      BY DEF Serve
  <1> HIDE DEF q
  <1>7. /\ ans = "yes" => /\ cl[c].op = "claim" => holder[cl[c].req] # "other"
                          /\ cl[c].op = "release" => holder[cl[c].req] = "aegis"
        /\ doubtful \subseteq doubtful'
        /\ cl[c].op = "claim" /\ ans # "no" /\ cl[c].req \notin doubtful' =>
              ans = "yes" /\ holder[cl[c].req] # "aegis"
        /\ doubtful' \subseteq Reqs
      BY <1>4, <1>5, <1>6 DEF McpInv, McpTypeOK
  <1> DEFINE a == [id |-> q.id, ans |-> ans]
             n == [id |-> 0, ans |-> "yes"]
  <1>8. a \in Lines /\ n \in Lines /\ a.id = nextID /\ a.ans = ans /\ n.id = 0
      BY <1>4, <1>5, <1>6 DEF Lines
  <1>9. PICK lines \in {<<a>>, <<a, a>>, <<n, a>>} : stdout' = stdout \o lines
      BY <1>6
  <1> HIDE DEF a, n
  <1>10. /\ stdout' \in Seq(Lines)
         /\ \A i \in 1..Len(stdout') : \/ i \in 1..Len(stdout) /\ stdout'[i] = stdout[i]
                                       \/ stdout'[i] = a \/ stdout'[i] = n
    <2>1. lines \in Seq(Lines) /\ \A k \in 1..Len(lines) : lines[k] = a \/ lines[k] = n
      <3>1. CASE lines = <<a>> BY <1>8, <3>1
      <3>2. CASE lines = <<a, a>> BY <1>8, <3>2
      <3>3. CASE lines = <<n, a>> BY <1>8, <3>3
      <3> QED BY <1>9, <3>1, <3>2, <3>3
    <2>2. stdout' = stdout \o lines BY <1>9
    <2>3. stdout \in Seq(Lines) BY <1>1
    <2> QED BY <2>1, <2>2, <2>3, MoreLines
  <1>11. /\ holder' \in [Reqs -> {"free", "aegis", "other"}]
         /\ \A r \in Reqs :
               holder'[r] = IF ans = "yes" /\ cl[c].op = "claim" /\ r = cl[c].req THEN "aegis"
                            ELSE IF ans = "yes" /\ cl[c].op = "release" /\ r = cl[c].req THEN "free"
                            ELSE holder[r]
    <2>1. holder \in [Reqs -> {"free", "aegis", "other"}]
        BY DEF McpInv, McpTypeOK
    <2>2. holder' = IF ans = "yes" /\ cl[c].op = "claim" THEN [holder EXCEPT ![cl[c].req] = "aegis"]
                    ELSE IF ans = "yes" /\ cl[c].op = "release"
                    THEN [holder EXCEPT ![cl[c].req] = "free"] ELSE holder
        BY <1>4, <1>6
    <2> QED BY <1>5, <2>1, <2>2
  <1>12. McpTypeOK'
    <2>1. stdin' \in Seq(Requests)
        BY <1>3
    <2> QED BY <1>1, <1>7, <1>10, <1>11, <2>1 DEF McpInv, McpTypeOK, Lines, Requests, CallOps
  <1>13. Mutex'
      BY <1>1 DEF McpInv, Mutex
  <1>14. Sent'
    <2>1. \A i \in 1..Len(stdout') : stdout'[i].id <= nextID
        BY <1>1, <1>5, <1>8, <1>10 DEF McpInv, Sent
    <2>2. \A d \in Callers : cl[d].pc # "write"
        BY <1>2, <1>5
    <2> QED BY <1>1, <1>3, <2>1, <2>2 DEF Sent
  <1>15. \A i \in 1..Len(stdout) : stdout[i].id # nextID
    <2>1. \A i \in 1..Len(stdout) : stdout[i].id \in Nat /\ stdout[i].id < nextID
        BY <1>1, <1>2, LineIds DEF McpInv, Sent
    <2> QED BY <1>1, <2>1
  <1>16. \A r \in Reqs, d \in Callers :
            Right(r, d)' => \/ d # c /\ Right(r, d)
                            \/ d = c /\ ans # "no" /\ cl[c].op = "claim" /\ r = cl[c].req
    <2> SUFFICES ASSUME NEW r \in Reqs, NEW d \in Callers, Right(r, d)'
                 PROVE  \/ d # c /\ Right(r, d)
                        \/ d = c /\ ans # "no" /\ cl[c].op = "claim" /\ r = cl[c].req
        OBVIOUS
    <2>1. CASE d # c
      <3>1. cl'[d] = cl[d] /\ cl[d].pc \notin {"write", "read"}
          BY <1>1, <1>5, <2>1
      <3> QED BY <2>1, <3>1 DEF Right, Granted, Releasing
    <2>2. CASE d = c
      <3>1. Granted(r, c)'
          BY <1>1, <1>2, <1>3, <2>2 DEF Right, Releasing
      <3>2. PICK i \in 1..Len(stdout') : stdout'[i].id = nextID /\ stdout'[i].ans # "no"
          BY <1>1, <1>5, <3>1 DEF Granted, toolCall
      <3>3. stdout'[i] = a
          BY <1>1, <1>5, <1>8, <1>10, <1>15, <3>2
      <3> QED BY <1>1, <1>8, <2>2, <3>1, <3>2, <3>3 DEF Granted
    <2> QED BY <2>1, <2>2
  <1>17. Rights'
    <2>0. \A r \in Reqs \ doubtful' : r \in Reqs \ doubtful
        BY <1>7
    <2>1. CASE ans # "no" /\ cl[c].op = "claim"
      <3>1. cl[c].req \in Reqs
          BY <1>5, <2>1
      <3>2. cl[c].req \notin doubtful' =>
               /\ holder'[cl[c].req] = "aegis" /\ cl[c].req \notin mine \cup theirs
               /\ \A d \in Callers : ~Right(cl[c].req, d)
          BY <1>7, <1>11, <2>0, <2>1, <3>1 DEF McpInv, Rights
      <3> QED BY <1>1, <1>11, <1>16, <2>0, <2>1, <3>1, <3>2 DEF McpInv, Rights
    <2>2. CASE ans = "yes" /\ cl[c].op = "release"
      <3>1. cl[c].req \in Reqs /\ Right(cl[c].req, c)
          BY <1>1, <1>2, <1>5, <2>2 DEF Right, Releasing
      <3>2. cl[c].req \notin doubtful' =>
               /\ cl[c].req \notin mine \cup theirs
               /\ \A d \in Callers : Right(cl[c].req, d) => d = c
          BY <2>0, <3>1 DEF McpInv, Rights
      <3> QED BY <1>1, <1>11, <1>16, <2>0, <2>2, <3>1, <3>2 DEF McpInv, Rights
    <2>3. CASE ans = "no" \/ cl[c].op \notin {"claim", "release"}
        BY <1>1, <1>7, <1>11, <1>16, <2>3, RightsShrink DEF McpInv
    <2>4. CASE ans = "mute" /\ cl[c].op = "release"
        BY <1>1, <1>7, <1>11, <1>16, <2>4, RightsShrink DEF McpInv
    <2> QED BY <2>1, <2>2, <2>3, <2>4
  <1> QED BY <1>12, <1>13, <1>14, <1>17 DEF McpInv

(* Another agent's claims are none of ours. *)
LEMMA OthersKeeps ==
    ASSUME McpInv, NEW r \in Reqs, Others(r)
    PROVE  McpInv'
  <1>1. UNCHANGED <<conn, alive, mu, nextID, cl, stdin, stdout, mine>>
      BY DEF Others
  <1>2. /\ holder' \in [Reqs -> {"free", "aegis", "other"}]
        /\ theirs' \subseteq Reqs /\ doubtful' \subseteq Reqs /\ doubtful \subseteq doubtful'
        /\ \A s \in Reqs \ {r} : /\ holder'[s] = holder[s]
                                 /\ s \in theirs' <=> s \in theirs
                                 /\ s \in doubtful' <=> s \in doubtful
      BY DEF Others, McpInv, McpTypeOK
  <1>3. McpTypeOK'
      BY <1>1, <1>2 DEF McpInv, McpTypeOK
  <1>4. Mutex' /\ Sent'
      BY <1>1 DEF McpInv, Mutex, Sent
  <1>5. \A s \in Reqs, d \in Callers : Right(s, d)' <=> Right(s, d)
      BY <1>1 DEF Right, Granted, Releasing
  <1>6. r \notin doubtful' =>
           /\ r \notin doubtful
           /\ holder[r] # "aegis" \/ r \in theirs
           /\ r \in theirs' => r \in theirs \/ holder'[r] = "aegis"
           /\ r \in theirs /\ r \in theirs' => holder[r] # "aegis" \/ holder'[r] = "aegis"
      BY DEF Others, McpInv, McpTypeOK
  <1>7. Rights'
    <2>1. r \notin doubtful' =>
             /\ r \notin mine /\ \A c \in Callers : ~Right(r, c)
             /\ r \in theirs' => holder'[r] = "aegis"
        BY <1>6 DEF McpInv, Rights
    <2>2. \A s \in Reqs \ doubtful' : s # r => s \in Reqs \ doubtful
        BY <1>2
    <2> SUFFICES ASSUME NEW s \in Reqs \ doubtful'
                 PROVE  /\ s \in mine \cup theirs' => holder'[s] = "aegis"
                        /\ s \in mine => s \notin theirs' /\ \A c \in Callers : ~Right(s, c)
                        /\ \A c \in Callers :
                              Right(s, c) => holder'[s] = "aegis" /\ s \notin theirs'
                        /\ \A c, d \in Callers : Right(s, c) /\ Right(s, d) => c = d
        BY <1>1, <1>5 DEF Rights
    <2>3. CASE s = r
        BY <2>1, <2>3
    <2>4. CASE s # r
        BY <1>2, <2>2, <2>4 DEF McpInv, Rights
    <2> QED BY <2>3, <2>4
  <1> QED BY <1>3, <1>4, <1>7 DEF McpInv

(* Every step of a goroutine, of the child or of another agent keeps the   *)
(* invariant.                                                              *)
LEMMA NextMcpInv == McpInv /\ [McpNext]_mcpVars => McpInv'
  <1> SUFFICES ASSUME McpInv, [McpNext]_mcpVars PROVE McpInv'
      OBVIOUS
  <1>1. CASE UNCHANGED mcpVars
    <2>1. UNCHANGED <<conn, alive, mu, nextID, cl, stdin, stdout, holder, mine, theirs, doubtful>>
        BY <1>1 DEF mcpVars
    <2>2. McpTypeOK' /\ Mutex' /\ Sent'
        BY <2>1 DEF McpInv, McpTypeOK, Mutex, Sent
    <2>3. \A r \in Reqs, d \in Callers : Right(r, d)' => Right(r, d)
        BY <2>1 DEF Right, Granted, Releasing
    <2> QED BY <2>1, <2>2, <2>3, RightsShrink DEF McpInv
  <1>2. ASSUME NEW c \in Callers, Begin(c) \/ CallStep(c) PROVE McpInv'
      BY <1>2, BeginKeeps, LockKeeps, WriteKeeps, ReadLineKeeps, ReadEOFKeeps DEF CallStep
  <1>3. CASE Close \/ Dies
      BY <1>3, DeathKeeps DEF Close, Dies, McpInv, McpTypeOK
  <1>4. ASSUME NEW r \in Reqs, Others(r) PROVE McpInv'
      BY <1>4, OthersKeeps
  <1> QED BY <1>1, <1>2, <1>3, <1>4, ServeKeeps DEF McpNext

(* The inductive invariant holds of every behaviour, whatever the number   *)
(* of goroutines, requirements and calls.                                  *)
THEOREM McpInvariance == McpSpec => []McpInv
  BY InitMcpInv, NextMcpInv, PTL DEF McpSpec

(* What Claim said is held is held, by an aegis and by no other one,       *)
(* however answers were repeated, lost or mixed with notifications, unless *)
(* a claim of it was refused without content or granted twice to the one   *)
(* agent id (call, toolCall and Claim of client.go).                       *)
THEOREM ClaimsAreHeld == McpSpec => []ClaimIsHeld
  <1>1. McpInv => ClaimIsHeld
      BY DEF McpInv, Rights, ClaimIsHeld, McpTypeOK
  <1> QED BY <1>1, McpInvariance, PTL
=============================================================================
