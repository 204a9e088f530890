--------------------------- MODULE SharedBacklog ---------------------------
(***************************************************************************)
(* Several aegis loop processes (agents) draining one rtmx backlog through *)
(* the CSV client: what each may do to database.csv and to the claims      *)
(* directory, step by step.  Every file operation of Store is a step of    *)
(* its own, so the steps of the agents interleave where the processes do:  *)
(* Next reads the rows and then stats one claim file after another, Claim  *)
(* comes later, and SetStatus reads the file some time before it renames   *)
(* the new one over it.                                                    *)
(*                                                                         *)
(* Working a requirement (drive and verify, up to Retries + 1 times) is    *)
(* one step here, with either outcome; ControlLoop has its detail and is   *)
(* shown to implement this specification.                                  *)
(***************************************************************************)
EXTENDS RtmxStore, FiniteSets

CONSTANTS Agents,     \* the loop processes
          Faults,     \* which disturbances of AllFaults occur
          InitStatus  \* the statuses rows may have at the start

(* io: an operation on a file fails; crash: a process dies; restart: a     *)
(* process that has ended is started again; stop: Run ends before the      *)
(* backlog is drained (--once, breaker, budget, cancellation); operator: a *)
(* person edits the database with the rtmx tool meanwhile.                 *)
AllFaults == {"io", "crash", "restart", "stop", "operator"}

ASSUME BacklogAssumption == /\ Faults \subseteq AllFaults
                            /\ InitStatus \subseteq CsvStatus
                            /\ InitStatus # {}

VARIABLES pc,        \* where each agent is
          rows,      \* the rows an agent's Next or SetStatus has read
          cur,       \* the row it is looking at, then working; 0 is none
          verdict,   \* the status work decided on
          verified,  \* history: requirements whose verification has passed
          approved   \* history: requirements that have left PROPOSED

agentVars == <<pc, rows, cur, verdict>>
vars == <<storeVars, agentVars, verified, approved>>

Working == {"work", "read", "write", "release"}         \* the claim is held
Halted  == {"drained", "failed", "stopped", "down"}     \* Run has ended
Labels  == {"top", "scan", "claim"} \cup Working \cup Halted

NoRows == [r \in Req |-> "PROPOSED"]   \* nothing read: no claimable row

TypeOK == /\ StoreTypeOK
          /\ pc \in [Agents -> Labels]
          /\ rows \in [Agents -> [Req -> CsvStatus]]
          /\ cur \in [Agents -> Req \cup {0}]
          /\ verdict \in [Agents -> {"none", "closed", "blocked"}]
          /\ verified \subseteq Req
          /\ approved \subseteq Req

Init == /\ db \in [Req -> InitStatus]
        /\ claims = {}
        /\ pc = [p \in Agents |-> "top"]
        /\ rows = [p \in Agents |-> NoRows]
        /\ cur = [p \in Agents |-> 0]
        /\ verdict = [p \in Agents |-> "none"]
        /\ verified = {r \in Req : statusFromCSV(db[r]) = "closed"}
        /\ approved = {r \in Req : statusFromCSV(db[r]) # "proposed"}

-----------------------------------------------------------------------------
(* Run ends for p, with its locals gone and its claim, if any, left alone. *)
Return(p, how) ==
    /\ pc' = [pc EXCEPT ![p] = how]
    /\ rows' = [rows EXCEPT ![p] = NoRows]
    /\ cur' = [cur EXCEPT ![p] = 0]
    /\ verdict' = [verdict EXCEPT ![p] = "none"]

Goto(p, label) == pc' = [pc EXCEPT ![p] = label]

(* Store.Next, first half: read and parse the whole file. *)
ReadRows(p) ==
    /\ pc[p] = "top"
    /\ \/ /\ Goto(p, "scan")
          /\ rows' = [rows EXCEPT ![p] = db]
          /\ cur' = [cur EXCEPT ![p] = 1]
          /\ UNCHANGED verdict
       \/ /\ "io" \in Faults
          /\ Return(p, "failed")
    /\ UNCHANGED <<storeVars, verified, approved>>

(* Slip: the scan ends one row early. *)
ScanRow_OffByOne(p) ==
    /\ pc[p] = "scan"
    /\ \/ /\ claimable(rows[p], cur[p])
          /\ Goto(p, "claim")
          /\ rows' = [rows EXCEPT ![p] = NoRows]
          /\ UNCHANGED <<cur, verdict>>
       \/ /\ ~ claimable(rows[p], cur[p])
          /\ IF cur[p] < N - 1
                THEN /\ cur' = [cur EXCEPT ![p] = cur[p] + 1]
                     /\ UNCHANGED <<pc, rows, verdict>>
                ELSE Return(p, "drained")
    /\ UNCHANGED <<storeVars, verified, approved>>

(* Store.Next, second half: look at the rows in file order, the claim file *)
(* of each at the moment it is looked at; nil after the last one.          *)
ScanRow(p) ==
    /\ pc[p] = "scan"
    /\ \/ /\ claimable(rows[p], cur[p])
          /\ Goto(p, "claim")
          /\ rows' = [rows EXCEPT ![p] = NoRows]
          /\ UNCHANGED <<cur, verdict>>
       \/ /\ ~ claimable(rows[p], cur[p])
          /\ cur[p] < N
          /\ cur' = [cur EXCEPT ![p] = cur[p] + 1]
          /\ UNCHANGED <<pc, rows, verdict>>
       \/ /\ ~ claimable(rows[p], cur[p])
          /\ cur[p] = N
          /\ Return(p, "drained")
    /\ UNCHANGED <<storeVars, verified, approved>>

(* work's Claim; if another agent has the claim by now, the whole Run ends *)
(* with an error.                                                          *)
TryClaim(p) ==
    /\ pc[p] = "claim"
    /\ \/ /\ Claim(cur[p])
          /\ Goto(p, "work")
          /\ UNCHANGED <<rows, cur, verdict>>
       \/ /\ isClaimed(cur[p]) \/ "io" \in Faults
          /\ Return(p, "failed")
          /\ UNCHANGED claims
    /\ UNCHANGED <<db, verified, approved>>

(* Slip: the verification's result is not looked at. *)
Work_Unverified(p) ==
    /\ pc[p] = "work"
    /\ Goto(p, "read")
    /\ verdict' = [verdict EXCEPT ![p] = "closed"]
    /\ UNCHANGED <<storeVars, rows, cur, verified, approved>>

(* Drive and verify until a verification passes or the attempts are used up. *)
Work(p) ==
    /\ pc[p] = "work"
    /\ Goto(p, "read")
    /\ \/ /\ verdict' = [verdict EXCEPT ![p] = "closed"]
          /\ verified' = verified \cup {cur[p]}
       \/ /\ verdict' = [verdict EXCEPT ![p] = "blocked"]
          /\ UNCHANGED verified
    /\ UNCHANGED <<storeVars, rows, cur, approved>>

(* SetStatus reads the file; if it cannot, work returns the error without  *)
(* releasing the claim.                                                    *)
ReadForStatus(p) ==
    /\ pc[p] = "read"
    /\ \/ /\ Goto(p, "write")
          /\ rows' = [rows EXCEPT ![p] = db]
          /\ UNCHANGED <<cur, verdict>>
       \/ /\ "io" \in Faults
          /\ Return(p, "failed")
    /\ UNCHANGED <<storeVars, verified, approved>>

(* SetStatus renames the rewritten rows over the file, or fails likewise. *)
WriteStatus(p) ==
    /\ pc[p] = "write"
    /\ \/ /\ SetStatus(rows[p], cur[p], verdict[p])
          /\ Goto(p, "release")
          /\ rows' = [rows EXCEPT ![p] = NoRows]
          /\ UNCHANGED <<cur, verdict>>
       \/ /\ "io" \in Faults
          /\ Return(p, "failed")
          /\ UNCHANGED db
    /\ UNCHANGED <<claims, verified, approved>>

(* Release, whose error work ignores; then back to the top of Run. *)
ReleaseClaim(p) ==
    /\ pc[p] = "release"
    /\ \/ Release(cur[p])
       \/ "io" \in Faults /\ UNCHANGED claims
    /\ Return(p, "top")
    /\ UNCHANGED <<db, verified, approved>>

(* A stop condition ends Run between two requirements. *)
Stop(p) ==
    /\ "stop" \in Faults
    /\ pc[p] = "top"
    /\ Return(p, "stopped")
    /\ UNCHANGED <<storeVars, verified, approved>>

(* The process dies; nothing removes its claim file. *)
Crash(p) ==
    /\ "crash" \in Faults
    /\ pc[p] \notin Halted
    /\ Return(p, "down")
    /\ UNCHANGED <<storeVars, verified, approved>>

(* aegis loop is started again. *)
Restart(p) ==
    /\ "restart" \in Faults
    /\ pc[p] \in Halted
    /\ Return(p, "top")
    /\ UNCHANGED <<storeVars, verified, approved>>

(* A person approves a proposed requirement, or reopens a parked one. *)
Reopen(r) ==
    /\ "operator" \in Faults
    /\ statusFromCSV(db[r]) \in {"proposed", "blocked"}
    /\ db' = [db EXCEPT ![r] = "OPEN"]
    /\ approved' = approved \cup {r}
    /\ UNCHANGED <<claims, agentVars, verified>>

Step(p) == \/ ReadRows(p) \/ ScanRow(p) \/ TryClaim(p) \/ Work(p)
           \/ ReadForStatus(p) \/ WriteStatus(p) \/ ReleaseClaim(p)

Next == \/ \E p \in Agents : Step(p) \/ Stop(p) \/ Crash(p) \/ Restart(p)
        \/ \E r \in Req : Reopen(r)

Spec == Init /\ [][Next]_vars

FairSpec == Spec /\ \A p \in Agents : WF_vars(Step(p))
-----------------------------------------------------------------------------
(* REQ-RTMX-002, "no double-claim": two processes that are both between a  *)
(* successful Claim and its Release never work the same requirement.       *)
ClaimExclusion ==
    \A p, q \in Agents :
        pc[p] \in Working /\ pc[q] \in Working /\ cur[p] = cur[q] => p = q

(* A row of database.csv says COMPLETE only if the requirement's           *)
(* verification has passed at some time, whatever stale rows SetStatus     *)
(* writes back.                                                            *)
ClosedOnlyByVerify == \A r \in Req : db[r] = "COMPLETE" => r \in verified

(* The human gate on decomposition: no process works a requirement that a  *)
(* person has not taken out of PROPOSED.                                   *)
ApprovedOnly == \A p \in Agents : pc[p] \in Working => cur[p] \in approved

(* Next's dependency scan: a requirement is worked only after every one of *)
(* its dependencies has been verified, even if rows are lost meanwhile.    *)
DependenciesVerifiedFirst ==
    \A p \in Agents : pc[p] \in Working => Deps[cur[p]] \subseteq verified

(* "Drains the backlog until it is empty" (Run): once every process has    *)
(* returned, undisturbed, no requirement is left that Next would hand out, *)
(* although each of them may have seen the others' claims and left.        *)
DrainLeavesNothingReady ==
    (\A p \in Agents : pc[p] \in {"drained", "failed"})
        => \A r \in Req : ~ claimable(db, r)

(* Run returns when two processes share a backlog: although SetStatus may  *)
(* undo what the other has written, two cannot keep each other busy for    *)
(* ever.  (Three can: only the budget and the wall clock end them then.)   *)
PairReturns ==
    Cardinality(Agents) <= 2 => \A p \in Agents : <>(pc[p] \in Halted)

(* SetStatus "rewrites the requirement's status in the CSV": a write       *)
(* changes the row of the requirement it is for and no other.              *)
SetStatusWritesOneRow ==
    [][\A p \in Agents : pc[p] = "write" /\ pc'[p] = "release" =>
           \A r \in Req \ {cur[p]} : db'[r] = db[r]]_vars

(* work: "The claim is released on every exit path": a claim file belongs  *)
(* to a process that is working the requirement.                           *)
ClaimReleasedOnExit ==
    \A r \in claims : \E p \in Agents : pc[p] \in Working /\ cur[p] = r
=============================================================================
