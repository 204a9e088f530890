------------------------ MODULE SharedBacklogProofs ------------------------
(***************************************************************************)
(* Proofs about SharedBacklog, for any number of agents, any backlog, any  *)
(* dependencies and every subset of the faults.                            *)
(*                                                                         *)
(* The invariants are not inductive one by one: what an agent may do next  *)
(* depends on the rows it read some steps ago, so IInv also says what is   *)
(* known of those stale rows and of the row an agent has chosen.           *)
(***************************************************************************)
EXTENDS SharedBacklog, TLAPS

Deciding == {"read", "write", "release"}   \* work's outcome is known

(* An agent past Next has chosen a row; while it works it, the claim file  *)
(* exists, and no two agents share one.                                    *)
HoldsClaim ==
    /\ \A p \in Agents : pc[p] \in {"scan", "claim"} \cup Working => cur[p] \in Req
    /\ \A p \in Agents : pc[p] \in Working => cur[p] \in claims
    /\ ClaimExclusion

(* COMPLETE means verified in the file and in every copy an agent has read *)
(* of it, and an agent about to write closed has verified its requirement. *)
Evidence ==
    /\ ClosedOnlyByVerify
    /\ \A p \in Agents : \A r \in Req : rows[p][r] = "COMPLETE" => r \in verified
    /\ \A p \in Agents : pc[p] \in Deciding /\ verdict[p] = "closed" => cur[p] \in verified

(* What is not approved is PROPOSED in the file and in every copy of it,   *)
(* so it is never chosen.                                                  *)
Gate ==
    /\ \A r \in Req \ approved : db[r] = "PROPOSED"
    /\ \A p \in Agents : \A r \in Req \ approved : rows[p][r] = "PROPOSED"
    /\ \A p \in Agents : pc[p] \in {"claim"} \cup Working => cur[p] \in approved

(* The dependencies of a chosen row have been verified. *)
DepsDone ==
    \A p \in Agents :
        pc[p] \in {"claim"} \cup Working => Deps[cur[p]] \subseteq verified

(* work has decided when it writes: it never writes "none", which would    *)
(* read OPEN.                                                              *)
Decided == \A p \in Agents : pc[p] \in Deciding => verdict[p] \in {"closed", "blocked"}

IInv == TypeOK /\ HoldsClaim /\ Evidence /\ Gate /\ DepsDone /\ Decided

-----------------------------------------------------------------------------
(* A requirement that Next would hand out has all its dependencies closed, *)
(* and is itself neither closed, blocked nor proposed, in the rows read.   *)
LEMMA ClaimableRow ==
    ASSUME NEW rs \in [Req -> CsvStatus], NEW r \in Req, claimable(rs, r)
    PROVE  /\ rs[r] \notin {"COMPLETE", "BLOCKED", "PROPOSED"}
           /\ \A d \in Deps[r] : d \in Req /\ rs[d] = "COMPLETE"
  BY DEF claimable, ready, statusFromCSV, CsvStatus

(* The row SetStatus writes is one of the column's texts, COMPLETE only    *)
(* for closed and never PROPOSED for the two outcomes of work.             *)
LEMMA WrittenStatus ==
    ASSUME NEW st \in {"closed", "blocked"}
    PROVE  /\ statusToCSV(st) \in CsvStatus \ {"PROPOSED"}
           /\ statusToCSV(st) = "COMPLETE" => st = "closed"
  BY DEF statusToCSV, CsvStatus

(* The files as they are found when the agents start satisfy IInv. *)
LEMMA InitIInv == Init => IInv
  <1> SUFFICES ASSUME Init PROVE IInv
      OBVIOUS
  <1> USE BacklogAssumption, StoreAssumption
  <1>1. TypeOK
      BY DEF Init, TypeOK, StoreTypeOK, Labels, NoRows, CsvStatus
  <1>2. HoldsClaim
      BY DEF Init, HoldsClaim, ClaimExclusion, Working
  <1>3. \A r \in Req : db[r] \in CsvStatus
      BY <1>1 DEF TypeOK, StoreTypeOK
  <1>4. Evidence
      BY <1>3 DEF Init, Evidence, ClosedOnlyByVerify, Deciding, NoRows, statusFromCSV
  <1>5. Gate
    <2>1. \A r \in Req \ approved : db[r] = "PROPOSED"
        BY <1>3 DEF Init, statusFromCSV, CsvStatus
    <2> QED BY <2>1 DEF Init, Gate, NoRows, Working
  <1>6. DepsDone /\ Decided
      BY DEF Init, DepsDone, Decided, Working, Deciding
  <1> QED BY <1>1, <1>2, <1>4, <1>5, <1>6 DEF IInv

(* The parts of IInv that speak of agents say nothing of one that is back  *)
(* at the top or has ended.  So a Return keeps IInv when it leaves the     *)
(* file and the histories alone and removes, of the claims, at most the    *)
(* one the agent itself is working under.                                  *)
LEMMA ReturnIInv ==
    ASSUME IInv, NEW p \in Agents, NEW how \in {"top"} \cup Halted,
           Return(p, how), UNCHANGED <<db, verified, approved>>,
           \/ UNCHANGED claims
           \/ pc[p] \in Working /\ claims' = claims \ {cur[p]}
    PROVE  IInv'
  <1> USE DEF IInv
  <1>1. TypeOK'
      BY DEF TypeOK, StoreTypeOK, Return, Labels, NoRows, CsvStatus
  <1>2. /\ pc'[p] = how /\ how \notin {"scan", "claim"} \cup Working
        /\ \A q \in Agents \ {p} : /\ pc'[q] = pc[q] /\ cur'[q] = cur[q]
                                   /\ verdict'[q] = verdict[q]
                                   /\ rows'[q] = rows[q]
        /\ \A r \in Req : rows'[p][r] = "PROPOSED"
      BY DEF TypeOK, Return, NoRows, Halted, Working
  <1>3. HoldsClaim'
      BY <1>2 DEF HoldsClaim, ClaimExclusion
  <1>4. Evidence'
      BY <1>2 DEF Evidence, ClosedOnlyByVerify, Deciding, Working
  <1>5. Gate'
      BY <1>2 DEF Gate
  <1>6. DepsDone' /\ Decided'
      BY <1>2 DEF DepsDone, Decided, Deciding, Working
  <1> QED BY <1>1, <1>3, <1>4, <1>5, <1>6

(* Every step of an agent or of the operator keeps IInv. *)
LEMMA NextIInv == IInv /\ [Next]_vars => IInv'
  <1> SUFFICES ASSUME IInv, [Next]_vars PROVE IInv'
      OBVIOUS
  <1> USE StoreAssumption, BacklogAssumption
  <1>1. ASSUME NEW p \in Agents, ReadRows(p) PROVE IInv'
    <2>1. CASE Return(p, "failed")
        BY <1>1, <2>1, ReturnIInv DEF ReadRows, storeVars, Halted
    <2>2. CASE /\ Goto(p, "scan") /\ rows' = [rows EXCEPT ![p] = db]
               /\ cur' = [cur EXCEPT ![p] = 1] /\ UNCHANGED verdict
      <3> USE <1>1, <2>2 DEF ReadRows, Goto, storeVars, IInv
      <3>1. TypeOK'
          BY DEF TypeOK, StoreTypeOK, Labels, Req
      <3>2. HoldsClaim'
          BY DEF HoldsClaim, ClaimExclusion, TypeOK, Working, Req
      <3>3. Evidence'
          BY DEF Evidence, ClosedOnlyByVerify, TypeOK, Deciding
      <3>4. Gate'
          BY DEF Gate, TypeOK, Working
      <3>5. DepsDone' /\ Decided'
          BY DEF DepsDone, Decided, TypeOK, Working, Deciding
      <3> QED BY <3>1, <3>2, <3>3, <3>4, <3>5
    <2> QED BY <1>1, <2>1, <2>2 DEF ReadRows
  <1>2. ASSUME NEW p \in Agents, ScanRow(p) PROVE IInv'
    <2>1. CASE Return(p, "drained")
        BY <1>2, <2>1, ReturnIInv DEF ScanRow, storeVars, Halted
    <2>2. CASE /\ ~ claimable(rows[p], cur[p]) /\ cur[p] < N
               /\ cur' = [cur EXCEPT ![p] = cur[p] + 1]
               /\ UNCHANGED <<pc, rows, verdict>>
      <3> USE <1>2, <2>2 DEF ScanRow, storeVars, IInv
      <3>1. cur[p] + 1 \in Req
          BY DEF HoldsClaim, Req
      <3>2. TypeOK'
          BY <3>1 DEF TypeOK, StoreTypeOK
      <3>3. HoldsClaim'
          BY <3>1 DEF HoldsClaim, ClaimExclusion, TypeOK, Working
      <3>4. Evidence' /\ Gate'
          BY DEF Evidence, ClosedOnlyByVerify, Gate, TypeOK, Deciding, Working
      <3>5. DepsDone' /\ Decided'
          BY DEF DepsDone, Decided, TypeOK, Working, Deciding
      <3> QED BY <3>2, <3>3, <3>4, <3>5
    <2>3. CASE /\ claimable(rows[p], cur[p]) /\ Goto(p, "claim")
               /\ rows' = [rows EXCEPT ![p] = NoRows]
               /\ UNCHANGED <<cur, verdict>>
      <3> USE <1>2, <2>3 DEF ScanRow, Goto, storeVars, IInv
      <3>1. cur[p] \in Req /\ rows[p] \in [Req -> CsvStatus]
          BY DEF HoldsClaim, TypeOK
      <3>2. /\ rows[p][cur[p]] # "PROPOSED"
            /\ \A d \in Deps[cur[p]] : d \in Req /\ rows[p][d] = "COMPLETE"
          BY <3>1, ClaimableRow
      <3>3. cur[p] \in approved /\ Deps[cur[p]] \subseteq verified
          BY <3>1, <3>2 DEF Gate, Evidence
      <3>4. TypeOK'
          BY DEF TypeOK, StoreTypeOK, Labels, NoRows, CsvStatus
      <3>5. HoldsClaim'
          BY <3>1 DEF HoldsClaim, ClaimExclusion, TypeOK, Working
      <3>6. Evidence'
          BY DEF Evidence, ClosedOnlyByVerify, TypeOK, Deciding, NoRows
      <3>7. Gate'
          BY <3>3 DEF Gate, TypeOK, Working, NoRows
      <3>8. DepsDone' /\ Decided'
          BY <3>3 DEF DepsDone, Decided, TypeOK, Working, Deciding
      <3> QED BY <3>4, <3>5, <3>6, <3>7, <3>8
    <2> QED BY <1>2, <2>1, <2>2, <2>3 DEF ScanRow
  <1>3. ASSUME NEW p \in Agents, TryClaim(p) PROVE IInv'
    <2>1. CASE Return(p, "failed") /\ UNCHANGED claims
        BY <1>3, <2>1, ReturnIInv DEF TryClaim, Halted
    <2>2. CASE Claim(cur[p]) /\ Goto(p, "work") /\ UNCHANGED <<rows, cur, verdict>>
      <3> USE <1>3, <2>2 DEF TryClaim, Goto, Claim, isClaimed, IInv
      <3>1. cur[p] \in Req
          BY DEF HoldsClaim
      <3>2. TypeOK'
          BY <3>1 DEF TypeOK, StoreTypeOK, Labels, Working
      <3>3. HoldsClaim'
          BY <3>1 DEF HoldsClaim, ClaimExclusion, TypeOK, Working
      <3>4. Evidence' /\ Gate'
          BY DEF Evidence, ClosedOnlyByVerify, Gate, TypeOK, Deciding, Working
      <3>5. DepsDone' /\ Decided'
          BY DEF DepsDone, Decided, TypeOK, Working, Deciding
      <3> QED BY <3>2, <3>3, <3>4, <3>5
    <2> QED BY <1>3, <2>1, <2>2 DEF TryClaim
  <1>4. ASSUME NEW p \in Agents, Work(p) PROVE IInv'
    <2> USE <1>4 DEF Work, Goto, storeVars, IInv
    <2>1. cur[p] \in Req
        BY DEF HoldsClaim, Working
    <2>2. TypeOK'
        BY <2>1 DEF TypeOK, StoreTypeOK, Labels, Working
    <2>3. HoldsClaim'
        BY DEF HoldsClaim, ClaimExclusion, TypeOK, Working
    <2>4. Evidence'
        BY DEF Evidence, ClosedOnlyByVerify, TypeOK, Deciding
    <2>5. Gate'
        BY DEF Gate, TypeOK, Working
    <2>6. DepsDone' /\ Decided'
        BY DEF DepsDone, Decided, TypeOK, Working, Deciding
    <2> QED BY <2>2, <2>3, <2>4, <2>5, <2>6
  <1>5. ASSUME NEW p \in Agents, ReadForStatus(p) PROVE IInv'
    <2>1. CASE Return(p, "failed")
        BY <1>5, <2>1, ReturnIInv DEF ReadForStatus, storeVars, Halted
    <2>2. CASE /\ Goto(p, "write") /\ rows' = [rows EXCEPT ![p] = db]
               /\ UNCHANGED <<cur, verdict>>
      <3> USE <1>5, <2>2 DEF ReadForStatus, Goto, storeVars, IInv
      <3>1. TypeOK'
          BY DEF TypeOK, StoreTypeOK, Labels, Working
      <3>2. HoldsClaim'
          BY DEF HoldsClaim, ClaimExclusion, TypeOK, Working
      <3>3. Evidence'
          BY DEF Evidence, ClosedOnlyByVerify, TypeOK, Deciding
      <3>4. Gate'
          BY DEF Gate, TypeOK, Working
      <3>5. DepsDone' /\ Decided'
          BY DEF DepsDone, Decided, TypeOK, Working, Deciding
      <3> QED BY <3>1, <3>2, <3>3, <3>4, <3>5
    <2> QED BY <1>5, <2>1, <2>2 DEF ReadForStatus
  <1>6. ASSUME NEW p \in Agents, WriteStatus(p) PROVE IInv'
    <2>1. CASE Return(p, "failed") /\ UNCHANGED db
        BY <1>6, <2>1, ReturnIInv DEF WriteStatus, Halted
    <2>2. CASE /\ SetStatus(rows[p], cur[p], verdict[p]) /\ Goto(p, "release")
               /\ rows' = [rows EXCEPT ![p] = NoRows]
               /\ UNCHANGED <<cur, verdict>>
      <3> USE <1>6, <2>2 DEF WriteStatus, Goto, IInv
      <3> DEFINE text == statusToCSV(verdict[p])
      <3>1. /\ cur[p] \in Req /\ cur[p] \in approved
            /\ rows[p] \in [Req -> CsvStatus]
            /\ verdict[p] \in {"closed", "blocked"}
            /\ verdict[p] = "closed" => cur[p] \in verified
          BY DEF HoldsClaim, Gate, Decided, Evidence, TypeOK, Working, Deciding
      <3>2. text \in CsvStatus \ {"PROPOSED"} /\ (text = "COMPLETE" => verdict[p] = "closed")
          BY <3>1, WrittenStatus
      <3>3. db' = [rows[p] EXCEPT ![cur[p]] = text]
          BY DEF SetStatus
      <3> HIDE DEF text
      <3>4. TypeOK'
          BY <3>1, <3>2, <3>3 DEF TypeOK, StoreTypeOK, Labels, Working, NoRows, CsvStatus
      <3>5. HoldsClaim'
          BY DEF HoldsClaim, ClaimExclusion, TypeOK, Working
      <3>6. Evidence'
          BY <3>1, <3>2, <3>3 DEF Evidence, ClosedOnlyByVerify, TypeOK, Deciding, NoRows
      <3>7. Gate'
          BY <3>1, <3>3 DEF Gate, TypeOK, Working, NoRows
      <3>8. DepsDone' /\ Decided'
          BY DEF DepsDone, Decided, TypeOK, Working, Deciding
      <3> QED BY <3>4, <3>5, <3>6, <3>7, <3>8
    <2> QED BY <1>6, <2>1, <2>2 DEF WriteStatus
  <1>7. ASSUME NEW p \in Agents, ReleaseClaim(p) PROVE IInv'
      BY <1>7, ReturnIInv DEF ReleaseClaim, Release, Working
  <1>8. ASSUME NEW p \in Agents, Stop(p) \/ Crash(p) \/ Restart(p) PROVE IInv'
      BY <1>8, ReturnIInv DEF Stop, Crash, Restart, storeVars, Halted
  <1>9. ASSUME NEW r \in Req, Reopen(r) PROVE IInv'
    <2> USE <1>9 DEF Reopen, agentVars, IInv
    <2>1. TypeOK'
        BY DEF TypeOK, StoreTypeOK, CsvStatus
    <2>2. HoldsClaim'
        BY DEF HoldsClaim, ClaimExclusion
    <2>3. Evidence'
        BY DEF Evidence, ClosedOnlyByVerify, TypeOK, StoreTypeOK
    <2>4. Gate'
        BY DEF Gate, TypeOK, StoreTypeOK
    <2>5. DepsDone' /\ Decided'
        BY DEF DepsDone, Decided
    <2> QED BY <2>1, <2>2, <2>3, <2>4, <2>5
  <1>10. CASE UNCHANGED vars
      BY <1>10 DEF vars, storeVars, agentVars, IInv, TypeOK, StoreTypeOK,
          HoldsClaim, ClaimExclusion, Evidence, ClosedOnlyByVerify, Gate,
          DepsDone, Decided
  <1> QED BY <1>1, <1>2, <1>3, <1>4, <1>5, <1>6, <1>7, <1>8, <1>9, <1>10
          DEF Next, Step

-----------------------------------------------------------------------------
(* The inductive invariant holds of every behaviour. *)
THEOREM Invariance == Spec => []IInv
  BY InitIInv, NextIInv, PTL DEF Spec

(* The files and the agents' locals keep their types: in particular the    *)
(* status column never holds a text the parser does not know.              *)
THEOREM TypeCorrect == Spec => []TypeOK
  <1>1. IInv => TypeOK
      BY DEF IInv
  <1> QED BY Invariance, <1>1, PTL

(* No double claim, for any number of processes, through crashes, restarts *)
(* and file errors.                                                        *)
THEOREM NoDoubleClaim == Spec => []ClaimExclusion
  <1>1. IInv => ClaimExclusion
      BY DEF IInv, HoldsClaim
  <1> QED BY Invariance, <1>1, PTL

(* Lost updates can undo a close but never invent one: COMPLETE is written *)
(* back only for requirements whose verification has passed.               *)
THEOREM ClosedIsVerified == Spec => []ClosedOnlyByVerify
  <1>1. IInv => ClosedOnlyByVerify
      BY DEF IInv, Evidence
  <1> QED BY Invariance, <1>1, PTL

(* No process works what a person has not taken out of PROPOSED. *)
THEOREM HumanGate == Spec => []ApprovedOnly
  <1>1. IInv => ApprovedOnly
      BY DEF IInv, Gate, ApprovedOnly
  <1> QED BY Invariance, <1>1, PTL

(* A requirement is worked only after all its dependencies were verified. *)
THEOREM DependencyOrder == Spec => []DependenciesVerifiedFirst
  <1>1. IInv => DependenciesVerifiedFirst
      BY DEF IInv, DepsDone, DependenciesVerifiedFirst
  <1> QED BY Invariance, <1>1, PTL

-----------------------------------------------------------------------------
(* The backlog is drained.  Without faults every claim file belongs to an  *)
(* agent at work, and whatever is claimable has somebody who will still    *)
(* come to look at it: an agent that will read the file again, or one that *)
(* has read it as it is and has not passed the row yet.                    *)
Undisturbed == Faults = {} /\ Agents # {}

WillSee(p, r) == \/ pc[p] \in {"top", "claim"} \cup Working
                 \/ pc[p] = "scan" /\ rows[p] = db /\ cur[p] <= r

Watched == \A r \in Req : claimable(db, r) => \E p \in Agents : WillSee(p, r)

(* One agent moves, the others stay where they are. *)
OnlyMover(p) == \A q \in Agents \ {p} :
                   pc'[q] = pc[q] /\ cur'[q] = cur[q] /\ rows'[q] = rows[q]

(* A step moves one agent. *)
LEMMA StepMovesOne ==
    ASSUME TypeOK, NEW p \in Agents, Step(p)
    PROVE  OnlyMover(p)
  BY DEF TypeOK, OnlyMover, Step, ReadRows, ScanRow, TryClaim, Work, ReadForStatus,
     WriteStatus, ReleaseClaim, Return, Goto

(* A mover that will read the file again watches all of it. *)
LEMMA MoverWatches ==
    ASSUME NEW p \in Agents, pc'[p] \in {"top", "claim"} \cup Working
    PROVE  Watched'
  BY DEF Watched, WillSee

(* Without faults no claim file is left by an agent that has ended. *)
LEMMA ClaimsOwned ==
    ASSUME Undisturbed, IInv, ClaimReleasedOnExit, NEW p \in Agents, Step(p)
    PROVE  ClaimReleasedOnExit'
  <1>1. TypeOK /\ OnlyMover(p) BY StepMovesOne DEF IInv
  <1> USE DEF ClaimReleasedOnExit, OnlyMover, Undisturbed
  <1>2. CASE ReadRows(p) \/ ScanRow(p)
    BY <1>1, <1>2 DEF ReadRows, ScanRow, storeVars, Working
  <1>3. CASE TryClaim(p)
    <2>1. pc[p] \notin Working BY <1>3 DEF TryClaim, Working
    <2>2. CASE UNCHANGED claims BY <1>1, <2>1, <2>2
    <2>3. CASE Claim(cur[p]) /\ Goto(p, "work") /\ UNCHANGED cur
      <3>1. pc'[p] = "work" /\ cur'[p] = cur[p] BY <1>1, <2>3 DEF Goto, TypeOK
      <3>2. claims' = claims \cup {cur[p]} BY <2>3 DEF Claim
      <3> QED BY <1>1, <2>1, <3>1, <3>2 DEF Working
    <2> QED BY <1>3, <2>2, <2>3 DEF TryClaim
  <1>4. CASE Work(p) \/ ReadForStatus(p) \/ WriteStatus(p)
    <2>1. pc'[p] \in Working /\ cur'[p] = cur[p] /\ UNCHANGED claims
      BY <1>1, <1>4 DEF Work, ReadForStatus, WriteStatus, Goto, storeVars, Working, TypeOK
    <2> QED BY <1>1, <2>1
  <1>5. CASE ReleaseClaim(p)
    BY <1>1, <1>5 DEF ReleaseClaim, Release
  <1> QED BY <1>2, <1>3, <1>4, <1>5 DEF Step

(* What is ready stays in the sight of an agent that has not returned. *)
LEMMA StaysWatched ==
    ASSUME Undisturbed, IInv, ClaimReleasedOnExit, Watched, NEW p \in Agents, Step(p)
    PROVE  Watched'
  <1>1. TypeOK /\ OnlyMover(p) BY StepMovesOne DEF IInv
  <1> USE DEF Undisturbed
  <1>2. CASE ReadRows(p)
    <2>1. pc'[p] = "scan" /\ rows'[p] = db /\ cur'[p] = 1 /\ UNCHANGED db
      BY <1>1, <1>2 DEF ReadRows, Goto, TypeOK, storeVars
    <2>2. \A r \in Req : 1 <= r BY DEF Req
    <2> QED BY <2>1, <2>2 DEF Watched, WillSee
  <1>3. CASE ScanRow(p)
    <2>1. pc[p] = "scan" /\ UNCHANGED <<db, claims>> /\ cur[p] \in Req
      BY <1>3 DEF ScanRow, storeVars, IInv, HoldsClaim
    <2>2. CASE Goto(p, "claim")
      BY <1>1, <2>2, MoverWatches DEF Goto, TypeOK
    <2>3. CASE /\ ~ claimable(rows[p], cur[p])
               /\ cur[p] = N \/ (cur'[p] = cur[p] + 1 /\ UNCHANGED <<pc, rows>>)
      <3> SUFFICES ASSUME NEW r \in Req, claimable(db, r)
                   PROVE  \E q \in Agents : WillSee(q, r)'
        BY <2>1 DEF Watched, claimable, ready, isClaimed
      <3>1. PICK q \in Agents : WillSee(q, r) BY DEF Watched
      <3>2. CASE q # p
        BY <1>1, <2>1, <3>1, <3>2 DEF WillSee, OnlyMover
      <3>3. CASE q = p
        <4>1. rows[p] = db /\ cur[p] <= r BY <2>1, <3>1, <3>3 DEF WillSee, Working
        <4>2. cur[p] # r BY <2>3, <4>1
        <4>3. cur[p] + 1 <= r /\ cur[p] # N BY <2>1, <4>1, <4>2, StoreAssumption DEF Req
        <4> QED BY <2>1, <2>3, <4>1, <4>3 DEF WillSee
      <3> QED BY <3>2, <3>3
    <2> QED BY <1>1, <1>3, <2>2, <2>3 DEF ScanRow, TypeOK
  <1>4. CASE TryClaim(p)
    <2>1. CASE Goto(p, "work")
      BY <1>1, <2>1, MoverWatches DEF Goto, TypeOK, Working
    <2>2. CASE isClaimed(cur[p])       \* whoever has it will read the file again
      <3>1. PICK q \in Agents : pc[q] \in Working
        BY <2>2 DEF isClaimed, ClaimReleasedOnExit
      <3>2. pc'[q] \in Working BY <1>1, <1>4, <3>1 DEF TryClaim, OnlyMover, Working
      <3> QED BY <3>2, MoverWatches
    <2> QED BY <1>4, <2>1, <2>2 DEF TryClaim
  <1>5. CASE Work(p) \/ ReadForStatus(p) \/ WriteStatus(p) \/ ReleaseClaim(p)
    <2>1. pc'[p] \in {"top"} \cup Working
      BY <1>1, <1>5 DEF Work, ReadForStatus, WriteStatus, ReleaseClaim, Goto, Return, Working,
         TypeOK
    <2> QED BY <2>1, MoverWatches
  <1> QED BY <1>2, <1>3, <1>4, <1>5 DEF Step

(* Undisturbed agents, however many, whose races and lost updates reopen   *)
(* rows, leave nothing claimable behind when the last of them has returned.*)
THEOREM BacklogDrained == ASSUME Undisturbed PROVE Spec => []DrainLeavesNothingReady
  <1> DEFINE Inv == IInv /\ ClaimReleasedOnExit /\ Watched
  <1>1. Init => Inv
    BY InitIInv DEF Undisturbed, Init, ClaimReleasedOnExit, Watched, WillSee
  <1>2. Inv /\ [Next]_vars => Inv'
    <2> SUFFICES ASSUME Inv, [Next]_vars PROVE (ClaimReleasedOnExit /\ Watched)'
      BY NextIInv
    <2>1. ASSUME NEW p \in Agents, Step(p) PROVE (ClaimReleasedOnExit /\ Watched)'
      BY <2>1, ClaimsOwned, StaysWatched
    <2>2. CASE UNCHANGED vars
      BY <2>2 DEF vars, storeVars, agentVars, ClaimReleasedOnExit, Watched, WillSee,
         claimable, ready, isClaimed
    <2> QED BY <2>1, <2>2 DEF Next, Undisturbed, Stop, Crash, Restart, Reopen
  <1>3. Inv => DrainLeavesNothingReady
    BY DEF Watched, WillSee, DrainLeavesNothingReady, Working
  <1> QED BY <1>1, <1>2, <1>3, PTL DEF Spec
=============================================================================
