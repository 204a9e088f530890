------------------------- MODULE ControlLoopProofs -------------------------
(***************************************************************************)
(* Proofs about ControlLoop, for every configuration and every backlog:    *)
(* its types, that it implements one agent of SharedBacklog, and that its  *)
(* books, its breaker, its feedback and its audit log are what they say.   *)
(***************************************************************************)
EXTENDS ControlLoop, SequenceTheorems, FiniteSetTheorems, TLAPS

(* What each place of Run knows of its locals.  A process that has the     *)
(* store to itself has read what the file still holds; a row it has chosen *)
(* is not proposed; work has decided by the time it writes.                *)
Scanning == pc = "scan" => rows = db /\ cur \in Req
Chosen   == pc \in {"claim"} \cup Working =>
                cur \in Req /\ statusFromCSV(db[cur]) # "proposed"
Writing  == pc = "write" => rows = db
Clean    == pc \notin {"scan", "write"} => rows = NoRows
Outcome  == IF pc \in {"read", "write", "release", "account"}
              THEN verdict \in {"closed", "blocked"}
              ELSE verdict = "none"
Idle     == pc \in {"preflight", "top", "account"} \cup Halted => cur = 0

LocalInv == Scanning /\ Chosen /\ Writing /\ Clean /\ Outcome /\ Idle

IInv == TypeOK /\ LocalInv

-----------------------------------------------------------------------------
(* What SetStatus writes for the two outcomes of work is a status text and *)
(* does not read proposed.                                                 *)
LEMMA WrittenStatus ==
    ASSUME NEW st \in {"closed", "blocked"}
    PROVE  /\ statusToCSV(st) \in CsvStatus
           /\ statusFromCSV(statusToCSV(st)) # "proposed"
  BY DEF statusToCSV, statusFromCSV, CsvStatus

(* An audit entry about the requirement being worked is well formed. *)
LEMMA RecordType ==
    ASSUME audit \in Seq(Entry), cur \in Req,
           NEW action \in {"claim", "verify", "escalate", "release", "park"},
           NEW result \in {"none", "pass", "fail", "error", "closed", "blocked"},
           record(action, result)
    PROVE  audit' \in Seq(Entry)
  <1>1. [action |-> action, req |-> cur, result |-> result] \in Entry
      BY DEF Entry
  <1> QED BY <1>1, AppendProperties DEF record

(* Run starts with its locals as IInv has them. *)
LEMMA InitIInv == Init => IInv
  <1> SUFFICES ASSUME Init PROVE IInv
      OBVIOUS
  <1> USE StoreAssumption, LoopAssumption
  <1>1. TypeOK
    <2>1. res \in Result
        BY DEF Init, Result
    <2>2. feedback \in [out: Outputs, fallback: BOOLEAN]
        BY DEF Init, NoFeedback
    <2>3. outs \in Seq(Outputs) /\ audit \in Seq(Entry) /\ attempts \in Seq(Attempt)
        BY DEF Init
    <2>4. rows \in [Req -> CsvStatus] /\ StoreTypeOK
        BY DEF Init, NoRows, CsvStatus, StoreTypeOK
    <2> QED BY <2>1, <2>2, <2>3, <2>4 DEF Init, TypeOK, Labels
  <1>2. LocalInv
      BY DEF Init, LocalInv, Scanning, Chosen, Writing, Clean, Outcome, Idle,
          Working, Halted
  <1> QED BY <1>1, <1>2 DEF IInv

(* Every step keeps the types. *)
LEMMA NextTypeOK == IInv /\ [Next]_vars => TypeOK'
  <1> SUFFICES ASSUME IInv, [Next]_vars PROVE TypeOK'
      OBVIOUS
  <1> USE StoreAssumption, LoopAssumption
  <1> USE DEF IInv, TypeOK, StoreTypeOK, Labels, Working, Halted
  <1>0. NoRows \in [Req -> CsvStatus] /\ NoFeedback \in [out: Outputs, fallback: BOOLEAN]
      BY DEF NoRows, CsvStatus, NoFeedback
  <1>1. CASE Preflight
      BY <1>0, <1>1 DEF Preflight, Return, storeVars, runVars, workVars, logVars
  <1>2. CASE StopOnBudget
      BY <1>0, <1>2 DEF StopOnBudget, Return, storeVars, workVars, logVars, Result
  <1>3. CASE StopOnCancel
      BY <1>0, <1>3 DEF StopOnCancel, Return, storeVars, runVars, workVars, logVars
  <1>4. CASE ReadRows
      BY <1>0, <1>4 DEF ReadRows, Return, storeVars, runVars, workVars, logVars, Req
  <1>5. CASE ScanRow
    <2>1. cur < N => cur + 1 \in Req
        BY DEF Req
    <2> QED BY <1>0, <1>5, <2>1 DEF ScanRow, Return, storeVars, runVars, workVars, logVars
  <1>6. CASE TryClaim
    <2>1. audit' \in Seq(Entry)
        BY <1>6, RecordType DEF TryClaim, LocalInv, Chosen
    <2>2. CASE Return("failed") /\ UNCHANGED <<claims, audit, workVars, past>>
        BY <1>0, <1>6, <2>2 DEF TryClaim, Return, runVars, workVars
    <2>3. CASE /\ Claim(cur) /\ pc' = "drive" /\ FreshWork
               /\ past' = past \ {"task"} /\ UNCHANGED <<rows, cur, verdict>>
      <3>1. <<>> \in Seq(Outputs)
          OBVIOUS
      <3>2. outs' \in Seq(Outputs)
          BY <2>3, <3>1 DEF FreshWork
      <3>3. UNCHANGED <<db, verified, once, res, fails, attempts>> /\ cur \in Req
          BY <1>6 DEF TryClaim, runVars, LocalInv, Chosen
      <3>4. claims' \subseteq Req /\ past' \subseteq {"session", "task", "cancel"}
          BY <2>3, <3>3 DEF Claim
      <3>5. /\ i' \in 0..Retries /\ tokens' \in Nat /\ same' \in Nat
            /\ stuck' \in {NotStuck, "stuck"}
            /\ feedback' \in [out: Outputs, fallback: BOOLEAN]
          BY <1>0, <2>3 DEF FreshWork
      <3> QED BY <2>1, <2>3, <3>2, <3>3, <3>4, <3>5
    <2> QED BY <1>6, <2>2, <2>3 DEF TryClaim
  <1>7. CASE Drive
      BY <1>0, <1>7 DEF Drive, Park, Retry, storeVars, runVars, logVars
  <1>8. CASE VerifyPass
    <2>1. audit' \in Seq(Entry)
        BY <1>8, RecordType DEF VerifyPass, LocalInv, Chosen
    <2> QED BY <1>8, <2>1 DEF VerifyPass, storeVars, runVars, workVars, LocalInv, Chosen
  <1>9. ASSUME NEW out \in Outputs, VerifyFail(out) PROVE TypeOK'
    <2>1. audit' \in Seq(Entry)
        BY <1>9, RecordType DEF VerifyFail, LocalInv, Chosen
    <2>2. same' \in Nat
        BY <1>9 DEF VerifyFail
    <2>3. feedback' \in [out: Outputs, fallback: BOOLEAN]
        BY <1>9 DEF VerifyFail
    <2>4. outs' \in Seq(Outputs)
        BY <1>9 DEF VerifyFail
    <2> QED BY <1>9, <2>1, <2>2, <2>3, <2>4 DEF VerifyFail, Park, Retry, storeVars, runVars
  <1>10. CASE VerifyError
    <2>1. audit' \in Seq(Entry)
        BY <1>10, RecordType DEF VerifyError, LocalInv, Chosen
    <2> QED BY <1>10, <2>1 DEF VerifyError, Park, Retry, storeVars, runVars
  <1>11. CASE ReadForStatus
      BY <1>0, <1>11 DEF ReadForStatus, Return, storeVars, runVars, workVars, logVars
  <1>12. CASE WriteStatus
    <2>1. cur \in Req /\ verdict \in {"closed", "blocked"}
        BY <1>12 DEF WriteStatus, LocalInv, Chosen, Outcome
    <2>2. statusToCSV(verdict) \in CsvStatus
        BY <2>1, WrittenStatus
    <2>3. audit' \in Seq(Entry)
        BY <1>12, <2>1, RecordType DEF WriteStatus
    <2>4. db' \in [Req -> CsvStatus]
        BY <1>12, <2>1, <2>2 DEF WriteStatus, SetStatus
    <2>5. /\ pc' \in Labels /\ rows' \in [Req -> CsvStatus]
          /\ cur' \in Req \cup {0} /\ verdict' \in {"none", "closed", "blocked"}
        BY <1>0, <1>12 DEF WriteStatus, Return
    <2> QED BY <1>12, <2>3, <2>4, <2>5 DEF WriteStatus, runVars, workVars
  <1>13. CASE ReleaseClaim
    <2>1. cur \in Req
        BY <1>13 DEF ReleaseClaim, LocalInv, Chosen
    <2>2. audit' \in Seq(Entry)
        BY <1>13, <2>1, RecordType DEF ReleaseClaim
    <2>3. [req |-> cur, closed |-> verdict = "closed",
           escalated |-> verdict = "blocked",
           firstPass |-> verdict = "closed" /\ i = 0] \in Attempt
        BY <2>1 DEF Attempt
    <2>4. attempts' \in Seq(Attempt)
        BY <1>13, <2>3 DEF ReleaseClaim
    <2> QED BY <1>13, <2>2, <2>4 DEF ReleaseClaim, Release, runVars, workVars
  <1>14. CASE Account
    <2>1. res' \in Result
      <3> DEFINE a == res.attempted + 1
                 c == IF verdict = "blocked" THEN res.closed ELSE res.closed + 1
                 k == IF verdict = "blocked" THEN res.parked + 1 ELSE res.parked
                 s == IF verdict = "blocked" /\ stuck # NotStuck
                        THEN res.stuck + 1 ELSE res.stuck
                 b == (IF verdict = "blocked" THEN fails + 1 ELSE 0) >= BreakAfter
      <3>1. res' = [res EXCEPT !.attempted = a, !.closed = c, !.parked = k,
                               !.stuck = s, !.breaker = b]
          BY <1>14, Zenon DEF Account
      <3>2. a \in Nat /\ c \in Nat /\ k \in Nat /\ s \in Nat /\ b \in BOOLEAN
          BY DEF Result
      <3> HIDE DEF a, c, k, s, b
      <3> QED BY <3>1, <3>2 DEF Result
    <2>2. fails' \in Nat
        BY <1>14 DEF Account
    <2> QED BY <1>0, <1>14, <2>1, <2>2 DEF Account, Return, FreshWork, storeVars, logVars
  <1>15. ASSUME NEW d \in {"session", "task", "cancel"}, Elapse(d) PROVE TypeOK'
      BY <1>15 DEF Elapse, storeVars, runVars, workVars, logVars
  <1>16. CASE UNCHANGED vars
      BY <1>16 DEF vars, storeVars, runVars, workVars, logVars
  <1> QED BY <1>1, <1>2, <1>3, <1>4, <1>5, <1>6, <1>7, <1>8, <1>9, <1>10, <1>11,
          <1>12, <1>13, <1>14, <1>15, <1>16 DEF Next, Step

(* Every step keeps what each place of Run knows of its locals. *)
LEMMA NextLocalInv == IInv /\ [Next]_vars => LocalInv'
  <1> SUFFICES ASSUME IInv, [Next]_vars PROVE LocalInv'
      OBVIOUS
  <1> USE StoreAssumption
  <1> USE DEF IInv, LocalInv, Scanning, Chosen, Writing, Clean, Outcome, Idle,
          Working, Halted, Return
  <1>1. CASE Preflight
      BY <1>1 DEF Preflight, storeVars
  <1>2. CASE StopOnBudget
      BY <1>2 DEF StopOnBudget
  <1>3. CASE StopOnCancel
      BY <1>3 DEF StopOnCancel
  <1>4. CASE ReadRows
      BY <1>4 DEF ReadRows, storeVars, Req
  <1>5. CASE ScanRow
    <2>1. cur \in Req /\ rows = db
        BY <1>5 DEF ScanRow
    <2>2. cur < N => cur + 1 \in Req
        BY <2>1 DEF Req
    <2>3. claimable(rows, cur) => statusFromCSV(rows[cur]) # "proposed"
        BY DEF claimable
    <2> QED BY <1>5, <2>1, <2>2, <2>3 DEF ScanRow, storeVars
  <1>6. CASE TryClaim
      BY <1>6 DEF TryClaim
  <1>7. CASE Drive
      BY <1>7 DEF Drive, Park, Retry, storeVars
  <1>8. CASE VerifyPass
      BY <1>8 DEF VerifyPass, storeVars
  <1>9. ASSUME NEW out \in Outputs, VerifyFail(out) PROVE LocalInv'
      BY <1>9 DEF VerifyFail, Park, Retry, storeVars
  <1>10. CASE VerifyError
      BY <1>10 DEF VerifyError, Park, Retry, storeVars
  <1>11. CASE ReadForStatus
      BY <1>11 DEF ReadForStatus, storeVars
  <1>12. CASE WriteStatus
    <2>1. CASE Return("failed")
        BY <1>12, <2>1 DEF WriteStatus
    <2>2. CASE /\ SetStatus(rows, cur, verdict) /\ pc' = "release"
               /\ rows' = NoRows /\ UNCHANGED <<cur, verdict>>
      <3>1. verdict \in {"closed", "blocked"} /\ cur \in Req
          BY <1>12 DEF WriteStatus
      <3>2. db'[cur] = statusToCSV(verdict)
          BY <1>12, <2>2, <3>1 DEF SetStatus, TypeOK
      <3>3. statusFromCSV(db'[cur]) # "proposed"
          BY <3>1, <3>2, WrittenStatus
      <3> QED BY <1>12, <2>2, <3>1, <3>3 DEF WriteStatus
    <2> QED BY <1>12, <2>1, <2>2 DEF WriteStatus
  <1>13. CASE ReleaseClaim
      BY <1>13 DEF ReleaseClaim
  <1>14. CASE Account
      BY <1>14 DEF Account, storeVars
  <1>15. ASSUME NEW d \in {"session", "task", "cancel"}, Elapse(d) PROVE LocalInv'
      BY <1>15 DEF Elapse, storeVars
  <1>16. CASE UNCHANGED vars
      BY <1>16 DEF vars, storeVars
  <1> QED BY <1>1, <1>2, <1>3, <1>4, <1>5, <1>6, <1>7, <1>8, <1>9, <1>10, <1>11,
          <1>12, <1>13, <1>14, <1>15, <1>16 DEF Next, Step

(* What each place of Run knows holds of every behaviour. *)
THEOREM Invariance == Spec => []IInv
  <1>1. IInv /\ [Next]_vars => IInv'
      BY NextTypeOK, NextLocalInv DEF IInv
  <1> QED BY InitIInv, <1>1, PTL DEF Spec

(* The state of Run, its books included, keeps its types; in particular    *)
(* the attempt number never leaves 0..Retries.                             *)
THEOREM TypeCorrect == Spec => []TypeOK
  <1>1. IInv => TypeOK
      BY DEF IInv
  <1> QED BY Invariance, <1>1, PTL
-----------------------------------------------------------------------------
(* Refinement of SharedBacklog *)

(* The instance's store operators are this module's, over the same files. *)
LEMMA SameStore ==
    /\ Backlog!Req = Req
    /\ Backlog!NoRows = NoRows
    /\ \A s : Backlog!statusFromCSV(s) = statusFromCSV(s)
    /\ \A s : Backlog!statusToCSV(s) = statusToCSV(s)
    /\ \A rs, r : Backlog!claimable(rs, r) <=> claimable(rs, r)
  <1>1. Backlog!Req = Req
      BY DEF Backlog!Req, Req
  <1>2. \A s : Backlog!statusFromCSV(s) = statusFromCSV(s)
      BY DEF Backlog!statusFromCSV, statusFromCSV
  <1>3. \A s : Backlog!statusToCSV(s) = statusToCSV(s)
      BY DEF Backlog!statusToCSV, statusToCSV
  <1>4. \A rs, r : Backlog!claimable(rs, r) <=> claimable(rs, r)
      BY <1>1, <1>2 DEF Backlog!claimable, claimable, Backlog!ready, ready,
          Backlog!isClaimed, isClaimed
  <1> QED BY <1>1, <1>2, <1>3, <1>4 DEF Backlog!NoRows, NoRows

(* Run starts where an agent starts. *)
LEMMA InitRefines == Init => Backlog!Init
  <1> SUFFICES ASSUME Init PROVE Backlog!Init
      OBVIOUS
  <1>1. AbstractPc = "top"
      BY DEF Init, AbstractPc
  <1> QED BY <1>1, SameStore DEF Init, Backlog!Init

(* The functions of an agent set with one member: update and value at Self. *)
LEMMA SelfUpdate ==
    ASSUME NEW x, NEW y
    PROVE  /\ [[p \in {Self} |-> x] EXCEPT ![Self] = y] = [p \in {Self} |-> y]
           /\ [p \in {Self} |-> x][Self] = x
  OBVIOUS

(* Every step of Run is a step of the agent, or one it does not notice:    *)
(* drives, failed verifications, the counting and the clock are hidden.    *)
LEMMA StepRefines == IInv /\ [Next]_vars => [Backlog!Next]_(Backlog!vars)
  <1> SUFFICES ASSUME IInv, [Next]_vars PROVE [Backlog!Next]_(Backlog!vars)
      OBVIOUS
  <1> USE StoreAssumption
  <1> DEFINE Approved == {r \in Req : statusFromCSV(db[r]) # "proposed"}
             Verdict  == IF pc = "account" THEN "none" ELSE verdict
  <1>a. ASSUME NEW how \in Halted \cup {"top"}, Return(how)
        PROVE  /\ Backlog!Return(Self, how)
      BY <1>a, SelfUpdate, SameStore DEF Return, Backlog!Return, AbstractPc, Halted
  <1>b. UNCHANGED db => UNCHANGED Approved
      OBVIOUS
  <1>c. ASSUME UNCHANGED <<db, claims, rows, cur, verified, AbstractPc, Verdict>>
        PROVE  UNCHANGED Backlog!vars
      BY <1>c, <1>b DEF Backlog!vars, Backlog!storeVars, Backlog!agentVars
  <1>1. CASE Preflight
    <2>1. CASE pc' = "top" /\ UNCHANGED <<rows, cur, verdict>>
        BY <1>1, <2>1, <1>c DEF Preflight, AbstractPc, storeVars
    <2>2. CASE "io" \in Faults /\ Return("failed")
      <3>1. Backlog!ReadRows(Self)
          BY <1>1, <2>2, <1>a, <1>b, SelfUpdate DEF Preflight, AbstractPc, storeVars,
              Backlog!ReadRows, Backlog!storeVars, Halted
      <3> QED BY <3>1 DEF Backlog!Next, Backlog!Step
    <2> QED BY <1>1, <2>1, <2>2 DEF Preflight
  <1>2. ASSUME pc = "top", Return("stopped"), UNCHANGED <<db, claims, verified>>
        PROVE  Backlog!Stop(Self)
      BY <1>2, <1>a, <1>b, SelfUpdate DEF AbstractPc, Backlog!Stop, Backlog!storeVars, Halted
  <1>3. CASE StopOnBudget \/ StopOnCancel
      BY <1>2, <1>3 DEF StopOnBudget, StopOnCancel, storeVars, Backlog!Next
  <1>4. CASE ReadRows
    <2>1. Backlog!ReadRows(Self)
        BY <1>4, <1>a, <1>b, SelfUpdate DEF ReadRows, AbstractPc, storeVars,
            Backlog!ReadRows, Backlog!Goto, Backlog!storeVars, Halted
    <2> QED BY <2>1 DEF Backlog!Next, Backlog!Step
  <1>5. CASE ScanRow
    <2>1. Backlog!ScanRow(Self)
        BY <1>5, <1>a, <1>b, SelfUpdate, SameStore DEF ScanRow, AbstractPc, storeVars,
            Backlog!ScanRow, Backlog!Goto, Backlog!storeVars, Halted
    <2> QED BY <2>1 DEF Backlog!Next, Backlog!Step
  <1>6. CASE TryClaim
    <2>1. Backlog!TryClaim(Self)
        BY <1>6, <1>a, <1>b, SelfUpdate DEF TryClaim, Claim, isClaimed, AbstractPc,
            Backlog!TryClaim, Backlog!Claim, Backlog!isClaimed, Backlog!Goto, Halted
    <2> QED BY <2>1 DEF Backlog!Next, Backlog!Step
  <1>7. ASSUME pc \in {"drive", "verify"}, pc' = "read",
               UNCHANGED <<db, claims, rows, cur>>,
               \/ verdict' = "closed" /\ verified' = verified \cup {cur}
               \/ verdict' = "blocked" /\ UNCHANGED verified
        PROVE  Backlog!Next
    <2>1. Backlog!Work(Self)
        BY <1>7, <1>b, SelfUpdate DEF AbstractPc, Backlog!Work, Backlog!Goto, Backlog!storeVars
    <2> QED BY <2>1 DEF Backlog!Next, Backlog!Step
  <1>8. ASSUME pc \in {"drive", "verify"}, Park \/ Retry \/ (pc' = "verify" /\ UNCHANGED verdict),
               UNCHANGED <<db, claims, rows, cur, verified>>
        PROVE  [Backlog!Next]_(Backlog!vars)
    <2>1. CASE Park
        BY <1>7, <1>8, <2>1 DEF Park
    <2>2. CASE pc' \in {"drive", "verify"} /\ UNCHANGED verdict
        BY <1>c, <1>8, <2>2 DEF AbstractPc
    <2> QED BY <1>8, <2>1, <2>2 DEF Retry
  <1>9. CASE Drive
      BY <1>8, <1>9 DEF Drive, storeVars
  <1>10. CASE VerifyPass
      BY <1>7, <1>10 DEF VerifyPass, storeVars
  <1>11. ASSUME NEW out \in Outputs, VerifyFail(out) PROVE [Backlog!Next]_(Backlog!vars)
      BY <1>8, <1>11 DEF VerifyFail, storeVars
  <1>12. CASE VerifyError
      BY <1>8, <1>12 DEF VerifyError, storeVars
  <1>13. CASE ReadForStatus
    <2>1. Backlog!ReadForStatus(Self)
        BY <1>13, <1>a, <1>b, SelfUpdate DEF ReadForStatus, AbstractPc, storeVars,
            Backlog!ReadForStatus, Backlog!Goto, Backlog!storeVars, Halted
    <2> QED BY <2>1 DEF Backlog!Next, Backlog!Step
  <1>14. CASE WriteStatus
    <2>1. UNCHANGED Approved
      <3>1. CASE UNCHANGED db
          BY <3>1, <1>b
      <3>2. CASE SetStatus(rows, cur, verdict)
        <4>1. /\ cur \in Req /\ verdict \in {"closed", "blocked"} /\ rows = db
              /\ statusFromCSV(db[cur]) # "proposed"
            BY <1>14 DEF WriteStatus, IInv, LocalInv, Chosen, Outcome, Writing, Working
        <4>2. statusFromCSV(statusToCSV(verdict)) # "proposed"
            BY <4>1, WrittenStatus
        <4>3. db' = [db EXCEPT ![cur] = statusToCSV(verdict)]
            BY <3>2, <4>1 DEF SetStatus
        <4>4. \A r \in Req : statusFromCSV(db'[r]) # "proposed"
                                <=> statusFromCSV(db[r]) # "proposed"
            BY <4>1, <4>2, <4>3 DEF IInv, TypeOK, StoreTypeOK
        <4> QED BY <4>4
      <3> QED BY <1>14, <3>1, <3>2 DEF WriteStatus
    <2>2. Backlog!WriteStatus(Self)
        BY <1>14, <2>1, <1>a, SelfUpdate, SameStore DEF WriteStatus, SetStatus, AbstractPc,
            Backlog!WriteStatus, Backlog!SetStatus, Backlog!Goto, Halted
    <2> QED BY <2>2 DEF Backlog!Next, Backlog!Step
  <1>15. CASE ReleaseClaim
    <2>1. rows = NoRows /\ UNCHANGED rows
        BY <1>15 DEF ReleaseClaim, IInv, LocalInv, Clean
    <2>2. Backlog!Return(Self, "top")
        BY <1>15, <2>1, SelfUpdate, SameStore DEF ReleaseClaim, AbstractPc, Backlog!Return
    <2>3. Backlog!ReleaseClaim(Self)
        BY <1>15, <2>2, <1>b, SelfUpdate DEF ReleaseClaim, Release, AbstractPc,
            Backlog!ReleaseClaim, Backlog!Release
    <2> QED BY <2>3 DEF Backlog!Next, Backlog!Step
  <1>16. CASE Account
    <2>1. rows = NoRows /\ cur = 0
        BY <1>16 DEF Account, IInv, LocalInv, Clean, Idle
    <2>2. CASE Return("top")
        BY <1>16, <1>c, <2>1, <2>2 DEF Account, Return, AbstractPc, storeVars
    <2>3. CASE Return("stopped")
      <3>1. Backlog!Stop(Self)
          BY <1>16, <2>3, <1>a, <1>b, SelfUpdate DEF Account, AbstractPc, storeVars,
              Backlog!Stop, Backlog!storeVars, Halted
      <3> QED BY <3>1 DEF Backlog!Next
    <2> QED BY <1>16, <2>2, <2>3 DEF Account
  <1>17. ASSUME NEW d \in {"session", "task", "cancel"}, Elapse(d)
         PROVE  [Backlog!Next]_(Backlog!vars)
      BY <1>c, <1>17 DEF Elapse, AbstractPc, storeVars
  <1>18. CASE UNCHANGED vars
      BY <1>c, <1>18 DEF vars, AbstractPc, storeVars
  <1> QED BY <1>1, <1>3, <1>4, <1>5, <1>6, <1>9, <1>10, <1>11, <1>12, <1>13,
          <1>14, <1>15, <1>16, <1>17, <1>18 DEF Next, Step

(* The control loop implements one agent of SharedBacklog. *)
THEOREM LoopImplementsBacklog == Spec => ImplementsBacklog
  BY Invariance, InitRefines, StepRefines, PTL DEF Spec, ImplementsBacklog, Backlog!Spec
-----------------------------------------------------------------------------
(* The books of Run *)

(* The books, kept as sets of positions of the metrics and the audit log.  *)
Closes    == {k \in DOMAIN attempts : attempts[k].closed}
Parks     == {k \in DOMAIN attempts : attempts[k].escalated}
Logged(a) == {k \in DOMAIN audit : audit[k].action = a}

(* While Run has not counted what work has returned, its books lag by one. *)
Uncounted(v) == IF pc = "account" /\ verdict = v THEN 1 ELSE 0

Balance ==
    /\ Len(attempts) = res.attempted + Uncounted("closed") + Uncounted("blocked")
    /\ res.attempted = res.closed + res.parked
    /\ Cardinality(Closes) = res.closed + Uncounted("closed")
    /\ Cardinality(Parks) = res.parked + Uncounted("blocked")
    /\ Cardinality(Logged("release")) = res.closed + Uncounted("closed")
    /\ Cardinality(Logged("park")) = res.parked + Uncounted("blocked")
    /\ res.stuck <= res.parked

(* Every claim but that of the requirement at hand has been counted; Run   *)
(* looks for another one only within its budget.                           *)
Claimed ==
    /\ pc \notin {"account", "failed"} \cup Working =>
           Cardinality(Logged("claim")) = res.attempted
    /\ pc \in {"scan", "claim"} /\ MaxRequirements > 0 => res.attempted < MaxRequirements
    /\ MaxRequirements > 0 => Cardinality(Logged("claim")) <= MaxRequirements
    /\ pc \in {"account"} \cup Working => Cardinality(Logged("claim")) = res.attempted + 1

(* fails is the length of the run of parked requirements the metrics end   *)
(* with, once the last one is counted.                                     *)
Trail == IF pc # "account" THEN fails
         ELSE IF verdict = "blocked" THEN fails + 1 ELSE 0

TrailIs(f) == /\ f <= Len(attempts)
              /\ \A k \in 0..(f - 1) : attempts[Len(attempts) - k].escalated
              /\ f < Len(attempts) => ~ attempts[Len(attempts) - f].escalated

Breaking == /\ TrailIs(Trail)
            /\ res.breaker <=> fails >= BreakAfter
            /\ res.breaker => pc = "stopped"

(* same is the length of the run of identical outputs, empty ones apart,   *)
(* that the failed verifications of this requirement end with.             *)
Repeats ==
    LET n == Len(outs) IN
    /\ n = 0 => same = 0 /\ feedback.out = NoOutput
    /\ n > 0 => /\ same \in 1..n
                /\ feedback.out = outs[n]
                /\ \A k \in 0..(same - 1) : outs[n - k] = outs[n]
                /\ same > 1 => outs[n] # NoOutput
                /\ same < n => outs[n - same] # outs[n] \/ outs[n] = NoOutput
    /\ feedback.fallback <=> FallbackAfter > 0 /\ same >= FallbackAfter

(* The audit log since the latest claim is about the requirement at hand,  *)
(* and holds a verification for each attempt that got so far.              *)
Verifies(k) == {j \in SinceClaim(k) : audit[j].action = "verify"}

AtHand ==
    LET n == Len(audit) IN
    pc \in Working =>
        /\ n > 0
        /\ \A j \in SinceClaim(n) : audit[j].req = cur
        /\ Cardinality(Verifies(n)) <= IF pc \in {"drive", "verify"} THEN i ELSE i + 1
        /\ verdict # "closed" => \A j \in Verifies(n) : audit[j].result # "pass"
        /\ verdict = "closed" =>
               audit[n] = [action |-> "verify", req |-> cur, result |-> "pass"]
        /\ pc = "release" /\ verdict = "blocked" => audit[n].action = "escalate"

-----------------------------------------------------------------------------
(* A set of positions that goes on as it was grows by the new position, if *)
(* that is in it.                                                          *)
LEMMA Grow ==
    ASSUME NEW n \in Nat, NEW S, NEW T, S \subseteq 1..n, T \subseteq 1..(n + 1),
           \A k \in 1..n : k \in T <=> k \in S
    PROVE  /\ Cardinality(S) \in Nat
           /\ Cardinality(T) = Cardinality(S) + (IF n + 1 \in T THEN 1 ELSE 0)
  <1>1. IsFiniteSet(S)
    <2>1. IsFiniteSet(1..n) BY FS_Interval
    <2> QED BY <2>1, FS_Subset
  <1>2. Cardinality(S) \in Nat
      BY <1>1, FS_CardinalityType
  <1>0. \A k : (k \in 1..(n + 1) <=> k \in 1..n \/ k = n + 1) /\ n + 1 \notin 1..n
      OBVIOUS
  <1>3. CASE n + 1 \in T
    <2>1. T = S \cup {n + 1} /\ n + 1 \notin S BY <1>0, <1>3, Zenon
    <2>2. Cardinality(S \cup {n + 1}) = Cardinality(S) + 1 BY <1>1, <2>1, FS_AddElement
    <2> QED BY <1>2, <1>3, <2>1, <2>2
  <1>4. CASE n + 1 \notin T
    <2>1. T = S BY <1>0, <1>4, Zenon
    <2> QED BY <1>2, <1>4, <2>1
  <1> QED BY <1>3, <1>4, <1>2

(* What an entry does to the log. *)
LEMMA Recording ==
    ASSUME audit \in Seq(Entry), NEW a, NEW result, record(a, result)
    PROVE  /\ Len(audit) \in Nat /\ Len(audit') = Len(audit) + 1
           /\ \A k \in 1..Len(audit) : audit'[k] = audit[k]
           /\ audit'[Len(audit) + 1] = [action |-> a, req |-> cur, result |-> result]
           /\ audit'[Len(audit) + 1].action = a /\ audit'[Len(audit) + 1].req = cur
           /\ audit'[Len(audit) + 1].result = result
           /\ DOMAIN audit = 1..Len(audit) /\ DOMAIN audit' = 1..(Len(audit) + 1)
  <1> DEFINE e == [action |-> a, req |-> cur, result |-> result]
  <1>1. audit' = Append(audit, e)
      BY DEF record
  <1>0. e.action = a /\ e.req = cur /\ e.result = result
      OBVIOUS
  <1> HIDE DEF e
  <1>2. /\ Len(audit) \in Nat /\ Len(audit') = Len(audit) + 1
        /\ \A k \in 1..Len(audit) : audit'[k] = audit[k]
        /\ audit'[Len(audit) + 1] = e
        /\ DOMAIN audit = 1..Len(audit) /\ DOMAIN audit' = 1..(Len(audit) + 1)
      BY <1>1
  <1> QED BY <1>0, <1>2 DEF e

(* An entry is counted under its own action. *)
LEMMA RecordCounts ==
    ASSUME audit \in Seq(Entry), NEW a, NEW result, record(a, result), NEW b
    PROVE  Cardinality(Logged(b)') = Cardinality(Logged(b)) + (IF a = b THEN 1 ELSE 0)
  <1> DEFINE n == Len(audit)
  <1>1. /\ n \in Nat
        /\ \A k \in 1..n : audit'[k] = audit[k]
        /\ audit'[n + 1].action = a
        /\ DOMAIN audit = 1..n /\ DOMAIN audit' = 1..(n + 1)
      BY Recording
  <1>3. /\ Logged(b) \subseteq 1..n /\ Logged(b)' \subseteq 1..(n + 1)
        /\ \A k \in 1..n : k \in Logged(b)' <=> k \in Logged(b)
        /\ n + 1 \in Logged(b)' <=> a = b
    <2> HIDE DEF n
    <2> QED BY <1>1 DEF Logged
  <1> HIDE DEF n
  <1> DEFINE T == Logged(b)'
  <1>4. Cardinality(T) = Cardinality(Logged(b)) + (IF n + 1 \in T THEN 1 ELSE 0)
    <2> HIDE DEF T
    <2> QED BY <1>1, <1>3, Grow DEF T
  <1> QED BY <1>3, <1>4

(* What Run does to its own books when work has returned. *)
LEMMA Accounting ==
    ASSUME IInv, Account
    PROVE  /\ pc = "account" /\ pc' \in {"top", "stopped"} /\ verdict' = "none"
           /\ UNCHANGED <<audit, attempts>>
           /\ res'.attempted = res.attempted + 1
           /\ res'.closed = IF verdict = "blocked" THEN res.closed ELSE res.closed + 1
           /\ res'.parked = IF verdict = "blocked" THEN res.parked + 1 ELSE res.parked
           /\ res'.stuck \in {res.stuck, res.stuck + (IF verdict = "blocked" THEN 1 ELSE 0)}
           /\ fails' = Trail
           /\ res'.breaker <=> fails' >= BreakAfter
           /\ res'.breaker => pc' = "stopped"
  <1> DEFINE a == res.attempted + 1
             c == IF verdict = "blocked" THEN res.closed ELSE res.closed + 1
             k == IF verdict = "blocked" THEN res.parked + 1 ELSE res.parked
             s == IF verdict = "blocked" /\ stuck # NotStuck
                    THEN res.stuck + 1 ELSE res.stuck
             f == IF verdict = "blocked" THEN fails + 1 ELSE 0
             b == f >= BreakAfter
  <1>1. res' = [res EXCEPT !.attempted = a, !.closed = c, !.parked = k,
                           !.stuck = s, !.breaker = b]
      BY Zenon DEF Account
  <1>2. /\ pc = "account" /\ UNCHANGED <<audit, attempts>> /\ fails' = f /\ verdict' = "none"
        /\ pc' = IF b \/ once THEN "stopped" ELSE "top"
      BY DEF Account, Return, logVars
  <1>3. res \in Result /\ res.stuck \in Nat
      BY DEF IInv, TypeOK, Result
  <1>4. s \in {res.stuck, res.stuck + (IF verdict = "blocked" THEN 1 ELSE 0)}
      BY <1>3
  <1>5. f = Trail
      BY <1>2 DEF Trail
  <1>6. /\ res'.attempted = a /\ res'.closed = c /\ res'.parked = k
        /\ res'.stuck = s /\ res'.breaker = b
    <2> HIDE DEF a, c, k, s, b
    <2> QED BY <1>1, <1>3 DEF Result
  <1> HIDE DEF s, f
  <1> QED BY <1>2, <1>4, <1>5, <1>6

(* What work leaves in the metrics and the log when it returns. *)
LEMMA Releasing ==
    ASSUME IInv, ReleaseClaim
    PROVE  /\ pc = "release" /\ pc' = "account" /\ UNCHANGED <<verdict, res, fails>>
           /\ verdict \in {"closed", "blocked"}
           /\ record(IF verdict = "closed" THEN "release" ELSE "park", verdict)
           /\ Len(attempts) \in Nat /\ Len(attempts') = Len(attempts) + 1
           /\ DOMAIN attempts = 1..Len(attempts) /\ DOMAIN attempts' = 1..(Len(attempts) + 1)
           /\ \A k \in 1..Len(attempts) : attempts'[k] = attempts[k]
           /\ attempts'[Len(attempts) + 1].closed <=> verdict = "closed"
           /\ attempts'[Len(attempts) + 1].escalated <=> verdict = "blocked"
  <1> DEFINE x == [req |-> cur, closed |-> verdict = "closed",
                   escalated |-> verdict = "blocked",
                   firstPass |-> verdict = "closed" /\ i = 0]
  <1>1. attempts' = Append(attempts, x) /\ attempts \in Seq(Attempt)
      BY DEF ReleaseClaim, IInv, TypeOK
  <1>2. x.closed <=> verdict = "closed"
      OBVIOUS
  <1>3. x.escalated <=> verdict = "blocked"
      OBVIOUS
  <1>4. verdict \in {"closed", "blocked"} /\ pc = "release" /\ pc' = "account"
        /\ UNCHANGED <<verdict, res, fails>>
        /\ record(IF verdict = "closed" THEN "release" ELSE "park", verdict)
      BY DEF ReleaseClaim, IInv, LocalInv, Outcome, runVars
  <1> HIDE DEF x
  <1>5. /\ Len(attempts) \in Nat /\ Len(attempts') = Len(attempts) + 1
        /\ DOMAIN attempts = 1..Len(attempts) /\ DOMAIN attempts' = 1..(Len(attempts) + 1)
        /\ \A k \in 1..Len(attempts) : attempts'[k] = attempts[k]
        /\ attempts'[Len(attempts) + 1] = x
      BY <1>1
  <1> QED BY <1>2, <1>3, <1>4, <1>5

(* No other step touches the metrics or the counters. *)
LEMMA Elsewhere ==
    ASSUME IInv, [Next]_vars, ~ ReleaseClaim, ~ Account
    PROVE  /\ UNCHANGED attempts
           /\ UNCHANGED <<res.attempted, res.closed, res.parked, res.stuck, res.breaker, fails>>
           /\ UNCHANGED <<pc, verdict>> \/ (pc # "account" /\ pc' # "account")
           /\ \/ UNCHANGED audit
              \/ \E a \in {"claim", "verify", "escalate"} : \E result : record(a, result)
           /\ pc = "stopped" => pc' = "stopped"
  <1>1. UNCHANGED attempts /\ UNCHANGED fails
      BY DEF Next, Step, Preflight, StopOnBudget, StopOnCancel, ReadRows, ScanRow, TryClaim,
         Drive, VerifyPass, VerifyFail, VerifyError, ReadForStatus, WriteStatus, Elapse,
         vars, runVars, logVars
  <1>2. UNCHANGED res \/ res' = [res EXCEPT !.budget = TRUE]
      BY DEF Next, Step, Preflight, StopOnBudget, StopOnCancel, ReadRows, ScanRow, TryClaim,
         Drive, VerifyPass, VerifyFail, VerifyError, ReadForStatus, WriteStatus, Elapse,
         vars, runVars
  <1>3. UNCHANGED <<res.attempted, res.closed, res.parked, res.stuck, res.breaker>>
      BY <1>2 DEF IInv, TypeOK, Result
  <1>4. UNCHANGED <<pc, verdict>> \/ (pc \notin {"account", "stopped"} /\ pc' # "account")
      BY DEF Next, Step, Preflight, StopOnBudget, StopOnCancel, ReadRows, ScanRow, TryClaim,
         Drive, VerifyPass, VerifyFail, VerifyError, ReadForStatus, WriteStatus, Elapse,
         vars, Return, Park, Retry
  <1>5. \/ UNCHANGED audit
        \/ \E a \in {"claim", "verify", "escalate"} : \E result : record(a, result)
      BY Zenon DEF Next, Step, Preflight, StopOnBudget, StopOnCancel, ReadRows, ScanRow, TryClaim,
         Drive, VerifyPass, VerifyFail, VerifyError, ReadForStatus, WriteStatus, Elapse,
         vars, logVars
  <1> QED BY <1>1, <1>3, <1>4, <1>5

(* The books stay balanced. *)
LEMMA NextBalance == IInv /\ Balance /\ [Next]_vars => Balance'
  <1> SUFFICES ASSUME IInv, Balance, [Next]_vars PROVE Balance'
      OBVIOUS
  <1>0. /\ res.attempted \in Nat /\ res.closed \in Nat /\ res.parked \in Nat
        /\ res.stuck \in Nat /\ audit \in Seq(Entry)
      BY DEF IInv, TypeOK, Result
  <1>1. CASE ReleaseClaim
    <2> DEFINE n == Len(attempts)
               C == Closes'
               P == Parks'
    <2>1. /\ n \in Nat /\ Closes \subseteq 1..n /\ Parks \subseteq 1..n
          /\ C \subseteq 1..(n + 1) /\ P \subseteq 1..(n + 1)
          /\ \A k \in 1..n : (k \in C <=> k \in Closes) /\ (k \in P <=> k \in Parks)
          /\ n + 1 \in C <=> verdict = "closed"
          /\ n + 1 \in P <=> verdict = "blocked"
        BY <1>1, Releasing DEF Closes, Parks
    <2>2. /\ Cardinality(C) = Cardinality(Closes) + (IF verdict = "closed" THEN 1 ELSE 0)
          /\ Cardinality(P) = Cardinality(Parks) + (IF verdict = "blocked" THEN 1 ELSE 0)
      <3> HIDE DEF n, C, P
      <3>1. Cardinality(C) = Cardinality(Closes) + (IF n + 1 \in C THEN 1 ELSE 0)
          BY <2>1, Grow
      <3>2. Cardinality(P) = Cardinality(Parks) + (IF n + 1 \in P THEN 1 ELSE 0)
          BY <2>1, Grow
      <3> QED BY <2>1, <3>1, <3>2
    <2>3. /\ pc = "release" /\ pc' = "account" /\ UNCHANGED <<verdict, res>>
          /\ verdict \in {"closed", "blocked"} /\ Len(attempts') = n + 1
          /\ record(IF verdict = "closed" THEN "release" ELSE "park", verdict)
        BY <1>1, Releasing
    <2>4. Cardinality(Logged("release")')
              = Cardinality(Logged("release")) + (IF verdict = "closed" THEN 1 ELSE 0)
      <3>1. Cardinality(Logged("release")') = Cardinality(Logged("release"))
              + (IF (IF verdict = "closed" THEN "release" ELSE "park") = "release" THEN 1 ELSE 0)
          BY <1>0, <2>3, RecordCounts
      <3> QED BY <3>1
    <2>5. Cardinality(Logged("park")')
              = Cardinality(Logged("park")) + (IF verdict = "blocked" THEN 1 ELSE 0)
      <3>1. Cardinality(Logged("park")') = Cardinality(Logged("park"))
              + (IF (IF verdict = "closed" THEN "release" ELSE "park") = "park" THEN 1 ELSE 0)
          BY <1>0, <2>3, RecordCounts
      <3> QED BY <2>3, <3>1
    <2> QED BY <1>0, <2>2, <2>3, <2>4, <2>5 DEF Balance, Uncounted
  <1>2. CASE Account
    <2>1. verdict \in {"closed", "blocked"}
        BY <1>2, Accounting DEF IInv, LocalInv, Outcome
    <2>2. /\ Closes' = Closes /\ Parks' = Parks
          /\ Logged("release")' = Logged("release") /\ Logged("park")' = Logged("park")
        BY <1>2, Accounting DEF Closes, Parks, Logged
    <2>3. /\ pc = "account" /\ pc' # "account" /\ UNCHANGED attempts
          /\ res'.attempted = res.attempted + 1
          /\ res'.stuck = res.stuck \/ (verdict = "blocked" /\ res'.stuck = res.stuck + 1)
        BY <1>0, <1>2, <2>1, Accounting
    <2>4. CASE verdict = "closed"
      <3>1. res'.closed = res.closed + 1 /\ res'.parked = res.parked
          BY <1>2, <2>4, Accounting
      <3> QED BY <1>0, <2>2, <2>3, <2>4, <3>1 DEF Balance, Uncounted
    <2>5. CASE verdict = "blocked"
      <3>1. res'.closed = res.closed /\ res'.parked = res.parked + 1
          BY <1>2, <2>5, Accounting
      <3> QED BY <1>0, <2>2, <2>3, <2>5, <3>1 DEF Balance, Uncounted
    <2> QED BY <2>1, <2>4, <2>5
  <1>3. CASE ~ ReleaseClaim /\ ~ Account
    <2>1. /\ Cardinality(Logged("release")') = Cardinality(Logged("release"))
          /\ Cardinality(Logged("park")') = Cardinality(Logged("park"))
      <3>1. CASE UNCHANGED audit
          BY <3>1 DEF Logged
      <3>2. ASSUME NEW a \in {"claim", "verify", "escalate"}, NEW result, record(a, result)
            PROVE  /\ Cardinality(Logged("release")') = Cardinality(Logged("release")) + 0
                   /\ Cardinality(Logged("park")') = Cardinality(Logged("park")) + 0
        <4>1. a # "release" /\ a # "park" OBVIOUS
        <4>2. Cardinality(Logged("release")') = Cardinality(Logged("release"))
                  + (IF a = "release" THEN 1 ELSE 0)
            BY <1>0, <3>2, RecordCounts
        <4>3. Cardinality(Logged("park")') = Cardinality(Logged("park"))
                  + (IF a = "park" THEN 1 ELSE 0)
            BY <1>0, <3>2, RecordCounts
        <4> QED BY <4>1, <4>2, <4>3
      <3>3. Cardinality(Logged("release")) \in Nat /\ Cardinality(Logged("park")) \in Nat
          BY <1>0 DEF Balance, Uncounted
      <3> QED BY <1>3, <3>1, <3>2, <3>3, Elsewhere
    <2>2. Closes' = Closes /\ Parks' = Parks
        BY <1>3, Elsewhere DEF Closes, Parks
    <2> QED BY <1>3, <2>1, <2>2, Elsewhere DEF Balance, Uncounted
  <1> QED BY <1>1, <1>2, <1>3

(* Claims stay within the run budget. *)
LEMMA NextClaimed == IInv /\ Claimed /\ [Next]_vars => Claimed'
  <1> SUFFICES ASSUME IInv, Claimed, [Next]_vars PROVE Claimed'
      OBVIOUS
  <1> DEFINE C == Cardinality(Logged("claim"))
             D == Cardinality(Logged("claim")')
  <1>0. /\ res.attempted \in Nat /\ audit \in Seq(Entry) /\ MaxRequirements \in Nat
      BY LoopAssumption DEF IInv, TypeOK, Result
  <1>1. UNCHANGED audit => D = C
      BY DEF Logged
  <1>2. ASSUME NEW a \in {"verify", "escalate", "release", "park"}, NEW result,
               record(a, result), C \in Nat
        PROVE  D = C
    <2>1. a # "claim" OBVIOUS
    <2>2. D = C + (IF a = "claim" THEN 1 ELSE 0) BY <1>0, <1>2, RecordCounts
    <2> QED BY <1>2, <2>1, <2>2
  <1>3. CASE TryClaim
    <2>1. pc = "claim" /\ UNCHANGED res
        BY <1>3 DEF TryClaim, runVars
    <2>2. C = res.attempted /\ (MaxRequirements > 0 => res.attempted < MaxRequirements)
        BY <2>1 DEF Claimed, Working
    <2>3. CASE record("claim", "none") /\ pc' = "drive"
      <3>1. D = C + (IF "claim" = "claim" THEN 1 ELSE 0)
          BY <1>0, <2>3, RecordCounts
      <3>2. D = res.attempted + 1
          BY <1>0, <2>2, <3>1
      <3> HIDE DEF D
      <3> QED BY <1>0, <2>1, <2>2, <2>3, <3>2 DEF Claimed, Working, D
    <2>4. CASE UNCHANGED audit /\ pc' = "failed"
        BY <1>0, <1>1, <2>1, <2>2, <2>4 DEF Claimed, Working
    <2> QED BY <1>3, <2>3, <2>4 DEF TryClaim, Return
  <1>4. CASE Account
    <2>1. /\ pc = "account" /\ pc' \in {"top", "stopped"} /\ UNCHANGED audit
          /\ res'.attempted = res.attempted + 1
        BY <1>4, Accounting
    <2> QED BY <1>0, <1>1, <2>1 DEF Claimed, Working
  <1>5. CASE Drive \/ VerifyPass \/ VerifyError \/ (\E out \in Outputs : VerifyFail(out))
             \/ ReadForStatus \/ WriteStatus \/ ReleaseClaim
    <2>1. /\ pc \in Working /\ UNCHANGED res /\ pc' \in Working \cup {"account", "failed"}
        BY <1>5 DEF Drive, VerifyPass, VerifyError, VerifyFail, ReadForStatus, WriteStatus,
           ReleaseClaim, Park, Retry, Return, runVars, Working
    <2>2. \/ UNCHANGED audit
          \/ \E a \in {"verify", "escalate", "release", "park"} : \E result : record(a, result)
        BY <1>5, Zenon DEF Drive, VerifyPass, VerifyError, VerifyFail, ReadForStatus, WriteStatus,
           ReleaseClaim, logVars
    <2>3. C = res.attempted + 1
        BY <2>1 DEF Claimed
    <2>4. D = C
        BY <1>0, <1>1, <1>2, <2>2, <2>3
    <2> HIDE DEF C, D
    <2> QED BY <1>0, <2>1, <2>3, <2>4 DEF Claimed, Working, C, D
  <1>6. CASE Preflight \/ StopOnBudget \/ StopOnCancel \/ ReadRows \/ ScanRow
    <2>1. /\ UNCHANGED audit /\ res'.attempted = res.attempted
          /\ pc \in {"preflight", "top", "scan"}
          /\ pc' \in {"top", "scan", "claim"} \cup Halted
        BY <1>6, Elsewhere DEF Preflight, StopOnBudget, StopOnCancel, ReadRows, ScanRow,
           logVars, Return, Halted, ReleaseClaim, Account
    <2>2. pc' \in {"scan", "claim"} /\ MaxRequirements > 0 => res.attempted < MaxRequirements
        BY <1>0, <1>6 DEF Preflight, StopOnBudget, StopOnCancel, ReadRows, ScanRow, Return,
           OverRunBudget, Claimed
    <2> QED BY <1>0, <1>1, <2>1, <2>2 DEF Claimed, Working, Halted
  <1>7. ASSUME UNCHANGED <<pc, audit, res>> PROVE Claimed'
      BY <1>1, <1>7 DEF Claimed
  <1>8. (\E d \in {"session", "task", "cancel"} : Elapse(d)) \/ UNCHANGED vars
            => UNCHANGED <<pc, audit, res>>
      BY DEF Elapse, vars, runVars, logVars
  <1> QED BY <1>3, <1>4, <1>5, <1>6, <1>7, <1>8 DEF Next, Step

(* The run of failures is what the metrics end with. *)
LEMMA NextBreaking == IInv /\ Breaking /\ [Next]_vars => Breaking'
  <1> SUFFICES ASSUME IInv, Breaking, [Next]_vars PROVE Breaking'
      OBVIOUS
  <1>0. fails \in Nat /\ res.breaker \in BOOLEAN /\ attempts \in Seq(Attempt)
      BY DEF IInv, TypeOK, Result
  <1>1. CASE ReleaseClaim
    <2> DEFINE n == Len(attempts)
               f == IF verdict = "blocked" THEN fails + 1 ELSE 0
    <2>1. TrailIs(fails) /\ ~ res.breaker
        BY <1>1, Releasing DEF Breaking, Trail
    <2>2. /\ n \in Nat /\ Len(attempts') = n + 1 /\ \A k \in 1..n : attempts'[k] = attempts[k]
          /\ attempts'[n + 1].escalated <=> verdict = "blocked"
          /\ pc' = "account" /\ UNCHANGED <<verdict, res, fails>>
        BY <1>1, Releasing
    <2>3. /\ fails <= n /\ \A k \in 0..(fails - 1) : attempts[n - k].escalated
          /\ fails < n => ~ attempts[n - fails].escalated
        BY <2>1 DEF TrailIs
    <2> HIDE DEF n
    <2>4. /\ f <= n + 1
          /\ \A k \in 0..(f - 1) : attempts'[n + 1 - k].escalated
          /\ f < n + 1 => ~ attempts'[n + 1 - f].escalated
      <3>1. CASE verdict = "blocked"
        <4>1. ASSUME NEW k \in 0..fails PROVE attempts'[n + 1 - k].escalated
          <5>1. CASE k = 0 BY <2>2, <3>1, <5>1
          <5>2. CASE k # 0
            <6>1. k - 1 \in 0..(fails - 1) /\ n - (k - 1) = n + 1 - k /\ n + 1 - k \in 1..n
                BY <1>0, <2>2, <2>3, <5>2
            <6> QED BY <2>2, <2>3, <6>1
          <5> QED BY <5>1, <5>2
        <4>2. fails < n => ~ attempts'[n - fails].escalated
            BY <1>0, <2>2, <2>3
        <4>3. f - 1 = fails /\ n + 1 - f = n - fails /\ f <= n + 1 /\ (f < n + 1 => fails < n)
            BY <1>0, <2>2, <2>3, <3>1
        <4> HIDE DEF f
        <4> QED BY <4>1, <4>2, <4>3
      <3>2. CASE verdict # "blocked"
          BY <2>2, <3>2
      <3> QED BY <3>1, <3>2
    <2>5. TrailIs(Trail)'
      <3>1. Trail' = f /\ f \in Nat BY <1>0, <2>2 DEF Trail
      <3> HIDE DEF f
      <3>2. Len(attempts') = n + 1 /\ n \in Nat BY <2>2
      <3>3. Trail' <= Len(attempts') BY <2>4, <3>1, <3>2
      <3>4. \A k \in 0..(Trail' - 1) : attempts'[Len(attempts') - k].escalated
          BY <2>4, <3>1, <3>2
      <3>5. Trail' < Len(attempts') => ~ attempts'[Len(attempts') - Trail'].escalated
          BY <2>4, <3>1, <3>2
      <3> QED BY <3>3, <3>4, <3>5 DEF TrailIs
    <2> QED BY <1>1, <2>1, <2>2, <2>5, Releasing DEF Breaking
  <1>2. CASE Account
    <2>1. TrailIs(Trail)'
      <3>1. Trail' = Trail /\ UNCHANGED attempts
          BY <1>2, Accounting DEF Trail
      <3> QED BY <3>1 DEF Breaking, TrailIs
    <2> QED BY <1>2, <2>1, Accounting DEF Breaking
  <1>3. CASE ~ ReleaseClaim /\ ~ Account
    <2>1. /\ UNCHANGED <<attempts, res.breaker, fails>>
          /\ UNCHANGED <<pc, verdict>> \/ (pc # "account" /\ pc' # "account")
          /\ pc = "stopped" => pc' = "stopped"
        BY <1>3, Elsewhere
    <2> QED BY <2>1 DEF Breaking, TrailIs, Trail
  <1> QED BY <1>1, <1>2, <1>3

(* The run of identical outputs is what the failed verifications end with. *)
LEMMA NextRepeats == IInv /\ Repeats /\ [Next]_vars => Repeats'
  <1> SUFFICES ASSUME IInv, Repeats, [Next]_vars PROVE Repeats'
      OBVIOUS
  <1> USE LoopAssumption
  <1>1. CASE FreshWork
    <2>1. /\ Len(outs') = 0 /\ same' = 0 /\ feedback'.out = NoOutput /\ ~ feedback'.fallback
        BY <1>1 DEF FreshWork, NoFeedback
    <2> QED BY <2>1 DEF Repeats
  <1>2. CASE UNCHANGED <<outs, same, feedback>>
      BY <1>2 DEF Repeats
  <1>3. ASSUME NEW out \in Outputs, VerifyFail(out) PROVE Repeats'
    <2> DEFINE n == Len(outs)
    <2>1. /\ same' = IF out # NoOutput /\ out = feedback.out THEN same + 1 ELSE 1
          /\ feedback' = [out |-> out, fallback |-> FallbackAfter > 0 /\ same' >= FallbackAfter]
          /\ outs' = Append(outs, out) /\ outs \in Seq(Outputs) /\ same \in Nat
        BY <1>3 DEF VerifyFail, IInv, TypeOK
    <2>2. /\ n \in Nat /\ Len(outs') = n + 1 /\ outs'[n + 1] = out
          /\ \A k \in 1..n : outs'[k] = outs[k]
        BY <2>1
    <2>3. feedback'.out = out
        BY <2>1
    <2>4. feedback'.fallback <=> FallbackAfter > 0 /\ same' >= FallbackAfter
        BY <2>1
    <2>5. /\ n = 0 => same = 0 /\ feedback.out = NoOutput
          /\ n > 0 => /\ same \in 1..n
                      /\ feedback.out = outs[n]
                      /\ \A k \in 0..(same - 1) : outs[n - k] = outs[n]
                      /\ same > 1 => outs[n] # NoOutput
                      /\ same < n => outs[n - same] # outs[n] \/ outs[n] = NoOutput
        BY DEF Repeats
    <2> HIDE DEF n
    <2>6. CASE out # NoOutput /\ out = feedback.out
      <3>1. n > 0 /\ same' = same + 1 /\ outs[n] = out
          BY <2>1, <2>2, <2>5, <2>6
      <3>2. ASSUME NEW k \in 0..same PROVE outs'[n + 1 - k] = out
        <4>1. CASE k = 0 BY <2>2, <4>1
        <4>2. CASE k # 0
          <5>1. k - 1 \in 0..(same - 1) /\ n - (k - 1) = n + 1 - k /\ n + 1 - k \in 1..n
              BY <2>1, <2>2, <2>5, <3>1, <4>2
          <5> QED BY <2>2, <2>5, <3>1, <5>1
        <4> QED BY <4>1, <4>2
      <3>3. same < n => outs'[n - same] # out
          BY <2>2, <2>5, <2>6, <3>1
      <3> QED BY <2>1, <2>2, <2>3, <2>4, <2>5, <2>6, <3>1, <3>2, <3>3 DEF Repeats
    <2>7. CASE ~ (out # NoOutput /\ out = feedback.out)
      <3>1. same' = 1
          BY <2>1, <2>7
      <3>2. n > 0 => outs'[n] # out \/ out = NoOutput
          BY <2>2, <2>5, <2>7
      <3> QED BY <2>2, <2>3, <2>4, <3>1, <3>2 DEF Repeats
    <2> QED BY <2>6, <2>7
  <1>4. \/ FreshWork \/ UNCHANGED <<outs, same, feedback>>
        \/ \E out \in Outputs : VerifyFail(out)
      BY DEF Next, Step, Preflight, StopOnBudget, StopOnCancel, ReadRows, ScanRow, TryClaim,
         Drive, VerifyPass, VerifyError, ReadForStatus, WriteStatus, ReleaseClaim, Account, Elapse,
         vars, workVars
  <1> QED BY <1>1, <1>2, <1>3, <1>4

(* What an entry of the log is evidence of, its predecessor included. *)
Evidence(k) ==
    /\ \A j \in SinceClaim(k) : audit[j].req = audit[k].req
    /\ audit[k].action = "release" =>
           k > 1 /\ audit[k-1] = [action |-> "verify", req |-> audit[k].req, result |-> "pass"]
    /\ audit[k].action = "park" => k > 1 /\ audit[k-1].action = "escalate"
    /\ audit[k].action = "escalate" => \A j \in Verifies(k) : audit[j].result # "pass"
    /\ Cardinality(Verifies(k)) <= Retries + 1

Evident == \A k \in 1..Len(audit) : Evidence(k)

(* An entry changes nothing of what came before it, and begins a new       *)
(* stretch of the log or goes on with the last one.                        *)
LEMMA Stretch ==
    ASSUME audit \in Seq(Entry), NEW a, NEW result, record(a, result)
    PROVE  /\ \A k \in 1..Len(audit) : SinceClaim(k)' = SinceClaim(k) /\ Verifies(k)' = Verifies(k)
           /\ \A m : m = Len(audit) + 1 =>
                  SinceClaim(m)' = (IF a = "claim" THEN {} ELSE SinceClaim(Len(audit))) \cup {m}
  <1> DEFINE n == Len(audit)
  <1>1. /\ n \in Nat /\ \A k \in 1..n : audit'[k] = audit[k]
        /\ audit'[n + 1].action = a
      BY Recording
  <1> HIDE DEF n
  <1>2. ASSUME NEW k \in 1..n
        PROVE  SinceClaim(k)' = SinceClaim(k) /\ Verifies(k)' = Verifies(k)
    <2>1. \A j \in 1..k : \A m \in (j + 1)..k : audit'[m] = audit[m]
        BY <1>1, <1>2
    <2>2. \A j \in 1..k : audit'[j] = audit[j]
        BY <1>1, <1>2
    <2>3. SinceClaim(k)' = SinceClaim(k)
        BY <2>1 DEF SinceClaim
    <2>4. SinceClaim(k) \subseteq 1..k
        BY DEF SinceClaim
    <2> QED BY <2>2, <2>3, <2>4 DEF Verifies
  <1>3. ASSUME NEW m, m = n + 1
        PROVE  SinceClaim(m)' = (IF a = "claim" THEN {} ELSE SinceClaim(n)) \cup {m}
    <2>1. \A j : j \in 1..m <=> j \in 1..n \/ j = m
        BY <1>1, <1>3
    <2>2. \A j \in 1..n : \A x : x \in (j + 1)..m <=> x \in (j + 1)..n \/ x = m
        BY <1>1, <1>3
    <2>3. \A x : x \notin (m + 1)..m
        BY <1>1, <1>3
    <2>4. \A j \in 1..n : \A x \in (j + 1)..n : audit'[x].action = audit[x].action
        BY <1>1
    <2>5. \A j \in 1..n : (\A x \in (j + 1)..m : audit'[x].action # "claim")
                             <=> a # "claim" /\ \A x \in (j + 1)..n : audit[x].action # "claim"
        BY <1>1, <1>3, <2>2, <2>4
    <2>6. \A j : j \in SinceClaim(m)' <=> j = m \/ (a # "claim" /\ j \in SinceClaim(n))
      <3>1. \A j : j \in SinceClaim(m)' <=>
                      j \in 1..m /\ \A x \in (j + 1)..m : audit'[x].action # "claim"
          BY DEF SinceClaim
      <3>2. \A j : j \in SinceClaim(n) <=>
                      j \in 1..n /\ \A x \in (j + 1)..n : audit[x].action # "claim"
          BY DEF SinceClaim
      <3> QED BY <2>1, <2>3, <2>5, <3>1, <3>2
    <2> QED BY <2>6, Zenon
  <1> QED BY <1>2, <1>3 DEF n

(* Another entry about the requirement at hand. *)
LEMMA StretchAtHand ==
    ASSUME IInv, pc \in Working, AtHand, NEW a, a # "claim", NEW result, record(a, result),
           NEW m, m = Len(audit) + 1
    PROVE  /\ \A j \in SinceClaim(m)' : audit'[j].req = cur
           /\ Verifies(m)' = Verifies(Len(audit)) \cup (IF a = "verify" THEN {m} ELSE {})
           /\ Cardinality(Verifies(Len(audit))) \in Nat
           /\ Cardinality(Verifies(m)')
                  = Cardinality(Verifies(Len(audit))) + (IF a = "verify" THEN 1 ELSE 0)
           /\ \A j \in Verifies(Len(audit)) : audit'[j] = audit[j]
  <1> DEFINE n == Len(audit)
             V == Verifies(n)
             W == Verifies(m)'
  <1>0. audit \in Seq(Entry)
      BY DEF IInv, TypeOK
  <1>1. /\ n \in Nat /\ \A k \in 1..n : audit'[k] = audit[k]
        /\ audit'[m].action = a /\ audit'[m].req = cur
      BY <1>0, Recording
  <1>2. SinceClaim(m)' = SinceClaim(n) \cup {m} /\ SinceClaim(n) \subseteq 1..n
      BY <1>0, Stretch DEF SinceClaim
  <1>3. \A j \in SinceClaim(n) : audit[j].req = cur
      BY DEF AtHand
  <1>4. V \subseteq 1..n /\ m = n + 1
      BY <1>2 DEF Verifies
  <1> HIDE DEF n
  <1>5. W = V \cup (IF a = "verify" THEN {m} ELSE {})
      BY <1>1, <1>2 DEF Verifies
  <1> HIDE DEF V, W
  <1>6. /\ W \subseteq 1..(n + 1) /\ \A k \in 1..n : k \in W <=> k \in V
        /\ n + 1 \in W <=> a = "verify"
      BY <1>1, <1>4, <1>5
  <1>7. /\ Cardinality(V) \in Nat
        /\ Cardinality(W) = Cardinality(V) + (IF n + 1 \in W THEN 1 ELSE 0)
      BY <1>1, <1>4, <1>6, Grow
  <1>8. \A j \in V : audit'[j] = audit[j]
      BY <1>1, <1>4
  <1>9. \A j \in SinceClaim(m)' : audit'[j].req = cur
      BY <1>1, <1>2, <1>3
  <1> QED BY <1>5, <1>6, <1>7, <1>8, <1>9 DEF n, V, W

(* A log of evidence goes on if its new entry is evidence. *)
LEMMA EvidentGrows ==
    ASSUME audit \in Seq(Entry), Evident, NEW a, NEW result, record(a, result),
           \A m : m = Len(audit) + 1 => Evidence(m)'
    PROVE  Evident'
  <1> DEFINE n == Len(audit)
  <1>1. n \in Nat /\ Len(audit') = n + 1 /\ \A k \in 1..n : audit'[k] = audit[k]
      BY Recording
  <1> SUFFICES ASSUME NEW k \in 1..(n + 1) PROVE Evidence(k)'
      BY <1>1 DEF Evident
  <1> HIDE DEF n
  <1>2. CASE k \in 1..n
    <2>1. SinceClaim(k)' = SinceClaim(k) /\ Verifies(k)' = Verifies(k)
        BY <1>2, Stretch DEF n
    <2>2. SinceClaim(k) \subseteq 1..k /\ Verifies(k) \subseteq 1..k
        BY DEF SinceClaim, Verifies
    <2>3. /\ audit'[k] = audit[k] /\ \A j \in 1..k : audit'[j] = audit[j]
          /\ k > 1 => audit'[k-1] = audit[k-1]
        BY <1>1, <1>2
    <2>4. Evidence(k)
        BY <1>2 DEF Evident, n
    <2> QED BY <2>1, <2>2, <2>3, <2>4 DEF Evidence
  <1>3. CASE k = n + 1
      BY <1>3 DEF n
  <1> QED BY <1>1, <1>2, <1>3

(* The log stays evidence, whichever way an attempt ends. *)
LEMMA NextEvident == IInv /\ AtHand /\ Evident /\ [Next]_vars => (AtHand /\ Evident)'
  <1> SUFFICES ASSUME IInv, AtHand, Evident, [Next]_vars PROVE (AtHand /\ Evident)'
      OBVIOUS
  <1> USE LoopAssumption
  <1> DEFINE n == Len(audit)
  <1>0. audit \in Seq(Entry) /\ n \in Nat /\ i \in 0..Retries /\ Retries \in Nat
      BY LenProperties DEF IInv, TypeOK
  <1>1. ASSUME UNCHANGED audit
        PROVE  Evident'
    <2>1. \A k : SinceClaim(k)' = SinceClaim(k)
        BY <1>1 DEF SinceClaim
    <2>2. \A k : Verifies(k)' = Verifies(k)
        BY <1>1, <2>1 DEF Verifies
    <2> QED BY <1>1, <2>1, <2>2 DEF Evident, Evidence
  <1>2. ASSUME UNCHANGED audit, pc' \notin Working
        PROVE  (AtHand /\ Evident)'
      BY <1>1, <1>2 DEF AtHand
  (* A claim begins a stretch. *)
  <1>3. CASE TryClaim
    <2>1. CASE UNCHANGED audit /\ Return("failed")
        BY <1>2, <2>1 DEF Return, Working
    <2>2. CASE record("claim", "none") /\ FreshWork /\ pc' = "drive" /\ UNCHANGED <<cur, verdict>>
      <3> DEFINE m == n + 1
      <3>1. /\ Len(audit') = m /\ audit'[m].action = "claim" /\ audit'[m].req = cur
          BY <1>0, <2>2, Recording
      <3>2. \A k : k = m => SinceClaim(k)' = {m}
          BY <1>0, <2>2, Stretch
      <3>3. \A k : k = m => Verifies(k)' = {}
        <4> HIDE DEF m
        <4> QED BY <3>1, <3>2 DEF Verifies
      <3>4. Cardinality({}) = 0
          BY FS_EmptySet
      <3>5. verdict = "none"
          BY <1>3 DEF TryClaim, IInv, LocalInv, Outcome
      <3>6. AtHand'
        <4>1. i' = 0 BY <2>2 DEF FreshWork
        <4>2. m > 0 BY <1>0
        <4>3. \A k : k = m => /\ \A j \in SinceClaim(k)' : audit'[j].req = cur'
                              /\ Verifies(k)' = {} /\ Cardinality(Verifies(k)') = 0
            BY <2>2, <3>1, <3>2, <3>3, <3>4
        <4>4. Len(audit') = m /\ pc' = "drive" /\ verdict' = "none"
            BY <2>2, <3>1, <3>5
        <4> HIDE DEF m
        <4> QED BY <4>1, <4>2, <4>3, <4>4 DEF AtHand
      <3>7. \A k : k = m => Evidence(k)'
        <4>1. 0 <= Retries + 1 BY <1>0
        <4> HIDE DEF m
        <4> QED BY <3>1, <3>2, <3>3, <3>4, <4>1 DEF Evidence
      <3> QED BY <1>0, <2>2, <3>6, <3>7, EvidentGrows
    <2> QED BY <1>3, <2>1, <2>2 DEF TryClaim
  (* Work goes on with it.  What the log and the locals were before: *)
  <1> DEFINE V == Verifies(n)
  <1>4. pc \in Working =>
            /\ n > 0 /\ cur \in Req
            /\ Cardinality(V) <= IF pc \in {"drive", "verify"} THEN i ELSE i + 1
            /\ verdict # "closed" => \A j \in V : audit[j].result # "pass"
      BY DEF AtHand, IInv, LocalInv, Chosen
  <1>5. ASSUME pc \in Working, UNCHANGED <<audit, cur>>, pc' \in Working,
               Cardinality(V) <= IF pc' \in {"drive", "verify"} THEN i' ELSE i' + 1,
               \/ UNCHANGED verdict
               \/ verdict # "closed" /\ verdict' = "blocked",
               pc' = "release" => verdict' # "blocked"
        PROVE  (AtHand /\ Evident)'
    <2>1. AtHand'
        BY <1>5 DEF AtHand, SinceClaim, Verifies
    <2> QED BY <1>1, <1>5, <2>1
  <1>6. CASE Drive
    <2>1. /\ pc = "drive" /\ UNCHANGED <<audit, cur>> /\ verdict = "none"
        BY <1>6 DEF Drive, logVars, IInv, LocalInv, Outcome
    <2>2. \/ pc' = "read" /\ verdict' = "blocked" /\ i' = i
          \/ pc' = "drive" /\ UNCHANGED verdict /\ i' = i + 1
          \/ pc' = "verify" /\ UNCHANGED verdict /\ i' = i
        BY <1>6 DEF Drive, Park, Retry
    <2>3. Cardinality(V) \in Nat
      <3>1. IsFiniteSet(1..n) /\ V \subseteq 1..n
          BY <1>0, FS_Interval DEF Verifies, SinceClaim
      <3> QED BY <3>1, FS_Subset, FS_CardinalityType
    <2>4. Cardinality(V) <= i
        BY <1>4, <2>1 DEF Working
    <2> HIDE DEF V
    <2> QED BY <1>0, <1>5, <2>1, <2>2, <2>3, <2>4 DEF Working
  (* An entry about the requirement at hand: its effect on the stretch. *)
  <1>7. ASSUME pc \in Working, NEW a, a # "claim", NEW result, record(a, result)
        PROVE  /\ Len(audit') = n + 1
               /\ audit'[n + 1] = [action |-> a, req |-> cur, result |-> result]
               /\ audit'[n + 1].action = a /\ audit'[n + 1].req = cur
               /\ audit'[n + 1].result = result
               /\ audit'[n] = audit[n]
               /\ Cardinality(V) \in Nat
               /\ \A j \in V : audit'[j] = audit[j]
               /\ \A m : m = n + 1 =>
                     /\ \A j \in SinceClaim(m)' : audit'[j].req = cur
                     /\ Verifies(m)' = V \cup (IF a = "verify" THEN {m} ELSE {})
                     /\ Cardinality(Verifies(m)')
                            = Cardinality(V) + (IF a = "verify" THEN 1 ELSE 0)
    <2>1. n \in 1..n BY <1>0, <1>4, <1>7
    <2>2. /\ Len(audit') = n + 1
          /\ audit'[n + 1] = [action |-> a, req |-> cur, result |-> result]
          /\ audit'[n + 1].action = a /\ audit'[n + 1].req = cur
          /\ audit'[n + 1].result = result
          /\ audit'[n] = audit[n]
        BY <1>0, <1>7, <2>1, Recording
    <2> QED BY <1>7, <2>2, StretchAtHand
  (* A verification, then the next attempt or the end of the attempts. *)
  <1>8. ASSUME pc = "verify", NEW result, record("verify", result), UNCHANGED cur,
               \/ result # "pass" /\ pc' = "drive" /\ UNCHANGED verdict /\ i' = i + 1
               \/ result # "pass" /\ pc' = "read" /\ verdict' = "blocked" /\ UNCHANGED i
               \/ result = "pass" /\ pc' = "read" /\ verdict' = "closed" /\ UNCHANGED i
        PROVE  (AtHand /\ Evident)'
    <2>1. pc \in Working /\ pc' \in Working /\ verdict = "none" /\ pc' # "release"
        BY <1>8 DEF Working, IInv, LocalInv, Outcome
    <2>2. /\ Len(audit') = n + 1
          /\ audit'[n + 1] = [action |-> "verify", req |-> cur, result |-> result]
          /\ audit'[n + 1].action = "verify" /\ audit'[n + 1].req = cur
          /\ audit'[n + 1].result = result
          /\ Cardinality(V) \in Nat /\ Cardinality(V) <= i
          /\ \A j \in V : audit'[j] = audit[j]
          /\ \A j \in V : audit[j].result # "pass"
        BY <1>4, <1>7, <1>8, <2>1
    <2>3. \A m : m = n + 1 => /\ \A j \in SinceClaim(m)' : audit'[j].req = cur
                              /\ Verifies(m)' = V \cup {m}
                              /\ Cardinality(Verifies(m)') = Cardinality(V) + 1
        BY <1>7, <1>8, <2>1
    <2> HIDE DEF V
    <2>4. \A m : m = n + 1 => Evidence(m)'
        BY <1>0, <2>2, <2>3 DEF Evidence
    <2>5. AtHand'
      <3> DEFINE m == n + 1
      <3>1. m > 0 BY <1>0
      <3>2. Cardinality(V) + 1 <= IF pc' \in {"drive", "verify"} THEN i' ELSE i' + 1
          BY <1>0, <1>8, <2>2
      <3>3. \A k : k = m => \A j \in SinceClaim(k)' : audit'[j].req = cur'
          BY <1>8, <2>3
      <3>4. verdict' # "closed" => \A j \in V \cup {m} : audit'[j].result # "pass"
          BY <1>8, <2>2
      <3>5. verdict' = "closed" =>
                audit'[m] = [action |-> "verify", req |-> cur', result |-> "pass"]
          BY <1>8, <2>1, <2>2
      <3> HIDE DEF m
      <3>6. Len(audit') = m BY <2>2 DEF m
      <3>7. \A k : k = m => Verifies(k)' = V \cup {m} /\ Cardinality(Verifies(k)') = Cardinality(V) + 1
          BY <2>3 DEF m
      <3> QED BY <2>1, <3>1, <3>2, <3>3, <3>4, <3>5, <3>6, <3>7 DEF AtHand
    <2> QED BY <1>0, <1>8, <2>4, <2>5, EvidentGrows
  <1>9. CASE VerifyPass
      BY <1>8, <1>9 DEF VerifyPass, workVars
  <1>10. ASSUME pc = "verify", Park \/ Retry
         PROVE  \/ pc' = "drive" /\ UNCHANGED verdict /\ i' = i + 1
                \/ pc' = "read" /\ verdict' = "blocked" /\ UNCHANGED i
      BY <1>10 DEF Park, Retry
  <1>11. CASE VerifyError
      BY <1>8, <1>10, <1>11 DEF VerifyError
  <1>12. ASSUME NEW out \in Outputs, VerifyFail(out) PROVE (AtHand /\ Evident)'
      BY <1>8, <1>10, <1>12 DEF VerifyFail
  <1>13. CASE ReadForStatus
    <2>1. CASE Return("failed")
        BY <1>2, <1>13, <2>1 DEF ReadForStatus, Return, Working, logVars
    <2>2. CASE pc' = "write" /\ UNCHANGED <<cur, verdict>>
      <3>1. /\ pc = "read" /\ pc \in Working /\ pc' \in Working /\ UNCHANGED <<audit, i>>
          BY <1>13, <2>2 DEF ReadForStatus, Working, workVars, logVars
      <3>2. Cardinality(V) <= i + 1
          BY <1>4, <3>1
      <3> HIDE DEF V
      <3> QED BY <1>5, <2>2, <3>1, <3>2
    <2> QED BY <1>13, <2>1, <2>2 DEF ReadForStatus
  <1>14. CASE WriteStatus
    <2>0. /\ pc = "write" /\ pc \in Working /\ UNCHANGED i
          /\ Cardinality(V) <= i + 1
        BY <1>4, <1>14 DEF WriteStatus, Working, workVars
    <2>1. CASE Return("failed") /\ UNCHANGED audit
        BY <1>2, <2>1 DEF Return, Working
    <2>2. CASE verdict = "closed" /\ UNCHANGED <<audit, cur, verdict>> /\ pc' = "release"
      <3> HIDE DEF V
      <3> QED BY <1>5, <2>0, <2>2 DEF Working
    <2>3. CASE /\ verdict = "blocked" /\ record("escalate", "blocked")
               /\ UNCHANGED <<cur, verdict>> /\ pc' = "release"
      <3>2. /\ Len(audit') = n + 1
            /\ audit'[n + 1].action = "escalate" /\ audit'[n + 1].req = cur
            /\ \A j \in V : audit'[j] = audit[j]
            /\ \A j \in V : audit[j].result # "pass"
          BY <1>4, <1>7, <2>0, <2>3
      <3>3. \A m : m = n + 1 => /\ \A j \in SinceClaim(m)' : audit'[j].req = cur
                                /\ Verifies(m)' = V
        <4>1. \A m : m = n + 1 =>
                  /\ \A j \in SinceClaim(m)' : audit'[j].req = cur
                  /\ Verifies(m)' = V \cup (IF "escalate" = "verify" THEN {m} ELSE {})
            BY <1>7, <2>0, <2>3
        <4> HIDE DEF V
        <4>2. \A m : V \cup (IF "escalate" = "verify" THEN {m} ELSE {}) = V
            OBVIOUS
        <4> QED BY <4>1, <4>2
      <3> HIDE DEF V
      <3>4. Cardinality(V) <= Retries + 1
        <4>1. Cardinality(V) \in Nat BY <1>7, <2>0, <2>3
        <4> QED BY <1>0, <2>0, <4>1
      <3>5. \A m : m = n + 1 => Evidence(m)'
          BY <3>2, <3>3, <3>4 DEF Evidence
      <3>6. AtHand'
        <4> DEFINE m == n + 1
        <4>1. m > 0 BY <1>0
        <4>2. \A k : k = m => /\ \A j \in SinceClaim(k)' : audit'[j].req = cur'
                              /\ Verifies(k)' = V
            BY <2>3, <3>3
        <4>3. /\ Len(audit') = m /\ audit'[m].action = "escalate" /\ verdict' = "blocked"
              /\ \A j \in V : audit'[j].result # "pass"
            BY <2>3, <3>2
        <4> HIDE DEF m
        <4> QED BY <2>0, <2>3, <4>1, <4>2, <4>3 DEF AtHand
      <3> QED BY <1>0, <2>3, <3>5, <3>6, EvidentGrows
    <2> QED BY <1>14, <2>1, <2>2, <2>3 DEF WriteStatus
  <1>15. CASE ReleaseClaim
    <2> DEFINE a == IF verdict = "closed" THEN "release" ELSE "park"
    <2>1. /\ pc = "release" /\ pc \in Working /\ pc' = "account" /\ record(a, verdict)
          /\ verdict \in {"closed", "blocked"} /\ a # "claim" /\ a # "verify" /\ a # "escalate"
          /\ a = "release" <=> verdict = "closed"
        BY <1>15, Releasing DEF Working
    <2>2. /\ n > 0 /\ Cardinality(V) <= i + 1
          /\ verdict = "closed" =>
                 audit[n] = [action |-> "verify", req |-> cur, result |-> "pass"]
          /\ verdict = "blocked" => audit[n].action = "escalate"
        BY <1>4, <2>1 DEF AtHand
    <2> HIDE DEF a
    <2>3. /\ Len(audit') = n + 1 /\ audit'[n + 1].action = a /\ audit'[n + 1].req = cur
          /\ audit'[n] = audit[n] /\ Cardinality(V) \in Nat
        BY <1>7, <2>1
    <2>4. \A m : m = n + 1 => /\ \A j \in SinceClaim(m)' : audit'[j].req = cur
                              /\ Verifies(m)' = V
      <3>1. \A m : m = n + 1 => /\ \A j \in SinceClaim(m)' : audit'[j].req = cur
                                /\ Verifies(m)' = V \cup (IF a = "verify" THEN {m} ELSE {})
          BY <1>7, <2>1
      <3> HIDE DEF V
      <3>2. \A m : V \cup (IF a = "verify" THEN {m} ELSE {}) = V
          BY <2>1
      <3> QED BY <3>1, <3>2
    <2> HIDE DEF V
    <2>5. \A m : m = n + 1 => Evidence(m)'
      <3> SUFFICES ASSUME NEW m, m = n + 1 PROVE Evidence(m)'
          OBVIOUS
      <3>1. m > 1 /\ m - 1 = n /\ Cardinality(V) <= Retries + 1
          BY <1>0, <2>2, <2>3
      <3> QED BY <2>1, <2>2, <2>3, <2>4, <3>1 DEF Evidence
    <2> QED BY <1>0, <2>1, <2>5, EvidentGrows DEF AtHand, Working
  <1>16. CASE Preflight \/ StopOnBudget \/ StopOnCancel \/ ReadRows \/ ScanRow
    <2>1. UNCHANGED audit /\ pc' \notin Working
        BY <1>16 DEF Preflight, StopOnBudget, StopOnCancel, ReadRows, ScanRow,
           logVars, Return, Working
    <2> QED BY <1>2, <2>1
  <1>17. CASE Account
      BY <1>2, <1>17, Accounting DEF Working
  <1>18. ASSUME UNCHANGED <<audit, pc, cur, verdict, i>> PROVE (AtHand /\ Evident)'
      BY <1>1, <1>18 DEF AtHand, SinceClaim, Verifies
  <1>19. (\E d \in {"session", "task", "cancel"} : Elapse(d)) \/ UNCHANGED vars
            => UNCHANGED <<audit, pc, cur, verdict, i>>
      BY DEF Elapse, vars, workVars, logVars
  <1> QED BY <1>3, <1>6, <1>9, <1>11, <1>12, <1>13, <1>14, <1>15, <1>16, <1>17,
         <1>18, <1>19 DEF Next, Step

-----------------------------------------------------------------------------
(* The books, the breaker, the feedback and the log hold of every          *)
(* behaviour.                                                              *)
BookInv == Balance /\ Claimed /\ Breaking /\ Repeats /\ AtHand /\ Evident

(* The books of a Run agree at every step, with what each place knows. *)
THEOREM BooksInvariance == Spec => []BookInv
  <1>1. Init => BookInv
    <2> SUFFICES ASSUME Init PROVE BookInv
        OBVIOUS
    <2>1. /\ Closes = {} /\ Parks = {}
          /\ Logged("release") = {} /\ Logged("park") = {} /\ Logged("claim") = {}
          /\ Len(attempts) = 0 /\ Len(audit) = 0 /\ Len(outs) = 0
        BY DEF Init, Closes, Parks, Logged
    <2>2. /\ Cardinality(Closes) = 0 /\ Cardinality(Parks) = 0
          /\ Cardinality(Logged("release")) = 0 /\ Cardinality(Logged("park")) = 0
          /\ Cardinality(Logged("claim")) = 0
        BY <2>1, FS_EmptySet
    <2>3. /\ pc = "preflight" /\ res.attempted = 0 /\ res.closed = 0 /\ res.parked = 0
          /\ res.stuck = 0 /\ ~ res.breaker /\ fails = 0 /\ same = 0
          /\ feedback.out = NoOutput /\ ~ feedback.fallback
        BY DEF Init, NoFeedback
    <2>4. Balance
        BY <2>1, <2>2, <2>3 DEF Balance, Uncounted
    <2>5. Claimed
        BY <2>1, <2>2, <2>3, LoopAssumption DEF Claimed, Working
    <2>6. Breaking
        BY <2>1, <2>3, LoopAssumption DEF Breaking, TrailIs, Trail
    <2>7. Repeats
        BY <2>1, <2>3, LoopAssumption DEF Repeats
    <2>8. AtHand /\ Evident
        BY <2>1, <2>3 DEF AtHand, Evident, Working
    <2> QED BY <2>4, <2>5, <2>6, <2>7, <2>8 DEF BookInv
  <1>2. IInv /\ BookInv /\ [Next]_vars => BookInv'
      BY NextBalance, NextClaimed, NextBreaking, NextRepeats, NextEvident DEF BookInv
  <1> QED BY <1>1, <1>2, Invariance, PTL DEF Spec

(* What Run prints, the metrics and the audit log agree. *)
THEOREM BooksAgree == Spec => []BooksBalance
  <1>1. IInv /\ BookInv => BooksBalance
    <2> SUFFICES ASSUME IInv, BookInv, pc # "account" PROVE BooksBalance
        BY DEF BooksBalance
    <2>1. Uncounted("closed") = 0 /\ Uncounted("blocked") = 0
        BY DEF Uncounted
    <2>2. /\ Count(attempts, LAMBDA x : x.closed) = Cardinality(Closes)
          /\ Count(attempts, LAMBDA x : x.escalated) = Cardinality(Parks)
          /\ Count(audit, LAMBDA e : e.action = "release") = Cardinality(Logged("release"))
          /\ Count(audit, LAMBDA e : e.action = "park") = Cardinality(Logged("park"))
        BY DEF Count, Closes, Parks, Logged
    <2>3. res.attempted \in Nat /\ res.closed \in Nat /\ res.parked \in Nat
        BY DEF IInv, TypeOK, Result
    <2>4. /\ Len(attempts) = res.attempted /\ res.attempted = res.closed + res.parked
          /\ Cardinality(Closes) = res.closed /\ Cardinality(Parks) = res.parked
          /\ Cardinality(Logged("release")) = res.closed
          /\ Cardinality(Logged("park")) = res.parked
          /\ res.stuck <= res.parked
        BY <2>1, <2>3 DEF BookInv, Balance
    <2> QED BY <2>2, <2>4 DEF BooksBalance
  <1> QED BY <1>1, Invariance, BooksInvariance, PTL

(* Run never claims more requirements than its budget allows. *)
THEOREM ClaimsWithinBudget == Spec => []BudgetCapsClaims
  <1>1. BookInv => BudgetCapsClaims
    <2>1. Count(audit, LAMBDA e : e.action = "claim") = Cardinality(Logged("claim"))
        BY DEF Count, Logged
    <2> QED BY <2>1 DEF BookInv, Claimed, BudgetCapsClaims
  <1> QED BY <1>1, BooksInvariance, PTL

(* The breaker trips exactly when the last BreakAfter requirements were    *)
(* parked.                                                                 *)
THEOREM BreakerExact == Spec => []BreakerTripsExactly
  <1>1. IInv /\ BookInv => BreakerTripsExactly
    <2> SUFFICES ASSUME IInv, Breaking, pc # "account" PROVE BreakerTripsExactly
        BY DEF BreakerTripsExactly, BookInv
    <2>1. /\ fails \in Nat /\ BreakAfter \in Nat \ {0} /\ Len(attempts) \in Nat
        BY LoopAssumption, LenProperties DEF IInv, TypeOK
    <2>2. /\ fails <= Len(attempts)
          /\ \A k \in 0..(fails - 1) : attempts[Len(attempts) - k].escalated
          /\ fails < Len(attempts) => ~ attempts[Len(attempts) - fails].escalated
        BY DEF Breaking, TrailIs, Trail
    <2>3. CASE fails >= BreakAfter
      <3>1. \A k \in 0..(BreakAfter - 1) : k \in 0..(fails - 1)
          BY <2>1, <2>3
      <3>2. LastAllParked
          BY <2>1, <2>2, <2>3, <3>1 DEF LastAllParked
      <3> QED BY <2>3, <3>2 DEF Breaking, BreakerTripsExactly
    <2>4. CASE fails < BreakAfter
      <3>1. fails \in 0..(BreakAfter - 1)
          BY <2>1, <2>4
      <3>2. ~ LastAllParked
          BY <2>1, <2>2, <2>4, <3>1 DEF LastAllParked
      <3>3. ~ res.breaker
          BY <2>1, <2>4 DEF Breaking
      <3> QED BY <3>2, <3>3 DEF BreakerTripsExactly
    <2> QED BY <2>1, <2>3, <2>4
  <1> QED BY <1>1, Invariance, BooksInvariance, PTL

(* A drive is told to change its approach exactly when the failures have   *)
(* repeated FallbackAfter times.                                           *)
THEOREM FallbackEarned == Spec => []FallbackIsEarned
  <1>1. IInv /\ BookInv => FallbackIsEarned
    <2> SUFFICES ASSUME IInv, Repeats PROVE FallbackIsEarned
        BY DEF BookInv
    <2> DEFINE n == Len(outs)
               F == FallbackAfter
    <2>1. /\ outs \in Seq(Outputs) /\ n \in Nat /\ same \in Nat /\ F \in Nat
          /\ outs # <<>> => n > 0
        BY LoopAssumption, LenProperties, EmptySeq DEF IInv, TypeOK
    <2>2. /\ n = 0 => same = 0
          /\ n > 0 => /\ same \in 1..n
                      /\ feedback.out = outs[n]
                      /\ \A k \in 0..(same - 1) : outs[n - k] = outs[n]
                      /\ same > 1 => outs[n] # NoOutput
                      /\ same < n => outs[n - same] # outs[n] \/ outs[n] = NoOutput
          /\ feedback.fallback <=> F > 0 /\ same >= F
        BY DEF Repeats
    <2>3. ASSUME F > 0 PROVE RepeatedFailure(F) <=> same >= F
      <3> HIDE DEF n, F
      <3>1. CASE same >= F
        <4>1. n >= F /\ \A k \in 0..(F - 1) : k \in 0..(same - 1)
            BY <2>1, <2>2, <2>3, <3>1
        <4>2. \A k \in 0..(F - 1) : outs[n - k] = outs[n]
            BY <2>1, <2>2, <2>3, <3>1, <4>1
        <4>3. F > 1 => outs[n] # NoOutput
            BY <2>1, <2>2, <2>3, <3>1
        <4> QED BY <3>1, <4>1, <4>2, <4>3 DEF RepeatedFailure, n
      <3>2. CASE same < F
        <4>1. ASSUME n >= F PROVE \/ \E k \in 0..(F - 1) : outs[n - k] # outs[n]
                                  \/ F > 1 /\ outs[n] = NoOutput
          <5>1. n > 0 /\ same \in 0..(F - 1) /\ same < n /\ F > 1
              BY <2>1, <2>2, <2>3, <3>2, <4>1
          <5> QED BY <2>2, <5>1
        <4> QED BY <2>1, <3>2, <4>1 DEF RepeatedFailure, n
      <3> QED BY <2>1, <3>1, <3>2
    <2> QED BY <2>1, <2>2, <2>3 DEF FallbackIsEarned
  <1> QED BY <1>1, Invariance, BooksInvariance, PTL

(* Every entry of the audit log has the evidence it needs before it. *)
THEOREM LogIsEvidence == Spec => []AuditIsEvidence
  <1>1. IInv /\ BookInv => AuditIsEvidence
    <2> SUFFICES ASSUME IInv, Evident PROVE AuditIsEvidence
        BY DEF BookInv
    <2>1. DOMAIN audit = 1..Len(audit)
        BY LenProperties DEF IInv, TypeOK
    <2> QED BY <2>1 DEF Evident, Evidence, Verifies, AuditIsEvidence
  <1> QED BY <1>1, Invariance, BooksInvariance, PTL
=============================================================================
