---------------------------- MODULE ControlLoop ----------------------------
(***************************************************************************)
(* internal/loop: one Run of the control loop, from the serving preflight  *)
(* of `aegis loop` to its return, over the rtmx CSV store.                 *)
(*                                                                         *)
(* What the agent writes, the prompts and the wording of audit details are *)
(* left out; of a drive the model keeps whether it failed, whether the     *)
(* trajectory so far is judged stuck (StuckReason, by DetectStuck) and     *)
(* what it cost in tokens; of a verification the result and the output     *)
(* that is fed to the next drive.  Time is the set of deadlines that have  *)
(* passed.                                                                 *)
(***************************************************************************)
EXTENDS RtmxStore, Sequences, FiniteSets

CONSTANTS
    Retries,          \* config.Retries: attempts after the first
    BreakAfter,       \* config.BreakAfter
    MaxRequirements,  \* Budget.MaxRequirements; 0 is unbounded
    PerTaskTokens,    \* Budget.PerTaskTokens; 0 is unbounded
    FallbackAfter,    \* FallbackPolicy.AfterFailures; 0 is disabled
    Outputs,          \* what a failing test may print
    Costs,            \* tokens one drive may cost
    Modes,            \* which values of --once are run
    Faults,           \* "io", "cancel", "session" and "task" (deadlines)
    InitStatus        \* the statuses rows may have at the start

NoOutput == "empty"   \* the output of a verification that printed nothing
NotStuck == "no"

ASSUME LoopAssumption ==
    /\ Retries \in Nat /\ BreakAfter \in Nat \ {0}
    /\ MaxRequirements \in Nat /\ PerTaskTokens \in Nat /\ FallbackAfter \in Nat
    /\ NoOutput \in Outputs /\ Costs \subseteq Nat
    /\ Modes \subseteq BOOLEAN
    /\ Faults \subseteq {"io", "cancel", "session", "task"}
    /\ InitStatus \subseteq CsvStatus

VARIABLES
    pc, rows, cur, verdict, verified,   \* as in SharedBacklog, for this process
    once,      \* the mode of this Run
    res,       \* loop.Result
    fails,     \* consecutiveFailures
    i,         \* the attempt number of work, from 0
    tokens,    \* att.Tokens
    stuck,     \* work's StuckReason: NotStuck or "stuck"
    same,      \* identicalFails
    feedback,  \* what the next drive is told: [out, fallback]
    outs,      \* history: outputs of this requirement's failed verifications
    audit,     \* the entries this Run appended to the audit log
    attempts,  \* metrics.Collector.attempts
    past       \* "session", "task": deadlines passed; "cancel": ctx cancelled

runVars  == <<once, res, fails>>
workVars == <<i, tokens, stuck, same, feedback, outs>>
logVars  == <<audit, attempts>>
vars == <<storeVars, pc, rows, cur, verdict, verified, runVars, workVars,
          logVars, past>>

Working == {"drive", "verify", "read", "write", "release"}
Halted  == {"drained", "failed", "stopped"}
Labels  == {"preflight", "top", "scan", "claim", "account"}
               \cup Working \cup Halted

NoRows     == [r \in Req |-> "PROPOSED"]
NoFeedback == [out |-> NoOutput, fallback |-> FALSE]

Result == [attempted: Nat, closed: Nat, parked: Nat, stuck: Nat,
           breaker: BOOLEAN, budget: BOOLEAN]

Entry == [action: {"claim", "verify", "escalate", "release", "park"},
          req: Req, result: {"none", "pass", "fail", "error", "closed", "blocked"}]

Attempt == [req: Req, closed: BOOLEAN, escalated: BOOLEAN,
            firstPass: BOOLEAN]

TypeOK == /\ StoreTypeOK
          /\ pc \in Labels
          /\ rows \in [Req -> CsvStatus]
          /\ cur \in Req \cup {0}
          /\ verdict \in {"none", "closed", "blocked"}
          /\ verified \subseteq Req
          /\ once \in BOOLEAN
          /\ res \in Result
          /\ fails \in Nat
          /\ i \in 0..Retries
          /\ tokens \in Nat
          /\ stuck \in {NotStuck, "stuck"}
          /\ same \in Nat
          /\ feedback \in [out: Outputs, fallback: BOOLEAN]
          /\ outs \in Seq(Outputs)
          /\ audit \in Seq(Entry)
          /\ attempts \in Seq(Attempt)
          /\ past \subseteq {"session", "task", "cancel"}

Init == /\ db \in [Req -> InitStatus]
        /\ claims = {}
        /\ pc = "preflight"
        /\ rows = NoRows /\ cur = 0 /\ verdict = "none"
        /\ verified = {r \in Req : statusFromCSV(db[r]) = "closed"}
        /\ once \in Modes
        /\ res = [attempted |-> 0, closed |-> 0, parked |-> 0, stuck |-> 0,
                  breaker |-> FALSE, budget |-> FALSE]
        /\ fails = 0
        /\ i = 0 /\ tokens = 0 /\ stuck = NotStuck
        /\ same = 0 /\ feedback = NoFeedback /\ outs = <<>>
        /\ audit = <<>> /\ attempts = <<>>
        /\ past = {}

-----------------------------------------------------------------------------
(* record appends one entry to the audit log. *)
record(action, result) ==
    audit' = Append(audit, [action |-> action, req |-> cur, result |-> result])

(* Run returns; what work held in locals is gone. *)
Return(how) ==
    /\ pc' = how
    /\ rows' = NoRows /\ cur' = 0 /\ verdict' = "none"

(* work's locals, as they are when it starts (and once it has returned). *)
FreshWork == /\ i' = 0 /\ tokens' = 0 /\ stuck' = NotStuck
             /\ same' = 0 /\ feedback' = NoFeedback /\ outs' = <<>>

(* liveRun checks the model endpoint before anything is claimed. *)
Preflight ==
    /\ pc = "preflight"
    /\ \/ pc' = "top" /\ UNCHANGED <<rows, cur, verdict>>
       \/ "io" \in Faults /\ Return("failed")
    /\ UNCHANGED <<storeVars, verified, runVars, workVars, logVars, past>>

(* Slip: one requirement too many. *)
OverRunBudget_OffByOne == \/ MaxRequirements > 0 /\ res.attempted > MaxRequirements
                          \/ "session" \in past

(* The run budget, checked first at the top of Run's loop. *)
OverRunBudget == \/ MaxRequirements > 0 /\ res.attempted >= MaxRequirements
                 \/ "session" \in past

StopOnBudget ==
    /\ pc = "top"
    /\ OverRunBudget
    /\ res' = [res EXCEPT !.budget = TRUE]
    /\ Return("stopped")
    /\ UNCHANGED <<storeVars, verified, once, fails, workVars, logVars, past>>

(* Then cancellation of the context. *)
StopOnCancel ==
    /\ pc = "top"
    /\ ~ OverRunBudget
    /\ "cancel" \in past
    /\ Return("stopped")
    /\ UNCHANGED <<storeVars, verified, runVars, workVars, logVars, past>>

(* Store.Next reads the file ... *)
ReadRows ==
    /\ pc = "top"
    /\ ~ OverRunBudget
    /\ "cancel" \notin past
    /\ \/ pc' = "scan" /\ rows' = db /\ cur' = 1 /\ UNCHANGED verdict
       \/ "io" \in Faults /\ Return("failed")
    /\ UNCHANGED <<storeVars, verified, runVars, workVars, logVars, past>>

(* Slip: only the first row is looked at. *)
ScanRow_FirstOnly ==
    /\ pc = "scan"
    /\ \/ /\ claimable(rows, cur)
          /\ pc' = "claim" /\ rows' = NoRows
          /\ UNCHANGED <<cur, verdict>>
       \/ /\ ~ claimable(rows, cur)
          /\ Return("drained")
    /\ UNCHANGED <<storeVars, verified, runVars, workVars, logVars, past>>

(* ... and looks for the first claimable row. *)
ScanRow ==
    /\ pc = "scan"
    /\ \/ /\ claimable(rows, cur)
          /\ pc' = "claim" /\ rows' = NoRows
          /\ UNCHANGED <<cur, verdict>>
       \/ /\ ~ claimable(rows, cur)
          /\ cur < N
          /\ cur' = cur + 1
          /\ UNCHANGED <<pc, rows, verdict>>
       \/ /\ ~ claimable(rows, cur)
          /\ cur = N
          /\ Return("drained")
    /\ UNCHANGED <<storeVars, verified, runVars, workVars, logVars, past>>

(* work claims the requirement and starts its books; an error ends Run. *)
TryClaim ==
    /\ pc = "claim"
    /\ \/ /\ Claim(cur)
          /\ pc' = "drive"
          /\ record("claim", "none")
          /\ FreshWork
          /\ past' = past \ {"task"}
          /\ UNCHANGED <<rows, cur, verdict>>
       \/ /\ isClaimed(cur) \/ "io" \in Faults
          /\ Return("failed")
          /\ UNCHANGED <<claims, audit, workVars, past>>
    /\ UNCHANGED <<db, verified, runVars, attempts>>

(* The attempts are over and none has passed. *)
Park == pc' = "read" /\ verdict' = "blocked" /\ UNCHANGED i

(* Slip: one attempt too many. *)
Retry_OffByOne == \/ /\ i <= Retries
                     /\ pc' = "drive" /\ i' = i + 1
                     /\ UNCHANGED verdict
                  \/ /\ i > Retries
                     /\ Park

(* One attempt has failed: the next one, or park when none is left. *)
Retry == \/ /\ i < Retries
            /\ pc' = "drive" /\ i' = i + 1
            /\ UNCHANGED verdict
         \/ /\ i = Retries
            /\ Park

overPerTaskBudget == \/ PerTaskTokens > 0 /\ tokens >= PerTaskTokens
                     \/ "task" \in past

(* Generation: the harness drives the agent.  A stuck trajectory parks at  *)
(* once; a failed drive goes straight to the next attempt.                 *)
Drive ==
    /\ pc = "drive"
    /\ \E cost \in Costs : tokens' = tokens + cost
    /\ \/ stuck' = "stuck" /\ Park
       \/ stuck' = NotStuck /\ Retry
       \/ stuck' = NotStuck /\ pc' = "verify" /\ UNCHANGED <<i, verdict>>
    /\ UNCHANGED <<storeVars, rows, cur, verified, runVars, same, feedback,
                   outs, logVars, past>>

(* Verification, after generation.  The test passes ... *)
VerifyPass ==
    /\ pc = "verify"
    /\ record("verify", "pass")
    /\ pc' = "read" /\ verdict' = "closed"
    /\ verified' = verified \cup {cur}
    /\ UNCHANGED <<storeVars, rows, cur, runVars, workVars, attempts, past>>

(* Slip: every failure counts, identical or not. *)
VerifyFail_AnyOutput(out) ==
    /\ pc = "verify"
    /\ record("verify", "fail")
    /\ same' = same + 1
    /\ feedback' = [out |-> out,
                    fallback |-> FallbackAfter > 0 /\ same' >= FallbackAfter]
    /\ outs' = Append(outs, out)
    /\ IF overPerTaskBudget THEN Park ELSE Retry
    /\ UNCHANGED <<storeVars, rows, cur, verified, runVars, tokens, stuck,
                   attempts, past>>

(* ... or fails and prints out, which the next drive is told, with the     *)
(* fallback directive once FallbackAfter failures in a row were identical; *)
(* a task over its budget is parked, any other is retried.                 *)
VerifyFail(out) ==
    /\ pc = "verify"
    /\ record("verify", "fail")
    /\ same' = IF out # NoOutput /\ out = feedback.out THEN same + 1 ELSE 1
    /\ feedback' = [out |-> out,
                    fallback |-> FallbackAfter > 0 /\ same' >= FallbackAfter]
    /\ outs' = Append(outs, out)
    /\ IF overPerTaskBudget THEN Park ELSE Retry
    /\ UNCHANGED <<storeVars, rows, cur, verified, runVars, tokens, stuck,
                   attempts, past>>

(* Slip: a verification that cannot be run is not told from one that passes. *)
VerifyError_Closes ==
    /\ pc = "verify"
    /\ record("verify", "error")
    /\ pc' = "read" /\ verdict' = "closed"
    /\ UNCHANGED <<storeVars, rows, cur, verified, runVars, workVars, attempts, past>>

(* ... or cannot be run. *)
VerifyError ==
    /\ pc = "verify"
    /\ record("verify", "error")
    /\ IF overPerTaskBudget THEN Park ELSE Retry
    /\ UNCHANGED <<storeVars, rows, cur, verified, runVars, tokens, stuck,
                   same, feedback, outs, attempts, past>>

(* SetStatus reads the rows; an error ends Run with the claim still held. *)
ReadForStatus ==
    /\ pc = "read"
    /\ \/ pc' = "write" /\ rows' = db /\ UNCHANGED <<cur, verdict>>
       \/ "io" \in Faults /\ Return("failed")
    /\ UNCHANGED <<storeVars, verified, runVars, workVars, logVars, past>>

(* Slip: the claim is given up together with the status write. *)
WriteStatus_Releasing ==
    /\ pc = "write"
    /\ SetStatus(rows, cur, verdict)
    /\ Release(cur)
    /\ \/ verdict = "closed"  /\ UNCHANGED audit
       \/ verdict = "blocked" /\ record("escalate", "blocked")
    /\ pc' = "release" /\ rows' = NoRows
    /\ UNCHANGED <<cur, verdict, verified, runVars, workVars, attempts, past>>

(* SetStatus replaces the file; a park is then logged as an escalation. *)
WriteStatus ==
    /\ pc = "write"
    /\ \/ /\ SetStatus(rows, cur, verdict)
          /\ \/ verdict = "closed"  /\ UNCHANGED audit
             \/ verdict = "blocked" /\ record("escalate", "blocked")
          /\ pc' = "release" /\ rows' = NoRows
          /\ UNCHANGED <<cur, verdict>>
       \/ /\ "io" \in Faults
          /\ Return("failed")
          /\ UNCHANGED <<db, audit>>
    /\ UNCHANGED <<claims, verified, runVars, workVars, attempts, past>>

(* Release (its error ignored), the closing audit entry and the metrics. *)
ReleaseClaim ==
    /\ pc = "release"
    /\ \/ Release(cur)
       \/ "io" \in Faults /\ UNCHANGED claims
    /\ \/ verdict = "closed"  /\ record("release", "closed")
       \/ verdict = "blocked" /\ record("park", "blocked")
    /\ attempts' = Append(attempts,
            [req |-> cur, closed |-> verdict = "closed",
             escalated |-> verdict = "blocked",
             firstPass |-> verdict = "closed" /\ i = 0])
    /\ pc' = "account" /\ cur' = 0
    /\ UNCHANGED <<db, rows, verdict, verified, runVars, workVars, past>>

(* Slips of Run's counting: a stuck requirement is not counted as parked,  *)
(* and a success does not end the run of failures.                         *)
Account_StuckApart ==
    LET parked == verdict = "blocked"
        f      == IF parked THEN fails + 1 ELSE 0
        trip   == f >= BreakAfter
    IN  /\ pc = "account"
        /\ fails' = f
        /\ res' = [res EXCEPT !.attempted = @ + 1,
                              !.closed  = IF parked THEN @ ELSE @ + 1,
                              !.parked  = IF parked /\ stuck = NotStuck THEN @ + 1 ELSE @,
                              !.stuck   = IF parked /\ stuck # NotStuck THEN @ + 1 ELSE @,
                              !.breaker = trip]
        /\ Return(IF trip \/ once THEN "stopped" ELSE "top")
        /\ FreshWork
        /\ UNCHANGED <<storeVars, verified, once, logVars, past>>

Account_NoReset ==
    LET parked == verdict = "blocked"
        f      == IF parked THEN fails + 1 ELSE fails
        trip   == f >= BreakAfter
    IN  /\ pc = "account"
        /\ fails' = f
        /\ res' = [res EXCEPT !.attempted = @ + 1,
                              !.closed  = IF parked THEN @ ELSE @ + 1,
                              !.parked  = IF parked THEN @ + 1 ELSE @,
                              !.stuck   = IF parked /\ stuck # NotStuck THEN @ + 1 ELSE @,
                              !.breaker = trip]
        /\ Return(IF trip \/ once THEN "stopped" ELSE "top")
        /\ FreshWork
        /\ UNCHANGED <<storeVars, verified, once, logVars, past>>

(* Back in Run: the counters, then the breaker, then --once. *)
Account ==
    LET parked == verdict = "blocked"
        f      == IF parked THEN fails + 1 ELSE 0
        trip   == f >= BreakAfter
    IN  /\ pc = "account"
        /\ fails' = f
        /\ res' = [res EXCEPT !.attempted = @ + 1,
                              !.closed  = IF parked THEN @ ELSE @ + 1,
                              !.parked  = IF parked THEN @ + 1 ELSE @,
                              !.stuck   = IF parked /\ stuck # NotStuck THEN @ + 1 ELSE @,
                              !.breaker = trip]
        /\ Return(IF trip \/ once THEN "stopped" ELSE "top")
        /\ FreshWork
        /\ UNCHANGED <<storeVars, verified, once, logVars, past>>

(* A deadline passes, or the context is cancelled, at any moment. *)
Elapse(d) ==
    /\ d \in Faults
    /\ d \notin past
    /\ pc \notin Halted
    /\ d = "task" => pc \in Working
    /\ past' = past \cup {d}
    /\ UNCHANGED <<storeVars, pc, rows, cur, verdict, verified, runVars,
                   workVars, logVars>>

Step == \/ Preflight \/ StopOnBudget \/ StopOnCancel \/ ReadRows \/ ScanRow
        \/ TryClaim \/ Drive \/ VerifyPass \/ VerifyError
        \/ \E out \in Outputs : VerifyFail(out)
        \/ ReadForStatus \/ WriteStatus \/ ReleaseClaim \/ Account

Next == Step \/ \E d \in {"session", "task", "cancel"} : Elapse(d)

Spec == Init /\ [][Next]_vars

FairSpec == Spec /\ WF_vars(Step)
-----------------------------------------------------------------------------
Count(seq, P(_)) == Cardinality({k \in DOMAIN seq : P(seq[k])})

(* Three books agree whenever Run is not between work's return and its own *)
(* counting: the Result it will print, the metrics, and the audit log (a   *)
(* release entry per closed requirement, a park entry per parked one).     *)
BooksBalance ==
    pc # "account" =>
        /\ res.attempted = Len(attempts)
        /\ res.attempted = res.closed + res.parked
        /\ res.closed = Count(attempts, LAMBDA a : a.closed)
        /\ res.parked = Count(attempts, LAMBDA a : a.escalated)
        /\ res.closed = Count(audit, LAMBDA e : e.action = "release")
        /\ res.parked = Count(audit, LAMBDA e : e.action = "park")
        /\ res.stuck <= res.parked

(* The breaker halts Run exactly when the last BreakAfter requirements     *)
(* were all parked, not one later and not for failures a success parts.    *)
LastAllParked == /\ Len(attempts) >= BreakAfter
                 /\ \A k \in 0..(BreakAfter - 1) :
                        attempts[Len(attempts) - k].escalated

BreakerTripsExactly ==
    pc # "account" => (res.breaker <=> LastAllParked) /\ (res.breaker => pc = "stopped")

(* The audit log is evidence: a close follows a passing verification of    *)
(* the same requirement, a park its escalation, an escalation no passing   *)
(* verification since the claim, and a claim is followed by at most        *)
(* Retries + 1 verifications.                                              *)
SinceClaim(k) == {j \in 1..k : \A m \in (j+1)..k : audit[m].action # "claim"}

AuditIsEvidence ==
    \A k \in DOMAIN audit :
        LET e == audit[k]
            verifies == {j \in SinceClaim(k) : audit[j].action = "verify"}
        IN  /\ \A j \in SinceClaim(k) : audit[j].req = e.req
            /\ e.action = "release" =>
                   audit[k-1] = [action |-> "verify", req |-> e.req, result |-> "pass"]
            /\ e.action = "park" => audit[k-1].action = "escalate"
            /\ e.action = "escalate" => \A j \in verifies : audit[j].result # "pass"
            /\ Cardinality(verifies) <= Retries + 1

(* LONGRUN-001 and LONGRUN-010: a drive is told the output of the latest   *)
(* failed verification, and is told to change its approach exactly when    *)
(* the last FallbackAfter outputs were the same non-empty text (the first  *)
(* failure counts whatever it printed).                                    *)
RepeatedFailure(n) ==
    /\ Len(outs) >= n
    /\ \A k \in 0..(n - 1) : outs[Len(outs) - k] = outs[Len(outs)]
    /\ n > 1 => outs[Len(outs)] # NoOutput

FallbackIsEarned ==
    pc = "drive" =>
        /\ outs # <<>> => feedback.out = outs[Len(outs)]
        /\ feedback.fallback <=> FallbackAfter > 0 /\ RepeatedFailure(FallbackAfter)

(* The run budget: no more requirements are ever claimed than              *)
(* MaxRequirements allows, the ones that end in an error included.         *)
BudgetCapsClaims ==
    MaxRequirements > 0 =>
        Count(audit, LAMBDA e : e.action = "claim") <= MaxRequirements

(* "One hard requirement must never stall the whole night": a requirement  *)
(* that Next could hand out is closed or parked, unless Run stops first.   *)
ReadySettles ==
    \A r \in Req : claimable(db, r) ~> \/ db[r] \in {"COMPLETE", "BLOCKED"}
                                       \/ pc \in {"stopped", "failed"}

(* config.go: PerTaskTokens "caps the tokens spent working a single        *)
(* requirement before it is parked": no drive starts once they are spent.  *)
PerTaskCapHonoured ==
    pc = "drive" /\ PerTaskTokens > 0 => tokens < PerTaskTokens

-----------------------------------------------------------------------------
(* This process as the only agent of SharedBacklog: drive and verify are   *)
(* its one Work step, and counting is part of being back at the top.       *)
Self == "loop"

AbstractPc == IF pc \in {"preflight", "account"} THEN "top"
              ELSE IF pc \in {"drive", "verify"} THEN "work"
              ELSE pc

Backlog == INSTANCE SharedBacklog WITH
    Agents   <- {Self},
    Faults   <- {"stop"} \cup (Faults \cap {"io"}),
    pc       <- [p \in {Self} |-> AbstractPc],
    rows     <- [p \in {Self} |-> rows],
    cur      <- [p \in {Self} |-> cur],
    verdict  <- [p \in {Self} |-> IF pc = "account" THEN "none" ELSE verdict],
    approved <- {r \in Req : statusFromCSV(db[r]) # "proposed"}

(* The control loop does to the shared store only what SharedBacklog says  *)
(* an agent does, so what holds there of any number of agents holds of     *)
(* any number of loops.                                                    *)
ImplementsBacklog == Backlog!Spec
=============================================================================
