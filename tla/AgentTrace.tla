----------------------------- MODULE AgentTrace -----------------------------
(***************************************************************************)
(* What aegis makes of an agent's trajectory as it grows: the stuck        *)
(* detector the loop runs after every drive (internal/loop/stuck.go).      *)
(***************************************************************************)
EXTENDS Integers, Sequences, FiniteSets

CONSTANTS StepKinds,  \* the steps an agent may take: [act, obs, err, kind]
          Thresholds, \* StuckThresholds
          MaxTrace    \* bound on the steps of a trajectory

Say == "say"   \* the act of a message without a tool call

ASSUME TraceAssumption ==
    /\ \A s \in StepKinds : /\ DOMAIN s = {"act", "obs", "err", "kind"}
                            /\ s.kind = "condense" => s.act = Say
    /\ Thresholds \in [action : Nat \ {0}, error : Nat \ {0}, say : Nat \ {0},
                       cycles : Nat \ {0, 1}, condense : Nat]
    \* graded as DefaultStuckThresholds are, which is what the loop passes
    /\ Thresholds.error <= Thresholds.action /\ Thresholds.error <= Thresholds.say
    /\ Thresholds.action <= 2 * Thresholds.cycles /\ Thresholds.say <= 2 * Thresholds.cycles
    /\ MaxTrace \in Nat

VARIABLES trace,  \* the trajectory over all drives of a requirement
          stuck   \* the verdict after the last drive

traceVars == <<trace, stuck>>

-----------------------------------------------------------------------------
LastSteps(steps, n) == SubSeq(steps, Len(steps) - n + 1, Len(steps))
Key(s) == <<s.act, s.obs>>

Condensing(steps) ==
    /\ Thresholds.condense > 0
    /\ Cardinality({i \in DOMAIN steps : steps[i].kind = "condense"}) >= Thresholds.condense

(* Identical actions each erring; what was observed may differ. *)
RepeatedError(steps) ==
    LET n == Thresholds.error
        last == LastSteps(steps, n)
    IN  /\ n > 0 /\ Len(steps) >= n
        /\ \A i \in 1..n : last[i].err /\ last[i].act = last[1].act

RepeatedAction(steps) ==
    LET n == Thresholds.action
        last == LastSteps(steps, n)
    IN  /\ n > 0 /\ Len(steps) >= n
        /\ last[1].kind # "condense"
        /\ \A i \in 1..n : Key(last[i]) = Key(last[1])

(* A slip: only every other step is compared. *)
PingPong_HalfCompared(steps) ==
    LET n == 2 * Thresholds.cycles
        last == LastSteps(steps, n)
    IN  /\ Thresholds.cycles >= 2 /\ Len(steps) >= n
        /\ Key(last[1]) # Key(last[2])
        /\ \A i \in 1..n : i % 2 = 1 => Key(last[i]) = Key(last[1])

PingPong(steps) ==
    LET n == 2 * Thresholds.cycles
        last == LastSteps(steps, n)
    IN  /\ Thresholds.cycles >= 2 /\ Len(steps) >= n
        /\ Key(last[1]) # Key(last[2])
        /\ \A i \in 1..n : Key(last[i]) = Key(last[IF i % 2 = 1 THEN 1 ELSE 2])

Monologue(steps) ==
    LET n == Thresholds.say
        last == LastSteps(steps, n)
    IN  /\ n > 0 /\ Len(steps) >= n
        /\ \A i \in 1..n : last[i].act = Say

(* DetectStuck: the first pattern that is found, in the code's order. *)
DetectStuck(steps) ==
    IF Condensing(steps) THEN "condensing"
    ELSE IF RepeatedError(steps) THEN "error"
    ELSE IF RepeatedAction(steps) THEN "action"
    ELSE IF PingPong(steps) THEN "pingpong"
    ELSE IF Monologue(steps) THEN "say"
    ELSE "no"

-----------------------------------------------------------------------------
TraceInit == trace = <<>> /\ stuck = "no"

(* A drive adds one or more steps; the loop parks a spinning agent. *)
DriveSteps(new) ==
    /\ stuck = "no" /\ Len(trace) + Len(new) <= MaxTrace
    /\ trace' = trace \o new
    /\ stuck' = DetectStuck(trace')

TraceNext == \E n \in 1..2 : \E new \in [1..n -> StepKinds] : DriveSteps(new)

TraceSpec == TraceInit /\ [][TraceNext]_traceVars

-----------------------------------------------------------------------------
(* A spinning agent is parked and a working one is not (DetectStuck): a    *)
(* trajectory that has gone through one or two steps over and over for as  *)
(* long as the longest threshold is never let on, whatever it mixes of     *)
(* messages, errors and condensations; and one parked for its last steps   *)
(* had done no more than two different things in them.                     *)
ParksSpinnersOnly ==
    LET n == 2 * Thresholds.cycles
        last == LastSteps(trace, n)
        spins == /\ Len(trace) >= n
                 /\ \A i \in 1..n - 2 : Key(last[i]) = Key(last[i + 2])
        tail == LastSteps(trace, Thresholds.error)
    IN  /\ spins => stuck # "no"
        /\ ~(stuck \in {"no", "condensing"}) =>
               \/ Cardinality({tail[i].act : i \in DOMAIN tail}) <= 2
               \/ \A i \in DOMAIN tail : tail[i].act = Say
        /\ stuck = "say" => \A i \in DOMAIN tail : tail[i].act = Say
        /\ stuck = "pingpong" => Cardinality({Key(last[i]) : i \in DOMAIN last}) = 2
=============================================================================
