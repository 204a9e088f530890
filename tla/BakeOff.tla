------------------------------ MODULE BakeOff ------------------------------
(***************************************************************************)
(* `aegis bakeoff` (cmd/aegis/bakeoff.go, proc_unix.go) and how its        *)
(* outcomes are aggregated and compared (internal/bakeoff, metrics): each  *)
(* candidate is served on one port of the bake-off's own, the suite is     *)
(* driven through it, and the server is torn down before the next.  Who    *)
(* answers at the port is up to the processes that want it: the server of  *)
(* this candidate, that of the one before while it is dying, or a stranger *)
(* that took the port after freePort let go of it, before the first        *)
(* candidate.                                                              *)
(***************************************************************************)
EXTENDS Ordering, Sequences

CONSTANTS Candidates,  \* suitableModels: the models that fit, largest first
          Selections,  \* what the operator types: sequences of indices
          Suite,       \* the number of tasks
          Outcomes,    \* what a run of one task can be measured as
          Stranger     \* a model that something else may serve on the port

Nobody == "nobody"
Models_ == {Candidates[i] : i \in DOMAIN Candidates} \cup {Stranger}

(* The cell of a run that got no answer: nothing written, nothing closed;  *)
(* and that of a task that was not run, on which no time was spent.        *)
NoOutcome == [edited |-> 0, closed |-> 0, out |-> 0, wall |-> 1]
NotRun == [NoOutcome EXCEPT !.wall = 0]

ASSUME BakeOffAssumption ==
    /\ Suite \in Nat \ {0}
    /\ Outcomes \subseteq [edited : Nat, closed : 0..1, out : Nat, wall : Nat \ {0}]
    /\ Candidates \in Seq(Models_ \ {Stranger}) /\ Nobody \notin Models_
    /\ \A s \in Selections : s \in Seq(Nat)

VARIABLES phase,   \* where cmdBakeoff is
          ids,     \* the candidates, in order
          at,      \* the one being measured
          noServe, \* --no-serve: measure what is at --endpoint
          server,  \* servers by candidate: none, starting, up, dying, gone
          holder,  \* who holds the port: a place in ids, 0 the stranger, -1 none
          served,  \* what the probe of the endpoint said, or Nobody
          outs,    \* the outcomes of the candidate so far
          seenBy,  \* history: the models that answered its cells
          reports, \* the reports so far: [model, served, outs, by]
          verdict  \* the comparison: [basis, winner]

bakeVars == <<phase, ids, at, noServe, server, holder, served, outs, seenBy,
              reports, verdict>>
cellVars == <<served, outs, seenBy>>

-----------------------------------------------------------------------------
(* The measures.                                                           *)

Total(s, field) ==
    LET sum[n \in 0..Len(s)] == IF n = 0 THEN 0 ELSE sum[n - 1] + s[n][field]
    IN  sum[Len(s)]

(* bakeoff.Aggregate and metrics' Report: the sums of the rates Compare    *)
(* looks at.  Every cell counts as attempted, one in which a file was      *)
(* edited as edited.                                                       *)
Aggregate(s) ==
    [edited |-> Cardinality({i \in DOMAIN s : s[i].edited > 0}),
     closed |-> Total(s, "closed"), out |-> Total(s, "out"), wall |-> Total(s, "wall")]

(* Aggregate's TokPerSec, as a comparison of quotients; where no time was  *)
(* spent there are no tokens either, and the rate is 0.                    *)
Span(a) == IF a.wall = 0 THEN 1 ELSE a.wall
Rate(a, b) == a.out * Span(b)

(* A slip: throughput before closing. *)
Ahead_SpeedFirst(a, b) ==
    \/ a.edited > b.edited
    \/ /\ a.edited = b.edited
       /\ Rate(a, b) > Rate(b, a)

(* Compare's order: edit rate, then ACR, then output tokens per second,    *)
(* then wall clock; reports of one suite have as many attempts.            *)
Ahead(a, b) ==
    \/ a.edited > b.edited
    \/ /\ a.edited = b.edited
       /\ \/ a.closed > b.closed
          \/ /\ a.closed = b.closed
             /\ \/ Rate(a, b) > Rate(b, a)
                \/ Rate(a, b) = Rate(b, a) /\ a.wall < b.wall

(* The sort is stable. *)
Outranks(rs) ==
    LET agg == [i \in DOMAIN rs |-> Aggregate(rs[i].outs)]
    IN  {p \in (DOMAIN rs) \X (DOMAIN rs) :
            \/ Ahead(agg[p[1]], agg[p[2]])
            \/ ~Ahead(agg[p[2]], agg[p[1]]) /\ p[1] < p[2]}
Ranked(rs) == InOrder(DOMAIN rs, Outranks(rs))

duplicateServedModel(rs) ==
    \E i, j \in DOMAIN rs : i # j /\ rs[i].served = rs[j].served /\ rs[i].served # Nobody

Compare(rs) ==
    LET top == rs[Ranked(rs)[1]]
    IN  IF duplicateServedModel(rs) THEN [basis |-> "invalid", winner |-> Nobody]
        ELSE IF Aggregate(top.outs).edited = 0
        THEN [basis |-> "unedited", winner |-> Nobody]
        ELSE [basis |-> "ranked", winner |-> top.model]

-----------------------------------------------------------------------------
(* Choosing the candidates.                                                *)

KnownIn(tokens) == {i \in DOMAIN tokens : tokens[i] \in DOMAIN Candidates}
Named(tokens, places) ==
    LET p == Ascending(places) IN [k \in DOMAIN p |-> Candidates[tokens[p[k]]]]

(* splitList: --models as given, repeats and all (a name that is in no     *)
(* catalog cannot be served, and is left out).                             *)
splitList(tokens) == Named(tokens, KnownIn(tokens))

(* parseModelSelection: what names no choice is dropped, as is a repeat. *)
parseModelSelection(tokens) ==
    Named(tokens, {i \in KnownIn(tokens) :
                      \A j \in KnownIn(tokens) :
                          j < i => Candidates[tokens[j]] # Candidates[tokens[i]]})

BakeInit ==
    /\ phase = "select" /\ ids = <<>> /\ at = 0 /\ noServe = FALSE
    /\ server = <<>> /\ holder \in {-1, 0}
    /\ served = Nobody /\ outs = <<>> /\ seenBy = {}
    /\ reports = <<>> /\ verdict = [basis |-> "none", winner |-> Nobody]

(* resolveBakeoffModels: the models given, all suitable ones, or a         *)
(* selection; --no-serve needs them given.                                 *)
Given == {splitList(s) : s \in Selections}
Suitable == {Candidates} \cup {parseModelSelection(s) : s \in Selections}

resolveBakeoffModels ==
    /\ phase = "select"
    /\ \E chosen \in Given \cup Suitable, ns \in BOOLEAN :
          /\ ns => chosen \in Given
          /\ ids' = chosen /\ noServe' = ns
          /\ server' = [i \in DOMAIN chosen |-> "none"]
          /\ phase' = IF chosen = <<>> THEN "failed" ELSE "serve"
    /\ at' = 1
    /\ UNCHANGED <<holder, cellVars, reports, verdict>>

-----------------------------------------------------------------------------
(* Serving.                                                                *)

Up(h) == h = 0 \/ (h > 0 /\ server[h] = "up")
Answering == IF ~Up(holder) THEN Nobody
             ELSE IF holder = 0 THEN Stranger ELSE ids[holder]

NextCandidate == /\ at' = at + 1
                 /\ phase' = IF at = Len(ids) THEN "compare" ELSE "serve"
                 /\ served' = Nobody /\ outs' = <<>> /\ seenBy' = {}

(* serveModelForBakeoff starts llama-server on the port; a model that is   *)
(* not present or cannot be fetched is skipped.                            *)
StartCandidate ==
    /\ phase = "serve" /\ ~noServe
    /\ \/ /\ server' = [server EXCEPT ![at] = "starting"]
          /\ phase' = "ready"
          /\ UNCHANGED <<at, cellVars>>
       \/ NextCandidate /\ UNCHANGED server
    /\ UNCHANGED <<ids, noServe, holder, reports, verdict>>

(* llama-server binds the port and loads, or exits. *)
BindPort(i) ==
    /\ server[i] = "starting"
    /\ server' = [server EXCEPT ![i] = IF holder = -1 THEN "up" ELSE "gone"]
    /\ holder' = IF holder = -1 THEN i ELSE holder
    /\ UNCHANGED <<phase, ids, at, noServe, cellVars, reports, verdict>>

(* A server crashes, or one that was killed lets go of the port. *)
ServerGone(i) ==
    /\ server[i] \in {"up", "dying"}
    /\ server' = [server EXCEPT ![i] = "gone"]
    /\ holder' = IF holder = i THEN -1 ELSE holder
    /\ UNCHANGED <<phase, ids, at, noServe, cellVars, reports, verdict>>

StrangerLeaves ==
    /\ holder = 0
    /\ holder' = -1
    /\ UNCHANGED <<phase, ids, at, noServe, server, cellVars, reports, verdict>>

(* A slip: only the process that was started is killed, not its group. *)
killServe_ParentOnly(i) == server' = server

(* killServe: the whole process group is killed and its leader reaped; a   *)
(* server in it may hold the port a moment longer, but answers no more.    *)
killServe(i) ==
    server' = [server EXCEPT ![i] = IF @ = "up" THEN "dying"
                                    ELSE IF @ = "starting" THEN "gone" ELSE @]

(* The endpoint answered; now it is asked which model it serves. *)
CandidateReady ==
    /\ phase = "ready"
    /\ \/ Up(holder) /\ phase' = "probe" /\ UNCHANGED <<at, cellVars, server>>
       \/ NextCandidate /\ killServe(at)              \* 180s are over
    /\ UNCHANGED <<ids, noServe, holder, reports, verdict>>

(* Another model's name skips the candidate; no name at all does not. *)
ProbeServed ==
    /\ phase = "probe"
    /\ \E name \in {Answering, Nobody} :
          IF name \in {Nobody, ids[at]}
          THEN /\ served' = name /\ phase' = "cells"
               /\ UNCHANGED <<at, outs, seenBy, server>>
          ELSE NextCandidate /\ killServe(at)
    /\ UNCHANGED <<ids, noServe, holder, reports, verdict>>

(* --no-serve: whatever is there is measured. *)
ProbeEndpointAsIs ==
    /\ phase = "serve" /\ noServe
    /\ served' \in {Answering, Nobody}
    /\ phase' = "cells"
    /\ UNCHANGED <<ids, at, noServe, server, holder, outs, seenBy, reports, verdict>>

(* runBakeoffCell: a run nobody answers edits and closes nothing; a task   *)
(* that could not be seeded or passed beforehand is not run at all.        *)
runBakeoffCell ==
    /\ phase = "cells" /\ Len(outs) < Suite
    /\ \/ /\ Answering # Nobody
          /\ \E o \in Outcomes : outs' = Append(outs, o)
          /\ seenBy' = seenBy \cup {Answering}
       \/ /\ \E o \in {NoOutcome, NotRun} : outs' = Append(outs, o)
          /\ UNCHANGED seenBy
    /\ UNCHANGED <<phase, ids, at, noServe, server, holder, served, reports, verdict>>

(* stop, and waitPortFree: until the endpoint no longer answers, or 12s. *)
StopCandidate ==
    /\ phase = "cells" /\ Len(outs) = Suite
    /\ IF noServe THEN UNCHANGED server ELSE killServe(at)
    /\ phase' = "free"
    /\ UNCHANGED <<ids, at, noServe, holder, cellVars, reports, verdict>>

RecordReport ==
    /\ phase = "free"
    /\ reports' = Append(reports, [model |-> ids[at], served |-> served, outs |-> outs,
                                   by |-> seenBy])
    /\ NextCandidate
    /\ UNCHANGED <<ids, noServe, server, holder, verdict>>

(* No report at all is an error; else the comparison is written. *)
Conclude ==
    /\ phase = "compare"
    /\ IF reports = <<>> THEN phase' = "failed" /\ UNCHANGED verdict
       ELSE phase' = "done" /\ verdict' = Compare(reports)
    /\ UNCHANGED <<ids, at, noServe, server, holder, cellVars, reports>>

BakeNext ==
    \/ resolveBakeoffModels \/ StartCandidate \/ CandidateReady \/ ProbeServed
    \/ ProbeEndpointAsIs \/ runBakeoffCell \/ StopCandidate \/ RecordReport \/ Conclude
    \/ \E i \in DOMAIN server : BindPort(i) \/ ServerGone(i)
    \/ StrangerLeaves

BakeSpec == BakeInit /\ [][BakeNext]_bakeVars

-----------------------------------------------------------------------------
BakeTypeOK ==
    /\ phase \in {"select", "serve", "ready", "probe", "cells", "free", "compare",
                  "done", "failed"}
    /\ ids \in Seq(Models_) /\ at \in 0..Len(ids) + 1 /\ noServe \in BOOLEAN
    /\ server \in [DOMAIN ids -> {"none", "starting", "up", "dying", "gone"}]
    /\ holder \in -1..Len(ids)
    /\ served \in Models_ \cup {Nobody} /\ seenBy \subseteq Models_
    /\ outs \in Seq(Outcomes \cup {NoOutcome, NotRun}) /\ Len(outs) <= Suite
    /\ verdict.winner \in Models_ \cup {Nobody}

(* "fail loudly rather than measure the wrong model" (bakeoff.go:367): a   *)
(* candidate's cells were answered by its own model or by nobody, whenever *)
(* the probe named the model, and even when the probe was lost as long as  *)
(* no stranger had the port: no candidate is measured on the server of     *)
(* the one before it.                                                      *)
CellsAreOwn ==
    ~noServe => \A i \in DOMAIN reports :
        /\ reports[i].by \subseteq {reports[i].model, Stranger}
        /\ reports[i].served \in {reports[i].model, Nobody}
        /\ reports[i].served # Nobody => Stranger \notin reports[i].by

(* The verdict can be trusted as far as it says (Compare): a winner edited *)
(* files, nobody edited in more tasks, nobody who edited in as many closed *)
(* more, and no two reports name one served model; and there is no winner  *)
(* only when the field wrote nothing or one model was measured twice.      *)
WinnerIsBest ==
    phase = "done" =>
        LET agg(i) == Aggregate(reports[i].outs)
            best(i) == \A j \in DOMAIN reports :
                           /\ agg(j).edited <= agg(i).edited
                           /\ agg(j).edited = agg(i).edited => agg(j).closed <= agg(i).closed
            twice == \E i, j \in DOMAIN reports : i < j
                         /\ reports[i].served = reports[j].served
                         /\ reports[i].served # Nobody
        IN  IF verdict.winner = Nobody
            THEN twice \/ \A i \in DOMAIN reports : agg(i).edited = 0
            ELSE /\ ~twice
                 /\ \E i \in DOMAIN reports : /\ reports[i].model = verdict.winner
                                              /\ agg(i).edited > 0 /\ best(i)
=============================================================================
