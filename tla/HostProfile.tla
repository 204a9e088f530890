---------------------------- MODULE HostProfile ----------------------------
(***************************************************************************)
(* `aegis profile`, the profile taken at the first launch and its cache    *)
(* (cmd/aegis/profile.go, profile_surface.go, internal/profile, and the    *)
(* origin policy of internal/origin that filters it).  The cache outlives  *)
(* the host it describes: memory and policy change after it is written.    *)
(***************************************************************************)
EXTENDS Sizing, Ordering

CONSTANTS AvailRAMs, Bandwidths, \* what the probe may find
          Policies,              \* the origin policies the operator may write
          Rates                  \* rates a micro-bench may measure

(* Policy.Allows: a listed country wins, otherwise the default. *)
Allows(policy, country) ==
    IF country \in DOMAIN policy.countries
    THEN policy.countries[country] = "allow" ELSE policy.default = "allow"

Unreadable == [default |-> "unreadable", countries |-> <<>>]

ASSUME ProfileAssumption ==
    /\ \A p \in Policies : p = Unreadable \/ p.default \in {"allow", "deny"}
    /\ Bandwidths \subseteq Nat /\ Rates \subseteq Nat

VARIABLES policy,   \* the policy file
          profiles, \* the cached recommendation, <<>> or <<rec>>
          calibrated \* the catalog model the calibration names, or None

profileVars == <<policy, profiles, calibrated>>

(* A policy that cannot be read or parsed filters nothing. *)
Allowed(m) == policy = Unreadable \/ Allows(policy, Catalog[m].origin)

(* sortBySizeDesc is stable: models of one size keep the catalog's order. *)
Larger(S) == {p \in S \X S : \/ Catalog[p[1]].size > Catalog[p[2]].size
                             \/ Catalog[p[1]].size = Catalog[p[2]].size /\ p[1] < p[2]}
sortBySizeDesc(S) == InOrder(S, Larger(S))

FirstPick(fits, mode) ==
    LET i == {k \in DOMAIN fits : fits[k][mode]}
    IN  IF i = {} THEN None ELSE fits[Min(i)].id

Picks(fits) == [fits |-> fits, policy |-> policy,
                interactive |-> FirstPick(fits, "interactive"),
                unattended  |-> FirstPick(fits, "unattended")]

(* Every allowed model's verdict, largest first, and the pick per mode. *)
Recommend(avail, bw) ==
    LET ordered == sortBySizeDesc({m \in Models : Allowed(m)})
    IN  Picks([i \in DOMAIN ordered |-> Fit(ordered[i], avail, bw)])

(* A slip: the picks survive the measurement that refuted them. *)
ApplyMeasurement_KeepPicks(rec, m, tps) ==
    [rec EXCEPT !.fits = [i \in DOMAIN @ |->
        IF @[i].id = m THEN Verdict(m, @[i].cap, tps, TRUE) ELSE @[i]]]

(* The measured rate replaces the model's estimate, and both modes are     *)
(* picked again: a model below its floor steps down to the next.           *)
ApplyMeasurement(rec, m, tps) ==
    Picks([i \in DOMAIN rec.fits |->
        IF rec.fits[i].id = m THEN Verdict(m, rec.fits[i].cap, tps, TRUE)
        ELSE rec.fits[i]])

ProfileInit == /\ policy \in Policies
               /\ profiles = <<>>
               /\ calibrated = None

(* writeProfileCache: the whole recommendation replaces the last one. *)
writeProfileCache(rec) == profiles' = <<rec>>

(* autoProfile: once, while no cache can be read. *)
autoProfile(avail, bw) ==
    /\ profiles = <<>>
    /\ writeProfileCache(Recommend(avail, bw))
    /\ UNCHANGED <<policy, calibrated>>

(* aegis profile, without --bench or with no model to measure. *)
cmdProfile(avail, bw) ==
    /\ writeProfileCache(Recommend(avail, bw))
    /\ UNCHANGED <<policy, calibrated>>

(* aegis profile --bench: the rate is booked on the calibration's model. *)
benchRunningModel(avail, bw, tps) ==
    /\ calibrated # None
    /\ writeProfileCache(ApplyMeasurement(Recommend(avail, bw), calibrated, tps))
    /\ UNCHANGED <<policy, calibrated>>

(* Outside the profiler: the operator edits the policy, provisions. *)
EditPolicy == /\ policy' \in Policies
              /\ UNCHANGED <<profiles, calibrated>>
Calibrate == /\ calibrated' \in Models
             /\ UNCHANGED <<policy, profiles>>
CacheLost == /\ profiles' = <<>>
             /\ UNCHANGED <<policy, calibrated>>

ProfileNext ==
    \/ \E avail \in AvailRAMs, bw \in Bandwidths :
          \/ autoProfile(avail, bw)
          \/ cmdProfile(avail, bw)
          \/ \E tps \in Rates : benchRunningModel(avail, bw, tps)
    \/ EditPolicy \/ Calibrate \/ CacheLost

ProfileSpec == ProfileInit /\ [][ProfileNext]_profileVars

-----------------------------------------------------------------------------
(* What profileHint shows and resolveProvisionSpec provisions without an   *)
(* id: the interactive pick, else the unattended one.                      *)
Best(rec) == IF rec.interactive # None THEN rec.interactive ELSE rec.unattended

(* The pick a cached profile names is the largest model that was allowed   *)
(* when it was taken, holds in memory and clears the mode's floor at its   *)
(* latest rate, and no pick means that no such model exists: measured      *)
(* rates included (Recommend, ApplyMeasurement).                           *)
PicksAreBest ==
    \A n \in DOMAIN profiles :
        LET rec == profiles[n]
            ok(m) == rec.policy = Unreadable \/ Allows(rec.policy, Catalog[m].origin)
            able(floor) == {m \in Models : ok(m) /\
                \E i \in DOMAIN rec.fits :
                    /\ rec.fits[i].id = m
                    /\ rec.fits[i].cap /\ rec.fits[i].tps >= floor}
            largest(pick, S) ==
                IF S = {} THEN pick = None
                ELSE pick \in S /\ \A m \in S : Catalog[m].size <= Catalog[pick].size
        IN  /\ largest(rec.interactive, able(InteractiveFloor))
            /\ largest(rec.unattended, able(UnattendedFloor))
            /\ Best(rec) = None <=> able(UnattendedFloor) = {}
=============================================================================
