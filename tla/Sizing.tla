------------------------------- MODULE Sizing -------------------------------
(***************************************************************************)
(* How aegis sizes a model to the host: the one context resolver           *)
(* (serving.ResolveCtxSize), its cap to memory at launch (selfconfig.go),  *)
(* and the profiler's fit of a catalog model (internal/profile).           *)
(*                                                                         *)
(* Windows are counted in blocks of 512 tokens and memory in 160ths of a   *)
(* GiB.  In these units, at the weights per byte of a Q4 file, the         *)
(* estimated KV cache takes one unit per GiB of weights and per block      *)
(* (7000 bytes per token and billion parameters), within 2 per cent.       *)
(***************************************************************************)
EXTENDS Integers, Sequences, FiniteSets, FiniteSetsExt

CONSTANT Catalog   \* catalog.json: a sequence of [size, num_ctx, active, origin]

GiB == 160
Models == 1..Len(Catalog)   \* a model is its place in the catalog
None == 0

ASSUME CatalogAssumption ==
    Catalog \in Seq([size : Nat \ {0}, num_ctx : Nat, active : Nat \ {0}, origin : STRING])

-----------------------------------------------------------------------------
(* The launch: what window is served.  A pin is what AEGIS_CTX_SIZE holds  *)
(* in the environment of a process.                                        *)

Pins == Nat \cup {-1}                     \* 0 unset, -1 set but rejected, else blocks

DefaultCtxSize == 64                      \* 32768 tokens
CtxLadder == {64, 48, 32, 24, 16, 8}
SmallestRung == 8
ServeReserve == 6 * GiB

(* The pin, else the hint (a model's num_ctx), else the default. *)
ResolveCtxSize(pin, hint) ==
    IF pin >= 1 THEN pin ELSE IF hint >= 1 THEN hint ELSE DefaultCtxSize

catalogCtxSizeForGGUF(m) == IF m = None THEN 0 ELSE Catalog[m].num_ctx

KVCacheBytes(size, ctx) == size * ctx

(* The largest rung that fits beside the weights; the smallest one when    *)
(* none does; what was asked for when the memory cannot be told.           *)
fitCtxTokens(desired, size, ram) ==
    LET fits(c) == size * GiB + KVCacheBytes(size, c) <= ram - ServeReserve
        rungs   == {c \in CtxLadder : c <= desired /\ fits(c)}
    IN  IF ram <= ServeReserve THEN desired
        ELSE IF rungs = {} THEN SmallestRung ELSE Max(rungs)

(* Whatever AEGIS_CTX_SIZE holds, a rejected value too, turns the cap off; *)
(* a file that is not there cannot be measured.                            *)
fitCtxSize(pin, desired, m, present, ram) ==
    IF pin # 0 \/ ~present THEN desired
    ELSE fitCtxTokens(desired, Catalog[m].size, ram)

(* The window of m in a process with that pin: of its launch, and of the   *)
(* fallback of its servedCtxSize.                                          *)
Window(pin, m, present, ram) ==
    fitCtxSize(pin, ResolveCtxSize(pin, catalogCtxSizeForGGUF(m)), m, present, ram)

-----------------------------------------------------------------------------
(* The profiler.                                                           *)

ProfileCtx == 32                          \* 16384 tokens
ProfileReserve == 3 * GiB
ComputeBuffer == 1 * GiB
InteractiveFloor == 10                    \* tokens per second
UnattendedFloor == 3

FitsCapacity(m, avail) ==
    LET size == Catalog[m].size
    IN  /\ avail > ProfileReserve
        /\ size * GiB + KVCacheBytes(size, ProfileCtx) + ComputeBuffer
               <= avail - ProfileReserve

(* The roofline rate in tokens per second, cut to an integer: the floors   *)
(* are integers.  bw is in GiB per second, active in GiB read per token.   *)
Roofline(m, bw) == (65 * bw) \div (100 * Catalog[m].active)

(* A verdict re-evaluated for the rate tps, predicted or measured. *)
Verdict(m, cap, tps, measured) ==
    [id |-> m, cap |-> cap, tps |-> tps, measured |-> measured,
     interactive |-> cap /\ tps >= InteractiveFloor,
     unattended  |-> cap /\ tps >= UnattendedFloor]

Fit(m, avail, bw) == Verdict(m, FitsCapacity(m, avail), Roofline(m, bw), FALSE)
=============================================================================
