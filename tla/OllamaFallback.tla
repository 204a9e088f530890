--------------------------- MODULE OllamaFallback ---------------------------
(***************************************************************************)
(* Bare aegis without a local model of its own falls back on the           *)
(* operator's Ollama (cmd/aegis/ollama.go).  Launches share the models     *)
(* Ollama holds and the marker files under ~/.config/aegis, which outlive  *)
(* them; every HTTP call is a step.  A name is <<base, n>>: n is how many  *)
(* times "aegis-" was put before it.                                       *)
(***************************************************************************)
EXTENDS Integers, FiniteSets

CONSTANTS Launches,   \* the aegis processes that fall back
          Bases,      \* the models the operator pulled
          Hangs,      \* names whose load hangs or whose generation crashes
          Relaunches  \* how often each process is started

VARIABLES installed, \* the names Ollama lists
          broken,    \* ollama-no-ctx-* markers: bases whose derived model hangs
          unusable,  \* ollama-unusable-* markers
          home,      \* the markers' directory can be written
          fb         \* per launch: [pc, base, model, left, tried]

ollamaVars == <<installed, broken, unusable, home, fb>>

Names == Bases \X (0..2)
Derived(n) == <<n[1], n[2] + 1>>
IsDerived(n) == n[2] > 0        \* strings.HasPrefix(m, "aegis-")
NoName == <<"none", 0>>

ASSUME OllamaAssumption == /\ Hangs \subseteq Names /\ Relaunches \in Nat
                           /\ "none" \notin Bases

NewFallback == [pc |-> "off", base |-> NoName, model |-> NoName, tried |-> {},
                left |-> Relaunches]

OllamaInit == /\ installed = {<<b, 0>> : b \in Bases}
              /\ broken = {} /\ unusable = {} /\ home \in BOOLEAN
              /\ fb = [l \in Launches |-> NewFallback]

FbAt(l, c) == fb[l].pc = c
FbTo(l, c) == fb' = [fb EXCEPT ![l].pc = c]

(* ollamaModelResponds: a model that hangs never answers within the        *)
(* deadline, one that is not there answers 404, a sound one may be late.   *)
Responds(m) == m \in installed \ Hangs

(* A marker is a file; that it cannot be written is not noticed. *)
markOllamaCtxBroken(b) == broken' = IF home THEN broken \cup {b} ELSE broken
markOllamaModelUnusable(m) == unusable' = IF home THEN unusable \cup {m} ELSE unusable

(* A slip: aegis's own models are taken for bases. *)
Eligible_Derived == installed \ unusable

(* Neither aegis's own models nor those found unusable. *)
Eligible == {m \in installed : ~IsDerived(m)} \ unusable

(* ollamaFallback: the tag list (in an order of Ollama's own), filtered. *)
detectOllama(l) ==
    /\ FbAt(l, "off") /\ fb[l].left > 0
    /\ \/ fb' = [fb EXCEPT ![l] = [fb[l] EXCEPT !.pc = "offer", !.left = fb[l].left - 1]]
          \* Ollama is down, or there is nothing eligible
       \/ \E b \in Eligible :
             fb' = [fb EXCEPT ![l] = [fb[l] EXCEPT !.pc = "ensure", !.base = b,
                                                   !.left = fb[l].left - 1]]
    /\ UNCHANGED <<installed, broken, unusable, home>>

(* ensureOllamaCtxModel: the derived model, created when the tag list does *)
(* not show it, or the base when that is marked or cannot be done; a       *)
(* create that the client gave up on may yet have taken place, and one may *)
(* fail for a model that is there, when the list could not be had.         *)
ensureOllamaCtxModel(l) ==
    LET b == fb[l].base
        d == Derived(b)
        with(m, new) == /\ fb' = [fb EXCEPT ![l].pc = IF m = b THEN "final" ELSE "probe",
                                            ![l].model = m]
                        /\ installed' = installed \cup new
    IN  /\ FbAt(l, "ensure")
        /\ \/ b \in broken /\ with(b, {})
           \/ /\ b \notin broken
              /\ with(d, {d}) \/ with(b, {}) \/ with(b, {d})
        /\ UNCHANGED <<broken, unusable, home>>

(* The derived model is probed; when it does not answer the base is        *)
(* marked, the derived model removed and the base taken instead.           *)
ProbeDerived(l) ==
    /\ FbAt(l, "probe")
    /\ \/ Responds(fb[l].model) /\ FbTo(l, "final") /\ UNCHANGED broken
       \/ markOllamaCtxBroken(fb[l].base) /\ FbTo(l, "remove")
    /\ UNCHANGED <<installed, unusable, home>>

removeOllamaModel(l) ==
    /\ FbAt(l, "remove")
    /\ installed' \in {installed, installed \ {fb[l].model}}   \* errors are ignored
    /\ fb' = [fb EXCEPT ![l].pc = "final", ![l].model = fb[l].base]
    /\ UNCHANGED <<broken, unusable, home>>

(* A slip: the model is handed over unprobed. *)
ProbeFinal_Skip(l) ==
    /\ FbAt(l, "final")
    /\ FbTo(l, "use")
    /\ UNCHANGED <<installed, broken, unusable, home>>

(* Whatever is to be handed over is probed once more. *)
ProbeFinal(l) ==
    /\ FbAt(l, "final")
    /\ \/ Responds(fb[l].model) /\ FbTo(l, "use") /\ UNCHANGED unusable
       \/ markOllamaModelUnusable(fb[l].base) /\ FbTo(l, "offer")
    /\ UNCHANGED <<installed, broken, home>>

(* usableOllamaCandidate, for the provisioning screen: the first that      *)
(* answers, marking those that do not.                                     *)
usableOllamaCandidate(l) ==
    /\ FbAt(l, "offer")
    /\ \/ \E m \in Eligible \ fb[l].tried :
             \/ /\ Responds(m)
                /\ fb' = [fb EXCEPT ![l].pc = "nomodel", ![l].model = m]
                /\ UNCHANGED unusable
             \/ /\ markOllamaModelUnusable(m)
                /\ fb' = [fb EXCEPT ![l].tried = @ \cup {m}]
       \/ /\ Eligible \subseteq fb[l].tried
          /\ fb' = [fb EXCEPT ![l].pc = "nomodel", ![l].model = NoName]
          /\ UNCHANGED unusable
    /\ UNCHANGED <<installed, broken, home>>

(* The TUI is left, or killed at any point. *)
FallbackEnds(l) ==
    /\ ~FbAt(l, "off")
    /\ fb' = [fb EXCEPT ![l] = [NewFallback EXCEPT !.left = fb[l].left]]
    /\ UNCHANGED <<installed, broken, unusable, home>>

OllamaNext ==
    \E l \in Launches :
        \/ detectOllama(l) \/ ensureOllamaCtxModel(l) \/ ProbeDerived(l)
        \/ removeOllamaModel(l) \/ ProbeFinal(l) \/ usableOllamaCandidate(l)
        \/ FallbackEnds(l)

OllamaSpec == OllamaInit /\ [][OllamaNext]_ollamaVars

-----------------------------------------------------------------------------
OllamaTypeOK ==
    /\ installed \subseteq Names
    /\ broken \subseteq Names /\ unusable \subseteq Names
    /\ fb \in [Launches -> [pc : {"off", "ensure", "probe", "remove", "final", "use",
                                  "offer", "nomodel"},
                            base : Names \cup {NoName}, model : Names \cup {NoName},
                            tried : SUBSET Names, left : 0..Relaunches]]

(* However often aegis is launched and whatever it left behind in Ollama,  *)
(* it derives from the operator's models only, never from a model of its   *)
(* own making, and marks only those ("never treat aegis's own derived      *)
(* models as the base", ollama.go:195).                                    *)
DerivesOnce ==
    /\ \A n \in installed : n[2] <= 1 /\ <<n[1], 0>> \in installed
    /\ \A n \in broken \cup unusable : ~IsDerived(n)

(* "never handing opencode a model that hangs" (ollama.go:191): what a     *)
(* launch was handed answers; and a derived model disappears under a       *)
(* running TUI only when another launch has marked its base, where markers *)
(* can be kept, so that no later launch derives it again.                  *)
HandedModelAnswers ==
    \A l \in Launches : FbAt(l, "use") =>
        /\ fb[l].model \notin Hangs
        /\ home => fb[l].model \in installed \/ fb[l].base \in broken
=============================================================================
