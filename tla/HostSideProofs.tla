--------------------------- MODULE HostSideProofs ---------------------------
(***************************************************************************)
(* Proofs about three parts of the host that touch none of one another's   *)
(* state: the fallback on the operator's Ollama, the bake-off and the      *)
(* profiler, for any launches, models, candidates, suites, catalogs and    *)
(* policies.                                                               *)
(*                                                                         *)
(* Ollama: what a launch was handed was probed some steps ago and may have *)
(* been removed since by a launch whose own probe failed, so FallbackInv   *)
(* also says what a launch about to remove a model has marked.             *)
(* Bake-off: BakeInv says that no server but that of the candidate at hand *)
(* runs, which is what lets a lost probe do no harm; the verdict rests on  *)
(* the comparison being an order.                                          *)
(* Profiler: the first of a sorted list is the largest, before and after a *)
(* rate is measured.                                                       *)
(***************************************************************************)
EXTENDS OllamaFallback, BakeOff, HostProfile, OrderingProofs

Own == Bases \X {0}                 \* the operator's models
All == Bases \X {0, 1}              \* and those derived from them
FbChosen == {"ensure", "probe", "remove", "final", "use"}
FbLabels == FbChosen \cup {"off", "offer", "nomodel"}

FallbackTypes ==
    /\ installed \subseteq All /\ Own \subseteq installed
    /\ broken \subseteq Own /\ unusable \subseteq Own
    /\ fb \in [Launches -> [pc : FbLabels, base : Own \cup {NoName},
                            model : All \cup {NoName}, tried : SUBSET Own, left : Int]]

(* A launch that has chosen a base works with it or with its derived       *)
(* model, and one that is about to remove that has marked the base.        *)
Launched ==
    \A l \in Launches :
        /\ fb[l].pc \in FbChosen => fb[l].base \in Own
        /\ fb[l].pc \in {"final", "use"} => fb[l].model \in {fb[l].base, Derived(fb[l].base)}
        /\ fb[l].pc \in {"probe", "remove"} => fb[l].model = Derived(fb[l].base)
        /\ fb[l].pc = "remove" /\ home => fb[l].base \in broken

FallbackInv == FallbackTypes /\ Launched /\ HandedModelAnswers

-----------------------------------------------------------------------------
(* A base is none of aegis's own models; its derived model is, and belongs *)
(* to no other base.                                                       *)
LEMMA DerivedNames ==
    /\ \A b \in Own : ~IsDerived(b) /\ Derived(b) \in All /\ Derived(b) \notin Own
    /\ \A b, c \in Own : Derived(b) = Derived(c) => b = c
    /\ \A n \in All : ~IsDerived(n) => n \in Own
  BY DEF Own, All, IsDerived, Derived

(* What may be chosen as a base is a model the operator pulled. *)
LEMMA EligibleIsOwn == FallbackTypes => Eligible \subseteq Own
  BY DerivedNames DEF FallbackTypes, Eligible

(* Only the operator's own models are there. *)
LEMMA FallbackStarts == OllamaInit => FallbackInv
  <1> SUFFICES ASSUME OllamaInit PROVE FallbackInv OBVIOUS
  <1>1. installed = Own /\ Own \subseteq All BY DEF OllamaInit, Own, All
  <1>2. Relaunches \in Int BY OllamaAssumption
  <1>3. NewFallback \in [pc : FbLabels, base : Own \cup {NoName}, model : All \cup {NoName},
                         tried : SUBSET Own, left : Int] /\ NewFallback.pc = "off"
    BY <1>2 DEF NewFallback, FbLabels, FbChosen
  <1>4. \A l \in Launches : fb[l] = NewFallback BY DEF OllamaInit
  <1>5. FallbackTypes BY <1>1, <1>3 DEF OllamaInit, FallbackTypes
  <1> QED BY <1>3, <1>4, <1>5 DEF FallbackInv, Launched, HandedModelAnswers, FbAt, FbChosen

-----------------------------------------------------------------------------
(* One launch moves, the models and markers staying as they are or the     *)
(* markers growing: the others' part of FallbackInv stays true.                   *)
LEMMA OneMoves ==
    ASSUME FallbackInv, NEW l \in Launches,
           NEW new \in [pc : FbLabels, base : Own \cup {NoName}, model : All \cup {NoName},
                        tried : SUBSET Own, left : Int],
           fb' = [fb EXCEPT ![l] = new], UNCHANGED home,
           installed' \subseteq All, installed \subseteq installed',
           broken' \subseteq Own, broken \subseteq broken', unusable' \subseteq Own,
           new.pc \in FbChosen => new.base \in Own,
           new.pc \in {"final", "use"} => new.model \in {new.base, Derived(new.base)},
           new.pc \in {"probe", "remove"} => new.model = Derived(new.base),
           new.pc = "remove" /\ home => new.base \in broken',
           new.pc = "use" => new.model \in installed' \ Hangs
    PROVE  FallbackInv'
  <1>1. /\ fb'[l] = new
        /\ \A k \in Launches \ {l} : fb'[k] = fb[k]
    BY DEF FallbackInv, FallbackTypes
  <1>2. FallbackTypes' BY DEF FallbackInv, FallbackTypes
  <1>3. Launched' BY <1>1 DEF FallbackInv, Launched
  <1>4. HandedModelAnswers' BY <1>1 DEF FallbackInv, HandedModelAnswers, FbAt
  <1> QED BY <1>2, <1>3, <1>4 DEF FallbackInv

(* A launch looks for a base. *)
LEMMA ChooseStep ==
    ASSUME FallbackInv, NEW l \in Launches, detectOllama(l)
    PROVE  FallbackInv'
  <1> DEFINE R == [pc : FbLabels, base : Own \cup {NoName}, model : All \cup {NoName},
                   tried : SUBSET Own, left : Int]
             n == fb[l].left - 1
  <1>1. fb[l] \in R /\ n \in Int BY DEF FallbackInv, FallbackTypes
  <1>2. UNCHANGED <<installed, broken, unusable, home>> BY DEF detectOllama
  <1>3. broken \subseteq Own /\ unusable \subseteq Own /\ installed \subseteq All
    BY DEF FallbackInv, FallbackTypes
  <1> HIDE DEF n
  <1>4. CASE fb' = [fb EXCEPT ![l] = [fb[l] EXCEPT !.pc = "offer", !.left = n]]
    <2> DEFINE new == [fb[l] EXCEPT !.pc = "offer", !.left = n]
    <2>1. new \in R /\ new.pc = "offer" BY <1>1 DEF FbLabels
    <2>2. fb' = [fb EXCEPT ![l] = new] BY <1>4
    <2> HIDE DEF new
    <2> QED BY <1>2, <1>3, <2>1, <2>2, OneMoves DEF FbChosen
  <1>5. ASSUME NEW b \in Eligible,
               fb' = [fb EXCEPT ![l] = [fb[l] EXCEPT !.pc = "ensure", !.base = b, !.left = n]]
        PROVE  FallbackInv'
    <2> DEFINE new == [fb[l] EXCEPT !.pc = "ensure", !.base = b, !.left = n]
    <2>1. b \in Own BY EligibleIsOwn DEF FallbackInv
    <2>2. new \in R /\ new.pc = "ensure" /\ new.base = b
      BY <1>1, <2>1 DEF FbLabels, FbChosen
    <2>3. fb' = [fb EXCEPT ![l] = new] BY <1>5
    <2> HIDE DEF new
    <2> QED BY <1>2, <1>3, <2>1, <2>2, <2>3, OneMoves DEF FbChosen
  <1> QED BY <1>4, <1>5 DEF detectOllama, n

(* A launch makes sure that the derived model is there. *)
LEMMA EnsureStep ==
    ASSUME FallbackInv, NEW l \in Launches, ensureOllamaCtxModel(l)
    PROVE  FallbackInv'
  <1> DEFINE R == [pc : FbLabels, base : Own \cup {NoName}, model : All \cup {NoName},
                   tried : SUBSET Own, left : Int]
             b == fb[l].base
             d == Derived(b)
  <1>1. fb[l] \in R /\ b \in Own /\ Own \subseteq All
    BY DEF FallbackInv, FallbackTypes, Launched, ensureOllamaCtxModel, FbAt, FbChosen, Own, All
  <1>2. d \in All /\ d # b BY <1>1, DerivedNames
  <1>3. UNCHANGED <<broken, unusable, home>> BY DEF ensureOllamaCtxModel
  <1>4. PICK m \in {b, d}, new \in {{}, {d}} :
           /\ fb' = [fb EXCEPT ![l].pc = IF m = b THEN "final" ELSE "probe", ![l].model = m]
           /\ installed' = installed \cup new
    BY <1>2 DEF ensureOllamaCtxModel
  <1> DEFINE to == [fb[l] EXCEPT !.pc = IF m = b THEN "final" ELSE "probe", !.model = m]
  <1>5. /\ to \in R /\ to.base = b /\ to.model = m
        /\ to.pc = IF m = b THEN "final" ELSE "probe"
    BY <1>1, <1>2 DEF FbLabels, FbChosen
  <1>6. fb' = [fb EXCEPT ![l] = to] BY <1>4 DEF FallbackInv, FallbackTypes
  <1>7. installed' \subseteq All /\ installed \subseteq installed'
    BY <1>2, <1>4 DEF FallbackInv, FallbackTypes
  <1>8. broken \subseteq Own /\ unusable \subseteq Own BY DEF FallbackInv, FallbackTypes
  <1> HIDE DEF to, d, b
  <1> QED BY <1>1, <1>3, <1>4, <1>5, <1>6, <1>7, <1>8, OneMoves DEF d, b

(* A launch probes a model. *)
LEMMA ProbeStep ==
    ASSUME FallbackInv, NEW l \in Launches, ProbeDerived(l) \/ ProbeFinal(l)
    PROVE  FallbackInv'
  <1> DEFINE R == [pc : FbLabels, base : Own \cup {NoName}, model : All \cup {NoName},
                   tried : SUBSET Own, left : Int]
  <1>1. /\ fb[l] \in R /\ fb[l].base \in Own
        /\ broken \subseteq Own /\ unusable \subseteq Own /\ installed \subseteq All
    BY DEF FallbackInv, FallbackTypes, Launched, ProbeDerived, ProbeFinal, FbAt, FbChosen
  <1>2. UNCHANGED <<installed, home>> BY DEF ProbeDerived, ProbeFinal
  <1>3. CASE ProbeDerived(l)
    <2>1. PICK p \in {"final", "remove"} :
             /\ fb' = [fb EXCEPT ![l].pc = p]
             /\ p = "final" => UNCHANGED broken
             /\ p = "remove" => broken' = IF home THEN broken \cup {fb[l].base} ELSE broken
      BY <1>3 DEF ProbeDerived, FbTo, markOllamaCtxBroken
    <2>2. UNCHANGED unusable BY <1>3 DEF ProbeDerived
    <2>3. fb[l].model = Derived(fb[l].base)
      BY <1>3 DEF FallbackInv, Launched, ProbeDerived, FbAt
    <2> DEFINE new == [fb[l] EXCEPT !.pc = p]
    <2>4. new \in R /\ new.base = fb[l].base /\ new.model = fb[l].model /\ new.pc = p
      BY <1>1 DEF FbLabels, FbChosen
    <2>5. fb' = [fb EXCEPT ![l] = new] BY <2>1 DEF FallbackInv, FallbackTypes
    <2>6. broken' \subseteq Own /\ broken \subseteq broken'
      BY <1>1, <2>1
    <2>7. p = "remove" /\ home => fb[l].base \in broken' BY <2>1
    <2> HIDE DEF new
    <2> QED BY <1>1, <1>2, <2>2, <2>3, <2>4, <2>5, <2>6, <2>7, OneMoves
  <1>4. CASE ProbeFinal(l)
    <2>1. PICK p \in {"use", "offer"} :
             /\ fb' = [fb EXCEPT ![l].pc = p]
             /\ p = "use" => fb[l].model \in installed \ Hangs
      BY <1>4 DEF ProbeFinal, FbTo, Responds
    <2>2. unusable' \subseteq Own /\ UNCHANGED broken
      BY <1>1, <1>4 DEF ProbeFinal, markOllamaModelUnusable
    <2>3. fb[l].model \in {fb[l].base, Derived(fb[l].base)}
      BY <1>4 DEF FallbackInv, Launched, ProbeFinal, FbAt
    <2> DEFINE new == [fb[l] EXCEPT !.pc = p]
    <2>4. new \in R /\ new.base = fb[l].base /\ new.model = fb[l].model /\ new.pc = p
      BY <1>1 DEF FbLabels, FbChosen
    <2>5. fb' = [fb EXCEPT ![l] = new] BY <2>1 DEF FallbackInv, FallbackTypes
    <2> HIDE DEF new
    <2> QED BY <1>1, <1>2, <2>1, <2>2, <2>3, <2>4, <2>5, OneMoves DEF FbChosen
  <1> QED BY <1>3, <1>4

(* The one step that takes a model away: its base is marked by then, where *)
(* markers can be kept.                                                    *)
LEMMA RemoveStep ==
    ASSUME FallbackInv, NEW l \in Launches, removeOllamaModel(l)
    PROVE  FallbackInv'
  <1> DEFINE R == [pc : FbLabels, base : Own \cup {NoName}, model : All \cup {NoName},
                   tried : SUBSET Own, left : Int]
             b == fb[l].base
             new == [fb[l] EXCEPT !.pc = "final", !.model = b]
  <1>1. /\ fb[l] \in R /\ b \in Own /\ fb[l].model = Derived(b)
        /\ home => b \in broken
    BY DEF FallbackInv, FallbackTypes, Launched, removeOllamaModel, FbAt, FbChosen
  <1>2. /\ UNCHANGED <<broken, unusable, home>>
        /\ installed' \in {installed, installed \ {Derived(b)}}
        /\ fb' = [fb EXCEPT ![l] = new]
    BY <1>1 DEF removeOllamaModel, FallbackInv, FallbackTypes
  <1>3. new \in R /\ new.pc = "final" /\ new.model = b /\ new.base = b
    BY <1>1 DEF FbLabels, FbChosen, Own, All
  <1>4. Derived(b) \notin Own BY <1>1, DerivedNames
  <1> HIDE DEF new
  <1>5. FallbackTypes'
    BY <1>2, <1>3, <1>4 DEF FallbackInv, FallbackTypes
  <1>6. /\ fb'[l] = new
        /\ \A k \in Launches \ {l} : fb'[k] = fb[k]
    BY <1>2 DEF FallbackInv, FallbackTypes
  <1>7. Launched' BY <1>1, <1>2, <1>3, <1>6 DEF FallbackInv, Launched
  <1>8. ASSUME NEW k \in Launches, fb'[k].pc = "use"
        PROVE  /\ fb'[k].model \notin Hangs
               /\ home => fb'[k].model \in installed' \/ fb'[k].base \in broken
    <2>1. k # l /\ fb'[k] = fb[k] BY <1>3, <1>6, <1>8
    <2>2. /\ fb[k].model \notin Hangs
          /\ home => fb[k].model \in installed \/ fb[k].base \in broken
      BY <1>8, <2>1 DEF FallbackInv, HandedModelAnswers, FbAt
    <2>3. fb[k].base \in Own /\ fb[k].model \in {fb[k].base, Derived(fb[k].base)}
      BY <1>8, <2>1 DEF FallbackInv, Launched, FbChosen
    <2>4. fb[k].model = Derived(b) => fb[k].base = b
      BY <1>1, <1>4, <2>3, DerivedNames
    <2> QED BY <1>1, <1>2, <2>1, <2>2, <2>4
  <1>9. HandedModelAnswers' BY <1>2, <1>8 DEF HandedModelAnswers, FbAt
  <1> QED BY <1>5, <1>7, <1>9 DEF FallbackInv

(* A launch offers what is left, or ends. *)
LEMMA OfferStep ==
    ASSUME FallbackInv, NEW l \in Launches, usableOllamaCandidate(l) \/ FallbackEnds(l)
    PROVE  FallbackInv'
  <1> DEFINE R == [pc : FbLabels, base : Own \cup {NoName}, model : All \cup {NoName},
                   tried : SUBSET Own, left : Int]
  <1>1. /\ fb[l] \in R /\ Own \subseteq All
        /\ broken \subseteq Own /\ unusable \subseteq Own /\ installed \subseteq All
    BY DEF FallbackInv, FallbackTypes, Own, All
  <1>2. UNCHANGED <<installed, broken, home>> BY DEF usableOllamaCandidate, FallbackEnds
  <1>3. Eligible \subseteq Own BY EligibleIsOwn DEF FallbackInv
  <1>4. PICK new \in R : /\ fb' = [fb EXCEPT ![l] = new]
                         /\ new.pc \in {"offer", "nomodel", "off"}
    <2>1. CASE FallbackEnds(l)
      <3> DEFINE new == [NewFallback EXCEPT !.left = fb[l].left]
      <3>1. new \in R /\ new.pc = "off" BY <1>1 DEF NewFallback, FbLabels
      <3>2. fb' = [fb EXCEPT ![l] = new] BY <2>1 DEF FallbackEnds
      <3> HIDE DEF new
      <3> QED BY <3>1, <3>2
    <2>2. ASSUME NEW m \in Eligible \cup {NoName},
                 fb' = [fb EXCEPT ![l].pc = "nomodel", ![l].model = m]
          PROVE  \E new \in R : fb' = [fb EXCEPT ![l] = new]
                                /\ new.pc \in {"offer", "nomodel", "off"}
      <3> DEFINE new == [fb[l] EXCEPT !.pc = "nomodel", !.model = m]
      <3>1. new \in R /\ new.pc = "nomodel" BY <1>1, <1>3 DEF FbLabels
      <3>2. fb' = [fb EXCEPT ![l] = new] BY <2>2 DEF FallbackInv, FallbackTypes
      <3> HIDE DEF new
      <3> QED BY <3>1, <3>2
    <2>3. ASSUME NEW m \in Eligible, usableOllamaCandidate(l),
                 fb' = [fb EXCEPT ![l].tried = fb[l].tried \cup {m}]
          PROVE  \E new \in R : fb' = [fb EXCEPT ![l] = new]
                                /\ new.pc \in {"offer", "nomodel", "off"}
      <3> DEFINE new == [fb[l] EXCEPT !.tried = fb[l].tried \cup {m}]
      <3>1. new \in R /\ new.pc = fb[l].pc BY <1>1, <1>3
      <3>2. fb' = [fb EXCEPT ![l] = new] BY <2>3 DEF FallbackInv, FallbackTypes
      <3>3. fb[l].pc = "offer" BY <2>3 DEF usableOllamaCandidate, FbAt
      <3> HIDE DEF new
      <3> QED BY <3>1, <3>2, <3>3
    <2> QED BY <2>1, <2>2, <2>3 DEF usableOllamaCandidate
  <1>5. unusable' \subseteq Own
    BY <1>1, <1>3 DEF usableOllamaCandidate, FallbackEnds, markOllamaModelUnusable
  <1> QED BY <1>1, <1>2, <1>4, <1>5, OneMoves DEF FbChosen

(* Every step keeps FallbackInv. *)
LEMMA FallbackStep == FallbackInv /\ [OllamaNext]_ollamaVars => FallbackInv'
  <1> SUFFICES ASSUME FallbackInv, [OllamaNext]_ollamaVars PROVE FallbackInv' OBVIOUS
  <1>1. CASE OllamaNext
    BY <1>1, ChooseStep, EnsureStep, ProbeStep, RemoveStep, OfferStep DEF OllamaNext
  <1>2. CASE UNCHANGED ollamaVars
    BY <1>2 DEF ollamaVars, FallbackInv, FallbackTypes, Launched, HandedModelAnswers, FbAt
  <1> QED BY <1>1, <1>2

(* However often any number of aegis processes fall back on one Ollama,    *)
(* nothing is derived from a derived model and no derived model marked.    *)
THEOREM DerivedOnce == OllamaSpec => []DerivesOnce
  <1>1. FallbackInv => DerivesOnce
    BY DerivedNames DEF FallbackInv, FallbackTypes, DerivesOnce, Own, All
  <1> QED BY <1>1, FallbackStarts, FallbackStep, PTL DEF OllamaSpec

(* A launch is handed a model that answers, and loses it to another launch *)
(* only with its base marked.                                              *)
THEOREM HandedAnswers == OllamaSpec => []HandedModelAnswers
  <1>1. FallbackInv => HandedModelAnswers BY DEF FallbackInv
  <1> QED BY <1>1, FallbackStarts, FallbackStep, PTL DEF OllamaSpec

-----------------------------------------------------------------------------
(* The bake-off's measures.                                                *)

Known == Models_ \ {Stranger}                \* what can be a candidate
Cells == Outcomes \cup {NoOutcome, NotRun}

(* Sums of numbers are numbers. *)
LEMMA TotalType ==
    ASSUME NEW s, NEW field, Len(s) \in Nat, \A i \in 1..Len(s) : s[i][field] \in Nat
    PROVE  Total(s, field) \in Nat
  <1> DEFINE n == Len(s)
             g == [i \in 1..n |-> s[i][field]]
             Sums(f, k) == f[0] = 0 /\ \A i \in 1..k : f[i] = f[i - 1] + g[i]
             D == {k \in 0..n : ~\E f \in [0..k -> Nat] : Sums(f, k)}
             sum[m \in 0..n] == IF m = 0 THEN 0 ELSE sum[m - 1] + s[m][field]
             T == {m \in 0..n : sum[m] \notin Nat}
  <1>1. g \in [1..n -> Nat] /\ n \in Nat OBVIOUS
  <1>2. \A m \in 1..n : g[m] = s[m][field] OBVIOUS
  <1> HIDE DEF g
  <1>3. D = {}
    <2> SUFFICES ASSUME D # {} PROVE FALSE OBVIOUS
    <2>1. PICK k \in D : \A y \in D : k <= y
      <3>1. D \subseteq Nat BY <1>1
      <3> HIDE DEF D
      <3> QED BY <3>1, LeastNat
    <2>2. k \in 0..n /\ k \in Nat BY <1>1
    <2>3. CASE k = 0
      <3> DEFINE f == [i \in 0..0 |-> 0]
      <3>1. f \in [0..k -> Nat] /\ Sums(f, k) BY <2>3
      <3> QED BY <3>1
    <2>4. CASE k # 0
      <3>1. k - 1 \in 0..n /\ k - 1 \notin D
        <4>1. k - 1 \in 0..n /\ ~(k <= k - 1) BY <1>1, <2>2, <2>4
        <4> HIDE DEF D
        <4> QED BY <2>1, <4>1
      <3>2. PICK e \in [0..k - 1 -> Nat] : Sums(e, k - 1) BY <3>1
      <3> DEFINE f == [i \in 0..k |-> IF i < k THEN e[i] ELSE e[k - 1] + g[k]]
      <3>3. e[k - 1] \in Nat /\ g[k] \in Nat
        <4>1. k - 1 \in 0..k - 1 /\ k \in 1..n BY <1>1, <2>2, <2>4
        <4> QED BY <1>1, <3>2, <4>1
      <3>4. f \in [0..k -> Nat] BY <2>2, <3>2, <3>3
      <3>5. f[0] = 0 BY <2>2, <2>4, <3>2
      <3>6. \A i \in 1..k : f[i] = f[i - 1] + g[i]
        <4> SUFFICES ASSUME NEW i \in 1..k PROVE f[i] = f[i - 1] + g[i] OBVIOUS
        <4>1. CASE i < k
          <5>1. i \in 1..k - 1 /\ i - 1 < k /\ i - 1 \in 0..k /\ i \in 0..k BY <2>2, <4>1
          <5>2. f[i] = e[i] /\ f[i - 1] = e[i - 1] BY <4>1, <5>1
          <5>3. e[i] = e[i - 1] + g[i] BY <3>2, <5>1
          <5> QED BY <5>2, <5>3
        <4>2. CASE i = k
          <5>1. k - 1 \in 0..k /\ k \in 0..k /\ k - 1 < k /\ ~(k < k) BY <2>2, <2>4
          <5> QED BY <4>2, <5>1
        <4> QED BY <2>2, <4>1, <4>2
      <3> HIDE DEF f
      <3> QED BY <3>4, <3>5, <3>6
    <2> QED BY <2>3, <2>4
  <1>4. PICK f \in [0..n -> Nat] : Sums(f, n) BY <1>1, <1>3
  <1>5. f = [m \in 0..n |-> IF m = 0 THEN 0 ELSE f[m - 1] + s[m][field]]
    BY <1>1, <1>2, <1>4
  <1>6. sum = [m \in 0..n |-> IF m = 0 THEN 0 ELSE sum[m - 1] + s[m][field]]
    BY <1>5 DEF sum
  <1>7. Total(s, field) = sum[n] BY DEF Total, sum
  <1> HIDE DEF sum
  <1>8. sum[0] = 0 /\ \A m \in 1..n : sum[m] = sum[m - 1] + g[m]
    BY <1>1, <1>2, <1>6
  <1>9. T = {}
    <2> SUFFICES ASSUME T # {} PROVE FALSE OBVIOUS
    <2>1. PICK m \in T : \A y \in T : m <= y
      <3>1. T \subseteq Nat BY <1>1
      <3> HIDE DEF T
      <3> QED BY <3>1, LeastNat
    <2>2. m \in Nat /\ m # 0 /\ m \in 1..n BY <1>1, <1>8
    <2>3. m - 1 \in 0..n /\ m - 1 \notin T BY <1>1, <2>1, <2>2
    <2>4. sum[m] = sum[m - 1] + g[m] /\ g[m] \in Nat BY <1>1, <1>8, <2>2
    <2> QED BY <2>3, <2>4
  <1>10. \A m \in 0..n : sum[m] \in Nat BY <1>9
  <1> QED BY <1>1, <1>7, <1>10

Measures == [edited : Nat, closed : Nat, out : Nat, wall : Nat]

(* What is measured of a whole suite are numbers. *)
LEMMA AggregateType ==
    ASSUME NEW s \in Seq(Cells), Len(s) = Suite
    PROVE  Aggregate(s) \in Measures
  <1> DEFINE Cell == [edited : Nat, closed : 0..1, out : Nat, wall : Nat]
  <1>1. Len(s) \in Nat /\ Len(s) > 0 /\ DOMAIN s = 1..Len(s) BY BakeOffAssumption
  <1>2. \A i \in 1..Len(s) : s[i] \in Cell
    <2>1. Cells \subseteq Cell BY BakeOffAssumption DEF Cells, NoOutcome, NotRun
    <2>2. \A i \in 1..Len(s) : s[i] \in Cells BY <1>1
    <2> QED BY <2>1, <2>2
  <1>3. \A i \in 1..Len(s) : /\ s[i]["closed"] \in Nat /\ s[i]["out"] \in Nat
                             /\ s[i]["wall"] \in Nat
    BY <1>2
  <1>4. /\ Total(s, "closed") \in Nat /\ Total(s, "out") \in Nat
        /\ Total(s, "wall") \in Nat
    <2> HIDE DEF Cell
    <2>1. Total(s, "closed") \in Nat BY <1>1, <1>3, TotalType
    <2>2. Total(s, "out") \in Nat BY <1>1, <1>3, TotalType
    <2>3. Total(s, "wall") \in Nat BY <1>1, <1>3, TotalType
    <2> QED BY <2>1, <2>2, <2>3
  <1> DEFINE E == {i \in DOMAIN s : s[i].edited > 0}
  <1>5. Cardinality(E) \in Nat
    <2>1. E \in SUBSET (1..Len(s)) BY <1>1
    <2>2. IsFiniteSet(1..Len(s)) BY <1>1, FS_Interval
    <2>3. IsFiniteSet(E) BY <2>1, <2>2, FS_Subset
    <2> QED BY <2>3, FS_CardinalityType
  <1> HIDE DEF E
  <1> QED BY <1>4, <1>5 DEF Aggregate, Measures, E

(* Rates are compared by cross multiplication, soundly. *)
LEMMA RatesCompare ==
    ASSUME NEW ao \in Nat, NEW bo \in Nat, NEW co \in Nat,
           NEW aw \in Nat \ {0}, NEW bw \in Nat \ {0}, NEW cw \in Nat \ {0}
    PROVE  /\ ao * bw > bo * aw /\ bo * cw >= co * bw => ao * cw > co * aw
           /\ ao * bw >= bo * aw /\ bo * cw > co * bw => ao * cw > co * aw
           /\ ao * bw = bo * aw /\ bo * cw = co * bw => ao * cw = co * aw
  <1>1. \A x, y \in Int : x > y => x * aw > y * aw /\ x * bw > y * bw /\ x * cw > y * cw
    OBVIOUS
  <1>2. \A x, y \in Int : x >= y => x * aw >= y * aw /\ x * bw >= y * bw /\ x * cw >= y * cw
    OBVIOUS
  <1> DEFINE X == ao * cw
             Y == co * aw
  <1>3. /\ (ao * bw) * cw = X * bw /\ (co * bw) * aw = Y * bw
        /\ (bo * aw) * cw = (bo * cw) * aw
    OBVIOUS
  <1>4. X \in Int /\ Y \in Int OBVIOUS
  <1>5. X * bw > Y * bw => X > Y BY <1>2, <1>4
  <1>6. X * bw = Y * bw => X = Y BY <1>1, <1>4
  <1> DEFINE P == ao * bw
             Q == bo * aw
             R == bo * cw
             S == co * bw
  <1>7. P \in Int /\ Q \in Int /\ R \in Int /\ S \in Int OBVIOUS
  <1>8. P * cw = X * bw /\ S * aw = Y * bw /\ Q * cw = R * aw BY <1>3
  <1>9. X * bw \in Int /\ Y * bw \in Int /\ Q * cw \in Int BY <1>4, <1>7
  <1> HIDE DEF X, Y, P, Q, R, S
  <1>10. P > Q /\ R >= S => X > Y
    <2> SUFFICES ASSUME P > Q, R >= S PROVE X > Y OBVIOUS
    <2>1. P * cw > Q * cw BY <1>1, <1>7
    <2>2. R * aw >= S * aw BY <1>2, <1>7
    <2> HIDE <1>1, <1>2
    <2> QED BY <1>5, <1>8, <1>9, <2>1, <2>2
  <1>11. P >= Q /\ R > S => X > Y
    <2> SUFFICES ASSUME P >= Q, R > S PROVE X > Y OBVIOUS
    <2>1. P * cw >= Q * cw BY <1>2, <1>7
    <2>2. R * aw > S * aw BY <1>1, <1>7
    <2> QED BY <1>5, <1>8, <1>9, <2>1, <2>2
  <1>12. P = Q /\ R = S => X = Y BY <1>6, <1>8
  <1> QED BY <1>10, <1>11, <1>12 DEF X, Y, P, Q, R, S

(* The order of Compare, one comparison after another. *)
LEMMA AheadOrders ==
    ASSUME NEW a \in Measures, NEW b \in Measures, NEW c \in Measures
    PROVE  /\ ~Ahead(a, a)
           /\ ~(Ahead(a, b) /\ Ahead(b, a))
           /\ Ahead(a, b) /\ ~Ahead(c, b) => Ahead(a, c)
           /\ ~Ahead(b, a) /\ Ahead(b, c) => Ahead(a, c)
           /\ ~Ahead(b, a) /\ ~Ahead(c, b) => ~Ahead(c, a)
  <1> DEFINE P(x, y) == x.out * Span(y)
  <1>0. \A x \in Measures : Span(x) \in Nat \ {0} BY DEF Measures, Span
  <1>1. \A x, y \in {a, b, c} : /\ P(x, y) \in Int /\ x.edited \in Int /\ x.closed \in Int
                                /\ x.wall \in Int
    BY <1>0 DEF Measures
  <1>2. \A x, y \in {a, b, c} : Ahead(x, y) <=>
           \/ x.edited > y.edited
           \/ x.edited = y.edited /\ x.closed > y.closed
           \/ x.edited = y.edited /\ x.closed = y.closed /\ P(x, y) > P(y, x)
           \/ /\ x.edited = y.edited /\ x.closed = y.closed
              /\ P(x, y) = P(y, x) /\ x.wall < y.wall
    BY DEF Ahead, Rate
  <1>3. \A x, y, z \in {a, b, c} :
           /\ P(x, y) > P(y, x) /\ P(y, z) >= P(z, y) => P(x, z) > P(z, x)
           /\ P(x, y) >= P(y, x) /\ P(y, z) > P(z, y) => P(x, z) > P(z, x)
           /\ P(x, y) = P(y, x) /\ P(y, z) = P(z, y) => P(x, z) = P(z, x)
    <2> SUFFICES ASSUME NEW x \in {a, b, c}, NEW y \in {a, b, c}, NEW z \in {a, b, c}
                 PROVE
           /\ P(x, y) > P(y, x) /\ P(y, z) >= P(z, y) => P(x, z) > P(z, x)
           /\ P(x, y) >= P(y, x) /\ P(y, z) > P(z, y) => P(x, z) > P(z, x)
           /\ P(x, y) = P(y, x) /\ P(y, z) = P(z, y) => P(x, z) = P(z, x)
      OBVIOUS
    <2>1. x \in Measures /\ y \in Measures /\ z \in Measures OBVIOUS
    <2>2. /\ x.out \in Nat /\ y.out \in Nat /\ z.out \in Nat
          /\ Span(x) \in Nat \ {0} /\ Span(y) \in Nat \ {0} /\ Span(z) \in Nat \ {0}
      BY <1>0, <2>1 DEF Measures
    <2> QED BY <2>2, RatesCompare
  <1> HIDE DEF P
  <1>4. ~Ahead(a, a) BY <1>1, <1>2
  <1>5. ~(Ahead(a, b) /\ Ahead(b, a)) BY <1>1, <1>2
  <1>6. Ahead(a, b) /\ ~Ahead(c, b) => Ahead(a, c) BY <1>1, <1>2, <1>3
  <1>7. ~Ahead(b, a) /\ Ahead(b, c) => Ahead(a, c) BY <1>1, <1>2, <1>3
  <1>8. ~Ahead(b, a) /\ ~Ahead(c, b) => ~Ahead(c, a) BY <1>1, <1>2, <1>3
  <1> QED BY <1>4, <1>5, <1>6, <1>7, <1>8

(* Reports as cmdBakeoff hands them to Compare. *)
Report == [model : Known, served : Models_ \cup {Nobody}, outs : Seq(Cells),
           by : SUBSET Models_]
Measured(rs) == rs \in Seq(Report) /\ \A i \in DOMAIN rs : Len(rs[i].outs) = Suite

(* The report that comes first is behind none. *)
LEMMA TopIsAhead ==
    ASSUME NEW rs, Measured(rs), rs # <<>>
    PROVE  /\ Ranked(rs)[1] \in DOMAIN rs
           /\ \A j \in DOMAIN rs : ~Ahead(Aggregate(rs[j].outs),
                                          Aggregate(rs[Ranked(rs)[1]].outs))
           /\ \A j \in DOMAIN rs : Aggregate(rs[j].outs) \in Measures
  <1> DEFINE S == DOMAIN rs
             agg == [i \in S |-> Aggregate(rs[i].outs)]
             R == Outranks(rs)
             q == Ranked(rs)
             n == Cardinality(S)
  <1>1. /\ S = 1..Len(rs) /\ Len(rs) \in Nat /\ S # {}
        /\ \A i \in S : rs[i].outs \in Seq(Cells) /\ Len(rs[i].outs) = Suite
    <2>1. rs \in Seq(Report) BY DEF Measured
    <2>2. S = 1..Len(rs) /\ Len(rs) \in Nat /\ \A i \in S : rs[i] \in Report BY <2>1
    <2>3. Len(rs) # 0 BY <2>1
    <2>4. \A i \in S : rs[i].outs \in Seq(Cells) BY <2>2 DEF Report
    <2>5. 1 \in 1..Len(rs) BY <2>2, <2>3
    <2> QED BY <2>2, <2>4, <2>5 DEF Measured
  <1>2. \A i \in S : agg[i] = Aggregate(rs[i].outs) /\ agg[i] \in Measures
    BY <1>1, AggregateType
  <1>3. \A i, j \in S : <<i, j>> \in R <=>
           Ahead(agg[i], agg[j]) \/ (~Ahead(agg[j], agg[i]) /\ i < j)
    BY DEF Outranks
  <1>4. \A i \in S : i \in Nat BY <1>1
  <1>5. IsFiniteSet(S) BY <1>1, FS_Interval
  <1> HIDE DEF S, agg, R
  <1>6. \A x, y \in S : /\ ~Ahead(agg[x], agg[x])
                        /\ ~(Ahead(agg[x], agg[y]) /\ Ahead(agg[y], agg[x]))
    BY <1>2, AheadOrders
  <1>7. Orders(R, S)
    <2>1. \A x \in S : <<x, x>> \notin R BY <1>3, <1>4, <1>6
    <2>2. \A x, y \in S : x # y => <<x, y>> \in R \/ <<y, x>> \in R BY <1>3, <1>4, <1>6
    <2>3. ASSUME NEW x \in S, NEW y \in S, NEW z \in S, <<x, y>> \in R, <<y, z>> \in R
          PROVE  <<x, z>> \in R
      <3> DEFINE a == agg[x]
                 b == agg[y]
                 c == agg[z]
      <3>1. a \in Measures /\ b \in Measures /\ c \in Measures BY <1>2
      <3>2. /\ Ahead(a, b) /\ ~Ahead(c, b) => Ahead(a, c)
            /\ ~Ahead(b, a) /\ Ahead(b, c) => Ahead(a, c)
            /\ ~Ahead(b, a) /\ ~Ahead(c, b) => ~Ahead(c, a)
        <4> HIDE DEF a, b, c
        <4> QED BY <3>1, AheadOrders
      <3>3. Ahead(a, b) \/ (~Ahead(b, a) /\ x < y) BY <1>3, <2>3
      <3>4. Ahead(b, c) \/ (~Ahead(c, b) /\ y < z) BY <1>3, <2>3
      <3>5. ~(Ahead(a, b) /\ Ahead(b, a)) /\ ~(Ahead(b, c) /\ Ahead(c, b)) BY <1>6
      <3>6. Ahead(a, c) \/ (~Ahead(c, a) /\ x < z)
        <4> HIDE DEF a, b, c
        <4> QED BY <1>4, <3>2, <3>3, <3>4, <3>5
      <3> QED BY <1>3, <3>6
    <2> QED BY <2>1, <2>2, <2>3 DEF Orders
  <1>8. /\ n \in Nat /\ q \in [1..n -> S]
        /\ \A x \in S : \E k \in 1..n : q[k] = x
        /\ \A j, k \in 1..n : j < k => <<q[j], q[k]>> \in R
    BY <1>5, <1>7, Listed DEF Ranked, S, R
  <1>9. 1 \in 1..n
    <2>1. PICK x \in S : TRUE BY <1>1
    <2>2. PICK k \in 1..n : q[k] = x BY <1>8
    <2> QED BY <1>8, <2>2
  <1>10. q[1] \in S BY <1>8, <1>9
  <1>11. \A j \in S : ~Ahead(agg[j], agg[q[1]])
    <2> SUFFICES ASSUME NEW j \in S PROVE ~Ahead(agg[j], agg[q[1]]) OBVIOUS
    <2>1. PICK k \in 1..n : q[k] = j BY <1>8
    <2>2. CASE k = 1 BY <1>6, <2>1, <2>2
    <2>3. CASE k # 1
      <3>1. 1 < k BY <1>8, <2>3
      <3>2. <<q[1], j>> \in R BY <1>8, <1>9, <2>1, <3>1
      <3> QED BY <1>3, <1>6, <1>10, <3>2
    <2> QED BY <2>2, <2>3
  <1> QED BY <1>2, <1>10, <1>11 DEF S

(* What is listed or selected are candidates. *)
LEMMA SelectionKnown ==
    ASSUME NEW chosen \in Given \cup Suitable
    PROVE  chosen \in Seq(Known)
  <1>1. Candidates \in Seq(Known) BY BakeOffAssumption DEF Known
  <1>2. ASSUME NEW s \in Selections, NEW F \in SUBSET KnownIn(s)
        PROVE  Named(s, F) \in Seq(Known)
    <2> DEFINE first == Ascending(F)
               n == Cardinality(F)
    <2>1. s \in Seq(Nat) BY BakeOffAssumption
    <2>2. F \in SUBSET (1..Len(s)) /\ Len(s) \in Nat BY <2>1 DEF KnownIn
    <2>3. \A i \in F : Candidates[s[i]] \in Known BY <1>1 DEF KnownIn
    <2>4. Named(s, F) = [k \in DOMAIN first |-> Candidates[s[first[k]]]] BY DEF Named
    <2>5. n \in Nat /\ first \in [1..n -> F] BY <2>2, Listing
    <2>6. \A k \in 1..n : Candidates[s[first[k]]] \in Known BY <2>3, <2>5
    <2>7. Named(s, F) \in [1..n -> Known] BY <2>4, <2>5, <2>6
    <2> QED BY <2>5, <2>7
  <1>3. ASSUME NEW s \in Selections
        PROVE  splitList(s) \in Seq(Known) /\ parseModelSelection(s) \in Seq(Known)
    <2> DEFINE F == {i \in KnownIn(s) : \A j \in KnownIn(s) :
                        j < i => Candidates[s[j]] # Candidates[s[i]]}
    <2>1. F \in SUBSET KnownIn(s) /\ parseModelSelection(s) = Named(s, F)
      BY DEF parseModelSelection
    <2>2. splitList(s) = Named(s, KnownIn(s)) BY DEF splitList
    <2> HIDE DEF F
    <2> QED BY <1>2, <2>1, <2>2
  <1> QED BY <1>1, <1>3 DEF Given, Suitable

-----------------------------------------------------------------------------
(* The bake-off's walk.                                                    *)

Busy == {"ready", "probe", "cells"}     \* a candidate's server may be running
Turn == Busy \cup {"serve", "free"}     \* a candidate's turn

BakeTypes ==
    /\ phase \in Turn \cup {"select", "compare", "done", "failed"}
    /\ ids \in Seq(Known) /\ at \in Nat /\ noServe \in BOOLEAN
    /\ phase \in Turn => at \in 1..Len(ids)
    /\ server \in [1..Len(ids) -> {"none", "starting", "up", "dying", "gone"}]
    /\ holder \in -1..Len(ids)
    /\ served \in Models_ \cup {Nobody} /\ seenBy \subseteq Models_
    /\ outs \in Seq(Cells) /\ Len(outs) <= Suite

(* No server runs but that of the candidate whose turn it is. *)
Alone == \A i \in 1..Len(ids) :
             server[i] \in {"starting", "up"} => i = at /\ phase \in Busy /\ ~noServe

(* A turn begins with nothing measured; what has been measured since was   *)
(* answered by the candidate's own model, or by a stranger only while the  *)
(* probe had named nobody.                                                 *)
CellsSoFar ==
    /\ phase \in {"select", "serve", "ready", "probe"} =>
           served = Nobody /\ outs = <<>> /\ seenBy = {}
    /\ phase = "select" => reports = <<>> /\ ids = <<>>
    /\ phase = "free" => Len(outs) = Suite
    /\ phase \in {"cells", "free"} /\ ~noServe =>
           /\ seenBy \subseteq {ids[at], Stranger} /\ served \in {ids[at], Nobody}
           /\ served # Nobody => holder # 0 /\ Stranger \notin seenBy

(* The verdict is the comparison of the reports. *)
Compared ==
    /\ Measured(reports)
    /\ phase = "done" => reports # <<>> /\ verdict = Compare(reports)

BakeInv == BakeTypes /\ Alone /\ CellsSoFar /\ Compared /\ CellsAreOwn

(* The verdict of measured reports is what WinnerIsBest asks for. *)
LEMMA CompareIsRight ==
    ASSUME Measured(reports), reports # <<>>, verdict = Compare(reports)
    PROVE  WinnerIsBest
  <1> DEFINE t == Ranked(reports)[1]
             agg(i) == Aggregate(reports[i].outs)
             dup == \E i, j \in DOMAIN reports : /\ i < j
                                                 /\ reports[i].served = reports[j].served
                                                 /\ reports[i].served # Nobody
  <1>1. /\ t \in DOMAIN reports /\ \A j \in DOMAIN reports : ~Ahead(agg(j), agg(t))
        /\ \A j \in DOMAIN reports : agg(j) \in Measures
    BY TopIsAhead
  <1>2. \A j \in DOMAIN reports : agg(j).edited \in Nat /\ agg(j).closed \in Nat
    BY <1>1 DEF Measures
  <1>3. \A j \in DOMAIN reports : /\ agg(j).edited <= agg(t).edited
                                  /\ agg(j).edited = agg(t).edited => agg(j).closed <= agg(t).closed
    <2> SUFFICES ASSUME NEW j \in DOMAIN reports
                 PROVE  /\ agg(j).edited <= agg(t).edited
                        /\ agg(j).edited = agg(t).edited => agg(j).closed <= agg(t).closed
      OBVIOUS
    <2>1. ~(agg(j).edited > agg(t).edited)
          /\ ~(agg(j).edited = agg(t).edited /\ agg(j).closed > agg(t).closed)
      BY <1>1 DEF Ahead
    <2> HIDE DEF agg, t
    <2> QED BY <1>1, <1>2, <2>1
  <1>4. duplicateServedModel(reports) <=> dup
    <2>1. reports \in Seq(Report) BY DEF Measured
    <2>2. \A i \in DOMAIN reports : i \in Nat BY <2>1
    <2> QED BY <2>2 DEF duplicateServedModel
  <1>5. reports[t].model # Nobody
    <2>1. reports \in Seq(Report) BY DEF Measured
    <2>2. reports[t] \in Report
      <3> HIDE DEF t
      <3> QED BY <1>1, <2>1
    <2>3. reports[t].model \in Known BY <2>2 DEF Report
    <2> QED BY <2>3, BakeOffAssumption DEF Known
  <1>6. verdict = IF dup THEN [basis |-> "invalid", winner |-> Nobody]
                  ELSE IF agg(t).edited = 0 THEN [basis |-> "unedited", winner |-> Nobody]
                  ELSE [basis |-> "ranked", winner |-> reports[t].model]
    BY <1>4 DEF Compare
  <1> HIDE DEF t, agg, dup
  <1>7. CASE dup
    <2>1. verdict.winner = Nobody BY <1>6, <1>7
    <2> QED BY <1>7, <2>1 DEF WinnerIsBest, dup
  <1>8. CASE ~dup /\ agg(t).edited = 0
    <2>1. verdict.winner = Nobody BY <1>6, <1>8
    <2>2. \A i \in DOMAIN reports : agg(i).edited = 0
      <3> SUFFICES ASSUME NEW i \in DOMAIN reports PROVE agg(i).edited = 0 OBVIOUS
      <3>1. agg(i).edited <= agg(t).edited /\ agg(i).edited \in Nat BY <1>2, <1>3
      <3> QED BY <1>8, <3>1
    <2> QED BY <2>1, <2>2 DEF WinnerIsBest, agg
  <1>9. CASE ~dup /\ agg(t).edited # 0
    <2>1. verdict.winner = reports[t].model /\ verdict.winner # Nobody BY <1>5, <1>6, <1>9
    <2>2. agg(t).edited > 0 BY <1>1, <1>2, <1>9
    <2> QED BY <1>1, <1>3, <1>9, <2>1, <2>2 DEF WinnerIsBest, agg, dup
  <1> QED BY <1>7, <1>8, <1>9

(* Nothing a server or the stranger does by itself disturbs a turn. *)
LEMMA PortStep ==
    ASSUME BakeInv,
           StrangerLeaves \/ \E i \in DOMAIN server : BindPort(i) \/ ServerGone(i)
    PROVE  BakeInv'
  <1>1. /\ UNCHANGED <<phase, ids, at, noServe, served, outs, seenBy, reports, verdict>>
        /\ DOMAIN server = 1..Len(ids) /\ Len(ids) \in Nat
    BY DEF BakeInv, BakeTypes, StrangerLeaves, BindPort, ServerGone, cellVars
  <1>2. BakeTypes' /\ Alone' /\ (holder' = 0 => holder = 0)
    <2>1. CASE StrangerLeaves
      BY <1>1, <2>1 DEF StrangerLeaves, BakeInv, BakeTypes, Alone
    <2>2. ASSUME NEW i \in 1..Len(ids), BindPort(i)
          PROVE  BakeTypes' /\ Alone' /\ (holder' = 0 => holder = 0)
      <3> DEFINE v == IF holder = -1 THEN "up" ELSE "gone"
      <3>1. server' = [server EXCEPT ![i] = v] /\ v \in {"up", "gone"} /\ server[i] = "starting"
        BY <2>2 DEF BindPort
      <3>2. holder' \in {i, holder} BY <2>2 DEF BindPort
      <3> HIDE DEF v
      <3>3. BakeTypes' BY <1>1, <3>1, <3>2 DEF BakeInv, BakeTypes
      <3>4. Alone' BY <1>1, <3>1 DEF BakeInv, BakeTypes, Alone
      <3>5. holder' = 0 => holder = 0 BY <1>1, <3>2
      <3> QED BY <3>3, <3>4, <3>5
    <2>3. ASSUME NEW i \in 1..Len(ids), ServerGone(i)
          PROVE  BakeTypes' /\ Alone' /\ (holder' = 0 => holder = 0)
      <3>1. server' = [server EXCEPT ![i] = "gone"] /\ holder' \in {-1, holder}
        BY <2>3 DEF ServerGone
      <3> QED BY <1>1, <3>1 DEF BakeInv, BakeTypes, Alone
    <2> QED BY <1>1, <2>1, <2>2, <2>3
  <1>3. CellsSoFar' BY <1>1, <1>2 DEF BakeInv, CellsSoFar
  <1>4. Compared' /\ CellsAreOwn'
    BY <1>1 DEF BakeInv, Compared, CellsAreOwn
  <1> QED BY <1>2, <1>3, <1>4 DEF BakeInv

(* A candidate whose server is killed leaves none running. *)
LEMMA Killed ==
    ASSUME BakeInv, phase \in Turn, killServe(at)
    PROVE  /\ server' \in [1..Len(ids) -> {"none", "starting", "up", "dying", "gone"}]
           /\ \A i \in 1..Len(ids) : server'[i] \notin {"starting", "up"}
  <1> DEFINE v == IF server[at] = "up" THEN "dying"
                  ELSE IF server[at] = "starting" THEN "gone" ELSE server[at]
  <1>1. at \in 1..Len(ids) BY DEF BakeInv, BakeTypes
  <1>2. server' = [server EXCEPT ![at] = v] BY <1>1 DEF killServe, BakeInv, BakeTypes
  <1>3. v \in {"none", "dying", "gone"} BY <1>1 DEF BakeInv, BakeTypes
  <1> HIDE DEF v
  <1> QED BY <1>1, <1>2, <1>3 DEF BakeInv, BakeTypes, Alone

(* A turn ends, with its server killed or never started. *)
LEMMA TurnEnds ==
    ASSUME BakeInv, phase \in Turn, NextCandidate, UNCHANGED <<ids, noServe, holder, verdict>>,
           killServe(at) \/ (UNCHANGED server /\ phase \notin Busy),
           Measured(reports'), CellsAreOwn'
    PROVE  BakeInv'
  <1>1. /\ at \in 1..Len(ids) /\ Len(ids) \in Nat
        /\ at' = at + 1 /\ phase' \in {"compare", "serve"}
        /\ phase' = "serve" => at # Len(ids)
        /\ served' = Nobody /\ outs' = <<>> /\ seenBy' = {}
    BY DEF BakeInv, BakeTypes, NextCandidate
  <1>2. /\ server' \in [1..Len(ids) -> {"none", "starting", "up", "dying", "gone"}]
        /\ \A i \in 1..Len(ids) : server'[i] \notin {"starting", "up"}
    <2>1. CASE UNCHANGED server /\ phase \notin Busy
      BY <2>1 DEF BakeInv, BakeTypes, Alone
    <2>2. CASE killServe(at) BY <2>2, Killed
    <2> QED BY <2>1, <2>2
  <1>3. BakeTypes'
    <2>1. /\ at' \in Nat /\ (phase' = "serve" => at' \in 1..Len(ids)) BY <1>1
    <2>2. outs' \in Seq(Cells) /\ Len(outs') <= Suite BY <1>1, BakeOffAssumption
    <2> QED BY <1>1, <1>2, <2>1, <2>2 DEF BakeInv, BakeTypes, Turn, Busy
  <1>4. Alone' BY <1>2 DEF Alone
  <1>5. CellsSoFar' BY <1>1 DEF CellsSoFar
  <1>6. Compared' BY <1>1 DEF Compared
  <1> QED BY <1>3, <1>4, <1>5, <1>6 DEF BakeInv

(* Without a new report the old ones stay right. *)
LEMMA ReportsKept ==
    ASSUME BakeInv, UNCHANGED <<reports, noServe>>
    PROVE  Measured(reports') /\ CellsAreOwn'
  BY DEF BakeInv, Compared, CellsAreOwn

(* The candidates are chosen. *)
LEMMA ChoiceStep ==
    ASSUME BakeInv, resolveBakeoffModels
    PROVE  BakeInv'
  <1>1. PICK chosen \in Given \cup Suitable, ns \in BOOLEAN :
           /\ ids' = chosen /\ noServe' = ns
           /\ server' = [i \in DOMAIN chosen |-> "none"]
           /\ phase' = IF chosen = <<>> THEN "failed" ELSE "serve"
    BY DEF resolveBakeoffModels
  <1>2. /\ phase = "select" /\ at' = 1
        /\ UNCHANGED <<holder, served, outs, seenBy, reports, verdict>>
    BY DEF resolveBakeoffModels, cellVars
  <1>3. chosen \in Seq(Known) BY SelectionKnown
  <1>4. /\ Len(chosen) \in Nat /\ DOMAIN chosen = 1..Len(chosen)
        /\ (chosen # <<>> => 1 \in 1..Len(chosen))
    <2>1. Len(chosen) \in Nat /\ DOMAIN chosen = 1..Len(chosen) BY <1>3
    <2>2. chosen # <<>> => Len(chosen) # 0 BY <1>3
    <2> QED BY <2>1, <2>2
  <1>5. holder' \in -1..Len(ids')
    <2>1. holder \in -1..0 BY <1>2 DEF BakeInv, BakeTypes, CellsSoFar
    <2> QED BY <1>1, <1>2, <1>4, <2>1
  <1>6. /\ served' = Nobody /\ outs' = <<>> /\ seenBy' = {} /\ reports' = <<>>
    BY <1>2 DEF BakeInv, CellsSoFar
  <1>7. BakeTypes'
    <2>1. outs' \in Seq(Cells) /\ Len(outs') <= Suite BY <1>2 DEF BakeInv, BakeTypes
    <2>2. server' \in [1..Len(ids') -> {"none", "starting", "up", "dying", "gone"}]
      BY <1>1, <1>4
    <2>3. phase' \in {"failed", "serve"} /\ (phase' = "serve" => at' \in 1..Len(ids'))
      BY <1>1, <1>2, <1>4
    <2> QED BY <1>1, <1>2, <1>3, <1>5, <1>6, <2>1, <2>2, <2>3 DEF BakeTypes, Turn, Busy
  <1>8. Alone' BY <1>1, <1>4 DEF Alone
  <1>9. CellsSoFar' BY <1>1, <1>6 DEF CellsSoFar
  <1>10. Compared' /\ CellsAreOwn'
    <2>1. Measured(reports') BY <1>2 DEF BakeInv, Compared
    <2> QED BY <1>1, <1>6, <2>1 DEF Compared, CellsAreOwn
  <1> QED BY <1>7, <1>8, <1>9, <1>10 DEF BakeInv

(* A candidate's server is started, or the candidate skipped. *)
LEMMA StartStep ==
    ASSUME BakeInv, StartCandidate
    PROVE  BakeInv'
  <1>1. phase = "serve" /\ ~noServe /\ UNCHANGED <<ids, noServe, holder, reports, verdict>>
    BY DEF StartCandidate
  <1>2. Measured(reports') /\ CellsAreOwn' BY <1>1, ReportsKept
  <1>3. CASE NextCandidate /\ UNCHANGED server
    BY <1>1, <1>2, <1>3, TurnEnds DEF Turn, Busy
  <1>4. CASE /\ server' = [server EXCEPT ![at] = "starting"] /\ phase' = "ready"
             /\ UNCHANGED <<at, cellVars>>
    <2>1. UNCHANGED <<at, served, outs, seenBy>> /\ at \in 1..Len(ids)
      BY <1>1, <1>4 DEF cellVars, BakeInv, BakeTypes, Turn
    <2>2. BakeTypes' BY <1>1, <1>4, <2>1 DEF BakeInv, BakeTypes, Turn, Busy
    <2>3. Alone' BY <1>1, <1>4, <2>1 DEF BakeInv, BakeTypes, Alone, Busy
    <2>4. CellsSoFar' BY <1>1, <1>4, <2>1 DEF BakeInv, CellsSoFar
    <2>5. Compared' BY <1>2, <1>4 DEF Compared
    <2> QED BY <1>2, <2>2, <2>3, <2>4, <2>5 DEF BakeInv
  <1> QED BY <1>3, <1>4 DEF StartCandidate

(* Only the candidate's own server can answer, or the stranger. *)
LEMMA WhoAnswers ==
    ASSUME BakeInv, phase \in Busy
    PROVE  /\ Answering \in {Nobody, ids[at], Stranger}
           /\ holder # 0 => Answering \in {Nobody, ids[at]}
           /\ ids[at] \in Known /\ ids[at] # Stranger /\ ids[at] # Nobody
  <1>1. at \in 1..Len(ids) /\ ids[at] \in Known /\ holder \in -1..Len(ids) /\ Len(ids) \in Nat
    BY DEF BakeInv, BakeTypes, Turn
  <1>2. holder > 0 /\ server[holder] = "up" => holder = at
    BY <1>1 DEF BakeInv, Alone
  <1>3. ids[at] # Stranger /\ ids[at] # Nobody BY <1>1, BakeOffAssumption DEF Known
  <1> QED BY <1>1, <1>2, <1>3 DEF Answering, Up

(* The endpoint answers, or the time is over. *)
LEMMA ReadyStep ==
    ASSUME BakeInv, CandidateReady
    PROVE  BakeInv'
  <1>1. phase = "ready" /\ UNCHANGED <<ids, noServe, holder, reports, verdict>>
    BY DEF CandidateReady
  <1>2. Measured(reports') /\ CellsAreOwn' BY <1>1, ReportsKept
  <1>3. CASE NextCandidate /\ killServe(at)
    BY <1>1, <1>2, <1>3, TurnEnds DEF Turn, Busy
  <1>4. CASE phase' = "probe" /\ UNCHANGED <<at, cellVars, server>>
    BY <1>1, <1>2, <1>4 DEF BakeInv, BakeTypes, Alone, CellsSoFar, Compared, Turn, Busy, cellVars
  <1> QED BY <1>3, <1>4 DEF CandidateReady

(* The endpoint is asked which model it serves. *)
LEMMA ProbeServedStep ==
    ASSUME BakeInv, ProbeServed
    PROVE  BakeInv'
  <1>1. phase = "probe" /\ UNCHANGED <<ids, noServe, holder, reports, verdict>>
    BY DEF ProbeServed
  <1>2. Measured(reports') /\ CellsAreOwn' BY <1>1, ReportsKept
  <1>3. CASE NextCandidate /\ killServe(at)
    BY <1>1, <1>2, <1>3, TurnEnds DEF Turn, Busy
  <1>4. ASSUME NEW name \in {Answering, Nobody}, name \in {Nobody, ids[at]},
               served' = name, phase' = "cells", UNCHANGED <<at, outs, seenBy, server>>
        PROVE  BakeInv'
    <2>1. /\ Answering \in {Nobody, ids[at], Stranger}
          /\ ids[at] \in Known /\ ids[at] # Stranger /\ ids[at] # Nobody
      BY <1>1, WhoAnswers DEF Busy
    <2>2. holder = 0 => Answering = Stranger BY DEF Answering, Up
    <2>3. name # Nobody => holder # 0 BY <1>4, <2>1, <2>2
    <2>4. seenBy = {} BY <1>1 DEF BakeInv, CellsSoFar
    <2>5. BakeTypes' BY <1>1, <1>4, <2>1 DEF BakeInv, BakeTypes, Turn, Busy, Known
    <2>6. Alone' BY <1>1, <1>4 DEF BakeInv, Alone, Busy
    <2>7. CellsSoFar' BY <1>1, <1>4, <2>3, <2>4 DEF CellsSoFar
    <2>8. Compared' BY <1>2, <1>4 DEF Compared
    <2> QED BY <1>2, <2>5, <2>6, <2>7, <2>8 DEF BakeInv
  <1> QED BY <1>3, <1>4 DEF ProbeServed

(* --no-serve: what is at the endpoint is measured, whatever it is. *)
LEMMA AsIsStep ==
    ASSUME BakeInv, ProbeEndpointAsIs
    PROVE  BakeInv'
  <1>1. /\ phase = "serve" /\ noServe /\ phase' = "cells"
        /\ UNCHANGED <<ids, at, noServe, server, holder, outs, seenBy, reports, verdict>>
        /\ served' \in {Answering, Nobody}
    BY DEF ProbeEndpointAsIs
  <1>2. Measured(reports') /\ CellsAreOwn' BY <1>1, ReportsKept
  <1>3. Answering \in Models_ \cup {Nobody}
    <2>1. /\ ids \in Seq(Known) /\ holder \in -1..Len(ids) /\ Len(ids) \in Nat
      BY DEF BakeInv, BakeTypes
    <2>2. holder > 0 => ids[holder] \in Models_ BY <2>1 DEF Known
    <2> QED BY <2>1, <2>2 DEF Answering, Up, Models_
  <1>4. BakeTypes' BY <1>1, <1>3 DEF BakeInv, BakeTypes, Turn, Busy
  <1>5. Alone' BY <1>1 DEF BakeInv, Alone, Busy
  <1>6. CellsSoFar' BY <1>1 DEF CellsSoFar
  <1>7. Compared' BY <1>1, <1>2 DEF Compared
  <1> QED BY <1>2, <1>4, <1>5, <1>6, <1>7 DEF BakeInv

(* A task is run. *)
LEMMA CellStep ==
    ASSUME BakeInv, runBakeoffCell
    PROVE  BakeInv'
  <1>1. /\ phase = "cells" /\ Len(outs) < Suite
        /\ UNCHANGED <<phase, ids, at, noServe, server, holder, served, reports, verdict>>
    BY DEF runBakeoffCell
  <1>2. Measured(reports') /\ CellsAreOwn' BY <1>1, ReportsKept
  <1>3. PICK o \in Cells : outs' = Append(outs, o) BY DEF runBakeoffCell, Cells
  <1>4. \/ seenBy' = seenBy
        \/ Answering # Nobody /\ seenBy' = seenBy \cup {Answering}
    BY DEF runBakeoffCell
  <1>5. /\ Answering \in {Nobody, ids[at], Stranger}
        /\ holder # 0 => Answering \in {Nobody, ids[at]}
        /\ ids[at] \in Known /\ ids[at] # Stranger /\ ids[at] # Nobody
    BY <1>1, WhoAnswers DEF Busy
  <1>6. outs' \in Seq(Cells) /\ Len(outs') <= Suite
    BY <1>1, <1>3, BakeOffAssumption DEF BakeInv, BakeTypes
  <1>7. seenBy' \subseteq Models_
    BY <1>4, <1>5 DEF BakeInv, BakeTypes, Known, Models_
  <1>8. BakeTypes' BY <1>1, <1>6, <1>7 DEF BakeInv, BakeTypes
  <1>9. Alone' BY <1>1 DEF BakeInv, Alone
  <1>10. CellsSoFar' BY <1>1, <1>4, <1>5 DEF BakeInv, CellsSoFar
  <1>11. Compared' BY <1>1, <1>2 DEF Compared
  <1> QED BY <1>2, <1>8, <1>9, <1>10, <1>11 DEF BakeInv

(* The suite is through: the candidate's server is stopped. *)
LEMMA StopStep ==
    ASSUME BakeInv, StopCandidate
    PROVE  BakeInv'
  <1>1. /\ phase = "cells" /\ Len(outs) = Suite /\ phase' = "free"
        /\ UNCHANGED <<ids, at, noServe, holder, served, outs, seenBy, reports, verdict>>
        /\ IF noServe THEN UNCHANGED server ELSE killServe(at)
    BY DEF StopCandidate, cellVars
  <1>2. Measured(reports') /\ CellsAreOwn' BY <1>1, ReportsKept
  <1>3. at \in 1..Len(ids) /\ Len(ids) \in Nat
    BY <1>1 DEF BakeInv, BakeTypes, Turn, Busy
  <1>4. /\ server' \in [1..Len(ids) -> {"none", "starting", "up", "dying", "gone"}]
        /\ \A i \in 1..Len(ids) : server'[i] \notin {"starting", "up"}
    <2>1. CASE noServe
      BY <1>1, <2>1 DEF BakeInv, BakeTypes, Alone
    <2>2. CASE ~noServe
      BY <1>1, <2>2, Killed DEF Turn, Busy
    <2> QED BY <2>1, <2>2
  <1>5. BakeTypes' BY <1>1, <1>3, <1>4 DEF BakeInv, BakeTypes, Turn, Busy
  <1>6. Alone' BY <1>1, <1>4 DEF Alone
  <1>7. CellsSoFar' BY <1>1 DEF BakeInv, CellsSoFar
  <1>8. Compared' BY <1>1, <1>2 DEF Compared
  <1> QED BY <1>2, <1>5, <1>6, <1>7, <1>8 DEF BakeInv

(* A candidate's cells become a report, and its turn is over. *)
LEMMA RecordStep ==
    ASSUME BakeInv, RecordReport
    PROVE  BakeInv'
  <1> DEFINE r == [model |-> ids[at], served |-> served, outs |-> outs, by |-> seenBy]
  <1>1. /\ phase = "free" /\ reports' = Append(reports, r) /\ NextCandidate
        /\ UNCHANGED <<ids, noServe, server, holder, verdict>>
    BY DEF RecordReport
  <1>2. ids[at] \in Known /\ Len(outs) = Suite
    BY <1>1 DEF BakeInv, BakeTypes, CellsSoFar, Turn
  <1>3. r \in Report /\ r.outs = outs
    BY <1>2 DEF Report, BakeInv, BakeTypes
  <1>4. ~noServe => /\ r.by \subseteq {r.model, Stranger} /\ r.served \in {r.model, Nobody}
                    /\ r.served # Nobody => Stranger \notin r.by
    BY <1>1 DEF BakeInv, CellsSoFar
  <1> HIDE DEF r
  <1>5. reports \in Seq(Report) /\ \A i \in DOMAIN reports : Len(reports[i].outs) = Suite
    BY DEF BakeInv, Compared, Measured
  <1>6. /\ reports' \in Seq(Report) /\ DOMAIN reports' = 1..Len(reports) + 1
        /\ DOMAIN reports = 1..Len(reports) /\ Len(reports) \in Nat
        /\ reports'[Len(reports) + 1] = r
        /\ \A i \in 1..Len(reports) : reports'[i] = reports[i]
    BY <1>1, <1>3, <1>5
  <1>7. \A i \in DOMAIN reports' :
           reports'[i] = r \/ (i \in DOMAIN reports /\ reports'[i] = reports[i])
    BY <1>6
  <1>8. Measured(reports') BY <1>2, <1>3, <1>5, <1>6, <1>7 DEF Measured
  <1>9. CellsAreOwn' BY <1>1, <1>4, <1>7 DEF BakeInv, CellsAreOwn
  <1> QED BY <1>1, <1>8, <1>9, TurnEnds DEF Turn, Busy

(* The reports are compared. *)
LEMMA ConcludeStep ==
    ASSUME BakeInv, Conclude
    PROVE  BakeInv'
  <1>1. /\ phase = "compare"
        /\ UNCHANGED <<ids, at, noServe, server, holder, served, outs, seenBy, reports>>
        /\ phase' \in {"failed", "done"}
        /\ phase' = "done" => reports # <<>> /\ verdict' = Compare(reports)
    BY DEF Conclude, cellVars
  <1>2. Measured(reports') /\ CellsAreOwn' BY <1>1, ReportsKept
  <1>3. BakeTypes' BY <1>1 DEF BakeInv, BakeTypes, Turn, Busy
  <1>4. Alone' BY <1>1 DEF BakeInv, Alone, Busy
  <1>5. CellsSoFar' BY <1>1 DEF CellsSoFar
  <1>6. Compared' BY <1>1, <1>2 DEF Compared
  <1> QED BY <1>2, <1>3, <1>4, <1>5, <1>6 DEF BakeInv

(* The bake-off keeps its invariant from its first step to its last. *)
THEOREM BakeInvariance == BakeSpec => []BakeInv
  <1>1. BakeInit => BakeInv
    <2> SUFFICES ASSUME BakeInit PROVE BakeInv OBVIOUS
    <2>1. BakeTypes
      <3>1. ids = <<>> /\ Len(ids) = 0 /\ 1..Len(ids) = {} /\ ids \in Seq(Known)
        BY DEF BakeInit
      <3>2. server \in [1..Len(ids) -> {"none", "starting", "up", "dying", "gone"}]
        BY <3>1 DEF BakeInit
      <3>3. outs \in Seq(Cells) /\ Len(outs) <= Suite BY BakeOffAssumption DEF BakeInit
      <3>4. holder \in -1..Len(ids) /\ at \in Nat BY <3>1 DEF BakeInit
      <3>5. /\ served \in Models_ \cup {Nobody} /\ seenBy \subseteq Models_
            /\ noServe \in BOOLEAN /\ phase = "select"
        BY DEF BakeInit
      <3> QED BY <3>1, <3>2, <3>3, <3>4, <3>5 DEF BakeTypes, Turn, Busy
    <2>2. Alone /\ CellsSoFar BY DEF BakeInit, Alone, CellsSoFar
    <2>3. Compared /\ CellsAreOwn BY DEF BakeInit, Compared, Measured, CellsAreOwn
    <2> QED BY <2>1, <2>2, <2>3 DEF BakeInv
  <1>2. BakeInv /\ [BakeNext]_bakeVars => BakeInv'
    <2> SUFFICES ASSUME BakeInv, [BakeNext]_bakeVars PROVE BakeInv' OBVIOUS
    <2>1. CASE BakeNext
      BY <2>1, ChoiceStep, StartStep, ReadyStep, ProbeServedStep, AsIsStep, CellStep, StopStep,
         RecordStep, ConcludeStep, PortStep DEF BakeNext
    <2>2. CASE UNCHANGED bakeVars
      BY <2>2 DEF bakeVars, BakeInv, BakeTypes, Alone, CellsSoFar, Compared, CellsAreOwn
    <2> QED BY <2>1, <2>2
  <1> QED BY <1>1, <1>2, PTL DEF BakeSpec

(* Whoever binds, dies or holds the port, and whatever the probe says, no  *)
(* candidate is measured on the server of another: "fail loudly rather     *)
(* than measure the wrong model".                                          *)
THEOREM MeasuredOnOwnServer == BakeSpec => []CellsAreOwn
  <1>1. BakeInv => CellsAreOwn BY DEF BakeInv
  <1> QED BY <1>1, BakeInvariance, PTL

(* For any candidates, suite and outcomes the comparison of a bake-off     *)
(* names a best candidate, or none when none edited a file or one model    *)
(* was measured twice.                                                     *)
THEOREM VerdictIsRight == BakeSpec => []WinnerIsBest
  <1>1. BakeInv => WinnerIsBest
    <2> SUFFICES ASSUME BakeInv PROVE WinnerIsBest OBVIOUS
    <2>1. CASE phase # "done" BY <2>1 DEF WinnerIsBest
    <2>2. CASE phase = "done" BY <2>2, CompareIsRight DEF BakeInv, Compared
    <2> QED BY <2>1, <2>2
  <1> QED BY <1>1, BakeInvariance, PTL

-----------------------------------------------------------------------------
(* The profiler: the pick is the first of a list, and the list is sorted.  *)

(* The catalog's sizes and rates are numbers. *)
LEMMA CatalogRows ==
    /\ Len(Catalog) \in Nat /\ None \notin Models
    /\ \A m \in Models : Catalog[m].size \in Nat /\ Catalog[m].active \in Nat \ {0}
  <1> DEFINE Row == [size : Nat \ {0}, num_ctx : Nat, active : Nat \ {0}, origin : STRING]
  <1>1. Catalog \in Seq(Row) BY CatalogAssumption
  <1>2. \A m \in Models : Catalog[m] \in Row /\ Len(Catalog) \in Nat
    <2> HIDE DEF Row
    <2> QED BY <1>1 DEF Models
  <1>3. Len(Catalog) \in Nat
    <2> HIDE DEF Row
    <2> QED BY <1>1
  <1> QED BY <1>2, <1>3 DEF Models, None

(* A list of verdicts, of models a policy allows, the largest first. *)
Descending(fits, pol) ==
    /\ \E n \in Nat : DOMAIN fits = 1..n
    /\ \A i \in DOMAIN fits :
          /\ fits[i].id \in Models /\ fits[i].cap \in BOOLEAN /\ fits[i].tps \in Nat
          /\ fits[i].interactive <=> fits[i].cap /\ fits[i].tps >= InteractiveFloor
          /\ fits[i].unattended <=> fits[i].cap /\ fits[i].tps >= UnattendedFloor
          /\ pol = Unreadable \/ Allows(pol, Catalog[fits[i].id].origin)
    /\ \A i, j \in DOMAIN fits :
          i < j => Catalog[fits[j].id].size <= Catalog[fits[i].id].size

(* What of a list is allowed, holds in memory and clears a floor. *)
Able(fits, pol, floor) ==
    {m \in Models : /\ pol = Unreadable \/ Allows(pol, Catalog[m].origin)
                    /\ \E i \in DOMAIN fits : /\ fits[i].id = m
                                              /\ fits[i].cap /\ fits[i].tps >= floor}

Largest(pick, S) ==
    IF S = {} THEN pick = None
    ELSE pick \in S /\ \A m \in S : Catalog[m].size <= Catalog[pick].size

(* The first of a descending list that will do is the largest. *)
LEMMA FirstIsLargest ==
    ASSUME NEW fits, NEW pol, Descending(fits, pol),
           NEW mode, NEW floor \in Nat,
           \A i \in DOMAIN fits : fits[i][mode] <=> fits[i].cap /\ fits[i].tps >= floor
    PROVE  Largest(FirstPick(fits, mode), Able(fits, pol, floor))
  <1> DEFINE I == {k \in DOMAIN fits : fits[k][mode]}
             A == Able(fits, pol, floor)
  <1>1. I \subseteq Nat
    BY DEF Descending
  <1>2. \A k \in I : fits[k].id \in A
    BY DEF Descending, Able
  <1>3. \A m \in A : \E k \in I : fits[k].id = m
    BY DEF Able
  <1>4. CASE I = {}
    <2>1. FirstPick(fits, mode) = None BY <1>4 DEF FirstPick
    <2>2. A = {} BY <1>3, <1>4
    <2> QED BY <2>1, <2>2 DEF Largest
  <1>5. CASE I # {}
    <2>1. \E x \in I : \A y \in I : x <= y BY <1>1, <1>5, LeastNat
    <2> DEFINE k == Min(I)
    <2>2. k \in I /\ \A y \in I : k <= y BY <2>1 DEF Min
    <2>3. FirstPick(fits, mode) = fits[k].id BY <1>5 DEF FirstPick
    <2> HIDE DEF k
    <2>4. \A m \in A : Catalog[m].size <= Catalog[fits[k].id].size
      <3> SUFFICES ASSUME NEW m \in A PROVE Catalog[m].size <= Catalog[fits[k].id].size
        OBVIOUS
      <3>1. PICK j \in I : fits[j].id = m BY <1>3
      <3>2. j \in Nat /\ k \in Nat /\ k <= j /\ Catalog[m].size \in Nat
        BY <1>1, <2>2, CatalogRows DEF Able
      <3>3. CASE j = k BY <3>1, <3>2, <3>3
      <3>4. CASE k < j BY <2>2, <3>1, <3>4 DEF Descending
      <3> QED BY <3>2, <3>3, <3>4
    <2>5. fits[k].id \in A BY <1>2, <2>2
    <2> HIDE DEF A
    <2> QED BY <2>3, <2>4, <2>5 DEF Largest, A
  <1> QED BY <1>4, <1>5

(* What PicksAreBest says of one cached recommendation. *)
PicksBest(rec) ==
    /\ Largest(rec.interactive, Able(rec.fits, rec.policy, InteractiveFloor))
    /\ Largest(rec.unattended, Able(rec.fits, rec.policy, UnattendedFloor))
    /\ Best(rec) = None <=> Able(rec.fits, rec.policy, UnattendedFloor) = {}

(* Of a list sorted by size, the first that is allowed, fits and is fast   *)
(* enough is the pick.                                                     *)
LEMMA PicksOfList ==
    ASSUME NEW fits, Descending(fits, policy)
    PROVE  PicksBest(Picks(fits))
  <1> DEFINE rec == Picks(fits)
             A == Able(fits, policy, InteractiveFloor)
             B == Able(fits, policy, UnattendedFloor)
  <1>1. InteractiveFloor \in Nat /\ UnattendedFloor \in Nat
    BY DEF InteractiveFloor, UnattendedFloor
  <1>2. /\ \A i \in DOMAIN fits :
              fits[i]["interactive"] <=> fits[i].cap /\ fits[i].tps >= InteractiveFloor
        /\ \A i \in DOMAIN fits :
              fits[i]["unattended"] <=> fits[i].cap /\ fits[i].tps >= UnattendedFloor
    BY DEF Descending
  <1>3. /\ rec.fits = fits /\ rec.policy = policy
        /\ rec.interactive = FirstPick(fits, "interactive")
        /\ rec.unattended = FirstPick(fits, "unattended")
    BY DEF Picks
  <1>4. Largest(rec.interactive, A) BY <1>1, <1>2, <1>3, FirstIsLargest
  <1>5. Largest(rec.unattended, B) BY <1>1, <1>2, <1>3, FirstIsLargest
  <1>6. A \subseteq B
    <2>1. \A i \in DOMAIN fits : fits[i].tps \in Nat BY DEF Descending
    <2> QED BY <2>1 DEF Able, InteractiveFloor, UnattendedFloor
  <1>7. \A m \in B : m # None BY CatalogRows DEF Able
  <1>8. Best(rec) = None <=> B = {}
    <2> HIDE DEF rec, A, B
    <2> QED BY <1>4, <1>5, <1>6, <1>7 DEF Best, Largest
  <1> QED BY <1>3, <1>4, <1>5, <1>8 DEF PicksBest

(* Recommend lists what the policy allows, the largest first. *)
LEMMA RecommendSorts ==
    ASSUME NEW avail, NEW bw \in Nat
    PROVE  \E fits : Recommend(avail, bw) = Picks(fits) /\ Descending(fits, policy)
  <1> DEFINE S == {m \in Models : Allowed(m)}
             q == sortBySizeDesc(S)
             fits == [i \in DOMAIN q |-> Fit(q[i], avail, bw)]
             n == Cardinality(S)
  <1>1. S \subseteq 1..Len(Catalog) /\ IsFiniteSet(S)
    <2>1. IsFiniteSet(1..Len(Catalog)) BY CatalogRows, FS_Interval
    <2>2. S \in SUBSET (1..Len(Catalog)) BY DEF Models
    <2> QED BY <2>1, <2>2, FS_Subset
  <1>2. \A x, y \in S : <<x, y>> \in Larger(S) <=>
           \/ Catalog[x].size > Catalog[y].size
           \/ Catalog[x].size = Catalog[y].size /\ x < y
    BY DEF Larger
  <1>3. \A x \in S : x \in Nat /\ Catalog[x].size \in Nat
    BY <1>1, CatalogRows DEF Models
  <1>4. Orders(Larger(S), S)
    <2> HIDE DEF S
    <2> QED BY <1>2, <1>3 DEF Orders
  <1>5. /\ n \in Nat /\ q \in [1..n -> S]
        /\ \A j, k \in 1..n : j < k => <<q[j], q[k]>> \in Larger(S)
    <2> HIDE DEF S
    <2> QED BY <1>1, <1>4, Listed DEF sortBySizeDesc
  <1>6. DOMAIN fits = 1..n /\ \A i \in 1..n : fits[i] = Fit(q[i], avail, bw) /\ q[i] \in S
    BY <1>5
  <1>7. Recommend(avail, bw) = Picks(fits) BY DEF Recommend
  <1>8. \A m \in S : LET f == Fit(m, avail, bw)
                    IN  /\ f.id = m /\ f.cap \in BOOLEAN /\ f.tps \in Nat
                        /\ f.interactive <=> f.cap /\ f.tps >= InteractiveFloor
                        /\ f.unattended <=> f.cap /\ f.tps >= UnattendedFloor
    <2> SUFFICES ASSUME NEW m \in S
                 PROVE  LET f == Fit(m, avail, bw)
                        IN  /\ f.id = m /\ f.cap \in BOOLEAN /\ f.tps \in Nat
                            /\ f.interactive <=> f.cap /\ f.tps >= InteractiveFloor
                            /\ f.unattended <=> f.cap /\ f.tps >= UnattendedFloor
      OBVIOUS
    <2>1. FitsCapacity(m, avail) \in BOOLEAN BY DEF FitsCapacity
    <2>2. Roofline(m, bw) \in Nat
      <3>1. Catalog[m].active \in Nat \ {0} BY CatalogRows
      <3>2. 65 * bw \in Nat /\ 100 * Catalog[m].active \in Nat \ {0} BY <3>1
      <3> QED BY <3>2 DEF Roofline
    <2> QED BY <2>1, <2>2 DEF Fit, Verdict
  <1>9. Descending(fits, policy)
    <2>1. \A m \in S : policy = Unreadable \/ Allows(policy, Catalog[m].origin)
      BY DEF Allowed
    <2>2. \A m \in S : m \in Models OBVIOUS
    <2>3. \A i, j \in 1..n : i < j => Catalog[q[j]].size <= Catalog[q[i]].size
      <3> SUFFICES ASSUME NEW i \in 1..n, NEW j \in 1..n, i < j
                   PROVE  Catalog[q[j]].size <= Catalog[q[i]].size
        OBVIOUS
      <3>1. q[i] \in S /\ q[j] \in S /\ <<q[i], q[j]>> \in Larger(S) BY <1>5
      <3> HIDE DEF S, q, n
      <3> QED BY <1>2, <1>3, <3>1
    <2>4. \A i \in 1..n : fits[i].id = q[i]
      BY <1>6, <1>8
    <2> HIDE DEF S, q, n, fits
    <2> QED BY <1>5, <1>6, <1>8, <2>1, <2>2, <2>3, <2>4 DEF Descending
  <1> QED BY <1>7, <1>9

(* A measured rate leaves a sorted list sorted. *)
LEMMA MeasuredSorts ==
    ASSUME NEW fits, Descending(fits, policy), NEW m, NEW tps \in Nat
    PROVE  PicksBest(ApplyMeasurement(Picks(fits), m, tps))
  <1> DEFINE new == [i \in DOMAIN fits |->
                        IF fits[i].id = m THEN Verdict(m, fits[i].cap, tps, TRUE) ELSE fits[i]]
  <1>1. ApplyMeasurement(Picks(fits), m, tps) = Picks(new)
    BY DEF ApplyMeasurement, Picks
  <1>2. \A i \in DOMAIN fits :
           /\ new[i].id = fits[i].id /\ new[i].cap = fits[i].cap /\ new[i].tps \in Nat
           /\ new[i].interactive <=> new[i].cap /\ new[i].tps >= InteractiveFloor
           /\ new[i].unattended <=> new[i].cap /\ new[i].tps >= UnattendedFloor
    <2> SUFFICES ASSUME NEW i \in DOMAIN fits
                 PROVE
           /\ new[i].id = fits[i].id /\ new[i].cap = fits[i].cap /\ new[i].tps \in Nat
           /\ new[i].interactive <=> new[i].cap /\ new[i].tps >= InteractiveFloor
           /\ new[i].unattended <=> new[i].cap /\ new[i].tps >= UnattendedFloor
      OBVIOUS
    <2>1. CASE fits[i].id = m BY <2>1 DEF Verdict
    <2>2. CASE fits[i].id # m BY <2>2 DEF Descending
    <2> QED BY <2>1, <2>2
  <1>3. DOMAIN new = DOMAIN fits OBVIOUS
  <1> HIDE DEF new
  <1>4. Descending(new, policy) BY <1>2, <1>3 DEF Descending
  <1> QED BY <1>1, <1>4, PicksOfList

(* However memory, policy, rates and the calibrated model change between   *)
(* profiles, a cached recommendation names the largest model that was      *)
(* allowed, fitted and was fast enough.                                    *)
THEOREM ProfilePicksBest == ProfileSpec => []PicksAreBest
  <1> DEFINE Inv == \A n \in DOMAIN profiles : PicksBest(profiles[n])
  <1>1. ProfileInit => Inv BY DEF ProfileInit
  <1>2. Inv /\ [ProfileNext]_profileVars => Inv'
    <2> SUFFICES ASSUME Inv, [ProfileNext]_profileVars PROVE Inv' OBVIOUS
    <2>1. ASSUME NEW rec, PicksBest(rec), writeProfileCache(rec) PROVE Inv'
      <3>1. profiles' = <<rec>> BY <2>1 DEF writeProfileCache
      <3>2. DOMAIN profiles' = {1} /\ profiles'[1] = rec BY <3>1
      <3> QED BY <2>1, <3>2
    <2>2. ASSUME NEW avail \in AvailRAMs, NEW bw \in Bandwidths,
                 \/ autoProfile(avail, bw) \/ cmdProfile(avail, bw)
                 \/ \E tps \in Rates : benchRunningModel(avail, bw, tps)
          PROVE  Inv'
      <3>1. bw \in Nat BY ProfileAssumption
      <3>2. PICK fits : Recommend(avail, bw) = Picks(fits) /\ Descending(fits, policy)
        BY <3>1, RecommendSorts
      <3>3. CASE writeProfileCache(Recommend(avail, bw))
        BY <2>1, <3>2, <3>3, PicksOfList
      <3>4. CASE \E tps \in Rates : benchRunningModel(avail, bw, tps)
        <4>1. PICK tps \in Rates : benchRunningModel(avail, bw, tps) BY <3>4
        <4>2. tps \in Nat BY ProfileAssumption
        <4>3. writeProfileCache(ApplyMeasurement(Picks(fits), calibrated, tps))
          BY <3>2, <4>1 DEF benchRunningModel
        <4> QED BY <2>1, <3>2, <4>2, <4>3, MeasuredSorts
      <3> QED BY <2>2, <3>3, <3>4 DEF autoProfile, cmdProfile
    <2>3. CASE EditPolicy \/ Calibrate \/ UNCHANGED profileVars
      BY <2>3 DEF EditPolicy, Calibrate, profileVars
    <2>4. CASE CacheLost BY <2>4 DEF CacheLost
    <2> QED BY <2>2, <2>3, <2>4 DEF ProfileNext
  <1>3. Inv => PicksAreBest
    BY DEF PicksBest, PicksAreBest, Largest, Able
  <1> QED BY <1>1, <1>2, <1>3, PTL DEF ProfileSpec
=============================================================================
