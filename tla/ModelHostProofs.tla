--------------------------- MODULE ModelHostProofs ---------------------------
(***************************************************************************)
(* Proofs about ModelHost, for any number of processes, models and pieces: *)
(* who keeps a server (where killing the process kills the server), which  *)
(* window OpenCode is told, and (with one download at a time) that only    *)
(* verified weights are served.                                            *)
(***************************************************************************)
EXTENDS ModelHost, OrderingProofs

Pieces == {"ok", "bad", "hole"}
ProvRec(n) == [pc : ProvLabels, pin : Pins, fd : 0..n, off : 0..Chunks, sum : {"ok", "bad"},
               gguf : Side \cup {None, Wanted}, runs : Nat]
SrvRec == [st : {"starting", "loading", "up", "gone"}, model : Models \cup {None},
           by : Provs \cup Tuis \cup {"orphan"}, intact : BOOLEAN, pin : Pins,
           ctx : Nat]
TuiRec(n) == [pc : TuiLabels, pin : Pins, cal : Models \cup {None}, own : 0..n, seen : 0..n,
              via : {"none", "props", "resolver"}, window : Nat, runs : Nat]

(* The parts of HostTypeOK. *)
FilesOK == /\ inode \in Seq(Seq(Pieces))
           /\ dest \in 0..Len(inode) /\ part \in 0..Len(inode)
ProvsOK == prov \in [Provs -> ProvRec(Len(inode))]
CalOK == cal \in Side \cup {None, Torn, Wanted}
ServersOK == srv \in Seq(SrvRec) /\ port \in 0..Len(srv)
TuisOK == tui \in [Tuis -> TuiRec(Len(srv))]

(* A process moves: where to, with what; the others stay where they are. *)
ProvIs(p, l, f, o, s, g) ==
    /\ ProvsOK'
    /\ prov'[p].pc = l /\ prov'[p].fd = f /\ prov'[p].off = o /\ prov'[p].sum = s
    /\ prov'[p].gguf = g
    /\ \A q \in Provs \ {p} : prov'[q] = prov[q]
TuiIs(t, l, c, o, s, v, w) ==
    /\ TuisOK'
    /\ tui'[t].pc = l /\ tui'[t].cal = c /\ tui'[t].own = o /\ tui'[t].seen = s
    /\ tui'[t].via = v /\ tui'[t].window = w
    /\ \A q \in Tuis \ {t} : tui'[q] = tui[q]

(* The window a model is served with under a pin, its file being there. *)
ServedWith(pin, m) == Window(pin, m, TRUE, RAM)

(* A calibration names a model whose file is there, and so does whoever is *)
(* about to write one; whoever reads it to launch finds it written.        *)
Calibrated ==
    /\ cal \in Models => Present(cal)
    /\ \A p \in Provs :
          /\ prov[p].pc \in {"get", "copy"} => prov[p].gguf = Wanted
          /\ prov[p].pc \in {"seed", "write"} => prov[p].gguf \in Models /\ Present(prov[p].gguf)
          /\ prov[p].pc \in {"write", "serve"} => cal # None
    /\ \A t \in Tuis :
          /\ tui[t].pc = "seed" => tui[t].cal \in Models /\ Present(tui[t].cal)
          /\ tui[t].pc \in {"seed", "start"} => cal # None

(* A server that runs has the window of its model and its launcher's pin. *)
Served == \A s \in Servers : srv[s].st # "gone" =>
              srv[s].model \in Models /\ srv[s].ctx = ServedWith(srv[s].pin, srv[s].model)

(* What an open TUI was told. *)
ToldOf(t) == tui[t].pc = "open" =>
    /\ tui[t].via \in {"props", "resolver"}
    /\ tui[t].via = "props" /\ tui[t].seen # None /\ srv[tui[t].seen].st # "gone" =>
           tui[t].window = srv[tui[t].seen].ctx
    /\ tui[t].via = "resolver" /\ tui[t].cal \in Models =>
           tui[t].window = ServedWith(tui[t].pin, tui[t].cal)
Told == \A t \in Tuis : ToldOf(t)

(* The file in place is whole, the .part is another, what a download has   *)
(* written so far is what it has counted and digested; and every server    *)
(* has loaded such a file.                                                 *)
Whole == dest # None => Intact(dest) /\ part # dest
Written ==
    \A p \in Provs :
        /\ prov[p].pc = "get" => prov[p].off = 0 /\ prov[p].sum = "ok"
        /\ prov[p].pc = "copy" =>
              /\ prov[p].fd # None /\ prov[p].fd = part
              /\ Len(inode[part]) = prov[p].off
              /\ prov[p].sum = "ok" => \A k \in 1..prov[p].off : inode[part][k] = "ok"
Mapped == \A s \in Servers : srv[s].intact

(* A download that writes has a file to write to. *)
Opened == \A p \in Provs : prov[p].pc = "copy" => prov[p].fd # None

(* One aegis provision at a time: two of them share the .part (run         *)
(* DownloadRace).                                                          *)
OneDownload == \A p, q \in Provs : p = q

HostInv == /\ HostTypeOK /\ Opened /\ Calibrated /\ Served /\ Told
           /\ NiceExecs => ServersHaveKeepers
           /\ OneDownload => Whole /\ Written /\ Mapped

-----------------------------------------------------------------------------
(* HostTypeOK is its parts. *)
LEMMA TypeParts == HostTypeOK <=> FilesOK /\ ProvsOK /\ CalOK /\ ServersOK /\ TuisOK
  BY DEF HostTypeOK, FilesOK, ProvsOK, CalOK, ServersOK, TuisOK, Pieces, ProvRec, SrvRec, TuiRec

(* The same parts make up the type of the next state. *)
LEMMA TypePartsNext ==
    HostTypeOK' <=> FilesOK' /\ ProvsOK' /\ CalOK' /\ ServersOK' /\ TuisOK'
  BY DEF HostTypeOK, FilesOK, ProvsOK, CalOK, ServersOK, TuisOK, Pieces, ProvRec, SrvRec, TuiRec

(* The catalog's sizes and windows are numbers. *)
LEMMA CatalogTypes ==
    /\ \A m \in Models : Catalog[m].size \in Nat /\ Catalog[m].num_ctx \in Nat
    /\ None \notin Models /\ Torn \notin Models /\ None # Torn
    /\ Wanted \in Models /\ Side \subseteq Models /\ Wanted \notin Side
  <1> DEFINE Row == [size : Nat \ {0}, num_ctx : Nat, active : Nat \ {0}, origin : STRING]
  <1>0. Catalog \in Seq(Row)
      BY CatalogAssumption
  <1>1. \A m \in Models : Catalog[m] \in Row
    <2> HIDE DEF Row
    <2> QED BY <1>0 DEF Models
  <1>2. \A m \in Models : m \in Nat \ {0}
      BY CatalogAssumption DEF Models
  <1> QED BY <1>1, <1>2, HostAssumption DEF None, Torn

(* Every window aegis computes is a number. *)
LEMMA WindowNat ==
    ASSUME NEW pin \in Pins, NEW m \in Models \cup {None}, NEW b \in BOOLEAN, m = None => ~b
    PROVE  Window(pin, m, b, RAM) \in Nat
  <1> DEFINE d == ResolveCtxSize(pin, catalogCtxSizeForGGUF(m))
  <1>1. d \in Nat
      BY CatalogTypes, CatalogAssumption
      DEF ResolveCtxSize, catalogCtxSizeForGGUF, DefaultCtxSize, Pins
  <1>2. CASE pin # 0 \/ ~b
      BY <1>1, <1>2 DEF Window, fitCtxSize
  <1>3. CASE pin = 0 /\ b
    <2> DEFINE size == Catalog[m].size
               rungs == {c \in CtxLadder :
                           c <= d /\ size * GiB + KVCacheBytes(size, c) <= RAM - ServeReserve}
    <2>1. Window(pin, m, b, RAM) = IF RAM <= ServeReserve THEN d
                              ELSE IF rungs = {} THEN SmallestRung ELSE Max(rungs)
        BY <1>3 DEF Window, fitCtxSize, fitCtxTokens
    <2>2. rungs \subseteq CtxLadder
        OBVIOUS
    <2> HIDE DEF rungs, d
    <2>3. rungs # {} => Max(rungs) \in Nat
      <3>1. \A y \in rungs : y \in {64, 48, 32, 24, 16, 8}
          BY <2>2 DEF CtxLadder
      <3>2. rungs # {} => \E x \in rungs : \A y \in rungs : x >= y
        <4>1. CASE 64 \in rungs BY <3>1, <4>1
        <4>2. CASE 64 \notin rungs /\ 48 \in rungs BY <3>1, <4>2
        <4>3. CASE rungs \cap {64, 48} = {} /\ 32 \in rungs BY <3>1, <4>3
        <4>4. CASE rungs \cap {64, 48, 32} = {} /\ 24 \in rungs BY <3>1, <4>4
        <4>5. CASE rungs \cap {64, 48, 32, 24} = {} BY <3>1, <4>5
        <4> QED BY <4>1, <4>2, <4>3, <4>4, <4>5
      <3>3. rungs # {} => Max(rungs) \in rungs
          BY <3>2 DEF Max
      <3>4. \A y \in rungs : y \in Nat
          BY <3>1
      <3> QED BY <3>3, <3>4, Zenon
    <2> QED BY <1>1, <2>1, <2>3 DEF SmallestRung
  <1> QED BY <1>2, <1>3

(* resolveAnyModelGGUF finds a model whose file is there, if there is one. *)
LEMMA AnyModel ==
    resolveAnyModelGGUF = None
    \/ (resolveAnyModelGGUF \in Models /\ Present(resolveAnyModelGGUF))
  <1> DEFINE here == {m \in Models : Present(m)}
             sizes == {Catalog[m].size : m \in here}
  <1>1. CASE here = {}
      BY <1>1 DEF resolveAnyModelGGUF
  <1>2. CASE here # {}
    <2>1. sizes \in SUBSET Nat /\ sizes # {}
        BY <1>2, CatalogTypes
    <2>2. PICK x \in sizes : \A y \in sizes : x <= y
      <3> HIDE DEF sizes
      <3> QED BY <2>1, LeastNat
    <2>3. \E m \in here : \A n \in here : Catalog[m].size <= Catalog[n].size
        BY <2>2
    <2>4. resolveAnyModelGGUF = CHOOSE m \in here : \A n \in here : Catalog[m].size <= Catalog[n].size
        BY <1>2 DEF resolveAnyModelGGUF
    <2>5. resolveAnyModelGGUF \in here
      <3> HIDE DEF here
      <3> QED BY <2>3, <2>4
    <2> QED BY <2>5
  <1> QED BY <1>1, <1>2

-----------------------------------------------------------------------------
(* A sequence with one entry replaced, or with one more. *)
LEMMA Replace ==
    ASSUME NEW S, NEW q \in Seq(S), NEW i \in 1..Len(q), NEW e \in S,
           NEW r, r = [q EXCEPT ![i] = e]
    PROVE  /\ r \in Seq(S) /\ Len(r) = Len(q) /\ r[i] = e
           /\ \A j \in 1..Len(q) : j # i => r[j] = q[j]
  OBVIOUS

(* Append keeps what a sequence held and adds one at its end. *)
LEMMA Extend ==
    ASSUME NEW S, NEW q \in Seq(S), NEW e \in S, NEW r, r = Append(q, e)
    PROVE  /\ r \in Seq(S) /\ Len(r) = Len(q) + 1 /\ r[Len(q) + 1] = e
           /\ \A j \in 1..Len(q) : r[j] = q[j]
  OBVIOUS

(* A provision process is given another record. *)
LEMMA ProvReplaced ==
    ASSUME HostTypeOK, NEW p \in Provs, NEW new \in ProvRec(Len(inode')),
           prov' = [prov EXCEPT ![p] = new], FilesOK', Len(inode') >= Len(inode)
    PROVE  ProvsOK' /\ prov'[p] = new /\ \A q \in Provs \ {p} : prov'[q] = prov[q]
  <1>1. Len(inode) \in Nat /\ Len(inode') \in Nat
      BY TypeParts DEF FilesOK
  <1>2. \A r \in ProvRec(Len(inode)) : r \in ProvRec(Len(inode'))
    <2>1. \A k \in 0..Len(inode) : k \in 0..Len(inode')
        BY <1>1
    <2> HIDE <1>1
    <2> QED BY <2>1 DEF ProvRec
  <1>3. prov \in [Provs -> ProvRec(Len(inode))]
      BY TypeParts DEF ProvsOK
  <1>4. prov \in [Provs -> ProvRec(Len(inode'))]
      BY <1>2, <1>3
  <1> QED BY <1>4 DEF ProvsOK

(* A provision that ends keeps nothing of what it was at. *)
LEMMA ProvEnds ==
    ASSUME HostTypeOK, NEW p \in Provs, NEW l \in ProvLabels, ProvEnd(p, l),
           FilesOK', Len(inode') >= Len(inode)
    PROVE  ProvIs(p, l, None, 0, "ok", None)
  <1> DEFINE new == [NewProv EXCEPT !.pc = l, !.runs = prov[p].runs]
  <1>0. prov[p].runs \in Nat /\ Len(inode') \in Nat
      BY TypeParts DEF ProvsOK, FilesOK, ProvRec
  <1>1. prov[p].runs \in Nat /\ 0 \in 0..Len(inode') /\ 0 \in 0..Chunks /\ 0 \in Side \cup {0, Wanted} /\ 0 \in Pins
      BY <1>0, HostAssumption DEF Pins
  <1>2. /\ new \in ProvRec(Len(inode')) /\ new.pc = l /\ new.fd = None /\ new.off = 0
        /\ new.sum = "ok" /\ new.gguf = None
      BY <1>1 DEF NewProv, ProvRec, None
  <1>3. prov' = [prov EXCEPT ![p] = new]
      BY DEF ProvEnd
  <1> HIDE DEF new
  <1> QED BY <1>2, <1>3, ProvReplaced DEF ProvIs

(* A provision that goes on to its next place keeps all else. *)
LEMMA ProvGoes ==
    ASSUME HostTypeOK, NEW p \in Provs, NEW l \in ProvLabels, ProvTo(p, l),
           FilesOK', Len(inode') >= Len(inode)
    PROVE  ProvIs(p, l, prov[p].fd, prov[p].off, prov[p].sum, prov[p].gguf)
  <1> DEFINE new == [prov[p] EXCEPT !.pc = l]
  <1>0. prov \in [Provs -> ProvRec(Len(inode))] /\ Len(inode) \in Nat /\ Len(inode') \in Nat
      BY TypeParts DEF ProvsOK, FilesOK
  <1>1. prov[p] \in ProvRec(Len(inode)) /\ \A k \in 0..Len(inode) : k \in 0..Len(inode')
      BY <1>0
  <1>2. /\ new \in ProvRec(Len(inode')) /\ new.pc = l /\ new.fd = prov[p].fd
        /\ new.off = prov[p].off /\ new.sum = prov[p].sum /\ new.gguf = prov[p].gguf
      BY <1>1 DEF ProvRec
  <1>3. prov' = [prov EXCEPT ![p] = new]
      BY <1>0 DEF ProvTo
  <1> HIDE DEF new
  <1> QED BY <1>2, <1>3, ProvReplaced DEF ProvIs

(* A TUI process is given another record. *)
LEMMA TuiReplaced ==
    ASSUME HostTypeOK, NEW t \in Tuis, NEW new \in TuiRec(Len(srv')),
           tui' = [tui EXCEPT ![t] = new], ServersOK', Len(srv') >= Len(srv)
    PROVE  TuisOK' /\ tui'[t] = new /\ \A q \in Tuis \ {t} : tui'[q] = tui[q]
  <1>1. Len(srv) \in Nat /\ Len(srv') \in Nat
      BY TypeParts DEF ServersOK
  <1>2. \A r \in TuiRec(Len(srv)) : r \in TuiRec(Len(srv'))
    <2>1. \A k \in 0..Len(srv) : k \in 0..Len(srv')
        BY <1>1
    <2> HIDE <1>1
    <2> QED BY <2>1 DEF TuiRec
  <1>3. tui \in [Tuis -> TuiRec(Len(srv))]
      BY TypeParts DEF TuisOK
  <1>4. tui \in [Tuis -> TuiRec(Len(srv'))]
      BY <1>2, <1>3
  <1> QED BY <1>4 DEF TuisOK

(* A TUI that ends keeps nothing of what it was at. *)
LEMMA TuiEnds ==
    ASSUME HostTypeOK, NEW t \in Tuis, NEW l \in TuiLabels, TuiEnd(t, l),
           ServersOK', Len(srv') >= Len(srv)
    PROVE  TuiIs(t, l, None, None, None, "none", 0)
  <1> DEFINE new == [NewTui EXCEPT !.pc = l, !.runs = tui[t].runs]
  <1>0. tui[t].runs \in Nat /\ Len(srv') \in Nat
      BY TypeParts DEF TuisOK, ServersOK, TuiRec
  <1>1. tui[t].runs \in Nat /\ 0 \in 0..Len(srv') /\ 0 \in Models \cup {0} /\ 0 \in Nat
        /\ 0 \in Pins
      BY <1>0 DEF Pins
  <1>2. /\ new \in TuiRec(Len(srv')) /\ new.pc = l /\ new.cal = None /\ new.own = None
        /\ new.seen = None /\ new.via = "none" /\ new.window = 0
      BY <1>1 DEF NewTui, TuiRec, None
  <1>3. tui' = [tui EXCEPT ![t] = new]
      BY DEF TuiEnd
  <1> HIDE DEF new
  <1> QED BY <1>2, <1>3, TuiReplaced DEF TuiIs

(* A TUI that goes on to its next place keeps all else. *)
LEMMA TuiGoes ==
    ASSUME HostTypeOK, NEW t \in Tuis, NEW l \in TuiLabels, TuiTo(t, l),
           ServersOK', Len(srv') >= Len(srv)
    PROVE  TuiIs(t, l, tui[t].cal, tui[t].own, tui[t].seen, tui[t].via, tui[t].window)
  <1> DEFINE new == [tui[t] EXCEPT !.pc = l]
  <1>0. tui \in [Tuis -> TuiRec(Len(srv))] /\ Len(srv) \in Nat /\ Len(srv') \in Nat
      BY TypeParts DEF TuisOK, ServersOK
  <1>1. tui[t] \in TuiRec(Len(srv)) /\ \A k \in 0..Len(srv) : k \in 0..Len(srv')
      BY <1>0
  <1>2. /\ new \in TuiRec(Len(srv')) /\ new.pc = l /\ new.cal = tui[t].cal
        /\ new.own = tui[t].own /\ new.seen = tui[t].seen /\ new.via = tui[t].via
        /\ new.window = tui[t].window
      BY <1>1 DEF TuiRec
  <1>3. tui' = [tui EXCEPT ![t] = new]
      BY <1>0 DEF TuiTo
  <1> HIDE DEF new
  <1> QED BY <1>2, <1>3, TuiReplaced DEF TuiIs

-----------------------------------------------------------------------------
(* What each action does, by the records it leaves.                        *)

(* Nothing happens to a part, and it keeps its type. *)
LEMMA KeptTypes ==
    ASSUME HostTypeOK
    PROVE  /\ UNCHANGED fileVars => FilesOK' /\ Len(inode') >= Len(inode)
           /\ UNCHANGED fileVars /\ UNCHANGED prov => ProvsOK'
           /\ UNCHANGED cal => CalOK'
           /\ UNCHANGED <<srv, port>> => ServersOK' /\ Len(srv') >= Len(srv)
           /\ UNCHANGED <<srv, tui>> => TuisOK'
  <1>1. Len(inode) \in Nat /\ Len(srv) \in Nat
      BY TypeParts DEF FilesOK, ServersOK
  <1> QED BY <1>1, TypeParts DEF fileVars, FilesOK, ProvsOK, CalOK, ServersOK, TuisOK

(* Of one server something is replaced; the port is free or a server's. *)
LEMMA ServerReplaced ==
    ASSUME HostTypeOK, NEW s \in Servers, NEW new \in SrvRec, srv' = [srv EXCEPT ![s] = new],
           port' \in {port, None, s}
    PROVE  /\ ServersOK' /\ Len(srv') = Len(srv) /\ Len(srv') >= Len(srv) /\ srv'[s] = new
           /\ \A r \in Servers : r # s => srv'[r] = srv[r]
  <1>1. /\ srv \in Seq(SrvRec) /\ Servers = 1..Len(srv) /\ s \in 1..Len(srv)
        /\ Len(srv) \in Nat /\ port \in 0..Len(srv)
      BY TypeParts DEF ServersOK, Servers
  <1>2. /\ srv' \in Seq(SrvRec) /\ Len(srv') = Len(srv) /\ srv'[s] = new
        /\ \A r \in 1..Len(srv) : r # s => srv'[r] = srv[r]
      BY <1>1, Replace
  <1>3. port' \in 0..Len(srv')
      BY <1>1, <1>2 DEF None
  <1> QED BY <1>1, <1>2, <1>3 DEF ServersOK

(* What is left of a server that has exited. *)
LEMMA DeadIs == /\ Dead \in SrvRec /\ Dead.st = "gone" /\ Dead.by = "orphan" /\ Dead.intact
  <1>1. 0 \in Pins BY DEF Pins
  <1> QED BY <1>1 DEF Dead, SrvRec, None

(* A server exits. *)
LEMMA Goes ==
    ASSUME HostTypeOK, NEW s \in Servers, srv' = Gone(s), port' \in {port, None, s}
    PROVE  /\ ServersOK' /\ Len(srv') = Len(srv) /\ Len(srv') >= Len(srv)
           /\ srv'[s].st = "gone" /\ srv'[s].by = "orphan" /\ srv'[s].intact
           /\ \A r \in Servers : r # s => srv'[r] = srv[r]
  BY DeadIs, ServerReplaced DEF Gone

(* A server is launched by w under a pin, with the calibration as it is. *)
LaunchedBy(w, pin) ==
    /\ ServersOK' /\ Len(srv') = Len(srv) + 1 /\ Len(srv') >= Len(srv)
    /\ Len(srv') \in Servers' /\ Len(srv') \notin Servers
    /\ srv'[Len(srv')].st = "starting" /\ srv'[Len(srv')].by = w /\ srv'[Len(srv')].intact
    /\ srv'[Len(srv')].model = cal /\ srv'[Len(srv')].pin = pin
    /\ srv'[Len(srv')].ctx = Window(pin, cal, Present(cal), RAM)
    /\ \A r \in Servers : r \in Servers' /\ srv'[r] = srv[r]
    /\ \A r \in Servers' : r \in Servers \/ r = Len(srv')

(* serveModel: one more server, told the calibrated model and its window. *)
LEMMA Launches ==
    ASSUME HostTypeOK, NEW w \in Provs \cup Tuis, NEW pin \in Pins, Launch(w, pin), cal # Torn,
           UNCHANGED port
    PROVE  LaunchedBy(w, pin)
  <1>1. /\ srv \in Seq(SrvRec) /\ Servers = 1..Len(srv) /\ Servers' = 1..Len(srv')
        /\ Len(srv) \in Nat /\ port \in 0..Len(srv)
    <2>1. srv' = Append(srv, LaunchArgs(cal, w, pin, Window(pin, cal, Present(cal), RAM)))
        BY DEF Launch
    <2>2. srv \in Seq(SrvRec) /\ port \in 0..Len(srv)
        BY TypeParts DEF ServersOK
    <2> QED BY <2>1, <2>2 DEF Servers
  <1>2. cal \in Models \cup {None} /\ Present(cal) \in BOOLEAN /\ (cal = None => ~Present(cal))
    <2>1. cal \in Models \cup {None}
        BY TypeParts, CatalogTypes DEF CalOK
    <2>2. Present(cal) \in BOOLEAN
      <3>1. CASE cal = Wanted
        <4>1. Present(cal) = (dest # None) BY <3>1 DEF Present
        <4> QED BY <4>1
      <3>2. CASE cal # Wanted
        <4>1. Present(cal) = (cal \in Side) BY <3>2 DEF Present
        <4> QED BY <4>1
      <3> QED BY <3>1, <3>2
    <2>3. None # Wanted /\ None \notin Side
        BY CatalogTypes
    <2>4. cal = None => ~Present(cal)
        BY <2>3 DEF Present
    <2> QED BY <2>1, <2>2, <2>4
  <1>3. Window(pin, cal, Present(cal), RAM) \in Nat
      BY <1>2, WindowNat
  <1> DEFINE x == Window(pin, cal, Present(cal), RAM)
             new == LaunchArgs(cal, w, pin, x)
  <1>4. x \in Nat /\ x = Window(pin, cal, Present(cal), RAM)
      BY <1>3
  <1>5. srv' = Append(srv, new)
      BY DEF Launch
  <1> HIDE DEF x
  <1>6. /\ new \in SrvRec /\ new.st = "starting" /\ new.by = w /\ new.intact
        /\ new.model = cal /\ new.pin = pin /\ new.ctx = x
      BY <1>2, <1>4 DEF LaunchArgs, SrvRec
  <1> HIDE DEF new
  <1>7. /\ srv' \in Seq(SrvRec) /\ Len(srv') = Len(srv) + 1 /\ srv'[Len(srv) + 1] = new
        /\ \A r \in 1..Len(srv) : srv'[r] = srv[r]
      BY <1>1, <1>5, <1>6, Extend
  <1>8. ServersOK'
      BY <1>1, <1>7 DEF ServersOK
  <1>9. /\ Len(srv') >= Len(srv) /\ Len(srv') \in Servers' /\ Len(srv') \notin Servers
        /\ \A r \in Servers : r \in Servers'
        /\ \A r \in Servers' : r \in Servers \/ r = Len(srv')
      BY <1>1, <1>7
  <1> QED BY <1>1, <1>4, <1>6, <1>7, <1>8, <1>9 DEF LaunchedBy

(* The stop function: the server exits, or (macOS) goes on. *)
LEMMA Stops ==
    ASSUME HostTypeOK, NEW s \in 0..Len(srv), Stop(s)
    PROVE  /\ ServersOK' /\ Len(srv') = Len(srv) /\ Len(srv') >= Len(srv)
           /\ \A r \in Servers : srv'[r] = srv[r] \/ (srv'[r].st = "gone" /\ srv'[r].intact)
           /\ NiceExecs => \A r \in Servers : IF r = s THEN srv'[r].st = "gone" /\ srv'[r].by = "orphan"
                                                      ELSE srv'[r] = srv[r]
  <1>1. Servers = 1..Len(srv) /\ Len(srv) \in Nat
      BY TypeParts DEF ServersOK, Servers
  <1>2. CASE s # None /\ NiceExecs
    <2>1. s \in Servers /\ srv' = Gone(s) /\ port' \in {port, None, s}
        BY <1>1, <1>2 DEF Stop, Freed, None
    <2> QED BY <2>1, Goes
  <1>3. CASE ~(s # None /\ NiceExecs)
    <2>1. UNCHANGED <<srv, port>>
        BY <1>3 DEF Stop
    <2> QED BY <1>1, <1>3, <2>1, KeptTypes DEF None
  <1> QED BY <1>2, <1>3

-----------------------------------------------------------------------------
(* Which part of the invariant depends on what.                            *)

(* A TUI knows of servers that exist. *)
LEMMA Known ==
    ASSUME HostTypeOK
    PROVE  /\ \A t \in Tuis : tui[t].seen # None => tui[t].seen \in Servers
           /\ \A t \in Tuis : tui[t].own # None => tui[t].own \in Servers
           /\ port # None => port \in Servers
           /\ \A t \in Tuis : tui[t].own \in 0..Len(srv)
  <1>1. Servers = 1..Len(srv) /\ Len(srv) \in Nat /\ port \in 0..Len(srv)
      BY TypeParts DEF ServersOK, Servers
  <1>2. \A t \in Tuis : tui[t].seen \in 0..Len(srv) /\ tui[t].own \in 0..Len(srv)
      BY TypeParts DEF TuisOK, TuiRec
  <1> QED BY <1>1, <1>2 DEF None

(* What is known of servers does not depend on files. *)
LEMMA ServerFrame ==
    ASSUME UNCHANGED <<srv, tui>>
    PROVE  /\ (Served => Served') /\ (Told => Told') /\ (Mapped => Mapped')
           /\ (ServersHaveKeepers => ServersHaveKeepers')
  BY DEF Served, Told, ToldOf, Mapped, ServersHaveKeepers, Servers

(* What is known of files does not depend on servers. *)
LEMMA FileFrame ==
    ASSUME UNCHANGED <<fileVars, prov>>
    PROVE  (Opened => Opened') /\ (Whole => Whole') /\ (Written => Written')
  BY DEF fileVars, Opened, Whole, Intact, Full, Written

(* A calibration stays right while nothing it names is touched. *)
LEMMA CalFrame ==
    ASSUME UNCHANGED <<fileVars, prov, cal, tui>>, Calibrated
    PROVE  Calibrated'
  BY DEF fileVars, Calibrated, Present

(* A server that runs is one that ran before, as it was told. *)
Steady == \A r \in Servers : srv'[r].st # "gone" =>
              srv[r].st # "gone" /\ srv'[r].ctx = srv[r].ctx /\ srv'[r].model = srv[r].model
              /\ srv'[r].pin = srv[r].pin

(* With steady servers and idle TUIs, what a TUI was told stays true. *)
LEMMA ToldKept ==
    ASSUME HostTypeOK, Told, Steady, UNCHANGED tui
    PROVE  Told'
  BY Known DEF Told, ToldOf, Steady

(* So it does when one TUI moves and is told the truth. *)
LEMMA ToldStep ==
    ASSUME HostTypeOK, Told, Steady, NEW t \in Tuis,
           \A q \in Tuis \ {t} : tui'[q] = tui[q], ToldOf(t)'
    PROVE  Told'
  BY Known DEF Told, ToldOf, Steady

(* Steady servers have the windows they were started with. *)
LEMMA ServedKept ==
    ASSUME Served, Steady, Servers' = Servers
    PROVE  Served'
  BY DEF Served, Steady

(* The port is free for every server but one. *)
LEMMA BindKeeps ==
    ASSUME HostInv, NEW s \in Servers, Bind(s)
    PROVE  HostInv'
  <1>1. /\ srv[s].st = "starting" /\ UNCHANGED <<fileVars, prov, cal, tui>>
        /\ port' \in {port, None, s} /\ HostTypeOK
      BY DEF Bind, HostInv
  <1>2. /\ ServersOK' /\ Len(srv') = Len(srv) /\ Len(srv') >= Len(srv)
        /\ srv'[s].st = "gone" \/ (srv'[s].st = "loading" /\ srv'[s].by = srv[s].by
                                   /\ srv'[s].ctx = srv[s].ctx /\ srv'[s].model = srv[s].model
                                   /\ srv'[s].pin = srv[s].pin)
        /\ srv[s].intact => srv'[s].intact
        /\ \A r \in Servers : r # s => srv'[r] = srv[r]
    <2>1. CASE port # None
      <3>1. srv' = Gone(s)
          BY <2>1 DEF Bind
      <3> QED BY <1>1, <3>1, Goes
    <2>2. CASE port = None
      <3> DEFINE new == [srv[s] EXCEPT !.st = "loading"]
      <3>0. srv \in Seq(SrvRec) /\ s \in 1..Len(srv)
          BY <1>1, TypeParts DEF ServersOK, Servers
      <3>1. srv[s] \in SrvRec
          BY <3>0
      <3>2. /\ new \in SrvRec /\ new.st = "loading" /\ new.by = srv[s].by
            /\ new.ctx = srv[s].ctx /\ new.model = srv[s].model /\ new.intact = srv[s].intact
            /\ new.pin = srv[s].pin
          BY <3>1 DEF SrvRec
      <3>3. srv' = [srv EXCEPT ![s] = new]
          BY <2>2, <3>0 DEF Bind
      <3> HIDE DEF new
      <3> QED BY <1>1, <3>2, <3>3, ServerReplaced
    <2> QED BY <2>1, <2>2
  <1>3. Servers' = Servers /\ Steady
    <2>1. Servers = 1..Len(srv) /\ Servers' = 1..Len(srv')
        BY <1>1, <1>2, TypeParts DEF ServersOK, Servers
    <2> QED BY <1>1, <1>2, <2>1 DEF Steady
  <1>4. HostTypeOK'
    <2>1. TuisOK'
        BY <1>1, <1>2, TypeParts DEF TuisOK
    <2> QED BY <1>1, <1>2, <2>1, KeptTypes, TypePartsNext
  <1>5. Opened' /\ Calibrated' /\ Served' /\ Told'
      BY <1>1, <1>3, FileFrame, CalFrame, ServedKept, ToldKept DEF HostInv
  <1>6. NiceExecs => ServersHaveKeepers'
      BY <1>1, <1>2, <1>3 DEF HostInv, ServersHaveKeepers
  <1>7. OneDownload => Whole' /\ Written' /\ Mapped'
      BY <1>1, <1>2, <1>3, FileFrame DEF HostInv, Mapped
  <1> QED BY <1>4, <1>5, <1>6, <1>7 DEF HostInv, OneDownload

(* A server that has the port loads what is at the path, whole when one    *)
(* download at a time is all there is; or it exits.                        *)
LEMMA LoadKeeps ==
    ASSUME HostInv, NEW s \in Servers, Load(s)
    PROVE  HostInv'
  <1>1. /\ srv[s].st = "loading" /\ Present(srv[s].model)
        /\ UNCHANGED <<fileVars, prov, cal, port, tui>>
        /\ port' \in {port, None, s} /\ HostTypeOK
      BY DEF Load, HostInv
  <1> DEFINE ok == srv[s].model = Wanted => Intact(dest)
             new == [srv[s] EXCEPT !.st = "up", !.intact = ok]
  <1>2. ok \in BOOLEAN
      OBVIOUS
  <1>3. OneDownload => ok
      BY <1>1 DEF HostInv, Whole, Present
  <1>4. srv \in Seq(SrvRec) /\ s \in 1..Len(srv) /\ srv[s] \in SrvRec
    <2>1. srv \in Seq(SrvRec) /\ s \in 1..Len(srv)
        BY <1>1, TypeParts DEF ServersOK, Servers
    <2> QED BY <2>1
  <1>5. srv' = [srv EXCEPT ![s] = new]
      BY <1>4 DEF Load
  <1> HIDE DEF ok
  <1>6. /\ new \in SrvRec /\ new.st = "up" /\ new.by = srv[s].by
        /\ new.ctx = srv[s].ctx /\ new.model = srv[s].model /\ new.intact = ok
        /\ new.pin = srv[s].pin
      BY <1>2, <1>4 DEF SrvRec
  <1> HIDE DEF new
  <1>7. /\ ServersOK' /\ Len(srv') = Len(srv) /\ Len(srv') >= Len(srv) /\ srv'[s] = new
        /\ \A r \in Servers : r # s => srv'[r] = srv[r]
      BY <1>1, <1>5, <1>6, ServerReplaced
  <1>8. Servers' = Servers /\ Steady
    <2>1. Servers = 1..Len(srv) /\ Servers' = 1..Len(srv')
        BY <1>1, <1>7, TypeParts DEF ServersOK, Servers
    <2> QED BY <1>1, <1>6, <1>7, <2>1 DEF Steady
  <1>9. HostTypeOK'
    <2>1. TuisOK'
        BY <1>1, <1>7, TypeParts DEF TuisOK
    <2> QED BY <1>1, <1>7, <2>1, KeptTypes, TypePartsNext
  <1>10. Opened' /\ Calibrated' /\ Served' /\ Told'
      BY <1>1, <1>8, FileFrame, CalFrame, ServedKept, ToldKept DEF HostInv
  <1>11. NiceExecs => ServersHaveKeepers'
      BY <1>1, <1>6, <1>7, <1>8 DEF HostInv, ServersHaveKeepers
  <1>12. OneDownload => Whole' /\ Written' /\ Mapped'
      BY <1>1, <1>3, <1>6, <1>7, <1>8, FileFrame DEF HostInv, Mapped
  <1> QED BY <1>9, <1>10, <1>11, <1>12 DEF HostInv, OneDownload

(* A server dies. *)
LEMMA DieKeeps ==
    ASSUME HostInv, NEW s \in Servers, Die(s)
    PROVE  HostInv'
  <1>1. /\ UNCHANGED <<fileVars, prov, cal, tui>> /\ srv' = Gone(s)
        /\ port' \in {port, None, s} /\ HostTypeOK
      BY DEF Die, Freed, HostInv
  <1>2. /\ ServersOK' /\ Len(srv') = Len(srv) /\ Len(srv') >= Len(srv)
        /\ srv'[s].st = "gone" /\ srv'[s].by = "orphan" /\ srv'[s].intact
        /\ \A r \in Servers : r # s => srv'[r] = srv[r]
      BY <1>1, Goes
  <1>3. Servers' = Servers /\ Steady
    <2>1. Servers = 1..Len(srv) /\ Servers' = 1..Len(srv')
        BY <1>1, <1>2, TypeParts DEF ServersOK, Servers
    <2> QED BY <1>1, <1>2, <2>1 DEF Steady
  <1>4. HostTypeOK'
    <2>1. TuisOK'
        BY <1>1, <1>2, TypeParts DEF TuisOK
    <2> QED BY <1>1, <1>2, <2>1, KeptTypes, TypePartsNext
  <1>5. Opened' /\ Calibrated' /\ Served' /\ Told'
      BY <1>1, <1>3, FileFrame, CalFrame, ServedKept, ToldKept DEF HostInv
  <1>6. NiceExecs => ServersHaveKeepers'
      BY <1>1, <1>2, <1>3 DEF HostInv, ServersHaveKeepers
  <1>7. OneDownload => Whole' /\ Written' /\ Mapped'
      BY <1>1, <1>2, <1>3, FileFrame DEF HostInv, Mapped
  <1> QED BY <1>4, <1>5, <1>6, <1>7 DEF HostInv, OneDownload

-----------------------------------------------------------------------------
(* aegis provision.                                                        *)

(* A provision process moves and no file, server or TUI does. *)
LEMMA ProvMoves ==
    ASSUME HostInv, UNCHANGED <<fileVars, srv, port, tui>>, CalOK',
           NEW p \in Provs, NEW l \in ProvLabels, NEW f, NEW o, NEW s, NEW g,
           ProvIs(p, l, f, o, s, g), l # "copy",
           l = "get" => g = Wanted /\ o = 0 /\ s = "ok",
           l \in {"seed", "write"} => g \in Models /\ Present(g),
           l \in {"write", "serve"} => cal' # None,
           cal # None => cal' # None,
           cal' \in Models => Present(cal')
    PROVE  HostInv'
  <1>1. HostTypeOK /\ \A q \in Provs : q # p => prov'[q] = prov[q]
      BY DEF HostInv, ProvIs
  <1>2. HostTypeOK'
      BY <1>1, KeptTypes, TypePartsNext DEF ProvIs
  <1>3. Opened'
      BY DEF HostInv, Opened, ProvIs
  <1>4. Calibrated'
    <2>1. \A m : Present(m)' <=> Present(m)
        BY DEF fileVars, Present
    <2> QED BY <1>1, <2>1 DEF HostInv, Calibrated, ProvIs
  <1>5. Served' /\ Told' /\ (NiceExecs => ServersHaveKeepers')
      BY ServerFrame DEF HostInv
  <1>6. OneDownload => Whole' /\ Written' /\ Mapped'
    <2>1. OneDownload => Whole' /\ Mapped'
        BY ServerFrame DEF HostInv, fileVars, Whole, Intact, Full
    <2>2. OneDownload => Written'
        BY <1>1 DEF HostInv, fileVars, Written, ProvIs
    <2> QED BY <2>1, <2>2
  <1> QED BY <1>2, <1>3, <1>4, <1>5, <1>6 DEF HostInv, OneDownload

(* A process that ends, or is killed, where no file is touched. *)
LEMMA ProvStops ==
    ASSUME HostInv, UNCHANGED <<fileVars, cal, srv, port, tui>>, NEW p \in Provs,
           NEW l \in {"failed", "done"}, ProvEnd(p, l)
    PROVE  HostInv'
  <1>1. HostTypeOK /\ l \in ProvLabels
      BY DEF HostInv, ProvLabels
  <1>2. ProvIs(p, l, None, 0, "ok", None)
      BY <1>1, ProvEnds, KeptTypes
  <1>3. CalOK' /\ (cal' \in Models => Present(cal'))
      BY <1>1, KeptTypes DEF HostInv, Calibrated
  <1> QED BY <1>1, <1>2, <1>3, ProvMoves

(* A provision starts: the file is there, is fetched, or it fails. *)
LEMMA ResolveKeeps ==
    ASSUME HostInv, NEW p \in Provs, resolveOrDownload(p)
    PROVE  HostInv'
  <1>0. HostTypeOK /\ UNCHANGED <<fileVars, cal, srv, port, tui>> /\ prov[p].runs > 0
      BY DEF HostInv, resolveOrDownload
  <1>1. PICK next \in {"failed", "get", "seed"}, g \in Side \cup {Wanted}, pin \in CtxPins[p] :
           /\ next = "seed" => g \in Side \/ (dest # None /\ Full(dest))
           /\ next = "get" => g = Wanted
           /\ prov' = [prov EXCEPT ![p] = [NewProv EXCEPT !.pc = next, !.pin = pin, !.gguf = g,
                                               !.runs = prov[p].runs - 1]]
      BY DEF resolveOrDownload
  <1> DEFINE new == [NewProv EXCEPT !.pc = next, !.pin = pin, !.gguf = g, !.runs = prov[p].runs - 1]
  <1>2. prov[p].runs \in Nat /\ Len(inode') \in Nat /\ FilesOK' /\ Len(inode') >= Len(inode)
      BY <1>0, KeptTypes, TypeParts DEF ProvsOK, FilesOK, ProvRec
  <1>3. /\ prov[p].runs - 1 \in Nat /\ 0 \in 0..Len(inode') /\ 0 \in 0..Chunks
        /\ g \in Side \cup {0, Wanted} /\ next \in ProvLabels /\ pin \in Pins
      BY <1>0, <1>2, HostAssumption DEF ProvLabels
  <1>4. /\ new \in ProvRec(Len(inode')) /\ new.pc = next /\ new.fd = None /\ new.off = 0
        /\ new.sum = "ok" /\ new.gguf = g
      BY <1>3 DEF NewProv, ProvRec, None
  <1>5. prov' = [prov EXCEPT ![p] = new]
      BY <1>1
  <1> HIDE DEF new
  <1>6. ProvIs(p, next, None, 0, "ok", g)
      BY <1>0, <1>2, <1>4, <1>5, ProvReplaced DEF ProvIs
  <1>7. next = "seed" => g \in Models /\ Present(g)
      BY <1>1, CatalogTypes DEF Present
  <1>8. CalOK' /\ (cal' \in Models => Present(cal'))
      BY <1>0, KeptTypes DEF HostInv, Calibrated
  <1> QED BY <1>0, <1>1, <1>3, <1>6, <1>7, <1>8, ProvMoves

(* A provision writes calibration.json, torn in between. *)
LEMMA SeedKeeps ==
    ASSUME HostInv, NEW p \in Provs, ProvSeed(p)
    PROVE  HostInv'
  <1>0. HostTypeOK /\ UNCHANGED <<fileVars, srv, port, tui>>
      BY DEF HostInv, ProvSeed
  <1>1. CASE ProvAt(p, "seed") /\ cal' = Torn /\ ProvTo(p, "write")
    <2>1. ProvIs(p, "write", prov[p].fd, prov[p].off, prov[p].sum, prov[p].gguf)
        BY <1>0, <1>1, ProvGoes, KeptTypes DEF ProvLabels
    <2>2. prov[p].gguf \in Models /\ Present(prov[p].gguf)
        BY <1>1 DEF HostInv, Calibrated, ProvAt
    <2>3. CalOK' /\ cal' # None /\ cal' \notin Models
        BY <1>1, CatalogTypes DEF CalOK
    <2> QED BY <1>0, <2>1, <2>2, <2>3, ProvMoves DEF ProvLabels
  <1>2. CASE ProvAt(p, "write") /\ cal' = prov[p].gguf /\ ProvTo(p, "serve")
    <2>1. ProvIs(p, "serve", prov[p].fd, prov[p].off, prov[p].sum, prov[p].gguf)
        BY <1>0, <1>2, ProvGoes, KeptTypes DEF ProvLabels
    <2>2. cal' \in Models /\ Present(cal')
        BY <1>2 DEF HostInv, Calibrated, ProvAt
    <2>3. prov[p].gguf \in Side \cup {None, Wanted}
        BY <1>0, TypeParts DEF ProvsOK, ProvRec
    <2>4. CalOK' /\ cal' # None
        BY <1>2, <2>2, <2>3, CatalogTypes DEF CalOK
    <2> QED BY <1>0, <2>1, <2>2, <2>4, ProvMoves DEF ProvLabels
  <1>3. CASE ProvEnd(p, "failed") /\ UNCHANGED cal
      BY <1>0, <1>3, ProvStops
  <1> QED BY <1>1, <1>2, <1>3 DEF ProvSeed

(* A launch: the new server has the window of the calibrated model.  What  *)
(* the others know of servers stays so.                                    *)
LEMMA LaunchKeeps ==
    ASSUME HostInv, NEW w, NEW pin, LaunchedBy(w, pin), cal \in Models
    PROVE  Served' /\ Steady /\ (Mapped => Mapped')
  <1>1. Present(cal)
      BY DEF HostInv, Calibrated
  <1>2. Window(pin, cal, Present(cal), RAM) = ServedWith(pin, cal)
      BY <1>1 DEF ServedWith, Window, fitCtxSize
  <1>3. Steady
      BY DEF LaunchedBy, Steady
  <1>4. Served'
      BY <1>2 DEF LaunchedBy, HostInv, Served
  <1>5. Mapped => Mapped'
      BY DEF LaunchedBy, Mapped
  <1> QED BY <1>3, <1>4, <1>5

(* A TUI's record stays well-typed when there are more servers. *)
LEMMA TuisGrow ==
    ASSUME HostTypeOK, UNCHANGED tui, ServersOK', Len(srv') >= Len(srv)
    PROVE  TuisOK'
  <1>1. Len(srv) \in Nat /\ Len(srv') \in Nat
      BY TypeParts DEF ServersOK
  <1>2. \A r \in TuiRec(Len(srv)) : r \in TuiRec(Len(srv'))
    <2>1. \A k \in 0..Len(srv) : k \in 0..Len(srv')
        BY <1>1
    <2> HIDE <1>1
    <2> QED BY <2>1 DEF TuiRec
  <1> QED BY <1>2, TypeParts DEF TuisOK

(* A provision starts a server and leaves it to itself. *)
LEMMA ServeKeeps ==
    ASSUME HostInv, NEW p \in Provs, ProvServe(p)
    PROVE  HostInv'
  <1>0. HostTypeOK /\ UNCHANGED <<fileVars, cal, port, tui>> /\ prov[p].pc = "serve"
      BY DEF HostInv, ProvServe, ProvAt
  <1>1. CASE ProvEnd(p, "failed") /\ UNCHANGED srv
      BY <1>0, <1>1, ProvStops
  <1>2. CASE cal # Torn /\ Launch(p, prov[p].pin) /\ ProvTo(p, "poll")
    <2>1. cal \in Models
        BY <1>0, <1>2, TypeParts, CatalogTypes DEF HostInv, Calibrated, CalOK
    <2>a. prov[p].pin \in Pins
        BY <1>0, TypeParts DEF ProvsOK, ProvRec
    <2>2. LaunchedBy(p, prov[p].pin)
        BY <1>0, <1>2, <2>a, Launches
    <2>3. Served' /\ Steady /\ (Mapped => Mapped')
        BY <2>1, <2>2, LaunchKeeps
    <2>4. ProvIs(p, "poll", prov[p].fd, prov[p].off, prov[p].sum, prov[p].gguf)
        BY <1>0, <1>2, ProvGoes, KeptTypes DEF ProvLabels
    <2>5. HostTypeOK'
      <3>1. TuisOK'
          BY <1>0, <2>2, TuisGrow DEF LaunchedBy
      <3> QED BY <1>0, <2>2, <2>4, <3>1, KeptTypes, TypePartsNext DEF ProvIs, LaunchedBy
    <2>6. \A q \in Provs : q # p => prov'[q] = prov[q]
        BY <2>4 DEF ProvIs
    <2>7. Opened'
        BY <2>4 DEF HostInv, Opened, ProvIs
    <2>8. Calibrated'
      <3>1. \A m : Present(m)' <=> Present(m)
          BY <1>0 DEF fileVars, Present
      <3> QED BY <1>0, <2>4, <2>6, <3>1 DEF HostInv, Calibrated, ProvIs
    <2>9. Told'
        BY <1>0, <2>3, ToldKept DEF HostInv
    <2>10. NiceExecs => ServersHaveKeepers'
      <3>1. p \notin Tuis
          BY HostAssumption
      <3> QED BY <1>0, <2>2, <3>1 DEF HostInv, ServersHaveKeepers, LaunchedBy
    <2>11. OneDownload => Whole' /\ Written' /\ Mapped'
      <3>1. OneDownload => Whole' /\ Mapped'
          BY <1>0, <2>3 DEF HostInv, fileVars, Whole, Intact, Full
      <3>2. OneDownload => Written'
          BY <1>0, <2>4, <2>6 DEF HostInv, fileVars, Written, ProvIs
      <3> QED BY <3>1, <3>2
    <2> QED BY <2>3, <2>5, <2>7, <2>8, <2>9, <2>10, <2>11 DEF HostInv, OneDownload
  <1> QED BY <1>1, <1>2 DEF ProvServe

(* A file changes: no server, no TUI and no calibration does.              *)
LEMMA FileStep ==
    ASSUME HostInv, UNCHANGED <<cal, srv, port, tui>>, FilesOK', ProvsOK',
           dest # None => dest' # None,
           NEW p \in Provs, \A q \in Provs \ {p} : prov'[q] = prov[q],
           prov'[p].pc = "copy" => prov'[p].fd # None,
           prov'[p].pc \in {"failed", "copy", "seed"},
           prov'[p].pc \in {"copy", "seed"} => prov'[p].gguf = Wanted,
           prov'[p].pc = "seed" => dest' # None,
           OneDownload => Whole' /\ Written'
    PROVE  HostInv'
  <1>1. HostTypeOK /\ \A q \in Provs : q # p => prov'[q] = prov[q]
      BY DEF HostInv
  <1>2. HostTypeOK'
      BY <1>1, KeptTypes, TypePartsNext
  <1>3. Opened'
      BY <1>1 DEF HostInv, Opened
  <1>4. Calibrated'
    <2>1. \A m : Present(m) => Present(m)'
        BY DEF Present
    <2>2. dest' # None => Present(Wanted)'
        BY DEF Present
    <2> QED BY <1>1, <2>1, <2>2, CatalogTypes DEF HostInv, Calibrated
  <1>5. Served' /\ Told' /\ (NiceExecs => ServersHaveKeepers') /\ (OneDownload => Mapped')
      BY ServerFrame DEF HostInv
  <1> QED BY <1>2, <1>3, <1>4, <1>5 DEF HostInv, OneDownload

(* A download opens its .part file: a new inode, or one that is truncated. *)
LEMMA OpenPartKeeps ==
    ASSUME HostInv, NEW p \in Provs, OpenPart(p)
    PROVE  HostInv'
  <1>0. /\ HostTypeOK /\ UNCHANGED <<cal, srv, port, tui>> /\ prov[p].pc = "get"
        /\ prov[p].gguf = Wanted
      BY DEF HostInv, OpenPart, ProvAt, Calibrated
  <1>1. CASE ProvEnd(p, "failed") /\ UNCHANGED fileVars
      BY <1>0, <1>1, ProvStops
  <1> DEFINE free == {k \in 1..Len(inode) + 1 : k # dest /\ \A q \in Provs : prov[q].fd # k}
             i == IF part = None THEN Min(free) ELSE part
  <1>2. CASE /\ part' = i
             /\ inode' = IF i > Len(inode) THEN Append(inode, <<>>) ELSE [inode EXCEPT ![i] = <<>>]
             /\ prov' = [prov EXCEPT ![p].pc = "copy", ![p].fd = i]
             /\ UNCHANGED dest
    <2>1. /\ inode \in Seq(Seq(Pieces)) /\ dest \in 0..Len(inode) /\ part \in 0..Len(inode)
          /\ Len(inode) \in Nat /\ prov \in [Provs -> ProvRec(Len(inode))]
          /\ \A q \in Provs : prov[q].fd \in 0..Len(inode)
      <3>1. /\ inode \in Seq(Seq(Pieces)) /\ dest \in 0..Len(inode) /\ part \in 0..Len(inode)
            /\ prov \in [Provs -> ProvRec(Len(inode))]
          BY <1>0, TypeParts DEF FilesOK, ProvsOK
      <3>2. \A q \in Provs : prov[q].fd \in 0..Len(inode)
          BY <3>1 DEF ProvRec
      <3> QED BY <3>1, <3>2
    <2>2. /\ i \in 1..Len(inode) + 1
          /\ part # None => i = part
          /\ part = None => i # dest
      <3>1. free \in SUBSET Nat /\ free # {}
        <4>1. Len(inode) + 1 \in free
            BY <2>1
        <4>2. free \in SUBSET Nat
            BY <2>1
        <4> QED BY <4>1, <4>2
      <3>2. Min(free) \in free
        <4> HIDE DEF free
        <4>1. \E x \in free : \A y \in free : x <= y
            BY <3>1, LeastNat
        <4> QED BY <4>1 DEF Min
      <3>3. CASE part = None
          BY <2>1, <3>2, <3>3
      <3>4. CASE part # None
          BY <2>1, <3>4 DEF None
      <3> QED BY <3>3, <3>4
    <2> HIDE DEF i
    <2>3. /\ inode' \in Seq(Seq(Pieces)) /\ Len(inode') >= Len(inode) /\ Len(inode') \in Nat
          /\ i \in 1..Len(inode') /\ inode'[i] = <<>>
          /\ \A k \in 1..Len(inode) : k # i => inode'[k] = inode[k]
      <3>0. <<>> \in Seq(Pieces)
          OBVIOUS
      <3>1. CASE i > Len(inode)
        <4>1. inode' = Append(inode, <<>>) /\ i = Len(inode) + 1
            BY <1>2, <2>1, <2>2, <3>1
        <4>2. /\ inode' \in Seq(Seq(Pieces)) /\ Len(inode') = Len(inode) + 1
              /\ inode'[Len(inode) + 1] = <<>>
              /\ \A k \in 1..Len(inode) : inode'[k] = inode[k]
            BY <2>1, <3>0, <4>1, Extend
        <4> QED BY <2>1, <4>1, <4>2
      <3>2. CASE ~(i > Len(inode))
        <4>1. inode' = [inode EXCEPT ![i] = <<>>] /\ i \in 1..Len(inode)
            BY <1>2, <2>1, <2>2, <3>2
        <4>2. /\ inode' \in Seq(Seq(Pieces)) /\ Len(inode') = Len(inode) /\ inode'[i] = <<>>
              /\ \A k \in 1..Len(inode) : k # i => inode'[k] = inode[k]
            BY <2>1, <3>0, <4>1, Replace
        <4> QED BY <2>1, <4>1, <4>2
      <3> QED BY <3>1, <3>2
    <2>4. FilesOK'
        BY <1>2, <2>1, <2>3 DEF FilesOK
    <2> DEFINE new == [prov[p] EXCEPT !.pc = "copy", !.fd = i]
    <2>5. prov' = [prov EXCEPT ![p] = new]
        BY <1>2, <2>1
    <2>6. /\ new \in ProvRec(Len(inode')) /\ new.pc = "copy" /\ new.fd = i
          /\ new.off = prov[p].off /\ new.sum = prov[p].sum /\ new.gguf = prov[p].gguf
      <3>1. prov[p] \in ProvRec(Len(inode)) /\ i \in 0..Len(inode')
          BY <2>1, <2>3
      <3> QED BY <3>1 DEF ProvRec, ProvLabels
    <2> HIDE DEF new
    <2>7. ProvsOK' /\ prov'[p] = new /\ \A q \in Provs \ {p} : prov'[q] = prov[q]
        BY <1>0, <2>3, <2>4, <2>5, <2>6, ProvReplaced
    <2>8. i # None /\ (OneDownload /\ dest # None => i # dest)
        BY <2>1, <2>2 DEF HostInv, Whole, None
    <2>9. OneDownload => Whole'
      <3> SUFFICES ASSUME OneDownload, dest # None PROVE Intact(dest)' /\ part' # dest'
          BY <1>2 DEF Whole
      <3>1. dest \in 1..Len(inode) /\ dest # i
          BY <2>1, <2>8 DEF None
      <3>2. inode'[dest] = inode[dest]
          BY <2>3, <3>1
      <3> QED BY <1>2, <3>1, <3>2 DEF HostInv, Whole, Intact, Full
    <2>10. OneDownload => Written'
      <3> SUFFICES ASSUME OneDownload PROVE Written'
          OBVIOUS
      <3>1. prov[p].off = 0 /\ prov[p].sum = "ok"
          BY <1>0 DEF HostInv, Written
      <3>2. /\ prov'[p].pc = "copy" /\ prov'[p].fd = i /\ i # None /\ part' = i
            /\ inode'[part'] = <<>> /\ prov'[p].off = 0
          BY <1>2, <2>3, <2>6, <2>7, <2>8, <3>1
      <3>3. Len(<<>>) = 0 /\ \A k \in 1..0 : FALSE
          OBVIOUS
      <3>4. \A q \in Provs : q = p
          BY DEF OneDownload
      <3> QED BY <3>2, <3>3, <3>4 DEF Written
    <2> QED BY <1>0, <1>2, <2>4, <2>6, <2>7, <2>8, <2>9, <2>10, FileStep
  <1> QED BY <1>1, <1>2 DEF OpenPart

(* A piece of the stream is written to the inode that was opened. *)
LEMMA CopyPieceKeeps ==
    ASSUME HostInv, NEW p \in Provs, CopyPiece(p)
    PROVE  HostInv'
  <1>0. /\ HostTypeOK /\ UNCHANGED <<dest, part, cal, srv, port, tui>> /\ prov[p].pc = "copy"
        /\ prov[p].gguf = Wanted /\ prov[p].fd # None /\ prov[p].off < Chunks
      BY DEF HostInv, CopyPiece, ProvAt, Calibrated, Opened
  <1>1. PICK piece \in {"ok", "bad"} :
           /\ inode' = [inode EXCEPT ![prov[p].fd] = WriteAt(@, prov[p].off, piece)]
           /\ prov' = [prov EXCEPT ![p].off = @ + 1,
                           ![p].sum = IF piece = "ok" THEN @ ELSE "bad"]
      BY DEF CopyPiece
  <1> DEFINE f == prov[p].fd
             o == prov[p].off
             bytes == inode[f]
             w == WriteAt(bytes, o, piece)
             sm == IF piece = "ok" THEN prov[p].sum ELSE "bad"
             new == [prov[p] EXCEPT !.off = o + 1, !.sum = sm]
  <1>2. /\ inode \in Seq(Seq(Pieces)) /\ dest \in 0..Len(inode) /\ part \in 0..Len(inode)
        /\ prov \in [Provs -> ProvRec(Len(inode))] /\ prov[p] \in ProvRec(Len(inode))
      BY <1>0, TypeParts DEF FilesOK, ProvsOK
  <1>3. /\ f \in 1..Len(inode) /\ o \in Nat /\ o + 1 \in 0..Chunks /\ sm \in {"ok", "bad"}
    <2>1. f \in 0..Len(inode) /\ o \in 0..Chunks /\ prov[p].sum \in {"ok", "bad"}
        BY <1>2 DEF ProvRec
    <2>2. f \in 1..Len(inode)
        BY <1>0, <1>2, <2>1 DEF None
    <2>3. o + 1 \in 0..Chunks
        BY <1>0, <2>1, HostAssumption
    <2> QED BY <2>1, <2>2, <2>3, HostAssumption
  <1>4. bytes \in Seq(Pieces)
      BY <1>2, <1>3
  <1>5. inode' = [inode EXCEPT ![f] = w]
      BY <1>1
  <1>6. prov' = [prov EXCEPT ![p] = new]
      BY <1>1, <1>2
  <1>7. /\ new \in ProvRec(Len(inode)) /\ new.pc = "copy" /\ new.fd = f /\ new.off = o + 1
        /\ new.sum = sm /\ new.gguf = Wanted
    <2> HIDE DEF sm, o, f
    <2>1. f = prov[p].fd BY DEF f
    <2> QED BY <1>0, <1>2, <1>3, <2>1 DEF ProvRec
  <1>8. /\ w \in Seq(Pieces)
        /\ Len(bytes) = o => Len(w) = o + 1 /\ w[o + 1] = piece /\ \A k \in 1..o : w[k] = bytes[k]
    <2> HIDE DEF bytes, o
    <2> DEFINE n == IF o + 1 > Len(bytes) THEN o + 1 ELSE Len(bytes)
               e(k) == IF k = o + 1 THEN piece ELSE IF k <= Len(bytes) THEN bytes[k] ELSE "hole"
    <2>1. w = [k \in 1..n |-> e(k)]
        BY DEF WriteAt
    <2>2. n \in Nat /\ Len(bytes) \in Nat
        BY <1>3, <1>4
    <2>3. \A k \in 1..n : e(k) \in Pieces
        BY <1>3, <1>4, <2>2 DEF Pieces
    <2>4. w \in Seq(Pieces) /\ Len(w) = n
      <3> HIDE DEF n, e, w
      <3> QED BY <2>1, <2>2, <2>3
    <2>5. Len(bytes) = o => n = o + 1
        BY <1>3
    <2>6. \A k \in 1..n : w[k] = e(k)
        BY <2>1
    <2>7. ASSUME Len(bytes) = o
          PROVE  Len(w) = o + 1 /\ w[o + 1] = piece /\ \A k \in 1..o : w[k] = bytes[k]
      <3> HIDE DEF w
      <3>1. n = o + 1
          BY <2>5, <2>7
      <3>2. \A k \in 1..o + 1 : w[k] = e(k)
          BY <2>6, <3>1
      <3>3. o + 1 \in 1..o + 1 /\ \A k \in 1..o : k \in 1..o + 1 /\ k # o + 1 /\ k <= o
          BY <1>3
      <3> HIDE DEF n
      <3> QED BY <2>4, <2>7, <3>1, <3>2, <3>3
    <2> QED BY <2>4, <2>7
  <1> HIDE DEF w, new
  <1>9. /\ inode' \in Seq(Seq(Pieces)) /\ Len(inode') = Len(inode) /\ inode'[f] = w
        /\ \A k \in 1..Len(inode) : k # f => inode'[k] = inode[k]
      BY <1>2, <1>3, <1>5, <1>8, Replace
  <1>10. FilesOK' /\ Len(inode') >= Len(inode)
      BY <1>0, <1>2, <1>9 DEF FilesOK
  <1>11. ProvsOK' /\ prov'[p] = new /\ \A q \in Provs \ {p} : prov'[q] = prov[q]
      BY <1>0, <1>6, <1>7, <1>9, <1>10, ProvReplaced
  <1>12. OneDownload => f = part /\ Len(bytes) = o
                        /\ (prov[p].sum = "ok" => \A k \in 1..o : bytes[k] = "ok")
      BY <1>0 DEF HostInv, Written
  <1>13. OneDownload => Whole'
    <2> SUFFICES ASSUME OneDownload, dest # None PROVE Intact(dest)' /\ part' # dest'
        BY <1>0 DEF Whole
    <2>1. dest \in 1..Len(inode) /\ dest # f
        BY <1>2, <1>12 DEF None, HostInv, Whole
    <2>2. inode'[dest] = inode[dest]
        BY <1>9, <2>1
    <2> QED BY <1>0, <2>1, <2>2 DEF HostInv, Whole, Intact, Full
  <1>14. OneDownload => Written'
    <2> SUFFICES ASSUME OneDownload PROVE Written'
        OBVIOUS
    <2>1. /\ prov'[p].pc = "copy" /\ prov'[p].fd = f /\ f # None /\ part' = f
          /\ prov'[p].off = o + 1 /\ prov'[p].sum = sm /\ inode'[part'] = w
        BY <1>0, <1>7, <1>9, <1>11, <1>12
    <2>2. Len(w) = o + 1 /\ w[o + 1] = piece /\ \A k \in 1..o : w[k] = bytes[k]
        BY <1>8, <1>12
    <2>3. sm = "ok" => \A k \in 1..o + 1 : w[k] = "ok"
      <3>1. sm = "ok" => piece = "ok" /\ prov[p].sum = "ok"
          OBVIOUS
      <3>2. \A k \in 1..o + 1 : k = o + 1 \/ k \in 1..o
          BY <1>3
      <3> HIDE DEF sm, bytes, o
      <3>3. prov[p].sum = "ok" => \A k \in 1..o : bytes[k] = "ok"
          BY <1>12
      <3> QED BY <2>2, <3>1, <3>2, <3>3
    <2>4. \A q \in Provs : q = p
        BY DEF OneDownload
    <2> HIDE DEF sm, o, f
    <2>5. Len(inode'[part']) = prov'[p].off
        BY <2>1, <2>2
    <2>6. prov'[p].sum = "ok" => \A k \in 1..prov'[p].off : inode'[part'][k] = "ok"
        BY <2>1, <2>3
    <2>7. prov'[p].fd # None /\ prov'[p].fd = part'
        BY <2>1
    <2> QED BY <2>1, <2>4, <2>5, <2>6, <2>7 DEF Written
  <1> QED BY <1>0, <1>7, <1>10, <1>11, <1>13, <1>14, FileStep

(* A download ends: the digest of the stream, the size and the rename. *)
LEMMA CommitKeeps ==
    ASSUME HostInv, NEW p \in Provs, CommitDownload(p)
    PROVE  HostInv'
  <1>0. /\ HostTypeOK /\ UNCHANGED <<cal, srv, port, tui>> /\ prov[p].pc = "copy"
        /\ prov[p].gguf = Wanted /\ prov[p].fd # None
      BY DEF HostInv, CommitDownload, ProvAt, Calibrated, Opened
  <1>1. /\ inode \in Seq(Seq(Pieces)) /\ dest \in 0..Len(inode) /\ part \in 0..Len(inode)
        /\ Len(inode) \in Nat /\ prov[p].fd \in 1..Len(inode)
    <2>1. /\ inode \in Seq(Seq(Pieces)) /\ dest \in 0..Len(inode) /\ part \in 0..Len(inode)
          /\ prov[p] \in ProvRec(Len(inode))
        BY <1>0, TypeParts DEF FilesOK, ProvsOK
    <2>2. prov[p].fd \in 0..Len(inode)
        BY <2>1 DEF ProvRec
    <2> QED BY <1>0, <2>1, <2>2 DEF None
  <1>2. CASE /\ part' = None
             /\ inode' = IF prov[p].fd = dest THEN inode ELSE [inode EXCEPT ![prov[p].fd] = <<>>]
             /\ UNCHANGED dest
             /\ ProvEnd(p, "failed")
    <2>0. <<>> \in Seq(Pieces)
        OBVIOUS
    <2>1. /\ inode' \in Seq(Seq(Pieces)) /\ Len(inode') = Len(inode)
          /\ dest # None => inode'[dest] = inode[dest]
      <3>1. CASE prov[p].fd = dest
          BY <1>1, <1>2, <3>1
      <3>2. CASE prov[p].fd # dest
        <4>1. inode' = [inode EXCEPT ![prov[p].fd] = <<>>]
            BY <1>2, <3>2
        <4>2. /\ inode' \in Seq(Seq(Pieces)) /\ Len(inode') = Len(inode)
              /\ \A k \in 1..Len(inode) : k # prov[p].fd => inode'[k] = inode[k]
            BY <1>1, <2>0, <4>1, Replace
        <4> QED BY <1>1, <3>2, <4>2 DEF None
      <3> QED BY <3>1, <3>2
    <2>2. FilesOK' /\ Len(inode') >= Len(inode)
        BY <1>1, <1>2, <2>1 DEF FilesOK, None
    <2>3. ProvIs(p, "failed", None, 0, "ok", None)
        BY <1>0, <1>2, <2>2, ProvEnds DEF ProvLabels
    <2>4. OneDownload => Whole'
        BY <1>2, <2>1 DEF HostInv, Whole, Intact, Full
    <2>5. OneDownload => Written'
        BY <2>3 DEF OneDownload, Written, ProvIs
    <2> QED BY <1>0, <1>2, <2>2, <2>3, <2>4, <2>5, FileStep DEF ProvIs
  <1>3. CASE /\ prov[p].off = Chunks /\ prov[p].sum = "ok"
             /\ part' = None
             /\ part # None /\ dest' = part /\ ProvTo(p, "seed")
             /\ UNCHANGED inode
    <2>1. FilesOK' /\ Len(inode') >= Len(inode)
        BY <1>1, <1>3 DEF FilesOK, None
    <2>2. ProvIs(p, "seed", prov[p].fd, prov[p].off, prov[p].sum, prov[p].gguf)
        BY <1>0, <1>3, <2>1, ProvGoes DEF ProvLabels
    <2>3. OneDownload => Whole'
      <3>1. OneDownload => Len(inode[part]) = Chunks /\ \A k \in 1..Chunks : inode[part][k] = "ok"
          BY <1>0, <1>3 DEF HostInv, Written
      <3> QED BY <1>3, <3>1 DEF Whole, Intact, Full
    <2>4. OneDownload => Written'
        BY <2>2 DEF OneDownload, Written, ProvIs
    <2> QED BY <1>0, <1>3, <2>1, <2>2, <2>3, <2>4, FileStep DEF ProvIs
  <1>4. CASE /\ part' = None /\ part = None /\ UNCHANGED <<dest, inode>> /\ ProvEnd(p, "failed")
      BY <1>0, <1>4, ProvStops DEF fileVars
  <1> QED BY <1>2, <1>3, <1>4 DEF CommitDownload

-----------------------------------------------------------------------------
(* Bare aegis.                                                             *)

(* A TUI moves and no file, server or provision process does. *)
LEMMA TuiMoves ==
    ASSUME HostInv, UNCHANGED <<fileVars, prov, srv, port>>, CalOK',
           NEW t \in Tuis, NEW l, NEW c, NEW o, NEW s, NEW v, NEW w,
           TuiIs(t, l, c, o, s, v, w),
           l = "seed" => c \in Models /\ Present(c),
           l \in {"seed", "start"} => cal' # None,
           cal # None => cal' # None,
           cal' \in Models => Present(cal'),
           \/ tui[t].pc \notin {"poll", "window", "open"}
           \/ o = tui[t].own /\ l \in {"poll", "window", "open"},
           ToldOf(t)'
    PROVE  HostInv'
  <1>1. HostTypeOK /\ \A q \in Tuis : q # t => tui'[q] = tui[q]
      BY DEF HostInv, TuiIs
  <1>2. HostTypeOK'
      BY <1>1, KeptTypes, TypePartsNext DEF TuiIs
  <1>3. Opened' /\ (OneDownload => Whole' /\ Written' /\ Mapped')
      BY FileFrame DEF HostInv, Mapped, Servers
  <1>4. Calibrated'
    <2>1. \A m : Present(m)' <=> Present(m)
        BY DEF fileVars, Present
    <2> QED BY <1>1, <2>1 DEF HostInv, Calibrated, TuiIs
  <1>5. Served' /\ Steady
      BY DEF HostInv, Served, Steady, Servers
  <1>6. Told'
      BY <1>1, <1>5, ToldStep DEF HostInv
  <1>7. NiceExecs => ServersHaveKeepers'
      BY <1>1 DEF HostInv, ServersHaveKeepers, Servers, TuiIs
  <1> QED BY <1>2, <1>3, <1>4, <1>5, <1>6, <1>7 DEF HostInv, OneDownload

(* A TUI that only goes to another place. *)
LEMMA TuiWalks ==
    ASSUME HostInv, UNCHANGED <<fileVars, prov, srv, port>>, CalOK', NEW t \in Tuis,
           NEW l \in {"resolve", "fallback", "window"}, TuiTo(t, l),
           cal # None => cal' # None,
           cal' \in Models => Present(cal'),
           \/ tui[t].pc \notin {"poll", "window", "open"}
           \/ l = "window"
    PROVE  HostInv'
  <1>1. HostTypeOK /\ l \in TuiLabels
      BY DEF HostInv, TuiLabels
  <1>2. TuiIs(t, l, tui[t].cal, tui[t].own, tui[t].seen, tui[t].via, tui[t].window)
      BY <1>1, TuiGoes, KeptTypes
  <1>3. ToldOf(t)'
      BY <1>2 DEF TuiIs, ToldOf
  <1> QED BY <1>2, <1>3, TuiMoves

(* A TUI whose bring-up fails before it has a server of its own. *)
LEMMA TuiFails ==
    ASSUME HostInv, UNCHANGED <<fileVars, prov, cal, srv, port>>, NEW t \in Tuis,
           TuiEnd(t, "failed"), tui[t].pc \notin {"poll", "window", "open"}
    PROVE  HostInv'
  <1>1. HostTypeOK /\ CalOK' /\ (cal' \in Models => Present(cal'))
      BY KeptTypes DEF HostInv, Calibrated
  <1>2. TuiIs(t, "failed", None, None, None, "none", 0)
      BY <1>1, TuiEnds, KeptTypes DEF TuiLabels
  <1>3. ToldOf(t)'
      BY <1>2 DEF TuiIs, ToldOf
  <1> QED BY <1>1, <1>2, <1>3, TuiMoves

(* A TUI starts. *)
LEMMA cmdTUIKeeps ==
    ASSUME HostInv, NEW t \in Tuis, cmdTUI(t)
    PROVE  HostInv'
  <1>0. /\ HostTypeOK /\ UNCHANGED <<fileVars, prov, cal, srv, port>>
        /\ tui[t].pc \in {"idle", "failed"} /\ tui[t].runs > 0
      BY DEF HostInv, cmdTUI
  <1>1. /\ CalOK' /\ (cal' \in Models => Present(cal')) /\ ServersOK' /\ Len(srv') >= Len(srv)
      BY <1>0, KeptTypes DEF HostInv, Calibrated
  <1>a. PICK pin \in CtxPins[t] :
           tui' = [tui EXCEPT ![t] = [NewTui EXCEPT !.pc = "probe", !.pin = pin,
                                          !.runs = tui[t].runs - 1]]
      BY DEF cmdTUI
  <1> DEFINE new == [NewTui EXCEPT !.pc = "probe", !.pin = pin, !.runs = tui[t].runs - 1]
  <1>2. tui[t].runs \in Nat /\ Len(srv') \in Nat
      BY <1>0, <1>1, TypeParts DEF TuisOK, ServersOK, TuiRec
  <1>3. tui[t].runs - 1 \in Nat /\ 0 \in 0..Len(srv') /\ 0 \in Models \cup {0} /\ 0 \in Nat
        /\ pin \in Pins
      BY <1>0, <1>2, HostAssumption
  <1>4. new \in TuiRec(Len(srv')) /\ new.pc = "probe" /\ new.cal = None /\ new.own = None
        /\ new.seen = None /\ new.via = "none" /\ new.window = 0
      BY <1>3 DEF NewTui, TuiRec, None, TuiLabels
  <1>5. tui' = [tui EXCEPT ![t] = new]
      BY <1>a
  <1> HIDE DEF new
  <1>6. TuiIs(t, "probe", None, None, None, "none", 0)
      BY <1>0, <1>1, <1>4, <1>5, TuiReplaced DEF TuiIs
  <1>7. ToldOf(t)'
      BY <1>6 DEF TuiIs, ToldOf
  <1> QED BY <1>0, <1>1, <1>6, <1>7, TuiMoves

(* A TUI looks whether something is served already. *)
LEMMA ProbeKeeps ==
    ASSUME HostInv, NEW t \in Tuis, ProbeEndpoint(t)
    PROVE  HostInv'
  <1>0. /\ HostTypeOK /\ UNCHANGED <<fileVars, prov, cal, srv, port>> /\ tui[t].pc = "probe"
        /\ TuiTo(t, "window") \/ TuiTo(t, "resolve")
      BY DEF HostInv, ProbeEndpoint, TuiAt
  <1>1. CalOK' /\ (cal' \in Models => Present(cal'))
      BY <1>0, KeptTypes DEF HostInv, Calibrated
  <1> QED BY <1>0, <1>1, TuiWalks

(* A TUI resolves its model from the calibration and the files. *)
LEMMA ResolveModelKeeps ==
    ASSUME HostInv, NEW t \in Tuis, ResolveModel(t)
    PROVE  HostInv'
  <1>0. /\ HostTypeOK /\ UNCHANGED <<fileVars, prov, srv, port>> /\ tui[t].pc = "resolve"
        /\ ServersOK' /\ Len(srv') >= Len(srv)
      BY KeptTypes DEF HostInv, ResolveModel, TuiAt
  <1>1. CASE cal = Torn /\ TuiEnd(t, "failed") /\ UNCHANGED cal
      BY <1>0, <1>1, TuiFails
  (* With a model g the TUI goes to l. *)
  <1>2. ASSUME NEW g \in Models \cup {None}, NEW l \in {"fallback", "seed", "start"},
               tui' = [tui EXCEPT ![t].cal = g, ![t].pc = l],
               l = "seed" => g \in Models /\ Present(g),
               l \in {"seed", "start"} => cal' # None,
               CalOK', cal # None => cal' # None, cal' \in Models => Present(cal')
        PROVE  HostInv'
    <2> DEFINE new == [tui[t] EXCEPT !.cal = g, !.pc = l]
    <2>1. tui \in [Tuis -> TuiRec(Len(srv))] /\ tui[t] \in TuiRec(Len(srv')) /\ l \in TuiLabels
        BY <1>0, TypeParts DEF TuisOK, TuiLabels
    <2>2. new \in TuiRec(Len(srv')) /\ new.pc = l /\ new.cal = g /\ new.own = tui[t].own
          /\ new.seen = tui[t].seen /\ new.via = tui[t].via /\ new.window = tui[t].window
        BY <2>1 DEF TuiRec
    <2>3. tui' = [tui EXCEPT ![t] = new]
        BY <1>2, <2>1
    <2> HIDE DEF new
    <2>4. TuiIs(t, l, g, tui[t].own, tui[t].seen, tui[t].via, tui[t].window)
        BY <1>0, <2>2, <2>3, TuiReplaced DEF TuiIs
    <2>5. ToldOf(t)'
        BY <2>4 DEF TuiIs, ToldOf
    <2> QED BY <1>0, <1>2, <2>4, <2>5, TuiMoves
  <1>3. CASE /\ ~resolveCalibrationPath
             /\ resolveAnyModelGGUF # None /\ cal' = Torn
             /\ tui' = [tui EXCEPT ![t].pc = "seed", ![t].cal = resolveAnyModelGGUF]
    <2> DEFINE g == resolveAnyModelGGUF
    <2>1. g \in Models \cup {None} /\ g \in Models /\ Present(g)
        BY <1>3, AnyModel
    <2>2. tui' = [tui EXCEPT ![t].pc = "seed", ![t].cal = g]
        BY <1>3
    <2> HIDE DEF g
    <2>3. tui' = [tui EXCEPT ![t].cal = g, ![t].pc = "seed"]
      <3>1. tui \in [Tuis -> TuiRec(Len(srv))] /\ tui[t] \in TuiRec(Len(srv))
          BY <1>0, TypeParts DEF TuisOK
      <3>2. [tui[t] EXCEPT !.pc = "seed", !.cal = g] = [tui[t] EXCEPT !.cal = g, !.pc = "seed"]
          BY <3>1 DEF TuiRec
      <3>3. tui' = [tui EXCEPT ![t] = [tui[t] EXCEPT !.pc = "seed", !.cal = g]]
          BY <2>2, <3>1
      <3>4. [tui EXCEPT ![t].cal = g, ![t].pc = "seed"]
                = [tui EXCEPT ![t] = [tui[t] EXCEPT !.cal = g, !.pc = "seed"]]
          BY <3>1
      <3> QED BY <3>2, <3>3, <3>4, Zenon
    <2>4. CalOK' /\ cal' \notin Models /\ cal' # None
        BY <1>3, CatalogTypes DEF CalOK
    <2> QED BY <1>2, <2>1, <2>3, <2>4
  <1>5. CASE ~resolveCalibrationPath /\ TuiTo(t, "fallback") /\ UNCHANGED cal
    <2>1. CalOK' /\ (cal' \in Models => Present(cal'))
        BY <1>0, <1>5, KeptTypes DEF HostInv, Calibrated
    <2> QED BY <1>0, <1>5, <2>1, TuiWalks
  <1>4. CASE /\ cal \in Models
             /\ tui' = [tui EXCEPT ![t].cal = cal,
                           ![t].pc = IF Present(cal) THEN "start" ELSE "fallback"]
             /\ UNCHANGED cal
    <2> DEFINE l == IF Present(cal) THEN "start" ELSE "fallback"
    <2>1. tui' = [tui EXCEPT ![t].cal = cal, ![t].pc = l]
        BY <1>4
    <2>2. l \in {"fallback", "seed", "start"} /\ l # "seed"
        OBVIOUS
    <2>3. CalOK' /\ cal' # None /\ (cal' \in Models => Present(cal'))
        BY <1>0, <1>4, KeptTypes, CatalogTypes DEF HostInv, Calibrated
    <2> HIDE DEF l
    <2> QED BY <1>2, <1>4, <2>1, <2>2, <2>3
  <1> QED BY <1>1, <1>3, <1>4, <1>5 DEF ResolveModel

(* A TUI writes calibration.json, torn in between. *)
LEMMA TuiSeedKeeps ==
    ASSUME HostInv, NEW t \in Tuis, TuiSeed(t)
    PROVE  HostInv'
  <1>0. /\ HostTypeOK /\ UNCHANGED <<fileVars, prov, srv, port>> /\ tui[t].pc = "seed"
        /\ tui[t].cal \in Models /\ Present(tui[t].cal)
      BY DEF HostInv, TuiSeed, TuiAt, Calibrated
  <1>1. CASE cal' = tui[t].cal /\ TuiTo(t, "resolve")
    <2>1. cal' \in Side \cup {Wanted}
        BY <1>0, <1>1 DEF Present
    <2>2. CalOK' /\ cal' # None /\ (cal' \in Models => Present(cal'))
        BY <1>0, <1>1, <2>1, CatalogTypes DEF CalOK
    <2> QED BY <1>0, <1>1, <2>2, TuiWalks
  <1>2. CASE TuiTo(t, "fallback") /\ UNCHANGED cal
    <2>1. CalOK' /\ (cal' \in Models => Present(cal'))
        BY <1>0, <1>2, KeptTypes DEF HostInv, Calibrated
    <2> QED BY <1>0, <1>2, <2>1, TuiWalks
  <1> QED BY <1>1, <1>2 DEF TuiSeed

(* The window the resolver computes for the calibration as it is. *)
LEMMA Resolved ==
    ASSUME HostInv, NEW m, m = Readable(cal), NEW pin \in Pins
    PROVE  /\ m \in Models \cup {None} /\ Window(pin, m, Present(m), RAM) \in Nat
           /\ m \in Models => Window(pin, m, Present(m), RAM) = ServedWith(pin, m)
  <1>1. cal \in Side \cup {None, Torn, Wanted}
      BY TypeParts DEF HostInv, CalOK
  <1>2. m \in Models \cup {None} /\ (m \in Models => m = cal)
      BY <1>1, CatalogTypes DEF Readable
  <1>3. m \in Models => Present(m)
      BY <1>2 DEF HostInv, Calibrated
  <1>4. Present(m) \in BOOLEAN
    <2>1. CASE m = Wanted
      <3>1. Present(m) = (dest # None) BY <2>1 DEF Present
      <3> QED BY <3>1
    <2>2. CASE m # Wanted
      <3>1. Present(m) = (m \in Side) BY <2>2 DEF Present
      <3> QED BY <3>1
    <2> QED BY <2>1, <2>2
  <1>5. m = None => ~Present(m)
      BY CatalogTypes DEF Present
  <1>6. Window(pin, m, Present(m), RAM) \in Nat
      BY <1>2, <1>4, <1>5, WindowNat
  <1>7. m \in Models => Window(pin, m, Present(m), RAM) = ServedWith(pin, m)
      BY <1>3 DEF ServedWith, Window, fitCtxSize
  <1> QED BY <1>2, <1>6, <1>7

(* The TUI opens, told w by v. *)
LEMMA Opens ==
    ASSUME HostInv, UNCHANGED <<fileVars, prov, cal, srv, port>>, NEW t \in Tuis,
           tui[t].pc \in {"fallback", "window"},
           NEW c \in Models \cup {None}, NEW s \in {tui[t].seen, port},
           NEW v \in {"props", "resolver"}, NEW w \in Nat,
           NEW new, tui' = [tui EXCEPT ![t] = new],
           new = [tui[t] EXCEPT !.pc = "open", !.seen = s, !.cal = c, !.via = v, !.window = w],
           v = "props" => s = port /\ w = srv[port].ctx,
           v = "resolver" /\ c \in Models => w = ServedWith(tui[t].pin, c)
    PROVE  HostInv'
  <1>1. /\ HostTypeOK /\ CalOK' /\ (cal' \in Models => Present(cal')) /\ ServersOK'
        /\ Len(srv') >= Len(srv)
      BY KeptTypes DEF HostInv, Calibrated
  <1>2. tui[t] \in TuiRec(Len(srv')) /\ s \in 0..Len(srv')
      BY <1>1, TypeParts DEF TuisOK, TuiRec, ServersOK
  <1>3. /\ new \in TuiRec(Len(srv')) /\ new.pc = "open" /\ new.cal = c /\ new.own = tui[t].own
        /\ new.seen = s /\ new.via = v /\ new.window = w /\ new.pin = tui[t].pin
      BY <1>2 DEF TuiRec, TuiLabels
  <1>4. TuiIs(t, "open", c, tui[t].own, s, v, w) /\ tui'[t].pin = tui[t].pin
      BY <1>1, <1>3, TuiReplaced DEF TuiIs
  <1>5. ToldOf(t)'
      BY <1>4 DEF TuiIs, ToldOf
  <1> QED BY <1>1, <1>4, <1>5, TuiMoves

(* A TUI without a server of its own falls back. *)
LEMMA FallbackKeeps ==
    ASSUME HostInv, NEW t \in Tuis, Fallback(t)
    PROVE  HostInv'
  <1>0. /\ HostTypeOK /\ UNCHANGED <<fileVars, prov, cal, srv, port>> /\ tui[t].pc = "fallback"
      BY DEF HostInv, Fallback, TuiAt
  <1>1. CASE TuiTo(t, "window")
    <2>1. CalOK' /\ (cal' \in Models => Present(cal'))
        BY <1>0, KeptTypes DEF HostInv, Calibrated
    <2> QED BY <1>0, <1>1, <2>1, TuiWalks
  <1> DEFINE m == Readable(cal)
             w == Window(tui[t].pin, m, Present(m), RAM)
  <1>2. CASE tui' = [tui EXCEPT ![t].pc = "open", ![t].via = "resolver", ![t].cal = m,
                         ![t].window = w]
    <2>1. m \in Models \cup {None} /\ w \in Nat /\ (m \in Models => w = ServedWith(tui[t].pin, m))
      <3>1. tui[t].pin \in Pins
          BY <1>0, TypeParts DEF TuisOK, TuiRec
      <3> QED BY <3>1, Resolved
    <2> HIDE DEF m, w
    <2>2. tui \in [Tuis -> TuiRec(Len(srv))] /\ tui[t] \in TuiRec(Len(srv))
        BY <1>0, TypeParts DEF TuisOK
    <2> DEFINE new == [tui[t] EXCEPT !.pc = "open", !.seen = tui[t].seen, !.cal = m,
                                     !.via = "resolver", !.window = w]
               had == [tui[t] EXCEPT !.pc = "open", !.via = "resolver", !.cal = m, !.window = w]
    <2>3. tui' = [tui EXCEPT ![t] = had]
        BY <1>2, <2>2
    <2>4. had = new
        BY <2>2 DEF TuiRec
    <2>5. tui' = [tui EXCEPT ![t] = new]
      <3> HIDE DEF had, new
      <3> QED BY <2>3, <2>4
    <2>6. PICK x : /\ tui' = [tui EXCEPT ![t] = x]
                   /\ x = [tui[t] EXCEPT !.pc = "open", !.seen = tui[t].seen, !.cal = m,
                                         !.via = "resolver", !.window = w]
        BY <2>5, Zenon
    <2> HIDE DEF new, had
    <2> QED BY <1>0, <2>1, <2>6, Opens
  <1> QED BY <1>1, <1>2 DEF Fallback

(* A TUI learns the window: from the server, or as the server would choose it. *)
LEMMA servedCtxSizeKeeps ==
    ASSUME HostInv, NEW t \in Tuis, servedCtxSize(t)
    PROVE  HostInv'
  <1>0. /\ HostTypeOK /\ UNCHANGED <<fileVars, prov, cal, srv, port>> /\ tui[t].pc = "window"
      BY DEF HostInv, servedCtxSize, TuiAt
  <1>a. tui \in [Tuis -> TuiRec(Len(srv))] /\ tui[t] \in TuiRec(Len(srv))
      BY <1>0, TypeParts DEF TuisOK
  <1> DEFINE m == Readable(cal)
             w == Window(tui[t].pin, m, Present(m), RAM)
  <1>1. CASE tui' = [tui EXCEPT ![t].pc = "open", ![t].seen = port, ![t].cal = m,
                         ![t].via = "resolver", ![t].window = w]
    <2>1. m \in Models \cup {None} /\ w \in Nat /\ (m \in Models => w = ServedWith(tui[t].pin, m))
      <3>1. tui[t].pin \in Pins
          BY <1>0, TypeParts DEF TuisOK, TuiRec
      <3> QED BY <3>1, Resolved
    <2> HIDE DEF m, w
    <2> DEFINE new == [tui[t] EXCEPT !.pc = "open", !.seen = port, !.cal = m,
                                     !.via = "resolver", !.window = w]
    <2>2. tui' = [tui EXCEPT ![t] = new]
        BY <1>a, <1>1
    <2>3. PICK x : /\ tui' = [tui EXCEPT ![t] = x]
                   /\ x = [tui[t] EXCEPT !.pc = "open", !.seen = port, !.cal = m,
                                         !.via = "resolver", !.window = w]
        BY <2>2, Zenon
    <2> HIDE DEF new
    <2> QED BY <1>0, <2>1, <2>3, Opens
  <1>2. CASE Ready /\ tui' = [tui EXCEPT ![t].pc = "open", ![t].seen = port, ![t].via = "props",
                                 ![t].window = ServedCtxSize]
    <2>1. ServedCtxSize \in Nat /\ ServedCtxSize = srv[port].ctx
      <3>1. srv \in Seq(SrvRec) /\ port \in 1..Len(srv)
          BY <1>0, <1>2, Known, TypeParts DEF ServersOK, Servers, Ready
      <3>2. srv[port] \in SrvRec
          BY <3>1
      <3> QED BY <3>2 DEF SrvRec, ServedCtxSize
    <2> DEFINE x0 == ServedCtxSize
               had == [tui[t] EXCEPT !.pc = "open", !.seen = port, !.via = "props", !.window = x0]
               new == [tui[t] EXCEPT !.pc = "open", !.seen = port, !.cal = tui[t].cal,
                                     !.via = "props", !.window = x0]
    <2>2. x0 \in Nat /\ x0 = srv[port].ctx /\ tui[t].cal \in Models \cup {None}
        BY <1>a, <2>1 DEF TuiRec
    <2>3. tui' = [tui EXCEPT ![t] = had]
        BY <1>a, <1>2
    <2> HIDE DEF x0
    <2>4. had = new
        BY <1>a DEF TuiRec
    <2>5. PICK x : /\ tui' = [tui EXCEPT ![t] = x]
                   /\ x = [tui[t] EXCEPT !.pc = "open", !.seen = port, !.cal = tui[t].cal,
                                         !.via = "props", !.window = x0]
      <3>1. tui' = [tui EXCEPT ![t] = new]
        <4> HIDE DEF had, new
        <4> QED BY <2>3, <2>4
      <3> QED BY <3>1, Zenon
    <2> HIDE DEF had, new
    <2> QED BY <1>0, <2>2, <2>5, Opens
  <1> QED BY <1>1, <1>2 DEF servedCtxSize

(* A TUI launches a server and keeps it. *)
LEMMA TuiLaunchKeeps ==
    ASSUME HostInv, NEW t \in Tuis, TuiLaunch(t)
    PROVE  HostInv'
  <1>0. /\ HostTypeOK /\ UNCHANGED <<fileVars, prov, cal, port>> /\ tui[t].pc = "start"
        /\ cal # None
      BY DEF HostInv, TuiLaunch, TuiAt, Calibrated
  <1>1. CASE TuiEnd(t, "failed") /\ UNCHANGED srv
      BY <1>0, <1>1, TuiFails
  <1>2. CASE /\ cal # Torn /\ Launch(t, tui[t].pin)
             /\ tui' = [tui EXCEPT ![t].pc = "poll", ![t].own = Len(srv) + 1]
    <2>1. cal \in Models
        BY <1>0, <1>2, TypeParts, CatalogTypes DEF CalOK
    <2>a. tui[t].pin \in Pins
        BY <1>0, TypeParts DEF TuisOK, TuiRec
    <2>2. LaunchedBy(t, tui[t].pin)
        BY <1>0, <1>2, <2>a, Launches
    <2>3. Served' /\ Steady /\ (Mapped => Mapped')
        BY <2>1, <2>2, LaunchKeeps
    <2>4. /\ tui \in [Tuis -> TuiRec(Len(srv))] /\ tui[t] \in TuiRec(Len(srv)) /\ Len(srv) \in Nat
          /\ Len(srv') = Len(srv) + 1 /\ Len(srv') >= Len(srv) /\ ServersOK'
        BY <1>0, <2>2, TypeParts DEF TuisOK, ServersOK, LaunchedBy
    <2> DEFINE n == Len(srv) + 1
               new == [tui[t] EXCEPT !.pc = "poll", !.own = n]
    <2>5. tui' = [tui EXCEPT ![t] = new]
        BY <1>2, <2>4
    <2>6. n \in 0..Len(srv') /\ \A k \in 0..Len(srv) : k \in 0..Len(srv')
        BY <2>4
    <2>7. n = Len(srv')
        BY <2>4
    <2> HIDE DEF n
    <2>8. new \in TuiRec(Len(srv')) /\ new.pc = "poll" /\ new.own = n
        BY <2>4, <2>6 DEF TuiRec, TuiLabels
    <2> HIDE DEF new
    <2>9. TuisOK' /\ tui'[t] = new /\ \A q \in Tuis \ {t} : tui'[q] = tui[q]
        BY <1>0, <2>4, <2>5, <2>8, TuiReplaced
    <2>10. HostTypeOK'
        BY <1>0, <2>4, <2>9, KeptTypes, TypePartsNext
    <2>11. Opened' /\ (OneDownload => Whole' /\ Written' /\ Mapped')
        BY <1>0, <2>3, FileFrame DEF HostInv
    <2>12. Calibrated'
      <3>1. \A m : Present(m)' <=> Present(m)
          BY <1>0 DEF fileVars, Present
      <3> QED BY <1>0, <2>8, <2>9, <3>1 DEF HostInv, Calibrated
    <2>13. Told'
      <3>1. ToldOf(t)'
          BY <2>8, <2>9 DEF ToldOf
      <3> QED BY <1>0, <2>3, <2>9, <3>1, ToldStep DEF HostInv
    <2>14. NiceExecs => ServersHaveKeepers'
        BY <1>0, <2>2, <2>7, <2>8, <2>9 DEF HostInv, ServersHaveKeepers, LaunchedBy
    <2> QED BY <2>3, <2>10, <2>11, <2>12, <2>13, <2>14 DEF HostInv, OneDownload
  <1> QED BY <1>1, <1>2 DEF TuiLaunch

(* A TUI ends and its server with it, or (killed) leaves it an orphan. *)
LEMMA TuiLeaves ==
    ASSUME HostInv, NEW t \in Tuis, NEW l \in {"failed", "idle"}, TuiEnd(t, l),
           UNCHANGED <<fileVars, prov, cal>>,
           ServersOK', Len(srv') = Len(srv), Len(srv') >= Len(srv),
           \A r \in Servers : \/ srv'[r].st = "gone"
                              \/ srv'[r].st = srv[r].st /\ srv'[r].ctx = srv[r].ctx
                                  /\ srv'[r].model = srv[r].model /\ srv'[r].pin = srv[r].pin,
           \A r \in Servers : srv[r].intact => srv'[r].intact,
           NiceExecs => \A r \in Servers :
               \/ r # tui[t].own /\ srv'[r] = srv[r]
               \/ r = tui[t].own /\ srv'[r].by = "orphan"
    PROVE  HostInv'
  <1>0. HostTypeOK /\ l \in TuiLabels
      BY DEF HostInv, TuiLabels
  <1>1. Servers = 1..Len(srv) /\ Servers' = 1..Len(srv')
      BY <1>0, TypeParts DEF ServersOK, Servers
  <1>2. Servers' = Servers /\ Steady
      BY <1>1 DEF Steady
  <1>3. TuiIs(t, l, None, None, None, "none", 0)
      BY <1>0, TuiEnds
  <1>4. HostTypeOK'
      BY <1>0, <1>3, KeptTypes, TypePartsNext DEF TuiIs
  <1>5. Opened' /\ (OneDownload => Whole' /\ Written' /\ Mapped')
      BY <1>2, FileFrame DEF HostInv, Mapped
  <1>6. Calibrated'
    <2>1. \A m : Present(m)' <=> Present(m)
        BY DEF fileVars, Present
    <2> QED BY <1>3, <2>1 DEF HostInv, Calibrated, TuiIs
  <1>7. Served'
      BY <1>2, ServedKept DEF HostInv
  <1>8. Told'
    <2>1. ToldOf(t)'
        BY <1>3 DEF ToldOf, TuiIs
    <2> QED BY <1>0, <1>2, <1>3, <2>1, ToldStep DEF HostInv, TuiIs
  <1>9. NiceExecs => ServersHaveKeepers'
    <2>1. "orphan" \notin Tuis
        BY HostAssumption
    <2> QED BY <1>2, <1>3, <2>1 DEF HostInv, ServersHaveKeepers, TuiIs
  <1> QED BY <1>4, <1>5, <1>6, <1>7, <1>8, <1>9 DEF HostInv, OneDownload

(* A TUI waits for its server, and stops it when the time is over. *)
LEMMA PollKeeps ==
    ASSUME HostInv, NEW t \in Tuis, PollEndpoint(t)
    PROVE  HostInv'
  <1>0. HostTypeOK /\ UNCHANGED <<fileVars, prov, cal>> /\ tui[t].pc = "poll"
      BY DEF HostInv, PollEndpoint, TuiAt
  <1>1. CASE TuiTo(t, "window") /\ UNCHANGED <<srv, port>>
    <2>1. CalOK' /\ (cal' \in Models => Present(cal'))
        BY <1>0, KeptTypes DEF HostInv, Calibrated
    <2> QED BY <1>0, <1>1, <2>1, TuiWalks
  <1>2. CASE TuiEnd(t, "failed") /\ Stop(tui[t].own)
    <2>1. tui[t].own \in 0..Len(srv)
        BY <1>0, Known
    <2> QED BY <1>0, <1>2, <2>1, Stops, TuiLeaves
  <1> QED BY <1>1, <1>2 DEF PollEndpoint

(* A TUI is quit, and stops its server. *)
LEMMA QuitKeeps ==
    ASSUME HostInv, NEW t \in Tuis, TuiQuit(t)
    PROVE  HostInv'
  <1>1. /\ HostTypeOK /\ UNCHANGED <<fileVars, prov, cal>>
        /\ TuiEnd(t, "idle") /\ Stop(tui[t].own)
      BY DEF HostInv, TuiQuit
  <1>2. tui[t].own \in 0..Len(srv)
      BY <1>1, Known
  <1> QED BY <1>1, <1>2, Stops, TuiLeaves

(* A TUI is killed, and leaves its server an orphan. *)
LEMMA KilledKeeps ==
    ASSUME HostInv, NEW t \in Tuis, TuiKilled(t)
    PROVE  HostInv'
  <1>1. /\ HostTypeOK /\ UNCHANGED <<fileVars, prov, cal, port>> /\ TuiEnd(t, "failed")
        /\ srv' = [s \in Servers |-> IF s = tui[t].own THEN [srv[s] EXCEPT !.by = "orphan"]
                                     ELSE srv[s]]
      BY DEF HostInv, TuiKilled
  <1>2. /\ srv \in Seq(SrvRec) /\ Servers = 1..Len(srv) /\ Len(srv) \in Nat
        /\ port \in 0..Len(srv) /\ \A s \in Servers : srv[s] \in SrvRec
    <2>1. srv \in Seq(SrvRec) /\ port \in 0..Len(srv)
        BY <1>1, TypeParts DEF ServersOK
    <2> QED BY <2>1 DEF Servers
  <1>3. \A s \in Servers :
           /\ srv'[s] \in SrvRec
           /\ \/ s # tui[t].own /\ srv'[s] = srv[s]
              \/ /\ s = tui[t].own /\ srv'[s].by = "orphan" /\ srv'[s].st = srv[s].st
                 /\ srv'[s].ctx = srv[s].ctx /\ srv'[s].model = srv[s].model
                 /\ srv'[s].intact = srv[s].intact /\ srv'[s].pin = srv[s].pin
    <2> SUFFICES ASSUME NEW s \in Servers
                 PROVE  /\ srv'[s] \in SrvRec
                        /\ \/ s # tui[t].own /\ srv'[s] = srv[s]
                           \/ /\ s = tui[t].own /\ srv'[s].by = "orphan" /\ srv'[s].st = srv[s].st
                              /\ srv'[s].ctx = srv[s].ctx /\ srv'[s].model = srv[s].model
                              /\ srv'[s].intact = srv[s].intact /\ srv'[s].pin = srv[s].pin
        OBVIOUS
    <2>1. CASE s # tui[t].own
        BY <1>1, <1>2, <2>1
    <2>2. CASE s = tui[t].own
      <3> DEFINE new == [srv[s] EXCEPT !.by = "orphan"]
      <3>1. srv'[s] = new
          BY <1>1, <2>2
      <3>2. /\ new \in SrvRec /\ new.by = "orphan" /\ new.st = srv[s].st /\ new.ctx = srv[s].ctx
            /\ new.model = srv[s].model /\ new.intact = srv[s].intact /\ new.pin = srv[s].pin
          BY <1>2 DEF SrvRec
      <3> HIDE DEF new
      <3> QED BY <2>2, <3>1, <3>2
    <2> QED BY <2>1, <2>2
  <1>4. srv' \in Seq(SrvRec) /\ Len(srv') = Len(srv)
    <2> DEFINE e(s) == IF s = tui[t].own THEN [srv[s] EXCEPT !.by = "orphan"] ELSE srv[s]
    <2>1. srv' = [s \in 1..Len(srv) |-> e(s)] /\ \A s \in 1..Len(srv) : srv'[s] = e(s)
        BY <1>1, <1>2
    <2>2. \A s \in 1..Len(srv) : e(s) \in SrvRec
        BY <1>2, <1>3, <2>1
    <2> HIDE DEF e
    <2> QED BY <1>2, <2>1, <2>2
  <1>5. ServersOK' /\ Len(srv') >= Len(srv)
      BY <1>1, <1>2, <1>4 DEF ServersOK
  <1> QED BY <1>1, <1>3, <1>4, <1>5, TuiLeaves

-----------------------------------------------------------------------------
(* Nothing runs, and no file is there. *)
LEMMA InitHostInv == HostInit => HostInv
  <1> SUFFICES ASSUME HostInit PROVE HostInv
      OBVIOUS
  <1>1. PICK b \in Budgets :
           /\ prov = [p \in Provs |-> [NewProv EXCEPT !.runs = b[p]]]
           /\ tui = [t \in Tuis |-> [NewTui EXCEPT !.runs = b[t]]]
      BY DEF HostInit
  <1>2. /\ inode = <<>> /\ dest = None /\ part = None /\ cal = None /\ srv = <<>> /\ port = None
        /\ b \in [Provs \cup Tuis -> Nat]
      BY HostAssumption DEF HostInit
  <1>3. \A p \in Provs : prov[p] \in ProvRec(0) /\ prov[p].pc = "idle"
    <2> TAKE p \in Provs
    <2> DEFINE n == b[p]
               new == [NewProv EXCEPT !.runs = n]
    <2>1. n \in Nat /\ prov[p] = new /\ 0 \in 0..0 /\ 0 \in 0..Chunks /\ 0 \in Pins
        BY <1>1, <1>2, HostAssumption DEF Pins
    <2> HIDE DEF n
    <2>2. new \in ProvRec(0) /\ new.pc = "idle"
        BY <2>1 DEF NewProv, ProvRec, None, ProvLabels
    <2> HIDE DEF new
    <2> QED BY <2>1, <2>2
  <1>4. \A t \in Tuis : tui[t] \in TuiRec(0) /\ tui[t].pc = "idle"
    <2> TAKE t \in Tuis
    <2> DEFINE n == b[t]
               new == [NewTui EXCEPT !.runs = n]
    <2>1. n \in Nat /\ tui[t] = new /\ 0 \in 0..0 /\ 0 \in Nat /\ 0 \in Pins
        BY <1>1, <1>2 DEF Pins
    <2> HIDE DEF n
    <2>2. new \in TuiRec(0) /\ new.pc = "idle"
        BY <2>1 DEF NewTui, TuiRec, None, TuiLabels
    <2> HIDE DEF new
    <2> QED BY <2>1, <2>2
  <1>5. Len(inode) = 0 /\ Len(srv) = 0 /\ Servers = {}
      BY <1>2 DEF Servers
  <1>6. HostTypeOK
    <2>1. FilesOK /\ ServersOK /\ CalOK
        BY <1>2, <1>5 DEF FilesOK, ServersOK, CalOK, None
    <2>2. prov \in [Provs -> ProvRec(0)] /\ tui \in [Tuis -> TuiRec(0)]
        BY <1>1, <1>3, <1>4
    <2> QED BY <1>5, <2>1, <2>2, TypeParts DEF ProvsOK, TuisOK
  <1>7. Opened /\ Calibrated /\ Whole /\ Written
      BY <1>2, <1>3, <1>4, CatalogTypes DEF Opened, Calibrated, Whole, Written
  <1>8. Served /\ Mapped /\ ServersHaveKeepers
      BY <1>5 DEF Served, Mapped, ServersHaveKeepers
  <1>9. Told
      BY <1>4 DEF Told, ToldOf
  <1> QED BY <1>6, <1>7, <1>8, <1>9 DEF HostInv

(* Every step of a server, of aegis provision or of bare aegis keeps it. *)
LEMMA NextHostInv == HostInv /\ [HostNext]_hostVars => HostInv'
  <1> SUFFICES ASSUME HostInv, [HostNext]_hostVars PROVE HostInv'
      OBVIOUS
  <1>1. CASE UNCHANGED hostVars
    <2>1. UNCHANGED <<fileVars, prov, cal, srv, port, tui>>
        BY <1>1 DEF hostVars
    <2>2. HostTypeOK'
        BY <2>1, KeptTypes, TypePartsNext DEF HostInv
    <2> QED BY <2>1, <2>2, ServerFrame, FileFrame, CalFrame DEF HostInv, OneDownload
  <1>2. ASSUME NEW s \in Servers, Bind(s) \/ Load(s) \/ Die(s) PROVE HostInv'
      BY <1>2, BindKeeps, LoadKeeps, DieKeeps
  <1>3. ASSUME NEW p \in Provs,
               \/ resolveOrDownload(p) \/ OpenPart(p) \/ CopyPiece(p)
               \/ CommitDownload(p) \/ ProvSeed(p) \/ ProvServe(p)
               \/ ProvPoll(p) \/ ProvKilled(p)
        PROVE  HostInv'
    <2>1. CASE ProvPoll(p) \/ ProvKilled(p)
        BY <2>1, ProvStops DEF ProvPoll, ProvKilled
    <2> QED BY <1>3, <2>1, ResolveKeeps, OpenPartKeeps, CopyPieceKeeps, CommitKeeps, SeedKeeps,
               ServeKeeps
  <1>4. ASSUME NEW t \in Tuis, cmdTUI(t) \/ TuiStep(t) \/ TuiQuit(t) \/ TuiKilled(t)
        PROVE  HostInv'
      BY <1>4, cmdTUIKeeps, ProbeKeeps, ResolveModelKeeps, TuiSeedKeeps, TuiLaunchKeeps, PollKeeps,
         FallbackKeeps, servedCtxSizeKeeps, QuitKeeps, KilledKeeps DEF TuiStep
  <1> QED BY <1>1, <1>2, <1>3, <1>4 DEF HostNext

(* The inductive invariant holds of every behaviour, for any number of     *)
(* processes and any catalog.                                              *)
THEOREM HostInvariance == HostSpec => []HostInv
  BY InitHostInv, NextHostInv, PTL DEF HostSpec

(* Where nice becomes the server it starts, a server bare aegis launched   *)
(* runs only while that aegis is there to stop it (ensureModelServing's    *)
(* stop and cmdTUI's defer).                                               *)
THEOREM ServersKept ==
    ASSUME NiceExecs
    PROVE  HostSpec => []ServersHaveKeepers
  <1>1. HostInv => ServersHaveKeepers
      BY DEF HostInv
  <1> QED BY <1>1, HostInvariance, PTL

(* The window OpenCode is told is the one served: from /props whatever     *)
(* AEGIS_CTX_SIZE the server was launched under, and computed for a        *)
(* calibration that names the served model by a process with the same      *)
(* AEGIS_CTX_SIZE (servedCtxSize).                                         *)
THEOREM WindowsAgree == HostSpec => []WindowAgrees
  <1>1. HostInv => WindowAgrees
    <2> SUFFICES ASSUME HostInv, NEW t \in Tuis, tui[t].pc = "open", tui[t].seen # None,
                        srv[tui[t].seen].st = "up",
                        tui[t].via = "resolver" =>
                            /\ tui[t].cal = srv[tui[t].seen].model
                            /\ tui[t].pin = srv[tui[t].seen].pin
                 PROVE  tui[t].window = srv[tui[t].seen].ctx
        BY DEF WindowAgrees
    <2>1. tui[t].seen \in Servers
        BY Known DEF HostInv
    <2>2. srv[tui[t].seen].model \in Models
          /\ srv[tui[t].seen].ctx = ServedWith(srv[tui[t].seen].pin, srv[tui[t].seen].model)
        BY <2>1 DEF HostInv, Served
    <2> QED BY <2>2 DEF HostInv, Told, ToldOf
  <1> QED BY <1>1, HostInvariance, PTL

(* "never serve unverified weights" (provision.go:176), as long as one     *)
(* aegis provision runs at a time: interrupted, corrupted and repeated     *)
(* downloads leave nothing at the model's path that was not digested.      *)
THEOREM OnlyVerifiedServed ==
    ASSUME OneDownload
    PROVE  HostSpec => []ServedVerified
  <1>1. HostInv => ServedVerified
      BY DEF HostInv, Mapped, ServedVerified
  <1> QED BY <1>1, HostInvariance, PTL
=============================================================================
