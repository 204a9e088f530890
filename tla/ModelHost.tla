----------------------------- MODULE ModelHost -----------------------------
(***************************************************************************)
(* The models of a host and who serves them: `aegis provision` fetching    *)
(* the catalog model Wanted (provision.go), bare `aegis` bringing a model  *)
(* up before its TUI opens (main.go), the llama-server processes both      *)
(* start, and the one endpoint port those compete for.  Processes share    *)
(* the model directory, the calibration file and the port, and nothing     *)
(* else; each step below is one system call or HTTP request of a process.  *)
(***************************************************************************)
EXTENDS Sizing

CONSTANTS Provs, Tuis,  \* the provision and TUI processes
          Wanted,       \* the catalog model provision downloads
          Side,         \* models whose GGUF the operator may put in the directory
          Chunks,       \* the pieces a download arrives in
          RAM,          \* the host's memory
          CtxPins,      \* the AEGIS_CTX_SIZE a process may be started under
          NiceExecs,    \* nice replaces itself by llama-server (not on macOS)
          Budgets       \* how often each process may be started: a set of choices

ASSUME HostAssumption ==
    /\ Wanted \in Models /\ Side \subseteq Models \ {Wanted}
    /\ Chunks \in Nat \ {0} /\ RAM \in Nat /\ NiceExecs \in BOOLEAN
    /\ CtxPins \in [Provs \cup Tuis -> SUBSET Pins]
    /\ Budgets \subseteq [Provs \cup Tuis -> Nat]
    /\ Provs \cap Tuis = {} /\ "orphan" \notin Provs \cup Tuis

VARIABLES
    inode,   \* the bytes of each open or linked download: sequences of pieces
    dest,    \* the inode at the model's path, or None
    part,    \* the inode at its path + ".part", or None
    prov,    \* provision processes: [pc, pin, fd, off, sum, gguf, runs]
    cal,     \* calibration.json: None, Torn or a model
    srv,     \* the servers launched so far: [st, model, by, intact, pin, ctx]
    port,    \* the server that holds the endpoint's port, or None
    tui      \* TUI processes: [pc, pin, cal, own, seen, via, window, runs]

fileVars == <<inode, dest, part>>
hostVars == <<fileVars, prov, cal, srv, port, tui>>

Torn == -1   \* truncated by os.WriteFile, not written yet
Servers == DOMAIN srv
ProvLabels == {"idle", "get", "copy", "seed", "write", "serve", "poll", "done", "failed"}
TuiLabels == {"idle", "probe", "resolve", "seed", "start", "poll", "fallback",
              "window", "open", "failed"}

NewProv == [pc |-> "idle", pin |-> 0, fd |-> None, off |-> 0, sum |-> "ok",
            gguf |-> None, runs |-> 0]
NewTui == [pc |-> "idle", pin |-> 0, cal |-> None, own |-> None, seen |-> None,
           via |-> "none", window |-> 0, runs |-> 0]

HostInit == /\ inode = <<>> /\ dest = None /\ part = None
            /\ \E b \in Budgets :
                  /\ prov = [p \in Provs |-> [NewProv EXCEPT !.runs = b[p]]]
                  /\ tui = [t \in Tuis |-> [NewTui EXCEPT !.runs = b[t]]]
            /\ cal = None
            /\ srv = <<>> /\ port = None

-----------------------------------------------------------------------------
(* Files.                                                                  *)

Full(i) == Len(inode[i]) = Chunks
Intact(i) == Full(i) /\ \A k \in 1..Chunks : inode[i][k] = "ok"

(* The GGUF of m is in the model directory; a .part is not a *.gguf. *)
Present(m) == IF m = Wanted THEN dest # None ELSE m \in Side

(* resolveAnyModelGGUF: the smallest *.gguf of the model directory. *)
resolveAnyModelGGUF ==
    LET here == {m \in Models : Present(m)}
    IN  IF here = {} THEN None
        ELSE CHOOSE m \in here : \A n \in here : Catalog[m].size <= Catalog[n].size

(* A write at offset off leaves a hole where the file was shorter. *)
WriteAt(bytes, off, piece) ==
    [k \in 1..(IF off + 1 > Len(bytes) THEN off + 1 ELSE Len(bytes)) |->
        IF k = off + 1 THEN piece ELSE IF k <= Len(bytes) THEN bytes[k] ELSE "hole"]

-----------------------------------------------------------------------------
(* Servers.                                                                *)

Ready == port # None /\ srv[port].st = "up"   \* endpointReady

(* What llama-server is told: the model and the window.  (pin, by and      *)
(* intact are for the properties.)                                         *)
LaunchArgs(m, p, pin, ctx) ==
    [st |-> "starting", model |-> m, by |-> p, intact |-> TRUE, pin |-> pin, ctx |-> ctx]

(* buildServeCommand and cmd.Start by process p: the calibration is read   *)
(* again and its window computed afresh.                                   *)
Launch(p, pin) ==
    srv' = Append(srv, LaunchArgs(cal, p, pin, Window(pin, cal, Present(cal), RAM)))

(* Of a server that has exited nothing is kept. *)
Dead == [st |-> "gone", model |-> None, by |-> "orphan", intact |-> TRUE, pin |-> 0, ctx |-> 0]
Gone(s) == [srv EXCEPT ![s] = Dead]
Freed(s) == IF port = s THEN None ELSE port

(* llama-server binds the port or exits. *)
Bind(s) == /\ srv[s].st = "starting"
           /\ srv' = IF port = None THEN [srv EXCEPT ![s].st = "loading"] ELSE Gone(s)
           /\ port' = IF port = None THEN s ELSE port
           /\ UNCHANGED <<fileVars, prov, cal, tui>>

(* It maps the weights that are at the path now; a short file is refused. *)
Load(s) == /\ srv[s].st = "loading" /\ Present(srv[s].model)
           /\ srv[s].model = Wanted => Full(dest)
           /\ srv' = [srv EXCEPT ![s].st = "up",
                         ![s].intact = srv[s].model = Wanted => Intact(dest)]
           /\ UNCHANGED <<fileVars, prov, cal, port, tui>>

(* It fails to load, runs out of memory or crashes. *)
Die(s) == /\ srv[s].st \in {"loading", "up"}
          /\ srv' = Gone(s) /\ port' = Freed(s)
          /\ UNCHANGED <<fileVars, prov, cal, tui>>

(* A slip: the process is left running. *)
Stop_NoKill(s) == UNCHANGED <<srv, port>>

(* The stop function of ensureModelServing: it kills the process it        *)
(* started, which on macOS is nice and not the server.                     *)
Stop(s) == IF s # None /\ NiceExecs THEN srv' = Gone(s) /\ port' = Freed(s)
           ELSE UNCHANGED <<srv, port>>

-----------------------------------------------------------------------------
(* aegis provision.                                                        *)

ProvAt(p, l) == prov[p].pc = l
ProvTo(p, l) == prov' = [prov EXCEPT ![p].pc = l]
ProvEnd(p, l) == prov' = [prov EXCEPT ![p] = [NewProv EXCEPT !.pc = l, !.runs = prov[p].runs]]

(* resolveOrDownload: a browsed file as it is; the file at the model's     *)
(* path when its size is right; else a download, or no such model.         *)
resolveOrDownload(p) ==
    /\ prov[p].pc \in {"idle", "done", "failed"} /\ prov[p].runs > 0
    /\ \E next \in {"failed", "get", "seed"}, g \in Side \cup {Wanted}, pin \in CtxPins[p] :
          /\ next = "seed" => g \in Side \/ (dest # None /\ Full(dest))
          /\ next = "failed" => g = Wanted
          /\ next = "get" => g = Wanted /\ ~(dest # None /\ Full(dest))
          /\ prov' = [prov EXCEPT ![p] = [NewProv EXCEPT !.pc = next, !.pin = pin, !.gguf = g,
                                              !.runs = prov[p].runs - 1]]
    /\ UNCHANGED <<fileVars, cal, srv, port, tui>>

(* downloadModel: GET, then os.Create, which truncates a .part in place. *)
OpenPart(p) ==
    /\ ProvAt(p, "get")
    /\ \/ /\ ProvEnd(p, "failed")          \* no connection, or not 200
          /\ UNCHANGED fileVars
       \/ LET free == {i \in 1..Len(inode) + 1 : i # dest /\ \A q \in Provs : prov[q].fd # i}
              i == IF part = None THEN Min(free) ELSE part
          IN  /\ part' = i
              /\ inode' = IF i > Len(inode) THEN Append(inode, <<>>)
                          ELSE [inode EXCEPT ![i] = <<>>]
              /\ prov' = [prov EXCEPT ![p].pc = "copy", ![p].fd = i]
              /\ UNCHANGED dest
    /\ UNCHANGED <<cal, srv, port, tui>>

(* io.Copy: each piece goes to the file and into the digest. *)
CopyPiece(p) ==
    /\ ProvAt(p, "copy") /\ prov[p].off < Chunks
    /\ \E piece \in {"ok", "bad"} :
          /\ inode' = [inode EXCEPT ![prov[p].fd] = WriteAt(@, prov[p].off, piece)]
          /\ prov' = [prov EXCEPT ![p].off = @ + 1,
                          ![p].sum = IF piece = "ok" THEN @ ELSE "bad"]
    /\ UNCHANGED <<dest, part, cal, srv, port, tui>>

(* A slip: the file is put in place whatever its digest. *)
CommitDownload_NoDigest(p) ==
    /\ ProvAt(p, "copy") /\ part # None
    /\ dest' = part /\ part' = None
    /\ ProvTo(p, "seed")
    /\ UNCHANGED <<inode, cal, srv, port, tui>>

(* The stream ends: after an error, or with a digest other than the        *)
(* catalog's, the .part is removed; else it is renamed into place, which   *)
(* fails when it has gone.                                                 *)
CommitDownload(p) ==
    /\ ProvAt(p, "copy")
    /\ \/ /\ part' = None
          /\ inode' = IF prov[p].fd = dest THEN inode       \* else it has no name
                      ELSE [inode EXCEPT ![prov[p].fd] = <<>>]
          /\ UNCHANGED dest
          /\ ProvEnd(p, "failed")
       \/ /\ prov[p].off = Chunks /\ prov[p].sum = "ok"
          /\ part' = None
          /\ \/ part # None /\ dest' = part /\ ProvTo(p, "seed")
             \/ part = None /\ UNCHANGED dest /\ ProvEnd(p, "failed")
          /\ UNCHANGED inode
    /\ UNCHANGED <<cal, srv, port, tui>>

(* writeSeedCalibration: os.WriteFile truncates, then writes; it may fail  *)
(* before either.                                                          *)
ProvSeed(p) ==
    /\ \/ ProvAt(p, "seed") /\ cal' = Torn /\ ProvTo(p, "write")
       \/ ProvAt(p, "write") /\ cal' = prov[p].gguf /\ ProvTo(p, "serve")
       \/ prov[p].pc \in {"seed", "write"} /\ ProvEnd(p, "failed") /\ UNCHANGED cal
    /\ UNCHANGED <<fileVars, srv, port, tui>>

(* The calibration cannot be read, the server not be started, or it is. *)
ProvServe(p) ==
    /\ ProvAt(p, "serve")
    /\ \/ ProvEnd(p, "failed") /\ UNCHANGED srv
       \/ cal # Torn /\ Launch(p, prov[p].pin) /\ ProvTo(p, "poll")
    /\ UNCHANGED <<fileVars, cal, port, tui>>

(* Whatever server answers within 180s makes it ready; the server it       *)
(* launched is left running either way.                                    *)
ProvPoll(p) ==
    /\ ProvAt(p, "poll")
    /\ \/ Ready /\ ProvEnd(p, "done")
       \/ ProvEnd(p, "failed")
    /\ UNCHANGED <<fileVars, cal, srv, port, tui>>

(* The process is killed: its files and its server stay. *)
ProvKilled(p) ==
    /\ ~(prov[p].pc \in {"idle", "done", "failed"})
    /\ ProvEnd(p, "failed")
    /\ UNCHANGED <<fileVars, cal, srv, port, tui>>

-----------------------------------------------------------------------------
(* Bare aegis.                                                             *)

TuiAt(t, l) == tui[t].pc = l
TuiTo(t, l) == tui' = [tui EXCEPT ![t].pc = l]
TuiEnd(t, l) == tui' = [tui EXCEPT ![t] = [NewTui EXCEPT !.pc = l, !.runs = tui[t].runs]]
Readable(c) == IF c = Torn THEN None ELSE c

cmdTUI(t) ==
    /\ tui[t].pc \in {"idle", "failed"} /\ tui[t].runs > 0
    /\ \E pin \in CtxPins[t] :
          tui' = [tui EXCEPT ![t] = [NewTui EXCEPT !.pc = "probe", !.pin = pin,
                                         !.runs = tui[t].runs - 1]]
    /\ UNCHANGED <<fileVars, prov, cal, srv, port>>

(* ensureModelServing: an endpoint that answers within 12s is taken as it  *)
(* is.                                                                     *)
ProbeEndpoint(t) ==
    /\ TuiAt(t, "probe")
    /\ (Ready /\ TuiTo(t, "window")) \/ TuiTo(t, "resolve")
    /\ UNCHANGED <<fileVars, prov, cal, srv, port>>

(* resolveCalibrationPath: a calibration file is there, whatever it holds. *)
(* Its three places (the environment's, the user's, the repository's) are  *)
(* one file here: the user's, the only one aegis writes.                   *)
resolveCalibrationPath == cal # None

ResolveModel(t) ==
    /\ TuiAt(t, "resolve")
    /\ \/ /\ ~resolveCalibrationPath         \* seed one for any GGUF there is
          /\ LET g == resolveAnyModelGGUF
             IN  \/ /\ g # None /\ cal' = Torn
                    /\ tui' = [tui EXCEPT ![t].pc = "seed", ![t].cal = g]
                 \/ TuiTo(t, "fallback") /\ UNCHANGED cal   \* none, or no file made
       \/ /\ cal = Torn /\ TuiEnd(t, "failed") /\ UNCHANGED cal
       \/ /\ cal \in Models
          /\ tui' = [tui EXCEPT ![t].cal = cal,
                        ![t].pc = IF Present(cal) THEN "start" ELSE "fallback"]
          /\ UNCHANGED cal
    /\ UNCHANGED <<fileVars, prov, srv, port>>

(* The rest of writeSeedCalibration; a failure counts as no model. *)
TuiSeed(t) == /\ TuiAt(t, "seed")
              /\ \/ cal' = tui[t].cal /\ TuiTo(t, "resolve")
                 \/ TuiTo(t, "fallback") /\ UNCHANGED cal
              /\ UNCHANGED <<fileVars, prov, srv, port>>

TuiLaunch(t) ==
    /\ TuiAt(t, "start")
    /\ \/ TuiEnd(t, "failed") /\ UNCHANGED srv
       \/ /\ cal # Torn /\ Launch(t, tui[t].pin)
          /\ tui' = [tui EXCEPT ![t].pc = "poll", ![t].own = Len(srv) + 1]
    /\ UNCHANGED <<fileVars, prov, cal, port>>


PollEndpoint(t) ==
    /\ TuiAt(t, "poll")
    /\ \/ Ready /\ TuiTo(t, "window") /\ UNCHANGED <<srv, port>>
       \/ TuiEnd(t, "failed") /\ Stop(tui[t].own)      \* 180s are over
    /\ UNCHANGED <<fileVars, prov, cal>>

(* No model: the TUI opens in its no-model state, or on Ollama (module     *)
(* OllamaFallback), whose endpoint has no /props.                          *)
Fallback(t) ==
    /\ TuiAt(t, "fallback")
    /\ LET m == Readable(cal)
       IN  \/ TuiTo(t, "window")
           \/ tui' = [tui EXCEPT ![t].pc = "open", ![t].via = "resolver", ![t].cal = m,
                         ![t].window = Window(tui[t].pin, m, Present(m), RAM)]
    /\ UNCHANGED <<fileVars, prov, cal, srv, port>>

(* A slip: the fallback forgets the cap to memory. *)
servedCtxSize_NoFit(t) ==
    /\ TuiAt(t, "window")
    /\ tui' = [tui EXCEPT ![t].pc = "open", ![t].seen = port, ![t].via = "resolver",
                  ![t].cal = Readable(cal),
                  ![t].window = ResolveCtxSize(tui[t].pin, catalogCtxSizeForGGUF(Readable(cal)))]
    /\ UNCHANGED <<fileVars, prov, cal, srv, port>>

(* n_ctx at /props. *)
ServedCtxSize == srv[port].ctx

(* The window OpenCode is told: what the server reports at /props, or when *)
(* that cannot be had what aegis would serve the calibrated model with.    *)
servedCtxSize(t) ==
    /\ TuiAt(t, "window")
    /\ LET m == Readable(cal)
       IN  \/ /\ Ready
              /\ tui' = [tui EXCEPT ![t].pc = "open", ![t].seen = port,
                            ![t].via = "props", ![t].window = ServedCtxSize]
           \/ tui' = [tui EXCEPT ![t].pc = "open", ![t].seen = port, ![t].cal = m,
                         ![t].via = "resolver",
                         ![t].window = Window(tui[t].pin, m, Present(m), RAM)]
    /\ UNCHANGED <<fileVars, prov, cal, srv, port>>

(* tuiLaunch returns and the deferred stop runs. *)
TuiQuit(t) == /\ TuiAt(t, "open")
              /\ TuiEnd(t, "idle")
              /\ Stop(tui[t].own)
              /\ UNCHANGED <<fileVars, prov, cal>>

(* The process is killed: nobody stops its server any more. *)
TuiKilled(t) ==
    /\ ~(tui[t].pc \in {"idle", "failed"})
    /\ TuiEnd(t, "failed")
    /\ srv' = [s \in Servers |-> IF s = tui[t].own THEN [srv[s] EXCEPT !.by = "orphan"]
                                 ELSE srv[s]]
    /\ UNCHANGED <<fileVars, prov, cal, port>>

TuiStep(t) == \/ ProbeEndpoint(t) \/ ResolveModel(t) \/ TuiSeed(t) \/ TuiLaunch(t)
              \/ PollEndpoint(t) \/ Fallback(t) \/ servedCtxSize(t)

HostNext ==
    \/ \E s \in Servers : Bind(s) \/ Load(s) \/ Die(s)
    \/ \E p \in Provs : \/ resolveOrDownload(p) \/ OpenPart(p) \/ CopyPiece(p)
                        \/ CommitDownload(p) \/ ProvSeed(p) \/ ProvServe(p)
                        \/ ProvPoll(p) \/ ProvKilled(p)
    \/ \E t \in Tuis : cmdTUI(t) \/ TuiStep(t) \/ TuiQuit(t) \/ TuiKilled(t)

HostSpec == HostInit /\ [][HostNext]_hostVars

(* Each HTTP call of the bring-up has a deadline, so a launch moves on. *)
HostFairness == \A t \in Tuis : WF_hostVars(TuiStep(t))

-----------------------------------------------------------------------------
HostTypeOK ==
    /\ inode \in Seq(Seq({"ok", "bad", "hole"}))
    /\ dest \in 0..Len(inode) /\ part \in 0..Len(inode)
    /\ prov \in [Provs -> [pc : ProvLabels, pin : Pins, fd : 0..Len(inode), off : 0..Chunks,
                           sum : {"ok", "bad"}, gguf : Side \cup {None, Wanted},
                           runs : Nat]]
    /\ cal \in Side \cup {None, Torn, Wanted}
    /\ srv \in Seq([st : {"starting", "loading", "up", "gone"}, model : Models \cup {None},
                    by : Provs \cup Tuis \cup {"orphan"}, intact : BOOLEAN,
                    pin : Pins, ctx : Nat])
    /\ port \in 0..Len(srv)
    /\ tui \in [Tuis -> [pc : TuiLabels, pin : Pins, cal : Models \cup {None}, own : 0..Len(srv),
                         seen : 0..Len(srv), via : {"none", "props", "resolver"}, window : Nat,
                         runs : Nat]]

(* "never serve unverified weights" (provision.go:176): the weights a      *)
(* server has loaded from the catalog model's path are those whose digest  *)
(* is in the catalog, whatever was interrupted, corrupted or retried.      *)
ServedVerified == \A s \in Servers : srv[s].st = "up" => srv[s].intact

(* A server bare aegis started runs only while that aegis can still stop   *)
(* it: a bring-up that fails or a TUI that is left takes its server along, *)
(* and never another's (ensureModelServing's stop, cmdTUI's defer).        *)
ServersHaveKeepers ==
    \A s \in Servers : srv[s].st # "gone" /\ srv[s].by \in Tuis =>
        /\ tui[srv[s].by].own = s
        /\ tui[srv[s].by].pc \in {"poll", "window", "open"}

(* The window OpenCode counts against is the one served (servedCtxSize):   *)
(* when the server told it, whoever launched that server under whatever    *)
(* AEGIS_CTX_SIZE, and when the probe was lost as long as the calibration  *)
(* still names the model that is being served and this process has the     *)
(* launcher's AEGIS_CTX_SIZE.                                              *)
WindowAgrees ==
    \A t \in Tuis :
        LET s == tui[t].seen
        IN  tui[t].pc = "open" /\ s # None /\ srv[s].st = "up"
                /\ (tui[t].via = "resolver" =>
                       tui[t].cal = srv[s].model /\ tui[t].pin = srv[s].pin)
            => tui[t].window = srv[s].ctx

=============================================================================
