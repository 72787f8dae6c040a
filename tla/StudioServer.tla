---------------------------- MODULE StudioServer ----------------------------
(***************************************************************************)
(* StudioBridgeServer: it launches one Studio, waits for the plugin of that *)
(* Studio to register over a WebSocket, runs scripts in it and is stopped.  *)
(*                                                                         *)
(* A call is a step of its own wherever the code awaits something: other    *)
(* calls, sockets and timers may come in between.  Plugin sockets are       *)
(* numbered in the order in which they connect.                             *)
(***************************************************************************)
EXTENDS Naturals, FiniteSets

CONSTANTS
    Runs,           \* the calls of executeAsync
    MaxSockets,     \* bound: how many plugin sockets connect
    Persistent      \* a persistent plugin is installed and preferred

ASSUME ServerAssumption ==
    /\ IsFiniteSet(Runs)
    /\ MaxSockets \in Nat
    /\ Persistent \in BOOLEAN

VARIABLES
    state,      \* _state
    boot,       \* where startAsync is
    stop,       \* where stopAsync is
    held,       \* what the server has to give back
    heeds,      \* the waits of startAsync that heed sockets as they connect
    sock,       \* sock[k]: the k-th plugin socket, and the handlers it has
    client,     \* _connectedClient: a socket, or 0
    synced,     \* _actionsReady
    run,        \* run[e]: a call of executeAsync
    script,     \* script[k]: the scripts the plugin runs for socket k
    lost        \* history: a disconnect has made the state "stopped"

serverVars == <<state, boot, stop, held, heeds, sock, client, synced, run, script, lost>>

Sockets == 1 .. MaxSockets
Resources == {"place", "server", "plugin", "studio"}
States == {"idle", "starting", "ready", "executing", "stopping", "stopped"}
Boots == {"none", "build", "grace", "inject", "launch", "handshake", "kill", "close", "done"}
Unused == [is |-> "none", hears |-> {}]
NoRun == [is |-> "none", on |-> 0, sync |-> 0, got |-> "none", alone |-> TRUE]
Result == {"none", "own", "other", "late", "closed", "error", "refused"}

ServerInit ==
    /\ state = "idle"
    /\ boot = "none"
    /\ stop = "none"
    /\ held = {}
    /\ heeds = {}
    /\ sock = [k \in Sockets |-> Unused]
    /\ client = 0
    /\ synced = FALSE
    /\ run = [e \in Runs |-> NoRun]
    /\ script = [k \in Sockets |-> {}]
    /\ lost = FALSE

Used(k) == sock[k].is = "used"
Waiting(k) == {e \in Runs : run[e].is = "waiting" /\ run[e].on = k}
Resuming == {e \in Runs : run[e].is = "resuming"}
Busy == {e \in Runs : run[e].is \in {"syncing", "resuming", "waiting"}}

-----------------------------------------------------------------------------
(* startAsync                                                              *)

Start ==
    /\ state = "idle"
    /\ state' = "starting"
    /\ boot' = "build"
    /\ UNCHANGED <<stop, held, heeds, sock, client, synced, run, script, lost>>

\* The place is built and stamped with the session's id, and the server listens.
Build ==
    /\ boot = "build"
    /\ \/ /\ held' = held \cup {"place", "server"}
          /\ boot' = IF Persistent THEN "grace" ELSE "inject"
          /\ heeds' = IF Persistent THEN {"grace"} ELSE {}
       \/ /\ held' = held \cup {"place"}
          /\ boot' = "kill"
          /\ heeds' = {}
    /\ UNCHANGED <<state, stop, sock, client, synced, run, script, lost>>

\* A step of the start that can be done or fail: what it leaves behind, and where
\* the start goes on.
Boot(from, leaves, to) ==
    /\ boot = from
    /\ \/ held' = held \cup leaves /\ boot' = to
       \/ held' = held /\ boot' = "kill"
    /\ UNCHANGED <<state, stop, heeds, sock, client, synced, run, script, lost>>

\* The grace period is over and no plugin has registered.
GraceEnds ==
    /\ boot = "grace"
    /\ boot' = "inject"
    /\ UNCHANGED <<state, stop, held, heeds, sock, client, synced, run, script, lost>>

InjectPlugin == Boot("inject", {"plugin"}, "launch")

\* Nothing is waited for when a plugin is there already.
LaunchStudio ==
    \/ Boot("launch", {}, "kill")
    \/ /\ boot = "launch"
       /\ held' = held \cup {"studio"}
       /\ IF client # 0
          THEN boot' = "done" /\ state' = "ready" /\ heeds' = heeds
          ELSE boot' = "handshake" /\ state' = state /\ heeds' = heeds \cup {"handshake"}
       /\ UNCHANGED <<stop, sock, client, synced, run, script, lost>>

HandshakeTimesOut ==
    /\ boot = "handshake"
    /\ client = 0
    /\ boot' = "kill"
    /\ UNCHANGED <<state, stop, held, heeds, sock, client, synced, run, script, lost>>

-----------------------------------------------------------------------------
(* Plugin sockets                                                          *)

Connects(k) ==
    /\ "server" \in held
    /\ sock[k] = Unused
    /\ \A j \in Sockets : j < k => sock[j] # Unused
    /\ sock' = [sock EXCEPT ![k] = [is |-> "open", hears |-> heeds \ (IF boot = "grace" THEN {} ELSE {"grace"})]]
    /\ UNCHANGED <<state, boot, stop, held, heeds, client, synced, run, script, lost>>

\* The register message: the grace period accepts one plugin, the handshake every
\* one, also when it has one already.
Registers(k) ==
    /\ sock[k].is = "open"
    /\ \/ /\ "grace" \in sock[k].hears /\ boot = "grace"
          /\ boot' = "launch"
          /\ state' = state
       \/ /\ "handshake" \in sock[k].hears
          /\ IF boot = "handshake" THEN boot' = "done" /\ state' = "ready"
                                   ELSE UNCHANGED <<boot, state>>
    /\ client' = k
    /\ sock' = [sock EXCEPT ![k].is = "used"]
    /\ UNCHANGED <<stop, held, heeds, synced, run, script, lost>>

\* What a call of executeAsync ends with, and the state it leaves behind.
Ended(e, got) == [run[e] EXCEPT !.is = "ended", !.got = got, !.on = 0, !.sync = 0]

\* A socket that was accepted is closed, the one in use or an older one: there is
\* no client any more.  A run that waits for it ends, and leaves "ready" behind.
ClosedState(s, ks) ==
    IF \E k \in ks : Waiting(k) # {} THEN "ready"
    ELSE IF (\E k \in ks : Used(k)) /\ s \notin {"stopping", "stopped"} THEN "stopped"
    ELSE s

CloseSockets(ks) ==
    /\ sock' = [k \in Sockets |-> IF k \in ks THEN [sock[k] EXCEPT !.is = "closed"] ELSE sock[k]]
    /\ client' = IF \E k \in ks : Used(k) THEN 0 ELSE client
    /\ run' = [e \in Runs |-> IF \E k \in ks : e \in Waiting(k) THEN Ended(e, "closed") ELSE run[e]]
    /\ script' = [k \in Sockets |-> IF k \in ks THEN {} ELSE script[k]]

Closes(k) ==
    /\ sock[k].is \in {"open", "used"}
    /\ CloseSockets({k})
    /\ state' = ClosedState(state, {k})
    /\ lost' = (lost \/ (ClosedState(state, {k}) = "stopped" /\ state # "stopped"))
    /\ UNCHANGED <<boot, stop, held, heeds, synced>>

-----------------------------------------------------------------------------
(* executeAsync                                                            *)

\* The script is sent to whatever client there is now.
SendScript(e) ==
    IF client = 0
    THEN /\ run' = [run EXCEPT ![e] = Ended(e, "error")]
         /\ state' = "ready"
         /\ script' = script
    ELSE /\ run' = [r \in Runs |->
              IF r = e THEN [run[e] EXCEPT !.is = "waiting", !.on = client,
                                !.alone = @ /\ script[client] = {} /\ Waiting(client) = {}]
              ELSE IF r \in Waiting(client) THEN [run[r] EXCEPT !.alone = FALSE] ELSE run[r]]
         /\ state' = "executing"
         /\ script' = [script EXCEPT ![client] = @ \cup {e}]

\* The state is checked here, and is still "ready" for a call made in the same turn.
Execute(e) ==
    /\ run[e].is = "none"
    /\ run' = [run EXCEPT ![e] =
                 IF state # "ready" \/ client = 0 THEN Ended(e, "refused")
                 ELSE IF synced THEN [@ EXCEPT !.is = "resuming"]
                 ELSE [@ EXCEPT !.is = "syncing", !.sync = client]]
    /\ UNCHANGED <<state, boot, stop, held, heeds, sock, client, synced, script, lost>>

\* Actions that are synced are awaited too, for a turn in which nothing comes in.
Resumes(e) ==
    /\ run[e].is = "resuming"
    /\ SendScript(e)
    /\ UNCHANGED <<boot, stop, held, heeds, sock, client, synced, lost>>

\* The plugin answers a request of _ensureActionsAsync: another one follows, which
\* performActionAsync may refuse by now, or the script.
SyncAnswered(e, more) ==
    /\ run[e].is = "syncing"
    /\ Used(run[e].sync)
    /\ IF ~more THEN synced' = TRUE /\ SendScript(e)
       ELSE /\ run' = [run EXCEPT ![e] = IF state = "ready" /\ client # 0
                            THEN [@ EXCEPT !.sync = client] ELSE Ended(e, "error")]
            /\ UNCHANGED <<state, script, synced>>
    /\ UNCHANGED <<boot, stop, held, heeds, sock, client, lost>>

\* The request times out, is refused by the plugin, or is cancelled by cancelAll.
SyncFails(e) ==
    /\ run[e].is = "syncing"
    /\ run' = [run EXCEPT ![e] = Ended(e, "error")]
    /\ UNCHANGED <<state, boot, stop, held, heeds, sock, client, synced, script, lost>>

\* Mutant: the server listens on whichever socket it has, not on the run's.
HearAnyCompletion(k, e) == Busy \cap {r \in Runs : run[r].is = "waiting"}

\* Who takes a completion on socket k of the script of run e: it names no run.
HearCompletion(k, e) == Waiting(k)

Completes(k, e) ==
    /\ e \in script[k]
    /\ Used(k)
    /\ script' = [script EXCEPT ![k] = @ \ {e}]
    /\ LET heard == HearCompletion(k, e) IN
       /\ run' = [r \in Runs |->
            IF r \in heard THEN Ended(r, IF r = e THEN "own" ELSE "other") ELSE run[r]]
       /\ state' = IF heard # {} THEN "ready" ELSE state
    /\ UNCHANGED <<boot, stop, held, heeds, sock, client, synced, lost>>

\* Mutant: only a run whose socket is open is given up.
TimesOutWhenOpen(e) ==
    /\ run[e].is = "waiting"
    /\ client = run[e].on
    /\ run' = [run EXCEPT ![e] = Ended(e, "late")]
    /\ state' = "ready"
    /\ UNCHANGED <<boot, stop, held, heeds, sock, client, synced, script, lost>>

\* The run ends; the plugin goes on with its script.
TimesOut(e) ==
    /\ run[e].is = "waiting"
    /\ run' = [run EXCEPT ![e] = Ended(e, "late")]
    /\ state' = "ready"
    /\ UNCHANGED <<boot, stop, held, heeds, sock, client, synced, script, lost>>

-----------------------------------------------------------------------------
(* stopAsync and _cleanupResourcesAsync                                    *)

\* What waits for an answer of the plugin is cancelled as the cleanup begins.
CancelAll ==
    run' = [e \in Runs |-> IF run[e].is = "syncing" THEN Ended(e, "error") ELSE run[e]]

\* stopAsync, called when startAsync has returned or before it is called.
StopServer ==
    /\ stop = "none"
    /\ boot \in {"none", "done"}
    /\ IF state = "stopped"
       THEN stop' = "done" /\ UNCHANGED <<state, run>>
       ELSE stop' = "kill" /\ state' = "stopping" /\ CancelAll
    /\ UNCHANGED <<boot, held, heeds, sock, client, synced, script, lost>>

\* The cleanup ends Studio and removes the plugin and the place ...
Kill ==
    /\ held' = held \ {"studio", "plugin", "place"}
    /\ UNCHANGED <<state, heeds, sock, client, synced, run, script, lost>>

\* Mutant: the server is closed and not its sockets.
CloseOnlyServer ==
    /\ held' = held \ {"server"}
    /\ state' = "stopped"
    /\ UNCHANGED <<heeds, sock, client, synced, run, script, lost>>

\* ... and closes the sockets and the server.
CloseServer ==
    /\ CloseSockets({k \in Sockets : sock[k].is \in {"open", "used"}})
    /\ held' = held \ {"server"}
    /\ state' = "stopped"
    /\ UNCHANGED <<heeds, synced, lost>>

Cleanup ==
    \/ stop = "kill" /\ stop' = "close" /\ boot' = boot /\ Kill
    \/ stop = "close" /\ stop' = "done" /\ boot' = boot /\ CloseServer
    \/ boot = "kill" /\ boot' = "close" /\ stop' = stop /\ Kill
    \/ boot = "close" /\ boot' = "done" /\ stop' = stop /\ CloseServer

-----------------------------------------------------------------------------
Booting == Build \/ GraceEnds \/ InjectPlugin \/ LaunchStudio \/ HandshakeTimesOut

\* The caller may go on within its turn; all else waits for those that resume.
ServerNext ==
    \/ StopServer \/ \E e \in Runs : Execute(e) \/ Resumes(e)
    \/ /\ Resuming = {}
       /\ \/ Start \/ Booting \/ Cleanup
          \/ \E k \in Sockets :
               Connects(k) \/ Registers(k) \/ Closes(k) \/ \E e \in Runs : Completes(k, e)
          \/ \E e \in Runs :
               SyncFails(e) \/ TimesOut(e) \/ \E more \in BOOLEAN : SyncAnswered(e, more)

ServerSpec == ServerInit /\ [][ServerNext]_serverVars

\* What is awaited is done or fails, calls resume, and timers fire; a plugin need not do
\* anything.
ServerFairness ==
    /\ WF_serverVars(Booting) /\ WF_serverVars(Cleanup)
    /\ \A e \in Runs :
         WF_serverVars(Resumes(e)) /\ WF_serverVars(SyncFails(e)) /\ WF_serverVars(TimesOut(e))

FairServerSpec == ServerSpec /\ ServerFairness

-----------------------------------------------------------------------------
\* A start that fails and a stop that ends have given back the place, the plugin,
\* Studio, the server and its sockets, unless a disconnect of the plugin had left
\* the state "stopped" before.
StopReleases ==
    (state = "stopped" /\ boot \in {"none", "done"} /\ stop \in {"none", "done"} /\ ~lost)
        => held = {} /\ client = 0 /\ \A k \in Sockets : sock[k].is \in {"none", "closed"}

\* A run that had its socket for itself, no older script going on there and no
\* other run waiting, ends with the result of its own script or with none.
OwnResult == \A e \in Runs : run[e].got = "other" => ~run[e].alone
=============================================================================
