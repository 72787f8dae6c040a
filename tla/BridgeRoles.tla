----------------------------- MODULE BridgeRoles -----------------------------
(***************************************************************************)
(* The processes of studio-bridge that share one port: a process that     *)
(* connects probes the port, becomes the host or a client, and a client   *)
(* that loses its host runs the hand-off while its transport reconnects.   *)
(*                                                                         *)
(* A process is one run of the command line tool.  The port is held by at  *)
(* most one listener; a listener is a probe (detectRoleAsync and the       *)
(* hand-off bind the port and let it go again), a bridge host, or a bridge  *)
(* host that is shutting down.  Time is left out: a jitter, a delay or a    *)
(* back-off is a step that may happen at any time.                          *)
(***************************************************************************)
EXTENDS Naturals, FiniteSets

CONSTANTS
    Procs,          \* the processes
    Nobody,         \* no process
    StaleRetries,   \* MAX_STALE_RETRIES of detectRoleAsync
    Attempts,       \* MAX_RETRIES of the hand-off
    Reconnects,     \* maxReconnectAttempts of the transport
    MaxEnds         \* bound: how often a process crashes or disconnects

ASSUME RolesAssumption ==
    /\ Nobody \notin Procs
    /\ StaleRetries \in Nat
    /\ Attempts \in Nat \ {0}
    /\ Reconnects \in Nat
    /\ MaxEnds \in Nat

VARIABLES
    listener,   \* who listens on the port, and as what
    step,       \* step[p]: where p is between its start and its end
    tries,      \* tries[p]: failed health checks of p's detection
    role,       \* role[p]: _role of p's BridgeConnection
    connected,  \* connected[p]: _isConnected of p's BridgeConnection
    link,       \* link[p]: the socket of p's TransportClient
    rejoin,     \* rejoin[p]: the transport's reconnect timer and its count
    pending,    \* pending[p]: _takeoverPending of p's HandOffManager
    handOff,    \* handOff[p]: the runs of the HandOffManager
    ends        \* how often a process has crashed or disconnected

rolesVars == <<listener, step, tries, role, connected, link, rejoin, pending, handOff, ends>>

Steps == {"idle", "detecting", "probing", "starting", "checking", "waiting",
          "connecting", "fetching", "up", "draining", "closed", "failed", "dead"}
Free == [by |-> Nobody, as |-> "free"]
Listeners == [by : Procs, as : {"probe", "bridge", "closing"}] \cup {Free}
NoLink == [to |-> Nobody, cut |-> FALSE, notice |-> FALSE]
Links == [to : Procs \cup {Nobody}, cut : BOOLEAN, notice : BOOLEAN]
HandOffPhases == {"none", "jitter", "binding", "bound", "connecting", "delay",
                  "promoted", "fallback", "unreachable"}

\* A host that is lost again while a hand-off goes on starts another run of the
\* same loop.  A run takes a crash or a disconnect, so MaxEnds runs are enough.
Runs == 1 .. MaxEnds
NoRun == [phase |-> "none", tried |-> 0]
NoHandOff == [i \in Runs |-> NoRun]

Alive(p) == step[p] \notin {"idle", "dead"}

\* /client sockets are accepted by a bridge host, also while it shuts down.
Accepts == listener.as \in {"bridge", "closing"}

\* /health answers 503 during the shutdown, and a probe does not answer.
Healthy == listener.as = "bridge"

RolesInit ==
    /\ listener = Free
    /\ step = [p \in Procs |-> "idle"]
    /\ tries = [p \in Procs |-> 0]
    /\ role = [p \in Procs |-> "none"]
    /\ connected = [p \in Procs |-> FALSE]
    /\ link = [p \in Procs |-> NoLink]
    /\ rejoin = [p \in Procs |-> [timer |-> FALSE, count |-> 0]]
    /\ pending = [p \in Procs |-> FALSE]
    /\ handOff = [p \in Procs |-> NoHandOff]
    /\ ends = 0

Goto(p, s) == step' = [step EXCEPT ![p] = s]

-----------------------------------------------------------------------------
(* BridgeConnection.connectAsync                                           *)

Start(p) ==
    /\ step[p] = "idle"
    /\ Goto(p, "detecting")
    /\ UNCHANGED <<listener, tries, role, connected, link, rejoin, pending, handOff, ends>>

\* detectRoleAsync binds the port ...
Detect(p) ==
    /\ step[p] = "detecting"
    /\ IF listener = Free
       THEN listener' = [by |-> p, as |-> "probe"] /\ Goto(p, "probing")
       ELSE listener' = listener /\ Goto(p, "checking")
    /\ UNCHANGED <<tries, role, connected, link, rejoin, pending, handOff, ends>>

\* ... and lets it go again before the BridgeHost binds it.
ReleaseProbe(p) ==
    /\ step[p] = "probing"
    /\ listener' = Free
    /\ Goto(p, "starting")
    /\ role' = [role EXCEPT ![p] = "host"]
    /\ UNCHANGED <<tries, connected, link, rejoin, pending, handOff, ends>>

\* _initHostAsync: another process may hold the port by now.
StartHost(p) ==
    /\ step[p] = "starting"
    /\ IF listener = Free
       THEN /\ listener' = [by |-> p, as |-> "bridge"]
            /\ connected' = [connected EXCEPT ![p] = TRUE]
            /\ Goto(p, "up")
       ELSE Goto(p, "failed") /\ UNCHANGED <<listener, connected>>
    /\ UNCHANGED <<tries, role, link, rejoin, pending, handOff, ends>>

CheckHealth(p) ==
    /\ step[p] = "checking"
    /\ \/ /\ Healthy
          /\ role' = [role EXCEPT ![p] = "client"]
          /\ Goto(p, "connecting")
          /\ tries' = tries
       \/ /\ ~Healthy
          /\ IF tries[p] < StaleRetries
             THEN tries' = [tries EXCEPT ![p] = @ + 1] /\ Goto(p, "waiting")
             ELSE tries' = tries /\ Goto(p, "failed")
          /\ role' = role
    /\ UNCHANGED <<listener, connected, link, rejoin, pending, handOff, ends>>

RetryDetection(p) ==
    /\ step[p] = "waiting"
    /\ Goto(p, "detecting")
    /\ UNCHANGED <<listener, tries, role, connected, link, rejoin, pending, handOff, ends>>

\* The first connection is not retried.
Connect(p) ==
    /\ step[p] = "connecting"
    /\ IF Accepts
       THEN /\ link' = [link EXCEPT ![p] = [NoLink EXCEPT !.to = listener.by]]
            /\ Goto(p, "fetching")
       ELSE Goto(p, "failed") /\ link' = link
    /\ UNCHANGED <<listener, tries, role, connected, rejoin, pending, handOff, ends>>

\* The host answers the request for its sessions, or it does so too late.
Fetch(p) ==
    /\ step[p] = "fetching"
    /\ ~link[p].cut
    /\ \/ connected' = [connected EXCEPT ![p] = TRUE] /\ Goto(p, "up")
       \/ connected' = connected /\ Goto(p, "failed")
    /\ UNCHANGED <<listener, tries, role, link, rejoin, pending, handOff, ends>>

-----------------------------------------------------------------------------
(* BridgeConnection.disconnectAsync, BridgeHost.shutdownAsync              *)

\* A host tells its clients, and keeps the port until it has closed them.
ShutDown(p) ==
    /\ step[p] = "up"
    /\ connected[p]
    /\ role[p] = "host"
    /\ ends < MaxEnds
    /\ ends' = ends + 1
    /\ connected' = [connected EXCEPT ![p] = FALSE]
    /\ listener' = [by |-> p, as |-> "closing"]
    /\ link' = [q \in Procs |-> IF link[q].to = p /\ ~link[q].cut
                                THEN [link[q] EXCEPT !.notice = TRUE]
                                ELSE link[q]]
    /\ Goto(p, "draining")
    /\ UNCHANGED <<tries, role, rejoin, pending, handOff>>

Cut(l, p) == IF l.to = p THEN [l EXCEPT !.cut = TRUE] ELSE l

\* After a moment the sockets are closed and at once terminated, which may
\* destroy what a client has not read yet.
StopHost(p) ==
    /\ step[p] = "draining"
    /\ listener' = Free
    /\ \E forced \in BOOLEAN :
         link' = [q \in Procs |->
                    IF forced /\ link[q].to = p
                    THEN [Cut(link[q], p) EXCEPT !.notice = FALSE]
                    ELSE Cut(link[q], p)]
    /\ Goto(p, "closed")
    /\ UNCHANGED <<tries, role, connected, rejoin, pending, handOff, ends>>

\* A client leaves: no listener of its transport is left to start a hand-off.
Leave(p) ==
    /\ step[p] = "up"
    /\ connected[p]
    /\ role[p] = "client"
    /\ ends < MaxEnds
    /\ ends' = ends + 1
    /\ connected' = [connected EXCEPT ![p] = FALSE]
    /\ link' = [link EXCEPT ![p] = NoLink]
    /\ rejoin' = [rejoin EXCEPT ![p].timer = FALSE]
    /\ Goto(p, "closed")
    /\ UNCHANGED <<listener, tries, role, pending, handOff>>

\* The process is gone: its listener, its sockets and its timers with it.
Gone(p) ==
    /\ listener' = IF listener.by = p THEN Free ELSE listener
    /\ link' = [q \in Procs |-> IF q = p THEN NoLink ELSE Cut(link[q], p)]
    /\ connected' = [connected EXCEPT ![p] = FALSE]
    /\ rejoin' = [rejoin EXCEPT ![p].timer = FALSE]
    /\ handOff' = [handOff EXCEPT ![p] = NoHandOff]
    /\ Goto(p, "dead")

Crash(p) ==
    /\ Alive(p)
    /\ ends < MaxEnds
    /\ ends' = ends + 1
    /\ Gone(p)
    /\ UNCHANGED <<tries, role, pending>>

\* A command whose connection has failed or is closed ends.
Exit(p) ==
    /\ step[p] \in {"closed", "failed"}
    /\ Gone(p)
    /\ UNCHANGED <<tries, role, pending, ends>>

-----------------------------------------------------------------------------
(* The client's side of a lost host                                        *)

\* onHostTransferNotice; nothing resets _takeoverPending.
ReceiveNotice(p) ==
    /\ link[p].notice
    /\ link' = [link EXCEPT ![p].notice = FALSE]
    /\ pending' = [pending EXCEPT ![p] = TRUE]
    /\ UNCHANGED <<listener, step, tries, role, connected, rejoin, handOff, ends>>

ScheduleReconnect(p) ==
    rejoin' = [rejoin EXCEPT ![p] = [timer |-> TRUE, count |-> @.count + 1]]

\* Mutant: the connection does not hear that its host is lost.
LoseHostQuietly(p) ==
    /\ link[p].cut
    /\ ~link[p].notice
    /\ rejoin[p].count < Reconnects
    /\ link' = [link EXCEPT ![p] = NoLink]
    /\ handOff' = [handOff EXCEPT ![p][1].phase = "jitter"]
    /\ ScheduleReconnect(p)
    /\ Goto(p, IF step[p] = "fetching" THEN "failed" ELSE step[p])
    /\ UNCHANGED <<listener, tries, role, connected, pending, ends>>

\* The socket is closed.  A run of the hand-off begins, with a jitter unless the
\* host has announced its end, and the transport arms its timer.  When its
\* attempts are used up it reports an error nobody listens to: an 'error' event
\* without a listener throws, and the process dies of it.
HostLost(p) ==
    /\ link[p].cut
    /\ ~link[p].notice
    /\ IF rejoin[p].count < Reconnects
       THEN /\ link' = [link EXCEPT ![p] = NoLink]
            /\ connected' = [connected EXCEPT ![p] = FALSE]
            /\ \E i \in Runs :
                 /\ handOff[p][i] = NoRun
                 /\ \A j \in Runs : j < i => handOff[p][j] # NoRun
                 /\ handOff' = [handOff EXCEPT
                      ![p][i].phase = IF pending[p] THEN "binding" ELSE "jitter"]
            /\ ScheduleReconnect(p)
            /\ Goto(p, IF step[p] = "fetching" THEN "failed" ELSE step[p])
            /\ listener' = listener
       ELSE Gone(p)
    /\ UNCHANGED <<tries, role, pending, ends>>

\* Mutant: a refused connection is left to the close handler, which never runs.
ReconnectOnce(p) ==
    /\ rejoin[p].timer
    /\ rejoin' = [rejoin EXCEPT ![p].timer = FALSE]
    /\ link' = [link EXCEPT ![p] = IF Accepts THEN [NoLink EXCEPT !.to = listener.by] ELSE @]
    /\ UNCHANGED <<listener, step, tries, role, connected, pending, handOff, ends>>

\* The reconnect timer.  BridgeConnection does not hear of a success, and a
\* failure schedules the next attempt.
Reconnect(p) ==
    /\ rejoin[p].timer
    /\ IF Accepts
       THEN /\ link' = [link EXCEPT ![p] = [NoLink EXCEPT !.to = listener.by]]
            /\ rejoin' = [rejoin EXCEPT ![p] = [timer |-> FALSE, count |-> 0]]
            /\ UNCHANGED <<listener, step, connected, handOff>>
       ELSE IF rejoin[p].count < Reconnects
            THEN /\ ScheduleReconnect(p)
                 /\ UNCHANGED <<listener, step, connected, link, handOff>>
            ELSE Gone(p)
    /\ UNCHANGED <<tries, role, pending, ends>>

InPhase(p, i, ph) == handOff[p][i].phase = ph
Enter(p, i, ph) == handOff' = [handOff EXCEPT ![p][i].phase = ph]

\* The jitter after a crash and the delay between two attempts.
HandOffWaits(p, i) ==
    /\ InPhase(p, i, "jitter") \/ InPhase(p, i, "delay")
    /\ Enter(p, i, "binding")
    /\ UNCHANGED <<listener, step, tries, role, connected, link, rejoin, pending, ends>>

\* Mutant: a hand-off that cannot bind does not look for another host.
HandOffOnlyBinds(p, i) ==
    /\ InPhase(p, i, "binding")
    /\ IF listener = Free
       THEN listener' = [by |-> p, as |-> "probe"] /\ Enter(p, i, "bound")
       ELSE listener' = listener /\ Enter(p, i, "delay")
    /\ UNCHANGED <<step, tries, role, connected, link, rejoin, pending, ends>>

HandOffBinds(p, i) ==
    /\ InPhase(p, i, "binding")
    /\ IF listener = Free
       THEN listener' = [by |-> p, as |-> "probe"] /\ Enter(p, i, "bound")
       ELSE listener' = listener /\ Enter(p, i, "connecting")
    /\ UNCHANGED <<step, tries, role, connected, link, rejoin, pending, ends>>

\* tryBindAsync closes its server before it reports the success; the promotion
\* changes the role of the connection and nothing else.
HandOffPromotes(p, i) ==
    /\ InPhase(p, i, "bound")
    /\ listener' = Free
    /\ Enter(p, i, "promoted")
    /\ role' = [role EXCEPT ![p] = "host"]
    /\ UNCHANGED <<step, tries, connected, link, rejoin, pending, ends>>

HandOffConnects(p, i) ==
    /\ InPhase(p, i, "connecting")
    /\ LET tried == handOff[p][i].tried + 1 IN
       handOff' = [handOff EXCEPT ![p][i] =
          [tried |-> tried,
           phase |-> IF Accepts THEN "fallback"
                     ELSE IF tried < Attempts THEN "delay" ELSE "unreachable"]]
    /\ UNCHANGED <<listener, step, tries, role, connected, link, rejoin, pending, ends>>

HandOff(p, i) ==
    HandOffWaits(p, i) \/ HandOffBinds(p, i) \/ HandOffPromotes(p, i) \/ HandOffConnects(p, i)

-----------------------------------------------------------------------------
Connecting(p) ==
    \/ Detect(p) \/ ReleaseProbe(p) \/ StartHost(p) \/ CheckHealth(p)
    \/ RetryDetection(p) \/ Connect(p) \/ Fetch(p)

Recovering(p) ==
    ReceiveNotice(p) \/ HostLost(p) \/ \E i \in Runs : HandOff(p, i)

RolesNext == \E p \in Procs :
    \/ Start(p) \/ Connecting(p) \/ Recovering(p) \/ Reconnect(p)
    \/ ShutDown(p) \/ StopHost(p) \/ Leave(p) \/ Crash(p) \/ Exit(p)

RolesSpec == RolesInit /\ [][RolesNext]_rolesVars

\* The event loop runs: what a process awaits is served, and its timers fire.
\* Nobody has to start, to disconnect, to crash or to end.
RolesFairness == \A p \in Procs :
    /\ WF_rolesVars(Connecting(p))
    /\ WF_rolesVars(ReceiveNotice(p) \/ HostLost(p))
    /\ \A i \in Runs : WF_rolesVars(HandOff(p, i))
    /\ WF_rolesVars(Reconnect(p))
    /\ WF_rolesVars(StopHost(p))

FairRolesSpec == RolesSpec /\ RolesFairness
=============================================================================
