----------------------------- MODULE BridgeRelay -----------------------------
(***************************************************************************)
(* One bridge host: the plugins that register with it, the clients that     *)
(* relay their actions through it, and its end.                            *)
(*                                                                         *)
(* A session is a Studio plugin that may connect more than once under one   *)
(* id.  The host's messages to a client are one ordered queue, as on a      *)
(* socket; what a client or a plugin sends the host is in flight until the  *)
(* host's handler runs.  A command is one action of a BridgeSession, held    *)
(* by a client or by the host process itself: it may first sync the         *)
(* plugin's action modules and register those that are missing.            *)
(***************************************************************************)
EXTENDS Naturals, Sequences, SequencesExt, SessionSelection

CONSTANTS
    MaxConns,   \* bound: the connections all plugins make
    Clients,    \* client processes
    Host,       \* the host process, as the one who runs a command
    Cmds,       \* the commands
    Issuer,     \* Issuer[a]: the holder that runs command a
    Target,     \* Target[a]: the session command a is for
    KeepAlive   \* the host was started by "serve": no idle timer

ASSUME RelayAssumption ==
    /\ Host \notin Clients
    /\ MaxConns \in Nat
    /\ KeepAlive \in BOOLEAN
    /\ IsFiniteSet(Cmds)
    /\ Issuer \in [Cmds -> Clients \cup {Host}]
    /\ Target \in [Cmds -> Sessions]

VARIABLES
    conn,       \* conn[s][k]: the k-th connection of plugin s
    plugins,    \* _plugins of the BridgeHost: the connection of a session, or 0
    tracked,    \* the sessions of the SessionTracker
    groups,     \* _instanceSessions of the SessionTracker
    phase,      \* the host process: serving, draining, stopping or stopped
    awaited,    \* the relays disconnectAsync waits for
    relays,     \* _pendingRelays
    idle,       \* the idle timer is armed
    joined,     \* joined[c]: the state of client c's connection
    known,      \* known[c]: the sessions client c has handles of
    inbox,      \* inbox[c]: what the host has sent client c
    ready,      \* ready[h][s]: _actionsReady of holder h's BridgeSession
    cmd         \* cmd[a]: the state of command a

hostVars == <<plugins, tracked, groups, phase, awaited, relays, idle>>
vars == <<conn, plugins, tracked, groups, phase, awaited, relays, idle,
          joined, known, inbox, ready, cmd>>

Conns == 1 .. MaxConns
Holders == Clients \cup {Host}
Serving == phase \in {"serving", "draining"}

\* What a plugin may answer in each phase of a command.  A result of a type the
\* session does not expect counts like the last one of its phase, and a refused
\* registration like one that was made.
Answers(ph) == CASE ph = "sync"     -> {"needed", "nothing"}
                 [] ph = "register" -> {"registered"}
                 [] OTHER           -> {"done"}
Results == {"needed", "nothing", "registered", "done", "rejected"}

NewCmd(a) == [by |-> Issuer[a], to |-> Target[a], phase |-> "none",
           at |-> "none", conn |-> 0, result |-> "none", current |-> TRUE,
           gaveUp |-> FALSE]

Messages ==
    [type : {"connected", "disconnected"}, session : Sessions]
    \cup [type : {"list"}, sessions : SUBSET Sessions]
    \cup [type : {"response"}, cmd : Cmds, phase : {"sync", "register", "act"},
          result : Results]

Init ==
    /\ conn = [s \in Sessions |-> [k \in Conns |-> "none"]]
    /\ plugins = [s \in Sessions |-> 0]
    /\ tracked = {}
    /\ groups = [i \in Instances |-> {}]
    /\ phase = "serving"
    /\ awaited = {} /\ relays = {}
    /\ idle = FALSE
    /\ joined = [c \in Clients |-> "out"]
    /\ known = [c \in Clients |-> {}]
    /\ inbox = [c \in Clients |-> <<>>]
    /\ ready = [h \in Holders |-> [s \in Sessions |-> FALSE]]
    /\ cmd = [a \in Cmds |-> NewCmd(a)]

-----------------------------------------------------------------------------
(* Replies and events                                                      *)

\* The clients whose socket the host still sends to.
Listening(c) == joined[c] \in {"asked", "listed"}

Response(a, r) == [type |-> "response", cmd |-> a, phase |-> cmd[a].phase, result |-> r]

\* The host's answers to the relayed commands as, which failed.
Rejections(as, c) ==
    LET mine == SetToSeq({a \in as : cmd[a].by = c})
    IN  [i \in DOMAIN mine |-> Response(mine[i], "rejected")]

\* Every listening client gets the events and the rejections meant for it.
Send(events, as) == inbox' = [c \in Clients |->
    IF Listening(c) THEN inbox[c] \o events \o Rejections(as, c) ELSE inbox[c]]

Failed(c) == [c EXCEPT !.phase = "failed", !.at = "none", !.conn = 0, !.result = "none"]

\* The request of a command is no longer pending at the host.  A relay answers
\* its client, a command of the host process itself fails.
Rejected(c) == IF c.by = Host THEN Failed(c)
               ELSE [c EXCEPT !.at = "toClient", !.conn = 0, !.result = "none"]

PendingOn(s, k) == {a \in Cmds : cmd[a].to = s /\ cmd[a].conn = k /\ k # 0}

\* A BridgeSession that is replaced at holder h: its commands keep the old one.
Orphaned(h, s) == [a \in Cmds |->
    IF cmd[a].by = h /\ cmd[a].to = s /\ cmd[a].at # "none" THEN [cmd[a] EXCEPT !.current = FALSE] ELSE cmd[a]]

-----------------------------------------------------------------------------
(* Plugins                                                                 *)

PluginConnects(s, k) ==
    /\ Serving
    /\ conn[s][k] = "none"
    /\ \A j \in Conns : j < k => conn[s][j] # "none"
    /\ Cardinality({x \in Sessions \X Conns : conn[x[1]][x[2]] # "none"}) < MaxConns
    /\ conn' = [conn EXCEPT ![s][k] = "open"]
    /\ UNCHANGED <<hostVars, joined, known, inbox, ready, cmd>>

\* _resetIdleTimer.
IdleAfter(sessions) == ~KeepAlive /\ sessions = {}

\* _registerPlugin: an older connection of the session is closed, and what is
\* pending on it cancelled; the session is added (again) to the tracker.
PluginRegisters(s, k) ==
    /\ Serving
    /\ conn[s][k] = "open"
    /\ LET old == plugins[s]
           cancelled == PendingOn(s, old)
       IN  /\ conn' = [conn EXCEPT ![s] = [j \in Conns |->
                CASE j = k -> "registered" [] j = old -> "closing" [] OTHER -> conn[s][j]]]
           /\ Send(<<[type |-> "connected", session |-> s]>>, cancelled)
           /\ cmd' = [a \in Cmds |-> IF a \in cancelled THEN Rejected(Orphaned(Host, s)[a])
                                     ELSE Orphaned(Host, s)[a]]
           /\ relays' = relays \ cancelled
    /\ plugins' = [plugins EXCEPT ![s] = k]
    /\ tracked' = tracked \cup {s}
    /\ groups' = [groups EXCEPT ![InstanceOf[s]] = @ \cup {s}]
    /\ idle' = IdleAfter(tracked')
    /\ ready' = [ready EXCEPT ![Host][s] = FALSE]
    /\ UNCHANGED <<phase, awaited, joined, known>>

\* Mutant: it forgets the session whichever connection closes.
IsRegistered(s, k) == plugins[s] # 0

\* The close handler of a connection forgets the session only if the
\* connection is still the session's.
IsCurrent(s, k) == plugins[s] = k

PluginCloses(s, k) ==
    /\ Serving
    /\ conn[s][k] \in {"open", "registered", "closing"}
    /\ conn' = [conn EXCEPT ![s][k] = "closed"]
    /\ IF IsCurrent(s, k) /\ conn[s][k] # "open"
       THEN LET cancelled == PendingOn(s, k) IN
            /\ plugins' = [plugins EXCEPT ![s] = 0]
            /\ tracked' = tracked \ {s}
            /\ groups' = [groups EXCEPT ![InstanceOf[s]] = @ \ {s}]
            /\ idle' = IdleAfter(tracked')
            /\ ready' = [ready EXCEPT ![Host][s] = FALSE]
            /\ Send(<<[type |-> "disconnected", session |-> s]>>, cancelled)
            /\ cmd' = [a \in Cmds |-> IF a \in cancelled THEN Rejected(Orphaned(Host, s)[a])
                                      ELSE Orphaned(Host, s)[a]]
            /\ relays' = relays \ cancelled
       ELSE UNCHANGED <<plugins, tracked, groups, idle, ready, inbox, cmd, relays>>
    /\ UNCHANGED <<phase, awaited, joined, known>>

-----------------------------------------------------------------------------
(* Clients and commands                                                    *)

\* A client connects and asks for the sessions.
Join(c) ==
    /\ Serving
    /\ joined[c] = "out"
    /\ joined' = [joined EXCEPT ![c] = "asked"]
    /\ UNCHANGED <<conn, hostVars, known, inbox, ready, cmd>>

ListSessions(c) ==
    /\ Serving
    /\ joined[c] = "asked"
    /\ joined' = [joined EXCEPT ![c] = "listed"]
    /\ inbox' = [inbox EXCEPT ![c] = Append(@, [type |-> "list", sessions |-> tracked])]
    /\ UNCHANGED <<conn, hostVars, known, ready, cmd>>

\* What holder h takes for connected (isConnected of the session's handle).
SeesConnected(h, s) == IF h = Host THEN s \in tracked ELSE joined[h] \in {"listed", "cut"} /\ s \in known[h]

\* Where the next request of a command goes: into the client's socket, or
\* straight to the plugin.
Requested(c) ==
    IF c.by # Host THEN [c EXCEPT !.at = "toHost"]
    ELSE IF plugins[c.to] = 0 THEN Failed(c)
    ELSE [c EXCEPT !.at = "atPlugin", !.conn = plugins[c.to]]

\* A command begins: _assertConnected, then _ensureActionsAsync.
Begin(a) ==
    LET h == Issuer[a]
        s == Target[a]
    IN  /\ cmd[a].phase = "none"
        /\ SeesConnected(h, s)
        /\ cmd' = [cmd EXCEPT ![a] =
             Requested([@ EXCEPT !.phase = IF ready[h][s] THEN "act" ELSE "sync"])]
        /\ UNCHANGED <<conn, hostVars, joined, known, inbox, ready>>

\* _relayEnvelopeAsync.
Relay(a) ==
    /\ Serving
    /\ cmd[a].at = "toHost"
    /\ LET c == cmd[a] IN
       IF plugins[c.to] # 0
       THEN /\ cmd' = [cmd EXCEPT ![a].at = "atPlugin", ![a].conn = plugins[c.to]]
            /\ relays' = relays \cup {a}
            /\ inbox' = inbox
       ELSE /\ cmd' = [cmd EXCEPT ![a].at = "toClient"]
            /\ Send(<<>>, {a})
            /\ relays' = relays
    /\ UNCHANGED <<conn, plugins, tracked, groups, phase, awaited, idle, joined, known, ready>>

\* A plugin answers as long as its connection is there.
PluginAnswers(a, r) ==
    /\ cmd[a].at = "atPlugin"
    /\ conn[cmd[a].to][cmd[a].conn] = "registered"
    /\ r \in Answers(cmd[a].phase)
    /\ cmd' = [cmd EXCEPT ![a].at = "answered", ![a].result = r]
    /\ UNCHANGED <<conn, hostVars, joined, known, inbox, ready>>

\* What a holder does with a result, of the plugin or of the relay: after a
\* sync it registers what is needed, and any other result, an error message of
\* the relay included, makes the session ready and the action is sent.
Next_(c, r) == CASE c.phase = "sync" /\ r = "needed" -> "register"
                 [] c.phase \in {"sync", "register"} -> "act"
                 [] OTHER                            -> "ended"
BecomesReady(c, r) == c.phase # "act" /\ Next_(c, r) = "act" /\ c.current

Proceed(a, c, r) ==
    LET then == [c EXCEPT !.phase = Next_(c, r), !.conn = 0, !.at = "none", !.result = "none"]
    IN  /\ cmd' = [cmd EXCEPT ![a] = IF then.phase = "ended" THEN then ELSE Requested(then)]
        /\ ready' = IF BecomesReady(c, r) THEN [ready EXCEPT ![c.by][c.to] = TRUE] ELSE ready

\* _dispatchPluginMessage: an answer to a request that is no longer pending is
\* dropped (such a request has left this state).
Dispatch(a) ==
    /\ Serving
    /\ cmd[a].at = "answered"
    /\ IF cmd[a].by = Host
       THEN Proceed(a, cmd[a], cmd[a].result) /\ UNCHANGED <<inbox, relays>>
       ELSE /\ cmd' = [cmd EXCEPT ![a].at = "toClient", ![a].conn = 0, ![a].result = "none"]
            /\ inbox' = [inbox EXCEPT ![cmd[a].by] =
                  IF Listening(cmd[a].by) THEN Append(@, Response(a, cmd[a].result)) ELSE @]
            /\ relays' = relays \ {a}
            /\ ready' = ready
    /\ UNCHANGED <<conn, plugins, tracked, groups, phase, awaited, idle, joined, known>>

\* Mutant: a relay that has timed out is still waited for.
RequestTimesOutOnly(a) ==
    /\ cmd[a].at \in {"atPlugin", "answered"}
    /\ cmd' = [cmd EXCEPT ![a] = Rejected(cmd[a])]
    /\ Send(<<>>, {a})
    /\ UNCHANGED <<conn, plugins, tracked, groups, phase, awaited, relays, idle, joined, known,
                   ready>>

\* The timer of the PendingRequestMap.
RequestTimesOut(a) ==
    /\ cmd[a].at \in {"atPlugin", "answered"}
    /\ cmd' = [cmd EXCEPT ![a] = Rejected(cmd[a])]
    /\ Send(<<>>, {a})
    /\ relays' = relays \ {a}
    /\ UNCHANGED <<conn, plugins, tracked, groups, phase, awaited, idle, joined, known, ready>>

\* A client handles the next message of its host.  A session it knows keeps its
\* BridgeSession, one that is gone loses it.
Receive(c) ==
    /\ joined[c] \in {"asked", "listed", "cut"}
    /\ inbox[c] # <<>>
    /\ inbox' = [inbox EXCEPT ![c] = Tail(@)]
    /\ LET m == Head(inbox[c]) IN
       CASE m.type = "connected" ->
              /\ known' = [known EXCEPT ![c] = @ \cup {m.session}]
              /\ UNCHANGED <<ready, cmd>>
         [] m.type = "list" ->
              /\ known' = [known EXCEPT ![c] = @ \cup m.sessions]
              /\ UNCHANGED <<ready, cmd>>
         [] m.type = "disconnected" ->
              /\ known' = [known EXCEPT ![c] = @ \ {m.session}]
              /\ ready' = [ready EXCEPT ![c][m.session] = FALSE]
              /\ cmd' = Orphaned(c, m.session)
         [] m.type = "response" ->
              /\ known' = known
              /\ IF cmd[m.cmd].gaveUp
                 THEN cmd' = [cmd EXCEPT ![m.cmd] = Failed(@)] /\ ready' = ready
                 ELSE Proceed(m.cmd, cmd[m.cmd], m.result)
    /\ UNCHANGED <<conn, hostVars, joined>>

\* The client's own timer, two seconds behind the host's: the command fails, and
\* the host goes on with a request whose answer nobody waits for.
ClientTimesOut(a) ==
    /\ cmd[a].by # Host
    /\ cmd[a].at # "none"
    /\ ~cmd[a].gaveUp
    /\ cmd' = [cmd EXCEPT ![a].gaveUp = TRUE]
    /\ UNCHANGED <<conn, hostVars, joined, known, inbox, ready>>

\* Mutant: the requests of a client whose host is gone are left to their timers.
LoseHostOnly(c) ==
    /\ joined[c] = "cut"
    /\ inbox[c] = <<>>
    /\ joined' = [joined EXCEPT ![c] = "lost"]
    /\ UNCHANGED <<conn, hostVars, known, inbox, ready, cmd>>

\* The socket of a client is closed: every request of its fails.
LoseHost(c) ==
    /\ joined[c] = "cut"
    /\ inbox[c] = <<>>
    /\ joined' = [joined EXCEPT ![c] = "lost"]
    /\ cmd' = [a \in Cmds |->
         IF cmd[a].by = c /\ cmd[a].at # "none" THEN Failed(cmd[a]) ELSE cmd[a]]
    /\ UNCHANGED <<conn, hostVars, known, inbox, ready>>

-----------------------------------------------------------------------------
(* The end of the host                                                     *)

\* disconnectAsync, called by the command that is done or by the idle timer.
Disconnect ==
    /\ phase = "serving"
    /\ phase' = "draining"
    /\ idle' = FALSE
    /\ awaited' = relays
    /\ UNCHANGED <<conn, plugins, tracked, groups, relays, joined, known, inbox, ready, cmd>>

IdleFires ==
    /\ idle
    /\ idle' = FALSE
    /\ IF phase = "serving" THEN phase' = "draining" /\ awaited' = relays
                            ELSE UNCHANGED <<phase, awaited>>
    /\ UNCHANGED <<conn, plugins, tracked, groups, relays, joined, known, inbox, ready, cmd>>

\* The relays it waited for are answered, or the drain has taken too long;
\* shutdownAsync tells the plugins to go and, after a moment, closes
\* everything: what is pending is cancelled, and no answer leaves the host.
Drained == awaited \cap relays = {}

Stop ==
    /\ phase = "draining"
    /\ phase' = "stopped"
    /\ plugins' = [s \in Sessions |-> 0]
    /\ tracked' = {}
    /\ groups' = [i \in Instances |-> {}]
    /\ relays' = {} /\ awaited' = {} /\ idle' = FALSE
    /\ joined' = [c \in Clients |-> IF Listening(c) THEN "cut" ELSE joined[c]]
    /\ conn' = [s \in Sessions |-> [k \in Conns |->
                  IF conn[s][k] = "none" THEN "none" ELSE "closed"]]
    /\ cmd' = [a \in Cmds |-> IF cmd[a].by = Host /\ cmd[a].at # "none"
                              THEN Failed(cmd[a])
                              ELSE IF cmd[a].at \in {"atPlugin", "answered"}
                              THEN Rejected(cmd[a]) ELSE cmd[a]]
    /\ UNCHANGED <<known, inbox, ready>>

StopDrained == Drained /\ Stop
StopInTime == ~Drained /\ Stop

-----------------------------------------------------------------------------
Next ==
    \/ \E s \in Sessions, k \in Conns :
         PluginConnects(s, k) \/ PluginRegisters(s, k) \/ PluginCloses(s, k)
    \/ \E c \in Clients : Join(c) \/ ListSessions(c) \/ Receive(c) \/ LoseHost(c)
    \/ \E a \in Cmds :
         \/ Begin(a) \/ Relay(a) \/ Dispatch(a) \/ RequestTimesOut(a) \/ ClientTimesOut(a)
         \/ \E r \in Results : PluginAnswers(a, r)
    \/ Disconnect \/ IdleFires \/ StopDrained \/ StopInTime

Spec == Init /\ [][Next]_vars

\* Messages arrive and the host's timers fire; a plugin need not answer, a
\* client's timer need not fire, and nobody has to disconnect.
Fairness ==
    /\ \A c \in Clients : WF_vars(ListSessions(c)) /\ WF_vars(Receive(c)) /\ WF_vars(LoseHost(c))
    /\ \A a \in Cmds : WF_vars(Relay(a)) /\ WF_vars(Dispatch(a)) /\ WF_vars(RequestTimesOut(a))
    /\ WF_vars(Stop)

FairSpec == Spec /\ Fairness

-----------------------------------------------------------------------------
(* Properties.                                                             *)

Commands(a) ==
    [by : {Issuer[a]}, to : {Target[a]},
     phase : {"none", "sync", "register", "act", "failed", "ended"},
     at : {"none", "toHost", "atPlugin", "answered", "toClient"},
     conn : 0 .. MaxConns, result : Results \cup {"none"},
     current : BOOLEAN, gaveUp : BOOLEAN]

TypeOK ==
    /\ conn \in [Sessions -> [Conns -> {"none", "open", "registered", "closing", "closed"}]]
    /\ plugins \in [Sessions -> 0 .. MaxConns]
    /\ tracked \in SUBSET Sessions
    /\ groups \in [Instances -> SUBSET Sessions]
    /\ phase \in {"serving", "draining", "stopped"}
    /\ awaited \in SUBSET Cmds /\ relays \in SUBSET Cmds
    /\ idle \in BOOLEAN
    /\ joined \in [Clients -> {"out", "asked", "listed", "cut", "lost"}]
    /\ known \in [Clients -> SUBSET Sessions]
    /\ inbox \in [Clients -> Seq(Messages)]
    /\ ready \in [Holders -> [Sessions -> BOOLEAN]]
    /\ DOMAIN cmd = Cmds /\ \A a \in Cmds : cmd[a] \in Commands(a)

\* The tracker, its instance groups and the host's connections agree after any
\* order of registering, replacing and closing: the close of a connection that
\* was replaced does not take the session away from its successor.
TrackerMatches ==
    /\ tracked = {s \in Sessions : plugins[s] # 0}
    /\ \A i \in Instances : groups[i] = {s \in tracked : InstanceOf[s] = i}
    /\ \A s \in Sessions, k \in Conns : conn[s][k] = "registered" <=> plugins[s] = k

\* What a client lists once it has handled the messages q that are under way to it.
Adds(m, s) == \/ m.type = "connected" /\ m.session = s
              \/ m.type = "list" /\ s \in m.sessions
Removes(m, s) == m.type = "disconnected" /\ m.session = s
Listed(has, q) == {s \in Sessions :
    \/ s \in has /\ \A i \in 1 .. Len(q) : ~Removes(q[i], s)
    \/ \E i \in 1 .. Len(q) : /\ Adds(q[i], s)
                              /\ \A j \in i + 1 .. Len(q) : ~Removes(q[j], s)}
ListedOnce(c) == Listed(known[c], inbox[c])

\* A client's sessions and their states are the host's as soon as it has handled
\* its messages: events that precede the list, or race the rejections of a
\* connection that is replaced, leave no gap (_handleSessionEvent).
CacheCatchesUp == \A c \in Clients :
    joined[c] = "listed" =>
        [s \in ListedOnce(c) |-> InstanceState(ListedOnce(c), s)]
            = [s \in tracked |-> InstanceState(tracked, s)]

\* The sessions that the host lists are those whose plugins are connected, and
\* those that its clients list are the host's.
ListsAreTrue == TrackerMatches /\ CacheCatchesUp

Pending(a) == cmd[a].at \in {"atPlugin", "answered"}

\* A request is pending only on the connection its session has now: whatever
\* replaces or closes a connection cancels what was pending on it.
PendingIsLive == \A a \in Cmds : Pending(a) => plugins[cmd[a].to] = cmd[a].conn

\* The relays a disconnecting host waits for are those still pending: none is
\* forgotten, none is waited for in vain (_pendingRelays), and none is pending
\* on a connection that its session no longer has.
RelaysPending ==
    /\ PendingIsLive
    /\ Serving => relays = {a \in Cmds : cmd[a].by # Host /\ Pending(a)}

\* A command runs in a session it named: the session itself, the only one its
\* prefix begins, or one of the only instance that what it said can mean; and
\* always in the context it asked for (resolveSessionAsync, findSessions).
ResolvesWhatIsMeant == \A t \in Targets, ctx \in Contexts :
    LET got == ResolveSession(tracked, t, ctx)
        listed == FindSessions(tracked, t, AnyContext)
    IN  got.found =>
          /\ InContext(got.session, ctx)
          /\ \/ t = got.session
             \/ {s \in tracked : StartsWith(t, s) /\ InContext(s, ctx)} = {got.session}
             \/ InstancesOf(listed) = {InstanceOf[got.session]}

\* Every command ends without its client's own timer: the host answers each
\* request it has taken, a plugin that stays silent included, and a client that
\* loses its host gives up what it has sent.
CommandsEnd == <>[](\A a \in Cmds : cmd[a].at = "none")
=============================================================================
