----------------------------- MODULE BridgeProofs -----------------------------
(***************************************************************************)
(* Proofs about the two parts of a bridge, for any number of processes,     *)
(* sessions, connections, clients and commands.                             *)
(*                                                                         *)
(* BridgeRoles, who hosts.  A report is true because of what leads to it.   *)
(* The invariant therefore follows each process from its first step: the    *)
(* role its step has (Roles), that nobody who connects, or is connected,    *)
(* has lost a host (Quiet), who has a socket (Socket), who holds the port   *)
(* (Port), and that a hand-off that goes on has an attempt left (Tries).  A *)
(* step of one process cannot disturb what holds of another                 *)
(* (OthersKeepTheirs), for it takes the port only when it is free and gives *)
(* up only its own.                                                         *)
(*                                                                         *)
(* BridgeRelay, what a host lists and what its clients list, which requests *)
(* are pending, and which session a command is run in.  A request is        *)
(* pending only on the connection that its session has, so that replacing   *)
(* or closing it cancels exactly what is pending there; a command has at    *)
(* most one answer under way to its client, and none while it is pending;   *)
(* and the events under way to a client turn what it lists into what the    *)
(* host lists.                                                              *)
(***************************************************************************)
EXTENDS MCBridgeRoles, BridgeRelay, FiniteSetTheorems, TLAPS

(***************************************************************************)
(* BridgeRoles                                                             *)
(***************************************************************************)

Early == {"idle", "detecting", "probing", "starting", "checking", "waiting", "connecting"}

Roles(p) ==
    /\ connected[p] => step[p] = "up"
    /\ step[p] = "starting" => role[p] = "host"
    /\ step[p] \in {"connecting", "fetching"} => role[p] = "client"

Quiet(p) ==
    connected[p] \/ step[p] \in Early \cup {"fetching"} =>
        handOff[p] = NoHandOff /\ ~rejoin[p].timer

Socket(p) ==
    /\ step[p] \in Early \/ (connected[p] /\ role[p] = "host") => link[p] = NoLink
    /\ step[p] = "fetching" \/ (connected[p] /\ role[p] = "client") => link[p].to # Nobody

Holds(p, as) == listener = [by |-> p, as |-> as]
Bound(p, i) == handOff[p][i].phase = "bound"

Port(p) ==
    /\ step[p] = "probing" => Holds(p, "probe")
    /\ step[p] = "draining" => Holds(p, "closing")
    /\ connected[p] /\ role[p] = "host" => Holds(p, "bridge")
    /\ \A i \in Runs : Bound(p, i) => Holds(p, "probe")
    /\ \A i, j \in Runs : Bound(p, i) /\ Bound(p, j) => i = j

Tries(p) == \A i \in Runs : Going(p, i) => handOff[p][i].tried < Attempts

Own(p) == Roles(p) /\ Quiet(p) /\ Socket(p) /\ Port(p) /\ Tries(p)

RolesInv == RolesTypeOK /\ \A p \in Procs : Own(p)

-----------------------------------------------------------------------------
(* What a step of p leaves alone                                           *)

KeepsPort(p) == listener' = listener \/ listener = Free \/ listener.by = p

KeepsLink(q) == (link[q] = NoLink => link'[q] = NoLink) /\ link'[q].to = link[q].to

SameElsewhere(p) == \A q \in Procs \ {p} :
    /\ step'[q] = step[q] /\ connected'[q] = connected[q] /\ role'[q] = role[q]
    /\ rejoin'[q] = rejoin[q] /\ handOff'[q] = handOff[q]
    /\ KeepsLink(q)

LEMMA HeldByOne ==
    ASSUME NEW p, NEW q, NEW a, NEW b, Holds(p, a), Holds(q, b)
    PROVE  p = q /\ a = b /\ listener.by = p
BY DEF Holds

LEMMA NotHeldWhenFree ==
    ASSUME NEW p \in Procs, NEW a, listener = Free
    PROVE  ~Holds(p, a)
BY RolesAssumption DEF Holds, Free

LEMMA OthersKeepTheirs ==
    ASSUME RolesInv, NEW p \in Procs, KeepsPort(p), SameElsewhere(p), RolesTypeOK', Own(p)'
    PROVE  RolesInv'
<1> SUFFICES ASSUME NEW q \in Procs \ {p} PROVE Own(q)'
  BY DEF RolesInv
<1>1. Own(q)
  BY DEF RolesInv
<1>2. ASSUME NEW a, Holds(q, a) PROVE Holds(q, a)'
  <2>1. listener # Free
    BY <1>2, NotHeldWhenFree
  <2>2. listener.by = q
    BY <1>2, HeldByOne
  <2> QED BY <1>2, <2>1, <2>2 DEF KeepsPort, Holds
<1>3. /\ step'[q] = step[q] /\ connected'[q] = connected[q] /\ role'[q] = role[q]
      /\ rejoin'[q] = rejoin[q] /\ handOff'[q] = handOff[q]
      /\ KeepsLink(q)
  BY DEF SameElsewhere
<1>4. Roles(q)' /\ Quiet(q)' /\ Tries(q)'
  BY <1>1, <1>3 DEF Own, Roles, Quiet, Tries, Going
<1>5. Socket(q)'
  BY <1>1, <1>3 DEF Own, Socket, KeepsLink
<1>6. Port(q)'
  BY <1>1, <1>2, <1>3 DEF Own, Port, Bound
<1> QED
  BY <1>4, <1>5, <1>6 DEF Own

-----------------------------------------------------------------------------
\* Nothing is reported at the start.
LEMMA InitEstablishes == RolesInit => RolesInv
<1> SUFFICES ASSUME RolesInit PROVE RolesInv
  OBVIOUS
<1> USE DEF RolesInit
<1>1. RolesTypeOK
  BY RolesAssumption DEF RolesTypeOK, Listeners, Free, Steps, Links, NoLink, NoHandOff, NoRun,
                         HandOffPhases, Runs
<1>2. ASSUME NEW p \in Procs PROVE Own(p)
  <2>1. \A i \in Runs : handOff[p][i].phase = "none"
    BY DEF NoHandOff, NoRun
  <2>2. Roles(p) /\ Quiet(p) /\ Socket(p)
    BY DEF Roles, Quiet, Socket, Early
  <2>3. Port(p) /\ Tries(p)
    BY <2>1 DEF Port, Tries, Bound, Going
  <2> QED BY <2>2, <2>3 DEF Own
<1> QED
  BY <1>1, <1>2 DEF RolesInv

-----------------------------------------------------------------------------
\* The steps of connectAsync: a process that has no hand-off and no timer takes
\* the port when it is free, or a socket to whoever accepts one.
LEMMA ConnectingPreserves ==
    ASSUME RolesInv, NEW p \in Procs, Start(p) \/ Connecting(p)
    PROVE  RolesInv'
<1>0. RolesTypeOK /\ Own(p)
  BY DEF RolesInv
<1>1. RolesTypeOK'
  <2> USE <1>0
  <2>1. CASE Start(p)
    BY <2>1 DEF Start, Goto, RolesTypeOK, Steps
  <2>2. CASE Detect(p)
    <3>1. step' \in [Procs -> Steps]
      BY <2>2 DEF Detect, Goto, RolesTypeOK, Steps
    <3>2. listener' \in Listeners
      BY <2>2 DEF Detect, RolesTypeOK, Listeners
    <3> QED BY <2>2, <3>1, <3>2 DEF Detect, RolesTypeOK
  <2>3. CASE ReleaseProbe(p)
    <3>1. step' \in [Procs -> Steps] /\ role' \in [Procs -> {"none", "host", "client"}]
      BY <2>3 DEF ReleaseProbe, Goto, RolesTypeOK, Steps
    <3>2. listener' \in Listeners
      BY <2>3 DEF ReleaseProbe, RolesTypeOK, Listeners
    <3> QED BY <2>3, <3>1, <3>2 DEF ReleaseProbe, RolesTypeOK
  <2>4. CASE StartHost(p)
    <3>1. step' \in [Procs -> Steps] /\ connected' \in [Procs -> BOOLEAN]
      BY <2>4 DEF StartHost, Goto, RolesTypeOK, Steps
    <3>2. listener' \in Listeners
      BY <2>4 DEF StartHost, RolesTypeOK, Listeners
    <3> QED BY <2>4, <3>1, <3>2 DEF StartHost, RolesTypeOK
  <2>5. CASE CheckHealth(p)
    <3>1. step' \in [Procs -> Steps] /\ role' \in [Procs -> {"none", "host", "client"}]
      BY <2>5 DEF CheckHealth, Goto, RolesTypeOK, Steps
    <3>2. tries' \in [Procs -> 0 .. StaleRetries]
      <4>1. tries[p] < StaleRetries => tries[p] + 1 \in 0 .. StaleRetries
        BY RolesAssumption DEF RolesTypeOK
      <4> QED BY <2>5, <4>1 DEF CheckHealth, RolesTypeOK
    <3> QED BY <2>5, <3>1, <3>2 DEF CheckHealth, RolesTypeOK
  <2>6. CASE RetryDetection(p)
    BY <2>6 DEF RetryDetection, Goto, RolesTypeOK, Steps
  <2>7. CASE Connect(p)
    <3>1. step' \in [Procs -> Steps]
      BY <2>7 DEF Connect, Goto, RolesTypeOK, Steps
    <3>2. [NoLink EXCEPT !.to = listener.by] \in Links
      <4>1. listener.by \in Procs \cup {Nobody}
        BY DEF RolesTypeOK, Listeners, Free
      <4> QED BY <4>1 DEF NoLink, Links
    <3>3. link' \in [Procs -> Links]
      BY <2>7, <3>2 DEF Connect, RolesTypeOK
    <3> QED BY <2>7, <3>1, <3>3 DEF Connect, RolesTypeOK
  <2>8. CASE Fetch(p)
    BY <2>8 DEF Fetch, Goto, RolesTypeOK, Steps
  <2> QED BY <2>1, <2>2, <2>3, <2>4, <2>5, <2>6, <2>7, <2>8 DEF Connecting
<1>2. /\ UNCHANGED <<handOff, rejoin>>
      /\ \A q \in Procs \ {p} : /\ step'[q] = step[q] /\ connected'[q] = connected[q]
                                /\ role'[q] = role[q] /\ link'[q] = link[q]
  <2> USE <1>0 DEF RolesTypeOK, Goto
  <2>1. CASE Start(p) BY <2>1 DEF Start
  <2>2. CASE Detect(p) BY <2>2 DEF Detect
  <2>3. CASE ReleaseProbe(p) BY <2>3 DEF ReleaseProbe
  <2>4. CASE StartHost(p) BY <2>4 DEF StartHost
  <2>5. CASE CheckHealth(p) BY <2>5 DEF CheckHealth
  <2>6. CASE RetryDetection(p) BY <2>6 DEF RetryDetection
  <2>7. CASE Connect(p) BY <2>7 DEF Connect
  <2>8. CASE Fetch(p) BY <2>8 DEF Fetch
  <2> QED BY <2>1, <2>2, <2>3, <2>4, <2>5, <2>6, <2>7, <2>8 DEF Connecting
<1>3. SameElsewhere(p)
  BY <1>2 DEF SameElsewhere, KeepsLink
<1>4. /\ handOff[p] = NoHandOff /\ ~rejoin[p].timer /\ ~connected[p]
      /\ \A i \in Runs : handOff'[p][i].phase = "none"
  <2>1. step[p] \in Early \cup {"fetching"}
    BY DEF Connecting, Start, Detect, ReleaseProbe, StartHost, CheckHealth, RetryDetection,
           Connect, Fetch, Early
  <2>2. handOff[p] = NoHandOff /\ ~rejoin[p].timer /\ ~connected[p]
    BY <1>0, <2>1 DEF Own, Quiet, Roles, Early
  <2> QED BY <1>2, <2>2 DEF NoHandOff, NoRun
<1>5. Quiet(p)' /\ Tries(p)'
  BY <1>2, <1>4 DEF Quiet, Tries, Going
<1>6. SUFFICES KeepsPort(p) /\ Roles(p)' /\ Socket(p)'
               /\ (step'[p] = "probing" => Holds(p, "probe")')
               /\ (step'[p] = "draining" => Holds(p, "closing")')
               /\ (connected'[p] /\ role'[p] = "host" => Holds(p, "bridge")')
  <2>1. Port(p)'
    BY <1>4, <1>6 DEF Port, Bound
  <2> QED BY <1>1, <1>3, <1>5, <1>6, <2>1, OthersKeepTheirs DEF Own
<1> USE <1>0, <1>4 DEF RolesTypeOK, Own, Roles, Socket, Early, KeepsPort, Goto
<1>7. CASE Start(p)
  BY <1>7 DEF Start
<1>8. CASE Detect(p)
  BY <1>8 DEF Detect, Holds
<1>9. CASE ReleaseProbe(p)
  BY <1>9 DEF ReleaseProbe, Port, Holds
<1>10. CASE StartHost(p)
  BY <1>10 DEF StartHost, Holds
<1>11. CASE CheckHealth(p)
  BY <1>11 DEF CheckHealth
<1>12. CASE RetryDetection(p)
  BY <1>12 DEF RetryDetection
<1>13. CASE Connect(p)
  <2>1. Accepts => listener.by # Nobody
    BY RolesAssumption DEF Accepts, Listeners, Free
  <2>2. [NoLink EXCEPT !.to = listener.by].to = listener.by
    BY DEF NoLink
  <2>3. listener' = listener /\ role' = role /\ connected' = connected
    BY <1>13 DEF Connect
  <2>4. CASE Accepts
    <3>1. step'[p] = "fetching" /\ link'[p].to # Nobody
      BY <1>13, <2>1, <2>2, <2>4 DEF Connect
    <3>2. role[p] = "client"
      BY <1>13 DEF Connect
    <3> QED BY <2>3, <3>1, <3>2
  <2>5. CASE ~Accepts
    <3>1. step'[p] = "failed"
      BY <1>13, <2>5 DEF Connect
    <3> QED BY <2>3, <3>1
  <2> QED BY <2>4, <2>5
<1>14. CASE Fetch(p)
  BY <1>14 DEF Fetch
<1> QED
  BY <1>7, <1>8, <1>9, <1>10, <1>11, <1>12, <1>13, <1>14 DEF Connecting

-----------------------------------------------------------------------------
\* A link that is cut, or told the end, still leads where it led.
LEMMA LinksStay ==
    ASSUME NEW l \in Links, NEW p \in Procs
    PROVE  /\ Cut(l, p) \in Links
           /\ Cut(l, p).to = l.to
           /\ l = NoLink => Cut(l, p) = NoLink /\ l.to # p
           /\ \A b \in BOOLEAN : /\ [l EXCEPT !.notice = b] \in Links
                                 /\ [l EXCEPT !.notice = b].to = l.to
<1>1. \A b \in BOOLEAN : /\ [l EXCEPT !.notice = b] \in Links
                        /\ [l EXCEPT !.notice = b].to = l.to
  BY DEF Links
<1>2. [l EXCEPT !.cut = TRUE] \in Links /\ [l EXCEPT !.cut = TRUE].to = l.to
  BY DEF Links
<1>3. l = NoLink => l.to # p
  BY RolesAssumption DEF NoLink
<1>4. CASE l.to = p
  BY <1>1, <1>2, <1>3, <1>4 DEF Cut
<1>5. CASE l.to # p
  BY <1>1, <1>3, <1>5 DEF Cut
<1> QED
  BY <1>4, <1>5

\* A process that is gone holds nothing; whoever held a socket to it has it cut.
LEMMA GonePreserves ==
    ASSUME RolesInv, NEW p \in Procs, Gone(p), UNCHANGED <<tries, role, pending>>,
           ends' \in 0 .. MaxEnds
    PROVE  RolesInv'
<1>0. RolesTypeOK
  BY DEF RolesInv
<1>1. /\ step' = [step EXCEPT ![p] = "dead"]
      /\ connected' = [connected EXCEPT ![p] = FALSE]
      /\ handOff' = [handOff EXCEPT ![p] = NoHandOff]
      /\ rejoin' = [rejoin EXCEPT ![p].timer = FALSE]
      /\ listener' = IF listener.by = p THEN Free ELSE listener
  BY DEF Gone, Goto
<1>2. \A q \in Procs \ {p} : link[q] \in Links /\ link'[q] = Cut(link[q], p)
  BY <1>0 DEF Gone, RolesTypeOK
<1>3. link'[p] = NoLink /\ NoLink \in Links
  BY DEF Gone, NoLink, Links
<1>4. link' \in [Procs -> Links]
  <2>1. \A q \in Procs : link'[q] \in Links
    BY <1>2, <1>3, LinksStay
  <2> QED BY <2>1 DEF Gone
<1>5. handOff' \in [Procs -> [Runs -> [phase : HandOffPhases, tried : 0 .. Attempts]]]
  <2>1. NoHandOff \in [Runs -> [phase : HandOffPhases, tried : 0 .. Attempts]]
    BY RolesAssumption DEF NoHandOff, NoRun, HandOffPhases
  <2> QED BY <1>0, <1>1, <2>1 DEF RolesTypeOK
<1>6. RolesTypeOK'
  <2>1. listener' \in Listeners /\ step' \in [Procs -> Steps]
    BY <1>0, <1>1 DEF RolesTypeOK, Listeners, Steps
  <2>2. rejoin' \in [Procs -> [timer : BOOLEAN, count : 0 .. Reconnects]]
    BY <1>0, <1>1 DEF RolesTypeOK
  <2> QED BY <1>0, <1>1, <1>4, <1>5, <2>1, <2>2 DEF RolesTypeOK
<1>7. handOff'[p] = NoHandOff /\ ~rejoin'[p].timer /\ ~connected'[p] /\ step'[p] = "dead"
  BY <1>0, <1>1 DEF RolesTypeOK
<1>8. SameElsewhere(p)
  <2> SUFFICES ASSUME NEW q \in Procs \ {p}
               PROVE  /\ step'[q] = step[q] /\ connected'[q] = connected[q]
                      /\ role'[q] = role[q] /\ rejoin'[q] = rejoin[q]
                      /\ handOff'[q] = handOff[q] /\ KeepsLink(q)
    BY DEF SameElsewhere
  <2>1. KeepsLink(q)
    BY <1>2, LinksStay DEF KeepsLink
  <2> QED BY <1>0, <1>1, <2>1 DEF RolesTypeOK
<1>9. \A i \in Runs : handOff'[p][i].phase = "none"
  BY <1>7 DEF NoHandOff, NoRun
<1>10. Roles(p)' /\ Quiet(p)' /\ Socket(p)' /\ Tries(p)'
  BY <1>7, <1>9 DEF Roles, Quiet, Socket, Tries, Going, Early
<1>11. Port(p)'
  BY <1>7, <1>9 DEF Port, Bound
<1>12. KeepsPort(p)
  BY <1>1 DEF KeepsPort
<1> QED
  BY <1>6, <1>8, <1>10, <1>11, <1>12, OthersKeepTheirs DEF Own

-----------------------------------------------------------------------------
\* A host that shuts down keeps the port and stops reporting, and then lets it go.
LEMMA StoppingPreserves ==
    ASSUME RolesInv, NEW p \in Procs, ShutDown(p) \/ StopHost(p)
    PROVE  RolesInv'
<1>0. RolesTypeOK /\ Own(p)
  BY DEF RolesInv
<1>1. CASE ShutDown(p)
  <2>1. /\ step' = [step EXCEPT ![p] = "draining"]
        /\ connected' = [connected EXCEPT ![p] = FALSE]
        /\ listener' = [by |-> p, as |-> "closing"]
        /\ UNCHANGED <<tries, role, rejoin, pending, handOff>>
        /\ ends' = ends + 1 /\ ends < MaxEnds
        /\ connected[p] /\ role[p] = "host"
    BY <1>1 DEF ShutDown, Goto
  <2>2. Holds(p, "bridge") /\ handOff[p] = NoHandOff /\ ~rejoin[p].timer /\ link[p] = NoLink
    BY <1>0, <2>1 DEF Own, Port, Quiet, Socket
  <2>3. \A q \in Procs : link'[q] \in Links /\ KeepsLink(q)
    <3> TAKE q \in Procs
    <3>1. link[q] \in Links
      BY <1>0 DEF RolesTypeOK
    <3>2. CASE link[q].to = p /\ ~link[q].cut
      <4>1. link'[q] = [link[q] EXCEPT !.notice = TRUE]
        BY <1>1, <3>2 DEF ShutDown
      <4> QED BY <3>1, <3>2, <4>1, LinksStay DEF KeepsLink
    <3>3. CASE ~(link[q].to = p /\ ~link[q].cut)
      <4>1. link'[q] = link[q]
        BY <1>1, <3>3 DEF ShutDown
      <4> QED BY <3>1, <4>1 DEF KeepsLink
    <3> QED BY <3>2, <3>3
  <2>4. RolesTypeOK'
    <3>1. listener' \in Listeners /\ step' \in [Procs -> Steps]
      BY <1>0, <2>1 DEF RolesTypeOK, Listeners, Steps
    <3>2. ends' \in 0 .. MaxEnds
      BY <1>0, <2>1, RolesAssumption DEF RolesTypeOK
    <3>3. link' \in [Procs -> Links]
      BY <1>1, <2>3 DEF ShutDown
    <3> QED BY <1>0, <2>1, <3>1, <3>2, <3>3 DEF RolesTypeOK
  <2>5. SameElsewhere(p)
    BY <1>0, <2>1, <2>3 DEF SameElsewhere, RolesTypeOK
  <2>6. step'[p] = "draining" /\ ~connected'[p] /\ handOff'[p] = NoHandOff /\ Holds(p, "closing")'
    BY <1>0, <2>1, <2>2 DEF RolesTypeOK, Holds
  <2>7. \A i \in Runs : handOff'[p][i].phase = "none"
    BY <2>6 DEF NoHandOff, NoRun
  <2>8. Own(p)'
    BY <2>6, <2>7 DEF Own, Roles, Quiet, Socket, Port, Tries, Bound, Going, Early
  <2>9. KeepsPort(p)
    BY <2>2 DEF KeepsPort, Holds
  <2> QED BY <2>4, <2>5, <2>8, <2>9, OthersKeepTheirs
<1>2. CASE StopHost(p)
  <2>1. /\ step' = [step EXCEPT ![p] = "closed"]
        /\ listener' = Free
        /\ UNCHANGED <<tries, role, connected, rejoin, pending, handOff, ends>>
        /\ step[p] = "draining"
    BY <1>2 DEF StopHost, Goto
  <2>2. Holds(p, "closing") /\ ~connected[p]
    BY <1>0, <2>1 DEF Own, Port, Roles
  <2>3. PICK forced \in BOOLEAN :
          link' = [q \in Procs |-> IF forced /\ link[q].to = p
                                   THEN [Cut(link[q], p) EXCEPT !.notice = FALSE]
                                   ELSE Cut(link[q], p)]
    BY <1>2 DEF StopHost
  <2>4. \A q \in Procs : link'[q] \in Links /\ KeepsLink(q)
    <3> TAKE q \in Procs
    <3>1. link[q] \in Links
      BY <1>0 DEF RolesTypeOK
    <3>2. CASE forced /\ link[q].to = p
      <4>1. link'[q] = [Cut(link[q], p) EXCEPT !.notice = FALSE]
        BY <2>3, <3>2
      <4>2. Cut(link[q], p) \in Links /\ Cut(link[q], p).to = link[q].to /\ link[q] # NoLink
        BY <3>1, <3>2, LinksStay
      <4>3. link'[q] \in Links /\ link'[q].to = Cut(link[q], p).to
        BY <4>1, <4>2, LinksStay
      <4> QED BY <4>2, <4>3 DEF KeepsLink
    <3>3. CASE ~(forced /\ link[q].to = p)
      <4>1. link'[q] = Cut(link[q], p)
        BY <2>3, <3>3
      <4> QED BY <3>1, <4>1, LinksStay DEF KeepsLink
    <3> QED BY <3>2, <3>3
  <2>5. RolesTypeOK'
    <3>1. listener' \in Listeners /\ step' \in [Procs -> Steps]
      BY <1>0, <2>1 DEF RolesTypeOK, Listeners, Steps
    <3>2. link' \in [Procs -> Links]
      BY <2>3, <2>4
    <3> QED BY <1>0, <2>1, <3>1, <3>2 DEF RolesTypeOK
  <2>6. SameElsewhere(p)
    BY <1>0, <2>1, <2>4 DEF SameElsewhere, RolesTypeOK
  <2>7. \A i \in Runs : ~Bound(p, i)
    BY <1>0, <2>2, HeldByOne DEF Own, Port
  <2>8. step'[p] = "closed" /\ ~connected'[p] /\ handOff'[p] = handOff[p]
    BY <1>0, <2>1, <2>2 DEF RolesTypeOK
  <2>9. Own(p)'
    <3>1. Roles(p)' /\ Quiet(p)' /\ Socket(p)'
      BY <2>8 DEF Roles, Quiet, Socket, Early
    <3>2. Port(p)'
      BY <2>7, <2>8 DEF Port, Bound
    <3>3. Tries(p)'
      BY <1>0, <2>8 DEF Own, Tries, Going
    <3> QED BY <3>1, <3>2, <3>3 DEF Own
  <2>10. KeepsPort(p)
    BY <2>2 DEF KeepsPort, Holds
  <2> QED BY <2>5, <2>6, <2>9, <2>10, OthersKeepTheirs
<1> QED
  BY <1>1, <1>2

\* A client that leaves gives up its socket and its timer; the other ends of a
\* process leave nothing.
LEMMA EndingPreserves ==
    ASSUME RolesInv, NEW p \in Procs, Leave(p) \/ Crash(p) \/ Exit(p)
    PROVE  RolesInv'
<1>0. RolesTypeOK /\ Own(p)
  BY DEF RolesInv
<1>1. CASE Leave(p)
  <2>1. /\ step' = [step EXCEPT ![p] = "closed"]
        /\ connected' = [connected EXCEPT ![p] = FALSE]
        /\ link' = [link EXCEPT ![p] = NoLink]
        /\ rejoin' = [rejoin EXCEPT ![p].timer = FALSE]
        /\ UNCHANGED <<listener, tries, role, pending, handOff>>
        /\ ends' = ends + 1 /\ ends < MaxEnds
        /\ connected[p]
    BY <1>1 DEF Leave, Goto
  <2>2. RolesTypeOK'
    <3>1. step' \in [Procs -> Steps] /\ ends' \in 0 .. MaxEnds
      BY <1>0, <2>1, RolesAssumption DEF RolesTypeOK, Steps
    <3>2. link' \in [Procs -> Links]
      BY <1>0, <2>1 DEF RolesTypeOK, Links, NoLink
    <3>3. rejoin' \in [Procs -> [timer : BOOLEAN, count : 0 .. Reconnects]]
      BY <1>0, <2>1 DEF RolesTypeOK
    <3> QED BY <1>0, <2>1, <3>1, <3>2, <3>3 DEF RolesTypeOK
  <2>3. SameElsewhere(p)
    BY <1>0, <2>1 DEF SameElsewhere, KeepsLink, RolesTypeOK
  <2>4. step'[p] = "closed" /\ ~connected'[p] /\ handOff'[p] = NoHandOff
    BY <1>0, <2>1 DEF RolesTypeOK, Own, Quiet
  <2>5. \A i \in Runs : handOff'[p][i].phase = "none"
    BY <2>4 DEF NoHandOff, NoRun
  <2>6. Own(p)'
    BY <2>4, <2>5 DEF Own, Roles, Quiet, Socket, Port, Tries, Bound, Going, Early
  <2>7. KeepsPort(p)
    BY <2>1 DEF KeepsPort
  <2> QED BY <2>2, <2>3, <2>6, <2>7, OthersKeepTheirs
<1>2. CASE Crash(p)
  <2>1. ends' \in 0 .. MaxEnds
    BY <1>0, <1>2, RolesAssumption DEF Crash, RolesTypeOK
  <2> QED BY <1>2, <2>1, GonePreserves DEF Crash
<1>3. CASE Exit(p)
  <2>1. ends' \in 0 .. MaxEnds
    BY <1>0, <1>3 DEF Exit, RolesTypeOK
  <2> QED BY <1>3, <2>1, GonePreserves DEF Exit
<1> QED
  BY <1>1, <1>2, <1>3

-----------------------------------------------------------------------------
\* Who loses its host, or comes back to one, has left connectAsync behind and
\* reports nothing any more.
LEMMA LosingPreserves ==
    ASSUME RolesInv, NEW p \in Procs, ReceiveNotice(p) \/ HostLost(p) \/ Reconnect(p)
    PROVE  RolesInv'
<1>0. RolesTypeOK /\ Own(p)
  BY DEF RolesInv
<1>1. ends \in 0 .. MaxEnds
  BY <1>0 DEF RolesTypeOK
<1>2. rejoin[p].count < Reconnects =>
        [timer |-> TRUE, count |-> rejoin[p].count + 1] \in [timer : BOOLEAN, count : 0 .. Reconnects]
  BY <1>0, RolesAssumption DEF RolesTypeOK
<1>3. CASE ReceiveNotice(p)
  <2>1. /\ link' = [link EXCEPT ![p] = [link[p] EXCEPT !.notice = FALSE]]
        /\ pending' = [pending EXCEPT ![p] = TRUE]
        /\ UNCHANGED <<listener, step, tries, role, connected, rejoin, handOff, ends>>
        /\ link[p].notice
    BY <1>0, <1>3 DEF ReceiveNotice, RolesTypeOK
  <2>2. link[p] \in Links /\ link[p] # NoLink
    BY <1>0, <2>1 DEF RolesTypeOK, NoLink
  <2>3. [link[p] EXCEPT !.notice = FALSE] \in Links
        /\ [link[p] EXCEPT !.notice = FALSE].to = link[p].to
    BY <2>2, LinksStay
  <2>4. /\ link' \in [Procs -> Links] /\ link'[p].to = link[p].to
        /\ \A q \in Procs \ {p} : link'[q] = link[q]
    BY <1>0, <2>1, <2>3 DEF RolesTypeOK
  <2>5. RolesTypeOK'
    BY <1>0, <2>1, <2>4 DEF RolesTypeOK
  <2>6. SameElsewhere(p) /\ KeepsPort(p)
    BY <2>1, <2>4 DEF SameElsewhere, KeepsLink, KeepsPort
  <2>7. Roles(p)' /\ Quiet(p)' /\ Tries(p)' /\ Port(p)'
    BY <1>0, <2>1 DEF Own, Roles, Quiet, Tries, Port, Going, Bound, Holds
  <2>8. Socket(p)'
    BY <1>0, <2>1, <2>2, <2>4 DEF Own, Socket
  <2> QED BY <2>5, <2>6, <2>7, <2>8, OthersKeepTheirs DEF Own
<1>4. CASE HostLost(p) /\ rejoin[p].count < Reconnects
  <2>1. PICK i \in Runs :
          handOff' = [handOff EXCEPT ![p][i].phase = IF pending[p] THEN "binding" ELSE "jitter"]
          /\ handOff[p][i] = NoRun
    BY <1>4 DEF HostLost
  <2>2. /\ link' = [link EXCEPT ![p] = NoLink]
        /\ connected' = [connected EXCEPT ![p] = FALSE]
        /\ rejoin' = [rejoin EXCEPT ![p] = [timer |-> TRUE, count |-> rejoin[p].count + 1]]
        /\ step' = [step EXCEPT ![p] = IF step[p] = "fetching" THEN "failed" ELSE step[p]]
        /\ UNCHANGED <<listener, tries, role, pending, ends>>
        /\ link[p].cut
    BY <1>0, <1>4 DEF HostLost, ScheduleReconnect, Goto, RolesTypeOK
  <2>3. link[p] # NoLink
    BY <2>2 DEF NoLink
  <2>4. step[p] \notin Early
    BY <1>0, <2>3 DEF Own, Socket
  <2>5. step'[p] \notin Early \cup {"fetching"} /\ ~connected'[p] /\ link'[p] = NoLink
    BY <1>0, <2>2, <2>4 DEF RolesTypeOK, Early
  <2>6. /\ handOff' \in [Procs -> [Runs -> [phase : HandOffPhases, tried : 0 .. Attempts]]]
        /\ \A q \in Procs \ {p} : handOff'[q] = handOff[q]
        /\ handOff'[p][i].phase \in {"binding", "jitter"} /\ handOff'[p][i].tried = 0
        /\ \A j \in Runs \ {i} : handOff'[p][j] = handOff[p][j]
    <3> DEFINE ph == IF pending[p] THEN "binding" ELSE "jitter"
    <3>1. ph \in HandOffPhases /\ ph \in {"binding", "jitter"}
      BY DEF HandOffPhases
    <3>2. handOff' = [handOff EXCEPT ![p] = [handOff[p] EXCEPT ![i] = [phase |-> ph, tried |-> 0]]]
      <4>1. handOff[p] \in [Runs -> [phase : HandOffPhases, tried : 0 .. Attempts]]
        BY <1>0 DEF RolesTypeOK
      <4>2. [handOff[p][i] EXCEPT !.phase = ph] = [phase |-> ph, tried |-> 0]
        BY <2>1 DEF NoRun
      <4>3. handOff' = [handOff EXCEPT ![p] = [handOff[p] EXCEPT ![i] = [handOff[p][i] EXCEPT !.phase = ph]]]
        BY <1>0, <2>1, <4>1 DEF RolesTypeOK
      <4> QED BY <4>2, <4>3
    <3>3. [phase |-> ph, tried |-> 0] \in [phase : HandOffPhases, tried : 0 .. Attempts]
      BY <3>1, RolesAssumption
    <3> HIDE DEF ph
    <3> QED BY <1>0, <3>1, <3>2, <3>3 DEF RolesTypeOK
  <2>7. RolesTypeOK'
    <3>1. step' \in [Procs -> Steps]
      BY <1>0, <2>2 DEF RolesTypeOK, Steps
    <3>2. link' \in [Procs -> Links]
      BY <1>0, <2>2 DEF RolesTypeOK, Links, NoLink
    <3>3. rejoin' \in [Procs -> [timer : BOOLEAN, count : 0 .. Reconnects]]
      BY <1>0, <1>2, <1>4, <2>2 DEF RolesTypeOK
    <3> QED BY <1>0, <2>2, <2>6, <3>1, <3>2, <3>3 DEF RolesTypeOK
  <2>8. SameElsewhere(p) /\ KeepsPort(p)
    <3>1. \A q \in Procs \ {p} : KeepsLink(q)
      BY <1>0, <2>2 DEF KeepsLink, RolesTypeOK
    <3>2. \A q \in Procs \ {p} : /\ step'[q] = step[q] /\ connected'[q] = connected[q]
                                /\ role'[q] = role[q] /\ rejoin'[q] = rejoin[q]
      BY <1>0, <2>2 DEF RolesTypeOK
    <3> QED BY <2>2, <2>6, <3>1, <3>2 DEF SameElsewhere, KeepsPort
  <2>9. Roles(p)' /\ Quiet(p)' /\ Socket(p)'
    BY <2>5 DEF Roles, Quiet, Socket, Early
  <2>10. Port(p)'
    <3>1. \A j \in Runs : Bound(p, j)' => j # i /\ Bound(p, j)
      BY <2>6 DEF Bound
    <3>2. step'[p] \in {"probing", "draining"} => step'[p] = step[p]
      BY <1>0, <2>2 DEF RolesTypeOK
    <3> QED BY <1>0, <2>2, <2>5, <3>1, <3>2 DEF Own, Port, Holds
  <2>11. Tries(p)'
    <3>1. 0 < Attempts
      BY RolesAssumption
    <3> QED BY <1>0, <2>6, <3>1 DEF Own, Tries, Going
  <2> QED BY <2>7, <2>8, <2>9, <2>10, <2>11, OthersKeepTheirs DEF Own
<1>5. CASE HostLost(p) /\ ~(rejoin[p].count < Reconnects)
  BY <1>1, <1>5, GonePreserves DEF HostLost
<1>6. CASE Reconnect(p) /\ (Accepts \/ rejoin[p].count < Reconnects)
  <2>1. /\ UNCHANGED <<listener, step, connected, handOff, tries, role, pending, ends>>
        /\ rejoin[p].timer
    BY <1>6 DEF Reconnect
  <2>2. /\ link' \in [Procs -> Links] /\ rejoin' \in [Procs -> [timer : BOOLEAN, count : 0 .. Reconnects]]
        /\ \A q \in Procs \ {p} : link'[q] = link[q] /\ rejoin'[q] = rejoin[q]
    <3>1. CASE Accepts
      <4>1. /\ link' = [link EXCEPT ![p] = [NoLink EXCEPT !.to = listener.by]]
            /\ rejoin' = [rejoin EXCEPT ![p] = [timer |-> FALSE, count |-> 0]]
        BY <1>6, <3>1 DEF Reconnect
      <4>2. listener.by \in Procs \cup {Nobody}
        BY <1>0 DEF RolesTypeOK, Listeners, Free
      <4>3. [NoLink EXCEPT !.to = listener.by] \in Links
        BY <4>2 DEF NoLink, Links
      <4>4. [timer |-> FALSE, count |-> 0] \in [timer : BOOLEAN, count : 0 .. Reconnects]
        BY RolesAssumption
      <4> QED BY <1>0, <4>1, <4>3, <4>4 DEF RolesTypeOK
    <3>2. CASE ~Accepts
      <4>1. link' = link /\ rejoin[p].count < Reconnects
            /\ rejoin' = [rejoin EXCEPT ![p] = [timer |-> TRUE, count |-> rejoin[p].count + 1]]
        BY <1>0, <1>6, <3>2 DEF Reconnect, ScheduleReconnect, RolesTypeOK
      <4> QED BY <1>0, <1>2, <4>1 DEF RolesTypeOK
    <3> QED BY <3>1, <3>2
  <2>3. RolesTypeOK'
    BY <1>0, <2>1, <2>2 DEF RolesTypeOK
  <2>4. SameElsewhere(p) /\ KeepsPort(p)
    BY <2>1, <2>2 DEF SameElsewhere, KeepsLink, KeepsPort
  <2>5. ~connected[p] /\ step[p] \notin Early \cup {"fetching"}
    BY <1>0, <2>1 DEF Own, Quiet
  <2>6. Roles(p)' /\ Quiet(p)' /\ Socket(p)'
    BY <2>1, <2>5 DEF Roles, Quiet, Socket, Early
  <2>7. Tries(p)' /\ Port(p)'
    BY <1>0, <2>1 DEF Own, Tries, Port, Going, Bound, Holds
  <2> QED BY <2>3, <2>4, <2>6, <2>7, OthersKeepTheirs DEF Own
<1>7. CASE Reconnect(p) /\ ~(Accepts \/ rejoin[p].count < Reconnects)
  BY <1>1, <1>7, GonePreserves DEF Reconnect
<1> QED
  BY <1>3, <1>4, <1>5, <1>6, <1>7

-----------------------------------------------------------------------------
\* A step of the run i of p's hand-off, which takes the port only when it is free
\* and counts an attempt only when one is left.
LEMMA HandOffPreserves ==
    ASSUME RolesInv, NEW p \in Procs, NEW i \in Runs, HandOff(p, i)
    PROVE  RolesInv'
<1>0. RolesTypeOK /\ Own(p)
  BY DEF RolesInv
<1>1. handOff[p] \in [Runs -> [phase : HandOffPhases, tried : 0 .. Attempts]]
  BY <1>0 DEF RolesTypeOK
<1>2. UNCHANGED <<step, tries, connected, link, rejoin, pending, ends>>
  BY DEF HandOff, HandOffWaits, HandOffBinds, HandOffPromotes, HandOffConnects
<1>3. Going(p, i)
  BY DEF HandOff, HandOffWaits, HandOffBinds, HandOffPromotes, HandOffConnects, InPhase, Going
<1>4. handOff[p] # NoHandOff
  BY <1>3 DEF Going, NoHandOff, NoRun
<1>5. ~connected[p] /\ step[p] \notin Early \cup {"fetching"}
  BY <1>0, <1>4 DEF Own, Quiet
<1>6. handOff[p][i].tried < Attempts /\ handOff[p][i].tried \in Nat
  BY <1>0, <1>1, <1>3, RolesAssumption DEF Own, Tries
<1> DEFINE Moves(run) ==
      /\ run \in [phase : HandOffPhases, tried : 0 .. Attempts]
      /\ handOff' = [handOff EXCEPT ![p] = [handOff[p] EXCEPT ![i] = run]]
      /\ run.phase \in {"jitter", "binding", "bound", "connecting", "delay"} => run.tried < Attempts
<1>7. ASSUME NEW ph \in HandOffPhases, Enter(p, i, ph)
      PROVE  \E run : Moves(run) /\ run.phase = ph
  <2> DEFINE run == [handOff[p][i] EXCEPT !.phase = ph]
  <2>1. run \in [phase : HandOffPhases, tried : 0 .. Attempts]
        /\ run.tried = handOff[p][i].tried /\ run.phase = ph
    BY <1>1
  <2>2. handOff' = [handOff EXCEPT ![p] = [handOff[p] EXCEPT ![i] = run]]
    BY <1>0, <1>1, <1>7 DEF Enter, RolesTypeOK
  <2> HIDE DEF run
  <2> QED BY <1>6, <2>1, <2>2
<1>8. ASSUME NEW run, Moves(run),
             listener' \in Listeners, role' \in [Procs -> {"none", "host", "client"}],
             \A q \in Procs \ {p} : role'[q] = role[q],
             KeepsPort(p), Port(p)'
      PROVE  RolesInv'
  <2>1. /\ handOff' \in [Procs -> [Runs -> [phase : HandOffPhases, tried : 0 .. Attempts]]]
        /\ \A q \in Procs \ {p} : handOff'[q] = handOff[q]
        /\ handOff'[p][i] = run
        /\ \A j \in Runs \ {i} : handOff'[p][j] = handOff[p][j]
    BY <1>0, <1>1, <1>8 DEF RolesTypeOK
  <2>2. RolesTypeOK'
    BY <1>0, <1>2, <1>8, <2>1 DEF RolesTypeOK
  <2>3. SameElsewhere(p)
    BY <1>2, <1>8, <2>1 DEF SameElsewhere, KeepsLink
  <2>4. Roles(p)' /\ Quiet(p)' /\ Socket(p)'
    BY <1>2, <1>5 DEF Roles, Quiet, Socket, Early
  <2>5. Tries(p)'
    BY <1>0, <1>8, <2>1 DEF Own, Tries, Going
  <2> QED BY <1>8, <2>2, <2>3, <2>4, <2>5, OthersKeepTheirs DEF Own
<1>9. ASSUME NEW run, Moves(run), run.phase # "bound", listener' = listener, role' = role
      PROVE  RolesInv'
  <2>1. \A j \in Runs : Bound(p, j)' => Bound(p, j)
    BY <1>1, <1>0, <1>9 DEF Bound, RolesTypeOK
  <2>2. Port(p)'
    BY <1>0, <1>2, <1>9, <2>1 DEF Own, Port, Holds
  <2>3. listener' \in Listeners /\ role' \in [Procs -> {"none", "host", "client"}]
    BY <1>0, <1>9 DEF RolesTypeOK
  <2> QED BY <1>8, <1>9, <2>2, <2>3 DEF KeepsPort
<1>10. CASE HandOffWaits(p, i)
  <2>1. Enter(p, i, "binding") /\ "binding" \in HandOffPhases /\ listener' = listener /\ role' = role
    BY <1>10 DEF HandOffWaits, HandOffPhases
  <2> QED BY <1>7, <1>9, <2>1
<1>11. CASE HandOffBinds(p, i) /\ listener # Free
  <2>1. Enter(p, i, "connecting") /\ "connecting" \in HandOffPhases /\ listener' = listener /\ role' = role
    BY <1>11 DEF HandOffBinds, HandOffPhases
  <2> QED BY <1>7, <1>9, <2>1
<1>12. CASE HandOffBinds(p, i) /\ listener = Free
  <2>1. Enter(p, i, "bound") /\ "bound" \in HandOffPhases /\ role' = role
        /\ listener' = [by |-> p, as |-> "probe"]
    BY <1>12 DEF HandOffBinds, HandOffPhases
  <2>2. PICK run : Moves(run)
    BY <1>7, <2>1
  <2>3. \A as : ~Holds(p, as)
    BY <1>12, NotHeldWhenFree
  <2>4. \A j \in Runs : Bound(p, j)' => j = i
    <3>1. \A j \in Runs : ~Bound(p, j)
      BY <1>0, <2>3 DEF Own, Port
    <3> QED BY <1>0, <1>1, <2>2, <3>1 DEF Bound, RolesTypeOK
  <2>5. Port(p)'
    BY <1>0, <1>2, <1>5, <2>1, <2>3, <2>4 DEF Own, Port, Holds
  <2>6. listener' \in Listeners /\ role' \in [Procs -> {"none", "host", "client"}]
    BY <1>0, <2>1 DEF RolesTypeOK, Listeners
  <2> QED BY <1>8, <1>12, <2>1, <2>2, <2>5, <2>6 DEF KeepsPort
<1>13. CASE HandOffPromotes(p, i)
  <2>1. Enter(p, i, "promoted") /\ "promoted" \in HandOffPhases /\ role' = [role EXCEPT ![p] = "host"]
        /\ listener' = Free /\ Bound(p, i)
    BY <1>13 DEF HandOffPromotes, InPhase, Bound, HandOffPhases
  <2>2. PICK run : Moves(run) /\ run.phase = "promoted"
    BY <1>7, <2>1
  <2>3. Holds(p, "probe")
    BY <1>0, <2>1 DEF Own, Port
  <2>4. step[p] \notin {"probing", "draining"}
    BY <1>0, <1>5, <2>3, HeldByOne DEF Own, Port, Early
  <2>5. \A j \in Runs : ~Bound(p, j)'
    <3>1. \A j \in Runs : Bound(p, j) => j = i
      BY <1>0, <2>1 DEF Own, Port
    <3> QED BY <1>0, <1>1, <2>2, <3>1 DEF Bound, RolesTypeOK
  <2>6. Port(p)'
    BY <1>2, <1>5, <2>4, <2>5 DEF Port
  <2>7. /\ listener' \in Listeners /\ role' \in [Procs -> {"none", "host", "client"}]
        /\ \A q \in Procs \ {p} : role'[q] = role[q]
    BY <1>0, <2>1 DEF RolesTypeOK, Listeners
  <2>8. KeepsPort(p)
    BY <2>3 DEF KeepsPort, Holds
  <2> QED BY <1>8, <2>2, <2>6, <2>7, <2>8
<1>14. CASE HandOffConnects(p, i)
  <2> DEFINE tried == handOff[p][i].tried + 1
             ph == IF Accepts THEN "fallback" ELSE IF tried < Attempts THEN "delay" ELSE "unreachable"
             run == [tried |-> tried, phase |-> ph]
  <2>1. listener' = listener /\ role' = role
    BY <1>14 DEF HandOffConnects
  <2>2. handOff' = [handOff EXCEPT ![p] = [handOff[p] EXCEPT ![i] = run]]
    BY <1>0, <1>1, <1>14 DEF HandOffConnects, RolesTypeOK
  <2>3. ph \in HandOffPhases \ {"bound"} /\ (ph \in {"jitter", "binding", "bound", "connecting", "delay"} => tried < Attempts)
    BY DEF HandOffPhases
  <2>4. tried \in 0 .. Attempts
    BY <1>6, RolesAssumption
  <2>5. run \in [phase : HandOffPhases, tried : 0 .. Attempts] /\ run.phase = ph /\ run.tried = tried
    <3> HIDE DEF ph, tried
    <3> QED BY <2>3, <2>4
  <2>6. run.phase # "bound" /\ Moves(run)
    <3> HIDE DEF ph, tried, run
    <3> QED BY <2>2, <2>3, <2>5
  <2> QED BY <1>9, <2>1, <2>6
<1> QED
  BY <1>10, <1>11, <1>12, <1>13, <1>14 DEF HandOff

-----------------------------------------------------------------------------
LEMMA InvariantIsInductive == RolesInv /\ [RolesNext]_rolesVars => RolesInv'
<1> SUFFICES ASSUME RolesInv, [RolesNext]_rolesVars PROVE RolesInv'
  OBVIOUS
<1>1. CASE RolesNext
  <2>1. PICK p \in Procs :
          \/ Start(p) \/ Connecting(p) \/ Recovering(p) \/ Reconnect(p)
          \/ ShutDown(p) \/ StopHost(p) \/ Leave(p) \/ Crash(p) \/ Exit(p)
    BY <1>1 DEF RolesNext
  <2>2. CASE Start(p) \/ Connecting(p)
    BY <2>2, ConnectingPreserves
  <2>3. CASE Recovering(p) \/ Reconnect(p)
    BY <2>3, LosingPreserves, HandOffPreserves DEF Recovering
  <2>4. CASE ShutDown(p) \/ StopHost(p)
    BY <2>4, StoppingPreserves
  <2>5. CASE Leave(p) \/ Crash(p) \/ Exit(p)
    BY <2>5, EndingPreserves
  <2> QED BY <2>1, <2>2, <2>3, <2>4, <2>5
<1>2. CASE UNCHANGED rolesVars
  <2>1. RolesTypeOK'
    BY <1>2 DEF RolesInv, RolesTypeOK, rolesVars
  <2>2. ASSUME NEW p \in Procs PROVE Own(p)'
    BY <1>2 DEF RolesInv, rolesVars, Own, Roles, Quiet, Socket, Port, Holds, Bound, Tries, Going
  <2> QED BY <2>1, <2>2 DEF RolesInv
<1> QED
  BY <1>1, <1>2

LEMMA Invariance == RolesSpec => []RolesInv
BY InitEstablishes, InvariantIsInductive, PTL DEF RolesSpec

\* Every variable keeps its type; in particular neither the detection nor a
\* hand-off retries more often than MAX_STALE_RETRIES and MAX_RETRIES allow.
THEOREM RolesTypeCorrect == RolesSpec => []RolesTypeOK
<1>1. RolesInv => RolesTypeOK
  BY DEF RolesInv
<1> QED
  BY <1>1, Invariance, PTL

\* What a connection reports of itself is true at every moment: a connected host
\* serves the port, and a connected client has a socket and lost none before.
THEOREM ReportsTrue == RolesSpec => []ReportsAreTrue
<1>1. ASSUME RolesInv, NEW p \in Procs, connected[p]
      PROVE  /\ role[p] = "host" => listener = [by |-> p, as |-> "bridge"]
             /\ role[p] = "client" => link[p].to # Nobody /\ handOff[p] = NoHandOff
  BY <1>1 DEF RolesInv, Own, Port, Holds, Socket, Quiet
<1>2. RolesInv => ReportsAreTrue
  BY <1>1 DEF ReportsAreTrue, HostServes, ConnectedClientHoldsSocket
<1> QED
  BY <1>2, Invariance, PTL

\* Two processes never both report to be the connected host, and never both have a
\* bind of a hand-off that has not let the port go.
OneHost == \A p, q \in Procs :
    \/ connected[p] /\ role[p] = "host" /\ connected[q] /\ role[q] = "host"
    \/ (\E i \in Runs : Bound(p, i)) /\ (\E i \in Runs : Bound(q, i))
    => p = q

\* However many processes race for the port, one of them has it.
THEOREM OneProcessHosts == RolesSpec => []OneHost
<1>1. ASSUME RolesInv, NEW p \in Procs, NEW q \in Procs,
             connected[p] /\ role[p] = "host" /\ connected[q] /\ role[q] = "host"
      PROVE  p = q
  <2>1. Holds(p, "bridge") /\ Holds(q, "bridge")
    BY <1>1 DEF RolesInv, Own, Port
  <2> QED BY <2>1, HeldByOne
<1>2. ASSUME RolesInv, NEW p \in Procs, NEW q \in Procs, NEW i \in Runs, NEW j \in Runs,
             Bound(p, i), Bound(q, j)
      PROVE  p = q
  <2>1. Holds(p, "probe") /\ Holds(q, "probe")
    BY <1>2 DEF RolesInv, Own, Port
  <2> QED BY <2>1, HeldByOne
<1>3. RolesInv => OneHost
  BY <1>1, <1>2 DEF OneHost
<1> QED
  BY <1>3, Invariance, PTL

(***************************************************************************)
(* BridgeRelay                                                             *)
(***************************************************************************)

Phases == {"sync", "register", "act"}

\* A command's phase, place and connection agree, and it is pending only on the
\* connection that its session has in p.
PendingThen(c) == c.at \in {"atPlugin", "answered"}
Sound(a, c, p) ==
    /\ c \in Commands(a)
    /\ c.at # "none" => c.phase \in Phases
    /\ c.at = "answered" => c.result \in Results
    /\ c.conn # 0 <=> PendingThen(c)
    /\ c.by = Host => c.at \notin {"toHost", "toClient"}
    /\ PendingThen(c) => p[c.to] = c.conn

CommandsSound ==
    /\ DOMAIN cmd = Cmds
    /\ \A a \in Cmds : Sound(a, cmd[a], plugins)
    /\ Serving => relays = {a \in Cmds : cmd[a].by # Host /\ Pending(a)}
    /\ phase = "stopped" => \A a \in Cmds : ~Pending(a)

\* An answer under way is of a command of this client that waits for it, and the only
\* one.
IsAnswer(m, a) == m.type = "response" /\ m.cmd = a
Awaits(c, command) == command.by = c /\ command.at = "toClient"
Awaited(c, q, commands) == \A i \in 1 .. Len(q), a \in Cmds :
    IsAnswer(q[i], a) =>
      /\ Awaits(c, commands[a])
      /\ \A j \in 1 .. Len(q) : IsAnswer(q[j], a) => j = i
AnswersAwaited(c) == Awaited(c, inbox[c], cmd)

\* What a client lists, once it has handled what is under way to it.
CacheSound(c) ==
    /\ joined[c] = "out" => known[c] = {} /\ inbox[c] = <<>>
    /\ joined[c] = "asked" => ListedOnce(c) \subseteq tracked
    /\ joined[c] = "listed" => ListedOnce(c) = tracked

ClientsSound == \A c \in Clients :
    /\ AnswersAwaited(c) /\ CacheSound(c)
    /\ joined[c] \in {"cut", "lost"} => phase = "stopped"

HostSound ==
    /\ IsFiniteSet(tracked) /\ TrackerMatches
    /\ phase = "stopped" => tracked = {}

IInv == TypeOK /\ HostSound /\ CommandsSound /\ ClientsSound

-----------------------------------------------------------------------------
(* What messages do to a list.                                             *)

LEMMA MessageIs ==
    ASSUME NEW m \in Messages
    PROVE  /\ m.type \in {"connected", "disconnected", "list", "response"}
           /\ m.type \in {"connected", "disconnected"} => m.session \in Sessions
           /\ m.type = "list" => m.sessions \in SUBSET Sessions
           /\ m.type = "response" => m.cmd \in Cmds /\ m.phase \in Phases /\ m.result \in Results
BY DEF Messages, Phases

\* A queue with messages added to it.
Extends(r, q) == Len(q) <= Len(r) /\ \A i \in 1 .. Len(q) : r[i] = q[i]

\* A message that is added has the last word.
LEMMA ListedAppend ==
    ASSUME NEW has, NEW q \in Seq(Messages), NEW r \in Seq(Messages), NEW m \in Messages,
           Extends(r, q), Len(r) = Len(q) + 1, r[Len(r)] = m
    PROVE  \A s \in Sessions : s \in Listed(has, r) <=>
             Adds(m, s) \/ (s \in Listed(has, q) /\ ~Removes(m, s))
<1> DEFINE n == Len(q)
<1>1. /\ n \in Nat /\ Len(r) = n + 1 /\ r[n + 1] = m
      /\ \A i \in 1 .. n : r[i] = q[i]
  BY DEF Extends
<1>2. ASSUME NEW s \in Sessions
      PROVE  s \in Listed(has, r) <=> Adds(m, s) \/ (s \in Listed(has, q) /\ ~Removes(m, s))
  <2> HIDE DEF n
  <2>1. ~(Adds(m, s) /\ Removes(m, s))
    BY DEF Adds, Removes
  <2>2. (\A i \in 1 .. n + 1 : ~Removes(r[i], s))
          <=> (\A i \in 1 .. n : ~Removes(q[i], s)) /\ ~Removes(m, s)
    BY <1>1
  <2>3. ASSUME NEW i \in 1 .. n
        PROVE  (Adds(r[i], s) /\ \A j \in i + 1 .. n + 1 : ~Removes(r[j], s))
                 <=> (Adds(q[i], s) /\ \A j \in i + 1 .. n : ~Removes(q[j], s)) /\ ~Removes(m, s)
    BY <1>1
  <2>4. (Adds(r[n + 1], s) /\ \A j \in (n + 1) + 1 .. n + 1 : ~Removes(r[j], s)) <=> Adds(m, s)
    BY <1>1
  <2>5. (\E i \in 1 .. n + 1 : Adds(r[i], s) /\ \A j \in i + 1 .. n + 1 : ~Removes(r[j], s))
          <=> \/ Adds(m, s)
              \/ /\ \E i \in 1 .. n : Adds(q[i], s) /\ \A j \in i + 1 .. n : ~Removes(q[j], s)
                 /\ ~Removes(m, s)
    <3>1. 1 .. n + 1 = (1 .. n) \cup {n + 1}
      BY <1>1
    <3> QED BY <2>3, <2>4, <3>1
  <2>6. /\ s \in Listed(has, q) <=>
             \/ s \in has /\ \A i \in 1 .. n : ~Removes(q[i], s)
             \/ \E i \in 1 .. n : Adds(q[i], s) /\ \A j \in i + 1 .. n : ~Removes(q[j], s)
        /\ s \in Listed(has, r) <=>
             \/ s \in has /\ \A i \in 1 .. n + 1 : ~Removes(r[i], s)
             \/ \E i \in 1 .. n + 1 : Adds(r[i], s) /\ \A j \in i + 1 .. n + 1 : ~Removes(r[j], s)
    BY <1>1 DEF Listed, n
  <2> QED BY <2>1, <2>2, <2>5, <2>6
<1> QED BY <1>2

\* Answers leave the list alone.
LEMMA ListedNeutral ==
    ASSUME NEW has, NEW q \in Seq(Messages), NEW both \in Seq(Messages), Extends(both, q),
           \A i \in Len(q) + 1 .. Len(both) : both[i].type = "response"
    PROVE  Listed(has, both) = Listed(has, q)
<1>1. /\ Len(q) \in Nat /\ Len(both) \in Nat /\ Len(q) <= Len(both)
      /\ \A i \in 1 .. Len(q) : both[i] = q[i]
  BY DEF Extends
<1>2. ASSUME NEW s, NEW i \in Len(q) + 1 .. Len(both)
      PROVE  ~Adds(both[i], s) /\ ~Removes(both[i], s)
  BY DEF Adds, Removes
<1>3. 1 .. Len(both) = (1 .. Len(q)) \cup (Len(q) + 1 .. Len(both))
  BY <1>1
<1>4. ASSUME NEW s \in Sessions PROVE s \in Listed(has, both) <=> s \in Listed(has, q)
  <2>1. (\A i \in 1 .. Len(both) : ~Removes(both[i], s))
          <=> \A i \in 1 .. Len(q) : ~Removes(q[i], s)
    BY <1>1, <1>2, <1>3
  <2>2. ASSUME NEW i \in 1 .. Len(q)
        PROVE  (\A j \in i + 1 .. Len(both) : ~Removes(both[j], s))
                 <=> \A j \in i + 1 .. Len(q) : ~Removes(q[j], s)
    <3>1. i + 1 .. Len(both) = (i + 1 .. Len(q)) \cup (Len(q) + 1 .. Len(both))
      BY <1>1
    <3>2. \A j \in i + 1 .. Len(q) : both[j] = q[j]
      BY <1>1
    <3> QED BY <1>2, <3>1, <3>2
  <2>3. (\E i \in 1 .. Len(both) :
            Adds(both[i], s) /\ \A j \in i + 1 .. Len(both) : ~Removes(both[j], s))
          <=> \E i \in 1 .. Len(q) : Adds(q[i], s) /\ \A j \in i + 1 .. Len(q) : ~Removes(q[j], s)
    <3>1. ASSUME NEW i \in 1 .. Len(q)
          PROVE  (Adds(both[i], s) /\ \A j \in i + 1 .. Len(both) : ~Removes(both[j], s))
                   <=> (Adds(q[i], s) /\ \A j \in i + 1 .. Len(q) : ~Removes(q[j], s))
      BY <1>1, <2>2
    <3> QED BY <1>2, <1>3, <3>1
  <2> QED BY <2>1, <2>3 DEF Listed
<1> QED BY <1>4 DEF Listed

\* The first message is applied, or left in the queue: the list comes out the same.
LEMMA ListedTail ==
    ASSUME NEW has \in SUBSET Sessions, NEW q \in Seq(Messages), q # <<>>,
           NEW then \in SUBSET Sessions,
           \A s \in Sessions : s \in then <=>
             Adds(Head(q), s) \/ (s \in has /\ ~Removes(Head(q), s))
    PROVE  Listed(then, Tail(q)) = Listed(has, q)
<1> DEFINE r == Tail(q)
           n == Len(r)
<1>1. /\ n \in Nat /\ Len(q) = n + 1 /\ Head(q) = q[1]
      /\ \A i \in 1 .. n : r[i] = q[i + 1]
  OBVIOUS
<1> HIDE DEF r, n
<1>2. ASSUME NEW s \in Sessions PROVE s \in Listed(then, r) <=> s \in Listed(has, q)
  <2>1. /\ s \in Listed(then, r) <=>
             \/ s \in then /\ \A i \in 1 .. n : ~Removes(q[i + 1], s)
             \/ \E i \in 1 .. n : Adds(q[i + 1], s) /\ \A j \in i + 1 .. n : ~Removes(q[j + 1], s)
        /\ s \in Listed(has, q) <=>
             \/ s \in has /\ \A i \in 1 .. n + 1 : ~Removes(q[i], s)
             \/ \E i \in 1 .. n + 1 : Adds(q[i], s) /\ \A j \in i + 1 .. n + 1 : ~Removes(q[j], s)
    <3>1. \A i \in 1 .. n : \A j \in i + 1 .. n : r[j] = q[j + 1]
      BY <1>1
    <3> QED BY <1>1, <3>1 DEF Listed, n
  <2>2. \A i \in Nat : i \in 2 .. n + 1 <=> i - 1 \in 1 .. n
    BY <1>1
  <2>3. (\A i \in 1 .. n + 1 : ~Removes(q[i], s))
          <=> ~Removes(q[1], s) /\ \A i \in 1 .. n : ~Removes(q[i + 1], s)
    <3>1. \A i \in 1 .. n + 1 : i = 1 \/ (i - 1 \in 1 .. n /\ (i - 1) + 1 = i)
      BY <1>1
    <3>2. 1 \in 1 .. n + 1 /\ \A i \in 1 .. n : i + 1 \in 1 .. n + 1
      BY <1>1
    <3> QED BY <3>1, <3>2
  <2>4. ASSUME NEW i \in 0 .. n
        PROVE  (\A j \in i + 2 .. n + 1 : ~Removes(q[j], s))
                 <=> \A j \in i + 1 .. n : ~Removes(q[j + 1], s)
    <3>1. \A j \in i + 2 .. n + 1 : j - 1 \in i + 1 .. n /\ (j - 1) + 1 = j
      BY <1>1
    <3>2. \A j \in i + 1 .. n : j + 1 \in i + 2 .. n + 1
      BY <1>1
    <3> QED BY <3>1, <3>2
  <2>5. (\E i \in 1 .. n + 1 : Adds(q[i], s) /\ \A j \in i + 1 .. n + 1 : ~Removes(q[j], s))
          <=> \/ Adds(q[1], s) /\ \A j \in 1 .. n : ~Removes(q[j + 1], s)
              \/ \E i \in 1 .. n : Adds(q[i + 1], s) /\ \A j \in i + 1 .. n : ~Removes(q[j + 1], s)
    <3>1. (Adds(q[1], s) /\ \A j \in 1 + 1 .. n + 1 : ~Removes(q[j], s))
            <=> Adds(q[1], s) /\ \A j \in 1 .. n : ~Removes(q[j + 1], s)
      BY <1>1, <2>4, 0 \in 0 .. n
    <3>2. ASSUME NEW i \in 1 .. n
          PROVE  (Adds(q[i + 1], s) /\ \A j \in (i + 1) + 1 .. n + 1 : ~Removes(q[j], s))
                   <=> (Adds(q[i + 1], s) /\ \A j \in i + 1 .. n : ~Removes(q[j + 1], s))
      <4>1. i \in 0 .. n /\ (i + 1) + 1 = i + 2
        BY <1>1
      <4> QED BY <2>4, <4>1
    <3>3. \A i \in 1 .. n + 1 : i = 1 \/ (i - 1 \in 1 .. n /\ (i - 1) + 1 = i)
      BY <1>1
    <3>4. 1 \in 1 .. n + 1 /\ \A i \in 1 .. n : i + 1 \in 1 .. n + 1
      BY <1>1
    <3> QED BY <3>1, <3>2, <3>3, <3>4
  <2>6. s \in then <=> Adds(q[1], s) \/ (s \in has /\ ~Removes(q[1], s))
    BY <1>1
  <2> QED BY <2>1, <2>3, <2>5, <2>6
<1> QED BY <1>2 DEF Listed, r

-----------------------------------------------------------------------------
(* Answers under way.                                                      *)

\* Queues that grow only by the one answer of commands that began to wait.
LEMMA AwaitedExtends ==
    ASSUME NEW c, NEW q \in Seq(Messages), NEW r \in Seq(Messages), NEW before, NEW after,
           Awaited(c, q, before), Extends(r, q),
           \A a \in Cmds : Awaits(c, before[a]) => Awaits(c, after[a]),
           \A i \in Len(q) + 1 .. Len(r), a \in Cmds :
             IsAnswer(r[i], a) =>
               /\ Awaits(c, after[a]) /\ ~Awaits(c, before[a])
               /\ \A j \in Len(q) + 1 .. Len(r) : IsAnswer(r[j], a) => j = i
    PROVE  Awaited(c, r, after)
<1>1. /\ Len(q) \in Nat /\ Len(r) \in Nat /\ Len(q) <= Len(r)
      /\ \A i \in 1 .. Len(q) : r[i] = q[i]
      /\ 1 .. Len(r) = (1 .. Len(q)) \cup (Len(q) + 1 .. Len(r))
  BY DEF Extends
<1>2. ASSUME NEW i \in 1 .. Len(r), NEW a \in Cmds, IsAnswer(r[i], a)
      PROVE  /\ Awaits(c, after[a])
             /\ \A j \in 1 .. Len(r) : IsAnswer(r[j], a) => j = i
  <2>1. CASE i \in 1 .. Len(q)
    <3>1. Awaits(c, before[a]) /\ \A j \in 1 .. Len(q) : IsAnswer(q[j], a) => j = i
      BY <1>1, <1>2, <2>1 DEF Awaited
    <3> QED BY <1>1, <3>1
  <2>2. CASE i \in Len(q) + 1 .. Len(r)
    <3>1. \A j \in 1 .. Len(q) : ~IsAnswer(q[j], a)
      BY <1>2, <2>2 DEF Awaited
    <3> QED BY <1>1, <1>2, <2>2, <3>1
  <2> QED BY <1>1, <2>1, <2>2
<1> QED BY <1>2 DEF Awaited

\* Handling the first message takes its answer out of the queue.
LEMMA AwaitedTail ==
    ASSUME NEW c, NEW q \in Seq(Messages), q # <<>>, NEW before, NEW after,
           Awaited(c, q, before),
           \A a \in Cmds : IsAnswer(Head(q), a) \/ (Awaits(c, before[a]) => Awaits(c, after[a]))
    PROVE  Awaited(c, Tail(q), after)
<1> DEFINE r == Tail(q)
<1>1. /\ Len(q) \in Nat /\ Len(r) + 1 = Len(q) /\ Head(q) = q[1] /\ Len(r) \in Nat
      /\ \A i \in 1 .. Len(r) : r[i] = q[i + 1]
  OBVIOUS
<1> HIDE DEF r
<1>2. ASSUME NEW i \in 1 .. Len(r), NEW a \in Cmds, IsAnswer(r[i], a)
      PROVE  /\ Awaits(c, after[a])
             /\ \A j \in 1 .. Len(r) : IsAnswer(r[j], a) => j = i
  <2>1. i + 1 \in 1 .. Len(q) /\ IsAnswer(q[i + 1], a)
    BY <1>1, <1>2
  <2>2. Awaits(c, before[a]) /\ \A j \in 1 .. Len(q) : IsAnswer(q[j], a) => j = i + 1
    BY <2>1 DEF Awaited
  <2>3. ~IsAnswer(Head(q), a)
    <3>1. 1 \in 1 .. Len(q) /\ 1 # i + 1
      BY <1>1
    <3> QED BY <1>1, <2>2, <3>1
  <2>4. ASSUME NEW j \in 1 .. Len(r), IsAnswer(r[j], a) PROVE j = i
    <3>1. j + 1 \in 1 .. Len(q) /\ IsAnswer(q[j + 1], a)
      BY <1>1, <2>4
    <3>2. j + 1 = i + 1
      BY <2>2, <3>1
    <3> QED BY <3>2
  <2> QED BY <2>2, <2>3, <2>4
<1> QED BY <1>2 DEF Awaited, r

\* A finite set as a sequence.
LEMMA SetToSeqIs ==
    ASSUME NEW S, IsFiniteSet(S)
    PROVE  /\ SetToSeq(S) \in [1 .. Cardinality(S) -> S] /\ Cardinality(S) \in Nat
           /\ \A i, j \in 1 .. Cardinality(S) : SetToSeq(S)[i] = SetToSeq(S)[j] => i = j
<1>1. Cardinality(S) \in Nat /\ ExistsBijection(1 .. Cardinality(S), S)
  BY FS_CardinalityType
<1>2. \E f \in [1 .. Cardinality(S) -> S] : IsInjective(f)
  BY <1>1 DEF ExistsBijection, Bijection, Injection
<1>3. SetToSeq(S) \in [1 .. Cardinality(S) -> S] /\ IsInjective(SetToSeq(S))
  BY <1>2 DEF SetToSeq
<1> QED BY <1>1, <1>3 DEF IsInjective

LEMMA ResponsesAreMessages ==
    ASSUME NEW a \in Cmds, NEW ph \in Phases, NEW res \in Results
    PROVE  \A m : m = [type |-> "response", cmd |-> a, phase |-> ph, result |-> res] =>
             m \in Messages /\ m.type = "response" /\ m.cmd = a
BY DEF Messages, Phases

\* Each of the commands that failed is answered once, to its client.
LEMMA RejectionsAre ==
    ASSUME NEW c, NEW as \in SUBSET Cmds, \A a \in as : cmd[a].phase \in Phases
    PROVE  /\ Rejections(as, c) \in Seq(Messages)
           /\ \A i \in 1 .. Len(Rejections(as, c)) :
                /\ Rejections(as, c)[i].type = "response"
                /\ Rejections(as, c)[i].cmd \in as
                /\ cmd[Rejections(as, c)[i].cmd].by = c
           /\ \A i, j \in 1 .. Len(Rejections(as, c)) :
                Rejections(as, c)[i].cmd = Rejections(as, c)[j].cmd => i = j
<1> DEFINE S == {a \in as : cmd[a].by = c}
           n == Cardinality(S)
           f == SetToSeq(S)
           r == Rejections(as, c)
<1>1. IsFiniteSet(S)
  BY RelayAssumption, FS_Subset
<1>2. n \in Nat /\ f \in [1 .. n -> S] /\ \A i, j \in 1 .. n : f[i] = f[j] => i = j
  BY <1>1, SetToSeqIs
<1> HIDE DEF f, n
<1>3. r = [i \in 1 .. n |-> Response(f[i], "rejected")]
  BY <1>2 DEF Rejections, f
<1> HIDE DEF r
<1>4. \A a \in S : a \in as /\ a \in Cmds /\ cmd[a].by = c /\ cmd[a].phase \in Phases
  OBVIOUS
<1> HIDE DEF S
<1>5. \A i \in 1 .. n : /\ f[i] \in S
                        /\ r[i] = [type |-> "response", cmd |-> f[i],
                                   phase |-> cmd[f[i]].phase, result |-> "rejected"]
  BY <1>2, <1>3 DEF Response
<1>6. ASSUME NEW i \in 1 .. n
      PROVE  /\ r[i] \in Messages /\ r[i].type = "response" /\ r[i].cmd = f[i]
             /\ f[i] \in as /\ cmd[f[i]].by = c
  <2>1. f[i] \in as /\ f[i] \in Cmds /\ cmd[f[i]].by = c /\ cmd[f[i]].phase \in Phases
    BY <1>4, <1>5
  <2>2. r[i] = [type |-> "response", cmd |-> f[i],
               phase |-> cmd[f[i]].phase, result |-> "rejected"]
    BY <1>5
  <2>3. r[i] \in Messages /\ r[i].type = "response" /\ r[i].cmd = f[i]
    BY <2>1, <2>2, ResponsesAreMessages, "rejected" \in Results DEF Results
  <2> QED BY <2>1, <2>2, <2>3
<1>7. r \in Seq(Messages) /\ Len(r) = n
  <2>1. r \in [1 .. n -> Messages]
    BY <1>3, <1>6
  <2> QED BY <1>2, <2>1
<1>8. \A i, j \in 1 .. n : r[i].cmd = r[j].cmd => i = j
  <2>1. ASSUME NEW i \in 1 .. n, NEW j \in 1 .. n, r[i].cmd = r[j].cmd
        PROVE  i = j
    <3>1. f[i] = f[j]
      BY <1>6, <2>1
    <3> QED BY <1>2, <3>1
  <2> QED BY <2>1
<1> QED BY <1>6, <1>7, <1>8 DEF r

-----------------------------------------------------------------------------
(* What the host does to a command keeps it sound.                         *)

\* One field of a command changes.
LEMMA WithPhase ==
    ASSUME NEW a \in Cmds, NEW c \in Commands(a),
           NEW x \in {"none", "sync", "register", "act", "failed", "ended"},
           NEW d, d = [c EXCEPT !.phase = x]
    PROVE  /\ d \in Commands(a) /\ d.phase = x
           /\ d.by = c.by /\ d.to = c.to /\ d.at = c.at /\ d.conn = c.conn
           /\ d.result = c.result /\ d.current = c.current /\ d.gaveUp = c.gaveUp
BY DEF Commands

LEMMA WithAt ==
    ASSUME NEW a \in Cmds, NEW c \in Commands(a),
           NEW x \in {"none", "toHost", "atPlugin", "answered", "toClient"},
           NEW d, d = [c EXCEPT !.at = x]
    PROVE  /\ d \in Commands(a) /\ d.at = x
           /\ d.by = c.by /\ d.to = c.to /\ d.phase = c.phase /\ d.conn = c.conn
           /\ d.result = c.result /\ d.current = c.current /\ d.gaveUp = c.gaveUp
BY DEF Commands

LEMMA WithConn ==
    ASSUME NEW a \in Cmds, NEW c \in Commands(a), NEW x \in 0 .. MaxConns,
           NEW d, d = [c EXCEPT !.conn = x]
    PROVE  /\ d \in Commands(a) /\ d.conn = x
           /\ d.by = c.by /\ d.to = c.to /\ d.phase = c.phase /\ d.at = c.at
           /\ d.result = c.result /\ d.current = c.current /\ d.gaveUp = c.gaveUp
BY DEF Commands

LEMMA WithResult ==
    ASSUME NEW a \in Cmds, NEW c \in Commands(a), NEW x \in Results \cup {"none"},
           NEW d, d = [c EXCEPT !.result = x]
    PROVE  /\ d \in Commands(a) /\ d.result = x
           /\ d.by = c.by /\ d.to = c.to /\ d.phase = c.phase /\ d.at = c.at
           /\ d.conn = c.conn /\ d.current = c.current /\ d.gaveUp = c.gaveUp
BY DEF Commands

\* A command that waits for nothing, or for its client, has no connection.
Left(c, at) == [c EXCEPT !.at = at, !.conn = 0, !.result = "none"]

LEMMA LeavesConnection ==
    ASSUME NEW a \in Cmds, NEW c \in Commands(a), NEW at \in {"none", "toClient"}
    PROVE  /\ Left(c, at) \in Commands(a) /\ Left(c, at).at = at /\ Left(c, at).conn = 0
           /\ Left(c, at).by = c.by /\ Left(c, at).to = c.to /\ Left(c, at).phase = c.phase
<1> DEFINE d == Left(c, at)
           d1 == [c EXCEPT !.at = at]
           d2 == [d1 EXCEPT !.conn = 0]
<1>1. d = [d2 EXCEPT !.result = "none"]
  BY DEF Left
<1> HIDE DEF d
<1>2. /\ d1 \in Commands(a) /\ d1.at = at
      /\ d1.by = c.by /\ d1.to = c.to /\ d1.phase = c.phase
  BY WithAt
<1> HIDE DEF d1
<1>3. /\ d2 \in Commands(a) /\ d2.at = at /\ d2.conn = 0
      /\ d2.by = c.by /\ d2.to = c.to /\ d2.phase = c.phase
  BY <1>2, WithConn, RelayAssumption
<1> HIDE DEF d2
<1>4. /\ d \in Commands(a) /\ d.at = at /\ d.conn = 0
      /\ d.by = c.by /\ d.to = c.to /\ d.phase = c.phase
  BY <1>1, <1>3 DEF Commands
<1> QED BY <1>4 DEF d

LEMMA FailedSound ==
    ASSUME NEW a \in Cmds, NEW c \in Commands(a), NEW p
    PROVE  /\ Sound(a, Failed(c), p) /\ Failed(c).at = "none"
           /\ Failed(c).by = c.by /\ Failed(c).to = c.to
<1> DEFINE d == [c EXCEPT !.phase = "failed"]
           e == Left(d, "none")
<1>1. d \in Commands(a) /\ d.by = c.by /\ d.to = c.to
  BY WithPhase
<1>2. Failed(c) = e
  BY DEF Failed, Left
<1> HIDE DEF d
<1>3. e \in Commands(a) /\ e.at = "none" /\ e.conn = 0 /\ e.by = c.by /\ e.to = c.to
  BY <1>1, LeavesConnection
<1> HIDE DEF e
<1> QED BY <1>2, <1>3 DEF Sound, PendingThen

LEMMA RejectedSound ==
    ASSUME NEW a \in Cmds, NEW c, NEW p, NEW p2, Sound(a, c, p), c.at # "none"
    PROVE  /\ Sound(a, Rejected(c), p2)
           /\ Rejected(c).by = c.by /\ Rejected(c).to = c.to
           /\ Rejected(c).at = IF c.by = Host THEN "none" ELSE "toClient"
<1>1. CASE c.by = Host
  BY <1>1, FailedSound DEF Rejected, Sound
<1>2. CASE c.by # Host
  <2>1. c \in Commands(a) /\ c.phase \in Phases
    BY DEF Sound
  <2>2. Rejected(c) = Left(c, "toClient")
    BY <1>2 DEF Rejected, Left
  <2>3. /\ Rejected(c) \in Commands(a) /\ Rejected(c).at = "toClient" /\ Rejected(c).conn = 0
        /\ Rejected(c).by = c.by /\ Rejected(c).to = c.to /\ Rejected(c).phase = c.phase
    BY <2>1, <2>2, LeavesConnection
  <2> QED BY <1>2, <2>1, <2>3 DEF Sound, PendingThen
<1> QED BY <1>1, <1>2

LEMMA OrphanedSound ==
    ASSUME NEW a \in Cmds, NEW h, NEW s, NEW p, Sound(a, cmd[a], p)
    PROVE  LET c == Orphaned(h, s)[a]
           IN  /\ Sound(a, c, p) /\ c.by = cmd[a].by /\ c.to = cmd[a].to
               /\ c.at = cmd[a].at /\ c.conn = cmd[a].conn /\ c.phase = cmd[a].phase
<1>1. Orphaned(h, s)[a] \in {cmd[a], [cmd[a] EXCEPT !.current = FALSE]}
  BY DEF Orphaned
<1>2. ASSUME NEW c, c = [cmd[a] EXCEPT !.current = FALSE]
      PROVE  /\ Sound(a, c, p) /\ c.by = cmd[a].by /\ c.to = cmd[a].to
             /\ c.at = cmd[a].at /\ c.conn = cmd[a].conn /\ c.phase = cmd[a].phase
  BY <1>2 DEF Sound, PendingThen, Commands
<1> QED BY <1>1, <1>2

\* A request goes to the plugin its session has, or nowhere.
LEMMA RequestedSound ==
    ASSUME TypeOK, NEW a \in Cmds, NEW c \in Commands(a), c.phase \in Phases, c.conn = 0
    PROVE  LET d == Requested(c)
           IN  /\ Sound(a, d, plugins) /\ d.by = c.by /\ d.to = c.to
               /\ d.at # "toClient" /\ (c.by # Host => d.at = "toHost")
               /\ (PendingThen(d) => plugins[d.to] # 0)
<1>1. CASE c.by # Host
  <2> DEFINE d == Requested(c)
  <2>1. d = [c EXCEPT !.at = "toHost"]
    BY <1>1 DEF Requested
  <2> HIDE DEF d
  <2>2. /\ d \in Commands(a) /\ d.at = "toHost" /\ d.by = c.by /\ d.to = c.to
        /\ d.phase = c.phase /\ d.conn = c.conn
    BY <2>1, WithAt
  <2> QED BY <1>1, <2>2 DEF Sound, PendingThen, d
<1>2. CASE c.by = Host /\ plugins[c.to] = 0
  <2>1. Requested(c) = Failed(c)
    BY <1>2 DEF Requested
  <2> QED BY <1>2, <2>1, FailedSound DEF PendingThen
<1>3. CASE c.by = Host /\ plugins[c.to] # 0
  <2> DEFINE d == Requested(c)
             e == [c EXCEPT !.at = "atPlugin"]
  <2>1. d = [e EXCEPT !.conn = plugins[c.to]]
    BY <1>3 DEF Requested
  <2>2. plugins[c.to] \in 0 .. MaxConns
    BY RelayAssumption DEF TypeOK, Commands
  <2>3. e \in Commands(a) /\ e.at = "atPlugin" /\ e.by = c.by /\ e.to = c.to /\ e.phase = c.phase
    BY WithAt
  <2> HIDE DEF d, e
  <2>4. /\ d \in Commands(a) /\ d.at = "atPlugin" /\ d.conn = plugins[c.to]
        /\ d.by = c.by /\ d.to = c.to /\ d.phase = c.phase
    BY <2>1, <2>2, <2>3, WithConn
  <2> QED BY <1>3, <2>4 DEF Sound, PendingThen, d
<1> QED BY <1>1, <1>2, <1>3

\* A holder that has a result sends the next request, or is done.
LEMMA ProceedSound ==
    ASSUME TypeOK, NEW a \in Cmds, NEW r \in Results,
           Sound(a, cmd[a], plugins), DOMAIN cmd = Cmds, cmd[a].at # "none",
           Proceed(a, cmd[a], r)
    PROVE  /\ DOMAIN cmd' = Cmds /\ \A x \in Cmds \ {a} : cmd'[x] = cmd[x]
           /\ Sound(a, cmd'[a], plugins) /\ cmd'[a].by = cmd[a].by /\ cmd'[a].to = cmd[a].to
           /\ cmd'[a].at # "toClient" /\ (cmd[a].by # Host => ~PendingThen(cmd'[a]))
           /\ ready' \in [Holders -> [Sessions -> BOOLEAN]]
<1> DEFINE c == cmd[a]
           then == [c EXCEPT !.phase = Next_(c, r), !.conn = 0, !.at = "none", !.result = "none"]
<1>1. Next_(c, r) \in {"register", "act", "ended"}
  BY DEF Next_
<1>2. c \in Commands(a)
  BY DEF Sound
<1>3. /\ then \in Commands(a) /\ then.conn = 0 /\ then.by = c.by /\ then.to = c.to
      /\ then.at = "none" /\ then.phase = Next_(c, r)
  <2> HIDE DEF c
  <2> DEFINE d1 == [c EXCEPT !.phase = Next_(c, r)]
             d2 == [d1 EXCEPT !.conn = 0]
             d3 == [d2 EXCEPT !.at = "none"]
  <2>1. d1 \in Commands(a) /\ d1.phase = Next_(c, r) /\ d1.by = c.by /\ d1.to = c.to
    BY <1>1, <1>2, WithPhase
  <2>2. then = [d3 EXCEPT !.result = "none"]
    OBVIOUS
  <2> HIDE DEF d1, then
  <2>3. /\ d2 \in Commands(a) /\ d2.conn = 0 /\ d2.by = c.by /\ d2.to = c.to
        /\ d2.phase = Next_(c, r)
    BY <2>1, WithConn, RelayAssumption
  <2> HIDE DEF d2
  <2>4. /\ d3 \in Commands(a) /\ d3.conn = 0 /\ d3.by = c.by /\ d3.to = c.to
        /\ d3.at = "none" /\ d3.phase = Next_(c, r)
    BY <2>3, WithAt
  <2> HIDE DEF d3
  <2> QED BY <2>2, <2>4, WithResult
<1>4. cmd' = [cmd EXCEPT ![a] = IF then.phase = "ended" THEN then ELSE Requested(then)]
  BY DEF Proceed
<1> HIDE DEF then
<1>5. ASSUME NEW d, d = IF then.phase = "ended" THEN then ELSE Requested(then)
      PROVE  /\ Sound(a, d, plugins) /\ d.by = c.by /\ d.to = c.to
             /\ d.at # "toClient" /\ (c.by # Host => ~PendingThen(d))
  <2>1. CASE then.phase = "ended"
    BY <1>3, <1>5, <2>1 DEF Sound, PendingThen
  <2>2. CASE then.phase # "ended"
    <3>1. d = Requested(then) /\ then.phase \in Phases
      BY <1>1, <1>3, <1>5, <2>2 DEF Phases
    <3> QED BY <1>3, <3>1, RequestedSound DEF PendingThen
  <2> QED BY <2>1, <2>2
<1>6. ready' \in [Holders -> [Sessions -> BOOLEAN]]
  BY DEF Proceed, TypeOK
<1> QED BY <1>4, <1>5, <1>6

-----------------------------------------------------------------------------
(* What the host sends.                                                    *)

LEMMA Concatenation ==
    ASSUME NEW S, NEW u \in Seq(S), NEW v \in Seq(S)
    PROVE  /\ u \o v \in Seq(S) /\ Len(u \o v) = Len(u) + Len(v)
           /\ Len(u) \in Nat /\ Len(v) \in Nat
           /\ \A i \in 1 .. Len(u) : (u \o v)[i] = u[i]
           /\ \A i \in 1 .. Len(v) : (u \o v)[Len(u) + i] = v[i]
OBVIOUS

\* A client gets the events, and then an answer for each of its commands that failed.
LEMMA SendIs ==
    ASSUME TypeOK, NEW events \in Seq(Messages), NEW as \in SUBSET Cmds,
           \A a \in as : cmd[a].phase \in Phases, Send(events, as), NEW c \in Clients,
           Listening(c)
    PROVE  LET q == inbox[c]
               mid == q \o events
               both == inbox'[c]
           IN  /\ mid \in Seq(Messages) /\ both \in Seq(Messages)
               /\ Extends(mid, q) /\ Extends(both, mid)
               /\ Len(mid) = Len(q) + Len(events)
               /\ \A i \in 1 .. Len(events) : mid[Len(q) + i] = events[i]
               /\ \A i \in Len(mid) + 1 .. Len(both) :
                    /\ both[i].type = "response" /\ both[i].cmd \in as
                    /\ cmd[both[i].cmd].by = c
               /\ \A i, j \in Len(mid) + 1 .. Len(both) : both[i].cmd = both[j].cmd => i = j
<1> DEFINE q == inbox[c]
           mid == q \o events
           R == Rejections(as, c)
           both == inbox'[c]
<1>1. q \in Seq(Messages)
  BY DEF TypeOK
<1>2. /\ R \in Seq(Messages)
      /\ \A i \in 1 .. Len(R) : R[i].type = "response" /\ R[i].cmd \in as /\ cmd[R[i].cmd].by = c
      /\ \A i, j \in 1 .. Len(R) : R[i].cmd = R[j].cmd => i = j
  BY RejectionsAre
<1>3. both = mid \o R
  BY DEF Send
<1> HIDE DEF q, R, both
<1>4. /\ mid \in Seq(Messages) /\ Len(mid) = Len(q) + Len(events) /\ Len(q) \in Nat
      /\ Len(events) \in Nat
      /\ \A i \in 1 .. Len(q) : mid[i] = q[i]
      /\ \A i \in 1 .. Len(events) : mid[Len(q) + i] = events[i]
  BY <1>1, Concatenation
<1> HIDE DEF mid
<1>5. /\ both \in Seq(Messages) /\ Len(both) = Len(mid) + Len(R) /\ Len(R) \in Nat
      /\ Len(mid) \in Nat
      /\ \A i \in 1 .. Len(mid) : both[i] = mid[i]
  <2>1. R \in Seq(Messages) /\ mid \in Seq(Messages)
    BY <1>2, <1>4
  <2> QED BY <1>3, <2>1, Concatenation
<1>6. ASSUME NEW i \in Len(mid) + 1 .. Len(both)
      PROVE  i - Len(mid) \in 1 .. Len(R) /\ both[i] = R[i - Len(mid)]
  <2>1. i - Len(mid) \in 1 .. Len(R) /\ Len(mid) + (i - Len(mid)) = i
    BY <1>5
  <2>2. R \in Seq(Messages) /\ mid \in Seq(Messages)
    BY <1>2, <1>4
  <2>3. \A k \in 1 .. Len(R) : both[Len(mid) + k] = R[k]
    BY <1>3, <2>2, Concatenation
  <2> QED BY <1>3, <2>1, <2>3
<1>7. ASSUME NEW i \in Len(mid) + 1 .. Len(both)
      PROVE  both[i].type = "response" /\ both[i].cmd \in as /\ cmd[both[i].cmd].by = c
  <2>1. i - Len(mid) \in 1 .. Len(R) /\ both[i] = R[i - Len(mid)]
    BY <1>6
  <2>2. R[i - Len(mid)].type = "response" /\ R[i - Len(mid)].cmd \in as
        /\ cmd[R[i - Len(mid)].cmd].by = c
    BY <1>2, <2>1
  <2> QED BY <2>1, <2>2
<1>8. ASSUME NEW i \in Len(mid) + 1 .. Len(both), NEW j \in Len(mid) + 1 .. Len(both),
             both[i].cmd = both[j].cmd
      PROVE  i = j
  <2>1. R[i - Len(mid)].cmd = R[j - Len(mid)].cmd
    BY <1>6, <1>8
  <2>2. i - Len(mid) = j - Len(mid)
    BY <1>2, <1>6, <2>1
  <2> QED BY <1>5, <2>2
<1>9. Extends(mid, q) /\ Extends(both, mid)
  BY <1>4, <1>5 DEF Extends
<1> QED BY <1>4, <1>5, <1>7, <1>8, <1>9 DEF q, mid, both

LEMMA SendTyped ==
    ASSUME TypeOK, NEW events \in Seq(Messages), NEW as \in SUBSET Cmds,
           \A a \in as : cmd[a].phase \in Phases, Send(events, as)
    PROVE  /\ inbox' \in [Clients -> Seq(Messages)]
           /\ \A c \in Clients : ~Listening(c) => inbox'[c] = inbox[c]
<1>1. ASSUME NEW c \in Clients PROVE inbox'[c] \in Seq(Messages)
  <2>1. CASE Listening(c)
    BY <2>1, SendIs
  <2>2. CASE ~Listening(c)
    BY <2>2 DEF Send, TypeOK
  <2> QED BY <2>1, <2>2
<1> QED BY <1>1 DEF Send

\* An event has the last word on what a client lists, the answers have none.
LEMMA SendEvent ==
    ASSUME TypeOK, NEW m \in Messages, m.type # "response", NEW as \in SUBSET Cmds,
           \A a \in as : cmd[a].phase \in Phases, Send(<<m>>, as), NEW c \in Clients,
           Listening(c), NEW has
    PROVE  \A s \in Sessions : s \in Listed(has, inbox'[c]) <=>
             Adds(m, s) \/ (s \in Listed(has, inbox[c]) /\ ~Removes(m, s))
<1>0. PICK events : events = <<m>> /\ Send(events, as)
  OBVIOUS
<1> DEFINE q == inbox[c]
           mid == q \o events
           both == inbox'[c]
<1>1. Len(events) = 1 /\ events[1] = m /\ q \in Seq(Messages)
  BY <1>0 DEF TypeOK
<1>2. events \in Seq(Messages) /\ Send(events, as)
  BY <1>0
<1>3. /\ mid \in Seq(Messages) /\ both \in Seq(Messages)
      /\ Extends(mid, q) /\ Extends(both, mid)
      /\ Len(mid) = Len(q) + Len(events)
      /\ \A i \in 1 .. Len(events) : mid[Len(q) + i] = events[i]
      /\ \A i \in Len(mid) + 1 .. Len(both) :
           both[i].type = "response" /\ both[i].cmd \in as /\ cmd[both[i].cmd].by = c
      /\ \A i, j \in Len(mid) + 1 .. Len(both) : both[i].cmd = both[j].cmd => i = j
  BY <1>2, SendIs
<1> HIDE DEF q, mid, both
<1>4. Len(mid) = Len(q) + 1 /\ mid[Len(mid)] = m
  BY <1>1, <1>3
<1>5. \A s \in Sessions : s \in Listed(has, mid) <=>
        Adds(m, s) \/ (s \in Listed(has, q) /\ ~Removes(m, s))
  BY <1>1, <1>3, <1>4, ListedAppend
<1>6. Listed(has, both) = Listed(has, mid)
  BY <1>3, ListedNeutral
<1> QED BY <1>5, <1>6 DEF q, both

LEMMA SendAnswer ==
    ASSUME TypeOK, NEW as \in SUBSET Cmds, \A a \in as : cmd[a].phase \in Phases,
           Send(<<>>, as), NEW c \in Clients, NEW has
    PROVE  Listed(has, inbox'[c]) = Listed(has, inbox[c])
<1>1. CASE Listening(c)
  <2>0. PICK none : none = <<>> /\ Send(none, as)
    OBVIOUS
  <2> DEFINE q == inbox[c]
             mid == q \o none
             both == inbox'[c]
  <2>1. q \in Seq(Messages)
    BY DEF TypeOK
  <2>2. none \in Seq(Messages) /\ Send(none, as)
    BY <2>0
  <2>3. mid = q
    <3> HIDE DEF q
    <3> QED BY <2>0, <2>1
  <2>4. /\ mid \in Seq(Messages) /\ both \in Seq(Messages)
        /\ Extends(mid, q) /\ Extends(both, mid)
        /\ Len(mid) = Len(q) + Len(none)
        /\ \A i \in 1 .. Len(none) : mid[Len(q) + i] = none[i]
        /\ \A i \in Len(mid) + 1 .. Len(both) :
             both[i].type = "response" /\ both[i].cmd \in as /\ cmd[both[i].cmd].by = c
        /\ \A i, j \in Len(mid) + 1 .. Len(both) : both[i].cmd = both[j].cmd => i = j
    BY <1>1, <2>2, SendIs
  <2> HIDE DEF q, mid, both
  <2>5. Listed(has, both) = Listed(has, q)
    BY <2>1, <2>3, <2>4, ListedNeutral
  <2> QED BY <2>5 DEF q, both
<1>2. CASE ~Listening(c)
  BY <1>2 DEF Send
<1> QED BY <1>1, <1>2

\* The commands that are answered begin to wait for it.
LEMMA SendAwaited ==
    ASSUME TypeOK, NEW events \in Seq(Messages), NEW as \in SUBSET Cmds,
           \A a \in as : cmd[a].phase \in Phases, Send(events, as), NEW c \in Clients,
           \A i \in 1 .. Len(events) : events[i].type # "response",
           AnswersAwaited(c), NEW after,
           \A a \in Cmds : Awaits(c, cmd[a]) => Awaits(c, after[a]),
           \A a \in as : cmd[a].by = c => Awaits(c, after[a]) /\ ~Awaits(c, cmd[a])
    PROVE  Awaited(c, inbox'[c], after)
<1> DEFINE q == inbox[c]
           mid == q \o events
           both == inbox'[c]
<1>0. q \in Seq(Messages) /\ Awaited(c, q, cmd)
  BY DEF TypeOK, AnswersAwaited
<1>1. CASE Listening(c)
  <2>1. /\ mid \in Seq(Messages) /\ both \in Seq(Messages)
        /\ Extends(mid, q) /\ Extends(both, mid)
        /\ Len(mid) = Len(q) + Len(events)
        /\ \A i \in 1 .. Len(events) : mid[Len(q) + i] = events[i]
        /\ \A i \in Len(mid) + 1 .. Len(both) :
             both[i].type = "response" /\ both[i].cmd \in as /\ cmd[both[i].cmd].by = c
        /\ \A i, j \in Len(mid) + 1 .. Len(both) : both[i].cmd = both[j].cmd => i = j
    BY <1>1, SendIs
  <2> HIDE DEF q, mid, both
  <2>2. \A i \in Len(q) + 1 .. Len(mid) : mid[i].type # "response"
    <3>1. Len(q) \in Nat /\ Len(events) \in Nat
      BY <1>0
    <3>2. \A i \in Len(q) + 1 .. Len(mid) :
            \E k \in 1 .. Len(events) : mid[i] = events[k]
      <4>1. ASSUME NEW i \in Len(q) + 1 .. Len(mid)
            PROVE  i - Len(q) \in 1 .. Len(events) /\ mid[i] = events[i - Len(q)]
        <5>1. i - Len(q) \in 1 .. Len(events) /\ Len(q) + (i - Len(q)) = i
          BY <2>1, <3>1
        <5> QED BY <2>1, <5>1
      <4> QED BY <4>1
    <3> QED BY <3>2
  <2>3. Awaited(c, mid, cmd)
    BY <1>0, <2>1, <2>2, AwaitedExtends DEF IsAnswer
  <2>4. ASSUME NEW i \in Len(mid) + 1 .. Len(both), NEW a \in Cmds, IsAnswer(both[i], a)
        PROVE  /\ Awaits(c, after[a]) /\ ~Awaits(c, cmd[a])
               /\ \A j \in Len(mid) + 1 .. Len(both) : IsAnswer(both[j], a) => j = i
    <3>1. both[i].cmd = a
      BY <2>4 DEF IsAnswer
    <3>2. a \in as /\ cmd[a].by = c
      BY <2>1, <2>4, <3>1
    <3>3. ASSUME NEW j \in Len(mid) + 1 .. Len(both), IsAnswer(both[j], a) PROVE j = i
      <4>1. both[j].cmd = a
        BY <3>3 DEF IsAnswer
      <4> QED BY <2>1, <2>4, <3>1, <3>3, <4>1
    <3> QED BY <3>2, <3>3
  <2>5. Awaited(c, both, after)
    BY <2>1, <2>3, <2>4, AwaitedExtends
  <2> QED BY <2>5 DEF both
<1>2. CASE ~Listening(c)
  BY <1>0, <1>2 DEF Send, Awaited
<1> QED BY <1>1, <1>2

-----------------------------------------------------------------------------
(* What a step that leaves a part alone keeps.                             *)

LEMMA HostFrame ==
    ASSUME HostSound, UNCHANGED <<conn, plugins, tracked, groups, phase>>
    PROVE  HostSound'
BY DEF HostSound, TrackerMatches

LEMMA CommandsFrame ==
    ASSUME CommandsSound, UNCHANGED <<cmd, plugins, relays, phase>>
    PROVE  CommandsSound'
BY DEF CommandsSound, Serving, Pending

LEMMA ClientsFrame ==
    ASSUME ClientsSound, UNCHANGED <<joined, known, inbox, tracked, phase>>,
           \A c \in Clients, a \in Cmds : Awaits(c, cmd[a]) => Awaits(c, cmd'[a])
    PROVE  ClientsSound'
<1> SUFFICES ASSUME NEW c \in Clients
             PROVE  /\ AnswersAwaited(c)' /\ CacheSound(c)'
                    /\ joined'[c] \in {"cut", "lost"} => phase' = "stopped"
  BY DEF ClientsSound
<1>1. AnswersAwaited(c) /\ CacheSound(c) /\ (joined[c] \in {"cut", "lost"} => phase = "stopped")
  BY DEF ClientsSound
<1>2. AnswersAwaited(c)'
  BY <1>1 DEF AnswersAwaited, Awaited
<1>3. CacheSound(c)'
  BY <1>1 DEF CacheSound, ListedOnce
<1> QED BY <1>1, <1>2, <1>3

\* The clients of the commands as are answered.
LEMMA ClientsAnswered ==
    ASSUME TypeOK, ClientsSound, UNCHANGED <<joined, known, tracked, phase>>,
           NEW as \in SUBSET Cmds, \A a \in as : cmd[a].phase \in Phases, Send(<<>>, as),
           \A c \in Clients, a \in Cmds : Awaits(c, cmd[a]) => Awaits(c, cmd'[a]),
           \A c \in Clients, a \in as :
             cmd[a].by = c => Awaits(c, cmd'[a]) /\ ~Awaits(c, cmd[a])
    PROVE  ClientsSound'
<1> SUFFICES ASSUME NEW c \in Clients
             PROVE  /\ AnswersAwaited(c)' /\ CacheSound(c)'
                    /\ joined'[c] \in {"cut", "lost"} => phase' = "stopped"
  BY DEF ClientsSound
<1>1. AnswersAwaited(c) /\ CacheSound(c) /\ (joined[c] \in {"cut", "lost"} => phase = "stopped")
  BY DEF ClientsSound
<1>2. AnswersAwaited(c)'
  <2>1. PICK none : none = <<>> /\ Send(none, as)
    OBVIOUS
  <2>2. none \in Seq(Messages) /\ \A i \in 1 .. Len(none) : none[i].type # "response"
    BY <2>1
  <2>3. Awaited(c, inbox'[c], cmd')
    BY <1>1, <2>1, <2>2, SendAwaited
  <2> QED BY <2>3 DEF AnswersAwaited
<1>3. Listed(known[c], inbox'[c]) = Listed(known[c], inbox[c])
  BY SendAnswer
<1>4. joined[c] = "out" => inbox'[c] = inbox[c]
  BY DEF Send, Listening
<1>5. CacheSound(c)'
  BY <1>1, <1>3, <1>4 DEF CacheSound, ListedOnce
<1> QED BY <1>1, <1>2, <1>5

\* The clients are told of an event at the host, whose sessions change alike.
LEMMA ClientsTold ==
    ASSUME TypeOK, ClientsSound, UNCHANGED <<joined, known, phase>>,
           NEW m \in Messages, m.type # "response",
           NEW as \in SUBSET Cmds, \A a \in as : cmd[a].phase \in Phases, Send(<<m>>, as),
           tracked' \in SUBSET Sessions,
           \A s \in Sessions : s \in tracked' <=> Adds(m, s) \/ (s \in tracked /\ ~Removes(m, s)),
           \A c \in Clients, a \in Cmds : Awaits(c, cmd[a]) => Awaits(c, cmd'[a]),
           \A c \in Clients, a \in as :
             cmd[a].by = c => Awaits(c, cmd'[a]) /\ ~Awaits(c, cmd[a])
    PROVE  ClientsSound'
<1> SUFFICES ASSUME NEW c \in Clients
             PROVE  /\ AnswersAwaited(c)' /\ CacheSound(c)'
                    /\ joined'[c] \in {"cut", "lost"} => phase' = "stopped"
  BY DEF ClientsSound
<1>1. AnswersAwaited(c) /\ CacheSound(c) /\ (joined[c] \in {"cut", "lost"} => phase = "stopped")
  BY DEF ClientsSound
<1>2. AnswersAwaited(c)'
  <2>1. PICK events : events = <<m>> /\ Send(events, as)
    OBVIOUS
  <2>2. events \in Seq(Messages) /\ \A i \in 1 .. Len(events) : events[i].type # "response"
    BY <2>1
  <2>3. Awaited(c, inbox'[c], cmd')
    BY <1>1, <2>1, <2>2, SendAwaited
  <2> QED BY <2>3 DEF AnswersAwaited
<1>3. Listening(c) => \A s \in Sessions : s \in Listed(known[c], inbox'[c]) <=>
                        Adds(m, s) \/ (s \in Listed(known[c], inbox[c]) /\ ~Removes(m, s))
  BY SendEvent
<1>4. joined[c] = "out" => inbox'[c] = inbox[c]
  BY DEF Send, Listening
<1>5. tracked \in SUBSET Sessions /\ Listed(known[c], inbox'[c]) \in SUBSET Sessions
      /\ Listed(known[c], inbox[c]) \in SUBSET Sessions
  BY DEF TypeOK, Listed
<1>6. CacheSound(c)'
  <2>1. joined[c] = "asked" => Listed(known[c], inbox'[c]) \subseteq tracked'
    BY <1>1, <1>3, <1>5 DEF CacheSound, ListedOnce, Listening
  <2>2. joined[c] = "listed" => Listed(known[c], inbox'[c]) = tracked'
    BY <1>1, <1>3, <1>5 DEF CacheSound, ListedOnce, Listening
  <2> QED BY <1>1, <1>4, <2>1, <2>2 DEF CacheSound, ListedOnce
<1> QED BY <1>1, <1>2, <1>6

\* Whatever replaces or closes the connection of a session cancels just what is
\* pending on it.
LEMMA Cancels ==
    ASSUME TypeOK, CommandsSound, NEW s \in Sessions, NEW k \in 0 .. MaxConns,
           plugins' = [plugins EXCEPT ![s] = k], phase' = phase,
           NEW as, as = PendingOn(s, plugins[s]),
           cmd' = [a \in Cmds |-> IF a \in as THEN Rejected(Orphaned(Host, s)[a])
                                  ELSE Orphaned(Host, s)[a]],
           relays' = relays \ as
    PROVE  /\ CommandsSound'
           /\ as \in SUBSET Cmds /\ \A a \in as : cmd[a].phase \in Phases
           /\ \A c \in Clients, a \in Cmds : Awaits(c, cmd[a]) => Awaits(c, cmd'[a])
           /\ \A c \in Clients, a \in as :
                cmd[a].by = c => Awaits(c, cmd'[a]) /\ ~Awaits(c, cmd[a])
<1>1. \A a \in Cmds : Sound(a, cmd[a], plugins) /\ cmd[a].to \in Sessions
  BY RelayAssumption DEF CommandsSound, Sound, Commands
<1>2. as = {a \in Cmds : cmd[a].to = s /\ Pending(a)}
  <2>1. ASSUME NEW a \in Cmds, cmd[a].to = s
        PROVE  (cmd[a].conn = plugins[s] /\ plugins[s] # 0) <=> Pending(a)
    BY <1>1, <2>1 DEF Sound, PendingThen, Pending
  <2> QED BY <2>1 DEF PendingOn
<1>3. ASSUME NEW a \in Cmds
      PROVE  LET c == Orphaned(Host, s)[a]
             IN  /\ Sound(a, c, plugins) /\ c.by = cmd[a].by /\ c.to = cmd[a].to
                 /\ c.at = cmd[a].at /\ c.conn = cmd[a].conn /\ c.phase = cmd[a].phase
  BY <1>1, OrphanedSound
<1>4. ASSUME NEW a \in as
      PROVE  /\ Sound(a, cmd'[a], plugins') /\ cmd'[a].by = cmd[a].by
             /\ cmd'[a].at = IF cmd[a].by = Host THEN "none" ELSE "toClient"
             /\ cmd[a].phase \in Phases /\ Pending(a)
  <2> DEFINE o == Orphaned(Host, s)[a]
  <2>1. a \in Cmds /\ Pending(a)
    BY <1>2
  <2>2. Sound(a, o, plugins) /\ o.by = cmd[a].by /\ o.at = cmd[a].at /\ cmd'[a] = Rejected(o)
    BY <1>3, <2>1
  <2> HIDE DEF o
  <2>3. cmd[a].at # "none"
    BY <2>1 DEF Pending
  <2>4. /\ Sound(a, Rejected(o), plugins') /\ Rejected(o).by = o.by
        /\ Rejected(o).at = IF o.by = Host THEN "none" ELSE "toClient"
    BY <2>1, <2>2, <2>3, RejectedSound
  <2>5. cmd[a].phase \in Phases
    BY <1>1, <2>1, <2>3 DEF Sound
  <2> QED BY <2>1, <2>2, <2>4, <2>5
<1>5. ASSUME NEW a \in Cmds \ as
      PROVE  /\ Sound(a, cmd'[a], plugins') /\ cmd'[a].by = cmd[a].by /\ cmd'[a].at = cmd[a].at
  <2> DEFINE o == Orphaned(Host, s)[a]
  <2>1. /\ Sound(a, o, plugins) /\ o.by = cmd[a].by /\ o.at = cmd[a].at /\ cmd'[a] = o
        /\ o.to = cmd[a].to
    BY <1>3
  <2> HIDE DEF o
  <2>2. PendingThen(o) => o.to # s
    BY <1>2, <2>1 DEF PendingThen, Pending
  <2>3. o.to \in Sessions /\ plugins \in [Sessions -> 0 .. MaxConns]
    BY <1>1, <2>1 DEF TypeOK
  <2>4. o.to # s => plugins'[o.to] = plugins[o.to]
    BY <2>3
  <2>5. Sound(a, o, plugins')
    BY <2>1, <2>2, <2>4 DEF Sound
  <2> QED BY <2>1, <2>5
<1>6. \A a \in Cmds : Pending(a)' <=> Pending(a) /\ a \notin as
  BY <1>4, <1>5 DEF Pending
<1>7. CommandsSound'
  <2>1. DOMAIN cmd' = Cmds
    OBVIOUS
  <2>2. \A a \in Cmds : Sound(a, cmd'[a], plugins') /\ cmd'[a].by = cmd[a].by
    BY <1>4, <1>5
  <2>3. Serving' => relays' = {a \in Cmds : cmd'[a].by # Host /\ Pending(a)'}
    BY <1>6, <2>2 DEF CommandsSound, Serving
  <2>4. phase' = "stopped" => \A a \in Cmds : ~Pending(a)'
    BY <1>6 DEF CommandsSound
  <2> QED BY <2>1, <2>2, <2>3, <2>4 DEF CommandsSound
<1>8. ASSUME NEW c \in Clients, NEW a \in Cmds, Awaits(c, cmd[a]) PROVE Awaits(c, cmd'[a])
  <2>1. ~Pending(a)
    BY <1>8 DEF Awaits, Pending
  <2> QED BY <1>2, <1>5, <1>8, <2>1 DEF Awaits
<1>9. ASSUME NEW c \in Clients, NEW a \in as, cmd[a].by = c
      PROVE  Awaits(c, cmd'[a]) /\ ~Awaits(c, cmd[a])
  BY <1>4, <1>9, RelayAssumption DEF Awaits, Pending
<1> QED BY <1>2, <1>4, <1>7, <1>8, <1>9

-----------------------------------------------------------------------------
(* The steps.                                                              *)

LEMMA CommandsTyped ==
    ASSUME CommandsSound
    PROVE  DOMAIN cmd = Cmds /\ \A a \in Cmds : cmd[a] \in Commands(a)
BY DEF CommandsSound, Sound

LEMMA InitHolds == ASSUME Init PROVE IInv
<1>1. \A a \in Cmds : cmd[a] \in Commands(a) /\ cmd[a].at = "none" /\ cmd[a].conn = 0
  BY RelayAssumption DEF Init, NewCmd, Commands
<1>2. TypeOK
  <2>1. <<>> \in Seq(Messages) /\ 0 \in 0 .. MaxConns
    BY RelayAssumption
  <2> QED BY <1>1, <2>1 DEF Init, TypeOK
<1>3. HostSound
  <2>1. IsFiniteSet({})
    BY FS_EmptySet
  <2> QED BY <2>1, RelayAssumption DEF Init, HostSound, TrackerMatches, Conns
<1>4. CommandsSound
  BY <1>1, <1>2 DEF Init, CommandsSound, Sound, PendingThen, Pending, TypeOK
<1>5. ClientsSound
  BY DEF Init, ClientsSound, AnswersAwaited, Awaited, CacheSound
<1> QED BY <1>2, <1>3, <1>4, <1>5 DEF IInv

LEMMA ConnectsKeeps ==
    ASSUME IInv, NEW s \in Sessions, NEW k \in Conns, PluginConnects(s, k)
    PROVE  IInv'
<1>1. TypeOK'
  BY DEF IInv, PluginConnects, TypeOK, hostVars
<1>2. HostSound'
  BY DEF IInv, PluginConnects, TypeOK, hostVars, HostSound, TrackerMatches
<1>3. CommandsSound'
  BY CommandsFrame DEF IInv, PluginConnects, hostVars
<1>4. ClientsSound'
  BY ClientsFrame DEF IInv, PluginConnects, hostVars
<1> QED BY <1>1, <1>2, <1>3, <1>4 DEF IInv

\* The groups of the tracker change with its sessions.
LEMMA SessionAdded ==
    ASSUME NEW g \in [Instances -> SUBSET Sessions], NEW t \in SUBSET Sessions,
           NEW s \in Sessions, NEW h, h = [g EXCEPT ![InstanceOf[s]] = @ \cup {s}],
           \A i \in Instances : g[i] = {x \in t : InstanceOf[x] = i}
    PROVE  \A i \in Instances : h[i] = {x \in t \cup {s} : InstanceOf[x] = i}
<1>1. InstanceOf[s] \in Instances
  BY DEF Instances
<1>2. ASSUME NEW i \in Instances PROVE h[i] = {x \in t \cup {s} : InstanceOf[x] = i}
  <2>1. CASE i = InstanceOf[s]
    BY <1>1, <2>1
  <2>2. CASE i # InstanceOf[s]
    BY <1>1, <2>2
  <2> QED BY <2>1, <2>2
<1> QED BY <1>2

LEMMA SessionRemoved ==
    ASSUME NEW g \in [Instances -> SUBSET Sessions], NEW t \in SUBSET Sessions,
           NEW s \in Sessions, NEW h, h = [g EXCEPT ![InstanceOf[s]] = @ \ {s}],
           \A i \in Instances : g[i] = {x \in t : InstanceOf[x] = i}
    PROVE  \A i \in Instances : h[i] = {x \in t \ {s} : InstanceOf[x] = i}
<1>1. InstanceOf[s] \in Instances
  BY DEF Instances
<1>2. ASSUME NEW i \in Instances PROVE h[i] = {x \in t \ {s} : InstanceOf[x] = i}
  <2>1. CASE i = InstanceOf[s]
    BY <1>1, <2>1
  <2>2. CASE i # InstanceOf[s]
    BY <1>1, <2>2
  <2> QED BY <2>1, <2>2
<1> QED BY <1>2

LEMMA RegistersKeeps ==
    ASSUME IInv, NEW s \in Sessions, NEW k \in Conns, PluginRegisters(s, k)
    PROVE  IInv'
<1> DEFINE as == PendingOn(s, plugins[s])
           m == [type |-> "connected", session |-> s]
<1>0. /\ TypeOK /\ HostSound /\ CommandsSound /\ ClientsSound /\ k \in 0 .. MaxConns /\ k # 0
      /\ plugins' = [plugins EXCEPT ![s] = k] /\ phase' = phase
  BY RelayAssumption DEF IInv, PluginRegisters, Conns
<1>1. /\ CommandsSound'
      /\ as \in SUBSET Cmds /\ \A a \in as : cmd[a].phase \in Phases
      /\ \A c \in Clients, a \in Cmds : Awaits(c, cmd[a]) => Awaits(c, cmd'[a])
      /\ \A c \in Clients, a \in as :
           cmd[a].by = c => Awaits(c, cmd'[a]) /\ ~Awaits(c, cmd[a])
  BY <1>0, Cancels DEF PluginRegisters
<1>2. m \in Messages /\ m.type # "response" /\ Send(<<m>>, as)
  BY DEF Messages, PluginRegisters
<1>3. tracked' = tracked \cup {s} /\ tracked \in SUBSET Sessions
  BY <1>0 DEF PluginRegisters, TypeOK
<1>4. \A x \in Sessions : x \in tracked' <=> Adds(m, x) \/ (x \in tracked /\ ~Removes(m, x))
  BY <1>3 DEF Adds, Removes
<1>5. UNCHANGED <<joined, known, phase, awaited>>
  BY DEF PluginRegisters
<1> HIDE DEF as, m
<1>6. ClientsSound'
  BY <1>0, <1>1, <1>2, <1>3, <1>4, <1>5, ClientsTold
<1>7. /\ groups' = [groups EXCEPT ![InstanceOf[s]] = @ \cup {s}]
      /\ ready' = [ready EXCEPT ![Host][s] = FALSE]
      /\ relays' = relays \ as /\ idle' = IdleAfter(tracked')
  BY DEF PluginRegisters, as
<1>8. HostSound'
  <2>1. IsFiniteSet(tracked')
    BY <1>0, <1>3, FS_AddElement DEF HostSound
  <2>2. tracked' = {x \in Sessions : plugins'[x] # 0}
    BY <1>0, <1>3 DEF HostSound, TrackerMatches, TypeOK
  <2>3. \A i \in Instances : groups'[i] = {x \in tracked' : InstanceOf[x] = i}
    BY <1>0, <1>3, <1>7, SessionAdded DEF HostSound, TrackerMatches, TypeOK
  <2>4. ASSUME NEW x \in Sessions, NEW j \in Conns
        PROVE  conn'[x][j] = "registered" <=> plugins'[x] = j
    BY <1>0 DEF HostSound, TrackerMatches, TypeOK, PluginRegisters
  <2>5. phase' # "stopped"
    BY DEF PluginRegisters, Serving
  <2> QED BY <2>1, <2>2, <2>3, <2>4, <2>5 DEF HostSound, TrackerMatches
<1>9. TypeOK'
  <2>1. conn' \in [Sessions -> [Conns -> {"none", "open", "registered", "closing", "closed"}]]
    BY <1>0 DEF PluginRegisters, TypeOK
  <2>2. /\ plugins' \in [Sessions -> 0 .. MaxConns] /\ relays' \in SUBSET Cmds
        /\ groups' \in [Instances -> SUBSET Sessions] /\ idle' \in BOOLEAN
        /\ ready' \in [Holders -> [Sessions -> BOOLEAN]]
    <3>1. groups' \in [Instances -> SUBSET Sessions]
      BY <1>0, <1>7 DEF TypeOK
    <3>2. ready' \in [Holders -> [Sessions -> BOOLEAN]]
      BY <1>0, <1>7 DEF TypeOK
    <3>3. idle' \in BOOLEAN
      BY <1>7, RelayAssumption DEF IdleAfter
    <3> QED BY <1>0, <1>7, <3>1, <3>2, <3>3 DEF TypeOK
  <2>3. inbox' \in [Clients -> Seq(Messages)]
    <3>1. PICK events : events = <<m>> /\ Send(events, as)
      BY <1>2
    <3>2. events \in Seq(Messages)
      BY <1>2, <3>1
    <3> QED BY <1>0, <1>1, <3>1, <3>2, SendTyped
  <2>4. DOMAIN cmd' = Cmds /\ \A a \in Cmds : cmd'[a] \in Commands(a)
    BY <1>1, CommandsTyped DEF CommandsSound, Sound
  <2> QED BY <1>0, <1>3, <1>5, <2>1, <2>2, <2>3, <2>4 DEF TypeOK
<1> QED BY <1>1, <1>6, <1>8, <1>9 DEF IInv

LEMMA ClosesKeeps ==
    ASSUME IInv, NEW s \in Sessions, NEW k \in Conns, PluginCloses(s, k)
    PROVE  IInv'
<1>0. /\ TypeOK /\ HostSound /\ CommandsSound /\ ClientsSound /\ phase' = phase
      /\ UNCHANGED <<joined, known, phase, awaited>> /\ phase # "stopped"
      /\ conn' \in [Sessions -> [Conns -> {"none", "open", "registered", "closing", "closed"}]]
      /\ \A x \in Sessions, j \in Conns :
           conn'[x][j] = IF x = s /\ j = k THEN "closed" ELSE conn[x][j]
  BY DEF IInv, PluginCloses, TypeOK, Serving
<1>1. CASE IsCurrent(s, k) /\ conn[s][k] # "open"
  <2> DEFINE as == PendingOn(s, plugins[s])
             m == [type |-> "disconnected", session |-> s]
  <2>0. plugins[s] = k /\ plugins' = [plugins EXCEPT ![s] = 0] /\ 0 \in 0 .. MaxConns
    BY <1>1, RelayAssumption DEF PluginCloses, IsCurrent
  <2>1. /\ CommandsSound'
        /\ as \in SUBSET Cmds /\ \A a \in as : cmd[a].phase \in Phases
        /\ \A c \in Clients, a \in Cmds : Awaits(c, cmd[a]) => Awaits(c, cmd'[a])
        /\ \A c \in Clients, a \in as :
             cmd[a].by = c => Awaits(c, cmd'[a]) /\ ~Awaits(c, cmd[a])
    BY <1>0, <1>1, <2>0, Cancels DEF PluginCloses
  <2>2. m \in Messages /\ m.type # "response" /\ Send(<<m>>, as)
    BY <1>1, <2>0 DEF Messages, PluginCloses
  <2>3. tracked' = tracked \ {s} /\ tracked \in SUBSET Sessions
    BY <1>0, <1>1 DEF PluginCloses, TypeOK
  <2>4. \A x \in Sessions : x \in tracked' <=> Adds(m, x) \/ (x \in tracked /\ ~Removes(m, x))
    BY <2>3 DEF Adds, Removes
  <2> HIDE DEF as, m
  <2>5. ClientsSound'
    BY <1>0, <2>1, <2>2, <2>3, <2>4, ClientsTold
  <2>6. /\ groups' = [groups EXCEPT ![InstanceOf[s]] = @ \ {s}]
        /\ ready' = [ready EXCEPT ![Host][s] = FALSE]
        /\ relays' = relays \ as /\ idle' = IdleAfter(tracked')
    BY <1>1, <2>0 DEF PluginCloses, as
  <2>7. HostSound'
    <3>1. IsFiniteSet(tracked')
      BY <1>0, <2>3, FS_RemoveElement DEF HostSound
    <3>2. tracked' = {x \in Sessions : plugins'[x] # 0}
      BY <1>0, <2>0, <2>3 DEF HostSound, TrackerMatches, TypeOK
    <3>3. \A i \in Instances : groups'[i] = {x \in tracked' : InstanceOf[x] = i}
      BY <1>0, <2>3, <2>6, SessionRemoved DEF HostSound, TrackerMatches, TypeOK
    <3>4. ASSUME NEW x \in Sessions, NEW j \in Conns
          PROVE  conn'[x][j] = "registered" <=> plugins'[x] = j
      BY <1>0, <2>0, RelayAssumption DEF HostSound, TrackerMatches, TypeOK, Conns
    <3> QED BY <1>0, <3>1, <3>2, <3>3, <3>4 DEF HostSound, TrackerMatches
  <2>8. TypeOK'
    <3>1. /\ plugins' \in [Sessions -> 0 .. MaxConns] /\ relays' \in SUBSET Cmds
          /\ groups' \in [Instances -> SUBSET Sessions] /\ idle' \in BOOLEAN
          /\ ready' \in [Holders -> [Sessions -> BOOLEAN]]
      <4>1. groups' \in [Instances -> SUBSET Sessions]
        BY <1>0, <2>6 DEF TypeOK
      <4>2. ready' \in [Holders -> [Sessions -> BOOLEAN]]
        BY <1>0, <2>6 DEF TypeOK
      <4>3. idle' \in BOOLEAN
        BY <2>6, RelayAssumption DEF IdleAfter
      <4> QED BY <1>0, <2>0, <2>6, <4>1, <4>2, <4>3 DEF TypeOK
    <3>2. inbox' \in [Clients -> Seq(Messages)]
      <4>1. PICK events : events = <<m>> /\ Send(events, as)
        BY <2>2
      <4>2. events \in Seq(Messages)
        BY <2>2, <4>1
      <4> QED BY <1>0, <2>1, <4>1, <4>2, SendTyped
    <3>3. DOMAIN cmd' = Cmds /\ \A a \in Cmds : cmd'[a] \in Commands(a)
      BY <2>1 DEF CommandsSound, Sound
    <3> QED BY <1>0, <2>3, <3>1, <3>2, <3>3 DEF TypeOK
  <2> QED BY <2>1, <2>5, <2>7, <2>8 DEF IInv
<1>2. CASE ~(IsCurrent(s, k) /\ conn[s][k] # "open")
  <2>1. UNCHANGED <<plugins, tracked, groups, idle, ready, inbox, cmd, relays>>
    BY <1>2 DEF PluginCloses
  <2>2. TypeOK'
    BY <1>0, <2>1 DEF TypeOK
  <2>3. HostSound'
    <3>1. plugins[s] # k
      <4>1. plugins[s] = k => conn[s][k] = "registered"
        BY <1>0 DEF HostSound, TrackerMatches
      <4> QED BY <1>2, <4>1 DEF IsCurrent
    <3> QED BY <1>0, <2>1, <3>1 DEF HostSound, TrackerMatches
  <2>4. CommandsSound'
    BY <1>0, <2>1, CommandsFrame
  <2>5. ClientsSound'
    BY <1>0, <2>1, ClientsFrame
  <2> QED BY <2>2, <2>3, <2>4, <2>5 DEF IInv
<1> QED BY <1>1, <1>2

LEMMA JoinKeeps == ASSUME IInv, NEW c \in Clients, Join(c) PROVE IInv'
<1>0. /\ TypeOK /\ HostSound /\ CommandsSound /\ ClientsSound
      /\ UNCHANGED <<conn, plugins, tracked, groups, phase, awaited, relays, idle,
                     known, inbox, ready, cmd>>
      /\ joined[c] = "out" /\ joined' = [joined EXCEPT ![c] = "asked"]
  BY DEF IInv, Join, hostVars
<1>1. TypeOK'
  BY <1>0 DEF TypeOK
<1>2. HostSound' /\ CommandsSound'
  BY <1>0, HostFrame, CommandsFrame
<1>3. ClientsSound'
  <2> SUFFICES ASSUME NEW d \in Clients
               PROVE  /\ AnswersAwaited(d)' /\ CacheSound(d)'
                      /\ joined'[d] \in {"cut", "lost"} => phase' = "stopped"
    BY DEF ClientsSound
  <2>1. /\ AnswersAwaited(d) /\ CacheSound(d)
        /\ joined[d] \in {"cut", "lost"} => phase = "stopped"
    BY <1>0 DEF ClientsSound
  <2>2. AnswersAwaited(d)'
    BY <1>0, <2>1 DEF AnswersAwaited, Awaited
  <2>3. d # c => joined'[d] = joined[d]
    BY <1>0 DEF TypeOK
  <2>4. d = c => joined'[d] = "asked" /\ ListedOnce(d) = {}
    BY <1>0, <2>1 DEF TypeOK, CacheSound, ListedOnce, Listed
  <2>5. CacheSound(d)'
    BY <1>0, <2>1, <2>3, <2>4 DEF CacheSound, ListedOnce
  <2> QED BY <1>0, <2>1, <2>2, <2>3, <2>4, <2>5
<1> QED BY <1>1, <1>2, <1>3 DEF IInv

LEMMA ListsKeeps == ASSUME IInv, NEW c \in Clients, ListSessions(c) PROVE IInv'
<1> DEFINE m == [type |-> "list", sessions |-> tracked]
           q == inbox[c]
<1>0. /\ TypeOK /\ HostSound /\ CommandsSound /\ ClientsSound
      /\ UNCHANGED <<conn, plugins, tracked, groups, phase, awaited, relays, idle,
                     known, ready, cmd>>
      /\ joined[c] = "asked" /\ joined' = [joined EXCEPT ![c] = "listed"]
      /\ inbox' = [inbox EXCEPT ![c] = Append(q, m)]
  BY DEF IInv, ListSessions, hostVars
<1>1. /\ m \in Messages /\ m.type = "list" /\ m.sessions = tracked
      /\ tracked \in SUBSET Sessions /\ q \in Seq(Messages)
  BY <1>0 DEF Messages, TypeOK
<1> HIDE DEF m, q
<1>2. TypeOK'
  <2>1. Append(q, m) \in Seq(Messages)
    BY <1>1
  <2> QED BY <1>0, <2>1 DEF TypeOK
<1>3. HostSound' /\ CommandsSound'
  BY <1>0, HostFrame, CommandsFrame
<1>4. ClientsSound'
  <2> SUFFICES ASSUME NEW d \in Clients
               PROVE  /\ AnswersAwaited(d)' /\ CacheSound(d)'
                      /\ joined'[d] \in {"cut", "lost"} => phase' = "stopped"
    BY DEF ClientsSound
  <2>1. /\ AnswersAwaited(d) /\ CacheSound(d)
        /\ joined[d] \in {"cut", "lost"} => phase = "stopped"
    BY <1>0 DEF ClientsSound
  <2>2. CASE d # c
    <3>1. joined'[d] = joined[d] /\ inbox'[d] = inbox[d]
      BY <1>0, <2>2 DEF TypeOK
    <3> QED BY <1>0, <2>1, <3>1 DEF AnswersAwaited, Awaited, CacheSound, ListedOnce
  <2>3. CASE d = c
    <3> DEFINE r == inbox'[c]
    <3>1. r = Append(q, m) /\ joined'[c] = "listed"
      BY <1>0 DEF TypeOK
    <3> HIDE DEF r
    <3>2. /\ r \in Seq(Messages) /\ Extends(r, q) /\ Len(r) = Len(q) + 1 /\ r[Len(r)] = m
          /\ Len(q) \in Nat /\ Len(q) + 1 .. Len(r) = {Len(r)}
      BY <1>1, <3>1 DEF Extends
    <3>3. Awaited(c, r, cmd')
      <4>1. Awaited(c, q, cmd)
        BY <2>1, <2>3 DEF AnswersAwaited, q
      <4>2. \A i \in Len(q) + 1 .. Len(r), a \in Cmds : ~IsAnswer(r[i], a)
        BY <1>1, <3>2 DEF IsAnswer
      <4>3. \A a \in Cmds : Awaits(c, cmd[a]) => Awaits(c, cmd'[a])
        BY <1>0
      <4> QED BY <1>1, <3>2, <4>1, <4>2, <4>3, AwaitedExtends
    <3>4. \A s \in Sessions : s \in Listed(known[c], r) <=>
            Adds(m, s) \/ (s \in Listed(known[c], q) /\ ~Removes(m, s))
      BY <1>1, <3>2, ListedAppend
    <3>5. Listed(known[c], q) \subseteq tracked
      BY <1>0, <2>1, <2>3 DEF CacheSound, ListedOnce, q
    <3>6. Listed(known[c], r) = tracked
      <4>1. Listed(known[c], r) \in SUBSET Sessions
        BY DEF Listed
      <4> QED BY <1>1, <3>4, <3>5, <4>1 DEF Adds, Removes
    <3> QED BY <1>0, <2>3, <3>1, <3>3, <3>6 DEF AnswersAwaited, CacheSound, ListedOnce, r
  <2> QED BY <2>2, <2>3
<1> QED BY <1>2, <1>3, <1>4 DEF IInv

\* One command changes, and the relays with it.
LEMMA CommandChanges ==
    ASSUME CommandsSound, NEW a \in Cmds, DOMAIN cmd' = Cmds,
           \A x \in Cmds \ {a} : cmd'[x] = cmd[x],
           Sound(a, cmd'[a], plugins), cmd'[a].by = cmd[a].by,
           UNCHANGED <<plugins, phase>>, relays' \in SUBSET Cmds,
           \A x \in Cmds \ {a} : x \in relays' <=> x \in relays,
           Serving => (a \in relays' <=> cmd[a].by # Host /\ PendingThen(cmd'[a])),
           phase = "stopped" => ~PendingThen(cmd'[a])
    PROVE  CommandsSound'
<1>1. \A x \in Cmds : Sound(x, cmd'[x], plugins')
  BY DEF CommandsSound
<1>2. Serving' => relays' = {x \in Cmds : cmd'[x].by # Host /\ Pending(x)'}
  BY DEF CommandsSound, Serving, Pending, PendingThen
<1>3. phase' = "stopped" => \A x \in Cmds : ~Pending(x)'
  BY DEF CommandsSound, Pending, PendingThen
<1> QED BY <1>1, <1>2, <1>3 DEF CommandsSound

LEMMA BeginKeeps == ASSUME IInv, NEW a \in Cmds, Begin(a) PROVE IInv'
<1> DEFINE c == [cmd[a] EXCEPT !.phase = IF ready[Issuer[a]][Target[a]] THEN "act" ELSE "sync"]
<1>0. /\ TypeOK /\ HostSound /\ CommandsSound /\ ClientsSound
      /\ UNCHANGED <<conn, plugins, tracked, groups, phase, awaited, relays, idle,
                     joined, known, inbox, ready>>
      /\ cmd[a].phase = "none" /\ cmd' = [cmd EXCEPT ![a] = Requested(c)]
      /\ SeesConnected(Issuer[a], Target[a])
  BY DEF IInv, Begin, hostVars
<1>1. Sound(a, cmd[a], plugins) /\ cmd[a] \in Commands(a) /\ DOMAIN cmd = Cmds
  BY <1>0 DEF CommandsSound, Sound
<1>2. cmd[a].at = "none" /\ cmd[a].conn = 0 /\ cmd[a].by = Issuer[a] /\ cmd[a].to = Target[a]
  BY <1>0, <1>1 DEF Sound, PendingThen, Commands, Phases
<1>3. /\ c \in Commands(a) /\ c.phase \in Phases /\ c.conn = 0 /\ c.by = Issuer[a]
      /\ c.to = Target[a]
  BY <1>1, <1>2, WithPhase DEF Phases
<1> HIDE DEF c
<1>4. /\ Sound(a, Requested(c), plugins) /\ Requested(c).by = c.by /\ Requested(c).to = c.to
      /\ (c.by # Host => Requested(c).at = "toHost") /\ Requested(c).at # "toClient"
      /\ (PendingThen(Requested(c)) => plugins[Requested(c).to] # 0)
  BY <1>0, <1>3, RequestedSound
<1>5. CommandsSound'
  <2>1. cmd'[a] = Requested(c) /\ DOMAIN cmd' = Cmds /\ \A x \in Cmds \ {a} : cmd'[x] = cmd[x]
    BY <1>0, <1>1
  <2>2. Serving => (a \in relays' <=> cmd[a].by # Host /\ PendingThen(cmd'[a]))
    BY <1>0, <1>2, <1>3, <1>4, <2>1 DEF CommandsSound, Pending, PendingThen
  <2>3. phase = "stopped" => ~PendingThen(cmd'[a])
    <3>1. ASSUME phase = "stopped", PendingThen(cmd'[a]) PROVE FALSE
      <4>1. Issuer[a] = Host /\ Target[a] \in tracked
        BY <1>0, <1>3, <1>4, <2>1, <3>1 DEF PendingThen, SeesConnected
      <4> QED BY <1>0, <3>1, <4>1 DEF HostSound
    <3> QED BY <3>1
  <2> QED BY <1>0, <1>2, <1>3, <1>4, <2>1, <2>2, <2>3, CommandChanges DEF TypeOK
<1>6. TypeOK'
  <2>1. DOMAIN cmd' = Cmds /\ \A x \in Cmds : cmd'[x] \in Commands(x)
    BY <1>5 DEF CommandsSound, Sound
  <2> QED BY <1>0, <2>1 DEF TypeOK
<1>7. ClientsSound'
  <2>1. \A d \in Clients, x \in Cmds : Awaits(d, cmd[x]) => Awaits(d, cmd'[x])
    BY <1>0, <1>1, <1>2 DEF Awaits
  <2> QED BY <1>0, <2>1, ClientsFrame
<1>8. HostSound'
  BY <1>0, HostFrame
<1> QED BY <1>5, <1>6, <1>7, <1>8 DEF IInv

LEMMA RelayKeeps == ASSUME IInv, NEW a \in Cmds, Relay(a) PROVE IInv'
<1> DEFINE c == cmd[a]
<1>0. /\ TypeOK /\ HostSound /\ CommandsSound /\ ClientsSound
      /\ UNCHANGED <<conn, plugins, tracked, groups, phase, awaited, idle, joined, known, ready>>
      /\ c.at = "toHost" /\ Serving
  BY DEF IInv, Relay
<1>1. Sound(a, c, plugins) /\ c \in Commands(a) /\ DOMAIN cmd = Cmds /\ c.phase \in Phases
      /\ c.by # Host /\ c.conn = 0 /\ c.to \in Sessions
  BY <1>0, RelayAssumption DEF CommandsSound, Sound, PendingThen, Commands
<1>2. HostSound' /\ phase # "stopped"
  BY <1>0, HostFrame DEF Serving
<1>3. CASE plugins[c.to] # 0
  <2> DEFINE d == [c EXCEPT !.at = "atPlugin"]
             e == [d EXCEPT !.conn = plugins[c.to]]
  <2>0. cmd' = [cmd EXCEPT ![a] = e] /\ relays' = relays \cup {a} /\ inbox' = inbox
    BY <1>1, <1>3 DEF Relay
  <2>1. d \in Commands(a) /\ d.at = "atPlugin" /\ d.by = c.by /\ d.to = c.to /\ d.phase = c.phase
    BY <1>1, WithAt
  <2>2. plugins[c.to] \in 0 .. MaxConns
    BY <1>0, <1>1 DEF TypeOK
  <2> HIDE DEF d
  <2>3. /\ e \in Commands(a) /\ e.at = "atPlugin" /\ e.conn = plugins[c.to]
        /\ e.by = c.by /\ e.to = c.to /\ e.phase = c.phase
    BY <2>1, <2>2, WithConn
  <2> HIDE DEF e
  <2>4. Sound(a, e, plugins) /\ PendingThen(e)
    BY <1>1, <1>3, <2>3 DEF Sound, PendingThen
  <2>5. cmd'[a] = e /\ DOMAIN cmd' = Cmds /\ \A x \in Cmds \ {a} : cmd'[x] = cmd[x]
    BY <1>1, <2>0
  <2>6. CommandsSound'
    BY <1>0, <1>1, <1>2, <2>0, <2>3, <2>4, <2>5, CommandChanges DEF TypeOK
  <2>7. TypeOK'
    <3>1. DOMAIN cmd' = Cmds /\ \A x \in Cmds : cmd'[x] \in Commands(x)
      BY <2>6 DEF CommandsSound, Sound
    <3> QED BY <1>0, <2>0, <3>1 DEF TypeOK
  <2>8. ClientsSound'
    <3>1. \A k \in Clients, x \in Cmds : Awaits(k, cmd[x]) => Awaits(k, cmd'[x])
      BY <1>0, <2>5 DEF Awaits
    <3> QED BY <1>0, <2>0, <3>1, ClientsFrame
  <2> QED BY <1>2, <2>6, <2>7, <2>8 DEF IInv
<1>4. CASE plugins[c.to] = 0
  <2> DEFINE e == [c EXCEPT !.at = "toClient"]
  <2>0. cmd' = [cmd EXCEPT ![a] = e] /\ relays' = relays /\ Send(<<>>, {a})
    BY <1>1, <1>4 DEF Relay
  <2>1. /\ e \in Commands(a) /\ e.at = "toClient" /\ e.conn = 0
        /\ e.by = c.by /\ e.to = c.to /\ e.phase = c.phase
    BY <1>1, WithAt
  <2> HIDE DEF e
  <2>2. Sound(a, e, plugins) /\ ~PendingThen(e)
    BY <1>1, <2>1 DEF Sound, PendingThen
  <2>3. cmd'[a] = e /\ DOMAIN cmd' = Cmds /\ \A x \in Cmds \ {a} : cmd'[x] = cmd[x]
    BY <1>1, <2>0
  <2>4. a \notin relays
    BY <1>0 DEF CommandsSound, Pending
  <2>5. CommandsSound'
    BY <1>0, <1>1, <1>2, <2>0, <2>1, <2>2, <2>3, <2>4, CommandChanges DEF TypeOK
  <2>6. TypeOK'
    <3>1. DOMAIN cmd' = Cmds /\ \A x \in Cmds : cmd'[x] \in Commands(x)
      BY <2>5 DEF CommandsSound, Sound
    <3>2. inbox' \in [Clients -> Seq(Messages)]
      <4>1. PICK none : none = <<>> /\ Send(none, {a})
        BY <2>0
      <4>2. none \in Seq(Messages) /\ {a} \in SUBSET Cmds /\ \A x \in {a} : cmd[x].phase \in Phases
        BY <1>1, <4>1
      <4> QED BY <1>0, <4>1, <4>2, SendTyped
    <3> QED BY <1>0, <2>0, <3>1, <3>2 DEF TypeOK
  <2>7. ClientsSound'
    <3>1. PICK as : as = {a} /\ Send(<<>>, as)
      BY <2>0
    <3>2. \A k \in Clients, x \in Cmds : Awaits(k, cmd[x]) => Awaits(k, cmd'[x])
      BY <1>0, <2>3 DEF Awaits
    <3>3. \A k \in Clients, x \in as :
            cmd[x].by = k => Awaits(k, cmd'[x]) /\ ~Awaits(k, cmd[x])
      BY <1>0, <2>1, <2>3, <3>1 DEF Awaits
    <3>4. as \in SUBSET Cmds /\ \A x \in as : cmd[x].phase \in Phases
      BY <1>1, <3>1
    <3> QED BY <1>0, <3>1, <3>2, <3>3, <3>4, ClientsAnswered
  <2> QED BY <1>2, <2>5, <2>6, <2>7 DEF IInv
<1> QED BY <1>3, <1>4

LEMMA AnswersKeeps ==
    ASSUME IInv, NEW a \in Cmds, NEW r \in Results, PluginAnswers(a, r)
    PROVE  IInv'
<1> DEFINE c == cmd[a]
           d == [c EXCEPT !.at = "answered"]
           e == [d EXCEPT !.result = r]
<1>0. /\ TypeOK /\ HostSound /\ CommandsSound /\ ClientsSound
      /\ UNCHANGED <<conn, plugins, tracked, groups, phase, awaited, relays, idle,
                     joined, known, inbox, ready>>
      /\ c.at = "atPlugin" /\ cmd' = [cmd EXCEPT ![a] = e]
  BY DEF IInv, PluginAnswers, hostVars
<1>1. Sound(a, c, plugins) /\ c \in Commands(a) /\ DOMAIN cmd = Cmds
  BY <1>0 DEF CommandsSound, Sound
<1>2. /\ d \in Commands(a) /\ d.at = "answered" /\ d.by = c.by /\ d.to = c.to
      /\ d.phase = c.phase /\ d.conn = c.conn
  BY <1>1, WithAt
<1> HIDE DEF d
<1>3. /\ e \in Commands(a) /\ e.at = "answered" /\ e.by = c.by /\ e.to = c.to
      /\ e.phase = c.phase /\ e.conn = c.conn /\ e.result = r
  BY <1>2 DEF Commands
<1> HIDE DEF e
<1>4. Sound(a, e, plugins) /\ PendingThen(e)
  BY <1>0, <1>1, <1>3 DEF Sound, PendingThen
<1>5. cmd'[a] = e /\ DOMAIN cmd' = Cmds /\ \A x \in Cmds \ {a} : cmd'[x] = cmd[x]
  BY <1>0, <1>1
<1>6. CommandsSound'
  <2>1. Serving => (a \in relays' <=> cmd[a].by # Host)
    BY <1>0 DEF CommandsSound, Pending
  <2>2. phase # "stopped"
    BY <1>0 DEF CommandsSound, Pending
  <2> QED BY <1>0, <1>3, <1>4, <1>5, <2>1, <2>2, CommandChanges DEF TypeOK
<1>7. TypeOK'
  <2>1. DOMAIN cmd' = Cmds /\ \A x \in Cmds : cmd'[x] \in Commands(x)
    BY <1>6 DEF CommandsSound, Sound
  <2> QED BY <1>0, <2>1 DEF TypeOK
<1>8. ClientsSound'
  <2>1. \A k \in Clients, x \in Cmds : Awaits(k, cmd[x]) => Awaits(k, cmd'[x])
    BY <1>0, <1>5 DEF Awaits
  <2> QED BY <1>0, <2>1, ClientsFrame
<1>9. HostSound'
  BY <1>0, HostFrame
<1> QED BY <1>6, <1>7, <1>8, <1>9 DEF IInv

LEMMA TimesOutKeeps == ASSUME IInv, NEW a \in Cmds, RequestTimesOut(a) PROVE IInv'
<1> DEFINE c == cmd[a]
<1>0. /\ TypeOK /\ HostSound /\ CommandsSound /\ ClientsSound
      /\ UNCHANGED <<conn, plugins, tracked, groups, phase, awaited, idle, joined, known, ready>>
      /\ c.at \in {"atPlugin", "answered"} /\ cmd' = [cmd EXCEPT ![a] = Rejected(c)]
      /\ Send(<<>>, {a}) /\ relays' = relays \ {a}
  BY DEF IInv, RequestTimesOut
<1>1. Sound(a, c, plugins) /\ DOMAIN cmd = Cmds /\ c.phase \in Phases /\ c.at # "none"
  BY <1>0 DEF CommandsSound, Sound
<1>2. /\ Sound(a, Rejected(c), plugins) /\ Rejected(c).by = c.by
      /\ Rejected(c).at = IF c.by = Host THEN "none" ELSE "toClient"
  BY <1>1, RejectedSound
<1>3. /\ cmd'[a] = Rejected(c) /\ DOMAIN cmd' = Cmds
      /\ \A x \in Cmds \ {a} : cmd'[x] = cmd[x]
  BY <1>0, <1>1
<1> HIDE DEF c
<1>4. ~PendingThen(cmd'[a])
  BY <1>2, <1>3 DEF PendingThen
<1>5. CommandsSound'
  BY <1>0, <1>2, <1>3, <1>4, CommandChanges DEF TypeOK, c
<1>6. TypeOK'
  <2>1. DOMAIN cmd' = Cmds /\ \A x \in Cmds : cmd'[x] \in Commands(x)
    BY <1>5 DEF CommandsSound, Sound
  <2>2. inbox' \in [Clients -> Seq(Messages)]
    <3>1. PICK none : none = <<>> /\ Send(none, {a})
      BY <1>0
    <3>2. none \in Seq(Messages) /\ {a} \in SUBSET Cmds /\ \A x \in {a} : cmd[x].phase \in Phases
      BY <1>1, <3>1 DEF c
    <3> QED BY <1>0, <3>1, <3>2, SendTyped
  <2> QED BY <1>0, <2>1, <2>2 DEF TypeOK
<1>7. ClientsSound'
  <2>1. PICK as : as = {a} /\ Send(<<>>, as)
    BY <1>0
  <2>2. \A k \in Clients, x \in Cmds : Awaits(k, cmd[x]) => Awaits(k, cmd'[x])
    BY <1>0, <1>3 DEF Awaits, c
  <2>3. \A k \in Clients, x \in as :
          cmd[x].by = k => Awaits(k, cmd'[x]) /\ ~Awaits(k, cmd[x])
    BY <1>0, <1>2, <1>3, <2>1, RelayAssumption DEF Awaits, c
  <2>4. as \in SUBSET Cmds /\ \A x \in as : cmd[x].phase \in Phases
    BY <1>1, <2>1 DEF c
  <2> QED BY <1>0, <2>1, <2>2, <2>3, <2>4, ClientsAnswered
<1>8. HostSound'
  BY <1>0, HostFrame
<1> QED BY <1>5, <1>6, <1>7, <1>8 DEF IInv

LEMMA GivesUpKeeps == ASSUME IInv, NEW a \in Cmds, ClientTimesOut(a) PROVE IInv'
<1> DEFINE c == cmd[a]
           e == [c EXCEPT !.gaveUp = TRUE]
<1>0. /\ TypeOK /\ HostSound /\ CommandsSound /\ ClientsSound
      /\ UNCHANGED <<conn, plugins, tracked, groups, phase, awaited, relays, idle,
                     joined, known, inbox, ready>>
      /\ cmd' = [cmd EXCEPT ![a] = e]
  BY DEF IInv, ClientTimesOut, hostVars
<1>1. Sound(a, c, plugins) /\ c \in Commands(a) /\ DOMAIN cmd = Cmds
  BY <1>0 DEF CommandsSound, Sound
<1>2. /\ e \in Commands(a) /\ e.at = c.at /\ e.by = c.by /\ e.to = c.to
      /\ e.phase = c.phase /\ e.conn = c.conn /\ e.result = c.result
  <2> HIDE DEF c
  <2> QED BY <1>1 DEF Commands
<1> HIDE DEF e
<1>3. Sound(a, e, plugins)
  BY <1>1, <1>2 DEF Sound, PendingThen
<1>4. cmd'[a] = e /\ DOMAIN cmd' = Cmds /\ \A x \in Cmds \ {a} : cmd'[x] = cmd[x]
  BY <1>0, <1>1
<1>5. CommandsSound'
  <2>1. Serving => (a \in relays' <=> cmd[a].by # Host /\ PendingThen(cmd'[a]))
    BY <1>0, <1>2, <1>4 DEF CommandsSound, Pending, PendingThen
  <2>2. phase = "stopped" => ~PendingThen(cmd'[a])
    BY <1>0, <1>2, <1>4 DEF CommandsSound, Pending, PendingThen
  <2> QED BY <1>0, <1>2, <1>3, <1>4, <2>1, <2>2, CommandChanges DEF TypeOK
<1>6. TypeOK'
  <2>1. DOMAIN cmd' = Cmds /\ \A x \in Cmds : cmd'[x] \in Commands(x)
    BY <1>5 DEF CommandsSound, Sound
  <2> QED BY <1>0, <2>1 DEF TypeOK
<1>7. ClientsSound'
  <2>1. \A k \in Clients, x \in Cmds : Awaits(k, cmd[x]) => Awaits(k, cmd'[x])
    BY <1>2, <1>4 DEF Awaits
  <2> QED BY <1>0, <2>1, ClientsFrame
<1>8. HostSound'
  BY <1>0, HostFrame
<1> QED BY <1>5, <1>6, <1>7, <1>8 DEF IInv

LEMMA DispatchKeeps == ASSUME IInv, NEW a \in Cmds, Dispatch(a) PROVE IInv'
<1> DEFINE c == cmd[a]
<1>0. /\ TypeOK /\ HostSound /\ CommandsSound /\ ClientsSound
      /\ UNCHANGED <<conn, plugins, tracked, groups, phase, awaited, idle, joined, known>>
      /\ c.at = "answered" /\ Serving /\ phase # "stopped"
  BY DEF IInv, Dispatch, Serving
<1>1. /\ Sound(a, c, plugins) /\ DOMAIN cmd = Cmds /\ c.phase \in Phases /\ c.result \in Results
      /\ c \in Commands(a) /\ c.at # "none"
  BY <1>0 DEF CommandsSound, Sound
<1>2. HostSound'
  BY <1>0, HostFrame
<1>3. CASE c.by = Host
  <2>0. Proceed(a, c, c.result) /\ UNCHANGED <<inbox, relays>>
    BY <1>3 DEF Dispatch
  <2>1. /\ DOMAIN cmd' = Cmds /\ \A x \in Cmds \ {a} : cmd'[x] = cmd[x]
        /\ Sound(a, cmd'[a], plugins) /\ cmd'[a].by = c.by
        /\ ready' \in [Holders -> [Sessions -> BOOLEAN]]
    BY <1>0, <1>1, <2>0, ProceedSound
  <2>2. CommandsSound'
    <3>1. a \notin relays
      BY <1>0, <1>3 DEF CommandsSound
    <3> QED BY <1>0, <1>3, <2>0, <2>1, <3>1, CommandChanges DEF TypeOK
  <2>3. TypeOK'
    <3>1. DOMAIN cmd' = Cmds /\ \A x \in Cmds : cmd'[x] \in Commands(x)
      BY <2>2 DEF CommandsSound, Sound
    <3> QED BY <1>0, <2>0, <2>1, <3>1 DEF TypeOK
  <2>4. ClientsSound'
    <3>1. \A k \in Clients, x \in Cmds : Awaits(k, cmd[x]) => Awaits(k, cmd'[x])
      BY <1>0, <2>1 DEF Awaits
    <3> QED BY <1>0, <2>0, <3>1, ClientsFrame
  <2> QED BY <1>2, <2>2, <2>3, <2>4 DEF IInv
<1>4. CASE c.by # Host
  <2> DEFINE e == Left(c, "toClient")
             k == c.by
             m == Response(a, c.result)
             q == inbox[k]
  <2>0. /\ cmd' = [cmd EXCEPT ![a] = e]
        /\ inbox' = [inbox EXCEPT ![k] = IF Listening(k) THEN Append(q, m) ELSE q]
        /\ relays' = relays \ {a} /\ ready' = ready
    BY <1>4 DEF Dispatch, Left
  <2>1. e \in Commands(a) /\ e.at = "toClient" /\ e.conn = 0 /\ e.by = k /\ e.phase = c.phase
    BY <1>1, LeavesConnection
  <2> HIDE DEF e
  <2>2. Sound(a, e, plugins) /\ ~PendingThen(e)
    BY <1>1, <1>4, <2>1 DEF Sound, PendingThen
  <2>3. cmd'[a] = e /\ DOMAIN cmd' = Cmds /\ \A x \in Cmds \ {a} : cmd'[x] = cmd[x]
    BY <1>1, <2>0
  <2>4. CommandsSound'
    BY <1>0, <2>0, <2>1, <2>2, <2>3, CommandChanges DEF TypeOK
  <2>5. k \in Clients
    <3>1. k = Issuer[a]
      BY <1>1 DEF Commands
    <3> QED BY <1>4, <3>1, RelayAssumption
  <2>6. m \in Messages /\ m.type = "response" /\ m.cmd = a /\ q \in Seq(Messages)
    <3>1. m = [type |-> "response", cmd |-> a, phase |-> c.phase, result |-> c.result]
      BY DEF Response
    <3> HIDE DEF m
    <3>2. m \in Messages /\ m.type = "response" /\ m.cmd = a
      BY <1>1, <3>1, ResponsesAreMessages
    <3> QED BY <1>0, <2>5, <3>2 DEF TypeOK
  <2> HIDE DEF m
  <2>7. /\ \A x \in Clients \ {k} : inbox'[x] = inbox[x]
        /\ inbox'[k] = IF Listening(k) THEN Append(q, m) ELSE q
    BY <1>0, <2>0, <2>5 DEF TypeOK
  <2>8. TypeOK'
    <3>1. DOMAIN cmd' = Cmds /\ \A x \in Cmds : cmd'[x] \in Commands(x)
      BY <2>4 DEF CommandsSound, Sound
    <3>2. (IF Listening(k) THEN Append(q, m) ELSE q) \in Seq(Messages)
      <4> HIDE DEF q
      <4> QED BY <2>6
    <3>3. inbox' \in [Clients -> Seq(Messages)]
      BY <1>0, <2>0, <3>2 DEF TypeOK
    <3> QED BY <1>0, <2>0, <3>1, <3>3 DEF TypeOK
  <2>9. ClientsSound'
    <3> SUFFICES ASSUME NEW x \in Clients
                 PROVE  /\ AnswersAwaited(x)' /\ CacheSound(x)'
                        /\ joined'[x] \in {"cut", "lost"} => phase' = "stopped"
      BY DEF ClientsSound
    <3>1. /\ AnswersAwaited(x) /\ CacheSound(x)
          /\ joined[x] \in {"cut", "lost"} => phase = "stopped"
      BY <1>0 DEF ClientsSound
    <3>2. \A y \in Cmds : Awaits(x, cmd[y]) => Awaits(x, cmd'[y])
      BY <1>0, <2>3 DEF Awaits
    <3>3. CASE inbox'[x] = inbox[x]
      BY <1>0, <3>1, <3>2, <3>3 DEF AnswersAwaited, Awaited, CacheSound, ListedOnce
    <3>4. CASE x = k /\ Listening(k)
      <4> DEFINE r == inbox'[x]
      <4>1. r = Append(q, m) /\ inbox[x] = q /\ joined[x] # "out"
        BY <2>7, <3>4 DEF Listening
      <4> HIDE DEF r, q
      <4>2. /\ r \in Seq(Messages) /\ Extends(r, q) /\ Len(r) = Len(q) + 1 /\ r[Len(r)] = m
            /\ Len(q) \in Nat /\ Len(q) + 1 .. Len(r) = {Len(r)}
        BY <2>6, <4>1 DEF Extends
      <4>3. Awaited(x, r, cmd')
        <5>1. Awaited(x, q, cmd)
          BY <3>1, <4>1 DEF AnswersAwaited
        <5>2. Awaits(x, cmd'[a]) /\ ~Awaits(x, cmd[a])
          BY <1>0, <2>1, <2>3, <3>4 DEF Awaits
        <5>3. ASSUME NEW i \in Len(q) + 1 .. Len(r), NEW y \in Cmds, IsAnswer(r[i], y)
              PROVE  /\ Awaits(x, cmd'[y]) /\ ~Awaits(x, cmd[y])
                     /\ \A j \in Len(q) + 1 .. Len(r) : IsAnswer(r[j], y) => j = i
          <6>1. i = Len(r) /\ y = a
            BY <2>6, <4>2, <5>3 DEF IsAnswer
          <6> QED BY <4>2, <5>2, <6>1
        <5> QED BY <2>6, <3>2, <4>2, <5>1, <5>3, AwaitedExtends
      <4>4. Listed(known[x], r) = Listed(known[x], q)
        BY <2>6, <4>2, ListedNeutral
      <4>5. AnswersAwaited(x)' /\ CacheSound(x)'
        BY <1>0, <3>1, <4>1, <4>3, <4>4 DEF AnswersAwaited, CacheSound, ListedOnce, r
      <4> QED BY <1>0, <3>1, <4>5
    <3> QED BY <2>7, <3>3, <3>4
  <2> QED BY <1>2, <2>4, <2>8, <2>9 DEF IInv
<1> QED BY <1>3, <1>4

\* A client that handles a message keeps the invariant if it lists what the message
\* says and has taken the answer, if it is one.
LEMMA Handled ==
    ASSUME TypeOK, ClientsSound, NEW c \in Clients,
           UNCHANGED <<joined, tracked, phase>>, joined[c] # "out",
           inbox[c] # <<>>, inbox' = [inbox EXCEPT ![c] = Tail(@)],
           \A d \in Clients \ {c} : known'[d] = known[d],
           known'[c] \in SUBSET Sessions,
           \A s \in Sessions : s \in known'[c] <=>
             Adds(Head(inbox[c]), s) \/ (s \in known[c] /\ ~Removes(Head(inbox[c]), s)),
           \A d \in Clients, a \in Cmds : (d = c /\ IsAnswer(Head(inbox[c]), a))
                                          \/ (Awaits(d, cmd[a]) => Awaits(d, cmd'[a]))
    PROVE  ClientsSound'
<1> SUFFICES ASSUME NEW d \in Clients
             PROVE  /\ AnswersAwaited(d)' /\ CacheSound(d)'
                    /\ joined'[d] \in {"cut", "lost"} => phase' = "stopped"
  BY DEF ClientsSound
<1>1. /\ AnswersAwaited(d) /\ CacheSound(d)
      /\ joined[d] \in {"cut", "lost"} => phase = "stopped"
  BY DEF ClientsSound
<1>2. CASE d # c
  <2>1. inbox'[d] = inbox[d] /\ known'[d] = known[d]
    BY <1>2 DEF TypeOK
  <2> QED BY <1>1, <1>2, <2>1 DEF AnswersAwaited, Awaited, CacheSound, ListedOnce
<1>3. CASE d = c
  <2> DEFINE q == inbox[c]
             r == inbox'[c]
             has == known[c]
             then == known'[c]
  <2>1. q \in Seq(Messages) /\ q # <<>> /\ r = Tail(q) /\ has \in SUBSET Sessions
    BY DEF TypeOK
  <2>2. then \in SUBSET Sessions /\ \A s \in Sessions : s \in then <=>
             Adds(Head(q), s) \/ (s \in has /\ ~Removes(Head(q), s))
    OBVIOUS
  <2>3. /\ Awaited(c, q, cmd)
        /\ \A a \in Cmds : IsAnswer(Head(q), a) \/ (Awaits(c, cmd[a]) => Awaits(c, cmd'[a]))
    BY <1>1, <1>3 DEF AnswersAwaited
  <2>4. CacheSound(c)' <=>
          /\ joined[c] = "asked" => Listed(then, r) \subseteq tracked
          /\ joined[c] = "listed" => Listed(then, r) = tracked
    BY DEF CacheSound, ListedOnce
  <2>5. /\ joined[c] = "asked" => Listed(has, q) \subseteq tracked
        /\ joined[c] = "listed" => Listed(has, q) = tracked
    BY <1>1, <1>3 DEF CacheSound, ListedOnce
  <2> HIDE DEF q, r, has, then
  <2>6. Awaited(c, r, cmd')
    BY <2>1, <2>3, AwaitedTail
  <2>7. Listed(then, r) = Listed(has, q)
    BY <2>1, <2>2, ListedTail
  <2>8. AnswersAwaited(c)'
    BY <2>6 DEF AnswersAwaited, r
  <2> QED BY <1>1, <1>3, <2>4, <2>5, <2>7, <2>8
<1> QED BY <1>2, <1>3

LEMMA ReceiveKeeps == ASSUME IInv, NEW c \in Clients, Receive(c) PROVE IInv'
<1> DEFINE m == Head(inbox[c])
<1>0. /\ TypeOK /\ HostSound /\ CommandsSound /\ ClientsSound
      /\ UNCHANGED <<conn, plugins, tracked, groups, phase, awaited, relays, idle, joined>>
      /\ joined[c] # "out" /\ inbox[c] # <<>> /\ inbox' = [inbox EXCEPT ![c] = Tail(@)]
  BY DEF IInv, Receive, hostVars
<1>1. /\ m \in Messages /\ inbox[c] \in Seq(Messages) /\ Tail(inbox[c]) \in Seq(Messages)
      /\ known[c] \in SUBSET Sessions
  <2>1. inbox[c] \in Seq(Messages) /\ known[c] \in SUBSET Sessions
    BY <1>0 DEF TypeOK
  <2> QED BY <1>0, <2>1
<1>2. /\ m.type \in {"connected", "disconnected", "list", "response"}
      /\ m.type \in {"connected", "disconnected"} => m.session \in Sessions
      /\ m.type = "list" => m.sessions \in SUBSET Sessions
      /\ m.type = "response" => m.cmd \in Cmds /\ m.phase \in Phases /\ m.result \in Results
  BY <1>1, MessageIs
<1>3. inbox' \in [Clients -> Seq(Messages)]
  BY <1>0, <1>1 DEF TypeOK
<1>4. HostSound' /\ DOMAIN cmd = Cmds /\ \A a \in Cmds : Sound(a, cmd[a], plugins)
  BY <1>0, HostFrame DEF CommandsSound
<1>5. CASE m.type \in {"connected", "list"}
  <2> DEFINE more == IF m.type = "connected" THEN {m.session} ELSE m.sessions
  <2>1. known' = [known EXCEPT ![c] = @ \cup more] /\ UNCHANGED <<ready, cmd>>
    BY <1>5 DEF Receive
  <2>2. more \in SUBSET Sessions /\ \A s : s \in more <=> Adds(m, s)
    BY <1>2, <1>5 DEF Adds
  <2>3. \A s : ~Removes(m, s)
    BY <1>5 DEF Removes
  <2> HIDE DEF more, m
  <2>4. /\ \A d \in Clients \ {c} : known'[d] = known[d]
        /\ known'[c] = known[c] \cup more /\ known' \in [Clients -> SUBSET Sessions]
    BY <1>0, <2>1, <2>2 DEF TypeOK
  <2>5. \A s \in Sessions : s \in known'[c] <=> Adds(m, s) \/ (s \in known[c] /\ ~Removes(m, s))
    BY <2>2, <2>3, <2>4
  <2>6. ClientsSound'
    BY <1>0, <1>1, <2>1, <2>2, <2>4, <2>5, Handled DEF m
  <2>7. CommandsSound'
    BY <1>0, <2>1, CommandsFrame
  <2>8. TypeOK'
    BY <1>0, <1>3, <2>1, <2>4 DEF TypeOK
  <2> QED BY <1>4, <2>6, <2>7, <2>8 DEF IInv
<1>6. CASE m.type = "disconnected"
  <2> DEFINE s == m.session
  <2>1. /\ known' = [known EXCEPT ![c] = @ \ {s}] /\ ready' = [ready EXCEPT ![c][s] = FALSE]
        /\ cmd' = Orphaned(c, s)
    BY <1>6 DEF Receive
  <2>2. \A x : ~Adds(m, x) /\ (Removes(m, x) <=> x = s)
    BY <1>6 DEF Adds, Removes
  <2> HIDE DEF m, s
  <2>3. /\ \A d \in Clients \ {c} : known'[d] = known[d]
        /\ known'[c] = known[c] \ {s} /\ known' \in [Clients -> SUBSET Sessions]
    BY <1>0, <2>1 DEF TypeOK
  <2>4. \A x \in Sessions : x \in known'[c] <=> Adds(m, x) \/ (x \in known[c] /\ ~Removes(m, x))
    BY <2>2, <2>3
  <2>5. /\ DOMAIN cmd' = Cmds
        /\ \A a \in Cmds : /\ Sound(a, cmd'[a], plugins) /\ cmd'[a].by = cmd[a].by
                           /\ cmd'[a].at = cmd[a].at
    <3>1. DOMAIN Orphaned(c, s) = Cmds
      BY DEF Orphaned
    <3> QED BY <1>4, <2>1, <3>1, OrphanedSound
  <2>6. CommandsSound'
    BY <1>0, <2>5 DEF CommandsSound, Serving, Pending
  <2>7. ClientsSound'
    <3>1. \A d \in Clients, a \in Cmds : Awaits(d, cmd[a]) => Awaits(d, cmd'[a])
      BY <2>5 DEF Awaits
    <3> QED BY <1>0, <1>1, <2>3, <2>4, <3>1, Handled DEF m
  <2>8. TypeOK'
    <3>1. DOMAIN cmd' = Cmds /\ \A x \in Cmds : cmd'[x] \in Commands(x)
      BY <2>6 DEF CommandsSound, Sound
    <3>2. ready' \in [Holders -> [Sessions -> BOOLEAN]]
      BY <1>0, <2>1 DEF TypeOK
    <3> QED BY <1>0, <1>3, <2>3, <3>1, <3>2 DEF TypeOK
  <2> QED BY <1>4, <2>6, <2>7, <2>8 DEF IInv
<1>7. CASE m.type = "response"
  <2> DEFINE a == m.cmd
             r == m.result
  <2>1. /\ known' = known
        /\ IF cmd[a].gaveUp THEN cmd' = [cmd EXCEPT ![a] = Failed(@)] /\ ready' = ready
           ELSE Proceed(a, cmd[a], r)
    BY <1>7 DEF Receive
  <2>2. a \in Cmds /\ r \in Results /\ IsAnswer(m, a)
    BY <1>2, <1>7 DEF IsAnswer
  <2>3. \A x \in Sessions : x \in known'[c] <=> Adds(m, x) \/ (x \in known[c] /\ ~Removes(m, x))
    BY <1>7, <2>1 DEF Adds, Removes
  <2>4. Awaits(c, cmd[a])
    <3> DEFINE q == inbox[c]
    <3>1. Awaited(c, q, cmd)
      BY <1>0 DEF ClientsSound, AnswersAwaited
    <3>2. 1 \in 1 .. Len(q) /\ m = q[1]
      BY <1>0, <1>1
    <3> HIDE DEF m, a, q
    <3> QED BY <2>2, <3>1, <3>2 DEF Awaited
  <2> HIDE DEF m, a, r
  <2>5. cmd[a].by = c /\ c # Host /\ cmd[a].at = "toClient"
    BY <2>4, RelayAssumption DEF Awaits
  <2>6. /\ DOMAIN cmd' = Cmds /\ \A x \in Cmds \ {a} : cmd'[x] = cmd[x]
        /\ Sound(a, cmd'[a], plugins) /\ cmd'[a].by = cmd[a].by /\ ~PendingThen(cmd'[a])
        /\ ready' \in [Holders -> [Sessions -> BOOLEAN]]
    <3>1. CASE cmd[a].gaveUp
      <4>1. cmd[a] \in Commands(a)
        BY <1>4, <2>2 DEF Sound
      <4>2. /\ Sound(a, Failed(cmd[a]), plugins) /\ Failed(cmd[a]).at = "none"
            /\ Failed(cmd[a]).by = cmd[a].by
        BY <2>2, <4>1, FailedSound
      <4>3. cmd' = [cmd EXCEPT ![a] = Failed(cmd[a])] /\ ready' = ready
        BY <2>1, <3>1
      <4> QED BY <1>0, <1>4, <2>2, <4>2, <4>3 DEF PendingThen, TypeOK
    <3>2. CASE ~cmd[a].gaveUp
      <4>1. Proceed(a, cmd[a], r)
        BY <2>1, <3>2
      <4>2. Sound(a, cmd[a], plugins) /\ cmd[a].at # "none"
        BY <1>4, <2>2, <2>5
      <4> QED BY <1>0, <1>4, <2>2, <2>5, <4>1, <4>2, ProceedSound
    <3> QED BY <3>1, <3>2
  <2>7. CommandsSound'
    <3>1. Serving => a \notin relays
      BY <1>0, <2>5 DEF CommandsSound, Pending
    <3> QED BY <1>0, <2>2, <2>6, <3>1, CommandChanges DEF TypeOK
  <2>8. ClientsSound'
    <3>1. \A d \in Clients, x \in Cmds : (d = c /\ IsAnswer(m, x))
                                          \/ (Awaits(d, cmd[x]) => Awaits(d, cmd'[x]))
      <4>1. \A d \in Clients : Awaits(d, cmd[a]) => d = c
        BY <2>5 DEF Awaits
      <4> QED BY <2>2, <2>6, <4>1
    <3> QED BY <1>0, <1>1, <2>1, <2>3, <3>1, Handled DEF m
  <2>9. TypeOK'
    <3>1. DOMAIN cmd' = Cmds /\ \A x \in Cmds : cmd'[x] \in Commands(x)
      BY <2>7 DEF CommandsSound, Sound
    <3> QED BY <1>0, <1>3, <2>1, <2>6, <3>1 DEF TypeOK
  <2> QED BY <1>4, <2>7, <2>8, <2>9 DEF IInv
<1> QED BY <1>2, <1>5, <1>6, <1>7

LEMMA LosesKeeps == ASSUME IInv, NEW c \in Clients, LoseHost(c) PROVE IInv'
<1>0. /\ TypeOK /\ HostSound /\ CommandsSound /\ ClientsSound
      /\ UNCHANGED <<conn, plugins, tracked, groups, phase, awaited, relays, idle,
                     known, inbox, ready>>
      /\ joined[c] = "cut" /\ inbox[c] = <<>> /\ joined' = [joined EXCEPT ![c] = "lost"]
      /\ cmd' = [a \in Cmds |->
           IF cmd[a].by = c /\ cmd[a].at # "none" THEN Failed(cmd[a]) ELSE cmd[a]]
  BY DEF IInv, LoseHost, hostVars
<1>1. phase = "stopped"
  BY <1>0 DEF ClientsSound
<1>2. ASSUME NEW a \in Cmds
      PROVE  /\ Sound(a, cmd'[a], plugins) /\ cmd'[a].by = cmd[a].by
             /\ cmd'[a] = cmd[a] \/ (cmd'[a].at = "none" /\ cmd[a].by = c)
  <2>1. Sound(a, cmd[a], plugins) /\ cmd[a] \in Commands(a)
    BY <1>0 DEF CommandsSound, Sound
  <2>2. /\ Sound(a, Failed(cmd[a]), plugins) /\ Failed(cmd[a]).at = "none"
        /\ Failed(cmd[a]).by = cmd[a].by
    BY <2>1, FailedSound
  <2> QED BY <1>0, <2>1, <2>2
<1>3. CommandsSound'
  <2>1. \A a \in Cmds : ~Pending(a)'
    BY <1>0, <1>1, <1>2 DEF CommandsSound, Pending
  <2>2. DOMAIN cmd' = Cmds /\ ~Serving'
    BY <1>0, <1>1 DEF Serving
  <2> QED BY <1>0, <1>2, <2>1, <2>2 DEF CommandsSound
<1>4. TypeOK'
  <2>1. DOMAIN cmd' = Cmds /\ \A x \in Cmds : cmd'[x] \in Commands(x)
    BY <1>3 DEF CommandsSound, Sound
  <2> QED BY <1>0, <2>1 DEF TypeOK
<1>5. ClientsSound'
  <2> SUFFICES ASSUME NEW d \in Clients
               PROVE  /\ AnswersAwaited(d)' /\ CacheSound(d)'
                      /\ joined'[d] \in {"cut", "lost"} => phase' = "stopped"
    BY DEF ClientsSound
  <2>1. AnswersAwaited(d) /\ CacheSound(d)
    BY <1>0 DEF ClientsSound
  <2>2. AnswersAwaited(d)'
    <3>1. CASE d = c
      <4>1. inbox'[d] = <<>> /\ Len(<<>>) = 0
        BY <1>0, <3>1
      <4> QED BY <4>1 DEF AnswersAwaited, Awaited
    <3>2. CASE d # c
      <4>1. \A a \in Cmds : Awaits(d, cmd[a]) => Awaits(d, cmd'[a])
        BY <1>2, <3>2 DEF Awaits
      <4> QED BY <1>0, <2>1, <4>1 DEF AnswersAwaited, Awaited
    <3> QED BY <3>1, <3>2
  <2>3. CacheSound(d)'
    <3>1. joined'[d] = IF d = c THEN "lost" ELSE joined[d]
      BY <1>0 DEF TypeOK
    <3> QED BY <1>0, <2>1, <3>1 DEF CacheSound, ListedOnce
  <2> QED BY <1>0, <1>1, <2>2, <2>3
<1>6. HostSound'
  BY <1>0, HostFrame
<1> QED BY <1>3, <1>4, <1>5, <1>6 DEF IInv

LEMMA DrainsKeeps == ASSUME IInv, Disconnect \/ IdleFires PROVE IInv'
<1>0. /\ TypeOK /\ HostSound /\ CommandsSound /\ ClientsSound
      /\ UNCHANGED <<conn, plugins, tracked, groups, relays, joined, known, inbox, ready, cmd>>
      /\ phase' = phase \/ (phase = "serving" /\ phase' = "draining")
      /\ awaited' \in {awaited, relays} /\ idle' = FALSE
  BY DEF IInv, Disconnect, IdleFires
<1>1. TypeOK'
  BY <1>0 DEF TypeOK
<1>2. HostSound'
  BY <1>0 DEF HostSound, TrackerMatches
<1>3. CommandsSound'
  BY <1>0 DEF CommandsSound, Serving, Pending
<1>4. ClientsSound'
  <2>1. ASSUME NEW d \in Clients
        PROVE  /\ AnswersAwaited(d)' /\ CacheSound(d)'
               /\ joined'[d] \in {"cut", "lost"} => phase' = "stopped"
    <3>1. /\ AnswersAwaited(d) /\ CacheSound(d)
          /\ joined[d] \in {"cut", "lost"} => phase = "stopped"
      BY <1>0 DEF ClientsSound
    <3> QED BY <1>0, <3>1 DEF AnswersAwaited, Awaited, CacheSound, ListedOnce
  <2> QED BY <2>1 DEF ClientsSound
<1> QED BY <1>1, <1>2, <1>3, <1>4 DEF IInv

LEMMA StopKeeps == ASSUME IInv, Stop PROVE IInv'
<1>0. /\ TypeOK /\ HostSound /\ CommandsSound /\ ClientsSound
      /\ UNCHANGED <<known, inbox, ready>>
      /\ phase' = "stopped" /\ tracked' = {} /\ relays' = {} /\ awaited' = {} /\ idle' = FALSE
      /\ plugins' = [s \in Sessions |-> 0]
      /\ groups' = [i \in Instances |-> {}]
      /\ joined' = [c \in Clients |-> IF Listening(c) THEN "cut" ELSE joined[c]]
      /\ conn' = [s \in Sessions |-> [k \in Conns |->
                    IF conn[s][k] = "none" THEN "none" ELSE "closed"]]
      /\ cmd' = [a \in Cmds |-> IF cmd[a].by = Host /\ cmd[a].at # "none"
                                THEN Failed(cmd[a])
                                ELSE IF cmd[a].at \in {"atPlugin", "answered"}
                                THEN Rejected(cmd[a]) ELSE cmd[a]]
  BY DEF IInv, Stop
<1>1. ASSUME NEW a \in Cmds
      PROVE  /\ Sound(a, cmd'[a], plugins') /\ ~PendingThen(cmd'[a])
             /\ \A c \in Clients : Awaits(c, cmd[a]) => Awaits(c, cmd'[a])
  <2>1. Sound(a, cmd[a], plugins) /\ cmd[a] \in Commands(a)
    BY <1>0 DEF CommandsSound, Sound
  <2>2. CASE cmd[a].by = Host /\ cmd[a].at # "none"
    <3>1. cmd'[a] = Failed(cmd[a])
      BY <1>0, <2>2
    <3>2. Sound(a, Failed(cmd[a]), plugins') /\ Failed(cmd[a]).at = "none"
      BY <2>1, FailedSound
    <3> QED BY <2>2, <3>1, <3>2, RelayAssumption DEF PendingThen, Awaits
  <2>3. CASE cmd[a].by # Host /\ PendingThen(cmd[a])
    <3>1. cmd'[a] = Rejected(cmd[a]) /\ cmd[a].at # "none" /\ cmd[a].at # "toClient"
      BY <1>0, <2>3 DEF PendingThen
    <3>2. Sound(a, Rejected(cmd[a]), plugins') /\ Rejected(cmd[a]).at = "toClient"
      BY <2>1, <2>3, <3>1, RejectedSound
    <3> QED BY <3>1, <3>2 DEF PendingThen, Awaits
  <2>4. CASE ~PendingThen(cmd[a]) /\ ~(cmd[a].by = Host /\ cmd[a].at # "none")
    <3>1. cmd'[a] = cmd[a]
      BY <1>0, <2>4 DEF PendingThen
    <3>2. Sound(a, cmd[a], plugins')
      BY <2>1, <2>4 DEF Sound
    <3>3. Sound(a, cmd'[a], plugins')
      BY <3>1, <3>2
    <3>4. ~PendingThen(cmd'[a]) /\ \A c \in Clients : Awaits(c, cmd[a]) => Awaits(c, cmd'[a])
      BY <2>4, <3>1 DEF PendingThen, Awaits
    <3> QED BY <3>3, <3>4
  <2>5. PendingThen(cmd[a]) => cmd[a].at # "none"
    BY DEF PendingThen
  <2> QED BY <2>2, <2>3, <2>4, <2>5
<1>2. CommandsSound'
  BY <1>0, <1>1 DEF CommandsSound, Serving, Pending, PendingThen
<1>3. HostSound'
  <2>1. IsFiniteSet({})
    BY FS_EmptySet
  <2> QED BY <1>0, <2>1 DEF HostSound, TrackerMatches, Conns
<1>4. TypeOK'
  <2>1. DOMAIN cmd' = Cmds /\ \A x \in Cmds : cmd'[x] \in Commands(x)
    BY <1>2 DEF CommandsSound, Sound
  <2>2. conn' \in [Sessions -> [Conns -> {"none", "open", "registered", "closing", "closed"}]]
    BY <1>0
  <2>3. plugins' \in [Sessions -> 0 .. MaxConns]
    BY <1>0, RelayAssumption
  <2>4. joined' \in [Clients -> {"out", "asked", "listed", "cut", "lost"}]
    BY <1>0 DEF TypeOK
  <2> QED BY <1>0, <2>1, <2>2, <2>3, <2>4 DEF TypeOK
<1>5. ClientsSound'
  <2> SUFFICES ASSUME NEW d \in Clients
               PROVE  AnswersAwaited(d)' /\ CacheSound(d)'
    BY <1>0 DEF ClientsSound
  <2>1. AnswersAwaited(d) /\ CacheSound(d)
    BY <1>0 DEF ClientsSound
  <2>2. AnswersAwaited(d)'
    BY <1>0, <1>1, <2>1 DEF AnswersAwaited, Awaited
  <2>3. joined'[d] \notin {"asked", "listed"} /\ (joined'[d] = "out" => joined[d] = "out")
    BY <1>0 DEF TypeOK, Listening
  <2>4. CacheSound(d)'
    BY <1>0, <2>1, <2>3 DEF CacheSound
  <2> QED BY <2>2, <2>4
<1> QED BY <1>2, <1>3, <1>4, <1>5 DEF IInv

\* The invariant is inductive.
LEMMA StepKeeps == ASSUME IInv, [Next]_vars PROVE IInv'
<1>1. ASSUME NEW s \in Sessions, NEW k \in Conns, PluginConnects(s, k) PROVE IInv'
  BY <1>1, ConnectsKeeps
<1>2. ASSUME NEW s \in Sessions, NEW k \in Conns, PluginRegisters(s, k) PROVE IInv'
  BY <1>2, RegistersKeeps
<1>3. ASSUME NEW s \in Sessions, NEW k \in Conns, PluginCloses(s, k) PROVE IInv'
  BY <1>3, ClosesKeeps
<1>4. ASSUME NEW c \in Clients, Join(c) \/ ListSessions(c) \/ Receive(c) \/ LoseHost(c)
      PROVE  IInv'
  BY <1>4, JoinKeeps, ListsKeeps, ReceiveKeeps, LosesKeeps
<1>5. ASSUME NEW a \in Cmds,
             Begin(a) \/ Relay(a) \/ Dispatch(a) \/ RequestTimesOut(a) \/ ClientTimesOut(a)
      PROVE  IInv'
  BY <1>5, BeginKeeps, RelayKeeps, DispatchKeeps, TimesOutKeeps, GivesUpKeeps
<1>6. ASSUME NEW a \in Cmds, NEW r \in Results, PluginAnswers(a, r) PROVE IInv'
  BY <1>6, AnswersKeeps
<1>7. CASE Disconnect \/ IdleFires
  BY <1>7, DrainsKeeps
<1>8. CASE StopDrained \/ StopInTime
  BY <1>8, StopKeeps DEF StopDrained, StopInTime
<1>9. CASE UNCHANGED vars
  <2>1. UNCHANGED <<conn, plugins, tracked, groups, phase, awaited, relays, idle,
                    joined, known, inbox, ready, cmd>>
    BY <1>9 DEF vars
  <2>2. TypeOK'
    BY <2>1 DEF IInv, TypeOK
  <2>3. HostSound' /\ CommandsSound'
    BY <2>1, HostFrame, CommandsFrame DEF IInv
  <2>4. ClientsSound'
    BY <2>1, ClientsFrame DEF IInv
  <2> QED BY <2>2, <2>3, <2>4 DEF IInv
<1> QED BY <1>1, <1>2, <1>3, <1>4, <1>5, <1>6, <1>7, <1>8, <1>9 DEF Next

LEMMA InvariantHolds == Spec => []IInv
<1>1. Init => IInv
  BY InitHolds
<1>2. IInv /\ [Next]_vars => IInv'
  BY StepKeeps
<1> QED BY <1>1, <1>2, PTL DEF Spec

\* Every variable keeps its type.
THEOREM RelayTypeCorrect == Spec => []TypeOK
<1>1. IInv => TypeOK
  BY DEF IInv
<1> QED BY <1>1, InvariantHolds, PTL

\* What the host lists is what is connected, and what a client lists is what the host
\* lists once the messages under way have arrived (_registerPlugin, _handleSessionEvent).
THEOREM ListsTrue == Spec => []ListsAreTrue
<1>1. IInv => ListsAreTrue
  <2> SUFFICES ASSUME IInv PROVE TrackerMatches /\ CacheCatchesUp
    BY DEF ListsAreTrue
  <2>1. \A c \in Clients : joined[c] = "listed" => ListedOnce(c) = tracked
    BY DEF IInv, ClientsSound, CacheSound
  <2> QED BY <2>1 DEF IInv, HostSound, CacheCatchesUp
<1> QED BY <1>1, InvariantHolds, PTL

\* The relays a disconnecting host waits for are exactly those pending, and each is on
\* the connection that its session has now (_pendingRelays, cancelRequests).
THEOREM RelaysArePending == Spec => []RelaysPending
<1>1. IInv => RelaysPending
  <2> SUFFICES ASSUME IInv PROVE RelaysPending
    OBVIOUS
  <2>1. PendingIsLive
    BY DEF IInv, CommandsSound, Sound, PendingThen, PendingIsLive, Pending
  <2> QED BY <2>1 DEF IInv, CommandsSound, RelaysPending
<1> QED BY <1>1, InvariantHolds, PTL

-----------------------------------------------------------------------------
(* Which session a command runs in.                                        *)

LEMMA OneOfIs ==
    ASSUME NEW ss, ss # {}
    PROVE  OneOf(ss).found /\ OneOf(ss).session \in ss
BY DEF OneOf, Found

LEMMA InstancesFinite ==
    ASSUME NEW ss, IsFiniteSet(ss)
    PROVE  IsFiniteSet(InstancesOf(ss))
<1> DEFINE f == [s \in ss |-> InstanceOf[s]]
<1>1. f \in Surjection(ss, InstancesOf(ss))
  BY DEF Surjection, InstancesOf
<1> QED BY <1>1, FS_Surjection

LEMMA ResolvedByInstance ==
    ASSUME NEW ss, NEW i, NEW ctx, ResolveByInstance(ss, i, ctx).found
    PROVE  LET s == ResolveByInstance(ss, i, ctx).session
           IN  s \in ss /\ InstanceOf[s] = i /\ InContext(s, ctx)
<1> DEFINE group == {s \in ss : InstanceOf[s] = i}
           matches == {s \in group : InContext(s, ctx)}
           edits == {s \in group : ContextOf[s] = "edit"}
           got == ResolveByInstance(ss, i, ctx)
<1>1. group # {} /\ ~NotFound.found
  BY DEF ResolveByInstance, NotFound
<1>2. CASE ctx # AnyContext
  <2>1. Cardinality(matches) = 1 /\ got = OneOf(matches)
    BY <1>1, <1>2 DEF ResolveByInstance, NotFound
  <2>2. matches # {}
    BY <2>1, FS_EmptySet
  <2> HIDE DEF got
  <2>3. got.session \in matches
    BY <2>1, <2>2, OneOfIs
  <2> QED BY <2>3 DEF got
<1>3. CASE ctx = AnyContext
  <2>1. got = IF edits # {} THEN OneOf(edits) ELSE OneOf(group)
    BY <1>1, <1>3 DEF ResolveByInstance
  <2> HIDE DEF got
  <2>2. got.session \in group
    BY <1>1, <2>1, OneOfIs
  <2> QED BY <1>3, <2>2 DEF got, InContext
<1> QED BY <1>2, <1>3

LEMMA ResolvedByOnlyInstance ==
    ASSUME NEW ss, NEW is, IsFiniteSet(is), NEW ctx, OnlyInstance(ss, is, ctx).found
    PROVE  LET s == OnlyInstance(ss, is, ctx).session
           IN  s \in ss /\ is = {InstanceOf[s]} /\ InContext(s, ctx)
<1>1. Cardinality(is) = 1
  BY DEF OnlyInstance, NotFound
<1>2. PICK i : is = {i}
  BY <1>1, FS_Singleton
<1>3. (CHOOSE x \in is : TRUE) = i
  BY <1>2
<1>4. OnlyInstance(ss, is, ctx) = ResolveByInstance(ss, i, ctx)
  BY <1>1, <1>3 DEF OnlyInstance
<1> QED BY <1>2, <1>4, ResolvedByInstance

\* A command runs in the session it named, in the only one its prefix begins, or in the
\* only instance it can mean, and in the context it asked for (resolveSessionAsync).
THEOREM ResolvesMeant == Spec => []ResolvesWhatIsMeant
<1>1. IInv => ResolvesWhatIsMeant
  <2> SUFFICES ASSUME IInv, NEW t \in Targets, NEW ctx \in Contexts,
                      ResolveSession(tracked, t, ctx).found
               PROVE  LET s == ResolveSession(tracked, t, ctx).session
                      IN  /\ InContext(s, ctx)
                          /\ \/ t = s
                             \/ {x \in tracked : StartsWith(t, x) /\ InContext(x, ctx)} = {s}
                             \/ InstancesOf(FindSessions(tracked, t, AnyContext))
                                  = {InstanceOf[s]}
    BY DEF ResolvesWhatIsMeant
  <2> DEFINE got == ResolveSession(tracked, t, ctx)
             prefixed == {x \in tracked : StartsWith(t, x) /\ InContext(x, ctx)}
             meant == IF t \in tracked THEN {InstanceOf[t]} ELSE MatchInstanceIds(tracked, t)
             listed == FindSessions(tracked, t, AnyContext)
  <2>1. IsFiniteSet(tracked) /\ tracked \in SUBSET Sessions
    BY DEF IInv, HostSound, TypeOK
  <2>2. CASE t = NoTarget
    <3>1. got = OnlyInstance(tracked, InstancesOf(tracked), ctx)
      BY <2>2 DEF ResolveSession
    <3>2. listed = tracked
      BY <2>1, <2>2, SelectionAssumption DEF FindSessions, InContext
    <3> HIDE DEF got, listed
    <3>3. InstancesOf(tracked) = {InstanceOf[got.session]} /\ InContext(got.session, ctx)
      BY <2>1, <3>1, InstancesFinite, ResolvedByOnlyInstance DEF got
    <3> QED BY <3>2, <3>3 DEF got, listed
  <2>3. CASE t # NoTarget /\ t \in tracked /\ InContext(t, ctx)
    BY <2>3 DEF ResolveSession, Found
  <2>4. CASE t # NoTarget /\ ~(t \in tracked /\ InContext(t, ctx)) /\ Cardinality(prefixed) = 1
    <3>1. got = OneOf(prefixed)
      BY <2>4 DEF ResolveSession
    <3>2. IsFiniteSet(prefixed)
      BY <2>1, FS_Subset
    <3>3. \E x : prefixed = {x}
      BY <2>4, <3>2, FS_Singleton
    <3> HIDE DEF got
    <3>4. got.session \in prefixed
      BY <3>1, <3>3, OneOfIs
    <3>5. prefixed = {got.session}
      <4> HIDE DEF prefixed
      <4> QED BY <3>3, <3>4
    <3>6. InContext(got.session, ctx)
      BY <3>4
    <3> QED BY <3>5, <3>6 DEF got
  <2>5. CASE t # NoTarget /\ ~(t \in tracked /\ InContext(t, ctx)) /\ Cardinality(prefixed) # 1
    <3>1. got = OnlyInstance(tracked, meant, ctx)
      BY <2>5 DEF ResolveSession, NotFound
    <3>2. IsFiniteSet(meant)
      <4>1. CASE t \in tracked
        BY <4>1, FS_Singleton
      <4>2. CASE t \notin tracked
        <5>1. /\ IsFiniteSet({s \in tracked : t \in {s, InstanceOf[s]}})
              /\ IsFiniteSet({s \in tracked : StartsWith(t, s) \/ StartsWith(t, InstanceOf[s])})
          BY <2>1, FS_Subset
        <5>2. meant = MatchInstanceIds(tracked, t)
          BY <4>2
        <5> QED BY <5>1, <5>2, InstancesFinite DEF MatchInstanceIds
      <4> QED BY <4>1, <4>2
    <3> HIDE DEF got, meant
    <3>3. /\ got.session \in tracked /\ meant = {InstanceOf[got.session]}
          /\ InContext(got.session, ctx)
      BY <3>1, <3>2, ResolvedByOnlyInstance DEF got
    <3>4. InstancesOf(listed) = {InstanceOf[got.session]}
      <4>1. CASE t \in tracked
        <5>1. listed = {t} /\ meant = {InstanceOf[t]}
          BY <4>1 DEF FindSessions, meant
        <5> QED BY <3>3, <5>1 DEF InstancesOf
      <4>2. CASE t \notin tracked
        <5>1. listed = {s \in tracked : InstanceOf[s] \in meant}
          BY <2>5, <4>2 DEF FindSessions, InContext, meant
        <5> HIDE DEF listed
        <5> QED BY <3>3, <5>1 DEF InstancesOf
      <4> QED BY <4>1, <4>2
    <3> QED BY <3>3, <3>4 DEF got
  <2> QED BY <2>2, <2>3, <2>4, <2>5
<1> QED BY <1>1, InvariantHolds, PTL

===============================================================================
