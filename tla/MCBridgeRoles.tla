---------------------------- MODULE MCBridgeRoles ----------------------------
(***************************************************************************)
(* What is checked about the processes that share the port.                *)
(***************************************************************************)
EXTENDS BridgeRoles

\* The types of the variables, with the bounds of the two retry loops.
RolesTypeOK ==
    /\ listener \in Listeners
    /\ step \in [Procs -> Steps]
    /\ tries \in [Procs -> 0 .. StaleRetries]
    /\ role \in [Procs -> {"none", "host", "client"}]
    /\ connected \in [Procs -> BOOLEAN]
    /\ link \in [Procs -> Links]
    /\ rejoin \in [Procs -> [timer : BOOLEAN, count : 0 .. Reconnects]]
    /\ pending \in [Procs -> BOOLEAN]
    /\ handOff \in [Procs -> [Runs -> [phase : HandOffPhases, tried : 0 .. Attempts]]]
    /\ ends \in 0 .. MaxEnds

\* A connection that reports to be the connected host listens on the port
\* (BridgeConnection role and isConnected): neither the gap between the probe
\* and the bind nor a promotion may give two such hosts.
HostServes == \A p \in Procs :
    connected[p] /\ role[p] = "host" => listener = [by |-> p, as |-> "bridge"]

\* A connection that reports to be a connected client holds a socket and has
\* never lost one: nothing turns the report on again behind the back of a
\* running hand-off.
ConnectedClientHoldsSocket == \A p \in Procs :
    connected[p] /\ role[p] = "client" =>
        link[p].to # Nobody /\ handOff[p] = NoHandOff

\* What a connection reports of itself is true at every moment, whatever starts,
\* hand-offs and reconnects of several processes do to one port meanwhile.
ReportsAreTrue == HostServes /\ ConnectedClientHoldsSocket

Going(p, i) == handOff[p][i].phase \in {"jitter", "binding", "bound", "connecting", "delay"}

\* Every hand-off ends (onHostDisconnectedAsync), however the clients that race
\* for the port disturb each other.
HandOffEnds == <>[](\A p \in Procs, i \in Runs : ~Going(p, i))

\* Once a host serves for good, every process whose command goes on is that
\* host or has a socket to it, whether its hand-off promoted it, fell back or
\* gave up (the transport's own reconnect loop).
RejoinsHost ==
    <>[]Healthy => <>[](\A p \in Procs :
        step[p] = "up" /\ listener.by # p => link[p].to = listener.by)

=============================================================================
