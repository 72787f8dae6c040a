---------------------------- MODULE MCBridgeRelay ----------------------------
(***************************************************************************)
(* A host with two Studio instances: p and q are the edit and the server   *)
(* session of the first, r the edit session of the second; pq is a target   *)
(* that abbreviates p, r and the second instance.  A client relays one      *)
(* command to p while the host process runs one of its own there.           *)
(***************************************************************************)
EXTENDS BridgeRelay

CONSTANTS p, q, r, i1, i2, pq, c1, relayed, own

MCInstanceOf == [s \in Sessions |-> IF s = r THEN i2 ELSE i1]
MCContextOf == [s \in Sessions |-> IF s = q THEN "server" ELSE "edit"]
MCAbbreviates == {<<pq, p>>, <<pq, r>>, <<pq, i2>>}
MCIssuer == [a \in Cmds |-> IF a = relayed THEN c1 ELSE Host]
MCTarget == [a \in Cmds |-> p]
=============================================================================
