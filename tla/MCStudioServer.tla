--------------------------- MODULE MCStudioServer ---------------------------
(* Properties of StudioServer, for its run.                                *)
EXTENDS StudioServer, SessionRequests

\* startAsync, stopAsync and every executeAsync come to an end, whatever the plugin
\* does or fails to do.
CallsEnd ==
    <>[](boot \in {"none", "done"} /\ stop \in {"none", "done"} /\ Busy = {})

-----------------------------------------------------------------------------
\* The messages of a type, well formed as its interface says, and those of which
\* any field and the id may be missing.
HasId(shape) == IF shape.id = "maybe" THEN BOOLEAN ELSE {shape.id = "always"}
WellFormed(shapes, t) ==
    {Message(t, id, shapes[t].need \cup more, {}) : id \in HasId(shapes[t]), more \in SUBSET shapes[t].may}
AnyOf(shapes, t) ==
    {Message(t, id, good, {}) : id \in BOOLEAN, good \in SUBSET (shapes[t].need \cup shapes[t].may)}

\* What is decoded is what its interface declares, whatever came in.
IsDeclared(shapes, m) ==
    /\ shapes[m.type].need \subseteq m.good
    /\ m.good \subseteq shapes[m.type].need \cup shapes[m.type].may
    /\ shapes[m.type].id = "always" => m.id

\* Every request an operation of a session can send is one its interface declares and
\* reaches the plugin of another process unchanged; the answer to it comes back to the
\* caller with every field that the plugin sent and the interface declares; and any
\* other message the plugin might answer with is told as a failure, never returned.
RequestsAreAnswered ==
    \A name \in DOMAIN Operations :
        LET op == Operations[name] IN
        /\ \A m \in Requests(op) :
             IsDeclared(Server, m) /\ Relayed(m) = m /\ DecodeServerMessage(m) = m
        /\ \A t \in DOMAIN Plugin : \A m \in WellFormed(Plugin, t) :
             LET o == Outcome(op, DecodePluginMessage(m)) IN
             IF t = op.answer THEN ~o.thrown /\ m.good \subseteq o.fields
             ELSE o.thrown \/ (op = execAsync /\ "error" \in o.fields)

\* A message of the plugin loses no declared field on its way in, and a relayed
\* action none on its way out; a newer client's field reaches the plugin through an
\* older host, requests about players excepted; a decoder never returns a message
\* that lacks what its interface requires; and what the host relays, the decoder of
\* server messages accepts; and so end to end, for every operation of a session. It
\* depends on no run and is stated of the first state.
MessagesSurvive ==
    ServerInit =>
      /\ \A t \in DOMAIN Plugin :
           /\ \A m \in WellFormed(Plugin, t) : DecodePluginMessage(m) = m
           /\ \A m \in AnyOf(Plugin, t) : LET d == DecodePluginMessage(m) IN d = Null \/ IsDeclared(Plugin, d)
      /\ \A t \in DOMAIN Server :
           /\ \A m \in WellFormed(Server, t) :
                /\ Relayed(m) = m
                /\ t \notin Strict => "newer" \in Relayed([m EXCEPT !.good = @ \cup {"newer"}]).good
                /\ DecodeServerMessage(m) = [m EXCEPT !.good = @ \ {"verbose"}]
           /\ \A m \in AnyOf(Server, t) :
                /\ LET d == DecodeServerMessage(m) IN d = Null \/ IsDeclared(Server, d)
                /\ (Relayed(m) = Null) = (DecodeServerMessage(m) = Null)
      /\ RequestsAreAnswered
=============================================================================
