--------------------------- MODULE SessionSelection ---------------------------
(***************************************************************************)
(* How a command of studio-bridge finds the session it runs in: by an id, a *)
(* prefix of one, a Studio instance, a context, or nothing at all.          *)
(***************************************************************************)
EXTENDS Naturals, FiniteSets

CONSTANTS
    Sessions,   \* the sessions' ids
    InstanceOf, \* InstanceOf[s]: the id of the instance session s belongs to
    ContextOf,  \* ContextOf[s]: "edit", "server" or "client"
    Abbreviates    \* the pairs <<t, id>> of a target and an id that starts with it

NoTarget == "no target"
AnyContext == "any"

ASSUME SelectionAssumption ==
    /\ NoTarget \notin Sessions
    /\ DOMAIN InstanceOf = Sessions
    /\ ContextOf \in [Sessions -> {"edit", "server", "client"}]

Instances == {InstanceOf[s] : s \in Sessions}
InstancesOf(ss) == {InstanceOf[s] : s \in ss}

\* What a command may name, and the contexts it may ask for.
Targets == Sessions \cup Instances \cup {pair[1] : pair \in Abbreviates} \cup {NoTarget}
Contexts == {AnyContext, "edit", "server", "client"}

StartsWith(t, id) == t = id \/ <<t, id>> \in Abbreviates
InContext(s, ctx) == ctx = AnyContext \/ ContextOf[s] = ctx

Found(s) == [found |-> TRUE, session |-> s]
NotFound == [found |-> FALSE]

\* Any of the sessions: the code takes the first of a list whose order means nothing.
OneOf(ss) == Found(CHOOSE s \in ss : TRUE)

\* A context must be there once; without one, the only session or the edit
\* session of the instance is taken, or else the first.
ResolveByInstance(ss, i, ctx) ==
    LET group == {s \in ss : InstanceOf[s] = i}
        matches == {s \in group : InContext(s, ctx)}
        edits == {s \in group : ContextOf[s] = "edit"}
    IN  IF group = {} THEN NotFound
        ELSE IF ctx # AnyContext
             THEN IF Cardinality(matches) = 1 THEN OneOf(matches) ELSE NotFound
        ELSE IF edits # {} THEN OneOf(edits) ELSE OneOf(group)

\* The instances whose id, or one of whose session ids, is t or starts with t.
MatchInstanceIds(ss, t) ==
    LET exact == {s \in ss : t \in {s, InstanceOf[s]}}
    IN  IF exact # {} THEN InstancesOf(exact)
        ELSE InstancesOf({s \in ss : StartsWith(t, s) \/ StartsWith(t, InstanceOf[s])})

\* Mutant: with several candidates the first instance is taken.
FirstInstance(ss, is, ctx) ==
    IF is # {} THEN ResolveByInstance(ss, CHOOSE i \in is : TRUE, ctx) ELSE NotFound

OnlyInstance(ss, is, ctx) ==
    IF Cardinality(is) = 1 THEN ResolveByInstance(ss, CHOOSE i \in is : TRUE, ctx) ELSE NotFound

\* resolveSessionAsync, once the sessions have settled.
ResolveSession(ss, t, ctx) ==
    LET prefixed == {s \in ss : StartsWith(t, s) /\ InContext(s, ctx)}
        namesInstance == \E s \in prefixed : StartsWith(t, InstanceOf[s])
    IN  IF t = NoTarget THEN OnlyInstance(ss, InstancesOf(ss), ctx)
        ELSE IF t \in ss /\ InContext(t, ctx) THEN Found(t)
        ELSE IF Cardinality(prefixed) = 1 THEN OneOf(prefixed)
        ELSE IF t \notin ss /\ Cardinality(prefixed) > 1 /\ ~namesInstance THEN NotFound
        ELSE OnlyInstance(ss, IF t \in ss THEN {InstanceOf[t]} ELSE MatchInstanceIds(ss, t), ctx)

\* findSessions, which lists every session a target and a context match.
FindSessions(ss, t, ctx) ==
    IF t \in ss /\ ctx = AnyContext THEN {t}
    ELSE {s \in ss : /\ InContext(s, ctx)
                     /\ t = NoTarget \/ InstanceOf[s] \in
                          (IF t \in ss THEN {InstanceOf[t]} ELSE MatchInstanceIds(ss, t))}

\* annotateInstanceState: a plugin registers as "Edit" and cannot see a playtest;
\* the other sessions of its instance tell.
InstanceState(ss, s) ==
    LET contexts == {ContextOf[x] : x \in {y \in ss : InstanceOf[y] = InstanceOf[s]}}
    IN  IF "server" \notin contexts THEN "Edit"
        ELSE IF "client" \in contexts THEN "Play" ELSE "Run"
=============================================================================
