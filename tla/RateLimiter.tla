----------------------------- MODULE RateLimiter -----------------------------
(***************************************************************************)
(* RateLimiter of the Open Cloud client: a bounded number of requests at a  *)
(* time, a queue for the others, one quota per endpoint as the answers'     *)
(* headers tell it, and retries with a back-off.                            *)
(***************************************************************************)
EXTENDS Naturals, Sequences, FiniteSets

CONSTANTS
    Callers,        \* who calls fetchAsync, with one request at a time each
    Buckets,        \* the endpoints that have a quota of their own
    MaxConcurrency,
    MaxRetries

ASSUME LimiterAssumption ==
    /\ IsFiniteSet(Callers)
    /\ MaxConcurrency \in Nat \ {0}
    /\ MaxRetries \in Nat \ {0}

VARIABLES
    inflight,   \* _inflight
    queue,      \* _queue: the callers that wait for a slot
    req,        \* req[c]: the request of caller c
    quota       \* _quotas: "none", "spent" until a time to come, or "expired"

limiterVars == <<inflight, queue, req, quota>>

Idle == [is |-> "idle", bucket |-> "none", attempt |-> 0, answer |-> "none"]

\* A caller holds a slot from the first attempt to the last, its sleeps included.
\* One that sleeps for a quota does so until that quota is reset ("quota") or has
\* been replaced, when its timer is its own affair ("due").
Holding == {"check", "quota", "due", "sent", "backoff"}
Holders == {c \in Callers : req[c].is \in Holding}

LimiterInit ==
    /\ inflight = 0
    /\ queue = <<>>
    /\ req = [c \in Callers |-> Idle]
    /\ quota = [b \in Buckets |-> "none"]

\* fetchAsync is called, for an endpoint.
Fetch(c, b) ==
    /\ IF inflight < MaxConcurrency
       THEN /\ inflight' = inflight + 1
            /\ queue' = queue
            /\ req' = [req EXCEPT ![c] = [Idle EXCEPT !.is = "check", !.bucket = b]]
       ELSE /\ inflight' = inflight
            /\ queue' = Append(queue, c)
            /\ req' = [req EXCEPT ![c] = [Idle EXCEPT !.is = "queued", !.bucket = b]]
    /\ UNCHANGED quota

\* Mutant: the slot is given back, and the next one in the queue is woken too.
ReleaseTwice(c, r, answer) ==
    LET done == [r EXCEPT ![c] = [Idle EXCEPT !.is = "answered", !.answer = answer]] IN
    IF queue = <<>>
    THEN inflight' = inflight - 1 /\ queue' = queue /\ req' = done
    ELSE inflight' = inflight - 1 /\ queue' = Tail(queue) /\ req' = [done EXCEPT ![Head(queue)].is = "check"]

\* The request is over: its slot goes to the first in the queue, or back.
Release(c, r, answer) ==
    LET done == [r EXCEPT ![c] = [Idle EXCEPT !.is = "answered", !.answer = answer]] IN
    IF queue = <<>>
    THEN inflight' = inflight - 1 /\ queue' = queue /\ req' = done
    ELSE inflight' = inflight /\ queue' = Tail(queue) /\ req' = [done EXCEPT ![Head(queue)].is = "check"]

\* The sleepers of an endpoint whose quota they sleep for is no longer the one known.
Outdated(b) ==
    [c \in Callers |-> IF req[c].is = "quota" /\ req[c].bucket = b
                       THEN [req[c] EXCEPT !.is = "due"] ELSE req[c]]

\* Before an attempt: sleep if the quota is known to be spent, and forget it if its
\* time is over.
CheckQuota(c) ==
    /\ req[c].is = "check"
    /\ IF quota[req[c].bucket] = "spent"
       THEN req' = [req EXCEPT ![c].is = "quota"] /\ quota' = quota
       ELSE req' = [req EXCEPT ![c].is = "sent"] /\ quota' = [quota EXCEPT ![req[c].bucket] = "none"]
    /\ UNCHANGED <<inflight, queue>>

QuotaResets(b) ==
    /\ quota[b] = "spent"
    /\ quota' = [quota EXCEPT ![b] = "expired"]
    /\ req' = Outdated(b)
    /\ UNCHANGED <<inflight, queue>>

\* A sleeper wakes, forgets the quota, even one that is newer, and sends.
WakesUp(c) ==
    /\ req[c].is = "due"
    /\ req' = [req EXCEPT ![c].is = "sent"]
    /\ quota' = [quota EXCEPT ![req[c].bucket] = "none"]
    /\ UNCHANGED <<inflight, queue>>

\* What the answer's headers say of the quota.
UpdateFromHeaders(b, hint) ==
    quota' = [quota EXCEPT ![b] = CASE hint = "silent" -> @ [] hint = "free" -> "none" [] OTHER -> hint]

\* The answer, or a transport error ("lost"): one of these that is worth a retry
\* backs off, the last attempt hands over what it has.
Answered(c, got, hint) ==
    LET b == req[c].bucket
        r == IF hint = "silent" THEN req ELSE Outdated(b)
    IN
    /\ req[c].is = "sent"
    /\ got = "lost" => hint = "silent"
    /\ UpdateFromHeaders(b, hint)
    /\ IF got \in {"ok", "refused"} THEN Release(c, r, got)
       ELSE IF req[c].attempt + 1 = MaxRetries THEN Release(c, r, "failed")
       ELSE /\ req' = [r EXCEPT ![c].is = "backoff", ![c].attempt = @ + 1]
            /\ UNCHANGED <<inflight, queue>>

BackedOff(c) ==
    /\ req[c].is = "backoff"
    /\ req' = [req EXCEPT ![c].is = "check"]
    /\ UNCHANGED <<inflight, queue, quota>>

Answers == {"ok", "refused", "retry", "lost"}
Hints == {"silent", "free", "spent"}

\* What the limiter does on its own, and what the service does to it.
LimiterStep(c) ==
    \/ CheckQuota(c) \/ WakesUp(c) \/ BackedOff(c)
    \/ \E got \in Answers, hint \in Hints : Answered(c, got, hint)
=============================================================================
