------------------------------ MODULE OpenCloud ------------------------------
(***************************************************************************)
(* OpenCloudClient and CloudJobContext: calls that upload and download      *)
(* places, run scripts, resolve versions and upload assets, every one a     *)
(* chain of requests through one rate limiter.                              *)
(*                                                                         *)
(* The services are external: an answer may say anything they can say.      *)
(***************************************************************************)
EXTENDS RateLimiter

CONSTANTS
    Kinds,          \* Kinds[c]: the operations caller c may call
    MaxCdn,         \* CDN_MAX_ATTEMPTS
    MaxLogs,        \* maxAttempts of getRawTaskLogsAsync
    MaxPolls,       \* how often pollAssetOperationAsync polls
    MaxPages        \* VERSION_SCAN_MAX_PAGES; bound: the pages of a task's logs

VARIABLES
    key,        \* _apiKey is known
    call        \* call[c]: where the call of c is, and what it has returned

vars == <<limiterVars, key, call>>

\* The endpoints, by the step of a call that asks them.
Endpoints == {"upload", "create", "poll", "logs", "delivery", "scan", "send", "pollAsset", "lookup"}

AllKinds == {"upload", "task", "download", "version", "asset", "lookup"}

\* Every endpoint has a quota of its own.
ASSUME OpenCloudAssumption ==
    /\ Buckets = Endpoints
    /\ Kinds \in [Callers -> SUBSET AllKinds]

FirstStep(kind) ==
    CASE kind = "task" -> "create" [] kind = "download" -> "delivery"
      [] kind = "version" -> "scan" [] kind = "asset" -> "send" [] OTHER -> kind

Called(kind) == [kind |-> kind, step |-> "key", tries |-> 0, page |-> 0, result |-> "none"]

Init ==
    /\ LimiterInit
    /\ key = FALSE
    /\ \E kind \in [Callers -> AllKinds] :
         /\ \A c \in Callers : kind[c] \in Kinds[c]
         /\ call = [c \in Callers |-> Called(kind[c])]

-----------------------------------------------------------------------------
(* How a call goes on when it has an answer                                *)

Answer(c, step, ok) ==
    /\ call[c].step = step
    /\ req[c].is = "answered"
    /\ ok = (req[c].answer = "ok")
    /\ key' = key

Forget(c) == req' = [req EXCEPT ![c] = Idle] /\ UNCHANGED <<inflight, queue, quota>>

\* A call whose caller has been told already, after a timeout, tells nobody.
End(c, result) ==
    call' = [call EXCEPT ![c].step = "end", ![c].result = IF @ = "none" THEN result ELSE @]

EndsWith(c, result) == End(c, result) /\ Forget(c)

\* The next request of the call: at once, or after a sleep (of a step without one).
Asks(c, step) == call' = [call EXCEPT ![c].step = step] /\ Fetch(c, step)
SleepsFor(c, next) == call' = [call EXCEPT ![c] = next] /\ Forget(c)

\* The API key: asked for by every call that does not find it; a place or a script
\* that is too large is refused before it is sent.
ResolveKey(c) ==
    /\ call[c].step = "key"
    /\ \/ ~key /\ key' = key /\ End(c, "failed") /\ UNCHANGED limiterVars
       \/ key' = TRUE /\ Asks(c, FirstStep(call[c].kind))
       \/ /\ call[c].kind \in {"upload", "task"}
          /\ key' = TRUE /\ End(c, "failed") /\ UNCHANGED limiterVars

\* Every operation gives up on an answer that is not a success.
Refused(c) == \E step \in Endpoints : Answer(c, step, FALSE) /\ EndsWith(c, "failed")

\* One request and its answer: uploading a place, reading who owns what.
Uploaded(c) == Answer(c, "upload", TRUE) /\ EndsWith(c, "ok")
LookedUp(c) == Answer(c, "lookup", TRUE) /\ \E result \in {"ok", "failed"} : EndsWith(c, result)

Created(c) == Answer(c, "create", TRUE) /\ Asks(c, "poll")

\* The task goes on, or has ended in one way or another: the logs are next, unless
\* the caller has timed out.
Polled(c) ==
    /\ Answer(c, "poll", TRUE)
    /\ \/ SleepsFor(c, call[c])
       \/ IF call[c].result = "none" THEN Asks(c, "logs") ELSE EndsWith(c, "ok")

\* Mutant: the timeout is that of the server, and only a poll that hears of it ends.
TimesOutOnServer(c) ==
    /\ call[c].kind = "task" /\ call[c].step = "poll" /\ call[c].result = "none"
    /\ req[c].is = "answered" /\ req[c].answer = "ok"
    /\ call' = [call EXCEPT ![c].result = "timeout"]
    /\ UNCHANGED <<limiterVars, key>>

\* The client's own timeout wins the race: the poll it raced with goes on.
TimesOut(c) ==
    /\ call[c].kind = "task" /\ call[c].step = "poll" /\ call[c].result = "none"
    /\ call' = [call EXCEPT ![c].result = "timeout"]
    /\ UNCHANGED <<limiterVars, key>>

\* A page of the logs: another one follows, or all are there, or they are empty and
\* fetched again.
GotLogs(c) ==
    /\ Answer(c, "logs", TRUE)
    /\ \/ /\ call[c].page < MaxPages
          /\ call' = [call EXCEPT ![c].page = @ + 1] /\ Fetch(c, "logs")
       \/ EndsWith(c, "ok")
       \/ /\ call[c].tries + 1 < MaxLogs
          /\ SleepsFor(c, [call[c] EXCEPT !.tries = @ + 1, !.page = 0])

\* Where the place can be downloaded from, or that there is no such version.
Located(c) ==
    /\ Answer(c, "delivery", TRUE)
    /\ EndsWith(c, "failed") \/ SleepsFor(c, [call[c] EXCEPT !.step = "cdn"])

\* The download itself is not rate limited, and any failure is retried.
CdnAnswers(c) ==
    /\ call[c].step = "cdn"
    /\ \/ End(c, "ok")
       \/ IF call[c].tries + 1 = MaxCdn THEN End(c, "failed")
          ELSE call' = [call EXCEPT ![c].tries = @ + 1]
    /\ UNCHANGED <<limiterVars, key>>

\* A page of the history of versions (what is made of it: see VersionScan).
Scanned(c) ==
    /\ Answer(c, "scan", TRUE)
    /\ \/ \E result \in {"ok", "failed"} : EndsWith(c, result)
       \/ /\ call[c].page + 1 < MaxPages
          /\ call' = [call EXCEPT ![c].page = @ + 1] /\ Fetch(c, "scan")

\* The operation that imports an asset: done, or polled again while polls are left.
Imported(c) ==
    \/ \E result \in {"ok", "failed"} : EndsWith(c, result)
    \/ IF call[c].tries = MaxPolls THEN EndsWith(c, "failed")
       ELSE SleepsFor(c, [call[c] EXCEPT !.step = "pollAsset", !.tries = @ + 1])

AssetSent(c) == Answer(c, "send", TRUE) /\ Imported(c)
AssetPolled(c) == Answer(c, "pollAsset", TRUE) /\ Imported(c)

\* A sleep between two requests is over.
Slept(c) ==
    /\ call[c].step \in {"poll", "logs", "pollAsset"}
    /\ req[c] = Idle
    /\ Fetch(c, call[c].step)
    /\ UNCHANGED <<key, call>>

CallStep(c) ==
    \/ ResolveKey(c) \/ Refused(c) \/ Uploaded(c) \/ LookedUp(c) \/ Created(c) \/ Polled(c)
    \/ GotLogs(c) \/ Located(c) \/ CdnAnswers(c) \/ Scanned(c) \/ Slept(c)
    \/ AssetSent(c) \/ AssetPolled(c)

-----------------------------------------------------------------------------
Next ==
    \/ \E c \in Callers : CallStep(c) \/ TimesOut(c) \/ (LimiterStep(c) /\ UNCHANGED <<key, call>>)
    \/ \E b \in Buckets : QuotaResets(b) /\ UNCHANGED <<key, call>>

Spec == Init /\ [][Next]_vars

\* Requests are answered or lost, sleeps end and quotas are reset.
Fairness ==
    /\ \A c \in Callers :
         /\ WF_vars(CallStep(c))
         /\ WF_vars(TimesOut(c))
         /\ WF_vars(LimiterStep(c) /\ UNCHANGED <<key, call>>)
    /\ \A b \in Buckets : WF_vars(QuotaResets(b) /\ UNCHANGED <<key, call>>)

FairSpec == Spec /\ Fairness

-----------------------------------------------------------------------------
Requests == [is : Holding \cup {"idle", "queued", "answered"},
             bucket : Buckets \cup {"none"},
             attempt : 0 .. MaxRetries - 1,
             answer : {"none", "ok", "refused", "failed"}]
Calls == [kind : AllKinds, step : Endpoints \cup {"key", "cdn", "end"},
          tries : Nat, page : Nat, result : {"none", "ok", "failed", "timeout"}]

\* The types of the variables, with the number of attempts of a request.
TypeOK ==
    /\ inflight \in 0 .. MaxConcurrency
    /\ queue \in Seq(Callers)
    /\ req \in [Callers -> Requests]
    /\ quota \in [Buckets -> {"none", "spent", "expired"}]
    /\ key \in BOOLEAN
    /\ call \in [Callers -> Calls]

\* _inflight counts the callers that hold a slot, however they hand it over; nobody
\* waits in the queue while a slot is free, and everybody who waits is there once.
SlotsKept ==
    /\ inflight = Cardinality(Holders)
    /\ inflight <= MaxConcurrency
    /\ queue # <<>> => inflight = MaxConcurrency
    /\ {c \in Callers : req[c].is = "queued"} = {queue[i] : i \in DOMAIN queue}
    /\ \A i, j \in DOMAIN queue : queue[i] = queue[j] => i = j
=============================================================================
