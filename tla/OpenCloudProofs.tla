---------------------------- MODULE OpenCloudProofs ----------------------------
(***************************************************************************)
(* Proofs about OpenCloud, for any number of callers, slots and attempts.  *)
(*                                                                         *)
(* Counting slots is right because of who may ask for one: a call fetches   *)
(* only when its request before is idle or answered, so that nobody takes a *)
(* second slot and nobody queues twice; that is what KeyFirst adds to the   *)
(* types.  What a step does to the slots is one of three things: it takes   *)
(* one (FetchTakes), gives one back or on (ReleaseGives), or touches none   *)
(* (OthersKeepSlots).                                                       *)
(***************************************************************************)
EXTENDS MCOpenCloud, FiniteSetTheorems, WellFoundedInduction, TLAPS

\* A call that has no key yet has made no request.
KeyFirst == \A c \in Callers : call[c].step = "key" => req[c].is = "idle"

IInv == TypeOK /\ KeyFirst /\ SlotsKept

\* The part of the types that the limiter keeps.
LimiterTypes ==
    /\ inflight \in 0 .. MaxConcurrency
    /\ queue \in Seq(Callers)
    /\ req \in [Callers -> Requests]
    /\ quota \in [Buckets -> {"none", "spent", "expired"}]

Sane == LimiterTypes /\ SlotsKept

-----------------------------------------------------------------------------
(* Slots                                                                   *)

LEMMA HoldersFinite == IsFiniteSet(Holders) /\ Cardinality(Holders) \in Nat
<1>1. IsFiniteSet(Holders)
  BY LimiterAssumption, FS_Subset DEF Holders
<1> QED
  BY <1>1, FS_CardinalityType

\* Steps that leave everybody in the class they are in.
LEMMA OthersKeepSlots ==
    ASSUME SlotsKept, UNCHANGED <<inflight, queue>>,
           \A c \in Callers : /\ req'[c].is \in Holding <=> req[c].is \in Holding
                              /\ req'[c].is = "queued" <=> req[c].is = "queued"
    PROVE  SlotsKept'
<1>1. Holders' = Holders
  BY DEF Holders
<1> QED
  BY <1>1 DEF SlotsKept

\* A request as it is made and as it is answered.
LEMMA NewRequest ==
    ASSUME NEW b \in Buckets, NEW is \in {"check", "queued"}
    PROVE  /\ [Idle EXCEPT !.is = is, !.bucket = b] \in Requests
           /\ [Idle EXCEPT !.is = is, !.bucket = b].is = is
<1>1. Idle \in Requests
  BY LimiterAssumption DEF Idle, Requests
<1> QED
  BY <1>1 DEF Requests, Holding

LEMMA AnsweredRequest ==
    ASSUME NEW answer \in {"ok", "refused", "failed"}
    PROVE  /\ [Idle EXCEPT !.is = "answered", !.answer = answer] \in Requests
           /\ [Idle EXCEPT !.is = "answered", !.answer = answer].is = "answered"
<1>1. Idle \in Requests
  BY LimiterAssumption DEF Idle, Requests
<1> QED
  BY <1>1 DEF Requests

\* A caller whose last request is over takes a free slot or the end of the queue.
LEMMA FetchTakes ==
    ASSUME Sane, NEW c \in Callers, NEW b \in Buckets,
           req[c].is \in {"idle", "answered"}, Fetch(c, b)
    PROVE  Sane' /\ req'[c].is # "idle" /\ \A d \in Callers \ {c} : req'[d] = req[d]
<1>0. LimiterTypes /\ SlotsKept
  BY DEF Sane
<1>1. c \notin Holders
  BY DEF Holders, Holding
<1>2. CASE inflight < MaxConcurrency
  <2> DEFINE mine == [Idle EXCEPT !.is = "check", !.bucket = b]
  <2>1. inflight' = inflight + 1 /\ queue' = queue /\ req' = [req EXCEPT ![c] = mine] /\ quota' = quota
    BY <1>2 DEF Fetch
  <2>2. mine \in Requests /\ mine.is = "check"
    BY NewRequest
  <2> HIDE DEF mine
  <2>3. req'[c].is = "check" /\ \A d \in Callers \ {c} : req'[d] = req[d]
    BY <1>0, <2>1, <2>2 DEF LimiterTypes
  <2>4. Holders' = Holders \cup {c}
    BY <2>3 DEF Holders, Holding
  <2>5. Cardinality(Holders') = Cardinality(Holders) + 1
    BY <1>1, <2>4, HoldersFinite, FS_AddElement
  <2>6. queue' = <<>>
    BY <1>0, <1>2, <2>1, LimiterAssumption DEF LimiterTypes, SlotsKept
  <2>7. LimiterTypes'
    BY <1>0, <1>2, <2>1, <2>2, LimiterAssumption DEF LimiterTypes
  <2>8. \A d \in Callers : req'[d].is = "queued" <=> req[d].is = "queued"
    BY <2>3
  <2>9. SlotsKept'
    <3>1. inflight' = Cardinality(Holders') /\ inflight' <= MaxConcurrency
      BY <1>0, <1>2, <2>1, <2>5, LimiterAssumption DEF LimiterTypes, SlotsKept
    <3> QED BY <1>0, <2>1, <2>6, <2>8, <3>1 DEF SlotsKept
  <2> QED BY <2>3, <2>7, <2>9 DEF Sane
<1>3. CASE ~(inflight < MaxConcurrency)
  <2> DEFINE mine == [Idle EXCEPT !.is = "queued", !.bucket = b]
  <2>1. inflight' = inflight /\ queue' = Append(queue, c) /\ req' = [req EXCEPT ![c] = mine] /\ quota' = quota
    BY <1>3 DEF Fetch
  <2>2. mine \in Requests /\ mine.is = "queued"
    BY NewRequest
  <2> HIDE DEF mine
  <2>3. req'[c].is = "queued" /\ \A d \in Callers \ {c} : req'[d] = req[d]
    BY <1>0, <2>1, <2>2 DEF LimiterTypes
  <2>4. Holders' = Holders
    BY <1>1, <2>3 DEF Holders, Holding
  <2>5. LimiterTypes'
    BY <1>0, <2>1, <2>2 DEF LimiterTypes
  <2>6. /\ DOMAIN queue' = DOMAIN queue \cup {Len(queue) + 1}
        /\ \A i \in DOMAIN queue : queue'[i] = queue[i] /\ i # Len(queue) + 1
        /\ queue'[Len(queue) + 1] = c
    BY <1>0, <2>1 DEF LimiterTypes
  <2>7. \A i \in DOMAIN queue : queue[i] # c
    BY <1>0 DEF SlotsKept
  <2>8. SlotsKept'
    <3>1. inflight' = MaxConcurrency
      BY <1>0, <1>3, <2>1, LimiterAssumption DEF LimiterTypes
    <3>2. {d \in Callers : req'[d].is = "queued"} = {queue'[i] : i \in DOMAIN queue'}
      BY <1>0, <2>3, <2>6 DEF SlotsKept
    <3>3. \A i, j \in DOMAIN queue' : queue'[i] = queue'[j] => i = j
      BY <1>0, <2>6, <2>7 DEF SlotsKept
    <3> QED BY <1>0, <2>1, <2>4, <3>1, <3>2, <3>3 DEF SlotsKept
  <2> QED BY <2>3, <2>5, <2>8 DEF Sane
<1> QED
  BY <1>2, <1>3

\* The slot of a request that is over goes to the first in the queue, or back; r is
\* what the answer has made of the other requests.
LEMMA ReleaseGives ==
    ASSUME Sane, NEW c \in Callers, req[c].is = "sent",
           NEW r \in [Callers -> Requests], r[c].is = "sent",
           \A d \in Callers : /\ r[d].is \in Holding <=> req[d].is \in Holding
                              /\ r[d].is = "queued" <=> req[d].is = "queued"
                              /\ r[d].is = "idle" <=> req[d].is = "idle",
           NEW answer \in {"ok", "refused", "failed"}, Release(c, r, answer),
           quota' \in [Buckets -> {"none", "spent", "expired"}]
    PROVE  Sane' /\ \A d \in Callers : req[d].is = "idle" => req'[d].is = "idle"
<1>0. LimiterTypes /\ SlotsKept
  BY DEF Sane
<1> DEFINE over == [Idle EXCEPT !.is = "answered", !.answer = answer]
           done == [r EXCEPT ![c] = over]
<1>1. over \in Requests /\ over.is = "answered"
  BY AnsweredRequest
<1>2. done \in [Callers -> Requests] /\ done[c].is = "answered"
      /\ \A d \in Callers \ {c} : done[d] = r[d]
  <2> HIDE DEF over
  <2> QED BY <1>1
<1>3. IF queue = <<>>
      THEN inflight' = inflight - 1 /\ queue' = queue /\ req' = done
      ELSE inflight' = inflight /\ queue' = Tail(queue) /\ req' = [done EXCEPT ![Head(queue)].is = "check"]
  BY DEF Release
<1> HIDE DEF done, over
<1>4. c \in Holders
  BY DEF Holders, Holding
<1>5. CASE queue = <<>>
  <2>1. Holders' = Holders \ {c}
    BY <1>2, <1>3, <1>5 DEF Holders, Holding
  <2>2. Cardinality(Holders') = Cardinality(Holders) - 1 /\ Cardinality(Holders) # 0
    BY <1>4, <2>1, HoldersFinite, FS_RemoveElement, FS_EmptySet
  <2>3. inflight' = Cardinality(Holders') /\ inflight' \in 0 .. MaxConcurrency
    BY <1>0, <1>3, <1>5, <2>2, HoldersFinite, LimiterAssumption DEF LimiterTypes, SlotsKept
  <2>4. \A d \in Callers : req'[d].is = "queued" <=> req[d].is = "queued"
    BY <1>2, <1>3, <1>5
  <2>5. SlotsKept'
    BY <1>0, <1>3, <1>5, <2>3, <2>4 DEF SlotsKept
  <2>6. LimiterTypes'
    BY <1>0, <1>2, <1>3, <1>5, <2>3 DEF LimiterTypes
  <2>7. \A d \in Callers : req[d].is = "idle" => req'[d].is = "idle"
    BY <1>2, <1>3, <1>5
  <2> QED BY <2>5, <2>6, <2>7 DEF Sane
<1>6. CASE queue # <<>>
  <2> DEFINE h == Head(queue)
  <2>1. /\ 1 \in DOMAIN queue /\ h = queue[1] /\ h \in Callers
        /\ DOMAIN queue' = 1 .. Len(queue) - 1 /\ DOMAIN queue = 1 .. Len(queue)
        /\ \A i \in DOMAIN queue' : queue'[i] = queue[i + 1] /\ i + 1 \in DOMAIN queue
        /\ queue' \in Seq(Callers) /\ Len(queue) \in Nat
    <3>1. queue \in Seq(Callers) /\ queue' = Tail(queue) /\ queue # <<>>
      BY <1>0, <1>3, <1>6 DEF LimiterTypes
    <3>2. Len(queue) \in Nat /\ Len(queue) # 0 /\ h = queue[1] /\ DOMAIN queue = 1 .. Len(queue)
      BY <3>1
    <3>3. queue' \in Seq(Callers) /\ Len(queue') = Len(queue) - 1
      BY <3>1
    <3>4. \A i \in 1 .. Len(queue) - 1 : queue'[i] = queue[i + 1]
      BY <3>1
    <3>5. DOMAIN queue' = 1 .. Len(queue')
      BY <3>3
    <3>6. 1 \in DOMAIN queue /\ queue[1] \in Callers
      BY <3>1, <3>2
    <3> HIDE DEF h
    <3> QED BY <3>2, <3>3, <3>4, <3>5, <3>6
  <2>2. req[h].is = "queued" /\ h # c /\ h \notin Holders
    BY <1>0, <2>1 DEF SlotsKept, Holders, Holding
  <2>3. req' = [done EXCEPT ![h].is = "check"] /\ inflight' = inflight
    BY <1>3, <1>6
  <2> HIDE DEF h
  <2>4. /\ req' \in [Callers -> Requests]
        /\ req'[h].is = "check" /\ \A d \in Callers \ {h} : req'[d] = done[d]
    <3>1. [done[h] EXCEPT !.is = "check"] \in Requests /\ [done[h] EXCEPT !.is = "check"].is = "check"
      <4>1. done[h] \in Requests
        BY <1>2, <2>1
      <4> QED BY <4>1 DEF Requests, Holding
    <3>2. req' = [done EXCEPT ![h] = [done[h] EXCEPT !.is = "check"]]
      BY <1>2, <2>1, <2>3
    <3> QED BY <1>2, <2>1, <3>1, <3>2
  <2>5. Holders' = (Holders \ {c}) \cup {h}
    BY <1>2, <2>1, <2>2, <2>4 DEF Holders, Holding
  <2>6. Cardinality(Holders') = Cardinality(Holders)
    <3>1. IsFiniteSet(Holders \ {c}) /\ Cardinality(Holders \ {c}) = Cardinality(Holders) - 1
      BY <1>4, HoldersFinite, FS_RemoveElement
    <3>2. h \notin Holders \ {c}
      BY <2>2
    <3>3. Cardinality(Holders') = Cardinality(Holders \ {c}) + 1
      BY <2>5, <3>1, <3>2, FS_AddElement
    <3> QED BY <3>1, <3>3, HoldersFinite
  <2>7. \A d \in Callers : req'[d].is = "queued" <=> req[d].is = "queued" /\ d # h
    BY <1>2, <2>2, <2>4
  <2>8. {d \in Callers : req'[d].is = "queued"} = {queue'[i] : i \in DOMAIN queue'}
    <3>1. ASSUME NEW i \in DOMAIN queue' PROVE req'[queue'[i]].is = "queued" /\ queue'[i] \in Callers
      <4>1. queue'[i] = queue[i + 1] /\ i + 1 \in DOMAIN queue /\ i + 1 # 1
        BY <2>1
      <4>2. queue[i + 1] # h
        BY <1>0, <2>1, <4>1 DEF SlotsKept
      <4> QED BY <1>0, <2>7, <4>1, <4>2 DEF SlotsKept
    <3>2. ASSUME NEW d \in Callers, req'[d].is = "queued" PROVE \E i \in DOMAIN queue' : queue'[i] = d
      <4>1. PICK j \in DOMAIN queue : queue[j] = d
        BY <1>0, <2>7, <3>2 DEF SlotsKept
      <4>2. j # 1
        BY <2>1, <2>7, <3>2, <4>1
      <4>3. j - 1 \in DOMAIN queue' /\ queue'[j - 1] = d
        BY <2>1, <4>1, <4>2
      <4> QED BY <4>3
    <3> QED BY <3>1, <3>2
  <2>9. ASSUME NEW i \in DOMAIN queue', NEW j \in DOMAIN queue', queue'[i] = queue'[j] PROVE i = j
    <3>1. i + 1 = j + 1
      BY <1>0, <2>1, <2>9 DEF SlotsKept
    <3> QED BY <2>1, <3>1
  <2>10. SlotsKept'
    BY <1>0, <1>6, <2>3, <2>6, <2>8, <2>9 DEF SlotsKept
  <2>11. LimiterTypes'
    BY <1>0, <2>1, <2>3, <2>4 DEF LimiterTypes
  <2>12. \A d \in Callers : req[d].is = "idle" => req'[d].is = "idle"
    BY <1>2, <2>2, <2>4
  <2> QED BY <2>10, <2>11, <2>12 DEF Sane
<1> QED
  BY <1>5, <1>6

-----------------------------------------------------------------------------
(* The limiter                                                             *)

\* A step of the limiter that leaves everybody's slot alone.
LEMMA LimiterKeeps ==
    ASSUME Sane, NEW r \in [Callers -> Requests], req' = r, UNCHANGED <<inflight, queue>>,
           quota' \in [Buckets -> {"none", "spent", "expired"}],
           \A d \in Callers : /\ r[d].is \in Holding <=> req[d].is \in Holding
                              /\ r[d].is = "queued" <=> req[d].is = "queued"
                              /\ r[d].is = "idle" <=> req[d].is = "idle"
    PROVE  Sane' /\ \A d \in Callers : req[d].is = "idle" => req'[d].is = "idle"
BY OthersKeepSlots DEF Sane, LimiterTypes

\* Waking the sleepers of an endpoint is no matter of slots.
LEMMA OutdatedKeeps ==
    ASSUME LimiterTypes, NEW b
    PROVE  /\ Outdated(b) \in [Callers -> Requests]
           /\ \A d \in Callers :
                /\ Outdated(b)[d].is \in Holding <=> req[d].is \in Holding
                /\ Outdated(b)[d].is = "queued" <=> req[d].is = "queued"
                /\ Outdated(b)[d].is = "idle" <=> req[d].is = "idle"
                /\ req[d].is # "quota" => Outdated(b)[d] = req[d]
<1>1. ASSUME NEW d \in Callers
      PROVE  /\ Outdated(b)[d] \in Requests
             /\ Outdated(b)[d].is \in Holding <=> req[d].is \in Holding
             /\ Outdated(b)[d].is = "queued" <=> req[d].is = "queued"
             /\ Outdated(b)[d].is = "idle" <=> req[d].is = "idle"
             /\ req[d].is # "quota" => Outdated(b)[d] = req[d]
  <2>1. req[d] \in Requests
    BY DEF LimiterTypes
  <2>2. [req[d] EXCEPT !.is = "due"] \in Requests /\ [req[d] EXCEPT !.is = "due"].is = "due"
    BY <2>1 DEF Requests, Holding
  <2>3. CASE req[d].is = "quota" /\ req[d].bucket = b
    <3>1. Outdated(b)[d] = [req[d] EXCEPT !.is = "due"]
      BY <2>3 DEF Outdated
    <3> QED BY <2>2, <2>3, <3>1 DEF Holding
  <2>4. CASE ~(req[d].is = "quota" /\ req[d].bucket = b)
    <3>1. Outdated(b)[d] = req[d]
      BY <2>4 DEF Outdated
    <3> QED BY <2>1, <3>1
  <2> QED BY <2>3, <2>4
<1>2. \A d \in Callers : Outdated(b)[d] \in Requests
  BY <1>1
<1>3. Outdated(b) \in [Callers -> Requests]
  BY <1>2 DEF Outdated
<1> QED
  BY <1>1, <1>3

LEMMA LimiterPreserves ==
    ASSUME IInv, NEW c \in Callers, LimiterStep(c), UNCHANGED <<key, call>>
    PROVE  IInv'
<1>0. Sane /\ LimiterTypes /\ SlotsKept /\ KeyFirst /\ key \in BOOLEAN /\ call \in [Callers -> Calls]
  BY DEF IInv, TypeOK, Sane, LimiterTypes
<1>1. req[c] \in Requests
  BY <1>0 DEF LimiterTypes
<1>2. SUFFICES Sane' /\ \A d \in Callers : req[d].is = "idle" => req'[d].is = "idle"
  BY <1>0, <1>2 DEF IInv, TypeOK, KeyFirst, Sane, LimiterTypes
<1>3. ASSUME NEW is \in Holding, NEW old \in Holding, req[c].is = old,
             req' = [req EXCEPT ![c].is = is], UNCHANGED <<inflight, queue>>,
             quota' \in [Buckets -> {"none", "spent", "expired"}]
      PROVE  Sane' /\ \A d \in Callers : req[d].is = "idle" => req'[d].is = "idle"
  <2> DEFINE next == [req[c] EXCEPT !.is = is]
  <2>1. next \in Requests /\ next.is = is
    BY <1>1 DEF Requests
  <2>2. req' = [req EXCEPT ![c] = next]
    BY <1>0, <1>3 DEF LimiterTypes
  <2> HIDE DEF next
  <2>3. /\ req' \in [Callers -> Requests] /\ req'[c].is = is
        /\ \A d \in Callers \ {c} : req'[d] = req[d]
    BY <1>0, <2>1, <2>2 DEF LimiterTypes
  <2>4. \A d \in Callers : /\ req'[d].is \in Holding <=> req[d].is \in Holding
                           /\ req'[d].is = "queued" <=> req[d].is = "queued"
                           /\ req'[d].is = "idle" <=> req[d].is = "idle"
    BY <1>3, <2>3 DEF Holding
  <2> QED BY <1>0, <1>3, <2>3, <2>4, LimiterKeeps
<1>4. CASE CheckQuota(c)
  <2>1. quota' \in [Buckets -> {"none", "spent", "expired"}]
    BY <1>0, <1>4 DEF CheckQuota, LimiterTypes
  <2> QED BY <1>3, <1>4, <2>1 DEF CheckQuota, Holding
<1>5. CASE WakesUp(c)
  <2>1. quota' \in [Buckets -> {"none", "spent", "expired"}]
    BY <1>0, <1>5 DEF WakesUp, LimiterTypes
  <2> QED BY <1>3, <1>5, <2>1 DEF WakesUp, Holding
<1>6. CASE BackedOff(c)
  BY <1>0, <1>3, <1>6 DEF BackedOff, Holding, LimiterTypes
<1>7. ASSUME NEW got \in Answers, NEW hint \in Hints, Answered(c, got, hint)
      PROVE  Sane' /\ \A d \in Callers : req[d].is = "idle" => req'[d].is = "idle"
  <2> DEFINE b == req[c].bucket
             r == IF hint = "silent" THEN req ELSE Outdated(b)
  <2>1. /\ req[c].is = "sent"
        /\ UpdateFromHeaders(b, hint)
        /\ IF got \in {"ok", "refused"} THEN Release(c, r, got)
           ELSE IF req[c].attempt + 1 = MaxRetries THEN Release(c, r, "failed")
           ELSE /\ req' = [r EXCEPT ![c].is = "backoff", ![c].attempt = @ + 1]
                /\ UNCHANGED <<inflight, queue>>
    BY <1>7 DEF Answered
  <2>2. quota' \in [Buckets -> {"none", "spent", "expired"}]
    <3>1. CASE hint = "silent"
      BY <1>0, <2>1, <3>1 DEF UpdateFromHeaders, LimiterTypes
    <3>2. CASE hint = "free"
      BY <1>0, <2>1, <3>2 DEF UpdateFromHeaders, LimiterTypes
    <3>3. CASE hint = "spent"
      BY <1>0, <2>1, <3>3 DEF UpdateFromHeaders, LimiterTypes
    <3> QED BY <3>1, <3>2, <3>3 DEF Hints
  <2>3. /\ r \in [Callers -> Requests] /\ r[c] = req[c]
        /\ \A d \in Callers : /\ r[d].is \in Holding <=> req[d].is \in Holding
                              /\ r[d].is = "queued" <=> req[d].is = "queued"
                              /\ r[d].is = "idle" <=> req[d].is = "idle"
    <3>1. CASE hint = "silent"
      BY <1>0, <3>1 DEF LimiterTypes
    <3>2. CASE hint # "silent"
      BY <1>0, <2>1, <3>2, OutdatedKeeps
    <3> QED BY <3>1, <3>2
  <2> HIDE DEF r, b
  <2>4. CASE \E answer \in {"ok", "refused", "failed"} : Release(c, r, answer)
    BY <1>0, <2>1, <2>2, <2>3, <2>4, ReleaseGives
  <2>5. CASE /\ req[c].attempt + 1 # MaxRetries
             /\ req' = [r EXCEPT ![c].is = "backoff", ![c].attempt = @ + 1]
             /\ UNCHANGED <<inflight, queue>>
    <3> DEFINE next == [req[c] EXCEPT !.is = "backoff", !.attempt = req[c].attempt + 1]
    <3>1. req[c].attempt + 1 \in 0 .. MaxRetries - 1
      BY <1>1, <2>5, LimiterAssumption DEF Requests
    <3>2. next \in Requests /\ next.is = "backoff"
      BY <1>1, <3>1 DEF Requests, Holding
    <3>3. req' = [r EXCEPT ![c] = next]
      BY <2>3, <2>5
    <3> HIDE DEF next
    <3>4. /\ req' \in [Callers -> Requests] /\ req'[c].is = "backoff"
          /\ \A d \in Callers \ {c} : req'[d] = r[d]
      BY <2>3, <3>2, <3>3
    <3>5. \A d \in Callers : /\ req'[d].is \in Holding <=> req[d].is \in Holding
                             /\ req'[d].is = "queued" <=> req[d].is = "queued"
                             /\ req'[d].is = "idle" <=> req[d].is = "idle"
      BY <2>1, <2>3, <3>4 DEF Holding
    <3> QED BY <1>0, <2>2, <2>5, <3>4, <3>5, LimiterKeeps
  <2> QED BY <2>1, <2>4, <2>5
<1> QED
  BY <1>4, <1>5, <1>6, <1>7 DEF LimiterStep

LEMMA ResetPreserves ==
    ASSUME IInv, NEW b \in Buckets, QuotaResets(b), UNCHANGED <<key, call>>
    PROVE  IInv'
<1>0. Sane /\ LimiterTypes /\ SlotsKept /\ KeyFirst /\ key \in BOOLEAN /\ call \in [Callers -> Calls]
  BY DEF IInv, TypeOK, Sane, LimiterTypes
<1>1. /\ quota' \in [Buckets -> {"none", "spent", "expired"}]
      /\ req' = Outdated(b) /\ UNCHANGED <<inflight, queue>>
  BY <1>0 DEF QuotaResets, LimiterTypes
<1>2. Sane' /\ \A d \in Callers : req[d].is = "idle" => req'[d].is = "idle"
  BY <1>0, <1>1, OutdatedKeeps, LimiterKeeps
<1> QED
  BY <1>0, <1>2 DEF IInv, TypeOK, KeyFirst, Sane, LimiterTypes

-----------------------------------------------------------------------------
(* The calls                                                               *)

\* A step of c's call changes that call only, and it never asks for the key again.
Moves(c) ==
    /\ call' \in [Callers -> Calls] /\ key' \in BOOLEAN
    /\ call'[c].step # "key" /\ \A d \in Callers \ {c} : call'[d] = call[d]

LEMMA CallMoves ==
    ASSUME TypeOK, NEW c \in Callers, NEW next \in Calls, next.step # "key",
           call' = [call EXCEPT ![c] = next], key' \in BOOLEAN
    PROVE  Moves(c)
BY DEF TypeOK, Moves

LEMMA EndMoves ==
    ASSUME TypeOK, NEW c \in Callers, NEW result \in {"ok", "failed"},
           End(c, result), key' \in BOOLEAN
    PROVE  Moves(c)
<1> DEFINE told == IF call[c].result = "none" THEN result ELSE call[c].result
           next == [call[c] EXCEPT !.step = "end", !.result = told]
<1>1. call[c] \in Calls
  BY DEF TypeOK
<1>2. told \in {"none", "ok", "failed", "timeout"}
  BY <1>1 DEF Calls
<1>3. call' = [call EXCEPT ![c] = next]
  BY DEF End, TypeOK
<1> HIDE DEF told
<1>4. next \in Calls /\ next.step = "end"
  BY <1>1, <1>2 DEF Calls
<1> HIDE DEF next
<1> QED
  BY <1>3, <1>4, CallMoves

\* The next request of a call whose last one is over.
LEMMA AskingPreserves ==
    ASSUME IInv, NEW c \in Callers, NEW step \in Endpoints, Moves(c),
           req[c].is \in {"idle", "answered"}, Fetch(c, step)
    PROVE  IInv'
<1>1. Sane /\ KeyFirst
  BY DEF IInv, TypeOK, Sane, LimiterTypes
<1>2. Sane' /\ \A d \in Callers \ {c} : req'[d] = req[d]
  BY <1>1, FetchTakes, OpenCloudAssumption
<1> QED
  BY <1>1, <1>2 DEF IInv, TypeOK, KeyFirst, Sane, LimiterTypes, Moves

\* A call that sleeps or ends forgets its answer.
LEMMA ForgettingPreserves ==
    ASSUME IInv, NEW c \in Callers, Moves(c), req[c].is = "answered", Forget(c)
    PROVE  IInv'
<1>1. Sane /\ KeyFirst /\ LimiterTypes /\ SlotsKept
  BY DEF IInv, TypeOK, Sane, LimiterTypes
<1>2. Idle \in Requests /\ Idle.is = "idle"
  BY LimiterAssumption DEF Idle, Requests
<1>3. /\ req' \in [Callers -> Requests] /\ req'[c].is = "idle"
      /\ \A d \in Callers \ {c} : req'[d] = req[d]
      /\ UNCHANGED <<inflight, queue, quota>>
  BY <1>1, <1>2 DEF Forget, LimiterTypes
<1>4. \A d \in Callers : /\ req'[d].is \in Holding <=> req[d].is \in Holding
                         /\ req'[d].is = "queued" <=> req[d].is = "queued"
  BY <1>3 DEF Holding
<1>5. SlotsKept'
  BY <1>1, <1>3, <1>4, OthersKeepSlots
<1> QED
  BY <1>1, <1>3, <1>5 DEF IInv, TypeOK, KeyFirst, LimiterTypes, Moves

\* A step without a request.
LEMMA ElsewherePreserves ==
    ASSUME IInv, NEW c \in Callers, Moves(c), UNCHANGED limiterVars
    PROVE  IInv'
<1>1. SlotsKept'
  BY DEF IInv, SlotsKept, Holders, limiterVars
<1> QED
  BY <1>1 DEF IInv, TypeOK, KeyFirst, Moves, limiterVars

LEMMA EndingPreserves ==
    ASSUME IInv, NEW c \in Callers, NEW result \in {"ok", "failed"}, key' = key,
           req[c].is = "answered", EndsWith(c, result)
    PROVE  IInv'
<1>1. Moves(c)
  BY EndMoves DEF EndsWith, IInv, TypeOK
<1> QED
  BY <1>1, ForgettingPreserves DEF EndsWith

\* Each step of a call asks when it may, forgets what it has read, or does neither.
LEMMA CallPreserves ==
    ASSUME IInv, NEW c \in Callers, CallStep(c) \/ TimesOut(c)
    PROVE  IInv'
<1>0. TypeOK /\ KeyFirst /\ call[c] \in Calls 
      /\ call[c].page + 1 \in Nat /\ call[c].tries + 1 \in Nat
  <2>1. TypeOK /\ KeyFirst /\ call[c] \in Calls
    BY DEF IInv, TypeOK
  <2>2. call[c].page \in Nat /\ call[c].tries \in Nat
    BY <2>1 DEF Calls
  <2> QED BY <2>1, <2>2
<1>1. ASSUME NEW step \in Endpoints, NEW new \in Endpoints, NEW ok, Answer(c, step, ok), Asks(c, new)
      PROVE  IInv'
  <2> DEFINE next == [call[c] EXCEPT !.step = new]
  <2>1. call' = [call EXCEPT ![c] = next] /\ Fetch(c, new)
    BY <1>0, <1>1 DEF Asks, TypeOK
  <2>2. next \in Calls /\ next.step # "key"
    BY <1>0 DEF Calls, Endpoints
  <2>3. key' \in BOOLEAN /\ req[c].is = "answered"
    BY <1>0, <1>1 DEF Answer, TypeOK
  <2> HIDE DEF next
  <2>4. Moves(c)
    BY <1>0, <2>1, <2>2, <2>3, CallMoves
  <2> QED BY <2>1, <2>3, <2>4, AskingPreserves
<1>2. ASSUME NEW step \in Endpoints, NEW ok, Answer(c, step, ok),
             call' = [call EXCEPT ![c].page = @ + 1], Fetch(c, step)
      PROVE  IInv'
  <2> DEFINE next == [call[c] EXCEPT !.page = call[c].page + 1]
  <2>1. call' = [call EXCEPT ![c] = next]
    BY <1>0, <1>2 DEF TypeOK
  <2>2. next \in Calls /\ next.step # "key"
    <3>1. call[c].step = step /\ step # "key"
      BY <1>2 DEF Answer, Endpoints
    <3> QED BY <1>0, <3>1 DEF Calls
  <2>3. key' \in BOOLEAN /\ req[c].is = "answered"
    BY <1>0, <1>2 DEF Answer, TypeOK
  <2> HIDE DEF next
  <2>4. Moves(c)
    BY <1>0, <2>1, <2>2, <2>3, CallMoves
  <2> QED BY <1>2, <2>3, <2>4, AskingPreserves
<1>3. ASSUME NEW step \in Endpoints, NEW ok, Answer(c, step, ok),
             NEW next \in Calls, next.step # "key", SleepsFor(c, next)
      PROVE  IInv'
  <2>1. key' \in BOOLEAN /\ req[c].is = "answered"
    BY <1>0, <1>3 DEF Answer, TypeOK
  <2>2. Moves(c)
    BY <1>0, <1>3, <2>1, CallMoves DEF SleepsFor
  <2> QED BY <1>3, <2>1, <2>2, ForgettingPreserves DEF SleepsFor
<1>4. ASSUME NEW step \in Endpoints, NEW ok, Answer(c, step, ok),
             NEW result \in {"ok", "failed"}, EndsWith(c, result)
      PROVE  IInv'
  BY <1>4, EndingPreserves DEF Answer
<1>5. ASSUME NEW result \in {"ok", "failed"}, End(c, result), UNCHANGED limiterVars, key' \in BOOLEAN
      PROVE  IInv'
  BY <1>0, <1>5, EndMoves, ElsewherePreserves
<1>6. \A step \in Endpoints : step # "key"
  BY DEF Endpoints
<1>7. CASE ResolveKey(c)
  <2>1. call[c].step = "key" /\ req[c].is = "idle"
    BY <1>0, <1>7 DEF ResolveKey, KeyFirst
  <2>2. CASE key' = TRUE /\ Asks(c, FirstStep(call[c].kind))
    <3> DEFINE new == FirstStep(call[c].kind)
               next == [call[c] EXCEPT !.step = new]
    <3>1. new \in Endpoints
      BY <1>0 DEF FirstStep, Endpoints, Calls, AllKinds
    <3>2. call' = [call EXCEPT ![c] = next] /\ Fetch(c, new) /\ key' \in BOOLEAN
      BY <1>0, <2>2 DEF Asks, TypeOK
    <3> HIDE DEF new
    <3>3. next \in Calls /\ next.step # "key"
      BY <1>0, <3>1 DEF Calls, Endpoints
    <3> HIDE DEF next
    <3>4. Moves(c)
      BY <1>0, <3>2, <3>3, CallMoves
    <3> QED BY <2>1, <3>1, <3>2, <3>4, AskingPreserves
  <2>3. CASE key' \in BOOLEAN /\ End(c, "failed") /\ UNCHANGED limiterVars
    BY <1>5, <2>3
  <2> QED BY <1>0, <1>7, <2>2, <2>3 DEF ResolveKey, TypeOK
<1>8. CASE Refused(c)
  BY <1>4, <1>8 DEF Refused
<1>9. CASE Uploaded(c) \/ LookedUp(c)
  BY <1>4, <1>9 DEF Uploaded, LookedUp, Endpoints
<1>10. CASE Created(c)
  BY <1>1, <1>10 DEF Created, Endpoints
<1>11. CASE Polled(c)
  <2>1. call[c].step = "poll" /\ "poll" \in Endpoints /\ "logs" \in Endpoints /\ Answer(c, "poll", TRUE)
    BY <1>11 DEF Polled, Answer, Endpoints
  <2>2. CASE SleepsFor(c, call[c])
    BY <1>0, <1>3, <2>1, <2>2
  <2>3. CASE Asks(c, "logs")
    BY <1>1, <2>1, <2>3
  <2>4. CASE EndsWith(c, "ok")
    BY <1>4, <2>1, <2>4
  <2> QED BY <1>11, <2>2, <2>3, <2>4 DEF Polled
<1>12. CASE GotLogs(c)
  <2>1. "logs" \in Endpoints /\ Answer(c, "logs", TRUE) /\ call[c].step = "logs"
    BY <1>12 DEF GotLogs, Answer, Endpoints
  <2>2. CASE call' = [call EXCEPT ![c].page = @ + 1] /\ Fetch(c, "logs")
    BY <1>0, <1>2, <2>1, <2>2
  <2>3. CASE EndsWith(c, "ok")
    BY <1>4, <2>1, <2>3
  <2>4. CASE SleepsFor(c, [call[c] EXCEPT !.tries = @ + 1, !.page = 0])
    <3> DEFINE next == [call[c] EXCEPT !.tries = call[c].tries + 1, !.page = 0]
    <3>1. next \in Calls /\ next.step # "key"
      BY <1>0, <2>1 DEF Calls
    <3>2. SleepsFor(c, next)
      BY <2>4
    <3> HIDE DEF next
    <3> QED BY <1>3, <2>1, <3>1, <3>2
  <2> QED BY <1>12, <2>2, <2>3, <2>4 DEF GotLogs
<1>13. CASE Located(c)
  <2>1. "delivery" \in Endpoints /\ Answer(c, "delivery", TRUE)
    BY <1>13 DEF Located, Endpoints
  <2>2. CASE EndsWith(c, "failed")
    BY <1>4, <2>1, <2>2
  <2>3. CASE SleepsFor(c, [call[c] EXCEPT !.step = "cdn"])
    <3> DEFINE next == [call[c] EXCEPT !.step = "cdn"]
    <3>1. next \in Calls /\ next.step # "key"
      BY <1>0 DEF Calls
    <3>2. SleepsFor(c, next)
      BY <2>3
    <3> HIDE DEF next
    <3> QED BY <1>3, <2>1, <3>1, <3>2
  <2> QED BY <1>13, <2>2, <2>3 DEF Located
<1>14. CASE CdnAnswers(c)
  <2>1. call[c].step = "cdn" /\ UNCHANGED limiterVars /\ key' \in BOOLEAN
    BY <1>0, <1>14 DEF CdnAnswers, TypeOK
  <2>2. CASE End(c, "ok") \/ End(c, "failed")
    BY <1>5, <2>1, <2>2
  <2>3. CASE call' = [call EXCEPT ![c].tries = @ + 1]
    <3> DEFINE next == [call[c] EXCEPT !.tries = call[c].tries + 1]
    <3>1. next \in Calls /\ next.step # "key"
      BY <1>0, <2>1 DEF Calls
    <3>2. call' = [call EXCEPT ![c] = next]
      BY <1>0, <2>3 DEF TypeOK
    <3> HIDE DEF next
    <3> QED BY <1>0, <2>1, <3>1, <3>2, CallMoves, ElsewherePreserves
  <2> QED BY <1>14, <2>2, <2>3 DEF CdnAnswers
<1>15. CASE Scanned(c)
  <2>1. "scan" \in Endpoints /\ Answer(c, "scan", TRUE)
    BY <1>15 DEF Scanned, Endpoints
  <2>2. CASE \E result \in {"ok", "failed"} : EndsWith(c, result)
    BY <1>4, <2>1, <2>2
  <2>3. CASE call' = [call EXCEPT ![c].page = @ + 1] /\ Fetch(c, "scan")
    BY <1>0, <1>2, <2>1, <2>3
  <2> QED BY <1>15, <2>2, <2>3 DEF Scanned
<1>16. CASE AssetSent(c) \/ AssetPolled(c)
  <2>1. PICK step \in Endpoints : Answer(c, step, TRUE) /\ Imported(c)
    BY <1>16 DEF AssetSent, AssetPolled, Endpoints
  <2>2. CASE \E result \in {"ok", "failed"} : EndsWith(c, result)
    BY <1>4, <2>1, <2>2
  <2>3. CASE SleepsFor(c, [call[c] EXCEPT !.step = "pollAsset", !.tries = @ + 1])
    <3> DEFINE next == [call[c] EXCEPT !.step = "pollAsset", !.tries = call[c].tries + 1]
    <3>1. "pollAsset" \in Endpoints /\ call[c].tries + 1 \in Nat
      BY <1>0 DEF Endpoints
    <3>2. next \in Calls /\ next.step # "key"
      BY <1>0, <3>1 DEF Calls, Endpoints
    <3>3. SleepsFor(c, next)
      BY <2>3
    <3> HIDE DEF next
    <3> QED BY <1>3, <2>1, <3>2, <3>3
  <2> QED BY <2>1, <2>2, <2>3 DEF Imported
<1>17. CASE Slept(c)
  <2>1. /\ call[c].step \in Endpoints /\ req[c].is = "idle" /\ Fetch(c, call[c].step)
        /\ UNCHANGED <<key, call>>
    BY <1>17 DEF Slept, Endpoints, Idle
  <2>2. Moves(c)
    BY <1>0, <1>6, <2>1 DEF Moves, TypeOK
  <2> QED BY <2>1, <2>2, AskingPreserves
<1>18. CASE TimesOut(c)
  <2> DEFINE next == [call[c] EXCEPT !.result = "timeout"]
  <2>1. call[c].step = "poll" /\ UNCHANGED <<limiterVars, key>> /\ call' = [call EXCEPT ![c] = next]
    BY <1>0, <1>18 DEF TimesOut, TypeOK
  <2>2. next \in Calls /\ next.step = call[c].step
    BY <1>0 DEF Calls
  <2> HIDE DEF next
  <2>3. key' \in BOOLEAN
    BY <1>0, <2>1 DEF TypeOK
  <2> QED BY <1>0, <2>1, <2>2, <2>3, CallMoves, ElsewherePreserves
<1> QED
  BY <1>7, <1>8, <1>9, <1>10, <1>11, <1>12, <1>13, <1>14, <1>15, <1>16, <1>17, <1>18 DEF CallStep

-----------------------------------------------------------------------------
LEMMA InitEstablishes == Init => IInv
<1> SUFFICES ASSUME Init PROVE IInv
  OBVIOUS
<1>1. /\ inflight = 0 /\ queue = <<>> /\ req = [c \in Callers |-> Idle]
      /\ quota = [b \in Buckets |-> "none"] /\ key = FALSE
  BY DEF Init, LimiterInit
<1>2. Idle \in Requests /\ Idle.is = "idle"
  BY LimiterAssumption DEF Idle, Requests
<1>3. call \in [Callers -> Calls]
  <2>1. PICK kind \in [Callers -> AllKinds] : call = [c \in Callers |-> Called(kind[c])]
    BY DEF Init
  <2>2. \A k \in AllKinds : Called(k) \in Calls
    BY DEF Called, Calls
  <2> QED BY <2>1, <2>2
<1>4. TypeOK
  <2>1. inflight \in 0 .. MaxConcurrency /\ queue \in Seq(Callers)
    BY <1>1, LimiterAssumption
  <2> QED BY <1>1, <1>2, <1>3, <2>1 DEF TypeOK
<1>5. Holders = {}
  BY <1>1, <1>2 DEF Holders, Holding
<1>6. SlotsKept
  <2>1. inflight = Cardinality(Holders) /\ inflight <= MaxConcurrency
    BY <1>1, <1>5, FS_EmptySet, LimiterAssumption
  <2>2. \A c \in Callers : req[c].is # "queued"
    BY <1>1, <1>2
  <2>3. DOMAIN queue = {}
    BY <1>1
  <2> QED BY <1>1, <2>1, <2>2, <2>3 DEF SlotsKept
<1>7. KeyFirst
  BY <1>1, <1>2 DEF KeyFirst
<1> QED
  BY <1>4, <1>6, <1>7 DEF IInv

LEMMA InvariantIsInductive == IInv /\ [Next]_vars => IInv'
<1> SUFFICES ASSUME IInv, [Next]_vars PROVE IInv'
  OBVIOUS
<1>1. CASE \E c \in Callers : CallStep(c) \/ TimesOut(c)
  BY <1>1, CallPreserves
<1>2. CASE \E c \in Callers : LimiterStep(c) /\ UNCHANGED <<key, call>>
  BY <1>2, LimiterPreserves
<1>3. CASE \E b \in Buckets : QuotaResets(b) /\ UNCHANGED <<key, call>>
  BY <1>3, ResetPreserves
<1>4. CASE UNCHANGED vars
  BY <1>4 DEF IInv, TypeOK, KeyFirst, SlotsKept, Holders, vars, limiterVars
<1> QED
  BY <1>1, <1>2, <1>3, <1>4 DEF Next

LEMMA Invariance == Spec => []IInv
BY InitEstablishes, InvariantIsInductive, PTL DEF Spec

\* Every variable keeps its type: no more slots are taken than there are, no request
\* is sent more often than MaxRetries, and only callers queue.
THEOREM CloudTypeCorrect == Spec => []TypeOK
<1>1. IInv => TypeOK
  BY DEF IInv
<1> QED
  BY <1>1, Invariance, PTL

\* The limiter neither loses nor doubles a slot, and never lets anybody wait while one
\* is free, whichever calls its callers chain and whichever quotas they sleep for.
THEOREM SlotsAreKept == Spec => []SlotsKept
<1>1. IInv => SlotsKept
  BY DEF IInv
<1> QED
  BY <1>1, Invariance, PTL

-----------------------------------------------------------------------------
(* Versions. What holds of neighbours in a history holds of any two entries *)
(* because there would be a first entry for which it does not.              *)

\* A set of numbers has a least one.
LEMMA LeastOf ==
    ASSUME NEW S \in SUBSET Nat, S # {}
    PROVE  Min(S) \in S /\ \A n \in S : Min(S) <= n
<1>1. PICK least \in S : \A n \in S : <<n, least>> \notin OpToRel(<, Nat)
  BY WFMin, NatLessThanWellFounded, Zenon
<1>2. \A n \in S : ~ (n < least)
  BY <1>1, Zenon DEF OpToRel
<1>3. \A n \in S : least <= n
  BY <1>2
<1> QED
  BY <1>3 DEF Min

\* What the elements of a history are.
LEMMA NumbersAreInts ==
    ASSUME NEW history \in Seq(Version), NEW n \in DOMAIN history
    PROVE  history[n].number \in Int
<1>1. history[n] \in Version
  OBVIOUS
<1> QED
  BY <1>1, Zenon DEF Version

\* The order of neighbours is the order of all.
LEMMA NeighboursDecide ==
    ASSUME NEW read \in Seq(Version), IsSound(read),
           NEW i \in DOMAIN read, NEW j \in DOMAIN read, i < j
    PROVE  read[j].number < read[i].number
<1> DEFINE Wrong == {n \in DOMAIN read : i < n /\ ~ (read[n].number < read[i].number)}
           k == Min(Wrong)
<1> SUFFICES ASSUME Wrong # {} PROVE FALSE
  OBVIOUS
<1>1. k \in Wrong /\ \A n \in Wrong : k <= n
  <2>1. Wrong \in SUBSET Nat
    OBVIOUS
  <2> QED
    BY <2>1, LeastOf
<1> HIDE DEF k
<1>2. k - 1 \in 1 .. Len(read) - 1 /\ k - 1 \in DOMAIN read /\ (k - 1) + 1 = k
  BY <1>1
<1>3. read[k].number < read[k - 1].number
  BY <1>2 DEF IsSound
<1>4. \A n \in DOMAIN read : read[n].number \in Int
  BY NumbersAreInts
<1>5. k - 1 \notin Wrong
  BY <1>1, <1>2
<1>6. k \in Nat /\ i < k /\ ~ (read[k].number < read[i].number)
  BY <1>1
<1>7. CASE k - 1 = i
  BY <1>3, <1>6, <1>7
<1>8. CASE k - 1 # i
  <2>1. i < k - 1
    BY <1>6, <1>8
  <2>2. read[k - 1].number < read[i].number
    BY <1>2, <1>5, <2>1
  <2> QED
    BY <1>2, <1>3, <1>4, <1>6, <2>2
<1> QED
  BY <1>7, <1>8

\* The page that holds an entry ends no earlier than the entry.
LEMMA PageHolds ==
    ASSUME NEW n \in Nat \ {0}, NEW size \in Nat \ {0}
    PROVE  LET pages == (n + size - 1) \div size
           IN pages \in Nat /\ size * pages >= n
<1> DEFINE pages == (n + size - 1) \div size
           rest == (n + size - 1) % size
<1>1. pages \in Int /\ rest \in 0 .. size - 1 /\ n + size - 1 = size * pages + rest
  OBVIOUS
<1>2. pages >= 0
  OBVIOUS
<1> QED
  BY <1>1, <1>2

\* The scan reads whole pages of what is there, and no more pages than it may.
LEMMA ReadWithin ==
    ASSUME NEW history \in Seq(Version), NEW type
    PROVE  /\ ReadLength(history, type) \in 0 .. Len(history)
           /\ ReadLength(history, type) <= PageSize * ScanPages
<1> DEFINE kind == {i \in DOMAIN history : Matches(history[i], type)}
           pages == IF kind = {} THEN ScanPages ELSE (Min(kind) + PageSize - 1) \div PageSize
           least == Min({pages, ScanPages})
           size == PageSize * least
           length == Min({Len(history), size})
<1>1. pages \in Nat
  <2>1. CASE kind = {}
    BY <2>1, ScanAssumption
  <2>2. CASE kind # {}
    <3>1. kind \in SUBSET (Nat \ {0})
      OBVIOUS
    <3>2. Min(kind) \in Nat \ {0}
      BY <2>2, <3>1, LeastOf
    <3> QED
      BY <2>2, <3>2, PageHolds, ScanAssumption
  <2> QED
    BY <2>1, <2>2
<1> HIDE DEF pages
<1>2. least \in Nat /\ least <= ScanPages
  <2>1. {pages, ScanPages} \in SUBSET Nat
    BY <1>1, ScanAssumption
  <2> QED
    BY <2>1, LeastOf
<1> HIDE DEF least
<1>3. size \in Nat /\ size <= PageSize * ScanPages
  BY <1>2, ScanAssumption
<1> HIDE DEF size
<1>4. length \in Nat /\ length <= Len(history) /\ length <= size
  <2>1. {Len(history), size} \in SUBSET Nat
    BY <1>3
  <2> QED
    BY <2>1, LeastOf
<1> HIDE DEF length
<1>5. ReadLength(history, type) = length
  BY DEF ReadLength, length, size, least, pages
<1>6. PageSize * ScanPages \in Nat
  BY ScanAssumption
<1> QED
  BY <1>3, <1>4, <1>5, <1>6

\* The scan reads as far as the first match that is within its pages.
LEMMA ReadsToMatch ==
    ASSUME NEW history \in Seq(Version), NEW type, NEW match \in DOMAIN history,
           Matches(history[match], type), match <= PageSize * ScanPages
    PROVE  \E i \in 1 .. ReadLength(history, type) : Matches(history[i], type)
<1> DEFINE kind == {i \in DOMAIN history : Matches(history[i], type)}
           n == Min(kind)
           pages == (n + PageSize - 1) \div PageSize
           least == Min({pages, ScanPages})
           size == PageSize * least
<1>1. n \in kind /\ \A i \in kind : n <= i
  <2>1. kind \in SUBSET Nat /\ kind # {}
    OBVIOUS
  <2> QED
    BY <2>1, LeastOf
<1>2. n \in Nat \ {0} /\ n <= match /\ n <= Len(history) /\ Matches(history[n], type)
  BY <1>1
<1> HIDE DEF n
<1>3. pages \in Nat /\ PageSize * pages >= n
  BY <1>2, PageHolds, ScanAssumption
<1> HIDE DEF pages
<1>4. least \in {pages, ScanPages}
  BY <1>3, LeastOf, ScanAssumption
<1> HIDE DEF least
<1>5. size \in Nat /\ n <= size
  BY <1>2, <1>3, <1>4, ScanAssumption
<1> HIDE DEF size
<1>6. ReadLength(history, type) = Min({Len(history), size})
  BY <1>1 DEF ReadLength, n, pages, least, size
<1>7. Min({Len(history), size}) \in {Len(history), size}
  <2>1. {Len(history), size} \in SUBSET Nat
    BY <1>5
  <2> QED
    BY <2>1, LeastOf
<1>8. n \in 1 .. ReadLength(history, type)
  BY <1>2, <1>5, <1>6, <1>7
<1> QED
  BY <1>2, <1>8

\* The scan of one history, whatever its length and the size of a page: it answers with
\* the newest of the kind of all it read, and finds it when the service lists in order.
LEMMA ScanFindsNewest ==
    ASSUME NEW history \in Histories, NEW type
    PROVE  LET found == ResolveLatest(history, type)
               kind == {i \in DOMAIN history : Matches(history[i], type)}
           IN /\ found # Failed => \A i \in 1 .. ReadLength(history, type) :
                                      Matches(history[i], type) => history[i].number <= found
              /\ NewestFirst(history) =>
                  IF \A i \in kind : i > PageSize * ScanPages THEN found = Failed
                  ELSE /\ found \in {history[i].number : i \in kind}
                       /\ \A i \in kind : history[i].number <= found
<1> DEFINE length == ReadLength(history, type)
           read == SubSeq(history, 1, length)
           matches == {i \in DOMAIN read : Matches(read[i], type)}
           kind == {i \in DOMAIN history : Matches(history[i], type)}
           first == Min(matches)
           found == ResolveLatest(history, type)
<1>1. history \in Seq(Version)
  BY ScanAssumption
<1>2. length \in 0 .. Len(history)
  BY <1>1, ReadWithin
<1> HIDE DEF length
<1>3. /\ read \in Seq(Version) /\ DOMAIN read = 1 .. length
      /\ \A i \in 1 .. length : read[i] = history[i]
  BY <1>1, <1>2
<1>4. \A i \in DOMAIN history : history[i].number \in Int
  BY <1>1, NumbersAreInts
<1> HIDE DEF read
<1>5. found = IF matches # {} /\ IsSound(read) THEN read[first].number ELSE Failed
  BY DEF ResolveLatest, read, length
<1>6. ASSUME matches # {}
      PROVE  first \in matches /\ \A i \in matches : first <= i
  <2>1. matches \in SUBSET Nat
    BY <1>3
  <2> QED
    BY <1>6, <2>1, LeastOf
<1> HIDE DEF first, found
<1>7. ASSUME found # Failed, NEW i \in 1 .. length, Matches(history[i], type)
      PROVE  history[i].number <= found
  <2>1. matches # {} /\ IsSound(read) /\ found = read[first].number
    BY <1>5, <1>7
  <2>2. first \in DOMAIN read /\ first <= i /\ i \in DOMAIN read
    BY <1>3, <1>6, <1>7, <2>1
  <2>3. first = i \/ first < i
    BY <1>3, <2>2
  <2>4. CASE first = i
    BY <1>2, <1>3, <1>4, <2>1, <2>4
  <2>5. CASE first < i
    <3>1. read[i].number < read[first].number
      BY <1>3, <2>1, <2>2, <2>5, NeighboursDecide
    <3>2. read[i].number \in Int /\ read[first].number \in Int
      BY <1>3, <2>2, NumbersAreInts
    <3> QED
      BY <1>3, <1>7, <2>1, <3>1, <3>2
  <2> QED
    BY <2>3, <2>4, <2>5
<1>8. ASSUME NewestFirst(history), \A i \in kind : i > PageSize * ScanPages
      PROVE  found = Failed
  <2>1. ASSUME matches # {} PROVE FALSE
    <3>1. first \in kind /\ first <= length
      BY <1>1, <1>2, <1>3, <1>6, <2>1
    <3>2. length <= PageSize * ScanPages
      BY <1>1, <3>1, ReadWithin DEF length
    <3> QED
      BY <1>1, <1>2, <1>8, <3>1, <3>2, ScanAssumption
  <2> QED
    BY <1>5, <2>1
<1>9. ASSUME NewestFirst(history), NEW match \in kind, ~ (match > PageSize * ScanPages)
      PROVE  /\ found \in {history[i].number : i \in kind}
             /\ \A i \in kind : history[i].number <= found
  <2>1. matches # {}
    <3>1. match <= PageSize * ScanPages
      BY <1>1, <1>9, ScanAssumption
    <3>2. PICK i \in 1 .. length : Matches(history[i], type)
      BY <1>1, <1>9, <3>1, ReadsToMatch DEF length
    <3> QED
      BY <1>3, <3>2
  <2>2. IsSound(read)
    <3>1. \A i \in DOMAIN read : i \in DOMAIN history /\ read[i] = history[i]
      BY <1>1, <1>2, <1>3
    <3>2. Len(read) = length
      BY <1>2, <1>3
    <3>3. \A i \in 1 .. Len(read) - 1 : i \in DOMAIN read /\ i + 1 \in DOMAIN read /\ i < i + 1
      BY <1>2, <1>3, <3>2
    <3> QED
      BY <1>9, <3>1, <3>3 DEF IsSound, NewestFirst
  <2>3. found = read[first].number
    BY <1>5, <2>1, <2>2
  <2>4. first \in kind /\ first <= length /\ found = history[first].number
    BY <1>1, <1>2, <1>3, <1>6, <2>1, <2>3
  <2>5. ASSUME NEW i \in kind PROVE history[i].number <= found
    <3>1. CASE i < first
      <4>1. i \in matches
        BY <1>1, <1>2, <1>3, <2>4, <3>1
      <4> QED
        BY <1>1, <1>6, <2>1, <2>4, <3>1, <4>1
    <3>2. CASE i = first
      BY <1>4, <2>4, <3>2
    <3>3. CASE first < i
      <4>1. history[i].number < history[first].number
        BY <1>9, <2>4, <3>3 DEF NewestFirst
      <4> QED
        BY <1>4, <2>4, <4>1
    <3> QED
      BY <1>1, <2>4, <3>1, <3>2, <3>3
  <2> QED
    BY <2>4, <2>5
<1> QED
  BY <1>7, <1>8, <1>9 DEF found, length

\* A version that resolveLatestPlaceVersionAsync resolves is the newest of its kind among
\* all that were read, for every set of histories and every size and number of pages;
\* a history that is in order resolves, unless none of the kind is within the pages.
THEOREM ResolvesNewest == Spec => []NewestVersion
<1>1. NewestVersion
  BY ScanFindsNewest DEF NewestVersion
<1> QED
  BY <1>1, PTL
=============================================================================
