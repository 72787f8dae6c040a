--------------------------- MODULE WatchLoopProofs ---------------------------
(* What the loop of `deploy run --watch` records as built was shipped, for *)
(* any base places, moves, failures and queues, as long as no pass begins  *)
(* beside another. The argument: every token the client holds is of a      *)
(* version that existed when the frame was sent, and versions only grow; a *)
(* handler remembers a version of its own place, not older than its token  *)
(* and than what was built; and a pass resolves every base place when it   *)
(* begins, so alone it ships no less than was shipped before and than the  *)
(* version it was started for.                                             *)
EXTENDS WatchLoop, TLAPS

\* The records of one place, against its versions.
Recorded(e) ==
    /\ seen[e] <= head[e] /\ shipped[e] <= head[e]
    /\ watch[e].settledAt <= watch[e].built /\ watch[e].built <= head[e]

Deployed(e) ==
    /\ None < watch[e].built /\ None < polled[e]
    /\ ~overlapped => watch[e].built <= shipped[e] /\ polled[e] <= shipped[e]

Records == (\A e \in Entries : Recorded(e)) /\ (\A e \in targets : Deployed(e))

\* Tokens on their way are of versions that exist.
Exists(w) == w.token <= head[w.name]
Tokens ==
    /\ \A i \in 1 .. Len(tail) : \A w \in tail[i].watches : Exists(w)
    /\ \A r \in Runners : \A w \in job[r].todo : Exists(w)

\* What a handler or the poll has found, and what a pass builds from.
Found(r) ==
    job[r].is \in {"found", "building"} =>
        /\ job[r].watch.token <= job[r].latest
        /\ r = "handler" => watch[job[r].watch.name].built <= job[r].latest
        /\ job[r].latest <= head[job[r].watch.name]
Resolved(r) ==
    job[r].is = "building" =>
        /\ job[r].latest <= job[r].from[job[r].watch.name]
        /\ \A e \in Entries : /\ job[r].from[e] <= head[e]
                              /\ overlapped \/ shipped[e] <= job[r].from[e]

\* Two passes at a time have overlapped.
Overlaps ==
    job["handler"].is = "building" /\ job["poll"].is = "building" => overlapped

IInv ==
    /\ TypeOK /\ Records /\ Tokens /\ Overlaps
    /\ \A r \in Runners : Found(r) /\ Resolved(r)

-----------------------------------------------------------------------------
(* Kinds of jobs, and marks on watches.                                    *)

WatchTypes == [Entries -> [built : Nat, settledAt : Nat, unreadable : BOOLEAN]]

\* A job is what its kind says.
LEMMA JobKinds ==
    ASSUME NEW j \in Jobs
    PROVE  /\ j.todo \in SUBSET Watches
           /\ j.is # "idle" => j.of \in Origins
           /\ j.is = "idle" => j = NoJob
           /\ j.is = "settling" => j \in Settling
           /\ j.is = "found" => j \in Finding
           /\ j.is = "building" => j \in Building
           /\ j.is \in {"found", "building"} =>
                j.watch \in Watches /\ j.latest \in Versions
  BY DEF Jobs, NoJob, Settling, Finding, Building

\* Going on to the next watch.
LEMMA RestKeeps ==
    ASSUME NEW r, NEW w, job[r].of \in Origins, job[r].todo \in SUBSET Watches
    PROVE  /\ Rest(r, w) \in Settling
           /\ Rest(r, w).is = "settling"
           /\ Rest(r, w).todo \subseteq job[r].todo
  BY DEF Rest, Settling

\* One of the two goes on, the other stays.
LEMMA OneRuns ==
    ASSUME TypeOK, NEW r \in Runners, NEW next \in Jobs, Runs(r, next)
    PROVE  /\ job' \in [Runners -> Jobs]
           /\ job'[r] = next
           /\ \A o \in Runners \ {r} : job'[o] = job[o]
  BY DEF TypeOK, Runs

\* Marking watches keeps what they record.
LEMMA MarkedKeeps ==
    ASSUME NEW names, watch \in WatchTypes
    PROVE  /\ Marked(names) \in WatchTypes
           /\ \A e \in Entries : /\ Marked(names)[e].built = watch[e].built
                                 /\ Marked(names)[e].settledAt = watch[e].settledAt
<1>1. ASSUME NEW e \in Entries
      PROVE  LET marked == [watch[e] EXCEPT !.unreadable = TRUE]
             IN /\ marked \in [built : Nat, settledAt : Nat, unreadable : BOOLEAN]
                /\ marked.built = watch[e].built /\ marked.settledAt = watch[e].settledAt
  BY DEF WatchTypes
<1>2. ASSUME NEW e \in Entries
      PROVE  /\ Marked(names)[e] \in [built : Nat, settledAt : Nat, unreadable : BOOLEAN]
             /\ Marked(names)[e].built = watch[e].built
             /\ Marked(names)[e].settledAt = watch[e].settledAt
  BY <1>1, <1>2 DEF Marked, WatchTypes
<1> QED BY <1>2 DEF Marked, WatchTypes

\* Giving the stream up keeps it too.
LEMMA AbandonKeeps ==
    ASSUME NEW names, TypeOK, MarkAndAbandon(names)
    PROVE  /\ watch' \in WatchTypes
           /\ \A e \in Entries : /\ watch'[e].built = watch[e].built
                                 /\ watch'[e].settledAt = watch[e].settledAt
           /\ link' \in {"down", "open", "settled"}
           /\ ending' \in {"none", "closed", "dropped", "retired", "rejected", "gone"}
           /\ closing' \in BOOLEAN /\ aborted' \in BOOLEAN /\ gaveUp' \in BOOLEAN
<1>1. watch \in WatchTypes
  BY DEF TypeOK, WatchTypes
<1>2. watch' = Marked(names)
  BY DEF MarkAndAbandon, Abort
<1> QED BY <1>1, <1>2, MarkedKeeps DEF MarkAndAbandon, Abort, TypeOK, socket

\* settle() changes one watch.
LEMMA SettledSets ==
    ASSUME NEW w \in Watches, NEW built \in Nat, watch \in WatchTypes, Settled(w, built)
    PROVE  /\ watch' \in WatchTypes
           /\ \A e \in Entries :
                /\ watch'[e].built = IF e = w.name THEN built ELSE watch[e].built
                /\ watch'[e].settledAt =
                     IF e = w.name /\ w.token # None THEN w.token ELSE watch[e].settledAt
<1>1. w.name \in Entries /\ w.token \in Nat
  BY DEF Watches
<1> DEFINE known == [watch[w.name] EXCEPT !.built = built]
           settled == [known EXCEPT !.settledAt = IF w.token = None THEN @ ELSE w.token]
<1>2. /\ known \in [built : Nat, settledAt : Nat, unreadable : BOOLEAN]
      /\ known.built = built /\ known.settledAt = watch[w.name].settledAt
  BY <1>1 DEF WatchTypes
<1> HIDE DEF known
<1>3. /\ settled \in [built : Nat, settledAt : Nat, unreadable : BOOLEAN]
      /\ settled.built = built
      /\ settled.settledAt = IF w.token # None THEN w.token ELSE watch[w.name].settledAt
  BY <1>1, <1>2
<1>4. watch' = [watch EXCEPT ![w.name] = settled]
  BY <1>1 DEF Settled, WatchTypes, known
<1> HIDE DEF settled
<1> QED BY <1>1, <1>3, <1>4 DEF WatchTypes

-----------------------------------------------------------------------------
(* What leaves the records alone.                                          *)

LEMMA StutterKeeps ==
    ASSUME IInv, UNCHANGED vars PROVE IInv'
  BY DEF IInv, TypeOK, Records, Recorded, Deployed, Tokens, Exists, Found, Resolved,
         Overlaps, WatchTypes, vars, service, socket, stream, work, NoJob, None

\* A runner keeps what it has found and resolved, unless its job changes, something is
\* shipped, or more is recorded as built.
LEMMA RunnerKeeps ==
    ASSUME IInv, NEW r \in Runners, job'[r] = job[r], UNCHANGED <<head, shipped>>,
           overlapped => overlapped',
           \A e \in Entries : r = "poll" \/ watch'[e].built = watch[e].built
    PROVE  Found(r)' /\ Resolved(r)'
<1>1. job[r] \in Jobs
  BY DEF IInv, TypeOK
<1>2. job[r].is \in {"found", "building"} => job[r].watch.name \in Entries
  BY <1>1, JobKinds DEF Watches
<1>3. Found(r)'
  BY <1>2 DEF IInv, Found, Runners
<1>4. Resolved(r)'
  BY DEF IInv, Resolved
<1> QED BY <1>3, <1>4

\* A step that touches neither versions nor what was built, and no job or frame.
LEMMA QuietStep ==
    ASSUME IInv, TypeOK',
           UNCHANGED <<head, seen, targets, shipped, work, tail>>,
           \A e \in Entries : /\ watch'[e].built = watch[e].built
                              /\ watch'[e].settledAt = watch[e].settledAt
    PROVE  IInv'
<1>1. UNCHANGED <<job, polled, overlapped>>
  BY DEF work
<1>2. Records'
  BY <1>1 DEF IInv, TypeOK, Records, Recorded, Deployed
<1>3. Tokens' /\ Overlaps'
  BY <1>1 DEF IInv, Tokens, Exists, Overlaps
<1>4. \A r \in Runners : Found(r)' /\ Resolved(r)'
  BY <1>1, RunnerKeeps
<1> QED BY <1>2, <1>3, <1>4 DEF IInv

\* The steps of that kind.
LEMMA LoopTurns ==
    ASSUME IInv,
           \/ \E others \in SUBSET held : Reregistered(others)
           \/ \E e \in Entries : PollFailed(e) \/ Recovered(e)
           \/ \E how \in {"dropped", "rejected", "gone", "retired"} : LinkEnds(how)
           \/ Closed \/ Drained \/ StopsWaiting \/ Interrupt
           \/ \E yes \in BOOLEAN : Register(yes) \/ PollEnds(yes)
    PROVE  IInv'
<1>1. MaxFaults \in Nat
  BY LoopAssumption
<1>2. TypeOK /\ watch \in WatchTypes
  BY DEF IInv, TypeOK, WatchTypes
<1>3. ASSUME NEW others, Reregistered(others) PROVE IInv'
  <2>1. TypeOK'
    BY <1>1, <1>2, <1>3 DEF TypeOK, Reregistered, Fault, stream, socket, work
  <2> QED BY <2>1, <1>3, QuietStep DEF Reregistered, stream
<1>4. ASSUME NEW e \in Entries, PollFailed(e) PROVE IInv'
  <2>1. /\ watch' \in WatchTypes
        /\ \A o \in Entries : /\ watch'[o].built = watch[o].built
                              /\ watch'[o].settledAt = watch[o].settledAt
        /\ link' \in {"down", "open", "settled"}
        /\ ending' \in {"none", "closed", "dropped", "retired", "rejected", "gone"}
        /\ closing' \in BOOLEAN /\ aborted' \in BOOLEAN /\ gaveUp' \in BOOLEAN
    <3>1. CASE MarkAndAbandon({e})
      BY <3>1, <1>2, AbandonKeeps
    <3>2. CASE UNCHANGED <<socket, aborted, gaveUp, watch>>
      BY <3>2, <1>2 DEF TypeOK, socket
    <3> QED BY <3>1, <3>2, <1>4 DEF PollFailed
  <2>2. faults' \in 0 .. MaxFaults
    BY <1>1, <1>2, <1>4 DEF TypeOK, PollFailed, Fault
  <2>3. TypeOK'
    BY <2>1, <2>2, <1>2, <1>4 DEF TypeOK, PollFailed, WatchTypes, work
  <2> QED BY <2>1, <2>3, <1>4, QuietStep DEF PollFailed
<1>5. ASSUME NEW e \in Entries, Recovered(e) PROVE IInv'
  <2>1. TypeOK'
    BY <1>2, <1>5 DEF TypeOK, Recovered, stream, socket, work
  <2> QED BY <2>1, <1>5, QuietStep DEF Recovered, stream
<1>6. ASSUME NEW how \in {"dropped", "rejected", "gone", "retired"}, LinkEnds(how)
      PROVE  IInv'
  <2>1. TypeOK'
    BY <1>1, <1>2, <1>6 DEF TypeOK, LinkEnds, MayFail, Fault, service, work
  <2> QED BY <2>1, <1>6, QuietStep DEF LinkEnds, service
<1>7. CASE Closed
  <2>1. TypeOK'
    BY <1>2, <1>7 DEF TypeOK, Closed, service, work
  <2> QED BY <2>1, <1>7, QuietStep DEF Closed, service
<1>8. CASE Drained
  <2>1. TypeOK'
    BY <1>2, <1>8 DEF TypeOK, Drained, AfterStream, service, work
  <2> QED BY <2>1, <1>8, QuietStep DEF Drained, AfterStream, service
<1>9. CASE StopsWaiting
  <2>1. TypeOK'
    BY <1>2, <1>9 DEF TypeOK, StopsWaiting, AfterStream, service, socket, stream, work
  <2> QED BY <2>1, <1>9, QuietStep DEF StopsWaiting, AfterStream, service, stream
<1>10. ASSUME NEW yes \in BOOLEAN, Register(yes) PROVE IInv'
  <2>1. TypeOK'
    BY <1>2, <1>10 DEF TypeOK, Register, service, socket, stream, work
  <2> QED BY <2>1, <1>10, QuietStep DEF Register, service, stream
<1>11. ASSUME NEW yes \in BOOLEAN, PollEnds(yes) PROVE IInv'
  <2>1. TypeOK'
    BY <1>2, <1>11 DEF TypeOK, PollEnds, service, socket, stream, work
  <2> QED BY <2>1, <1>11, QuietStep DEF PollEnds, service, stream
<1>12. CASE Interrupt
  <2>1. watch' = watch
    BY <1>12 DEF Interrupt, Abort
  <2>2. TypeOK'
    BY <2>1, <1>2, <1>12 DEF TypeOK, Interrupt, Abort, service, socket, work
  <2> QED BY <2>1, <2>2, <1>12, QuietStep DEF Interrupt, service
<1> QED BY <1>3, <1>4, <1>5, <1>6, <1>7, <1>8, <1>9, <1>10, <1>11, <1>12

-----------------------------------------------------------------------------
(* Versions and frames.                                                    *)

LEMMA FrameWatches ==
    ASSUME NEW t \in Seq(Frames), NEW i \in 1 .. Len(t)
    PROVE  t[i].watches \in SUBSET Watches
<1>1. t[i] \in Frames
  OBVIOUS
<1> QED BY <1>1 DEF Frames

LEMMA InitKeeps == Init => IInv
<1> SUFFICES ASSUME Init PROVE IInv
  OBVIOUS
<1>1. targets \in SUBSET Entries /\ MaxFaults \in Nat \ {0}
  BY LoopAssumption DEF Init
<1>2. TypeOK
  <2>1. head \in [Entries -> Versions]
    BY DEF Init, Versions, None
  <2>2. shipped \in [Entries -> Nat] /\ seen \in [Entries -> Nat] /\ polled = shipped
    BY DEF Init, None
  <2>3. watch \in [Entries -> [built : Nat, settledAt : Nat, unreadable : BOOLEAN]]
    BY <2>2 DEF Init, None
  <2>4. tail \in Seq(Frames) /\ job \in [Runners -> Jobs]
    BY DEF Init, Jobs
  <2>5. /\ held = Entries /\ readable \in SUBSET Entries /\ stopped = {} /\ faults \in {0, 1}
        /\ phase = "register" /\ link = "down" /\ ending = "none"
        /\ closing = FALSE /\ aborted = FALSE /\ gaveUp = FALSE /\ overlapped = FALSE
    BY DEF Init
  <2>6. faults \in 0 .. MaxFaults
    BY <1>1, <2>5
  <2> QED BY <1>1, <2>1, <2>2, <2>3, <2>4, <2>5, <2>6 DEF TypeOK
<1>3. Records
  BY <1>1 DEF Init, Records, Recorded, Deployed, None
<1>4. /\ Tokens /\ Overlaps
      /\ \A r \in Runners : Found(r) /\ Resolved(r)
  BY DEF Init, Tokens, Overlaps, Found, Resolved, Runners, NoJob
<1> QED BY <1>2, <1>3, <1>4 DEF IInv

\* Versions grow.
LEMMA MovedKeeps ==
    ASSUME IInv, NEW e \in Entries, Moved(e) PROVE IInv'
<1>1. TypeOK
  BY DEF IInv
<1>2. UNCHANGED <<held, readable, seen, targets, shipped, phase, link, ending, closing,
                  aborted, gaveUp, watch, tail, job, polled, overlapped, stopped, faults>>
  BY DEF Moved, stream, socket, work
<1>3. /\ head' \in [Entries -> Versions]
      /\ \A o \in Entries : head[o] \in Nat /\ head'[o] \in Nat /\ head[o] <= head'[o]
  <2>1. head' = [head EXCEPT ![e] = @ + 1]
    BY DEF Moved
  <2>2. \A o \in Entries : head[o] \in Nat /\ head[o] # 0
    BY <1>1 DEF TypeOK, Versions, None
  <2> QED BY <1>1, <2>1, <2>2 DEF TypeOK, Versions, None
<1>4. TypeOK'
  BY <1>1, <1>2, <1>3 DEF TypeOK
<1>5. Records'
  <2>1. \A o \in Entries : Recorded(o)'
    <3>1. \A o \in Entries :
            seen[o] \in Nat /\ shipped[o] \in Nat /\ watch[o].built \in Nat
      BY <1>1 DEF TypeOK
    <3> QED BY <3>1, <1>2, <1>3 DEF IInv, Records, Recorded
  <2> QED BY <2>1, <1>2 DEF IInv, Records, Deployed
<1>6. ASSUME NEW w \in Watches, Exists(w) PROVE Exists(w)'
  <2>1. w.name \in Entries /\ w.token \in Nat
    BY DEF Watches
  <2> QED BY <2>1, <1>3, <1>6 DEF Exists
<1>7. Tokens'
  <2>1. ASSUME NEW r \in Runners, NEW w \in job[r].todo PROVE Exists(w)'
    <3>1. w \in Watches
      BY <1>1, JobKinds DEF TypeOK
    <3> QED BY <3>1, <1>6 DEF IInv, Tokens
  <2>2. \A i \in 1 .. Len(tail) : \A w \in tail[i].watches : Exists(w)'
    BY <1>1, <1>6, FrameWatches DEF IInv, Tokens, TypeOK
  <2> QED BY <2>1, <2>2, <1>2 DEF Tokens, Exists
<1>8. ASSUME NEW r \in Runners PROVE Found(r)'
  <2> SUFFICES ASSUME job[r].is \in {"found", "building"} PROVE Found(r)'
    BY <1>2 DEF Found
  <2>1. job[r].watch.name \in Entries /\ job[r].latest \in Nat
    BY <1>1, JobKinds DEF TypeOK, Watches, Versions
  <2> QED BY <1>2, <1>3, <2>1 DEF IInv, Found
<1>9. ASSUME NEW r \in Runners PROVE Resolved(r)'
  <2> SUFFICES ASSUME job[r].is = "building" PROVE Resolved(r)'
    BY <1>2 DEF Resolved
  <2>1. job[r].from \in [Entries -> Versions]
    BY <1>1, JobKinds DEF TypeOK, Building
  <2>2. \A o \in Entries : job[r].from[o] \in Nat
    BY <2>1 DEF Versions
  <2> QED BY <1>2, <1>3, <2>2 DEF IInv, Resolved
<1>10. Overlaps'
  BY <1>2 DEF IInv, Overlaps
<1> QED BY <1>4, <1>5, <1>7, <1>8, <1>9, <1>10 DEF IInv

\* What the service sends is what it saw.
LEMMA ServiceSends ==
    ASSUME IInv, NEW lost \in BOOLEAN, ServicePolls(lost) PROVE IInv'
<1> DEFINE moved == {e \in readable \cap held : seen[e] # head[e]}
           known == {e \in moved : seen[e] # None}
           frame == [is |-> IF closing THEN "late" ELSE "notify",
                     watches |-> {[name |-> e, token |-> head[e]] : e \in known}]
<1>1. TypeOK /\ MaxFaults \in Nat
  BY LoopAssumption DEF IInv
<1>2. UNCHANGED <<head, held, readable, targets, shipped, phase, link, ending, closing,
                  aborted, gaveUp, watch, job, polled, overlapped, stopped>>
  BY DEF ServicePolls, socket, work
<1>3. /\ seen' \in [Entries -> Nat]
      /\ \A e \in Entries : seen'[e] = seen[e] \/ seen'[e] = head[e]
  BY <1>1 DEF ServicePolls, TypeOK, Versions
<1>4. /\ frame \in Frames
      /\ \A w \in frame.watches : Exists(w)
  <2>1. \A e \in known : e \in Entries /\ head[e] \in Nat
    BY <1>1 DEF TypeOK, Versions
  <2>2. \A w \in frame.watches : w \in Watches /\ w.token = head[w.name]
    BY <2>1 DEF Watches
  <2>3. \A w \in frame.watches : head[w.name] \in Nat
    BY <2>2, <1>1 DEF Watches, TypeOK, Versions
  <2> QED BY <2>2, <2>3 DEF Frames, Exists
<1> HIDE DEF frame
<1>5. tail' = tail \/ tail' = Append(tail, frame)
  BY DEF ServicePolls, Deliver, frame
<1>6. /\ tail' \in Seq(Frames)
      /\ \A i \in 1 .. Len(tail') : \A w \in tail'[i].watches : Exists(w)
  <2>1. CASE tail' = tail
    BY <2>1, <1>1 DEF IInv, TypeOK, Tokens
  <2>2. CASE tail' = Append(tail, frame)
    <3>1. \A i \in 1 .. Len(tail') :
            \/ i \in 1 .. Len(tail) /\ tail'[i] = tail[i]
            \/ tail'[i] = frame
      BY <2>2, <1>1 DEF TypeOK
    <3> QED BY <3>1, <2>2, <1>1, <1>4 DEF IInv, TypeOK, Tokens
  <2> QED BY <2>1, <2>2, <1>5
<1>7. faults' \in 0 .. MaxFaults
  BY <1>1 DEF ServicePolls, MayFail, Fault, TypeOK
<1>8. TypeOK'
  BY <1>1, <1>2, <1>3, <1>6, <1>7 DEF TypeOK
<1>9. Records'
  <2>1. \A e \in Entries : head[e] \in Nat
    BY <1>1 DEF TypeOK, Versions
  <2>2. \A e \in Entries : Recorded(e)'
    BY <2>1, <1>2, <1>3 DEF IInv, Records, Recorded
  <2> QED BY <2>2, <1>2 DEF IInv, Records, Deployed
<1>10. Tokens' /\ Overlaps'
  BY <1>2, <1>6 DEF IInv, Tokens, Exists, Overlaps
<1>11. \A r \in Runners : Found(r)' /\ Resolved(r)'
  BY <1>2, RunnerKeeps
<1> QED BY <1>8, <1>9, <1>10, <1>11 DEF IInv

LEMMA ConnectedKeeps ==
    ASSUME IInv, Connected PROVE IInv'
<1>1. TypeOK
  BY DEF IInv
<1>2. UNCHANGED <<head, held, readable, seen, targets, shipped, phase, ending, closing,
                  aborted, gaveUp, watch, job, polled, overlapped, stopped, faults>>
  BY DEF Connected, service, work
<1>3. /\ Ready \in Frames
      /\ \A w \in Ready.watches : Exists(w)
  <2>1. \A e \in held : e \in Entries /\ seen[e] \in Nat /\ seen[e] <= head[e]
    BY <1>1 DEF IInv, Records, Recorded, TypeOK
  <2>2. \A w \in Ready.watches : w \in Watches /\ w.token <= head[w.name]
    BY <2>1 DEF Watches, Ready
  <2>3. held \ readable \in SUBSET Entries
    BY <1>1 DEF TypeOK
  <2>4. Ready \in [is : {"ready"}, unread : SUBSET Entries, watches : SUBSET Watches]
    BY <2>2, <2>3 DEF Ready
  <2> QED BY <2>2, <2>4 DEF Frames, Exists
<1>4. tail' = <<Ready>> /\ link' = "open"
  BY DEF Connected
<1>5. TypeOK'
  BY <1>1, <1>2, <1>3, <1>4 DEF TypeOK
<1>6. /\ Records' /\ Overlaps'
      /\ \A r \in Runners : Found(r)' /\ Resolved(r)'
  BY <1>2, RunnerKeeps DEF IInv, Records, Recorded, Deployed, Overlaps
<1>7. Tokens'
  <2> HIDE DEF Ready
  <2>1. \A i \in 1 .. Len(tail') : tail'[i] = Ready
    BY <1>4
  <2> QED BY <2>1, <1>2, <1>3 DEF IInv, Tokens, Exists
<1> QED BY <1>5, <1>6, <1>7 DEF IInv

-----------------------------------------------------------------------------
(* The handlers.                                                           *)

\* A step in which one of the two goes on with its job, of which what is left was there.
LEMMA JobGoesOn ==
    ASSUME IInv, TypeOK', Records', NEW r \in Runners, NEW next \in Jobs, Runs(r, next),
           Found(r)', Resolved(r)', Overlaps',
           \A o \in Runners \ {r} : Found(o)' /\ Resolved(o)',
           UNCHANGED <<head, tail>>, \A w \in next.todo : Exists(w)
    PROVE  IInv'
<1>1. job'[r] = next /\ \A o \in Runners \ {r} : job'[o] = job[o]
  BY OneRuns DEF IInv
<1>2. Tokens'
  BY <1>1 DEF IInv, Tokens, Exists
<1> QED BY <1>2 DEF IInv

\* A job that is done with a watch, or with all.
LEMMA Settles ==
    ASSUME IInv, NEW r \in Runners, NEW next \in {NoJob} \cup Settling, Runs(r, next),
           overlapped => overlapped'
    PROVE  /\ next \in Jobs
           /\ Found(r)' /\ Resolved(r)' /\ Overlaps'
<1>1. next \in Jobs /\ next.is \in {"idle", "settling"}
  BY DEF Jobs, NoJob, Settling
<1>2. job'[r] = next
  BY <1>1, OneRuns DEF IInv
<1> QED BY <1>1, <1>2 DEF Found, Resolved, Overlaps, Runners

LEMMA HandleKeeps ==
    ASSUME IInv, Handle PROVE IInv'
<1>1. TypeOK
  BY DEF IInv
<1>2. UNCHANGED <<head, held, readable, seen, targets, shipped, phase, polled, overlapped,
                  stopped, faults>>
  BY DEF Handle, service
<1>3. tail # <<>> /\ tail' = Tail(tail)
  BY DEF Handle
<1>4. /\ Head(tail) = tail[1] /\ 1 \in 1 .. Len(tail)
      /\ tail' \in Seq(Frames)
      /\ \A i \in 1 .. Len(tail') : i + 1 \in 1 .. Len(tail) /\ tail'[i] = tail[i + 1]
  BY <1>1, <1>3 DEF TypeOK
<1>5. /\ Head(tail).is \in Origins /\ Head(tail).watches \in SUBSET Watches
      /\ \A w \in Head(tail).watches : Exists(w)
  <2>1. Head(tail) \in Frames
    BY <1>1, <1>4 DEF TypeOK
  <2> QED BY <2>1, <1>4 DEF IInv, Tokens, Frames, Origins
<1>6. PICK next \in {NoJob} \cup Settling :
        Runs("handler", next) /\ \A w \in next.todo : Exists(w)
  <2> DEFINE of == Head(tail).is
             todo == Head(tail).watches
  <2>1. \/ Runs("handler", NoJob)
        \/ Runs("handler", [is |-> "settling", of |-> of, todo |-> todo])
    BY DEF Handle
  <2>2. of \in Origins /\ todo \in SUBSET Watches /\ \A w \in todo : Exists(w)
    BY <1>5
  <2> HIDE DEF of, todo
  <2>3. [is |-> "settling", of |-> of, todo |-> todo] \in Settling
    BY <2>2 DEF Settling
  <2> QED BY <2>1, <2>2, <2>3 DEF NoJob
<1>7. /\ watch' \in WatchTypes
      /\ \A e \in Entries : /\ watch'[e].built = watch[e].built
                            /\ watch'[e].settledAt = watch[e].settledAt
      /\ link' \in {"down", "open", "settled"}
      /\ ending' \in {"none", "closed", "dropped", "retired", "rejected", "gone"}
      /\ closing' \in BOOLEAN /\ aborted' \in BOOLEAN /\ gaveUp' \in BOOLEAN
  <2>1. PICK names : MarkAndAbandon(names)
    BY DEF Handle
  <2> QED BY <2>1, <1>1, AbandonKeeps
<1>8. /\ next \in Jobs
      /\ Found("handler")' /\ Resolved("handler")' /\ Overlaps'
  BY <1>2, <1>6, Settles DEF Runners
<1>9. /\ job' \in [Runners -> Jobs]
      /\ job'["handler"] = next /\ job'["poll"] = job["poll"]
  BY <1>1, <1>6, <1>8, OneRuns DEF Runners
<1>10. TypeOK'
  BY <1>1, <1>2, <1>4, <1>7, <1>9 DEF TypeOK, WatchTypes
<1>11. Records'
  BY <1>1, <1>2, <1>7 DEF IInv, TypeOK, Records, Recorded, Deployed
<1>12. Tokens'
  BY <1>2, <1>4, <1>6, <1>9 DEF IInv, Tokens, Exists, Runners
<1>13. Found("poll")' /\ Resolved("poll")'
  BY <1>2, <1>9, RunnerKeeps DEF Runners
<1> QED BY <1>8, <1>10, <1>11, <1>12, <1>13 DEF IInv, Runners

\* A step in which a job goes on and nothing else that counts changes.
LEMMA OnlyRuns ==
    ASSUME IInv, NEW r \in Runners, NEW next \in {NoJob} \cup Settling, Runs(r, next),
           \A w \in next.todo : Exists(w),
           UNCHANGED <<service, targets, shipped, phase, stream, polled, overlapped,
                       stopped>>,
           faults' \in 0 .. MaxFaults
    PROVE  IInv'
<1>1. TypeOK
  BY DEF IInv
<1>2. UNCHANGED <<head, held, readable, seen, link, ending, closing, aborted, gaveUp,
                  watch, tail>>
  BY DEF service, stream, socket
<1>3. /\ next \in Jobs
      /\ Found(r)' /\ Resolved(r)' /\ Overlaps'
  BY Settles
<1>4. job' \in [Runners -> Jobs] /\ \A o \in Runners \ {r} : job'[o] = job[o]
  BY <1>1, <1>3, OneRuns
<1>5. TypeOK'
  BY <1>1, <1>2, <1>4 DEF TypeOK
<1>6. Records'
  BY <1>2 DEF IInv, Records, Recorded, Deployed
<1>7. \A o \in Runners \ {r} : Found(o)' /\ Resolved(o)'
  BY <1>2, <1>4, RunnerKeeps
<1> QED BY <1>2, <1>3, <1>5, <1>6, <1>7, JobGoesOn

\* A job that ends, goes on to the next watch, or starts a round of the poll.
LEMMA RoundsKeep ==
    ASSUME IInv, NEW r \in Runners, NEW w, Ends(r) \/ Skip(w) \/ PollRound
    PROVE  IInv'
<1>1. TypeOK /\ faults \in 0 .. MaxFaults
  BY DEF IInv, TypeOK
<1>2. CASE Ends(r)
  BY <1>1, <1>2, OnlyRuns DEF Ends, NoJob
<1>3. CASE Skip(w)
  <2>1. "handler" \in Runners /\ job["handler"] \in Settling
    BY <1>1, <1>3, JobKinds DEF Skip, TypeOK, Runners
  <2>2. Rest("handler", w) \in Settling /\ Rest("handler", w).todo \subseteq job["handler"].todo
    BY <2>1, RestKeeps DEF Settling
  <2>3. \A v \in Rest("handler", w).todo : Exists(v)
    BY <2>1, <2>2 DEF IInv, Tokens
  <2> QED BY <1>1, <1>3, <2>1, <2>2, <2>3, OnlyRuns DEF Skip
<1>4. CASE PollRound
  <2> DEFINE all == {[name |-> e, token |-> None] : e \in Entries}
  <2>1. \A v \in all : v \in Watches /\ v.token = 0 /\ v.name \in Entries
    BY DEF Watches, None
  <2>2. \A v \in all : Exists(v)
    <3>1. \A e \in Entries : head[e] \in Nat
      BY <1>1 DEF TypeOK, Versions
    <3> QED BY <2>1, <3>1 DEF Exists
  <2>3. EveryEntry = [is |-> "settling", of |-> "poll", todo |-> all]
    BY DEF EveryEntry
  <2> HIDE DEF all
  <2>4. EveryEntry \in Settling /\ \A v \in EveryEntry.todo : Exists(v)
    BY <2>1, <2>2, <2>3 DEF Settling, Origins
  <2> QED BY <1>1, <1>4, <2>4, OnlyRuns DEF PollRound, Runners
<1> QED BY <1>2, <1>3, <1>4

\* What a handler or a poll that has found a move remembers.
LEMMA FoundIs ==
    ASSUME TypeOK, NEW r \in Runners, job[r] \in Settling, NEW w \in Watches,
           NEW latest \in Versions
    PROVE  LET next == FoundMove(r, w, latest)
           IN /\ next \in Finding /\ next \in Jobs /\ next.is = "found"
              /\ next.todo = job[r].todo /\ next.watch = w /\ next.latest = latest
  BY DEF FoundMove, Settling, Finding, Jobs

\* A watch that is asked about: what its token says is there.
LEMMA AskedAbout ==
    ASSUME IInv, NEW r \in Runners, NEW w \in job[r].todo, job[r].is = "settling"
    PROVE  /\ job[r] \in Settling
           /\ w \in Watches /\ w.name \in Entries /\ w.token \in Nat
           /\ w.token <= head[w.name]
           /\ head[w.name] \in Versions /\ head[w.name] \in Nat
           /\ Rest(r, w) \in Settling
           /\ \A v \in Rest(r, w).todo : Exists(v)
           /\ \A v \in job[r].todo : Exists(v)
<1>1. TypeOK /\ job[r] \in Jobs
  BY DEF IInv, TypeOK
<1>2. job[r] \in Settling /\ job[r].of \in Origins /\ job[r].todo \in SUBSET Watches
  BY <1>1, JobKinds DEF Settling
<1>3. w \in Watches /\ w.name \in Entries /\ w.token \in Nat
  BY <1>2 DEF Watches
<1>4. Rest(r, w) \in Settling /\ Rest(r, w).todo \subseteq job[r].todo
  BY <1>2, RestKeeps
<1>5. \A v \in job[r].todo : Exists(v)
  BY DEF IInv, Tokens
<1> QED BY <1>1, <1>2, <1>3, <1>4, <1>5 DEF TypeOK, Versions, Exists

LEMMA AskKeeps ==
    ASSUME IInv, NEW w, NEW failed \in BOOLEAN, Ask(w, failed) PROVE IInv'
<1> DEFINE built == watch[w.name].built
           latest == head[w.name]
           rest == Rest("handler", w)
           found == FoundMove("handler", w, latest)
<1>1. TypeOK /\ MaxFaults \in Nat /\ watch \in WatchTypes /\ "handler" \in Runners
  BY LoopAssumption DEF IInv, TypeOK, WatchTypes, Runners
<1>2. UNCHANGED <<head, held, readable, seen, targets, shipped, phase, link, ending,
                  closing, aborted, gaveUp, tail, polled, overlapped, stopped>>
  BY DEF Ask, service, socket
<1>3. /\ job["handler"] \in Settling
      /\ w \in Watches /\ w.name \in Entries /\ w.token \in Nat /\ w.token <= latest
      /\ latest \in Versions /\ latest \in Nat
      /\ rest \in Settling /\ \A v \in rest.todo : Exists(v)
      /\ \A v \in job["handler"].todo : Exists(v)
  BY <1>1, AskedAbout DEF Ask
<1>4. built \in Nat /\ built <= latest
  BY <1>1, <1>3 DEF WatchTypes, IInv, Records, Recorded
<1>5. faults' \in 0 .. MaxFaults
  BY <1>1 DEF Ask, MayFail, Fault, TypeOK
<1>6. CASE /\ Runs("handler", rest)
           /\ UNCHANGED watch \/ (built \in {None, latest} /\ Settled(w, latest))
  <2>1. /\ rest \in Jobs
        /\ Found("handler")' /\ Resolved("handler")' /\ Overlaps'
    BY <1>1, <1>2, <1>3, <1>6, Settles
  <2>2. /\ job' \in [Runners -> Jobs]
        /\ \A o \in Runners \ {"handler"} : job'[o] = job[o]
    BY <1>1, <1>6, <2>1, OneRuns
  <2>3. /\ watch' \in WatchTypes
        /\ \A e \in Entries : Recorded(e)'
        /\ \A e \in targets : Deployed(e)'
    <3>1. CASE UNCHANGED watch
      BY <3>1, <1>1, <1>2 DEF IInv, Records, Recorded, Deployed
    <3>2. CASE built \in {None, latest} /\ Settled(w, latest)
      <4>1. /\ watch' \in WatchTypes
            /\ \A e \in Entries :
                 /\ watch'[e].built = IF e = w.name THEN latest ELSE watch[e].built
                 /\ watch'[e].settledAt = IF e = w.name /\ w.token # None THEN w.token
                                          ELSE watch[e].settledAt
        BY <1>1, <1>3, <3>2, SettledSets
      <4>2. ASSUME NEW e \in Entries PROVE Recorded(e)'
        <5>1. Recorded(e) /\ watch[e].settledAt \in Nat /\ watch[e].built \in Nat
          BY <1>1 DEF IInv, Records, WatchTypes
        <5>2. CASE e = w.name
          BY <5>1, <5>2, <4>1, <1>2, <1>3, <1>4 DEF Recorded
        <5>3. CASE e # w.name
          BY <5>1, <5>3, <4>1, <1>2 DEF Recorded
        <5> QED BY <5>2, <5>3
      <4>3. ASSUME NEW e \in targets PROVE Deployed(e)'
        <5>1. Deployed(e) /\ e \in Entries
          BY <1>1 DEF IInv, Records, TypeOK
        <5>2. e = w.name => built = latest
          BY <5>1, <3>2 DEF Deployed, None
        <5>3. watch'[e].built = watch[e].built
          BY <5>1, <5>2, <4>1
        <5> QED BY <5>1, <5>3, <1>2 DEF Deployed
      <4> QED BY <4>1, <4>2, <4>3
    <3> QED BY <3>1, <3>2, <1>6
  <2>4. Records'
    BY <2>3, <1>2 DEF Records
  <2>5. TypeOK'
    BY <1>1, <1>2, <1>5, <2>2, <2>3 DEF TypeOK, WatchTypes
  <2>6. \A o \in Runners \ {"handler"} : Found(o)' /\ Resolved(o)'
    BY <1>2, <2>2, RunnerKeeps DEF Runners
  <2> QED BY <1>1, <1>2, <1>3, <1>6, <2>1, <2>4, <2>5, <2>6, JobGoesOn
<1>7. CASE Runs("handler", found) /\ UNCHANGED watch
  <2>1. /\ found \in Jobs /\ found.is = "found" /\ found.todo = job["handler"].todo
        /\ found.watch = w /\ found.latest = latest
    BY <1>1, <1>3, FoundIs
  <2> HIDE DEF found
  <2>2. /\ job' \in [Runners -> Jobs] /\ job'["handler"] = found
        /\ \A o \in Runners \ {"handler"} : job'[o] = job[o]
    BY <1>1, <1>7, <2>1, OneRuns
  <2>3. TypeOK'
    BY <1>1, <1>2, <1>5, <1>7, <2>2 DEF TypeOK
  <2>4. Records'
    BY <1>2, <1>7 DEF IInv, Records, Recorded, Deployed
  <2>5. Found("handler")' /\ Resolved("handler")' /\ Overlaps'
    BY <2>1, <2>2, <1>2, <1>3, <1>4, <1>7 DEF Found, Resolved, Overlaps
  <2>6. \A o \in Runners \ {"handler"} : Found(o)' /\ Resolved(o)'
    BY <1>2, <1>7, <2>2, RunnerKeeps
  <2>7. \A v \in found.todo : Exists(v)
    BY <2>1, <1>3
  <2> QED BY <1>1, <1>2, <1>7, <2>1, <2>3, <2>4, <2>5, <2>6, <2>7, JobGoesOn
<1>8. \/ /\ Runs("handler", rest)
         /\ UNCHANGED watch \/ (built \in {None, latest} /\ Settled(w, latest))
      \/ Runs("handler", found) /\ UNCHANGED watch
  BY DEF Ask
<1> QED BY <1>6, <1>7, <1>8

LEMMA PollAskKeeps ==
    ASSUME IInv, NEW w, NEW failed \in BOOLEAN, PollAsk(w, failed) PROVE IInv'
<1> DEFINE latest == head[w.name]
           known == polled[w.name]
           rest == Rest("poll", w)
           found == FoundMove("poll", w, latest)
<1>1. TypeOK /\ MaxFaults \in Nat /\ "poll" \in Runners
  BY LoopAssumption DEF IInv, TypeOK, Runners
<1>2. UNCHANGED <<head, held, readable, seen, targets, shipped, phase, link, ending,
                  closing, aborted, gaveUp, watch, tail, overlapped, stopped>>
  BY DEF PollAsk, service, socket, stream
<1>3. /\ job["poll"] \in Settling
      /\ w \in Watches /\ w.name \in Entries /\ w.token \in Nat /\ w.token <= latest
      /\ latest \in Versions /\ latest \in Nat
      /\ rest \in Settling /\ \A v \in rest.todo : Exists(v)
      /\ \A v \in job["poll"].todo : Exists(v)
  BY <1>1, AskedAbout DEF PollAsk
<1>4. faults' \in 0 .. MaxFaults
  BY <1>1 DEF PollAsk, MayFail, Fault, TypeOK
<1>5. CASE /\ Runs("poll", rest)
           /\ \/ polled' = polled
              \/ known = None /\ polled' = [polled EXCEPT ![w.name] = latest]
  <2>1. /\ rest \in Jobs
        /\ Found("poll")' /\ Resolved("poll")' /\ Overlaps'
    BY <1>1, <1>2, <1>3, <1>5, Settles
  <2>2. /\ job' \in [Runners -> Jobs]
        /\ \A o \in Runners \ {"poll"} : job'[o] = job[o]
    BY <1>1, <1>5, <2>1, OneRuns
  <2>3. polled' \in [Entries -> Nat]
    BY <1>1, <1>3, <1>5 DEF TypeOK
  <2>4. ASSUME NEW e \in targets PROVE Deployed(e)'
    <3>1. Deployed(e) /\ e \in Entries
      BY <1>1 DEF IInv, Records, TypeOK
    <3>2. known = None => e # w.name
      BY <3>1, <1>1 DEF Deployed, TypeOK, None
    <3>3. polled'[e] = polled[e]
      BY <3>1, <3>2, <1>1, <1>5 DEF TypeOK
    <3> QED BY <3>1, <3>3, <1>2 DEF Deployed
  <2>5. Records'
    BY <2>4, <1>2 DEF IInv, Records, Recorded
  <2>6. TypeOK'
    BY <1>1, <1>2, <1>4, <2>2, <2>3 DEF TypeOK
  <2>7. \A o \in Runners \ {"poll"} : Found(o)' /\ Resolved(o)'
    BY <1>2, <2>2, RunnerKeeps
  <2> QED BY <1>1, <1>2, <1>3, <1>5, <2>1, <2>5, <2>6, <2>7, JobGoesOn
<1>6. CASE Runs("poll", found) /\ UNCHANGED polled
  <2>1. /\ found \in Jobs /\ found.is = "found" /\ found.todo = job["poll"].todo
        /\ found.watch = w /\ found.latest = latest
    BY <1>1, <1>3, FoundIs
  <2> HIDE DEF found
  <2>2. /\ job' \in [Runners -> Jobs] /\ job'["poll"] = found
        /\ \A o \in Runners \ {"poll"} : job'[o] = job[o]
    BY <1>1, <1>6, <2>1, OneRuns
  <2>3. TypeOK'
    BY <1>1, <1>2, <1>4, <1>6, <2>2 DEF TypeOK
  <2>4. Records'
    BY <1>2, <1>6 DEF IInv, Records, Recorded, Deployed
  <2>5. Found("poll")' /\ Resolved("poll")' /\ Overlaps'
    BY <2>1, <2>2, <1>2, <1>3 DEF Found, Resolved, Overlaps
  <2>6. \A o \in Runners \ {"poll"} : Found(o)' /\ Resolved(o)'
    BY <1>2, <2>2, RunnerKeeps
  <2>7. \A v \in found.todo : Exists(v)
    BY <2>1, <1>3
  <2> QED BY <1>1, <1>2, <1>6, <2>1, <2>3, <2>4, <2>5, <2>6, <2>7, JobGoesOn
<1>7. \/ /\ Runs("poll", rest)
         /\ \/ polled' = polled
            \/ known = None /\ polled' = [polled EXCEPT ![w.name] = latest]
      \/ Runs("poll", found) /\ UNCHANGED polled
  BY DEF PollAsk
<1> QED BY <1>5, <1>6, <1>7

-----------------------------------------------------------------------------
(* A pass of its own.                                                      *)

\* It resolves every base place when it begins; if another is building, they overlap.
LEMMA RebuildKeeps ==
    ASSUME IInv, NEW r \in Runners, Rebuild(r) PROVE IInv'
<1> DEFINE next == [is |-> "building", of |-> job[r].of, todo |-> job[r].todo,
                    watch |-> job[r].watch, latest |-> job[r].latest, from |-> head]
<1>1. TypeOK
  BY DEF IInv
<1>2. UNCHANGED <<head, held, readable, seen, targets, shipped, phase, link, ending,
                  closing, aborted, gaveUp, watch, tail, polled, stopped, faults>>
  BY DEF Rebuild, service, stream, socket
<1>3. /\ job[r].is = "found" /\ job[r].of \in Origins /\ job[r].todo \in SUBSET Watches
      /\ job[r].watch \in Watches /\ job[r].watch.name \in Entries
      /\ job[r].latest \in Versions
  <2>1. job[r] \in Finding /\ job[r].is = "found"
    BY <1>1, JobKinds DEF Rebuild, TypeOK
  <2> QED BY <2>1 DEF Finding, Watches
<1>4. /\ next \in Jobs /\ next.is = "building" /\ next.todo = job[r].todo
      /\ next.watch = job[r].watch /\ next.latest = job[r].latest /\ next.from = head
  BY <1>1, <1>3 DEF Jobs, Building, TypeOK
<1>5. Runs(r, next)
  BY DEF Rebuild
<1> HIDE DEF next
<1>6. /\ job' \in [Runners -> Jobs] /\ job'[r] = next
      /\ \A o \in Runners \ {r} : job'[o] = job[o]
  BY <1>1, <1>4, <1>5, OneRuns
<1>7. /\ overlapped \in BOOLEAN /\ overlapped' \in BOOLEAN
      /\ overlapped => overlapped'
      /\ (\E o \in Runners \ {r} : job[o].is = "building") => overlapped'
  BY <1>1 DEF Rebuild, TypeOK
<1>8. TypeOK'
  BY <1>1, <1>2, <1>6, <1>7 DEF TypeOK
<1>9. Records'
  BY <1>2, <1>7 DEF IInv, Records, Recorded, Deployed
<1>10. Found(r)'
  BY <1>2, <1>3, <1>4, <1>6 DEF IInv, Found
<1>11. Resolved(r)'
  <2>1. \A e \in Entries : head[e] \in Nat /\ shipped[e] <= head[e]
    BY <1>1 DEF TypeOK, Versions, IInv, Records, Recorded
  <2>2. job[r].latest <= head[job[r].watch.name]
    BY <1>3 DEF IInv, Found
  <2> QED BY <1>2, <1>4, <1>6, <2>1, <2>2 DEF Resolved
<1>12. Overlaps'
  BY <1>6, <1>7 DEF Overlaps, Runners
<1>13. \A o \in Runners \ {r} : Found(o)' /\ Resolved(o)'
  BY <1>2, <1>6, <1>7, RunnerKeeps
<1>14. \A w \in next.todo : Exists(w)
  BY <1>4 DEF IInv, Tokens
<1> QED BY <1>2, <1>4, <1>5, <1>8, <1>9, <1>10, <1>11, <1>12, <1>13, <1>14, JobGoesOn

\* Alone it ships no less than was shipped before; only when it has shipped all is
\* recorded what it was started for.
LEMMA RebuiltKeeps ==
    ASSUME IInv, NEW r \in Runners, NEW places \in SUBSET targets, Rebuilt(r, places)
    PROVE  IInv'
<1> DEFINE w == job[r].watch
           name == w.name
           latest == job[r].latest
           from == job[r].from
           rest == Rest(r, w)
<1>1. TypeOK /\ MaxFaults \in Nat /\ watch \in WatchTypes
  BY LoopAssumption DEF IInv, TypeOK, WatchTypes
<1>2. UNCHANGED <<head, held, readable, seen, targets, phase, link, ending, closing,
                  aborted, gaveUp, tail, overlapped, stopped>>
  BY DEF Rebuilt, service, socket
<1>3. /\ job[r].is = "building" /\ job[r].of \in Origins /\ job[r].todo \in SUBSET Watches
      /\ w \in Watches /\ name \in Entries /\ w.token \in Nat
      /\ latest \in Versions /\ latest \in Nat /\ from \in [Entries -> Versions]
  <2>1. job[r] \in Building /\ job[r].is = "building"
    BY <1>1, JobKinds DEF Rebuilt, TypeOK
  <2> QED BY <2>1 DEF Building, Watches, Versions
<1>4. \A e \in Entries : /\ head[e] \in Nat /\ from[e] \in Nat /\ shipped[e] \in Nat
                         /\ from[e] <= head[e]
                         /\ overlapped \/ shipped[e] <= from[e]
  BY <1>1, <1>3 DEF TypeOK, Versions, IInv, Resolved
<1>5. /\ w.token <= latest /\ latest <= head[name] /\ latest <= from[name]
      /\ r = "handler" => watch[name].built <= latest
  BY <1>3 DEF IInv, Found, Resolved
<1>6. /\ shipped' \in [Entries -> Nat]
      /\ \A e \in Entries : /\ shipped'[e] = IF e \in places THEN from[e] ELSE shipped[e]
                            /\ overlapped \/ shipped[e] <= shipped'[e]
                            /\ shipped'[e] <= head[e]
  <2>1. shipped' = [e \in Entries |-> IF e \in places THEN from[e] ELSE shipped[e]]
    BY DEF Rebuilt, Ship
  <2>2. \A e \in Entries : shipped[e] <= head[e]
    BY DEF IInv, Records, Recorded
  <2> QED BY <2>1, <2>2, <1>4
<1>7. Runs(r, rest) /\ rest \in Settling /\ \A v \in rest.todo : Exists(v)
  <2>1. rest \in Settling /\ rest.todo \subseteq job[r].todo
    BY <1>3, RestKeeps
  <2> QED BY <2>1 DEF Rebuilt, IInv, Tokens
<1> HIDE DEF rest
<1>8. /\ rest \in Jobs
      /\ Found(r)' /\ Resolved(r)' /\ Overlaps'
  BY <1>2, <1>7, Settles
<1>9. /\ job' \in [Runners -> Jobs]
      /\ \A o \in Runners \ {r} : job'[o] = job[o]
  BY <1>1, <1>7, <1>8, OneRuns
<1>10. faults' \in 0 .. MaxFaults
  BY <1>1 DEF Rebuilt, MayFail, Fault, TypeOK
<1>11. \/ UNCHANGED <<watch, polled>>
       \/ places = targets /\ r = "handler" /\ Settled(w, latest) /\ UNCHANGED polled
       \/ /\ places = targets /\ r = "poll" /\ polled' = [polled EXCEPT ![name] = latest]
          /\ UNCHANGED watch
  BY DEF Rebuilt, Record, Runners
<1>12. /\ watch' \in WatchTypes
       /\ \A e \in Entries :
            \/ watch'[e].built = watch[e].built /\ watch'[e].settledAt = watch[e].settledAt
            \/ /\ places = targets /\ r = "handler" /\ e = name
               /\ watch'[e].built = latest
               /\ watch'[e].settledAt \in {w.token, watch[e].settledAt}
  <2>1. CASE UNCHANGED watch
    BY <2>1, <1>1
  <2>2. CASE places = targets /\ r = "handler" /\ Settled(w, latest)
    <3>1. /\ watch' \in WatchTypes
          /\ \A e \in Entries :
               /\ watch'[e].built = IF e = name THEN latest ELSE watch[e].built
               /\ watch'[e].settledAt =
                    IF e = name /\ w.token # None THEN w.token ELSE watch[e].settledAt
      BY <2>2, <1>1, <1>3, SettledSets
    <3> QED BY <3>1, <2>2
  <2> QED BY <2>1, <2>2, <1>11
<1>13. /\ polled' \in [Entries -> Nat]
       /\ \A e \in Entries :
            polled'[e] = polled[e] \/ (e = name /\ places = targets /\ polled'[e] = latest)
  BY <1>1, <1>3, <1>11 DEF TypeOK
<1>14. TypeOK'
  BY <1>1, <1>2, <1>6, <1>9, <1>10, <1>12, <1>13 DEF TypeOK, WatchTypes
<1>15. ASSUME NEW e \in Entries PROVE Recorded(e)'
  <2>1. /\ Recorded(e) /\ watch[e].settledAt \in Nat /\ watch[e].built \in Nat
        /\ watch'[e].settledAt \in Nat /\ watch'[e].built \in Nat
    BY <1>1, <1>12 DEF IInv, Records, WatchTypes
  <2>2. CASE watch'[e].built = watch[e].built /\ watch'[e].settledAt = watch[e].settledAt
    BY <2>1, <2>2, <1>2, <1>6 DEF Recorded
  <2>3. CASE e = name /\ watch'[e].built = latest /\ r = "handler"
    BY <2>1, <2>3, <1>2, <1>3, <1>5, <1>6, <1>12 DEF Recorded
  <2> QED BY <2>2, <2>3, <1>12
<1>16. ASSUME NEW e \in targets PROVE Deployed(e)'
  <2>1. /\ Deployed(e) /\ e \in Entries
        /\ watch[e].built \in Nat /\ polled[e] \in Nat
    BY <1>1 DEF IInv, Records, TypeOK
  <2>2. 0 < latest /\ (e = name => latest <= from[e])
    BY <1>3, <1>5 DEF Versions, None
  <2>3. None < watch'[e].built /\ None < polled'[e]
    BY <2>1, <2>2, <1>12, <1>13 DEF Deployed, None
  <2>4. ~overlapped => watch'[e].built <= shipped'[e]
    BY <2>1, <2>2, <1>3, <1>4, <1>6, <1>12 DEF Deployed
  <2>5. ~overlapped => polled'[e] <= shipped'[e]
    BY <2>1, <2>2, <1>3, <1>4, <1>6, <1>13 DEF Deployed
  <2> QED BY <2>3, <2>4, <2>5, <1>2 DEF Deployed
<1>17. Records'
  BY <1>2, <1>15, <1>16 DEF Records
<1>18. ASSUME NEW o \in Runners \ {r} PROVE Found(o)' /\ Resolved(o)'
  <2>1. job[o] \in Jobs /\ job'[o] = job[o]
    BY <1>1, <1>9 DEF TypeOK
  <2>2. job[o].is \in {"found", "building"} => job[o].watch.name \in Entries
    BY <2>1, JobKinds DEF Watches
  <2>3. o = "handler" => \A e \in Entries : watch'[e].built = watch[e].built
    BY <1>12 DEF Runners
  <2>4. Found(o)'
    BY <2>1, <2>2, <2>3, <1>2 DEF IInv, Found
  <2>5. job[o].is = "building" => overlapped
    BY <1>3 DEF IInv, Overlaps, Runners
  <2>6. Resolved(o)'
    BY <2>1, <2>5, <1>2 DEF IInv, Resolved
  <2> QED BY <2>4, <2>6
<1> QED BY <1>2, <1>7, <1>8, <1>14, <1>17, <1>18, JobGoesOn

-----------------------------------------------------------------------------
(* The theorems.                                                           *)

LEMMA StepKeeps == IInv /\ [Next]_vars => IInv'
<1> SUFFICES ASSUME IInv, [Next]_vars PROVE IInv'
  OBVIOUS
<1>1. CASE UNCHANGED vars
  BY <1>1, StutterKeeps
<1>2. CASE ServiceStep \/ ServicePolls(FALSE) \/ LinkEnds("retired") \/ Interrupt
  <2>1. ASSUME NEW e \in Entries, Moved(e) PROVE IInv'
    BY <2>1, MovedKeeps
  <2>2. ASSUME NEW lost \in BOOLEAN, ServicePolls(lost) PROVE IInv'
    BY <2>2, ServiceSends
  <2>3. CASE \/ \E others \in SUBSET held : Reregistered(others)
             \/ \E e \in Entries : PollFailed(e) \/ Recovered(e)
             \/ LinkEnd \/ LinkEnds("retired") \/ Closed \/ Interrupt
    BY <2>3, LoopTurns DEF LinkEnd
  <2> QED BY <1>2, <2>1, <2>2, <2>3 DEF ServiceStep
<1>3. CASE StreamStep
  BY <1>3, LoopTurns, ConnectedKeeps DEF StreamStep
<1>4. ASSUME NEW r \in Runners, RunnerStep(r) PROVE IInv'
  BY <1>4, RoundsKeep, RebuildKeeps, RebuiltKeeps DEF RunnerStep
<1>5. CASE HandlerStep
  <2>1. CASE RunnerStep("handler")
    BY <2>1, <1>4 DEF Runners
  <2>2. CASE Handle
    BY <2>2, HandleKeeps
  <2>3. CASE \E w \in job["handler"].todo : Skip(w)
    BY <2>3, RoundsKeep DEF Runners
  <2>4. CASE \E w \in job["handler"].todo, failed \in BOOLEAN : Ask(w, failed)
    BY <2>4, AskKeeps
  <2> QED BY <1>5, <2>1, <2>2, <2>3, <2>4 DEF HandlerStep
<1>6. CASE PollStep
  <2>1. CASE RunnerStep("poll")
    BY <2>1, <1>4 DEF Runners
  <2>2. CASE PollRound
    BY <2>2, RoundsKeep DEF Runners
  <2>3. CASE \E w \in job["poll"].todo, failed \in BOOLEAN : PollAsk(w, failed)
    BY <2>3, PollAskKeeps
  <2>4. CASE \E elapsed \in BOOLEAN : PollEnds(elapsed)
    BY <2>4, LoopTurns
  <2> QED BY <1>6, <2>1, <2>2, <2>3, <2>4 DEF PollStep
<1> QED BY <1>1, <1>2, <1>3, <1>5, <1>6 DEF Next

\* Every variable of the loop keeps its type, whatever the service sends and when.
THEOREM LoopTypeCorrect == Spec => []TypeOK
<1>1. IInv => TypeOK
  BY DEF IInv
<1> QED BY <1>1, InitKeeps, StepKeeps, PTL DEF Spec

\* What the loop takes as settled was built; and what it records as built was shipped,
\* whichever frames are lost or late, calls fail, or rebuilds deploy in part, until the
\* handler of a late frame and the poll rebuild at the same time.
THEOREM RecordsAreTrue == Spec => []SettledIsShipped
<1>1. IInv => SettledIsShipped
  BY DEF IInv, Records, Recorded, Deployed, SettledIsShipped
<1> QED BY <1>1, InitKeeps, StepKeeps, PTL DEF Spec
=============================================================================
