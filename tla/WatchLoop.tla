------------------------------ MODULE WatchLoop ------------------------------
(* `deploy run --watch` in a terminal: after the first deploy it registers *)
(* the base places of its target, holds the watch service's stream, and    *)
(* rebuilds when it is told that one has moved (nevermore-cli/src/utils/   *)
(* watch, and the end of commands/deploy-command/index.ts). When streaming *)
(* is not possible, or ends, it polls. The service, its clients elsewhere  *)
(* and the base places are external. A version stands for the token the    *)
(* service knows it by; how long anything takes is left out.               *)
EXTENDS Naturals, Sequences, FiniteSets
LOCAL INSTANCE FiniteSetsExt

CONSTANTS Entries,    \* base places that are watched
          Narrow,     \* the selections of them a deploy may be narrowed to
          MaxMoves,   \* new versions of base places
          MaxFaults,  \* dropped links, failed calls, failed rebuilds
          MaxQueue    \* frames that wait for their handler

ASSUME LoopAssumption ==
    /\ Narrow \subseteq SUBSET Entries
    /\ MaxMoves \in Nat /\ MaxFaults \in Nat \ {0} /\ MaxQueue \in Nat \ {0}

VARIABLES head,      \* external: the version each base place is at
          held,      \* external: entries the monitor holds
          readable,  \* external: entries the service can read
          seen,      \* external: the version the service last saw
          targets,   \* the entries whose places a pass deploys
          shipped,   \* the version each place was last built from
          phase,     \* "register", "stream", "poll", "end"
          link,      \* "down", "open", and "settled": ended, its handlers draining
          ending,    \* how the last link ended
          closing,   \* an aborted link's socket still hears what is on its way
          aborted,   \* the stream's signal
          gaveUp,    \* the stream was abandoned as unobservable
          watch,     \* built, settledAt and unreadable of each watch
          tail,      \* frames whose handlers have not run
          job,       \* the handler and the round of the poll that run
          polled,    \* the poll's own record of what it has built
          overlapped,  \* history: a pass has begun beside another
          stopped,   \* the loops during which the user has pressed Ctrl-C
          faults

service == <<head, held, readable, seen>>
socket == <<link, ending, closing>>
stream == <<socket, aborted, gaveUp, watch, tail>>
work == <<job, polled, overlapped>>
vars == <<service, targets, shipped, phase, stream, work, stopped, faults>>

None == 0
Runners == {"handler", "poll"}
NoJob == [is |-> "idle", of |-> "none", todo |-> {}]

\* Registration is over: what was deployed is the baseline. A narrowed deploy also
\* watches its siblings, here never deployed. What the service cannot read from the
\* start is a fault.
Init ==
    /\ targets \in Narrow
    /\ head = [e \in Entries |-> 1]
    /\ shipped = [e \in Entries |-> IF e \in targets THEN 1 ELSE None]
    /\ readable \in SUBSET Entries /\ held = Entries
    /\ seen = [e \in Entries |-> None]
    /\ phase = "register"
    /\ link = "down" /\ ending = "none" /\ closing = FALSE
    /\ aborted = FALSE /\ gaveUp = FALSE
    /\ watch = [e \in Entries |->
                  [built |-> shipped[e], settledAt |-> None, unreadable |-> FALSE]]
    /\ tail = <<>>
    /\ job = [r \in Runners |-> NoJob]
    /\ polled = shipped
    /\ overlapped = FALSE
    /\ stopped = {}
    /\ faults = IF readable = Entries THEN 0 ELSE 1

Fault == faults < MaxFaults /\ faults' = faults + 1
MayFail(failed) == IF failed THEN Fault ELSE UNCHANGED faults

-----------------------------------------------------------------------------
(* The service.                                                            *)

\* The listeners of a socket stay until it is closed, after an abort too.
Hears == link = "open" \/ closing

\* What the service does matters while somebody may hear of it.
Served == phase = "stream" \/ closing

\* A notification reaches the handlers of a link, in order, or is lost with the link.
\* After an abort it is late: it is chained to a tail that nobody waits for any more.
Deliver(watches, lost) ==
    tail' = IF Hears /\ ~lost
              THEN Append(tail, [is |-> IF closing THEN "late" ELSE "notify",
                                 watches |-> watches])
              ELSE tail

Moved(e) ==
    /\ MapThenSumSet(LAMBDA o : head[o] - 1, Entries) < MaxMoves
    /\ head' = [head EXCEPT ![e] = @ + 1]
    /\ UNCHANGED <<held, readable, seen, targets, shipped, phase, stream, work, stopped,
                   faults>>

\* The service polls its sources, and notifies whoever listens of those that have
\* moved. Its own record moves whether or not anybody does.
ServicePolls(lost) ==
    LET moved == {e \in readable \cap held : seen[e] # head[e]}
        known == {e \in moved : seen[e] # None}
    IN /\ Served /\ moved # {}
       /\ Len(tail) < MaxQueue
       /\ seen' = [e \in Entries |-> IF e \in moved THEN head[e] ELSE seen[e]]
       /\ MayFail(lost)
       /\ IF known = {} THEN UNCHANGED tail
          ELSE Deliver({[name |-> e, token |-> head[e]] : e \in known}, lost)
       /\ UNCHANGED <<head, held, readable, targets, shipped, phase, socket, aborted,
                      gaveUp, watch, work, stopped>>

\* What a connection starts with: every watch of the monitor.
Ready == [is |-> "ready", unread |-> held \ readable,
          watches |-> {[name |-> e, token |-> seen[e]] : e \in held}]

Connected ==
    /\ phase = "stream" /\ link = "down" /\ ~aborted
    /\ link' = "open"
    /\ tail' = <<Ready>>
    /\ UNCHANGED <<service, targets, shipped, phase, ending, closing, aborted, gaveUp,
                   watch, work, stopped, faults>>

\* The socket of an aborted link is closed at last.
Closed ==
    /\ closing
    /\ closing' = FALSE
    /\ UNCHANGED <<service, targets, shipped, phase, link, ending, aborted, gaveUp, watch,
                   tail, work, stopped, faults>>

\* Another checkout registers the monitor again, with other places.
Reregistered(others) ==
    /\ Served /\ Fault
    /\ others # {}
    /\ held' = held \ others
    /\ UNCHANGED <<head, readable, seen, targets, shipped, phase, stream, work, stopped>>

-----------------------------------------------------------------------------
(* Giving the stream up.                                                   *)

\* An abort begins to close an open link and settles it: the handlers of the frames
\* that have arrived still drain.
Abort(marked) ==
    /\ aborted' = TRUE
    /\ IF link = "open" THEN link' = "settled" /\ ending' = "closed" /\ closing' = TRUE
       ELSE UNCHANGED socket
    /\ watch' = marked

Marked(names) ==
    [e \in Entries |-> IF e \in names THEN [watch[e] EXCEPT !.unreadable = TRUE]
                       ELSE watch[e]]

Dead(marked) == \A e \in Entries : marked[e].unreadable

\* Mutant: nothing gives the stream up.
MarkOnly(names) ==
    /\ watch' = Marked(names)
    /\ UNCHANGED <<socket, aborted, gaveUp>>

\* markUnreadable and abandonIfNothingLeftToWatch: when no watch is left that could
\* ever fire, the stream is given up.
MarkAndAbandon(names) ==
    IF Dead(Marked(names))
      THEN Abort(Marked(names)) /\ gaveUp' = TRUE
      ELSE watch' = Marked(names) /\ UNCHANGED <<socket, aborted, gaveUp>>

\* The service fails to read a source several times running, and says so.
PollFailed(e) ==
    /\ Served /\ Fault
    /\ e \in readable
    /\ readable' = readable \ {e}
    /\ IF Hears /\ e \in held THEN MarkAndAbandon({e})
       ELSE UNCHANGED <<socket, aborted, gaveUp, watch>>
    /\ UNCHANGED <<head, held, seen, targets, shipped, phase, tail, work, stopped>>

\* It can read it again, which no event says.
Recovered(e) ==
    /\ Served /\ e \notin readable
    /\ readable' = readable \cup {e}
    /\ UNCHANGED <<head, held, seen, targets, shipped, phase, stream, work, stopped,
                   faults>>

-----------------------------------------------------------------------------
(* The stream.                                                             *)

\* The link ends: dropped, retired by the service, refused for good, or its monitor is
\* gone. A handshake that fails ends it too.
LinkEnds(how) ==
    /\ phase = "stream"
    /\ \/ link = "open"
       \/ link = "down" /\ ~aborted /\ how \in {"dropped", "rejected"}
    /\ MayFail(how # "retired")
    /\ link' = "settled"
    /\ ending' = how
    /\ UNCHANGED <<service, targets, shipped, phase, closing, aborted, gaveUp, watch,
                   tail, work, stopped>>

\* A stream that is over for good leaves the watching to the poll: it was given up, its
\* monitor is gone or it was refused. Only Ctrl-C ends the command.
AfterStream ==
    phase' = IF ending \in {"gone", "rejected"} \/ gaveUp THEN "poll" ELSE "end"

\* The handlers of the frames that came before the end have drained.
HaveDrained ==
    /\ \A i \in 1 .. Len(tail) : tail[i].is = "late"
    /\ job["handler"].of \in {"none", "late"}

\* A monitor that is gone and a refusal are final; all else is tried again, unless the
\* signal says stop.
Drained ==
    /\ phase = "stream" /\ link = "settled"
    /\ HaveDrained
    /\ link' = "down" /\ ending' = "none"
    /\ IF ending \in {"gone", "rejected"} \/ aborted THEN AfterStream
                                                  ELSE UNCHANGED phase
    /\ UNCHANGED <<service, targets, shipped, closing, aborted, gaveUp, watch, tail,
                   work, stopped, faults>>

\* The signal came while there was no link.
StopsWaiting ==
    /\ phase = "stream" /\ link = "down" /\ aborted
    /\ AfterStream
    /\ UNCHANGED <<service, targets, shipped, stream, work, stopped, faults>>

-----------------------------------------------------------------------------
(* What the handlers, one at a time, and the poll have in common. A handler *)
(* of a late frame runs on beside whatever follows the stream.             *)

Runs(r, next) == job' = [job EXCEPT ![r] = next]

Ends(r) ==
    /\ job[r].is = "settling" /\ job[r].todo = {}
    /\ Runs(r, NoJob)
    /\ UNCHANGED <<service, targets, shipped, phase, stream, polled, overlapped, stopped,
                   faults>>

Rest(r, w) == [is |-> "settling", of |-> job[r].of, todo |-> job[r].todo \ {w}]

FoundMove(r, w, latest) ==
    [is |-> "found", of |-> job[r].of, todo |-> job[r].todo, watch |-> w,
     latest |-> latest]

\* Mutant: a pass builds the place from the version that was found.
RebuildFound(r) ==
    /\ job[r].is = "found"
    /\ Runs(r, [is |-> "building", of |-> job[r].of, todo |-> job[r].todo,
                watch |-> job[r].watch, latest |-> job[r].latest,
                from |-> [head EXCEPT ![job[r].watch.name] = job[r].latest]])
    /\ overlapped' = (overlapped \/ \E o \in Runners \ {r} : job[o].is = "building")
    /\ UNCHANGED <<service, targets, shipped, phase, stream, polled, stopped, faults>>

\* redeployAsync: a pass of its own, that resolves every base place anew.
Rebuild(r) ==
    /\ job[r].is = "found"
    /\ Runs(r, [is |-> "building", of |-> job[r].of, todo |-> job[r].todo,
                watch |-> job[r].watch, latest |-> job[r].latest, from |-> head])
    /\ overlapped' = (overlapped \/ \E o \in Runners \ {r} : job[o].is = "building")
    /\ UNCHANGED <<service, targets, shipped, phase, stream, polled, stopped, faults>>

\* The places of a pass that has failed may have been deployed in part.
Ship(r, places) ==
    shipped' = [e \in Entries |-> IF e \in places THEN job[r].from[e] ELSE shipped[e]]

\* settle(): a token that is known is not asked about again.
Settled(w, built) ==
    watch' = [watch EXCEPT ![w.name].built = built,
                           ![w.name].settledAt = IF w.token = None THEN @ ELSE w.token]

\* A handler and the poll keep records of their own.
Record(r) ==
    IF r = "handler" THEN Settled(job[r].watch, job[r].latest) /\ UNCHANGED polled
    ELSE /\ polled' = [polled EXCEPT ![job[r].watch.name] = job[r].latest]
         /\ UNCHANGED watch

\* Mutant: a failed rebuild is recorded as well.
RebuiltRegardless(r, places) ==
    /\ job[r].is = "building"
    /\ MayFail(places # targets)
    /\ Ship(r, places)
    /\ Runs(r, Rest(r, job[r].watch))
    /\ Record(r)
    /\ UNCHANGED <<service, targets, phase, socket, aborted, gaveUp, tail, overlapped,
                   stopped>>

\* Only a rebuild that succeeded is recorded.
Rebuilt(r, places) ==
    /\ job[r].is = "building"
    /\ MayFail(places # targets)
    /\ Ship(r, places)
    /\ Runs(r, Rest(r, job[r].watch))
    /\ IF places = targets THEN Record(r) ELSE UNCHANGED <<watch, polled>>
    /\ UNCHANGED <<service, targets, phase, socket, aborted, gaveUp, tail, overlapped,
                   stopped>>

-----------------------------------------------------------------------------
(* The handlers, and settleAsync.                                          *)

\* onReadyAsync marks what the monitor does not hold and what it cannot read, and goes
\* on to settle the rest; onNotifyAsync settles one.
Handle ==
    /\ job["handler"].is = "idle" /\ tail # <<>>
    /\ LET frame == Head(tail)
           held1 == {w.name : w \in frame.watches}
           lost == IF frame.is = "ready" THEN (Entries \ held1) \cup frame.unread
                   ELSE {}
       IN /\ MarkAndAbandon(lost)
          /\ Runs("handler",
                  IF Dead(watch') /\ frame.is = "ready" THEN NoJob
                  ELSE [is |-> "settling", of |-> frame.is, todo |-> frame.watches])
    /\ tail' = Tail(tail)
    /\ UNCHANGED <<service, targets, shipped, phase, polled, overlapped, stopped, faults>>

\* A watch is passed over when the token says that nothing has moved, or when it has
\* been marked unreadable since.
PassedOver(w) ==
    \/ w.token # None /\ watch[w.name].settledAt = w.token
    \/ job["handler"].of = "ready" /\ watch[w.name].unreadable

Skip(w) ==
    /\ job["handler"].is = "settling" /\ w \in job["handler"].todo
    /\ PassedOver(w)
    /\ Runs("handler", Rest("handler", w))
    /\ UNCHANGED <<service, targets, shipped, phase, stream, polled, overlapped, stopped,
                   faults>>

\* Open Cloud says what the place is at; a call that fails leaves it to the next frame.
Ask(w, failed) ==
    /\ job["handler"].is = "settling" /\ w \in job["handler"].todo
    /\ ~PassedOver(w)
    /\ MayFail(failed)
    /\ LET built == watch[w.name].built
           latest == head[w.name]
       IN IF failed THEN Runs("handler", Rest("handler", w)) /\ UNCHANGED watch
          ELSE IF built \in {None, latest}
                 THEN Runs("handler", Rest("handler", w)) /\ Settled(w, latest)
                 ELSE Runs("handler", FoundMove("handler", w, latest)) /\ UNCHANGED watch
    /\ UNCHANGED <<service, targets, shipped, phase, socket, aborted, gaveUp, tail,
                   polled, overlapped, stopped>>

-----------------------------------------------------------------------------
(* The command, and runLocalWatchLoopAsync.                                *)

\* tryRegisterNotifyWatchesAsync: without it the command polls.
Register(ok) ==
    /\ phase = "register"
    /\ phase' = IF ok THEN "stream" ELSE "poll"
    /\ UNCHANGED <<service, targets, shipped, stream, work, stopped, faults>>

EveryEntry ==
    [is |-> "settling", of |-> "poll",
     todo |-> {[name |-> e, token |-> None] : e \in Entries}]

\* Mutant: only the sleep hears the signal.
PollRoundAgain ==
    /\ phase = "poll" /\ job["poll"].is = "idle"
    /\ Runs("poll", EveryEntry)
    /\ UNCHANGED <<service, targets, shipped, phase, stream, polled, overlapped, stopped,
                   faults>>

\* A round of the poll: every entry is asked about, in turn.
PollRound ==
    /\ phase = "poll" /\ job["poll"].is = "idle" /\ "poll" \notin stopped
    /\ Runs("poll", EveryEntry)
    /\ UNCHANGED <<service, targets, shipped, phase, stream, polled, overlapped, stopped,
                   faults>>

PollAsk(w, failed) ==
    /\ phase = "poll" /\ job["poll"].is = "settling" /\ w \in job["poll"].todo
    /\ MayFail(failed)
    /\ LET latest == head[w.name]
       IN IF failed \/ "poll" \in stopped \/ polled[w.name] = latest
            THEN Runs("poll", Rest("poll", w)) /\ UNCHANGED polled
          ELSE IF polled[w.name] = None
                 THEN /\ polled' = [polled EXCEPT ![w.name] = latest]
                      /\ Runs("poll", Rest("poll", w))
                 ELSE Runs("poll", FoundMove("poll", w, latest)) /\ UNCHANGED polled
    /\ UNCHANGED <<service, targets, shipped, phase, stream, overlapped, stopped>>

\* The user stops it, or the lease has elapsed.
PollEnds(elapsed) ==
    /\ phase = "poll" /\ job["poll"].is = "idle"
    /\ elapsed \/ "poll" \in stopped
    /\ phase' = "end"
    /\ UNCHANGED <<service, targets, shipped, stream, work, stopped, faults>>

\* Ctrl-C is heard by the loop that runs; it ends after what it is doing.
Interrupt ==
    /\ phase \in {"stream", "poll"} \ stopped
    /\ stopped' = stopped \cup {phase}
    /\ IF phase = "stream" THEN Abort(watch) ELSE UNCHANGED <<socket, aborted, watch>>
    /\ UNCHANGED <<service, targets, shipped, phase, gaveUp, tail, work, faults>>

-----------------------------------------------------------------------------
LinkEnd == \E how \in {"dropped", "rejected", "gone"} : LinkEnds(how)

ServiceStep ==
    \/ \E e \in Entries : Moved(e) \/ Recovered(e) \/ PollFailed(e)
    \/ ServicePolls(TRUE)
    \/ \E others \in SUBSET held : Reregistered(others)
    \/ LinkEnd \/ Closed

StreamStep == Connected \/ Drained \/ StopsWaiting \/ \E ok \in BOOLEAN : Register(ok)

RunnerStep(r) ==
    \/ Ends(r) \/ Rebuild(r)
    \/ \E places \in SUBSET targets : Rebuilt(r, places)

HandlerStep ==
    \/ RunnerStep("handler") \/ Handle
    \/ \E w \in job["handler"].todo :
         Skip(w) \/ \E failed \in BOOLEAN : Ask(w, failed)

PollStep ==
    \/ RunnerStep("poll") \/ PollRound
    \/ \E w \in job["poll"].todo, failed \in BOOLEAN : PollAsk(w, failed)
    \/ \E elapsed \in BOOLEAN : PollEnds(elapsed)

Next ==
    \/ ServiceStep \/ ServicePolls(FALSE) \/ LinkEnds("retired")
    \/ StreamStep \/ HandlerStep \/ PollStep
    \/ Interrupt

Spec == Init /\ [][Next]_vars

\* The stream, its handlers and the poll go on, each by itself; the service retires a
\* link some time, and polls: strongly fair, for it does not wait for the client's
\* handlers, whose queue is bounded here.
FairSpec ==
    /\ Spec
    /\ WF_vars(StreamStep) /\ WF_vars(HandlerStep) /\ WF_vars(PollStep)
    /\ SF_vars(ServicePolls(FALSE))
    /\ WF_vars(LinkEnds("retired"))

-----------------------------------------------------------------------------
(* Types, and what the records of the loop mean.                           *)

Versions == Nat \ {None}
Watches == [name : Entries, token : Nat]
Frames == [is : {"notify", "late"}, watches : SUBSET Watches]
          \cup [is : {"ready"}, unread : SUBSET Entries, watches : SUBSET Watches]
Origins == {"ready", "notify", "late", "poll"}
Settling == [is : {"settling"}, of : Origins, todo : SUBSET Watches]
Finding == [is : {"found"}, of : Origins, todo : SUBSET Watches, watch : Watches,
            latest : Versions]
Building == [is : {"building"}, of : Origins, todo : SUBSET Watches,
             watch : Watches, latest : Versions, from : [Entries -> Versions]]
Jobs == {NoJob} \cup Settling \cup Finding \cup Building

TypeOK ==
    /\ head \in [Entries -> Versions]
    /\ held \in SUBSET Entries /\ readable \in SUBSET Entries
    /\ seen \in [Entries -> Nat]
    /\ targets \in SUBSET Entries
    /\ shipped \in [Entries -> Nat]
    /\ phase \in {"register", "stream", "poll", "end"}
    /\ link \in {"down", "open", "settled"}
    /\ ending \in {"none", "closed", "dropped", "retired", "rejected", "gone"}
    /\ closing \in BOOLEAN /\ aborted \in BOOLEAN /\ gaveUp \in BOOLEAN
    /\ watch \in [Entries -> [built : Nat, settledAt : Nat, unreadable : BOOLEAN]]
    /\ tail \in Seq(Frames)
    /\ job \in [Runners -> Jobs]
    /\ polled \in [Entries -> Nat]
    /\ overlapped \in BOOLEAN
    /\ stopped \in SUBSET {"stream", "poll"}
    /\ faults \in 0 .. MaxFaults

\* A change is taken as settled only when the place was built here from it or from a
\* later version; and what counts as built has been deployed, for the places a pass
\* deploys, unless a pass has begun beside another: then the older may land last.
SettledIsShipped ==
    /\ \A e \in Entries : watch[e].settledAt <= watch[e].built
    /\ overlapped \/ \A e \in targets : /\ watch[e].built <= shipped[e]
                                        /\ polled[e] <= shipped[e]
=============================================================================
