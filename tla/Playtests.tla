------------------------------ MODULE Playtests ------------------------------
(***************************************************************************)
(* The playtest commands of studio-bridge (commands/playtest): several     *)
(* callers start, restart, run code in, stop and change the players of the *)
(* playtest of one Studio.  A Studio runs one playtest at a time; its      *)
(* DataModels connect to the bridge as sessions of their own, under ids    *)
(* that the next playtest uses again, so that only the playtest id they    *)
(* register with tells whose they are.  StudioTestService answers the      *)
(* request that starts a playtest when it ENDS, or when it refuses it.     *)
(***************************************************************************)
EXTENDS Naturals, FiniteSets

CONSTANTS
  Callers,      \* processes that use the bridge
  Commands,     \* what each may ask: sets of CommandType
  MaxPlayers,   \* bound: players of a playtest, named 1, 2, ... as they join
  NoSession,    \* no session
  StartAttempts,\* START_ATTEMPTS of restart
  MaxCommands,  \* bound: commands of a caller
  MaxFaults     \* bound: connections lost, requests timed out, ends by the user

\* `mode` "" and `players` 0 stand for an option left out.
CommandType ==
  [kind: {"start", "run", "restart", "stop", "add", "remove"},
   mode: {"", "play", "run"}, players: Nat, context: {"server", "client"}]

\* A connection of a DataModel, and the playtest id it registered with.
SessionType ==
  [context: {"server", "client"}, player: Nat, test: Nat, connection: Nat]

ASSUME BoundsAssumption ==
  /\ \A c \in Callers : Commands[c] \subseteq CommandType
  /\ NoSession \notin SessionType
  /\ StartAttempts \in Nat \ {0}
  /\ MaxCommands \in Nat
  /\ MaxPlayers \in Nat
  /\ MaxFaults \in Nat

VARIABLES
  test,      \* the playtest of the Studio
  sessions,  \* the sessions of playtests connected to the bridge
  calls,     \* what each caller is doing
  lastId,    \* playtest ids drawn so far
  faults,    \* of those so far
  troubled   \* history: a fault has hit the running playtest

playtestsVars == <<test, sessions, calls, lastId, faults, troubled>>

Names == 1..MaxPlayers

NoPlaytest == [id |-> 0, phase |-> "none", mode |-> "run", asked |-> 0,
               wanted |-> 0, players |-> {}, leaving |-> {}]

Idle(left) ==
  [step |-> "idle", kind |-> "none", mode |-> "", players |-> 0,
   context |-> "server", left |-> left, id |-> 0, reply |-> "none",
   server |-> NoSession, clients |-> {}, live |-> 0, attempt |-> 1,
   result |-> "none"]

PlaytestsInit ==
  /\ test = NoPlaytest
  /\ sessions = {}
  /\ calls = [c \in Callers |-> Idle(MaxCommands)]
  /\ lastId = 0
  /\ faults = 0
  /\ troubled = FALSE

Set(c, call) == calls' = [calls EXCEPT ![c] = call]

\* The command has returned; a request in flight still says what to start.
Done(c, result) ==
  LET over == [calls[c] EXCEPT !.step = "done", !.result = result, !.live = 0,
                 !.clients = {}, !.server = NoSession, !.attempt = 1]
  IN  Set(c, IF over.reply = "asked" THEN over
             ELSE [over EXCEPT !.reply = "none", !.mode = "", !.players = 0])

Connected(session) == session \in sessions

\* The session is connected and its DataModel is there to answer.
Answers(session) == Connected(session) /\ session.test = test.id

Servers == {s \in sessions : s.context = "server"}

----------------------------------------------------------------------------
(* Starting a playtest *)

\* How many client sessions the start waits for.
ClientCount(call) ==
  IF call.kind = "run" /\ call.context = "server" THEN 0
  ELSE IF call.players > 0 THEN call.players
  ELSE IF call.mode = "play" THEN 1 ELSE 0

\* Asks the edit session, under a new playtest id, and waits for sessions.
Launch(c, call) ==
  /\ lastId' = lastId + 1
  /\ Set(c, [call EXCEPT !.step = "waiting", !.id = lastId + 1,
                         !.reply = "asked", !.server = NoSession,
                         !.clients = {}])
  /\ UNCHANGED <<test, sessions, faults, troubled>>

HasContext(command) == command.mode = "play" \/ command.context = "server"

Opened(c, command) ==
  [calls[c] EXCEPT !.kind = command.kind, !.mode = command.mode,
     !.players = command.players, !.context = command.context,
     !.left = @ - 1, !.server = NoSession, !.clients = {}, !.live = 0,
     !.attempt = 1, !.reply = "none", !.id = 0, !.result = "none"]

Free(c) == calls[c].step \in {"idle", "done"} /\ calls[c].left > 0

StartPlaytest(c, command) ==
  /\ Free(c)
  /\ command.kind \in {"start", "run"}
  /\ HasContext(command)
  /\ Launch(c, Opened(c, command))

\* The command finds the server session of the running playtest, or reports
\* that none is running.
WithServer(c, call, step) ==
  /\ IF Servers = {}
       THEN Set(c, [call EXCEPT !.step = "done", !.result = "failed"])
       ELSE \E s \in Servers :
              Set(c, [call EXCEPT !.step = step, !.server = s])
  /\ UNCHANGED <<test, sessions, lastId, faults, troubled>>

Stop(c, command) ==
  /\ Free(c)
  /\ command.kind = "stop"
  /\ WithServer(c, Opened(c, command), "ending")

ChangePlayers(c, command) ==
  /\ Free(c)
  /\ command.kind \in {"add", "remove"}
  /\ WithServer(c, Opened(c, command), command.kind)

\* A playtest that runs is ended first, its players counted unless an option
\* says what to start.
Restart(c, command) ==
  /\ Free(c)
  /\ command.kind = "restart"
  /\ LET call == Opened(c, command)
     IN  IF Servers = {}
         THEN Launch(c, [call EXCEPT !.mode = IF @ = "" THEN "play" ELSE @])
         ELSE WithServer(c, call, IF call.mode = "" /\ call.players = 0
                                    THEN "counting" ELSE "ending")

Count(c) ==
  /\ calls[c].step = "counting"
  /\ \/ /\ Answers(calls[c].server)
        /\ Set(c, [calls[c] EXCEPT !.step = "ending",
                                   !.live = Cardinality(test.players)])
     \/ /\ ~Answers(calls[c].server)
        /\ Set(c, [calls[c] EXCEPT !.step = "ending"])
  /\ UNCHANGED <<test, sessions, lastId, faults, troubled>>

\* The sessions the start waited for are there: what the command does next.
AfterStart(call) ==
  IF call.kind # "run"
    THEN [call EXCEPT !.step = "done", !.result = "ok"]
    ELSE [call EXCEPT !.step = IF call.mode = "play" /\ call.context = "server"
                                 THEN "joining" ELSE "executing"]

Enough(call) ==
  call.server # NoSession /\ Cardinality(call.clients) >= ClientCount(call)

\* Mutant: the sessions are told apart by their Studio alone.
ExpectsAny(call, s) == call.step = "waiting"

\* Whether a session that connects is one the call waits for.
Expects(call, s) == call.step = "waiting" /\ s.test = call.id

\* What the waiting call makes of a session that connects.
Hears(call, s) ==
  LET found == IF s.context = "server"
                 THEN [call EXCEPT !.server = s]
               ELSE IF \E known \in call.clients : known.player = s.player
                 THEN call
                 ELSE [call EXCEPT !.clients = @ \union {s}]
  IN  IF Enough(found) THEN AfterStart(found) ELSE found

\* The request that started the playtest is answered: it is over, it was
\* refused, or the edit session is gone.  restart tries again when the last
\* playtest is still winding down.
StartAnswered(c) ==
  /\ calls[c].step = "waiting"
  /\ calls[c].reply \in {"refused", "ended", "lost"}
  /\ IF /\ calls[c].reply = "refused"
        /\ calls[c].kind = "restart"
        /\ calls[c].attempt < StartAttempts
       THEN Set(c, [calls[c] EXCEPT !.step = "retrying"])
       ELSE Done(c, "failed")
  /\ UNCHANGED <<test, sessions, lastId, faults, troubled>>

Retry(c) ==
  /\ calls[c].step = "retrying"
  /\ Launch(c, [calls[c] EXCEPT !.attempt = @ + 1])

\* Not every session connected in time.  The playtest is ended, which takes
\* its server session; without one the user is told to stop it in Studio.
StartTimesOut(c) ==
  /\ calls[c].step = "waiting"
  /\ IF Connected(calls[c].server)
       THEN Set(c, [calls[c] EXCEPT !.step = "ending", !.result = "failed"])
       ELSE Done(c, "said")
  /\ UNCHANGED <<test, sessions, lastId, faults, troubled>>

----------------------------------------------------------------------------
(* Running code in a playtest *)

\* The playtest is ended if its server session is still connected.
TryEnd(c, result) ==
  IF Connected(calls[c].server)
    THEN Set(c, [calls[c] EXCEPT !.step = "ending", !.result = result])
    ELSE Done(c, result)

PlayerJoined(c) ==
  /\ calls[c].step = "joining"
  /\ Answers(calls[c].server)
  /\ test.players # {}
  /\ Set(c, [calls[c] EXCEPT !.step = "executing"])
  /\ UNCHANGED <<test, sessions, lastId, faults, troubled>>

\* Mutant: the error is thrown on with the playtest left as it is.
NoPlayerThrows(c) ==
  /\ calls[c].step = "joining"
  /\ Done(c, "failed")
  /\ UNCHANGED <<test, sessions, lastId, faults, troubled>>

NoPlayerJoins(c) ==
  /\ calls[c].step = "joining"
  /\ TryEnd(c, "failed")
  /\ UNCHANGED <<test, sessions, lastId, faults, troubled>>

Target(call) ==
  IF call.context = "server" THEN {call.server} ELSE call.clients

Executed(c) ==
  /\ calls[c].step = "executing"
  /\ \E s \in Target(calls[c]) : Answers(s) /\ TryEnd(c, "ok")
  /\ UNCHANGED <<test, sessions, lastId, faults, troubled>>

ExecuteFails(c) ==
  /\ calls[c].step = "executing"
  /\ TryEnd(c, "failed")
  /\ UNCHANGED <<test, sessions, lastId, faults, troubled>>

----------------------------------------------------------------------------
(* Ending a playtest *)

\* What restart starts next, from what the playtest said of itself.
Renewed(call) ==
  [call EXCEPT
     !.mode = IF @ # "" THEN @ ELSE test.mode,
     !.players = IF @ > 0 THEN @
                 ELSE IF call.mode = "" /\ test.asked > 0
                   THEN IF call.live > 0 THEN call.live ELSE test.asked
                   ELSE 0]

\* The server session answers, then ends the playtest it belongs to.
EndAnswered(c) ==
  /\ calls[c].step = "ending"
  /\ Answers(calls[c].server)
  /\ test' = [test EXCEPT !.phase = IF @ = "on" THEN "ending" ELSE @]
  /\ LET call == [calls[c] EXCEPT !.step = "closing"]
     IN  Set(c, IF call.kind = "restart" /\ call.id = 0 THEN Renewed(call)
                                                        ELSE call)
  /\ UNCHANGED <<sessions, lastId, faults, troubled>>

\* The session is gone, or its DataModel is and the request times out.  run
\* has kept its result; the failure of a failed script hides this one.
EndFails(c) ==
  /\ calls[c].step = "ending"
  /\ \/ ~Answers(calls[c].server) /\ UNCHANGED <<faults, troubled>>
     \/ /\ Answers(calls[c].server)
        /\ faults < MaxFaults
        /\ faults' = faults + 1
        /\ troubled' = TRUE
  /\ Done(c, IF calls[c].kind = "run" /\ calls[c].result = "ok"
               THEN "said" ELSE "failed")
  /\ UNCHANGED <<test, sessions, lastId>>

Closed(c) ==
  /\ calls[c].step = "closing"
  /\ ~Connected(calls[c].server)
  /\ CASE calls[c].kind = "stop" -> Done(c, "ok") /\ UNCHANGED lastId
       [] calls[c].kind = "restart" /\ calls[c].id = 0 ->
            /\ lastId' = lastId + 1
            /\ Set(c, [calls[c] EXCEPT !.step = "waiting", !.id = lastId + 1,
                         !.reply = "asked", !.server = NoSession])
       [] OTHER -> Done(c, calls[c].result) /\ UNCHANGED lastId
  /\ UNCHANGED <<test, sessions, faults, troubled>>

\* Mutant: the wait for the session to close has no timer.
CloseWaits(c) == calls[c].step = "closing" /\ FALSE

CloseTimesOut(c) ==
  /\ calls[c].step = "closing"
  /\ Connected(calls[c].server)
  /\ Done(c, IF calls[c].kind = "run" /\ calls[c].result = "ok"
               THEN "said" ELSE "failed")
  /\ UNCHANGED <<test, sessions, lastId, faults, troubled>>

----------------------------------------------------------------------------
(* The players of a multiplayer test *)

\* Asks Studio for one more player.
AddPlayer(c) ==
  /\ calls[c].step = "add"
  /\ IF Answers(calls[c].server) /\ test.phase = "on" /\ test.asked > 0
       THEN /\ test' = [test EXCEPT
                          !.wanted = IF @ < MaxPlayers THEN @ + 1 ELSE @]
            /\ Set(c, [calls[c] EXCEPT !.step = "arriving"])
       ELSE Done(c, "failed") /\ UNCHANGED test
  /\ UNCHANGED <<sessions, lastId, faults, troubled>>

\* Those who joined are reported, with their client sessions, or time is up.
PlayerAdded(c) ==
  /\ calls[c].step = "arriving"
  /\ Done(c, "ok")
  /\ UNCHANGED <<test, sessions, lastId, faults, troubled>>

\* The player leaves through the client session of that name, which closes
\* its Studio, or is kicked when there is none.
RemovePlayer(c, name) ==
  /\ calls[c].step = "remove"
  /\ LET clients == {s \in sessions : s.context = "client" /\ s.player = name}
     IN  IF /\ Answers(calls[c].server)
            /\ name \in test.players
            /\ \A s \in clients : Answers(s)
           THEN /\ test' = [test EXCEPT !.leaving = @ \union {name}]
                /\ Set(c, [calls[c] EXCEPT !.step = "leaving"])
           ELSE Done(c, "failed") /\ UNCHANGED test
  /\ UNCHANGED <<sessions, lastId, faults, troubled>>

PlayerRemoved(c) ==
  /\ calls[c].step = "leaving"
  /\ Done(c, IF test.leaving = {} THEN "ok" ELSE "failed")
  /\ UNCHANGED <<test, sessions, lastId, faults, troubled>>

----------------------------------------------------------------------------
(* Studio: StudioTestService, the DataModels of a playtest and its user *)

\* The edit session gets the request: a playtest in progress refuses it.
StudioStarts(c) ==
  /\ calls[c].reply = "asked"
  /\ test.phase = "none"
  /\ test' = [id |-> calls[c].id, phase |-> "on", mode |-> calls[c].mode,
              asked |-> calls[c].players, players |-> {}, leaving |-> {},
              wanted |-> IF calls[c].players > 0 THEN calls[c].players
                         ELSE IF calls[c].mode = "play" THEN 1 ELSE 0]
  /\ Set(c, [calls[c] EXCEPT !.reply = "accepted"])
  /\ UNCHANGED <<sessions, lastId, faults, troubled>>

StudioRefuses(c) ==
  /\ calls[c].reply = "asked"
  /\ test.phase # "none"
  /\ Set(c, [calls[c] EXCEPT !.reply = "refused"])
  /\ UNCHANGED <<test, sessions, lastId, faults, troubled>>

PlayerJoins(name) ==
  /\ test.phase = "on"
  /\ Cardinality(test.players) < test.wanted
  /\ name \notin test.players
  /\ \A other \in 1..(name - 1) : other \in test.players
  /\ test' = [test EXCEPT !.players = @ \union {name}]
  /\ UNCHANGED <<sessions, calls, lastId, faults, troubled>>

PlayerLeaves(name) ==
  /\ name \in test.leaving
  /\ test' = [test EXCEPT !.players = @ \ {name}, !.leaving = @ \ {name},
                          !.wanted = @ - 1]
  /\ UNCHANGED <<sessions, calls, lastId, faults, troubled>>

\* A DataModel of the playtest connects, under an id the sessions of earlier
\* playtests had, and every waiting start hears of it.
SessionConnects(s) ==
  /\ test.phase = "on"
  /\ \A t \in sessions :
       t.context = s.context /\ t.player = s.player => t.test # s.test
  /\ sessions' = {t \in sessions : <<t.context, t.player>>
                                     # <<s.context, s.player>>} \union {s}
  /\ calls' = [c \in Callers |-> IF Expects(calls[c], s)
                                   THEN Hears(calls[c], s) ELSE calls[c]]
  /\ UNCHANGED <<test, lastId, faults, troubled>>

ServerConnects ==
  SessionConnects([context |-> "server", player |-> 0, test |-> test.id,
                   connection |-> faults])

ClientConnects(name) ==
  /\ name \in test.players
  /\ SessionConnects([context |-> "client", player |-> name,
                      test |-> test.id, connection |-> faults])

\* The DataModel of the session is torn down: its playtest or player left.
SessionCloses(s) ==
  /\ \/ test.phase # "on" \/ s.test # test.id
     \/ s.context = "client" /\ s.player \notin test.players
  /\ sessions' = sessions \ {s}
  /\ UNCHANGED <<test, calls, lastId, faults, troubled>>

\* The user stops the playtest in Studio.
UserEnds ==
  /\ faults < MaxFaults
  /\ test.phase = "on"
  /\ faults' = faults + 1
  /\ test' = [test EXCEPT !.phase = "ending"]
  /\ UNCHANGED <<sessions, calls, lastId, troubled>>

\* The playtest is over, and the request that started it is answered.
PlaytestOver ==
  /\ test.phase = "ending"
  /\ test' = NoPlaytest
  /\ calls' = [c \in Callers |->
                 IF calls[c].step = "waiting" /\ calls[c].reply = "accepted"
                   THEN [calls[c] EXCEPT !.reply = "ended"] ELSE calls[c]]
  /\ troubled' = FALSE
  /\ UNCHANGED <<sessions, lastId, faults>>

----------------------------------------------------------------------------
(* Faults *)

\* A session of the playtest loses its connection, and may connect again.
SessionDrops(s) ==
  /\ faults < MaxFaults
  /\ sessions' = sessions \ {s}
  /\ faults' = faults + 1
  /\ troubled' = (troubled \/ s.test = test.id)
  /\ UNCHANGED <<test, calls, lastId>>

\* The edit session loses its connection: requests it has not answered fail.
EditDrops ==
  /\ faults < MaxFaults
  /\ faults' = faults + 1
  /\ LET waiting == {c \in Callers : /\ calls[c].step = "waiting"
                                     /\ calls[c].reply \in {"asked", "accepted"}}
     IN  /\ waiting # {}
         /\ troubled' = (troubled \/ \E c \in waiting : calls[c].id = test.id)
         /\ calls' = [c \in Callers |-> IF c \in waiting
                        THEN [calls[c] EXCEPT !.reply = "lost"] ELSE calls[c]]
  /\ UNCHANGED <<test, sessions, lastId>>

----------------------------------------------------------------------------

CallerStep(c) ==
  \/ Count(c) \/ StartAnswered(c) \/ Retry(c) \/ StartTimesOut(c)
  \/ PlayerJoined(c) \/ NoPlayerJoins(c) \/ Executed(c) \/ ExecuteFails(c)
  \/ EndAnswered(c) \/ EndFails(c) \/ Closed(c) \/ CloseTimesOut(c)
  \/ AddPlayer(c) \/ PlayerAdded(c) \/ PlayerRemoved(c)
  \/ \E name \in Names : RemovePlayer(c, name)

Asks(c) ==
  \E command \in Commands[c] :
    \/ StartPlaytest(c, command) \/ Stop(c, command)
    \/ ChangePlayers(c, command) \/ Restart(c, command)

Studio ==
  \/ \E c \in Callers : StudioStarts(c) \/ StudioRefuses(c)
  \/ \E name \in Names :
       PlayerJoins(name) \/ PlayerLeaves(name) \/ ClientConnects(name)
  \/ ServerConnects
  \/ UserEnds
  \/ PlaytestOver
  \/ \E s \in sessions : SessionCloses(s) \/ SessionDrops(s)
  \/ EditDrops

PlaytestsNext == (\E c \in Callers : Asks(c) \/ CallerStep(c)) \/ Studio

PlaytestsSpec == PlaytestsInit /\ [][PlaytestsNext]_playtestsVars

\* Replies arrive or timers fire: every step of a command is taken at last.
\* Nothing is assumed of Studio, of its user or of who asks for what.
FairPlaytestsSpec == PlaytestsSpec /\ \A c \in Callers : WF_playtestsVars(CallerStep(c))

----------------------------------------------------------------------------

\* A caller that was told its playtest is up holds the server session of that
\* playtest and the sessions of as many different players as it waits for,
\* none of another playtest that ran in the same Studio, whose sessions have
\* the same ids (startPlaytestAsync).
OwnSessions ==
  \A c \in Callers :
    (\/ calls[c].step \in {"joining", "executing"}
     \/ calls[c].kind \in {"start", "restart"} /\ calls[c].result = "ok")
    => /\ calls[c].server.test = calls[c].id
       /\ \A s \in calls[c].clients : s.test = calls[c].id
       /\ Cardinality({s.player : s \in calls[c].clients})
            >= ClientCount(calls[c])

\* A run that has returned leaves its playtest running only if it says so, or
\* if a connection or the request that ends it was lost: neither a script
\* that fails, nor a player or a session that does not come, leaves a
\* playtest behind that refuses the next one (playtestRunHandlerAsync).
RunCleans ==
  \A c \in Callers :
    /\ calls[c].step = "done"
    /\ calls[c].kind = "run"
    /\ test.phase = "on"
    /\ test.id = calls[c].id
    => calls[c].result = "said" \/ troubled
=============================================================================
