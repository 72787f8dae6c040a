----------------------------- MODULE StudioProofs -----------------------------
(***************************************************************************)
(* Proofs about what studio-bridge does with one Studio.                    *)
(*                                                                         *)
(* StudioServer, for any number of calls and sockets: a stop releases what  *)
(* the server holds, and a run gets its own result.  The invariant says     *)
(* where the start and the stop can be together, what each has left to      *)
(* close, and who waits at a socket when a script runs there alone.         *)
(*                                                                         *)
(* Playtests, for any number of callers, commands, players and faults: who  *)
(* is told that its playtest is up has that playtest's sessions, and a run  *)
(* cleans up.  A playtest has one call, whose id no other call has          *)
(* (OwnIds); a request that Studio has not taken, or has answered, has no   *)
(* playtest (Requested); and the call of the one that is on holds on to a   *)
(* server session that is connected, or a fault has hit it (Holding).       *)
(***************************************************************************)
EXTENDS StudioServer, Playtests, FiniteSetTheorems, TLAPS

(***************************************************************************)
(* StudioServer                                                            *)
(***************************************************************************)

Waits == {"grace", "handshake"}
Calls == [is : {"none", "syncing", "resuming", "waiting", "ended"},
          on : {0} \cup Sockets, sync : {0} \cup Sockets, got : Result, alone : BOOLEAN]

ServerTypeOK ==
    /\ state \in States
    /\ boot \in Boots
    /\ stop \in {"none", "kill", "close", "done"}
    /\ held \in SUBSET Resources
    /\ heeds \in SUBSET Waits
    /\ sock \in [Sockets -> [is : {"none", "open", "used", "closed"}, hears : SUBSET Waits]]
    /\ client \in {0} \cup Sockets
    /\ synced \in BOOLEAN
    /\ run \in [Runs -> Calls]
    /\ script \in [Sockets -> SUBSET Runs]
    /\ lost \in BOOLEAN

\* Sockets are open only while the server is, and the client and whoever waits for a
\* completion have one that was accepted.
SocketsSound ==
    /\ "server" \notin held => \A k \in Sockets : sock[k].is \in {"none", "closed"}
    /\ client # 0 => Used(client)
    /\ \A e \in Runs : run[e].is = "waiting" => run[e].on \in Sockets /\ Used(run[e].on)

\* Where the start and the stop can be together, and what is left when one closes the
\* server or has closed it.
EndsSound ==
    /\ boot # "none" \/ stop # "none" => state # "idle"
    /\ stop # "none" => boot \in {"none", "done"}
    /\ boot = "close" \/ stop = "close" => held \subseteq {"server"}
    /\ state = "stopped" /\ ~lost =>
         held = {} /\ boot \in {"none", "done"} /\ stop \in {"none", "done"}

\* A run that has its socket for itself waits there alone, and no other script runs.
AloneSound == \A e \in Runs :
    run[e].is = "waiting" /\ run[e].alone =>
      /\ script[run[e].on] \subseteq {e}
      /\ \A r \in Runs : run[r].is = "waiting" /\ run[r].on = run[e].on => r = e

ServerInv == ServerTypeOK /\ SocketsSound /\ EndsSound /\ AloneSound /\ OwnResult

-----------------------------------------------------------------------------
LEMMA ServerBegins == ServerInit => ServerInv
<1> SUFFICES ASSUME ServerInit PROVE ServerInv
  OBVIOUS
<1>1. 0 \notin Sockets
  BY DEF Sockets
<1>2. ServerTypeOK
  BY DEF ServerInit, ServerTypeOK, Calls, Waits, Unused, NoRun, Result, States, Boots
<1>3. SocketsSound /\ EndsSound
  BY DEF ServerInit, SocketsSound, EndsSound, Unused, NoRun
<1>4. AloneSound /\ OwnResult
  BY DEF ServerInit, AloneSound, OwnResult, NoRun
<1> QED
  BY <1>2, <1>3, <1>4 DEF ServerInv

-----------------------------------------------------------------------------
(* Steps of the start and of the stop, which leave the runs alone.         *)

\* What the sockets and the runs are to each other does not depend on the start.
LEMMA SameRuns ==
    ASSUME ServerInv, UNCHANGED <<sock, client, synced, run, script>>,
           "server" \in held => "server" \in held'
    PROVE  /\ SocketsSound' /\ AloneSound' /\ OwnResult'
           /\ sock' \in [Sockets -> [is : {"none", "open", "used", "closed"}, hears : SUBSET Waits]]
           /\ client' \in {0} \cup Sockets /\ synced' \in BOOLEAN
           /\ run' \in [Runs -> Calls] /\ script' \in [Sockets -> SUBSET Runs]
  BY DEF ServerInv, ServerTypeOK, SocketsSound, AloneSound, OwnResult, Used

LEMMA StartKeeps == ASSUME ServerInv, Start PROVE ServerInv'
<1>1. SocketsSound' /\ AloneSound' /\ OwnResult'
  BY SameRuns DEF Start
<1>2. ServerTypeOK'
  BY DEF Start, ServerInv, ServerTypeOK, States, Boots
<1>3. EndsSound'
  BY DEF Start, ServerInv, EndsSound
<1> QED
  BY <1>1, <1>2, <1>3 DEF ServerInv

LEMMA BootingKeeps == ASSUME ServerInv, Booting PROVE ServerInv'
<1>1. UNCHANGED <<stop, sock, client, synced, run, script, lost>> /\ held \subseteq held'
  BY DEF Booting, Build, GraceEnds, InjectPlugin, LaunchStudio, HandshakeTimesOut, Boot
<1>2. SocketsSound' /\ AloneSound' /\ OwnResult'
  BY <1>1, SameRuns
<1>3. /\ state' \in States /\ boot' \in Boots /\ held' \in SUBSET Resources
      /\ heeds' \in SUBSET Waits
  BY DEF Booting, Build, GraceEnds, InjectPlugin, LaunchStudio, HandshakeTimesOut, Boot,
         ServerInv, ServerTypeOK, States, Boots, Resources, Waits
<1>4. ServerTypeOK'
  BY <1>1, <1>3, SameRuns DEF ServerTypeOK, ServerInv
<1>5. boot \notin {"none", "done", "close"} /\ boot' \notin {"none", "close"}
        /\ (state' = state \/ state' = "ready")
  BY DEF Booting, Build, GraceEnds, InjectPlugin, LaunchStudio, HandshakeTimesOut, Boot
<1>6. EndsSound'
  BY <1>1, <1>5 DEF ServerInv, EndsSound
<1> QED
  BY <1>2, <1>4, <1>6 DEF ServerInv

-----------------------------------------------------------------------------
(* Runs that end, and sockets that close.                                  *)

\* A run that ends with no result of another disturbs nobody.
Spared(e) ==
    \/ run'[e] = run[e]
    \/ \E got \in Result : run'[e] = Ended(e, got) /\ (got = "other" => ~run[e].alone)

LEMMA FewerRuns ==
    ASSUME ServerInv, DOMAIN run' = Runs, DOMAIN run = Runs, \A e \in Runs : Spared(e),
           \A k \in Sockets : script'[k] \subseteq script[k]
    PROVE  AloneSound' /\ OwnResult'
<1>1. ASSUME NEW e \in Runs
      PROVE  /\ run'[e].is = "waiting" => run'[e] = run[e]
             /\ run'[e].got = "other" => ~run'[e].alone
  <2>1. CASE run'[e] = run[e]
    BY <2>1 DEF ServerInv, OwnResult
  <2>2. CASE \E got \in Result : run'[e] = Ended(e, got) /\ (got = "other" => ~run[e].alone)
    <3>1. PICK got \in Result : run'[e] = Ended(e, got) /\ (got = "other" => ~run[e].alone)
      BY <2>2
    <3>2. run[e] \in Calls
      BY DEF ServerInv, ServerTypeOK
    <3>3. run'[e].is = "ended" /\ run'[e].got = got /\ run'[e].alone = run[e].alone
      BY <3>1, <3>2 DEF Ended, Calls
    <3> QED BY <3>1, <3>3
  <2> QED BY <2>1, <2>2 DEF Spared
<1>2. OwnResult'
  BY <1>1 DEF OwnResult
<1>3. AloneSound'
  <2> SUFFICES ASSUME NEW e \in Runs, run'[e].is = "waiting", run'[e].alone
               PROVE  /\ script'[run'[e].on] \subseteq {e}
                      /\ \A r \in Runs : run'[r].is = "waiting" /\ run'[r].on = run'[e].on
                                           => r = e
    BY DEF AloneSound
  <2>1. run'[e] = run[e]
    BY <1>1
  <2>2. run[e].on \in Sockets
    BY <2>1 DEF ServerInv, SocketsSound
  <2>3. \A r \in Runs : run'[r].is = "waiting" => run'[r] = run[r]
    BY <1>1
  <2> QED BY <2>1, <2>2, <2>3 DEF ServerInv, AloneSound
<1> QED BY <1>2, <1>3

LEMMA EndedIsCall ==
    ASSUME ServerInv, NEW e \in Runs, NEW got \in Result
    PROVE  Ended(e, got) \in Calls /\ Ended(e, got).is = "ended"
  BY DEF Ended, ServerInv, ServerTypeOK, Calls

\* Closing sockets ends who waits there, and leaves no client that was accepted there.
LEMMA ClosingSockets ==
    ASSUME ServerInv, NEW ks \in SUBSET Sockets, CloseSockets(ks)
    PROVE  /\ AloneSound' /\ OwnResult'
           /\ sock' \in [Sockets -> [is : {"none", "open", "used", "closed"}, hears : SUBSET Waits]]
           /\ client' \in {0} \cup Sockets
           /\ run' \in [Runs -> Calls] /\ script' \in [Sockets -> SUBSET Runs]
           /\ client' # 0 => Used(client)'
           /\ \A e \in Runs : run'[e].is = "waiting" =>
                                run'[e].on \in Sockets /\ sock'[run'[e].on].is = "used"
           /\ \A k \in Sockets : sock'[k].is = IF k \in ks THEN "closed" ELSE sock[k].is
<1> USE DEF CloseSockets
<1>1. \A k \in Sockets : sock[k] \in [is : {"none", "open", "used", "closed"}, hears : SUBSET Waits]
  BY DEF ServerInv, ServerTypeOK
<1>2. /\ sock' \in [Sockets -> [is : {"none", "open", "used", "closed"}, hears : SUBSET Waits]]
      /\ \A k \in Sockets : sock'[k].is = IF k \in ks THEN "closed" ELSE sock[k].is
  BY <1>1
<1>3. "closed" \in Result
  BY DEF Result
<1>4. ASSUME NEW e \in Runs
      PROVE  /\ run'[e] = IF \E k \in ks : e \in Waiting(k) THEN Ended(e, "closed") ELSE run[e]
             /\ run'[e] \in Calls
  <2>1. run'[e] = IF \E k \in ks : e \in Waiting(k) THEN Ended(e, "closed") ELSE run[e]
    OBVIOUS
  <2> QED BY <2>1, <1>3, EndedIsCall DEF ServerInv, ServerTypeOK
<1>5. run' \in [Runs -> Calls]
  BY <1>4
<1>6. \A e \in Runs : Spared(e)
  BY <1>3, <1>4 DEF Spared
<1>7. /\ script' \in [Sockets -> SUBSET Runs]
      /\ \A k \in Sockets : script'[k] \subseteq script[k]
  BY DEF ServerInv, ServerTypeOK
<1>8. AloneSound' /\ OwnResult'
  BY <1>5, <1>6, <1>7, FewerRuns DEF ServerInv, ServerTypeOK
<1>9. client' \in {0} \cup Sockets
  BY DEF ServerInv, ServerTypeOK
<1>10. client' # 0 => Used(client)'
  <2> SUFFICES ASSUME client' # 0 PROVE sock'[client'].is = "used"
    BY DEF Used
  <2>1. client' = client /\ ~ \E k \in ks : Used(k)
    OBVIOUS
  <2>2. client \in Sockets /\ Used(client) /\ client \notin ks
    BY <2>1 DEF ServerInv, ServerTypeOK, SocketsSound
  <2> QED BY <2>1, <2>2, <1>2 DEF Used
<1>11. ASSUME NEW e \in Runs, run'[e].is = "waiting"
       PROVE  run'[e].on \in Sockets /\ sock'[run'[e].on].is = "used"
  <2>1. run'[e] = run[e] /\ ~ \E k \in ks : e \in Waiting(k)
    BY <1>4, <1>11, <1>3, EndedIsCall
  <2>2. run[e].on \in Sockets /\ Used(run[e].on)
    BY <2>1, <1>11 DEF ServerInv, SocketsSound
  <2>3. run[e].on \notin ks
    BY <2>1, <2>2, <1>11 DEF Waiting
  <2> QED BY <2>1, <2>2, <2>3, <1>2 DEF Used
<1> QED BY <1>2, <1>5, <1>7, <1>8, <1>9, <1>10, <1>11

LEMMA ClosesKeeps == ASSUME ServerInv, NEW k \in Sockets, Closes(k) PROVE ServerInv'
<1>1. CloseSockets({k}) /\ sock[k].is \in {"open", "used"}
        /\ UNCHANGED <<boot, stop, held, heeds, synced>>
  BY DEF Closes
<1>2. {k} \in SUBSET Sockets
  OBVIOUS
<1>3. ServerTypeOK'
  <2>1. state' \in States /\ lost' \in BOOLEAN
    BY DEF Closes, ClosedState, ServerInv, ServerTypeOK, States
  <2> QED BY <2>1, <1>1, <1>2, ClosingSockets DEF ServerInv, ServerTypeOK
<1>4. "server" \in held
  BY <1>1 DEF ServerInv, SocketsSound
<1>5. SocketsSound'
  BY <1>1, <1>2, <1>4, ClosingSockets DEF SocketsSound, Used
<1>6. EndsSound'
  <2>1. (state' = "stopped" => lost' \/ state = "stopped") /\ (lost => lost')
          /\ (state' = "idle" => state = "idle")
    BY DEF Closes, ClosedState
  <2> QED BY <1>1, <1>4, <2>1 DEF ServerInv, EndsSound
<1> QED BY <1>1, <1>2, <1>3, <1>5, <1>6, ClosingSockets DEF ServerInv

-----------------------------------------------------------------------------
(* Plugins that connect and register.                                      *)

LEMMA ConnectsKeeps == ASSUME ServerInv, NEW k \in Sockets, Connects(k) PROVE ServerInv'
<1>1. /\ "server" \in held /\ sock[k] = Unused
      /\ UNCHANGED <<state, boot, stop, held, heeds, client, synced, run, script, lost>>
  BY DEF Connects
<1>2. \A j \in Sockets : j # k => sock'[j] = sock[j]
  BY DEF Connects, ServerInv, ServerTypeOK
<1>3. ServerTypeOK'
  <2>1. sock' \in [Sockets -> [is : {"none", "open", "used", "closed"}, hears : SUBSET Waits]]
    BY DEF Connects, ServerInv, ServerTypeOK, Waits
  <2> QED BY <1>1, <2>1 DEF ServerInv, ServerTypeOK
<1>4. \A j \in Sockets : Used(j) => j # k
  BY <1>1 DEF Used, Unused
<1>5. SocketsSound'
  <2>1. client # 0 => client \in Sockets /\ Used(client)
    BY DEF ServerInv, ServerTypeOK, SocketsSound
  <2>2. \A j \in Sockets : Used(j) => sock'[j].is = "used"
    BY <1>2, <1>4 DEF Used
  <2> QED BY <1>1, <2>1, <2>2 DEF ServerInv, SocketsSound, Used
<1>6. EndsSound' /\ AloneSound' /\ OwnResult'
  BY <1>1 DEF ServerInv, EndsSound, AloneSound, OwnResult
<1> QED BY <1>3, <1>5, <1>6 DEF ServerInv

LEMMA RegistersKeeps == ASSUME ServerInv, NEW k \in Sockets, Registers(k) PROVE ServerInv'
<1>1. /\ sock[k].is = "open" /\ client' = k /\ sock' = [sock EXCEPT ![k].is = "used"]
      /\ UNCHANGED <<stop, held, heeds, synced, run, script, lost>>
  BY DEF Registers
<1>2. "server" \in held
  BY <1>1 DEF ServerInv, SocketsSound
<1>3. \/ boot = "grace" /\ boot' = "launch" /\ state' = state
      \/ boot = "handshake" /\ boot' = "done" /\ state' = "ready"
      \/ UNCHANGED <<boot, state>>
  BY DEF Registers
<1>4. ServerTypeOK'
  <2>1. sock' \in [Sockets -> [is : {"none", "open", "used", "closed"}, hears : SUBSET Waits]]
    BY <1>1 DEF ServerInv, ServerTypeOK
  <2>2. state' \in States /\ boot' \in Boots
    BY <1>3 DEF ServerInv, ServerTypeOK, States, Boots
  <2> QED BY <1>1, <2>1, <2>2 DEF ServerInv, ServerTypeOK
<1>5. SocketsSound'
  <2>1. \A j \in Sockets : sock'[j].is = IF j = k THEN "used" ELSE sock[j].is
    BY <1>1 DEF ServerInv, ServerTypeOK
  <2> QED BY <1>1, <1>2, <2>1 DEF ServerInv, SocketsSound, Used
<1>6. EndsSound'
  BY <1>1, <1>2, <1>3 DEF ServerInv, EndsSound
<1>7. AloneSound' /\ OwnResult'
  BY <1>1 DEF ServerInv, AloneSound, OwnResult
<1> QED BY <1>4, <1>5, <1>6, <1>7 DEF ServerInv

-----------------------------------------------------------------------------
(* executeAsync.                                                           *)

\* A run that changes keeps to where it is, and others wait where they waited.
LEMMA OneRunEnds ==
    ASSUME ServerInv, NEW e \in Runs, NEW got \in Result \ {"other"},
           run' = [run EXCEPT ![e] = Ended(e, got)],
           state' \in {state, "ready"},
           UNCHANGED <<boot, stop, held, heeds, sock, client, synced, script, lost>>
    PROVE  ServerInv'
<1>1. run' \in [Runs -> Calls] /\ \A r \in Runs : r # e => run'[r] = run[r]
  BY EndedIsCall DEF ServerInv, ServerTypeOK
<1>2. run'[e] = Ended(e, got) /\ run'[e].is = "ended"
  BY EndedIsCall DEF ServerInv, ServerTypeOK
<1>3. AloneSound' /\ OwnResult'
  <2>1. \A r \in Runs : Spared(r)
    BY <1>1, <1>2 DEF Spared
  <2> QED BY <1>1, <2>1, FewerRuns DEF ServerInv, ServerTypeOK
<1>4. ServerTypeOK'
  BY <1>1 DEF ServerInv, ServerTypeOK, States
<1>5. SocketsSound'
  BY <1>1, <1>2 DEF ServerInv, SocketsSound, Used
<1>6. EndsSound'
  BY DEF ServerInv, EndsSound
<1> QED BY <1>3, <1>4, <1>5, <1>6 DEF ServerInv

LEMMA OneRunSyncs ==
    ASSUME ServerInv, NEW e \in Runs, NEW call \in Calls,
           call.is \in {"syncing", "resuming"},
           call.got = run[e].got, call.alone = run[e].alone,
           run' = [run EXCEPT ![e] = call],
           UNCHANGED <<state, boot, stop, held, heeds, sock, client, synced, script, lost>>
    PROVE  ServerInv'
<1>1. run' \in [Runs -> Calls] /\ run'[e] = call
        /\ \A r \in Runs : r # e => run'[r] = run[r]
  BY DEF ServerInv, ServerTypeOK
<1>2. ServerTypeOK' /\ EndsSound'
  BY <1>1 DEF ServerInv, ServerTypeOK, EndsSound
<1>3. SocketsSound'
  BY <1>1 DEF ServerInv, SocketsSound, Used
<1>4. OwnResult'
  BY <1>1 DEF ServerInv, OwnResult
<1>5. AloneSound'
  <2>1. \A r \in Runs : run'[r].is = "waiting" => run'[r] = run[r]
    BY <1>1
  <2> QED BY <2>1 DEF ServerInv, AloneSound
<1> QED BY <1>2, <1>3, <1>4, <1>5 DEF ServerInv

LEMMA SendKeeps ==
    ASSUME ServerInv, NEW e \in Runs, run[e].is \in {"syncing", "resuming"}, SendScript(e),
           synced' \in BOOLEAN,
           UNCHANGED <<boot, stop, held, heeds, sock, client, lost>>
    PROVE  ServerInv'
<1>1. state' \in States /\ state' \notin {"idle", "stopped"}
  BY DEF SendScript, States
<1>2. EndsSound'
  BY <1>1 DEF ServerInv, EndsSound
<1>3. CASE client = 0
  <2>1. run' = [run EXCEPT ![e] = Ended(e, "error")] /\ script' = script
    BY <1>3 DEF SendScript
  <2>2. "error" \in Result
    BY DEF Result
  <2>3. run' \in [Runs -> Calls] /\ run'[e] = Ended(e, "error") /\ run'[e].is = "ended"
          /\ \A r \in Runs : r # e => run'[r] = run[r]
    BY <2>1, <2>2, EndedIsCall DEF ServerInv, ServerTypeOK
  <2>4. \A r \in Runs : Spared(r)
    BY <2>2, <2>3 DEF Spared
  <2>5. AloneSound' /\ OwnResult'
    BY <2>1, <2>3, <2>4, FewerRuns DEF ServerInv, ServerTypeOK
  <2>6. ServerTypeOK'
    BY <1>1, <2>1, <2>3 DEF ServerInv, ServerTypeOK
  <2>7. SocketsSound'
    BY <2>3 DEF ServerInv, SocketsSound, Used
  <2> QED BY <1>2, <2>5, <2>6, <2>7 DEF ServerInv
<1>4. CASE client # 0
  <2> DEFINE others == Waiting(client)
  <2>1. client \in Sockets /\ Used(client)
    BY <1>4 DEF ServerInv, ServerTypeOK, SocketsSound
  <2>2. e \notin others
    BY DEF Waiting
  <2>3. /\ run' = [r \in Runs |->
             IF r = e THEN [run[e] EXCEPT !.is = "waiting", !.on = client,
                               !.alone = @ /\ script[client] = {} /\ others = {}]
             ELSE IF r \in others THEN [run[r] EXCEPT !.alone = FALSE] ELSE run[r]]
        /\ script' = [script EXCEPT ![client] = @ \cup {e}]
    BY <1>4 DEF SendScript
  <2>4. \A r \in Runs : run[r] \in Calls
    BY DEF ServerInv, ServerTypeOK
  <2> HIDE DEF others
  <2>5. /\ run' \in [Runs -> Calls]
        /\ run'[e].is = "waiting" /\ run'[e].on = client /\ run'[e].got = run[e].got
        /\ run'[e].alone => run[e].alone /\ script[client] = {} /\ others = {}
    BY <2>1, <2>3, <2>4 DEF Calls
  <2>6. \A r \in Runs : r # e =>
          /\ run'[r].is = run[r].is /\ run'[r].on = run[r].on /\ run'[r].got = run[r].got
          /\ run'[r].alone => run[r].alone /\ r \notin others
    BY <2>3, <2>4 DEF Calls
  <2>7. script' \in [Sockets -> SUBSET Runs] /\ script'[client] = script[client] \cup {e}
          /\ \A k \in Sockets : k # client => script'[k] = script[k]
    BY <2>1, <2>3 DEF ServerInv, ServerTypeOK
  <2>8. ServerTypeOK'
    BY <1>1, <2>5, <2>7 DEF ServerInv, ServerTypeOK
  <2>9. SocketsSound'
    <3>1. \A r \in Runs : run'[r].is = "waiting" =>
            run'[r].on = client \/ (run[r].is = "waiting" /\ run'[r].on = run[r].on)
      BY <2>5, <2>6
    <3> QED BY <2>1, <3>1 DEF ServerInv, SocketsSound, Used
  <2>10. OwnResult'
    BY <2>5, <2>6 DEF ServerInv, OwnResult
  <2>11. AloneSound'
    <3> SUFFICES ASSUME NEW r \in Runs, run'[r].is = "waiting", run'[r].alone
                 PROVE  /\ script'[run'[r].on] \subseteq {r}
                        /\ \A q \in Runs : run'[q].is = "waiting" /\ run'[q].on = run'[r].on
                                             => q = r
      BY DEF AloneSound
    <3>1. CASE r = e
      <4>1. \A q \in Runs : q # e /\ run[q].is = "waiting" => run[q].on # client
        BY <2>5, <3>1 DEF others, Waiting
      <4> QED BY <2>5, <2>6, <2>7, <3>1, <4>1
    <3>2. CASE r # e
      <4>1. run[r].is = "waiting" /\ run[r].alone /\ run'[r].on = run[r].on
              /\ run[r].on # client /\ run[r].on \in Sockets
        BY <2>6, <3>2 DEF others, Waiting, ServerInv, SocketsSound
      <4>2. script'[run[r].on] = script[run[r].on]
        BY <2>7, <4>1
      <4>3. ASSUME NEW q \in Runs, run'[q].is = "waiting", run'[q].on = run'[r].on
            PROVE  q = r
        <5>1. q # e
          BY <2>5, <4>1, <4>3
        <5>2. run[q].is = "waiting" /\ run[q].on = run[r].on
          BY <2>6, <4>1, <4>3, <5>1
        <5> QED BY <4>1, <5>2 DEF ServerInv, AloneSound
      <4> QED BY <4>1, <4>2, <4>3 DEF ServerInv, AloneSound
    <3> QED BY <3>1, <3>2
  <2> QED BY <1>2, <2>8, <2>9, <2>10, <2>11 DEF ServerInv
<1> QED BY <1>3, <1>4

LEMMA SomeResults == {"error", "late", "refused"} \subseteq Result \ {"other"}
  BY DEF Result

LEMMA ExecuteKeeps == ASSUME ServerInv, NEW e \in Runs, Execute(e) PROVE ServerInv'
<1>1. run[e] \in Calls /\ client \in {0} \cup Sockets
  BY DEF ServerInv, ServerTypeOK
<1>2. CASE state # "ready" \/ client = 0
  BY <1>2, SomeResults, OneRunEnds DEF Execute
<1>3. CASE ~(state # "ready" \/ client = 0)
  <2> DEFINE call == IF synced THEN [run[e] EXCEPT !.is = "resuming"]
                     ELSE [run[e] EXCEPT !.is = "syncing", !.sync = client]
  <2>1. call \in Calls /\ call.is \in {"syncing", "resuming"} /\ call.got = run[e].got
          /\ call.alone = run[e].alone
    BY <1>1 DEF Calls
  <2>2. run' = [run EXCEPT ![e] = call]
    BY <1>3 DEF Execute
  <2> HIDE DEF call
  <2> QED BY <1>3, <2>1, <2>2, OneRunSyncs DEF Execute
<1> QED BY <1>2, <1>3

LEMMA ResumesKeeps == ASSUME ServerInv, NEW e \in Runs, Resumes(e) PROVE ServerInv'
<1>1. SendScript(e) /\ synced' \in BOOLEAN /\ run[e].is = "resuming"
  BY DEF Resumes, ServerInv, ServerTypeOK
<1> QED BY <1>1, SendKeeps DEF Resumes

LEMMA SyncAnsweredKeeps ==
    ASSUME ServerInv, NEW e \in Runs, NEW more \in BOOLEAN, SyncAnswered(e, more)
    PROVE  ServerInv'
<1>1. run[e] \in Calls /\ client \in {0} \cup Sockets
  BY DEF ServerInv, ServerTypeOK
<1>2. CASE ~more
  <2>1. SendScript(e) /\ synced' \in BOOLEAN /\ run[e].is = "syncing"
    BY <1>2 DEF SyncAnswered
  <2> QED BY <2>1, SendKeeps DEF SyncAnswered
<1>3. CASE more /\ state = "ready" /\ client # 0
  <2> DEFINE call == [run[e] EXCEPT !.sync = client]
  <2>1. call \in Calls /\ call.is = "syncing" /\ call.got = run[e].got
          /\ call.alone = run[e].alone
    BY <1>1 DEF Calls, SyncAnswered
  <2>2. run' = [run EXCEPT ![e] = call]
    BY <1>3 DEF SyncAnswered
  <2> HIDE DEF call
  <2> QED BY <1>3, <2>1, <2>2, OneRunSyncs DEF SyncAnswered
<1>4. CASE more /\ ~(state = "ready" /\ client # 0)
  BY <1>4, SomeResults, OneRunEnds DEF SyncAnswered
<1> QED BY <1>2, <1>3, <1>4

LEMMA SyncFailsKeeps == ASSUME ServerInv, NEW e \in Runs, SyncFails(e) PROVE ServerInv'
  BY SomeResults, OneRunEnds DEF SyncFails

LEMMA TimesOutKeeps == ASSUME ServerInv, NEW e \in Runs, TimesOut(e) PROVE ServerInv'
  BY SomeResults, OneRunEnds DEF TimesOut

\* A completion that is not of the run that hears it: the run had its socket not alone.
LEMMA CompletesKeeps ==
    ASSUME ServerInv, NEW k \in Sockets, NEW e \in Runs, Completes(k, e)
    PROVE  ServerInv'
<1>1. /\ e \in script[k] /\ Used(k)
      /\ script' = [script EXCEPT ![k] = @ \ {e}]
      /\ run' = [r \in Runs |-> IF r \in Waiting(k)
                   THEN Ended(r, IF r = e THEN "own" ELSE "other") ELSE run[r]]
      /\ state' \in {state, "ready"}
      /\ UNCHANGED <<boot, stop, held, heeds, sock, client, synced, lost>>
  BY DEF Completes, HearCompletion
<1>2. "own" \in Result /\ "other" \in Result
  BY DEF Result
<1>3. ASSUME NEW r \in Runs
      PROVE  run'[r] \in Calls /\ Spared(r) /\ (run'[r].is = "waiting" => run'[r] = run[r])
  <2>1. CASE r \in Waiting(k)
    <3>1. run'[r] = Ended(r, IF r = e THEN "own" ELSE "other")
      BY <1>1, <2>1
    <3>2. r # e => ~run[r].alone
      <4>1. run[r].alone => script[k] \subseteq {r}
        BY <2>1 DEF Waiting, ServerInv, AloneSound
      <4> QED BY <1>1, <4>1
    <3> QED BY <1>2, <3>1, <3>2, EndedIsCall DEF Spared
  <2>2. CASE r \notin Waiting(k)
    BY <1>1, <2>2 DEF Spared, ServerInv, ServerTypeOK
  <2> QED BY <2>1, <2>2
<1>4. run' \in [Runs -> Calls]
  BY <1>1, <1>3
<1>5. script' \in [Sockets -> SUBSET Runs] /\ \A j \in Sockets : script'[j] \subseteq script[j]
  BY <1>1 DEF ServerInv, ServerTypeOK
<1>6. AloneSound' /\ OwnResult'
  BY <1>3, <1>4, <1>5, FewerRuns DEF ServerInv, ServerTypeOK
<1>7. ServerTypeOK'
  BY <1>1, <1>4, <1>5 DEF ServerInv, ServerTypeOK, States
<1>8. SocketsSound'
  BY <1>1, <1>3 DEF ServerInv, SocketsSound, Used
<1>9. EndsSound'
  BY <1>1 DEF ServerInv, EndsSound
<1> QED BY <1>6, <1>7, <1>8, <1>9 DEF ServerInv

-----------------------------------------------------------------------------
(* stopAsync and the cleanup.                                              *)

LEMMA StopKeeps == ASSUME ServerInv, StopServer PROVE ServerInv'
<1>1. /\ stop = "none" /\ boot \in {"none", "done"} /\ boot' = boot
      /\ UNCHANGED <<held, heeds, sock, client, synced, script, lost>>
  BY DEF StopServer
<1>2. \/ state = "stopped" /\ stop' = "done" /\ UNCHANGED <<state, run>>
      \/ state # "stopped" /\ stop' = "kill" /\ state' = "stopping" /\ CancelAll
  BY DEF StopServer
<1>3. ASSUME NEW r \in Runs
      PROVE  run'[r] \in Calls /\ Spared(r) /\ (run'[r].is = "waiting" => run'[r] = run[r])
  <2>1. run'[r] \in {run[r], Ended(r, "error")}
    BY <1>2 DEF CancelAll
  <2> QED BY <2>1, SomeResults, EndedIsCall DEF Spared, ServerInv, ServerTypeOK
<1>4. DOMAIN run' = Runs
  BY <1>2 DEF CancelAll, ServerInv, ServerTypeOK
<1>5. run' \in [Runs -> Calls]
  <2>1. run' = [r \in Runs |-> run'[r]]
    BY <1>2 DEF CancelAll, ServerInv, ServerTypeOK
  <2> QED BY <1>3, <2>1
<1>6. AloneSound' /\ OwnResult'
  BY <1>1, <1>3, <1>4, FewerRuns DEF ServerInv, ServerTypeOK
<1>7. ServerTypeOK'
  BY <1>1, <1>2, <1>5 DEF ServerInv, ServerTypeOK, States
<1>8. SocketsSound'
  BY <1>1, <1>3 DEF ServerInv, SocketsSound, Used
<1>9. EndsSound'
  BY <1>1, <1>2 DEF ServerInv, EndsSound
<1> QED BY <1>6, <1>7, <1>8, <1>9 DEF ServerInv

\* Studio, the plugin and the place go first; the server stays for the answers.
LEMMA KillKeeps ==
    ASSUME ServerInv, Kill,
           \/ stop = "kill" /\ stop' = "close" /\ boot' = boot
           \/ boot = "kill" /\ boot' = "close" /\ stop' = stop
    PROVE  ServerInv'
<1>1. SocketsSound' /\ AloneSound' /\ OwnResult'
  <2>1. "server" \in held => "server" \in held'
    BY DEF Kill
  <2> QED BY <2>1, SameRuns DEF Kill
<1>2. ServerTypeOK'
  BY DEF Kill, ServerInv, ServerTypeOK, Boots
<1>3. held' \subseteq {"server"}
  BY DEF Kill, ServerInv, ServerTypeOK, Resources
<1>4. EndsSound'
  BY <1>3 DEF Kill, ServerInv, EndsSound
<1> QED BY <1>1, <1>2, <1>4 DEF ServerInv

LEMMA CloseKeeps ==
    ASSUME ServerInv, CloseServer,
           \/ stop = "close" /\ stop' = "done" /\ boot' = boot
           \/ boot = "close" /\ boot' = "done" /\ stop' = stop
    PROVE  ServerInv'
<1> DEFINE ks == {k \in Sockets : sock[k].is \in {"open", "used"}}
<1>1. CloseSockets(ks) /\ held' = held \ {"server"} /\ state' = "stopped"
        /\ UNCHANGED <<heeds, synced, lost>>
  BY DEF CloseServer
<1>2. ks \in SUBSET Sockets
  OBVIOUS
<1>3. \A k \in Sockets : sock'[k].is \in {"none", "closed"}
  <2>1. \A k \in Sockets : sock'[k].is = IF k \in ks THEN "closed" ELSE sock[k].is
    BY <1>1, <1>2, ClosingSockets
  <2>2. \A k \in Sockets : sock[k].is \in {"none", "open", "used", "closed"}
    BY DEF ServerInv, ServerTypeOK
  <2> QED BY <2>1, <2>2
<1> HIDE DEF ks
<1>4. ServerTypeOK'
  BY <1>1, <1>2, ClosingSockets DEF ServerInv, ServerTypeOK, States, Boots
<1>5. SocketsSound'
  BY <1>1, <1>2, <1>3, ClosingSockets DEF SocketsSound, Used
<1>6. EndsSound'
  BY <1>1 DEF ServerInv, EndsSound
<1>7. AloneSound' /\ OwnResult'
  BY <1>1, <1>2, ClosingSockets
<1> QED BY <1>4, <1>5, <1>6, <1>7 DEF ServerInv

LEMMA CleanupKeeps == ASSUME ServerInv, Cleanup PROVE ServerInv'
  BY KillKeeps, CloseKeeps DEF Cleanup

-----------------------------------------------------------------------------
LEMMA ServerStep == ASSUME ServerInv, [ServerNext]_serverVars PROVE ServerInv'
<1>1. CASE Start \/ Booting \/ StopServer \/ Cleanup
  BY <1>1, StartKeeps, BootingKeeps, StopKeeps, CleanupKeeps
<1>2. CASE \E k \in Sockets : Connects(k) \/ Registers(k) \/ Closes(k)
                                \/ \E e \in Runs : Completes(k, e)
  BY <1>2, ConnectsKeeps, RegistersKeeps, ClosesKeeps, CompletesKeeps
<1>3. CASE \E e \in Runs : Execute(e) \/ Resumes(e) \/ SyncFails(e) \/ TimesOut(e)
                             \/ \E more \in BOOLEAN : SyncAnswered(e, more)
  BY <1>3, ExecuteKeeps, ResumesKeeps, SyncFailsKeeps, TimesOutKeeps, SyncAnsweredKeeps
<1>4. CASE UNCHANGED serverVars
  BY <1>4 DEF serverVars, ServerInv, ServerTypeOK, SocketsSound, EndsSound, AloneSound,
              OwnResult, Used
<1> QED BY <1>1, <1>2, <1>3, <1>4 DEF ServerNext

LEMMA ServerHolds == ServerSpec => []ServerInv
<1>1. ServerInv /\ [ServerNext]_serverVars => ServerInv'
  BY ServerStep
<1> QED BY ServerBegins, <1>1, PTL DEF ServerSpec

\* Every variable of a server has its type: a run knows the socket it waits on, and ends
\* with one of the results that executeAsync tells apart (studio-bridge-server.ts).
THEOREM ServerTypeCorrect == ServerSpec => []ServerTypeOK
<1>1. ServerInv => ServerTypeOK
  BY DEF ServerInv
<1> QED BY <1>1, ServerHolds, PTL

\* After a start that failed or a stop that ended, the place, the plugin, Studio, the
\* server and every socket are given back, whatever plugins did in between; but a
\* disconnect may have left the state "stopped" before (stopAsync,
\* _cleanupResourcesAsync).
THEOREM StopsRelease == ServerSpec => []StopReleases
<1>1. ServerInv => StopReleases
  <2> SUFFICES ASSUME ServerInv, state = "stopped", ~lost
               PROVE  held = {} /\ client = 0 /\ \A k \in Sockets : sock[k].is \in {"none", "closed"}
    BY DEF StopReleases
  <2>1. held = {}
    BY DEF ServerInv, EndsSound
  <2>2. \A k \in Sockets : sock[k].is \in {"none", "closed"}
    BY <2>1 DEF ServerInv, SocketsSound
  <2>3. client = 0
    BY <2>2 DEF ServerInv, ServerTypeOK, SocketsSound, Used
  <2> QED BY <2>1, <2>2, <2>3
<1> QED BY <1>1, ServerHolds, PTL

\* A run that had its socket for itself never ends with the result of another script
\* (executeAsync, which takes whatever completion comes).
THEOREM ResultsAreOwn == ServerSpec => []OwnResult
<1>1. ServerInv => OwnResult
  BY DEF ServerInv
<1> QED BY <1>1, ServerHolds, PTL

(***************************************************************************)
(* Playtests                                                               *)
(***************************************************************************)

PlaytestSteps == {"idle", "waiting", "retrying", "counting", "joining", "executing",
  "ending", "closing", "add", "arriving", "remove", "leaving", "done"}
PlaytestModes == {"", "play", "run"}
Playtest == [id : Nat, phase : {"none", "on", "ending"}, mode : PlaytestModes, asked : Nat,
  wanted : Nat, players : SUBSET Names, leaving : SUBSET Names]
PlaytestKinds == {"none", "start", "run", "restart", "stop", "add", "remove"}
PlaytestReplies == {"none", "asked", "accepted", "refused", "ended", "lost"}
PlaytestResults == {"none", "ok", "failed", "said"}
PlaytestCall == [step : PlaytestSteps, kind : PlaytestKinds, mode : PlaytestModes,
  players : Nat, context : {"server", "client"}, left : Nat, id : Nat,
  reply : PlaytestReplies, server : SessionType \cup {NoSession},
  clients : SUBSET SessionType, live : Nat, attempt : Nat, result : PlaytestResults]

PlaytestsTypeOK ==
    /\ test \in Playtest
    /\ sessions \in SUBSET SessionType
    /\ calls \in [Callers -> PlaytestCall]
    /\ lastId \in Nat
    /\ faults \in Nat
    /\ troubled \in BOOLEAN

\* Who leaves is one of the players, of whom there are never more than are wanted.
TestSound(t) ==
    /\ t.id <= lastId
    /\ t.phase = "none" <=> t.id = 0
    /\ t.leaving \subseteq t.players
    /\ Cardinality(t.players) <= t.wanted

\* What a command does is what it was asked for.
InCommand(call) ==
    /\ call.step \in {"joining", "executing"} => call.kind = "run"
    /\ call.step \in {"retrying", "counting"} => call.kind = "restart"
    /\ call.step \in {"add", "arriving"} => call.kind = "add"
    /\ call.step \in {"remove", "leaving"} => call.kind = "remove"
    /\ call.step = "waiting" => call.id # 0

\* A call has gathered sessions of its own playtest only, one for each player, and goes
\* on when there are enough.
PlayersOf(clients) == {s.player : s \in clients}
Gathered(call) ==
    /\ call.id = 0 => call.clients = {}
    /\ call.id # 0 /\ call.server # NoSession =>
         call.server.test = call.id /\ call.server.context = "server"
    /\ \A s \in call.clients : s.test = call.id
    /\ IsFiniteSet(call.clients)
    /\ Cardinality(PlayersOf(call.clients)) = Cardinality(call.clients)
IsUp(call) ==
    /\ call.id # 0
    /\ call.server # NoSession
    /\ Cardinality(call.clients) >= ClientCount(call)
UpWhenSaid(call) ==
    /\ call.step \in {"joining", "executing"} => IsUp(call)
    /\ call.kind \in {"start", "restart"} /\ call.result = "ok" =>
         call.step = "done" /\ IsUp(call)

\* A request that Studio has not taken, or has answered, has no playtest.
Requested(call, t) ==
    /\ call.reply # "none" => call.id # 0
    /\ call.reply \in {"asked", "refused", "ended"} => t.id # call.id
    /\ call.reply = "asked" =>
         /\ call.step \in {"waiting", "done"}
         /\ call.server = NoSession /\ call.clients = {}
         /\ call.step = "done" /\ call.kind = "run" => call.result = "said"

\* While the playtest of a run is on, and unless a fault has hit it, the run holds on to
\* a server session that is connected, so that it can end the playtest.
Holding(call, t, ss, hit) ==
    /\ call.kind = "run" /\ call.step = "ending" => call.server # NoSession
    /\ call.kind = "run" /\ t.phase = "on" /\ t.id = call.id /\ ~hit =>
         /\ call.reply # "lost"
         /\ call.step # "closing"
         /\ call.step = "done" => call.result = "said"
         /\ call.step # "done" /\ call.server # NoSession => call.server \in ss

CallSound(call, t, ss, hit) ==
    /\ InCommand(call)
    /\ Gathered(call)
    /\ UpWhenSaid(call)
    /\ Requested(call, t)
    /\ Holding(call, t, ss, hit)

\* No two calls have one playtest.
OwnIds ==
    /\ \A c \in Callers : calls[c].id <= lastId
    /\ \A c, d \in Callers : c # d /\ calls[c].id # 0 => calls[c].id # calls[d].id

PlaytestsInv ==
    /\ PlaytestsTypeOK
    /\ TestSound(test)
    /\ \A c \in Callers : CallSound(calls[c], test, sessions, troubled)
    /\ OwnIds

LEMMA PlaytestsBegin == PlaytestsInit => PlaytestsInv
<1> SUFFICES ASSUME PlaytestsInit PROVE PlaytestsInv
  OBVIOUS
<1>1. NoPlaytest \in Playtest
  BY DEF NoPlaytest, Playtest, PlaytestModes
<1>2. Idle(MaxCommands) \in PlaytestCall
  BY BoundsAssumption DEF Idle, PlaytestCall, PlaytestSteps, PlaytestModes, PlaytestKinds,
    PlaytestReplies, PlaytestResults
<1>3. PlaytestsTypeOK
  BY <1>1, <1>2 DEF PlaytestsInit, PlaytestsTypeOK
<1>4. TestSound(test)
  BY FS_EmptySet DEF PlaytestsInit, TestSound, NoPlaytest
<1>5. PlayersOf({}) = {}
  BY DEF PlayersOf
<1>6. ASSUME NEW c \in Callers PROVE CallSound(calls[c], test, sessions, troubled)
  BY <1>5, FS_EmptySet DEF PlaytestsInit, Idle, CallSound, InCommand, Gathered, UpWhenSaid,
    Requested, Holding, NoPlaytest
<1>7. OwnIds
  <2>1. lastId = 0 /\ \A c \in Callers : calls[c].id = 0
    BY DEF PlaytestsInit, Idle
  <2> QED
    BY <2>1 DEF OwnIds
<1> QED
  BY <1>3, <1>4, <1>6, <1>7 DEF PlaytestsInv

\* As long as the playtest is the same one, its end excuses a call as well.
TestGoesOn(t, t2) ==
    /\ t2 \in Playtest
    /\ TestSound(t2)
    /\ t2.id = t.id
    /\ t2.phase = "on" => t.phase = "on"

LEMMA EndExcuses ==
    ASSUME NEW call, NEW t, NEW t2, NEW ss, NEW hit \in BOOLEAN, NEW hit2 \in BOOLEAN,
           hit => hit2, TestGoesOn(t, t2), CallSound(call, t, ss, hit)
    PROVE  CallSound(call, t2, ss, hit2)
  BY DEF CallSound, Holding, Requested, TestGoesOn

\* One call changes, and the playtest goes on or ends.
LEMMA NewCall ==
    ASSUME PlaytestsInv, NEW c \in Callers, NEW call \in PlaytestCall, Set(c, call),
           TestGoesOn(test, test'), sessions' = sessions,
           troubled' \in BOOLEAN, troubled => troubled', faults' \in Nat,
           CallSound(call, test', sessions, troubled'),
           \/ lastId' = lastId /\ call.id \in {0, calls[c].id}
           \/ lastId' = lastId + 1 /\ call.id = lastId + 1
    PROVE  PlaytestsInv'
<1>1. calls' = [calls EXCEPT ![c] = call]
  BY DEF Set
<1>2. calls \in [Callers -> PlaytestCall] /\ lastId \in Nat
  BY DEF PlaytestsInv, PlaytestsTypeOK
<1>3. \A d \in Callers : calls'[d] = IF d = c THEN call ELSE calls[d]
  BY <1>1, <1>2
<1>4. PlaytestsTypeOK'
  <2>1. calls' \in [Callers -> PlaytestCall]
    BY <1>1, <1>2
  <2>2. test' \in Playtest /\ lastId' \in Nat
    BY <1>2 DEF TestGoesOn
  <2> QED
    BY <2>1, <2>2 DEF PlaytestsInv, PlaytestsTypeOK
<1>5. TestSound(test)'
  <2>1. test' \in Playtest /\ lastId <= lastId' /\ lastId' \in Nat
    BY <1>2 DEF TestGoesOn
  <2>2. test'.id \in Nat /\ test'.id <= lastId
    BY <2>1 DEF TestGoesOn, TestSound, Playtest
  <2>3. test'.id <= lastId'
    BY <1>2, <2>1, <2>2
  <2> QED
    BY <2>3 DEF TestGoesOn, TestSound
<1>6. ASSUME NEW d \in Callers PROVE CallSound(calls[d], test, sessions, troubled)'
  <2>1. CallSound(calls[d], test, sessions, troubled) /\ troubled \in BOOLEAN
    BY DEF PlaytestsInv, PlaytestsTypeOK
  <2>2. CallSound(calls[d], test', sessions, troubled')
    BY <2>1, EndExcuses
  <2> QED
    BY <1>3, <2>2
<1>7. OwnIds'
  <2>1. \A d \in Callers : calls[d].id \in Nat /\ calls[d].id <= lastId
    BY <1>2 DEF PlaytestsInv, OwnIds, PlaytestCall
  <2>2. \A d, e \in Callers : d # e /\ calls[d].id # 0 => calls[d].id # calls[e].id
    BY DEF PlaytestsInv, OwnIds
  <2> QED
    BY <1>2, <1>3, <2>1, <2>2 DEF OwnIds
<1> QED
  BY <1>4, <1>5, <1>6, <1>7 DEF PlaytestsInv

LEMMA SameTest == ASSUME PlaytestsInv, test' = test PROVE TestGoesOn(test, test')
  BY DEF PlaytestsInv, PlaytestsTypeOK, TestGoesOn

LEMMA OldTypes ==
    ASSUME PlaytestsInv
    PROVE  /\ test \in Playtest /\ troubled \in BOOLEAN /\ sessions \in SUBSET SessionType
           /\ faults \in Nat /\ lastId \in Nat
  BY DEF PlaytestsInv, PlaytestsTypeOK

LEMMA OldCall ==
    ASSUME PlaytestsInv, NEW c \in Callers
    PROVE  /\ calls[c] \in PlaytestCall
           /\ calls[c].id \in Nat
           /\ InCommand(calls[c])
           /\ Gathered(calls[c])
           /\ UpWhenSaid(calls[c])
           /\ Requested(calls[c], test)
           /\ Holding(calls[c], test, sessions, troubled)
           /\ test \in Playtest
           /\ troubled \in BOOLEAN
           /\ sessions \in SUBSET SessionType
           /\ faults \in Nat
           /\ lastId \in Nat
  BY DEF PlaytestsInv, PlaytestsTypeOK, CallSound, PlaytestCall

\* A call with one of its fields replaced.
LEMMA CallWith ==
    ASSUME NEW call \in PlaytestCall
    PROVE  /\ \A x \in PlaytestSteps : [call EXCEPT !.step = x] \in PlaytestCall
           /\ \A x \in PlaytestKinds : [call EXCEPT !.kind = x] \in PlaytestCall
           /\ \A x \in PlaytestModes : [call EXCEPT !.mode = x] \in PlaytestCall
           /\ \A x \in Nat : [call EXCEPT !.players = x] \in PlaytestCall
           /\ \A x \in {"server", "client"} : [call EXCEPT !.context = x] \in PlaytestCall
           /\ \A x \in Nat : [call EXCEPT !.left = x] \in PlaytestCall
           /\ \A x \in Nat : [call EXCEPT !.id = x] \in PlaytestCall
           /\ \A x \in PlaytestReplies : [call EXCEPT !.reply = x] \in PlaytestCall
           /\ \A x \in SessionType \cup {NoSession} : [call EXCEPT !.server = x] \in PlaytestCall
           /\ \A x \in SUBSET SessionType : [call EXCEPT !.clients = x] \in PlaytestCall
           /\ \A x \in Nat : [call EXCEPT !.live = x] \in PlaytestCall
           /\ \A x \in Nat : [call EXCEPT !.attempt = x] \in PlaytestCall
           /\ \A x \in PlaytestResults : [call EXCEPT !.result = x] \in PlaytestCall
<1>1. \A x \in PlaytestSteps : [call EXCEPT !.step = x] \in PlaytestCall
  BY DEF PlaytestCall
<1>2. \A x \in PlaytestKinds : [call EXCEPT !.kind = x] \in PlaytestCall
  BY DEF PlaytestCall
<1>3. \A x \in PlaytestModes : [call EXCEPT !.mode = x] \in PlaytestCall
  BY DEF PlaytestCall
<1>4. \A x \in Nat : [call EXCEPT !.players = x] \in PlaytestCall
  BY DEF PlaytestCall
<1>5. \A x \in {"server", "client"} : [call EXCEPT !.context = x] \in PlaytestCall
  BY DEF PlaytestCall
<1>6. \A x \in Nat : [call EXCEPT !.left = x] \in PlaytestCall
  BY DEF PlaytestCall
<1>7. \A x \in Nat : [call EXCEPT !.id = x] \in PlaytestCall
  BY DEF PlaytestCall
<1>8. \A x \in PlaytestReplies : [call EXCEPT !.reply = x] \in PlaytestCall
  BY DEF PlaytestCall
<1>9. \A x \in SessionType \cup {NoSession} : [call EXCEPT !.server = x] \in PlaytestCall
  BY DEF PlaytestCall
<1>10. \A x \in SUBSET SessionType : [call EXCEPT !.clients = x] \in PlaytestCall
  BY DEF PlaytestCall
<1>11. \A x \in Nat : [call EXCEPT !.live = x] \in PlaytestCall
  BY DEF PlaytestCall
<1>12. \A x \in Nat : [call EXCEPT !.attempt = x] \in PlaytestCall
  BY DEF PlaytestCall
<1>13. \A x \in PlaytestResults : [call EXCEPT !.result = x] \in PlaytestCall
  BY DEF PlaytestCall
<1> QED
  BY <1>1, <1>2, <1>3, <1>4, <1>5, <1>6, <1>7,
    <1>8, <1>9, <1>10, <1>11, <1>12, <1>13

\* What a command leaves when it has returned.
Returned(call, result) ==
    LET over == [call EXCEPT !.step = "done", !.result = result, !.live = 0,
                   !.clients = {}, !.server = NoSession, !.attempt = 1]
    IN  IF over.reply = "asked" THEN over
        ELSE [over EXCEPT !.reply = "none", !.mode = "", !.players = 0]

LEMMA ReturnedIs ==
    ASSUME NEW call \in PlaytestCall, NEW result \in {"ok", "failed", "said", "none"}
    PROVE  /\ Returned(call, result) \in PlaytestCall
           /\ Returned(call, result).step = "done"
           /\ Returned(call, result).result = result
           /\ Returned(call, result).kind = call.kind
           /\ Returned(call, result).id = call.id
           /\ Returned(call, result).clients = {}
           /\ Returned(call, result).server = NoSession
           /\ Returned(call, result).reply \in {"none", "asked"}
           /\ Returned(call, result).reply = "asked" => call.reply = "asked"
<1> DEFINE c1 == [call EXCEPT !.step = "done"]
           c2 == [c1 EXCEPT !.result = result]
           c3 == [c2 EXCEPT !.live = 0]
           c4 == [c3 EXCEPT !.clients = {}]
           c5 == [c4 EXCEPT !.server = NoSession]
           over == [c5 EXCEPT !.attempt = 1]
           c6 == [over EXCEPT !.reply = "none"]
           c7 == [c6 EXCEPT !.mode = ""]
           rest == [c7 EXCEPT !.players = 0]
<1>1. Returned(call, result) = IF over.reply = "asked" THEN over ELSE rest
  BY DEF Returned
<1>2. c1 \in PlaytestCall
  BY CallWith DEF PlaytestSteps
<1>3. ASSUME NEW x \in PlaytestCall
      PROVE  /\ [x EXCEPT !.result = result] \in PlaytestCall
             /\ [x EXCEPT !.live = 0] \in PlaytestCall
             /\ [x EXCEPT !.clients = {}] \in PlaytestCall
             /\ [x EXCEPT !.server = NoSession] \in PlaytestCall
             /\ [x EXCEPT !.attempt = 1] \in PlaytestCall
             /\ [x EXCEPT !.reply = "none"] \in PlaytestCall
             /\ [x EXCEPT !.mode = ""] \in PlaytestCall
             /\ [x EXCEPT !.players = 0] \in PlaytestCall
  BY CallWith DEF PlaytestResults, PlaytestReplies, PlaytestModes
<1>4. over \in PlaytestCall /\ rest \in PlaytestCall
  <2>1. c2 \in PlaytestCall BY <1>2, <1>3
  <2>2. c3 \in PlaytestCall BY <2>1, <1>3
  <2>3. c4 \in PlaytestCall BY <2>2, <1>3
  <2>4. c5 \in PlaytestCall BY <2>3, <1>3
  <2>5. over \in PlaytestCall BY <2>4, <1>3
  <2>6. c6 \in PlaytestCall BY <2>5, <1>3
  <2>7. c7 \in PlaytestCall BY <2>6, <1>3
  <2> QED BY <2>5, <2>7, <1>3
<1>5. /\ over.step = "done" /\ over.result = result /\ over.kind = call.kind
      /\ over.id = call.id /\ over.clients = {} /\ over.server = NoSession
      /\ over.reply = call.reply
  BY DEF PlaytestCall
<1>6. /\ rest.step = "done" /\ rest.result = result /\ rest.kind = call.kind
      /\ rest.id = call.id /\ rest.clients = {} /\ rest.server = NoSession
      /\ rest.reply = "none"
  BY DEF PlaytestCall
<1> HIDE DEF over, rest
<1> QED
  BY <1>1, <1>4, <1>5, <1>6

LEMMA DoneKeeps ==
    ASSUME PlaytestsInv, NEW c \in Callers, NEW result \in {"ok", "failed", "said", "none"},
           Done(c, result), TestGoesOn(test, test'), UNCHANGED <<sessions, lastId>>,
           troubled' \in BOOLEAN, troubled => troubled', faults' \in Nat,
           calls[c].kind \in {"start", "restart"} => result # "ok",
           calls[c].kind = "run" /\ calls[c].reply = "asked" => result = "said",
           calls[c].kind = "run" /\ test'.phase = "on" /\ test.id = calls[c].id /\ ~troubled'
             => result = "said"
    PROVE  PlaytestsInv'
<1> DEFINE call == Returned(calls[c], result)
<1>1. Set(c, call)
  BY DEF Done, Returned
<1>2. calls[c] \in PlaytestCall
  BY OldCall
<1>3. call \in PlaytestCall /\ call.step = "done" /\ call.result = result
      /\ call.kind = calls[c].kind /\ call.id = calls[c].id /\ call.clients = {}
      /\ call.server = NoSession /\ call.reply \in {"none", "asked"}
      /\ (call.reply = "asked" => calls[c].reply = "asked")
  BY <1>2, ReturnedIs
<1> HIDE DEF call
<1>4. CallSound(call, test', sessions, troubled')
  <2>1. InCommand(call) /\ UpWhenSaid(call) /\ Holding(call, test', sessions, troubled')
    BY <1>3 DEF InCommand, UpWhenSaid, Holding, TestGoesOn
  <2>2. Gathered(call)
    BY <1>3, FS_EmptySet DEF Gathered, PlayersOf
  <2>3. Requested(call, test')
    BY <1>3, OldCall DEF Requested, TestGoesOn
  <2> QED
    BY <2>1, <2>2, <2>3 DEF CallSound
<1> QED
  BY <1>1, <1>3, <1>4, NewCall

\* A call that gathers nothing new, when nothing but its step and result change.
LEMMA SameSessions ==
    ASSUME NEW old, NEW call, Gathered(old), call.id = old.id, call.server = old.server,
           call.clients = old.clients
    PROVE  Gathered(call)
  BY DEF Gathered

LEMMA LaunchKeeps ==
    ASSUME PlaytestsInv, NEW c \in Callers, NEW call \in PlaytestCall, Launch(c, call),
           call.kind \in {"start", "run", "restart"}, call.result # "ok"
    PROVE  PlaytestsInv'
<1> DEFINE new == [call EXCEPT !.step = "waiting", !.id = lastId + 1, !.reply = "asked",
                               !.server = NoSession, !.clients = {}]
<1>1. Set(c, new) /\ lastId' = lastId + 1 /\ UNCHANGED <<test, sessions, faults, troubled>>
  BY DEF Launch
<1>2. lastId \in Nat /\ test \in Playtest /\ test.id <= lastId
  BY OldCall DEF PlaytestsInv, TestSound
<1>3. /\ new \in PlaytestCall /\ new.step = "waiting" /\ new.id = lastId + 1
      /\ new.reply = "asked" /\ new.server = NoSession /\ new.clients = {}
      /\ new.kind = call.kind /\ new.result # "ok"
  <2> DEFINE c1 == [call EXCEPT !.step = "waiting"]
             c2 == [c1 EXCEPT !.id = lastId + 1]
             c3 == [c2 EXCEPT !.reply = "asked"]
             c4 == [c3 EXCEPT !.server = NoSession]
  <2>1. c1 \in PlaytestCall BY CallWith DEF PlaytestSteps
  <2>2. c2 \in PlaytestCall
    <3>1. lastId + 1 \in Nat BY <1>2
    <3>2. \A x \in Nat : [c1 EXCEPT !.id = x] \in PlaytestCall BY <2>1, CallWith
    <3> QED BY <3>1, <3>2
  <2>3. c3 \in PlaytestCall BY <2>2, CallWith DEF PlaytestReplies
  <2>4. c4 \in PlaytestCall BY <2>3, CallWith
  <2>5. new \in PlaytestCall BY <2>4, CallWith
  <2> QED
    BY <2>5 DEF PlaytestCall
<1> HIDE DEF new
<1>4. new.id # 0 /\ test.id # new.id
  BY <1>2, <1>3 DEF Playtest
<1>5. CallSound(new, test, sessions, troubled)
  <2>1. Gathered(new)
    BY <1>3, FS_EmptySet DEF Gathered, PlayersOf
  <2>2. InCommand(new) /\ UpWhenSaid(new) /\ Requested(new, test)
        /\ Holding(new, test, sessions, troubled)
    BY <1>3, <1>4 DEF InCommand, UpWhenSaid, Requested, Holding
  <2> QED
    BY <2>1, <2>2 DEF CallSound
<1>6. troubled' = troubled /\ faults' = faults /\ troubled \in BOOLEAN /\ faults \in Nat
  BY <1>1, OldCall
<1>7. TestGoesOn(test, test')
  BY <1>1, SameTest
<1> QED
  BY <1>1, <1>3, <1>5, <1>6, <1>7, NewCall

\* A call that goes on with what it has.
Continues(old, call) ==
    /\ call.id = old.id
    /\ call.kind = old.kind
    /\ call.server = old.server
    /\ call.clients = old.clients
    /\ call.reply = old.reply

LEMMA MoveKeeps ==
    ASSUME PlaytestsInv, NEW c \in Callers, NEW call \in PlaytestCall, Set(c, call),
           Continues(calls[c], call), calls[c].reply # "asked",
           TestGoesOn(test, test'), UNCHANGED <<sessions, lastId>>,
           troubled' \in BOOLEAN, troubled => troubled', faults' \in Nat,
           InCommand(call), UpWhenSaid(call), Holding(call, test', sessions, troubled')
    PROVE  PlaytestsInv'
<1>1. Gathered(call)
  BY OldCall, SameSessions DEF Continues
<1>2. Requested(call, test')
  BY OldCall DEF Requested, Continues, TestGoesOn
<1>3. CallSound(call, test', sessions, troubled')
  BY <1>1, <1>2 DEF CallSound
<1> QED
  BY <1>3, NewCall DEF Continues

LEMMA OpenedIs ==
    ASSUME PlaytestsInv, NEW c \in Callers, NEW command \in CommandType, Free(c)
    PROVE  /\ Opened(c, command) \in PlaytestCall
           /\ Opened(c, command).kind = command.kind
           /\ Opened(c, command).id = 0
           /\ Opened(c, command).reply = "none"
           /\ Opened(c, command).clients = {}
           /\ Opened(c, command).result = "none"
<1> DEFINE o1 == [calls[c] EXCEPT !.kind = command.kind]
           o2 == [o1 EXCEPT !.mode = command.mode]
           o3 == [o2 EXCEPT !.players = command.players]
           o4 == [o3 EXCEPT !.context = command.context]
           o5 == [o4 EXCEPT !.left = calls[c].left - 1]
           o6 == [o5 EXCEPT !.server = NoSession]
           o7 == [o6 EXCEPT !.clients = {}]
           o8 == [o7 EXCEPT !.live = 0]
           o9 == [o8 EXCEPT !.attempt = 1]
           o10 == [o9 EXCEPT !.reply = "none"]
           o11 == [o10 EXCEPT !.id = 0]
           o12 == [o11 EXCEPT !.result = "none"]
<1>1. calls[c] \in PlaytestCall
  BY OldCall
<1>2. Opened(c, command) = o12
  BY <1>1 DEF Opened, PlaytestCall
<1>3. calls[c].left - 1 \in Nat
  BY <1>1 DEF Free, PlaytestCall
<1>4. /\ command.kind \in PlaytestKinds /\ command.mode \in PlaytestModes
      /\ command.players \in Nat /\ command.context \in {"server", "client"}
  BY DEF CommandType, PlaytestKinds, PlaytestModes
<1>5. ASSUME NEW x \in PlaytestCall
      PROVE  /\ [x EXCEPT !.kind = command.kind] \in PlaytestCall
             /\ [x EXCEPT !.mode = command.mode] \in PlaytestCall
             /\ [x EXCEPT !.players = command.players] \in PlaytestCall
             /\ [x EXCEPT !.context = command.context] \in PlaytestCall
  BY <1>4, CallWith
<1>6. ASSUME NEW x \in PlaytestCall
      PROVE  /\ [x EXCEPT !.server = NoSession] \in PlaytestCall
             /\ [x EXCEPT !.clients = {}] \in PlaytestCall
             /\ [x EXCEPT !.live = 0] \in PlaytestCall
             /\ [x EXCEPT !.attempt = 1] \in PlaytestCall
             /\ [x EXCEPT !.reply = "none"] \in PlaytestCall
             /\ [x EXCEPT !.id = 0] \in PlaytestCall
             /\ [x EXCEPT !.result = "none"] \in PlaytestCall
  BY CallWith DEF PlaytestReplies, PlaytestResults
<1>7. o4 \in PlaytestCall
  <2>1. o1 \in PlaytestCall BY <1>1, <1>5
  <2>2. o2 \in PlaytestCall BY <2>1, <1>5
  <2>3. o3 \in PlaytestCall BY <2>2, <1>5
  <2> QED BY <2>3, <1>5
<1>8. o5 \in PlaytestCall
  <2>1. \A x \in Nat : [o4 EXCEPT !.left = x] \in PlaytestCall
    BY <1>7, CallWith
  <2> QED BY <1>3, <2>1
<1>9. o12 \in PlaytestCall
  <2>1. o6 \in PlaytestCall BY <1>8, <1>6
  <2>2. o7 \in PlaytestCall BY <2>1, <1>6
  <2>3. o8 \in PlaytestCall BY <2>2, <1>6
  <2>4. o9 \in PlaytestCall BY <2>3, <1>6
  <2>5. o10 \in PlaytestCall BY <2>4, <1>6
  <2>6. o11 \in PlaytestCall BY <2>5, <1>6
  <2> QED BY <2>6, <1>6
<1>10. /\ o12.kind = command.kind /\ o12.id = 0 /\ o12.reply = "none"
       /\ o12.clients = {} /\ o12.result = "none"
  BY <1>1 DEF PlaytestCall
<1> HIDE DEF o12
<1> QED
  BY <1>2, <1>9, <1>10

LEMMA StartKeepsPlaytests ==
    ASSUME PlaytestsInv, NEW c \in Callers, NEW command \in CommandType,
           StartPlaytest(c, command)
    PROVE  PlaytestsInv'
<1>1. Free(c) /\ command.kind \in {"start", "run"} /\ Launch(c, Opened(c, command))
  BY DEF StartPlaytest
<1> QED
  BY <1>1, OpenedIs, LaunchKeeps

\* A command that has found a server session, or none.
LEMMA WithServerKeeps ==
    ASSUME PlaytestsInv, NEW c \in Callers, NEW call \in PlaytestCall,
           call.id = 0, call.reply = "none", call.clients = {}, call.result = "none",
           call.kind # "run",
           NEW step \in {"ending", "counting", "add", "remove"},
           step # "ending" => call.kind = IF step = "counting" THEN "restart" ELSE step,
           WithServer(c, call, step)
    PROVE  PlaytestsInv'
<1>1. UNCHANGED <<test, sessions, lastId, faults, troubled>>
  BY DEF WithServer
<1>2. ASSUME NEW new \in PlaytestCall, Set(c, new), new.id = 0, new.reply = "none",
             new.clients = {}, new.kind = call.kind, new.result # "ok",
             new.step \in {"done", step}
      PROVE  PlaytestsInv'
  <2>1. Gathered(new)
    BY <1>2, FS_EmptySet DEF Gathered, PlayersOf
  <2>2. /\ InCommand(new) /\ UpWhenSaid(new) /\ Requested(new, test)
        /\ Holding(new, test, sessions, troubled)
    BY <1>2 DEF InCommand, UpWhenSaid, Requested, Holding
  <2>3. CallSound(new, test, sessions, troubled)
    BY <2>1, <2>2 DEF CallSound
  <2> QED
    BY <1>1, <1>2, <2>3, OldCall, SameTest, NewCall
<1>3. CASE Servers = {}
  <2> DEFINE c1 == [call EXCEPT !.step = "done"]
             new == [c1 EXCEPT !.result = "failed"]
  <2>1. Set(c, new)
    BY <1>3 DEF WithServer
  <2>2. c1 \in PlaytestCall
    BY CallWith DEF PlaytestSteps
  <2>3. new \in PlaytestCall
    BY <2>2, CallWith DEF PlaytestResults
  <2>4. /\ new.id = 0 /\ new.reply = "none" /\ new.clients = {} /\ new.kind = call.kind
        /\ new.result # "ok" /\ new.step = "done"
    BY DEF PlaytestCall
  <2> HIDE DEF new
  <2> QED
    BY <1>2, <2>1, <2>3, <2>4
<1>4. CASE Servers # {}
  <2>1. PICK s \in Servers : Set(c, [call EXCEPT !.step = step, !.server = s])
    BY <1>4 DEF WithServer
  <2> DEFINE c1 == [call EXCEPT !.step = step]
             new == [c1 EXCEPT !.server = s]
  <2>2. s \in SessionType
    BY OldCall DEF Servers
  <2>3. c1 \in PlaytestCall
    BY CallWith DEF PlaytestSteps
  <2>4. new \in PlaytestCall
    BY <2>2, <2>3, CallWith
  <2>5. /\ new.id = 0 /\ new.reply = "none" /\ new.clients = {} /\ new.kind = call.kind
        /\ new.result # "ok" /\ new.step = step
    BY DEF PlaytestCall
  <2>6. Set(c, new)
    BY <2>1
  <2> HIDE DEF new
  <2> QED
    BY <1>2, <2>4, <2>5, <2>6
<1> QED
  BY <1>3, <1>4

LEMMA OtherCommandsKeep ==
    ASSUME PlaytestsInv, NEW c \in Callers, NEW command \in CommandType,
           Stop(c, command) \/ ChangePlayers(c, command)
    PROVE  PlaytestsInv'
<1> DEFINE call == Opened(c, command)
<1>1. Free(c) /\ command.kind \in {"stop", "add", "remove"}
  BY DEF Stop, ChangePlayers
<1>2. call \in PlaytestCall /\ call.kind = command.kind /\ call.id = 0
      /\ call.reply = "none" /\ call.clients = {} /\ call.result = "none"
  BY <1>1, OpenedIs
<1>3. \/ WithServer(c, call, "ending")
      \/ command.kind \in {"add", "remove"} /\ WithServer(c, call, command.kind)
  BY DEF Stop, ChangePlayers
<1> HIDE DEF call
<1>4. CASE WithServer(c, call, "ending")
  BY <1>1, <1>2, <1>4, WithServerKeeps
<1>5. CASE command.kind \in {"add", "remove"} /\ WithServer(c, call, command.kind)
  BY <1>2, <1>5, WithServerKeeps
<1> QED
  BY <1>3, <1>4, <1>5

LEMMA RestartKeeps ==
    ASSUME PlaytestsInv, NEW c \in Callers, NEW command \in CommandType, Restart(c, command)
    PROVE  PlaytestsInv'
<1> DEFINE call == Opened(c, command)
           new == [call EXCEPT !.mode = IF call.mode = "" THEN "play" ELSE call.mode]
<1>1. Free(c) /\ command.kind = "restart"
  BY DEF Restart
<1>2. call \in PlaytestCall /\ call.kind = command.kind /\ call.id = 0
      /\ call.reply = "none" /\ call.clients = {} /\ call.result = "none"
  BY <1>1, OpenedIs
<1>3. \/ Launch(c, new)
      \/ WithServer(c, call, "counting")
      \/ WithServer(c, call, "ending")
  BY DEF Restart
<1> HIDE DEF call
<1>4. CASE Launch(c, new)
  <2>1. (IF call.mode = "" THEN "play" ELSE call.mode) \in PlaytestModes
    BY <1>2 DEF PlaytestCall, PlaytestModes
  <2>2. new \in PlaytestCall
    BY <1>2, <2>1, CallWith
  <2>3. new.kind = "restart" /\ new.result = "none"
    BY <1>1, <1>2 DEF PlaytestCall
  <2> HIDE DEF new
  <2> QED
    BY <1>4, <2>2, <2>3, LaunchKeeps
<1>5. CASE WithServer(c, call, "counting")
  BY <1>1, <1>2, <1>5, WithServerKeeps
<1>6. CASE WithServer(c, call, "ending")
  BY <1>1, <1>2, <1>6, WithServerKeeps
<1> QED
  BY <1>3, <1>4, <1>5, <1>6

LEMMA PlayersFinite ==
    ASSUME NEW t \in Playtest
    PROVE  IsFiniteSet(t.players) /\ Cardinality(t.players) \in Nat
<1>1. t.players \subseteq 1 .. MaxPlayers
  BY DEF Playtest, Names
<1>2. IsFiniteSet(1 .. MaxPlayers)
  BY BoundsAssumption, FS_Interval
<1> QED
  BY <1>1, <1>2, FS_Subset, FS_CardinalityType

\* A fault is at most one more.
LEMMA Unharmed ==
    ASSUME PlaytestsInv, UNCHANGED <<test, sessions, lastId, faults, troubled>>
    PROVE  /\ TestGoesOn(test, test') /\ UNCHANGED <<sessions, lastId>>
           /\ troubled' \in BOOLEAN /\ (troubled => troubled') /\ faults' \in Nat
  BY OldCall, SameTest DEF PlaytestsInv, PlaytestsTypeOK

LEMMA CountKeeps == ASSUME PlaytestsInv, NEW c \in Callers, Count(c) PROVE PlaytestsInv'
<1> DEFINE next == [calls[c] EXCEPT !.step = "ending"]
           counted == [next EXCEPT !.live = Cardinality(test.players)]
<1>1. calls[c] \in PlaytestCall /\ calls[c].step = "counting" /\ calls[c].kind = "restart"
      /\ calls[c].result # "ok" /\ calls[c].reply # "asked"
  BY OldCall DEF Count, InCommand, UpWhenSaid, Requested
<1>2. next \in PlaytestCall
  BY <1>1, CallWith DEF PlaytestSteps
<1>3. counted \in PlaytestCall
  <2>1. Cardinality(test.players) \in Nat
    BY OldCall, PlayersFinite
  <2>2. \A x \in Nat : [next EXCEPT !.live = x] \in PlaytestCall
    BY <1>2, CallWith
  <2> QED
    BY <2>1, <2>2
<1>4. PICK new \in {next, counted} : Set(c, new)
  BY DEF Count
<1>5. /\ new \in PlaytestCall /\ Continues(calls[c], new) /\ new.step = "ending"
      /\ new.result = calls[c].result
  BY <1>1, <1>2, <1>3 DEF Continues, PlaytestCall
<1> HIDE DEF next, counted
<1>6. InCommand(new) /\ UpWhenSaid(new) /\ Holding(new, test', sessions, troubled')
  BY <1>1, <1>5 DEF InCommand, UpWhenSaid, Holding, Continues
<1>7. UNCHANGED <<test, sessions, lastId, faults, troubled>>
  BY DEF Count
<1> QED
  BY <1>1, <1>4, <1>5, <1>6, <1>7, Unharmed, MoveKeeps

LEMMA StartAnsweredKeeps ==
    ASSUME PlaytestsInv, NEW c \in Callers, StartAnswered(c) PROVE PlaytestsInv'
<1> DEFINE new == [calls[c] EXCEPT !.step = "retrying"]
<1>1. /\ calls[c] \in PlaytestCall /\ calls[c].step = "waiting"
      /\ calls[c].reply \in {"refused", "ended", "lost"}
      /\ UNCHANGED <<test, sessions, lastId, faults, troubled>>
  BY OldCall DEF StartAnswered
<1>2. calls[c].kind \in {"start", "restart"} => calls[c].result # "ok"
  BY <1>1, OldCall DEF UpWhenSaid
<1>3. CASE calls[c].kind = "restart" /\ Set(c, new)
  <2>1. new \in PlaytestCall
    BY <1>1, CallWith DEF PlaytestSteps
  <2>2. Continues(calls[c], new) /\ new.step = "retrying" /\ new.result = calls[c].result
    BY <1>1 DEF Continues, PlaytestCall
  <2> HIDE DEF new
  <2>3. InCommand(new) /\ UpWhenSaid(new) /\ Holding(new, test', sessions, troubled')
    BY <1>2, <1>3, <2>2 DEF InCommand, UpWhenSaid, Holding, Continues
  <2> QED
    BY <1>1, <1>3, <2>1, <2>2, <2>3, Unharmed, MoveKeeps
<1>4. CASE Done(c, "failed")
  <2>1. ~(calls[c].kind = "run" /\ test.phase = "on" /\ test.id = calls[c].id /\ ~troubled)
    BY <1>1, OldCall DEF Requested, Holding
  <2> QED
    BY <1>1, <1>4, <2>1, Unharmed, DoneKeeps
<1> QED
  BY <1>3, <1>4 DEF StartAnswered

LEMMA RetryKeeps == ASSUME PlaytestsInv, NEW c \in Callers, Retry(c) PROVE PlaytestsInv'
<1> DEFINE new == [calls[c] EXCEPT !.attempt = calls[c].attempt + 1]
<1>1. calls[c] \in PlaytestCall /\ calls[c].kind = "restart" /\ calls[c].result # "ok"
  BY OldCall DEF Retry, InCommand, UpWhenSaid
<1>2. calls[c].attempt + 1 \in Nat
  BY <1>1 DEF PlaytestCall
<1>3. \A x \in Nat : [calls[c] EXCEPT !.attempt = x] \in PlaytestCall
  BY <1>1, CallWith
<1>4. new \in PlaytestCall
  BY <1>2, <1>3
<1>5. new.kind = "restart" /\ new.result # "ok"
  BY <1>1 DEF PlaytestCall
<1>6. Launch(c, new)
  BY DEF Retry
<1> HIDE DEF new
<1> QED
  BY <1>4, <1>5, <1>6, LaunchKeeps

\* A run that goes on to end its playtest, which it can.
LEMMA EndingKeeps ==
    ASSUME PlaytestsInv, NEW c \in Callers, NEW result \in {"ok", "failed"},
           Set(c, [calls[c] EXCEPT !.step = "ending", !.result = result]),
           Connected(calls[c].server), calls[c].reply # "asked",
           calls[c].kind \in {"start", "restart"} => result # "ok",
           calls[c].step \in {"waiting", "joining", "executing"},
           UNCHANGED <<test, sessions, lastId, faults, troubled>>
    PROVE  PlaytestsInv'
<1> DEFINE c1 == [calls[c] EXCEPT !.step = "ending"]
           new == [c1 EXCEPT !.result = result]
<1>1. calls[c] \in PlaytestCall /\ calls[c].server \in sessions
      /\ calls[c].server # NoSession
  BY OldCall, BoundsAssumption DEF Connected
<1>2. Set(c, new)
  OBVIOUS
<1>3. c1 \in PlaytestCall
  BY <1>1, CallWith DEF PlaytestSteps
<1>4. new \in PlaytestCall
  BY <1>3, CallWith DEF PlaytestResults
<1>5. Continues(calls[c], new) /\ new.step = "ending" /\ new.result = result
  BY <1>1 DEF Continues, PlaytestCall
<1> HIDE DEF new
<1>6. InCommand(new) /\ UpWhenSaid(new)
  BY <1>5 DEF InCommand, UpWhenSaid, Continues
<1>7. Holding(new, test', sessions, troubled')
  <2>1. Holding(calls[c], test, sessions, troubled)
    BY OldCall
  <2> QED
    BY <1>1, <1>5, <2>1 DEF Holding, Continues
<1> QED
  BY <1>2, <1>4, <1>5, <1>6, <1>7, Unharmed, MoveKeeps

LEMMA StartTimesOutKeeps ==
    ASSUME PlaytestsInv, NEW c \in Callers, StartTimesOut(c) PROVE PlaytestsInv'
<1>1. calls[c].step = "waiting" /\ UNCHANGED <<test, sessions, lastId, faults, troubled>>
  BY DEF StartTimesOut
<1>2. CASE Connected(calls[c].server)
  <2>1. calls[c].server # NoSession
    BY <1>2, OldCall, BoundsAssumption DEF Connected
  <2>2. calls[c].reply # "asked"
    BY <2>1, OldCall DEF Requested
  <2> QED
    BY <1>1, <1>2, <2>2, EndingKeeps DEF StartTimesOut
<1>3. CASE ~Connected(calls[c].server)
  <2>1. Done(c, "said")
    BY <1>3 DEF StartTimesOut
  <2> QED
    BY <1>1, <2>1, Unharmed, DoneKeeps
<1> QED
  BY <1>2, <1>3

LEMMA TryEndKeeps ==
    ASSUME PlaytestsInv, NEW c \in Callers, NEW result \in {"ok", "failed"},
           TryEnd(c, result), calls[c].step \in {"joining", "executing"},
           UNCHANGED <<test, sessions, lastId, faults, troubled>>
    PROVE  PlaytestsInv'
<1>1. calls[c].kind = "run" /\ IsUp(calls[c]) /\ calls[c].reply # "asked"
  BY OldCall DEF InCommand, UpWhenSaid, Requested
<1>2. CASE Connected(calls[c].server)
  BY <1>1, <1>2, EndingKeeps DEF TryEnd
<1>3. CASE ~Connected(calls[c].server)
  <2>1. Done(c, result)
    BY <1>3 DEF TryEnd
  <2>2. ~(test.phase = "on" /\ test.id = calls[c].id /\ ~troubled)
    BY <1>1, <1>3, OldCall DEF Holding, IsUp, Connected
  <2> QED
    BY <1>1, <2>1, <2>2, Unharmed, DoneKeeps
<1> QED
  BY <1>2, <1>3

LEMMA PlayerJoinedKeeps ==
    ASSUME PlaytestsInv, NEW c \in Callers, PlayerJoined(c) PROVE PlaytestsInv'
<1> DEFINE new == [calls[c] EXCEPT !.step = "executing"]
<1>1. /\ calls[c] \in PlaytestCall /\ calls[c].step = "joining" /\ calls[c].kind = "run"
      /\ IsUp(calls[c]) /\ calls[c].reply # "asked" /\ Set(c, new)
      /\ UNCHANGED <<test, sessions, lastId, faults, troubled>>
  BY OldCall DEF PlayerJoined, InCommand, UpWhenSaid, Requested
<1>2. new \in PlaytestCall
  BY <1>1, CallWith DEF PlaytestSteps
<1>3. /\ Continues(calls[c], new) /\ new.step = "executing" /\ new.mode = calls[c].mode
      /\ new.players = calls[c].players /\ new.context = calls[c].context
  BY <1>1 DEF Continues, PlaytestCall
<1> HIDE DEF new
<1>4. InCommand(new) /\ UpWhenSaid(new)
  BY <1>1, <1>3 DEF InCommand, UpWhenSaid, IsUp, ClientCount, Continues
<1>5. Holding(new, test', sessions, troubled')
  <2>1. Holding(calls[c], test, sessions, troubled)
    BY OldCall
  <2> QED
    BY <1>1, <1>3, <2>1 DEF Holding, Continues
<1> QED
  BY <1>1, <1>2, <1>3, <1>4, <1>5, Unharmed, MoveKeeps

LEMMA ExecutingKeeps ==
    ASSUME PlaytestsInv, NEW c \in Callers,
           NoPlayerJoins(c) \/ Executed(c) \/ ExecuteFails(c)
    PROVE  PlaytestsInv'
<1>1. calls[c].step \in {"joining", "executing"}
  BY DEF NoPlayerJoins, Executed, ExecuteFails
<1>2. UNCHANGED <<test, sessions, lastId, faults, troubled>>
  BY DEF NoPlayerJoins, Executed, ExecuteFails
<1>3. TryEnd(c, "ok") \/ TryEnd(c, "failed")
  BY DEF NoPlayerJoins, Executed, ExecuteFails
<1> QED
  BY <1>1, <1>2, <1>3, TryEndKeeps

LEMMA EndAnsweredKeeps ==
    ASSUME PlaytestsInv, NEW c \in Callers, EndAnswered(c) PROVE PlaytestsInv'
<1> DEFINE next == [calls[c] EXCEPT !.step = "closing"]
           ph == IF test.phase = "on" THEN "ending" ELSE test.phase
<1>1. /\ calls[c] \in PlaytestCall /\ calls[c].step = "ending" /\ calls[c].reply # "asked"
      /\ calls[c].kind \in {"start", "restart"} => calls[c].result # "ok"
  BY OldCall DEF EndAnswered, UpWhenSaid, Requested
<1>2. UNCHANGED <<sessions, lastId, faults, troubled>>
  BY DEF EndAnswered
<1>3. test' = [test EXCEPT !.phase = ph]
  BY DEF EndAnswered
<1>4. /\ test' \in Playtest /\ test'.phase = ph /\ test'.id = test.id
      /\ test'.players = test.players /\ test'.leaving = test.leaving
      /\ test'.wanted = test.wanted
  BY <1>3, OldCall DEF Playtest
<1>5. TestGoesOn(test, test')
  BY <1>4 DEF PlaytestsInv, TestSound, TestGoesOn
<1>6. next \in PlaytestCall
  BY <1>1, CallWith DEF PlaytestSteps
<1>7. Renewed(next) \in PlaytestCall
  <2> DEFINE mode == IF next.mode # "" THEN next.mode ELSE test.mode
             players == IF next.players > 0 THEN next.players
                        ELSE IF next.mode = "" /\ test.asked > 0
                          THEN IF next.live > 0 THEN next.live ELSE test.asked
                          ELSE 0
             new == [next EXCEPT !.mode = mode]
  <2>1. mode \in PlaytestModes /\ players \in Nat
    BY <1>6, OldCall DEF PlaytestCall, Playtest
  <2>2. new \in PlaytestCall
    BY <1>6, <2>1, CallWith
  <2>3. \A x \in Nat : [new EXCEPT !.players = x] \in PlaytestCall
    BY <2>2, CallWith
  <2>4. Renewed(next) = [new EXCEPT !.players = players]
    BY DEF Renewed
  <2> HIDE DEF mode, players, new
  <2> QED
    BY <2>1, <2>3, <2>4
<1>8. PICK new \in {next, Renewed(next)} : Set(c, new)
  BY DEF EndAnswered
<1>9. /\ new \in PlaytestCall /\ Continues(calls[c], new) /\ new.step = "closing"
      /\ new.result = calls[c].result
  <2>1. Continues(calls[c], next) /\ next.step = "closing" /\ next.result = calls[c].result
    BY <1>1 DEF Continues, PlaytestCall
  <2>2. /\ Renewed(next).id = next.id /\ Renewed(next).kind = next.kind
        /\ Renewed(next).server = next.server /\ Renewed(next).clients = next.clients
        /\ Renewed(next).reply = next.reply /\ Renewed(next).step = next.step
        /\ Renewed(next).result = next.result
    BY <1>6 DEF Renewed, PlaytestCall
  <2> QED
    BY <1>6, <1>7, <2>1, <2>2 DEF Continues
<1> HIDE DEF next
<1>10. InCommand(new) /\ UpWhenSaid(new)
  BY <1>1, <1>9 DEF InCommand, UpWhenSaid, Continues
<1>11. Holding(new, test', sessions, troubled')
  BY <1>4, <1>9 DEF Holding
<1>12. troubled' \in BOOLEAN /\ (troubled => troubled') /\ faults' \in Nat
  BY <1>2, OldCall
<1> QED
  BY <1>1, <1>2, <1>5, <1>8, <1>9, <1>10, <1>11, <1>12, MoveKeeps

LEMMA EndFailsKeeps == ASSUME PlaytestsInv, NEW c \in Callers, EndFails(c) PROVE PlaytestsInv'
<1> DEFINE result == IF calls[c].kind = "run" /\ calls[c].result = "ok"
                       THEN "said" ELSE "failed"
<1>1. calls[c].step = "ending" /\ calls[c].reply # "asked"
  BY OldCall DEF EndFails, Requested
<1>2. UNCHANGED <<test, sessions, lastId>> /\ Done(c, result)
  BY DEF EndFails
<1>3. TestGoesOn(test, test')
  BY <1>2, SameTest
<1>4. result \in {"said", "failed"}
  OBVIOUS
<1> HIDE DEF result
<1>5. CASE ~Answers(calls[c].server) /\ UNCHANGED <<faults, troubled>>
  <2>1. ~(calls[c].kind = "run" /\ test.phase = "on" /\ test.id = calls[c].id /\ ~troubled)
    <3> SUFFICES ASSUME calls[c].kind = "run", test.phase = "on", test.id = calls[c].id,
                        ~troubled
                 PROVE  FALSE
      OBVIOUS
    <3>1. calls[c].server # NoSession /\ calls[c].server \in sessions
      BY <1>1, OldCall DEF Holding
    <3>2. calls[c].id # 0
      BY DEF PlaytestsInv, TestSound
    <3>3. calls[c].server.test = calls[c].id
      BY <3>1, <3>2, OldCall DEF Gathered
    <3> QED
      BY <1>5, <3>1, <3>3 DEF Answers, Connected
  <2> QED
    BY <1>1, <1>2, <1>3, <1>4, <1>5, <2>1, OldCall, DoneKeeps
<1>6. CASE faults' = faults + 1 /\ troubled' = TRUE
  <2>1. faults' \in Nat
    BY <1>6, OldCall
  <2> QED
    BY <1>1, <1>2, <1>3, <1>4, <1>6, <2>1, DoneKeeps
<1> QED
  BY <1>5, <1>6 DEF EndFails

LEMMA ClosedKeeps == ASSUME PlaytestsInv, NEW c \in Callers, Closed(c) PROVE PlaytestsInv'
<1>1. /\ calls[c] \in PlaytestCall /\ calls[c].step = "closing" /\ calls[c].reply # "asked"
      /\ calls[c].kind \in {"start", "restart"} => calls[c].result # "ok"
      /\ UNCHANGED <<test, sessions, faults, troubled>>
  BY OldCall DEF Closed, UpWhenSaid, Requested
<1>2. ~(calls[c].kind = "run" /\ test.phase = "on" /\ test.id = calls[c].id /\ ~troubled)
  BY <1>1, OldCall DEF Holding
<1>3. CASE calls[c].kind = "stop"
  <2>1. Done(c, "ok") /\ lastId' = lastId
    BY <1>3 DEF Closed
  <2> QED
    BY <1>1, <1>3, <2>1, Unharmed, DoneKeeps
<1>4. CASE calls[c].kind = "restart" /\ calls[c].id = 0
  <2> DEFINE new == [calls[c] EXCEPT !.step = "waiting", !.id = lastId + 1,
                       !.reply = "asked", !.server = NoSession]
  <2>1. lastId' = lastId + 1 /\ Set(c, new)
    BY <1>4 DEF Closed
  <2>2. calls[c].clients = {}
    BY <1>4, OldCall DEF Gathered
  <2>3. new = [new EXCEPT !.clients = {}]
    BY <1>1, <2>2 DEF PlaytestCall
  <2>4. Launch(c, calls[c])
    BY <1>1, <2>1, <2>3 DEF Launch
  <2> QED
    BY <1>1, <1>4, <2>4, LaunchKeeps
<1>5. CASE calls[c].kind # "stop" /\ ~(calls[c].kind = "restart" /\ calls[c].id = 0)
  <2>1. Done(c, calls[c].result) /\ lastId' = lastId
    BY <1>5 DEF Closed
  <2>2. calls[c].result \in {"ok", "failed", "said", "none"}
    BY <1>1 DEF PlaytestCall, PlaytestResults
  <2> QED
    BY <1>1, <1>2, <2>1, <2>2, Unharmed, DoneKeeps
<1> QED
  BY <1>3, <1>4, <1>5

LEMMA CloseTimesOutKeeps ==
    ASSUME PlaytestsInv, NEW c \in Callers, CloseTimesOut(c) PROVE PlaytestsInv'
<1> DEFINE result == IF calls[c].kind = "run" /\ calls[c].result = "ok"
                       THEN "said" ELSE "failed"
<1>1. /\ calls[c].step = "closing" /\ calls[c].reply # "asked" /\ Done(c, result)
      /\ UNCHANGED <<test, sessions, lastId, faults, troubled>>
  BY OldCall DEF CloseTimesOut, Requested
<1>2. ~(calls[c].kind = "run" /\ test.phase = "on" /\ test.id = calls[c].id /\ ~troubled)
  BY <1>1, OldCall DEF Holding
<1>3. result \in {"said", "failed"}
  OBVIOUS
<1> HIDE DEF result
<1> QED
  BY <1>1, <1>2, <1>3, Unharmed, DoneKeeps

\* A command that asks for players, and the playtest with those it asks for.
LEMMA AsksForPlayers ==
    ASSUME PlaytestsInv, NEW c \in Callers, NEW step \in {"arriving", "leaving"},
           calls[c].kind = IF step = "arriving" THEN "add" ELSE "remove",
           calls[c].reply # "asked",
           Set(c, [calls[c] EXCEPT !.step = step]), TestGoesOn(test, test'),
           UNCHANGED <<sessions, lastId, faults, troubled>>
    PROVE  PlaytestsInv'
<1> DEFINE new == [calls[c] EXCEPT !.step = step]
<1>1. calls[c] \in PlaytestCall
  BY OldCall
<1>2. new \in PlaytestCall
  BY <1>1, CallWith DEF PlaytestSteps
<1>3. Continues(calls[c], new) /\ new.step = step
  BY <1>1 DEF Continues, PlaytestCall
<1>4. Set(c, new)
  OBVIOUS
<1> HIDE DEF new
<1>5. InCommand(new) /\ UpWhenSaid(new) /\ Holding(new, test', sessions, troubled')
  BY <1>3 DEF InCommand, UpWhenSaid, Holding, Continues
<1>6. troubled' \in BOOLEAN /\ (troubled => troubled') /\ faults' \in Nat
  BY OldCall
<1> QED
  BY <1>2, <1>3, <1>4, <1>5, <1>6, MoveKeeps

LEMMA AddPlayerKeeps ==
    ASSUME PlaytestsInv, NEW c \in Callers, AddPlayer(c) PROVE PlaytestsInv'
<1>1. /\ calls[c].step = "add" /\ calls[c].kind = "add" /\ calls[c].reply # "asked"
      /\ UNCHANGED <<sessions, lastId, faults, troubled>>
  BY OldCall DEF AddPlayer, InCommand, Requested
<1>2. CASE Answers(calls[c].server) /\ test.phase = "on" /\ test.asked > 0
  <2> DEFINE wanted == IF test.wanted < MaxPlayers THEN test.wanted + 1 ELSE test.wanted
  <2>1. test' = [test EXCEPT !.wanted = wanted]
        /\ Set(c, [calls[c] EXCEPT !.step = "arriving"])
    BY <1>2 DEF AddPlayer
  <2>2. wanted \in Nat /\ test.wanted <= wanted /\ test.wanted \in Nat
    BY OldCall, BoundsAssumption DEF Playtest
  <2> HIDE DEF wanted
  <2>3. /\ test' \in Playtest /\ test'.wanted = wanted /\ test'.id = test.id
        /\ test'.phase = test.phase /\ test'.players = test.players
        /\ test'.leaving = test.leaving
    BY <2>1, <2>2, OldCall DEF Playtest
  <2>4. Cardinality(test.players) \in Nat /\ Cardinality(test.players) <= test.wanted
    BY OldCall, PlayersFinite DEF PlaytestsInv, TestSound
  <2>5. Cardinality(test'.players) <= test'.wanted
    BY <2>2, <2>3, <2>4
  <2>6. TestGoesOn(test, test')
    BY <2>3, <2>5 DEF PlaytestsInv, TestSound, TestGoesOn
  <2> QED
    BY <1>1, <2>1, <2>6, AsksForPlayers
<1>3. CASE Done(c, "failed") /\ test' = test
  BY <1>1, <1>3, Unharmed, DoneKeeps
<1> QED
  BY <1>2, <1>3 DEF AddPlayer

LEMMA RemovePlayerKeeps ==
    ASSUME PlaytestsInv, NEW c \in Callers, NEW name \in Names, RemovePlayer(c, name)
    PROVE  PlaytestsInv'
<1>1. /\ calls[c].step = "remove" /\ calls[c].kind = "remove" /\ calls[c].reply # "asked"
      /\ UNCHANGED <<sessions, lastId, faults, troubled>>
  BY OldCall DEF RemovePlayer, InCommand, Requested
<1>2. CASE /\ name \in test.players
           /\ test' = [test EXCEPT !.leaving = test.leaving \cup {name}]
           /\ Set(c, [calls[c] EXCEPT !.step = "leaving"])
  <2>1. /\ test' \in Playtest /\ test'.leaving = test.leaving \cup {name}
        /\ test'.id = test.id /\ test'.phase = test.phase
        /\ test'.players = test.players /\ test'.wanted = test.wanted
    BY <1>2, OldCall DEF Playtest
  <2>2. TestGoesOn(test, test')
    BY <1>2, <2>1 DEF PlaytestsInv, TestSound, TestGoesOn
  <2> QED
    BY <1>1, <1>2, <2>2, AsksForPlayers
<1>3. CASE Done(c, "failed") /\ test' = test
  BY <1>1, <1>3, Unharmed, DoneKeeps
<1> QED
  BY <1>2, <1>3 DEF RemovePlayer

LEMMA PlayersReported ==
    ASSUME PlaytestsInv, NEW c \in Callers, PlayerAdded(c) \/ PlayerRemoved(c)
    PROVE  PlaytestsInv'
<1>1. /\ calls[c].kind \in {"add", "remove"} /\ calls[c].reply # "asked"
      /\ UNCHANGED <<test, sessions, lastId, faults, troubled>>
  BY OldCall DEF PlayerAdded, PlayerRemoved, InCommand, Requested
<1>2. Done(c, "ok") \/ Done(c, "failed")
  BY DEF PlayerAdded, PlayerRemoved
<1> QED
  BY <1>1, <1>2, Unharmed, DoneKeeps

LEMMA CallerKeeps ==
    ASSUME PlaytestsInv, NEW c \in Callers, Asks(c) \/ CallerStep(c) PROVE PlaytestsInv'
<1>1. CASE Asks(c)
  <2>1. PICK command \in CommandType :
           \/ StartPlaytest(c, command) \/ Stop(c, command)
           \/ ChangePlayers(c, command) \/ Restart(c, command)
    BY <1>1, BoundsAssumption DEF Asks
  <2> QED
    BY <2>1, StartKeepsPlaytests, OtherCommandsKeep, RestartKeeps
<1>2. CASE CallerStep(c)
  BY <1>2, CountKeeps, StartAnsweredKeeps, RetryKeeps, StartTimesOutKeeps, PlayerJoinedKeeps,
    ExecutingKeeps, EndAnsweredKeeps, EndFailsKeeps, ClosedKeeps, CloseTimesOutKeeps,
    AddPlayerKeeps, RemovePlayerKeeps, PlayersReported DEF CallerStep
<1> QED
  BY <1>1, <1>2

(* Studio *)

LEMMA WithReply ==
    ASSUME NEW call \in PlaytestCall, NEW x \in PlaytestReplies
    PROVE  /\ [call EXCEPT !.reply = x] \in PlaytestCall
           /\ [call EXCEPT !.reply = x].reply = x
           /\ [call EXCEPT !.reply = x].step = call.step
           /\ [call EXCEPT !.reply = x].kind = call.kind
           /\ [call EXCEPT !.reply = x].mode = call.mode
           /\ [call EXCEPT !.reply = x].players = call.players
           /\ [call EXCEPT !.reply = x].context = call.context
           /\ [call EXCEPT !.reply = x].id = call.id
           /\ [call EXCEPT !.reply = x].server = call.server
           /\ [call EXCEPT !.reply = x].clients = call.clients
           /\ [call EXCEPT !.reply = x].result = call.result
<1>1. [call EXCEPT !.reply = x] \in PlaytestCall
  BY CallWith
<1> QED
  BY <1>1 DEF PlaytestCall

\* What does not depend on the reply stays when it comes.
LEMMA ReplyComes ==
    ASSUME NEW call \in PlaytestCall, NEW x \in PlaytestReplies, InCommand(call),
           Gathered(call), UpWhenSaid(call)
    PROVE  /\ InCommand([call EXCEPT !.reply = x])
           /\ Gathered([call EXCEPT !.reply = x])
           /\ UpWhenSaid([call EXCEPT !.reply = x])
<1> DEFINE new == [call EXCEPT !.reply = x]
<1>1. /\ new.step = call.step /\ new.kind = call.kind /\ new.mode = call.mode
      /\ new.players = call.players /\ new.context = call.context /\ new.id = call.id
      /\ new.server = call.server /\ new.clients = call.clients /\ new.result = call.result
  BY WithReply
<1> HIDE DEF new
<1>2. InCommand(new) /\ Gathered(new) /\ UpWhenSaid(new)
  BY <1>1 DEF InCommand, Gathered, UpWhenSaid, IsUp, ClientCount
<1> QED
  BY <1>2 DEF new

LEMMA StudioStartsKeeps ==
    ASSUME PlaytestsInv, NEW c \in Callers, StudioStarts(c) PROVE PlaytestsInv'
<1> DEFINE new == [calls[c] EXCEPT !.reply = "accepted"]
           wanted == IF calls[c].players > 0 THEN calls[c].players
                     ELSE IF calls[c].mode = "play" THEN 1 ELSE 0
<1>1. /\ calls[c] \in PlaytestCall /\ calls[c].reply = "asked" /\ calls[c].id # 0
      /\ UNCHANGED <<sessions, lastId, faults, troubled>>
      /\ test' = [id |-> calls[c].id, phase |-> "on", mode |-> calls[c].mode,
                  asked |-> calls[c].players, players |-> {}, leaving |-> {},
                  wanted |-> wanted]
      /\ calls' = [calls EXCEPT ![c] = new]
  BY OldCall DEF StudioStarts, Requested, Set
<1>2. wanted \in Nat /\ calls[c].id \in Nat /\ calls[c].mode \in PlaytestModes
      /\ calls[c].players \in Nat
  BY <1>1 DEF PlaytestCall
<1> HIDE DEF wanted
<1>3. /\ test' \in Playtest /\ test'.id = calls[c].id /\ test'.phase = "on"
      /\ test'.players = {} /\ test'.leaving = {} /\ test'.wanted = wanted
  BY <1>1, <1>2 DEF Playtest
<1>4. \A d \in Callers : calls'[d] = IF d = c THEN new ELSE calls[d]
  BY <1>1 DEF PlaytestsInv, PlaytestsTypeOK
<1>5. /\ new \in PlaytestCall /\ new.reply = "accepted" /\ new.step = calls[c].step
      /\ new.kind = calls[c].kind /\ new.id = calls[c].id /\ new.server = calls[c].server
      /\ new.clients = calls[c].clients /\ new.result = calls[c].result
  BY <1>1, WithReply DEF PlaytestReplies
<1>6. InCommand(new) /\ Gathered(new) /\ UpWhenSaid(new)
  BY <1>1, OldCall, ReplyComes DEF PlaytestReplies
<1> HIDE DEF new
<1>7. PlaytestsTypeOK'
  BY <1>1, <1>3, <1>5 DEF PlaytestsInv, PlaytestsTypeOK
<1>8. TestSound(test)'
  <2>1. test'.id <= lastId' /\ test'.id # 0
    BY <1>1, <1>3 DEF PlaytestsInv, OwnIds
  <2>2. Cardinality(test'.players) <= test'.wanted
    BY <1>2, <1>3, FS_EmptySet
  <2> QED
    BY <1>3, <2>1, <2>2 DEF TestSound
<1>9. CallSound(new, test', sessions, troubled)
  <2>1. /\ calls[c].step \in {"waiting", "done"} /\ calls[c].server = NoSession
        /\ calls[c].step = "done" /\ calls[c].kind = "run" => calls[c].result = "said"
    BY <1>1, OldCall DEF Requested
  <2>2. Requested(new, test') /\ Holding(new, test', sessions, troubled)
    BY <1>1, <1>5, <2>1 DEF Requested, Holding
  <2> QED
    BY <1>6, <2>2 DEF CallSound
<1>10. ASSUME NEW d \in Callers, d # c
       PROVE  CallSound(calls[d], test', sessions, troubled)
  <2>1. test'.id # calls[d].id
    BY <1>1, <1>3, <1>10 DEF PlaytestsInv, OwnIds
  <2>2. Requested(calls[d], test') /\ Holding(calls[d], test', sessions, troubled)
    BY <2>1, OldCall DEF Requested, Holding
  <2> QED
    BY <2>2, OldCall DEF CallSound
<1>11. ASSUME NEW d \in Callers PROVE CallSound(calls[d], test, sessions, troubled)'
  BY <1>1, <1>4, <1>9, <1>10
<1>12. OwnIds'
  BY <1>1, <1>4, <1>5 DEF PlaytestsInv, OwnIds
<1> QED
  BY <1>7, <1>8, <1>11, <1>12 DEF PlaytestsInv

LEMMA StudioRefusesKeeps ==
    ASSUME PlaytestsInv, NEW c \in Callers, StudioRefuses(c) PROVE PlaytestsInv'
<1> DEFINE new == [calls[c] EXCEPT !.reply = "refused"]
<1>1. /\ calls[c] \in PlaytestCall /\ calls[c].reply = "asked" /\ Set(c, new)
      /\ UNCHANGED <<test, sessions, lastId, faults, troubled>>
  BY OldCall DEF StudioRefuses
<1>2. /\ new \in PlaytestCall /\ new.reply = "refused" /\ new.step = calls[c].step
      /\ new.kind = calls[c].kind /\ new.id = calls[c].id /\ new.server = calls[c].server
      /\ new.clients = calls[c].clients /\ new.result = calls[c].result
  BY <1>1, WithReply DEF PlaytestReplies
<1>3. InCommand(new) /\ Gathered(new) /\ UpWhenSaid(new)
  BY <1>1, OldCall, ReplyComes DEF PlaytestReplies
<1> HIDE DEF new
<1>4. Requested(new, test) /\ Holding(new, test, sessions, troubled)
  BY <1>1, <1>2, OldCall DEF Requested, Holding
<1>5. CallSound(new, test', sessions, troubled')
  BY <1>1, <1>3, <1>4 DEF CallSound
<1> QED
  BY <1>1, <1>2, <1>5, Unharmed, NewCall

LEMMA TestMoves ==
    ASSUME PlaytestsInv, TestGoesOn(test, test'), UNCHANGED <<calls, sessions, lastId, troubled>>,
           faults' \in Nat
    PROVE  PlaytestsInv'
<1>1. PlaytestsTypeOK' /\ TestSound(test)' /\ OwnIds'
  BY DEF PlaytestsInv, PlaytestsTypeOK, TestGoesOn, TestSound, OwnIds
<1>2. ASSUME NEW c \in Callers PROVE CallSound(calls[c], test, sessions, troubled)'
  <2>1. CallSound(calls[c], test, sessions, troubled) /\ troubled \in BOOLEAN
    BY DEF PlaytestsInv, PlaytestsTypeOK
  <2>2. CallSound(calls[c], test', sessions, troubled)
    BY <2>1, EndExcuses
  <2> QED
    BY <2>2
<1> QED
  BY <1>1, <1>2 DEF PlaytestsInv

LEMMA PlayerJoinsKeeps ==
    ASSUME PlaytestsInv, NEW name \in Names, PlayerJoins(name) PROVE PlaytestsInv'
<1>1. /\ name \notin test.players /\ Cardinality(test.players) < test.wanted
      /\ UNCHANGED <<sessions, calls, lastId, faults, troubled>>
      /\ test' = [test EXCEPT !.players = test.players \cup {name}]
  BY DEF PlayerJoins
<1>2. /\ test' \in Playtest /\ test'.players = test.players \cup {name}
      /\ test'.id = test.id /\ test'.phase = test.phase /\ test'.leaving = test.leaving
      /\ test'.wanted = test.wanted /\ test.wanted \in Nat
  BY <1>1, OldTypes DEF Playtest
<1>3. Cardinality(test'.players) <= test'.wanted
  <2>1. Cardinality(test'.players) = Cardinality(test.players) + 1
    <3>1. IsFiniteSet(test.players)
      BY OldTypes, PlayersFinite
    <3>2. Cardinality(test.players \cup {name}) = Cardinality(test.players) + 1
      BY <1>1, <3>1, FS_AddElement
    <3> QED
      BY <1>2, <3>2
  <2>2. Cardinality(test.players) \in Nat
    BY OldTypes, PlayersFinite
  <2> QED
    BY <1>1, <1>2, <2>1, <2>2
<1>4. TestGoesOn(test, test')
  BY <1>2, <1>3 DEF PlaytestsInv, TestSound, TestGoesOn
<1> QED
  BY <1>1, <1>4, OldTypes, TestMoves

LEMMA PlayerLeavesKeeps ==
    ASSUME PlaytestsInv, NEW name \in Names, PlayerLeaves(name) PROVE PlaytestsInv'
<1>1. /\ name \in test.leaving /\ UNCHANGED <<sessions, calls, lastId, faults, troubled>>
      /\ test' = [test EXCEPT !.players = test.players \ {name},
                              !.leaving = test.leaving \ {name}, !.wanted = test.wanted - 1]
  BY DEF PlayerLeaves
<1>2. name \in test.players
  BY <1>1 DEF PlaytestsInv, TestSound
<1>3. /\ Cardinality(test.players \ {name}) = Cardinality(test.players) - 1
      /\ Cardinality(test.players) \in Nat
      /\ Cardinality(test.players \ {name}) \in Nat
  <2>1. IsFiniteSet(test.players) /\ Cardinality(test.players) \in Nat
    BY OldTypes, PlayersFinite
  <2>2. IsFiniteSet(test.players \ {name})
    BY <2>1, FS_Subset
  <2> QED
    BY <1>2, <2>1, <2>2, FS_RemoveElement, FS_CardinalityType
<1>4. test.wanted \in Nat /\ Cardinality(test.players) <= test.wanted
  BY OldTypes DEF PlaytestsInv, TestSound, Playtest
<1>5. test.wanted - 1 \in Nat /\ Cardinality(test.players \ {name}) <= test.wanted - 1
  BY <1>3, <1>4
<1>6. /\ test' \in Playtest /\ test'.players = test.players \ {name}
      /\ test'.id = test.id /\ test'.phase = test.phase
      /\ test'.leaving = test.leaving \ {name} /\ test'.wanted = test.wanted - 1
  BY <1>1, <1>5, OldTypes DEF Playtest
<1>7. TestGoesOn(test, test')
  BY <1>5, <1>6 DEF PlaytestsInv, TestSound, TestGoesOn
<1> QED
  BY <1>1, <1>7, OldTypes, TestMoves

LEMMA UserEndsKeeps == ASSUME PlaytestsInv, UserEnds PROVE PlaytestsInv'
<1>1. /\ test.phase = "on" /\ faults' = faults + 1
      /\ UNCHANGED <<sessions, calls, lastId, troubled>>
      /\ test' = [test EXCEPT !.phase = "ending"]
  BY DEF UserEnds
<1>2. /\ test' \in Playtest /\ test'.players = test.players /\ test'.id = test.id
      /\ test'.phase = "ending" /\ test'.leaving = test.leaving
      /\ test'.wanted = test.wanted
  BY <1>1, OldTypes DEF Playtest
<1>3. TestGoesOn(test, test')
  BY <1>1, <1>2 DEF PlaytestsInv, TestSound, TestGoesOn
<1>4. faults' \in Nat
  BY <1>1, OldTypes
<1> QED
  BY <1>1, <1>3, <1>4, TestMoves

LEMMA PlaytestOverKeeps == ASSUME PlaytestsInv, PlaytestOver PROVE PlaytestsInv'
<1> DEFINE ends(c) == calls[c].step = "waiting" /\ calls[c].reply = "accepted"
           new(c) == [calls[c] EXCEPT !.reply = "ended"]
<1>1. /\ test' = NoPlaytest /\ troubled' = FALSE /\ UNCHANGED <<sessions, lastId, faults>>
      /\ calls' = [c \in Callers |-> IF ends(c) THEN new(c) ELSE calls[c]]
  BY DEF PlaytestOver
<1>2. test' \in Playtest /\ test'.id = 0 /\ test'.phase = "none"
  BY <1>1 DEF NoPlaytest, Playtest, PlaytestModes
<1>3. ASSUME NEW c \in Callers
      PROVE  /\ new(c) \in PlaytestCall /\ new(c).reply = "ended"
             /\ new(c).step = calls[c].step /\ new(c).kind = calls[c].kind
             /\ new(c).id = calls[c].id /\ new(c).server = calls[c].server
             /\ InCommand(new(c)) /\ Gathered(new(c)) /\ UpWhenSaid(new(c))
  BY OldCall, WithReply, ReplyComes DEF PlaytestReplies
<1>4. ASSUME NEW c \in Callers
      PROVE  calls'[c] \in PlaytestCall /\ CallSound(calls'[c], test', sessions, FALSE)
             /\ calls'[c].id = calls[c].id
  <2>1. CASE ends(c)
    <3> DEFINE call == new(c)
    <3>1. calls'[c] = call /\ calls[c].id # 0
      BY <1>1, <2>1, OldCall DEF Requested
    <3>2. /\ call \in PlaytestCall /\ call.reply = "ended" /\ call.step = "waiting"
          /\ call.id = calls[c].id
          /\ InCommand(call) /\ Gathered(call) /\ UpWhenSaid(call)
      BY <1>3, <2>1
    <3> HIDE DEF call
    <3>3. Requested(call, test') /\ Holding(call, test', sessions, FALSE)
      BY <1>2, <3>1, <3>2 DEF Requested, Holding
    <3> QED
      BY <3>1, <3>2, <3>3 DEF CallSound
  <2>2. CASE ~ends(c)
    <3>1. calls'[c] = calls[c]
      BY <1>1, <2>2
    <3>2. Requested(calls[c], test') /\ Holding(calls[c], test', sessions, FALSE)
      BY <1>2, OldCall DEF Requested, Holding
    <3> QED
      BY <3>1, <3>2, OldCall DEF CallSound
  <2> QED
    BY <2>1, <2>2
<1>5. PlaytestsTypeOK'
  <2>1. calls' \in [Callers -> PlaytestCall]
    BY <1>1, <1>4
  <2> QED
    BY <1>1, <1>2, <2>1 DEF PlaytestsInv, PlaytestsTypeOK
<1>6. TestSound(test)'
  <2>1. lastId \in Nat
    BY OldTypes
  <2> QED
    BY <1>1, <2>1, FS_EmptySet DEF TestSound, NoPlaytest
<1>7. OwnIds'
  BY <1>1, <1>4 DEF PlaytestsInv, OwnIds
<1> QED
  BY <1>1, <1>4, <1>5, <1>6, <1>7 DEF PlaytestsInv

\* A session that connects leaves those of its own playtest, and no other of its name.
Replaced(s) == {t \in sessions : <<t.context, t.player>> # <<s.context, s.player>>}

\* What a call that waits for this session makes of it.
LEMMA HearsKeeps ==
    ASSUME NEW call \in PlaytestCall, NEW s \in SessionType, NEW t, NEW ss, NEW ss2,
           NEW hit \in BOOLEAN, CallSound(call, t, ss, hit), Expects(call, s),
           s.test = t.id, s \in ss2,
           \A x \in ss : x.test = t.id => x \in ss2
    PROVE  /\ Hears(call, s) \in PlaytestCall
           /\ Hears(call, s).id = call.id
           /\ CallSound(Hears(call, s), t, ss2, hit)
<1> DEFINE found == IF s.context = "server" THEN [call EXCEPT !.server = s]
                    ELSE IF \E known \in call.clients : known.player = s.player THEN call
                    ELSE [call EXCEPT !.clients = call.clients \cup {s}]
<1>1. /\ call.step = "waiting" /\ s.test = call.id /\ call.id # 0
      /\ InCommand(call) /\ Gathered(call) /\ UpWhenSaid(call) /\ Requested(call, t)
      /\ Holding(call, t, ss, hit)
  BY DEF Expects, CallSound, InCommand
<1>2. call.reply \notin {"asked", "refused", "ended"}
  BY <1>1 DEF Requested
<1>3. call.kind \in {"start", "restart"} => call.result # "ok"
  BY <1>1 DEF UpWhenSaid
<1>4. /\ found \in PlaytestCall /\ found.id = call.id /\ found.step = "waiting"
      /\ found.kind = call.kind /\ found.reply = call.reply /\ found.result = call.result
      /\ found.server \in {s, call.server} /\ Gathered(found)
      /\ found.server = s => s.context = "server" \/ s = call.server
  <2>1. CASE s.context = "server"
    <3> DEFINE new == [call EXCEPT !.server = s]
    <3>1. new \in PlaytestCall
      BY CallWith
    <3>2. /\ new.id = call.id /\ new.step = call.step /\ new.kind = call.kind
          /\ new.reply = call.reply /\ new.result = call.result
          /\ new.server = s /\ new.clients = call.clients
      BY DEF PlaytestCall
    <3>3. found = new
      BY <2>1
    <3> HIDE DEF new
    <3>4. Gathered(new)
      BY <1>1, <2>1, <3>2 DEF Gathered
    <3> QED
      BY <1>1, <2>1, <3>1, <3>2, <3>3, <3>4
  <2>2. CASE s.context # "server" /\ \E known \in call.clients : known.player = s.player
    BY <1>1, <2>2
  <2>3. CASE s.context # "server" /\ ~\E known \in call.clients : known.player = s.player
    <3> DEFINE new == [call EXCEPT !.clients = call.clients \cup {s}]
    <3>1. call.clients \in SUBSET SessionType
      BY DEF PlaytestCall
    <3>2. new \in PlaytestCall
      BY <3>1, CallWith
    <3>3. /\ new.id = call.id /\ new.step = call.step /\ new.kind = call.kind
          /\ new.reply = call.reply /\ new.result = call.result
          /\ new.server = call.server /\ new.clients = call.clients \cup {s}
      BY DEF PlaytestCall
    <3>4. found = new
      BY <2>3
    <3> HIDE DEF new
    <3>5. /\ s \notin call.clients /\ s.player \notin PlayersOf(call.clients)
          /\ PlayersOf(new.clients) = PlayersOf(call.clients) \cup {s.player}
      BY <2>3, <3>3 DEF PlayersOf
    <3>6. IsFiniteSet(call.clients) /\ IsFiniteSet(PlayersOf(call.clients))
      <4>1. IsFiniteSet(call.clients)
        BY <1>1 DEF Gathered
      <4> DEFINE f == [x \in call.clients |-> x.player]
      <4>2. f \in Surjection(call.clients, PlayersOf(call.clients))
        BY DEF Surjection, PlayersOf
      <4> QED
        BY <4>1, <4>2, FS_Surjection
    <3>7. /\ IsFiniteSet(new.clients)
          /\ Cardinality(new.clients) = Cardinality(call.clients) + 1
          /\ Cardinality(PlayersOf(new.clients)) = Cardinality(PlayersOf(call.clients)) + 1
      <4>1. /\ IsFiniteSet(call.clients \cup {s})
            /\ Cardinality(call.clients \cup {s}) = Cardinality(call.clients) + 1
        BY <3>5, <3>6, FS_AddElement
      <4>2. Cardinality(PlayersOf(call.clients) \cup {s.player})
              = Cardinality(PlayersOf(call.clients)) + 1
        BY <3>5, <3>6, FS_AddElement
      <4> QED
        BY <3>3, <3>5, <4>1, <4>2
    <3>8. Gathered(new)
      BY <1>1, <3>3, <3>7 DEF Gathered
    <3> QED
      BY <1>1, <3>2, <3>3, <3>4, <3>8
  <2> QED
    BY <2>1, <2>2, <2>3
<1>5. Hears(call, s) = IF Enough(found) THEN AfterStart(found) ELSE found
  BY DEF Hears
<1> HIDE DEF found
<1>6. /\ InCommand(found) /\ UpWhenSaid(found) /\ Requested(found, t)
  BY <1>1, <1>2, <1>3, <1>4 DEF InCommand, UpWhenSaid, Requested
<1>7. call.kind = "run" /\ t.phase = "on" /\ t.id = call.id /\ ~hit
        => call.reply # "lost" /\ (found.server # NoSession => found.server \in ss2)
  <2> SUFFICES ASSUME call.kind = "run", t.phase = "on", t.id = call.id, ~hit
               PROVE  call.reply # "lost" /\ (found.server # NoSession => found.server \in ss2)
    OBVIOUS
  <2>1. call.reply # "lost" /\ (call.server # NoSession => call.server \in ss)
    BY <1>1 DEF Holding
  <2>2. call.server # NoSession => call.server.test = call.id
    BY <1>1 DEF Gathered
  <2> QED
    BY <1>4, <2>1, <2>2
<1>8. Holding(found, t, ss2, hit)
  BY <1>4, <1>7 DEF Holding
<1>9. CASE ~Enough(found)
  BY <1>4, <1>5, <1>6, <1>8, <1>9 DEF CallSound
<1>10. CASE Enough(found)
  <2> DEFINE c1 == [found EXCEPT !.step = "done"]
             up == [c1 EXCEPT !.result = "ok"]
             runs == [found EXCEPT !.step = IF found.mode = "play" /\ found.context = "server"
                                              THEN "joining" ELSE "executing"]
  <2>1. Hears(call, s) = IF found.kind # "run" THEN up ELSE runs
    BY <1>5, <1>10 DEF AfterStart
  <2>2. IsUp(found)
    BY <1>1, <1>4, <1>10 DEF IsUp, Enough
  <2>3. CASE found.kind # "run"
    <3>1. c1 \in PlaytestCall
      BY <1>4, CallWith DEF PlaytestSteps
    <3>2. up \in PlaytestCall
      BY <3>1, CallWith DEF PlaytestResults
    <3>3. /\ up.id = found.id /\ up.step = "done" /\ up.kind = found.kind
          /\ up.reply = found.reply /\ up.result = "ok" /\ up.server = found.server
          /\ up.clients = found.clients /\ up.mode = found.mode
          /\ up.players = found.players /\ up.context = found.context
      BY <1>4 DEF PlaytestCall
    <3> HIDE DEF up
    <3>4. Gathered(up)
      BY <1>4, <3>3, SameSessions
    <3>5. InCommand(up) /\ Requested(up, t) /\ Holding(up, t, ss2, hit)
      BY <1>1, <1>2, <1>4, <2>3, <3>3 DEF InCommand, Requested, Holding
    <3>6. UpWhenSaid(up)
      BY <2>2, <3>3 DEF UpWhenSaid, IsUp, ClientCount
    <3> QED
      BY <1>4, <2>1, <2>3, <3>2, <3>3, <3>4, <3>5, <3>6 DEF CallSound
  <2>4. CASE found.kind = "run"
    <3>1. runs \in PlaytestCall
      BY <1>4, CallWith DEF PlaytestSteps
    <3>2. /\ runs.id = found.id /\ runs.step \in {"joining", "executing"}
          /\ runs.kind = found.kind
          /\ runs.reply = found.reply /\ runs.result = found.result
          /\ runs.server = found.server
          /\ runs.clients = found.clients /\ runs.mode = found.mode
          /\ runs.players = found.players /\ runs.context = found.context
      BY <1>4 DEF PlaytestCall
    <3> HIDE DEF runs
    <3>3. Gathered(runs)
      BY <1>4, <3>2, SameSessions
    <3>4. InCommand(runs) /\ Requested(runs, t)
      BY <1>1, <1>2, <1>4, <2>4, <3>2 DEF InCommand, Requested
    <3>5. UpWhenSaid(runs)
      BY <2>2, <2>4, <3>2 DEF UpWhenSaid, IsUp, ClientCount
    <3>6. Holding(runs, t, ss2, hit)
      BY <1>4, <1>7, <3>2 DEF Holding
    <3> QED
      BY <1>4, <2>1, <2>4, <3>1, <3>2, <3>3, <3>4, <3>5, <3>6 DEF CallSound
  <2> QED
    BY <2>3, <2>4
<1> QED
  BY <1>9, <1>10

\* Sessions come and go: who holds on to one of the playtest keeps it, or a fault has hit
\* the playtest.
LEMMA SessionsMove ==
    ASSUME NEW call, NEW t, NEW ss, NEW ss2, NEW hit \in BOOLEAN, NEW hit2 \in BOOLEAN,
           hit => hit2, CallSound(call, t, ss, hit), t.phase = "on" => t.id # 0,
           ~hit2 /\ t.phase = "on" =>
             \A x \in ss : x.test = t.id /\ x.context = "server" => x \in ss2
    PROVE  CallSound(call, t, ss2, hit2)
<1>1. Holding(call, t, ss, hit) /\ Gathered(call)
  BY DEF CallSound
<1>2. Holding(call, t, ss2, hit2)
  <2>1. ASSUME call.kind = "run", t.phase = "on", t.id = call.id, ~hit2,
               call.step # "done", call.server # NoSession
        PROVE  call.server \in ss2
    <3>1. call.server \in ss
      BY <1>1, <2>1 DEF Holding
    <3>2. call.server.test = t.id /\ call.server.context = "server"
      BY <1>1, <2>1 DEF Gathered
    <3> QED
      BY <2>1, <3>1, <3>2
  <2> QED
    BY <1>1, <2>1 DEF Holding
<1> QED
  BY <1>2 DEF CallSound

LEMMA SessionConnectsKeeps ==
    ASSUME PlaytestsInv, NEW s \in SessionType, s.test = test.id, SessionConnects(s)
    PROVE  PlaytestsInv'
<1>1. /\ test.phase = "on" /\ sessions' = Replaced(s) \cup {s}
      /\ \A x \in sessions : x.context = s.context /\ x.player = s.player => x.test # s.test
      /\ calls' = [c \in Callers |-> IF Expects(calls[c], s) THEN Hears(calls[c], s)
                                     ELSE calls[c]]
      /\ UNCHANGED <<test, lastId, faults, troubled>>
  BY DEF SessionConnects, Replaced
<1>2. \A x \in sessions : x.test = test.id => x \in sessions'
  BY <1>1 DEF Replaced
<1>3. ASSUME NEW c \in Callers
      PROVE  /\ calls'[c] \in PlaytestCall /\ calls'[c].id = calls[c].id
             /\ CallSound(calls'[c], test, sessions', troubled)
  <2>1. calls[c] \in PlaytestCall /\ CallSound(calls[c], test, sessions, troubled)
        /\ troubled \in BOOLEAN
    BY OldTypes, OldCall DEF PlaytestsInv
  <2>2. CASE Expects(calls[c], s)
    <3>1. calls'[c] = Hears(calls[c], s)
      BY <1>1, <2>2
    <3>2. s \in sessions'
      BY <1>1
    <3> QED
      BY <1>2, <2>1, <2>2, <3>1, <3>2, HearsKeeps
  <2>3. CASE ~Expects(calls[c], s)
    <3>1. calls'[c] = calls[c]
      BY <1>1, <2>3
    <3>2. test.id # 0
      BY <1>1 DEF PlaytestsInv, TestSound
    <3>3. CallSound(calls[c], test, sessions', troubled)
      BY <1>2, <2>1, <3>2, SessionsMove
    <3> QED
      BY <2>1, <3>1, <3>3
  <2> QED
    BY <2>2, <2>3
<1>4. PlaytestsTypeOK'
  <2>1. calls' \in [Callers -> PlaytestCall]
    BY <1>1, <1>3
  <2>2. sessions' \in SUBSET SessionType
    BY <1>1, OldTypes DEF Replaced
  <2> QED
    BY <1>1, <2>1, <2>2 DEF PlaytestsInv, PlaytestsTypeOK
<1>5. TestSound(test)'
  BY <1>1 DEF PlaytestsInv, TestSound
<1>6. OwnIds'
  BY <1>1, <1>3 DEF PlaytestsInv, OwnIds
<1> QED
  BY <1>1, <1>3, <1>4, <1>5, <1>6 DEF PlaytestsInv

LEMMA ConnectsPlaytest ==
    ASSUME PlaytestsInv, ServerConnects \/ \E name \in Names : ClientConnects(name)
    PROVE  PlaytestsInv'
<1>1. test.id \in Nat /\ faults \in Nat
  BY OldTypes DEF Playtest
<1>2. CASE ServerConnects
  <2> DEFINE s == [context |-> "server", player |-> 0, test |-> test.id,
                   connection |-> faults]
  <2>1. s \in SessionType /\ s.test = test.id
    BY <1>1 DEF SessionType
  <2>2. SessionConnects(s)
    BY <1>2 DEF ServerConnects
  <2> HIDE DEF s
  <2> QED
    BY <2>1, <2>2, SessionConnectsKeeps
<1>3. ASSUME NEW name \in Names, ClientConnects(name) PROVE PlaytestsInv'
  <2> DEFINE s == [context |-> "client", player |-> name, test |-> test.id,
                   connection |-> faults]
  <2>1. name \in Nat
    BY BoundsAssumption DEF Names
  <2>2. s \in SessionType /\ s.test = test.id
    BY <1>1, <2>1 DEF SessionType
  <2>3. SessionConnects(s)
    BY <1>3 DEF ClientConnects
  <2> HIDE DEF s
  <2> QED
    BY <2>2, <2>3, SessionConnectsKeeps
<1> QED
  BY <1>2, <1>3

LEMMA SessionGone ==
    ASSUME PlaytestsInv, NEW s \in sessions, SessionCloses(s) \/ SessionDrops(s)
    PROVE  PlaytestsInv'
<1>1. /\ sessions' = sessions \ {s} /\ UNCHANGED <<test, calls, lastId>>
      /\ troubled' \in BOOLEAN /\ (troubled => troubled') /\ faults' \in Nat
  <2>1. CASE SessionCloses(s)
    BY <2>1, OldTypes DEF SessionCloses
  <2>2. CASE SessionDrops(s)
    <3>1. sessions' = sessions \ {s} /\ UNCHANGED <<test, calls, lastId>>
          /\ troubled' = (troubled \/ s.test = test.id) /\ faults' = faults + 1
      BY <2>2 DEF SessionDrops
    <3>2. troubled' \in BOOLEAN /\ (troubled => troubled')
      BY <3>1, OldTypes
    <3>3. faults' \in Nat
      BY <3>1, OldTypes
    <3> QED
      BY <3>1, <3>2, <3>3
  <2> QED
    BY <2>1, <2>2
<1>2. ~troubled' /\ test.phase = "on" =>
        \A x \in sessions : x.test = test.id /\ x.context = "server" => x \in sessions'
  BY <1>1 DEF SessionCloses, SessionDrops
<1>3. ASSUME NEW c \in Callers PROVE CallSound(calls[c], test, sessions, troubled)'
  <2>1. CallSound(calls[c], test, sessions, troubled) /\ troubled \in BOOLEAN
        /\ (test.phase = "on" => test.id # 0)
    BY OldTypes DEF PlaytestsInv, TestSound
  <2>2. CallSound(calls[c], test, sessions', troubled')
    BY <1>1, <1>2, <2>1, SessionsMove
  <2> QED
    BY <1>1, <2>2
<1>4. PlaytestsTypeOK' /\ TestSound(test)' /\ OwnIds'
  BY <1>1, OldTypes DEF PlaytestsInv, PlaytestsTypeOK, TestSound, OwnIds
<1> QED
  BY <1>3, <1>4 DEF PlaytestsInv

LEMMA EditDropsKeeps == ASSUME PlaytestsInv, EditDrops PROVE PlaytestsInv'
<1> DEFINE waiting == {c \in Callers : /\ calls[c].step = "waiting"
                                       /\ calls[c].reply \in {"asked", "accepted"}}
           new(c) == [calls[c] EXCEPT !.reply = "lost"]
<1>1. /\ troubled' = (troubled \/ \E c \in waiting : calls[c].id = test.id)
      /\ calls' = [c \in Callers |-> IF c \in waiting THEN new(c) ELSE calls[c]]
      /\ UNCHANGED <<test, sessions, lastId>> /\ faults' = faults + 1
  BY DEF EditDrops
<1>2. troubled \in BOOLEAN /\ troubled' \in BOOLEAN /\ (troubled => troubled')
      /\ faults' \in Nat
  BY <1>1, OldTypes
<1>3. ASSUME NEW c \in Callers
      PROVE  calls'[c] \in PlaytestCall /\ CallSound(calls'[c], test, sessions, troubled')
             /\ calls'[c].id = calls[c].id
  <2>1. CASE c \in waiting
    <3> DEFINE call == new(c)
    <3>1. calls'[c] = call /\ calls[c].id # 0
      BY <1>1, <2>1, OldCall DEF Requested
    <3>2. /\ call \in PlaytestCall /\ call.reply = "lost" /\ call.step = "waiting"
          /\ call.id = calls[c].id
          /\ InCommand(call) /\ Gathered(call) /\ UpWhenSaid(call)
      BY <2>1, OldCall, WithReply, ReplyComes DEF PlaytestReplies
    <3>3. ~troubled' => calls[c].id # test.id
      BY <1>1, <2>1
    <3> HIDE DEF call
    <3>4. Requested(call, test) /\ Holding(call, test, sessions, troubled')
      BY <3>1, <3>2, <3>3 DEF Requested, Holding
    <3> QED
      BY <3>1, <3>2, <3>4 DEF CallSound
  <2>2. CASE c \notin waiting
    <3>1. calls'[c] = calls[c]
      BY <1>1, <2>2
    <3>2. CallSound(calls[c], test, sessions, troubled)
      BY DEF PlaytestsInv
    <3>3. CallSound(calls[c], test, sessions, troubled')
      BY <1>2, <3>2 DEF CallSound, Holding
    <3> QED
      BY <3>1, <3>3, OldCall
  <2> QED
    BY <2>1, <2>2
<1> HIDE DEF waiting
<1>4. PlaytestsTypeOK'
  <2>1. calls' \in [Callers -> PlaytestCall]
    BY <1>1, <1>3
  <2> QED
    BY <1>1, <1>2, <2>1 DEF PlaytestsInv, PlaytestsTypeOK
<1>5. TestSound(test)' /\ OwnIds'
  BY <1>1, <1>3 DEF PlaytestsInv, TestSound, OwnIds
<1> QED
  BY <1>1, <1>3, <1>4, <1>5 DEF PlaytestsInv

LEMMA PlaytestsStep ==
    ASSUME PlaytestsInv, [PlaytestsNext]_playtestsVars PROVE PlaytestsInv'
<1>1. CASE \E c \in Callers : Asks(c) \/ CallerStep(c)
  BY <1>1, CallerKeeps
<1>2. CASE Studio
  BY <1>2, StudioStartsKeeps, StudioRefusesKeeps, PlayerJoinsKeeps, PlayerLeavesKeeps,
    UserEndsKeeps, PlaytestOverKeeps, ConnectsPlaytest, SessionGone, EditDropsKeeps DEF Studio
<1>3. CASE UNCHANGED playtestsVars
  <2>1. UNCHANGED <<test, sessions, calls, lastId, faults, troubled>>
    BY <1>3 DEF playtestsVars
  <2> QED
    BY <2>1, OldTypes, SameTest, TestMoves
<1> QED
  BY <1>1, <1>2, <1>3 DEF PlaytestsNext

LEMMA PlaytestsHold == PlaytestsSpec => []PlaytestsInv
<1>1. PlaytestsInv /\ [PlaytestsNext]_playtestsVars => PlaytestsInv'
  BY PlaytestsStep
<1> QED
  BY PlaytestsBegin, <1>1, PTL DEF PlaytestsSpec

\* Calls, sessions and the playtest keep their types: an attempt, a count or an id never
\* leaves its range, whatever is asked, connects or fails.
THEOREM PlaytestsTypeCorrect == PlaytestsSpec => []PlaytestsTypeOK
<1>1. PlaytestsInv => PlaytestsTypeOK
  BY DEF PlaytestsInv
<1> QED
  BY <1>1, PlaytestsHold, PTL

\* Who is told that its playtest is up holds the sessions of that playtest, one for each
\* player it waits for, though the next playtest's have the same names
\* (startPlaytestAsync, waitForPlaytestSessionsAsync).
THEOREM SessionsAreOwn == PlaytestsSpec => []OwnSessions
<1>1. PlaytestsInv => OwnSessions
  <2> SUFFICES ASSUME PlaytestsInv, NEW c \in Callers,
                      \/ calls[c].step \in {"joining", "executing"}
                      \/ calls[c].kind \in {"start", "restart"} /\ calls[c].result = "ok"
               PROVE  /\ calls[c].server.test = calls[c].id
                      /\ \A s \in calls[c].clients : s.test = calls[c].id
                      /\ Cardinality({s.player : s \in calls[c].clients})
                           >= ClientCount(calls[c])
    BY DEF OwnSessions
  <2>1. IsUp(calls[c]) /\ Gathered(calls[c])
    BY OldCall DEF UpWhenSaid
  <2> QED
    BY <2>1 DEF IsUp, Gathered, PlayersOf
<1> QED
  BY <1>1, PlaytestsHold, PTL

\* A run that has returned leaves its playtest running only if it says so, or if a fault
\* has hit it (playtestRunHandlerAsync, tryEndPlaytestAsync).
THEOREM RunsClean == PlaytestsSpec => []RunCleans
<1>1. PlaytestsInv => RunCleans
  BY OldCall DEF RunCleans, Holding
<1> QED
  BY <1>1, PlaytestsHold, PTL

===============================================================================
