---------------------------- MODULE WireProtocol ----------------------------
(***************************************************************************)
(* The messages between studio-bridge and the Studio plugin: the payload    *)
(* fields their interfaces declare, those the decoders check, keep and fill *)
(* in, and those a host's schema lets through when it relays a client's     *)
(* action to a plugin.                                                     *)
(*                                                                         *)
(* A message has a type, says whether it has a request id, and has a set of *)
(* payload fields that are there with the type they should have (good) and  *)
(* a set of those that are there with another type (bad).  The four         *)
(* requests of playtestPlayers are types of their own here.                 *)
(***************************************************************************)
EXTENDS Naturals, FiniteSets, TLC

Null == [type |-> "null"]
Message(type, id, good, bad) == [type |-> type, id |-> id, good |-> good, bad |-> bad]

\* need: the fields that have to be there; may: those that may; id: "always",
\* "maybe" or "never".
Shape(id, need, may) == [id |-> id, need |-> need, may |-> may]

-----------------------------------------------------------------------------
(* What the interfaces declare                                             *)

DeclaredReports ==
    [ scriptComplete |-> Shape("maybe", {"success"}, {"error", "traceback", "output", "returnValues", "ranAs"}),
      register |-> Shape("never", {"pluginVersion", "instanceId", "placeName", "state", "capabilities"},
                      {"placeFile", "context", "pid", "launchId", "playerName", "playtestId"}),
      stateResult |-> Shape("always", {"state", "placeId", "placeName", "gameId"}, {"viewportSize", "studioVersion"}),
      screenshotResult |-> Shape("always", {"data", "format", "width", "height"}, {}),
      dataModelResult |-> Shape("always", {"instance"}, {}),
      exportInstancesResult |-> Shape("always", {"data", "paths"}, {}),
      importInstancesResult |-> Shape("always", {"paths"}, {}),
      findInstancesResult |-> Shape("always", {"instances", "searched", "truncated"}, {}),
      grepScriptsResult |-> Shape("always", {"matches", "searched", "truncated"}, {}),
      logsResult |-> Shape("always", {"entries", "total", "bufferCapacity"}, {}) ]

DeclaredEvents ==
    [ stateChange |-> Shape("never", {"previousState", "newState", "timestamp"}, {}),
      heartbeat |-> Shape("never", {"uptimeMs", "state", "pendingRequests"}, {}),
      registerActionResult |-> Shape("always", {"name", "success"}, {"skipped", "error"}),
      syncActionsResult |-> Shape("always", {"needed", "installed"}, {}),
      playtestEnded |-> Shape("always", {"playtestId", "success"}, {"error"}),
      endPlaytestResult |-> Shape("always", {}, {"playtestId", "mode", "players"}),
      playtestPlayersResult |-> Shape("always", {}, {"players", "remaining"}),
      error |-> Shape("maybe", {"code", "message"}, {"details"}) ]

DeclaredQueries ==
    [ execute |-> Shape("maybe", {"script"}, {"timeoutMs", "args", "inputs", "runAs"}),
      shutdown |-> Shape("never", {}, {}),
      queryState |-> Shape("always", {}, {}),
      captureScreenshot |-> Shape("always", {}, {"format"}),
      exportInstances |-> Shape("always", {"paths"}, {}),
      importInstances |-> Shape("always", {"data", "parentPath"}, {}),
      findInstances |-> Shape("always", {}, {"root", "name", "exactName", "className", "tag", "limit"}),
      grepScripts |-> Shape("always", {"pattern"}, {"root", "luaPattern", "caseSensitive", "limit"}),
      queryDataModel |-> Shape("always", {"path"},
                            {"depth", "properties", "includeAttributes", "find", "listServices"}),
      queryLogs |-> Shape("always", {},
                       {"count", "direction", "levels", "includeInternal", "since", "groupRepeats"}) ]

DeclaredActions ==
    [ registerAction |-> Shape("always", {"name", "source"}, {"hash", "responseType"}),
      syncActions |-> Shape("always", {"actions"}, {"verbose"}),
      startPlaytest |-> Shape("always", {"mode", "playtestId", "bridgePort", "instanceId"}, {"players", "bridge"}),
      endPlaytest |-> Shape("always", {}, {}),
      playersList |-> Shape("always", {"op"}, {}),
      playersAdd |-> Shape("always", {"op", "count", "timeoutSec"}, {}),
      playersRemove |-> Shape("always", {"op", "kick", "names", "timeoutSec"}, {}),
      playersLeave |-> Shape("always", {"op"}, {}),
      error |-> Shape("maybe", {"code", "message"}, {"details"}) ]

Plugin == DeclaredReports @@ DeclaredEvents
Server == DeclaredQueries @@ DeclaredActions

-----------------------------------------------------------------------------
(* The decoders                                                            *)

\* checks: without these the message is refused; keeps: these are carried over
\* when they have their type; fills: these get a value of the decoder's own when
\* they do not.
Decodes(id, checks, keeps, fills) == [id |-> id, checks |-> checks, keeps |-> keeps, fills |-> fills]

\* Mutant: the id of the launch is not carried over.
DecodeScriptAndRegisterOnly ==
    [ scriptComplete |-> Decodes("maybe", {"success"},
                             {"error", "traceback", "output", "returnValues", "ranAs"}, {}),
      register |-> Decodes("never", {"pluginVersion", "instanceId", "placeName", "state", "capabilities"},
                        {"placeFile", "context", "pid", "playerName", "playtestId"}, {}) ]

DecodeScriptAndRegister ==
    [ scriptComplete |-> Decodes("maybe", {"success"},
                             {"error", "traceback", "output", "returnValues", "ranAs"}, {}),
      register |-> Decodes("never", {"pluginVersion", "instanceId", "placeName", "state", "capabilities"},
                        {"placeFile", "context", "pid", "launchId", "playerName", "playtestId"}, {}) ]

DecodeResults ==
    [ stateResult |-> Decodes("always", {"state", "placeId", "placeName", "gameId"},
                          {"viewportSize", "studioVersion"}, {}),
      screenshotResult |-> Decodes("always", {"data", "format", "width", "height"}, {}, {}),
      dataModelResult |-> Decodes("always", {"instance"}, {}, {}),
      exportInstancesResult |-> Decodes("always", {"data", "paths"}, {}, {}),
      importInstancesResult |-> Decodes("always", {"paths"}, {}, {}),
      findInstancesResult |-> Decodes("always", {"instances"}, {}, {"searched", "truncated"}),
      grepScriptsResult |-> Decodes("always", {"matches"}, {}, {"searched", "truncated"}),
      logsResult |-> Decodes("always", {"entries", "total", "bufferCapacity"}, {}, {}) ]

DecodeEvents ==
    [ stateChange |-> Decodes("never", {"previousState", "newState", "timestamp"}, {}, {}),
      heartbeat |-> Decodes("never", {}, {}, {"uptimeMs", "state", "pendingRequests"}),
      registerActionResult |-> Decodes("always", {"name", "success"}, {"skipped", "error"}, {}),
      syncActionsResult |-> Decodes("always", {"needed", "installed"}, {}, {}),
      playtestEnded |-> Decodes("always", {"playtestId", "success"}, {"error"}, {}),
      endPlaytestResult |-> Decodes("always", {}, {"playtestId", "mode", "players"}, {}),
      playtestPlayersResult |-> Decodes("always", {}, {"players", "remaining"}, {}),
      error |-> Decodes("maybe", {"code", "message"}, {"details"}, {}) ]

DecodeQueries ==
    [ execute |-> Decodes("maybe", {"script"}, {"timeoutMs", "args", "inputs", "runAs"}, {}),
      shutdown |-> Decodes("never", {}, {}, {}),
      queryState |-> Decodes("always", {}, {}, {}),
      captureScreenshot |-> Decodes("always", {}, {"format"}, {}),
      exportInstances |-> Decodes("always", {"paths"}, {}, {}),
      importInstances |-> Decodes("always", {"data", "parentPath"}, {}, {}),
      findInstances |-> Decodes("always", {}, {"root", "name", "exactName", "className", "tag", "limit"}, {}),
      grepScripts |-> Decodes("always", {"pattern"}, {"root", "luaPattern", "caseSensitive", "limit"}, {}),
      queryDataModel |-> Decodes("always", {"path"},
                             {"depth", "properties", "includeAttributes", "find", "listServices"}, {}) ]

DecodePlayers ==
    [ playersList |-> Decodes("always", {"op"}, {}, {}),
      playersAdd |-> Decodes("always", {"op", "count", "timeoutSec"}, {}, {}),
      playersRemove |-> Decodes("always", {"op", "kick", "names", "timeoutSec"}, {}, {}),
      playersLeave |-> Decodes("always", {"op"}, {}, {}) ]

\* verbose of syncActions is not among what is kept.
DecodeActions ==
    [ queryLogs |-> Decodes("always", {},
                        {"count", "direction", "levels", "includeInternal", "since", "groupRepeats"}, {}),
      registerAction |-> Decodes("always", {"name", "source"}, {"hash", "responseType"}, {}),
      syncActions |-> Decodes("always", {"actions"}, {}, {}),
      startPlaytest |-> Decodes("always", {"mode", "playtestId", "bridgePort", "instanceId"},
                            {"players", "bridge"}, {}),
      endPlaytest |-> Decodes("always", {}, {}, {}),
      error |-> Decodes("maybe", {"code", "message"}, {"details"}, {}) ]
    @@ DecodePlayers

Decode(table, m) ==
    IF m.type \notin DOMAIN table THEN Null
    ELSE LET d == table[m.type] IN
         IF ~(d.checks \subseteq m.good) \/ (d.id = "always" /\ ~m.id) THEN Null
         ELSE Message(m.type, m.id /\ d.id # "never",
                  (m.good \cap (d.checks \cup d.keeps)) \cup d.fills, {})

DecodePluginMessage(m) == Decode(DecodeScriptAndRegister @@ DecodeResults @@ DecodeEvents, m)
DecodeServerMessage(m) == Decode(DecodeQueries @@ DecodeActions, m)

-----------------------------------------------------------------------------
(* The schema of a relayed action                                          *)

\* The fields the schema lists.  It refuses a listed field that has not its type,
\* and keeps a field that it does not list.
SchemaOfQueries ==
    [ execute |-> Shape("maybe", {"script"}, {"timeoutMs", "args"}),
      shutdown |-> Shape("never", {}, {}),
      queryState |-> Shape("always", {}, {}),
      captureScreenshot |-> Shape("always", {}, {"format"}),
      queryDataModel |-> Shape("always", {"path"},
                            {"depth", "properties", "includeAttributes", "find", "listServices"}),
      findInstances |-> Shape("always", {}, {"root", "name", "exactName", "className", "tag", "limit"}),
      grepScripts |-> Shape("always", {"pattern"}, {"root", "luaPattern", "caseSensitive", "limit"}),
      exportInstances |-> Shape("always", {"paths"}, {}),
      importInstances |-> Shape("always", {"data", "parentPath"}, {}),
      queryLogs |-> Shape("always", {},
                       {"count", "direction", "levels", "includeInternal", "since", "groupRepeats"}) ]

SchemaOfActions ==
    [ registerAction |-> Shape("always", {"name", "source"}, {"hash", "responseType"}),
      syncActions |-> Shape("always", {"actions"}, {"verbose"}),
      startPlaytest |-> Shape("always", {"mode", "playtestId", "bridgePort", "instanceId"}, {"players", "bridge"}),
      endPlaytest |-> Shape("always", {}, {}),
      playersList |-> Shape("always", {"op"}, {}),
      playersAdd |-> Shape("always", {"op", "count", "timeoutSec"}, {}),
      playersRemove |-> Shape("always", {"op", "kick", "names", "timeoutSec"}, {}),
      playersLeave |-> Shape("always", {"op"}, {}),
      error |-> Shape("maybe", {"code", "message"}, {"details"}) ]

\* The requests of playtestPlayers are listed without .loose().
Strict == {"playersList", "playersAdd", "playersRemove", "playersLeave"}

\* What the host sends on of an action it is asked to relay.
Relayed(m) ==
    LET table == SchemaOfQueries @@ SchemaOfActions IN
    IF m.type \notin DOMAIN table THEN Null
    ELSE LET s == table[m.type]
             listed == s.need \cup s.may IN
         IF ~(s.need \subseteq m.good) \/ m.bad \cap listed # {} \/ (s.id = "always" /\ ~m.id) THEN Null
         ELSE Message(m.type, m.id /\ s.id # "never",
                  IF m.type \in Strict THEN m.good \cap listed ELSE m.good, m.bad)
=============================================================================
