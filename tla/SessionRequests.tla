--------------------------- MODULE SessionRequests ---------------------------
(***************************************************************************)
(* What each operation of a BridgeSession asks of the plugin and what it     *)
(* makes of the answer. An operation first asserts that the plugin is        *)
(* connected and brings its actions up to date (BridgeRelay models that);    *)
(* it then sends one request and returns fields of the answer it expects,    *)
(* or fails with what another answer says.                                   *)
(***************************************************************************)
EXTENDS WireProtocol

\* always, maybe: the payload fields the request has and may have.
Request(type, always, maybe) == [type |-> type, always |-> always, maybe |-> maybe]

\* returns: the fields of the answer that go to the caller.
Operation(request, answer, returns) == [request |-> request, answer |-> answer, returns |-> returns]

\* The inputs are counted before anything else and refused when they are too large.
execAsync ==
    Operation(Request("execute", {"script", "timeoutMs"}, {"args", "inputs", "runAs"}),
        "scriptComplete", {"success", "output", "error", "traceback", "returnValues", "ranAs"})

StudioOperations ==
    [ queryStateAsync |-> Operation(Request("queryState", {}, {}), "stateResult",
            {"state", "placeId", "placeName", "gameId", "viewportSize", "studioVersion"}),
      captureScreenshotAsync |-> Operation(Request("captureScreenshot", {"format"}, {}), "screenshotResult",
            {"data", "format", "width", "height"}),
      queryLogsAsync |-> Operation(
            Request("queryLogs", {}, {"count", "direction", "levels", "includeInternal", "since", "groupRepeats"}),
            "logsResult", {"entries", "total", "bufferCapacity"}) ]

\* findInstancesAsync and grepScriptsAsync send their options and return the payload
\* as they are.
InstanceOperations ==
    [ queryDataModelAsync |-> Operation(
            Request("queryDataModel", {"path"},
                {"depth", "properties", "includeAttributes", "find", "listServices"}),
            "dataModelResult", {"instance"}),
      findInstancesAsync |-> Operation(
            Request("findInstances", {}, DeclaredQueries["findInstances"].may),
            "findInstancesResult", DeclaredReports["findInstancesResult"].need),
      grepScriptsAsync |-> Operation(
            Request("grepScripts", {"pattern"}, DeclaredQueries["grepScripts"].may),
            "grepScriptsResult", DeclaredReports["grepScriptsResult"].need) ]

ModelOperations ==
    [ exportInstancesAsync |-> Operation(Request("exportInstances", {"paths"}, {}),
            "exportInstancesResult", {"data", "paths"}),
      importInstancesAsync |-> Operation(Request("importInstances", {"data", "parentPath"}, {}),
            "importInstancesResult", {"paths"}) ]

PlaytestOperations ==
    [ runPlaytestAsync |-> Operation(
            Request("startPlaytest", {"mode", "playtestId", "bridgePort", "instanceId"}, {"players", "bridge"}),
            "playtestEnded", {"playtestId", "success", "error"}),
      endPlaytestAsync |-> Operation(Request("endPlaytest", {}, {}), "endPlaytestResult",
            {"playtestId", "mode", "players"}) ]

\* One operation in the code, whose four requests the messages tell apart.
PlayersOperation(type) ==
    Operation(Request(type, DeclaredActions[type].need, {}), "playtestPlayersResult", {"players", "remaining"})

playtestPlayersAsync == [type \in Strict |-> PlayersOperation(type)]

Operations ==
    [execAsync |-> execAsync] @@ StudioOperations @@ InstanceOperations @@ ModelOperations
        @@ PlaytestOperations @@ playtestPlayersAsync

\* The requests an operation can send.
Requests(op) ==
    {Message(op.request.type, TRUE, op.request.always \cup more, {}) : more \in SUBSET op.request.maybe}

-----------------------------------------------------------------------------
(* What the caller gets for an answer                                      *)

\* execAsync returns a result for every answer: a script's, that of an error, or one
\* that says what came instead.
toExecResult(m) ==
    CASE m.type = "scriptComplete" ->
             [thrown |-> FALSE, fields |-> (m.good \cap execAsync.returns) \cup {"output"}]
      [] OTHER -> [thrown |-> FALSE, fields |-> {"success", "output", "error"}]

\* code and message are named UNKNOWN and "Unknown plugin error" when they are missing;
\* an answer of any other type is named with the one expected.
pluginError(m) ==
    [thrown |-> TRUE, fields |-> IF m.type = "error" THEN {"code", "message"} ELSE {"expected", "type"}]

\* The players and the remaining names that an answer lacks are empty lists.
Outcome(op, m) ==
    CASE op = execAsync -> toExecResult(m)
      [] op # execAsync /\ m.type = op.answer ->
             [thrown |-> FALSE,
              fields |-> IF m.type = "playtestPlayersResult" THEN op.returns ELSE m.good \cap op.returns]
      [] OTHER -> pluginError(m)
=============================================================================
