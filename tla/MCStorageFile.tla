--------------------------- MODULE MCStorageFile ---------------------------
(***************************************************************************)
(* Small instances of StorageFile: two devices on two networks, workspaces *)
(* with room for one or two, three times, and calls that succeed and calls *)
(* that are refused.                                                       *)
(***************************************************************************)
EXTENDS StorageFile

Device(d, label, stale) ==
    Line("device", d, [label |-> label, hidden |-> FALSE, stale |-> stale])
Event(d, net, type, at) ==
    Line("event", d, [type |-> type, at |-> at, network |-> net])
Workspace(w) == Line("workspace", w, FALSE)

\* An empty file, one of schema 1, one without a header.
MCStored ==
    {<<>>,
     <<Schema(1), Line("session", 0, "json"), Line("detail", 0, "fields"),
       Device("d1", "new", TRUE), Event("d1", "home", "join", 3),
       Event("d1", "home", "join", 1), Event("d1", "guest", "join", 1)>>,
     <<Workspace("w1"), Device("d1", "new", FALSE), Line("rollup", "minute", 1),
       Event("d1", "home", "join", 1)>>}

SessionCommands == {[op |-> "save", target |-> t] : t \in 1..3}
                     \cup {[op |-> "migrate", target |-> t] : t \in 1..2}

InventoryCommands ==
    {[op |-> "upsert", line |-> Device("d2", "new", TRUE)],
     [op |-> "patch", device |-> "d1", patch |-> [stale |-> TRUE], importanceOk |-> TRUE],
     [op |-> "patch", device |-> "d1", patch |-> [label |-> "tv"], importanceOk |-> FALSE],
     [op |-> "patch", device |-> "d2", patch |-> [label |-> "tv", hidden |-> FALSE],
      importanceOk |-> TRUE],
     [op |-> "hide-stale"]}

LogCommands ==
    {[op |-> "event", line |-> Event("d1", "home", "leave", 2)],
     [op |-> "event", line |-> Event("d1", "guest", "leave", 2)],
     [op |-> "event", line |-> Event("d2", "home", "ip-change", 1)],
     [op |-> "rollup", line |-> Line("rollup", "hour", 1)],
     [op |-> "retain-rollups", granularity |-> "minute", cutoff |-> 2],
     [op |-> "retain-rollups", granularity |-> "minute", cutoff |-> 0],
     [op |-> "retain-presence", network |-> "", cutoff |-> 2],
     [op |-> "retain-presence", network |-> "home", cutoff |-> 2],
     [op |-> "retain-presence", network |-> "home", cutoff |-> 4]}

WorkspaceCommands ==
    {[op |-> "workspace", line |-> Workspace("w1"), limit |-> 2],
     [op |-> "workspace", line |-> Workspace("w2"), limit |-> 2],
     [op |-> "workspace", line |-> Workspace("w3"), limit |-> 1],
     [op |-> "switch", workspace |-> "w1"],
     [op |-> "switch", workspace |-> "w2"],
     [op |-> "history", line |-> Line("scan", "w2", "completed")],
     [op |-> "filter", line |-> Line("filter", "online", "query")]}

AllCommands == SessionCommands \cup InventoryCommands \cup LogCommands \cup WorkspaceCommands
OverlapStored == {f \in MCStored : Of(f, "workspace") = {}}
OverlapCommands == {[op |-> "save", target |-> 2], [op |-> "hide-stale"]}
=============================================================================
