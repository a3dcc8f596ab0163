---------------------------- MODULE StorageFile ----------------------------
(***************************************************************************)
(* The storage file of NetSentinel11 (src/src/storage/src) and the command *)
(* line processes that share it.  Every operation that changes the file    *)
(* reads all its lines, edits them in memory and writes all of them back:  *)
(* write_lines opens the file with std::ios::trunc, so it is empty until   *)
(* the stream is flushed.  Nothing locks the file, nothing checks that it  *)
(* could be opened, for reading or for writing, and a process may die      *)
(* between any two steps.                                                  *)
(***************************************************************************)
EXTENDS Naturals, Sequences, FiniteSets, SequencesExt, Positions

CONSTANTS
    Procs,      \* processes that run a command
    Commands,   \* the storage calls they may make, with their arguments
    Stored,     \* what the file may hold to begin with
    Overlap,    \* whether two commands may run at the same time
    Faults,     \* whether processes may die and files be impossible to open:
                \* a set of answers, of which a behaviour takes one
    MaxRuns     \* bound: how many commands are run

VARIABLES
    file,       \* the lines on disk
    pc, cmd,    \* where each process is, and in which call
    held,       \* the record a call carries from one step to the next
    out,        \* the lines it is about to write
    after,      \* where it goes when they are written
    reported,   \* history: the ids save_scan_session has returned
    runs,       \* how many commands were started
    faults      \* whether this behaviour has faults

vars == <<file, pc, cmd, held, out, after, reported, runs, faults>>

-----------------------------------------------------------------------------
(* Lines.  A line is its tag, its key field and the rest of its fields.    *)
(* Tags without fields, which ensure_header puts into a new file, name no  *)
(* record and are left out; so is a line cut short, which has too few      *)
(* fields to be one.                                                       *)

Line(kind, key, val) == [kind |-> kind, key |-> key, val |-> val]

Latest == 2
Schema(v) == Line("schema", "version", v)

Version(f) == IF f # <<>> /\ f[1].kind = "schema" THEN f[1].val ELSE 1

EnsureHeader(f) ==
    IF f = <<>> \/ f[1].kind # "schema" THEN <<Schema(Latest)>> \o f ELSE f

\* Several operations add the header only to an empty file.
HeaderIfEmpty(f) == IF f = <<>> THEN EnsureHeader(f) ELSE f

Of(f, kind) == {i \in DOMAIN f : f[i].kind = kind}
Keys(f, kind) == {f[i].key : i \in Of(f, kind)}
Same(l, m) == l.kind = m.kind /\ l.key = m.key

\* Edit in place the lines a test holds of; drop the lines a test holds of.
Edit(f, T(_), g(_)) == [i \in DOMAIN f |-> IF T(f[i]) THEN g(f[i]) ELSE f[i]]
Drop(f, T(_)) == At(f, {i \in DOMAIN f : ~T(f[i])})

\* Replace the lines with this tag and key where they stand, or append.
Put(f, l) ==
    IF \E i \in DOMAIN f : Same(f[i], l)
    THEN Edit(f, LAMBDA m : Same(m, l), LAMBDA m : l)
    ELSE Append(f, l)

Migrated(f, target) ==
    LET g == EnsureHeader(f) IN
    IF Version(g) < target /\ Version(g) < Latest
    THEN [g EXCEPT ![1] = Schema(IF target < Latest THEN target ELSE Latest)]
    ELSE g

\* Fault: the last id is given again.
LastSessionId(f) ==
    IF Of(f, "session") = {} THEN 0
    ELSE CHOOSE n \in Keys(f, "session") : \A k \in Keys(f, "session") : k <= n

NextSessionId(f) ==
    IF Of(f, "session") = {} THEN 0
    ELSE 1 + CHOOSE n \in Keys(f, "session") : \A k \in Keys(f, "session") : k <= n

\* Fault: the details are written before the session they belong to.
DetailsFirst(f, id) ==
    f \o <<Line("detail", id, "fields"), Line("session", id, "json")>>

\* "detail" stands for the NETWORK, ADAPTER, DEVICE, SCAN_PROBE and EVENT
\* lines of a session.
WithSession(f, id) ==
    f \o <<Line("session", id, "json"), Line("detail", id, "fields")>>

-----------------------------------------------------------------------------
(* What is expected of the calls and of the file to begin with: lines of   *)
(* the kinds the callers build (none of them asks for an active workspace, *)
(* app/main.cpp:519), and a file these operations could have left.         *)

Carries(c, kind) == c.line = Line(kind, c.line.key, c.line.val)

\* An event without a time is written with that of the write.
Dated(l) == l.kind = "event" => l.val.at \in Nat \ {0}

ASSUME CommandsAssumption ==
    \A c \in Commands :
        /\ c.op \in {"save", "migrate"} => c.target \in Nat
        /\ c.op = "upsert" => Carries(c, "device")
        /\ c.op = "event" => Carries(c, "event") /\ Dated(c.line)
        /\ c.op = "rollup" => Carries(c, "rollup")
        /\ c.op \in {"retain-rollups", "retain-presence"} => c.cutoff \in Nat
        /\ c.op = "workspace" => c.line = Line("workspace", c.line.key, FALSE) /\ c.limit \in Nat
        /\ c.op = "history" => Carries(c, "scan")
        /\ c.op = "filter" => Carries(c, "filter")

Limits == {c.limit : c \in {d \in Commands : d.op = "workspace"}}

AllLines(f) ==
    /\ f \in Seq(ToSet(f))
    /\ \A i \in DOMAIN f : f[i] = Line(f[i].kind, f[i].key, f[i].val)
    /\ \A i \in Of(f, "session") : f[i].key \in Nat
    /\ \A i \in Of(f, "workspace") : f[i].val \in BOOLEAN

NoneTwice(f) ==
    \A i, j \in DOMAIN f :
        /\ f[i].kind \in {"session", "device", "workspace", "filter"}
        /\ Same(f[i], f[j])
        => i = j

\* Each line of one kind stands behind the line of another kind it belongs to.
Behind(f, kind, owner) ==
    \A i \in Of(f, kind) :
        \E j \in 1..(i - 1) : f[j].kind = owner /\ f[j].key = f[i].key

OneActive(f) == \A i, j \in Of(f, "workspace") : f[i].val /\ f[j].val => i = j

WithinLimit(f) ==
    Of(f, "workspace") # {}
        => \E n \in Limits : Cardinality(Of(f, "workspace")) <= n

Sound(f) ==
    /\ AllLines(f) /\ NoneTwice(f)
    /\ Behind(f, "detail", "session") /\ Behind(f, "scan", "workspace")
    /\ OneActive(f) /\ WithinLimit(f)

ASSUME StoredAssumption ==
    \A f \in Stored : Sound(f) /\ Version(f) \in Nat /\ \A i \in DOMAIN f : Dated(f[i])

-----------------------------------------------------------------------------
(* Steps every operation shares.                                           *)

\* read_lines: a file that cannot be opened looks like an empty one.
Views == IF faults THEN {file, <<>>} ELSE {file}

Reads(p, op) == pc[p] = "read" /\ cmd[p].op = op

Return(p) ==
    /\ pc' = [pc EXCEPT ![p] = "idle"]
    /\ UNCHANGED <<out, after>>

Rewrite(p, lines, then) ==
    /\ out' = [out EXCEPT ![p] = lines]
    /\ after' = [after EXCEPT ![p] = then]
    /\ pc' = [pc EXCEPT ![p] = "open"]

Start(p, c) ==
    /\ pc[p] = "idle" /\ runs < MaxRuns
    /\ Overlap \/ \A q \in Procs : pc[q] = "idle"
    /\ cmd' = [cmd EXCEPT ![p] = c]
    /\ pc' = [pc EXCEPT ![p] = "read"]
    /\ runs' = runs + 1
    /\ UNCHANGED <<file, held, out, after, reported>>

Written(p) ==
    /\ pc' = [pc EXCEPT ![p] = after[p]]
    /\ reported' = IF cmd[p].op = "save" /\ after[p] = "idle"
                   THEN Append(reported, held[p].key) ELSE reported

\* std::ofstream out(path, std::ios::trunc)
OpenFile(p) ==
    /\ pc[p] = "open"
    /\ file' = <<>>
    /\ pc' = [pc EXCEPT ![p] = "flush"]
    /\ UNCHANGED <<cmd, held, out, after, reported, runs>>

\* write_lines does not look at the stream: the call succeeds all the same.
OpenFails(p) ==
    /\ faults /\ pc[p] = "open"
    /\ Written(p)
    /\ UNCHANGED <<file, cmd, held, out, after, runs>>

\* Lines go to the offsets of this stream; what another process has written
\* beyond them stays.
Overlay(lines) == lines \o SubSeq(file, Len(lines) + 1, Len(file))

Flush(p) ==
    /\ pc[p] = "flush"
    /\ file' = Overlay(out[p])
    /\ Written(p)
    /\ UNCHANGED <<cmd, held, out, after, runs>>

\* The process dies; of the lines it was writing some have reached the disk.
Crash(p) ==
    /\ faults /\ pc[p] # "idle"
    /\ IF pc[p] = "flush"
       THEN \E n \in 0..Len(out[p]) : file' = Overlay(SubSeq(out[p], 1, n))
       ELSE file' = file
    /\ pc' = [pc EXCEPT ![p] = "idle"]
    /\ UNCHANGED <<cmd, held, out, after, reported, runs>>

-----------------------------------------------------------------------------
(* Scan sessions and the schema.                                           *)

\* The lines with the new session, and its id for the caller.
Saves(p, lines) ==
    /\ Rewrite(p, WithSession(lines, NextSessionId(lines)), "idle")
    /\ held' = [held EXCEPT ![p] = Line("session", NextSessionId(lines), "json")]

SaveScanSession(p) ==
    /\ Reads(p, "save")
    /\ \E f \in Views :
         LET lines == EnsureHeader(f)  target == cmd[p].target IN
         \/ /\ target \notin 1..Latest \/ Version(lines) > target
            /\ Return(p) /\ UNCHANGED held
         \/ /\ target \in 1..Latest /\ Version(lines) < target
            /\ pc' = [pc EXCEPT ![p] = "migrate"]
            /\ UNCHANGED <<held, out, after>>
         \/ Version(lines) = target /\ Saves(p, lines)
    /\ UNCHANGED <<file, cmd, reported, runs>>

\* migrate_schema, called on its own or by save_scan_session.
MigrateSchema(p) ==
    /\ Reads(p, "migrate") \/ pc[p] = "migrate"
    /\ \E f \in Views :
         IF Version(f) = 0 THEN Return(p)
         ELSE Rewrite(p, Migrated(f, cmd[p].target),
                      IF pc[p] = "migrate" THEN "reread" ELSE "idle")
    /\ UNCHANGED <<file, cmd, held, reported, runs>>

\* The lines are read again after the migration, this time without a header.
SaveAfterMigration(p) ==
    /\ pc[p] = "reread" /\ cmd[p].op = "save"
    /\ \E f \in Views : Saves(p, f)
    /\ UNCHANGED <<file, cmd, reported, runs>>

-----------------------------------------------------------------------------
(* The device inventory.                                                   *)

UpsertInventory(p) ==
    /\ \/ Reads(p, "upsert")
       \/ pc[p] = "reread" /\ cmd[p].op = "patch"
    /\ LET l == IF cmd[p].op = "upsert" THEN cmd[p].line ELSE held[p] IN
       \E f \in Views : Rewrite(p, Put(HeaderIfEmpty(f), l), "idle")
    /\ UNCHANGED <<file, cmd, held, reported, runs>>

\* The record as the patch leaves it, and whether its importance is in 0..100.
Patched(val, patch) ==
    [x \in DOMAIN val |-> IF x \in DOMAIN patch THEN patch[x] ELSE val[x]]

\* get_inventory_record, then upsert_inventory_record reads the file again.
PatchInventory(p) ==
    /\ Reads(p, "patch")
    /\ \E f \in Views :
         LET here == {i \in Of(f, "device") : f[i].key = cmd[p].device} IN
         IF here = {} \/ ~cmd[p].importanceOk
         THEN Return(p) /\ UNCHANGED held
         ELSE LET old == f[CHOOSE i \in here : \A j \in here : i <= j] IN
              /\ held' = [held EXCEPT ![p] =
                            Line("device", old.key, Patched(old.val, cmd[p].patch))]
              /\ pc' = [pc EXCEPT ![p] = "reread"]
              /\ UNCHANGED <<out, after>>
    /\ UNCHANGED <<file, cmd, reported, runs>>

HideStale(p) ==
    /\ Reads(p, "hide-stale")
    /\ \E f \in Views :
         IF f = <<>> THEN Return(p)
         ELSE Rewrite(p, Edit(f, LAMBDA l : l.kind = "device" /\ l.val.stale,
                                 LAMBDA l : [l EXCEPT !.val.hidden = TRUE]), "idle")
    /\ UNCHANGED <<file, cmd, held, reported, runs>>

-----------------------------------------------------------------------------
(* Timeline events and bandwidth rollups: appended, and expired by age.    *)

AppendTimeline(p) ==
    /\ Reads(p, "event")
    /\ \E f \in Views : Rewrite(p, Append(HeaderIfEmpty(f), cmd[p].line), "idle")
    /\ UNCHANGED <<file, cmd, held, reported, runs>>

AppendRollup(p) ==
    /\ Reads(p, "rollup")
    /\ \E f \in Views : Rewrite(p, Append(EnsureHeader(f), cmd[p].line), "idle")
    /\ UNCHANGED <<file, cmd, held, reported, runs>>

\* Fault: one granularity's policy is applied to all rollups.
ExpiredRollups(l, c) == l.kind = "rollup" /\ l.val \in 1..(c.cutoff - 1)

ExpiredRollup(l, c) ==
    l.kind = "rollup" /\ l.key = c.granularity /\ l.val \in 1..(c.cutoff - 1)

\* A policy without a cutoff changes nothing; a rollup without a time (0)
\* never expires.
RetainRollups(p) ==
    /\ Reads(p, "retain-rollups")
    /\ \E f \in Views :
         IF cmd[p].cutoff = 0 THEN Return(p)
         ELSE Rewrite(p, Drop(EnsureHeader(f), LAMBDA l : ExpiredRollup(l, cmd[p])), "idle")
    /\ UNCHANGED <<file, cmd, held, reported, runs>>

Appears(l) == l.kind = "event" /\ l.val.type \in {"join", "leave"}

\* Fault: what is new expires.
NewPresence(l, c) == Appears(l) /\ l.val.at >= c.cutoff

\* --network; without it the filter is empty and every event matches.
AllNetworks == ""
MatchesNetwork(l, n) == n = AllNetworks \/ l.val.network = n

\* Only join and leave events expire.
ExpiredPresence(l, c) ==
    Appears(l) /\ MatchesNetwork(l, c.network) /\ l.val.at \in 1..(c.cutoff - 1)

RetainPresence(p) ==
    /\ Reads(p, "retain-presence")
    /\ \E f \in Views :
         IF cmd[p].cutoff = 0 THEN Return(p)
         ELSE Rewrite(p, Drop(EnsureHeader(f), LAMBDA l : ExpiredPresence(l, cmd[p])), "idle")
    /\ UNCHANGED <<file, cmd, held, reported, runs>>

\* The history of a device, on one network or on all of them,
\* is read from the log in the order of the times.  It is in its latest event
\* and in the stays from a join to a leave that comes next.  std::sort leaves
\* events of one time in any order, so there may be two answers and these are
\* the possible stays; without events the device is not listed.  A stay that
\* has not ended lasts until now.
Sightings(L, n, d) ==
    {l \in ToSet(L) : Appears(l) /\ MatchesNetwork(l, n) /\ l.key = d}

PresenceTold(L, n, d) ==
    LET seen == Sightings(L, n, d) IN
    {l.val.type : l \in {m \in seen : \A k \in seen : k.val.at <= m.val.at}}

Stays(L, n, d) ==
    LET seen == Sightings(L, n, d) IN
    {<<e[1].val.at, e[2].val.at>> : e \in {s \in seen \X seen :
        /\ s[1].val.type = "join" /\ s[2].val.type = "leave"
        /\ s[1].val.at <= s[2].val.at
        /\ \A m \in seen : ~(s[1].val.at < m.val.at /\ m.val.at < s[2].val.at)}}

-----------------------------------------------------------------------------
(* Workspaces, their scan history, and saved filters.                      *)

\* Fault: one workspace too many.
NoMoreRoom(f, limit) == Cardinality(Of(f, "workspace")) > limit

NoRoom(f, limit) == Cardinality(Of(f, "workspace")) >= limit

UpsertWorkspace(p) ==
    /\ Reads(p, "workspace")
    /\ \E f \in Views :
         LET lines == HeaderIfEmpty(f)  w == cmd[p].line IN
         IF w.key \notin Keys(lines, "workspace") /\ NoRoom(lines, cmd[p].limit)
         THEN Return(p)
         ELSE Rewrite(p, Put(lines, w), "idle")
    /\ UNCHANGED <<file, cmd, held, reported, runs>>

\* Fault: the workspace that was active stays active.
AlsoSelected(l, w) == [l EXCEPT !.val = l.val \/ l.key = w]

Selected(l, w) == [l EXCEPT !.val = (l.key = w)]

SwitchWorkspace(p) ==
    /\ Reads(p, "switch")
    /\ \E f \in Views :
         IF cmd[p].workspace \notin Keys(f, "workspace") THEN Return(p)
         ELSE Rewrite(p, Edit(f, LAMBDA l : l.kind = "workspace",
                  LAMBDA l : Selected(l, cmd[p].workspace)), "idle")
    /\ UNCHANGED <<file, cmd, held, reported, runs>>

\* Fault: the workspace of a scan is not looked up.
AppendAnyHistory(p) ==
    /\ Reads(p, "history")
    /\ \E f \in Views : Rewrite(p, Append(HeaderIfEmpty(f), cmd[p].line), "idle")
    /\ UNCHANGED <<file, cmd, held, reported, runs>>

AppendHistory(p) ==
    /\ Reads(p, "history")
    /\ \E f \in Views :
         LET lines == HeaderIfEmpty(f) IN
         IF cmd[p].line.key \notin Keys(lines, "workspace") THEN Return(p)
         ELSE Rewrite(p, Append(lines, cmd[p].line), "idle")
    /\ UNCHANGED <<file, cmd, held, reported, runs>>

SaveFilter(p) ==
    /\ Reads(p, "filter")
    /\ \E f \in Views : Rewrite(p, Put(HeaderIfEmpty(f), cmd[p].line), "idle")
    /\ UNCHANGED <<file, cmd, held, reported, runs>>

-----------------------------------------------------------------------------
Nothing == Line("none", "none", "none")

Init ==
    /\ file \in Stored
    /\ pc = [p \in Procs |-> "idle"]
    /\ cmd = [p \in Procs |-> [op |-> "none"]]
    /\ held = [p \in Procs |-> Nothing]
    /\ out = [p \in Procs |-> <<>>]
    /\ after = [p \in Procs |-> "idle"]
    /\ reported = <<>>
    /\ runs = 0
    /\ faults \in Faults

Call(p) ==
    \/ SaveScanSession(p) \/ MigrateSchema(p) \/ SaveAfterMigration(p)
    \/ UpsertInventory(p) \/ PatchInventory(p) \/ HideStale(p)
    \/ AppendTimeline(p) \/ AppendRollup(p) \/ RetainRollups(p) \/ RetainPresence(p)
    \/ UpsertWorkspace(p) \/ SwitchWorkspace(p) \/ AppendHistory(p) \/ SaveFilter(p)

Next ==
    /\ \E p \in Procs :
        \/ \E c \in Commands : Start(p, c)
        \/ Call(p)
        \/ OpenFile(p) \/ OpenFails(p) \/ Flush(p) \/ Crash(p)
    /\ UNCHANGED faults

Spec == Init /\ [][Next]_vars

-----------------------------------------------------------------------------
(* Properties.                                                             *)

\* Whatever crashes and failed opens leave behind, no two sessions of the
\* file have the same id (save_scan_session takes the next one), and no
\* device, workspace or filter is listed twice.
RecordsUnique == NoneTwice(file)

\* The probe lines of a session stand behind its session line: a file that
\* was cut short never holds the details of a session it has lost.
DetailsFollowSession == Behind(file, "detail", "session")

\* A scan history entry always belongs to a workspace of the file.
HistoryHasWorkspace == Keys(file, "scan") \subseteq Keys(file, "workspace")

\* Switching leaves one workspace active at most, also in a cut file.
OneActiveWorkspace == OneActive(file)

\* There are never more workspaces than the largest limit in use.
WorkspaceLimitKept == WithinLimit(file)

Cutoffs == {c.cutoff : c \in {d \in Commands : d.op \in {"retain-rollups", "retain-presence"}}}
Granularities == {c.granularity : c \in {d \in Commands : d.op = "retain-rollups"}}
Networks == {c.network : c \in {d \in Commands : d.op = "retain-presence"}}

\* The file as its last complete write leaves it.
View ==
    IF \E p \in Procs : pc[p] = "flush"
    THEN out[CHOOSE p \in Procs : pc[p] = "flush"] ELSE file

Keyed == {"session", "detail", "device", "workspace", "filter"}
Logged == {"event", "rollup", "scan"}

RecordsIn(f) == {f[i] : i \in {j \in DOMAIN f : f[j].kind \in Keyed}}

Entries(f) == {i \in DOMAIN f : f[i].kind \in Logged}
LogIn(f) == At(f, Entries(f))

ShownVersion == IF faults THEN Latest ELSE Version(View)
ShownRecords == IF faults THEN {} ELSE RecordsIn(View)
ShownLog == IF faults THEN <<>> ELSE LogIn(View)

\* Without faults, rewriting lines implements a keyed store with logs, one
\* call at a time; a behaviour with faults promises nothing of the kind and
\* is shown as the store nobody touches.
Store == INSTANCE StorageStore WITH
    version <- ShownVersion, records <- ShownRecords, log <- ShownLog
ImplementsStore == Store!Spec

EventAdded(d) ==
    /\ ShownLog' # <<>> /\ ShownLog' = Append(ShownLog, Last(ShownLog'))
    /\ Last(ShownLog').kind = "event" /\ Last(ShownLog').key = d

\* The histories a device is in: those of its networks and that of all.
Histories(d) == {AllNetworks} \cup {l.val.network : l \in Sightings(ShownLog, AllNetworks, d)}

\* What retention of one network dropped is younger than what it left of another.
OtherNetworkOlder(d) ==
    LET seen == Sightings(ShownLog, AllNetworks, d)  left == Sightings(ShownLog', AllNetworks, d) IN
    \E l \in left, m \in seen \ left :
        l.val.network # m.val.network /\ l.val.at <= m.val.at

\* Whatever is written, the presence history goes on telling the same of a
\* device until an event of it is added: retention (storage.cpp:1801) makes
\* nobody come or leave and no stay longer, although it may drop the join a
\* leave or a present device needs.  A device is no longer listed only when
\* all its events are older than a cutoff.  Only the history of all networks
\* may turn round, when retention of one network leaves an older event of
\* another standing: then a device that has left may be present again.
PresenceKept ==
    [][\A d \in Keys(ShownLog, "event") : \A n \in Histories(d) :
         \/ EventAdded(d)
         \/ n = AllNetworks /\ OtherNetworkOlder(d)
         \/ /\ Stays(ShownLog', n, d) \subseteq Stays(ShownLog, n, d)
            /\ \/ PresenceTold(ShownLog', n, d) = PresenceTold(ShownLog, n, d)
               \/ /\ PresenceTold(ShownLog', n, d) = {}
                  /\ \E c \in Cutoffs : \A l \in Sightings(ShownLog, n, d) : l.val.at < c]_vars

\* storage/README.md: "Persisting scan sessions and probe lines to an
\* append-only storage file": a session that was reported saved stays.
SavedSessionsStay ==
    (\A p \in Procs : pc[p] = "idle")
        => ToSet(reported) \subseteq Keys(file, "session")
=============================================================================
