# NetSentinel11 in TLA+

NetSentinel11 is a local network scanner and monitor: a C++20 engine over a C17
socket layer, a command line program, a Qt window, and modules for storage,
alerts, bandwidth, diagnostics and reports (`src/src/`). This directory holds
TLA+ models of the parts whose behaviour depends on order, failure or other
actors, the TLC runs that check them, and theorems checked by TLAPS.

## 1. Inventory

| Component | State | Operations | Talks to |
|---|---|---|---|
| Scan orchestrator (`engine_cpp/src/scan_contract.cpp`) | one session: stage, index, hosts, futures, results | `run_scan_session`, halt checks, progress callback | probes (calls, `std::async`), callers (callback, cancellation object by reference) |
| Probes (`arp_`, `icmp_`, `tcp_`, `netbios_`, `mdns_`, `ssdp_`, `snmp_*.cpp`, `netcore_c`) | NetBIOS and hostname caches behind mutexes; a rate limiter and token per probe | one query or connection each | sockets |
| Storage file (`storage/src/storage.cpp`) | one text file: header, records, logs | 12 operations that read all lines and write all lines | command line processes |
| Monitor loop (`app/main.cpp`, `print_monitor_command`) | counters, live hosts, next expected run | scan, report changes, back off, sleep | orchestrator, clock |
| Device merge (`device_merge.cpp`) | three maps from identifiers to identities during a call; the identities are the caller's | match, add, merge, report changes | a caller that keeps what it returns (none in the repository yet) |
| Command line (`app/main.cpp`) | the variables of one loop over the arguments | parse, check, call, exit code | every other component |
| Alerts (`alerts/src`) | rate file, history, presence rules | `send_alert`, presence evaluation | files shared by processes |
| Tray state (`service/src`) | persisted running flag and log | start, stop, status, cleanup | files |
| Outage detector, speed test, diagnostics history | history files of bounded length | append, prune | files |
| Window (`ui/src/qt_gui_main.cpp`) | scan data shared with queued callbacks | start scan, port scan, Wi-Fi scan, reports | worker threads, orchestrator |
| Internet control, downtime, quotas (`diagnostics/src`) | none between commands | decisions: refuse, plan, apply | command line, window, firewall |
| Bandwidth sources (`bandwidth/src`) | none between commands | router plugins, limits, autoblock policy, counters | command line, backends |
| Local REST API (`api/src/local_rest_api.cpp`) | none between requests | permission, CSRF and rate checks | storage, engine |
| Fingerprints, OUI, parsers, reports, installer, hardening, simulations | none | pure functions and formatting | – |

What is hard in this code, and what makes each part correct:

* **Orchestrator** – worker threads against the collecting thread; a stop
  request at any moment; queries that fail and count, or do not count, their
  stage. Correct: results in host order, nothing lost in a completed scan,
  bounded workers, bounded work after a stop request, events inside their stage.
* **Storage** – truncation before writing, no lock, unchecked open, a second
  read inside two operations. Correct alone: a keyed store with logs, whose presence
  history survives retention.
  After a crash: no dangling or doubled records. Between processes: no lost update.
* **Monitor** – two failure counters, skipped cycles, deadlines computed before
  a scan but used after a sleep. Correct: the printed events tell the live hosts,
  back-off never speeds up, a limited run ends.
* **Window** – any number of scans, port scans and timers at a time, each with a
  result that the event loop applies later to whatever is on show by then.
  Correct: the tables, findings and selection agree, the status line settles.
* **Alerts** – a file of times read and appended to by several processes.
  Correct: the limit of a minute is overrun by a bounded number of alerts.
* **Device merge** – identifiers that cross between devices from scan to scan,
  and maps that are only partly kept up to date while a call runs. Correct:
  nothing is forgotten, no observation is lost, a MAC is shared only if it was
  reported twice, ids and reported changes let a caller follow.
* **Command line and enforcement** – some 340 options in fifty loops, switches
  that set one another's variables, and a dozen decisions that look at dry run,
  confirmation, saved rule and mock mode in different orders. Correct: options
  mean the same in any order, a refusal leaves nothing behind, nothing is
  applied that was not asked for, a failure leaves only what is documented here.
* **Left aside** – time-to-live caches, bounded history files, counters that
  reset (section 6).

`PROJECT.json` lists every component with its status and every hazard with the
line where it bites and the properties that cover it.

## 2. Modules

| Module | Models | Form |
|---|---|---|
| `ScanLifecycle` | what a caller of `run_scan_session` may rely on | abstract specification |
| `ScanSession` | `run_scan_session` with its workers and its caller | detailed specification, properties |
| `ScanSessionProofs` | – | theorems about `ScanSession` |
| `StorageStore` | what one caller alone may rely on | abstract specification |
| `StorageFile` | the storage operations, line by line and write by write | detailed specification, properties |
| `Positions` | the part of a sequence at some positions | operator |
| `StorageFileProofs` | – | theorems about `StorageFile` |
| `StorageStoreProofs` | – | `StorageFile` implements `StorageStore` |
| `Monitor` | `print_monitor_command` | specification, properties |
| `MonitorProofs` | – | theorems about `Monitor` |
| `ScannerWindow` | the Qt window, its threads, closures and timers | specification, properties |
| `ScannerWindowProofs` | – | theorems about `ScannerWindow` |
| `AlertRouter` | `send_alert` and its rate file | specification, properties |
| `AlertRouterProofs` | – | a theorem about `AlertRouter` |
| `DeviceMerge` | `merge_device_observations` | specification, properties |
| `DeviceMergeProofs` | – | theorems about `DeviceMerge` |
| `CommandOptions` | what every option of every loop takes | tables |
| `Enforcement` | the decisions that could change a network | operators |
| `CommandLine` | one run of the program, composing the two modules above | specification, properties |
| `CommandLineProofs` | – | theorems about `Enforcement` and `CommandLine` |
| `MC...` (one for each specification) | – | constants for TLC |

Operators preceded by a comment that begins with `Fault:` are not part of any
specification. Each is a variant of the definition below it with a plausible
mistake; substituting it must break one property, which shows that the property
depends on that code.

### ScanSession

`pc` is the position of the orchestrating thread and `stage` the stage it is in.

| pc | Code | Actions |
|---|---|---|
| `validate` | option, scope, adapter and ARP checks (328–414) | `Refuse`, `StartSession` |
| `begin` | the `if (run_...)` of a stage | `BeginStage`, `SkipStage` |
| `query` | ARP table read, mDNS, SSDP, SNMP queries | `ArpFail`, `ArpRows`, `QueryAnswered`, `QueryFail` |
| `chunk`, `launch`, `collect` | the chunk loops of ICMP and TCP | `HaltAtChunk`, `BeginChunk`, `Launch`, `Collect`, `EndChunks` |
| `sweep` | supplemental ICMP sweep of a live scan | `Sweep`, `SweepFail` |
| `resolve` | the NetBIOS loop | `Resolve`, `EndResolve` |
| `finish`, `gate` | `stage_complete`, the first look of `should_halt` | `FinishStage`, `HaltAtGate`, `PassGate`, `PassLastGate` |
| `halt` | `should_halt` between its two looks at the flags | `Halt` |
| `complete` | the last halt check is passed, nothing is said yet | `Complete` |
| `ended` | the outcome is set: its callback, and the call returned | – |

`WorkerReady(i)` is the end of one `std::async` probe; `RequestCancel` and
`RequestPause` are another thread, or the progress callback, setting the
cancellation object, in any of these positions. `should_halt` asks first whether
there is a request and then which, so a cancel may still overtake a pause the session
is stopping for; one that comes after the last check (1161), or in the callback that
reports the outcome (147, 153, 1168), is lost, and the call says "completed" or
"paused". `CancelTakesEffect` says that these are the only ones, and in
`ScanLifecycle` the outcome is decided where the last check is passed (`Outcome`).
The irregularities of the code are kept: no halt check between mDNS, SSDP and SNMP;
one after NetBIOS only if it ran; a failed mDNS query counts its stage, a failed SSDP
or SNMP query does not; the sweep announces ICMP a second time; NetBIOS asks ARP rows
only.

Abstracted: what probes answer (any rows, any answers, in any order), times,
jitter, texts, and the `current`/`total` pair of an event. `late` is a history
variable: units of probe work begun while a stop request stood.

A checked consequence worth knowing: after a failed SSDP query, SNMP announces
itself under SSDP's index (`StagesDistinguished` says this is the only case),
and a scan that is asked to stop may still resolve NetBIOS names for every ARP
row (`LateWorkBounded`).

### StorageFile

A line is a record of tag, key and value; the file is a sequence of lines. An
operation reads the file (`read`), edits the lines in memory, then `OpenFile`
truncates the file and `Flush` writes the lines. `save_scan_session` may run
`migrate_schema` first and then reads again; `patch_inventory_record` calls
`upsert_inventory_record`, which reads again (`reread`). `Crash` ends a process
anywhere and leaves a prefix of what it was writing; `OpenFails` and the empty
element of `Views` are files that cannot be opened, which the code does not
notice. `Start` is one command of the program. Lines are cut between, not
inside, lines: a line cut short has too few fields and every reader skips it.
Texts, times of update and escaping of fields are left out. `PresenceTold` and
`Stays` are what `build_device_presence_history` finds in a log it sorts by time, for
one network or, where the filter is empty, for all (`MatchesNetwork`; `--network` of
`presence history` goes to the history and to the retention). `std::sort` may
leave events of one time in any order, so they are sets of possible answers; a
stay that has not ended is told by its open join only, not counted up to `--now`, and
devices without labels, which the history leaves out whole, are not told apart.

A checked consequence worth knowing: a history over all networks may turn round when
retention is for one of them. A device that joined on B at 2 and left on A at 3 is
absent; retention of A with cutoff 4 drops the leave and leaves the older join, and
the history of all networks then tells that the device is present. `PresenceKept`
names this as its one exception (`OtherNetworkOlder`); the history of each network,
which is what the command shows with the same `--network`, keeps what it tells.

`CommandsAssumption` says what lines the callers build: the call's own kind, and a
workspace that does not ask to be active (`main.cpp:519`), an event with its time
(`format_timeline_record` writes the present one where none is given).
`StoredAssumption` says of the file at the start that it is `Sound`: one these
operations could have left, cut or not. `Sound` asks of each line what must stand
before it (`NoneTwice`, `Behind`, `OneActive`, `WithinLimit`), and the properties
are these same predicates of `file`. Versions and targets are numbers (`std::size_t`
in the code). `StorageOverlap` starts from the files without workspaces, as it has
no workspace command that could have written one.

### Monitor

Time is in minutes since the cycle began, so that no clock grows: lateness is `clock
- interval`, with `clock` the scan's time plus the sleep's. Whether the network is
metered comes from an environment variable of the process (`main.cpp:2020`) and so
is fixed in the request. A session without a stop request completes or fails
(`ScanSession`), so the branch for an incomplete one (`main.cpp:2202`) has no
action. Interval arithmetic is exact: requests of more than 2^57 minutes, which
overflow in the code, are outside the model, and so are steps of the system clock.
The hosts are finitely many and none is called `"none"`, the host of events about no
host (`HostsAssumption`). `EventsTellHosts` reads the events in order: `KnownLive(h,
n)` is what the first n of them tell. Killing a continuous monitor is `Interrupt`.

### ScannerWindow

`scan`, `context`, `selected`, `filter` and `status` are the members of the class
`ScannerWindow` that the event loop owns. A thread is a record with what its
closure captured when it was started (`fallback`, `targets`); `queue` holds the
closures posted with `Qt::QueuedConnection`, run in order by `ShowProgress`,
`ShowScan`, `ShowPorts` and `ShowWifi`. `Click` is one click of the user; the
timers of `--auto-scan` and its companions are a sequence, since their delays are
fixed, and each may fire before or after anything else. What the window says of a
device is a function of its ports and the gateway (`Judge`); which gateway a thread
finds when it has scanned is nondeterministic. `Destroyed` ends the
program with the window: what a thread that still runs does with a destroyed
window is undefined, and no property speaks of it. `auto` is a history variable.
Left out: settings, the DHCP and DNS pages, the files of reports.

### AlertRouter

A command takes the time (`TakeTime`), reads the file and counts the recent lines
(`ReadTimes`), and appends the time it took at first (`AppendTime`); between any
two of these steps other commands run, the clock moves, or the command is killed.
`ReadFails` and `AppendFails` are files that cannot be opened, which the code takes
for an empty file and does not report. `SetBack` is a clock that goes back; lines of
the future then count as old, because the difference is unsigned. The file is the
part of `sent` that was written. History variables count these events (`setbacks`,
`failures`) and mark each time with the number of set-backs before it (`since`); no
action reads them but for the bound. `OverrunBounded` charges each set-back with one
limit more and each file that is not opened with one alert, and nothing else with
anything: not the order of the processes, not a kill, not a slow writer whose time is
long past when it is written.

### DeviceMerge

One action is one turn of the loop over the observations: `Skip`, `AddDevice` or
`UpdateDevice`; `Begin` builds the three maps, `Return` drops them. `Match` keeps
the order MAC, name, address; host and NetBIOS names share a map, as in the code.
What the maps miss is kept too: a MAC that `UpdateDevice` gives to an identity is
not entered, a NetBIOS name that is replaced is not removed, and the address
pointed to the identity is the last of its list, not the one observed.
Confidence is computed with the code's sequence of clamped adjustments. Names and
MACs are taken as normalised. `Token` is what `sanitize_id_token` leaves of a name
or an address: it drops dots, so 192.168.1.11 and 192.168.11.1 have one token, and
the instance has two such addresses. `prior` and `twice` are history.

A consequence worth knowing: a device with an unknown MAC that shows the address or
name of a known one is merged into it, and its MAC dropped, in every scan again (the
last sentence of `EveryObservationPlaced`). `NothingForgotten` is about what an
identity has: its id, MAC, host name and addresses. What happens to its confidence is
`ReducedWhenSaid`, in the words of the program's own warnings, and refuted (section 3).

### CommandOptions, Enforcement, CommandLine

`line` is the command line: its loop (`family`), its subcommand and its arguments,
each a word or a word with a value behind an equals sign. `at` arguments of it have
been taken; `loop` is what the loop over them has set so far: `env`, the variables
of the options, `pending`, the option that waits for its value, and `said`, the
options taken, in their order, by which the properties compare the line with what it
does. `ReadArgument` and `RefuseArgument` are one turn of that loop (`Argument`),
`RefuseLoop` and `AcceptArguments` its end; `RefuseUse` is a check after the loop;
`Dispatch` takes the command's handler as the list of calls it makes (`todo`);
`CallSucceeds`, `CallFails` and `CallFailsUnnoticed` take one call, with what it
leaves behind appended to `kept`; `Finished` is the exit. `CommandOptions` has one
table per loop of `main` with the kind of value each option takes; what several
options share is in `Switches` tables. The order of options matters there, for a
window and its days, and for the secrets of the API (`OrderMatters`), and nowhere
else. `Enforcement` has one operator per decision: its refusals in the code's order,
then what is done. A handler's calls that decide are these operators applied to
`env`. A value is a word of a small set, told apart as the parsers do: positive,
zero, too big, not a number. `--window` takes whatever has a dash inside, so
`Timeless` is a window whose ends are no times, and the word of `--now` may be none
either (`NoTime`): no window is active then, and the schedule asks for the end of a
block. Commands without a loop count their arguments (`TooMany`). Whether the router
shows a mapping of a port that was asked for is a free choice (`UpnpCalls`). What a
called component does inside is left to its own module; here it succeeds, fails, or
fails unnoticed where the code ignores the result.

## 3. Runs

| Run | Bounds | Shows |
|---|---|---|
| `ScanSession` | 3 addresses, at most 3 ARP rows, chunks of 2, 2 ports, 1 answer of a query, every refusal, 11 mixes of probes, 8 of them live (the sweep) and 3 mock (the default mix, which is all of them, among these), with and without an SNMP target, stop requests at every point | event order and stage indexes; interleaving of workers: order, completeness, bound; `CancelTakesEffect`, implementation of `ScanLifecycle` with its fairness |
| `StorageCommands` | 1 process, 3 commands, 3 initial files; behaviours without faults, and with crashes and failed opens | without faults the operations implement `StorageStore` and the presence histories, on two networks and on all, outlive retention (`PresenceKept`); with faults, what a cut file still guarantees |
| `StorageOverlap` | 2 processes, 2 commands | expected violation of `SavedSessionsStay` |
| `MonitorLoop` | 2 hosts, 4 cycles, scans and oversleep of 0 to 2 minutes, intervals 0, 1, 2, 5, 500 | events, back-off, wake events, end of the run |
| `WindowScans` | 2 devices, 1 port, 2 gateways, 3 threads, a start by hand and one with all timers | overlapping scans leave the window consistent |
| `WindowTimers` | the same, 2 threads | expected violation of `AutoReportFollowsScan` |
| `AlertLimit` | 2 processes, a limit of 1, times 0, 60, 61, 8 alerts, 2 set-backs or files not opened | each stretch between set-backs overruns the limit by one alert of each process at most |
| `AlertPromise` | 1 process, times 0, 1, 60, 61, 62, 5 alerts | expected violation of `LimitKept` |
| `DeviceMerge` | 3 addresses, 2 MACs, 2 names, calls of 1 or 2 out of 14 observations, 4 observations in all, 2 policies | identities over successive calls |
| `DeviceWarnings` | the same | expected violation of `ReducedWhenSaid` |
| `Commands` | every option alone with every kind of value; every two options of a loop in both orders, with unequal and with agreeing values; every command as it is meant; all choices of the deciding commands; 30 moments, three of them without a time | parsing, refusals, what is applied, what a failure leaves |
| `DryRunPromise` | the actions of the shell | expected violation of `DryRunChangesNothing` |

Why the bounds are enough: three hosts with chunks of two give a full chunk, a short
last chunk and a boundary between them; the queries answer at most once, since
stages do not depend on how many answers there are, and the mixes have every stage
behind every other that may precede it; three commands give any pair of effects
followed by a look at them, on files with and without header and of both schema
versions; four cycles give a third failure, its notice and what follows; three
threads are the least that let a port scan of an older scan end between two newer
results; `MaxQueue` bounds progress closures only, results are always posted; the
times are the edges of the inclusive window of 60 seconds, and eight alerts are more
than the bound of three, of four with a file not opened, of six with one set-back,
and of seven with both; two devices, each seen once, and two more observations in
one call or two show every way in which their identifiers can cross; an option acts
on few variables, so what goes wrong between options shows in a pair of them, and
the deciding commands are enumerated whole. No symmetry is used: every run finishes
in three minutes without it, most in less than one, and it is not sound for
liveness.

**Fairness.** The orchestrator and the workers are ordinary threads and every
probe has a timeout, so `ScanSession` has weak fairness of `Orchestrate` and
`WorkerStep`, none of the caller. The monitor is one thread whose scans return
and whose sleeps end: weak fairness of `Step`. A command that was started runs to
its end: `CommandLine` has weak fairness of `Next`. Storage, window, alerts and
device merge have none and no liveness. `CHECK_DEADLOCK FALSE` stands in the
storage, alert and merge runs, where no further call is made once their bound is
reached, and in the command runs, where the process has exited.

**Findings.** Five runs refute what a document or a name says of the program.

`StorageOverlap`: one process saves a session while another, say
`inventory hide-stale`, has read the file; the second writes back what it read
and the reported session is gone. `storage/README.md:8` calls the file
append-only; `write_lines` (`storage.cpp:150`) truncates and rewrites it.

`WindowTimers`: `--auto-report` is a timer of 38 or 50 seconds
(`qt_gui_main.cpp:1398`), described as "after auto-scan" (line 1355). A longer scan
is not in the report.

`AlertPromise`: `is_retry_safe_rate_limit` (`alert_router_stub.cpp:140`) accepts
while the alerts sent are at most the limit, so one command alone sends
`max_events_per_minute` (`alert_router.h:23`) and one more.

`DryRunPromise`: the catalogue of the shell's actions says `dry_run_supported` of
all of them (`gui_shell.cpp:655`); `run_gui_action` looks at `dry_run` only where a
confirmation is needed (line 787), so a dry run of `monitoring.start` writes the
tray's state, one of `alert.test` is noted as an alert, and one of `speed.run`
measures.

`DeviceWarnings`: an observation of a known identity with a randomised MAC or a
virtual adapter draws the warning "confidence reduced" (`device_merge.cpp:583`, 597);
where the penalty brings the confidence below what it was, lines 602–611 put it back
and add the history bonus, so it rises. `ReducedWhenSaid` takes the warnings as kindly
as they can be read: less than before, or less than without the sign, or the least
there is.

`DeviceMerge` and `Commands` hold, with what they exempt spelled out in the
properties: `SameIdSameToken` names the ids that collide, `CleanFailure` the
commands that leave something behind when they fail, and `AppliedOnlyIfAsked` the
inventory import and the router plugin, which a later `--dry-run` does not stop.

## 4. Proofs

`ScanSessionProofs` proves for all values of the constants (any hosts, ports,
requests of `RequestType`, `MaxConcurrency > 0`, any bounds on rows and
answers; the four named assumptions of `ScanSession` are all that is assumed):

| Theorem | States |
|---|---|
| `TypeCorrect` | `Spec => []TypeOK` |
| `StageIndexBound` | `Spec => []StageIndexInRange` |
| `WorkersJoined` | `Spec => []WorkersBounded` |
| `GaugeIsMonotonic` | `Spec => []GaugeNeverMovesBack` |
| `StagesHaveTheirIndex` | `Spec => []StagesDistinguished` |
| `EventsInOrder` | `Spec => []EventsInsideTheirStage` |
| `ResultsInHostOrder` | `Spec => []ResultsFollowHosts` |
| `CompletedMeansWhole` | `Spec => []CompletedScanIsWhole` |
| `LateWorkBound` | `Spec => []LateWorkBounded` |
| `LifecycleSafety` | `Spec => Lifecycle!SafetySpec` |

None of the invariants is inductive. The argument is a conjunction `Inv` whose
parts say what the position of the orchestrator implies:

* `WorkerInv` – where `done`, `launched` and `chunkEnd` stand to each other at
  each `pc`, and that `ready` lies between `done` and `launched`; without it
  `Collect` could read beyond the hosts, and `TypeOK` would not be preserved.
* `IdxInv` – the stage index never exceeds 2 plus the enabled stages before the
  current one (`StagesBefore`, counted stage by stage in `NextStage`), one more
  once it has been left.
* `LateInv` – how much late work each `pc` can have seen: none before a gate was
  passed with a stop request standing.
* `StatusInv` – `status` is running exactly between `StartSession` and the end, a
  session that halts has been asked to, and nothing has been delivered before ARP
  answered.

Two more invariants stand on top of `Inv`:

* `EventInv`, for what the caller is told. While a stage works its start event is
  there and no end event (`StageOpen`); no index beyond the current one has been
  used, and the current one by this stage alone (`IndexFresh`) unless SNMP
  inherits SSDP's. Every action appends a few events of its own stage, so one
  lemma (`Extends`, `Added`) says what an appended event must satisfy to keep each
  of the three properties.
* `RecordInv`, for the results. `NumInv` counts the results of each probe by where
  the orchestrator is: `done` of them in a chunk loop, all hosts behind it, none
  ahead of it. A result appended is then the next of its probe, which is what
  `ResultsFollowHosts` asks; at `Complete` the counts are those
  `CompletedScanIsWhole` asks. The sweep adds hosts behind those that have results
  already, and `Rank` of these does not change.

Each part has an `Init` lemma and a step lemma with one case per action;
`Invariance` combines them, and the theorems follow with `PTL`.
`LifecycleSafety` maps `delivered` to `Len(results)` and shows each action to be
one of `ScanLifecycle` or a stutter.

`StorageFileProofs` proves for any processes, commands, initial files, number of
calls and pattern of faults, from `CommandsAssumption`, `StoredAssumption` and
`~Overlap`:

| Theorem | States |
|---|---|
| `StorageInv` | `Spec => []IInv` |
| `RecordsStayUnique` | `Spec => []RecordsUnique` |
| `DetailsHaveSessions` | `Spec => []DetailsFollowSession` |
| `HistoryStaysOwned` | `Spec => []HistoryHasWorkspace` |
| `OneWorkspaceActive` | `Spec => []OneActiveWorkspace` |
| `WorkspacesWithinLimit` | `Spec => []WorkspaceLimitKept` |

`~Overlap` is a hypothesis because with two commands at a time the lines of one are
laid over those of another (`Overlay`), and nothing of this holds. The properties
are not inductive one by one: what a call is about to write must be as good as what
is on disk, and a crash may put any prefix of it there. `HistoryHasWorkspace`, for
one, says nothing of a prefix. So `IInv` has `Sound`, which every prefix of a sound
file inherits because it asks of each line what stands before it, of `file`, and
`Placed` of every process: what `out` and `held` are worth at each `pc` (sound lines
to write, a device record to put), that only a save goes on after writing, and that
the file is empty while it is written. `Alone` is `~Overlap` seen from a state. The
operations are lemmas on files: `Embedding` – a file whose records are some of those
of a sound file, in order, each with what it stands behind, is sound – covers edits
in place, dropped lines and cut files; `AppendSound`, `PutSound` and
`WithSessionSound` the calls that add a line. `NextSessionIdFresh` is where ids come
from: the largest id of a sound file exists because it is finite, and the next is
new.

`StorageStoreProofs` proves `StoreImplemented`, `Spec => ImplementsStore`, and
`PresenceHistoryKept`, `Spec => PresenceKept`, from the same three assumptions. The
step of the store is taken by `OpenFile`: from there on `View` is what the call is
about to write, and until then the file. So the invariant `Kept`, on top of `IInv`,
says that what a call carries in `out` is one step of the store away from the file
(`Promises`), which its lemma (`CallTurns`, with one lemma for each group of
operations) shows when the lines are made. Records are a set, and the edits, puts
and appends move it as the store does; that a header or a migration comes with them
(`BehindHeader`) changes nothing but the version. The log is the sequence of the
entries of the file, and what has to be shown of it is that sequences picked out of
two files are the same: `SameLines` does so from an order-preserving correspondence
of the positions, and `PickedTwice` makes dropping lines of the file dropping
entries of the log. `NextSessionIdFresh` gives the session its larger key,
`WorkspacesShown` the room for one more. With faults the abstract state is constant
and nothing is claimed.

`PresenceHistoryKept` rests on the store, not on the file: the log moves by an entry
added or by entries that expire (`LogMoves`), and its events keep having times
(`LogDated`, the invariant it needs besides `IInv` and `Kept`). What expires of a
network is older than every join and leave of it that stays (`RetentionTells`): so
in the history of that network a device that keeps an event keeps its latest, and
nothing is missing between a join and a leave that stay; a history of another
network does not change. In the history of all networks that holds, too, unless an
event stays that is no younger than one of another network that went: `Turned`, the
exception of the property. A sequence never has to be read in order, as the history
is a matter of the times in the events (`SameSightings`).

`MonitorProofs` proves for any finite set of hosts, requests and bounds:

| Theorem | States |
|---|---|
| `EventsAccountForHosts` | `Spec => []EventsTellHosts` |
| `NoticesCountFailures` | `Spec => []NoticeEveryThirdFailure` |
| `WakesTellLateness` | `Spec => []WakeMeansLate` |
| `FailuresNeverHasten` | `Spec => BackoffSlowsDown` |

`FailureInv` gives the two failure counters one remainder by three while a third
failure waits for the end of its cycle. `IntervalInv` says that the interval in use
was computed from some part of the present row of failures, so that `Backoff`, shown
monotonic up to the cap, can only lengthen it. `DelayInv` and `WakeInv` tie cycles,
delays and wake events: cycle n+1 prints one exactly if delay n is beyond the
tolerance, and later events name later cycles. A completed scan appends the events
of `HostEvents`, an enumeration of two disjoint finite sets; one lemma says what
reading them does to `KnownLive`.

`ScannerWindowProofs` proves for any hosts, ports, threads and launches:

| Theorem | States |
|---|---|
| `PortsAgree` | `Spec => []RowsAndDevicesAgree` |
| `FindingsOfThisScan` | `Spec => []FindingsCurrent` |
| `SelectionOnShow` | `Spec => []SelectionShown` |
| `StatusLineSettles` | `Spec => []StatusSettles` |

The argument is about the queue. `DataInv`: what is on show agrees with itself, and
so does the result in every closure that waits, with the gateway it brings; so it
does not matter in which order closures run. `StatusInv`: behind every progress
closure a scan still runs or its result waits, and a status line under way has a
thread or a waiting result. Without the second part `StatusSettles` is not
inductive: a progress closure run last would leave the line under way.

`AlertRouterProofs` proves `OverrunBound`, `Spec => []OverrunBounded`, for any
finite set of processes, any limit, any readings of the clock, and any number of
set-backs and failures. `OverrunBounded` is not inductive, for two reasons. It says
nothing of the processes that have read the file and not written yet; and its sum
over the stretches between set-backs does not say which of them still has room. So
`Budget` says for every minute and every `k`: the regular alerts whose time was taken
in the stretches up to the `k`-th, and the processes that may still send one
(`Waiting`), are together at most `k + 1` limits, where a limit is `MaxPerMinute` and
the number of processes. A process that takes the time in the `k`-th stretch sees
every written alert of that stretch and minute, since none of them lies in the future
(`Past`); so either it will be refused, or the stretch has spent at most
`MaxPerMinute` and the rest is waiting, and the stretches before have their own `k`
limits (`Earlier`). Sending moves a process from one count to the other, and for the
others the count of recent alerts only grows (`SendLoad`). A set-back begins a stretch
in which nothing was taken yet. `Lapses` counts what is not regular: an alert that was
not written, or whose process could not read, has cost a failure, and a process that
could not read has cost one already.

`DeviceMergeProofs` proves for any identifiers, policies and observations:

| Theorem | States |
|---|---|
| `SharedMac` | `Spec => []SharedMacWasRepeated` |
| `ObservationsPlaced` | `Spec => []EveryObservationPlaced` |
| `Remembered` | `Spec => NothingForgotten` |
| `IdsTellApart` | `Spec => []SameIdSameToken` |
| `ChangesTellDevices` | `Spec => []ChangesReplay` |

The first is not inductive, since the map of MACs is not kept up to date. `MacMap`
says that its entries are right, and `Fresh` that a MAC which is still to come in
this call, once, and has no entry, is nobody's: then a MAC given in `AddDevice` or
`UpdateDevice` was nobody's or is repeated. `PlacedSoFar` is the second property for
the observations already taken; later ones cannot disturb it, because nothing is
forgotten and because a MAC that is reported once is given once.

`IdsTellApart` rests on three facts: the id of an identity is made of something the
identity still has (`KeysKept`), and while a call runs the maps of names and
addresses have an entry for every name and address of the list (`NamesKnown`,
`AddressesKnown`), although not always the right one. So an observation that matches
nothing brings a name and an address that are nobody's, and an id made of them is
new; one made of a MAC is new or of a repeated MAC, by `Fresh`. `ChangesTellDevices`
needs `ReplayInv`: what was there before, with what was added, lists the identities
in their order, and no update is of an identity that is not among them.

`CommandLineProofs` proves of the decisions, for every request, what `Commands`
enumerates for some: `ControlApplies`, `DowntimeApplies`, `UpnpApplies`,
`PluginApplies` and `LimitApplies` list what must have been said before anything is
applied; each follows the decision's refusals in their order, and the lemma
`Outcomes` tells the outcomes apart. `WindowsDivideDay` says that every hour is in
exactly one of a window and the window back; `QuotaStatesInOrder` and
`WarningBelowQuota` that more use never makes a quota's state milder and that its
warning comes before it. They assume nothing but the types of times and amounts.

It then proves of a run, for command lines of any length and any moments, from
`LinesAssumption` (the line names a loop, one of its subcommands and any words) and
`MomentsAssumption` (a time is one of 24 hours or cannot be read):

| Theorem | States |
|---|---|
| `RefusalsTouchNothing` | `Spec => []RefusalTouchesNothing` |
| `FailuresClean` | `Spec => []CleanFailure` |
| `AppliedOnlyWhenAsked` | `Spec => []AppliedOnlyIfAsked` |
| `LiveRunsChangeNothing` | `Spec => []LiveChangesNothing` |
| `BlockedOnlyInWindow` | `Spec => []BlocksOnlyInWindow` |
| `QuotaAlwaysWarnsFirst` | `Spec => []QuotaWarnsFirst` |
| `OptionsAlwaysCommute` | `Spec => []OptionsCommute` |

Three invariants carry them. `RunInv` is about the calls. The properties speak of what
has been left behind and of the exit code; it speaks of the calls to come as well:
there are `Grounds` for each of them that leaves something, a call that refuses the
command is the first of its handler and nothing has been left yet (`RefusalAhead`),
and outside the excused commands nothing but history comes before a call that may
fail (`FailureAhead`). That every handler's list of calls is of this kind is
`CallsProper`, with one lemma for each handler that decides something; taking a call
off such a list keeps it so.

`LoopInv` is about the arguments: what the loop has set is what the line said
(`Faithful`). If `dry_run` is off, `--apply` stands behind the last `--dry-run`; a
confirmation in `env` has been said; windows and quotas are words their kinds
accept. Each option either sets the variable of its own name or is one of
`Switches`; `SecurityNames` and `BandwidthNames` read off the tables that no option
is called `dry_run`, nor `plugin_dry_run` or `confirm` in the bandwidth loop, so
that `--apply` and `--dry-run` alone decide `dry_run`, and likewise the others. The
grounds of a call are in terms of `env`, and `LoopInv` turns them into words of the
line. `BlockedOnlyInWindow` needs besides that walking the hours of a window is
comparing with its ends (`WindowsAreWalked`).

`PairInv` is about the order of arguments. Whatever the length of the line, only its
first two options matter to `OptionsCommute`, so no induction over the line is
needed: `Reading` says, of the number of arguments taken and of what is set, whether
the loop is before the first option or in it, before the second or in it, or behind
it, and `TakeAtFits` that the loop takes an option that fits in any state the same
way. What is left is a fact about two options, `PairsCommute`. Apart from profiles,
and a window after its days, each option lays a table of its own (`Part`) over what
is set, and two tables can be exchanged exactly when they agree where they meet
(`Exchange`). `Disagree` computes where that is not so: among the switches from
their tables; a switch and another option never meet, because in none of the
thirty-six loops has an option that is no switch the name of a variable that a
switch sets (`HiddenNames`, read off the tables, and `SwitchVariables`); and
otherwise only a secret of the API and that of the request do. A profile
(`ProfileCommutes`) fills in what is not a number, and the options it fills in take
nothing but numbers (`PresetNumbers`). That `OrderMatters` stands on one side of an
equivalence makes it an exact list: an option left out of it, or put in too much,
would refute the theorem.

Only model-checked is liveness (`CancelTakesEffect`, the fairness half of
`ImplementsLifecycle`, `LimitReached`), which the prover does not do.

## 5. Plan

In order of importance; each step adds its module, runs and faults.

1. *Done*: orchestrator, storage file, monitor, window, the limit of alerts, the
   command line with its decisions, device merge.
2. Proofs. *Done*: the events and results of a scan, storage with one command at a
   time and as an implementation of its store, the presence histories, the monitor,
   the window, the ids and the changes of the device merge, the limit of alerts over
   any number of overlaps and clock changes, what a command line may change, refuse
   and leave, and which of its options may not change places.
3. The bounded history files (outage, speed test, diagnostics) and the tray's state
   file: an append and a prune that another command comes between.
4. Presence rules: notifications, quiet hours and the filters of the history.
5. Composition of monitor, orchestrator and storage.

## 6. Not modelled

* Socket code, packet parsing, the probes and their rate limiter: the operating
  system's part, of which every outcome is a free choice in `ScanSession`.
* `resolve_hostname_for_ip` and its cache: nothing in the repository calls it. The
  NetBIOS cache: it is filled in one sequential loop of one process that is in mock
  mode throughout or not at all, so what it could mix up is never in it together.
* The bounded history files and the text file of the tray's state: `CommandLine`
  has their calls, their failures and what these leave behind, not their lines.
* Counter parsers, scoring tables, vendor lookup, the REST guard: pure functions of
  one input, where a table of cases tells as much as a model.
* Reports, installer and hardening checklists, help texts: formatting.
* Of the window: settings, the DHCP and DNS pages and the text of reports.
