---------------------------- MODULE ScanSession ----------------------------
(***************************************************************************)
(* One call of run_scan_session (src/src/engine_cpp/src/scan_contract.cpp) *)
(* together with the threads it starts and the caller that may ask it to   *)
(* stop.  The orchestrating thread walks through the stages                *)
(*   arp, icmp, tcp, netbios, mdns, ssdp, snmp;                            *)
(* icmp and tcp probe their hosts in chunks of max_concurrency std::async  *)
(* workers, which finish in any order while the orchestrator collects      *)
(* their futures in host order.  The cancellation object is read by        *)
(* reference, so another thread, or the progress callback, may set it      *)
(* between any two steps; the orchestrator looks at it only at the halt    *)
(* checks (should_halt).                                                   *)
(***************************************************************************)
EXTENDS Naturals, Sequences, FiniteSets, SequencesExt

CONSTANTS
    Hosts,           \* the addresses a scope can hold
    Ports,           \* tcp_ports_for_profile: the ports tried on each host, in order
    Requests,        \* the scan requests considered
    MaxConcurrency,  \* options.max_concurrency, also the size of a chunk
    MaxHosts,        \* max_host_count: most rows an ARP table read returns
    MaxServices,     \* most answers of an mDNS, SSDP or SNMP query
    NoTarget         \* stands for the target of such an answer

VARIABLES
    request,         \* the profile, dependencies and options of this call
    cancel, pause,   \* the ScanCancellation object
    stage, pc,       \* where the orchestrator is
    idx,             \* stage_index
    arp,             \* arp_entries, as the sequence of their addresses
    hosts,           \* icmp_hosts, as the sequence of their addresses
    chunkEnd,        \* end of the chunk in progress
    launched,        \* hosts of this stage whose probe has been started
    ready,           \* started probes whose future holds a value
    done,            \* hosts of this stage whose results are recorded
    results,         \* session.probe_results
    events,          \* what on_progress has been called with
    status,          \* session.status_text, or how the call was refused
    late             \* history: probe work begun while a stop request stood

control  == <<request, stage, pc, idx, status>>
workers  == <<chunkEnd, launched, ready, done>>
asked    == <<cancel, pause>>
vars == <<control, workers, asked, arp, hosts, results, events, late>>

-----------------------------------------------------------------------------
(* The request: which stages will run.                                     *)

Probes == {"arp", "icmp", "tcp", "netbios", "mdns", "ssdp", "snmp"}
Queries == {"mdns", "ssdp", "snmp"}

RequestType ==
    [optionsOk : BOOLEAN,      \* max_qps, max_concurrency and jitter are valid
     scopeOk : BOOLEAN,        \* validate_scope
     adaptersOk : BOOLEAN,     \* enumerate_adapters
     probes : SUBSET Probes,   \* options.enabled_probes; none: the default mix
     snmpTarget : BOOLEAN,     \* snmp_target and snmp_community are not empty
     mock : BOOLEAN]           \* options.mock_mode

ASSUME RequestsAssumption == Requests \subseteq RequestType
ASSUME ConcurrencyAssumption == MaxConcurrency \in Nat \ {0}
ASSUME BoundsAssumption == MaxHosts \in Nat /\ MaxServices \in Nat
ASSUME PortsAssumption == Ports \in Seq(Nat \ {0})

Enabled(r, p) ==
    /\ r.probes = {} \/ p \in r.probes
    /\ p = "snmp" => r.snmpTarget

\* Fault: an empty set of probes is not taken as the default mix.
OneIfListed(r, p) == IF p \in r.probes THEN 1 ELSE 0

One(r, p) == IF Enabled(r, p) THEN 1 ELSE 0

\* How many enabled stages come before a stage, and how many there are.
StagesBefore(r, s) ==
    (IF s \in Probes \ {"arp"} THEN One(r, "arp") ELSE 0)
  + (IF s \in Probes \ {"arp", "icmp"} THEN One(r, "icmp") ELSE 0)
  + (IF s \in {"netbios"} \cup Queries THEN One(r, "tcp") ELSE 0)
  + (IF s \in Queries THEN One(r, "netbios") ELSE 0)
  + (IF s \in {"ssdp", "snmp"} THEN One(r, "mdns") ELSE 0)
  + (IF s = "snmp" THEN One(r, "ssdp") ELSE 0)

\* Fault: the adapter check is not counted.
ProbeStages(r) == StagesBefore(r, "snmp") + One(r, "snmp")

StageTotal(r) == 1 + StagesBefore(r, "snmp") + One(r, "snmp")

\* The stage after s in the order run_scan_session runs them.
Succ(s) ==
    IF s = "arp" THEN "icmp"
    ELSE IF s = "icmp" THEN "tcp"
    ELSE IF s = "tcp" THEN "netbios"
    ELSE IF s = "netbios" THEN "mdns"
    ELSE IF s = "mdns" THEN "ssdp" ELSE "snmp"

-----------------------------------------------------------------------------
(* Results and progress events.                                            *)

Result == [probe : Probes \cup {"icmp-sweep"},
           target : Hosts \cup {NoTarget}, port : Nat]

Event == [kind : {"started", "stage_started", "host_result", "stage_complete",
                  "completed", "cancelled", "paused", "failed"},
          stage : Probes \cup {"orchestration", "adapter_check"}, index : Nat]

R(p, h) == [probe |-> p, target |-> h, port |-> 0]
PortResults(h) ==
    [i \in 1..Len(Ports) |-> [probe |-> "tcp", target |-> h, port |-> Ports[i]]]
RowResults(p, s) == [i \in 1..Len(s) |-> R(p, s[i])]
\* Fault: probe and target are swapped.
SwappedAnswers(p, n) == [i \in 1..n |-> R(NoTarget, p)]

Answers(p, n) == [i \in 1..n |-> R(p, NoTarget)]

E(k, s, i) == [kind |-> k, stage |-> s, index |-> i]
\* Fault: host results are numbered after their stage.
EventsOfNextStage(s, n) == [i \in 1..n |-> E("host_result", s, idx + 1)]

HostEvents(s, n) == [i \in 1..n |-> E("host_result", s, idx)]

Emit(e) == events' = Append(events, e)

ShouldHalt == cancel \/ pause

\* One more unit of probe work begins.
Begin == late' = IF ShouldHalt THEN late + 1 ELSE late

-----------------------------------------------------------------------------
(* The caller.                                                             *)

RequestCancel ==
    /\ ~cancel
    /\ cancel' = TRUE
    /\ UNCHANGED <<control, workers, pause, arp, hosts, results, events, late>>

RequestPause ==
    /\ ~pause
    /\ pause' = TRUE
    /\ UNCHANGED <<control, workers, cancel, arp, hosts, results, events, late>>

-----------------------------------------------------------------------------
(* Checks before the session exists.  A refused call emits no event.       *)

\* Fault: a stop request made before the call is not looked at.
AcceptableOptions ==
    request.optionsOk /\ request.scopeOk /\ request.adaptersOk /\ Enabled(request, "arp")

Acceptable ==
    /\ request.optionsOk
    /\ ~ShouldHalt
    /\ request.scopeOk
    /\ request.adaptersOk
    /\ Enabled(request, "arp")

Refuse ==
    /\ pc = "validate"
    /\ ~Acceptable
    /\ pc' = "ended"
    /\ status' = "rejected"
    /\ UNCHANGED <<request, stage, idx, workers, asked, arp, hosts, results, events, late>>

StartSession ==
    /\ pc = "validate"
    /\ Acceptable
    /\ events' = <<E("started", "orchestration", 1),
                   E("stage_started", "adapter_check", 1),
                   E("stage_complete", "adapter_check", 1)>>
    /\ idx' = 2
    /\ status' = "running"
    /\ pc' = "begin"
    /\ UNCHANGED <<request, stage, workers, asked, arp, hosts, results, late>>

-----------------------------------------------------------------------------
(* Moving between stages.                                                  *)

\* Fault: no halt check between stages.
LeaveUnchecked(ran) ==
    IF stage = "snmp" THEN pc' = "gate" /\ stage' = stage
    ELSE pc' = "begin" /\ stage' = Succ(stage)

\* should_halt follows arp, icmp, tcp and snmp whether or not they ran, and
\* netbios only if it ran; nothing is checked between mdns, ssdp and snmp.
Leave(ran) ==
    IF stage \in {"arp", "icmp", "tcp", "snmp"} \/ (stage = "netbios" /\ ran)
    THEN pc' = "gate" /\ stage' = stage
    ELSE pc' = "begin" /\ stage' = Succ(stage)

BeginStage ==
    /\ pc = "begin"
    /\ Enabled(request, stage)
    /\ Emit(E("stage_started", stage, idx))
    /\ \/ stage \in {"icmp", "tcp"} /\ pc' = "chunk"
       \/ stage = "netbios" /\ pc' = "resolve"
       \/ stage \in {"arp"} \cup Queries /\ pc' = "query"
    /\ launched' = 0 /\ done' = 0
    /\ UNCHANGED <<request, stage, idx, status, chunkEnd, ready, asked, arp,
                   hosts, results, late>>

\* Without ICMP every ARP row becomes a host that has not been pinged.
SkipStage ==
    /\ pc = "begin"
    /\ ~Enabled(request, stage)
    /\ hosts' = IF stage = "icmp" THEN arp ELSE hosts
    /\ Leave(FALSE)
    /\ UNCHANGED <<request, idx, status, workers, asked, arp, results, events, late>>

FinishStage ==
    /\ pc = "finish"
    /\ Emit(E("stage_complete", stage, idx))
    /\ idx' = idx + 1
    /\ Leave(TRUE)
    /\ UNCHANGED <<request, status, workers, asked, arp, hosts, results, late>>

\* Fault: a pause request hides a cancel request.
PausedFirst == IF pause THEN "paused" ELSE "cancelled"

HaltStatus == IF cancel THEN "cancelled" ELSE "paused"

\* should_halt finds a request.  What it does about it comes after: a second
\* request may still arrive in between.
MustHalt ==
    /\ ShouldHalt
    /\ pc' = "halt"
    /\ UNCHANGED <<request, stage, idx, status, workers, asked, arp, hosts, results,
                   events, late>>

HaltAtGate == pc = "gate" /\ MustHalt

\* The second look: which of the two requests it is.  The callback and the
\* return that follow change nothing of the session any more.
Halt ==
    /\ pc = "halt"
    /\ status' = HaltStatus
    /\ Emit(E(status', "orchestration", 0))
    /\ pc' = "ended"
    /\ UNCHANGED <<request, stage, idx, workers, asked, arp, hosts, results, late>>

PassGate ==
    /\ pc = "gate"
    /\ ~ShouldHalt
    /\ stage # "snmp"
    /\ stage' = Succ(stage)
    /\ pc' = "begin"
    /\ UNCHANGED <<request, idx, status, workers, asked, arp, hosts, results,
                   events, late>>

\* The last look before the session is completed: no later request counts.
PassLastGate ==
    /\ pc = "gate"
    /\ ~ShouldHalt
    /\ stage = "snmp"
    /\ pc' = "complete"
    /\ UNCHANGED <<request, stage, idx, status, workers, asked, arp, hosts, results,
                   events, late>>

Complete ==
    /\ pc = "complete"
    /\ status' = "completed"
    /\ Emit(E("completed", "orchestration", StageTotal(request)))
    /\ pc' = "ended"
    /\ UNCHANGED <<request, stage, idx, workers, asked, arp, hosts, results, late>>

-----------------------------------------------------------------------------
(* ARP: one table read for the whole scope; its failure ends the session.  *)

ArpFail ==
    /\ pc = "query" /\ stage = "arp"
    /\ status' = "failed"
    /\ Emit(E("failed", "arp", idx))
    /\ pc' = "ended"
    /\ Begin
    /\ UNCHANGED <<request, stage, idx, workers, asked, arp, hosts, results>>

\* Two interfaces may report the same address: rows are not unique.
ArpRows(rows) ==
    /\ pc = "query" /\ stage = "arp"
    /\ arp' = rows
    /\ results' = results \o RowResults("arp", rows)
    /\ events' = events \o HostEvents("arp", Len(rows))
    /\ pc' = "finish"
    /\ Begin
    /\ UNCHANGED <<request, stage, idx, status, workers, asked, hosts>>

-----------------------------------------------------------------------------
(* ICMP and TCP: chunks of workers.                                        *)

\* Fault: the hosts the sweep found are not tried.
ArpTargets == arp

Targets == IF stage = "icmp" THEN arp ELSE hosts

HaltAtChunk == pc = "chunk" /\ done < Len(Targets) /\ MustHalt

\* Fault: a chunk of one host too many.
ChunkLimitInclusive ==
    IF done + MaxConcurrency < Len(Targets)
    THEN done + MaxConcurrency + 1 ELSE Len(Targets)

ChunkLimit ==
    IF done + MaxConcurrency < Len(Targets) THEN done + MaxConcurrency ELSE Len(Targets)

BeginChunk ==
    /\ pc = "chunk"
    /\ done < Len(Targets)
    /\ ~ShouldHalt
    /\ chunkEnd' = ChunkLimit
    /\ pc' = "launch"
    /\ UNCHANGED <<request, stage, idx, status, launched, ready, done, asked,
                   arp, hosts, results, events, late>>

Launch ==
    /\ pc = "launch"
    /\ launched' = launched + 1
    /\ pc' = IF launched' = chunkEnd THEN "collect" ELSE "launch"
    /\ Begin
    /\ UNCHANGED <<request, stage, idx, status, chunkEnd, ready, done, asked,
                   arp, hosts, results, events>>

\* A worker's probe answers, times out or fails: its future holds a value.
WorkerReady(i) ==
    /\ i \in (done + 1)..launched /\ i \notin ready
    /\ ready' = ready \cup {i}
    /\ UNCHANGED <<control, chunkEnd, launched, done, asked, arp, hosts,
                   results, events, late>>

\* Fault: results are taken from whichever worker is ready.
CollectAnyReady ==
    /\ pc = "collect"
    /\ \E i \in ready :
         LET h == Targets[i] IN
           /\ ready' = ready \ {i}
           /\ IF stage = "icmp"
              THEN hosts' = Append(hosts, h) /\ results' = Append(results, R("icmp", h))
              ELSE hosts' = hosts /\ results' = results \o PortResults(h)
    /\ done' = done + 1
    /\ Emit(E("host_result", stage, idx))
    /\ pc' = IF done' = chunkEnd THEN "chunk" ELSE "collect"
    /\ UNCHANGED <<request, stage, idx, status, chunkEnd, launched, asked, arp, late>>

\* f.get(): wait for the next worker of the chunk, in host order.
Collect ==
    /\ pc = "collect"
    /\ done + 1 \in ready
    /\ ready' = ready \ {done + 1}
    /\ done' = done + 1
    /\ LET h == Targets[done + 1] IN
         IF stage = "icmp"
         THEN hosts' = Append(hosts, h) /\ results' = Append(results, R("icmp", h))
         ELSE hosts' = hosts /\ results' = results \o PortResults(h)
    /\ Emit(E("host_result", stage, idx))
    /\ pc' = IF done' = chunkEnd THEN "chunk" ELSE "collect"
    /\ UNCHANGED <<request, stage, idx, status, chunkEnd, launched, asked, arp, late>>

\* All chunks are done.  A live ICMP stage goes on to sweep the whole scope,
\* announced by a second stage_started.
EndChunks ==
    /\ pc = "chunk"
    /\ done = Len(Targets)
    /\ IF stage = "icmp" /\ ~request.mock
       THEN pc' = "sweep" /\ Emit(E("stage_started", stage, idx))
       ELSE pc' = "finish" /\ UNCHANGED events
    /\ UNCHANGED <<request, stage, idx, status, workers, asked, arp, hosts, results, late>>

\* discover_icmp_hosts: the hosts that answered and were not known are added,
\* each once; a failed sweep leaves one message.
Sweep(fresh) ==
    /\ pc = "sweep"
    /\ hosts' = hosts \o fresh
    /\ results' = results \o RowResults("icmp-sweep", fresh)
    /\ events' = events \o HostEvents("icmp", Len(fresh))
    /\ pc' = "finish"
    /\ Begin
    /\ UNCHANGED <<request, stage, idx, status, workers, asked, arp>>

SweepFail ==
    /\ pc = "sweep"
    /\ Emit(E("host_result", "icmp", idx))
    /\ pc' = "finish"
    /\ Begin
    /\ UNCHANGED <<request, stage, idx, status, workers, asked, arp, hosts, results>>

-----------------------------------------------------------------------------
(* NetBIOS: the ARP rows one after the other; an error is a result too.    *)

Resolve ==
    /\ pc = "resolve"
    /\ done < Len(arp)
    /\ done' = done + 1
    /\ results' = Append(results, R("netbios", arp[done + 1]))
    /\ Emit(E("host_result", stage, idx))
    /\ Begin
    /\ UNCHANGED <<control, chunkEnd, launched, ready, asked, arp, hosts>>

EndResolve ==
    /\ pc = "resolve"
    /\ done = Len(arp)
    /\ pc' = "finish"
    /\ UNCHANGED <<request, stage, idx, status, workers, asked, arp, hosts,
                   results, events, late>>

-----------------------------------------------------------------------------
(* mDNS, SSDP, SNMP: one query each.                                       *)

QueryAnswered(n) ==
    /\ pc = "query" /\ stage \in Queries
    /\ results' = results \o Answers(stage, n)
    /\ events' = events \o HostEvents(stage, n)
    /\ pc' = "finish"
    /\ Begin
    /\ UNCHANGED <<request, stage, idx, status, workers, asked, arp, hosts>>

\* Fault: a failed mDNS query does not count its stage either.
NotCounted == idx

\* Of the failed queries only mDNS still counts its stage.
AfterFailure == IF stage = "mdns" THEN idx + 1 ELSE idx

\* A failed query is reported and the session goes on.
QueryFail ==
    /\ pc = "query" /\ stage \in Queries
    /\ Emit(E("failed", stage, idx))
    /\ idx' = AfterFailure
    /\ Leave(TRUE)
    /\ Begin
    /\ UNCHANGED <<request, status, workers, asked, arp, hosts, results>>

-----------------------------------------------------------------------------
Init ==
    /\ request \in Requests
    /\ cancel = FALSE /\ pause = FALSE
    /\ stage = "arp" /\ pc = "validate"
    /\ idx = 1
    /\ arp = <<>> /\ hosts = <<>>
    /\ chunkEnd = 0 /\ launched = 0 /\ ready = {} /\ done = 0
    /\ results = <<>> /\ events = <<>>
    /\ status = "none"
    /\ late = 0

Orchestrate ==
    \/ Refuse \/ StartSession
    \/ BeginStage \/ SkipStage \/ FinishStage
    \/ HaltAtGate \/ Halt \/ PassGate \/ PassLastGate \/ Complete
    \/ ArpFail
    \/ \E rows \in SeqOf(Hosts, MaxHosts) : ArpRows(rows)
    \/ HaltAtChunk \/ BeginChunk \/ Launch \/ Collect \/ EndChunks
    \/ \E fresh \in SeqOf(Hosts \ ToSet(hosts), MaxHosts) :
            IsInjective(fresh) /\ Sweep(fresh)
    \/ SweepFail
    \/ Resolve \/ EndResolve
    \/ \E n \in 0..MaxServices : QueryAnswered(n)
    \/ QueryFail

WorkerStep == \E i \in 1..launched : WorkerReady(i)

Caller == RequestCancel \/ RequestPause

\* The outcome is set; the last callback and the return of the call follow.
Returned == pc = "ended" /\ UNCHANGED vars

Next == Orchestrate \/ WorkerStep \/ Caller \/ Returned

\* The orchestrator is an ordinary thread and every probe has a timeout, so
\* both keep going; no caller has to ask for anything.
Fairness == WF_vars(Orchestrate) /\ WF_vars(WorkerStep)

Spec == Init /\ [][Next]_vars /\ Fairness

-----------------------------------------------------------------------------
(* Properties.                                                             *)

\* Every variable of the session has its type; in particular the results and
\* the events of run_scan_session only ever name known probes and stages.
TypeOK ==
    /\ request \in RequestType
    /\ cancel \in BOOLEAN /\ pause \in BOOLEAN
    /\ stage \in Probes
    /\ pc \in {"validate", "begin", "query", "chunk", "launch", "collect",
               "sweep", "resolve", "finish", "gate", "halt", "complete", "ended"}
    /\ idx \in Nat /\ late \in Nat
    /\ arp \in Seq(Hosts) /\ hosts \in Seq(Hosts)
    /\ chunkEnd \in Nat /\ launched \in Nat /\ done \in Nat
    /\ ready \subseteq Nat
    /\ results \in Seq(Result) /\ events \in Seq(Event)
    /\ status \in {"none", "running", "completed", "cancelled", "paused",
                   "failed", "rejected"}

\* No progress event claims a stage beyond the announced total: the gauge of
\* the window, 100 * stage_index / stage_total, stays a percentage.
StageIndexInRange ==
    \A n \in 1..Len(events) : events[n].index <= StageTotal(request)

\* The gauge never moves back while the session goes on, although two
\* stages may fail and not all of them count themselves.
GaugeNeverMovesBack ==
    \A m, n \in 1..Len(events) :
        m < n /\ events[n].kind \notin {"cancelled", "paused"}
            => events[m].index <= events[n].index

\* Two stages announce themselves under the same index only if the earlier
\* of them is an SSDP query that failed.
StagesDistinguished ==
    \A m, n \in 1..Len(events) :
        /\ m < n
        /\ events[m].kind = "stage_started" /\ events[n].kind = "stage_started"
        /\ events[m].stage # events[n].stage
        /\ events[m].index = events[n].index
        => /\ events[m].stage = "ssdp" /\ events[n].stage = "snmp"
           /\ \E k \in m..n : events[k] = E("failed", "ssdp", events[m].index)

\* A host result, a completion and a stage failure are reported only between
\* the start of that stage and its end: no event of a stage is seen after it
\* was closed, or inside another one.
EventsInsideTheirStage ==
    \A n \in 1..Len(events) :
        events[n].kind \in {"host_result", "stage_complete", "failed"} =>
            \E m \in 1..(n - 1) :
                /\ events[m] = E("stage_started", events[n].stage, events[n].index)
                /\ \A k \in (m + 1)..(n - 1) :
                        events[k].kind \in {"host_result", "stage_started"}
                        /\ events[k].stage = events[n].stage

\* Where the results of a probe are, and the place of a result among them.
Recorded(p) == {i \in DOMAIN results : results[i].probe = p}
Rank(i) == Cardinality({j \in Recorded(results[i].probe) : j <= i})

\* Whatever order the workers finish in, the results of each stage are
\* recorded in host order, none of them twice: the n-th ARP, ICMP or NetBIOS
\* result is that of the n-th ARP row, the n-th result of the sweep that of
\* the n-th host behind them, and the ports of a host follow those of the
\* host before it.
ResultsFollowHosts ==
    \A i \in DOMAIN results :
        LET r == results[i]  n == Rank(i) IN
        /\ r.probe \in {"arp", "icmp", "netbios"} => n \in DOMAIN arp /\ r.target = arp[n]
        /\ r.probe = "icmp-sweep" =>
              Len(arp) + n \in DOMAIN hosts /\ r.target = hosts[Len(arp) + n]
        /\ r.probe = "tcp" =>
              \E h \in DOMAIN hosts, q \in DOMAIN Ports :
                  n = (h - 1) * Len(Ports) + q /\ r = PortResults(hosts[h])[q]

\* A session that says "completed" has tried every ARP row in each enabled
\* stage, every port of every host including those of the sweep, and knows
\* no host it has no ARP, ping or sweep result for.
CompletedScanIsWhole ==
    status = "completed" =>
        /\ Cardinality(Recorded("arp")) = Len(arp)
        /\ \A i \in DOMAIN arp : hosts[i] = arp[i]
        /\ Len(hosts) = Len(arp) + Cardinality(Recorded("icmp-sweep"))
        /\ Enabled(request, "icmp") => Cardinality(Recorded("icmp")) = Len(arp)
        /\ Enabled(request, "tcp") => Cardinality(Recorded("tcp")) = Len(hosts) * Len(Ports)
        /\ Enabled(request, "netbios") => Cardinality(Recorded("netbios")) = Len(arp)

\* At most max_concurrency workers exist at a time, and none outlives its
\* chunk: when the orchestrator checks for a stop request or returns, every
\* probe it started has been recorded.
WorkersBounded ==
    /\ launched - done <= MaxConcurrency
    /\ pc \in {"chunk", "sweep", "finish", "gate", "halt", "ended"} /\ stage \in {"icmp", "tcp"}
            => launched = done /\ ready = {}

\* After a stop request little more work begins: the rest of a chunk and the
\* sweep, or the NetBIOS loop over all ARP rows, or the three last queries.
LateWorkBounded ==
    late <= MaxConcurrency + 1 \/ late <= Len(arp) \/ late <= 3

\* A cancel request decides the outcome if it is there when run_scan_session
\* last looks: also one that follows a pause request the session is already
\* stopping for.  After the last halt check, or in the callback that reports
\* the outcome, a request is lost and the call says "completed" or "paused".
CancelTakesEffect ==
    (cancel /\ pc \notin {"complete", "ended"}) ~> status \in {"cancelled", "failed", "rejected"}

\* The session behaves as ScanLifecycle promises, and always ends.  What the
\* caller is promised is decided at the last halt check.
Outcome == IF pc = "complete" THEN "completed" ELSE status
Lifecycle == INSTANCE ScanLifecycle WITH delivered <- Len(results), status <- Outcome
ImplementsLifecycle == Lifecycle!Spec
=============================================================================
