------------------------------ MODULE Monitor ------------------------------
(***************************************************************************)
(* The monitor command (print_monitor_command in src/src/app/main.cpp):    *)
(* one thread that scans, reports which hosts came and went, and sleeps,   *)
(* longer after failures.  A scan is a call of run_scan_session that       *)
(* nobody asks to stop, so by ScanSession it completes or fails.           *)
(* Time is counted in minutes since the cycle in progress began.           *)
(***************************************************************************)
EXTENDS Naturals, Sequences, FiniteSets, SequencesExt

CONSTANTS
    Hosts,         \* the addresses that may answer
    Requests,      \* the command lines considered
    MaxScanTime,   \* bound: minutes a scan may take
    MaxOversleep,  \* bound: minutes by which a sleep may be exceeded
    MaxCycles      \* bound: cycles of a continuous monitor

VARIABLES
    request,       \* interval and limits asked for
    pc,            \* where the loop is
    cycle,         \* cycle_index
    clock,         \* minutes since cycle_start
    interval,      \* current_interval_minutes
    waited,        \* expected_next_run has a value
    consecutive,   \* consecutive_failures
    schedule,      \* schedule_failures
    prior,         \* prior_live_hosts
    events,        \* the events printed
    delays         \* history: of each cycle that slept, the time over its interval

counters == <<consecutive, schedule, prior>>
vars == <<request, pc, cycle, clock, interval, waited, counters, events, delays>>

RequestType ==
    [base : Nat,             \* --interval, 0 for no delay
     maxRuns : Nat,          \* --max-runs
     continuous : BOOLEAN,
     skip : BOOLEAN]         \* the network is metered and that is not allowed

ASSUME HostsAssumption == IsFiniteSet(Hosts) /\ "none" \notin Hosts
ASSUME RequestsAssumption == Requests \subseteq RequestType
ASSUME TimesAssumption == MaxScanTime \in Nat /\ MaxOversleep \in Nat

Tolerance == 1
Cap == 480
Least(m, n) == IF m <= n THEN m ELSE n

\* Fault: the intervals meant for no delay are used for all.
NoDelayBackoff(base, failures) == IF failures = 0 THEN base ELSE Least(60, failures)

\* compute_backoff_interval.
Backoff(base, failures) ==
    IF failures = 0 THEN base
    ELSE IF base = 0 THEN Least(60, failures)
    ELSE Least(Cap, base * 2 ^ Least(6, failures + 1))

Ev(name, n, host) == [name |-> name, cycle |-> n, host |-> host]

\* emit_host_delta_events; the program prints the hosts of each kind in order
\* of address, here in any one order.
HostEvents(old, new) ==
    LET Named(name, s) ==
            LET q == SetToSeq(s) IN [i \in DOMAIN q |-> Ev(name, cycle, q[i])]
    IN Named("discovered-host", new \ old) \o Named("lost-host", old \ new)

\* A run limit of 0 means 1, unless the monitor is continuous.
RunLimit == IF request.maxRuns = 0 THEN 1 ELSE request.maxRuns
LastCycle == ~request.continuous /\ cycle >= RunLimit

-----------------------------------------------------------------------------
\* Fault: the tolerance itself counts as lateness.
OverdueAtTolerance == clock >= interval + Tolerance

Overdue == clock > interval + Tolerance

\* expected_next_run was set before the sleep, counted from the start of the
\* cycle: the time its scan took counts as lateness.
BeginCycle ==
    /\ pc = "loop"
    /\ IF request.continuous THEN cycle < MaxCycles ELSE cycle < RunLimit
    /\ cycle' = cycle + 1
    /\ clock' = 0
    /\ events' = IF waited /\ Overdue
                 THEN Append(events, Ev("system-wake", cycle + 1, "none")) ELSE events
    /\ pc' = "scan"
    /\ UNCHANGED <<request, interval, waited, counters, delays>>

\* Fault: a skipped cycle is not counted.
SkipUncounted ==
    /\ pc = "scan" /\ request.skip
    /\ cycle' = cycle - 1
    /\ pc' = "pace"
    /\ UNCHANGED <<request, clock, interval, waited, counters, events, delays>>

\* A skipped cycle neither counts as a failure nor ends a row of them.
SkipScan ==
    /\ pc = "scan" /\ request.skip
    /\ events' = Append(events, Ev("skip", cycle, "none"))
    /\ pc' = "pace"
    /\ UNCHANGED <<request, cycle, clock, interval, waited, counters, delays>>

\* Fault: a failed scan is taken for one that found no host.
FailureEmptiesHosts(minutes) ==
    /\ pc = "scan" /\ ~request.skip
    /\ consecutive' = consecutive + 1 /\ schedule' = schedule + 1
    /\ prior' = {}
    /\ clock' = minutes
    /\ pc' = "pace"
    /\ UNCHANGED <<request, cycle, interval, waited, events, delays>>

ScanFails(minutes) ==
    /\ pc = "scan" /\ ~request.skip
    /\ consecutive' = consecutive + 1 /\ schedule' = schedule + 1
    /\ clock' = minutes
    /\ pc' = "pace"
    /\ UNCHANGED <<request, cycle, interval, waited, prior, events, delays>>

\* Fault: a success does not end the row of failures.
ScheduleKept(live, minutes) ==
    /\ pc = "scan" /\ ~request.skip
    /\ consecutive' = 0 /\ schedule' = schedule
    /\ prior' = live
    /\ events' = events \o HostEvents(prior, live)
    /\ clock' = minutes
    /\ pc' = "pace"
    /\ UNCHANGED <<request, cycle, interval, waited, delays>>

\* live: what collect_live_hosts makes of the session.
ScanCompletes(live, minutes) ==
    /\ pc = "scan" /\ ~request.skip
    /\ consecutive' = 0 /\ schedule' = 0
    /\ prior' = live
    /\ events' = events \o HostEvents(prior, live)
    /\ clock' = minutes
    /\ pc' = "pace"
    /\ UNCHANGED <<request, cycle, interval, waited, delays>>

\* The end of a cycle: the pause until the next one, if any, and the notice after each third failure in a row.
Pace ==
    /\ pc = "pace"
    /\ interval' = Backoff(request.base, consecutive)
    /\ IF schedule > 2
       THEN schedule' = 0 /\ events' = Append(events, Ev("backoff", cycle, "none"))
       ELSE UNCHANGED <<schedule, events>>
    /\ pc' = IF LastCycle THEN "done"
             ELSE IF request.base = 0 \/ interval' = 0 THEN "loop" ELSE "sleep"
    /\ UNCHANGED <<request, cycle, clock, waited, consecutive, prior, delays>>

\* sleep_for lasts the interval or longer: the machine may be suspended.
Sleep(extra) ==
    /\ pc = "sleep"
    /\ waited' = TRUE
    /\ clock' = clock + interval + extra
    /\ delays' = Append(delays, clock + extra)
    /\ pc' = "loop"
    /\ UNCHANGED <<request, cycle, interval, counters, events>>

\* A continuous monitor runs until it is interrupted.
Interrupt ==
    /\ request.continuous /\ pc \notin {"done", "killed"}
    /\ pc' = "killed"
    /\ UNCHANGED <<request, cycle, clock, interval, waited, counters, events, delays>>

-----------------------------------------------------------------------------
Init ==
    /\ request \in Requests
    /\ pc = "loop"
    /\ cycle = 0 /\ clock = 0
    /\ interval = request.base
    /\ waited = FALSE
    /\ consecutive = 0 /\ schedule = 0
    /\ prior = {} /\ events = <<>> /\ delays = <<>>

Step ==
    \/ BeginCycle \/ SkipScan \/ Pace
    \/ \E t \in 0..MaxScanTime :
         ScanFails(t) \/ \E live \in SUBSET Hosts : ScanCompletes(live, t)
    \/ \E extra \in 0..MaxOversleep : Sleep(extra)

Ended == pc \in {"done", "killed"} /\ UNCHANGED vars

Next == Step \/ Interrupt \/ Ended

\* The loop is one ordinary thread: scans return (ScanSession) and sleeps end.
Spec == Init /\ [][Next]_vars /\ WF_vars(Step)

-----------------------------------------------------------------------------
(* Properties.                                                             *)

Is(n, name, host) == events[n].name = name /\ events[n].host = host

\* Whoever has read the first n events holds a host for live.
KnownLive(host, n) ==
    \E i \in 1..n : /\ Is(i, "discovered-host", host)
                    /\ \A j \in (i + 1)..n : ~Is(j, "lost-host", host)

\* Whoever follows the printed events knows which hosts the monitor holds
\* for live: a host that is not known to be live is only ever discovered, one
\* that is known only ever lost, whatever scans failed or were skipped in
\* between.
EventsTellHosts ==
    \A h \in Hosts :
        /\ \A n \in 1..Len(events) :
             events[n].host = h =>
               Is(n, IF KnownLive(h, n - 1) THEN "lost-host" ELSE "discovered-host", h)
        /\ h \in prior <=> KnownLive(h, Len(events))

\* A backoff notice stands for exactly three failures in a row: at the end
\* of a cycle the failures no notice has counted are those beyond a multiple
\* of three, although skipped cycles may lie between them.
NoticeEveryThirdFailure ==
    pc \notin {"pace", "killed"} => schedule = consecutive % 3

\* After a failure the monitor waits at least as long as asked, except where
\* more than the cap was asked: then it waits the cap.  More failures never
\* make it wait less.
BackoffSlowsDown ==
    [][pc = "pace" /\ consecutive > 0 /\ request.base > 0
        => /\ interval' >= Least(Cap, request.base)
           /\ interval' >= Least(Cap, interval)]_vars

\* A system-wake event is printed exactly when the previous cycle was late
\* by more than the tolerance: a suspended machine is never missed, but a
\* scan that takes longer than the tolerance is reported as one, too.
WakeMeansLate ==
    pc # "loop" /\ pc # "killed" =>
        \A n \in 1..(cycle - 1) :
            n \in DOMAIN delays =>
                (delays[n] > Tolerance
                   <=> Ev("system-wake", n + 1, "none") \in ToSet(events))

\* A monitor with a run limit ends after exactly that many cycles, even if
\* every scan fails.
LimitReached ==
    <>(request.continuous \/ (pc = "done" /\ cycle = RunLimit))
=============================================================================
