--------------------------- MODULE ScannerWindow ---------------------------
(***************************************************************************)
(* The window of the Qt program (class ScannerWindow in                    *)
(* src/src/ui/src/qt_gui_main.cpp).  Its data belong to the event loop.    *)
(* Network, port and Wi-Fi scans run in threads of their own, any number   *)
(* at a time, and post closures that the event loop runs in the order in   *)
(* which they were posted.                                                 *)
(***************************************************************************)
EXTENDS Naturals, Sequences, FiniteSets, FiniteSetsExt, SequencesExt

CONSTANTS
    Hosts,        \* authorized addresses, as numbers ordered like ip_key
    Ports,        \* the ports a scan may find open
    Adapters,     \* gateways detect_context may find, None for no adapter
    Launches,     \* the command lines considered: timers set at the start
    MaxThreads,   \* bound: threads started
    MaxQueue      \* bound: a longer queue takes no more progress closures

VARIABLES
    scan,         \* scan_: the devices and the rows of the port table
    context,      \* context_.gateway
    selected,     \* selected_ip_
    filter,       \* dev_filter_ and dev_search_
    status,       \* who set the status line last: a scan under way, or not
    started,      \* how many threads were started
    threads,      \* those that still run
    queue,        \* closures posted to the event loop
    timers,       \* single shots that have not fired, soonest first
    auto,         \* history: how far the work of the timers is
    open          \* the window exists

data == <<scan, context, selected>>
work == <<started, threads, queue>>
rest == <<filter, timers, auto, open>>
vars == <<data, status, work, rest>>

None == 0
ASSUME HostsAssumption == Hosts \subseteq Nat \ {None}
ASSUME AdaptersAssumption == Adapters \subseteq Hosts \union {None}
ASSUME LaunchesAssumption == Launches \subseteq Seq({"scan", "ports", "report", "exit"})

\* guess_type and findings_for: what the window says of a device depends on
\* its ports and on which address is the gateway.
Judge(ports, gateway) == [ports |-> ports, gateway |-> gateway]

Rows(found) == UNION {{<<h, p>> : p \in found[h]} : h \in DOMAIN found}

\* Fault: a row for every port that was tried.
RowsOfAllTried(found, gateway) ==
    [devices |-> [h \in DOMAIN found |->
                    [ports |-> found[h], judged |-> Judge(found[h], gateway)]],
     rows |-> (DOMAIN found) \X Ports]

\* run_scan makes devices and rows of the results of one session.
ScanData(found, gateway) ==
    [devices |-> [h \in DOMAIN found |->
                    [ports |-> found[h], judged |-> Judge(found[h], gateway)]],
     rows |-> Rows(found)]

NoData == [devices |-> <<>>, rows |-> {}]
Addresses == DOMAIN scan.devices

-----------------------------------------------------------------------------
(* The device table.                                                       *)

\* The other filters and the search text also hide some of the devices.
Visible(devices, f) ==
    {h \in DOMAIN devices : f = "open ports" => devices[h].ports # {}}

\* refresh_devices: with nothing selected it selects the first row, and
\* select_from_table takes the address from there.
Refreshed(devices, sel, f) ==
    IF sel = None /\ Visible(devices, f) # {} THEN Min(Visible(devices, f)) ELSE sel

SelectRow(h) ==
    /\ open
    /\ h \in Visible(scan.devices, filter)
    /\ selected' = h
    /\ UNCHANGED <<scan, context, status, work, rest>>

SetFilter(f) ==
    /\ open
    /\ filter' = f
    /\ selected' = Refreshed(scan.devices, selected, f)
    /\ UNCHANGED <<scan, context, status, work, timers, auto, open>>

\* save_settings, Copy IP and Copy MAC only say that they are done.
Notice ==
    /\ open
    /\ status' = "settled"
    /\ UNCHANGED <<data, work, rest>>

-----------------------------------------------------------------------------
(* Starting work.  timed: started by a timer.                              *)

Begin(kind, targets, timed) ==
    /\ open /\ started < MaxThreads
    /\ started' = started + 1
    /\ threads' = Append(threads, [kind |-> kind, targets |-> targets,
                                   fallback |-> context, timed |-> timed])
    /\ status' = "under way"
    /\ UNCHANGED queue

\* Nothing keeps a second scan from being started.
StartScan(timed) == Begin("scan", {}, timed) /\ UNCHANGED data

\* port_targets; custom is the address typed in, None when it is refused.
PortTargets(mode, sel, custom) ==
    CASE mode = "router"   -> {context} \ {None}
      [] mode = "all"      -> Addresses
      [] mode = "custom"   -> {custom} \ {None}
      [] mode = "selected" -> IF sel # None THEN {sel}
                              ELSE IF Addresses # {} THEN {Min(Addresses)} ELSE {}

StartPortScan(mode, custom) ==
    Begin("ports", PortTargets(mode, selected, custom), FALSE) /\ UNCHANGED data

StartSelectedPortScan(timed) ==
    LET sel == IF selected = None /\ Addresses # {} THEN Min(Addresses) ELSE selected
    IN /\ selected' = sel
       /\ IF sel = None THEN open /\ status' = "settled" /\ UNCHANGED work
          ELSE Begin("ports", PortTargets("selected", sel, None), timed)
       /\ UNCHANGED <<scan, context>>

StartWifi == Begin("wifi", {}, FALSE) /\ UNCHANGED data

\* Written or not, a report only changes the status line; the file and its
\* name are left out.
Report ==
    /\ open
    /\ status' = "settled"
    /\ UNCHANGED <<data, work>>

-----------------------------------------------------------------------------
(* The threads.                                                            *)

Runs(t, kind) == t \in DOMAIN threads /\ threads[t].kind = kind

\* Only a network scan tells how far it is.
Progress(t) ==
    /\ Runs(t, "scan") /\ Len(queue) < MaxQueue
    /\ queue' = Append(queue, [kind |-> "progress"])
    /\ UNCHANGED <<data, status, started, threads, rest>>

Post(t, closure) ==
    /\ threads' = RemoveAt(threads, t)
    /\ queue' = Append(queue, closure)
    /\ UNCHANGED <<data, status, started, rest>>

\* The adapter may have changed since the window last looked; if there is
\* none, the context the scan was started with is used.
FinishScan(t, found, adapter) ==
    /\ Runs(t, "scan")
    /\ LET gateway == IF adapter = None THEN threads[t].fallback ELSE adapter
       IN Post(t, [kind |-> "scan", timed |-> threads[t].timed, gateway |-> gateway,
                   result |-> ScanData(found, gateway)])

\* Fault: a scan that was blocked is not reported.
ScanDropped(t, adapter) ==
    /\ Runs(t, "scan")
    /\ threads' = RemoveAt(threads, t)
    /\ UNCHANGED <<data, status, started, queue, rest>>

\* A scan that is blocked or fails posts a result without devices.
FailScan(t, adapter) ==
    /\ Runs(t, "scan")
    /\ Post(t, [kind |-> "scan", timed |-> threads[t].timed, result |-> NoData,
                gateway |-> IF adapter = None THEN threads[t].fallback ELSE adapter])

\* found: open ports of the targets.
FinishPorts(t, found) ==
    /\ Runs(t, "ports")
    /\ Post(t, [kind |-> "ports", found |-> found])

FinishWifi(t) ==
    /\ Runs(t, "wifi")
    /\ Post(t, [kind |-> "wifi"])

-----------------------------------------------------------------------------
(* The closures, run by the event loop.                                    *)

\* A closure of this kind is the next the event loop runs.
AtHead(kind) == queue # <<>> /\ Head(queue).kind = kind

ShowProgress ==
    /\ AtHead("progress")
    /\ status' = "under way"
    /\ queue' = Tail(queue)
    /\ UNCHANGED <<data, started, threads, rest>>

\* Fault: the selection outlives the devices.
ShowScanSelected ==
    /\ AtHead("scan")
    /\ scan' = Head(queue).result
    /\ context' = Head(queue).gateway
    /\ selected' = Refreshed(scan'.devices, selected, filter)
    /\ status' = "settled"
    /\ queue' = Tail(queue)
    /\ auto' = IF Head(queue).timed THEN "scan shown" ELSE auto
    /\ UNCHANGED <<started, threads, filter, timers, open>>

\* The result shown last replaces all data, even if its scan is the older one.
ShowScan ==
    /\ AtHead("scan")
    /\ scan' = Head(queue).result
    /\ context' = Head(queue).gateway
    /\ selected' = Refreshed(scan'.devices, None, filter)
    /\ status' = "settled"
    /\ queue' = Tail(queue)
    /\ auto' = IF Head(queue).timed THEN "scan shown" ELSE auto
    /\ UNCHANGED <<started, threads, filter, timers, open>>

\* Fault: a device gains ports and is not judged again.
UnjudgedPorts(devices, found, gateway) ==
    [h \in DOMAIN devices |->
        [devices[h] EXCEPT !.ports = @ \union {p \in Ports : <<h, p>> \in found}]]

\* Devices gain the ports found open on them, and only those are judged again.
WithPorts(devices, found, gateway) ==
    [h \in DOMAIN devices |->
        LET new == {p \in Ports : <<h, p>> \in found}
            all == devices[h].ports \union new
        IN IF new = {} THEN devices[h]
           ELSE [ports |-> all, judged |-> Judge(all, gateway)]]

\* Fault: the status line is set only when there is something to show.
ShowPortsFound ==
    /\ AtHead("ports")
    /\ LET found == Head(queue).found
           devices == WithPorts(scan.devices, found, context)
       IN /\ scan' = [devices |-> devices, rows |-> scan.rows \union found]
          /\ selected' = Refreshed(devices, selected, filter)
          /\ status' = IF found = {} THEN status ELSE "settled"
    /\ queue' = Tail(queue)
    /\ UNCHANGED <<context, started, threads, rest>>

\* The devices on show need not be those the port scan was started for.
ShowPorts ==
    /\ AtHead("ports")
    /\ LET found == Head(queue).found
           devices == WithPorts(scan.devices, found, context)
       IN /\ scan' = [devices |-> devices, rows |-> scan.rows \union found]
          /\ selected' = Refreshed(devices, selected, filter)
    /\ status' = "settled"
    /\ queue' = Tail(queue)
    /\ UNCHANGED <<context, started, threads, rest>>

ShowWifi ==
    /\ AtHead("wifi")
    /\ status' = "settled"
    /\ queue' = Tail(queue)
    /\ UNCHANGED <<data, started, threads, rest>>

-----------------------------------------------------------------------------
(* Timers of --auto-scan and its companions, and the end.                  *)

\* The timers have fixed delays and ask nobody whether the scan has ended.
Timer(what) ==
    /\ timers # <<>> /\ Head(timers) = what
    /\ timers' = Tail(timers)
    /\ UNCHANGED filter

AutoScan  == Timer("scan") /\ StartScan(TRUE) /\ UNCHANGED <<auto, open>>
AutoPorts == Timer("ports") /\ StartSelectedPortScan(TRUE)
             /\ UNCHANGED <<auto, open>>
AutoReport ==
    /\ open
    /\ Timer("report") /\ Report
    /\ auto' = IF auto = "scan shown" THEN "report" ELSE "early report"
    /\ UNCHANGED open

\* The program ends, and with it the window and its threads.
Destroyed ==
    /\ open' = FALSE
    /\ scan' = NoData /\ selected' = None
    /\ started' = MaxThreads
    /\ threads' = <<>> /\ queue' = <<>> /\ timers' = <<>>
    /\ status' = "settled"
    /\ UNCHANGED <<context, filter, auto>>

\* The exit after a screenshot; the user may close the window at any time.
AutoExit == timers = <<"exit">> /\ Destroyed
Close == open /\ Destroyed

-----------------------------------------------------------------------------
Init ==
    /\ scan = NoData
    /\ context \in Hosts
    /\ selected = None
    /\ filter = "all"
    /\ status = "settled"
    /\ started = 0 /\ threads = <<>> /\ queue = <<>>
    /\ timers \in Launches
    /\ auto = "none"
    /\ open = TRUE

\* The user's clicks that start nothing and those that do.
Click ==
    \/ \E h \in Hosts : SelectRow(h)
    \/ \E f \in {"all", "open ports"} : SetFilter(f)
    \/ Notice
    \/ /\ UNCHANGED rest
       /\ \/ StartScan(FALSE) \/ StartSelectedPortScan(FALSE) \/ StartWifi
          \/ \E mode \in {"selected", "router", "all", "custom"}, h \in Hosts \union {None} :
               StartPortScan(mode, h)
    \/ Report /\ UNCHANGED rest

ThreadStep(t) ==
    \/ /\ Runs(t, "scan")
       /\ \E adapter \in Adapters :
            \/ FailScan(t, adapter)
            \/ \E up \in SUBSET Hosts : \E found \in [up -> SUBSET Ports] :
                 FinishScan(t, found, adapter)
    \/ t \in DOMAIN threads /\ \E found \in SUBSET (threads[t].targets \X Ports) :
         FinishPorts(t, found)
    \/ FinishWifi(t)

EventLoop == ShowProgress \/ ShowScan \/ ShowPorts \/ ShowWifi
Timers == AutoScan \/ AutoPorts \/ AutoReport \/ AutoExit

Next ==
    \/ Click \/ EventLoop \/ Timers \/ Close
    \/ \E t \in 1..MaxThreads : Progress(t) \/ ThreadStep(t)
    \/ ~open /\ UNCHANGED vars

Spec == Init /\ [][Next]_vars

-----------------------------------------------------------------------------
(* Properties.                                                             *)

\* Whatever scans overlap, the ports of a device are those the port table
\* shows for its address.
RowsAndDevicesAgree ==
    \A h \in Addresses : scan.devices[h].ports = {p \in Ports : <<h, p>> \in scan.rows}

\* The type and the findings of a device are those of the ports and of the
\* gateway on show, not of an earlier scan's.
FindingsCurrent ==
    \A h \in Addresses : scan.devices[h].judged = Judge(scan.devices[h].ports, context)

\* The selected address, which port scans and reports take without asking,
\* is that of a device on show.
SelectionShown == selected \in Addresses \union {None}

\* When no thread runs and no closure waits, the status line and the
\* progress bar no longer tell of a scan under way.
StatusSettles ==
    queue = <<>> /\ threads = <<>> => status = "settled"

\* --auto-report is described as a report "after auto-scan": the scan it
\* reports on has been shown.
AutoReportFollowsScan == auto # "early report"
=============================================================================
