---------------------------- MODULE CommandLine ----------------------------
(***************************************************************************)
(* A run of the NetSentinel11 command line (src/src/app/main.cpp): the     *)
(* loop over the arguments, the checks after it, and the handler of the    *)
(* command with every call it makes, to the exit code.                     *)
(***************************************************************************)
EXTENDS CommandOptions, Enforcement, SequencesExt

CONSTANTS
    Lines,      \* groups of command lines: which loop, which subcommand, and
                \* the arguments of the line
    Moments     \* what the clock, or --now, may say

VARIABLES
    line,       \* the command line
    phase,      \* "arguments", "checks", "handler" or "exited"
    at,         \* how many arguments the loop over them has taken
    loop,       \* what that loop has set so far
    moment,     \* the moment the handler judges schedules by
    todo,       \* the calls the handler has left
    kept,       \* what outlives the process, in the order it was done
    exit        \* the exit code, once there is one

vars == <<line, phase, at, loop, moment, todo, kept, exit>>

-----------------------------------------------------------------------------
(* Commands.                                                               *)

\* The subcommands that share a loop; where there is one only, or where the
\* loop looks for it among the options, it is "".
Subcommands(family) ==
    CASE family = "scan" -> {"arp", "icmp", "tcp", "netbios", "mdns", "ssdp", "snmp", "session"}
      [] family = "tray" -> {"status", "stop", "cleanup"}
      [] family = "listInventory" -> {"list", "show", "export"}
      [] family = "editInventory" -> {"edit"}
      [] family = "markInventory" -> {"hide", "mark-stale", "hide-stale"}
      [] family = "workspace" -> {"list", "active", "history", "pro-import", "upsert",
                                  "switch", "record-scan", "pro-export", "pro-report"}
      [] family = "search" -> {"devices", "filters"}
      [] family = "gui" -> {"shell", "devices", "device", "bandwidth", "action",
                            "accessibility"}
      [] family = "bandwidth" -> {"sources", "sample", "npcap", "local", "capture", "snmp",
                                  "upnp", "flows", "openwrt", "plugin", "limit",
                                  "attribute", "rollups", "anomalies"}
      [] family = "presence" -> {"history", "notify"}
      [] OTHER -> {""}

\* A line of another command is refused before any loop.
ASSUME LinesAssumption ==
    \A group \in Lines : \A l \in group :
        /\ l.family \in DOMAIN Options
        /\ l.sub \in Subcommands(l.family)
        /\ l.arguments \in Seq([word : STRING, value : STRING])

ASSUME MomentsAssumption ==
    \A m \in Moments : m.time \in 0 .. 23 \cup {NoTime}

-----------------------------------------------------------------------------
(* What an option sets.  Most set a variable of their own, which has the   *)
(* name of the option here; a flag sets it to "on".                        *)

Val(e, name, default) == IF name \in DOMAIN e THEN e[name] ELSE default
On(e, name) == Val(e, name, "off") = "on"
Given(e, name) == name \in DOMAIN e

\* Flags that set a variable another option sets too.
SecuritySwitches ==
    [option \in {"--apply", "--dry-run", "--enforce", "--alert-only", "import",
                 "import-inventory", "recognition", "recognize", "--include-unknown-iot",
                 "--no-unknown-iot", "--rental-mode", "--rental"} |->
        CASE option = "--apply" -> [dry_run |-> "off", import |-> "on"]
          [] option = "--dry-run" -> [dry_run |-> "on"]
          [] option = "--enforce" -> [enforce |-> "on"]
          [] option = "--alert-only" -> [enforce |-> "off"]
          [] option = "--include-unknown-iot" -> [unknown_iot |-> "on"]
          [] option = "--no-unknown-iot" -> [unknown_iot |-> "off"]
          [] option \in {"import", "import-inventory"} -> [import_inventory |-> "on"]
          [] option \in {"recognition", "recognize"} -> [recognize |-> "on"]
          [] option \in {"--rental-mode", "--rental"} -> [rental |-> "on"]]

BandwidthSwitches ==
    [option \in {"--apply", "--dry-run", "--confirm", "--mock-installed",
                 "--mock-missing", "--mock-admin", "--mock-user"} |->
        CASE option = "--apply" -> [dry_run |-> "off", plugin_dry_run |-> "off"]
          [] option = "--dry-run" -> [dry_run |-> "on", capture_dry_run |-> "on"]
          [] option = "--confirm" -> [confirm |-> "on", capture_dry_run |-> "off"]
          [] option = "--mock-installed" -> [npcap |-> "on"]
          [] option = "--mock-missing" -> [npcap |-> "off"]
          [] option = "--mock-admin" -> [admin |-> "on"]
          [] option = "--mock-user" -> [admin |-> "off"]]

OtherSwitches(family) ==
    CASE family = "alerts" ->
            [option \in {"--toast", "--no-toast"} |->
                [toast |-> IF option = "--toast" THEN "on" ELSE "off"]]
      [] family = "agent" ->
            [option \in {"--mock", "--real"} |->
                [mock |-> IF option = "--mock" THEN "on" ELSE "off"]]
      [] family = "gui" -> [option \in {"--apply"} |-> [dry_run |-> "off"]]
      [] OTHER -> <<>>

Switches(family) ==
    CASE family = "security" -> SecuritySwitches
      [] family = "bandwidth" -> BandwidthSwitches
      [] OTHER -> OtherSwitches(family)

\* Options that add to a list.
Lists(family) ==
    CASE family = "benchmark" -> {"--resolver", "--query"}
      [] family = "ports" -> {"--target"}
      [] family = "security" -> {"--port"}
      [] family \in {"agent", "api"} -> {"--permission"}
      [] OTHER -> {}

Put(e, name, word) == [x \in {name} |-> word] ++ e
Push(e, name, item) == Put(e, name, Append(Val(e, name, <<>>), item))

\* A profile fills in what no option has set; an explicit number is one of
\* Unsigned, a number of a profile is written as the profile's name.
Presets(family) ==
    {"--concurrency", "--qps", "--jitter-min", "--jitter-max", "--timeout"}
    \cup (IF family = "monitor" THEN {"--interval"} ELSE {"schedule"})

\* Fault: a profile overrides the options before it.
ProfileOverrides(family, e, profile) ==
    [o \in Presets(family) \cup {"--profile", "probes"} |-> profile] ++ e

ApplyProfile(family, e, profile) ==
    LET explicit == {o \in Presets(family) \cap DOMAIN e : e[o] \in Unsigned}
    IN  [o \in (Presets(family) \ explicit) \cup {"--profile", "probes"} |-> profile]
        ++ e

\* A downtime window takes the days named so far.
PushWindow(e, word) ==
    Push(e, "--window", [hours |-> word, days |-> Val(e, "--days", AnyDay)])

\* The local API hands the configured secrets to the request as well.
SetSecret(e, name, word) ==
    Put(Put(e, name, word),
        IF name = "--token" THEN "--request-token" ELSE "--request-csrf", word)

Set(family, e, name, word) ==
    CASE name \in DOMAIN Switches(family) -> Switches(family)[name] ++ e
      [] name \in Lists(family) -> Push(e, name, word)
      [] family \in {"scan", "monitor"} /\ name = "--profile" ->
            ApplyProfile(family, e, word)
      [] family = "security" /\ name = "--window" -> PushWindow(e, word)
      [] family = "api" /\ name \in {"--token", "--csrf"} -> SetSecret(e, name, word)
      [] OTHER -> Put(e, name, word)

-----------------------------------------------------------------------------
(* The loop over the arguments.  An argument is a word, or a word, an      *)
(* equals sign and a value; an option that lacks its value takes the next  *)
(* argument for it, whatever that is.                                      *)

None == ""

\* said: the options the loop has taken so far, in their order.
Loop == [refused |-> FALSE, pending |-> None, env |-> <<>>, said |-> <<>>]

TakeOption(family, s, name, word) ==
    [s EXCEPT !.pending = None, !.env = Set(family, @, name, word),
              !.said = Append(@, name)]

TakeValue(family, s, name, word) ==
    IF Accepts(Options[family][name].kind, word)
    THEN TakeOption(family, s, name, word)
    ELSE [s EXCEPT !.refused = TRUE]

Argument(family, s, arg) ==
    LET known == arg.word \in DOMAIN Options[family]
        option == Options[family][arg.word]
        bare == arg.value = None
    IN
    IF s.refused THEN s
    ELSE IF s.pending # None THEN TakeValue(family, s, s.pending, arg.word)
    ELSE IF ~known THEN [s EXCEPT !.refused = TRUE]
    ELSE CASE option.kind \in {"flag", "word"} /\ bare ->
                TakeOption(family, s, arg.word, "on")
           [] option.kind \notin {"flag", "word"} /\ bare ->
                [s EXCEPT !.pending = arg.word]
           [] option.joined /\ ~bare -> TakeValue(family, s, arg.word, arg.value)
           [] OTHER -> [s EXCEPT !.refused = TRUE]

\* The monitor takes its interval from the schedule of the line, which no
\* option sets, unless --interval was given.
Finish(family, e) ==
    IF family = "monitor" /\ Val(e, "--interval", None) \notin Unsigned
    THEN Put(e, "--interval", "0")
    ELSE e

-----------------------------------------------------------------------------
(* The checks after the loop.                                              *)

SecurityWords ==
    {"router", "upnp", "camera", "lifecycle", "cve", "recognize",
     "import_inventory", "health", "control", "downtime", "quota", "autoblock"}

Chosen(e) == SecurityWords \cap DOMAIN e

Assignment == {"--target-ip", "--device-id", "--user", "--group", "--label"}

SecurityMisused(e) ==
    \/ Cardinality(Chosen(e)) # 1
    \/ Chosen(e) = {"downtime"} /\ Assignment \cap DOMAIN e = {}

SnmpMisused(e) ==
    \/ ~Given(e, "--target") \/ ~Given(e, "--community")
    \/ Val(e, "--version", "v2c") \notin {"v1", "v2c"}

AlertMisused(e) ==
    \/ Val(e, "--kind", None) # "outage"
    \/ ~Given(e, "--message")
    \/ Val(e, "--max-rate", "5") = "0"

\* A search filter is listed, saved or run, and needs its name to be run.
FilterMisused(e) ==
    \/ Cardinality({"list", "save", "run"} \cap DOMAIN e) # 1
    \/ Given(e, "run") /\ ~Given(e, "--id")

\* Commands without a loop: what takes one option takes no second.
Room(sub) == IF sub \in {"show", "export", "hide-stale"} THEN 0 ELSE 1

TooMany(l) ==
    /\ l.family \in {"interfaces", "listInventory", "markInventory"}
    /\ Len(l.arguments) > Room(l.sub)

\* What a command cannot do without.
Needs(family, sub) ==
    CASE family = "workspace" /\ sub \in {"switch", "record-scan"} -> {"--id"}
      [] family = "workspace" /\ sub \in {"pro-import", "pro-report"} -> {"--input"}
      [] family = "gui" /\ sub \in {"device", "action"} -> {"--id"}
      [] family = "bandwidth" /\ sub \in {"sample", "attribute", "anomalies", "rollups"} ->
            {"--mock"}
      [] OTHER -> {}

Misused(l, e) ==
    \/ TooMany(l)
    \/ ~(Needs(l.family, l.sub) \subseteq DOMAIN e)
    \/ l.family = "scan" /\ l.sub = "snmp" /\ SnmpMisused(e)
    \/ l.family = "alerts" /\ AlertMisused(e)
    \/ l.family \in {"outage", "ping", "traceroute", "benchmark"}
       /\ Val(e, "--timeout-ms", "5") = "0"
    \/ l.family = "startTray" /\ Val(e, "--profile", "manual") \notin Accepted["profile"]
    \/ l.family = "editInventory" /\ e = <<>>
    \/ l.family = "search" /\ l.sub = "filters" /\ FilterMisused(e)
    \/ l.family = "security" /\ SecurityMisused(e)

-----------------------------------------------------------------------------
(* The calls of a handler.  Each may fail or not and may leave something   *)
(* behind the process; when it fails the handler returns its code, or goes *)
(* on where that is zero.                                                  *)

Call(keeps, fails, code) == [keeps |-> keeps, fails |-> fails, code |-> code]

Look == Call(None, {TRUE, FALSE}, 3)
Keep(what) == Call(what, {TRUE, FALSE}, 3)
Attempt(what) == Call(what, {TRUE, FALSE}, 0)
Change(what) == Call(what, {FALSE}, 0)
Return(code) == Call(None, {TRUE}, code)

When(condition, calls) == IF condition THEN calls ELSE <<>>

\* The report asked for with --output is opened after the work is done.
Output(e) == When(Given(e, "--output"), <<Keep("file")>>)

\* A diagnostic is added to the history when it succeeded; the history is
\* never checked.
History == <<Attempt("history")>>
Diagnose == <<Look>> \o History

Carry(outcome, what, unconfirmed) ==
    When(outcome.applied, <<Change(what)>>)
    \o When(~outcome.ok,
            <<Return(IF outcome.unconfirmed THEN unconfirmed ELSE 3)>>)

-----------------------------------------------------------------------------
(* Requests put together from what the loop has set.                       *)

NumberOf ==
    [word \in Numerals |->
        CASE word = "0" -> 0 [] word = "5" -> 5 [] word = "08:00-18:00" -> 8
          [] word = "22:00-06:00" -> 22]

Rates(e) == \E o \in {"--download-kbps", "--upload-kbps"} : Val(e, o, "0") # "0"

\* Fault: a change is made unless the line asks for a dry run.
DryRunIfAsked(e) == On(e, "dry_run")

DryRun(e) == Val(e, "dry_run", "on") = "on"

ControlRequest(e) ==
    [mock |-> On(e, "--mock"), dry_run |-> DryRun(e), confirm |-> On(e, "--confirm"),
     backend |-> Val(e, "--backend", "advisory"), action |-> Val(e, "--action", "block"),
     method |-> Val(e, "--method", ""), ip |-> Given(e, "--target-ip"),
     named |-> Given(e, "--device-id"), rates |-> Rates(e),
     credentials |-> {"--router-user", "--router-password"} \subseteq DOMAIN e]

\* The windows of a downtime schedule, or the one there is by default.
HoursOf ==
    [hours \in Spans |->
        CASE hours = "22:00-06:00" -> <<22, 6>> [] hours = "08:00-18:00" -> <<8, 18>>
          [] hours = Timeless -> <<NoTime, NoTime>>]

Window(hours, days) ==
    [start |-> HoursOf[hours][1], end |-> HoursOf[hours][2], days |-> {days}]

DowntimeWindows(e) ==
    IF Given(e, "--window")
    THEN {Window(w.hours, w.days) : w \in ToSet(e["--window"])}
    ELSE {Window("22:00-06:00", Val(e, "--days", AnyDay))}

AutoblockRequestOf(e) ==
    [mock |-> On(e, "--mock"), dry_run |-> DryRun(e), confirm |-> On(e, "--confirm"),
     saved_rule |-> On(e, "--saved-rule"), backend |-> Val(e, "--backend", "mock"),
     action |-> "pause", target |-> TRUE, rates |-> FALSE,
     endpoint |-> Val(e, "--endpoint", ""), rule_id |-> Val(e, "--rule-id", ""),
     credentials |-> {"--endpoint", "--credential-ref"} \subseteq DOMAIN e]

\* The devices the policy looks at in mock mode.
MockDevices ==
    <<[trusted |-> TRUE, unclassified |-> FALSE, guest |-> FALSE],
      [trusted |-> FALSE, unclassified |-> TRUE, guest |-> FALSE],
      [trusted |-> FALSE, unclassified |-> FALSE, guest |-> TRUE]>>

PluginRequest(e) ==
    [mock |-> On(e, "--mock"), dry_run |-> Val(e, "plugin_dry_run", "on") = "on",
     confirm |-> On(e, "confirm"), plugin |-> Val(e, "--plugin", "mock-router"),
     operation |-> Val(e, "--operation", "list"), target |-> Given(e, "--target")]

LimitRequest(e) ==
    [mock |-> On(e, "--mock"), dry_run |-> DryRun(e), confirm |-> On(e, "confirm"),
     saved_rule |-> On(e, "--saved-rule"), backend |-> Val(e, "--backend", "mock"),
     action |-> Val(e, "--action", "limit"),
     target |-> {"--target", "--target-ip"} \cap DOMAIN e # {}, rates |-> Rates(e),
     endpoint |-> Val(e, "--endpoint", ""), rule_id |-> Val(e, "--rule-id", ""),
     credentials |-> {"--endpoint", "--credential-ref"} \subseteq DOMAIN e]

\* The quota rule of the line, once an option says anything about it.
RuleOptions ==
    {"--target-ip", "--device-id", "--profile", "--days", "--window", "--group",
     "--quota-mb", "--warning-mb"}

QuotaRules(e) ==
    IF RuleOptions \cap DOMAIN e = {} THEN DefaultRules
    ELSE {[profile |-> Val(e, "--profile", "family"),
           quota |-> NumberOf[Val(e, "--quota-mb", "0")],
           warning |-> NumberOf[Val(e, "--warning-mb", "0")]]}

-----------------------------------------------------------------------------
(* The handlers.                                                           *)

\* ARP, ICMP, TCP and NetBIOS; then mDNS, SSDP and SNMP.
ProbeCalls == <<Look>>
ListenCalls == <<Look>>
SessionCalls == <<Look, Attempt("session")>>

ScanCalls(sub) ==
    CASE sub = "session" -> SessionCalls
      [] sub \in {"arp", "icmp", "tcp", "netbios"} -> ProbeCalls
      [] OTHER -> ListenCalls

ScopeCalls(e) ==
    <<Look>> \o When(~Given(e, "--custom"), <<Call(None, {TRUE, FALSE}, 4), Look>>)

TrayCalls(sub) ==
    CASE sub = "status" -> <<Look>>
      [] sub = "stop" -> <<Keep("tray state"), Keep("tray log")>>
      [] sub = "cleanup" -> <<Keep("no tray state"), Keep("no tray log")>>

StartTrayCalls == <<Keep("tray state"), Keep("tray log")>>

\* Fault: an alert is noted before its channels answered.
AlertNotedFirst == <<Attempt("alert"), Look>>

AlertCalls == <<Look, Attempt("alert")>>

SpeedCalls == <<Look, Attempt("speed history")>>
OutageCalls == <<Look, Attempt("outage log")>>

\* The view of the surroundings records that it failed, too.
WifiCalls(e) ==
    CASE Given(e, "sweetspot") -> Diagnose \o Output(e)
      [] Given(e, "environment") -> History \o <<Look>> \o Output(e)
      [] OTHER -> Diagnose

\* A recognition works on mock devices, on an inventory or on a correction.
Recognizable(e) == On(e, "--mock") \/ {"--db", "--learn-device-id"} \cap DOMAIN e # {}

\* The rule file is rewritten on every run that has a rule, and neither
\* that nor the export is checked.
RecognizeCalls(e) ==
    IF ~Recognizable(e) THEN <<Return(3)>>
    ELSE <<Attempt("rules")>> \o When(Given(e, "--export"), <<Attempt("file")>>)
         \o History \o Output(e)

ImportCalls(e) ==
    <<Look>>
    \o When(On(e, "import"),
             IF Given(e, "--output-db") THEN <<Keep("database")>> ELSE <<Return(3)>>)
    \o History \o Output(e)

ControlCalls(e) ==
    History \o Carry(RunInternetControl(ControlRequest(e)), "rule", 3)

\* One entry for the control it asked for and one for the schedule.
DowntimeCalls(e, now) ==
    LET outcome == RunParentalDowntime(ControlRequest(e), DowntimeWindows(e),
                                       On(e, "--emergency-disable"), now)
        active == DowntimeActive(DowntimeWindows(e), On(e, "--emergency-disable"), now)
    IN  When(outcome.applied, <<Change(IF active THEN "block" ELSE "unblock")>>)
        \o History \o When(outcome.ok, History) \o Carry([outcome EXCEPT !.applied = FALSE], "", 3)

\* Camera, lifecycle and vulnerability findings.
FindingsCalls(e) == Diagnose \o Output(e)

\* Whether the router shows a mapping of a port that was asked for, or any if
\* none was, is up to the router.
UpnpCalls(e, found) ==
    LET outcome == RunUpnpManagement(ControlRequest(e), found)
    IN  When(On(e, "--mock"), History \o History) \o Carry(outcome, "rule", 3)

QuotaCalls(e) == History \o When(~On(e, "--mock"), <<Return(3)>>)

AutoblockCalls(e) ==
    Carry(RunAutoblock(AutoblockRequestOf(e), Val(e, "enforce", "off") = "on", MockDevices),
          "rule", 3)

SecurityCalls(e, now, found) ==
    CASE Given(e, "upnp") -> UpnpCalls(e, found)
      [] Given(e, "router") \/ Given(e, "health") -> Diagnose
      [] Given(e, "camera") \/ Given(e, "lifecycle") \/ Given(e, "cve") ->
            FindingsCalls(e)
      [] Given(e, "recognize") -> RecognizeCalls(e)
      [] Given(e, "import_inventory") -> ImportCalls(e)
      [] Given(e, "control") -> ControlCalls(e)
      [] Given(e, "downtime") -> DowntimeCalls(e, now)
      [] Given(e, "quota") -> QuotaCalls(e)
      [] Given(e, "autoblock") -> AutoblockCalls(e)

InventoryCalls(sub) ==
    CASE sub \in {"list", "show", "export"} -> <<Look>>
      [] sub \in {"edit", "hide", "mark-stale", "hide-stale"} -> <<Keep("database")>>

WorkspaceCalls(sub, e) ==
    CASE sub \in {"list", "active", "history", "pro-import"} -> <<Look>>
      [] sub \in {"upsert", "switch", "record-scan"} -> <<Keep("database")>>
      [] sub = "pro-export" -> Output(e)
      [] sub = "pro-report" -> <<Look>> \o Output(e)

SearchCalls(e) == IF Given(e, "save") THEN <<Keep("database")>> ELSE <<Look>>

\* These write their report before they look at whether the work succeeded.
ReviewCalls(e) == Output(e) \o <<Look>>

ReleaseCalls(e) ==
    Output(e) \o When(Given(e, "--changelog"), <<Keep("file")>>) \o <<Look>>

-----------------------------------------------------------------------------
(* The actions of the shell.                                               *)

NeedConfirmation == {"diagnostics.service", "scan.trigger", "security.control"}

Authorized(e) == Val(e, "--target", "192.168.50.1") \in {"192.168.50.1", "127.0.0.1"}

GuiControl(e) ==
    [mock |-> On(e, "--mock"), dry_run |-> DryRun(e), confirm |-> On(e, "--confirm"),
     backend |-> "advisory", action |-> "block", method |-> "", ip |-> TRUE,
     named |-> FALSE, rates |-> FALSE, credentials |-> FALSE]

\* Only the three that need confirmation look at dry_run.
GuiActionCalls(id, e) ==
    IF id \in NeedConfirmation /\ ~DryRun(e) /\ ~On(e, "--confirm") THEN <<Return(2)>>
    ELSE
    CASE id \in {"monitoring.start", "monitoring.stop"} -> StartTrayCalls
      [] id = "alert.test" -> AlertCalls
      [] id \in {"diagnostics.ping", "diagnostics.traceroute", "diagnostics.dns",
                 "diagnostics.dhcp", "diagnostics.wifi"} -> Diagnose
      [] id = "diagnostics.service" ->
            IF On(e, "--mock") \/ DryRun(e) \/ Authorized(e) THEN Diagnose ELSE <<Return(3)>>
      [] id = "speed.run" -> SpeedCalls
      [] id \in {"report.generate", "api.status"} -> <<Look>>
      [] id = "scan.trigger" ->
            IF DryRun(e) \/ Authorized(e) THEN <<Look>> ELSE <<Return(3)>>
      [] id = "security.control" ->
            History \o Carry(RunInternetControl(GuiControl(e)), "rule", 2)
      [] id = "outage.check" -> OutageCalls
      [] OTHER -> <<Return(3)>>

GuiCalls(sub, e) ==
    CASE sub \in {"shell", "devices"} -> <<>>
      [] sub \in {"device", "bandwidth"} -> <<Look>>
      [] sub = "action" -> GuiActionCalls(e["--id"], e)
      [] sub = "accessibility" -> Output(e) \o <<Look>>

-----------------------------------------------------------------------------
(* Bandwidth, presence, and the command that was asked for.                *)

\* Three rollups are stored one after the other, then retention runs.
RollupCalls(e) ==
    <<Keep("rollup"), Keep("rollup"), Keep("rollup")>>
    \o When(Given(e, "--retention-cutoff"), <<Keep("retention")>>) \o <<Look>>

PluginCalls(e) ==
    When(PluginRequest(e).operation # "list",
         Carry(RunRouterPlugin(PluginRequest(e)), "rule", 2))

LimitCalls(e) == Carry(RunBandwidthLimit(LimitRequest(e)), "rule", 2)

\* A passive capture, the counters of a router, flow exports, OpenWrt.
CollectCalls == <<Look>>
LocalCalls(e) == <<Look>> \o When(On(e, "--persist"), <<Attempt("rollup")>>)

BandwidthCalls(sub, e) ==
    CASE sub \in {"sources", "npcap", "attribute", "anomalies"} -> <<>>
      [] sub \in {"sample", "capture", "snmp", "upnp", "flows", "openwrt"} -> CollectCalls
      [] sub = "local" -> LocalCalls(e)
      [] sub = "plugin" -> PluginCalls(e)
      [] sub = "limit" -> LimitCalls(e)
      [] sub = "rollups" -> RollupCalls(e)

\* In mock mode the history of two devices is written into the database the
\* line names, and nothing of that is checked.
PresenceHistoryCalls(e) ==
    When(On(e, "--mock"), <<Attempt("database")>>)
    \o When(On(e, "--apply-retention"), <<Keep("retention")>>) \o <<Look>>

PresenceNotifyCalls == <<Look, Attempt("alert")>>

PresenceCalls(sub, e) ==
    IF sub = "history" THEN PresenceHistoryCalls(e) ELSE PresenceNotifyCalls

Calls(l, e, now, found) ==
    LET f == l.family IN
    CASE f = "scan" -> ScanCalls(l.sub)
      [] f = "scope" -> ScopeCalls(e)
      [] f = "monitor" -> <<Attempt("session")>>
      [] f = "tray" -> TrayCalls(l.sub)
      [] f = "startTray" -> StartTrayCalls
      [] f = "hardenTray" -> Output(e)
      [] f = "alerts" -> AlertCalls
      [] f = "speed" -> SpeedCalls
      [] f = "outage" -> OutageCalls
      [] f \in {"ping", "traceroute", "dns", "benchmark", "dhcp", "ports"} -> Diagnose
      [] f = "wifi" -> WifiCalls(e)
      [] f = "security" -> SecurityCalls(e, now, found)
      [] f \in {"listInventory", "editInventory", "markInventory"} -> InventoryCalls(l.sub)
      [] f = "workspace" -> WorkspaceCalls(l.sub, e)
      [] f = "search" -> SearchCalls(e)
      [] f \in {"agent", "simulation", "privacy", "audit"} -> ReviewCalls(e)
      [] f = "release" -> ReleaseCalls(e)
      [] f = "report" -> IF Given(e, "--output") THEN <<Keep("file")>> ELSE <<Look>>
      [] f = "gui" -> GuiCalls(l.sub, e)
      [] f = "bandwidth" -> BandwidthCalls(l.sub, e)
      [] f = "presence" -> PresenceCalls(l.sub, e)
      [] f \in {"interfaces", "api", "installer", "hardening", "timeline"} -> <<Look>>

-----------------------------------------------------------------------------
(* A run.                                                                  *)

Running == 99

env == loop.env

Init ==
    /\ line \in UNION Lines
    /\ phase = "arguments"
    /\ at = 0 /\ loop = Loop
    /\ todo = <<>> /\ kept = <<>>
    /\ moment \in {m \in Moments : m.time = 0 /\ m.day = NoDay}
    /\ exit = Running

Exit(code) == phase' = "exited" /\ exit' = code

\* The loop over the arguments takes the next one, or refuses it.
More == at < Len(line.arguments)
Taken == Argument(line.family, loop, line.arguments[at + 1])

ReadArgument ==
    /\ phase = "arguments" /\ More
    /\ ~Taken.refused
    /\ loop' = Taken
    /\ at' = at + 1
    /\ UNCHANGED <<line, phase, moment, todo, kept, exit>>

RefuseArgument ==
    /\ phase = "arguments" /\ More
    /\ Taken.refused
    /\ Exit(2)
    /\ UNCHANGED <<line, at, loop, moment, todo, kept>>

\* After the last one no option may lack its value.
RefuseLoop ==
    /\ phase = "arguments" /\ ~More
    /\ loop.pending # None
    /\ Exit(2)
    /\ UNCHANGED <<line, at, loop, moment, todo, kept>>

AcceptArguments ==
    /\ phase = "arguments" /\ ~More
    /\ loop.pending = None
    /\ phase' = "checks"
    /\ loop' = [loop EXCEPT !.env = Finish(line.family, @)]
    /\ UNCHANGED <<line, at, moment, todo, kept, exit>>

RefuseUse ==
    /\ phase = "checks"
    /\ Misused(line, env)
    /\ Exit(2)
    /\ UNCHANGED <<line, at, loop, moment, todo, kept>>

\* A clock without --now names no day, and a time.
Clock ==
    IF Given(env, "--now") THEN Moments
    ELSE {m \in Moments : m.day = NoDay /\ m.time # NoTime}

Dispatch ==
    /\ phase = "checks"
    /\ ~Misused(line, env)
    /\ phase' = "handler"
    /\ IF line.family = "security" /\ Given(env, "downtime")
       THEN moment' \in Clock ELSE moment' = moment
    /\ \E found \in IF line.family = "security" /\ Given(env, "upnp") THEN BOOLEAN ELSE {FALSE} :
            todo' = Calls(line, env, moment', found)
    /\ UNCHANGED <<line, at, loop, kept, exit>>

\* A call of the handler succeeds, fails and is passed over, or fails and
\* ends the command.
Keeps(call) == IF call.keeps = None THEN kept ELSE Append(kept, call.keeps)

CallSucceeds ==
    /\ phase = "handler" /\ todo # <<>>
    /\ FALSE \in Head(todo).fails
    /\ kept' = Keeps(Head(todo))
    /\ todo' = Tail(todo)
    /\ UNCHANGED <<line, phase, at, loop, moment, exit>>

CallFailsUnnoticed ==
    /\ phase = "handler" /\ todo # <<>>
    /\ TRUE \in Head(todo).fails /\ Head(todo).code = 0
    /\ todo' = Tail(todo)
    /\ UNCHANGED <<line, phase, at, loop, moment, kept, exit>>

CallFails ==
    /\ phase = "handler" /\ todo # <<>>
    /\ TRUE \in Head(todo).fails /\ Head(todo).code # 0
    /\ Exit(Head(todo).code)
    /\ todo' = <<>>
    /\ UNCHANGED <<line, at, loop, moment, kept>>

Finished ==
    /\ phase = "handler" /\ todo = <<>>
    /\ Exit(0)
    /\ UNCHANGED <<line, at, loop, moment, todo, kept>>

Next ==
    \/ ReadArgument \/ RefuseArgument \/ RefuseLoop \/ AcceptArguments
    \/ RefuseUse \/ Dispatch
    \/ CallSucceeds \/ CallFailsUnnoticed \/ CallFails \/ Finished

\* A process that was started runs to its end.
Spec == Init /\ [][Next]_vars /\ WF_vars(Next)

-----------------------------------------------------------------------------
(* Properties.                                                             *)

\* Whether the line says an option, and says it after the last of another.
Said(name) == name \in ToSet(loop.said)
SaidAfter(name, other) ==
    \E i \in DOMAIN loop.said :
        /\ loop.said[i] = name
        /\ \A j \in DOMAIN loop.said : loop.said[j] = other => j < i

\* How many arguments an option takes, and the loop taking those of the
\* option at a place of the line.
Width(family, arg) == IF Argument(family, Loop, arg).pending = None THEN 1 ELSE 2

TakeAt(family, s, arguments, i) ==
    LET next == Argument(family, s, arguments[i])
    IN  IF Width(family, arguments[i]) = 1 THEN next
        ELSE Argument(family, next, arguments[i + 1])

\* The option at a place of the line, with its value; that of a flag is "on".
Spoken(family, arguments, i) ==
    [name |-> arguments[i].word,
     word |-> IF Width(family, arguments[i]) = 2 THEN arguments[i + 1].word
              ELSE IF arguments[i].value = None THEN "on" ELSE arguments[i].value]

\* Switches that set one variable to different values.
Opposites(family) ==
    CASE family = "security" ->
            {{"--apply", "--dry-run"}, {"--enforce", "--alert-only"},
             {"--include-unknown-iot", "--no-unknown-iot"}}
      [] family = "bandwidth" ->
            {{"--apply", "--dry-run"}, {"--confirm", "--dry-run"},
             {"--mock-installed", "--mock-missing"}, {"--mock-admin", "--mock-user"}}
      [] family = "alerts" -> {{"--toast", "--no-toast"}}
      [] family = "agent" -> {{"--mock", "--real"}}
      [] OTHER -> {}

\* Whether two options mean something else in the other order: opposites do;
\* a window takes only the days named before it; and a secret of the API is
\* copied into the request.
OrderMatters(family, x, y) ==
    \/ {x.name, y.name} \in Opposites(family)
    \/ /\ family = "security"
       /\ \E w, d \in {x, y} : w.name = "--window" /\ d.name = "--days" /\ d.word # AnyDay
    \/ /\ family = "api"
       /\ {x.name, y.name} \in {{"--token", "--request-token"}, {"--csrf", "--request-csrf"}}
       /\ x.word # y.word

\* Two different options, each with the value it takes, are accepted in
\* either order and mean the same in both exactly when no pair above says
\* otherwise; so a profile never overrides what the line says, before it or
\* after it (main.cpp:4055-4081).
OptionsCommute ==
    phase = "checks" /\ Len(loop.said) = 2 /\ loop.said[1] # loop.said[2] =>
        LET family == line.family
            second == 1 + Width(family, line.arguments[1])
            swapped == TakeAt(family, TakeAt(family, Loop, line.arguments, second),
                              line.arguments, 1)
        IN
        /\ ~swapped.refused /\ swapped.pending = None
        /\ (Finish(family, swapped.env) = env)
             <=> ~OrderMatters(family, Spoken(family, line.arguments, 1),
                                       Spoken(family, line.arguments, second))

\* A command that answers with exit code 2 has left nothing behind, also
\* where the answer comes from the handler (a plugin or a limit that was not
\* confirmed, main.cpp:1381 and 1400; an action of the shell, main.cpp:941).
RefusalTouchesNothing == exit = 2 => kept = <<>>

Rules == {"rule", "block", "unblock"}
Changed == ToSet(kept) \cap Rules # {}
Imported ==
    /\ line.family = "security" /\ Given(env, "import_inventory")
    /\ "database" \in ToSet(kept)

\* Nothing is applied unless the line says --apply, after any --dry-run, and
\* is confirmed or names a saved rule; an inventory import asks for no
\* confirmation and a later --dry-run does not stop it, nor does one stop a
\* router plugin (main.cpp:5798, 8870).
AppliedOnlyIfAsked ==
    /\ Changed =>
          /\ Said("--apply")
          /\ Said("--confirm") \/ Said("--saved-rule")
          /\ \/ SaidAfter("--apply", "--dry-run")
             \/ line.family = "bandwidth" /\ line.sub = "plugin"
    /\ Imported => Said("--apply")

\* Without --mock no command changes a network, except that a router plugin
\* and the two limit backends that stand for one apply their fixture
\* (bandwidth_source.cpp:1509, 1820, 1927).
LiveChangesNothing ==
    Changed /\ ~Said("--mock") =>
        /\ line.family = "bandwidth"
        /\ \/ line.sub = "plugin"
           \/ line.sub = "limit" /\ LimitBackend(Val(env, "--backend", "mock"))
                                      \in {"mock", "router-plugin"}

\* The hours of a window, walked one by one round the clock.
Walk(w) == {(w.start + k) % 24 : k \in 0 .. ((w.end + 24 - w.start) % 24) - 1}

\* Downtime blocks a device exactly while the clock is in an hour of one of
\* its windows, on a day named for it or when no day is known, and an
\* emergency ends every block; otherwise, also when the clock or the window
\* has no time that can be read, it asks for the block to end.
BlocksOnlyInWindow ==
    LET inside == \E w \in DowntimeWindows(env) :
                      /\ moment.time \in Walk(w)
                      /\ AnyDay \in w.days \/ moment.day \in w.days \cup {NoDay}
        blocking == inside /\ ~On(env, "--emergency-disable")
    IN
    /\ "block" \in ToSet(kept) => blocking
    /\ "unblock" \in ToSet(kept) => ~blocking

Rank ==
    [state \in {"ok", "warning", "quota-exceeded"} |->
        CASE state = "ok" -> 0 [] state = "warning" -> 1 [] state = "quota-exceeded" -> 2]
Amounts == 0 .. 10 * Gigabyte

\* While a quota rule is active, more use never makes its state milder, and
\* the use that exceeds the quota was preceded by a warning, unless the line
\* puts the warning at the quota itself (diagnostic_tools_stub.cpp:5847).
QuotaWarnsFirst ==
    phase = "handler" /\ line.family = "security" /\ Given(env, "quota") =>
        \A rule \in QuotaRules(env) :
            LET state(used) == UsageState(rule, used, TRUE) IN
            /\ \A u \in Amounts \ {0} : Rank[state(u - 1)] <= Rank[state(u)]
            /\ \/ rule.warning = EffectiveQuota(rule)
               \/ \E u \in Amounts : state(u) = "warning"

\* What a failing command may leave behind besides a line in the history:
\* the report it wrote before it looked, the state of a tray it could not
\* log, the first of several rollups or files, the import whose report could
\* not be written, the rules of a recognition.
CleanFailure ==
    exit \in {3, 4} =>
        \/ ToSet(kept) \subseteq {"history"}
        \/ line.family \in {"agent", "simulation", "privacy", "audit", "release"}
        \/ line.family \in {"tray", "startTray"}
        \/ line.family = "gui" /\ line.sub \in {"accessibility", "action"}
        \/ line.family = "bandwidth" /\ line.sub = "rollups"
        \/ line.family = "presence" /\ line.sub = "history"
        \/ line.family = "security" /\ {"import_inventory", "recognize"} \cap DOMAIN env # {}

\* The catalogue of the shell's actions says of every one of them that it
\* supports a dry run (gui_shell.cpp:655): then a dry run starts nothing,
\* sends nothing and measures nothing.
DryRunChangesNothing ==
    line.family = "gui" /\ line.sub = "action" /\ DryRun(env)
        => ToSet(kept) \subseteq {"history"}

=============================================================================
