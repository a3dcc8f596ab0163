--------------------------- MODULE CommandOptions ---------------------------
(***************************************************************************)
(* The options of the NetSentinel11 command line (src/src/app/main.cpp).   *)
(* Every command has a loop of its own over its arguments; a table below   *)
(* is a stretch of such a loop, in the order of the source, and maps an    *)
(* option to the kind of value it takes.                                   *)
(***************************************************************************)
EXTENDS Naturals

-----------------------------------------------------------------------------
(* Values.  A word of the command line is any string; these are numbers,  *)
(* converted by std::stoull, std::stoll, std::stod or std::stoul, which    *)
(* stop at the first character that cannot belong to one ("22:00-06:00" is *)
(* twenty-two) and which, when unsigned, wrap a minus sign round.          *)

Windows == {"22:00-06:00", "08:00-18:00"}
Numerals == {"0", "5"} \cup Windows
Unsigned == Numerals \cup {"-1"}

\* A downtime window only needs a dash inside: in this one are no times.
Timeless == "noon-dusk"
Spans == Windows \cup {Timeless}

\* The words each kind of value accepts, other than text, which takes any.
Accepted ==
    [positive |-> Unsigned \ {"0"},
     natural  |-> Unsigned,
     word32   |-> Unsigned,
     millis   |-> Numerals,
     percent  |-> Numerals,
     rate     |-> Numerals,
     quota    |-> Numerals \ {"0"},
     port     |-> Numerals \ {"0"},
     ports    |-> Numerals \ {"0"},
     duration |-> Numerals \ {"0"},
     real     |-> Unsigned,
     window   |-> Spans,
     bool     |-> {"0", "true"},
     preset   |-> {"router"},
     profile  |-> {"manual", "quick", "monitor"}]

\* Quiet hours only need a dash somewhere, so that a negative number or the
\* name of another option will do.
HasDash(word) == word \in Spans \cup {"-1", "--mock"}

Accepts(kind, word) ==
    \/ kind = "text"
    \/ kind = "range" /\ HasDash(word)
    \/ kind \in DOMAIN Accepted /\ word \in Accepted[kind]

-----------------------------------------------------------------------------
(* Options.  A flag or a word stands alone; the others take a value, given *)
(* as the next argument or, where joined is true, also after an equals     *)
(* sign.                                                                   *)

\* f, and g where f says nothing.
f ++ g == [x \in DOMAIN f \cup DOMAIN g |-> IF x \in DOMAIN f THEN f[x] ELSE g[x]]

Table(kind, joined, names) == [n \in names |-> [kind |-> kind, joined |-> joined]]

Flag(names) == Table("flag", FALSE, names)
Word(names) == Table("word", FALSE, names)
Take(kind, names) == Table(kind, TRUE, names)
TakeNext(kind, names) == Table(kind, FALSE, names)

-----------------------------------------------------------------------------
\* Scanning.

ScopeOptions ==
    Flag({"--mock", "--confirm", "--allow-non-local"})
    ++ Take("text", {"--custom"})

ScanTargets ==
    Flag({"--mock"})
    ++ TakeNext("text", {"--target", "--community", "--version"})
    ++ Take("text", {"--scope"})

ScanLimits ==
    Take("positive", {"--concurrency", "--qps"})
    ++ Take("millis", {"--jitter-min", "--jitter-max"})

ScanProfile ==
    Take("profile", {"--profile"})
    ++ Take("positive", {"--timeout"})

MonitorTargets ==
    Flag({"--mock"})
    ++ Take("text", {"--scope"})

MonitorLimits ==
    Take("positive", {"--concurrency", "--qps"})
    ++ Take("millis", {"--jitter-min", "--jitter-max"})

MonitorSchedule ==
    Take("profile", {"--profile"})
    ++ Take("natural", {"--interval"})
    ++ Take("positive", {"--max-runs", "--timeout"})
    ++ Flag({"--continuous", "--allow-metered"})
    ++ TakeNext("text", {"--snmp-target", "--snmp-community", "--snmp-version"})

\* The tray service and its alerts.

TrayFlags ==
    Flag({"--mock"})

TrayHardening ==
    Flag({"--mock"})
    ++ Take("text", {"--output"})

TrayStart ==
    Flag({"--mock"})
    ++ Take("text", {"--profile", "--scope"})
    ++ Take("natural", {"--interval", "--restart-limit"})

AlertChannels ==
    Flag({"--mock", "--toast", "--no-toast"})
    ++ TakeNext("text", {"--email-from", "--email-to", "--webhook-url"})
    ++ Take("natural", {"--max-rate"})

AlertText ==
    Take("text", {"--kind", "--target", "--message"})

\* Diagnostics.

SpeedOptions ==
    Flag({"--mock"})
    ++ Take("text", {"--endpoint"})
    ++ Take("positive", {"--samples", "--retention"})
    ++ Take("natural", {"--timeout-ms"})

OutageOptions ==
    Flag({"--mock"})
    ++ Take("text", {"--gateway", "--dns", "--external", "--host"})
    ++ Take("natural", {"--timeout-ms"})

PingOptions ==
    Flag({"--mock"})
    ++ Take("text", {"--target"})
    ++ Take("positive", {"--count"})
    ++ Take("natural", {"--timeout-ms"})

TracerouteOptions ==
    Flag({"--mock"})
    ++ Take("text", {"--target"})
    ++ Take("positive", {"--max-hops"})
    ++ Take("natural", {"--timeout-ms"})

DnsOptions ==
    Flag({"--mock", "--reverse"})
    ++ Take("text", {"--target", "--resolver"})
    ++ Take("positive", {"--max-records"})

BenchmarkOptions ==
    Flag({"--mock"})
    ++ Take("text", {"--resolver", "--query"})
    ++ Take("positive", {"--samples"})
    ++ Take("natural", {"--timeout-ms"})

DhcpOptions ==
    Flag({"--mock", "--allow-multiple-check"})
    ++ Take("text", {"--adapter"})

WifiOptions ==
    Word({"analyze", "environment", "sweetspot"})
    ++ Flag({"--mock", "--include-hidden"})
    ++ Take("text", {"--location", "--timestamp", "--output"})

PortsOptions ==
    Flag({"--mock", "--banner"})
    ++ Word({"identify"})
    ++ TakeNext("text", {"--target"})
    ++ TakeNext("preset", {"--preset"})
    ++ TakeNext("ports", {"--ports"})
    ++ TakeNext("positive", {"--concurrency"})

\* The security commands share one block: its fourteen subcommands are
\* ordinary words of the argument list, wherever they stand in it.

SecuritySubcommands ==
    Word({"router", "upnp", "camera", "lifecycle", "cve", "recognize",
          "recognition", "import-inventory", "import", "health", "control",
          "downtime", "quota", "autoblock"})

SecurityApply ==
    Flag({"--dry-run", "--apply", "--confirm", "--mock", "--alert-only",
          "--enforce", "--saved-rule"})
    ++ Take("text", {"--backend", "--endpoint", "--credential-ref", "--rule-id",
                     "--action"})

SecurityTargets ==
    Take("text", {"--target-ip", "--device-id", "--profile", "--method",
                  "--router-plugin", "--router-user", "--router-password"})
    ++ Take("rate", {"--download-kbps", "--upload-kbps"})

SecuritySchedule ==
    Take("text", {"--schedule", "--days", "--now", "--user", "--group"})
    ++ Take("window", {"--window"})

SecurityQuota ==
    Take("quota", {"--quota-mb", "--warning-mb"})
    ++ Take("text", {"--label"})
    ++ Flag({"--emergency-disable"})

SecurityDetectors ==
    Flag({"--no-mdns", "--no-ssdp", "--no-port-hints", "--privacy-mode",
          "--rental", "--rental-mode", "--include-unknown-iot",
          "--no-unknown-iot", "--no-unknown", "--no-possible"})
    ++ Take("text", {"--catalog", "--reference-date", "--recognition-db",
                     "--learn-device-id"})

SecurityLearning ==
    Take("text", {"--learn-hostname", "--learn-vendor", "--learn-type",
                  "--learn-labels", "--import", "--export", "--input",
                  "--output-db", "--format"})

SecurityPaths ==
    TakeNext("port", {"--port"})
    ++ Take("text", {"--gateway", "--db", "--output"})

\* The inventory and what is built on it.

InventoryEdit ==
    TakeNext("text", {"--type", "--labels"})
    ++ TakeNext("percent", {"--importance"})
    ++ TakeNext("bool", {"--hide", "--stale"})

WorkspaceKey ==
    Take("text", {"--db", "--id", "--gateway-mac", "--subnet", "--ssid",
                  "--label"})

WorkspaceSettings ==
    Take("bool", {"--monitoring"})
    ++ Take("natural", {"--limit"})
    ++ Take("text", {"--profile", "--notes", "--input", "--output"})
    ++ Flag({"--mock"})

WorkspaceSite ==
    Take("text", {"--consultant", "--site", "--site-name", "--cidr",
                  "--owner", "--tags", "--issue-state", "--template"})

WorkspaceScan ==
    Take("natural", {"--scan-id"})
    ++ Take("text", {"--status", "--summary"})

SearchWords ==
    Word({"list", "save", "run"})
    ++ Take("text", {"--db", "--id"})

SearchQuery ==
    Take("text", {"--name", "--preset", "--vendor", "--os", "--text",
                  "--network"})
    ++ Flag({"--all"})

\* Agents, the local API, reports and the GUI shell.

AgentOptions ==
    Flag({"--mock", "--real"})
    ++ Take("text", {"--collector-id", "--agent-id", "--agent-kind",
                     "--server-cert", "--client-cert", "--token", "--signature",
                     "--permission", "--output"})

ApiConfig ==
    Flag({"--enabled", "--apply"})
    ++ Take("text", {"--bind", "--token", "--request-token", "--csrf",
                     "--request-csrf", "--permission"})

ApiRequest ==
    Take("word32", {"--rate-limit", "--requests-in-window"})
    ++ Take("text", {"--method", "--path", "--db"})

SimulationOptions ==
    Flag({"--mock"})
    ++ Take("text", {"--output"})
    ++ Take("natural", {"--max-runtime-ms"})

PrivacyOptions ==
    Flag({"--mock", "--export", "--ack-export"})
    ++ Take("text", {"--report-type", "--log-line", "--output"})

ReportOptions ==
    Flag({"--mock"})
    ++ Take("text", {"--type", "--format", "--db", "--output", "--gateway"})

GuiAction ==
    Flag({"--demo", "--apply", "--confirm", "--mock", "--low-resource",
          "--high-contrast"})
    ++ Take("text", {"--db", "--gateway", "--id", "--target", "--token"})

GuiDisplay ==
    Take("text", {"--language", "--output", "--report-type",
                  "--report-format", "--filter", "--search", "--vendor",
                  "--network", "--sort"})
    ++ Take("real", {"--dpi-scale"})
    ++ Flag({"--all"})

\* Release work.

AuditOptions ==
    Take("text", {"--output"})

ReleaseOptions ==
    Flag({"--mock", "--qt-gui", "--npcap", "--router-integrations",
          "--no-service", "--no-tray"})
    ++ Take("text", {"--output", "--changelog"})

InstallerOptions ==
    Take("text", {"--format", "--scope", "--install-location"})
    ++ Flag({"--no-service", "--no-tray", "--require-npcap", "--firewall",
             "--auto-update"})

HardeningOptions ==
    Flag({"--mock", "--no-cameras", "--no-iot"})
    ++ Take("text", {"--subnet"})
    ++ Take("positive", {"--devices"})
    ++ Take("word32", {"--seed"})

\* Bandwidth.

BandwidthSources ==
    Flag({"--mock", "--dry-run", "--unsupported-firmware", "--enable"})
    ++ Take("text", {"--timestamp", "--endpoint", "--transport", "--bind"})
    ++ Take("port", {"--port"})

BandwidthRequest ==
    Flag({"--confirm", "--apply", "--assume-mirrored", "--no-counters"})
    ++ Take("text", {"--backend", "--action", "--operation", "--plugin",
                     "--target", "--target-ip", "--adapter", "--router",
                     "--gateway"})

BandwidthRules ==
    Take("text", {"--credential-ref", "--rule-id", "--retention-cutoff",
                  "--db"})
    ++ Flag({"--saved-rule", "--persist", "--privacy-redact"})
    ++ Take("rate", {"--download-kbps", "--upload-kbps"})

BandwidthNumbers ==
    TakeNext("natural", {"--previous-rx", "--previous-tx"})
    ++ TakeNext("duration", {"--elapsed-sec"})
    ++ Flag({"--no-low-confidence"})
    ++ Take("positive", {"--top"})
    ++ Take("natural", {"--spike-rx"})

BandwidthAnomaly ==
    Take("natural", {"--upload", "--quiet-baseline", "--quiet-active"})
    ++ Flag({"--mock-installed", "--mock-missing", "--mock-admin", "--mock-user",
             "--no-unsupported-adapter"})

\* Time line and presence.

TimelineOptions ==
    Take("text", {"--network", "--device", "--type", "--from", "--to"})

PresenceNotify ==
    Flag({"--mock", "--opt-in", "--apply-retention", "--include-unlabeled"})
    ++ Take("text", {"--profile", "--event", "--label", "--device-id"})
    ++ Take("range", {"--quiet-hours"})

PresenceHistory ==
    Take("text", {"--db", "--network", "--now"})
    ++ Take("natural", {"--retention-days"})

-----------------------------------------------------------------------------
(* The table of each loop.                                                 *)

Options ==
    [interfaces    |-> Flag({"--mock"}),
     scope         |-> ScopeOptions,
     scan          |-> ScanTargets ++ ScanLimits ++ ScanProfile,
     monitor       |-> MonitorTargets ++ MonitorLimits ++ MonitorSchedule,
     tray          |-> TrayFlags,
     hardenTray    |-> TrayHardening,
     startTray     |-> TrayStart,
     alerts        |-> AlertChannels ++ AlertText,
     speed         |-> SpeedOptions,
     outage        |-> OutageOptions,
     ping          |-> PingOptions,
     traceroute    |-> TracerouteOptions,
     dns           |-> DnsOptions,
     benchmark     |-> BenchmarkOptions,
     dhcp          |-> DhcpOptions,
     wifi          |-> WifiOptions,
     ports         |-> PortsOptions,
     security      |-> SecuritySubcommands ++ SecurityApply ++ SecurityTargets
                       ++ SecuritySchedule ++ SecurityQuota
                       ++ SecurityDetectors ++ SecurityLearning
                       ++ SecurityPaths,
     listInventory |-> Flag({"--all"}),
     editInventory |-> InventoryEdit,
     markInventory |-> Flag({"--off"}),
     workspace     |-> WorkspaceKey ++ WorkspaceSettings ++ WorkspaceSite
                       ++ WorkspaceScan,
     search        |-> SearchWords ++ SearchQuery,
     agent         |-> AgentOptions,
     api           |-> ApiConfig ++ ApiRequest,
     simulation    |-> SimulationOptions,
     privacy       |-> PrivacyOptions,
     report        |-> ReportOptions,
     gui           |-> GuiAction ++ GuiDisplay,
     audit         |-> AuditOptions,
     release       |-> ReleaseOptions,
     installer     |-> InstallerOptions,
     hardening     |-> HardeningOptions,
     bandwidth     |-> BandwidthSources ++ BandwidthRequest ++ BandwidthRules
                       ++ BandwidthNumbers ++ BandwidthAnomaly,
     timeline      |-> TimelineOptions,
     presence      |-> PresenceNotify ++ PresenceHistory]

=============================================================================
