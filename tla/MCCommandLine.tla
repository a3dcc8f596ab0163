--------------------------- MODULE MCCommandLine ---------------------------
(***************************************************************************)
(* Instances of CommandLine: every option of every loop alone, with every  *)
(* kind of value; every two options of a loop, in both orders; every       *)
(* command as its usage line has it; and the commands that could change a  *)
(* network, with every choice their decision looks at.                     *)
(***************************************************************************)
EXTENDS CommandLine

MCMoments == [day : {NoDay, "fri", "sat"}, time : {0, 5, 6, 8, 12, 18, 21, 22, 23, NoTime}]

Word1(word) == <<[word |-> word, value |-> ""]>>
Joined(word, value) == <<[word |-> word, value |-> value]>>
Separate(word, value) == Word1(word) \o Word1(value)

Line(family, sub, options) ==
    [family |-> family, sub |-> sub, arguments |-> FlattenSeq(options)]

\* Each set of alternatives contributes one of its members to a line.
Maybe(group) == {<<>>, <<group>>}

LinesOf(sets) ==
    FoldLeft(LAMBDA lines, set : {l \o g : l \in lines, g \in set}, {<<>>}, sets)

\* A subcommand of each loop; the loops without one have "".
SubOf(family) ==
    CASE family = "scan" -> "arp" [] family = "tray" -> "status"
      [] family = "listInventory" -> "list" [] family = "editInventory" -> "edit"
      [] family = "markInventory" -> "hide" [] family = "workspace" -> "upsert"
      [] family = "search" -> "filters" [] family = "gui" -> "shell"
      [] family = "bandwidth" -> "sources" [] family = "presence" -> "notify"
      [] OTHER -> ""

IsFlag(option) == option.kind \in {"flag", "word"}

SomeWords == Unsigned \cup {Timeless, "big", "text", "--mock", "true", "router", "quick"}

\* One option alone: bare, or with every word after it or joined to it.
Alone(f) ==
    UNION {
        {Line(f, SubOf(f), <<g>>) :
            g \in {Word1(o)}
                  \cup (IF IsFlag(Options[f][o]) THEN {Joined(o, "5")}
                        ELSE {Joined(o, w) : w \in SomeWords}
                             \cup {Separate(o, w) : w \in SomeWords})}
        : o \in DOMAIN Options[f]}

\* A value each kind accepts.
Fitting(kind) ==
    CASE kind = "window" -> "08:00-18:00" [] kind = "range" -> "08:00-18:00"
      [] kind = "bool" -> "true" [] kind = "preset" -> "router"
      [] kind = "profile" -> "quick" [] kind = "text" -> "fri" [] OTHER -> "5"

Whole(f, o) ==
    IF IsFlag(Options[f][o]) THEN Word1(o)
    ELSE Separate(o, Fitting(Options[f][o].kind))

\* The same with another value where any word will do.
Other(f, o) ==
    IF Options[f][o].kind = "text" THEN Separate(o, "sat") ELSE Whole(f, o)

Pairs(f) ==
    {Line(f, SubOf(f), <<Whole(f, o), Other(f, p)>>) : o, p \in DOMAIN Options[f]}

\* Values that take back what the order of two options would say.
Same(f, names, word) ==
    {Line(f, SubOf(f), <<Separate(o, word), Separate(p, word)>>) : o, p \in names}

Agreeing ==
    Same("api", {"--token", "--request-token", "--csrf", "--request-csrf"}, "t")
    \cup {Line("security", "", g) :
            g \in {<<Joined("--days", AnyDay), Joined("--window", "08:00-18:00")>>,
                  <<Joined("--window", "08:00-18:00"), Joined("--days", AnyDay)>>}}

-----------------------------------------------------------------------------
(* Commands as they are meant to be used, with and without a report.       *)

\* Subcommands whose lines are further down.
Deferred == {"action", "plugin", "limit"}

\* Options that decide what a handler does, given or not when the loop knows
\* them, and some that a command cannot do without.
Deciding ==
    <<"--mock", "--output", "--changelog", "--custom", "--persist", "--apply-retention",
      "--retention-cutoff", "--id", "--input", "--export", "--all", "--off">>

Needed == <<"--target", "--community", "--kind", "--message">>

Known(f, names) == SelectSeq(names, LAMBDA o : o \in DOMAIN Options[f])

Usual(f) ==
    LET group(o) == IF o = "--kind" THEN Joined(o, "outage") ELSE Whole(f, o)
        alternatives(o) == IF o \in ToSet(Needed) THEN {<<group(o)>>} ELSE {<<>>, <<group(o)>>}
        names == Known(f, Needed \o Deciding)
    IN  LinesOf([i \in DOMAIN names |-> alternatives(names[i])])

Meant ==
    UNION {UNION {{Line(f, s, options) : options \in Usual(f)} : s \in Subcommands(f) \ Deferred}
           : f \in DOMAIN Options \ {"security"}}

SecurityMeant ==
    {Line("security", "", <<Word1(w)>> \o options) :
        w \in SecurityWords \cup {"import", "import-inventory"},
        options \in UNION {{<<Word1("--mock")>> \o t, t} :
            t \in {<<>>, <<Joined("--output", "f")>>, <<Word1("--apply")>>,
                   <<Word1("--apply"), Joined("--output-db", "d"), Joined("--output", "f")>>,
                   <<Word1("--apply"), Word1("--dry-run"), Joined("--output-db", "d")>>,
                   <<Joined("--export", "x"), Joined("--output", "f")>>,
                   <<Joined("--db", "d")>>, <<Joined("--learn-device-id", "d")>>}}}

WifiMeant ==
    {Line("wifi", "", <<Word1("--mock"), Word1(w), Joined("--output", "f")>>) :
        w \in {"analyze", "environment", "sweetspot"}}

FilterMeant ==
    {Line("search", "filters", <<Word1(w), Joined("--id", "f")>>) : w \in {"list", "save", "run"}}

-----------------------------------------------------------------------------
(* The commands that decide whether a network is changed.                  *)

Asking ==
    LinesOf(<<Maybe(Word1("--mock")),
              {<<>>, <<Word1("--apply")>>, <<Word1("--dry-run"), Word1("--apply")>>,
               <<Word1("--apply"), Word1("--dry-run")>>},
              Maybe(Word1("--confirm"))>>)

Backends(words) == {<<>>} \cup {<<Joined("--backend", w)>> : w \in words}

ControlLines ==
    LinesOf(<<{<<Word1("control")>>}, Asking,
              Backends({"firewall", "router-plugin", "other"}),
              {<<Joined("--action", a)>> : a \in {"deny", "limit", "mitm"}},
              Maybe(Joined("--target-ip", "ip")), Maybe(Joined("--device-id", "device")),
              {<<>>, <<Joined("--download-kbps", "5"), Joined("--router-user", "u"),
                       Joined("--router-password", "p")>>}>>)

DowntimeLines ==
    LinesOf(<<{<<Word1("downtime")>>},
              {<<Word1("--mock")>>, <<Word1("--mock"), Word1("--apply"), Word1("--confirm")>>,
               <<Word1("--apply")>>, <<Word1("--mock"), Word1("--apply")>>},
              Backends({"firewall"}), Maybe(Joined("--now", "fri 12:00")),
              {<<>>, <<Joined("--window", "08:00-18:00")>>,
               <<Joined("--days", "fri"), Joined("--window", "22:00-06:00")>>,
               <<Joined("--window", "22:00-06:00"), Joined("--days", "fri"),
                 Joined("--window", "08:00-18:00")>>,
               <<Joined("--window", Timeless)>>, <<Joined("--days", "sat")>>},
              Maybe(Word1("--emergency-disable")), Maybe(Joined("--target-ip", "ip"))>>)

QuotaLines ==
    LinesOf(<<{<<Word1("quota"), Word1("--mock")>>},
              {<<>>} \cup {<<Joined("--profile", p)>> : p \in {"guest", "work"}},
              {<<>>} \cup {<<Joined("--quota-mb", w)>> : w \in {"5", "08:00-18:00", "22:00-06:00"}},
              {<<>>} \cup {<<Joined("--warning-mb", w)>> : w \in {"5", "08:00-18:00", "22:00-06:00"}}>>)

AutoblockLines ==
    LinesOf(<<{<<Word1("autoblock")>>}, Asking, Maybe(Word1("--saved-rule")),
              {<<>>, <<Word1("--enforce")>>, <<Word1("--enforce"), Word1("--alert-only")>>},
              Backends({"openwrt", "pihole", "router-plugin", "windows-firewall-local"}),
              Maybe(Joined("--credential-ref", "c")),
              {<<Joined("--endpoint", w)>> : w \in {"e", Forbidden}}>>)

UpnpLines == LinesOf(<<{<<Word1("upnp")>>}, Asking, Maybe(Joined("--port", "5")), Maybe(Separate("--port", "5"))>>)

PluginLines ==
    LinesOf(<<Asking, {<<Joined("--plugin", p)>> : p \in {"mock-router", "openwrt-readonly-fixture", "unifi", "other"}},
              {<<>>} \cup {<<Joined("--operation", o)>> : o \in {"telemetry", "block", "other"}},
              Maybe(Joined("--target", "device"))>>)

LimitLines ==
    LinesOf(<<Asking, Maybe(Word1("--saved-rule")),
              Backends({"openwrt", "pihole", "router-plugin", "windows-firewall-local", "other"}),
              {<<>>, <<Joined("--action", "pause")>>, <<Joined("--action", "mitm")>>},
              Maybe(Joined("--target", "device")),
              {<<>>, <<Joined("--upload-kbps", "5"), Joined("--endpoint", "e"),
                       Joined("--credential-ref", "c")>>,
               <<Joined("--download-kbps", "5"), Joined("--rule-id", Forbidden)>>}>>)

ActionIds ==
    {"monitoring.start", "monitoring.stop", "alert.test", "diagnostics.ping",
     "diagnostics.traceroute", "diagnostics.dns", "diagnostics.dhcp", "diagnostics.service",
     "diagnostics.wifi", "speed.run", "report.generate", "api.status", "scan.trigger",
     "security.control", "outage.check", "other"}

ActionLines ==
    LinesOf(<<{<<Joined("--id", i)>> : i \in ActionIds}, Maybe(Word1("--mock")),
              Maybe(Word1("--apply")), Maybe(Word1("--confirm")),
              {<<>>, <<Joined("--target", "8.8.8.8")>>}>>)

Enforcing ==
    {Line("security", "", o) : o \in ControlLines \cup DowntimeLines \cup QuotaLines
                                     \cup AutoblockLines \cup UpnpLines}
    \cup {Line("bandwidth", "plugin", o) : o \in PluginLines}
    \cup {Line("bandwidth", "limit", o) : o \in LimitLines}

Acting == {Line("gui", "action", o) : o \in ActionLines}

MCLines ==
    {Alone(f) : f \in DOMAIN Options} \cup {Pairs(f) : f \in DOMAIN Options}
    \cup {Agreeing, Meant, SecurityMeant, WifiMeant, FilterMeant, Enforcing, Acting}

MCActions == {Acting}

=============================================================================
