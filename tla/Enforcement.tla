----------------------------- MODULE Enforcement -----------------------------
(***************************************************************************)
(* Who may be blocked, when, and on whose word: the decisions of           *)
(* NetSentinel11 that could change a network.  Internet control, parental  *)
(* downtime, usage quotas and the removal of port mappings are in          *)
(* src/src/diagnostics, router plugins, bandwidth limits and the           *)
(* autoblock policy in src/src/bandwidth, the actions of the shell in      *)
(* src/src/ui.                                                             *)
(*                                                                         *)
(* A request is a record; a decision is an outcome: whether it succeeded,  *)
(* whether something was applied, and whether a confirmation was missed.   *)
(* Each is a list of refusals, then of what is done with the rest.         *)
(***************************************************************************)
EXTENDS Naturals, Sequences, FiniteSets

Outcome(ok, applied, unconfirmed) ==
    [ok |-> ok, applied |-> applied, unconfirmed |-> unconfirmed]

Refused == Outcome(FALSE, FALSE, FALSE)
\* Fault: it is applied before the confirmation is asked for.
ConfirmedTooLate == Outcome(FALSE, TRUE, TRUE)
Unconfirmed == Outcome(FALSE, FALSE, TRUE)
Planned == Outcome(TRUE, FALSE, FALSE)
Applied == Outcome(TRUE, TRUE, FALSE)

\* A word that names a method the safety contract forbids.
Forbidden == "mitm"

-----------------------------------------------------------------------------
(* Internet control.                                                       *)

NormalBackend(word) ==
    CASE word \in {"", "advice", "advisory"} -> "advisory"
      [] word \in {"firewall", "windows-firewall-local"} -> "windows-firewall-local"
      [] word \in {"router", "router-plugin"} -> "router-plugin"
      [] OTHER -> word

NormalAction(word) ==
    CASE word \in {"", "deny", "block"} -> "block"
      [] word \in {"allow", "unblock"} -> "unblock"
      [] word \in {"throttle", "limit"} -> "limit"
      [] OTHER -> word

\* What no backend accepts.
ControlMalformed(r) ==
    \/ Forbidden \in {r.method, r.backend, r.action}
    \/ NormalBackend(r.backend) \notin {"advisory", "windows-firewall-local", "router-plugin"}
    \/ NormalAction(r.action) \notin {"block", "unblock", "limit"}
    \/ ~(r.ip \/ r.named)
    \/ NormalAction(r.action) = "limit" /\ ~r.rates

\* Fault: a confirmed change is made outside mock mode, too.
FirewallWhenConfirmed(r) ==
    IF ~r.ip \/ NormalAction(r.action) = "limit" THEN Refused
    ELSE IF r.dry_run THEN Planned
    ELSE IF ~r.confirm THEN Unconfirmed
    ELSE Applied

\* The local firewall needs an address, cannot limit, and is only ever
\* changed in mock mode.
FirewallControl(r) ==
    IF ~r.ip \/ NormalAction(r.action) = "limit" THEN Refused
    ELSE IF r.dry_run THEN Planned
    ELSE IF ~r.confirm THEN Unconfirmed
    ELSE IF r.mock THEN Applied
    ELSE Refused

\* The router is only ever planned for.
RouterControl(r) ==
    IF ~r.credentials THEN Refused
    ELSE IF r.dry_run THEN Planned
    ELSE IF ~r.confirm THEN Unconfirmed
    ELSE Refused

RunInternetControl(r) ==
    IF ControlMalformed(r) THEN Refused
    ELSE IF NormalBackend(r.backend) = "advisory" THEN Planned
    ELSE IF NormalBackend(r.backend) = "windows-firewall-local" THEN FirewallControl(r)
    ELSE RouterControl(r)

-----------------------------------------------------------------------------
(* Parental downtime.  A moment is a day and an hour of that day; a clock  *)
(* that names no day matches them all, a time that is none is in no window.*)

AnyDay == "all"
NoDay == ""
NoTime == 24

DaysMatch(days, day) == days = {AnyDay} \/ day = NoDay \/ day \in days

\* Fault: a window past midnight ends there.
InsideOneDay(start, end, now) == start <= now /\ (now < end \/ end < start)

TimeInside(start, end, now) ==
    /\ NoTime \notin {start, end, now}
    /\ \/ start < end /\ start <= now /\ now < end
       \/ start > end /\ (start <= now \/ now < end)

WindowActive(w, now) ==
    DaysMatch(w.days, now.day) /\ TimeInside(w.start, w.end, now.time)

DowntimeActive(windows, emergency, now) ==
    ~emergency /\ \E w \in windows : WindowActive(w, now)

\* The schedule asks internet control for a block inside a window and for
\* its end outside; a control that fails is noted and the schedule succeeds.
DowntimeControl(r, active) ==
    RunInternetControl([r EXCEPT !.action = IF active THEN "block" ELSE "unblock",
                                 !.method = "", !.rates = FALSE,
                                 !.credentials = FALSE, !.named = TRUE])

RunParentalDowntime(r, windows, emergency, now) ==
    IF ~r.mock THEN Refused
    ELSE Outcome(TRUE,
                 DowntimeControl(r, DowntimeActive(windows, emergency, now)).applied,
                 FALSE)

-----------------------------------------------------------------------------
(* Usage quotas, in units of 32 MiB, the largest the built-in rules allow. *)

DefaultWarning(quota) == (quota * 4) \div 5

Gigabyte == 32

DefaultQuota(profile) ==
    CASE profile = "guest" -> 1 * Gigabyte
      [] profile = "work" -> 10 * Gigabyte
      [] OTHER -> 3 * Gigabyte

\* The rules there are when the line gives none.
DefaultRules ==
    {[profile |-> "family", quota |-> 3 * Gigabyte, warning |-> 75],
     [profile |-> "guest", quota |-> 1 * Gigabyte, warning |-> 25],
     [profile |-> "work", quota |-> 10 * Gigabyte, warning |-> 8 * Gigabyte]}

EffectiveQuota(rule) ==
    IF rule.quota = 0 THEN DefaultQuota(rule.profile) ELSE rule.quota

\* Fault: a warning above the quota is kept.
WarningAsGiven(rule) ==
    IF rule.warning # 0 THEN rule.warning ELSE DefaultWarning(EffectiveQuota(rule))

EffectiveWarning(rule) ==
    LET quota == EffectiveQuota(rule) IN
        IF rule.warning \in 1 .. quota THEN rule.warning ELSE DefaultWarning(quota)

UsageState(rule, used, active) ==
    IF ~active THEN "inactive"
    ELSE IF used >= EffectiveQuota(rule) THEN "quota-exceeded"
    ELSE IF used >= EffectiveWarning(rule) THEN "warning"
    ELSE "ok"

-----------------------------------------------------------------------------
(* Port mappings of the router.  selected: whether a mapping matches the   *)
(* ports asked for.                                                        *)

RunUpnpManagement(r, selected) ==
    IF ~r.mock THEN Refused
    ELSE IF ~selected \/ r.dry_run THEN Planned
    ELSE IF ~r.confirm THEN Unconfirmed
    ELSE Applied

-----------------------------------------------------------------------------
(* Router plugins.  A plugin without the implemented flag runs only in     *)
(* mock mode; what else its capabilities declare is not looked at.         *)

PluginImplemented ==
    [plugin \in {"mock-router", "openwrt-readonly-fixture", "unifi"} |->
        plugin # "unifi"]

RunRouterPlugin(r) ==
    IF r.plugin \notin DOMAIN PluginImplemented THEN Refused
    ELSE IF ~PluginImplemented[r.plugin] /\ ~r.mock THEN Refused
    ELSE IF r.operation \in {"list", "telemetry"} THEN Planned
    ELSE IF r.operation \notin {"block", "unblock", "limit"} \/ ~r.target THEN Refused
    ELSE IF r.dry_run THEN Planned
    ELSE IF ~r.confirm THEN Unconfirmed
    ELSE Applied

-----------------------------------------------------------------------------
(* Safe bandwidth limits.                                                  *)

LimitBackends == {"mock", "openwrt", "windows-firewall-local", "pihole", "adguard"}
CannotLimit == {"windows-firewall-local", "pihole", "adguard"}
NotImplemented == {"pihole", "adguard"}

LimitBackend(word) ==
    CASE word \in {"", "mock"} -> "mock"
      [] word \in {"router", "router-plugin"} -> "router-plugin"
      [] OTHER -> word

LimitAction(word) ==
    CASE word \in {"", "throttle", "limit"} -> "limit"
      [] word \in {"block", "pause"} -> "pause"
      [] word \in {"unblock", "resume"} -> "resume"
      [] OTHER -> word

LimitMalformed(r) ==
    LET backend == LimitBackend(r.backend)
        action == LimitAction(r.action)
    IN
    \/ Forbidden \in {r.backend, r.action, r.endpoint, r.rule_id}
    \/ backend \notin LimitBackends \cup {"router-plugin"}
    \/ action \notin {"limit", "pause", "resume"}
    \/ ~r.target
    \/ action = "limit" /\ (~r.rates \/ backend \in CannotLimit)
    \/ backend \in NotImplemented /\ ~r.mock

\* The order of the source: a confirmation is missed before the backend
\* looks at what it needs.
RunBandwidthLimit(r) ==
    LET backend == LimitBackend(r.backend) IN
    IF LimitMalformed(r) THEN Refused
    ELSE IF ~r.dry_run /\ ~r.confirm /\ ~r.saved_rule THEN Unconfirmed
    ELSE IF backend \in NotImplemented THEN Refused
    ELSE IF backend = "openwrt" /\ ~r.credentials THEN Refused
    ELSE IF r.dry_run THEN Planned
    ELSE IF backend \in {"mock", "router-plugin"} \/ r.mock THEN Applied
    ELSE Refused

-----------------------------------------------------------------------------
(* Unknown devices.  The policy pauses each of them in turn and goes on    *)
(* when a backend refuses one.                                             *)

IsUnknownDevice(d) ==
    ~d.trusted /\ (d.unclassified \/ d.guest)

RunAutoblock(r, enforce, devices) ==
    LET unknown == SelectSeq(devices, IsUnknownDevice)
        outcome == [i \in DOMAIN unknown |->
                        RunBandwidthLimit([r EXCEPT !.action = "pause", !.target = TRUE])]
    IN
    IF ~r.mock THEN Refused
    ELSE IF ~enforce THEN Planned
    ELSE Outcome(\A i \in DOMAIN unknown : outcome[i].ok,
                 \E i \in DOMAIN unknown : outcome[i].applied,
                 FALSE)

=============================================================================
