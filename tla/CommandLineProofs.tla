-------------------------- MODULE CommandLineProofs --------------------------
(***************************************************************************)
(* What the decisions of Enforcement promise for every request, whatever   *)
(* its words, its windows and its minute; and what a run of CommandLine    *)
(* may have changed, refused or left behind, whatever its arguments.       *)
(***************************************************************************)
EXTENDS CommandLine, FiniteSetTheorems, SequenceTheorems, TLAPS

\* Which fields an outcome has, and which outcomes apply something.
LEMMA Outcomes ==
    /\ ~Refused.applied /\ ~Refused.ok /\ ~Refused.unconfirmed
    /\ ~Unconfirmed.applied /\ ~Unconfirmed.ok /\ Unconfirmed.unconfirmed
    /\ ~Planned.applied /\ Planned.ok /\ ~Planned.unconfirmed
    /\ Applied.applied /\ Applied.ok /\ ~Applied.unconfirmed
  BY DEF Outcome, Refused, Unconfirmed, Planned, Applied

-----------------------------------------------------------------------------
(* Internet control.                                                       *)

\* Requests whose words are of some set.
Requests(words) ==
    [mock : BOOLEAN, dry_run : BOOLEAN, confirm : BOOLEAN, backend : words,
     action : words, method : words, ip : BOOLEAN, named : BOOLEAN,
     rates : BOOLEAN, credentials : BOOLEAN]

LEMMA FirewallApplies ==
    ASSUME NEW r, FirewallControl(r).applied
    PROVE  r.mock /\ r.confirm /\ ~r.dry_run /\ r.ip
  BY Outcomes DEF FirewallControl

LEMMA RouterNeverApplies ==
    ASSUME NEW r
    PROVE  ~RouterControl(r).applied
  BY Outcomes DEF RouterControl

\* Internet control changes a network only in mock mode, after a
\* confirmation, outside a dry run, through the local firewall and for a
\* target that has an address (diagnostic_tools_stub.cpp:5251-5335).
THEOREM ControlApplies ==
    ASSUME NEW r, RunInternetControl(r).applied
    PROVE  /\ r.mock /\ r.confirm /\ ~r.dry_run /\ r.ip
           /\ NormalBackend(r.backend) = "windows-firewall-local"
           /\ NormalAction(r.action) \in {"block", "unblock"}
<1>1. ~ControlMalformed(r)
  BY Outcomes DEF RunInternetControl
<1>2. NormalBackend(r.backend) = "windows-firewall-local"
  BY <1>1, Outcomes, RouterNeverApplies DEF RunInternetControl
<1>3. FirewallControl(r).applied
  BY <1>1, <1>2 DEF RunInternetControl
<1>4. NormalAction(r.action) # "limit"
  BY <1>3, Outcomes DEF FirewallControl
<1> QED
  BY <1>1, <1>2, <1>3, <1>4, FirewallApplies DEF ControlMalformed

\* A downtime schedule changes a network only in mock mode, after a
\* confirmation, outside a dry run and for a target that has an address
\* (diagnostic_tools_stub.cpp:5601-5621).
THEOREM DowntimeApplies ==
    ASSUME NEW words, NEW r \in Requests(words), NEW windows, NEW emergency, NEW now,
           RunParentalDowntime(r, windows, emergency, now).applied
    PROVE  r.mock /\ r.confirm /\ ~r.dry_run /\ r.ip
<1> DEFINE active == DowntimeActive(windows, emergency, now)
           q == [r EXCEPT !.action = IF active THEN "block" ELSE "unblock",
                          !.method = "", !.rates = FALSE,
                          !.credentials = FALSE, !.named = TRUE]
<1>1. r.mock
  BY Outcomes DEF RunParentalDowntime
<1>2. DowntimeControl(r, active).applied
  BY <1>1 DEF RunParentalDowntime, Outcome
<1>3. RunInternetControl(q).applied
  BY <1>2 DEF DowntimeControl
<1>4. q.mock = r.mock /\ q.confirm = r.confirm /\ q.dry_run = r.dry_run /\ q.ip = r.ip
  BY DEF Requests
<1> HIDE DEF q
<1> QED
  BY <1>3, <1>4, ControlApplies

\* The two halves of a day: whatever two different times bound a window, a
\* moment is in the window from one to the other or in the one back, and
\* never in both (diagnostic_tools_stub.cpp:5497).
THEOREM WindowsDivideDay ==
    ASSUME NEW start \in 0 .. 23, NEW end \in 0 .. 23, NEW now \in 0 .. 23, start # end
    PROVE  TimeInside(start, end, now) <=> ~TimeInside(end, start, now)
  BY SMT DEF TimeInside, NoTime

-----------------------------------------------------------------------------
(* The removal of port mappings, router plugins and bandwidth limits.      *)

\* A port mapping is removed only in mock mode, after a confirmation and
\* outside a dry run (diagnostic_tools_stub.cpp:2913).
THEOREM UpnpApplies ==
    ASSUME NEW r, NEW selected, RunUpnpManagement(r, selected).applied
    PROVE  r.mock /\ r.confirm /\ ~r.dry_run /\ selected
  BY Outcomes DEF RunUpnpManagement

\* A router plugin applies nothing without a target, in a dry run or
\* unconfirmed (bandwidth_source.cpp:1480-1509).
THEOREM PluginApplies ==
    ASSUME NEW r, RunRouterPlugin(r).applied
    PROVE  r.target /\ r.confirm /\ ~r.dry_run
  BY Outcomes DEF RunRouterPlugin

\* A bandwidth limit is applied only to a target, outside a dry run, after a
\* confirmation or under a saved rule, and outside mock mode only by the two
\* backends that stand for one (bandwidth_source.cpp:1798-1927).
THEOREM LimitApplies ==
    ASSUME NEW r, RunBandwidthLimit(r).applied
    PROVE  /\ r.target /\ ~r.dry_run /\ (r.confirm \/ r.saved_rule)
           /\ r.mock \/ LimitBackend(r.backend) \in {"mock", "router-plugin"}
           /\ LimitBackend(r.backend) \notin NotImplemented
<1>1. ~LimitMalformed(r)
  BY Outcomes DEF RunBandwidthLimit
<1>2. r.target
  BY <1>1 DEF LimitMalformed
<1>3. ~(~r.dry_run /\ ~r.confirm /\ ~r.saved_rule)
  BY <1>1, Outcomes DEF RunBandwidthLimit
<1>4. LimitBackend(r.backend) \notin NotImplemented
  BY <1>1, <1>3, Outcomes DEF RunBandwidthLimit
<1>5. ~r.dry_run
  BY <1>1, <1>3, <1>4, Outcomes DEF RunBandwidthLimit
<1>6. r.mock \/ LimitBackend(r.backend) \in {"mock", "router-plugin"}
  BY <1>1, <1>3, <1>4, <1>5, Outcomes DEF RunBandwidthLimit
<1> QED
  BY <1>2, <1>3, <1>4, <1>5, <1>6

-----------------------------------------------------------------------------
(* Usage quotas.                                                           *)

\* While a quota rule is active its states come in order: once a use has
\* been warned about it stays at least a warning, and once it exceeds the
\* quota it stays so (diagnostic_tools_stub.cpp:5851-5880).
THEOREM QuotaStatesInOrder ==
    ASSUME NEW rule, NEW u \in Nat, NEW v \in Nat, u <= v,
           EffectiveQuota(rule) \in Nat, EffectiveWarning(rule) \in Nat
    PROVE  /\ UsageState(rule, u, TRUE) = "quota-exceeded"
                 => UsageState(rule, v, TRUE) = "quota-exceeded"
           /\ UsageState(rule, u, TRUE) = "warning"
                 => UsageState(rule, v, TRUE) \in {"warning", "quota-exceeded"}
  BY SMT DEF UsageState

\* A warning comes before the quota, wherever the line puts it but at the
\* quota itself: one above the quota is replaced by four fifths of it
\* (diagnostic_tools_stub.cpp:5847).
THEOREM WarningBelowQuota ==
    ASSUME NEW rule, rule.quota \in Nat, rule.warning \in Nat,
           rule.warning # EffectiveQuota(rule)
    PROVE  /\ EffectiveWarning(rule) < EffectiveQuota(rule)
           /\ UsageState(rule, EffectiveWarning(rule), TRUE) = "warning"
<1>1. EffectiveQuota(rule) \in Nat \ {0}
  <2>1. DefaultQuota(rule.profile) \in Nat \ {0}
    BY DEF DefaultQuota, Gigabyte
  <2> QED
    BY <2>1 DEF EffectiveQuota
<1> DEFINE quota == EffectiveQuota(rule)
<1>2. DefaultWarning(quota) \in Nat /\ DefaultWarning(quota) < quota
  BY <1>1, SMT DEF DefaultWarning
<1>3. EffectiveWarning(rule) \in Nat /\ EffectiveWarning(rule) < quota
  BY <1>1, <1>2 DEF EffectiveWarning
<1> QED
  BY <1>1, <1>3 DEF UsageState

-----------------------------------------------------------------------------
(* Calls.                                                                  *)

\* Everything a call may leave behind the process.
Traces ==
    {None, "history", "file", "session", "database", "retention", "rollup", "alert",
     "speed history", "outage log", "rules", "tray state", "tray log", "no tray state",
     "no tray log", "rule", "block", "unblock"}

CallRecord == [keeps : Traces, fails : SUBSET BOOLEAN, code : Nat]

\* What an ordinary failure may leave behind.
Behind == {None, "history"}

\* Calls that leave no more than that, calls that cannot end the command,
\* and calls that cannot refuse it.
Quiet == {c \in CallRecord : c.keeps \in Behind}
Sure == {c \in CallRecord : c.code = 0}
Accepting == {c \in CallRecord : c.code # 2}

\* Only the first call of a handler refuses the command.
RefusesFirst(calls) == \A i \in DOMAIN calls : calls[i].code = 2 => i = 1

\* Before a call that may fail nothing is left but a line in the history.
Tidy(calls) ==
    \A i \in DOMAIN calls :
        calls[i].code \in {3, 4} =>
            \A j \in DOMAIN calls : j < i => calls[j].keeps \in Behind

LEMMA OneCall ==
    ASSUME NEW S, NEW c \in S
    PROVE  <<c>> \in Seq(S)
  OBVIOUS

LEMMA NoCall ==
    ASSUME NEW S
    PROVE  <<>> \in Seq(S)
  OBVIOUS

LEMMA BothCalls ==
    ASSUME NEW S, NEW a \in Seq(S), NEW b \in Seq(S)
    PROVE  a \o b \in Seq(S)
  BY ConcatProperties

LEMMA CallsWhen ==
    ASSUME NEW S, NEW condition, NEW a \in Seq(S)
    PROVE  When(condition, a) \in Seq(S)
  BY DEF When

LEMMA SubCalls ==
    ASSUME NEW S, NEW T, S \subseteq T, NEW a \in Seq(S)
    PROVE  a \in Seq(T)
<1>1. a \in [1 .. Len(a) -> S] /\ Len(a) \in Nat
  BY LenProperties
<1>2. a \in [1 .. Len(a) -> T]
  BY <1>1
<1> QED
  BY <1>1, <1>2, SeqDef

LEMMA AcceptingRefusesFirst ==
    ASSUME NEW a \in Seq(Accepting)
    PROVE  RefusesFirst(a)
<1>1. \A i \in DOMAIN a : a[i] \in Accepting
  BY LenProperties
<1> QED
  BY <1>1 DEF RefusesFirst, Accepting

LEMMA SureTidy ==
    ASSUME NEW a \in Seq(Sure)
    PROVE  Tidy(a)
<1>1. \A i \in DOMAIN a : a[i] \in Sure
  BY LenProperties
<1> QED
  BY <1>1 DEF Tidy, Sure

LEMMA OneTidy ==
    ASSUME NEW c
    PROVE  Tidy(<<c>>)
<1>1. DOMAIN <<c>> = 1 .. 1
  OBVIOUS
<1> QED
  BY <1>1 DEF Tidy

LEMMA NoneTidy == Tidy(<<>>)
<1>1. DOMAIN <<>> = {}
  OBVIOUS
<1> QED
  BY <1>1 DEF Tidy

\* A call of a list put together from two is a call of one of them.
LEMMA JoinedCall ==
    ASSUME NEW S, NEW a \in Seq(S), NEW b \in Seq(S), NEW i \in DOMAIN (a \o b)
    PROVE  /\ i \in Nat
           /\ \/ i \in DOMAIN a /\ (a \o b)[i] = a[i]
              \/ i > Len(a) /\ i - Len(a) \in DOMAIN b /\ (a \o b)[i] = b[i - Len(a)]
<1>1. /\ a \o b \in Seq(S) /\ Len(a \o b) = Len(a) + Len(b)
      /\ \A k \in 1 .. Len(a) + Len(b) :
            (a \o b)[k] = IF k <= Len(a) THEN a[k] ELSE b[k - Len(a)]
  BY ConcatProperties
<1>2. /\ Len(a) \in Nat /\ DOMAIN a = 1 .. Len(a)
      /\ Len(b) \in Nat /\ DOMAIN b = 1 .. Len(b)
      /\ DOMAIN (a \o b) = 1 .. Len(a \o b)
  BY <1>1, LenProperties
<1>3. i \in 1 .. Len(a) + Len(b)
  BY <1>1, <1>2
<1>4. CASE i <= Len(a)
  BY <1>1, <1>2, <1>3, <1>4
<1>5. CASE ~(i <= Len(a))
  BY <1>1, <1>2, <1>3, <1>5
<1> QED
  BY <1>4, <1>5

LEMMA QuietThenTidy ==
    ASSUME NEW a \in Seq(Quiet), NEW b \in Seq(CallRecord), Tidy(b)
    PROVE  Tidy(a \o b)
<1>1. a \in Seq(CallRecord)
  BY SubCalls DEF Quiet
<1>2. /\ Len(a) \in Nat /\ DOMAIN a = 1 .. Len(a)
      /\ \A i \in DOMAIN a : a[i].keeps \in Behind
  BY LenProperties DEF Quiet
<1> SUFFICES ASSUME NEW i \in DOMAIN (a \o b), (a \o b)[i].code \in {3, 4},
                    NEW j \in DOMAIN (a \o b), j < i
             PROVE  (a \o b)[j].keeps \in Behind
  BY DEF Tidy
<1> DEFINE InA(k) == k \in DOMAIN a /\ (a \o b)[k] = a[k]
           InB(k) == /\ k > Len(a) /\ k - Len(a) \in DOMAIN b
                     /\ (a \o b)[k] = b[k - Len(a)]
<1>3. i \in Nat /\ j \in Nat /\ (InA(i) \/ InB(i)) /\ (InA(j) \/ InB(j))
  BY <1>1, JoinedCall
<1>4. CASE InA(j)
  BY <1>2, <1>4
<1>5. CASE InB(j) /\ InB(i)
  <2>1. i - Len(a) \in DOMAIN b /\ j - Len(a) \in DOMAIN b
        /\ b[i - Len(a)].code \in {3, 4}
    BY <1>5
  <2>2. j - Len(a) < i - Len(a)
    BY <1>2, <1>3
  <2> QED
    BY <1>5, <2>1, <2>2 DEF Tidy
<1>6. CASE InB(j) /\ InA(i)
  BY <1>2, <1>3, <1>6
<1> HIDE DEF InA, InB
<1> QED
  BY <1>3, <1>4, <1>5, <1>6

LEMMA TidyThenSure ==
    ASSUME NEW a \in Seq(CallRecord), NEW b \in Seq(Sure), Tidy(a)
    PROVE  Tidy(a \o b)
<1>1. b \in Seq(CallRecord)
  BY SubCalls DEF Sure
<1>2. /\ Len(a) \in Nat /\ DOMAIN a = 1 .. Len(a)
      /\ \A i \in DOMAIN b : b[i].code = 0
  BY LenProperties DEF Sure
<1> SUFFICES ASSUME NEW i \in DOMAIN (a \o b), (a \o b)[i].code \in {3, 4},
                    NEW j \in DOMAIN (a \o b), j < i
             PROVE  (a \o b)[j].keeps \in Behind
  BY DEF Tidy
<1> DEFINE InA(k) == k \in DOMAIN a /\ (a \o b)[k] = a[k]
           InB(k) == /\ k > Len(a) /\ k - Len(a) \in DOMAIN b
                     /\ (a \o b)[k] = b[k - Len(a)]
<1>3. i \in Nat /\ j \in Nat /\ (InA(i) \/ InB(i)) /\ (InA(j) \/ InB(j))
  BY <1>1, JoinedCall
<1>4. InA(i)
  BY <1>2, <1>3
<1>5. InA(j)
  BY <1>2, <1>3, <1>4
<1> QED
  BY <1>4, <1>5 DEF Tidy

LEMMA TwoCalls ==
    ASSUME NEW S, NEW c \in S, NEW d \in S
    PROVE  <<c, d>> \in Seq(S)
  OBVIOUS

LEMMA TwoTidy ==
    ASSUME NEW c \in CallRecord, NEW d \in CallRecord, c \in Quiet \/ d \in Sure
    PROVE  Tidy(<<c, d>>)
<1>1. DOMAIN <<c, d>> = 1 .. 2 /\ <<c, d>>[1] = c /\ <<c, d>>[2] = d
  OBVIOUS
<1> QED
  BY <1>1 DEF Tidy, Quiet, Sure

LEMMA TidyWhen ==
    ASSUME NEW condition, NEW a, Tidy(a)
    PROVE  Tidy(When(condition, a))
  BY NoneTidy DEF When

-----------------------------------------------------------------------------
(* What a handler may leave behind, by the reason there is for it.         *)

\* Calls that change no network, and those of them that leave the database
\* alone, too.
Ordinary == {c \in CallRecord : c.keeps \notin Rules /\ c.code # 2}
Harmless == {c \in Ordinary : c.keeps # "database"}

LEMMA Kinds ==
    /\ Ordinary \subseteq CallRecord /\ Harmless \subseteq Ordinary
    /\ Quiet \subseteq CallRecord /\ Sure \subseteq CallRecord
    /\ Ordinary \subseteq Accepting
  BY DEF Ordinary, Harmless, Quiet, Sure, Accepting

LEMMA Atoms ==
    /\ Look \in Quiet /\ Look \in Harmless
    /\ \A code \in Nat : Return(code) \in Quiet
    /\ \A code \in Nat \ {2} : Return(code) \in Harmless
    /\ \A w \in Traces : Attempt(w) \in Sure /\ Keep(w) \in CallRecord
    /\ \A w \in Traces : Change(w) \in Sure /\ Change(w).keeps = w
    /\ \A w \in Traces \ Rules : Attempt(w) \in Ordinary /\ Keep(w) \in Ordinary
    /\ \A w \in Traces \ (Rules \cup {"database"}) :
            Attempt(w) \in Harmless /\ Keep(w) \in Harmless
    /\ Attempt("history") \in Quiet
<1>1. None \in Traces /\ None \notin Rules /\ None # "database"
      /\ "history" \notin Rules /\ "history" \in Traces
  BY DEF None, Rules, Traces
<1>2. Look \in CallRecord /\ Look.keeps = None /\ Look.code = 3
  BY <1>1 DEF Look, Call, CallRecord
<1>3. \A code \in Nat : /\ Return(code) \in CallRecord /\ Return(code).keeps = None
                        /\ Return(code).code = code
  BY <1>1 DEF Return, Call, CallRecord
<1>4. \A w \in Traces : /\ Attempt(w) \in CallRecord /\ Attempt(w).keeps = w
                        /\ Attempt(w).code = 0
  BY <1>1 DEF Attempt, Call, CallRecord
<1>5. \A w \in Traces : /\ Keep(w) \in CallRecord /\ Keep(w).keeps = w
                        /\ Keep(w).code = 3
  BY <1>1 DEF Keep, Call, CallRecord
<1>6. \A w \in Traces : /\ Change(w) \in CallRecord /\ Change(w).keeps = w
                        /\ Change(w).code = 0
  BY <1>1 DEF Change, Call, CallRecord
<1> QED
  BY <1>1, <1>2, <1>3, <1>4, <1>5, <1>6
  DEF Quiet, Sure, Ordinary, Harmless, Behind

LEMMA HistoryCalls ==
    /\ History \in Seq(Quiet) /\ History \in Seq(Sure) /\ History \in Seq(Harmless)
    /\ Diagnose \in Seq(Quiet) /\ Diagnose \in Seq(Harmless) /\ Tidy(Diagnose)
<1>1. Attempt("history") \in Sure /\ Attempt("history") \in Harmless
      /\ Attempt("history") \in Quiet /\ Look \in Quiet /\ Look \in Harmless
  BY Atoms DEF Rules, Traces
<1>2. /\ History \in Seq(Quiet) /\ History \in Seq(Sure) /\ History \in Seq(Harmless)
      /\ <<Look>> \in Seq(Quiet) /\ <<Look>> \in Seq(Harmless)
  BY <1>1, OneCall DEF History
<1>3. Diagnose \in Seq(Quiet) /\ Diagnose \in Seq(Harmless)
  BY <1>2, BothCalls DEF Diagnose
<1>4. <<Look>> \in Seq(CallRecord) /\ Tidy(<<Look>>)
  BY <1>1, Kinds, OneCall, OneTidy
<1> QED
  BY <1>2, <1>3, <1>4, TidyThenSure DEF Diagnose

LEMMA OutputCalls ==
    ASSUME NEW e
    PROVE  /\ Output(e) \in Seq(Harmless) /\ Output(e) \in Seq(CallRecord)
           /\ Tidy(Output(e))
<1>1. Keep("file") \in Harmless /\ Keep("file") \in CallRecord
  BY Atoms DEF Rules, Traces
<1>2. <<Keep("file")>> \in Seq(Harmless) /\ <<Keep("file")>> \in Seq(CallRecord)
      /\ Tidy(<<Keep("file")>>)
  BY <1>1, OneCall, OneTidy
<1> QED
  BY <1>2, CallsWhen, TidyWhen DEF Output

\* After calls that are quiet the report may be written.
LEMMA QuietThenOutput ==
    ASSUME NEW e, NEW a \in Seq(Quiet), a \in Seq(Harmless)
    PROVE  a \o Output(e) \in Seq(Harmless) /\ Tidy(a \o Output(e))
  BY OutputCalls, BothCalls, QuietThenTidy

-----------------------------------------------------------------------------
(* The handlers that change no network.                                    *)

\* Commands that may fail with more behind them; CleanFailure lists them.
Excused(l, e) ==
    \/ l.family \in {"agent", "simulation", "privacy", "audit", "release"}
    \/ l.family \in {"tray", "startTray"}
    \/ l.family = "gui" /\ l.sub \in {"accessibility", "action"}
    \/ l.family = "bandwidth" /\ l.sub = "rollups"
    \/ l.family = "presence" /\ l.sub = "history"
    \/ l.family = "security" /\ {"import_inventory", "recognize"} \cap DOMAIN e # {}

\* A list of calls that changes no network, and which fails with a line in
\* the history behind it at most.
Clean(calls) == calls \in Seq(Ordinary) /\ Tidy(calls)

LEMMA LookFirst ==
    /\ Clean(<<Look>>)
    /\ \A w \in Traces \ Rules : Clean(<<Keep(w)>>) /\ Clean(<<Attempt(w)>>)
                                /\ Clean(<<Look, Attempt(w)>>)
    /\ Clean(Diagnose)
    /\ <<Look>> \in Seq(Quiet) /\ <<Look>> \in Seq(Harmless)
<1>1. Look \in Quiet /\ Look \in Harmless /\ Look \in Ordinary /\ Look \in CallRecord
  BY Atoms, Kinds
<1>2. ASSUME NEW w \in Traces \ Rules
      PROVE  Clean(<<Keep(w)>>) /\ Clean(<<Attempt(w)>>) /\ Clean(<<Look, Attempt(w)>>)
  <2>1. /\ Keep(w) \in Ordinary /\ Attempt(w) \in Ordinary /\ Attempt(w) \in Sure
        /\ Attempt(w) \in CallRecord
    BY Atoms, Kinds
  <2>2. Tidy(<<Look, Attempt(w)>>)
    BY <1>1, <2>1, TwoTidy
  <2> QED
    BY <1>1, <2>1, <2>2, OneCall, OneTidy, TwoCalls DEF Clean
<1>3. Clean(<<Look>>)
  BY <1>1, OneCall, OneTidy DEF Clean
<1>4. Clean(Diagnose)
  BY HistoryCalls, SubCalls, Kinds DEF Clean
<1> QED
  BY <1>1, <1>2, <1>3, <1>4, OneCall

LEMMA OutputClean ==
    ASSUME NEW e
    PROVE  /\ Clean(Output(e))
           /\ \A a \in Seq(Quiet) : a \in Seq(Harmless) => Clean(a \o Output(e))
<1>1. Clean(Output(e))
  BY OutputCalls, SubCalls, Kinds DEF Clean
<1>2. ASSUME NEW a \in Seq(Quiet), a \in Seq(Harmless)
      PROVE  Clean(a \o Output(e))
  BY <1>2, QuietThenOutput, SubCalls, Kinds DEF Clean
<1> QED
  BY <1>1, <1>2

LEMMA ScopeClean ==
    ASSUME NEW e
    PROVE  Clean(ScopeCalls(e))
<1> DEFINE outside == Call(None, {TRUE, FALSE}, 4)
<1>1. outside \in Ordinary /\ outside \in Quiet
  <2>1. None \in Traces /\ None \in Behind /\ None \notin Rules
    BY DEF Traces, Behind, None, Rules
  <2>2. outside \in CallRecord /\ outside.keeps = None /\ outside.code = 4
    BY <2>1 DEF Call, CallRecord
  <2> QED
    BY <2>1, <2>2 DEF Ordinary, Quiet
<1>2. Look \in Ordinary /\ Look \in Quiet /\ Look \in CallRecord
  BY Atoms, Kinds
<1> HIDE DEF outside
<1>3. /\ <<outside, Look>> \in Seq(Ordinary) /\ <<outside, Look>> \in Seq(Quiet)
      /\ <<Look>> \in Seq(Ordinary) /\ <<Look>> \in Seq(Quiet)
  BY <1>1, <1>2, TwoCalls, OneCall
<1>4. /\ When(~Given(e, "--custom"), <<outside, Look>>) \in Seq(Ordinary)
      /\ When(~Given(e, "--custom"), <<outside, Look>>) \in Seq(Quiet)
  BY <1>3, CallsWhen
<1>5. Tidy(<<outside, Look>>)
  BY <1>1, <1>2, Kinds, TwoTidy
<1>6. Tidy(When(~Given(e, "--custom"), <<outside, Look>>))
  BY <1>5, TidyWhen
<1>7. When(~Given(e, "--custom"), <<outside, Look>>) \in Seq(CallRecord)
  BY <1>4, SubCalls, Kinds
<1> QED
  BY <1>3, <1>4, <1>6, <1>7, BothCalls, QuietThenTidy DEF ScopeCalls, Clean, outside

LEMMA WifiClean ==
    ASSUME NEW e
    PROVE  Clean(WifiCalls(e))
<1>1. History \o <<Look>> \in Seq(Quiet) /\ History \o <<Look>> \in Seq(Harmless)
  BY HistoryCalls, LookFirst, BothCalls
<1>2. Clean(Diagnose \o Output(e)) /\ Clean((History \o <<Look>>) \o Output(e))
  BY <1>1, HistoryCalls, OutputClean
<1> QED
  BY <1>2, LookFirst DEF WifiCalls

\* Subcommands that look, or write one thing.
LEMMA DatabaseClean ==
    ASSUME NEW e
    PROVE  /\ \A f \in {"listInventory", "editInventory", "markInventory"} :
                \A sub \in Subcommands(f) : Clean(InventoryCalls(sub))
           /\ \A sub \in Subcommands("workspace") : Clean(WorkspaceCalls(sub, e))
           /\ Clean(SearchCalls(e))
           /\ \A sub \in Subcommands("scan") : Clean(ScanCalls(sub))
<1>1. Clean(<<Look>>) /\ Clean(<<Keep("database")>>) /\ Clean(<<Look, Attempt("session")>>)
  BY LookFirst DEF Traces, Rules
<1>2. Clean(<<Look>> \o Output(e)) /\ Clean(Output(e))
  BY LookFirst, OutputClean
<1> QED
  BY <1>1, <1>2
  DEF Subcommands, InventoryCalls, WorkspaceCalls, SearchCalls, ScanCalls, SessionCalls,
      ProbeCalls, ListenCalls

\* Those of the excused handlers that change no network.
LEMMA ExcusedOrdinary ==
    ASSUME NEW e
    PROVE  /\ ReviewCalls(e) \in Seq(Ordinary) /\ ReleaseCalls(e) \in Seq(Ordinary)
           /\ \A sub \in Subcommands("tray") : TrayCalls(sub) \in Seq(Ordinary)
           /\ StartTrayCalls \in Seq(Ordinary)
           /\ PresenceHistoryCalls(e) \in Seq(Ordinary)
           /\ RollupCalls(e) \in Seq(Ordinary)
<1>1. /\ \A w \in Traces \ Rules : Keep(w) \in Ordinary /\ Attempt(w) \in Ordinary
      /\ Look \in Ordinary
  BY Atoms, Kinds
<1>2. {"tray state", "tray log", "no tray state", "no tray log", "database", "retention",
       "rollup", "file"} \subseteq Traces \ Rules
  BY DEF Traces, Rules
<1>3. <<Look>> \in Seq(Ordinary) /\ Output(e) \in Seq(Ordinary)
  BY LookFirst, OutputClean DEF Clean
<1>4. ReviewCalls(e) \in Seq(Ordinary)
  BY <1>3, BothCalls DEF ReviewCalls
<1>5. ReleaseCalls(e) \in Seq(Ordinary)
  <2>1. When(Given(e, "--changelog"), <<Keep("file")>>) \in Seq(Ordinary)
    BY <1>1, <1>2, OneCall, CallsWhen
  <2> QED
    BY <1>3, <2>1, BothCalls DEF ReleaseCalls
<1>6. StartTrayCalls \in Seq(Ordinary)
  BY <1>1, <1>2, TwoCalls DEF StartTrayCalls
<1>7. \A sub \in Subcommands("tray") : TrayCalls(sub) \in Seq(Ordinary)
  <2>1. <<Keep("no tray state"), Keep("no tray log")>> \in Seq(Ordinary)
        /\ <<Keep("tray state"), Keep("tray log")>> \in Seq(Ordinary)
    BY <1>1, <1>2, TwoCalls
  <2> QED
    BY <1>3, <2>1 DEF TrayCalls, Subcommands
<1>8. PresenceHistoryCalls(e) \in Seq(Ordinary)
  <2>1. /\ When(On(e, "--mock"), <<Attempt("database")>>) \in Seq(Ordinary)
        /\ When(On(e, "--apply-retention"), <<Keep("retention")>>) \in Seq(Ordinary)
    BY <1>1, <1>2, OneCall, CallsWhen
  <2> QED
    BY <1>3, <2>1, BothCalls DEF PresenceHistoryCalls
<1>9. RollupCalls(e) \in Seq(Ordinary)
  <2>1. When(Given(e, "--retention-cutoff"), <<Keep("retention")>>) \in Seq(Ordinary)
    BY <1>1, <1>2, OneCall, CallsWhen
  <2>2. Keep("rollup") \in Ordinary
    BY <1>1, <1>2
  <2>3. <<Keep("rollup"), Keep("rollup"), Keep("rollup")>> \in Seq(Ordinary)
    BY <2>2
  <2> QED
    BY <1>3, <2>1, <2>3, BothCalls DEF RollupCalls
<1> QED
  BY <1>4, <1>5, <1>6, <1>7, <1>8, <1>9

-----------------------------------------------------------------------------
(* The handlers that may change one.                                       *)

\* An outcome that applies something is a success.
Whole(outcome) == outcome.applied => outcome.ok

LEMMA CarryCases ==
    ASSUME NEW outcome, Whole(outcome), NEW what, NEW unconfirmed
    PROVE  \/ Carry(outcome, what, unconfirmed) = <<>>
           \/ outcome.applied /\ Carry(outcome, what, unconfirmed) = <<Change(what)>>
           \/ /\ ~outcome.applied
              /\ Carry(outcome, what, unconfirmed)
                    \in {<<Return(unconfirmed)>>, <<Return(3)>>}
<1> DEFINE r == <<Return(IF outcome.unconfirmed THEN unconfirmed ELSE 3)>>
           c == <<Change(what)>>
<1>1. r \in {<<Return(unconfirmed)>>, <<Return(3)>>}
  OBVIOUS
<1>2. r \in Seq({Return(IF outcome.unconfirmed THEN unconfirmed ELSE 3)})
      /\ c \in Seq({Change(what)})
  OBVIOUS
<1> HIDE DEF r, c
<1>3. <<>> \o <<>> = <<>> /\ c \o <<>> = c /\ <<>> \o r = r
  BY <1>2, ConcatEmptySeq, EmptySeq
<1>4. Carry(outcome, what, unconfirmed) = When(outcome.applied, c) \o When(~outcome.ok, r)
  BY DEF Carry, c, r
<1>5. CASE outcome.applied
  BY <1>3, <1>4, <1>5 DEF When, Whole, c
<1>6. CASE ~outcome.applied /\ outcome.ok
  BY <1>3, <1>4, <1>6 DEF When
<1>7. CASE ~outcome.applied /\ ~outcome.ok
  BY <1>1, <1>3, <1>4, <1>7 DEF When
<1> QED
  BY <1>5, <1>6, <1>7

\* Every decision that applies something succeeds, since it ends there.
LEMMA DecisionsWhole ==
    /\ \A r : Whole(RunInternetControl(r)) /\ Whole(RunRouterPlugin(r))
              /\ Whole(RunBandwidthLimit(r))
    /\ \A r, selected : Whole(RunUpnpManagement(r, selected))
    /\ \A r, windows, emergency, now : Whole(RunParentalDowntime(r, windows, emergency, now))
<1>1. /\ Whole(Refused) /\ Whole(Unconfirmed) /\ Whole(Planned) /\ Whole(Applied)
      /\ \A x : Whole(Outcome(TRUE, x, FALSE))
  BY Outcomes DEF Whole, Outcome
<1>2. \A r : Whole(FirewallControl(r)) /\ Whole(RouterControl(r))
  BY <1>1 DEF FirewallControl, RouterControl
<1>3. \A r : Whole(RunInternetControl(r))
  BY <1>1, <1>2 DEF RunInternetControl
<1>4. \A r : Whole(RunRouterPlugin(r))
  BY <1>1 DEF RunRouterPlugin
<1>5. \A r : Whole(RunBandwidthLimit(r))
  BY <1>1 DEF RunBandwidthLimit
<1>6. \A r, selected : Whole(RunUpnpManagement(r, selected))
  BY <1>1 DEF RunUpnpManagement
<1>7. \A r, windows, emergency, now : Whole(RunParentalDowntime(r, windows, emergency, now))
  BY <1>1 DEF RunParentalDowntime
<1> QED
  BY <1>3, <1>4, <1>5, <1>6, <1>7

\* Consent to a change of the network, as the variables of the line have it.
Consent(l, e) ==
    \/ /\ l.family = "security"
       /\ On(e, "--mock") /\ ~DryRun(e)
       /\ On(e, "--confirm") \/ On(e, "--saved-rule")
    \/ /\ l.family = "bandwidth" /\ l.sub = "plugin"
       /\ Val(e, "plugin_dry_run", "on") # "on" /\ On(e, "confirm")
    \/ /\ l.family = "bandwidth" /\ l.sub = "limit"
       /\ ~DryRun(e)
       /\ On(e, "confirm") \/ On(e, "--saved-rule")
       /\ \/ On(e, "--mock")
          \/ LimitBackend(Val(e, "--backend", "mock")) \in {"mock", "router-plugin"}

Blocking(e, now) ==
    DowntimeActive(DowntimeWindows(e), On(e, "--emergency-disable"), now)

\* What there must be for a call to leave something behind.
Grounds(l, e, now, what) ==
    /\ what \in Rules => Consent(l, e)
    /\ what = "block" => l.family = "security" /\ Blocking(e, now)
    /\ what = "unblock" => l.family = "security" /\ ~Blocking(e, now)
    /\ what = "database" => l.family # "security" \/ On(e, "import")

Due(l, e, now) == {c \in CallRecord : Grounds(l, e, now, c.keeps)}

LEMMA HarmlessDue ==
    ASSUME NEW l, NEW e, NEW now
    PROVE  /\ Harmless \subseteq Due(l, e, now)
           /\ l.family # "security" => Ordinary \subseteq Due(l, e, now)
           /\ \A w \in Traces : Grounds(l, e, now, w) => Change(w) \in Due(l, e, now)
<1>1. \A w \in Traces : Change(w).keeps = w /\ Change(w) \in CallRecord
  BY Atoms, Kinds
<1>2. Harmless \subseteq Due(l, e, now)
  BY DEF Harmless, Ordinary, Due, Grounds, Rules
<1>3. l.family # "security" => Ordinary \subseteq Due(l, e, now)
  BY DEF Ordinary, Due, Grounds, Rules
<1> QED
  BY <1>1, <1>2, <1>3 DEF Due

\* A list of calls for each of which there are grounds, that refuses the
\* command with its first call at most.
Proper(l, e, now, calls) == calls \in Seq(Due(l, e, now)) /\ RefusesFirst(calls)

LEMMA OneRefusesFirst ==
    ASSUME NEW c
    PROVE  RefusesFirst(<<c>>)
<1>1. DOMAIN <<c>> = 1 .. 1
  OBVIOUS
<1> QED
  BY <1>1 DEF RefusesFirst

LEMMA CarryProper ==
    ASSUME NEW l, NEW e, NEW now, NEW outcome, Whole(outcome),
           NEW what \in Traces, outcome.applied => Grounds(l, e, now, what),
           NEW unconfirmed \in {2, 3}
    PROVE  /\ Proper(l, e, now, Carry(outcome, what, unconfirmed))
           /\ Tidy(Carry(outcome, what, unconfirmed))
           /\ unconfirmed = 3 => Carry(outcome, what, unconfirmed) \in Seq(Accepting)
<1> DEFINE D == Due(l, e, now)
<1>1. /\ Return(3) \in D /\ Return(3) \in Accepting
      /\ Return(2) \in D
  <2>1. Return(3) \in D /\ Return(3) \in Accepting
    BY Atoms, HarmlessDue, Kinds
  <2>2. Return(2) \in Quiet
    BY Atoms
  <2>3. Quiet \subseteq D
    BY DEF Quiet, Due, Grounds, Behind, None, Rules
  <2> QED
    BY <2>1, <2>2, <2>3
<1>2. outcome.applied => Change(what) \in D
  BY HarmlessDue
<1>3. Change(what) \in Accepting
  BY Atoms DEF Sure, Accepting
<1> HIDE DEF D
<1>4. CASE Carry(outcome, what, unconfirmed) = <<>>
  <2>1. /\ Proper(l, e, now, <<>>) /\ Tidy(<<>>) /\ <<>> \in Seq(Accepting)
    BY NoneTidy, NoCall, AcceptingRefusesFirst DEF Proper
  <2> QED
    BY <1>4, <2>1
<1>5. ASSUME NEW c \in D, Carry(outcome, what, unconfirmed) = <<c>>
      PROVE  /\ Proper(l, e, now, Carry(outcome, what, unconfirmed))
             /\ Tidy(Carry(outcome, what, unconfirmed))
             /\ c \in Accepting => Carry(outcome, what, unconfirmed) \in Seq(Accepting)
  BY <1>5, OneTidy, OneRefusesFirst, OneCall DEF Proper, D
<1> QED
  BY <1>1, <1>2, <1>3, <1>4, <1>5, CarryCases

\* The requests that are put together from the line.
LEMMA RequestFields ==
    ASSUME NEW e
    PROVE  /\ ControlRequest(e) \in Requests({ControlRequest(e).backend, ControlRequest(e).action,
                                            ControlRequest(e).method})
           /\ ControlRequest(e).mock = On(e, "--mock")
           /\ ControlRequest(e).dry_run = DryRun(e)
           /\ ControlRequest(e).confirm = On(e, "--confirm")
           /\ PluginRequest(e).dry_run = (Val(e, "plugin_dry_run", "on") = "on")
           /\ PluginRequest(e).confirm = On(e, "confirm")
           /\ LimitRequest(e).mock = On(e, "--mock")
           /\ LimitRequest(e).dry_run = DryRun(e)
           /\ LimitRequest(e).confirm = On(e, "confirm")
           /\ LimitRequest(e).saved_rule = On(e, "--saved-rule")
           /\ LimitRequest(e).backend = Val(e, "--backend", "mock")
<1>1. /\ PluginRequest(e).dry_run = (Val(e, "plugin_dry_run", "on") = "on")
      /\ PluginRequest(e).confirm = On(e, "confirm")
  BY DEF PluginRequest
<1>2. /\ LimitRequest(e).mock = On(e, "--mock")
      /\ LimitRequest(e).dry_run = DryRun(e)
      /\ LimitRequest(e).confirm = On(e, "confirm")
      /\ LimitRequest(e).saved_rule = On(e, "--saved-rule")
      /\ LimitRequest(e).backend = Val(e, "--backend", "mock")
  BY DEF LimitRequest
<1>3. /\ ControlRequest(e).mock = On(e, "--mock")
      /\ ControlRequest(e).dry_run = DryRun(e)
      /\ ControlRequest(e).confirm = On(e, "--confirm")
  BY DEF ControlRequest
<1>4. ControlRequest(e) \in Requests({ControlRequest(e).backend, ControlRequest(e).action,
                                     ControlRequest(e).method})
  <2>1. /\ \A name : On(e, name) \in BOOLEAN /\ Given(e, name) \in BOOLEAN
        /\ Rates(e) \in BOOLEAN /\ DryRun(e) \in BOOLEAN
        /\ ({"--router-user", "--router-password"} \subseteq DOMAIN e) \in BOOLEAN
    BY DEF On, Given, Rates, DryRun
  <2> QED
    BY <2>1 DEF ControlRequest, Requests
<1> QED
  BY <1>1, <1>2, <1>3, <1>4

LEMMA FindingsProper ==
    ASSUME NEW l, NEW e, NEW now
    PROVE  /\ Proper(l, e, now, Diagnose) /\ Tidy(Diagnose)
           /\ Proper(l, e, now, FindingsCalls(e)) /\ Tidy(FindingsCalls(e))
           /\ Proper(l, e, now, QuotaCalls(e)) /\ Tidy(QuotaCalls(e))
           /\ Proper(l, e, now, RecognizeCalls(e))
<1>1. \A a \in Seq(Harmless) : Proper(l, e, now, a)
  BY HarmlessDue, SubCalls, Kinds, AcceptingRefusesFirst DEF Proper
<1>2. FindingsCalls(e) \in Seq(Harmless) /\ Tidy(FindingsCalls(e))
  BY HistoryCalls, QuietThenOutput DEF FindingsCalls
<1>3. QuotaCalls(e) \in Seq(Harmless) /\ Tidy(QuotaCalls(e))
  <2>1. Return(3) \in Harmless /\ Return(3) \in CallRecord
    BY Atoms, Kinds
  <2>2. /\ When(~On(e, "--mock"), <<Return(3)>>) \in Seq(Harmless)
        /\ When(~On(e, "--mock"), <<Return(3)>>) \in Seq(CallRecord)
        /\ Tidy(When(~On(e, "--mock"), <<Return(3)>>))
    BY <2>1, OneCall, CallsWhen, OneTidy, TidyWhen
  <2> QED
    BY <2>2, HistoryCalls, BothCalls, QuietThenTidy DEF QuotaCalls
<1>4. RecognizeCalls(e) \in Seq(Harmless)
  <2>1. Attempt("rules") \in Harmless /\ Attempt("file") \in Harmless
    BY Atoms DEF Traces, Rules
  <2>2. /\ <<Attempt("rules")>> \in Seq(Harmless)
        /\ When(Given(e, "--export"), <<Attempt("file")>>) \in Seq(Harmless)
    BY <2>1, OneCall, CallsWhen
  <2>3. <<Attempt("rules")>> \o When(Given(e, "--export"), <<Attempt("file")>>)
          \o History \o Output(e) \in Seq(Harmless)
    BY <2>2, HistoryCalls, OutputCalls, BothCalls
  <2>4. <<Return(3)>> \in Seq(Harmless)
    BY Atoms, OneCall
  <2> QED
    BY <2>3, <2>4 DEF RecognizeCalls
<1> QED
  BY <1>1, <1>2, <1>3, <1>4, HistoryCalls

LEMMA ImportProper ==
    ASSUME NEW l, NEW e, NEW now
    PROVE  Proper(l, e, now, ImportCalls(e))
<1> DEFINE D == Due(l, e, now) \cap Accepting
<1>1. Harmless \subseteq D
  BY HarmlessDue, Kinds
<1>2. On(e, "import") => Keep("database") \in D
  <2>1. "database" \in Traces \ Rules
    BY DEF Traces, Rules
  <2>2. Keep("database") \in Ordinary
    BY <2>1, Atoms
  <2>3. Keep("database").keeps = "database"
    BY DEF Keep, Call
  <2> QED
    BY <2>2, <2>3, Kinds DEF Due, Grounds, Rules
<1>3. Return(3) \in D
  BY <1>1, Atoms
<1> HIDE DEF D
<1> DEFINE written == IF Given(e, "--output-db") THEN <<Keep("database")>> ELSE <<Return(3)>>
<1>4. On(e, "import") => written \in Seq(D)
  BY <1>2, <1>3, OneCall
<1> HIDE DEF written
<1>5. When(On(e, "import"), written) \in Seq(D)
  BY <1>4, NoCall DEF When
<1>6. <<Look>> \in Seq(D) /\ History \in Seq(D) /\ Output(e) \in Seq(D)
  BY <1>1, LookFirst, HistoryCalls, OutputCalls, SubCalls
<1>7. ImportCalls(e) \in Seq(D)
  BY <1>5, <1>6, BothCalls DEF ImportCalls, written
<1>8. ImportCalls(e) \in Seq(Due(l, e, now)) /\ ImportCalls(e) \in Seq(Accepting)
  <2>1. D \subseteq Due(l, e, now) /\ D \subseteq Accepting
    BY DEF D
  <2> QED
    BY <1>7, <2>1, SubCalls
<1> QED
  BY <1>8, AcceptingRefusesFirst DEF Proper

\* Lists that are quiet and harmless come first, then what is carried out.
LEMMA QuietThenProper ==
    ASSUME NEW l, NEW e, NEW now, NEW a \in Seq(Harmless), a \in Seq(Quiet),
           NEW b, Proper(l, e, now, b), Tidy(b), b \in Seq(Accepting)
    PROVE  Proper(l, e, now, a \o b) /\ Tidy(a \o b)
<1>1. a \in Seq(Due(l, e, now)) /\ a \in Seq(Accepting)
  BY HarmlessDue, Kinds, SubCalls
<1>2. a \o b \in Seq(Due(l, e, now)) /\ a \o b \in Seq(Accepting)
  BY <1>1, BothCalls DEF Proper
<1>3. b \in Seq(CallRecord)
  BY SubCalls DEF Proper, Due
<1> QED
  BY <1>2, <1>3, QuietThenTidy, AcceptingRefusesFirst DEF Proper

\* A control or the removal of a mapping rests on consent.
LEMMA ControlProper ==
    ASSUME NEW l, NEW e, NEW now, NEW found, l.family = "security"
    PROVE  /\ Proper(l, e, now, ControlCalls(e)) /\ Tidy(ControlCalls(e))
           /\ Proper(l, e, now, UpnpCalls(e, found)) /\ Tidy(UpnpCalls(e, found))
<1>1. "rule" \in Traces
  BY DEF Traces
<1>2. Consent(l, e) => Grounds(l, e, now, "rule")
  BY DEF Grounds
<1>3. /\ Proper(l, e, now, ControlCalls(e)) /\ Tidy(ControlCalls(e))
  <2> DEFINE outcome == RunInternetControl(ControlRequest(e))
             b == Carry(outcome, "rule", 3)
  <2>1. Whole(outcome)
    BY DecisionsWhole
  <2>2. outcome.applied => Consent(l, e)
    BY ControlApplies, RequestFields DEF Consent
  <2> HIDE DEF outcome
  <2>3. Proper(l, e, now, b) /\ Tidy(b) /\ b \in Seq(Accepting)
    BY <1>1, <1>2, <2>1, <2>2, CarryProper
  <2> HIDE DEF b
  <2>4. Proper(l, e, now, History \o b) /\ Tidy(History \o b)
    BY <2>3, HistoryCalls, QuietThenProper
  <2> QED
    BY <2>4 DEF ControlCalls, b, outcome
<1>4. /\ Proper(l, e, now, UpnpCalls(e, found)) /\ Tidy(UpnpCalls(e, found))
  <2> DEFINE outcome == RunUpnpManagement(ControlRequest(e), found)
             b == Carry(outcome, "rule", 3)
             a == When(On(e, "--mock"), History \o History)
  <2>1. Whole(outcome)
    BY DecisionsWhole
  <2>2. outcome.applied => Consent(l, e)
    BY UpnpApplies, RequestFields DEF Consent
  <2> HIDE DEF outcome
  <2>3. Proper(l, e, now, b) /\ Tidy(b) /\ b \in Seq(Accepting)
    BY <1>1, <1>2, <2>1, <2>2, CarryProper
  <2>4. a \in Seq(Harmless) /\ a \in Seq(Quiet)
    BY HistoryCalls, BothCalls, CallsWhen
  <2> HIDE DEF a, b
  <2>5. Proper(l, e, now, a \o b) /\ Tidy(a \o b)
    BY <2>3, <2>4, QuietThenProper
  <2> QED
    BY <2>5 DEF UpnpCalls, a, b, outcome
<1> QED
  BY <1>3, <1>4

LEMMA DowntimeProper ==
    ASSUME NEW l, NEW e, NEW now, l.family = "security"
    PROVE  Proper(l, e, now, DowntimeCalls(e, now)) /\ Tidy(DowntimeCalls(e, now))
<1> DEFINE emergency == On(e, "--emergency-disable")
           outcome == RunParentalDowntime(ControlRequest(e), DowntimeWindows(e), emergency, now)
           what == IF Blocking(e, now) THEN "block" ELSE "unblock"
           a == When(outcome.applied, <<Change(what)>>)
           b == History
           c == When(outcome.ok, History)
           rest == [outcome EXCEPT !.applied = FALSE]
           d == Carry(rest, "", 3)
           D == Due(l, e, now) \cap Accepting
<1>1. outcome.applied => Consent(l, e)
  BY DowntimeApplies, RequestFields DEF Consent
<1>2. outcome.applied => outcome.ok
  BY DecisionsWhole DEF Whole
<1>3. \/ outcome = Refused
      \/ outcome = Outcome(TRUE, outcome.applied, FALSE)
  <2>1. CASE ~ControlRequest(e).mock
    BY <2>1 DEF RunParentalDowntime
  <2>2. CASE ControlRequest(e).mock
    BY <2>2 DEF RunParentalDowntime, Outcome
  <2> QED
    BY <2>1, <2>2
<1>4. rest.applied = FALSE /\ rest.ok = outcome.ok
  BY <1>3 DEF Refused, Outcome
<1> HIDE DEF outcome, rest
<1>5. Whole(rest)
  BY <1>4 DEF Whole
<1>6. /\ Proper(l, e, now, d) /\ Tidy(d) /\ d \in Seq(Accepting)
  <2>1. "" \in Traces
    BY DEF Traces, None
  <2> QED
    BY <1>4, <1>5, <2>1, CarryProper
<1>7. outcome.ok => d = <<>>
  <2>1. CASE d = <<>>
    BY <2>1
  <2>2. CASE outcome.ok
    <3>1. d = When(FALSE, <<Change("")>>)
              \o When(FALSE, <<Return(IF rest.unconfirmed THEN 3 ELSE 3)>>)
      BY <1>4, <2>2 DEF Carry
    <3> QED
      BY <3>1, ConcatEmptySeq, EmptySeq DEF When
  <2> QED
    BY <2>1, <2>2
<1> HIDE DEF d
<1>8. what \in Traces /\ Change(what) \in Accepting /\ Change(what) \in Sure
  <2>1. what \in Traces
    BY DEF Traces
  <2> QED
    BY <2>1, Atoms DEF Sure, Accepting
<1>9. outcome.applied => Change(what) \in D
  <2>1. outcome.applied => Grounds(l, e, now, what)
    BY <1>1 DEF Grounds
  <2> QED
    BY <1>8, <2>1, HarmlessDue
<1> HIDE DEF what
<1>10. a \in Seq(D)
  BY <1>9, OneCall, NoCall DEF When
<1>11. Harmless \subseteq D
  BY HarmlessDue, Kinds
<1>12. b \in Seq(D) /\ c \in Seq(D)
  BY <1>11, HistoryCalls, SubCalls, CallsWhen
<1>13. d \in Seq(D)
  <2>1. d \in Seq(Due(l, e, now)) /\ d \in Seq(Accepting)
    BY <1>6 DEF Proper
  <2> QED
    BY <2>1, LenProperties, SeqDef
<1>14. /\ DowntimeCalls(e, now) = ((a \o b) \o c) \o d
  BY DEF DowntimeCalls, Blocking, what, outcome, rest, d
<1> HIDE DEF a, b, c
<1>15. ((a \o b) \o c) \o d \in Seq(D)
  BY <1>10, <1>12, <1>13, BothCalls
<1>16. D \subseteq Due(l, e, now) /\ D \subseteq Accepting /\ D \subseteq CallRecord
  BY DEF D, Due
<1> HIDE DEF D
<1>17. Tidy(((a \o b) \o c) \o d)
  <2>1. CASE outcome.ok
    <3>1. a \in Seq(Sure) /\ b \in Seq(Sure) /\ c \in Seq(Sure) /\ d \in Seq(Sure)
      BY <1>7, <1>8, <2>1, OneCall, NoCall, HistoryCalls, CallsWhen DEF a, b, c
    <3> QED
      BY <3>1, BothCalls, SureTidy
  <2>2. CASE ~outcome.ok
    <3>1. a \in Seq(Quiet) /\ b \in Seq(Quiet) /\ c \in Seq(Quiet)
      BY <1>2, <2>2, NoCall, HistoryCalls, CallsWhen DEF a, b, c, When
    <3>2. (a \o b) \o c \in Seq(Quiet)
      BY <3>1, BothCalls
    <3> QED
      BY <1>6, <1>13, <1>16, <3>2, SubCalls, QuietThenTidy
  <2> QED
    BY <2>1, <2>2
<1> DEFINE all == ((a \o b) \o c) \o d
<1>18. all \in Seq(D) /\ Tidy(all) /\ DowntimeCalls(e, now) = all
  BY <1>14, <1>15, <1>17
<1> HIDE DEF all
<1>19. all \in Seq(Due(l, e, now)) /\ all \in Seq(Accepting)
  BY <1>16, <1>18, SubCalls
<1> QED
  BY <1>18, <1>19, AcceptingRefusesFirst DEF Proper

\* The policy gives every unknown device the same request, so that either all
\* of them are paused or none is.
LEMMA AutoblockProper ==
    ASSUME NEW l, NEW e, NEW now, l.family = "security"
    PROVE  Proper(l, e, now, AutoblockCalls(e)) /\ Tidy(AutoblockCalls(e))
<1> DEFINE r == AutoblockRequestOf(e)
           enforce == Val(e, "enforce", "off") = "on"
           outcome == RunAutoblock(r, enforce, MockDevices)
           q == [r EXCEPT !.action = "pause", !.target = TRUE]
           paused == RunBandwidthLimit(q)
           unknown == SelectSeq(MockDevices, IsUnknownDevice)
           one == [i \in DOMAIN unknown |-> paused]
<1>1. /\ q.mock = On(e, "--mock") /\ q.dry_run = DryRun(e)
      /\ q.confirm = On(e, "--confirm") /\ q.saved_rule = On(e, "--saved-rule")
      /\ r.mock = On(e, "--mock")
  BY DEF AutoblockRequestOf
<1>2. paused.applied => ~q.dry_run /\ (q.confirm \/ q.saved_rule)
  BY LimitApplies
<1>3. Whole(paused)
  BY DecisionsWhole
<1>4. outcome = IF ~r.mock THEN Refused
                ELSE IF ~enforce THEN Planned
                ELSE Outcome(\A i \in DOMAIN unknown : one[i].ok,
                             \E i \in DOMAIN unknown : one[i].applied, FALSE)
  BY DEF RunAutoblock
<1> HIDE DEF unknown, q, paused, r, enforce
<1>5. outcome.applied => /\ r.mock /\ paused.applied
                         /\ outcome.ok = (\A i \in DOMAIN unknown : one[i].ok)
  <2>1. \A x, y : Outcome(x, y, FALSE).applied = y /\ Outcome(x, y, FALSE).ok = x
    BY DEF Outcome
  <2> HIDE DEF outcome
  <2>2. CASE ~r.mock \/ ~enforce
    BY <1>4, <2>2, Outcomes
  <2>3. CASE r.mock /\ enforce
    <3>1. outcome.applied = (\E i \in DOMAIN unknown : one[i].applied)
          /\ outcome.ok = (\A i \in DOMAIN unknown : one[i].ok)
      BY <1>4, <2>1, <2>3
    <3> QED
      BY <2>3, <3>1
  <2> QED
    BY <2>2, <2>3
<1> HIDE DEF outcome
<1>6. Whole(outcome)
  BY <1>3, <1>5 DEF Whole
<1>7. outcome.applied => Consent(l, e)
  BY <1>1, <1>2, <1>5 DEF Consent
<1>8. outcome.applied => Grounds(l, e, now, "rule")
  BY <1>7 DEF Grounds
<1>9. "rule" \in Traces
  BY DEF Traces
<1>10. AutoblockCalls(e) = Carry(outcome, "rule", 3)
  BY DEF AutoblockCalls, outcome, r, enforce
<1> QED
  BY <1>6, <1>8, <1>9, <1>10, CarryProper

\* The handler of every security command.
LEMMA SecurityProper ==
    ASSUME NEW l, NEW e, NEW now, NEW found, l.family = "security", ~SecurityMisused(e)
    PROVE  /\ Proper(l, e, now, SecurityCalls(e, now, found))
           /\ ~Excused(l, e) => Tidy(SecurityCalls(e, now, found))
<1>1. PICK w \in SecurityWords : Given(e, w)
  <2>1. Cardinality(Chosen(e)) = 1
    BY DEF SecurityMisused
  <2>2. Chosen(e) # {}
    BY <2>1, FS_EmptySet
  <2> QED
    BY <2>2 DEF Chosen, Given
<1> DEFINE calls == SecurityCalls(e, now, found)
           others == {UpnpCalls(e, found), Diagnose, FindingsCalls(e), ControlCalls(e),
                      DowntimeCalls(e, now), QuotaCalls(e), AutoblockCalls(e)}
           learning == {RecognizeCalls(e), ImportCalls(e)}
<1>2. CASE Given(e, "recognize") \/ Given(e, "import_inventory")
  <2>1. calls \in others \cup learning
    BY <1>1, SMTT(30) DEF SecurityCalls, SecurityWords
  <2>2. Excused(l, e)
    BY <1>2 DEF Given, Excused
  <2> QED
    BY <2>1, <2>2, ControlProper, FindingsProper, ImportProper, DowntimeProper,
       AutoblockProper
<1>3. CASE ~Given(e, "recognize") /\ ~Given(e, "import_inventory")
  <2>1. calls \in others
    BY <1>1, <1>3, SMTT(30) DEF SecurityCalls, SecurityWords
  <2> QED
    BY <2>1, ControlProper, FindingsProper, DowntimeProper, AutoblockProper
<1> QED
  BY <1>2, <1>3

\* Lists that change no network are proper outside security.
LEMMA OrdinaryProper ==
    ASSUME NEW l, NEW e, NEW now, l.family # "security", NEW calls \in Seq(Ordinary)
    PROVE  Proper(l, e, now, calls)
<1>1. calls \in Seq(Due(l, e, now)) /\ calls \in Seq(Accepting)
  BY HarmlessDue, Kinds, SubCalls
<1> QED
  BY <1>1, AcceptingRefusesFirst DEF Proper

LEMMA BandwidthProper ==
    ASSUME NEW l, NEW e, NEW now, l.family = "bandwidth",
           l.sub \in Subcommands("bandwidth")
    PROVE  /\ Proper(l, e, now, BandwidthCalls(l.sub, e))
           /\ ~Excused(l, e) => Tidy(BandwidthCalls(l.sub, e))
<1>1. "rule" \in Traces
  BY DEF Traces
<1>2. Consent(l, e) => Grounds(l, e, now, "rule")
  BY DEF Grounds
<1>3. CASE l.sub = "limit"
  <2> DEFINE outcome == RunBandwidthLimit(LimitRequest(e))
  <2>1. Whole(outcome)
    BY DecisionsWhole
  <2>2. outcome.applied => Consent(l, e)
    BY <1>3, LimitApplies, RequestFields DEF Consent
  <2>3. BandwidthCalls(l.sub, e) = Carry(outcome, "rule", 2)
    BY <1>3 DEF BandwidthCalls, LimitCalls
  <2> HIDE DEF outcome
  <2> QED
    BY <1>1, <1>2, <2>1, <2>2, <2>3, CarryProper
<1>4. CASE l.sub = "plugin"
  <2> DEFINE outcome == RunRouterPlugin(PluginRequest(e))
  <2>1. Whole(outcome)
    BY DecisionsWhole
  <2>2. outcome.applied => Consent(l, e)
    BY <1>4, PluginApplies, RequestFields DEF Consent
  <2>3. \/ BandwidthCalls(l.sub, e) = Carry(outcome, "rule", 2)
        \/ BandwidthCalls(l.sub, e) = <<>>
    BY <1>4 DEF BandwidthCalls, PluginCalls, When
  <2> HIDE DEF outcome
  <2>4. Proper(l, e, now, <<>>) /\ Tidy(<<>>)
    BY NoneTidy, NoCall, AcceptingRefusesFirst DEF Proper
  <2> QED
    BY <1>1, <1>2, <2>1, <2>2, <2>3, <2>4, CarryProper
<1>5. CASE l.sub \notin {"limit", "plugin"}
  <2>1. "rollup" \in Traces \ Rules
    BY DEF Traces, Rules
  <2>2. When(On(e, "--persist"), <<Attempt("rollup")>>) \in Seq(Ordinary)
        /\ When(On(e, "--persist"), <<Attempt("rollup")>>) \in Seq(Sure)
    BY <2>1, Atoms, OneCall, CallsWhen
  <2>3. Clean(<<Look>>) /\ Clean(<<>>)
    BY LookFirst, NoneTidy, NoCall DEF Clean
  <2>4. Clean(LocalCalls(e))
    BY <2>2, <2>3, BothCalls, SubCalls, Kinds, TidyThenSure DEF LocalCalls, Clean
  <2>5. \/ BandwidthCalls(l.sub, e) \in {<<>>, <<Look>>, LocalCalls(e)}
        \/ l.sub = "rollups" /\ BandwidthCalls(l.sub, e) = RollupCalls(e)
    BY <1>5 DEF BandwidthCalls, Subcommands, CollectCalls
  <2>6. l.sub = "rollups" => Excused(l, e)
    BY DEF Excused
  <2> QED
    BY <2>3, <2>4, <2>5, <2>6, ExcusedOrdinary, OrdinaryProper DEF Clean
<1> QED
  BY <1>3, <1>4, <1>5

\* No action of the shell changes a network: the only control it asks for is
\* advice.
LEMMA GuiProper ==
    ASSUME NEW l, NEW e, NEW now, l.family = "gui", l.sub \in Subcommands("gui")
    PROVE  /\ Proper(l, e, now, GuiCalls(l.sub, e))
           /\ ~Excused(l, e) => Tidy(GuiCalls(l.sub, e))
<1> DEFINE outcome == RunInternetControl(GuiControl(e))
           controlled == History \o Carry(outcome, "rule", 2)
<1>1. controlled \in Seq(Ordinary)
  <2>1. ~outcome.applied /\ ~outcome.unconfirmed
    <3>1. NormalBackend(GuiControl(e).backend) = "advisory"
      BY DEF GuiControl, NormalBackend
    <3> QED
      BY <3>1, Outcomes DEF RunInternetControl
  <2> HIDE DEF outcome
  <2>2. When(outcome.applied, <<Change("rule")>>) \in Seq(Ordinary)
    BY <2>1, NoCall DEF When
  <2>3. Return(IF outcome.unconfirmed THEN 2 ELSE 3) = Return(3)
    BY <2>1
  <2>4. When(~outcome.ok, <<Return(IF outcome.unconfirmed THEN 2 ELSE 3)>>)
            \in Seq(Ordinary)
    <3>1. Return(IF outcome.unconfirmed THEN 2 ELSE 3) \in Ordinary
      BY <2>3, Atoms, Kinds
    <3> QED
      BY <3>1, OneCall, CallsWhen
  <2>5. History \in Seq(Ordinary)
    BY HistoryCalls, SubCalls, Kinds
  <2> QED
    BY <2>2, <2>4, <2>5, BothCalls DEF Carry
<1> HIDE DEF controlled
<1>2. /\ <<Look>> \in Seq(Ordinary) /\ <<Return(3)>> \in Seq(Ordinary)
      /\ Diagnose \in Seq(Ordinary) /\ StartTrayCalls \in Seq(Ordinary)
      /\ Output(e) \o <<Look>> \in Seq(Ordinary)
      /\ <<>> \in Seq(Ordinary)
  BY Atoms, Kinds, OneCall, NoCall, LookFirst, OutputClean, BothCalls, ExcusedOrdinary
  DEF Clean
<1>3. AlertCalls \in Seq(Ordinary) /\ SpeedCalls \in Seq(Ordinary)
      /\ OutageCalls \in Seq(Ordinary)
  <2>1. {"alert", "speed history", "outage log"} \subseteq Traces \ Rules
    BY DEF Traces, Rules
  <2> QED
    BY <2>1, LookFirst DEF Clean, AlertCalls, SpeedCalls, OutageCalls
<1>4. GuiActionCalls(e["--id"], e) \in
        {<<Return(2)>>, <<Return(3)>>, <<Look>>, Diagnose, StartTrayCalls, AlertCalls,
         SpeedCalls, OutageCalls, controlled}
  BY SMTT(30) DEF GuiActionCalls, NeedConfirmation, controlled
<1>5. Proper(l, e, now, <<Return(2)>>)
  <2>1. Return(2) \in Quiet
    BY Atoms
  <2>2. Return(2) \in Due(l, e, now)
    BY <2>1 DEF Quiet, Due, Grounds, Behind, None, Rules
  <2> QED
    BY <2>2, OneCall, OneRefusesFirst DEF Proper
<1>6. Proper(l, e, now, GuiActionCalls(e["--id"], e))
  BY <1>1, <1>2, <1>3, <1>4, <1>5, OrdinaryProper
<1>7. CASE l.sub = "action"
  BY <1>6, <1>7 DEF GuiCalls, Excused
<1>8. CASE l.sub = "accessibility"
  BY <1>2, <1>8, OrdinaryProper DEF GuiCalls, Excused
<1>9. CASE l.sub \notin {"action", "accessibility"}
  <2>1. GuiCalls(l.sub, e) \in {<<>>, <<Look>>}
    BY <1>9 DEF GuiCalls, Subcommands
  <2> QED
    BY <1>2, <2>1, OrdinaryProper, NoneTidy, LookFirst DEF Clean
<1> QED
  BY <1>7, <1>8, <1>9

\* The calls of every command that passed its checks.
LEMMA CallsProper ==
    ASSUME NEW l, l.family \in DOMAIN Options, l.sub \in Subcommands(l.family),
           NEW e, ~Misused(l, e), NEW now, NEW found
    PROVE  /\ Proper(l, e, now, Calls(l, e, now, found))
           /\ ~Excused(l, e) => Tidy(Calls(l, e, now, found))
<1> DEFINE f == l.family
           calls == Calls(l, e, now, found)
<1>1. CASE f = "security"
  <2>1. ~SecurityMisused(e)
    BY <1>1 DEF Misused
  <2>2. calls = SecurityCalls(e, now, found)
    BY <1>1 DEF Calls
  <2> QED
    BY <1>1, <2>1, <2>2, SecurityProper
<1>2. CASE f = "bandwidth"
  <2>1. calls = BandwidthCalls(l.sub, e)
    BY <1>2 DEF Calls
  <2> QED
    BY <1>2, <2>1, BandwidthProper
<1>3. CASE f = "gui"
  <2>1. calls = GuiCalls(l.sub, e)
    BY <1>3 DEF Calls
  <2> QED
    BY <1>3, <2>1, GuiProper
<1>4. f # "security" /\ Clean(calls) => Proper(l, e, now, calls) /\ Tidy(calls)
  BY OrdinaryProper DEF Clean
<1>5. f # "security" /\ calls \in Seq(Ordinary) => Proper(l, e, now, calls)
  BY OrdinaryProper
<1> HIDE DEF f, calls
<1>6. CASE f \in {"scan", "listInventory", "editInventory", "markInventory", "workspace",
                 "search"}
  <2>1. Clean(calls)
    BY <1>6, DatabaseClean DEF Calls, calls, f
  <2> QED
    BY <1>4, <1>6, <2>1 DEF calls, f
<1>7. CASE f \in {"scope", "monitor", "hardenTray", "alerts", "speed", "outage", "ping",
                 "traceroute", "dns", "benchmark", "dhcp", "ports", "wifi", "report",
                 "interfaces", "api", "installer", "hardening", "timeline"}
  <2>1. {"alert", "speed history", "outage log", "session", "file"} \subseteq Traces \ Rules
    BY DEF Traces, Rules
  <2>2. /\ Clean(AlertCalls) /\ Clean(SpeedCalls) /\ Clean(OutageCalls) /\ Clean(Diagnose)
        /\ Clean(<<Attempt("session")>>) /\ Clean(<<Keep("file")>>) /\ Clean(<<Look>>)
        /\ Clean(ScopeCalls(e)) /\ Clean(WifiCalls(e)) /\ Clean(Output(e))
    BY <2>1, LookFirst, OutputClean, ScopeClean, WifiClean
    DEF AlertCalls, SpeedCalls, OutageCalls
  <2>3. Clean(calls)
    BY <1>7, <2>2 DEF Calls, calls, f
  <2> QED
    BY <1>4, <1>7, <2>3 DEF calls, f
<1>8. CASE f \in {"tray", "startTray", "agent", "simulation", "privacy", "audit", "release"}
  <2>1. calls \in Seq(Ordinary)
    BY <1>8, ExcusedOrdinary DEF Calls, calls, f
  <2>2. Excused(l, e)
    BY <1>8 DEF Excused, f
  <2> QED
    BY <1>5, <1>8, <2>1, <2>2 DEF calls, f
<1>9. CASE f = "presence"
  <2>1. "alert" \in Traces \ Rules
    BY DEF Traces, Rules
  <2>2. \/ l.sub = "history" /\ calls = PresenceHistoryCalls(e)
        \/ calls = <<Look, Attempt("alert")>>
    BY <1>9 DEF Calls, PresenceCalls, PresenceNotifyCalls, Subcommands, calls, f
  <2>3. l.sub = "history" => Excused(l, e)
    BY <1>9 DEF Excused, f
  <2>4. Clean(<<Look, Attempt("alert")>>)
    BY <2>1, LookFirst
  <2> QED
    BY <1>4, <1>5, <1>9, <2>2, <2>3, <2>4, ExcusedOrdinary DEF calls, f
<1>10. f \in {"scan", "listInventory", "editInventory", "markInventory", "workspace", "search",
              "scope", "monitor", "hardenTray", "alerts", "speed", "outage", "ping",
              "traceroute", "dns", "benchmark", "dhcp", "ports", "wifi", "report",
              "interfaces", "api", "installer", "hardening", "timeline", "tray", "startTray",
              "agent", "simulation", "privacy", "audit", "release", "presence", "security",
              "bandwidth", "gui"}
  BY DEF Options, f
<1> QED
  BY <1>1, <1>2, <1>3, <1>6, <1>7, <1>8, <1>9, <1>10 DEF calls, f

-----------------------------------------------------------------------------
(* The invariant of a run.                                                 *)

Phases == {"arguments", "checks", "handler", "exited"}

\* Before its handler runs a command has left nothing behind and has no exit
\* code; the handler has none while it runs.
Idle ==
    /\ phase \in {"arguments", "checks"} => todo = <<>> /\ kept = <<>>
    /\ phase # "exited" => exit = Running

\* There were grounds for everything that was left, and there are for every
\* call to come.
Grounded ==
    /\ todo \in Seq(Due(line, env, moment))
    /\ kept \in Seq({t \in Traces \ {None} : Grounds(line, env, moment, t)})

\* A call that refuses the command is the first, with nothing left yet.
RefusalAhead == \A i \in DOMAIN todo : todo[i].code = 2 => i = 1 /\ kept = <<>>

\* A call that may fail comes before anything but the history is left.
FailureAhead ==
    ~Excused(line, env) =>
        /\ Tidy(todo)
        /\ \A i \in DOMAIN todo : todo[i].code \in {3, 4} => kept \in Seq(Behind)

\* What has come of it.
Answered ==
    /\ exit = 2 => kept = <<>>
    /\ exit \in {3, 4} /\ ~Excused(line, env) => kept \in Seq(Behind)

RunInv ==
    /\ line \in UNION Lines /\ phase \in Phases
    /\ Idle /\ Grounded /\ RefusalAhead /\ FailureAhead /\ Answered

LEMMA LineFacts ==
    ASSUME line \in UNION Lines
    PROVE  /\ line.family \in DOMAIN Options /\ line.sub \in Subcommands(line.family)
           /\ line.arguments \in Seq([word : STRING, value : STRING])
  BY LinesAssumption

LEMMA RunInit ==
    Init => RunInv
<1> SUFFICES ASSUME Init PROVE RunInv
  OBVIOUS
<1>1. DOMAIN <<>> = {}
  OBVIOUS
<1>2. todo = <<>> /\ kept = <<>> /\ exit = Running /\ phase = "arguments"
      /\ line \in UNION Lines
  BY DEF Init
<1>3. Grounded
  BY <1>2, NoCall DEF Grounded
<1>4. FailureAhead
  BY <1>1, <1>2, NoneTidy DEF FailureAhead
<1> QED
  BY <1>1, <1>2, <1>3, <1>4 DEF RunInv, Phases, Idle, RefusalAhead, Answered, Running

LEMMA FirstAndRest ==
    ASSUME NEW S, NEW s \in Seq(S), s # <<>>
    PROVE  /\ 1 \in DOMAIN s /\ Head(s) = s[1] /\ Head(s) \in S
           /\ Tail(s) \in Seq(S)
           /\ \A i \in DOMAIN Tail(s) :
                  i \in Nat /\ i >= 1 /\ i + 1 \in DOMAIN s /\ Tail(s)[i] = s[i + 1]
<1>1. Len(s) \in Nat /\ DOMAIN s = 1 .. Len(s) /\ Len(s) # 0
  BY LenProperties, EmptySeq
<1> QED
  BY <1>1, HeadTailProperties, LenProperties

\* The steps before the handler.
LEMMA LoopKeepsRun ==
    ASSUME RunInv, phase = "arguments", exit' = exit, todo' = todo, kept' = kept,
           line' = line, phase' \in {"arguments", "checks"}
    PROVE  RunInv'
<1>1. todo = <<>> /\ kept = <<>> /\ exit = Running /\ DOMAIN <<>> = {}
  BY DEF RunInv, Idle
<1>2. Grounded'
  BY <1>1, NoCall DEF Grounded
<1>3. FailureAhead'
  BY <1>1, NoneTidy DEF FailureAhead
<1>4. RefusalAhead' /\ Idle' /\ Answered'
  BY <1>1 DEF RunInv, RefusalAhead, Idle, Answered, Running
<1> QED
  BY <1>2, <1>3, <1>4 DEF RunInv, Phases

LEMMA RefusalKeepsRun ==
    ASSUME RunInv, phase \in {"arguments", "checks"}, Exit(2),
           UNCHANGED <<line, at, loop, moment, todo, kept>>
    PROVE  RunInv'
<1>1. todo' = <<>> /\ kept' = <<>> /\ DOMAIN <<>> = {} /\ exit' = 2
      /\ phase' = "exited" /\ line' = line
  BY DEF RunInv, Idle, Exit
<1>2. Grounded'
  BY <1>1, NoCall DEF Grounded
<1>3. FailureAhead'
  BY <1>1, NoneTidy DEF FailureAhead
<1> QED
  BY <1>1, <1>2, <1>3 DEF RunInv, RefusalAhead, Idle, Answered, Phases

LEMMA DispatchKeepsRun ==
    ASSUME RunInv, Dispatch
    PROVE  RunInv'
<1>1. /\ todo = <<>> /\ kept = <<>> /\ exit = Running /\ kept' = <<>> /\ exit' = Running
      /\ line' = line /\ env' = env /\ phase' = "handler" /\ ~Misused(line, env)
  BY DEF RunInv, Idle, Dispatch, env
<1>2. PICK found : todo' = Calls(line, env, moment', found)
  BY DEF Dispatch
<1>3. /\ Proper(line, env, moment', todo')
      /\ ~Excused(line, env) => Tidy(todo')
  <2>1. line.family \in DOMAIN Options /\ line.sub \in Subcommands(line.family)
    BY LineFacts DEF RunInv
  <2> QED
    BY <1>1, <1>2, <2>1, CallsProper
<1>4. Grounded'
  BY <1>1, <1>3, NoCall DEF Grounded, Proper
<1>5. RefusalAhead'
  BY <1>1, <1>3 DEF RefusalAhead, Proper, RefusesFirst
<1>6. FailureAhead'
  BY <1>1, <1>3, NoCall DEF FailureAhead
<1>7. Idle' /\ Answered'
  BY <1>1 DEF Idle, Answered, Running
<1> QED
  BY <1>1, <1>4, <1>5, <1>6, <1>7 DEF RunInv, Phases

\* A call is taken off the list, and what it keeps is not a failure's to come.
LEMMA CallKeepsRun ==
    ASSUME RunInv, CallSucceeds \/ CallFailsUnnoticed
    PROVE  RunInv'
<1> DEFINE first == Head(todo)
           D == Due(line, env, moment)
           T == {t \in Traces \ {None} : Grounds(line, env, moment, t)}
<1>1. /\ todo # <<>> /\ todo' = Tail(todo) /\ phase = "handler"
      /\ UNCHANGED <<line, phase, env, moment, exit>>
      /\ kept' = kept \/ kept' = Keeps(first)
  BY DEF CallSucceeds, CallFailsUnnoticed, env
<1>2. todo \in Seq(D) /\ kept \in Seq(T)
  BY DEF RunInv, Grounded
<1>3. /\ 1 \in DOMAIN todo /\ first = todo[1] /\ first \in D /\ todo' \in Seq(D)
      /\ \A i \in DOMAIN todo' :
            /\ i \in Nat /\ i >= 1 /\ i + 1 \in DOMAIN todo
            /\ todo'[i] = todo[i + 1]
  BY <1>1, <1>2, FirstAndRest
<1>4. kept' = kept \/ (first.keeps # None /\ kept' = Append(kept, first.keeps))
  BY <1>1 DEF Keeps
<1>5. first.keeps # None => first.keeps \in T
  BY <1>3 DEF D, T, Due, CallRecord
<1> HIDE DEF first, D
<1>6. kept' \in Seq(T)
  BY <1>2, <1>4, <1>5, AppendProperties
<1>7. Grounded'
  BY <1>1, <1>3, <1>6 DEF Grounded, D, T
<1>8. \A i \in DOMAIN todo' : i + 1 # 1 /\ 1 < i + 1
  BY <1>3
<1>9. RefusalAhead'
  BY <1>3, <1>8 DEF RunInv, RefusalAhead
<1>10. FailureAhead'
  <2> SUFFICES ASSUME ~Excused(line, env)
               PROVE  /\ Tidy(todo')
                      /\ \A i \in DOMAIN todo' :
                            todo'[i].code \in {3, 4} => kept' \in Seq(Behind)
    BY <1>1 DEF FailureAhead
  <2>1. Tidy(todo) /\ \A i \in DOMAIN todo : todo[i].code \in {3, 4} => kept \in Seq(Behind)
    BY DEF RunInv, FailureAhead
  <2>2. Tidy(todo')
    <3> SUFFICES ASSUME NEW i \in DOMAIN todo', todo'[i].code \in {3, 4},
                        NEW j \in DOMAIN todo', j < i
                 PROVE  todo'[j].keeps \in Behind
      BY DEF Tidy
    <3>1. /\ i + 1 \in DOMAIN todo /\ j + 1 \in DOMAIN todo /\ j + 1 < i + 1
          /\ todo[i + 1].code \in {3, 4} /\ todo'[j] = todo[j + 1]
      BY <1>3
    <3> QED
      BY <2>1, <3>1 DEF Tidy
  <2>3. ASSUME NEW i \in DOMAIN todo', todo'[i].code \in {3, 4}
        PROVE  kept' \in Seq(Behind)
    <3>1. i + 1 \in DOMAIN todo /\ todo[i + 1].code \in {3, 4} /\ 1 < i + 1
      BY <1>3, <1>8, <2>3
    <3>2. kept \in Seq(Behind) /\ first.keeps \in Behind
      BY <1>3, <2>1, <3>1 DEF Tidy
    <3> QED
      BY <1>4, <3>2, AppendProperties
  <2> QED
    BY <2>2, <2>3
<1>11. Idle' /\ Answered'
  BY <1>1 DEF RunInv, Idle, Answered, Running
<1> QED
  BY <1>1, <1>7, <1>9, <1>10, <1>11 DEF RunInv

LEMMA EndKeepsRun ==
    ASSUME RunInv, CallFails \/ Finished
    PROVE  RunInv'
<1>0. DOMAIN <<>> = {}
  OBVIOUS
<1>1. /\ phase = "handler" /\ phase' = "exited" /\ todo' = <<>>
      /\ UNCHANGED <<line, env, moment, kept>>
      /\ \/ exit' = 0
         \/ todo # <<>> /\ exit' = Head(todo).code
  BY DEF CallFails, Finished, Exit, env
<1>2. Grounded'
  BY <1>1, NoCall DEF RunInv, Grounded
<1>3. FailureAhead' /\ RefusalAhead' /\ Idle'
  BY <1>0, <1>1, NoneTidy DEF FailureAhead, RefusalAhead, Idle
<1>4. Answered'
  <2>1. CASE exit' = 0
    BY <1>1, <2>1 DEF Answered
  <2>2. CASE todo # <<>> /\ exit' = Head(todo).code
    <3>1. 1 \in DOMAIN todo /\ exit' = todo[1].code
      BY <2>2, FirstAndRest DEF RunInv, Grounded
    <3> QED
      BY <1>1, <3>1 DEF RunInv, RefusalAhead, FailureAhead, Answered
  <2> QED
    BY <1>1, <2>1, <2>2
<1> QED
  BY <1>1, <1>2, <1>3, <1>4 DEF RunInv, Phases

LEMMA RunStep ==
    RunInv /\ [Next]_vars => RunInv'
<1> SUFFICES ASSUME RunInv, [Next]_vars PROVE RunInv'
  OBVIOUS
<1>1. CASE UNCHANGED vars
  BY <1>1 DEF vars, env, RunInv, Idle, Grounded, RefusalAhead, FailureAhead, Answered
<1>2. CASE ReadArgument \/ AcceptArguments
  BY <1>2, LoopKeepsRun DEF ReadArgument, AcceptArguments
<1>3. CASE RefuseArgument \/ RefuseLoop \/ RefuseUse
  BY <1>3, RefusalKeepsRun DEF RefuseArgument, RefuseLoop, RefuseUse
<1>4. CASE Dispatch
  BY <1>4, DispatchKeepsRun
<1>5. CASE CallSucceeds \/ CallFailsUnnoticed
  BY <1>5, CallKeepsRun
<1>6. CASE CallFails \/ Finished
  BY <1>6, EndKeepsRun
<1> QED
  BY <1>1, <1>2, <1>3, <1>4, <1>5, <1>6 DEF Next

THEOREM RunInvariant == Spec => []RunInv
  BY RunInit, RunStep, PTL DEF Spec

\* A command that answers with exit code 2 has left nothing behind, whatever
\* its line, and also where its handler gives that answer.
THEOREM RefusalsTouchNothing == Spec => []RefusalTouchesNothing
<1>1. RunInv => RefusalTouchesNothing
  BY DEF RunInv, Answered, RefusalTouchesNothing
<1> QED
  BY <1>1, RunInvariant, PTL

\* Outside the commands that CleanFailure lists, one that fails has left a line
\* in the history at most.
THEOREM FailuresClean == Spec => []CleanFailure
<1>1. RunInv => CleanFailure
  <2> SUFFICES ASSUME RunInv, exit \in {3, 4}, ~Excused(line, env)
               PROVE  ToSet(kept) \subseteq {"history"}
    BY DEF CleanFailure, Excused
  <2>1. kept \in Seq(Behind) /\ kept \in Seq(Traces \ {None})
    BY SubCalls DEF RunInv, Answered, Grounded
  <2>2. \A i \in DOMAIN kept : kept[i] \in Behind /\ kept[i] # None
    BY <2>1, LenProperties
  <2> QED
    BY <2>2 DEF ToSet, Behind
<1> QED
  BY <1>1, RunInvariant, PTL

-----------------------------------------------------------------------------
(* The options of the two loops whose commands can change a network.       *)

\* Variables that an option of another name sets are not options themselves.
LEMMA SecurityNames ==
    /\ "dry_run" \notin DOMAIN Options["security"]
    /\ Options["security"]["--window"].kind = "window"
    /\ Options["security"]["--quota-mb"].kind = "quota"
    /\ Options["security"]["--warning-mb"].kind = "quota"
<1> DEFINE a == SecuritySubcommands
           b == SecurityApply
           c == SecurityTargets
           d == SecuritySchedule
           f == SecurityQuota
           g == SecurityDetectors
           h == SecurityLearning
           i == SecurityPaths
           all == ((((((a ++ b) ++ c) ++ d) ++ f) ++ g) ++ h) ++ i
           V == {"dry_run"}
           W == {"--window", "--quota-mb", "--warning-mb"}
<1>1. Options["security"] = all
  BY DEF Options
<1>2. (DOMAIN a) \cap (V \cup W) = {}
  BY DEF ++, SecuritySubcommands, Flag, Word, Take, TakeNext, Table
<1>3. (DOMAIN b) \cap (V \cup W) = {}
  BY DEF ++, SecurityApply, Flag, Word, Take, TakeNext, Table
<1>4. (DOMAIN c) \cap (V \cup W) = {}
  BY DEF ++, SecurityTargets, Flag, Word, Take, TakeNext, Table
<1>5. /\ (DOMAIN d) \cap (V \cup W) = {"--window"}
      /\ d["--window"].kind = "window"
  BY DEF ++, SecuritySchedule, Flag, Word, Take, TakeNext, Table
<1>6. /\ (DOMAIN f) \cap (V \cup W) = {"--quota-mb", "--warning-mb"}
      /\ f["--quota-mb"].kind = "quota" /\ f["--warning-mb"].kind = "quota"
  BY DEF ++, SecurityQuota, Flag, Word, Take, TakeNext, Table
<1>7. (DOMAIN g) \cap (V \cup W) = {}
  BY DEF ++, SecurityDetectors, Flag, Word, Take, TakeNext, Table
<1>8. (DOMAIN h) \cap (V \cup W) = {}
  BY DEF ++, SecurityLearning, Flag, Word, Take, TakeNext, Table
<1>9. (DOMAIN i) \cap (V \cup W) = {}
  BY DEF ++, SecurityPaths, Flag, Word, Take, TakeNext, Table
<1> HIDE DEF a, b, c, d, f, g, h, i
<1>10. /\ DOMAIN ((a ++ b) ++ c) = DOMAIN a \cup DOMAIN b \cup DOMAIN c
       /\ DOMAIN (((a ++ b) ++ c) ++ d)
            = DOMAIN a \cup DOMAIN b \cup DOMAIN c \cup DOMAIN d
       /\ DOMAIN ((((a ++ b) ++ c) ++ d) ++ f)
            = DOMAIN a \cup DOMAIN b \cup DOMAIN c \cup DOMAIN d \cup DOMAIN f
  BY DEF ++
<1>11. DOMAIN all = DOMAIN a \cup DOMAIN b \cup DOMAIN c \cup DOMAIN d \cup DOMAIN f
                    \cup DOMAIN g \cup DOMAIN h \cup DOMAIN i
  BY <1>10 DEF ++
<1>12. all["--window"] = d["--window"]
  <2>1. "--window" \in DOMAIN d /\ "--window" \notin DOMAIN ((a ++ b) ++ c)
    BY <1>2, <1>3, <1>4, <1>5, <1>10
  <2>2. /\ (((a ++ b) ++ c) ++ d)["--window"] = d["--window"]
        /\ "--window" \in DOMAIN (((a ++ b) ++ c) ++ d)
    BY <2>1, <1>10 DEF ++
  <2> QED
    BY <2>2, <1>10 DEF ++
<1>13. \A k \in {"--quota-mb", "--warning-mb"} : all[k] = f[k]
  <2> SUFFICES ASSUME NEW k \in {"--quota-mb", "--warning-mb"} PROVE all[k] = f[k]
    OBVIOUS
  <2>1. k \in DOMAIN f /\ k \notin DOMAIN (((a ++ b) ++ c) ++ d)
    BY <1>2, <1>3, <1>4, <1>5, <1>6, <1>10
  <2>2. /\ ((((a ++ b) ++ c) ++ d) ++ f)[k] = f[k]
        /\ k \in DOMAIN ((((a ++ b) ++ c) ++ d) ++ f)
    BY <2>1, <1>10 DEF ++
  <2> QED
    BY <2>2, <1>10 DEF ++
<1>14. V \cap DOMAIN all = {}
  BY <1>2, <1>3, <1>4, <1>5, <1>6, <1>7, <1>8, <1>9, <1>11
<1> HIDE DEF all
<1> QED
  BY <1>1, <1>5, <1>6, <1>12, <1>13, <1>14

LEMMA BandwidthNames ==
    {"dry_run", "plugin_dry_run", "confirm"} \cap DOMAIN Options["bandwidth"] = {}
<1> DEFINE a == BandwidthSources
           b == BandwidthRequest
           c == BandwidthRules
           d == BandwidthNumbers
           f == BandwidthAnomaly
           V == {"dry_run", "plugin_dry_run", "confirm"}
<1>1. Options["bandwidth"] = (((a ++ b) ++ c) ++ d) ++ f
  BY DEF Options
<1>2. (DOMAIN a) \cap V = {}
  BY DEF ++, BandwidthSources, Flag, Word, Take, TakeNext, Table
<1>3. (DOMAIN b) \cap V = {}
  BY DEF ++, BandwidthRequest, Flag, Word, Take, TakeNext, Table
<1>4. (DOMAIN c) \cap V = {}
  BY DEF ++, BandwidthRules, Flag, Word, Take, TakeNext, Table
<1>5. (DOMAIN d) \cap V = {}
  BY DEF ++, BandwidthNumbers, Flag, Word, Take, TakeNext, Table
<1>6. (DOMAIN f) \cap V = {}
  BY DEF ++, BandwidthAnomaly, Flag, Word, Take, TakeNext, Table
<1> HIDE DEF a, b, c, d, f
<1>7. DOMAIN ((((a ++ b) ++ c) ++ d) ++ f)
        = DOMAIN a \cup DOMAIN b \cup DOMAIN c \cup DOMAIN d \cup DOMAIN f
  BY DEF ++
<1> QED
  BY <1>1, <1>2, <1>3, <1>4, <1>5, <1>6, <1>7

-----------------------------------------------------------------------------
(* What the loop has set, and what the line said for it.                   *)

LEMMA Element ==
    ASSUME NEW S, NEW s \in Seq(S), NEW i \in DOMAIN s
    PROVE  s[i] \in S
  BY LenProperties

\* The words of a line, and those the loop puts in for it.
Words == STRING \cup {None, AnyDay, "on"}

After(said, name, other) ==
    \E i \in DOMAIN said :
        said[i] = name /\ \A j \in DOMAIN said : said[j] = other => j < i

LEMMA SaidMore ==
    ASSUME NEW said \in Seq(Words), NEW name \in Words
    PROVE  /\ Append(said, name) \in Seq(Words)
           /\ ToSet(Append(said, name)) = ToSet(said) \cup {name}
           /\ \A other : name # other => After(Append(said, name), name, other)
           /\ \A x, other : After(said, x, other) /\ name # other
                              => After(Append(said, name), x, other)
<1> DEFINE more == Append(said, name)
           n == Len(said)
<1>1. /\ n \in Nat /\ DOMAIN said = 1 .. n /\ DOMAIN more = 1 .. n + 1
      /\ more \in Seq(Words) /\ more[n + 1] = name
      /\ \A i \in 1 .. n : more[i] = said[i]
  BY AppendProperties, LenProperties
<1> HIDE DEF more, n
<1>2. ToSet(more) = ToSet(said) \cup {name}
  <2>1. \A i \in 1 .. n + 1 : i \in 1 .. n \/ i = n + 1
    BY <1>1
  <2>2. 1 .. n \subseteq 1 .. n + 1 /\ n + 1 \in 1 .. n + 1
    BY <1>1
  <2> QED
    BY <1>1, <2>1, <2>2 DEF ToSet
<1>3. ASSUME NEW other, name # other
      PROVE  After(more, name, other)
  <2>1. \A j \in DOMAIN more : more[j] = other => j < n + 1
    BY <1>1, <1>3
  <2>2. n + 1 \in DOMAIN more
    BY <1>1
  <2> QED
    BY <1>1, <2>1, <2>2 DEF After
<1>4. ASSUME NEW x, NEW other, After(said, x, other), name # other
      PROVE  After(more, x, other)
  <2>1. PICK i \in DOMAIN said :
            said[i] = x /\ \A j \in DOMAIN said : said[j] = other => j < i
    BY <1>4 DEF After
  <2>2. i \in DOMAIN more /\ more[i] = x
    BY <1>1, <2>1
  <2>3. \A j \in DOMAIN more : more[j] = other => j < i
    BY <1>1, <1>4, <2>1
  <2> QED
    BY <2>2, <2>3 DEF After
<1> QED
  BY <1>1, <1>2, <1>3, <1>4 DEF more

\* Flags that a change of the network waits for.
ConsentFlags == {"--mock", "--confirm", "--saved-rule"}

\* What the variables of both loops say of the line.
CommonEnv(e, said) ==
    /\ "dry_run" \in DOMAIN e => e["dry_run"] = "on" \/ After(said, "--apply", "--dry-run")
    /\ \A k \in ConsentFlags : k \in DOMAIN e => k \in ToSet(said)

SecurityEnv(e, said) ==
    /\ CommonEnv(e, said)
    /\ "import" \in DOMAIN e => "--apply" \in ToSet(said)
    /\ \A k \in {"--quota-mb", "--warning-mb"} : k \in DOMAIN e => e[k] \in Numerals
    /\ "--days" \in DOMAIN e => e["--days"] \in Words
    /\ "--window" \in DOMAIN e => e["--window"] \in Seq([hours : Spans, days : Words])

BandwidthEnv(e, said) ==
    /\ CommonEnv(e, said)
    /\ "plugin_dry_run" \in DOMAIN e => "--apply" \in ToSet(said)
    /\ "confirm" \in DOMAIN e => "--confirm" \in ToSet(said)

LEMMA SecuritySwitchValues ==
    /\ {"--apply", "--dry-run", "import"} \subseteq DOMAIN SecuritySwitches
    /\ DOMAIN SecuritySwitches \cap {"--mock", "--confirm", "--saved-rule", "--quota-mb",
                                     "--warning-mb", "--days", "--window",
                                     "--port"} = {}
    /\ DOMAIN SecuritySwitches["--apply"] = {"dry_run", "import"}
    /\ DOMAIN SecuritySwitches["--dry-run"] = {"dry_run"}
    /\ SecuritySwitches["--dry-run"]["dry_run"] = "on"
    /\ \A n \in DOMAIN SecuritySwitches \ {"--apply", "--dry-run"} :
            DOMAIN SecuritySwitches[n]
                \subseteq {"enforce", "unknown_iot", "import_inventory", "recognize", "rental"}
  BY SMTT(30) DEF SecuritySwitches

LEMMA BandwidthSwitchValues ==
    /\ {"--apply", "--dry-run", "--confirm"} \subseteq DOMAIN BandwidthSwitches
    /\ DOMAIN BandwidthSwitches \cap {"--mock", "--saved-rule"} = {}
    /\ DOMAIN BandwidthSwitches["--apply"] = {"dry_run", "plugin_dry_run"}
    /\ DOMAIN BandwidthSwitches["--dry-run"] = {"dry_run", "capture_dry_run"}
    /\ BandwidthSwitches["--dry-run"]["dry_run"] = "on"
    /\ DOMAIN BandwidthSwitches["--confirm"] = {"confirm", "capture_dry_run"}
    /\ \A n \in DOMAIN BandwidthSwitches \ {"--apply", "--dry-run", "--confirm"} :
            DOMAIN BandwidthSwitches[n] \subseteq {"npcap", "admin"}
  BY SMTT(30) DEF BandwidthSwitches

\* An option that sets a variable of its own name.
LEMMA PutKeepsCommon ==
    ASSUME NEW e, NEW said \in Seq(Words), NEW name \in Words \ {"dry_run", "--dry-run"},
           NEW v, CommonEnv(e, said)
    PROVE  CommonEnv(Put(e, name, v), Append(said, name))
<1>1. /\ ToSet(Append(said, name)) = ToSet(said) \cup {name}
      /\ After(said, "--apply", "--dry-run") => After(Append(said, name), "--apply", "--dry-run")
  BY SaidMore
<1>2. DOMAIN Put(e, name, v) = DOMAIN e \cup {name}
      /\ \A k \in DOMAIN e : k # name => Put(e, name, v)[k] = e[k]
  BY DEF Put, ++
<1> QED
  BY <1>1, <1>2 DEF CommonEnv

LEMMA SecurityPut ==
    ASSUME NEW e, NEW said \in Seq(Words),
           NEW name \in Words \ {"dry_run", "--dry-run", "import"}, NEW v,
           SecurityEnv(e, said),
           name \in {"--quota-mb", "--warning-mb"} => v \in Numerals,
           name = "--days" => v \in Words,
           name = "--window" => v \in Seq([hours : Spans, days : Words])
    PROVE  SecurityEnv(Put(e, name, v), Append(said, name))
<1> DEFINE new == Put(e, name, v)
           more == Append(said, name)
<1>1. CommonEnv(new, more)
  BY PutKeepsCommon DEF SecurityEnv
<1>2. ToSet(more) = ToSet(said) \cup {name}
  BY SaidMore
<1>3. DOMAIN new = DOMAIN e \cup {name} /\ new[name] = v
      /\ \A k \in DOMAIN e : k # name => new[k] = e[k]
  BY DEF Put, ++
<1> HIDE DEF new, more
<1>4. "import" \in DOMAIN new => "--apply" \in ToSet(more)
  BY <1>2, <1>3 DEF SecurityEnv
<1>5. \A k \in {"--quota-mb", "--warning-mb"} : k \in DOMAIN new => new[k] \in Numerals
  BY <1>3 DEF SecurityEnv
<1>6. "--days" \in DOMAIN new => new["--days"] \in Words
  BY <1>3 DEF SecurityEnv
<1>7. "--window" \in DOMAIN new
         => new["--window"] \in Seq([hours : Spans, days : Words])
  BY <1>3 DEF SecurityEnv
<1> QED
  BY <1>1, <1>4, <1>5, <1>6, <1>7 DEF SecurityEnv, new, more

LEMMA BandwidthPut ==
    ASSUME NEW e, NEW said \in Seq(Words),
           NEW name \in Words \ {"dry_run", "--dry-run", "plugin_dry_run", "confirm"}, NEW v,
           BandwidthEnv(e, said)
    PROVE  BandwidthEnv(Put(e, name, v), Append(said, name))
<1>1. CommonEnv(Put(e, name, v), Append(said, name))
  BY PutKeepsCommon DEF BandwidthEnv
<1>2. ToSet(Append(said, name)) = ToSet(said) \cup {name}
  BY SaidMore
<1>3. DOMAIN Put(e, name, v) = DOMAIN e \cup {name}
  BY DEF Put, ++
<1> QED
  BY <1>1, <1>2, <1>3 DEF BandwidthEnv

\* An option that sets other variables.
LEMMA SwitchKeepsCommon ==
    ASSUME NEW e, NEW said \in Seq(Words), NEW name \in Words, NEW sets,
           CommonEnv(e, said),
           DOMAIN sets \cap ConsentFlags = {},
           name # "--apply" => "dry_run" \notin DOMAIN sets \/ sets["dry_run"] = "on",
           name = "--dry-run" => "dry_run" \in DOMAIN sets
    PROVE  CommonEnv(sets ++ e, Append(said, name))
<1>1. /\ ToSet(Append(said, name)) = ToSet(said) \cup {name}
      /\ name = "--apply" => After(Append(said, name), "--apply", "--dry-run")
      /\ name # "--dry-run" /\ After(said, "--apply", "--dry-run")
            => After(Append(said, name), "--apply", "--dry-run")
  BY SaidMore
<1> DEFINE new == sets ++ e
           more == Append(said, name)
<1>2. /\ DOMAIN new = DOMAIN sets \cup DOMAIN e
      /\ \A k \in DOMAIN sets : new[k] = sets[k]
      /\ \A k \in DOMAIN e : k \notin DOMAIN sets => new[k] = e[k]
  BY DEF ++
<1> HIDE DEF new, more
<1>3. "dry_run" \in DOMAIN new
         => new["dry_run"] = "on" \/ After(more, "--apply", "--dry-run")
  <2> SUFFICES ASSUME "dry_run" \in DOMAIN new, name # "--apply",
                      "dry_run" \notin DOMAIN sets
               PROVE  new["dry_run"] = "on" \/ After(more, "--apply", "--dry-run")
    BY <1>1, <1>2 DEF new, more
  <2>1. name # "--dry-run"
    OBVIOUS
  <2>2. "dry_run" \in DOMAIN e /\ new["dry_run"] = e["dry_run"]
    BY <1>2
  <2>3. e["dry_run"] = "on" \/ After(said, "--apply", "--dry-run")
    BY <2>2 DEF CommonEnv
  <2> QED
    BY <1>1, <2>1, <2>2, <2>3 DEF more
<1>4. \A k \in ConsentFlags : k \in DOMAIN new => k \in ToSet(more)
  BY <1>1, <1>2 DEF CommonEnv, new, more
<1> QED
  BY <1>3, <1>4 DEF CommonEnv, new, more

LEMMA SecuritySwitch ==
    ASSUME NEW e, NEW said \in Seq(Words), NEW name \in Words \cap DOMAIN SecuritySwitches,
           SecurityEnv(e, said)
    PROVE  SecurityEnv(SecuritySwitches[name] ++ e, Append(said, name))
<1> DEFINE sets == SecuritySwitches[name]
           new == sets ++ e
           more == Append(said, name)
           V == {"dry_run", "import", "enforce", "unknown_iot", "import_inventory",
                 "recognize", "rental"}
<1>1. /\ DOMAIN sets \subseteq V
      /\ name # "--apply" => "import" \notin DOMAIN sets
      /\ name # "--apply" => "dry_run" \notin DOMAIN sets \/ sets["dry_run"] = "on"
      /\ name = "--dry-run" => "dry_run" \in DOMAIN sets
  BY SecuritySwitchValues
<1>2. ToSet(more) = ToSet(said) \cup {name}
  BY SaidMore
<1>3. DOMAIN new = DOMAIN sets \cup DOMAIN e
      /\ \A k \in DOMAIN e : k \notin DOMAIN sets => new[k] = e[k]
  BY DEF ++
<1> HIDE DEF sets
<1>4. CommonEnv(new, more)
  <2>1. DOMAIN sets \cap ConsentFlags = {}
    BY <1>1 DEF ConsentFlags
  <2> QED
    BY <1>1, <2>1, SwitchKeepsCommon DEF SecurityEnv
<1> HIDE DEF new, more
<1>5. \A k \in {"--quota-mb", "--warning-mb", "--days", "--window"} :
          k \in DOMAIN new => k \in DOMAIN e /\ new[k] = e[k]
  BY <1>1, <1>3
<1>6. "import" \in DOMAIN new => "--apply" \in ToSet(more)
  BY <1>1, <1>2, <1>3 DEF SecurityEnv
<1>7. SecurityEnv(new, more)
  BY <1>4, <1>5, <1>6 DEF SecurityEnv
<1> QED
  BY <1>7 DEF new, more, sets

LEMMA BandwidthSwitch ==
    ASSUME NEW e, NEW said \in Seq(Words), NEW name \in Words \cap DOMAIN BandwidthSwitches,
           BandwidthEnv(e, said)
    PROVE  BandwidthEnv(BandwidthSwitches[name] ++ e, Append(said, name))
<1> DEFINE sets == BandwidthSwitches[name]
           new == sets ++ e
           more == Append(said, name)
           V == {"dry_run", "plugin_dry_run", "capture_dry_run", "confirm", "npcap", "admin"}
<1>1. /\ DOMAIN sets \subseteq V
      /\ name # "--apply" => "plugin_dry_run" \notin DOMAIN sets
      /\ name # "--confirm" => "confirm" \notin DOMAIN sets
      /\ name # "--apply" => "dry_run" \notin DOMAIN sets \/ sets["dry_run"] = "on"
      /\ name = "--dry-run" => "dry_run" \in DOMAIN sets
  BY BandwidthSwitchValues
<1>2. ToSet(more) = ToSet(said) \cup {name}
  BY SaidMore
<1>3. DOMAIN new = DOMAIN sets \cup DOMAIN e
  BY DEF ++
<1> HIDE DEF sets
<1>4. CommonEnv(new, more)
  <2>1. DOMAIN sets \cap ConsentFlags = {}
    BY <1>1 DEF ConsentFlags
  <2> QED
    BY <1>1, <2>1, SwitchKeepsCommon DEF BandwidthEnv
<1> HIDE DEF new, more
<1>5. BandwidthEnv(new, more)
  BY <1>1, <1>2, <1>3, <1>4 DEF BandwidthEnv
<1> QED
  BY <1>5 DEF new, more, sets

LEMMA SecuritySets ==
    ASSUME NEW e, NEW said \in Seq(Words),
           NEW name \in Words \cap DOMAIN Options["security"], NEW word \in Words,
           SecurityEnv(e, said),
           name \in {"--quota-mb", "--warning-mb"} => word \in Numerals,
           name = "--window" => word \in Spans
    PROVE  SecurityEnv(Set("security", e, name, word), Append(said, name))
<1> DEFINE new == Set("security", e, name, word)
<1>0. Switches("security") = SecuritySwitches /\ Lists("security") = {"--port"}
  BY DEF Switches, Lists
<1>1. name # "dry_run"
  BY SecurityNames
<1>2. CASE name \in DOMAIN SecuritySwitches
  <2>1. name \notin {"--port", "--window"}
    BY <1>2, SecuritySwitchValues
  <2>2. new = SecuritySwitches[name] ++ e
    BY <1>0, <1>2, <2>1 DEF Set
  <2> QED
    BY <1>2, <2>2, SecuritySwitch
<1>3. CASE name \notin DOMAIN SecuritySwitches
  <2>1. name \notin {"--dry-run", "import"}
    BY <1>3, SecuritySwitchValues
  <2>2. CASE name = "--port"
    <3> DEFINE ports == Append(Val(e, name, <<>>), word)
    <3>1. new = Put(e, name, ports)
      BY <1>0, <1>3, <2>2 DEF Set, Push
    <3> HIDE DEF ports
    <3> QED
      BY <1>1, <2>1, <2>2, <3>1, SecurityPut
  <2>3. CASE name = "--window"
    <3> DEFINE windows == Val(e, "--window", <<>>)
               days == Val(e, "--days", AnyDay)
               more == Append(windows, [hours |-> word, days |-> days])
    <3>1. new = Put(e, name, more)
      BY <1>0, <1>3, <2>3 DEF Set, PushWindow, Push
    <3>2. days \in Words /\ windows \in Seq([hours : Spans, days : Words])
      BY EmptySeq DEF SecurityEnv, Val, Words
    <3>3. [hours |-> word, days |-> days] \in [hours : Spans, days : Words]
      BY <2>3, <3>2
    <3> HIDE DEF windows, days
    <3>4. more \in Seq([hours : Spans, days : Words])
      BY <3>2, <3>3, AppendProperties
    <3> HIDE DEF more
    <3> QED
      BY <1>1, <2>1, <2>3, <3>1, <3>4, SecurityPut
  <2>4. CASE name \notin {"--port", "--window"}
    <3>1. new = Put(e, name, word)
      BY <1>0, <1>3, <2>4 DEF Set
    <3> QED
      BY <1>1, <2>1, <2>4, <3>1, SecurityPut
  <2> QED
    BY <2>2, <2>3, <2>4
<1> QED
  BY <1>2, <1>3

LEMMA BandwidthSets ==
    ASSUME NEW e, NEW said \in Seq(Words),
           NEW name \in Words \cap DOMAIN Options["bandwidth"], NEW word,
           BandwidthEnv(e, said)
    PROVE  BandwidthEnv(Set("bandwidth", e, name, word), Append(said, name))
<1> DEFINE new == Set("bandwidth", e, name, word)
<1>0. Switches("bandwidth") = BandwidthSwitches /\ Lists("bandwidth") = {}
  BY DEF Switches, Lists
<1>1. name \notin {"dry_run", "plugin_dry_run", "confirm"}
  BY BandwidthNames
<1>2. CASE name \in DOMAIN BandwidthSwitches
  <2>1. new = BandwidthSwitches[name] ++ e
    BY <1>0, <1>2 DEF Set
  <2> QED
    BY <1>2, <2>1, BandwidthSwitch
<1>3. CASE name \notin DOMAIN BandwidthSwitches
  <2>1. name # "--dry-run"
    BY <1>3, BandwidthSwitchValues
  <2>2. new = Put(e, name, word)
    BY <1>0, <1>3 DEF Set
  <2> QED
    BY <1>1, <2>1, <2>2, BandwidthPut
<1> QED
  BY <1>2, <1>3

-----------------------------------------------------------------------------
(* The invariant of the loop.                                              *)

\* The option that waits for its value is one of the loop, and what the two
\* loops that matter here have set is what the line said.
Faithful(f, s) ==
    /\ s = [refused |-> FALSE, pending |-> s.pending, env |-> s.env, said |-> s.said]
    /\ s.said \in Seq(Words)
    /\ s.pending \in Words
    /\ s.pending # None => s.pending \in DOMAIN Options[f]
    /\ f = "security" => SecurityEnv(s.env, s.said)
    /\ f = "bandwidth" => BandwidthEnv(s.env, s.said)

LEMMA TakenFaithful ==
    ASSUME NEW f, NEW s, Faithful(f, s), NEW name \in Words \cap DOMAIN Options[f],
           NEW word \in Words,
           Options[f][name].kind = "quota" => word \in Numerals,
           Options[f][name].kind = "window" => word \in Spans
    PROVE  Faithful(f, TakeOption(f, s, name, word))
<1>1. PICK p, e, d : s = [refused |-> FALSE, pending |-> p, env |-> e, said |-> d]
  BY DEF Faithful
<1> DEFINE new == Set(f, e, name, word)
<1>2. TakeOption(f, s, name, word)
        = [refused |-> FALSE, pending |-> None, env |-> new, said |-> Append(d, name)]
  <2>1. s.env = e /\ s.said = d
    BY <1>1
  <2>2. TakeOption(f, s, name, word)
          = [s EXCEPT !.pending = None, !.env = new, !.said = Append(d, name)]
    BY <2>1 DEF TakeOption
  <2> HIDE DEF new
  <2> QED
    BY <1>1, <2>2
<1>3. d \in Seq(Words)
  BY <1>1 DEF Faithful
<1>4. f = "security" => SecurityEnv(new, Append(d, name))
  BY <1>1, <1>3, SecurityNames, SecuritySets DEF Faithful
<1>5. f = "bandwidth" => BandwidthEnv(new, Append(d, name))
  BY <1>1, <1>3, BandwidthSets DEF Faithful
<1>6. Append(d, name) \in Seq(Words)
  BY <1>3, AppendProperties
<1> HIDE DEF new
<1> QED
  BY <1>2, <1>4, <1>5, <1>6 DEF Faithful, Words

LEMMA ArgumentFaithful ==
    ASSUME NEW f, NEW s, Faithful(f, s), NEW arg \in [word : STRING, value : STRING],
           NEW new, new = Argument(f, s, arg), ~new.refused
    PROVE  Faithful(f, new)
<1>0. arg.word \in Words /\ arg.value \in Words /\ "on" \in Words
  BY DEF Words
<1>1. /\ s = [refused |-> FALSE, pending |-> s.pending, env |-> s.env, said |-> s.said]
      /\ ~s.refused
      /\ [s EXCEPT !.refused = TRUE].refused
  BY DEF Faithful
<1>2. ASSUME NEW name \in Words \cap DOMAIN Options[f], NEW word \in Words,
             new = TakeValue(f, s, name, word)
      PROVE  Faithful(f, new)
  <2>1. Accepts(Options[f][name].kind, word) /\ new = TakeOption(f, s, name, word)
    BY <1>1, <1>2 DEF TakeValue
  <2>2. /\ Options[f][name].kind = "quota" => word \in Numerals
        /\ Options[f][name].kind = "window" => word \in Spans
    BY <2>1 DEF Accepts, Accepted
  <2> QED
    BY <2>1, <2>2, TakenFaithful
<1>3. CASE s.pending # None
  <2>1. new = TakeValue(f, s, s.pending, arg.word)
    BY <1>1, <1>3 DEF Argument
  <2>2. s.pending \in Words \cap DOMAIN Options[f]
    BY <1>3 DEF Faithful
  <2> QED
    BY <1>0, <1>2, <2>1, <2>2
<1>4. CASE s.pending = None
  <2> DEFINE option == Options[f][arg.word]
  <2>1. arg.word \in Words \cap DOMAIN Options[f]
    BY <1>0, <1>1, <1>4 DEF Argument
  <2>2. \/ option.kind \in {"flag", "word"} /\ new = TakeOption(f, s, arg.word, "on")
        \/ new = [s EXCEPT !.pending = arg.word]
        \/ new = TakeValue(f, s, arg.word, arg.value)
    BY <1>1, <1>4, <2>1 DEF Argument
  <2>3. CASE option.kind \in {"flag", "word"} /\ new = TakeOption(f, s, arg.word, "on")
    BY <1>0, <2>1, <2>3, TakenFaithful
  <2>4. CASE new = [s EXCEPT !.pending = arg.word]
    <3>1. PICK p, e, d : s = [refused |-> FALSE, pending |-> p, env |-> e, said |-> d]
      BY <1>1
    <3>2. new = [refused |-> FALSE, pending |-> arg.word, env |-> e, said |-> d]
      BY <2>4, <3>1
    <3>3. new.pending = arg.word /\ new.env = s.env /\ new.said = s.said
      BY <3>1, <3>2
    <3>4. new = [refused |-> FALSE, pending |-> new.pending, env |-> new.env,
                 said |-> new.said]
      BY <3>2
    <3> QED
      BY <1>0, <2>1, <3>3, <3>4 DEF Faithful
  <2>5. CASE new = TakeValue(f, s, arg.word, arg.value)
    BY <1>0, <1>2, <2>1, <2>5
  <2> QED
    BY <2>2, <2>3, <2>4, <2>5
<1> QED
  BY <1>3, <1>4

LEMMA LoopFaithful == Faithful(line.family, Loop)
<1>1. DOMAIN <<>> = {} /\ <<>> \in Seq(Words)
  BY EmptySeq
<1>2. SecurityEnv(<<>>, <<>>) /\ BandwidthEnv(<<>>, <<>>)
  BY <1>1 DEF SecurityEnv, BandwidthEnv, CommonEnv
<1> QED
  BY <1>1, <1>2 DEF Faithful, Loop, Words

LoopInv ==
    /\ moment \in Moments
    /\ at \in Nat
    /\ Faithful(line.family, loop)

LEMMA LoopInit ==
    Init => LoopInv
  BY LoopFaithful DEF Init, LoopInv

LEMMA ReadKeepsLoop ==
    ASSUME line \in UNION Lines, LoopInv, ReadArgument
    PROVE  LoopInv'
<1>1. /\ line' = line /\ moment' = moment /\ at' = at + 1 /\ loop' = Taken
      /\ ~Taken.refused /\ at < Len(line.arguments)
  BY DEF ReadArgument, More
<1>2. line.arguments[at + 1] \in [word : STRING, value : STRING]
  <2>1. line.arguments \in Seq([word : STRING, value : STRING])
    BY LineFacts
  <2>2. Len(line.arguments) \in Nat /\ DOMAIN line.arguments = 1 .. Len(line.arguments)
    BY <2>1, LenProperties
  <2>3. at + 1 \in DOMAIN line.arguments
    BY <1>1, <2>2 DEF LoopInv
  <2> QED
    BY <2>1, <2>3, Element
<1>3. Faithful(line.family, Taken)
  BY <1>1, <1>2, ArgumentFaithful DEF LoopInv, Taken
<1> QED
  BY <1>1, <1>3 DEF LoopInv

LEMMA AcceptKeepsLoop ==
    ASSUME LoopInv, AcceptArguments
    PROVE  LoopInv'
<1>1. /\ line' = line /\ moment' = moment /\ at' = at
      /\ loop' = [loop EXCEPT !.env = Finish(line.family, loop.env)]
  BY DEF AcceptArguments
<1>2. PICK p, e, d : loop = [refused |-> FALSE, pending |-> p, env |-> e, said |-> d]
  BY DEF LoopInv, Faithful
<1> DEFINE new == Finish(line.family, e)
<1>3. loop.pending = p /\ loop.env = e /\ loop.said = d
  BY <1>2
<1>4. loop' = [loop EXCEPT !.env = new]
  BY <1>1, <1>3
<1>5. line.family # "monitor" => new = e
  BY DEF Finish
<1> HIDE DEF new
<1>6. loop' = [refused |-> FALSE, pending |-> p, env |-> new, said |-> d]
  BY <1>2, <1>4
<1>7. /\ loop'.pending = p /\ loop'.env = new /\ loop'.said = d
      /\ loop' = [refused |-> FALSE, pending |-> loop'.pending, env |-> loop'.env,
                  said |-> loop'.said]
  BY <1>6
<1>8. Faithful(line.family, loop')
  BY <1>3, <1>5, <1>7 DEF LoopInv, Faithful
<1> QED
  BY <1>1, <1>8 DEF LoopInv

LEMMA LoopStep ==
    line \in UNION Lines /\ LoopInv /\ [Next]_vars => LoopInv'
<1> SUFFICES ASSUME line \in UNION Lines, LoopInv, [Next]_vars PROVE LoopInv'
  OBVIOUS
<1>1. CASE ReadArgument
  BY <1>1, ReadKeepsLoop
<1>2. CASE AcceptArguments
  BY <1>2, AcceptKeepsLoop
<1>3. CASE UNCHANGED <<line, loop, at>> /\ moment' \in Moments
  BY <1>3 DEF LoopInv
<1>4. CASE Dispatch
  BY <1>3, <1>4 DEF Dispatch, Clock, LoopInv
<1>5. ASSUME RefuseArgument \/ RefuseLoop \/ RefuseUse \/ CallSucceeds
             \/ CallFailsUnnoticed \/ CallFails \/ Finished \/ UNCHANGED vars
      PROVE  UNCHANGED <<line, loop, at>> /\ moment' = moment
  BY <1>5 DEF RefuseArgument, RefuseLoop, RefuseUse, CallSucceeds, CallFailsUnnoticed,
     CallFails, Finished, vars
<1> QED
  BY <1>1, <1>2, <1>3, <1>4, <1>5 DEF Next, LoopInv

\* What a line has set is what it said.
THEOREM LoopInvariant == Spec => []LoopInv
<1>1. RunInv => line \in UNION Lines
  BY DEF RunInv
<1> QED
  BY <1>1, LoopInit, LoopStep, RunInvariant, PTL DEF Spec

-----------------------------------------------------------------------------
(* What a change of the network was asked for with.                        *)

LEMMA ConsentSaid ==
    ASSUME LoopInv, Consent(line, env)
    PROVE  /\ Said("--apply")
           /\ Said("--confirm") \/ Said("--saved-rule")
           /\ \/ SaidAfter("--apply", "--dry-run")
              \/ line.family = "bandwidth" /\ line.sub = "plugin"
           /\ ~Said("--mock") =>
                 /\ line.family = "bandwidth"
                 /\ \/ line.sub = "plugin"
                    \/ line.sub = "limit" /\ LimitBackend(Val(env, "--backend", "mock"))
                                               \in {"mock", "router-plugin"}
<1>1. \A k : On(env, k) => k \in DOMAIN env
  BY DEF On, Val
<1>2. /\ line.family = "security" => SecurityEnv(env, loop.said)
      /\ line.family = "bandwidth" => BandwidthEnv(env, loop.said)
  BY DEF LoopInv, Faithful, env
<1>3. line.family \in {"security", "bandwidth"} => CommonEnv(env, loop.said)
  BY <1>2 DEF SecurityEnv, BandwidthEnv
<1>4. After(loop.said, "--apply", "--dry-run")
         => SaidAfter("--apply", "--dry-run") /\ Said("--apply")
  BY DEF After, SaidAfter, Said, ToSet
<1>5. line.family \in {"security", "bandwidth"} /\ ~DryRun(env)
         => SaidAfter("--apply", "--dry-run") /\ Said("--apply")
  BY <1>3, <1>4 DEF DryRun, Val, CommonEnv
<1>6. line.family \in {"security", "bandwidth"} =>
         \A k \in ConsentFlags : On(env, k) => Said(k)
  BY <1>1, <1>3 DEF CommonEnv, Said
<1>7. CASE line.family = "security"
  BY <1>5, <1>6, <1>7 DEF Consent, ConsentFlags
<1>8. CASE line.family = "bandwidth" /\ line.sub = "plugin"
  <2>1. On(env, "confirm") /\ "plugin_dry_run" \in DOMAIN env
    BY <1>8 DEF Consent, Val
  <2> QED
    BY <1>1, <1>2, <1>8, <2>1 DEF BandwidthEnv, Said
<1>9. CASE line.family = "bandwidth" /\ line.sub = "limit"
  <2>1. ~DryRun(env) /\ (On(env, "confirm") \/ On(env, "--saved-rule"))
        /\ (On(env, "--mock")
              \/ LimitBackend(Val(env, "--backend", "mock")) \in {"mock", "router-plugin"})
    BY <1>9 DEF Consent
  <2>2. On(env, "confirm") => Said("--confirm")
    BY <1>1, <1>2, <1>9 DEF BandwidthEnv, Said
  <2> QED
    BY <1>5, <1>6, <1>9, <2>1, <2>2 DEF ConsentFlags
<1> QED
  BY <1>7, <1>8, <1>9 DEF Consent

LEMMA KeptGrounds ==
    ASSUME RunInv, NEW t \in ToSet(kept)
    PROVE  Grounds(line, env, moment, t)
<1> DEFINE T == {w \in Traces \ {None} : Grounds(line, env, moment, w)}
<1>1. kept \in Seq(T)
  BY DEF RunInv, Grounded
<1>2. \A i \in DOMAIN kept : kept[i] \in T
  BY <1>1, LenProperties
<1> QED
  BY <1>2 DEF ToSet

\* Nothing is applied unless the line asks for it, in the right order, and
\* confirms it or names a saved rule; whatever else it says.
THEOREM AppliedOnlyWhenAsked == Spec => []AppliedOnlyIfAsked
<1>1. RunInv /\ LoopInv => AppliedOnlyIfAsked
  <2> SUFFICES ASSUME RunInv, LoopInv PROVE AppliedOnlyIfAsked
    OBVIOUS
  <2>1. Changed => Consent(line, env)
    BY KeptGrounds DEF Changed, Grounds
  <2>2. Imported => Said("--apply")
    <3> SUFFICES ASSUME Imported PROVE Said("--apply")
      OBVIOUS
    <3>1. line.family = "security" /\ On(env, "import")
      BY KeptGrounds DEF Imported, Grounds
    <3>2. "import" \in DOMAIN env /\ SecurityEnv(env, loop.said)
      BY <3>1 DEF On, Val, LoopInv, Faithful, env
    <3> QED
      BY <3>2 DEF SecurityEnv, Said
  <2> QED
    BY <2>1, <2>2, ConsentSaid DEF AppliedOnlyIfAsked
<1> QED
  BY <1>1, RunInvariant, LoopInvariant, PTL

\* Without --mock nothing changes a network but the two fixtures that stand
\* for one.
THEOREM LiveRunsChangeNothing == Spec => []LiveChangesNothing
<1>1. RunInv /\ LoopInv => LiveChangesNothing
  <2> SUFFICES ASSUME RunInv, LoopInv, Changed, ~Said("--mock")
               PROVE  LiveChangesNothing
    BY DEF LiveChangesNothing
  <2>1. Consent(line, env)
    BY KeptGrounds DEF Changed, Grounds
  <2> QED
    BY <2>1, ConsentSaid DEF LiveChangesNothing
<1> QED
  BY <1>1, RunInvariant, LoopInvariant, PTL

-----------------------------------------------------------------------------
(* Downtime.                                                               *)

\* A moment is in a window when walking its hours from the start meets it,
\* over midnight or not (diagnostic_tools_stub.cpp:5497).
THEOREM WindowsAreWalked ==
    ASSUME NEW w, w.start \in 0 .. 23, w.end \in 0 .. 23, NEW t \in 0 .. 23
    PROVE  t \in Walk(w) <=> TimeInside(w.start, w.end, t)
<1> DEFINE s == w.start
           e == w.end
           hours == (e + 24 - s) % 24
<1>1. s \in 0 .. 23 /\ e \in 0 .. 23
  OBVIOUS
<1>2. t \in Walk(w) <=> \E k \in 0 .. hours - 1 : t = (s + k) % 24
  BY DEF Walk
<1> HIDE DEF s, e
<1>3. hours = IF s <= e THEN e - s ELSE e + 24 - s
  BY <1>1, SMTT(30)
<1>4. \A k \in 0 .. 23 : (s + k) % 24 = IF s + k < 24 THEN s + k ELSE s + k - 24
  BY <1>1, SMTT(30)
<1> HIDE DEF hours
<1>5. ASSUME NEW k \in 0 .. hours - 1, t = (s + k) % 24
      PROVE  TimeInside(s, e, t)
  BY <1>1, <1>3, <1>4, <1>5, SMTT(30) DEF TimeInside, NoTime
<1>6. ASSUME TimeInside(s, e, t)
      PROVE  \E k \in 0 .. hours - 1 : t = (s + k) % 24
  <2> DEFINE k == IF s <= t THEN t - s ELSE t + 24 - s
  <2>1. k \in 0 .. hours - 1 /\ k \in 0 .. 23
    BY <1>1, <1>3, <1>6, SMTT(30) DEF TimeInside
  <2>2. t = (s + k) % 24
    BY <1>1, <1>4, <2>1, SMTT(30)
  <2> QED
    BY <2>1, <2>2
<1> QED
  BY <1>2, <1>5, <1>6 DEF s, e

LEMMA WindowsOfLine ==
    ASSUME NEW e, NEW said, SecurityEnv(e, said), NEW w \in DowntimeWindows(e)
    PROVE  \E hours \in Spans : \E days \in Words : w = Window(hours, days)
<1>1. CASE Given(e, "--window")
  <2>1. e["--window"] \in Seq([hours : Spans, days : Words])
    BY <1>1 DEF SecurityEnv, Given
  <2>2. PICK v \in ToSet(e["--window"]) : w = Window(v.hours, v.days)
    BY <1>1 DEF DowntimeWindows
  <2>3. v \in [hours : Spans, days : Words]
    <3>1. PICK i \in DOMAIN e["--window"] : v = e["--window"][i]
      BY <2>2 DEF ToSet
    <3> QED
      BY <2>1, <3>1, Element
  <2> QED
    BY <2>2, <2>3
<1>2. CASE ~Given(e, "--window")
  <2>1. w = Window("22:00-06:00", Val(e, "--days", AnyDay))
    BY <1>2 DEF DowntimeWindows
  <2>2. Val(e, "--days", AnyDay) \in Words /\ "22:00-06:00" \in Spans
    BY DEF SecurityEnv, Val, Words, Spans, Windows
  <2> QED
    BY <2>1, <2>2
<1> QED
  BY <1>1, <1>2

LEMMA ActiveWhenWalked ==
    ASSUME NEW hours \in Spans, NEW days, NEW now, now.time \in 0 .. 23 \cup {NoTime}
    PROVE  LET w == Window(hours, days) IN
           WindowActive(w, now) <=> /\ now.time \in Walk(w)
                                    /\ AnyDay \in w.days \/ now.day \in w.days \cup {NoDay}
<1> DEFINE w == Window(hours, days)
<1>1. /\ w.days = {days}
      /\ \/ w.start \in 0 .. 23 /\ w.end \in 0 .. 23
         \/ w.start = NoTime /\ w.end = NoTime
  BY DEF Window, HoursOf, Spans, Windows, Timeless
<1> HIDE DEF w
<1>2. now.time \in Walk(w) <=> TimeInside(w.start, w.end, now.time)
  <2>1. CASE w.start = NoTime /\ w.end = NoTime
    <3>1. Walk(w) = {}
      BY <2>1, SMTT(30) DEF Walk, NoTime
    <3> QED
      BY <2>1, <3>1 DEF TimeInside
  <2>2. CASE w.start \in 0 .. 23 /\ w.end \in 0 .. 23 /\ now.time = NoTime
    <3>1. \A k \in Int : (w.start + k) % 24 # 24
      BY <2>2, SMTT(30)
    <3>2. now.time \notin Walk(w)
      BY <2>2, <3>1 DEF Walk, NoTime
    <3> QED
      BY <2>2, <3>2 DEF TimeInside
  <2> QED
    BY <1>1, <2>1, <2>2, WindowsAreWalked
<1>3. DaysMatch(w.days, now.day) <=> AnyDay \in w.days \/ now.day \in w.days \cup {NoDay}
  BY <1>1 DEF DaysMatch
<1> QED
  BY <1>2, <1>3 DEF WindowActive, w

\* A device is blocked only inside a window of the line, and a block ends
\* only outside all of them or in an emergency.
THEOREM BlockedOnlyInWindow == Spec => []BlocksOnlyInWindow
<1> DEFINE inside == \E w \in DowntimeWindows(env) :
                        /\ moment.time \in Walk(w)
                        /\ AnyDay \in w.days \/ moment.day \in w.days \cup {NoDay}
<1>1. RunInv /\ LoopInv => BlocksOnlyInWindow
  <2> SUFFICES ASSUME RunInv, LoopInv PROVE BlocksOnlyInWindow
    OBVIOUS
  <2>1. ASSUME line.family = "security"
        PROVE  Blocking(env, moment) <=> inside /\ ~On(env, "--emergency-disable")
    <3>1. SecurityEnv(env, loop.said) /\ moment.time \in 0 .. 23 \cup {NoTime}
      BY <2>1, MomentsAssumption DEF LoopInv, Faithful, env
    <3>2. ASSUME NEW w \in DowntimeWindows(env)
          PROVE  WindowActive(w, moment)
                    <=> /\ moment.time \in Walk(w)
                        /\ AnyDay \in w.days \/ moment.day \in w.days \cup {NoDay}
      <4>1. PICK hours \in Spans : \E days \in Words : w = Window(hours, days)
        BY <3>1, WindowsOfLine
      <4>2. PICK days \in Words : w = Window(hours, days)
        BY <4>1
      <4> QED
        BY <3>1, <4>2, ActiveWhenWalked
    <3> QED
      BY <3>2 DEF Blocking, DowntimeActive
  <2>2. "block" \in ToSet(kept) => line.family = "security" /\ Blocking(env, moment)
    BY KeptGrounds DEF Grounds
  <2>3. "unblock" \in ToSet(kept) => line.family = "security" /\ ~Blocking(env, moment)
    BY KeptGrounds DEF Grounds
  <2> QED
    BY <2>1, <2>2, <2>3 DEF BlocksOnlyInWindow
<1> QED
  BY <1>1, RunInvariant, LoopInvariant, PTL

-----------------------------------------------------------------------------
(* Quotas.                                                                 *)

LEMMA RulesOfLine ==
    ASSUME NEW e, NEW said, SecurityEnv(e, said), NEW rule \in QuotaRules(e)
    PROVE  rule.quota \in 0 .. 96 \cup {320} /\ rule.warning \in Nat
<1>1. CASE rule \in DefaultRules
  BY <1>1 DEF DefaultRules, Gigabyte
<1>2. CASE rule \notin DefaultRules
  <2>1. /\ rule.quota = NumberOf[Val(e, "--quota-mb", "0")]
        /\ rule.warning = NumberOf[Val(e, "--warning-mb", "0")]
    BY <1>2 DEF QuotaRules
  <2>2. /\ Val(e, "--quota-mb", "0") \in Numerals
        /\ Val(e, "--warning-mb", "0") \in Numerals
    BY DEF SecurityEnv, Val, Numerals
  <2>3. \A word \in Numerals : NumberOf[word] \in 0 .. 22
    BY DEF NumberOf, Numerals, Windows
  <2> QED
    BY <2>1, <2>2, <2>3
<1> QED
  BY <1>1, <1>2

LEMMA RuleAmounts ==
    ASSUME NEW rule, rule.quota \in 0 .. 96 \cup {320}, rule.warning \in Nat
    PROVE  /\ EffectiveQuota(rule) \in 1 .. 320
           /\ EffectiveWarning(rule) \in 0 .. 320
<1>1. DefaultQuota(rule.profile) \in 1 .. 320
  BY DEF DefaultQuota, Gigabyte
<1>2. EffectiveQuota(rule) \in 1 .. 320
  BY <1>1 DEF EffectiveQuota
<1>3. DefaultWarning(EffectiveQuota(rule)) \in 0 .. 320
  BY <1>2, SMTT(30) DEF DefaultWarning
<1> QED
  BY <1>2, <1>3 DEF EffectiveWarning

\* While a quota is watched, more use never makes its state milder, and the
\* warning comes first wherever the line puts it but at the quota itself.
THEOREM QuotaAlwaysWarnsFirst == Spec => []QuotaWarnsFirst
<1>1. LoopInv => QuotaWarnsFirst
  <2> SUFFICES ASSUME LoopInv, line.family = "security", NEW rule \in QuotaRules(env)
               PROVE  /\ \A u \in Amounts \ {0} :
                            Rank[UsageState(rule, u - 1, TRUE)]
                                <= Rank[UsageState(rule, u, TRUE)]
                      /\ \/ rule.warning = EffectiveQuota(rule)
                         \/ \E u \in Amounts : UsageState(rule, u, TRUE) = "warning"
    BY DEF QuotaWarnsFirst
  <2>1. rule.quota \in 0 .. 96 \cup {320} /\ rule.warning \in Nat
    BY RulesOfLine DEF LoopInv, Faithful, env
  <2>2. EffectiveQuota(rule) \in 1 .. 320 /\ EffectiveWarning(rule) \in 0 .. 320
    BY <2>1, RuleAmounts
  <2>3. Amounts = 0 .. 320
    BY DEF Amounts, Gigabyte
  <2>4. ASSUME NEW u \in Amounts \ {0}
        PROVE  Rank[UsageState(rule, u - 1, TRUE)] <= Rank[UsageState(rule, u, TRUE)]
    <3> DEFINE v == u - 1
               less == UsageState(rule, v, TRUE)
               more == UsageState(rule, u, TRUE)
    <3>1. u \in Nat /\ v \in Nat /\ v <= u
      BY <2>3, <2>4
    <3> HIDE DEF v
    <3>2. EffectiveQuota(rule) \in Nat /\ EffectiveWarning(rule) \in Nat
      BY <2>2
    <3>3. /\ less = "quota-exceeded" => more = "quota-exceeded"
          /\ less = "warning" => more \in {"warning", "quota-exceeded"}
      BY <3>1, <3>2, QuotaStatesInOrder
    <3>4. {less, more} \subseteq {"ok", "warning", "quota-exceeded"}
      BY DEF UsageState
    <3>5. Rank["ok"] = 0 /\ Rank["warning"] = 1 /\ Rank["quota-exceeded"] = 2
      BY DEF Rank
    <3> HIDE DEF less, more
    <3>6. Rank[less] <= Rank[more]
      BY <3>3, <3>4, <3>5
    <3> QED
      BY <3>6 DEF less, more, v
  <2>5. ASSUME rule.warning # EffectiveQuota(rule)
        PROVE  \E u \in Amounts : UsageState(rule, u, TRUE) = "warning"
    <3>1. rule.quota \in Nat
      BY <2>1
    <3>2. UsageState(rule, EffectiveWarning(rule), TRUE) = "warning"
      BY <2>1, <2>5, <3>1, WarningBelowQuota
    <3> QED
      BY <2>2, <2>3, <3>2
  <2> QED
    BY <2>4, <2>5
<1> QED
  BY <1>1, LoopInvariant, PTL

-----------------------------------------------------------------------------
(* Options in either order: the variables they set.                        *)

\* Names of variables that switches and profiles set, and the empty word:
\* none is an option.
Hidden ==
    {None, "dry_run", "plugin_dry_run", "capture_dry_run", "confirm", "npcap", "admin",
     "enforce", "unknown_iot", "import_inventory", "rental", "toast", "mock", "probes",
     "schedule"}

Open(table) == Hidden \cap DOMAIN table = {}

LEMMA OpenJoin ==
    ASSUME NEW a, NEW b, Open(a), Open(b)
    PROVE  Open(a ++ b)
<1>1. DOMAIN (a ++ b) = DOMAIN a \cup DOMAIN b BY DEF ++
<1> QED BY <1>1 DEF Open

LEMMA OpenTables ==
    /\ Open(ScopeOptions)
    /\ Open(ScanTargets)
    /\ Open(ScanLimits)
    /\ Open(ScanProfile)
    /\ Open(MonitorTargets)
    /\ Open(MonitorLimits)
    /\ Open(MonitorSchedule)
    /\ Open(TrayFlags)
    /\ Open(TrayHardening)
    /\ Open(TrayStart)
    /\ Open(AlertChannels)
    /\ Open(AlertText)
    /\ Open(SpeedOptions)
    /\ Open(OutageOptions)
    /\ Open(PingOptions)
    /\ Open(TracerouteOptions)
    /\ Open(DnsOptions)
    /\ Open(BenchmarkOptions)
    /\ Open(DhcpOptions)
    /\ Open(WifiOptions)
    /\ Open(PortsOptions)
    /\ Open(SecuritySubcommands)
    /\ Open(SecurityApply)
    /\ Open(SecurityTargets)
    /\ Open(SecuritySchedule)
    /\ Open(SecurityQuota)
    /\ Open(SecurityDetectors)
    /\ Open(SecurityLearning)
    /\ Open(SecurityPaths)
    /\ Open(InventoryEdit)
    /\ Open(WorkspaceKey)
    /\ Open(WorkspaceSettings)
    /\ Open(WorkspaceSite)
    /\ Open(WorkspaceScan)
    /\ Open(SearchWords)
    /\ Open(SearchQuery)
    /\ Open(AgentOptions)
    /\ Open(ApiConfig)
    /\ Open(ApiRequest)
    /\ Open(SimulationOptions)
    /\ Open(PrivacyOptions)
    /\ Open(ReportOptions)
    /\ Open(GuiAction)
    /\ Open(GuiDisplay)
    /\ Open(AuditOptions)
    /\ Open(ReleaseOptions)
    /\ Open(InstallerOptions)
    /\ Open(HardeningOptions)
    /\ Open(BandwidthSources)
    /\ Open(BandwidthRequest)
    /\ Open(BandwidthRules)
    /\ Open(BandwidthNumbers)
    /\ Open(BandwidthAnomaly)
    /\ Open(TimelineOptions)
    /\ Open(PresenceNotify)
    /\ Open(PresenceHistory)
<1>1. Open(ScopeOptions)
  BY DEF Open, Hidden, None, ScopeOptions, ++, Flag, Word, Take, TakeNext, Table
<1>2. Open(ScanTargets)
  BY DEF Open, Hidden, None, ScanTargets, ++, Flag, Word, Take, TakeNext, Table
<1>3. Open(ScanLimits)
  BY DEF Open, Hidden, None, ScanLimits, ++, Flag, Word, Take, TakeNext, Table
<1>4. Open(ScanProfile)
  BY DEF Open, Hidden, None, ScanProfile, ++, Flag, Word, Take, TakeNext, Table
<1>5. Open(MonitorTargets)
  BY DEF Open, Hidden, None, MonitorTargets, ++, Flag, Word, Take, TakeNext, Table
<1>6. Open(MonitorLimits)
  BY DEF Open, Hidden, None, MonitorLimits, ++, Flag, Word, Take, TakeNext, Table
<1>7. Open(MonitorSchedule)
  BY DEF Open, Hidden, None, MonitorSchedule, ++, Flag, Word, Take, TakeNext, Table
<1>8. Open(TrayFlags)
  BY DEF Open, Hidden, None, TrayFlags, ++, Flag, Word, Take, TakeNext, Table
<1>9. Open(TrayHardening)
  BY DEF Open, Hidden, None, TrayHardening, ++, Flag, Word, Take, TakeNext, Table
<1>10. Open(TrayStart)
  BY DEF Open, Hidden, None, TrayStart, ++, Flag, Word, Take, TakeNext, Table
<1>11. Open(AlertChannels)
  BY DEF Open, Hidden, None, AlertChannels, ++, Flag, Word, Take, TakeNext, Table
<1>12. Open(AlertText)
  BY DEF Open, Hidden, None, AlertText, ++, Flag, Word, Take, TakeNext, Table
<1>13. Open(SpeedOptions)
  BY DEF Open, Hidden, None, SpeedOptions, ++, Flag, Word, Take, TakeNext, Table
<1>14. Open(OutageOptions)
  BY DEF Open, Hidden, None, OutageOptions, ++, Flag, Word, Take, TakeNext, Table
<1>15. Open(PingOptions)
  BY DEF Open, Hidden, None, PingOptions, ++, Flag, Word, Take, TakeNext, Table
<1>16. Open(TracerouteOptions)
  BY DEF Open, Hidden, None, TracerouteOptions, ++, Flag, Word, Take, TakeNext, Table
<1>17. Open(DnsOptions)
  BY DEF Open, Hidden, None, DnsOptions, ++, Flag, Word, Take, TakeNext, Table
<1>18. Open(BenchmarkOptions)
  BY DEF Open, Hidden, None, BenchmarkOptions, ++, Flag, Word, Take, TakeNext, Table
<1>19. Open(DhcpOptions)
  BY DEF Open, Hidden, None, DhcpOptions, ++, Flag, Word, Take, TakeNext, Table
<1>20. Open(WifiOptions)
  BY DEF Open, Hidden, None, WifiOptions, ++, Flag, Word, Take, TakeNext, Table
<1>21. Open(PortsOptions)
  BY DEF Open, Hidden, None, PortsOptions, ++, Flag, Word, Take, TakeNext, Table
<1>22. Open(SecuritySubcommands)
  BY DEF Open, Hidden, None, SecuritySubcommands, ++, Flag, Word, Take, TakeNext, Table
<1>23. Open(SecurityApply)
  BY DEF Open, Hidden, None, SecurityApply, ++, Flag, Word, Take, TakeNext, Table
<1>24. Open(SecurityTargets)
  BY DEF Open, Hidden, None, SecurityTargets, ++, Flag, Word, Take, TakeNext, Table
<1>25. Open(SecuritySchedule)
  BY DEF Open, Hidden, None, SecuritySchedule, ++, Flag, Word, Take, TakeNext, Table
<1>26. Open(SecurityQuota)
  BY DEF Open, Hidden, None, SecurityQuota, ++, Flag, Word, Take, TakeNext, Table
<1>27. Open(SecurityDetectors)
  BY DEF Open, Hidden, None, SecurityDetectors, ++, Flag, Word, Take, TakeNext, Table
<1>28. Open(SecurityLearning)
  BY DEF Open, Hidden, None, SecurityLearning, ++, Flag, Word, Take, TakeNext, Table
<1>29. Open(SecurityPaths)
  BY DEF Open, Hidden, None, SecurityPaths, ++, Flag, Word, Take, TakeNext, Table
<1>30. Open(InventoryEdit)
  BY DEF Open, Hidden, None, InventoryEdit, ++, Flag, Word, Take, TakeNext, Table
<1>31. Open(WorkspaceKey)
  BY DEF Open, Hidden, None, WorkspaceKey, ++, Flag, Word, Take, TakeNext, Table
<1>32. Open(WorkspaceSettings)
  BY DEF Open, Hidden, None, WorkspaceSettings, ++, Flag, Word, Take, TakeNext, Table
<1>33. Open(WorkspaceSite)
  BY DEF Open, Hidden, None, WorkspaceSite, ++, Flag, Word, Take, TakeNext, Table
<1>34. Open(WorkspaceScan)
  BY DEF Open, Hidden, None, WorkspaceScan, ++, Flag, Word, Take, TakeNext, Table
<1>35. Open(SearchWords)
  BY DEF Open, Hidden, None, SearchWords, ++, Flag, Word, Take, TakeNext, Table
<1>36. Open(SearchQuery)
  BY DEF Open, Hidden, None, SearchQuery, ++, Flag, Word, Take, TakeNext, Table
<1>37. Open(AgentOptions)
  BY DEF Open, Hidden, None, AgentOptions, ++, Flag, Word, Take, TakeNext, Table
<1>38. Open(ApiConfig)
  BY DEF Open, Hidden, None, ApiConfig, ++, Flag, Word, Take, TakeNext, Table
<1>39. Open(ApiRequest)
  BY DEF Open, Hidden, None, ApiRequest, ++, Flag, Word, Take, TakeNext, Table
<1>40. Open(SimulationOptions)
  BY DEF Open, Hidden, None, SimulationOptions, ++, Flag, Word, Take, TakeNext, Table
<1>41. Open(PrivacyOptions)
  BY DEF Open, Hidden, None, PrivacyOptions, ++, Flag, Word, Take, TakeNext, Table
<1>42. Open(ReportOptions)
  BY DEF Open, Hidden, None, ReportOptions, ++, Flag, Word, Take, TakeNext, Table
<1>43. Open(GuiAction)
  BY DEF Open, Hidden, None, GuiAction, ++, Flag, Word, Take, TakeNext, Table
<1>44. Open(GuiDisplay)
  BY DEF Open, Hidden, None, GuiDisplay, ++, Flag, Word, Take, TakeNext, Table
<1>45. Open(AuditOptions)
  BY DEF Open, Hidden, None, AuditOptions, ++, Flag, Word, Take, TakeNext, Table
<1>46. Open(ReleaseOptions)
  BY DEF Open, Hidden, None, ReleaseOptions, ++, Flag, Word, Take, TakeNext, Table
<1>47. Open(InstallerOptions)
  BY DEF Open, Hidden, None, InstallerOptions, ++, Flag, Word, Take, TakeNext, Table
<1>48. Open(HardeningOptions)
  BY DEF Open, Hidden, None, HardeningOptions, ++, Flag, Word, Take, TakeNext, Table
<1>49. Open(BandwidthSources)
  BY DEF Open, Hidden, None, BandwidthSources, ++, Flag, Word, Take, TakeNext, Table
<1>50. Open(BandwidthRequest)
  BY DEF Open, Hidden, None, BandwidthRequest, ++, Flag, Word, Take, TakeNext, Table
<1>51. Open(BandwidthRules)
  BY DEF Open, Hidden, None, BandwidthRules, ++, Flag, Word, Take, TakeNext, Table
<1>52. Open(BandwidthNumbers)
  BY DEF Open, Hidden, None, BandwidthNumbers, ++, Flag, Word, Take, TakeNext, Table
<1>53. Open(BandwidthAnomaly)
  BY DEF Open, Hidden, None, BandwidthAnomaly, ++, Flag, Word, Take, TakeNext, Table
<1>54. Open(TimelineOptions)
  BY DEF Open, Hidden, None, TimelineOptions, ++, Flag, Word, Take, TakeNext, Table
<1>55. Open(PresenceNotify)
  BY DEF Open, Hidden, None, PresenceNotify, ++, Flag, Word, Take, TakeNext, Table
<1>56. Open(PresenceHistory)
  BY DEF Open, Hidden, None, PresenceHistory, ++, Flag, Word, Take, TakeNext, Table
<1> QED
  BY <1>1, <1>2, <1>3, <1>4, <1>5, <1>6, <1>7, <1>8, <1>9, <1>10, <1>11, <1>12, <1>13,
     <1>14, <1>15, <1>16, <1>17, <1>18, <1>19, <1>20, <1>21, <1>22, <1>23, <1>24, <1>25,
     <1>26, <1>27, <1>28, <1>29, <1>30, <1>31, <1>32, <1>33, <1>34, <1>35, <1>36, <1>37,
     <1>38, <1>39, <1>40, <1>41, <1>42, <1>43, <1>44, <1>45, <1>46, <1>47, <1>48, <1>49,
     <1>50, <1>51, <1>52, <1>53, <1>54, <1>55, <1>56

LEMMA HiddenNames ==
    ASSUME NEW f \in DOMAIN Options
    PROVE  Open(Options[f])
<1>1. DOMAIN Options =
        {"interfaces", "scope", "scan", "monitor", "tray", "hardenTray", "startTray",
         "alerts", "speed", "outage", "ping", "traceroute", "dns", "benchmark", "dhcp",
         "wifi", "ports", "security", "listInventory", "editInventory", "markInventory",
         "workspace", "search", "agent", "api", "simulation", "privacy", "report", "gui",
         "audit", "release", "installer", "hardening", "bandwidth", "timeline",
         "presence"}
  BY DEF Options
<1>2. CASE f = "interfaces"
  <2>1. Options[f] = Flag({"--mock"})
    BY <1>2 DEF Options
  <2> QED
    BY <2>1 DEF Open, Hidden, None, Flag, Table
<1>3. CASE f = "scope"
  <2>1. Options[f] = ScopeOptions
    BY <1>3 DEF Options
  <2> QED
    BY <2>1, OpenTables
<1>4. CASE f = "scan"
  <2>1. Options[f] = ScanTargets ++ ScanLimits ++ ScanProfile
    BY <1>4 DEF Options
  <2> QED
    BY <2>1, OpenTables, OpenJoin
<1>5. CASE f = "monitor"
  <2>1. Options[f] = MonitorTargets ++ MonitorLimits ++ MonitorSchedule
    BY <1>5 DEF Options
  <2> QED
    BY <2>1, OpenTables, OpenJoin
<1>6. CASE f = "tray"
  <2>1. Options[f] = TrayFlags
    BY <1>6 DEF Options
  <2> QED
    BY <2>1, OpenTables
<1>7. CASE f = "hardenTray"
  <2>1. Options[f] = TrayHardening
    BY <1>7 DEF Options
  <2> QED
    BY <2>1, OpenTables
<1>8. CASE f = "startTray"
  <2>1. Options[f] = TrayStart
    BY <1>8 DEF Options
  <2> QED
    BY <2>1, OpenTables
<1>9. CASE f = "alerts"
  <2>1. Options[f] = AlertChannels ++ AlertText
    BY <1>9 DEF Options
  <2> QED
    BY <2>1, OpenTables, OpenJoin
<1>10. CASE f = "speed"
  <2>1. Options[f] = SpeedOptions
    BY <1>10 DEF Options
  <2> QED
    BY <2>1, OpenTables
<1>11. CASE f = "outage"
  <2>1. Options[f] = OutageOptions
    BY <1>11 DEF Options
  <2> QED
    BY <2>1, OpenTables
<1>12. CASE f = "ping"
  <2>1. Options[f] = PingOptions
    BY <1>12 DEF Options
  <2> QED
    BY <2>1, OpenTables
<1>13. CASE f = "traceroute"
  <2>1. Options[f] = TracerouteOptions
    BY <1>13 DEF Options
  <2> QED
    BY <2>1, OpenTables
<1>14. CASE f = "dns"
  <2>1. Options[f] = DnsOptions
    BY <1>14 DEF Options
  <2> QED
    BY <2>1, OpenTables
<1>15. CASE f = "benchmark"
  <2>1. Options[f] = BenchmarkOptions
    BY <1>15 DEF Options
  <2> QED
    BY <2>1, OpenTables
<1>16. CASE f = "dhcp"
  <2>1. Options[f] = DhcpOptions
    BY <1>16 DEF Options
  <2> QED
    BY <2>1, OpenTables
<1>17. CASE f = "wifi"
  <2>1. Options[f] = WifiOptions
    BY <1>17 DEF Options
  <2> QED
    BY <2>1, OpenTables
<1>18. CASE f = "ports"
  <2>1. Options[f] = PortsOptions
    BY <1>18 DEF Options
  <2> QED
    BY <2>1, OpenTables
<1>19. CASE f = "security"
  <2>1. Options[f]
          = SecuritySubcommands ++ SecurityApply ++ SecurityTargets ++ SecuritySchedule
            ++ SecurityQuota ++ SecurityDetectors ++ SecurityLearning ++ SecurityPaths
    BY <1>19 DEF Options
  <2> QED
    BY <2>1, OpenTables, OpenJoin
<1>20. CASE f = "listInventory"
  <2>1. Options[f] = Flag({"--all"})
    BY <1>20 DEF Options
  <2> QED
    BY <2>1 DEF Open, Hidden, None, Flag, Table
<1>21. CASE f = "editInventory"
  <2>1. Options[f] = InventoryEdit
    BY <1>21 DEF Options
  <2> QED
    BY <2>1, OpenTables
<1>22. CASE f = "markInventory"
  <2>1. Options[f] = Flag({"--off"})
    BY <1>22 DEF Options
  <2> QED
    BY <2>1 DEF Open, Hidden, None, Flag, Table
<1>23. CASE f = "workspace"
  <2>1. Options[f] = WorkspaceKey ++ WorkspaceSettings ++ WorkspaceSite ++ WorkspaceScan
    BY <1>23 DEF Options
  <2> QED
    BY <2>1, OpenTables, OpenJoin
<1>24. CASE f = "search"
  <2>1. Options[f] = SearchWords ++ SearchQuery
    BY <1>24 DEF Options
  <2> QED
    BY <2>1, OpenTables, OpenJoin
<1>25. CASE f = "agent"
  <2>1. Options[f] = AgentOptions
    BY <1>25 DEF Options
  <2> QED
    BY <2>1, OpenTables
<1>26. CASE f = "api"
  <2>1. Options[f] = ApiConfig ++ ApiRequest
    BY <1>26 DEF Options
  <2> QED
    BY <2>1, OpenTables, OpenJoin
<1>27. CASE f = "simulation"
  <2>1. Options[f] = SimulationOptions
    BY <1>27 DEF Options
  <2> QED
    BY <2>1, OpenTables
<1>28. CASE f = "privacy"
  <2>1. Options[f] = PrivacyOptions
    BY <1>28 DEF Options
  <2> QED
    BY <2>1, OpenTables
<1>29. CASE f = "report"
  <2>1. Options[f] = ReportOptions
    BY <1>29 DEF Options
  <2> QED
    BY <2>1, OpenTables
<1>30. CASE f = "gui"
  <2>1. Options[f] = GuiAction ++ GuiDisplay
    BY <1>30 DEF Options
  <2> QED
    BY <2>1, OpenTables, OpenJoin
<1>31. CASE f = "audit"
  <2>1. Options[f] = AuditOptions
    BY <1>31 DEF Options
  <2> QED
    BY <2>1, OpenTables
<1>32. CASE f = "release"
  <2>1. Options[f] = ReleaseOptions
    BY <1>32 DEF Options
  <2> QED
    BY <2>1, OpenTables
<1>33. CASE f = "installer"
  <2>1. Options[f] = InstallerOptions
    BY <1>33 DEF Options
  <2> QED
    BY <2>1, OpenTables
<1>34. CASE f = "hardening"
  <2>1. Options[f] = HardeningOptions
    BY <1>34 DEF Options
  <2> QED
    BY <2>1, OpenTables
<1>35. CASE f = "bandwidth"
  <2>1. Options[f]
          = BandwidthSources ++ BandwidthRequest ++ BandwidthRules ++ BandwidthNumbers
            ++ BandwidthAnomaly
    BY <1>35 DEF Options
  <2> QED
    BY <2>1, OpenTables, OpenJoin
<1>36. CASE f = "timeline"
  <2>1. Options[f] = TimelineOptions
    BY <1>36 DEF Options
  <2> QED
    BY <2>1, OpenTables
<1>37. CASE f = "presence"
  <2>1. Options[f] = PresenceNotify ++ PresenceHistory
    BY <1>37 DEF Options
  <2> QED
    BY <2>1, OpenTables, OpenJoin
<1> QED
  BY <1>1, <1>2, <1>3, <1>4, <1>5, <1>6, <1>7, <1>8, <1>9, <1>10, <1>11, <1>12, <1>13,
     <1>14, <1>15, <1>16, <1>17, <1>18, <1>19, <1>20, <1>21, <1>22, <1>23, <1>24, <1>25,
     <1>26, <1>27, <1>28, <1>29, <1>30, <1>31, <1>32, <1>33, <1>34, <1>35, <1>36, <1>37

-----------------------------------------------------------------------------
(* Options in either order: what each sets.                                *)

\* Two settings disagree on a variable.
Conflict(a, b) == \E k \in DOMAIN a \cap DOMAIN b : a[k] # b[k]

\* Settings can be exchanged exactly when they do not disagree.
LEMMA Exchange ==
    ASSUME NEW a, NEW b, NEW e
    PROVE  (a ++ (b ++ e) = b ++ (a ++ e)) <=> ~Conflict(a, b)
<1> DEFINE ab == a ++ (b ++ e)
           ba == b ++ (a ++ e)
<1>1. /\ DOMAIN ab = DOMAIN a \cup DOMAIN b \cup DOMAIN e
      /\ DOMAIN ba = DOMAIN a \cup DOMAIN b \cup DOMAIN e
      /\ \A k \in DOMAIN a : ab[k] = a[k]
      /\ \A k \in DOMAIN b : ba[k] = b[k]
      /\ \A k \in DOMAIN b : k \notin DOMAIN a => ab[k] = b[k]
      /\ \A k \in DOMAIN a : k \notin DOMAIN b => ba[k] = a[k]
      /\ \A k \in DOMAIN e : k \notin DOMAIN a /\ k \notin DOMAIN b
                               => ab[k] = e[k] /\ ba[k] = e[k]
  <2>1. /\ DOMAIN (b ++ e) = DOMAIN b \cup DOMAIN e
        /\ DOMAIN (a ++ e) = DOMAIN a \cup DOMAIN e
        /\ \A k \in DOMAIN b : (b ++ e)[k] = b[k]
        /\ \A k \in DOMAIN a : (a ++ e)[k] = a[k]
        /\ \A k \in DOMAIN e : k \notin DOMAIN b => (b ++ e)[k] = e[k]
        /\ \A k \in DOMAIN e : k \notin DOMAIN a => (a ++ e)[k] = e[k]
    BY DEF ++
  <2> DEFINE be == b ++ e
             ae == a ++ e
  <2> HIDE DEF be, ae
  <2>2. /\ DOMAIN (a ++ be) = DOMAIN a \cup DOMAIN be
        /\ DOMAIN (b ++ ae) = DOMAIN b \cup DOMAIN ae
        /\ \A k \in DOMAIN a : (a ++ be)[k] = a[k]
        /\ \A k \in DOMAIN b : (b ++ ae)[k] = b[k]
        /\ \A k \in DOMAIN be : k \notin DOMAIN a => (a ++ be)[k] = be[k]
        /\ \A k \in DOMAIN ae : k \notin DOMAIN b => (b ++ ae)[k] = ae[k]
    BY DEF ++
  <2> QED
    BY <2>1, <2>2 DEF be, ae
<1>2. ab = [k \in DOMAIN ab |-> ab[k]] /\ ba = [k \in DOMAIN ba |-> ba[k]]
  BY DEF ++
<1> HIDE DEF ab, ba
<1>3. ASSUME ~Conflict(a, b)
      PROVE  ab = ba
  <2>1. \A k \in DOMAIN a \cap DOMAIN b : a[k] = b[k]
    BY <1>3 DEF Conflict
  <2>2. \A k \in DOMAIN ab : ab[k] = ba[k]
    BY <1>1, <2>1
  <2> QED
    BY <1>1, <1>2, <2>2
<1>4. ASSUME Conflict(a, b)
      PROVE  ab # ba
  <2>1. PICK k \in DOMAIN a \cap DOMAIN b : a[k] # b[k]
    BY <1>4 DEF Conflict
  <2> QED
    BY <1>1, <2>1
<1> QED
  BY <1>3, <1>4 DEF ab, ba

\* The two secrets of the API and the requests they are copied into.
Secrets == {"--token", "--csrf"}
Request(n) == IF n = "--token" THEN "--request-token" ELSE "--request-csrf"

\* What an option sets that is the first of its list, named for no day, and
\* no profile.
Part(f, n, w) ==
    CASE n \in DOMAIN Switches(f) -> Switches(f)[n]
      [] n \in Lists(f) -> [k \in {n} |-> Append(<<>>, w)]
      [] f = "security" /\ n = "--window" ->
            [k \in {n} |-> Append(<<>>, [hours |-> w, days |-> AnyDay])]
      [] f = "api" /\ n \in Secrets -> [k \in {n, Request(n)} |-> w]
      [] OTHER -> [k \in {n} |-> w]

Profile(f, n) == f \in {"scan", "monitor"} /\ n = "--profile"

\* Which families have switches and lists.
LEMMA Tables ==
    ASSUME NEW f \in DOMAIN Options
    PROVE  /\ f \notin {"security", "bandwidth", "alerts", "agent", "gui"}
                => DOMAIN Switches(f) = {}
           /\ f = "security" => Switches(f) = SecuritySwitches /\ Lists(f) = {"--port"}
           /\ f = "bandwidth" => Switches(f) = BandwidthSwitches
           /\ f \notin {"benchmark", "ports", "security", "agent", "api"} => Lists(f) = {}
           /\ Lists(f) \subseteq {"--resolver", "--query", "--target", "--port",
                                  "--permission"}
           /\ f = "alerts" => DOMAIN Switches(f) = {"--toast", "--no-toast"}
           /\ f = "agent" => DOMAIN Switches(f) = {"--mock", "--real"}
           /\ f = "gui" => DOMAIN Switches(f) = {"--apply"}
           /\ DOMAIN Switches(f) \cap Lists(f) = {}
<1>1. DOMAIN <<>> = {}
  BY EmptySeq
<1>2. f \notin {"security", "bandwidth", "alerts", "agent", "gui"} => Switches(f) = <<>>
  BY DEF Switches, OtherSwitches
<1>3. f = "security" => Switches(f) = SecuritySwitches
  BY DEF Switches
<1>4. f = "bandwidth" => Switches(f) = BandwidthSwitches
  BY DEF Switches
<1>5. /\ f \notin {"benchmark", "ports", "security", "agent", "api"} => Lists(f) = {}
      /\ f = "security" => Lists(f) = {"--port"}
      /\ Lists(f) \subseteq {"--resolver", "--query", "--target", "--port", "--permission"}
  BY DEF Lists
<1>6. /\ f = "alerts" => DOMAIN Switches(f) = {"--toast", "--no-toast"}
      /\ f = "agent" => DOMAIN Switches(f) = {"--mock", "--real"}
      /\ f = "gui" => DOMAIN Switches(f) = {"--apply"}
  BY DEF Switches, OtherSwitches
<1>7. DOMAIN Switches(f) \cap Lists(f) = {}
  BY <1>1, <1>2, <1>3, <1>5, <1>6, SecuritySwitchValues
<1> QED
  BY <1>1, <1>2, <1>3, <1>4, <1>5, <1>6, <1>7

LEMMA SetPart ==
    ASSUME NEW f \in DOMAIN Options, NEW e, NEW n, NEW w,
           ~Profile(f, n),
           n \in Lists(f) => n \notin DOMAIN e,
           f = "security" /\ n = "--window"
             => n \notin DOMAIN e /\ "--days" \notin DOMAIN e
    PROVE  Set(f, e, n, w) = Part(f, n, w) ++ e
<1>1. /\ f = "security" => "--window" \notin DOMAIN Switches(f) /\ "--window" \notin Lists(f)
      /\ f = "api" => DOMAIN Switches(f) = {} /\ Lists(f) \cap Secrets = {}
      /\ DOMAIN Switches(f) \cap Lists(f) = {}
  BY Tables, SecuritySwitchValues DEF Secrets
<1> DEFINE window == f = "security" /\ n = "--window"
           secret == f = "api" /\ n \in Secrets
<1>2. /\ ~(f \in {"scan", "monitor"} /\ n = "--profile")
      /\ ~(window /\ secret)
      /\ window => n \notin DOMAIN Switches(f) /\ n \notin Lists(f)
      /\ secret => n \notin DOMAIN Switches(f) /\ n \notin Lists(f)
  BY <1>1 DEF Profile
<1>3. secret <=> f = "api" /\ n \in {"--token", "--csrf"}
  BY DEF Secrets
<1>4. CASE n \in DOMAIN Switches(f)
  <2>1. n \notin Lists(f) /\ ~window /\ ~secret
    BY <1>1, <1>2, <1>4
  <2>2. Set(f, e, n, w) = Switches(f)[n] ++ e
    BY <1>2, <1>3, <1>4, <2>1 DEF Set
  <2>3. Part(f, n, w) = Switches(f)[n]
    BY <1>4, <2>1 DEF Part
  <2> QED
    BY <2>2, <2>3
<1>5. CASE n \in Lists(f)
  <2>1. n \notin DOMAIN Switches(f) /\ ~window /\ ~secret
    BY <1>1, <1>2, <1>5
  <2>2. Set(f, e, n, w) = Push(e, n, w)
    BY <1>2, <1>3, <1>5, <2>1 DEF Set
  <2>3. Part(f, n, w) = [k \in {n} |-> Append(<<>>, w)]
    BY <1>5, <2>1 DEF Part
  <2>4. Val(e, n, <<>>) = <<>>
    BY <1>5 DEF Val
  <2> QED
    BY <2>2, <2>3, <2>4 DEF Push, Put
<1>6. CASE window
  <2>1. n \notin DOMAIN Switches(f) /\ n \notin Lists(f) /\ ~secret
    BY <1>2, <1>6
  <2>2. Set(f, e, n, w) = PushWindow(e, w)
    BY <1>2, <1>3, <1>6, <2>1 DEF Set
  <2>3. Part(f, n, w) = [k \in {n} |-> Append(<<>>, [hours |-> w, days |-> AnyDay])]
    BY <1>6, <2>1 DEF Part
  <2>4. Val(e, n, <<>>) = <<>> /\ Val(e, "--days", AnyDay) = AnyDay /\ n = "--window"
    BY <1>6 DEF Val
  <2> QED
    BY <2>2, <2>3, <2>4 DEF PushWindow, Push, Put
<1>7. CASE secret
  <2>1. n \notin DOMAIN Switches(f) /\ n \notin Lists(f) /\ ~window
    BY <1>2, <1>7
  <2>2. Set(f, e, n, w) = SetSecret(e, n, w)
    BY <1>2, <1>3, <1>7, <2>1 DEF Set
  <2>3. Part(f, n, w) = [k \in {n, Request(n)} |-> w]
    BY <1>7, <2>1 DEF Part
  <2> DEFINE both == [k \in {n, Request(n)} |-> w]
             one == [k \in {n} |-> w]
             two == [k \in {Request(n)} |-> w]
  <2>4. SetSecret(e, n, w) = two ++ (one ++ e)
    BY DEF SetSecret, Put, Request
  <2>5. two ++ (one ++ e) = both ++ e
    BY DEF ++
  <2> QED
    BY <2>2, <2>3, <2>4, <2>5
<1>8. CASE n \notin DOMAIN Switches(f) /\ n \notin Lists(f) /\ ~window /\ ~secret
  <2>1. Set(f, e, n, w) = Put(e, n, w)
    BY <1>2, <1>3, <1>8 DEF Set
  <2>2. Part(f, n, w) = [k \in {n} |-> w]
    BY <1>8 DEF Part
  <2> QED
    BY <2>1, <2>2 DEF Put
<1> QED
  BY <1>4, <1>5, <1>6, <1>7, <1>8

-----------------------------------------------------------------------------
(* Options in either order: which disagree.                                *)

LEMMA OnePair ==
    ASSUME NEW a, NEW b, NEW c, NEW d
    PROVE  {a, b} = {c, d} <=> (a = c /\ b = d) \/ (a = d /\ b = c)
<1>1. ASSUME {a, b} = {c, d} PROVE (a = c /\ b = d) \/ (a = d /\ b = c)
  <2>1. a \in {c, d} /\ b \in {c, d} /\ c \in {a, b} /\ d \in {a, b} BY <1>1
  <2> QED BY <2>1
<1>2. ASSUME (a = c /\ b = d) \/ (a = d /\ b = c) PROVE {a, b} = {c, d} BY <1>2
<1> QED BY <1>1, <1>2

\* Either of a pair of options is the one and the other the other.
Either(n, m, a, b) == (n = a /\ m = b) \/ (n = b /\ m = a)

LEMMA Opposed ==
    ASSUME NEW f, NEW n, NEW m
    PROVE  {n, m} \in Opposites(f) <=>
             \/ f = "security" /\ \/ Either(n, m, "--apply", "--dry-run")
                                  \/ Either(n, m, "--enforce", "--alert-only")
                                  \/ Either(n, m, "--include-unknown-iot", "--no-unknown-iot")
             \/ f = "bandwidth" /\ \/ Either(n, m, "--apply", "--dry-run")
                                   \/ Either(n, m, "--confirm", "--dry-run")
                                   \/ Either(n, m, "--mock-installed", "--mock-missing")
                                   \/ Either(n, m, "--mock-admin", "--mock-user")
             \/ f = "alerts" /\ Either(n, m, "--toast", "--no-toast")
             \/ f = "agent" /\ Either(n, m, "--mock", "--real")
<1>1. \A a, b : {n, m} = {a, b} <=> Either(n, m, a, b)
  BY OnePair DEF Either
<1>2. CASE f = "security"
  <2>1. Opposites(f) = {{"--apply", "--dry-run"}, {"--enforce", "--alert-only"},
                        {"--include-unknown-iot", "--no-unknown-iot"}}
    BY <1>2 DEF Opposites
  <2>2. {n, m} \in Opposites(f)
          <=> \/ {n, m} = {"--apply", "--dry-run"}
              \/ {n, m} = {"--enforce", "--alert-only"}
              \/ {n, m} = {"--include-unknown-iot", "--no-unknown-iot"}
    BY <2>1, Zenon
  <2> QED
    BY <1>1, <1>2, <2>2
<1>3. CASE f = "bandwidth"
  <2>1. Opposites(f) = {{"--apply", "--dry-run"}, {"--confirm", "--dry-run"},
                        {"--mock-installed", "--mock-missing"}, {"--mock-admin",
                         "--mock-user"}}
    BY <1>3 DEF Opposites
  <2>2. {n, m} \in Opposites(f)
          <=> \/ {n, m} = {"--apply", "--dry-run"} \/ {n, m} = {"--confirm", "--dry-run"}
              \/ {n, m} = {"--mock-installed", "--mock-missing"}
              \/ {n, m} = {"--mock-admin", "--mock-user"}
    BY <2>1, Zenon
  <2> QED
    BY <1>1, <1>3, <2>2
<1>4. CASE f = "alerts"
  <2>1. Opposites(f) = {{"--toast", "--no-toast"}}
    BY <1>4 DEF Opposites
  <2>2. {n, m} \in Opposites(f) <=> {n, m} = {"--toast", "--no-toast"}
    BY <2>1, Zenon
  <2> QED
    BY <1>1, <1>4, <2>2
<1>5. CASE f = "agent"
  <2>1. Opposites(f) = {{"--mock", "--real"}}
    BY <1>5 DEF Opposites
  <2>2. {n, m} \in Opposites(f) <=> {n, m} = {"--mock", "--real"}
    BY <2>1, Zenon
  <2> QED
    BY <1>1, <1>5, <2>2
<1>6. CASE f \notin {"security", "bandwidth", "alerts", "agent"}
  <2>1. Opposites(f) = {}
    BY <1>6 DEF Opposites
  <2> QED
    BY <1>6, <2>1
<1> QED
  BY <1>2, <1>3, <1>4, <1>5, <1>6

LEMMA SecurityDisagree ==
    ASSUME NEW n \in DOMAIN SecuritySwitches, NEW m \in DOMAIN SecuritySwitches, n # m
    PROVE  Conflict(SecuritySwitches[n], SecuritySwitches[m]) <=>
             \/ Either(n, m, "--apply", "--dry-run")
             \/ Either(n, m, "--enforce", "--alert-only")
             \/ Either(n, m, "--include-unknown-iot", "--no-unknown-iot")
<1> DEFINE S == SecuritySwitches
<1>1. DOMAIN S = {"--apply", "--dry-run", "--enforce", "--alert-only", "import",
                  "import-inventory", "recognition", "recognize", "--include-unknown-iot",
                  "--no-unknown-iot", "--rental-mode", "--rental"}
  BY DEF SecuritySwitches
<1>2. /\ DOMAIN S["--apply"] = {"dry_run", "import"} /\ S["--apply"]["dry_run"] = "off"
      /\ DOMAIN S["--dry-run"] = {"dry_run"} /\ S["--dry-run"]["dry_run"] = "on"
      /\ DOMAIN S["--enforce"] = {"enforce"} /\ S["--enforce"]["enforce"] = "on"
      /\ DOMAIN S["--alert-only"] = {"enforce"} /\ S["--alert-only"]["enforce"] = "off"
  BY DEF SecuritySwitches
<1>3. /\ DOMAIN S["--include-unknown-iot"] = {"unknown_iot"}
      /\ S["--include-unknown-iot"]["unknown_iot"] = "on"
      /\ DOMAIN S["--no-unknown-iot"] = {"unknown_iot"}
      /\ S["--no-unknown-iot"]["unknown_iot"] = "off"
  BY DEF SecuritySwitches
<1>4. \A k \in {"import", "import-inventory"} :
          DOMAIN S[k] = {"import_inventory"} /\ S[k]["import_inventory"] = "on"
  BY DEF SecuritySwitches
<1>5. \A k \in {"recognition", "recognize"} :
          DOMAIN S[k] = {"recognize"} /\ S[k]["recognize"] = "on"
  BY DEF SecuritySwitches
<1>6. \A k \in {"--rental-mode", "--rental"} :
          DOMAIN S[k] = {"rental"} /\ S[k]["rental"] = "on"
  BY DEF SecuritySwitches
<1> HIDE DEF S
<1>7. Conflict(S[n], S[m]) <=>
             \/ Either(n, m, "--apply", "--dry-run")
             \/ Either(n, m, "--enforce", "--alert-only")
             \/ Either(n, m, "--include-unknown-iot", "--no-unknown-iot")
  <2> USE <1>1, <1>2, <1>3, <1>4, <1>5, <1>6 DEF Conflict, Either
  <2>0. n \in DOMAIN S /\ m \in DOMAIN S BY DEF S
  <2>1. CASE n = "--apply" BY <2>0, <2>1
  <2>2. CASE n = "--dry-run" BY <2>0, <2>2
  <2>3. CASE n = "--enforce" BY <2>0, <2>3
  <2>4. CASE n = "--alert-only" BY <2>0, <2>4
  <2>5. CASE n = "--include-unknown-iot" BY <2>0, <2>5
  <2>6. CASE n = "--no-unknown-iot" BY <2>0, <2>6
  <2>7. CASE n \in {"import", "import-inventory"} BY <2>0, <2>7
  <2>8. CASE n \in {"recognition", "recognize"} BY <2>0, <2>8
  <2>9. CASE n \in {"--rental-mode", "--rental"} BY <2>0, <2>9
  <2> QED BY <2>0, <2>1, <2>2, <2>3, <2>4, <2>5, <2>6, <2>7, <2>8, <2>9
<1> QED
  BY <1>7 DEF S

LEMMA BandwidthDisagree ==
    ASSUME NEW n \in DOMAIN BandwidthSwitches, NEW m \in DOMAIN BandwidthSwitches, n # m
    PROVE  Conflict(BandwidthSwitches[n], BandwidthSwitches[m]) <=>
             \/ Either(n, m, "--apply", "--dry-run")
             \/ Either(n, m, "--confirm", "--dry-run")
             \/ Either(n, m, "--mock-installed", "--mock-missing")
             \/ Either(n, m, "--mock-admin", "--mock-user")
<1> DEFINE S == BandwidthSwitches
<1>1. DOMAIN S = {"--apply", "--dry-run", "--confirm", "--mock-installed",
                  "--mock-missing", "--mock-admin", "--mock-user"}
  BY DEF BandwidthSwitches
<1>2. /\ DOMAIN S["--apply"] = {"dry_run", "plugin_dry_run"}
      /\ S["--apply"]["dry_run"] = "off" /\ S["--apply"]["plugin_dry_run"] = "off"
      /\ DOMAIN S["--dry-run"] = {"dry_run", "capture_dry_run"}
      /\ S["--dry-run"]["dry_run"] = "on" /\ S["--dry-run"]["capture_dry_run"] = "on"
      /\ DOMAIN S["--confirm"] = {"confirm", "capture_dry_run"}
      /\ S["--confirm"]["confirm"] = "on" /\ S["--confirm"]["capture_dry_run"] = "off"
  BY DEF BandwidthSwitches
<1>3. /\ DOMAIN S["--mock-installed"] = {"npcap"} /\ S["--mock-installed"]["npcap"] = "on"
      /\ DOMAIN S["--mock-missing"] = {"npcap"} /\ S["--mock-missing"]["npcap"] = "off"
      /\ DOMAIN S["--mock-admin"] = {"admin"} /\ S["--mock-admin"]["admin"] = "on"
      /\ DOMAIN S["--mock-user"] = {"admin"} /\ S["--mock-user"]["admin"] = "off"
  BY DEF BandwidthSwitches
<1> HIDE DEF S
<1>4. Conflict(S[n], S[m]) <=>
             \/ Either(n, m, "--apply", "--dry-run")
             \/ Either(n, m, "--confirm", "--dry-run")
             \/ Either(n, m, "--mock-installed", "--mock-missing")
             \/ Either(n, m, "--mock-admin", "--mock-user")
  <2> USE <1>1, <1>2, <1>3 DEF Conflict, Either
  <2>0. n \in DOMAIN S /\ m \in DOMAIN S BY DEF S
  <2>1. CASE n = "--apply" BY <2>0, <2>1
  <2>2. CASE n = "--dry-run" BY <2>0, <2>2
  <2>3. CASE n = "--confirm" BY <2>0, <2>3
  <2>4. CASE n \in {"--mock-installed", "--mock-missing"} BY <2>0, <2>4
  <2>5. CASE n \in {"--mock-admin", "--mock-user"} BY <2>0, <2>5
  <2> QED BY <2>0, <2>1, <2>2, <2>3, <2>4, <2>5
<1> QED
  BY <1>4 DEF S

LEMMA SwitchesDisagree ==
    ASSUME NEW f \in DOMAIN Options, NEW n \in DOMAIN Switches(f),
           NEW m \in DOMAIN Switches(f), n # m
    PROVE  Conflict(Switches(f)[n], Switches(f)[m]) <=> {n, m} \in Opposites(f)
<1>1. CASE f = "security"
  BY <1>1, Tables, SecurityDisagree, Opposed
<1>2. CASE f = "bandwidth"
  BY <1>2, Tables, BandwidthDisagree, Opposed
<1>3. CASE f = "alerts"
  <2> DEFINE S == Switches(f)
  <2>1. /\ DOMAIN S["--toast"] = {"toast"} /\ S["--toast"]["toast"] = "on"
        /\ DOMAIN S["--no-toast"] = {"toast"} /\ S["--no-toast"]["toast"] = "off"
    BY <1>3 DEF Switches, OtherSwitches
  <2>2. n \in {"--toast", "--no-toast"} /\ m \in {"--toast", "--no-toast"}
    BY <1>3, Tables
  <2> HIDE DEF S
  <2>3. Conflict(S[n], S[m]) /\ Either(n, m, "--toast", "--no-toast")
    BY <2>1, <2>2 DEF Conflict, Either
  <2>4. {n, m} \in Opposites(f)
    BY <1>3, <2>3, Opposed
  <2> QED
    BY <2>3, <2>4 DEF S
<1>4. CASE f = "agent"
  <2> DEFINE S == Switches(f)
  <2>1. /\ DOMAIN S["--mock"] = {"mock"} /\ S["--mock"]["mock"] = "on"
        /\ DOMAIN S["--real"] = {"mock"} /\ S["--real"]["mock"] = "off"
    BY <1>4 DEF Switches, OtherSwitches
  <2>2. n \in {"--mock", "--real"} /\ m \in {"--mock", "--real"}
    BY <1>4, Tables
  <2> HIDE DEF S
  <2>3. Conflict(S[n], S[m]) /\ Either(n, m, "--mock", "--real")
    BY <2>1, <2>2 DEF Conflict, Either
  <2>4. {n, m} \in Opposites(f)
    BY <1>4, <2>3, Opposed
  <2> QED
    BY <2>3, <2>4 DEF S
<1>5. CASE f \notin {"security", "bandwidth", "alerts", "agent"}
  BY <1>5, Tables
<1> QED
  BY <1>1, <1>2, <1>3, <1>4, <1>5

\* A switch sets variables that no option is named after, or that are named
\* after another switch.
LEMMA SwitchVariables ==
    ASSUME NEW f \in DOMAIN Options, NEW n \in DOMAIN Switches(f)
    PROVE  DOMAIN Switches(f)[n]
             \subseteq Hidden \cup ({"import", "recognize"} \cap DOMAIN Switches(f))
<1>1. CASE f = "security"
  <2> DEFINE S == SecuritySwitches
  <2>1. DOMAIN S = {"--apply", "--dry-run", "--enforce", "--alert-only", "import",
                    "import-inventory", "recognition", "recognize",
                    "--include-unknown-iot", "--no-unknown-iot", "--rental-mode",
                    "--rental"}
    BY DEF SecuritySwitches
  <2>2. /\ DOMAIN S["--apply"] = {"dry_run", "import"}
        /\ DOMAIN S["--dry-run"] = {"dry_run"}
        /\ \A k \in {"--enforce", "--alert-only"} : DOMAIN S[k] = {"enforce"}
        /\ \A k \in {"--include-unknown-iot", "--no-unknown-iot"} :
               DOMAIN S[k] = {"unknown_iot"}
    BY DEF SecuritySwitches
  <2>3. /\ \A k \in {"import", "import-inventory"} : DOMAIN S[k] = {"import_inventory"}
        /\ \A k \in {"recognition", "recognize"} : DOMAIN S[k] = {"recognize"}
        /\ \A k \in {"--rental-mode", "--rental"} : DOMAIN S[k] = {"rental"}
    BY DEF SecuritySwitches
  <2> HIDE DEF S
  <2>4. \A k \in DOMAIN S : DOMAIN S[k]
                              \subseteq Hidden \cup ({"import", "recognize"} \cap DOMAIN S)
    BY <2>1, <2>2, <2>3 DEF Hidden
  <2>5. Switches(f) = S
    BY <1>1, Tables DEF S
  <2> QED
    BY <2>4, <2>5
<1>2. CASE f = "bandwidth"
  <2> DEFINE S == BandwidthSwitches
  <2>1. DOMAIN S = {"--apply", "--dry-run", "--confirm", "--mock-installed",
                    "--mock-missing", "--mock-admin", "--mock-user"}
    BY DEF BandwidthSwitches
  <2>2. /\ DOMAIN S["--apply"] = {"dry_run", "plugin_dry_run"}
        /\ DOMAIN S["--dry-run"] = {"dry_run", "capture_dry_run"}
        /\ DOMAIN S["--confirm"] = {"confirm", "capture_dry_run"}
        /\ \A k \in {"--mock-installed", "--mock-missing"} : DOMAIN S[k] = {"npcap"}
        /\ \A k \in {"--mock-admin", "--mock-user"} : DOMAIN S[k] = {"admin"}
    BY DEF BandwidthSwitches
  <2> HIDE DEF S
  <2>3. \A k \in DOMAIN S : DOMAIN S[k] \subseteq Hidden
    BY <2>1, <2>2 DEF Hidden
  <2>4. Switches(f) = S
    BY <1>2, Tables DEF S
  <2> QED
    BY <2>3, <2>4
<1>3. CASE f = "alerts"
  <2>1. DOMAIN Switches(f)[n] = {"toast"}
    BY <1>3 DEF Switches, OtherSwitches
  <2> QED
    BY <2>1 DEF Hidden
<1>4. CASE f = "agent"
  <2>1. DOMAIN Switches(f)[n] = {"mock"}
    BY <1>4 DEF Switches, OtherSwitches
  <2> QED
    BY <2>1 DEF Hidden
<1>5. CASE f = "gui"
  <2>1. DOMAIN Switches(f)[n] = {"dry_run"}
    BY <1>5 DEF Switches, OtherSwitches
  <2> QED
    BY <2>1 DEF Hidden
<1> QED
  BY <1>1, <1>2, <1>3, <1>4, <1>5, Tables

LEMMA PartDomain ==
    ASSUME NEW f \in DOMAIN Options, NEW n, NEW w, n \notin DOMAIN Switches(f)
    PROVE  /\ ~(f = "api" /\ n \in Secrets) => DOMAIN Part(f, n, w) = {n}
           /\ f = "api" /\ n \in Secrets => DOMAIN Part(f, n, w) = {n, Request(n)}
           /\ f = "api" /\ n \notin Lists(f)
                => \A k \in DOMAIN Part(f, n, w) : Part(f, n, w)[k] = w
<1> DEFINE window == f = "security" /\ n = "--window"
           secret == f = "api" /\ n \in Secrets
<1>1. /\ f = "security" => "--window" \notin Lists(f)
      /\ f = "api" => Lists(f) \cap Secrets = {}
  BY Tables DEF Secrets
<1>2. CASE n \in Lists(f)
  <2>1. ~window /\ ~secret
    BY <1>1, <1>2
  <2>2. Part(f, n, w) = [k \in {n} |-> Append(<<>>, w)]
    BY <1>2, <2>1 DEF Part
  <2> QED
    BY <1>2, <2>1, <2>2
<1>3. CASE window
  <2>1. n \notin Lists(f) /\ ~secret
    BY <1>1, <1>3
  <2>2. Part(f, n, w) = [k \in {n} |-> Append(<<>>, [hours |-> w, days |-> AnyDay])]
    BY <1>3, <2>1 DEF Part
  <2> QED
    BY <1>3, <2>1, <2>2
<1>4. CASE secret
  <2>1. n \notin Lists(f) /\ ~window
    BY <1>1, <1>4
  <2>2. Part(f, n, w) = [k \in {n, Request(n)} |-> w]
    BY <1>4, <2>1 DEF Part
  <2> QED
    BY <1>4, <2>2
<1>5. CASE n \notin Lists(f) /\ ~window /\ ~secret
  <2>1. Part(f, n, w) = [k \in {n} |-> w]
    BY <1>5 DEF Part
  <2> QED
    BY <1>5, <2>1
<1> QED
  BY <1>2, <1>3, <1>4, <1>5

LEMMA PartSwitch ==
    ASSUME NEW f \in DOMAIN Options, NEW n \in DOMAIN Switches(f), NEW w
    PROVE  Part(f, n, w) = Switches(f)[n]
<1>1. n \notin Lists(f) /\ ~(f = "security" /\ n = "--window") /\ ~(f = "api" /\ n \in Secrets)
  BY Tables, SecuritySwitchValues
<1> QED
  BY <1>1 DEF Part

\* The option with its value.
Told(n, w) == [name |-> n, word |-> w]

\* When the order of two options matters.
LEMMA MattersCases ==
    ASSUME NEW f, NEW n, NEW w, NEW m, NEW v
    PROVE  OrderMatters(f, Told(n, w), Told(m, v)) <=>
             \/ {n, m} \in Opposites(f)
             \/ f = "security" /\ \/ n = "--window" /\ m = "--days" /\ v # AnyDay
                                  \/ m = "--window" /\ n = "--days" /\ w # AnyDay
             \/ f = "api" /\ w # v /\ \/ Either(n, m, "--token", "--request-token")
                                      \/ Either(n, m, "--csrf", "--request-csrf")
<1> DEFINE x == Told(n, w)
           y == Told(m, v)
<1>1. x.name = n /\ x.word = w /\ y.name = m /\ y.word = v
  BY DEF Told
<1> HIDE DEF x, y
<1>2. (\E a, d \in {x, y} : a.name = "--window" /\ d.name = "--days" /\ d.word # AnyDay)
        <=> \/ n = "--window" /\ m = "--days" /\ v # AnyDay
            \/ m = "--window" /\ n = "--days" /\ w # AnyDay
  BY <1>1
<1>3. {n, m} \in {{"--token", "--request-token"}, {"--csrf", "--request-csrf"}}
        <=> \/ Either(n, m, "--token", "--request-token")
            \/ Either(n, m, "--csrf", "--request-csrf")
  <2>1. {n, m} \in {{"--token", "--request-token"}, {"--csrf", "--request-csrf"}}
          <=> \/ {n, m} = {"--token", "--request-token"}
              \/ {n, m} = {"--csrf", "--request-csrf"}
    BY Zenon
  <2> QED
    BY <2>1, OnePair DEF Either
<1>4. OrderMatters(f, x, y) <=>
             \/ {n, m} \in Opposites(f)
             \/ f = "security" /\ \/ n = "--window" /\ m = "--days" /\ v # AnyDay
                                  \/ m = "--window" /\ n = "--days" /\ w # AnyDay
             \/ f = "api" /\ w # v /\ \/ Either(n, m, "--token", "--request-token")
                                      \/ Either(n, m, "--csrf", "--request-csrf")
  BY <1>1, <1>2, <1>3 DEF OrderMatters
<1> QED
  BY <1>4 DEF x, y

\* Opposites are switches.
LEMMA OppositeSwitches ==
    ASSUME NEW f \in DOMAIN Options, NEW n, NEW m, {n, m} \in Opposites(f)
    PROVE  n \in DOMAIN Switches(f) /\ m \in DOMAIN Switches(f)
<1>1. {"--apply", "--dry-run", "--enforce", "--alert-only", "--include-unknown-iot",
       "--no-unknown-iot"} \subseteq DOMAIN SecuritySwitches
  BY DEF SecuritySwitches
<1>2. {"--apply", "--dry-run", "--confirm", "--mock-installed", "--mock-missing",
       "--mock-admin", "--mock-user"} \subseteq DOMAIN BandwidthSwitches
  BY DEF BandwidthSwitches
<1>3. CASE f = "security"
  <2>1. \/ Either(n, m, "--apply", "--dry-run")
        \/ Either(n, m, "--enforce", "--alert-only")
        \/ Either(n, m, "--include-unknown-iot", "--no-unknown-iot")
    BY <1>3, Opposed
  <2>2. Switches(f) = SecuritySwitches
    BY <1>3, Tables
  <2> QED
    BY <1>1, <2>1, <2>2 DEF Either
<1>4. CASE f = "bandwidth"
  <2>1. \/ Either(n, m, "--apply", "--dry-run")
        \/ Either(n, m, "--confirm", "--dry-run")
        \/ Either(n, m, "--mock-installed", "--mock-missing")
        \/ Either(n, m, "--mock-admin", "--mock-user")
    BY <1>4, Opposed
  <2>2. Switches(f) = BandwidthSwitches
    BY <1>4, Tables
  <2> QED
    BY <1>2, <2>1, <2>2 DEF Either
<1>5. CASE f = "alerts"
  <2>1. \/ Either(n, m, "--toast", "--no-toast")
    BY <1>5, Opposed
  <2>2. DOMAIN Switches(f) = {"--toast", "--no-toast"}
    BY <1>5, Tables
  <2> QED
    BY <2>1, <2>2 DEF Either
<1>6. CASE f = "agent"
  <2>1. \/ Either(n, m, "--mock", "--real")
    BY <1>6, Opposed
  <2>2. DOMAIN Switches(f) = {"--mock", "--real"}
    BY <1>6, Tables
  <2> QED
    BY <2>1, <2>2 DEF Either
<1> QED
  BY <1>3, <1>4, <1>5, <1>6, Opposed

\* What two options of a loop set disagrees when their order matters, except
\* that of a window and its days.
LEMMA Disagree ==
    ASSUME NEW f \in DOMAIN Options, NEW n \in DOMAIN Options[f],
           NEW m \in DOMAIN Options[f], n # m, NEW w, NEW v,
           ~(f = "security" /\ Either(n, m, "--window", "--days"))
    PROVE  Conflict(Part(f, n, w), Part(f, m, v))
             <=> OrderMatters(f, Told(n, w), Told(m, v))
<1>1. n \notin Hidden /\ m \notin Hidden
  BY HiddenNames DEF Open
<1>2. /\ f = "security" => DOMAIN Switches(f) \cap {"--window", "--days"} = {}
      /\ f = "api" => DOMAIN Switches(f) = {}
  BY Tables, SecuritySwitchValues
<1>3. ~(f = "security" /\ \/ n = "--window" /\ m = "--days" /\ v # AnyDay
                          \/ m = "--window" /\ n = "--days" /\ w # AnyDay)
  BY DEF Either
<1>4. CASE n \in DOMAIN Switches(f) /\ m \in DOMAIN Switches(f)
  <2>1. OrderMatters(f, Told(n, w), Told(m, v)) <=> {n, m} \in Opposites(f)
    BY <1>2, <1>3, <1>4, MattersCases
  <2>2. Part(f, n, w) = Switches(f)[n] /\ Part(f, m, v) = Switches(f)[m]
    BY <1>4, PartSwitch
  <2> QED
    BY <1>4, <2>1, <2>2, SwitchesDisagree
<1>5. CASE n \in DOMAIN Switches(f) /\ m \notin DOMAIN Switches(f)
  <2>1. f # "api"
    BY <1>2, <1>5
  <2>2. DOMAIN Part(f, n, w) \subseteq Hidden \cup DOMAIN Switches(f)
    BY <1>5, PartSwitch, SwitchVariables
  <2>3. DOMAIN Part(f, m, v) = {m}
    BY <1>5, <2>1, PartDomain
  <2>4. ~Conflict(Part(f, n, w), Part(f, m, v))
    BY <1>1, <1>5, <2>2, <2>3 DEF Conflict
  <2>5. {n, m} \notin Opposites(f)
    BY <1>5, OppositeSwitches
  <2> QED
    BY <1>3, <2>1, <2>4, <2>5, MattersCases
<1>6. CASE n \notin DOMAIN Switches(f) /\ m \in DOMAIN Switches(f)
  <2>1. f # "api"
    BY <1>2, <1>6
  <2>2. DOMAIN Part(f, m, v) \subseteq Hidden \cup DOMAIN Switches(f)
    BY <1>6, PartSwitch, SwitchVariables
  <2>3. DOMAIN Part(f, n, w) = {n}
    BY <1>6, <2>1, PartDomain
  <2>4. ~Conflict(Part(f, n, w), Part(f, m, v))
    BY <1>1, <1>6, <2>2, <2>3 DEF Conflict
  <2>5. {n, m} \notin Opposites(f)
    BY <1>6, OppositeSwitches
  <2> QED
    BY <1>3, <2>1, <2>4, <2>5, MattersCases
<1>7. CASE n \notin DOMAIN Switches(f) /\ m \notin DOMAIN Switches(f)
  <2>1. {n, m} \notin Opposites(f)
    BY <1>7, OppositeSwitches
  <2>2. CASE f # "api"
    <3>1. DOMAIN Part(f, n, w) = {n} /\ DOMAIN Part(f, m, v) = {m}
      BY <1>7, <2>2, PartDomain
    <3> QED
      BY <1>3, <2>1, <2>2, <3>1, MattersCases DEF Conflict
  <2>3. CASE f = "api"
    <3> DEFINE a == Part(f, n, w)
               b == Part(f, m, v)
    <3>1. OrderMatters(f, Told(n, w), Told(m, v))
            <=> w # v /\ \/ Either(n, m, "--token", "--request-token")
                         \/ Either(n, m, "--csrf", "--request-csrf")
      BY <2>1, <2>3, MattersCases
    <3>2. /\ n \in Secrets => DOMAIN a = {n, Request(n)}
          /\ n \notin Secrets => DOMAIN a = {n}
          /\ n \notin Lists(f) => \A k \in DOMAIN a : a[k] = w
      BY <1>7, <2>3, PartDomain
    <3>3. /\ m \in Secrets => DOMAIN b = {m, Request(m)}
          /\ m \notin Secrets => DOMAIN b = {m}
          /\ m \notin Lists(f) => \A k \in DOMAIN b : b[k] = v
      BY <1>7, <2>3, PartDomain
    <3>4. Lists(f) \cap {"--token", "--csrf", "--request-token", "--request-csrf"} = {}
      BY Tables
    <3> HIDE DEF a, b
    <3>5. CASE n \in Secrets /\ m \in Secrets
      <4>1. DOMAIN a = {n, Request(n)} /\ DOMAIN b = {m, Request(m)}
        BY <3>2, <3>3, <3>5
      <4>2. DOMAIN a \cap DOMAIN b = {}
        BY <3>5, <4>1 DEF Secrets, Request
      <4>3. ~Conflict(a, b)
        BY <4>2 DEF Conflict
      <4> QED
        BY <3>1, <3>5, <4>3 DEF Secrets, Either, a, b
    <3>6. CASE n \in Secrets /\ m \notin Secrets
      <4>1. CASE m = Request(n)
        <5>1. n \notin Lists(f) /\ m \notin Lists(f)
          BY <3>4, <3>6, <4>1 DEF Secrets, Request
        <5>2. Conflict(a, b) <=> w # v
          BY <3>2, <3>3, <3>6, <4>1, <5>1 DEF Conflict
        <5> QED
          BY <3>1, <3>6, <4>1, <5>2 DEF Secrets, Request, Either, a, b
      <4>2. CASE m # Request(n)
        <5>1. ~Conflict(a, b)
          BY <3>2, <3>3, <3>6, <4>2 DEF Conflict
        <5> QED
          BY <3>1, <3>6, <4>2, <5>1 DEF Secrets, Request, Either, a, b
      <4> QED
        BY <4>1, <4>2
    <3>7. CASE n \notin Secrets /\ m \in Secrets
      <4>1. CASE n = Request(m)
        <5>1. n \notin Lists(f) /\ m \notin Lists(f)
          BY <3>4, <3>7, <4>1 DEF Secrets, Request
        <5>2. Conflict(a, b) <=> w # v
          BY <3>2, <3>3, <3>7, <4>1, <5>1 DEF Conflict
        <5> QED
          BY <3>1, <3>7, <4>1, <5>2 DEF Secrets, Request, Either, a, b
      <4>2. CASE n # Request(m)
        <5>1. ~Conflict(a, b)
          BY <3>2, <3>3, <3>7, <4>2 DEF Conflict
        <5> QED
          BY <3>1, <3>7, <4>2, <5>1 DEF Secrets, Request, Either, a, b
      <4> QED
        BY <4>1, <4>2
    <3>8. CASE n \notin Secrets /\ m \notin Secrets
      <4>1. ~Conflict(a, b)
        BY <3>2, <3>3, <3>8 DEF Conflict
      <4> QED
        BY <3>1, <3>8, <4>1 DEF Secrets, Either, a, b
    <3> QED
      BY <3>5, <3>6, <3>7, <3>8
  <2> QED
    BY <2>2, <2>3
<1> QED
  BY <1>4, <1>5, <1>6, <1>7

\* A profile leaves the numbers of the line alone, before it and after it.
LEMMA ProfileCommutes ==
    ASSUME NEW f \in {"scan", "monitor"}, NEW n \in DOMAIN Options[f], n # "--profile",
           NEW w, n \in Presets(f) => w \in Unsigned, NEW p
    PROVE  Set(f, Set(f, <<>>, "--profile", p), n, w)
             = Set(f, Set(f, <<>>, n, w), "--profile", p)
<1>1. f \in DOMAIN Options
  BY DEF Options
<1>2. DOMAIN Switches(f) = {} /\ Lists(f) = {}
  BY <1>1, Tables
<1>3. \A e, q : Set(f, e, "--profile", q) = ApplyProfile(f, e, q)
  BY <1>2 DEF Set
<1>4. \A e : Set(f, e, n, w) = Put(e, n, w)
  BY <1>2 DEF Set
<1>5. n \notin {"--profile", "probes"}
  BY <1>1, HiddenNames DEF Open, Hidden
<1> DEFINE Filled == Presets(f) \cup {"--profile", "probes"}
           one == Put(<<>>, n, w)
           none == <<>>
           before == ApplyProfile(f, none, p)
           left == Put(before, n, w)
           right == ApplyProfile(f, one, p)
<1>6. DOMAIN none = {}
  BY EmptySeq
<1>7. DOMAIN one = {n} /\ one[n] = w
  <2>1. one = [x \in {n} |-> w] ++ none
    BY DEF Put
  <2> QED
    BY <1>6, <2>1 DEF ++
<1>8. DOMAIN before = Filled /\ \A k \in Filled : before[k] = p
  <2>1. {o \in Presets(f) \cap DOMAIN none : none[o] \in Unsigned} = {}
    BY <1>6
  <2>2. before = [o \in (Presets(f) \ {}) \cup {"--profile", "probes"} |-> p] ++ none
    BY <2>1 DEF ApplyProfile
  <2> HIDE DEF before
  <2> QED
    BY <1>6, <2>2 DEF ++
<1> HIDE DEF before, one
<1>9. /\ DOMAIN left = Filled \cup {n}
      /\ left[n] = w
      /\ \A k \in Filled \ {n} : left[k] = p
  BY <1>8 DEF Put, ++
<1>10. /\ DOMAIN right = Filled \cup {n}
       /\ right[n] = w
       /\ \A k \in Filled \ {n} : right[k] = p
  <2>1. {o \in Presets(f) \cap DOMAIN one : one[o] \in Unsigned} = Presets(f) \cap {n}
    BY <1>7
  <2>2. right = [o \in (Presets(f) \ (Presets(f) \cap {n})) \cup {"--profile", "probes"} |-> p]
                  ++ one
    BY <2>1 DEF ApplyProfile
  <2> HIDE DEF right
  <2> QED
    BY <1>5, <1>7, <2>2 DEF ++
<1>11. left = right
  <2>1. left = [k \in DOMAIN left |-> left[k]] /\ right = [k \in DOMAIN right |-> right[k]]
    BY DEF Put, ApplyProfile, ++
  <2> HIDE DEF left, right, Filled
  <2>2. \A k \in DOMAIN left : left[k] = right[k]
    BY <1>9, <1>10
  <2> QED
    BY <1>9, <1>10, <2>1, <2>2
<1> QED
  BY <1>3, <1>4, <1>11 DEF left, right, before, one

\* A window takes the days named before it.
LEMMA WindowTakesDays ==
    ASSUME NEW w, NEW d
    PROVE  (Set("security", Set("security", <<>>, "--days", d), "--window", w)
             = Set("security", Set("security", <<>>, "--window", w), "--days", d))
           <=> d = AnyDay
<1> DEFINE f == "security"
           none == <<>>
           item(day) == [hours |-> w, days |-> day]
           window(day) == [k \in {"--window"} |-> Append(<<>>, item(day))]
           days == [k \in {"--days"} |-> d]
           daysFirst == window(d) ++ (days ++ none)
           windowFirst == days ++ (window(AnyDay) ++ none)
<1>1. f \in DOMAIN Options /\ DOMAIN none = {}
  BY EmptySeq DEF Options
<1>2. {"--window", "--days"} \cap (DOMAIN Switches(f) \cup Lists(f)) = {}
  BY <1>1, Tables, SecuritySwitchValues
<1>3. \A e : /\ Set(f, e, "--days", d) = Put(e, "--days", d)
             /\ Set(f, e, "--window", w) = PushWindow(e, w)
  BY <1>2 DEF Set
<1>4. Put(none, "--days", d) = days ++ none
  BY DEF Put
<1>5. PushWindow(none, w) = window(AnyDay) ++ none
  <2>1. Val(none, "--days", AnyDay) = AnyDay /\ Val(none, "--window", <<>>) = <<>>
    BY <1>1 DEF Val
  <2> QED
    BY <2>1 DEF PushWindow, Push, Put
<1>6. PushWindow(days ++ none, w) = daysFirst
  <2>1. DOMAIN (days ++ none) = {"--days"} /\ (days ++ none)["--days"] = d
    BY <1>1 DEF ++
  <2>2. Val(days ++ none, "--days", AnyDay) = d /\ Val(days ++ none, "--window", <<>>) = <<>>
    BY <2>1 DEF Val
  <2> QED
    BY <2>2 DEF PushWindow, Push, Put
<1>7. Put(window(AnyDay) ++ none, "--days", d) = windowFirst
  BY DEF Put
<1>8. daysFirst["--window"] = Append(<<>>, item(d))
      /\ windowFirst["--window"] = Append(<<>>, item(AnyDay))
  BY DEF ++
<1>9. d = AnyDay => daysFirst = windowFirst
  <2>1. ~Conflict(window(AnyDay), days)
    BY DEF Conflict
  <2> QED
    BY <2>1, Exchange
<1>10. daysFirst = windowFirst => d = AnyDay
  <2>1. Append(<<>>, item(d))[1] = item(d) /\ Append(<<>>, item(AnyDay))[1] = item(AnyDay)
    OBVIOUS
  <2>2. item(d).days = d /\ item(AnyDay).days = AnyDay
    OBVIOUS
  <2> HIDE DEF daysFirst, windowFirst, item
  <2> QED
    BY <1>8, <2>1, <2>2
<1> QED
  BY <1>3, <1>4, <1>5, <1>6, <1>7, <1>9, <1>10

\* An option finds its own list empty, and a window no days, after any other
\* option but --days.
LEMMA PartApart ==
    ASSUME NEW f \in DOMAIN Options, NEW n \in DOMAIN Options[f],
           NEW m \in DOMAIN Options[f], n # m, NEW v
    PROVE  /\ n \in Lists(f) => n \notin DOMAIN Part(f, m, v)
           /\ f = "security" /\ n = "--window" /\ m # "--days"
                => DOMAIN Part(f, m, v) \cap {"--window", "--days"} = {}
<1>1. n \notin Hidden /\ "--window" \notin Hidden /\ "--days" \notin Hidden
  BY HiddenNames DEF Open, Hidden, None
<1>2. /\ DOMAIN Switches(f) \cap Lists(f) = {}
      /\ f = "security" => DOMAIN Switches(f) \cap {"--window", "--days"} = {}
      /\ Lists(f) \cap {"--request-token", "--request-csrf"} = {}
  BY Tables, SecuritySwitchValues
<1>3. CASE m \in DOMAIN Switches(f)
  <2>1. DOMAIN Part(f, m, v) \subseteq Hidden \cup DOMAIN Switches(f)
    BY <1>3, PartSwitch, SwitchVariables
  <2> QED
    BY <1>1, <1>2, <2>1
<1>4. CASE m \notin DOMAIN Switches(f)
  <2>1. Request(m) \in {"--request-token", "--request-csrf"}
    BY DEF Request
  <2>2. \/ DOMAIN Part(f, m, v) = {m}
        \/ f = "api" /\ DOMAIN Part(f, m, v) = {m, Request(m)}
    BY <1>4, PartDomain
  <2> QED
    BY <1>2, <2>1, <2>2
<1> QED
  BY <1>3, <1>4

\* Two options of a loop set the same in either order exactly when their order
\* does not matter.
LEMMA PairsCommute ==
    ASSUME NEW f \in DOMAIN Options, NEW n \in DOMAIN Options[f],
           NEW m \in DOMAIN Options[f], n # m, NEW w, NEW v,
           f \in {"scan", "monitor"} /\ n \in Presets(f) => w \in Unsigned,
           f \in {"scan", "monitor"} /\ m \in Presets(f) => v \in Unsigned
    PROVE  (Finish(f, Set(f, Set(f, <<>>, m, v), n, w))
              = Finish(f, Set(f, Set(f, <<>>, n, w), m, v)))
           <=> ~OrderMatters(f, Told(n, w), Told(m, v))
<1> DEFINE left == Set(f, Set(f, <<>>, m, v), n, w)
           right == Set(f, Set(f, <<>>, n, w), m, v)
           matters == OrderMatters(f, Told(n, w), Told(m, v))
<1>1. f # "monitor" => Finish(f, left) = left /\ Finish(f, right) = right
  BY DEF Finish
<1>2. f \in {"scan", "monitor"} => ~matters
  BY MattersCases, Opposed
<1>3. (left = right) <=> ~matters
  <2>1. CASE Profile(f, n)
    <3>1. left = right
      BY <2>1, ProfileCommutes DEF Profile
    <3> QED
      BY <1>2, <2>1, <3>1 DEF Profile
  <2>2. CASE Profile(f, m)
    <3>1. left = right
      BY <2>2, ProfileCommutes DEF Profile
    <3> QED
      BY <1>2, <2>2, <3>1 DEF Profile
  <2>3. CASE f = "security" /\ n = "--window" /\ m = "--days"
    <3>1. (left = right) <=> v = AnyDay
      BY <2>3, WindowTakesDays
    <3>2. {n, m} \notin Opposites(f)
      BY <2>3, OppositeSwitches, Tables, SecuritySwitchValues
    <3>3. matters <=> v # AnyDay
      BY <2>3, <3>2, MattersCases
    <3> QED
      BY <3>1, <3>3
  <2>4. CASE f = "security" /\ n = "--days" /\ m = "--window"
    <3>1. (left = right) <=> w = AnyDay
      BY <2>4, WindowTakesDays
    <3>2. {n, m} \notin Opposites(f)
      BY <2>4, OppositeSwitches, Tables, SecuritySwitchValues
    <3>3. matters <=> w # AnyDay
      BY <2>4, <3>2, MattersCases
    <3> QED
      BY <3>1, <3>3
  <2>5. CASE /\ ~Profile(f, n) /\ ~Profile(f, m)
             /\ ~(f = "security" /\ Either(n, m, "--window", "--days"))
    <3> DEFINE a == Part(f, n, w)
               b == Part(f, m, v)
               none == <<>>
    <3>1. DOMAIN none = {}
      BY EmptySeq
    <3>2. Set(f, none, n, w) = a ++ none /\ Set(f, none, m, v) = b ++ none
      BY <2>5, <3>1, SetPart
    <3>3. DOMAIN (a ++ none) = DOMAIN a /\ DOMAIN (b ++ none) = DOMAIN b
      <4> HIDE DEF a, b
      <4> QED
        BY <3>1 DEF ++
    <3>4. Set(f, b ++ none, n, w) = a ++ (b ++ none)
      <4>1. /\ n \in Lists(f) => n \notin DOMAIN b
            /\ f = "security" /\ n = "--window" => n \notin DOMAIN b /\ "--days" \notin DOMAIN b
        BY <2>5, PartApart DEF Either
      <4>2. /\ n \in Lists(f) => n \notin DOMAIN (b ++ none)
            /\ f = "security" /\ n = "--window"
                 => n \notin DOMAIN (b ++ none) /\ "--days" \notin DOMAIN (b ++ none)
        BY <3>3, <4>1
      <4> QED
        BY <2>5, <4>2, SetPart
    <3>5. Set(f, a ++ none, m, v) = b ++ (a ++ none)
      <4>1. /\ m \in Lists(f) => m \notin DOMAIN a
            /\ f = "security" /\ m = "--window" => m \notin DOMAIN a /\ "--days" \notin DOMAIN a
        BY <2>5, PartApart DEF Either
      <4>2. /\ m \in Lists(f) => m \notin DOMAIN (a ++ none)
            /\ f = "security" /\ m = "--window"
                 => m \notin DOMAIN (a ++ none) /\ "--days" \notin DOMAIN (a ++ none)
        BY <3>3, <4>1
      <4> QED
        BY <2>5, <4>2, SetPart
    <3>6. Conflict(a, b) <=> matters
      BY <2>5, Disagree
    <3>7. (a ++ (b ++ none) = b ++ (a ++ none)) <=> ~Conflict(a, b)
      BY Exchange
    <3>8. left = a ++ (b ++ none) /\ right = b ++ (a ++ none)
      BY <3>2, <3>4, <3>5
    <3> HIDE DEF left, right, matters, a, b, none
    <3> QED
      BY <3>6, <3>7, <3>8
  <2> QED
    BY <2>1, <2>2, <2>3, <2>4, <2>5 DEF Either
<1> HIDE DEF left, right, matters
<1>4. (Finish(f, left) = Finish(f, right)) <=> ~matters
  BY <1>1, <1>2, <1>3
<1> QED
  BY <1>4 DEF left, right, matters

-----------------------------------------------------------------------------
(* Options in either order: how the loop takes them.                       *)

\* The numbers that a profile may fill in are numbers wherever they are said.
LEMMA PresetNumbers ==
    ASSUME NEW f \in {"scan", "monitor"}, NEW n \in Presets(f) \cap DOMAIN Options[f]
    PROVE  Options[f][n].kind \in {"positive", "natural", "millis"}
<1>1. f \in DOMAIN Options
  BY DEF Options
<1>2. \/ n \in {"--concurrency", "--qps", "--jitter-min", "--jitter-max", "--timeout"}
      \/ f = "monitor" /\ n = "--interval"
  BY <1>1, HiddenNames DEF Presets, Open, Hidden
<1>3. CASE f = "scan"
  <2> DEFINE a == ScanTargets
             b == ScanLimits
             c == ScanProfile
  <2>1. Options[f] = a ++ b ++ c
    BY <1>3 DEF Options
  <2>2. n \notin DOMAIN a
    BY <1>2, <1>3 DEF ScanTargets, ++, Flag, Take, TakeNext, Table
  <2>3. /\ {"--concurrency", "--qps", "--jitter-min", "--jitter-max"} \subseteq DOMAIN b
        /\ \A k \in DOMAIN b : b[k].kind \in {"positive", "millis"}
    BY DEF ScanLimits, ++, Take, Table
  <2>4. "--timeout" \in DOMAIN c /\ c["--timeout"].kind = "positive"
    BY DEF ScanProfile, ++, Take, Table
  <2> HIDE DEF a, b, c
  <2>5. n \in DOMAIN b => (a ++ b ++ c)[n] = b[n]
    BY <2>2 DEF ++
  <2>6. n \in DOMAIN c \ DOMAIN b => (a ++ b ++ c)[n] = c[n]
    BY <2>2 DEF ++
  <2> QED
    BY <1>2, <1>3, <2>1, <2>3, <2>4, <2>5, <2>6
<1>4. CASE f = "monitor"
  <2> DEFINE a == MonitorTargets
             b == MonitorLimits
             c == MonitorSchedule
  <2>1. Options[f] = a ++ b ++ c
    BY <1>4 DEF Options
  <2>2. n \notin DOMAIN a
    BY <1>2, <1>4 DEF MonitorTargets, ++, Flag, Take, Table
  <2>3. /\ {"--concurrency", "--qps", "--jitter-min", "--jitter-max"} \subseteq DOMAIN b
        /\ \A k \in DOMAIN b : b[k].kind \in {"positive", "millis"}
    BY DEF MonitorLimits, ++, Take, Table
  <2>4. /\ {"--timeout", "--interval"} \subseteq DOMAIN c
        /\ \A k \in {"--timeout", "--interval"} : c[k].kind \in {"positive", "natural"}
    BY DEF MonitorSchedule, ++, Flag, Take, TakeNext, Table
  <2> HIDE DEF a, b, c
  <2>5. n \in DOMAIN b => (a ++ b ++ c)[n] = b[n]
    BY <2>2 DEF ++
  <2>6. n \in DOMAIN c \ DOMAIN b => (a ++ b ++ c)[n] = c[n]
    BY <2>2 DEF ++
  <2> QED
    BY <1>2, <1>4, <2>1, <2>3, <2>4, <2>5, <2>6
<1> QED
  BY <1>3, <1>4

\* An argument that is an option without its value, and one that is an option
\* with all it needs.
Waits(f, arg) ==
    /\ arg.word \in DOMAIN Options[f]
    /\ Options[f][arg.word].kind \notin {"flag", "word"}
    /\ arg.value = None

Alone(f, arg) ==
    /\ arg.word \in DOMAIN Options[f]
    /\ \/ Options[f][arg.word].kind \in {"flag", "word"} /\ arg.value = None
       \/ /\ Options[f][arg.word].joined /\ arg.value # None
          /\ Accepts(Options[f][arg.word].kind, arg.value)

Value(arg) == IF arg.value = None THEN "on" ELSE arg.value

State(p, e, d) == [refused |-> FALSE, pending |-> p, env |-> e, said |-> d]

LEMMA OptionTaken ==
    ASSUME NEW f, NEW p, NEW e, NEW d, NEW n, NEW w
    PROVE  TakeOption(f, State(p, e, d), n, w) = State(None, Set(f, e, n, w), Append(d, n))
<1> DEFINE s == State(p, e, d)
           new == Set(f, e, n, w)
           more == Append(d, n)
<1>1. s.env = e /\ s.said = d
  BY DEF State
<1>2. TakeOption(f, s, n, w) = [s EXCEPT !.pending = None, !.env = new, !.said = more]
  BY <1>1 DEF TakeOption
<1>3. s = [refused |-> FALSE, pending |-> p, env |-> e, said |-> d]
  BY DEF State
<1>4. State(None, new, more)
        = [refused |-> FALSE, pending |-> None, env |-> new, said |-> more]
  BY DEF State
<1> HIDE DEF s, new, more
<1>5. [s EXCEPT !.pending = None, !.env = new, !.said = more]
        = [refused |-> FALSE, pending |-> None, env |-> new, said |-> more]
  <2>1. PICK made : made = [s EXCEPT !.pending = None, !.env = new, !.said = more]
    OBVIOUS
  <2>2. made = [refused |-> FALSE, pending |-> None, env |-> new, said |-> more]
    BY <1>3, <2>1
  <2> QED
    BY <2>1, <2>2, Zenon
<1> QED
  BY <1>2, <1>4, <1>5, Zenon DEF s, new, more

\* What the loop makes of an argument it does not refuse.
LEMMA ArgumentCases ==
    ASSUME NEW f, NEW p, NEW e, NEW d, NEW arg, NEW new,
           new = Argument(f, State(p, e, d), arg), ~new.refused
    PROVE  \/ /\ p # None
              /\ Accepts(Options[f][p].kind, arg.word)
              /\ new = State(None, Set(f, e, p, arg.word), Append(d, p))
           \/ /\ p = None
              /\ Waits(f, arg)
              /\ new = State(arg.word, e, d)
           \/ /\ p = None
              /\ Alone(f, arg)
              /\ new = State(None, Set(f, e, arg.word, Value(arg)), Append(d, arg.word))
<1> DEFINE s == State(p, e, d)
<1>0. s = [refused |-> FALSE, pending |-> p, env |-> e, said |-> d]
  BY DEF State
<1>3. \A n, w : TakeOption(f, s, n, w) = State(None, Set(f, e, n, w), Append(d, n))
  BY OptionTaken
<1> HIDE DEF s
<1>1. ~s.refused /\ s.pending = p /\ [s EXCEPT !.refused = TRUE].refused
  BY <1>0
<1>2. [s EXCEPT !.pending = arg.word] = State(arg.word, e, d)
  <2>1. PICK made : made = [s EXCEPT !.pending = arg.word]
    OBVIOUS
  <2>2. made = [refused |-> FALSE, pending |-> arg.word, env |-> e, said |-> d]
    BY <1>0, <2>1
  <2> QED
    BY <2>1, <2>2, Zenon DEF State
<1>4. \A n, w : new = TakeValue(f, s, n, w)
                  => Accepts(Options[f][n].kind, w) /\ new = TakeOption(f, s, n, w)
  BY <1>1 DEF TakeValue
<1>5. new = Argument(f, s, arg)
  BY DEF s
<1>6. CASE p # None
  <2>1. new = TakeValue(f, s, p, arg.word)
    BY <1>1, <1>5, <1>6 DEF Argument
  <2> QED
    BY <1>3, <1>4, <1>6, <2>1
<1>7. CASE p = None
  <2> DEFINE option == Options[f][arg.word]
  <2>1. arg.word \in DOMAIN Options[f]
    BY <1>1, <1>5, <1>7 DEF Argument
  <2>2. \/ /\ option.kind \in {"flag", "word"} /\ arg.value = None
           /\ new = TakeOption(f, s, arg.word, "on")
        \/ /\ option.kind \notin {"flag", "word"} /\ arg.value = None
           /\ new = [s EXCEPT !.pending = arg.word]
        \/ /\ option.joined /\ arg.value # None
           /\ new = TakeValue(f, s, arg.word, arg.value)
    BY <1>1, <1>5, <1>7, <2>1 DEF Argument
  <2>3. CASE /\ option.kind \in {"flag", "word"} /\ arg.value = None
             /\ new = TakeOption(f, s, arg.word, "on")
    BY <1>3, <1>7, <2>1, <2>3 DEF Alone, Value
  <2>4. CASE /\ option.kind \notin {"flag", "word"} /\ arg.value = None
             /\ new = [s EXCEPT !.pending = arg.word]
    BY <1>2, <1>7, <2>1, <2>4 DEF Waits
  <2>5. CASE /\ option.joined /\ arg.value # None
             /\ new = TakeValue(f, s, arg.word, arg.value)
    BY <1>3, <1>4, <1>7, <2>1, <2>5 DEF Alone, Value
  <2> QED
    BY <2>2, <2>3, <2>4, <2>5
<1> QED
  BY <1>6, <1>7

\* The converse: what it makes of those arguments.
LEMMA ValueTaken ==
    ASSUME NEW f, NEW p, p # None, NEW e, NEW d, NEW arg,
           Accepts(Options[f][p].kind, arg.word)
    PROVE  Argument(f, State(p, e, d), arg) = State(None, Set(f, e, p, arg.word), Append(d, p))
<1> DEFINE s == State(p, e, d)
<1>1. ~s.refused /\ s.pending = p
  BY DEF State
<1>2. TakeOption(f, s, p, arg.word) = State(None, Set(f, e, p, arg.word), Append(d, p))
  BY OptionTaken
<1> HIDE DEF s
<1>3. Argument(f, s, arg) = TakeValue(f, s, p, arg.word)
  BY <1>1 DEF Argument
<1>4. TakeValue(f, s, p, arg.word) = TakeOption(f, s, p, arg.word)
  BY DEF TakeValue
<1> QED
  BY <1>2, <1>3, <1>4 DEF s

LEMMA WaitingTaken ==
    ASSUME NEW f, NEW e, NEW d, NEW arg, Waits(f, arg)
    PROVE  Argument(f, State(None, e, d), arg) = State(arg.word, e, d)
<1> DEFINE s == State(None, e, d)
<1>0. s = [refused |-> FALSE, pending |-> None, env |-> e, said |-> d]
  BY DEF State
<1> HIDE DEF s
<1>1. ~s.refused /\ s.pending = None
  BY <1>0
<1>2. [s EXCEPT !.pending = arg.word] = State(arg.word, e, d)
  <2>1. PICK made : made = [s EXCEPT !.pending = arg.word]
    OBVIOUS
  <2>2. made = [refused |-> FALSE, pending |-> arg.word, env |-> e, said |-> d]
    BY <1>0, <2>1
  <2> QED
    BY <2>1, <2>2, Zenon DEF State
<1>3. Argument(f, s, arg) = [s EXCEPT !.pending = arg.word]
  BY <1>1 DEF Argument, Waits
<1> QED
  BY <1>2, <1>3 DEF s

LEMMA AloneTaken ==
    ASSUME NEW f, NEW e, NEW d, NEW arg, Alone(f, arg)
    PROVE  Argument(f, State(None, e, d), arg)
             = State(None, Set(f, e, arg.word, Value(arg)), Append(d, arg.word))
<1> DEFINE s == State(None, e, d)
<1>1. ~s.refused /\ s.pending = None
  BY DEF State
<1>2. TakeOption(f, s, arg.word, Value(arg))
        = State(None, Set(f, e, arg.word, Value(arg)), Append(d, arg.word))
  BY OptionTaken
<1> HIDE DEF s
<1>3. Argument(f, s, arg) = TakeOption(f, s, arg.word, Value(arg))
  BY <1>1 DEF Argument, Alone, TakeValue, Value
<1> QED
  BY <1>2, <1>3 DEF s

\* The option at a place of a line is complete and acceptable.
Fits(f, arguments, i) ==
    \/ Alone(f, arguments[i])
    \/ /\ Waits(f, arguments[i])
       /\ Accepts(Options[f][arguments[i].word].kind, arguments[i + 1].word)

LEMMA WidthOfWaiting ==
    ASSUME NEW f \in DOMAIN Options, NEW arg, Waits(f, arg)
    PROVE  Width(f, arg) = 2
<1>1. Argument(f, State(None, <<>>, <<>>), arg) = State(arg.word, <<>>, <<>>)
  BY WaitingTaken
<1>2. State(None, <<>>, <<>>) = Loop /\ State(arg.word, <<>>, <<>>).pending = arg.word
  BY DEF State, Loop
<1>3. arg.word # None
  BY HiddenNames DEF Waits, Open, Hidden
<1> QED
  BY <1>1, <1>2, <1>3 DEF Width

LEMMA WidthOfAlone ==
    ASSUME NEW f, NEW arg, Alone(f, arg)
    PROVE  Width(f, arg) = 1
<1>1. \A e, d : Argument(f, State(None, e, d), arg).pending = None
  <2>1. \A e, d : State(None, e, d).pending = None
    BY DEF State
  <2> QED
    BY <2>1, AloneTaken
<1>2. State(None, <<>>, <<>>) = Loop
  BY DEF State, Loop
<1> QED
  BY <1>1, <1>2 DEF Width

LEMMA SpokenWaiting ==
    ASSUME NEW f \in DOMAIN Options, NEW arguments, NEW i, Waits(f, arguments[i])
    PROVE  Spoken(f, arguments, i) = Told(arguments[i].word, arguments[i + 1].word)
  BY WidthOfWaiting DEF Spoken, Told

LEMMA SpokenAlone ==
    ASSUME NEW f, NEW arguments, NEW i, Alone(f, arguments[i])
    PROVE  Spoken(f, arguments, i) = Told(arguments[i].word, Value(arguments[i]))
  BY WidthOfAlone DEF Spoken, Told, Value

\* What the loop has set after the option at a place.
Then(f, e, arguments, i) ==
    Set(f, e, Spoken(f, arguments, i).name, Spoken(f, arguments, i).word)

LEMMA TakeAtFits ==
    ASSUME NEW f \in DOMAIN Options, NEW e, NEW d, NEW arguments, NEW i,
           Fits(f, arguments, i)
    PROVE  TakeAt(f, State(None, e, d), arguments, i)
             = State(None, Then(f, e, arguments, i),
                     Append(d, Spoken(f, arguments, i).name))
<1> DEFINE arg == arguments[i]
           next == arguments[i + 1]
<1>1. CASE Alone(f, arg)
  <2>1. TakeAt(f, State(None, e, d), arguments, i) = Argument(f, State(None, e, d), arg)
    BY <1>1, WidthOfAlone DEF TakeAt
  <2>2. Argument(f, State(None, e, d), arg)
          = State(None, Set(f, e, arg.word, Value(arg)), Append(d, arg.word))
    BY <1>1, AloneTaken
  <2>3. Spoken(f, arguments, i) = Told(arg.word, Value(arg))
    BY <1>1, SpokenAlone
  <2>4. Spoken(f, arguments, i).name = arg.word /\ Spoken(f, arguments, i).word = Value(arg)
    BY <2>3 DEF Told
  <2> QED
    BY <2>1, <2>2, <2>4 DEF Then
<1>2. CASE Waits(f, arg) /\ Accepts(Options[f][arg.word].kind, next.word)
  <2>1. Argument(f, State(None, e, d), arg) = State(arg.word, e, d)
    BY <1>2, WaitingTaken
  <2>2. TakeAt(f, State(None, e, d), arguments, i)
          = Argument(f, State(arg.word, e, d), next)
    BY <1>2, <2>1, WidthOfWaiting DEF TakeAt
  <2>3. arg.word # None
    BY <1>2, HiddenNames DEF Waits, Open, Hidden
  <2>4. Argument(f, State(arg.word, e, d), next)
          = State(None, Set(f, e, arg.word, next.word), Append(d, arg.word))
    BY <1>2, <2>3, ValueTaken
  <2>5. Spoken(f, arguments, i) = Told(arg.word, next.word)
    BY <1>2, SpokenWaiting
  <2>6. Spoken(f, arguments, i).name = arg.word /\ Spoken(f, arguments, i).word = next.word
    BY <2>5 DEF Told
  <2> QED
    BY <2>2, <2>4, <2>6 DEF Then
<1> QED
  BY <1>1, <1>2 DEF Fits

LEMMA FitsSays ==
    ASSUME NEW f \in DOMAIN Options, NEW arguments, NEW i, Fits(f, arguments, i)
    PROVE  /\ Spoken(f, arguments, i).name \in DOMAIN Options[f]
           /\ Spoken(f, arguments, i).name = arguments[i].word
           /\ f \in {"scan", "monitor"} /\ Spoken(f, arguments, i).name \in Presets(f)
                => Spoken(f, arguments, i).word \in Unsigned
<1> DEFINE n == Spoken(f, arguments, i).name
           w == Spoken(f, arguments, i).word
           option == Options[f][arguments[i].word]
<1>1. /\ n = arguments[i].word
      /\ n \in DOMAIN Options[f]
      /\ option.kind \in {"flag", "word"} \/ Accepts(option.kind, w)
  <2>1. CASE Alone(f, arguments[i])
    <3>1. n = arguments[i].word /\ w = Value(arguments[i])
      BY <2>1, SpokenAlone DEF Told
    <3> HIDE DEF n, w
    <3> QED
      BY <2>1, <3>1 DEF Alone, Value
  <2>2. CASE Waits(f, arguments[i]) /\ Accepts(option.kind, arguments[i + 1].word)
    <3>1. n = arguments[i].word /\ w = arguments[i + 1].word
      BY <2>2, SpokenWaiting DEF Told
    <3> HIDE DEF n, w
    <3> QED
      BY <2>2, <3>1 DEF Waits
  <2> QED
    BY <2>1, <2>2 DEF Fits
<1> HIDE DEF w
<1>2. ASSUME f \in {"scan", "monitor"}, n \in Presets(f)
      PROVE  w \in Unsigned
  <2>1. option.kind \in {"positive", "natural", "millis"}
    BY <1>1, <1>2, PresetNumbers
  <2>2. Accepts(option.kind, w)
    BY <1>1, <2>1
  <2> HIDE DEF option
  <2> QED
    BY <2>1, <2>2 DEF Accepts, Accepted, Unsigned
<1> QED
  BY <1>1, <1>2 DEF w

LEMMA AloneFits ==
    ASSUME NEW f \in DOMAIN Options, NEW arguments, NEW i, NEW e,
           Alone(f, arguments[i])
    PROVE  /\ Fits(f, arguments, i) /\ Width(f, arguments[i]) = 1
           /\ Spoken(f, arguments, i).name = arguments[i].word
           /\ Then(f, e, arguments, i)
                = Set(f, e, arguments[i].word, Value(arguments[i]))
<1>1. /\ Spoken(f, arguments, i).name = arguments[i].word
      /\ Spoken(f, arguments, i).word = Value(arguments[i])
  BY SpokenAlone DEF Told
<1> QED
  BY <1>1, WidthOfAlone DEF Fits, Then

LEMMA WaitingFits ==
    ASSUME NEW f \in DOMAIN Options, NEW arguments, NEW i, NEW e,
           Waits(f, arguments[i]),
           Accepts(Options[f][arguments[i].word].kind, arguments[i + 1].word)
    PROVE  /\ Fits(f, arguments, i) /\ Width(f, arguments[i]) = 2
           /\ Spoken(f, arguments, i).name = arguments[i].word
           /\ Then(f, e, arguments, i)
                = Set(f, e, arguments[i].word, arguments[i + 1].word)
<1>1. /\ Spoken(f, arguments, i).name = arguments[i].word
      /\ Spoken(f, arguments, i).word = arguments[i + 1].word
  BY SpokenWaiting DEF Told
<1> QED
  BY <1>1, WidthOfWaiting DEF Fits, Then

-----------------------------------------------------------------------------
(* Options in either order: where the loop stands on the line.             *)

\* The place of the second option of a line.
Second(f, arguments) == 1 + Width(f, arguments[1])

\* The first two options of the line are those the loop has taken.
BothFit(f, arguments, said) ==
    /\ Fits(f, arguments, 1) /\ Fits(f, arguments, Second(f, arguments))
    /\ said[1] = Spoken(f, arguments, 1).name
    /\ said[2] = Spoken(f, arguments, Second(f, arguments)).name

EnvOne(f, arguments) == Then(f, <<>>, arguments, 1)
EnvTwo(f, arguments) == Then(f, EnvOne(f, arguments), arguments, Second(f, arguments))

\* Having taken k arguments the loop is before the first option or in it,
\* before the second or in it, or after the second.
Reading(f, arguments, k, p, e, said) ==
    /\ Len(said) = 0 =>
          /\ e = <<>>
          /\ p = None => k = 0
          /\ p # None => k = 1 /\ p = arguments[1].word /\ Waits(f, arguments[1])
    /\ Len(said) = 1 =>
          /\ e = EnvOne(f, arguments) /\ Fits(f, arguments, 1)
          /\ said[1] = Spoken(f, arguments, 1).name
          /\ p = None => k + 1 = Second(f, arguments)
          /\ p # None => /\ k = Second(f, arguments) /\ p = arguments[k].word
                         /\ Waits(f, arguments[k])
    /\ Len(said) = 2 /\ p = None =>
          e = EnvTwo(f, arguments) /\ BothFit(f, arguments, said)

LEMMA ReadingStep ==
    ASSUME NEW f \in DOMAIN Options, NEW arguments, NEW k \in Nat,
           NEW p, NEW e, NEW said \in Seq(Words),
           Reading(f, arguments, k, p, e, said),
           NEW new, new = Argument(f, State(p, e, said), arguments[k + 1]), ~new.refused,
           arguments[k + 1].word \in Words, p \in Words
    PROVE  Reading(f, arguments, k + 1, new.pending, new.env, new.said)
<1> DEFINE arg == arguments[k + 1]
           second == Second(f, arguments)
<1>1. \A q, x, y : /\ State(q, x, y).pending = q /\ State(q, x, y).env = x
                   /\ State(q, x, y).said = y
  BY DEF State
<1>2. Len(said) \in Nat
  BY LenProperties
<1>3. \A n \in Words : /\ Len(Append(said, n)) = Len(said) + 1
                       /\ Append(said, n)[Len(said) + 1] = n
                       /\ Len(said) = 1 => Append(said, n)[1] = said[1]
  BY <1>2, AppendProperties
<1>4. CASE /\ p # None
           /\ Accepts(Options[f][p].kind, arg.word)
           /\ new = State(None, Set(f, e, p, arg.word), Append(said, p))
  <2> DEFINE x == Set(f, e, p, arg.word)
             more == Append(said, p)
  <2>1. new.pending = None /\ new.env = x /\ new.said = more
    <3> HIDE DEF x, more
    <3>1. new = State(None, x, more)
      BY <1>4 DEF x, more
    <3> QED
      BY <1>1, <3>1
  <2>2. ASSUME Len(said) = 0
        PROVE  Reading(f, arguments, k + 1, None, x, more)
    <3>1. k = 1 /\ p = arguments[1].word /\ Waits(f, arguments[1]) /\ e = <<>>
      BY <1>4, <2>2 DEF Reading
    <3>2. Waits(f, arguments[k]) /\ Accepts(Options[f][arguments[k].word].kind, arg.word)
      BY <1>4, <3>1
    <3>3. /\ Fits(f, arguments, 1) /\ Width(f, arguments[1]) = 2
          /\ Spoken(f, arguments, 1).name = p
          /\ Then(f, e, arguments, 1) = x
      <4>1. /\ Fits(f, arguments, k) /\ Width(f, arguments[k]) = 2
            /\ Spoken(f, arguments, k).name = arguments[k].word
            /\ Then(f, e, arguments, k) = Set(f, e, arguments[k].word, arg.word)
        BY <3>2, WaitingFits
      <4> QED
        BY <3>1, <4>1
    <3>4. x = EnvOne(f, arguments)
      BY <3>1, <3>3 DEF EnvOne
    <3>5. k + 1 + 1 = second
      BY <3>1, <3>3 DEF Second
    <3> QED
      BY <1>3, <2>2, <3>3, <3>4, <3>5 DEF Reading
  <2>3. ASSUME Len(said) = 1
        PROVE  Reading(f, arguments, k + 1, None, x, more)
    <3>1. /\ k = second /\ p = arguments[k].word /\ Waits(f, arguments[k])
          /\ e = EnvOne(f, arguments) /\ Fits(f, arguments, 1)
          /\ said[1] = Spoken(f, arguments, 1).name
      BY <1>4, <2>3 DEF Reading
    <3>2. /\ Fits(f, arguments, k)
          /\ Spoken(f, arguments, k).name = p
          /\ Then(f, e, arguments, k) = x
      <4>1. Waits(f, arguments[k]) /\ Accepts(Options[f][arguments[k].word].kind, arg.word)
        BY <1>4, <3>1
      <4>2. /\ Fits(f, arguments, k)
            /\ Spoken(f, arguments, k).name = arguments[k].word
            /\ Then(f, e, arguments, k) = Set(f, e, arguments[k].word, arg.word)
        BY <4>1, WaitingFits
      <4> QED
        BY <3>1, <4>2
    <3>3. x = EnvTwo(f, arguments)
      BY <3>1, <3>2 DEF EnvTwo
    <3>4. BothFit(f, arguments, more)
      BY <1>3, <2>3, <3>1, <3>2 DEF BothFit
    <3> QED
      BY <1>3, <2>3, <3>3, <3>4 DEF Reading
  <2>4. ASSUME Len(said) > 1
        PROVE  Reading(f, arguments, k + 1, None, x, more)
    <3>1. Len(more) > 2
      BY <1>2, <1>3, <2>4
    <3> QED
      BY <1>2, <3>1 DEF Reading
  <2>5. Len(said) = 0 \/ Len(said) = 1 \/ Len(said) > 1
    <3>1. PICK l \in Nat : l = Len(said)
      BY <1>2
    <3>2. l = 0 \/ l = 1 \/ l > 1
      OBVIOUS
    <3> QED
      BY <3>1, <3>2
  <2> HIDE DEF x, more
  <2> QED
    BY <2>1, <2>2, <2>3, <2>4, <2>5
<1>5. CASE p = None /\ Waits(f, arg) /\ new = State(arg.word, e, said)
  <2>1. new.pending = arg.word /\ new.env = e /\ new.said = said
    BY <1>1, <1>5
  <2>2. arg.word # None
    BY <1>5, HiddenNames DEF Waits, Open, Hidden
  <2>3. Reading(f, arguments, k + 1, arg.word, e, said)
    BY <1>5, <2>2 DEF Reading
  <2> QED
    BY <2>1, <2>3
<1>6. CASE /\ p = None /\ Alone(f, arg)
           /\ new = State(None, Set(f, e, arg.word, Value(arg)), Append(said, arg.word))
  <2> DEFINE x == Set(f, e, arg.word, Value(arg))
             more == Append(said, arg.word)
  <2>1. new.pending = None /\ new.env = x /\ new.said = more
    <3> HIDE DEF x, more
    <3>1. new = State(None, x, more)
      BY <1>6 DEF x, more
    <3> QED
      BY <1>1, <3>1
  <2>2. ASSUME Len(said) = 0
        PROVE  Reading(f, arguments, k + 1, None, x, more)
    <3>1. k = 0 /\ e = <<>>
      BY <1>6, <2>2 DEF Reading
    <3>2. arg = arguments[1]
      BY <3>1
    <3>3. /\ Fits(f, arguments, 1) /\ Width(f, arguments[1]) = 1
          /\ Spoken(f, arguments, 1).name = arg.word
          /\ Then(f, e, arguments, 1) = x
      BY <1>6, <3>2, AloneFits
    <3>4. x = EnvOne(f, arguments)
      BY <3>1, <3>3 DEF EnvOne
    <3>5. k + 1 + 1 = second
      BY <3>1, <3>3 DEF Second
    <3> HIDE DEF x
    <3> QED
      BY <1>3, <2>2, <3>3, <3>4, <3>5 DEF Reading
  <2>3. ASSUME Len(said) = 1
        PROVE  Reading(f, arguments, k + 1, None, x, more)
    <3>1. /\ k + 1 = second /\ e = EnvOne(f, arguments) /\ Fits(f, arguments, 1)
          /\ said[1] = Spoken(f, arguments, 1).name
      BY <1>6, <2>3 DEF Reading
    <3>2. /\ Fits(f, arguments, k + 1)
          /\ Spoken(f, arguments, k + 1).name = arg.word
          /\ Then(f, e, arguments, k + 1) = x
      BY <1>6, AloneFits
    <3>3. x = EnvTwo(f, arguments)
      BY <3>1, <3>2 DEF EnvTwo
    <3>4. BothFit(f, arguments, more)
      BY <1>3, <2>3, <3>1, <3>2 DEF BothFit
    <3> HIDE DEF x
    <3> QED
      BY <1>3, <2>3, <3>3, <3>4 DEF Reading
  <2>4. ASSUME Len(said) > 1
        PROVE  Reading(f, arguments, k + 1, None, x, more)
    <3>1. Len(more) > 2
      BY <1>2, <1>3, <2>4
    <3> QED
      BY <1>2, <3>1 DEF Reading
  <2>5. Len(said) = 0 \/ Len(said) = 1 \/ Len(said) > 1
    <3>1. PICK l \in Nat : l = Len(said)
      BY <1>2
    <3>2. l = 0 \/ l = 1 \/ l > 1
      OBVIOUS
    <3> QED
      BY <3>1, <3>2
  <2> HIDE DEF x, more
  <2> QED
    BY <2>1, <2>2, <2>3, <2>4, <2>5
<1> QED
  BY <1>4, <1>5, <1>6, ArgumentCases

\* The loop has taken the first options of the line, and the checks see what
\* those two set.
PairInv ==
    /\ phase = "arguments" =>
          Reading(line.family, line.arguments, at, loop.pending, loop.env, loop.said)
    /\ phase = "checks" /\ Len(loop.said) = 2 =>
          /\ BothFit(line.family, line.arguments, loop.said)
          /\ loop.env = Finish(line.family, EnvTwo(line.family, line.arguments))

LEMMA PairInit ==
    Init => PairInv
<1> SUFFICES ASSUME Init PROVE PairInv
  OBVIOUS
<1>1. /\ phase = "arguments" /\ at = 0
      /\ loop.pending = None /\ loop.env = <<>> /\ loop.said = <<>>
  BY DEF Init, Loop
<1>2. Len(<<>>) = 0
  BY EmptySeq
<1>3. Reading(line.family, line.arguments, 0, None, <<>>, <<>>)
  BY <1>2 DEF Reading
<1> QED
  BY <1>1, <1>3 DEF PairInv

LEMMA ReadKeepsPair ==
    ASSUME line \in UNION Lines, LoopInv, PairInv, ReadArgument
    PROVE  PairInv'
<1> DEFINE f == line.family
           A == line.arguments
<1>1. /\ line' = line /\ phase = "arguments" /\ phase' = phase /\ at' = at + 1
      /\ loop' = Argument(f, loop, A[at + 1]) /\ ~loop'.refused /\ at < Len(A)
  BY DEF ReadArgument, More, Taken
<1>2. f \in DOMAIN Options /\ A \in Seq([word : STRING, value : STRING])
  BY LineFacts
<1>3. A[at + 1] \in [word : STRING, value : STRING]
  <2>1. Len(A) \in Nat /\ DOMAIN A = 1 .. Len(A)
    BY <1>2, LenProperties
  <2>2. at + 1 \in DOMAIN A
    BY <1>1, <2>1 DEF LoopInv
  <2> QED
    BY <1>2, <2>2, Element
<1>4. A[at + 1].word \in Words
  BY <1>3 DEF Words
<1>5. PICK p, e, d, new : p = loop.pending /\ e = loop.env /\ d = loop.said /\ new = loop'
  OBVIOUS
<1>6. loop = State(p, e, d) /\ p \in Words /\ d \in Seq(Words) /\ at \in Nat
  BY <1>5 DEF LoopInv, Faithful, State
<1>7. PICK k \in Nat : k = at
  BY <1>6
<1>8. Reading(f, A, k, p, e, d)
  BY <1>1, <1>5, <1>7 DEF PairInv
<1>9. new = Argument(f, State(p, e, d), A[k + 1]) /\ ~new.refused /\ A[k + 1].word \in Words
  BY <1>1, <1>4, <1>5, <1>6, <1>7
<1>10. Reading(f, A, k + 1, new.pending, new.env, new.said)
  BY <1>2, <1>6, <1>8, <1>9, ReadingStep
<1> QED
  BY <1>1, <1>5, <1>7, <1>10 DEF PairInv

LEMMA AcceptKeepsPair ==
    ASSUME LoopInv, PairInv, AcceptArguments
    PROVE  PairInv'
<1>1. /\ line' = line /\ phase = "arguments" /\ phase' = "checks" /\ loop.pending = None
      /\ loop' = [loop EXCEPT !.env = Finish(line.family, loop.env)]
  BY DEF AcceptArguments
<1>2. PICK p, e, d : loop = [refused |-> FALSE, pending |-> p, env |-> e, said |-> d]
  BY DEF LoopInv, Faithful
<1> DEFINE new == Finish(line.family, e)
<1>3. loop.env = e /\ loop.said = d
  BY <1>2
<1>4. loop' = [loop EXCEPT !.env = new]
  BY <1>1, <1>3
<1> HIDE DEF new
<1>5. loop' = [refused |-> FALSE, pending |-> p, env |-> new, said |-> d]
  BY <1>2, <1>4
<1>6. loop'.env = new /\ loop'.said = d
  BY <1>5
<1>7. Len(d) = 2 => /\ e = EnvTwo(line.family, line.arguments)
                    /\ BothFit(line.family, line.arguments, d)
  BY <1>1, <1>3 DEF PairInv, Reading
<1> QED
  BY <1>1, <1>6, <1>7 DEF PairInv, new

LEMMA PairStep ==
    line \in UNION Lines /\ LoopInv /\ PairInv /\ [Next]_vars => PairInv'
<1> SUFFICES ASSUME line \in UNION Lines, LoopInv, PairInv, [Next]_vars PROVE PairInv'
  OBVIOUS
<1>1. CASE ReadArgument
  BY <1>1, ReadKeepsPair
<1>2. CASE AcceptArguments
  BY <1>2, AcceptKeepsPair
<1>3. CASE UNCHANGED vars
  BY <1>3 DEF vars, PairInv
<1>4. ASSUME RefuseArgument \/ RefuseLoop \/ RefuseUse \/ Dispatch \/ CallSucceeds
             \/ CallFailsUnnoticed \/ CallFails \/ Finished
      PROVE  phase' \in {"handler", "exited"}
  BY <1>4 DEF RefuseArgument, RefuseLoop, RefuseUse, Dispatch, CallSucceeds,
     CallFailsUnnoticed, CallFails, Finished, Exit
<1>5. CASE phase' \in {"handler", "exited"}
  BY <1>5 DEF PairInv
<1> QED
  BY <1>1, <1>2, <1>3, <1>4, <1>5 DEF Next

\* The loop takes the options of the line one after the other.
THEOREM PairInvariant == Spec => []PairInv
<1>1. RunInv => line \in UNION Lines
  BY DEF RunInv
<1> QED
  BY <1>1, PairInit, PairStep, RunInvariant, LoopInvariant, PTL DEF Spec

LEMMA PairCommutes ==
    ASSUME line \in UNION Lines, PairInv
    PROVE  OptionsCommute
<1> DEFINE f == line.family
           A == line.arguments
           second == 1 + Width(f, A[1])
           swapped == TakeAt(f, TakeAt(f, Loop, A, second), A, 1)
<1> SUFFICES ASSUME phase = "checks", Len(loop.said) = 2, loop.said[1] # loop.said[2]
             PROVE  /\ ~swapped.refused /\ swapped.pending = None
                    /\ (Finish(f, swapped.env) = env)
                         <=> ~OrderMatters(f, Spoken(f, A, 1), Spoken(f, A, second))
  BY DEF OptionsCommute
<1>1. f \in DOMAIN Options
  BY LineFacts
<1>2. /\ Fits(f, A, 1) /\ Fits(f, A, second)
      /\ loop.said[1] = Spoken(f, A, 1).name /\ loop.said[2] = Spoken(f, A, second).name
      /\ env = Finish(f, EnvTwo(f, A))
  BY DEF PairInv, BothFit, Second, env
<1> DEFINE n == Spoken(f, A, 1).name
           w == Spoken(f, A, 1).word
           m == Spoken(f, A, second).name
           v == Spoken(f, A, second).word
<1>3. Spoken(f, A, 1) = Told(n, w) /\ Spoken(f, A, second) = Told(m, v)
  BY DEF Spoken, Told
<1>4. /\ n \in DOMAIN Options[f] /\ m \in DOMAIN Options[f] /\ n # m
      /\ f \in {"scan", "monitor"} /\ n \in Presets(f) => w \in Unsigned
      /\ f \in {"scan", "monitor"} /\ m \in Presets(f) => v \in Unsigned
  BY <1>1, <1>2, FitsSays
<1> DEFINE left == Then(f, Then(f, <<>>, A, second), A, 1)
           said == Append(Append(<<>>, m), n)
<1>5. swapped = State(None, left, said)
  <2>1. Loop = State(None, <<>>, <<>>)
    BY DEF Loop, State
  <2>2. TakeAt(f, State(None, <<>>, <<>>), A, second)
          = State(None, Then(f, <<>>, A, second), Append(<<>>, m))
    <3>1. \A e, d : TakeAt(f, State(None, e, d), A, second)
                      = State(None, Then(f, e, A, second), Append(d, m))
      BY <1>1, <1>2, TakeAtFits
    <3> HIDE DEF second, m
    <3> QED
      BY <3>1, Zenon
  <2>3. TakeAt(f, State(None, Then(f, <<>>, A, second), Append(<<>>, m)), A, 1)
          = State(None, left, said)
    BY <1>1, <1>2, TakeAtFits
  <2> QED
    BY <2>1, <2>2, <2>3
<1>6. /\ left = Set(f, Set(f, <<>>, m, v), n, w)
      /\ EnvTwo(f, A) = Set(f, Set(f, <<>>, n, w), m, v)
  BY DEF Then, EnvTwo, EnvOne, Second
<1> HIDE DEF swapped, left, said, n, w, m, v
<1>7. ~swapped.refused /\ swapped.pending = None /\ swapped.env = left
  BY <1>5 DEF State
<1>8. (Finish(f, left) = Finish(f, EnvTwo(f, A))) <=> ~OrderMatters(f, Told(n, w), Told(m, v))
  BY <1>1, <1>4, <1>6, PairsCommute
<1> QED
  BY <1>2, <1>3, <1>7, <1>8

\* Two different options with their values, whatever the command and the words,
\* are accepted in either order and set the same in both exactly when they are
\* no opposites, no window with its days and no secret of the API with that of
\* the request; so a profile never overrides what the line says.
THEOREM OptionsAlwaysCommute == Spec => []OptionsCommute
<1>1. RunInv => line \in UNION Lines
  BY DEF RunInv
<1>2. line \in UNION Lines /\ PairInv => OptionsCommute
  BY PairCommutes
<1> QED
  BY <1>1, <1>2, RunInvariant, PairInvariant, PTL

=============================================================================
