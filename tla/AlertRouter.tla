---------------------------- MODULE AlertRouter ----------------------------
(***************************************************************************)
(* The rate limit of alerts (send_alert in                                 *)
(* src/src/alerts/src/alert_router_stub.cpp).  Every command is a process  *)
(* of its own; what was sent lately is in a file of times, one line for    *)
(* each alert, that all of them read and append to without a lock.         *)
(***************************************************************************)
EXTENDS Naturals, Sequences, FiniteSets

CONSTANTS
    Processes,     \* commands that send alerts, again and again
    MaxPerMinute,  \* max_events_per_minute
    Times,         \* the readings of the clock considered
    MaxAlerts,     \* bound: alerts sent
    MaxTroubles    \* bound: how often the clock goes back
                   \* or a file is not opened

VARIABLES
    clock,         \* system_clock, in seconds
    sent,          \* the alerts sent so far
    pc,            \* where each process is in send_alert
    now,           \* now_seconds of each process
    since,         \* history: how often the clock had gone back at that time
    setbacks,      \* history: how often the clock went back
    failures       \* history: how often a file was not opened

vars == <<clock, sent, pc, now, since, setbacks, failures>>

ASSUME ProcessesAssumption == IsFiniteSet(Processes)
ASSUME LimitAssumption == MaxPerMinute \in Nat
ASSUME ClockAssumption == Times \subseteq Nat /\ MaxAlerts \in Nat /\ MaxTroubles \in Nat

Window == 60

\* An alert has the time its process took; the lines of the file
\* alerts-rate-state.txt are the times of those that were written.  History:
\* how often the clock had gone back when that time was taken, and whether
\* the process could read the file.
Alert == [time : Nat, since : Nat, written : BOOLEAN, checked : BOOLEAN]

\* The lines of the file that a process which took the time t counts.  The
\* difference is unsigned: a line of the future is no recent one.
Recent(t) ==
    {i \in DOMAIN sent : sent[i].written /\ sent[i].time <= t /\ t - sent[i].time <= Window}

\* Fault: an alert more is let through.
AcceptOneMore(count) == count <= MaxPerMinute + 1

\* is_retry_safe_rate_limit.
Accept(count) == count <= MaxPerMinute

TypeOK ==
    /\ clock \in Nat
    /\ sent \in Seq(Alert)
    /\ pc \in [Processes -> {"idle", "timed", "accepted", "unchecked"}]
    /\ now \in [Processes -> Nat] /\ since \in [Processes -> Nat]
    /\ setbacks \in Nat /\ failures \in Nat

-----------------------------------------------------------------------------
Troubled == setbacks + failures >= MaxTroubles

Return(p) ==
    /\ pc' = [pc EXCEPT ![p] = "idle"]
    /\ now' = [now EXCEPT ![p] = 0] /\ since' = [since EXCEPT ![p] = 0]

\* An alert without a message and a limit of zero are refused before this.
\* A process takes the time before it reads the file.
TakeTime(p) ==
    /\ pc[p] = "idle" /\ Len(sent) < MaxAlerts
    /\ now' = [now EXCEPT ![p] = clock] /\ since' = [since EXCEPT ![p] = setbacks]
    /\ pc' = [pc EXCEPT ![p] = "timed"]
    /\ UNCHANGED <<clock, sent, setbacks, failures>>

ReadTimes(p) ==
    /\ pc[p] = "timed"
    /\ IF Accept(Cardinality(Recent(now[p])))
       THEN pc' = [pc EXCEPT ![p] = "accepted"] /\ UNCHANGED <<now, since>>
       ELSE Return(p)
    /\ UNCHANGED <<clock, sent, setbacks, failures>>

\* A file that cannot be opened counts as empty.
ReadFails(p) ==
    /\ pc[p] = "timed" /\ ~Troubled
    /\ pc' = [pc EXCEPT ![p] = "unchecked"]
    /\ failures' = failures + 1
    /\ UNCHANGED <<clock, sent, now, since, setbacks>>

Send(p, written) ==
    /\ pc[p] \in {"accepted", "unchecked"}
    /\ sent' = Append(sent, [time |-> now[p], since |-> since[p], written |-> written,
                             checked |-> pc[p] = "accepted"])
    /\ Return(p)
    /\ UNCHANGED <<clock, setbacks>>

\* append_event_time writes the time taken at first, however long ago.  The
\* alert is then sent and written to a history that nothing reads.
AppendTime(p) == Send(p, TRUE) /\ UNCHANGED failures

\* Nothing is reported when the time cannot be written: the alert is sent.
AppendFails(p) == Send(p, FALSE) /\ ~Troubled /\ failures' = failures + 1

\* The command is killed; the file keeps what was written.
Kill(p) ==
    /\ pc[p] # "idle"
    /\ Return(p)
    /\ UNCHANGED <<clock, sent, setbacks, failures>>

Advance(t) ==
    /\ t > clock
    /\ clock' = t
    /\ UNCHANGED <<sent, pc, now, since, setbacks, failures>>

\* The clock is set back.
SetBack(t) ==
    /\ t < clock /\ ~Troubled
    /\ clock' = t
    /\ setbacks' = setbacks + 1
    /\ UNCHANGED <<sent, pc, now, since, failures>>

Init ==
    /\ clock \in Times /\ sent = <<>>
    /\ pc = [p \in Processes |-> "idle"]
    /\ now = [p \in Processes |-> 0] /\ since = [p \in Processes |-> 0]
    /\ setbacks = 0 /\ failures = 0

Next ==
    \/ \E p \in Processes :
         \/ TakeTime(p) \/ ReadTimes(p) \/ ReadFails(p)
         \/ AppendTime(p) \/ AppendFails(p) \/ Kill(p)
    \/ \E t \in Times : Advance(t) \/ SetBack(t)

Spec == Init /\ [][Next]_vars

-----------------------------------------------------------------------------
(* Properties.                                                             *)

\* The alerts of the minute from w on, in or out of the file.
InWindow(w) == {i \in DOMAIN sent : w <= sent[i].time /\ sent[i].time <= w + Window}

\* Without a lock and with <= for the limit, a minute sees at most one alert
\* of each process more than the limit; each time the clock goes back opens
\* the limit once more, since a time of the future is not counted, and each
\* file that is not opened lets one alert through.
OverrunBounded ==
    \A i \in DOMAIN sent :
        Cardinality(InWindow(sent[i].time))
            <= (setbacks + 1) * (MaxPerMinute + Cardinality(Processes)) + failures

\* max_events_per_minute, and the message "max ..." that names it, promise
\* that no minute sees more alerts while the clock and the files behave.
LimitKept ==
    setbacks = 0 /\ failures = 0 =>
        \A i \in DOMAIN sent : Cardinality(InWindow(sent[i].time)) <= MaxPerMinute
=============================================================================
