------------------------- MODULE AlertRouterProofs -------------------------
(***************************************************************************)
(* The overrun of the alert limit is bounded, for every set of processes,  *)
(* limit and readings of the clock, over clocks set back and files that    *)
(* cannot be opened.  The time between two set-backs is a stretch; the     *)
(* inductive invariant counts, for every minute and the stretches up to    *)
(* each, the alerts sent in it and the processes that may still send one.  *)
(***************************************************************************)
EXTENDS AlertRouter, FiniteSetTheorems, TLAPS

Limit == MaxPerMinute + Cardinality(Processes)

\* The alerts of a minute that the file was asked about and kept, and whose
\* time was taken in one of the stretches K.
Counted(w, K) ==
    {i \in DOMAIN sent :
        /\ w <= sent[i].time /\ sent[i].time <= w + Window
        /\ sent[i].since \in K /\ sent[i].written /\ sent[i].checked}

\* The processes that may yet send such an alert.
Waiting(w, K) ==
    {p \in Processes :
        /\ w <= now[p] /\ now[p] <= w + Window /\ since[p] \in K
        /\ \/ pc[p] = "accepted"
           \/ pc[p] = "timed" /\ Cardinality(Recent(now[p])) <= MaxPerMinute}

Load(w, K) == Cardinality(Counted(w, K)) + Cardinality(Waiting(w, K))

\* The alerts and the processes a file that was not opened let through.
Lapsed == {i \in DOMAIN sent : ~(sent[i].written /\ sent[i].checked)}
Lapsing == {p \in Processes : pc[p] = "unchecked"}

\* Every time was taken in a stretch there was, and one of this stretch is
\* not of the future.
Past ==
    /\ \A i \in DOMAIN sent :
          /\ sent[i].since <= setbacks
          /\ sent[i].since = setbacks => sent[i].time <= clock
    /\ \A p \in Processes :
          /\ since[p] <= setbacks
          /\ since[p] = setbacks => now[p] <= clock

\* Each stretch has one limit to spend.
Budget == \A w \in Nat : \A k \in 0..setbacks : Load(w, 0..k) <= (k + 1) * Limit

Lapses == Cardinality(Lapsed) + Cardinality(Lapsing) <= failures

Inv == TypeOK /\ Past /\ Budget /\ Lapses

-----------------------------------------------------------------------------
LEMMA Subsets ==
    ASSUME NEW S, IsFiniteSet(S), NEW T \in SUBSET S
    PROVE  /\ IsFiniteSet(T)
           /\ Cardinality(T) \in Nat /\ Cardinality(S) \in Nat
           /\ Cardinality(T) <= Cardinality(S)
BY FS_Subset, FS_CardinalityType

\* A set covered by two has no more members than the two together.
LEMMA Covered ==
    ASSUME NEW S, IsFiniteSet(S), NEW T, IsFiniteSet(T), NEW U \in SUBSET (S \cup T)
    PROVE  /\ IsFiniteSet(U)
           /\ Cardinality(U) \in Nat /\ Cardinality(S) \in Nat /\ Cardinality(T) \in Nat
           /\ Cardinality(U) <= Cardinality(S) + Cardinality(T)
<1>1. IsFiniteSet(S \cup T) /\ IsFiniteSet(S \cap T) BY FS_Union, FS_Subset
<1>2. Cardinality(S \cup T) = Cardinality(S) + Cardinality(T) - Cardinality(S \cap T)
  BY FS_Union
<1>3. /\ IsFiniteSet(U) /\ Cardinality(U) \in Nat
      /\ Cardinality(U) <= Cardinality(S \cup T)
  BY <1>1, Subsets
<1>4. /\ Cardinality(S) \in Nat /\ Cardinality(T) \in Nat
      /\ Cardinality(S \cap T) \in Nat
  BY <1>1, FS_CardinalityType
<1> QED BY <1>2, <1>3, <1>4

\* The sets that are counted are finite.
LEMMA Counts ==
    ASSUME TypeOK
    PROVE  /\ IsFiniteSet(DOMAIN sent) /\ IsFiniteSet(Lapsed) /\ IsFiniteSet(Lapsing)
           /\ \A t \in Nat : /\ IsFiniteSet(Recent(t))
                             /\ Cardinality(Recent(t)) \in Nat
           /\ Cardinality(Processes) \in Nat /\ Limit \in Nat
<1>1. IsFiniteSet(DOMAIN sent)
  <2>1. DOMAIN sent = 1..Len(sent) /\ Len(sent) \in Nat BY DEF TypeOK
  <2> QED BY <2>1, FS_Interval
<1>2. \A t \in Nat : Recent(t) \in SUBSET DOMAIN sent BY DEF Recent
<1>5. Lapsed \in SUBSET DOMAIN sent /\ Lapsing \in SUBSET Processes BY DEF Lapsed, Lapsing
<1>6. Cardinality(Processes) \in Nat /\ Limit \in Nat
  BY FS_CardinalityType, ProcessesAssumption, LimitAssumption DEF Limit
<1>9. \A t \in Nat : IsFiniteSet(Recent(t)) /\ Cardinality(Recent(t)) \in Nat
  BY <1>1, <1>2, Subsets
<1>10. IsFiniteSet(Lapsed) /\ IsFiniteSet(Lapsing)
  BY <1>1, <1>5, Subsets, ProcessesAssumption
<1> QED BY <1>1, <1>6, <1>9, <1>10

LEMMA LoadCounts ==
    ASSUME TypeOK, NEW w, NEW K
    PROVE  /\ IsFiniteSet(Counted(w, K)) /\ Cardinality(Counted(w, K)) \in Nat
           /\ IsFiniteSet(Waiting(w, K)) /\ Cardinality(Waiting(w, K)) \in Nat
           /\ Load(w, K) \in Nat
<1>1. Counted(w, K) \in SUBSET DOMAIN sent BY DEF Counted
<1>2. Waiting(w, K) \in SUBSET Processes BY DEF Waiting
<1>3. /\ IsFiniteSet(Counted(w, K)) /\ Cardinality(Counted(w, K)) \in Nat
      /\ IsFiniteSet(Waiting(w, K)) /\ Cardinality(Waiting(w, K)) \in Nat
  BY <1>1, <1>2, Counts, Subsets, ProcessesAssumption
<1> QED BY <1>3 DEF Load

LEMMA NextLoadCounts ==
    ASSUME TypeOK', NEW w, NEW K
    PROVE  /\ Cardinality(Counted(w, K)') \in Nat /\ Cardinality(Waiting(w, K)') \in Nat
           /\ Load(w, K)' \in Nat
<1>1. DOMAIN sent' = 1..Len(sent') /\ Len(sent') \in Nat BY DEF TypeOK
<1>2. IsFiniteSet(DOMAIN sent') BY <1>1, FS_Interval
<1>3. Counted(w, K)' \in SUBSET DOMAIN sent' BY DEF Counted
<1>4. Waiting(w, K)' \in SUBSET Processes BY DEF Waiting
<1>5. Cardinality(Counted(w, K)') \in Nat /\ Cardinality(Waiting(w, K)') \in Nat
  BY <1>2, <1>3, <1>4, Subsets, ProcessesAssumption
<1> QED BY <1>5 DEF Load

LEMMA Alerts ==
    ASSUME TypeOK, NEW i \in DOMAIN sent
    PROVE  /\ sent[i] \in Alert
           /\ sent[i].time \in Nat /\ sent[i].since \in Nat
<1>1. sent[i] \in Alert BY DEF TypeOK
<1> QED BY <1>1 DEF Alert

\* What sending an alert makes of the alerts.
LEMMA Sent ==
    ASSUME TypeOK, NEW p \in Processes, NEW written \in BOOLEAN, Send(p, written)
    PROVE  /\ sent' \in Seq(Alert)
           /\ DOMAIN sent' = DOMAIN sent \cup {Len(sent) + 1}
           /\ Len(sent) + 1 \notin DOMAIN sent
           /\ \A i \in DOMAIN sent : sent'[i] = sent[i]
           /\ sent'[Len(sent) + 1].time = now[p]
           /\ sent'[Len(sent) + 1].since = since[p]
           /\ sent'[Len(sent) + 1].written = written
           /\ sent'[Len(sent) + 1].checked = (pc[p] = "accepted")
<1> DEFINE a == [time |-> now[p], since |-> since[p], written |-> written,
                 checked |-> pc[p] = "accepted"]
<1>1. now[p] \in Nat /\ since[p] \in Nat BY DEF TypeOK
<1>2. a \in Alert BY <1>1 DEF Alert
<1>3. /\ a.time = now[p] /\ a.since = since[p] /\ a.written = written
      /\ a.checked = (pc[p] = "accepted")
  OBVIOUS
<1>4. sent' = Append(sent, a) /\ sent \in Seq(Alert) BY DEF Send, TypeOK
<1> HIDE DEF a
<1>5. /\ DOMAIN sent = 1..Len(sent) /\ Len(sent) \in Nat
      /\ sent' \in Seq(Alert) /\ DOMAIN sent' = 1..(Len(sent) + 1)
      /\ \A i \in 1..Len(sent) : sent'[i] = sent[i]
      /\ sent'[Len(sent) + 1] = a
  BY <1>2, <1>4
<1>6. /\ DOMAIN sent' = DOMAIN sent \cup {Len(sent) + 1}
      /\ Len(sent) + 1 \notin DOMAIN sent
  BY <1>5
<1> QED BY <1>3, <1>5, <1>6

\* What reading the file makes of a process.
LEMMA Read ==
    ASSUME NEW p \in Processes, ReadTimes(p)
    PROVE  /\ pc[p] = "timed" /\ UNCHANGED <<clock, sent, setbacks, failures>>
           /\ \/ /\ Accept(Cardinality(Recent(now[p])))
                 /\ pc' = [pc EXCEPT ![p] = "accepted"] /\ now' = now /\ since' = since
              \/ /\ pc' = [pc EXCEPT ![p] = "idle"]
                 /\ now' = [now EXCEPT ![p] = 0] /\ since' = [since EXCEPT ![p] = 0]
<1>1. CASE Accept(Cardinality(Recent(now[p]))) BY <1>1 DEF ReadTimes
<1>2. CASE ~Accept(Cardinality(Recent(now[p]))) BY <1>2 DEF ReadTimes, Return
<1> QED BY <1>1, <1>2

LEMMA TypeStep == TypeOK /\ [Next]_vars => TypeOK'
<1> USE ClockAssumption DEF Return
<1> SUFFICES ASSUME TypeOK, [Next]_vars PROVE TypeOK' OBVIOUS
<1>1. CASE UNCHANGED vars BY <1>1 DEF vars, TypeOK
<1>2. ASSUME NEW p \in Processes, TakeTime(p) PROVE TypeOK' BY <1>2 DEF TakeTime, TypeOK
<1>3. ASSUME NEW p \in Processes, ReadTimes(p) PROVE TypeOK'
  <2>1. CASE pc' = [pc EXCEPT ![p] = "accepted"] /\ now' = now /\ since' = since
    BY <1>3, <2>1, Read DEF TypeOK
  <2>2. CASE /\ pc' = [pc EXCEPT ![p] = "idle"]
             /\ now' = [now EXCEPT ![p] = 0] /\ since' = [since EXCEPT ![p] = 0]
    BY <1>3, <2>2, Read DEF TypeOK
  <2> QED BY <1>3, <2>1, <2>2, Read
<1>4. ASSUME NEW p \in Processes, ReadFails(p) PROVE TypeOK' BY <1>4 DEF ReadFails, TypeOK
<1>5. ASSUME NEW p \in Processes, NEW written \in BOOLEAN, Send(p, written),
             failures' \in Nat
      PROVE  TypeOK'
  <2>1. sent' \in Seq(Alert) BY <1>5, Sent
  <2> QED BY <1>5, <2>1 DEF Send, TypeOK
<1>6. ASSUME NEW p \in Processes, AppendTime(p) \/ AppendFails(p) PROVE TypeOK'
  <2>0. failures' = failures \/ failures' = failures + 1
    BY <1>6, Zenon DEF AppendTime, AppendFails
  <2>1. failures' \in Nat BY <2>0 DEF TypeOK
  <2> QED BY <1>5, <1>6, <2>1 DEF AppendTime, AppendFails
<1>7. ASSUME NEW p \in Processes, Kill(p) PROVE TypeOK' BY <1>7 DEF Kill, TypeOK
<1>8. ASSUME NEW t \in Times, Advance(t) PROVE TypeOK' BY <1>8 DEF Advance, TypeOK
<1>9. ASSUME NEW t \in Times, SetBack(t) PROVE TypeOK' BY <1>9 DEF SetBack, TypeOK
<1> QED BY <1>1, <1>2, <1>3, <1>4, <1>6, <1>7, <1>8, <1>9 DEF Next

-----------------------------------------------------------------------------
(* The stretches.                                                          *)

LEMMA PastStep ==
    ASSUME TypeOK, Past, [Next]_vars
    PROVE  Past'
<1> USE ClockAssumption DEF Past, TypeOK, Return
<1>1. CASE UNCHANGED vars BY <1>1 DEF vars
<1>2. ASSUME NEW p \in Processes, TakeTime(p) PROVE Past' BY <1>2 DEF TakeTime
<1>3. ASSUME NEW p \in Processes, ReadTimes(p) PROVE Past'
  <2>1. UNCHANGED <<clock, sent, setbacks>> BY <1>3, Read
  <2>2. \A q \in Processes : \/ now'[q] = now[q] /\ since'[q] = since[q]
                             \/ now'[q] = 0 /\ since'[q] = 0
    BY <1>3, Read
  <2> QED BY <2>1, <2>2
<1>4. ASSUME NEW p \in Processes, ReadFails(p) PROVE Past' BY <1>4 DEF ReadFails
<1>5. ASSUME NEW p \in Processes, NEW written \in BOOLEAN, Send(p, written) PROVE Past'
  <2>1. /\ clock' = clock /\ setbacks' = setbacks
        /\ now' = [now EXCEPT ![p] = 0] /\ since' = [since EXCEPT ![p] = 0]
    BY <1>5 DEF Send
  <2>2. \E n : /\ DOMAIN sent' = DOMAIN sent \cup {n}
               /\ \A i \in DOMAIN sent : sent'[i] = sent[i]
               /\ sent'[n].time = now[p] /\ sent'[n].since = since[p]
    BY ONLY <1>5, Sent, TypeOK
  <2> QED BY <2>1, <2>2
<1>6. ASSUME NEW p \in Processes, AppendTime(p) \/ AppendFails(p) PROVE Past'
  BY <1>5, <1>6 DEF AppendTime, AppendFails
<1>7. ASSUME NEW p \in Processes, Kill(p) PROVE Past' BY <1>7 DEF Kill
<1>8. ASSUME NEW t \in Times, Advance(t) PROVE Past'
  <2>1. /\ clock' \in Nat /\ clock' > clock /\ UNCHANGED <<sent, now, since, setbacks>>
    BY <1>8 DEF Advance
  <2>2. \A i \in DOMAIN sent : sent[i].time \in Nat BY Alerts
  <2> QED BY <2>1, <2>2
<1>9. ASSUME NEW t \in Times, SetBack(t) PROVE Past'
  <2>1. /\ clock' \in Nat /\ setbacks' = setbacks + 1 /\ sent' = sent /\ now' = now
        /\ since' = since
    BY <1>9 DEF SetBack
  <2>2. \A i \in DOMAIN sent : sent[i].since \in Nat BY Alerts
  <2> QED BY <2>1, <2>2
<1> QED BY <1>1, <1>2, <1>3, <1>4, <1>6, <1>7, <1>8, <1>9 DEF Next

-----------------------------------------------------------------------------
(* The load of a minute.                                                   *)

\* A step in which no alert is sent and no process becomes pending.
LEMMA NoMoreWaiting ==
    ASSUME TypeOK, TypeOK', UNCHANGED sent, NEW w \in Nat, NEW K,
           \A p \in Processes : \/ pc'[p] = pc[p] /\ now'[p] = now[p] /\ since'[p] = since[p]
                                \/ pc'[p] \in {"idle", "unchecked"}
                                \/ since'[p] \notin K
                                \/ /\ pc'[p] = "accepted" /\ now'[p] = now[p]
                                   /\ pc[p] = "timed" /\ since'[p] = since[p]
                                   /\ Cardinality(Recent(now[p])) <= MaxPerMinute
    PROVE  /\ Counted(w, K)' = Counted(w, K)
           /\ Load(w, K)' <= Load(w, K)
<1>1. Counted(w, K)' = Counted(w, K) BY DEF Counted
<1>2. Waiting(w, K)' \in SUBSET Waiting(w, K)
  <2> SUFFICES ASSUME NEW p \in Processes, p \in Waiting(w, K)' PROVE p \in Waiting(w, K)
    BY DEF Waiting
  <2>1. /\ pc'[p] \notin {"idle", "unchecked"} /\ since'[p] \in K
        /\ w <= now'[p] /\ now'[p] <= w + Window
    BY DEF Waiting
  <2>2. now'[p] = now[p] /\ since'[p] = since[p] BY <2>1
  <2>3. Recent(now[p])' = Recent(now[p]) BY <2>2 DEF Recent
  <2>4. CASE pc'[p] = pc[p] BY <2>1, <2>2, <2>3, <2>4 DEF Waiting
  <2>5. CASE pc[p] = "timed" /\ Cardinality(Recent(now[p])) <= MaxPerMinute
    BY <2>1, <2>2, <2>5 DEF Waiting
  <2> QED BY <2>1, <2>4, <2>5
<1>3. Cardinality(Waiting(w, K)') <= Cardinality(Waiting(w, K))
      /\ Cardinality(Waiting(w, K)') \in Nat
  BY <1>2, Counts, LoadCounts, NextLoadCounts, Subsets
<1>4. Cardinality(Waiting(w, K)) \in Nat /\ Cardinality(Counted(w, K)) \in Nat BY Counts, LoadCounts, NextLoadCounts
<1> QED BY <1>1, <1>3, <1>4 DEF Load

\* Who sends an alert is pending no longer; others count more than before.
LEMMA SendLoad ==
    ASSUME TypeOK, TypeOK', NEW p \in Processes, NEW written \in BOOLEAN, Send(p, written),
           NEW w \in Nat, NEW K
    PROVE  Load(w, K)' <= Load(w, K)
<1>1. PICK n : /\ DOMAIN sent' = DOMAIN sent \cup {n} /\ n \notin DOMAIN sent
               /\ \A i \in DOMAIN sent : sent'[i] = sent[i]
               /\ sent'[n].time = now[p] /\ sent'[n].since = since[p]
               /\ sent'[n].checked = (pc[p] = "accepted")
  BY Sent
<1>2. /\ pc[p] \in {"accepted", "unchecked"} /\ pc'[p] = "idle"
      /\ \A q \in Processes \ {p} : pc'[q] = pc[q] /\ now'[q] = now[q] /\ since'[q] = since[q]
  BY DEF Send, Return, TypeOK
<1>3. /\ IsFiniteSet(Counted(w, K)) /\ Cardinality(Counted(w, K)) \in Nat
      /\ IsFiniteSet(Waiting(w, K)) /\ Cardinality(Waiting(w, K)) \in Nat
  BY Counts, LoadCounts, NextLoadCounts
<1>4. Waiting(w, K)' \in SUBSET (Waiting(w, K) \ {p})
  <2> SUFFICES ASSUME NEW q \in Processes, q \in Waiting(w, K)'
               PROVE  q \in Waiting(w, K) \ {p}
    BY DEF Waiting
  <2>1. q # p BY <1>2 DEF Waiting
  <2>2. pc'[q] = pc[q] /\ now'[q] = now[q] /\ since'[q] = since[q] BY <1>2, <2>1
  <2>3. /\ Cardinality(Recent(now[q])) <= Cardinality(Recent(now[q])')
        /\ Cardinality(Recent(now[q])) \in Nat /\ Cardinality(Recent(now[q])') \in Nat
    <3>1. now[q] \in Nat /\ now'[q] \in Nat BY <2>2 DEF TypeOK
    <3>2. Recent(now[q]) \in SUBSET (Recent(now[q])') BY <1>1, <2>2 DEF Recent
    <3>3. IsFiniteSet(Recent(now[q])')
      <4>1. IsFiniteSet(DOMAIN sent \cup {n}) BY Counts, FS_AddElement
      <4>2. Recent(now[q])' \in SUBSET (DOMAIN sent \cup {n}) BY <1>1 DEF Recent
      <4> QED BY <4>1, <4>2, Subsets
    <3> QED BY <3>2, <3>3, Subsets
  <2> QED BY <2>1, <2>2, <2>3, LimitAssumption DEF Waiting
<1>5. /\ Cardinality(Waiting(w, K)') <= Cardinality(Waiting(w, K) \ {p})
      /\ Cardinality(Waiting(w, K)') \in Nat
      /\ Cardinality(Waiting(w, K) \ {p}) = IF p \in Waiting(w, K)
                                            THEN Cardinality(Waiting(w, K)) - 1
                                            ELSE Cardinality(Waiting(w, K))
  BY <1>3, <1>4, FS_RemoveElement, Subsets
<1>6. CASE n \in Counted(w, K)'
  <2>1. p \in Waiting(w, K) BY <1>1, <1>2, <1>6 DEF Counted, Waiting
  <2>2. Counted(w, K)' = Counted(w, K) \cup {n} BY <1>1, <1>6 DEF Counted
  <2>3. n \notin Counted(w, K) BY <1>1 DEF Counted
  <2>4. Cardinality(Counted(w, K)') = Cardinality(Counted(w, K)) + 1
    BY <1>3, <2>2, <2>3, FS_AddElement
  <2> QED BY <1>3, <1>5, <2>1, <2>4 DEF Load
<1>7. CASE n \notin Counted(w, K)'
  <2>1. Counted(w, K)' = Counted(w, K) BY <1>1, <1>7 DEF Counted
  <2> QED BY <1>3, <1>5, <2>1 DEF Load
<1> QED BY <1>6, <1>7

\* What the stretches before the k-th have spent.
LEMMA Earlier ==
    ASSUME TypeOK, Budget, NEW w \in Nat, NEW k \in 0..setbacks
    PROVE  Load(w, 0..(k - 1)) <= k * Limit
<1>1. k \in Nat /\ setbacks \in Nat BY DEF TypeOK
<1>2. CASE k = 0
  <2>1. 0..(k - 1) = {} BY <1>2
  <2>2. Counted(w, {}) = {} /\ Waiting(w, {}) = {} BY DEF Counted, Waiting
  <2>3. Load(w, 0..(k - 1)) = 0 BY <2>1, <2>2, FS_EmptySet DEF Load
  <2>4. k * Limit = 0 BY <1>2, Counts, LoadCounts, NextLoadCounts
  <2> QED BY <2>3, <2>4
<1>3. CASE k # 0
  <2>1. k - 1 \in 0..setbacks /\ (k - 1) + 1 = k BY <1>1, <1>3
  <2> QED BY <2>1 DEF Budget
<1> QED BY <1>2, <1>3

\* A process that takes the time sees every alert of the minute before it,
\* as far as its stretch goes.
LEMMA TakeTimeLoad ==
    ASSUME TypeOK, TypeOK', Past, Budget, NEW p \in Processes, TakeTime(p),
           NEW w \in Nat, NEW k \in Nat, k = setbacks
    PROVE  Load(w, 0..k)' <= (k + 1) * Limit
<1>1. /\ sent' = sent /\ pc'[p] = "timed" /\ now'[p] = clock /\ since'[p] = k
      /\ clock \in Nat /\ Recent(clock)' = Recent(clock)
      /\ \A q \in Processes \ {p} : pc'[q] = pc[q] /\ now'[q] = now[q] /\ since'[q] = since[q]
  BY DEF TakeTime, TypeOK, Recent
<1>2. Load(w, 0..k) <= (k + 1) * Limit BY DEF Budget
<1>3. /\ Limit \in Nat /\ Load(w, 0..k) \in Nat /\ Load(w, 0..k)' \in Nat
      /\ (k + 1) * Limit = k * Limit + Limit /\ k * Limit \in Nat
  <2>1. Limit \in Nat /\ Load(w, 0..k) \in Nat /\ Load(w, 0..k)' \in Nat BY Counts, LoadCounts, NextLoadCounts
  <2> QED BY <2>1
<1>4. CASE p \notin Waiting(w, 0..k)'
  <2>1. Waiting(w, 0..k)' \in SUBSET Waiting(w, 0..k)
    <3> SUFFICES ASSUME NEW q \in Processes, q \in Waiting(w, 0..k)'
                 PROVE  q \in Waiting(w, 0..k)
      BY DEF Waiting
    <3>1. q # p BY <1>4
    <3>2. Recent(now[q])' = Recent(now[q]) BY <1>1, <3>1 DEF Recent
    <3> QED BY <1>1, <3>1, <3>2 DEF Waiting
  <2>2. Counted(w, 0..k)' = Counted(w, 0..k) BY <1>1 DEF Counted
  <2>3. Cardinality(Waiting(w, 0..k)') <= Cardinality(Waiting(w, 0..k))
        /\ Cardinality(Waiting(w, 0..k)') \in Nat
    BY <2>1, Counts, LoadCounts, NextLoadCounts, Subsets
  <2>4. Load(w, 0..k)' <= Load(w, 0..k) BY <2>2, <2>3, Counts, LoadCounts, NextLoadCounts DEF Load
  <2> QED BY <1>2, <1>3, <2>4
<1>5. CASE p \in Waiting(w, 0..k)'
  <2>1. Recent(now[p])' = Recent(clock) BY <1>1 DEF Recent
  <2>2. /\ w <= clock /\ clock <= w + Window
        /\ Cardinality(Recent(clock)) <= MaxPerMinute
    BY <1>1, <1>5, <2>1 DEF Waiting
  <2>3. Counted(w, 0..k) \in SUBSET (Counted(w, 0..(k - 1)) \cup Recent(clock))
    <3> SUFFICES ASSUME NEW i \in Counted(w, 0..k), i \notin Counted(w, 0..(k - 1))
                 PROVE  i \in Recent(clock)
      OBVIOUS
    <3>1. i \in DOMAIN sent /\ sent[i] \in Alert BY DEF Counted, TypeOK
    <3>2. sent[i].since = k /\ sent[i].time \in Nat BY <3>1 DEF Counted, Alert
    <3>3. sent[i].time <= clock BY <3>1, <3>2 DEF Past
    <3> QED BY <1>1, <2>2, <3>1, <3>2, <3>3 DEF Counted, Recent, Window
  <2>4. Waiting(w, 0..k)' \in SUBSET (Waiting(w, 0..(k - 1)) \cup Processes)
    BY DEF Waiting
  <2>5. Cardinality(Counted(w, 0..k)) <= Cardinality(Counted(w, 0..(k - 1))) + Cardinality(Recent(clock))
    BY <1>1, <2>3, Counts, LoadCounts, NextLoadCounts, Covered
  <2>6. Cardinality(Waiting(w, 0..k)') <= Cardinality(Waiting(w, 0..(k - 1))) + Cardinality(Processes)
    BY <2>4, Counts, LoadCounts, NextLoadCounts, Covered, ProcessesAssumption
  <2>7. Counted(w, 0..k)' = Counted(w, 0..k) BY <1>1 DEF Counted
  <2>8. Load(w, 0..(k - 1)) <= k * Limit BY Earlier, k \in 0..setbacks
  <2>9. /\ Cardinality(Counted(w, 0..(k - 1))) \in Nat /\ Cardinality(Waiting(w, 0..(k - 1))) \in Nat
        /\ Cardinality(Counted(w, 0..k)) \in Nat /\ Cardinality(Recent(clock)) \in Nat
        /\ Cardinality(Waiting(w, 0..k)') \in Nat
    BY <1>1, Counts, LoadCounts, NextLoadCounts
  <2>10. Load(w, 0..k)' <= Load(w, 0..(k - 1)) + Limit
    <3>1. Cardinality(Processes) \in Nat BY Counts
    <3> QED BY <2>2, <2>5, <2>6, <2>7, <2>9, <3>1, LimitAssumption DEF Load, Limit
  <2>11. Load(w, 0..(k - 1)) \in Nat BY Counts, LoadCounts, NextLoadCounts
  <2> QED BY <1>3, <2>8, <2>10, <2>11
<1> QED BY <1>4, <1>5

LEMMA TakeTimeBudget ==
    ASSUME TypeOK, TypeOK', Past, Budget, NEW p \in Processes, TakeTime(p)
    PROVE  Budget'
<1> SUFFICES ASSUME NEW w \in Nat, NEW k \in 0..setbacks'
             PROVE  Load(w, 0..k)' <= (k + 1) * Limit
  BY DEF Budget
<1>1. setbacks' = setbacks /\ setbacks \in Nat /\ k \in Nat /\ k <= setbacks
  BY DEF TakeTime, TypeOK
<1>2. CASE k = setbacks BY <1>1, <1>2, TakeTimeLoad
<1>3. CASE k # setbacks
  <2>1. /\ sent' = sent /\ since'[p] \notin 0..k
        /\ \A q \in Processes \ {p} : pc'[q] = pc[q] /\ now'[q] = now[q] /\ since'[q] = since[q]
    BY <1>1, <1>3 DEF TakeTime, TypeOK
  <2>2. Load(w, 0..k)' <= Load(w, 0..k) BY <2>1, NoMoreWaiting
  <2>3. Load(w, 0..k) <= (k + 1) * Limit BY <1>1 DEF Budget
  <2>4. Load(w, 0..k) \in Nat /\ Load(w, 0..k)' \in Nat /\ Limit \in Nat
    BY Counts, LoadCounts, NextLoadCounts
  <2>5. (k + 1) * Limit \in Nat BY <1>1, <2>4
  <2> QED BY <2>2, <2>3, <2>4, <2>5
<1> QED BY <1>2, <1>3

\* A step in which nothing becomes heavier.
LEMMA CalmBudget ==
    ASSUME TypeOK, TypeOK', Budget, setbacks' = setbacks,
           \A w \in Nat, k \in Nat : Load(w, 0..k)' <= Load(w, 0..k)
    PROVE  Budget'
<1> SUFFICES ASSUME NEW w \in Nat, NEW k \in 0..setbacks'
             PROVE  Load(w, 0..k)' <= (k + 1) * Limit
  BY DEF Budget
<1>1. k \in 0..setbacks /\ k \in Nat BY DEF TypeOK
<1>2. Load(w, 0..k) <= (k + 1) * Limit /\ Load(w, 0..k)' <= Load(w, 0..k)
  BY <1>1 DEF Budget
<1>3. Load(w, 0..k) \in Nat /\ Load(w, 0..k)' \in Nat /\ Limit \in Nat
  BY Counts, LoadCounts, NextLoadCounts
<1>4. (k + 1) * Limit \in Nat BY <1>1, <1>3
<1> QED BY <1>2, <1>3, <1>4

\* No time was taken in the stretch that begins.
LEMMA SetBackBudget ==
    ASSUME TypeOK, TypeOK', Past, Budget, NEW t \in Times, SetBack(t)
    PROVE  Budget'
<1> SUFFICES ASSUME NEW w \in Nat, NEW k \in 0..setbacks'
             PROVE  Load(w, 0..k)' <= (k + 1) * Limit
  BY DEF Budget
<1>1. /\ setbacks' = setbacks + 1 /\ setbacks \in Nat /\ k \in Nat
      /\ sent' = sent /\ pc' = pc /\ now' = now /\ since' = since
  BY DEF SetBack, TypeOK
<1>2. Load(w, 0..k)' = Load(w, 0..k)
  <2>1. \A q \in Processes : Recent(now[q])' = Recent(now[q]) BY <1>1 DEF Recent
  <2>2. Counted(w, 0..k)' = Counted(w, 0..k) BY <1>1 DEF Counted
  <2>3. Waiting(w, 0..k)' = Waiting(w, 0..k) BY <1>1, <2>1 DEF Waiting
  <2> QED BY <2>2, <2>3 DEF Load
<1>3. CASE k <= setbacks BY <1>1, <1>2, <1>3 DEF Budget
<1>4. CASE k = setbacks + 1
  <2>1. \A i \in DOMAIN sent : sent[i].since \in Nat /\ sent[i].since <= setbacks
    BY Alerts DEF Past
  <2>2. \A q \in Processes : since[q] \in Nat /\ since[q] <= setbacks BY DEF TypeOK, Past
  <2>3. Counted(w, 0..k) = Counted(w, 0..(k - 1)) BY <1>1, <1>4, <2>1 DEF Counted
  <2>4. Waiting(w, 0..k) = Waiting(w, 0..(k - 1)) BY <1>1, <1>4, <2>2 DEF Waiting
  <2>5. Load(w, 0..k) = Load(w, 0..(k - 1)) BY <2>3, <2>4 DEF Load
  <2>6. k - 1 \in 0..setbacks /\ (k - 1) + 1 = k BY <1>1, <1>4
  <2>7. Load(w, 0..k) <= k * Limit BY <2>5, <2>6 DEF Budget
  <2>8. Limit \in Nat /\ Load(w, 0..k) \in Nat BY Counts, LoadCounts, NextLoadCounts
  <2>9. (k + 1) * Limit = k * Limit + Limit /\ k * Limit \in Nat BY <1>1, <2>8
  <2> QED BY <1>2, <2>7, <2>8, <2>9
<1> QED BY <1>1, <1>3, <1>4

LEMMA BudgetStep ==
    ASSUME TypeOK, TypeOK', Past, Budget, [Next]_vars
    PROVE  Budget'
<1>1. CASE UNCHANGED vars BY <1>1, NoMoreWaiting, CalmBudget DEF vars
<1>2. ASSUME NEW p \in Processes, TakeTime(p) PROVE Budget' BY <1>2, TakeTimeBudget
<1>3. ASSUME NEW p \in Processes, ReadTimes(p) PROVE Budget'
  <2>1. /\ sent' = sent /\ setbacks' = setbacks
        /\ \A q \in Processes : \/ pc'[q] = pc[q] /\ now'[q] = now[q] /\ since'[q] = since[q]
                                \/ pc'[q] \in {"idle", "unchecked"}
                                \/ /\ pc'[q] = "accepted" /\ now'[q] = now[q]
                                   /\ pc[q] = "timed" /\ since'[q] = since[q]
                                   /\ Cardinality(Recent(now[q])) <= MaxPerMinute
    BY <1>3 DEF ReadTimes, Accept, Return, TypeOK
  <2> QED BY <2>1, NoMoreWaiting, CalmBudget
<1>4. ASSUME NEW p \in Processes, ReadFails(p) \/ Kill(p) PROVE Budget'
  <2>1. /\ sent' = sent /\ setbacks' = setbacks
        /\ \A q \in Processes : \/ pc'[q] = pc[q] /\ now'[q] = now[q] /\ since'[q] = since[q]
                                \/ pc'[q] \in {"idle", "unchecked"}
    BY <1>4 DEF ReadFails, Kill, Return, TypeOK
  <2> QED BY <2>1, NoMoreWaiting, CalmBudget
<1>5. ASSUME NEW p \in Processes, AppendTime(p) \/ AppendFails(p) PROVE Budget'
  <2>1. PICK written \in BOOLEAN : Send(p, written) BY <1>5 DEF AppendTime, AppendFails
  <2>2. setbacks' = setbacks BY <2>1 DEF Send
  <2>3. \A w \in Nat, k \in Nat : Load(w, 0..k)' <= Load(w, 0..k) BY <2>1, SendLoad
  <2> QED BY <2>2, <2>3, CalmBudget
<1>6. ASSUME NEW t \in Times, Advance(t) PROVE Budget'
  <2>1. UNCHANGED <<sent, pc, now, since, setbacks>> BY <1>6 DEF Advance
  <2> QED BY <2>1, NoMoreWaiting, CalmBudget
<1>7. ASSUME NEW t \in Times, SetBack(t) PROVE Budget' BY <1>7, SetBackBudget
<1> QED BY <1>1, <1>2, <1>3, <1>4, <1>5, <1>6, <1>7 DEF Next

-----------------------------------------------------------------------------
(* The files that were not opened.                                         *)

LEMMA LapsesStep ==
    ASSUME TypeOK, TypeOK', Lapses, [Next]_vars
    PROVE  Lapses'
<1>1. /\ IsFiniteSet(Lapsed) /\ Cardinality(Lapsed) \in Nat
      /\ IsFiniteSet(Lapsing) /\ Cardinality(Lapsing) \in Nat /\ failures \in Nat
      /\ Cardinality(Lapsed) + Cardinality(Lapsing) <= failures
  BY Counts, FS_CardinalityType DEF Lapses, TypeOK
<1>2. ASSUME sent' = sent, failures' = failures,
             \A q \in Processes : pc'[q] = "unchecked" => pc[q] = "unchecked"
      PROVE  Lapses'
  <2>1. Lapsed' = Lapsed BY <1>2 DEF Lapsed
  <2>2. Lapsing' \in SUBSET Lapsing BY <1>2 DEF Lapsing
  <2>3. Cardinality(Lapsing') <= Cardinality(Lapsing) /\ Cardinality(Lapsing') \in Nat
    BY <1>1, <2>2, Subsets
  <2> QED BY <1>1, <1>2, <2>1, <2>3 DEF Lapses
<1>3. CASE UNCHANGED vars BY <1>2, <1>3 DEF vars
<1>4. ASSUME NEW p \in Processes, TakeTime(p) \/ ReadTimes(p) \/ Kill(p) PROVE Lapses'
  <2>1. /\ sent' = sent /\ failures' = failures
        /\ \A q \in Processes : pc'[q] = "unchecked" => pc[q] = "unchecked"
    BY <1>4 DEF TakeTime, ReadTimes, Kill, Return, TypeOK
  <2> QED BY <1>2, <2>1
<1>5. ASSUME NEW p \in Processes, ReadFails(p) PROVE Lapses'
  <2>1. /\ sent' = sent /\ failures' = failures + 1
        /\ pc' = [pc EXCEPT ![p] = "unchecked"] /\ pc[p] = "timed"
    BY <1>5 DEF ReadFails
  <2>2. Lapsed' = Lapsed BY <2>1 DEF Lapsed
  <2>3. Lapsing' = Lapsing \cup {p} /\ p \notin Lapsing BY <2>1 DEF Lapsing, TypeOK
  <2>4. Cardinality(Lapsing') = Cardinality(Lapsing) + 1 BY <1>1, <2>3, FS_AddElement
  <2> QED BY <1>1, <2>1, <2>2, <2>4 DEF Lapses
<1>6. ASSUME NEW p \in Processes, AppendTime(p) \/ AppendFails(p) PROVE Lapses'
  <2>1. PICK written \in BOOLEAN :
          /\ Send(p, written)
          /\ IF written THEN failures' = failures ELSE failures' = failures + 1
    BY <1>6 DEF AppendTime, AppendFails
  <2>2. PICK n : /\ DOMAIN sent' = DOMAIN sent \cup {n} /\ n \notin DOMAIN sent
                 /\ \A i \in DOMAIN sent : sent'[i] = sent[i]
                 /\ sent'[n].written = written
                 /\ sent'[n].checked = (pc[p] = "accepted")
    BY <2>1, Sent
  <2>3. Lapsing' = Lapsing \ {p} /\ pc[p] \in {"accepted", "unchecked"}
    BY <2>1 DEF Send, Return, Lapsing, TypeOK
  <2>4. /\ Cardinality(Lapsing') = IF p \in Lapsing THEN Cardinality(Lapsing) - 1
                                   ELSE Cardinality(Lapsing)
        /\ Cardinality(Lapsing') \in Nat
    <3>1. Cardinality(Lapsing \ {p}) = IF p \in Lapsing THEN Cardinality(Lapsing) - 1
                                       ELSE Cardinality(Lapsing)
      BY <1>1, FS_RemoveElement
    <3>2. Cardinality(Lapsing \ {p}) \in Nat BY <1>1, Subsets
    <3> QED BY <2>3, <3>1, <3>2
  <2>5. CASE written /\ pc[p] = "accepted"
    <3>1. Lapsed' = Lapsed BY <2>2, <2>5 DEF Lapsed
    <3>2. Cardinality(Lapsing') <= Cardinality(Lapsing) BY <1>1, <2>4
    <3> QED BY <1>1, <2>1, <2>4, <2>5, <3>1, <3>2 DEF Lapses
  <2>6. CASE ~(written /\ pc[p] = "accepted")
    <3>1. Lapsed' = Lapsed \cup {n} /\ n \notin Lapsed BY <2>2, <2>6 DEF Lapsed
    <3>2. Cardinality(Lapsed') = Cardinality(Lapsed) + 1 BY <1>1, <3>1, FS_AddElement
    <3>3. CASE pc[p] = "unchecked"
      <4>1. p \in Lapsing BY <3>3 DEF Lapsing
      <4>2. failures' >= failures /\ failures' \in Nat BY <1>1, <2>1
      <4> QED BY <1>1, <2>4, <3>2, <4>1, <4>2 DEF Lapses
    <3>4. CASE pc[p] = "accepted"
      <4>1. failures' = failures + 1 BY <2>1, <2>6, <3>4
      <4>2. Cardinality(Lapsing') <= Cardinality(Lapsing) BY <1>1, <2>4
      <4> QED BY <1>1, <2>4, <3>2, <4>1, <4>2 DEF Lapses
    <3> QED BY <2>3, <3>3, <3>4
  <2> QED BY <2>5, <2>6
<1>7. ASSUME NEW t \in Times, Advance(t) \/ SetBack(t) PROVE Lapses'
  BY <1>2, <1>7 DEF Advance, SetBack
<1> QED BY <1>3, <1>4, <1>5, <1>6, <1>7 DEF Next

-----------------------------------------------------------------------------
LEMMA InitInv == Init => Inv
<1> SUFFICES ASSUME Init PROVE Inv OBVIOUS
<1>1. TypeOK BY ClockAssumption DEF Init, TypeOK
<1>2. Past BY <1>1 DEF Init, Past, TypeOK
<1>3. sent = <<>> /\ DOMAIN sent = {} /\ \A p \in Processes : pc[p] = "idle" BY DEF Init
<1>4. Budget
  <2> SUFFICES ASSUME NEW w \in Nat, NEW k \in 0..setbacks
               PROVE  Load(w, 0..k) <= (k + 1) * Limit
    BY DEF Budget
  <2>1. Counted(w, 0..k) = {} BY <1>3 DEF Counted
  <2>2. Waiting(w, 0..k) = {} BY <1>3 DEF Waiting
  <2>3. Load(w, 0..k) = 0
    <3>1. Cardinality({}) = 0 BY FS_EmptySet
    <3>2. Cardinality(Counted(w, 0..k)) = 0 /\ Cardinality(Waiting(w, 0..k)) = 0
      BY <2>1, <2>2, <3>1
    <3> QED BY <3>2 DEF Load
  <2>4. k = 0 /\ Limit \in Nat BY <1>1, Counts, LoadCounts, NextLoadCounts DEF Init
  <2> QED BY <2>3, <2>4
<1>5. Lapses
  <2>1. Lapsed = {} /\ Lapsing = {} BY <1>3 DEF Lapsed, Lapsing
  <2> QED BY <2>1, FS_EmptySet DEF Lapses, Init
<1> QED BY <1>1, <1>2, <1>4, <1>5 DEF Inv

LEMMA StepInv == Inv /\ [Next]_vars => Inv'
BY TypeStep, PastStep, BudgetStep, LapsesStep DEF Inv

LEMMA InvBounds == Inv => OverrunBounded
<1> SUFFICES ASSUME Inv, NEW i \in DOMAIN sent
             PROVE  Cardinality(InWindow(sent[i].time))
                      <= (setbacks + 1) * (MaxPerMinute + Cardinality(Processes)) + failures
  BY DEF OverrunBounded
<1>0. sent[i] \in Alert BY DEF Inv, TypeOK
<1>1. PICK w, k \in Nat : w = sent[i].time /\ k = setbacks
  BY <1>0 DEF Inv, TypeOK, Alert
<1>9. TypeOK /\ failures \in Nat BY DEF Inv, TypeOK
<1>2. InWindow(w) \in SUBSET (Counted(w, 0..k) \cup Lapsed)
  <2>1. \A j \in DOMAIN sent : sent[j].since \in 0..k
    BY <1>1, <1>9, Alerts DEF Inv, Past
  <2> QED BY <2>1 DEF InWindow, Counted, Lapsed
<1>3. /\ Cardinality(InWindow(w)) <= Cardinality(Counted(w, 0..k)) + Cardinality(Lapsed)
      /\ Cardinality(InWindow(w)) \in Nat
  BY <1>1, <1>9, <1>2, Counts, LoadCounts, NextLoadCounts, Covered
<1>4. Load(w, 0..k) <= (k + 1) * Limit BY <1>1, <1>9 DEF Inv, Budget
<1>5. Cardinality(Lapsed) + Cardinality(Lapsing) <= failures BY DEF Inv, Lapses
<1>6. /\ Cardinality(Counted(w, 0..k)) \in Nat /\ Cardinality(Waiting(w, 0..k)) \in Nat
      /\ Cardinality(Lapsed) \in Nat /\ Cardinality(Lapsing) \in Nat
      /\ Limit \in Nat
  BY <1>9, Counts, LoadCounts, FS_CardinalityType
<1>8. (k + 1) * Limit \in Nat BY <1>1, <1>6
<1>7. Cardinality(InWindow(w)) <= (k + 1) * Limit + failures
  BY <1>9, <1>3, <1>4, <1>5, <1>6, <1>8 DEF Load
<1> QED BY <1>1, <1>7 DEF Limit

\* However many commands send alerts at once, however often the clock goes
\* back and however many files cannot be opened, a minute sees at most one
\* alert of each command more than max_events_per_minute for each stretch
\* between two set-backs, and one for each file that was not opened.
THEOREM OverrunBound == Spec => []OverrunBounded
<1>1. Init => Inv BY InitInv
<1>2. Inv /\ [Next]_vars => Inv' BY StepInv
<1>3. Inv => OverrunBounded BY InvBounds
<1> QED BY <1>1, <1>2, <1>3, PTL DEF Spec
=============================================================================
