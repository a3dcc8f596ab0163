--------------------------- MODULE MonitorProofs ---------------------------
(***************************************************************************)
(* Theorems about Monitor, for any hosts, command lines, bounds and number *)
(* of cycles: what the printed events say of hosts, failures and lateness, *)
(* and how the pause between cycles grows.                                 *)
(***************************************************************************)
EXTENDS Monitor, FiniteSetTheorems, SequenceTheorems, TLAPS

Event == [name : {"discovered-host", "lost-host", "skip", "backoff", "system-wake"},
          cycle : Nat, host : Hosts \cup {"none"}]

TypeOK ==
    /\ request \in RequestType
    /\ pc \in {"loop", "scan", "pace", "sleep", "done", "killed"}
    /\ cycle \in Nat /\ clock \in Nat /\ interval \in Nat
    /\ waited \in BOOLEAN
    /\ consecutive \in Nat /\ schedule \in Nat
    /\ prior \in SUBSET Hosts
    /\ events \in Seq(Event) /\ delays \in Seq(Nat)

\* The failures no notice has counted; a third one waits for the end of its cycle.
FailureInv ==
    /\ schedule % 3 = consecutive % 3
    /\ schedule <= IF pc \in {"pace", "killed"} THEN 3 ELSE 2

\* The interval was computed from some part of the row of failures, unless a
\* success has just ended that row.
IntervalInv ==
    \/ pc \in {"pace", "killed"} /\ consecutive = 0
    \/ \E f \in 0..consecutive : interval = Backoff(request.base, f)

Wake(n) == Ev("system-wake", n, "none")

\* Every cycle with a pause, and only such a cycle, has its delay; the clock
\* and the events tell of it.
DelayInv ==
    /\ request.base = 0 => delays = <<>> /\ pc # "sleep"
    /\ request.base # 0 /\ pc # "killed" =>
         Len(delays) = IF pc = "loop" THEN cycle ELSE cycle - 1
    /\ waited <=> delays # <<>>
    /\ pc = "loop" /\ delays # <<>> => clock = interval + delays[Len(delays)]
    /\ pc \notin {"loop", "killed"} => cycle >= 1

WakeInv ==
    /\ \A i \in 1..Len(events) : events[i].cycle <= cycle
    /\ \A n \in 1..Len(delays) : n < cycle =>
         (delays[n] > Tolerance <=> \E i \in 1..Len(events) : events[i] = Wake(n + 1))

Inv == TypeOK /\ FailureInv /\ IntervalInv /\ DelayInv /\ WakeInv /\ EventsTellHosts

-----------------------------------------------------------------------------
(* The backoff.                                                            *)

LEMMA Powers == 2^1 = 2 /\ 2^2 = 4 /\ 2^3 = 8 /\ 2^4 = 16 /\ 2^5 = 32 /\ 2^6 = 64
<1>1. 2^1 = 2
  OBVIOUS
<1>2. 2^2 = 4
  OBVIOUS
<1>3. 2^3 = 8
  OBVIOUS
<1>4. 2^4 = 16
  OBVIOUS
<1>5. 2^5 = 32
  OBVIOUS
<1>6. 2^6 = 64
  OBVIOUS
<1> QED BY <1>1, <1>2, <1>3, <1>4, <1>5, <1>6

\* The factor after a number of failures, as a number.
LEMMA Factor ==
    ASSUME NEW f \in Nat
    PROVE  2 ^ Least(6, f + 1) =
             IF f = 0 THEN 2 ELSE IF f = 1 THEN 4 ELSE IF f = 2 THEN 8
             ELSE IF f = 3 THEN 16 ELSE IF f = 4 THEN 32 ELSE 64
<1>1. CASE f = 0
  BY <1>1, Powers DEF Least
<1>2. CASE f = 1
  BY <1>2, Powers DEF Least
<1>3. CASE f = 2
  BY <1>3, Powers DEF Least
<1>4. CASE f = 3
  BY <1>4, Powers DEF Least
<1>5. CASE f = 4
  BY <1>5, Powers DEF Least
<1>6. CASE f >= 5
  <2>1. Least(6, f + 1) = 6
    BY <1>6 DEF Least
  <2>2. 2 ^ Least(6, f + 1) = 64
    BY <2>1, Powers, Zenon
  <2> QED BY <1>6, <2>2
<1> QED BY <1>1, <1>2, <1>3, <1>4, <1>5, <1>6

LEMMA BackoffType ==
    ASSUME NEW b \in Nat, NEW f \in Nat
    PROVE  /\ Backoff(b, f) \in Nat
           /\ b # 0 => Backoff(b, f) # 0
<1>1. CASE f = 0 \/ b = 0
  BY <1>1 DEF Backoff, Least
<1>2. CASE f # 0 /\ b # 0
  <2>1. Backoff(b, f) = Least(Cap, b * 2 ^ Least(6, f + 1))
    BY <1>2 DEF Backoff
  <2>2. PICK k \in {2, 4, 8, 16, 32, 64} : 2 ^ Least(6, f + 1) = k
    BY Factor
  <2>3. b * k \in Nat /\ b * k # 0
    BY <1>2
  <2> QED BY <2>1, <2>2, <2>3 DEF Least, Cap
<1> QED BY <1>1, <1>2

\* More failures never shorten the pause below the cap.
LEMMA BackoffGrows ==
    ASSUME NEW b \in Nat \ {0}, NEW g \in Nat \ {0}, NEW f \in 0..g
    PROVE  /\ Backoff(b, g) >= Least(Cap, b)
           /\ Backoff(b, g) >= Least(Cap, Backoff(b, f))
<1>1. Backoff(b, g) = Least(Cap, b * 2 ^ Least(6, g + 1))
  BY DEF Backoff
<1>2. PICK m \in {4, 8, 16, 32, 64} : 2 ^ Least(6, g + 1) = m
  BY Factor
<1>3. b * m \in Nat /\ b <= b * m
  BY <1>2
<1>4. Backoff(b, g) >= Least(Cap, b)
  BY <1>1, <1>2, <1>3 DEF Least, Cap
<1>5. CASE f = 0
  BY <1>4, <1>5 DEF Backoff
<1>6. CASE f # 0
  <2>1. Backoff(b, f) = Least(Cap, b * 2 ^ Least(6, f + 1))
    BY <1>6 DEF Backoff
  <2>2. PICK k \in {4, 8, 16, 32, 64} : 2 ^ Least(6, f + 1) = k /\ k <= m
    BY <1>2, <1>6, Factor
  <2>3. b * k \in Nat /\ b * k <= b * m
    BY <2>2
  <2> QED BY <1>1, <1>2, <1>3, <2>1, <2>2, <2>3 DEF Least, Cap
<1> QED BY <1>4, <1>5, <1>6

-----------------------------------------------------------------------------
(* The events of one scan.                                                 *)

\* b tells of the hosts that came and went between old and new, each once.
Tells(b, old, new) ==
    /\ \A i \in 1..Len(b) : b[i].host \in Hosts =>
         /\ b[i].name = IF b[i].host \in old THEN "lost-host" ELSE "discovered-host"
         /\ b[i].host \in new <=> b[i].host \notin old
    /\ \A i, j \in 1..Len(b) : b[i].host \in Hosts /\ b[i].host = b[j].host => i = j
    /\ \A h \in Hosts : h \in old \cup new /\ h \notin old \cap new =>
         \E i \in 1..Len(b) : b[i].host = h

LEMMA EvFields ==
    ASSUME NEW name, NEW n, NEW host
    PROVE  /\ Ev(name, n, host).name = name /\ Ev(name, n, host).cycle = n
           /\ Ev(name, n, host).host = host
BY DEF Ev

\* SetToSeq lists every element once.
LEMMA Enumerated ==
    ASSUME NEW S, IsFiniteSet(S)
    PROVE  LET q == SetToSeq(S)
           IN  /\ Cardinality(S) \in Nat /\ q \in [1..Cardinality(S) -> S]
               /\ \A i, j \in 1..Cardinality(S) : q[i] = q[j] => i = j
               /\ \A x \in S : \E i \in 1..Cardinality(S) : q[i] = x
<1> DEFINE n == Cardinality(S)
<1>1. n \in Nat /\ ExistsBijection(1..n, S)
  BY FS_CardinalityType
<1>2. PICK f : f \in Bijection(1..n, S)
  BY <1>1 DEF ExistsBijection
<1>3. f \in [1..n -> S] /\ IsInjective(f)
  BY <1>2 DEF Bijection, Injection
<1> DEFINE q == SetToSeq(S)
<1>4. q \in [1..n -> S] /\ IsInjective(q)
  BY <1>3 DEF SetToSeq
<1>5. q \in Injection(1..n, S)
  BY <1>4 DEF Injection
<1>6. IsFiniteSet(1..n) /\ Cardinality(1..n) = n
  BY <1>1, FS_Interval
<1>7. q \in Surjection(1..n, S)
  BY <1>5, <1>6, FS_Injection
<1> HIDE DEF q, n
<1> QED BY <1>1, <1>4, <1>7 DEF q, n, IsInjective, Surjection

LEMMA HostEventsTell ==
    ASSUME cycle \in Nat, NEW old \in SUBSET Hosts, NEW new \in SUBSET Hosts
    PROVE  LET b == HostEvents(old, new)
           IN  /\ b \in Seq(Event) /\ Tells(b, old, new)
               /\ \A i \in 1..Len(b) : b[i].cycle = cycle /\ b[i].name # "system-wake"
<1> DEFINE c == new \ old   p == SetToSeq(c)
           g == old \ new   q == SetToSeq(g)
           x == [i \in DOMAIN p |-> Ev("discovered-host", cycle, p[i])]
           y == [i \in DOMAIN q |-> Ev("lost-host", cycle, q[i])]
           m == Cardinality(c)   n == Cardinality(g)
           b == HostEvents(old, new)
<1>1. IsFiniteSet(c) /\ IsFiniteSet(g)
  BY HostsAssumption, FS_Subset
<1>2. /\ m \in Nat /\ p \in [1..m -> c]
      /\ \A i, j \in 1..m : p[i] = p[j] => i = j
      /\ \A h \in c : \E i \in 1..m : p[i] = h
  BY <1>1, Enumerated
<1>3. /\ n \in Nat /\ q \in [1..n -> g]
      /\ \A i, j \in 1..n : q[i] = q[j] => i = j
      /\ \A h \in g : \E i \in 1..n : q[i] = h
  BY <1>1, Enumerated
<1>4. b = x \o y
  BY DEF HostEvents
<1> HIDE DEF p, q, m, n
<1>5. /\ x \in Seq(Event) /\ Len(x) = m
      /\ \A i \in 1..m : x[i] = Ev("discovered-host", cycle, p[i])
  <2>1. \A i \in 1..m : Ev("discovered-host", cycle, p[i]) \in Event
    BY <1>2 DEF Ev, Event
  <2>2. x = [i \in 1..m |-> Ev("discovered-host", cycle, p[i])]
    BY <1>2
  <2> QED BY <1>2, <2>1, <2>2
<1>6. /\ y \in Seq(Event) /\ Len(y) = n
      /\ \A i \in 1..n : y[i] = Ev("lost-host", cycle, q[i])
  <2>1. \A i \in 1..n : Ev("lost-host", cycle, q[i]) \in Event
    BY <1>3 DEF Ev, Event
  <2>2. y = [i \in 1..n |-> Ev("lost-host", cycle, q[i])]
    BY <1>3
  <2> QED BY <1>3, <2>1, <2>2
<1> HIDE DEF x, y, b
<1>7. /\ b \in Seq(Event) /\ Len(b) = m + n
      /\ \A i \in 1..(m + n) : b[i] = IF i <= m THEN x[i] ELSE y[i - m]
  <2>1. x \in Seq(Event) /\ y \in Seq(Event) /\ Len(x) = m /\ Len(y) = n
    BY <1>5, <1>6
  <2>2. /\ x \o y \in Seq(Event) /\ Len(x \o y) = Len(x) + Len(y)
        /\ \A i \in 1..(Len(x) + Len(y)) :
             (x \o y)[i] = IF i <= Len(x) THEN x[i] ELSE y[i - Len(x)]
    BY <2>1, ConcatProperties
  <2> QED BY ONLY <1>4, <2>1, <2>2
<1>8. \A i \in 1..(m + n) :
        /\ i <= m => i \in 1..m /\ b[i] = Ev("discovered-host", cycle, p[i]) /\ p[i] \in c
        /\ i > m => /\ i - m \in 1..n /\ b[i] = Ev("lost-host", cycle, q[i - m])
                    /\ q[i - m] \in g
  <2> TAKE i \in 1..(m + n)
  <2>1. CASE i <= m
    <3>1. i \in 1..m
      BY <1>2, <1>3, <2>1
    <3> QED BY <1>2, <1>5, <1>7, <2>1, <3>1
  <2>2. CASE i > m
    <3>1. i - m \in 1..n
      BY <1>2, <1>3, <2>2
    <3> QED BY <1>2, <1>3, <1>6, <1>7, <2>2, <3>1
  <2> QED BY <1>2, <1>3, <2>1, <2>2
<1> DEFINE Came(i) == i \in 1..m /\ b[i].host = p[i] /\ b[i].host \in c
           Went(i) == i - m \in 1..n /\ b[i].host = q[i - m] /\ b[i].host \in g
<1>20. \A i \in 1..(m + n) : (i <= m /\ Came(i)) \/ (i > m /\ Went(i))
  <2> TAKE i \in 1..(m + n)
  <2>1. CASE i <= m
    <3>1. i \in 1..m /\ b[i] = Ev("discovered-host", cycle, p[i]) /\ p[i] \in c
      BY <1>8, <2>1, SMTT(30)
    <3> QED BY <2>1, <3>1, EvFields
  <2>2. CASE i > m
    <3>1. /\ i - m \in 1..n /\ b[i] = Ev("lost-host", cycle, q[i - m])
          /\ q[i - m] \in g
      BY <1>8, <2>2
    <3> QED BY <2>2, <3>1, EvFields
  <2> QED BY <1>2, <1>3, <2>1, <2>2
<1>9. \A i \in 1..Len(b) : b[i].cycle = cycle /\ b[i].name # "system-wake"
  <2> TAKE i \in 1..Len(b)
  <2>1. i \in 1..(m + n) /\ (i <= m \/ i > m)
    BY <1>2, <1>3, <1>7
  <2>2. CASE i <= m
    BY <1>8, <2>1, <2>2, EvFields
  <2>3. CASE i > m
    BY <1>8, <2>1, <2>3, EvFields
  <2> QED BY <2>1, <2>2, <2>3
<1>10. \A i \in 1..Len(b) : b[i].host \in Hosts =>
         /\ b[i].name = IF b[i].host \in old THEN "lost-host" ELSE "discovered-host"
         /\ b[i].host \in new <=> b[i].host \notin old
  BY <1>2, <1>3, <1>7, <1>8 DEF Ev
<1>11. \A i, j \in 1..Len(b) : b[i].host \in Hosts /\ b[i].host = b[j].host => i = j
  <2> SUFFICES ASSUME NEW i \in 1..(m + n), NEW j \in 1..(m + n), b[i].host = b[j].host
               PROVE  i = j
    BY <1>7
  <2>1. CASE Came(i) /\ Came(j)
    BY <1>2, <2>1
  <2>2. CASE Went(i) /\ Went(j)
    <3>1. i - m = j - m
      BY <1>3, <2>2
    <3> QED BY <1>2, <3>1
  <2>3. CASE Came(i) /\ Went(j)
    BY <2>3
  <2>4. CASE Went(i) /\ Came(j)
    BY <2>4
  <2> HIDE DEF Came, Went
  <2> QED BY <1>20, <2>1, <2>2, <2>3, <2>4
<1>12. \A h \in Hosts : h \in old \cup new /\ h \notin old \cap new =>
         \E i \in 1..Len(b) : b[i].host = h
  <2> SUFFICES ASSUME NEW h \in Hosts, h \in c \/ h \in g
               PROVE  \E i \in 1..(m + n) : b[i].host = h
    BY <1>7
  <2>1. CASE h \in c
    <3>1. PICK i \in 1..m : p[i] = h
      BY <1>2, <2>1
    <3>2. i \in 1..(m + n) /\ i <= m
      BY <1>2, <1>3
    <3> QED BY <1>2, <1>3, <1>20, <3>1, <3>2
  <2>2. CASE h \in g
    <3>1. PICK i \in 1..n : q[i] = h
      BY <1>3, <2>2
    <3>2. i + m \in 1..(m + n) /\ i + m > m /\ i + m - m = i
      BY <1>2, <1>3
    <3>3. Went(i + m)
      <4> HIDE DEF Came, Went
      <4> QED BY <1>2, <1>3, <1>20, <3>2
    <3> QED BY <1>2, <1>3, <3>1, <3>2, <3>3
  <2> QED BY <2>1, <2>2
<1> QED BY <1>7, <1>9, <1>10, <1>11, <1>12 DEF Tells, b

\* KnownLive of any sequence of events.
Live(e, h, n) ==
    \E i \in 1..n : /\ e[i].name = "discovered-host" /\ e[i].host = h
                    /\ \A j \in (i + 1)..n : ~(e[j].name = "lost-host" /\ e[j].host = h)

\* Events of other hosts change nothing; the last event of a host decides.
LEMMA LiveAcross ==
    ASSUME NEW e, NEW h, NEW n \in Nat, NEW m \in 0..n,
           \A i \in (m + 1)..n : e[i].host # h
    PROVE  Live(e, h, n) <=> Live(e, h, m)
<1>1. ASSUME Live(e, h, n) PROVE Live(e, h, m)
  <2>1. PICK i \in 1..n : /\ e[i].name = "discovered-host" /\ e[i].host = h
                          /\ \A j \in (i + 1)..n : ~(e[j].name = "lost-host" /\ e[j].host = h)
    BY <1>1 DEF Live
  <2>2. i \in 1..m /\ (i + 1)..m \subseteq (i + 1)..n
    BY <2>1
  <2> QED BY <2>1, <2>2 DEF Live
<1>2. ASSUME Live(e, h, m) PROVE Live(e, h, n)
  <2>1. PICK i \in 1..m : /\ e[i].name = "discovered-host" /\ e[i].host = h
                          /\ \A j \in (i + 1)..m : ~(e[j].name = "lost-host" /\ e[j].host = h)
    BY <1>2 DEF Live
  <2>2. i \in 1..n /\ \A j \in (i + 1)..n : j \in (i + 1)..m \/ j \in (m + 1)..n
    OBVIOUS
  <2>3. \A j \in (i + 1)..n : ~(e[j].name = "lost-host" /\ e[j].host = h)
    BY <2>1, <2>2
  <2> QED BY <2>1, <2>2, <2>3 DEF Live
<1> QED BY <1>1, <1>2

LEMMA LiveAfter ==
    ASSUME NEW e, NEW h, NEW n \in Nat, NEW k \in 1..n, e[k].host = h,
           \A i \in (k + 1)..n : e[i].host # h
    PROVE  /\ e[k].name = "discovered-host" => Live(e, h, n)
           /\ e[k].name = "lost-host" => ~Live(e, h, n)
<1>1. ASSUME e[k].name = "discovered-host" PROVE Live(e, h, n)
  BY <1>1 DEF Live
<1>2. ASSUME e[k].name = "lost-host", NEW i \in 1..n,
             e[i].name = "discovered-host" /\ e[i].host = h,
             \A j \in (i + 1)..n : ~(e[j].name = "lost-host" /\ e[j].host = h)
      PROVE  FALSE
  <2>1. i # k /\ i \notin (k + 1)..n
    BY <1>2
  <2>2. k \in (i + 1)..n
    BY <2>1
  <2> QED BY <1>2, <2>2
<1> QED BY <1>1, <1>2 DEF Live

LEMMA KnownIsLive == \A h, n : KnownLive(h, n) <=> Live(events, h, n)
BY DEF KnownLive, Is, Live

\* The account stays true when neither the events nor the hosts change.
LEMMA AccountStands ==
    ASSUME EventsTellHosts, events' = events, prior' = prior
    PROVE  EventsTellHosts'
<1> DEFINE e == events'
<1>1. \A h, n : KnownLive(h, n)' <=> Live(e, h, n)
  BY DEF KnownLive, Is, Live
<1>2. e = events
  OBVIOUS
<1> HIDE DEF e
<1>3. ASSUME NEW h \in Hosts
      PROVE  /\ \A n \in 1..Len(e) : e[n].host = h =>
                  e[n].name = IF Live(e, h, n - 1) THEN "lost-host" ELSE "discovered-host"
             /\ h \in prior' <=> Live(e, h, Len(e))
  <2>1. /\ \A n \in 1..Len(events) : events[n].host = h =>
             events[n].name = IF Live(events, h, n - 1) THEN "lost-host" ELSE "discovered-host"
        /\ h \in prior <=> Live(events, h, Len(events))
    BY KnownIsLive DEF EventsTellHosts, Is
  <2> QED BY ONLY <1>2, <2>1, prior' = prior
<1> QED BY <1>1, <1>3 DEF EventsTellHosts, Is, e

\* Events that tell how the live hosts changed keep the account true.
LEMMA TellStep ==
    ASSUME TypeOK, EventsTellHosts, prior' \in SUBSET Hosts,
           NEW b \in Seq(Event), events' = events \o b, Tells(b, prior, prior')
    PROVE  EventsTellHosts'
<1> DEFINE e == events'   l == Len(events)   m == Len(events) + Len(b)
<1>1. events \in Seq(Event) /\ l \in Nat /\ Len(b) \in Nat /\ m \in Nat
  BY LenProperties DEF TypeOK
<1>2. /\ e \in Seq(Event) /\ Len(e) = m
      /\ \A n \in 1..l : e[n] = events[n]
      /\ \A n \in 1..Len(b) : e[l + n] = b[n]
  <2>1. \A i \in 1..m : e[i] = IF i <= l THEN events[i] ELSE b[i - l]
    BY <1>1, ConcatProperties
  <2>2. \A n \in 1..Len(b) : l + n \in 1..m /\ ~(l + n <= l) /\ l + n - l = n
    BY <1>1
  <2> QED BY <1>1, <2>1, <2>2, ConcatProperties
<1>3. \A n \in 1..m : n \in 1..l \/ (n - l \in 1..Len(b) /\ n = l + (n - l))
  BY <1>1
<1> HIDE DEF e, l, m
<1>4. ASSUME NEW h \in Hosts
      PROVE  /\ \A n \in 1..m : e[n].host = h =>
                  e[n].name = IF Live(e, h, n - 1) THEN "lost-host" ELSE "discovered-host"
             /\ h \in prior' <=> Live(e, h, m)
  <2>1. \A n \in 0..l : Live(e, h, n) <=> Live(events, h, n)
    <3> TAKE n \in 0..l
    <3>1. \A i \in 1..n : i \in 1..l /\ \A j \in (i + 1)..n : j \in 1..l
      BY <1>1
    <3>2. \A i \in 1..n : e[i] = events[i] /\ \A j \in (i + 1)..n : e[j] = events[j]
      BY <1>2, <3>1
    <3>3. ASSUME Live(e, h, n) PROVE Live(events, h, n)
      <4>1. PICK i \in 1..n : /\ e[i].name = "discovered-host" /\ e[i].host = h
                              /\ \A j \in (i + 1)..n : ~(e[j].name = "lost-host" /\ e[j].host = h)
        BY <3>3 DEF Live
      <4>2. /\ events[i].name = "discovered-host" /\ events[i].host = h
            /\ \A j \in (i + 1)..n : ~(events[j].name = "lost-host" /\ events[j].host = h)
        BY <3>2, <4>1
      <4> QED BY <4>2 DEF Live
    <3>4. ASSUME Live(events, h, n) PROVE Live(e, h, n)
      <4>1. PICK i \in 1..n : /\ events[i].name = "discovered-host" /\ events[i].host = h
                              /\ \A j \in (i + 1)..n :
                                   ~(events[j].name = "lost-host" /\ events[j].host = h)
        BY <3>4 DEF Live
      <4>2. /\ e[i].name = "discovered-host" /\ e[i].host = h
            /\ \A j \in (i + 1)..n : ~(e[j].name = "lost-host" /\ e[j].host = h)
        BY <3>2, <4>1
      <4> QED BY <4>2 DEF Live
    <3> QED BY <3>3, <3>4
  <2>2. /\ \A n \in 1..l : events[n].host = h =>
             events[n].name = IF Live(events, h, n - 1) THEN "lost-host" ELSE "discovered-host"
        /\ h \in prior <=> Live(events, h, l)
    BY KnownIsLive DEF EventsTellHosts, Is, l
  <2>3. \A n \in 1..l : e[n].host = h =>
             e[n].name = IF Live(e, h, n - 1) THEN "lost-host" ELSE "discovered-host"
    <3> TAKE n \in 1..l
    <3>1. n - 1 \in 0..l
      BY <1>1
    <3> QED BY <1>2, <2>1, <2>2, <3>1
  <2>4. h \in prior <=> Live(e, h, l)
    BY <1>1, <2>1, <2>2
  <2>5. CASE \A k \in 1..Len(b) : b[k].host # h
    <3>1. h \in prior <=> h \in prior'
      BY <2>5 DEF Tells
    <3>2. \A n \in (l + 1)..m : e[n].host # h
      <4> TAKE n \in (l + 1)..m
      <4>1. n - l \in 1..Len(b) /\ n = l + (n - l)
        BY <1>1 DEF m, l
      <4> QED BY <1>2, <2>5, <4>1
    <3>3. Live(e, h, m) <=> Live(e, h, l)
      <4>1. m \in Nat /\ l \in 0..m
        BY <1>1 DEF m, l
      <4> QED BY ONLY <3>2, <4>1, LiveAcross
    <3>4. \A n \in 1..m : n \in 1..l \/ n \in (l + 1)..m
      BY <1>1
    <3> QED BY <2>3, <2>4, <3>1, <3>2, <3>3, <3>4
  <2>6. CASE \E k \in 1..Len(b) : b[k].host = h
    <3>1. PICK k \in 1..Len(b) : b[k].host = h
      BY <2>6
    <3>2. \A i \in 1..Len(b) : b[i].host = h => i = k
      BY <3>1 DEF Tells
    <3>3. /\ b[k].name = IF h \in prior THEN "lost-host" ELSE "discovered-host"
          /\ h \in prior' <=> h \notin prior
      BY <3>1 DEF Tells
    <3>4. e[l + k] = b[k] /\ l + k \in 1..m /\ l + k - 1 \in Nat
      BY <1>1, <1>2 DEF m, l
    <3>5. \A n \in (l + 1)..m : n # l + k => e[n].host # h
      <4> TAKE n \in (l + 1)..m
      <4>1. n - l \in 1..Len(b) /\ n = l + (n - l)
        BY <1>1 DEF m, l
      <4> QED BY <1>2, <3>2, <4>1
    <3>6. Live(e, h, l + k - 1) <=> Live(e, h, l)
      <4>1. l \in 0..(l + k - 1)
        BY <1>1
      <4>2. \A n \in (l + 1)..(l + k - 1) : n \in (l + 1)..m /\ n # l + k
        BY <1>1, <3>4
      <4>3. \A n \in (l + 1)..(l + k - 1) : e[n].host # h
        BY <3>5, <4>2
      <4> QED BY <3>4, <4>1, <4>3, LiveAcross
    <3>7. /\ e[l + k].name = "discovered-host" => Live(e, h, m)
          /\ e[l + k].name = "lost-host" => ~Live(e, h, m)
      <4>1. \A n \in (l + k + 1)..m : n \in (l + 1)..m /\ n # l + k
        BY <1>1, <3>4
      <4>2. \A n \in (l + k + 1)..m : e[n].host # h
        BY <3>5, <4>1
      <4> QED BY <1>1, <3>1, <3>4, <4>2, LiveAfter
    <3>8. \A n \in 1..m : n \in 1..l \/ n \in (l + 1)..m
      BY <1>1
    <3>9. \A n \in 1..m : e[n].host = h =>
            e[n].name = IF Live(e, h, n - 1) THEN "lost-host" ELSE "discovered-host"
      <4> TAKE n \in 1..m
      <4>1. CASE n \in 1..l
        BY <2>3, <4>1
      <4>2. CASE n \in (l + 1)..m /\ n # l + k
        BY <3>5, <4>2
      <4>3. CASE n = l + k
        <5>1. e[n].name = IF h \in prior THEN "lost-host" ELSE "discovered-host"
          BY <3>3, <3>4, <4>3
        <5>2. n - 1 = l + k - 1
          BY <1>1, <4>3
        <5>3. h \in prior <=> Live(e, h, n - 1)
          BY <2>4, <3>6, <5>2, Zenon
        <5> QED BY <5>1, <5>3
      <4> QED BY <3>8, <4>1, <4>2, <4>3
    <3> QED BY <3>3, <3>4, <3>7, <3>9
  <2> QED BY <2>5, <2>6
<1>5. \A h, n : KnownLive(h, n)' <=> Live(e, h, n)
  BY DEF KnownLive, Is, Live, e
<1> QED BY <1>2, <1>4, <1>5 DEF EventsTellHosts, Is, e

\* One more event, about no host.
LEMMA OneEvent ==
    ASSUME TypeOK, NEW x \in Event, events' = Append(events, x)
    PROVE  /\ events' \in Seq(Event) /\ Len(events') = Len(events) + 1
           /\ \A i \in 1..Len(events) : events'[i] = events[i]
           /\ events'[Len(events) + 1] = x
           /\ x.host = "none" /\ EventsTellHosts /\ prior' = prior => EventsTellHosts'
<1>1. events \in Seq(Event) /\ Len(events) \in Nat
  BY LenProperties DEF TypeOK
<1>2. /\ events' \in Seq(Event) /\ Len(events') = Len(events) + 1
      /\ \A i \in 1..Len(events) : events'[i] = events[i]
      /\ events'[Len(events) + 1] = x
  BY <1>1, AppendProperties
<1>3. ASSUME x.host = "none", EventsTellHosts, prior' = prior PROVE EventsTellHosts'
  <2> DEFINE b == <<x>>
  <2>1. b \in Seq(Event) /\ Len(b) = 1 /\ b[1] = x
    OBVIOUS
  <2>2. events' = events \o b
    BY <1>1, AppendIsConcat
  <2>3. prior \in SUBSET Hosts
    BY DEF TypeOK
  <2> HIDE DEF b
  <2>4. Tells(b, prior, prior)
    BY <1>3, <2>1, HostsAssumption DEF Tells
  <2> QED BY <1>3, <2>1, <2>2, <2>3, <2>4, TellStep
<1> QED BY <1>2, <1>3

-----------------------------------------------------------------------------
(* Every step keeps the invariant.                                         *)

LEMMA InvInit == Init => Inv
<1> SUFFICES ASSUME Init PROVE Inv
  OBVIOUS
<1>1. TypeOK
  <2>1. request \in RequestType /\ request.base \in Nat
    BY RequestsAssumption DEF Init, RequestType
  <2>2. waited \in BOOLEAN
    BY DEF Init
  <2>3. prior \in SUBSET Hosts /\ events \in Seq(Event) /\ delays \in Seq(Nat)
    BY DEF Init
  <2> QED BY <2>1, <2>2, <2>3 DEF Init, TypeOK
<1>2. FailureInv /\ DelayInv /\ WakeInv
  BY DEF Init, FailureInv, DelayInv, WakeInv
<1>3. IntervalInv
  BY DEF Init, IntervalInv, Backoff
<1>4. EventsTellHosts
  BY DEF Init, EventsTellHosts, KnownLive
<1> QED BY <1>1, <1>2, <1>3, <1>4 DEF Inv

LEMMA BeginCycleKeeps == Inv /\ BeginCycle => Inv'
<1> SUFFICES ASSUME Inv, BeginCycle PROVE Inv'
  OBVIOUS
<1> DEFINE x == Wake(cycle + 1)
<1>1. TypeOK /\ pc = "loop" /\ pc' = "scan" /\ cycle' = cycle + 1 /\ clock' = 0
  BY DEF Inv, BeginCycle
<1>2. /\ request' = request /\ interval' = interval /\ waited' = waited
      /\ consecutive' = consecutive /\ schedule' = schedule /\ prior' = prior
      /\ delays' = delays
  BY DEF BeginCycle, counters
<1>3. \/ waited /\ Overdue /\ events' = Append(events, x)
      \/ ~(waited /\ Overdue) /\ events' = events
  BY DEF BeginCycle, Wake
<1>4. x \in Event /\ x.host = "none" /\ x.cycle = cycle + 1
  BY <1>1 DEF Wake, Ev, Event, TypeOK
<1> HIDE DEF x
<1>5. events' \in Seq(Event)
  BY <1>1, <1>3, <1>4, OneEvent DEF TypeOK
<1>6. TypeOK'
  BY <1>1, <1>2, <1>5 DEF TypeOK
<1>7. FailureInv'
  BY <1>1, <1>2 DEF FailureInv, Inv
<1>8. IntervalInv'
  BY <1>1, <1>2 DEF IntervalInv, Inv
<1>9. DelayInv'
  BY <1>1, <1>2 DEF DelayInv, Inv, TypeOK
<1>10. EventsTellHosts'
  <2>1. CASE events' = Append(events, x)
    <3>1. TypeOK /\ EventsTellHosts /\ x \in Event /\ x.host = "none" /\ prior' = prior
      BY <1>2, <1>4 DEF Inv
    <3> QED BY ONLY <2>1, <3>1, OneEvent
  <2>2. CASE events' = events
    <3>1. EventsTellHosts /\ prior' = prior
      BY <1>2 DEF Inv
    <3> QED BY ONLY <2>2, <3>1, AccountStands
  <2> QED BY <1>3, <2>1, <2>2
<1>11. WakeInv'
  <2>1. DelayInv /\ WakeInv
    BY DEF Inv
  <2>2. /\ events \in Seq(Event) /\ delays \in Seq(Nat) /\ cycle \in Nat
        /\ Len(events) \in Nat /\ Len(delays) \in Nat
    BY <1>1, LenProperties DEF TypeOK
  <2>3. /\ Len(events) <= Len(events')
        /\ \A i \in 1..Len(events) : events'[i] = events[i]
        /\ \A i \in 1..Len(events') :
             i \in 1..Len(events)
             \/ (i = Len(events) + 1 /\ events'[i] = x /\ waited /\ Overdue)
        /\ waited /\ Overdue =>
             Len(events) + 1 \in 1..Len(events') /\ events'[Len(events) + 1] = x
    BY <1>1, <1>3, <1>4, <2>2, OneEvent
  <2>4. \A i \in 1..Len(events') : events'[i].cycle <= cycle'
    <3> TAKE i \in 1..Len(events')
    <3>1. CASE i \in 1..Len(events)
      <4>1. events[i].cycle <= cycle /\ events[i].cycle \in Nat
        <5>1. events[i] \in Event
          BY <2>2, <3>1, ElementOfSeq
        <5> QED BY <2>1, <3>1, <5>1 DEF WakeInv, Event
      <4> QED BY <1>1, <2>2, <2>3, <3>1, <4>1
    <3>2. CASE events'[i] = x
      BY <1>1, <1>4, <2>2, <3>2
    <3> QED BY <2>3, <3>1, <3>2
  <2>5. ASSUME NEW n \in 1..Len(delays), n < cycle + 1
        PROVE  delays[n] > Tolerance <=> \E i \in 1..Len(events') : events'[i] = Wake(n + 1)
    <3>1. n \in Nat /\ n + 1 # cycle + 1 => Wake(n + 1) # x
      BY EvFields DEF Wake, x
    <3>2. CASE n < cycle
      <4>1. delays[n] > Tolerance <=> \E i \in 1..Len(events) : events[i] = Wake(n + 1)
        BY <2>1, <3>2 DEF WakeInv
      <4>2. Wake(n + 1) # x
        BY <2>2, <3>1, <3>2
      <4> QED BY <2>2, <2>3, <4>1, <4>2
    <3>3. CASE n = cycle
      <4>1. request.base # 0 /\ delays # <<>> /\ Len(delays) = cycle
        BY <1>1, <2>1, <2>2 DEF DelayInv
      <4>2. waited /\ clock = interval + delays[n]
        BY <1>1, <2>1, <3>3, <4>1 DEF DelayInv
      <4>3. delays[n] \in Nat /\ interval \in Nat /\ clock \in Nat
        BY <1>1, <2>2, ElementOfSeq DEF TypeOK
      <4>4. Overdue <=> delays[n] > Tolerance
        BY <4>2, <4>3 DEF Overdue, Tolerance
      <4>5. \A i \in 1..Len(events) : events[i] # Wake(n + 1)
        <5> TAKE i \in 1..Len(events)
        <5>1. events[i].cycle <= cycle /\ Wake(n + 1).cycle = cycle + 1
          BY <2>1, <3>3, EvFields DEF WakeInv, Wake
        <5> QED BY <2>2, <5>1
      <4> QED BY <2>3, <3>3, <4>2, <4>4, <4>5 DEF x
    <3> QED BY <2>2, <2>5, <3>2, <3>3
  <2> QED BY <1>1, <1>2, <2>4, <2>5 DEF WakeInv
<1> QED BY <1>6, <1>7, <1>8, <1>9, <1>10, <1>11 DEF Inv

\* Within a cycle no system-wake event is printed and no earlier delay changes.
LEMMA WakeKept ==
    ASSUME TypeOK, WakeInv, cycle' = cycle, Len(events') \in Nat,
           \A i \in 1..Len(events) : i \in 1..Len(events') /\ events'[i] = events[i],
           \A i \in 1..Len(events') :
             i \in 1..Len(events)
             \/ (events'[i].cycle = cycle /\ events'[i].name # "system-wake"),
           \A n \in 1..Len(delays') :
             (n \in 1..Len(delays) /\ delays'[n] = delays[n]) \/ n = cycle
    PROVE  WakeInv'
<1>1. cycle \in Nat
  BY DEF TypeOK
<1>2. \A i \in 1..Len(events') : events'[i].cycle <= cycle'
  BY <1>1 DEF WakeInv
<1>3. ASSUME NEW n \in 1..Len(delays'), n < cycle
      PROVE  delays'[n] > Tolerance
               <=> \E i \in 1..Len(events') : events'[i] = Wake(n + 1)
  <2>1. n \in 1..Len(delays) /\ delays'[n] = delays[n]
    BY <1>1, <1>3
  <2>2. delays[n] > Tolerance <=> \E i \in 1..Len(events) : events[i] = Wake(n + 1)
    BY <1>3, <2>1 DEF WakeInv
  <2>3. Wake(n + 1).name = "system-wake"
    BY EvFields DEF Wake
  <2> QED BY <2>1, <2>2, <2>3
<1> QED BY <1>2, <1>3 DEF WakeInv

\* What a step says that leaves the events, the delays and the hosts alone.
LEMMA Quiet ==
    ASSUME TypeOK, WakeInv, EventsTellHosts,
           cycle' = cycle, events' = events, delays' = delays, prior' = prior
    PROVE  WakeInv' /\ EventsTellHosts'
BY AccountStands DEF WakeInv

\* What a step says that adds one event, about no host.
LEMMA Remark ==
    ASSUME TypeOK, WakeInv, EventsTellHosts, NEW name \in {"skip", "backoff"},
           cycle' = cycle, events' = Append(events, Ev(name, cycle, "none")),
           delays' = delays, prior' = prior
    PROVE  events' \in Seq(Event) /\ WakeInv' /\ EventsTellHosts'
<1> DEFINE x == Ev(name, cycle, "none")
<1>1. /\ x \in Event /\ x.host = "none" /\ x.cycle = cycle /\ x.name # "system-wake"
  BY DEF Ev, Event, TypeOK
<1> HIDE DEF x
<1>2. events' = Append(events, x)
  BY DEF x
<1>3. /\ events' \in Seq(Event) /\ Len(events') = Len(events) + 1
      /\ \A i \in 1..Len(events) : events'[i] = events[i]
      /\ events'[Len(events) + 1] = x
      /\ EventsTellHosts'
  BY <1>1, <1>2, OneEvent
<1>4. Len(events) \in Nat
  BY LenProperties DEF TypeOK
<1>5. \A i \in 1..Len(events) : i \in 1..Len(events')
  BY <1>3, <1>4
<1>6. \A i \in 1..Len(events') : i \in 1..Len(events) \/ i = Len(events) + 1
  BY <1>3, <1>4
<1>7. \A n \in 1..Len(delays') : n \in 1..Len(delays) /\ delays'[n] = delays[n]
  OBVIOUS
<1>8. WakeInv'
  BY <1>1, <1>3, <1>4, <1>5, <1>6, <1>7, WakeKept
<1> QED BY <1>3, <1>8

LEMMA SkipScanKeeps == Inv /\ SkipScan => Inv'
<1> SUFFICES ASSUME Inv, SkipScan PROVE Inv'
  OBVIOUS
<1>1. TypeOK /\ pc = "scan" /\ pc' = "pace" /\ events' = Append(events, Ev("skip", cycle, "none"))
  BY DEF Inv, SkipScan
<1>2. /\ request' = request /\ interval' = interval /\ waited' = waited
      /\ consecutive' = consecutive /\ schedule' = schedule /\ prior' = prior
      /\ delays' = delays /\ cycle' = cycle /\ clock' = clock
  BY DEF SkipScan, counters
<1>3. events' \in Seq(Event) /\ WakeInv' /\ EventsTellHosts'
  BY <1>1, <1>2, Remark DEF Inv
<1>4. TypeOK'
  BY <1>1, <1>2, <1>3 DEF TypeOK
<1>5. FailureInv'
  BY <1>1, <1>2 DEF FailureInv, Inv, TypeOK
<1>6. IntervalInv'
  BY <1>1, <1>2 DEF IntervalInv, Inv
<1>7. DelayInv'
  BY <1>1, <1>2 DEF DelayInv, Inv
<1> QED BY <1>3, <1>4, <1>5, <1>6, <1>7 DEF Inv

LEMMA ScanFailsKeeps ==
    ASSUME NEW t \in 0..MaxScanTime
    PROVE  Inv /\ ScanFails(t) => Inv'
<1> SUFFICES ASSUME Inv, ScanFails(t) PROVE Inv'
  OBVIOUS
<1>1. /\ TypeOK /\ pc = "scan" /\ pc' = "pace" /\ clock' = t
      /\ consecutive' = consecutive + 1 /\ schedule' = schedule + 1
  BY DEF Inv, ScanFails
<1>2. /\ request' = request /\ interval' = interval /\ waited' = waited
      /\ prior' = prior /\ delays' = delays /\ cycle' = cycle /\ events' = events
  BY DEF ScanFails
<1>3. WakeInv' /\ EventsTellHosts'
  BY <1>1, <1>2, Quiet DEF Inv
<1>4. TypeOK'
  <2>1. t \in Nat
    BY TimesAssumption
  <2> QED BY <1>1, <1>2, <2>1 DEF TypeOK
<1>5. FailureInv'
  BY <1>1 DEF FailureInv, Inv, TypeOK
<1>6. IntervalInv'
  <2>1. PICK f \in 0..consecutive : interval = Backoff(request.base, f)
    BY <1>1 DEF IntervalInv, Inv
  <2>2. f \in 0..consecutive'
    BY <1>1 DEF TypeOK
  <2> QED BY <1>2, <2>1, <2>2 DEF IntervalInv
<1>7. DelayInv'
  BY <1>1, <1>2 DEF DelayInv, Inv
<1> QED BY <1>3, <1>4, <1>5, <1>6, <1>7 DEF Inv

LEMMA ScanCompletesKeeps ==
    ASSUME NEW t \in 0..MaxScanTime, NEW live \in SUBSET Hosts
    PROVE  Inv /\ ScanCompletes(live, t) => Inv'
<1> SUFFICES ASSUME Inv, ScanCompletes(live, t) PROVE Inv'
  OBVIOUS
<1> DEFINE b == HostEvents(prior, live)
<1>1. /\ TypeOK /\ pc = "scan" /\ pc' = "pace" /\ clock' = t
      /\ consecutive' = 0 /\ schedule' = 0 /\ prior' = live /\ events' = events \o b
  BY DEF Inv, ScanCompletes
<1>2. /\ request' = request /\ interval' = interval /\ waited' = waited
      /\ delays' = delays /\ cycle' = cycle
  BY DEF ScanCompletes
<1>3. /\ b \in Seq(Event) /\ Tells(b, prior, live)
      /\ \A i \in 1..Len(b) : b[i].cycle = cycle /\ b[i].name # "system-wake"
  BY <1>1, HostEventsTell DEF TypeOK
<1> HIDE DEF b
<1>4. EventsTellHosts'
  BY <1>1, <1>3, TellStep DEF Inv
<1>5. events \in Seq(Event) /\ Len(events) \in Nat /\ Len(b) \in Nat
  BY <1>1, <1>3, LenProperties DEF TypeOK
<1>6. events' \in Seq(Event) /\ Len(events') = Len(events) + Len(b)
  BY <1>1, <1>3, <1>5, ConcatProperties
<1>7. WakeInv'
  <2>1. \A i \in 1..(Len(events) + Len(b)) :
          events'[i] = IF i <= Len(events) THEN events[i] ELSE b[i - Len(events)]
    BY <1>1, <1>3, <1>5, ConcatProperties
  <2>2. \A i \in 1..Len(events) : i \in 1..Len(events') /\ events'[i] = events[i]
    BY <1>5, <1>6, <2>1
  <2>3. \A i \in 1..Len(events') : i \in 1..Len(events) \/ i - Len(events) \in 1..Len(b)
    BY <1>5, <1>6
  <2>4. \A i \in 1..Len(events') :
          i \in 1..Len(events)
          \/ (events'[i].cycle = cycle /\ events'[i].name # "system-wake")
    <3> TAKE i \in 1..Len(events')
    <3>1. CASE i \in 1..Len(events)
      BY <3>1
    <3>2. CASE i \notin 1..Len(events)
      <4>1. events'[i] = b[i - Len(events)] /\ i - Len(events) \in 1..Len(b)
        BY <1>5, <1>6, <2>1, <2>3, <3>2
      <4> QED BY <1>3, <4>1
    <3> QED BY <3>1, <3>2
  <2>5. \A n \in 1..Len(delays') : n \in 1..Len(delays) /\ delays'[n] = delays[n]
    BY <1>2
  <2> QED BY <1>1, <1>2, <1>5, <1>6, <2>2, <2>4, <2>5, WakeKept DEF Inv
<1>8. TypeOK'
  <2>1. t \in Nat
    BY TimesAssumption
  <2> QED BY <1>1, <1>2, <1>6, <2>1 DEF TypeOK
<1>9. FailureInv'
  BY <1>1 DEF FailureInv
<1>10. IntervalInv'
  BY <1>1 DEF IntervalInv
<1>11. DelayInv'
  BY <1>1, <1>2 DEF DelayInv, Inv
<1> QED BY <1>4, <1>7, <1>8, <1>9, <1>10, <1>11 DEF Inv

LEMMA PaceKeeps == Inv /\ Pace => Inv'
<1> SUFFICES ASSUME Inv, Pace PROVE Inv'
  OBVIOUS
<1>1. /\ TypeOK /\ pc = "pace" /\ interval' = Backoff(request.base, consecutive)
      /\ pc' = IF LastCycle THEN "done"
               ELSE IF request.base = 0 \/ interval' = 0 THEN "loop" ELSE "sleep"
  BY DEF Inv, Pace
<1>2. /\ request' = request /\ waited' = waited /\ consecutive' = consecutive
      /\ prior' = prior /\ delays' = delays /\ cycle' = cycle /\ clock' = clock
  BY DEF Pace
<1>3. \/ schedule > 2 /\ schedule' = 0 /\ events' = Append(events, Ev("backoff", cycle, "none"))
      \/ ~(schedule > 2) /\ schedule' = schedule /\ events' = events
  BY DEF Pace
<1>4. request.base \in Nat /\ consecutive \in Nat /\ schedule \in Nat
  BY <1>1 DEF TypeOK, RequestType
<1>5. interval' \in Nat /\ (request.base # 0 => interval' # 0)
  BY <1>1, <1>4, BackoffType
<1>6. pc' \in {"done", "loop", "sleep"} /\ (pc' = "loop" => request.base = 0)
  BY <1>1, <1>5
<1>7. events' \in Seq(Event) /\ WakeInv' /\ EventsTellHosts'
  <2>1. CASE events' = Append(events, Ev("backoff", cycle, "none"))
    BY <1>1, <1>2, <2>1, Remark DEF Inv
  <2>2. CASE events' = events
    BY <1>1, <1>2, <2>2, Quiet DEF Inv, TypeOK
  <2> QED BY <1>3, <2>1, <2>2
<1>8. TypeOK'
  BY <1>1, <1>2, <1>3, <1>5, <1>6, <1>7 DEF TypeOK
<1>9. FailureInv'
  <2>1. schedule % 3 = consecutive % 3 /\ schedule <= 3
    BY <1>1 DEF Inv, FailureInv
  <2> QED BY <1>2, <1>3, <1>4, <2>1 DEF FailureInv
<1>10. IntervalInv'
  BY <1>1, <1>2, <1>4 DEF IntervalInv
<1>11. DelayInv'
  BY <1>1, <1>2, <1>6 DEF DelayInv, Inv
<1> QED BY <1>7, <1>8, <1>9, <1>10, <1>11 DEF Inv

LEMMA SleepKeeps ==
    ASSUME NEW extra \in 0..MaxOversleep
    PROVE  Inv /\ Sleep(extra) => Inv'
<1> SUFFICES ASSUME Inv, Sleep(extra) PROVE Inv'
  OBVIOUS
<1> DEFINE d == clock + extra
<1>1. /\ TypeOK /\ pc = "sleep" /\ pc' = "loop" /\ waited' = TRUE
      /\ clock' = clock + interval + extra /\ delays' = Append(delays, d)
  BY DEF Inv, Sleep
<1>2. /\ request' = request /\ interval' = interval /\ cycle' = cycle
      /\ consecutive' = consecutive /\ schedule' = schedule /\ prior' = prior
      /\ events' = events
  BY DEF Sleep, counters
<1>3. d \in Nat /\ clock \in Nat /\ interval \in Nat /\ cycle \in Nat
  BY <1>1, TimesAssumption DEF TypeOK
<1>4. clock' = interval + d
  BY <1>1, <1>3, TimesAssumption
<1> HIDE DEF d
<1>5. delays \in Seq(Nat) /\ Len(delays) \in Nat /\ Len(events) \in Nat
  BY <1>1, LenProperties DEF TypeOK
<1>6. /\ delays' \in Seq(Nat) /\ Len(delays') = Len(delays) + 1
      /\ \A n \in 1..Len(delays) : delays'[n] = delays[n]
      /\ delays'[Len(delays) + 1] = d
  BY <1>1, <1>3, <1>5, AppendProperties
<1>7. request.base # 0 /\ cycle >= 1 /\ Len(delays) = cycle - 1
  <2>1. DelayInv /\ cycle >= 1
    BY <1>1 DEF Inv, DelayInv
  <2>2. request.base # 0
    BY <1>1 DEF Inv, DelayInv
  <2> QED BY <1>1, <2>1, <2>2 DEF DelayInv
<1>8. TypeOK'
  <2>1. clock' \in Nat
    BY <1>3, <1>4
  <2> QED BY <1>1, <1>2, <1>6, <2>1 DEF TypeOK
<1>9. FailureInv'
  BY <1>1, <1>2 DEF FailureInv, Inv
<1>10. IntervalInv'
  BY <1>1, <1>2 DEF IntervalInv, Inv
<1>11. DelayInv'
  <2>1. Len(delays') = cycle /\ delays' # <<>> /\ delays'[Len(delays')] = d
    BY <1>3, <1>5, <1>6, <1>7
  <2> QED BY <1>1, <1>2, <1>4, <1>7, <2>1 DEF DelayInv
<1>12. WakeInv'
  <2>1. \A n \in 1..Len(delays') :
          (n \in 1..Len(delays) /\ delays'[n] = delays[n]) \/ n = cycle
    BY <1>3, <1>5, <1>6, <1>7
  <2> QED BY <1>1, <1>2, <1>5, <2>1, WakeKept DEF Inv
<1>13. EventsTellHosts'
  BY <1>2, AccountStands DEF Inv
<1> QED BY <1>8, <1>9, <1>10, <1>11, <1>12, <1>13 DEF Inv

LEMMA StopKeeps == Inv /\ (Interrupt \/ UNCHANGED vars) => Inv'
<1> SUFFICES ASSUME Inv, Interrupt \/ UNCHANGED vars PROVE Inv'
  OBVIOUS
<1>1. /\ request' = request /\ interval' = interval /\ cycle' = cycle /\ clock' = clock
      /\ consecutive' = consecutive /\ schedule' = schedule /\ prior' = prior
      /\ events' = events /\ delays' = delays /\ waited' = waited
      /\ pc' = "killed" \/ pc' = pc
  BY DEF Interrupt, vars, counters
<1>2. TypeOK'
  BY <1>1 DEF Inv, TypeOK
<1>3. FailureInv'
  <2>1. schedule \in Nat
    BY DEF Inv, TypeOK
  <2> QED BY <1>1, <2>1 DEF Inv, FailureInv
<1>4. IntervalInv'
  BY <1>1 DEF Inv, IntervalInv
<1>5. DelayInv'
  BY <1>1 DEF Inv, DelayInv
<1>6. WakeInv' /\ EventsTellHosts'
  BY <1>1, Quiet DEF Inv
<1> QED BY <1>2, <1>3, <1>4, <1>5, <1>6 DEF Inv

LEMMA InvStep == Inv /\ [Next]_vars => Inv'
<1> SUFFICES ASSUME Inv, [Next]_vars PROVE Inv'
  OBVIOUS
<1>1. CASE BeginCycle
  BY <1>1, BeginCycleKeeps
<1>2. CASE SkipScan
  BY <1>2, SkipScanKeeps
<1>3. CASE Pace
  BY <1>3, PaceKeeps
<1>4. ASSUME NEW t \in 0..MaxScanTime, ScanFails(t) PROVE Inv'
  BY <1>4, ScanFailsKeeps
<1>5. ASSUME NEW t \in 0..MaxScanTime, NEW live \in SUBSET Hosts, ScanCompletes(live, t)
      PROVE  Inv'
  BY <1>5, ScanCompletesKeeps
<1>6. ASSUME NEW extra \in 0..MaxOversleep, Sleep(extra) PROVE Inv'
  BY <1>6, SleepKeeps
<1>7. CASE Interrupt \/ UNCHANGED vars
  BY <1>7, StopKeeps
<1> QED BY <1>1, <1>2, <1>3, <1>4, <1>5, <1>6, <1>7 DEF Next, Step, Ended

LEMMA Invariance == Spec => []Inv
BY InvInit, InvStep, PTL DEF Spec

-----------------------------------------------------------------------------
(* The theorems.                                                           *)

\* Whatever scans failed or were skipped, the printed events tell which hosts
\* the monitor holds for live: each host is discovered and lost in turn.
THEOREM EventsAccountForHosts == Spec => []EventsTellHosts
<1>1. Inv => EventsTellHosts
  BY DEF Inv
<1> QED BY <1>1, Invariance, PTL

\* At the end of a cycle the failures in a row that no notice has counted are
\* those beyond a multiple of three, skipped cycles between them or not.
THEOREM NoticesCountFailures == Spec => []NoticeEveryThirdFailure
<1>1. Inv => NoticeEveryThirdFailure
  BY DEF Inv, TypeOK, FailureInv, NoticeEveryThirdFailure
<1> QED BY <1>1, Invariance, PTL

\* A system-wake event is printed exactly when the cycle before was late.
THEOREM WakesTellLateness == Spec => []WakeMeansLate
<1>1. Inv => WakeMeansLate
  <2> SUFFICES ASSUME Inv, NEW n \in 1..(cycle - 1), n \in DOMAIN delays
               PROVE  delays[n] > Tolerance
                        <=> Ev("system-wake", n + 1, "none") \in ToSet(events)
    BY DEF WakeMeansLate
  <2>1. cycle \in Nat /\ events \in Seq(Event) /\ delays \in Seq(Nat)
    BY DEF Inv, TypeOK
  <2>2. n \in 1..Len(delays) /\ n < cycle
    BY <2>1, LenProperties
  <2>3. delays[n] > Tolerance <=> \E i \in 1..Len(events) : events[i] = Wake(n + 1)
    BY <2>2 DEF Inv, WakeInv
  <2>4. DOMAIN events = 1..Len(events)
    BY <2>1, LenProperties
  <2> QED BY <2>3, <2>4 DEF ToSet, Wake
<1> QED BY <1>1, Invariance, PTL

\* After a failure the pause is no shorter than asked and than the one before,
\* up to the cap, however many failures there were.
THEOREM FailuresNeverHasten == Spec => BackoffSlowsDown
<1>1. ASSUME Inv, [Next]_vars, pc = "pace", consecutive > 0, request.base > 0,
             ~UNCHANGED vars
      PROVE  interval' >= Least(Cap, request.base) /\ interval' >= Least(Cap, interval)
  <2>1. request.base \in Nat \ {0} /\ consecutive \in Nat \ {0}
    BY <1>1 DEF Inv, TypeOK, RequestType
  <2>2. PICK f \in 0..consecutive : interval = Backoff(request.base, f)
    BY <1>1, <2>1 DEF Inv, IntervalInv
  <2>3. CASE Pace
    BY <2>1, <2>2, <2>3, BackoffGrows DEF Pace
  <2>4. CASE Interrupt
    <3>1. interval' = interval /\ interval \in Nat
      BY <1>1, <2>4 DEF Interrupt, Inv, TypeOK
    <3>2. interval >= Least(Cap, request.base)
      <4>1. CASE f = 0
        BY <2>1, <2>2, <4>1 DEF Backoff, Least, Cap
      <4>2. CASE f # 0
        BY <2>1, <2>2, <4>2, BackoffGrows
      <4> QED BY <4>1, <4>2
    <3> QED BY <3>1, <3>2 DEF Least, Cap
  <2> QED BY <1>1, <2>3, <2>4
          DEF Next, Step, Ended, BeginCycle, SkipScan, ScanFails, ScanCompletes, Sleep
<1>2. Inv /\ [Next]_vars => [pc = "pace" /\ consecutive > 0 /\ request.base > 0
        => /\ interval' >= Least(Cap, request.base)
           /\ interval' >= Least(Cap, interval)]_vars
  BY <1>1
<1> QED BY <1>2, Invariance, PTL DEF Spec, BackoffSlowsDown
=============================================================================
