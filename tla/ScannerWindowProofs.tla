------------------------ MODULE ScannerWindowProofs ------------------------
(***************************************************************************)
(* What the window shows, for any hosts, ports, adapters, launches and     *)
(* numbers of threads: whatever scans overlap and in whatever order their  *)
(* closures are run, its data agree with each other and its status line    *)
(* settles.  The argument is about the queue: every closure that waits is  *)
(* sound by itself, and progress that waits has a scan behind it.          *)
(***************************************************************************)
EXTENDS ScannerWindow, WellFoundedInduction, SequenceTheorems, TLAPS

Device == [ports : SUBSET Ports, judged : [ports : SUBSET Ports, gateway : Hosts]]
Data == [devices : UNION {[up -> Device] : up \in SUBSET Hosts},
         rows : SUBSET (Hosts \X Ports)]

Thread == [kind : {"scan", "ports", "wifi"}, targets : SUBSET Hosts,
           fallback : Hosts, timed : BOOLEAN]

Closure ==
    [kind : {"progress", "wifi"}]
      \cup [kind : {"scan"}, timed : BOOLEAN, gateway : Hosts, result : Data]
      \cup [kind : {"ports"}, found : SUBSET (Hosts \X Ports)]

TypeOK ==
    /\ scan \in Data
    /\ context \in Hosts
    /\ selected \in Hosts \cup {None}
    /\ filter \in {"all", "open ports"}
    /\ status \in {"settled", "under way"}
    /\ threads \in Seq(Thread)
    /\ queue \in Seq(Closure)

\* The devices and the rows of one scan, judged by one gateway.
Agree(d, gateway) ==
    \A h \in DOMAIN d.devices :
        /\ d.devices[h].ports = {p \in Ports : <<h, p>> \in d.rows}
        /\ d.devices[h].judged = Judge(d.devices[h].ports, gateway)

DataInv ==
    /\ Agree(scan, context)
    /\ \A i \in DOMAIN queue :
         queue[i].kind = "scan" => Agree(queue[i].result, queue[i].gateway)

\* A scan still runs, or its closure waits behind the one at i.
ScanFollows(i) ==
    \/ \E t \in DOMAIN threads : threads[t].kind = "scan"
    \/ \E j \in DOMAIN queue : j > i /\ queue[j].kind = "scan"

StatusInv ==
    /\ \A i \in DOMAIN queue : queue[i].kind = "progress" => ScanFollows(i)
    /\ status = "under way" =>
         threads # <<>> \/ \E i \in DOMAIN queue : queue[i].kind # "progress"

Inv == TypeOK /\ DataInv /\ SelectionShown /\ StatusInv

-----------------------------------------------------------------------------
(* The operators of the window.                                            *)

LEMMA NoDataType == NoData \in Data /\ DOMAIN NoData.devices = {}
<1>1. <<>> \in [{} -> Device]
  OBVIOUS
<1>2. <<>> \in UNION {[up -> Device] : up \in SUBSET Hosts}
  BY <1>1
<1> QED BY <1>2 DEF NoData, Data

LEMMA ScanDataType ==
    ASSUME NEW up \in SUBSET Hosts, NEW found \in [up -> SUBSET Ports], NEW g \in Hosts
    PROVE  ScanData(found, g) \in Data /\ Agree(ScanData(found, g), g)
<1>1. Rows(found) \in SUBSET (Hosts \X Ports)
  BY DEF Rows
<1>2. \A h \in up : found[h] = {p \in Ports : <<h, p>> \in Rows(found)}
  BY DEF Rows
<1> DEFINE devices == [h \in DOMAIN found |->
                         [ports |-> found[h], judged |-> Judge(found[h], g)]]
<1>3. devices \in [up -> Device]
  BY DEF Device, Judge
<1>4. devices \in UNION {[u -> Device] : u \in SUBSET Hosts}
  BY <1>3
<1>5. ScanData(found, g) = [devices |-> devices, rows |-> Rows(found)]
  BY DEF ScanData
<1>6. \A h \in up : devices[h].ports = found[h] /\ devices[h].judged = Judge(found[h], g)
  OBVIOUS
<1>7. DOMAIN devices = up
  OBVIOUS
<1> HIDE DEF devices
<1> QED BY <1>1, <1>2, <1>4, <1>5, <1>6, <1>7 DEF Data, Agree

\* Ports found on devices, whichever they were looked for on, keep the data in
\* agreement.
LEMMA WithPortsType ==
    ASSUME NEW d \in Data, NEW g \in Hosts, Agree(d, g),
           NEW found \in SUBSET (Hosts \X Ports)
    PROVE  LET e == [devices |-> WithPorts(d.devices, found, g), rows |-> d.rows \union found]
           IN  e \in Data /\ Agree(e, g) /\ DOMAIN e.devices = DOMAIN d.devices
<1> DEFINE W == WithPorts(d.devices, found, g)
           new(h) == {p \in Ports : <<h, p>> \in found}
           all(h) == d.devices[h].ports \union new(h)
<1>1. PICK up \in SUBSET Hosts : d.devices \in [up -> Device]
  BY DEF Data
<1>2. W = [h \in up |-> IF new(h) = {} THEN d.devices[h]
                        ELSE [ports |-> all(h), judged |-> Judge(all(h), g)]]
  BY <1>1 DEF WithPorts
<1>3. \A h \in up : W[h] \in Device /\ W[h].ports = all(h)
                    /\ W[h].judged = Judge(W[h].ports, g)
  <2> TAKE h \in up
  <2>1. d.devices[h] \in Device /\ d.devices[h].ports \subseteq Ports
    BY <1>1 DEF Device
  <2>2. CASE new(h) = {}
    <3>1. W[h] = d.devices[h] /\ all(h) = d.devices[h].ports
      BY <1>2, <2>2
    <3>2. d.devices[h].judged = Judge(d.devices[h].ports, g)
      BY <1>1 DEF Agree
    <3> QED BY <2>1, <3>1, <3>2
  <2>3. CASE new(h) # {}
    <3>1. W[h] = [ports |-> all(h), judged |-> Judge(all(h), g)]
      BY <1>2, <2>3
    <3>2. all(h) \subseteq Ports
      BY <2>1
    <3> HIDE DEF W, all
    <3> QED BY <3>1, <3>2 DEF Device, Judge
  <2> QED BY <2>2, <2>3
<1>4. W \in [up -> Device] /\ DOMAIN W = up
  BY <1>2, <1>3
<1>5. W \in UNION {[u -> Device] : u \in SUBSET Hosts}
  BY <1>4
<1>6. \A h \in up : all(h) = {p \in Ports : <<h, p>> \in d.rows \union found}
  BY <1>1 DEF Agree
<1>7. d.rows \union found \in SUBSET (Hosts \X Ports)
  BY DEF Data
<1> DEFINE e == [devices |-> W, rows |-> d.rows \union found]
<1>8. e.devices = W /\ e.rows = d.rows \union found
  OBVIOUS
<1> HIDE DEF W, all
<1>9. e \in Data
  BY <1>5, <1>7 DEF Data
<1>10. DOMAIN e.devices = DOMAIN d.devices
  BY <1>1, <1>4, <1>8
<1>11. Agree(e, g)
  BY <1>3, <1>4, <1>6, <1>8 DEF Agree
<1> QED BY <1>9, <1>10, <1>11 DEF W

\* A non-empty set of addresses has a least one.
LEMMA MinIn ==
    ASSUME NEW S \in SUBSET Nat, S # {}
    PROVE  Min(S) \in S
<1>1. PICK s \in S : \A u \in S : ~ (<<u, s>> \in OpToRel(<, Nat))
  BY NatLessThanWellFounded, WFMin
<1>2. \A u \in S : s <= u
  <2> SUFFICES ASSUME NEW u \in S, u < s PROVE FALSE
    OBVIOUS
  <2>1. u \in Nat /\ s \in Nat /\ u < s
    OBVIOUS
  <2> QED BY <1>1, <2>1 DEF OpToRel
<1> QED BY <1>2 DEF Min

LEMMA RefreshedShown ==
    ASSUME NEW d \in Data, NEW f, NEW s \in DOMAIN d.devices \cup {None}
    PROVE  /\ Refreshed(d.devices, s, f) \in DOMAIN d.devices \cup {None}
           /\ DOMAIN d.devices \subseteq Hosts
<1>1. Visible(d.devices, f) \subseteq DOMAIN d.devices
  BY DEF Visible
<1>2. DOMAIN d.devices \subseteq Hosts /\ Hosts \subseteq Nat
  BY HostsAssumption DEF Data
<1> QED BY <1>1, <1>2, MinIn DEF Refreshed

\* Removing a thread keeps the others, in order.
LEMMA RemoveAtType ==
    ASSUME NEW S, NEW s \in Seq(S), NEW t \in DOMAIN s
    PROVE  RemoveAt(s, t) \in Seq(S)
BY DEF RemoveAt

LEMMA Behind ==
    ASSUME NEW n \in Nat, NEW t \in 1..n, NEW u \in 1..n, t < u
    PROVE  /\ u - 1 \in 1..(n - 1) /\ ~ (u - 1 <= t - 1)
           /\ u - 1 - (t - 1) = u - t /\ u - t \in 1..(n - t) /\ u - t + t = u
OBVIOUS

LEMMA RemoveAtKeeps ==
    ASSUME NEW S, NEW s \in Seq(S), NEW t \in DOMAIN s, NEW u \in DOMAIN s, u # t
    PROVE  \E v \in DOMAIN RemoveAt(s, t) : RemoveAt(s, t)[v] = s[u]
<1>1. t \in 1..Len(s) /\ u \in 1..Len(s) /\ Len(s) \in Nat
  OBVIOUS
<1> DEFINE a == SubSeq(s, 1, t - 1)
           b == SubSeq(s, t + 1, Len(s))
<1>2. /\ a \in Seq(S) /\ Len(a) = t - 1 /\ \A v \in 1..(t - 1) : a[v] = s[v]
      /\ b \in Seq(S) /\ Len(b) = Len(s) - t
      /\ \A v \in 1..(Len(s) - t) : b[v] = s[v + t]
  BY <1>1
<1>3. RemoveAt(s, t) = a \o b
  BY DEF RemoveAt
<1> HIDE DEF a, b
<1> DEFINE c == a \o b
<1>4. /\ c \in Seq(S) /\ Len(c) = Len(a) + Len(b)
      /\ \A i \in 1..(Len(a) + Len(b)) : c[i] = IF i <= Len(a) THEN a[i] ELSE b[i - Len(a)]
  BY <1>2, ConcatProperties
<1>5. DOMAIN c = 1..(Len(s) - 1)
  <2> HIDE DEF c
  <2> QED BY <1>1, <1>2, <1>4
<1> HIDE DEF c
<1>6. CASE u < t
  <2>1. u \in 1..(Len(s) - 1) /\ u <= Len(a)
    BY <1>1, <1>2, <1>6
  <2>2. c[u] = s[u]
    BY <1>1, <1>2, <1>4, <2>1
  <2> QED BY <1>3, <1>5, <2>1, <2>2 DEF c
<1>7. CASE t < u
  <2>1. /\ u - 1 \in 1..(Len(s) - 1) /\ ~ (u - 1 <= t - 1)
        /\ u - 1 - (t - 1) = u - t /\ u - t \in 1..(Len(s) - t) /\ u - t + t = u
    BY <1>1, <1>7, Behind
  <2>2. c[u - 1] = b[u - t]
    <3>1. Len(a) + Len(b) = Len(s) - 1
      BY <1>1, <1>2
    <3> QED BY <1>2, <1>4, <2>1, <3>1
  <2>3. b[u - t] = s[u]
    BY <1>2, <2>1
  <2> QED BY <1>3, <1>5, <2>1, <2>2, <2>3 DEF c
<1> QED BY <1>1, <1>6, <1>7

-----------------------------------------------------------------------------
(* Queue steps: a closure is posted, or the first one is run.              *)

LEMMA Posted ==
    ASSUME queue \in Seq(Closure), NEW c \in Closure, queue' = Append(queue, c)
    PROVE  /\ queue' \in Seq(Closure)
           /\ DOMAIN queue = 1..Len(queue)
           /\ DOMAIN queue' = 1..(Len(queue) + 1)
           /\ \A i \in DOMAIN queue : queue'[i] = queue[i]
           /\ queue'[Len(queue) + 1] = c
OBVIOUS

LEMMA Taken ==
    ASSUME queue \in Seq(Closure), queue # <<>>, queue' = Tail(queue)
    PROVE  /\ queue' \in Seq(Closure)
           /\ 1 \in DOMAIN queue /\ Head(queue) = queue[1] /\ Head(queue) \in Closure
           /\ DOMAIN queue = 1..Len(queue) /\ Len(queue) \in Nat \ {0}
           /\ DOMAIN queue' = 1..(Len(queue) - 1)
           /\ \A i \in DOMAIN queue' : queue'[i] = queue[i + 1]
OBVIOUS

\* The kind of a closure tells what it carries.
LEMMA Kinds ==
    ASSUME NEW c \in Closure
    PROVE  /\ c.kind \in {"progress", "wifi", "scan", "ports"}
           /\ c.kind = "scan" => c.result \in Data /\ c.gateway \in Hosts
           /\ c.kind = "ports" => c.found \in SUBSET (Hosts \X Ports)
BY DEF Closure

\* Posting a closure that is no progress: what waits stays answered.
LEMMA PostedStatus ==
    ASSUME TypeOK, StatusInv, NEW t \in DOMAIN threads, NEW c \in Closure,
           c.kind = IF threads[t].kind = "scan" THEN "scan" ELSE threads[t].kind,
           c.kind # "progress",
           threads' = RemoveAt(threads, t), queue' = Append(queue, c), UNCHANGED status
    PROVE  StatusInv'
<1>1. /\ DOMAIN queue = 1..Len(queue) /\ Len(queue) \in Nat
      /\ DOMAIN queue' = 1..(Len(queue) + 1)
      /\ \A i \in DOMAIN queue : queue'[i] = queue[i]
      /\ queue'[Len(queue) + 1] = c
  <2>1. queue \in Seq(Closure)
    BY DEF TypeOK
  <2> QED BY <2>1, Posted
<1>2. \A i \in DOMAIN queue' : queue'[i].kind = "progress" => ScanFollows(i)'
  <2> SUFFICES ASSUME NEW i \in DOMAIN queue', queue'[i].kind = "progress"
               PROVE  ScanFollows(i)'
    OBVIOUS
  <2>1. i \in DOMAIN queue /\ queue[i].kind = "progress"
    BY <1>1
  <2>2. CASE threads[t].kind = "scan"
    BY <1>1, <2>1, <2>2 DEF ScanFollows
  <2>3. CASE threads[t].kind # "scan"
    <3>1. CASE \E j \in DOMAIN queue : j > i /\ queue[j].kind = "scan"
      BY <1>1, <3>1 DEF ScanFollows
    <3>2. CASE \E u \in DOMAIN threads : threads[u].kind = "scan"
      <4>1. PICK u \in DOMAIN threads : threads[u].kind = "scan"
        BY <3>2
      <4>2. \E v \in DOMAIN threads' : threads'[v] = threads[u]
        BY <2>3, <4>1, RemoveAtKeeps DEF TypeOK
      <4> QED BY <4>1, <4>2 DEF ScanFollows
    <3> QED BY <2>1, <3>1, <3>2 DEF StatusInv, ScanFollows
  <2> QED BY <2>2, <2>3
<1>3. \E i \in DOMAIN queue' : queue'[i].kind # "progress"
  BY <1>1
<1> QED BY <1>2, <1>3 DEF StatusInv

\* Running the first closure: what waits behind it stays sound, and answered.
LEMMA TakenSound ==
    ASSUME Inv, queue # <<>>, queue' = Tail(queue), UNCHANGED threads
    PROVE  /\ queue' \in Seq(Closure)
           /\ \A i \in DOMAIN queue' :
                queue'[i].kind = "scan" => Agree(queue'[i].result, queue'[i].gateway)
           /\ \A i \in DOMAIN queue' : queue'[i].kind = "progress" => ScanFollows(i)'
<1>1. queue \in Seq(Closure)
  BY DEF Inv, TypeOK
<1>2. /\ queue' \in Seq(Closure)
      /\ DOMAIN queue = 1..Len(queue) /\ Len(queue) \in Nat \ {0}
      /\ DOMAIN queue' = 1..(Len(queue) - 1)
      /\ \A i \in DOMAIN queue' : queue'[i] = queue[i + 1]
  BY <1>1, Taken
<1>3. \A i \in DOMAIN queue' : i + 1 \in DOMAIN queue
  BY <1>2
<1>4. ASSUME NEW i \in DOMAIN queue', queue'[i].kind = "progress"
      PROVE  ScanFollows(i)'
  <2>1. ScanFollows(i + 1)
    BY <1>2, <1>3, <1>4 DEF Inv, StatusInv
  <2>2. CASE \E t \in DOMAIN threads : threads[t].kind = "scan"
    BY <2>2 DEF ScanFollows
  <2>3. ASSUME NEW j \in DOMAIN queue, j > i + 1, queue[j].kind = "scan"
        PROVE  ScanFollows(i)'
    <3>1. j - 1 \in DOMAIN queue' /\ j - 1 > i /\ j - 1 + 1 = j
      BY <1>2, <1>4, <2>3
    <3> QED BY <1>2, <2>3, <3>1 DEF ScanFollows
  <2> QED BY <2>1, <2>2, <2>3 DEF ScanFollows
<1>5. \A i \in DOMAIN queue' :
        queue'[i].kind = "scan" => Agree(queue'[i].result, queue'[i].gateway)
  BY <1>2, <1>3 DEF Inv, DataInv
<1> QED BY <1>2, <1>4, <1>5

\* Nothing that the invariant speaks of but the selection, the filter or the
\* status line changes.
LEMMA QuietStep ==
    ASSUME Inv, UNCHANGED <<scan, context, threads, queue>>,
           selected' \in Addresses \cup {None}, filter' \in {"all", "open ports"},
           status' \in {"settled", status}
    PROVE  Inv'
<1>1. Addresses \subseteq Hosts
  BY RefreshedShown DEF Inv, TypeOK, Addresses
<1>2. TypeOK'
  BY <1>1 DEF Inv, TypeOK
<1>3. DataInv' /\ SelectionShown'
  BY DEF Inv, DataInv, SelectionShown, Addresses
<1>4. StatusInv'
  BY DEF Inv, StatusInv, ScanFollows
<1> QED BY <1>2, <1>3, <1>4 DEF Inv

LEMMA BeginStep ==
    ASSUME Inv, NEW kind \in {"scan", "ports", "wifi"}, NEW targets \in SUBSET Hosts,
           NEW timed \in BOOLEAN, Begin(kind, targets, timed),
           UNCHANGED <<scan, context, filter>>, selected' \in Addresses \cup {None}
    PROVE  Inv'
<1> DEFINE th == [kind |-> kind, targets |-> targets, fallback |-> context, timed |-> timed]
<1>1. th \in Thread
  BY DEF Inv, TypeOK, Thread
<1>2. threads \in Seq(Thread) /\ threads' = Append(threads, th)
      /\ queue' = queue /\ status' = "under way"
  BY DEF Inv, TypeOK, Begin
<1> HIDE DEF th
<1>3. /\ threads' \in Seq(Thread) /\ threads' # <<>>
      /\ \A t \in DOMAIN threads : t \in DOMAIN threads' /\ threads'[t] = threads[t]
  <2>1. threads \in Seq(Thread) /\ threads' = Append(threads, th)
    BY <1>2
  <2>2. threads' \in Seq(Thread) /\ threads' # <<>> /\ Len(threads') = Len(threads) + 1
    BY <1>1, <2>1, AppendProperties
  <2>3. \A t \in 1..Len(threads) : threads'[t] = threads[t]
    BY <1>1, <2>1, AppendProperties
  <2>4. DOMAIN threads = 1..Len(threads) /\ DOMAIN threads' = 1..Len(threads')
        /\ Len(threads) \in Nat
    BY <2>1, <2>2, LenProperties
  <2> QED BY <2>2, <2>3, <2>4
<1>4. TypeOK'
  <2>1. Addresses \subseteq Hosts
    BY RefreshedShown DEF Inv, TypeOK, Addresses
  <2> QED BY <1>2, <1>3, <2>1 DEF Inv, TypeOK
<1>5. DataInv' /\ SelectionShown'
  BY <1>2 DEF Inv, DataInv, SelectionShown, Addresses
<1>6. StatusInv'
  <2>1. \A i \in DOMAIN queue : ScanFollows(i) => ScanFollows(i)'
    BY <1>2, <1>3 DEF ScanFollows
  <2> QED BY <1>2, <1>3, <2>1 DEF Inv, StatusInv
<1> QED BY <1>4, <1>5, <1>6 DEF Inv

LEMMA PostStep ==
    ASSUME Inv, NEW t \in DOMAIN threads, NEW c \in Closure, c.kind = threads[t].kind,
           c.kind = "scan" => Agree(c.result, c.gateway), Post(t, c)
    PROVE  Inv'
<1>1. /\ threads' = RemoveAt(threads, t) /\ queue' = Append(queue, c)
      /\ UNCHANGED <<scan, context, selected, filter, status>>
  BY DEF Post, data, rest
<1>2. threads \in Seq(Thread) /\ queue \in Seq(Closure) /\ threads[t] \in Thread
  <2>1. threads \in Seq(Thread) /\ queue \in Seq(Closure)
    BY DEF Inv, TypeOK
  <2> QED BY <2>1, LenProperties, ElementOfSeq
<1>3. threads' \in Seq(Thread) /\ c.kind # "progress"
  BY <1>1, <1>2, RemoveAtType DEF Thread
<1>4. /\ queue' \in Seq(Closure)
      /\ DOMAIN queue = 1..Len(queue)
      /\ DOMAIN queue' = 1..(Len(queue) + 1)
      /\ \A i \in DOMAIN queue : queue'[i] = queue[i]
      /\ queue'[Len(queue) + 1] = c
  BY <1>1, <1>2, Posted
<1>5. TypeOK'
  BY <1>1, <1>3, <1>4 DEF Inv, TypeOK
<1>6. DataInv'
  <2>1. \A i \in DOMAIN queue' : i \in DOMAIN queue \/ i = Len(queue) + 1
    BY <1>2, <1>4
  <2> QED BY <1>1, <1>4, <2>1 DEF Inv, DataInv
<1>7. StatusInv'
  BY <1>1, <1>3, PostedStatus DEF Inv
<1> QED BY <1>1, <1>5, <1>6, <1>7 DEF Inv, SelectionShown, Addresses

LEMMA ProgressStep ==
    ASSUME Inv, NEW t \in 1..MaxThreads, Progress(t)
    PROVE  Inv'
<1> DEFINE c == [kind |-> "progress"]
<1>1. /\ t \in DOMAIN threads /\ threads[t].kind = "scan" /\ queue' = Append(queue, c)
      /\ UNCHANGED <<scan, context, selected, filter, status, threads>>
  BY DEF Progress, Runs, data, rest
<1>2. queue \in Seq(Closure) /\ c \in Closure
  BY DEF Inv, TypeOK, Closure
<1>3. /\ queue' \in Seq(Closure)
      /\ DOMAIN queue = 1..Len(queue)
      /\ DOMAIN queue' = 1..(Len(queue) + 1)
      /\ \A i \in DOMAIN queue : queue'[i] = queue[i]
      /\ queue'[Len(queue) + 1] = c
  BY <1>1, <1>2, Posted
<1>4. \A i \in DOMAIN queue' : i \in DOMAIN queue \/ i = Len(queue) + 1
  BY <1>2, <1>3
<1>5. TypeOK'
  BY <1>1, <1>3 DEF Inv, TypeOK
<1>6. DataInv'
  BY <1>1, <1>3, <1>4 DEF Inv, DataInv
<1>7. StatusInv'
  <2>1. \A i \in DOMAIN queue' : ScanFollows(i)'
    BY <1>1 DEF ScanFollows
  <2>2. \A i \in DOMAIN queue : i \in DOMAIN queue' /\ queue'[i] = queue[i]
    BY <1>2, <1>3
  <2> QED BY <1>1, <2>1, <2>2 DEF Inv, StatusInv
<1> QED BY <1>1, <1>5, <1>6, <1>7 DEF Inv, SelectionShown, Addresses

-----------------------------------------------------------------------------
(* The closures: what each of them does to the data.                       *)

LEMMA Running ==
    ASSUME Inv, NEW kind, AtHead(kind), queue' = Tail(queue)
    PROVE  /\ queue # <<>> /\ 1 \in DOMAIN queue /\ Head(queue) = queue[1]
           /\ Head(queue) \in Closure /\ Head(queue).kind = kind
<1>1. queue \in Seq(Closure) /\ queue # <<>>
  BY DEF Inv, TypeOK, AtHead
<1> QED BY <1>1, Taken DEF AtHead

LEMMA ShowProgressStep ==
    ASSUME Inv, ShowProgress
    PROVE  Inv'
<1>1. /\ AtHead("progress") /\ queue' = Tail(queue) /\ status' = "under way"
      /\ UNCHANGED <<scan, context, selected, filter, threads>>
  BY DEF ShowProgress, data, rest
<1>2. queue # <<>> /\ 1 \in DOMAIN queue /\ queue[1].kind = "progress"
  BY <1>1, Running
<1>3. /\ queue' \in Seq(Closure)
      /\ \A i \in DOMAIN queue' :
           queue'[i].kind = "scan" => Agree(queue'[i].result, queue'[i].gateway)
      /\ \A i \in DOMAIN queue' : queue'[i].kind = "progress" => ScanFollows(i)'
  BY <1>1, <1>2, TakenSound
<1>4. threads' # <<>> \/ \E i \in DOMAIN queue' : queue'[i].kind # "progress"
  <2>1. ScanFollows(1)
    BY <1>2 DEF Inv, StatusInv
  <2>2. CASE \E t \in DOMAIN threads : threads[t].kind = "scan"
    <3>1. threads # <<>>
      BY <2>2
    <3> QED BY <1>1, <3>1
  <2>3. ASSUME NEW j \in DOMAIN queue, j > 1, queue[j].kind = "scan"
        PROVE  \E i \in DOMAIN queue' : queue'[i].kind # "progress"
    <3>1. queue \in Seq(Closure)
      BY DEF Inv, TypeOK
    <3>2. /\ DOMAIN queue = 1..Len(queue) /\ Len(queue) \in Nat \ {0}
          /\ DOMAIN queue' = 1..(Len(queue) - 1)
          /\ \A i \in DOMAIN queue' : queue'[i] = queue[i + 1]
      BY <1>1, <1>2, <3>1, Taken
    <3>3. j - 1 \in DOMAIN queue' /\ j - 1 + 1 = j
      BY <2>3, <3>2
    <3>4. queue'[j - 1] = queue[j]
      BY <3>2, <3>3
    <3> QED BY <2>3, <3>3, <3>4
  <2> QED BY <2>1, <2>2, <2>3 DEF ScanFollows
<1>5. TypeOK'
  BY <1>1, <1>3 DEF Inv, TypeOK
<1>6. DataInv' /\ SelectionShown'
  BY <1>1, <1>3 DEF Inv, DataInv, SelectionShown, Addresses
<1>7. StatusInv'
  BY <1>3, <1>4 DEF StatusInv
<1> QED BY <1>5, <1>6, <1>7 DEF Inv

\* Any other closure ends with the status line settled, and with data that agree.
LEMMA ShowStep ==
    ASSUME Inv, queue # <<>>, queue' = Tail(queue), status' = "settled",
           UNCHANGED <<threads, filter>>,
           scan' \in Data, context' \in Hosts, Agree(scan', context'),
           NEW s \in DOMAIN scan'.devices \cup {None},
           selected' = Refreshed(scan'.devices, s, filter)
    PROVE  Inv'
<1>1. /\ queue' \in Seq(Closure)
      /\ \A i \in DOMAIN queue' :
           queue'[i].kind = "scan" => Agree(queue'[i].result, queue'[i].gateway)
      /\ \A i \in DOMAIN queue' : queue'[i].kind = "progress" => ScanFollows(i)'
  BY TakenSound
<1>2. /\ selected' \in DOMAIN scan'.devices \cup {None}
      /\ DOMAIN scan'.devices \subseteq Hosts
  BY RefreshedShown
<1>3. TypeOK'
  BY <1>1, <1>2 DEF Inv, TypeOK
<1>4. DataInv' /\ SelectionShown'
  BY <1>1, <1>2 DEF DataInv, SelectionShown, Addresses, Agree
<1>5. StatusInv'
  BY <1>1 DEF StatusInv
<1> QED BY <1>3, <1>4, <1>5 DEF Inv

LEMMA ShowScanStep ==
    ASSUME Inv, ShowScan
    PROVE  Inv'
<1>1. /\ AtHead("scan") /\ queue' = Tail(queue) /\ status' = "settled"
      /\ scan' = Head(queue).result /\ context' = Head(queue).gateway
      /\ selected' = Refreshed(scan'.devices, None, filter)
      /\ UNCHANGED <<threads, filter>>
  BY DEF ShowScan
<1>2. /\ queue # <<>> /\ 1 \in DOMAIN queue /\ Head(queue) = queue[1]
      /\ Head(queue) \in Closure /\ Head(queue).kind = "scan"
  BY <1>1, Running
<1>3. scan' \in Data /\ context' \in Hosts
  BY <1>1, <1>2, Kinds
<1>4. Agree(scan', context')
  BY <1>1, <1>2 DEF Inv, DataInv
<1> QED BY <1>1, <1>2, <1>3, <1>4, ShowStep

LEMMA ShowPortsStep ==
    ASSUME Inv, ShowPorts
    PROVE  Inv'
<1> DEFINE found == Head(queue).found
           devices == WithPorts(scan.devices, found, context)
<1>1. /\ AtHead("ports") /\ queue' = Tail(queue) /\ status' = "settled"
      /\ scan' = [devices |-> devices, rows |-> scan.rows \union found]
      /\ selected' = Refreshed(devices, selected, filter)
      /\ UNCHANGED <<context, threads, filter>>
  BY DEF ShowPorts, rest
<1>2. queue # <<>> /\ found \in SUBSET (Hosts \X Ports)
  BY <1>1, Running, Kinds
<1>3. scan \in Data /\ context \in Hosts /\ Agree(scan, context)
      /\ selected \in DOMAIN scan.devices \cup {None}
  BY DEF Inv, TypeOK, DataInv, SelectionShown, Addresses
<1>4. scan' \in Data /\ Agree(scan', context) /\ DOMAIN scan'.devices = DOMAIN scan.devices
  BY <1>1, <1>2, <1>3, WithPortsType
<1>5. scan'.devices = devices
  BY <1>1
<1> HIDE DEF devices, found
<1> QED BY <1>1, <1>2, <1>3, <1>4, <1>5, ShowStep

LEMMA ShowWifiStep ==
    ASSUME Inv, ShowWifi
    PROVE  Inv'
<1>1. /\ AtHead("wifi") /\ queue' = Tail(queue) /\ status' = "settled"
      /\ UNCHANGED <<scan, context, selected, filter, threads>>
  BY DEF ShowWifi, data, rest
<1>2. queue # <<>>
  BY <1>1, Running
<1>3. /\ queue' \in Seq(Closure)
      /\ \A i \in DOMAIN queue' :
           queue'[i].kind = "scan" => Agree(queue'[i].result, queue'[i].gateway)
      /\ \A i \in DOMAIN queue' : queue'[i].kind = "progress" => ScanFollows(i)'
  BY <1>1, <1>2, TakenSound
<1>4. TypeOK' /\ DataInv' /\ SelectionShown'
  BY <1>1, <1>3 DEF Inv, TypeOK, DataInv, SelectionShown, Addresses
<1>5. StatusInv'
  BY <1>1, <1>3 DEF StatusInv
<1> QED BY <1>4, <1>5 DEF Inv

LEMMA DestroyedStep ==
    ASSUME Inv, Destroyed
    PROVE  Inv'
<1>1. /\ scan' = NoData /\ selected' = None /\ threads' = <<>> /\ queue' = <<>>
      /\ status' = "settled" /\ UNCHANGED <<context, filter>>
  BY DEF Destroyed
<1>2. TypeOK'
  BY <1>1, NoDataType, EmptySeq DEF Inv, TypeOK
<1>3. DataInv' /\ SelectionShown' /\ StatusInv'
  BY <1>1, NoDataType DEF DataInv, Agree, SelectionShown, Addresses, StatusInv
<1> QED BY <1>2, <1>3 DEF Inv

-----------------------------------------------------------------------------
(* The user, the threads and the timers.                                   *)

LEMMA ThreadStepKeeps ==
    ASSUME Inv, NEW t \in 1..MaxThreads, ThreadStep(t)
    PROVE  Inv'
<1>1. t \in DOMAIN threads /\ threads \in Seq(Thread) /\ threads[t] \in Thread
  <2>1. t \in DOMAIN threads
    BY DEF ThreadStep, Runs, FinishWifi
  <2>2. threads \in Seq(Thread)
    BY DEF Inv, TypeOK
  <2> QED BY <2>1, <2>2, LenProperties, ElementOfSeq
<1> DEFINE gateway(adapter) == IF adapter = None THEN threads[t].fallback ELSE adapter
           c(adapter, d) == [kind |-> "scan", timed |-> threads[t].timed,
                             gateway |-> gateway(adapter), result |-> d]
<1>2. \A adapter \in Adapters : gateway(adapter) \in Hosts
  BY <1>1, AdaptersAssumption DEF Thread
<1>3. \A adapter \in Adapters, d \in Data : c(adapter, d) \in Closure
  <2> HIDE DEF gateway
  <2> QED BY <1>1, <1>2 DEF Closure, Thread
<1>4. ASSUME NEW adapter \in Adapters, FailScan(t, adapter)
      PROVE  Inv'
  <2>1. threads[t].kind = "scan" /\ Post(t, c(adapter, NoData))
    BY <1>4 DEF FailScan, Runs
  <2>2. Agree(NoData, gateway(adapter))
    BY NoDataType DEF Agree
  <2>3. c(adapter, NoData) \in Closure
    BY <1>3, NoDataType
  <2> QED BY <1>1, <2>1, <2>2, <2>3, PostStep
<1>5. ASSUME NEW adapter \in Adapters, NEW up \in SUBSET Hosts,
             NEW found \in [up -> SUBSET Ports], FinishScan(t, found, adapter)
      PROVE  Inv'
  <2> DEFINE d == ScanData(found, gateway(adapter))
  <2>1. threads[t].kind = "scan" /\ Post(t, c(adapter, d))
    BY <1>5 DEF FinishScan, Runs
  <2>2. d \in Data /\ Agree(d, gateway(adapter))
    BY <1>2, ScanDataType
  <2>3. c(adapter, d) \in Closure
    BY <1>3, <2>2
  <2>4. /\ c(adapter, d).kind = "scan" /\ c(adapter, d).result = d
        /\ c(adapter, d).gateway = gateway(adapter)
    OBVIOUS
  <2> HIDE DEF d, c
  <2> QED BY <1>1, <2>1, <2>2, <2>3, <2>4, PostStep
<1>6. ASSUME NEW found \in SUBSET (threads[t].targets \X Ports), FinishPorts(t, found)
      PROVE  Inv'
  <2> DEFINE e == [kind |-> "ports", found |-> found]
  <2>1. threads[t].kind = "ports" /\ Post(t, e)
    BY <1>6 DEF FinishPorts, Runs
  <2>2. found \in SUBSET (Hosts \X Ports)
    BY <1>1 DEF Thread
  <2>3. e \in Closure
    BY <2>2 DEF Closure
  <2> QED BY <1>1, <2>1, <2>3, PostStep
<1>7. CASE FinishWifi(t)
  <2> DEFINE e == [kind |-> "wifi"]
  <2>1. threads[t].kind = "wifi" /\ Post(t, e)
    BY <1>7 DEF FinishWifi, Runs
  <2>2. e \in Closure
    BY DEF Closure
  <2> QED BY <1>1, <2>1, <2>2, PostStep
<1> QED BY <1>4, <1>5, <1>6, <1>7 DEF ThreadStep

LEMMA TargetsShown ==
    ASSUME Inv, NEW sel \in Addresses \cup {None}, NEW custom \in Hosts \cup {None},
           NEW mode \in {"selected", "router", "all", "custom"}
    PROVE  PortTargets(mode, sel, custom) \in SUBSET Hosts
<1>1. Addresses \subseteq Hosts /\ context \in Hosts /\ Hosts \subseteq Nat
  BY RefreshedShown, HostsAssumption DEF Inv, TypeOK, Addresses
<1>2. Addresses # {} => Min(Addresses) \in Addresses
  BY <1>1, MinIn
<1> QED BY <1>1, <1>2 DEF PortTargets

LEMMA StartSelectedStep ==
    ASSUME Inv, NEW timed \in BOOLEAN, StartSelectedPortScan(timed), UNCHANGED filter
    PROVE  Inv'
<1> DEFINE sel == IF selected = None /\ Addresses # {} THEN Min(Addresses) ELSE selected
<1>1. Addresses \subseteq Hosts /\ Hosts \subseteq Nat
  BY RefreshedShown, HostsAssumption DEF Inv, TypeOK, Addresses
<1>2. sel \in Addresses \cup {None}
  BY <1>1, MinIn DEF Inv, SelectionShown
<1>3. selected' = sel /\ UNCHANGED <<scan, context>>
  BY DEF StartSelectedPortScan
<1>4. CASE sel = None
  <2>1. status' = "settled" /\ UNCHANGED <<threads, queue>>
    BY <1>4 DEF StartSelectedPortScan, work
  <2> HIDE DEF sel
  <2> QED BY <1>2, <1>3, <2>1, QuietStep DEF Inv, TypeOK
<1>5. CASE sel # None
  <2>1. Begin("ports", PortTargets("selected", sel, None), timed)
    BY <1>5 DEF StartSelectedPortScan
  <2> HIDE DEF sel
  <2>2. PortTargets("selected", sel, None) \in SUBSET Hosts
    BY <1>2, TargetsShown
  <2> QED BY <1>2, <1>3, <2>1, <2>2, BeginStep
<1> QED BY <1>4, <1>5

\* Scans, Wi-Fi scans and port scans of the other kinds leave the data alone.
LEMMA StartStep ==
    ASSUME Inv, NEW kind \in {"scan", "ports", "wifi"}, NEW targets \in SUBSET Hosts,
           NEW timed \in BOOLEAN, Begin(kind, targets, timed), UNCHANGED <<data, filter>>
    PROVE  Inv'
<1>1. selected' \in Addresses \cup {None} /\ UNCHANGED <<scan, context, filter>>
  BY DEF Inv, SelectionShown, data
<1> QED BY <1>1, BeginStep

LEMMA ClickStep ==
    ASSUME Inv, Click
    PROVE  Inv'
<1>1. filter \in {"all", "open ports"} /\ selected \in Addresses \cup {None} /\ scan \in Data
  BY DEF Inv, TypeOK, SelectionShown
<1>2. ASSUME NEW h \in Hosts, SelectRow(h) PROVE Inv'
  <2>1. UNCHANGED <<scan, context, threads, queue, filter, status>> /\ selected' = h
    BY <1>2 DEF SelectRow, work, rest
  <2>2. h \in Addresses
    BY <1>2 DEF SelectRow, Visible, Addresses
  <2> QED BY <1>1, <2>1, <2>2, QuietStep
<1>3. ASSUME NEW f \in {"all", "open ports"}, SetFilter(f) PROVE Inv'
  <2>1. /\ UNCHANGED <<scan, context, threads, queue, status>> /\ filter' = f
        /\ selected' = Refreshed(scan.devices, selected, f)
    BY <1>3 DEF SetFilter, work
  <2>2. selected' \in Addresses \cup {None}
    BY <1>1, <2>1, RefreshedShown DEF Addresses
  <2> QED BY <2>1, <2>2, QuietStep
<1>4. CASE Notice \/ (Report /\ UNCHANGED rest)
  <2>1. /\ UNCHANGED <<scan, context, threads, queue, filter, selected>>
        /\ status' = "settled"
    BY <1>4 DEF Notice, Report, data, work, rest
  <2> QED BY <1>1, <2>1, QuietStep
<1>5. CASE StartScan(FALSE) /\ UNCHANGED rest
  BY <1>5, StartStep DEF StartScan, rest
<1>6. CASE StartSelectedPortScan(FALSE) /\ UNCHANGED rest
  BY <1>6, StartSelectedStep DEF rest
<1>7. CASE StartWifi /\ UNCHANGED rest
  BY <1>7, StartStep DEF StartWifi, rest
<1>8. ASSUME NEW mode \in {"selected", "router", "all", "custom"},
             NEW h \in Hosts \cup {None}, StartPortScan(mode, h), UNCHANGED rest
      PROVE  Inv'
  <2>1. PortTargets(mode, selected, h) \in SUBSET Hosts
    BY <1>1, TargetsShown
  <2> QED BY <1>8, <2>1, StartStep DEF StartPortScan, rest
<1> QED BY <1>2, <1>3, <1>4, <1>5, <1>6, <1>7, <1>8 DEF Click

LEMMA TimersStep ==
    ASSUME Inv, Timers
    PROVE  Inv'
<1>1. CASE AutoScan
  BY <1>1, StartStep DEF AutoScan, Timer, StartScan
<1>2. CASE AutoPorts
  BY <1>2, StartSelectedStep DEF AutoPorts, Timer
<1>3. CASE AutoReport
  <2>1. /\ UNCHANGED <<scan, context, threads, queue, filter, selected>>
        /\ status' = "settled"
    BY <1>3 DEF AutoReport, Timer, Report, data, work
  <2> QED BY <2>1, QuietStep DEF Inv, TypeOK, SelectionShown
<1>4. CASE AutoExit
  BY <1>4, DestroyedStep DEF AutoExit
<1> QED BY <1>1, <1>2, <1>3, <1>4 DEF Timers

LEMMA InvInit == Init => Inv
<1> SUFFICES ASSUME Init PROVE Inv
  OBVIOUS
<1>1. TypeOK
  BY NoDataType, EmptySeq DEF Init, TypeOK
<1>2. DataInv /\ SelectionShown /\ StatusInv
  BY NoDataType DEF Init, DataInv, Agree, SelectionShown, Addresses, StatusInv
<1> QED BY <1>1, <1>2 DEF Inv

LEMMA InvStep == Inv /\ [Next]_vars => Inv'
<1> SUFFICES ASSUME Inv, [Next]_vars PROVE Inv'
  OBVIOUS
<1>1. CASE Click
  BY <1>1, ClickStep
<1>2. CASE EventLoop
  BY <1>2, ShowProgressStep, ShowScanStep, ShowPortsStep, ShowWifiStep DEF EventLoop
<1>3. CASE Timers
  BY <1>3, TimersStep
<1>4. CASE Close
  BY <1>4, DestroyedStep DEF Close
<1>5. ASSUME NEW t \in 1..MaxThreads, Progress(t) \/ ThreadStep(t) PROVE Inv'
  BY <1>5, ProgressStep, ThreadStepKeeps
<1>6. CASE UNCHANGED vars
  <2>1. UNCHANGED <<scan, context, selected, filter, status, threads, queue>>
    BY <1>6 DEF vars, data, work, rest
  <2> QED BY <2>1 DEF Inv, TypeOK, DataInv, SelectionShown, Addresses, StatusInv, ScanFollows
<1> QED BY <1>1, <1>2, <1>3, <1>4, <1>5, <1>6 DEF Next

LEMMA Invariance == Spec => []Inv
BY InvInit, InvStep, PTL DEF Spec

-----------------------------------------------------------------------------

\* Overlapping network scans and port scans never leave a device with ports
\* that the port table does not show for its address, or the other way round
\* (the closures of start_scan and start_port_scan).
THEOREM PortsAgree == Spec => []RowsAndDevicesAgree
<1>1. Inv => RowsAndDevicesAgree
  BY DEF Inv, DataInv, Agree, RowsAndDevicesAgree, Addresses
<1> QED BY <1>1, Invariance, PTL

\* The findings on show are those of the gateway on show, although a scan that
\* was started earlier may be shown later.
THEOREM FindingsOfThisScan == Spec => []FindingsCurrent
<1>1. Inv => FindingsCurrent
  BY DEF Inv, DataInv, Agree, FindingsCurrent, Addresses
<1> QED BY <1>1, Invariance, PTL

\* The address that port scans and reports take is one of the table's.
THEOREM SelectionOnShow == Spec => []SelectionShown
<1>1. Inv => SelectionShown
  BY DEF Inv
<1> QED BY <1>1, Invariance, PTL

\* No order of progress closures and results leaves the status line telling
\* of a scan when none is left.
THEOREM StatusLineSettles == Spec => []StatusSettles
<1>1. Inv => StatusSettles
  <2> SUFFICES ASSUME Inv, queue = <<>>, threads = <<>> PROVE status = "settled"
    BY DEF StatusSettles
  <2>1. DOMAIN queue = {}
    OBVIOUS
  <2> QED BY <2>1 DEF Inv, TypeOK, StatusInv
<1> QED BY <1>1, Invariance, PTL
=============================================================================
