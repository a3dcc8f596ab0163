------------------------- MODULE DeviceMergeProofs -------------------------
(***************************************************************************)
(* For every set of identifiers, policies and observations: merging        *)
(* forgets nothing, gives a MAC to two identities only if it was reported  *)
(* twice at once, and accounts for every observation.  The argument is     *)
(* what the map of MACs says of the observations still to come.            *)
(***************************************************************************)
EXTENDS DeviceMerge, WellFoundedInduction, SequenceTheorems, TLAPS

Tokens == {Token[v] : v \in Or(Names) \cup Addresses}
Ids == [by : {"repeated", "mac", "host", "netbios", "ip"}, key : Or(Macs),
        token : Tokens, index : Nat]
Identity ==
    [id : Ids, mac : Or(Macs), host : Or(Names), netbios : Or(Names),
     ips : Seq(Addresses), confidence : Int]

TypeOK ==
    /\ pc \in {"idle", "merging"}
    /\ devices \in Seq(Identity)
    /\ policy \in Policies
    /\ batch \in Seq(Observation) /\ next \in Nat \ {0}
    /\ byMac \in [Macs -> 0..Len(devices)]
    /\ byName \in [Names -> 0..Len(devices)]
    /\ byIp \in [Addresses -> 0..Len(devices)]
    /\ twice \subseteq Macs

\* An entry of the map of MACs is right.
MacMap == \A m \in Macs : byMac[m] # 0 => devices[byMac[m]].mac = m

\* A MAC that is still to come, once, and has no entry is nobody's.
Fresh ==
    \A k \in next..Len(batch) :
        /\ batch[k].mac \in Macs \ Repeated(batch)
        /\ byMac[batch[k].mac] = 0
        => \A i \in 1..Len(devices) : devices[i].mac # batch[k].mac

\* An identity has taken up what an observation shows, but perhaps its MAC.
Served(o, d) ==
    /\ o.ip # None => o.ip \in ToSet(d.ips)
    /\ o.mac # None => d.mac # None
    /\ o.host # None \/ o.netbios # None => d.host # None

Owned(m) == m \in Macs \ Repeated(batch) /\ \E j \in 1..Len(devices) : devices[j].mac = m

PlacedSoFar ==
    \A k \in 1..Len(batch) :
        k < next /\ Identified(batch[k]) =>
            \E i \in 1..Len(devices) :
                /\ Served(batch[k], devices[i])
                /\ Owned(batch[k].mac) => devices[i].mac = batch[k].mac

Inv ==
    /\ TypeOK
    /\ pc = "merging" => MacMap /\ Fresh /\ Repeated(batch) \subseteq twice
    /\ SharedMacWasRepeated
    /\ PlacedSoFar

-----------------------------------------------------------------------------
(* Sets, maps and adjustments.                                             *)

\* A non-empty set of positions has a last one.
LEMMA MaxIn ==
    ASSUME NEW n \in Nat, NEW S \in SUBSET (1..n), S # {}
    PROVE  Max(S) \in S
<1> DEFINE T == {n - i : i \in S}
<1>1. T \subseteq Nat /\ T # {}
  <2>1. \A i \in S : n - i \in Nat
    OBVIOUS
  <2>2. PICK i \in S : TRUE
    OBVIOUS
  <2>3. n - i \in T
    BY <2>2
  <2> QED BY <2>1, <2>3
<1>2. PICK t \in T : \A u \in T : ~ (<<u, t>> \in OpToRel(<, Nat))
  BY <1>1, NatLessThanWellFounded, WFMin
<1>3. PICK s \in S : t = n - s
  OBVIOUS
<1>4. \A i \in S : s >= i
  <2> SUFFICES ASSUME NEW i \in S, s < i PROVE FALSE
    OBVIOUS
  <2>1. n - i \in T /\ n - i \in Nat /\ t \in Nat /\ n - i < t
    BY <1>1, <1>3
  <2> QED BY <1>2, <2>1 DEF OpToRel
<1> QED BY <1>3, <1>4 DEF Max

\* The entry a call begins with names a device of which the test holds.
LEMMA LatestHolds ==
    ASSUME devices \in Seq(Identity), NEW S \in SUBSET (DOMAIN devices)
    PROVE  LET at == IF S = {} THEN 0 ELSE Max(S)
           IN  at \in 0..Len(devices) /\ (at = 0 <=> S = {}) /\ (at # 0 => at \in S)
<1>1. DOMAIN devices = 1..Len(devices) /\ Len(devices) \in Nat
  OBVIOUS
<1>2. S # {} => Max(S) \in S
  BY <1>1, MaxIn
<1> QED BY <1>1, <1>2

LEMMA PolicyType ==
    ASSUME policy \in Policies
    PROVE  /\ policy \in [Weights -> Nat]
           /\ policy["min"] <= policy["max"]
BY PolicyWindow

LEMMA ClampInt ==
    ASSUME policy \in Policies, NEW c \in Int
    PROVE  Clamp(c) \in Int
BY PolicyType DEF Clamp, Weights

LEMMA DoubtedInt ==
    ASSUME policy \in Policies, NEW c \in Int, NEW o \in Observation
    PROVE  Doubted(c, o) \in Int
<1>1. -policy["random"] \in Int /\ -policy["virtual"] \in Int
  BY PolicyType DEF Weights
<1>2. Adjust(c, o.random, -policy["random"]) \in Int
  BY <1>1, ClampInt DEF Adjust
<1> QED BY <1>1, <1>2, ClampInt DEF Adjust, Doubted

LEMMA NewConfidenceInt ==
    ASSUME policy \in Policies, NEW o \in Observation
    PROVE  NewConfidence(o) \in Int
<1>1. Clamp(policy["new"]) \in Int /\ -policy["repeated"] \in Int /\ policy["signal"] \in Int
  BY PolicyType, ClampInt DEF Weights
<1>2. Adjust(Clamp(policy["new"]), o.mac \in Repeated(batch), -policy["repeated"]) \in Int
  BY <1>1, ClampInt DEF Adjust
<1> QED BY <1>1, <1>2, DoubtedInt, ClampInt DEF Adjust, NewConfidence

LEMMA EvidenceInt ==
    ASSUME policy \in Policies, NEW d \in Identity, NEW o \in Observation,
           NEW by \in {"matchMac", "matchName", "matchIp"}
    PROVE  Evidence(d, o, by) \in Int
<1>1. /\ policy["signal"] \in Int /\ -policy["moved"] \in Int
      /\ policy["history"] \in Int /\ -policy["repeated"] \in Int
      /\ policy[by] \div 2 \in Int
  BY PolicyType DEF Weights
<1>2. \A c, a \in Int : Clamp(c + a) \in Int /\ Clamp(c) \in Int
  BY ClampInt
<1>3. d.confidence \in Int
  BY DEF Identity
<1> DEFINE named == Adjust(d.confidence, o.host # None /\ d.host = None, policy["signal"])
           moved == Adjust(named, Moved(d, o) /\ d.ips # <<>>, -policy["moved"])
           owned == Adjust(moved, o.mac # None /\ d.mac = None, policy["history"])
           other == Adjust(owned, o.mac # None /\ d.mac \notin {None, o.mac},
                           -policy["repeated"])
<1>4. named \in Int
  BY <1>1, <1>2, <1>3 DEF Adjust
<1> HIDE DEF named
<1>5. moved \in Int
  BY <1>1, <1>2, <1>4 DEF Adjust
<1> HIDE DEF moved
<1>6. owned \in Int
  BY <1>1, <1>2, <1>5 DEF Adjust
<1> HIDE DEF owned
<1>7. other \in Int
  BY <1>1, <1>2, <1>6 DEF Adjust
<1> HIDE DEF other
<1>8. Doubted(Clamp(other + policy[by] \div 2), o) \in Int
  BY <1>1, <1>2, <1>7, DoubtedInt
<1> QED BY <1>8 DEF Evidence, named, moved, owned, other

LEMMA MergedConfidenceInt ==
    ASSUME policy \in Policies, NEW d \in Identity, NEW o \in Observation,
           NEW by \in {"matchMac", "matchName", "matchIp"}
    PROVE  MergedConfidence(d, o, by) \in Int
<1>1. Evidence(d, o, by) \in Int /\ d.confidence \in Int
  BY EvidenceInt DEF Identity
<1>2. /\ policy["history"] \in Nat /\ policy["min"] \in Nat /\ policy["max"] \in Nat
  BY PolicyType DEF Weights
<1> QED BY <1>1, <1>2 DEF MergedConfidence, Clamp

-----------------------------------------------------------------------------
(* Identities and matching.                                                *)

LEMMA IdType ==
    ASSUME NEW o \in Observation, next \in Nat
    PROVE  Id(o) \in Ids
<1> DEFINE by ==
             IF o.mac \in Repeated(batch) THEN "repeated"
             ELSE IF o.mac # None THEN "mac"
             ELSE IF o.host # None THEN "host"
             ELSE IF o.netbios # None THEN "netbios" ELSE "ip"
           named == [repeated |-> o.ip, mac |-> None, host |-> o.host,
                     netbios |-> o.netbios, ip |-> o.ip]
<1>1. by \in {"repeated", "mac", "host", "netbios", "ip"}
  OBVIOUS
<1> HIDE DEF by
<1>2. named[by] \in Or(Names) \cup Addresses
  BY <1>1 DEF Observation, Or
<1> HIDE DEF named
<1>3. Token[named[by]] \in Tokens
  BY <1>2 DEF Tokens
<1>4. o.mac \in Or(Macs) /\ (IF by = "repeated" THEN next ELSE 0) \in Nat
  BY DEF Observation
<1>5. Id(o) = [by |-> by, key |-> o.mac, token |-> Token[named[by]],
               index |-> IF by = "repeated" THEN next ELSE 0]
  BY DEF Id, by, named
<1> QED BY <1>1, <1>3, <1>4, <1>5 DEF Ids

LEMMA NewIdentityType ==
    ASSUME policy \in Policies, next \in Nat, NEW o \in Observation
    PROVE  /\ NewIdentity(o) \in Identity
           /\ NewIdentity(o).mac = o.mac
           /\ Served(o, NewIdentity(o))
<1>1. Id(o) \in Ids /\ NewConfidence(o) \in Int
  BY IdType, NewConfidenceInt
<1>2. /\ o.mac \in Or(Macs) /\ o.netbios \in Or(Names)
      /\ Other(o.host, o.netbios) \in Or(Names)
  BY DEF Observation, Other
<1>3. (IF o.ip = None THEN <<>> ELSE <<o.ip>>) \in Seq(Addresses)
  BY DEF Observation, Or
<1>4. NewIdentity(o) \in Identity
  BY <1>1, <1>2, <1>3 DEF NewIdentity, Identity
<1>5. NewIdentity(o).mac = o.mac /\ NewIdentity(o).host = Other(o.host, o.netbios)
  BY DEF NewIdentity
<1>6. ASSUME o.ip # None PROVE o.ip \in ToSet(NewIdentity(o).ips)
  BY <1>6 DEF NewIdentity, ToSet
<1>7. o.host # None \/ o.netbios # None => NewIdentity(o).host # None
  BY <1>5 DEF Other
<1> QED BY <1>4, <1>5, <1>6, <1>7 DEF Served

LEMMA MergedType ==
    ASSUME policy \in Policies, NEW d \in Identity, NEW o \in Observation,
           NEW by \in {"matchMac", "matchName", "matchIp"}
    PROVE  /\ Merged(d, o, by) \in Identity
           /\ Merged(d, o, by).mac = Other(d.mac, o.mac)
           /\ Remembers(d, Merged(d, o, by))
           /\ \A a \in Addresses : a \in ToSet(d.ips) => a \in ToSet(Merged(d, o, by).ips)
           /\ o.ip # None => o.ip \in ToSet(Merged(d, o, by).ips)
           /\ o.mac # None => Merged(d, o, by).mac # None
           /\ o.host # None \/ o.netbios # None => Merged(d, o, by).host # None
<1> DEFINE e == Merged(d, o, by)
<1>1. /\ d.id \in Ids /\ d.mac \in Or(Macs) /\ d.host \in Or(Names)
      /\ d.netbios \in Or(Names) /\ d.ips \in Seq(Addresses) /\ d.confidence \in Int
  BY DEF Identity
<1>2. /\ o.mac \in Or(Macs) /\ o.host \in Or(Names) /\ o.netbios \in Or(Names)
      /\ o.ip \in Or(Addresses)
  BY DEF Observation
<1>3. MergedConfidence(d, o, by) \in Int
  BY MergedConfidenceInt
<1>4. e = [id |-> d.id, mac |-> Other(d.mac, o.mac),
           host |-> Other(d.host, Other(o.host, o.netbios)),
           netbios |-> Other(o.netbios, d.netbios),
           ips |-> IF Moved(d, o) THEN Append(d.ips, o.ip) ELSE d.ips,
           confidence |-> MergedConfidence(d, o, by)]
  <2>1. d = [id |-> d.id, mac |-> d.mac, host |-> d.host, netbios |-> d.netbios,
             ips |-> d.ips, confidence |-> d.confidence]
    BY DEF Identity
  <2> HIDE DEF Identity
  <2> DEFINE ips == IF Moved(d, o) THEN Append(d.ips, o.ip) ELSE d.ips
             mac == Other(d.mac, o.mac)
             host == Other(d.host, Other(o.host, o.netbios))
             netbios == Other(o.netbios, d.netbios)
             confidence == MergedConfidence(d, o, by)
  <2>2. e = [d EXCEPT !.mac = mac, !.host = host, !.netbios = netbios, !.ips = ips,
                      !.confidence = confidence]
    BY DEF Merged, HostName
  <2> HIDE DEF e, mac, host, netbios, ips, confidence
  <2>3. e = [id |-> d.id, mac |-> mac, host |-> host, netbios |-> netbios,
             ips |-> ips, confidence |-> confidence]
    BY <2>1, <2>2
  <2> QED BY <2>3 DEF mac, host, netbios, ips, confidence
<1>5. e.ips \in Seq(Addresses) /\ IsPrefix(d.ips, e.ips)
  <2>1. CASE Moved(d, o)
    <3>1. e.ips = Append(d.ips, o.ip) /\ o.ip \in Addresses
      BY <1>2, <1>4, <2>1 DEF Moved, Or
    <3> QED BY <1>1, <3>1 DEF IsPrefix
  <2>2. CASE ~Moved(d, o)
    <3>1. e.ips = d.ips
      BY <1>4, <2>2
    <3> QED BY <1>1, <3>1 DEF IsPrefix
  <2> QED BY <2>1, <2>2
<1>6. \A a \in Addresses : a \in ToSet(d.ips) => a \in ToSet(e.ips)
  <2>1. \A i \in DOMAIN d.ips : i \in DOMAIN e.ips /\ e.ips[i] = d.ips[i]
    BY <1>1, <1>5 DEF IsPrefix
  <2> QED BY <2>1 DEF ToSet
<1>7. o.ip # None => o.ip \in ToSet(e.ips)
  BY <1>1, <1>2, <1>4 DEF ToSet, Moved
<1>8. /\ Other(d.mac, o.mac) \in Or(Macs)
      /\ Other(d.host, Other(o.host, o.netbios)) \in Or(Names)
      /\ Other(o.netbios, d.netbios) \in Or(Names)
  BY <1>1, <1>2 DEF Other
<1>9. e \in Identity
  BY <1>1, <1>3, <1>4, <1>5, <1>8 DEF Identity
<1>10. Remembers(d, e)
  BY <1>4, <1>5 DEF Remembers, Other
<1>11. /\ o.mac # None => e.mac # None
       /\ o.host # None \/ o.netbios # None => e.host # None
  BY <1>4 DEF Other
<1> QED BY <1>4, <1>6, <1>7, <1>9, <1>10, <1>11

\* A match names a device, and one found by MAC has that MAC.
LEMMA MatchType ==
    ASSUME TypeOK, NEW o \in Observation
    PROVE  /\ Match(o).at \in 0..Len(devices)
           /\ Match(o).by \in {"matchMac", "matchName", "matchIp"}
           /\ MacOwner(o) # 0 => Match(o).at = MacOwner(o)
           /\ MacOwner(o) \in 0..Len(devices)
           /\ o.mac \in Macs \ Repeated(batch) => MacOwner(o) = byMac[o.mac]
           /\ MacOwner(o) # 0 => o.mac \in Macs \ Repeated(batch)
<1>1. /\ MacOwner(o) \in 0..Len(devices) /\ NameOwner(o) \in 0..Len(devices)
      /\ AddressOwner(o) \in 0..Len(devices)
  BY DEF TypeOK, MacOwner, NameOwner, AddressOwner, At, Observation, Or
<1>2. /\ o.mac \in Macs \ Repeated(batch) => MacOwner(o) = byMac[o.mac]
      /\ MacOwner(o) # 0 => o.mac \in Macs \ Repeated(batch)
  BY AbsentIsNone DEF MacOwner, At, Observation, Or
<1> QED BY <1>1, <1>2 DEF Match

-----------------------------------------------------------------------------
(* The invariant, action by action.                                        *)

LEMMA InitInv == Init => Inv
<1> SUFFICES ASSUME Init PROVE Inv
  OBVIOUS
<1>1. devices = <<>> /\ batch = <<>> /\ Len(devices) = 0 /\ Len(batch) = 0
  BY DEF Init
<1>2. TypeOK
  BY <1>1 DEF Init, TypeOK, Empty
<1>3. SharedMacWasRepeated /\ PlacedSoFar
  BY <1>1 DEF SharedMacWasRepeated, PlacedSoFar
<1> QED BY <1>2, <1>3 DEF Inv, Init

LEMMA BeginInv ==
    ASSUME Inv, Begin
    PROVE  Inv'
<1>1. /\ devices' = devices /\ next' = 1 /\ pc' = "merging" /\ batch' \in Batches
      /\ policy' \in Policies /\ twice' = twice \cup Repeated(batch')
  BY DEF Begin
<1>2. TypeOK /\ SharedMacWasRepeated /\ devices \in Seq(Identity)
  BY DEF Inv, TypeOK
<1> DEFINE Mac(m) == {i \in DOMAIN devices : devices[i].mac = m}
           Name(n) == {i \in DOMAIN devices : n \in {devices[i].host, devices[i].netbios}}
           Ip(a) == {i \in DOMAIN devices : a \in ToSet(devices[i].ips)}
<1>3. /\ byMac' = [m \in Macs |-> IF Mac(m) = {} THEN 0 ELSE Max(Mac(m))]
      /\ byName' = [n \in Names |-> IF Name(n) = {} THEN 0 ELSE Max(Name(n))]
      /\ byIp' = [a \in Addresses |-> IF Ip(a) = {} THEN 0 ELSE Max(Ip(a))]
  BY DEF Begin, Latest
<1>4. \A m \in Macs :
        /\ byMac'[m] \in 0..Len(devices)
        /\ byMac'[m] = 0 <=> Mac(m) = {}
        /\ byMac'[m] # 0 => byMac'[m] \in Mac(m)
  BY <1>2, <1>3, LatestHolds
<1>5. \A n \in Names : byName'[n] \in 0..Len(devices)
  <2> TAKE n \in Names
  <2>1. Name(n) \in SUBSET (DOMAIN devices)
    OBVIOUS
  <2> HIDE DEF Name
  <2> QED BY <1>2, <1>3, <2>1, LatestHolds
<1>6. \A a \in Addresses : byIp'[a] \in 0..Len(devices)
  <2> TAKE a \in Addresses
  <2>1. Ip(a) \in SUBSET (DOMAIN devices)
    OBVIOUS
  <2> HIDE DEF Ip
  <2> QED BY <1>2, <1>3, <2>1, LatestHolds
<1>7. batch' \in Seq(Observation) /\ Repeated(batch') \subseteq Macs
  BY <1>1, BatchesObserve DEF Repeated
<1>8. TypeOK'
  <2>1. /\ byMac' \in [Macs -> 0..Len(devices)]
        /\ byName' \in [Names -> 0..Len(devices)]
        /\ byIp' \in [Addresses -> 0..Len(devices)]
    <3> HIDE DEF Mac, Name, Ip
    <3> QED BY <1>3, <1>4, <1>5, <1>6
  <2>2. twice' \subseteq Macs
    BY <1>1, <1>2, <1>7 DEF TypeOK
  <2> QED BY <1>1, <1>2, <1>7, <2>1, <2>2 DEF TypeOK
<1>9. MacMap'
  BY <1>1, <1>4 DEF MacMap
<1>10. Fresh'
  <2>1. DOMAIN devices = 1..Len(devices)
    BY <1>2
  <2> QED BY <1>1, <1>4, <2>1 DEF Fresh
<1>11. SharedMacWasRepeated'
  BY <1>1, <1>2 DEF SharedMacWasRepeated
<1>12. PlacedSoFar'
  BY <1>1 DEF PlacedSoFar
<1> QED BY <1>1, <1>8, <1>9, <1>10, <1>11, <1>12 DEF Inv

LEMMA SkipInv ==
    ASSUME Inv, Skip
    PROVE  Inv'
<1>1. /\ next <= Len(batch) /\ next' = next + 1 /\ pc = "merging" /\ ~Identified(batch[next])
      /\ UNCHANGED <<pc, devices, policy, batch, twice, byMac, byName, byIp>>
  BY DEF Skip, InLoop, Observed
<1>2. TypeOK'
  BY <1>1 DEF Inv, TypeOK
<1>3. MacMap' /\ Fresh' /\ (Repeated(batch) \subseteq twice)'
  BY <1>1 DEF Inv, TypeOK, MacMap, Fresh
<1>4. SharedMacWasRepeated'
  BY <1>1 DEF Inv, SharedMacWasRepeated
<1>5. PlacedSoFar'
  <2> SUFFICES ASSUME NEW k \in 1..Len(batch), k < next + 1, Identified(batch[k])
               PROVE  \E i \in 1..Len(devices) :
                        /\ Served(batch[k], devices[i])
                        /\ Owned(batch[k].mac) => devices[i].mac = batch[k].mac
    BY <1>1 DEF PlacedSoFar, Owned
  <2>1. k < next
    BY <1>1 DEF Inv, TypeOK
  <2> QED BY <2>1 DEF Inv, PlacedSoFar
<1> QED BY <1>1, <1>2, <1>3, <1>4, <1>5 DEF Inv

LEMMA ReturnInv ==
    ASSUME Inv, Return
    PROVE  Inv'
<1>1. /\ pc' = "idle" /\ batch' = <<>> /\ next' = 1
      /\ byMac' = Empty(Macs) /\ byName' = Empty(Names) /\ byIp' = Empty(Addresses)
      /\ UNCHANGED <<devices, policy, twice>>
  BY DEF Return
<1>2. TypeOK'
  BY <1>1 DEF Inv, TypeOK, Empty
<1>3. SharedMacWasRepeated' /\ PlacedSoFar'
  BY <1>1 DEF Inv, SharedMacWasRepeated, PlacedSoFar
<1> QED BY <1>1, <1>2, <1>3 DEF Inv

\* What a step of the loop starts from.
LEMMA InLoopFacts ==
    ASSUME Inv, InLoop
    PROVE  /\ next \in 1..Len(batch) /\ next' = next + 1 /\ pc = "merging"
           /\ Observed = batch[next] /\ Observed \in Observation
           /\ UNCHANGED <<pc, policy, batch, twice>>
           /\ TypeOK /\ MacMap /\ Fresh /\ Repeated(batch) \subseteq twice
           /\ SharedMacWasRepeated /\ PlacedSoFar
           /\ Len(devices) \in Nat /\ devices \in Seq(Identity)
           /\ \A k \in 1..Len(batch) :
                 batch[k].mac \in Macs \ Repeated(batch) /\ k # next
                   => batch[k].mac # Observed.mac
<1>1. /\ next \in 1..Len(batch) /\ next' = next + 1 /\ pc = "merging"
      /\ UNCHANGED <<pc, policy, batch, twice>> /\ TypeOK
  BY DEF Inv, InLoop, TypeOK
<1>2. Observed = batch[next] /\ Observed \in Observation
  BY <1>1 DEF Observed, TypeOK
<1>3. DOMAIN batch = 1..Len(batch)
  BY <1>1 DEF TypeOK
<1>4. \A k \in 1..Len(batch) :
        batch[k].mac \in Macs \ Repeated(batch) /\ k # next
          => batch[k].mac # Observed.mac
  BY <1>1, <1>2, <1>3 DEF Repeated
<1> QED BY <1>1, <1>2, <1>4 DEF Inv, TypeOK

LEMMA AddInv ==
    ASSUME Inv, AddDevice
    PROVE  Inv'
<1> DEFINE o == Observed
           d == NewIdentity(o)
           n == Len(devices)
<1>1. InLoop /\ Match(o).at = 0
  BY DEF AddDevice
<1>2. /\ next \in 1..Len(batch) /\ next' = next + 1 /\ pc = "merging"
      /\ o = batch[next] /\ o \in Observation
      /\ UNCHANGED <<pc, policy, batch, twice>>
      /\ TypeOK /\ MacMap /\ Fresh /\ Repeated(batch) \subseteq twice
      /\ SharedMacWasRepeated /\ PlacedSoFar
      /\ n \in Nat /\ devices \in Seq(Identity)
      /\ \A k \in 1..Len(batch) :
            batch[k].mac \in Macs \ Repeated(batch) /\ k # next => batch[k].mac # o.mac
  BY <1>1, InLoopFacts
<1>3. /\ devices' = Append(devices, d)
      /\ byMac' = Point(byMac, {d.mac}, n + 1)
      /\ byName' = Point(byName, {d.host, d.netbios}, n + 1)
      /\ byIp' = Point(byIp, ToSet(d.ips), n + 1)
  BY DEF AddDevice
<1>4. d \in Identity /\ d.mac = o.mac /\ Served(o, d) /\ o.mac \in Or(Macs)
  BY <1>2, NewIdentityType DEF TypeOK, Observation
<1>5. MacOwner(o) = 0 /\ (o.mac \in Macs \ Repeated(batch) => byMac[o.mac] = 0)
  BY <1>1, <1>2, MatchType
<1> HIDE DEF o, d
<1>6. /\ devices' \in Seq(Identity) /\ Len(devices') = n + 1 /\ devices'[n + 1] = d
      /\ \A i \in 1..n : devices'[i] = devices[i]
  BY <1>2, <1>3, <1>4
<1> HIDE DEF n
<1>7. TypeOK'
  <2>1. /\ byMac' \in [Macs -> 0..n + 1] /\ byName' \in [Names -> 0..n + 1]
        /\ byIp' \in [Addresses -> 0..n + 1]
    BY <1>2, <1>3 DEF TypeOK, Point, n
  <2> QED BY <1>2, <1>6, <2>1 DEF TypeOK
<1>8. \A m \in Macs : byMac'[m] = IF m = d.mac THEN n + 1 ELSE byMac[m]
  BY <1>2, <1>3 DEF Point, TypeOK
<1>9. \A m \in Macs : byMac[m] \in 0..n
  BY <1>2 DEF TypeOK, n
<1>10. MacMap'
  BY <1>2, <1>6, <1>8, <1>9 DEF MacMap
<1>11. Fresh'
  <2> SUFFICES ASSUME NEW k \in (next + 1)..Len(batch),
                      batch[k].mac \in Macs \ Repeated(batch), byMac'[batch[k].mac] = 0,
                      NEW i \in 1..(n + 1)
               PROVE  devices'[i].mac # batch[k].mac
    BY <1>2, <1>6 DEF Fresh
  <2>1. batch[k].mac # d.mac /\ byMac[batch[k].mac] = 0 /\ k \in next..Len(batch)
    BY <1>2, <1>8
  <2>2. \A j \in 1..n : devices[j].mac # batch[k].mac
    BY <1>2, <2>1 DEF Fresh, n
  <2> QED BY <1>2, <1>6, <2>1, <2>2
\* If the MAC of the new identity is taken, it was repeated.
<1>12. ASSUME NEW i \in 1..n, devices[i].mac = d.mac, d.mac # None
       PROVE  d.mac \in twice
  <2>1. d.mac \in Macs /\ d.mac = o.mac
    BY <1>4, <1>12 DEF Or
  <2>2. CASE o.mac \in Repeated(batch)
    BY <1>2, <2>1, <2>2
  <2>3. CASE o.mac \notin Repeated(batch)
    <3>1. byMac[o.mac] = 0 /\ next \in next..Len(batch) /\ batch[next].mac = o.mac
      BY <1>2, <1>5, <2>1, <2>3
    <3> QED BY <1>2, <1>12, <2>1, <2>3, <3>1 DEF Fresh, n
  <2> QED BY <2>2, <2>3
<1>13. SharedMacWasRepeated'
  <2>1. DOMAIN devices = 1..n /\ DOMAIN devices' = 1..(n + 1)
    BY <1>2, <1>6 DEF n
  <2> SUFFICES ASSUME NEW i \in 1..(n + 1), NEW j \in 1..(n + 1), i # j,
                      devices'[i].mac # None, devices'[i].mac = devices'[j].mac
               PROVE  devices'[i].mac \in twice
    BY <1>2, <2>1 DEF SharedMacWasRepeated
  <2>2. CASE i \in 1..n /\ j \in 1..n
    BY <1>2, <1>6, <2>1, <2>2 DEF SharedMacWasRepeated
  <2>3. CASE i = n + 1
    <3>1. j \in 1..n
      BY <1>2, <2>3
    <3> QED BY <1>6, <1>12, <2>3, <3>1
  <2>4. CASE j = n + 1
    <3>1. i \in 1..n
      BY <1>2, <2>4
    <3> QED BY <1>6, <1>12, <2>4, <3>1
  <2> QED BY <1>2, <2>2, <2>3, <2>4
<1>14. PlacedSoFar'
  <2> SUFFICES ASSUME NEW k \in 1..Len(batch), k < next + 1, Identified(batch[k])
               PROVE  \E i \in 1..(n + 1) :
                        /\ Served(batch[k], devices'[i])
                        /\ /\ batch[k].mac \in Macs \ Repeated(batch)
                           /\ \E j \in 1..(n + 1) : devices'[j].mac = batch[k].mac
                           => devices'[i].mac = batch[k].mac
    BY <1>2, <1>6, SMTT(30) DEF PlacedSoFar, Owned, Repeated
  <2>1. CASE k = next
    BY <1>2, <1>4, <1>6, <2>1
  <2>2. CASE k # next
    <3>1. k < next
      BY <1>2, <2>2
    <3>2. PICK i \in 1..n : /\ Served(batch[k], devices[i])
                            /\ Owned(batch[k].mac) => devices[i].mac = batch[k].mac
      BY <1>2, <3>1 DEF PlacedSoFar, n
    <3>3. ASSUME batch[k].mac \in Macs \ Repeated(batch), NEW j \in 1..(n + 1),
                 devices'[j].mac = batch[k].mac
          PROVE  devices[i].mac = batch[k].mac
      <4>1. j # n + 1
        BY <1>2, <1>4, <1>6, <2>2, <3>3
      <4>2. j \in 1..n /\ devices[j].mac = batch[k].mac
        BY <1>2, <1>6, <3>3, <4>1
      <4>3. Owned(batch[k].mac)
        BY <3>3, <4>2 DEF Owned, n
      <4> QED BY <3>2, <4>3
    <3>4. i \in 1..(n + 1) /\ devices'[i] = devices[i]
      BY <1>2, <1>6
    <3> QED BY <3>2, <3>3, <3>4
  <2> QED BY <2>1, <2>2
<1> QED BY <1>2, <1>7, <1>10, <1>11, <1>13, <1>14 DEF Inv

\* What an update does to the identity found, and to no other.
LEMMA UpdateFacts ==
    ASSUME Inv, UpdateDevice
    PROVE  LET i == Match(Observed).at
           IN  /\ InLoop /\ i \in 1..Len(devices)
               /\ MacOwner(Observed) # 0 => i = MacOwner(Observed)
               /\ Observed.mac \in Macs \ Repeated(batch) =>
                     MacOwner(Observed) = byMac[Observed.mac]
               /\ devices' \in Seq(Identity) /\ Len(devices') = Len(devices)
               /\ \A j \in 1..Len(devices) : j # i => devices'[j] = devices[j]
               /\ devices'[i] \in Identity
               /\ devices'[i].mac = Other(devices[i].mac, Observed.mac)
               /\ Remembers(devices[i], devices'[i])
               /\ \A a \in Addresses :
                     a \in ToSet(devices[i].ips) => a \in ToSet(devices'[i].ips)
               /\ Served(Observed, devices'[i])
               /\ byMac' = byMac
               /\ byName' \in [Names -> 0..Len(devices)]
               /\ byIp' \in [Addresses -> 0..Len(devices)]
<1> DEFINE o == Observed
           i == Match(o).at
           by == Match(o).by
           d == Merged(devices[i], o, by)
<1>1. InLoop /\ i # 0
  BY DEF UpdateDevice
<1>2. /\ TypeOK /\ o \in Observation /\ devices \in Seq(Identity) /\ Len(devices) \in Nat
      /\ policy \in Policies
  BY <1>1, InLoopFacts DEF TypeOK
<1>3. /\ i \in 0..Len(devices) /\ by \in {"matchMac", "matchName", "matchIp"}
      /\ MacOwner(o) # 0 => i = MacOwner(o)
      /\ o.mac \in Macs \ Repeated(batch) => MacOwner(o) = byMac[o.mac]
  BY <1>2, MatchType
<1>4. i \in 1..Len(devices)
  BY <1>1, <1>2, <1>3
<1>5. /\ devices' = [devices EXCEPT ![i] = d] /\ byMac' = byMac
      /\ byName' = Point(byName, {d.host, d.netbios}, i)
      /\ byIp' = IF d.ips = <<>> THEN byIp ELSE Point(byIp, {d.ips[Len(d.ips)]}, i)
  BY DEF UpdateDevice, Replace
<1> HIDE DEF i, by, o
<1>6. devices[i] \in Identity
  BY <1>2, <1>4
<1>7. /\ d \in Identity /\ d.mac = Other(devices[i].mac, o.mac)
      /\ Remembers(devices[i], d)
      /\ \A a \in Addresses : a \in ToSet(devices[i].ips) => a \in ToSet(d.ips)
      /\ Served(o, d)
  BY <1>2, <1>3, <1>6, MergedType DEF Served
<1> HIDE DEF d
<1>8. /\ devices' \in Seq(Identity) /\ Len(devices') = Len(devices) /\ devices'[i] = d
      /\ \A j \in 1..Len(devices) : j # i => devices'[j] = devices[j]
  BY <1>2, <1>4, <1>5, <1>7
<1>9. byName' \in [Names -> 0..Len(devices)] /\ byIp' \in [Addresses -> 0..Len(devices)]
  BY <1>2, <1>4, <1>5 DEF Point, TypeOK
<1> QED BY <1>1, <1>3, <1>4, <1>5, <1>7, <1>8, <1>9 DEF i, o

LEMMA UpdateInv ==
    ASSUME Inv, UpdateDevice
    PROVE  Inv'
<1> DEFINE o == Observed
           i == Match(o).at
           n == Len(devices)
<1>1. /\ i \in 1..n /\ InLoop
      /\ MacOwner(o) # 0 => i = MacOwner(o)
      /\ o.mac \in Macs \ Repeated(batch) => MacOwner(o) = byMac[o.mac]
      /\ devices' \in Seq(Identity) /\ Len(devices') = n
      /\ \A j \in 1..n : j # i => devices'[j] = devices[j]
      /\ devices'[i] \in Identity
      /\ devices'[i].mac = Other(devices[i].mac, o.mac)
      /\ Remembers(devices[i], devices'[i])
      /\ \A a \in Addresses : a \in ToSet(devices[i].ips) => a \in ToSet(devices'[i].ips)
      /\ Served(o, devices'[i]) /\ byMac' = byMac
      /\ byName' \in [Names -> 0..n] /\ byIp' \in [Addresses -> 0..n]
  BY UpdateFacts
<1>2. /\ next \in 1..Len(batch) /\ next' = next + 1 /\ pc = "merging"
      /\ o = batch[next] /\ o \in Observation
      /\ UNCHANGED <<pc, policy, batch, twice>>
      /\ TypeOK /\ MacMap /\ Fresh /\ Repeated(batch) \subseteq twice
      /\ SharedMacWasRepeated /\ PlacedSoFar
      /\ n \in Nat /\ devices \in Seq(Identity)
      /\ \A k \in 1..Len(batch) :
            batch[k].mac \in Macs \ Repeated(batch) /\ k # next => batch[k].mac # o.mac
  BY <1>1, InLoopFacts
<1>3. o.mac \in Or(Macs) /\ None \notin Macs
  BY <1>2, AbsentIsNone DEF Observation
<1>4. \A m \in Macs : byMac[m] \in 0..n
  BY <1>2 DEF TypeOK
<1> HIDE DEF i, o
<1>5. DOMAIN devices = 1..n /\ DOMAIN devices' = 1..n
  BY <1>1, <1>2
<1>6. \A j \in 1..n : devices[j].mac # None => devices'[j].mac = devices[j].mac
  BY <1>1 DEF Other
<1>7. \A j \in 1..n : devices'[j].mac \in {devices[j].mac, o.mac}
  BY <1>1 DEF Other
\* A MAC that the step gives to an identity and that was not repeated was nobody's.
<1>8. ASSUME o.mac \in Macs \ Repeated(batch), devices[i].mac # o.mac
      PROVE  \A j \in 1..n : devices[j].mac # o.mac
  <2>1. CASE byMac[o.mac] # 0
    <3>1. i = byMac[o.mac]
      BY <1>1, <1>8, <2>1
    <3> QED BY <1>2, <1>8, <2>1, <3>1 DEF MacMap
  <2>2. CASE byMac[o.mac] = 0
    <3>1. next \in next..Len(batch) /\ batch[next].mac = o.mac
      BY <1>2
    <3> QED BY <1>2, <1>8, <2>2, <3>1 DEF Fresh
  <2> QED BY <2>1, <2>2
<1> HIDE DEF n
<1>9. TypeOK'
  BY <1>1, <1>2 DEF TypeOK, n
<1>10. MacMap'
  <2> SUFFICES ASSUME NEW m \in Macs, byMac[m] # 0
               PROVE  devices'[byMac[m]].mac = m
    BY <1>1 DEF MacMap
  <2>1. byMac[m] \in 1..n /\ devices[byMac[m]].mac = m
    BY <1>2, <1>4 DEF MacMap
  <2> QED BY <1>3, <1>6, <2>1
<1>11. Fresh'
  <2> SUFFICES ASSUME NEW k \in (next + 1)..Len(batch),
                      batch[k].mac \in Macs \ Repeated(batch), byMac[batch[k].mac] = 0,
                      NEW j \in 1..n
               PROVE  devices'[j].mac # batch[k].mac
    BY <1>1, <1>2 DEF Fresh
  <2>1. k \in 1..Len(batch) /\ k # next /\ k \in next..Len(batch)
    BY <1>2
  <2>2. batch[k].mac # o.mac /\ devices[j].mac # batch[k].mac
    BY <1>2, <2>1 DEF Fresh, n
  <2> QED BY <1>7, <2>2
<1>12. SharedMacWasRepeated'
  <2> SUFFICES ASSUME NEW j \in 1..n, NEW l \in 1..n, j # l,
                      devices'[j].mac # None, devices'[j].mac = devices'[l].mac
               PROVE  devices'[j].mac \in twice
    BY <1>2, <1>5 DEF SharedMacWasRepeated
  <2>1. CASE devices[j].mac = devices'[j].mac /\ devices[l].mac = devices'[l].mac
    BY <1>2, <1>5, <2>1 DEF SharedMacWasRepeated
  <2>2. CASE ~(devices[j].mac = devices'[j].mac /\ devices[l].mac = devices'[l].mac)
    <3>1. devices'[j].mac = o.mac /\ o.mac \in Macs
      BY <1>3, <1>7, <2>2 DEF Or
    <3>2. devices[i].mac # o.mac /\ (j = i \/ l = i)
      BY <1>1, <1>6, <2>2, <3>1 DEF Other
    <3>3. devices[j].mac = o.mac \/ devices[l].mac = o.mac
      BY <1>1, <3>1, <3>2
    <3>4. o.mac \in Repeated(batch)
      BY <1>8, <3>1, <3>2, <3>3
    <3> QED BY <1>2, <3>1, <3>4
  <2> QED BY <2>1, <2>2
<1>13. PlacedSoFar'
  <2> SUFFICES ASSUME NEW k \in 1..Len(batch), k < next + 1, Identified(batch[k])
               PROVE  \E j \in 1..n :
                        /\ Served(batch[k], devices'[j])
                        /\ /\ batch[k].mac \in Macs \ Repeated(batch)
                           /\ \E l \in 1..n : devices'[l].mac = batch[k].mac
                           => devices'[j].mac = batch[k].mac
    <3>1. /\ batch' = batch /\ next' = next + 1 /\ Len(devices') = n
          /\ Repeated(batch)' = Repeated(batch)
      BY <1>1, <1>2
    <3> QED BY <3>1 DEF PlacedSoFar, Owned
  <2>1. CASE k = next
    <3>1. ASSUME o.mac \in Macs \ Repeated(batch), NEW l \in 1..n, devices'[l].mac = o.mac,
                 devices'[i].mac # o.mac
          PROVE  FALSE
      <4>1. devices[i].mac # o.mac /\ l # i /\ devices[l].mac = o.mac
        BY <1>1, <1>3, <1>6, <3>1
      <4> QED BY <1>8, <3>1, <4>1
    <3> QED BY <1>1, <1>2, <2>1, <3>1
  <2>2. CASE k # next
    <3>1. k < next
      BY <1>2, <2>2
    <3>2. PICK j \in 1..n : /\ Served(batch[k], devices[j])
                            /\ Owned(batch[k].mac) => devices[j].mac = batch[k].mac
      BY <1>2, <3>1 DEF PlacedSoFar, n
    <3>3. Served(batch[k], devices'[j])
      <4>1. CASE j # i
        BY <1>1, <3>2, <4>1
      <4>2. CASE j = i
        <5>1. batch[k].ip \in Or(Addresses)
          <6>1. batch[k] \in Observation
            BY <1>2 DEF TypeOK
          <6> QED BY <6>1 DEF Observation
        <5> QED BY <1>1, <1>6, <3>2, <4>2, <5>1 DEF Served, Remembers, Or
      <4> QED BY <4>1, <4>2
    <3>4. ASSUME batch[k].mac \in Macs \ Repeated(batch), NEW l \in 1..n,
                 devices'[l].mac = batch[k].mac
          PROVE  devices'[j].mac = batch[k].mac
      <4>1. batch[k].mac # o.mac
        BY <1>2, <2>2, <3>4
      <4>2. devices[l].mac = batch[k].mac
        BY <1>7, <3>4, <4>1
      <4>3. devices[j].mac = batch[k].mac
        BY <3>2, <3>4, <4>2 DEF Owned, n
      <4> QED BY <1>3, <1>6, <3>4, <4>3
    <3> QED BY <3>3, <3>4
  <2> QED BY <2>1, <2>2
<1> QED BY <1>2, <1>9, <1>10, <1>11, <1>12, <1>13 DEF Inv

LEMMA Invariance == Spec => []Inv
<1>1. Inv /\ [Next]_vars => Inv'
  <2> SUFFICES ASSUME Inv, [Next]_vars PROVE Inv'
    OBVIOUS
  <2>1. CASE Begin
    BY <2>1, BeginInv
  <2>2. CASE Skip
    BY <2>2, SkipInv
  <2>3. CASE AddDevice
    BY <2>3, AddInv
  <2>4. CASE UpdateDevice
    BY <2>4, UpdateInv
  <2>5. CASE Return
    BY <2>5, ReturnInv
  <2>6. CASE UNCHANGED vars
    BY <2>6 DEF vars, Inv, TypeOK, MacMap, Fresh, Repeated, SharedMacWasRepeated,
                PlacedSoFar, Owned
  <2> QED BY <2>1, <2>2, <2>3, <2>4, <2>5, <2>6 DEF Next
<1> QED BY InitInv, <1>1, PTL DEF Spec

-----------------------------------------------------------------------------
(* Ids.  Each is made of something its identity keeps; and as long as a    *)
(* call runs, the maps know every name and every address that it shows.    *)

Keeps(d) ==
    /\ d.id.by = "mac" => d.mac = d.id.key /\ d.mac # None
    /\ d.id.by \in {"host", "netbios"} => d.host # None
    /\ d.id.by = "ip" => d.ips # <<>>
    /\ d.id.by = "repeated" => d.ips # <<>> \/ d.id.token = Token[None]

KeysKept == \A i \in 1..Len(devices) : Keeps(devices[i])

NamesKnown ==
    \A i \in 1..Len(devices) : devices[i].host # None => byName[devices[i].host] # 0

AddressesKnown ==
    \A i \in 1..Len(devices) : \A a \in ToSet(devices[i].ips) : byIp[a] # 0

IdInv ==
    /\ KeysKept /\ SameIdSameToken
    /\ pc = "merging" => NamesKnown /\ AddressesKnown

\* What tells an identity apart is never taken from it.
LEMMA KeptAndTold ==
    ASSUME NEW d \in Identity, NEW e \in Identity, Keeps(d), Remembers(d, e)
    PROVE  /\ Keeps(e) /\ e.id = d.id
           /\ \/ ToldApartBy(e) = ToldApartBy(d)
              \/ d.id.by = "repeated" /\ d.id.token = Token[None]
<1>1. /\ d.ips \in Seq(Addresses) /\ e.ips \in Seq(Addresses)
      /\ d.id.by \in {"repeated", "mac", "host", "netbios", "ip"}
  BY DEF Identity, Ids
<1>2. e.id = d.id /\ (d.mac # None => e.mac = d.mac) /\ (d.host # None => e.host = d.host)
      /\ IsPrefix(d.ips, e.ips)
  BY DEF Remembers
<1>3. d.ips # <<>> => e.ips # <<>> /\ Head(e.ips) = Head(d.ips)
  BY <1>1, <1>2 DEF IsPrefix
<1>4. Keeps(e)
  BY <1>2, <1>3 DEF Keeps
<1>5. \/ ToldApartBy(e) = ToldApartBy(d)
      \/ d.id.by = "repeated" /\ d.id.token = Token[None]
  BY <1>1, <1>2, <1>3 DEF Keeps, ToldApartBy
<1> QED BY <1>2, <1>4, <1>5

\* A new identity has all its id was made of.
LEMMA NewId ==
    ASSUME NEW o \in Observation, Identified(o)
    PROVE  LET d == NewIdentity(o)
           IN  /\ Keeps(d)
               /\ d.id.by = "mac" => o.mac \in Macs \ Repeated(batch) /\ d.id.key = o.mac
               /\ d.host # None =>
                    d.host = o.host \/ (o.host = None /\ d.host = o.netbios)
               /\ d.id.by \in {"ip", "repeated"} /\ d.ips # <<>> =>
                    o.ip # None /\ Head(d.ips) = o.ip
               /\ \A a \in ToSet(d.ips) : a = o.ip
<1> DEFINE d == NewIdentity(o)
<1>1. /\ o.mac \in Or(Macs) /\ o.host \in Or(Names) /\ o.netbios \in Or(Names)
      /\ o.ip \in Or(Addresses)
  BY DEF Observation
<1>2. /\ d.id = Id(o) /\ d.mac = o.mac /\ d.host = Other(o.host, o.netbios)
      /\ d.ips = IF o.ip = None THEN <<>> ELSE <<o.ip>>
  BY DEF NewIdentity
<1>3. o.mac \in Repeated(batch) => o.mac \in Macs
  BY DEF Repeated
<1> DEFINE by ==
             IF o.mac \in Repeated(batch) THEN "repeated"
             ELSE IF o.mac # None THEN "mac"
             ELSE IF o.host # None THEN "host"
             ELSE IF o.netbios # None THEN "netbios" ELSE "ip"
           named == [repeated |-> o.ip, mac |-> None, host |-> o.host,
                     netbios |-> o.netbios, ip |-> o.ip]
<1>4. d.id.by = by /\ d.id.key = o.mac /\ d.id.token = Token[named[by]]
  BY <1>2 DEF Id
<1>5. o.ip # None => d.ips # <<>> /\ Head(d.ips) = o.ip
  BY <1>2
<1>6. \A a \in ToSet(d.ips) : a = o.ip
  BY <1>2 DEF ToSet
<1>7. d.id.by = "repeated" /\ o.ip = None => d.id.token = Token[None]
  BY <1>4
<1>8. Keeps(d)
  BY <1>2, <1>4, <1>5, <1>7 DEF Keeps, Identified, Other
<1>9. d.id.by = "mac" => o.mac \in Macs \ Repeated(batch) /\ d.id.key = o.mac
  BY <1>1, <1>4 DEF Or
<1>10. d.host # None => d.host = o.host \/ (o.host = None /\ d.host = o.netbios)
  BY <1>2 DEF Other
<1>11. d.ips # <<>> => o.ip # None
  BY <1>2
<1> HIDE DEF d
<1> QED BY <1>5, <1>6, <1>8, <1>9, <1>10, <1>11 DEF d

\* The entry a call begins with is right about what is in the map.
LEMMA BeginIds ==
    ASSUME Inv, IdInv, Begin
    PROVE  IdInv'
<1>1. devices' = devices /\ pc' = "merging" /\ devices \in Seq(Identity)
      /\ DOMAIN devices = 1..Len(devices)
  BY DEF Begin, Inv, TypeOK
<1>2. \A i \in 1..Len(devices) :
        /\ devices[i].host \in Or(Names)
        /\ devices[i].ips \in Seq(Addresses)
  <2> TAKE i \in 1..Len(devices)
  <2>1. devices[i] \in Identity
    BY <1>1
  <2> QED BY <2>1 DEF Identity
<1> DEFINE Name(n) == {i \in DOMAIN devices : n \in {devices[i].host, devices[i].netbios}}
           Ip(a) == {i \in DOMAIN devices : a \in ToSet(devices[i].ips)}
<1>3. /\ byName' = [n \in Names |-> IF Name(n) = {} THEN 0 ELSE Max(Name(n))]
      /\ byIp' = [a \in Addresses |-> IF Ip(a) = {} THEN 0 ELSE Max(Ip(a))]
  BY DEF Begin, Latest
<1>4. \A n \in Names : byName'[n] = 0 <=> Name(n) = {}
  <2> TAKE n \in Names
  <2>1. Name(n) \in SUBSET (DOMAIN devices)
    OBVIOUS
  <2> HIDE DEF Name
  <2> QED BY <1>1, <1>3, <2>1, LatestHolds
<1>5. \A a \in Addresses : byIp'[a] = 0 <=> Ip(a) = {}
  <2> TAKE a \in Addresses
  <2>1. Ip(a) \in SUBSET (DOMAIN devices)
    OBVIOUS
  <2> HIDE DEF Ip
  <2> QED BY <1>1, <1>3, <2>1, LatestHolds
<1>6. NamesKnown'
  <2> SUFFICES ASSUME NEW i \in 1..Len(devices), devices[i].host # None
               PROVE  byName'[devices[i].host] # 0
    BY <1>1 DEF NamesKnown
  <2>1. devices[i].host \in Names /\ i \in Name(devices[i].host)
    BY <1>1, <1>2 DEF Or
  <2> HIDE DEF Name
  <2> QED BY <1>4, <2>1
<1>7. AddressesKnown'
  <2> SUFFICES ASSUME NEW i \in 1..Len(devices), NEW a \in ToSet(devices[i].ips)
               PROVE  byIp'[a] # 0
    BY <1>1 DEF AddressesKnown
  <2>1. a \in Addresses /\ i \in Ip(a)
    BY <1>1, <1>2 DEF ToSet
  <2> HIDE DEF Ip
  <2> QED BY <1>5, <2>1
<1>8. KeysKept' /\ SameIdSameToken'
  BY <1>1 DEF IdInv, KeysKept, SameIdSameToken
<1> QED BY <1>6, <1>7, <1>8 DEF IdInv

\* An identity is only added where its name, address and MAC are nobody's.
LEMMA AddIds ==
    ASSUME Inv, IdInv, AddDevice
    PROVE  IdInv'
<1> DEFINE o == Observed
           d == NewIdentity(o)
           n == Len(devices)
<1>1. InLoop /\ Match(o).at = 0 /\ Identified(o)
  BY DEF AddDevice
<1>2. /\ o = batch[next] /\ o \in Observation /\ pc = "merging" /\ pc' = "merging"
      /\ next \in 1..Len(batch)
      /\ TypeOK /\ Fresh /\ n \in Nat /\ devices \in Seq(Identity)
  BY <1>1, InLoopFacts
<1>3. /\ devices' = Append(devices, d)
      /\ byName' = Point(byName, {d.host, d.netbios}, n + 1)
      /\ byIp' = Point(byIp, ToSet(d.ips), n + 1)
  BY DEF AddDevice
<1>4. d \in Identity
  BY <1>2, NewIdentityType DEF TypeOK
<1>5. /\ MacOwner(o) = 0 /\ NameOwner(o) = 0 /\ AddressOwner(o) = 0
      /\ o.mac \in Macs \ Repeated(batch) => byMac[o.mac] = 0
  BY <1>1, <1>2, MatchType DEF Match
<1>6. /\ o.host # None => byName[o.host] = 0
      /\ o.host = None /\ o.netbios # None => byName[o.netbios] = 0
      /\ o.ip # None => byIp[o.ip] = 0
  BY <1>5 DEF NameOwner, AddressOwner, At
<1>7. /\ Keeps(d)
      /\ d.id.by = "mac" => o.mac \in Macs \ Repeated(batch) /\ d.id.key = o.mac
      /\ d.host # None => d.host = o.host \/ (o.host = None /\ d.host = o.netbios)
      /\ d.id.by \in {"ip", "repeated"} /\ d.ips # <<>> => o.ip # None /\ Head(d.ips) = o.ip
  BY <1>1, <1>2, NewId
<1> HIDE DEF d, o
<1>8. /\ devices' \in Seq(Identity) /\ Len(devices') = n + 1 /\ devices'[n + 1] = d
      /\ DOMAIN devices' = 1..(n + 1) /\ DOMAIN devices = 1..n
      /\ \A i \in 1..n : devices'[i] = devices[i] /\ devices[i] \in Identity
  BY <1>2, <1>3, <1>4
<1>9. byName \in [Names -> 0..n] /\ byIp \in [Addresses -> 0..n]
  BY <1>2 DEF TypeOK
<1> HIDE DEF n
<1>10. KeysKept /\ SameIdSameToken /\ NamesKnown /\ AddressesKnown
  BY <1>2 DEF IdInv
<1>11. KeysKept'
  BY <1>2, <1>7, <1>8, <1>10 DEF KeysKept, n
<1>12. \A i \in 1..n : devices[i].host \in Or(Names) /\ devices[i].ips \in Seq(Addresses)
                       /\ devices[i].id.by \in {"repeated", "mac", "host", "netbios", "ip"}
  BY <1>8 DEF Identity, Ids
<1>13. d.host \in Or(Names) /\ d.ips \in Seq(Addresses)
       /\ d.id.by \in {"repeated", "mac", "host", "netbios", "ip"}
  BY <1>4 DEF Identity, Ids
<1>14. NamesKnown'
  <2> SUFFICES ASSUME NEW i \in 1..(n + 1), devices'[i].host # None
               PROVE  byName'[devices'[i].host] # 0
    BY <1>8 DEF NamesKnown
  <2>1. devices'[i].host \in Names
    BY <1>2, <1>8, <1>12, <1>13 DEF Or
  <2>2. i \in 1..n => devices'[i] = devices[i] /\ byName[devices[i].host] # 0
    BY <1>8, <1>10 DEF NamesKnown, n
  <2> QED BY <1>2, <1>3, <1>8, <1>9, <2>1, <2>2 DEF Point
<1>15. AddressesKnown'
  <2> SUFFICES ASSUME NEW i \in 1..(n + 1), NEW a \in ToSet(devices'[i].ips)
               PROVE  byIp'[a] # 0
    BY <1>8 DEF AddressesKnown
  <2>1. a \in Addresses
    BY <1>2, <1>8, <1>12, <1>13 DEF ToSet
  <2>2. i \in 1..n => devices'[i] = devices[i] /\ byIp[a] # 0
    BY <1>8, <1>10 DEF AddressesKnown, n
  <2> QED BY <1>2, <1>3, <1>8, <1>9, <2>1, <2>2 DEF Point
\* Nobody has what the id of the new identity is made of.
<1>16. ASSUME NEW i \in 1..n, devices[i].id = d.id
       PROVE  \/ ToldApartBy(devices[i]) # ToldApartBy(d)
              \/ d.id.by = "repeated" /\ d.id.token = Token[None]
  <2>1. Keeps(devices[i])
    BY <1>10 DEF IdInv, KeysKept, n
  <2>2. CASE d.id.by = "mac"
    <3>1. next \in next..Len(batch) /\ batch[next].mac = o.mac /\ byMac[o.mac] = 0
          /\ o.mac \in Macs \ Repeated(batch)
      BY <1>2, <1>5, <1>7, <2>2
    <3>2. devices[i].mac # o.mac
      BY <1>2, <3>1 DEF Fresh, n
    <3> QED BY <1>7, <1>16, <2>1, <2>2, <3>2 DEF Keeps
  <2>3. CASE d.id.by \in {"host", "netbios"}
    <3>1. d.host # None /\ byName[d.host] = 0
      BY <1>6, <1>7, <2>3 DEF Keeps
    <3>2. devices[i].host # None /\ byName[devices[i].host] # 0
      BY <1>10, <1>16, <2>1, <2>3 DEF Keeps, NamesKnown, n
    <3>3. devices[i].host # d.host
      BY <3>1, <3>2
    <3> QED BY <1>16, <2>3, <3>3 DEF ToldApartBy
  <2>4. CASE d.id.by \in {"ip", "repeated"} /\ ~(d.id.by = "repeated" /\ d.id.token = Token[None])
    <3>1. d.ips # <<>> /\ devices[i].ips # <<>>
      BY <1>7, <1>16, <2>1, <2>4 DEF Keeps
    <3>2. Head(d.ips) = o.ip /\ byIp[o.ip] = 0
      BY <1>6, <1>7, <2>4, <3>1
    <3>3. Head(devices[i].ips) \in ToSet(devices[i].ips)
      BY <1>12, <3>1 DEF ToSet
    <3>4. Head(devices[i].ips) # Head(d.ips)
      BY <1>10, <3>2, <3>3 DEF AddressesKnown, n
    <3> QED BY <1>16, <2>4, <3>1, <3>4 DEF ToldApartBy
  <2> QED BY <1>13, <2>2, <2>3, <2>4
<1>17. SameIdSameToken'
  <2> SUFFICES ASSUME NEW i \in 1..(n + 1), NEW j \in 1..(n + 1), i # j,
                      devices'[i].id = devices'[j].id
               PROVE  \/ ToldApartBy(devices'[i]) # ToldApartBy(devices'[j])
                      \/ devices'[i].id.by = "repeated" /\ devices'[i].id.token = Token[None]
    BY <1>8 DEF SameIdSameToken, ToldApartBy
  <2>1. CASE i \in 1..n /\ j \in 1..n
    BY <1>8, <1>10, <2>1 DEF SameIdSameToken
  <2>2. CASE i = n + 1
    <3>1. j \in 1..n
      BY <1>2, <2>2 DEF n
    <3> QED BY <1>8, <1>16, <2>2, <3>1
  <2>3. CASE j = n + 1
    <3>1. i \in 1..n
      BY <1>2, <2>3 DEF n
    <3> QED BY <1>8, <1>16, <2>3, <3>1
  <2> QED BY <1>2, <2>1, <2>2, <2>3 DEF n
<1> QED BY <1>2, <1>11, <1>14, <1>15, <1>17 DEF IdInv

\* An update points the maps to the name and to the address an identity gets.
LEMMA UpdateIds ==
    ASSUME Inv, IdInv, UpdateDevice
    PROVE  IdInv'
<1> DEFINE o == Observed
           i == Match(o).at
           d == Merged(devices[i], o, Match(o).by)
           n == Len(devices)
<1>1. /\ InLoop /\ i \in 1..n
      /\ devices' \in Seq(Identity) /\ Len(devices') = n
      /\ \A j \in 1..n : j # i => devices'[j] = devices[j]
      /\ Remembers(devices[i], devices'[i])
  BY UpdateFacts
<1>2. /\ o \in Observation /\ pc = "merging" /\ pc' = "merging"
      /\ TypeOK /\ n \in Nat /\ devices \in Seq(Identity)
  BY <1>1, InLoopFacts
<1>3. /\ devices' = [devices EXCEPT ![i] = d]
      /\ byName' = Point(byName, {d.host, d.netbios}, i)
      /\ byIp' = IF d.ips = <<>> THEN byIp ELSE Point(byIp, {d.ips[Len(d.ips)]}, i)
  BY DEF UpdateDevice, Replace
<1>4. devices'[i] = d
  BY <1>1, <1>2, <1>3
<1>5. d.ips = IF Moved(devices[i], o) THEN Append(devices[i].ips, o.ip) ELSE devices[i].ips
  <2>0. devices[i] \in Identity
    BY <1>1, <1>2
  <2>1. devices[i] = [id |-> devices[i].id, mac |-> devices[i].mac, host |-> devices[i].host,
                      netbios |-> devices[i].netbios, ips |-> devices[i].ips,
                      confidence |-> devices[i].confidence]
    <3> HIDE DEF i
    <3> QED BY <2>0 DEF Identity
  <2> DEFINE ips == IF Moved(devices[i], o) THEN Append(devices[i].ips, o.ip)
                    ELSE devices[i].ips
  <2>2. d = [devices[i] EXCEPT !.mac = Other(devices[i].mac, o.mac),
                    !.host = HostName(devices[i], o),
                    !.netbios = Other(o.netbios, devices[i].netbios), !.ips = ips,
                    !.confidence = MergedConfidence(devices[i], o, Match(o).by)]
    BY DEF Merged
  <2> HIDE DEF ips, d, i, o
  <2>3. d.ips = ips
    BY <2>1, <2>2
  <2> QED BY <2>3 DEF ips
<1> HIDE DEF d, i, o
<1>6. /\ DOMAIN devices' = 1..n /\ DOMAIN devices = 1..n
      /\ \A j \in 1..n : devices'[j] \in Identity /\ devices[j] \in Identity
  BY <1>1, <1>2
<1>7. byName \in [Names -> 0..n] /\ byIp \in [Addresses -> 0..n]
  BY <1>2 DEF TypeOK
<1> HIDE DEF n
<1>8. KeysKept /\ SameIdSameToken /\ NamesKnown /\ AddressesKnown
  BY <1>2 DEF IdInv
<1>9. \A j \in 1..n :
        /\ Keeps(devices[j]) /\ Keeps(devices'[j]) /\ devices'[j].id = devices[j].id
        /\ \/ ToldApartBy(devices'[j]) = ToldApartBy(devices[j])
           \/ devices[j].id.by = "repeated" /\ devices[j].id.token = Token[None]
  <2> TAKE j \in 1..n
  <2>1. Keeps(devices[j])
    BY <1>8 DEF KeysKept, n
  <2>2. CASE j = i
    BY <1>1, <1>6, <2>1, <2>2, KeptAndTold
  <2>3. CASE j # i
    BY <1>1, <2>1, <2>3
  <2> QED BY <2>2, <2>3
<1>10. KeysKept'
  BY <1>1, <1>9 DEF KeysKept, n
<1>11. SameIdSameToken'
  <2> SUFFICES ASSUME NEW j \in 1..n, NEW l \in 1..n, j # l, devices'[j].id = devices'[l].id
               PROVE  \/ ToldApartBy(devices'[j]) # ToldApartBy(devices'[l])
                      \/ devices'[j].id.by = "repeated" /\ devices'[j].id.token = Token[None]
    BY <1>6 DEF SameIdSameToken, ToldApartBy
  <2>1. \/ ToldApartBy(devices[j]) # ToldApartBy(devices[l])
        \/ devices[j].id.by = "repeated" /\ devices[j].id.token = Token[None]
    BY <1>6, <1>8, <1>9 DEF SameIdSameToken
  <2> QED BY <1>9, <2>1
<1>12. \A j \in 1..n : /\ devices[j].host \in Or(Names) /\ devices[j].ips \in Seq(Addresses)
                       /\ devices'[j].host \in Or(Names) /\ devices'[j].ips \in Seq(Addresses)
  BY <1>6 DEF Identity
<1>13. NamesKnown'
  <2> SUFFICES ASSUME NEW j \in 1..n, devices'[j].host # None
               PROVE  byName'[devices'[j].host] # 0
    BY <1>1 DEF NamesKnown, n
  <2>1. devices'[j].host \in Names
    BY <1>12 DEF Or
  <2>2. j # i => byName[devices'[j].host] # 0
    BY <1>1, <1>8 DEF NamesKnown, n
  <2>3. i # 0
    BY <1>1, <1>2 DEF n
  <2> QED BY <1>3, <1>4, <1>7, <2>1, <2>2, <2>3 DEF Point
<1>14. AddressesKnown'
  <2> SUFFICES ASSUME NEW j \in 1..n, NEW a \in ToSet(devices'[j].ips)
               PROVE  byIp'[a] # 0
    BY <1>1 DEF AddressesKnown, n
  <2>1. a \in Addresses
    BY <1>12 DEF ToSet
  <2>2. i # 0
    BY <1>1, <1>2 DEF n
  <2>3. byIp[a] # 0 => byIp'[a] # 0
    BY <1>3, <1>7, <2>1, <2>2 DEF Point
  <2>4. a \in ToSet(devices[j].ips) => byIp[a] # 0
    BY <1>8 DEF AddressesKnown, n
  <2>5. CASE j # i
    BY <1>1, <2>3, <2>4, <2>5
  <2>6. CASE j = i /\ Moved(devices[i], o)
    <3>1. d.ips = Append(devices[i].ips, o.ip) /\ o.ip \in Addresses
      BY <1>2, <1>5, <2>6 DEF Moved, Observation, Or
    <3>2. /\ d.ips # <<>> /\ d.ips[Len(d.ips)] = o.ip
          /\ a \in ToSet(devices[i].ips) \/ a = o.ip
      <4>1. devices[i].ips \in Seq(Addresses) /\ a \in ToSet(d.ips)
        BY <1>1, <1>4, <1>12, <2>6
      <4> QED BY <3>1, <4>1, AppendProperties DEF ToSet
    <3>3. a = o.ip => byIp'[a] # 0
      BY <1>3, <1>7, <2>1, <2>2, <3>2 DEF Point
    <3> QED BY <2>3, <2>4, <2>6, <3>2, <3>3
  <2>7. CASE j = i /\ ~Moved(devices[i], o)
    BY <1>4, <1>5, <2>3, <2>4, <2>7
  <2> QED BY <2>5, <2>6, <2>7
<1> QED BY <1>2, <1>10, <1>11, <1>13, <1>14 DEF IdInv

LEMMA IdInvariance == Spec => []IdInv
<1>1. Init => IdInv
  BY DEF Init, IdInv, KeysKept, SameIdSameToken
<1>2. Inv /\ IdInv /\ [Next]_vars => IdInv'
  <2> SUFFICES ASSUME Inv, IdInv, [Next]_vars PROVE IdInv'
    OBVIOUS
  <2>1. CASE Begin
    BY <2>1, BeginIds
  <2>2. CASE AddDevice
    BY <2>2, AddIds
  <2>3. CASE UpdateDevice
    BY <2>3, UpdateIds
  <2>4. CASE Skip \/ Return \/ UNCHANGED vars
    <3>1. devices' = devices /\ (pc' = "merging" => pc = "merging" /\ UNCHANGED <<byName, byIp>>)
      BY <2>4 DEF Skip, InLoop, Return, vars
    <3>2. KeysKept' /\ SameIdSameToken'
      BY <3>1 DEF IdInv, KeysKept, SameIdSameToken
    <3>3. pc' = "merging" => NamesKnown' /\ AddressesKnown'
      BY <3>1 DEF IdInv, NamesKnown, AddressesKnown
    <3> QED BY <3>2, <3>3 DEF IdInv
  <2> QED BY <2>1, <2>2, <2>3, <2>4 DEF Next
<1> QED BY <1>1, <1>2, Invariance, PTL DEF Spec

-----------------------------------------------------------------------------
(* The reported changes.                                                   *)

\* The devices of before and those added are the identities there are, by
\* their ids, and no update is of an unknown one.
ReplayInv ==
    /\ prior \in Seq(Identity) /\ added \in Seq(Identity) /\ updated \in Seq(Identity)
    /\ pc = "merging" =>
         /\ Len(devices) = Len(Announced)
         /\ \A i \in 1..Len(devices) : Announced[i].id = devices[i].id
         /\ \A k \in 1..Len(updated) :
              \E i \in 1..Len(devices) : updated[k].id = devices[i].id
    /\ ChangesReplay

LEMMA AnnouncedType ==
    ASSUME prior \in Seq(Identity), added \in Seq(Identity)
    PROVE  /\ Announced \in Seq(Identity) /\ Len(Announced) \in Nat
           /\ \A d \in Identity :
                /\ prior \o Append(added, d) = Append(Announced, d)
                /\ Append(Announced, d) \in Seq(Identity)
                /\ Len(Append(Announced, d)) = Len(Announced) + 1
                /\ Append(Announced, d)[Len(Announced) + 1] = d
                /\ \A i \in 1..Len(Announced) : Append(Announced, d)[i] = Announced[i]
<1>1. Announced \in Seq(Identity) /\ Len(Announced) \in Nat
  BY DEF Announced
<1>2. ASSUME NEW d \in Identity
      PROVE  prior \o Append(added, d) = Append(Announced, d)
  BY DEF Announced
<1> HIDE DEF Announced
<1> QED BY <1>1, <1>2, AppendProperties

\* The last of some positions, when a later one is added to them.
LEMMA MaxGrows ==
    ASSUME NEW n \in Nat, NEW S \in SUBSET (1..n)
    PROVE  Max(S \cup {n + 1}) = n + 1
<1>1. Max(S \cup {n + 1}) \in S \cup {n + 1}
  BY MaxIn, S \cup {n + 1} \in SUBSET (1..(n + 1)), n + 1 \in Nat
<1>2. \E m \in S \cup {n + 1} : \A k \in S \cup {n + 1} : m >= k
  <2>1. n + 1 \in S \cup {n + 1} /\ \A k \in S \cup {n + 1} : n + 1 >= k
    OBVIOUS
  <2> QED BY <2>1
<1>3. \A k \in S \cup {n + 1} : Max(S \cup {n + 1}) >= k
  BY <1>2 DEF Max
<1>4. n + 1 \in S \cup {n + 1} /\ \A k \in S : k \in 1..n
  OBVIOUS
<1> PICK m : m = Max(S \cup {n + 1})
  OBVIOUS
<1>5. m >= n + 1 /\ (m = n + 1 \/ m \in 1..n)
  BY <1>1, <1>3, <1>4
<1> QED BY <1>5

LEMMA AddReplays ==
    ASSUME Inv, ReplayInv, AddDevice
    PROVE  ReplayInv'
<1> PICK n, s, d : n = Len(devices) /\ s = Announced /\ d = NewIdentity(Observed)
  OBVIOUS
<1>1. /\ Observed \in Observation /\ pc = "merging" /\ pc' = "merging" /\ TypeOK
      /\ n \in Nat /\ devices \in Seq(Identity)
  BY InLoopFacts DEF AddDevice
<1>2. d \in Identity
  BY <1>1, NewIdentityType, InLoopFacts DEF TypeOK
<1>3. devices' = Append(devices, d) /\ added' = Append(added, d)
      /\ updated' = updated /\ prior' = prior
  BY DEF AddDevice, InLoop
<1>4. /\ prior \in Seq(Identity) /\ added \in Seq(Identity) /\ updated \in Seq(Identity)
      /\ n = Len(s) /\ \A i \in 1..n : s[i].id = devices[i].id
      /\ \A k \in 1..Len(updated) : \E i \in 1..n : updated[k].id = devices[i].id
      /\ ChangesReplay
  BY <1>1 DEF ReplayInv
<1>5. /\ Announced' = Append(s, d) /\ Len(Append(s, d)) = n + 1 /\ Append(s, d)[n + 1] = d
      /\ \A i \in 1..n : Append(s, d)[i] = s[i]
  BY <1>2, <1>3, <1>4, AnnouncedType DEF Announced
<1>6. /\ Len(devices') = n + 1 /\ devices'[n + 1] = d
      /\ \A i \in 1..n : devices'[i] = devices[i]
      /\ DOMAIN devices = 1..n /\ DOMAIN devices' = 1..(n + 1)
  BY <1>1, <1>2, <1>3
<1>7. added' \in Seq(Identity)
  BY <1>2, <1>3, <1>4
<1>8. /\ Len(devices') = Len(Announced')
      /\ \A i \in 1..(n + 1) : Announced'[i].id = devices'[i].id
      /\ \A k \in 1..Len(updated') :
           \E i \in 1..(n + 1) : updated'[k].id = devices'[i].id
  <2>1. \A i \in 1..(n + 1) : i \in 1..n \/ i = n + 1
    BY <1>1
  <2>2. Len(Announced') = n + 1
    BY <1>5
  <2>3. \A i \in 1..(n + 1) : Announced'[i].id = devices'[i].id
    BY <1>4, <1>5, <1>6, <2>1
  <2>4. ASSUME NEW k \in 1..Len(updated)
        PROVE  \E i \in 1..(n + 1) : updated[k].id = devices'[i].id
    <3>1. PICK i \in 1..n : updated[k].id = devices[i].id
      BY <1>4
    <3>2. i \in 1..(n + 1) /\ devices'[i] = devices[i]
      BY <1>1, <1>6
    <3> QED BY <3>1, <3>2
  <2> QED BY <1>3, <1>6, <2>2, <2>3, <2>4
<1>9. ASSUME IdsDiffer'
      PROVE  \A i \in 1..(n + 1) :
               devices'[i] = IF Told(i)' = {} THEN Announced'[i] ELSE updated'[Max(Told(i)')]
  <2>1. IdsDiffer
    BY <1>1, <1>6, <1>9 DEF IdsDiffer
  <2>2. DOMAIN updated = 1..Len(updated)
    BY <1>4
  <2>3. ASSUME NEW i \in 1..n
        PROVE  devices'[i] = IF Told(i)' = {} THEN Announced'[i] ELSE updated'[Max(Told(i)')]
    <3>1. Told(i)' = Told(i) /\ Announced'[i] = Announced[i]
      BY <1>3, <1>5 DEF Told
    <3>2. devices[i] = IF Told(i) = {} THEN Announced[i] ELSE updated[Max(Told(i))]
      BY <1>1, <1>4, <1>6, <2>1 DEF ChangesReplay
    <3> QED BY <1>3, <1>6, <3>1, <3>2
  <2>4. Told(n + 1)' = {}
    <3> SUFFICES ASSUME NEW k \in 1..Len(updated), updated[k].id = d.id
                 PROVE  FALSE
      BY <1>3, <1>5, <2>2 DEF Told
    <3>1. PICK i \in 1..n : updated[k].id = devices[i].id
      BY <1>4
    <3>2. i # n + 1 /\ i \in 1..(n + 1) /\ n + 1 \in 1..(n + 1)
      BY <1>1
    <3> QED BY <1>6, <1>9, <3>1, <3>2 DEF IdsDiffer
  <2>5. devices'[n + 1] = Announced'[n + 1]
    BY <1>5, <1>6
  <2>6. \A i \in 1..(n + 1) : i \in 1..n \/ i = n + 1
    BY <1>1
  <2> QED BY <2>3, <2>4, <2>5, <2>6
<1>10. ChangesReplay'
  BY <1>6, <1>8, <1>9 DEF ChangesReplay
<1> QED BY <1>3, <1>4, <1>6, <1>7, <1>8, <1>10 DEF ReplayInv

LEMMA UpdateReplays ==
    ASSUME Inv, ReplayInv, UpdateDevice
    PROVE  ReplayInv'
<1> PICK i, n, u : i = Match(Observed).at /\ n = Len(devices) /\ u = Len(updated)
  OBVIOUS
<1>1. /\ InLoop /\ i \in 1..n
      /\ devices' \in Seq(Identity) /\ Len(devices') = n
      /\ \A j \in 1..n : j # i => devices'[j] = devices[j]
      /\ devices'[i] \in Identity /\ Remembers(devices[i], devices'[i])
  BY UpdateFacts
<1>2. /\ pc = "merging" /\ pc' = "merging" /\ n \in Nat /\ devices \in Seq(Identity)
  BY <1>1, InLoopFacts
<1>3. /\ prior \in Seq(Identity) /\ added \in Seq(Identity) /\ updated \in Seq(Identity)
      /\ n = Len(Announced) /\ \A j \in 1..n : Announced[j].id = devices[j].id
      /\ \A k \in 1..u : \E j \in 1..n : updated[k].id = devices[j].id
      /\ ChangesReplay
  BY <1>2 DEF ReplayInv
<1>4. updated' = Append(updated, devices'[i]) /\ added' = added /\ prior' = prior
  <2>1. PICK d : d = Merged(devices[i], Observed, Match(Observed).by)
    OBVIOUS
  <2>2. devices' = [devices EXCEPT ![i] = d] /\ updated' = Append(updated, d)
        /\ added' = added /\ prior' = prior
    BY <2>1 DEF UpdateDevice, Replace, InLoop
  <2>3. devices'[i] = d
    BY <1>1, <1>2, <2>2
  <2> QED BY <2>2, <2>3
<1>5. /\ updated' \in Seq(Identity) /\ Len(updated') = u + 1 /\ updated'[u + 1] = devices'[i]
      /\ \A k \in 1..u : updated'[k] = updated[k]
      /\ DOMAIN updated = 1..u /\ DOMAIN updated' = 1..(u + 1) /\ u \in Nat
  BY <1>1, <1>3, <1>4, AppendProperties
<1>6. DOMAIN devices = 1..n /\ DOMAIN devices' = 1..n
  BY <1>1, <1>2
<1>7. Announced' = Announced
  BY <1>4 DEF Announced
<1>8. \A j \in 1..n : devices'[j].id = devices[j].id
  BY <1>1 DEF Remembers
<1>9. /\ \A j \in 1..n : Announced'[j].id = devices'[j].id
      /\ \A k \in 1..(u + 1) : \E j \in 1..n : updated'[k].id = devices'[j].id
  <2>1. ASSUME NEW k \in 1..(u + 1)
        PROVE  \E j \in 1..n : updated'[k].id = devices'[j].id
    <3>1. CASE k = u + 1
      BY <1>1, <1>5, <3>1
    <3>2. CASE k \in 1..u
      <4>1. PICK j \in 1..n : updated[k].id = devices[j].id
        BY <1>3, <3>2
      <4> QED BY <1>5, <1>8, <3>2, <4>1
    <3> QED BY <1>5, <3>1, <3>2
  <2> QED BY <1>3, <1>7, <1>8, <2>1
<1>10. ASSUME IdsDiffer', NEW j \in 1..n
       PROVE  devices'[j] = IF Told(j)' = {} THEN Announced'[j] ELSE updated'[Max(Told(j)')]
  <2>1. IdsDiffer
    BY <1>6, <1>8, <1>10 DEF IdsDiffer
  <2>2. devices[j] = IF Told(j) = {} THEN Announced[j] ELSE updated[Max(Told(j))]
    BY <1>2, <1>3, <1>6, <2>1 DEF ChangesReplay
  <2>3. Told(j) \in SUBSET (1..u)
    BY <1>5 DEF Told
  <2>4. CASE j = i
    <3>1. updated'[u + 1].id = Announced[j].id
      BY <1>3, <1>5, <1>8, <2>4
    <3>2. Told(j)' = Told(j) \cup {u + 1}
      BY <1>5, <1>7, <3>1 DEF Told
    <3>3. Max(Told(j)') = u + 1
      BY <1>5, <2>3, <3>2, MaxGrows
    <3> QED BY <1>5, <2>4, <3>2, <3>3
  <2>5. CASE j # i
    <3>1. updated'[u + 1].id # Announced[j].id
      <4>1. devices[i].id # devices[j].id
        BY <1>1, <1>6, <2>1, <2>5 DEF IdsDiffer
      <4> QED BY <1>1, <1>3, <1>5, <1>8, <4>1
    <3>2. Told(j)' = Told(j)
      BY <1>5, <1>7, <3>1 DEF Told
    <3>3. Told(j) # {} => updated'[Max(Told(j))] = updated[Max(Told(j))]
      BY <1>5, <2>3, MaxIn
    <3> QED BY <1>1, <1>7, <2>2, <2>5, <3>2, <3>3
  <2> QED BY <2>4, <2>5
<1>11. ChangesReplay'
  BY <1>1, <1>3, <1>6, <1>7, <1>10 DEF ChangesReplay
<1>12. /\ prior' \in Seq(Identity) /\ added' \in Seq(Identity)
       /\ Len(devices') = n /\ Len(Announced') = n
  BY <1>1, <1>3, <1>4, <1>7
<1> QED BY <1>5, <1>9, <1>11, <1>12 DEF ReplayInv

LEMMA ReplayInvariance == Spec => []ReplayInv
<1>1. Init => ReplayInv
  BY DEF Init, ReplayInv, ChangesReplay
<1>2. Inv /\ ReplayInv /\ [Next]_vars => ReplayInv'
  <2> SUFFICES ASSUME Inv, ReplayInv, [Next]_vars PROVE ReplayInv'
    OBVIOUS
  <2>1. CASE Begin
    <3>1. /\ devices' = devices /\ devices \in Seq(Identity)
          /\ prior' = devices /\ added' = <<>> /\ updated' = <<>>
      BY <2>1 DEF Begin, Inv, TypeOK
    <3>2. Announced' = devices
      BY <3>1 DEF Announced
    <3>3. \A i : Told(i)' = {}
      BY <3>1 DEF Told
    <3> QED BY <3>1, <3>2, <3>3 DEF ReplayInv, ChangesReplay
  <2>2. CASE AddDevice
    BY <2>2, AddReplays
  <2>3. CASE UpdateDevice
    BY <2>3, UpdateReplays
  <2>4. CASE Return
    BY <2>4 DEF Return, ReplayInv, ChangesReplay
  <2>5. CASE Skip \/ UNCHANGED vars
    <3>1. UNCHANGED <<pc, devices, prior, added, updated>>
      BY <2>5 DEF Skip, InLoop, vars
    <3>2. Announced' = Announced
      BY <3>1 DEF Announced
    <3>3. IdsDiffer' = IdsDiffer /\ \A i : Told(i)' = Told(i)
      BY <3>1, <3>2 DEF IdsDiffer, Told
    <3>4. ChangesReplay'
      BY <3>1, <3>2, <3>3 DEF ReplayInv, ChangesReplay
    <3> QED BY <3>1, <3>2, <3>4 DEF ReplayInv
  <2> QED BY <2>1, <2>2, <2>3, <2>4, <2>5 DEF Next
<1> QED BY <1>1, <1>2, Invariance, PTL DEF Spec

-----------------------------------------------------------------------------
(* The theorems.                                                           *)

\* Two identities hold one MAC only if two observations of one call have shown
\* it, however names and addresses of the devices cross (device_merge.cpp:352-381).
THEOREM SharedMac == Spec => []SharedMacWasRepeated
<1>1. Inv => SharedMacWasRepeated
  BY DEF Inv
<1> QED BY Invariance, <1>1, PTL

\* When a call returns, every observation is accounted for by an identity, and a
\* MAC reported once that is anybody's by its own (device_merge.cpp:331-621).
THEOREM ObservationsPlaced == Spec => []EveryObservationPlaced
<1>1. Inv => EveryObservationPlaced
  <2> SUFFICES ASSUME Inv, next > Len(batch), NEW o \in ToSet(batch), Identified(o)
               PROVE  \E d \in ToSet(devices) : Placed(o, d)
    BY DEF EveryObservationPlaced
  <2>0. PICK k \in 1..Len(batch) : o = batch[k]
    BY DEF ToSet, Inv, TypeOK
  <2>1. /\ TypeOK /\ PlacedSoFar /\ k < next /\ batch[k] \in Observation
        /\ devices \in Seq(Identity) /\ ToSet(devices) = {devices[j] : j \in 1..Len(devices)}
    BY DEF Inv, TypeOK, ToSet
  <2>2. PICK i \in 1..Len(devices) :
               /\ Served(batch[k], devices[i])
               /\ Owned(batch[k].mac) => devices[i].mac = batch[k].mac
    BY <2>0, <2>1 DEF PlacedSoFar
  <2>3. batch[k].mac # None => batch[k].mac \in Macs
    BY <2>1 DEF Observation, Or
  <2>4. Placed(batch[k], devices[i])
    BY <2>1, <2>2, <2>3 DEF Placed, Served, Owned
  <2> QED BY <2>0, <2>1, <2>4
<1> QED BY Invariance, <1>1, PTL

\* No step forgets an id, a MAC, a host name or an address of an identity,
\* whatever a later observation says of it (device_merge.cpp:472-614).
THEOREM Remembered == Spec => NothingForgotten
<1> DEFINE Kept == /\ Len(devices') >= Len(devices)
                   /\ \A i \in DOMAIN devices : Remembers(devices[i], devices'[i])
<1>1. Inv /\ [Next]_vars => [Kept]_vars
  <2> SUFFICES ASSUME Inv, Next PROVE Kept
    OBVIOUS
  <2>1. /\ devices \in Seq(Identity) /\ Len(devices) \in Nat
        /\ DOMAIN devices = 1..Len(devices) /\ policy \in Policies
    BY DEF Inv, TypeOK
  <2>2. \A i \in 1..Len(devices) : Remembers(devices[i], devices[i])
    <3> TAKE i \in 1..Len(devices)
    <3>1. devices[i] \in Identity
      BY <2>1
    <3>2. devices[i].ips \in Seq(Addresses) /\ devices[i].confidence \in Int
      BY <3>1 DEF Identity
    <3> QED BY <3>2 DEF Remembers, IsPrefix
  <2>3. CASE Begin \/ Skip \/ Return
    <3>1. devices' = devices
      BY <2>3 DEF Begin, Skip, Return
    <3> QED BY <2>1, <2>2, <3>1
  <2>4. CASE AddDevice
    <3>1. devices' = Append(devices, NewIdentity(Observed))
      BY <2>4 DEF AddDevice
    <3>2. Len(devices') = Len(devices) + 1
          /\ \A i \in 1..Len(devices) : devices'[i] = devices[i]
      BY <2>1, <3>1
    <3> QED BY <2>1, <2>2, <3>2
  <2>5. CASE UpdateDevice
    <3> DEFINE i == Match(Observed).at
    <3>1. /\ Len(devices') = Len(devices) /\ Remembers(devices[i], devices'[i])
          /\ \A j \in 1..Len(devices) : j # i => devices'[j] = devices[j]
      BY <2>5, UpdateFacts
    <3> HIDE DEF i
    <3> QED BY <2>1, <2>2, <3>1
  <2> QED BY <2>3, <2>4, <2>5 DEF Next
<1> QED BY Invariance, <1>1, PTL DEF Spec, NothingForgotten

\* Two identities have one id only if make_identity_id lost what tells them
\* apart: otherwise the name, address or MAC would have found the first of
\* them, in this call or a later one (device_merge.cpp:36-47, 81-102).
THEOREM IdsTellApart == Spec => []SameIdSameToken
<1>1. IdInv => SameIdSameToken
  BY DEF IdInv
<1> QED BY IdInvariance, <1>1, PTL

\* A caller that keeps the devices of before, appends those added and replaces
\* by id those updated has the devices the call returns, as long as ids tell
\* them apart (device_merge.cpp:520-560, 616-621).
THEOREM ChangesTellDevices == Spec => []ChangesReplay
<1>1. ReplayInv => ChangesReplay
  BY DEF ReplayInv
<1> QED BY ReplayInvariance, <1>1, PTL
=============================================================================
