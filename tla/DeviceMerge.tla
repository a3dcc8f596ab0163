---------------------------- MODULE DeviceMerge ----------------------------
(***************************************************************************)
(* merge_device_observations (src/src/engine_cpp/src/device_merge.cpp):    *)
(* the observations of one scan are merged, one after the other, into the  *)
(* identities that earlier scans have left.  An observation belongs to an  *)
(* identity by its MAC, or by its host name, its NetBIOS name or its       *)
(* address, in this order, found through three maps that are built when    *)
(* the call begins and only partly kept up to date while it runs.  The     *)
(* caller passes what one call returned to the next one.                   *)
(*                                                                         *)
(* Names and MACs are taken as normalised; one that normalises to nothing  *)
(* counts as absent.  Sources, vendors, workgroups and warnings are left   *)
(* out: nothing depends on them, but ReducedWhenSaid quotes two warnings.  *)
(***************************************************************************)
EXTENDS Integers, Sequences, FiniteSets, SequencesExt

CONSTANTS
    Addresses, Macs, Names,  \* what an observation may show of a device
    None,                    \* an identifier that is absent
    Token,                   \* sanitize_id_token: the part of a name or an
                             \* address that enters an identity's id
    Policies,                \* the DeviceMergePolicy of a call
    Batches,                 \* the observations of a call
    MaxReports               \* bound: observations over all calls

VARIABLES
    pc,                  \* whether a call is running
    devices,             \* current_devices
    policy, batch, next, \* the arguments of the call and the loop's index
    byMac, byName, byIp, \* the maps from identifiers to devices, 0: no entry
    added, updated,      \* added_devices, updated_devices
    prior,               \* prior_devices
    reports,             \* how many observations the calls were given
    twice                \* history: MACs two observations of a call have shown

vars == <<pc, devices, policy, batch, next, byMac, byName, byIp, added, updated,
          prior, reports, twice>>

Or(S) == S \cup {None}

Observation ==
    [mac : Or(Macs), host : Or(Names), netbios : Or(Names), ip : Or(Addresses),
     random : BOOLEAN, virtual : BOOLEAN]

Weights == {"matchMac", "matchName", "matchIp", "new", "history", "signal",
            "repeated", "random", "virtual", "moved", "min", "max"}

\* A call whose policy has no such window of confidence is refused at once.
ASSUME PolicyWindow ==
    Policies \subseteq {p \in [Weights -> Nat] : p["min"] <= p["max"]}
ASSUME AbsentIsNone == None \notin Addresses \cup Macs \cup Names
ASSUME BatchesObserve == Batches \subseteq Seq(Observation) /\ MaxReports \in Nat

-----------------------------------------------------------------------------
(* Matching.                                                               *)

\* The MACs that more than one observation of a batch shows.
Repeated(b) ==
    {m \in Macs : \E i, j \in DOMAIN b : i # j /\ b[i].mac = m /\ b[j].mac = m}

At(map, key) == IF key = None THEN 0 ELSE map[key]

MacOwner(o) == IF o.mac \in Repeated(batch) THEN 0 ELSE At(byMac, o.mac)
NameOwner(o) ==
    IF At(byName, o.host) # 0 THEN At(byName, o.host) ELSE At(byName, o.netbios)
AddressOwner(o) == At(byIp, o.ip)

Identified(o) == \E key \in {o.mac, o.host, o.netbios, o.ip} : key # None

\* Fault: names are looked up before MACs.
NameBeforeMac(o) ==
    IF NameOwner(o) # 0 THEN [at |-> NameOwner(o), by |-> "matchName"]
    ELSE IF MacOwner(o) # 0 THEN [at |-> MacOwner(o), by |-> "matchMac"]
    ELSE [at |-> AddressOwner(o), by |-> "matchIp"]

\* The identity an observation belongs to, 0 if it shows a new one.
Match(o) ==
    IF MacOwner(o) # 0 THEN [at |-> MacOwner(o), by |-> "matchMac"]
    ELSE IF NameOwner(o) # 0 THEN [at |-> NameOwner(o), by |-> "matchName"]
    ELSE [at |-> AddressOwner(o), by |-> "matchIp"]

-----------------------------------------------------------------------------
(* Confidence: a sequence of adjustments, each clamped to the window.      *)

Clamp(c) ==
    IF c < policy["min"] THEN policy["min"]
    ELSE IF c > policy["max"] THEN policy["max"] ELSE c

Adjust(c, applies, amount) == IF applies THEN Clamp(c + amount) ELSE c

\* An observation of a randomised MAC or a virtual adapter is trusted less.
Doubted(c, o) ==
    Adjust(Adjust(c, o.random, -policy["random"]), o.virtual, -policy["virtual"])

NewConfidence(o) ==
    Adjust(Doubted(Adjust(Clamp(policy["new"]), o.mac \in Repeated(batch),
                          -policy["repeated"]), o),
           o.host # None, policy["signal"])

Moved(d, o) == o.ip # None /\ o.ip \notin ToSet(d.ips)

Evidence(d, o, by) ==
    LET named == Adjust(d.confidence, o.host # None /\ d.host = None, policy["signal"])
        moved == Adjust(named, Moved(d, o) /\ d.ips # <<>>, -policy["moved"])
        owned == Adjust(moved, o.mac # None /\ d.mac = None, policy["history"])
        other == Adjust(owned, o.mac # None /\ d.mac \notin {None, o.mac},
                        -policy["repeated"])
    IN  Doubted(Clamp(other + policy[by] \div 2), o)

\* What speaks against a known identity is forgotten, and then it gains.
MergedConfidence(d, o, by) ==
    IF Evidence(d, o, by) > d.confidence THEN Evidence(d, o, by)
    ELSE Clamp(d.confidence + policy["history"])

-----------------------------------------------------------------------------
(* Identities.                                                             *)

\* Fault: devices that share a MAC share the id made of it.
IdOfMac(o) ==
    [by |-> IF o.mac # None THEN "mac" ELSE "ip", key |-> o.mac,
     token |-> IF o.mac # None THEN Token[None] ELSE Token[o.ip], index |-> 0]

\* make_identity_id
Id(o) ==
    LET by ==
            IF o.mac \in Repeated(batch) THEN "repeated"
            ELSE IF o.mac # None THEN "mac"
            ELSE IF o.host # None THEN "host"
            ELSE IF o.netbios # None THEN "netbios" ELSE "ip"
        named == [repeated |-> o.ip, mac |-> None, host |-> o.host,
                  netbios |-> o.netbios, ip |-> o.ip]
    IN  [by |-> by, key |-> o.mac, token |-> Token[named[by]],
         index |-> IF by = "repeated" THEN next ELSE 0]

Other(v, default) == IF v # None THEN v ELSE default

\* Fault: an observation that shows a name renames the device.
LatestName(d, o) == Other(Other(o.host, o.netbios), d.host)

\* A host name stays; a device without one takes the observation's, or its
\* NetBIOS name.
HostName(d, o) == Other(d.host, Other(o.host, o.netbios))

NewIdentity(o) ==
    [id |-> Id(o), mac |-> o.mac, host |-> Other(o.host, o.netbios),
     netbios |-> o.netbios, ips |-> IF o.ip = None THEN <<>> ELSE <<o.ip>>,
     confidence |-> NewConfidence(o)]

\* Fault: the address is taken only from an identity's first observation.
FirstAddress(d, o, by) ==
    [d EXCEPT !.mac = Other(d.mac, o.mac),
              !.host = HostName(d, o),
              !.netbios = Other(o.netbios, d.netbios),
              !.confidence = MergedConfidence(d, o, by)]

Merged(d, o, by) ==
    [d EXCEPT !.mac = Other(d.mac, o.mac),
              !.host = HostName(d, o),
              !.netbios = Other(o.netbios, d.netbios),
              !.ips = IF Moved(d, o) THEN Append(d.ips, o.ip) ELSE d.ips,
              !.confidence = MergedConfidence(d, o, by)]

-----------------------------------------------------------------------------
(* The call.                                                               *)

Empty(S) == [k \in S |-> 0]

\* What the maps hold of several devices with one key: the last of them.
Latest(those) == IF those = {} THEN 0 ELSE Max(those)

Point(map, keys, i) == [k \in DOMAIN map |-> IF k \in keys THEN i ELSE map[k]]

\* Fault: the device is reported as it was.
ReplaceLater(i, d) ==
    /\ devices' = [devices EXCEPT ![i] = d]
    /\ updated' = Append(updated, devices[i])

Replace(i, d) ==
    /\ devices' = [devices EXCEPT ![i] = d]
    /\ updated' = Append(updated, d)

Init ==
    /\ pc = "idle" /\ devices = <<>> /\ policy \in Policies
    /\ batch = <<>> /\ next = 1
    /\ byMac = Empty(Macs) /\ byName = Empty(Names) /\ byIp = Empty(Addresses)
    /\ added = <<>> /\ updated = <<>> /\ prior = <<>>
    /\ reports = 0 /\ twice = {}

Begin ==
    /\ pc = "idle" /\ pc' = "merging"
    /\ policy' \in Policies
    /\ batch' \in Batches /\ next' = 1
    /\ reports' = reports + Len(batch') /\ reports' <= MaxReports
    /\ twice' = twice \cup Repeated(batch')
    /\ byMac' = [m \in Macs |-> Latest({i \in DOMAIN devices : devices[i].mac = m})]
    /\ byName' = [n \in Names |->
                   Latest({i \in DOMAIN devices : n \in {devices[i].host, devices[i].netbios}})]
    /\ byIp' = [a \in Addresses |->
                 Latest({i \in DOMAIN devices : a \in ToSet(devices[i].ips)})]
    /\ added' = <<>> /\ updated' = <<>> /\ prior' = devices
    /\ UNCHANGED devices

Observed == batch[next]

InLoop ==
    /\ pc = "merging" /\ next <= Len(batch)
    /\ next' = next + 1
    /\ UNCHANGED <<pc, policy, batch, prior, reports, twice>>

\* An observation that shows nothing is passed over.
Skip ==
    /\ InLoop /\ ~Identified(Observed)
    /\ UNCHANGED <<devices, byMac, byName, byIp, added, updated>>

AddDevice ==
    /\ InLoop /\ Identified(Observed) /\ Match(Observed).at = 0
    /\ LET d == NewIdentity(Observed)
           i == Len(devices) + 1
       IN  /\ devices' = Append(devices, d)
           /\ added' = Append(added, d)
           /\ byMac' = Point(byMac, {d.mac}, i)
           /\ byName' = Point(byName, {d.host, d.netbios}, i)
           /\ byIp' = Point(byIp, ToSet(d.ips), i)
    /\ UNCHANGED updated

\* The map of MACs is not told of a MAC an identity has just been given.
UpdateDevice ==
    /\ InLoop /\ Match(Observed).at # 0
    /\ LET i == Match(Observed).at
           d == Merged(devices[i], Observed, Match(Observed).by)
       IN  /\ Replace(i, d)
           /\ byName' = Point(byName, {d.host, d.netbios}, i)
           /\ byIp' = IF d.ips = <<>> THEN byIp
                      ELSE Point(byIp, {d.ips[Len(d.ips)]}, i)
    /\ UNCHANGED <<byMac, added>>

\* What the call worked on is gone.  A call that leaves no identity at all
\* fails; its caller had none before.
Return ==
    /\ pc = "merging" /\ next > Len(batch)
    /\ pc' = "idle"
    /\ batch' = <<>> /\ next' = 1
    /\ byMac' = Empty(Macs) /\ byName' = Empty(Names) /\ byIp' = Empty(Addresses)
    /\ added' = <<>> /\ updated' = <<>> /\ prior' = <<>>
    /\ UNCHANGED <<devices, policy, reports, twice>>

Next == Begin \/ Skip \/ AddDevice \/ UpdateDevice \/ Return

Spec == Init /\ [][Next]_vars

-----------------------------------------------------------------------------
(* Properties.                                                             *)

\* Two identities hold one MAC only if two observations of one call have shown
\* it: a MAC reported once finds its identity, whatever name or address came
\* with it, and no identity without a MAC is given one that is taken, although
\* the map is not told of MACs given in the loop (device_merge.cpp:352-381, 532-542).
SharedMacWasRepeated ==
    \A i, j \in DOMAIN devices :
        /\ i # j /\ devices[i].mac # None /\ devices[i].mac = devices[j].mac
        => devices[i].mac \in twice

\* When a call returns, every observation is accounted for by an identity that
\* has its address and some name and MAC if it showed them; and if its MAC was
\* reported once and is anybody's, by the identity of that MAC.  Otherwise the
\* MAC was dropped for that of an identity with the same name or address.
Placed(o, d) ==
    /\ o.ip # None => o.ip \in ToSet(d.ips)
    /\ o.mac # None => d.mac # None
    /\ o.host # None \/ o.netbios # None => d.host # None
    /\ /\ o.mac # None /\ o.mac \notin Repeated(batch)
       /\ \E e \in ToSet(devices) : e.mac = o.mac
       => d.mac = o.mac

EveryObservationPlaced ==
    next > Len(batch) =>
        \A o \in ToSet(batch) : Identified(o) => \E d \in ToSet(devices) : Placed(o, d)

\* Two identities have one id only if make_identity_id lost what tells them
\* apart: sanitize_id_token maps their names, or their first addresses, to one
\* token; or they were repeated MACs without an address, at the same place of
\* two calls (device_merge.cpp:36-47, 81-102).
ToldApartBy(d) ==
    IF d.id.by \in {"host", "netbios"} THEN d.host
    ELSE IF d.id.by \in {"ip", "repeated"} /\ d.ips # <<>> THEN Head(d.ips) ELSE None

SameIdSameToken ==
    \A i, j \in DOMAIN devices :
        i # j /\ devices[i].id = devices[j].id =>
            \/ ToldApartBy(devices[i]) # ToldApartBy(devices[j])
            \/ devices[i].id.by = "repeated" /\ devices[i].id.token = Token[None]

\* What a caller is told of the changes is enough to follow them: it has the
\* devices of before, appends those added and replaces, by id, those updated,
\* each by the last of its updates, as long as ids tell devices apart.
IdsDiffer == \A i, j \in DOMAIN devices : devices[i].id = devices[j].id => i = j

Announced == prior \o added

Told(i) == {k \in DOMAIN updated : updated[k].id = Announced[i].id}

ChangesReplay ==
    pc = "merging" /\ IdsDiffer =>
        /\ Len(devices) = Len(Announced)
        /\ \A i \in DOMAIN devices :
             devices[i] = IF Told(i) = {} THEN Announced[i] ELSE updated[Max(Told(i))]

\* No observation makes the program forget: an identity stays where it is, with
\* its id, its MAC and host name once it has them, and its addresses in the order
\* it had them, whatever later observations say (device_merge.cpp:472-614).
Remembers(d, e) ==
    /\ e.id = d.id
    /\ d.mac # None => e.mac = d.mac
    /\ d.host # None => e.host = d.host
    /\ IsPrefix(d.ips, e.ips)

NothingForgotten ==
    [][/\ Len(devices') >= Len(devices)
       /\ \A i \in DOMAIN devices : Remembers(devices[i], devices'[i])]_vars

\* What the warnings of the program say (device_merge.cpp:583, 597), and its code
\* does not do: an observation of a randomised MAC or a virtual adapter reduces
\* the confidence in a known identity, be it below what it was or below what the
\* same observation had made of it without that sign, as far as the window goes.
Undoubted == [Observed EXCEPT !.random = FALSE, !.virtual = FALSE]

ReducedWhenSaid ==
    [][\A i \in DOMAIN devices :
          /\ UpdateDevice /\ i = Match(Observed).at
          /\ Observed.random \/ Observed.virtual
          => \/ devices'[i].confidence < devices[i].confidence
             \/ devices'[i].confidence
                  < Merged(devices[i], Undoubted, Match(Observed).by).confidence
             \/ devices'[i].confidence = policy["min"]]_vars
=============================================================================
