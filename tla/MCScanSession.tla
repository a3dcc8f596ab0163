--------------------------- MODULE MCScanSession ---------------------------
(***************************************************************************)
(* A small instance of ScanSession: requests that each check may refuse,   *)
(* live scans of mixes of stages with and without workers, one of the      *)
(* window's mixes among them, and mock scans, which have no sweep, among   *)
(* them that of the default mix: no probe is named, so all are enabled.    *)
(***************************************************************************)
EXTENDS ScanSession

TwoPorts == <<80, 443>>

Refusable ==
    [optionsOk : BOOLEAN, scopeOk : BOOLEAN, adaptersOk : BOOLEAN,
     probes : {{"arp"}}, snmpTarget : {FALSE}, mock : BOOLEAN]

Asks(mixes, targets, mock) ==
    [optionsOk : {TRUE}, scopeOk : {TRUE}, adaptersOk : {TRUE},
     probes : mixes, snmpTarget : targets, mock : mock]

QueryMixes == {{"arp"} \cup mix : mix \in SUBSET {"ssdp", "snmp"}}

LiveMixes ==
    {{"icmp"}, {"arp", "icmp", "tcp"}, {"arp", "tcp", "netbios", "mdns"},
     {"arp", "netbios", "mdns", "ssdp"}}

MockMixes == {{}, {"arp", "icmp"}, {"arp", "icmp", "ssdp", "snmp"}}

SmallRequests ==
    Refusable
    \cup Asks(QueryMixes, BOOLEAN, {FALSE})
    \cup Asks(LiveMixes, {TRUE}, {FALSE})
    \cup Asks(MockMixes, {TRUE}, {TRUE})
=============================================================================
