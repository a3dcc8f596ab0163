--------------------------- MODULE MCDeviceMerge ---------------------------
(***************************************************************************)
(* A small instance of DeviceMerge: three addresses, of which two have the *)
(* same token, as 192.168.1.11 and 192.168.11.1 have, two MACs and two     *)
(* names; the default policy and one with a lower cap.                     *)
(***************************************************************************)
EXTENDS DeviceMerge

CONSTANTS x, y, z, m, n, pc1, tv

MCToken == [v \in {x, y, z, pc1, tv, None} |-> IF v \in {x, y} THEN "xy" ELSE
            IF v = None THEN "unknown" ELSE "own"]

Default ==
    [matchMac |-> 85, matchName |-> 70, matchIp |-> 58, new |-> 64, history |-> 8,
     signal |-> 5, repeated |-> 25, random |-> 35, virtual |-> 12, moved |-> 10,
     min |-> 0, max |-> 100]

MCPolicies == {Default, [Default EXCEPT !["max"] = 70]}

Shows(mac, host, netbios, ip) ==
    [mac |-> mac, host |-> host, netbios |-> netbios, ip |-> ip,
     random |-> FALSE, virtual |-> FALSE]

Seen ==
    {Shows(m, None, None, ip) : ip \in {None, x, y}}
      \cup {Shows(n, host, None, x) : host \in {None, pc1}}
      \cup {Shows(None, pc1, None, ip) : ip \in {None, x}}
      \cup {Shows(None, None, None, ip) : ip \in {None, x, y}}
      \cup {Shows(m, pc1, None, y), Shows(None, tv, None, None), Shows(None, None, tv, y),
            [Shows(m, None, tv, z) EXCEPT !.random = TRUE],
            [Shows(None, pc1, tv, z) EXCEPT !.virtual = TRUE]}

MCBatches == {<<o>> : o \in Seen} \cup {<<o, p>> : o, p \in Seen}
=============================================================================
