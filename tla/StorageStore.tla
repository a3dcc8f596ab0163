---------------------------- MODULE StorageStore ----------------------------
(***************************************************************************)
(* What the storage module promises a caller that has it to itself: a set  *)
(* of records with a kind and a key, of which sessions only ever get new   *)
(* keys, and a log of entries in the order they were added.  A call takes  *)
(* effect at once or not at all, and changes nothing it was not asked to.  *)
(* StorageFile is shown to implement this module.                          *)
(***************************************************************************)
EXTENDS Naturals, Sequences, FiniteSets, SequencesExt, Positions

CONSTANTS
    Limits,         \* monitored network limits in use
    Cutoffs,        \* ages at which entries may be asked to expire
    Granularities,  \* of the rollups that may be asked to expire
    Networks        \* whose presence events may be; an empty name is for all

VARIABLES
    version,    \* of the schema
    records,    \* sessions, devices, workspaces, filters
    log         \* timeline events, bandwidth rollups, workspace scans

svars == <<version, records, log>>

OfKind(kind) == {r \in records : r.kind = kind}
SameRecord(r, l) == r.kind = l.kind /\ r.key = l.key
Others(l) == {r \in records : ~SameRecord(r, l)}

\* The header may be written by any call; the version never goes down.
Header == version' >= version

NewSession ==
    /\ \E s \in records' :
         /\ s.kind = "session"
         /\ \A r \in OfKind("session") : r.key < s.key
         /\ \E d \in records' : d.kind = "detail" /\ d.key = s.key
                                /\ records' = records \cup {s, d}
    /\ Header /\ UNCHANGED log

PutRecord ==
    /\ \E l \in records' :
         l.kind \in {"device", "filter"} /\ records' = Others(l) \cup {l}
    /\ Header /\ UNCHANGED log

\* A new workspace needs room; a workspace that is written again is not
\* the active one any more.
PutWorkspace ==
    /\ \E l \in records' :
         /\ l.kind = "workspace" /\ ~l.val
         /\ records' = Others(l) \cup {l}
         /\ Others(l) = records
              => \E n \in Limits : Cardinality(OfKind("workspace")) < n
    /\ Header /\ UNCHANGED log

Select ==
    /\ \E w \in OfKind("workspace") :
         records' = {r \in records : r.kind # "workspace"}
                      \cup {[r EXCEPT !.val = (r.key = w.key)] : r \in OfKind("workspace")}
    /\ Header /\ UNCHANGED log

HideStale ==
    /\ records' = {r \in records : ~(r.kind = "device" /\ r.val.stale)}
                    \cup {[r EXCEPT !.val.hidden = TRUE] :
                            r \in {d \in OfKind("device") : d.val.stale}}
    /\ Header /\ UNCHANGED log

\* Every timeline event has a time.
Dated(l) == l.kind = "event" => l.val.at \in Nat \ {0}

AddEntry ==
    /\ log' # <<>> /\ log' = Append(log, Last(log'))
    /\ Dated(Last(log'))
    /\ Last(log').kind = "scan"
         => \E w \in OfKind("workspace") : w.key = Last(log').key
    /\ Header /\ UNCHANGED records

\* Entries of one kind and before one time leave; the rest keep their order.
OldRollup(l, g, c) == l.kind = "rollup" /\ l.key = g /\ l.val \in 1..(c - 1)

AllNetworks == ""

OldPresence(l, n, c) ==
    /\ l.kind = "event" /\ l.val.type \in {"join", "leave"}
    /\ n = AllNetworks \/ l.val.network = n
    /\ l.val.at \in 1..(c - 1)

Expire ==
    /\ \E c \in Cutoffs :
         \/ \E g \in Granularities :
              log' = At(log, {i \in DOMAIN log : ~OldRollup(log[i], g, c)})
         \/ \E n \in Networks :
              log' = At(log, {i \in DOMAIN log : ~OldPresence(log[i], n, c)})
    /\ Header /\ UNCHANGED records

Upgrade == version' > version /\ UNCHANGED <<records, log>>

Init ==
    /\ version \in Nat
    /\ \A r, s \in records : SameRecord(r, s) /\ r.kind # "detail" => r = s
    /\ \A i \in DOMAIN log : Dated(log[i])
    /\ \A i \in DOMAIN log : log[i].kind = "scan"
            => \E w \in OfKind("workspace") : w.key = log[i].key

Next == NewSession \/ PutRecord \/ PutWorkspace \/ Select \/ HideStale
          \/ AddEntry \/ Expire \/ Upgrade

Spec == Init /\ [][Next]_svars
=============================================================================
