------------------------- MODULE ScanSessionProofs -------------------------
(***************************************************************************)
(* Theorems about ScanSession, for every set of hosts and requests, every  *)
(* max_concurrency and every bound.  The inductive invariant is            *)
(* Inv == TypeOK /\ WorkerInv /\ IdxInv /\ LateInv /\ StatusInv: each part *)
(* says what the position of the orchestrator implies for one counter.     *)
(* EventInv adds what it implies for the progress events, and RecordInv    *)
(* how many results of each probe are recorded at each point.              *)
(***************************************************************************)
EXTENDS ScanSession, FiniteSetTheorems, SequenceTheorems, TLAPS

-----------------------------------------------------------------------------
(* Facts about the operators of the model.                                 *)

LEMMA OneType == ASSUME NEW r \in RequestType, NEW p PROVE One(r, p) \in 0..1
BY DEF One

\* StagesBefore counts stage by stage.
LEMMA NextStage ==
    ASSUME NEW r \in RequestType, NEW s \in Probes
    PROVE  /\ StagesBefore(r, s) \in Nat
           /\ Succ(s) \in Probes
           /\ s # "snmp" => StagesBefore(r, Succ(s)) = StagesBefore(r, s) + One(r, s)
           /\ StageTotal(r) \in Nat
           /\ 1 + StagesBefore(r, s) + One(r, s) <= StageTotal(r)
           /\ 1 <= StageTotal(r)
<1>1. /\ One(r, "arp") \in 0..1 /\ One(r, "icmp") \in 0..1 /\ One(r, "tcp") \in 0..1
      /\ One(r, "netbios") \in 0..1 /\ One(r, "mdns") \in 0..1
      /\ One(r, "ssdp") \in 0..1 /\ One(r, "snmp") \in 0..1
  BY OneType
<1>2. CASE s = "arp" BY <1>1, <1>2 DEF StagesBefore, StageTotal, Succ, Probes, Queries
<1>3. CASE s = "icmp" BY <1>1, <1>3 DEF StagesBefore, StageTotal, Succ, Probes, Queries
<1>4. CASE s = "tcp" BY <1>1, <1>4 DEF StagesBefore, StageTotal, Succ, Probes, Queries
<1>5. CASE s = "netbios" BY <1>1, <1>5 DEF StagesBefore, StageTotal, Succ, Probes, Queries
<1>6. CASE s = "mdns" BY <1>1, <1>6 DEF StagesBefore, StageTotal, Succ, Probes, Queries
<1>7. CASE s = "ssdp" BY <1>1, <1>7 DEF StagesBefore, StageTotal, Succ, Probes, Queries
<1>8. CASE s = "snmp" BY <1>1, <1>8 DEF StagesBefore, StageTotal, Succ, Probes, Queries
<1> QED BY <1>2, <1>3, <1>4, <1>5, <1>6, <1>7, <1>8 DEF Probes

LEMMA ProbeResultType ==
    ASSUME NEW p \in Probes \cup {"icmp-sweep"}, NEW h \in Hosts \cup {NoTarget}
    PROVE  R(p, h) \in Result
BY DEF R, Result

LEMMA RowResultsType ==
    ASSUME NEW p \in Probes \cup {"icmp-sweep"}, NEW s \in Seq(Hosts)
    PROVE  RowResults(p, s) \in Seq(Result) /\ Len(RowResults(p, s)) = Len(s)
<1>1. \A i \in 1..Len(s) : R(p, s[i]) \in Result
  BY ProbeResultType, ElementOfSeq
<1>2. Len(s) \in Nat
  BY LenProperties
<1> QED BY <1>1, <1>2 DEF RowResults

LEMMA AnswersType ==
    ASSUME NEW p \in Probes, NEW n \in Nat
    PROVE  Answers(p, n) \in Seq(Result) /\ Len(Answers(p, n)) = n
<1>1. R(p, NoTarget) \in Result
  BY ProbeResultType
<1> QED BY <1>1 DEF Answers

LEMMA PortResultsType ==
    ASSUME NEW h \in Hosts
    PROVE  PortResults(h) \in Seq(Result) /\ Len(PortResults(h)) = Len(Ports)
<1>1. \A i \in 1..Len(Ports) :
        [probe |-> "tcp", target |-> h, port |-> Ports[i]] \in Result
  BY PortsAssumption DEF Result, Probes
<1>2. Len(Ports) \in Nat
  BY PortsAssumption
<1> QED BY <1>1, <1>2 DEF PortResults

LEMMA EventTypes ==
    ASSUME NEW s \in Probes, NEW n \in Nat, idx \in Nat
    PROVE  /\ HostEvents(s, n) \in Seq(Event)
           /\ Len(HostEvents(s, n)) = n
           /\ \A i \in 1..n : HostEvents(s, n)[i].index = idx
BY DEF HostEvents, E, Event

LEMMA EventType ==
    ASSUME NEW s \in Probes, NEW i \in Nat,
           NEW k \in {"stage_started", "host_result", "stage_complete", "failed"}
    PROVE  E(k, s, i) \in Event
BY DEF E, Event

LEMMA SessionEventType ==
    ASSUME NEW i \in Nat,
           NEW k \in {"completed", "cancelled", "paused"}
    PROVE  E(k, "orchestration", i) \in Event
BY DEF E, Event

LEMMA EmitType ==
    ASSUME events \in Seq(Event), NEW e \in Event, Emit(e)
    PROVE  /\ events' \in Seq(Event)
           /\ \A n \in 1..Len(events') :
                events'[n] = e \/ (n \in 1..Len(events) /\ events'[n] = events[n])
BY AppendProperties DEF Emit

LEMMA RowsType == \A S, n : n \in Nat => SeqOf(S, n) \subseteq Seq(S)
BY DEF SeqOf

-----------------------------------------------------------------------------
(* The workers: what the position of the orchestrator says of the chunk.   *)

Pooled == {"icmp", "tcp"}

WorkerInv ==
    /\ ready \subseteq (done + 1)..launched
    /\ stage \notin Pooled => launched <= done
    /\ pc \in {"chunk", "launch", "collect"} => stage \in Pooled
    /\ pc \notin {"launch", "collect"} /\ stage \in Pooled \cup {"arp"} => launched = done
    /\ pc \in {"chunk", "launch", "collect"} => done <= Len(Targets)
    /\ pc \in {"launch", "collect"} =>
            /\ launched <= chunkEnd
            /\ chunkEnd <= done + MaxConcurrency
            /\ chunkEnd <= Len(Targets)
            /\ done <= launched
    /\ pc = "launch" => launched < chunkEnd
    /\ pc = "collect" => launched = chunkEnd /\ done < launched
    /\ pc = "resolve" => stage = "netbios" /\ done <= Len(arp)
    /\ pc = "sweep" => stage = "icmp"

-----------------------------------------------------------------------------
(* Type correctness.                                                       *)

\* Targets and the position of a stage keep their types in every disjunct.
LEMMA LeaveType ==
    ASSUME TypeOK, Leave(TRUE) \/ Leave(FALSE)
    PROVE  stage' \in Probes /\ pc' \in {"begin", "gate"}
BY NextStage DEF TypeOK, Leave

LEMMA TypeInit == Init => TypeOK
<1> SUFFICES ASSUME Init PROVE TypeOK
  OBVIOUS
<1>1. request \in RequestType
  BY RequestsAssumption DEF Init
<1>2. arp \in Seq(Hosts) /\ hosts \in Seq(Hosts) /\ results \in Seq(Result)
      /\ events \in Seq(Event)
  BY EmptySeq DEF Init
<1> QED BY <1>1, <1>2 DEF Init, TypeOK, Probes

LEMMA TypeStep == TypeOK /\ WorkerInv /\ [Next]_vars => TypeOK'
<1> SUFFICES ASSUME TypeOK, WorkerInv, [Next]_vars PROVE TypeOK'
  OBVIOUS
<1> USE DEF TypeOK
<1>1. CASE Refuse
  BY <1>1 DEF Refuse, workers, asked
<1>2. CASE StartSession
  BY <1>2 DEF StartSession, workers, asked, E, Event
<1>3. CASE BeginStage
  BY <1>3 DEF BeginStage, asked, Emit, E, Event
<1>4. CASE SkipStage
  BY <1>4, LeaveType DEF SkipStage, workers, asked
<1>5. CASE FinishStage
  <2>1. events' \in Seq(Event)
    BY <1>5, EventType, EmitType DEF FinishStage
  <2> QED BY <1>5, <2>1, LeaveType DEF FinishStage, workers, asked
<1>6. CASE Halt
  BY <1>6 DEF Halt, HaltStatus, workers, asked, Emit, E, Event
<1>7. CASE HaltAtGate \/ HaltAtChunk \/ PassLastGate
  BY <1>7 DEF HaltAtGate, HaltAtChunk, MustHalt, PassLastGate, workers, asked
<1>8. CASE PassGate
  BY <1>8, NextStage DEF PassGate, workers, asked
<1>9. CASE Complete
  <2>1. E("completed", "orchestration", StageTotal(request)) \in Event
    BY NextStage, SessionEventType
  <2>2. events' \in Seq(Event)
    BY <1>9, <2>1, EmitType DEF Complete
  <2> QED BY <1>9, <2>2 DEF Complete, workers, asked
<1>10. CASE ArpFail
  BY <1>10 DEF ArpFail, workers, asked, Emit, E, Event, Begin, Probes
<1>11. ASSUME NEW rows \in SeqOf(Hosts, MaxHosts), ArpRows(rows) PROVE TypeOK'
  <2>1. rows \in Seq(Hosts)
    BY RowsType, BoundsAssumption
  <2>2. results' \in Seq(Result)
    BY <1>11, <2>1, RowResultsType, ConcatProperties DEF ArpRows, Probes
  <2>3. events' \in Seq(Event)
    BY <1>11, <2>1, EventTypes, LenProperties, ConcatProperties DEF ArpRows, Probes
  <2> QED BY <1>11, <2>1, <2>2, <2>3 DEF ArpRows, workers, asked, Begin
<1>13. CASE BeginChunk
  BY <1>13, ConcurrencyAssumption DEF BeginChunk, ChunkLimit, asked, Targets
<1>14. CASE Launch
  BY <1>14 DEF Launch, asked, Begin
<1>15. ASSUME NEW i \in 1..launched, WorkerReady(i) PROVE TypeOK'
  BY <1>15 DEF WorkerReady, control, asked
<1>16. CASE Collect
  <2> DEFINE h == Targets[done + 1]
  <2>1. h \in Hosts
    BY <1>16, LenProperties, ElementOfSeq DEF Collect, WorkerInv, Targets
  <2>2. events' \in Seq(Event)
    BY <1>16, EventType, EmitType DEF Collect
  <2>3. CASE stage = "icmp"
    <3>1. hosts' = Append(hosts, h) /\ results' = Append(results, R("icmp", h))
      BY <1>16, <2>3 DEF Collect
    <3>2. R("icmp", h) \in Result
      BY <2>1, ProbeResultType DEF Probes
    <3> HIDE DEF h
    <3>3. hosts' \in Seq(Hosts) /\ results' \in Seq(Result)
      BY <2>1, <3>1, <3>2
    <3> QED BY <1>16, <2>2, <3>3 DEF Collect, asked
  <2>4. CASE stage # "icmp"
    <3>1. hosts' = hosts /\ results' \in Seq(Result)
      BY <1>16, <2>1, <2>4, PortResultsType, ConcatProperties DEF Collect
    <3> QED BY <1>16, <2>2, <3>1 DEF Collect, asked
  <2> QED BY <2>3, <2>4
<1>17. CASE EndChunks
  <2>1. events' \in Seq(Event) /\ pc' \in {"sweep", "finish"}
    BY <1>17, EventType, EmitType DEF EndChunks
  <2> QED BY <1>17, <2>1 DEF EndChunks, workers, asked
<1>18. ASSUME NEW fresh \in SeqOf(Hosts \ ToSet(hosts), MaxHosts), Sweep(fresh)
       PROVE  TypeOK'
  <2>1. fresh \in Seq(Hosts)
    BY RowsType, BoundsAssumption
  <2>2. results' \in Seq(Result)
    BY <1>18, <2>1, RowResultsType, ConcatProperties DEF Sweep
  <2>3. events' \in Seq(Event)
    BY <1>18, <2>1, EventTypes, LenProperties, ConcatProperties DEF Sweep, Probes
  <2> QED BY <1>18, <2>1, <2>2, <2>3 DEF Sweep, workers, asked, Begin
<1>19. CASE SweepFail
  BY <1>19 DEF SweepFail, workers, asked, Emit, E, Event, Begin, Probes
<1>20. CASE Resolve
  <2>1. R("netbios", arp[done + 1]) \in Result
    BY <1>20, ProbeResultType, LenProperties DEF Resolve, Probes
  <2>2. events' \in Seq(Event)
    BY <1>20, EventType, EmitType DEF Resolve
  <2> QED BY <1>20, <2>1, <2>2 DEF Resolve, control, asked, Begin
<1>21. CASE EndResolve
  BY <1>21 DEF EndResolve, workers, asked
<1>22. ASSUME NEW n \in 0..MaxServices, QueryAnswered(n) PROVE TypeOK'
  <2>1. n \in Nat
    BY BoundsAssumption
  <2>2. results' \in Seq(Result)
    BY <1>22, <2>1, AnswersType, ConcatProperties DEF QueryAnswered
  <2>3. events' \in Seq(Event)
    BY <1>22, <2>1, EventTypes, ConcatProperties DEF QueryAnswered
  <2> QED BY <1>22, <2>1, <2>2, <2>3 DEF QueryAnswered, workers, asked, Begin
<1>23. CASE QueryFail
  <2>1. events' \in Seq(Event)
    BY <1>23, EventType, EmitType DEF QueryFail, AfterFailure
  <2> QED BY <1>23, <2>1, LeaveType DEF QueryFail, AfterFailure, workers, asked, Begin
<1>24. CASE Caller
  BY <1>24 DEF Caller, RequestCancel, RequestPause, control, workers
<1>25. CASE Returned \/ UNCHANGED vars
  BY <1>25 DEF Returned, vars, control, workers, asked
<1> QED
  BY <1>1, <1>2, <1>3, <1>4, <1>5, <1>6, <1>7, <1>8, <1>9, <1>10, <1>11, <1>13,
     <1>14, <1>15, <1>16, <1>17, <1>18, <1>19, <1>20, <1>21, <1>22, <1>23, <1>24, <1>25
  DEF Next, Orchestrate, WorkerStep

-----------------------------------------------------------------------------
(* The workers' bookkeeping is inductive.                                  *)

LEMMA WorkerInit == Init => WorkerInv
BY DEF Init, WorkerInv, Pooled

LEMMA WorkerInvStep == TypeOK /\ WorkerInv /\ [Next]_vars => WorkerInv'
<1> SUFFICES ASSUME TypeOK, WorkerInv, [Next]_vars PROVE WorkerInv'
  OBVIOUS
<1> USE DEF TypeOK, WorkerInv, Pooled, Targets, Probes, Queries, control, workers, asked
<1>1. CASE Refuse
  BY <1>1 DEF Refuse
<1>2. CASE StartSession
  BY <1>2 DEF StartSession
<1>3. CASE BeginStage
  BY <1>3, LenProperties DEF BeginStage
<1>4. CASE SkipStage
  BY <1>4 DEF SkipStage, Leave, Succ
<1>5. CASE FinishStage
  BY <1>5 DEF FinishStage, Leave, Succ
<1>6. CASE HaltAtGate \/ HaltAtChunk \/ PassLastGate
  BY <1>6 DEF HaltAtGate, HaltAtChunk, MustHalt, PassLastGate
<1>7. CASE PassGate
  BY <1>7 DEF PassGate, Succ
<1>8. CASE Complete
  BY <1>8 DEF Complete
<1>9. CASE ArpFail
  BY <1>9 DEF ArpFail
<1>10. ASSUME NEW rows \in SeqOf(Hosts, MaxHosts), ArpRows(rows) PROVE WorkerInv'
  BY <1>10 DEF ArpRows
<1>11. CASE Halt
  BY <1>11 DEF Halt
<1>12. CASE BeginChunk
  BY <1>12, ConcurrencyAssumption, LenProperties DEF BeginChunk, ChunkLimit
<1>13. CASE Launch
  BY <1>13 DEF Launch
<1>14. ASSUME NEW i \in 1..launched, WorkerReady(i) PROVE WorkerInv'
  BY <1>14 DEF WorkerReady
<1>15. CASE Collect
  <2>1. arp' = arp /\ stage' = stage /\ launched' = launched /\ chunkEnd' = chunkEnd
        /\ (stage # "icmp" => hosts' = hosts)
    BY <1>15 DEF Collect
  <2>2. Targets' = Targets
    BY <2>1
  <2>3. Len(Targets) \in Nat
    BY LenProperties
  <2>4. done' = done + 1 /\ ready' = ready \ {done + 1} /\ pc = "collect"
        /\ pc' = IF done' = chunkEnd THEN "chunk" ELSE "collect"
    BY <1>15 DEF Collect
  <2> HIDE DEF Targets
  <2>5. ready' \subseteq (done' + 1)..launched'
    BY <2>1, <2>4
  <2> DEFINE len == Len(Targets)
  <2>6. /\ stage \in Pooled /\ done < launched /\ launched = chunkEnd
        /\ chunkEnd <= done + MaxConcurrency /\ chunkEnd <= len
    BY <2>4
  <2>7. Len(Targets') = len
    BY <2>2
  <2>8. len \in Nat
    BY <2>3
  <2> HIDE DEF len
  <2>9. /\ done' <= launched' /\ launched' <= chunkEnd' /\ chunkEnd' <= len
        /\ chunkEnd' <= done' + MaxConcurrency /\ done' <= len
        /\ (pc' = "chunk" => launched' = done') /\ (pc' = "collect" => done' < launched')
    BY <2>1, <2>4, <2>6, <2>8, ConcurrencyAssumption
  <2>10. pc' \in {"chunk", "collect"}
    BY <2>4
  <2> QED BY <2>1, <2>4, <2>5, <2>6, <2>7, <2>9, <2>10
<1>16. CASE EndChunks
  BY <1>16 DEF EndChunks
<1>17. ASSUME NEW fresh \in SeqOf(Hosts \ ToSet(hosts), MaxHosts), Sweep(fresh) PROVE WorkerInv'
  BY <1>17 DEF Sweep
<1>18. CASE SweepFail
  BY <1>18 DEF SweepFail
<1>19. CASE Resolve
  BY <1>19 DEF Resolve
<1>20. CASE EndResolve
  BY <1>20 DEF EndResolve
<1>21. ASSUME NEW n \in 0..MaxServices, QueryAnswered(n) PROVE WorkerInv'
  BY <1>21 DEF QueryAnswered
<1>22. CASE QueryFail
  BY <1>22 DEF QueryFail, AfterFailure, Leave, Succ
<1>23. CASE Caller
  BY <1>23 DEF Caller, RequestCancel, RequestPause
<1>24. CASE Returned \/ UNCHANGED vars
  BY <1>24 DEF Returned, vars
<1> QED
  BY <1>1, <1>2, <1>3, <1>4, <1>5, <1>6, <1>7, <1>8, <1>9, <1>10, <1>11, <1>12,
     <1>13, <1>14, <1>15, <1>16, <1>17, <1>18, <1>19, <1>20, <1>21, <1>22, <1>23, <1>24
  DEF Next, Orchestrate, WorkerStep

-----------------------------------------------------------------------------
(* Stage indices: idx is at most one more than the stages that came before. *)

IdxInv ==
    /\ pc \in {"query", "chunk", "launch", "collect", "sweep", "resolve", "finish"}
            => Enabled(request, stage)
    /\ pc = "validate" => idx = 1 /\ stage = "arp" /\ events = <<>>
    /\ pc \notin {"validate", "halt", "complete", "ended"} =>
            idx <= 2 + StagesBefore(request, stage)
                   + (IF pc = "gate" THEN One(request, stage) ELSE 0)

\* The index of the stage in progress is within the announced total.
LEMMA IdxWithinTotal ==
    ASSUME TypeOK, IdxInv, Enabled(request, stage),
           pc \notin {"validate", "gate", "halt", "complete", "ended"}
    PROVE  idx <= StageTotal(request)
<1>1. One(request, stage) = 1
  BY DEF One
<1>2. StagesBefore(request, stage) \in Nat /\ StageTotal(request) \in Nat
      /\ 1 + StagesBefore(request, stage) + One(request, stage) <= StageTotal(request)
  BY NextStage DEF TypeOK
<1> QED BY <1>1, <1>2 DEF IdxInv, TypeOK

\* Leaving a stage with its index counted at most once keeps the bound.
LEMMA LeaveIdx ==
    ASSUME TypeOK, Leave(TRUE) \/ Leave(FALSE), request' = request, idx' \in Nat,
           idx' <= 2 + StagesBefore(request, stage) + One(request, stage)
    PROVE  /\ pc' \in {"begin", "gate"}
           /\ idx' <= 2 + StagesBefore(request', stage')
                      + (IF pc' = "gate" THEN One(request', stage') ELSE 0)
<1>1. request \in RequestType /\ stage \in Probes
  BY DEF TypeOK
<1>2. CASE pc' = "gate" /\ stage' = stage
  BY <1>2
<1>3. CASE pc' = "begin" /\ stage' = Succ(stage) /\ stage # "snmp"
  <2>1. StagesBefore(request, Succ(stage)) = StagesBefore(request, stage) + One(request, stage)
    BY <1>1, <1>3, NextStage
  <2>2. StagesBefore(request', stage') = StagesBefore(request, stage) + One(request, stage)
    BY <1>3, <2>1
  <2>3. One(request, stage) \in 0..1 /\ StagesBefore(request, stage) \in Nat
    BY <1>1, OneType, NextStage
  <2> QED BY <1>3, <2>2, <2>3
<1>4. \/ pc' = "gate" /\ stage' = stage
      \/ pc' = "begin" /\ stage' = Succ(stage) /\ stage # "snmp"
  BY DEF Leave
<1> QED BY <1>2, <1>3, <1>4

LEMMA IdxInit == Init => IdxInv
BY DEF Init, IdxInv, Probes

LEMMA IdxStep == TypeOK /\ WorkerInv /\ IdxInv /\ [Next]_vars => IdxInv'
<1> SUFFICES ASSUME TypeOK, WorkerInv, IdxInv, [Next]_vars PROVE IdxInv'
  OBVIOUS
<1> USE DEF TypeOK, IdxInv, Probes, control, workers, asked
<1>1. CASE Refuse
  BY <1>1 DEF Refuse
<1>2. CASE StartSession
  <2>1. StagesBefore(request, "arp") = 0
    BY DEF StagesBefore, Queries
  <2> QED BY <1>2, <2>1 DEF StartSession
<1>3. CASE BeginStage
  BY <1>3 DEF BeginStage
<1>4. CASE SkipStage
  <2>1. One(request, stage) \in 0..1 /\ StagesBefore(request, stage) \in Nat
    BY OneType, NextStage
  <2>2. One(request, stage) = 0
    BY <1>4, <2>1 DEF SkipStage, One
  <2>3. request' = request /\ (Leave(TRUE) \/ Leave(FALSE)) /\ pc # "gate"
    BY <1>4 DEF SkipStage
  <2>4. idx' \in Nat /\ idx' <= 2 + StagesBefore(request, stage) + One(request, stage)
    BY <1>4, <2>1, <2>2, <2>3 DEF SkipStage
  <2>5. /\ pc' \in {"begin", "gate"}
        /\ idx' <= 2 + StagesBefore(request', stage')
                   + (IF pc' = "gate" THEN One(request', stage') ELSE 0)
    BY <2>3, <2>4, LeaveIdx
  <2> QED BY <2>5, LeaveType, <2>3
<1>5. CASE FinishStage
  <2>1. One(request, stage) \in 0..1 /\ StagesBefore(request, stage) \in Nat
    BY OneType, NextStage
  <2>2. One(request, stage) = 1
    BY <1>5, <2>1 DEF FinishStage, One
  <2>3. request' = request /\ (Leave(TRUE) \/ Leave(FALSE)) /\ pc # "gate"
    BY <1>5 DEF FinishStage
  <2>4. idx' \in Nat /\ idx' <= 2 + StagesBefore(request, stage) + One(request, stage)
    BY <1>5, <2>1, <2>2, <2>3 DEF FinishStage
  <2>5. /\ pc' \in {"begin", "gate"}
        /\ idx' <= 2 + StagesBefore(request', stage')
                   + (IF pc' = "gate" THEN One(request', stage') ELSE 0)
    BY <2>3, <2>4, LeaveIdx
  <2> QED BY <2>5, LeaveType, <2>3
<1>6. CASE HaltAtGate \/ HaltAtChunk \/ PassLastGate
  BY <1>6 DEF HaltAtGate, HaltAtChunk, MustHalt, PassLastGate
<1>7. CASE PassGate
  <2>1. request \in RequestType /\ stage \in Probes /\ stage # "snmp"
    BY <1>7 DEF PassGate
  <2>2. /\ StagesBefore(request, Succ(stage)) = StagesBefore(request, stage) + One(request, stage)
        /\ Succ(stage) \in Probes
    BY <2>1, NextStage
  <2>3. /\ StagesBefore(request', stage') = StagesBefore(request, stage) + One(request, stage)
        /\ pc' = "begin" /\ pc = "gate" /\ idx' = idx
    BY <1>7, <2>2 DEF PassGate
  <2>4. One(request, stage) \in 0..1 /\ StagesBefore(request, stage) \in Nat
    BY <2>1, OneType, NextStage
  <2> QED BY <2>3, <2>4
<1>8. CASE Complete
  BY <1>8 DEF Complete
<1>9. CASE ArpFail
  BY <1>9 DEF ArpFail
<1>10. ASSUME NEW rows \in SeqOf(Hosts, MaxHosts), ArpRows(rows)
      PROVE  IdxInv'
  BY <1>10 DEF ArpRows
<1>11. CASE Halt
  BY <1>11 DEF Halt
<1>12. CASE BeginChunk
  BY <1>12 DEF BeginChunk
<1>13. CASE Launch
  BY <1>13 DEF Launch
<1>14. ASSUME NEW i \in 1..launched, WorkerReady(i)
      PROVE  IdxInv'
  BY <1>14 DEF WorkerReady
<1>15. CASE Collect
  BY <1>15 DEF Collect
<1>16. CASE EndChunks
  BY <1>16 DEF EndChunks
<1>17. ASSUME NEW fresh \in SeqOf(Hosts \ ToSet(hosts), MaxHosts), Sweep(fresh)
      PROVE  IdxInv'
  BY <1>17 DEF Sweep
<1>18. CASE SweepFail
  BY <1>18 DEF SweepFail
<1>19. CASE Resolve
  BY <1>19 DEF Resolve
<1>20. CASE EndResolve
  BY <1>20 DEF EndResolve
<1>21. ASSUME NEW n \in 0..MaxServices, QueryAnswered(n)
      PROVE  IdxInv'
  BY <1>21 DEF QueryAnswered
<1>22. CASE QueryFail
  <2>1. One(request, stage) \in 0..1 /\ StagesBefore(request, stage) \in Nat
    BY OneType, NextStage
  <2>2. One(request, stage) = 1
    BY <1>22, <2>1 DEF QueryFail, AfterFailure, One
  <2>3. request' = request /\ (Leave(TRUE) \/ Leave(FALSE)) /\ pc # "gate"
    BY <1>22 DEF QueryFail, AfterFailure
  <2>4. idx' \in Nat /\ idx' <= 2 + StagesBefore(request, stage) + One(request, stage)
    BY <1>22, <2>1, <2>2, <2>3 DEF QueryFail, AfterFailure
  <2>5. /\ pc' \in {"begin", "gate"}
        /\ idx' <= 2 + StagesBefore(request', stage')
                   + (IF pc' = "gate" THEN One(request', stage') ELSE 0)
    BY <2>3, <2>4, LeaveIdx
  <2> QED BY <2>5, LeaveType, <2>3
<1>23. CASE Caller
  BY <1>23 DEF Caller, RequestCancel, RequestPause
<1>24. CASE Returned \/ UNCHANGED vars
  BY <1>24 DEF Returned, vars
<1> QED
  BY <1>1, <1>2, <1>3, <1>4, <1>5, <1>6, <1>7, <1>8, <1>9, <1>10, <1>11, <1>12,
     <1>13, <1>14, <1>15, <1>16, <1>17, <1>18, <1>19, <1>20, <1>21, <1>22, <1>23, <1>24
  DEF Next, Orchestrate, WorkerStep

-----------------------------------------------------------------------------
(* Every event of the log stays within the announced total.                *)

LEMMA EmitInRange ==
    ASSUME TypeOK, StageIndexInRange, request' = request,
           NEW e \in Event, Emit(e), e.index <= StageTotal(request)
    PROVE  StageIndexInRange'
BY EmitType DEF TypeOK, StageIndexInRange

LEMMA HostEventsInRange ==
    ASSUME TypeOK, StageIndexInRange, request' = request, idx <= StageTotal(request),
           NEW s \in Probes, NEW n \in Nat, events' = events \o HostEvents(s, n)
    PROVE  StageIndexInRange'
<1> DEFINE new == HostEvents(s, n)
<1>1. new \in Seq(Event) /\ Len(new) = n /\ \A i \in 1..n : new[i].index = idx
  BY EventTypes DEF TypeOK
<1> HIDE DEF new
<1>2. events \in Seq(Event) /\ events' = events \o new
  BY DEF TypeOK, new
<1>2a. /\ Len(events \o new) = Len(events) + Len(new)
       /\ \A i \in 1..Len(events) + Len(new) :
            (events \o new)[i] = IF i <= Len(events) THEN events[i] ELSE new[i - Len(events)]
  BY <1>1, <1>2, ConcatProperties
<1>3. /\ Len(events') = Len(events) + n
      /\ \A i \in 1..Len(events) + n :
            events'[i] = IF i <= Len(events) THEN events[i] ELSE new[i - Len(events)]
  BY <1>1, <1>2, <1>2a
<1>4. Len(events) \in Nat
  BY <1>2, LenProperties
<1> SUFFICES ASSUME NEW i \in 1..Len(events') PROVE events'[i].index <= StageTotal(request)
  BY DEF StageIndexInRange
<1>5. CASE i <= Len(events)
  BY <1>3, <1>4, <1>5 DEF StageIndexInRange
<1>6. CASE i > Len(events)
  <2>1. events'[i] = new[i - Len(events)] /\ i - Len(events) \in 1..n
    BY <1>3, <1>4, <1>6
  <2> QED BY <1>1, <2>1
<1> QED BY <1>4, <1>5, <1>6

LEMMA SameInRange ==
    ASSUME StageIndexInRange, request' = request, events' = events
    PROVE  StageIndexInRange'
BY DEF StageIndexInRange

LEMMA RangeInit == Init => StageIndexInRange
BY EmptySeq DEF Init, StageIndexInRange

LEMMA RangeStep ==
    TypeOK /\ WorkerInv /\ IdxInv /\ StageIndexInRange /\ [Next]_vars => StageIndexInRange'
<1> SUFFICES ASSUME TypeOK, WorkerInv, IdxInv, StageIndexInRange, [Next]_vars
             PROVE  StageIndexInRange'
  OBVIOUS
<1>1. CASE StartSession
  <2>1. 1 <= StageTotal(request)
    BY NextStage DEF TypeOK
  <2>2. request' = request
        /\ events' = <<E("started", "orchestration", 1),
                       E("stage_started", "adapter_check", 1),
                       E("stage_complete", "adapter_check", 1)>>
    BY <1>1 DEF StartSession
  <2>3. \A n \in 1..Len(events') : events'[n].index = 1
    BY <2>2 DEF E
  <2> QED BY <2>1, <2>2, <2>3 DEF StageIndexInRange
<1>2. ASSUME NEW k \in {"stage_started", "host_result", "stage_complete", "failed"},
             Emit(E(k, stage, idx)), Enabled(request, stage), request' = request,
             pc \notin {"validate", "gate", "halt", "complete", "ended"}
      PROVE  StageIndexInRange'
  <2>1. E(k, stage, idx) \in Event /\ E(k, stage, idx).index = idx
    BY EventType DEF TypeOK, E
  <2> QED BY <1>2, <2>1, IdxWithinTotal, EmitInRange
<1>3. CASE BeginStage
  BY <1>2, <1>3 DEF BeginStage
<1>4. CASE FinishStage
  BY <1>2, <1>4 DEF FinishStage, IdxInv
<1>5. CASE Halt
  <2>1. status' \in {"cancelled", "paused"} /\ request' = request
        /\ Emit(E(status', "orchestration", 0))
    BY <1>5 DEF Halt, HaltStatus
  <2>2. E(status', "orchestration", 0) \in Event
        /\ E(status', "orchestration", 0).index = 0
    BY <2>1, SessionEventType DEF E
  <2>3. StageTotal(request) \in Nat
    BY NextStage DEF TypeOK
  <2> QED BY <2>1, <2>2, <2>3, EmitInRange
<1>6. CASE Complete
  <2>1. StageTotal(request) \in Nat
    BY NextStage DEF TypeOK
  <2>2. E("completed", "orchestration", StageTotal(request)) \in Event
        /\ E("completed", "orchestration", StageTotal(request)).index = StageTotal(request)
    BY <2>1, SessionEventType DEF E
  <2> QED BY <1>6, <2>1, <2>2, EmitInRange DEF Complete
<1>7. CASE ArpFail
  BY <1>2, <1>7 DEF ArpFail, IdxInv
<1>8. ASSUME NEW s \in Probes, NEW n \in Nat, events' = events \o HostEvents(s, n),
             request' = request, pc \in {"query", "sweep"}
      PROVE  StageIndexInRange'
  BY <1>8, IdxWithinTotal, HostEventsInRange DEF IdxInv
<1>9. ASSUME NEW rows \in SeqOf(Hosts, MaxHosts), ArpRows(rows) PROVE StageIndexInRange'
  <2>1. Len(rows) \in Nat
    BY RowsType, BoundsAssumption, LenProperties
  <2> QED BY <1>8, <1>9, <2>1 DEF ArpRows, Probes
<1>10. ASSUME NEW fresh \in SeqOf(Hosts \ ToSet(hosts), MaxHosts), Sweep(fresh)
       PROVE  StageIndexInRange'
  <2>1. Len(fresh) \in Nat
    BY RowsType, BoundsAssumption, LenProperties
  <2> QED BY <1>8, <1>10, <2>1 DEF Sweep, Probes
<1>11. ASSUME NEW n \in 0..MaxServices, QueryAnswered(n) PROVE StageIndexInRange'
  <2>1. n \in Nat
    BY BoundsAssumption
  <2> QED BY <1>8, <1>11, <2>1 DEF QueryAnswered, TypeOK
<1>12. CASE HaltAtGate \/ HaltAtChunk \/ PassLastGate
  BY <1>12, SameInRange DEF HaltAtGate, HaltAtChunk, MustHalt, PassLastGate
<1>13. CASE Collect
  BY <1>2, <1>13 DEF Collect, IdxInv
<1>14. CASE EndChunks
  <2>1. CASE Emit(E("stage_started", stage, idx))
    BY <1>2, <1>14, <2>1 DEF EndChunks, IdxInv
  <2>2. CASE events' = events
    BY <1>14, <2>2, SameInRange DEF EndChunks
  <2> QED BY <1>14, <2>1, <2>2 DEF EndChunks
<1>15. CASE SweepFail
  BY <1>2, <1>15 DEF SweepFail, IdxInv, WorkerInv
<1>16. CASE Resolve
  BY <1>2, <1>16 DEF Resolve, IdxInv, control
<1>17. CASE QueryFail
  BY <1>2, <1>17 DEF QueryFail, AfterFailure, IdxInv
<1>18. CASE Refuse \/ SkipStage \/ PassGate
  BY <1>18, SameInRange DEF Refuse, SkipStage, PassGate
<1>19. CASE BeginChunk \/ Launch \/ EndResolve
  BY <1>19, SameInRange DEF BeginChunk, Launch, EndResolve
<1>20. CASE WorkerStep
  BY <1>20, SameInRange DEF WorkerStep, WorkerReady, control
<1>21. CASE Caller
  BY <1>21, SameInRange DEF Caller, RequestCancel, RequestPause, control
<1>22. CASE Returned \/ UNCHANGED vars
  BY <1>22, SameInRange DEF Returned, vars, control
<1> QED
  BY <1>1, <1>3, <1>4, <1>5, <1>6, <1>7, <1>9, <1>10, <1>11, <1>12, <1>13, <1>14, <1>15,
     <1>16, <1>17, <1>18, <1>19, <1>20, <1>21, <1>22 DEF Next, Orchestrate

-----------------------------------------------------------------------------
(* Late work: how much can have begun since the last halt check.           *)

LateInv ==
    /\ ~ShouldHalt => late = 0
    /\ pc \in {"validate", "begin", "query"} =>
            late <= (IF stage = "ssdp" THEN 1 ELSE IF stage = "snmp" THEN 2 ELSE 0)
    /\ pc = "launch" => late <= launched - done
    /\ pc \in {"chunk", "collect", "sweep"} => late <= MaxConcurrency
    /\ pc = "resolve" => late <= done
    /\ pc = "finish" /\ stage = "mdns" => late <= 1
    /\ pc = "finish" /\ stage = "ssdp" => late <= 2
    /\ LateWorkBounded

LEMMA LateInit == Init => LateInv
BY ConcurrencyAssumption DEF Init, LateInv, LateWorkBounded, ShouldHalt

LEMMA LateStep == TypeOK /\ WorkerInv /\ LateInv /\ [Next]_vars => LateInv'
<1> SUFFICES ASSUME TypeOK, WorkerInv, LateInv, [Next]_vars PROVE LateInv'
  OBVIOUS
<1> USE DEF TypeOK, WorkerInv, LateInv, LateWorkBounded, ShouldHalt, Begin, Pooled, Probes, Queries,
            control, workers, asked
<1>1. CASE Refuse
  BY <1>1, ConcurrencyAssumption DEF Refuse
<1>2. CASE StartSession
  BY <1>2, ConcurrencyAssumption DEF StartSession
<1>3. CASE BeginStage
  BY <1>3, ConcurrencyAssumption DEF BeginStage
<1>4. CASE SkipStage
  BY <1>4, ConcurrencyAssumption DEF SkipStage, Leave, Succ
<1>5. CASE FinishStage
  BY <1>5, ConcurrencyAssumption DEF FinishStage, Leave, Succ
<1>6. CASE HaltAtGate \/ HaltAtChunk \/ PassLastGate
  BY <1>6, ConcurrencyAssumption DEF HaltAtGate, HaltAtChunk, MustHalt, PassLastGate
<1>7. CASE PassGate
  BY <1>7, ConcurrencyAssumption DEF PassGate, Succ
<1>8. CASE Complete
  BY <1>8, ConcurrencyAssumption DEF Complete
<1>9. CASE ArpFail
  BY <1>9, ConcurrencyAssumption DEF ArpFail
<1>10. ASSUME NEW rows \in SeqOf(Hosts, MaxHosts), ArpRows(rows)
      PROVE  LateInv'
  BY <1>10, ConcurrencyAssumption DEF ArpRows
<1>11. CASE Halt
  BY <1>11, ConcurrencyAssumption DEF Halt
<1>12. CASE BeginChunk
  BY <1>12, ConcurrencyAssumption DEF BeginChunk, ChunkLimit
<1>13. CASE Launch
  BY <1>13, ConcurrencyAssumption DEF Launch
<1>14. ASSUME NEW i \in 1..launched, WorkerReady(i)
      PROVE  LateInv'
  BY <1>14, ConcurrencyAssumption DEF WorkerReady
<1>15. CASE Collect
  BY <1>15, ConcurrencyAssumption DEF Collect
<1>16. CASE EndChunks
  BY <1>16, ConcurrencyAssumption DEF EndChunks
<1>17. ASSUME NEW fresh \in SeqOf(Hosts \ ToSet(hosts), MaxHosts), Sweep(fresh)
      PROVE  LateInv'
  BY <1>17, ConcurrencyAssumption DEF Sweep
<1>18. CASE SweepFail
  BY <1>18, ConcurrencyAssumption DEF SweepFail
<1>19. CASE Resolve
  BY <1>19, ConcurrencyAssumption DEF Resolve
<1>20. CASE EndResolve
  BY <1>20, ConcurrencyAssumption DEF EndResolve
<1>21. ASSUME NEW n \in 0..MaxServices, QueryAnswered(n)
      PROVE  LateInv'
  BY <1>21, ConcurrencyAssumption DEF QueryAnswered
<1>22. CASE QueryFail
  BY <1>22, ConcurrencyAssumption DEF QueryFail, AfterFailure, Leave, Succ
<1>23. CASE Caller
  BY <1>23 DEF Caller, RequestCancel, RequestPause
<1>24. CASE Returned \/ UNCHANGED vars
  BY <1>24 DEF Returned, vars
<1> QED
  BY <1>1, <1>2, <1>3, <1>4, <1>5, <1>6, <1>7, <1>8, <1>9, <1>10, <1>11, <1>12,
     <1>13, <1>14, <1>15, <1>16, <1>17, <1>18, <1>19, <1>20, <1>21, <1>22, <1>23, <1>24
  DEF Next, Orchestrate, WorkerStep

-----------------------------------------------------------------------------
(* The outcome and where it is decided.                                    *)

StatusInv ==
    /\ status = "none" <=> pc = "validate"
    /\ pc \notin {"validate", "ended"} => status = "running"
    /\ pc = "ended" => status \in Lifecycle!Ended
    /\ pc = "halt" => ShouldHalt
    /\ pc \in {"validate", "begin", "query"} /\ stage = "arp" => results = <<>>

LEMMA StatusInit == Init => StatusInv
BY DEF Init, StatusInv

LEMMA StatusStep == TypeOK /\ WorkerInv /\ StatusInv /\ [Next]_vars => StatusInv'
<1> SUFFICES ASSUME TypeOK, WorkerInv, StatusInv, [Next]_vars PROVE StatusInv'
  OBVIOUS
<1> USE DEF TypeOK, WorkerInv, StatusInv, Lifecycle!Ended, Pooled, Probes, Queries,
            ShouldHalt, control, workers, asked
<1>1. CASE Refuse
  BY <1>1 DEF Refuse
<1>2. CASE StartSession
  BY <1>2 DEF StartSession
<1>3. CASE BeginStage
  BY <1>3 DEF BeginStage
<1>4. CASE SkipStage
  BY <1>4 DEF SkipStage, Leave, Succ
<1>5. CASE FinishStage
  BY <1>5 DEF FinishStage, Leave, Succ
<1>6. CASE HaltAtGate \/ HaltAtChunk \/ PassLastGate
  BY <1>6 DEF HaltAtGate, HaltAtChunk, MustHalt, PassLastGate
<1>7. CASE PassGate
  BY <1>7 DEF PassGate, Succ
<1>8. CASE Complete
  BY <1>8 DEF Complete
<1>9. CASE ArpFail
  BY <1>9 DEF ArpFail
<1>10. ASSUME NEW rows \in SeqOf(Hosts, MaxHosts), ArpRows(rows)
      PROVE  StatusInv'
  BY <1>10 DEF ArpRows
<1>11. CASE Halt
  BY <1>11 DEF Halt, HaltStatus
<1>12. CASE BeginChunk
  BY <1>12 DEF BeginChunk
<1>13. CASE Launch
  BY <1>13 DEF Launch
<1>14. ASSUME NEW i \in 1..launched, WorkerReady(i)
      PROVE  StatusInv'
  BY <1>14 DEF WorkerReady
<1>15. CASE Collect
  BY <1>15 DEF Collect
<1>16. CASE EndChunks
  BY <1>16 DEF EndChunks
<1>17. ASSUME NEW fresh \in SeqOf(Hosts \ ToSet(hosts), MaxHosts), Sweep(fresh)
      PROVE  StatusInv'
  BY <1>17 DEF Sweep
<1>18. CASE SweepFail
  BY <1>18 DEF SweepFail
<1>19. CASE Resolve
  BY <1>19 DEF Resolve
<1>20. CASE EndResolve
  BY <1>20 DEF EndResolve
<1>21. ASSUME NEW n \in 0..MaxServices, QueryAnswered(n)
      PROVE  StatusInv'
  BY <1>21 DEF QueryAnswered
<1>22. CASE QueryFail
  BY <1>22 DEF QueryFail, AfterFailure, Leave, Succ
<1>23. CASE Caller
  BY <1>23 DEF Caller, RequestCancel, RequestPause
<1>24. CASE Returned \/ UNCHANGED vars
  BY <1>24 DEF Returned, vars
<1> QED
  BY <1>1, <1>2, <1>3, <1>4, <1>5, <1>6, <1>7, <1>8, <1>9, <1>10, <1>11, <1>12,
     <1>13, <1>14, <1>15, <1>16, <1>17, <1>18, <1>19, <1>20, <1>21, <1>22, <1>23, <1>24
  DEF Next, Orchestrate, WorkerStep

-----------------------------------------------------------------------------
(* The progress events: what the stage in progress says of those so far.   *)

Working == {"query", "chunk", "launch", "collect", "sweep", "resolve", "finish"}

\* The events since the start of the stage in progress are that stage's.
StageOpen ==
    \E m \in 1..Len(events) :
        /\ events[m] = E("stage_started", stage, idx)
        /\ \A k \in (m + 1)..Len(events) :
              events[k].kind \in {"host_result", "stage_started"} /\ events[k].stage = stage

\* A failed SSDP query keeps its index for the stage after it.
LeftIndex(m) ==
    /\ stage = "snmp" /\ events[m].stage = "ssdp"
    /\ \E k \in m..Len(events) : events[k] = E("failed", "ssdp", events[m].index)

\* Every earlier start has a smaller index, or is one of those.
IndexFresh ==
    \A m \in 1..Len(events) : events[m].kind = "stage_started" =>
        \/ events[m].index < idx
        \/ pc \in Working /\ events[m].stage = stage
        \/ LeftIndex(m)

\* No stage will begin any more.
Leaving == {"halt", "complete", "ended"}

EventInv ==
    /\ pc \notin {"validate", "halt", "complete", "ended"} =>
          \A n \in 1..Len(events) : events[n].index <= idx
    /\ pc \in Working => StageOpen
    /\ pc \notin {"validate", "halt", "complete", "ended"} /\ ~(pc = "gate" /\ stage = "snmp") => IndexFresh
    /\ GaugeNeverMovesBack /\ StagesDistinguished /\ EventsInsideTheirStage

\* A step that adds events, if any.
Extends ==
    /\ events \in Seq(Event) /\ events' \in Seq(Event)
    /\ Len(events) \in Nat /\ Len(events') \in Nat /\ Len(events) <= Len(events')
    /\ \A n \in 1..Len(events) : events'[n] = events[n]

Added == (Len(events) + 1)..Len(events')

LEMMA EFields ==
    ASSUME NEW k, NEW s, NEW i
    PROVE  E(k, s, i).kind = k /\ E(k, s, i).stage = s /\ E(k, s, i).index = i
BY DEF E

LEMMA IndexType ==
    ASSUME NEW s \in Seq(Event)
    PROVE  \A n \in 1..Len(s) : s[n].index \in Nat
<1>1. \A n \in 1..Len(s) : s[n] \in Event
  BY ElementOfSeq
<1> QED BY <1>1 DEF Event

LEMMA EmitExtends ==
    ASSUME TypeOK, NEW e \in Event, Emit(e)
    PROVE  /\ Extends
           /\ Len(events') = Len(events) + 1
           /\ Added = {Len(events')}
           /\ events'[Len(events')] = e
<1>1. events \in Seq(Event) /\ Len(events) \in Nat
  BY LenProperties DEF TypeOK
<1>2. /\ events' \in Seq(Event) /\ Len(events') = Len(events) + 1
      /\ \A i \in 1..Len(events) : events'[i] = events[i]
      /\ events'[Len(events) + 1] = e
  BY <1>1, AppendProperties DEF Emit
<1> QED BY <1>1, <1>2 DEF Extends, Added

LEMMA SameExtends ==
    ASSUME TypeOK, events' = events
    PROVE  Extends /\ Added = {}
<1>1. events \in Seq(Event) /\ Len(events) \in Nat
  BY LenProperties DEF TypeOK
<1> QED BY <1>1 DEF Extends, Added

LEMMA BlockExtends ==
    ASSUME TypeOK, NEW s \in Probes, NEW n \in Nat, events' = events \o HostEvents(s, n)
    PROVE  Extends /\ \A i \in Added : events'[i] = E("host_result", s, idx)
<1> DEFINE b == HostEvents(s, n)
<1>1. events \in Seq(Event) /\ Len(events) \in Nat
  BY LenProperties DEF TypeOK
<1>2. b \in Seq(Event) /\ Len(b) = n
  BY EventTypes DEF TypeOK
<1>3. \A i \in 1..n : b[i] = E("host_result", s, idx)
  BY DEF HostEvents
<1> HIDE DEF b
<1>4. events' = events \o b
  BY DEF b
<1>5. /\ events' \in Seq(Event) /\ Len(events') = Len(events) + n
      /\ \A i \in 1..(Len(events) + n) :
            events'[i] = IF i <= Len(events) THEN events[i] ELSE b[i - Len(events)]
  <2>1. /\ Len(events \o b) = Len(events) + Len(b)
        /\ \A i \in 1..(Len(events) + Len(b)) :
             (events \o b)[i] = IF i <= Len(events) THEN events[i] ELSE b[i - Len(events)]
        /\ events \o b \in Seq(Event)
    BY <1>1, <1>2, ConcatProperties
  <2> QED BY <1>2, <1>4, <2>1
<1>6. Extends
  BY <1>1, <1>5 DEF Extends
<1>7. ASSUME NEW i \in Added PROVE events'[i] = E("host_result", s, idx)
  <2>1. /\ i \in 1..(Len(events) + n) /\ ~(i <= Len(events))
        /\ i - Len(events) \in 1..n
    BY <1>1, <1>5 DEF Added
  <2> QED BY <1>3, <1>5, <2>1
<1> QED BY <1>6, <1>7

LEMMA OldOrNew ==
    ASSUME Extends, NEW n \in 1..Len(events')
    PROVE  \/ n \in 1..Len(events) /\ events'[n] = events[n]
           \/ n \in Added
BY DEF Extends, Added

\* The three properties of the events, for a step that adds some.
LEMMA GaugeExtends ==
    ASSUME Extends, GaugeNeverMovesBack,
           \A n \in Added :
             \/ events'[n].kind \in {"cancelled", "paused"}
             \/ /\ \A m \in 1..Len(events) : events[m].index <= events'[n].index
                /\ \A m \in Added : events'[m].index <= events'[n].index
    PROVE  GaugeNeverMovesBack'
<1> SUFFICES ASSUME NEW m \in 1..Len(events'), NEW n \in 1..Len(events'), m < n,
                    events'[n].kind \notin {"cancelled", "paused"}
             PROVE  events'[m].index <= events'[n].index
  BY DEF GaugeNeverMovesBack
<1>1. CASE n \in 1..Len(events)
  <2>1. m \in 1..Len(events)
    BY <1>1 DEF Extends
  <2> QED BY <1>1, <2>1 DEF Extends, GaugeNeverMovesBack
<1>2. CASE n \in Added
  <2>1. CASE m \in 1..Len(events)
    BY <1>2, <2>1 DEF Extends
  <2>2. CASE m \in Added
    BY <1>2, <2>2
  <2> QED BY <2>1, <2>2, OldOrNew
<1> QED BY <1>1, <1>2, OldOrNew

LEMMA StagesExtend ==
    ASSUME Extends, StagesDistinguished,
           \A n \in Added : events'[n].kind = "stage_started" =>
             \A m \in 1..(n - 1) :
               /\ events'[m].kind = "stage_started"
               /\ events'[m].stage # events'[n].stage
               /\ events'[m].index = events'[n].index
               => /\ events'[m].stage = "ssdp" /\ events'[n].stage = "snmp"
                  /\ \E k \in m..n : events'[k] = E("failed", "ssdp", events'[m].index)
    PROVE  StagesDistinguished'
<1> SUFFICES ASSUME NEW m \in 1..Len(events'), NEW n \in 1..Len(events'), m < n,
                    events'[m].kind = "stage_started", events'[n].kind = "stage_started",
                    events'[m].stage # events'[n].stage,
                    events'[m].index = events'[n].index
             PROVE  /\ events'[m].stage = "ssdp" /\ events'[n].stage = "snmp"
                    /\ \E k \in m..n : events'[k] = E("failed", "ssdp", events'[m].index)
  BY DEF StagesDistinguished
<1>1. CASE n \in 1..Len(events)
  <2>1. m \in 1..Len(events) /\ m..n \subseteq 1..Len(events)
    BY <1>1 DEF Extends
  <2>2. events'[m] = events[m] /\ events'[n] = events[n]
    BY <1>1, <2>1 DEF Extends
  <2>3. /\ events[m].stage = "ssdp" /\ events[n].stage = "snmp"
        /\ \E k \in m..n : events[k] = E("failed", "ssdp", events[m].index)
    BY <1>1, <2>1, <2>2 DEF StagesDistinguished
  <2> QED BY <2>1, <2>2, <2>3 DEF Extends
<1>2. CASE n \in Added
  <2>1. m \in 1..(n - 1)
    OBVIOUS
  <2> QED BY <1>2, <2>1
<1> QED BY <1>1, <1>2, OldOrNew

LEMMA InsideExtends ==
    ASSUME Extends, EventsInsideTheirStage,
           \A n \in Added : events'[n].kind \in {"host_result", "stage_complete", "failed"} =>
             \E m \in 1..(n - 1) :
                /\ events'[m] = E("stage_started", events'[n].stage, events'[n].index)
                /\ \A k \in (m + 1)..(n - 1) :
                        events'[k].kind \in {"host_result", "stage_started"}
                        /\ events'[k].stage = events'[n].stage
    PROVE  EventsInsideTheirStage'
<1> SUFFICES ASSUME NEW n \in 1..Len(events'),
                    events'[n].kind \in {"host_result", "stage_complete", "failed"}
             PROVE  \E m \in 1..(n - 1) :
                       /\ events'[m] = E("stage_started", events'[n].stage, events'[n].index)
                       /\ \A k \in (m + 1)..(n - 1) :
                               events'[k].kind \in {"host_result", "stage_started"}
                               /\ events'[k].stage = events'[n].stage
  BY DEF EventsInsideTheirStage
<1>1. CASE n \in 1..Len(events)
  <2>1. events'[n] = events[n] /\ \A k \in 1..(n - 1) : events'[k] = events[k]
    BY <1>1 DEF Extends
  <2>2. PICK m \in 1..(n - 1) :
           /\ events[m] = E("stage_started", events[n].stage, events[n].index)
           /\ \A k \in (m + 1)..(n - 1) :
                   events[k].kind \in {"host_result", "stage_started"}
                   /\ events[k].stage = events[n].stage
    BY <1>1, <2>1 DEF EventsInsideTheirStage
  <2>3. \A k \in (m + 1)..(n - 1) : k \in 1..(n - 1)
    OBVIOUS
  <2> QED BY <2>1, <2>2, <2>3
<1>2. CASE n \in Added
  BY <1>2
<1> QED BY <1>1, <1>2, OldOrNew

\* What a step says that leaves the events alone.
LEMMA SameEventsKeep ==
    ASSUME events' = events, GaugeNeverMovesBack, StagesDistinguished, EventsInsideTheirStage
    PROVE  GaugeNeverMovesBack' /\ StagesDistinguished' /\ EventsInsideTheirStage'
BY DEF GaugeNeverMovesBack, StagesDistinguished, EventsInsideTheirStage

\* Host results within a stage; also steps inside a stage without an event.
LEMMA HostResultsKeep ==
    ASSUME TypeOK, EventInv, pc \in Working, pc' \in Working, stage' = stage, idx' = idx,
           Extends, \A n \in Added : events'[n] = E("host_result", stage, idx)
    PROVE  EventInv'
<1>1. /\ \A n \in 1..Len(events) : events[n].index <= idx
      /\ StageOpen /\ IndexFresh
      /\ GaugeNeverMovesBack /\ StagesDistinguished /\ EventsInsideTheirStage
  BY DEF EventInv, Working
<1>2. \A n \in Added : /\ events'[n].kind = "host_result" /\ events'[n].stage = stage
                       /\ events'[n].index = idx
  BY EFields
<1>3. idx \in Nat
  BY DEF TypeOK
<1>4. \A n \in 1..Len(events') : events'[n].index <= idx'
  BY <1>1, <1>2, <1>3, OldOrNew
<1>5. GaugeNeverMovesBack'
  BY <1>1, <1>2, <1>3, GaugeExtends
<1>6. StagesDistinguished'
  BY <1>1, <1>2, StagesExtend
<1>7. PICK m \in 1..Len(events) :
        /\ events[m] = E("stage_started", stage, idx)
        /\ \A k \in (m + 1)..Len(events) :
              events[k].kind \in {"host_result", "stage_started"} /\ events[k].stage = stage
  BY <1>1 DEF StageOpen
<1>8. /\ m \in 1..Len(events') /\ events'[m] = E("stage_started", stage, idx)
      /\ \A k \in (m + 1)..Len(events') :
            events'[k].kind \in {"host_result", "stage_started"} /\ events'[k].stage = stage
  <2>1. m \in 1..Len(events') /\ events'[m] = events[m]
    BY DEF Extends
  <2>2. ASSUME NEW k \in (m + 1)..Len(events')
        PROVE  events'[k].kind \in {"host_result", "stage_started"} /\ events'[k].stage = stage
    <3>1. k \in 1..Len(events')
      BY <2>2 DEF Extends
    <3>2. CASE k \in 1..Len(events) /\ events'[k] = events[k]
      <4>1. k \in (m + 1)..Len(events)
        BY <3>2 DEF Extends
      <4> QED BY <1>7, <3>2, <4>1
    <3>3. CASE k \in Added
      BY <1>2, <3>3
    <3> QED BY <3>1, <3>2, <3>3, OldOrNew
  <2> QED BY <1>7, <2>1, <2>2
<1>9. StageOpen'
  BY <1>8 DEF StageOpen
<1>10. EventsInsideTheirStage'
  <2>1. ASSUME NEW n \in Added
        PROVE  \E j \in 1..(n - 1) :
                  /\ events'[j] = E("stage_started", events'[n].stage, events'[n].index)
                  /\ \A k \in (j + 1)..(n - 1) :
                          events'[k].kind \in {"host_result", "stage_started"}
                          /\ events'[k].stage = events'[n].stage
    <3>1. m \in 1..(n - 1) /\ \A k \in (m + 1)..(n - 1) : k \in (m + 1)..Len(events')
      BY <2>1 DEF Extends, Added
    <3> QED BY <1>2, <1>8, <3>1
  <2> QED BY <1>1, <2>1, InsideExtends
<1>11. IndexFresh'
  <2> SUFFICES ASSUME NEW k \in 1..Len(events'), events'[k].kind = "stage_started"
               PROVE  events'[k].index < idx \/ events'[k].stage = stage \/ LeftIndex(k)'
    BY DEF IndexFresh
  <2>1. k \in 1..Len(events) /\ events'[k] = events[k]
    BY <1>2, OldOrNew
  <2>2. events[k].index < idx \/ events[k].stage = stage \/ LeftIndex(k)
    BY <1>1, <2>1 DEF IndexFresh
  <2>3. ASSUME LeftIndex(k) PROVE LeftIndex(k)'
    BY <2>1, <2>3 DEF LeftIndex, Extends
  <2> QED BY <2>1, <2>2, <2>3
<1> QED BY <1>4, <1>5, <1>6, <1>9, <1>10, <1>11 DEF EventInv

\* A stage announces itself, ICMP a second time before its sweep.
LEMMA StartKeeps ==
    ASSUME TypeOK, EventInv, pc = "begin" \/ (pc \in Working /\ stage = "icmp"),
           pc' \in Working, stage' = stage, idx' = idx, Emit(E("stage_started", stage, idx))
    PROVE  EventInv'
<1> DEFINE l == Len(events')
<1>1. /\ \A n \in 1..Len(events) : events[n].index <= idx
      /\ IndexFresh
      /\ GaugeNeverMovesBack /\ StagesDistinguished /\ EventsInsideTheirStage
  BY DEF EventInv, Working
<1>2. E("stage_started", stage, idx) \in Event
  BY EventType DEF TypeOK
<1>3. /\ Extends /\ l = Len(events) + 1 /\ Added = {l}
      /\ events'[l] = E("stage_started", stage, idx)
  BY <1>2, EmitExtends
<1> HIDE DEF l
<1>4. /\ events'[l].kind = "stage_started" /\ events'[l].stage = stage
      /\ events'[l].index = idx
  BY <1>3, EFields
<1>5. idx \in Nat
  BY DEF TypeOK
<1>6. \A n \in 1..Len(events') : events'[n].index <= idx'
  BY <1>1, <1>3, <1>4, <1>5, OldOrNew
<1>7. GaugeNeverMovesBack'
  BY <1>1, <1>3, <1>4, <1>5, GaugeExtends
<1>8. l \in 1..Len(events') /\ Len(events') = l
  BY <1>3 DEF Extends, l
<1>9. StageOpen'
  <2>1. \A k \in (l + 1)..Len(events') : FALSE
    BY <1>8
  <2> QED BY <1>3, <1>8, <2>1 DEF StageOpen
<1>10. ASSUME NEW m \in 1..Len(events), events[m].kind = "stage_started",
              events[m].index = idx, events[m].stage # stage
       PROVE  LeftIndex(m)
  BY <1>1, <1>5, <1>10 DEF IndexFresh
<1>11. StagesDistinguished'
  <2>1. ASSUME NEW m \in 1..(l - 1), events'[m].kind = "stage_started",
               events'[m].stage # stage, events'[m].index = idx
        PROVE  /\ events'[m].stage = "ssdp" /\ stage = "snmp"
               /\ \E k \in m..l : events'[k] = E("failed", "ssdp", events'[m].index)
    <3>1. m \in 1..Len(events) /\ events'[m] = events[m]
      BY <1>3, <2>1 DEF Extends
    <3>2. LeftIndex(m)
      BY <1>10, <2>1, <3>1
    <3>3. \A k \in m..Len(events) : k \in m..l /\ k \in 1..Len(events)
      BY <1>3, <3>1 DEF Extends
    <3> QED BY <1>3, <3>1, <3>2, <3>3 DEF LeftIndex, Extends
  <2> QED BY <1>1, <1>3, <1>4, <2>1, StagesExtend
<1>12. EventsInsideTheirStage'
  BY <1>1, <1>3, <1>4, InsideExtends
<1>13. IndexFresh'
  <2> SUFFICES ASSUME NEW k \in 1..Len(events'), events'[k].kind = "stage_started"
               PROVE  events'[k].index < idx \/ events'[k].stage = stage \/ LeftIndex(k)'
    BY DEF IndexFresh
  <2>1. CASE k \in Added
    BY <1>3, <1>4, <2>1
  <2>2. CASE k \in 1..Len(events) /\ events'[k] = events[k]
    <3>1. events[k].index < idx \/ events[k].stage = stage \/ LeftIndex(k)
      BY <1>1, <2>2 DEF IndexFresh
    <3>2. ASSUME LeftIndex(k) PROVE LeftIndex(k)'
      BY <1>3, <2>2, <3>2 DEF LeftIndex, Extends
    <3> QED BY <2>2, <3>1, <3>2
  <2> QED BY <1>3, <2>1, <2>2, OldOrNew
<1> QED BY <1>6, <1>7, <1>9, <1>11, <1>12, <1>13 DEF EventInv

\* The event that closes a stage.
LEMMA CloseKeeps ==
    ASSUME TypeOK, EventInv, pc \in Working, NEW k \in {"stage_complete", "failed"},
           Emit(E(k, stage, idx))
    PROVE  /\ Extends /\ Added = {Len(events')} /\ Len(events') \in 1..Len(events')
           /\ events'[Len(events')] = E(k, stage, idx)
           /\ \A n \in 1..Len(events') : events'[n].index <= idx
           /\ GaugeNeverMovesBack' /\ StagesDistinguished' /\ EventsInsideTheirStage'
<1> DEFINE l == Len(events')
<1>1. /\ \A n \in 1..Len(events) : events[n].index <= idx
      /\ StageOpen
      /\ GaugeNeverMovesBack /\ StagesDistinguished /\ EventsInsideTheirStage
  BY DEF EventInv, Working
<1>2. E(k, stage, idx) \in Event /\ idx \in Nat
  BY EventType DEF TypeOK
<1>3. /\ Extends /\ l = Len(events) + 1 /\ Added = {l}
      /\ events'[l] = E(k, stage, idx)
  BY <1>2, EmitExtends
<1> HIDE DEF l
<1>4. /\ events'[l].kind = k /\ events'[l].stage = stage /\ events'[l].index = idx
  BY <1>3, EFields
<1>5. \A n \in 1..Len(events') : events'[n].index <= idx
  BY <1>1, <1>2, <1>3, <1>4, OldOrNew
<1>6. GaugeNeverMovesBack'
  BY <1>1, <1>2, <1>3, <1>4, GaugeExtends
<1>7. StagesDistinguished'
  BY <1>1, <1>3, <1>4, StagesExtend
<1>8. EventsInsideTheirStage'
  <2>1. PICK m \in 1..Len(events) :
          /\ events[m] = E("stage_started", stage, idx)
          /\ \A j \in (m + 1)..Len(events) :
                events[j].kind \in {"host_result", "stage_started"} /\ events[j].stage = stage
    BY <1>1 DEF StageOpen
  <2>2. /\ m \in 1..(l - 1) /\ events'[m] = E("stage_started", stage, idx)
        /\ \A j \in (m + 1)..(l - 1) :
              events'[j].kind \in {"host_result", "stage_started"} /\ events'[j].stage = stage
    BY <1>3, <2>1 DEF Extends
  <2> QED BY <1>1, <1>3, <1>4, <2>2, InsideExtends
<1>9. l \in 1..l
  BY <1>3 DEF Extends
<1> QED BY <1>3, <1>5, <1>6, <1>7, <1>8, <1>9 DEF l

LEMMA FinishKeeps == TypeOK /\ EventInv /\ FinishStage => EventInv'
<1> SUFFICES ASSUME TypeOK, EventInv, FinishStage PROVE EventInv'
  OBVIOUS
<1>1. /\ pc \in Working /\ Emit(E("stage_complete", stage, idx)) /\ idx' = idx + 1
      /\ Leave(TRUE)
  BY DEF FinishStage, Working
<1>2. /\ Extends
      /\ \A n \in 1..Len(events') : events'[n].index <= idx
      /\ GaugeNeverMovesBack' /\ StagesDistinguished' /\ EventsInsideTheirStage'
  BY <1>1, CloseKeeps
<1>3. \A n \in 1..Len(events') : events'[n].index < idx' /\ events'[n].index <= idx'
  <2>1. idx \in Nat /\ events' \in Seq(Event)
    BY <1>2 DEF TypeOK, Extends
  <2>2. \A n \in 1..Len(events') : events'[n].index \in Nat
    BY <2>1, IndexType
  <2> QED BY <1>1, <1>2, <2>1, <2>2
<1>4. pc' \in {"begin", "gate"}
  BY <1>1, LeaveType
<1> QED BY <1>2, <1>3, <1>4 DEF EventInv, Working, IndexFresh

LEMMA QueryFailKeeps == TypeOK /\ EventInv /\ QueryFail => EventInv'
<1> SUFFICES ASSUME TypeOK, EventInv, QueryFail PROVE EventInv'
  OBVIOUS
<1> DEFINE l == Len(events')
<1>1. /\ pc \in Working /\ Emit(E("failed", stage, idx)) /\ idx' = AfterFailure
      /\ Leave(TRUE) /\ stage \in Queries /\ idx \in Nat
  BY DEF QueryFail, Working, TypeOK
<1>2. /\ Extends /\ Added = {l} /\ l \in 1..l /\ events'[l] = E("failed", stage, idx)
      /\ \A n \in 1..Len(events') : events'[n].index <= idx
      /\ GaugeNeverMovesBack' /\ StagesDistinguished' /\ EventsInsideTheirStage'
  BY <1>1, CloseKeeps
<1> HIDE DEF l
<1>3. \A n \in 1..Len(events') : events'[n].index \in Nat
  <2>1. events' \in Seq(Event)
    BY <1>2 DEF Extends
  <2> QED BY <2>1, IndexType
<1>4. pc' \in {"begin", "gate"} /\ (stage # "snmp" => stage' = Succ(stage))
      /\ (stage = "snmp" => pc' = "gate" /\ stage' = "snmp")
  BY <1>1 DEF Leave, Queries
<1>5. \A n \in 1..Len(events') : events'[n].index <= idx'
  BY <1>1, <1>2, <1>3 DEF AfterFailure
<1>6. ASSUME stage # "snmp" PROVE IndexFresh'
  <2>1. CASE stage = "mdns"
    <3>1. \A n \in 1..Len(events') : events'[n].index < idx'
      BY <1>1, <1>2, <1>3, <2>1 DEF AfterFailure
    <3> QED BY <3>1 DEF IndexFresh
  <2>2. CASE stage = "ssdp"
    <3>1. stage' = "snmp" /\ idx' = idx
      BY <1>1, <1>4, <2>2 DEF AfterFailure, Succ
    <3> SUFFICES ASSUME NEW m \in 1..Len(events'), events'[m].kind = "stage_started",
                        ~(events'[m].index < idx)
                 PROVE  LeftIndex(m)'
      BY <3>1 DEF IndexFresh
    <3>2. m \in 1..Len(events) /\ events'[m] = events[m]
      BY <1>2, EFields, OldOrNew
    <3>3. events[m].index = idx
      BY <1>1, <1>2, <1>3, <3>2
    <3>4. IndexFresh
      BY <1>1 DEF EventInv, Working
    <3>5. events[m].stage = "ssdp"
      BY <1>1, <2>2, <3>2, <3>3, <3>4 DEF IndexFresh, LeftIndex
    <3>6. l \in m..Len(events') /\ events'[l] = E("failed", "ssdp", events'[m].index)
      BY <1>2, <2>2, <3>2, <3>3 DEF l, Extends
    <3> QED BY <3>1, <3>2, <3>5, <3>6 DEF LeftIndex
  <2> QED BY <1>1, <1>6, <2>1, <2>2 DEF Queries
<1> QED BY <1>2, <1>4, <1>5, <1>6 DEF EventInv, Working

\* The session's last event.
LEMMA EndKeeps ==
    ASSUME TypeOK, EventInv, pc' \in Leaving, NEW e \in Event, Emit(e),
           e.kind \notin {"host_result", "stage_complete", "failed", "stage_started"},
           \/ e.kind \in {"cancelled", "paused"}
           \/ \A n \in 1..Len(events) : events[n].index <= e.index
    PROVE  EventInv'
<1> DEFINE l == Len(events')
<1>1. GaugeNeverMovesBack /\ StagesDistinguished /\ EventsInsideTheirStage
  BY DEF EventInv
<1>2. Extends /\ Added = {l} /\ events'[l] = e
  BY EmitExtends
<1> HIDE DEF l
<1>3. e.index \in Nat
  BY DEF Event
<1>4. GaugeNeverMovesBack'
  BY <1>1, <1>2, <1>3, GaugeExtends
<1>5. StagesDistinguished'
  BY <1>1, <1>2, StagesExtend
<1>6. EventsInsideTheirStage'
  BY <1>1, <1>2, InsideExtends
<1> QED BY <1>4, <1>5, <1>6 DEF EventInv, Working, Leaving

LEMMA EventInit == Init => EventInv
BY EmptySeq
   DEF Init, EventInv, Working, GaugeNeverMovesBack, StagesDistinguished, EventsInsideTheirStage

LEMMA StartSessionKeeps == TypeOK /\ EventInv /\ StartSession => EventInv'
<1> SUFFICES ASSUME TypeOK, StartSession PROVE EventInv'
  OBVIOUS
<1> DEFINE e1 == E("started", "orchestration", 1)
           e2 == E("stage_started", "adapter_check", 1)
           e3 == E("stage_complete", "adapter_check", 1)
<1>1. events' = <<e1, e2, e3>> /\ pc' = "begin" /\ idx' = 2
  BY DEF StartSession
<1>2. /\ e1.kind = "started" /\ e1.index = 1 /\ e1.stage = "orchestration"
      /\ e2.kind = "stage_started" /\ e2.index = 1 /\ e2.stage = "adapter_check"
      /\ e3.kind = "stage_complete" /\ e3.index = 1 /\ e3.stage = "adapter_check"
  BY EFields
<1>3. e2 = E("stage_started", e3.stage, e3.index)
  BY <1>2
<1> HIDE DEF e1, e2, e3
<1>4. /\ Len(events') = 3 /\ events'[1] = e1 /\ events'[2] = e2 /\ events'[3] = e3
      /\ \A n \in 1..Len(events') : n = 1 \/ n = 2 \/ n = 3
  BY <1>1
<1>5. \A n \in 1..Len(events') : events'[n].index = 1
  BY <1>2, <1>4
<1>6. IndexFresh' /\ GaugeNeverMovesBack'
  BY <1>1, <1>5 DEF IndexFresh, GaugeNeverMovesBack
<1>7. StagesDistinguished'
  BY <1>2, <1>4 DEF StagesDistinguished
<1>8. EventsInsideTheirStage'
  <2> SUFFICES ASSUME NEW n \in 1..Len(events'), events'[n].kind = "stage_complete"
               PROVE  \E m \in 1..(n - 1) :
                  /\ events'[m] = E("stage_started", events'[n].stage, events'[n].index)
                  /\ \A k \in (m + 1)..(n - 1) :
                          events'[k].kind \in {"host_result", "stage_started"}
                          /\ events'[k].stage = events'[n].stage
    BY <1>2, <1>4 DEF EventsInsideTheirStage
  <2>1. n = 3
    BY <1>2, <1>4
  <2>2. 2 \in 1..(n - 1) /\ \A k \in (2 + 1)..(n - 1) : FALSE
    BY <2>1
  <2> QED BY <1>3, <1>4, <2>1, <2>2
<1> QED BY <1>1, <1>5, <1>6, <1>7, <1>8 DEF EventInv, Working

\* A stage is skipped, or the next one is due.
LEMMA MoveKeeps == TypeOK /\ EventInv /\ (SkipStage \/ PassGate) => EventInv'
<1> SUFFICES ASSUME TypeOK, EventInv, SkipStage \/ PassGate PROVE EventInv'
  OBVIOUS
<1>1. /\ pc \in {"begin", "gate"} /\ events' = events /\ idx' = idx
      /\ pc = "gate" => stage # "snmp"
      /\ pc' \in {"begin", "gate"} /\ (pc' = "begin" => stage # "snmp")
      /\ \/ stage' = stage /\ pc' = "gate" /\ pc = "begin"
         \/ stage # "snmp" /\ stage' = Succ(stage) /\ pc' = "begin"
  BY DEF SkipStage, PassGate, Leave
<1>2. /\ \A n \in 1..Len(events) : events[n].index <= idx
      /\ IndexFresh
      /\ GaugeNeverMovesBack /\ StagesDistinguished /\ EventsInsideTheirStage
  BY <1>1 DEF EventInv
<1>3. ASSUME ~(pc' = "gate" /\ stage' = "snmp") PROVE IndexFresh'
  <2>1. stage # "snmp"
    BY <1>1, <1>3
  <2>2. pc \notin Working
    BY <1>1 DEF Working
  <2> QED BY <1>1, <1>2, <2>1, <2>2 DEF IndexFresh, LeftIndex
<1>4. GaugeNeverMovesBack' /\ StagesDistinguished' /\ EventsInsideTheirStage'
  BY <1>1, <1>2, SameEventsKeep
<1> QED BY <1>1, <1>2, <1>3, <1>4 DEF EventInv, Working

LEMMA EventStep ==
    TypeOK /\ WorkerInv /\ StageIndexInRange /\ EventInv /\ [Next]_vars => EventInv'
<1> SUFFICES ASSUME TypeOK, WorkerInv, StageIndexInRange, EventInv, [Next]_vars
             PROVE  EventInv'
  OBVIOUS
<1> USE DEF control, workers, asked
<1>1. ASSUME events' = events, pc' = pc, stage' = stage, idx' = idx PROVE EventInv'
  <2>1. GaugeNeverMovesBack' /\ StagesDistinguished' /\ EventsInsideTheirStage'
    BY <1>1, SameEventsKeep DEF EventInv
  <2> QED BY <1>1, <2>1 DEF EventInv, StageOpen, IndexFresh, LeftIndex
<1>2. ASSUME events' = events, pc \in Working, pc' \in Working, stage' = stage, idx' = idx
      PROVE  EventInv'
  BY <1>2, SameExtends, HostResultsKeep
<1>3. ASSUME Emit(E("host_result", stage, idx)), pc \in Working, pc' \in Working,
             stage' = stage, idx' = idx
      PROVE  EventInv'
  <2>1. E("host_result", stage, idx) \in Event
    BY EventType DEF TypeOK
  <2> QED BY <1>3, <2>1, EmitExtends, HostResultsKeep
<1>4. ASSUME NEW n \in Nat, events' = events \o HostEvents(stage, n),
             pc \in Working, pc' \in Working, stage' = stage, idx' = idx
      PROVE  EventInv'
  <2>1. stage \in Probes
    BY DEF TypeOK
  <2> QED BY <1>4, <2>1, BlockExtends, HostResultsKeep
<1>5. CASE Refuse \/ HaltAtGate \/ HaltAtChunk \/ PassLastGate
  <2>1. events' = events /\ pc' \in Leaving
    BY <1>5 DEF Refuse, HaltAtGate, HaltAtChunk, MustHalt, PassLastGate, Leaving
  <2>2. GaugeNeverMovesBack' /\ StagesDistinguished' /\ EventsInsideTheirStage'
    BY <2>1, SameEventsKeep DEF EventInv
  <2> QED BY <2>1, <2>2 DEF EventInv, Working, Leaving
<1>6. CASE StartSession
  BY <1>6, StartSessionKeeps
<1>7. CASE BeginStage
  BY <1>7, StartKeeps DEF BeginStage, Working
<1>8. CASE SkipStage \/ PassGate
  BY <1>8, MoveKeeps
<1>9. CASE FinishStage
  BY <1>9, FinishKeeps
<1>10. CASE Halt
  <2>1. PICK k \in {"cancelled", "paused"} : Emit(E(k, "orchestration", 0))
    BY <1>10 DEF Halt, HaltStatus
  <2>2. E(k, "orchestration", 0) \in Event /\ E(k, "orchestration", 0).kind = k
    BY SessionEventType, EFields
  <2> QED BY <1>10, <2>1, <2>2, EndKeeps DEF Halt, Leaving
<1>11. CASE Complete
  <2> DEFINE t == StageTotal(request)
  <2>1. t \in Nat /\ Emit(E("completed", "orchestration", t)) /\ pc' \in Leaving
    BY <1>11, NextStage DEF Complete, TypeOK, Leaving
  <2>2. E("completed", "orchestration", t) \in Event
    BY <2>1, SessionEventType
  <2>3. \A n \in 1..Len(events) : events[n].index <= t
    BY DEF StageIndexInRange
  <2> HIDE DEF t
  <2> QED BY <2>1, <2>2, <2>3, EFields, EndKeeps
<1>12. CASE ArpFail
  <2>1. pc \in Working /\ Emit(E("failed", stage, idx)) /\ pc' = "ended"
    BY <1>12 DEF ArpFail, Working
  <2>2. GaugeNeverMovesBack' /\ StagesDistinguished' /\ EventsInsideTheirStage'
    BY <2>1, CloseKeeps
  <2> QED BY <2>1, <2>2 DEF EventInv, Working
<1>13. ASSUME NEW rows \in SeqOf(Hosts, MaxHosts), ArpRows(rows) PROVE EventInv'
  <2>1. Len(rows) \in Nat
    BY RowsType, BoundsAssumption, LenProperties
  <2> QED BY <1>4, <1>13, <2>1 DEF ArpRows, Working
<1>14. CASE BeginChunk \/ Launch \/ EndResolve
  BY <1>2, <1>14 DEF BeginChunk, Launch, EndResolve, Working
<1>15. CASE Collect \/ Resolve
  BY <1>3, <1>15 DEF Collect, Resolve, Working
<1>16. CASE EndChunks
  <2>1. CASE stage = "icmp" /\ ~request.mock
    BY <1>16, <2>1, StartKeeps DEF EndChunks, Working
  <2>2. CASE ~(stage = "icmp" /\ ~request.mock)
    BY <1>2, <1>16, <2>2 DEF EndChunks, Working
  <2> QED BY <2>1, <2>2
<1>17. ASSUME NEW fresh \in SeqOf(Hosts \ ToSet(hosts), MaxHosts), Sweep(fresh)
       PROVE  EventInv'
  <2>1. Len(fresh) \in Nat
    BY RowsType, BoundsAssumption, LenProperties
  <2>2. stage = "icmp"
    BY <1>17 DEF Sweep, WorkerInv
  <2> QED BY <1>4, <1>17, <2>1, <2>2 DEF Sweep, Working
<1>18. CASE SweepFail
  BY <1>3, <1>18 DEF SweepFail, Working, WorkerInv
<1>19. ASSUME NEW n \in 0..MaxServices, QueryAnswered(n) PROVE EventInv'
  <2>1. n \in Nat
    BY BoundsAssumption
  <2> QED BY <1>4, <1>19, <2>1 DEF QueryAnswered, Working
<1>20. CASE QueryFail
  BY <1>20, QueryFailKeeps
<1>21. CASE WorkerStep \/ Caller
  BY <1>1, <1>21 DEF WorkerStep, WorkerReady, Caller, RequestCancel, RequestPause
<1>22. CASE Returned \/ UNCHANGED vars
  BY <1>1, <1>22 DEF Returned, vars
<1> QED
  BY <1>5, <1>6, <1>7, <1>8, <1>9, <1>10, <1>11, <1>12, <1>13, <1>14, <1>15, <1>16,
     <1>17, <1>18, <1>19, <1>20, <1>21, <1>22 DEF Next, Orchestrate

-----------------------------------------------------------------------------
(* The results: how many of each probe there are at each point.            *)

\* The stages whose results are complete when a stage begins.
Earlier(s) ==
    IF s = "arp" THEN {}
    ELSE IF s = "icmp" THEN {"arp"}
    ELSE IF s = "tcp" THEN {"arp", "icmp"}
    ELSE IF s = "netbios" THEN {"arp", "icmp", "tcp"} ELSE {"arp", "icmp", "tcp", "netbios"}

Passed(s) == s \in Earlier(stage) \/ (s = stage /\ pc \in {"gate", "complete"})

\* How many of all its targets a stage has dealt with.
Tried(s, all) ==
    IF s = stage /\ pc \in Working THEN done
    ELSE IF Passed(s) /\ Enabled(request, s) THEN all ELSE 0

\* Number of results of a probe.
Num(p) == Cardinality(Recorded(p))

HostsKnown == Passed("icmp") \/ (stage = "icmp" /\ pc = "finish")

PlaceInv ==
    /\ pc # "validate" => Enabled(request, "arp")
    /\ pc = "complete" => stage = "snmp"
    /\ stage = "arp" /\ pc \notin {"finish", "gate"} => arp = <<>> /\ results = <<>>
    /\ stage = "arp" \/ (stage = "icmp" /\ pc = "begin") => hosts = <<>>
    /\ stage = "icmp" /\ pc \in Working \ {"finish"} =>
          Len(hosts) = done /\ \A i \in 1..done : hosts[i] = arp[i]
    /\ HostsKnown => Len(arp) <= Len(hosts) /\ \A i \in 1..Len(arp) : hosts[i] = arp[i]
    /\ stage \in {"icmp", "netbios"} /\ pc \in {"sweep", "finish"} => done = Len(arp)
    /\ stage = "tcp" /\ pc = "finish" => done = Len(hosts)

NumInv ==
    /\ stage # "arp" \/ pc \in {"finish", "gate"} => Num("arp") = Len(arp)
    /\ Num("icmp") = Tried("icmp", Len(arp))
    /\ Num("icmp-sweep") = IF HostsKnown THEN Len(hosts) - Len(arp) ELSE 0
    /\ Num("tcp") = Tried("tcp", Len(hosts)) * Len(Ports)
    /\ Num("netbios") = Tried("netbios", Len(arp))

RecordInv ==
    /\ pc \notin {"halt", "ended"} => PlaceInv /\ NumInv
    /\ ResultsFollowHosts /\ CompletedScanIsWhole

\* What ResultsFollowHosts asks of the n-th result of a probe.
Follows(r, n) ==
    /\ r.probe \in {"arp", "icmp", "netbios"} => n \in DOMAIN arp /\ r.target = arp[n]
    /\ r.probe = "icmp-sweep" => Len(arp) + n \in DOMAIN hosts /\ r.target = hosts[Len(arp) + n]
    /\ r.probe = "tcp" => \E h \in DOMAIN hosts, q \in DOMAIN Ports :
                              n = (h - 1) * Len(Ports) + q /\ r = PortResults(hosts[h])[q]

HostsGrow ==
    /\ Len(hosts) \in Nat /\ Len(hosts') \in Nat /\ Len(hosts) <= Len(hosts')
    /\ hosts \in Seq(Hosts) /\ hosts' \in Seq(Hosts)
    /\ \A i \in 1..Len(hosts) : hosts'[i] = hosts[i]

LEMMA RecordedFinite ==
    ASSUME results \in Seq(Result), NEW p
    PROVE  IsFiniteSet(Recorded(p)) /\ Num(p) \in Nat
<1>1. Len(results) \in Nat /\ DOMAIN results = 1..Len(results)
  BY LenProperties
<1>2. IsFiniteSet(1..Len(results)) /\ Recorded(p) \in SUBSET (1..Len(results))
  BY <1>1, FS_Interval DEF Recorded
<1>3. IsFiniteSet(Recorded(p))
  BY <1>2, FS_Subset
<1> QED BY <1>3, FS_CardinalityType DEF Num

\* Disjoint from a set, an interval adds its length.
LEMMA AddInterval ==
    ASSUME NEW S, IsFiniteSet(S), NEW l \in Nat, NEW n \in Nat, \A x \in S : x <= l /\ x \in Nat
    PROVE  Cardinality(S \cup (l + 1)..(l + n)) = Cardinality(S) + n
<1>1. IsFiniteSet((l + 1)..(l + n)) /\ Cardinality((l + 1)..(l + n)) = n
  <2>1. l + 1 \in Int /\ l + n \in Int
    OBVIOUS
  <2>2. Cardinality((l + 1)..(l + n)) = IF l + 1 > l + n THEN 0 ELSE l + n - (l + 1) + 1
    BY <2>1, FS_Interval
  <2> QED BY <2>1, <2>2, FS_Interval
<1>2. S \cap (l + 1)..(l + n) = {}
  OBVIOUS
<1>3. Cardinality(S \cap (l + 1)..(l + n)) = 0
  BY <1>2, FS_EmptySet
<1>4. Cardinality(S) \in Nat
  BY FS_CardinalityType
<1> DEFINE T == (l + 1)..(l + n)
<1>5. Cardinality(S \cup T) = Cardinality(S) + Cardinality(T) - Cardinality(S \cap T)
  <2> HIDE DEF T
  <2>1. IsFiniteSet(T)
    BY <1>1 DEF T
  <2> QED BY <2>1, FS_Union
<1>6. Cardinality(T) = n /\ Cardinality(S \cap T) = 0
  BY <1>1, <1>3
<1> QED BY <1>4, <1>5, <1>6

\* How a block of results of one probe changes the counts.
LEMMA CountBlock ==
    ASSUME results \in Seq(Result), NEW p, NEW b \in Seq(Result), results' = results \o b,
           \A k \in 1..Len(b) : b[k].probe = p
    PROVE  /\ Num(p)' = Num(p) + Len(b)
           /\ \A q : q # p => Num(q)' = Num(q)
           /\ \A i \in DOMAIN results' :
                \/ i \in DOMAIN results /\ results'[i] = results[i] /\ Rank(i)' = Rank(i)
                \/ \E k \in 1..Len(b) : results'[i] = b[k] /\ Rank(i)' = Num(p) + k
<1> DEFINE l == Len(results)   m == Len(b)
<1>1. l \in Nat /\ m \in Nat /\ DOMAIN results = 1..l
  BY LenProperties
<1>2. /\ results' \in Seq(Result) /\ DOMAIN results' = 1..(l + m)
      /\ \A i \in 1..(l + m) : results'[i] = IF i <= l THEN results[i] ELSE b[i - l]
  <2>1. /\ Len(results \o b) = Len(results) + Len(b)
        /\ \A i \in 1..(Len(results) + Len(b)) :
             (results \o b)[i] = IF i <= Len(results) THEN results[i] ELSE b[i - Len(results)]
        /\ results \o b \in Seq(Result)
    BY <1>1, ConcatProperties
  <2> QED BY <2>1, LenProperties
<1> HIDE DEF l, m
<1>3. \A i \in 1..l : i \in 1..(l + m) /\ results'[i] = results[i]
  BY <1>1, <1>2
<1>4. \A i \in (l + 1)..(l + m) : i \in 1..(l + m) /\ i - l \in 1..m /\ results'[i] = b[i - l]
  BY <1>1, <1>2
<1>5. \A i \in 1..(l + m) : i \in 1..l \/ i \in (l + 1)..(l + m)
  BY <1>1
<1>6. \A i \in (l + 1)..(l + m) : results'[i].probe = p
  BY <1>4 DEF m
<1>7. \A q : q # p => Recorded(q)' = Recorded(q)
  <2> SUFFICES ASSUME NEW q, q # p PROVE Recorded(q)' = Recorded(q)
    OBVIOUS
  <2>1. Recorded(q) = {i \in 1..l : results[i].probe = q}
    BY <1>1 DEF Recorded
  <2>2. Recorded(q)' = {i \in 1..(l + m) : results'[i].probe = q}
    BY <1>2 DEF Recorded
  <2> QED BY <1>3, <1>5, <1>6, <2>1, <2>2
<1>8. \A k \in 0..m : {i \in Recorded(p)' : i <= l + k} = Recorded(p) \cup (l + 1)..(l + k)
  <2> TAKE k \in 0..m
  <2>1. Recorded(p) = {i \in 1..l : results[i].probe = p}
    BY <1>1 DEF Recorded
  <2>2. Recorded(p)' = {i \in 1..(l + m) : results'[i].probe = p}
    BY <1>2 DEF Recorded
  <2>3. \A i \in (l + 1)..(l + k) : i \in (l + 1)..(l + m) /\ i <= l + k
    BY <1>1
  <2>4. \A i \in 1..l : i <= l + k
    BY <1>1
  <2>5. \A i \in (l + 1)..(l + m) : i <= l + k => i \in (l + 1)..(l + k)
    BY <1>1
  <2> QED BY <1>3, <1>4, <1>5, <1>6, <2>1, <2>2, <2>3, <2>4, <2>5
<1>9. \A k \in 0..m : Cardinality({i \in Recorded(p)' : i <= l + k}) = Num(p) + k
  <2> TAKE k \in 0..m
  <2>1. IsFiniteSet(Recorded(p)) /\ \A x \in Recorded(p) : x <= l /\ x \in Nat
    <3>1. \A x \in Recorded(p) : x \in 1..l
      BY <1>1 DEF Recorded
    <3> QED BY <1>1, <3>1, RecordedFinite
  <2>2. k \in Nat
    BY <1>1
  <2>3. Cardinality(Recorded(p) \cup (l + 1)..(l + k)) = Cardinality(Recorded(p)) + k
    BY <1>1, <2>1, <2>2, AddInterval
  <2> QED BY <1>8, <2>3 DEF Num
<1>10. Num(p)' = Num(p) + m
  <2>1. {i \in Recorded(p)' : i <= l + m} = Recorded(p)'
    BY <1>1, <1>2 DEF Recorded
  <2>2. m \in 0..m
    BY <1>1
  <2> QED BY <1>9, <2>1, <2>2 DEF Num
<1>11. ASSUME NEW i \in 1..l PROVE Rank(i)' = Rank(i)
  <2> PICK q : q = results[i].probe
    OBVIOUS
  <2>1. results'[i].probe = q
    BY <1>3
  <2>2. {j \in Recorded(q)' : j <= i} = {j \in Recorded(q) : j <= i}
    <3>1. Recorded(q) = {j \in 1..l : results[j].probe = q}
      BY <1>1 DEF Recorded
    <3>2. Recorded(q)' = {j \in 1..(l + m) : results'[j].probe = q}
      BY <1>2 DEF Recorded
    <3>3. \A j \in (l + 1)..(l + m) : ~(j <= i)
      BY <1>1
    <3> QED BY <1>3, <1>5, <3>1, <3>2, <3>3
  <2> QED BY <2>1, <2>2 DEF Rank
<1>12. ASSUME NEW i \in (l + 1)..(l + m)
       PROVE  \E k \in 1..m : results'[i] = b[k] /\ Rank(i)' = Num(p) + k
  <2>1. i - l \in 1..m /\ results'[i] = b[i - l]
    BY <1>4
  <2>4. i - l \in 0..m /\ l + (i - l) = i
    BY <1>1
  <2>2. Rank(i)' = Cardinality({j \in Recorded(p)' : j <= i})
    BY <1>6 DEF Rank
  <2>3. Cardinality({j \in Recorded(p)' : j <= l + (i - l)}) = Num(p) + (i - l)
    BY <1>9, <2>4
  <2> QED BY <2>1, <2>2, <2>3, <2>4
<1>13. \A q : q # p => Num(q)' = Num(q)
  BY <1>7 DEF Num
<1>14. \A i \in DOMAIN results' :
          \/ i \in DOMAIN results /\ results'[i] = results[i] /\ Rank(i)' = Rank(i)
          \/ \E k \in 1..m : results'[i] = b[k] /\ Rank(i)' = Num(p) + k
  BY <1>1, <1>2, <1>3, <1>5, <1>11, <1>12
<1> QED BY <1>10, <1>13, <1>14 DEF m

\* Rows that are only ever added to keep what a result follows.
LEMMA FollowsKept ==
    ASSUME NEW r, NEW n, Follows(r, n), HostsGrow, arp' = arp
    PROVE  Follows(r, n)'
<1>1. DOMAIN hosts = 1..Len(hosts) /\ DOMAIN hosts' = 1..Len(hosts')
  BY LenProperties DEF HostsGrow
<1>2. \A h \in DOMAIN hosts : h \in DOMAIN hosts' /\ hosts'[h] = hosts[h]
  BY <1>1 DEF HostsGrow
<1> QED BY <1>2 DEF Follows, PortResults

\* A block of results in the order of the rows leaves all results in order.
LEMMA FollowAdds ==
    ASSUME results \in Seq(Result), ResultsFollowHosts, HostsGrow,
           arp' = arp \/ results = <<>>,
           NEW p, NEW b \in Seq(Result), results' = results \o b,
           NEW c, c = Num(p),
           \A k \in 1..Len(b) : b[k].probe = p /\ Follows(b[k], c + k)'
    PROVE  /\ Num(p)' = Num(p) + Len(b)
           /\ \A q : q # p => Num(q)' = Num(q)
           /\ ResultsFollowHosts'
<1>1. /\ Num(p)' = Num(p) + Len(b)
      /\ \A q : q # p => Num(q)' = Num(q)
      /\ \A i \in DOMAIN results' :
           \/ i \in DOMAIN results /\ results'[i] = results[i] /\ Rank(i)' = Rank(i)
           \/ \E k \in 1..Len(b) : results'[i] = b[k] /\ Rank(i)' = Num(p) + k
  BY CountBlock
<1>2. \A i \in DOMAIN results : Follows(results[i], Rank(i))
  BY DEF ResultsFollowHosts, Follows
<1>3. ASSUME NEW i \in DOMAIN results' PROVE Follows(results[i], Rank(i))'
  <2>1. PICK r : r = results'[i]
    OBVIOUS
  <2>2. PICK n : n = Rank(i)'
    OBVIOUS
  <2>3. Follows(r, n)'
    <3>1. CASE i \in DOMAIN results /\ results'[i] = results[i] /\ Rank(i)' = Rank(i)
      <4>1. Follows(r, n)
        BY <1>2, <2>1, <2>2, <3>1
      <4>2. arp' = arp
        BY <3>1
      <4> QED BY <4>1, <4>2, FollowsKept
    <3>2. CASE \E k \in 1..Len(b) : results'[i] = b[k] /\ Rank(i)' = Num(p) + k
      BY <2>1, <2>2, <3>2
    <3> QED BY <1>1, <3>1, <3>2
  <2> QED BY <2>1, <2>2, <2>3
<1>4. ResultsFollowHosts'
  BY <1>3 DEF ResultsFollowHosts, Follows
<1> QED BY <1>1, <1>4

\* Without new results every count stays as it is.
LEMMA FollowSame ==
    ASSUME results \in Seq(Result), ResultsFollowHosts, HostsGrow,
           arp' = arp \/ results = <<>>, results' = results
    PROVE  ResultsFollowHosts' /\ \A q : Num(q)' = Num(q)
<1>1. \A q : Recorded(q)' = Recorded(q)
  BY DEF Recorded
<1>2. \A q : Num(q)' = Num(q)
  BY <1>1 DEF Num
<1>3. ASSUME NEW i \in DOMAIN results' PROVE Follows(results[i], Rank(i))'
  <2>1. PICK r : r = results[i]
    OBVIOUS
  <2>2. PICK n : n = Rank(i)
    OBVIOUS
  <2>3. r = results'[i] /\ n = Rank(i)'
    BY <1>1, <2>1, <2>2 DEF Rank
  <2>4. Follows(r, n) /\ arp' = arp
    BY <2>1, <2>2 DEF ResultsFollowHosts, Follows
  <2> QED BY <2>3, <2>4, FollowsKept
<1>4. ResultsFollowHosts'
  BY <1>3 DEF ResultsFollowHosts, Follows
<1> QED BY <1>2, <1>4

\* The rows of a table stay what they are in almost every step.
LEMMA RowsKept ==
    ASSUME TypeOK, hosts' = hosts
    PROVE  HostsGrow
<1>1. hosts \in Seq(Hosts)
  BY DEF TypeOK
<1> QED BY <1>1, LenProperties DEF HostsGrow

\* A step that records nothing and leaves the rows alone, while it does not
\* change what any stage has tried.
LEMMA MovesOn ==
    ASSUME TypeOK, RecordInv, pc \notin {"halt", "ended"}, results' = results, arp' = arp, hosts' = hosts,
           Tried("icmp", Len(arp))' = Tried("icmp", Len(arp)),
           Tried("tcp", Len(hosts))' = Tried("tcp", Len(hosts)),
           Tried("netbios", Len(arp))' = Tried("netbios", Len(arp)),
           HostsKnown' <=> HostsKnown,
           (stage # "arp" \/ pc \in {"finish", "gate"})'
               <=> (stage # "arp" \/ pc \in {"finish", "gate"}),
           PlaceInv', status' # "completed"
    PROVE  RecordInv'
<1>1. PlaceInv /\ NumInv /\ ResultsFollowHosts
  BY DEF RecordInv
<1>2. ResultsFollowHosts' /\ \A q : Num(q)' = Num(q)
  BY RowsKept, FollowSame DEF RecordInv, TypeOK
<1>3. NumInv'
  <2>1. /\ Num("arp")' = Num("arp") /\ Num("icmp")' = Num("icmp")
        /\ Num("icmp-sweep")' = Num("icmp-sweep")
        /\ Num("tcp")' = Num("tcp") /\ Num("netbios")' = Num("netbios")
    BY <1>2
  <2> QED BY <1>1, <2>1 DEF NumInv
<1> QED BY <1>2, <1>3 DEF RecordInv, CompletedScanIsWhole

\* The position and the number of rows dealt with are all that Tried reads.
LEMMA SamePlace ==
    ASSUME request' = request, stage' = stage, done' = done, pc \in Working, pc' \in Working
    PROVE  /\ \A s, all : Tried(s, all)' = Tried(s, all)
           /\ stage \in {"arp", "icmp"} \/ (HostsKnown' <=> HostsKnown)
BY DEF Tried, Passed, Earlier, HostsKnown, Working

LEMMA RecordInit == Init => RecordInv
<1> SUFFICES ASSUME Init PROVE RecordInv
  OBVIOUS
<1>1. stage = "arp" /\ pc = "validate" /\ arp = <<>> /\ hosts = <<>> /\ results = <<>>
      /\ status = "none"
  BY DEF Init
<1>2. \A p : Recorded(p) = {}
  BY <1>1 DEF Recorded
<1>3. \A p : Num(p) = 0
  BY <1>2, FS_EmptySet DEF Num
<1>4. \A all : Tried("icmp", all) = 0 /\ Tried("tcp", all) = 0 /\ Tried("netbios", all) = 0
  BY <1>1 DEF Tried, Passed, Earlier, Working
<1>5. ~HostsKnown
  BY <1>1 DEF HostsKnown, Passed, Earlier
<1>6. 0 * Len(Ports) = 0
  BY PortsAssumption
<1>7. NumInv
  BY <1>1, <1>3, <1>4, <1>5, <1>6 DEF NumInv
<1>8. PlaceInv
  BY <1>1, <1>5 DEF PlaceInv
<1>9. ResultsFollowHosts /\ CompletedScanIsWhole
  BY <1>1 DEF ResultsFollowHosts, CompletedScanIsWhole
<1> QED BY <1>7, <1>8, <1>9 DEF RecordInv

\* What a step asks of the place it moves to.
MovesTo ==
    /\ Tried("icmp", Len(arp))' = Tried("icmp", Len(arp))
    /\ Tried("tcp", Len(hosts))' = Tried("tcp", Len(hosts))
    /\ Tried("netbios", Len(arp))' = Tried("netbios", Len(arp))
    /\ HostsKnown' <=> HostsKnown
    /\ (stage # "arp" \/ pc \in {"finish", "gate"})'
           <=> (stage # "arp" \/ pc \in {"finish", "gate"})
    /\ PlaceInv'

\* Leaving the stage in progress is the same for the other stages.
LEMMA LeaveMoves ==
    ASSUME TypeOK, WorkerInv, IdxInv, PlaceInv, pc \in {"begin", "finish", "query", "gate"},
           pc = "begin" => ~Enabled(request, stage) /\ stage # "icmp",
           pc = "query" => stage \in Queries,
           request' = request, arp' = arp, hosts' = hosts, results' = results, done' = done,
           \/ pc' = "gate" /\ stage' = stage
           \/ pc = "gate" /\ pc' = "complete" /\ stage' = stage /\ stage = "snmp"
           \/ pc' = "begin" /\ stage' = Succ(stage) /\ stage # "snmp",
           pc # "gate" /\ stage \in {"arp", "icmp", "tcp"} => pc' = "gate"
    PROVE  MovesTo
<1>1. stage \in Probes
  BY DEF TypeOK
<1>2. pc = "finish" => Enabled(request, stage)
  BY DEF IdxInv
<1> USE <1>1, <1>2 DEF MovesTo, PlaceInv, Tried, HostsKnown, Passed, Earlier, Working, Succ, Probes, Queries
<1>3. Tried("icmp", Len(arp))' = Tried("icmp", Len(arp))
  OBVIOUS
<1>4. Tried("tcp", Len(hosts))' = Tried("tcp", Len(hosts))
  OBVIOUS
<1>5. Tried("netbios", Len(arp))' = Tried("netbios", Len(arp))
  OBVIOUS
<1>6. HostsKnown' <=> HostsKnown
  OBVIOUS
<1>7. PlaceInv'
  OBVIOUS
<1> QED BY <1>3, <1>4, <1>5, <1>6, <1>7

LEMMA RecordMoves ==
    ASSUME TypeOK, WorkerInv, IdxInv, StatusInv, RecordInv, pc \notin {"halt", "ended"}, MovesTo,
           results' = results, arp' = arp, hosts' = hosts, status' # "completed"
    PROVE  RecordInv'
BY MovesOn DEF MovesTo

\* The steps that only move on.
LEMMA RecordLeave ==
    ASSUME TypeOK, WorkerInv, IdxInv, StatusInv, RecordInv,
           \/ SkipStage /\ stage # "icmp"
           \/ FinishStage \/ PassGate \/ PassLastGate \/ QueryFail
    PROVE  RecordInv'
<1>1. pc \in {"begin", "finish", "query", "gate"} /\ PlaceInv
  BY DEF SkipStage, FinishStage, PassGate, PassLastGate, QueryFail, RecordInv
<1>2. /\ pc = "begin" => ~Enabled(request, stage) /\ stage # "icmp"
      /\ pc = "query" => stage \in Queries
      /\ request' = request /\ arp' = arp /\ hosts' = hosts /\ results' = results
      /\ done' = done /\ status' = status
  BY DEF SkipStage, FinishStage, PassGate, PassLastGate, QueryFail, workers
<1>3. /\ \/ pc' = "gate" /\ stage' = stage
         \/ pc = "gate" /\ pc' = "complete" /\ stage' = stage /\ stage = "snmp"
         \/ pc' = "begin" /\ stage' = Succ(stage) /\ stage # "snmp"
      /\ pc # "gate" /\ stage \in {"arp", "icmp", "tcp"} => pc' = "gate"
  BY DEF SkipStage, FinishStage, PassGate, PassLastGate, QueryFail, Leave, TypeOK, Probes, Queries
<1>4. MovesTo
  BY <1>1, <1>2, <1>3, LeaveMoves
<1>5. status' # "completed"
  BY <1>1, <1>2 DEF StatusInv
<1> QED BY <1>1, <1>2, <1>4, <1>5, RecordMoves

LEMMA RecordStart ==
    ASSUME TypeOK, WorkerInv, IdxInv, StatusInv, RecordInv, StartSession \/ BeginStage
    PROVE  RecordInv'
<1>1. pc \in {"validate", "begin"} /\ pc' \notin {"validate", "ended", "gate", "finish", "sweep"} /\ PlaceInv
  BY DEF StartSession, BeginStage, RecordInv
<1>2. /\ request' = request /\ arp' = arp /\ hosts' = hosts /\ results' = results
      /\ stage' = stage /\ status' = "running"
  BY <1>1 DEF StartSession, BeginStage, StatusInv
<1>3. /\ pc = "validate" => pc' = "begin" /\ stage = "arp" /\ Enabled(request, "arp")
      /\ pc = "begin" => pc' \in Working /\ done' = 0 /\ (stage = "icmp" => pc' = "chunk")
  BY <1>1 DEF StartSession, BeginStage, Acceptable, IdxInv, Working, Queries
<1>4. MovesTo
  <2> USE <1>1, <1>2, <1>3 DEF MovesTo, PlaceInv, Tried, HostsKnown, Passed, Earlier, Working
  <2>1. Tried("icmp", Len(arp))' = Tried("icmp", Len(arp))
    OBVIOUS
  <2>2. Tried("tcp", Len(hosts))' = Tried("tcp", Len(hosts))
    OBVIOUS
  <2>3. Tried("netbios", Len(arp))' = Tried("netbios", Len(arp))
    OBVIOUS
  <2>4. HostsKnown' <=> HostsKnown
    OBVIOUS
  <2>5. PlaceInv'
    <3>1. Len(<<>>) = 0
      BY EmptySeq
    <3> QED BY <3>1
  <2> QED BY <2>1, <2>2, <2>3, <2>4, <2>5
<1> QED BY <1>1, <1>2, <1>4, RecordMoves

\* The steps inside a stage that record nothing.
LEMMA RecordWork ==
    ASSUME TypeOK, WorkerInv, IdxInv, StatusInv, RecordInv,
           BeginChunk \/ Launch \/ EndChunks \/ SweepFail \/ EndResolve
    PROVE  RecordInv'
<1>1. pc \in Working /\ pc' \in Working /\ PlaceInv
  BY DEF BeginChunk, Launch, EndChunks, SweepFail, EndResolve, Working, RecordInv
<1>2. /\ request' = request /\ arp' = arp /\ hosts' = hosts /\ results' = results
      /\ stage' = stage /\ status' = status /\ done' = done
  BY DEF BeginChunk, Launch, EndChunks, SweepFail, EndResolve, workers
<1>3. /\ pc' \in {"launch", "collect", "sweep", "finish"}
      /\ pc' = "sweep" => pc = "chunk"
      /\ pc' = "finish" => pc \in {"chunk", "sweep", "resolve"}
      /\ pc = "sweep" => stage = "icmp"
      /\ pc \in {"chunk", "launch"} => stage \in Pooled
      /\ pc = "resolve" => stage = "netbios"
      /\ pc' \in {"sweep", "finish"} /\ pc = "chunk" => done = Len(Targets)
      /\ pc = "resolve" => done = Len(arp)
      /\ pc \in {"chunk", "launch", "sweep", "resolve"}
  BY DEF BeginChunk, Launch, EndChunks, SweepFail, EndResolve, WorkerInv
<1>4. Targets = IF stage = "icmp" THEN arp ELSE hosts
  BY DEF Targets
<1>5. Len(arp) \in Nat /\ Len(hosts) \in Nat
  BY LenProperties DEF TypeOK
<1>6. NumInv
  BY <1>1 DEF RecordInv, Working
<1>7. CASE ~(stage = "icmp" /\ pc' = "finish")
  <2> USE <1>1, <1>2, <1>3, <1>4, <1>5, <1>7
      DEF MovesTo, PlaceInv, Tried, HostsKnown, Passed, Earlier, Working, Pooled
  <2>1. Tried("icmp", Len(arp))' = Tried("icmp", Len(arp))
    OBVIOUS
  <2>2. Tried("tcp", Len(hosts))' = Tried("tcp", Len(hosts))
    OBVIOUS
  <2>3. Tried("netbios", Len(arp))' = Tried("netbios", Len(arp))
    OBVIOUS
  <2>4. HostsKnown' <=> HostsKnown
    OBVIOUS
  <2>5. PlaceInv'
    OBVIOUS
  <2>6. MovesTo
    BY <2>1, <2>2, <2>3, <2>4, <2>5
  <2>7. status' # "completed"
    BY <1>1, <1>2 DEF StatusInv, Working
  <2> QED BY <2>6, <2>7, RecordMoves
<1>8. CASE stage = "icmp" /\ pc' = "finish"
  <2>1. done = Len(arp) /\ Len(hosts) = Len(arp) /\ \A i \in 1..Len(arp) : hosts[i] = arp[i]
    BY <1>1, <1>3, <1>4, <1>8 DEF PlaceInv, Working
  <2>2. ~HostsKnown /\ HostsKnown'
    BY <1>1, <1>2, <1>3, <1>8 DEF HostsKnown, Passed, Earlier
  <2>3. PlaceInv'
    BY <1>1, <1>2, <1>5, <1>8, <2>1, <2>2 DEF PlaceInv, Working
  <2>4. /\ Tried("icmp", Len(arp))' = Tried("icmp", Len(arp))
        /\ Tried("tcp", Len(hosts))' = Tried("tcp", Len(hosts))
        /\ Tried("netbios", Len(arp))' = Tried("netbios", Len(arp))
    BY <1>1, <1>2, <1>8, SamePlace
  <2>5. ResultsFollowHosts' /\ \A q : Num(q)' = Num(q)
    BY <1>2, RowsKept, FollowSame DEF RecordInv, TypeOK
  <2>6. NumInv'
    <3>1. /\ Num("arp")' = Num("arp") /\ Num("icmp")' = Num("icmp")
          /\ Num("icmp-sweep")' = Num("icmp-sweep")
          /\ Num("tcp")' = Num("tcp") /\ Num("netbios")' = Num("netbios")
      BY <2>5
    <3>2. Num("icmp-sweep")' = Len(hosts') - Len(arp')
      BY <1>2, <1>5, <1>6, <2>1, <2>2, <3>1 DEF NumInv
    <3> QED BY <1>2, <1>6, <1>8, <2>2, <2>4, <3>1, <3>2 DEF NumInv
  <2>7. status' # "completed"
    BY <1>1, <1>2 DEF StatusInv, Working
  <2> QED BY <2>3, <2>5, <2>6, <2>7 DEF RecordInv, CompletedScanIsWhole
<1> QED BY <1>7, <1>8

\* The scan is over: how its results are counted no longer matters.
LEMMA RecordEnd ==
    ASSUME TypeOK, StatusInv, RecordInv,
           Refuse \/ HaltAtGate \/ HaltAtChunk \/ Halt \/ ArpFail
    PROVE  RecordInv'
<1>1. /\ results' = results /\ arp' = arp /\ hosts' = hosts
      /\ pc' \in {"halt", "ended"} /\ status' # "completed"
  BY DEF Refuse, HaltAtGate, HaltAtChunk, MustHalt, ArpFail, Halt, HaltStatus, StatusInv
<1>2. ResultsFollowHosts'
  BY <1>1, RowsKept, FollowSame DEF RecordInv, TypeOK
<1> QED BY <1>1, <1>2 DEF RecordInv, CompletedScanIsWhole

\* Neither the caller nor a worker touches what is counted.
LEMMA RecordSame ==
    ASSUME TypeOK, RecordInv, UNCHANGED <<control, done, arp, hosts, results>>
    PROVE  RecordInv'
<1>1. \A q : Recorded(q)' = Recorded(q)
  BY DEF Recorded
<1>2. \A q : Num(q)' = Num(q)
  BY <1>1 DEF Num
<1>3. ResultsFollowHosts'
  BY RowsKept, FollowSame DEF RecordInv, TypeOK
<1>4. CompletedScanIsWhole'
  <2>1. /\ Recorded("arp")' = Recorded("arp") /\ Recorded("icmp")' = Recorded("icmp")
        /\ Recorded("icmp-sweep")' = Recorded("icmp-sweep")
        /\ Recorded("tcp")' = Recorded("tcp") /\ Recorded("netbios")' = Recorded("netbios")
    BY <1>1
  <2> QED BY <2>1 DEF RecordInv, CompletedScanIsWhole, control
<1>5. pc \notin {"halt", "ended"} => PlaceInv' /\ NumInv'
  <2>1. /\ Tried("icmp", Len(arp))' = Tried("icmp", Len(arp))
        /\ Tried("tcp", Len(hosts))' = Tried("tcp", Len(hosts))
        /\ Tried("netbios", Len(arp))' = Tried("netbios", Len(arp))
        /\ (HostsKnown' <=> HostsKnown)
    BY DEF Tried, Passed, HostsKnown, control
  <2>2. /\ Num("arp")' = Num("arp") /\ Num("icmp")' = Num("icmp")
        /\ Num("icmp-sweep")' = Num("icmp-sweep")
        /\ Num("tcp")' = Num("tcp") /\ Num("netbios")' = Num("netbios")
    BY <1>2
  <2> QED BY <2>1, <2>2 DEF RecordInv, PlaceInv, NumInv, control
<1> QED BY <1>3, <1>4, <1>5 DEF RecordInv, control

\* Without ICMP the ARP rows become the hosts.
LEMMA RecordSkip ==
    ASSUME TypeOK, IdxInv, StatusInv, RecordInv, SkipStage, stage = "icmp"
    PROVE  RecordInv'
<1>1. /\ results' = results /\ arp' = arp /\ hosts' = arp /\ request' = request
      /\ pc = "begin" /\ pc' = "gate" /\ stage' = stage /\ status' = "running"
      /\ ~Enabled(request, "icmp")
  BY DEF SkipStage, Leave, StatusInv
<1>2. hosts = <<>> /\ PlaceInv /\ NumInv
  BY <1>1 DEF RecordInv, PlaceInv
<1>3. HostsGrow
  BY <1>1, <1>2, EmptySeq, LenProperties DEF HostsGrow, TypeOK
<1>4. ResultsFollowHosts' /\ \A q : Num(q)' = Num(q)
  BY <1>1, <1>3, FollowSame DEF RecordInv, TypeOK
<1>5. /\ Tried("icmp", Len(arp)) = 0 /\ Tried("icmp", Len(arp))' = 0
      /\ Tried("tcp", Len(hosts)) = 0 /\ Tried("tcp", Len(hosts))' = 0
      /\ Tried("netbios", Len(arp)) = 0 /\ Tried("netbios", Len(arp))' = 0
      /\ ~HostsKnown /\ HostsKnown'
  BY <1>1 DEF Tried, Passed, Earlier, HostsKnown, Working
<1>6. Len(arp) \in Nat
  BY LenProperties DEF TypeOK
<1>7. NumInv'
  <2>1. /\ Num("arp")' = Num("arp") /\ Num("icmp")' = Num("icmp")
        /\ Num("icmp-sweep")' = Num("icmp-sweep")
        /\ Num("tcp")' = Num("tcp") /\ Num("netbios")' = Num("netbios")
    BY <1>4
  <2>2. Num("icmp-sweep")' = Len(hosts') - Len(arp')
    BY <1>1, <1>2, <1>5, <1>6, <2>1 DEF NumInv
  <2> QED BY <1>1, <1>2, <1>5, <2>1, <2>2 DEF NumInv
<1>8. PlaceInv'
  BY <1>1, <1>2, <1>6 DEF PlaceInv, Working
<1> QED BY <1>1, <1>4, <1>7, <1>8 DEF RecordInv, CompletedScanIsWhole

\* Behind the last gate every stage that was enabled has tried all it had to.
LEMMA RecordComplete ==
    ASSUME TypeOK, RecordInv, Complete
    PROVE  RecordInv'
<1>1. /\ results' = results /\ arp' = arp /\ hosts' = hosts /\ request' = request
      /\ pc = "complete" /\ pc' = "ended" /\ stage = "snmp" /\ PlaceInv /\ NumInv
  BY DEF Complete, RecordInv, PlaceInv
<1>2. ResultsFollowHosts' /\ \A q : Num(q)' = Num(q)
  BY <1>1, RowsKept, FollowSame DEF RecordInv, TypeOK
<1>3. /\ Enabled(request, "icmp") => Tried("icmp", Len(arp)) = Len(arp)
      /\ Enabled(request, "tcp") => Tried("tcp", Len(hosts)) = Len(hosts)
      /\ Enabled(request, "netbios") => Tried("netbios", Len(arp)) = Len(arp)
      /\ HostsKnown
  BY <1>1 DEF Tried, Passed, Earlier, HostsKnown, Working
<1>4. Len(arp) \in Nat /\ Len(hosts) \in Nat
  BY LenProperties DEF TypeOK
<1>5. /\ Num("arp")' = Num("arp") /\ Num("icmp")' = Num("icmp")
      /\ Num("icmp-sweep")' = Num("icmp-sweep")
      /\ Num("tcp")' = Num("tcp") /\ Num("netbios")' = Num("netbios")
  BY <1>2
<1>6. Num("arp") = Len(arp) /\ Num("icmp-sweep") = Len(hosts) - Len(arp)
  BY <1>1, <1>3 DEF NumInv
<1>7. Len(hosts) = Len(arp) + Num("icmp-sweep")
  BY <1>4, <1>6
<1>8. \A i \in DOMAIN arp : hosts[i] = arp[i]
  BY <1>1, <1>3, LenProperties DEF PlaceInv, TypeOK
<1>9. /\ Enabled(request, "icmp") => Num("icmp") = Len(arp)
      /\ Enabled(request, "tcp") => Num("tcp") = Len(hosts) * Len(Ports)
      /\ Enabled(request, "netbios") => Num("netbios") = Len(arp)
  BY <1>1, <1>3 DEF NumInv
<1>10. CompletedScanIsWhole'
  <2>1. Enabled(request', "icmp") => Num("icmp")' = Len(arp')
    BY <1>1, <1>5, <1>9
  <2>2. Enabled(request', "tcp") => Num("tcp")' = Len(hosts') * Len(Ports)
    BY <1>1, <1>5, <1>9
  <2>3. Enabled(request', "netbios") => Num("netbios")' = Len(arp')
    BY <1>1, <1>5, <1>9
  <2>4. Num("arp")' = Len(arp') /\ Len(hosts') = Len(arp') + Num("icmp-sweep")'
    BY <1>1, <1>5, <1>6, <1>7
  <2>5. \A i \in DOMAIN arp' : hosts'[i] = arp'[i]
    BY <1>1, <1>8
  <2> QED BY <2>1, <2>2, <2>3, <2>4, <2>5 DEF CompletedScanIsWhole, Num
<1> QED BY <1>1, <1>2, <1>10 DEF RecordInv

LEMMA RowFields ==
    ASSUME NEW p, NEW s \in Seq(Hosts)
    PROVE  \A k \in 1..Len(RowResults(p, s)) :
               /\ k \in 1..Len(s)
               /\ RowResults(p, s)[k].probe = p /\ RowResults(p, s)[k].target = s[k]
<1>1. Len(s) \in Nat
  BY LenProperties
<1> QED BY <1>1 DEF RowResults, R

\* A stage records the results of one probe, in its own order.
LEMMA RecordArp ==
    ASSUME TypeOK, StatusInv, RecordInv, NEW rows \in SeqOf(Hosts, MaxHosts), ArpRows(rows)
    PROVE  RecordInv'
<1> DEFINE b == RowResults("arp", rows)
<1>1. /\ results' = results \o b /\ arp' = rows /\ hosts' = hosts /\ request' = request
      /\ pc = "query" /\ pc' = "finish" /\ stage = "arp" /\ stage' = stage /\ status' = status
      /\ PlaceInv /\ NumInv
  BY DEF ArpRows, RecordInv
<1>2. rows \in Seq(Hosts) /\ results \in Seq(Result)
  BY RowsType, BoundsAssumption DEF TypeOK
<1>3. b \in Seq(Result) /\ Len(b) = Len(rows)
  BY <1>2, RowResultsType DEF Probes
<1>4. results = <<>> /\ hosts = <<>> /\ arp = <<>>
  BY <1>1 DEF PlaceInv
<1>5. Num("arp") = 0
  <2>1. Recorded("arp") = {}
    BY <1>4 DEF Recorded
  <2> QED BY <2>1, FS_EmptySet DEF Num
<1>6. \A k \in 1..Len(b) : b[k].probe = "arp" /\ k \in DOMAIN rows /\ b[k].target = rows[k]
  BY <1>2, <1>3, RowFields, LenProperties
<1>7. \A k \in 1..Len(b) : Follows(b[k], 0 + k)'
  <2> TAKE k \in 1..Len(b)
  <2>1. PICK r : r = b[k]
    OBVIOUS
  <2>2. r.probe = "arp" /\ k \in DOMAIN arp' /\ r.target = arp'[k]
    BY <1>1, <1>6, <2>1
  <2>3. 0 + k = k
    BY <1>2, <1>3, LenProperties
  <2>4. Follows(r, k)'
    BY <2>2 DEF Follows
  <2> QED BY <2>1, <2>3, <2>4
<1> HIDE DEF b
<1>8. /\ Num("arp")' = Num("arp") + Len(b)
      /\ \A q : q # "arp" => Num(q)' = Num(q)
      /\ ResultsFollowHosts'
  BY <1>1, <1>2, <1>3, <1>4, <1>5, <1>6, <1>7, RowsKept, FollowAdds DEF RecordInv
<1>9. /\ \A all : Tried("icmp", all) = 0 /\ Tried("tcp", all) = 0 /\ Tried("netbios", all) = 0
      /\ \A all : /\ Tried("icmp", all)' = 0 /\ Tried("tcp", all)' = 0
                  /\ Tried("netbios", all)' = 0
      /\ ~HostsKnown /\ ~HostsKnown'
  BY <1>1 DEF Tried, Passed, Earlier, HostsKnown, Working
<1>10. NumInv'
  <2>1. /\ Num("icmp")' = Num("icmp") /\ Num("icmp-sweep")' = Num("icmp-sweep")
        /\ Num("tcp")' = Num("tcp") /\ Num("netbios")' = Num("netbios")
    BY <1>8
  <2>2. Num("arp")' = Len(arp')
    BY <1>1, <1>2, <1>3, <1>5, <1>8, LenProperties
  <2>3. Tried("icmp", Len(arp))' = 0 /\ Tried("tcp", Len(hosts))' = 0
        /\ Tried("netbios", Len(arp))' = 0
    <3>1. PICK m : m = Len(arp')
      OBVIOUS
    <3>2. PICK n : n = Len(hosts')
      OBVIOUS
    <3> QED BY <1>9, <3>1, <3>2
  <2> QED BY <1>1, <1>9, <2>1, <2>2, <2>3 DEF NumInv
<1>11. PlaceInv'
  BY <1>1, <1>4, <1>9 DEF PlaceInv
<1> QED BY <1>1, <1>8, <1>10, <1>11 DEF RecordInv, CompletedScanIsWhole, StatusInv

LEMMA RecordSweep ==
    ASSUME TypeOK, WorkerInv, StatusInv, RecordInv, NEW fresh \in Seq(Hosts), Sweep(fresh)
    PROVE  RecordInv'
<1> DEFINE b == RowResults("icmp-sweep", fresh)
<1>1. /\ results' = results \o b /\ arp' = arp /\ hosts' = hosts \o fresh /\ request' = request
      /\ pc = "sweep" /\ pc' = "finish" /\ stage = "icmp" /\ stage' = stage
      /\ status' = status /\ done' = done /\ PlaceInv /\ NumInv
  BY DEF Sweep, RecordInv, WorkerInv, workers
<1>2. results \in Seq(Result) /\ hosts \in Seq(Hosts) /\ arp \in Seq(Hosts)
  BY DEF TypeOK
<1>3. b \in Seq(Result) /\ Len(b) = Len(fresh)
  BY RowResultsType
<1>4. /\ Len(arp) \in Nat /\ Len(hosts) = Len(arp) /\ done = Len(arp)
      /\ \A i \in 1..Len(arp) : hosts[i] = arp[i]
  BY <1>1, <1>2, LenProperties DEF PlaceInv, Working
<1>5. /\ Len(hosts') = Len(arp) + Len(fresh) /\ Len(fresh) \in Nat /\ hosts' \in Seq(Hosts)
      /\ \A i \in 1..Len(hosts') : hosts'[i] = IF i <= Len(arp) THEN hosts[i] ELSE fresh[i - Len(arp)]
  <2>1. /\ Len(hosts \o fresh) = Len(hosts) + Len(fresh) /\ hosts \o fresh \in Seq(Hosts)
        /\ \A i \in 1..(Len(hosts) + Len(fresh)) :
              (hosts \o fresh)[i] = IF i <= Len(hosts) THEN hosts[i] ELSE fresh[i - Len(hosts)]
    BY <1>2, ConcatProperties
  <2> QED BY <1>1, <1>4, <2>1, LenProperties
<1>6. HostsGrow
  BY <1>2, <1>4, <1>5 DEF HostsGrow
<1>7. ~HostsKnown /\ HostsKnown' /\ Num("icmp-sweep") = 0
  BY <1>1 DEF HostsKnown, Passed, Earlier, NumInv
<1>8. \A k \in 1..Len(b) :
        /\ b[k].probe = "icmp-sweep" /\ b[k].target = fresh[k]
        /\ Len(arp) + k \in DOMAIN hosts' /\ hosts'[Len(arp) + k] = fresh[k]
  <2> TAKE k \in 1..Len(b)
  <2>1. b[k].probe = "icmp-sweep" /\ b[k].target = fresh[k]
    BY RowFields
  <2>2. k \in 1..Len(fresh)
    BY <1>3
  <2>3. DOMAIN hosts' = 1..Len(hosts')
    BY <1>5, LenProperties
  <2>4. Len(arp) + k \in 1..Len(hosts') /\ ~(Len(arp) + k <= Len(arp)) /\ (Len(arp) + k) - Len(arp) = k
    BY <1>4, <1>5, <2>2
  <2> QED BY <1>5, <2>1, <2>3, <2>4
<1>9. \A k \in 1..Len(b) : Follows(b[k], 0 + k)'
  <2> TAKE k \in 1..Len(b)
  <2>1. PICK r : r = b[k]
    OBVIOUS
  <2>2. r.probe = "icmp-sweep" /\ Len(arp') + k \in DOMAIN hosts' /\ r.target = hosts'[Len(arp') + k]
    BY <1>1, <1>8, <2>1
  <2>3. 0 + k = k
    BY <1>3, <1>5
  <2>4. Follows(r, k)'
    BY <2>2 DEF Follows
  <2> QED BY <2>1, <2>3, <2>4
<1> HIDE DEF b
<1>10. /\ Num("icmp-sweep")' = Num("icmp-sweep") + Len(b)
       /\ \A q : q # "icmp-sweep" => Num(q)' = Num(q)
       /\ ResultsFollowHosts'
  BY <1>1, <1>2, <1>3, <1>6, <1>7, <1>8, <1>9, FollowAdds DEF RecordInv
<1>11. NumInv'
  <2>1. /\ Num("icmp")' = Num("icmp") /\ Num("arp")' = Num("arp")
        /\ Num("tcp")' = Num("tcp") /\ Num("netbios")' = Num("netbios")
    BY <1>10
  <2>2. Num("icmp-sweep")' = Len(hosts') - Len(arp')
    BY <1>1, <1>3, <1>4, <1>5, <1>7, <1>10
  <2>3. /\ Tried("icmp", Len(arp))' = Tried("icmp", Len(arp))
        /\ Tried("netbios", Len(arp))' = Tried("netbios", Len(arp))
        /\ Tried("tcp", Len(hosts)) = 0 /\ Tried("tcp", Len(hosts))' = 0
    BY <1>1 DEF Tried, Passed, Earlier, Working
  <2> QED BY <1>1, <1>7, <2>1, <2>2, <2>3 DEF NumInv
<1>12. PlaceInv'
  <2>1. Len(arp) <= Len(hosts') /\ \A i \in 1..Len(arp) : i \in 1..Len(hosts') /\ i <= Len(arp)
    BY <1>4, <1>5
  <2>2. \A i \in 1..Len(arp) : hosts'[i] = arp[i]
    BY <1>4, <1>5, <2>1
  <2> QED BY <1>1, <1>4, <2>1, <2>2 DEF PlaceInv
<1> QED BY <1>1, <1>10, <1>11, <1>12 DEF RecordInv, CompletedScanIsWhole, StatusInv

LEMMA RecordResolve ==
    ASSUME TypeOK, WorkerInv, StatusInv, RecordInv, Resolve
    PROVE  RecordInv'
<1> PICK d : d = done
  OBVIOUS
<1> PICK e : e = R("netbios", arp[d + 1])
  OBVIOUS
<1> DEFINE b == <<e>>
<1>1. /\ results' = Append(results, e) /\ arp' = arp /\ hosts' = hosts /\ request' = request
      /\ pc = "resolve" /\ pc' = "resolve" /\ stage = "netbios" /\ stage' = stage
      /\ status' = status /\ done' = d + 1 /\ d < Len(arp) /\ PlaceInv /\ NumInv
  BY DEF Resolve, RecordInv, WorkerInv, control
<1>2. results \in Seq(Result) /\ hosts \in Seq(Hosts) /\ arp \in Seq(Hosts) /\ d \in Nat
  BY DEF TypeOK
<1>3. Len(arp) \in Nat /\ DOMAIN arp = 1..Len(arp) /\ d + 1 \in DOMAIN arp
  BY <1>1, <1>2, LenProperties
<1>4. e \in Result /\ e.probe = "netbios" /\ e.target = arp[d + 1]
  <2>1. arp[d + 1] \in Hosts
    BY <1>2, <1>3
  <2> QED BY <2>1, ProbeResultType DEF R, Probes
<1>5. b \in Seq(Result) /\ Len(b) = 1 /\ b[1] = e /\ results' = results \o b
  BY <1>1, <1>2, <1>4, AppendIsConcat
<1>6. d = Num("netbios")
  BY <1>1 DEF NumInv, Tried, Working
<1>7. \A k \in 1..Len(b) : b[k].probe = "netbios" /\ Follows(b[k], d + k)'
  <2>1. d + 1 \in DOMAIN arp' /\ e.target = arp'[d + 1]
    BY <1>1, <1>3, <1>4
  <2>2. Follows(e, d + 1)'
    BY <1>4, <2>1 DEF Follows
  <2> QED BY <1>4, <1>5, <2>2
<1> HIDE DEF b
<1>8. /\ Num("netbios")' = Num("netbios") + 1
      /\ \A q : q # "netbios" => Num(q)' = Num(q)
      /\ ResultsFollowHosts'
  BY <1>1, <1>2, <1>5, <1>6, <1>7, RowsKept, FollowAdds DEF RecordInv
<1>9. NumInv'
  <2>1. /\ Num("icmp")' = Num("icmp") /\ Num("icmp-sweep")' = Num("icmp-sweep")
        /\ Num("tcp")' = Num("tcp") /\ Num("arp")' = Num("arp")
    BY <1>8
  <2>2. Num("netbios")' = Tried("netbios", Len(arp))'
    BY <1>1, <1>2, <1>6, <1>8 DEF Tried, Working
  <2>3. /\ Tried("icmp", Len(arp))' = Tried("icmp", Len(arp))
        /\ Tried("tcp", Len(hosts))' = Tried("tcp", Len(hosts))
        /\ HostsKnown' = HostsKnown
    BY <1>1 DEF Tried, Passed, Earlier, Working, HostsKnown
  <2> QED BY <1>1, <2>1, <2>2, <2>3 DEF NumInv
<1>10. PlaceInv'
  BY <1>1 DEF PlaceInv, HostsKnown, Passed, Earlier
<1> QED BY <1>1, <1>8, <1>9, <1>10 DEF RecordInv, CompletedScanIsWhole, StatusInv

LEMMA RecordAnswers ==
    ASSUME TypeOK, StatusInv, RecordInv, NEW n \in 0..MaxServices, QueryAnswered(n)
    PROVE  RecordInv'
<1> PICK p : p = stage
  OBVIOUS
<1> DEFINE b == Answers(p, n)
<1>1. /\ results' = results \o b /\ arp' = arp /\ hosts' = hosts /\ request' = request
      /\ pc = "query" /\ pc' = "finish" /\ stage = p /\ stage' = p /\ p \in Queries
      /\ status' = status /\ done' = done /\ PlaceInv /\ NumInv
  BY DEF QueryAnswered, RecordInv, workers
<1>2. results \in Seq(Result) /\ n \in Nat /\ p \in Probes
  BY BoundsAssumption DEF TypeOK
<1>3. b \in Seq(Result) /\ Len(b) = n
  BY <1>2, AnswersType
<1>4. \A k \in 1..Len(b) : b[k].probe = p
  BY <1>3 DEF Answers, R
<1> HIDE DEF b
<1> PICK c : c = Num(p)
  OBVIOUS
<1>5. \A k \in 1..Len(b) : Follows(b[k], c + k)'
  BY <1>1, <1>4 DEF Follows, Queries
<1>6. /\ \A q : q # p => Num(q)' = Num(q)
      /\ ResultsFollowHosts'
  BY <1>1, <1>2, <1>3, <1>4, <1>5, RowsKept, FollowAdds DEF RecordInv
<1>7. NumInv'
  <2>1. /\ Num("icmp")' = Num("icmp") /\ Num("icmp-sweep")' = Num("icmp-sweep")
        /\ Num("tcp")' = Num("tcp") /\ Num("arp")' = Num("arp")
        /\ Num("netbios")' = Num("netbios")
    BY <1>1, <1>6 DEF Queries
  <2>2. /\ Tried("icmp", Len(arp))' = Tried("icmp", Len(arp))
        /\ Tried("tcp", Len(hosts))' = Tried("tcp", Len(hosts))
        /\ Tried("netbios", Len(arp))' = Tried("netbios", Len(arp))
        /\ HostsKnown' = HostsKnown
    BY <1>1 DEF Tried, Passed, Earlier, Working, HostsKnown, Queries
  <2> QED BY <1>1, <2>1, <2>2 DEF NumInv, Queries
<1>8. PlaceInv'
  BY <1>1 DEF PlaceInv, HostsKnown, Passed, Earlier, Queries
<1> QED BY <1>1, <1>6, <1>7, <1>8 DEF RecordInv, CompletedScanIsWhole, StatusInv, Queries

\* A collected worker is the next one in host order.
LEMMA RecordPing ==
    ASSUME TypeOK, WorkerInv, StatusInv, RecordInv, Collect, stage = "icmp"
    PROVE  RecordInv'
<1> PICK d : d = done
  OBVIOUS
<1> PICK h : h = arp[d + 1]
  OBVIOUS
<1> PICK e : e = R("icmp", h)
  OBVIOUS
<1> DEFINE b == <<e>>
<1>1. /\ results' = Append(results, e) /\ hosts' = Append(hosts, h) /\ arp' = arp
      /\ request' = request /\ pc = "collect" /\ pc' \in {"chunk", "collect"} /\ stage' = "icmp"
      /\ status' = status /\ done' = d + 1 /\ PlaceInv /\ NumInv
  BY DEF Collect, RecordInv, Targets
<1>2. results \in Seq(Result) /\ hosts \in Seq(Hosts) /\ arp \in Seq(Hosts) /\ d \in Nat
  BY DEF TypeOK
<1>3. Len(arp) \in Nat /\ DOMAIN arp = 1..Len(arp) /\ d + 1 \in 1..Len(arp)
  <2>1. Len(arp) \in Nat /\ DOMAIN arp = 1..Len(arp)
    BY <1>2, LenProperties
  <2>2. done < launched /\ launched = chunkEnd /\ chunkEnd <= Len(arp) /\ launched \in Nat
    BY <1>1 DEF WorkerInv, TypeOK, Targets
  <2> QED BY <1>2, <2>1, <2>2
<1>4. h \in Hosts /\ e \in Result /\ e.probe = "icmp" /\ e.target = h
  <2>1. arp[d + 1] \in Hosts
    BY <1>2, <1>3
  <2> QED BY <2>1, ProbeResultType DEF R, Probes
<1>5. b \in Seq(Result) /\ Len(b) = 1 /\ b[1] = e /\ results' = results \o b
  BY <1>1, <1>2, <1>4, AppendIsConcat
<1>6. d = Num("icmp") /\ Len(hosts) = d /\ \A i \in 1..d : hosts[i] = arp[i]
  BY <1>1 DEF NumInv, PlaceInv, Tried, Working
<1>7. /\ hosts' \in Seq(Hosts) /\ Len(hosts') = d + 1
      /\ \A i \in 1..d : hosts'[i] = hosts[i]
      /\ hosts'[d + 1] = h
  BY <1>1, <1>2, <1>4, <1>6, AppendProperties
<1>8. HostsGrow
  BY <1>2, <1>6, <1>7 DEF HostsGrow
<1>9. \A k \in 1..Len(b) : b[k].probe = "icmp" /\ Follows(b[k], d + k)'
  <2>1. d + 1 \in DOMAIN arp' /\ e.target = arp'[d + 1]
    BY <1>1, <1>3, <1>4
  <2>2. Follows(e, d + 1)'
    BY <1>4, <2>1 DEF Follows
  <2> QED BY <1>4, <1>5, <2>2
<1> HIDE DEF b
<1>10. /\ Num("icmp")' = Num("icmp") + 1
       /\ \A q : q # "icmp" => Num(q)' = Num(q)
       /\ ResultsFollowHosts'
  BY <1>1, <1>2, <1>5, <1>6, <1>8, <1>9, FollowAdds DEF RecordInv
<1>11. NumInv'
  <2>1. /\ Num("netbios")' = Num("netbios") /\ Num("icmp-sweep")' = Num("icmp-sweep")
        /\ Num("tcp")' = Num("tcp") /\ Num("arp")' = Num("arp")
    BY <1>10
  <2>2. Num("icmp")' = Tried("icmp", Len(arp))'
    BY <1>1, <1>2, <1>6, <1>10 DEF Tried, Working
  <2>3. /\ Tried("netbios", Len(arp))' = Tried("netbios", Len(arp))
        /\ Tried("tcp", Len(hosts))' = 0 /\ Tried("tcp", Len(hosts)) = 0
        /\ ~HostsKnown' /\ ~HostsKnown
    BY <1>1 DEF Tried, Passed, Earlier, Working, HostsKnown
  <2> QED BY <1>1, <2>1, <2>2, <2>3 DEF NumInv
<1>12. PlaceInv'
  <2>1. \A i \in 1..(d + 1) : i \in 1..d \/ i = d + 1
    BY <1>2
  <2>2. \A i \in 1..(d + 1) : hosts'[i] = arp[i]
    BY <1>6, <1>7, <2>1
  <2> QED BY <1>1, <1>7, <2>2 DEF PlaceInv, HostsKnown, Passed, Earlier
<1> QED BY <1>1, <1>10, <1>11, <1>12 DEF RecordInv, CompletedScanIsWhole, StatusInv

LEMMA RecordPorts ==
    ASSUME TypeOK, WorkerInv, StatusInv, RecordInv, Collect, stage # "icmp"
    PROVE  RecordInv'
<1> PICK d : d = done
  OBVIOUS
<1> PICK h : h = hosts[d + 1]
  OBVIOUS
<1> DEFINE b == PortResults(h)
           P == Len(Ports)
<1>1. /\ results' = results \o b /\ hosts' = hosts /\ arp' = arp
      /\ request' = request /\ pc = "collect" /\ pc' \in {"chunk", "collect"}
      /\ stage = "tcp" /\ stage' = "tcp"
      /\ status' = status /\ done' = d + 1 /\ PlaceInv /\ NumInv
  BY DEF Collect, RecordInv, Targets, WorkerInv, Pooled
<1>2. results \in Seq(Result) /\ hosts \in Seq(Hosts) /\ arp \in Seq(Hosts) /\ d \in Nat
  BY DEF TypeOK
<1>3. DOMAIN hosts = 1..Len(hosts) /\ d + 1 \in 1..Len(hosts)
  <2>1. Len(hosts) \in Nat /\ DOMAIN hosts = 1..Len(hosts)
    BY <1>2, LenProperties
  <2>2. done < launched /\ launched = chunkEnd /\ chunkEnd <= Len(hosts) /\ launched \in Nat
    BY <1>1 DEF WorkerInv, TypeOK, Targets
  <2> QED BY <1>2, <2>1, <2>2
<1>4. h \in Hosts /\ b \in Seq(Result) /\ Len(b) = P /\ P \in Nat /\ DOMAIN Ports = 1..P
  <2>1. hosts[d + 1] \in Hosts
    BY <1>2, <1>3
  <2> QED BY <2>1, PortResultsType, PortsAssumption, LenProperties
<1>5. Num("tcp") = d * P
  BY <1>1 DEF NumInv, Tried, Working
<1>6. \A k \in 1..Len(b) : b[k].probe = "tcp"
  BY <1>4 DEF PortResults
<1> PICK c : c = d * P
  OBVIOUS
<1>7. \A k \in 1..Len(b) : Follows(b[k], c + k)'
  <2> TAKE k \in 1..Len(b)
  <2>1. d + 1 \in DOMAIN hosts' /\ k \in DOMAIN Ports /\ b[k] = PortResults(hosts'[d + 1])[k]
    BY <1>1, <1>3, <1>4
  <2>2. c + k = ((d + 1) - 1) * P + k
    <3>1. (d + 1) - 1 = d
      BY <1>2
    <3> QED BY <3>1
  <2>3. b[k].probe = "tcp"
    BY <1>6
  <2> HIDE DEF b
  <2>4. \E hh \in DOMAIN hosts', q \in DOMAIN Ports :
            c + k = (hh - 1) * Len(Ports) + q /\ b[k] = PortResults(hosts'[hh])[q]
    BY <2>1, <2>2
  <2> QED BY <2>3, <2>4 DEF Follows
<1> HIDE DEF b, P
<1>8. /\ Num("tcp")' = Num("tcp") + Len(b)
      /\ \A q : q # "tcp" => Num(q)' = Num(q)
      /\ ResultsFollowHosts'
  BY <1>1, <1>2, <1>4, <1>5, <1>6, <1>7, RowsKept, FollowAdds DEF RecordInv
<1>9. d * P + P = (d + 1) * P
  BY <1>2, <1>4
<1>10. NumInv'
  <2>1. /\ Num("netbios")' = Num("netbios") /\ Num("icmp-sweep")' = Num("icmp-sweep")
        /\ Num("icmp")' = Num("icmp") /\ Num("arp")' = Num("arp")
    BY <1>8
  <2>2. Tried("tcp", Len(hosts))' = d + 1
    BY <1>1 DEF Tried, Working
  <2>3. Num("tcp")' = Tried("tcp", Len(hosts))' * Len(Ports)
    BY <1>4, <1>5, <1>8, <1>9, <2>2 DEF P
  <2>4. /\ Tried("netbios", Len(arp))' = Tried("netbios", Len(arp))
        /\ Tried("icmp", Len(arp))' = Tried("icmp", Len(arp))
        /\ HostsKnown' /\ HostsKnown
    BY <1>1 DEF Tried, Passed, Earlier, Working, HostsKnown
  <2> QED BY <1>1, <2>1, <2>3, <2>4 DEF NumInv
<1>11. PlaceInv'
  BY <1>1 DEF PlaceInv, HostsKnown, Passed, Earlier
<1> QED BY <1>1, <1>8, <1>10, <1>11 DEF RecordInv, CompletedScanIsWhole, StatusInv

LEMMA RecordStep ==
    ASSUME TypeOK, WorkerInv, IdxInv, StatusInv, RecordInv, [Next]_vars PROVE RecordInv'
<1>1. CASE Refuse \/ HaltAtGate \/ HaltAtChunk \/ Halt \/ ArpFail
  BY <1>1, RecordEnd
<1>2. CASE StartSession \/ BeginStage
  BY <1>2, RecordStart
<1>3. CASE SkipStage /\ stage = "icmp"
  BY <1>3, RecordSkip
<1>4. CASE (SkipStage /\ stage # "icmp") \/ FinishStage \/ PassGate \/ PassLastGate \/ QueryFail
  BY <1>4, RecordLeave
<1>5. CASE Complete
  BY <1>5, RecordComplete
<1>6. ASSUME NEW rows \in SeqOf(Hosts, MaxHosts), ArpRows(rows) PROVE RecordInv'
  BY <1>6, RecordArp
<1>7. CASE BeginChunk \/ Launch \/ EndChunks \/ SweepFail \/ EndResolve
  BY <1>7, RecordWork
<1>8. CASE Collect
  BY <1>8, RecordPing, RecordPorts
<1>9. ASSUME NEW fresh \in SeqOf(Hosts \ ToSet(hosts), MaxHosts), Sweep(fresh) PROVE RecordInv'
  <2>1. fresh \in Seq(Hosts)
    BY RowsType, BoundsAssumption
  <2> QED BY <1>9, <2>1, RecordSweep
<1>10. CASE Resolve
  BY <1>10, RecordResolve
<1>11. ASSUME NEW n \in 0..MaxServices, QueryAnswered(n) PROVE RecordInv'
  BY <1>11, RecordAnswers
<1>12. ASSUME WorkerStep \/ Caller \/ Returned \/ UNCHANGED vars PROVE RecordInv'
  <2>1. UNCHANGED <<control, done, arp, hosts, results>>
    BY <1>12 DEF WorkerStep, WorkerReady, Caller, RequestCancel, RequestPause, Returned, vars, workers
  <2> QED BY <2>1, RecordSame
<1> QED
  BY <1>1, <1>2, <1>3, <1>4, <1>5, <1>6, <1>7, <1>8, <1>9, <1>10, <1>11, <1>12
  DEF Next, Orchestrate

-----------------------------------------------------------------------------
(* The theorems.                                                           *)

Inv == TypeOK /\ WorkerInv /\ IdxInv /\ LateInv /\ StatusInv

LEMMA InvInit == Init => Inv
BY TypeInit, WorkerInit, IdxInit, LateInit, StatusInit DEF Inv

LEMMA InvStep == Inv /\ [Next]_vars => Inv'
BY TypeStep, WorkerInvStep, IdxStep, LateStep, StatusStep DEF Inv

LEMMA Invariance == Spec => []Inv
BY InvInit, InvStep, PTL DEF Spec

\* Every variable of a scan session keeps its type: all results and events
\* run_scan_session produces name known probes, hosts and stages.
THEOREM TypeCorrect == Spec => []TypeOK
<1>1. Inv => TypeOK
  BY DEF Inv
<1> QED BY <1>1, Invariance, PTL

\* No progress event names a stage index above the total announced with it,
\* whichever stages are enabled and whichever of them fail.
THEOREM StageIndexBound == Spec => []StageIndexInRange
<1>1. Inv /\ StageIndexInRange /\ [Next]_vars => StageIndexInRange'
  BY RangeStep DEF Inv
<1> QED BY <1>1, RangeInit, Invariance, PTL DEF Spec

LEMMA EventsInvariance == Spec => [](StageIndexInRange /\ EventInv)
<1>1. Inv /\ StageIndexInRange /\ EventInv /\ [Next]_vars => EventInv'
  BY EventStep DEF Inv
<1> QED BY <1>1, EventInit, StageIndexBound, Invariance, PTL DEF Spec

\* The index reported with the progress never goes back, whichever stages
\* are skipped and whichever queries fail without counting their stage.
THEOREM GaugeIsMonotonic == Spec => []GaugeNeverMovesBack
<1>1. EventInv => GaugeNeverMovesBack
  BY DEF EventInv
<1> QED BY <1>1, EventsInvariance, PTL

\* Two stages share an index only where an SSDP query failed before SNMP.
THEOREM StagesHaveTheirIndex == Spec => []StagesDistinguished
<1>1. EventInv => StagesDistinguished
  BY DEF EventInv
<1> QED BY <1>1, EventsInvariance, PTL

\* Host results, completions and failures are reported between the start and
\* the end of their own stage, in whatever order the workers finish.
THEOREM EventsInOrder == Spec => []EventsInsideTheirStage
<1>1. EventInv => EventsInsideTheirStage
  BY DEF EventInv
<1> QED BY <1>1, EventsInvariance, PTL

LEMMA RecordInvariance == Spec => []RecordInv
<1>1. Inv /\ RecordInv /\ [Next]_vars => RecordInv'
  BY RecordStep DEF Inv
<1> QED BY <1>1, RecordInit, Invariance, PTL DEF Spec

\* Although the workers of a chunk finish in any order, every result has the
\* place its host has: no address is probed twice, left out or overtaken.
THEOREM ResultsInHostOrder == Spec => []ResultsFollowHosts
<1>1. RecordInv => ResultsFollowHosts
  BY DEF RecordInv
<1> QED BY <1>1, RecordInvariance, PTL

\* A session that reports itself completed has tried every host it knows in
\* every enabled stage, those the sweep found included.
THEOREM CompletedMeansWhole == Spec => []CompletedScanIsWhole
<1>1. RecordInv => CompletedScanIsWhole
  BY DEF RecordInv
<1> QED BY <1>1, RecordInvariance, PTL

\* max_concurrency bounds the workers alive, and at every halt check and at
\* the return of the call all of them have been joined and recorded.
THEOREM WorkersJoined == Spec => []WorkersBounded
<1>1. Inv => WorkersBounded
  <2> SUFFICES ASSUME Inv PROVE WorkersBounded
    OBVIOUS
  <2>1. launched - done <= MaxConcurrency
    <3>1. CASE pc \in {"launch", "collect"}
      BY <3>1, ConcurrencyAssumption DEF Inv, WorkerInv, TypeOK
    <3>2. CASE pc \notin {"launch", "collect"} /\ stage \in Pooled
      BY <3>2, ConcurrencyAssumption DEF Inv, WorkerInv, TypeOK
    <3>3. CASE stage \notin Pooled
      BY <3>3, ConcurrencyAssumption DEF Inv, WorkerInv, TypeOK
    <3> QED BY <3>1, <3>2, <3>3
  <2>2. ASSUME pc \notin {"launch", "collect"}, stage \in Pooled
        PROVE  launched = done /\ ready = {}
    BY <2>2 DEF Inv, WorkerInv, TypeOK
  <2> QED BY <2>1, <2>2 DEF WorkersBounded, Pooled
<1> QED BY <1>1, Invariance, PTL

\* However a stop request falls between the steps of the orchestrator, the
\* work begun after it is bounded by one chunk and the sweep, one NetBIOS
\* loop, or three queries.
THEOREM LateWorkBound == Spec => []LateWorkBounded
<1>1. Inv => LateWorkBounded
  BY DEF Inv, LateInv
<1> QED BY <1>1, Invariance, PTL

-----------------------------------------------------------------------------
(* ScanSession implements the safety part of ScanLifecycle.                *)

Stutter == UNCHANGED Lifecycle!avars

LEMMA LifecycleInit == Init => Lifecycle!Init
BY EmptySeq DEF Init, Outcome, Lifecycle!Init

\* Results are only ever added, and only while the session runs.
LEMMA LifecycleAdd ==
    ASSUME Inv, NEW new \in Seq(Result), results' = results \o new,
           cancel' = cancel, pause' = pause, Outcome = "running", Outcome' = Outcome
    PROVE  Lifecycle!Deliver \/ Stutter
<1>1. results \in Seq(Result)
  BY DEF Inv, TypeOK
<1>2. Len(results \o new) = Len(results) + Len(new) /\ Len(results) \in Nat /\ Len(new) \in Nat
  BY <1>1, ConcatProperties, LenProperties
<1>3. Len(results') = Len(results) + Len(new)
  BY <1>2
<1>4. CASE Len(new) = 0
  BY <1>2, <1>3, <1>4 DEF Stutter, Lifecycle!avars
<1>5. CASE Len(new) # 0
  BY <1>2, <1>3, <1>5 DEF Lifecycle!Deliver
<1> QED BY <1>4, <1>5

LEMMA LifecycleStep ==
    Inv /\ Inv' /\ [Next]_vars => [Lifecycle!Next]_(Lifecycle!avars)
<1> SUFFICES ASSUME Inv, Inv', [Next]_vars PROVE Lifecycle!Next \/ Stutter
  BY DEF Stutter
<1> USE DEF control, workers, asked
<1>0. /\ pc = "validate" => Outcome = "none"
      /\ pc \notin {"validate", "complete", "ended"} => Outcome = "running"
      /\ pc' \notin {"complete"} => Outcome' = status'
  BY DEF Outcome, Inv, StatusInv
<1>1. ASSUME results' = results, cancel' = cancel, pause' = pause, Outcome' = Outcome
      PROVE  Stutter
  BY <1>1 DEF Stutter, Lifecycle!avars
<1>2. ASSUME NEW new \in Seq(Result), results' = results \o new,
             cancel' = cancel, pause' = pause, Outcome = "running", Outcome' = Outcome
      PROVE  Lifecycle!Next \/ Stutter
  BY <1>2, LifecycleAdd DEF Lifecycle!Next
<1>3. CASE Refuse
  BY <1>0, <1>3 DEF Refuse, Inv, StatusInv, Lifecycle!Reject, Lifecycle!Next
<1>4. CASE StartSession
  BY <1>0, <1>4 DEF StartSession, Acceptable, ShouldHalt, Inv, StatusInv, Lifecycle!Accept, Lifecycle!Next
<1>5. CASE Halt
  BY <1>0, <1>5 DEF Halt, HaltStatus, ShouldHalt, Inv, StatusInv, Lifecycle!Halt, Lifecycle!End,
     Lifecycle!Next
<1>6. CASE HaltAtGate \/ HaltAtChunk \/ Complete
  BY <1>0, <1>1, <1>6 DEF HaltAtGate, HaltAtChunk, MustHalt, Complete, Outcome, Inv, StatusInv
<1>7. CASE PassLastGate
  BY <1>0, <1>7 DEF PassLastGate, ShouldHalt, Outcome, Lifecycle!Complete, Lifecycle!End,
     Lifecycle!Next
<1>8. CASE ArpFail
  BY <1>0, <1>8, EmptySeq DEF ArpFail, Inv, StatusInv, Lifecycle!Fail, Lifecycle!End, Lifecycle!Next
<1>9. ASSUME NEW rows \in SeqOf(Hosts, MaxHosts), ArpRows(rows)
      PROVE  Lifecycle!Next \/ Stutter
  <2>1. RowResults("arp", rows) \in Seq(Result)
    BY RowsType, BoundsAssumption, RowResultsType DEF Probes
  <2> QED BY <1>0, <1>2, <1>9, <2>1 DEF ArpRows, Inv, StatusInv
<1>10. ASSUME NEW fresh \in SeqOf(Hosts \ ToSet(hosts), MaxHosts), Sweep(fresh)
       PROVE  Lifecycle!Next \/ Stutter
  <2>1. fresh \in Seq(Hosts)
    BY RowsType, BoundsAssumption
  <2>2. RowResults("icmp-sweep", fresh) \in Seq(Result)
    BY <2>1, RowResultsType
  <2> QED BY <1>0, <1>2, <1>10, <2>2 DEF Sweep, Inv, StatusInv
<1>11. ASSUME NEW n \in 0..MaxServices, QueryAnswered(n) PROVE Lifecycle!Next \/ Stutter
  <2>1. Answers(stage, n) \in Seq(Result)
    BY AnswersType, BoundsAssumption DEF Inv, TypeOK
  <2> QED BY <1>0, <1>2, <1>11, <2>1 DEF QueryAnswered, Inv, StatusInv
<1>12. ASSUME NEW e \in Result, results' = Append(results, e),
              cancel' = cancel, pause' = pause, Outcome = "running", Outcome' = Outcome
       PROVE  Lifecycle!Next \/ Stutter
  <2>1. <<e>> \in Seq(Result) /\ results' = results \o <<e>>
    BY <1>12, AppendIsConcat DEF Inv, TypeOK
  <2> QED BY <1>2, <1>12, <2>1
<1>13. CASE Collect
  <2> DEFINE h == Targets[done + 1]
  <2>1. h \in Hosts
    BY <1>13, LenProperties, ElementOfSeq DEF Collect, Inv, TypeOK, WorkerInv, Targets
  <2>2. Outcome = "running" /\ Outcome' = Outcome /\ cancel' = cancel /\ pause' = pause
    BY <1>0, <1>13 DEF Collect, Inv, StatusInv
  <2>3. CASE stage = "icmp"
    <3>1. results' = Append(results, R("icmp", h))
      BY <1>13, <2>3 DEF Collect
    <3>2. R("icmp", h) \in Result
      BY <2>1, ProbeResultType DEF Probes
    <3> QED BY <1>12, <2>2, <3>1, <3>2
  <2>4. CASE stage # "icmp"
    <3>1. results' = results \o PortResults(h)
      BY <1>13, <2>4 DEF Collect
    <3> QED BY <1>2, <2>1, <2>2, <3>1, PortResultsType
  <2> QED BY <2>3, <2>4
<1>14. CASE Resolve
  <2>1. R("netbios", arp[done + 1]) \in Result
    BY <1>14, ProbeResultType, LenProperties DEF Resolve, Probes, Inv, TypeOK
  <2> QED BY <1>0, <1>12, <1>14, <2>1 DEF Resolve, Inv, StatusInv
<1>15. CASE BeginStage \/ SkipStage \/ FinishStage \/ PassGate
  BY <1>0, <1>1, <1>15 DEF BeginStage, SkipStage, FinishStage, PassGate, Leave, Inv, StatusInv
<1>16. CASE BeginChunk \/ Launch \/ EndChunks \/ SweepFail \/ EndResolve \/ QueryFail
  BY <1>0, <1>1, <1>16 DEF BeginChunk, Launch, EndChunks, SweepFail, EndResolve, QueryFail, Leave,
     Inv, StatusInv
<1>17. CASE WorkerStep
  BY <1>1, <1>17 DEF WorkerStep, WorkerReady, Outcome
<1>18. CASE Caller
  BY <1>18 DEF Caller, RequestCancel, RequestPause, Outcome, Lifecycle!Ask, Lifecycle!Next
<1>19. CASE Returned \/ UNCHANGED vars
  BY <1>1, <1>19 DEF Returned, vars, Outcome
<1> QED
  BY <1>3, <1>4, <1>5, <1>6, <1>7, <1>8, <1>9, <1>10, <1>11, <1>13, <1>14, <1>15, <1>16,
     <1>17, <1>18, <1>19 DEF Next, Orchestrate

\* run_scan_session implements what ScanLifecycle promises its caller: one
\* outcome, honest about the stop requests made, and no results ever lost.
THEOREM LifecycleSafety == Spec => Lifecycle!SafetySpec
<1>1. Inv /\ Inv' /\ [Next]_vars => [Lifecycle!Next]_(Lifecycle!avars)
  BY LifecycleStep
<1> QED BY <1>1, LifecycleInit, Invariance, PTL DEF Spec, Lifecycle!SafetySpec

=============================================================================
