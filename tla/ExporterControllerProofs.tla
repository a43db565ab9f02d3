---------------------- MODULE ExporterControllerProofs ----------------------
(***************************************************************************)
(* Proofs about ExporterController for every value of its constants.       *)
(***************************************************************************)
EXTENDS ExporterController, TLAPS

-----------------------------------------------------------------------------
(* Types *)

(* The objects that everything starts with are well typed. *)
LEMMA NewType ==
  /\ NewExporter \in Status
  /\ NewLease \in LeaseView
  /\ NoJob \in [pc : {"idle", "read", "computed"}, base : Status, obj : Status,
               after : (Nat \ {0}) \cup {None}]
  /\ NoCall \in [pc : {"idle", "read"}, base : Status, obj : Status]
<1>1. NewExporter \in Status
  BY DEF NewExporter, Status, Condition
<1>2. NewLease \in LeaseView
  BY DEF NewLease, LeaseView
<1>. QED BY <1>1, <1>2 DEF NoJob, NoCall

(* A merge patch of a status is a status. *)
LEMMA MergeType ==
  ASSUME exporter \in Status, NEW base \in Status, NEW obj \in Status
  PROVE  Merge(base, obj) \in Status
BY DEF Merge, Field, Status

(* The copy of an RPC is well typed. *)
LEMMA DevicesType ==
  ASSUME NEW d \in BOOLEAN
  PROVE  Devices(d) \in Status
BY NewType DEF Devices, Status

(* RPCs of the exporter keep the state well typed. *)
LEMMA CallsType ==
  ASSUME TypeOK,
         \/ \E d \in BOOLEAN : Register(d)
         \/ Unregister \/ PatchDevices \/ CallBreaks
         \/ \E t \in 0..now : Heartbeat(t)
  PROVE  TypeOK'
<1>1. ASSUME NEW d \in BOOLEAN, Register(d)
      PROVE  TypeOK'
  <2>1. ReadAndSet(d) \in [pc : {"idle", "read"}, base : Status, obj : Status]
    BY DevicesType DEF ReadAndSet, TypeOK, Status
  <2>2. calls' \in 0..MaxCalls
    BY <1>1, ExporterBounds DEF Register, TypeOK
  <2>. QED BY <1>1, <2>1, <2>2 DEF Register, TypeOK
<1>2. CASE Unregister
  <2>1. ReadAndSet(FALSE) \in [pc : {"idle", "read"}, base : Status, obj : Status]
    BY DevicesType DEF ReadAndSet, TypeOK, Status
  <2>2. calls' \in 0..MaxCalls
    BY <1>2, ExporterBounds DEF Unregister, TypeOK
  <2>. QED BY <1>2, <2>1, <2>2 DEF Unregister, TypeOK
<1>3. CASE PatchDevices
  <2>1. Merge(call.base, call.obj) \in Status
    BY MergeType DEF TypeOK
  <2>. QED BY <1>3, <2>1, NewType DEF PatchDevices, StoreExporter, TypeOK
<1>4. CASE CallBreaks
  BY <1>4, NewType DEF CallBreaks, TypeOK
<1>5. ASSUME NEW t \in 0..now, Heartbeat(t)
      PROVE  TypeOK'
  <2>1. [exporter EXCEPT !.lastSeen = t] \in Status
    BY DEF TypeOK, Status
  <2>. QED BY <1>5, <2>1 DEF Heartbeat, StoreExporter, TypeOK
<1>. QED BY <1>1, <1>2, <1>3, <1>4, <1>5

(* The lease reconciler's writes keep the state well typed. *)
LEMMA LeasesType ==
  ASSUME TypeOK, NEW l \in Leases,
         AssignLease(l) \/ EndLease(l) \/ WriteMetadata(l) \/ DeliverLease(l)
  PROVE  TypeOK'
<1>0. lease[l] \in LeaseView /\ lease[l] = [assigned |-> lease[l].assigned,
        ended |-> lease[l].ended, label |-> lease[l].label, owned |-> lease[l].owned]
  BY DEF TypeOK, LeaseView
<1>1. CASE AssignLease(l)
  <2>1. [lease[l] EXCEPT !.assigned = TRUE] \in LeaseView
    BY <1>0 DEF LeaseView
  <2>2. calls' \in 0..MaxCalls
    BY <1>1, ExporterBounds DEF AssignLease, TypeOK
  <2>. QED BY <1>1, <2>1, <2>2 DEF AssignLease, StoreLease, TypeOK
<1>2. CASE EndLease(l)
  <2>1. [lease[l] EXCEPT !.ended = TRUE] \in LeaseView
    BY <1>0 DEF LeaseView
  <2>2. calls' \in 0..MaxCalls
    BY <1>2, ExporterBounds DEF EndLease, TypeOK
  <2>. QED BY <1>2, <2>1, <2>2 DEF EndLease, StoreLease, TypeOK
<1>3. CASE WriteMetadata(l)
  <2>1. [lease[l] EXCEPT !.owned = lease[l].assigned, !.label = lease[l].ended] \in LeaseView
    BY <1>0 DEF LeaseView
  <2>. QED BY <1>3, <2>1 DEF WriteMetadata, StoreLease, TypeOK
<1>4. CASE DeliverLease(l)
  <2>1. queued' \in BOOLEAN
    BY <1>4 DEF DeliverLease
  <2>. QED BY <1>0, <1>4, <2>1 DEF DeliverLease, TypeOK
<1>. QED BY <1>1, <1>2, <1>3, <1>4

(* Clock, informer and timer keep the state well typed. *)
LEMMA WorldType ==
  ASSUME TypeOK, Tick \/ DeliverExporter \/ TimerFires
  PROVE  TypeOK'
<1>1. CASE Tick
  BY <1>1, ExporterBounds DEF Tick, TypeOK
<1>2. CASE DeliverExporter
  BY <1>2 DEF DeliverExporter, TypeOK
<1>3. CASE TimerFires
  BY <1>3 DEF TimerFires, TypeOK
<1>. QED BY <1>1, <1>2, <1>3

(* What ComputeStatus makes of the job. *)
LEMMA ComputedJob ==
  ASSUME TypeOK, ComputeStatus
  PROVE  /\ job' \in [pc : {"computed"}, base : Status, obj : Status,
                      after : (Nat \ {0}) \cup {None}]
         /\ job'.base = job.base
         /\ job'.obj.lastSeen = job.obj.lastSeen /\ job'.obj.devices = job.obj.devices
         /\ job'.obj.conds.online = "True" => job'.after # None
<1>1. PICK ref \in LeaseRefs :
        job' = [job EXCEPT !.pc = "computed", !.after = Requeue(job.obj),
                 !.obj.credential = TRUE,
                 !.obj.leaseRef = ref,
                 !.obj.conds = [online |-> IF Online(job.obj) THEN "True" ELSE "False",
                                registered |-> Registered(job.obj)]]
  BY DEF ComputeStatus
<1>2. ref \in Leases \cup {None}
  BY DEF LeaseRefs, Active
<1>3. Registered(job.obj) \in Condition /\ "True" \in Condition /\ "False" \in Condition
  BY DEF Registered, Condition
<1>4. /\ Requeue(job.obj) \in (Nat \ {0}) \cup {None}
      /\ Online(job.obj) => Requeue(job.obj) # None
  BY TimesAssumption, NoneIsNoName DEF Requeue
<1>5. job.obj \in Status /\ job.base \in Status
  BY DEF TypeOK
<1>. DEFINE conds == [online |-> IF Online(job.obj) THEN "True" ELSE "False",
                      registered |-> Registered(job.obj)]
            obj == [job.obj EXCEPT !.credential = TRUE, !.leaseRef = ref, !.conds = conds]
<1>6. conds \in [online : Condition, registered : Condition]
  BY <1>3
<1>7. /\ obj \in Status /\ obj.conds = conds
      /\ obj.lastSeen = job.obj.lastSeen /\ obj.devices = job.obj.devices
  BY <1>2, <1>5, <1>6 DEF Status
<1>8. job' = [job EXCEPT !.pc = "computed", !.after = Requeue(job.obj), !.obj = obj]
  BY <1>1 DEF TypeOK, Status
<1>9. job'.obj = obj /\ job'.base = job.base /\ job'.after = Requeue(job.obj)
  BY <1>8 DEF TypeOK
<1>10. job' \in [pc : {"computed"}, base : Status, obj : Status,
                 after : (Nat \ {0}) \cup {None}]
  BY <1>4, <1>7, <1>8 DEF TypeOK
<1>. QED BY <1>4, <1>7, <1>9, <1>10

(* The reconciler keeps the state well typed. *)
LEMMA ReconcileType ==
  ASSUME TypeOK, Reconcile \/ CallFails \/ Restart
  PROVE  TypeOK'
<1>1. CASE GetExporter
  <2>1. job' \in [pc : {"idle", "read", "computed"}, base : Status, obj : Status,
                  after : (Nat \ {0}) \cup {None}]
    BY <1>1, NewType DEF GetExporter, TypeOK
  <2>. QED BY <1>1, <2>1 DEF GetExporter, TypeOK
<1>2. CASE ComputeStatus
  BY <1>2, ComputedJob DEF ComputeStatus, TypeOK
<1>3. CASE PatchStatus
  <2>1. Merge(job.base, job.obj) \in Status
    BY MergeType DEF TypeOK
  <2>2. timer' \in Nat \cup {None}
    BY <1>3, NoneIsNoName DEF PatchStatus, TypeOK
  <2>. QED BY <1>3, <2>1, <2>2, NewType DEF PatchStatus, StoreExporter, TypeOK
<1>4. CASE CallFails
  BY <1>4, NewType, ExporterBounds DEF CallFails, TypeOK
<1>5. CASE Restart
  <2>1. faults' \in 0..MaxFaults
    BY <1>5, ExporterBounds DEF Restart, TypeOK
  <2>. QED BY <1>5, <2>1, NewType DEF Restart, TypeOK
<1>. QED BY <1>1, <1>2, <1>3, <1>4, <1>5 DEF Reconcile

(* Every step keeps the state well typed. *)
LEMMA NextType == TypeOK /\ [Next]_vars => TypeOK'
<1>. SUFFICES ASSUME TypeOK, [Next]_vars PROVE TypeOK'
  OBVIOUS
<1>1. CASE UNCHANGED vars
  BY <1>1 DEF vars, TypeOK
<1>. QED BY <1>1, CallsType, LeasesType, WorldType, ReconcileType DEF Next

(* The initial state is well typed. *)
LEMMA InitType == Init => TypeOK
<1>. SUFFICES ASSUME Init PROVE TypeOK
  OBVIOUS
<1>1. now \in 0..MaxTime /\ calls \in 0..MaxCalls /\ faults \in 0..MaxFaults
  BY ExporterBounds DEF Init
<1>. QED BY <1>1, NewType DEF Init, TypeOK

(* In every reachable state copies, conditions, timers and the job are     *)
(* well formed, and no requeue of zero delay is asked for (RequeueAfter).  *)
THEOREM TypeCorrect == Spec => []TypeOK
BY InitType, NextType, PTL DEF Spec

-----------------------------------------------------------------------------
(* Safety *)

(* A merge patch leaves the fields alone that were not changed. *)
LEMMA MergeKeeps ==
  ASSUME NEW base, NEW obj
  PROVE  /\ base.lastSeen = obj.lastSeen => Merge(base, obj).lastSeen = exporter.lastSeen
         /\ base.devices = obj.devices => Merge(base, obj).devices = exporter.devices
         /\ base.leaseRef = obj.leaseRef => Merge(base, obj).leaseRef = exporter.leaseRef
         /\ base.conds = obj.conds => Merge(base, obj).conds = exporter.conds
         /\ base.conds # obj.conds => Merge(base, obj).conds = obj.conds
BY DEF Merge, Field

(* An RPC's copies agree on all but the devices. *)
LEMMA CallCopies ==
  ASSUME NEW d, NEW e
  PROVE  /\ Devices(d).lastSeen = Devices(e).lastSeen
         /\ Devices(d).leaseRef = Devices(e).leaseRef
         /\ Devices(d).conds = Devices(e).conds
BY DEF Devices, NewExporter

(* Steps that leave the exporter, the reconcile and the watch alone, but   *)
(* for what makes the reconciler look again.                               *)
LEMMA SafetyFrame ==
  ASSUME SafetyInv, TypeOK',
         exporter' = exporter, job' = job, call' = call,
         event => event' \/ (queued' /\ cache' = exporter),
         event' \/ cache' = cache \/ cache' = exporter,
         queued => queued', timer # None => timer' # None \/ queued'
  PROVE  SafetyInv'
<1>1. OnlineWatched'
  BY DEF SafetyInv, OnlineWatched
<1>2. CacheFollows'
  BY DEF SafetyInv, CacheFollows
<1>3. WritersFaithful' /\ JobWatched'
  BY DEF SafetyInv, WritersFaithful, JobWatched
<1>. QED BY <1>1, <1>2, <1>3 DEF SafetyInv

(* RPCs of the exporter keep the invariant. *)
LEMMA CallsSafe ==
  ASSUME SafetyInv, TypeOK',
         \/ \E d \in BOOLEAN : Register(d)
         \/ Unregister \/ PatchDevices \/ CallBreaks
         \/ \E t \in 0..now : Heartbeat(t)
  PROVE  SafetyInv'
<1>1. ASSUME NEW d \in BOOLEAN, Register(d) \/ (d = FALSE /\ Unregister)
      PROVE  SafetyInv'
  <2>1. /\ call' = ReadAndSet(d)
        /\ event => event'
        /\ UNCHANGED <<now, exporter, cache, queued, timer, job>>
    BY <1>1 DEF Register, Unregister, SafetyInv, TypeOK
  <2>2. WritersFaithful'
    BY <2>1, CallCopies DEF ReadAndSet, SafetyInv, WritersFaithful
  <2>. QED BY <2>1, <2>2
         DEF SafetyInv, OnlineWatched, CacheFollows, JobWatched
<1>2. CASE CallBreaks
  BY <1>2 DEF CallBreaks, NoCall, SafetyInv, OnlineWatched, CacheFollows,
    WritersFaithful, JobWatched
<1>3. CASE PatchDevices
  <2>1. /\ exporter' = Merge(call.base, call.obj) /\ call' = NoCall
        /\ event' = (event \/ exporter' # exporter)
        /\ UNCHANGED <<now, cache, queued, timer, job>>
    BY <1>3 DEF PatchDevices, StoreExporter
  <2>2. exporter'.lastSeen = exporter.lastSeen /\ exporter'.conds = exporter.conds
    BY <2>1, MergeKeeps DEF SafetyInv, WritersFaithful
  <2>3. WritersFaithful'
    BY <2>1 DEF NoCall, SafetyInv, WritersFaithful
  <2>. QED BY <2>1, <2>2, <2>3
         DEF SafetyInv, OnlineWatched, CacheFollows, JobWatched
<1>4. ASSUME NEW t \in 0..now, Heartbeat(t)
      PROVE  SafetyInv'
  <2>1. /\ exporter' = [exporter EXCEPT !.lastSeen = t]
        /\ event' = (event \/ exporter' # exporter)
        /\ UNCHANGED <<now, cache, queued, timer, job, call>>
    BY <1>4 DEF Heartbeat, StoreExporter
  <2>2. exporter'.conds = exporter.conds
    BY <2>1 DEF SafetyInv, TypeOK, Status
  <2>. QED BY <2>1, <2>2
         DEF SafetyInv, OnlineWatched, CacheFollows, WritersFaithful, JobWatched
<1>. QED BY <1>1, <1>2, <1>3, <1>4

(* The reconciler keeps the invariant. *)
LEMMA ReconcileSafe ==
  ASSUME SafetyInv, TypeOK', Reconcile \/ CallFails \/ Restart
  PROVE  SafetyInv'
<1>1. CASE GetExporter
  <2>1. /\ job' = [NoJob EXCEPT !.pc = "read", !.base = cache, !.obj = cache]
        /\ UNCHANGED <<now, exporter, event, cache, timer, call>>
    BY <1>1 DEF GetExporter
  <2>2. job'.pc = "read" /\ job'.base = cache /\ job'.obj = cache
    BY <2>1 DEF NoJob
  <2>. QED BY <2>1, <2>2
         DEF SafetyInv, OnlineWatched, CacheFollows, WritersFaithful, JobWatched
<1>2. CASE ComputeStatus
  <2>1. /\ job'.pc = "computed" /\ job'.base = job.base
        /\ job'.obj.lastSeen = job.obj.lastSeen /\ job'.obj.devices = job.obj.devices
        /\ job'.obj.conds.online = "True" => job'.after # None
    BY <1>2, ComputedJob DEF SafetyInv
  <2>2. job.pc = "read" /\ UNCHANGED <<now, exporter, event, cache, queued, timer, call>>
    BY <1>2 DEF ComputeStatus
  <2>. QED BY <2>1, <2>2
         DEF SafetyInv, OnlineWatched, CacheFollows, WritersFaithful, JobWatched
<1>3. CASE PatchStatus
  <2>1. /\ job.pc = "computed" /\ job' = NoJob
        /\ exporter' = Merge(job.base, job.obj)
        /\ event' = (event \/ exporter' # exporter)
        /\ timer' = IF job.after # None /\ (timer = None \/ now + job.after < timer)
                    THEN now + job.after ELSE timer
        /\ UNCHANGED <<now, cache, queued, call>>
    BY <1>3 DEF PatchStatus, StoreExporter
  <2>2. exporter'.lastSeen = exporter.lastSeen
    BY <2>1, MergeKeeps DEF SafetyInv, WritersFaithful
  <2>3. job.after # None => timer' # None
    <3>1. job.after # None => now + job.after \in Int
      BY DEF SafetyInv, TypeOK
    <3>. QED BY <2>1, <3>1, NoneIsNoName DEF SafetyInv, TypeOK
  <2>4. OnlineWatched'
    <3>. SUFFICES ASSUME exporter'.conds.online = "True", ~event', ~queued'
                  PROVE  timer' # None
      BY DEF OnlineWatched
    <3>1. exporter' = exporter /\ ~event /\ ~queued
      BY <2>1
    <3>2. job.base.conds = exporter.conds
      BY <2>1, <3>1 DEF SafetyInv, JobWatched
    <3>3. job.obj.conds = exporter.conds
      <4>1. CASE job.base.conds = job.obj.conds
        BY <3>2, <4>1
      <4>2. CASE job.base.conds # job.obj.conds
        <5>1. Merge(job.base, job.obj).conds = job.obj.conds
          BY <4>2, MergeKeeps
        <5>2. exporter = Merge(job.base, job.obj)
          BY <2>1, <3>1
        <5>. QED BY <5>1, <5>2
      <4>. QED BY <4>1, <4>2
    <3>. QED BY <2>1, <2>3, <3>1, <3>3 DEF SafetyInv, JobWatched
  <2>5. job'.pc = "idle" /\ job'.base = job'.obj
    BY <2>1 DEF NoJob
  <2>. QED BY <2>1, <2>2, <2>4, <2>5
         DEF SafetyInv, CacheFollows, WritersFaithful, JobWatched
<1>4. CASE CallFails
  BY <1>4 DEF CallFails, NoJob, SafetyInv, OnlineWatched, CacheFollows,
    WritersFaithful, JobWatched
<1>5. CASE Restart
  BY <1>5 DEF Restart, NoJob, NoCall, SafetyInv, OnlineWatched, CacheFollows,
    WritersFaithful, JobWatched
<1>. QED BY <1>1, <1>2, <1>3, <1>4, <1>5 DEF Reconcile

(* Every step keeps the invariant. *)
LEMMA SafetyNext == SafetyInv /\ [Next]_vars => SafetyInv'
<1>. SUFFICES ASSUME SafetyInv, [Next]_vars PROVE SafetyInv'
  OBVIOUS
<1>1. TypeOK'
  BY NextType DEF SafetyInv
<1>2. ASSUME NEW l \in Leases, AssignLease(l) \/ EndLease(l) \/ WriteMetadata(l)
      PROVE  SafetyInv'
  <2>1. UNCHANGED <<now, exporter, event, cache, queued, timer, job, call>>
    BY <1>2 DEF AssignLease, EndLease, WriteMetadata
  <2>. QED BY <1>1, <2>1, SafetyFrame
<1>3. ASSUME NEW l \in Leases, DeliverLease(l)
      PROVE  SafetyInv'
  BY <1>1, <1>3, SafetyFrame DEF DeliverLease
<1>4. CASE Tick
  BY <1>1, <1>4, SafetyFrame DEF Tick
<1>5. CASE DeliverExporter
  BY <1>1, <1>5, SafetyFrame DEF DeliverExporter
<1>6. CASE TimerFires
  BY <1>1, <1>6, SafetyFrame DEF TimerFires
<1>7. CASE UNCHANGED vars
  BY <1>1, <1>7, SafetyFrame DEF vars
<1>. QED BY <1>1, <1>2, <1>3, <1>4, <1>5, <1>6, <1>7, CallsSafe, ReconcileSafe DEF Next

(* The invariant holds in every reachable state. *)
LEMMA SafetyAlways == Spec => []SafetyInv
<1>1. Init => SafetyInv
  <2>. SUFFICES ASSUME Init PROVE SafetyInv
    OBVIOUS
  <2>1. TypeOK
    BY InitType
  <2>. QED BY <2>1 DEF Init, NewExporter, NoJob, NoCall, SafetyInv, OnlineWatched,
         CacheFollows, WritersFaithful, JobWatched
<1>. QED BY <1>1, SafetyNext, PTL DEF Spec

(* An exporter shown online will be looked at again, through failures,     *)
(* restarts and caches of any age (reconcileStatusConditionsOnline).       *)
THEOREM OnlineAlwaysWatched == Spec => []OnlineWatched
<1>1. SafetyInv => OnlineWatched
  BY DEF SafetyInv
<1>. QED BY <1>1, SafetyAlways, PTL

(* No patch of the reconciler or of an RPC takes back what another wrote   *)
(* (Register, Unregister, Status and Reconcile send merge patches of       *)
(* copies of any age).                                                     *)
THEOREM WritersStayApart == Spec => WritersApart
<1>. DEFINE Apart ==
       /\ call' = call => exporter'.devices = exporter.devices
       /\ job' = job => /\ exporter'.leaseRef = exporter.leaseRef
                        /\ exporter'.conds = exporter.conds
       /\ <<call, job>>' # <<call, job>> => exporter'.lastSeen = exporter.lastSeen
<1>1. ASSUME SafetyInv, exporter' = exporter
      PROVE  Apart
  BY <1>1 DEF SafetyInv, TypeOK, Status
<1>2. ASSUME SafetyInv, PatchDevices
      PROVE  Apart
  <2>1. exporter' = Merge(call.base, call.obj) /\ call'.pc # call.pc
    BY <1>2 DEF PatchDevices, StoreExporter, NoCall
  <2>2. /\ exporter'.lastSeen = exporter.lastSeen
        /\ exporter'.leaseRef = exporter.leaseRef /\ exporter'.conds = exporter.conds
    BY <1>2, <2>1, MergeKeeps DEF SafetyInv, WritersFaithful
  <2>. QED BY <1>2, <2>1, <2>2 DEF SafetyInv, TypeOK, Status
<1>3. ASSUME SafetyInv, NEW t \in 0..now, Heartbeat(t)
      PROVE  Apart
  <2>1. exporter' = [exporter EXCEPT !.lastSeen = t] /\ UNCHANGED <<call, job>>
    BY <1>3 DEF Heartbeat, StoreExporter
  <2>. QED BY <1>3, <2>1 DEF SafetyInv, TypeOK, Status
<1>4. ASSUME SafetyInv, PatchStatus
      PROVE  Apart
  <2>1. exporter' = Merge(job.base, job.obj) /\ job'.pc # job.pc
    BY <1>4 DEF PatchStatus, StoreExporter, NoJob
  <2>2. exporter'.lastSeen = exporter.lastSeen /\ exporter'.devices = exporter.devices
    BY <1>4, <2>1, MergeKeeps DEF SafetyInv, WritersFaithful
  <2>. QED BY <1>4, <2>1, <2>2 DEF SafetyInv, TypeOK, Status
<1>5. ASSUME SafetyInv, [Next]_vars
      PROVE  Apart
  <2>. SUFFICES ASSUME ~PatchDevices, \A t \in 0..now : ~Heartbeat(t), ~PatchStatus
                PROVE  exporter' = exporter
    BY <1>1, <1>2, <1>3, <1>4, <1>5
  <2>. QED BY <1>5 DEF Next, vars, Register, Unregister, CallBreaks, Tick, AssignLease,
         EndLease, WriteMetadata, DeliverLease, DeliverExporter, TimerFires, Reconcile,
         GetExporter, ComputeStatus, CallFails, Restart
<1>6. SafetyInv /\ [Next]_vars => [Apart]_vars
  BY <1>5
<1>. QED BY <1>6, SafetyAlways, PTL DEF Spec, WritersApart
=============================================================================
