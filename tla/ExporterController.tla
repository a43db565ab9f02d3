------------------------- MODULE ExporterController -------------------------
(***************************************************************************)
(* The status of one Exporter: the exporter reconciler                     *)
(* (internal/controller/exporter_controller.go) and the RPCs Register,     *)
(* Unregister and Status that write the same object                        *)
(* (internal/service/controller_service.go).  All of them send merge       *)
(* patches, so none is refused because of another.                         *)
(*                                                                         *)
(* The reconciler reads the informers' caches of exporters and of leases,  *)
(* which lag behind the API server and behind each other.  The leases      *)
(* change as LeaseController writes them: status first, owner and label by *)
(* a second write.                                                         *)
(*                                                                         *)
(* A definition whose comment starts with "Mistake:" is a wrong version of *)
(* the definition after it; nothing uses it.                               *)
(***************************************************************************)
EXTENDS Integers, FiniteSets

CONSTANTS
  None,
  Leases,    \* leases that this exporter may be given
  Minute,    \* an exporter not seen for longer is offline
  Recheck,   \* an online exporter is looked at again after this long
  MaxTime,   \* the clock stops here
  MaxCalls,  \* RPCs of the exporter and leases given and ended in a behaviour
  MaxFaults  \* failed calls and restarts in a behaviour

ASSUME NoneIsNoName == None \notin Leases \cup Int
ASSUME TimesAssumption == Minute \in Nat \ {0} /\ Recheck \in Nat \ {0}
ASSUME ExporterBounds == MaxTime \in Nat /\ MaxCalls \in Nat /\ MaxFaults \in Nat

VARIABLES
  now,       \* the clock
  exporter,  \* the status of the Exporter in the API server
  event,     \* the informer has yet to deliver the exporter
  cache,     \* the informer's copy of it
  lease,     \* the Lease objects in the API server
  pending,   \* leases the informer has yet to deliver
  leases,    \* the informer's copies of them
  queued,    \* the exporter is in the work queue
  timer,     \* when a delayed requeue is due, or None
  job,       \* the reconcile in progress
  call,      \* an RPC that has read the exporter and not yet patched it
  calls,     \* RPCs and changes of leases so far
  faults     \* failures so far

vars == <<now, exporter, event, cache, lease, pending, leases, queued, timer,
          job, call, calls, faults>>

(* The Online and the Registered condition, None while it was never set. *)
Condition == {None, "True", "False"}

(* ExporterStatus; devices says that there are any, lastSeen None is the   *)
(* zero time.                                                              *)
Status == [lastSeen : Nat \cup {None}, devices : BOOLEAN,
           leaseRef : Leases \cup {None}, credential : BOOLEAN,
           conds : [online : Condition, registered : Condition]]

NewExporter == [lastSeen |-> None, devices |-> FALSE, leaseRef |-> None,
                credential |-> FALSE, conds |-> [online |-> None, registered |-> None]]

(* Of a lease: whether it refers to this exporter, has ended, has the      *)
(* ended label and is owned by the exporter.                               *)
LeaseView == [assigned : BOOLEAN, ended : BOOLEAN, label : BOOLEAN, owned : BOOLEAN]

NewLease == [assigned |-> FALSE, ended |-> FALSE, label |-> FALSE, owned |-> FALSE]

NoJob == [pc |-> "idle", base |-> NewExporter, obj |-> NewExporter, after |-> None]

NoCall == [pc |-> "idle", base |-> NewExporter, obj |-> NewExporter]

-----------------------------------------------------------------------------
(* Patches *)

(* Mistake: every field is sent, changed or not. *)
FieldAlwaysSent(old, new, current) == new

(* A merge patch carries the fields that differ from the copy it was made  *)
(* with; the conditions, a list, are one field.                            *)
Field(old, new, current) == IF old = new THEN current ELSE new

Merge(base, obj) ==
  [lastSeen   |-> Field(base.lastSeen, obj.lastSeen, exporter.lastSeen),
   devices    |-> Field(base.devices, obj.devices, exporter.devices),
   leaseRef   |-> Field(base.leaseRef, obj.leaseRef, exporter.leaseRef),
   credential |-> Field(base.credential, obj.credential, exporter.credential),
   conds      |-> Field(base.conds, obj.conds, exporter.conds)]

StoreExporter(obj) ==
  /\ exporter' = obj
  /\ event' = (event \/ obj # exporter)

StoreLease(l, obj) ==
  /\ lease' = [lease EXCEPT ![l] = obj]
  /\ pending' = IF obj = lease[l] THEN pending ELSE pending \cup {l}

-----------------------------------------------------------------------------
(* RPCs of the exporter *)

(* Of the copy that an RPC reads and patches only the devices matter, as    *)
(* all else stays the same in it.                                          *)
Devices(devices) == [NewExporter EXCEPT !.devices = devices]

ReadAndSet(devices) ==
  [pc |-> "read", base |-> Devices(exporter.devices), obj |-> Devices(devices)]

(* Register: the patch of the labels returns the exporter as it is; a      *)
(* second patch stores the devices.  A report of no devices is stored as   *)
(* none (omitempty).                                                       *)
Register(devices) ==
  /\ call.pc = "idle" /\ calls < MaxCalls
  /\ calls' = calls + 1
  /\ event' \in {event, TRUE}
  /\ call' = ReadAndSet(devices)
  /\ UNCHANGED <<now, exporter, cache, lease, pending, leases, queued, timer,
                 job, faults>>

Unregister ==
  /\ call.pc = "idle" /\ calls < MaxCalls
  /\ calls' = calls + 1
  /\ call' = ReadAndSet(FALSE)
  /\ UNCHANGED <<now, exporter, event, cache, lease, pending, leases, queued,
                 timer, job, faults>>

(* The status patch of Register or Unregister, or the call breaks off. *)
PatchDevices ==
  /\ call.pc = "read"
  /\ call' = NoCall
  /\ StoreExporter(Merge(call.base, call.obj))
  /\ UNCHANGED <<now, cache, lease, pending, leases, queued, timer, job, calls,
                 faults>>

CallBreaks ==
  /\ call.pc = "read"
  /\ call' = NoCall
  /\ UNCHANGED <<now, exporter, event, cache, lease, pending, leases, queued,
                 timer, job, calls, faults>>

(* online of a Status stream: whatever copy the stream has, its patch      *)
(* holds lastSeen only.  The clock is read before the patch is sent and    *)
(* any number of streams of the exporter may be open, so the time that is  *)
(* stored may be any that the clock has shown.  An error is only logged.   *)
Heartbeat(t) ==
  /\ exporter.lastSeen # t
  /\ StoreExporter([exporter EXCEPT !.lastSeen = t])
  /\ UNCHANGED <<now, cache, lease, pending, leases, queued, timer, job, call,
                 calls, faults>>

-----------------------------------------------------------------------------
(* Writes of the lease reconciler *)

AssignLease(l) ==
  /\ ~lease[l].assigned /\ ~lease[l].ended /\ calls < MaxCalls
  /\ calls' = calls + 1
  /\ StoreLease(l, [lease[l] EXCEPT !.assigned = TRUE])
  /\ UNCHANGED <<now, exporter, event, cache, leases, queued, timer, job, call, faults>>

EndLease(l) ==
  /\ lease[l].assigned /\ ~lease[l].ended /\ calls < MaxCalls
  /\ calls' = calls + 1
  /\ StoreLease(l, [lease[l] EXCEPT !.ended = TRUE])
  /\ UNCHANGED <<now, exporter, event, cache, leases, queued, timer, job, call, faults>>

WriteMetadata(l) ==
  /\ lease[l].assigned # lease[l].owned \/ lease[l].ended # lease[l].label
  /\ StoreLease(l, [lease[l] EXCEPT !.owned = lease[l].assigned,
                                    !.label = lease[l].ended])
  /\ UNCHANGED <<now, exporter, event, cache, leases, queued, timer, job, call,
                 calls, faults>>

-----------------------------------------------------------------------------
(* Informers, work queue, clock *)

Tick ==
  /\ now < MaxTime
  /\ now' = now + 1
  /\ UNCHANGED <<exporter, event, cache, lease, pending, leases, queued, timer,
                 job, call, calls, faults>>

(* For(&Exporter{}) *)
DeliverExporter ==
  /\ event
  /\ event' = FALSE
  /\ cache' = exporter
  /\ queued' = TRUE
  /\ UNCHANGED <<now, exporter, lease, pending, leases, timer, job, call, calls,
                 faults>>

(* Mistake: leases are not watched. *)
OwnsNothing(old, new) == FALSE

(* Owns(&Lease{}): the owner of the old or of the new object is queued. *)
Owns(old, new) == old.owned \/ new.owned

DeliverLease(l) ==
  /\ l \in pending
  /\ pending' = pending \ {l}
  /\ leases' = [leases EXCEPT ![l] = lease[l]]
  /\ queued' = (queued \/ Owns(leases[l], lease[l]))
  /\ UNCHANGED <<now, exporter, event, cache, lease, timer, job, call, calls,
                 faults>>

(* A delayed requeue ends strictly after the instant aimed at; the stopped *)
(* clock stands for every later instant.                                   *)
TimerFires ==
  /\ timer # None
  /\ now < MaxTime => now > timer
  /\ timer' = None
  /\ queued' = TRUE
  /\ UNCHANGED <<now, exporter, event, cache, lease, pending, leases, job, call,
                 calls, faults>>

-----------------------------------------------------------------------------
(* ExporterReconciler.Reconcile *)

GetExporter ==
  /\ queued /\ job.pc = "idle"
  /\ queued' = FALSE
  /\ job' = [NoJob EXCEPT !.pc = "read", !.base = cache, !.obj = cache]
  /\ UNCHANGED <<now, exporter, event, cache, lease, pending, leases, timer,
                 call, calls, faults>>

(* The leases listed that have not ended and refer to the exporter. *)
Active == {l \in Leases : ~leases[l].label /\ ~leases[l].ended /\ leases[l].assigned}

(* reconcileStatusLeaseRef: the last one listed, in no particular order. *)
LeaseRefs == IF Active = {} THEN {None} ELSE Active

(* Mistake: an exporter once seen is online. *)
OnlineOnceSeen(status) == status.lastSeen # None

(* reconcileStatusConditionsOnline *)
Online(status) == status.lastSeen # None /\ ~(now - status.lastSeen > Minute)

(* Mistake: Registered is set but never reset. *)
RegisteredForGood(status) ==
  IF status.devices \/ status.conds.registered = "True" THEN "True" ELSE "False"

Registered(status) == IF status.devices THEN "True" ELSE "False"

(* Mistake: no requeue for an exporter that is online. *)
NoRequeue(status) == None

(* The RequeueAfter of the reconcile *)
Requeue(status) == IF Online(status) THEN Recheck ELSE None

(* ensureSecret has succeeded; the leases are listed and the clock read.   *)
(* reconcileStatusEndpoint writes a constant and is left out.              *)
ComputeStatus ==
  /\ job.pc = "read"
  /\ \E ref \in LeaseRefs :
       job' = [job EXCEPT !.pc = "computed", !.after = Requeue(job.obj),
                 !.obj.credential = TRUE,
                 !.obj.leaseRef = ref,
                 !.obj.conds = [online |-> IF Online(job.obj) THEN "True" ELSE "False",
                                registered |-> Registered(job.obj)]]
  /\ UNCHANGED <<now, exporter, event, cache, lease, pending, leases, queued,
                 timer, call, calls, faults>>

(* r.Status().Patch, and the requeue asked for; of two delayed requeues    *)
(* the earlier is kept.                                                    *)
PatchStatus ==
  /\ job.pc = "computed"
  /\ StoreExporter(Merge(job.base, job.obj))
  /\ timer' = IF job.after # None /\ (timer = None \/ now + job.after < timer)
              THEN now + job.after ELSE timer
  /\ job' = NoJob
  /\ UNCHANGED <<now, cache, lease, pending, leases, queued, call, calls, faults>>

(* A call of the reconcile fails, ensureSecret's included: it is retried. *)
CallFails ==
  /\ job.pc # "idle"
  /\ faults < MaxFaults
  /\ faults' = faults + 1
  /\ job' = NoJob
  /\ queued' = TRUE
  /\ UNCHANGED <<now, exporter, event, cache, lease, pending, leases, timer,
                 call, calls>>

(* The manager restarts: the informers list anew and queue the exporter. *)
Restart ==
  /\ faults < MaxFaults
  /\ faults' = faults + 1
  /\ job' = NoJob
  /\ call' = NoCall
  /\ timer' = None
  /\ event' = FALSE
  /\ cache' = exporter
  /\ pending' = {}
  /\ leases' = lease
  /\ queued' = TRUE
  /\ UNCHANGED <<now, exporter, lease, calls>>

-----------------------------------------------------------------------------
Init ==
  /\ now = 0
  /\ exporter = NewExporter
  /\ event = TRUE
  /\ cache = NewExporter
  /\ lease = [l \in Leases |-> NewLease]
  /\ pending = {}
  /\ leases = [l \in Leases |-> NewLease]
  /\ queued = FALSE
  /\ timer = None
  /\ job = NoJob
  /\ call = NoCall
  /\ calls = 0
  /\ faults = 0

Reconcile == GetExporter \/ ComputeStatus \/ PatchStatus

Next ==
  \/ (\E d \in BOOLEAN : Register(d)) \/ Unregister \/ PatchDevices \/ CallBreaks
  \/ (\E t \in 0..now : Heartbeat(t)) \/ Tick
  \/ \E l \in Leases : AssignLease(l) \/ EndLease(l) \/ WriteMetadata(l) \/ DeliverLease(l)
  \/ DeliverExporter \/ TimerFires \/ Reconcile \/ CallFails \/ Restart

Spec == Init /\ [][Next]_vars

(* Informers, timers, clock and worker run, and the lease reconciler       *)
(* finishes its second write (NoLostWakeup of LeaseController).  Nothing   *)
(* is assumed of the exporter.                                             *)
Fairness ==
  /\ WF_vars(Tick) /\ WF_vars(DeliverExporter) /\ WF_vars(TimerFires)
  /\ WF_vars(Reconcile)
  /\ \A l \in Leases : WF_vars(DeliverLease(l)) /\ WF_vars(WriteMetadata(l))

FairSpec == Spec /\ Fairness

(* Copies, conditions and timers are well formed: a requeue asked for is   *)
(* never one of zero delay, which would be none (RequeueAfter in           *)
(* exporter_controller.go).                                                *)
TypeOK ==
  /\ now \in 0..MaxTime
  /\ exporter \in Status /\ cache \in Status
  /\ event \in BOOLEAN /\ queued \in BOOLEAN
  /\ lease \in [Leases -> LeaseView] /\ leases \in [Leases -> LeaseView]
  /\ pending \subseteq Leases
  /\ timer \in Nat \cup {None}
  /\ job \in [pc : {"idle", "read", "computed"}, base : Status, obj : Status,
              after : (Nat \ {0}) \cup {None}]
  /\ call \in [pc : {"idle", "read"}, base : Status, obj : Status]
  /\ calls \in 0..MaxCalls
  /\ faults \in 0..MaxFaults

-----------------------------------------------------------------------------
(* An exporter that is shown online will be looked at again, so that it    *)
(* cannot stay online unseen: an event, the queue, a reconcile or a timer  *)
(* is there in every state (the requeue of reconcileStatusConditionsOnline *)
(* through failures and restarts).                                         *)
OnlineWatched ==
  exporter.conds.online = "True" => event \/ queued \/ job.pc # "idle" \/ timer # None

(* The reconciler and the RPCs patch one object from copies of any age,    *)
(* and none takes back what another wrote: the devices change only with a  *)
(* Register or Unregister that returns, lease and conditions only with a   *)
(* reconcile that ends, and both leave the time of the last heartbeat.     *)
WritersApart ==
  [][/\ call' = call => exporter'.devices = exporter.devices
     /\ job' = job => /\ exporter'.leaseRef = exporter.leaseRef
                      /\ exporter'.conds = exporter.conds
     /\ <<call, job>>' # <<call, job>> => exporter'.lastSeen = exporter.lastSeen]_vars

Silent == exporter.lastSeen # None /\ now - exporter.lastSeen > Minute

(* An exporter that has not been seen for more than a minute is shown as   *)
(* offline, with nothing but the requeue to make the reconciler look       *)
(* (reconcileStatusConditionsOnline).                                      *)
OfflineNoticed == []<>(Silent => exporter.conds.online = "False")

Held == {l \in Leases : lease[l].assigned /\ ~lease[l].ended}

(* status.leaseRef comes to agree with the leases, although the lease that *)
(* was just assigned does not yet wake the exporter's reconciler, and the  *)
(* two caches the reconciler reads are of different ages.                  *)
LeaseRefConverges ==
  []<>(IF Held = {} THEN exporter.leaseRef = None ELSE exporter.leaseRef \in Held)

(* The Registered condition comes to agree with the devices. *)
RegisteredConverges ==
  []<>((exporter.conds.registered = "True") = exporter.devices)

-----------------------------------------------------------------------------
(* The inductive invariant behind the safety properties *)

(* The informer's copy is the exporter, or an event is on its way. *)
CacheFollows == event \/ cache = exporter

(* What an RPC and what a reconcile leave alone in the copies they made. *)
WritersFaithful ==
  /\ call.base.lastSeen = call.obj.lastSeen /\ call.base.leaseRef = call.obj.leaseRef
  /\ call.base.conds = call.obj.conds
  /\ job.base.lastSeen = job.obj.lastSeen /\ job.base.devices = job.obj.devices

(* A reconcile that works on old conditions will be followed by another,   *)
(* and one that finds the exporter online asks for a requeue.              *)
JobWatched ==
  /\ job.pc # "idle" => event \/ queued \/ job.base.conds = exporter.conds
  /\ (job.pc = "computed" /\ job.obj.conds.online = "True") => job.after # None

SafetyInv ==
  TypeOK /\ OnlineWatched /\ CacheFollows /\ WritersFaithful /\ JobWatched
=============================================================================
