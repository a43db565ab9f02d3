-------------------------- MODULE LeaseController --------------------------
(***************************************************************************)
(* The life of Lease objects: the RPCs that create and patch them          *)
(* (internal/service), the lease reconciler that assigns exporters and     *)
(* ends leases (internal/controller/lease_controller.go), and the parts of *)
(* Kubernetes and controller-runtime between the two: the object store     *)
(* with optimistic locking, the informer, the work queue and its timers,   *)
(* and the garbage collector.                                              *)
(*                                                                         *)
(* One reconcile is three steps of one worker, as its API calls are: Get   *)
(* and decide, Status().Update, Update.  Anything may happen in between.   *)
(* An RPC that patches a lease is two steps, its Get and its Patch.        *)
(*                                                                         *)
(* A definition whose comment starts with "Mistake:" is a wrong version of *)
(* the definition after it; no action uses it.  PROJECT.json pairs it with *)
(* the property that notices the mistake.                                  *)
(***************************************************************************)
EXTENDS ExporterSelection, FiniteSets

CONSTANTS
  Leases,           \* names of leases; a name (a UUID) is used once
  Selectors,        \* label selectors: [kind, match]
  PolicySets,       \* the sets of rules the administrator may install
  Asks,             \* the time fields a CreateLease or UpdateLease may carry
  LegacyDurations,  \* the durations a RequestLease may carry, None included
  Flaky,            \* exporters that may go offline and come back
  Deletable,        \* exporters that may be deleted
  Removable,        \* clients that may be deleted
  Resyncs,          \* TRUE: the clock runs long enough for informer resyncs
  MaxTime,          \* the clock stops here
  MaxOps,           \* patching RPCs in a behaviour
  MaxPatches,       \* patching RPCs between their Get and their Patch
  MaxFaults         \* failed API calls and restarts in a behaviour

ASSUME SelectorsAssumption ==
  Selectors \subseteq [kind : {"labels", "empty", "invalid"},
                       match : SUBSET Exporters]
ASSUME PolicySetsAssumption == PolicySets \subseteq SUBSET Rule
ASSUME TimesAssumption == Asks \subseteq TimeFields /\ LegacyDurations \subseteq Opt(Int)
ASSUME NamesAssumption == None \notin Leases /\ None \notin Clients
ASSUME FlagAssumption == Resyncs \in BOOLEAN
ASSUME BoundsAssumption ==
  MaxTime \in Nat /\ MaxOps \in Nat /\ MaxPatches \in Nat /\ MaxFaults \in Nat

VARIABLES
  now,       \* the clock
  life,      \* per name: "unborn", "live" or "gone"
  lease,     \* the Lease objects in the API server
  events,    \* leases with a watch event the informer has yet to deliver
  known,     \* names in the informer's cache
  cache,     \* the informer's copy of the Lease objects
  queue,     \* work queue of the reconciler
  timer,     \* per lease: when a delayed requeue is due, or None
  job,       \* the reconcile in progress
  patches,   \* RPCs that have read a lease and not yet patched it
  up,        \* per exporter: "online", "offline" or "deleted"
  clients,   \* Client objects that exist
  policies,  \* the access policies in force
  ops,       \* patching RPCs so far
  faults     \* failures so far

vars == <<now, life, lease, events, known, cache, queue, timer, job, patches, up,
          clients, policies, ops, faults>>

-----------------------------------------------------------------------------
(* Objects *)

Conditions == {"Pending", "Ready", "Unsatisfiable", "Invalid"}

Reasons == {"Offline", "NotAvailable", "Ready", "Released", "Expired",
            "NoAccess", "SpotAccess", "InvalidSelector"}

ASSUME ReasonsAssumption == None \notin Reasons

LeaseSpec == [client : Opt(Clients), sel : Opt(Selectors), release : BOOLEAN,
              begin : Opt(Int), end : Opt(Int), dur : Opt(Int)]

LeaseStatus == [exporterRef : Opt(Exporters), begin : Opt(Nat),
                end : Opt(Nat), ended : BOOLEAN, priority : Int,
                spot : BOOLEAN, conds : [Conditions -> Opt(Reasons)]]

(* label: the ended label.  owned: the exporter is the controller owner. *)
LeaseObject == [spec : LeaseSpec, status : LeaseStatus,
                label : BOOLEAN, owned : BOOLEAN]

NoStatus == [exporterRef |-> None, begin |-> None, end |-> None,
             ended |-> FALSE, priority |-> 0, spot |-> FALSE,
             conds |-> [c \in Conditions |-> None]]

Blank == [spec |-> [client |-> None, sel |-> None, release |-> FALSE,
                    begin |-> None, end |-> None, dur |-> None],
          status |-> NoStatus, label |-> FALSE, owned |-> FALSE]

NoJob == [pc |-> "idle", lease |-> None, base |-> Blank, obj |-> Blank,
          after |-> None, poll |-> FALSE]

Job == [pc : {"idle", "read", "decided", "statused"}, lease : Opt(Leases),
        base : LeaseObject, obj : LeaseObject, after : Opt(Nat), poll : BOOLEAN]

Patch == [lease : Leases, old : LeaseSpec, new : LeaseSpec]

Live == {l \in Leases : life[l] = "live"}

Times(spec) == [begin |-> spec.begin, end |-> spec.end, dur |-> spec.dur]

ExpiresAt(spec, sbegin) == Expiration(Times(spec), sbegin)

(* The API server stores an object; a write that changes nothing is no event. *)
Store(l, obj) ==
  /\ lease' = [lease EXCEPT ![l] = obj]
  /\ events' = IF obj = lease[l] THEN events ELSE events \cup {l}

-----------------------------------------------------------------------------
(* RPCs of the clients *)

NewLease(l, c, sel, t) ==
  /\ life[l] = "unborn"
  /\ c \in clients
  /\ life' = [life EXCEPT ![l] = "live"]
  /\ Store(l, [spec |-> [client |-> c, sel |-> sel, release |-> FALSE,
                         begin |-> Whole(t.begin), end |-> Whole(t.end),
                         dur |-> t.dur],
               status |-> NoStatus, label |-> FALSE, owned |-> FALSE])
  /\ UNCHANGED <<now, known, cache, queue, timer, job, patches, up, clients,
                 policies, ops, faults>>

(* ControllerService.RequestLease: any selector, any duration or none. *)
RequestLease(l, c, sel, d) ==
  NewLease(l, c, sel, [begin |-> None, end |-> None, dur |-> d])

(* ClientService.CreateLease: ParseLabelSelector and                       *)
(* ReconcileLeaseTimeFields have accepted the request.                     *)
CreateLease(l, c, sel, ask) ==
  /\ sel.kind # "invalid"
  /\ TimeFieldsAccepted(ask)
  /\ NewLease(l, c, sel, CompleteTimeFields(ask))

(* The Get of an RPC of client c, and the patch it will send. *)
StartPatch(l, c, new) ==
  /\ life[l] = "live"
  /\ c \in clients
  /\ lease[l].spec.client = c
  /\ ops < MaxOps
  /\ Cardinality(patches) < MaxPatches
  /\ ops' = ops + 1
  /\ patches' = patches \cup {[lease |-> l, old |-> lease[l].spec, new |-> new]}
  /\ UNCHANGED <<now, life, lease, events, known, cache, queue, timer, job, up,
                 clients, policies, faults>>

(* UpdateLease: the fields of the request override those of the lease. *)
MergedTimes(spec, ask) ==
  LET desired == CompleteTimeFields(ask)
  IN  [begin |-> IF ask.begin # None THEN desired.begin ELSE spec.begin,
       end   |-> IF ask.end # None THEN desired.end ELSE spec.end,
       dur   |-> IF ask.dur # None THEN desired.dur ELSE spec.dur]

(* UpdateLease: "cannot update BeginTime: lease has already started". *)
BeginUpdatable(obj, ask) ==
  (ask.begin # None /\ obj.status.exporterRef # None) => obj.spec.begin = ask.begin

(* ClientService.UpdateLease; target is the client the lease is handed     *)
(* over to, or None.                                                       *)
UpdateLease(l, c, ask, target) ==
  LET merged == MergedTimes(lease[l].spec, ask)
      final == CompleteTimeFields(merged)
  IN  /\ TimeFieldsAccepted(ask)
      /\ BeginUpdatable(lease[l], ask)
      /\ target # None => /\ lease[l].status.exporterRef # None
                          /\ ~lease[l].status.ended
                          /\ target \in clients
      /\ TimeFieldsAccepted(merged)
      /\ StartPatch(l, c, [lease[l].spec EXCEPT
           !.begin = Whole(final.begin), !.end = Whole(final.end),
           !.dur = final.dur,
           !.client = IF target # None THEN target ELSE c])

(* ControllerService.ReleaseLease and ClientService.DeleteLease *)
ReleaseLease(l, c) == StartPatch(l, c, [lease[l].spec EXCEPT !.release = TRUE])

(* A JSON merge patch made by MergeFrom carries the fields that differ     *)
(* from the copy the RPC read, and no resource version.                    *)
Field(old, new, current) == IF old = new THEN current ELSE new

MergePatch(p, spec) ==
  [client  |-> Field(p.old.client, p.new.client, spec.client),
   sel     |-> Field(p.old.sel, p.new.sel, spec.sel),
   release |-> Field(p.old.release, p.new.release, spec.release),
   begin   |-> Field(p.old.begin, p.new.begin, spec.begin),
   end     |-> Field(p.old.end, p.new.end, spec.end),
   dur     |-> Field(p.old.dur, p.new.dur, spec.dur)]

(* The API server applies the patch; a patch of a deleted lease fails. *)
ApplyPatch(p) ==
  /\ patches' = patches \ {p}
  /\ IF p.lease \in Live
     THEN Store(p.lease, [lease[p.lease] EXCEPT !.spec = MergePatch(p, @)])
     ELSE UNCHANGED <<lease, events>>
  /\ UNCHANGED <<now, life, known, cache, queue, timer, job, up, clients,
                 policies, ops, faults>>

-----------------------------------------------------------------------------
(* The world around the controller *)

Tick ==
  /\ now < MaxTime
  /\ now' = now + 1
  /\ UNCHANGED <<life, lease, events, known, cache, queue, timer, job, patches,
                 up, clients, policies, ops, faults>>

(* The exporter's Online or Registered condition changes. *)
ExporterFlips(e) ==
  /\ e \in Flaky /\ up[e] # "deleted"
  /\ up' = [up EXCEPT ![e] = IF up[e] = "online" THEN "offline" ELSE "online"]
  /\ UNCHANGED <<now, life, lease, events, known, cache, queue, timer, job,
                 patches, clients, policies, ops, faults>>

DeleteExporter(e) ==
  /\ e \in Deletable /\ up[e] # "deleted"
  /\ up' = [up EXCEPT ![e] = "deleted"]
  /\ UNCHANGED <<now, life, lease, events, known, cache, queue, timer, job,
                 patches, clients, policies, ops, faults>>

DeleteClient(c) ==
  /\ c \in Removable \cap clients
  /\ clients' = clients \ {c}
  /\ UNCHANGED <<now, life, lease, events, known, cache, queue, timer, job,
                 patches, up, policies, ops, faults>>

SetPolicies(P) ==
  /\ P # policies
  /\ policies' = P
  /\ UNCHANGED <<now, life, lease, events, known, cache, queue, timer, job,
                 patches, up, clients, ops, faults>>

(* Kubernetes deletes a lease whose controller owner is gone. *)
CollectLease(l) ==
  /\ life[l] = "live"
  /\ lease[l].owned
  /\ up[lease[l].status.exporterRef] = "deleted"
  /\ life' = [life EXCEPT ![l] = "gone"]
  /\ Store(l, Blank)
  /\ UNCHANGED <<now, known, cache, queue, timer, job, patches, up, clients,
                 policies, ops, faults>>

(* The informer brings its cache up to date and For(&Lease{}) queues the   *)
(* lease.                                                                  *)
DeliverLease(l) ==
  /\ l \in events
  /\ events' = events \ {l}
  /\ known' = IF l \in Live THEN known \cup {l} ELSE known \ {l}
  /\ cache' = [cache EXCEPT ![l] = lease[l]]
  /\ queue' = queue \cup {l}
  /\ UNCHANGED <<now, life, lease, timer, job, patches, up, clients, policies,
                 ops, faults>>

(* A delayed requeue is due.  The delay starts after the clock reading it  *)
(* was computed from, so it ends strictly after the instant aimed at.  The *)
(* stopped clock stands for every later instant.                           *)
TimerFires(l) ==
  /\ timer[l] # None
  /\ now < MaxTime => now > timer[l]
  /\ timer' = [timer EXCEPT ![l] = None]
  /\ queue' = queue \cup {l}
  /\ UNCHANGED <<now, life, lease, events, known, cache, job, patches, up,
                 clients, policies, ops, faults>>

(* The informer's periodic resync queues every lease it knows. *)
Resync ==
  /\ Resyncs
  /\ queue' = queue \cup known
  /\ UNCHANGED <<now, life, lease, events, known, cache, timer, job, patches,
                 up, clients, policies, ops, faults>>

-----------------------------------------------------------------------------
(* LeaseReconciler.Reconcile: reading *)

(* What r.Get and r.List of leases return: the manager's client reads the  *)
(* informer's cache.                                                       *)
Visible == known

Seen(l) == cache[l]

(* Reconcile: r.Get, and nothing more when there is no such lease. *)
GetLease(l) ==
  /\ job.pc = "idle"
  /\ l \in queue
  /\ queue' = queue \ {l}
  /\ job' = IF l \in Visible
            THEN [NoJob EXCEPT !.pc = "read", !.lease = l,
                               !.base = Seen(l), !.obj = Seen(l)]
            ELSE job
  /\ UNCHANGED <<now, life, lease, events, known, cache, timer, patches, up,
                 clients, policies, ops, faults>>

(* Reconcile returns an error, or RequeueConflict: the lease is requeued. *)
Retry ==
  /\ job' = NoJob
  /\ queue' = queue \cup {job.lease}
  /\ UNCHANGED <<now, life, lease, events, known, cache, timer, patches, up,
                 clients, policies, ops>>

(* Mistake: only leases with an owner count, which the second write sets. *)
ActiveLeasesOwned == {l \in Visible : ~Seen(l).label /\ Seen(l).owned}

(* MatchingActiveLeases: the ended label does not exist. *)
ActiveLeases == {l \in Visible : ~Seen(l).label}

(* attachExistingLeases: the exporters found leased. *)
Leased == {Seen(l).status.exporterRef : l \in ActiveLeases} \ {None}

(* Of several leases of one exporter the last listed is attached; the list *)
(* has no order of its own.                                                *)
SpotHeldChoices ==
  {S \in SUBSET Leased : \A e \in Leased :
     \E l \in ActiveLeases : /\ Seen(l).status.exporterRef = e
                             /\ Seen(l).status.spot = (e \in S)}

-----------------------------------------------------------------------------
(* LeaseReconciler.Reconcile: the status it computes *)

SetCondition(status, type, reason) ==
  [status EXCEPT !.conds = [status.conds EXCEPT ![type] = reason]]

(* Mistake: the begin time lies one unit back. *)
StatusBeginEarlier(status) ==
  IF status.begin = None /\ status.exporterRef # None
  THEN SetCondition([status EXCEPT !.begin = now - 1], "Ready", "Ready")
  ELSE status

(* reconcileStatusBeginEndTimes *)
StatusBeginEndTimes(status) ==
  IF status.begin = None /\ status.exporterRef # None
  THEN SetCondition([status EXCEPT !.begin = now], "Ready", "Ready")
  ELSE status

(* Mistake: the end time is forgotten. *)
EndWithoutTime(status) == [status EXCEPT !.ended = TRUE]

(* The two assignments that end a lease in reconcileStatusEnded, Release   *)
(* and Expire.                                                             *)
EndNow(status) == [status EXCEPT !.ended = TRUE, !.end = now]

(* Unsatisfiable or invalid, which ends a lease. *)
Refused(status) ==
  status.conds["Unsatisfiable"] # None \/ status.conds["Invalid"] # None

(* Expiration before now; a lease without duration expires at once. *)
Expired(spec, status) ==
  status.begin # None /\ ExpiresAt(spec, status.begin) < now

(* reconcileStatusEnded: a lease that began and has not run out yet. *)
Running(spec, status) ==
  /\ ~status.ended /\ ~Refused(status) /\ ~spec.release
  /\ status.begin # None /\ ~Expired(spec, status)

(* The branches of reconcileStatusEnded in their order. *)
Ends(status, refused, released, expired) ==
  IF refused THEN EndNow(status)
  ELSE IF released THEN EndNow(SetCondition(status, "Ready", "Released"))
  ELSE IF expired THEN EndNow(SetCondition(status, "Ready", "Expired"))
  ELSE status

(* Mistakes of StatusEnded, by the test that is wrong in each: an ended    *)
(* lease is not left alone, a release heeded only before the lease begins, *)
(* a scheduled lease never expired.                                        *)
StatusEndedAgain(spec, status) ==
  Ends(status, Refused(status), spec.release, Expired(spec, status))

StatusEndedLateRelease(spec, status) ==
  IF status.ended THEN status
  ELSE Ends(status, Refused(status), spec.release /\ status.begin = None,
            Expired(spec, status))

StatusEndedUnscheduled(spec, status) ==
  IF status.ended THEN status
  ELSE Ends(status, Refused(status), spec.release,
            spec.begin = None /\ Expired(spec, status))

(* reconcileStatusEnded, with Lease.Release and Lease.Expire. *)
StatusEnded(spec, status) ==
  IF status.ended THEN status
  ELSE Ends(status, Refused(status), spec.release, Expired(spec, status))

(* RequeueAfter in whole units: zero means no delayed requeue. *)
Delay(d) == IF d > 0 THEN d ELSE None

(* Mistake: no requeue for the expiration. *)
AfterWithoutExpiry(spec, status, wait) == wait

(* The RequeueAfter of the reconcile: reconcileStatusEnded replaces what   *)
(* reconcileStatusExporterRef has asked for by the time left.              *)
After(spec, status, wait) ==
  IF Running(spec, status) THEN Delay(ExpiresAt(spec, status.begin) - now)
  ELSE wait

(* The end of a decision: reconcileStatusExporterRef has made of the       *)
(* status what is given here and asked for a requeue after wait (or, with  *)
(* poll, after a second); the two other reconcileStatus functions follow.  *)
Settle(status, wait, poll) ==
  LET begun == StatusBeginEndTimes(status)
      spec == job.obj.spec
  IN  /\ job' = [job EXCEPT
           !.pc = "decided",
           !.obj.status = StatusEnded(spec, begun),
           !.after = After(spec, begun, wait),
           !.poll = poll]
      /\ UNCHANGED <<now, life, lease, events, known, cache, queue, timer,
                     patches, up, clients, policies, ops, faults>>

-----------------------------------------------------------------------------
(* LeaseReconciler.Reconcile: reconcileStatusExporterRef, branch by branch *)

Searching ==
  /\ job.pc = "read"
  /\ ~job.obj.status.ended
  /\ job.obj.status.exporterRef = None

(* Mistake: the requested BeginTime is not looked at. *)
DueAlways(spec) == TRUE

(* The requested BeginTime has arrived. *)
Due(spec) == spec.begin # None => ~(spec.begin > now)

Selecting == Searching /\ Due(job.obj.spec) /\ job.obj.spec.sel.kind = "labels"

(* ListMatchingExporters *)
Matching == {e \in job.obj.spec.sel.match : up[e] # "deleted"}

(* attachMatchingPolicies fails: the client cannot be read, or a selector  *)
(* of a policy cannot be converted.                                        *)
ApprovalError ==
  /\ policies # {}
  /\ job.obj.spec.client \notin clients \/ PolicyError(Matching, policies)

ApprovedExporters ==
  Approved(Matching, policies, job.obj.spec.client,
           RequestedDuration(Times(job.obj.spec)))

OnlineApproved ==
  Online(ApprovedExporters, {e \in Exporters : up[e] = "online"})

(* The first of the ordered exporters is under spot access. *)
HeadIsSpot == \E a \in First(OnlineApproved, Leased) : a.spot

(* The lease has ended or holds an exporter already. *)
NothingToAssign ==
  /\ job.pc = "read"
  /\ job.obj.status.ended \/ job.obj.status.exporterRef # None
  /\ Settle(job.obj.status, None, FALSE)

ScheduledForLater ==
  /\ Searching
  /\ ~Due(job.obj.spec)
  /\ Settle(job.obj.status, Delay(job.obj.spec.begin - now), FALSE)

SelectorError ==
  /\ Searching
  /\ Due(job.obj.spec)
  /\ job.obj.spec.sel.kind = "invalid"
  /\ Retry
  /\ UNCHANGED faults

SelectorEmpty ==
  /\ Searching
  /\ Due(job.obj.spec)
  /\ job.obj.spec.sel.kind = "empty"
  /\ Settle(SetCondition(job.obj.status, "Invalid", "InvalidSelector"), None, FALSE)

ApprovalFails ==
  /\ Selecting
  /\ ApprovalError
  /\ Retry
  /\ UNCHANGED faults

NoAccess ==
  /\ Selecting
  /\ ~ApprovalError
  /\ ApprovedExporters = {}
  /\ Settle(SetCondition(job.obj.status, "Unsatisfiable", "NoAccess"), None, FALSE)

AllOffline ==
  /\ Selecting
  /\ ~ApprovalError
  /\ ApprovedExporters # {}
  /\ OnlineApproved = {}
  /\ Settle(SetCondition(job.obj.status, "Pending", "Offline"), None, TRUE)

SpotAccessOnly ==
  /\ Selecting
  /\ ~ApprovalError
  /\ HeadIsSpot
  /\ Settle(SetCondition(job.obj.status, "Unsatisfiable", "SpotAccess"), None, FALSE)

(* No approved exporter is free, or the best is held under spot access and *)
(* would have to be taken away, which is not implemented.                  *)
NotAvailable ==
  /\ Selecting
  /\ ~ApprovalError
  /\ OnlineApproved # {} /\ ~HeadIsSpot
  /\ \E spotHeld \in SpotHeldChoices :
       LET available == Available(OnlineApproved, Leased, spotHeld)
       IN  \/ available = {}
           \/ \E s \in First(available, Leased) : s.exporter \in Leased
  /\ Settle(SetCondition(job.obj.status, "Pending", "NotAvailable"), None, TRUE)

AssignExporter ==
  /\ Selecting
  /\ ~ApprovalError
  /\ OnlineApproved # {} /\ ~HeadIsSpot
  /\ \E spotHeld \in SpotHeldChoices :
     \E s \in First(Available(OnlineApproved, Leased, spotHeld), Leased) :
       /\ s.exporter \notin Leased
       /\ Settle([job.obj.status EXCEPT !.exporterRef = s.exporter,
                    !.priority = s.priority, !.spot = s.spot], None, FALSE)

-----------------------------------------------------------------------------
(* LeaseReconciler.Reconcile: writing *)

(* Mistake: no resource version, the last write wins. *)
FreshAlways(l, base) == life[l] = "live"

(* The write carries the resource version of the object it was read with:  *)
(* it is accepted if and only if the lease is still that object.           *)
Fresh(l, base) == life[l] = "live" /\ lease[l] = base

(* A status as the API server stores it. *)
StoredStatus(status) ==
  [status EXCEPT !.begin = Whole(status.begin), !.end = Whole(status.end)]

(* r.Status().Update: replaces the status, on success returns the object. *)
UpdateStatus ==
  /\ job.pc = "decided"
  /\ Fresh(job.lease, job.base)
  /\ LET written == [lease[job.lease] EXCEPT !.status = StoredStatus(job.obj.status)]
     IN  /\ Store(job.lease, written)
         /\ job' = [job EXCEPT !.pc = "statused", !.base = written, !.obj = written]
  /\ UNCHANGED <<now, life, known, cache, queue, timer, patches, up, clients,
                 policies, ops, faults>>

(* A status or metadata write that meets a newer object or none. *)
WriteConflict ==
  /\ job.pc \in {"decided", "statused"}
  /\ ~Fresh(job.lease, job.base)
  /\ Retry
  /\ UNCHANGED faults

(* Mistake: the reconcile ends without an error and without a requeue. *)
OwnerMissingIgnored ==
  /\ job.pc = "statused"
  /\ job.obj.status.exporterRef # None
  /\ up[job.obj.status.exporterRef] = "deleted"
  /\ job' = NoJob
  /\ UNCHANGED <<now, life, lease, events, known, cache, queue, timer,
                 patches, up, clients, policies, ops, faults>>

(* r.Get of the exporter for SetControllerReference finds none. *)
OwnerMissing ==
  /\ job.pc = "statused"
  /\ job.obj.status.exporterRef # None
  /\ up[job.obj.status.exporterRef] = "deleted"
  /\ Retry
  /\ UNCHANGED faults

(* AddAfter: of two delayed requeues of a lease the earlier one is kept. *)
Earlier(t, u) == IF t = None \/ (u # None /\ u < t) THEN u ELSE t

(* Mistake: only released leases are labelled. *)
LabelWhenReleased(obj) == obj.label \/ (obj.status.ended /\ obj.spec.release)

(* The ended label after the metadata write. *)
EndedLabel(obj) == obj.label \/ obj.status.ended

(* r.Update: the ended label and the owner; then the requeue asked for. *)
UpdateMetadata ==
  /\ job.pc = "statused"
  /\ job.obj.status.exporterRef # None => up[job.obj.status.exporterRef] # "deleted"
  /\ Fresh(job.lease, job.base)
  /\ Store(job.lease, [job.obj EXCEPT !.label = EndedLabel(job.obj),
                                     !.owned = @ \/ job.obj.status.exporterRef # None])
  /\ timer' = IF job.after = None THEN timer
              ELSE [timer EXCEPT ![job.lease] = Earlier(@, now + job.after)]
  /\ queue' = IF job.poll THEN queue \cup {job.lease} ELSE queue
  /\ job' = NoJob
  /\ UNCHANGED <<now, life, known, cache, patches, up, clients, policies, ops, faults>>

(* A read or write of the reconcile fails for a reason of its own. *)
CallFails ==
  /\ job.pc # "idle"
  /\ faults < MaxFaults
  /\ faults' = faults + 1
  /\ Retry

(* The manager stops and starts again: work queue, timers, caches and the  *)
(* calls in progress are lost; the informer lists every lease anew.        *)
Restart ==
  /\ faults < MaxFaults
  /\ faults' = faults + 1
  /\ job' = NoJob
  /\ patches' = {}
  /\ timer' = [l \in Leases |-> None]
  /\ events' = {}
  /\ known' = Live
  /\ cache' = lease
  /\ queue' = Live
  /\ UNCHANGED <<now, life, lease, up, clients, policies, ops>>

-----------------------------------------------------------------------------
Init ==
  /\ now = 0
  /\ life = [l \in Leases |-> "unborn"]
  /\ lease = [l \in Leases |-> Blank]
  /\ events = {}
  /\ known = {}
  /\ cache = [l \in Leases |-> Blank]
  /\ queue = {}
  /\ timer = [l \in Leases |-> None]
  /\ job = NoJob
  /\ patches = {}
  /\ up = [e \in Exporters |-> "online"]
  /\ clients = Clients
  /\ policies \in PolicySets
  /\ ops = 0
  /\ faults = 0

ClientCalls ==
  \/ \E l \in Leases, c \in Clients :
       \/ \E sel \in Selectors, d \in LegacyDurations : RequestLease(l, c, sel, d)
       \/ \E sel \in Selectors, ask \in Asks : CreateLease(l, c, sel, ask)
       \/ \E ask \in Asks, target \in Opt(Clients) : UpdateLease(l, c, ask, target)
       \/ ReleaseLease(l, c)
  \/ \E p \in patches : ApplyPatch(p)

World ==
  \/ Tick \/ Resync
  \/ \E e \in Exporters : ExporterFlips(e) \/ DeleteExporter(e)
  \/ \E c \in Clients : DeleteClient(c)
  \/ \E P \in PolicySets : SetPolicies(P)
  \/ \E l \in Leases : CollectLease(l) \/ DeliverLease(l) \/ TimerFires(l)

Decide ==
  \/ NothingToAssign \/ ScheduledForLater \/ SelectorError \/ SelectorEmpty
  \/ ApprovalFails \/ NoAccess \/ AllOffline \/ SpotAccessOnly
  \/ NotAvailable \/ AssignExporter

Write == UpdateStatus \/ WriteConflict \/ OwnerMissing \/ UpdateMetadata

Reconcile == (\E l \in Leases : GetLease(l)) \/ Decide \/ Write

Next == ClientCalls \/ World \/ Reconcile \/ CallFails \/ Restart

Spec == Init /\ [][Next]_vars

(* The processes that keep running: the worker takes queued leases in turn *)
(* and finishes each reconcile, the informer and the timers deliver, calls *)
(* in flight return, the clock runs.  Nothing is assumed of clients,       *)
(* exporters or administrators.                                            *)
Fairness ==
  /\ \A l \in Leases : /\ SF_vars(GetLease(l))
                       /\ WF_vars(DeliverLease(l))
                       /\ WF_vars(TimerFires(l))
  /\ WF_vars(Decide) /\ WF_vars(Write) /\ WF_vars(Tick) /\ WF_vars(Resync)
  /\ WF_vars(\E p \in patches : ApplyPatch(p))

FairSpec == Spec /\ Fairness

(* Every lease, cached copy, timer and patch is well formed; in particular *)
(* no requeue aims at an instant before the clock's start and begin and    *)
(* end times are instants the clock has shown (lease_controller.go).       *)
TypeOK ==
  /\ now \in Nat
  /\ life \in [Leases -> {"unborn", "live", "gone"}]
  /\ lease \in [Leases -> LeaseObject]
  /\ events \subseteq Leases
  /\ known \subseteq Leases
  /\ cache \in [Leases -> LeaseObject]
  /\ queue \subseteq Leases
  /\ timer \in [Leases -> Opt(Nat)]
  /\ job \in Job
  /\ job.pc # "idle" => job.lease \in Leases
  /\ patches \subseteq Patch
  /\ up \in [Exporters -> {"online", "offline", "deleted"}]
  /\ clients \subseteq Clients
  /\ policies \in PolicySets
  /\ ops \in 0..MaxOps
  /\ faults \in 0..MaxFaults

-----------------------------------------------------------------------------
(* What the lease controller must never do *)

(* A lease that has been given an exporter and has not ended. *)
Holds(l, e) ==
  life[l] = "live" /\ lease[l].status.exporterRef = e /\ ~lease[l].status.ended

(* At most one lease that has not ended refers to an exporter, as the      *)
(* filter of leased exporters is there to ensure (lease_controller.go,     *)
(* ListActiveLeases and filterOutLeasedExporters).                         *)
ExclusiveExporter ==
  \A e \in Exporters : \A l, m \in Leases : Holds(l, e) /\ Holds(m, e) => l = m

(* begin exactly when there is an exporter, end exactly when ended and not *)
(* before begin, refused only when ended and without an exporter.          *)
StatusAgrees(s) ==
  /\ (s.begin # None) = (s.exporterRef # None)
  /\ (s.end # None) = s.ended
  /\ (s.begin # None /\ s.end # None) => s.begin <= s.end
  /\ Refused(s) => s.ended /\ s.exporterRef = None

(* The fields of a lease's status agree whatever was interrupted: it has   *)
(* begun exactly when it has an exporter, it has an end time exactly when  *)
(* it has ended and not before it began, and a lease refused as            *)
(* unsatisfiable or invalid has ended without ever having an exporter      *)
(* (the three reconcileStatus functions of lease_controller.go).           *)
StatusCoherent == \A l \in Leases : StatusAgrees(lease[l].status)

(* The ended label, by which every list of active leases is filtered, is   *)
(* only ever on a lease that has ended, although it is set by a second     *)
(* write after the status (lease_controller.go, Reconcile).                *)
LabelTruthful == \A l \in Leases : lease[l].label => lease[l].status.ended

(* A lease will be looked at again, or needs no more attention. *)
Attended(l) ==
  \/ l \in queue \/ l \in events \/ job.lease = l \/ timer[l] # None
  \/ lease[l].status.ended /\ lease[l].label
  \/ /\ ~lease[l].status.ended
     /\ lease[l].status.begin # None
     /\ ExpiresAt(lease[l].spec, lease[l].status.begin) <= now

(* A lease the controller still has to act on will be looked at again: it  *)
(* is queued, being reconciled, has an event on its way or a timer.  Only  *)
(* a lease whose expiration the clock has reached is excepted, because     *)
(* reconcileStatusEnded asks for no requeue at the very instant.           *)
NoLostWakeup == \A l \in Live : Attended(l)

(* A step that changes the time fields of a lease leaves a window that its *)
(* duration agrees with, up to the second that stored times are cut to     *)
(* (ReconcileLeaseTimeFields, called by CreateLease and UpdateLease),      *)
(* unless it is the patch of an update that has read other time fields.    *)
WindowFollows ==
  [][\A l \in Leases :
       \/ Times(lease'[l].spec) = Times(lease[l].spec)
       \/ WindowNear(Times(lease'[l].spec))
       \/ \E p \in patches \ patches' :
            p.lease = l /\ Times(p.old) # Times(lease[l].spec)]_vars

(* An ended lease keeps its status for good, and a lease never changes the *)
(* exporter it was given, even when the reconcile works on an old copy.    *)
StatusFinal ==
  [][\A l \in Leases : life'[l] = "live" =>
       /\ lease[l].status.ended => lease'[l].status = lease[l].status
       /\ lease[l].status.exporterRef # None =>
            lease'[l].status.exporterRef = lease[l].status.exporterRef]_vars

(* Once a client has asked for the release of a lease no write of anyone   *)
(* takes the request back: neither a concurrent UpdateLease nor the        *)
(* reconciler's Update of the whole object.                                *)
ReleaseKept ==
  [][\A l \in Leases :
       (lease[l].spec.release /\ life'[l] = "live") => lease'[l].spec.release]_vars

(* The write that gives a lease its exporter agrees with the lease as it   *)
(* is at that moment: the requested begin time has come, even if an update *)
(* postponed it during the reconcile, and a lease whose release was asked  *)
(* for is not made active.                                                 *)
AssignedWhenWanted ==
  [][\A l \in Leases :
       (life'[l] = "live" /\ lease[l].status.exporterRef = None
          /\ lease'[l].status.exporterRef # None) =>
       /\ lease'[l].spec.begin # None => lease'[l].spec.begin <= now'
       /\ lease'[l].spec.release => lease'[l].status.ended]_vars

(* The decision just taken gives the lease exporter e. *)
Chooses(e) ==
  /\ Searching
  /\ job'.pc = "decided"
  /\ job'.obj.status.exporterRef = e

(* A decision gives the lease an exporter that another lease holds only if *)
(* the informer has yet to deliver an event of that other lease: neither a *)
(* failure between the two writes of a reconcile nor a restart nor an      *)
(* ended label hides a holder from attachExistingLeases for good.          *)
SecondBookingUnseen ==
  [][\A e \in Exporters : \A m \in Leases \ {job.lease} :
       Chooses(e) /\ Holds(m, e) => m \in events]_vars

(* Sorting, filtering and taking the head amounts to this: the exporter    *)
(* chosen is online, allowed without spot access and unleased, and no such *)
(* exporter is allowed at a higher priority; a lease is made to wait for   *)
(* an exporter only while every one it may use is leased; and it is ended  *)
(* as unsatisfiable or invalid only if its selector is empty, no exporter  *)
(* is allowed, or those allowed without spot access are all leased.        *)
DecisionJustified ==
  [][/\ \A e \in Exporters : Chooses(e) =>
          \E a \in OnlineApproved :
            /\ a.exporter = e /\ ~a.spot /\ e \notin Leased
            /\ \A b \in OnlineApproved :
                 (~b.spot /\ b.exporter \notin Leased) => b.priority <= a.priority
     /\ (Searching /\ job'.poll) =>
          \A a \in OnlineApproved : a.exporter \in Leased
     /\ (Searching /\ job'.pc = "decided" /\ Refused(job'.obj.status)) =>
          \/ job.obj.spec.sel.kind = "empty"
          \/ ApprovedExporters = {}
          \/ /\ \E a \in OnlineApproved : a.spot
             /\ \A a \in OnlineApproved : a.spot \/ a.exporter \in Leased]_vars

(* The lifecycle a client may rely on, read off the objects. *)
Phase ==
  [l \in Leases |->
     CASE life[l] # "live"                    -> life[l]
       [] life[l] = "live" /\ lease[l].status.ended -> "ended"
       [] life[l] = "live" /\ ~lease[l].status.ended ->
            IF lease[l].status.exporterRef = None THEN "waiting" ELSE "active"]

Holding ==
  [l \in Leases |-> IF Phase[l] = "active" THEN lease[l].status.exporterRef
                    ELSE None]

Released == [l \in Leases |-> lease[l].spec.release]

Lifecycle ==
  INSTANCE LeaseLifecycle WITH phase <- Phase, holds <- Holding, released <- Released

(* The controller implements the lifecycle: every write to a lease, of     *)
(* whoever and from however old a copy, is a step of it or changes nothing *)
(* of it.                                                                  *)
ImplementsLifecycle == Lifecycle!Spec

-----------------------------------------------------------------------------
(* What the lease controller must eventually do *)

Over(l) == life[l] = "gone" \/ lease[l].status.ended

(* "The release flag requests the controller to end the lease now"         *)
(* (lease_types.go): a released lease ends.                                *)
ReleaseAlwaysHonoured ==
  \A l \in Leases : (life[l] = "live" /\ lease[l].spec.release) ~> Over(l)

(* reconcileStatusExporterRef fails on the lease, and Reconcile returns    *)
(* before reconcileStatusEnded.                                            *)
Failing(l) ==
  LET spec == lease[l].spec
      matching == {e \in spec.sel.match : up[e] # "deleted"}
  IN  /\ lease[l].status.exporterRef = None
      /\ Due(spec)
      /\ \/ spec.sel.kind = "invalid"
         \/ /\ spec.sel.kind = "labels" /\ policies # {}
            /\ spec.client \notin clients \/ PolicyError(matching, policies)

(* A released lease ends, whatever else is patched, fails or is restarted, *)
(* but for a lease whose reconcile fails before it looks at the release    *)
(* (lease_controller.go, Reconcile).                                       *)
ReleaseHonoured ==
  \A l \in Leases :
    []<>~(life[l] = "live" /\ lease[l].spec.release /\ ~Over(l) /\ ~Failing(l))

(* The lease has run out and is not ended. *)
Overdue(l) ==
  /\ life[l] = "live" /\ ~lease[l].status.ended
  /\ lease[l].status.begin # None
  /\ ExpiresAt(lease[l].spec, lease[l].status.begin) < now

(* A lease that has run out ends, unless an update extends it before that: *)
(* its timer wakes the reconciler for it, or a resync if it was reconciled *)
(* at the very instant.                                                    *)
ExpiryHonoured == \A l \in Leases : []<>~Overdue(l)

(* Some exporter that policy allows the lease is online and held by no     *)
(* lease that has not ended.                                               *)
CouldBeGranted(l) ==
  /\ life[l] = "live" /\ ~lease[l].status.ended
  /\ lease[l].status.exporterRef = None
  /\ Due(lease[l].spec)
  /\ \E e \in lease[l].spec.sel.match :
       /\ up[e] = "online"
       /\ \A m \in Leases : ~Holds(m, e)

(* A lease does not wait for ever for an exporter that is free: the holder *)
(* that ended must also be labelled, and the waiting lease polled.         *)
FreeExporterGranted == \A l \in Leases : []<>~CouldBeGranted(l)

-----------------------------------------------------------------------------
(* The inductive invariant behind the safety properties *)

(* What holds at time t of every copy of a lease: the API server's, the    *)
(* informer's and the two of the reconcile in progress.                    *)
Sound(o, t) ==
  /\ StatusAgrees(o.status)
  /\ o.status.begin # None => o.status.begin <= t
  /\ o.label => o.status.ended
  /\ o.owned => o.status.exporterRef # None

CopiesSound ==
  /\ \A l \in Leases : Sound(lease[l], now) /\ Sound(cache[l], now)
  /\ Sound(job.base, now) /\ Sound(job.obj, now)

(* How far the status computed may depart from the object read. *)
StatusFollows(base, obj, t) ==
  /\ base.status.ended => obj.status = base.status
  /\ base.status.exporterRef # None => obj.status.exporterRef = base.status.exporterRef
  /\ (base.status.exporterRef = None /\ obj.status.exporterRef # None) =>
       /\ obj.spec.begin # None => obj.spec.begin <= t
       /\ obj.spec.release => obj.status.ended

JobFaithful ==
  /\ job.pc \in {"read", "statused"} => job.obj = job.base
  /\ job.pc = "decided" => /\ job.obj = [job.base EXCEPT !.status = job.obj.status]
                           /\ StatusFollows(job.base, job.obj, now)

PatchesFaithful == \A p \in patches : p.old.release => p.new.release

(* What is stored is stored in whole seconds. *)
TimesStored == \A l \in Leases : StoredStatus(lease[l].status) = lease[l].status

SafetyInv == TypeOK /\ CopiesSound /\ JobFaithful /\ PatchesFaithful /\ TimesStored

(* A name that was never used has no object. *)
UnbornBlank == \A l \in Leases : life[l] = "unborn" => lease[l] = Blank

(* The cache shows every lease that has no event on its way as it is. *)
CacheFollows == \A l \in Live \ events : l \in known /\ cache[l] = lease[l]

BookingInv == SafetyInv /\ UnbornBlank /\ CacheFollows

(* A reconcile that has decided nothing has asked for no requeue. *)
NotYetAsked == /\ job.pc = "idle" => job.lease = None
               /\ job.pc \in {"idle", "read"} => ~job.poll

(* A decision that leaves the lease open asks for a requeue, unless the    *)
(* lease expires at this very instant.                                     *)
AsksAgain(o, j, t) ==
  ~o.status.ended =>
    \/ j.poll \/ j.after # None
    \/ o.status.begin # None /\ ExpiresAt(o.spec, o.status.begin) <= t

JobWakes == job.pc \in {"decided", "statused"} => AsksAgain(job.obj, job, now)

WakeInv ==
  SafetyInv /\ UnbornBlank /\ NotYetAsked /\ CacheFollows /\ JobWakes /\ NoLostWakeup

(* An update that changes the time fields sends some that agree. *)
WindowsSent ==
  \A p \in patches : Times(p.new) = Times(p.old) \/ WindowNear(Times(p.new))

WindowInv == SafetyInv /\ WindowsSent

(* The exporter of a copy of a lease is one its selector matches, and no   *)
(* patch changes a selector.                                               *)
Selected(o) == o.status.exporterRef # None => o.status.exporterRef \in o.spec.sel.match

SelectionInv ==
  /\ SafetyInv
  /\ \A l \in Leases : Selected(lease[l]) /\ Selected(cache[l])
  /\ Selected(job.base) /\ Selected(job.obj)
  /\ \A p \in patches : p.old.sel = p.new.sel
=============================================================================
