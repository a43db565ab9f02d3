---------------------------- MODULE StatusStream ----------------------------
(***************************************************************************)
(* ControllerService.Status (internal/service/controller_service.go): the  *)
(* stream that tells an exporter which lease it serves and for whom.  Its  *)
(* handler is one loop over a ticker, which writes status.lastSeen, and a  *)
(* Kubernetes watch of the exporter, whose events make it send.            *)
(*                                                                         *)
(* lastSeen is the number of the heartbeat that wrote it, reduced modulo a *)
(* number of values large enough for those compared to be told apart.      *)
(*                                                                         *)
(* A definition whose comment starts with "Mistake:" is a wrong version of *)
(* the definition after it; nothing uses it.                               *)
(***************************************************************************)
EXTENDS Naturals, Sequences

CONSTANTS
  None,
  Leases,      \* leases of this exporter
  Clients,     \* clients a lease may belong to
  MaxEvents,   \* watch events on their way
  MaxChanges   \* changes made by others in a behaviour

ASSUME NoneIsNoName == None \notin Leases \cup Clients \cup Nat
ASSUME StreamBounds == MaxEvents \in Nat \ {0} /\ MaxChanges \in Nat

VARIABLES
  exporter,  \* the Exporter in the API server: [lastSeen, leaseRef]
  exists,    \* it has not been deleted
  client,    \* per lease: spec.clientRef, or None when the lease is deleted
  changes,   \* changes by others so far
  pc,        \* the handler: "off", "opening" or "running"
  watch,     \* "live" or "stalled": a watch that has silently stopped
  events,    \* watch events not received yet
  mine,      \* the handler's variable exporter: its lastSeen
  watched,   \* watchedLastSeen
  told       \* lastPbStatusResponse: what the exporter was told last

vars == <<exporter, exists, client, changes, pc, watch, events, mine, watched, told>>

(* Never, the stored values, and a value that could not be stored. *)
Never == 0
Stored == 1..(MaxEvents + 3)
Unstored == MaxEvents + 4
Seen == {Never, Unstored} \cup Stored

Exporter == [lastSeen : {Never} \cup Stored, leaseRef : Leases \cup {None}]

(* StatusResponse; Leased says whether there is a lease. *)
Response == {r \in [lease : Leases \cup {None}, client : Clients \cup {None}] :
               (r.lease = None) = (r.client = None)}

-----------------------------------------------------------------------------
(* The API server, and others that change the exporter or its leases *)

Notify(obj) ==
  events' = IF pc # "off" /\ watch = "live" THEN Append(events, obj) ELSE events

Change ==
  /\ changes < MaxChanges
  /\ changes' = changes + 1

(* The exporter reconciler patches status.leaseRef. *)
SetLeaseRef(l) ==
  /\ exists /\ l # exporter.leaseRef
  /\ l # None => client[l] # None
  /\ Len(events) < MaxEvents
  /\ Change
  /\ exporter' = [exporter EXCEPT !.leaseRef = l]
  /\ Notify(exporter')
  /\ UNCHANGED <<exists, client, pc, watch, mine, watched, told>>

(* UpdateLease hands a lease over: the exporter object does not change. *)
TransferLease(l, c) ==
  /\ client[l] \notin {None, c}
  /\ Change
  /\ client' = [client EXCEPT ![l] = c]
  /\ UNCHANGED <<exporter, exists, pc, watch, events, mine, watched, told>>

DeleteLease(l) ==
  /\ client[l] # None
  /\ Change
  /\ client' = [client EXCEPT ![l] = None]
  /\ UNCHANGED <<exporter, exists, pc, watch, events, mine, watched, told>>

(* The last event of a watch carries the exporter as it was. *)
DeleteExporter ==
  /\ exists
  /\ Len(events) < MaxEvents
  /\ Change
  /\ exists' = FALSE
  /\ Notify(exporter)
  /\ UNCHANGED <<exporter, client, pc, watch, mine, watched, told>>

(* "the k8s watchers sometimes stop functioning silently" *)
WatchStalls ==
  /\ pc # "off" /\ watch = "live"
  /\ watch' = "stalled"
  /\ events' = <<>>
  /\ UNCHANGED <<exporter, exists, client, changes, pc, mine, watched, told>>

-----------------------------------------------------------------------------
(* The handler *)

(* The stream ends: the deferred calls stop the watch and the ticker. *)
Return ==
  /\ pc' = "off"
  /\ watch' = "live"
  /\ events' = <<>>
  /\ mine' = Never
  /\ watched' = None
  /\ told' = None

(* authenticateExporter reads the exporter; the watch starts with an event *)
(* for the object that is there.                                           *)
Open ==
  /\ pc = "off"
  /\ exists
  /\ pc' = "opening"
  /\ events' = <<exporter>>
  /\ mine' = exporter.lastSeen
  /\ UNCHANGED <<exporter, exists, client, changes, watch, watched, told>>

(* online: the patch is stored, and the exporter in hand becomes what the  *)
(* API server returns; or its answer is lost; or it is refused.            *)
Beat ==
  \/ /\ exists
     /\ Len(events) < MaxEvents
     /\ exporter' = [exporter EXCEPT !.lastSeen = (@ % (MaxEvents + 3)) + 1]
     /\ mine' \in {exporter'.lastSeen, Unstored}
     /\ Notify(exporter')
  \/ /\ mine' = Unstored
     /\ UNCHANGED <<exporter, events>>

(* "calling online immediately once" *)
FirstBeat ==
  /\ pc = "opening"
  /\ Beat
  /\ pc' = "running"
  /\ UNCHANGED <<exists, client, changes, watch, watched, told>>

(* Mistake: the comparison is left out. *)
MismatchNever == FALSE

(* "last seen time mismatch" *)
Mismatch == watched # None /\ watched # mine

TickBeats ==
  /\ pc = "running"
  /\ ~Mismatch
  /\ Beat
  /\ UNCHANGED <<exists, client, changes, pc, watch, watched, told>>

TickMismatch ==
  /\ pc = "running"
  /\ Mismatch
  /\ Return
  /\ UNCHANGED <<exporter, exists, client, changes>>

ResponseFor(ref) ==
  [lease |-> ref, client |-> IF ref = None THEN None ELSE client[ref]]

(* Mistake: the answer is compared by lease alone. *)
SameLease(response) == told # None /\ told.lease = response.lease

(* proto.Equal *)
Same(response) == told = response

(* The Get of the lease that the exporter refers to succeeds. *)
Readable(ref) == ref # None => client[ref] # None

(* Mistake: only the first event is recorded. *)
RecordedOnce(obj) == IF watched = None THEN obj.lastSeen ELSE watched

(* watchedLastSeen after an event *)
Recorded(obj) == obj.lastSeen

(* An event is received: the exporter in hand is replaced, the lease read, *)
(* and what is new is sent.                                                *)
ReceiveEvent ==
  /\ pc = "running"
  /\ events # <<>>
  /\ LET ref == Head(events).leaseRef
     IN  /\ Readable(ref)
         /\ told' = IF Same(ResponseFor(ref)) THEN told ELSE ResponseFor(ref)
  /\ mine' = Head(events).lastSeen
  /\ watched' = Recorded(Head(events))
  /\ events' = Tail(events)
  /\ UNCHANGED <<exporter, exists, client, changes, pc, watch>>

(* "failed to get lease on exporter" *)
LeaseMissing ==
  /\ pc = "running"
  /\ events # <<>>
  /\ ~Readable(Head(events).leaseRef)
  /\ Return
  /\ UNCHANGED <<exporter, exists, client, changes>>

(* The call is cancelled, Send fails, the Get of the lease fails, the      *)
(* watch is closed or reports an error: the handler returns.               *)
StreamBreaks ==
  /\ pc \in {"opening", "running"}
  /\ Return
  /\ UNCHANGED <<exporter, exists, client, changes>>

-----------------------------------------------------------------------------
Init ==
  /\ exporter = [lastSeen |-> Never, leaseRef |-> None]
  /\ exists = TRUE
  /\ client \in [Leases -> Clients]
  /\ changes = 0
  /\ pc = "off"
  /\ watch = "live"
  /\ events = <<>>
  /\ mine = Never
  /\ watched = None
  /\ told = None

Others ==
  \/ \E l \in Leases \cup {None} : SetLeaseRef(l)
  \/ \E l \in Leases, c \in Clients : TransferLease(l, c)
  \/ \E l \in Leases : DeleteLease(l)
  \/ DeleteExporter

Event == ReceiveEvent \/ LeaseMissing

Next ==
  \/ Others \/ WatchStalls
  \/ Open \/ FirstBeat \/ TickBeats \/ TickMismatch \/ Event \/ StreamBreaks

Spec == Init /\ [][Next]_vars

(* The handler's loop runs, its ticker ticks and the select takes an event *)
(* that stays ready; Go's select chooses among ready cases at random.      *)
(* That exporters connect, and that streams break, is not assumed.         *)
Fairness ==
  /\ WF_vars(FirstBeat) /\ WF_vars(TickBeats \/ TickMismatch) /\ WF_vars(Event)

FairSpec == Spec /\ Fairness

(* The handler's copies are well formed: what it tells an exporter names a *)
(* client whenever it names a lease (Status in controller_service.go).     *)
TypeOK ==
  /\ exporter \in Exporter
  /\ exists \in BOOLEAN
  /\ client \in [Leases -> Clients \cup {None}]
  /\ changes \in 0..MaxChanges
  /\ pc \in {"off", "opening", "running"}
  /\ watch \in {"live", "stalled"}
  /\ events \in Seq(Exporter)
  /\ mine \in Seen
  /\ watched \in {None, Never} \cup Stored
  /\ told \in Response \cup {None}

-----------------------------------------------------------------------------
(* A watch that stalled before it delivered anything: the comparison of    *)
(* the ticker is not made before the first event.                          *)
SilentFromStart == watch = "stalled" /\ watched = None

(* The comparison of the ticker accuses the watch only if the watch is     *)
(* stalled, or late with an event, or the last heartbeat was not stored.   *)
NoFalseAlarm ==
  pc = "running" /\ Mismatch => watch = "stalled" \/ events # <<>> \/ mine = Unstored

(* The exporter is never left with an outdated lease or client on an open  *)
(* stream: it is told again, also when only the client of the lease        *)
(* changed, which the watch does not see, or its stream ends and it has to *)
(* connect anew.                                                           *)
ReportsCurrent ==
  []<>(\/ pc # "running"
       \/ told = ResponseFor(exporter.leaseRef)
       \/ SilentFromStart)

(* The stream of a deleted exporter does not stay open: the heartbeats     *)
(* fail and the comparison notices.                                        *)
DeletedExporterLeft == ~exists ~> (pc = "off" \/ SilentFromStart)
=============================================================================
