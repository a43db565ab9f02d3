# A TLA+ model of the jumpstarter controller

The jumpstarter controller lends test devices (*exporters*) to *clients*. Both
talk to it by gRPC; it keeps its state in Kubernetes objects (Lease, Exporter,
Client, ExporterAccessPolicy) and works on them with reconcilers. This directory
holds TLA+ modules that model it, TLC configurations that check small instances,
and proofs that TLAPS checks. `PROJECT.json` lists, for machines, the components,
the runs, the wrong versions ("mutants") that show each property has teeth, the
source lines behind every definition, the hazards, the findings and the theorems.

## 1. Inventory

| Part | State | Operations | Talks to | Hard because |
|---|---|---|---|---|
| Lease reconciler (`internal/controller/lease_controller.go`) | Lease status, ended label, owner reference; work queue and timers in memory | `Reconcile`: assign an exporter, set begin time, end the lease | API server (reads through the manager's cache), Exporter, Client and policy objects | cached reads; two writes per reconcile; conflicts, restarts; ends leases only by requeues in memory |
| Selection (`attachMatchingPolicies`, `orderApprovedExporters`, filters) | none | pure functions over lists | | order and filters interact; boundaries |
| Lease RPCs (`internal/service/client/v1`, `controller_service.go`) | none; Lease spec in the API server | `CreateLease`, `RequestLease`, `UpdateLease`, `DeleteLease`, `ReleaseLease` | API server (direct reads), merge patches without resource version | Get and Patch are two steps; concurrent patches |
| Time fields, selectors (`api/v1alpha1/lease_helpers.go`) | none | `ReconcileLeaseTimeFields`, `ParseLabelSelector`, `Release`, `Expire` | | optional fields, precision; a selector is taken apart and put together |
| Exporter reconciler (`exporter_controller.go`) | Exporter status: conditions, leaseRef, credential | `Reconcile` | caches of exporters, leases and secrets | caches of different age; other writers of the same object |
| Registration and heartbeat (`Register`, `Unregister`, `Status`) | Exporter labels, devices, lastSeen | RPCs | API server | patches from old copies |
| Status stream (`Status`) | handler's copies of the exporter, last answer | loop over ticker, watch and context | a Kubernetes watch, the exporter | watches that stall, failed heartbeats, events in any order with ticks |
| `Dial` and `Listen` | `listenQueues`: a channel of 8 tokens per lease | choose a router, put and take | clients, exporters | several streams on one queue, blocking, streams that die with a token in hand |
| Router (`router_service.go`, `router_support.go`) | `pending`: stream name to first stream | `Stream`, `Forward`, `pipe` | two gRPC streams | goroutines that wait for each other; ends that finish or break |
| Client reconciler, credentials (`client_controller.go`, `secret_helpers.go`) | Secret with a token, Client status | `Reconcile`, `ensureSecret` | caches | create after a stale NotFound; objects of the same name one after the other; tokens that end, keys that change |
| Authentication, authorisation, provisioning (`internal/authentication`, `internal/authorization`, `internal/oidc`) | Client objects made on first use | per call: authenticate, authorise or provision, read | API server | two first calls at once; the object changes between two reads |
| Configuration (`internal/config`), `cmd/` | key and configuration as read at the start | start | ConfigMap, Secrets | read once, changed later |
| Dashboard, OIDC endpoint | none | read-only pages | | |
| Operator (`deploy/operator`) | Deployments, Services, ConfigMaps, Secrets, RBAC of an installation | `Reconcile` | API server; the processes it deploys | many writes, each may fail; ownership; deletions by counting up; what processes need before they start |
| Helm charts, manifests, generated protocol code | none | | | |

What makes the parts correct, in short: an exporter is held by one lease at a
time; a lease's status is coherent, final once ended, and agrees with what the
client asked for last; a lease is ended when it is released or runs out, through
crashes; nothing that waits is forgotten; the exporter's status follows leases,
registrations and heartbeats although several writers patch it; an exporter is
told which lease it serves; a token reaches the exporter of its lease once; a
stream delivers what was sent, and ends; only an object's users are let in as it,
and its credential works; an installation comes to be what its spec asks for, with
one key that outlives it.

## 2. Modules

    LeaseTimes --> ExporterSelection --> LeaseController --> LeaseSelection --> MCLease
                          LeaseLifecycle <----/ (refinement)      /
                                               LabelSelector ----/
    LeaseController --> LeaseControllerProofs --> LeaseSelectionProofs <-- LeaseSelection
    Router --> RouterProofs, MCRouter
    DialQueue --> DialQueueProofs, MCDialQueue
    StatusStream --> StatusStreamProofs, MCStatusStream
    ExporterController --> ExporterControllerProofs, MCExporter
    Identity --> IdentityProofs, MCIdentity
    Operator --> OperatorProofs, MCOperator

Definitions marked `Mistake:` are wrong versions of the definition that follows
them. No action uses them; they are the mutants of `PROJECT.json`.

**LeaseTimes.** The three optional time fields (nil is `None`), what
`ReconcileLeaseTimeFields` computes and refuses, the expiration of
`reconcileStatusEnded`, the duration a policy's maximum is held against, and the
fact that the API server keeps times (but not durations) in whole seconds.
Instants are integers; a second has `Second` of them.

**ExporterSelection.** The pipeline of `reconcileStatusExporterRef` as operators
on sets. Instead of sorting, `First` is the set of entries nothing precedes; the
code takes the head of the sorted slice. `orderApprovedExporters` sorts in place,
so the later filter sees the same order. Label selectors are the set they match;
exporters are identified by the rank of their name.

**LeaseController.** The core. Variables: the Lease objects as stored (`lease`,
`life`), the informer (`events`, `known`, `cache`), the work queue and its timers
(`queue`, `timer`), the reconcile in progress (`job`), RPCs between their Get and
their Patch (`patches`), the rest of the world (`up`, `clients`, `policies`,
`now`) and the counters that bound a behaviour (`ops`, `faults`). A reconcile is
three steps, as its API calls make it: `GetLease`, then one of the ten branches
of the decision (`Decide`: `NothingToAssign` ... `AssignExporter`, each of them
followed, through `Settle`, by `reconcileStatusBeginEndTimes` and
`reconcileStatusEnded`), then `UpdateStatus`, then `UpdateMetadata`. Every error
path returns to the queue (`Retry`). The reconciler reads leases from the
informer's cache, as `cmd/main.go` wires it (`mgr.GetClient()`); RPCs read what is
stored. Optimistic locking is by content: a write succeeds if the object is still
the one that was read.

**LeaseLifecycle.** What a client may rely on, in some 50 lines: a lease waits, is
granted one exporter, unless its release was asked for before, ends, and stays
ended, and a release is not forgotten. That no other lease has the exporter is not
part of it, since the code does not ensure it. `LeaseController` maps its objects to
it (`Phase`, `Holding`).

**Router.** Two ends of a stream name, the handlers, the two pipes. `Recv` and
`Send` are separate steps. gRPC is external: a stream whose end has broken or
whose handler has returned fails `Recv` and `Send`.

**StatusStream.** The loop of the `Status` RPC. Heartbeats may be stored,
refused, or stored with the answer lost; the watch may stall at any time.

**DialQueue.** The queues between `Dial` and `Listen`. A stream that is gone may
still win the `select` against its context and take a token. The router is one of
those that match most labels of the exporter, any of them, as the order of a Go map
and of `slices.SortFunc` leave it open.

**ExporterController.** The exporter reconciler and the RPCs that patch the same
object. Leases change by the two writes of the lease reconciler. A heartbeat stores
any time the clock has shown: it is read before the patch is sent
(`controller_service.go:308`, `:310`), and any number of Status streams of one exporter
may be open.

**LabelSelector.** `ParseLabelSelector` on what `labels.Parse` returns: a set of
requirements becomes match labels and match expressions, or is refused.

**LeaseSelection.** Leases whose selectors come from texts that clients write:
`LabelSelector` and `LeaseController` composed, as `LeaseFromProtobuf` does.
`lease_grant` makes its selectors this way.

**Identity.** Clients and Exporters, their secrets and the calls made in their
name. A reconcile is two steps, `ReconcileStatusCredential` (the read of the object
and `ensureSecret`) and `PatchStatus`; a call is `VerifyOIDCToken`, `Authorize`,
perhaps `Provision`, and `GetObject`, with anything in between. Tokens carry the
subject, the key they were signed with and the year; `of` remembers for which
object a token was made, and a call in progress remembers how many objects had been
made when it began (`since`), which objects of the name it asks for were the caller's
since (`ever`, by UID) and whether there was one all the time (`always`); when it is
answered only whether that was right is kept. Properties alone look at these.
`ensureSecret` adopts the secret that an earlier object of the name has left behind,
with its token: `SetControllerReference` compares the owner's kind and name and
replaces its UID.
The process keeps the key and the configuration of its start (`proc`).

**Operator.** The objects of one Jumpstarter resource by kind, replica and
endpoint, with owner and contents. A reconcile works through a list of calls
(`job.todo`: `Put`, `Ensure`, `Delete`) that the operators named after the code's
functions make of the spec as read, endpoint by endpoint for the services; the two
loops of `cleanupExcessRouterServices` go on only while something was found. Contents are
reduced to what can differ: a number for images, resources and configuration, the
addresses given to pods, labels of endpoints. Whether the cluster has Routes or
Ingresses is a constant, as it is discovered once. `pod` has the processes, which
start when their secrets and the ConfigMap are there. What a deleted resource of the
same name has left behind is taken over when it is written, as for secrets above.

## 3. Runs

Passing (properties in parentheses are explained at their definitions):

| Run | Instance | Shows |
|---|---|---|
| `lease_grant` | 2 leases, 1 exporter, selectors as clients write them, an update or a release, `Second = 2`, fair | with the cached reads of the program: the refinement `ImplementsLifecycle`; an exporter that is held is chosen again only while an event of its holder has not reached the cache (`SecondBookingUnseen`); a waiting lease gets the free exporter (`FreeExporterGranted`); the exporter held satisfies what the client wrote in its `CreateLease` (`SelectorHonoured`) |
| `lease_update` | 1 lease with a selector that converts or does not, 2 calls of every kind that may overlap, `Second = 2`, 1 failure or restart, resyncs, fair | the status is coherent and final (`StatusCoherent`, `StatusFinal`), no release is lost, nothing is assigned that is not wanted any more, the window follows each update that is made from the time fields it meets (`WindowFollows`), no lease is forgotten (`NoLostWakeup`), expired leases end (`ExpiryHonoured`) and released ones do unless every reconcile fails first (`ReleaseHonoured`) |
| `lease_policy` | 2 exporters, 5 sets of policies that may change, an exporter going offline, another deleted, a client deleted, garbage collection | the choice of exporter is the best one allowed, waiting is justified, and so is ending a lease as unsatisfiable or invalid (`DecisionJustified`); no lease is forgotten (`NoLostWakeup`) |
| `router_streams` | 1 stream name, 2 frames from each end, fair | nothing out of order or twice, frames sent before CloseSend arrive, handlers return |
| `status_stream` | 2 leases, 2 clients, 3 changes, fair | the exporter is not left with old news on an open stream |
| `dial_tokens` | 1 lease, 2 clients, 2 exporters, routers with different labels, 2 Dials, 2 Listens, a queue of 1, fair | each token in one place, only with the lease's exporter, for a router that fits it best (`RouterFits`); nobody is left waiting while the exporter listens |
| `exporter` | 1 exporter, 1 lease, calls, heartbeats of any earlier time, 1 fault, fair | writers do not undo each other, silence is noticed, registration and `leaseRef` follow |
| `identity` | 1 Client made twice, 2 users whose names normalise to the Client's, calls for it as a client and as an exporter, 3 ConfigMaps, 2 keys, a year, a change and a fault, fair | whoever is let in as an object was a user of this very object during the call, or, if it was made during the call, of one of its name (`LetInRightly`); users are not refused for what others do (`RefusedRightly`), credentials converge through deletions, re-creations over a secret that is not collected yet, spoiled secrets, new keys and expiry (`CredentialsConverge`) |
| `operator` | 2 specs, one with contending endpoints of the controller, up to 2 replicas and endpoints, a change and a fault, the cache of a secret lags, somebody deletes Ingresses, fair | `Converges`, `PodsRun`, also for a resource made again over the objects of its predecessor; keys are made once (`KeysKept`) and shared (`KeysAgree`); a reconcile that finds all in place writes nothing but what the endpoints of the controller contend for (`Idempotent`) |

Every property above has a mutant of the code that breaks it. The type invariants
of the modules other than `LeaseController` hold in the same instances and say what
the variables range over; no run lists them, nor `LabelTruthful`,
which is proved.

Violated, each a disagreement between code and a line of the repository (quoted
under `findings` in `PROJECT.json`):

| Run | What TLC shows |
|---|---|
| `lease_release` | a waiting lease with a selector that cannot be converted is released and never ends under fair scheduling: every reconcile returns the error before it looks at the release |
| `lease_double_booking` | one exporter is assigned to two leases: the second reconcile runs before the first assignment is back in the cache |
| `operator_cleanup` | a call that fails between the deletions for two excess replicas leaves the services of the second: later reconciles stop at the first index that has none |

**Observed beside the runs.** Modelling showed more behaviours that a reader of the
code may not expect. Leases and streams (those that name a constant or formula are
reproduced with it):

- A lease is ended as unsatisfiable with "The only possible exporters are under
  spot access" (`lease_controller.go:265`) although another exporter is allowed
  without it and merely leased: leased exporters sort after free ones and only the
  first is looked at. The last disjunct of `DecisionJustified` is this case.
- What `lease_release` shows for a selector holds under a malformed policy and for a
  client that is gone as well (`Failing`).
- A policy's maximum duration is checked when the exporter is assigned; an update
  may lengthen the lease afterwards. An Unregister of an exporter that is stopping
  may be applied after the Register of the one that replaces it.
- `ParseLabelSelector` refuses `a==b` as an unsupported operator, while `a=b`,
  which means the same, is accepted.
- `UpdateLease` refuses a new begin time for a lease that has started only if the
  request carries one. End time and duration together make
  `ReconcileLeaseTimeFields` compute one, which is stored, although
  `lease_types.go:37` calls the field "Immutable after lease starts".
- Two concurrent updates of one lease send merge patches without resource
  version; each is consistent, together they may store a duration that is not
  the length of the window (`WindowFollows` excepts exactly the patch that meets
  other time fields than it was made from).
- With a duration that is no multiple of a second, the begin time computed from
  end and duration is cut to seconds and the duration is not: they differ by less
  than a second (`WindowNear`).
- `lastSeen` may move back: a heartbeat of a second Status stream may be stored with
  a time that was read before that of the first.
- `Forward` comments "Return on first error" and returns `g.Wait()`, which waits
  for both pipes: when one end breaks, the handlers stay until the other sends,
  finishes or goes. So `HandlersReturn` is stated for two ends that are gone.
- The comparison that detects a stalled watch is skipped while `watchedLastSeen`
  is nil: a watch that stalls before its first event is not noticed. The
  properties of `StatusStream` name the case (`SilentFromStart`).
- Entries of the router's `pending` stay: a third stream with one name would read
  from the first together with the pipe that is there. `listenQueues` is keyed by
  the name of the lease alone and never shrinks.

Credentials and calls:

- `Validate` does not look at the subject of a token. An object that is deleted and
  made again before its secret is collected adopts the secret
  (`secret_helpers.go:62`) and keeps a token that does not let it in, and the
  garbage collector no longer removes it. That lasts until the token is invalid, by
  its end or a new key; `CredentialsConverge` names the case (`Outlived`). The same
  holds of secrets that are orphaned (`Orphans = TRUE`).
- An object that is deleted and made again between the two reads of a call
  (`token.go:51`, `:61`) lets the user of its predecessor in. `LetInRightly` excepts
  objects made during the call for this reason.
- With provisioning on, the holder of the credential of a deleted Client gets the
  Client made again by the next call, with the internal subject as its user name.
- Two first calls of a user at once: one is refused and has to call again.
- The controller keeps the key and the configuration it started with; the operator
  changes the ConfigMap without restarting anybody. `tokenLifetime` and
  `k8s.enabled` of the configuration are read by nothing.

Operator:

- Without endpoints and base domain "create a default service without
  ingress/route" (`jumpstarter_controller.go:377`) creates nothing: the endpoint
  made there enables no kind of service.
- The endpoints of the controller share one name. Two of one kind with different
  labels or annotations rewrite the object, and wake the reconciler, for ever; the
  run `operator` has two of them, and `Idempotent` excepts exactly their objects
  (`Contested`).
- Objects that are as the new spec asks are not written, and so not taken over, when
  a resource is made again under its name: the garbage collector removes them and the
  reconcile that follows makes them anew.
- Scaled-down services may stay although no call fails: without a base domain an
  endpoint may enable no kind of service, and the loop over excess endpoints stops
  there and leaves the services of those behind it. They may also stay when the cache
  of services lags: a spec scaled in and out again finds a service in the cache that
  the cleanup has just deleted and passes over it, and if it is scaled in once more
  before the event arrives, the cleanup stops at that gap.
- A resource that is deleted while it is reconciled gets services made for it still,
  with gaps where others are collected already; what the cleanup then leaves is left
  to the garbage collector.
- Kinds that are disabled later are never removed, nor are Ingresses and Routes of
  replicas or endpoints that are gone. A NodePort number also goes into the other
  kinds of service of its endpoint.
- `spec.authentication` at the top level is not used; that of the controller is.
- Routers that the operator configures have no label but `router-index`, so that
  labels of exporters do not tell them apart in `Dial`.

**Bounds.** `MaxTime`, `MaxOps`, `MaxPatches`, `MaxFaults` (leases), `MaxFrames`
(router), `MaxEvents`, `MaxChanges` (status stream), `Dials`, `Listens`,
`Capacity` (dial), `MaxTime`, `MaxCalls`, `MaxFaults` (exporter), `MaxUids`,
`MaxKeys`, `MaxYears`, `MaxChanges`, `MaxFaults` (identity), `MaxReplicas`,
`MaxEndpoints`, `MaxChanges`, `MaxFaults` (operator). Races in this
code need two leases or two calls, one exporter and one fault at the wrong
moment; two policies with different order are enough for the selection, since it
compares entries in pairs. The clock runs past the begin, the duration and the
end that are asked for, except in `lease_policy`, which is about a single
instant. When it stops, its last value stands for every later instant, so timers
still fire. An expiration that equals the clock exactly leaves the lease without
a requeue until the next event or resync (`RequeueAfter` is then zero);
`lease_update` has resyncs for this reason, and `NoLostWakeup` names the
instant. In `StatusStream` `lastSeen` is counted modulo a number larger than the
distance of any two values that are compared. The loops of the operator are bounded
by 100 and 10 in the code. With 2, as in `operator`, at most one replica or endpoint is
in excess, so no gap can be left behind it; gaps are the subject of `operator_cleanup`,
which has 3 replicas. `operator` also passes if the cache of Ingresses lags as well,
in twice the time. One change of the user is enough to
scale, delete or re-create while a reconcile is under way, since creating the
resource is not counted. In `identity` the Client may be made again, so that there
are copies of two generations; an Exporter takes the same steps but provisioning. In
`exporter` there is one lease: a hand-over from one lease to the next is not explored
(the run would have more than ten million states). Symmetry is used only in runs without liveness.

**Deadlock** is not checked where the model may stop: all calls made, all leases
over, clock at its end. Liveness properties say what must not stop.

**Fairness.** Go schedules goroutines, so a handler, pipe or worker that can take
a step takes it. controller-runtime's queue is first in, first out, so a queued
lease is taken even if others keep being queued (`SF` on `GetLease`). Informers
deliver, timers fire, the clock runs, and calls in flight return. Senders blocked
on a channel are served in turn (`SF` on `DialReturns`, `ReceiveToken`). Kubernetes
collects garbage and starts processes that may start; the operator requeues itself
after 30 minutes, and informers resync, by default after ten hours, which is what
finds an expired token. In `Operator` the informers, the garbage collector and the
kubelets are fair together, which is weaker than each of them. Nothing
is assumed of clients, exporters, connections and administrators, and faults are
never fair.

## 4. Proofs

TLAPS checks the theorems below for every value of the constants: any number of
leases, exporters, clients, policies, streams, calls, replicas, faults and so on.
They use the named `ASSUME`s of the modules, which TLC evaluates in every run: types
of the constants and what `None` is not (a nil pointer or an absent object is no
number, no name and no reason), a second has at least one unit, a queue at least one
place, sets of labels are finite. Three say something about the program's
environment: `labels.Parse` gives (in)equality one value (`TextsAssumption`); names
of users from external issuers have a prefix that the subjects of credentials do not
have (`UsersAreExternal`, from `oidc/config.go` and `oidc/op.go`); specs have no more
replicas and endpoints than the operator's loops look at (`SpecsAssumption`).

An invariant that a property needs is defined at the end of the component's module
(in the proof module if it is only a conjunction) and was checked by TLC on the
instances of the runs before it was proved.

**`LeaseControllerProofs`**

| Theorem | Statement |
|---|---|
| `TypeCorrect` | `Spec => []TypeOK` |
| `StatusAlwaysCoherent` | `Spec => [](StatusCoherent /\ LabelTruthful)` |
| `StatusNeverReopened` | `Spec => StatusFinal` |
| `ReleaseNeverLost` | `Spec => ReleaseKept` |
| `NeverAssignedUnwanted` | `Spec => AssignedWhenWanted` |
| `DecisionAlwaysJustified` | `Spec => DecisionJustified` |
| `NeverLosesWakeup` | `Spec => []NoLostWakeup` |
| `WindowAlwaysFollows` | `Spec => WindowFollows` |
| `SecondBookingAlwaysUnseen` | `Spec => SecondBookingUnseen` |
| `LifecycleImplemented` | `Spec => ImplementsLifecycle` |

`StatusCoherent` is not inductive: a later write may store what the reconcile in
progress has computed, from an object the cache may have had for long. `SafetyInv`
adds what is true of every copy of a lease, stored, cached or in the worker's
hands (`CopiesSound`), how far the worker's copy may differ from the object it
read (`JobFaithful`), what a patch in flight may carry (`PatchesFaithful`), and
that stored times are whole seconds (`TimesStored`; the status is cut to seconds
when it is written, and the proof needs that this keeps begin before end). One
lemma per group of actions shows that it is preserved. The action properties
follow from `SafetyInv` and `StepShape`, which says what a step may do to one
lease: nothing, create it, delete it, edit its spec by a patch, or write what a
reconcile decided, and that only to the object it had read.

- *Double booking.* One exporter may be assigned twice (`lease_double_booking`). What
  the code does ensure is that the lag of the cache is the only way to get there:
  `BookingInv` adds to `SafetyInv` that leases not made yet are blank (`UnbornBlank`)
  and that the cached copy of a live lease for which no event is under way is the
  object as stored (`CacheFollows`), through restarts and relists. A holder without
  such an event is then in the list of active leases, and the filter removes its
  exporter.
- *Refinement.* The initial states map, and by `StepShape` every step that changes a
  lease is an `Ask`, `Release`, `Grant`, `End` or `Vanish` of `LeaseLifecycle`, or does
  not change what it shows. That a lease is not granted after its release needs that
  the write succeeds only on the object that was read.
- *No lost wake-up.* `NoLostWakeup` says that a live lease is queued, in work, has an
  event under way or a timer for the right instant. By itself it does not survive
  `UpdateMetadata`, which drops the job: `WakeInv` adds that a decision that leaves a
  lease open asks for a requeue (`JobWakes`), that a lease the informer has not heard
  of, or knows an old copy of, has an event coming (`CacheFollows`), and that a worker that has not decided asks for
  nothing yet (`NotYetAsked`).
- *Windows.* `WindowInv` adds to `SafetyInv` that an update under way which changes
  the time fields sends some that agree to within a second (`WindowsSent`); a patch
  that meets the fields it was made from stores just these. There is no assumption on
  the number of overlapping updates or on precision.

**`LeaseSelectionProofs`**

| Theorem | Statement |
|---|---|
| `SelectorKeepsMeaning` | if the selector is not refused, what the Lease keeps selects an exporter iff its labels satisfy every requirement |
| `RefusedSelectsNothing` | a selector of supported operators that is refused is satisfied by no labels |
| `SelectorAlwaysHonoured` | `Spec => []SelectorHonoured`: the exporter of a lease satisfies what its client wrote |

The first two go requirement by requirement; several `!=` of one key are satisfied
iff the value is in none of their sets, hence not in the union that is kept. The third
joins the first with `SelectionInv` of the reconciler: every copy of a lease refers to
an exporter that its selector matches, and no patch in flight changes a selector.

**The other components**

| Module | Theorem | Statement |
|---|---|---|
| `ExporterControllerProofs` | `TypeCorrect` | `Spec => []TypeOK` |
| | `OnlineAlwaysWatched` | `Spec => []OnlineWatched` |
| | `WritersStayApart` | `Spec => WritersApart` |
| `RouterProofs` | `AlwaysFaithful` | `Spec => []Faithful` |
| `DialQueueProofs` | `TokenAlwaysOnce` | `Spec => []TokenOnce` |
| | `AlwaysDeliveredToHolder` | `Spec => []DeliveredToHolder` |
| | `RouterAlwaysFits` | `Spec => []RouterFits` |
| `StatusStreamProofs` | `TypeCorrect`, `NeverFalseAlarm` | `Spec => []TypeOK`, `Spec => []NoFalseAlarm` |
| `IdentityProofs` | `AlwaysLetInRightly` | `Spec => []LetInRightly` |
| | `AlwaysRefusedRightly` | `Spec => []RefusedRightly` |
| `OperatorProofs` | `TypeCorrect` | `Spec => []TypeOK` |
| | `KeysAlwaysKept` | `Spec => KeysKept`, if secrets are not in `Removable` |
| | `KeysAlwaysAgree` | `Spec => []KeysAgree`, under the same condition |

- *Exporter.* A timer is set only by the reconcile that found the exporter online,
  from a copy. `SafetyInv` adds that the cache is current or an event is coming
  (`CacheFollows`), that a reconcile on old conditions will be followed by another and
  one that finds the exporter online asks for a requeue (`JobWatched`), and which
  fields each writer leaves alone between its read and its patch (`WritersFaithful`).
- *Router.* The frames of an end are with the other end, in the hand of the pipe and
  in the inbox, in this order and without gap (`InOrder`), and a pipe leads to the
  other end of the same name (`Paired`).
- *Dial.* The places of a token exclude each other, and no queue has one twice
  (`OnePlace`); queues, Dials and Listens stay with the lease and the exporter that
  were checked when they began (`QueueBound`, `DialBound`, `ListenBound`). That some
  router matches most labels of an exporter uses that sets of labels are finite.
- *Status stream.* `NoFalseAlarm` is inductive with the types: between the heartbeat
  that is stored and its comparison the watch has its event under way.
- *Calls.* `CallSafe` says that what a call remembers is true of the objects of now,
  whatever is edited, deleted or made again: an object of the caller is in `ever` with
  its UID, an object that is not the caller's has ended `always`; and what each stage
  of the call implies for it. UIDs are given out in order, which tells objects made
  during the call from those before it.
- *Operator.* Every list of calls that the operators make of a spec names objects
  within the loops' bounds, ensures secrets and nothing else, and neither puts nor
  deletes them (`IsStep`, `IsTodo`); secrets have no owner and so are no garbage. The
  position of the loops is part of the invariant (`Placed`). The condition says that
  nobody but the operator deletes the secrets.

**Only model-checked.** Liveness and fairness, which the prover does not handle
(`FreeExporterGranted`, `ReleaseHonoured`, `ExpiryHonoured`, `FramesArrive`,
`HandlersReturn`, `TokenServed`, `ReportsCurrent`, `CredentialsConverge`,
`Converges`, `PodsRun` and the like); and `Idempotent`, which depends on the specs of
the run as far as `AsAsked`, which says when the objects are as a spec wants them,
looks at the image of a deployment and not at the address it was given.

## 5. Abstractions and omissions

- Names, messages, device reports and the labels that `Register` copies are data no
  property looks into. In `LeaseController` a selector is the set it selects.
- The delay of one second with which a waiting lease polls is a requeue at once;
  so is the back-off of a failed reconcile.
- A merge patch is applied field by field against the object as stored. The
  conditions of an exporter, a list, are one field.
- Leases are deleted only by the garbage collector, after their owner.
- Dial and Listen do not ask whether a lease has ended, so `DialQueue` has no
  ended leases.
- Signatures, OIDC discovery, YAML and gRPC keepalive options are the business of
  libraries; a section of the ConfigMap is missing, malformed or good. Users of
  external issuers have valid tokens.
- The stream tokens that `Dial` signs and the router checks are a name; their
  lifetime of 30 minutes is not modelled.
- In `Operator` one namespace holds one Jumpstarter resource. Status of the
  resource, which the code does not write yet, and the REST settings of the spec,
  which nothing reads, are left out. Only kinds in `Lagging` have a cache of their
  own; the others are read as stored.

**Not modelled.** The dashboard and the discovery document (read-only pages),
conversion of objects to protobuf, generated code (`*.pb.go`, `zz_generated*`),
Helm charts, manifests and build files, and the operator's and the controller's
command lines: they keep no state that another part reads.

## 6. Plan

1. *Done:* the lease core with its proofs, the router, the status stream, the dial
   queue with the choice of a router, the exporter reconciler, credentials and
   calls, the operator, label selectors with their proofs.
2. The order by priority with machine integers, checked against a reference.
3. Composition: leases, exporter status, status stream and dial, from assignment
   to delivered token; reconnecting ends in the router.
4. Proofs: `Idempotent`, with an `AsAsked` that looks at all that a deployment was made
   with. It is the only safety property of a passing run that no theorem states.
