------------------------------ MODULE Operator ------------------------------
(***************************************************************************)
(* The operator (deploy/operator): JumpstarterReconciler brings the        *)
(* objects of one Jumpstarter resource to what its spec asks for, one call *)
(* of the API server after the other, and starts over when a call fails.   *)
(* The processes it deploys (cmd/main.go, cmd/router/main.go) read their   *)
(* keys and their configuration once, when they start.                     *)
(*                                                                         *)
(* The reconciler reads the informers' caches and writes to the API server *)
(* with optimistic concurrency.  Objects that belong to a resource that is *)
(* gone are removed by the garbage collector.                              *)
(*                                                                         *)
(* A definition whose comment starts with "Mistake:" is a wrong version of *)
(* the definition after it; nothing uses it.                               *)
(***************************************************************************)
EXTENDS Integers, Sequences, FiniteSets, SequencesExt

CONSTANTS
  None,
  Specs,             \* the specs a user may write
  MaxReplicas,       \* bound of the loops over replicas; 100 in the code
  MaxEndpoints,      \* bound of the loops over endpoints; 10 in the code
  RouteAvailable, IngressAvailable,  \* what the cluster offers
  Lagging,           \* kinds of objects whose cache lags behind
  Removable,         \* kinds of objects that somebody may delete
  Pods,              \* deployments whose processes are looked at
  Batches,           \* kinds of objects that are collected as garbage together
  MaxChanges,        \* edits, deletions and objects deleted by somebody
  MaxFaults          \* failed calls and restarts in a behaviour

(* The replica number of the controller, which has no number. *)
Controller == -1

Replicas == 0..(MaxReplicas - 1)
EndpointIdx == 0..(MaxEndpoints - 1)

(* Kinds of network objects; the three kinds of services differ in the     *)
(* suffix of their name.                                                   *)
ServiceKinds == <<"ClusterIP", "LoadBalancer", "NodePort">>
Services == Range(ServiceKinds)
Network == Services \cup {"Ingress", "Route"}

(* Endpoint of the spec: the kinds that are enabled, the address, of which *)
(* only counts whether it is a name to route by, and labels, which stands  *)
(* for labels, annotations and the address as objects take them over.      *)
Endpoint == [kinds : SUBSET Network, address : {"", "name", "bad"},
             labels : Nat]

(* Images, resources, authentication, gRPC: all that the pod templates and *)
(* the configuration take over from the spec, as one value.                *)
Settings == Nat

(* JumpstarterSpec: domain says that there is a base domain. *)
IsSpec(s) ==
  /\ s \in [domain : BOOLEAN, image : Settings, replicas : 1..MaxReplicas,
            controller : Seq(Endpoint), routers : Seq(Endpoint)]
  /\ Len(s.routers) <= MaxEndpoints

ASSUME SpecsAssumption == \A s \in Specs : IsSpec(s)
ASSUME NoneIsNoObject == None \notin [owner : Nat, data : Nat]  \* no object
ASSUME ClusterAssumption == RouteAvailable \in BOOLEAN /\ IngressAvailable \in BOOLEAN
ASSUME OperatorBounds ==
  /\ MaxReplicas \in Nat \ {0} /\ MaxEndpoints \in Nat \ {0}
  /\ MaxChanges \in Nat /\ MaxFaults \in Nat

(* Names of objects: kind, replica (or Controller) and endpoint.           *)
Key(kind, replica, endpoint) == <<kind, replica, endpoint>>

(* The cluster may not have ingresses or routes. *)
Offered == Network \ ((IF IngressAvailable THEN {} ELSE {"Ingress"}) \cup
                                  (IF RouteAvailable THEN {} ELSE {"Route"}))
Singletons == {"ServiceAccount", "Role", "RoleBinding", "ConfigMap", "ControllerSecret",
               "RouterSecret"}
Secrets == {Key("ControllerSecret", Controller, 0), Key("RouterSecret", Controller, 0)}
Keys ==
  {Key(k, Controller, 0) : k \in Singletons} \cup
  {Key("Deployment", i, 0) : i \in {Controller} \cup Replicas} \cup
  {Key(k, Controller, 0) : k \in Offered} \cup
  {Key(k, i, e) : k \in Offered, i \in Replicas, e \in EndpointIdx}

LagKeys == {k \in Keys : k[1] \in Lagging}

(* ServiceAccount and secrets have no owner reference. *)
Owned(key) == key[1] \notin {"ServiceAccount", "ControllerSecret", "RouterSecret"}

(* SetupWithManager: Owns(...) *)
Watched == {"Deployment", "ConfigMap", "Role", "RoleBinding", "ClusterIP",
            "LoadBalancer", "NodePort"}

VARIABLES
  cr,       \* the Jumpstarter resource, or None
  seen,     \* the informer's copy of it
  objects,  \* the objects in the API server: [owner, data], or None
  cache,    \* the informers' copies of those that lag behind
  queued,   \* the resource is in the work queue
  timer,    \* a requeue after 30 minutes is set
  job,      \* the reconcile in progress
  pod,      \* the process of each deployment looked at, or None
  uids,     \* resources made so far
  keys,     \* random keys made so far
  count     \* changes made by users and faults so far

vars == <<cr, seen, objects, cache, queued, timer, job, pod, uids, keys, count>>

NoSpec == [domain |-> FALSE, image |-> 0, replicas |-> 1, controller |-> <<>>,
           routers |-> <<>>]
NoJob == [stage |-> "idle", uid |-> 0, spec |-> NoSpec, todo |-> <<>>, replica |-> 0,
          endpoint |-> 0, found |-> FALSE]

-----------------------------------------------------------------------------
(* What a spec asks for *)

ensureEndpointServiceType(ep) ==
  IF ep.kinds # {} THEN ep
  ELSE [ep EXCEPT !.kinds = {IF RouteAvailable THEN "Route"
                             ELSE IF IngressAvailable THEN "Ingress" ELSE "ClusterIP"}]

DefaultedEndpoints(eps) ==
  IF eps = <<>>
  THEN <<ensureEndpointServiceType([kinds |-> {}, address |-> "name", labels |-> 0])>>
  ELSE [j \in DOMAIN eps |-> ensureEndpointServiceType(eps[j])]

ApplyEndpointDefaults(s) ==
  IF ~s.domain THEN s
  ELSE [s EXCEPT !.controller = DefaultedEndpoints(s.controller),
                 !.routers = DefaultedEndpoints(s.routers)]

(* buildEndpointForReplica: a router's default address needs the domain. *)
buildEndpointForReplica(s, ep) ==
  [ep EXCEPT !.address = IF ep.address # "" THEN ep.address
                         ELSE IF s.domain THEN "name" ELSE "bad"]

(* The endpoints of every replica; with none in the spec, one that enables *)
(* nothing.                                                                *)
RouterEndpoints(s) ==
  IF s.routers = <<>>
  THEN <<[kinds |-> {}, address |-> IF s.domain THEN "name" ELSE "bad", labels |-> 0]>>
  ELSE [j \in DOMAIN s.routers |-> buildEndpointForReplica(s, s.routers[j])]

(* Steps of a reconcile: a CreateOrUpdate, an ensureSecretExists, or the   *)
(* deletion of some objects one after the other.                           *)
Put(key, data) == [op |-> "put", keys |-> <<key>>, data |-> data]
Ensure(key) == [op |-> "ensure", keys |-> <<key>>, data |-> 0]
Delete(ks) == [op |-> "delete", keys |-> ks, data |-> 0]

(* createServiceAccount, createRole, createRoleBinding: what they hold     *)
(* does not depend on the spec.                                            *)
RBACData == 0

reconcileRBAC ==
  <<Put(Key("ServiceAccount", Controller, 0), RBACData), Put(Key("Role", Controller, 0), RBACData),
    Put(Key("RoleBinding", Controller, 0), RBACData)>>

(* Pods are given the address of their first endpoint.  An endpoint        *)
(* without one has the default that the base domain makes.                 *)
FirstAddress(eps) == IF eps = <<>> THEN <<"", 0>> ELSE <<eps[1].address, eps[1].labels>>

createControllerDeployment(s) == <<s.image, FirstAddress(s.controller)>>

reconcileControllerDeployment(s) ==
  <<Put(Key("Deployment", Controller, 0), createControllerDeployment(s))>>

buildRouterEndpointForReplica(s, replica) == <<replica, FirstAddress(s.routers)>>

createRouterDeployment(s, replica) == <<s.image, buildRouterEndpointForReplica(s, replica)>>

reconcileRouterDeployment(s) ==
  [j \in 1..s.replicas |-> Put(Key("Deployment", j - 1, 0), createRouterDeployment(s, j - 1))]

(* An Ingress or a Route is left out without an error if the cluster has   *)
(* no such thing or the address is no name.                                *)
createIngressForEndpoint(ep, replica, endpoint) ==
  IF IngressAvailable /\ ep.address = "name"
  THEN <<Put(Key("Ingress", replica, endpoint), ep.labels)>> ELSE <<>>

createRouteForEndpoint(ep, replica, endpoint) ==
  IF RouteAvailable /\ ep.address = "name"
  THEN <<Put(Key("Route", replica, endpoint), ep.labels)>> ELSE <<>>

createService(kind, ep, replica, endpoint) == <<Put(Key(kind, replica, endpoint), ep.labels)>>

IfEnabled(ep, kinds, steps) == IF ep.kinds \cap kinds # {} THEN steps ELSE <<>>

(* Ingress and Route lead to the ClusterIP service. *)
ReconcileRouterReplicaEndpoint(ep, i, e) ==
  IfEnabled(ep, {"Ingress"}, createIngressForEndpoint(ep, i, e))
  \o IfEnabled(ep, {"Route"}, createRouteForEndpoint(ep, i, e))
  \o IfEnabled(ep, {"LoadBalancer"}, createService("LoadBalancer", ep, i, e))
  \o IfEnabled(ep, {"NodePort"}, createService("NodePort", ep, i, e))
  \o IfEnabled(ep, {"ClusterIP", "Ingress", "Route"}, createService("ClusterIP", ep, i, e))

(* Every endpoint of the controller has the same name, so that the last    *)
(* one of a kind stays.                                                    *)
ReconcileControllerEndpoint(ep) == ReconcileRouterReplicaEndpoint(ep, Controller, 0)

EndpointsOf(s, i) == IF i = Controller THEN s.controller ELSE RouterEndpoints(s)

(* One turn of the loops of reconcileServices. *)
EndpointSteps(s, i, e) ==
  IF i = Controller THEN ReconcileControllerEndpoint(s.controller[e + 1])
  ELSE ReconcileRouterReplicaEndpoint(RouterEndpoints(s)[e + 1], i, e)

buildConfig(s) == s.image

(* An entry for each replica. *)
buildRouter(s) == [i \in 0..(s.replicas - 1) |-> buildRouterEndpointForReplica(s, i)]

createConfigMap(s) == <<buildConfig(s), buildRouter(s)>>

reconcileConfigMaps(s) == <<Put(Key("ConfigMap", Controller, 0), createConfigMap(s))>>

(* Mistake: the routers' key is forgotten. *)
SecretsWithoutRouterKey == <<Ensure(Key("ControllerSecret", Controller, 0))>>

reconcileSecrets ==
  <<Ensure(Key("ControllerSecret", Controller, 0)), Ensure(Key("RouterSecret", Controller, 0))>>

(* The services of one endpoint of one replica: "", "-lb", "-np". *)
ServicesOf(replica, endpoint) ==
  [j \in 1..3 |-> Key(ServiceKinds[j], replica, endpoint)]

ServicesOfReplica(replica) ==
  [n \in 1..(3 * MaxEndpoints) |->
     Key(ServiceKinds[((n - 1) % 3) + 1], replica, (n - 1) \div 3)]

-----------------------------------------------------------------------------
(* The API server, the informers and the work queue *)

(* The informer's copy of an object. *)
Cached(k) == IF k \in LagKeys THEN cache[k] ELSE objects[k]

(* A change of a watched object wakes the reconciler when the informer     *)
(* hears of it.                                                            *)
Wakes(k) == k \notin LagKeys /\ k[1] \in Watched

Store(k, obj) ==
  /\ objects' = [objects EXCEPT ![k] = obj]
  /\ queued' = (queued \/ (Wakes(k) /\ objects[k] # obj))
  /\ UNCHANGED cache

(* Those of ks that are there are deleted. *)
Without(ks) == [k \in Keys |-> IF k \in ks THEN None ELSE objects[k]]

DeleteAll(ks) ==
  /\ \E gone \in {ks} : objects' = Without(gone)
  /\ queued' = (queued \/ \E k \in ks : Wakes(k) /\ objects[k] # None)
  /\ UNCHANGED cache

DeliverObjects(kind) ==
  /\ \E k \in LagKeys : k[1] = kind /\ cache[k] # objects[k]
  /\ cache' = [k \in LagKeys |-> IF k[1] = kind THEN objects[k] ELSE cache[k]]
  /\ queued' = (queued \/ kind \in Watched)
  /\ UNCHANGED <<cr, seen, objects, timer, job, pod, uids, keys, count>>

DeliverResource ==
  /\ seen # cr
  /\ seen' = cr
  /\ queued' = TRUE
  /\ UNCHANGED <<cr, objects, cache, timer, job, pod, uids, keys, count>>

(* RequeueAfter: 30 minutes *)
TimerFires ==
  /\ timer
  /\ timer' = FALSE
  /\ queued' = TRUE
  /\ UNCHANGED <<cr, seen, objects, cache, job, pod, uids, keys, count>>

(* The owner of an object is gone, or waits for the object to go. *)
Garbage(k) ==
  /\ objects[k] # None
  /\ objects[k].owner # 0
  /\ ~(cr # None /\ cr.uid = objects[k].owner /\ ~cr.deleting)

CollectGarbage(batch) ==
  /\ \E k \in Keys : k[1] \in batch /\ Garbage(k)
  /\ DeleteAll({k \in Keys : k[1] \in batch /\ Garbage(k)})
  /\ UNCHANGED <<cr, seen, timer, job, pod, uids, keys, count>>

-----------------------------------------------------------------------------
(* The user *)

Change == /\ count.changes < MaxChanges
          /\ count' = [count EXCEPT !.changes = @ + 1]

CreateResource(s) ==
  /\ cr = None
  /\ uids' = uids + 1
  /\ cr' = [uid |-> uids + 1, spec |-> s, deleting |-> FALSE]
  /\ UNCHANGED <<seen, objects, cache, queued, timer, job, pod, keys, count>>

EditSpec(s) ==
  /\ cr # None
  /\ s # cr.spec
  /\ Change
  /\ cr' = [cr EXCEPT !.spec = s]
  /\ UNCHANGED <<seen, objects, cache, queued, timer, job, pod, uids, keys>>

(* In the background, or in the foreground: after what it owns. *)
DeleteResource ==
  /\ cr # None
  /\ ~cr.deleting
  /\ Change
  /\ cr' \in {None, [cr EXCEPT !.deleting = TRUE]}
  /\ UNCHANGED <<seen, objects, cache, queued, timer, job, pod, uids, keys>>

DeletionEnds ==
  /\ cr # None
  /\ cr.deleting
  /\ \A k \in Keys : ~Garbage(k)
  /\ cr' = None
  /\ UNCHANGED <<seen, objects, cache, queued, timer, job, pod, uids, keys, count>>

Drift(k) ==
  /\ k[1] \in Removable /\ objects[k] # None
  /\ Change
  /\ DeleteAll({k})
  /\ UNCHANGED <<cr, seen, timer, job, pod, uids, keys>>

-----------------------------------------------------------------------------
(* JumpstarterReconciler.Reconcile *)

(* A resource that is gone or is being deleted is left alone. *)
GetJumpstarter ==
  /\ queued /\ job.stage = "idle"
  /\ queued' = FALSE
  /\ job' = IF seen = None \/ seen.deleting THEN NoJob
            ELSE LET s == ApplyEndpointDefaults(seen.spec)
                 IN  [NoJob EXCEPT !.stage = "workloads", !.uid = seen.uid, !.spec = s,
                                   !.todo = reconcileRBAC \o reconcileControllerDeployment(s)
                                            \o reconcileRouterDeployment(s)]
  /\ UNCHANGED <<cr, seen, objects, cache, timer, pod, uids, keys, count>>

(* A call returned an error: the reconcile ends and is retried. *)
Abort ==
  /\ job' = NoJob
  /\ queued' = TRUE
  /\ UNCHANGED <<objects, cache, keys>>

Proceed(found) == job' = [job EXCEPT !.todo = Tail(@), !.found = found]

Skip == Proceed(job.found) /\ UNCHANGED <<objects, cache, queued, keys>>

Write(k, obj) ==
  /\ Store(k, obj)
  /\ Proceed(job.found)
  /\ UNCHANGED keys

(* deploymentNeedsUpdate, configMapNeedsUpdate, roleNeedsUpdate ... compare *)
(* what the object holds and not its owner.                                 *)
NeedsUpdate(k, desired) == Cached(k).data # desired.data

(* createOrUpdateService, ...Ingress and ...Route set what the object      *)
(* holds and its owner; CreateOrUpdate writes if that made a difference.   *)
NetworkNeedsUpdate(k, desired) == k[1] \in Network /\ Cached(k) # desired

(* controllerutil.CreateOrUpdate: create what the cache does not have;     *)
(* update, if the copy is not up to date a Conflict.                       *)
(* SetControllerReference compares the owner's kind and name and replaces  *)
(* its UID, so that what a resource of the same name has left behind is    *)
(* taken over when it is written, and otherwise keeps its owner.           *)
CreateOrUpdate(k, data) ==
  LET desired == [owner |-> IF Owned(k) THEN job.uid ELSE 0, data |-> data]
  IN  IF Cached(k) = None
      THEN IF objects[k] = None THEN Write(k, desired) ELSE Abort
      ELSE IF ~NeedsUpdate(k, desired) /\ ~NetworkNeedsUpdate(k, desired) THEN Skip
      ELSE IF objects[k] # Cached(k) THEN Abort
      ELSE Write(k, desired)

(* Mistake: the key is made anew whenever the cache has none. *)
EnsureSecretPut(k) ==
  IF Cached(k) # None THEN Skip
  ELSE /\ Store(k, [owner |-> 0, data |-> keys + 1])
       /\ Proceed(job.found)
       /\ keys' = keys + 1

(* ensureSecretExists: AlreadyExists is no error. *)
ensureSecretExists(k) ==
  IF Cached(k) # None \/ objects[k] # None THEN Skip
  ELSE /\ Store(k, [owner |-> 0, data |-> keys + 1])
       /\ Proceed(job.found)
       /\ keys' = keys + 1

(* r.Delete of each, of which NotFound is no error. *)
DeleteObjects(ks) ==
  /\ DeleteAll(ks)
  /\ Proceed(\E k \in ks : objects[k] # None)
  /\ UNCHANGED keys

(* The next call of the reconcile. *)
Step ==
  /\ job.todo # <<>>
  /\ LET o == Head(job.todo)
     IN  CASE o.op = "put" -> CreateOrUpdate(o.keys[1], o.data)
           [] o.op = "ensure" -> ensureSecretExists(o.keys[1])
           [] o.op = "delete" -> DeleteObjects(Range(o.keys))
  /\ UNCHANGED <<cr, seen, timer, pod, uids, count>>

At(stage) == job.stage = stage /\ job.todo = <<>>
Enter(stage, todo) == job' = [job EXCEPT !.stage = stage, !.todo = todo]

(* Mistake: one replica too many is deleted. *)
ExcessFromLess(s) == s.replicas - 1

(* Where the deletion of excess replicas starts. *)
ExcessFrom(s) == s.replicas

(* The excess deployments that are in the cache are listed, and deleted    *)
(* one by one.                                                             *)
cleanupExcessRouterDeployments(s) ==
  [j \in 1..(MaxReplicas - ExcessFrom(s)) |->
     LET k == Key("Deployment", ExcessFrom(s) + j - 1, 0)
     IN  Delete(IF Cached(k) # None THEN <<k>> ELSE <<>>)]

CleanupDeployments ==
  /\ At("workloads")
  /\ Enter("deployments", cleanupExcessRouterDeployments(job.spec))
  /\ UNCHANGED <<cr, seen, objects, cache, queued, timer, pod, uids, keys, count>>

(* cleanupExcessRouterServices, first loop: replicas from the first excess *)
(* one on, up to one that has nothing to delete.                           *)
TrimReplica(i) ==
  job' = [job EXCEPT !.stage = "excess", !.replica = i, !.found = FALSE,
                     !.todo = <<Delete(ServicesOfReplica(i))>>]

(* Its second loop: in each replica that stays, endpoints from the first   *)
(* excess one on, up to one that has nothing to delete.                    *)
NumEndpoints(s) == Len(RouterEndpoints(s))

TrimEndpoint(i, e) ==
  job' = [job EXCEPT !.stage = "surplus", !.replica = i, !.endpoint = e, !.found = FALSE,
                     !.todo = <<Delete(ServicesOf(i, e))>>]

(* The first replica from i on that is looked at in the second loop. *)
TrimEndpointsFrom(i) ==
  IF i < job.spec.replicas /\ NumEndpoints(job.spec) < MaxEndpoints
  THEN TrimEndpoint(i, NumEndpoints(job.spec))
  ELSE Enter("settings", reconcileConfigMaps(job.spec) \o reconcileSecrets)

TrimReplicas ==
  IF ExcessFrom(job.spec) < MaxReplicas THEN TrimReplica(ExcessFrom(job.spec))
  ELSE TrimEndpointsFrom(0)

(* reconcileServices: the objects of endpoint e of replica i, or of the    *)
(* controller; of the next one if there is no such endpoint.  Every router *)
(* has an endpoint.                                                        *)
Expose(i, e) ==
  job' = [job EXCEPT !.stage = "services", !.replica = i, !.endpoint = e,
                     !.todo = EndpointSteps(job.spec, i, e)]

ExposeFrom(i, e) ==
  IF e < Len(EndpointsOf(job.spec, i)) THEN Expose(i, e)
  ELSE IF i + 1 < job.spec.replicas THEN Expose(i + 1, 0)
  ELSE TrimReplicas

ReconcileServices ==
  /\ \/ At("deployments") /\ ExposeFrom(Controller, 0)
     \/ At("services") /\ ExposeFrom(job.replica, job.endpoint + 1)
  /\ UNCHANGED <<cr, seen, objects, cache, queued, timer, pod, uids, keys, count>>

TrimServices ==
  /\ \/ /\ At("excess")
        /\ IF job.found /\ job.replica + 1 < MaxReplicas THEN TrimReplica(job.replica + 1)
           ELSE TrimEndpointsFrom(0)
     \/ /\ At("surplus")
        /\ IF job.found /\ job.endpoint + 1 < MaxEndpoints
           THEN TrimEndpoint(job.replica, job.endpoint + 1)
           ELSE TrimEndpointsFrom(job.replica + 1)
  /\ UNCHANGED <<cr, seen, objects, cache, queued, timer, pod, uids, keys, count>>

(* updateStatus does nothing yet. *)
ReconcileEnds ==
  /\ At("settings")
  /\ job' = NoJob
  /\ timer' = TRUE
  /\ UNCHANGED <<cr, seen, objects, cache, queued, pod, uids, keys, count>>

(* Mistake: the error is logged and not returned. *)
FailsSilently ==
  /\ job.todo # <<>> /\ count.faults < MaxFaults
  /\ count' = [count EXCEPT !.faults = @ + 1]
  /\ job' = NoJob
  /\ UNCHANGED <<cr, seen, objects, cache, queued, timer, pod, uids, keys>>

(* A call fails, after some of the deletions of a step were made, or the   *)
(* operator restarts and its informers list anew.                          *)
CallFails ==
  /\ job.todo # <<>> /\ count.faults < MaxFaults
  /\ count' = [count EXCEPT !.faults = @ + 1]
  /\ queued' = TRUE
  /\ job' = NoJob
  /\ LET o == Head(job.todo)
     IN  IF o.op = "delete"
         THEN \E gone \in {{o.keys[j] : j \in 1..(n - 1)} : n \in 1..Len(o.keys)} :
                objects' = Without(gone)
         ELSE UNCHANGED objects
  /\ UNCHANGED <<cr, seen, cache, timer, pod, uids, keys>>

Restart ==
  /\ count.faults < MaxFaults
  /\ count' = [count EXCEPT !.faults = @ + 1]
  /\ job' = NoJob
  /\ timer' = FALSE
  /\ seen' = cr
  /\ cache' = [k \in LagKeys |-> objects[k]]
  /\ queued' = TRUE
  /\ UNCHANGED <<cr, objects, pod, uids, keys>>

-----------------------------------------------------------------------------
(* The processes: cmd/main.go and cmd/router/main.go *)

Deployed(p) == objects[Key("Deployment", p, 0)]
Stored(name) == objects[Key(name, Controller, 0)]

(* The secrets that the environment of a pod refers to. *)
EnvironmentThere(p) ==
  /\ Stored("RouterSecret") # None
  /\ p = Controller => Stored("ControllerSecret") # None

(* LoadRouterConfiguration (and LoadConfiguration): what the operator put  *)
(* into the ConfigMap can be read.                                         *)
ConfigurationLoads == Stored("ConfigMap") # None

(* A process that cannot load its configuration exits and is started       *)
(* again.                                                                  *)
MayStart(p) == Deployed(p) # None /\ EnvironmentThere(p) /\ ConfigurationLoads

(* The pod of a deployment starts, or is replaced as its template changed. *)
PodStarts(p) ==
  /\ MayStart(p)
  /\ ~(pod[p] # None /\ pod[p].template = Deployed(p).data)
  /\ pod' = [pod EXCEPT ![p] = [template |-> Deployed(p).data,
                                key |-> Stored("RouterSecret").data,
                                config |-> Stored("ConfigMap").data]]
  /\ UNCHANGED <<cr, seen, objects, cache, queued, timer, job, uids, keys, count>>

PodStops(p) ==
  /\ pod[p] # None
  /\ \/ Deployed(p) = None /\ UNCHANGED count
     \/ /\ count.faults < MaxFaults
        /\ count' = [count EXCEPT !.faults = @ + 1]
  /\ pod' = [pod EXCEPT ![p] = None]
  /\ UNCHANGED <<cr, seen, objects, cache, queued, timer, job, uids, keys>>

-----------------------------------------------------------------------------
Init ==
  /\ cr = None /\ seen = None
  /\ objects = [k \in Keys |-> None]
  /\ cache = [k \in LagKeys |-> None]
  /\ queued = FALSE /\ timer = FALSE
  /\ job = NoJob
  /\ pod = [p \in Pods |-> None]
  /\ uids = 0 /\ keys = 0
  /\ count = [changes |-> 0, faults |-> 0]

Reconcile ==
  \/ GetJumpstarter \/ Step \/ CleanupDeployments \/ ReconcileServices \/ TrimServices
  \/ ReconcileEnds

(* Informers of objects, and garbage collector. *)
Cluster ==
  \/ \E kind \in Lagging : DeliverObjects(kind)
  \/ DeletionEnds \/ \E batch \in Batches : CollectGarbage(batch)

Next ==
  \/ \E s \in Specs : CreateResource(s) \/ EditSpec(s)
  \/ DeleteResource \/ \E k \in Keys : Drift(k)
  \/ DeliverResource \/ Cluster \/ TimerFires \/ Reconcile \/ CallFails \/ Restart
  \/ \E p \in Pods : PodStarts(p) \/ PodStops(p)

Spec == Init /\ [][Next]_vars

(* Informers, timers, the worker, the garbage collector and the kubelets   *)
(* run; the last two and the informers of objects as one, which assumes    *)
(* less than each by itself.  Nothing is assumed of the user.              *)
Fairness ==
  /\ WF_vars(DeliverResource) /\ WF_vars(TimerFires) /\ WF_vars(Reconcile)
  /\ WF_vars(Cluster \/ \E p \in Pods : PodStarts(p))

FairSpec == Spec /\ Fairness

-----------------------------------------------------------------------------
Live == cr # None /\ ~cr.deleting

Holds(k, data) == objects[k] # None /\ objects[k].data = data

(* Objects that the reconciler owns belong to the resource that asks. *)
Belongs(k) == objects[k] # None /\ (Owned(k) => objects[k].owner = cr.uid)
InPlace(k, data) == Holds(k, data) /\ Belongs(k)

(* What a spec asks for, as a user would put it: per replica a deployment, *)
(* and its endpoints' objects; the configuration lists every replica with  *)
(* the address that its process has been given.                            *)
WorkloadsInPlace(s) ==
  /\ \A k \in {"Role", "RoleBinding"} : InPlace(Key(k, Controller, 0), 0)
  /\ Stored("ServiceAccount") # None
  /\ \A i \in {Controller} \cup 0..(s.replicas - 1) :
       Belongs(Key("Deployment", i, 0)) /\ Deployed(i).data[1] = s.image
  /\ \A i \in s.replicas..(MaxReplicas - 1) : Deployed(i) = None

(* Which objects an endpoint asks for. *)
Exposes(ep, kind) ==
  CASE kind = "Ingress" -> "Ingress" \in ep.kinds /\ IngressAvailable /\ ep.address = "name"
    [] kind = "Route" -> "Route" \in ep.kinds /\ RouteAvailable /\ ep.address = "name"
    [] kind = "ClusterIP" -> ep.kinds \cap {"ClusterIP", "Ingress", "Route"} # {}
    [] OTHER -> kind \in ep.kinds

ExposedInPlace(s) ==
  /\ \A j \in DOMAIN s.controller, k \in Network :
       Exposes(s.controller[j], k) => \E n \in DOMAIN s.controller :
         InPlace(Key(k, Controller, 0), s.controller[n].labels)
  /\ \A j \in DOMAIN s.routers :
       \A k \in {kind \in Network : Exposes(RouterEndpoints(s)[j], kind)} :
         \A i \in 0..(s.replicas - 1) : InPlace(Key(k, i, j - 1), s.routers[j].labels)

SettingsInPlace(s) ==
  /\ InPlace(Key("ConfigMap", Controller, 0),
             <<s.image, [i \in 0..(s.replicas - 1) |-> Deployed(i).data[2]]>>)
  /\ \A k \in Secrets : objects[k] # None

AsAsked(s) == WorkloadsInPlace(s) /\ ExposedInPlace(s) /\ SettingsInPlace(s)

(* Services of replicas or endpoints that the spec does not have. *)
Excess(s) ==
  {k \in Keys : /\ k[1] \in Services /\ objects[k] # None
                /\ \/ k[2] >= s.replicas
                   \/ k[2] # Controller /\ k[3] >= Len(RouterEndpoints(s))}

IsResource(r) == r = None \/ r \in [uid : 1..uids, spec : Specs, deleting : BOOLEAN]

IsObject(o) == o = None \/ (DOMAIN o = {"owner", "data"} /\ o.owner \in 0..uids)

(* Objects and their copies are well formed; those without an owner        *)
(* reference never get one.                                                *)
ObjectsTyped ==
  /\ DOMAIN objects = Keys /\ DOMAIN cache = LagKeys
  /\ \A k \in Keys : /\ IsObject(objects[k]) /\ IsObject(Cached(k))
                     /\ objects[k] # None => (objects[k].owner # 0) = Owned(k)

(* The above, and the calls of a reconcile name objects that the operator  *)
(* knows (Reconcile of jumpstarter_controller.go).                         *)
TypeOK ==
  /\ IsResource(cr)
  /\ ObjectsTyped
  /\ queued \in BOOLEAN /\ timer \in BOOLEAN
  /\ \A j \in DOMAIN job.todo : Range(job.todo[j].keys) \subseteq Keys
  /\ uids \in Nat /\ keys \in Nat
  /\ count \in [changes : 0..MaxChanges, faults : 0..MaxFaults]

(* What the proofs add to TypeOK. *)

(* Secrets are only ever ensured; they are neither put nor deleted. *)
IsStep(o) ==
  \/ o.op = "put" /\ \E k \in Keys \ Secrets : o.keys = <<k>>
  \/ o.op = "ensure" /\ \E k \in Secrets : o.keys = <<k>>
  \/ o.op = "delete" /\ o.keys \in Seq(Keys \ Secrets)

IsTodo(t) == t \in Seq(Range(t)) /\ \A j \in DOMAIN t : IsStep(t[j])

(* Where the loops over replicas and endpoints are. *)
Placed ==
  /\ job.replica \in Controller..(MaxReplicas - 1) /\ job.endpoint \in Nat
  /\ job.stage \in {"services", "surplus"} => job.replica < job.spec.replicas
  /\ job.stage \in {"excess", "surplus"} => job.replica # Controller

JobInv ==
  /\ DOMAIN job = DOMAIN NoJob
  /\ IsSpec(job.spec)
  /\ job.uid \in 0..uids
  /\ job.todo # <<>> => job.stage # "idle"
  /\ job.stage # "idle" => job.uid # 0
  /\ IsTodo(job.todo)
  /\ Placed

OperatorInv == TypeOK /\ IsResource(seen) /\ JobInv

-----------------------------------------------------------------------------
(* Keys are made once: neither a reconcile, whose cache may not have the   *)
(* secret yet, nor the deletion and the re-creation of the resource        *)
(* changes or removes the key of a secret (ensureSecretExists), which the  *)
(* tokens that exporters and clients hold depend on.                       *)
KeysKept == [][\A k \in Secrets : objects[k] # None => objects'[k] = objects[k]]_vars

(* Every process that runs, whenever and under whichever resource it was   *)
(* started, has the key that the secret has now, and so they agree on the  *)
(* key that signs and checks the tokens of streams (ROUTER_KEY).           *)
KeysAgree ==
  \A p \in Pods : pod[p] # None => Holds(Key("RouterSecret", Controller, 0), pod[p].key)

(* However the spec was edited, the resource deleted and created again,    *)
(* objects deleted and calls refused, in the end every object is there, as *)
(* the spec asks, and belongs to the resource of now (Reconcile): an       *)
(* object that was found up to date may still belong to a resource that is *)
(* gone, and go with it.                                                   *)
Converges == <>[](Live => AsAsked(ApplyEndpointDefaults(cr.spec)))

(* Objects of the controller that two of its endpoints ask for in          *)
(* different ways: both write the object of that one name.                 *)
Contested(s) ==
  {k \in Keys : /\ k[1] \in Network /\ k[2] = Controller
                /\ \E j, n \in DOMAIN s.controller :
                     /\ Exposes(s.controller[j], k[1]) /\ Exposes(s.controller[n], k[1])
                     /\ s.controller[j].labels # s.controller[n].labels}

(* A reconcile whose copies are up to date and that finds all as the spec  *)
(* asks.                                                                   *)
Undisturbed ==
  LET s == ApplyEndpointDefaults(cr.spec)
  IN  Live /\ job.spec = s /\ job.uid = cr.uid /\ (\A k \in LagKeys : cache[k] = objects[k])
      /\ AsAsked(s) /\ Excess(s) = {}

(* Once all is as the spec asks a reconcile writes nothing, or else it     *)
(* would wake itself (Owns) and never come to rest.  The exception is what *)
(* endpoints of the controller contend for (ReconcileControllerEndpoint    *)
(* names its objects after the controller alone): that it does write again *)
(* each time.                                                              *)
Idempotent ==
  [][objects' # objects /\ job' # job /\ count' = count /\ Undisturbed =>
       \A k \in Keys \ Contested(job.spec) : objects'[k] = objects[k]]_vars

(* "This ensures that when replicas or endpoints are scaled down, the      *)
(* corresponding services are removed" (cleanupExcessRouterServices).      *)
ExcessRemoved == <>[](Live => Excess(ApplyEndpointDefaults(cr.spec)) = {})

(* The processes run in the end, although the deployments are made before  *)
(* the configuration and the keys that the processes need to start.        *)
PodsRun ==
  <>[](Live => \A p \in Pods : p < cr.spec.replicas =>
                 pod[p] # None /\ pod[p].template[1] = cr.spec.image)
=============================================================================
