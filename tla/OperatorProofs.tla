--------------------------- MODULE OperatorProofs ---------------------------
(***************************************************************************)
(* What the operator does to the keys of an installation, for every set of *)
(* specs, every number of replicas, endpoints, changes and faults, and     *)
(* whichever caches lag behind.                                            *)
(***************************************************************************)
EXTENDS Operator, TLAPS

-----------------------------------------------------------------------------
(* Lists of calls *)

(* Calls that are fine one by one are fine as a list. *)
LEMMA TodoOf ==
  ASSUME NEW S, NEW t \in Seq(S), \A o \in S : IsStep(o)
  PROVE  IsTodo(t)
<1>1. DOMAIN t = 1..Len(t) /\ Len(t) \in Nat /\ \A j \in 1..Len(t) : t[j] \in S
  OBVIOUS
<1>2. \A j \in DOMAIN t : t[j] \in Range(t)
  BY DEF Range
<1>3. t \in Seq(Range(t))
  BY <1>1, <1>2
<1> QED
  BY <1>1, <1>3 DEF IsTodo

LEMMA TodoElements ==
  ASSUME NEW t, IsTodo(t)
  PROVE  /\ t \in Seq(Range(t))
         /\ \A o \in Range(t) : IsStep(o)
  BY DEF IsTodo, Range

LEMMA TodoConcat ==
  ASSUME NEW a, NEW b, IsTodo(a), IsTodo(b)
  PROVE  IsTodo(a \o b)
<1> DEFINE S == Range(a) \cup Range(b)
<1>1. a \in Seq(Range(a)) /\ b \in Seq(Range(b)) /\ \A o \in S : IsStep(o)
  BY TodoElements
<1>2. a \in Seq(S) /\ b \in Seq(S)
  BY <1>1
<1>3. a \o b \in Seq(S)
  BY <1>2
<1> HIDE DEF S
<1> QED
  BY <1>1, <1>3, TodoOf

LEMMA TodoTail ==
  ASSUME NEW t, IsTodo(t), t # <<>>
  PROVE  IsTodo(Tail(t)) /\ IsStep(Head(t))
<1>1. t \in Seq(Range(t)) /\ \A o \in Range(t) : IsStep(o)
  BY TodoElements
<1>2. Tail(t) \in Seq(Range(t)) /\ Head(t) \in Range(t)
  BY <1>1
<1> QED
  BY <1>1, <1>2, TodoOf

LEMMA TodoEmpty == IsTodo(<<>>)
<1> DEFINE S == {}
<1>1. <<>> \in Seq(S) /\ \A x \in S : IsStep(x)
  OBVIOUS
<1> HIDE DEF S
<1> QED
  BY <1>1, TodoOf, Zenon

LEMMA TodoOne ==
  ASSUME NEW o, IsStep(o)
  PROVE  IsTodo(<<o>>)
<1> DEFINE S == {o}
<1>1. <<o>> \in Seq(S)
  OBVIOUS
<1>2. \A x \in S : IsStep(x)
  OBVIOUS
<1> HIDE DEF S
<1> QED
  BY <1>1, <1>2, TodoOf, Zenon

(* The three kinds of calls. *)
LEMMA PutIsStep ==
  ASSUME NEW k \in Keys \ Secrets, NEW data
  PROVE  IsStep(Put(k, data))
  BY DEF IsStep, Put

LEMMA DeleteIsStep ==
  ASSUME NEW ks \in Seq(Keys \ Secrets)
  PROVE  IsStep(Delete(ks))
  BY DEF IsStep, Delete

(* Names *)
LEMMA KeyShape ==
  /\ \A k \in Singletons : Key(k, Controller, 0) \in Keys
  /\ \A i \in {Controller} \cup Replicas : Key("Deployment", i, 0) \in Keys \ Secrets
  /\ \A k \in Offered : Key(k, Controller, 0) \in Keys \ Secrets
  /\ \A k \in Offered, i \in Replicas, e \in EndpointIdx : Key(k, i, e) \in Keys \ Secrets
  /\ \A k \in {"ServiceAccount", "Role", "RoleBinding", "ConfigMap"} :
       Key(k, Controller, 0) \in Keys \ Secrets
  /\ Secrets \subseteq Keys
  BY DEF Keys, Secrets, Key, Offered, Network, Services, ServiceKinds, Range, Singletons

LEMMA ServicesOffered ==
  /\ Services = {"ClusterIP", "LoadBalancer", "NodePort"}
  /\ \A j \in 1..3 : ServiceKinds[j] \in Services
  /\ Services \subseteq Offered
  /\ IngressAvailable => "Ingress" \in Offered
  /\ RouteAvailable => "Route" \in Offered
  BY DEF Services, ServiceKinds, Range, Offered, Network

-----------------------------------------------------------------------------
(* Specs *)

LEMMA SpecFields ==
  ASSUME NEW s, IsSpec(s)
  PROVE  /\ s.replicas \in 1..MaxReplicas
         /\ s.controller \in Seq(Endpoint) /\ s.routers \in Seq(Endpoint)
         /\ Len(s.routers) <= MaxEndpoints
         /\ s.domain \in BOOLEAN /\ s.image \in Settings
  BY DEF IsSpec

LEMMA EndpointDefaulted ==
  ASSUME NEW ep \in Endpoint
  PROVE  ensureEndpointServiceType(ep) \in Endpoint
<1> DEFINE kind == IF RouteAvailable THEN "Route" ELSE IF IngressAvailable THEN "Ingress" ELSE "ClusterIP"
<1>1. kind \in Network
  BY ServicesOffered DEF Network
<1>2. ensureEndpointServiceType(ep) = IF ep.kinds # {} THEN ep ELSE [ep EXCEPT !.kinds = {kind}]
  BY DEF ensureEndpointServiceType
<1> HIDE DEF kind
<1>3. {kind} \in SUBSET Network
  BY <1>1
<1>4. [ep EXCEPT !.kinds = {kind}] \in Endpoint
  BY <1>3 DEF Endpoint
<1> QED
  BY <1>2, <1>4

LEMMA EndpointsDefaulted ==
  ASSUME NEW eps \in Seq(Endpoint), NEW m \in Nat \ {0}, Len(eps) <= m
  PROVE  DefaultedEndpoints(eps) \in Seq(Endpoint) /\ Len(DefaultedEndpoints(eps)) <= m
<1>1. CASE eps = <<>>
  <2> DEFINE ep == ensureEndpointServiceType([kinds |-> {}, address |-> "name", labels |-> 0])
  <2>1. ep \in Endpoint
    BY EndpointDefaulted DEF Endpoint
  <2>2. DefaultedEndpoints(eps) = <<ep>>
    BY <1>1 DEF DefaultedEndpoints
  <2> HIDE DEF ep
  <2> QED
    BY <2>1, <2>2
<1>2. CASE eps # <<>>
  <2>1. DefaultedEndpoints(eps) = [j \in 1..Len(eps) |-> ensureEndpointServiceType(eps[j])]
    BY <1>2 DEF DefaultedEndpoints
  <2>2. \A j \in 1..Len(eps) : ensureEndpointServiceType(eps[j]) \in Endpoint
    BY EndpointDefaulted
  <2> QED
    BY <2>1, <2>2
<1> QED
  BY <1>1, <1>2

LEMMA SpecDefaulted ==
  ASSUME NEW s, IsSpec(s)
  PROVE  IsSpec(ApplyEndpointDefaults(s))
<1>1. CASE ~s.domain
  BY <1>1 DEF ApplyEndpointDefaults
<1>2. CASE s.domain
  <2> DEFINE t == [s EXCEPT !.controller = DefaultedEndpoints(s.controller),
                            !.routers = DefaultedEndpoints(s.routers)]
  <2>1. ApplyEndpointDefaults(s) = t
    BY <1>2 DEF ApplyEndpointDefaults
  <2>2. DefaultedEndpoints(s.routers) \in Seq(Endpoint)
        /\ Len(DefaultedEndpoints(s.routers)) <= MaxEndpoints
    BY SpecFields, EndpointsDefaulted, OperatorBounds
  <2>3. DefaultedEndpoints(s.controller) \in Seq(Endpoint)
    <3>1. PICK m \in Nat \ {0} : Len(s.controller) <= m
      <4>1. Len(s.controller) \in Nat
        BY SpecFields
      <4>2. Len(s.controller) + 1 \in Nat \ {0} /\ Len(s.controller) <= Len(s.controller) + 1
        BY <4>1
      <4> QED
        BY <4>2
    <3> QED
      BY <3>1, SpecFields, EndpointsDefaulted
  <2>4. /\ t \in [domain : BOOLEAN, image : Settings, replicas : 1..MaxReplicas,
                  controller : Seq(Endpoint), routers : Seq(Endpoint)]
        /\ t.routers = DefaultedEndpoints(s.routers)
    BY <2>2, <2>3 DEF IsSpec
  <2> HIDE DEF t
  <2> QED
    BY <2>1, <2>2, <2>4 DEF IsSpec
<1> QED
  BY <1>1, <1>2

(* Every router has an endpoint, and not more than the loops look at. *)
LEMMA RouterEndpointsShape ==
  ASSUME NEW s, IsSpec(s)
  PROVE  /\ Len(RouterEndpoints(s)) \in 1..MaxEndpoints
         /\ RouterEndpoints(s) \in Seq(Endpoint)
<1>0. s.domain \in BOOLEAN /\ s.routers \in Seq(Endpoint) /\ Len(s.routers) <= MaxEndpoints
  BY SpecFields
<1>1. CASE s.routers = <<>>
  <2> DEFINE ep == [kinds |-> {}, address |-> IF s.domain THEN "name" ELSE "bad", labels |-> 0]
  <2>1. ep \in Endpoint
    BY <1>0 DEF Endpoint
  <2>2. RouterEndpoints(s) = <<ep>>
    BY <1>1 DEF RouterEndpoints
  <2> HIDE DEF ep
  <2> QED
    BY <2>1, <2>2, OperatorBounds
<1>2. CASE s.routers # <<>>
  <2>1. RouterEndpoints(s) = [j \in 1..Len(s.routers) |-> buildEndpointForReplica(s, s.routers[j])]
    BY <1>0, <1>2 DEF RouterEndpoints
  <2>2. \A j \in 1..Len(s.routers) : buildEndpointForReplica(s, s.routers[j]) \in Endpoint
    <3> SUFFICES ASSUME NEW j \in 1..Len(s.routers)
                 PROVE  buildEndpointForReplica(s, s.routers[j]) \in Endpoint
      OBVIOUS
    <3>1. PICK ep \in Endpoint : ep = s.routers[j]
      BY <1>0
    <3>2. ep.address \in {"", "name", "bad"}
      BY DEF Endpoint
    <3> QED
      BY <1>0, <3>1, <3>2 DEF buildEndpointForReplica, Endpoint
  <2>3. Len(s.routers) \in 1..MaxEndpoints
    BY <1>0, <1>2, OperatorBounds
  <2> QED
    BY <2>1, <2>2, <2>3
<1> QED
  BY <1>1, <1>2

-----------------------------------------------------------------------------
(* The calls that a spec asks for *)

LEMMA RBACTodo == IsTodo(reconcileRBAC)
<1> DEFINE a == Put(Key("ServiceAccount", Controller, 0), RBACData)
           b == Put(Key("Role", Controller, 0), RBACData)
           c == Put(Key("RoleBinding", Controller, 0), RBACData)
           S == {a, b, c}
<1>1. IsStep(a) /\ IsStep(b) /\ IsStep(c)
  BY KeyShape, PutIsStep
<1>2. reconcileRBAC = <<a, b, c>>
  BY DEF reconcileRBAC
<1> HIDE DEF a, b, c
<1>3. <<a, b, c>> \in Seq(S) /\ \A o \in S : IsStep(o)
  BY <1>1
<1> HIDE DEF S
<1> QED
  BY <1>2, <1>3, TodoOf, Zenon

LEMMA ControllerTodo ==
  ASSUME NEW s
  PROVE  IsTodo(reconcileControllerDeployment(s))
<1>1. IsStep(Put(Key("Deployment", Controller, 0), createControllerDeployment(s)))
  BY KeyShape, PutIsStep
<1> QED
  BY <1>1, TodoOne DEF reconcileControllerDeployment

LEMMA RoutersTodo ==
  ASSUME NEW s, IsSpec(s)
  PROVE  IsTodo(reconcileRouterDeployment(s))
<1> DEFINE step(j) == Put(Key("Deployment", j - 1, 0), createRouterDeployment(s, j - 1))
           S == {step(j) : j \in 1..s.replicas}
<1>0. s.replicas \in Nat /\ s.replicas <= MaxReplicas /\ MaxReplicas \in Nat
  BY SpecFields, OperatorBounds
<1>1. \A j \in 1..s.replicas : IsStep(step(j))
  BY <1>0, KeyShape, PutIsStep DEF Replicas
<1>2. reconcileRouterDeployment(s) = [j \in 1..s.replicas |-> step(j)]
  BY DEF reconcileRouterDeployment
<1> HIDE DEF step
<1>3. \A o \in S : IsStep(o)
  BY <1>1
<1>4. [j \in 1..s.replicas |-> step(j)] \in Seq(S)
  BY <1>0
<1> HIDE DEF S
<1> QED
  BY <1>2, <1>3, <1>4, TodoOf, Zenon

LEMMA SettingsTodo ==
  ASSUME NEW s
  PROVE  /\ IsTodo(reconcileConfigMaps(s)) /\ IsTodo(reconcileSecrets)
         /\ IsTodo(reconcileConfigMaps(s) \o reconcileSecrets)
<1>1. IsStep(Put(Key("ConfigMap", Controller, 0), createConfigMap(s)))
  BY KeyShape, PutIsStep
<1>2. IsTodo(reconcileConfigMaps(s))
  BY <1>1, TodoOne DEF reconcileConfigMaps
<1> DEFINE a == Ensure(Key("ControllerSecret", Controller, 0))
           b == Ensure(Key("RouterSecret", Controller, 0))
<1>3. IsStep(a) /\ IsStep(b)
  BY DEF IsStep, Ensure, Secrets
<1>4. reconcileSecrets = <<a>> \o <<b>>
  BY DEF reconcileSecrets
<1> HIDE DEF a, b
<1>5. IsTodo(reconcileSecrets)
  BY <1>3, <1>4, TodoOne, TodoConcat
<1> QED
  BY <1>2, <1>5, TodoConcat

LEMMA EndpointTodo ==
  ASSUME NEW ep, NEW i, NEW e, \A k \in Offered : Key(k, i, e) \in Keys \ Secrets
  PROVE  IsTodo(ReconcileRouterReplicaEndpoint(ep, i, e))
<1>1. \A k \in Offered : IsTodo(<<Put(Key(k, i, e), ep.labels)>>)
  BY PutIsStep, TodoOne
<1>2. \A kinds, t : IsTodo(t) => IsTodo(IfEnabled(ep, kinds, t))
  BY TodoEmpty DEF IfEnabled
<1>3. IsTodo(createIngressForEndpoint(ep, i, e))
  BY <1>1, TodoEmpty, ServicesOffered DEF createIngressForEndpoint
<1>4. IsTodo(createRouteForEndpoint(ep, i, e))
  BY <1>1, TodoEmpty, ServicesOffered DEF createRouteForEndpoint
<1>5. \A k \in Services : IsTodo(createService(k, ep, i, e))
  BY <1>1, ServicesOffered DEF createService
<1> DEFINE a == IfEnabled(ep, {"Ingress"}, createIngressForEndpoint(ep, i, e))
           b == IfEnabled(ep, {"Route"}, createRouteForEndpoint(ep, i, e))
           c == IfEnabled(ep, {"LoadBalancer"}, createService("LoadBalancer", ep, i, e))
           d == IfEnabled(ep, {"NodePort"}, createService("NodePort", ep, i, e))
           f == IfEnabled(ep, {"ClusterIP", "Ingress", "Route"}, createService("ClusterIP", ep, i, e))
<1>6. "LoadBalancer" \in Services /\ "NodePort" \in Services /\ "ClusterIP" \in Services
  BY ServicesOffered
<1>7. IsTodo(a) /\ IsTodo(b)
  BY <1>2, <1>3, <1>4
<1>8. IsTodo(c) /\ IsTodo(d) /\ IsTodo(f)
  BY <1>2, <1>5, <1>6
<1>9. ReconcileRouterReplicaEndpoint(ep, i, e) = a \o b \o c \o d \o f
  BY DEF ReconcileRouterReplicaEndpoint
<1> HIDE DEF a, b, c, d, f
<1>10. IsTodo(a \o b)
  BY <1>7, TodoConcat
<1>11. IsTodo(a \o b \o c)
  BY <1>8, <1>10, TodoConcat
<1>12. IsTodo(a \o b \o c \o d)
  BY <1>8, <1>11, TodoConcat
<1> QED
  BY <1>8, <1>9, <1>12, TodoConcat

LEMMA ExposeTodo ==
  ASSUME NEW s, IsSpec(s), NEW i \in Controller..(s.replicas - 1), NEW e \in Nat,
         e < Len(EndpointsOf(s, i))
  PROVE  IsTodo(EndpointSteps(s, i, e))
<1>1. s.replicas \in 1..MaxReplicas /\ Len(RouterEndpoints(s)) \in 1..MaxEndpoints
  BY SpecFields, RouterEndpointsShape
<1>2. CASE i = Controller
  BY <1>2, KeyShape, EndpointTodo DEF EndpointSteps, ReconcileControllerEndpoint
<1>3. CASE i # Controller
  <2>1. i \in Replicas
    BY <1>1, <1>3, OperatorBounds DEF Replicas, Controller
  <2>2. e \in EndpointIdx
    BY <1>1, <1>3, OperatorBounds DEF EndpointIdx, EndpointsOf
  <2>3. \A k \in Offered : Key(k, i, e) \in Keys \ Secrets
    BY <2>1, <2>2, KeyShape
  <2> QED
    BY <1>3, <2>3, EndpointTodo DEF EndpointSteps
<1> QED
  BY <1>2, <1>3

LEMMA CleanupTodo ==
  ASSUME NEW s, IsSpec(s)
  PROVE  IsTodo(cleanupExcessRouterDeployments(s))
<1> DEFINE n == MaxReplicas - ExcessFrom(s)
           k(j) == Key("Deployment", ExcessFrom(s) + j - 1, 0)
           step(j) == Delete(IF Cached(k(j)) # None THEN <<k(j)>> ELSE <<>>)
           S == {step(j) : j \in 1..n}
<1>0. n \in Nat /\ s.replicas \in 1..MaxReplicas /\ MaxReplicas \in Nat
  BY SpecFields, OperatorBounds DEF ExcessFrom
<1>1. ASSUME NEW j \in 1..n PROVE IsStep(step(j))
  <2>1. k(j) \in Keys \ Secrets
    <3>1. ExcessFrom(s) + j - 1 \in Replicas
      BY <1>0 DEF ExcessFrom, Replicas
    <3> QED
      BY <3>1, KeyShape
  <2> HIDE DEF k
  <2>2. <<k(j)>> \in Seq(Keys \ Secrets) /\ <<>> \in Seq(Keys \ Secrets)
    BY <2>1
  <2> QED
    BY <2>2, DeleteIsStep
<1>2. cleanupExcessRouterDeployments(s) = [j \in 1..n |-> step(j)]
  BY DEF cleanupExcessRouterDeployments
<1> HIDE DEF step, n
<1>3. \A o \in S : IsStep(o)
  BY <1>1
<1>4. [j \in 1..n |-> step(j)] \in Seq(S)
  BY <1>0
<1> HIDE DEF S
<1> QED
  BY <1>2, <1>3, <1>4, TodoOf, Zenon

LEMMA TrimTodo ==
  /\ \A i \in Replicas : IsTodo(<<Delete(ServicesOfReplica(i))>>)
  /\ \A i \in Replicas, e \in EndpointIdx : IsTodo(<<Delete(ServicesOf(i, e))>>)
<1>1. ASSUME NEW i \in Replicas PROVE IsTodo(<<Delete(ServicesOfReplica(i))>>)
  <2>1. ASSUME NEW n \in 1..(3 * MaxEndpoints)
        PROVE  Key(ServiceKinds[((n - 1) % 3) + 1], i, (n - 1) \div 3) \in Keys \ Secrets
    <3>1. ((n - 1) % 3) + 1 \in 1..3 /\ (n - 1) \div 3 \in EndpointIdx
      BY OperatorBounds DEF EndpointIdx
    <3>2. ServiceKinds[((n - 1) % 3) + 1] \in Offered
      BY <3>1, ServicesOffered
    <3> QED
      BY <3>1, <3>2, KeyShape
  <2>2. ServicesOfReplica(i) \in Seq(Keys \ Secrets)
    BY <2>1, OperatorBounds DEF ServicesOfReplica
  <2> QED
    BY <2>2, DeleteIsStep, TodoOne
<1>2. ASSUME NEW i \in Replicas, NEW e \in EndpointIdx
      PROVE  IsTodo(<<Delete(ServicesOf(i, e))>>)
  <2>1. \A j \in 1..3 : Key(ServiceKinds[j], i, e) \in Keys \ Secrets
    BY ServicesOffered, KeyShape
  <2>2. ServicesOf(i, e) \in Seq(Keys \ Secrets)
    BY <2>1 DEF ServicesOf
  <2> QED
    BY <2>2, DeleteIsStep, TodoOne
<1> QED
  BY <1>1, <1>2

-----------------------------------------------------------------------------
(* The invariant *)

LEMMA TodoNamesKeys ==
  ASSUME NEW t, IsTodo(t)
  PROVE  \A j \in DOMAIN t : Range(t[j].keys) \subseteq Keys
<1> SUFFICES ASSUME NEW j \in DOMAIN t PROVE Range(t[j].keys) \subseteq Keys
  OBVIOUS
<1>1. IsStep(t[j])
  BY DEF IsTodo
<1>2. ASSUME NEW k \in Keys, t[j].keys = <<k>> PROVE Range(t[j].keys) \subseteq Keys
  BY <1>2 DEF Range
<1>3. ASSUME t[j].keys \in Seq(Keys \ Secrets) PROVE Range(t[j].keys) \subseteq Keys
  BY <1>3 DEF Range
<1> QED
  BY <1>1, <1>2, <1>3, KeyShape DEF IsStep

LEMMA NoSpecIsSpec == IsSpec(NoSpec)
<1>1. <<>> \in Seq(Endpoint) /\ Len(<<>>) = 0
  OBVIOUS
<1> QED
  BY <1>1, OperatorBounds DEF IsSpec, NoSpec, Settings

LEMMA IdleSound ==
  ASSUME uids' \in Nat, job' = NoJob
  PROVE  JobInv'
  BY NoSpecIsSpec, TodoEmpty, OperatorBounds DEF JobInv, NoJob, Placed, Controller

(* The API server and the caches *)
LEMMA ObjectsKept ==
  ASSUME ObjectsTyped, UNCHANGED <<objects, cache>>, uids \in Nat, uids' \in Nat, uids <= uids'
  PROVE  ObjectsTyped'
<1>1. \A o : IsObject(o) => IsObject(o)'
  BY DEF IsObject
<1> QED
  BY <1>1 DEF ObjectsTyped, Cached

LEMMA StoreTyped ==
  ASSUME ObjectsTyped, NEW k \in Keys, NEW obj, Store(k, obj), UNCHANGED uids,
         IsObject(obj), (obj.owner # 0) = Owned(k)
  PROVE  ObjectsTyped'
  BY DEF ObjectsTyped, IsObject, Cached, LagKeys, Store

LEMMA DeleteTyped ==
  ASSUME ObjectsTyped, NEW gone, objects' = Without(gone), UNCHANGED <<cache, uids>>, uids \in Nat
  PROVE  ObjectsTyped'
  BY DEF ObjectsTyped, IsObject, Cached, LagKeys, Without

LEMMA CacheTyped ==
  ASSUME ObjectsTyped, UNCHANGED <<objects, uids>>,
         \/ cache' = [k \in LagKeys |-> objects[k]]
         \/ \E kind : cache' = [k \in LagKeys |-> IF k[1] = kind THEN objects[k] ELSE cache[k]]
  PROVE  ObjectsTyped'
<1>1. \A o : IsObject(o) => IsObject(o)'
  BY DEF IsObject
<1>2. \A k \in LagKeys : k \in Keys
  BY DEF LagKeys
<1>3. DOMAIN cache' = LagKeys /\ \A k \in LagKeys : cache'[k] \in {objects[k], cache[k]}
  OBVIOUS
<1>4. \A k \in LagKeys : IsObject(objects[k]) /\ IsObject(cache[k])
  BY <1>2 DEF ObjectsTyped, Cached
<1> QED
  BY <1>1, <1>2, <1>3, <1>4 DEF ObjectsTyped, Cached

(* Nobody deletes the secrets: the operator does not, they have no owner   *)
(* that would take them along, and the objects that somebody else deletes  *)
(* are others.                                                             *)
SecretsStay == \A k \in Secrets : k[1] \notin Removable

(* Then the keys of secrets that are there stay as they are. *)
Kept == SecretsStay => \A k \in Secrets : objects[k] # None => objects'[k] = objects[k]

LEMMA ProceedSound ==
  ASSUME JobInv, job.todo # <<>>, NEW f, Proceed(f), UNCHANGED uids
  PROVE  JobInv'
<1>1. /\ DOMAIN job' = DOMAIN job
      /\ job'.stage = job.stage /\ job'.uid = job.uid /\ job'.spec = job.spec
      /\ job'.replica = job.replica /\ job'.endpoint = job.endpoint
      /\ job'.todo = Tail(job.todo)
  BY DEF Proceed, JobInv, NoJob
<1>2. IsTodo(job'.todo)
  BY <1>1, TodoTail DEF JobInv
<1>3. JobInv!1' /\ JobInv!2' /\ JobInv!3' /\ JobInv!4' /\ JobInv!5'
  BY <1>1 DEF JobInv
<1>4. Placed'
  BY <1>1 DEF JobInv, Placed
<1> QED
  BY <1>2, <1>3, <1>4 DEF JobInv

LEMMA SkipSound ==
  ASSUME OperatorInv, job.todo # <<>>, Skip, UNCHANGED uids
  PROVE  ObjectsTyped' /\ JobInv' /\ queued' \in BOOLEAN /\ keys' \in Nat /\ Kept
<1>1. ObjectsTyped'
  BY ObjectsKept DEF OperatorInv, TypeOK, Skip
<1>2. JobInv'
  BY ProceedSound DEF OperatorInv, Skip
<1> QED
  BY <1>1, <1>2 DEF OperatorInv, TypeOK, Skip, Kept

LEMMA AbortSound ==
  ASSUME OperatorInv, Abort, UNCHANGED uids
  PROVE  ObjectsTyped' /\ JobInv' /\ queued' \in BOOLEAN /\ keys' \in Nat /\ Kept
<1>1. ObjectsTyped'
  BY ObjectsKept DEF OperatorInv, TypeOK, Abort
<1>2. JobInv'
  BY IdleSound DEF OperatorInv, TypeOK, Abort
<1> QED
  BY <1>1, <1>2 DEF OperatorInv, TypeOK, Abort, Kept

(* CreateOrUpdate of an object that is no secret. *)
LEMMA PutSound ==
  ASSUME OperatorInv, job.todo # <<>>, NEW k \in Keys \ Secrets, NEW data,
         CreateOrUpdate(k, data), UNCHANGED uids
  PROVE  ObjectsTyped' /\ JobInv' /\ queued' \in BOOLEAN /\ keys' \in Nat /\ Kept
<1> DEFINE desired == [owner |-> IF Owned(k) THEN job.uid ELSE 0, data |-> data]
<1>1. Skip \/ Abort \/ Write(k, desired)
  BY DEF CreateOrUpdate
<1>2. CASE Write(k, desired)
  <2>1. IsObject(desired) /\ (desired.owner # 0) = Owned(k)
    <3>1. job.uid \in 0..uids /\ job.uid # 0
      BY DEF OperatorInv, JobInv
    <3>2. desired.owner \in 0..uids /\ DOMAIN desired = {"owner", "data"}
      BY <3>1 DEF OperatorInv, TypeOK
    <3>3. Owned(k) \in BOOLEAN
      BY DEF Owned
    <3> QED
      BY <3>1, <3>2, <3>3 DEF IsObject
  <2> HIDE DEF desired
  <2>2. Store(k, desired) /\ Proceed(job.found) /\ UNCHANGED keys
    BY <1>2 DEF Write
  <2>3. ObjectsTyped'
    BY <2>1, <2>2, StoreTyped DEF OperatorInv, TypeOK
  <2>4. JobInv'
    BY <2>2, ProceedSound DEF OperatorInv
  <2>5. Kept
    BY <2>2, KeyShape DEF Store, Kept, OperatorInv, TypeOK, ObjectsTyped
  <2>6. queued' \in BOOLEAN
    BY <2>2 DEF Store
  <2> QED
    BY <2>2, <2>3, <2>4, <2>5, <2>6 DEF OperatorInv, TypeOK
<1> HIDE DEF desired
<1> QED
  BY <1>1, <1>2, SkipSound, AbortSound

(* A secret that is there is not made again, in the cache or not. *)
LEMMA EnsureSound ==
  ASSUME OperatorInv, job.todo # <<>>, NEW k \in Secrets, ensureSecretExists(k), UNCHANGED uids
  PROVE  ObjectsTyped' /\ JobInv' /\ queued' \in BOOLEAN /\ keys' \in Nat /\ Kept
<1> DEFINE secret == [owner |-> 0, data |-> keys + 1]
<1>1. CASE Cached(k) # None \/ objects[k] # None
  BY <1>1, SkipSound DEF ensureSecretExists
<1>2. CASE ~(Cached(k) # None \/ objects[k] # None)
  <2>1. IsObject(secret) /\ (secret.owner # 0) = Owned(k)
    BY DEF IsObject, OperatorInv, TypeOK, Owned, Secrets, Key
  <2>2. Store(k, secret) /\ Proceed(job.found) /\ keys' = keys + 1
    BY <1>2 DEF ensureSecretExists
  <2> HIDE DEF secret
  <2>3. ObjectsTyped'
    BY <2>1, <2>2, StoreTyped, KeyShape DEF OperatorInv, TypeOK
  <2>4. JobInv'
    BY <2>2, ProceedSound DEF OperatorInv
  <2>5. Kept
    BY <1>2, <2>2, KeyShape DEF Store, Kept, OperatorInv, TypeOK, ObjectsTyped
  <2>6. queued' \in BOOLEAN
    BY <2>2 DEF Store
  <2> QED
    BY <2>2, <2>3, <2>4, <2>5, <2>6 DEF OperatorInv, TypeOK
<1> QED
  BY <1>1, <1>2

LEMMA DeleteSound ==
  ASSUME OperatorInv, NEW gone, gone \cap Secrets = {}, objects' = Without(gone),
         UNCHANGED <<cache, uids>>
  PROVE  ObjectsTyped' /\ Kept
<1>1. ObjectsTyped'
  BY DeleteTyped DEF OperatorInv, TypeOK
<1>2. Kept
  BY KeyShape DEF Kept, Without
<1> QED
  BY <1>1, <1>2

LEMMA DeleteAllSound ==
  ASSUME OperatorInv, NEW ks, ks \cap Secrets = {}, DeleteAll(ks), UNCHANGED uids
  PROVE  ObjectsTyped' /\ Kept /\ queued' \in BOOLEAN
<1>1. objects' = Without(ks) /\ UNCHANGED cache
  BY DEF DeleteAll
<1>2. queued' \in BOOLEAN
  BY DEF DeleteAll
<1> QED
  BY <1>1, <1>2, DeleteSound

LEMMA StepSound ==
  ASSUME OperatorInv, Step
  PROVE  ObjectsTyped' /\ JobInv' /\ queued' \in BOOLEAN /\ keys' \in Nat /\ Kept
<1> DEFINE o == Head(job.todo)
<1>1. job.todo # <<>> /\ UNCHANGED uids
  BY DEF Step
<1>2. IsStep(o)
  BY <1>1, TodoTail DEF OperatorInv, JobInv
<1>3. CASE o.op = "put" /\ \E k \in Keys \ Secrets : o.keys = <<k>>
  <2>1. PICK k \in Keys \ Secrets : o.keys = <<k>>
    BY <1>3
  <2>2. CreateOrUpdate(o.keys[1], o.data)
    BY <1>3 DEF Step
  <2>3. o.keys[1] = k
    BY <2>1
  <2> HIDE DEF o
  <2> QED
    BY <1>1, <2>2, <2>3, PutSound
<1>4. CASE o.op = "ensure" /\ \E k \in Secrets : o.keys = <<k>>
  <2>1. PICK k \in Secrets : o.keys = <<k>>
    BY <1>4
  <2>2. ensureSecretExists(o.keys[1])
    BY <1>4 DEF Step
  <2>3. o.keys[1] = k
    BY <2>1
  <2> HIDE DEF o
  <2> QED
    BY <1>1, <2>2, <2>3, EnsureSound
<1>5. CASE o.op = "delete" /\ o.keys \in Seq(Keys \ Secrets)
  <2> DEFINE ks == Range(o.keys)
  <2>1. DeleteObjects(ks)
    BY <1>5 DEF Step
  <2>2. ks \cap Secrets = {}
    BY <1>5 DEF Range
  <2> HIDE DEF o, ks
  <2>3. DeleteAll(ks) /\ Proceed(\E k \in ks : objects[k] # None) /\ UNCHANGED keys
    BY <2>1 DEF DeleteObjects
  <2>4. JobInv'
    BY <1>1, <2>3, ProceedSound DEF OperatorInv
  <2> QED
    BY <1>1, <2>2, <2>3, <2>4, DeleteAllSound DEF OperatorInv, TypeOK
<1> QED
  BY <1>2, <1>3, <1>4, <1>5 DEF IsStep

(* The turns of the loops *)
LEMMA TurnSound ==
  ASSUME OperatorInv, UNCHANGED uids, job.stage # "idle",
         NEW stage, stage # "idle", NEW i \in Controller..(MaxReplicas - 1), NEW e \in Nat, NEW todo,
         DOMAIN job' = DOMAIN job, job'.uid = job.uid, job'.spec = job.spec,
         job'.stage = stage, job'.replica = i, job'.endpoint = e, job'.todo = todo,
         IsTodo(todo),
         stage \in {"services", "surplus"} => i < job.spec.replicas,
         stage \in {"excess", "surplus"} => i # Controller
  PROVE  JobInv'
<1>1. JobInv!1' /\ JobInv!2' /\ JobInv!3' /\ JobInv!4' /\ JobInv!5' /\ JobInv!6'
  BY DEF OperatorInv, JobInv
<1>2. Placed'
  BY DEF Placed
<1> QED
  BY <1>1, <1>2 DEF JobInv

LEMMA EnterSound ==
  ASSUME OperatorInv, UNCHANGED uids, job.stage # "idle",
         NEW stage \in {"deployments", "settings"}, NEW todo, IsTodo(todo), Enter(stage, todo)
  PROVE  JobInv'
<1>1. /\ DOMAIN job' = DOMAIN job /\ job'.uid = job.uid /\ job'.spec = job.spec
      /\ job'.stage = stage /\ job'.todo = todo
      /\ job'.replica = job.replica /\ job'.endpoint = job.endpoint
  BY DEF OperatorInv, JobInv, NoJob, Enter
<1>2. job.replica \in Controller..(MaxReplicas - 1) /\ job.endpoint \in Nat
  BY DEF OperatorInv, JobInv, Placed
<1> QED
  BY <1>1, <1>2, TurnSound

LEMMA TrimReplicaSound ==
  ASSUME OperatorInv, UNCHANGED uids, job.stage # "idle", NEW i \in Replicas, TrimReplica(i)
  PROVE  JobInv'
<1>1. /\ DOMAIN job' = DOMAIN job /\ job'.uid = job.uid /\ job'.spec = job.spec
      /\ job'.stage = "excess" /\ job'.todo = <<Delete(ServicesOfReplica(i))>>
      /\ job'.replica = i /\ job'.endpoint = job.endpoint
  BY DEF OperatorInv, JobInv, NoJob, TrimReplica
<1>2. i \in Controller..(MaxReplicas - 1) /\ i # Controller /\ job.endpoint \in Nat
  BY OperatorBounds DEF OperatorInv, JobInv, Placed, Replicas, Controller
<1>3. IsTodo(<<Delete(ServicesOfReplica(i))>>)
  BY TrimTodo
<1> QED
  BY <1>1, <1>2, <1>3, TurnSound

LEMMA TrimEndpointSound ==
  ASSUME OperatorInv, UNCHANGED uids, job.stage # "idle", NEW i \in Nat, i < job.spec.replicas,
         NEW e \in EndpointIdx, TrimEndpoint(i, e)
  PROVE  JobInv'
<1>1. /\ DOMAIN job' = DOMAIN job /\ job'.uid = job.uid /\ job'.spec = job.spec
      /\ job'.stage = "surplus" /\ job'.todo = <<Delete(ServicesOf(i, e))>>
      /\ job'.replica = i /\ job'.endpoint = e
  BY DEF OperatorInv, JobInv, NoJob, TrimEndpoint
<1>2. job.spec.replicas \in 1..MaxReplicas
  BY SpecFields DEF OperatorInv, JobInv
<1>3. /\ i \in Controller..(MaxReplicas - 1) /\ i # Controller /\ i \in Replicas
      /\ e \in Nat
  BY <1>2, OperatorBounds DEF Replicas, Controller, EndpointIdx
<1>4. IsTodo(<<Delete(ServicesOf(i, e))>>)
  BY <1>3, TrimTodo
<1> QED
  BY <1>1, <1>3, <1>4, TurnSound

LEMMA TrimEndpointsSound ==
  ASSUME OperatorInv, UNCHANGED uids, job.stage # "idle", NEW i \in Nat, TrimEndpointsFrom(i)
  PROVE  JobInv'
<1>1. Len(RouterEndpoints(job.spec)) \in 1..MaxEndpoints
  BY RouterEndpointsShape DEF OperatorInv, JobInv
<1>2. CASE i < job.spec.replicas /\ NumEndpoints(job.spec) < MaxEndpoints
  <2>1. NumEndpoints(job.spec) \in EndpointIdx
    BY <1>1, <1>2, OperatorBounds DEF NumEndpoints, EndpointIdx
  <2> QED
    BY <1>2, <2>1, TrimEndpointSound DEF TrimEndpointsFrom
<1>3. CASE ~(i < job.spec.replicas /\ NumEndpoints(job.spec) < MaxEndpoints)
  BY <1>3, SettingsTodo, EnterSound DEF TrimEndpointsFrom
<1> QED
  BY <1>2, <1>3

LEMMA TrimReplicasSound ==
  ASSUME OperatorInv, UNCHANGED uids, job.stage # "idle", TrimReplicas
  PROVE  JobInv'
<1>1. job.spec.replicas \in 1..MaxReplicas
  BY SpecFields DEF OperatorInv, JobInv
<1>2. CASE ExcessFrom(job.spec) < MaxReplicas
  <2>1. ExcessFrom(job.spec) \in Replicas
    BY <1>1, <1>2, OperatorBounds DEF ExcessFrom, Replicas
  <2> QED
    BY <1>2, <2>1, TrimReplicaSound DEF TrimReplicas
<1>3. CASE ~(ExcessFrom(job.spec) < MaxReplicas)
  BY <1>3, TrimEndpointsSound DEF TrimReplicas
<1> QED
  BY <1>2, <1>3

LEMMA ExposeSound ==
  ASSUME OperatorInv, UNCHANGED uids, job.stage # "idle",
         NEW i \in Controller..(job.spec.replicas - 1), NEW e \in Nat,
         e < Len(EndpointsOf(job.spec, i)), Expose(i, e)
  PROVE  JobInv'
<1>1. /\ DOMAIN job' = DOMAIN job /\ job'.uid = job.uid /\ job'.spec = job.spec
      /\ job'.stage = "services" /\ job'.todo = EndpointSteps(job.spec, i, e)
      /\ job'.replica = i /\ job'.endpoint = e
  BY DEF OperatorInv, JobInv, NoJob, Expose
<1>2. IsSpec(job.spec) /\ job.spec.replicas \in 1..MaxReplicas
  BY SpecFields DEF OperatorInv, JobInv
<1>3. i \in Controller..(MaxReplicas - 1) /\ i < job.spec.replicas
  BY <1>2, OperatorBounds DEF Controller
<1>4. IsTodo(EndpointSteps(job.spec, i, e))
  BY <1>2, ExposeTodo
<1> QED
  BY <1>1, <1>3, <1>4, TurnSound

LEMMA ExposeFromSound ==
  ASSUME OperatorInv, UNCHANGED uids, job.stage # "idle",
         NEW i \in Controller..(job.spec.replicas - 1), NEW e \in Nat, ExposeFrom(i, e)
  PROVE  JobInv'
<1>1. IsSpec(job.spec) /\ job.spec.replicas \in 1..MaxReplicas
  BY SpecFields DEF OperatorInv, JobInv
<1>2. CASE e < Len(EndpointsOf(job.spec, i))
  BY <1>2, ExposeSound DEF ExposeFrom
<1>3. CASE ~(e < Len(EndpointsOf(job.spec, i))) /\ i + 1 < job.spec.replicas
  <2>1. i + 1 \in Controller..(job.spec.replicas - 1) /\ i + 1 # Controller
    BY <1>1, <1>3, OperatorBounds DEF Controller
  <2>2. 0 < Len(EndpointsOf(job.spec, i + 1))
    BY <1>1, <2>1, RouterEndpointsShape DEF EndpointsOf
  <2>3. Expose(i + 1, 0)
    BY <1>3 DEF ExposeFrom
  <2> QED
    BY <2>1, <2>2, <2>3, ExposeSound
<1>4. CASE ~(e < Len(EndpointsOf(job.spec, i))) /\ ~(i + 1 < job.spec.replicas)
  BY <1>4, TrimReplicasSound DEF ExposeFrom
<1> QED
  BY <1>2, <1>3, <1>4

LEMMA LoopsSound ==
  ASSUME OperatorInv, CleanupDeployments \/ ReconcileServices \/ TrimServices
  PROVE  JobInv' /\ UNCHANGED <<cr, seen, objects, cache, queued, timer, pod, uids, keys, count>>
<1>0. UNCHANGED <<cr, seen, objects, cache, queued, timer, pod, uids, keys, count>>
  BY DEF CleanupDeployments, ReconcileServices, TrimServices
<1>a. IsSpec(job.spec) /\ job.spec.replicas \in 1..MaxReplicas /\ Placed
  BY SpecFields DEF OperatorInv, JobInv
<1>1. CASE CleanupDeployments
  <2>1. Enter("deployments", cleanupExcessRouterDeployments(job.spec)) /\ job.stage # "idle"
    BY <1>1 DEF CleanupDeployments, At
  <2>2. IsTodo(cleanupExcessRouterDeployments(job.spec))
    BY <1>a, CleanupTodo
  <2> QED
    BY <1>0, <2>1, <2>2, EnterSound
<1>2. CASE At("deployments") /\ ExposeFrom(Controller, 0)
  <2>1. Controller \in Controller..(job.spec.replicas - 1) /\ job.stage # "idle"
    BY <1>2, <1>a, OperatorBounds DEF Controller, At
  <2> QED
    BY <1>0, <1>2, <2>1, ExposeFromSound
<1>3. CASE At("services") /\ ExposeFrom(job.replica, job.endpoint + 1)
  <2>1. /\ job.replica \in Controller..(job.spec.replicas - 1) /\ job.endpoint + 1 \in Nat
        /\ job.stage # "idle"
    BY <1>3, <1>a, OperatorBounds DEF Placed, At, Controller
  <2> QED
    BY <1>0, <1>3, <2>1, ExposeFromSound
<1>4. CASE TrimServices /\ At("excess")
  <2>1. job.replica \in Nat /\ job.replica < MaxReplicas /\ job.stage # "idle" /\ MaxReplicas \in Nat
    BY <1>4, <1>a, OperatorBounds DEF Placed, At, Controller
  <2>2. \/ job.replica + 1 < MaxReplicas /\ TrimReplica(job.replica + 1)
        \/ TrimEndpointsFrom(0)
    BY <1>4 DEF TrimServices, At
  <2>3. job.replica + 1 < MaxReplicas => job.replica + 1 \in Replicas
    BY <2>1 DEF Replicas
  <2> QED
    BY <1>0, <2>1, <2>2, <2>3, TrimReplicaSound, TrimEndpointsSound
<1>5. CASE TrimServices /\ At("surplus")
  <2>1. /\ job.replica \in Nat /\ job.replica < job.spec.replicas /\ job.endpoint \in Nat
        /\ job.stage # "idle"
    BY <1>5, <1>a, OperatorBounds DEF Placed, At, Controller
  <2>2. \/ job.endpoint + 1 < MaxEndpoints /\ TrimEndpoint(job.replica, job.endpoint + 1)
        \/ TrimEndpointsFrom(job.replica + 1)
    BY <1>5 DEF TrimServices, At
  <2>3. job.endpoint + 1 < MaxEndpoints => job.endpoint + 1 \in EndpointIdx
    BY <2>1, OperatorBounds DEF EndpointIdx
  <2>4. job.replica + 1 \in Nat
    BY <2>1
  <2> QED
    BY <1>0, <2>1, <2>2, <2>3, <2>4, TrimEndpointSound, TrimEndpointsSound
<1> QED
  BY <1>0, <1>1, <1>2, <1>3, <1>4, <1>5 DEF ReconcileServices, TrimServices

(* A reconcile starts or ends *)
LEMMA GetSound ==
  ASSUME OperatorInv, GetJumpstarter
  PROVE  JobInv'
<1> DEFINE s == ApplyEndpointDefaults(seen.spec)
           todo == reconcileRBAC \o reconcileControllerDeployment(s) \o reconcileRouterDeployment(s)
<1>0. uids \in Nat /\ UNCHANGED uids
  BY DEF OperatorInv, TypeOK, GetJumpstarter
<1>1. CASE seen = None \/ seen.deleting
  <2>1. job' = NoJob
    BY <1>1 DEF GetJumpstarter
  <2> QED
    BY <1>0, <2>1, IdleSound
<1>2. CASE ~(seen = None \/ seen.deleting)
  <2>1. seen.uid \in 1..uids /\ seen.spec \in Specs
    BY <1>2 DEF OperatorInv, IsResource
  <2>2. IsSpec(s)
    BY <2>1, SpecsAssumption, SpecDefaulted
  <2> HIDE DEF s
  <2>3. IsTodo(todo)
    <3>1. IsTodo(reconcileRBAC \o reconcileControllerDeployment(s))
      BY RBACTodo, ControllerTodo, TodoConcat
    <3> QED
      BY <2>2, <3>1, RoutersTodo, TodoConcat
  <2>4. job' = [NoJob EXCEPT !.stage = "workloads", !.uid = seen.uid, !.spec = s, !.todo = todo]
    BY <1>2 DEF GetJumpstarter, s
  <2> HIDE DEF todo
  <2>5. /\ DOMAIN job' = DOMAIN NoJob
        /\ job'.stage = "workloads" /\ job'.uid = seen.uid /\ job'.spec = s /\ job'.todo = todo
        /\ job'.replica = 0 /\ job'.endpoint = 0
    BY <2>4 DEF NoJob
  <2>6. Placed'
    BY <2>5, OperatorBounds DEF Placed, Controller
  <2>7. JobInv!1' /\ JobInv!2' /\ JobInv!3' /\ JobInv!4' /\ JobInv!5' /\ JobInv!6'
    BY <1>0, <2>1, <2>2, <2>3, <2>5
  <2> QED
    BY <2>6, <2>7 DEF JobInv
<1> QED
  BY <1>1, <1>2

(* A failure in the middle of a deletion *)
LEMMA FailSound ==
  ASSUME OperatorInv, CallFails
  PROVE  ObjectsTyped' /\ JobInv' /\ Kept
<1> DEFINE o == Head(job.todo)
<1>1. /\ job.todo # <<>> /\ job' = NoJob /\ uids \in Nat
      /\ UNCHANGED uids /\ UNCHANGED cache
  BY DEF CallFails, OperatorInv, TypeOK
<1>2. JobInv'
  BY <1>1, IdleSound
<1>3. CASE o.op = "delete"
  <2>1. PICK gone \in {{o.keys[j] : j \in 1..(n - 1)} : n \in 1..Len(o.keys)} :
          objects' = Without(gone)
    BY <1>3 DEF CallFails
  <2>2. o.keys \in Seq(Keys \ Secrets)
    BY <1>1, <1>3, TodoTail DEF OperatorInv, JobInv, IsStep
  <2> HIDE DEF o
  <2>3. gone \cap Secrets = {}
    BY <2>1, <2>2
  <2> QED
    BY <1>1, <1>2, <2>1, <2>3, DeleteSound
<1>4. CASE o.op # "delete"
  <2>1. UNCHANGED objects
    BY <1>4 DEF CallFails
  <2> QED
    BY <1>1, <1>2, <2>1, ObjectsKept DEF OperatorInv, TypeOK, Kept
<1> QED
  BY <1>3, <1>4

(* Secrets belong to nobody and so are no garbage. *)
LEMMA CollectSound ==
  ASSUME OperatorInv, NEW batch, CollectGarbage(batch)
  PROVE  ObjectsTyped' /\ Kept /\ queued' \in BOOLEAN
<1> DEFINE ks == {k \in Keys : k[1] \in batch /\ Garbage(k)}
<1>1. \A k \in Secrets : ~Garbage(k)
  <2>1. \A k \in Secrets : ~Owned(k)
    BY DEF Secrets, Key, Owned
  <2>2. \A k \in Secrets : objects[k] # None => objects[k].owner = 0
    BY <2>1, KeyShape DEF OperatorInv, TypeOK, ObjectsTyped
  <2> QED
    BY <2>2 DEF Garbage
<1>2. ks \cap Secrets = {}
  BY <1>1
<1>3. DeleteAll(ks) /\ UNCHANGED uids
  BY DEF CollectGarbage
<1> HIDE DEF ks
<1> QED
  BY <1>2, <1>3, DeleteAllSound

LEMMA DriftSound ==
  ASSUME OperatorInv, NEW k \in Keys, Drift(k)
  PROVE  ObjectsTyped' /\ Kept /\ queued' \in BOOLEAN
<1> DEFINE ks == {k}
<1>1. SecretsStay => ks \cap Secrets = {}
  BY DEF Drift, SecretsStay
<1>2. DeleteAll(ks) /\ UNCHANGED uids
  BY DEF Drift
<1> HIDE DEF ks
<1>3. objects' = Without(ks) /\ UNCHANGED cache /\ queued' \in BOOLEAN
  BY <1>2 DEF DeleteAll
<1>4. ObjectsTyped'
  BY <1>2, <1>3, DeleteTyped DEF OperatorInv, TypeOK
<1>5. Kept
  BY <1>1, <1>3, KeyShape DEF Kept, Without
<1> QED
  BY <1>3, <1>4, <1>5

LEMMA InitSound ==
  ASSUME Init
  PROVE  OperatorInv /\ KeysAgree
<1>1. uids = 0 /\ job = NoJob /\ DOMAIN NoJob = DOMAIN job
  BY DEF Init
<1>2. JobInv
  BY <1>1, NoSpecIsSpec, TodoEmpty, OperatorBounds DEF JobInv, NoJob, Placed, Controller
<1>3. ObjectsTyped
  BY DEF Init, ObjectsTyped, IsObject, Cached, LagKeys
<1>4. TypeOK
  <2>1. \A j \in DOMAIN job.todo : Range(job.todo[j].keys) \subseteq Keys
    BY <1>2, TodoNamesKeys DEF JobInv
  <2>2. count \in [changes : 0..MaxChanges, faults : 0..MaxFaults]
    BY OperatorBounds DEF Init
  <2> QED
    BY <1>3, <2>1, <2>2 DEF Init, TypeOK, IsResource
<1>5. IsResource(seen)
  BY DEF Init, IsResource
<1>6. KeysAgree
  BY DEF Init, KeysAgree
<1> QED
  BY <1>2, <1>4, <1>5, <1>6 DEF OperatorInv

(* JobInv and ObjectsTyped where a step leaves their variables alone. *)
LEMMA JobKept ==
  ASSUME OperatorInv, UNCHANGED job, uids' \in Nat, uids <= uids'
  PROVE  JobInv'
  BY DEF OperatorInv, TypeOK, JobInv, Placed

LEMMA Assembled ==
  ASSUME IsResource(cr)', IsResource(seen)', ObjectsTyped', JobInv',
         queued' \in BOOLEAN, timer' \in BOOLEAN, uids' \in Nat, keys' \in Nat,
         count' \in [changes : 0..MaxChanges, faults : 0..MaxFaults]
  PROVE  OperatorInv'
<1>1. \A j \in DOMAIN job'.todo : Range(job'.todo[j].keys) \subseteq Keys
  BY TodoNamesKeys DEF JobInv
<1> QED
  BY <1>1 DEF OperatorInv, TypeOK

LEMMA Parts ==
  ASSUME OperatorInv
  PROVE  /\ IsResource(cr) /\ IsResource(seen) /\ ObjectsTyped /\ JobInv
         /\ queued \in BOOLEAN /\ timer \in BOOLEAN /\ uids \in Nat /\ keys \in Nat
         /\ count \in [changes : 0..MaxChanges, faults : 0..MaxFaults]
  BY DEF OperatorInv, TypeOK

LEMMA Counted ==
  ASSUME OperatorInv, Change \/ UNCHANGED count
                      \/ (count.faults < MaxFaults /\ count' = [count EXCEPT !.faults = @ + 1])
  PROVE  count' \in [changes : 0..MaxChanges, faults : 0..MaxFaults]
  BY Parts, OperatorBounds DEF Change

(* The user *)
LEMMA UserSound ==
  ASSUME OperatorInv,
         \/ \E s \in Specs : CreateResource(s) \/ EditSpec(s)
         \/ DeleteResource \/ \E k \in Keys : Drift(k)
  PROVE  OperatorInv' /\ Kept /\ UNCHANGED pod
<1>1. ASSUME NEW s \in Specs, CreateResource(s) PROVE OperatorInv' /\ Kept /\ UNCHANGED pod
  <2>1. /\ uids' = uids + 1 /\ cr' = [uid |-> uids + 1, spec |-> s, deleting |-> FALSE]
        /\ UNCHANGED <<seen, objects, cache, queued, timer, job, pod, keys, count>>
    BY <1>1 DEF CreateResource
  <2>2. uids' \in Nat /\ uids <= uids'
    BY <2>1, Parts
  <2>3. ObjectsTyped' /\ JobInv' /\ Kept
    BY <2>1, <2>2, Parts, ObjectsKept, JobKept DEF Kept
  <2>4. IsResource(cr)' /\ IsResource(seen)'
    BY <2>1, <2>2, Parts DEF IsResource
  <2> QED
    BY <2>1, <2>2, <2>3, <2>4, Parts, Assembled
<1>2. ASSUME IsResource(cr)', Change,
             UNCHANGED <<seen, objects, cache, queued, timer, job, pod, uids, keys>>
      PROVE  OperatorInv' /\ Kept /\ UNCHANGED pod
  <2>1. ObjectsTyped' /\ JobInv' /\ Kept
    BY <1>2, Parts, ObjectsKept, JobKept DEF Kept
  <2>2. IsResource(seen)'
    BY <1>2, Parts DEF IsResource
  <2>3. count' \in [changes : 0..MaxChanges, faults : 0..MaxFaults]
    BY <1>2, Counted
  <2> QED
    BY <1>2, <2>1, <2>2, <2>3, Parts, Assembled
<1>3. ASSUME NEW s \in Specs, EditSpec(s) PROVE OperatorInv' /\ Kept /\ UNCHANGED pod
  <2>1. IsResource(cr)'
    <3>1. cr # None /\ cr' = [cr EXCEPT !.spec = s] /\ UNCHANGED uids
      BY <1>3 DEF EditSpec
    <3>2. cr.uid \in 1..uids /\ cr.deleting \in BOOLEAN /\ DOMAIN cr = {"uid", "spec", "deleting"}
      BY <3>1, Parts DEF IsResource
    <3>3. cr'.uid = cr.uid /\ cr'.spec = s /\ cr'.deleting = cr.deleting
      BY <3>1, <3>2
    <3> QED
      BY <3>1, <3>2, <3>3 DEF IsResource
  <2> QED
    BY <1>2, <1>3, <2>1 DEF EditSpec
<1>4. CASE DeleteResource
  <2>1. IsResource(cr)'
    <3>1. cr # None /\ (cr' = None \/ cr' = [cr EXCEPT !.deleting = TRUE]) /\ UNCHANGED uids
      BY <1>4 DEF DeleteResource
    <3>2. cr.uid \in 1..uids /\ cr.spec \in Specs /\ DOMAIN cr = {"uid", "spec", "deleting"}
      BY <3>1, Parts DEF IsResource
    <3>3. CASE cr' = [cr EXCEPT !.deleting = TRUE]
      BY <3>1, <3>2, <3>3 DEF IsResource
    <3> QED
      BY <3>1, <3>3 DEF IsResource
  <2> QED
    BY <1>2, <1>4, <2>1 DEF DeleteResource
<1>5. ASSUME NEW k \in Keys, Drift(k) PROVE OperatorInv' /\ Kept /\ UNCHANGED pod
  <2>1. ObjectsTyped' /\ Kept /\ queued' \in BOOLEAN
    BY <1>5, DriftSound
  <2>2. Change /\ UNCHANGED <<cr, seen, timer, job, pod, uids, keys>>
    BY <1>5 DEF Drift
  <2>3. IsResource(cr)' /\ IsResource(seen)' /\ JobInv'
    BY <2>2, Parts, JobKept DEF IsResource
  <2>4. count' \in [changes : 0..MaxChanges, faults : 0..MaxFaults]
    BY <2>2, Counted
  <2> QED
    BY <2>1, <2>2, <2>3, <2>4, Parts, Assembled
<1> QED
  BY <1>1, <1>3, <1>4, <1>5

(* Informers, timers and the garbage collector *)
LEMMA ClusterSound ==
  ASSUME OperatorInv, DeliverResource \/ TimerFires \/ Cluster
  PROVE  OperatorInv' /\ Kept /\ UNCHANGED pod
<1>1. ASSUME IsResource(cr)', IsResource(seen)', queued' \in BOOLEAN, timer' \in BOOLEAN,
             ObjectsTyped', Kept, UNCHANGED <<job, pod, uids, keys, count>>
      PROVE  OperatorInv' /\ Kept /\ UNCHANGED pod
  <2>1. JobInv'
    BY <1>1, JobKept, Parts
  <2> QED
    BY <1>1, <2>1, Parts, Assembled
<1>2. ASSUME UNCHANGED <<objects, cache, uids>> PROVE ObjectsTyped' /\ Kept
  BY <1>2, ObjectsKept, Parts DEF Kept
<1>3. CASE DeliverResource
  <2>1. /\ seen' = cr /\ queued' = TRUE
        /\ UNCHANGED <<cr, objects, cache, timer, job, pod, uids, keys, count>>
    BY <1>3 DEF DeliverResource
  <2>2. IsResource(cr)' /\ IsResource(seen)'
    BY <2>1, Parts DEF IsResource
  <2> QED
    BY <1>1, <1>2, <2>1, <2>2, Parts
<1>4. CASE TimerFires
  <2>1. /\ timer' = FALSE /\ queued' = TRUE
        /\ UNCHANGED <<cr, seen, objects, cache, job, pod, uids, keys, count>>
    BY <1>4 DEF TimerFires
  <2>2. IsResource(cr)' /\ IsResource(seen)'
    BY <2>1, Parts DEF IsResource
  <2> QED
    BY <1>1, <1>2, <2>1, <2>2, Parts
<1>5. ASSUME NEW kind \in Lagging, DeliverObjects(kind) PROVE OperatorInv' /\ Kept /\ UNCHANGED pod
  <2>1. /\ cache' = [k \in LagKeys |-> IF k[1] = kind THEN objects[k] ELSE cache[k]]
        /\ queued' = (queued \/ kind \in Watched)
        /\ UNCHANGED <<cr, seen, objects, timer, job, pod, uids, keys, count>>
    BY <1>5 DEF DeliverObjects
  <2>2. IsResource(cr)' /\ IsResource(seen)'
    BY <2>1, Parts DEF IsResource
  <2>3. ObjectsTyped' /\ Kept
    BY <2>1, CacheTyped, Parts DEF Kept
  <2>4. queued' \in BOOLEAN
    BY <2>1
  <2> QED
    BY <1>1, <2>1, <2>2, <2>3, <2>4, Parts
<1>6. CASE DeletionEnds
  <2>1. cr' = None /\ UNCHANGED <<seen, objects, cache, queued, timer, job, pod, uids, keys, count>>
    BY <1>6 DEF DeletionEnds
  <2>2. IsResource(cr)' /\ IsResource(seen)'
    BY <2>1, Parts DEF IsResource
  <2> QED
    BY <1>1, <1>2, <2>1, <2>2, Parts
<1>7. ASSUME NEW batch \in Batches, CollectGarbage(batch) PROVE OperatorInv' /\ Kept /\ UNCHANGED pod
  <2>1. UNCHANGED <<cr, seen, timer, job, pod, uids, keys, count>>
    BY <1>7 DEF CollectGarbage
  <2>2. IsResource(cr)' /\ IsResource(seen)'
    BY <2>1, Parts DEF IsResource
  <2> QED
    BY <1>1, <1>7, <2>1, <2>2, CollectSound, Parts
<1> QED
  BY <1>3, <1>4, <1>5, <1>6, <1>7 DEF Cluster

(* The worker *)
LEMMA ReconcileSound ==
  ASSUME OperatorInv, Reconcile \/ CallFails \/ Restart
  PROVE  OperatorInv' /\ Kept /\ UNCHANGED pod
<1>1. ASSUME JobInv', ObjectsTyped', Kept, queued' \in BOOLEAN, timer' \in BOOLEAN, keys' \in Nat,
             seen' \in {seen, cr}, UNCHANGED <<cr, pod, uids>>,
             count' \in [changes : 0..MaxChanges, faults : 0..MaxFaults]
      PROVE  OperatorInv' /\ Kept /\ UNCHANGED pod
  <2>1. IsResource(cr)' /\ IsResource(seen)'
    BY <1>1, Parts DEF IsResource
  <2> QED
    BY <1>1, <2>1, Parts, Assembled
<1>2. ASSUME UNCHANGED <<objects, cache, uids>> PROVE ObjectsTyped' /\ Kept
  BY <1>2, ObjectsKept, Parts DEF Kept
<1>3. CASE GetJumpstarter
  <2>1. JobInv'
    BY <1>3, GetSound
  <2>2. queued' = FALSE /\ UNCHANGED <<cr, seen, objects, cache, timer, pod, uids, keys, count>>
    BY <1>3 DEF GetJumpstarter
  <2> QED
    BY <1>1, <1>2, <2>1, <2>2, Parts
<1>4. CASE Step
  <2>1. UNCHANGED <<cr, seen, timer, pod, uids, count>>
    BY <1>4 DEF Step
  <2> QED
    BY <1>1, <1>4, <2>1, StepSound, Parts
<1>5. CASE CleanupDeployments \/ ReconcileServices \/ TrimServices
  <2>1. JobInv' /\ UNCHANGED <<cr, seen, objects, cache, queued, timer, pod, uids, keys, count>>
    BY <1>5, LoopsSound
  <2> QED
    BY <1>1, <1>2, <2>1, Parts
<1>6. CASE ReconcileEnds
  <2>1. /\ job' = NoJob /\ timer' = TRUE
        /\ UNCHANGED <<cr, seen, objects, cache, queued, pod, uids, keys, count>>
    BY <1>6 DEF ReconcileEnds
  <2>2. JobInv'
    BY <2>1, IdleSound, Parts
  <2> QED
    BY <1>1, <1>2, <2>1, <2>2, Parts
<1>7. CASE CallFails
  <2>1. queued' = TRUE /\ UNCHANGED <<cr, seen, cache, timer, pod, uids, keys>>
    BY <1>7 DEF CallFails
  <2>2. count' \in [changes : 0..MaxChanges, faults : 0..MaxFaults]
    BY <1>7, Counted DEF CallFails
  <2> QED
    BY <1>1, <1>7, <2>1, <2>2, FailSound, Parts
<1>8. CASE Restart
  <2>1. /\ job' = NoJob /\ timer' = FALSE /\ seen' = cr /\ queued' = TRUE
        /\ cache' = [k \in LagKeys |-> objects[k]]
        /\ UNCHANGED <<cr, objects, pod, uids, keys>>
    BY <1>8 DEF Restart
  <2>2. count' \in [changes : 0..MaxChanges, faults : 0..MaxFaults]
    BY <1>8, Counted DEF Restart
  <2>3. JobInv' /\ ObjectsTyped' /\ Kept
    BY <2>1, IdleSound, CacheTyped, Parts DEF Kept
  <2> QED
    BY <1>1, <2>1, <2>2, <2>3, Parts
<1> QED
  BY <1>3, <1>4, <1>5, <1>6, <1>7, <1>8 DEF Reconcile

LEMMA PodsSound ==
  ASSUME OperatorInv, NEW p \in Pods, PodStarts(p) \/ PodStops(p)
  PROVE  OperatorInv' /\ Kept
<1>1. UNCHANGED <<cr, seen, objects, cache, queued, timer, job, uids, keys>>
  BY DEF PodStarts, PodStops
<1>2. count' \in [changes : 0..MaxChanges, faults : 0..MaxFaults]
  BY Counted DEF PodStarts, PodStops
<1>3. ObjectsTyped' /\ Kept /\ JobInv' /\ IsResource(cr)' /\ IsResource(seen)'
  BY <1>1, ObjectsKept, JobKept, Parts DEF Kept, IsResource
<1> QED
  BY <1>1, <1>2, <1>3, Assembled, Parts

LEMMA NextSound ==
  ASSUME OperatorInv, [Next]_vars
  PROVE  /\ OperatorInv' /\ Kept
         /\ UNCHANGED pod \/ \E p \in Pods : PodStarts(p) \/ PodStops(p)
<1>1. CASE UNCHANGED vars
  <2>1. UNCHANGED <<cr, seen, objects, cache, queued, timer, job, pod, uids, keys, count>>
    BY <1>1 DEF vars
  <2>2. ObjectsTyped' /\ Kept /\ JobInv' /\ IsResource(cr)' /\ IsResource(seen)'
    BY <2>1, ObjectsKept, JobKept, Parts DEF Kept, IsResource
  <2> QED
    BY <2>1, <2>2, Assembled, Parts
<1>2. CASE Next
  BY <1>2, UserSound, ClusterSound, ReconcileSound, PodsSound DEF Next
<1> QED
  BY <1>1, <1>2

(* Processes have the key of the secret that was there when they started,  *)
(* and it is there still.                                                  *)
LEMMA AgreeSound ==
  ASSUME OperatorInv, SecretsStay, KeysAgree, [Next]_vars
  PROVE  KeysAgree'
<1> DEFINE r == Key("RouterSecret", Controller, 0)
<1>1. Kept /\ r \in Secrets
  BY NextSound DEF Secrets
<1>2. \A key : Holds(r, key) => Holds(r, key)'
  BY <1>1 DEF Holds, Kept
<1>3. CASE UNCHANGED pod
  BY <1>2, <1>3 DEF KeysAgree
<1>4. ASSUME NEW p \in Pods, PodStarts(p) \/ PodStops(p) PROVE KeysAgree'
  <2>1. CASE PodStarts(p)
    <3> DEFINE fresh == [template |-> Deployed(p).data, key |-> Stored("RouterSecret").data,
                         config |-> Stored("ConfigMap").data]
    <3>1. pod' = [pod EXCEPT ![p] = fresh] /\ Stored("RouterSecret") # None /\ UNCHANGED objects
      BY <2>1 DEF PodStarts, MayStart, EnvironmentThere
    <3>2. Holds(r, fresh.key)
      BY <3>1 DEF Holds, Stored
    <3> HIDE DEF fresh
    <3>3. \A q \in Pods : pod'[q] = pod[q] \/ pod'[q] = fresh
      BY <3>1
    <3> QED
      BY <1>2, <3>2, <3>3 DEF KeysAgree
  <2>2. CASE PodStops(p)
    <3>1. \A q \in Pods : pod'[q] = pod[q] \/ pod'[q] = None
      BY <2>2 DEF PodStops
    <3> QED
      BY <1>2, <3>1 DEF KeysAgree
  <2> QED
    BY <1>4, <2>1, <2>2
<1> QED
  BY <1>3, <1>4, NextSound

-----------------------------------------------------------------------------
(* The theorems *)

(* Whatever specs follow on one another, objects and their copies are well *)
(* formed, and every call that a reconcile is about to make names objects  *)
(* the operator knows, within its loops over replicas and endpoints.       *)
THEOREM TypeCorrect == Spec => []TypeOK
<1>1. Init => OperatorInv
  BY InitSound
<1>2. OperatorInv /\ [Next]_vars => OperatorInv'
  BY NextSound
<1>3. OperatorInv => TypeOK
  BY DEF OperatorInv
<1> QED
  BY <1>1, <1>2, <1>3, PTL DEF Spec

(* Once made, the key of a secret stays: whatever the cache knows when     *)
(* ensureSecretExists looks, however the resource is edited, deleted and   *)
(* made again, and whichever calls fail.                                   *)
THEOREM KeysAlwaysKept ==
  ASSUME SecretsStay
  PROVE  Spec => KeysKept
<1>1. Init => OperatorInv
  BY InitSound
<1>2. OperatorInv /\ [Next]_vars => OperatorInv'
  BY NextSound
<1>3. OperatorInv /\ [Next]_vars =>
        [\A k \in Secrets : objects[k] # None => objects'[k] = objects[k]]_vars
  BY NextSound DEF Kept
<1> QED
  BY <1>1, <1>2, <1>3, PTL DEF Spec, KeysKept

(* All processes have the key that the secret of the routers holds, and so *)
(* agree on it, whenever they were started.                                *)
THEOREM KeysAlwaysAgree ==
  ASSUME SecretsStay
  PROVE  Spec => []KeysAgree
<1> DEFINE I == OperatorInv /\ KeysAgree
<1>1. Init => I
  BY InitSound
<1>2. I /\ [Next]_vars => I'
  BY NextSound, AgreeSound
<1>3. I => KeysAgree
  OBVIOUS
<1> HIDE DEF I
<1> QED
  BY <1>1, <1>2, <1>3, PTL DEF Spec
=============================================================================
