---------------------------- MODULE IdentityProofs ----------------------------
(***************************************************************************)
(* Proofs about Identity for every value of its constants: any number of   *)
(* objects, users, calls at the same time, keys and years, with or without *)
(* migrated objects and orphaned secrets.                                  *)
(***************************************************************************)
EXTENDS Identity, TLAPS

-----------------------------------------------------------------------------
(* Names of users *)

(* The name a caller goes by is no None, and a credential names whom it    *)
(* was signed for.                                                         *)
LEMMA UserNames ==
  ASSUME NEW c \in Call, c.user = None <=> c.token # None
  PROVE  /\ UserName(c) \in Users \cup Subjects /\ UserName(c) # None
         /\ c.token # None => UserName(c) = c.token.of
<1>1. CASE c.user # None
  <2>1. c.user \in Users /\ c.token = None
    BY <1>1 DEF Call
  <2>. QED BY <1>1, <2>1 DEF UserName
<1>2. CASE c.user = None
  <2>1. c.token \in Credential /\ c.token # None
    BY <1>2 DEF Call
  <2>2. c.token.sub \in Subjects /\ c.token.sub = c.token.of
    BY <2>1 DEF Credential
  <2>. QED BY <1>2, <2>1, <2>2, NoneIsApart DEF UserName
<1>. QED BY <1>1, <1>2

(* The UID of an object that counts is one that was given out. *)
LEMMA EffectiveType ==
  ASSUME NEW n \in Names, NEW o \in Object
  PROVE  EffectiveUid(o) \in 0..MaxUids /\ InternalSubject(n, o) \in Subjects
<1>1. o.uid \in 0..MaxUids /\ o.migrated \in 0..MaxUids
  BY IdentityBounds DEF Object
<1>2. EffectiveUid(o) \in 0..MaxUids
  BY <1>1 DEF EffectiveUid
<1>. QED BY <1>2 DEF InternalSubject, Subjects

(* Authorize lets in exactly the callers whom the object belongs to. *)
LEMMA UsernamesExact ==
  ASSUME NEW c \in Call, c.user = None <=> c.token # None, c.name \in Names,
         NEW o \in Object
  PROVE  UserName(c) \in Usernames(c.name, o) <=> Belongs(c, o)
<1>1. o # None
  BY NoneIsApart
<1>2. InternalSubject(c.name, o) = <<c.name, EffectiveUid(o)>>
  BY DEF InternalSubject
<1>3. CASE c.token # None
  BY <1>1, <1>2, <1>3, UserNames DEF Usernames, Belongs
<1>4. CASE c.token = None
  <2>1. UserName(c) \in Users
    BY <1>4 DEF UserName, Call
  <2>2. UserName(c) # InternalSubject(c.name, o)
    BY <2>1, EffectiveType, UsersAreExternal
  <2>. QED BY <1>1, <1>4, <2>2, UserNames DEF Usernames, Belongs
<1>. QED BY <1>3, <1>4

-----------------------------------------------------------------------------
(* What calls remember *)

(* The UID of an object that is the caller's, if it is. *)
LEMMA MineType ==
  ASSUME NEW c, NEW o \in Object \cup {None}
  PROVE  /\ Mine(c, o) \in SUBSET (1..MaxUids)
         /\ Belongs(c, o) => o.uid \in Mine(c, o)
         /\ ~Belongs(c, o) => Mine(c, o) = {}
         /\ Mine(c, o) \subseteq {o.uid}
<1>1. Belongs(c, o) => o \in Object
  BY DEF Belongs
<1>. QED BY <1>1 DEF Mine, Object

(* Observe keeps a call what it is. *)
LEMMA ObserveResult ==
  ASSUME NEW c \in Call, NEW o, c.stage \notin Resting, o[c.name] \in Object \cup {None}
  PROVE  LET d == Observe(c, o)
         IN  /\ d \in Call
             /\ d.stage = c.stage /\ d.user = c.user /\ d.token = c.token /\ d.name = c.name
             /\ d.here = c.here /\ d.since = c.since
             /\ d.ever = c.ever \cup Mine(c, o[c.name])
             /\ d.always <=> c.always /\ Belongs(c, o[c.name])
<1>. DEFINE e == c.ever \cup Mine(c, o[c.name])
            a == c.always /\ Belongs(c, o[c.name])
            d == [c EXCEPT !.ever = e, !.always = a]
<1>1. e \in SUBSET (1..MaxUids) /\ a \in BOOLEAN
  <2>1. c.ever \in SUBSET (1..MaxUids)
    BY DEF Call
  <2>. QED BY <2>1, MineType
<1>2. Observe(c, o) = d
  BY DEF Observe
<1>. HIDE DEF e, a
<1>3. /\ d \in Call /\ d.stage = c.stage /\ d.user = c.user /\ d.token = c.token
      /\ d.name = c.name /\ d.here = c.here /\ d.since = c.since /\ d.ever = e /\ d.always = a
  BY <1>1 DEF Call
<1>. HIDE DEF d
<1>. QED BY <1>2, <1>3 DEF e, a

(* Whom an object belongs to depends on user, token and name. *)
LEMMA BelongsSame ==
  ASSUME NEW c, NEW d, NEW o, d.user = c.user, d.token = c.token, d.name = c.name
  PROVE  (Belongs(d, o) <=> Belongs(c, o)) /\ Mine(d, o) = Mine(c, o)
<1>1. Belongs(d, o) <=> Belongs(c, o)
  BY DEF Belongs, UserName
<1>. QED BY <1>1 DEF Mine

(* An object that is x and becomes y keeps its UID unless it is deleted or *)
(* made anew.                                                              *)
Succeeds(x, y) ==
  y # None => (x # None /\ y.uid = x.uid) \/ y.uid > uids

(* A call that observes the new objects stays safe. *)
LEMMA ObserveSafe ==
  ASSUME NEW c \in Call, NEW o \in [Names -> Object \cup {None}], CallSafe(c, obj, uids),
         NEW u \in Nat, uids \in Nat, uids <= u,
         \A n \in Names : Succeeds(obj[n], o[n])
  PROVE  Observe(c, o) \in Call /\ CallSafe(Observe(c, o), o, u)
<1>1. CASE c.stage \in Resting
  BY <1>1 DEF Observe, CallSafe
<1>2. CASE c.stage \notin Resting
  <2>1. PICK d : d = Observe(c, o)
    OBVIOUS
  <2>2. /\ c.name \in Names /\ (c.user = None <=> c.token # None) /\ c.since <= uids
        /\ (c.always => c.here)
        /\ c.stage = "allowed" => Rightly(c, obj[c.name])
        /\ c.stage = "provision" => ~c.always
    BY <1>2 DEF CallSafe
  <2>3. o[c.name] \in Object \cup {None} /\ c.since \in Nat
    BY <2>2, IdentityBounds DEF Call
  <2>4. /\ d \in Call
        /\ d.stage = c.stage /\ d.user = c.user /\ d.token = c.token /\ d.name = c.name
        /\ d.here = c.here /\ d.since = c.since
        /\ d.ever = c.ever \cup Mine(c, o[c.name])
        /\ d.always <=> c.always /\ Belongs(c, o[c.name])
    BY <1>2, <2>1, <2>3, ObserveResult
  <2>5. (Belongs(d, o[d.name]) <=> Belongs(c, o[c.name])) /\ Mine(d, o[d.name]) = Mine(c, o[c.name])
    BY <2>4, BelongsSame
  <2>6. d.stage = "allowed" => Rightly(d, o[d.name])
    <3>. SUFFICES ASSUME c.stage = "allowed" PROVE Rightly(d, o[d.name])
      BY <2>4
    <3>1. c.ever # {} /\ (obj[c.name] # None => obj[c.name].uid \in c.ever \/ obj[c.name].uid > c.since)
      BY <2>2 DEF Rightly
    <3>2. o[c.name] # None =>
            \/ obj[c.name] # None /\ o[c.name].uid = obj[c.name].uid
            \/ o[c.name].uid > uids
      BY <2>2 DEF Succeeds
    <3>3. o[c.name] # None => o[c.name].uid \in c.ever \/ o[c.name].uid > c.since
      <4>1. o[c.name] # None => o[c.name].uid \in Nat
        BY <2>3, IdentityBounds DEF Object
      <4>. QED BY <2>2, <2>3, <3>1, <3>2, <4>1
    <3>. QED BY <2>4, <3>1, <3>3 DEF Rightly
  <2>7. d.since <= u
    BY <2>2, <2>3, <2>4
  <2>8. CallSafe(d, o, u)
    BY <1>2, <2>2, <2>4, <2>5, <2>6, <2>7 DEF CallSafe
  <2>. QED BY <2>1, <2>4, <2>8
<1>. QED BY <1>1, <1>2

(* All calls observe. *)
LEMMA SetObjectsSafe ==
  ASSUME NEW o \in [Names -> Object \cup {None}], SetObjects(o, call), call \in [Callers -> Call],
         NEW u \in Nat, uids \in Nat, uids <= u,
         \A n \in Names : Succeeds(obj[n], o[n]),
         \A p \in Callers : CallSafe(call[p], obj, uids)
  PROVE  /\ call' \in [Callers -> Call] /\ obj' = o
         /\ \A p \in Callers : CallSafe(call'[p], obj', u)
<1>1. obj' = o /\ call' = [p \in Callers |-> Observe(call[p], o)]
  BY DEF SetObjects
<1>2. \A p \in Callers : Observe(call[p], o) \in Call /\ CallSafe(Observe(call[p], o), o, u)
  BY ObserveSafe
<1>. QED BY <1>1, <1>2

-----------------------------------------------------------------------------
(* Steps that change objects *)

(* A new object is well formed. *)
LEMMA NewObjectType ==
  ASSUME uids \in 0..MaxUids, uids < MaxUids, NEW u \in Users \cup Subjects \cup {None},
         NEW m \in 0..MaxUids
  PROVE  /\ NewObject(u, m) \in Object /\ NewObject(u, m).username = u
         /\ NewObject(u, m).uid > uids
<1>1. uids + 1 \in 1..MaxUids /\ FALSE \in BOOLEAN /\ uids + 1 > uids
  BY IdentityBounds
<1>. QED BY <1>1 DEF NewObject, Object

(* Steps that change the objects and at most the secrets. *)
LEMMA ObjectsChange ==
  ASSUME SafetyInv, NEW o \in [Names -> Object \cup {None}], SetObjects(o, call),
         uids' \in 0..MaxUids, uids <= uids', \A n \in Names : Succeeds(obj[n], o[n]),
         secret' \in [Names -> [owner : 0..MaxUids, token : Credential \cup {None}] \cup {None}],
         UNCHANGED <<seen, key, proc, year, issued>>
  PROVE  SafetyInv'
<1>1. uids \in Nat /\ uids' \in Nat
  BY IdentityBounds DEF SafetyInv, Shapes
<1>2. /\ call' \in [Callers -> Call] /\ obj' = o
      /\ \A p \in Callers : CallSafe(call'[p], obj', uids')
  BY <1>1, SetObjectsSafe DEF SafetyInv, Shapes
<1>3. Shapes'
  BY <1>2 DEF SafetyInv, Shapes
<1>. QED BY <1>2, <1>3 DEF SafetyInv, CallSafe, Belongs, UserName, EffectiveUid, Mine, Rightly

(* Users make, edit and delete objects. *)
LEMMA UsersSafe ==
  ASSUME SafetyInv, NEW n \in Names, CreateObject(n) \/ EditUsername(n) \/ DeleteObject(n)
  PROVE  SafetyInv'
<1>. USE DEF watches
<1>1. CASE CreateObject(n)
  <2>1. PICK u \in Users \cup {None}, m \in {0} \cup 1..uids :
          SetObjects([obj EXCEPT ![n] = NewObject(u, m)], call)
    BY <1>1 DEF CreateObject
  <2>2. uids \in 0..MaxUids /\ uids < MaxUids /\ uids' = uids + 1
    BY <1>1 DEF CreateObject, SafetyInv, Shapes
  <2>3. m \in 0..MaxUids /\ uids' \in 0..MaxUids /\ uids <= uids'
    BY <2>2, IdentityBounds
  <2>4. NewObject(u, m) \in Object /\ NewObject(u, m).uid > uids
    BY <2>2, <2>3, NewObjectType
  <2>5. /\ [obj EXCEPT ![n] = NewObject(u, m)] \in [Names -> Object \cup {None}]
        /\ \A k \in Names : Succeeds(obj[k], [obj EXCEPT ![n] = NewObject(u, m)][k])
    BY <2>4 DEF SafetyInv, Shapes, Succeeds
  <2>6. UNCHANGED <<seen, secret, key, proc, year, issued>>
    BY <1>1 DEF CreateObject
  <2>. QED BY <2>1, <2>3, <2>5, <2>6, ObjectsChange DEF SafetyInv, Shapes
<1>2. CASE EditUsername(n)
  <2>1. PICK u \in Users \cup {None} : SetObjects([obj EXCEPT ![n].username = u], call)
    BY <1>2 DEF EditUsername
  <2>2. /\ [obj[n] EXCEPT !.username = u] \in Object
        /\ [obj[n] EXCEPT !.username = u].uid = obj[n].uid
    BY <1>2 DEF EditUsername, SafetyInv, Shapes, Object
  <2>3. /\ [obj EXCEPT ![n].username = u] \in [Names -> Object \cup {None}]
        /\ \A k \in Names : Succeeds(obj[k], [obj EXCEPT ![n].username = u][k])
    BY <1>2, <2>2 DEF SafetyInv, Shapes, Succeeds, EditUsername
  <2>4. UNCHANGED <<seen, secret, key, proc, year, uids, issued>> /\ uids <= uids'
    BY <1>2, IdentityBounds DEF EditUsername, SafetyInv, Shapes
  <2>. QED BY <2>1, <2>3, <2>4, ObjectsChange DEF SafetyInv, Shapes
<1>3. CASE DeleteObject(n)
  <2>1. SetObjects([obj EXCEPT ![n] = None], call)
    BY <1>3 DEF DeleteObject
  <2>2. /\ [obj EXCEPT ![n] = None] \in [Names -> Object \cup {None}]
        /\ \A k \in Names : Succeeds(obj[k], [obj EXCEPT ![n] = None][k])
    BY DEF SafetyInv, Shapes, Succeeds
  <2>3. secret' \in [Names -> [owner : 0..MaxUids, token : Credential \cup {None}] \cup {None}]
    <3>1. CASE UNCHANGED secret
      BY <3>1 DEF SafetyInv, Shapes
    <3>2. CASE secret[n] # None /\ secret' = [secret EXCEPT ![n].owner = 0]
      <4>1. [secret[n] EXCEPT !.owner = 0] \in [owner : 0..MaxUids, token : Credential \cup {None}]
        BY <3>2, IdentityBounds DEF SafetyInv, Shapes
      <4>. QED BY <3>2, <4>1 DEF SafetyInv, Shapes
    <3>. QED BY <1>3, <3>1, <3>2 DEF DeleteObject
  <2>4. UNCHANGED <<seen, key, proc, year, uids, issued>> /\ uids <= uids'
    BY <1>3, IdentityBounds DEF DeleteObject, SafetyInv, Shapes
  <2>. QED BY <2>1, <2>2, <2>3, <2>4, ObjectsChange DEF SafetyInv, Shapes
<1>. QED BY <1>1, <1>2, <1>3

-----------------------------------------------------------------------------
(* Steps that leave objects and calls alone *)

(* They keep the invariant with the shapes. *)
LEMMA CallsRest ==
  ASSUME SafetyInv, Shapes', UNCHANGED <<obj, call, uids>>
  PROVE  SafetyInv'
<1>1. \A p \in Callers : CallSafe(call'[p], obj', uids')
  BY DEF SafetyInv
<1>. QED BY <1>1 DEF SafetyInv, CallSafe, Belongs, UserName, EffectiveUid, Mine, Rightly

(* The reconcilers store credentials that name whom they are signed for. *)
LEMMA ReconcileSafe ==
  ASSUME SafetyInv, NEW n \in Names, ReconcileStatusCredential(n)
  PROVE  SafetyInv'
<1>. DEFINE Secret == [owner : 0..MaxUids, token : Credential \cup {None}]
<1>1. proc # None /\ UNCHANGED <<obj, seen, key, proc, year, uids, call>>
  BY DEF ReconcileStatusCredential
<1>2. ASSUME NEW r \in Secret, Stored(n, r)
      PROVE  SafetyInv'
  <2>1. /\ secret' = [secret EXCEPT ![n] = r]
        /\ issued' = issued \cup ({r.token} \ {None}) /\ r.token \in Credential \cup {None}
    BY <1>2 DEF Stored
  <2>. HIDE DEF Secret
  <2>2. secret' \in [Names -> Secret \cup {None}]
    BY <2>1 DEF SafetyInv, Shapes, Secret
  <2>3. issued' \subseteq Credential \ {None}
    BY <2>1 DEF SafetyInv, Shapes
  <2>. QED BY <1>1, <2>2, <2>3, CallsRest DEF SafetyInv, Shapes, Secret
<1>3. CASE UNCHANGED <<secret, issued>>
  BY <1>1, <1>3, CallsRest DEF SafetyInv, Shapes
<1>4. ASSUME seen[n] # None, ensureSecret(n)
      PROVE  SafetyInv'
  <2>1. seen[n] \in Object
    BY <1>4 DEF SafetyInv, Shapes
  <2>2. NewToken(n, seen[n]) \in Credential
    <3>1. InternalSubject(n, seen[n]) \in Subjects /\ proc.key \in Nat /\ year \in Nat
      BY <1>1, <2>1, EffectiveType DEF SafetyInv, Shapes
    <3>2. <<n, EffectiveUid(seen[n])>> = InternalSubject(n, seen[n])
      BY DEF InternalSubject
    <3>. QED BY <3>1, <3>2 DEF NewToken, Credential
  <2>3. seen[n].uid \in 0..MaxUids
    BY <2>1, IdentityBounds DEF Object
  <2>4. CASE Stored(n, [owner |-> seen[n].uid, token |-> NewToken(n, seen[n])])
    BY <1>2, <2>2, <2>3, <2>4
  <2>5. ASSUME secret[n] # None,
               Stored(n, [owner |-> IF held[n].owner = seen[n].uid THEN secret[n].owner
                                    ELSE seen[n].uid,
                          token |-> IF CurrentToken(n, held[n]) = held[n].token
                                    THEN secret[n].token ELSE CurrentToken(n, held[n])])
        PROVE  SafetyInv'
    <3>1. secret[n].owner \in 0..MaxUids /\ secret[n].token \in Credential \cup {None}
      BY <2>5 DEF SafetyInv, Shapes
    <3>2. CurrentToken(n, held[n]) \in {held[n].token, NewToken(n, seen[n])}
      BY DEF CurrentToken
    <3>3. [owner |-> IF held[n].owner = seen[n].uid THEN secret[n].owner ELSE seen[n].uid,
           token |-> IF CurrentToken(n, held[n]) = held[n].token
                     THEN secret[n].token ELSE CurrentToken(n, held[n])] \in Secret
      BY <2>2, <2>3, <3>1, <3>2
    <3>. QED BY <1>2, <2>5, <3>3
  <2>6. CASE Abort
    BY <1>3, <2>6 DEF Abort
  <2>. QED BY <1>4, <2>4, <2>5, <2>6 DEF ensureSecret
<1>. QED BY <1>3, <1>4 DEF ReconcileStatusCredential

(* The cluster, the informers and the process. *)
LEMMA ClusterSafe ==
  ASSUME SafetyInv,
         \/ EditSettings \/ YearPasses \/ Resync \/ Start
         \/ \E n \in Names : \/ EditSecret(n) \/ CollectGarbage(n)
                             \/ DeliverObject(n) \/ DeliverSecret(n)
         \/ \E k \in Kinds : ReconcileFails(k)
  PROVE  SafetyInv'
<1>. USE DEF kube, watches
<1>1. CASE EditSettings
  <2>1. key' \in Nat
    BY <1>1 DEF EditSettings, SafetyInv, Shapes
  <2>. QED BY <1>1, <2>1, CallsRest DEF EditSettings, SafetyInv, Shapes
<1>2. CASE YearPasses
  <2>1. year' \in Nat
    BY <1>2 DEF YearPasses, SafetyInv, Shapes
  <2>. QED BY <1>2, <2>1, CallsRest DEF YearPasses, SafetyInv, Shapes
<1>3. CASE Resync \/ \E k \in Kinds : ReconcileFails(k)
  BY <1>3, CallsRest DEF Resync, ReconcileFails, SafetyInv, Shapes
<1>4. CASE Start
  <2>1. proc'.key = key /\ seen' = obj /\ UNCHANGED <<kube, issued, call>>
    BY <1>4 DEF Start
  <2>. QED BY <2>1, CallsRest DEF SafetyInv, Shapes
<1>5. ASSUME NEW n \in Names, EditSecret(n) \/ CollectGarbage(n)
      PROVE  SafetyInv'
  <2>. DEFINE Secret == [owner : 0..MaxUids, token : Credential \cup {None}]
  <2>1. \/ secret' = [secret EXCEPT ![n] = None]
        \/ secret' = [secret EXCEPT ![n] =
                        [owner |-> IF secret[n] = None THEN 0 ELSE secret[n].owner, token |-> None]]
    BY <1>5 DEF EditSecret, CollectGarbage
  <2>2. [owner |-> IF secret[n] = None THEN 0 ELSE secret[n].owner, token |-> None] \in Secret
    <3>1. 0 \in 0..MaxUids /\ (secret[n] # None => secret[n].owner \in 0..MaxUids)
      BY IdentityBounds DEF SafetyInv, Shapes
    <3>. QED BY <3>1
  <2>. HIDE DEF Secret
  <2>3. secret' \in [Names -> Secret \cup {None}]
    BY <2>1, <2>2 DEF SafetyInv, Shapes, Secret
  <2>4. UNCHANGED <<obj, seen, key, proc, year, uids, issued, call>>
    BY <1>5 DEF EditSecret, CollectGarbage
  <2>. QED BY <2>3, <2>4, CallsRest DEF SafetyInv, Shapes, Secret
<1>6. ASSUME NEW n \in Names, DeliverObject(n) \/ DeliverSecret(n)
      PROVE  SafetyInv'
  <2>1. UNCHANGED <<kube, proc, issued, call>>
    BY <1>6 DEF DeliverObject, DeliverSecret
  <2>2. seen' \in [Names -> Object \cup {None}]
    <3>1. seen' = seen \/ seen' = [seen EXCEPT ![n] = obj[n]]
      BY <1>6 DEF DeliverObject, DeliverSecret
    <3>. QED BY <3>1 DEF SafetyInv, Shapes
  <2>. QED BY <2>1, <2>2, CallsRest DEF SafetyInv, Shapes
<1>. QED BY <1>1, <1>2, <1>3, <1>4, <1>5, <1>6

(* The status of an object is written. *)
LEMMA PatchStatusSafe ==
  ASSUME SafetyInv, NEW k \in Kinds, PatchStatus(k)
  PROVE  SafetyInv'
<1>1. UNCHANGED <<seen, secret, key, proc, year, uids, issued>>
  BY DEF PatchStatus
<1>2. PICK n : \/ UNCHANGED <<obj, call>>
               \/ /\ obj[n] # None
                  /\ SetObjects([obj EXCEPT ![n].ready = @ \/ ~job[k].ready], call)
  BY DEF PatchStatus
<1>3. CASE UNCHANGED <<obj, call>>
  BY <1>1, <1>3, CallsRest DEF SafetyInv, Shapes
<1>4. CASE obj[n] # None /\ SetObjects([obj EXCEPT ![n].ready = @ \/ ~job[k].ready], call)
  <2>. DEFINE r == obj[n].ready \/ ~job[k].ready
              o == [obj EXCEPT ![n].ready = r]
  <2>1. r \in BOOLEAN
    OBVIOUS
  <2>. HIDE DEF r
  <2>2. o \in [Names -> Object \cup {None}] /\ \A m \in Names : Succeeds(obj[m], o[m])
    <3>1. CASE n \in Names
      <4>1. [obj[n] EXCEPT !.ready = r] \in Object /\ [obj[n] EXCEPT !.ready = r].uid = obj[n].uid
        BY <1>4, <2>1, <3>1 DEF SafetyInv, Shapes, Object
      <4>. QED BY <1>4, <3>1, <4>1 DEF SafetyInv, Shapes, Succeeds
    <3>2. CASE n \notin Names
      BY <3>2 DEF SafetyInv, Shapes, Succeeds
    <3>. QED BY <3>1, <3>2
  <2>3. SetObjects(o, call)
    BY <1>4 DEF r
  <2>. HIDE DEF o
  <2>4. uids <= uids'
    BY <1>1, IdentityBounds DEF SafetyInv, Shapes
  <2>. QED BY <1>1, <2>2, <2>3, <2>4, ObjectsChange DEF SafetyInv, Shapes
<1>. QED BY <1>2, <1>3, <1>4

-----------------------------------------------------------------------------
(* Steps of calls *)

(* A call that is answered with a, and that rightly. *)
LEMMA Answered ==
  ASSUME NEW a \in Resting, NEW r \in BOOLEAN, NEW o, NEW u, r
  PROVE  LET c == [NoCall EXCEPT !.stage = a, !.right = r]
         IN  c \in Call /\ CallSafe(c, o, u)
<1>. DEFINE c == [NoCall EXCEPT !.stage = a, !.right = r]
<1>1. NoCall \in Call
  BY IdentityBounds DEF NoCall, Call, Resting
<1>2. c \in Call /\ c.stage = a /\ c.right = r
  BY <1>1 DEF Call
<1>. HIDE DEF c
<1>3. CallSafe(c, o, u)
  BY <1>2 DEF CallSafe
<1>. QED BY <1>2, <1>3 DEF c

(* A call that has failed. *)
LEMMA Failed ==
  ASSUME NEW o, NEW u
  PROVE  LET c == [NoCall EXCEPT !.stage = "refused", !.right = TRUE]
         IN  c \in Call /\ CallSafe(c, o, u)
BY Answered DEF Resting

(* A step of one call. *)
LEMMA OneCall ==
  ASSUME SafetyInv, NEW p \in Callers, NEW c \in Call, CallSafe(c, obj, uids),
         call' = [call EXCEPT ![p] = c], UNCHANGED <<kube, seen, proc, issued>>
  PROVE  SafetyInv'
<1>1. Shapes'
  BY DEF SafetyInv, Shapes, kube
<1>2. \A q \in Callers : CallSafe(call'[q], obj, uids)
  BY DEF SafetyInv, Shapes
<1>3. \A q \in Callers : CallSafe(call'[q], obj', uids')
  BY <1>2 DEF kube
<1>. QED BY <1>1, <1>3 DEF SafetyInv, CallSafe, Belongs, UserName, EffectiveUid, Mine, Rightly

(* An answer that is remembered. *)
LEMMA EndsSafe ==
  ASSUME SafetyInv, NEW p \in Callers, NEW a \in {"in", "refused"}, call' = Ends(p, a),
         UNCHANGED <<kube, seen, proc, issued>>,
         a = "in" => Rightly(call[p], obj[call[p].name]), a = "refused" => ~call[p].always
  PROVE  SafetyInv'
<1>. DEFINE r == IF a = "in" THEN Rightly(call[p], obj[call[p].name]) ELSE ~call[p].always
            c == [NoCall EXCEPT !.stage = a, !.right = r]
<1>1. r \in BOOLEAN /\ r
  BY DEF SafetyInv, Shapes, Call, Rightly
<1>2. call' = [call EXCEPT ![p] = c]
  BY DEF Ends
<1>. HIDE DEF r
<1>3. c \in Call /\ CallSafe(c, obj, uids)
  BY <1>1, Answered DEF Resting
<1>. HIDE DEF c
<1>. QED BY <1>2, <1>3, OneCall

(* A call goes on to the next stage. *)
LEMMA GoesSafe ==
  ASSUME SafetyInv, NEW p \in Callers, NEW s \in {"provision", "allowed"}, call' = Goes(p, s),
         UNCHANGED <<kube, seen, proc, issued>>, call[p].stage \notin Resting,
         s = "allowed" => Rightly(call[p], obj[call[p].name]), s = "provision" => ~call[p].always
  PROVE  SafetyInv'
<1>. DEFINE c == call[p]
            d == [c EXCEPT !.stage = s]
<1>1. c \in Call /\ CallSafe(c, obj, uids)
  BY DEF SafetyInv, Shapes
<1>2. call' = [call EXCEPT ![p] = d]
  BY DEF Goes
<1>. HIDE DEF c
<1>3. /\ d \in Call /\ d.stage = s /\ d.user = c.user /\ d.token = c.token /\ d.name = c.name
      /\ d.here = c.here /\ d.since = c.since /\ d.ever = c.ever /\ d.always = c.always
  BY <1>1 DEF Call
<1>. HIDE DEF d
<1>4. /\ Belongs(d, obj[d.name]) <=> Belongs(c, obj[c.name])
      /\ Mine(d, obj[d.name]) = Mine(c, obj[c.name])
      /\ Rightly(d, obj[d.name]) <=> Rightly(c, obj[c.name])
  BY <1>3, BelongsSame DEF Rightly
<1>5. /\ c.name \in Names /\ (c.user = None <=> c.token # None) /\ c.since <= uids
      /\ Mine(c, obj[c.name]) \subseteq c.ever
      /\ c.always => Belongs(c, obj[c.name]) /\ c.here
  BY <1>1 DEF CallSafe, c
<1>6. (s = "allowed" => Rightly(c, obj[c.name])) /\ (s = "provision" => ~c.always)
  BY DEF c
<1>7. CallSafe(d, obj, uids)
  <2>1. s \notin Resting
    BY DEF Resting
  <2>. QED BY <1>3, <1>4, <1>5, <1>6, <2>1 DEF CallSafe
<1>. QED BY <1>2, <1>3, <1>7, OneCall

(* A call begins: it remembers whether the object is its own. *)
LEMMA VerifySafe ==
  ASSUME SafetyInv, NEW p \in Callers, NEW r \in Requests,
         NEW t \in IF r.user = None THEN issued ELSE {None}, VerifyOIDCToken(p, r, t)
  PROVE  SafetyInv'
<1>. DEFINE n == ContextAttributes(r)
            c == [NoCall EXCEPT !.stage = "authorize", !.user = r.user, !.token = t,
                                !.here = r.here, !.name = n, !.since = uids]
            ever == Mine(c, obj[c.name])
            always == Belongs(c, obj[c.name]) /\ r.here
            d == [c EXCEPT !.ever = ever, !.always = always]
            no == [NoCall EXCEPT !.stage = "refused", !.right = TRUE]
<1>1. /\ r.user \in Users \cup {None} /\ n \in Names /\ r.here \in BOOLEAN
      /\ t \in Credential \cup {None}
      /\ r.user = None <=> t # None
      /\ uids \in 0..MaxUids
  BY RequestsAssumption, NamesAssumption DEF ContextAttributes, SafetyInv, Shapes
<1>2. /\ call' = [call EXCEPT ![p] = d] \/ call' = [call EXCEPT ![p] = no]
      /\ UNCHANGED <<kube, seen, proc, issued>>
  BY DEF VerifyOIDCToken, watches
<1>3. no \in Call /\ CallSafe(no, obj, uids)
  BY Failed
<1>4. /\ c \in Call /\ c.stage = "authorize" /\ c.user = r.user /\ c.token = t /\ c.name = n
      /\ c.here = r.here /\ c.since = uids
  BY <1>1 DEF NoCall, Call
<1>. HIDE DEF c, no
<1>5. ever \in SUBSET (1..MaxUids) /\ always \in BOOLEAN
  <2>1. obj[c.name] \in Object \cup {None}
    BY <1>1, <1>4 DEF SafetyInv, Shapes
  <2>. QED BY <2>1, MineType
<1>6. /\ d \in Call /\ d.stage = "authorize" /\ d.user = r.user /\ d.token = t /\ d.name = n
      /\ d.here = r.here /\ d.since = uids /\ d.ever = ever /\ d.always = always
  <2>. HIDE DEF ever, always
  <2>. QED BY <1>4, <1>5 DEF Call
<1>. HIDE DEF d
<1>7. /\ Belongs(d, obj[d.name]) <=> Belongs(c, obj[c.name])
      /\ Mine(d, obj[d.name]) = ever
  BY <1>4, <1>6, BelongsSame
<1>8. CallSafe(d, obj, uids)
  <2>1. "authorize" \notin Resting /\ uids <= uids
    BY <1>1 DEF Resting
  <2>2. (always => Belongs(d, obj[d.name])) /\ (always => r.here)
    BY <1>7
  <2>. HIDE DEF ever, always
  <2>. QED BY <1>1, <1>6, <1>7, <2>1, <2>2 DEF CallSafe
<1>. QED BY <1>2, <1>3, <1>6, <1>8, OneCall

(* Authorize allows whom the object belongs to and nobody else. *)
LEMMA AuthorizeSafe ==
  ASSUME SafetyInv, NEW p \in Callers, Authorize(p)
  PROVE  SafetyInv'
<1>. DEFINE c == call[p]
            o == obj[c.name]
<1>1. c.stage = "authorize" /\ UNCHANGED <<kube, seen, proc, issued>> /\ c.stage \notin Resting
  BY DEF Authorize, watches, Resting
<1>2. /\ c \in Call /\ c.name \in Names /\ (c.user = None <=> c.token # None)
      /\ Mine(c, o) \subseteq c.ever /\ (c.always => Belongs(c, o))
  BY <1>1 DEF SafetyInv, Shapes, CallSafe
<1>3. /\ o \in Object \cup {None} /\ (o = None => ~Belongs(c, o))
      /\ Belongs(c, o) => Rightly(c, o)
  BY <1>2 DEF SafetyInv, Shapes, Belongs, Mine, Rightly
<1>4. o # None => (UserName(c) \in Usernames(c.name, o) <=> Belongs(c, o))
  <2>. HIDE DEF c, o
  <2>. QED BY <1>2, <1>3, UsernamesExact
<1>5. \/ o = None /\ call' = Goes(p, "provision")
      \/ o # None /\ UserName(c) \in Usernames(c.name, o) /\ call' = Goes(p, "allowed")
      \/ ~(o # None /\ UserName(c) \in Usernames(c.name, o)) /\ call' = Ends(p, "refused")
  BY DEF Authorize
<1>6. CASE o = None /\ call' = Goes(p, "provision")
  BY <1>1, <1>2, <1>3, <1>6, GoesSafe
<1>7. CASE Belongs(c, o) /\ call' = Goes(p, "allowed")
  BY <1>1, <1>3, <1>7, GoesSafe
<1>8. CASE ~Belongs(c, o) /\ call' = Ends(p, "refused")
  BY <1>1, <1>2, <1>8, EndsSafe
<1>. QED BY <1>3, <1>4, <1>5, <1>6, <1>7, <1>8

(* Provision makes an object of the caller, or finds that another has. *)
LEMMA ProvisionSafe ==
  ASSUME SafetyInv, NEW p \in Callers, Provision(p)
  PROVE  SafetyInv'
<1>. DEFINE c == call[p]
<1>1. /\ c.stage = "provision" /\ c.stage \notin Resting
      /\ UNCHANGED <<seen, secret, key, configmap, proc, year, issued>>
  BY DEF Provision, watches, Resting
<1>2. /\ c \in Call /\ c.name \in Names /\ (c.user = None <=> c.token # None) /\ ~c.always
      /\ c.since <= uids
  BY <1>1 DEF SafetyInv, Shapes, CallSafe
<1>3. CASE obj[c.name] # None
  <2>1. call' = Ends(p, "refused") /\ UNCHANGED kube
    BY <1>1, <1>3 DEF Provision, ProvisionRefused, kube
  <2>. QED BY <1>1, <1>2, <2>1, EndsSafe
<1>4. CASE obj[c.name] = None
  <2>. DEFINE new == NewObject(UserName(c), 0)
              o == [obj EXCEPT ![c.name] = new]
              d == [c EXCEPT !.stage = "allowed"]
  <2>1. uids < MaxUids /\ uids' = uids + 1 /\ SetObjects(o, Goes(p, "allowed"))
    BY <1>4 DEF Provision
  <2>2. /\ uids \in 0..MaxUids /\ uids' \in 0..MaxUids
        /\ uids \in Nat /\ uids' \in Nat /\ uids <= uids'
    BY <2>1, IdentityBounds DEF SafetyInv, Shapes
  <2>3. new \in Object /\ new.username = UserName(c) /\ new.uid > uids
    <3>1. UserName(c) \in Users \cup Subjects /\ 0 \in 0..MaxUids
      BY <1>2, UserNames, IdentityBounds
    <3>. QED BY <2>1, <2>2, <3>1, NewObjectType
  <2>. HIDE DEF new
  <2>4. /\ o \in [Names -> Object \cup {None}] /\ o[c.name] = new
        /\ \A n \in Names : Succeeds(obj[n], o[n])
    BY <1>2, <2>3 DEF SafetyInv, Shapes, Succeeds
  <2>5. Belongs(c, o[c.name])
    BY <2>3, <2>4, NoneIsApart DEF Belongs
  <2>6. /\ obj' = o
        /\ call' = [q \in Callers |-> Observe(Goes(p, "allowed")[q], o)]
    BY <2>1 DEF SetObjects
  <2>7. /\ Goes(p, "allowed")[p] = d
        /\ \A q \in Callers : q # p => Goes(p, "allowed")[q] = call[q]
    BY DEF Goes, SafetyInv, Shapes
  <2>. HIDE DEF o, c
  <2>8. /\ d \in Call /\ d.stage = "allowed" /\ d.user = c.user /\ d.token = c.token
        /\ d.name = c.name /\ d.here = c.here /\ d.always = c.always /\ d.since = c.since
        /\ d.stage \notin Resting
    BY <1>2 DEF Call, Resting
  <2>. HIDE DEF d
  <2>9. Observe(d, o) \in Call /\ CallSafe(Observe(d, o), o, uids')
    <3>1. PICK x : x = Observe(d, o)
      OBVIOUS
    <3>2. /\ x \in Call
          /\ x.stage = d.stage /\ x.user = d.user /\ x.token = d.token /\ x.name = d.name
          /\ x.since = d.since /\ x.ever = d.ever \cup Mine(d, o[d.name])
          /\ x.always <=> d.always /\ Belongs(d, o[d.name])
      BY <1>2, <2>4, <2>8, <3>1, ObserveResult
    <3>3. /\ Mine(x, o[x.name]) = Mine(d, o[d.name]) /\ Mine(d, o[d.name]) = Mine(c, o[c.name])
      BY <2>8, <3>2, BelongsSame
    <3>4. o[c.name].uid \in x.ever /\ ~x.always
      BY <1>2, <2>5, <2>8, <3>2, <3>3 DEF Mine
    <3>5. Rightly(x, o[x.name])
      BY <2>8, <3>2, <3>4 DEF Rightly
    <3>6. x.since <= uids'
      <4>1. c.since \in Nat
        BY <1>2, IdentityBounds DEF Call
      <4>. QED BY <1>2, <2>2, <2>8, <3>2, <4>1
    <3>7. CallSafe(x, o, uids')
      BY <1>2, <2>8, <3>2, <3>3, <3>4, <3>5, <3>6 DEF CallSafe
    <3>. QED BY <3>1, <3>2, <3>7
  <2>10. ASSUME NEW q \in Callers
         PROVE  call'[q] \in Call /\ CallSafe(call'[q], o, uids')
    <3>1. CASE q = p
      BY <2>6, <2>7, <2>9, <3>1
    <3>2. CASE q # p
      <4>1. call[q] \in Call /\ CallSafe(call[q], obj, uids)
        BY DEF SafetyInv, Shapes
      <4>. QED BY <2>2, <2>4, <2>6, <2>7, <3>2, <4>1, ObserveSafe
    <3>. QED BY <3>1, <3>2
  <2>11. call' \in [Callers -> Call]
    BY <2>6, <2>10
  <2>12. Shapes'
    BY <1>1, <2>2, <2>4, <2>6, <2>11 DEF SafetyInv, Shapes
  <2>13. \A q \in Callers : CallSafe(call'[q], obj', uids')
    BY <2>6, <2>10
  <2>. QED BY <2>12, <2>13 DEF SafetyInv, CallSafe, Belongs, UserName, EffectiveUid, Mine, Rightly
<1>. QED BY <1>3, <1>4

(* The object is read again. *)
LEMMA GetObjectSafe ==
  ASSUME SafetyInv, NEW p \in Callers, GetObject(p)
  PROVE  SafetyInv'
<1>. DEFINE c == call[p]
<1>1. c.stage = "allowed" /\ UNCHANGED <<kube, seen, proc, issued>> /\ c.stage \notin Resting
  BY DEF GetObject, watches, Resting
<1>2. /\ Rightly(c, obj[c.name])
      /\ (c.always => Belongs(c, obj[c.name])) /\ (c.always => c.here)
  BY <1>1 DEF SafetyInv, Shapes, CallSafe
<1>3. \/ call' = Ends(p, "in")
      \/ ~(obj[c.name] # None /\ c.here) /\ call' = Ends(p, "refused")
  BY DEF GetObject, NamespaceMatches
<1>4. CASE call' = Ends(p, "in")
  BY <1>1, <1>2, <1>4, EndsSafe
<1>5. CASE ~(obj[c.name] # None /\ c.here) /\ call' = Ends(p, "refused")
  <2>1. ~c.always
    BY <1>2, <1>5 DEF Belongs
  <2>. QED BY <1>1, <1>5, <2>1, EndsSafe
<1>. QED BY <1>3, <1>4, <1>5

(* Calls fail, and all of them end with the process. *)
LEMMA FailSafe ==
  ASSUME SafetyInv, Stop \/ \E p \in Callers : CallFails(p)
  PROVE  SafetyInv'
<1>1. ASSUME NEW p \in Callers, CallFails(p)
      PROVE  SafetyInv'
  <2>. DEFINE no == [NoCall EXCEPT !.stage = "refused", !.right = TRUE]
  <2>1. call' = [call EXCEPT ![p] = no] /\ UNCHANGED <<kube, seen, proc, issued>>
    BY <1>1 DEF CallFails, watches
  <2>2. no \in Call /\ CallSafe(no, obj, uids)
    BY Failed
  <2>. HIDE DEF no
  <2>. QED BY <2>1, <2>2, OneCall
<1>2. CASE Stop
  <2>1. NoCall \in Call /\ NoCall.stage = "idle" /\ "idle" \in Resting
    BY IdentityBounds DEF NoCall, Call, Resting
  <2>2. /\ call' = [p \in Callers |-> NoCall] /\ proc' = None
        /\ UNCHANGED <<kube, seen, issued>>
    BY <1>2 DEF Stop
  <2>3. Shapes'
    BY <2>1, <2>2 DEF SafetyInv, Shapes, kube
  <2>4. \A p \in Callers : CallSafe(call'[p], obj', uids')
    BY <2>1, <2>2 DEF CallSafe
  <2>. QED BY <2>3, <2>4 DEF SafetyInv, CallSafe, Belongs, UserName, EffectiveUid, Mine, Rightly
<1>. QED BY <1>1, <1>2

-----------------------------------------------------------------------------
(* The theorems *)

(* The invariant holds in every reachable state. *)
LEMMA SafetyAlways == Spec => []SafetyInv
<1>1. Init => SafetyInv
  <2>. SUFFICES ASSUME Init PROVE SafetyInv
    OBVIOUS
  <2>1. NoCall \in Call /\ NoCall.stage = "idle" /\ "idle" \in Resting
    BY IdentityBounds DEF NoCall, Call, Resting
  <2>2. Shapes
    <3>1. uids \in 0..MaxUids /\ key \in Nat /\ year \in Nat
      BY IdentityBounds DEF Init
    <3>. QED BY <2>1, <3>1 DEF Init, Shapes
  <2>3. \A p \in Callers : CallSafe(call[p], obj, uids)
    BY <2>1 DEF Init, CallSafe
  <2>. QED BY <2>2, <2>3 DEF SafetyInv
<1>2. SafetyInv /\ [Next]_vars => SafetyInv'
  <2>. SUFFICES ASSUME SafetyInv, [Next]_vars PROVE SafetyInv'
    OBVIOUS
  <2>1. CASE UNCHANGED vars
    BY <2>1, CallsRest DEF vars, SafetyInv, Shapes
  <2>. QED BY <2>1, UsersSafe, ReconcileSafe, ClusterSafe, PatchStatusSafe, VerifySafe,
              AuthorizeSafe, ProvisionSafe, GetObjectSafe, FailSafe DEF Next
<1>. QED BY <1>1, <1>2, PTL DEF Spec

(* Whoever was let in as an object was, at some moment of the call, a user *)
(* of that very object or, if it was made during the call, of one of its   *)
(* name: in every reachable state, with any number of calls that           *)
(* authorise, provision and read at the same time while objects are        *)
(* edited, deleted and made anew (Authorize, Provision and GetObject).     *)
THEOREM AlwaysLetInRightly == Spec => []LetInRightly
<1>1. SafetyInv => LetInRightly
  BY DEF SafetyInv, CallSafe, Resting, LetInRightly
<1>. QED BY <1>1, SafetyAlways, PTL

(* A call that was refused had failed, or its object had not been its own  *)
(* during all of it, or it asked for another namespace: in every reachable *)
(* state.                                                                  *)
THEOREM AlwaysRefusedRightly == Spec => []RefusedRightly
<1>1. SafetyInv => RefusedRightly
  BY DEF SafetyInv, CallSafe, Resting, RefusedRightly
<1>. QED BY <1>1, SafetyAlways, PTL
=============================================================================
