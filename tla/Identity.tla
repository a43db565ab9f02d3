------------------------------ MODULE Identity ------------------------------
(***************************************************************************)
(* Who is who.  The client and the exporter reconcilers keep a credential, *)
(* a token signed by the controller, in a secret of each Client and        *)
(* Exporter (ensureSecret).  A call is authenticated by such a token or by *)
(* one of an external issuer, and let in as the object it names if the     *)
(* caller is one of the object's users; a Client that is missing may be    *)
(* provisioned on the first call (BasicAuthorizer).  The controller reads  *)
(* its key and its configuration once, when it starts (cmd/main.go).       *)
(*                                                                         *)
(* The reconcilers read caches, the calls read the API server.  Secrets    *)
(* are patched without a precondition.                                     *)
(*                                                                         *)
(* A definition whose comment starts with "Mistake:" is a wrong version of *)
(* the definition after it; nothing uses it.                               *)
(***************************************************************************)
EXTENDS Naturals, FiniteSets

CONSTANTS
  None,
  Names,         \* objects, as <<kind, name>>
  Users,         \* users of external issuers
  NormalName,    \* the Client that normalizeName makes of a user
  Requests,      \* what calls may ask for
  ConfigMaps,    \* contents of the ConfigMap
  Callers,       \* calls in progress
  Migrates,      \* objects may take over the UID of an earlier one
  Orphans,       \* deleting an object may leave its secret
  MaxUids, MaxKeys, MaxYears, MaxChanges, MaxFaults

Kinds == {"Client", "Exporter"}
KindOf(n) == n[1]

(* A request: the kind that the RPC is for, kind and name in the metadata  *)
(* (None for an empty name), whether the namespace is the one of the       *)
(* object, and the user who calls, None for one with a credential.         *)
ASSUME RequestsAssumption ==
  \A r \in Requests : /\ r.rpc \in Kinds /\ r.user \in Users \cup {None} /\ r.here \in BOOLEAN
                      /\ r.name \in Names \cup {None}
                      /\ IF r.name # None THEN r.kind = KindOf(r.name)
                         ELSE r.user # None /\ r.kind = "Client"
(* Sections of the ConfigMap: missing, malformed or good. *)
ConfigMapData ==
  [router : {"none", "bad", "good"}, authentication : {"none", "bad", "good"},
   config : {"none", "bad", "good", "provisioning"}]
ASSUME ConfigMapsAssumption == ConfigMaps \subseteq ConfigMapData
ASSUME NamesAssumption ==
  /\ \A n \in Names : KindOf(n) \in Kinds
  /\ NormalName \in [Users -> Names] /\ \A u \in Users : KindOf(NormalName[u]) = "Client"
ASSUME IdentityBounds ==
  {MaxUids, MaxKeys, MaxYears, MaxChanges, MaxFaults} \subseteq Nat

VARIABLES
  obj,        \* Clients and Exporters in the API server
  seen,       \* the informers' copies of them
  secret,     \* their secrets
  held,       \* the informer's copies of those
  queued,     \* work queues of the reconcilers
  job,        \* the reconcile of each kind that is in progress
  key,        \* CONTROLLER_KEY as the secret of the deployment has it
  configmap,  \* the ConfigMap of the controller
  proc,       \* the controller: key and provisioning it started with, or None
  year,       \* tokens are signed for a year
  uids,       \* objects made so far
  issued,     \* tokens that were ever stored
  call,       \* the calls
  count       \* changes and faults so far

kube == <<obj, secret, key, configmap, year, uids>>
watches == <<seen, held, queued, job>>
vars == <<obj, seen, secret, held, queued, job, key, configmap, proc, year, uids, issued,
          call, count>>

-----------------------------------------------------------------------------
(* Names of users *)

(* getNamespaceAndUID: annotations of a migrated object override its UID. *)
EffectiveUid(o) == IF o.migrated # 0 THEN o.migrated ELSE o.uid

InternalSubject(n, o) == <<n, EffectiveUid(o)>>

(* Mistake: Spec.Username is forgotten. *)
UsernamesInternal(n, o) == {InternalSubject(n, o)}

(* Usernames(prefix): the subject of its credential and Spec.Username. *)
Usernames(n, o) == {InternalSubject(n, o)} \cup ({o.username} \ {None})

-----------------------------------------------------------------------------
(* Tokens: of says for whom a token was signed. *)

NewToken(n, o) ==
  [sub |-> InternalSubject(n, o), of |-> <<n, EffectiveUid(o)>>, key |-> proc.key, year |-> year]

(* Signer.Validate: signature, issuer, audience and expiry. *)
Validate(t) == t # None /\ t.key = proc.key /\ t.year = year

-----------------------------------------------------------------------------
(* The name that authentication gives a caller. *)
UserName(c) == IF c.user # None THEN c.user ELSE c.token.sub

(* Whose call it is, which the answer should depend on: the caller is the  *)
(* user that the object names, or has a credential signed for the object.  *)
Belongs(c, o) ==
  /\ o # None
  /\ \/ o.username = UserName(c)
     \/ c.token # None /\ c.token.of = <<c.name, EffectiveUid(o)>>

Resting == {"idle", "in", "refused"}
NoCall == [stage |-> "idle", user |-> None, token |-> None, name |-> None, here |-> TRUE,
           since |-> 0, ever |-> {}, always |-> FALSE, right |-> FALSE]

(* The UID of an object that is the caller's. *)
Mine(c, o) == IF Belongs(c, o) THEN {o.uid} ELSE {}

(* The objects become o: calls in progress keep which objects of the name  *)
(* they ask for were ever theirs, and whether there always was one.        *)
Observe(c, o) ==
  IF c.stage \in Resting THEN c
  ELSE [c EXCEPT !.ever = @ \cup Mine(c, o[c.name]), !.always = @ /\ Belongs(c, o[c.name])]

SetObjects(o, calls) ==
  /\ obj' = o
  /\ call' = [p \in Callers |-> Observe(calls[p], o)]

-----------------------------------------------------------------------------
(* The cluster and its users *)

Change == count.changes < MaxChanges /\ count' = [count EXCEPT !.changes = @ + 1]
Fault == count.faults < MaxFaults /\ count' = [count EXCEPT !.faults = @ + 1]

NewObject(username, migrated) ==
  [uid |-> uids + 1, migrated |-> migrated, username |-> username, ready |-> FALSE]

CreateObject(n) ==
  /\ obj[n] = None /\ uids < MaxUids
  /\ \E u \in Users \cup {None}, m \in {0} \cup (IF Migrates THEN 1..uids ELSE {}) :
       SetObjects([obj EXCEPT ![n] = NewObject(u, m)], call)
  /\ uids' = uids + 1
  /\ UNCHANGED <<watches, secret, key, configmap, proc, year, issued, count>>

EditUsername(n) ==
  /\ obj[n] # None
  /\ \E u \in (Users \cup {None}) \ {obj[n].username} :
       SetObjects([obj EXCEPT ![n].username = u], call)
  /\ Change
  /\ UNCHANGED <<watches, secret, key, configmap, proc, year, uids, issued>>

DeleteObject(n) ==
  /\ obj[n] # None
  /\ SetObjects([obj EXCEPT ![n] = None], call)
  /\ \/ UNCHANGED secret
     \/ /\ Orphans /\ secret[n] # None
        /\ secret' = [secret EXCEPT ![n].owner = 0]
  /\ Change
  /\ UNCHANGED <<watches, key, configmap, proc, year, uids, issued>>

(* Somebody deletes a secret, spoils it or makes it by hand. *)
EditSecret(n) ==
  /\ secret' \in {[secret EXCEPT ![n] = None],
                  [secret EXCEPT ![n] = [owner |-> IF secret[n] = None THEN 0 ELSE secret[n].owner,
                                         token |-> None]]} \ {secret}
  /\ Change
  /\ UNCHANGED <<watches, obj, key, configmap, proc, year, uids, issued, call>>

EditSettings ==
  /\ \/ key < MaxKeys /\ key' = key + 1 /\ UNCHANGED configmap
     \/ configmap' \in ConfigMaps \ {configmap} /\ UNCHANGED key
  /\ Change
  /\ UNCHANGED <<watches, obj, secret, proc, year, uids, issued, call>>

(* All tokens signed so far expire. *)
YearPasses ==
  /\ year < MaxYears
  /\ year' = year + 1
  /\ UNCHANGED <<watches, obj, secret, key, configmap, proc, uids, issued, call, count>>

CollectGarbage(n) ==
  /\ secret[n] # None
  /\ secret[n].owner # 0
  /\ ~(obj[n] # None /\ obj[n].uid = secret[n].owner)
  /\ secret' = [secret EXCEPT ![n] = None]
  /\ UNCHANGED <<watches, obj, key, configmap, proc, year, uids, issued, call, count>>

DeliverObject(n) ==
  /\ proc # None /\ seen[n] # obj[n]
  /\ seen' = [seen EXCEPT ![n] = obj[n]]
  /\ queued' = queued \cup {n}
  /\ UNCHANGED <<kube, held, job, proc, issued, call, count>>

(* Owns(&corev1.Secret{}): an event of a secret wakes its owner. *)
DeliverSecret(n) ==
  /\ proc # None /\ held[n] # secret[n]
  /\ held' = [held EXCEPT ![n] = secret[n]]
  /\ queued' = IF \E s \in {held[n], secret[n]} : s # None /\ s.owner # 0
               THEN queued \cup {n} ELSE queued
  /\ UNCHANGED <<kube, seen, job, proc, issued, call, count>>

(* The informers' periodic resync, of interest when tokens expired. *)
Resync ==
  /\ proc # None /\ queued # Names
  /\ \E n \in Names : held[n] # None /\ held[n].token # None /\ held[n].token.year # year
  /\ queued' = Names
  /\ UNCHANGED <<kube, seen, held, job, proc, issued, call, count>>

-----------------------------------------------------------------------------
(* The controller's process *)

(* The section "authentication" of earlier versions has no provisioning. *)
LoadOldAuthentication(cm) ==
  IF cm.authentication = "good" THEN [provisioning |-> FALSE] ELSE None

(* The section "config", of which nothing may be unknown or malformed. *)
LoadAuthenticationConfiguration(cm) ==
  IF cm.config \in {"good", "provisioning"}
  THEN [provisioning |-> cm.config = "provisioning"] ELSE None

(* The old section goes before the new one.  None: the process exits. *)
LoadConfiguration(cm) ==
  IF cm.router # "good" THEN None
  ELSE IF cm.authentication # "none" THEN LoadOldAuthentication(cm)
  ELSE LoadAuthenticationConfiguration(cm)

Start ==
  /\ proc = None
  /\ LoadConfiguration(configmap) # None
  /\ proc' = [key |-> key, provisioning |-> LoadConfiguration(configmap).provisioning]
  /\ seen' = obj /\ held' = secret /\ queued' = Names
  /\ UNCHANGED <<kube, job, issued, call, count>>

Stop ==
  /\ proc # None
  /\ Fault
  /\ proc' = None
  /\ job' = [k \in Kinds |-> None]
  /\ call' = [p \in Callers |-> NoCall]
  /\ UNCHANGED <<kube, seen, held, queued, issued>>

-----------------------------------------------------------------------------
(* ClientReconciler and ExporterReconciler *)

(* A call returned an error: the reconcile stays queued. *)
Abort == UNCHANGED <<queued, secret, issued, job>>

(* Put s in place of the secret; the status comes next. *)
Stored(n, s) ==
  /\ secret' = [secret EXCEPT ![n] = s]
  /\ issued' = issued \cup ({s.token} \ {None})
  /\ queued' = queued \ {n}
  /\ job' = [job EXCEPT ![KindOf(n)] = [name |-> n, ready |-> seen[n].ready]]

(* Mistake: a token that is there is taken for valid. *)
KeepToken(n, s) == IF s.token # None THEN s.token ELSE NewToken(n, seen[n])

(* A token that is missing or not valid is signed anew. *)
CurrentToken(n, s) == IF Validate(s.token) THEN s.token ELSE NewToken(n, seen[n])

(* Create what the cache does not have; else patch what differs from the   *)
(* cached copy.  SetControllerReference compares kind and name of the      *)
(* owner there is and puts the UID of the new one: the secret of a deleted *)
(* object is taken over by the next of its name, with its token.           *)
ensureSecret(n) ==
  LET o == seen[n]
      s == held[n]
  IN  CASE s = None /\ secret[n] = None -> Stored(n, [owner |-> o.uid, token |-> NewToken(n, o)])
        [] s # None /\ secret[n] # None ->
             LET t == CurrentToken(n, s)
             IN  Stored(n, [owner |-> IF s.owner = o.uid THEN secret[n].owner ELSE o.uid,
                            token |-> IF t = s.token THEN secret[n].token ELSE t])
        [] OTHER -> Abort

ReconcileStatusCredential(n) ==
  /\ proc # None /\ n \in queued /\ job[KindOf(n)] = None
  /\ IF seen[n] = None THEN queued' = queued \ {n} /\ UNCHANGED <<secret, issued, job>>
     ELSE ensureSecret(n)
  /\ UNCHANGED <<obj, seen, held, key, configmap, proc, year, uids, call, count>>

(* Status().Patch: what differs from the copy that was read. *)
PatchStatus(k) ==
  /\ job[k] # None
  /\ LET n == job[k].name
     IN  IF obj[n] = None THEN queued' = queued \cup {n} /\ UNCHANGED <<obj, call>>
         ELSE /\ SetObjects([obj EXCEPT ![n].ready = @ \/ ~job[k].ready], call)
              /\ UNCHANGED queued
  /\ job' = [job EXCEPT ![k] = None]
  /\ UNCHANGED <<seen, secret, held, key, configmap, proc, year, uids, issued, count>>

(* A call of the API server fails: the reconcile is retried. *)
ReconcileFails(k) ==
  /\ job[k] # None
  /\ Fault
  /\ job' = [job EXCEPT ![k] = None]
  /\ queued' = queued \cup {job[k].name}
  /\ UNCHANGED <<kube, seen, held, proc, issued, call>>

-----------------------------------------------------------------------------
(* Calls: VerifyClientObjectToken, VerifyExporterObjectToken, Auth *)

Goes(p, stage) == [call EXCEPT ![p].stage = stage]

(* Whether call c may be let in as object o: it was the caller's at some   *)
(* moment of the call, or it took the place of one that was.               *)
Rightly(c, o) == c.ever # {} /\ (o # None => o.uid \in c.ever \/ o.uid > c.since)

(* The call is answered: all that is kept is whether that was right. *)
Ends(p, answer) ==
  [call EXCEPT ![p] = [NoCall EXCEPT !.stage = answer,
                         !.right = IF answer = "in" THEN Rightly(call[p], obj[call[p].name])
                                   ELSE ~call[p].always]]

(* The bearer token of a call is checked; users of other issuers have one  *)
(* that is valid.                                                          *)
AuthenticateContext(t) == t # None => Validate(t)

(* A call that names no object is for the one of its user. *)
ContextAttributes(r) == IF r.name = None THEN NormalName[r.user] ELSE r.name

(* Authentication, attributes and the check of the kind. *)
VerifyOIDCToken(p, r, t) ==
  LET c == [NoCall EXCEPT !.stage = "authorize", !.user = r.user, !.token = t, !.here = r.here,
                          !.name = ContextAttributes(r), !.since = uids]
      o == obj[c.name]
  IN  /\ proc # None /\ call[p].stage \in Resting
      /\ call' = [call EXCEPT ![p] =
           IF AuthenticateContext(t) /\ r.kind = r.rpc
           THEN [c EXCEPT !.ever = Mine(c, o), !.always = Belongs(c, o) /\ r.here]
           ELSE [NoCall EXCEPT !.stage = "refused", !.right = TRUE]]
      /\ UNCHANGED <<kube, watches, proc, issued, count>>

(* BasicAuthorizer.Authorize: reads the object. *)
Authorize(p) ==
  LET c == call[p]
      o == obj[c.name]
      provisions == o = None /\ KindOf(c.name) = "Client" /\ proc.provisioning
  IN  /\ c.stage = "authorize"
      /\ call' = IF provisions THEN Goes(p, "provision")
                 ELSE IF o # None /\ UserName(c) \in Usernames(c.name, o)
                 THEN Goes(p, "allowed") ELSE Ends(p, "refused")
      /\ UNCHANGED <<kube, watches, proc, issued, count>>

(* Mistake: a Client that exists by now is taken for the one provisioned. *)
ProvisionExisting(p) == Goes(p, "allowed")

(* Create finds that the Client exists by now, which is an error. *)
ProvisionRefused(p) == Ends(p, "refused")

(* The Client that was made has the caller as its user. *)
Provision(p) ==
  LET c == call[p]
  IN  /\ c.stage = "provision"
      /\ IF obj[c.name] # None
         THEN call' = ProvisionRefused(p) /\ UNCHANGED <<obj, uids>>
         ELSE /\ uids < MaxUids
              /\ SetObjects([obj EXCEPT ![c.name] = NewObject(UserName(c), 0)],
                            Goes(p, "allowed"))
              /\ uids' = uids + 1
      /\ UNCHANGED <<watches, secret, key, configmap, proc, year, issued, count>>

(* AuthClient, AuthExporter: "namespace mismatch" *)
NamespaceMatches(c) == c.here

(* The object is read again; then its namespace is checked. *)
GetObject(p) ==
  LET c == call[p]
  IN  /\ c.stage = "allowed"
      /\ call' = Ends(p, IF obj[c.name] # None /\ NamespaceMatches(c) THEN "in" ELSE "refused")
      /\ UNCHANGED <<kube, watches, proc, issued, count>>

CallFails(p) ==
  /\ call[p].stage \notin Resting
  /\ Fault
  /\ call' = [call EXCEPT ![p] = [NoCall EXCEPT !.stage = "refused", !.right = TRUE]]
  /\ UNCHANGED <<kube, watches, proc, issued>>

-----------------------------------------------------------------------------
Init ==
  /\ obj = [n \in Names |-> None] /\ secret = obj /\ seen = obj /\ held = obj
  /\ queued = {} /\ job = [k \in Kinds |-> None]
  /\ key = 1 /\ configmap \in ConfigMaps /\ proc = None
  /\ year = 0 /\ uids = 0 /\ issued = {}
  /\ call = [p \in Callers |-> NoCall]
  /\ count = [changes |-> 0, faults |-> 0]

Next ==
  \/ \E n \in Names : \/ CreateObject(n) \/ EditUsername(n) \/ DeleteObject(n) \/ EditSecret(n)
                      \/ CollectGarbage(n) \/ DeliverObject(n) \/ DeliverSecret(n)
                      \/ ReconcileStatusCredential(n)
  \/ EditSettings \/ YearPasses \/ Resync \/ Start \/ Stop
  \/ \E k \in Kinds : PatchStatus(k) \/ ReconcileFails(k)
  \/ \E p \in Callers :
       \/ \E r \in Requests : \E t \in IF r.user = None THEN issued ELSE {None} :
            VerifyOIDCToken(p, r, t)
       \/ Authorize(p) \/ Provision(p) \/ GetObject(p) \/ CallFails(p)

Spec == Init /\ [][Next]_vars

(* Kubernetes restarts the process; informers, garbage collector and the   *)
(* reconcilers' workers run.  Nothing is assumed of users and calls.       *)
Fairness ==
  /\ WF_vars(Start) /\ WF_vars(Resync)
  /\ \A n \in Names : /\ WF_vars(CollectGarbage(n)) /\ WF_vars(DeliverObject(n))
                      /\ WF_vars(DeliverSecret(n)) /\ WF_vars(ReconcileStatusCredential(n))
  /\ \A k \in Kinds : WF_vars(PatchStatus(k))

FairSpec == Spec /\ Fairness

-----------------------------------------------------------------------------
IsToken(t) == t.of[1] \in Names /\ t.of[2] \in 1..uids /\ t.key \in 1..key /\ t.year \in 0..year

(* Objects, secrets and calls are well formed, and a reconcile in progress *)
(* works on an object of its kind.                                         *)
TypeOK ==
  /\ \A n \in Names : /\ obj[n] # None => obj[n].uid \in 1..uids
                      /\ secret[n] # None => /\ secret[n].owner \in 0..uids
                                             /\ secret[n].token \in issued \cup {None}
  /\ \A t \in issued : IsToken(t)
  /\ queued \subseteq Names
  /\ \A k \in Kinds : job[k] # None => proc # None /\ KindOf(job[k].name) = k
  /\ \A p \in Callers : call[p].stage \in Resting \cup {"authorize", "provision", "allowed"}
  /\ uids \in 0..MaxUids /\ key \in 1..MaxKeys /\ year \in 0..MaxYears

(* Whoever is let in as an object was at some moment of the call one of    *)
(* its users (its Spec.Username, or the holder of a credential signed for  *)
(* this very object), unless the object was made during the call: then it  *)
(* was a user of that object or of one whose name it has.  Authorize and   *)
(* the read after it see different states, two first calls may provision   *)
(* at the same time, and two users may normalise to one name               *)
(* (VerifyClientObjectToken, BasicAuthorizer.Authorize).                   *)
LetInRightly == \A p \in Callers : call[p].stage = "in" => call[p].right

(* A caller whose object it was during all of the call, with a token that  *)
(* was valid at its start, is let in unless a call of the API server       *)
(* fails: no step of the reconcilers or of other calls gets in the way.    *)
RefusedRightly ==
  \A p \in Callers : call[p].stage = "refused" => call[p].right

(* A token was signed for another object of the name, and is valid yet. *)
Outlived(n) ==
  \E t \in issued : /\ Validate(t)
                    /\ t.of \in {n} \X (Nat \ {EffectiveUid(obj[n])})

(* The secret belongs to the object and holds a valid token, which lets    *)
(* its holder in as the object.  Only the token of an earlier object of    *)
(* the name may be in the way, for as long as it is valid.                 *)
CredentialWorks(n) ==
  /\ secret[n] # None
  /\ secret[n].owner = obj[n].uid
  /\ Validate(secret[n].token)
  /\ secret[n].token.of = <<n, EffectiveUid(obj[n])>> \/ Outlived(n)

(* In the end every object has a credential that is valid and its status   *)
(* says so: after the object or its secret was deleted, made anew or       *)
(* spoiled, the key was changed or the token expired, and whatever the     *)
(* caches missed; and once the tokens of earlier objects of its name have  *)
(* run out it is a credential for this very object                         *)
(* (reconcileStatusCredential, ensureSecret).                              *)
CredentialsConverge ==
  <>[](LoadConfiguration(configmap) # None =>
         proc # None /\ \A n \in Names : obj[n] # None => CredentialWorks(n) /\ obj[n].ready)

-----------------------------------------------------------------------------
(* The inductive invariant behind LetInRightly and RefusedRightly *)

(* Subjects of credentials, credentials, objects and calls.  A credential  *)
(* names as its subject whom it was signed for.                            *)
Subjects == Names \X (0..MaxUids)
Credential == {t \in [sub : Subjects, of : Subjects, key : Nat, year : Nat] : t.sub = t.of}
Object == [uid : 1..MaxUids, migrated : 0..MaxUids, username : Users \cup Subjects \cup {None},
           ready : BOOLEAN]
Call == [stage : Resting \cup {"authorize", "provision", "allowed"}, user : Users \cup {None},
         token : Credential \cup {None}, name : Names \cup {None}, here : BOOLEAN,
         since : 0..MaxUids, ever : SUBSET (1..MaxUids), always : BOOLEAN,
         right : BOOLEAN]

(* Names of users of external issuers have another prefix than subjects of *)
(* credentials.                                                            *)
ASSUME UsersAreExternal == Users \cap Subjects = {}
ASSUME NoneIsApart ==
  None \notin Users /\ None \notin Subjects /\ None \notin Object /\ None \notin Names

Shapes ==
  /\ uids \in 0..MaxUids /\ key \in Nat /\ year \in Nat
  /\ proc # None => proc.key \in Nat
  /\ obj \in [Names -> Object \cup {None}] /\ seen \in [Names -> Object \cup {None}]
  /\ secret \in [Names -> [owner : 0..MaxUids, token : Credential \cup {None}] \cup {None}]
  /\ issued \subseteq Credential \ {None}
  /\ call \in [Callers -> Call]

(* What a call c remembers is true of the objects o, made with UIDs up to  *)
(* u, and of the past: it was let in or refused rightly, or its object is  *)
(* not its own unless it knows, and was never another's unless it noticed. *)
CallSafe(c, o, u) ==
  IF c.stage \in Resting
  THEN c.stage \in {"in", "refused"} => c.right
  ELSE /\ c.name \in Names
       /\ c.user = None <=> c.token # None
       /\ c.since <= u
       /\ Mine(c, o[c.name]) \subseteq c.ever
       /\ c.always => Belongs(c, o[c.name]) /\ c.here
       /\ c.stage = "allowed" => Rightly(c, o[c.name])
       /\ c.stage = "provision" => ~c.always

SafetyInv == Shapes /\ \A p \in Callers : CallSafe(call[p], obj, uids)
=============================================================================
