----------------------- MODULE LeaseControllerProofs -----------------------
(***************************************************************************)
(* Proofs about LeaseController for every value of its constants.          *)
(***************************************************************************)
EXTENDS LeaseController, TLAPS

USE DEF Opt

-----------------------------------------------------------------------------
(* Whole seconds *)

(* The remainder of a division by Second. *)
LEMMA RemainderRange ==
  ASSUME NEW t \in Int
  PROVE  t % Second \in 0..(Second - 1)
BY SecondAssumption

(* An instant is its whole seconds and the rest. *)
LEMMA QuotientRemainder ==
  ASSUME NEW t \in Int
  PROVE  t \div Second \in Int /\ t = Second * (t \div Second) + (t % Second)
BY SecondAssumption

(* A stored instant is a multiple of Second, and not later. *)
LEMMA WholeValue ==
  ASSUME NEW t \in Int
  PROVE  /\ Whole(t) = t - (t % Second)
         /\ Whole(t) = Second * (t \div Second)
         /\ Whole(t) \in Int /\ Whole(t) <= t /\ Whole(t) # None
<1>1. Whole(t) = t - (t % Second)
  BY NoneAssumption DEF Whole
<1>. QED BY <1>1, RemainderRange, QuotientRemainder, SecondAssumption, NoneAssumption

(* Multiples of s that differ do so by at least s. *)
LEMMA ProductGrows ==
  ASSUME NEW s \in Nat \ {0}, NEW q \in Int, NEW r \in Int, q < r
  PROVE  s * q + s <= s * r
<1>1. PICK d \in Int : r = q + 1 + d /\ d >= 0
  <2>1. r - q - 1 \in Int /\ r = q + 1 + (r - q - 1) /\ r - q - 1 >= 0
    OBVIOUS
  <2>. QED BY <2>1
<1>2. s * r = s * q + s + s * d
  BY <1>1
<1>3. s * d >= 0
  BY <1>1
<1>4. s * q \in Int /\ s * d \in Int /\ s * r \in Int
  OBVIOUS
<1>. QED BY <1>2, <1>3, <1>4

(* Truncation keeps the order of instants ... *)
LEMMA WholeOrder ==
  ASSUME NEW t \in Int, NEW u \in Int, t <= u
  PROVE  Whole(t) <= Whole(u)
<1>1. PICK q \in Int : q = t \div Second
  BY QuotientRemainder
<1>2. PICK r \in Int : r = u \div Second
  BY QuotientRemainder
<1>3. /\ Whole(t) = Second * q /\ Whole(u) = Second * r
      /\ Second * q \in Int /\ Second * r \in Int
  BY <1>1, <1>2, WholeValue, SecondAssumption
<1>4. CASE r < q
  <2>1. Second * r + Second <= Second * q
    BY <1>4, ProductGrows, SecondAssumption
  <2>2. Whole(t) <= t /\ Whole(u) = u - (u % Second)
    BY WholeValue
  <2>3. u % Second \in Int /\ u % Second < Second
    BY RemainderRange, SecondAssumption
  <2>. QED BY <1>3, <2>1, <2>2, <2>3, SecondAssumption
<1>5. CASE q = r
  BY <1>3, <1>5
<1>6. CASE q < r
  <2>1. Second * q + Second <= Second * r
    BY <1>6, ProductGrows, SecondAssumption
  <2>. QED BY <1>3, <2>1, SecondAssumption
<1>. QED BY <1>4, <1>5, <1>6

(* ... and changes nothing the second time. *)
LEMMA WholeTwice ==
  ASSUME NEW t \in Opt(Int)
  PROVE  Whole(Whole(t)) = Whole(t)
<1>1. CASE t = None
  BY <1>1 DEF Whole
<1>2. CASE t \in Int
  <2>1. PICK q \in Int : q = t \div Second
    BY <1>2, QuotientRemainder
  <2>2. Whole(t) = Second * q /\ Whole(t) \in Int
    BY <1>2, <2>1, WholeValue
  <2>3. (Second * q) % Second = 0
    BY SecondAssumption, SMT
  <2>. QED BY <2>2, <2>3, WholeValue
<1>. QED BY <1>1, <1>2

(* Storing keeps an absent time absent and an instant an instant. *)
LEMMA WholeType ==
  /\ \A t \in Opt(Int) : Whole(t) \in Opt(Int) /\ (Whole(t) = None) = (t = None)
  /\ \A t \in Opt(Nat) : Whole(t) \in Opt(Nat)
<1>1. ASSUME NEW t \in Opt(Int)
      PROVE  Whole(t) \in Opt(Int) /\ (Whole(t) = None) = (t = None)
  <2>1. CASE t = None
    BY <2>1 DEF Whole
  <2>2. CASE t \in Int
    BY <2>2, WholeValue, NoneAssumption
  <2>. QED BY <2>1, <2>2
<1>2. ASSUME NEW t \in Opt(Nat)
      PROVE  Whole(t) \in Opt(Nat)
  <2>1. CASE t = None
    BY <2>1 DEF Whole
  <2>2. CASE t \in Nat
    <3>1. 0 % Second = 0
      BY SecondAssumption
    <3>2. Whole(0) = 0
      BY <3>1, WholeValue
    <3>3. Whole(0) <= Whole(t)
      BY <2>2, WholeOrder
    <3>. QED BY <2>2, <3>2, <3>3, WholeValue
  <2>. QED BY <2>1, <2>2
<1>. QED BY <1>1, <1>2

(* What StoredStatus changes: the two times, and only once. *)
LEMMA StoredResult ==
  ASSUME NEW s \in LeaseStatus
  PROVE  LET w == StoredStatus(s)
         IN  /\ w \in LeaseStatus
             /\ w.begin = Whole(s.begin) /\ w.end = Whole(s.end)
             /\ w.exporterRef = s.exporterRef /\ w.ended = s.ended
             /\ w.conds = s.conds
             /\ StoredStatus(w) = w
<1>. DEFINE w == StoredStatus(s)
<1>1. /\ s.begin \in Opt(Nat) /\ s.end \in Opt(Nat)
      /\ s.begin \in Opt(Int) /\ s.end \in Opt(Int)
  BY DEF LeaseStatus
<1>2. Whole(s.begin) \in Opt(Nat) /\ Whole(s.end) \in Opt(Nat)
  BY <1>1, WholeType
<1>3. w \in LeaseStatus
  BY <1>2 DEF StoredStatus, LeaseStatus
<1>4. /\ w.begin = Whole(s.begin) /\ w.end = Whole(s.end)
      /\ w.exporterRef = s.exporterRef /\ w.ended = s.ended
      /\ w.conds = s.conds
  BY DEF StoredStatus, LeaseStatus
<1>5. Whole(w.begin) = w.begin /\ Whole(w.end) = w.end
  BY <1>1, <1>4, WholeTwice
<1>6. StoredStatus(w) = w
  <2>. HIDE DEF w
  <2>. QED BY <1>3, <1>5 DEF StoredStatus, LeaseStatus
<1>. QED BY <1>3, <1>4, <1>6

-----------------------------------------------------------------------------
(* Types of the operators the actions are built from *)

(* ReconcileLeaseTimeFields returns time fields. *)
LEMMA CompleteType ==
  ASSUME NEW t \in TimeFields
  PROVE  CompleteTimeFields(t) \in TimeFields
BY NoneAssumption DEF CompleteTimeFields, TimeFields, Positive

(* UpdateLease merges time fields into time fields. *)
LEMMA MergedType ==
  ASSUME NEW spec \in LeaseSpec, NEW ask \in TimeFields
  PROVE  MergedTimes(spec, ask) \in TimeFields
BY CompleteType DEF MergedTimes, TimeFields, LeaseSpec

(* A merge patch of a spec is a spec. *)
LEMMA MergePatchType ==
  ASSUME NEW p \in Patch, NEW spec \in LeaseSpec
  PROVE  MergePatch(p, spec) \in LeaseSpec
BY DEF MergePatch, Field, Patch, LeaseSpec

(* A condition set in a status leaves a status. *)
LEMMA SetConditionType ==
  ASSUME NEW s \in LeaseStatus, NEW c \in Conditions, NEW r \in Reasons
  PROVE  SetCondition(s, c, r) \in LeaseStatus
BY DEF SetCondition, LeaseStatus

(* reconcileStatusBeginEndTimes returns a status. *)
LEMMA BeginType ==
  ASSUME NEW s \in LeaseStatus, now \in Nat
  PROVE  StatusBeginEndTimes(s) \in LeaseStatus
<1>1. [s EXCEPT !.begin = now] \in LeaseStatus
  BY DEF LeaseStatus
<1>2. "Ready" \in Conditions /\ "Ready" \in Reasons
  BY DEF Conditions, Reasons
<1>. QED BY <1>1, <1>2, SetConditionType DEF StatusBeginEndTimes

(* Ending a lease leaves a status. *)
LEMMA EndNowType ==
  ASSUME NEW s \in LeaseStatus, now \in Nat
  PROVE  EndNow(s) \in LeaseStatus
BY DEF EndNow, LeaseStatus

(* reconcileStatusEnded returns a status. *)
LEMMA EndedType ==
  ASSUME NEW spec \in LeaseSpec, NEW s \in LeaseStatus, now \in Nat
  PROVE  StatusEnded(spec, s) \in LeaseStatus
<1>1. "Ready" \in Conditions /\ "Released" \in Reasons /\ "Expired" \in Reasons
  BY DEF Conditions, Reasons
<1>. QED BY <1>1, EndNowType, SetConditionType DEF StatusEnded, Ends

(* The expiration is an instant, possibly before the clock starts. *)
LEMMA ExpiresType ==
  ASSUME NEW spec \in LeaseSpec, NEW b \in Nat
  PROVE  ExpiresAt(spec, b) \in Int
BY NoneAssumption DEF ExpiresAt, Expiration, Times, ZeroTime, LeaseSpec

(* No requeue is asked for with a negative delay. *)
LEMMA AfterType ==
  ASSUME NEW spec \in LeaseSpec, NEW s \in LeaseStatus, now \in Nat,
         NEW wait \in Opt(Nat)
  PROVE  After(spec, s, wait) \in Opt(Nat)
<1>1. CASE Running(spec, s)
  <2>1. s.begin \in Nat
    BY <1>1 DEF Running, LeaseStatus
  <2>2. ExpiresAt(spec, s.begin) \in Int
    BY <2>1, ExpiresType
  <2>. QED BY <1>1, <2>2 DEF After, Delay
<1>2. CASE ~Running(spec, s)
  BY <1>2 DEF After
<1>. QED BY <1>1, <1>2

(* The initial objects are well typed. *)
LEMMA BlankType ==
  /\ NoStatus \in LeaseStatus
  /\ Blank \in LeaseObject
  /\ NoJob \in Job
<1>1. NoStatus \in LeaseStatus
  BY DEF NoStatus, LeaseStatus, Reasons
<1>2. Blank \in LeaseObject
  BY <1>1 DEF Blank, LeaseObject, LeaseSpec
<1>3. NoJob \in Job
  BY <1>2 DEF NoJob, Job
<1>. QED BY <1>1, <1>2, <1>3

(* Storing an object keeps the store well typed. *)
LEMMA StoreType ==
  ASSUME NEW l \in Leases, NEW obj \in LeaseObject, Store(l, obj),
         lease \in [Leases -> LeaseObject], events \subseteq Leases
  PROVE  lease' \in [Leases -> LeaseObject] /\ events' \subseteq Leases
BY DEF Store

-----------------------------------------------------------------------------
(* Each action keeps the types *)

(* RequestLease and CreateLease keep the state well typed. *)
LEMMA NewLeaseType ==
  ASSUME TypeOK, NEW l \in Leases, NEW c \in Clients, NEW sel \in Selectors,
         NEW t \in TimeFields, NewLease(l, c, sel, t)
  PROVE  TypeOK'
<1>. DEFINE obj == [spec |-> [client |-> c, sel |-> sel, release |-> FALSE,
                             begin |-> Whole(t.begin), end |-> Whole(t.end),
                             dur |-> t.dur],
                   status |-> NoStatus, label |-> FALSE, owned |-> FALSE]
<1>1. obj \in LeaseObject
  BY BlankType, WholeType DEF LeaseObject, LeaseSpec, TimeFields
<1>2. Store(l, obj)
  BY DEF NewLease
<1>3. lease' \in [Leases -> LeaseObject] /\ events' \subseteq Leases
  BY <1>1, <1>2, StoreType DEF TypeOK
<1>. QED BY <1>3 DEF NewLease, TypeOK

(* The Get of a patching RPC keeps the state well typed. *)
LEMMA StartPatchType ==
  ASSUME TypeOK, NEW l \in Leases, NEW c \in Clients, NEW new \in LeaseSpec,
         StartPatch(l, c, new)
  PROVE  TypeOK'
<1>1. [lease |-> l, old |-> lease[l].spec, new |-> new] \in Patch
  BY DEF TypeOK, Patch, LeaseObject
<1>2. ops' \in 0..MaxOps
  BY BoundsAssumption DEF TypeOK, StartPatch
<1>. QED BY <1>1, <1>2 DEF StartPatch, TypeOK

(* Every step of a client keeps the state well typed. *)
LEMMA ClientCallsType ==
  ASSUME TypeOK, ClientCalls
  PROVE  TypeOK'
<1>1. ASSUME NEW l \in Leases, NEW c \in Clients, NEW sel \in Selectors,
             NEW d \in LegacyDurations, RequestLease(l, c, sel, d)
      PROVE  TypeOK'
  <2>1. [begin |-> None, end |-> None, dur |-> d] \in TimeFields
    BY TimesAssumption DEF TimeFields
  <2>. QED BY <1>1, <2>1, NewLeaseType DEF RequestLease
<1>2. ASSUME NEW l \in Leases, NEW c \in Clients, NEW sel \in Selectors,
             NEW ask \in Asks, CreateLease(l, c, sel, ask)
      PROVE  TypeOK'
  <2>1. CompleteTimeFields(ask) \in TimeFields
    BY CompleteType, TimesAssumption
  <2>. QED BY <1>2, <2>1, NewLeaseType DEF CreateLease
<1>3. ASSUME NEW l \in Leases, NEW c \in Clients, NEW ask \in Asks,
             NEW target \in Opt(Clients), UpdateLease(l, c, ask, target)
      PROVE  TypeOK'
  <2>. DEFINE final == CompleteTimeFields(MergedTimes(lease[l].spec, ask))
              new == [lease[l].spec EXCEPT
                        !.begin = Whole(final.begin), !.end = Whole(final.end),
                        !.dur = final.dur,
                        !.client = IF target # None THEN target ELSE c]
  <2>1. lease[l].spec \in LeaseSpec
    BY DEF TypeOK, LeaseObject
  <2>2. final \in TimeFields
    BY <2>1, CompleteType, MergedType, TimesAssumption
  <2>3. new \in LeaseSpec
    BY <2>1, <2>2, WholeType DEF LeaseSpec, TimeFields
  <2>4. StartPatch(l, c, new)
    BY <1>3 DEF UpdateLease
  <2>. QED BY <2>3, <2>4, StartPatchType
<1>4. ASSUME NEW l \in Leases, NEW c \in Clients, ReleaseLease(l, c)
      PROVE  TypeOK'
  <2>1. lease[l].spec \in LeaseSpec
    BY DEF TypeOK, LeaseObject
  <2>2. [lease[l].spec EXCEPT !.release = TRUE] \in LeaseSpec
    BY <2>1 DEF LeaseSpec
  <2>. QED BY <1>4, <2>2, StartPatchType DEF ReleaseLease
<1>5. ASSUME NEW p \in patches, ApplyPatch(p)
      PROVE  TypeOK'
  <2>1. p \in Patch /\ p.lease \in Leases
    BY DEF TypeOK, Patch
  <2>2. lease' \in [Leases -> LeaseObject] /\ events' \subseteq Leases
    <3>1. CASE p.lease \in Live
      <4>. DEFINE obj == [lease[p.lease] EXCEPT !.spec = MergePatch(p, @)]
      <4>1. lease[p.lease] \in LeaseObject /\ lease[p.lease].spec \in LeaseSpec
        BY <2>1 DEF TypeOK, LeaseObject
      <4>2. MergePatch(p, lease[p.lease].spec) \in LeaseSpec
        BY <2>1, <4>1, MergePatchType
      <4>3. obj \in LeaseObject
        BY <4>1, <4>2 DEF LeaseObject
      <4>4. Store(p.lease, obj)
        BY <1>5, <3>1 DEF ApplyPatch
      <4>. QED BY <2>1, <4>3, <4>4, StoreType DEF TypeOK
    <3>2. CASE p.lease \notin Live
      BY <1>5, <3>2 DEF ApplyPatch, TypeOK
    <3>. QED BY <3>1, <3>2
  <2>. QED BY <1>5, <2>2 DEF ApplyPatch, TypeOK
<1>. QED BY <1>1, <1>2, <1>3, <1>4, <1>5 DEF ClientCalls

(* Every step of the surroundings keeps the state well typed. *)
LEMMA WorldType ==
  ASSUME TypeOK, World
  PROVE  TypeOK'
<1>1. CASE Tick
  BY <1>1 DEF Tick, TypeOK
<1>2. CASE Resync
  BY <1>2 DEF Resync, TypeOK
<1>3. ASSUME NEW e \in Exporters, ExporterFlips(e) \/ DeleteExporter(e)
      PROVE  TypeOK'
  BY <1>3 DEF ExporterFlips, DeleteExporter, TypeOK
<1>4. ASSUME NEW c \in Clients, DeleteClient(c)
      PROVE  TypeOK'
  BY <1>4 DEF DeleteClient, TypeOK
<1>5. ASSUME NEW P \in PolicySets, SetPolicies(P)
      PROVE  TypeOK'
  BY <1>5 DEF SetPolicies, TypeOK
<1>6. ASSUME NEW l \in Leases, CollectLease(l)
      PROVE  TypeOK'
  <2>1. lease' \in [Leases -> LeaseObject] /\ events' \subseteq Leases
    BY <1>6, BlankType, StoreType DEF CollectLease, TypeOK
  <2>. QED BY <1>6, <2>1 DEF CollectLease, TypeOK
<1>7. ASSUME NEW l \in Leases, DeliverLease(l)
      PROVE  TypeOK'
  BY <1>7 DEF DeliverLease, TypeOK
<1>8. ASSUME NEW l \in Leases, TimerFires(l)
      PROVE  TypeOK'
  BY <1>8 DEF TimerFires, TypeOK
<1>. QED BY <1>1, <1>2, <1>3, <1>4, <1>5, <1>6, <1>7, <1>8 DEF World

(* The Get of a reconcile keeps the state well typed. *)
LEMMA GetLeaseType ==
  ASSUME TypeOK, NEW l \in Leases, GetLease(l)
  PROVE  TypeOK'
<1>1. Seen(l) \in LeaseObject
  BY DEF Seen, TypeOK
<1>2. [NoJob EXCEPT !.pc = "read", !.lease = l, !.base = Seen(l), !.obj = Seen(l)]
        \in Job
  BY <1>1, BlankType DEF Job, NoJob
<1>3. job' \in Job /\ (job'.pc # "idle" => job'.lease \in Leases)
  BY <1>1, <1>2 DEF GetLease, TypeOK, NoJob
<1>. QED BY <1>3 DEF GetLease, TypeOK

(* Giving up a reconcile keeps the state well typed. *)
LEMMA RetryType ==
  ASSUME TypeOK, Retry, job.pc # "idle", faults' \in 0..MaxFaults
  PROVE  TypeOK'
BY BlankType DEF TypeOK, Retry, NoJob

(* A decision that is settled keeps the state well typed. *)
LEMMA SettleType ==
  ASSUME TypeOK, job.pc = "read", NEW status \in LeaseStatus,
         NEW wait \in Opt(Nat), NEW poll \in BOOLEAN, Settle(status, wait, poll)
  PROVE  TypeOK'
<1>. DEFINE begun == StatusBeginEndTimes(status)
            spec == job.obj.spec
<1>1. job \in Job /\ job.obj \in LeaseObject /\ spec \in LeaseSpec
  BY DEF TypeOK, Job, LeaseObject
<1>2. begun \in LeaseStatus
  BY BeginType DEF TypeOK
<1>3. StatusEnded(spec, begun) \in LeaseStatus
  BY <1>1, <1>2, EndedType DEF TypeOK
<1>4. After(spec, begun, wait) \in Opt(Nat)
  BY <1>1, <1>2, AfterType DEF TypeOK
<1>5. [job.obj EXCEPT !.status = StatusEnded(spec, begun)] \in LeaseObject
  BY <1>1, <1>3 DEF LeaseObject
<1>6. job' = [job EXCEPT !.pc = "decided",
                !.obj = [job.obj EXCEPT !.status = StatusEnded(spec, begun)],
                !.after = After(spec, begun, wait), !.poll = poll]
  BY <1>1 DEF Settle, Job
<1>7. job' \in Job /\ job'.lease = job.lease
  BY <1>1, <1>4, <1>5, <1>6 DEF Job
<1>. QED BY <1>7 DEF Settle, TypeOK

(* attachMatchingPolicies yields well typed entries. *)
LEMMA ApprovedType ==
  ASSUME NEW matching, NEW rules \in SUBSET Rule, NEW client, NEW dur,
         NEW a \in Approved(matching, rules, client, dur)
  PROVE  a.priority \in Int /\ a.spot \in BOOLEAN
<1>1. CASE rules = {}
  <2>1. PICK e \in matching : a = [exporter |-> e, priority |-> 0, spot |-> FALSE]
    BY <1>1 DEF Approved
  <2>. QED BY <2>1
<1>2. CASE rules # {}
  <2>1. PICK p \in {q \in matching \X rules : Admits(q[2], q[1], client, dur)} :
          a = [exporter |-> p[1], priority |-> p[2].priority, spot |-> p[2].spot]
    BY <1>2 DEF Approved
  <2>2. p[2] \in Rule
    BY <2>1
  <2>. QED BY <2>1, <2>2 DEF Rule
<1>. QED BY <1>1, <1>2

(* The status that refers to a chosen exporter is a status. *)
LEMMA AssignedType ==
  ASSUME TypeOK, job.pc = "read", NEW leased, NEW spotHeld,
         NEW s \in First(Available(OnlineApproved, leased, spotHeld), leased)
  PROVE  [job.obj.status EXCEPT !.exporterRef = s.exporter,
            !.priority = s.priority, !.spot = s.spot] \in LeaseStatus
<1>1. s \in ApprovedExporters /\ s.exporter \in Exporters
  BY DEF First, Available, OnlineApproved, Online
<1>2. policies \in SUBSET Rule
  BY PolicySetsAssumption DEF TypeOK
<1>3. s.priority \in Int /\ s.spot \in BOOLEAN
  BY <1>1, <1>2, ApprovedType DEF ApprovedExporters
<1>4. job.obj.status \in LeaseStatus
  BY DEF TypeOK, Job, LeaseObject
<1>. QED BY <1>1, <1>3, <1>4 DEF LeaseStatus

(* Every branch of a decision keeps the state well typed. *)
LEMMA DecideType ==
  ASSUME TypeOK, Decide
  PROVE  TypeOK'
<1>1. job.pc = "read"
  BY DEF Decide, NothingToAssign, ScheduledForLater, SelectorError,
         SelectorEmpty, ApprovalFails, NoAccess, AllOffline, SpotAccessOnly,
         NotAvailable, AssignExporter, Selecting, Searching
<1>2. job.obj.status \in LeaseStatus /\ job.obj.spec \in LeaseSpec
  BY DEF TypeOK, Job, LeaseObject
<1>3. faults \in 0..MaxFaults
  BY DEF TypeOK
<1>4. ASSUME NEW c \in Conditions, NEW r \in Reasons, NEW poll \in BOOLEAN,
             Settle(SetCondition(job.obj.status, c, r), None, poll)
      PROVE  TypeOK'
  BY <1>1, <1>2, <1>4, SetConditionType, SettleType
<1>5. CASE NothingToAssign
  BY <1>1, <1>2, <1>5, SettleType DEF NothingToAssign
<1>6. CASE ScheduledForLater
  <2>1. job.obj.spec.begin \in Int
    BY <1>2, <1>6 DEF ScheduledForLater, Due, LeaseSpec
  <2>2. Delay(job.obj.spec.begin - now) \in Opt(Nat)
    BY <2>1 DEF Delay, TypeOK
  <2>. QED BY <1>1, <1>2, <1>6, <2>2, SettleType DEF ScheduledForLater
<1>7. CASE SelectorError \/ ApprovalFails
  BY <1>1, <1>3, <1>7, RetryType DEF SelectorError, ApprovalFails
<1>8. CASE SelectorEmpty
  BY <1>4, <1>8 DEF SelectorEmpty, Conditions, Reasons
<1>9. CASE NoAccess
  BY <1>4, <1>9 DEF NoAccess, Conditions, Reasons
<1>10. CASE AllOffline
  BY <1>4, <1>10 DEF AllOffline, Conditions, Reasons
<1>11. CASE SpotAccessOnly
  BY <1>4, <1>11 DEF SpotAccessOnly, Conditions, Reasons
<1>12. CASE NotAvailable
  BY <1>4, <1>12 DEF NotAvailable, Conditions, Reasons
<1>13. CASE AssignExporter
  <2>1. PICK spotHeld \in SpotHeldChoices :
          \E s \in First(Available(OnlineApproved, Leased, spotHeld), Leased) :
            Settle([job.obj.status EXCEPT !.exporterRef = s.exporter,
                      !.priority = s.priority, !.spot = s.spot], None, FALSE)
    BY <1>13 DEF AssignExporter
  <2>. QED BY <1>1, <2>1, AssignedType, SettleType
<1>. QED BY <1>5, <1>6, <1>7, <1>8, <1>9, <1>10, <1>11, <1>12, <1>13 DEF Decide

(* The two writes of a reconcile keep the state well typed. *)
LEMMA WriteType ==
  ASSUME TypeOK, Write
  PROVE  TypeOK'
<1>1. job.pc # "idle" /\ job.lease \in Leases /\ faults \in 0..MaxFaults
  BY DEF Write, UpdateStatus, WriteConflict, OwnerMissing, UpdateMetadata, TypeOK
<1>2. job \in Job /\ job.obj \in LeaseObject /\ job.obj.status \in LeaseStatus
  BY DEF TypeOK, Job, LeaseObject
<1>3. CASE WriteConflict \/ OwnerMissing
  BY <1>1, <1>3, RetryType DEF WriteConflict, OwnerMissing
<1>4. CASE UpdateStatus
  <2>. DEFINE written == [lease[job.lease] EXCEPT !.status = StoredStatus(job.obj.status)]
  <2>1. lease[job.lease] \in LeaseObject
    BY <1>1 DEF TypeOK
  <2>2. written \in LeaseObject
    BY <1>2, <2>1, StoredResult DEF LeaseObject
  <2>3. lease' \in [Leases -> LeaseObject] /\ events' \subseteq Leases
    BY <1>1, <1>4, <2>2, StoreType DEF UpdateStatus, TypeOK
  <2>4. job' \in Job /\ job'.lease = job.lease
    BY <1>2, <1>4, <2>2 DEF UpdateStatus, Job
  <2>. QED BY <1>1, <1>4, <2>3, <2>4 DEF UpdateStatus, TypeOK
<1>5. CASE UpdateMetadata
  <2>. DEFINE o == [job.obj EXCEPT !.label = EndedLabel(job.obj),
                                   !.owned = @ \/ job.obj.status.exporterRef # None]
  <2>1. job.obj.status.ended \in BOOLEAN /\ job.obj.label \in BOOLEAN
          /\ job.obj.owned \in BOOLEAN
    BY <1>2 DEF LeaseObject, LeaseStatus
  <2>2. o \in LeaseObject
    BY <1>2, <2>1 DEF LeaseObject, EndedLabel
  <2>3. lease' \in [Leases -> LeaseObject] /\ events' \subseteq Leases
    BY <1>1, <1>5, <2>2, StoreType DEF UpdateMetadata, TypeOK
  <2>4. timer' \in [Leases -> Opt(Nat)]
    <3>1. CASE job.after = None
      BY <1>5, <3>1 DEF UpdateMetadata, TypeOK
    <3>2. CASE job.after # None
      <4>1. now + job.after \in Nat
        BY <1>2, <3>2 DEF TypeOK, Job
      <4>2. Earlier(timer[job.lease], now + job.after) \in Opt(Nat)
        BY <1>1, <4>1 DEF Earlier, TypeOK
      <4>. QED BY <1>1, <1>5, <3>2, <4>2 DEF UpdateMetadata, TypeOK
    <3>. QED BY <3>1, <3>2
  <2>5. queue' \subseteq Leases
    BY <1>1, <1>5 DEF UpdateMetadata, TypeOK
  <2>. QED BY <1>5, <2>3, <2>4, <2>5, BlankType DEF UpdateMetadata, TypeOK, NoJob
<1>. QED BY <1>3, <1>4, <1>5 DEF Write

(* Failures and restarts keep the state well typed. *)
LEMMA FailureType ==
  ASSUME TypeOK, CallFails \/ Restart
  PROVE  TypeOK'
<1>1. CASE CallFails
  <2>1. faults' \in 0..MaxFaults /\ job.pc # "idle" /\ Retry
    BY <1>1, BoundsAssumption DEF CallFails, TypeOK
  <2>. QED BY <2>1, RetryType
<1>2. CASE Restart
  <2>1. faults' \in 0..MaxFaults
    BY <1>2, BoundsAssumption DEF Restart, TypeOK
  <2>. QED BY <1>2, <2>1, BlankType DEF Restart, TypeOK, Live, NoJob
<1>. QED BY <1>1, <1>2

(* Every step keeps the state well typed. *)
LEMMA NextType == TypeOK /\ [Next]_vars => TypeOK'
<1>. SUFFICES ASSUME TypeOK, [Next]_vars PROVE TypeOK'
  OBVIOUS
<1>1. CASE UNCHANGED vars
  BY <1>1 DEF vars, TypeOK
<1>2. CASE Next
  BY <1>2, ClientCallsType, WorldType, GetLeaseType, DecideType, WriteType,
     FailureType DEF Next, Reconcile
<1>. QED BY <1>1, <1>2

(* Every reachable state is well typed: no sequence of RPCs, reconciles,   *)
(* failures and restarts takes a lease, a timer or the reconcile in        *)
(* progress outside its type; in particular no requeue is ever scheduled   *)
(* for a negative delay (RequeueAfter in lease_controller.go).             *)
THEOREM TypeCorrect == Spec => []TypeOK
<1>1. Init => TypeOK
  BY BlankType, BoundsAssumption DEF Init, TypeOK, NoJob
<1>. QED BY <1>1, NextType, PTL DEF Spec

-----------------------------------------------------------------------------
(* The status a reconcile computes *)

(* A status as reconcileStatusExporterRef may leave it. *)
Raw(s) ==
  /\ s.begin # None => s.exporterRef # None /\ s.begin <= now
  /\ (s.end # None) = s.ended
  /\ (s.begin # None /\ s.end # None) => s.begin <= s.end
  /\ Refused(s) => s.exporterRef = None
  /\ s.ended => StatusAgrees(s)

(* What reconcileStatusBeginEndTimes does to a status. *)
LEMMA BeginResult ==
  ASSUME NEW s \in LeaseStatus, now \in Nat, Raw(s)
  PROVE  LET b == StatusBeginEndTimes(s)
         IN  /\ b.exporterRef = s.exporterRef
             /\ (b.begin # None) = (s.exporterRef # None)
             /\ b.begin # None => b.begin <= now
             /\ b.ended = s.ended /\ b.end = s.end
             /\ Refused(b) = Refused(s)
             /\ s.ended => b = s
<1>. DEFINE b == StatusBeginEndTimes(s)
<1>1. CASE s.begin = None /\ s.exporterRef # None
  <2>1. ~s.ended /\ now # None
    BY <1>1, NoneAssumption DEF Raw, StatusAgrees
  <2>2. b = [s EXCEPT !.begin = now, !.conds = [s.conds EXCEPT !["Ready"] = "Ready"]]
    BY <1>1 DEF StatusBeginEndTimes, SetCondition, LeaseStatus
  <2>3. /\ b.exporterRef = s.exporterRef /\ b.begin = now
        /\ b.ended = s.ended /\ b.end = s.end
        /\ b.conds = [s.conds EXCEPT !["Ready"] = "Ready"]
    BY <2>2 DEF LeaseStatus
  <2>4. Refused(b) = Refused(s)
    BY <2>3 DEF Refused, LeaseStatus, Conditions
  <2>. QED BY <1>1, <2>1, <2>3, <2>4
<1>2. CASE ~(s.begin = None /\ s.exporterRef # None)
  BY <1>2 DEF StatusBeginEndTimes, Raw
<1>. QED BY <1>1, <1>2

(* What ending a lease does to its status. *)
LEMMA EndNowResult ==
  ASSUME NEW s \in LeaseStatus, now \in Nat
  PROVE  /\ EndNow(s).exporterRef = s.exporterRef
         /\ EndNow(s).begin = s.begin
         /\ EndNow(s).ended = TRUE /\ EndNow(s).end = now
         /\ EndNow(s).conds = s.conds
BY DEF EndNow, LeaseStatus

(* Setting the Ready condition changes no other field. *)
LEMMA ReadyResult ==
  ASSUME NEW s \in LeaseStatus, NEW r \in Reasons
  PROVE  LET c == SetCondition(s, "Ready", r)
         IN  /\ c \in LeaseStatus
             /\ c.exporterRef = s.exporterRef /\ c.begin = s.begin
             /\ c.ended = s.ended /\ c.end = s.end
             /\ Refused(c) = Refused(s)
<1>1. "Ready" \in Conditions
  BY DEF Conditions
<1>2. SetCondition(s, "Ready", r).conds = [s.conds EXCEPT !["Ready"] = r]
  BY DEF SetCondition, LeaseStatus
<1>3. Refused(SetCondition(s, "Ready", r)) = Refused(s)
  BY <1>2 DEF Refused, LeaseStatus, Conditions
<1>. QED BY <1>1, <1>3, SetConditionType DEF SetCondition, LeaseStatus

(* What reconcileStatusEnded does to a status that has begun. *)
LEMMA EndedResult ==
  ASSUME NEW b \in LeaseStatus, NEW spec \in LeaseSpec, now \in Nat,
         (b.begin # None) = (b.exporterRef # None),
         b.begin # None => b.begin <= now,
         (b.end # None) = b.ended,
         (b.begin # None /\ b.end # None) => b.begin <= b.end,
         Refused(b) => b.exporterRef = None
  PROVE  LET f == StatusEnded(spec, b)
         IN  /\ StatusAgrees(f)
             /\ f.begin # None => f.begin <= now
             /\ f.exporterRef = b.exporterRef
             /\ b.ended => f = b
             /\ spec.release => f.ended
<1>. DEFINE f == StatusEnded(spec, b)
<1>1. now # None
  BY NoneAssumption
<1>2. CASE b.ended
  BY <1>2 DEF StatusEnded, StatusAgrees
<1>3. CASE ~b.ended /\ Refused(b)
  <2>1. f = EndNow(b)
    BY <1>3 DEF StatusEnded, Ends
  <2>2. Refused(f) = Refused(b)
    BY <2>1, EndNowResult DEF Refused
  <2>3. /\ f.exporterRef = b.exporterRef /\ f.begin = b.begin
        /\ f.ended = TRUE /\ f.end = now
    BY <2>1, EndNowResult
  <2>4. b.exporterRef = None /\ b.begin = None
    BY <1>3
  <2>5. StatusAgrees(f)
    BY <1>1, <1>3, <2>2, <2>3, <2>4 DEF StatusAgrees
  <2>. QED BY <1>3, <2>3, <2>4, <2>5
<1>4. ASSUME NEW r \in Reasons, ~b.ended, ~Refused(b),
             f = EndNow(SetCondition(b, "Ready", r))
      PROVE  /\ StatusAgrees(f) /\ f.ended
             /\ f.begin = b.begin /\ f.exporterRef = b.exporterRef
  <2>. DEFINE c == SetCondition(b, "Ready", r)
  <2>1. /\ c \in LeaseStatus
        /\ c.exporterRef = b.exporterRef /\ c.begin = b.begin
        /\ c.ended = b.ended /\ c.end = b.end
        /\ Refused(c) = Refused(b)
    BY ReadyResult
  <2>2. /\ f.exporterRef = c.exporterRef /\ f.begin = c.begin /\ f.ended = TRUE
        /\ f.end = now /\ f.conds = c.conds
    BY <1>4, <2>1, EndNowResult
  <2>3. ~Refused(f)
    BY <1>4, <2>1, <2>2 DEF Refused
  <2>. QED BY <1>1, <2>1, <2>2, <2>3 DEF StatusAgrees
<1>5. CASE ~b.ended /\ ~Refused(b) /\ spec.release
  <2>1. f = EndNow(SetCondition(b, "Ready", "Released")) /\ "Released" \in Reasons
    BY <1>5 DEF StatusEnded, Ends, Reasons
  <2>. QED BY <1>4, <1>5, <2>1
<1>6. CASE ~b.ended /\ ~Refused(b) /\ ~spec.release /\ Expired(spec, b)
  <2>1. f = EndNow(SetCondition(b, "Ready", "Expired")) /\ "Expired" \in Reasons
    BY <1>6 DEF StatusEnded, Ends, Reasons
  <2>. QED BY <1>4, <1>6, <2>1
<1>7. CASE ~b.ended /\ ~Refused(b) /\ ~spec.release /\ ~Expired(spec, b)
  BY <1>7 DEF StatusEnded, Ends, StatusAgrees
<1>. QED BY <1>2, <1>3, <1>5, <1>6, <1>7

(* The two functions after reconcileStatusExporterRef make a coherent      *)
(* status of a raw one, leave an ended one alone and heed the release.     *)
LEMMA StatusResult ==
  ASSUME NEW s \in LeaseStatus, NEW spec \in LeaseSpec, now \in Nat, Raw(s)
  PROVE  LET f == StatusEnded(spec, StatusBeginEndTimes(s))
         IN  /\ StatusAgrees(f)
             /\ f.begin # None => f.begin <= now
             /\ f.exporterRef = s.exporterRef
             /\ s.ended => f = s
             /\ spec.release => f.ended
<1>. DEFINE b == StatusBeginEndTimes(s)
<1>1. b \in LeaseStatus
  BY BeginType
<1>2. /\ b.exporterRef = s.exporterRef
      /\ (b.begin # None) = (s.exporterRef # None)
      /\ b.begin # None => b.begin <= now
      /\ b.ended = s.ended /\ b.end = s.end
      /\ Refused(b) = Refused(s)
      /\ s.ended => b = s
  BY BeginResult
<1>3. (b.begin # None /\ b.end # None) => b.begin <= b.end
  BY <1>2 DEF Raw
<1>4. (b.end # None) = b.ended /\ (Refused(b) => b.exporterRef = None)
  BY <1>2 DEF Raw
<1>. HIDE DEF b
<1>5. LET f == StatusEnded(spec, b)
      IN  /\ StatusAgrees(f)
          /\ f.begin # None => f.begin <= now
          /\ f.exporterRef = b.exporterRef
          /\ b.ended => f = b
          /\ spec.release => f.ended
  BY <1>1, <1>2, <1>3, <1>4, EndedResult
<1>. QED BY <1>2, <1>5 DEF b

-----------------------------------------------------------------------------
(* SafetyInv is inductive *)

(* The status of a sound lease may be given to the next functions. *)
LEMMA SoundRaw ==
  ASSUME NEW o \in LeaseObject, Sound(o, now)
  PROVE  Raw(o.status)
BY DEF Sound, Raw, StatusAgrees

(* A lease without content is sound. *)
LEMMA BlankSound == \A t : Sound(Blank, t)
BY DEF Sound, StatusAgrees, Refused, Blank, NoStatus, Conditions

(* What was sound stays so when the clock advances. *)
LEMMA SoundLater ==
  ASSUME NEW o \in LeaseObject, NEW t \in Nat, NEW u \in Nat, t <= u, Sound(o, t)
  PROVE  Sound(o, u)
<1>1. o.status.begin \in Opt(Nat)
  BY DEF LeaseObject, LeaseStatus
<1>. QED BY <1>1 DEF Sound

(* A status computed earlier is still one computed by now. *)
LEMMA FollowsLater ==
  ASSUME NEW b \in LeaseObject, NEW o \in LeaseObject, NEW t \in Nat, NEW u \in Nat,
         t <= u, StatusFollows(b, o, t)
  PROVE  StatusFollows(b, o, u)
<1>1. o.spec.begin \in Opt(Int)
  BY DEF LeaseObject, LeaseSpec
<1>. QED BY <1>1 DEF StatusFollows

(* An object fit to be stored. *)
Good(o, t) == Sound(o, t) /\ StoredStatus(o.status) = o.status

(* A lease without content may be stored. *)
LEMMA BlankGood == \A t : Good(Blank, t)
BY BlankSound DEF Good, StoredStatus, Whole, Blank, NoStatus

(* It is enough to look at what a step changes. *)
LEMMA SafetyFrame ==
  ASSUME SafetyInv, TypeOK', now <= now',
         \A l \in Leases : lease'[l] = lease[l] \/ Good(lease'[l], now'),
         \A l \in Leases : cache'[l] = cache[l] \/ Sound(cache'[l], now'),
         job' = job \/ (Sound(job'.base, now') /\ Sound(job'.obj, now') /\ JobFaithful'),
         \A p \in patches' : p \in patches \/ (p.old.release => p.new.release)
  PROVE  SafetyInv'
<1>1. now \in Nat /\ now' \in Nat
  BY DEF SafetyInv, TypeOK
<1>2. \A l \in Leases : Sound(lease'[l], now') /\ Sound(cache'[l], now')
  <2>. SUFFICES ASSUME NEW l \in Leases
                PROVE  Sound(lease'[l], now') /\ Sound(cache'[l], now')
    OBVIOUS
  <2>1. lease[l] \in LeaseObject /\ cache[l] \in LeaseObject
    BY DEF SafetyInv, TypeOK
  <2>2. Sound(lease[l], now) /\ Sound(cache[l], now)
    BY DEF SafetyInv, CopiesSound
  <2>3. Sound(lease[l], now') /\ Sound(cache[l], now')
    BY <1>1, <2>1, <2>2, SoundLater
  <2>. QED BY <2>3 DEF Good
<1>3. Sound(job'.base, now') /\ Sound(job'.obj, now') /\ JobFaithful'
  <2>1. CASE job' = job
    <3>1. job.base \in LeaseObject /\ job.obj \in LeaseObject
      BY DEF SafetyInv, TypeOK, Job
    <3>2. Sound(job.base, now) /\ Sound(job.obj, now) /\ JobFaithful
      BY DEF SafetyInv, CopiesSound
    <3>3. Sound(job.base, now') /\ Sound(job.obj, now')
      BY <1>1, <3>1, <3>2, SoundLater
    <3>4. job.pc = "decided" => StatusFollows(job.base, job.obj, now')
      BY <1>1, <3>1, <3>2, FollowsLater DEF JobFaithful
    <3>. QED BY <2>1, <3>2, <3>3, <3>4 DEF JobFaithful
  <2>. QED BY <2>1
<1>4. PatchesFaithful'
  BY DEF SafetyInv, PatchesFaithful
<1>5. TimesStored'
  BY DEF SafetyInv, TimesStored, Good
<1>. QED BY <1>2, <1>3, <1>4, <1>5 DEF SafetyInv, CopiesSound

(* Without a reconcile in progress there is nothing to show of it. *)
LEMMA IdleJob ==
  ASSUME job' = NoJob
  PROVE  Sound(job'.base, now') /\ Sound(job'.obj, now') /\ JobFaithful'
BY BlankSound DEF NoJob, JobFaithful

(* The decision step, whatever its branch. *)
LEMMA SettleSafe ==
  ASSUME SafetyInv, job.pc = "read", NEW s \in LeaseStatus, Raw(s),
         NEW wait, NEW poll, Settle(s, wait, poll),
         job.obj.status.ended => s = job.obj.status,
         job.obj.status.exporterRef # None => s = job.obj.status,
         (job.obj.status.exporterRef = None /\ s.exporterRef # None)
           => Due(job.obj.spec)
  PROVE  /\ Sound(job'.obj, now) /\ job'.base = job.base /\ job'.pc = "decided"
         /\ job'.lease = job.lease
         /\ job'.obj.status.exporterRef = s.exporterRef
         /\ job'.obj = [job.base EXCEPT !.status = job'.obj.status]
         /\ StatusFollows(job.base, job'.obj, now)
<1>. DEFINE f == StatusEnded(job.obj.spec, StatusBeginEndTimes(s))
<1>1. /\ job \in Job /\ job.obj \in LeaseObject /\ job.obj.spec \in LeaseSpec
      /\ now \in Nat /\ job.obj = job.base
  BY DEF SafetyInv, TypeOK, Job, LeaseObject, JobFaithful
<1>2. /\ StatusAgrees(f)
      /\ f.begin # None => f.begin <= now
      /\ f.exporterRef = s.exporterRef
      /\ s.ended => f = s
      /\ job.obj.spec.release => f.ended
  BY <1>1, StatusResult
<1>. HIDE DEF f
<1>3. /\ job'.obj = [job.obj EXCEPT !.status = f]
      /\ job'.base = job.base /\ job'.pc = "decided" /\ job'.lease = job.lease
  BY <1>1 DEF Settle, Job, f
<1>4. /\ job'.obj.status = f /\ job'.obj.spec = job.obj.spec
      /\ job'.obj.label = job.obj.label /\ job'.obj.owned = job.obj.owned
  BY <1>1, <1>3 DEF LeaseObject
<1>5. Sound(job.obj, now)
  BY DEF SafetyInv, CopiesSound
<1>6. Sound(job'.obj, now)
  BY <1>2, <1>4, <1>5 DEF Sound
<1>7. job.obj.spec.begin # None /\ Due(job.obj.spec) => job.obj.spec.begin <= now
  BY <1>1 DEF Due, LeaseSpec
<1>8. StatusFollows(job.base, job'.obj, now)
  BY <1>1, <1>2, <1>4, <1>7 DEF StatusFollows
<1>. QED BY <1>1, <1>2, <1>3, <1>4, <1>6, <1>8

(* What a decision that does not assign an exporter makes of the status. *)
LEMMA RefusalRaw ==
  ASSUME SafetyInv, Searching, NEW c \in Conditions, NEW r \in Reasons
  PROVE  LET s == SetCondition(job.obj.status, c, r)
         IN  s \in LeaseStatus /\ Raw(s) /\ s.exporterRef = None
<1>. DEFINE s == SetCondition(job.obj.status, c, r)
<1>1. job.obj \in LeaseObject /\ job.obj.status \in LeaseStatus
  BY DEF SafetyInv, TypeOK, Job, LeaseObject
<1>2. Raw(job.obj.status)
  BY <1>1, SoundRaw DEF SafetyInv, CopiesSound
<1>3. s \in LeaseStatus
  BY <1>1, SetConditionType
<1>4. /\ s.exporterRef = job.obj.status.exporterRef /\ s.begin = job.obj.status.begin
      /\ s.end = job.obj.status.end /\ s.ended = job.obj.status.ended
  BY <1>1 DEF SetCondition, LeaseStatus
<1>. QED BY <1>2, <1>3, <1>4 DEF Raw, Searching

(* So may the status that was just given an exporter. *)
LEMMA AssignmentRaw ==
  ASSUME SafetyInv, Searching, NEW e \in Exporters, NEW p, NEW t
  PROVE  LET s == [job.obj.status EXCEPT !.exporterRef = e, !.priority = p, !.spot = t]
         IN  Raw(s) /\ s.exporterRef = e
<1>. DEFINE s == [job.obj.status EXCEPT !.exporterRef = e, !.priority = p, !.spot = t]
<1>1. job.obj \in LeaseObject /\ job.obj.status \in LeaseStatus
  BY DEF SafetyInv, TypeOK, Job, LeaseObject
<1>2. StatusAgrees(job.obj.status)
  BY DEF SafetyInv, CopiesSound, Sound
<1>3. /\ s.exporterRef = e /\ s.begin = job.obj.status.begin
      /\ s.end = job.obj.status.end /\ s.ended = job.obj.status.ended
      /\ s.conds = job.obj.status.conds
  BY <1>1 DEF LeaseStatus
<1>4. ~Refused(s) /\ ~s.ended /\ s.begin = None
  BY <1>2, <1>3 DEF Searching, StatusAgrees, Refused
<1>. QED BY <1>2, <1>3, <1>4 DEF Raw, StatusAgrees, Searching

(* The first part of a decision is final, gave an exporter, or asked for a *)
(* requeue.                                                                *)
Settled(s, wait, poll) ==
  poll \/ wait # None \/ s.exporterRef # None \/ s.ended \/ Refused(s)

(* Every decision is an error or settles a raw status that departs from    *)
(* the one read only where it may.                                         *)
LEMMA DecideShape ==
  ASSUME SafetyInv, Decide
  PROVE  /\ job.pc = "read"
         /\ \/ Retry /\ UNCHANGED faults
            \/ \E s \in LeaseStatus, wait \in Opt(Nat), poll \in BOOLEAN :
                 /\ Settle(s, wait, poll)
                 /\ Raw(s)
                 /\ job.obj.status.ended => s = job.obj.status
                 /\ job.obj.status.exporterRef # None => s = job.obj.status
                 /\ (job.obj.status.exporterRef = None /\ s.exporterRef # None)
                      => Due(job.obj.spec) /\ s.exporterRef \notin Leased
                 /\ Settled(s, wait, poll)
<1>. DEFINE Allowed(s) ==
              /\ Raw(s)
              /\ job.obj.status.ended => s = job.obj.status
              /\ job.obj.status.exporterRef # None => s = job.obj.status
              /\ (job.obj.status.exporterRef = None /\ s.exporterRef # None)
                   => Due(job.obj.spec) /\ s.exporterRef \notin Leased
<1>0. TypeOK
  BY DEF SafetyInv
<1>1. job.pc = "read"
  BY DEF Decide, NothingToAssign, ScheduledForLater, SelectorError,
         SelectorEmpty, ApprovalFails, NoAccess, AllOffline, SpotAccessOnly,
         NotAvailable, AssignExporter, Selecting, Searching
<1>2. /\ job.obj \in LeaseObject
      /\ job.obj.status \in LeaseStatus /\ job.obj.spec \in LeaseSpec
  BY <1>0 DEF TypeOK, Job, LeaseObject
<1>3. Allowed(job.obj.status)
  BY <1>2, SoundRaw DEF SafetyInv, CopiesSound
<1>4. ASSUME Searching, NEW c \in Conditions, NEW r \in Reasons
      PROVE  /\ SetCondition(job.obj.status, c, r) \in LeaseStatus
             /\ Allowed(SetCondition(job.obj.status, c, r))
  <2>. DEFINE s == SetCondition(job.obj.status, c, r)
  <2>1. s \in LeaseStatus /\ Raw(s) /\ s.exporterRef = None
    BY <1>4, RefusalRaw
  <2>2. ~job.obj.status.ended /\ job.obj.status.exporterRef = None
    BY <1>4 DEF Searching
  <2>. QED BY <2>1, <2>2
<1>5. None \in Opt(Nat)
  OBVIOUS
<1>. DEFINE Result ==
              \/ Retry /\ UNCHANGED faults
              \/ \E s \in LeaseStatus, wait \in Opt(Nat), poll \in BOOLEAN :
                   Settle(s, wait, poll) /\ Allowed(s) /\ Settled(s, wait, poll)
<1>. HIDE DEF Allowed
<1>6. ASSUME Searching, NEW c \in Conditions, NEW r \in Reasons, NEW poll \in BOOLEAN,
             poll \/ c \in {"Unsatisfiable", "Invalid"},
             Settle(SetCondition(job.obj.status, c, r), None, poll)
      PROVE  Result
  <2>1. c \in {"Unsatisfiable", "Invalid"} => Refused(SetCondition(job.obj.status, c, r))
    <3>1. job.obj.status.conds \in [Conditions -> Opt(Reasons)]
      BY <1>2 DEF LeaseStatus
    <3>2. SetCondition(job.obj.status, c, r).conds = [job.obj.status.conds EXCEPT ![c] = r]
      BY <1>2 DEF SetCondition, LeaseStatus
    <3>3. r # None
      BY ReasonsAssumption
    <3>. QED BY <3>1, <3>2, <3>3 DEF Refused, Conditions
  <2>. QED BY <1>4, <1>5, <1>6, <2>1 DEF Settled
<1>7. ASSUME NothingToAssign PROVE Result
  BY <1>2, <1>3, <1>5, <1>7 DEF NothingToAssign, Settled
<1>8. ASSUME ScheduledForLater PROVE Result
  <2>1. job.obj.spec.begin \in Int
    BY <1>2, <1>8 DEF ScheduledForLater, Due, LeaseSpec
  <2>2. Delay(job.obj.spec.begin - now) \in Opt(Nat)
    BY <1>0, <2>1 DEF Delay, TypeOK
  <2>3. job.obj.spec.begin > now /\ Delay(job.obj.spec.begin - now) # None
    BY <1>0, <1>2, <1>8, <2>1, NoneAssumption DEF ScheduledForLater, Due, LeaseSpec, Delay, TypeOK
  <2>. QED BY <1>2, <1>3, <1>8, <2>2, <2>3 DEF ScheduledForLater, Settled
<1>9. ASSUME SelectorError \/ ApprovalFails PROVE Result
  BY <1>9 DEF SelectorError, ApprovalFails
<1>10. ASSUME SelectorEmpty PROVE Result
  BY <1>6, <1>10 DEF SelectorEmpty, Conditions, Reasons
<1>11. ASSUME NoAccess PROVE Result
  BY <1>6, <1>11 DEF NoAccess, Selecting, Conditions, Reasons
<1>12. ASSUME AllOffline PROVE Result
  BY <1>6, <1>12 DEF AllOffline, Selecting, Conditions, Reasons
<1>13. ASSUME SpotAccessOnly PROVE Result
  BY <1>6, <1>13 DEF SpotAccessOnly, Selecting, Conditions, Reasons
<1>14. ASSUME NotAvailable PROVE Result
  BY <1>6, <1>14 DEF NotAvailable, Selecting, Conditions, Reasons
<1>15. ASSUME AssignExporter PROVE Result
  <2>1. PICK spotHeld \in SpotHeldChoices :
          \E a \in First(Available(OnlineApproved, Leased, spotHeld), Leased) :
            /\ a.exporter \notin Leased
            /\ Settle([job.obj.status EXCEPT !.exporterRef = a.exporter,
                         !.priority = a.priority, !.spot = a.spot], None, FALSE)
    BY <1>15 DEF AssignExporter
  <2>2. PICK a \in First(Available(OnlineApproved, Leased, spotHeld), Leased) :
          /\ a.exporter \notin Leased
          /\ Settle([job.obj.status EXCEPT !.exporterRef = a.exporter,
                       !.priority = a.priority, !.spot = a.spot], None, FALSE)
    BY <2>1
  <2>. DEFINE s == [job.obj.status EXCEPT !.exporterRef = a.exporter,
                      !.priority = a.priority, !.spot = a.spot]
  <2>3. Searching /\ Due(job.obj.spec)
    BY <1>15 DEF AssignExporter, Selecting
  <2>4. a.exporter \in Exporters
    BY DEF First, Available, OnlineApproved, Online
  <2>5. s \in LeaseStatus
    BY <1>0, <1>1, AssignedType
  <2>6. Raw(s) /\ s.exporterRef = a.exporter
    BY <2>3, <2>4, AssignmentRaw
  <2>7. Allowed(s)
    BY <2>2, <2>3, <2>6 DEF Allowed, Searching
  <2>8. s.exporterRef # None
    BY <2>4, <2>6, ExportersAssumption, NoneAssumption
  <2>. QED BY <1>5, <2>2, <2>5, <2>7, <2>8 DEF Settled
<1>16. Result
  BY <1>7, <1>8, <1>9, <1>10, <1>11, <1>12, <1>13, <1>14, <1>15 DEF Decide
<1>. QED BY <1>1, <1>16 DEF Allowed

(* Storing one good object leaves the others as they are. *)
LEMMA StoredSound ==
  ASSUME NEW l \in Leases, NEW o, Store(l, o), Good(o, now'),
         lease \in [Leases -> LeaseObject]
  PROVE  \A m \in Leases : lease'[m] = lease[m] \/ Good(lease'[m], now')
BY DEF Store

(* Every step of a client preserves the invariant. *)
LEMMA ClientCallsSafe ==
  ASSUME SafetyInv, ClientCalls
  PROVE  SafetyInv'
<1>1. TypeOK /\ TypeOK'
  BY ClientCallsType DEF SafetyInv
<1>2. ASSUME NEW l \in Leases, NEW c, NEW sel, NEW t, NewLease(l, c, sel, t)
      PROVE  SafetyInv'
  <2>. DEFINE o == [spec |-> [client |-> c, sel |-> sel, release |-> FALSE,
                             begin |-> Whole(t.begin), end |-> Whole(t.end),
                             dur |-> t.dur],
                   status |-> NoStatus, label |-> FALSE, owned |-> FALSE]
  <2>1. Good(o, now')
    BY DEF Good, Sound, StatusAgrees, Refused, NoStatus, Conditions, StoredStatus, Whole
  <2>2. Store(l, o)
    BY <1>2 DEF NewLease
  <2>3. \A m \in Leases : lease'[m] = lease[m] \/ Good(lease'[m], now')
    BY <1>1, <2>1, <2>2, StoredSound DEF TypeOK
  <2>4. UNCHANGED <<now, cache, job, patches>>
    BY <1>2 DEF NewLease
  <2>. QED BY <1>1, <2>3, <2>4, SafetyFrame DEF TypeOK
<1>3. ASSUME NEW l \in Leases, NEW c, NEW new, StartPatch(l, c, new),
             lease[l].spec.release => new.release
      PROVE  SafetyInv'
  <2>1. UNCHANGED <<now, cache, job, lease>>
    BY <1>3 DEF StartPatch
  <2>2. \A p \in patches' : p \in patches \/ (p.old.release => p.new.release)
    BY <1>3 DEF StartPatch
  <2>. QED BY <1>1, <2>1, <2>2, SafetyFrame DEF TypeOK
<1>4. ASSUME NEW l \in Leases, NEW c, NEW ask, NEW target,
             UpdateLease(l, c, ask, target)
      PROVE  SafetyInv'
  <2>. DEFINE final == CompleteTimeFields(MergedTimes(lease[l].spec, ask))
              new == [lease[l].spec EXCEPT
                        !.begin = Whole(final.begin), !.end = Whole(final.end),
                        !.dur = final.dur,
                        !.client = IF target # None THEN target ELSE c]
  <2>1. StartPatch(l, c, new)
    BY <1>4 DEF UpdateLease
  <2>2. lease[l].spec \in LeaseSpec
    BY <1>1 DEF TypeOK, LeaseObject
  <2>3. new.release = lease[l].spec.release
    BY <2>2 DEF LeaseSpec
  <2>. QED BY <1>3, <2>1, <2>3
<1>5. ASSUME NEW l \in Leases, NEW c, ReleaseLease(l, c)
      PROVE  SafetyInv'
  <2>1. lease[l].spec \in LeaseSpec
    BY <1>1 DEF TypeOK, LeaseObject
  <2>2. [lease[l].spec EXCEPT !.release = TRUE].release
    BY <2>1 DEF LeaseSpec
  <2>. QED BY <1>3, <1>5, <2>2 DEF ReleaseLease
<1>6. ASSUME NEW p \in patches, ApplyPatch(p)
      PROVE  SafetyInv'
  <2>1. UNCHANGED <<now, cache, job>> /\ patches' \subseteq patches
    BY <1>6 DEF ApplyPatch
  <2>2. \A m \in Leases : lease'[m] = lease[m] \/ Good(lease'[m], now')
    <3>1. CASE p.lease \in Live
      <4>. DEFINE o == [lease[p.lease] EXCEPT !.spec = MergePatch(p, @)]
      <4>1. p.lease \in Leases /\ lease[p.lease] \in LeaseObject
        BY <1>1, <3>1 DEF Live, TypeOK
      <4>2. Good(lease[p.lease], now)
        BY <4>1 DEF SafetyInv, CopiesSound, TimesStored, Good
      <4>3. /\ o.status = lease[p.lease].status /\ o.label = lease[p.lease].label
            /\ o.owned = lease[p.lease].owned
        BY <4>1 DEF LeaseObject
      <4>4. Good(o, now')
        BY <2>1, <4>2, <4>3 DEF Good, Sound
      <4>5. Store(p.lease, o)
        BY <1>6, <3>1 DEF ApplyPatch
      <4>. QED BY <1>1, <4>1, <4>4, <4>5, StoredSound DEF TypeOK
    <3>2. CASE p.lease \notin Live
      BY <1>6, <3>2 DEF ApplyPatch
    <3>. QED BY <3>1, <3>2
  <2>. QED BY <1>1, <2>1, <2>2, SafetyFrame DEF TypeOK
<1>. QED BY <1>2, <1>4, <1>5, <1>6 DEF ClientCalls, RequestLease, CreateLease

(* Every step of the surroundings preserves the invariant. *)
LEMMA WorldSafe ==
  ASSUME SafetyInv, World
  PROVE  SafetyInv'
<1>1. TypeOK /\ TypeOK'
  BY WorldType DEF SafetyInv
<1>2. CASE Tick
  <2>1. UNCHANGED <<lease, cache, job, patches>> /\ now <= now'
    BY <1>1, <1>2 DEF Tick, TypeOK
  <2>. QED BY <1>1, <2>1, SafetyFrame
<1>3. ASSUME UNCHANGED <<now, lease, cache, job, patches>>
      PROVE  SafetyInv'
  BY <1>1, <1>3, SafetyFrame DEF TypeOK
<1>4. CASE Resync \/ (\E l \in Leases : TimerFires(l))
  BY <1>3, <1>4 DEF Resync, TimerFires
<1>5. CASE \/ \E e \in Exporters : ExporterFlips(e) \/ DeleteExporter(e)
           \/ \E c \in Clients : DeleteClient(c)
           \/ \E P \in PolicySets : SetPolicies(P)
  BY <1>3, <1>5 DEF ExporterFlips, DeleteExporter, DeleteClient, SetPolicies
<1>6. ASSUME NEW l \in Leases, CollectLease(l)
      PROVE  SafetyInv'
  <2>1. UNCHANGED <<now, cache, job, patches>> /\ Store(l, Blank)
    BY <1>6 DEF CollectLease
  <2>2. \A m \in Leases : lease'[m] = lease[m] \/ Good(lease'[m], now')
    BY <1>1, <2>1, BlankGood, StoredSound DEF TypeOK
  <2>. QED BY <1>1, <2>1, <2>2, SafetyFrame DEF TypeOK
<1>7. ASSUME NEW l \in Leases, DeliverLease(l)
      PROVE  SafetyInv'
  <2>1. /\ UNCHANGED <<now, lease, job, patches>>
        /\ cache' = [cache EXCEPT ![l] = lease[l]]
    BY <1>7 DEF DeliverLease
  <2>2. Sound(lease[l], now)
    BY DEF SafetyInv, CopiesSound
  <2>3. \A m \in Leases : cache'[m] = cache[m] \/ Sound(cache'[m], now')
    BY <1>1, <2>1, <2>2 DEF TypeOK
  <2>. QED BY <1>1, <2>1, <2>3, SafetyFrame DEF TypeOK
<1>. QED BY <1>2, <1>4, <1>5, <1>6, <1>7 DEF World

(* The Get of a reconcile preserves the invariant. *)
LEMMA GetLeaseSafe ==
  ASSUME SafetyInv, NEW l \in Leases, GetLease(l)
  PROVE  SafetyInv'
<1>1. TypeOK /\ TypeOK'
  BY GetLeaseType DEF SafetyInv
<1>2. UNCHANGED <<now, lease, cache, patches>>
  BY DEF GetLease
<1>3. job' = job \/ (Sound(job'.base, now') /\ Sound(job'.obj, now') /\ JobFaithful')
  <2>1. CASE l \in Visible
    <3>1. /\ job'.pc = "read" /\ job'.base = Seen(l) /\ job'.obj = Seen(l)
      BY <2>1 DEF GetLease, NoJob
    <3>2. Sound(Seen(l), now)
      BY DEF SafetyInv, CopiesSound, Seen
    <3>. QED BY <1>2, <3>1, <3>2 DEF JobFaithful
  <2>2. CASE l \notin Visible
    BY <2>2 DEF GetLease
  <2>. QED BY <2>1, <2>2
<1>. QED BY <1>1, <1>2, <1>3, SafetyFrame DEF TypeOK

(* Giving up a reconcile preserves the invariant. *)
LEMMA RetrySafe ==
  ASSUME SafetyInv, TypeOK', Retry
  PROVE  SafetyInv'
<1>1. UNCHANGED <<now, lease, cache, patches>> /\ job' = NoJob
  BY DEF Retry
<1>2. Sound(job'.base, now') /\ Sound(job'.obj, now') /\ JobFaithful'
  BY <1>1, IdleJob
<1>. QED BY <1>1, <1>2, SafetyFrame DEF SafetyInv, TypeOK

(* Every branch of a decision preserves the invariant. *)
LEMMA DecideSafe ==
  ASSUME SafetyInv, Decide
  PROVE  SafetyInv'
<1>1. TypeOK /\ TypeOK'
  BY DecideType DEF SafetyInv
<1>2. CASE Retry
  BY <1>1, <1>2, RetrySafe
<1>3. ASSUME NEW s \in LeaseStatus, NEW wait \in Opt(Nat), NEW poll \in BOOLEAN,
             job.pc = "read", Settle(s, wait, poll), Raw(s),
             job.obj.status.ended => s = job.obj.status,
             job.obj.status.exporterRef # None => s = job.obj.status,
             (job.obj.status.exporterRef = None /\ s.exporterRef # None)
               => Due(job.obj.spec)
      PROVE  SafetyInv'
  <2>1. UNCHANGED <<now, lease, cache, patches>>
    BY <1>3 DEF Settle
  <2>2. /\ Sound(job'.obj, now) /\ job'.base = job.base /\ job'.pc = "decided"
        /\ job'.obj = [job.base EXCEPT !.status = job'.obj.status]
        /\ StatusFollows(job.base, job'.obj, now)
    BY <1>3, SettleSafe
  <2>3. Sound(job.base, now)
    BY DEF SafetyInv, CopiesSound
  <2>4. Sound(job'.base, now') /\ Sound(job'.obj, now') /\ JobFaithful'
    BY <2>1, <2>2, <2>3 DEF JobFaithful
  <2>. QED BY <1>1, <2>1, <2>4, SafetyFrame DEF TypeOK
<1>. QED BY <1>2, <1>3, DecideShape

(* Truncation does not make a sound status unsound. *)
LEMMA StoredGood ==
  ASSUME NEW o, NEW p, NEW t \in Nat, Sound(o, t), o.status \in LeaseStatus,
         p.status = StoredStatus(o.status), p.label = o.label, p.owned = o.owned
  PROVE  Good(p, t)
<1>. DEFINE s == o.status
            w == p.status
<1>1. /\ w.begin = Whole(s.begin) /\ w.end = Whole(s.end)
      /\ w.exporterRef = s.exporterRef /\ w.ended = s.ended
      /\ w.conds = s.conds
      /\ StoredStatus(w) = w
  BY StoredResult
<1>2. s.begin \in Opt(Int) /\ s.end \in Opt(Int)
  BY DEF LeaseStatus
<1>3. (w.begin = None) = (s.begin = None) /\ (w.end = None) = (s.end = None)
  BY <1>1, <1>2, WholeType
<1>4. StatusAgrees(s) /\ (s.begin # None => s.begin <= t)
  BY DEF Sound
<1>5. (w.begin # None /\ w.end # None) => w.begin <= w.end
  <2>. SUFFICES ASSUME w.begin # None, w.end # None PROVE w.begin <= w.end
    OBVIOUS
  <2>1. s.begin \in Int /\ s.end \in Int /\ s.begin <= s.end
    BY <1>2, <1>3, <1>4 DEF StatusAgrees
  <2>. QED BY <1>1, <2>1, WholeOrder
<1>6. w.begin # None => w.begin <= t
  <2>. SUFFICES ASSUME w.begin # None PROVE w.begin <= t
    OBVIOUS
  <2>1. s.begin \in Int /\ s.begin <= t
    BY <1>2, <1>3, <1>4
  <2>. QED BY <1>1, <2>1, WholeValue
<1>7. Refused(w) = Refused(s)
  BY <1>1 DEF Refused
<1>8. StatusAgrees(w)
  BY <1>1, <1>3, <1>4, <1>5, <1>7 DEF StatusAgrees
<1>. HIDE DEF s, w
<1>. QED BY <1>1, <1>6, <1>8 DEF Good, Sound, s, w

(* The two writes of a reconcile preserve the invariant. *)
LEMMA WriteSafe ==
  ASSUME SafetyInv, Write
  PROVE  SafetyInv'
<1>1. TypeOK /\ TypeOK'
  BY WriteType DEF SafetyInv
<1>2. CASE WriteConflict \/ OwnerMissing
  BY <1>1, <1>2, RetrySafe DEF WriteConflict, OwnerMissing
<1>3. CASE UpdateStatus
  <2>. DEFINE written == [lease[job.lease] EXCEPT !.status = StoredStatus(job.obj.status)]
  <2>1. /\ job.lease \in Leases /\ lease[job.lease] = job.base
        /\ job.base \in LeaseObject /\ job.obj \in LeaseObject /\ job \in Job
    BY <1>1, <1>3 DEF UpdateStatus, Fresh, TypeOK, Job
  <2>2. written.status = StoredStatus(job.obj.status)
    BY <2>1 DEF LeaseObject
  <2>3. written.label = job.obj.label /\ written.owned = job.obj.owned
    <3>1. job.obj = [job.base EXCEPT !.status = job.obj.status]
      BY <1>3 DEF UpdateStatus, SafetyInv, JobFaithful
    <3>. QED BY <2>1, <3>1 DEF LeaseObject
  <2>4. UNCHANGED <<now, cache, patches>> /\ Store(job.lease, written)
    BY <1>3 DEF UpdateStatus
  <2>5. /\ job'.base = written /\ job'.obj = written /\ job'.pc = "statused"
    BY <1>3, <2>1 DEF UpdateStatus, Job
  <2>. HIDE DEF written
  <2>6. Good(written, now')
    <3>1. Sound(job.obj, now) /\ job.obj.status \in LeaseStatus /\ now \in Nat
      BY <1>1, <2>1 DEF SafetyInv, CopiesSound, LeaseObject, TypeOK
    <3>. QED BY <2>2, <2>3, <2>4, <3>1, StoredGood
  <2>7. \A m \in Leases : lease'[m] = lease[m] \/ Good(lease'[m], now')
    BY <1>1, <2>1, <2>4, <2>6, StoredSound DEF TypeOK
  <2>8. Sound(job'.base, now') /\ Sound(job'.obj, now') /\ JobFaithful'
    BY <2>5, <2>6 DEF JobFaithful, Good
  <2>. QED BY <1>1, <2>4, <2>7, <2>8, SafetyFrame DEF TypeOK
<1>4. CASE UpdateMetadata
  <2>. DEFINE o == [job.obj EXCEPT !.label = EndedLabel(job.obj),
                                  !.owned = @ \/ job.obj.status.exporterRef # None]
  <2>1. UNCHANGED <<now, cache, patches>> /\ Store(job.lease, o) /\ job' = NoJob
    BY <1>4 DEF UpdateMetadata
  <2>2. job.lease \in Leases /\ job.obj \in LeaseObject
    BY <1>1, <1>4 DEF UpdateMetadata, TypeOK, Job
  <2>3. /\ o.status = job.obj.status /\ o.label = EndedLabel(job.obj)
        /\ o.owned = (job.obj.owned \/ job.obj.status.exporterRef # None)
    BY <2>2 DEF LeaseObject
  <2>. HIDE DEF o
  <2>4. Good(o, now')
    <3>1. job.obj = job.base /\ job.base = lease[job.lease]
      BY <1>4 DEF UpdateMetadata, SafetyInv, JobFaithful, Fresh
    <3>2. StoredStatus(o.status) = o.status
      BY <2>2, <2>3, <3>1 DEF SafetyInv, TimesStored
    <3>. QED BY <2>1, <2>3, <3>2 DEF SafetyInv, CopiesSound, Sound, Good, EndedLabel
  <2>5. \A m \in Leases : lease'[m] = lease[m] \/ Good(lease'[m], now')
    BY <1>1, <2>1, <2>2, <2>4, StoredSound DEF TypeOK
  <2>6. Sound(job'.base, now') /\ Sound(job'.obj, now') /\ JobFaithful'
    BY <2>1, IdleJob
  <2>. QED BY <1>1, <2>1, <2>5, <2>6, SafetyFrame DEF TypeOK
<1>. QED BY <1>2, <1>3, <1>4 DEF Write

(* Failures and restarts preserve the invariant. *)
LEMMA FailureSafe ==
  ASSUME SafetyInv, CallFails \/ Restart
  PROVE  SafetyInv'
<1>1. TypeOK /\ TypeOK'
  BY FailureType DEF SafetyInv
<1>2. CASE CallFails
  BY <1>1, <1>2, RetrySafe DEF CallFails
<1>3. CASE Restart
  <2>1. /\ UNCHANGED <<now, lease>> /\ job' = NoJob /\ patches' = {}
        /\ cache' = lease
    BY <1>3 DEF Restart
  <2>2. \A l \in Leases : cache'[l] = cache[l] \/ Sound(cache'[l], now')
    BY <2>1 DEF SafetyInv, CopiesSound
  <2>3. Sound(job'.base, now') /\ Sound(job'.obj, now') /\ JobFaithful'
    BY <2>1, IdleJob
  <2>. QED BY <1>1, <2>1, <2>2, <2>3, SafetyFrame DEF TypeOK
<1>. QED BY <1>2, <1>3

(* The invariant is inductive. *)
LEMMA SafetyNext == SafetyInv /\ [Next]_vars => SafetyInv'
<1>. SUFFICES ASSUME SafetyInv, [Next]_vars PROVE SafetyInv'
  OBVIOUS
<1>1. CASE UNCHANGED vars
  <2>1. UNCHANGED <<now, lease, cache, job, patches>>
    BY <1>1 DEF vars
  <2>2. TypeOK'
    BY <1>1, NextType DEF SafetyInv
  <2>. QED BY <2>1, <2>2, SafetyFrame DEF TypeOK
<1>2. CASE Next
  BY <1>2, ClientCallsSafe, WorldSafe, GetLeaseSafe, DecideSafe, WriteSafe,
     FailureSafe DEF Next, Reconcile
<1>. QED BY <1>1, <1>2

(* The invariant holds initially. *)
LEMMA SafetyInit == Init => SafetyInv
<1>. SUFFICES ASSUME Init PROVE SafetyInv
  OBVIOUS
<1>1. TypeOK
  BY BlankType, BoundsAssumption DEF Init, TypeOK, NoJob
<1>2. CopiesSound
  BY BlankSound DEF Init, CopiesSound, NoJob
<1>3. JobFaithful /\ PatchesFaithful
  BY DEF Init, JobFaithful, PatchesFaithful, NoJob
<1>4. TimesStored
  BY BlankGood DEF Init, TimesStored, Good
<1>. QED BY <1>1, <1>2, <1>3, <1>4 DEF SafetyInv

(* The invariant holds in every reachable state. *)
LEMMA SafetyAlways == Spec => []SafetyInv
BY SafetyInit, SafetyNext, PTL DEF Spec

(* In every reachable state the status of every lease agrees with itself   *)
(* and the ended label only marks leases that have ended, although         *)
(* Reconcile works on cached copies and makes two writes, and may be       *)
(* interrupted before, between and after them.                             *)
THEOREM StatusAlwaysCoherent == Spec => [](StatusCoherent /\ LabelTruthful)
<1>1. SafetyInv => StatusCoherent /\ LabelTruthful
  BY DEF SafetyInv, CopiesSound, Sound, StatusCoherent, LabelTruthful
<1>. QED BY <1>1, SafetyAlways, PTL

-----------------------------------------------------------------------------
(* What a step may do to one lease *)

(* The API server's object l is left alone. *)
Kept(l) == lease'[l] = lease[l] /\ life'[l] = life[l]

Created(l) ==
  /\ life[l] = "unborn" /\ lease'[l].status = NoStatus
  /\ life'[l] = "live" /\ ~lease'[l].spec.release

Collected(l) ==
  /\ life[l] = "live" /\ life'[l] = "gone"
  /\ lease[l].owned /\ lease'[l] = Blank

(* A patch or the reconciler's metadata write. *)
Edited(l) ==
  /\ life[l] = "live" /\ life'[l] = "live"
  /\ lease'[l].status = lease[l].status
  /\ lease[l].spec.release => lease'[l].spec.release

(* The status write of the reconcile in progress. *)
Decided(l) ==
  /\ life[l] = "live" /\ life'[l] = "live"
  /\ job.pc = "decided" /\ job.lease = l
  /\ lease[l] = job.base
  /\ lease'[l] = [job.obj EXCEPT !.status = StoredStatus(job.obj.status)]
  /\ now' = now

Written(l) == Created(l) \/ Collected(l) \/ Edited(l) \/ Decided(l)

(* A write to one lease leaves the others. *)
LEMMA StoreKeeps ==
  ASSUME TypeOK, NEW l \in Leases, NEW m \in Leases, NEW o, Store(m, o), l # m
  PROVE  lease'[l] = lease[l]
BY DEF Store, TypeOK

(* A write to a lease stores what is written. *)
LEMMA StoreSets ==
  ASSUME TypeOK, NEW m \in Leases, NEW o, Store(m, o)
  PROVE  lease'[m] = o
BY DEF Store, TypeOK

(* What a step of a client may do to one lease. *)
LEMMA ClientCallsShape ==
  ASSUME SafetyInv, ClientCalls, NEW l \in Leases
  PROVE  Kept(l) \/ Written(l)
<1>1. TypeOK
  BY DEF SafetyInv
<1>2. ASSUME NEW m \in Leases, NEW c, NEW sel, NEW t, NewLease(m, c, sel, t)
      PROVE  Kept(l) \/ Created(l)
  <2>1. /\ life[m] = "unborn" /\ life' = [life EXCEPT ![m] = "live"]
        /\ Store(m, [spec |-> [client |-> c, sel |-> sel, release |-> FALSE,
                         begin |-> Whole(t.begin), end |-> Whole(t.end),
                         dur |-> t.dur],
                     status |-> NoStatus, label |-> FALSE, owned |-> FALSE])
    BY <1>2 DEF NewLease
  <2>2. CASE l = m
    <3>1. lease'[l].status = NoStatus /\ ~lease'[l].spec.release
      BY <1>1, <2>1, <2>2, StoreSets
    <3>. QED BY <1>1, <2>1, <2>2, <3>1 DEF Created, TypeOK
  <2>3. CASE l # m
    BY <1>1, <2>1, <2>3, StoreKeeps DEF Kept, TypeOK
  <2>. QED BY <2>2, <2>3
<1>3. ASSUME NEW m, NEW c, NEW new, StartPatch(m, c, new)
      PROVE  Kept(l)
  BY <1>3 DEF StartPatch, Kept
<1>4. ASSUME NEW p \in patches, ApplyPatch(p)
      PROVE  Kept(l) \/ Edited(l)
  <2>1. CASE p.lease \notin Live
    BY <1>4, <2>1 DEF ApplyPatch, Kept
  <2>2. CASE p.lease \in Live
    <3>. DEFINE o == [lease[p.lease] EXCEPT !.spec = MergePatch(p, @)]
    <3>1. p.lease \in Leases /\ life[p.lease] = "live" /\ life' = life
      BY <1>4, <2>2 DEF ApplyPatch, Live
    <3>2. Store(p.lease, o)
      BY <1>4, <2>2 DEF ApplyPatch
    <3>3. CASE l # p.lease
      BY <1>1, <3>1, <3>2, <3>3, StoreKeeps DEF Kept
    <3>4. CASE l = p.lease
      <4>1. lease'[l] = o
        BY <1>1, <3>2, <3>4, StoreSets
      <4>2. lease[l] \in LeaseObject
        BY <1>1 DEF TypeOK
      <4>3. o.status = lease[l].status /\ o.spec = MergePatch(p, lease[l].spec)
        BY <3>4, <4>2 DEF LeaseObject
      <4>4. p.old.release => p.new.release
        BY DEF SafetyInv, PatchesFaithful
      <4>5. lease[l].spec.release => o.spec.release
        <5>1. o.spec.release = IF p.old.release = p.new.release
                               THEN lease[l].spec.release ELSE p.new.release
          BY <4>3 DEF MergePatch, Field
        <5>2. p \in Patch
          BY <1>1 DEF TypeOK
        <5>3. p.old.release \in BOOLEAN /\ p.new.release \in BOOLEAN
          BY <5>2 DEF Patch, LeaseSpec
        <5>. QED BY <4>4, <5>1, <5>3
      <4>. QED BY <3>1, <3>4, <4>1, <4>3, <4>5 DEF Edited
    <3>. QED BY <3>3, <3>4
  <2>. QED BY <2>1, <2>2
<1>. QED
  BY <1>2, <1>3, <1>4
  DEF ClientCalls, RequestLease, CreateLease, UpdateLease, ReleaseLease, Written

(* What a step of the surroundings may do to one lease. *)
LEMMA WorldShape ==
  ASSUME SafetyInv, World, NEW l \in Leases
  PROVE  Kept(l) \/ Written(l)
<1>1. TypeOK
  BY DEF SafetyInv
<1>2. ASSUME UNCHANGED <<lease, life>> PROVE Kept(l)
  BY <1>2 DEF Kept
<1>3. ASSUME \/ Tick \/ Resync
             \/ \E e \in Exporters : ExporterFlips(e) \/ DeleteExporter(e)
             \/ \E c \in Clients : DeleteClient(c)
             \/ \E P \in PolicySets : SetPolicies(P)
             \/ \E m \in Leases : DeliverLease(m) \/ TimerFires(m)
      PROVE  Kept(l)
  BY <1>2, <1>3 DEF Tick, Resync, ExporterFlips, DeleteExporter, DeleteClient,
                    SetPolicies, DeliverLease, TimerFires
<1>4. ASSUME NEW m \in Leases, CollectLease(m)
      PROVE  Kept(l) \/ Collected(l)
  <2>1. /\ life[m] = "live" /\ lease[m].owned
        /\ life' = [life EXCEPT ![m] = "gone"]
        /\ Store(m, Blank)
    BY <1>4 DEF CollectLease
  <2>2. CASE l = m
    <3>1. lease'[l] = Blank
      BY <1>1, <2>1, <2>2, StoreSets
    <3>. QED BY <1>1, <2>1, <2>2, <3>1 DEF Collected, TypeOK
  <2>3. CASE l # m
    BY <1>1, <2>1, <2>3, StoreKeeps DEF Kept, TypeOK
  <2>. QED BY <2>2, <2>3
<1>. QED BY <1>3, <1>4 DEF World, Written

(* What a write of a reconcile may do to one lease. *)
LEMMA WriteShape ==
  ASSUME SafetyInv, Write, NEW l \in Leases
  PROVE  Kept(l) \/ Written(l)
<1>1. TypeOK
  BY DEF SafetyInv
<1>2. CASE WriteConflict \/ OwnerMissing
  BY <1>2 DEF WriteConflict, OwnerMissing, Retry, Kept
<1>3. CASE UpdateStatus
  <2>. DEFINE o == [lease[job.lease] EXCEPT !.status = StoredStatus(job.obj.status)]
  <2>1. /\ job.pc = "decided" /\ job.lease \in Leases /\ life[job.lease] = "live"
        /\ lease[job.lease] = job.base /\ life' = life /\ now' = now
        /\ Store(job.lease, o)
    BY <1>1, <1>3 DEF UpdateStatus, Fresh, TypeOK
  <2>2. o = [job.obj EXCEPT !.status = StoredStatus(job.obj.status)]
    <3>1. job.obj = [job.base EXCEPT !.status = job.obj.status]
      BY <2>1 DEF SafetyInv, JobFaithful
    <3>2. job.base \in LeaseObject
      BY <1>1 DEF TypeOK, Job
    <3>. QED BY <2>1, <3>1, <3>2 DEF LeaseObject
  <2>3. CASE l # job.lease
    BY <1>1, <2>1, <2>3, StoreKeeps DEF Kept
  <2>4. CASE l = job.lease
    BY <1>1, <2>1, <2>2, <2>4, StoreSets DEF Decided, Written
  <2>. QED BY <2>3, <2>4
<1>4. CASE UpdateMetadata
  <2>. DEFINE o == [job.obj EXCEPT !.label = EndedLabel(job.obj),
                                  !.owned = @ \/ job.obj.status.exporterRef # None]
  <2>1. /\ job.pc = "statused" /\ job.lease \in Leases /\ life[job.lease] = "live"
        /\ lease[job.lease] = job.base /\ life' = life /\ Store(job.lease, o)
    BY <1>1, <1>4 DEF UpdateMetadata, Fresh, TypeOK
  <2>2. job.obj \in LeaseObject /\ job.obj = job.base
    BY <1>1, <2>1 DEF SafetyInv, JobFaithful, TypeOK, Job
  <2>3. o.status = job.obj.status /\ o.spec = job.obj.spec
    BY <2>2 DEF LeaseObject
  <2>4. CASE l # job.lease
    BY <1>1, <2>1, <2>4, StoreKeeps DEF Kept
  <2>5. CASE l = job.lease
    <3>1. lease'[l] = o
      BY <1>1, <2>1, <2>5, StoreSets
    <3>. QED BY <2>1, <2>2, <2>3, <2>5, <3>1 DEF Edited, Written
  <2>. QED BY <2>4, <2>5
<1>. QED BY <1>2, <1>3, <1>4 DEF Write

(* Every step leaves a lease alone or writes it in one of four ways. *)
LEMMA StepShape ==
  ASSUME SafetyInv, [Next]_vars, NEW l \in Leases
  PROVE  Kept(l) \/ Written(l)
<1>1. CASE UNCHANGED vars
  BY <1>1 DEF vars, Kept
<1>2. CASE Decide
  <2>1. UNCHANGED <<lease, life>>
    BY <1>2, DecideShape DEF Settle, Retry
  <2>. QED BY <2>1 DEF Kept
<1>3. CASE (\E m \in Leases : GetLease(m)) \/ CallFails \/ Restart
  BY <1>3 DEF GetLease, CallFails, Retry, Restart, Kept
<1>. QED BY <1>1, <1>2, <1>3, ClientCallsShape, WorldShape, WriteShape DEF Next, Reconcile

(* What the status write of a reconcile makes of a lease. *)
LEMMA DecidedResult ==
  ASSUME SafetyInv, NEW l \in Leases, Decided(l)
  PROVE  LET s == lease[l].status
             w == lease'[l].status
         IN  /\ StatusFollows(job.base, job.obj, now)
             /\ lease'[l].spec = job.obj.spec /\ lease'[l].spec = lease[l].spec
             /\ w.exporterRef = job.obj.status.exporterRef
             /\ w.ended = job.obj.status.ended
             /\ s.ended => w = s
<1>1. /\ job.base \in LeaseObject /\ job.obj \in LeaseObject
      /\ job.obj.status \in LeaseStatus
  BY DEF SafetyInv, TypeOK, Job, LeaseObject
<1>2. /\ StatusFollows(job.base, job.obj, now)
      /\ job.obj = [job.base EXCEPT !.status = job.obj.status]
  BY DEF Decided, SafetyInv, JobFaithful
<1>3. /\ lease'[l].status = StoredStatus(job.obj.status)
      /\ lease'[l].spec = job.obj.spec /\ job.obj.spec = job.base.spec
  BY <1>1, <1>2 DEF Decided, LeaseObject
<1>4. lease[l].status.ended => lease'[l].status = lease[l].status
  BY <1>2, <1>3 DEF StatusFollows, Decided, SafetyInv, TimesStored
<1>. QED BY <1>1, <1>2, <1>3, <1>4, StoredResult DEF Decided

(* A name that was never used never has an object. *)
LEMMA UnbornAlways == Spec => []UnbornBlank
<1>1. Init => UnbornBlank
  BY DEF Init, UnbornBlank
<1>2. SafetyInv /\ UnbornBlank /\ [Next]_vars => UnbornBlank'
  <2>. SUFFICES ASSUME SafetyInv, UnbornBlank, [Next]_vars, NEW l \in Leases,
                       life'[l] = "unborn"
                PROVE  lease'[l] = Blank
    BY DEF UnbornBlank
  <2>1. Kept(l)
    BY StepShape DEF Written, Created, Collected, Edited, Decided
  <2>. QED BY <2>1 DEF Kept, UnbornBlank
<1>. QED BY <1>1, <1>2, SafetyAlways, PTL DEF Spec

(* No write of a reconcile that worked on an old copy changes the status   *)
(* of an ended lease or the exporter of an assigned one (StatusFinal): the *)
(* resource version in Status().Update and the early returns of the        *)
(* reconcileStatus functions together see to it.                           *)
THEOREM StatusNeverReopened == Spec => StatusFinal
<1>. DEFINE A(l) ==
       life'[l] = "live" =>
         /\ lease[l].status.ended => lease'[l].status = lease[l].status
         /\ lease[l].status.exporterRef # None =>
              lease'[l].status.exporterRef = lease[l].status.exporterRef
<1>1. SafetyInv /\ UnbornBlank /\ [Next]_vars => \A l \in Leases : A(l)
  <2>. SUFFICES ASSUME SafetyInv, UnbornBlank, [Next]_vars, NEW l \in Leases
                PROVE  A(l)
    OBVIOUS
  <2>1. CASE Kept(l)
    BY <2>1 DEF Kept
  <2>2. CASE Created(l)
    BY <2>2 DEF Created, UnbornBlank, Blank, NoStatus
  <2>3. CASE Collected(l)
    BY <2>3 DEF Collected
  <2>4. CASE Edited(l)
    BY <2>4 DEF Edited
  <2>5. CASE Decided(l)
    BY <2>5, DecidedResult DEF Decided, StatusFollows
  <2>. QED BY <2>1, <2>2, <2>3, <2>4, <2>5, StepShape DEF Written
<1>2. SafetyInv /\ UnbornBlank /\ [Next]_vars => [\A l \in Leases : A(l)]_vars
  BY <1>1
<1>. QED BY <1>2, SafetyAlways, UnbornAlways, PTL DEF Spec, StatusFinal

(* A release, once requested by ReleaseLease or DeleteLease, is never      *)
(* taken back by an UpdateLease that read the lease before it nor by the   *)
(* reconciler's Update of the whole object (ReleaseKept).                  *)
THEOREM ReleaseNeverLost == Spec => ReleaseKept
<1>. DEFINE A(l) ==
       (lease[l].spec.release /\ life'[l] = "live") => lease'[l].spec.release
<1>1. SafetyInv /\ UnbornBlank /\ [Next]_vars => [\A l \in Leases : A(l)]_vars
  <2>. SUFFICES ASSUME SafetyInv, UnbornBlank, [Next]_vars, NEW l \in Leases
                PROVE  A(l)
    OBVIOUS
  <2>1. CASE Kept(l)
    BY <2>1 DEF Kept
  <2>2. CASE Created(l)
    BY <2>2 DEF Created, UnbornBlank, Blank
  <2>3. CASE Collected(l)
    BY <2>3 DEF Collected
  <2>4. CASE Edited(l)
    BY <2>4 DEF Edited
  <2>5. CASE Decided(l)
    BY <2>5, DecidedResult
  <2>. QED BY <2>1, <2>2, <2>3, <2>4, <2>5, StepShape DEF Written
<1>. QED BY <1>1, SafetyAlways, UnbornAlways, PTL DEF Spec, ReleaseKept

(* The write that assigns an exporter agrees with the lease as stored at   *)
(* that instant, whatever RPC ran during the reconcile: the begin time has *)
(* come, and a lease being released ends with the same write               *)
(* (AssignedWhenWanted).                                                   *)
THEOREM NeverAssignedUnwanted == Spec => AssignedWhenWanted
<1>. DEFINE A(l) ==
       (life'[l] = "live" /\ lease[l].status.exporterRef = None
          /\ lease'[l].status.exporterRef # None) =>
       /\ lease'[l].spec.begin # None => lease'[l].spec.begin <= now'
       /\ lease'[l].spec.release => lease'[l].status.ended
<1>1. SafetyInv /\ UnbornBlank /\ [Next]_vars => [\A l \in Leases : A(l)]_vars
  <2>. SUFFICES ASSUME SafetyInv, UnbornBlank, [Next]_vars, NEW l \in Leases
                PROVE  A(l)
    OBVIOUS
  <2>1. CASE Kept(l)
    BY <2>1 DEF Kept
  <2>2. CASE Created(l)
    BY <2>2 DEF Created, NoStatus
  <2>3. CASE Collected(l)
    BY <2>3 DEF Collected
  <2>4. CASE Edited(l)
    BY <2>4 DEF Edited
  <2>5. CASE Decided(l)
    BY <2>5, DecidedResult DEF Decided, StatusFollows
  <2>. QED BY <2>1, <2>2, <2>3, <2>4, <2>5, StepShape DEF Written
<1>. QED BY <1>1, SafetyAlways, UnbornAlways, PTL DEF Spec, AssignedWhenWanted

-----------------------------------------------------------------------------
(* Exporters held *)

(* An RPC that creates a lease makes an event, and one that patches it too *)
(* unless the patch is empty.                                              *)
LEMMA NewLeaseEvent ==
  ASSUME TypeOK, UnbornBlank, NEW l \in Leases, NEW c, NEW x, NEW y,
         NewLease(l, c, x, y)
  PROVE  l \in events'
<1>1. c # None /\ lease[l] = Blank
  BY NamesAssumption DEF NewLease, TypeOK, UnbornBlank
<1>2. PICK o : Store(l, o) /\ o.spec.client = c
  BY DEF NewLease
<1>3. o # lease[l]
  BY <1>1, <1>2 DEF Blank
<1>. QED BY <1>2, <1>3 DEF Store

(* A write makes an event or changes nothing. *)
LEMMA StoreEvent ==
  ASSUME TypeOK, NEW m \in Leases, NEW o, Store(m, o), NEW l \in Leases
  PROVE  events \subseteq events' /\ (l \in events' \/ lease'[l] = lease[l])
BY DEF Store, TypeOK

(* The steps of RPCs, seen from one lease that lives afterwards. *)
LEMMA ClientCallsQuiet ==
  ASSUME TypeOK, UnbornBlank, ClientCalls, NEW l \in Leases, life'[l] = "live"
  PROVE  /\ UNCHANGED <<now, known, cache, queue, timer, job>>
         /\ events \subseteq events'
         /\ l \in events' \/ (lease'[l] = lease[l] /\ life[l] = "live")
<1>1. ASSUME NEW m \in Leases, NEW c, NEW x, NEW y, NewLease(m, c, x, y)
      PROVE  /\ UNCHANGED <<now, known, cache, queue, timer, job>>
             /\ events \subseteq events'
             /\ l \in events' \/ (lease'[l] = lease[l] /\ life[l] = "live")
  <2>1. PICK o : Store(m, o)
    BY <1>1 DEF NewLease
  <2>2. events \subseteq events' /\ (l \in events' \/ lease'[l] = lease[l])
    BY <2>1, StoreEvent
  <2>3. m \in events'
    BY <1>1, NewLeaseEvent
  <2>4. l # m => life[l] = "live"
    BY <1>1 DEF NewLease, TypeOK
  <2>. QED BY <1>1, <2>2, <2>3, <2>4 DEF NewLease
<1>2. ASSUME NEW m, NEW c, NEW x, StartPatch(m, c, x)
      PROVE  UNCHANGED <<now, known, cache, queue, timer, job, lease, life, events>>
  BY <1>2 DEF StartPatch
<1>3. ASSUME NEW p \in patches, ApplyPatch(p)
      PROVE  /\ UNCHANGED <<now, known, cache, queue, timer, job, life>>
             /\ events \subseteq events'
             /\ l \in events' \/ lease'[l] = lease[l]
  <2>1. p.lease \in Leases
    BY DEF TypeOK, Patch
  <2>. QED BY <1>3, <2>1, StoreEvent DEF ApplyPatch
<1>4. \/ \E m \in Leases : \E c, x, y : NewLease(m, c, x, y)
      \/ \E m, c, x : StartPatch(m, c, x)
      \/ \E p \in patches : ApplyPatch(p)
  BY Zenon DEF ClientCalls, RequestLease, CreateLease, UpdateLease, ReleaseLease
<1>5. CASE \E m \in Leases : \E c, x, y : NewLease(m, c, x, y)
  BY <1>1, <1>5
<1>6. CASE \E m, c, x : StartPatch(m, c, x)
  BY <1>2, <1>6
<1>7. CASE \E p \in patches : ApplyPatch(p)
  BY <1>3, <1>7
<1>. QED BY <1>4, <1>5, <1>6, <1>7

(* The cache shows a lease that has no event on its way as it is. *)
LEMMA CacheNext ==
  ASSUME SafetyInv, UnbornBlank, CacheFollows, [Next]_vars
  PROVE  CacheFollows'
<1>0. TypeOK
  BY DEF SafetyInv
<1>. SUFFICES ASSUME NEW l \in Leases, life'[l] = "live", l \notin events'
              PROVE  l \in known' /\ cache'[l] = lease'[l]
  BY DEF CacheFollows, Live
<1>1. life[l] = "live" /\ l \notin events => l \in known /\ cache[l] = lease[l]
  BY DEF CacheFollows, Live
<1>2. ASSUME UNCHANGED <<known, cache, life>>, events \subseteq events', lease'[l] = lease[l]
      PROVE  l \in known' /\ cache'[l] = lease'[l]
  BY <1>1, <1>2
<1>3. CASE ClientCalls
  BY <1>0, <1>1, <1>3, ClientCallsQuiet
<1>4. CASE World
  <2>1. ASSUME NEW m \in Leases, CollectLease(m)
        PROVE  l \in known' /\ cache'[l] = lease'[l]
    <3>1. /\ UNCHANGED <<known, cache>> /\ Store(m, Blank)
          /\ l # m /\ life[l] = "live"
      BY <1>0, <2>1 DEF CollectLease, TypeOK
    <3>. QED BY <1>0, <1>1, <3>1, StoreEvent
  <2>2. ASSUME NEW m \in Leases, DeliverLease(m)
        PROVE  l \in known' /\ cache'[l] = lease'[l]
    BY <1>0, <1>1, <2>2 DEF DeliverLease, Live, TypeOK
  <2>. QED
    BY <1>2, <1>4, <2>1, <2>2
    DEF World, Tick, Resync, ExporterFlips, DeleteExporter, DeleteClient,
        SetPolicies, TimerFires
<1>5. CASE Decide
  BY <1>2, <1>5, DecideShape DEF Settle, Retry
<1>6. CASE Write
  <2>1. CASE UpdateStatus \/ UpdateMetadata
    <3>1. job.lease \in Leases
      BY <1>0, <2>1 DEF UpdateStatus, UpdateMetadata, TypeOK
    <3>2. events \subseteq events' /\ (l \in events' \/ lease'[l] = lease[l])
      BY <1>0, <2>1, <3>1, StoreEvent DEF UpdateStatus, UpdateMetadata
    <3>. QED BY <1>2, <2>1, <3>2 DEF UpdateStatus, UpdateMetadata
  <2>2. CASE WriteConflict \/ OwnerMissing
    BY <1>2, <2>2 DEF WriteConflict, OwnerMissing, Retry
  <2>. QED BY <1>6, <2>1, <2>2 DEF Write
<1>7. CASE (\E m \in Leases : GetLease(m)) \/ CallFails
  BY <1>2, <1>7 DEF GetLease, CallFails, Retry
<1>8. CASE Restart
  BY <1>8 DEF Restart, Live
<1>9. CASE UNCHANGED vars
  BY <1>2, <1>9 DEF vars
<1>. QED BY <1>3, <1>4, <1>5, <1>6, <1>7, <1>8, <1>9 DEF Next, Reconcile

(* Every reachable state satisfies the invariant behind bookings. *)
LEMMA BookingAlways == Spec => []BookingInv
<1>1. Init => CacheFollows
  BY DEF Init, CacheFollows, Live
<1>2. SafetyInv /\ UnbornBlank /\ CacheFollows /\ [Next]_vars => CacheFollows'
  BY CacheNext
<1>. QED BY <1>1, <1>2, SafetyAlways, UnbornAlways, PTL DEF Spec, BookingInv

(* No RPC and nothing around the controller touches the job. *)
LEMMA OutsideJob ==
  ASSUME ClientCalls \/ World
  PROVE  job' = job
<1>1. CASE ClientCalls
  <2>1. ASSUME NEW l, NEW c, NEW x, NEW y, NewLease(l, c, x, y) PROVE job' = job
    BY <2>1 DEF NewLease
  <2>2. ASSUME NEW l, NEW c, NEW x, StartPatch(l, c, x) PROVE job' = job
    BY <2>2 DEF StartPatch
  <2>3. ASSUME NEW p, ApplyPatch(p) PROVE job' = job
    BY <2>3 DEF ApplyPatch
  <2>. QED
    BY <1>1, <2>1, <2>2, <2>3
    DEF ClientCalls, RequestLease, CreateLease, UpdateLease, ReleaseLease
<1>2. CASE World
  BY <1>2 DEF World, Tick, Resync, ExporterFlips, DeleteExporter, DeleteClient,
              SetPolicies, CollectLease, DeliverLease, TimerFires
<1>. QED BY <1>1, <1>2

(* How a step may change the job. *)
LEMMA JobMoves ==
  ASSUME SafetyInv, [Next]_vars
  PROVE  \/ job' = job \/ job' = NoJob
         \/ Decide /\ job'.pc = "decided"
         \/ UpdateStatus /\ job'.pc = "statused"
         \/ \E l \in Leases : GetLease(l)
<1>1. TypeOK
  BY DEF SafetyInv
<1>2. CASE job' = job \/ job' = NoJob
  BY <1>2
<1>3. CASE Decide
  <2>1. ASSUME NEW s, NEW wait, NEW poll, Settle(s, wait, poll) PROVE job'.pc = "decided"
    BY <1>1, <2>1 DEF Settle, TypeOK, Job
  <2>. QED BY <1>3, <2>1, DecideShape DEF Retry
<1>4. CASE Write
  BY <1>1, <1>4 DEF Write, UpdateStatus, WriteConflict, OwnerMissing, UpdateMetadata,
                    Retry, TypeOK, Job
<1>5. CASE CallFails \/ Restart
  BY <1>5 DEF CallFails, Restart, Retry
<1>6. CASE ClientCalls \/ World
  BY <1>6, OutsideJob
<1>7. CASE UNCHANGED vars
  BY <1>7 DEF vars
<1>. QED BY <1>2, <1>3, <1>4, <1>5, <1>6, <1>7 DEF Next, Reconcile

(* The job changes into a decision by Decide alone. *)
LEMMA JobShape ==
  ASSUME SafetyInv, [Next]_vars
  PROVE  job' = job \/ job'.pc # "decided" \/ Decide
<1>1. CASE \E l \in Leases : GetLease(l)
  BY <1>1 DEF GetLease, NoJob
<1>2. job' = NoJob => job'.pc # "decided"
  BY DEF NoJob
<1>. QED BY <1>1, <1>2, JobMoves

(* A lease without an event on its way hides no exporter it holds. *)
LEMMA HeldIsLeased ==
  ASSUME BookingInv, NEW m \in Leases, m \notin events,
         NEW e \in Exporters, Holds(m, e)
  PROVE  e \in Leased
<1>1. m \in ActiveLeases /\ Seen(m).status.exporterRef = e
  <2>1. ~lease[m].label
    BY DEF Holds, BookingInv, SafetyInv, CopiesSound, Sound
  <2>2. m \in known /\ cache[m] = lease[m]
    BY DEF BookingInv, CacheFollows, Live, Holds
  <2>. QED BY <2>1, <2>2 DEF Holds, ActiveLeases, Visible, Seen
<1>2. e # None
  BY ExportersAssumption, NoneAssumption
<1>. QED BY <1>1, <1>2 DEF Leased

(* With the reads the reconciler really has, a decision picks an exporter  *)
(* that another lease holds only while an event of that lease has not      *)
(* reached the informer (SecondBookingUnseen), for any number of leases,   *)
(* exporters and policies and through every conflict, failure and restart: *)
(* the lag of the cache is the only cause of a double booking.             *)
THEOREM SecondBookingAlwaysUnseen == Spec => SecondBookingUnseen
<1>1. ASSUME BookingInv, [Next]_vars, NEW e \in Exporters, NEW m \in Leases,
             Chooses(e), Holds(m, e)
      PROVE  m \in events
  <2>1. SafetyInv /\ job.pc = "read" /\ job.obj.status.exporterRef = None
    BY <1>1 DEF Chooses, Searching, BookingInv
  <2>2. e # None
    BY ExportersAssumption, NoneAssumption
  <2>3. Decide
    BY <1>1, <2>1, JobShape DEF Chooses
  <2>4. e \notin Leased
    <3>1. CASE Retry
      BY <1>1, <3>1 DEF Retry, NoJob, Chooses
    <3>2. ASSUME NEW s \in LeaseStatus, NEW wait \in Opt(Nat), NEW poll \in BOOLEAN,
                 Settle(s, wait, poll), Raw(s),
                 job.obj.status.ended => s = job.obj.status,
                 (job.obj.status.exporterRef = None /\ s.exporterRef # None)
                   => Due(job.obj.spec) /\ s.exporterRef \notin Leased
          PROVE  e \notin Leased
      <4>1. job'.obj.status.exporterRef = s.exporterRef
        BY <2>1, <3>2, SettleSafe
      <4>. QED BY <1>1, <2>1, <2>2, <3>2, <4>1 DEF Chooses
    <3>. QED BY <2>1, <2>3, <3>1, <3>2, DecideShape
  <2>. QED BY <1>1, <2>4, HeldIsLeased
<1>2. BookingInv /\ [Next]_vars =>
        [\A e \in Exporters : \A m \in Leases \ {job.lease} :
           Chooses(e) /\ Holds(m, e) => m \in events]_vars
  BY <1>1
<1>. QED BY <1>2, BookingAlways, PTL DEF Spec, SecondBookingUnseen

-----------------------------------------------------------------------------
(* The lifecycle *)

(* A step writes at most one lease. *)
LEMMA OneLease ==
  ASSUME SafetyInv, [Next]_vars, NEW l \in Leases, ~Kept(l), NEW m \in Leases, l # m
  PROVE  Kept(m)
<1>1. TypeOK
  BY DEF SafetyInv
<1>2. ASSUME UNCHANGED <<lease, life>> PROVE FALSE
  BY <1>2 DEF Kept
<1>3. ASSUME NEW k \in Leases, NEW o, Store(k, o), NEW f,
             life' = life \/ life' = [life EXCEPT ![k] = f]
      PROVE  Kept(m)
  <2>1. ASSUME NEW n \in Leases, n # k PROVE Kept(n)
    BY <1>1, <1>3, <2>1, StoreKeeps DEF Kept, TypeOK
  <2>. QED BY <2>1
<1>4. CASE UNCHANGED vars
  BY <1>2, <1>4 DEF vars
<1>5. CASE ClientCalls
  <2>1. ASSUME NEW k \in Leases, NEW c, NEW x, NEW y, NewLease(k, c, x, y)
        PROVE  Kept(m)
    BY <1>3, <2>1 DEF NewLease
  <2>2. ASSUME NEW k, NEW c, NEW x, StartPatch(k, c, x) PROVE FALSE
    BY <1>2, <2>2 DEF StartPatch
  <2>3. ASSUME NEW p \in patches, ApplyPatch(p) PROVE Kept(m)
    BY <1>1, <1>2, <1>3, <2>3 DEF ApplyPatch, TypeOK, Patch
  <2>. QED
    BY <1>5, <2>1, <2>2, <2>3
    DEF ClientCalls, RequestLease, CreateLease, UpdateLease, ReleaseLease
<1>6. CASE World
  <2>1. ASSUME NEW k \in Leases, CollectLease(k) PROVE Kept(m)
    BY <1>3, <2>1 DEF CollectLease
  <2>. QED
    BY <1>2, <1>6, <2>1
    DEF World, Tick, Resync, ExporterFlips, DeleteExporter, DeleteClient,
        SetPolicies, DeliverLease, TimerFires
<1>7. CASE (\E k \in Leases : GetLease(k)) \/ CallFails \/ Restart
  BY <1>2, <1>7 DEF GetLease, CallFails, Retry, Restart
<1>8. CASE Decide
  BY <1>2, <1>8, DecideShape DEF Settle, Retry
<1>9. CASE Write
  <2>1. CASE WriteConflict \/ OwnerMissing
    BY <1>2, <2>1 DEF WriteConflict, OwnerMissing, Retry
  <2>2. CASE UpdateStatus \/ UpdateMetadata
    <3>1. job.lease \in Leases
      BY <1>1, <2>2 DEF UpdateStatus, UpdateMetadata, TypeOK
    <3>. QED BY <1>3, <2>2, <3>1 DEF UpdateStatus, UpdateMetadata
  <2>. QED BY <1>9, <2>1, <2>2 DEF Write
<1>. QED BY <1>4, <1>5, <1>6, <1>7, <1>8, <1>9 DEF Next, Reconcile

(* The phase of a lease and what it holds, case by case. *)
LEMMA PhaseValue ==
  ASSUME NEW l \in Leases
  PROVE  /\ life[l] # "live" => Phase[l] = life[l]
         /\ (life[l] = "live" /\ lease[l].status.ended) => Phase[l] = "ended"
         /\ (life[l] = "live" /\ ~lease[l].status.ended
               /\ lease[l].status.exporterRef = None) => Phase[l] = "waiting"
         /\ (life[l] = "live" /\ ~lease[l].status.ended
               /\ lease[l].status.exporterRef # None) => Phase[l] = "active"
         /\ Phase[l] = "active" => Holding[l] = lease[l].status.exporterRef
         /\ Phase[l] # "active" => Holding[l] = None
<1>1. Holding[l] = IF Phase[l] = "active" THEN lease[l].status.exporterRef ELSE None
  BY DEF Holding
<1>. QED BY <1>1 DEF Phase

(* A lease that is not written keeps its phase and its exporter. *)
LEMMA KeptPhase ==
  ASSUME NEW l \in Leases, Kept(l)
  PROVE  /\ Phase'[l] = Phase[l] /\ Holding'[l] = Holding[l]
         /\ Released'[l] = Released[l]
<1>1. Phase'[l] = Phase[l]
  BY DEF Kept, Phase
<1>. QED BY <1>1 DEF Kept, Holding, Released

(* The three functions as the update of one lease. *)
LEMMA OneUpdate ==
  ASSUME NEW l \in Leases, \A m \in Leases \ {l} : Kept(m)
  PROVE  /\ Phase' = [Phase EXCEPT ![l] = Phase'[l]]
         /\ Holding' = [Holding EXCEPT ![l] = Holding'[l]]
         /\ Released' = [Released EXCEPT ![l] = Released'[l]]
         /\ Phase'[l] = Phase[l] => Phase' = Phase
         /\ Holding'[l] = Holding[l] => Holding' = Holding
         /\ Released'[l] = Released[l] => Released' = Released
<1>1. \A m \in Leases \ {l} : /\ Phase'[m] = Phase[m] /\ Holding'[m] = Holding[m]
                              /\ Released'[m] = Released[m]
  BY KeptPhase
<1>2. /\ Phase = [m \in Leases |-> Phase[m]] /\ Phase' = [m \in Leases |-> Phase'[m]]
      /\ Holding = [m \in Leases |-> Holding[m]]
      /\ Holding' = [m \in Leases |-> Holding'[m]]
      /\ Released = [m \in Leases |-> Released[m]]
      /\ Released' = [m \in Leases |-> Released'[m]]
  BY DEF Phase, Holding, Released
<1>3. Phase' = [Phase EXCEPT ![l] = Phase'[l]] /\ (Phase'[l] = Phase[l] => Phase' = Phase)
  BY <1>1, <1>2
<1>4. /\ Holding' = [Holding EXCEPT ![l] = Holding'[l]]
      /\ Holding'[l] = Holding[l] => Holding' = Holding
  BY <1>1, <1>2
<1>5. /\ Released' = [Released EXCEPT ![l] = Released'[l]]
      /\ Released'[l] = Released[l] => Released' = Released
  BY <1>1, <1>2
<1>. QED BY <1>3, <1>4, <1>5

(* Every step of the lease controller is a step of the lifecycle, or one   *)
(* that a client of it does not see.                                       *)
LEMMA LifecycleStep ==
  ASSUME SafetyInv, UnbornBlank, [Next]_vars
  PROVE  [Lifecycle!Next]_(Lifecycle!lvars)
<1>0. TypeOK /\ TypeOK'
  BY NextType DEF SafetyInv
<1>1. CASE \A l \in Leases : Kept(l)
  <2>1. Phase' = Phase /\ Holding' = Holding /\ Released' = Released
    BY <1>1, KeptPhase DEF Phase, Holding, Released
  <2>. QED BY <2>1 DEF Lifecycle!lvars
<1>2. ASSUME NEW l \in Leases, ~Kept(l)
      PROVE  [Lifecycle!Next]_(Lifecycle!lvars)
  <2>0. \A m \in Leases \ {l} : Kept(m)
    BY <1>0, <1>2, OneLease
  <2>1. /\ Phase' = [Phase EXCEPT ![l] = Phase'[l]]
        /\ Holding' = [Holding EXCEPT ![l] = Holding'[l]]
        /\ Released' = [Released EXCEPT ![l] = Released'[l]]
        /\ Phase'[l] = Phase[l] => Phase' = Phase
        /\ Holding'[l] = Holding[l] => Holding' = Holding
        /\ Released'[l] = Released[l] => Released' = Released
    BY <2>0, OneUpdate
  <2>2. Created(l) \/ Collected(l) \/ Edited(l) \/ Decided(l)
    BY <1>0, <1>2, StepShape DEF Written
  <2>3. CASE Created(l)
    <3>1. Phase[l] = "unborn" /\ Holding[l] = None /\ ~Released[l]
      BY <2>3, PhaseValue DEF Created, UnbornBlank, Blank, Released
    <3>2. Phase'[l] = "waiting" /\ Holding'[l] = None
      BY <2>3, PhaseValue DEF Created, NoStatus, Phase, Holding
    <3>3. Released'[l] = Released[l]
      BY <1>0, <2>3 DEF Created, Released, UnbornBlank, Blank, TypeOK, LeaseObject, LeaseSpec
    <3>4. Lifecycle!Ask(l)
      BY <2>1, <3>1, <3>2, <3>3 DEF Lifecycle!Ask
    <3>. QED BY <3>4 DEF Lifecycle!Next
  <2>4. CASE Collected(l)
    <3>1. lease[l].status.exporterRef # None
      BY <1>0, <2>4 DEF Collected, SafetyInv, CopiesSound, Sound
    <3>2. Phase[l] \in {"active", "ended"}
      BY <2>4, <3>1, PhaseValue DEF Collected
    <3>3. Phase'[l] = "gone" /\ Holding'[l] = None /\ Released'[l] = FALSE
      BY <2>4 DEF Collected, Phase, Holding, Released, Blank
    <3>4. Lifecycle!Vanish(l)
      BY <2>1, <3>2, <3>3 DEF Lifecycle!Vanish
    <3>. QED BY <3>4 DEF Lifecycle!Next
  <2>5. CASE Edited(l)
    <3>1. Phase'[l] = Phase[l]
      BY <2>5 DEF Edited, Phase
    <3>2. Holding'[l] = Holding[l]
      BY <2>5, <3>1 DEF Edited, Holding
    <3>3. Released[l] \in BOOLEAN /\ Released'[l] \in BOOLEAN
      BY <1>0 DEF Released, TypeOK, LeaseObject, LeaseSpec
    <3>4. Released[l] => Released'[l]
      BY <2>5 DEF Edited, Released
    <3>5. Phase[l] \in {"waiting", "active", "ended"}
      BY <1>0, <2>5, PhaseValue DEF Edited, TypeOK, LeaseObject, LeaseStatus
    <3>6. CASE Released'[l] = Released[l]
      BY <2>1, <3>1, <3>2, <3>6 DEF Lifecycle!lvars
    <3>7. CASE Released'[l] = TRUE
      <4>1. Lifecycle!Release(l)
        BY <2>1, <3>1, <3>2, <3>5, <3>7 DEF Lifecycle!Release
      <4>. QED BY <4>1 DEF Lifecycle!Next
    <3>. QED BY <3>3, <3>4, <3>6, <3>7
  <2>6. CASE Decided(l)
    <3>. DEFINE s == lease[l].status
                w == lease'[l].status
    <3>1. /\ life[l] = "live" /\ life'[l] = "live"
          /\ job.pc = "decided" /\ job.lease = l /\ lease[l] = job.base
      BY <2>6 DEF Decided
    <3>2. /\ s.ended => w = s
          /\ s.exporterRef # None => w.exporterRef = s.exporterRef
          /\ w.exporterRef = job.obj.status.exporterRef
          /\ w.ended = job.obj.status.ended
          /\ lease'[l].spec = lease[l].spec /\ lease'[l].spec = job.obj.spec
          /\ StatusFollows(job.base, job.obj, now)
      BY <1>0, <2>6, <3>1, DecidedResult DEF StatusFollows
    <3>3. Released' = Released
      BY <2>1, <3>2 DEF Released
    <3>4. CASE w.ended = s.ended /\ w.exporterRef = s.exporterRef
      <4>1. Phase'[l] = Phase[l]
        BY <3>1, <3>4 DEF Phase
      <4>2. Holding'[l] = Holding[l]
        BY <3>4, <4>1 DEF Holding
      <4>. QED BY <2>1, <3>3, <4>1, <4>2 DEF Lifecycle!lvars
    <3>5. CASE w.ended /\ ~s.ended
      <4>1. Phase[l] \in {"waiting", "active"}
        BY <3>1, <3>5, PhaseValue
      <4>2. Phase'[l] = "ended" /\ Holding'[l] = None
        BY <3>1, <3>5 DEF Phase, Holding
      <4>3. Lifecycle!End(l)
        BY <2>1, <3>3, <4>1, <4>2 DEF Lifecycle!End
      <4>. QED BY <4>3 DEF Lifecycle!Next
    <3>6. CASE ~w.ended /\ ~s.ended /\ s.exporterRef = None /\ w.exporterRef # None
      <4>. DEFINE e == w.exporterRef
      <4>1. e \in Exporters
        BY <1>0, <3>2, <3>6 DEF TypeOK, Job, LeaseObject, LeaseStatus
      <4>2. ~Released[l]
        BY <3>1, <3>2, <3>6 DEF Released, StatusFollows
      <4>3. Phase[l] = "waiting"
        BY <3>1, <3>6, PhaseValue
      <4>4. Phase'[l] = "active" /\ Holding'[l] = e
        BY <3>1, <3>6 DEF Phase, Holding
      <4>5. Lifecycle!Grant(l, e)
        BY <2>1, <3>3, <4>2, <4>3, <4>4 DEF Lifecycle!Grant
      <4>. QED BY <4>1, <4>5 DEF Lifecycle!Next
    <3>7. s.ended \in BOOLEAN /\ w.ended \in BOOLEAN
      BY <1>0 DEF TypeOK, LeaseObject, LeaseStatus
    <3>. QED BY <3>2, <3>4, <3>5, <3>6, <3>7
  <2>. QED BY <2>2, <2>3, <2>4, <2>5, <2>6
<1>. QED BY <1>1, <1>2

(* The lease controller implements the lifecycle (LeaseLifecycle), for any *)
(* number of leases, exporters and calls: a lease waits, is granted an     *)
(* exporter, never once its release was asked for, ends and never comes    *)
(* back, through every old copy, conflict, failure and restart             *)
(* (ImplementsLifecycle).                                                  *)
THEOREM LifecycleImplemented == Spec => ImplementsLifecycle
<1>1. Init => Lifecycle!Init
  <2>. SUFFICES ASSUME Init PROVE Lifecycle!Init
    OBVIOUS
  <2>1. \A l \in Leases : Phase[l] = "unborn" /\ Holding[l] = None /\ Released[l] = FALSE
    BY PhaseValue DEF Init, Released, Blank
  <2>2. /\ Phase = [l \in Leases |-> Phase[l]]
        /\ Holding = [l \in Leases |-> Holding[l]]
        /\ Released = [l \in Leases |-> Released[l]]
    BY DEF Phase, Holding, Released
  <2>. QED BY <2>1, <2>2 DEF Lifecycle!Init
<1>2. SafetyInv /\ UnbornBlank /\ [Next]_vars => [Lifecycle!Next]_(Lifecycle!lvars)
  BY LifecycleStep
<1>. QED BY <1>1, <1>2, SafetyAlways, UnbornAlways, PTL
         DEF Spec, ImplementsLifecycle, Lifecycle!Spec

-----------------------------------------------------------------------------
(* The choice of an exporter *)

(* The two later reconcileStatus functions leave the exporter. *)
LEMMA RefKept ==
  ASSUME NEW s \in LeaseStatus, NEW spec \in LeaseSpec, now \in Nat
  PROVE  StatusEnded(spec, StatusBeginEndTimes(s)).exporterRef = s.exporterRef
<1>. DEFINE b == StatusBeginEndTimes(s)
<1>1. b \in LeaseStatus /\ b.exporterRef = s.exporterRef
  BY BeginType DEF StatusBeginEndTimes, SetCondition, LeaseStatus
<1>. HIDE DEF b
<1>2. ASSUME NEW r \in Reasons
      PROVE  EndNow(SetCondition(b, "Ready", r)).exporterRef = b.exporterRef
  BY <1>1, ReadyResult, EndNowResult
<1>3. EndNow(b).exporterRef = b.exporterRef
  BY <1>1, EndNowResult
<1>4. StatusEnded(spec, b).exporterRef = b.exporterRef
  BY <1>2, <1>3 DEF StatusEnded, Ends, Reasons
<1>. QED BY <1>1, <1>4 DEF b

(* What a settled decision makes of the job. *)
LEMMA SettleRef ==
  ASSUME SafetyInv, NEW s, NEW wait, NEW poll, Settle(s, wait, poll),
         s \in LeaseStatus
  PROVE  /\ job'.poll = poll
         /\ job'.obj.status.exporterRef = s.exporterRef
<1>. DEFINE f == StatusEnded(job.obj.spec, StatusBeginEndTimes(s))
<1>1. /\ job \in Job /\ job.obj \in LeaseObject /\ job.obj.spec \in LeaseSpec
      /\ now \in Nat
  BY DEF SafetyInv, TypeOK, Job, LeaseObject
<1>2. f.exporterRef = s.exporterRef
  BY <1>1, RefKept
<1>. HIDE DEF f
<1>3. job'.obj = [job.obj EXCEPT !.status = f] /\ job'.poll = poll
  BY <1>1 DEF Settle, Job, f
<1>. QED BY <1>1, <1>2, <1>3 DEF LeaseObject

(* Of the decisions only AssignExporter gives the lease an exporter. *)
LEMMA OnlyAssignment ==
  ASSUME SafetyInv, Searching, Decide, job'.pc = "decided",
         job'.obj.status.exporterRef # None
  PROVE  AssignExporter
<1>1. job.obj.status \in LeaseStatus /\ job.obj.status.exporterRef = None
  BY DEF SafetyInv, TypeOK, Job, LeaseObject, Searching
<1>2. ASSUME NEW c \in Conditions, NEW r \in Reasons, NEW poll,
             Settle(SetCondition(job.obj.status, c, r), None, poll)
      PROVE  FALSE
  BY <1>2, RefusalRaw, SettleRef
<1>3. ASSUME NEW wait, NEW poll, Settle(job.obj.status, wait, poll)
      PROVE  FALSE
  BY <1>1, <1>3, SettleRef
<1>4. ~Retry
  BY DEF Retry, NoJob
<1>5. ~NothingToAssign /\ ~ScheduledForLater
  BY <1>3 DEF NothingToAssign, ScheduledForLater
<1>6. ~SelectorError /\ ~ApprovalFails
  BY <1>4 DEF SelectorError, ApprovalFails
<1>7. ~SelectorEmpty /\ ~NoAccess /\ ~AllOffline /\ ~SpotAccessOnly /\ ~NotAvailable
  BY <1>2 DEF SelectorEmpty, NoAccess, AllOffline, SpotAccessOnly, NotAvailable,
              Conditions, Reasons
<1>. QED BY <1>5, <1>6, <1>7 DEF Decide

(* Of the decisions only two ask for a requeue after a second. *)
LEMMA OnlyPolls ==
  ASSUME SafetyInv, Searching, Decide, job'.poll
  PROVE  AllOffline \/ NotAvailable
<1>1. job.obj.status \in LeaseStatus
  BY DEF SafetyInv, TypeOK, Job, LeaseObject
<1>2. ASSUME NEW s, NEW wait, Settle(s, wait, FALSE) PROVE FALSE
  BY <1>2 DEF Settle, SafetyInv, TypeOK, Job
<1>3. ~Retry
  BY DEF Retry, NoJob
<1>4. ~NothingToAssign /\ ~ScheduledForLater /\ ~SelectorEmpty /\ ~NoAccess
      /\ ~SpotAccessOnly /\ ~AssignExporter
  BY <1>2 DEF NothingToAssign, ScheduledForLater, SelectorEmpty, NoAccess,
              SpotAccessOnly, AssignExporter
<1>5. ~SelectorError /\ ~ApprovalFails
  BY <1>3 DEF SelectorError, ApprovalFails
<1>. QED BY <1>4, <1>5 DEF Decide

(* The two later reconcileStatus functions refuse nothing. *)
LEMMA RefusedKept ==
  ASSUME NEW s \in LeaseStatus, NEW spec \in LeaseSpec, now \in Nat
  PROVE  Refused(StatusEnded(spec, StatusBeginEndTimes(s))) = Refused(s)
<1>. DEFINE t == [s EXCEPT !.begin = now]
            b == StatusBeginEndTimes(s)
<1>1. t \in LeaseStatus /\ Refused(t) = Refused(s)
  BY DEF LeaseStatus, Refused
<1>2. b = s \/ b = SetCondition(t, "Ready", "Ready")
  BY DEF StatusBeginEndTimes
<1>. HIDE DEF t
<1>3. Refused(SetCondition(t, "Ready", "Ready")) = Refused(t)
  BY <1>1, ReadyResult DEF Reasons
<1>4. b \in LeaseStatus /\ Refused(b) = Refused(s)
  BY <1>1, <1>2, <1>3, BeginType
<1>. HIDE DEF b
<1>5. Refused(EndNow(b)) = Refused(b)
  BY <1>4, EndNowResult DEF Refused
<1>6. ASSUME NEW r \in Reasons
      PROVE  Refused(EndNow(SetCondition(b, "Ready", r))) = Refused(b)
  <2>. DEFINE c == SetCondition(b, "Ready", r)
  <2>1. c \in LeaseStatus /\ Refused(c) = Refused(b)
    BY <1>4, ReadyResult
  <2>. HIDE DEF c
  <2>2. EndNow(c).conds = c.conds
    BY <2>1, EndNowResult
  <2>3. Refused(EndNow(c)) = Refused(c)
    BY <2>2 DEF Refused
  <2>. QED BY <2>1, <2>3 DEF c
<1>7. Refused(StatusEnded(spec, b)) = Refused(b)
  BY <1>5, <1>6 DEF StatusEnded, Ends, Reasons
<1>. QED BY <1>4, <1>7 DEF b

(* A settled decision refuses exactly what its first part refuses. *)
LEMMA SettleRefused ==
  ASSUME SafetyInv, NEW s \in LeaseStatus, NEW wait, NEW poll, Settle(s, wait, poll)
  PROVE  Refused(job'.obj.status) = Refused(s)
<1>. DEFINE f == StatusEnded(job.obj.spec, StatusBeginEndTimes(s))
<1>1. /\ job \in Job /\ job.obj \in LeaseObject /\ job.obj.spec \in LeaseSpec
      /\ now \in Nat
  BY DEF SafetyInv, TypeOK, Job, LeaseObject
<1>2. Refused(f) = Refused(s)
  BY <1>1, RefusedKept
<1>. HIDE DEF f
<1>3. job'.obj = [job.obj EXCEPT !.status = f]
  BY <1>1 DEF Settle, Job, f
<1>4. job'.obj.status = f
  BY <1>1, <1>3 DEF LeaseObject
<1>. QED BY <1>2, <1>4

(* Of the decisions only three refuse the lease. *)
LEMMA OnlyRefusals ==
  ASSUME SafetyInv, Searching, Decide, job'.pc = "decided", Refused(job'.obj.status)
  PROVE  SelectorEmpty \/ NoAccess \/ SpotAccessOnly
<1>1. job.obj.status \in LeaseStatus /\ TypeOK
  BY DEF SafetyInv, TypeOK, Job, LeaseObject
<1>2. ~Refused(job.obj.status)
  BY DEF SafetyInv, CopiesSound, Sound, StatusAgrees, Searching
<1>3. ASSUME NEW wait, NEW poll, Settle(job.obj.status, wait, poll)
      PROVE  FALSE
  BY <1>1, <1>2, <1>3, SettleRefused
<1>4. ASSUME NEW r \in Reasons, NEW poll,
             Settle(SetCondition(job.obj.status, "Pending", r), None, poll)
      PROVE  FALSE
  <2>. DEFINE s == SetCondition(job.obj.status, "Pending", r)
  <2>1. s \in LeaseStatus
    BY <1>1, SetConditionType DEF Conditions
  <2>2. s.conds = [job.obj.status.conds EXCEPT !["Pending"] = r]
    BY <1>1 DEF SetCondition, LeaseStatus
  <2>3. ~Refused(s)
    BY <1>1, <1>2, <2>2 DEF Refused, LeaseStatus, Conditions
  <2>. QED BY <1>4, <2>1, <2>3, SettleRefused
<1>5. ~NothingToAssign /\ ~ScheduledForLater
  BY <1>3 DEF NothingToAssign, ScheduledForLater
<1>6. ~AllOffline /\ ~NotAvailable
  BY <1>4 DEF AllOffline, NotAvailable, Reasons
<1>7. ~Retry
  BY DEF Retry, NoJob
<1>8. ~SelectorError /\ ~ApprovalFails
  BY <1>7 DEF SelectorError, ApprovalFails
<1>9. ~AssignExporter
  <2>. SUFFICES ASSUME AssignExporter PROVE FALSE
    OBVIOUS
  <2>1. PICK spotHeld \in SpotHeldChoices :
          \E a \in First(Available(OnlineApproved, Leased, spotHeld), Leased) :
            Settle([job.obj.status EXCEPT !.exporterRef = a.exporter,
                      !.priority = a.priority, !.spot = a.spot], None, FALSE)
    BY DEF AssignExporter
  <2>2. PICK a \in First(Available(OnlineApproved, Leased, spotHeld), Leased) :
          Settle([job.obj.status EXCEPT !.exporterRef = a.exporter,
                    !.priority = a.priority, !.spot = a.spot], None, FALSE)
    BY <2>1
  <2>. DEFINE s == [job.obj.status EXCEPT !.exporterRef = a.exporter,
                      !.priority = a.priority, !.spot = a.spot]
  <2>3. s \in LeaseStatus
    BY <1>1, AssignedType DEF Searching
  <2>4. s.conds = job.obj.status.conds
    BY <1>1 DEF LeaseStatus
  <2>5. ~Refused(s)
    BY <1>2, <2>4 DEF Refused
  <2>. QED BY <2>2, <2>3, <2>5, SettleRefused
<1>. QED BY <1>5, <1>6, <1>8, <1>9 DEF Decide

(* A job read and not decided has asked for nothing; a job idle is nobody's. *)
LEMMA NotYetAskedAlways == Spec => []NotYetAsked
<1>1. Init => NotYetAsked
  BY DEF Init, NotYetAsked, NoJob
<1>2. SafetyInv /\ NotYetAsked /\ [Next]_vars => NotYetAsked'
  <2>. SUFFICES ASSUME SafetyInv, NotYetAsked, [Next]_vars PROVE NotYetAsked'
    OBVIOUS
  <2>1. CASE job' = job \/ job' = NoJob
    BY <2>1 DEF NotYetAsked, NoJob
  <2>2. CASE job'.pc \in {"decided", "statused"}
    BY <2>2 DEF NotYetAsked
  <2>3. CASE \E l \in Leases : GetLease(l)
    BY <2>3 DEF GetLease, NotYetAsked, NoJob
  <2>. QED BY <2>1, <2>2, <2>3, JobMoves
<1>. QED BY <1>1, <1>2, SafetyAlways, PTL DEF Spec

(* An entry that is first among those available and not leased is first    *)
(* among all.                                                              *)
LEMMA FirstOfAll ==
  ASSUME NEW S, NEW leased, NEW spotHeld,
         NEW a \in First(Available(S, leased, spotHeld), leased), a.exporter \notin leased
  PROVE  a \in First(S, leased)
BY DEF First, Available, Before

(* When the first available is leased, everything is. *)
LEMMA AllLeased ==
  ASSUME NEW S, NEW leased, NEW spotHeld,
         \/ Available(S, leased, spotHeld) = {}
         \/ \E a \in First(Available(S, leased, spotHeld), leased) : a.exporter \in leased
  PROVE  \A b \in S : b.exporter \in leased
BY DEF First, Available, Before

(* The first entry, when it is not leased, has the highest priority of the *)
(* unleased entries that are not under spot access either.                 *)
LEMMA FirstIsBest ==
  ASSUME NEW S, NEW leased, NEW a \in First(S, leased), ~a.spot, a.exporter \notin leased,
         \A b \in S : b.priority \in Int /\ b.spot \in BOOLEAN,
         NEW b \in S, ~b.spot, b.exporter \notin leased
  PROVE  b.priority <= a.priority
<1>1. ~Before(b, a, leased) /\ a \in S
  BY DEF First
<1>2. ~(b.priority > a.priority)
  BY <1>1 DEF Before
<1>3. a.priority \in Int /\ b.priority \in Int
  BY <1>1
<1>. QED BY <1>2, <1>3

(* When the first entry is under spot access, those that are not are all   *)
(* leased.                                                                 *)
LEMMA FirstIsSpot ==
  ASSUME NEW S, NEW leased, NEW a \in First(S, leased), a.spot,
         NEW b \in S, b.spot \in BOOLEAN, ~b.spot
  PROVE  b.exporter \in leased
BY DEF First, Before

(* Every approved entry has an integer priority. *)
LEMMA EntriesTyped ==
  ASSUME TypeOK
  PROVE  \A a \in OnlineApproved : a.priority \in Int /\ a.spot \in BOOLEAN
<1>1. policies \in SUBSET Rule
  BY PolicySetsAssumption DEF TypeOK
<1>. QED BY <1>1, ApprovedType DEF OnlineApproved, Online, ApprovedExporters

(* The sorting, filtering and taking of the head in                        *)
(* reconcileStatusExporterRef pick the unleased, online exporter of the    *)
(* highest priority that is allowed without spot access, a lease is made   *)
(* to wait only when every exporter it may use is leased, and it is ended  *)
(* as invalid or unsatisfiable only for an empty selector, for want of any *)
(* approved exporter, or when those allowed without spot access are all    *)
(* leased, for any set of policies and exporters (DecisionJustified).      *)
THEOREM DecisionAlwaysJustified == Spec => DecisionJustified
<1>. DEFINE Best(e) ==
       \E a \in OnlineApproved :
         /\ a.exporter = e /\ ~a.spot /\ e \notin Leased
         /\ \A b \in OnlineApproved :
              (~b.spot /\ b.exporter \notin Leased) => b.priority <= a.priority
<1>. DEFINE Full == \A a \in OnlineApproved : a.exporter \in Leased
<1>1. ASSUME SafetyInv, NotYetAsked, [Next]_vars, NEW e \in Exporters, Chooses(e)
      PROVE  Best(e)
  <2>1. Searching /\ job'.pc = "decided" /\ job'.obj.status.exporterRef = e
    BY <1>1 DEF Chooses
  <2>2. Decide /\ TypeOK
    BY <1>1, <2>1, JobShape DEF Searching, SafetyInv
  <2>3. e # None
    BY ExportersAssumption, NoneAssumption
  <2>4. ASSUME NEW s \in LeaseStatus, NEW wait, NEW poll, Settle(s, wait, poll)
        PROVE  job'.obj.status.exporterRef = s.exporterRef
    BY <1>1, <2>1, <2>4, SettleRef DEF Searching
  <2>5. AssignExporter
    BY <1>1, <2>1, <2>2, <2>3, OnlyAssignment
  <2>6. ~HeadIsSpot
    BY <2>5 DEF AssignExporter
  <2>7. PICK spotHeld \in SpotHeldChoices :
          \E a \in First(Available(OnlineApproved, Leased, spotHeld), Leased) :
            /\ a.exporter \notin Leased
            /\ Settle([job.obj.status EXCEPT !.exporterRef = a.exporter,
                         !.priority = a.priority, !.spot = a.spot], None, FALSE)
    BY <2>5 DEF AssignExporter
  <2>8. PICK a \in First(Available(OnlineApproved, Leased, spotHeld), Leased) :
          /\ a.exporter \notin Leased
          /\ Settle([job.obj.status EXCEPT !.exporterRef = a.exporter,
                       !.priority = a.priority, !.spot = a.spot], None, FALSE)
    BY <2>7
  <2>. DEFINE s == [job.obj.status EXCEPT !.exporterRef = a.exporter,
                      !.priority = a.priority, !.spot = a.spot]
  <2>9. s \in LeaseStatus
    BY <2>1, <2>2, AssignedType DEF Searching
  <2>10. s.exporterRef = a.exporter
    <3>1. job.obj.status \in LeaseStatus
      BY <2>2 DEF TypeOK, Job, LeaseObject
    <3>. QED BY <3>1 DEF LeaseStatus
  <2>11. a.exporter = e
    BY <2>1, <2>4, <2>8, <2>9, <2>10
  <2>12. a \in First(OnlineApproved, Leased) /\ a \in OnlineApproved
    BY <2>8, FirstOfAll DEF First
  <2>13. ~a.spot
    BY <2>6, <2>12 DEF HeadIsSpot
  <2>14. ASSUME NEW b \in OnlineApproved, ~b.spot, b.exporter \notin Leased
         PROVE  b.priority <= a.priority
    BY <2>2, <2>8, <2>12, <2>13, <2>14, EntriesTyped, FirstIsBest
  <2>. QED BY <2>8, <2>11, <2>12, <2>13, <2>14
<1>2. ASSUME SafetyInv, NotYetAsked, [Next]_vars, Searching, job'.poll
      PROVE  Full
  <2>1. Decide
    BY <1>2, JobMoves DEF Searching, NotYetAsked, NoJob, UpdateStatus, GetLease
  <2>2. AllOffline \/ NotAvailable
    BY <1>2, <2>1, OnlyPolls
  <2>3. CASE AllOffline
    BY <2>3 DEF AllOffline
  <2>4. CASE NotAvailable
    BY <2>4, AllLeased DEF NotAvailable
  <2>. QED BY <2>2, <2>3, <2>4
<1>. DEFINE Reason == \/ job.obj.spec.sel.kind = "empty"
                      \/ ApprovedExporters = {}
                      \/ /\ \E a \in OnlineApproved : a.spot
                         /\ \A a \in OnlineApproved : a.spot \/ a.exporter \in Leased
<1>3. ASSUME SafetyInv, [Next]_vars, Searching, job'.pc = "decided",
             Refused(job'.obj.status)
      PROVE  Reason
  <2>1. Decide /\ TypeOK
    BY <1>3, JobShape DEF Searching, SafetyInv
  <2>2. SelectorEmpty \/ NoAccess \/ SpotAccessOnly
    BY <1>3, <2>1, OnlyRefusals
  <2>3. CASE SelectorEmpty \/ NoAccess
    BY <2>3 DEF SelectorEmpty, NoAccess
  <2>4. CASE SpotAccessOnly
    <3>1. PICK a \in First(OnlineApproved, Leased) : a.spot
      BY <2>4 DEF SpotAccessOnly, HeadIsSpot
    <3>2. a \in OnlineApproved
      BY <3>1 DEF First
    <3>3. ASSUME NEW b \in OnlineApproved, ~b.spot PROVE b.exporter \in Leased
      BY <2>1, <3>1, <3>3, EntriesTyped, FirstIsSpot
    <3>. QED BY <3>1, <3>2, <3>3
  <2>. QED BY <2>2, <2>3, <2>4
<1>. DEFINE J == /\ \A e \in Exporters : Chooses(e) => Best(e)
                 /\ (Searching /\ job'.poll) => Full
                 /\ (Searching /\ job'.pc = "decided" /\ Refused(job'.obj.status))
                       => Reason
<1>4. SafetyInv /\ NotYetAsked /\ [Next]_vars => [J]_vars
  BY <1>1, <1>2, <1>3
<1>. QED BY <1>4, SafetyAlways, NotYetAskedAlways, PTL DEF Spec, DecisionJustified

-----------------------------------------------------------------------------
(* No lease is forgotten *)

(* The clock never goes back. *)
LEMMA TimeForward ==
  ASSUME SafetyInv, [Next]_vars
  PROVE  now \in Nat /\ now' \in Nat /\ now <= now'
<1>1. TypeOK /\ TypeOK'
  BY NextType DEF SafetyInv
<1>2. now' = now \/ now' = now + 1
  <2>1. ASSUME NEW l, NEW c, NEW x, NEW y, NewLease(l, c, x, y) PROVE now' = now
    BY <2>1 DEF NewLease
  <2>2. ASSUME NEW l, NEW c, NEW x, StartPatch(l, c, x) PROVE now' = now
    BY <2>2 DEF StartPatch
  <2>3. CASE ClientCalls
    BY <2>1, <2>2, <2>3
    DEF ClientCalls, RequestLease, CreateLease, UpdateLease, ReleaseLease, ApplyPatch
  <2>4. CASE World
    BY <2>4 DEF World, Tick, Resync, ExporterFlips, DeleteExporter, DeleteClient,
                SetPolicies, CollectLease, DeliverLease, TimerFires
  <2>5. CASE Decide
    BY <2>5, DecideShape DEF Settle, Retry
  <2>6. CASE (\E l \in Leases : GetLease(l)) \/ Write \/ CallFails \/ Restart
    BY <2>6 DEF GetLease, Write, UpdateStatus, WriteConflict, OwnerMissing,
                UpdateMetadata, CallFails, Restart, Retry
  <2>7. CASE UNCHANGED vars
    BY <2>7 DEF vars
  <2>. QED BY <2>3, <2>4, <2>5, <2>6, <2>7 DEF Next, Reconcile
<1>. QED BY <1>1, <1>2 DEF TypeOK

(* A lease that began earlier does not run out later. *)
LEMMA ExpiresOrder ==
  ASSUME NEW spec \in LeaseSpec, NEW b \in Nat, NEW c \in Nat, b <= c
  PROVE  ExpiresAt(spec, b) \in Int /\ ExpiresAt(spec, b) <= ExpiresAt(spec, c)
BY NoneAssumption DEF ExpiresAt, Expiration, Times, ZeroTime, LeaseSpec

(* What reconcileStatusEnded leaves open it has not touched. *)
LEMMA LeftOpen ==
  ASSUME NEW b \in LeaseStatus, NEW spec \in LeaseSpec, now \in Nat,
         ~StatusEnded(spec, b).ended
  PROVE  /\ StatusEnded(spec, b) = b /\ ~b.ended /\ ~Refused(b)
         /\ b.begin # None => Running(spec, b)
<1>1. EndNow(b).ended
  BY EndNowResult
<1>2. ASSUME NEW r \in Reasons PROVE EndNow(SetCondition(b, "Ready", r)).ended
  BY ReadyResult, EndNowResult
<1>. QED BY <1>1, <1>2 DEF StatusEnded, Ends, Running, Reasons

(* A decision that leaves the lease open asks for a requeue. *)
LEMMA SettleWakes ==
  ASSUME SafetyInv, NEW s \in LeaseStatus, NEW wait \in Opt(Nat),
         NEW poll \in BOOLEAN, Raw(s), Settle(s, wait, poll), Settled(s, wait, poll)
  PROVE  AsksAgain(job'.obj, job', now)
<1>. DEFINE b == StatusBeginEndTimes(s)
            f == StatusEnded(job.obj.spec, b)
<1>1. /\ job \in Job /\ job.obj \in LeaseObject /\ job.obj.spec \in LeaseSpec
      /\ now \in Nat
  BY DEF SafetyInv, TypeOK, Job, LeaseObject
<1>2. b \in LeaseStatus
  BY <1>1, BeginType
<1>3. (b.begin # None) = (s.exporterRef # None)
  BY <1>1, BeginResult
<1>4. b.ended = s.ended /\ (Refused(s) => Refused(b))
  BY <1>1, BeginResult
<1>. HIDE DEF b, f
<1>5. /\ job'.obj = [job.obj EXCEPT !.status = f] /\ job'.poll = poll
      /\ job'.after = After(job.obj.spec, b, wait)
  BY <1>1 DEF Settle, Job, f, b
<1>6. job'.obj.status = f /\ job'.obj.spec = job.obj.spec
  BY <1>1, <1>5 DEF LeaseObject
<1>7. SUFFICES ASSUME ~f.ended
               PROVE  \/ poll \/ After(job.obj.spec, b, wait) # None
                      \/ f.begin # None /\ ExpiresAt(job.obj.spec, f.begin) <= now
  BY <1>5, <1>6 DEF AsksAgain
<1>8. f = b /\ ~b.ended /\ ~Refused(b) /\ (b.begin # None => Running(job.obj.spec, b))
  BY <1>1, <1>2, <1>7, LeftOpen DEF f
<1>9. CASE b.begin # None
  <2>1. ExpiresAt(job.obj.spec, b.begin) \in Int
    BY <1>1, <1>2, <1>9, ExpiresType DEF LeaseStatus
  <2>2. After(job.obj.spec, b, wait) = Delay(ExpiresAt(job.obj.spec, b.begin) - now)
    BY <1>8, <1>9 DEF After
  <2>. QED BY <1>1, <1>8, <1>9, <2>1, <2>2, NoneAssumption DEF Delay
<1>10. CASE b.begin = None
  <2>1. After(job.obj.spec, b, wait) = wait
    BY <1>10 DEF After, Running
  <2>2. s.exporterRef = None /\ ~s.ended /\ ~Refused(s)
    BY <1>3, <1>4, <1>8, <1>10
  <2>. QED BY <2>1, <2>2 DEF Settled
<1>. QED BY <1>9, <1>10

(* The request for a requeue outlives the status write. *)
LEMMA JobWakesNext ==
  ASSUME SafetyInv, JobWakes, [Next]_vars
  PROVE  JobWakes'
<1>1. TypeOK /\ TypeOK'
  BY NextType DEF SafetyInv
<1>2. now \in Nat /\ now' \in Nat /\ now <= now'
  BY TimeForward
<1>3. /\ job \in Job /\ job.obj.spec \in LeaseSpec /\ job.obj.status \in LeaseStatus
      /\ job.base \in LeaseObject /\ job.obj \in LeaseObject
  BY <1>1 DEF TypeOK, Job, LeaseObject
<1>4. CASE job' = job
  <2>1. job.obj.status.begin # None => ExpiresAt(job.obj.spec, job.obj.status.begin) \in Int
    BY <1>3, ExpiresType DEF LeaseStatus
  <2>. QED BY <1>2, <1>4, <2>1 DEF JobWakes, AsksAgain
<1>5. CASE job' = NoJob
  BY <1>5 DEF JobWakes, NoJob
<1>6. CASE Decide /\ job'.pc = "decided"
  <2>1. ~Retry
    BY <1>6 DEF Retry, NoJob
  <2>2. PICK s \in LeaseStatus, wait \in Opt(Nat), poll \in BOOLEAN :
          Settle(s, wait, poll) /\ Raw(s) /\ Settled(s, wait, poll)
    BY <1>6, <2>1, DecideShape
  <2>3. AsksAgain(job'.obj, job', now)
    BY <2>2, SettleWakes
  <2>4. now' = now
    BY <2>2 DEF Settle
  <2>. QED BY <2>3, <2>4 DEF JobWakes
<1>7. CASE UpdateStatus
  <2>1. job.pc = "decided" /\ lease[job.lease] = job.base /\ now' = now
    BY <1>7 DEF UpdateStatus, Fresh
  <2>. DEFINE w == [job.base EXCEPT !.status = StoredStatus(job.obj.status)]
  <2>2. job'.obj = w /\ job'.poll = job.poll /\ job'.after = job.after
    BY <1>3, <1>7, <2>1 DEF UpdateStatus, Job
  <2>3. w.status = StoredStatus(job.obj.status) /\ w.spec = job.obj.spec
    <3>1. job.obj = [job.base EXCEPT !.status = job.obj.status]
      BY <2>1 DEF SafetyInv, JobFaithful
    <3>. QED BY <1>3, <3>1 DEF LeaseObject
  <2>. HIDE DEF w
  <2>4. w.status.ended = job.obj.status.ended
        /\ w.status.begin = Whole(job.obj.status.begin)
    BY <1>3, <2>3, StoredResult
  <2>5. AsksAgain(job.obj, job, now)
    BY <2>1 DEF JobWakes
  <2>6. ASSUME job.obj.status.begin # None,
               ExpiresAt(job.obj.spec, job.obj.status.begin) <= now
        PROVE  /\ w.status.begin # None
               /\ ExpiresAt(w.spec, w.status.begin) <= now
    <3>. DEFINE c == job.obj.status.begin
                d == w.status.begin
    <3>1. c \in Nat /\ d \in Nat /\ d <= c /\ d # None
      <4>1. c \in Nat
        BY <1>3, <2>6 DEF LeaseStatus
      <4>2. d = Whole(c) /\ d \in Opt(Nat)
        BY <2>4, <4>1, WholeType
      <4>. QED BY <4>1, <4>2, WholeValue
    <3>. HIDE DEF c, d
    <3>2. /\ ExpiresAt(job.obj.spec, d) \in Int
          /\ ExpiresAt(job.obj.spec, d) <= ExpiresAt(job.obj.spec, c)
      BY <1>3, <3>1, ExpiresOrder
    <3>3. ExpiresAt(job.obj.spec, c) \in Int /\ ExpiresAt(job.obj.spec, c) <= now
      BY <1>3, <2>6, <3>1, ExpiresType DEF c
    <3>4. ExpiresAt(job.obj.spec, d) <= now
      BY <1>2, <3>2, <3>3
    <3>. QED BY <2>3, <3>1, <3>4 DEF d
  <2>7. AsksAgain(job'.obj, job', now')
    BY <2>1, <2>2, <2>4, <2>5, <2>6 DEF AsksAgain
  <2>. QED BY <2>7 DEF JobWakes
<1>8. CASE \E l \in Leases : GetLease(l)
  BY <1>4, <1>8 DEF GetLease, JobWakes, NoJob
<1>. QED BY <1>4, <1>5, <1>6, <1>7, <1>8, JobMoves

(* What a step has to leave of a lease for it to stay attended to. *)
LEMMA StillAttended ==
  ASSUME TypeOK, NEW l \in Leases, Attended(l), now' \in Nat, now <= now',
         l \in queue => l \in queue' \/ l \in events' \/ job'.lease = l,
         l \in events => l \in events' \/ l \in queue',
         job.lease = l => job'.lease = l \/ l \in queue',
         timer[l] # None => timer'[l] # None \/ l \in queue',
         lease'[l] = lease[l] \/ l \in events'
  PROVE  Attended(l)'
<1>1. lease[l].status.begin # None
        => ExpiresAt(lease[l].spec, lease[l].status.begin) \in Int
  BY ExpiresType DEF TypeOK, LeaseObject, LeaseStatus
<1>2. now \in Nat
  BY DEF TypeOK
<1>. QED BY <1>1, <1>2 DEF Attended

(* The metadata write ends the reconcile: the lease has changed, or it is  *)
(* labelled, or the requeue the decision asked for is made.                *)
LEMMA MetadataAttended ==
  ASSUME WakeInv, UpdateMetadata, NEW m \in Leases, m = job.lease
  PROVE  Attended(m)'
<1>1. TypeOK /\ SafetyInv /\ JobWakes
  BY DEF WakeInv, SafetyInv
<1>3. /\ job.pc = "statused" /\ lease[m] = job.base /\ job.obj = job.base
      /\ now' = now
  BY <1>1 DEF UpdateMetadata, Fresh, SafetyInv, JobFaithful
<1>4. PICK o : /\ o = [job.obj EXCEPT !.label = EndedLabel(job.obj),
                         !.owned = @ \/ job.obj.status.exporterRef # None]
               /\ Store(m, o)
  BY DEF UpdateMetadata
<1>5. m \in events' \/ (lease'[m] = lease[m] /\ o = lease[m])
  BY <1>1, <1>4, StoreEvent, StoreSets
<1>6. CASE m \in events'
  BY <1>6 DEF Attended
<1>7. CASE lease'[m] = lease[m] /\ o = lease[m]
  <2>1. o.label = EndedLabel(job.obj)
    BY <1>1, <1>4 DEF TypeOK, Job, LeaseObject
  <2>2. CASE job.obj.status.ended
    <3>1. lease'[m].status.ended /\ lease'[m].label
      BY <1>3, <1>7, <2>1, <2>2 DEF EndedLabel
    <3>. QED BY <3>1 DEF Attended
  <2>3. CASE job.poll
    <3>1. m \in queue'
      BY <2>3 DEF UpdateMetadata
    <3>. QED BY <3>1 DEF Attended
  <2>4. CASE job.after # None
    <3>1. timer' = [timer EXCEPT ![m] = Earlier(@, now + job.after)]
      BY <2>4 DEF UpdateMetadata
    <3>2. now \in Nat /\ timer[m] \in Opt(Nat) /\ job.after \in Nat
      BY <1>1, <2>4 DEF TypeOK, Job
    <3>3. now + job.after \in Nat
      BY <3>2
    <3>4. Earlier(timer[m], now + job.after) # None
      BY <3>2, <3>3, NoneAssumption DEF Earlier
    <3>5. timer'[m] # None
      BY <1>1, <3>1, <3>4 DEF TypeOK
    <3>. QED BY <3>5 DEF Attended
  <2>5. CASE /\ ~job.obj.status.ended /\ job.obj.status.begin # None
             /\ ExpiresAt(job.obj.spec, job.obj.status.begin) <= now
    <3>1. /\ ~lease'[m].status.ended /\ lease'[m].status.begin # None
          /\ ExpiresAt(lease'[m].spec, lease'[m].status.begin) <= now'
      BY <1>3, <1>7, <2>5
    <3>. QED BY <3>1 DEF Attended
  <2>. QED BY <1>1, <1>3, <2>2, <2>3, <2>4, <2>5 DEF JobWakes, AsksAgain
<1>. QED BY <1>5, <1>6, <1>7

(* No step loses a lease out of sight. *)
LEMMA WakeupNext ==
  ASSUME WakeInv, [Next]_vars
  PROVE  NoLostWakeup'
<1>0. /\ TypeOK /\ SafetyInv /\ UnbornBlank /\ NotYetAsked /\ CacheFollows
      /\ NoLostWakeup
  BY DEF WakeInv, SafetyInv
<1>. SUFFICES ASSUME NEW l \in Leases, life'[l] = "live"
              PROVE  Attended(l)'
  BY DEF NoLostWakeup, Live
<1>1. life[l] = "live" => Attended(l)
  BY <1>0 DEF NoLostWakeup, Live
<1>2. now' \in Nat /\ now <= now'
  BY <1>0, TimeForward
<1>3. ASSUME l \in events' \/ l \in queue' PROVE Attended(l)'
  BY <1>3 DEF Attended
<1>4. ASSUME UNCHANGED <<queue, timer, job>>, life[l] = "live",
             events \subseteq events', lease'[l] = lease[l] \/ l \in events'
      PROVE  Attended(l)'
  BY <1>0, <1>1, <1>2, <1>4, StillAttended
<1>5. ASSUME UNCHANGED <<timer, lease, events>>, life[l] = "live",
             queue \subseteq queue', job'.lease = job.lease \/ job.lease \in queue'
      PROVE  Attended(l)'
  BY <1>0, <1>1, <1>2, <1>5, StillAttended
<1>6. CASE ClientCalls
  BY <1>0, <1>3, <1>4, <1>6, ClientCallsQuiet
<1>7. CASE World
  <2>1. ASSUME NEW m \in Leases, CollectLease(m) PROVE Attended(l)'
    <3>1. Store(m, Blank) /\ life[l] = "live" /\ UNCHANGED <<queue, timer, job>>
      BY <1>0, <2>1 DEF CollectLease, TypeOK
    <3>. QED BY <1>0, <1>4, <3>1, StoreEvent
  <2>2. ASSUME NEW m \in Leases, DeliverLease(m) PROVE Attended(l)'
    <3>1. /\ UNCHANGED <<life, lease, timer, job>>
          /\ queue' = queue \cup {m} /\ events' = events \ {m}
      BY <2>2 DEF DeliverLease
    <3>. QED BY <1>0, <1>1, <1>2, <3>1, StillAttended
  <2>3. ASSUME NEW m \in Leases, TimerFires(m) PROVE Attended(l)'
    <3>1. /\ UNCHANGED <<life, lease, events, job>> /\ queue' = queue \cup {m}
          /\ timer' = [timer EXCEPT ![m] = None]
      BY <2>3 DEF TimerFires
    <3>2. timer[l] # None => timer'[l] # None \/ l \in queue'
      BY <1>0, <3>1 DEF TypeOK
    <3>. QED BY <1>0, <1>1, <1>2, <3>1, <3>2, StillAttended
  <2>4. CASE Resync
    BY <1>5, <2>4 DEF Resync
  <2>5. ASSUME \/ Tick
               \/ \E e \in Exporters : ExporterFlips(e) \/ DeleteExporter(e)
               \/ \E c \in Clients : DeleteClient(c)
               \/ \E P \in PolicySets : SetPolicies(P)
        PROVE  Attended(l)'
    <3>1. UNCHANGED <<life, lease, events, queue, timer, job>>
      BY <2>5 DEF Tick, ExporterFlips, DeleteExporter, DeleteClient, SetPolicies
    <3>. QED BY <1>4, <3>1
  <2>. QED BY <1>7, <2>1, <2>2, <2>3, <2>4, <2>5 DEF World
<1>8. CASE Retry
  BY <1>5, <1>8 DEF Retry
<1>9. CASE Decide
  <2>1. ASSUME NEW s, NEW wait, NEW poll, Settle(s, wait, poll) PROVE Attended(l)'
    <3>1. job'.lease = job.lease /\ UNCHANGED <<life, lease, events, queue, timer>>
      BY <1>0, <2>1 DEF Settle, TypeOK, Job
    <3>. QED BY <1>5, <3>1
  <2>. QED BY <1>0, <1>8, <1>9, <2>1, DecideShape
<1>10. CASE Write
  <2>1. CASE UpdateStatus
    <3>1. job.lease \in Leases
      BY <1>0, <2>1 DEF UpdateStatus, TypeOK
    <3>2. PICK o : Store(job.lease, o)
      BY <2>1 DEF UpdateStatus
    <3>3. job'.lease = job.lease /\ UNCHANGED <<life, queue, timer>>
      BY <1>0, <2>1 DEF UpdateStatus, TypeOK, Job
    <3>4. events \subseteq events' /\ (l \in events' \/ lease'[l] = lease[l])
      BY <1>0, <3>1, <3>2, StoreEvent
    <3>. QED BY <1>0, <1>1, <1>2, <3>3, <3>4, StillAttended
  <2>2. CASE UpdateMetadata
    <3>1. PICK m \in Leases : m = job.lease
      BY <1>0, <2>2 DEF UpdateMetadata, TypeOK
    <3>2. CASE l = m
      BY <2>2, <3>1, <3>2, MetadataAttended
    <3>3. CASE l # m
      <4>1. PICK o : Store(m, o)
        BY <2>2, <3>1 DEF UpdateMetadata
      <4>2. events \subseteq events' /\ lease'[l] = lease[l]
        BY <1>0, <3>3, <4>1, StoreEvent, StoreKeeps
      <4>3. life' = life /\ queue \subseteq queue' /\ timer'[l] = timer[l]
        BY <1>0, <2>2, <3>1, <3>3 DEF UpdateMetadata, TypeOK
      <4>. QED BY <1>0, <1>1, <1>2, <3>1, <3>3, <4>2, <4>3, StillAttended
    <3>. QED BY <3>2, <3>3
  <2>. QED BY <1>8, <1>10, <2>1, <2>2 DEF Write, WriteConflict, OwnerMissing
<1>11. ASSUME NEW m \in Leases, GetLease(m) PROVE Attended(l)'
  <2>1. /\ UNCHANGED <<life, lease, events, timer>> /\ queue' = queue \ {m}
        /\ job.pc = "idle"
    BY <1>11 DEF GetLease
  <2>2. job.lease # l
    BY <1>0, <2>1, NamesAssumption DEF NotYetAsked
  <2>3. CASE l = m
    <3>1. CASE l \in Visible
      <4>1. job'.lease = l
        BY <1>11, <2>3, <3>1 DEF GetLease, NoJob
      <4>. QED BY <4>1 DEF Attended
    <3>2. CASE l \notin Visible
      <4>1. l \in events
        BY <1>0, <2>1, <3>2 DEF Visible, CacheFollows, Live
      <4>. QED BY <1>3, <2>1, <4>1
    <3>. QED BY <3>1, <3>2
  <2>4. CASE l # m
    BY <1>0, <1>1, <1>2, <2>1, <2>2, <2>4, StillAttended
  <2>. QED BY <2>3, <2>4
<1>12. CASE Restart
  <2>1. l \in queue'
    BY <1>12 DEF Restart, Live
  <2>. QED BY <1>3, <2>1
<1>13. CASE UNCHANGED vars
  BY <1>4, <1>13 DEF vars
<1>. QED
  BY <1>6, <1>7, <1>8, <1>9, <1>10, <1>11, <1>12, <1>13
  DEF Next, Reconcile, CallFails

(* Through old copies, conflicts, failed calls, retries and restarts,      *)
(* every lease that is not ended and labelled is queued, being reconciled, *)
(* announced by an event or waiting for a timer, or has reached its        *)
(* expiration: no path through Reconcile returns without one of them       *)
(* (NoLostWakeup).                                                         *)
THEOREM NeverLosesWakeup == Spec => []NoLostWakeup
<1>1. Init => JobWakes /\ NoLostWakeup
  BY DEF Init, JobWakes, NoLostWakeup, Live, NoJob
<1>2. BookingInv /\ NotYetAsked /\ JobWakes /\ NoLostWakeup /\ [Next]_vars
        => JobWakes' /\ NoLostWakeup'
  BY JobWakesNext, WakeupNext DEF WakeInv, BookingInv
<1>. QED BY <1>1, <1>2, BookingAlways, NotYetAskedAlways, PTL DEF Spec

-----------------------------------------------------------------------------
(* The window of a lease *)

(* The window cut to whole seconds is as long, but for less than a second. *)
LEMMA WholeNear ==
  ASSUME NEW t \in Int, NEW u \in Int
  PROVE  /\ u - t < Whole(u) - Whole(t) + Second
         /\ Whole(u) - Whole(t) < u - t + Second
<1>1. PICK q \in 0..(Second - 1) : q = t % Second
  BY RemainderRange
<1>2. PICK r \in 0..(Second - 1) : r = u % Second
  BY RemainderRange
<1>3. Whole(t) = t - q /\ Whole(u) = u - r
  BY <1>1, <1>2, WholeValue
<1>. QED BY <1>3, SecondAssumption

(* ReconcileLeaseTimeFields leaves a duration that agrees with the window. *)
LEMMA CompleteAgrees ==
  ASSUME NEW t \in TimeFields
  PROVE  LET c == CompleteTimeFields(t)
         IN  (c.begin # None /\ c.end # None /\ c.dur # None) =>
               c.begin \in Int /\ c.end \in Int /\ c.dur = c.end - c.begin
<1>. DEFINE c == CompleteTimeFields(t)
<1>1. t.begin \in Opt(Int) /\ t.end \in Opt(Int) /\ t.dur \in Opt(Int)
  BY DEF TimeFields
<1>2. CASE t.begin # None /\ t.end # None
  <2>1. c.begin = t.begin /\ c.end = t.end /\ c.dur = t.end - t.begin
    BY <1>2 DEF CompleteTimeFields, TimeFields
  <2>. QED BY <1>1, <1>2, <2>1 DEF Opt
<1>3. CASE t.begin = None /\ t.end # None /\ Positive(t.dur)
  <2>1. t.end \in Int /\ t.dur \in Int
    BY <1>1, <1>3 DEF Positive, Opt
  <2>2. c.begin = t.end - t.dur /\ c.end = t.end /\ c.dur = t.dur
    BY <1>3 DEF CompleteTimeFields, TimeFields
  <2>. QED BY <2>1, <2>2
<1>4. CASE /\ ~(t.begin # None /\ t.end # None)
           /\ ~(t.begin = None /\ t.end # None /\ Positive(t.dur))
  <2>1. c = t
    BY <1>4 DEF CompleteTimeFields
  <2>. QED BY <1>4, <2>1
<1>. QED BY <1>2, <1>3, <1>4

(* What UpdateLease and CreateLease store of the window they computed. *)
LEMMA StoredWindow ==
  ASSUME NEW t \in TimeFields
  PROVE  LET c == CompleteTimeFields(t)
         IN  WindowNear([begin |-> Whole(c.begin), end |-> Whole(c.end), dur |-> c.dur])
<1>. DEFINE c == CompleteTimeFields(t)
            w == [begin |-> Whole(c.begin), end |-> Whole(c.end), dur |-> c.dur]
<1>1. (c.begin # None /\ c.end # None /\ c.dur # None) =>
        c.begin \in Int /\ c.end \in Int /\ c.dur = c.end - c.begin
  BY CompleteAgrees
<1>. HIDE DEF c
<1>2. /\ c.begin = None => w.begin = None
      /\ c.end = None => w.end = None
      /\ w.begin = Whole(c.begin) /\ w.end = Whole(c.end) /\ w.dur = c.dur
  BY DEF Whole
<1>. HIDE DEF w
<1>3. ASSUME c.begin # None /\ c.end # None /\ c.dur # None PROVE WindowNear(w)
  <2>1. c.begin \in Int /\ c.end \in Int /\ c.dur = c.end - c.begin
    BY <1>1, <1>3
  <2>2. /\ c.end - c.begin < Whole(c.end) - Whole(c.begin) + Second
        /\ Whole(c.end) - Whole(c.begin) < c.end - c.begin + Second
    BY <2>1, WholeNear
  <2>. QED BY <1>2, <2>1, <2>2 DEF WindowNear
<1>4. ASSUME ~(c.begin # None /\ c.end # None /\ c.dur # None) PROVE WindowNear(w)
  BY <1>2, <1>4 DEF WindowNear
<1>5. WindowNear(w)
  BY <1>3, <1>4
<1>. QED BY <1>5 DEF w, c

(* The only RPC that sends time fields sends a window that agrees. *)
LEMMA SentNext ==
  ASSUME SafetyInv, WindowsSent, [Next]_vars
  PROVE  WindowsSent'
<1>1. TypeOK
  BY DEF SafetyInv
<1>2. ASSUME patches' \subseteq patches PROVE WindowsSent'
  BY <1>2 DEF WindowsSent
<1>3. ASSUME NEW l \in Leases, NEW c, NEW new, StartPatch(l, c, new),
             Times(new) = Times(lease[l].spec) \/ WindowNear(Times(new))
      PROVE  WindowsSent'
  <2>1. patches' = patches \cup {[lease |-> l, old |-> lease[l].spec, new |-> new]}
    BY <1>3 DEF StartPatch
  <2>. QED BY <1>3, <2>1 DEF WindowsSent
<1>4. ASSUME NEW l \in Leases, NEW c \in Clients, NEW ask \in Asks,
             NEW target \in Opt(Clients), UpdateLease(l, c, ask, target)
      PROVE  WindowsSent'
  <2>. DEFINE spec == lease[l].spec
              merged == MergedTimes(spec, ask)
              final == CompleteTimeFields(merged)
              owner == IF target # None THEN target ELSE c
              new == [spec EXCEPT !.begin = Whole(final.begin), !.end = Whole(final.end),
                                  !.dur = final.dur, !.client = owner]
  <2>1. spec \in LeaseSpec /\ merged \in TimeFields
    BY <1>1, TimesAssumption, MergedType DEF TypeOK, LeaseObject
  <2>2. WindowNear([begin |-> Whole(final.begin), end |-> Whole(final.end),
                    dur |-> final.dur])
    BY <2>1, StoredWindow
  <2>3. StartPatch(l, c, new)
    BY <1>4 DEF UpdateLease
  <2>. HIDE DEF final, owner
  <2>4. Times(new) = [begin |-> Whole(final.begin), end |-> Whole(final.end),
                      dur |-> final.dur]
    BY <2>1 DEF Times, LeaseSpec
  <2>. HIDE DEF new
  <2>. QED BY <1>3, <2>2, <2>3, <2>4
<1>5. ASSUME NEW l \in Leases, NEW c \in Clients, ReleaseLease(l, c)
      PROVE  WindowsSent'
  <2>. DEFINE new == [lease[l].spec EXCEPT !.release = TRUE]
  <2>1. lease[l].spec \in LeaseSpec
    BY <1>1 DEF TypeOK, LeaseObject
  <2>2. Times(new) = Times(lease[l].spec)
    BY <2>1 DEF LeaseSpec, Times
  <2>3. StartPatch(l, c, new)
    BY <1>5 DEF ReleaseLease
  <2>. HIDE DEF new
  <2>. QED BY <1>3, <2>2, <2>3
<1>6. CASE ClientCalls
  <2>1. ASSUME NEW l, NEW c, NEW x, NEW y, NewLease(l, c, x, y) PROVE WindowsSent'
    BY <1>2, <2>1 DEF NewLease
  <2>2. ASSUME NEW p, ApplyPatch(p) PROVE WindowsSent'
    BY <1>2, <2>2 DEF ApplyPatch
  <2>. QED BY <1>4, <1>5, <1>6, <2>1, <2>2 DEF ClientCalls, RequestLease, CreateLease
<1>7. CASE World
  BY <1>2, <1>7
  DEF World, Tick, Resync, ExporterFlips, DeleteExporter, DeleteClient,
      SetPolicies, DeliverLease, TimerFires, CollectLease
<1>8. CASE Decide
  BY <1>1, <1>2, <1>8, DecideShape DEF Settle, Retry
<1>9. CASE Write
  BY <1>2, <1>9 DEF Write, UpdateStatus, UpdateMetadata, WriteConflict, OwnerMissing, Retry
<1>10. CASE (\E l \in Leases : GetLease(l)) \/ CallFails \/ Restart \/ UNCHANGED vars
  BY <1>2, <1>10 DEF GetLease, CallFails, Restart, Retry, vars
<1>. QED BY <1>6, <1>7, <1>8, <1>9, <1>10 DEF Next, Reconcile

(* What a step may do to the time fields of a lease. *)
Follows(l) ==
  \/ Times(lease'[l].spec) = Times(lease[l].spec)
  \/ WindowNear(Times(lease'[l].spec))
  \/ \E p \in patches \ patches' : p.lease = l /\ Times(p.old) # Times(lease[l].spec)

(* Creation computes a window of its own. *)
LEMMA NewLeaseFollows ==
  ASSUME TypeOK, NEW l \in Leases, NEW m \in Leases, NEW c, NEW sel, NEW t,
         NewLease(m, c, sel, t),
         WindowNear([begin |-> Whole(t.begin), end |-> Whole(t.end), dur |-> t.dur])
  PROVE  Follows(l)
<1>1. PICK o : /\ Store(m, o)
               /\ Times(o.spec) = [begin |-> Whole(t.begin), end |-> Whole(t.end), dur |-> t.dur]
  BY DEF NewLease, Times
<1>2. lease'[m] = o /\ (l # m => lease'[l] = lease[l])
  BY <1>1, StoreSets, StoreKeeps
<1>. QED BY <1>1, <1>2 DEF Follows

(* A patch made from the time fields that are stored has its own effect. *)
LEMMA ApplyPatchFollows ==
  ASSUME TypeOK, WindowsSent, NEW p \in patches, ApplyPatch(p), NEW l \in Leases
  PROVE  Follows(l)
<1>1. p \in Patch /\ p.lease \in Leases
  BY DEF TypeOK, Patch
<1>2. CASE p.lease \in Live /\ l = p.lease
  <2>1. PICK o : o = [lease[l] EXCEPT !.spec = MergePatch(p, @)] /\ Store(l, o)
    BY <1>2 DEF ApplyPatch
  <2>2. lease'[l].spec = MergePatch(p, lease[l].spec)
    BY <2>1, StoreSets DEF TypeOK, LeaseObject
  <2>3. CASE Times(p.old) # Times(lease[l].spec)
    BY <1>2, <2>3 DEF Follows, ApplyPatch
  <2>4. CASE Times(p.old) = Times(lease[l].spec)
    <3>1. /\ p.old.begin = lease[l].spec.begin /\ p.old.end = lease[l].spec.end
          /\ p.old.dur = lease[l].spec.dur
      BY <2>4 DEF Times
    <3>2. Times(lease'[l].spec) = Times(p.new)
      BY <2>2, <3>1 DEF MergePatch, Field, Times
    <3>. QED BY <2>4, <3>2 DEF WindowsSent, Follows
  <2>. QED BY <2>3, <2>4
<1>3. CASE ~(p.lease \in Live /\ l = p.lease)
  <2>1. lease'[l] = lease[l]
    BY <1>1, <1>3, StoreKeeps DEF ApplyPatch
  <2>. QED BY <2>1 DEF Follows
<1>. QED BY <1>2, <1>3

(* No reconcile and nothing around the controller edits time fields. *)
LEMMA StepFollows ==
  ASSUME SafetyInv, WindowsSent, [Next]_vars, NEW l \in Leases
  PROVE  Follows(l)
<1>1. TypeOK
  BY DEF SafetyInv
<1>2. ASSUME lease'[l] = lease[l] PROVE Follows(l)
  BY <1>2 DEF Follows
<1>3. CASE ClientCalls
  <2>1. ASSUME NEW m \in Leases, NEW c \in Clients, NEW sel \in Selectors,
               NEW d \in LegacyDurations, RequestLease(m, c, sel, d)
        PROVE  Follows(l)
    <3>. DEFINE t == [begin |-> None, end |-> None, dur |-> d]
    <3>1. WindowNear([begin |-> Whole(t.begin), end |-> Whole(t.end), dur |-> t.dur])
      BY DEF WindowNear, Whole
    <3>2. NewLease(m, c, sel, t)
      BY <2>1 DEF RequestLease
    <3>. HIDE DEF t
    <3>. QED BY <1>1, <3>1, <3>2, NewLeaseFollows
  <2>2. ASSUME NEW m \in Leases, NEW c \in Clients, NEW sel \in Selectors,
               NEW ask \in Asks, CreateLease(m, c, sel, ask)
        PROVE  Follows(l)
    <3>. DEFINE t == CompleteTimeFields(ask)
    <3>1. WindowNear([begin |-> Whole(t.begin), end |-> Whole(t.end), dur |-> t.dur])
      BY TimesAssumption, StoredWindow
    <3>2. NewLease(m, c, sel, t)
      BY <2>2 DEF CreateLease
    <3>. HIDE DEF t
    <3>. QED BY <1>1, <3>1, <3>2, NewLeaseFollows
  <2>3. ASSUME NEW m, NEW c, NEW new, StartPatch(m, c, new) PROVE Follows(l)
    BY <1>2, <2>3 DEF StartPatch
  <2>4. ASSUME NEW p \in patches, ApplyPatch(p) PROVE Follows(l)
    BY <1>1, <2>4, ApplyPatchFollows
  <2>. QED BY <1>3, <2>1, <2>2, <2>3, <2>4 DEF ClientCalls, UpdateLease, ReleaseLease
<1>4. CASE World
  <2>1. ASSUME NEW m \in Leases, CollectLease(m) PROVE Follows(l)
    <3>1. l # m => lease'[l] = lease[l]
      BY <1>1, <2>1, StoreKeeps DEF CollectLease
    <3>2. l = m => lease'[l] = Blank
      BY <1>1, <2>1, StoreSets DEF CollectLease
    <3>3. WindowNear(Times(Blank.spec))
      BY DEF Blank, Times, WindowNear
    <3>. QED BY <1>2, <3>1, <3>2, <3>3 DEF Follows
  <2>. QED
    BY <1>2, <1>4, <2>1
    DEF World, Tick, Resync, ExporterFlips, DeleteExporter, DeleteClient,
        SetPolicies, DeliverLease, TimerFires
<1>5. CASE Write
  <2>1. CASE UpdateStatus \/ UpdateMetadata
    <3>1. PICK m \in Leases : m = job.lease
      BY <1>1, <2>1 DEF UpdateStatus, UpdateMetadata, TypeOK
    <3>2. job.obj \in LeaseObject /\ lease[m] \in LeaseObject
      BY <1>1 DEF TypeOK, Job
    <3>3. PICK o : Store(m, o) /\ o.spec = lease[m].spec
      <4>1. CASE UpdateStatus
        <5>1. PICK o : /\ o = [lease[m] EXCEPT !.status = StoredStatus(job.obj.status)]
                       /\ Store(m, o)
          BY <3>1, <4>1 DEF UpdateStatus
        <5>. QED BY <3>2, <5>1 DEF LeaseObject
      <4>2. CASE UpdateMetadata
        <5>1. PICK o : /\ o = [job.obj EXCEPT !.label = EndedLabel(job.obj),
                                 !.owned = @ \/ job.obj.status.exporterRef # None]
                       /\ Store(m, o)
          BY <3>1, <4>2 DEF UpdateMetadata
        <5>2. job.obj = lease[m]
          BY <3>1, <4>2 DEF UpdateMetadata, Fresh, SafetyInv, JobFaithful
        <5>3. o.spec = job.obj.spec
          BY <3>2, <5>1 DEF LeaseObject
        <5>. QED BY <5>1, <5>2, <5>3
      <4>. QED BY <2>1, <4>1, <4>2
    <3>4. lease'[m] = o /\ (l # m => lease'[l] = lease[l])
      BY <1>1, <3>3, StoreSets, StoreKeeps
    <3>. QED BY <3>3, <3>4 DEF Follows
  <2>2. CASE WriteConflict \/ OwnerMissing
    BY <1>2, <2>2 DEF WriteConflict, OwnerMissing, Retry
  <2>. QED BY <1>5, <2>1, <2>2 DEF Write
<1>6. CASE Decide
  BY <1>1, <1>2, <1>6, DecideShape DEF Settle, Retry
<1>7. CASE (\E m \in Leases : GetLease(m)) \/ CallFails \/ Restart \/ UNCHANGED vars
  BY <1>2, <1>7 DEF GetLease, CallFails, Restart, Retry, vars
<1>. QED BY <1>3, <1>4, <1>5, <1>6, <1>7 DEF Next, Reconcile

(* Whatever is asked for and however many updates overlap, a step that     *)
(* changes the time fields of a lease leaves a duration within a second of *)
(* the window, unless it applies an update that has read other time fields *)
(* than those it meets (WindowFollows): ReconcileLeaseTimeFields on the    *)
(* request and on the merged fields, and the cut to whole seconds.         *)
THEOREM WindowAlwaysFollows == Spec => WindowFollows
<1>1. Init => WindowInv
  <2>1. Init => WindowsSent
    BY DEF Init, WindowsSent
  <2>. QED BY <2>1, SafetyInit DEF WindowInv
<1>2. WindowInv /\ [Next]_vars => WindowInv'
  BY SafetyNext, SentNext DEF WindowInv
<1>3. WindowInv /\ [Next]_vars => \A l \in Leases : Follows(l)
  BY StepFollows DEF WindowInv
<1>4. WindowInv /\ [Next]_vars =>
        [\A l \in Leases :
           \/ Times(lease'[l].spec) = Times(lease[l].spec)
           \/ WindowNear(Times(lease'[l].spec))
           \/ \E p \in patches \ patches' :
                p.lease = l /\ Times(p.old) # Times(lease[l].spec)]_vars
  BY <1>3 DEF Follows
<1>. QED BY <1>1, <1>2, <1>4, PTL DEF Spec, WindowFollows

-----------------------------------------------------------------------------
(* Selectors *)

(* It is enough to look at what a step changes. *)
LEMMA SelectionFrame ==
  ASSUME SelectionInv, [Next]_vars,
         \A l \in Leases : lease'[l] = lease[l] \/ Selected(lease'[l]),
         \A l \in Leases : cache'[l] = cache[l] \/ Selected(cache'[l]),
         job' = job \/ (Selected(job'.base) /\ Selected(job'.obj)),
         \A p \in patches' : p \in patches \/ p.old.sel = p.new.sel
  PROVE  SelectionInv'
<1>1. SafetyInv'
  BY SafetyNext DEF SelectionInv
<1>. QED BY <1>1 DEF SelectionInv

(* A lease without content has no exporter. *)
LEMMA BlankSelected == Selected(Blank) /\ NoJob.base = Blank /\ NoJob.obj = Blank
BY DEF Selected, Blank, NoStatus, NoJob

(* The exporter that a decision gives is one that was listed. *)
LEMMA DecisionSelected ==
  ASSUME SelectionInv, Decide, job'.pc = "decided"
  PROVE  Selected(job'.base) /\ Selected(job'.obj)
<1>1. SafetyInv /\ TypeOK /\ Selected(job.base) /\ Selected(job.obj)
  BY DEF SelectionInv, SafetyInv
<1>2. /\ job.obj \in LeaseObject /\ job.obj.status \in LeaseStatus /\ job \in Job
  BY <1>1 DEF TypeOK, Job, LeaseObject
<1>3. PICK s \in LeaseStatus : \E wait, poll :
        /\ Settle(s, wait, poll)
        /\ job.obj.status.ended => s = job.obj.status
        /\ job.obj.status.exporterRef # None => s = job.obj.status
  BY <1>1, DecideShape DEF Retry, NoJob
<1>4. job'.obj.status.exporterRef = s.exporterRef
  BY <1>1, <1>3, SettleRef
<1>5. job'.base = job.base /\ job'.obj.spec = job.obj.spec
  BY <1>2, <1>3 DEF Settle, Job, LeaseObject
<1>6. CASE s.exporterRef = job.obj.status.exporterRef
  BY <1>1, <1>4, <1>5, <1>6 DEF Selected
<1>7. CASE s.exporterRef # job.obj.status.exporterRef
  <2>1. Searching /\ s.exporterRef # None
    BY <1>1, <1>3, <1>7, DecideShape DEF Searching
  <2>2. AssignExporter
    BY <1>1, <1>4, <2>1, OnlyAssignment
  <2>3. PICK a \in OnlineApproved : \E wait, poll :
          Settle([job.obj.status EXCEPT !.exporterRef = a.exporter,
                    !.priority = a.priority, !.spot = a.spot], wait, poll)
    BY <2>2 DEF AssignExporter, First, Available
  <2>4. a.exporter \in job.obj.spec.sel.match
    <3>1. a \in ApprovedExporters
      BY DEF OnlineApproved, Online
    <3>2. \A x, y, z, w : \A b \in Approved(x, y, z, w) : b.exporter \in x
      BY DEF Approved
    <3>. QED BY <3>1, <3>2 DEF ApprovedExporters, Matching
  <2>5. job'.obj.status.exporterRef = a.exporter
    <3>. DEFINE t == [job.obj.status EXCEPT !.exporterRef = a.exporter,
                        !.priority = a.priority, !.spot = a.spot]
    <3>1. a.exporter \in Exporters /\ a.priority \in Int /\ a.spot \in BOOLEAN
      BY <1>1, EntriesTyped DEF OnlineApproved, Online
    <3>2. t \in LeaseStatus /\ t.exporterRef = a.exporter
      BY <1>2, <3>1 DEF LeaseStatus
    <3>. QED BY <1>1, <2>3, <3>2, SettleRef
  <2>. QED BY <1>1, <1>5, <2>4, <2>5 DEF Selected
<1>. QED BY <1>6, <1>7

(* The steps of RPCs keep the selectors. *)
LEMMA ClientCallsSelection ==
  ASSUME SelectionInv, ClientCalls
  PROVE  SelectionInv'
<1>1. TypeOK /\ [Next]_vars
  BY DEF SelectionInv, SafetyInv, Next
<1>2. ASSUME NEW l \in Leases, NEW c, NEW x, NEW y, NewLease(l, c, x, y)
      PROVE  SelectionInv'
  <2>1. PICK o : Store(l, o) /\ o.status = NoStatus
    BY <1>2 DEF NewLease
  <2>2. \A m \in Leases : lease'[m] = lease[m] \/ Selected(lease'[m])
    BY <1>1, <2>1, StoreSets, StoreKeeps DEF Selected, NoStatus
  <2>3. UNCHANGED <<cache, job, patches>>
    BY <1>2 DEF NewLease
  <2>. QED BY <1>1, <2>2, <2>3, SelectionFrame
<1>3. ASSUME NEW l \in Leases, NEW c, NEW new, StartPatch(l, c, new),
             new.sel = lease[l].spec.sel
      PROVE  SelectionInv'
  <2>1. /\ UNCHANGED <<lease, cache, job>>
        /\ patches' = patches \cup {[lease |-> l, old |-> lease[l].spec, new |-> new]}
    BY <1>3 DEF StartPatch
  <2>. QED BY <1>1, <1>3, <2>1, SelectionFrame
<1>4. ASSUME NEW l \in Leases PROVE lease[l].spec \in LeaseSpec
  BY <1>1 DEF TypeOK, LeaseObject
<1>5. ASSUME NEW l \in Leases, NEW c, NEW ask, NEW target, UpdateLease(l, c, ask, target)
      PROVE  SelectionInv'
  <2>1. PICK b, e, d, o : StartPatch(l, c, [lease[l].spec EXCEPT
          !.begin = b, !.end = e, !.dur = d, !.client = o])
    BY <1>5 DEF UpdateLease
  <2>2. [lease[l].spec EXCEPT !.begin = b, !.end = e, !.dur = d, !.client = o].sel
          = lease[l].spec.sel
    BY <1>4 DEF LeaseSpec
  <2>. QED BY <1>3, <2>1, <2>2
<1>6. ASSUME NEW l \in Leases, NEW c, ReleaseLease(l, c)
      PROVE  SelectionInv'
  <2>1. [lease[l].spec EXCEPT !.release = TRUE].sel = lease[l].spec.sel
    BY <1>4 DEF LeaseSpec
  <2>. QED BY <1>3, <1>6, <2>1 DEF ReleaseLease
<1>7. ASSUME NEW p \in patches, ApplyPatch(p)
      PROVE  SelectionInv'
  <2>1. p.lease \in Leases /\ UNCHANGED <<cache, job>> /\ patches' \subseteq patches
    BY <1>1, <1>7 DEF ApplyPatch, TypeOK, Patch
  <2>2. ASSUME p.lease \in Live
        PROVE  \A m \in Leases : lease'[m] = lease[m] \/ Selected(lease'[m])
    <3>1. PICK o : o = [lease[p.lease] EXCEPT !.spec = MergePatch(p, @)] /\ Store(p.lease, o)
      BY <1>7, <2>2 DEF ApplyPatch
    <3>2. /\ o.status = lease[p.lease].status
          /\ o.spec = MergePatch(p, lease[p.lease].spec)
      BY <1>1, <2>1, <3>1 DEF TypeOK, LeaseObject
    <3>3. o.spec.sel = lease[p.lease].spec.sel
      BY <3>2 DEF MergePatch, Field, SelectionInv
    <3>4. Selected(o)
      BY <2>1, <3>2, <3>3 DEF SelectionInv, Selected
    <3>. QED BY <1>1, <2>1, <3>1, <3>4, StoreSets, StoreKeeps
  <2>3. p.lease \notin Live => lease' = lease
    BY <1>7 DEF ApplyPatch
  <2>. QED BY <1>1, <2>1, <2>2, <2>3, SelectionFrame
<1>. QED
  BY <1>2, <1>5, <1>6, <1>7 DEF ClientCalls, RequestLease, CreateLease

(* The writes of a reconcile keep the selectors. *)
LEMMA WriteSelection ==
  ASSUME SelectionInv, Write
  PROVE  SelectionInv'
<1>1. TypeOK /\ [Next]_vars /\ SafetyInv /\ Selected(job.base) /\ Selected(job.obj)
  BY DEF SelectionInv, SafetyInv, Next, Reconcile
<1>2. CASE WriteConflict \/ OwnerMissing
  <2>1. UNCHANGED <<lease, cache, patches>> /\ job' = NoJob
    BY <1>2 DEF WriteConflict, OwnerMissing, Retry
  <2>. QED BY <1>1, <2>1, SelectionFrame, BlankSelected
<1>3. job.pc # "idle" => job.lease \in Leases
  BY <1>1 DEF TypeOK
<1>4. job \in Job /\ job.obj \in LeaseObject /\ job.base \in LeaseObject
      /\ job.obj.status \in LeaseStatus
  BY <1>1 DEF TypeOK, Job, LeaseObject
<1>5. CASE UpdateStatus
  <2>1. PICK l \in Leases : l = job.lease
    BY <1>3, <1>5 DEF UpdateStatus
  <2>2. job.pc = "decided" /\ lease[l] = job.base
    BY <1>5, <2>1 DEF UpdateStatus, Fresh
  <2>3. PICK o : /\ o = [job.base EXCEPT !.status = StoredStatus(job.obj.status)]
                 /\ Store(l, o) /\ job' = [job EXCEPT !.pc = "statused", !.base = o, !.obj = o]
    BY <1>5, <2>1, <2>2 DEF UpdateStatus
  <2>4. job.obj.spec = job.base.spec
    BY <1>1, <1>4, <2>2 DEF SafetyInv, JobFaithful, LeaseObject
  <2>5. o.spec = job.obj.spec /\ o.status = StoredStatus(job.obj.status)
    BY <1>4, <2>3, <2>4 DEF LeaseObject
  <2>6. o.status.exporterRef = job.obj.status.exporterRef
    BY <1>4, <2>5, StoredResult
  <2>7. Selected(o)
    BY <1>1, <2>5, <2>6 DEF Selected
  <2>8. \A m \in Leases : lease'[m] = lease[m] \/ Selected(lease'[m])
    BY <1>1, <2>3, <2>7, StoreSets, StoreKeeps
  <2>9. job'.base = o /\ job'.obj = o
    BY <1>4, <2>3 DEF Job
  <2>10. UNCHANGED <<cache, patches>>
    BY <1>5 DEF UpdateStatus
  <2>. QED BY <1>1, <2>7, <2>8, <2>9, <2>10, SelectionFrame
<1>6. CASE UpdateMetadata
  <2>1. PICK l \in Leases : l = job.lease
    BY <1>3, <1>6 DEF UpdateMetadata
  <2>2. PICK o : /\ o = [job.obj EXCEPT !.label = EndedLabel(job.obj),
                           !.owned = @ \/ job.obj.status.exporterRef # None]
                 /\ Store(l, o)
    BY <1>6, <2>1 DEF UpdateMetadata
  <2>3. Selected(o)
    BY <1>1, <1>4, <2>2 DEF Selected, LeaseObject
  <2>4. \A m \in Leases : lease'[m] = lease[m] \/ Selected(lease'[m])
    BY <1>1, <2>2, <2>3, StoreSets, StoreKeeps
  <2>5. UNCHANGED <<cache, patches>> /\ job' = NoJob
    BY <1>6 DEF UpdateMetadata
  <2>. QED BY <1>1, <2>4, <2>5, SelectionFrame, BlankSelected
<1>. QED BY <1>2, <1>5, <1>6 DEF Write

(* Every copy of a lease that has an exporter has one its selector matches. *)
LEMMA SelectionAlways == Spec => []SelectionInv
<1>1. Init => SelectionInv
  BY SafetyInit, BlankSelected DEF Init, SelectionInv
<1>2. SelectionInv /\ [Next]_vars => SelectionInv'
  <2>. SUFFICES ASSUME SelectionInv, [Next]_vars PROVE SelectionInv'
    OBVIOUS
  <2>0. TypeOK /\ SafetyInv /\ \A l \in Leases : Selected(lease[l]) /\ Selected(cache[l])
    BY DEF SelectionInv, SafetyInv
  <2>1. ASSUME UNCHANGED <<lease, cache>>, patches' = patches \/ patches' = {},
               job' = job \/ job' = NoJob
        PROVE  SelectionInv'
    BY <2>1, SelectionFrame, BlankSelected
  <2>2. CASE World
    <3>1. ASSUME NEW l \in Leases, CollectLease(l) PROVE SelectionInv'
      <4>1. Store(l, Blank) /\ UNCHANGED <<cache, job, patches>>
        BY <3>1 DEF CollectLease
      <4>2. \A m \in Leases : lease'[m] = lease[m] \/ Selected(lease'[m])
        BY <2>0, <4>1, StoreSets, StoreKeeps, BlankSelected
      <4>. QED BY <4>1, <4>2, SelectionFrame
    <3>2. ASSUME NEW l \in Leases, DeliverLease(l) PROVE SelectionInv'
      <4>1. UNCHANGED <<lease, job, patches>>
        BY <3>2 DEF DeliverLease
      <4>2. cache' = cache \/ cache' = [cache EXCEPT ![l] = lease[l]]
        BY <3>2 DEF DeliverLease
      <4>3. \A m \in Leases : cache'[m] = cache[m] \/ Selected(cache'[m])
        BY <2>0, <4>2 DEF TypeOK
      <4>. QED BY <4>1, <4>3, SelectionFrame
    <3>. QED
      BY <2>1, <2>2, <3>1, <3>2
      DEF World, Tick, Resync, ExporterFlips, DeleteExporter, DeleteClient,
          SetPolicies, TimerFires
  <2>3. ASSUME NEW l \in Leases, GetLease(l) PROVE SelectionInv'
    <3>1. UNCHANGED <<lease, cache, patches>>
      BY <2>3 DEF GetLease
    <3>2. Selected(Seen(l))
      BY <2>0 DEF Seen
    <3>3. job' = job \/ (job'.base = Seen(l) /\ job'.obj = Seen(l))
      BY <2>3 DEF GetLease, NoJob
    <3>. QED BY <3>1, <3>2, <3>3, SelectionFrame
  <2>4. CASE Decide
    <3>1. UNCHANGED <<lease, cache, patches>>
      BY <2>0, <2>4, DecideShape DEF Settle, Retry
    <3>2. job' = NoJob \/ job'.pc = "decided"
      BY <2>0, <2>4, DecideShape DEF Settle, Retry, TypeOK, Job
    <3>. QED BY <2>1, <2>4, <3>1, <3>2, DecisionSelected, SelectionFrame
  <2>5. CASE CallFails
    BY <2>1, <2>5 DEF CallFails, Retry
  <2>6. CASE Restart
    <3>1. lease' = lease /\ job' = NoJob /\ patches' = {} /\ (cache' = lease \/ cache' = cache)
      BY <2>6 DEF Restart
    <3>. QED BY <2>0, <3>1, SelectionFrame, BlankSelected
  <2>7. CASE UNCHANGED vars
    BY <2>1, <2>7 DEF vars
  <2>. QED
    BY <2>2, <2>3, <2>4, <2>5, <2>6, <2>7, ClientCallsSelection, WriteSelection
    DEF Next, Reconcile
<1>. QED BY <1>1, <1>2, PTL DEF Spec
=============================================================================
