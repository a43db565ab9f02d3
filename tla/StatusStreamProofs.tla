-------------------------- MODULE StatusStreamProofs --------------------------
(***************************************************************************)
(* Proofs about StatusStream for every value of its constants: any number  *)
(* of leases and clients, of events on their way and of changes.           *)
(***************************************************************************)
EXTENDS StatusStream, TLAPS

-----------------------------------------------------------------------------
(* What the steps are made of *)

(* The values of lastSeen that are stored. *)
LEMMA NextSeen ==
  ASSUME NEW v \in {Never} \cup Stored
  PROVE  (v % (MaxEvents + 3)) + 1 \in Stored
<1>1. v \in Nat /\ MaxEvents + 3 \in Nat /\ MaxEvents + 3 > 0
  BY StreamBounds DEF Never, Stored
<1>2. PICK n \in Nat : n = MaxEvents + 3 /\ n > 0
  BY <1>1
<1>3. v % n \in Nat /\ v % n < n
  BY <1>1, <1>2
<1>4. (v % n) + 1 \in 1..n
  BY <1>3
<1>. QED BY <1>2, <1>4 DEF Stored

(* An event is added to those on their way, or the watch gives none. *)
LEMMA NotifyResult ==
  ASSUME events \in Seq(Exporter), NEW o \in Exporter, Notify(o)
  PROVE  /\ events' \in Seq(Exporter)
         /\ events # <<>> => events' # <<>>
         /\ pc # "off" /\ watch = "live" => events' # <<>>
<1>1. /\ Append(events, o) \in Seq(Exporter)
      /\ Len(Append(events, o)) = Len(events) + 1 /\ Len(events) \in Nat /\ Len(<<>>) = 0
  OBVIOUS
<1>2. Append(events, o) # <<>>
  BY <1>1
<1>. QED BY <1>1, <1>2 DEF Notify

(* The answer to an exporter names a client when it names a lease.  *)
LEMMA ResponseType ==
  ASSUME client \in [Leases -> Clients \cup {None}], NEW ref \in Leases \cup {None},
         Readable(ref)
  PROVE  ResponseFor(ref) \in Response
BY NoneIsNoName DEF Readable, ResponseFor, Response

(* A heartbeat that is stored is announced by the watch, if it is live. *)
LEMMA BeatResult ==
  ASSUME TypeOK, Beat, pc # "off"
  PROVE  /\ exporter' \in Exporter /\ events' \in Seq(Exporter) /\ mine' \in Seen
         /\ watch = "live" => events' # <<>> \/ mine' = Unstored
<1>1. CASE /\ exporter' = [exporter EXCEPT !.lastSeen = (@ % (MaxEvents + 3)) + 1]
           /\ mine' \in {exporter'.lastSeen, Unstored}
           /\ Notify(exporter')
  <2>. DEFINE v == (exporter.lastSeen % (MaxEvents + 3)) + 1
  <2>1. v \in Stored
    BY NextSeen DEF TypeOK, Exporter
  <2>. HIDE DEF v
  <2>2. exporter' = [exporter EXCEPT !.lastSeen = v]
    BY <1>1 DEF v
  <2>3. exporter' \in Exporter /\ exporter'.lastSeen = v
    BY <2>1, <2>2 DEF TypeOK, Exporter
  <2>4. mine' \in Seen
    BY <1>1, <2>1, <2>3 DEF Seen
  <2>. QED BY <1>1, <2>3, <2>4, NotifyResult DEF TypeOK
<1>2. CASE mine' = Unstored /\ UNCHANGED <<exporter, events>>
  BY <1>2 DEF TypeOK, Seen
<1>. QED BY <1>1, <1>2 DEF Beat

(* A stream that has ended has nothing left. *)
LEMMA ReturnResult ==
  ASSUME Return
  PROVE  /\ pc' = "off" /\ watch' = "live" /\ events' \in Seq(Exporter)
         /\ mine' \in Seen /\ watched' = None /\ told' = None
BY DEF Return, Seen

-----------------------------------------------------------------------------
(* Every step keeps types and NoFalseAlarm *)

SafetyInv == TypeOK /\ NoFalseAlarm

(* What others do. *)
LEMMA OthersSafe ==
  ASSUME SafetyInv, Others
  PROVE  SafetyInv'
<1>1. /\ UNCHANGED <<pc, watch, mine, watched, told>>
      /\ changes' \in 0..MaxChanges
  <2>1. changes < MaxChanges /\ changes' = changes + 1
    BY DEF Others, SetLeaseRef, TransferLease, DeleteLease, DeleteExporter, Change
  <2>2. changes' \in 0..MaxChanges
    BY <2>1, StreamBounds DEF SafetyInv, TypeOK
  <2>. QED BY <2>2 DEF Others, SetLeaseRef, TransferLease, DeleteLease, DeleteExporter
<1>2. /\ exporter' \in Exporter /\ client' \in [Leases -> Clients \cup {None}]
      /\ events' \in Seq(Exporter) /\ (events # <<>> => events' # <<>>)
  <2>1. ASSUME NEW l \in Leases \cup {None}, SetLeaseRef(l)
        PROVE  <1>2
    <3>1. exporter' \in Exporter /\ Notify(exporter') /\ client' = client
      BY <2>1 DEF SetLeaseRef, SafetyInv, TypeOK, Exporter
    <3>. QED BY <3>1, NotifyResult DEF SafetyInv, TypeOK
  <2>2. ASSUME NEW l \in Leases, \/ DeleteLease(l)
                                 \/ \E c \in Clients : TransferLease(l, c)
        PROVE  <1>2
    BY <2>2 DEF DeleteLease, TransferLease, SafetyInv, TypeOK
  <2>3. CASE DeleteExporter
    BY <2>3, NotifyResult DEF DeleteExporter, SafetyInv, TypeOK
  <2>. QED BY <2>1, <2>2, <2>3 DEF Others
<1>3. exists' \in BOOLEAN
  BY Zenon DEF Others, SetLeaseRef, TransferLease, DeleteLease, DeleteExporter, SafetyInv, TypeOK
<1>4. TypeOK'
  BY <1>1, <1>2, <1>3 DEF SafetyInv, TypeOK
<1>5. NoFalseAlarm'
  BY <1>1, <1>2 DEF SafetyInv, NoFalseAlarm, Mismatch
<1>. QED BY <1>4, <1>5 DEF SafetyInv

(* The steps of the handler and of its watch. *)
LEMMA HandlerSafe ==
  ASSUME SafetyInv,
         \/ WatchStalls \/ Open \/ FirstBeat \/ TickBeats \/ TickMismatch \/ Event \/ StreamBreaks
  PROVE  SafetyInv'
<1>1. CASE WatchStalls
  BY <1>1 DEF WatchStalls, SafetyInv, TypeOK, NoFalseAlarm
<1>2. CASE Open
  <2>1. events' \in Seq(Exporter) /\ mine' \in Seen
    BY <1>2 DEF Open, SafetyInv, TypeOK, Exporter, Seen
  <2>. QED BY <1>2, <2>1 DEF Open, SafetyInv, TypeOK, NoFalseAlarm
<1>3. CASE FirstBeat \/ TickBeats
  <2>1. /\ pc # "off" /\ Beat /\ pc' = "running"
        /\ UNCHANGED <<exists, client, changes, watch, watched, told>>
    BY <1>3 DEF FirstBeat, TickBeats
  <2>2. /\ exporter' \in Exporter /\ events' \in Seq(Exporter) /\ mine' \in Seen
        /\ watch = "live" => events' # <<>> \/ mine' = Unstored
    BY <2>1, BeatResult DEF SafetyInv
  <2>3. TypeOK'
    BY <2>1, <2>2 DEF SafetyInv, TypeOK
  <2>4. NoFalseAlarm'
    BY <2>1, <2>2 DEF SafetyInv, TypeOK, NoFalseAlarm
  <2>. QED BY <2>3, <2>4 DEF SafetyInv
<1>4. CASE TickMismatch \/ LeaseMissing \/ StreamBreaks
  <2>1. Return /\ UNCHANGED <<exporter, exists, client, changes>>
    BY <1>4 DEF TickMismatch, LeaseMissing, StreamBreaks
  <2>. QED BY <2>1, ReturnResult DEF SafetyInv, TypeOK, NoFalseAlarm
<1>5. CASE ReceiveEvent
  <2>. DEFINE e == Head(events)
  <2>1. e \in Exporter /\ Tail(events) \in Seq(Exporter)
    BY <1>5 DEF ReceiveEvent, SafetyInv, TypeOK
  <2>. HIDE DEF e
  <2>2. /\ Readable(e.leaseRef)
        /\ told' = told \/ told' = ResponseFor(e.leaseRef)
        /\ mine' = e.lastSeen /\ watched' = e.lastSeen /\ events' = Tail(events)
        /\ UNCHANGED <<exporter, exists, client, changes, pc, watch>>
    BY <1>5 DEF ReceiveEvent, Recorded, e
  <2>3. told' \in Response \cup {None}
    <3>1. e.leaseRef \in Leases \cup {None}
      BY <2>1 DEF Exporter
    <3>. QED BY <2>2, <3>1, ResponseType DEF SafetyInv, TypeOK
  <2>4. mine' \in Seen /\ watched' \in {None, Never} \cup Stored
    BY <2>1, <2>2 DEF Exporter, Seen
  <2>5. TypeOK'
    BY <2>1, <2>2, <2>3, <2>4 DEF SafetyInv, TypeOK
  <2>. QED BY <2>2, <2>5 DEF SafetyInv, NoFalseAlarm, Mismatch
<1>. QED BY <1>1, <1>2, <1>3, <1>4, <1>5 DEF Event

(* Types and NoFalseAlarm hold in every reachable state. *)
LEMMA SafetyAlways == Spec => []SafetyInv
<1>1. Init => SafetyInv
  <2>. SUFFICES ASSUME Init PROVE SafetyInv
    OBVIOUS
  <2>1. exporter \in Exporter
    BY DEF Init, Exporter
  <2>2. changes \in 0..MaxChanges
    BY StreamBounds DEF Init
  <2>3. events \in Seq(Exporter) /\ client \in [Leases -> Clients \cup {None}] /\ mine \in Seen
    BY DEF Init, Seen
  <2>. QED BY <2>1, <2>2, <2>3 DEF Init, SafetyInv, TypeOK, NoFalseAlarm
<1>2. SafetyInv /\ [Next]_vars => SafetyInv'
  <2>. SUFFICES ASSUME SafetyInv, [Next]_vars PROVE SafetyInv'
    OBVIOUS
  <2>1. CASE UNCHANGED vars
    BY <2>1 DEF vars, SafetyInv, TypeOK, NoFalseAlarm, Mismatch
  <2>. QED BY <2>1, OthersSafe, HandlerSafe DEF Next
<1>. QED BY <1>1, <1>2, PTL DEF Spec

(* In every reachable state of the stream the comparison of the ticker     *)
(* accuses a watch that works only while one of its events is on its way   *)
(* or after a heartbeat that was not stored: a heartbeat that is stored is *)
(* announced before it is compared (Status in controller_service.go).      *)
THEOREM NeverFalseAlarm == Spec => []NoFalseAlarm
<1>1. SafetyInv => NoFalseAlarm
  BY DEF SafetyInv
<1>. QED BY <1>1, SafetyAlways, PTL

(* In every reachable state what the handler has told the exporter names a *)
(* client whenever it names a lease, and every copy it keeps is well       *)
(* formed.                                                                 *)
THEOREM TypeCorrect == Spec => []TypeOK
<1>1. SafetyInv => TypeOK
  BY DEF SafetyInv
<1>. QED BY <1>1, SafetyAlways, PTL
=============================================================================
