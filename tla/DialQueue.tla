------------------------------ MODULE DialQueue ------------------------------
(***************************************************************************)
(* ControllerService.Dial and Listen (internal/service/                    *)
(* controller_service.go): a client that dials its lease puts a token for  *)
(* the router into the lease's queue (listenQueues, a buffered channel),   *)
(* and a Listen stream of the exporter takes it out and sends it on.       *)
(*                                                                         *)
(* A token is named by the Dial that made it.  Leases change as            *)
(* LeaseController changes them: one is given its exporter once, keeps it, *)
(* may be handed over to another client and may be deleted.  Queues are    *)
(* kept by lease name alone and never removed: a name stands for one lease *)
(* for ever, as the UUIDs that RequestLease and CreateLease choose do.     *)
(*                                                                         *)
(* A definition whose comment starts with "Mistake:" is a wrong version of *)
(* the definition after it; nothing uses it.                               *)
(***************************************************************************)
EXTENDS Integers, Sequences, FiniteSets, Functions

CONSTANTS
  None,
  Leases, Clients, Exporters,
  Dials,     \* calls of Dial in a behaviour
  Listens,   \* calls of Listen in a behaviour
  Capacity,  \* of a queue; 8 in the code
  Routers,   \* the entries of the router configuration
  Labels     \* of every router and exporter: a set of pairs of key and value

ASSUME NoneIsNoName == None \notin Clients \cup Exporters \cup Leases \cup Dials
ASSUME LabelsAreFinite ==
  \A n \in Routers \cup Exporters : IsFiniteSet(Labels[n])
ASSUME CapacityAssumption == Capacity \in Nat \ {0}

VARIABLES
  lease,      \* per lease: [client, exporterRef, live]
  queue,      \* listenQueues
  dial,       \* per Dial: [pc, client, lease, router]
  listen,     \* per Listen: [pc, exporter, lease, token]
  delivered,  \* per Listen: the tokens its exporter has received
  lost        \* tokens taken from a queue for a Listen that could not send

vars == <<lease, queue, dial, listen, delivered, lost>>

NoDial == [pc |-> "off", client |-> None, lease |-> None, router |-> None]
NoListen == [pc |-> "off", exporter |-> None, lease |-> None, token |-> None]

-----------------------------------------------------------------------------
(* The leases *)

AssignLease(l, e) ==
  /\ lease[l].live /\ lease[l].exporterRef = None
  /\ lease' = [lease EXCEPT ![l].exporterRef = e]
  /\ UNCHANGED <<queue, dial, listen, delivered, lost>>

TransferLease(l, c) ==
  /\ lease[l].live /\ lease[l].exporterRef # None /\ lease[l].client # c
  /\ lease' = [lease EXCEPT ![l].client = c]
  /\ UNCHANGED <<queue, dial, listen, delivered, lost>>

DeleteLease(l) ==
  /\ lease[l].live
  /\ lease' = [lease EXCEPT ![l].live = FALSE]
  /\ UNCHANGED <<queue, dial, listen, delivered, lost>>

-----------------------------------------------------------------------------
(* Dial *)

(* "lease not held by client", "lease not active" *)
MayDial(c, l) == lease[l].live /\ lease[l].client = c /\ lease[l].exporterRef # None

(* How many labels of the exporter the router has, if it has them all. *)
MatchLabels(candidate, target) ==
  IF Labels[target] \subseteq Labels[candidate] THEN Cardinality(Labels[target]) ELSE -1

(* Mistake: the order of the sort is not turned round. *)
CandidatesAscending(e) ==
  {r \in Routers : \A q \in Routers : MatchLabels(r, e) <= MatchLabels(q, e)}

(* What may be first in the sorted list: the entries come out of a map in  *)
(* any order.  Without entries ("no router available") there is none.      *)
Candidates(e) ==
  {r \in Routers : \A q \in Routers : MatchLabels(r, e) >= MatchLabels(q, e)}

(* The lease and its exporter are read and checked, a router is chosen and *)
(* a token is made; a call that is refused changes nothing.                *)
Dial(d, c, l) ==
  /\ dial[d].pc = "off"
  /\ MayDial(c, l)
  /\ \E r \in Candidates(lease[l].exporterRef) :
       dial' = [dial EXCEPT ![d] =
                  [pc |-> "offering", client |-> c, lease |-> l, router |-> r]]
  /\ UNCHANGED <<lease, queue, listen, delivered, lost>>

(* Mistake: the channel is full one token early. *)
HasRoomLess(l) == Len(queue[l]) + 1 < Capacity

(* A send on the channel does not block. *)
HasRoom(l) == Len(queue[l]) < Capacity

(* The token is put into the queue and the client gets its copy. *)
DialReturns(d) ==
  /\ dial[d].pc = "offering"
  /\ HasRoom(dial[d].lease)
  /\ queue' = [queue EXCEPT ![dial[d].lease] = Append(@, d)]
  /\ dial' = [dial EXCEPT ![d].pc = "ok"]
  /\ UNCHANGED <<lease, listen, delivered, lost>>

(* <-ctx.Done(): the client has given up or its deadline has passed. *)
DialCancelled(d) ==
  /\ dial[d].pc = "offering"
  /\ dial' = [dial EXCEPT ![d].pc = "cancelled"]
  /\ UNCHANGED <<lease, queue, listen, delivered, lost>>

-----------------------------------------------------------------------------
(* Listen *)

(* Mistake: any exporter may listen on a lease. *)
MayListenAny(e, l) == lease[l].live

(* "lease not held by exporter" *)
MayListen(e, l) == lease[l].live /\ lease[l].exporterRef = e

(* Mistake: Store, which starts the lease with a new queue. *)
NewQueue(l) == <<>>

(* LoadOrStore: a queue that exists is used, with what it holds. *)
QueueOf(l) == queue[l]

Listen(s, e, l) ==
  /\ listen[s].pc = "off"
  /\ MayListen(e, l)
  /\ listen' = [listen EXCEPT ![s] =
       [pc |-> "waiting", exporter |-> e, lease |-> l, token |-> None]]
  /\ queue' = [queue EXCEPT ![l] = QueueOf(l)]
  /\ UNCHANGED <<lease, dial, delivered, lost>>

(* msg := <-queue.  A stream that is gone may still take one: select       *)
(* chooses at random among what is ready.                                  *)
ReceiveToken(s) ==
  LET l == listen[s].lease
  IN  /\ listen[s].pc \in {"waiting", "broken"} /\ listen[s].token = None
      /\ queue[l] # <<>>
      /\ listen' = [listen EXCEPT ![s].token = Head(queue[l])]
      /\ queue' = [queue EXCEPT ![l] = Tail(@)]
      /\ UNCHANGED <<lease, dial, delivered, lost>>

(* stream.Send succeeds. *)
SendToken(s) ==
  /\ listen[s].pc = "waiting" /\ listen[s].token # None
  /\ delivered' = [delivered EXCEPT ![s] = Append(@, listen[s].token)]
  /\ listen' = [listen EXCEPT ![s].token = None]
  /\ UNCHANGED <<lease, queue, dial, lost>>

(* The exporter goes away. *)
ListenBreaks(s) ==
  /\ listen[s].pc = "waiting"
  /\ listen' = [listen EXCEPT ![s].pc = "broken"]
  /\ UNCHANGED <<lease, queue, dial, delivered, lost>>

(* stream.Send fails, or <-ctx.Done() without a token in hand. *)
ListenReturns(s) ==
  /\ listen[s].pc = "broken"
  /\ lost' = lost \cup ({listen[s].token} \ {None})
  /\ listen' = [listen EXCEPT ![s].pc = "ended", ![s].token = None]
  /\ UNCHANGED <<lease, queue, dial, delivered>>

-----------------------------------------------------------------------------
Init ==
  /\ lease \in [Leases -> [client : Clients, exporterRef : {None}, live : {TRUE}]]
  /\ queue = [l \in Leases |-> <<>>]
  /\ dial = [d \in Dials |-> NoDial]
  /\ listen = [s \in Listens |-> NoListen]
  /\ delivered = [s \in Listens |-> <<>>]
  /\ lost = {}

Next ==
  \/ \E l \in Leases : \/ \E e \in Exporters : AssignLease(l, e)
                       \/ \E c \in Clients : TransferLease(l, c)
                       \/ DeleteLease(l)
  \/ \E d \in Dials : \/ \E c \in Clients, l \in Leases : Dial(d, c, l)
                      \/ DialReturns(d) \/ DialCancelled(d)
  \/ \E s \in Listens : \/ \E e \in Exporters, l \in Leases : Listen(s, e, l)
                        \/ ReceiveToken(s) \/ SendToken(s)
                        \/ ListenBreaks(s) \/ ListenReturns(s)

Spec == Init /\ [][Next]_vars

(* Goroutines are scheduled, and of those blocked on a channel the one     *)
(* that came first goes first.  Nothing is assumed of clients, exporters   *)
(* or their connections.                                                   *)
Fairness ==
  /\ \A d \in Dials : SF_vars(DialReturns(d))
  /\ \A s \in Listens : /\ SF_vars(ReceiveToken(s)) /\ WF_vars(SendToken(s))
                        /\ WF_vars(ListenReturns(s))

FairSpec == Spec /\ Fairness

(* Calls and queues are well formed, and no queue outgrows the channel     *)
(* (listenQueues in controller_service.go).                                *)
TypeOK ==
  /\ lease \in [Leases -> [client : Clients, exporterRef : Exporters \cup {None},
                           live : BOOLEAN]]
  /\ queue \in [Leases -> Seq(Dials)]
  /\ \A l \in Leases : Len(queue[l]) <= Capacity
  /\ dial \in [Dials -> [pc : {"off", "offering", "ok", "cancelled"},
                         client : Clients \cup {None}, lease : Leases \cup {None},
                         router : Routers \cup {None}]]
  /\ listen \in [Listens -> [pc : {"off", "waiting", "broken", "ended"},
                             exporter : Exporters \cup {None},
                             lease : Leases \cup {None}, token : Dials \cup {None}]]
  /\ delivered \in [Listens -> Seq(Dials)]
  /\ lost \subseteq Dials

-----------------------------------------------------------------------------
(* Where the token of a Dial is: in a queue, in the hand of a Listen, with *)
(* the exporter of a Listen, or lost.                                      *)
Places(d) ==
  {<<"queue", l>> : l \in {k \in Leases : d \in Range(queue[k])}} \cup
  {<<"hand", s>> : s \in {t \in Listens : listen[t].token = d}} \cup
  {<<"exporter", s>> : s \in {t \in Listens : d \in Range(delivered[t])}} \cup
  (IF d \in lost THEN {<<"lost">>} ELSE {})

(* The token of a Dial that returned is in exactly one place, once, and    *)
(* that of any other Dial nowhere: two streams of one exporter never get   *)
(* the same token, none is made up, and one is lost only with the stream   *)
(* that had taken it, although Listen streams come and go on one queue.    *)
TokenOnce ==
  /\ \A d \in Dials :
       Cardinality(Places(d)) = IF dial[d].pc = "ok" THEN 1 ELSE 0
  /\ \A l \in Leases : IsInjective(queue[l])
  /\ \A s \in Listens : IsInjective(delivered[s])

(* An exporter only ever gets tokens for a lease that refers to it, dialled *)
(* when it did: Listen checks once, when the stream opens, and relies on    *)
(* leases keeping their exporter.                                           *)
DeliveredToHolder ==
  \A s \in Listens :
    \A d \in Range(delivered[s]) \cup ({listen[s].token} \ {None}) :
      /\ dial[d].lease = listen[s].lease
      /\ lease[dial[d].lease].exporterRef = listen[s].exporter

(* The stream of a Dial goes through a router that has every label of the  *)
(* exporter when there is one, whatever the order in which the entries of  *)
(* the configuration come out of their map (slices.SortFunc in Dial).      *)
RouterFits ==
  \A d \in Dials : dial[d].pc # "off" =>
    LET needed == Labels[lease[dial[d].lease].exporterRef]
    IN  (\E r \in Routers : needed \subseteq Labels[r]) => needed \subseteq Labels[dial[d].router]

Waits(s, l) == listen[s].pc = "waiting" /\ listen[s].lease = l

(* A client is not left waiting, nor its token left in the queue, while    *)
(* the exporter listens: the token is taken from the queue, unless the     *)
(* client gives up or the Listen stream goes away.                         *)
TokenServed ==
  \A d \in Dials, s \in Listens, l \in Leases :
    (dial[d].pc \in {"offering", "ok"} /\ dial[d].lease = l /\ Waits(s, l)) ~>
      (\/ dial[d].pc = "ok" /\ d \notin Range(queue[l])
       \/ dial[d].pc = "cancelled" \/ ~Waits(s, l))

-----------------------------------------------------------------------------
(* The inductive invariant behind TokenOnce, DeliveredToHolder and         *)
(* RouterFits                                                              *)

(* A token is in no two places, it is somewhere from the return of its     *)
(* Dial on, and no queue and no exporter has it twice.                     *)
OnePlace ==
  /\ \A d \in Dials : /\ Places(d) # {} <=> dial[d].pc = "ok"
                      /\ \A p, q \in Places(d) : p = q
  /\ \A l \in Leases : IsInjective(queue[l])
  /\ \A s \in Listens : IsInjective(delivered[s])

(* A Dial that was let in is for a lease that has an exporter, and goes    *)
(* through a router that may be first for this exporter.                   *)
DialBound ==
  \A d \in Dials : dial[d].pc # "off" =>
    /\ dial[d].lease \in Leases
    /\ lease[dial[d].lease].exporterRef # None
    /\ dial[d].router \in Candidates(lease[dial[d].lease].exporterRef)

(* A Listen that was let in is for the lease of its exporter; before, it   *)
(* has nothing.                                                            *)
ListenBound ==
  \A s \in Listens :
    IF listen[s].pc = "off"
    THEN listen[s].token = None /\ delivered[s] = <<>>
    ELSE /\ listen[s].lease \in Leases
         /\ listen[s].exporter \in Exporters
         /\ lease[listen[s].lease].exporterRef = listen[s].exporter

(* Tokens of a lease are in the queue of that lease. *)
QueueBound == \A l \in Leases : \A d \in Range(queue[l]) : dial[d].lease = l

SafetyInv ==
  TypeOK /\ OnePlace /\ DialBound /\ ListenBound /\ QueueBound /\ DeliveredToHolder
=============================================================================
