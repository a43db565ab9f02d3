--------------------------- MODULE DialQueueProofs ---------------------------
(***************************************************************************)
(* Proofs about DialQueue for every value of its constants: any number of  *)
(* leases, calls of Dial and Listen and routers, and any capacity.         *)
(***************************************************************************)
EXTENDS DialQueue, FiniteSetTheorems, TLAPS

-----------------------------------------------------------------------------
(* Sequences *)

(* Append adds one element, and keeps a sequence without repetition so     *)
(* when the element is new.                                                *)
LEMMA AppendRange ==
  ASSUME NEW S, NEW q \in Seq(S), NEW x \in S
  PROVE  /\ Append(q, x) \in Seq(S) /\ Len(Append(q, x)) = Len(q) + 1
         /\ Range(Append(q, x)) = Range(q) \cup {x}
         /\ IsInjective(q) /\ x \notin Range(q) => IsInjective(Append(q, x))
<1>1. /\ Len(q) \in Nat /\ DOMAIN q = 1..Len(q)
      /\ Append(q, x) \in Seq(S) /\ Len(Append(q, x)) = Len(q) + 1
      /\ DOMAIN Append(q, x) = 1..(Len(q) + 1)
  OBVIOUS
<1>2. /\ \A i \in 1..Len(q) : Append(q, x)[i] = q[i]
      /\ Append(q, x)[Len(q) + 1] = x
      /\ Len(q) + 1 \in 1..(Len(q) + 1)
      /\ \A i \in 1..(Len(q) + 1) : i \in 1..Len(q) \/ i = Len(q) + 1
      /\ 1..Len(q) \subseteq 1..(Len(q) + 1)
  OBVIOUS
<1>3. Range(Append(q, x)) = Range(q) \cup {x}
  <2>. DEFINE a == Append(q, x)
  <2>1. \A y \in Range(q) \cup {x} : \E i \in 1..(Len(q) + 1) : a[i] = y
    BY <1>1, <1>2 DEF Range
  <2>2. \A i \in 1..(Len(q) + 1) : a[i] \in Range(q) \cup {x}
    BY <1>1, <1>2 DEF Range
  <2>. HIDE DEF a
  <2>3. DOMAIN a = 1..(Len(q) + 1)
    BY <1>1 DEF a
  <2>. QED BY <2>1, <2>2, <2>3 DEF Range, a
<1>4. ASSUME IsInjective(q), x \notin Range(q)
      PROVE  IsInjective(Append(q, x))
  <2>1. \A i \in 1..Len(q) : q[i] # x
    BY <1>1, <1>4 DEF Range
  <2>2. \A i, j \in 1..Len(q) : q[i] = q[j] => i = j
    BY <1>1, <1>4 DEF IsInjective
  <2>. QED BY <1>1, <1>2, <2>1, <2>2 DEF IsInjective
<1>. QED BY <1>1, <1>3, <1>4

(* Head and Tail take a sequence apart. *)
LEMMA TailRange ==
  ASSUME NEW S, NEW q \in Seq(S), q # <<>>
  PROVE  /\ Head(q) \in S /\ Tail(q) \in Seq(S) /\ Len(Tail(q)) <= Len(q)
         /\ Range(q) = Range(Tail(q)) \cup {Head(q)}
         /\ IsInjective(q) => IsInjective(Tail(q)) /\ Head(q) \notin Range(Tail(q))
<1>1. /\ Len(q) \in Nat /\ Len(q) >= 1 /\ DOMAIN q = 1..Len(q) /\ Head(q) = q[1]
      /\ Head(q) \in S /\ Tail(q) \in Seq(S) /\ Len(Tail(q)) = Len(q) - 1
      /\ DOMAIN Tail(q) = 1..(Len(q) - 1)
  OBVIOUS
<1>2. \A i \in 1..(Len(q) - 1) : i + 1 \in 1..Len(q) /\ Tail(q)[i] = q[i + 1]
  OBVIOUS
<1>3. \A i \in 1..Len(q) : i = 1 \/ \E j \in 1..(Len(q) - 1) : i = j + 1
  <2>1. \A i \in 1..Len(q) : i = 1 \/ (i - 1 \in 1..(Len(q) - 1) /\ i = (i - 1) + 1)
    BY <1>1
  <2>. QED BY <2>1
<1>4. Range(q) = Range(Tail(q)) \cup {Head(q)}
  <2>1. ASSUME NEW y \in Range(q)
        PROVE  y \in Range(Tail(q)) \cup {Head(q)}
    <3>1. PICK i \in 1..Len(q) : y = q[i]
      BY <1>1 DEF Range
    <3>2. ASSUME NEW j \in 1..(Len(q) - 1), i = j + 1
          PROVE  y \in Range(Tail(q))
      BY <1>1, <1>2, <3>1, <3>2 DEF Range
    <3>. QED BY <1>1, <1>3, <3>1, <3>2
  <2>2. 1 \in 1..Len(q)
    BY <1>1
  <2>3. \A y \in Range(Tail(q)) \cup {Head(q)} : y \in Range(q)
    BY <1>1, <1>2, <2>2 DEF Range
  <2>. QED BY <2>1, <2>3
<1>5. ASSUME IsInjective(q)
      PROVE  IsInjective(Tail(q)) /\ Head(q) \notin Range(Tail(q))
  <2>1. \A i, j \in 1..Len(q) : q[i] = q[j] => i = j
    BY <1>1, <1>5 DEF IsInjective
  <2>2. \A i, j \in 1..(Len(q) - 1) : Tail(q)[i] = Tail(q)[j] => i = j
    <3>1. ASSUME NEW i \in 1..(Len(q) - 1), NEW j \in 1..(Len(q) - 1), Tail(q)[i] = Tail(q)[j]
          PROVE  i = j
      <4>1. i + 1 = j + 1
        BY <1>2, <2>1, <3>1
      <4>. QED BY <4>1
    <3>. QED BY <3>1
  <2>3. \A i \in 1..(Len(q) - 1) : Tail(q)[i] # q[1]
    <3>1. ASSUME NEW i \in 1..(Len(q) - 1), Tail(q)[i] = q[1]
          PROVE  FALSE
      <4>1. 1 \in 1..Len(q)
        BY <1>1
      <4>2. i + 1 = 1
        BY <1>2, <2>1, <3>1, <4>1
      <4>. QED BY <4>2
    <3>. QED BY <3>1
  <2>. QED BY <1>1, <2>2, <2>3 DEF IsInjective, Range
<1>. QED BY <1>1, <1>4, <1>5

-----------------------------------------------------------------------------
(* The places of a token *)

(* The names of two places differ. *)
LEMMA PlacesApart ==
  /\ \A x, y : /\ <<"queue", x>> # <<"hand", y>> /\ <<"queue", x>> # <<"exporter", y>>
               /\ <<"hand", x>> # <<"exporter", y>>
               /\ <<"queue", x>> = <<"queue", y>> => x = y
               /\ <<"hand", x>> = <<"hand", y>> => x = y
               /\ <<"exporter", x>> = <<"exporter", y>> => x = y
  /\ \A x : /\ <<"queue", x>> # <<"lost">> /\ <<"hand", x>> # <<"lost">>
            /\ <<"exporter", x>> # <<"lost">>
OBVIOUS

(* A token in a queue is nowhere else. *)
LEMMA QueuedAlone ==
  ASSUME OnePlace, NEW d \in Dials, NEW l \in Leases, d \in Range(queue[l])
  PROVE  /\ \A k \in Leases : d \in Range(queue[k]) => k = l
         /\ \A s \in Listens : listen[s].token # d /\ d \notin Range(delivered[s])
         /\ d \notin lost /\ dial[d].pc = "ok"
<1>1. <<"queue", l>> \in Places(d)
  BY DEF Places
<1>2. dial[d].pc = "ok" /\ \A p \in Places(d) : p = <<"queue", l>>
  BY <1>1 DEF OnePlace
<1>3. \A k \in Leases : d \in Range(queue[k]) => <<"queue", k>> \in Places(d)
  BY DEF Places
<1>4. \A s \in Listens : /\ listen[s].token = d => <<"hand", s>> \in Places(d)
                         /\ d \in Range(delivered[s]) => <<"exporter", s>> \in Places(d)
  BY DEF Places
<1>5. d \in lost => <<"lost">> \in Places(d)
  BY DEF Places
<1>. QED BY <1>2, <1>3, <1>4, <1>5, PlacesApart

(* A token in the hand of a Listen is nowhere else. *)
LEMMA HeldAlone ==
  ASSUME OnePlace, NEW d \in Dials, NEW s \in Listens, listen[s].token = d
  PROVE  /\ \A l \in Leases : d \notin Range(queue[l])
         /\ \A t \in Listens : /\ listen[t].token = d => t = s
                               /\ d \notin Range(delivered[t])
         /\ d \notin lost /\ dial[d].pc = "ok"
<1>1. <<"hand", s>> \in Places(d)
  BY DEF Places
<1>2. dial[d].pc = "ok" /\ \A p \in Places(d) : p = <<"hand", s>>
  BY <1>1 DEF OnePlace
<1>3. \A k \in Leases : d \in Range(queue[k]) => <<"queue", k>> \in Places(d)
  BY DEF Places
<1>4. \A t \in Listens : /\ listen[t].token = d => <<"hand", t>> \in Places(d)
                         /\ d \in Range(delivered[t]) => <<"exporter", t>> \in Places(d)
  BY DEF Places
<1>5. d \in lost => <<"lost">> \in Places(d)
  BY DEF Places
<1>. QED BY <1>2, <1>3, <1>4, <1>5, PlacesApart

(* The token of a Dial that has not returned is nowhere. *)
LEMMA UnmadeNowhere ==
  ASSUME OnePlace, NEW d \in Dials, dial[d].pc # "ok"
  PROVE  /\ \A l \in Leases : d \notin Range(queue[l])
         /\ \A s \in Listens : listen[s].token # d /\ d \notin Range(delivered[s])
         /\ d \notin lost
<1>1. Places(d) = {}
  BY DEF OnePlace
<1>. QED BY <1>1 DEF Places

(* The places of a token depend on where this token is, and on no other. *)
LEMMA PlacesKept ==
  ASSUME NEW d \in Dials,
         \A l \in Leases : d \in Range(queue'[l]) <=> d \in Range(queue[l]),
         \A s \in Listens : /\ listen'[s].token = d <=> listen[s].token = d
                            /\ d \in Range(delivered'[s]) <=> d \in Range(delivered[s]),
         d \in lost' <=> d \in lost
  PROVE  Places(d)' = Places(d)
<1>1. {k \in Leases : d \in Range(queue'[k])} = {k \in Leases : d \in Range(queue[k])}
  OBVIOUS
<1>2. /\ {t \in Listens : listen'[t].token = d} = {t \in Listens : listen[t].token = d}
      /\ {t \in Listens : d \in Range(delivered'[t])} = {t \in Listens : d \in Range(delivered[t])}
  OBVIOUS
<1>. QED BY <1>1, <1>2 DEF Places

(* A step that moves one token and leaves the others where they are. *)
LEMMA TokenMoves ==
  ASSUME OnePlace, NEW t \in Dials, NEW p, Places(t)' = {p}, dial'[t].pc = "ok",
         \A d \in Dials \ {t} : Places(d)' = Places(d) /\ dial'[d].pc = dial[d].pc,
         \A l \in Leases : IsInjective(queue'[l]),
         \A s \in Listens : IsInjective(delivered'[s])
  PROVE  OnePlace'
<1>1. ASSUME NEW d \in Dials
      PROVE  /\ Places(d)' # {} <=> dial'[d].pc = "ok"
             /\ \A q, r \in Places(d)' : q = r
  <2>1. CASE d = t
    BY <2>1
  <2>2. CASE d # t
    BY <2>2 DEF OnePlace
  <2>. QED BY <2>1, <2>2
<1>. QED BY <1>1 DEF OnePlace

(* A step that moves none. *)
LEMMA TokensRest ==
  ASSUME OnePlace, UNCHANGED <<queue, delivered, lost>>,
         \A s \in Listens : listen'[s].token = listen[s].token,
         \A d \in Dials : dial'[d].pc = "ok" <=> dial[d].pc = "ok"
  PROVE  OnePlace'
<1>1. \A d \in Dials : Places(d)' = Places(d)
  BY PlacesKept
<1>. QED BY <1>1 DEF OnePlace

-----------------------------------------------------------------------------
(* Steps of the leases and of Dial *)

(* An exporter has the tokens of its lease when the tokens of a Listen are *)
(* of its lease.                                                           *)
LEMMA HolderFollows ==
  ASSUME ListenBound',
         \A s \in Listens : listen'[s].pc # "off" =>
           \A d \in Range(delivered'[s]) \cup ({listen'[s].token} \ {None}) :
             dial'[d].lease = listen'[s].lease
  PROVE  DeliveredToHolder'
<1>1. ASSUME NEW s \in Listens,
             NEW d \in Range(delivered'[s]) \cup ({listen'[s].token} \ {None})
      PROVE  /\ dial'[d].lease = listen'[s].lease
             /\ lease'[dial'[d].lease].exporterRef = listen'[s].exporter
  <2>1. Range(<<>>) = {}
    BY DEF Range
  <2>2. listen'[s].pc # "off"
    BY <1>1, <2>1 DEF ListenBound
  <2>. QED BY <1>1, <2>2 DEF ListenBound
<1>. QED BY <1>1 DEF DeliveredToHolder

(* The steps of a lease: an exporter is set once. *)
LEMMA LeaseSafe ==
  ASSUME SafetyInv, NEW l \in Leases,
         \/ \E e \in Exporters : AssignLease(l, e)
         \/ \E c \in Clients : TransferLease(l, c)
         \/ DeleteLease(l)
  PROVE  SafetyInv'
<1>1. UNCHANGED <<queue, dial, listen, delivered, lost>>
  BY DEF AssignLease, TransferLease, DeleteLease
<1>2. /\ lease' \in [Leases -> [client : Clients, exporterRef : Exporters \cup {None},
                                live : BOOLEAN]]
      /\ \A k \in Leases : lease[k].exporterRef # None =>
           lease'[k].exporterRef = lease[k].exporterRef
  <2>. DEFINE R == [client : Clients, exporterRef : Exporters \cup {None}, live : BOOLEAN]
  <2>1. lease \in [Leases -> R] /\ lease[l] \in R
    BY DEF SafetyInv, TypeOK
  <2>2. ASSUME NEW r \in R, lease' = [lease EXCEPT ![l] = r],
               lease[l].exporterRef # None => r.exporterRef = lease[l].exporterRef
        PROVE  <1>2!1 /\ <1>2!2
    <3>1. lease' \in [Leases -> R]
      BY <2>1, <2>2
    <3>2. \A k \in Leases : lease[k].exporterRef # None =>
            lease'[k].exporterRef = lease[k].exporterRef
      BY <2>1, <2>2
    <3>. QED BY <3>1, <3>2
  <2>3. ASSUME NEW e \in Exporters, AssignLease(l, e)
        PROVE  <1>2!1 /\ <1>2!2
    <3>1. /\ lease' = [lease EXCEPT ![l] = [lease[l] EXCEPT !.exporterRef = e]]
          /\ lease[l].exporterRef = None
      BY <2>3 DEF AssignLease
    <3>2. [lease[l] EXCEPT !.exporterRef = e] \in R
      BY <2>1
    <3>. QED BY <2>2, <3>1, <3>2
  <2>4. ASSUME NEW c \in Clients, TransferLease(l, c)
        PROVE  <1>2!1 /\ <1>2!2
    <3>1. lease' = [lease EXCEPT ![l] = [lease[l] EXCEPT !.client = c]]
      BY <2>4 DEF TransferLease
    <3>2. [lease[l] EXCEPT !.client = c] \in R
      BY <2>1
    <3>3. [lease[l] EXCEPT !.client = c].exporterRef = lease[l].exporterRef
      BY <2>1
    <3>. QED BY <2>2, <3>1, <3>2, <3>3
  <2>5. CASE DeleteLease(l)
    <3>1. lease' = [lease EXCEPT ![l] = [lease[l] EXCEPT !.live = FALSE]]
      BY <2>5 DEF DeleteLease
    <3>2. [lease[l] EXCEPT !.live = FALSE] \in R
      BY <2>1
    <3>3. [lease[l] EXCEPT !.live = FALSE].exporterRef = lease[l].exporterRef
      BY <2>1
    <3>. QED BY <2>2, <3>1, <3>2, <3>3
  <2>. QED BY <2>3, <2>4, <2>5
<1>3. TypeOK'
  BY <1>1, <1>2 DEF SafetyInv, TypeOK
<1>4. OnePlace'
  BY <1>1, TokensRest DEF SafetyInv
<1>5. DialBound'
  <2>1. ASSUME NEW d \in Dials, dial'[d].pc # "off"
        PROVE  /\ dial'[d].lease \in Leases
               /\ lease'[dial'[d].lease].exporterRef # None
               /\ dial'[d].router \in Candidates(lease'[dial'[d].lease].exporterRef)
    BY <1>1, <1>2, <2>1 DEF SafetyInv, DialBound
  <2>. QED BY <2>1 DEF DialBound, Candidates, MatchLabels
<1>6. ListenBound'
  BY <1>1, <1>2, NoneIsNoName DEF SafetyInv, ListenBound
<1>7. QueueBound'
  BY <1>1 DEF SafetyInv, QueueBound
<1>8. DeliveredToHolder'
  BY <1>1, <1>6, HolderFollows DEF SafetyInv, DeliveredToHolder
<1>. QED BY <1>3, <1>4, <1>5, <1>6, <1>7, <1>8 DEF SafetyInv

(* A Dial that is let in, and one that is given up. *)
LEMMA DialSafe ==
  ASSUME SafetyInv, NEW d \in Dials,
         (\E c \in Clients, l \in Leases : Dial(d, c, l)) \/ DialCancelled(d)
  PROVE  SafetyInv'
<1>1. UNCHANGED <<lease, queue, listen, delivered, lost>>
  BY DEF Dial, DialCancelled
<1>2. /\ dial' \in [Dials -> [pc : {"off", "offering", "ok", "cancelled"},
                              client : Clients \cup {None}, lease : Leases \cup {None},
                              router : Routers \cup {None}]]
      /\ dial[d].pc # "ok" /\ dial'[d].pc # "ok"
      /\ \A t \in Dials \ {d} : dial'[t] = dial[t]
      /\ dial'[d].lease \in Leases
      /\ lease[dial'[d].lease].exporterRef # None
      /\ dial'[d].router \in Candidates(lease[dial'[d].lease].exporterRef)
  <2>1. ASSUME NEW c \in Clients, NEW l \in Leases, Dial(d, c, l)
        PROVE  <1>2!1 /\ <1>2!2 /\ <1>2!3 /\ <1>2!4 /\ <1>2!5 /\ <1>2!6
    <3>1. PICK r \in Candidates(lease[l].exporterRef) :
            dial' = [dial EXCEPT ![d] =
                       [pc |-> "offering", client |-> c, lease |-> l, router |-> r]]
      BY <2>1 DEF Dial
    <3>2. r \in Routers /\ dial[d].pc = "off" /\ lease[l].exporterRef # None
      BY <2>1 DEF Dial, MayDial, Candidates
    <3>. QED BY <3>1, <3>2 DEF SafetyInv, TypeOK
  <2>2. CASE DialCancelled(d)
    BY <2>2 DEF DialCancelled, SafetyInv, TypeOK, DialBound
  <2>. QED BY <2>1, <2>2
<1>3. TypeOK'
  BY <1>1, <1>2 DEF SafetyInv, TypeOK
<1>4. OnePlace'
  BY <1>1, <1>2, TokensRest DEF SafetyInv
<1>5. DialBound'
  <2>1. ASSUME NEW t \in Dials, dial'[t].pc # "off"
        PROVE  /\ dial'[t].lease \in Leases
               /\ lease'[dial'[t].lease].exporterRef # None
               /\ dial'[t].router \in Candidates(lease'[dial'[t].lease].exporterRef)
    BY <1>1, <1>2, <2>1 DEF SafetyInv, DialBound
  <2>. QED BY <2>1 DEF DialBound, Candidates, MatchLabels
<1>6. ListenBound'
  BY <1>1 DEF SafetyInv, ListenBound
<1>7. QueueBound' /\ DeliveredToHolder'
  <2>1. /\ \A l \in Leases : d \notin Range(queue[l])
        /\ \A s \in Listens : listen[s].token # d /\ d \notin Range(delivered[s])
    BY <1>2, UnmadeNowhere DEF SafetyInv
  <2>2. /\ \A l \in Leases : Range(queue[l]) \subseteq Dials
        /\ \A s \in Listens : Range(delivered[s]) \cup ({listen[s].token} \ {None}) \subseteq Dials
    BY DEF SafetyInv, TypeOK, Range
  <2>3. QueueBound'
    BY <1>1, <1>2, <2>1, <2>2 DEF SafetyInv, QueueBound
  <2>4. DeliveredToHolder'
    BY <1>1, <1>2, <1>6, <2>1, <2>2, HolderFollows DEF SafetyInv, DeliveredToHolder
  <2>. QED BY <2>3, <2>4
<1>. QED BY <1>3, <1>4, <1>5, <1>6, <1>7 DEF SafetyInv

(* A Dial that returns puts its token, which is nowhere, into the queue of *)
(* its lease.                                                              *)
LEMMA DialReturnsSafe ==
  ASSUME SafetyInv, NEW d \in Dials, DialReturns(d)
  PROVE  SafetyInv'
<1>. DEFINE l == dial[d].lease
<1>1. /\ dial[d].pc = "offering" /\ Len(queue[l]) < Capacity
      /\ queue' = [queue EXCEPT ![l] = Append(@, d)]
      /\ dial' = [dial EXCEPT ![d].pc = "ok"]
      /\ UNCHANGED <<lease, listen, delivered, lost>>
  BY DEF DialReturns, HasRoom
<1>2. l \in Leases
  BY <1>1 DEF SafetyInv, DialBound
<1>3. /\ \A k \in Leases : d \notin Range(queue[k])
      /\ \A s \in Listens : listen[s].token # d /\ d \notin Range(delivered[s])
      /\ d \notin lost
  BY <1>1, UnmadeNowhere DEF SafetyInv
<1>4. /\ dial'[d].pc = "ok" /\ dial'[d].lease = l /\ dial'[d].router = dial[d].router
      /\ \A t \in Dials \ {d} : dial'[t] = dial[t]
      /\ dial' \in [Dials -> [pc : {"off", "offering", "ok", "cancelled"},
                              client : Clients \cup {None}, lease : Leases \cup {None},
                              router : Routers \cup {None}]]
  BY <1>1 DEF SafetyInv, TypeOK
<1>. HIDE DEF l
<1>5. /\ queue'[l] = Append(queue[l], d) /\ queue[l] \in Seq(Dials)
      /\ \A k \in Leases \ {l} : queue'[k] = queue[k]
  BY <1>1, <1>2 DEF SafetyInv, TypeOK
<1>6. /\ Append(queue[l], d) \in Seq(Dials) /\ Len(queue'[l]) = Len(queue[l]) + 1
      /\ Range(queue'[l]) = Range(queue[l]) \cup {d}
      /\ IsInjective(queue'[l])
  BY <1>2, <1>3, <1>5, AppendRange DEF SafetyInv, OnePlace
<1>7. TypeOK'
  <2>1. queue' \in [Leases -> Seq(Dials)]
    BY <1>1, <1>6 DEF SafetyInv, TypeOK
  <2>2. Len(queue'[l]) <= Capacity
    BY <1>1, <1>5, <1>6, CapacityAssumption
  <2>3. \A k \in Leases : Len(queue'[k]) <= Capacity
    BY <1>5, <2>2 DEF SafetyInv, TypeOK
  <2>. QED BY <1>1, <1>4, <2>1, <2>3 DEF SafetyInv, TypeOK
<1>8. OnePlace'
  <2>1. Places(d)' = {<<"queue", l>>}
    <3>1. {k \in Leases : d \in Range(queue'[k])} = {l}
      BY <1>2, <1>3, <1>5, <1>6
    <3>2. /\ {t \in Listens : listen'[t].token = d} = {}
          /\ {t \in Listens : d \in Range(delivered'[t])} = {}
          /\ d \notin lost'
      BY <1>1, <1>3
    <3>. QED BY <3>1, <3>2 DEF Places
  <2>2. ASSUME NEW t \in Dials \ {d}
        PROVE  Places(t)' = Places(t) /\ dial'[t].pc = dial[t].pc
    <3>1. \A k \in Leases : t \in Range(queue'[k]) <=> t \in Range(queue[k])
      BY <1>5, <1>6
    <3>. QED BY <1>1, <1>4, <3>1, PlacesKept
  <2>3. /\ \A k \in Leases : IsInjective(queue'[k])
        /\ \A s \in Listens : IsInjective(delivered'[s])
    BY <1>1, <1>5, <1>6 DEF SafetyInv, OnePlace
  <2>. QED BY <1>4, <2>1, <2>2, <2>3, TokenMoves DEF SafetyInv
<1>9. DialBound'
  <2>1. ASSUME NEW t \in Dials, dial'[t].pc # "off"
        PROVE  /\ dial'[t].lease \in Leases
               /\ lease'[dial'[t].lease].exporterRef # None
               /\ dial'[t].router \in Candidates(lease'[dial'[t].lease].exporterRef)
    BY <1>1, <1>4, <2>1 DEF SafetyInv, DialBound, l
  <2>. QED BY <2>1 DEF DialBound, Candidates, MatchLabels
<1>10. ListenBound'
  BY <1>1 DEF SafetyInv, ListenBound
<1>11. QueueBound'
  <2>1. \A k \in Leases : Range(queue[k]) \subseteq Dials
    BY DEF SafetyInv, TypeOK, Range
  <2>2. ASSUME NEW k \in Leases, NEW t \in Range(queue'[k])
        PROVE  dial'[t].lease = k
    <3>1. CASE k = l /\ t = d
      BY <1>4, <3>1
    <3>2. CASE t \in Range(queue[k])
      BY <1>3, <1>4, <2>1, <3>2 DEF SafetyInv, QueueBound
    <3>. QED BY <1>5, <1>6, <2>2, <3>1, <3>2
  <2>. QED BY <2>2 DEF QueueBound
<1>12. DeliveredToHolder'
  <2>1. \A s \in Listens : Range(delivered[s]) \cup ({listen[s].token} \ {None}) \subseteq Dials
    BY DEF SafetyInv, TypeOK, Range
  <2>. QED BY <1>1, <1>3, <1>4, <1>10, <2>1, HolderFollows DEF SafetyInv, DeliveredToHolder
<1>. QED BY <1>7, <1>8, <1>9, <1>10, <1>11, <1>12 DEF SafetyInv

-----------------------------------------------------------------------------
(* Steps of Listen *)

(* DialBound is about leases and calls of Dial alone. *)
LEMMA DialBoundKept ==
  ASSUME DialBound, UNCHANGED <<lease, dial>>
  PROVE  DialBound'
<1>1. ASSUME NEW t \in Dials, dial'[t].pc # "off"
      PROVE  /\ dial'[t].lease \in Leases
             /\ lease'[dial'[t].lease].exporterRef # None
             /\ dial'[t].router \in Candidates(lease'[dial'[t].lease].exporterRef)
  BY <1>1 DEF DialBound
<1>. QED BY <1>1 DEF DialBound, Candidates, MatchLabels

(* A Listen that is let in uses the queue that is there; one that breaks   *)
(* keeps what it has.                                                      *)
LEMMA ListenSafe ==
  ASSUME SafetyInv, NEW s \in Listens,
         (\E e \in Exporters, l \in Leases : Listen(s, e, l)) \/ ListenBreaks(s)
  PROVE  SafetyInv'
<1>1. UNCHANGED <<lease, queue, dial, delivered, lost>>
  BY DEF Listen, QueueOf, ListenBreaks, SafetyInv, TypeOK
<1>2. /\ listen' \in [Listens -> [pc : {"off", "waiting", "broken", "ended"},
                                  exporter : Exporters \cup {None},
                                  lease : Leases \cup {None}, token : Dials \cup {None}]]
      /\ \A t \in Listens \ {s} : listen'[t] = listen[t]
      /\ listen'[s].token = listen[s].token /\ listen'[s].pc # "off"
      /\ listen'[s].lease \in Leases /\ listen'[s].exporter \in Exporters
      /\ lease[listen'[s].lease].exporterRef = listen'[s].exporter
      /\ \A d \in Range(delivered[s]) \cup ({listen[s].token} \ {None}) :
           dial[d].lease = listen'[s].lease
  <2>1. ASSUME NEW e \in Exporters, NEW l \in Leases, Listen(s, e, l)
        PROVE  <1>2!1 /\ <1>2!2 /\ <1>2!3 /\ <1>2!4 /\ <1>2!5 /\ <1>2!6
    <3>1. /\ listen[s].pc = "off" /\ lease[l].exporterRef = e
          /\ listen' = [listen EXCEPT ![s] =
               [pc |-> "waiting", exporter |-> e, lease |-> l, token |-> None]]
      BY <2>1 DEF Listen, MayListen
    <3>2. listen[s].token = None /\ delivered[s] = <<>> /\ Range(<<>>) = {}
      BY <3>1 DEF SafetyInv, ListenBound, Range
    <3>. QED BY <3>1, <3>2 DEF SafetyInv, TypeOK
  <2>2. CASE ListenBreaks(s)
    <3>1. listen[s].pc = "waiting" /\ listen' = [listen EXCEPT ![s].pc = "broken"]
      BY <2>2 DEF ListenBreaks
    <3>2. /\ listen[s].lease \in Leases /\ listen[s].exporter \in Exporters
          /\ lease[listen[s].lease].exporterRef = listen[s].exporter
      BY <3>1 DEF SafetyInv, ListenBound
    <3>3. \A d \in Range(delivered[s]) \cup ({listen[s].token} \ {None}) :
            dial[d].lease = listen[s].lease
      BY DEF SafetyInv, DeliveredToHolder
    <3>. QED BY <3>1, <3>2, <3>3 DEF SafetyInv, TypeOK
  <2>. QED BY <2>1, <2>2
<1>3. TypeOK'
  BY <1>1, <1>2 DEF SafetyInv, TypeOK
<1>4. OnePlace'
  BY <1>1, <1>2, TokensRest DEF SafetyInv
<1>5. DialBound' /\ QueueBound'
  BY <1>1, DialBoundKept DEF SafetyInv, QueueBound
<1>6. ListenBound'
  BY <1>1, <1>2 DEF SafetyInv, ListenBound
<1>7. DeliveredToHolder'
  BY <1>1, <1>2, <1>6, HolderFollows DEF SafetyInv, DeliveredToHolder
<1>. QED BY <1>3, <1>4, <1>5, <1>6, <1>7 DEF SafetyInv

(* A token goes from the queue of a lease into the hand of a Listen of the *)
(* lease.                                                                  *)
LEMMA ReceiveTokenSafe ==
  ASSUME SafetyInv, NEW s \in Listens, ReceiveToken(s)
  PROVE  SafetyInv'
<1>1. PICK l, t :
        /\ l = listen[s].lease /\ t = Head(queue[l])
        /\ listen[s].pc \in {"waiting", "broken"} /\ listen[s].token = None
        /\ queue[l] # <<>>
        /\ listen' = [listen EXCEPT ![s].token = t]
        /\ queue' = [queue EXCEPT ![l] = Tail(@)]
        /\ UNCHANGED <<lease, dial, delivered, lost>>
  BY DEF ReceiveToken
<1>2. l \in Leases
  BY <1>1 DEF SafetyInv, ListenBound
<1>3. /\ queue[l] \in Seq(Dials) /\ queue'[l] = Tail(queue[l])
      /\ \A k \in Leases \ {l} : queue'[k] = queue[k]
  BY <1>1, <1>2 DEF SafetyInv, TypeOK
<1>4. /\ t \in Dials /\ Tail(queue[l]) \in Seq(Dials) /\ Len(queue'[l]) <= Len(queue[l])
      /\ Range(queue[l]) = Range(queue'[l]) \cup {t}
      /\ IsInjective(queue'[l]) /\ t \notin Range(queue'[l])
  BY <1>1, <1>2, <1>3, TailRange DEF SafetyInv, OnePlace
<1>5. /\ \A k \in Leases : t \in Range(queue[k]) => k = l
      /\ \A r \in Listens : listen[r].token # t /\ t \notin Range(delivered[r])
      /\ t \notin lost /\ dial[t].pc = "ok" /\ dial[t].lease = l
  <2>1. t \in Range(queue[l])
    BY <1>4
  <2>. QED BY <1>2, <1>4, <2>1, QueuedAlone DEF SafetyInv, QueueBound
<1>6. /\ listen' \in [Listens -> [pc : {"off", "waiting", "broken", "ended"},
                                  exporter : Exporters \cup {None},
                                  lease : Leases \cup {None}, token : Dials \cup {None}]]
      /\ \A r \in Listens \ {s} : listen'[r] = listen[r]
      /\ listen'[s].token = t /\ listen'[s].pc = listen[s].pc
      /\ listen'[s].lease = l /\ listen'[s].exporter = listen[s].exporter
  <2>1. /\ listen \in [Listens -> [pc : {"off", "waiting", "broken", "ended"},
                                   exporter : Exporters \cup {None},
                                   lease : Leases \cup {None}, token : Dials \cup {None}]]
        /\ listen' = [listen EXCEPT ![s].token = t] /\ t \in Dials /\ l = listen[s].lease
    BY <1>1, <1>4 DEF SafetyInv, TypeOK
  <2>. QED BY <2>1
<1>7. lease[l].exporterRef = listen[s].exporter /\ listen[s].exporter \in Exporters
  BY <1>1 DEF SafetyInv, ListenBound
<1>8. TypeOK'
  <2>1. queue' \in [Leases -> Seq(Dials)]
    BY <1>1, <1>4 DEF SafetyInv, TypeOK
  <2>2. Len(queue[l]) \in Nat /\ Len(queue'[l]) \in Nat /\ Len(queue[l]) <= Capacity
    BY <1>2, <2>1 DEF SafetyInv, TypeOK
  <2>3. Len(queue'[l]) <= Capacity
    BY <1>4, <2>2, CapacityAssumption
  <2>4. \A k \in Leases : Len(queue'[k]) <= Capacity
    BY <1>3, <2>3 DEF SafetyInv, TypeOK
  <2>. QED BY <1>1, <1>6, <2>1, <2>4 DEF SafetyInv, TypeOK
<1>9. OnePlace'
  <2>1. Places(t)' = {<<"hand", s>>}
    <3>1. {k \in Leases : t \in Range(queue'[k])} = {}
      BY <1>3, <1>4, <1>5
    <3>2. {r \in Listens : listen'[r].token = t} = {s}
      BY <1>5, <1>6
    <3>3. {r \in Listens : t \in Range(delivered'[r])} = {} /\ t \notin lost'
      BY <1>1, <1>5
    <3>. QED BY <3>1, <3>2, <3>3 DEF Places
  <2>2. ASSUME NEW d \in Dials \ {t}
        PROVE  Places(d)' = Places(d) /\ dial'[d].pc = dial[d].pc
    <3>1. \A k \in Leases : d \in Range(queue'[k]) <=> d \in Range(queue[k])
      BY <1>3, <1>4
    <3>2. \A r \in Listens : listen'[r].token = d <=> listen[r].token = d
      BY <1>1, <1>6, NoneIsNoName
    <3>. QED BY <1>1, <3>1, <3>2, PlacesKept
  <2>3. /\ \A k \in Leases : IsInjective(queue'[k])
        /\ \A r \in Listens : IsInjective(delivered'[r])
    BY <1>1, <1>3, <1>4 DEF SafetyInv, OnePlace
  <2>. QED BY <1>1, <1>4, <1>5, <2>1, <2>2, <2>3, TokenMoves DEF SafetyInv
<1>10. DialBound'
  BY <1>1, DialBoundKept DEF SafetyInv
<1>11. QueueBound'
  BY <1>1, <1>3, <1>4 DEF SafetyInv, QueueBound
<1>12. ListenBound'
  BY <1>1, <1>2, <1>6, <1>7 DEF SafetyInv, ListenBound
<1>13. DeliveredToHolder'
  BY <1>1, <1>5, <1>6, <1>12, HolderFollows DEF SafetyInv, DeliveredToHolder
<1>. QED BY <1>8, <1>9, <1>10, <1>11, <1>12, <1>13 DEF SafetyInv

(* A token goes from the hand of a Listen to its exporter, or is lost with *)
(* the stream.                                                             *)
LEMMA TokenLeavesSafe ==
  ASSUME SafetyInv, NEW s \in Listens, SendToken(s) \/ ListenReturns(s)
  PROVE  SafetyInv'
<1>0. PICK t : t = listen[s].token
  OBVIOUS
<1>1. listen[s].pc # "off" /\ t \in Dials \cup {None} /\ UNCHANGED <<lease, queue, dial>>
  BY <1>0 DEF SendToken, ListenReturns, SafetyInv, TypeOK
<1>2. /\ listen[s].lease \in Leases /\ listen[s].exporter \in Exporters
      /\ lease[listen[s].lease].exporterRef = listen[s].exporter
  BY <1>1 DEF SafetyInv, ListenBound
<1>3. /\ listen' \in [Listens -> [pc : {"off", "waiting", "broken", "ended"},
                                  exporter : Exporters \cup {None},
                                  lease : Leases \cup {None}, token : Dials \cup {None}]]
      /\ \A r \in Listens \ {s} : listen'[r] = listen[r]
      /\ listen'[s].token = None /\ listen'[s].pc # "off"
      /\ listen'[s].lease = listen[s].lease /\ listen'[s].exporter = listen[s].exporter
  <2>1. CASE SendToken(s)
    BY <2>1 DEF SendToken, SafetyInv, TypeOK
  <2>2. CASE ListenReturns(s)
    BY <2>2 DEF ListenReturns, SafetyInv, TypeOK
  <2>. QED BY <2>1, <2>2
<1>4. /\ delivered' \in [Listens -> Seq(Dials)]
      /\ lost' \subseteq Dials
      /\ \A r \in Listens \ {s} : delivered'[r] = delivered[r]
      /\ IsInjective(delivered'[s])
      /\ Range(delivered'[s]) \subseteq Range(delivered[s]) \cup ({t} \ {None})
      /\ \A d \in Dials \ {t} : /\ d \in Range(delivered'[s]) <=> d \in Range(delivered[s])
                                /\ d \in lost' <=> d \in lost
      /\ t \in Dials => \/ t \in Range(delivered'[s]) /\ lost' = lost
                        \/ t \in lost' /\ delivered' = delivered
  <2>1. CASE SendToken(s)
    <3>1. /\ t \in Dials /\ lost' = lost /\ t # None
          /\ delivered' = [delivered EXCEPT ![s] = Append(@, t)]
      BY <1>0, <1>1, <2>1 DEF SendToken
    <3>2. delivered[s] \in Seq(Dials) /\ IsInjective(delivered[s])
      BY DEF SafetyInv, TypeOK, OnePlace
    <3>3. t \notin Range(delivered[s])
      BY <1>0, <3>1, HeldAlone DEF SafetyInv
    <3>4. /\ Append(delivered[s], t) \in Seq(Dials)
          /\ Range(Append(delivered[s], t)) = Range(delivered[s]) \cup {t}
          /\ IsInjective(Append(delivered[s], t))
      BY <3>1, <3>2, <3>3, AppendRange
    <3>5. /\ delivered' \in [Listens -> Seq(Dials)]
          /\ delivered'[s] = Append(delivered[s], t)
          /\ \A r \in Listens \ {s} : delivered'[r] = delivered[r]
      BY <3>1, <3>4 DEF SafetyInv, TypeOK
    <3>6. lost \subseteq Dials
      BY DEF SafetyInv, TypeOK
    <3>. QED BY <3>1, <3>4, <3>5, <3>6
  <2>2. CASE ListenReturns(s)
    <3>1. lost' = lost \cup ({t} \ {None}) /\ delivered' = delivered
      BY <1>0, <2>2 DEF ListenReturns
    <3>2. /\ delivered \in [Listens -> Seq(Dials)] /\ lost \subseteq Dials
          /\ IsInjective(delivered[s])
      BY DEF SafetyInv, TypeOK, OnePlace
    <3>. QED BY <1>1, <3>1, <3>2, NoneIsNoName
  <2>. QED BY <2>1, <2>2
<1>5. TypeOK'
  BY <1>1, <1>3, <1>4 DEF SafetyInv, TypeOK
<1>6. DialBound' /\ QueueBound'
  BY <1>1, DialBoundKept DEF SafetyInv, QueueBound
<1>7. ListenBound'
  <2>1. ASSUME NEW r \in Listens, r # s
        PROVE  listen'[r] = listen[r] /\ delivered'[r] = delivered[r]
    BY <1>3, <1>4, <2>1
  <2>2. /\ lease[listen'[s].lease].exporterRef = listen'[s].exporter
        /\ listen'[s].lease \in Leases /\ listen'[s].exporter \in Exporters
    BY <1>2, <1>3
  <2>. QED BY <1>1, <1>3, <2>1, <2>2 DEF SafetyInv, ListenBound
<1>8. DeliveredToHolder'
  <2>1. \A r \in Listens : \A d \in Range(delivered[r]) \cup ({listen[r].token} \ {None}) :
          dial[d].lease = listen[r].lease
    BY DEF SafetyInv, DeliveredToHolder
  <2>2. ASSUME NEW r \in Listens,
               NEW d \in Range(delivered'[r]) \cup ({listen'[r].token} \ {None})
        PROVE  dial'[d].lease = listen'[r].lease
    <3>1. CASE r = s
      <4>1. d \in Range(delivered[s]) \cup ({listen[s].token} \ {None})
        BY <1>0, <1>3, <1>4, <2>2, <3>1
      <4>. QED BY <1>1, <1>3, <2>1, <3>1, <4>1
    <3>2. CASE r # s
      BY <1>1, <1>3, <1>4, <2>1, <2>2, <3>2
    <3>. QED BY <3>1, <3>2
  <2>. QED BY <1>7, <2>2, HolderFollows
<1>9. OnePlace'
  <2>1. /\ \A l \in Leases : IsInjective(queue'[l])
        /\ \A r \in Listens : IsInjective(delivered'[r])
    BY <1>1, <1>4 DEF SafetyInv, OnePlace
  <2>2. ASSUME NEW d \in Dials, d # t
        PROVE  Places(d)' = Places(d) /\ dial'[d].pc = dial[d].pc
    <3>1. \A r \in Listens : /\ listen'[r].token = d <=> listen[r].token = d
                             /\ d \in Range(delivered'[r]) <=> d \in Range(delivered[r])
      BY <1>0, <1>3, <1>4, <2>2, NoneIsNoName
    <3>. QED BY <1>1, <1>4, <2>2, <3>1, PlacesKept
  <2>3. CASE t = None
    <3>1. \A d \in Dials : d # t
      BY <2>3, NoneIsNoName
    <3>. QED BY <2>1, <2>2, <3>1 DEF SafetyInv, OnePlace
  <2>4. CASE t \in Dials
    <3>1. /\ \A l \in Leases : t \notin Range(queue[l])
          /\ \A r \in Listens : /\ listen[r].token = t => r = s
                                /\ t \notin Range(delivered[r])
          /\ t \notin lost /\ dial[t].pc = "ok"
      BY <1>0, <2>4, HeldAlone DEF SafetyInv
    <3>2. /\ {l \in Leases : t \in Range(queue'[l])} = {}
          /\ {r \in Listens : listen'[r].token = t} = {}
      BY <1>1, <1>3, <2>4, <3>1, NoneIsNoName
    <3>3. PICK p : Places(t)' = {p}
      <4>1. CASE t \in Range(delivered'[s]) /\ lost' = lost
        <5>1. {r \in Listens : t \in Range(delivered'[r])} = {s} /\ t \notin lost'
          BY <1>4, <3>1, <4>1
        <5>2. Places(t)' = {<<"exporter", s>>}
          BY <3>2, <5>1 DEF Places
        <5>. QED BY <5>2
      <4>2. CASE t \in lost' /\ delivered' = delivered
        <5>1. {r \in Listens : t \in Range(delivered'[r])} = {} /\ t \in lost'
          BY <3>1, <4>2
        <5>2. Places(t)' = {<<"lost">>}
          BY <3>2, <5>1 DEF Places
        <5>. QED BY <5>2
      <4>. QED BY <1>4, <2>4, <4>1, <4>2
    <3>. QED BY <1>1, <2>1, <2>2, <2>4, <3>1, <3>3, TokenMoves DEF SafetyInv
  <2>. QED BY <1>1, <2>3, <2>4
<1>. QED BY <1>5, <1>6, <1>7, <1>8, <1>9 DEF SafetyInv

-----------------------------------------------------------------------------
(* The theorems *)

(* Every step keeps the invariant. *)
LEMMA SafetyNext == SafetyInv /\ [Next]_vars => SafetyInv'
<1>. SUFFICES ASSUME SafetyInv, [Next]_vars PROVE SafetyInv'
  OBVIOUS
<1>1. CASE UNCHANGED vars
  <2>1. UNCHANGED <<lease, queue, dial, listen, delivered, lost>>
    BY <1>1 DEF vars
  <2>2. TypeOK' /\ ListenBound' /\ QueueBound' /\ DeliveredToHolder'
    BY <2>1 DEF SafetyInv, TypeOK, ListenBound, QueueBound, DeliveredToHolder
  <2>. QED BY <2>1, <2>2, DialBoundKept, TokensRest DEF SafetyInv
<1>. QED BY <1>1, LeaseSafe, DialSafe, DialReturnsSafe, ListenSafe, ReceiveTokenSafe,
            TokenLeavesSafe DEF Next

(* The initial states satisfy it. *)
LEMMA SafetyInit == Init => SafetyInv
<1>. SUFFICES ASSUME Init PROVE SafetyInv
  OBVIOUS
<1>1. Range(<<>>) = {} /\ IsInjective(<<>>) /\ Len(<<>>) = 0
  BY DEF Range, IsInjective
<1>2. NoDial.pc = "off" /\ NoListen.pc = "off" /\ NoListen.token = None
  BY DEF NoDial, NoListen
<1>3. TypeOK
  <2>1. queue \in [Leases -> Seq(Dials)] /\ delivered \in [Listens -> Seq(Dials)]
    BY DEF Init
  <2>2. \A l \in Leases : Len(queue[l]) <= Capacity
    BY <1>1, CapacityAssumption DEF Init
  <2>3. lease \in [Leases -> [client : Clients, exporterRef : Exporters \cup {None},
                              live : BOOLEAN]]
    <3>1. [client : Clients, exporterRef : {None}, live : {TRUE}] \subseteq
            [client : Clients, exporterRef : Exporters \cup {None}, live : BOOLEAN]
      BY Zenon
    <3>. QED BY <3>1 DEF Init
  <2>. QED BY <2>1, <2>2, <2>3 DEF Init, TypeOK, NoDial, NoListen
<1>4. OnePlace
  <2>1. ASSUME NEW d \in Dials
        PROVE  Places(d) = {}
    <3>1. /\ {k \in Leases : d \in Range(queue[k])} = {}
          /\ {s \in Listens : d \in Range(delivered[s])} = {}
      BY <1>1 DEF Init
    <3>2. {s \in Listens : listen[s].token = d} = {}
      BY <1>2, NoneIsNoName DEF Init
    <3>. QED BY <3>1, <3>2 DEF Init, Places
  <2>. QED BY <1>1, <1>2, <2>1 DEF Init, OnePlace
<1>5. DialBound /\ ListenBound /\ QueueBound /\ DeliveredToHolder
  BY <1>1, <1>2 DEF Init, DialBound, ListenBound, QueueBound, DeliveredToHolder
<1>. QED BY <1>3, <1>4, <1>5 DEF SafetyInv

(* The invariant holds in every reachable state. *)
LEMMA SafetyAlways == Spec => []SafetyInv
BY SafetyInit, SafetyNext, PTL DEF Spec

(* The token of a Dial that returned is in exactly one place, once, and    *)
(* that of any other Dial nowhere, in every reachable state, whatever      *)
(* number of Listen streams come and go on the queue of a lease (Dial and  *)
(* Listen of ControllerService).                                           *)
THEOREM TokenAlwaysOnce == Spec => []TokenOnce
<1>1. SafetyInv => TokenOnce
  <2>. SUFFICES ASSUME SafetyInv PROVE TokenOnce
    OBVIOUS
  <2>1. ASSUME NEW d \in Dials
        PROVE  Cardinality(Places(d)) = IF dial[d].pc = "ok" THEN 1 ELSE 0
    <3>1. CASE dial[d].pc = "ok"
      <4>1. PICK p : p \in Places(d)
        BY <3>1 DEF SafetyInv, OnePlace
      <4>2. Places(d) = {p}
        BY <4>1 DEF SafetyInv, OnePlace
      <4>. QED BY <3>1, <4>2, FS_Singleton
    <3>2. CASE dial[d].pc # "ok"
      <4>1. Places(d) = {}
        BY <3>2 DEF SafetyInv, OnePlace
      <4>. QED BY <3>2, <4>1, FS_EmptySet
    <3>. QED BY <3>1, <3>2
  <2>. QED BY <2>1 DEF SafetyInv, OnePlace, TokenOnce
<1>. QED BY <1>1, SafetyAlways, PTL

(* In every reachable state an exporter has, and a Listen holds, tokens of *)
(* the lease alone that refers to this exporter: the check that Listen     *)
(* makes once, when the stream opens, stays good.                          *)
THEOREM AlwaysDeliveredToHolder == Spec => []DeliveredToHolder
<1>1. SafetyInv => DeliveredToHolder
  BY DEF SafetyInv
<1>. QED BY <1>1, SafetyAlways, PTL

(* In every reachable state the router of a Dial has every label of the    *)
(* exporter, when some router has: for any routers and labels, whatever    *)
(* the order the sort of Dial starts from.                                 *)
THEOREM RouterAlwaysFits == Spec => []RouterFits
<1>1. SafetyInv => RouterFits
  <2>. SUFFICES ASSUME SafetyInv, NEW d \in Dials, dial[d].pc # "off",
                       NEW r \in Routers,
                       Labels[lease[dial[d].lease].exporterRef] \subseteq Labels[r]
                PROVE  Labels[lease[dial[d].lease].exporterRef] \subseteq Labels[dial[d].router]
    BY DEF RouterFits
  <2>. DEFINE e == lease[dial[d].lease].exporterRef
  <2>1. dial[d].lease \in Leases /\ e # None /\ dial[d].router \in Candidates(e)
    BY DEF SafetyInv, DialBound
  <2>2. e \in Exporters
    BY <2>1 DEF SafetyInv, TypeOK
  <2>. HIDE DEF e
  <2>3. MatchLabels(r, e) \in Nat
    <3>1. MatchLabels(r, e) = Cardinality(Labels[e])
      BY DEF MatchLabels, e
    <3>2. IsFiniteSet(Labels[e])
      BY <2>2, LabelsAreFinite
    <3>. QED BY <3>1, <3>2, FS_CardinalityType
  <2>4. MatchLabels(dial[d].router, e) >= MatchLabels(r, e)
    BY <2>1 DEF Candidates
  <2>5. MatchLabels(dial[d].router, e) # -1
    BY <2>3, <2>4
  <2>. QED BY <2>5 DEF MatchLabels, e
<1>. QED BY <1>1, SafetyAlways, PTL
=============================================================================
