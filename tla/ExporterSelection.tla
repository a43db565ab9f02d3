------------------------- MODULE ExporterSelection -------------------------
(***************************************************************************)
(* How reconcileStatusExporterRef picks an exporter                        *)
(* (internal/controller/lease_controller.go): policy approval, the filter  *)
(* of offline exporters, the attachment of existing leases, the order and  *)
(* the filter of leased exporters.                                         *)
(*                                                                         *)
(* Label selectors are abstracted to the set they match.  Exporters are    *)
(* identified by the rank of their name, so that strings.Compare is <.     *)
(***************************************************************************)
EXTENDS LeaseTimes

CONSTANTS
  Exporters,  \* exporter objects, by rank of their name
  Clients     \* client objects

ASSUME ExportersAssumption == Exporters \subseteq Nat

(* One clause of an ExporterAccessPolicy: its ExporterSelector, one of its *)
(* Policies and one From of that policy.  malformed says that one of the   *)
(* two selectors is not a valid label selector.  A policy object without    *)
(* clauses is a rule that admits no client.                                *)
Rule == [exporters : SUBSET Exporters, clients : SUBSET Clients,
         priority : Int, spot : BOOLEAN, maxDur : Opt(Int),
         malformed : BOOLEAN]

(* The fields of ApprovedExporter the code reads, but for ExistingLease. *)
Entry == [exporter : Exporters, priority : Int, spot : BOOLEAN]

(* attachMatchingPolicies fails on a selector it cannot convert, once an   *)
(* exporter makes it look at the clause.                                   *)
PolicyError(matching, rules) ==
  \E r \in rules : r.malformed /\ r.exporters \cap matching # {}

Admits(r, e, client, dur) ==
  /\ e \in r.exporters
  /\ client \in r.clients
  /\ r.maxDur # None => dur <= r.maxDur

(* attachMatchingPolicies: with no policy at all every exporter is approved. *)
Approved(matching, rules, client, dur) ==
  IF rules = {}
  THEN {[exporter |-> e, priority |-> 0, spot |-> FALSE] : e \in matching}
  ELSE {[exporter |-> p[1], priority |-> p[2].priority, spot |-> p[2].spot] :
          p \in {q \in matching \X rules : Admits(q[2], q[1], client, dur)}}

(* filterOutOfflineExporters *)
Online(approved, online) == {a \in approved : a.exporter \in online}

(* Mistake: the lowest priority comes first.  (A definition so marked is a  *)
(* wrong version of the one after it; nothing uses it.)                     *)
BeforeAscending(a, b, leased) ==
  \/ a.exporter \notin leased /\ b.exporter \in leased
  \/ /\ (a.exporter \in leased) = (b.exporter \in leased)
     /\ \/ ~a.spot /\ b.spot
        \/ /\ a.spot = b.spot
           /\ \/ a.priority < b.priority
              \/ a.priority = b.priority /\ a.exporter < b.exporter

(* orderApprovedExporters: a is sorted before b.  leased is the set of     *)
(* exporters to which attachExistingLeases attached a lease.               *)
Before(a, b, leased) ==
  \/ a.exporter \notin leased /\ b.exporter \in leased
  \/ /\ (a.exporter \in leased) = (b.exporter \in leased)
     /\ \/ ~a.spot /\ b.spot
        \/ /\ a.spot = b.spot
           /\ \/ a.priority > b.priority
              \/ a.priority = b.priority /\ a.exporter < b.exporter

(* The head of the sorted slice: entries of S that nothing precedes. *)
First(S, leased) == {a \in S : \A b \in S : ~Before(b, a, leased)}

(* filterOutLeasedExporters: spotHeld is the set of exporters whose        *)
(* attached lease was granted under spot access.                           *)
Available(S, leased, spotHeld) ==
  {a \in S : \/ a.exporter \notin leased
             \/ ~a.spot /\ a.exporter \in spotHeld}
=============================================================================
