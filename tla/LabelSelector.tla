--------------------------- MODULE LabelSelector ---------------------------
(***************************************************************************)
(* ParseLabelSelector (api/v1alpha1/lease_helpers.go): the selector that a *)
(* client writes is parsed into requirements by labels.Parse and turned    *)
(* into the LabelSelector that the Lease keeps, which the reconciler turns *)
(* back into requirements (GetExporterSelector).                           *)
(*                                                                         *)
(* Labels are a function from keys to values.  A requirement is            *)
(* [op, key, values]; gt stands for the operators that a LabelSelector     *)
(* does not know.                                                          *)
(*                                                                         *)
(* A definition whose comment starts with "Mistake:" is a wrong version of *)
(* the definition after it; nothing uses it.                               *)
(***************************************************************************)

Operators == {"=", "==", "!=", "in", "notin", "exists", "!", "gt"}

(* What labels.Parse makes: (in)equality has one value. *)
IsRequirement(r) ==
  /\ r.op \in Operators
  /\ r.op \in {"=", "==", "!="} => \E v \in r.values : r.values = {v}

(* Requirement.Matches *)
Satisfies(labels, r) ==
  \/ r.op \in {"=", "==", "in"} /\ r.key \in DOMAIN labels /\ labels[r.key] \in r.values
  \/ r.op \in {"!=", "notin"} /\ ~(r.key \in DOMAIN labels /\ labels[r.key] \in r.values)
  \/ r.op = "exists" /\ r.key \in DOMAIN labels
  \/ r.op = "!" /\ r.key \notin DOMAIN labels

(* What the client asked for. *)
Meant(labels, reqs) == \A r \in reqs : Satisfies(labels, r)

-----------------------------------------------------------------------------
(* "unsupported label selector operator": == is one, unlike =. *)
Unsupported(reqs) == \E r \in reqs : r.op \in {"==", "gt"}

(* "cannot have multiple equality requirements with different values" *)
Contradictory(reqs) ==
  \E r, q \in reqs : r.op = "=" /\ q.op = "=" /\ r.key = q.key /\ r.values # q.values

ParseRefuses(reqs) == Unsupported(reqs) \/ Contradictory(reqs)

(* Mistake: of several != for a key one is kept. *)
NotEqualsLast(reqs, key) ==
  (CHOOSE r \in reqs : r.op = "!=" /\ r.key = key).values

(* The values that are ruled out for a key, gathered over the requirements. *)
NotEqualsByKey(reqs, key) == UNION {r.values : r \in {q \in reqs : q.op = "!=" /\ q.key = key}}

ParseLabelSelector(reqs) ==
  [matchLabels |-> UNION {{r.key} \X r.values : r \in {q \in reqs : q.op = "="}},
   matchExpressions |->
     {r \in reqs : r.op \in {"in", "notin", "exists", "!"}} \cup
     {[op |-> "notin", key |-> r.key, values |-> NotEqualsByKey(reqs, r.key)] :
        r \in {q \in reqs : q.op = "!="}}]

(* LabelSelectorAsSelector *)
Selects(sel, labels) ==
  /\ \A p \in sel.matchLabels : p[1] \in DOMAIN labels /\ labels[p[1]] = p[2]
  /\ \A r \in sel.matchExpressions : Satisfies(labels, r)

(* selector.Empty() *)
SelectsEverything(sel) == sel.matchLabels = {} /\ sel.matchExpressions = {}
=============================================================================
