----------------------- MODULE LeaseSelectionProofs -----------------------
(* ParseLabelSelector keeps what a selector means, for any number of       *)
(* requirements, keys and values; and so does the life of a lease.         *)
EXTENDS LeaseSelection, LeaseControllerProofs

(* A requirement other than (in)equality is taken over as it is. *)
LEMMA KeptRequirements ==
  ASSUME NEW reqs, NEW labels, NEW r \in reqs, r.op \in {"in", "notin", "exists", "!"}
  PROVE  r \in ParseLabelSelector(reqs).matchExpressions
BY DEF ParseLabelSelector

(* The selector that a Lease keeps selects an exporter if and only if its  *)
(* labels satisfy all that the client wrote (ParseLabelSelector): several  *)
(* != for one key become one notin, equalities become match labels.        *)
THEOREM SelectorKeepsMeaning ==
  ASSUME NEW reqs, \A r \in reqs : IsRequirement(r), ~ParseRefuses(reqs), NEW labels
  PROVE  Selects(ParseLabelSelector(reqs), labels) <=> Meant(labels, reqs)
<1> DEFINE sel == ParseLabelSelector(reqs)
           present(r) == r.key \in DOMAIN labels
<1>1. ASSUME Meant(labels, reqs) PROVE Selects(sel, labels)
  <2>1. ASSUME NEW p \in sel.matchLabels PROVE present([key |-> p[1]]) /\ labels[p[1]] = p[2]
    <3>1. PICK r \in reqs : r.op = "=" /\ p \in {r.key} \X r.values
      BY <2>1 DEF ParseLabelSelector
    <3>2. PICK v : r.values = {v}
      BY <3>1 DEF IsRequirement
    <3>3. p[1] = r.key /\ p[2] = v
      BY <3>1, <3>2
    <3>4. Satisfies(labels, r)
      BY <1>1 DEF Meant
    <3> QED BY <3>1, <3>2, <3>3, <3>4 DEF Satisfies
  <2>2. ASSUME NEW e \in sel.matchExpressions PROVE Satisfies(labels, e)
    <3>1. CASE e \in reqs
      BY <1>1, <3>1 DEF Meant
    <3>2. CASE e \notin reqs
      <4>1. PICK r \in reqs : /\ r.op = "!="
                              /\ e = [op |-> "notin", key |-> r.key,
                                      values |-> NotEqualsByKey(reqs, r.key)]
        BY <2>2, <3>2 DEF ParseLabelSelector
      <4>2. ASSUME present(r), labels[r.key] \in NotEqualsByKey(reqs, r.key) PROVE FALSE
        <5>1. PICK q \in reqs : q.op = "!=" /\ q.key = r.key /\ labels[r.key] \in q.values
          BY <4>2 DEF NotEqualsByKey
        <5>2. Satisfies(labels, q)
          BY <1>1 DEF Meant
        <5> QED BY <4>2, <5>1, <5>2 DEF Satisfies
      <4> QED BY <4>1, <4>2 DEF Satisfies
    <3> QED BY <3>1, <3>2
  <2> QED BY <2>1, <2>2 DEF Selects
<1>2. ASSUME Selects(sel, labels), NEW r \in reqs PROVE Satisfies(labels, r)
  <2>1. CASE r.op = "="
    <3>1. PICK v : r.values = {v}
      BY <2>1 DEF IsRequirement
    <3>2. <<r.key, v>> \in sel.matchLabels
      BY <2>1, <3>1 DEF ParseLabelSelector
    <3>3. r.key \in DOMAIN labels /\ labels[r.key] = v
      BY <1>2, <3>2 DEF Selects
    <3> QED BY <2>1, <3>1, <3>3 DEF Satisfies
  <2>2. CASE r.op = "!="
    <3> DEFINE e == [op |-> "notin", key |-> r.key, values |-> NotEqualsByKey(reqs, r.key)]
    <3>1. e \in sel.matchExpressions
      BY <2>2 DEF ParseLabelSelector
    <3>2. Satisfies(labels, e)
      BY <1>2, <3>1 DEF Selects
    <3>3. r.values \subseteq NotEqualsByKey(reqs, r.key)
      BY <2>2 DEF NotEqualsByKey
    <3> QED BY <2>2, <3>2, <3>3 DEF Satisfies
  <2>3. CASE r.op \in {"in", "notin", "exists", "!"}
    BY <1>2, <2>3, KeptRequirements DEF Selects
  <2>4. r.op \in {"=", "!=", "in", "notin", "exists", "!"}
    BY DEF IsRequirement, Operators, ParseRefuses, Unsupported
  <2> QED BY <2>1, <2>2, <2>3, <2>4
<1> QED BY <1>1, <1>2 DEF Meant

(* A selector that is refused although it uses supported operators only    *)
(* ("multiple equality requirements") would have selected no exporter: no  *)
(* client loses an exporter it asked for.                                  *)
THEOREM RefusedSelectsNothing ==
  ASSUME NEW reqs, \A r \in reqs : IsRequirement(r), ParseRefuses(reqs), ~Unsupported(reqs),
         NEW labels
  PROVE  ~Meant(labels, reqs)
<1>1. PICK r, q \in reqs : r.op = "=" /\ q.op = "=" /\ r.key = q.key /\ r.values # q.values
  BY DEF ParseRefuses, Contradictory
<1>2. PICK v, w : r.values = {v} /\ q.values = {w}
  BY <1>1 DEF IsRequirement
<1>3. ASSUME Meant(labels, reqs) PROVE labels[r.key] \in r.values /\ labels[q.key] \in q.values
  BY <1>1, <1>3 DEF Meant, Satisfies
<1> QED BY <1>1, <1>2, <1>3

(* Through creation, updates, the informer's copies, conflicts and         *)
(* restarts, the exporter a lease holds satisfies every requirement that   *)
(* its client wrote, for any labels and any selectors: what                *)
(* ParseLabelSelector keeps means the same, no patch changes it, and only  *)
(* exporters listed by it are assigned (SelectorHonoured).                 *)
THEOREM SelectorAlwaysHonoured == Spec => []SelectorHonoured
<1>1. SelectionInv => SelectorHonoured
  <2>. SUFFICES ASSUME SelectionInv, NEW l \in Live, NEW text \in Accepted,
                       lease[l].status.exporterRef # None,
                       SelectorOf(text) = lease[l].spec.sel
                PROVE  Meant(ExporterLabels(lease[l].status.exporterRef), text)
    BY DEF SelectorHonoured
  <2>. DEFINE e == lease[l].status.exporterRef
  <2>1. e \in SelectorOf(text).match
    BY DEF SelectionInv, Selected, Live
  <2>2. Selects(ParseLabelSelector(text), ExporterLabels(e))
    BY <2>1 DEF SelectorOf
  <2>3. ~ParseRefuses(text) /\ \A r \in text : IsRequirement(r)
    BY TextsAssumption DEF Accepted
  <2>. QED BY <2>2, <2>3, SelectorKeepsMeaning
<1>. QED BY <1>1, SelectionAlways, PTL
=============================================================================
