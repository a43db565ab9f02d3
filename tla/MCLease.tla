------------------------------ MODULE MCLease ------------------------------
(* Small instances of LeaseSelection. *)
EXTENDS LeaseSelection, TLC

OneExporter == {1}
TwoExporters == {1, 2}

Labels(S) == [kind |-> "labels", match |-> S]

SelectsAll == {Labels(Exporters)}
ConvertibleOrNot == {Labels(Exporters), [kind |-> "invalid", match |-> {}]}
EverySelector ==
  {Labels(Exporters), [kind |-> "empty", match |-> Exporters],
   [kind |-> "invalid", match |-> {}]}

(* Exporters have one label, which is their rank; of the selectors written *)
(* by clients the first two rule out two values of it, one of them that of *)
(* exporter 1 in the second, and the third is refused.                     *)
BoardLabels(e) == [board |-> e]
Requirement(op, vals) == [op |-> op, key |-> "board", values |-> vals]
BoardTexts ==
  {{Requirement("!=", {8}), Requirement("!=", {9})},
   {Requirement("!=", {0}), Requirement("!=", {1})},
   {Requirement("=", {1}), Requirement("=", {9})}}

Unrestricted == {{}}

Clause(S, C, p, s, d) ==
  [exporters |-> S, clients |-> C, priority |-> p, spot |-> s, maxDur |-> d,
   malformed |-> FALSE]

(* No policy; exporter 1 under spot access and 2 for leases of one unit;   *)
(* both by priority; a policy for nobody; a policy that does not convert.  *)
SpotFirst ==
  {Clause({1}, Clients, 5, TRUE, None), Clause({2}, Clients, 0, FALSE, 1)}
Ranked ==
  {Clause({1}, Clients, 1, FALSE, None), Clause({2}, Clients, 5, FALSE, None),
   Clause({1}, Clients, 9, TRUE, None)}
Nobody == {Clause(Exporters, {}, 0, FALSE, None)}
Malformed == {[Clause(Exporters, Clients, 0, FALSE, None) EXCEPT !.malformed = TRUE]}
EveryPolicy == {{}, SpotFirst, Ranked, Nobody, Malformed}

Ask(b, e, d) == [begin |-> b, end |-> e, dur |-> d]

NoAsks == {}
OneAsk == {Ask(None, None, 1)}
(* Creations and updates of every kind: duration, begin with duration, a   *)
(* window, end with duration, and a contradictory one, which is refused.   *)
EveryAsk ==
  {Ask(None, None, 1), Ask(1, None, 1), Ask(1, 3, None), Ask(None, 3, 1),
   Ask(1, 3, 1)}

OneUnit == {1}
NoLegacy == {}

(* Leases are alike. *)
Interchangeable == Permutations(Leases)
=============================================================================
