----------------------------- MODULE LeaseTimes -----------------------------
(***************************************************************************)
(* The time arithmetic of a lease (api/v1alpha1/lease_helpers.go and the   *)
(* expiry rule of internal/controller/lease_controller.go).  A nil pointer *)
(* of the Go code is None; instants and durations are integers of a clock  *)
(* unit of which a second has Second.                                      *)
(***************************************************************************)
EXTENDS Integers

CONSTANTS
  None,   \* the nil pointer
  Second  \* clock units in a second

ASSUME NoneAssumption == None \notin Int
ASSUME SecondAssumption == Second \in Nat \ {0}

Opt(S) == S \cup {None}

(* The three time fields of LeaseSpec, each optional. *)
TimeFields == [begin : Opt(Int), end : Opt(Int), dur : Opt(Int)]

(* A metav1.Time written to the API server keeps whole seconds; a          *)
(* metav1.Duration is kept as it is.                                       *)
Whole(t) == IF t = None THEN None ELSE t - (t % Second)

Positive(d) == d # None /\ d > 0

(* Mistake: begin is computed on the wrong side of end.  (A definition so   *)
(* marked is a wrong version of the one after it; nothing uses it.)         *)
CompleteWrongSide(t) ==
  IF t.begin # None /\ t.end # None
  THEN [t EXCEPT !.dur = t.end - t.begin]
  ELSE IF t.end # None /\ Positive(t.dur)
       THEN [t EXCEPT !.begin = t.end + t.dur]
       ELSE t

(* ReconcileLeaseTimeFields: the field it computes from the other two. *)
CompleteTimeFields(t) ==
  IF t.begin # None /\ t.end # None
  THEN [t EXCEPT !.dur = t.end - t.begin]
  ELSE IF t.end # None /\ Positive(t.dur)
       THEN [t EXCEPT !.begin = t.end - t.dur]
       ELSE t

(* ReconcileLeaseTimeFields: it returns no error. *)
TimeFieldsAccepted(t) ==
  /\ (t.begin # None /\ t.end # None /\ Positive(t.dur))
       => t.dur = t.end - t.begin
  /\ Positive(CompleteTimeFields(t).dur)

(* The duration is that of the window, but for less than a second. *)
WindowNear(t) ==
  (t.begin # None /\ t.end # None /\ t.dur # None) =>
    /\ t.dur < t.end - t.begin + Second
    /\ t.end - t.begin < t.dur + Second

(* attachMatchingPolicies: the duration a policy's maximum is held against. *)
RequestedDuration(t) ==
  IF t.dur # None THEN t.dur
  ELSE IF t.begin # None /\ t.end # None THEN t.end - t.begin ELSE 0

(* Go's zero time.Time precedes every instant the clock shows. *)
ZeroTime == -1

(* reconcileStatusEnded: when a lease that began at sbegin runs out. *)
Expiration(t, sbegin) ==
  CASE t.end # None                     -> t.end
    [] t.end = None /\ t.begin # None /\ t.dur # None -> t.begin + t.dur
    [] t.end = None /\ t.begin = None /\ t.dur # None -> sbegin + t.dur
    [] OTHER                            -> ZeroTime
=============================================================================
