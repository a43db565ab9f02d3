--------------------------- MODULE LeaseLifecycle ---------------------------
(***************************************************************************)
(* What a client of the controller may rely on for a lease: it waits, is   *)
(* granted one exporter, unless its release was asked for before, ends and *)
(* never comes back, and a release asked for is not forgotten.  That no    *)
(* other lease has the exporter is not part of it: see ExclusiveExporter   *)
(* and SecondBookingUnseen of LeaseController.                             *)
(***************************************************************************)
CONSTANTS Leases, Exporters, None

VARIABLES
  phase,     \* per lease: "unborn", "waiting", "active", "ended" or "gone"
  holds,     \* the exporter an active lease has, None otherwise
  released   \* per lease: its release was asked for

lvars == <<phase, holds, released>>

Init ==
  /\ phase = [l \in Leases |-> "unborn"]
  /\ holds = [l \in Leases |-> None]
  /\ released = [l \in Leases |-> FALSE]

Ask(l) ==
  /\ phase[l] = "unborn"
  /\ phase' = [phase EXCEPT ![l] = "waiting"]
  /\ UNCHANGED <<holds, released>>

Release(l) ==
  /\ phase[l] \in {"waiting", "active", "ended"}
  /\ released' = [released EXCEPT ![l] = TRUE]
  /\ UNCHANGED <<phase, holds>>

Grant(l, e) ==
  /\ phase[l] = "waiting" /\ ~released[l]
  /\ phase' = [phase EXCEPT ![l] = "active"]
  /\ holds' = [holds EXCEPT ![l] = e]
  /\ UNCHANGED released

End(l) ==
  /\ phase[l] \in {"waiting", "active"}
  /\ phase' = [phase EXCEPT ![l] = "ended"]
  /\ holds' = [holds EXCEPT ![l] = None]
  /\ UNCHANGED released

Vanish(l) ==
  /\ phase[l] \in {"active", "ended"}
  /\ phase' = [phase EXCEPT ![l] = "gone"]
  /\ holds' = [holds EXCEPT ![l] = None]
  /\ released' = [released EXCEPT ![l] = FALSE]

Next ==
  \E l \in Leases :
    \/ Ask(l) \/ Release(l) \/ End(l) \/ Vanish(l)
    \/ \E e \in Exporters : Grant(l, e)

Spec == Init /\ [][Next]_lvars
=============================================================================
