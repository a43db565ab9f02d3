----------------------------- MODULE MCIdentity -----------------------------
(* Small instances of Identity. *)
EXTENDS Identity

C1 == <<"Client", "c1">>

(* Both users normalise to the same name. *)
SameName == [u \in Users |-> C1]

Ask(rpc, kind, name, user, here) ==
  [rpc |-> rpc, kind |-> kind, name |-> name, user |-> user, here |-> here]

SomeRequests ==
  {Ask("Client", "Client", None, u, TRUE) : u \in Users} \cup
  {Ask(KindOf(n), KindOf(n), n, None, TRUE) : n \in Names} \cup
  {Ask("Exporter", "Client", C1, None, TRUE), Ask("Client", "Client", C1, None, FALSE)}

Provisioning == [router |-> "good", authentication |-> "none", config |-> "provisioning"]
Old == [Provisioning EXCEPT !.authentication = "good"]

NoRouter == [Provisioning EXCEPT !.router = "none"]

(* Provisioning on, off because of the old section, and nothing to start with. *)
SomeConfigMaps == {Provisioning, Old, NoRouter}
OneClient == {C1}
=============================================================================
