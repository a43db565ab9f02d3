----------------------------- MODULE MCOperator -----------------------------
(* Small instances of Operator. *)
EXTENDS Operator

Ep(ks) == [kinds |-> ks, address |-> "", labels |-> 1]

(* Scaled out without a base domain, with two endpoints of the controller  *)
(* that contend for one service; and scaled in, with a second endpoint for *)
(* the router.                                                             *)
Wide == [domain |-> FALSE, image |-> 1, replicas |-> MaxReplicas,
         controller |-> <<Ep({"NodePort"}), [Ep({"NodePort"}) EXCEPT !.labels = 2]>>,
         routers |-> <<>>]
Narrow == [domain |-> TRUE, image |-> 2, replicas |-> 1, controller |-> <<Ep({"NodePort"})>>,
           routers |-> <<Ep({"LoadBalancer"}), Ep({})>>]

(* Scaled in, with nothing else changed. *)
Many == [domain |-> TRUE, image |-> 1, replicas |-> MaxReplicas, controller |-> <<>>,
         routers |-> <<Ep({"ClusterIP"})>>]
Fewer == [Many EXCEPT !.replicas = 1]

ScaledSpecs == {Many, Fewer}
TwoSpecs == {Wide, Narrow}
OneBatch == {{"Deployment", "ConfigMap", "Role", "RoleBinding"} \cup Network}
ControllerPod == {Controller}
=============================================================================
