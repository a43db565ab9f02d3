---------------------------- MODULE MCDialQueue ----------------------------
(* Small instances of DialQueue. *)
EXTENDS DialQueue

CONSTANTS e1, e2, r1, r2

(* One exporter has the labels of one of the routers, the other a label    *)
(* that no router has.                                                     *)
LabelsOfTwo ==
  [n \in {e1, e2, r1, r2} |->
     CASE n = e1 -> {"site"} [] n = e2 -> {"rack"}
       [] n = r1 -> {"site", "net"} [] n = r2 -> {}]
=============================================================================
