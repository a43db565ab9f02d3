--------------------------- MODULE LeaseSelection ---------------------------
(***************************************************************************)
(* Lease objects whose selectors clients have written: the composition of  *)
(* ParseLabelSelector (LabelSelector), which LeaseFromProtobuf calls on    *)
(* the text of a CreateLease, with the reconciler that lists exporters by  *)
(* the selector kept (LeaseController).  A text is the set of requirements *)
(* that labels.Parse makes of it.                                          *)
(***************************************************************************)
EXTENDS LeaseController, LabelSelector

CONSTANTS
  Texts,              \* what clients may write
  ExporterLabels(_)   \* the labels of an exporter, a function of keys

ASSUME TextsAssumption == \A text \in Texts : \A r \in text : IsRequirement(r)

(* LeaseFromProtobuf: the request is refused with the text. *)
Accepted == {text \in Texts : ~ParseRefuses(text)}

(* LeaseFromProtobuf: the selector of the new lease. *)
SelectorOf(text) ==
  LET sel == ParseLabelSelector(text)
  IN  [kind |-> IF SelectsEverything(sel) THEN "empty" ELSE "labels",
       match |-> {e \in Exporters : Selects(sel, ExporterLabels(e))}]

WrittenByClients == {SelectorOf(text) : text \in Accepted}

(* A lease is assigned only an exporter whose labels satisfy every text    *)
(* that a client may have written to get the selector it keeps: the text   *)
(* goes through ParseLabelSelector, the object kept, its cached copy and   *)
(* the list of exporters.                                                  *)
SelectorHonoured ==
  \A l \in Live :
    lease[l].status.exporterRef # None =>
      \A text \in Accepted :
        SelectorOf(text) = lease[l].spec.sel =>
          Meant(ExporterLabels(lease[l].status.exporterRef), text)
=============================================================================
