----------------------------- MODULE MCExporter -----------------------------
(* Small instances of ExporterController. *)
EXTENDS ExporterController
=============================================================================
