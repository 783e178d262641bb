--------------------------- MODULE MCConfirmedSave --------------------------
(***************************************************************************)
(* ConfirmedSave for TLC.  The decisions are interchangeable, but symmetry *)
(* is not used: OperationEnds is a liveness property.                      *)
(***************************************************************************)
EXTENDS ConfirmedSave
=============================================================================
