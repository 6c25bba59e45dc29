--------------------------- MODULE MCIoctlService ---------------------------
(* Arrays of two elements each, where up to three fit.                     *)
EXTENDS IoctlService

MCHave == <<2, 2>>
=============================================================================
