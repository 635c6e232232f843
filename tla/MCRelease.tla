----------------------------- MODULE MCRelease -----------------------------
(* One proposal on its way from its approval into the sets.  Nothing of it *)
(* is symmetric: commits and pull requests are numbered as they come.      *)
EXTENDS Release
=============================================================================
