--------------------------- MODULE MCIndexAuthority ---------------------------
(***************************************************************************)
(* One caller and one repository: every fetch follows the one before it.   *)
(***************************************************************************)
EXTENDS IndexAuthority
=============================================================================
