------------------------- MODULE MCFragmentHandler -------------------------
(***************************************************************************)
(* One address that sends two packets, of up to one fragment more than is  *)
(* allowed, under two ids or, after a restart, under the same one.         *)
(***************************************************************************)
EXTENDS FragmentHandler

CONSTANTS s1
=============================================================================
