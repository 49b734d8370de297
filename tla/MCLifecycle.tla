---------------------------- MODULE MCLifecycle ----------------------------
(* The five components with hooks and one that stands for the rest, in      *)
(* every order the loader may end up with.                                  *)
EXTENDS Lifecycle

MCComponents == Hooked \cup {"other"}
=============================================================================
