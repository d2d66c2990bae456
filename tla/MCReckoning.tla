----------------------------- MODULE MCReckoning -----------------------------
(* A small instance of Reckoning for TLC; it needs no definitions of its own.  *)
EXTENDS Reckoning
=============================================================================
