----------------------------- MODULE MCMutexMap -----------------------------
(* MutexMap with three threads that lock and remove two names at will. *)
EXTENDS MutexMap
=============================================================================
