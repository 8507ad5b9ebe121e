----------------------------- MODULE MCAtomicWrite -----------------------------
(* Four texts, so that old, new and a later one all differ. *)
EXTENDS AtomicWrite
=============================================================================
