------------------------------ MODULE MCDrafting ------------------------------
(* The instance of MCHarness that plans and drafts, with the word-count report beside
   it. *)
EXTENDS MCHarness, Wordcount
=============================================================================
