---------------------------- MODULE MCSpellingCache ----------------------------
(* Four publications, the second broken and the third in conflict with
   typos.local.toml. *)
EXTENDS SpellingCache
=============================================================================
