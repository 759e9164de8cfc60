----------------------------- MODULE MCIntelLookup -----------------------------
(* TLC instance of the lookups of one hash alone: a key in the environment, *)
(* nothing cached, and nothing that fails.                                  *)
EXTENDS IntelLookup

MCChances ==
  { [save |-> 0, lookup |-> 2, fail |-> 0, purge |-> 0, restart |-> 0, end |-> 0,
     old |-> {}, env |-> "good"] }
================================================================================
