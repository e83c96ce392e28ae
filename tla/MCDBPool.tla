----------------------------- MODULE MCDBPool -----------------------------
(* An instance of DBPool with as many connections as threads, the           *)
(* proportion of the shipped configuration.  After cleanup() the pool is    *)
(* smaller: threads wait, miss wake-ups and come away empty-handed.         *)
EXTENDS DBPool
===========================================================================
