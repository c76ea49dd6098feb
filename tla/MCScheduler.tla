---------------------------- MODULE MCScheduler ----------------------------
(***************************************************************************)
(* A small instance of Scheduler for TLC.                                  *)
(***************************************************************************)
EXTENDS Scheduler

\* Three reports without an address, two with one, or summaries.
SmallBounds ==
  {[reports |-> 3, ips |-> {}, notifications |-> FALSE],
   [reports |-> 2, ips |-> Ips, notifications |-> FALSE],
   [reports |-> 0, ips |-> {}, notifications |-> TRUE]}
=============================================================================
