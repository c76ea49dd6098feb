------------------------------ MODULE MCExitIp ------------------------------
(***************************************************************************)
(* A small instance of ExitIp for TLC.                                     *)
(***************************************************************************)
EXTENDS ExitIp

CONSTANTS q1, q2, q3, x1, x2

\* Two points stand for an address each, the third sees either.
ThirdDecides ==
  [q \in Points |-> CASE q = q1 -> {x1} [] q = q2 -> {x2} [] OTHER -> Ips]
=============================================================================
