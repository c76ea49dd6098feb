-------------------------------- MODULE Clock -------------------------------
(***************************************************************************)
(* The wall clock of the server in slots, some to an hour, and the hours   *)
(* and days that services.py and views.py cut time into.  Snapshots are    *)
(* kept by the hour of UTC and by the day of a local time that may be off  *)
(* by half an hour.                                                        *)
(***************************************************************************)
EXTENDS Naturals

CONSTANTS
  SlotsPerHour, HoursPerDay,
  Offset,    \* local time is so many slots ahead of UTC
  LastSlot   \* a bound: the clock stops there

ASSUME ClockAssumption ==
  /\ SlotsPerHour \in Nat \ {0} /\ HoursPerDay \in Nat \ {0}
  /\ Offset \in Nat /\ LastSlot \in Nat

VARIABLE now

Slot == 0 .. LastSlot

hour(t) == t \div SlotsPerHour

localdate(t) == (t + Offset) \div (SlotsPerHour * HoursPerDay)

local_hour(t) == ((t + Offset) \div SlotsPerHour) % HoursPerDay

\* The slot in which the local hour of t begins.
local_hour_start(t) == t - ((t + Offset) % SlotsPerHour)
=============================================================================
