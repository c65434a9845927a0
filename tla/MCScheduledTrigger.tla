------------------------ MODULE MCScheduledTrigger ------------------------
(* Instances of ScheduledTrigger for TLC.                                  *)
EXTENDS ScheduledTrigger

CONSTANTS o1, o2

TwoSchedulers == {o1, o2}
ShortAndLong == {1, 2}
===========================================================================
