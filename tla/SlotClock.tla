------------------------------- MODULE SlotClock -------------------------------
(***************************************************************************)
(* What timer.c promises to the threads that use it: simulated time moves  *)
(* in slots, and every attached device (a CPU thread or the loader thread) *)
(* takes part in every slot until it detaches.                             *)
(*                                                                         *)
(* A device that has finished its work of the current slot arrives         *)
(* (next_slot) and stays blocked until the clock ticks; a device with no   *)
(* more work leaves (detach_event).  The clock ticks only when nobody is   *)
(* still working, and halts once everybody has left.                       *)
(*                                                                         *)
(* Timer.tla implements this module; Os.tla is composed with it.           *)
(***************************************************************************)
EXTENDS Naturals

CONSTANTS Devices,   \* the attached devices
          Horizon    \* bound of this model: the clock saturates here

VARIABLES now,       \* _time, the number of slots that have passed
          arrived,   \* the devices blocked in next_slot
          gone,      \* the devices that have detached
          ticking    \* FALSE once the timer thread is past its last slot

clockVars == <<now, arrived, gone, ticking>>

ClockTypeOK ==
  /\ now \in 0..Horizon
  /\ arrived \in SUBSET Devices
  /\ gone \in SUBSET Devices
  /\ ticking \in BOOLEAN

Later(t) == IF t < Horizon THEN t + 1 ELSE t

Working(d) == d \in Devices /\ d \notin arrived /\ d \notin gone

ClockInit ==
  /\ now = 0
  /\ arrived = {}
  /\ gone = {}
  /\ ticking = TRUE

\* next_slot: the device's share of the current slot is done
Arrive(d) ==
  /\ Working(d)
  /\ arrived' = arrived \union {d}
  /\ UNCHANGED <<now, gone, ticking>>

\* detach_event: the device will not take part in any later slot
Leave(d) ==
  /\ Working(d)
  /\ gone' = gone \union {d}
  /\ UNCHANGED <<now, arrived, ticking>>

\* everyone is blocked or gone: time moves on and the blocked ones resume
Tick ==
  /\ ticking
  /\ gone # Devices
  /\ \A d \in Devices : ~Working(d)
  /\ now' = Later(now)
  /\ arrived' = {}
  /\ UNCHANGED <<gone, ticking>>

\* everyone has left; the timer thread may or may not count one more slot
Halt ==
  /\ ticking
  /\ gone = Devices
  /\ now' \in {now, Later(now)}
  /\ ticking' = FALSE
  /\ UNCHANGED <<arrived, gone>>

ClockNext ==
  \/ \E d \in Devices : Arrive(d) \/ Leave(d)
  \/ Tick
  \/ Halt

ClockSpec == ClockInit /\ [][ClockNext]_clockVars

\* the timer thread is always scheduled again; the devices promise nothing
FairClockSpec == ClockSpec /\ WF_clockVars(Tick) /\ WF_clockVars(Halt)
================================================================================
