--------------------------------- MODULE Timer ---------------------------------
(***************************************************************************)
(* src/timer.c with the part of main() (os.c) that drives it: the timer    *)
(* thread, N device threads that call next_slot and detach_event, and the  *)
(* main thread that attaches the devices, starts the timer, joins the      *)
(* threads and tears everything down.                                      *)
(*                                                                         *)
(* One step is one critical section (the code between locking and          *)
(* unlocking event_lock or timer_lock, up to a pthread_cond_wait in it).   *)
(* A flag done[d] is written under event_lock by the device and under      *)
(* timer_lock by the timer, so the two kinds of section are separate steps *)
(* and interleave freely.  Blocking in pthread_cond_wait is a control      *)
(* state of its own that a signal, or a spurious wakeup, ends.             *)
(*                                                                         *)
(* attach_event pushes on the front of dev_list, so after the devices      *)
(* 1..N have been attached in this order the list is N, N-1, ..., 1: a     *)
(* list position is the number of the device there, its next is one less   *)
(* and 0 stands for NULL.                                                  *)
(***************************************************************************)
EXTENDS Naturals

CONSTANTS N,         \* number of devices: num_cpus CPU threads and the loader
          Horizon    \* bound of this model: _time saturates here

ASSUME TimerAssumption == N \in Nat \ {0} /\ Horizon \in Nat

Devices == 1..N

VARIABLES mpc,         \* main: "attach", "join", "stop", "end"
          dev_list,    \* head of the device list, 0 when it is empty
          timer_stop,  \* the flag stop_timer sets
          tpc,         \* timer thread: "idle" (not created), "loop", "scan",
                       \*   "asleep" (in cond_wait on event_cond), "wake", "exit"
          temp,        \* the timer's list cursor
          fsh,         \* the timer's count of detached devices in this slot
          event,       \* the timer's count of scanned devices in this slot
          _time,       \* the current slot
          dpc,         \* device: "run", "posted" (about to test done),
                       \*   "blocked" (in cond_wait on timer_cond), "gone"
          done,        \* timer_id_t.done of every device
          dfsh         \* timer_id_t.fsh of every device

mainVars   == <<mpc, dev_list, timer_stop>>
timerVars  == <<tpc, temp, fsh, event, _time>>
deviceVars == <<dpc, done, dfsh>>
vars       == <<mainVars, timerVars, deviceVars>>

TypeOK ==
  /\ mpc \in {"attach", "join", "stop", "end"}
  /\ dev_list \in 0..N
  /\ timer_stop \in BOOLEAN
  /\ tpc \in {"idle", "loop", "scan", "asleep", "wake", "exit"}
  /\ temp \in 0..N
  /\ fsh \in 0..N
  /\ event \in 0..N
  /\ _time \in 0..Horizon
  /\ dpc \in [Devices -> {"run", "posted", "blocked", "gone"}]
  /\ done \in [Devices -> BOOLEAN]
  /\ dfsh \in [Devices -> BOOLEAN]

Later(t) == IF t < Horizon THEN t + 1 ELSE t

Init ==
  /\ mpc = "attach" /\ dev_list = 0 /\ timer_stop = FALSE
  /\ tpc = "idle" /\ temp = 0 /\ fsh = 0 /\ event = 0 /\ _time = 0
  /\ dpc = [d \in Devices |-> "run"]
  /\ done = [d \in Devices |-> FALSE]
  /\ dfsh = [d \in Devices |-> FALSE]

--------------------------------------------------------------------------------
(* Faulty variants of the actions below, one plausible slip each; they are *)
(* not part of Next.                                                       *)

\* the wait for a device is an "if": a wakeup is taken for an arrival
ScanTrustingWakeup ==
  /\ tpc = "asleep"
  /\ tpc' = "scan" /\ temp' = temp - 1 /\ event' = event + 1
  /\ UNCHANGED <<mainVars, fsh, _time, deviceVars>>

\* detach_event sets the flag without signalling event_cond
DetachSilently(d) ==
  /\ mpc # "attach" /\ dpc[d] = "run"
  /\ dpc' = [dpc EXCEPT ![d] = "gone"]
  /\ dfsh' = [dfsh EXCEPT ![d] = TRUE]
  /\ UNCHANGED <<mainVars, timerVars, done>>

\* next_slot goes to sleep without testing done first
BlockUntested(d) ==
  /\ dpc[d] = "posted"
  /\ dpc' = [dpc EXCEPT ![d] = "blocked"]
  /\ UNCHANGED <<mainVars, timerVars, done, dfsh>>

\* next_slot returns when a wakeup finds done still set
BlockOnce(d) ==
  /\ dpc[d] = "posted"
  /\ \E next \in {"run", "blocked"} :
        /\ next = "blocked" => done[d]
        /\ dpc' = [dpc EXCEPT ![d] = next]
  /\ UNCHANGED <<mainVars, timerVars, done, dfsh>>

\* the timer leaves its loop when some, not all, devices have detached
EndSlotEarly ==
  /\ tpc = "wake" /\ temp = 0
  /\ tpc' = IF fsh > 0 THEN "exit" ELSE "loop"
  /\ UNCHANGED <<mainVars, temp, fsh, event, _time, deviceVars>>

\* a new slot starts without resetting the two counters
BeginKeepingCounts ==
  /\ tpc = "loop"
  /\ IF timer_stop
       THEN tpc' = "exit" /\ UNCHANGED temp
       ELSE tpc' = "scan" /\ temp' = dev_list
  /\ UNCHANGED <<mainVars, fsh, event, _time, deviceVars>>

\* stop_timer releases the devices without joining the timer thread
ReleaseUnjoined ==
  /\ mpc = "stop"
  /\ mpc' = "end" /\ dev_list' = 0
  /\ UNCHANGED <<timer_stop, timerVars, deviceVars>>

--------------------------------------------------------------------------------
(* The main thread.                                                        *)

\* attach_event: push the next device on dev_list
AttachEvent ==
  /\ mpc = "attach" /\ dev_list < N
  /\ dev_list' = dev_list + 1
  /\ done' = [done EXCEPT ![dev_list + 1] = FALSE]
  /\ dfsh' = [dfsh EXCEPT ![dev_list + 1] = FALSE]
  /\ UNCHANGED <<mpc, timer_stop, timerVars, dpc>>

\* start_timer, and pthread_create of the device threads
StartTimer ==
  /\ mpc = "attach" /\ dev_list = N
  /\ mpc' = "join" /\ tpc' = "loop"
  /\ UNCHANGED <<dev_list, timer_stop, temp, fsh, event, _time, deviceVars>>

\* stop_timer sets the flag once every device thread has been joined
StopTimer ==
  /\ mpc = "join" /\ \A d \in Devices : dpc[d] = "gone"
  /\ mpc' = "stop" /\ timer_stop' = TRUE
  /\ UNCHANGED <<dev_list, timerVars, deviceVars>>

\* stop_timer joins the timer thread and frees the device list
ReleaseDevices ==
  /\ mpc = "stop" /\ tpc = "exit"
  /\ mpc' = "end" /\ dev_list' = 0
  /\ UNCHANGED <<timer_stop, timerVars, deviceVars>>

Main == AttachEvent \/ StartTimer \/ StopTimer \/ ReleaseDevices

--------------------------------------------------------------------------------
(* The timer thread.                                                       *)

\* the test of the outer while, and the start of a new slot
BeginSlot ==
  /\ tpc = "loop"
  /\ IF timer_stop
       THEN tpc' = "exit" /\ UNCHANGED <<temp, fsh, event>>
       ELSE tpc' = "scan" /\ temp' = dev_list /\ fsh' = 0 /\ event' = 0
  /\ UNCHANGED <<mainVars, _time, deviceVars>>

\* one device of the first list walk, with its event_lock held: count it, or
\* sleep on its event_cond until it arrives or detaches
ScanDevice ==
  /\ tpc = "scan" /\ temp # 0
  /\ IF ~done[temp] /\ ~dfsh[temp]
       THEN tpc' = "asleep" /\ UNCHANGED <<temp, fsh, event>>
       ELSE /\ fsh' = IF dfsh[temp] THEN fsh + 1 ELSE fsh
            /\ event' = event + 1
            /\ temp' = temp - 1
            /\ UNCHANGED tpc
  /\ UNCHANGED <<mainVars, _time, deviceVars>>

\* a spurious return of pthread_cond_wait: the while tests the flags again
SpuriousScan ==
  /\ tpc = "asleep"
  /\ tpc' = "scan"
  /\ UNCHANGED <<mainVars, temp, fsh, event, _time, deviceVars>>

\* every device has been counted: the slot number moves on
AdvanceTime ==
  /\ tpc = "scan" /\ temp = 0
  /\ _time' = Later(_time)
  /\ tpc' = "wake" /\ temp' = dev_list
  /\ UNCHANGED <<mainVars, fsh, event, deviceVars>>

\* one device of the second list walk, with its timer_lock held
WakeDevice ==
  /\ tpc = "wake" /\ temp # 0
  /\ done' = [done EXCEPT ![temp] = FALSE]
  /\ dpc' = [dpc EXCEPT ![temp] = IF @ = "blocked" THEN "posted" ELSE @]
  /\ temp' = temp - 1
  /\ UNCHANGED <<mainVars, tpc, fsh, event, _time, dfsh>>

\* the end of the loop body: leave when every scanned device had detached
EndSlot ==
  /\ tpc = "wake" /\ temp = 0
  /\ tpc' = IF fsh = event THEN "exit" ELSE "loop"
  /\ UNCHANGED <<mainVars, temp, fsh, event, _time, deviceVars>>

\* what is fairly scheduled: spurious wakeups are not owed to anyone
TimerStep == BeginSlot \/ ScanDevice \/ AdvanceTime \/ WakeDevice \/ EndSlot

--------------------------------------------------------------------------------
(* The device threads.  They are created after start_timer.                *)

\* pthread_cond_signal(&event_cond) of device d
SignalEvent(d) == tpc' = IF tpc = "asleep" /\ temp = d THEN "scan" ELSE tpc

\* next_slot, first half: report that the work of this slot is done
PostDone(d) ==
  /\ mpc # "attach" /\ dpc[d] = "run"
  /\ dpc' = [dpc EXCEPT ![d] = "posted"]
  /\ done' = [done EXCEPT ![d] = TRUE]
  /\ SignalEvent(d)
  /\ UNCHANGED <<mainVars, temp, fsh, event, _time, dfsh>>

\* next_slot, second half: return when done is reset, sleep while it is set
AwaitSlot(d) ==
  /\ dpc[d] = "posted"
  /\ dpc' = [dpc EXCEPT ![d] = IF done[d] THEN "blocked" ELSE "run"]
  /\ UNCHANGED <<mainVars, timerVars, done, dfsh>>

\* a spurious return of pthread_cond_wait: the while tests done again
SpuriousAwait(d) ==
  /\ dpc[d] = "blocked"
  /\ dpc' = [dpc EXCEPT ![d] = "posted"]
  /\ UNCHANGED <<mainVars, timerVars, done, dfsh>>

\* detach_event, after which the thread exits
DetachEvent(d) ==
  /\ mpc # "attach" /\ dpc[d] = "run"
  /\ dpc' = [dpc EXCEPT ![d] = "gone"]
  /\ dfsh' = [dfsh EXCEPT ![d] = TRUE]
  /\ SignalEvent(d)
  /\ UNCHANGED <<mainVars, temp, fsh, event, _time, done>>

DeviceStep(d) == PostDone(d) \/ AwaitSlot(d) \/ DetachEvent(d)

\* main has returned
Terminated == mpc = "end" /\ UNCHANGED vars

Next ==
  \/ Main
  \/ TimerStep \/ SpuriousScan
  \/ \E d \in Devices : DeviceStep(d) \/ SpuriousAwait(d)
  \/ Terminated

Spec == Init /\ [][Next]_vars

\* The kernel keeps scheduling every thread, and the work a device does in one
\* slot is finite; nothing is assumed about when, or whether, it detaches.
Fairness ==
  /\ WF_vars(Main)
  /\ WF_vars(TimerStep)
  /\ \A d \in Devices : WF_vars(DeviceStep(d))

FairSpec == Spec /\ Fairness

--------------------------------------------------------------------------------
(* Properties.                                                             *)

\* The timer sleeps on a device only while that device has yet to arrive, and a
\* device sleeps only while its done flag is set: no signal of event_cond or
\* timer_cond (timer.c) is ever lost although done is written under two locks.
NoLostWakeup ==
  /\ tpc = "asleep" => temp \in Devices /\ ~done[temp] /\ ~dfsh[temp]
  /\ \A d \in Devices : dpc[d] = "blocked" => done[d]

\* The slot number advances only when every device is inside next_slot or has
\* detached (the two list walks of timer_routine): a thread that is working in
\* slot t never sees current_time() change under it.
Lockstep ==
  [][AdvanceTime => \A d \in Devices : dpc[d] # "run"]_vars

\* A container that the timer or a device may still lock has not been freed
\* by stop_timer, and the timer thread leaves its loop only for good reason:
\* when no device will ever signal again.
TeardownSafe ==
  /\ tpc \in {"scan", "asleep", "wake"} => temp <= dev_list
  /\ dev_list = 0 /\ mpc # "attach" =>
       tpc = "exit" /\ \A d \in Devices : dpc[d] = "gone"
  /\ tpc = "exit" => \A d \in Devices : dpc[d] = "gone"

\* next_slot always returns: every device that waits for the next slot gets it.
SlotComes == \A d \in Devices : dpc[d] = "posted" ~> dpc[d] = "run"

\* Once every device has detached, the timer thread exits, stop_timer's join
\* succeeds and main returns.
Shutdown == (\A d \in Devices : dpc[d] = "gone") ~> mpc = "end"

--------------------------------------------------------------------------------
(* The inductive invariant behind the safety properties.  It says what a   *)
(* list position of the timer's cursor means for the devices before and    *)
(* behind it, given that done[d] is written by two threads.                *)

\* the device has nothing more to do in this slot
Settled(d) == done[d] \/ dfsh[d]

DeviceInv ==
  \A d \in Devices :
    /\ dpc[d] = "run" => ~done[d]
    /\ dpc[d] = "blocked" => done[d]
    /\ dpc[d] = "gone" <=> dfsh[d]
    /\ dfsh[d] => ~done[d]

MainInv ==
  /\ mpc = "attach" <=> tpc = "idle"
  /\ mpc = "attach" => \A d \in Devices : dpc[d] = "run"
  /\ mpc \in {"join", "stop"} => dev_list = N
  /\ mpc = "end" => dev_list = 0 /\ tpc = "exit"
  /\ timer_stop <=> mpc \in {"stop", "end"}
  /\ timer_stop \/ tpc = "exit" => \A d \in Devices : dfsh[d]

ScanInv ==
  tpc \in {"scan", "asleep"} =>
    /\ event = N - temp
    /\ fsh <= event
    /\ fsh = event <=> \A d \in Devices : d > temp => dfsh[d]
    /\ \A d \in Devices : d > temp => Settled(d)
    /\ tpc = "asleep" => temp # 0 /\ ~Settled(temp)

WakeInv ==
  tpc = "wake" =>
    /\ event = N
    /\ fsh = event => \A d \in Devices : dfsh[d]
    /\ \A d \in Devices : d <= temp => Settled(d)

\* Where the timer's cursor stands tells which devices have been counted in
\* this slot and which have been released (timer_routine), and both hold at
\* every interleaving with next_slot and detach_event.
SlotInv == DeviceInv /\ MainInv /\ ScanInv /\ WakeInv

--------------------------------------------------------------------------------
(* The abstract clock.  A device counts as released from the moment the    *)
(* slot number advances, although the second list walk has yet to reach it *)
(* to clear its flag.                                                      *)

Arrived == {d \in Devices : done[d] /\ ~(tpc = "wake" /\ d <= temp)}

Clock == INSTANCE SlotClock
           WITH now     <- _time,
                arrived <- Arrived,
                gone    <- {d \in Devices : dfsh[d]},
                ticking <- ~(tpc = "exit" \/ (tpc = "wake" /\ fsh = event))

\* timer.c implements the slot clock, including that slots keep coming.
ImplementsSlotClock == Clock!FairClockSpec
================================================================================
