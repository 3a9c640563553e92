------------------------------ MODULE TimerProofs ------------------------------
(***************************************************************************)
(* Proofs about Timer.tla for every number of devices.  The invariant      *)
(* SlotInv is inductive together with TypeOK: the bounds of the timer's    *)
(* counters in TypeOK need what ScanInv says of them.  The properties      *)
(* NoLostWakeup, TeardownSafe and Lockstep follow from it, and so does the *)
(* safety part of the refinement of SlotClock.                             *)
(***************************************************************************)
EXTENDS Timer, TLAPS

IInv == TypeOK /\ SlotInv

USE DEF Devices

\* The state before main has attached anything satisfies the invariant (the static
\* variables of timer.c).
LEMMA InitIInv == Init => IInv
<1> SUFFICES ASSUME Init PROVE IInv
  OBVIOUS
<1> USE TimerAssumption DEF Init
<1>1. TypeOK
  <2>1. /\ dpc \in [Devices -> {"run", "posted", "blocked", "gone"}]
        /\ done \in [Devices -> BOOLEAN]
        /\ dfsh \in [Devices -> BOOLEAN]
    OBVIOUS
  <2>2. /\ 0 \in 0..N
        /\ 0 \in 0..Horizon
    OBVIOUS
  <2>3. QED
    BY <2>1, <2>2 DEF TypeOK
<1>2. DeviceInv /\ ScanInv /\ WakeInv
  BY DEF DeviceInv, ScanInv, WakeInv
<1>3. MainInv
  <2>1. (timer_stop <=> mpc \in {"stop", "end"})
    OBVIOUS
  <2>2. (timer_stop \/ tpc = "exit") => \A d \in Devices : dfsh[d]
    OBVIOUS
  <2>3. (mpc = "attach" => \A d \in Devices : dpc[d] = "run")
    OBVIOUS
  <2>4. mpc = "attach" <=> tpc = "idle"
    OBVIOUS
  <2>5. /\ mpc \in {"join", "stop"} => dev_list = N
        /\ mpc = "end" => dev_list = 0 /\ tpc = "exit"
    OBVIOUS
  <2>6. QED
    BY <2>1, <2>2, <2>3, <2>4, <2>5 DEF MainInv
<1>4. QED
  BY <1>1, <1>2, <1>3 DEF IInv, SlotInv

\* The main thread preserves the invariant (attach_event, start_timer,
\* stop_timer).
LEMMA MainIInv == IInv /\ Main => IInv'
<1> SUFFICES ASSUME IInv, Main PROVE IInv'
  OBVIOUS
<1> USE TimerAssumption DEF IInv, TypeOK, mainVars, timerVars, deviceVars
<1>1. CASE AttachEvent
  BY <1>1 DEF AttachEvent, SlotInv, DeviceInv, MainInv, ScanInv, WakeInv
<1>2. CASE StartTimer
  BY <1>2 DEF StartTimer, SlotInv, DeviceInv, MainInv, ScanInv, WakeInv
<1>3. CASE StopTimer
  <2> USE <1>3 DEF StopTimer
  <2>1. TypeOK'
    OBVIOUS
  <2>2. (DeviceInv /\ ScanInv /\ WakeInv)'
    BY DEF SlotInv, DeviceInv, ScanInv, WakeInv, Settled
  <2>3. \A d \in Devices : dfsh[d]
    BY DEF SlotInv, DeviceInv
  <2>4. MainInv'
    BY <2>3 DEF SlotInv, MainInv
  <2>5. QED
    BY <2>1, <2>2, <2>4 DEF SlotInv
<1>4. CASE ReleaseDevices
  BY <1>4 DEF ReleaseDevices, SlotInv, DeviceInv, MainInv, ScanInv, WakeInv
<1>5. QED
  BY <1>1, <1>2, <1>3, <1>4 DEF Main

\* The timer thread preserves it (timer_routine).
LEMMA TimerIInv == IInv /\ (TimerStep \/ SpuriousScan) => IInv'
<1> SUFFICES ASSUME IInv, TimerStep \/ SpuriousScan PROVE IInv'
  OBVIOUS
<1> USE TimerAssumption DEF IInv, TypeOK, mainVars, timerVars, deviceVars
<1>1. CASE BeginSlot
  BY <1>1 DEF BeginSlot, SlotInv, DeviceInv, MainInv, ScanInv, WakeInv
<1>2. CASE ScanDevice
  <2> USE <1>2 DEF ScanDevice
  <2>1. CASE ~done[temp] /\ ~dfsh[temp]
    BY <2>1 DEF SlotInv, DeviceInv, MainInv, ScanInv, WakeInv, Settled
  <2>2. CASE Settled(temp)
    <3> temp \in Devices /\ event = N - temp /\ fsh <= event
      BY DEF SlotInv, ScanInv
    <3>1. temp' = temp - 1 /\ event' = event + 1 /\ UNCHANGED tpc
      BY <2>2 DEF Settled
    <3>2. TypeOK'
      BY <2>2, <3>1 DEF Settled
    <3>3. (DeviceInv /\ MainInv /\ WakeInv)'
      BY <3>1 DEF SlotInv, DeviceInv, MainInv, WakeInv
    <3>4. (fsh = event <=> \A d \in Devices : d > temp => dfsh[d])'
      <4>1. CASE dfsh[temp]
        BY <3>1, <4>1 DEF SlotInv, ScanInv
      <4>2. CASE ~dfsh[temp]
        BY <3>1, <4>2 DEF SlotInv, ScanInv
      <4>3. QED
        BY <4>1, <4>2
    <3>5. ScanInv'
      BY <2>2, <3>1, <3>4 DEF SlotInv, ScanInv, Settled
    <3>6. QED
      BY <3>2, <3>3, <3>5 DEF SlotInv
  <2>3. QED
    BY <2>1, <2>2 DEF Settled
<1>3. CASE SpuriousScan
  BY <1>3 DEF SpuriousScan, SlotInv, DeviceInv, MainInv, ScanInv, WakeInv,
              Settled
<1>4. CASE AdvanceTime
  BY <1>4 DEF AdvanceTime, Later, SlotInv, DeviceInv, MainInv, ScanInv, WakeInv,
              Settled
<1>5. CASE WakeDevice
  BY <1>5 DEF WakeDevice, SlotInv, DeviceInv, MainInv, ScanInv, WakeInv, Settled
<1>6. CASE EndSlot
  BY <1>6 DEF EndSlot, SlotInv, DeviceInv, MainInv, ScanInv, WakeInv
<1>7. QED
  BY <1>1, <1>2, <1>3, <1>4, <1>5, <1>6 DEF TimerStep

\* The device threads preserve it (next_slot, detach_event).
LEMMA DeviceIInv ==
  ASSUME NEW d \in Devices, IInv, DeviceStep(d) \/ SpuriousAwait(d)
  PROVE  IInv'
<1> USE TimerAssumption DEF IInv, TypeOK, mainVars, timerVars, deviceVars
<1>1. CASE PostDone(d)
  BY <1>1 DEF PostDone, SignalEvent, SlotInv, DeviceInv, MainInv, ScanInv,
              WakeInv, Settled
<1>2. CASE AwaitSlot(d)
  BY <1>2 DEF AwaitSlot, SlotInv, DeviceInv, MainInv, ScanInv, WakeInv, Settled
<1>3. CASE SpuriousAwait(d)
  BY <1>3 DEF SpuriousAwait, SlotInv, DeviceInv, MainInv, ScanInv, WakeInv,
              Settled
<1>4. CASE DetachEvent(d)
  BY <1>4 DEF DetachEvent, SignalEvent, SlotInv, DeviceInv, MainInv, ScanInv,
              WakeInv, Settled
<1>5. QED
  BY <1>1, <1>2, <1>3, <1>4 DEF DeviceStep

\* Every step of every thread preserves the invariant (timer.c and main).
LEMMA NextIInv == IInv /\ [Next]_vars => IInv'
<1> SUFFICES ASSUME IInv, [Next]_vars PROVE IInv'
  OBVIOUS
<1>1. CASE Main
  BY <1>1, MainIInv
<1>2. CASE TimerStep \/ SpuriousScan
  BY <1>2, TimerIInv
<1>3. ASSUME NEW d \in Devices, DeviceStep(d) \/ SpuriousAwait(d) PROVE IInv'
  BY <1>3, DeviceIInv
<1>4. CASE UNCHANGED vars
  BY <1>4 DEF vars, mainVars, timerVars, deviceVars, IInv, TypeOK, SlotInv,
              DeviceInv, MainInv, ScanInv, WakeInv, Settled
<1>5. QED
  BY <1>1, <1>2, <1>3, <1>4 DEF Next, Terminated

\* For every number of devices, the state has its type and the timer's cursor
\* means what SlotInv says.
THEOREM Invariance == Spec => []IInv
<1>1. Init => IInv
  BY InitIInv
<1>2. IInv /\ [Next]_vars => IInv'
  BY NextIInv
<1>3. QED
  BY <1>1, <1>2, PTL DEF Spec

\* The state has its type at every step: in particular the timer's cursor stays
\* within the list and its counters within the number of devices.
THEOREM TypeCorrect == Spec => []TypeOK
  BY Invariance, PTL DEF IInv

\* The timer's cursor tells which devices have been counted in this slot and which
\* have been released (the two list walks of timer_routine).
THEOREM CursorMeaning == Spec => []SlotInv
  BY Invariance, PTL DEF IInv

\* No signal between next_slot, detach_event and timer_routine is ever lost.
THEOREM WakeupsKept == Spec => []NoLostWakeup
<1>1. IInv => NoLostWakeup
  BY DEF IInv, TypeOK, SlotInv, DeviceInv, ScanInv, Settled, NoLostWakeup
<1>2. QED
  BY <1>1, Invariance, PTL

\* stop_timer frees nothing that a thread still uses, and timer_routine ends
\* only when every device has detached.
THEOREM TeardownIsSafe == Spec => []TeardownSafe
<1>1. IInv => TeardownSafe
  BY TimerAssumption DEF IInv, TypeOK, SlotInv, DeviceInv, MainInv, TeardownSafe
<1>2. QED
  BY <1>1, Invariance, PTL

\* The slot number never moves while a device is working in its slot.
THEOREM LockstepHolds == Spec => Lockstep
<1>1. IInv /\ AdvanceTime => \A d \in Devices : dpc[d] # "run"
  BY DEF IInv, TypeOK, SlotInv, DeviceInv, ScanInv, Settled, AdvanceTime
<1>2. IInv /\ [Next]_vars => [AdvanceTime => \A d \in Devices : dpc[d] # "run"]_vars
  BY <1>1
<1>3. QED
  BY <1>2, Invariance, PTL DEF Spec, Lockstep

--------------------------------------------------------------------------------
(* The refinement: every step of timer.c is a step of the slot clock or    *)
(* leaves it unchanged.                                                    *)

Released == {d \in Devices : dfsh[d]}
Counting == ~(tpc = "exit" \/ (tpc = "wake" /\ fsh = event))

\* The state before main has attached anything is an initial state of the clock.
LEMMA ClockInitHolds == Init => Clock!ClockInit
  BY DEF Init, Clock!ClockInit, Arrived

\* Steps that the clock does not see.
LEMMA ClockStutters ==
  ASSUME UNCHANGED <<_time, Arrived, Released, Counting>>
  PROVE  UNCHANGED Clock!clockVars
  BY DEF Clock!clockVars, Released, Counting

\* The end of the scan is a tick of the clock, or its last one.
LEMMA AdvanceIsTick == IInv /\ AdvanceTime => Clock!ClockNext
<1> SUFFICES ASSUME IInv, AdvanceTime PROVE Clock!ClockNext
  OBVIOUS
<1> USE TimerAssumption DEF IInv, TypeOK, AdvanceTime, mainVars, deviceVars
<1>1. \A d \in Devices : Settled(d)
  BY DEF SlotInv, ScanInv
<1>2. Arrived' = {}
  <2>1. tpc' = "wake" /\ temp' = N
    BY DEF SlotInv, MainInv
  <2>2. QED
    BY <2>1 DEF Arrived
<1>3. Arrived = {d \in Devices : done[d]}
  BY DEF Arrived
<1>4. _time' = Clock!Later(_time)
  BY DEF Later, Clock!Later
<1>5. UNCHANGED Released
  BY DEF Released
<1>6. fsh = event <=> Released = Devices
  BY DEF Released, SlotInv, ScanInv
<1>7. CASE fsh = event
  <2>1. Arrived = {}
    BY <1>3, <1>6, <1>7 DEF Released, SlotInv, DeviceInv
  <2>2. Clock!Halt
    BY <1>2, <1>4, <1>5, <1>6, <1>7, <2>1 DEF Clock!Halt, Released
  <2>3. QED
    BY <2>2 DEF Clock!ClockNext
<1>8. CASE fsh # event
  <2>1. \A d \in Devices : ~Clock!Working(d)
    BY <1>1, <1>3 DEF Clock!Working, Settled
  <2>2. Clock!Tick
    BY <1>2, <1>4, <1>5, <1>6, <1>8, <2>1 DEF Clock!Tick, Released
  <2>3. QED
    BY <2>2 DEF Clock!ClockNext
<1>9. QED
  BY <1>7, <1>8

\* A device that finds itself running is working in the eyes of the clock.
LEMMA RunningWorks ==
  ASSUME IInv, NEW d \in Devices, dpc[d] = "run"
  PROVE  /\ Clock!Working(d)
         /\ ~(tpc = "wake" /\ d <= temp)
  BY DEF IInv, TypeOK, SlotInv, DeviceInv, WakeInv, Settled, Arrived,
         Clock!Working

\* Every step of every thread is a step of the clock or invisible to it (timer.c).
LEMMA ClockStep == IInv /\ [Next]_vars => [Clock!ClockNext]_(Clock!clockVars)
<1> SUFFICES ASSUME IInv, [Next]_vars
             PROVE  Clock!ClockNext \/ UNCHANGED Clock!clockVars
  OBVIOUS
<1> USE TimerAssumption DEF IInv, TypeOK, mainVars, timerVars, deviceVars
<1>1. CASE Main
  <2>1. UNCHANGED temp /\ (tpc' = "wake" <=> tpc = "wake")
    BY <1>1 DEF Main, AttachEvent, StartTimer, StopTimer, ReleaseDevices,
                SlotInv, MainInv
  <2>2. UNCHANGED <<_time, Counting>>
    BY <1>1 DEF Main, AttachEvent, StartTimer, StopTimer, ReleaseDevices,
                Counting, SlotInv, MainInv
  <2>3. UNCHANGED <<done, dfsh>>
    <3>1. CASE AttachEvent
      BY <1>1, <3>1 DEF AttachEvent, SlotInv, DeviceInv, MainInv
    <3>2. QED
      BY <1>1, <3>1 DEF Main, StartTimer, StopTimer, ReleaseDevices
  <2>4. UNCHANGED <<Arrived, Released>>
    BY <2>1, <2>3 DEF Arrived, Released
  <2>5. QED
    BY <2>2, <2>4, ClockStutters
<1>2. CASE BeginSlot
  <2>1. CASE timer_stop
    <3>1. UNCHANGED <<_time, Arrived, Released>> /\ Counting /\ ~Counting'
      BY <1>2, <2>1 DEF BeginSlot, Arrived, Released, Counting
    <3>2. Released = Devices
      BY <2>1 DEF Released, SlotInv, MainInv
    <3>3. Clock!Halt
      BY <3>1, <3>2 DEF Clock!Halt, Released, Counting
    <3>4. QED
      BY <3>3 DEF Clock!ClockNext
  <2>2. CASE ~timer_stop
    <3>1. UNCHANGED <<_time, Arrived, Released, Counting>>
      BY <1>2, <2>2 DEF BeginSlot, Arrived, Released, Counting
    <3>2. QED
      BY <3>1, ClockStutters
  <2>3. QED
    BY <2>1, <2>2
<1>3. CASE ScanDevice \/ SpuriousScan
  <2>1. UNCHANGED <<_time, Arrived, Released, Counting>>
    BY <1>3 DEF ScanDevice, SpuriousScan, Arrived, Released, Counting
  <2>2. QED
    BY <2>1, ClockStutters
<1>4. CASE AdvanceTime
  BY <1>4, AdvanceIsTick
<1>5. CASE WakeDevice
  <2>1. UNCHANGED <<_time, Released, Counting>>
    BY <1>5 DEF WakeDevice, Released, Counting
  <2>2. UNCHANGED Arrived
    BY <1>5 DEF WakeDevice, Arrived
  <2>3. QED
    BY <2>1, <2>2, ClockStutters
<1>6. CASE EndSlot
  <2>1. UNCHANGED <<_time, Arrived, Released, Counting>>
    BY <1>6 DEF EndSlot, Arrived, Released, Counting
  <2>2. QED
    BY <2>1, ClockStutters
<1>7. ASSUME NEW d \in Devices, PostDone(d)
      PROVE  Clock!ClockNext
  <2>1. Clock!Working(d) /\ ~(tpc = "wake" /\ d <= temp)
    BY <1>7, RunningWorks DEF PostDone
  <2>2. UNCHANGED <<_time, Released, Counting>>
    BY <1>7 DEF PostDone, SignalEvent, Released, Counting
  <2>3. Arrived' = Arrived \union {d}
    BY <1>7, <2>1 DEF PostDone, SignalEvent, Arrived
  <2>4. Clock!Arrive(d)
    BY <2>1, <2>2, <2>3 DEF Clock!Arrive, Released, Counting
  <2>5. QED
    BY <2>4 DEF Clock!ClockNext
<1>8. ASSUME NEW d \in Devices, DetachEvent(d)
      PROVE  Clock!ClockNext
  <2>1. Clock!Working(d)
    BY <1>8, RunningWorks DEF DetachEvent
  <2>2. UNCHANGED <<_time, Arrived, Counting>>
    BY <1>8 DEF DetachEvent, SignalEvent, Arrived, Counting
  <2>3. Released' = Released \union {d}
    BY <1>8 DEF DetachEvent, Released
  <2>4. Clock!Leave(d)
    BY <2>1, <2>2, <2>3 DEF Clock!Leave, Released, Counting
  <2>5. QED
    BY <2>4 DEF Clock!ClockNext
<1>9. ASSUME NEW d \in Devices, AwaitSlot(d) \/ SpuriousAwait(d)
      PROVE  UNCHANGED Clock!clockVars
  <2>1. UNCHANGED <<_time, Arrived, Released, Counting>>
    BY <1>9 DEF AwaitSlot, SpuriousAwait, Arrived, Released, Counting
  <2>2. QED
    BY <2>1, ClockStutters
<1>10. CASE UNCHANGED vars
  <2>1. UNCHANGED <<_time, Arrived, Released, Counting>>
    BY <1>10 DEF vars, Arrived, Released, Counting
  <2>2. QED
    BY <2>1, ClockStutters
<1>11. QED
  BY <1>1, <1>2, <1>3, <1>4, <1>5, <1>6, <1>7, <1>8, <1>9, <1>10
  DEF Next, TimerStep, DeviceStep, Terminated

\* timer.c implements the safety part of the slot clock for every number of
\* devices: nobody leaves next_slot before the clock ticks, the clock ticks
\* only when everybody has arrived or left, and halts only when all have left.
THEOREM RefinesClock == Spec => Clock!ClockSpec
<1>1. Init => Clock!ClockInit
  BY ClockInitHolds
<1>2. IInv /\ [Next]_vars => [Clock!ClockNext]_(Clock!clockVars)
  BY ClockStep
<1>3. QED
  BY <1>1, <1>2, Invariance, PTL DEF Spec, Clock!ClockSpec

================================================================================
