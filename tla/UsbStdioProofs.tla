--------------------------- MODULE UsbStdioProofs ---------------------------
(***************************************************************************)
(* Proofs about UsbStdio: tud_task() is never entered twice, the SD card   *)
(* has one user, there is one one-shot timer, for every length of          *)
(* TinyUSB's queue.                                                        *)
(***************************************************************************)
EXTENDS UsbStdio, TLAPS

(* Who holds the mutex, and where in the main program the worker is kept   *)
(* out of tud_task(): no handler that may call it was let in before.       *)
MutexOK ==
  /\ mutex = "worker" <=> worker \in {"tud", "leave"}
  /\ mutex = "main" <=> main \in {"body", "body_in", "tud", "leave", "unlock"}
  /\ irq_tud_task_enabled <=> main \notin {"activate", "loop", "msc_tud"}
  /\ worker = "tud" => irq_tud_task_enabled

(* The card is unmounted from the menu command to the mount, and the disk  *)
(* is inserted only in the middle of it.                                   *)
CardOK ==
  /\ ret # "idle" => main \in {"enter", "body", "tud", "leave"} /\ ~mounted
  /\ main \in {"disable", "unlock", "activate", "loop", "msc_tud", "mount"} => ~mounted
  /\ main \notin {"loop", "msc_tud"} => msc_ejected
  /\ CardHasOneUser

(* The one-shot timer is about to be created, scheduled, or about to be    *)
(* forgotten, and the flag says whether there is one.                      *)
TimerOK ==
  alarms + (IF worker = "schedule" THEN 1 ELSE 0) + (IF timer = "clear" THEN 1 ELSE 0)
    = (IF one_shot_timer_pending THEN 1 ELSE 0)

IInv == TypeOK /\ MutexOK /\ CardOK /\ TimerOK

(* The values of the control variables. *)
ControlOK ==
  /\ main \in {"idle", "enter", "enter_in", "body", "body_in", "leave", "disable", "unlock",
               "activate", "loop", "mount", "tud", "msc_tud"}
  /\ ret \in {"idle", "disable", "mount"}
  /\ mutex \in {"free", "main", "worker"}
  /\ worker \in {"none", "try", "tud", "leave", "need", "schedule"}
  /\ timer \in {"none", "clear", "raise"}

(* what came from USB *)
EventsOK ==
  /\ queue \in Seq(Events) /\ Len(queue) <= MaxQueue
  /\ connected \in BOOLEAN /\ available \in BOOLEAN /\ msc_ejected \in BOOLEAN
  /\ hostBlocks \subseteq {"read10", "write10"}

(* the flags of the program *)
FlagsOK ==
  /\ irq_tud_task_enabled \in BOOLEAN /\ mounted \in BOOLEAN
  /\ one_shot_timer_pending \in BOOLEAN
  /\ low \in BOOLEAN

LEMMA TypeParts == TypeOK <=> ControlOK /\ EventsOK /\ FlagsOK /\ alarms \in 0 .. 2
<1>1. TypeOK => ControlOK /\ EventsOK /\ FlagsOK /\ alarms \in 0 .. 2
  BY Zenon DEF TypeOK, ControlOK, EventsOK, FlagsOK, MainTud
<1>2. ControlOK /\ EventsOK /\ FlagsOK /\ alarms \in 0 .. 2 => TypeOK
  <2> SUFFICES ASSUME ControlOK, EventsOK, FlagsOK, alarms \in 0 .. 2 PROVE TypeOK
    OBVIOUS
  <2>1. main \in {"idle", "enter", "enter_in", "body", "body_in", "leave", "disable", "unlock",
               "activate", "loop", "mount"} \cup MainTud
    BY DEF ControlOK, MainTud
  <2> QED BY <2>1, Zenon DEF TypeOK, ControlOK, EventsOK, FlagsOK
<1> QED BY <1>1, <1>2

LEMMA InitOK == ASSUME Init PROVE IInv
<1>1. ControlOK
  BY Zenon DEF Init, ControlOK
<1>2. EventsOK
  <2>1. queue \in Seq(Events) /\ Len(queue) <= MaxQueue /\ hostBlocks \subseteq {"read10", "write10"}
    BY MaxQueueAssumption DEF Init
  <2> QED BY <2>1, Zenon DEF Init, EventsOK
<1>3. FlagsOK
  BY Zenon DEF Init, FlagsOK
<1>4. TypeOK
  BY <1>1, <1>2, <1>3, TypeParts DEF Init
<1> QED BY <1>4 DEF Init, IInv, MutexOK, CardOK, CardHasOneUser, TimerOK

LEMMA ControlStep == ASSUME ControlOK, [Next]_vars PROVE ControlOK'
<1> USE DEF ControlOK
<1>1. ASSUME NEW e \in Events, UsbIrq(e) PROVE ControlOK'
  BY <1>1 DEF UsbIrq
<1>2. CASE Interrupts
  BY <1>2 DEF Interrupts, Worker, WorkerStart, WorkerTry, WorkerEvent, WorkerTudReturns, WorkerLeave, WorkerNeed,
     WorkerSchedule, TimerFires, TimerClear, TimerRaise
<1>3. CASE Output \/ Input \/ MenuMsc
  BY <1>3 DEF Output, Input, MenuMsc, Main
<1>4. CASE MainContinues
  BY <1>4 DEF MainContinues, Main, StdioEnter, OutChars, InChars, MainEvent, StdioTudReturns, StdioLeave,
     MscDisable, MscUnlock, MscActivate, MscLoop, MscTudReturns, MscMount
<1>5. CASE UNCHANGED vars
  BY <1>5 DEF vars
<1> QED BY <1>1, <1>2, <1>3, <1>4, <1>5 DEF Next

LEMMA MutexStep == ASSUME ControlOK, MutexOK, [Next]_vars PROVE MutexOK'
<1> USE DEF ControlOK, MutexOK
<1>1. ASSUME NEW e \in Events, UsbIrq(e) PROVE MutexOK'
  BY <1>1 DEF UsbIrq
<1>2. CASE Interrupts
  BY <1>2 DEF Interrupts, Worker, WorkerStart, WorkerTry, WorkerEvent, WorkerTudReturns, WorkerLeave, WorkerNeed,
     WorkerSchedule, TimerFires, TimerClear, TimerRaise
<1>3. CASE Output \/ Input \/ MenuMsc
  BY <1>3 DEF Output, Input, MenuMsc, Main
<1>4. CASE MainContinues
  BY <1>4 DEF MainContinues, Main, StdioEnter, OutChars, InChars, MainEvent, StdioTudReturns, StdioLeave,
     MscDisable, MscUnlock, MscActivate, MscLoop, MscTudReturns, MscMount
<1>5. CASE UNCHANGED vars
  BY <1>5 DEF vars
<1> QED BY <1>1, <1>2, <1>3, <1>4, <1>5 DEF Next
(* A queued event is taken and handled. *)
LEMMA EventStep == ASSUME EventsOK, HandleEvent PROVE EventsOK'
<1>1. queue # <<>> /\ queue \in Seq(Events) /\ queue' = Tail(queue)
  BY DEF EventsOK, HandleEvent
<1>2. queue' \in Seq(Events) /\ Len(queue') <= MaxQueue
  BY <1>1, MaxQueueAssumption DEF EventsOK
<1>3. connected' \in BOOLEAN
  BY DEF EventsOK, HandleEvent
<1>4. available' \in BOOLEAN /\ msc_ejected' \in BOOLEAN
  BY Zenon DEF EventsOK, HandleEvent
<1>5. hostBlocks' \subseteq {"read10", "write10"}
  BY DEF EventsOK, HandleEvent, Accepts
<1> QED BY <1>2, <1>3, <1>4, <1>5, Zenon DEF EventsOK

LEMMA EventsStep == ASSUME EventsOK, [Next]_vars PROVE EventsOK'
<1>1. ASSUME NEW e \in Events, UsbIrq(e) PROVE EventsOK'
  <2>1. queue' \in Seq(Events) /\ Len(queue') <= MaxQueue
    BY <1>1, MaxQueueAssumption DEF EventsOK, UsbIrq
  <2> QED BY <1>1, <2>1, Zenon DEF EventsOK, UsbIrq
<1>2. CASE WorkerEvent \/ MainEvent
  BY <1>2, EventStep DEF WorkerEvent, MainEvent
<1>3. CASE UNCHANGED usbVars
  BY <1>3, Zenon DEF usbVars, EventsOK
<1>4. CASE InChars
  <2>1. available' \in BOOLEAN
    BY <1>4 DEF InChars, EventsOK
  <2> QED BY <1>4, <2>1, Zenon DEF InChars, EventsOK
<1>5. CASE MscActivate
  BY <1>5, Zenon DEF MscActivate, EventsOK
<1>6. CASE MscMount
  BY <1>6 DEF MscMount, EventsOK
<1>7. ASSUME Next PROVE (\E e \in Events : UsbIrq(e)) \/ WorkerEvent \/ MainEvent \/ InChars
                        \/ MscActivate \/ MscMount \/ UNCHANGED usbVars
  BY <1>7 DEF Next, Interrupts, MainContinues, WorkerStart, WorkerTry, WorkerTudReturns, WorkerLeave, WorkerNeed,
     WorkerSchedule, TimerFires, TimerClear, TimerRaise, Output, Input, MenuMsc, StdioEnter, OutChars,
     StdioTudReturns, StdioLeave, MscDisable, MscUnlock, MscLoop, MscTudReturns
<1>8. CASE UNCHANGED vars
  BY <1>8, <1>3 DEF vars, usbVars
<1> QED BY <1>1, <1>2, <1>3, <1>4, <1>5, <1>6, <1>7, <1>8

(* The flags are raised and cleared. *)
LEMMA FlagsStep == ASSUME FlagsOK, [Next]_vars PROVE FlagsOK'
<1> USE DEF FlagsOK, timerVars
<1>1. ASSUME NEW e \in Events, UsbIrq(e) PROVE FlagsOK'
  BY <1>1, Zenon DEF UsbIrq
<1>2. CASE Interrupts
  BY <1>2, Zenon DEF Interrupts, Worker, WorkerStart, WorkerTry, WorkerEvent, WorkerTudReturns, WorkerLeave, WorkerNeed,
     WorkerSchedule, TimerFires, TimerClear, TimerRaise
<1>3. CASE Output \/ Input \/ MenuMsc
  BY <1>3, Zenon DEF Output, Input, MenuMsc, Main
<1>4. CASE MainContinues
  BY <1>4, Zenon DEF MainContinues, Main, StdioEnter, OutChars, InChars, MainEvent, StdioTudReturns, StdioLeave,
     MscDisable, MscUnlock, MscActivate, MscLoop, MscTudReturns, MscMount
<1>5. CASE UNCHANGED vars
  BY <1>5, Zenon DEF vars
<1> QED BY <1>1, <1>2, <1>3, <1>4, <1>5 DEF Next

(* The timer, its flag and the step of the worker that creates it: while   *)
(* timer_task() runs, no worker does.                                      *)
LEMMA TimerStep == ASSUME FlagsOK, TimerOK, alarms \in 0 .. 2, [Next]_vars PROVE TimerOK' /\ alarms' \in 0 .. 2
<1>1. UNCHANGED <<one_shot_timer_pending, alarms>> /\ ((timer = "clear") = (timer' = "clear"))
        /\ ((worker = "schedule") = (worker' = "schedule")) => TimerOK' /\ alarms' \in 0 .. 2
  BY DEF TimerOK
<1>2. CASE WorkerNeed \/ WorkerSchedule \/ TimerFires \/ TimerClear
  BY <1>2 DEF TimerOK, FlagsOK, Worker, WorkerNeed, WorkerSchedule, TimerFires, TimerClear
<1>3. CASE UNCHANGED <<one_shot_timer_pending, alarms>> /\ ((timer = "clear") = (timer' = "clear"))
             /\ ((worker = "schedule") = (worker' = "schedule"))
  BY <1>1, <1>3
<1>4. ASSUME NEW e \in Events, UsbIrq(e) PROVE TimerOK' /\ alarms' \in 0 .. 2
  BY <1>4, <1>3 DEF UsbIrq
<1>5. CASE Output \/ Input \/ MenuMsc
  BY <1>5, <1>3 DEF Output, Input, MenuMsc, Main, timerVars
<1>6. CASE MainContinues
  BY <1>6, <1>3 DEF MainContinues, Main, StdioEnter, OutChars, InChars, MainEvent, StdioTudReturns, StdioLeave,
     MscDisable, MscUnlock, MscActivate, MscLoop, MscTudReturns, MscMount, timerVars
<1>7. CASE WorkerStart \/ WorkerTry \/ WorkerEvent \/ WorkerTudReturns \/ WorkerLeave \/ TimerRaise
  BY <1>7, <1>3 DEF Worker, WorkerStart, WorkerTry, WorkerEvent, WorkerTudReturns, WorkerLeave, TimerRaise, timerVars
<1>8. CASE UNCHANGED vars
  BY <1>8, <1>3 DEF vars, timerVars
<1> QED BY <1>2, <1>4, <1>5, <1>6, <1>7, <1>8 DEF Next, Interrupts

(* What the host does to the card, in a handler or in the main program. *)
LEMMA HostStep ==
  ASSUME CardOK, HandleEvent, UNCHANGED <<main, ret, mounted>>
  PROVE  CardOK'
BY DEF CardOK, CardHasOneUser, HandleEvent, Accepts

LEMMA CardStep == ASSUME ControlOK, CardOK, [Next]_vars PROVE CardOK'
<1> USE DEF ControlOK, CardOK, CardHasOneUser, usbVars
<1>1. ASSUME NEW e \in Events, UsbIrq(e) PROVE CardOK'
  BY <1>1 DEF UsbIrq
<1>2. CASE WorkerEvent
  BY <1>2, HostStep DEF WorkerEvent, Worker
<1>3. CASE MainEvent
  BY <1>3, HostStep DEF MainEvent, Main
<1>4. CASE Interrupts /\ ~WorkerEvent
  BY <1>4 DEF Interrupts, Worker, WorkerStart, WorkerTry, WorkerTudReturns, WorkerLeave, WorkerNeed,
     WorkerSchedule, TimerFires, TimerClear, TimerRaise
<1>5. CASE Output \/ Input \/ MenuMsc
  BY <1>5 DEF Output, Input, MenuMsc, Main
<1>6. CASE MainContinues /\ ~MainEvent
  BY <1>6 DEF MainContinues, Main, StdioEnter, OutChars, InChars, StdioTudReturns, StdioLeave,
     MscDisable, MscUnlock, MscActivate, MscLoop, MscTudReturns, MscMount
<1>7. CASE UNCHANGED vars
  BY <1>7 DEF vars
<1> QED BY <1>1, <1>2, <1>3, <1>4, <1>5, <1>6, <1>7 DEF Next

THEOREM Invariance == Spec => []IInv
<1>1. Init => IInv
  BY InitOK
<1>2. IInv /\ [Next]_vars => IInv'
  <2> SUFFICES ASSUME IInv, [Next]_vars PROVE IInv'
    OBVIOUS
  <2>1. ControlOK /\ EventsOK /\ FlagsOK /\ alarms \in 0 .. 2 /\ MutexOK /\ CardOK /\ TimerOK
    BY TypeParts DEF IInv
  <2>2. ControlOK' /\ EventsOK' /\ FlagsOK' /\ alarms' \in 0 .. 2 /\ MutexOK' /\ CardOK' /\ TimerOK'
    BY <2>1, ControlStep, EventsStep, FlagsStep, TimerStep, MutexStep, CardStep
  <2>3. (ControlOK /\ EventsOK /\ FlagsOK /\ alarms \in 0 .. 2)' => TypeOK'
    BY TypeParts, PTL
  <2> QED BY <2>2, <2>3 DEF IInv
<1> QED BY <1>1, <1>2, PTL DEF Spec

(* Every variable keeps its type; the queue its bound. *)
THEOREM TypeCorrect == Spec => []TypeOK
<1>1. IInv => TypeOK
  BY DEF IInv
<1> QED BY <1>1, Invariance, PTL

(* tud_task() is never entered by the worker while the main program is     *)
(* inside, in a stdio call or in the mass storage session.                 *)
THEOREM TudNotReentered == Spec => []TudExclusive
<1>1. IInv => TudExclusive
  BY DEF IInv, MutexOK, TudExclusive, MainTud
<1> QED BY <1>1, Invariance, PTL

(* The host touches the card only while FatFS has it unmounted. *)
THEOREM OneUser == Spec => []CardHasOneUser
<1>1. IInv => CardHasOneUser
  BY DEF IInv, CardOK
<1> QED BY <1>1, Invariance, PTL

(* There is one one-shot timer when the flag says so, and never two. *)
THEOREM OneTimer == Spec => []OneShotTimer
<1>1. IInv => OneShotTimer
  BY DEF IInv, TypeOK, TimerOK, OneShotTimer
<1> QED BY <1>1, Invariance, PTL
=============================================================================
