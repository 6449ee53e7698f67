------------------------------ MODULE UsbStdio ------------------------------
(***************************************************************************)
(* The USB side of picosim, libs/stdio_msc_usb: the console                *)
(* (stdio_msc_usb.c) and the mass storage access to the SD card            *)
(* (msc_usb.c), with the "u" command of the configuration dialog           *)
(* (srcsim/simcfg.c) that hands the card to the host and takes it back.    *)
(*                                                                         *)
(* Everything runs on core 0: the main program, the low priority worker    *)
(* interrupt that calls tud_task(), the one-shot timer that raises the     *)
(* worker again when the main program holds the mutex, and the USB         *)
(* interrupt that queues an event for tud_task() and raises the worker.    *)
(* The main program runs only while no handler does.  The code protects    *)
(* itself against the timer and the USB interrupt preempting the worker,   *)
(* so they may here.                                                       *)
(*                                                                         *)
(* TinyUSB is external: its event queue, and tud_task() as a loop that     *)
(* takes events from it until it is empty.                                 *)
(***************************************************************************)
EXTENDS Naturals, Sequences

CONSTANT MaxQueue     \* bound: events queued at a time

ASSUME MaxQueueAssumption == MaxQueue \in Nat \ {0}

VARIABLES
  main,           \* where the main program is
  ret,            \* where it goes on when the stdio call under way returns
  mutex,          \* owner of stdio_msc_usb_mutex
  irq_tud_task_enabled,
  one_shot_timer_pending,
  alarms,         \* one-shot alarms that are scheduled
  low,            \* the low priority interrupt is pending
  worker,         \* the step of low_priority_worker_irq() that is next
  timer,          \* the step of timer_task() that is next
  queue,          \* TinyUSB's event queue
  connected,      \* stdio_msc_usb_connected()
  available,      \* the console has input that is not read yet
  msc_ejected,
  mounted,        \* FatFS has the card mounted
  hostBlocks      \* what the host did to the card since FatFS mounted it

usbVars == <<queue, connected, available, msc_ejected, hostBlocks>>
timerVars == <<one_shot_timer_pending, alarms, low>>
vars == <<main, ret, mutex, irq_tud_task_enabled, worker, timer, mounted,
          timerVars, usbVars>>

(* line: DTR changes; input: the terminal sends; read10, write10, eject:   *)
(* mass storage                                                            *)
Events == {"line", "input", "read10", "write10", "eject"}

(* where the main program is inside tud_task(), and where it goes then *)
MainTud == {"tud", "msc_tud"}

TypeOK ==
  /\ main \in {"idle", "enter", "enter_in", "body", "body_in", "leave", "disable", "unlock",
               "activate", "loop", "mount"} \cup MainTud
  /\ ret \in {"idle", "disable", "mount"}
  /\ mutex \in {"free", "main", "worker"}
  /\ irq_tud_task_enabled \in BOOLEAN
  /\ one_shot_timer_pending \in BOOLEAN
  /\ alarms \in 0 .. 2
  /\ low \in BOOLEAN
  /\ worker \in {"none", "try", "tud", "leave", "need", "schedule"}
  /\ timer \in {"none", "clear", "raise"}
  /\ queue \in Seq(Events) /\ Len(queue) <= MaxQueue
  /\ connected \in BOOLEAN /\ available \in BOOLEAN /\ msc_ejected \in BOOLEAN /\ mounted \in BOOLEAN
  /\ hostBlocks \subseteq {"read10", "write10"}

(* stdio_msc_usb_init() has run, the terminal is connected and config()    *)
(* shows its menu.                                                         *)
Init ==
  /\ main = "idle" /\ ret = "idle"
  /\ mutex = "free"
  /\ irq_tud_task_enabled = TRUE
  /\ one_shot_timer_pending = FALSE
  /\ alarms = 0
  /\ low = FALSE
  /\ worker = "none" /\ timer = "none"
  /\ queue = <<>>
  /\ connected = TRUE /\ available = FALSE
  /\ msc_ejected = TRUE
  /\ mounted = TRUE
  /\ hostBlocks = {}

(***************************************************************************)
(* tud_task(), one event at a time.                                        *)
(***************************************************************************)
(* Mutant: the transfer callbacks do not test msc_ejected. *)
MutAccepts(e) == e \in {"read10", "write10"}

(* tud_msc_read10_cb() and tud_msc_write10_cb() refuse when ejected *)
Accepts(e) == e \in {"read10", "write10"} /\ ~msc_ejected

HandleEvent ==
  LET e == Head(queue)
  IN /\ queue # <<>>
     /\ queue' = Tail(queue)
     /\ connected' \in IF e = "line" THEN BOOLEAN ELSE {connected}
     /\ available' = (available \/ e = "input")
     /\ hostBlocks' = IF Accepts(e) THEN hostBlocks \cup {e} ELSE hostBlocks
     /\ msc_ejected' = (msc_ejected \/ e = "eject")

(***************************************************************************)
(* Interrupts.                                                             *)
(***************************************************************************)
(* USB interrupt: TinyUSB queues the event, usb_irq() raises the worker *)
UsbIrq(e) ==
  /\ Len(queue) < MaxQueue
  /\ queue' = Append(queue, e)
  /\ low' = TRUE
  /\ UNCHANGED <<main, ret, mutex, irq_tud_task_enabled, worker, timer,
                 mounted, one_shot_timer_pending, alarms, connected,
                 available, msc_ejected, hostBlocks>>

Worker(from, to) ==
  /\ timer = "none"
  /\ worker = from /\ worker' = to
  /\ UNCHANGED <<main, ret, timer, mounted, irq_tud_task_enabled>>

WorkerStart ==
  /\ low
  /\ Worker("none", "try")
  /\ low' = FALSE
  /\ UNCHANGED <<mutex, one_shot_timer_pending, alarms, usbVars>>

WorkerTry ==
  /\ IF mutex = "free"
       THEN /\ Worker("try", IF irq_tud_task_enabled THEN "tud" ELSE "leave")
            /\ mutex' = "worker"
       ELSE Worker("try", "need") /\ UNCHANGED mutex
  /\ UNCHANGED <<timerVars, usbVars>>

WorkerEvent ==
  /\ Worker("tud", "tud")
  /\ HandleEvent
  /\ UNCHANGED <<mutex, timerVars, mounted>>

WorkerTudReturns ==
  /\ queue = <<>>
  /\ Worker("tud", "leave")
  /\ UNCHANGED <<mutex, timerVars, usbVars>>

WorkerLeave ==
  /\ Worker("leave", "none")
  /\ mutex' = "free"
  /\ UNCHANGED <<timerVars, usbVars>>

(* Mutant: a timer is created without looking for a pending one. *)
MutWorkerNeed ==
  /\ Worker("need", "schedule")
  /\ one_shot_timer_pending' = TRUE
  /\ UNCHANGED <<mutex, alarms, low, usbVars>>

(* inside the critical section *)
WorkerNeed ==
  /\ Worker("need", IF one_shot_timer_pending THEN "none" ELSE "schedule")
  /\ one_shot_timer_pending' = TRUE
  /\ UNCHANGED <<mutex, alarms, low, usbVars>>

WorkerSchedule ==
  /\ Worker("schedule", "none")
  /\ alarms' = alarms + 1
  /\ UNCHANGED <<mutex, one_shot_timer_pending, low, usbVars>>

TimerFires ==
  /\ alarms > 0 /\ timer = "none"
  /\ timer' = "clear"
  /\ alarms' = alarms - 1
  /\ UNCHANGED <<main, ret, mutex, irq_tud_task_enabled, worker, mounted,
                 one_shot_timer_pending, low, usbVars>>

(* Mutant: the flag is not cleared. *)
MutTimerClear ==
  /\ timer = "clear"
  /\ timer' = "raise"
  /\ UNCHANGED <<main, ret, mutex, irq_tud_task_enabled, worker, mounted,
                 timerVars, usbVars>>

TimerClear ==
  /\ timer = "clear"
  /\ timer' = "raise"
  /\ one_shot_timer_pending' = FALSE
  /\ UNCHANGED <<main, ret, mutex, irq_tud_task_enabled, worker, mounted,
                 alarms, low, usbVars>>

TimerRaise ==
  /\ timer = "raise"
  /\ timer' = "none"
  /\ low' = TRUE
  /\ UNCHANGED <<main, ret, mutex, irq_tud_task_enabled, worker, mounted,
                 one_shot_timer_pending, alarms, usbVars>>

Interrupts ==
  \/ WorkerStart \/ WorkerTry \/ WorkerEvent \/ WorkerTudReturns
  \/ WorkerLeave \/ WorkerNeed \/ WorkerSchedule
  \/ TimerFires \/ TimerClear \/ TimerRaise

(***************************************************************************)
(* The main program.                                                       *)
(***************************************************************************)
Main(from, to) ==
  /\ worker = "none" /\ timer = "none"
  /\ main = from /\ main' = to
  /\ UNCHANGED <<worker, timer, timerVars>>

(* printf() and getchar() of the main program, whenever it likes; in_chars() *)
(* looks for input before it takes the mutex                                 *)
Output ==
  /\ Main("idle", "enter")
  /\ UNCHANGED <<ret, mutex, irq_tud_task_enabled, mounted, usbVars>>

Input ==
  /\ Main("idle", "enter_in")
  /\ connected /\ available
  /\ UNCHANGED <<ret, mutex, irq_tud_task_enabled, mounted, usbVars>>

(* The mutex is free: no handler holds it while the main program runs. *)
StdioEnter ==
  /\ \/ Main("enter", "body")
     \/ Main("enter_in", "body_in")
  /\ mutex = "free"
  /\ mutex' = "main"
  /\ UNCHANGED <<ret, irq_tud_task_enabled, mounted, usbVars>>

(* out_chars() *)
OutChars ==
  /\ Main("body", IF connected THEN "tud" ELSE "leave")
  /\ UNCHANGED <<ret, mutex, irq_tud_task_enabled, mounted, usbVars>>

(* in_chars(): tud_task() only when the input has gone since *)
InChars ==
  /\ IF connected /\ available
       THEN Main("body_in", "leave") /\ available' = FALSE
       ELSE Main("body_in", "tud") /\ UNCHANGED available
  /\ UNCHANGED <<ret, mutex, irq_tud_task_enabled, mounted, queue, connected,
                 msc_ejected, hostBlocks>>

MainEvent ==
  /\ \/ Main("tud", "tud")
     \/ Main("msc_tud", "msc_tud")
  /\ HandleEvent
  /\ UNCHANGED <<ret, mutex, irq_tud_task_enabled, mounted>>

StdioTudReturns ==
  /\ queue = <<>>
  /\ \/ Main("tud", "tud")        \* more output: tud_task() again
     \/ Main("tud", "leave")
  /\ UNCHANGED <<ret, mutex, irq_tud_task_enabled, mounted, usbVars>>

StdioLeave ==
  /\ Main("leave", ret)
  /\ ret' = "idle"
  /\ mutex' = "free"
  /\ UNCHANGED <<irq_tud_task_enabled, mounted, usbVars>>

(* "u" of the menu: exit_disks(), then a message *)
MenuMsc ==
  /\ Main("idle", "enter")
  /\ mounted' = FALSE
  /\ ret' = "disable"
  /\ UNCHANGED <<mutex, irq_tud_task_enabled, usbVars>>

(* stdio_msc_usb_do_msc() *)
MscDisable ==
  /\ Main("disable", "unlock")
  /\ mutex = "free"
  /\ mutex' = "main"
  /\ UNCHANGED <<ret, irq_tud_task_enabled, mounted, usbVars>>

(* Mutant: the worker is left to call tud_task(). *)
MutMscUnlock ==
  /\ Main("unlock", "activate")
  /\ mutex' = "free"
  /\ UNCHANGED <<ret, irq_tud_task_enabled, mounted, usbVars>>

MscUnlock ==
  /\ Main("unlock", "activate")
  /\ irq_tud_task_enabled' = FALSE
  /\ mutex' = "free"
  /\ UNCHANGED <<ret, mounted, usbVars>>

MscActivate ==
  /\ Main("activate", "loop")
  /\ msc_ejected' = FALSE
  /\ UNCHANGED <<ret, mutex, irq_tud_task_enabled, mounted, queue, connected,
                 available, hostBlocks>>

(* Mutant: the worker is not let in again. *)
MutMscLoop ==
  /\ IF msc_ejected
       THEN Main("loop", "enter") /\ ret' = "mount"
       ELSE Main("loop", "msc_tud") /\ UNCHANGED ret
  /\ UNCHANGED <<mutex, irq_tud_task_enabled, mounted, usbVars>>

MscLoop ==
  /\ IF msc_ejected
       THEN /\ Main("loop", "enter")
            /\ irq_tud_task_enabled' = TRUE
            /\ ret' = "mount"
       ELSE /\ Main("loop", "msc_tud")
            /\ UNCHANGED <<irq_tud_task_enabled, ret>>
  /\ UNCHANGED <<mutex, mounted, usbVars>>

MscTudReturns ==
  /\ queue = <<>>
  /\ Main("msc_tud", "loop")
  /\ UNCHANGED <<ret, mutex, irq_tud_task_enabled, mounted, usbVars>>

(* init_disks(), after the second message *)
MscMount ==
  /\ Main("mount", "idle")
  /\ mounted' = TRUE
  /\ hostBlocks' = {}
  /\ UNCHANGED <<ret, mutex, irq_tud_task_enabled, queue, connected,
                 available, msc_ejected>>

MainContinues ==
  \/ StdioEnter \/ OutChars \/ InChars \/ MainEvent \/ StdioTudReturns
  \/ StdioLeave \/ MscDisable \/ MscUnlock \/ MscActivate \/ MscLoop
  \/ MscTudReturns \/ MscMount

Next ==
  \/ \E e \in Events : UsbIrq(e)
  \/ Interrupts
  \/ Output \/ Input \/ MenuMsc
  \/ MainContinues

(* Handlers run when they are raised, the alarm fires, and they leave the  *)
(* main program time: the one-shot timer waits an interval.  Output gives  *)
(* up after a timeout.  The host owes nothing.                             *)
Fairness ==
  /\ WF_vars(Interrupts)
  /\ SF_vars(MainContinues)
  /\ SF_vars(StdioTudReturns /\ main' = "leave")

Spec == Init /\ [][Next]_vars /\ Fairness

(***************************************************************************)
(* Properties.                                                             *)
(***************************************************************************)

(* tud_task() is not reentrant, and is never entered by the worker while   *)
(* the main program is inside: in stdio calls the mutex sees to that, in   *)
(* stdio_msc_usb_do_msc(), which takes no mutex, irq_tud_task_enabled.     *)
TudExclusive == ~(main \in MainTud /\ worker = "tud")

(* Host and FatFS never share the card: while FatFS has it mounted, the    *)
(* host has read and written nothing since it was, so what FatFS caches is *)
(* what the card holds and the host never sees a half-written file system, *)
(* whatever requests are queued when the disk is ejected.                  *)
CardHasOneUser == mounted => hostBlocks = {}

(* "must make sure we don't either create multiple one shot timers, or     *)
(* miss creating one" (stdio_msc_usb.c:25): there is never more than one,  *)
(* and one is on its way whenever the flag says so.                        *)
OneShotTimer ==
  /\ alarms + (IF worker = "schedule" THEN 1 ELSE 0) <= 1
  /\ one_shot_timer_pending =>
       alarms = 1 \/ worker = "schedule" \/ timer = "clear"

(* No USB event is forgotten: an interrupt that finds the mutex taken, or  *)
(* comes while a handler is leaving, still gets tud_task() to run, as long *)
(* as the terminal is connected.                                           *)
TudRuns == main \in MainTud \/ worker = "tud"
EventsServed == queue # <<>> ~> (TudRuns \/ ~connected)
=============================================================================
