------------------------------ MODULE LcdTask ------------------------------
(***************************************************************************)
(* The LCD of the picosim machine, srcsim/lcd.c.  Core 0 runs main(), the  *)
(* configuration dialog and the emulated CPU; it never touches the panel   *)
(* but leaves its wishes in volatile variables (draw function, backlight,  *)
(* rotation).  Core 1 runs lcd_task(), an endless refresh loop that polls  *)
(* those variables one at a time, draws a frame into the pixmap and sends  *)
(* it to the controller.  There is no lock: the protocol is the order of   *)
(* the loads and stores, which is why each load of a volatile variable in  *)
(* lcd_task() is a step of its own here.  Every API call of core 0 writes  *)
(* at most one variable that core 1 reads, so a call is one step.          *)
(*                                                                         *)
(* The Cromemco Dazzler (srcsim/dazzler.c) takes the screen over and gives *)
(* it back through the same API and is modelled with it.                   *)
(***************************************************************************)
EXTENDS Naturals

CONSTANT Backlights     \* values lcd_brightness() is called with (uint8_t)

ASSUME BacklightsAssumption == Backlights \subseteq 0..255 /\ 90 \in Backlights

VARIABLES
  phase,            \* core 0: where main() is
  lcd_draw_func,    \* shared, written by core 0, read by core 1
  lcd_backlight,    \* shared, written by core 0, read by core 1
  lcd_rotated,      \* shared, written by core 0, read by core 1
  lcd_task_done,    \* shared, written by core 1, read by core 0
  lcd_status_func,  \* core 0: the status panel that is current
  lcd_shows_status, \* core 0: the status panel is what is displayed
  initial_lcd,      \* core 0: status panel chosen in the configuration
  dazzler_state,    \* core 0: the Dazzler is switched on
  core1,            \* core 1: the step of lcd_task() it is about to take
  task,             \* core 1: locals of lcd_task()
  flags,            \* Dazzler frame flag, written by core 1, read by the CPU
  pixmap,           \* whose picture the pixmap holds
  panel             \* the LCD controller, as lcd_dev.c drives it

core0Vars == <<phase, lcd_status_func, lcd_shows_status, initial_lcd,
               dazzler_state>>
sharedVars == <<lcd_draw_func, lcd_backlight, lcd_rotated, lcd_task_done>>
core1Vars == <<core1, task, flags, pixmap, panel>>
vars == <<core0Vars, sharedVars, core1Vars>>

NULL == "NULL"
StatusPanels == {"cpu_reg", "panel", "drives", "ports", "memory"}
DrawFuncs == StatusPanels \cup {"empty", "wait_term", "banner", "dazzler"}

Phases == {"start", "connect", "banner", "config", "run", "halt", "exit",
           "reset"}
Core1Steps == {"init", "check", "backlight", "rotation", "getfunc", "draw",
               "flag", "send", "sleep", "stop", "done", "park", "fault",
               "off"}

(* lcd_status_next() cycles through the panels a build with SIMPLEPANEL and *)
(* IOPANEL has.                                                             *)
NextPanel ==
  [cpu_reg |-> "panel", panel |-> "drives", drives |-> "ports",
   ports |-> "memory", memory |-> "cpu_reg"]

Core0TypeOK ==
  /\ phase \in Phases
  /\ lcd_status_func \in StatusPanels
  /\ lcd_shows_status \in BOOLEAN
  /\ initial_lcd \in StatusPanels
  /\ dazzler_state \in BOOLEAN

SharedTypeOK ==
  /\ lcd_draw_func \in DrawFuncs \cup {NULL}
  /\ lcd_backlight \in Backlights
  /\ lcd_rotated \in BOOLEAN
  /\ lcd_task_done \in BOOLEAN

Core1TypeOK ==
  /\ core1 \in Core1Steps
  /\ task \in [backlight: Backlights, rotated: BOOLEAN, first: BOOLEAN,
               draw_func: DrawFuncs \cup {NULL}]
  /\ flags \in {0, 64}
  /\ pixmap \in DrawFuncs \cup {"none", "mixed"}
  /\ panel \in [on: BOOLEAN, light: 0..100, rotated: BOOLEAN,
                shows: DrawFuncs \cup {"none", "mixed"}]

TypeOK == Core0TypeOK /\ SharedTypeOK /\ Core1TypeOK

(***************************************************************************)
(* Power on: lcd_init() has set the shared variables and launched core 1.  *)
(* A watchdog reboot comes back here.                                      *)
(***************************************************************************)
Start ==
  [phase |-> "start", initial_lcd |-> "cpu_reg",
   task |-> [backlight |-> 90, rotated |-> FALSE, first |-> TRUE,
             draw_func |-> NULL],
   panel |-> [on |-> FALSE, light |-> 0, rotated |-> FALSE,
              shows |-> "none"]]

Init ==
  /\ phase = Start.phase
  /\ lcd_draw_func = "empty"
  /\ lcd_backlight = 90
  /\ lcd_rotated = FALSE
  /\ lcd_task_done = FALSE
  /\ lcd_status_func = "cpu_reg"
  /\ lcd_shows_status = FALSE
  /\ initial_lcd = Start.initial_lcd
  /\ dazzler_state = FALSE
  /\ core1 = "init"
  /\ task = Start.task
  /\ flags = 64
  /\ pixmap = "none"
  /\ panel = Start.panel

(***************************************************************************)
(* The API of lcd.c, called on core 0.                                     *)
(***************************************************************************)
lcd_custom_disp(f) ==
  /\ lcd_draw_func' = f
  /\ lcd_shows_status' = FALSE
  /\ UNCHANGED lcd_status_func

(* which is a panel, or "current" (LCD_STATUS_CURRENT) for the last one *)
lcd_status_disp(which) ==
  /\ lcd_status_func' = IF which \in StatusPanels THEN which
                                                  ELSE lcd_status_func
  /\ lcd_draw_func' = lcd_status_func'
  /\ lcd_shows_status' = TRUE

(* Mutant: takes the screen over even when no status panel is displayed. *)
MutNextPanelAlways ==
  /\ lcd_status_func' = NextPanel[lcd_status_func]
  /\ lcd_draw_func' = lcd_status_func'
  /\ UNCHANGED lcd_shows_status

lcd_status_next ==
  /\ lcd_status_func' = NextPanel[lcd_status_func]
  /\ lcd_draw_func' = IF lcd_shows_status THEN lcd_status_func'
                                          ELSE lcd_draw_func
  /\ UNCHANGED lcd_shows_status

(***************************************************************************)
(* main() and config() on core 0.                                          *)
(***************************************************************************)
WaitTerminal ==
  /\ phase = "start"
  /\ phase' = "connect"
  /\ lcd_custom_disp("wait_term")
  /\ UNCHANGED <<lcd_backlight, lcd_rotated, lcd_task_done, initial_lcd,
                 dazzler_state, core1Vars>>

TerminalConnected ==
  /\ phase = "connect"
  /\ phase' = "banner"
  /\ lcd_custom_disp("banner")
  /\ UNCHANGED <<lcd_backlight, lcd_rotated, lcd_task_done, initial_lcd,
                 dazzler_state, core1Vars>>

(* config() reads the file, or keeps its defaults, and applies it.  The two *)
(* stores are two steps for core 1, but core 1 reads each of them in a step *)
(* of its own anyway and cannot tell.                                       *)
ReadConfig(b, r, p) ==
  /\ phase = "banner"
  /\ phase' = "config"
  /\ lcd_backlight' = b
  /\ lcd_rotated' = r
  /\ initial_lcd' = p
  /\ UNCHANGED <<lcd_draw_func, lcd_task_done, lcd_status_func,
                 lcd_shows_status, dazzler_state, core1Vars>>

MenuBrightness(b) ==
  /\ phase = "config"
  /\ b <= 100                       \* get_int() enforces the range
  /\ lcd_backlight' = b
  /\ UNCHANGED <<core0Vars, lcd_draw_func, lcd_rotated, lcd_task_done,
                 core1Vars>>

MenuRotate ==
  /\ phase = "config"
  /\ lcd_rotated' = ~lcd_rotated
  /\ UNCHANGED <<core0Vars, lcd_draw_func, lcd_backlight, lcd_task_done,
                 core1Vars>>

MenuLcd ==
  /\ phase = "config"
  /\ initial_lcd' = NextPanel[initial_lcd]
  /\ UNCHANGED <<phase, lcd_status_func, lcd_shows_status, dazzler_state,
                 sharedVars, core1Vars>>

MenuGo ==
  /\ phase = "config"
  /\ phase' = "run"
  /\ lcd_status_disp(initial_lcd)
  /\ UNCHANGED <<lcd_backlight, lcd_rotated, lcd_task_done, initial_lcd,
                 dazzler_state, core1Vars>>

(* dazzler_ctl_out(): output to port 14, or the reset of hwctl_out() *)
dazzler_ctl_out(on) ==
  /\ phase = "run"
  /\ on # dazzler_state
  /\ dazzler_state' = on
  /\ IF on THEN lcd_custom_disp("dazzler") ELSE lcd_status_disp("current")
  /\ UNCHANGED <<phase, initial_lcd, lcd_backlight, lcd_rotated,
                 lcd_task_done, core1Vars>>

(* hwctl_out() bit 3: next status display *)
HwctlNextPanel ==
  /\ phase = "run"
  /\ lcd_status_next
  /\ UNCHANGED <<phase, initial_lcd, dazzler_state, lcd_backlight,
                 lcd_rotated, lcd_task_done, core1Vars>>

CpuStops ==
  /\ phase = "run"
  /\ phase' = "halt"
  /\ UNCHANGED <<lcd_status_func, lcd_shows_status, initial_lcd,
                 dazzler_state, sharedVars, core1Vars>>

(* a key was pressed: lcd_exit() asks core 1 to finish ... *)
lcd_exit ==
  /\ phase = "halt"
  /\ phase' = "exit"
  /\ lcd_custom_disp(NULL)
  /\ UNCHANGED <<lcd_backlight, lcd_rotated, lcd_task_done, initial_lcd,
                 dazzler_state, core1Vars>>

(* Mutant: does not wait for core 1. *)
MutExitAtOnce ==
  /\ phase = "exit"
  /\ phase' = "reset"
  /\ core1' = "off"
  /\ UNCHANGED <<lcd_status_func, lcd_shows_status, initial_lcd,
                 dazzler_state, sharedVars, task, flags, pixmap, panel>>

(* ... and resets core 1 once it has *)
ExitDone ==
  /\ phase = "exit"
  /\ lcd_task_done
  /\ phase' = "reset"
  /\ core1' = "off"
  /\ UNCHANGED <<lcd_status_func, lcd_shows_status, initial_lcd,
                 dazzler_state, sharedVars, task, flags, pixmap, panel>>

watchdog_reboot ==
  /\ phase = "reset"
  /\ phase' = Start.phase
  /\ lcd_draw_func' = "empty"
  /\ lcd_backlight' = 90
  /\ lcd_rotated' = FALSE
  /\ lcd_task_done' = FALSE
  /\ lcd_status_func' = "cpu_reg"
  /\ lcd_shows_status' = FALSE
  /\ initial_lcd' = Start.initial_lcd
  /\ dazzler_state' = FALSE
  /\ core1' = "init"
  /\ task' = Start.task
  /\ flags' = 64
  /\ pixmap' = "none"
  /\ panel' = Start.panel

Core0Waits == ExitDone \/ watchdog_reboot

Core0 ==
  \/ WaitTerminal
  \/ TerminalConnected
  \/ \E b \in Backlights, r \in BOOLEAN, p \in StatusPanels :
       ReadConfig(b, r, p)
  \/ \E b \in Backlights : MenuBrightness(b)
  \/ MenuRotate
  \/ MenuLcd
  \/ MenuGo
  \/ \E on \in BOOLEAN : dazzler_ctl_out(on)
  \/ HwctlNextPanel
  \/ CpuStops
  \/ lcd_exit
  \/ Core0Waits

(***************************************************************************)
(* lcd_task() on core 1.                                                   *)
(***************************************************************************)
Goto(from, to) == core1 = from /\ core1' = to

(* lcd_dev_backlight() ignores a level above 100 *)
lcd_dev_backlight(v, old) == IF v <= 100 THEN v ELSE old

(* Mutant: the level is remembered but not applied. *)
MutInitNoLight ==
  /\ Goto("init", "check")
  /\ task' = [task EXCEPT !.backlight = lcd_backlight]
  /\ panel' = [panel EXCEPT !.on = TRUE, !.rotated = FALSE, !.light = 1]
  /\ UNCHANGED <<core0Vars, sharedVars, flags, pixmap>>

TaskInit ==
  /\ Goto("init", "check")
  /\ task' = [task EXCEPT !.backlight = lcd_backlight]
  /\ panel' = [panel EXCEPT !.on = TRUE, !.rotated = FALSE,
                            !.light = lcd_dev_backlight(lcd_backlight, 1)]
  /\ UNCHANGED <<core0Vars, sharedVars, flags, pixmap>>

TaskCheckExit ==
  /\ core1 = "check"
  /\ core1' = IF lcd_draw_func = NULL THEN "stop" ELSE "backlight"
  /\ UNCHANGED <<core0Vars, sharedVars, task, flags, pixmap, panel>>

TaskBacklight ==
  /\ Goto("backlight", "rotation")
  /\ IF lcd_backlight # task.backlight
       THEN /\ task' = [task EXCEPT !.backlight = lcd_backlight]
            /\ panel' = [panel EXCEPT
                           !.light = lcd_dev_backlight(lcd_backlight, @)]
       ELSE UNCHANGED <<task, panel>>
  /\ UNCHANGED <<core0Vars, sharedVars, flags, pixmap>>

TaskRotation ==
  /\ Goto("rotation", "getfunc")
  /\ task' = [task EXCEPT !.rotated = lcd_rotated]
  /\ panel' = IF lcd_rotated # task.rotated
                THEN [panel EXCEPT !.rotated = lcd_rotated]
                ELSE panel
  /\ UNCHANGED <<core0Vars, sharedVars, flags, pixmap>>

(* Mutant: a change of the draw function does not ask for a full repaint. *)
MutNoFirst ==
  /\ Goto("getfunc", "draw")
  /\ task' = [task EXCEPT !.draw_func = lcd_draw_func]
  /\ UNCHANGED <<core0Vars, sharedVars, flags, pixmap, panel>>

(* Mutant: the load is hoisted out of the loop. *)
MutLoadOnce ==
  /\ Goto("getfunc", "draw")
  /\ task' = IF task.draw_func = NULL
               THEN [task EXCEPT !.draw_func = lcd_draw_func]
               ELSE task
  /\ UNCHANGED <<core0Vars, sharedVars, flags, pixmap, panel>>

(* the second load of lcd_draw_func in an iteration *)
TaskGetFunc ==
  /\ Goto("getfunc", "draw")
  /\ task' = IF lcd_draw_func # task.draw_func
               THEN [task EXCEPT !.draw_func = lcd_draw_func, !.first = TRUE]
               ELSE task
  /\ UNCHANGED <<core0Vars, sharedVars, flags, pixmap, panel>>

(* A first call repaints the whole pixmap, a later one only what changed.   *)
(* The Dazzler then clears its frame flag for 4 ms.                         *)
TaskDraw ==
  /\ core1 = "draw"
  /\ task.draw_func # NULL
  /\ pixmap' = IF task.first \/ pixmap = task.draw_func
                 THEN task.draw_func ELSE "mixed"
  /\ task' = [task EXCEPT !.first = FALSE]
  /\ IF task.draw_func = "dazzler" /\ ~task.first
       THEN core1' = "flag" /\ flags' = 0
       ELSE core1' = "send" /\ UNCHANGED flags
  /\ UNCHANGED <<core0Vars, sharedVars, panel>>

(* a call through the null pointer: the core ends in its fault handler *)
TaskDrawNull ==
  /\ Goto("draw", "fault")
  /\ task.draw_func = NULL
  /\ UNCHANGED <<core0Vars, sharedVars, task, flags, pixmap, panel>>

(* Mutant: the flag is not raised again. *)
MutFlagStaysLow ==
  /\ Goto("flag", "send")
  /\ UNCHANGED <<core0Vars, sharedVars, task, flags, pixmap, panel>>

TaskFrameFlag ==
  /\ Goto("flag", "send")
  /\ flags' = 64
  /\ UNCHANGED <<core0Vars, sharedVars, task, pixmap, panel>>

TaskSend ==
  /\ Goto("send", "sleep")
  /\ panel' = [panel EXCEPT !.shows = pixmap]
  /\ UNCHANGED <<core0Vars, sharedVars, task, flags, pixmap>>

TaskSleep ==
  /\ Goto("sleep", "check")
  /\ UNCHANGED <<core0Vars, sharedVars, task, flags, pixmap, panel>>

(* lcd_dev_exit(), then the done flag *)
TaskStop ==
  /\ Goto("stop", "done")
  /\ panel' = [panel EXCEPT !.on = FALSE, !.light = 0, !.shows = "none"]
  /\ UNCHANGED <<core0Vars, sharedVars, task, flags, pixmap>>

(* Mutant: the task parks without telling core 0. *)
MutDoneNotTold ==
  /\ Goto("done", "park")
  /\ UNCHANGED <<core0Vars, sharedVars, task, flags, pixmap, panel>>

TaskDone ==
  /\ Goto("done", "park")
  /\ lcd_task_done' = TRUE
  /\ UNCHANGED <<core0Vars, lcd_draw_func, lcd_backlight, lcd_rotated, task,
                 flags, pixmap, panel>>

Core1 ==
  \/ TaskInit \/ TaskCheckExit \/ TaskBacklight \/ TaskRotation
  \/ TaskGetFunc \/ TaskDraw \/ TaskDrawNull \/ TaskFrameFlag
  \/ TaskSend \/ TaskSleep \/ TaskStop \/ TaskDone

Next == Core0 \/ Core1

(* Core 1 is a processor of its own and never stops by itself; core 0 does *)
(* not leave the loop in lcd_exit().  Terminal, operator and guest program *)
(* owe nothing.                                                            *)
Fairness == WF_vars(Core1) /\ WF_vars(Core0Waits)

Spec == Init /\ [][Next]_vars /\ Fairness

(***************************************************************************)
(* Properties.                                                             *)
(***************************************************************************)

(* While the machine runs, the Dazzler has the screen exactly while it is  *)
(* switched on, and otherwise the current status panel has it: no order of *)
(* Dazzler switching and panel cycling (lcd_status_next, dazzler_ctl_out)  *)
(* lets one overwrite the other's draw function.                           *)
ScreenOwner ==
  phase \in {"run", "halt"} =>
    IF dazzler_state THEN lcd_draw_func = "dazzler" /\ ~lcd_shows_status
                     ELSE lcd_draw_func = lcd_status_func /\ lcd_shows_status

(* What is sent to the panel is always a whole picture of one draw         *)
(* function: lcd_task never lets a function draw its changes over the      *)
(* picture of another, however often core 0 changes its mind.              *)
WholePicture ==
  /\ pixmap # "mixed"
  /\ core1 \in {"flag", "send", "sleep"} => pixmap = task.draw_func

(* Core 1 is reset, and the machine rebooted, only after lcd_dev_exit()    *)
(* has put the controller to sleep and the light out.                      *)
PanelOffAtReset ==
  phase = "reset" \/ lcd_task_done => ~panel.on /\ panel.light = 0

(* lcd_exit() returns, so a key press restarts the machine, unless core 1  *)
(* has faulted.                                                            *)
ExitReturns == phase = "exit" ~> (phase = "reset" \/ core1 = "fault")

(* A draw function that core 0 leaves in place is eventually what the      *)
(* panel shows and goes on showing, whatever was requested before it: no   *)
(* request is lost between the two loads of lcd_task.                      *)
RequestShown ==
  \A f \in DrawFuncs :
    <>[](lcd_draw_func = f) => <>[](panel.shows = f)

(* Backlight and rotation that stay set reach the controller.              *)
SettingsReachPanel ==
  /\ \A b \in Backlights \cap (0..100) :
       <>[](lcd_backlight = b /\ lcd_draw_func # NULL) => <>[](panel.light = b)
  /\ \A r \in BOOLEAN :
       <>[](lcd_rotated = r /\ lcd_draw_func # NULL)
         => <>[](panel.rotated = r)

(* A Dazzler left on pulses its end-of-frame flag for ever: a program that *)
(* waits on port 14 for either level of the flag never hangs.              *)
FramesKeepComing ==
  <>[](lcd_draw_func = "dazzler") => []<>(flags = 0) /\ []<>(flags = 64)
=============================================================================
