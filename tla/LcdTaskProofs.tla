--------------------------- MODULE LcdTaskProofs ---------------------------
(***************************************************************************)
(* Proofs about LcdTask for every set of backlight levels.  The run of     *)
(* LcdTask.cfg checks the same properties on a small instance.             *)
(***************************************************************************)
EXTENDS LcdTask, TLAPS

(* What the type proof needs to know of the draw functions. *)
LEMMA DrawFuncFacts ==
  /\ StatusPanels \subseteq DrawFuncs
  /\ {"empty", "wait_term", "banner", "dazzler"} \subseteq DrawFuncs
  /\ "cpu_reg" \in StatusPanels
  /\ \A p \in StatusPanels : NextPanel[p] \in StatusPanels
  BY DEF StatusPanels, DrawFuncs, NextPanel

(***************************************************************************)
(* Types, one lemma for each group of variables: the actions that do not   *)
(* touch a group need no case of their own in its lemma.                   *)
(***************************************************************************)
LEMMA Core0TypeStep == TypeOK /\ [Next]_vars => Core0TypeOK'
<1> SUFFICES ASSUME TypeOK, [Next]_vars PROVE Core0TypeOK'
  OBVIOUS
<1> USE BacklightsAssumption, DrawFuncFacts DEF TypeOK
<1>1. CASE WaitTerminal
  BY <1>1
  DEF WaitTerminal, lcd_custom_disp, Core0TypeOK, Phases
<1>2. CASE TerminalConnected
  BY <1>2
  DEF TerminalConnected, lcd_custom_disp, Core0TypeOK, Phases
<1>3. ASSUME NEW b \in Backlights, NEW r \in BOOLEAN, NEW p \in StatusPanels,
              ReadConfig(b, r, p)
       PROVE  Core0TypeOK'
  BY <1>3
  DEF ReadConfig, Core0TypeOK, Phases
<1>4. CASE MenuLcd
  BY <1>4
  DEF MenuLcd, Core0TypeOK, Phases
<1>5. CASE MenuGo
  BY <1>5
  DEF MenuGo, lcd_status_disp, Core0TypeOK, Phases
<1>6. ASSUME NEW on \in BOOLEAN, dazzler_ctl_out(on)
       PROVE  Core0TypeOK'
  BY <1>6
  DEF dazzler_ctl_out, lcd_custom_disp, lcd_status_disp, Core0TypeOK, Phases
<1>7. CASE HwctlNextPanel
  BY <1>7
  DEF HwctlNextPanel, lcd_status_next, Core0TypeOK, Phases
<1>8. CASE CpuStops
  BY <1>8
  DEF CpuStops, Core0TypeOK, Phases
<1>9. CASE lcd_exit
  BY <1>9
  DEF lcd_exit, lcd_custom_disp, Core0TypeOK, Phases
<1>10. CASE ExitDone
  BY <1>10
  DEF ExitDone, Core0TypeOK, Phases
<1>11. CASE watchdog_reboot
  BY <1>11
  DEF watchdog_reboot, Start, Core0TypeOK, Phases
<1>12. CASE UNCHANGED core0Vars
  BY <1>12 DEF core0Vars, Core0TypeOK
<1> QED
  BY <1>1, <1>2, <1>3, <1>4, <1>5, <1>6, <1>7, <1>8, <1>9, <1>10, <1>11,
     <1>12
  DEF Next, Core0, Core0Waits, Core1, vars, MenuBrightness, MenuRotate,
      TaskInit, TaskCheckExit, TaskBacklight, TaskRotation, TaskGetFunc,
      TaskDraw, TaskDrawNull, TaskFrameFlag, TaskSend, TaskSleep, TaskStop,
      TaskDone

LEMMA SharedTypeStep == TypeOK /\ [Next]_vars => SharedTypeOK'
<1> SUFFICES ASSUME TypeOK, [Next]_vars PROVE SharedTypeOK'
  OBVIOUS
<1> USE BacklightsAssumption, DrawFuncFacts DEF TypeOK
<1>1. CASE WaitTerminal
  BY <1>1
  DEF WaitTerminal, lcd_custom_disp, Core0TypeOK, SharedTypeOK, Core1TypeOK
<1>2. CASE TerminalConnected
  BY <1>2
  DEF TerminalConnected, lcd_custom_disp, Core0TypeOK, SharedTypeOK,
      Core1TypeOK
<1>3. ASSUME NEW b \in Backlights, NEW r \in BOOLEAN, NEW p \in StatusPanels,
              ReadConfig(b, r, p)
       PROVE  SharedTypeOK'
  BY <1>3
  DEF ReadConfig, Core0TypeOK, SharedTypeOK, Core1TypeOK
<1>4. ASSUME NEW b \in Backlights, MenuBrightness(b)
       PROVE  SharedTypeOK'
  BY <1>4
  DEF MenuBrightness, Core0TypeOK, SharedTypeOK, Core1TypeOK
<1>5. CASE MenuRotate
  BY <1>5
  DEF MenuRotate, Core0TypeOK, SharedTypeOK, Core1TypeOK
<1>6. CASE MenuGo
  BY <1>6
  DEF MenuGo, lcd_status_disp, Core0TypeOK, SharedTypeOK, Core1TypeOK
<1>7. ASSUME NEW on \in BOOLEAN, dazzler_ctl_out(on)
       PROVE  SharedTypeOK'
  BY <1>7
  DEF dazzler_ctl_out, lcd_custom_disp, lcd_status_disp, Core0TypeOK,
      SharedTypeOK, Core1TypeOK
<1>8. CASE HwctlNextPanel
  BY <1>8
  DEF HwctlNextPanel, lcd_status_next, Core0TypeOK, SharedTypeOK,
      Core1TypeOK
<1>9. CASE lcd_exit
  BY <1>9
  DEF lcd_exit, lcd_custom_disp, Core0TypeOK, SharedTypeOK, Core1TypeOK
<1>10. CASE watchdog_reboot
  BY <1>10
  DEF watchdog_reboot, Start, Core0TypeOK, SharedTypeOK, Core1TypeOK
<1>11. CASE TaskDone
  BY <1>11
  DEF TaskDone, Goto, Core0TypeOK, SharedTypeOK, Core1TypeOK
<1>12. CASE UNCHANGED sharedVars
  BY <1>12 DEF sharedVars, SharedTypeOK
<1> QED
  BY <1>1, <1>2, <1>3, <1>4, <1>5, <1>6, <1>7, <1>8, <1>9, <1>10, <1>11,
     <1>12
  DEF Next, Core0, Core0Waits, Core1, vars, MenuLcd, CpuStops, ExitDone,
      TaskInit, TaskCheckExit, TaskBacklight, TaskRotation, TaskGetFunc,
      TaskDraw, TaskDrawNull, TaskFrameFlag, TaskSend, TaskSleep, TaskStop

LEMMA Core1TypeStep == TypeOK /\ [Next]_vars => Core1TypeOK'
<1> SUFFICES ASSUME TypeOK, [Next]_vars PROVE Core1TypeOK'
  OBVIOUS
<1> USE BacklightsAssumption, DrawFuncFacts DEF TypeOK
<1>1. CASE ExitDone
  BY <1>1
  DEF ExitDone, SharedTypeOK, Core1TypeOK, Core1Steps
<1>2. CASE watchdog_reboot
  BY <1>2
  DEF watchdog_reboot, Start, SharedTypeOK, Core1TypeOK, Core1Steps
<1>3. CASE TaskInit
  <2> DEFINE light == lcd_dev_backlight(lcd_backlight, 1)
  <2>1. light \in 0..100
    BY DEF lcd_dev_backlight, SharedTypeOK
  <2>2. panel' = [panel EXCEPT !.on = TRUE, !.rotated = FALSE,
                               !.light = light]
    BY <1>3 DEF TaskInit
  <2> HIDE DEF light
  <2>3. panel' \in [on: BOOLEAN, light: 0..100, rotated: BOOLEAN,
                  shows: DrawFuncs \cup {"none", "mixed"}]
    BY <2>1, <2>2 DEF Core1TypeOK
  <2> QED
    BY <1>3, <2>3
    DEF TaskInit, Goto, SharedTypeOK, Core1TypeOK, Core1Steps
<1>4. CASE TaskCheckExit
  BY <1>4
  DEF TaskCheckExit, SharedTypeOK, Core1TypeOK, Core1Steps
<1>5. CASE TaskBacklight
  BY <1>5
  DEF TaskBacklight, Goto, lcd_dev_backlight, SharedTypeOK, Core1TypeOK,
      Core1Steps
<1>6. CASE TaskRotation
  BY <1>6
  DEF TaskRotation, Goto, SharedTypeOK, Core1TypeOK, Core1Steps
<1>7. CASE TaskGetFunc
  BY <1>7
  DEF TaskGetFunc, Goto, SharedTypeOK, Core1TypeOK, Core1Steps
<1>8. CASE TaskDraw
  BY <1>8
  DEF TaskDraw, SharedTypeOK, Core1TypeOK, Core1Steps
<1>9. CASE TaskDrawNull
  BY <1>9
  DEF TaskDrawNull, Goto, SharedTypeOK, Core1TypeOK, Core1Steps
<1>10. CASE TaskFrameFlag
  BY <1>10
  DEF TaskFrameFlag, Goto, SharedTypeOK, Core1TypeOK, Core1Steps
<1>11. CASE TaskSend
  BY <1>11
  DEF TaskSend, Goto, SharedTypeOK, Core1TypeOK, Core1Steps
<1>12. CASE TaskSleep
  BY <1>12
  DEF TaskSleep, Goto, SharedTypeOK, Core1TypeOK, Core1Steps
<1>13. CASE TaskStop
  <2>1. /\ panel' = [on |-> FALSE, light |-> 0, rotated |-> panel.rotated,
                    shows |-> "none"]
        /\ panel.rotated \in BOOLEAN
    BY <1>13 DEF TaskStop, Core1TypeOK
  <2>2. panel' \in [on: BOOLEAN, light: 0..100, rotated: BOOLEAN,
                  shows: DrawFuncs \cup {"none", "mixed"}]
    BY <2>1 DEF Core1TypeOK
  <2>3. UNCHANGED <<task, flags, pixmap>> /\ core1' = "done"
    BY <1>13 DEF TaskStop, Goto
  <2> QED
    BY <2>2, <2>3 DEF Core1TypeOK, Core1Steps
<1>14. CASE TaskDone
  BY <1>14
  DEF TaskDone, Goto, SharedTypeOK, Core1TypeOK, Core1Steps
<1>15. CASE UNCHANGED core1Vars
  BY <1>15 DEF core1Vars, Core1TypeOK
<1> QED
  BY <1>1, <1>2, <1>3, <1>4, <1>5, <1>6, <1>7, <1>8, <1>9, <1>10, <1>11,
     <1>12, <1>13, <1>14, <1>15
  DEF Next, Core0, Core0Waits, Core1, vars, WaitTerminal, TerminalConnected,
      ReadConfig, MenuBrightness, MenuRotate, MenuLcd, MenuGo,
      dazzler_ctl_out, HwctlNextPanel, CpuStops, lcd_exit

(***************************************************************************)
(* Type correctness: whatever the interleaving, every variable of the LCD  *)
(* protocol keeps its type.                                                *)
(***************************************************************************)
THEOREM TypeCorrect == Spec => []TypeOK
<1>1. Init => TypeOK
  <2> USE BacklightsAssumption, DrawFuncFacts DEF Init, Start
  <2>1. Init => Core0TypeOK
    BY DEF Core0TypeOK, Phases
  <2>2. Init => SharedTypeOK
    BY DEF SharedTypeOK
  <2>3. Init => Core1TypeOK
    BY DEF Core1TypeOK, Core1Steps
  <2> QED
    BY <2>1, <2>2, <2>3 DEF TypeOK
<1>2. TypeOK /\ [Next]_vars => TypeOK'
  BY Core0TypeStep, SharedTypeStep, Core1TypeStep DEF TypeOK
<1> QED
  BY <1>1, <1>2, PTL DEF Spec

(***************************************************************************)
(* The owner of the screen.  ScreenOwner speaks of the running machine     *)
(* only; it is inductive together with the fact that the Dazzler is off    *)
(* until the machine runs, for MenuGo displays a status panel.             *)
(***************************************************************************)
DazzlerOffBeforeRun ==
  phase \in {"start", "connect", "banner", "config"} => ~dazzler_state

ScreenInv == ScreenOwner /\ DazzlerOffBeforeRun

LEMMA ScreenStep == Core0TypeOK /\ ScreenInv /\ [Next]_vars => ScreenInv'
<1> SUFFICES ASSUME Core0TypeOK, ScreenInv, [Next]_vars PROVE ScreenInv'
  OBVIOUS
<1> USE DEF ScreenInv, ScreenOwner, DazzlerOffBeforeRun, Core0TypeOK
<1>1. CASE WaitTerminal \/ TerminalConnected
  BY <1>1 DEF WaitTerminal, TerminalConnected
<1>2. ASSUME NEW b \in Backlights, NEW r \in BOOLEAN, NEW p \in StatusPanels,
             ReadConfig(b, r, p)
      PROVE  ScreenInv'
  BY <1>2 DEF ReadConfig
<1>3. CASE MenuGo
  <2>1. phase' = "run" /\ dazzler_state' = dazzler_state
    BY <1>3 DEF MenuGo
  <2>2. lcd_draw_func' = lcd_status_func' /\ lcd_shows_status'
    BY <1>3 DEF MenuGo, lcd_status_disp
  <2> QED
    BY <1>3, <2>1, <2>2 DEF MenuGo
<1>4. ASSUME NEW on \in BOOLEAN, dazzler_ctl_out(on)
      PROVE  ScreenInv'
  <2>1. phase' = "run" /\ dazzler_state' = on
    BY <1>4 DEF dazzler_ctl_out
  <2>2. CASE on
    BY <1>4, <2>1, <2>2 DEF dazzler_ctl_out, lcd_custom_disp
  <2>3. CASE ~on
    BY <1>4, <2>1, <2>3 DEF dazzler_ctl_out, lcd_status_disp
  <2> QED
    BY <2>2, <2>3
<1>5. CASE HwctlNextPanel
  BY <1>5 DEF HwctlNextPanel, lcd_status_next
<1>6. CASE CpuStops
  BY <1>6 DEF CpuStops, sharedVars
<1>7. CASE lcd_exit \/ ExitDone \/ watchdog_reboot
  BY <1>7 DEF lcd_exit, ExitDone, watchdog_reboot, Start
<1>8. CASE UNCHANGED <<phase, lcd_draw_func, lcd_status_func,
                       lcd_shows_status, dazzler_state>>
  BY <1>8
<1>9. CASE Core1
  <2> UNCHANGED <<core0Vars, lcd_draw_func>>
    BY <1>9
    DEF Core1, TaskInit, TaskCheckExit, TaskBacklight, TaskRotation,
        TaskGetFunc, TaskDraw, TaskDrawNull, TaskFrameFlag, TaskSend,
        TaskSleep, TaskStop, TaskDone, sharedVars
  <2> QED
    BY <1>8 DEF core0Vars
<1> QED
  BY <1>1, <1>2, <1>3, <1>4, <1>5, <1>6, <1>7, <1>8, <1>9
  DEF Next, Core0, Core0Waits, MenuBrightness, MenuRotate, MenuLcd,
      vars, core0Vars, sharedVars

(***************************************************************************)
(* The Dazzler has the screen exactly while it is switched on, and the     *)
(* current status panel has it otherwise.                                  *)
(***************************************************************************)
THEOREM ScreenHasOneOwner == Spec => []ScreenOwner
<1>1. Init => ScreenInv
  BY DEF Init, Start, ScreenInv, ScreenOwner, DazzlerOffBeforeRun
<1>2. TypeOK /\ ScreenInv /\ [Next]_vars => ScreenInv'
  BY ScreenStep DEF TypeOK
<1>3. ScreenInv => ScreenOwner
  BY DEF ScreenInv
<1> QED
  BY <1>1, <1>2, <1>3, TypeCorrect, PTL DEF Spec

(***************************************************************************)
(* The picture in the pixmap.  WholePicture is about the steps after a     *)
(* draw; the inductive form follows the flag "first" through the loop: as  *)
(* long as it is down, the pixmap is the work of task.draw_func.           *)
(***************************************************************************)
RepaintOnChange ==
  /\ pixmap # "mixed"
  /\ ~task.first => pixmap = task.draw_func
  /\ core1 \in {"flag", "send", "sleep"} => ~task.first

LEMMA RepaintStep ==
  Core1TypeOK /\ RepaintOnChange /\ [Next]_vars => RepaintOnChange'
<1> SUFFICES ASSUME Core1TypeOK, RepaintOnChange, [Next]_vars
             PROVE  RepaintOnChange'
  OBVIOUS
<1> USE DEF RepaintOnChange, Core1TypeOK
<1>1. CASE watchdog_reboot
  BY <1>1 DEF watchdog_reboot, Start
<1>2. CASE ExitDone
  BY <1>2 DEF ExitDone
<1>3. CASE TaskGetFunc
  BY <1>3 DEF TaskGetFunc, Goto
<1>4. CASE TaskDraw
  <2>1. task.draw_func # "mixed"
    BY <1>4 DEF TaskDraw, DrawFuncs, StatusPanels, NULL
  <2>2. pixmap' = task.draw_func
    BY <1>4 DEF TaskDraw
  <2>3. task'.draw_func = task.draw_func /\ ~task'.first
    BY <1>4 DEF TaskDraw
  <2> QED
    BY <2>1, <2>2, <2>3
<1>5. CASE TaskInit \/ TaskBacklight \/ TaskRotation
  <2>1. /\ task'.first = task.first /\ task'.draw_func = task.draw_func
        /\ pixmap' = pixmap /\ core1' \notin {"flag", "send", "sleep"}
    BY <1>5 DEF TaskInit, TaskBacklight, TaskRotation, Goto
  <2> QED
    BY <2>1
<1>6. CASE TaskFrameFlag \/ TaskSend
  BY <1>6 DEF TaskFrameFlag, TaskSend, Goto
<1>7. CASE TaskCheckExit \/ TaskDrawNull \/ TaskSleep \/ TaskStop \/ TaskDone
  BY <1>7 DEF TaskCheckExit, TaskDrawNull, TaskSleep, TaskStop, TaskDone, Goto
<1>8. CASE UNCHANGED core1Vars
  BY <1>8 DEF core1Vars
<1> QED
  BY <1>1, <1>2, <1>3, <1>4, <1>5, <1>6, <1>7, <1>8
  DEF Next, Core0, Core0Waits, Core1, vars, WaitTerminal, TerminalConnected,
      ReadConfig, MenuBrightness, MenuRotate, MenuLcd, MenuGo,
      dazzler_ctl_out, HwctlNextPanel, CpuStops, lcd_exit

(***************************************************************************)
(* Every frame sent to the panel is the whole picture of one function.     *)
(***************************************************************************)
THEOREM FramesAreWhole == Spec => []WholePicture
<1>1. Init => RepaintOnChange
  BY DEF Init, Start, RepaintOnChange
<1>2. TypeOK /\ RepaintOnChange /\ [Next]_vars => RepaintOnChange'
  BY RepaintStep DEF TypeOK
<1>3. RepaintOnChange => WholePicture
  BY DEF RepaintOnChange, WholePicture
<1> QED
  BY <1>1, <1>2, <1>3, TypeCorrect, PTL DEF Spec

(***************************************************************************)
(* The order of the shutdown on the two cores: lcd_dev_exit(), the done    *)
(* flag, the reset of core 1.                                              *)
(***************************************************************************)
ShutdownOrder ==
  /\ phase = "reset" => lcd_task_done
  /\ lcd_task_done => core1 \in {"park", "off"}
  /\ core1 \in {"done", "park", "off"} => ~panel.on /\ panel.light = 0

LEMMA ShutdownStep ==
  Core1TypeOK /\ ShutdownOrder /\ [Next]_vars => ShutdownOrder'
<1> SUFFICES ASSUME Core1TypeOK, ShutdownOrder, [Next]_vars
             PROVE  ShutdownOrder'
  OBVIOUS
<1> USE DEF ShutdownOrder, Core1TypeOK
<1>1. CASE ExitDone
  BY <1>1 DEF ExitDone, sharedVars
<1>2. CASE watchdog_reboot
  BY <1>2 DEF watchdog_reboot, Start
<1>3. CASE TaskStop
  <2>1. ~panel'.on /\ panel'.light = 0 /\ core1' = "done"
    BY <1>3 DEF TaskStop, Goto
  <2>2. ~lcd_task_done' /\ phase' # "reset"
    BY <1>3 DEF TaskStop, Goto, sharedVars, core0Vars
  <2> QED
    BY <2>1, <2>2
<1>4. CASE TaskDone
  BY <1>4 DEF TaskDone, Goto
<1>5. CASE TaskInit \/ TaskBacklight \/ TaskRotation \/ TaskSend
  <2>1. ~lcd_task_done' /\ phase' # "reset"
    BY <1>5
    DEF TaskInit, TaskBacklight, TaskRotation, TaskSend, Goto, sharedVars,
        core0Vars
  <2>2. core1' \notin {"done", "park", "off"}
    BY <1>5 DEF TaskInit, TaskBacklight, TaskRotation, TaskSend, Goto
  <2> QED
    BY <2>1, <2>2
<1>6. CASE TaskCheckExit \/ TaskGetFunc \/ TaskDraw \/ TaskDrawNull
             \/ TaskFrameFlag \/ TaskSleep
  <2>1. ~lcd_task_done' /\ phase' # "reset"
    BY <1>6
    DEF TaskCheckExit, TaskGetFunc, TaskDraw, TaskDrawNull, TaskFrameFlag,
        TaskSleep, Goto, sharedVars, core0Vars
  <2>2. core1' \notin {"done", "park", "off"}
    BY <1>6
    DEF TaskCheckExit, TaskGetFunc, TaskDraw, TaskDrawNull, TaskFrameFlag,
        TaskSleep, Goto
  <2> QED
    BY <2>1, <2>2
<1>7. CASE /\ UNCHANGED <<lcd_task_done, core1Vars>>
           /\ phase' = "reset" => phase = "reset"
  BY <1>7 DEF core1Vars
<1> QED
  BY <1>1, <1>2, <1>3, <1>4, <1>5, <1>6, <1>7
  DEF Next, Core0, Core0Waits, Core1, vars, sharedVars, core0Vars,
      WaitTerminal, TerminalConnected, ReadConfig, MenuBrightness,
      MenuRotate, MenuLcd, MenuGo, dazzler_ctl_out, HwctlNextPanel, CpuStops,
      lcd_exit

(***************************************************************************)
(* Core 1 is reset only after the controller sleeps and the light is out.  *)
(***************************************************************************)
THEOREM PanelIsOffAtReset == Spec => []PanelOffAtReset
<1>1. Init => ShutdownOrder
  BY DEF Init, Start, ShutdownOrder
<1>2. TypeOK /\ ShutdownOrder /\ [Next]_vars => ShutdownOrder'
  BY ShutdownStep DEF TypeOK
<1>3. ShutdownOrder => PanelOffAtReset
  BY DEF ShutdownOrder, PanelOffAtReset
<1> QED
  BY <1>1, <1>2, <1>3, TypeCorrect, PTL DEF Spec
=============================================================================
