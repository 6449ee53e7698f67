------------------------------- MODULE SimIo -------------------------------
(***************************************************************************)
(* The ports of srcsim/simio.c that drive the machine and not a device:    *)
(* the 60 Hz timer (port 67) with its alarm, and the locked hardware       *)
(* control port (port 160); with the terminal's break (srcsim/picosim.c)   *)
(* and the end of main().                                                  *)
(*                                                                         *)
(* The guest runs on core 0.  The alarm and the break callback are         *)
(* interrupts on core 0: they come between two of its steps, also between  *)
(* the two statements that start the timer.  The alarm pool of the SDK is  *)
(* external: it has room for PoolSize alarms of this timer.                *)
(*                                                                         *)
(* Names that Memory, the other part of simio.c, has as well begin with    *)
(* Io here.                                                                *)
(***************************************************************************)
EXTENDS Naturals

CONSTANTS
  PoolSize,   \* alarms the default pool has room for
  Bytes       \* what the guest outputs to the control port

ASSUME PoolAssumption == PoolSize \in Nat \ {0}
ASSUME BytesAssumption == Bytes \subseteq 0 .. 255

VARIABLES
  core,        \* "run": between two instructions, "add": inside timer_out()
  cpu_state,
  timer,       \* 60 Hz timer enabled flag
  alarms,      \* alarms scheduled with timer_alarm()
  int_int,     \* interrupt request to the CPU
  hwctl_lock,
  prev,        \* history: the last byte that went to the control port
  key,         \* history: the byte before it was the magic number
  effect,      \* history: what the last output to the port did
  banked,      \* selbnk: a bank other than 0 is selected
  dazzler      \* the Dazzler is on

timerVars == <<timer, alarms, int_int>>
portVars == <<hwctl_lock, prev, key, effect, banked, dazzler>>
ioVars == <<core, cpu_state, timerVars, portVars>>

Effects == {"none", "halt", "reset", "z80", "8080", "lcd"}

IoTypeOK ==
  /\ core \in {"run", "add", "exited"}
  /\ cpu_state \in {"running", "stopped"}
  /\ timer \in BOOLEAN
  /\ alarms \in 0 .. PoolSize
  /\ int_int \in BOOLEAN
  /\ hwctl_lock \in {0, 255}
  /\ prev \in Bytes \cup {0}
  /\ key \in BOOLEAN
  /\ effect \in Effects
  /\ banked \in BOOLEAN /\ dazzler \in BOOLEAN

IoInit ==
  /\ core = "run" /\ cpu_state = "running"
  /\ timer = FALSE /\ alarms = 0 /\ int_int = FALSE
  /\ hwctl_lock = 255 /\ prev = 0 /\ key = FALSE /\ effect = "none"
  /\ banked = FALSE /\ dazzler = FALSE

(* an instruction of the guest *)
Instruction == core = "run" /\ cpu_state = "running"

(***************************************************************************)
(* The timer.                                                              *)
(***************************************************************************)
(* timer_out(1) *)
TimerOn ==
  /\ Instruction
  /\ ~timer
  /\ timer' = TRUE
  /\ core' = "add"
  /\ effect' = "none"
  /\ UNCHANGED <<cpu_state, alarms, int_int, hwctl_lock, prev, key, banked, dazzler>>

(* add_alarm_in_us(): its result is not tested; the pool may be full *)
AddAlarm ==
  /\ core = "add"
  /\ core' = "run"
  /\ alarms' = IF alarms < PoolSize THEN alarms + 1 ELSE alarms
  /\ UNCHANGED <<cpu_state, timer, int_int, portVars>>

TimerOff ==
  /\ Instruction
  /\ timer' = FALSE
  /\ effect' = "none"
  /\ UNCHANGED <<core, cpu_state, alarms, int_int, hwctl_lock, prev, key, banked, dazzler>>

(* Mutant: the alarm is not scheduled again. *)
MutTimerAlarm ==
  /\ alarms > 0
  /\ int_int' = (int_int \/ timer)
  /\ alarms' = alarms - 1
  /\ UNCHANGED <<core, cpu_state, timer, portVars>>

(* timer_alarm(): an alarm goes off, and is scheduled again while the      *)
(* timer is enabled                                                        *)
TimerAlarm ==
  /\ alarms > 0
  /\ IF timer
       THEN int_int' = TRUE /\ UNCHANGED alarms
       ELSE alarms' = alarms - 1 /\ UNCHANGED int_int
  /\ UNCHANGED <<core, cpu_state, timer, portVars>>

(* the CPU takes the interrupt *)
Acknowledge ==
  /\ Instruction
  /\ int_int
  /\ int_int' = FALSE
  /\ effect' = "none"
  /\ UNCHANGED <<core, cpu_state, timer, alarms, hwctl_lock, prev, key, banked, dazzler>>

(***************************************************************************)
(* The hardware control port.                                              *)
(***************************************************************************)
Bit(data, value) == (data \div value) % 2 = 1

(* what a byte asks for: the first of its bits that means something *)
Command(data) ==
  IF Bit(data, 128) THEN "halt"
  ELSE IF Bit(data, 64) THEN "reset"
  ELSE IF Bit(data, 32) THEN "z80"
  ELSE IF Bit(data, 16) THEN "8080"
  ELSE IF Bit(data, 8) THEN "lcd"
  ELSE "none"

(* Mutant: the port stays unlocked. *)
MutRelock(data) == 0

(* the lock after a byte that an unlocked port processed *)
Relock(data) == 255

(* a byte for the locked port *)
HwctlLocked(data) ==
  /\ Instruction
  /\ hwctl_lock # 0
  /\ hwctl_lock' = IF data = 170 THEN 0 ELSE hwctl_lock
  /\ prev' = data /\ key' = (prev = 170) /\ effect' = "none"
  /\ UNCHANGED <<core, cpu_state, timerVars, banked, dazzler>>

(* Mutant: the Dazzler is left alone. *)
MutHwctlOut(data) ==
  /\ Instruction
  /\ hwctl_lock = 0
  /\ hwctl_lock' = Relock(data)
  /\ prev' = data /\ key' = (prev = 170) /\ effect' = Command(data)
  /\ cpu_state' = IF Command(data) = "halt" THEN "stopped" ELSE cpu_state
  /\ banked' = (banked /\ Command(data) # "reset")
  /\ UNCHANGED <<core, timerVars, dazzler>>

(* hwctl_out() on the unlocked port.  The reset is reset_cpu() (external), *)
(* reset_memory(), the jump to the ROM and dazzler_ctl_out(0); it does not *)
(* touch the timer.                                                        *)
HwctlOut(data) ==
  /\ Instruction
  /\ hwctl_lock = 0
  /\ hwctl_lock' = Relock(data)
  /\ prev' = data /\ key' = (prev = 170) /\ effect' = Command(data)
  /\ cpu_state' = IF Command(data) = "halt" THEN "stopped" ELSE cpu_state
  /\ banked' = (banked /\ Command(data) # "reset")
  /\ dazzler' = (dazzler /\ Command(data) # "reset")
  /\ UNCHANGED <<core, timerVars>>

(* the guest selects a bank, or switches the Dazzler *)
OtherPorts ==
  /\ Instruction
  /\ banked' \in BOOLEAN /\ dazzler' \in BOOLEAN
  /\ effect' = "none"
  /\ UNCHANGED <<core, cpu_state, timerVars, hwctl_lock, prev, key>>

(***************************************************************************)
(* The end.                                                                *)
(***************************************************************************)
(* tud_cdc_send_break_cb(): the terminal sends a break *)
Break ==
  /\ core # "exited"
  /\ cpu_state' = "stopped"
  /\ UNCHANGED <<core, timerVars, portVars>>

(* Mutant: exit_io() does nothing. *)
MutExitIo ==
  /\ core = "run" /\ cpu_state = "stopped"
  /\ core' = "exited"
  /\ UNCHANGED <<cpu_state, timerVars, portVars>>

(* run_cpu() returns, exit_io() *)
ExitIo ==
  /\ core = "run" /\ cpu_state = "stopped"
  /\ core' = "exited"
  /\ timer' = FALSE
  /\ UNCHANGED <<cpu_state, alarms, int_int, portVars>>

(* main() waits for a key and resets the chip *)
Ended == core = "exited" /\ alarms = 0 /\ UNCHANGED ioVars

IoNext ==
  \/ TimerOn
  \/ AddAlarm
  \/ TimerOff
  \/ TimerAlarm
  \/ Acknowledge
  \/ \E data \in Bytes : HwctlLocked(data)
  \/ \E data \in Bytes : HwctlOut(data)
  \/ OtherPorts
  \/ Break
  \/ ExitIo
  \/ Ended

(* Alarms go off when they are due, a started instruction comes to its     *)
(* end, and a stopped CPU leaves run_cpu().  The guest owes nothing.       *)
Fairness == WF_ioVars(TimerAlarm) /\ WF_ioVars(AddAlarm) /\ WF_ioVars(ExitIo)

IoSpec == IoInit /\ [][IoNext]_ioVars /\ Fairness

(***************************************************************************)
(* Properties.                                                             *)
(***************************************************************************)
(* Whatever goes to the control port, nothing happens but in answer to the *)
(* byte that comes right after the magic number, which is used up by it.   *)
KeyForEachCommand == effect # "none" => key

(* A reset over the port leaves the machine as power on does (bank 0,      *)
(* Dazzler off, port locked), the timer excepted.                          *)
ResetLikePowerOn == effect = "reset" => ~banked /\ ~dazzler /\ hwctl_lock = 255

(* While the timer stays enabled the CPU is interrupted again and again,   *)
(* also when it was stopped and started before the alarm had gone off, or  *)
(* when an alarm came while it was being started.                          *)
Ticks == <>[]timer => []<>int_int

(* When the CPU stops, by the port or by a break, also in the middle of    *)
(* starting the timer, the alarms come to an end.                          *)
AlarmsEnd == cpu_state = "stopped" ~> alarms = 0

=============================================================================
