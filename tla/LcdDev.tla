------------------------------- MODULE LcdDev -------------------------------
(***************************************************************************)
(* The driver of the LCD controller, srcsim/lcd_dev.c, as lcd_task() of    *)
(* srcsim/lcd.c uses it on core 1.  Commands go to the controller byte by  *)
(* byte and blocking; the pixmap is sent by a DMA channel that feeds the   *)
(* FIFO of the SPI while lcd_task() goes on.  The interrupt of the channel *)
(* is taken on core 1 and may preempt lcd_task() between any two of its    *)
(* steps; the handler waits for the FIFO to drain, deselects the           *)
(* controller and clears lcd_dma_active.                                   *)
(***************************************************************************)
EXTENDS Naturals

CONSTANTS
  Len,      \* bytes of a pixmap, stride * height
  Depth     \* entries of the SPI FIFO

ASSUME SizesAssumption == Len \in Nat \ {0} /\ Depth \in Nat \ {0}

VARIABLES
  pc,             \* the step of lcd_task() that is next
  after,          \* where lcd_dma_wait() returns to
  asleep,         \* core 1 is in __wfi()
  handler,        \* the step of lcd_dma_irq_handler() that is next
  lcd_dma_active,
  lcd_rotated,
  rotate,         \* the argument of lcd_dev_rotation()
  left,           \* bytes the DMA channel has still to feed
  fifo,           \* bytes in the SPI FIFO
  irq,            \* the interrupt of the channel is pending
  irqOn,          \* and enabled on core 1
  cs,             \* chip select, active low
  lcd             \* the controller: orientation, first row, bytes received
                  \* since the Memory Write command, or asleep

taskVars == <<pc, after, asleep, rotate, lcd_rotated>>
spiVars == <<left, fifo, irq, cs, lcd>>
vars == <<taskVars, handler, lcd_dma_active, irqOn, spiVars>>

Waits == {"test", "wfi"}
Steps == Waits \cup {"init", "loop", "rotation", "draw", "window", "select",
                     "activate", "start", "backlight", "off", "cleanup",
                     "parked"}

FirstRow(rotated) == IF rotated THEN 52 ELSE 53

TypeOK ==
  /\ pc \in Steps
  /\ after \in {"rotation", "window", "backlight"}
  /\ asleep \in BOOLEAN
  /\ handler \in {"none", "test", "drain", "deselect"}
  /\ lcd_dma_active \in BOOLEAN /\ lcd_rotated \in BOOLEAN
  /\ rotate \in BOOLEAN
  /\ left \in 0 .. Len /\ fifo \in 0 .. Depth
  /\ irq \in BOOLEAN /\ irqOn \in BOOLEAN
  /\ cs \in {0, 1}
  /\ lcd \in [on : BOOLEAN, rotated : BOOLEAN, row : {52, 53},
              received : 0 .. Len]

Init ==
  /\ pc = "init"
  /\ after = "window"
  /\ asleep = FALSE
  /\ handler = "none"
  /\ lcd_dma_active = FALSE
  /\ lcd_rotated = FALSE
  /\ rotate = FALSE
  /\ left = 0 /\ fifo = 0
  /\ irq = FALSE /\ irqOn = FALSE
  /\ cs = 1
  /\ lcd = [on |-> FALSE, rotated |-> FALSE, row |-> 53, received |-> Len]

(***************************************************************************)
(* lcd_task() and the driver functions it calls.                           *)
(***************************************************************************)
Task(from, to) ==
  /\ handler = "none" /\ ~asleep
  /\ pc = from /\ pc' = to
  /\ UNCHANGED handler

SpiIdle == left = 0 /\ fifo = 0

lcd_dev_init ==
  /\ Task("init", "loop")
  /\ irqOn' = TRUE
  /\ cs' = 1
  /\ lcd_dma_active' = FALSE
  /\ lcd_rotated' = FALSE
  /\ lcd' = [lcd EXCEPT !.on = TRUE, !.rotated = FALSE]
  /\ UNCHANGED <<after, asleep, rotate, left, fifo, irq>>

(* the refresh loop rotates the panel, draws a frame or leaves *)
Loop ==
  /\ \/ Task("loop", "test") /\ after' = "rotation" /\ rotate' = ~lcd_rotated
     \/ Task("loop", "draw") /\ UNCHANGED <<after, rotate>>
     \/ Task("loop", "test") /\ after' = "backlight" /\ UNCHANGED rotate
  /\ UNCHANGED <<asleep, lcd_rotated, lcd_dma_active, irqOn, spiVars>>

Draw ==
  /\ Task("draw", "test")
  /\ after' = "window"
  /\ UNCHANGED <<asleep, rotate, lcd_rotated, lcd_dma_active, irqOn, spiVars>>

(* Mutant: the transfer is not waited for. *)
MutWaitTest ==
  /\ Task("test", after)
  /\ UNCHANGED <<after, asleep, rotate, lcd_rotated, lcd_dma_active, irqOn,
                 spiVars>>

(* lcd_dma_wait(): the test of the loop ... *)
WaitTest ==
  /\ Task("test", IF lcd_dma_active THEN "wfi" ELSE after)
  /\ UNCHANGED <<after, asleep, rotate, lcd_rotated, lcd_dma_active, irqOn,
                 spiVars>>

(* ... and __wfi(), which sleeps unless an interrupt is pending *)
WaitForInterrupt ==
  /\ Task("wfi", "test")
  /\ asleep' = ~irq
  /\ UNCHANGED <<after, rotate, lcd_rotated, lcd_dma_active, irqOn, spiVars>>

(* Mutant: the driver remembers the wrong orientation. *)
MutRotation ==
  /\ Task("rotation", "draw")
  /\ lcd' = [lcd EXCEPT !.rotated = rotate]
  /\ UNCHANGED <<after, asleep, rotate, lcd_rotated, lcd_dma_active, irqOn,
                 left, fifo, irq, cs>>

lcd_dev_rotation ==
  /\ Task("rotation", "draw")
  /\ lcd' = [lcd EXCEPT !.rotated = rotate]
  /\ lcd_rotated' = rotate
  /\ UNCHANGED <<after, asleep, rotate, lcd_dma_active, irqOn, left, fifo,
                 irq, cs>>

(* lcd_dev_send_pixmap(): pixel format, columns and rows *)
SendWindow ==
  /\ Task("window", "select")
  /\ lcd' = [lcd EXCEPT !.row = FirstRow(lcd_rotated)]
  /\ UNCHANGED <<after, asleep, rotate, lcd_rotated, lcd_dma_active, irqOn,
                 left, fifo, irq, cs>>

(* Memory Write, and chip select for the data *)
SendSelect ==
  /\ Task("select", "activate")
  /\ lcd' = [lcd EXCEPT !.received = 0]
  /\ cs' = 0
  /\ UNCHANGED <<after, asleep, rotate, lcd_rotated, lcd_dma_active, irqOn,
                 left, fifo, irq>>

SendActivate ==
  /\ Task("activate", "start")
  /\ lcd_dma_active' = TRUE
  /\ UNCHANGED <<after, asleep, rotate, lcd_rotated, irqOn, spiVars>>

SendStart ==
  /\ Task("start", "loop")
  /\ left' = Len
  /\ UNCHANGED <<after, asleep, rotate, lcd_rotated, lcd_dma_active, irqOn,
                 fifo, irq, cs, lcd>>

(* lcd_dev_exit() *)
ExitBacklight ==
  /\ Task("backlight", "off")
  /\ UNCHANGED <<after, asleep, rotate, lcd_rotated, lcd_dma_active, irqOn,
                 spiVars>>

ExitOff ==
  /\ Task("off", "cleanup")
  /\ lcd' = [lcd EXCEPT !.on = FALSE]
  /\ UNCHANGED <<after, asleep, rotate, lcd_rotated, lcd_dma_active, irqOn,
                 left, fifo, irq, cs>>

ExitCleanup ==
  /\ Task("cleanup", "parked")
  /\ irqOn' = FALSE
  /\ irq' = FALSE /\ left' = 0 /\ fifo' = 0
  /\ UNCHANGED <<after, asleep, rotate, lcd_rotated, lcd_dma_active, cs, lcd>>

LcdTask ==
  \/ lcd_dev_init \/ Loop \/ Draw \/ WaitTest \/ WaitForInterrupt
  \/ lcd_dev_rotation \/ SendWindow \/ SendSelect \/ SendActivate \/ SendStart
  \/ ExitBacklight \/ ExitOff \/ ExitCleanup

(***************************************************************************)
(* lcd_dma_irq_handler().  A pending interrupt ends __wfi().               *)
(***************************************************************************)
Irq ==
  /\ irq /\ irqOn /\ handler = "none"
  /\ handler' = "test"
  /\ asleep' = FALSE
  /\ UNCHANGED <<pc, after, rotate, lcd_rotated, lcd_dma_active, irqOn,
                 spiVars>>

(* Mutant: a pending interrupt is not acknowledged. *)
MutHandlerTest ==
  /\ handler = "test"
  /\ handler' = IF lcd_dma_active THEN "drain" ELSE "none"
  /\ UNCHANGED <<taskVars, lcd_dma_active, irqOn, spiVars>>

HandlerTest ==
  /\ handler = "test"
  /\ IF lcd_dma_active
       THEN handler' = "drain" /\ irq' = FALSE
       ELSE handler' = "none" /\ UNCHANGED irq
  /\ UNCHANGED <<taskVars, lcd_dma_active, irqOn, left, fifo, cs, lcd>>

(* Mutant: a completed DMA transfer is taken for an empty FIFO. *)
MutHandlerDrain ==
  /\ handler = "drain"
  /\ handler' = "deselect"
  /\ UNCHANGED <<taskVars, lcd_dma_active, irqOn, spiVars>>

HandlerDrain ==
  /\ handler = "drain"
  /\ fifo = 0
  /\ handler' = "deselect"
  /\ UNCHANGED <<taskVars, lcd_dma_active, irqOn, spiVars>>

(* Mutant: the flag stays set. *)
MutHandlerDeselect ==
  /\ handler = "deselect"
  /\ handler' = "none"
  /\ cs' = 1
  /\ UNCHANGED <<taskVars, lcd_dma_active, irqOn, left, fifo, irq, lcd>>

HandlerDeselect ==
  /\ handler = "deselect"
  /\ handler' = "none"
  /\ cs' = 1
  /\ lcd_dma_active' = FALSE
  /\ UNCHANGED <<taskVars, irqOn, left, fifo, irq, lcd>>

Handler == Irq \/ HandlerTest \/ HandlerDrain \/ HandlerDeselect

(***************************************************************************)
(* The DMA channel and the SPI, which run by themselves.                   *)
(***************************************************************************)
DmaFeeds ==
  /\ left > 0 /\ fifo < Depth
  /\ left' = left - 1 /\ fifo' = fifo + 1
  /\ irq' = (irq \/ left' = 0)
  /\ UNCHANGED <<taskVars, handler, lcd_dma_active, irqOn, cs, lcd>>

(* a byte that is shifted out reaches the controller if it is selected *)
SpiShifts ==
  /\ fifo > 0
  /\ fifo' = fifo - 1
  /\ lcd' = IF cs = 0 THEN [lcd EXCEPT !.received = @ + 1] ELSE lcd
  /\ UNCHANGED <<taskVars, handler, lcd_dma_active, irqOn, left, irq, cs>>

Hardware == DmaFeeds \/ SpiShifts

Next == LcdTask \/ Handler \/ Hardware

(* Core 1, its interrupt and the hardware never stop by themselves. *)
Fairness == WF_vars(LcdTask) /\ WF_vars(Handler) /\ WF_vars(Hardware)

Spec == Init /\ [][Next]_vars /\ Fairness

(***************************************************************************)
(* Properties.                                                             *)
(***************************************************************************)

(* Commands and data bytes are sent only over a quiet bus: the DMA channel *)
(* is idle, the FIFO drained and the controller deselected, so no command  *)
(* byte is mixed into the pixels.  lcd_dma_wait() must see to this before  *)
(* every command, whenever the interrupt comes.                            *)
BusExclusive ==
  pc \in {"rotation", "window", "select", "backlight", "off", "cleanup"} =>
    SpiIdle /\ ~irq /\ cs = 1 /\ handler = "none"

(* The controller is deselected only when it has received every byte of    *)
(* the pixmap, although the channel is done before the FIFO is empty.      *)
FrameComplete == cs = 1 => lcd.received = Len

(* No pixel is sent under a window computed for the other orientation.     *)
RowsFitOrientation == cs = 0 => lcd.row = FirstRow(lcd.rotated)

(* The interrupt is only ever raised for a transfer the handler knows of:  *)
(* otherwise it would return without acknowledging it and be entered again *)
(* for ever.                                                               *)
NoInterruptStorm == irq => lcd_dma_active

(* Every transfer ends, and is noticed. *)
TransferEnds == lcd_dma_active ~> ~lcd_dma_active

(* "Wait for DMA transfer to finish" (lcd_dev.c:260) ends when the         *)
(* transfer has finished: core 1 does not sleep on after it.  The code     *)
(* tests the flag and executes __wfi() with interrupts enabled, and breaks *)
(* this when the interrupt comes in between.                               *)
WaitEndsWithTransfer == asleep => lcd_dma_active
=============================================================================
