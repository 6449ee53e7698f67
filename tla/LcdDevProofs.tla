---------------------------- MODULE LcdDevProofs ----------------------------
(***************************************************************************)
(* Proofs about LcdDev for every length of a pixmap and every depth of the *)
(* FIFO.                                                                   *)
(***************************************************************************)
EXTENDS LcdDev, TLAPS

Commands == {"rotation", "window", "select", "backlight", "off", "cleanup"}

TaskTypeOK ==
  /\ pc \in Steps
  /\ after \in {"rotation", "window", "backlight"}
  /\ asleep \in BOOLEAN
  /\ lcd_rotated \in BOOLEAN
  /\ rotate \in BOOLEAN
BusTypeOK ==
  /\ handler \in {"none", "test", "drain", "deselect"}
  /\ lcd_dma_active \in BOOLEAN
  /\ left \in 0 .. Len /\ fifo \in 0 .. Depth
  /\ irq \in BOOLEAN /\ irqOn \in BOOLEAN
  /\ cs \in {0, 1}
PanelTypeOK ==
  lcd \in [on : BOOLEAN, rotated : BOOLEAN, row : {52, 53}, received : 0 .. Len]

(* A transfer under way: what has been received, what is in the FIFO and   *)
(* what is left add up to the pixmap; the interrupt is pending exactly     *)
(* from the last byte fed until the handler acknowledges it.               *)
Flowing ==
  /\ cs = 0
  /\ lcd.received + fifo + left = Len
  /\ handler \in {"none", "test"} => (irq <=> left = 0)
  /\ handler = "test" => irq
  /\ handler = "drain" => ~irq /\ left = 0
  /\ handler = "deselect" => ~irq /\ left = 0 /\ fifo = 0

(* No transfer: the bus is quiet, and the controller deselected but for    *)
(* the moment before a transfer.                                           *)
Quiet ==
  /\ handler = "none"
  /\ SpiIdle /\ ~irq
  /\ IF pc = "activate" THEN cs = 0 ELSE cs = 1 /\ lcd.received = Len
  /\ pc = "activate" => lcd.received = 0

(* The flag tells which of the two it is; between the store of the flag    *)
(* and the start of the channel the bus is quiet but selected.             *)
BusInv ==
  IF lcd_dma_active
    THEN /\ pc \notin Commands \cup {"init", "activate", "parked"}
         /\ IF pc = "start"
              THEN /\ handler = "none" /\ SpiIdle /\ ~irq
                   /\ cs = 0 /\ lcd.received = 0
              ELSE Flowing
    ELSE Quiet /\ pc # "start"

RowsInv ==
  /\ lcd.rotated = lcd_rotated
  /\ pc \in {"select", "activate", "start"} => lcd.row = FirstRow(lcd.rotated)
  /\ cs = 0 => lcd.row = FirstRow(lcd.rotated)

IInv == TaskTypeOK /\ BusTypeOK /\ PanelTypeOK /\ BusInv /\ RowsInv

LEMMA InitOK == Init => IInv
<1> SUFFICES ASSUME Init PROVE IInv
  OBVIOUS
<1> USE SizesAssumption DEF Init
<1>1. TaskTypeOK
  BY DEF TaskTypeOK, Steps, Waits
<1>2. BusTypeOK
  <2>1. left \in 0 .. Len /\ fifo \in 0 .. Depth /\ cs \in {0, 1}
    OBVIOUS
  <2>2. lcd_dma_active \in BOOLEAN /\ irq \in BOOLEAN /\ irqOn \in BOOLEAN
    OBVIOUS
  <2> QED BY <2>1, <2>2 DEF BusTypeOK
<1>3. PanelTypeOK
  BY DEF PanelTypeOK
<1>4. BusInv
  BY DEF BusInv, Quiet, SpiIdle
<1>5. RowsInv
  BY DEF RowsInv, FirstRow
<1> QED BY <1>1, <1>2, <1>3, <1>4, <1>5 DEF IInv

(* Steps of lcd_task() that only move on: nothing on the bus changes, and  *)
(* the step before and after is neither a command nor part of a start.     *)
Plain == {"loop", "draw", "test", "wfi"}

LEMMA PlainStep ==
  ASSUME IInv, handler = "none", pc \in Plain, pc' \in Plain,
         UNCHANGED <<handler, lcd_rotated, lcd_dma_active, irqOn, spiVars>>
  PROVE  BusTypeOK' /\ PanelTypeOK' /\ BusInv' /\ RowsInv'
BY DEF IInv, BusTypeOK, PanelTypeOK, BusInv, RowsInv, Quiet, Flowing, SpiIdle,
       spiVars, Plain, Commands

(* Steps of lcd_task() taken while no transfer is under way.               *)
LEMMA QuietFacts ==
  ASSUME IInv, pc \in Commands \cup {"init", "activate"}
  PROVE  ~lcd_dma_active /\ Quiet
BY DEF IInv, BusInv

LEMMA TaskStep ==
  ASSUME IInv, LcdTask
  PROVE  IInv'
<1> USE DEF Task
<1>1. TaskTypeOK'
  BY DEF IInv, TaskTypeOK, LcdTask, lcd_dev_init, Loop, Draw, WaitTest,
     WaitForInterrupt, lcd_dev_rotation, SendWindow, SendSelect, SendActivate,
     SendStart, ExitBacklight, ExitOff, ExitCleanup, Steps, Waits, BusTypeOK
<1>2. ASSUME Loop \/ Draw \/ WaitForInterrupt
      PROVE  BusTypeOK' /\ PanelTypeOK' /\ BusInv' /\ RowsInv'
  BY <1>2, PlainStep DEF Loop, Draw, WaitForInterrupt, Plain
<1>3. ASSUME WaitTest
      PROVE  BusTypeOK' /\ PanelTypeOK' /\ BusInv' /\ RowsInv'
  <2>1. CASE lcd_dma_active
    BY <1>3, <2>1, PlainStep DEF WaitTest, Plain
  <2>2. CASE ~lcd_dma_active
    <3>1. pc' \in {"rotation", "window", "backlight"} /\ pc = "test"
      BY <1>3, <2>2 DEF WaitTest, IInv, TaskTypeOK
    <3>2. UNCHANGED <<handler, lcd_rotated, lcd_dma_active, irqOn, spiVars>>
      BY <1>3 DEF WaitTest
    <3> QED
      BY <2>2, <3>1, <3>2
      DEF IInv, BusTypeOK, PanelTypeOK, BusInv, RowsInv, Quiet, SpiIdle, spiVars
  <2> QED BY <2>1, <2>2
<1>4. ASSUME lcd_dev_init \/ lcd_dev_rotation \/ SendWindow \/ SendSelect
             \/ ExitOff
      PROVE  BusTypeOK' /\ PanelTypeOK' /\ BusInv' /\ RowsInv'
  <2>1. ~lcd_dma_active /\ Quiet
    BY <1>4, QuietFacts
    DEF lcd_dev_init, lcd_dev_rotation, SendWindow, SendSelect, ExitOff, Commands
  <2>2. ASSUME lcd_dev_init
        PROVE  PanelTypeOK' /\ BusInv' /\ RowsInv'
    <3>1. lcd' = [on |-> TRUE, rotated |-> FALSE, row |-> lcd.row,
                  received |-> lcd.received]
      BY <2>2 DEF lcd_dev_init, IInv, PanelTypeOK
    <3>2. PanelTypeOK'
      BY <3>1 DEF IInv, PanelTypeOK
    <3>3. BusInv'
      BY <2>1, <2>2, <3>1 DEF lcd_dev_init, BusInv, Quiet, SpiIdle
    <3>4. RowsInv'
      <4>1. cs' # 0 /\ pc' = "loop"
        BY <2>2 DEF lcd_dev_init
      <4>2. lcd'.rotated = lcd_rotated'
        BY <2>2, <3>1 DEF lcd_dev_init
      <4> QED BY <4>1, <4>2 DEF RowsInv
    <3> QED BY <3>2, <3>3, <3>4
  <2>3. ASSUME lcd_dev_rotation
        PROVE  PanelTypeOK' /\ BusInv' /\ RowsInv'
    <3>1. lcd' = [on |-> lcd.on, rotated |-> rotate, row |-> lcd.row,
                  received |-> lcd.received]
      BY <2>3 DEF lcd_dev_rotation, IInv, PanelTypeOK
    <3> QED
      BY <2>1, <2>3, <3>1
      DEF lcd_dev_rotation, IInv, PanelTypeOK, TaskTypeOK, BusInv, RowsInv,
          Quiet, SpiIdle
  <2>4. ASSUME SendWindow
        PROVE  PanelTypeOK' /\ BusInv' /\ RowsInv'
    <3>1. lcd' = [on |-> lcd.on, rotated |-> lcd.rotated,
                  row |-> FirstRow(lcd_rotated), received |-> lcd.received]
      BY <2>4 DEF SendWindow, IInv, PanelTypeOK
    <3> QED
      BY <2>1, <2>4, <3>1
      DEF SendWindow, IInv, PanelTypeOK, TaskTypeOK, BusInv, RowsInv, Quiet,
          SpiIdle, FirstRow
  <2>5. ASSUME SendSelect
        PROVE  PanelTypeOK' /\ BusInv' /\ RowsInv'
    <3>1. lcd' = [on |-> lcd.on, rotated |-> lcd.rotated, row |-> lcd.row,
                  received |-> 0]
      BY <2>5 DEF SendSelect, IInv, PanelTypeOK
    <3> QED
      BY <2>1, <2>5, <3>1, SizesAssumption
      DEF SendSelect, IInv, PanelTypeOK, BusInv, RowsInv, Quiet, SpiIdle
  <2>6. ASSUME ExitOff
        PROVE  PanelTypeOK' /\ BusInv' /\ RowsInv'
    <3>1. lcd' = [on |-> FALSE, rotated |-> lcd.rotated, row |-> lcd.row,
                  received |-> lcd.received]
      BY <2>6 DEF ExitOff, IInv, PanelTypeOK
    <3> QED
      BY <2>1, <2>6, <3>1
      DEF ExitOff, IInv, PanelTypeOK, BusInv, RowsInv, Quiet, SpiIdle
  <2>7. BusTypeOK'
    BY <1>4 DEF lcd_dev_init, lcd_dev_rotation, SendWindow, SendSelect, ExitOff,
       IInv, BusTypeOK
  <2> QED BY <1>4, <2>2, <2>3, <2>4, <2>5, <2>6, <2>7
<1>5. ASSUME SendActivate
      PROVE  BusTypeOK' /\ PanelTypeOK' /\ BusInv' /\ RowsInv'
  <2>1. ~lcd_dma_active /\ Quiet
    BY <1>5, QuietFacts DEF SendActivate
  <2> QED
    BY <1>5, <2>1
    DEF SendActivate, IInv, BusTypeOK, PanelTypeOK, BusInv, RowsInv, Quiet,
        SpiIdle, spiVars, Commands
<1>6. ASSUME SendStart
      PROVE  BusTypeOK' /\ PanelTypeOK' /\ BusInv' /\ RowsInv'
  <2>1. lcd_dma_active /\ SpiIdle /\ ~irq /\ cs = 0 /\ lcd.received = 0
    BY <1>6 DEF SendStart, IInv, BusInv
  <2> QED
    BY <1>6, <2>1, SizesAssumption
    DEF SendStart, IInv, BusTypeOK, PanelTypeOK, BusInv, RowsInv, Flowing,
        SpiIdle, Commands
<1>7. ASSUME ExitBacklight \/ ExitCleanup
      PROVE  BusTypeOK' /\ PanelTypeOK' /\ BusInv' /\ RowsInv'
  <2>1. ~lcd_dma_active /\ Quiet
    BY <1>7, QuietFacts DEF ExitBacklight, ExitCleanup, Commands
  <2>2. BusTypeOK'
    <3>1. left' \in 0 .. Len /\ fifo' \in 0 .. Depth /\ cs' \in {0, 1}
      BY <1>7, SizesAssumption
      DEF ExitBacklight, ExitCleanup, IInv, BusTypeOK, spiVars
    <3>2. /\ lcd_dma_active' \in BOOLEAN /\ handler' = handler
          /\ irq' \in BOOLEAN /\ irqOn' \in BOOLEAN
      BY <1>7 DEF ExitBacklight, ExitCleanup, IInv, BusTypeOK, spiVars
    <3> QED BY <3>1, <3>2 DEF IInv, BusTypeOK
  <2>3. BusInv'
    BY <1>7, <2>1
    DEF ExitBacklight, ExitCleanup, BusInv, Quiet, SpiIdle, spiVars
  <2>4. PanelTypeOK' /\ RowsInv'
    BY <1>7
    DEF ExitBacklight, ExitCleanup, IInv, PanelTypeOK, RowsInv, spiVars
  <2> QED BY <2>2, <2>3, <2>4
<1> QED
  BY <1>1, <1>2, <1>3, <1>4, <1>5, <1>6, <1>7 DEF LcdTask, IInv

LEMMA HandlerStep ==
  ASSUME IInv, Handler
  PROVE  IInv'
<1>1. /\ UNCHANGED <<pc, after, rotate, lcd_rotated, irqOn, left, fifo, lcd>>
      /\ asleep' \in {asleep, FALSE} /\ pc # "start"
  BY DEF Handler, Irq, HandlerTest, HandlerDrain, HandlerDeselect, taskVars,
     spiVars, IInv, BusInv, Quiet
<1>2. TaskTypeOK' /\ PanelTypeOK'
  BY <1>1 DEF IInv, TaskTypeOK, PanelTypeOK
<1>3. BusTypeOK'
  BY <1>1 DEF Handler, Irq, HandlerTest, HandlerDrain, HandlerDeselect,
     taskVars, spiVars, IInv, BusTypeOK
<1>4. lcd_dma_active /\ Flowing
  BY <1>1 DEF Handler, Irq, HandlerTest, HandlerDrain, HandlerDeselect, IInv,
     BusInv, Quiet
<1>5. BusInv' /\ RowsInv'
  <2>1. CASE Irq \/ HandlerTest \/ HandlerDrain
    <3>1. UNCHANGED <<lcd_dma_active, cs>>
      BY <2>1 DEF Irq, HandlerTest, HandlerDrain, spiVars
    <3>2. ASSUME Irq PROVE Flowing'
      BY <1>1, <1>4, <3>2 DEF Irq, Flowing, spiVars
    <3>3. ASSUME HandlerTest PROVE Flowing'
      BY <1>1, <1>4, <3>3 DEF HandlerTest, Flowing
    <3>4. ASSUME HandlerDrain PROVE Flowing'
      BY <1>1, <1>4, <3>4 DEF HandlerDrain, Flowing, spiVars
    <3> QED
      BY <1>1, <1>4, <2>1, <3>1, <3>2, <3>3, <3>4 DEF IInv, BusInv, RowsInv
  <2>2. CASE HandlerDeselect
    <3>1. left = 0 /\ fifo = 0 /\ ~irq /\ lcd.received + fifo + left = Len
      BY <1>4, <2>2 DEF HandlerDeselect, Flowing
    <3>2. lcd.received = Len
      BY <3>1, SizesAssumption DEF IInv, PanelTypeOK
    <3> QED
      BY <1>1, <1>4, <2>2, <3>1, <3>2
      DEF HandlerDeselect, IInv, BusInv, RowsInv, Quiet, SpiIdle
  <2> QED BY <2>1, <2>2 DEF Handler
<1> QED BY <1>2, <1>3, <1>5 DEF IInv

LEMMA HardwareStep ==
  ASSUME IInv, Hardware
  PROVE  IInv'
<1>1. lcd_dma_active /\ Flowing /\ pc # "start"
  BY SizesAssumption
  DEF Hardware, DmaFeeds, SpiShifts, IInv, BusInv, Quiet, SpiIdle
<1>2. UNCHANGED <<taskVars, handler, lcd_dma_active, irqOn, cs>>
  BY DEF Hardware, DmaFeeds, SpiShifts
<1>3. TaskTypeOK'
  BY <1>2 DEF IInv, TaskTypeOK, taskVars
<1>4. ASSUME DmaFeeds PROVE BusTypeOK' /\ PanelTypeOK' /\ BusInv' /\ RowsInv'
  <2>1. BusTypeOK'
    BY <1>2, <1>4, SizesAssumption DEF DmaFeeds, IInv, BusTypeOK
  <2>2. PanelTypeOK' /\ RowsInv'
    BY <1>2, <1>4 DEF DmaFeeds, IInv, PanelTypeOK, RowsInv, taskVars
  <2>3. lcd' = lcd /\ lcd.received \in Nat /\ left \in Nat /\ fifo \in Nat
    BY <1>4, SizesAssumption DEF DmaFeeds, IInv, PanelTypeOK, BusTypeOK
  <2>4. Flowing'
    <3>1. left > 0 /\ left # 0
      BY <1>4, <2>3 DEF DmaFeeds
    <3>2. handler = "none" /\ ~irq
      BY <1>1, <3>1 DEF Flowing, IInv, BusTypeOK
    <3>3. irq' <=> left' = 0
      BY <1>4, <3>2 DEF DmaFeeds
    <3>4. lcd'.received + fifo' + left' = Len
      BY <1>1, <1>4, <2>3 DEF DmaFeeds, Flowing
    <3> QED BY <1>1, <1>2, <3>2, <3>3, <3>4 DEF Flowing
  <2> QED BY <1>1, <1>2, <2>1, <2>2, <2>4 DEF IInv, BusInv, taskVars
<1>5. ASSUME SpiShifts PROVE BusTypeOK' /\ PanelTypeOK' /\ BusInv' /\ RowsInv'
  <2>1. cs = 0 /\ fifo > 0 /\ fifo' = fifo - 1
    BY <1>1, <1>5 DEF SpiShifts, Flowing
  <2>2. lcd' = [on |-> lcd.on, rotated |-> lcd.rotated, row |-> lcd.row,
                received |-> lcd.received + 1]
    BY <1>5, <2>1 DEF SpiShifts, IInv, PanelTypeOK
  <2>3. lcd.received + 1 \in 0 .. Len
    BY <1>1, <2>1, SizesAssumption DEF Flowing, IInv, BusTypeOK, PanelTypeOK
  <2> QED
    BY <1>1, <1>2, <1>5, <2>1, <2>2, <2>3, SizesAssumption
    DEF SpiShifts, IInv, BusTypeOK, PanelTypeOK, BusInv, RowsInv, Flowing,
        taskVars
<1> QED BY <1>3, <1>4, <1>5 DEF Hardware, IInv

THEOREM Invariance == Spec => []IInv
<1>1. IInv /\ [Next]_vars => IInv'
  <2>1. IInv /\ Next => IInv'
    BY TaskStep, HandlerStep, HardwareStep DEF Next
  <2>2. IInv /\ UNCHANGED vars => IInv'
    BY DEF IInv, vars, taskVars, spiVars, TaskTypeOK, BusTypeOK, PanelTypeOK,
       BusInv, RowsInv, Quiet, Flowing, SpiIdle
  <2> QED BY <2>1, <2>2
<1> QED BY <1>1, InitOK, PTL DEF Spec

(* Type correctness. *)
THEOREM TypeCorrect == Spec => []TypeOK
<1>1. IInv => TypeOK
  BY DEF IInv, TaskTypeOK, BusTypeOK, PanelTypeOK, TypeOK
<1> QED BY <1>1, Invariance, PTL

(* lcd_dma_wait() keeps commands off a bus that is busy with pixels.       *)
THEOREM CommandsHaveTheBus == Spec => []BusExclusive
<1>1. IInv => BusExclusive
  BY DEF IInv, BusInv, Quiet, BusExclusive, Commands
<1> QED BY <1>1, Invariance, PTL

(* No frame is cut off by a chip select that goes up before the SPI is     *)
(* empty (lcd_dev_dma_int_handler() waits for it).                         *)
THEOREM FramesAreComplete == Spec => []FrameComplete
<1>1. IInv => FrameComplete
  BY DEF IInv, BusInv, Quiet, Flowing, BusTypeOK, FrameComplete
<1> QED BY <1>1, Invariance, PTL

(* The rows lcd_dev_send_pixmap() addresses are those of the orientation   *)
(* the controller was told.                                                *)
THEOREM RowsFit == Spec => []RowsFitOrientation
<1>1. IInv => RowsFitOrientation
  BY DEF IInv, RowsInv, RowsFitOrientation
<1> QED BY <1>1, Invariance, PTL

(* The handler never runs without lcd_dma_active, which would leave the    *)
(* interrupt unacknowledged and enter the handler again for ever.          *)
THEOREM InterruptsEnd == Spec => []NoInterruptStorm
<1>1. IInv => NoInterruptStorm
  BY DEF IInv, BusInv, Quiet, Flowing, BusTypeOK, NoInterruptStorm
<1> QED BY <1>1, Invariance, PTL
=============================================================================
