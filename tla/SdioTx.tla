------------------------------- MODULE SdioTx -------------------------------
(***************************************************************************)
(* Sending blocks to the SD card over SDIO, the data transmission part of  *)
(* sd_driver/SDIO/rp2040_sdio.c: rp2040_sdio_tx_start(), tx_poll(), stop() *)
(* and sdio_irq_handler(), with the two DMA channels and the state machine *)
(* of the PIO they drive.                                                  *)
(*                                                                         *)
(* Every write is made by the main program: FatFS writes single blocks,    *)
(* the USB host several, in stdio_msc_usb_do_msc() of the dialog.  The     *)
(* interrupt of the second DMA channel preempts it between any two steps,  *)
(* also where it computes the second checksum and where it gives up.       *)
(*                                                                         *)
(* A block is its number, a checksum the number of the block it was        *)
(* computed from.  Time is left out, a timeout may come at any poll.  The  *)
(* card is external: it accepts a block whose checksum is right, refuses   *)
(* any block, or never answers.  A checksum whose two words are only half  *)
(* stored is as wrong as the old one and counts as that.                   *)
(***************************************************************************)
EXTENDS Integers, Sequences

CONSTANT MaxBlocks      \* bound: blocks in a request

ASSUME MaxBlocksAssumption == MaxBlocks \in Nat \ {0}

VARIABLES
  pc,                   \* where the main program is
  result,               \* what the last rp2040_sdio_tx_poll() returned
  transfer_state, total_blocks, blocks_done, blocks_checksumed,
  next_wr_block_checksum,
  blockidx,             \* local of sdio_compute_next_tx_checksum()
  wr_status, card_response,
  irq_enabled, ints,    \* interrupt of the second channel: enabled, raised
  CH,                   \* first DMA channel moves the block
  CHB,                  \* second: "idle", "token" or waits for a "response"
  wire,                 \* the block on the wire
  fifo,                 \* receive FIFO of the PIO
  stored,               \* blocks the card took in this request
  overtaken             \* history: in this request the handler started a
                        \* block while its checksum was being computed

transfer == <<transfer_state, total_blocks, blocks_done, blocks_checksumed,
              next_wr_block_checksum, wr_status, card_response>>
dma == <<irq_enabled, ints, CH, CHB>>
vars == <<pc, result, transfer, blockidx, dma, wire, fifo, stored, overtaken>>

Statuses == {"SDIO_OK", "SDIO_ERR_WRITE_CRC", "SDIO_ERR_WRITE_FAIL"}
Nothing == "nothing"
None == -1

(* What is on the wire: the block being sent, then the complete block that *)
(* the card has to answer, then nothing that matters.                      *)
Wires == [phase : {"quiet", "sending", "complete"}, block : Nat \cup {None},
          crc : Int]

(* from the test for a second block until its checksum is stored *)
Computing == {"test", "load", "count", "store"}

(* the steps of rp2040_sdio_stop() after a timeout *)
Stopping == {"abort", "abort second", "disable", "halt"}

ControlTypeOK ==
  /\ pc \in {"idle"} \cup Computing \cup {"poll"} \cup Stopping
  /\ result \in Statuses \cup {"SDIO_BUSY", "SDIO_ERR_DATA_TIMEOUT"}
  /\ transfer_state \in {"SDIO_IDLE", "SDIO_TX", "SDIO_TX_WAIT_IDLE"}
  /\ wr_status \in Statuses /\ card_response \in Statuses
  /\ irq_enabled \in BOOLEAN /\ ints \in BOOLEAN /\ CH \in BOOLEAN
  /\ CHB \in {"idle", "token", "response"}
  /\ fifo \in Statuses \cup {Nothing}
  /\ overtaken \in BOOLEAN

BlocksTypeOK ==
  /\ total_blocks \in 0 .. MaxBlocks
  /\ blocks_done \in 0 .. MaxBlocks
  /\ blocks_checksumed \in 0 .. MaxBlocks + 1
  /\ next_wr_block_checksum \in Int /\ blockidx \in Int
  /\ wire \in Wires
  /\ stored \in Seq(Nat)

TypeOK == ControlTypeOK /\ BlocksTypeOK

Init ==
  /\ pc = "idle" /\ result = "SDIO_OK"
  /\ transfer_state = "SDIO_IDLE"
  /\ total_blocks = 0 /\ blocks_done = 0 /\ blocks_checksumed = 0
  /\ next_wr_block_checksum = None /\ blockidx = None
  /\ wr_status = "SDIO_OK" /\ card_response = "SDIO_OK"
  /\ irq_enabled = FALSE /\ ints = FALSE /\ CH = FALSE /\ CHB = "idle"
  /\ wire = [phase |-> "quiet", block |-> None, crc |-> None]
  /\ fifo = Nothing
  /\ stored = <<>> /\ overtaken = FALSE

(* The main program does not run while an enabled interrupt is raised. *)
Interrupted == irq_enabled /\ ints

(***************************************************************************)
(* Sending.                                                                *)
(***************************************************************************)
(* Mutant: the interrupt is acknowledged but not enabled. *)
Mutsdio_start_next_block_tx(block, crc) ==
  /\ irq_enabled' = irq_enabled /\ ints' = FALSE
  /\ CH' = TRUE /\ CHB' = "idle"
  /\ wire' = [phase |-> "sending", block |-> block, crc |-> crc]
  /\ fifo' = Nothing

(* pio_sm_init() empties the FIFO. *)
sdio_start_next_block_tx(block, crc) ==
  /\ irq_enabled' = TRUE /\ ints' = FALSE
  /\ CH' = TRUE /\ CHB' = "idle"
  /\ wire' = [phase |-> "sending", block |-> block, crc |-> crc]
  /\ fifo' = Nothing

(* A channel still armed by an earlier request feeds what it has left into *)
(* the FIFO as soon as it is emptied: what is sent then is no block, the   *)
(* card refuses it or does not answer.                                     *)
FirstBlock == IF CH \/ CHB # "idle" THEN None ELSE 0

rp2040_sdio_tx_start(n) ==
  /\ pc = "idle" /\ ~Interrupted
  /\ pc' = "test"
  /\ result' = "SDIO_BUSY"
  /\ transfer_state' = "SDIO_TX"
  /\ total_blocks' = n /\ blocks_done' = 0
  /\ blocks_checksumed' = 1
  /\ next_wr_block_checksum' = 0
  /\ sdio_start_next_block_tx(FirstBlock, 0)
  /\ stored' = <<>> /\ overtaken' = FALSE
  /\ UNCHANGED <<blockidx, wr_status, card_response>>

(* The second checksum, while the first block is on its way.  The count is *)
(* not volatile: the compiler may load it once more for the test, once     *)
(* more for the increment, or use the value it stored or loaded before.    *)
TestSecond ==
  /\ pc = "test" /\ ~Interrupted
  /\ \E seen \in {1, blocks_checksumed} :
       /\ blockidx' = seen
       /\ pc' = IF seen < total_blocks THEN "load" ELSE "poll"
  /\ UNCHANGED <<result, transfer, dma, wire, fifo, stored, overtaken>>

LoadCount ==
  /\ pc = "load" /\ ~Interrupted
  /\ pc' = "count"
  /\ blockidx' \in {blockidx, blocks_checksumed}
  /\ UNCHANGED <<result, transfer, dma, wire, fifo, stored, overtaken>>

CountSecond ==
  /\ pc = "count" /\ ~Interrupted
  /\ pc' = "store"
  /\ blocks_checksumed' = blockidx + 1
  /\ UNCHANGED <<result, transfer_state, total_blocks, blocks_done,
                 next_wr_block_checksum, wr_status, card_response, blockidx,
                 dma, wire, fifo, stored, overtaken>>

StoreChecksum ==
  /\ pc = "store" /\ ~Interrupted
  /\ pc' = "poll"
  /\ next_wr_block_checksum' = blockidx
  /\ UNCHANGED <<result, transfer_state, total_blocks, blocks_done,
                 blocks_checksumed, wr_status, card_response, blockidx, dma,
                 wire, fifo, stored, overtaken>>

(***************************************************************************)
(* sdio_irq_handler(), called by the DMA interrupt.                        *)
(***************************************************************************)
(* Mutant: only the first channel is aborted. *)
MutAbortSecond == CHB' = CHB

AbortSecond == CHB' = "idle"

DisableInterrupt == irq_enabled' = FALSE /\ ints' = FALSE

(* without its data the block on the wire is never complete *)
Halt ==
  /\ wire' = [wire EXCEPT !.phase = IF @ = "sending" THEN "quiet" ELSE @]
  /\ transfer_state' = "SDIO_IDLE"

(* rp2040_sdio_stop() where no interrupt comes in between *)
Stop == CH' = FALSE /\ AbortSecond /\ DisableInterrupt /\ Halt

(* Mutant: the checksum of the block after the next one is not computed. *)
MutChecksumAhead == UNCHANGED <<blocks_checksumed, next_wr_block_checksum>>

(* the checksum of the block after the one that was just started *)
ChecksumAhead ==
  IF blocks_checksumed < total_blocks
    THEN /\ next_wr_block_checksum' = blocks_checksumed
         /\ blocks_checksumed' = blocks_checksumed + 1
    ELSE UNCHANGED <<blocks_checksumed, next_wr_block_checksum>>

NextBlock ==
  /\ sdio_start_next_block_tx(blocks_done + 1, next_wr_block_checksum)
  /\ transfer_state' = "SDIO_TX"
  /\ ChecksumAhead
  /\ overtaken' = (overtaken \/ pc \in Computing)

LastBlock ==
  /\ Stop
  /\ UNCHANGED <<fifo, blocks_checksumed, next_wr_block_checksum, overtaken>>

(* Mutant: a block the card refused counts as done. *)
MutBlockAnswered(response) ==
  /\ wr_status' = response
  /\ blocks_done' = blocks_done + 1
  /\ IF blocks_done + 1 < total_blocks
       THEN NextBlock
       ELSE LastBlock

BlockAnswered(response) ==
  /\ wr_status' = response
  /\ IF response # "SDIO_OK"
       THEN /\ Stop
            /\ UNCHANGED <<fifo, blocks_done, blocks_checksumed,
                           next_wr_block_checksum, overtaken>>
       ELSE /\ blocks_done' = blocks_done + 1
            /\ IF blocks_done + 1 < total_blocks
                 THEN NextBlock
                 ELSE LastBlock

DataSent == transfer_state = "SDIO_TX" /\ ~CH /\ CHB = "idle"

WaitForResponse ==
  /\ DataSent /\ fifo = Nothing
  /\ transfer_state' = "SDIO_TX_WAIT_IDLE"
  /\ CHB' = "response"
  /\ ints' = FALSE
  /\ UNCHANGED <<blocks_done, blocks_checksumed, next_wr_block_checksum,
                 wr_status, card_response, irq_enabled, CH, wire, fifo,
                 overtaken>>

(* the card was ready before the handler ran *)
ResponseInFifo ==
  /\ DataSent /\ fifo # Nothing
  /\ card_response' = fifo
  /\ BlockAnswered(fifo)

ResponseByDma ==
  /\ transfer_state = "SDIO_TX_WAIT_IDLE" /\ CHB = "idle"
  /\ BlockAnswered(card_response)
  /\ UNCHANGED card_response

(* Without an interrupt of these transfers there is no call, so none finds *)
(* nothing to do.                                                          *)
sdio_irq_handler ==
  /\ WaitForResponse \/ ResponseInFifo \/ ResponseByDma
  /\ UNCHANGED total_blocks

(* dma_irq_handler(): the interrupt is cleared before the handler runs *)
DmaInterrupt ==
  /\ Interrupted
  /\ sdio_irq_handler
  /\ UNCHANGED <<pc, result, blockidx, stored>>

(***************************************************************************)
(* rp2040_sdio_tx_poll().                                                  *)
(***************************************************************************)
Return(status) ==
  /\ pc' = "idle"
  /\ result' = status
  /\ UNCHANGED <<total_blocks, blocks_done, blocks_checksumed,
                 next_wr_block_checksum, blockidx, wr_status, card_response,
                 fifo, stored, overtaken>>

PollIdle ==
  /\ pc = "poll" /\ ~Interrupted
  /\ transfer_state = "SDIO_IDLE"
  /\ Stop
  /\ Return(wr_status)

(* more than 5 s since the start *)
PollTimeout ==
  /\ pc = "poll" /\ ~Interrupted
  /\ transfer_state # "SDIO_IDLE"
  /\ pc' = "abort"
  /\ UNCHANGED <<result, transfer, blockidx, dma, wire, fifo, stored, overtaken>>

(* rp2040_sdio_stop() of the main program: until the interrupt is disabled *)
(* the handler may come in between, and start the next block.              *)
TimeoutAbort ==
  /\ pc = "abort" /\ ~Interrupted
  /\ pc' = "abort second"
  /\ CH' = FALSE
  /\ UNCHANGED <<result, transfer, blockidx, CHB, irq_enabled, ints, wire, fifo,
                 stored, overtaken>>

TimeoutAbortSecond ==
  /\ pc = "abort second" /\ ~Interrupted
  /\ pc' = "disable"
  /\ AbortSecond
  /\ UNCHANGED <<result, transfer, blockidx, CH, irq_enabled, ints, wire, fifo,
                 stored, overtaken>>

TimeoutDisable ==
  /\ pc = "disable" /\ ~Interrupted
  /\ pc' = "halt"
  /\ DisableInterrupt
  /\ UNCHANGED <<result, transfer, blockidx, CH, CHB, wire, fifo, stored,
                 overtaken>>

ReturnTimeout ==
  /\ pc = "halt"
  /\ Halt
  /\ Return("SDIO_ERR_DATA_TIMEOUT")
  /\ UNCHANGED dma

(***************************************************************************)
(* DMA, PIO and card.                                                      *)
(***************************************************************************)
softwareVars == <<pc, result, transfer_state, total_blocks, blocks_done,
                  blocks_checksumed, next_wr_block_checksum, blockidx,
                  wr_status, irq_enabled, overtaken>>

(* the first channel is done and starts the second one *)
BlockMoved ==
  /\ CH
  /\ CH' = FALSE /\ CHB' = "token"
  /\ UNCHANGED <<softwareVars, ints, wire, fifo, stored, card_response>>

TokenMoved ==
  /\ CHB = "token"
  /\ CHB' = "idle" /\ ints' = irq_enabled
  /\ wire' = [wire EXCEPT !.phase = IF @ = "sending" THEN "complete" ELSE @]
  /\ UNCHANGED <<softwareVars, CH, fifo, stored, card_response>>

CardAccepts ==
  /\ wire.phase = "complete" /\ wire.crc = wire.block
  /\ stored' = Append(stored, wire.block)
  /\ fifo' = "SDIO_OK"
  /\ wire' = [wire EXCEPT !.phase = "quiet"]
  /\ UNCHANGED <<softwareVars, CH, CHB, ints, card_response>>

(* a wrong checksum, of the code or of a disturbed wire *)
CardRefuses(status) ==
  /\ wire.phase = "complete" /\ status # "SDIO_OK"
  /\ fifo' = status
  /\ wire' = [wire EXCEPT !.phase = "quiet"]
  /\ UNCHANGED <<softwareVars, CH, CHB, ints, stored, card_response>>

ResponseMoved ==
  /\ CHB = "response" /\ fifo # Nothing
  /\ CHB' = "idle" /\ ints' = irq_enabled
  /\ card_response' = fifo
  /\ fifo' = Nothing
  /\ UNCHANGED <<softwareVars, CH, wire, stored>>

SecondChecksum == TestSecond \/ LoadCount \/ CountSecond \/ StoreChecksum

GiveUp == TimeoutAbort \/ TimeoutAbortSecond \/ TimeoutDisable \/ ReturnTimeout

CardAnswers == CardAccepts \/ \E status \in Statuses : CardRefuses(status)

Hardware == BlockMoved \/ TokenMoved \/ CardAnswers \/ ResponseMoved

Next ==
  \/ \E n \in 1 .. MaxBlocks : rp2040_sdio_tx_start(n)
  \/ SecondChecksum
  \/ PollIdle \/ PollTimeout \/ GiveUp
  \/ DmaInterrupt
  \/ Hardware

(* what is sent although a channel was still armed *)
Garbled == wire.block = None

(* The program and the hardware run on and the card answers a complete     *)
(* block; the timeout is not counted on.                                   *)
Fairness ==
  /\ WF_vars(DmaInterrupt)
  /\ WF_vars(SecondChecksum)
  /\ WF_vars(PollIdle)
  /\ WF_vars(GiveUp)
  /\ WF_vars(BlockMoved)
  /\ WF_vars(TokenMoved)
  /\ WF_vars(CardAnswers /\ ~Garbled)
  /\ WF_vars(ResponseMoved)

Spec == Init /\ [][Next]_vars
FairSpec == Spec /\ Fairness

(***************************************************************************)
(* Properties.                                                             *)
(***************************************************************************)
(* The card gets the blocks in their order and none twice, since it        *)
(* numbers them itself, and a request is reported written only when it     *)
(* took all of them: tx_poll() returns the status of one block only.       *)
WrittenWhenOk ==
  /\ \A i \in 1 .. Len(stored) : stored[i] = i - 1
  /\ result = "SDIO_OK" => Len(stored) = total_blocks

(* The checksum sent with a block is its own, although it is computed      *)
(* while the block before is sent, by the main program or by the handler,  *)
(* and none is computed of a block after the last one, as the assertion of *)
(* sdio_compute_next_tx_checksum() says - unless the first block was done  *)
(* before the second checksum was.  That is never reported as a success.   *)
OwnChecksum ==
  /\ ~overtaken =>
       /\ wire.phase # "quiet" /\ ~Garbled => wire.crc = wire.block
       /\ blocks_checksumed <= total_blocks
  /\ overtaken => result # "SDIO_OK"

(* When tx_poll() has returned no interrupt can come, and no channel still *)
(* reads the caller's buffer, also when the transfer was completed while   *)
(* tx_poll() gave it up.  One case is excepted: after a timeout in a       *)
(* request of several blocks the handler may have started the next one     *)
(* between the aborts of rp2040_sdio_stop().                               *)
QuietAfterReturn ==
  pc = "idle" =>
    /\ ~irq_enabled /\ transfer_state = "SDIO_IDLE"
    /\ CH \/ CHB # "idle" =>
         result = "SDIO_ERR_DATA_TIMEOUT" /\ total_blocks > 1

(* With a card that answers, every request ends without the 5 s timeout of *)
(* tx_poll(): no interrupt is missed, whatever the handler comes between.  *)
(* Excepted is a request that finds a channel armed.                       *)
RequestsEnd == pc # "idle" ~> pc = "idle" \/ Garbled
=============================================================================
