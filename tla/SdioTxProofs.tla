---------------------------- MODULE SdioTxProofs ----------------------------
(***************************************************************************)
(* Proofs about SdioTx for requests of any number of blocks.               *)
(***************************************************************************)
EXTENDS SdioTx, TLAPS

Busy == transfer_state # "SDIO_IDLE"

ResponseDone == transfer_state = "SDIO_TX_WAIT_IDLE" /\ CHB = "idle"

(* Channels and interrupt: quiet when there is no transfer, and every      *)
(* interrupt finds something to do.  In a request of one block nothing     *)
(* starts a channel again that stop() has aborted.                         *)
ChannelsOK ==
  /\ ints => irq_enabled /\ (DataSent \/ ResponseDone)
  /\ ~Busy \/ pc = "halt" => ~irq_enabled
  /\ pc = "idle" => ~Busy
  /\ pc # "idle" /\ ~Busy => ~CH /\ CHB = "idle"
  /\ pc = "idle" /\ (CH \/ CHB # "idle") =>
       result = "SDIO_ERR_DATA_TIMEOUT" /\ total_blocks > 1
  /\ CH => CHB = "idle"
  /\ Busy /\ (CH \/ CHB = "token") => transfer_state = "SDIO_TX"
  /\ Busy /\ CHB = "response" => transfer_state = "SDIO_TX_WAIT_IDLE"
  /\ pc \in {"abort second", "disable", "halt"} /\ CH => total_blocks > 1
  /\ pc \in {"disable", "halt"} /\ (CHB # "idle" \/ ints) => total_blocks > 1

(* The block on the wire is the next one the card wants, with its own      *)
(* checksum, but in a race; as long as it is there, it has not been        *)
(* answered.                                                               *)
WireOK ==
  wire.phase # "quiet" =>
    /\ fifo = Nothing
    /\ Garbled => wire.crc = 0
    /\ ~Garbled => wire.block = Len(stored)
    /\ ~Garbled /\ ~overtaken => wire.crc = wire.block

InOrder == \A i \in 1 .. Len(stored) : stored[i] = i - 1

(* how many blocks the card has once it gave the answer response *)
Taken(response) == blocks_done + (IF response = "SDIO_OK" THEN 1 ELSE 0)

(* The answer to the current block is on the wire, in the FIFO, or moved   *)
(* to card_response; it says whether the card took the block.  After the   *)
(* abort of the second channel it counts only when its interrupt came.     *)
AnswerOK ==
  /\ Busy /\ wire.phase # "quiet" => Len(stored) = blocks_done
  /\ Busy /\ fifo # Nothing => Len(stored) = Taken(fifo)
  /\ /\ transfer_state = "SDIO_TX_WAIT_IDLE" /\ CHB = "idle"
     /\ pc \in {"disable", "halt"} => ints
     => wire.phase = "quiet" /\ fifo = Nothing /\ Len(stored) = Taken(card_response)
  /\ ~Busy /\ pc # "idle" /\ wr_status = "SDIO_OK" =>
       Len(stored) = total_blocks /\ wire.phase = "quiet"
  /\ result = "SDIO_OK" => pc = "idle" /\ Len(stored) = total_blocks /\ wire.phase = "quiet"
  /\ pc # "idle" => result = "SDIO_BUSY"

(* The checksums are one block ahead of the block on the wire, but at the  *)
(* start.                                                                  *)
CountOK ==
  /\ Busy => blocks_done < total_blocks
  /\ pc \in {"test", "load", "count"} => blocks_checksumed \in 1 .. total_blocks
  /\ pc \in {"load", "count"} => blockidx \in 1 .. total_blocks
  /\ ~overtaken =>
       /\ blocks_checksumed <= total_blocks
       /\ pc \in Computing => next_wr_block_checksum = 0 /\ (Busy => blocks_done = 0)
       /\ pc \in {"test", "load", "count"} => blocks_checksumed = 1
       /\ pc \in {"load", "count", "store"} => blockidx = 1 /\ total_blocks > 1
       /\ pc = "store" => blocks_checksumed = 2
       /\ pc \in {"poll"} \cup Stopping /\ Busy =>
            /\ blocks_checksumed =
                 IF blocks_done + 2 <= total_blocks THEN blocks_done + 2 ELSE total_blocks
            /\ blocks_done + 1 < total_blocks => next_wr_block_checksum = blocks_done + 1

(* Once the handler has overtaken the main program, the second block is    *)
(* sent with the checksum of the first one, and nothing after it.          *)
OvertakenOK ==
  overtaken =>
    /\ total_blocks > 1
    /\ Len(stored) = 1
    /\ Busy => blocks_done = 1
    /\ wire.phase # "quiet" => wire.block = 1 /\ wire.crc = 0

IInv == TypeOK /\ ChannelsOK /\ WireOK /\ InOrder /\ AnswerOK /\ CountOK /\ OvertakenOK

(***************************************************************************)
(* One lemma for each action, one step for each conjunct.                  *)
(***************************************************************************)
LEMMA StartStep ==
  ASSUME IInv, NEW n \in 1 .. MaxBlocks, rp2040_sdio_tx_start(n)
  PROVE  IInv'
<1> USE MaxBlocksAssumption DEF IInv, TypeOK
<1>1. ControlTypeOK'
  BY DEF rp2040_sdio_tx_start, sdio_start_next_block_tx, FirstBlock, ControlTypeOK, Computing, Stopping
<1>2. BlocksTypeOK'
  BY DEF rp2040_sdio_tx_start, sdio_start_next_block_tx, FirstBlock, BlocksTypeOK, Wires, None
<1>3. ChannelsOK'
  BY DEF rp2040_sdio_tx_start, sdio_start_next_block_tx, FirstBlock, ChannelsOK, DataSent, ResponseDone, Busy
<1>4. WireOK'
  BY DEF rp2040_sdio_tx_start, sdio_start_next_block_tx, FirstBlock, WireOK, Garbled, None
<1>5. InOrder'
  BY DEF rp2040_sdio_tx_start, sdio_start_next_block_tx, FirstBlock, InOrder
<1>6. AnswerOK'
  BY DEF rp2040_sdio_tx_start, sdio_start_next_block_tx, FirstBlock, AnswerOK, Taken, Busy
<1>7. CountOK'
  BY DEF rp2040_sdio_tx_start, sdio_start_next_block_tx, FirstBlock, CountOK, Busy, Computing, Stopping
<1>8. OvertakenOK'
  BY DEF rp2040_sdio_tx_start, sdio_start_next_block_tx, FirstBlock, OvertakenOK, Busy
<1> QED BY <1>1, <1>2, <1>3, <1>4, <1>5, <1>6, <1>7, <1>8

LEMMA TestSecondStep ==
  ASSUME IInv, TestSecond
  PROVE  IInv'
<1> USE MaxBlocksAssumption DEF IInv, TypeOK
<1>1. ControlTypeOK'
  BY DEF TestSecond, transfer, dma, Interrupted, ControlTypeOK, Computing, Stopping
<1>2. BlocksTypeOK'
  BY DEF TestSecond, transfer, dma, Interrupted, BlocksTypeOK, Wires, None
<1>3. ChannelsOK'
  BY DEF TestSecond, transfer, dma, Interrupted, ChannelsOK, DataSent, ResponseDone, Busy
<1>4. WireOK'
  BY DEF TestSecond, transfer, dma, Interrupted, WireOK, Garbled, None
<1>5. InOrder'
  BY DEF TestSecond, transfer, dma, Interrupted, InOrder
<1>6. AnswerOK'
  BY DEF TestSecond, transfer, dma, Interrupted, AnswerOK, Taken, Busy
<1>7. CountOK'
  BY DEF TestSecond, transfer, dma, Interrupted, BlocksTypeOK, CountOK, Busy, Computing, Stopping
<1>8. OvertakenOK'
  BY DEF TestSecond, transfer, dma, Interrupted, OvertakenOK, Busy
<1> QED BY <1>1, <1>2, <1>3, <1>4, <1>5, <1>6, <1>7, <1>8

LEMMA LoadCountStep ==
  ASSUME IInv, LoadCount
  PROVE  IInv'
<1> USE MaxBlocksAssumption DEF IInv, TypeOK
<1>1. ControlTypeOK'
  BY DEF LoadCount, transfer, dma, Interrupted, ControlTypeOK, Computing, Stopping
<1>2. BlocksTypeOK'
  BY DEF LoadCount, transfer, dma, Interrupted, BlocksTypeOK, Wires, None
<1>3. ChannelsOK'
  BY DEF LoadCount, transfer, dma, Interrupted, ChannelsOK, DataSent, ResponseDone, Busy
<1>4. WireOK'
  BY DEF LoadCount, transfer, dma, Interrupted, WireOK, Garbled, None
<1>5. InOrder'
  BY DEF LoadCount, transfer, dma, Interrupted, InOrder
<1>6. AnswerOK'
  BY DEF LoadCount, transfer, dma, Interrupted, AnswerOK, Taken, Busy
<1>7. CountOK'
  BY DEF LoadCount, transfer, dma, Interrupted, CountOK, Busy, Computing, Stopping
<1>8. OvertakenOK'
  BY DEF LoadCount, transfer, dma, Interrupted, OvertakenOK, Busy
<1> QED BY <1>1, <1>2, <1>3, <1>4, <1>5, <1>6, <1>7, <1>8

LEMMA CountSecondStep ==
  ASSUME IInv, CountSecond
  PROVE  IInv'
<1> USE MaxBlocksAssumption DEF IInv, TypeOK
<1>1. ControlTypeOK'
  BY DEF CountSecond, dma, Interrupted, ControlTypeOK, Computing, Stopping
<1>2. BlocksTypeOK'
  BY DEF CountSecond, dma, Interrupted, CountOK, BlocksTypeOK, Wires, None
<1>3. ChannelsOK'
  BY DEF CountSecond, dma, Interrupted, ChannelsOK, DataSent, ResponseDone, Busy
<1>4. WireOK'
  BY DEF CountSecond, dma, Interrupted, WireOK, Garbled, None
<1>5. InOrder'
  BY DEF CountSecond, dma, Interrupted, InOrder
<1>6. AnswerOK'
  BY DEF CountSecond, dma, Interrupted, AnswerOK, Taken, Busy
<1>7. CountOK'
  BY DEF CountSecond, dma, Interrupted, BlocksTypeOK, CountOK, Busy, Computing, Stopping
<1>8. OvertakenOK'
  BY DEF CountSecond, dma, Interrupted, OvertakenOK, Busy
<1> QED BY <1>1, <1>2, <1>3, <1>4, <1>5, <1>6, <1>7, <1>8

LEMMA StoreChecksumStep ==
  ASSUME IInv, StoreChecksum
  PROVE  IInv'
<1> USE MaxBlocksAssumption DEF IInv, TypeOK
<1>1. ControlTypeOK'
  BY DEF StoreChecksum, dma, Interrupted, ControlTypeOK, Computing, Stopping
<1>2. BlocksTypeOK'
  BY DEF StoreChecksum, dma, Interrupted, BlocksTypeOK, Wires, None
<1>3. ChannelsOK'
  BY DEF StoreChecksum, dma, Interrupted, ChannelsOK, DataSent, ResponseDone, Busy
<1>4. WireOK'
  BY DEF StoreChecksum, dma, Interrupted, WireOK, Garbled, None
<1>5. InOrder'
  BY DEF StoreChecksum, dma, Interrupted, InOrder
<1>6. AnswerOK'
  BY DEF StoreChecksum, dma, Interrupted, AnswerOK, Taken, Busy
<1>7. CountOK'
  BY DEF StoreChecksum, dma, Interrupted, CountOK, Busy, Computing, Stopping
<1>8. OvertakenOK'
  BY DEF StoreChecksum, dma, Interrupted, OvertakenOK, Busy
<1> QED BY <1>1, <1>2, <1>3, <1>4, <1>5, <1>6, <1>7, <1>8

LEMMA PollIdleStep ==
  ASSUME IInv, PollIdle
  PROVE  IInv'
<1> USE MaxBlocksAssumption DEF IInv, TypeOK
<1>1. ControlTypeOK'
  BY DEF PollIdle, Stop, AbortSecond, DisableInterrupt, Halt, Return, ControlTypeOK, Computing, Stopping
<1>2. BlocksTypeOK'
  BY DEF PollIdle, Stop, AbortSecond, DisableInterrupt, Halt, Return, BlocksTypeOK, Wires, None
<1>3. ChannelsOK'
  BY DEF PollIdle, Stop, AbortSecond, DisableInterrupt, Halt, Return, ChannelsOK, DataSent, ResponseDone, Busy
<1>4. WireOK'
  BY DEF PollIdle, Stop, AbortSecond, DisableInterrupt, Halt, Return, WireOK, Garbled, None
<1>5. InOrder'
  BY DEF PollIdle, Stop, AbortSecond, DisableInterrupt, Halt, Return, InOrder
<1>6. AnswerOK'
  BY DEF PollIdle, Stop, AbortSecond, DisableInterrupt, Halt, Return, AnswerOK, Taken, Busy
<1>7. CountOK'
  BY DEF PollIdle, Stop, AbortSecond, DisableInterrupt, Halt, Return, CountOK, Busy, Computing, Stopping
<1>8. OvertakenOK'
  BY DEF PollIdle, Stop, AbortSecond, DisableInterrupt, Halt, Return, OvertakenOK, Busy
<1> QED BY <1>1, <1>2, <1>3, <1>4, <1>5, <1>6, <1>7, <1>8

LEMMA PollTimeoutStep ==
  ASSUME IInv, PollTimeout
  PROVE  IInv'
<1> USE MaxBlocksAssumption DEF IInv, TypeOK
<1>1. ControlTypeOK'
  BY DEF PollTimeout, transfer, dma, ControlTypeOK, Computing, Stopping
<1>2. BlocksTypeOK'
  BY DEF PollTimeout, transfer, dma, BlocksTypeOK, Wires, None
<1>3. ChannelsOK'
  BY DEF PollTimeout, transfer, dma, ChannelsOK, DataSent, ResponseDone, Busy
<1>4. WireOK'
  BY DEF PollTimeout, transfer, dma, WireOK, Garbled, None
<1>5. InOrder'
  BY DEF PollTimeout, transfer, dma, InOrder
<1>6. AnswerOK'
  BY DEF PollTimeout, transfer, dma, AnswerOK, Taken, Busy
<1>7. CountOK'
  BY DEF PollTimeout, transfer, dma, CountOK, Busy, Computing, Stopping
<1>8. OvertakenOK'
  BY DEF PollTimeout, transfer, dma, OvertakenOK, Busy
<1> QED BY <1>1, <1>2, <1>3, <1>4, <1>5, <1>6, <1>7, <1>8

LEMMA TimeoutAbortStep ==
  ASSUME IInv, TimeoutAbort
  PROVE  IInv'
<1> USE MaxBlocksAssumption DEF IInv, TypeOK
<1>1. ControlTypeOK'
  BY DEF TimeoutAbort, transfer, Interrupted, ControlTypeOK, Computing, Stopping
<1>2. BlocksTypeOK'
  BY DEF TimeoutAbort, transfer, Interrupted, BlocksTypeOK, Wires, None
<1>3. ChannelsOK'
  BY DEF TimeoutAbort, transfer, Interrupted, ChannelsOK, DataSent, ResponseDone, Busy
<1>4. WireOK'
  BY DEF TimeoutAbort, transfer, Interrupted, WireOK, Garbled, None
<1>5. InOrder'
  BY DEF TimeoutAbort, transfer, Interrupted, InOrder
<1>6. AnswerOK'
  BY DEF TimeoutAbort, transfer, Interrupted, AnswerOK, Taken, Busy
<1>7. CountOK'
  BY DEF TimeoutAbort, transfer, Interrupted, CountOK, Busy, Computing, Stopping
<1>8. OvertakenOK'
  BY DEF TimeoutAbort, transfer, Interrupted, OvertakenOK, Busy
<1> QED BY <1>1, <1>2, <1>3, <1>4, <1>5, <1>6, <1>7, <1>8

LEMMA TimeoutAbortSecondStep ==
  ASSUME IInv, TimeoutAbortSecond
  PROVE  IInv'
<1> USE MaxBlocksAssumption DEF IInv, TypeOK
<1>1. ControlTypeOK'
  BY DEF TimeoutAbortSecond, AbortSecond, transfer, Interrupted, ControlTypeOK, Computing, Stopping
<1>2. BlocksTypeOK'
  BY DEF TimeoutAbortSecond, AbortSecond, transfer, Interrupted, BlocksTypeOK, Wires, None
<1>3. ChannelsOK'
  BY DEF TimeoutAbortSecond, AbortSecond, transfer, Interrupted, ChannelsOK, DataSent, ResponseDone, Busy
<1>4. WireOK'
  BY DEF TimeoutAbortSecond, AbortSecond, transfer, Interrupted, WireOK, Garbled, None
<1>5. InOrder'
  BY DEF TimeoutAbortSecond, AbortSecond, transfer, Interrupted, InOrder
<1>6. AnswerOK'
  BY DEF TimeoutAbortSecond, AbortSecond, transfer, Interrupted, ChannelsOK, AnswerOK, Taken, Busy
<1>7. CountOK'
  BY DEF TimeoutAbortSecond, AbortSecond, transfer, Interrupted, CountOK, Busy, Computing, Stopping
<1>8. OvertakenOK'
  BY DEF TimeoutAbortSecond, AbortSecond, transfer, Interrupted, OvertakenOK, Busy
<1> QED BY <1>1, <1>2, <1>3, <1>4, <1>5, <1>6, <1>7, <1>8

LEMMA TimeoutDisableStep ==
  ASSUME IInv, TimeoutDisable
  PROVE  IInv'
<1> USE MaxBlocksAssumption DEF IInv, TypeOK
<1>1. ControlTypeOK'
  BY DEF TimeoutDisable, DisableInterrupt, transfer, Interrupted, ControlTypeOK, Computing, Stopping
<1>2. BlocksTypeOK'
  BY DEF TimeoutDisable, DisableInterrupt, transfer, Interrupted, BlocksTypeOK, Wires, None
<1>3. ChannelsOK'
  BY DEF TimeoutDisable, DisableInterrupt, transfer, Interrupted, ChannelsOK, DataSent, ResponseDone, Busy
<1>4. WireOK'
  BY DEF TimeoutDisable, DisableInterrupt, transfer, Interrupted, WireOK, Garbled, None
<1>5. InOrder'
  BY DEF TimeoutDisable, DisableInterrupt, transfer, Interrupted, InOrder
<1>6. AnswerOK'
  BY DEF TimeoutDisable, DisableInterrupt, transfer, Interrupted, AnswerOK, Taken, Busy
<1>7. CountOK'
  BY DEF TimeoutDisable, DisableInterrupt, transfer, Interrupted, CountOK, Busy, Computing, Stopping
<1>8. OvertakenOK'
  BY DEF TimeoutDisable, DisableInterrupt, transfer, Interrupted, OvertakenOK, Busy
<1> QED BY <1>1, <1>2, <1>3, <1>4, <1>5, <1>6, <1>7, <1>8

LEMMA ReturnTimeoutStep ==
  ASSUME IInv, ReturnTimeout
  PROVE  IInv'
<1> USE MaxBlocksAssumption DEF IInv, TypeOK
<1>1. ControlTypeOK'
  BY DEF ReturnTimeout, Halt, Return, dma, ControlTypeOK, Computing, Stopping
<1>2. BlocksTypeOK'
  BY DEF ReturnTimeout, Halt, Return, dma, BlocksTypeOK, Wires, None
<1>3. ChannelsOK'
  BY DEF ReturnTimeout, Halt, Return, dma, ChannelsOK, DataSent, ResponseDone, Busy
<1>4. WireOK'
  BY DEF ReturnTimeout, Halt, Return, dma, WireOK, Garbled, None
<1>5. InOrder'
  BY DEF ReturnTimeout, Halt, Return, dma, InOrder
<1>6. AnswerOK'
  BY DEF ReturnTimeout, Halt, Return, dma, AnswerOK, Taken, Busy
<1>7. CountOK'
  BY DEF ReturnTimeout, Halt, Return, dma, CountOK, Busy, Computing, Stopping
<1>8. OvertakenOK'
  BY DEF ReturnTimeout, Halt, Return, dma, OvertakenOK, Busy
<1> QED BY <1>1, <1>2, <1>3, <1>4, <1>5, <1>6, <1>7, <1>8

LEMMA BlockMovedStep ==
  ASSUME IInv, BlockMoved
  PROVE  IInv'
<1> USE MaxBlocksAssumption DEF IInv, TypeOK
<1>1. ControlTypeOK'
  BY DEF BlockMoved, softwareVars, ControlTypeOK, Computing, Stopping
<1>2. BlocksTypeOK'
  BY DEF BlockMoved, softwareVars, BlocksTypeOK, Wires, None
<1>3. ChannelsOK'
  BY DEF BlockMoved, softwareVars, ChannelsOK, DataSent, ResponseDone, Busy
<1>4. WireOK'
  BY DEF BlockMoved, softwareVars, WireOK, Garbled, None
<1>5. InOrder'
  BY DEF BlockMoved, softwareVars, InOrder
<1>6. AnswerOK'
  BY DEF BlockMoved, softwareVars, AnswerOK, Taken, Busy
<1>7. CountOK'
  BY DEF BlockMoved, softwareVars, CountOK, Busy, Computing, Stopping
<1>8. OvertakenOK'
  BY DEF BlockMoved, softwareVars, OvertakenOK, Busy
<1> QED BY <1>1, <1>2, <1>3, <1>4, <1>5, <1>6, <1>7, <1>8

LEMMA TokenMovedStep ==
  ASSUME IInv, TokenMoved
  PROVE  IInv'
<1> USE MaxBlocksAssumption DEF IInv, TypeOK
<1>1. ControlTypeOK'
  BY DEF TokenMoved, softwareVars, ControlTypeOK, Computing, Stopping
<1>2. BlocksTypeOK'
  BY DEF TokenMoved, softwareVars, BlocksTypeOK, Wires, None
<1>3. ChannelsOK'
  BY DEF TokenMoved, softwareVars, ChannelsOK, DataSent, ResponseDone, Busy
<1>4. WireOK'
  BY DEF TokenMoved, softwareVars, WireOK, Garbled, None
<1>5. InOrder'
  BY DEF TokenMoved, softwareVars, InOrder
<1>6. AnswerOK'
  BY DEF TokenMoved, softwareVars, ChannelsOK, BlocksTypeOK, Wires, AnswerOK, Taken, Busy
<1>7. CountOK'
  BY DEF TokenMoved, softwareVars, CountOK, Busy, Computing, Stopping
<1>8. OvertakenOK'
  BY DEF TokenMoved, softwareVars, OvertakenOK, Busy
<1> QED BY <1>1, <1>2, <1>3, <1>4, <1>5, <1>6, <1>7, <1>8

LEMMA ResponseMovedStep ==
  ASSUME IInv, ResponseMoved
  PROVE  IInv'
<1> USE MaxBlocksAssumption DEF IInv, TypeOK
<1>1. ControlTypeOK'
  BY DEF ResponseMoved, softwareVars, ControlTypeOK, Computing, Stopping
<1>2. BlocksTypeOK'
  BY DEF ResponseMoved, softwareVars, BlocksTypeOK, Wires, None
<1>3. ChannelsOK'
  BY DEF ResponseMoved, softwareVars, ChannelsOK, DataSent, ResponseDone, Busy
<1>4. WireOK'
  BY DEF ResponseMoved, softwareVars, WireOK, Garbled, None
<1>5. InOrder'
  BY DEF ResponseMoved, softwareVars, InOrder
<1>6. AnswerOK'
  BY DEF ResponseMoved, softwareVars, ChannelsOK, WireOK, AnswerOK, Taken, Busy
<1>7. CountOK'
  BY DEF ResponseMoved, softwareVars, CountOK, Busy, Computing, Stopping
<1>8. OvertakenOK'
  BY DEF ResponseMoved, softwareVars, OvertakenOK, Busy
<1> QED BY <1>1, <1>2, <1>3, <1>4, <1>5, <1>6, <1>7, <1>8

LEMMA CardAcceptsStep ==
  ASSUME IInv, CardAccepts
  PROVE  IInv'
<1> USE MaxBlocksAssumption DEF IInv, TypeOK
<1>1. ControlTypeOK'
  <2>1. fifo' \in Statuses
    BY DEF CardAccepts, Statuses
  <2> QED BY <2>1 DEF CardAccepts, softwareVars, ControlTypeOK
<1>2. BlocksTypeOK'
  <2>1. wire.block = Len(stored) /\ wire.block \in Nat
    BY DEF CardAccepts, WireOK, Garbled, None, BlocksTypeOK
  <2>2. stored' \in Seq(Nat)
    BY <2>1 DEF CardAccepts, BlocksTypeOK
  <2>3. wire' \in Wires
    BY DEF CardAccepts, BlocksTypeOK, Wires
  <2> QED BY <2>2, <2>3 DEF CardAccepts, softwareVars, BlocksTypeOK
<1>3. ChannelsOK'
  BY DEF CardAccepts, softwareVars, ChannelsOK, DataSent, ResponseDone, Busy
<1>4. WireOK'
  BY DEF CardAccepts, softwareVars, WireOK, Garbled, None
<1>5. InOrder'
  <2>1. stored \in Seq(Nat) /\ wire.block = Len(stored) /\ stored' = Append(stored, wire.block)
    BY DEF CardAccepts, WireOK, Garbled, None, BlocksTypeOK
  <2> QED BY <2>1 DEF InOrder
<1>6. AnswerOK'
  BY DEF CardAccepts, softwareVars, AnswerOK, Taken, Busy
<1>7. CountOK'
  BY DEF CardAccepts, softwareVars, CountOK, Busy, Computing, Stopping
<1>8. OvertakenOK'
  BY DEF CardAccepts, softwareVars, OvertakenOK, Busy
<1> QED BY <1>1, <1>2, <1>3, <1>4, <1>5, <1>6, <1>7, <1>8

LEMMA CardRefusesStep ==
  ASSUME IInv, NEW status \in Statuses, CardRefuses(status)
  PROVE  IInv'
<1> USE MaxBlocksAssumption DEF IInv, TypeOK
<1>1. ControlTypeOK'
  BY DEF CardRefuses, softwareVars, ControlTypeOK, Computing, Stopping
<1>2. BlocksTypeOK'
  BY DEF CardRefuses, softwareVars, BlocksTypeOK, Wires, None
<1>3. ChannelsOK'
  BY DEF CardRefuses, softwareVars, ChannelsOK, DataSent, ResponseDone, Busy
<1>4. WireOK'
  BY DEF CardRefuses, softwareVars, WireOK, Garbled, None
<1>5. InOrder'
  BY DEF CardRefuses, softwareVars, InOrder
<1>6. AnswerOK'
  BY DEF CardRefuses, softwareVars, AnswerOK, Taken, Busy
<1>7. CountOK'
  BY DEF CardRefuses, softwareVars, CountOK, Busy, Computing, Stopping
<1>8. OvertakenOK'
  BY DEF CardRefuses, softwareVars, OvertakenOK, Busy
<1> QED BY <1>1, <1>2, <1>3, <1>4, <1>5, <1>6, <1>7, <1>8

LEMMA WaitStep ==
  ASSUME IInv, Interrupted, pc' = pc, result' = result, blockidx' = blockidx,
         stored' = stored, total_blocks' = total_blocks, WaitForResponse
  PROVE  IInv'
<1> USE MaxBlocksAssumption DEF IInv, TypeOK
<1>1. ControlTypeOK'
  BY DEF WaitForResponse, DataSent, Interrupted, ControlTypeOK, Computing, Stopping
<1>2. BlocksTypeOK'
  BY DEF WaitForResponse, DataSent, Interrupted, BlocksTypeOK, Wires, None
<1>3. ChannelsOK'
  BY DEF WaitForResponse, DataSent, Interrupted, ChannelsOK, DataSent, ResponseDone, Busy
<1>4. WireOK'
  BY DEF WaitForResponse, DataSent, Interrupted, WireOK, Garbled, None
<1>5. InOrder'
  BY DEF WaitForResponse, DataSent, Interrupted, InOrder
<1>6. AnswerOK'
  BY DEF WaitForResponse, DataSent, Interrupted, AnswerOK, Taken, Busy
<1>7. CountOK'
  BY DEF WaitForResponse, DataSent, Interrupted, CountOK, Busy, Computing, Stopping
<1>8. OvertakenOK'
  BY DEF WaitForResponse, DataSent, Interrupted, OvertakenOK, Busy
<1> QED BY <1>1, <1>2, <1>3, <1>4, <1>5, <1>6, <1>7, <1>8

(* The handler has the card's answer to the block on the wire. *)
LEMMA AnsweredStep ==
  ASSUME IInv, Interrupted, pc' = pc, result' = result, blockidx' = blockidx,
         stored' = stored, total_blocks' = total_blocks,
         Busy, wire.phase = "quiet", NEW response \in Statuses, BlockAnswered(response),
         Len(stored) = Taken(response), card_response' \in Statuses
  PROVE  IInv'
<1> USE MaxBlocksAssumption DEF IInv, TypeOK
<1>1. CASE response = "SDIO_OK" /\ blocks_done + 1 < total_blocks
  <2>1. blocks_done' = blocks_done + 1 /\ wr_status' = response /\ NextBlock
    BY <1>1 DEF BlockAnswered
  <2>2. ~overtaken /\ Len(stored) = blocks_done + 1 /\ blocks_done \in Nat
    BY <1>1 DEF Taken, OvertakenOK, BlocksTypeOK
  <2>3. pc \in Computing \cup {"poll", "abort", "abort second", "disable"}
    BY DEF Interrupted, ChannelsOK, ControlTypeOK, Stopping
  <2>4. ControlTypeOK'
    BY <2>1 DEF NextBlock, sdio_start_next_block_tx, ControlTypeOK
  <2>5. next_wr_block_checksum = IF pc \in Computing THEN 0 ELSE blocks_done + 1
    BY <1>1, <2>2, <2>3 DEF CountOK, Computing, Stopping
  <2>6. blocks_checksumed' \in 0 .. MaxBlocks + 1 /\ next_wr_block_checksum' \in Int
    BY <2>1 DEF NextBlock, ChecksumAhead, BlocksTypeOK
  <2>7. BlocksTypeOK'
    BY <1>1, <2>1, <2>6 DEF NextBlock, sdio_start_next_block_tx, BlocksTypeOK, Wires, None
  <2>8. /\ irq_enabled' = TRUE /\ ints' = FALSE /\ CH' = TRUE /\ CHB' = "idle"
        /\ wire' = [phase |-> "sending", block |-> blocks_done + 1,
                    crc |-> next_wr_block_checksum]
        /\ fifo' = Nothing /\ transfer_state' = "SDIO_TX"
        /\ overtaken' = (overtaken \/ pc \in Computing)
    BY <2>1 DEF NextBlock, sdio_start_next_block_tx
  <2>9. ChannelsOK'
    <3>1. pc \notin {"idle", "halt"}
      BY <2>3 DEF Computing
    <3>2. total_blocks' > 1
      BY <1>1, <2>2 DEF BlocksTypeOK
    <3>3. Busy' /\ pc' \notin {"idle", "halt"}
      BY <2>8, <3>1 DEF Busy
    <3>4. /\ irq_enabled' /\ ~ints' /\ CH' /\ CHB' = "idle"
          /\ transfer_state' = "SDIO_TX"
      BY <2>8
    <3> QED BY <3>2, <3>3, <3>4 DEF ChannelsOK
  <2>10. WireOK' /\ InOrder' /\ AnswerOK'
    <3>1. WireOK'
      <4>1. wire'.block = blocks_done + 1 /\ wire'.crc = next_wr_block_checksum
        BY <2>8
      <4>2. wire'.block # None
        BY <2>2, <4>1 DEF None
      <4>3. ~overtaken' => next_wr_block_checksum = blocks_done + 1
        BY <2>5, <2>8
      <4> QED BY <2>2, <2>8, <4>1, <4>2, <4>3 DEF WireOK, Garbled
    <3>2. InOrder'
      BY DEF InOrder
    <3>3. AnswerOK'
      BY <2>1, <2>2, <2>3, <2>8 DEF AnswerOK, Taken, Busy, Computing
    <3> QED BY <3>1, <3>2, <3>3
  <2>11. CountOK'
    <3>1. /\ pc \in {"test", "load", "count"} => blocks_checksumed' \in 1 .. total_blocks
          /\ pc \in {"load", "count"} => blockidx' \in 1 .. total_blocks
      BY <1>1, <2>1 DEF NextBlock, ChecksumAhead, BlocksTypeOK, CountOK
    <3>2. CASE pc \in Computing
      BY <1>1, <2>1, <2>8, <3>1, <3>2 DEF CountOK, BlocksTypeOK, Busy
    <3>3. CASE pc \notin Computing
      <4>1. pc \in {"poll"} \cup Stopping
        BY <2>3, <3>3 DEF Stopping
      <4>2. /\ blocks_checksumed' =
                 IF blocks_done' + 2 <= total_blocks THEN blocks_done' + 2 ELSE total_blocks
            /\ blocks_done' + 1 < total_blocks => next_wr_block_checksum' = blocks_done' + 1
            /\ blocks_checksumed' <= total_blocks
        BY <1>1, <2>1, <2>2, <4>1
        DEF NextBlock, ChecksumAhead, CountOK, BlocksTypeOK
      <4>3. pc \notin {"test", "load", "count", "store"} /\ pc' = pc
        BY <3>3 DEF Computing
      <4>4. Busy' => blocks_done' < total_blocks'
        BY <1>1, <2>1
      <4> QED BY <4>1, <4>2, <4>3, <4>4 DEF CountOK, Computing
    <3> QED BY <3>2, <3>3
  <2>12. OvertakenOK'
    <3>1. CASE pc \in Computing
      <4>1. blocks_done = 0 /\ next_wr_block_checksum = 0
        BY <2>2, <2>5, <3>1 DEF CountOK
      <4>2. total_blocks' > 1 /\ Len(stored') = 1 /\ blocks_done' = 1
        BY <1>1, <2>1, <2>2, <4>1 DEF BlocksTypeOK
      <4>3. wire'.block = 1 /\ wire'.crc = 0
        BY <2>8, <4>1
      <4> QED BY <4>2, <4>3 DEF OvertakenOK
    <3>2. CASE pc \notin Computing
      BY <2>2, <2>8, <3>2 DEF OvertakenOK
    <3> QED BY <3>1, <3>2
  <2> QED BY <2>4, <2>7, <2>9, <2>10, <2>11, <2>12
<1>2. CASE ~(response = "SDIO_OK" /\ blocks_done + 1 < total_blocks)
  <2>1. /\ Stop /\ wr_status' = response
        /\ fifo' = fifo /\ overtaken' = overtaken
        /\ blocks_checksumed' = blocks_checksumed
        /\ next_wr_block_checksum' = next_wr_block_checksum
        /\ blocks_done' = Taken(response)
    BY <1>2 DEF BlockAnswered, LastBlock, Taken, BlocksTypeOK
  <2>2. /\ CH' = FALSE /\ CHB' = "idle" /\ irq_enabled' = FALSE /\ ints' = FALSE
        /\ wire' = wire /\ transfer_state' = "SDIO_IDLE"
    BY <2>1
    DEF Stop, AbortSecond, DisableInterrupt, Halt, BlocksTypeOK, Wires
  <2>3. response = "SDIO_OK" => blocks_done + 1 = total_blocks
    BY <1>2 DEF CountOK, BlocksTypeOK
  <2>4. pc # "idle"
    BY DEF ChannelsOK
  <2>5. ControlTypeOK'
    BY <2>1, <2>2 DEF ControlTypeOK
  <2>6. BlocksTypeOK'
    BY <2>1, <2>2, <2>3 DEF BlocksTypeOK, Taken
  <2>7. ChannelsOK'
    BY <2>2, <2>4 DEF ChannelsOK, DataSent, ResponseDone, Busy
  <2>8. WireOK' /\ InOrder'
    BY <2>2 DEF WireOK, InOrder
  <2>9. AnswerOK'
    BY <2>1, <2>2, <2>3, <2>4 DEF AnswerOK, Taken, Busy
  <2>10. CountOK' /\ OvertakenOK'
    BY <2>1, <2>2 DEF CountOK, OvertakenOK, Busy, BlocksTypeOK
  <2> QED BY <2>5, <2>6, <2>7, <2>8, <2>9, <2>10
<1> QED BY <1>1, <1>2

LEMMA InterruptStep == ASSUME IInv, DmaInterrupt PROVE IInv'
<1>1. /\ Interrupted /\ pc' = pc /\ result' = result /\ blockidx' = blockidx
      /\ stored' = stored /\ total_blocks' = total_blocks
  BY DEF DmaInterrupt, sdio_irq_handler
<1>2. CASE WaitForResponse
  BY <1>1, <1>2, WaitStep
<1>3. CASE ResponseInFifo
  <2>1. /\ Busy /\ wire.phase = "quiet" /\ fifo \in Statuses
        /\ Len(stored) = Taken(fifo) /\ card_response' = fifo /\ BlockAnswered(fifo)
    BY <1>3
    DEF ResponseInFifo, DataSent, IInv, TypeOK, ControlTypeOK, WireOK, AnswerOK, Busy
  <2> QED BY <1>1, <2>1, AnsweredStep
<1>4. CASE ResponseByDma
  <2>1. /\ Busy /\ wire.phase = "quiet" /\ card_response \in Statuses
        /\ Len(stored) = Taken(card_response) /\ card_response' = card_response
        /\ BlockAnswered(card_response)
    BY <1>1, <1>4 DEF ResponseByDma, Interrupted, IInv, TypeOK, ControlTypeOK, AnswerOK, Busy
  <2> QED BY <1>1, <2>1, AnsweredStep
<1> QED BY <1>2, <1>3, <1>4 DEF DmaInterrupt, sdio_irq_handler

LEMMA InitOK == ASSUME Init PROVE IInv
<1>1. ControlTypeOK
  BY Zenon DEF Init, ControlTypeOK, Statuses
<1>2. BlocksTypeOK
  BY MaxBlocksAssumption DEF Init, BlocksTypeOK, Wires, None
<1>3. ChannelsOK /\ WireOK /\ InOrder
  BY DEF Init, ChannelsOK, WireOK, InOrder, Busy
<1>4. AnswerOK /\ CountOK /\ OvertakenOK
  BY DEF Init, AnswerOK, CountOK, OvertakenOK, Busy, Computing, Stopping
<1> QED BY <1>1, <1>2, <1>3, <1>4 DEF IInv, TypeOK

LEMMA Stutter == ASSUME IInv, UNCHANGED vars PROVE IInv'
<1> USE DEF vars, transfer, dma
<1>1. TypeOK'
  BY DEF IInv, TypeOK, ControlTypeOK, BlocksTypeOK
<1>2. ChannelsOK' /\ WireOK' /\ InOrder'
  BY DEF IInv, ChannelsOK, WireOK, InOrder, Busy, Garbled, DataSent, ResponseDone
<1>3. AnswerOK' /\ CountOK' /\ OvertakenOK'
  BY DEF IInv, AnswerOK, CountOK, OvertakenOK, Busy, Taken
<1> QED BY <1>1, <1>2, <1>3 DEF IInv

THEOREM Invariance == Spec => []IInv
<1>1. Init => IInv
  BY InitOK
<1>2. IInv /\ [Next]_vars => IInv'
  <2> SUFFICES ASSUME IInv, [Next]_vars PROVE IInv'
    OBVIOUS
  <2>1. ASSUME NEW n \in 1 .. MaxBlocks, rp2040_sdio_tx_start(n) PROVE IInv'
    BY <2>1, StartStep
  <2>2. CASE SecondChecksum
    BY <2>2, TestSecondStep, LoadCountStep, CountSecondStep, StoreChecksumStep
    DEF SecondChecksum
  <2>3. CASE PollIdle \/ PollTimeout
    BY <2>3, PollIdleStep, PollTimeoutStep
  <2>4. CASE GiveUp
    BY <2>4, TimeoutAbortStep, TimeoutAbortSecondStep, TimeoutDisableStep, ReturnTimeoutStep
    DEF GiveUp
  <2>5. CASE DmaInterrupt
    BY <2>5, InterruptStep
  <2>6. CASE Hardware
    BY <2>6, BlockMovedStep, TokenMovedStep, ResponseMovedStep, CardAcceptsStep, CardRefusesStep
    DEF Hardware, CardAnswers
  <2> QED BY <2>1, <2>2, <2>3, <2>4, <2>5, <2>6, Stutter DEF Next
<1> QED BY <1>1, <1>2, PTL DEF Spec

(* Every variable keeps its type, the counters their range. *)
THEOREM TypeCorrect == Spec => []TypeOK
<1>1. IInv => TypeOK
  BY DEF IInv
<1> QED BY <1>1, Invariance, PTL

(* The card gets the blocks in order, and all of them when the request is  *)
(* reported as written, wherever the handler came in between.              *)
THEOREM AllBlocksWritten == Spec => []WrittenWhenOk
<1>1. IInv => WrittenWhenOk
  BY DEF IInv, InOrder, AnswerOK, WrittenWhenOk
<1> QED BY <1>1, Invariance, PTL

(* A block is sent with its own checksum, and none is computed too many,   *)
(* unless the handler overtook the main program: then the request fails.   *)
THEOREM ChecksumFits == Spec => []OwnChecksum
<1>1. IInv => OwnChecksum
  <2> SUFFICES ASSUME IInv PROVE OwnChecksum
    OBVIOUS
  <2>1. overtaken => result # "SDIO_OK"
    BY DEF IInv, AnswerOK, OvertakenOK
  <2> QED BY <2>1 DEF IInv, WireOK, CountOK, OwnChecksum
<1> QED BY <1>1, Invariance, PTL

(* After tx_poll() has returned nothing reads the buffer of the caller,    *)
(* but after a timeout of several blocks.                                  *)
THEOREM QuietWhenDone == Spec => []QuietAfterReturn
<1>1. IInv => QuietAfterReturn
  BY DEF IInv, ChannelsOK, DataSent, ResponseDone, Busy, QuietAfterReturn
<1> QED BY <1>1, Invariance, PTL
=============================================================================
