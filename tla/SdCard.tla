------------------------------- MODULE SdCard -------------------------------
(***************************************************************************)
(* The SD card driver: sd_driver/SDIO/sd_card_sdio.c, its locking and      *)
(* start in sd_driver/sd_card.c and the glue to FatFS in src/glue.c.  The  *)
(* requests come from FatFS, one sector each, and from the USB host        *)
(* (libs/stdio_msc_usb/msc_usb.c), several sectors each, never from both   *)
(* at a time (CardHasOneUser of UsbStdio).                                 *)
(*                                                                         *)
(* A multiple block write is not stopped when it is done: the card is left *)
(* waiting for the next block, and any request but a write that goes on at *)
(* the next sector has to stop it first.                                   *)
(*                                                                         *)
(* The card is external, a state machine of the SD specification.  A       *)
(* command that is not legal in the state of the card gets no response;    *)
(* any command or its response may be lost; a block may be refused, come   *)
(* with a wrong checksum or not at all, and there is none after the last   *)
(* sector.  A reset of the machine leaves the card under power, and so in  *)
(* the middle of what it was doing.                                        *)
(*                                                                         *)
(* SdioTx has the transmission of the blocks of a request in detail.       *)
(***************************************************************************)
EXTENDS Naturals, Sequences

CONSTANTS Sectors,      \* sectors of the card are 0 .. Sectors - 1
          Data,         \* contents of a sector
          Torn,         \* content of a sector whose writing lost its power
          Bad,          \* what is received with a wrong checksum
          MaxBatch      \* bound: sectors in a request of the USB host

ASSUME SectorsAssumption == Sectors \in Nat \ {0}
ASSUME BatchAssumption == MaxBatch \in Nat \ {0}
ASSUME DataAssumption == Torn \notin Data /\ Bad \notin Data \cup {Torn}

VARIABLES
  m_Status,             \* STA_NOINIT is set, or the card is "ready"
  ongoing_wr_mlt_blk,
  wr_mlt_blk_cnt_sector,
  pc,                   \* what the driver does next
  step,                 \* next command of sd_sdio_begin()
  req,                  \* the request, with the data to write
  buffer,               \* the data read or written so far
  checksum_errors,
  answer,               \* what the last request returned
  card,                 \* state of the card
  pos,                  \* the sector the card writes next
  media                 \* its contents

driver == <<m_Status, ongoing_wr_mlt_blk, wr_mlt_blk_cnt_sector>>
job == <<step, req, buffer, checksum_errors>>
vars == <<driver, pc, job, answer, card, pos, media>>

Sector == 0 .. Sectors - 1
Content == Data \cup {Torn}
NoRequest == [op |-> "none", sector |-> 0, count |-> 0, data |-> <<>>]
Requests ==
  {[op |-> "read", sector |-> s, count |-> n, data |-> <<>>] : s \in Sector, n \in 1 .. MaxBatch}
    \cup UNION {[op : {"write"}, sector : Sector, count : {n}, data : [1 .. n -> Data]] : n \in 1 .. MaxBatch}

(* sd_sdio_begin() without its repetitions *)
Begin == <<"CMD0", "CMD8", "ACMD41", "CMD2", "CMD3", "CMD9", "CMD7", "ACMD42", "ACMD6", "CMD16">>

CardStates == {"idle", "ready", "ident", "stby", "tran", "rcv one", "rcv", "data"}

TypeOK ==
  /\ m_Status \in {"STA_NOINIT", "ready"}
  /\ ongoing_wr_mlt_blk \in BOOLEAN
  /\ wr_mlt_blk_cnt_sector \in 0 .. Sectors
  /\ pc \in {"off", "idle", "begin", "stop", "command", "transfer", "close", "giveup"}
  /\ step \in 1 .. Len(Begin)
  /\ req \in Requests \cup {NoRequest}
  /\ buffer \in Seq(Content \cup {Bad})
  /\ checksum_errors \in Nat
  /\ answer \in [ok : BOOLEAN, data : Seq(Content \cup {Bad})]
  /\ card \in CardStates /\ pos \in Nat
  /\ media \in [Sector -> Content]

Init ==
  /\ m_Status = "STA_NOINIT" /\ ongoing_wr_mlt_blk = FALSE /\ wr_mlt_blk_cnt_sector = 0
  /\ pc = "off" /\ step = 1 /\ req = NoRequest /\ buffer = <<>> /\ checksum_errors = 0
  /\ answer = [ok |-> TRUE, data |-> <<>>]
  /\ card = "idle" /\ pos = 0
  /\ media \in [Sector -> Data]

(***************************************************************************)
(* Commands and the card.                                                  *)
(***************************************************************************)
(* A command the card is in the right state for, and the state it goes to; *)
(* a single block that is read leaves the card as it was.                  *)
Accept(cmd, sector) ==
  /\ \/ cmd = "CMD0" /\ card' = "idle"
     \/ cmd = "CMD8" /\ card = "idle" /\ card' = card
     \/ cmd = "ACMD41" /\ card = "idle" /\ card' = "ready"
     \/ cmd = "CMD2" /\ card = "ready" /\ card' = "ident"
     \/ cmd = "CMD3" /\ card \in {"ident", "stby"} /\ card' = "stby"
     \/ cmd = "CMD9" /\ card = "stby" /\ card' = card
     \/ cmd = "CMD7" /\ card = "stby" /\ card' = "tran"
     \/ cmd \in {"ACMD42", "ACMD6", "CMD16", "CMD17"} /\ card = "tran" /\ card' = card
     \/ cmd = "CMD18" /\ card = "tran" /\ card' = "data"
     \/ cmd = "CMD24" /\ card = "tran" /\ card' = "rcv one"
     \/ cmd = "CMD25" /\ card = "tran" /\ card' = "rcv"
     \/ cmd = "CMD12" /\ card \in {"rcv", "rcv one", "data"} /\ card' = "tran"
  /\ pos' = IF cmd \in {"CMD24", "CMD25"} THEN sector ELSE pos

(* A command with its response: TRUE is SDIO_OK.  Without one the card may *)
(* have got the command or not.                                            *)
Command(cmd, sector, ok) ==
  \/ Accept(cmd, sector)
  \/ ~ok /\ UNCHANGED <<card, pos>>

Finish(ok) ==
  /\ pc' = "idle"
  /\ answer' = [ok |-> ok, data |-> IF ok /\ req.op = "read" THEN buffer ELSE <<>>]
  /\ req' = NoRequest /\ buffer' = <<>> /\ checksum_errors' = 0

(***************************************************************************)
(* disk_initialize() and sd_sdio_begin().                                  *)
(***************************************************************************)
disk_initialize ==
  /\ pc \in {"off", "idle"} /\ m_Status = "STA_NOINIT"
  /\ pc' = "begin" /\ step' = 1
  /\ UNCHANGED <<driver, req, buffer, checksum_errors, answer, card, pos, media>>

(* Mutant: a command that gets no response is not noticed. *)
MutBeginCommand ==
  /\ pc = "begin"
  /\ \E ok \in BOOLEAN : Command(Begin[step], 0, ok)
  /\ IF step = Len(Begin)
       THEN m_Status' = "ready" /\ pc' = "idle" /\ UNCHANGED step
       ELSE step' = step + 1 /\ UNCHANGED <<m_Status, pc>>

(* CMD0 has no response.  CMD8 is tried 5 times from CMD0 on, ACMD41 until *)
(* the card is ready, for 1 s: both may succeed or fail in the end.        *)
BeginCommand ==
  /\ pc = "begin"
  /\ \E ok \in BOOLEAN :
       /\ Command(Begin[step], 0, ok)
       /\ \/ ~ok /\ Begin[step] = "CMD8" /\ step' = 1 /\ UNCHANGED <<m_Status, pc>>
          \/ ~ok /\ Begin[step] # "CMD0" /\ pc' = "idle" /\ UNCHANGED <<m_Status, step>>
          \/ /\ ok \/ Begin[step] = "CMD0"
             /\ IF step = Len(Begin)
                  THEN m_Status' = "ready" /\ pc' = "idle" /\ UNCHANGED step
                  ELSE step' = step + 1 /\ UNCHANGED <<m_Status, pc>>

Initialise ==
  /\ BeginCommand
  /\ UNCHANGED <<ongoing_wr_mlt_blk, wr_mlt_blk_cnt_sector, req, buffer,
                 checksum_errors, answer, media>>

(***************************************************************************)
(* Requests: sd_sdio_read_blocks(), sd_sdio_write_blocks(), sd_sync().     *)
(***************************************************************************)
(* Mutant: any multiple block write goes on where the last one ended. *)
MutContinues(r) == r.op = "write" /\ r.count > 1 /\ ongoing_wr_mlt_blk

(* sd_sdio_writeSectors() goes on without a command *)
Continues(r) ==
  /\ r.op = "write" /\ r.count > 1
  /\ ongoing_wr_mlt_blk /\ r.sector = wr_mlt_blk_cnt_sector

(* only the first sector is known to be on the card *)
Ask(r) ==
  /\ pc = "idle" /\ m_Status = "ready"
  /\ req' = r
  /\ pc' = IF Continues(r) THEN "transfer" ELSE IF ongoing_wr_mlt_blk THEN "stop" ELSE "command"
  /\ buffer' = <<>> /\ checksum_errors' = 0
  /\ UNCHANGED <<driver, step, answer, card, pos, media>>

(* Mutant: the transmission counts as stopped only when the card says so. *)
MutStopTransmission(ok) ==
  /\ Command("CMD12", 0, ok)
  /\ UNCHANGED <<ongoing_wr_mlt_blk, m_Status, wr_mlt_blk_cnt_sector, step, media>>

(* The flag goes before the command is sent.  A card that is busy for more *)
(* than 200 ms counts as one that does not respond.                        *)
StopTransmission(ok) ==
  /\ ongoing_wr_mlt_blk' = FALSE
  /\ Command("CMD12", 0, ok)
  /\ UNCHANGED <<m_Status, wr_mlt_blk_cnt_sector, step, media>>

StopFirst ==
  /\ pc = "stop"
  /\ \/ /\ StopTransmission(TRUE)
        /\ pc' = "command"
        /\ UNCHANGED <<req, buffer, checksum_errors, answer>>
     \/ StopTransmission(FALSE) /\ Finish(FALSE)

(* disk_ioctl(CTRL_SYNC) drops the result of sd_sync() *)
CtrlSync ==
  /\ pc = "idle" /\ ongoing_wr_mlt_blk
  /\ \E ok \in BOOLEAN : StopTransmission(ok)
  /\ UNCHANGED <<pc, req, buffer, checksum_errors, answer>>

(* sd_sdio_readSectors() reads the end of the card sector by sector, there *)
(* the multiple block command would fail                                   *)
OneByOne == req.count = 1 \/ (req.op = "read" /\ req.sector + req.count >= Sectors)

CommandOf ==
  IF req.op = "write" THEN IF OneByOne THEN "CMD24" ELSE "CMD25"
                      ELSE IF OneByOne THEN "CMD17" ELSE "CMD18"

SendCommand ==
  /\ pc = "command"
  /\ \/ /\ Command(CommandOf, req.sector + Len(buffer), TRUE)
        /\ pc' = "transfer"
        /\ UNCHANGED <<req, buffer, checksum_errors, answer>>
     \/ Command(CommandOf, req.sector + Len(buffer), FALSE) /\ Finish(FALSE)
  /\ UNCHANGED <<driver, step, media>>

(* the card takes a block at the sector it stands at, if there is one *)
Store(content) ==
  /\ pos \in Sector
  /\ media' = [media EXCEPT ![pos] = content]
  /\ pos' = pos + 1
  /\ card' = IF card = "rcv" THEN "rcv" ELSE "tran"

WriteBlock ==
  /\ pc = "transfer" /\ req.op = "write" /\ Len(buffer) < req.count
  /\ Store(req.data[Len(buffer) + 1])
  /\ buffer' = Append(buffer, req.data[Len(buffer) + 1])
  /\ UNCHANGED <<driver, pc, step, req, checksum_errors, answer>>

Written ==
  /\ pc = "transfer" /\ req.op = "write" /\ Len(buffer) = req.count
  /\ IF OneByOne
       THEN UNCHANGED <<ongoing_wr_mlt_blk, wr_mlt_blk_cnt_sector>>
       ELSE /\ ongoing_wr_mlt_blk' = TRUE
            /\ wr_mlt_blk_cnt_sector' = req.sector + req.count
  /\ Finish(TRUE)
  /\ UNCHANGED <<m_Status, step, card, pos, media>>

(* refused, no answer or the timeout; the card may have stored the block *)
WriteFails ==
  /\ pc = "transfer" /\ req.op = "write" /\ Len(buffer) < req.count
  /\ \/ Store(req.data[Len(buffer) + 1])
     \/ card' \in {card, IF card = "rcv one" THEN "tran" ELSE card} /\ UNCHANGED <<pos, media>>
  /\ IF OneByOne
       THEN Finish(FALSE)
       ELSE pc' = "giveup" /\ UNCHANGED <<req, buffer, checksum_errors, answer>>
  /\ UNCHANGED <<driver, step>>

(* Mutant: a block with a wrong checksum is not counted. *)
MutErrorsAfter(content) == 0

ErrorsAfter(content) == checksum_errors + (IF content = Bad THEN 1 ELSE 0)

ReadBlock ==
  /\ pc = "transfer" /\ req.op = "read" /\ Len(buffer) < req.count
  /\ req.sector + Len(buffer) \in Sector
  /\ \E content \in {Bad, media[req.sector + Len(buffer)]} :
       /\ buffer' = Append(buffer, content)
       /\ checksum_errors' = ErrorsAfter(content)
       /\ pc' = IF OneByOne /\ content # Bad /\ Len(buffer) + 1 < req.count THEN "command" ELSE "transfer"
  /\ UNCHANGED <<driver, step, req, answer, card, pos, media>>

ReadEnds ==
  /\ pc = "transfer" /\ req.op = "read"
  /\ Len(buffer) = req.count \/ (OneByOne /\ checksum_errors > 0)
  /\ IF OneByOne
       THEN Finish(checksum_errors = 0)
       ELSE /\ pc' = IF checksum_errors = 0 THEN "close" ELSE "giveup"
            /\ UNCHANGED <<req, buffer, checksum_errors, answer>>
  /\ UNCHANGED <<driver, step, card, pos, media>>

ReadTimeout ==
  /\ pc = "transfer" /\ req.op = "read" /\ Len(buffer) < req.count
  /\ IF OneByOne
       THEN Finish(FALSE)
       ELSE pc' = "giveup" /\ UNCHANGED <<req, buffer, checksum_errors, answer>>
  /\ UNCHANGED <<driver, step, card, pos, media>>

(* a multiple block read is stopped at once, so is any that failed *)
StopLast ==
  /\ pc \in {"close", "giveup"}
  /\ \E ok \in BOOLEAN : StopTransmission(ok) /\ Finish(ok /\ pc = "close")

(***************************************************************************)
(* Resets and power cuts.                                                  *)
(***************************************************************************)
Restart ==
  /\ m_Status' = "STA_NOINIT" /\ ongoing_wr_mlt_blk' = FALSE /\ wr_mlt_blk_cnt_sector' = 0
  /\ pc' = "off" /\ step' = 1 /\ req' = NoRequest /\ buffer' = <<>> /\ checksum_errors' = 0
  /\ UNCHANGED answer

Reset == Restart /\ UNCHANGED <<card, pos, media>>

(* the block on its way may have been half written *)
PowerCut ==
  /\ Restart
  /\ card' = "idle" /\ pos' = 0
  /\ \/ UNCHANGED media
     \/ /\ pc = "transfer" /\ req.op = "write" /\ Len(buffer) < req.count
        /\ pos \in Sector
        /\ media' = [media EXCEPT ![pos] = Torn]

Next ==
  \/ disk_initialize \/ Initialise
  \/ \E r \in Requests : Ask(r)
  \/ CtrlSync
  \/ StopFirst \/ SendCommand
  \/ WriteBlock \/ Written \/ WriteFails
  \/ ReadBlock
  \/ ReadEnds \/ ReadTimeout \/ StopLast
  \/ Reset \/ PowerCut

Spec == Init /\ [][Next]_vars

(***************************************************************************)
(* Properties.                                                             *)
(***************************************************************************)
Device == INSTANCE BlockDevice WITH request <- req

(* The driver is a block device: what is reported written is at its        *)
(* sectors, what is reported read is what is there, and a request that     *)
(* fails changes no other sector, whatever commands, responses and blocks  *)
(* are lost and whatever the requests before it were.                      *)
IsBlockDevice == Device!Spec

(* The driver's idea of where an open multiple block write stands and the  *)
(* card's never differ, although each request, failure and restart changes *)
(* them separately: no block is sent to another sector than its own.       *)
ContinuesInPlace ==
  /\ pc = "idle" /\ ongoing_wr_mlt_blk => card = "rcv" /\ pos = wr_mlt_blk_cnt_sector
  /\ pc = "transfer" /\ req.op = "write" /\ Len(buffer) < req.count => pos = req.sector + Len(buffer)

(* A card is reported ready only when the last sequence of commands since  *)
(* the restart has brought it from any state to the transfer state; no     *)
(* restart inherits the state that the last one left the card in.          *)
ReadyIsSelected ==
  m_Status = "ready" => card \in {"tran", "rcv", "rcv one", "data"}
=============================================================================
