---------------------------- MODULE SdCardProofs ----------------------------
(***************************************************************************)
(* The SD card driver of SdCard is a block device, for every size of the   *)
(* card and of the requests.  The inductive invariant IInv says how far    *)
(* the start has brought the card (StartOK), what the buffer of the        *)
(* request in progress holds (ProgressOK, WriteOK, ReadOK), and where the  *)
(* card stands while a multiple block write is open (InPlace, WriteOK).    *)
(***************************************************************************)
EXTENDS SdCard, TLAPS

Selected == {"tran", "rcv", "rcv one", "data"}

(* the state of the card when the start is about to send its nth command *)
Reached(n, state) ==
  /\ n = 3 => state = "idle"
  /\ n = 4 => state = "ready"
  /\ n = 5 => state = "ident"
  /\ n \in {6, 7} => state = "stby"
  /\ n \in {8, 9, 10} => state = "tran"

FlagOK == ongoing_wr_mlt_blk \in BOOLEAN

TypesOK ==
  /\ m_Status \in {"STA_NOINIT", "ready"}
  /\ wr_mlt_blk_cnt_sector \in 0 .. Sectors
  /\ pc \in {"off", "idle", "begin", "stop", "command", "transfer", "close", "giveup"}
  /\ step \in 1 .. 10
  /\ card \in CardStates /\ pos \in Nat

DataTypesOK ==
  /\ buffer \in Seq(Content \cup {Bad})
  /\ checksum_errors \in Nat
  /\ answer \in [ok : BOOLEAN, data : Seq(Content \cup {Bad})]
  /\ media \in [Sector -> Content]

RequestOK ==
  /\ pc \in {"off", "idle", "begin"} => req = NoRequest
  /\ pc \notin {"off", "idle", "begin"} => req \in Requests

StartOK ==
  /\ m_Status = "ready" => pc \notin {"off", "begin"} /\ card \in Selected
  /\ m_Status # "ready" => pc \in {"off", "idle", "begin"} /\ ~ongoing_wr_mlt_blk
  /\ pc = "begin" => Reached(step, card)

(* a request that is not a multiple block write has none open *)
InPlace ==
  /\ pc = "idle" /\ ongoing_wr_mlt_blk => card = "rcv" /\ pos = wr_mlt_blk_cnt_sector
  /\ pc = "command" => ~ongoing_wr_mlt_blk
  /\ pc = "transfer" /\ OneByOne => ~ongoing_wr_mlt_blk

ProgressOK ==
  /\ req # NoRequest => Len(buffer) <= req.count /\ req.sector + Len(buffer) <= Sectors
  /\ pc \in {"stop", "command"} /\ req.op = "write" => Len(buffer) = 0
  /\ pc = "close" => req.op = "read" /\ checksum_errors = 0 /\ Len(buffer) = req.count

WriteOK ==
  /\ pc = "transfer" /\ req.op = "write" =>
       pos = req.sector + Len(buffer) /\ (~OneByOne => card = "rcv")
  /\ req.op = "write" => \A i \in 1 .. Len(buffer) : media[req.sector + i - 1] = req.data[i]

ReadOK ==
  req.op = "read" /\ checksum_errors = 0 =>
    \A i \in 1 .. Len(buffer) : buffer[i] = media[req.sector + i - 1]

IInv ==
  /\ FlagOK /\ TypesOK /\ DataTypesOK /\ RequestOK /\ StartOK
  /\ InPlace /\ ProgressOK /\ WriteOK /\ ReadOK

-----------------------------------------------------------------------------
(* Helpers. *)
LEMMA RequestFacts ==
  ASSUME NEW r \in Requests
  PROVE  /\ r.op \in {"read", "write"}
         /\ r.sector \in Sector /\ r.count \in Nat /\ r.count >= 1
         /\ r.data \in Seq(Data)
         /\ r.op = "write" => r.data \in [1 .. r.count -> Data] /\ Len(r.data) = r.count
         /\ r # NoRequest
         /\ r \in [op : {"read", "write"}, sector : 0 .. Sectors - 1, count : Nat, data : Seq(Data)]
<1> USE SectorsAssumption, BatchAssumption
<1>1. CASE r \in {[op |-> "read", sector |-> s, count |-> n, data |-> <<>>] : s \in Sector, n \in 1 .. MaxBatch}
  <2>1. PICK s \in Sector, n \in 1 .. MaxBatch :
          r = [op |-> "read", sector |-> s, count |-> n, data |-> <<>>]
    BY <1>1
  <2>2. /\ r.op = "read" /\ r.sector \in Sector /\ r.count \in Nat /\ r.count >= 1
        /\ r.data = <<>>
    BY <2>1
  <2>3. r.data \in Seq(Data)
    BY <2>2
  <2>4. r # NoRequest
    BY <2>2 DEF NoRequest
  <2>5. r \in [op : {"read", "write"}, sector : 0 .. Sectors - 1, count : Nat, data : Seq(Data)]
    BY <2>1, <2>2, <2>3 DEF Sector
  <2> QED BY <2>2, <2>3, <2>4, <2>5
<1>2. CASE r \in UNION {[op : {"write"}, sector : Sector, count : {n}, data : [1 .. n -> Data]] : n \in 1 .. MaxBatch}
  <2>1. PICK n \in 1 .. MaxBatch :
          r \in [op : {"write"}, sector : Sector, count : {n}, data : [1 .. n -> Data]]
    BY <1>2
  <2>2. /\ n \in Nat /\ n >= 1 /\ r.op = "write" /\ r.sector \in Sector /\ r.count = n
        /\ r.data \in [1 .. n -> Data]
    BY <2>1
  <2>3. r.data \in Seq(Data) /\ Len(r.data) = n
    BY <2>2
  <2>4. r # NoRequest
    BY <2>2 DEF NoRequest
  <2>5. r \in [op : {"read", "write"}, sector : 0 .. Sectors - 1, count : Nat, data : Seq(Data)]
    BY <2>1, <2>2, <2>3 DEF Sector
  <2> QED BY <2>2, <2>3, <2>4, <2>5
<1> QED BY <1>1, <1>2 DEF Requests

(* A request in progress, with the facts about it at hand. *)
LEMMA InProgress ==
  ASSUME RequestOK, pc \notin {"off", "idle", "begin"}
  PROVE  /\ req \in Requests /\ req # NoRequest
         /\ req.op \in {"read", "write"}
         /\ req.sector \in Nat /\ req.count \in Nat /\ req.count >= 1
         /\ req.sector <= Sectors
         /\ req.op = "write" => req.data \in [1 .. req.count -> Data]
BY RequestFacts, SectorsAssumption DEF RequestOK, Sector

LEMMA CommandTypes ==
  ASSUME NEW cmd, NEW sector \in Nat, NEW ok \in BOOLEAN,
         card \in CardStates, pos \in Nat, Command(cmd, sector, ok)
  PROVE  /\ card' \in CardStates /\ pos' \in Nat
         /\ cmd \notin {"CMD24", "CMD25"} => pos' = pos
BY DEF Command, Accept, CardStates

(* Commands of a request keep the card selected. *)
LEMMA CommandSelected ==
  ASSUME NEW cmd \in {"CMD12", "CMD17", "CMD18", "CMD24", "CMD25"}, NEW sector \in Nat,
         NEW ok \in BOOLEAN, card \in Selected, Command(cmd, sector, ok)
  PROVE  card' \in Selected
BY DEF Command, Accept, Selected

(* What the end of a request leaves to show. *)
LEMMA FinishOK ==
  ASSUME NEW ok \in BOOLEAN, IInv, FlagOK', TypesOK', Finish(ok), m_Status' = "ready",
         media' \in [Sector -> Content], card' \in Selected,
         ongoing_wr_mlt_blk' => card' = "rcv" /\ pos' = wr_mlt_blk_cnt_sector'
  PROVE  IInv'
<1>1. DataTypesOK'
  <2>1. answer' \in [ok : BOOLEAN, data : Seq(Content \cup {Bad})]
    BY DEF Finish, IInv, DataTypesOK
  <2> QED BY <2>1 DEF Finish, DataTypesOK
<1>2. RequestOK'
  BY DEF Finish, RequestOK
<1>3. StartOK'
  BY DEF Finish, StartOK
<1>4. InPlace'
  BY DEF Finish, InPlace
<1>5. ProgressOK' /\ WriteOK' /\ ReadOK'
  BY DEF Finish, ProgressOK, WriteOK, ReadOK, NoRequest
<1> QED BY <1>1, <1>2, <1>3, <1>4, <1>5 DEF IInv

(* Restarts forget the request and the open write. *)
LEMMA RestartOK ==
  ASSUME IInv, Restart, card' \in CardStates, pos' \in Nat, media' \in [Sector -> Content]
  PROVE  IInv'
<1> USE SectorsAssumption
<1>0. FlagOK'
  BY DEF Restart, FlagOK
<1>1. TypesOK'
  BY DEF Restart, IInv, TypesOK
<1>2. DataTypesOK'
  BY DEF Restart, IInv, DataTypesOK
<1>3. RequestOK' /\ StartOK' /\ InPlace'
  BY DEF Restart, RequestOK, StartOK, InPlace
<1>4. ProgressOK' /\ WriteOK' /\ ReadOK'
  BY DEF Restart, ProgressOK, WriteOK, ReadOK, NoRequest
<1> QED BY <1>0, <1>1, <1>2, <1>3, <1>4 DEF IInv

LEMMA InitOK == Init => IInv /\ Device!Init
<1> SUFFICES ASSUME Init PROVE IInv /\ Device!Init
  OBVIOUS
<1> USE SectorsAssumption
<1>0. FlagOK
  BY DEF Init, FlagOK
<1>1. TypesOK
  BY DEF Init, TypesOK, CardStates
<1>2. DataTypesOK
  BY DEF Init, DataTypesOK, Content
<1>3. RequestOK /\ StartOK /\ InPlace
  BY DEF Init, RequestOK, StartOK, InPlace
<1>4. ProgressOK /\ WriteOK /\ ReadOK
  BY DEF Init, ProgressOK, WriteOK, ReadOK, NoRequest
<1>5. Device!Init
  BY DEF Init, Device!Init, Device!NoRequest, NoRequest, Sector
<1> QED BY <1>0, <1>1, <1>2, <1>3, <1>4, <1>5 DEF IInv

-----------------------------------------------------------------------------
(* The steps, each with what it is to the block device. *)
DeviceSame == UNCHANGED <<media, req, answer>>

(* A command of the start that is answered brings the card a step further. *)
LEMMA Sequence ==
  ASSUME NEW n \in 1 .. 10
  PROVE  /\ Len(Begin) = 10
         /\ Begin[n] = "CMD0" <=> n = 1
         /\ Begin[n] = "CMD8" <=> n = 2
         /\ Begin[n] = "ACMD41" <=> n = 3
         /\ Begin[n] = "CMD2" <=> n = 4
         /\ Begin[n] = "CMD3" <=> n = 5
         /\ Begin[n] = "CMD9" <=> n = 6
         /\ Begin[n] = "CMD7" <=> n = 7
         /\ n \in {8, 9, 10} => Begin[n] \in {"ACMD42", "ACMD6", "CMD16"}
<1>1. /\ Begin[1] = "CMD0" /\ Begin[2] = "CMD8" /\ Begin[3] = "ACMD41" /\ Begin[4] = "CMD2"
      /\ Begin[5] = "CMD3" /\ Begin[6] = "CMD9" /\ Begin[7] = "CMD7" /\ Begin[8] = "ACMD42"
      /\ Begin[9] = "ACMD6" /\ Begin[10] = "CMD16" /\ Len(Begin) = 10
  BY DEF Begin
<1>2. n \in {1, 2, 3, 4, 5, 6, 7, 8, 9, 10}
  OBVIOUS
<1> QED BY <1>1, <1>2

LEMMA Further ==
  ASSUME NEW n \in 2 .. 10, Reached(n, card), Accept(Begin[n], 0)
  PROVE  Reached(n + 1, card') /\ (n = 10 => card' = "tran")
<1>1. n \in 1 .. 10
  OBVIOUS
<1>2. n = 2 => card' = "idle"
  BY <1>1, Sequence DEF Accept, Reached
<1>3. n = 3 => card' = "ready"
  BY <1>1, Sequence DEF Accept, Reached
<1>4. n = 4 => card' = "ident"
  BY <1>1, Sequence DEF Accept, Reached
<1>5. n \in {5, 6} => card' = "stby"
  BY <1>1, Sequence DEF Accept, Reached
<1>6. n \in {7, 8, 9, 10} => card' = "tran"
  BY <1>1, Sequence DEF Accept, Reached
<1> QED BY <1>2, <1>3, <1>4, <1>5, <1>6 DEF Reached

LEMMA StartSteps ==
  ASSUME IInv, disk_initialize \/ Initialise
  PROVE  IInv' /\ DeviceSame
<1>1. /\ pc \in {"off", "idle", "begin"} /\ pc' \in {"off", "idle", "begin"}
      /\ UNCHANGED <<ongoing_wr_mlt_blk, wr_mlt_blk_cnt_sector, req, buffer,
                     checksum_errors, answer, media>>
  BY DEF disk_initialize, Initialise, BeginCommand, driver
<1>2. /\ m_Status = "STA_NOINIT" /\ ~ongoing_wr_mlt_blk /\ req = NoRequest
  BY DEF IInv, TypesOK, StartOK, RequestOK, disk_initialize, Initialise, BeginCommand
<1>3. DataTypesOK' /\ RequestOK' /\ FlagOK'
  BY <1>1, <1>2 DEF IInv, DataTypesOK, RequestOK, FlagOK
<1>4. InPlace' /\ ProgressOK' /\ WriteOK' /\ ReadOK'
  BY <1>1, <1>2 DEF InPlace, ProgressOK, WriteOK, ReadOK, NoRequest
<1>5. CASE disk_initialize
  BY <1>1, <1>2, <1>3, <1>4, <1>5
  DEF disk_initialize, driver, IInv, TypesOK, StartOK, Reached, DeviceSame
<1>6. CASE Initialise
  <2>1. PICK ok \in BOOLEAN : Command(Begin[step], 0, ok)
    BY <1>6 DEF Initialise, BeginCommand
  <2>2. /\ card' \in CardStates /\ pos' \in Nat
    BY <2>1, CommandTypes DEF IInv, TypesOK
  <2>3. step \in 1 .. 10 /\ Reached(step, card)
    BY <1>6 DEF Initialise, BeginCommand, IInv, StartOK, TypesOK
  <2>4. pc = "begin"
    BY <1>6 DEF Initialise, BeginCommand
  <2>6. \/ pc' = "idle" /\ m_Status' = m_Status /\ step' = step
        \/ pc' = "begin" /\ m_Status' = m_Status /\ step' \in {1, 2}
        \/ /\ Accept(Begin[step], 0) /\ step \in 2 .. 10
           /\ \/ pc' = "begin" /\ m_Status' = m_Status /\ step < 10 /\ step' = step + 1
              \/ pc' = "idle" /\ m_Status' = "ready" /\ step = 10 /\ step' = step
    <3>1. PICK ok1 \in BOOLEAN :
            /\ Command(Begin[step], 0, ok1)
            /\ \/ ~ok1 /\ Begin[step] = "CMD8" /\ step' = 1 /\ UNCHANGED <<m_Status, pc>>
               \/ ~ok1 /\ Begin[step] # "CMD0" /\ pc' = "idle" /\ UNCHANGED <<m_Status, step>>
               \/ /\ ok1 \/ Begin[step] = "CMD0"
                  /\ \/ step = 10 /\ m_Status' = "ready" /\ pc' = "idle" /\ UNCHANGED step
                     \/ step # 10 /\ step' = step + 1 /\ UNCHANGED <<m_Status, pc>>
      BY <1>6, <2>3, Sequence DEF Initialise, BeginCommand
    <3>2. Begin[step] = "CMD0" => step = 1
      BY <2>3, Sequence
    <3>3. ok1 => Accept(Begin[step], 0)
      BY <3>1 DEF Command
    <3> QED BY <3>1, <3>2, <3>3, <2>3, <2>4
  <2>7. StartOK' /\ TypesOK'
    <3>1. CASE pc' = "idle" /\ m_Status' = m_Status /\ step' = step
      BY <3>1, <2>2, <2>3, <1>1, <1>2 DEF StartOK, TypesOK, IInv
    <3>2. CASE pc' = "begin" /\ m_Status' = m_Status /\ step' \in {1, 2}
      BY <3>2, <2>2, <1>1, <1>2 DEF StartOK, TypesOK, IInv, Reached
    <3>3. CASE /\ Accept(Begin[step], 0) /\ step \in 2 .. 10
               /\ pc' = "begin" /\ m_Status' = m_Status /\ step < 10 /\ step' = step + 1
      <4>1. Reached(step', card')
        BY <3>3, <2>3, Further
      <4> QED BY <4>1, <3>3, <2>2, <1>1, <1>2 DEF StartOK, TypesOK, IInv
    <3>4. CASE /\ Accept(Begin[step], 0)
               /\ pc' = "idle" /\ m_Status' = "ready" /\ step = 10 /\ step' = step
      <4>1. card' = "tran"
        BY <3>4, <2>3, Further
      <4> QED BY <4>1, <3>4, <2>2, <1>1, <1>2 DEF StartOK, TypesOK, IInv, Selected
    <3> QED BY <2>6, <3>1, <3>2, <3>3, <3>4
  <2> QED BY <1>1, <1>3, <1>4, <2>7 DEF IInv, DeviceSame
<1> QED BY <1>5, <1>6

LEMMA AskStep ==
  ASSUME NEW r \in Requests, IInv, Ask(r)
  PROVE  IInv' /\ Device!Ask
<1> USE SectorsAssumption
<1>1. /\ r.op \in {"read", "write"} /\ r.sector \in Nat /\ r.count \in Nat /\ r.count >= 1
      /\ r.sector <= Sectors /\ r # NoRequest
  BY RequestFacts DEF Sector
<1>2. /\ pc = "idle" /\ m_Status = "ready" /\ req = NoRequest /\ req' = r
      /\ pc' \in {"transfer", "stop", "command"} /\ buffer' = <<>> /\ checksum_errors' = 0
      /\ UNCHANGED <<m_Status, ongoing_wr_mlt_blk, wr_mlt_blk_cnt_sector, step, answer, card, pos, media>>
  BY DEF Ask, driver, IInv, RequestOK
<1>3. FlagOK' /\ DataTypesOK'
  BY <1>2 DEF IInv, FlagOK, DataTypesOK
<1>4. TypesOK' /\ RequestOK' /\ StartOK'
  BY <1>1, <1>2 DEF IInv, TypesOK, RequestOK, StartOK
<1>5. InPlace'
  <2>1. pc' = "command" => ~ongoing_wr_mlt_blk
    BY DEF Ask
  <2>2. pc' = "transfer" => r.op = "write" /\ r.count > 1
    BY DEF Ask, Continues
  <2>3. pc' = "transfer" => ~OneByOne'
    BY <1>1, <1>2, <2>2 DEF OneByOne
  <2> QED BY <1>2, <2>1, <2>3 DEF InPlace
<1>6. ProgressOK' /\ ReadOK'
  BY <1>1, <1>2 DEF ProgressOK, ReadOK
<1>7. WriteOK'
  <2>1. pc' = "transfer" => ongoing_wr_mlt_blk /\ r.sector = wr_mlt_blk_cnt_sector
    BY DEF Ask, Continues
  <2>2. pc' = "transfer" => card = "rcv" /\ pos = r.sector
    BY <1>2, <2>1 DEF IInv, InPlace
  <2>3. Len(buffer') = 0
    BY <1>2
  <2> QED BY <1>1, <1>2, <2>2, <2>3 DEF WriteOK
<1>8. Device!Ask
  <2>1. r \in [op : {"read", "write"}, sector : 0 .. Sectors - 1, count : Nat, data : Seq(Data)]
    BY RequestFacts
  <2>2. r.op = "write" => Len(r.data) = r.count
    BY RequestFacts
  <2> QED BY <1>2, <2>1, <2>2 DEF Device!Ask, Device!NoRequest, NoRequest
<1> QED BY <1>3, <1>4, <1>5, <1>6, <1>7, <1>8 DEF IInv

(* A request that fails without another write to the card. *)
LEMMA FailureMaps ==
  ASSUME req # NoRequest, Finish(FALSE), UNCHANGED media
  PROVE  Device!Failed
BY DEF Finish, Device!Failed, Device!NoRequest, NoRequest

(* What the commands of requests do to the types. *)
LEMMA CommandTypesOK ==
  ASSUME IInv, NEW cmd, NEW sector \in Nat, NEW ok \in BOOLEAN, Command(cmd, sector, ok),
         UNCHANGED <<m_Status, wr_mlt_blk_cnt_sector, step>>,
         pc' \in {"idle", "stop", "command", "transfer", "close", "giveup"}
  PROVE  TypesOK'
<1>1. card' \in CardStates /\ pos' \in Nat
  BY CommandTypes DEF IInv, TypesOK
<1> QED BY <1>1 DEF IInv, TypesOK

LEMMA StopFirstStep ==
  ASSUME IInv, StopFirst
  PROVE  IInv' /\ (DeviceSame \/ Device!Failed)
<1>1. /\ pc = "stop" /\ m_Status = "ready" /\ m_Status' = m_Status /\ media' = media
      /\ ~ongoing_wr_mlt_blk' /\ card \in Selected /\ req # NoRequest
      /\ UNCHANGED <<wr_mlt_blk_cnt_sector, step>> /\ pc' \in {"command", "idle"}
  BY InProgress DEF StopFirst, StopTransmission, Finish, IInv, StartOK
<1>2. PICK ok \in BOOLEAN : Command("CMD12", 0, ok)
  BY DEF StopFirst, StopTransmission
<1>3. TypesOK' /\ FlagOK' /\ card' \in Selected
  <2>1. FlagOK'
    BY DEF StopFirst, StopTransmission, FlagOK
  <2>2. TypesOK'
    BY <1>1, <1>2, CommandTypesOK
  <2>3. card' \in Selected
    BY <1>1, <1>2, CommandSelected
  <2> QED BY <2>1, <2>2, <2>3
<1>4. CASE pc' = "command" /\ UNCHANGED <<req, buffer, checksum_errors, answer>>
  <2>1. DataTypesOK' /\ RequestOK' /\ StartOK'
    BY <1>1, <1>3, <1>4 DEF IInv, DataTypesOK, RequestOK, StartOK
  <2>2. InPlace' /\ ProgressOK' /\ WriteOK' /\ ReadOK'
    BY <1>1, <1>4 DEF IInv, InPlace, ProgressOK, WriteOK, ReadOK
  <2> QED BY <1>1, <1>3, <1>4, <2>1, <2>2 DEF IInv, DeviceSame
<1>5. CASE Finish(FALSE)
  <2>1. IInv'
    BY <1>1, <1>3, <1>5, FinishOK DEF IInv, DataTypesOK
  <2> QED BY <1>1, <1>5, <2>1, FailureMaps
<1> QED BY <1>4, <1>5 DEF StopFirst

LEMMA SyncStep ==
  ASSUME IInv, CtrlSync
  PROVE  IInv' /\ DeviceSame
<1>1. PICK ok \in BOOLEAN : StopTransmission(ok)
  BY DEF CtrlSync
<1>2. /\ pc = "idle" /\ m_Status = "ready" /\ ~ongoing_wr_mlt_blk' /\ card \in Selected
      /\ UNCHANGED <<pc, req, buffer, checksum_errors, answer, m_Status,
                     wr_mlt_blk_cnt_sector, step, media>>
  BY <1>1 DEF CtrlSync, StopTransmission, IInv, StartOK, TypesOK
<1>3. FlagOK'
  BY <1>1 DEF StopTransmission, FlagOK
<1>4. TypesOK' /\ card' \in Selected
  BY <1>1, <1>2, CommandTypesOK, CommandSelected DEF StopTransmission
<1>5. DataTypesOK' /\ RequestOK' /\ StartOK'
  BY <1>2, <1>4 DEF IInv, DataTypesOK, RequestOK, StartOK
<1>6. InPlace' /\ ProgressOK' /\ WriteOK' /\ ReadOK'
  BY <1>2 DEF IInv, RequestOK, NoRequest, InPlace, ProgressOK, WriteOK, ReadOK
<1> QED BY <1>2, <1>3, <1>4, <1>5, <1>6 DEF IInv, DeviceSame

LEMMA SendStep ==
  ASSUME IInv, SendCommand
  PROVE  IInv' /\ (DeviceSame \/ Device!Failed)
<1>1. /\ pc = "command" /\ m_Status = "ready" /\ card \in Selected /\ req # NoRequest
      /\ ~ongoing_wr_mlt_blk /\ pc' \in {"transfer", "idle"}
      /\ UNCHANGED <<m_Status, ongoing_wr_mlt_blk, wr_mlt_blk_cnt_sector, step, media>>
  BY InProgress DEF SendCommand, Finish, driver, IInv, StartOK, InPlace
<1>2. /\ req.sector \in Nat /\ Len(buffer) \in Nat /\ req.sector + Len(buffer) \in Nat
      /\ req.op \in {"read", "write"} /\ req \in Requests
  BY <1>1, InProgress DEF IInv, DataTypesOK
<1>3. PICK ok \in BOOLEAN : Command(CommandOf, req.sector + Len(buffer), ok)
  BY DEF SendCommand
<1>4. TypesOK' /\ FlagOK' /\ card' \in Selected
  <2>1. FlagOK'
    BY <1>1 DEF IInv, FlagOK
  <2>2. TypesOK'
    BY <1>1, <1>2, <1>3, CommandTypesOK
  <2>3. CommandOf \in {"CMD12", "CMD17", "CMD18", "CMD24", "CMD25"}
    BY DEF CommandOf
  <2>4. card' \in Selected
    BY <1>1, <1>2, <1>3, <2>3, CommandSelected
  <2> QED BY <2>1, <2>2, <2>4
<1>5. CASE /\ Command(CommandOf, req.sector + Len(buffer), TRUE) /\ pc' = "transfer"
           /\ UNCHANGED <<req, buffer, checksum_errors, answer>>
  <2>1. DataTypesOK' /\ RequestOK' /\ StartOK'
    BY <1>1, <1>4, <1>5 DEF IInv, DataTypesOK, RequestOK, StartOK
  <2>2. InPlace' /\ ProgressOK' /\ ReadOK'
    BY <1>1, <1>5 DEF IInv, InPlace, ProgressOK, ReadOK
  <2>3. Accept(CommandOf, req.sector + Len(buffer))
    BY <1>5 DEF Command
  <2>4. req.op = "write" => pos' = req.sector + Len(buffer) /\ (~OneByOne => card' = "rcv")
    BY <2>3 DEF Accept, CommandOf
  <2>5. OneByOne' = OneByOne
    BY <1>5 DEF OneByOne
  <2>6. WriteOK'
    BY <1>1, <1>5, <2>4, <2>5 DEF IInv, WriteOK
  <2> QED BY <1>1, <1>4, <1>5, <2>1, <2>2, <2>6 DEF IInv, DeviceSame
<1>6. CASE Finish(FALSE)
  <2>1. IInv'
    BY <1>1, <1>4, <1>6, FinishOK DEF IInv, DataTypesOK
  <2> QED BY <1>1, <1>6, <2>1, FailureMaps
<1> QED BY <1>5, <1>6 DEF SendCommand

(* A block the card takes is at its own sector. *)
LEMMA StoreFacts ==
  ASSUME IInv, pc = "transfer", req.op = "write", Len(buffer) < req.count,
         Store(req.data[Len(buffer) + 1])
  PROVE  /\ pos \in Sector /\ pos = req.sector + Len(buffer) /\ pos' = pos + 1
         /\ media' \in [Sector -> Content]
         /\ card' \in Selected /\ card' \in CardStates /\ (card = "rcv" => card' = "rcv")
         /\ \A i \in 1 .. Len(buffer) + 1 : media'[req.sector + i - 1] = req.data[i]
         /\ Device!Put(pos, Device!At(req, pos))
<1> USE SectorsAssumption
<1>1. /\ req \in Requests /\ req.sector \in Nat /\ req.count \in Nat
      /\ req.data \in [1 .. req.count -> Data] /\ Len(buffer) \in Nat
  BY InProgress DEF IInv, DataTypesOK
<1>2. pos = req.sector + Len(buffer) /\ pos \in Sector
  BY DEF IInv, WriteOK, Store
<1>3. req.data[Len(buffer) + 1] \in Data
  BY <1>1
<1>4. /\ media \in [Sector -> Content]
      /\ media' = [media EXCEPT ![pos] = req.data[Len(buffer) + 1]]
      /\ pos' = pos + 1
  BY DEF Store, IInv, DataTypesOK
<1>5. media' \in [Sector -> Content]
  BY <1>3, <1>4 DEF Content
<1>6. card' \in {"rcv", "tran"} /\ (card = "rcv" => card' = "rcv")
  BY DEF Store
<1>7. ASSUME NEW i \in 1 .. Len(buffer) + 1
      PROVE  media'[req.sector + i - 1] = req.data[i]
  <2>1. req.sector + i - 1 \in Sector
    BY <1>1, <1>2 DEF Sector
  <2>2. CASE i = Len(buffer) + 1
    <3>1. req.sector + i - 1 = pos
      BY <1>1, <1>2, <2>2
    <3> QED BY <1>2, <1>4, <2>2, <3>1
  <2>3. CASE i \in 1 .. Len(buffer)
    <3>1. req.sector + i - 1 # pos
      BY <1>1, <1>2, <2>3
    <3>2. media'[req.sector + i - 1] = media[req.sector + i - 1]
      BY <1>4, <2>1, <3>1
    <3>3. media[req.sector + i - 1] = req.data[i]
      BY <2>3 DEF IInv, WriteOK
    <3> QED BY <3>2, <3>3
  <2> QED BY <1>1, <2>2, <2>3
<1>8. Device!Put(pos, Device!At(req, pos))
  <2>1. pos \in req.sector .. req.sector + req.count - 1
    BY <1>1, <1>2
  <2>2. pos - req.sector + 1 = Len(buffer) + 1
    BY <1>1, <1>2
  <2> QED BY <1>4, <2>1, <2>2 DEF Device!Put, Device!Covers, Device!At
<1> QED BY <1>2, <1>4, <1>5, <1>6, <1>7, <1>8 DEF Selected, CardStates

LEMMA WriteBlockStep ==
  ASSUME IInv, WriteBlock
  PROVE  IInv' /\ \E s \in 0 .. Sectors - 1 : Device!WriteSector(s)
<1>1. /\ pc = "transfer" /\ req.op = "write" /\ Len(buffer) < req.count
      /\ Store(req.data[Len(buffer) + 1])
      /\ buffer' = Append(buffer, req.data[Len(buffer) + 1])
      /\ UNCHANGED <<m_Status, ongoing_wr_mlt_blk, wr_mlt_blk_cnt_sector, pc, step, req,
                     checksum_errors, answer>>
  BY DEF WriteBlock, driver
<1>2. /\ pos \in Sector /\ pos = req.sector + Len(buffer) /\ pos' = pos + 1
      /\ media' \in [Sector -> Content]
      /\ card' \in Selected /\ card' \in CardStates /\ (card = "rcv" => card' = "rcv")
      /\ \A i \in 1 .. Len(buffer) + 1 : media'[req.sector + i - 1] = req.data[i]
      /\ Device!Put(pos, Device!At(req, pos))
  BY <1>1, StoreFacts
<1>3. /\ req.sector \in Nat /\ req.count \in Nat /\ Len(buffer) \in Nat
      /\ req.data \in [1 .. req.count -> Data] /\ req # NoRequest
  BY <1>1, InProgress DEF IInv, DataTypesOK
<1>4. buffer' \in Seq(Content \cup {Bad}) /\ Len(buffer') = Len(buffer) + 1
  <2>1. req.data[Len(buffer) + 1] \in Content \cup {Bad}
    BY <1>1, <1>3 DEF Content
  <2> QED BY <1>1, <2>1 DEF IInv, DataTypesOK
<1>5. FlagOK'
  BY <1>1 DEF IInv, FlagOK
<1>6. TypesOK'
  BY <1>1, <1>2 DEF IInv, TypesOK, Sector
<1>7. DataTypesOK' /\ RequestOK' /\ StartOK'
  BY <1>1, <1>2, <1>4 DEF IInv, DataTypesOK, RequestOK, StartOK
<1>8. OneByOne' = OneByOne
  BY <1>1 DEF OneByOne
<1>9. InPlace' /\ ProgressOK' /\ ReadOK'
  <2>1. req.sector + Len(buffer') <= Sectors
    BY <1>2, <1>3, <1>4, SectorsAssumption DEF Sector
  <2> QED BY <1>1, <1>3, <1>4, <1>8, <2>1 DEF IInv, InPlace, ProgressOK, ReadOK
<1>10. WriteOK'
  BY <1>1, <1>2, <1>3, <1>4, <1>8 DEF IInv, WriteOK
<1>11. Device!WriteSector(pos) /\ pos \in 0 .. Sectors - 1
  BY <1>1, <1>2 DEF Device!WriteSector, Sector
<1> QED BY <1>5, <1>6, <1>7, <1>9, <1>10, <1>11 DEF IInv

LEMMA WrittenStep ==
  ASSUME IInv, Written
  PROVE  IInv' /\ Device!Done
<1> USE SectorsAssumption
<1>1. /\ pc = "transfer" /\ req.op = "write" /\ Len(buffer) = req.count /\ Finish(TRUE)
      /\ UNCHANGED <<m_Status, step, card, pos, media>>
      /\ m_Status = "ready" /\ card \in Selected
  BY DEF Written, IInv, StartOK
<1>2. /\ req.sector \in Nat /\ req.count \in Nat /\ req.sector + req.count <= Sectors
      /\ req # NoRequest
  BY <1>1, InProgress DEF IInv, ProgressOK
<1>3. wr_mlt_blk_cnt_sector' \in 0 .. Sectors /\ FlagOK'
  <2>1. wr_mlt_blk_cnt_sector' \in {wr_mlt_blk_cnt_sector, req.sector + req.count}
    BY DEF Written
  <2>2. FlagOK'
    BY DEF Written, IInv, FlagOK
  <2> QED BY <1>2, <2>1, <2>2 DEF IInv, TypesOK
<1>4. ongoing_wr_mlt_blk' => card' = "rcv" /\ pos' = wr_mlt_blk_cnt_sector'
  BY <1>1 DEF Written, IInv, InPlace, WriteOK
<1>5. TypesOK'
  BY <1>1, <1>3 DEF Finish, IInv, TypesOK
<1>6. IInv'
  BY <1>1, <1>3, <1>4, <1>5, FinishOK DEF IInv, DataTypesOK
<1>7. Device!Done
  <2>1. ASSUME NEW s \in 0 .. Sectors - 1, Device!Covers(req, s)
        PROVE  media[s] = Device!At(req, s)
    <3>1. s - req.sector + 1 \in 1 .. Len(buffer) /\ req.sector + (s - req.sector + 1) - 1 = s
      BY <1>1, <1>2, <2>1 DEF Device!Covers
    <3> QED BY <1>1, <3>1 DEF IInv, WriteOK, Device!At
  <2> QED BY <1>1, <1>2, <2>1 DEF Finish, Device!Done, Device!NoRequest, NoRequest
<1> QED BY <1>6, <1>7

LEMMA WriteFailsStep ==
  ASSUME IInv, WriteFails
  PROVE  IInv' /\ (Device!Next \/ DeviceSame)
<1> USE SectorsAssumption
<1>1. /\ pc = "transfer" /\ req.op = "write" /\ Len(buffer) < req.count
      /\ UNCHANGED <<m_Status, ongoing_wr_mlt_blk, wr_mlt_blk_cnt_sector, step>>
      /\ m_Status = "ready" /\ card \in Selected /\ pc' \in {"idle", "giveup"}
  BY DEF WriteFails, Finish, driver, IInv, StartOK
<1>2. req # NoRequest /\ Len(buffer) \in Nat
  BY <1>1, InProgress DEF IInv, DataTypesOK
<1>3. \/ /\ pos \in Sector /\ pos' = pos + 1 /\ Device!Put(pos, Device!At(req, pos))
         /\ media' \in [Sector -> Content] /\ card' \in Selected /\ card' \in CardStates
         /\ \A i \in 1 .. Len(buffer) : media'[req.sector + i - 1] = req.data[i]
      \/ /\ UNCHANGED <<pos, media>> /\ card' \in Selected /\ card' \in CardStates
  <2>1. CASE Store(req.data[Len(buffer) + 1])
    BY <1>1, <1>2, <2>1, StoreFacts
  <2>2. CASE card' \in {card, IF card = "rcv one" THEN "tran" ELSE card} /\ UNCHANGED <<pos, media>>
    BY <1>1, <2>2 DEF IInv, TypesOK, Selected, CardStates
  <2> QED BY <2>1, <2>2 DEF WriteFails
<1>4. FlagOK' /\ media' \in [Sector -> Content]
  BY <1>1, <1>3 DEF IInv, FlagOK, DataTypesOK
<1>5. TypesOK'
  BY <1>1, <1>3 DEF IInv, TypesOK, Sector
<1>6. CASE OneByOne /\ Finish(FALSE)
  <2>1. ~ongoing_wr_mlt_blk'
    BY <1>1, <1>6 DEF IInv, InPlace
  <2>2. IInv'
    BY <1>1, <1>3, <1>4, <1>5, <1>6, <2>1, FinishOK
  <2>3. Device!Failed
    BY <1>2, <1>3, <1>6 DEF Finish, Device!Failed, Device!NoRequest, NoRequest, Sector
  <2> QED BY <2>2, <2>3 DEF Device!Next
<1>7. CASE pc' = "giveup" /\ UNCHANGED <<req, buffer, checksum_errors, answer>>
  <2>1. DataTypesOK' /\ RequestOK' /\ StartOK'
    BY <1>1, <1>3, <1>4, <1>7 DEF IInv, DataTypesOK, RequestOK, StartOK
  <2>2. InPlace' /\ ProgressOK' /\ ReadOK'
    BY <1>1, <1>7 DEF IInv, InPlace, ProgressOK, ReadOK
  <2>3. WriteOK'
    BY <1>1, <1>3, <1>7 DEF IInv, WriteOK
  <2>4. Device!Next \/ DeviceSame
    BY <1>3, <1>7 DEF Device!Next, Device!WriteSector, DeviceSame, Sector
  <2> QED BY <1>4, <1>5, <2>1, <2>2, <2>3, <2>4 DEF IInv
<1> QED BY <1>6, <1>7 DEF WriteFails

LEMMA ReadBlockStep ==
  ASSUME IInv, ReadBlock
  PROVE  IInv' /\ DeviceSame
<1> USE SectorsAssumption, DataAssumption
<1>1. /\ pc = "transfer" /\ req.op = "read" /\ Len(buffer) < req.count
      /\ UNCHANGED <<m_Status, ongoing_wr_mlt_blk, wr_mlt_blk_cnt_sector, step, req, answer,
                     card, pos, media>>
      /\ pc' \in {"command", "transfer"} /\ (pc' = "command" => OneByOne)
  BY DEF ReadBlock, driver
<1>2. /\ req.sector \in Nat /\ req.count \in Nat
      /\ req # NoRequest /\ Len(buffer) \in Nat
  BY <1>1, InProgress DEF IInv, DataTypesOK
<1>3. PICK content \in {Bad, media[req.sector + Len(buffer)]} :
        buffer' = Append(buffer, content) /\ checksum_errors' = ErrorsAfter(content)
  BY DEF ReadBlock
<1>4. req.sector + Len(buffer) \in Sector
  BY DEF ReadBlock
<1>5. media[req.sector + Len(buffer)] \in Content
  BY <1>4 DEF IInv, DataTypesOK
<1>6. /\ content \in Content \cup {Bad}
      /\ buffer' \in Seq(Content \cup {Bad}) /\ Len(buffer') = Len(buffer) + 1
      /\ \A i \in 1 .. Len(buffer) : buffer'[i] = buffer[i]
      /\ buffer'[Len(buffer) + 1] = content
  BY <1>3, <1>5 DEF IInv, DataTypesOK
<1>7. /\ checksum_errors \in Nat /\ checksum_errors' \in Nat
      /\ checksum_errors' = 0 =>
           checksum_errors = 0 /\ content = media[req.sector + Len(buffer)]
  BY <1>3, <1>6 DEF IInv, DataTypesOK, ErrorsAfter
<1>8. FlagOK'
  BY <1>1 DEF IInv, FlagOK
<1>9. TypesOK' /\ DataTypesOK' /\ RequestOK' /\ StartOK'
  BY <1>1, <1>6, <1>7 DEF IInv, TypesOK, DataTypesOK, RequestOK, StartOK
<1>10. OneByOne' = OneByOne
  BY <1>1 DEF OneByOne
<1>11. InPlace'
  BY <1>1, <1>10 DEF IInv, InPlace
<1>12. ProgressOK' /\ WriteOK'
  <2>1. req.sector + Len(buffer') <= Sectors
    BY <1>2, <1>4, <1>6 DEF Sector
  <2> QED BY <1>1, <1>2, <1>6, <2>1 DEF ProgressOK, WriteOK
<1>13. ReadOK'
  <2>1. ASSUME checksum_errors' = 0, NEW i \in 1 .. Len(buffer')
        PROVE  buffer'[i] = media'[req'.sector + i - 1]
    <3>1. CASE i = Len(buffer) + 1
      <4>1. req.sector + i - 1 = req.sector + Len(buffer)
        BY <1>2, <3>1
      <4> QED BY <1>1, <1>6, <1>7, <2>1, <3>1, <4>1
    <3>2. CASE i \in 1 .. Len(buffer)
      BY <1>1, <1>6, <1>7, <2>1, <3>2 DEF IInv, ReadOK
    <3> QED BY <1>2, <1>6, <3>1, <3>2
  <2> QED BY <2>1 DEF ReadOK
<1> QED BY <1>1, <1>8, <1>9, <1>11, <1>12, <1>13 DEF IInv, DeviceSame

(* What a read has received without an error is what the card holds. *)
LEMMA ReadMaps ==
  ASSUME IInv, pc \in {"transfer", "close"}, req.op = "read", checksum_errors = 0,
         Len(buffer) = req.count, Finish(TRUE), UNCHANGED media
  PROVE  Device!Done
<1>1. /\ req.sector \in Nat /\ req.count \in Nat /\ req # NoRequest
      /\ req.sector + req.count <= Sectors
  BY InProgress DEF IInv, ProgressOK
<1>2. answer'.ok /\ answer'.data = buffer /\ req' = NoRequest
  BY DEF Finish
<1>3. \A i \in 1 .. req.count : buffer[i] = media[req.sector + i - 1]
  BY DEF IInv, ReadOK
<1> QED BY <1>1, <1>2, <1>3 DEF Device!Done, Device!NoRequest, NoRequest

LEMMA ReadEndsStep ==
  ASSUME IInv, ReadEnds
  PROVE  IInv' /\ (Device!Done \/ Device!Failed \/ DeviceSame)
<1>1. /\ pc = "transfer" /\ req.op = "read"
      /\ UNCHANGED <<m_Status, ongoing_wr_mlt_blk, wr_mlt_blk_cnt_sector, step, card, pos, media>>
      /\ m_Status = "ready" /\ card \in Selected /\ pc' \in {"idle", "close", "giveup"}
      /\ Len(buffer) = req.count \/ (OneByOne /\ checksum_errors > 0)
  BY DEF ReadEnds, Finish, driver, IInv, StartOK
<1>2. req # NoRequest /\ checksum_errors \in Nat
  BY <1>1, InProgress DEF IInv, DataTypesOK
<1>3. FlagOK'
  BY <1>1 DEF IInv, FlagOK
<1>4. TypesOK'
  BY <1>1 DEF IInv, TypesOK
<1>5. CASE OneByOne /\ Finish(checksum_errors = 0)
  <2>1. ~ongoing_wr_mlt_blk'
    BY <1>1, <1>5 DEF IInv, InPlace
  <2>2. CASE checksum_errors = 0
    <3>1. Finish(TRUE)
      BY <1>5, <2>2 DEF Finish
    <3>2. IInv'
      BY <1>1, <1>3, <1>4, <2>1, <3>1, FinishOK DEF IInv, DataTypesOK
    <3> QED BY <1>1, <2>2, <3>1, <3>2, ReadMaps
  <2>3. CASE checksum_errors # 0
    <3>1. Finish(FALSE)
      BY <1>5, <2>3 DEF Finish
    <3>2. IInv'
      BY <1>1, <1>3, <1>4, <2>1, <3>1, FinishOK DEF IInv, DataTypesOK
    <3> QED BY <1>1, <1>2, <3>1, <3>2, FailureMaps
  <2> QED BY <2>2, <2>3
<1>6. CASE /\ ~OneByOne /\ UNCHANGED <<req, buffer, checksum_errors, answer>>
           /\ pc' = IF checksum_errors = 0 THEN "close" ELSE "giveup"
  <2>1. DataTypesOK' /\ RequestOK' /\ StartOK'
    BY <1>1, <1>6 DEF IInv, DataTypesOK, RequestOK, StartOK
  <2>2. InPlace' /\ ProgressOK'
    BY <1>1, <1>6 DEF IInv, InPlace, ProgressOK
  <2>3. WriteOK' /\ ReadOK'
    BY <1>1, <1>6 DEF IInv, WriteOK, ReadOK
  <2> QED BY <1>1, <1>3, <1>4, <1>6, <2>1, <2>2, <2>3 DEF IInv, DeviceSame
<1> QED BY <1>5, <1>6 DEF ReadEnds

LEMMA ReadTimeoutStep ==
  ASSUME IInv, ReadTimeout
  PROVE  IInv' /\ (Device!Failed \/ DeviceSame)
<1>1. /\ pc = "transfer" /\ req.op = "read"
      /\ UNCHANGED <<m_Status, ongoing_wr_mlt_blk, wr_mlt_blk_cnt_sector, step, card, pos, media>>
      /\ m_Status = "ready" /\ card \in Selected /\ pc' \in {"idle", "giveup"}
  BY DEF ReadTimeout, Finish, driver, IInv, StartOK
<1>2. req # NoRequest
  BY <1>1, InProgress DEF IInv
<1>3. FlagOK'
  BY <1>1 DEF IInv, FlagOK
<1>4. TypesOK'
  BY <1>1 DEF IInv, TypesOK
<1>5. CASE OneByOne /\ Finish(FALSE)
  <2>1. ~ongoing_wr_mlt_blk'
    BY <1>1, <1>5 DEF IInv, InPlace
  <2>2. IInv'
    BY <1>1, <1>3, <1>4, <1>5, <2>1, FinishOK DEF IInv, DataTypesOK
  <2> QED BY <1>1, <1>2, <1>5, <2>2, FailureMaps
<1>6. CASE pc' = "giveup" /\ UNCHANGED <<req, buffer, checksum_errors, answer>>
  <2>1. DataTypesOK' /\ RequestOK' /\ StartOK'
    BY <1>1, <1>6 DEF IInv, DataTypesOK, RequestOK, StartOK
  <2>2. InPlace' /\ ProgressOK'
    BY <1>1, <1>6 DEF IInv, InPlace, ProgressOK
  <2>3. WriteOK' /\ ReadOK'
    BY <1>1, <1>6 DEF IInv, WriteOK, ReadOK
  <2> QED BY <1>1, <1>3, <1>4, <1>6, <2>1, <2>2, <2>3 DEF IInv, DeviceSame
<1> QED BY <1>5, <1>6 DEF ReadTimeout

LEMMA StopLastStep ==
  ASSUME IInv, StopLast
  PROVE  IInv' /\ (Device!Done \/ Device!Failed)
<1>1. PICK ok \in BOOLEAN : StopTransmission(ok) /\ Finish(ok /\ pc = "close")
  BY DEF StopLast
<1>2. /\ pc \in {"close", "giveup"} /\ m_Status = "ready" /\ m_Status' = m_Status
      /\ media' = media /\ ~ongoing_wr_mlt_blk' /\ card \in Selected /\ req # NoRequest
      /\ UNCHANGED <<wr_mlt_blk_cnt_sector, step>> /\ pc' = "idle"
  BY <1>1, InProgress DEF StopLast, StopTransmission, Finish, IInv, StartOK
<1>3. FlagOK'
  BY <1>1 DEF StopTransmission, FlagOK
<1>4. TypesOK' /\ card' \in Selected
  BY <1>1, <1>2, CommandTypesOK, CommandSelected DEF StopTransmission
<1>5. CASE ok /\ pc = "close"
  <2>1. Finish(TRUE)
    BY <1>1, <1>5 DEF Finish
  <2>2. IInv'
    BY <1>2, <1>3, <1>4, <2>1, FinishOK DEF IInv, DataTypesOK
  <2>3. req.op = "read" /\ checksum_errors = 0 /\ Len(buffer) = req.count
    BY <1>5 DEF IInv, ProgressOK
  <2> QED BY <1>2, <1>5, <2>1, <2>2, <2>3, ReadMaps
<1>6. CASE ~(ok /\ pc = "close")
  <2>1. Finish(FALSE)
    BY <1>1, <1>6 DEF Finish
  <2>2. IInv'
    BY <1>2, <1>3, <1>4, <2>1, FinishOK DEF IInv, DataTypesOK
  <2> QED BY <1>2, <2>1, <2>2, FailureMaps
<1> QED BY <1>5, <1>6

LEMMA RestartSteps ==
  ASSUME IInv, Reset \/ PowerCut
  PROVE  IInv' /\ Device!Cut
<1> USE SectorsAssumption
<1>1. Restart /\ card' \in CardStates /\ pos' \in Nat
  <2>1. CASE Reset
    BY <2>1 DEF Reset, IInv, TypesOK
  <2>2. CASE PowerCut
    BY <2>2 DEF PowerCut, CardStates
  <2> QED BY <2>1, <2>2
<1>2. \/ UNCHANGED media
      \/ /\ pc = "transfer" /\ req.op = "write" /\ Len(buffer) < req.count
         /\ pos \in Sector /\ media' = [media EXCEPT ![pos] = Torn]
  BY DEF Reset, PowerCut
<1>3. media' \in [Sector -> Content]
  BY <1>2 DEF IInv, DataTypesOK, Content
<1>4. UNCHANGED media \/ \E s \in 0 .. Sectors - 1 : Device!Put(s, Torn)
  <2>1. CASE /\ pc = "transfer" /\ req.op = "write" /\ Len(buffer) < req.count
             /\ pos \in Sector /\ media' = [media EXCEPT ![pos] = Torn]
    <3>1. /\ req.sector \in Nat /\ req.count \in Nat /\ Len(buffer) \in Nat
          /\ pos = req.sector + Len(buffer)
      BY <2>1, InProgress DEF IInv, DataTypesOK, WriteOK
    <3>2. pos \in 0 .. Sectors - 1 /\ pos \in req.sector .. req.sector + req.count - 1
      BY <2>1, <3>1 DEF Sector
    <3> QED BY <2>1, <3>2 DEF Device!Put, Device!Covers
  <2> QED BY <1>2, <2>1
<1>5. Device!Cut
  BY <1>1, <1>4 DEF Restart, Device!Cut, Device!NoRequest, NoRequest
<1> QED BY <1>1, <1>3, <1>5, RestartOK

LEMMA Inductive ==
  ASSUME IInv, [Next]_vars
  PROVE  IInv' /\ [Device!Next]_(Device!vars)
<1>1. CASE UNCHANGED vars
  <2>1. FlagOK' /\ TypesOK' /\ DataTypesOK' /\ RequestOK' /\ StartOK'
    BY <1>1 DEF vars, driver, job, IInv, FlagOK, TypesOK, DataTypesOK, RequestOK, StartOK
  <2>2. InPlace' /\ ProgressOK' /\ WriteOK' /\ ReadOK'
    BY <1>1 DEF vars, driver, job, IInv, InPlace, ProgressOK, WriteOK, ReadOK, OneByOne
  <2> QED BY <1>1, <2>1, <2>2 DEF IInv, vars, job, Device!vars
<1>2. CASE Next
  <2>1. IInv' /\ (Device!Next \/ DeviceSame)
    BY <1>2, StartSteps, AskStep, SyncStep, StopFirstStep, SendStep, WriteBlockStep,
       WrittenStep, WriteFailsStep, ReadBlockStep, ReadEndsStep, ReadTimeoutStep,
       StopLastStep, RestartSteps
    DEF Next, Device!Next
  <2> QED BY <2>1 DEF DeviceSame, Device!vars
<1> QED BY <1>1, <1>2

-----------------------------------------------------------------------------
(* IInv holds in every state that can be reached. *)
THEOREM Invariance == Spec => []IInv
BY InitOK, Inductive, PTL DEF Spec

(* Type correctness. *)
THEOREM TypeCorrect == Spec => []TypeOK
<1>1. IInv => TypeOK
  <2> SUFFICES ASSUME IInv PROVE TypeOK
    OBVIOUS
  <2>1. req \in Requests \cup {NoRequest}
    BY DEF IInv, RequestOK
  <2>2. ongoing_wr_mlt_blk \in BOOLEAN
    BY DEF IInv, FlagOK
  <2>3. step \in 1 .. Len(Begin)
    BY Sequence DEF IInv, TypesOK
  <2> QED BY <2>1, <2>2, <2>3 DEF IInv, TypesOK, DataTypesOK, TypeOK
<1> QED BY <1>1, Invariance, PTL

(* An open multiple block write goes on where the card stands, whatever    *)
(* failed before (sd_sdio_writeSectors(), sd_sdio_stopTransmission()).     *)
THEOREM WritesStayInPlace == Spec => []ContinuesInPlace
<1>1. IInv => ContinuesInPlace
  BY DEF IInv, InPlace, WriteOK, ContinuesInPlace
<1> QED BY <1>1, Invariance, PTL

(* A card that sd_sdio_begin() reports ready is selected.                  *)
THEOREM ReadyCards == Spec => []ReadyIsSelected
<1>1. IInv => ReadyIsSelected
  BY DEF IInv, StartOK, Selected, ReadyIsSelected
<1> QED BY <1>1, Invariance, PTL

(* The driver implements the block device that FatFS and the USB host      *)
(* expect of disk_read() and disk_write().                                 *)
THEOREM Refinement == Spec => IsBlockDevice
<1>1. Init => Device!Init
  BY InitOK
<1>2. IInv /\ [Next]_vars => [Device!Next]_(Device!vars)
  BY Inductive
<1> QED BY <1>1, <1>2, Invariance, PTL DEF Spec, IsBlockDevice, Device!Spec
=============================================================================
