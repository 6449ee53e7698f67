---------------------------- MODULE DisksProofs ----------------------------
(***************************************************************************)
(* Proofs about Disks for every number of drives, tracks and sectors,      *)
(* every set of names, images and data, and whatever the names open.       *)
(***************************************************************************)
EXTENDS Disks, TLAPS

(* The inductive invariant: a request that got past the checks of          *)
(* prep_io() is in range until it is answered; the flag of check_disks()   *)
(* is off while the card may change behind its back.                       *)
ReqOK ==
  /\ req.drive \in RequestDrives \cup {0} /\ req.track \in Int /\ req.sector \in Int
  /\ pc \in {"open", "transfer"} =>
       req \in Requests /\ InRange(req) /\ Name \in Names
  /\ pc = "transfer" => Image \in Images
MapOK ==
  /\ disks \in Mounts /\ saved \in Mounts
  /\ card \in Directories
  /\ content \in [Images -> Contents]
CtlOK ==
  /\ pc \in {"off", "config", "saving", "run", "open", "transfer", "update", "stopped"}
  /\ checked \in BOOLEAN
  /\ pc = "off" => checked = FALSE
OutOK ==
  /\ open \subseteq (Images \cup {ConfFile}) \X Modes
  /\ reply.ok => reply.data \in Data \cup {Torn}
  /\ led \subseteq {"red", "green"}
  /\ writes \in 0 .. MaxWrites
IInv == ReqOK /\ MapOK /\ CtlOK /\ OutOK /\ OneDrivePerName /\ MountsExist

(***************************************************************************)
(* Offsets.                                                                *)
(***************************************************************************)
LEMMA Tracks ==
  ASSUME NEW s \in Int, NEW t \in Int, NEW n \in Nat, s < t
  PROVE  s * n + n <= t * n
<1>1. s * n + n = (s + 1) * n
  OBVIOUS
<1>2. t = (s + 1) + (t - (s + 1)) /\ t - (s + 1) \in Nat
  OBVIOUS
<1>3. \A k \in Nat : (s + 1) * n <= ((s + 1) + k) * n
  OBVIOUS
<1> QED BY <1>1, <1>2, <1>3

(* A sector of a disk lies in the image file. *)
LEMMA PosInImage ==
  ASSUME NEW x \in Sectors PROVE Pos(x[1], x[2]) \in Positions
<1> USE DriveAssumption DEF Sectors, Pos, Positions
<1>1. x[1] \in Nat /\ x[1] < TRK + 1 /\ x[2] \in 1 .. SPT
  OBVIOUS
<1>2. x[1] * SPT + SPT <= (TRK + 1) * SPT
  BY <1>1, Tracks
<1>3. x[1] * SPT \in Nat /\ (TRK + 1) * SPT \in Nat
  BY <1>1
<1> QED BY <1>1, <1>2, <1>3

(* No two sectors share an offset. *)
LEMMA PosInjective ==
  ASSUME NEW x \in Sectors, NEW y \in Sectors, Pos(x[1], x[2]) = Pos(y[1], y[2])
  PROVE  x = y
<1> USE DriveAssumption DEF Sectors, Pos
<1>1. x[1] \in Int /\ y[1] \in Int /\ x[2] \in 1 .. SPT /\ y[2] \in 1 .. SPT
  OBVIOUS
<1>2. x[1] * SPT \in Int /\ y[1] * SPT \in Int
  BY <1>1
<1>3. ~(x[1] < y[1])
  <2>1. x[1] < y[1] => x[1] * SPT + SPT <= y[1] * SPT
    BY <1>1, Tracks
  <2> QED BY <1>1, <1>2, <2>1
<1>4. ~(y[1] < x[1])
  <2>1. y[1] < x[1] => y[1] * SPT + SPT <= x[1] * SPT
    BY <1>1, Tracks
  <2> QED BY <1>1, <1>2, <2>1
<1>5. x[1] = y[1]
  BY <1>1, <1>3, <1>4
<1>6. x[2] = y[2]
  BY <1>1, <1>2, <1>5
<1> QED BY <1>5, <1>6

(***************************************************************************)
(* The inductive invariant.                                                *)
(***************************************************************************)
LEMMA InitOK == ASSUME Init PROVE IInv
<1> USE DriveAssumption, NameAssumption, ContentAssumption
<1>1. disks \in Mounts /\ saved \in Mounts /\ card \in Directories
  BY DEF Init, Mounts
<1>2. content \in [Images -> Contents]
  BY DEF Init
<1>3. MapOK
  BY <1>1, <1>2 DEF MapOK
<1>4. ReqOK
  BY DEF Init, ReqOK, NoReq
<1>5. CtlOK
  BY DEF Init, CtlOK
<1>6. OutOK
  BY DEF Init, OutOK, Error
<1>7. OneDrivePerName /\ MountsExist
  BY DEF Init, OneDrivePerName, MountsExist, Mounted
<1> QED BY <1>3, <1>4, <1>5, <1>6, <1>7 DEF IInv

(* Mounts and card stay as they are. *)
LEMMA MountsStay ==
  ASSUME IInv, UNCHANGED <<disks, saved, card, checked>>
  PROVE  OneDrivePerName' /\ MountsExist'
BY DEF IInv, OneDrivePerName, MountsExist, Mounted

LEMMA MapStays ==
  ASSUME IInv, UNCHANGED <<disks, saved, card, content>>
  PROVE  MapOK'
BY DEF IInv, MapOK

(* A request that is under way has a name and a sector. *)
LEMMA Target ==
  ASSUME IInv, pc \in {"open", "transfer"}
  PROVE  /\ Name \in Names /\ Here \in Positions
         /\ <<req.track, req.sector>> \in Sectors
         /\ req.drive \in Drives /\ disks[req.drive] # None
         /\ req.value \in Data /\ req.rdwr \in Modes
<1>1. req \in Requests /\ InRange(req) /\ Name \in Names
  BY DEF IInv, ReqOK
<1>2. req.track \in 0 .. TRK + 1 /\ req.track <= TRK /\ req.sector \in 1 .. SPT
  BY <1>1 DEF Requests, InRange
<1>3. <<req.track, req.sector>> \in Sectors
  BY <1>2, DriveAssumption DEF Sectors
<1>4. Here \in Positions
  BY <1>3, PosInImage DEF Here
<1>5. req.value \in Data /\ req.rdwr \in Modes
  BY <1>1 DEF Requests
<1>6. req.drive \in Drives /\ disks[req.drive] # None
  BY <1>1 DEF InRange
<1> QED BY <1>1, <1>3, <1>4, <1>5, <1>6

(* A request whose file can be opened has an image. *)
LEMMA TargetImage ==
  ASSUME IInv, pc = "open", NEW mode, CanOpen(Name, mode)
  PROVE  Image \in Images
<1>1. Name \in Names /\ card \in [Names -> Images \cup {None}]
  BY Target DEF IInv, MapOK, Directories
<1> QED BY <1>1 DEF CanOpen, Image

LEMMA GrownType ==
  ASSUME IInv, pc \in {"open", "transfer"}, Image \in Images, NEW n \in Int
  PROVE  Grown(n) \in Contents
<1>1. content \in [Images -> Contents]
  BY DEF IInv, MapOK
<1>2. content[Image] \in Contents
  BY <1>1
<1> QED BY <1>2 DEF Grown, Contents

LEMMA StoredType ==
  ASSUME IInv, pc = "transfer", NEW v \in Data \cup {Torn}
  PROVE  Stored(v) \in [Images -> Contents] /\ StoreTorn \in [Images -> Contents]
<1>1. content \in [Images -> Contents] /\ Image \in Images /\ Here \in Positions /\ Here \in Int
  BY Target, DriveAssumption DEF IInv, MapOK, ReqOK, Positions
<1>2. Grown(Here) \in Contents
  BY <1>1, GrownType
<1>3. [Grown(Here) EXCEPT ![Here] = v] \in Contents
  BY <1>1, <1>2 DEF Contents
<1>4. [p \in Positions |->
        IF p = Here \/ (p \div 4 = Here \div 4 /\ Grown(Here)[p] # Absent)
          THEN Torn ELSE Grown(Here)[p]] \in Contents
  BY <1>2 DEF Contents
<1> QED BY <1>1, <1>3, <1>4 DEF Stored, StoreTorn

LEMMA GrowthType ==
  ASSUME IInv, pc \in {"open", "transfer"}, Image \in Images, MayGrow
  PROVE  content' \in [Images -> Contents]
<1>1. PICK n \in 0 .. Here : content' = [content EXCEPT ![Image] = Grown(n)]
  BY DEF MayGrow
<1>2. Grown(n) \in Contents
  BY GrownType
<1> QED BY <1>1, <1>2, Target DEF IInv, MapOK

LEMMA ConfigAfterOK ==
  ASSUME IInv, NEW t \in ConfigAfter
  PROVE  /\ t \in Mounts
         /\ \A d, e \in Drives : t[d] = t[e] /\ d # e => t[d] = None
BY DEF ConfigAfter, IInv, MapOK, Mounts, OneDrivePerName

LEMMA HostEditsOK ==
  ASSUME IInv, HostEdits
  PROVE  card' \in Directories /\ content' \in [Images -> Contents]
<1>1. PICK now \in Directories, image \in Blank :
        \E kept \in SUBSET (OnCard(card) \cap OnCard(now)) :
          /\ card' = now
          /\ content' = [i \in Images |-> IF i \in kept THEN content[i] ELSE image]
  BY DEF HostEdits
<1>2. image \in Contents /\ content \in [Images -> Contents]
  BY ContentAssumption DEF IInv, MapOK
<1> QED BY <1>1, <1>2

LEMMA OffOrDialog ==
  ASSUME IInv, PowerCut \/ CardInHost \/ Boot
  PROVE  IInv'
<1> USE NameAssumption
<1>1. CASE PowerCut
  <2>1. /\ disks' = [d \in Drives |-> None] /\ card' = card /\ checked' = FALSE
        /\ pc' = "off" /\ writes' = writes
        /\ open' = {} /\ req' = NoReq /\ reply' = Error /\ led' = {}
    BY <1>1 DEF PowerCut, PowerOff
  <2>2. saved' \in ConfigAfter
    BY <1>1 DEF PowerCut, ConfigAfter
  <2>3. content' \in [Images -> Contents]
    <3>1. CASE UNCHANGED content
      BY <3>1 DEF IInv, MapOK
    <3>2. CASE pc = "transfer" /\ content' \in {Stored(req.value), StoreTorn}
      BY <3>2, Target, StoredType
    <3> QED BY <1>1, <3>1, <3>2 DEF PowerCut
  <2>4. MapOK'
    BY <2>1, <2>2, <2>3, ConfigAfterOK DEF IInv, MapOK, Mounts
  <2>5. ReqOK'
    BY <2>1 DEF ReqOK, NoReq
  <2>6. CtlOK' /\ MountsExist'
    BY <2>1 DEF CtlOK, MountsExist
  <2>7. OutOK'
    BY <2>1 DEF IInv, OutOK, Error
  <2>8. OneDrivePerName'
    BY <2>1, <2>2, ConfigAfterOK DEF OneDrivePerName
  <2> QED BY <2>4, <2>5, <2>6, <2>7, <2>8 DEF IInv
<1>2. CASE CardInHost
  <2>1. /\ pc = "off" /\ UNCHANGED <<pc, disks, saved, checked, open, req, reply, led, writes>>
        /\ HostEdits
    BY <1>2 DEF CardInHost, fdcVars
  <2>2. MapOK'
    BY <2>1, HostEditsOK DEF IInv, MapOK
  <2>3. ReqOK' /\ CtlOK'
    BY <2>1 DEF IInv, ReqOK, CtlOK
  <2>4. OutOK'
    BY <2>1 DEF IInv, OutOK
  <2>5. OneDrivePerName' /\ MountsExist'
    BY <2>1 DEF IInv, CtlOK, OneDrivePerName, MountsExist
  <2> QED BY <2>2, <2>3, <2>4, <2>5 DEF IInv
<1>3. CASE Boot
  <2>1. /\ pc = "off" /\ pc' = "config" /\ disks' \in {saved, disks}
        /\ UNCHANGED <<saved, card, content, checked, open, req, reply, led, writes>>
    BY <1>3 DEF Boot, cardVars, fdcVars
  <2>2. MapOK' /\ CtlOK'
    BY <2>1 DEF IInv, MapOK, CtlOK
  <2>3. ReqOK'
    BY <2>1 DEF IInv, ReqOK
  <2>4. OutOK'
    BY <2>1 DEF IInv, OutOK
  <2>5. OneDrivePerName' /\ MountsExist'
    BY <2>1 DEF IInv, CtlOK, OneDrivePerName, MountsExist
  <2> QED BY <2>2, <2>3, <2>4, <2>5 DEF IInv
<1> QED BY <1>1, <1>2, <1>3

(* A step of the dialog that changes nothing but the mount table and what  *)
(* is on the card: the table must stay one of images that exist.           *)
LEMMA DialogStep ==
  ASSUME IInv, pc = "config",
         UNCHANGED <<pc, saved, req, reply, led, writes>>,
         open' \in {open, {}},
         checked' \in BOOLEAN,
         disks' \in Mounts, card' \in Directories,
         content' \in [Images -> Contents],
         \A d, e \in Drives : disks'[d] = disks'[e] /\ d # e => disks'[d] = None,
         MountsExist'
  PROVE  IInv'
<1>1. MapOK' /\ CtlOK'
  BY DEF IInv, MapOK, CtlOK
<1>2. ReqOK'
  BY DEF IInv, ReqOK
<1>3. OutOK'
  BY DEF IInv, OutOK
<1>4. OneDrivePerName'
  BY DEF IInv, OneDrivePerName
<1> QED BY <1>1, <1>2, <1>3, <1>4 DEF IInv

LEMMA Dialog ==
  ASSUME IInv,
         \/ \E d \in Drives, name \in Names : MountDisk(d, name)
         \/ \E d \in Drives : Unmount(d)
         \/ LendCard
  PROVE  IInv'
<1> USE NameAssumption
<1>0. disks \in [Drives -> Names \cup {None}] /\ MapOK /\ OneDrivePerName /\ MountsExist
      /\ checked \in BOOLEAN
  BY DEF IInv, MapOK, Mounts, CtlOK
<1>1. ASSUME NEW d \in Drives, NEW name \in Names, MountDisk(d, name)
      PROVE  IInv'
  <2>1. /\ pc = "config" /\ disks' = [disks EXCEPT ![d] = name] /\ card[name] # None
        /\ \A i \in Drives \ {d} : disks[i] # name
        /\ UNCHANGED <<pc, saved, card, content, checked, open, req, reply, led, writes>>
    BY <1>1 DEF MountDisk, MountedElsewhere, CanOpen, cardVars, fdcVars
  <2>2. disks' \in Mounts
    BY <1>0, <2>1 DEF Mounts
  <2>3. \A i, e \in Drives : disks'[i] = disks'[e] /\ i # e => disks'[i] = None
    BY <1>0, <2>1 DEF OneDrivePerName
  <2>4. MountsExist'
    BY <1>0, <2>1 DEF MountsExist, Mounted
  <2> QED BY <1>0, <2>1, <2>2, <2>3, <2>4, DialogStep DEF MapOK
<1>2. ASSUME NEW d \in Drives, Unmount(d)
      PROVE  IInv'
  <2>1. /\ pc = "config" /\ disks' = [disks EXCEPT ![d] = None]
        /\ UNCHANGED <<pc, saved, card, content, checked, open, req, reply, led, writes>>
    BY <1>2 DEF Unmount, cardVars, fdcVars
  <2>2. disks' \in Mounts
    BY <1>0, <2>1 DEF Mounts
  <2>3. \A i, e \in Drives : disks'[i] = disks'[e] /\ i # e => disks'[i] = None
    BY <1>0, <2>1 DEF OneDrivePerName
  <2>4. MountsExist'
    BY <1>0, <2>1 DEF MountsExist, Mounted
  <2> QED BY <1>0, <2>1, <2>2, <2>3, <2>4, DialogStep DEF MapOK
<1>3. CASE LendCard
  <2>1. /\ pc = "config" /\ HostEdits /\ checked' = TRUE /\ open' = {}
        /\ UNCHANGED <<pc, saved, req, reply, led, writes>>
    BY <1>3 DEF LendCard
  <2>2. PICK lost \in SUBSET Mounted : disks' = CheckDisks(lost, card')
    BY <1>3 DEF LendCard
  <2>3. card' \in Directories /\ content' \in [Images -> Contents]
    BY <2>1, HostEditsOK
  <2>4. disks' \in Mounts /\ MountsExist'
    BY <1>0, <2>2, <2>3 DEF CheckDisks, Mounts, MountsExist, Mounted
  <2>5. \A i, e \in Drives : disks'[i] = disks'[e] /\ i # e => disks'[i] = None
    BY <1>0, <2>2 DEF CheckDisks, OneDrivePerName
  <2> QED BY <2>1, <2>3, <2>4, <2>5, DialogStep
<1> QED BY <1>1, <1>2, <1>3

(* A step of the running machine that moves no mount and no image: what is *)
(* left to show is that the control, the request and the outputs are fine. *)
LEMMA RunStep ==
  ASSUME IInv,
         UNCHANGED <<disks, card, checked>>,
         saved' \in ConfigAfter,
         content' \in [Images -> Contents],
         pc' \in {"saving", "run", "open", "transfer", "update", "stopped"},
         ReqOK', OutOK'
  PROVE  IInv'
<1>1. MapOK'
  BY ConfigAfterOK DEF IInv, MapOK
<1>2. CtlOK'
  BY DEF IInv, CtlOK
<1>3. OneDrivePerName'
  BY ConfigAfterOK DEF IInv, OneDrivePerName
<1>4. MountsExist'
  BY DEF IInv, MountsExist, Mounted
<1> QED BY <1>1, <1>2, <1>3, <1>4 DEF IInv

LEMMA Starting ==
  ASSUME IInv, Go \/ SaveConfig \/ Stop \/ Update
  PROVE  IInv'
<1>1. /\ UNCHANGED <<disks, card, content, checked, writes, reply>>
      /\ pc' \in {"saving", "run", "stopped"}
      /\ saved' \in ConfigAfter
  BY DEF Go, SaveConfig, Stop, Update, cardVars, fdcVars, ConfigAfter
<1>2. req' \in {req, NoReq} /\ led' \in {led, {}}
  BY DEF Go, SaveConfig, Stop, Update, fdcVars
<1>3. open' \subseteq open \cup {<<ConfFile, "write">>}
  BY DEF Go, SaveConfig, Stop, Update, fdcVars
<1>4. ReqOK'
  BY <1>1, <1>2 DEF IInv, ReqOK, NoReq
<1>5. OutOK'
  BY <1>1, <1>2, <1>3 DEF IInv, OutOK, Modes
<1>6. content' \in [Images -> Contents]
  BY <1>1 DEF IInv, MapOK
<1> QED BY <1>1, <1>4, <1>5, <1>6, RunStep

LEMMA Asking ==
  ASSUME IInv, NEW r \in Requests, Request(r)
  PROVE  IInv'
<1> USE DriveAssumption
<1>1. /\ UNCHANGED <<disks, saved, card, content, checked, open, writes, reply>>
      /\ content' \in [Images -> Contents] /\ saved' \in ConfigAfter
      /\ InRange(r) /\ pc' = "open" /\ req' = r /\ led' \subseteq {"red", "green"}
  BY DEF Request, cardVars, ConfigAfter, IInv, MapOK
<1>2. r.drive \in RequestDrives /\ r.track \in Int /\ r.sector \in Int
  BY DEF Requests
<1>3. disks[r.drive] \in Names
  BY <1>1 DEF InRange, IInv, MapOK, Mounts
<1>4. ReqOK'
  <2>1. Name' = disks[r.drive]
    BY <1>1 DEF Name
  <2>2. InRange(req)'
    BY <1>1 DEF InRange
  <2> QED BY <1>1, <1>2, <1>3, <2>1, <2>2 DEF ReqOK
<1>5. OutOK'
  BY <1>1 DEF IInv, OutOK
<1> QED BY <1>1, <1>4, <1>5, RunStep

LEMMA Refusing ==
  ASSUME IInv, NEW d \in RequestDrives, Refuse(d)
  PROVE  IInv'
<1>1. /\ UNCHANGED <<disks, saved, card, content, checked, open, led, writes>>
      /\ content' \in [Images -> Contents] /\ saved' \in ConfigAfter
      /\ pc' = "update" /\ req' = [NoReq EXCEPT !.drive = d] /\ reply' = Error
  BY DEF Refuse, Finish, cardVars, ConfigAfter, IInv, MapOK
<1>2. ReqOK'
  BY <1>1 DEF ReqOK, NoReq
<1>3. OutOK'
  BY <1>1 DEF IInv, OutOK, Error
<1> QED BY <1>1, <1>2, <1>3, RunStep

LEMMA Opening ==
  ASSUME IInv, Open
  PROVE  IInv'
<1> USE DriveAssumption
<1>1. /\ UNCHANGED <<disks, saved, card, content, checked, req, reply, led>>
      /\ content' \in [Images -> Contents] /\ saved' \in ConfigAfter
      /\ pc = "open" /\ pc' = "transfer"
      /\ open' = open \cup {<<Image, req.rdwr>>}
      /\ req.rdwr = "write" => writes < MaxWrites
      /\ writes' = IF req.rdwr = "write" THEN writes + 1 ELSE writes
  BY DEF Open, cardVars, ConfigAfter, IInv, MapOK
<1>2. Image \in Images /\ req.rdwr \in Modes
  BY <1>1, Target, TargetImage DEF Open
<1>3. InRange(req)' <=> InRange(req)
  BY <1>1 DEF InRange
<1>4. ReqOK'
  BY <1>1, <1>2, <1>3 DEF IInv, ReqOK, Requests, Name, Image
<1>5. writes' \in 0 .. MaxWrites
  BY <1>1 DEF IInv, OutOK
<1>6. OutOK'
  BY <1>1, <1>2, <1>5 DEF IInv, OutOK
<1> QED BY <1>1, <1>4, <1>6, RunStep

(* What ends a request names its drive and nothing else. *)
LEMMA Finishing ==
  ASSUME IInv, Finish(req.drive)
  PROVE  ReqOK' /\ pc' = "update"
<1>1. pc' = "update" /\ req' = [NoReq EXCEPT !.drive = req.drive]
  BY DEF Finish
<1>2. req'.drive = req.drive /\ req'.track = 0 /\ req'.sector = 0
  BY <1>1 DEF NoReq
<1>3. req.drive \in RequestDrives \cup {0}
  BY DEF IInv, ReqOK
<1> QED BY <1>1, <1>2, <1>3 DEF ReqOK

LEMMA Failing ==
  ASSUME IInv, OpenFails
  PROVE  IInv'
<1> USE NameAssumption
<1>1. /\ UNCHANGED <<disks, saved, card, checked, led, writes>>
      /\ reply' = Error /\ saved' \in ConfigAfter /\ pc = "open"
  BY DEF OpenFails, ConfigAfter
<1>2. \/ UNCHANGED <<content, open>>
      \/ /\ Image \in Images /\ MayGrow
         /\ open' \subseteq open \cup {<<Image, "write">>}
  BY <1>1, TargetImage DEF OpenFails
<1>3. content' \in [Images -> Contents]
  BY <1>1, <1>2, GrowthType DEF IInv, MapOK
<1>4. ReqOK' /\ pc' = "update"
  BY Finishing DEF OpenFails
<1>5. OutOK'
  BY <1>1, <1>2 DEF IInv, OutOK, Error, Modes
<1> QED BY <1>1, <1>3, <1>4, <1>5, RunStep

Transfers == ReadSector \/ ReadFails \/ WriteSector \/ WriteFails \/ CloseFailed

(* What a transfer may leave behind. *)
LEMMA TransferResult ==
  ASSUME IInv, Transfers
  PROVE  /\ content' \in [Images -> Contents]
         /\ reply'.ok => reply'.data \in Data \cup {Torn}
         /\ open' \subseteq open
<1> USE DEF Close, CloseChanged
<1>0. pc = "transfer"
  BY DEF Transfers, ReadSector, ReadFails, WriteSector, WriteFails, CloseFailed, Transfer
<1>1. Image \in Images /\ Here \in Positions /\ req.value \in Data /\ pc = "transfer"
  BY <1>0, Target DEF IInv, ReqOK
<1>2. content \in [Images -> Contents]
  BY DEF IInv, MapOK
<1>3. CASE ReadSector
  <2>1. content[Image][Here] \in Data \cup {Torn}
    BY <1>1, <1>2, <1>3 DEF Contents, ReadSector
  <2> QED BY <1>2, <1>3, <2>1 DEF ReadSector, Done
<1>4. CASE ReadFails
  BY <1>2, <1>4 DEF ReadFails, Error
<1>5. CASE WriteSector
  BY <1>1, <1>5, StoredType DEF WriteSector, Done
<1>6. CASE WriteFails
  <2>1. content' \in [Images -> Contents]
    BY <1>1, <1>6, GrowthType DEF WriteFails
  <2> QED BY <1>6, <2>1 DEF WriteFails, Error
<1>7. CASE CloseFailed
  <2>1. content' \in [Images -> Contents]
    BY <1>1, <1>2, <1>7, StoredType DEF CloseFailed
  <2> QED BY <1>1, <1>7, <2>1 DEF CloseFailed, Done
<1> QED BY <1>3, <1>4, <1>5, <1>6, <1>7 DEF Transfers

LEMMA Transferring ==
  ASSUME IInv, Transfers
  PROVE  IInv'
<1>1. /\ UNCHANGED <<disks, saved, card, checked, led, writes>>
      /\ Finish(req.drive)
  BY DEF Transfers, ReadSector, ReadFails, WriteSector, WriteFails, CloseFailed, Transfer
<1>2. ReqOK' /\ pc' = "update"
  BY <1>1, Finishing
<1>3. saved' \in ConfigAfter
  BY <1>1 DEF ConfigAfter
<1>4. OutOK'
  BY <1>1, TransferResult DEF IInv, OutOK
<1> QED BY <1>1, <1>2, <1>3, <1>4, TransferResult, RunStep

LEMMA StepOK == ASSUME IInv, [Next]_vars PROVE IInv'
<1>1. CASE UNCHANGED vars
  <2>1. UNCHANGED <<pc, disks, saved, card, content, checked, open, req, reply, led, writes>>
    BY <1>1 DEF vars, cardVars, fdcVars
  <2>2. MapOK' /\ CtlOK' /\ OutOK'
    BY <2>1 DEF IInv, MapOK, CtlOK, OutOK
  <2>3. ReqOK'
    BY <2>1 DEF IInv, ReqOK, InRange, Requests, Name, Image
  <2> QED BY <2>1, <2>2, <2>3, MountsStay DEF IInv
<1>2. CASE Next
  BY <1>2, OffOrDialog, Dialog, Starting, Asking, Refusing, Opening, Failing, Transferring
  DEF Next, Transfers
<1> QED BY <1>1, <1>2

THEOREM Invariance == Spec => []IInv
<1>1. Init => IInv
  BY InitOK
<1>2. IInv /\ [Next]_vars => IInv'
  BY StepOK
<1> QED BY <1>1, <1>2, PTL DEF Spec

(* Every variable keeps its type. *)
THEOREM TypeCorrect == Spec => []TypeOK
<1>1. IInv => TypeOK
  BY DEF IInv, ReqOK, MapOK, CtlOK, OutOK, TypeOK
<1> QED BY <1>1, Invariance, PTL

(* No name is ever in two drives, in the mount table or in the saved one. *)
THEOREM NamesApart == Spec => []OneDrivePerName
<1>1. IInv => OneDrivePerName
  BY DEF IInv
<1> QED BY <1>1, Invariance, PTL

(* After check_disks() every mounted name opens a file. *)
THEOREM NoLostMounts == Spec => []MountsExist
<1>1. IInv => MountsExist
  BY DEF IInv
<1> QED BY <1>1, Invariance, PTL

(***************************************************************************)
(* Open files and the LED.                                                 *)
(***************************************************************************)
Tidy ==
  /\ \A file \in open : Leftover(file) \/ (pc = "transfer" /\ file = <<Image, req.rdwr>>)
  /\ pc \notin {"open", "transfer", "update"} => led = {}

LEMMA TidyStep ==
  ASSUME IInv, Tidy, [Next]_vars
  PROVE  Tidy'
<1> USE DEF Tidy, Leftover
<1>1. CASE UNCHANGED vars
  BY <1>1 DEF vars, cardVars, fdcVars, Image, Name
<1>2. CASE PowerCut \/ Stop \/ Update
  BY <1>2 DEF PowerCut, PowerOff, Stop, Update
<1>3. CASE CardInHost \/ Boot \/ Go \/ SaveConfig \/ LendCard
  BY <1>3 DEF CardInHost, Boot, Go, SaveConfig, LendCard, fdcVars
<1>4. ASSUME NEW d \in Drives,
             Unmount(d) \/ \E name \in Names : MountDisk(d, name)
      PROVE  Tidy'
  BY <1>4 DEF MountDisk, Unmount, fdcVars
<1>5. ASSUME NEW r \in Requests, Request(r)
      PROVE  Tidy'
  BY <1>5 DEF Request
<1>9. ASSUME NEW d \in RequestDrives, Refuse(d)
      PROVE  Tidy'
  BY <1>9 DEF Refuse, Finish
<1>6. CASE Open
  <2>1. pc = "open" /\ pc' = "transfer" /\ Image' = Image /\ req' = req
        /\ open' = open \cup {<<Image, req.rdwr>>}
    BY <1>6 DEF Open, Image, Name, cardVars
  <2> QED BY <2>1
<1>7. CASE OpenFails
  BY <1>7 DEF OpenFails, Finish
<1>8. CASE Transfers
  <2>1. pc = "transfer" /\ pc' = "update"
    BY <1>8 DEF Transfers, ReadSector, ReadFails, WriteSector, WriteFails,
                CloseFailed, Transfer, Finish
  <2>2. open' = open \ {<<Image, req.rdwr>>}
          \/ (CloseFails /\ req.rdwr = "write" /\ open' = open)
    BY <1>8 DEF Transfers, ReadSector, ReadFails, WriteSector, WriteFails,
                CloseFailed, Close, CloseChanged, Transfer
  <2>3. ASSUME NEW file \in open' PROVE Leftover(file)
    <3>1. CASE file = <<Image, req.rdwr>>
      <4>1. CloseFails /\ req.rdwr = "write"
        BY <2>2, <3>1
      <4> QED BY <3>1, <4>1
    <3>2. CASE file # <<Image, req.rdwr>>
      BY <2>2, <3>2
    <3> QED BY <3>1, <3>2
  <2> QED BY <2>1, <2>3
<1> QED
  BY <1>1, <1>2, <1>3, <1>4, <1>5, <1>6, <1>7, <1>8, <1>9 DEF Next, Transfers

(* Whatever fails, a request leaves no file open, but one that f_close()   *)
(* could not flush, and no drive colour in the LED.                        *)
THEOREM NothingStays == Spec => []NothingLeft
<1>1. Init => Tidy
  BY DEF Init, Tidy
<1>2. IInv /\ Tidy /\ [Next]_vars => Tidy'
  BY TidyStep
<1>3. Tidy => NothingLeft
  BY DEF Tidy, NothingLeft
<1> QED BY <1>1, <1>2, <1>3, Invariance, PTL DEF Spec

(***************************************************************************)
(* The drives are arrays of sectors (DriveArray).                          *)
(***************************************************************************)
UnitOK == drive \in FD!Holdings /\ unit \in [Images -> FD!Arrays]

LEMMA UnitType == ASSUME IInv PROVE UnitOK
<1>1. ASSUME NEW i \in Images
      PROVE  [x \in Sectors |-> content[i][Pos(x[1], x[2])]] \in FD!Arrays
  <2>1. content[i] \in Contents
    BY DEF IInv, MapOK
  <2>2. \A x \in Sectors : content[i][Pos(x[1], x[2])] \in Data \cup {Torn, Absent}
    BY <2>1, PosInImage DEF Contents
  <2> QED BY <2>2 DEF FD!Arrays
<1>2. unit \in [Images -> FD!Arrays]
  BY <1>1 DEF unit
<1>3. disks \in [Drives -> Names \cup {None}] /\ card \in [Names -> Images \cup {None}]
  BY DEF IInv, MapOK, Mounts, Directories
<1>4. drive \in FD!Holdings
  BY <1>3 DEF drive, Mounted, FD!Holdings
<1> QED BY <1>2, <1>4 DEF UnitOK

LEMMA UnitStays == ASSUME UNCHANGED content PROVE unit' = unit
BY DEF unit

LEMMA DrivesStay == ASSUME UNCHANGED <<disks, card>> PROVE drive' = drive
BY DEF drive, Mounted

(* The card, or the whole mount table, changes. *)
LEMMA WholeChange ==
  ASSUME UnitOK', PowerCut \/ CardInHost \/ Boot \/ LendCard
  PROVE  FD!ChangeAll
<1>1. reply' \in {reply, Error}
  BY DEF PowerCut, PowerOff, CardInHost, Boot, LendCard, fdcVars
<1> QED BY <1>1 DEF FD!ChangeAll, FD!Error, Error, UnitOK

(* One drive changes. *)
LEMMA OneChange ==
  ASSUME IInv, UnitOK, UnitOK', NEW d \in Drives, NEW name \in Names \cup {None},
         disks' = [disks EXCEPT ![d] = name], UNCHANGED <<card, content, reply>>
  PROVE  FD!Change(d)
<1>1. disks \in [Drives -> Names \cup {None}]
  BY DEF IInv, MapOK, Mounts
<1>2. \A e \in Drives \ {d} : drive'[e] = drive[e]
  BY <1>1 DEF drive, Mounted
<1>3. drive' = [drive EXCEPT ![d] = drive'[d]]
  BY <1>2 DEF UnitOK, FD!Holdings
<1>4. drive'[d] \in Images \cup {None}
  BY DEF UnitOK, FD!Holdings
<1>5. unit' = unit
  BY UnitStays
<1> QED BY <1>3, <1>4, <1>5 DEF FD!Change

(* the sector a request is for *)
Aim == <<req.track, req.sector>>

(* The disk of the request, and what it shows of the sector. *)
LEMMA UnitHere ==
  ASSUME IInv, pc \in {"open", "transfer"}, Image \in Images
  PROVE  /\ req.drive \in Drives /\ Aim \in Sectors
         /\ drive[req.drive] = Image /\ Image # None
         /\ unit[Image] = [x \in Sectors |-> content[Image][Pos(x[1], x[2])]]
         /\ unit[Image][Aim] = content[Image][Here]
<1>1. req.drive \in Drives /\ Aim \in Sectors /\ disks[req.drive] # None
  BY Target DEF Aim
<1>2. drive[req.drive] = Image
  BY <1>1 DEF drive, Mounted, Image, Name
<1>3. unit[Image] = [x \in Sectors |-> content[Image][Pos(x[1], x[2])]]
  BY DEF unit
<1>4. unit[Image][Aim] = content[Image][Here]
  BY <1>1, <1>3 DEF Here, Aim
<1> QED BY <1>1, <1>2, <1>3, <1>4, NameAssumption

(* The image of the request gets the content c: its disk gets new sectors, *)
(* no other one does, and c shows in its sectors.                          *)
LEMMA OneDisk ==
  ASSUME IInv, UnitOK, UnitOK', pc \in {"open", "transfer"}, Image \in Images,
         UNCHANGED <<disks, card>>, NEW c \in Contents,
         content' = [content EXCEPT ![Image] = c]
  PROVE  /\ FD!Holds(req.drive, unit'[drive[req.drive]])
         /\ unit'[Image][Aim] = c[Here]
         /\ \A x \in Sectors \ {Aim} :
              /\ Pos(x[1], x[2]) \in Positions \ {Here}
              /\ unit[Image][x] = content[Image][Pos(x[1], x[2])]
              /\ unit'[Image][x] = c[Pos(x[1], x[2])]
<1>1. content \in [Images -> Contents]
  BY DEF IInv, MapOK
<1>2. unit'[Image] = [x \in Sectors |-> c[Pos(x[1], x[2])]]
  BY <1>1 DEF unit
<1>3. \A i \in Images \ {Image} : unit'[i] = unit[i]
  BY <1>1 DEF unit
<1>4. unit' = [unit EXCEPT ![Image] = unit'[Image]]
  BY <1>3 DEF UnitOK
<1>5. unit'[Image] \in FD!Arrays
  BY DEF UnitOK
<1>6. FD!Holds(req.drive, unit'[drive[req.drive]])
  BY <1>4, <1>5, UnitHere, DrivesStay DEF FD!Holds
<1>7. unit'[Image][Aim] = c[Here]
  BY <1>2, UnitHere DEF Here, Aim
<1>8. ASSUME NEW x \in Sectors \ {Aim}
      PROVE  /\ Pos(x[1], x[2]) \in Positions \ {Here}
             /\ unit[Image][x] = content[Image][Pos(x[1], x[2])]
             /\ unit'[Image][x] = c[Pos(x[1], x[2])]
  <2>1. Pos(x[1], x[2]) # Here
    <3>1. Here = Pos(Aim[1], Aim[2])
      BY DEF Here, Aim
    <3> QED BY <3>1, UnitHere, PosInjective
  <2> QED BY <1>2, <2>1, PosInImage, UnitHere
<1> QED BY <1>6, <1>7, <1>8

(* Nothing that was there changes, except perhaps the sector of the        *)
(* request.                                                                *)
LEMMA OneStore ==
  ASSUME IInv, UnitOK, UnitOK', pc \in {"open", "transfer"}, Image \in Images,
         UNCHANGED <<disks, card>>, NEW c \in Contents,
         content' = [content EXCEPT ![Image] = c],
         \A p \in Positions \ {Here} : content[Image][p] # Absent => c[p] = content[Image][p]
  PROVE  FD!Store(req.drive, Aim, c[Here])
<1>1. drive[req.drive] = Image /\ unit[Image][Aim] = content[Image][Here]
  BY UnitHere
<1>2. /\ FD!Holds(req.drive, unit'[drive[req.drive]])
      /\ unit'[Image][Aim] = c[Here]
      /\ \A x \in Sectors \ {Aim} :
           /\ Pos(x[1], x[2]) \in Positions \ {Here}
           /\ unit[Image][x] = content[Image][Pos(x[1], x[2])]
           /\ unit'[Image][x] = c[Pos(x[1], x[2])]
  BY OneDisk
<1>3. \A x \in Sectors \ {Aim} : unit[Image][x] # Absent => unit'[Image][x] = unit[Image][x]
  BY <1>2
<1> QED BY <1>1, <1>2, <1>3 DEF FD!Store

(* What Grown does to the sectors that are there: nothing. *)
LEMMA GrownKeeps ==
  ASSUME IInv, pc \in {"open", "transfer"}, Image \in Images, NEW n \in 0 .. Here
  PROVE  /\ Grown(n) \in Contents
         /\ Grown(n)[Here] = content[Image][Here]
         /\ \A p \in Positions : content[Image][p] # Absent => Grown(n)[p] = content[Image][p]
<1>1. Here \in Positions /\ ~(Here < n)
  BY Target, DriveAssumption DEF Positions
<1> QED BY <1>1, GrownType DEF Grown

LEMMA GrowthMaps ==
  ASSUME IInv, UnitOK, UnitOK', pc \in {"open", "transfer"}, Image \in Images,
         UNCHANGED <<disks, card>>, MayGrow, reply' = Error
  PROVE  FD!Next
<1>1. PICK n \in 0 .. Here : content' = [content EXCEPT ![Image] = Grown(n)]
  BY DEF MayGrow
<1>2. FD!Store(req.drive, Aim, Grown(n)[Here])
  BY <1>1, GrownKeeps, OneStore
<1>3. Grown(n)[Here] = unit[drive[req.drive]][Aim]
  BY GrownKeeps, UnitHere
<1>4. FD!FailWrite(req.drive, Aim)
  BY <1>2, <1>3 DEF FD!FailWrite, FD!Error, Error
<1> QED BY <1>4, UnitHere DEF FD!Next

(* What is left of the image when f_close() fails. *)
LEMMA LostContent ==
  ASSUME IInv, CloseFailed
  PROVE  \E c \in Contents :
          /\ content' = [content EXCEPT ![Image] = c]
          /\ c[Here] \in {req.value, Torn, content[Image][Here]}
          /\ \A p \in Positions : content[Image][p] # Absent => p = Here \/ c[p] \in {content[Image][p], Torn}
<1>1. /\ pc = "transfer" /\ Here \in Positions /\ Image \in Images
      /\ req.value \in Data /\ content \in [Images -> Contents]
  BY Target DEF CloseFailed, Transfer, IInv, MapOK, ReqOK
<1>2. Grown(Here) \in Contents
  <2>1. Here \in 0 .. Here
    BY <1>1, DriveAssumption DEF Positions
  <2> QED BY <1>1, <2>1, GrownKeeps
<1>3. \A p \in Positions : Grown(Here)[p] \in {content[Image][p], Torn}
  <2>1. ASSUME NEW p \in Positions
        PROVE  Grown(Here)[p] = IF p < Here /\ content[Image][p] = Absent THEN Torn ELSE content[Image][p]
    BY DEF Grown
  <2> QED BY <2>1
<1>4. CASE content' = content
  BY <1>1, <1>4
<1>5. CASE content' = StoreTorn
  <2> DEFINE c == [p \in Positions |->
                    IF p = Here \/ (p \div 4 = Here \div 4 /\ Grown(Here)[p] # Absent)
                      THEN Torn ELSE Grown(Here)[p]]
  <2>1. c \in Contents
    BY <1>2 DEF Contents
  <2>2. content' = [content EXCEPT ![Image] = c]
    BY <1>5 DEF StoreTorn
  <2>3. c[Here] = Torn /\ \A p \in Positions : c[p] \in {Torn, content[Image][p]}
    BY <1>1, <1>3
  <2> HIDE DEF c
  <2> QED BY <2>1, <2>2, <2>3
<1>6. CASE content' = Stored(req.value)
  <2> DEFINE c == [Grown(Here) EXCEPT ![Here] = req.value]
  <2>1. c \in Contents /\ c[Here] = req.value
    BY <1>1, <1>2 DEF Contents
  <2>2. content' = [content EXCEPT ![Image] = c]
    BY <1>6 DEF Stored
  <2>3. \A p \in Positions \ {Here} : c[p] \in {Torn, content[Image][p]}
    BY <1>2, <1>3 DEF Contents
  <2> HIDE DEF c
  <2> QED BY <2>1, <2>2, <2>3
<1> QED BY <1>4, <1>5, <1>6 DEF CloseFailed

(* The image of the request loses at most the sector that was written and  *)
(* the ones that are torn with it.                                         *)
LEMMA OneLoss ==
  ASSUME CloseFails, IInv, UnitOK, UnitOK', pc = "transfer", Image \in Images,
         UNCHANGED <<disks, card>>, NEW c \in Contents, reply' = Done(req.value),
         content' = [content EXCEPT ![Image] = c],
         c[Here] \in {req.value, Torn, content[Image][Here]},
         \A p \in Positions : content[Image][p] # Absent => p = Here \/ c[p] \in {content[Image][p], Torn}
  PROVE  FD!LoseWrite(req.drive, Aim, req.value)
<1>1. drive[req.drive] = Image /\ unit[Image][Aim] = content[Image][Here]
  BY UnitHere
<1>2. /\ FD!Holds(req.drive, unit'[drive[req.drive]])
      /\ unit'[Image][Aim] = c[Here]
      /\ \A x \in Sectors \ {Aim} :
           /\ Pos(x[1], x[2]) \in Positions \ {Here}
           /\ unit[Image][x] = content[Image][Pos(x[1], x[2])]
           /\ unit'[Image][x] = c[Pos(x[1], x[2])]
  BY OneDisk
<1>3. \A x \in Sectors \ {Aim} : unit[Image][x] # Absent => unit'[Image][x] \in {unit[Image][x], Torn}
  BY <1>2
<1>4. unit'[Image][Aim] \in {req.value, Torn, unit[Image][Aim]}
  BY <1>1, <1>2
<1> QED BY <1>1, <1>2, <1>3, <1>4 DEF FD!LoseWrite, FD!Done, Done

LEMMA TransferMaps ==
  ASSUME IInv, UnitOK, UnitOK', Transfers
  PROVE  FD!Next
<1>0. pc = "transfer" /\ UNCHANGED <<disks, card>>
  BY DEF Transfers, ReadSector, ReadFails, WriteSector, WriteFails, CloseFailed, Transfer
<1>1. /\ pc = "transfer" /\ Here \in Positions /\ Image \in Images
      /\ req.value \in Data /\ content[Image] \in Contents
      /\ req.drive \in Drives /\ Aim \in Sectors /\ drive[req.drive] = Image /\ drive' = drive
  BY <1>0, Target, UnitHere, DrivesStay DEF IInv, MapOK, ReqOK
<1>2. /\ Grown(Here) \in Contents
      /\ \A p \in Positions : content[Image][p] # Absent => Grown(Here)[p] = content[Image][p]
  <2>1. Here \in 0 .. Here
    BY <1>1, DriveAssumption DEF Positions
  <2> QED BY <1>1, <2>1, GrownKeeps
<1>3. CASE ReadSector
  <2>1. reply' = FD!Done(unit[Image][Aim]) /\ unit[Image][Aim] # Absent /\ Image # None
    BY <1>1, <1>3, UnitHere DEF ReadSector, FD!Done, Done
  <2>2. unit' = unit
    BY <1>3, UnitStays DEF ReadSector
  <2>3. FD!Read(req.drive, Aim)
    BY <1>1, <2>1, <2>2 DEF FD!Read
  <2> QED BY <1>1, <2>3 DEF FD!Next
<1>4. CASE ReadFails
  <2>1. unit' = unit /\ reply' = FD!Error
    BY <1>4, UnitStays DEF ReadFails, FD!Error, Error
  <2> QED BY <1>1, <2>1 DEF FD!Next, FD!Fail
<1>5. CASE WriteSector
  <2> DEFINE c == [Grown(Here) EXCEPT ![Here] = req.value]
  <2>1. c \in Contents /\ c[Here] = req.value
    BY <1>1, <1>2 DEF Contents
  <2>2. \A p \in Positions \ {Here} : content[Image][p] # Absent => c[p] = content[Image][p]
    BY <1>2 DEF Contents
  <2>3. content' = [content EXCEPT ![Image] = c]
    BY <1>5 DEF WriteSector, Stored
  <2>4. FD!Store(req.drive, Aim, req.value)
    BY <1>0, <1>1, <2>1, <2>2, <2>3, OneStore
  <2>5. FD!Write(req.drive, Aim, req.value)
    BY <1>5, <2>4 DEF WriteSector, FD!Write, FD!Done, Done
  <2> QED BY <1>1, <2>5 DEF FD!Next
<1>6. CASE WriteFails
  BY <1>0, <1>1, <1>6, GrowthMaps DEF WriteFails
<1>7. CASE CloseFailed
  <2>1. PICK c \in Contents :
          /\ content' = [content EXCEPT ![Image] = c]
          /\ c[Here] \in {req.value, Torn, content[Image][Here]}
          /\ \A p \in Positions : content[Image][p] # Absent => p = Here \/ c[p] \in {content[Image][p], Torn}
    BY <1>1, <1>2, <1>7, LostContent
  <2>2. FD!LoseWrite(req.drive, Aim, req.value)
    BY <1>0, <1>1, <1>7, <2>1, OneLoss DEF CloseFailed
  <2> QED BY <1>1, <2>2 DEF FD!Next
<1> QED
  BY <1>3, <1>4, <1>5, <1>6, <1>7 DEF Transfers

LEMMA StepMaps ==
  ASSUME IInv, UnitOK, UnitOK', [Next]_vars
  PROVE  [FD!Next]_(FD!vars)
<1> USE DEF FD!vars
<1>1. CASE UNCHANGED vars
  BY <1>1, UnitStays, DrivesStay DEF vars, cardVars, fdcVars
<1>2. CASE PowerCut \/ CardInHost \/ Boot \/ LendCard
  BY <1>2, WholeChange DEF FD!Next
<1>3. ASSUME NEW d \in Drives, NEW name \in Names, MountDisk(d, name)
      PROVE  FD!Next
  <2>1. disks' = [disks EXCEPT ![d] = name] /\ UNCHANGED <<card, content, reply>>
    BY <1>3 DEF MountDisk, cardVars, fdcVars
  <2> QED BY <2>1, OneChange DEF FD!Next
<1>4. ASSUME NEW d \in Drives, Unmount(d)
      PROVE  FD!Next
  <2>1. disks' = [disks EXCEPT ![d] = None] /\ UNCHANGED <<card, content, reply>>
    BY <1>4 DEF Unmount, cardVars, fdcVars
  <2> QED BY <2>1, OneChange DEF FD!Next
<1>5. CASE Go \/ SaveConfig \/ Open \/ Update \/ Stop \/ \E r \in Requests : Request(r)
  <2>1. UNCHANGED <<disks, card, content, reply>>
    BY <1>5 DEF Go, SaveConfig, Request, Open, Update, Stop, cardVars, fdcVars
  <2> QED BY <2>1, UnitStays, DrivesStay
<1>6. ASSUME NEW d \in RequestDrives, Refuse(d)
      PROVE  FD!Next
  <2>1. UNCHANGED <<disks, card, content>> /\ reply' = FD!Error
    BY <1>6 DEF Refuse, cardVars, FD!Error, Error
  <2> QED BY <2>1, UnitStays, DrivesStay DEF FD!Next, FD!Fail
<1>7. CASE OpenFails
  <2>1. pc = "open" /\ UNCHANGED <<disks, card>> /\ reply' = Error
    BY <1>7 DEF OpenFails
  <2>2. CASE UNCHANGED content
    BY <2>1, <2>2, UnitStays, DrivesStay DEF FD!Next, FD!Fail, FD!Error, Error
  <2>3. CASE CanOpen(Name, "write") /\ MayGrow
    BY <2>1, <2>3, TargetImage, GrowthMaps
  <2> QED BY <1>7, <2>2, <2>3 DEF OpenFails
<1>8. CASE Transfers
  BY <1>8, TransferMaps
<1> QED
  BY <1>1, <1>2, <1>3, <1>4, <1>5, <1>6, <1>7, <1>8 DEF Next, Transfers

(* The drives implement DriveArray: a write reported as done changes its   *)
(* sector of the disk in its drive and nothing else that was written on    *)
(* any disk, a read gets what was written last; only where f_close() may   *)
(* fail can what was written be lost, or torn with the sectors around it.  *)
(* Nothing is assumed of the names in the drives.                          *)
THEOREM Refinement == Spec => IsDriveArray
<1>1. Init => FD!Init
  <2>1. Init => IInv
    BY InitOK
  <2>2. Init => reply = FD!Error
    BY DEF Init, FD!Error, Error
  <2> QED BY <2>1, <2>2, UnitType DEF FD!Init, UnitOK
<1>2. IInv => UnitOK
  BY UnitType
<1>3. IInv /\ UnitOK /\ UnitOK' /\ [Next]_vars => [FD!Next]_(FD!vars)
  BY StepMaps
<1> QED BY <1>1, <1>2, <1>3, Invariance, PTL DEF Spec, IsDriveArray, FD!Spec
=============================================================================
