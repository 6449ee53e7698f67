------------------------------- MODULE Disks -------------------------------
(***************************************************************************)
(* The disk drives of picosim: srcsim/disks.c (sector I/O on image files   *)
(* on the SD card) and the commands of the configuration dialog that       *)
(* mount images, lend the card to the host and save the mount table        *)
(* (srcsim/simcfg.c), from one boot to the next.                           *)
(*                                                                         *)
(* All of it runs on core 0, one step after the other; any call to FatFS   *)
(* may fail, and the power may go at any step.  FatFS is modelled as far   *)
(* as these programs can tell: the image files, the sector that a file     *)
(* object caches until f_close(), and the locks it keeps for files that    *)
(* are open (FF_FS_LOCK, whose limit of 16 is not reached).  The card is   *)
(* assumed to stay in its slot while it is mounted.                        *)
(*                                                                         *)
(* An image is mounted by a name that is typed.  picosim compares names,   *)
(* FatFS opens files, and several names may open the same one: doubled     *)
(* separators are skipped, "." and ".." are followed, trailing spaces and  *)
(* dots are dropped, and a file with a long name has a short one as well.  *)
(***************************************************************************)
EXTENDS Integers

CONSTANTS
  NumDisk,        \* NUMDISK, the drives
  RequestDrives,  \* the drive numbers sd-fdc passes
  TRK, SPT,       \* highest track number, sectors per track
  Names,          \* paths of disk images, as mount_disk() makes them
  Images,         \* the image files
  None,           \* no name (disks[i] is the empty string), or no file
  ConfFile,       \* /CONF80/ CONF_FILE
  Data,           \* what a program writes to a sector
  Torn,           \* sector content nobody wrote
  Absent,         \* the image ends before the sector
  Blank,          \* images the host may put on the card
  CloseFails,     \* the card may fail when f_close() flushes what f_write() cached
  MaxWrites       \* bound: write requests that reach the card

Drives == 0 .. NumDisk - 1
Positions == 0 .. (TRK + 1) * SPT - 1
Sectors == (0 .. TRK) \X (1 .. SPT)
Contents == [Positions -> Data \cup {Torn, Absent}]
Mounts == [Drives -> Names \cup {None}]
Directories == [Names -> Images \cup {None}]
Modes == {"read", "write"}
NoReq == [drive |-> 0, track |-> 0, sector |-> 0, 
          rdwr |-> "read", value |-> Torn]

ASSUME DriveAssumption ==
  /\ NumDisk \in Nat /\ RequestDrives \subseteq Int
  /\ TRK \in Nat /\ SPT \in Nat \ {0}
  /\ CloseFails \in BOOLEAN /\ MaxWrites \in Nat
ASSUME NameAssumption == None \notin Names \cup Images /\ ConfFile \notin Images \cup {None}
ASSUME ContentAssumption ==
  /\ Blank \subseteq Contents
  /\ Torn \notin Data /\ Absent \notin Data /\ Torn # Absent
  /\ None \notin [Sectors -> Data \cup {Torn, Absent}]

VARIABLES
  pc,        \* where core 0 is
  disks,     \* the mount table
  saved,     \* the mount table in the configuration file
  card,      \* the file that a name opens, or None
  content,   \* what is in the files, by position
  checked,   \* check_disks() has run since power on
  open,      \* the files FatFS holds open, with their mode
  req,       \* the request under way
  reply,     \* the answer to the last one
  led,       \* the drive colours of the LED
  writes

cardVars == <<card, content>>
fdcVars == <<open, req, reply, led>>
vars == <<pc, disks, saved, cardVars, checked, fdcVars, writes>>

Error == [ok |-> FALSE]
Done(v) == [ok |-> TRUE, data |-> v]

TypeOK ==
  /\ pc \in {"off", "config", "saving", "run", "open", "transfer", "update", "stopped"}
  /\ disks \in Mounts /\ saved \in Mounts
  /\ card \in Directories
  /\ content \in [Images -> Contents]
  /\ checked \in BOOLEAN
  /\ open \subseteq (Images \cup {ConfFile}) \X Modes
  /\ req.drive \in RequestDrives \cup {0} /\ req.track \in Int /\ req.sector \in Int
  /\ reply.ok => reply.data \in Data \cup {Torn}
  /\ led \subseteq {"red", "green"}
  /\ writes \in 0 .. MaxWrites

Init ==
  /\ pc = "off"
  /\ disks = [d \in Drives |-> None]
  /\ saved = disks
  /\ card \in Directories
  /\ content \in [Images -> Blank]
  /\ checked = FALSE
  /\ open = {}
  /\ req = NoReq /\ reply = Error /\ led = {}
  /\ writes = 0

(***************************************************************************)
(* Files.  f_open() fails on a file that is not there, on an error of the  *)
(* card, on a file that is open for writing and, to write, on any file     *)
(* that is open.  f_close() leaves a file open when it cannot flush it.    *)
(***************************************************************************)
CanOpen(name, mode) ==
  /\ card[name] # None
  /\ <<card[name], "write">> \notin open
  /\ mode = "write" => <<card[name], "read">> \notin open

Mounted == {d \in Drives : disks[d] # None}

(* Mutant: nothing is checked. *)
MutCheckDisks(lost, directory) == disks

(* check_disks(): forget the names that cannot be opened.  A file that is  *)
(* there may fail to open, too.                                            *)
CheckDisks(lost, directory) ==
  [d \in Drives |->
    IF d \in Mounted \ lost /\ directory[disks[d]] # None THEN disks[d] ELSE None]

OnCard(directory) == {directory[name] : name \in Names} \ {None}

(* The files on the card, and their names, change while the host has it. *)
HostEdits ==
  \E now \in Directories, image \in Blank :
    \E kept \in SUBSET (OnCard(card) \cap OnCard(now)) :
      /\ card' = now
      /\ content' = [i \in Images |-> IF i \in kept THEN content[i] ELSE image]

(* Mutant: a track has one sector less than it is given numbers for. *)
MutPos(track, sector) == track * (SPT - 1) + sector - 1

(* the offset in the image, in sectors *)
Pos(track, sector) == track * SPT + sector - 1

(* the checks of prep_io() before it touches the card *)
InRange(r) ==
  /\ r.drive \in Drives
  /\ r.track <= TRK
  /\ r.sector \in 1 .. SPT
  /\ r.addr = "fits"
  /\ disks[r.drive] # None

Name == disks[req.drive]
Image == card[Name]
Here == Pos(req.track, req.sector)

(* the image after f_lseek() has made it grow to n sectors *)
Grown(n) == [p \in Positions |-> IF p < n /\ content[Image][p] = Absent
                                   THEN Torn ELSE content[Image][p]]

(* f_lseek() beyond the end, with no sector written after it, perhaps on a *)
(* card that is full                                                       *)
MayGrow == \E n \in 0 .. Here : content' = [content EXCEPT ![Image] = Grown(n)]

(* f_lseek() and f_write(), once the cache is flushed *)
Stored(v) == [content EXCEPT ![Image] = [Grown(Here) EXCEPT ![Here] = v]]

(* The same, when the card destroys the 512 byte sector of its own that    *)
(* holds this one and up to three more.                                    *)
StoreTorn ==
  [content EXCEPT ![Image] =
    [p \in Positions |->
      IF p = Here \/ (p \div 4 = Here \div 4 /\ Grown(Here)[p] # Absent)
        THEN Torn ELSE Grown(Here)[p]]]

(***************************************************************************)
(* Power, and the configuration dialog.                                    *)
(***************************************************************************)
(* FA_CREATE_ALWAYS: the old file, an empty one, or the new one *)
ConfigAfter == {saved, disks, [d \in Drives |-> None]}

PowerOff ==
  /\ pc # "off"
  /\ pc' = "off"
  /\ disks' = [d \in Drives |-> None]
  /\ open' = {}
  /\ req' = NoReq /\ reply' = Error /\ led' = {}
  /\ checked' = FALSE

(* The power goes.  A sector that was being written may be torn, and of    *)
(* the configuration file the old, an empty or the new one may remain.     *)
PowerCut ==
  /\ PowerOff
  /\ saved' \in IF pc = "saving" THEN ConfigAfter ELSE {saved}
  /\ \/ UNCHANGED content
     \/ /\ pc = "transfer" /\ req.rdwr = "write"
        /\ content' \in {Stored(req.value), StoreTorn}
  /\ UNCHANGED <<card, writes>>

CardInHost ==
  /\ pc = "off"
  /\ HostEdits
  /\ UNCHANGED <<pc, disks, saved, checked, fdcVars, writes>>

(* main(): init_disks(), then config() reads its file, when it can be read *)
Boot ==
  /\ pc = "off"
  /\ pc' = "config"
  /\ disks' \in {saved, disks}
  /\ UNCHANGED <<saved, cardVars, checked, fdcVars, writes>>

(* Mutant: the drives are not compared. *)
MutMountedElsewhere(d, name) == FALSE

MountedElsewhere(d, name) == \E i \in Drives \ {d} : disks[i] = name

(* mount_disk(): f_open() and f_close() show that a file is there *)
MountDisk(d, name) ==
  /\ pc = "config"
  /\ ~MountedElsewhere(d, name)
  /\ CanOpen(name, "read")
  /\ disks' = [disks EXCEPT ![d] = name]
  /\ UNCHANGED <<pc, saved, cardVars, checked, fdcVars, writes>>

(* an empty file name *)
Unmount(d) ==
  /\ pc = "config"
  /\ disks' = [disks EXCEPT ![d] = None]
  /\ UNCHANGED <<pc, saved, cardVars, checked, fdcVars, writes>>

(* "u": exit_disks(), stdio_msc_usb_do_msc(), init_disks(), check_disks();  *)
(* unmounting drops the locks                                              *)
LendCard ==
  /\ pc = "config"
  /\ HostEdits
  /\ \E lost \in SUBSET Mounted : disks' = CheckDisks(lost, card')
  /\ checked' = TRUE /\ open' = {}
  /\ UNCHANGED <<pc, saved, req, reply, led, writes>>

(* "g": the configuration file is truncated, written and closed; then the  *)
(* machine runs, whether this worked or not                                *)
Go ==
  /\ pc = "config"
  /\ pc' = "saving"
  /\ UNCHANGED <<disks, saved, cardVars, checked, fdcVars, writes>>

SaveConfig ==
  /\ pc = "saving"
  /\ pc' = "run"
  /\ saved' \in ConfigAfter
  /\ open' \in {open} \cup IF CloseFails THEN {open \cup {<<ConfFile, "write">>}} ELSE {}
  /\ UNCHANGED <<disks, cardVars, checked, req, reply, led, writes>>

(***************************************************************************)
(* Sector I/O: read_sec() and write_sec().                                 *)
(***************************************************************************)
(* all that is used from here on is the drive *)
Finish(drive) == pc' = "update" /\ req' = [NoReq EXCEPT !.drive = drive]

Requests ==
  [drive: RequestDrives, track: 0 .. TRK + 1, sector: 0 .. SPT + 1,
   addr: {"fits", "wraps"}, rdwr: Modes, value: Data]

Request(r) ==
  /\ pc = "run"
  /\ InRange(r)
  /\ pc' = "open"
  /\ req' = r
  /\ led' = {IF r.rdwr = "write" THEN "red" ELSE "green"}
  /\ UNCHANGED <<disks, saved, cardVars, checked, open, reply, writes>>

Refused == {r \in Requests : ~InRange(r)}

(* prep_io() fails before it touches the card *)
Refuse(d) ==
  /\ pc = "run"
  /\ d \in {r.drive : r \in Refused}
  /\ Finish(d)
  /\ reply' = Error
  /\ UNCHANGED <<disks, saved, cardVars, checked, open, led, writes>>

Open ==
  /\ pc = "open"
  /\ CanOpen(Name, req.rdwr)
  /\ pc' = "transfer"
  /\ open' = open \cup {<<Image, req.rdwr>>}
  /\ req.rdwr = "write" => writes < MaxWrites
  /\ writes' = IF req.rdwr = "write" THEN writes + 1 ELSE writes
  /\ UNCHANGED <<disks, saved, cardVars, checked, req, reply, led>>

(* Mutant: the seek fails and the file is not closed. *)
MutOpenFails ==
  /\ pc = "open"
  /\ Finish(req.drive)
  /\ reply' = Error
  /\ UNCHANGED open \/ (CanOpen(Name, req.rdwr) /\ open' = open \cup {<<Image, req.rdwr>>})
  /\ UNCHANGED <<disks, saved, cardVars, checked, led, writes>>

(* f_open() fails, or f_lseek() does and the file is closed.  A file that   *)
(* f_lseek() made grow before it failed has to be flushed.                 *)
OpenFails ==
  /\ pc = "open"
  /\ Finish(req.drive)
  /\ reply' = Error
  /\ \/ UNCHANGED <<content, open>>
     \/ /\ req.rdwr = "write" /\ CanOpen(Name, "write")
        /\ MayGrow
        /\ open' \in {open} \cup
             IF CloseFails THEN {open \cup {<<Image, "write">>}} ELSE {}
  /\ UNCHANGED <<disks, saved, card, checked, led, writes>>

Transfer(mode) ==
  /\ pc = "transfer"
  /\ req.rdwr = mode
  /\ Finish(req.drive)
  /\ UNCHANGED <<disks, saved, card, checked, led, writes>>

Close == open' = open \ {<<Image, req.rdwr>>}

(* f_close() of a file that has changed: it stays open for FatFS when it    *)
(* cannot be flushed                                                       *)
CloseChanged == Close \/ (CloseFails /\ UNCHANGED open)

ReadSector ==
  /\ Transfer("read")
  /\ content[Image][Here] # Absent
  /\ reply' = Done(content[Image][Here])
  /\ Close
  /\ UNCHANGED content

(* f_read() fails, or gets less than a sector *)
ReadFails ==
  /\ Transfer("read")
  /\ reply' = Error
  /\ Close
  /\ UNCHANGED content

WriteSector ==
  /\ Transfer("write")
  /\ content' = Stored(req.value)
  /\ reply' = Done(req.value)
  /\ Close

(* f_write() fails, or the card is full *)
WriteFails ==
  /\ Transfer("write")
  /\ MayGrow
  /\ reply' = Error
  /\ CloseChanged

(* f_write() put the sector in its cache, f_close() cannot write it.  The  *)
(* result of f_close() is not tested.                                      *)
CloseFailed ==
  /\ CloseFails
  /\ Transfer("write")
  /\ content' \in {content, StoreTorn, Stored(req.value)}
  /\ reply' = Done(req.value)
  /\ UNCHANGED open

(* lcd_update_drive(..., false) at the end of read_sec() and write_sec() *)
Update ==
  /\ pc = "update"
  /\ pc' = "run"
  /\ req' = NoReq
  /\ led' = {}
  /\ UNCHANGED <<disks, saved, cardVars, checked, open, reply, writes>>

(* run_cpu() returns: exit_disks(), then the reset after a key *)
Stop ==
  /\ pc = "run"
  /\ pc' = "stopped"
  /\ open' = {}
  /\ UNCHANGED <<disks, saved, cardVars, checked, req, reply, led, writes>>

Next ==
  \/ PowerCut
  \/ CardInHost
  \/ Boot
  \/ \E d \in Drives, name \in Names : MountDisk(d, name)
  \/ \E d \in Drives : Unmount(d)
  \/ LendCard
  \/ Go
  \/ SaveConfig
  \/ \E r \in Requests : Request(r)
  \/ \E d \in RequestDrives : Refuse(d)
  \/ Open
  \/ OpenFails
  \/ ReadSector
  \/ ReadFails
  \/ WriteSector
  \/ WriteFails
  \/ CloseFailed
  \/ Update
  \/ Stop

Spec == Init /\ [][Next]_vars

(***************************************************************************)
(* Properties.                                                             *)
(***************************************************************************)
(* No name is in two drives, whatever was mounted, saved, lost when the    *)
(* power went or read back at the next boot (mount_disk() compares with    *)
(* the other drives, nothing else does).  Two names of one image may be.   *)
OneDrivePerName ==
  \A t \in {disks, saved} : \A d, e \in Drives : t[d] = t[e] /\ d # e => t[d] = None

(* Once check_disks() has run, every mounted name opens a file until the   *)
(* power goes or the card is lent again.                                   *)
MountsExist == checked => \A d \in Mounted : card[disks[d]] # None

(* Whatever fails on the way, read_sec() and write_sec() leave no file     *)
(* open (FatFS would refuse to open the image from then on), but one that  *)
(* f_close() could not flush, and the drive LED off.                       *)
Leftover(file) == CloseFails /\ file[2] = "write"

NothingLeft ==
  /\ pc # "transfer" => \A file \in open : Leftover(file)
  /\ pc \notin {"open", "transfer", "update"} => led = {}

(* A sector whose write was reported as done is on the card (disks.c:319   *)
(* "write sector to disk image", status FDC_STAT_OK).                      *)
AcknowledgedIsOnCard ==
  [][pc = "transfer" /\ req.rdwr = "write" /\ reply'.ok
       => content'[Image][Here] = req.value]_vars

(* The drives are what DriveArray says: the disk in a drive is an array of *)
(* sectors, a request reaches one sector of the disk in one drive, and     *)
(* drives share what they hold only where two names of one image are in    *)
(* them.                                                                   *)
drive == [d \in Drives |-> IF d \in Mounted THEN card[disks[d]] ELSE None]
unit == [i \in Images |-> [x \in Sectors |-> content[i][Pos(x[1], x[2])]]]

FD == INSTANCE DriveArray WITH Floppies <- Images, NoDisk <- None, LateErrors <- CloseFails

IsDriveArray == FD!Spec
=============================================================================
