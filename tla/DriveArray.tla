----------------------------- MODULE DriveArray -----------------------------
(***************************************************************************)
(* What the floppy controller of picosim promises CP/M (srcsim/disks.c): a *)
(* drive holds a disk, and a disk is an array of sectors.  A write changes *)
(* the sector it names of the disk in the drive it names and no other one  *)
(* that has been written on any disk, a read gets what is in its sector,   *)
(* and a request that fails says so.  Only an error that comes late, when  *)
(* the write has been reported as done, may lose what was written, or tear *)
(* the sectors around it.                                                  *)
(***************************************************************************)
EXTENDS Naturals

CONSTANTS
  Drives,     \* the drive numbers
  Floppies,   \* the disks
  Sectors,    \* the sectors of a disk, <<track, sector>>
  Data,       \* what a program writes to a sector
  Torn,       \* content nobody wrote: a write that failed half way
  Absent,     \* the image file ends before the sector
  NoDisk,     \* the drive is empty
  LateErrors  \* the card may fail after the answer

Holdings == [Drives -> Floppies \cup {NoDisk}]
Arrays == [Sectors -> Data \cup {Torn, Absent}]

VARIABLES
  drive,      \* the disk in each drive
  unit,       \* what is on each disk
  reply       \* the answer to the last request

vars == <<drive, unit, reply>>

Error == [ok |-> FALSE]
Done(v) == [ok |-> TRUE, data |-> v]

Init ==
  /\ drive \in Holdings
  /\ unit \in [Floppies -> Arrays]
  /\ reply = Error

(* The disk in drive d gets the contents new. *)
Holds(d, new) ==
  /\ drive[d] # NoDisk
  /\ new \in Arrays
  /\ unit' = [unit EXCEPT ![drive[d]] = new]
  /\ UNCHANGED drive

(* Sector s of the disk in drive d becomes v, or stays.  A file that grows *)
(* to hold it brings sectors nobody wrote with it.                         *)
Store(d, s, v) ==
  LET old == unit[drive[d]]
      new == unit'[drive[d]]
  IN /\ Holds(d, new)
     /\ new[s] = v
     /\ \A x \in Sectors \ {s} : old[x] # Absent => new[x] = old[x]

Write(d, s, v) == reply' = Done(v) /\ Store(d, s, v)

(* the error that nobody is told of *)
LoseWrite(d, s, v) ==
  LET old == unit[drive[d]]
      new == unit'[drive[d]]
  IN /\ LateErrors
     /\ reply' = Done(v)
     /\ Holds(d, new)
     /\ new[s] \in {v, Torn, old[s]}
     /\ \A x \in Sectors \ {s} : old[x] # Absent => new[x] \in {old[x], Torn}

FailWrite(d, s) == reply' = Error /\ Store(d, s, unit[drive[d]][s])

Fail == reply' = Error /\ UNCHANGED <<drive, unit>>

Read(d, s) ==
  /\ drive[d] # NoDisk
  /\ unit[drive[d]][s] # Absent
  /\ reply' = Done(unit[drive[d]][s])
  /\ UNCHANGED <<drive, unit>>

(* The user changes or removes the disk of one drive. *)
Change(d) ==
  /\ drive'[d] \in Floppies \cup {NoDisk}
  /\ drive' = [drive EXCEPT ![d] = drive'[d]]
  /\ UNCHANGED <<unit, reply>>

(* Power off, or the card goes to the host: all the drives change. *)
ChangeAll ==
  /\ drive' \in Holdings
  /\ unit' \in [Floppies -> Arrays]
  /\ reply' \in {reply, Error}

Next ==
  \/ Fail
  \/ \E d \in Drives, s \in Sectors :
       \/ \E v \in Data : Write(d, s, v) \/ LoseWrite(d, s, v)
       \/ FailWrite(d, s)
       \/ Read(d, s)
  \/ \E d \in Drives : Change(d)
  \/ ChangeAll

Spec == Init /\ [][Next]_vars
=============================================================================
