------------------------------- MODULE FatFs -------------------------------
(***************************************************************************)
(* The file system on the SD card: FatFs (ff15/source/ff.c) as picosim     *)
(* uses it.  One file is open at a time: a disk image of which a record is *)
(* read or written (srcsim/disks.c), or the configuration file that is     *)
(* truncated and written anew (srcsim/simcfg.c).                           *)
(*                                                                         *)
(* Directory and file allocation table (FAT) pass through one sector sized *)
(* window, written back when another sector is wanted; the data of the     *)
(* open file passes through a sector buffer of its own.  Any access to the *)
(* card may fail, and the power may go at any moment: what counts then is  *)
(* the order in which the sectors were written.                            *)
(*                                                                         *)
(* Abstractions: the card writes a sector or not (BlockDevice has the torn *)
(* ones); a directory of one sector; clusters of one sector; files in      *)
(* records, PerSector of them in a sector (four on the machine); no exFAT, *)
(* no FAT12 entries across sectors; no second FAT, which is only written.  *)
(* The volume has no FSInfo sector (FAT16, or FAT32 without one), from     *)
(* which f_mount() would take the number of free clusters and the last one *)
(* allocated: here neither is known after a mount, and the search starts   *)
(* at the first cluster.                                                   *)
(***************************************************************************)
EXTENDS Integers, Sequences

CONSTANTS Images,       \* disk images
          Conf,         \* the configuration file
          NoFile,       \* neither
          LastCluster,  \* clusters are 2 .. LastCluster
          PerFat,       \* FAT entries in a sector
          PerSector,    \* records in a sector
          Data,         \* what is written to a record
          Blank,        \* a record nobody has written
          MaxFaults     \* bound on failed accesses and cut operations

Files == Images \cup {Conf}

ASSUME FilesAssumption == Conf \notin Images /\ NoFile \notin Files
(* mount_volume() refuses a volume without clusters *)
ASSUME VolumeAssumption == LastCluster \in Nat /\ LastCluster >= 2
ASSUME SectorAssumption == PerFat \in Nat \ {0} /\ PerSector \in Nat \ {0}

Clusters == 2 .. LastCluster
Free == 0
EOC == -1               \* end of chain
Dir == 0                \* the directory sector; FAT sectors are 1, 2, ...
NoSector == -1
DiskError == -2
FatSector(c) == 1 + c \div PerFat
Absent == [sclust |-> -1, size |-> 0]

VARIABLES
  card,                 \* sectors of directory and FAT
  data,                 \* data sectors, by cluster
  win,                  \* the window: sector, content, wflag
  last_clst,            \* last allocated cluster
  locked,               \* files that FatFS counts as open
  op,                   \* what the program wants
  fp,                   \* the file object
  pc,                   \* next step
  x,                    \* locals of f_lseek(), create_chain(), remove_chain()
  saved,                \* ghost: what each record of a file may be, and its least size
  faults                \* ghost: accesses that failed and operations cut short

ghosts == <<saved, faults>>
vars == <<card, data, win, last_clst, locked, op, fp, pc, x, ghosts>>

Records == 0 .. PerSector - 1
Values == Data \cup {Blank}
NoOp == [kind |-> "none", file |-> NoFile, pos |-> 0, val |-> Blank, ok |-> FALSE]
NoLocals == [ofs |-> 0, clst |-> 0, ncl |-> 0, scl |-> 0, ret |-> "none", res |-> 0]
Unread == [sect |-> NoSector, content |-> <<>>, wflag |-> FALSE]
Closed == [sclust |-> 0, objsize |-> 0, fptr |-> 0, clust |-> 0, sect |-> 0,
           buf |-> [r \in Records |-> Blank], dirty |-> FALSE, modified |-> FALSE]

(***************************************************************************)
(* A volume: the chains of its files.                                      *)
(***************************************************************************)
Entry(f) == card[Dir][f]
Fat(v, c) == v[FatSector(c)][c]

(* s lists the clusters of the chain that begins at c; there is none if c is not a cluster *)
IsChain(v, s, c) ==
  /\ Len(s) = 0 <=> c \notin Clusters
  /\ Len(s) > 0 => s[1] = c
  /\ \A i \in 1 .. Len(s) : Fat(v, s[i]) = IF i = Len(s) THEN EOC ELSE s[i + 1]
  /\ \A i, j \in 1 .. Len(s) : i # j => s[i] # s[j]

(* on the volume v the files have the chains ch, long enough and apart *)
OnChains(v, ch) ==
  \A f \in Files :
    /\ IsChain(v, ch[f], v[Dir][f].sclust)
    /\ v[Dir][f].size <= PerSector * Len(ch[f])
    /\ \A g \in Files \ {f} : \A i \in 1 .. Len(ch[f]), j \in 1 .. Len(ch[g]) : ch[f][i] # ch[g][j]

Layouts == [Files -> UNION {[1 .. n -> Clusters] : n \in 0 .. LastCluster - 1}]

InOrder(v) == \E ch \in Layouts : OnChains(v, ch)

(* and the clusters that are allocated are those of the files *)
NothingLost(v) ==
  \E ch \in Layouts :
    /\ OnChains(v, ch)
    /\ \A c \in Clusters : Fat(v, c) # Free => \E f \in Files : \E i \in 1 .. Len(ch[f]) : c = ch[f][i]

(***************************************************************************)
(* Mounting: any volume that another computer has left in order.           *)
(***************************************************************************)
Mounted ==
  /\ win' = Unread /\ last_clst' = 0 /\ locked' = {}
  /\ op' = NoOp /\ fp' = Closed /\ pc' = "idle" /\ x' = NoLocals

(* the sectors of a FAT and a directory *)
Sectors(dir, fat) ==
  [s \in {Dir} \cup {FatSector(c) : c \in Clusters} |->
     IF s = Dir THEN dir ELSE [c \in {d \in Clusters : FatSector(d) = s} |-> fat[c]]]

Entries == {Absent} \cup [sclust : {0} \cup Clusters, size : 0 .. PerSector * (LastCluster - 1)]

Init ==
  /\ card \in {Sectors(dir, fat) : dir \in [Files -> Entries], fat \in [Clusters -> {Free, EOC} \cup Clusters]}
  /\ data = [c \in Clusters |-> [r \in Records |-> Blank]]
  /\ NothingLost(card)
  /\ win = Unread /\ last_clst = 0 /\ locked = {}
  /\ op = NoOp /\ fp = Closed /\ pc = "idle" /\ x = NoLocals
  /\ saved = [f \in Files |-> [least |-> Entry(f).size, recs |-> [i \in 1 .. Entry(f).size |-> {Blank}]]]
  /\ faults = 0

(***************************************************************************)
(* The window.                                                             *)
(***************************************************************************)
Flushed == [card EXCEPT ![win.sect] = win.content]

(* what sync_window() leaves; a write that fails may have been done *)
sync_window ==
  IF ~win.wflag
    THEN {[ok |-> TRUE, card |-> card, win |-> win]}
    ELSE {[ok |-> TRUE, card |-> Flushed, win |-> [win EXCEPT !.wflag = FALSE]]}
           \cup {[ok |-> FALSE, card |-> c, win |-> win] : c \in {card, Flushed}}

move_window(sect) ==
  IF sect = win.sect
    THEN {[ok |-> TRUE, card |-> card, win |-> win]}
    ELSE {s \in sync_window : ~s.ok}
           \cup UNION {{[ok |-> TRUE, card |-> s.card,
                         win |-> [sect |-> sect, content |-> s.card[sect], wflag |-> FALSE]],
                        [ok |-> FALSE, card |-> s.card,
                         win |-> [s.win EXCEPT !.sect = NoSector]]} : s \in {t \in sync_window : t.ok}}

(* the window of move_window() with one of its entries changed *)
Put(w, i, entry) ==
  [sect |-> w.sect, content |-> [w.content EXCEPT ![i] = entry], wflag |-> TRUE]

(* what get_fat() returns when move_window() has ended with m *)
get_fat(m, clst) == IF m.ok THEN m.win.content[clst] ELSE DiskError

Fault(happens) ==
  /\ faults' = faults + (IF happens THEN 1 ELSE 0)
  /\ faults' <= MaxFaults

(* the outcome m of a window operation; w is the window then *)
Window(m, w) == card' = m.card /\ win' = w /\ Fault(~m.ok)

Goto(label) == pc' = label /\ UNCHANGED <<op, locked>>

(* the function fails before there is an open file *)
Fail == pc' = "idle" /\ op' = NoOp /\ fp' = Closed /\ x' = NoLocals /\ UNCHANGED locked
(* the program closes the file, whatever the transfer gave *)
ThenClose(ok, val) ==
  /\ pc' = "close" /\ op' = [op EXCEPT !.ok = ok, !.val = val]
  /\ x' = NoLocals /\ UNCHANGED locked
Abort == ThenClose(FALSE, op.val)

(***************************************************************************)
(* What the program asks for.  saved is widened by what the operation may  *)
(* leave if it does not get to its end.                                    *)
(***************************************************************************)
Size(f) == IF win.sect = Dir THEN win.content[f].size ELSE Entry(f).size
Known(f, i) == IF i <= Size(f) THEN saved[f].recs[i] ELSE Values

Start(kind, f, pos, val) ==
  /\ pc = "idle"
  /\ op' = [kind |-> kind, file |-> f, pos |-> pos, val |-> val, ok |-> FALSE]
  /\ pc' = "open"
  /\ UNCHANGED <<card, data, win, last_clst, locked, fp, x, faults>>

ReadRecord(f, pos) == Start("read", f, pos, Blank) /\ UNCHANGED saved

WriteRecord(f, pos, val) ==
  /\ Start("write", f, pos, val)
  /\ saved' = [saved EXCEPT ![f].recs =
       [i \in 1 .. IF pos < Size(f) THEN Len(@) ELSE pos + 1 |->
          IF i # pos + 1 THEN Known(f, i)
          ELSE IF pos < Size(f) THEN @[i] \cup {val} ELSE {val}]]

SaveConfig(val) ==
  /\ Start("save", Conf, 0, val)
  /\ LET recs == saved[Conf].recs
     IN saved' = [saved EXCEPT ![Conf] =
          [least |-> 0, recs |-> IF recs = <<>> THEN <<{val}>> ELSE [recs EXCEPT ![1] = @ \cup {val}]]]

(***************************************************************************)
(* f_open()                                                                *)
(***************************************************************************)
(* the file object of directory entry e; f_lseek() follows *)
FileObject(e) ==
  /\ fp' = [Closed EXCEPT !.sclust = e.sclust, !.objsize = e.size, !.modified = (op.kind = "save")]
  /\ LET ofs == IF op.kind = "read" /\ op.pos > e.size THEN e.size ELSE op.pos
     IN x' = [NoLocals EXCEPT !.ofs = ofs] /\ Goto(IF ofs = 0 THEN "transfer" ELSE "seek")

Empty == [sclust |-> 0, size |-> 0]

(* the directory was read, the file is not open already and is there or is made *)
Opens(m) ==
  m.ok /\ op.file \notin locked /\ (op.kind = "save" \/ m.win.content[op.file] # Absent)

f_open ==
  /\ pc = "open"
  /\ UNCHANGED <<data, last_clst, saved>>
  /\ \E m \in move_window(Dir) :
       IF ~Opens(m) THEN Window(m, m.win) /\ Fail
       ELSE LET entry == m.win.content[op.file] IN
         \/ op.kind # "save" /\ Window(m, m.win) /\ FileObject(entry)
         \/ /\ op.kind = "save" /\ Window(m, Put(m.win, Conf, Empty))
            /\ IF entry.sclust > 0
                 THEN Goto("remove") /\ x' = [x EXCEPT !.clst = entry.sclust, !.scl = entry.sclust] /\ UNCHANGED fp
                 ELSE FileObject(Empty)

(* Mutant: the last cluster of the chain is not freed. *)
MutEndsAt(nxt) == nxt \notin Clusters

(* an empty cluster: nothing to free *)
EndsAt(nxt) == nxt = Free

(* one cluster of the old chain is freed *)
remove_chain ==
  /\ pc = "remove"
  /\ UNCHANGED <<data, last_clst, saved>>
  /\ \E m \in move_window(FatSector(x.clst)) :
       LET nxt == get_fat(m, x.clst) IN
       \/ ~m.ok /\ Window(m, m.win) /\ Fail
       \/ /\ m.ok /\ UNCHANGED fp
          /\ Window(m, IF EndsAt(nxt) THEN m.win ELSE Put(m.win, x.clst, Free))
          /\ IF nxt \in Clusters
               THEN x' = [x EXCEPT !.clst = nxt] /\ Goto("remove")
               ELSE UNCHANGED x /\ Goto("reopen")

(* back to the directory sector; the hole is used again *)
ReopenTruncated ==
  /\ pc = "reopen"
  /\ UNCHANGED <<data, saved>>
  /\ last_clst' = x.scl - 1
  /\ \E m \in move_window(Dir) :
       /\ Window(m, m.win)
       /\ IF m.ok THEN FileObject(m.win.content[Conf]) ELSE Fail

(***************************************************************************)
(* create_chain(clst): a cluster that follows clst, or the first one of a  *)
(* chain if clst is 0.  Its result is x.res: a cluster, NoSpace or Broken. *)
(***************************************************************************)
NoSpace == 0
Broken == 1
Valid(c) == c \in Clusters

CreateChain(clst, ret, locals) ==
  /\ x' = [locals EXCEPT !.clst = clst, !.ret = ret,
            !.scl = IF clst # 0 THEN clst ELSE IF Valid(last_clst) THEN last_clst ELSE 1,
            !.ncl = IF clst # 0 THEN 0 ELSE IF Valid(last_clst) THEN last_clst ELSE 1]
  /\ Goto(IF clst # 0 THEN "stretch" ELSE "search")

Return(res) == x' = [NoLocals EXCEPT !.ofs = x.ofs, !.res = res] /\ Goto(x.ret)

(* one look at the FAT, and Then what its value tells *)
Look(clst, Then(_)) ==
  /\ UNCHANGED <<data, last_clst, saved, fp>>
  /\ \E m \in move_window(FatSector(clst)) :
       /\ Window(m, m.win)
       /\ IF m.ok THEN Then(get_fat(m, clst)) ELSE Return(Broken)

(* the chain goes on already, or is stretched *)
Stretch ==
  /\ pc = "stretch"
  /\ Look(x.clst, LAMBDA cs :
       IF cs = Free THEN Return(Broken)
       ELSE IF Valid(cs) THEN Return(cs)
       ELSE UNCHANGED x /\ Goto("next"))

(* the next cluster, so that the file is contiguous *)
TryNext ==
  /\ pc = "next"
  /\ LET ncl == IF x.clst = LastCluster THEN 2 ELSE x.clst + 1
         start == IF Valid(last_clst) THEN last_clst ELSE x.scl
     IN Look(ncl, LAMBDA cs :
          IF cs = Free THEN x' = [x EXCEPT !.ncl = ncl] /\ Goto("alloc")
          ELSE x' = [x EXCEPT !.scl = start, !.ncl = start] /\ Goto("search"))

Search ==
  /\ pc = "search"
  /\ LET wraps == x.ncl = LastCluster
         ncl == IF wraps THEN 2 ELSE x.ncl + 1
     IN IF wraps /\ ncl > x.scl
          THEN Return(NoSpace) /\ UNCHANGED <<card, data, win, last_clst, fp, ghosts>>
          ELSE Look(ncl, LAMBDA cs :
                 IF cs = Free THEN x' = [x EXCEPT !.ncl = ncl] /\ Goto("alloc")
                 ELSE IF ncl = x.scl THEN Return(NoSpace)
                 ELSE x' = [x EXCEPT !.ncl = ncl] /\ Goto("search"))

(* put_fat(clst, val), and Then the next step *)
PutFat(clst, val, Then) ==
  /\ UNCHANGED <<data, saved, fp>>
  /\ \E m \in move_window(FatSector(clst)) :
       IF m.ok THEN Window(m, Put(m.win, clst, val)) /\ Then
       ELSE Window(m, m.win) /\ Return(Broken) /\ UNCHANGED last_clst

Created == last_clst' = x.ncl /\ Return(x.ncl)

(* Mutant: the new cluster is linked before it is marked as the last one. *)
MutAlloc ==
  \/ pc = "alloc" /\ x.clst # 0 /\ PutFat(x.clst, x.ncl, UNCHANGED <<x, last_clst>> /\ Goto("link"))
  \/ pc = "alloc" /\ x.clst = 0 /\ PutFat(x.ncl, EOC, Created)
  \/ pc = "link" /\ PutFat(x.ncl, EOC, Created)

(* the new cluster ends a chain before the chain leads to it *)
Alloc ==
  \/ pc = "alloc" /\ PutFat(x.ncl, EOC, IF x.clst = 0 THEN Created ELSE UNCHANGED <<x, last_clst>> /\ Goto("link"))
  \/ pc = "link" /\ PutFat(x.clst, x.ncl, Created)

(***************************************************************************)
(* f_lseek() from the start of the file, x.ofs of the way are left         *)
(***************************************************************************)
ForWriting == op.kind # "read"

(* the file object with its pointer at ptr, which extends the file *)
At(ptr) ==
  [fp EXCEPT !.fptr = ptr, !.objsize = IF ForWriting /\ ptr > @ THEN ptr ELSE @,
             !.modified = @ \/ (ForWriting /\ ptr > fp.objsize)]

(* clst and fp.fptr are those of the cluster before the target *)
SeekStep(clst) ==
  LET ptr == fp.fptr + PerSector IN
  IF ForWriting
    THEN /\ fp' = [At(ptr) EXCEPT !.clust = clst]
         /\ CreateChain(clst, "sought", [x EXCEPT !.ofs = @ - PerSector])
         /\ UNCHANGED <<card, win, faults>>
    ELSE \E m \in move_window(FatSector(clst)) :
           /\ Window(m, m.win)
           /\ IF m.ok /\ Valid(get_fat(m, clst))
                THEN /\ fp' = [fp EXCEPT !.fptr = ptr, !.clust = get_fat(m, clst)]
                     /\ x' = [x EXCEPT !.ofs = @ - PerSector, !.res = get_fat(m, clst)]
                     /\ Goto("sought")
                ELSE Abort /\ UNCHANGED fp

(* the target is in the cluster clst *)
SeekEnd(clst, ofs) ==
  LET to == [At(fp.fptr + ofs) EXCEPT !.clust = clst] IN
  /\ UNCHANGED <<card, win>>
  /\ IF to.fptr % PerSector = 0
       THEN fp' = to /\ x' = NoLocals /\ Goto("transfer") /\ UNCHANGED faults
       ELSE \/ fp' = [to EXCEPT !.sect = clst, !.buf = data[clst]] /\ x' = NoLocals /\ Goto("transfer") /\ UNCHANGED faults
            \/ fp' = to /\ Abort /\ Fault(TRUE)

f_lseek ==
  /\ pc \in {"seek", "first", "sought"}
  /\ UNCHANGED <<data, last_clst, saved>>
  /\ LET clst == IF pc = "seek" THEN fp.sclust ELSE x.res IN
     \/ /\ pc = "seek" /\ clst = 0
        /\ CreateChain(0, "first", x) /\ UNCHANGED <<card, win, faults, fp>>
     \/ /\ pc = "first" /\ clst # Broken
        /\ fp' = [fp EXCEPT !.sclust = clst, !.clust = clst]
        /\ UNCHANGED <<card, win, faults, x>> /\ Goto(IF clst = NoSpace THEN "transfer" ELSE "sought")
     \/ pc # "first" /\ Valid(clst) /\ IF x.ofs > PerSector THEN SeekStep(clst) ELSE SeekEnd(clst, x.ofs)
     \/ pc = "sought" /\ clst = NoSpace /\ SeekEnd(fp.clust, 0)
     \/ pc # "seek" /\ clst = Broken /\ Abort /\ UNCHANGED <<card, win, faults, fp>>

(***************************************************************************)
(* f_read() and f_write() of one record                                    *)
(***************************************************************************)
OnBoundary == fp.fptr % PerSector = 0

(* The record at the file pointer of sector buffer buf is read.  The file   *)
(* object is not needed to close a file that was not changed.               *)
Deliver(buf) ==
  /\ fp' = Closed
  /\ ThenClose(TRUE, buf[fp.fptr % PerSector])

ReadAt(m, clst) ==
  \/ m.ok /\ Valid(clst) /\ Window(m, m.win) /\ Deliver(data[clst])
  \/ UNCHANGED fp /\ Abort /\ card' = m.card /\ win' = m.win /\ Fault(TRUE)

f_read ==
  /\ pc = "transfer" /\ op.kind = "read"
  /\ UNCHANGED <<data, last_clst, saved>>
  /\ \/ fp.fptr >= fp.objsize /\ Abort /\ UNCHANGED <<card, win, faults, fp>>
     \/ fp.fptr < fp.objsize /\ ~OnBoundary /\ Deliver(fp.buf) /\ UNCHANGED <<card, win, faults>>
     \/ fp.fptr < fp.objsize /\ fp.fptr = 0 /\ ReadAt([ok |-> TRUE, card |-> card, win |-> win], fp.sclust)
     \/ /\ fp.fptr < fp.objsize /\ fp.fptr > 0 /\ OnBoundary
        /\ \E m \in move_window(FatSector(fp.clust)) : ReadAt(m, get_fat(m, fp.clust))

(* the record goes to the sector buffer of f *)
Store(f) ==
  /\ fp' = [f EXCEPT !.buf[f.fptr % PerSector] = op.val, !.dirty = TRUE, !.modified = TRUE,
                     !.fptr = @ + 1, !.objsize = IF f.fptr < @ THEN @ ELSE f.fptr + 1]
  /\ ThenClose(TRUE, op.val)

WriteWithin ==
  /\ pc = "transfer" /\ op.kind # "read"
  /\ UNCHANGED <<card, data, win, last_clst, ghosts>>
  /\ \/ ~OnBoundary /\ Store(fp)
     \/ /\ OnBoundary /\ fp.fptr = 0 /\ fp.sclust # 0
        /\ x' = [x EXCEPT !.res = fp.sclust] /\ Goto("fill") /\ UNCHANGED fp
     \/ /\ OnBoundary /\ (fp.fptr > 0 \/ fp.sclust = 0)
        /\ CreateChain(IF fp.fptr = 0 THEN 0 ELSE fp.clust, "fill", x) /\ UNCHANGED fp

(* Mutant: the sector is taken for a new one. *)
MutInsideFile == fp.fptr > fp.objsize

(* inside the file the old content of the sector is wanted *)
InsideFile == fp.fptr < fp.objsize

(* Mutant: only a full card is noticed, no other error. *)
MutGot(clst) == clst # NoSpace

(* a cluster, not an error *)
Got(clst) == clst \in Clusters

(* the sector of the record is known *)
WriteSector ==
  /\ pc = "fill"
  /\ UNCHANGED <<card, data, win, last_clst, saved>>
  /\ LET f == [fp EXCEPT !.clust = x.res, !.sect = x.res, !.sclust = IF @ = 0 THEN x.res ELSE @]
     IN \/ Got(x.res) /\ Store([f EXCEPT !.buf = IF InsideFile THEN data[x.res] ELSE @]) /\ UNCHANGED faults
        \/ Got(x.res) /\ InsideFile /\ fp' = f /\ Abort /\ Fault(TRUE)
        \/ x.res = NoSpace /\ fp' = [fp EXCEPT !.modified = TRUE] /\ Abort /\ UNCHANGED faults
        \/ x.res = Broken /\ Abort /\ UNCHANGED <<fp, faults>>

(***************************************************************************)
(* f_close(): f_sync() writes the sector buffer, then the directory entry. *)
(* A file that could not be synced stays open.                             *)
(***************************************************************************)
LeftOpen == locked' = locked \cup {op.file} /\ pc' = "idle" /\ op' = NoOp /\ fp' = Closed /\ x' = NoLocals

ClosedWell ==
  /\ Fail
  /\ saved' = IF op.ok /\ op.kind # "read"
                THEN [saved EXCEPT ![op.file] =
                  [least |-> IF op.pos < @.least THEN @.least ELSE op.pos + 1,
                   recs |-> [@.recs EXCEPT ![op.pos + 1] = {op.val}]]]
                ELSE saved

CloseUnchanged ==
  /\ pc = "close" /\ ~fp.modified /\ ClosedWell
  /\ UNCHANGED <<card, data, win, last_clst, faults>>

WriteBack ==
  /\ pc = "close" /\ fp.modified /\ fp.dirty
  /\ UNCHANGED <<card, win, last_clst, saved>>
  /\ LET written == [data EXCEPT ![fp.sect] = fp.buf] IN
     \/ data' = written /\ fp' = [fp EXCEPT !.dirty = FALSE] /\ UNCHANGED <<locked, op, pc, x, faults>>
     \/ data' \in {data, written} /\ LeftOpen /\ Fault(TRUE)

UpdateEntry ==
  /\ pc = "close" /\ fp.modified /\ ~fp.dirty
  /\ UNCHANGED <<data, last_clst, saved>>
  /\ \E m \in move_window(Dir) :
       IF m.ok
         THEN /\ Window(m, Put(m.win, op.file, [sclust |-> fp.sclust, size |-> fp.objsize]))
              /\ Goto("sync") /\ UNCHANGED <<fp, x>>
         ELSE Window(m, m.win) /\ LeftOpen

SyncEntry ==
  /\ pc = "sync"
  /\ UNCHANGED <<data, last_clst>>
  /\ \E m \in sync_window :
       Window(m, m.win) /\ IF m.ok THEN ClosedWell ELSE LeftOpen /\ UNCHANGED saved

(***************************************************************************)
(* The power goes, or the card is changed: f_unmount(), which writes       *)
(* nothing, and f_mount().                                                 *)
(***************************************************************************)
Remount ==
  /\ Mounted /\ Fault(pc # "idle")
  /\ UNCHANGED <<card, data, saved>>

Positions == 0 .. PerSector * (LastCluster - 1)

Request ==
  \/ ReadRecord(Conf, 0)
  \/ \E f \in Images, p \in Positions : ReadRecord(f, p)
  \/ \E f \in Images, p \in Positions, v \in Data : WriteRecord(f, p, v)
  \/ \E v \in Data : SaveConfig(v)

Step ==
  \/ f_open \/ remove_chain \/ ReopenTruncated
  \/ Stretch \/ TryNext \/ Search \/ Alloc \/ f_lseek
  \/ f_read \/ WriteWithin \/ WriteSector
  \/ CloseUnchanged \/ WriteBack \/ UpdateEntry \/ SyncEntry

Next == Request \/ Step \/ Remount

Spec == Init /\ [][Next]_vars

-----------------------------------------------------------------------------
(* The variables have their types: the window shows a sector of the volume *)
(* or nothing, and the file object never takes an error for a cluster.     *)
TypeOK ==
  /\ DOMAIN card = {Dir} \cup {FatSector(c) : c \in Clusters}
  /\ data \in [Clusters -> [Records -> Values]]
  /\ win.sect \in DOMAIN card \cup {NoSector} /\ win.wflag \in BOOLEAN
  /\ win.wflag => win.sect # NoSector
  /\ locked \subseteq Files
  /\ fp.buf \in [Records -> Values] /\ {fp.sclust, fp.clust, fp.sect} \subseteq {0} \cup Clusters

(* Whatever is cut short, and wherever: on the card the chains of the      *)
(* files end, do not meet, and are as long as the files (the order of the  *)
(* writes in f_open(), create_chain(), remove_chain() and f_sync()).       *)
VolumeSound == InOrder(card)

(* the files of the volume v hold what saved allows *)
Kept(v, ch) ==
  \A f \in Files :
    /\ v[Dir][f].size \in saved[f].least .. Len(saved[f].recs)
    /\ \A k \in 1 .. Len(ch[f]), r \in Records :
         LET i == PerSector * (k - 1) + r + 1
         IN i <= v[Dir][f].size => data[ch[f][k]][r] \in saved[f].recs[i]

(* Whatever is cut short, and wherever: a record on the card is one that   *)
(* was written to that place of that file, and the last one if its write   *)
(* was reported as done; a disk image never gets shorter; a configuration  *)
(* being saved is the old one, the new one or empty.  What is read is one  *)
(* of these too.                                                           *)
FilesKept ==
  /\ \E ch \in Layouts : OnChains(card, ch) /\ Kept(card, ch)
  /\ pc = "close" /\ op.kind = "read" /\ op.ok => op.val \in saved[op.file].recs[op.pos + 1]

(* As long as nothing fails every allocated cluster belongs to a file: the *)
(* configuration saved anew again and again does not use the card up.      *)
NoLostClusters == faults = 0 /\ pc = "idle" => NothingLost(card)
=============================================================================
