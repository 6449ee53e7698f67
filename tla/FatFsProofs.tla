---------------------------- MODULE FatFsProofs ----------------------------
(***************************************************************************)
(* Proofs about FatFs for every number of files, clusters, records and     *)
(* faults.                                                                 *)
(***************************************************************************)
EXTENDS FatFs, FiniteSetTheorems, WellFoundedInduction, TLAPS

SectorSet == {Dir} \cup {FatSector(c) : c \in Clusters}
FatValues == {Free, EOC} \cup Clusters
EntrySet == [sclust : {-1, 0} \cup Clusters, size : Nat]
Contents(s) ==
  IF s = Dir THEN [Files -> EntrySet]
  ELSE [{c \in Clusters : FatSector(c) = s} -> FatValues]

IsVolume(v) == v = [s \in SectorSet |-> v[s]] /\ \A s \in SectorSet : v[s] \in Contents(s)

IsWindow(w) ==
  /\ w = [sect |-> w.sect, content |-> w.content, wflag |-> w.wflag]
  /\ w.sect \in SectorSet \cup {NoSector} /\ w.wflag \in BOOLEAN
  /\ w.sect \in SectorSet => w.content \in Contents(w.sect)
  /\ w.wflag => w.sect # NoSector

(* an unchanged window shows what is on the card *)
IsClean(c, w) == ~w.wflag /\ w.sect # NoSector => w.content = c[w.sect]

(* the volume as FatFS sees it *)
Cached(c, w) == IF w.wflag THEN [c EXCEPT ![w.sect] = w.content] ELSE c
Volume == Cached(card, win)

Creating == {"stretch", "next", "search", "alloc", "link"}
Working == {"seek", "first", "sought", "transfer", "fill"} \cup Creating
Closing == {"close", "sync"}
(* the file object is in use *)
IsOpen == pc \in Working \/ (pc \in Closing /\ fp.modified)

Requests == [kind : {"none", "read", "write", "save"}, file : Files \cup {NoFile}, pos : Nat,
             val : Values, ok : BOOLEAN]
FileObjects == [sclust : {0} \cup Clusters, objsize : Nat, fptr : Nat, clust : {0} \cup Clusters,
                sect : {0} \cup Clusters, buf : [Records -> Values], dirty : BOOLEAN, modified : BOOLEAN]
Locals == [ofs : Nat, clst : {0} \cup Clusters, ncl : 0 .. LastCluster, scl : 0 .. LastCluster,
           ret : {"none", "first", "sought", "fill"}, res : {NoSpace, Broken} \cup Clusters]

CardTypes == IsVolume(card) /\ IsWindow(win) /\ IsClean(card, win)

Types ==
  /\ CardTypes
  /\ data \in [Clusters -> [Records -> Values]]
  /\ last_clst \in Int /\ locked \subseteq Files /\ faults \in Nat
  /\ op \in Requests /\ fp \in FileObjects /\ x \in Locals
  /\ pc \in {"idle", "open", "remove", "reopen"} \cup Working \cup Closing

(* Where the function that is running was called. *)
Calls ==
  /\ pc \in {"idle", "open"} => fp = Closed
  /\ pc # "idle" => op.file \in Files /\ op.kind # "none"
  /\ op.kind = "save" => op.file = Conf /\ op.pos = 0
  /\ pc # "idle" /\ op.kind = "read" => ~fp.modified
  /\ op.kind = "write" => op.file \in Images
  /\ pc \in {"remove", "reopen"} => op.kind = "save"
  /\ pc \in Creating => x.ret \in {"first", "sought", "fill"}
  /\ pc \in Creating \cup {"first", "fill"} => op.kind # "read"
  /\ pc \in {"seek", "first", "sought"} \/ (pc \in Creating /\ x.ret # "fill") => op.kind # "save" /\ x.ofs > 0
  /\ pc \in {"remove", "stretch", "next", "link"} => x.clst \in Clusters
  /\ pc = "search" => x.ncl > 0 /\ x.scl > 0
  /\ pc \in {"stretch", "next"} => x.scl > 0
  /\ pc \in {"alloc", "link"} => x.ncl \in Clusters

-----------------------------------------------------------------------------
(* the chain from c *)
Chain(v, c) == CHOOSE s \in UNION {[1 .. n -> Clusters] : n \in 0 .. LastCluster - 1} : IsChain(v, s, c)

Owners == Files \cup {NoFile}

(* clusters that are in no file yet, or no more *)
Loose ==
  IF pc = "remove" THEN x.clst
  ELSE IF pc = "link" THEN x.ncl
  ELSE IF pc \in {"first", "fill"} /\ fp.sclust = 0 /\ Valid(x.res) THEN x.res
  ELSE 0

First(i) ==
  IF i = NoFile THEN Loose
  ELSE IF IsOpen /\ i = op.file THEN fp.sclust
  ELSE Volume[Dir][i].sclust

Firsts == [i \in Owners |-> First(i)]

Apart(s, t) == \A i \in 1 .. Len(s), j \in 1 .. Len(t) : s[i] # t[j]

Linked(v, h) ==
  /\ \A i \in Owners : Chain(v, h[i]) \in Seq(Clusters) /\ IsChain(v, Chain(v, h[i]), h[i])
  /\ \A i, j \in Owners : i # j => Apart(Chain(v, h[i]), Chain(v, h[j]))

Named(v, f) == Chain(v, v[Dir][f].sclust)
Fits(v) == \A f \in Files : v[Dir][f].size <= PerSector * Len(Named(v, f))

Own == Chain(Volume, fp.sclust)
On(c, k) == k \in 1 .. Len(Own) /\ Own[k] = c

(* the entry of the open file knows its chain or none *)
EntryOK ==
  IsOpen =>
    LET e == Volume[Dir][op.file] IN
    /\ e.sclust = fp.sclust \/ (e.sclust = 0 /\ e.size = 0)
    /\ fp.objsize <= PerSector * Len(Own)
    /\ op.kind = "read" => fp.sclust = e.sclust
    /\ pc = "sync" => e = [sclust |-> fp.sclust, size |-> fp.objsize]

AtFirst == fp.sclust = 0 /\ fp.fptr = 0
(* c is the cluster of the record at the pointer, which is its first one *)
Ahead(c) == fp.sclust # 0 /\ \E k \in 0 .. Len(Own) : fp.fptr = PerSector * k /\ On(c, k + 1)
(* the cluster before the pointer, which is at its end *)
Behind(c) == fp.sclust # 0 /\ \E k \in 0 .. Len(Own) : fp.fptr = PerSector * k /\ On(c, k)

PlaceOK ==
  /\ pc \in {"remove", "reopen"} => Volume[Dir][Conf] = Empty
  /\ pc = "seek" => fp.fptr = 0 /\ (op.kind = "read" => x.ofs <= fp.objsize)
  /\ pc = "first" => AtFirst /\ (Valid(x.res) => Chain(Volume, x.res) = <<x.res>>)
  /\ pc = "sought" => IF Valid(x.res) THEN Ahead(x.res) ELSE Behind(fp.clust)
  /\ pc = "transfer" =>
       \/ fp.fptr = 0
       \/ fp.sclust # 0 /\ \E k \in 0 .. Len(Own) :
            /\ On(fp.clust, k) /\ PerSector * (k - 1) < fp.fptr /\ fp.fptr <= PerSector * k
            /\ fp.fptr < PerSector * k => fp.sect = fp.clust
  /\ pc = "fill" /\ Valid(x.res) =>
       IF fp.sclust = 0 THEN AtFirst /\ Chain(Volume, x.res) = <<x.res>> ELSE Ahead(x.res)
  /\ pc \in Creating =>
       IF x.clst = 0 THEN AtFirst /\ x.ret # "sought" /\ pc \in {"search", "alloc"}
       ELSE /\ x.ret # "first" /\ x.clst = fp.clust /\ Behind(x.clst)
            /\ pc # "stretch" => Fat(Volume, x.clst) = EOC
  /\ pc = "alloc" => Fat(Volume, x.ncl) = Free
  /\ pc = "link" => Chain(Volume, x.ncl) = <<x.ncl>>

Chains == Linked(Volume, Firsts) /\ Fits(Volume) /\ EntryOK /\ PlaceOK /\ InOrder(card)
-----------------------------------------------------------------------------
IsLinked(c) == \E i \in Owners : \E k \in 1 .. Len(Chain(Volume, First(i))) : Chain(Volume, First(i))[k] = c

Tidy ==
  faults = 0 =>
    /\ \A c \in Clusters : Fat(Volume, c) # Free => IsLinked(c)
    /\ pc \in {"idle", "open"} \/ op.kind = "read" \/ (pc \in Closing /\ ~fp.modified) => ~win.wflag
    /\ pc \in {"first", "sought", "fill"} => x.res # Broken

Inv == Types /\ Calls /\ Chains /\ Tidy
-----------------------------------------------------------------------------
(* the least member of a set of numbers *)
LEMMA Least ==
  ASSUME NEW T \in SUBSET Nat, T # {}
  PROVE  \E m \in T : \A n \in T : m <= n
<1>1. PICK m \in T : \A n \in T : <<n, m>> \notin OpToRel(<, Nat)
  BY NatLessThanWellFounded, WFMin
<1>2. \A n \in T : ~(n < m)
  BY <1>1 DEF OpToRel
<1> QED BY <1>2

LEMMA SectorNumbers ==
  /\ \A c \in Clusters : FatSector(c) \in Nat \ {0} /\ FatSector(c) \in SectorSet
  /\ Dir \in SectorSet /\ NoSector \notin SectorSet /\ SectorSet \subseteq Nat
<1>1. ASSUME NEW c \in Clusters PROVE FatSector(c) \in Nat \ {0}
  <2>1. c \in Nat /\ PerFat \in Nat /\ PerFat > 0
    BY SectorAssumption, VolumeAssumption DEF Clusters
  <2>2. c \div PerFat \in Nat
    BY <2>1
  <2> QED BY <2>2 DEF FatSector
<1> QED BY <1>1 DEF SectorSet, Dir, NoSector

(* Changing one sector of a volume, and one entry of a sector. *)
LEMMA SectorPut ==
  ASSUME NEW v, IsVolume(v), NEW s \in SectorSet, NEW w \in Contents(s)
  PROVE  IsVolume([v EXCEPT ![s] = w])
BY DEF IsVolume

LEMMA CachedVolume ==
  ASSUME NEW c, NEW w, IsVolume(c), IsWindow(w)
  PROVE  IsVolume(Cached(c, w))
BY SectorPut DEF IsWindow, Cached

(* What move_window() and sync_window() leave. *)
LEMMA Synced ==
  ASSUME CardTypes, NEW m \in sync_window
  PROVE  /\ m.ok \in BOOLEAN /\ m.card \in {card, Volume}
         /\ IsWindow(m.win) /\ IsClean(m.card, m.win) /\ Cached(m.card, m.win) = Volume
         /\ m.ok => m.card = Volume /\ ~m.win.wflag
         /\ ~win.wflag => m.card = card /\ ~m.win.wflag
<1>1. CASE ~win.wflag
  <2>1. m = [ok |-> TRUE, card |-> card, win |-> win]
    BY <1>1 DEF sync_window
  <2>2. m.ok = TRUE /\ m.card = card /\ m.win = win
    BY <2>1
  <2> QED BY <1>1, <2>2 DEF CardTypes, Volume, Cached
<1>2. CASE win.wflag
  <2>1. Flushed = Volume /\ Volume = [card EXCEPT ![win.sect] = win.content]
    BY <1>2 DEF Flushed, Volume, Cached
  <2>2. win.sect \in SectorSet /\ Flushed[win.sect] = win.content
    BY <1>2, <2>1 DEF CardTypes, IsWindow, IsVolume
  <2>3. CASE m = [ok |-> TRUE, card |-> Flushed, win |-> [win EXCEPT !.wflag = FALSE]]
    BY <1>2, <2>1, <2>2, <2>3 DEF CardTypes, IsWindow, IsClean, Cached
  <2>4. CASE m \in {[ok |-> FALSE, card |-> c, win |-> win] : c \in {card, Flushed}}
    <3>1. m.ok = FALSE /\ m.card \in {card, Volume} /\ m.win = win
      BY <2>1, <2>4
    <3>2. [Volume EXCEPT ![win.sect] = win.content] = Volume
      BY <2>1
    <3> QED BY <1>2, <3>1, <3>2 DEF CardTypes, IsClean, Cached, Volume
  <2> QED BY <1>2, <2>3, <2>4 DEF sync_window
<1> QED BY <1>1, <1>2
LEMMA Moved ==
  ASSUME CardTypes, NEW s \in SectorSet, NEW m \in move_window(s)
  PROVE  /\ m.ok \in BOOLEAN /\ m.card \in {card, Volume}
         /\ IsWindow(m.win) /\ IsClean(m.card, m.win) /\ Cached(m.card, m.win) = Volume
         /\ m.ok => m.win.sect = s /\ m.win.content = Volume[s]
         /\ m.ok /\ win.sect # s => m.card = Volume
         /\ win.sect = s => m.ok /\ m.card = card /\ m.win = win
         /\ ~win.wflag => m.card = card /\ ~m.win.wflag
<1>1. CASE s = win.sect
  <2>1. m = [ok |-> TRUE, card |-> card, win |-> win]
    BY <1>1 DEF move_window
  <2>2. m.ok = TRUE /\ m.card = card /\ m.win = win
    BY <2>1
  <2>3. win.content = Volume[s]
    BY <1>1, SectorNumbers DEF CardTypes, IsWindow, IsClean, IsVolume, Volume, Cached
  <2> QED BY <1>1, <2>2, <2>3, SectorNumbers DEF CardTypes, Volume, Cached
<1>2. CASE s # win.sect
  <2>1. CASE m \in sync_window /\ ~m.ok
    BY <1>2, <2>1, Synced
  <2>2. ASSUME NEW t \in sync_window, t.ok,
               m \in {[ok |-> TRUE, card |-> t.card,
                       win |-> [sect |-> s, content |-> t.card[s], wflag |-> FALSE]],
                      [ok |-> FALSE, card |-> t.card,
                       win |-> [t.win EXCEPT !.sect = NoSector]]}
        PROVE  /\ m.ok \in BOOLEAN /\ m.card = Volume /\ ~m.win.wflag
               /\ IsWindow(m.win) /\ IsClean(m.card, m.win)
               /\ m.ok => m.win.sect = s /\ m.win.content = Volume[s]
               /\ ~win.wflag => m.card = card
    <3>1. t.card = Volume /\ ~t.win.wflag /\ IsWindow(t.win) /\ (~win.wflag => t.card = card)
      BY <2>2, Synced
    <3>2. IsVolume(Volume)
      BY CachedVolume DEF CardTypes, Volume
    <3>3. CASE m = [ok |-> TRUE, card |-> t.card,
                    win |-> [sect |-> s, content |-> t.card[s], wflag |-> FALSE]]
      BY <3>1, <3>2, <3>3 DEF IsWindow, IsClean, IsVolume
    <3>4. CASE m = [ok |-> FALSE, card |-> t.card, win |-> [t.win EXCEPT !.sect = NoSector]]
      BY <3>1, <3>4, SectorNumbers DEF IsWindow, IsClean
    <3> QED BY <2>2, <3>3, <3>4
  <2>3. m \in UNION {{[ok |-> TRUE, card |-> t.card,
                       win |-> [sect |-> s, content |-> t.card[s], wflag |-> FALSE]],
                      [ok |-> FALSE, card |-> t.card,
                       win |-> [t.win EXCEPT !.sect = NoSector]]} : t \in {u \in sync_window : u.ok}}
         => Cached(m.card, m.win) = Volume /\ m.card = Volume
    BY <2>2 DEF Cached
  <2> QED BY <1>2, <2>1, <2>2, <2>3 DEF move_window
<1> QED BY <1>1, <1>2

-----------------------------------------------------------------------------
(* A step that changes an entry of the sector it has moved the window to. *)
LEMMA Puts ==
  ASSUME CardTypes, faults \in Nat, NEW s \in SectorSet, NEW m \in move_window(s), m.ok,
         NEW i \in DOMAIN Volume[s], NEW e, s = Dir => e \in EntrySet, s # Dir => e \in FatValues,
         Window(m, Put(m.win, i, e))
  PROVE  /\ CardTypes' /\ Volume' = [Volume EXCEPT ![s][i] = e]
         /\ card' \in {card, Volume} /\ (win.sect = s => card' = card) /\ (win.sect # s => card' = Volume)
         /\ faults' = faults /\ win'.sect = s /\ win'.wflag
<1>1. card' = m.card /\ win' = Put(m.win, i, e) /\ faults' = faults
  BY DEF Window, Fault
<1>2. Volume' = Cached(card', win')
  BY DEF Volume
<1>3. IsVolume(Volume)
  BY CachedVolume DEF CardTypes, Volume
<1>4. IsVolume(m.card) /\ IsWindow(m.win) /\ m.win.sect = s /\ m.win.content = Volume[s]
      /\ Cached(m.card, m.win) = Volume /\ m.card \in {card, Volume}
      /\ (win.sect = s => m.card = card) /\ (win.sect # s => m.card = Volume)
  BY <1>3, Moved DEF CardTypes
<1>5. win'.sect = s /\ win'.content = [Volume[s] EXCEPT ![i] = e] /\ win'.wflag = TRUE
      /\ win' = [sect |-> win'.sect, content |-> win'.content, wflag |-> win'.wflag]
  BY <1>1, <1>4 DEF Put
<1>6. [Volume[s] EXCEPT ![i] = e] \in Contents(s)
  <2>1. Volume[s] \in Contents(s)
    BY <1>3 DEF IsVolume
  <2>2. CASE s = Dir
    BY <2>1, <2>2 DEF Contents
  <2>3. CASE s # Dir
    BY <2>1, <2>3 DEF Contents
  <2> QED BY <2>2, <2>3
<1>7. IsWindow(win') /\ IsClean(card', win')
  BY <1>5, <1>6, SectorNumbers DEF IsWindow, IsClean
<1>8. Volume' = [Volume EXCEPT ![s] = [Volume[s] EXCEPT ![i] = e]]
  <2>1. Volume' = [m.card EXCEPT ![s] = [Volume[s] EXCEPT ![i] = e]]
    BY <1>1, <1>2, <1>5 DEF Cached
  <2>2. \/ Volume = m.card
        \/ Volume = [m.card EXCEPT ![s] = m.win.content]
    BY <1>4 DEF Cached
  <2> QED BY <1>4, <2>1, <2>2 DEF IsVolume
<1> QED BY <1>1, <1>4, <1>5, <1>7, <1>8 DEF CardTypes

(* The parts of a volume. *)
LEMMA VolumeParts ==
  ASSUME NEW v, IsVolume(v)
  PROVE  /\ v[Dir] \in [Files -> EntrySet]
         /\ \A c \in Clusters : Fat(v, c) \in FatValues /\ c \in DOMAIN v[FatSector(c)]
<1>1. v[Dir] \in [Files -> EntrySet]
  BY SectorNumbers DEF IsVolume, Contents
<1>2. ASSUME NEW c \in Clusters PROVE Fat(v, c) \in FatValues /\ c \in DOMAIN v[FatSector(c)]
  BY SectorNumbers DEF IsVolume, Contents, Fat, Dir
<1> QED BY <1>1, <1>2

-----------------------------------------------------------------------------
(* Chains: a chain is no longer than there are clusters, and there is one. *)
LEMMA ChainLength ==
  ASSUME NEW v, NEW c, NEW s \in Seq(Clusters), IsChain(v, s, c)
  PROVE  Len(s) \in 0 .. LastCluster - 1
<1>1. s \in [1 .. Len(s) -> Clusters] /\ Len(s) \in Nat
  OBVIOUS
<1>2. s \in Injection(1 .. Len(s), Clusters)
  BY <1>1 DEF Injection, IsInjective, IsChain
<1>3. IsFiniteSet(Clusters) /\ Cardinality(Clusters) = LastCluster - 1
  BY FS_Interval, VolumeAssumption DEF Clusters
<1>4. Cardinality(1 .. Len(s)) = Len(s)
  <2>1. Cardinality(1 .. Len(s)) = IF 1 > Len(s) THEN 0 ELSE Len(s) - 1 + 1
    BY <1>1, FS_Interval
  <2> QED BY <1>1, <2>1
<1>5. Cardinality(1 .. Len(s)) <= Cardinality(Clusters)
  BY <1>2, <1>3, FS_Injection
<1> QED BY <1>1, <1>3, <1>4, <1>5, VolumeAssumption

LEMMA ChainUnique ==
  ASSUME NEW v, NEW c, NEW s \in Seq(Clusters), NEW t \in Seq(Clusters),
         IsChain(v, s, c), IsChain(v, t, c)
  PROVE  s = t
<1> DEFINE Common(i) == i \in 1 .. Len(s) /\ i \in 1 .. Len(t)
<1>1. EOC \notin Clusters
  BY DEF EOC, Clusters
<1>2. \A i \in Nat : Common(i) => s[i] = t[i]
  <2>1. SUFFICES ASSUME \E i \in Nat : Common(i) /\ s[i] # t[i] PROVE FALSE
    OBVIOUS
  <2>2. PICK m \in {i \in Nat : Common(i) /\ s[i] # t[i]} :
          \A n \in {i \in Nat : Common(i) /\ s[i] # t[i]} : m <= n
    BY <2>1, Least
  <2>3. m > 1
    BY <2>2 DEF IsChain
  <2>4. PICK p \in Nat : m = p + 1 /\ Common(p) /\ p # Len(s) /\ p # Len(t)
    BY <2>2, <2>3
  <2>5. s[p] = t[p]
    BY <2>2, <2>4
  <2>6. Fat(v, s[p]) = s[p + 1] /\ Fat(v, t[p]) = t[p + 1]
    BY <2>4 DEF IsChain
  <2> QED BY <2>2, <2>4, <2>5, <2>6
<1>3. ~(Len(s) < Len(t))
  <2>1. SUFFICES ASSUME Len(s) < Len(t) PROVE FALSE
    OBVIOUS
  <2>2. c \in Clusters /\ Len(s) \in Nat /\ Len(s) > 0
    BY <2>1 DEF IsChain
  <2>3. Fat(v, s[Len(s)]) = EOC /\ Fat(v, t[Len(s)]) = t[Len(s) + 1] /\ t[Len(s) + 1] \in Clusters
    BY <2>1, <2>2 DEF IsChain
  <2> QED BY <1>1, <1>2, <2>1, <2>2, <2>3
<1>4. ~(Len(t) < Len(s))
  <2>1. SUFFICES ASSUME Len(t) < Len(s) PROVE FALSE
    OBVIOUS
  <2>2. c \in Clusters /\ Len(t) \in Nat /\ Len(t) > 0
    BY <2>1 DEF IsChain
  <2>3. Fat(v, t[Len(t)]) = EOC /\ Fat(v, s[Len(t)]) = s[Len(t) + 1] /\ s[Len(t) + 1] \in Clusters
    BY <2>1, <2>2 DEF IsChain
  <2> QED BY <1>1, <1>2, <2>1, <2>2, <2>3
<1>5. Len(s) = Len(t)
  BY <1>3, <1>4
<1>6. \A i \in 1 .. Len(s) : s[i] = t[i]
  BY <1>2, <1>5
<1> QED BY <1>5, <1>6

LEMMA ChainIs ==
  ASSUME NEW v, NEW c, NEW s \in Seq(Clusters), IsChain(v, s, c)
  PROVE  Chain(v, c) = s /\ s \in UNION {[1 .. n -> Clusters] : n \in 0 .. LastCluster - 1}
<1>1. s \in UNION {[1 .. n -> Clusters] : n \in 0 .. LastCluster - 1}
  <2>1. s \in [1 .. Len(s) -> Clusters]
    OBVIOUS
  <2> QED BY <2>1, ChainLength
<1>2. \A t \in UNION {[1 .. n -> Clusters] : n \in 0 .. LastCluster - 1} : t \in Seq(Clusters)
  BY SMT
<1> QED BY <1>1, <1>2, ChainUnique DEF Chain

LEMMA NoChain ==
  ASSUME NEW v, NEW c, c \notin Clusters
  PROVE  IsChain(v, <<>>, c) /\ Chain(v, c) = <<>> /\ <<>> \in Seq(Clusters)
<1>1. <<>> \in Seq(Clusters) /\ Len(<<>>) = 0
  OBVIOUS
<1>2. IsChain(v, <<>>, c)
  BY <1>1 DEF IsChain
<1> QED BY <1>1, <1>2, ChainIs

(* A chain none of whose entries changes stays. *)
LEMMA ChainStays ==
  ASSUME NEW v, NEW w, NEW c, NEW s \in Seq(Clusters), IsChain(v, s, c),
         \A i \in 1 .. Len(s) : Fat(w, s[i]) = Fat(v, s[i])
  PROVE  IsChain(w, s, c) /\ Chain(w, c) = s
<1>1. IsChain(w, s, c)
  BY DEF IsChain
<1> QED BY <1>1, ChainIs

(* A cluster of a chain is allocated. *)
LEMMA ChainAllocated ==
  ASSUME NEW v, NEW c, NEW s \in Seq(Clusters), IsChain(v, s, c), NEW i \in 1 .. Len(s)
  PROVE  Fat(v, s[i]) # Free /\ s[i] \in Clusters
         /\ Fat(v, s[i]) = IF i = Len(s) THEN EOC ELSE s[i + 1]
<1>1. s[i] \in Clusters /\ (i # Len(s) => s[i + 1] \in Clusters)
  OBVIOUS
<1> QED BY <1>1 DEF IsChain, Free, EOC, Clusters

(* The same chains, some of them dropped or with other owners. *)
LEMMA Reassigned ==
  ASSUME NEW v, NEW h, Linked(v, h), NEW g,
         \A i \in Owners : g[i] \notin Clusters \/ \E j \in Owners : g[i] = h[j],
         \A i, j \in Owners : i # j /\ g[i] \in Clusters => g[i] # g[j]
  PROVE  Linked(v, g)
<1>1. \A i \in Owners : Chain(v, g[i]) \in Seq(Clusters) /\ IsChain(v, Chain(v, g[i]), g[i])
  BY NoChain DEF Linked
<1>2. ASSUME NEW i \in Owners, NEW j \in Owners, i # j
      PROVE  Apart(Chain(v, g[i]), Chain(v, g[j]))
  <2>1. CASE g[i] \notin Clusters \/ g[j] \notin Clusters
    <3>1. Len(Chain(v, g[i])) = 0 \/ Len(Chain(v, g[j])) = 0
      BY <2>1, NoChain
    <3> QED BY <3>1 DEF Apart
  <2>2. CASE g[i] \in Clusters /\ g[j] \in Clusters
    <3>1. PICK k \in Owners, l \in Owners : g[i] = h[k] /\ g[j] = h[l]
      BY <2>2
    <3>2. k # l
      BY <1>2, <2>2, <3>1
    <3> QED BY <3>1, <3>2 DEF Linked
  <2> QED BY <2>1, <2>2
<1> QED BY <1>1, <1>2 DEF Linked

(* The free cluster n becomes a chain of its own, which no file has. *)
Allocates(v, h, n, w, g) ==
  /\ Linked(v, h) /\ n \in Clusters /\ Fat(v, n) = Free
  /\ \A c \in Clusters : Fat(w, c) = IF c = n THEN EOC ELSE Fat(v, c)
  /\ g[NoFile] = n /\ \A i \in Files : g[i] = h[i]

LEMMA Allocated ==
  ASSUME NEW v, NEW h, NEW n, NEW w, NEW g, Allocates(v, h, n, w, g)
  PROVE  /\ Linked(w, g) /\ Chain(w, n) = <<n>>
         /\ \A i \in Files : Chain(w, g[i]) = Chain(v, h[i])
<1> SUFFICES ASSUME Linked(v, h), n \in Clusters, Fat(v, n) = Free,
                    \A c \in Clusters : Fat(w, c) = IF c = n THEN EOC ELSE Fat(v, c),
                    g[NoFile] = n, \A i \in Files : g[i] = h[i]
             PROVE  /\ Linked(w, g) /\ Chain(w, n) = <<n>>
                    /\ \A i \in Files : Chain(w, g[i]) = Chain(v, h[i])
  BY DEF Allocates
<1> DEFINE ch == [i \in Owners |-> IF i = NoFile THEN <<n>> ELSE Chain(v, h[i])]
<1>1. \A i \in Files : i \in Owners /\ i # NoFile
  BY FilesAssumption DEF Owners
<1>2. <<n>> \in Seq(Clusters) /\ Len(<<n>>) = 1 /\ <<n>>[1] = n
  OBVIOUS
<1>3. IsChain(w, <<n>>, n)
  BY <1>2 DEF IsChain
<1>4. ASSUME NEW i \in Files
      PROVE  /\ ch[i] \in Seq(Clusters) /\ IsChain(w, ch[i], g[i])
             /\ Apart(ch[i], <<n>>) /\ Apart(<<n>>, ch[i])
  <2>1. ch[i] \in Seq(Clusters) /\ IsChain(v, ch[i], h[i])
    BY <1>1 DEF Linked
  <2>2. \A k \in 1 .. Len(ch[i]) : ch[i][k] \in Clusters /\ ch[i][k] # n
    BY <2>1, ChainAllocated
  <2>3. \A k \in 1 .. Len(ch[i]) : Fat(w, ch[i][k]) = Fat(v, ch[i][k])
    BY <2>2
  <2> HIDE DEF ch
  <2>4. IsChain(w, ch[i], g[i])
    BY <2>1, <2>3, ChainStays
  <2>5. \A k \in 1 .. 1 : <<n>>[k] = n
    OBVIOUS
  <2>6. Apart(ch[i], <<n>>) /\ Apart(<<n>>, ch[i])
    BY <1>2, <2>2, <2>5 DEF Apart
  <2> QED BY <2>1, <2>4, <2>6
<1>5. \A i \in Owners : ch[i] \in Seq(Clusters) /\ IsChain(w, ch[i], g[i])
  BY <1>1, <1>2, <1>3, <1>4 DEF Owners
<1>6. \A i, j \in Owners : i # j => Apart(ch[i], ch[j])
  <2>1. \A i, j \in Files : i # j => Apart(ch[i], ch[j])
    BY <1>1 DEF Linked
  <2> QED BY <1>1, <1>4, <2>1 DEF Owners
<1>7. Linked(w, g) /\ \A i \in Owners : Chain(w, g[i]) = ch[i]
  <2> HIDE DEF ch
  <2>1. \A i \in Owners : Chain(w, g[i]) = ch[i]
    BY <1>5, ChainIs
  <2> QED BY <1>5, <1>6, <2>1 DEF Linked
<1> QED BY <1>1, <1>7 DEF Owners

(* The loose cluster n becomes the last one of the chain of f, after its cluster c. *)
Lengthens(v, h, f, n, k, c, w, g) ==
  /\ Linked(v, h) /\ f \in Files /\ n \in Clusters /\ h[NoFile] = n /\ Chain(v, n) = <<n>>
  /\ k \in 1 .. Len(Chain(v, h[f])) /\ Chain(v, h[f])[k] = c /\ Fat(v, c) = EOC
  /\ \A d \in Clusters : Fat(w, d) = IF d = c THEN n ELSE Fat(v, d)
  /\ g[NoFile] \notin Clusters /\ \A i \in Files : g[i] = h[i]

LEMMA Lengthened ==
  ASSUME NEW v, NEW h, NEW f, NEW n, NEW k, NEW c, NEW w, NEW g, Lengthens(v, h, f, n, k, c, w, g)
  PROVE  /\ Linked(w, g) /\ k = Len(Chain(v, h[f])) /\ Chain(w, h[f]) = Append(Chain(v, h[f]), n)
         /\ \A i \in Files \ {f} : Chain(w, g[i]) = Chain(v, h[i])
<1> SUFFICES ASSUME Linked(v, h), f \in Files, n \in Clusters, h[NoFile] = n, Chain(v, n) = <<n>>,
                    k \in 1 .. Len(Chain(v, h[f])), Chain(v, h[f])[k] = c, Fat(v, c) = EOC,
                    \A d \in Clusters : Fat(w, d) = IF d = c THEN n ELSE Fat(v, d),
                    g[NoFile] \notin Clusters, \A i \in Files : g[i] = h[i]
             PROVE  /\ Linked(w, g) /\ k = Len(Chain(v, h[f])) /\ Chain(w, h[f]) = Append(Chain(v, h[f]), n)
                    /\ \A i \in Files \ {f} : Chain(w, g[i]) = Chain(v, h[i])
  BY DEF Lengthens
<1> DEFINE s == Chain(v, h[f])
           t == Append(s, n)
           ch == [i \in Owners |-> IF i = NoFile THEN <<>> ELSE IF i = f THEN t ELSE Chain(v, h[i])]
<1>1. NoFile \in Owners /\ \A i \in Files : i \in Owners /\ i # NoFile
  BY FilesAssumption DEF Owners
<1>2. s \in Seq(Clusters) /\ IsChain(v, s, h[f]) /\ IsChain(v, <<n>>, n)
  BY <1>1 DEF Linked
<1>3. c \in Clusters /\ k = Len(s)
  <2>1. k \in 1 .. Len(s) /\ s[k] = c
    OBVIOUS
  <2> HIDE DEF s
  <2>2. Fat(v, c) = IF k = Len(s) THEN EOC ELSE s[k + 1]
    BY <1>2, <2>1, ChainAllocated
  <2>3. c \in Clusters /\ (k # Len(s) => s[k + 1] \in Clusters)
    BY <1>2, <2>1
  <2> QED BY <2>2, <2>3 DEF EOC, Clusters
<1>4. Len(<<n>>) = 1 /\ <<n>>[1] = n
  OBVIOUS
<1>5. Fat(v, n) = EOC
  BY <1>2, <1>4 DEF IsChain
<1>6. \A i \in Files : \A j \in 1 .. Len(Chain(v, h[i])) : Chain(v, h[i])[j] # n
  <2>1. ASSUME NEW i \in Files, NEW j \in 1 .. Len(Chain(v, h[i])) PROVE Chain(v, h[i])[j] # n
    <3>1. Apart(Chain(v, h[i]), <<n>>)
      BY <1>1 DEF Linked
    <3>2. 1 \in 1 .. Len(<<n>>)
      BY <1>4
    <3> QED BY <1>4, <3>1, <3>2 DEF Apart
  <2> QED BY <2>1
<1>7. IsChain(w, t, h[f]) /\ t \in Seq(Clusters) /\ Len(t) = Len(s) + 1
  <2>1. \A j \in 1 .. Len(s) : s[j] \in Clusters /\ s[j] # n
    BY <1>2, <1>6
  <2>2. n # c /\ s[Len(s)] = c /\ Len(s) \in Nat /\ Len(s) > 0
    BY <1>2, <1>3, <2>1
  <2> HIDE DEF s
  <2>3. Len(t) = Len(s) + 1 /\ t \in Seq(Clusters) /\ t[Len(s) + 1] = n
        /\ \A j \in 1 .. Len(s) : t[j] = s[j]
    BY <1>2
  <2> HIDE DEF t
  <2>4. \A j \in 1 .. Len(t) : Fat(w, t[j]) = IF j = Len(t) THEN EOC ELSE t[j + 1]
    <3>1. ASSUME NEW j \in 1 .. Len(t) PROVE Fat(w, t[j]) = IF j = Len(t) THEN EOC ELSE t[j + 1]
      <4>1. CASE j = Len(s) + 1
        BY <1>5, <2>2, <2>3, <4>1
      <4>2. CASE j = Len(s)
        BY <1>3, <2>2, <2>3, <4>2
      <4>3. CASE j \in 1 .. Len(s) - 1
        <5>1. s[j] # c /\ s[j] \in Clusters /\ Fat(v, s[j]) = s[j + 1] /\ t[j] = s[j] /\ t[j + 1] = s[j + 1]
          BY <1>2, <2>1, <2>2, <2>3, <4>3 DEF IsChain
        <5> QED BY <2>3, <4>3, <5>1
      <4> QED BY <2>2, <2>3, <4>1, <4>2, <4>3
    <3> QED BY <3>1
  <2>5. \A i, j \in 1 .. Len(t) : i # j => t[i] # t[j]
    BY <1>2, <2>1, <2>2, <2>3 DEF IsChain
  <2>6. (Len(t) = 0 <=> h[f] \notin Clusters) /\ t[1] = h[f]
    BY <1>2, <2>2, <2>3 DEF IsChain
  <2> QED BY <2>3, <2>4, <2>5, <2>6 DEF IsChain
<1>8. \A i \in Files \ {f} : IsChain(w, Chain(v, h[i]), h[i])
  <2>1. ASSUME NEW i \in Files \ {f} PROVE IsChain(w, Chain(v, h[i]), h[i])
    <3>1. Chain(v, h[i]) \in Seq(Clusters) /\ IsChain(v, Chain(v, h[i]), h[i])
      BY <1>1 DEF Linked
    <3>2. \A j \in 1 .. Len(Chain(v, h[i])) : Chain(v, h[i])[j] # c /\ Chain(v, h[i])[j] \in Clusters
      BY <1>1, <3>1 DEF Linked, Apart
    <3> QED BY <3>1, <3>2, ChainStays
  <2> QED BY <2>1
<1>9. \A i \in Owners : ch[i] \in Seq(Clusters) /\ IsChain(w, ch[i], g[i])
  <2> HIDE DEF s, t
  <2> QED BY <1>1, <1>7, <1>8, NoChain DEF Owners, Linked
<1>10. \A i, j \in Owners : i # j => Apart(ch[i], ch[j])
  <2>1. \A i, j \in Files : i # j => Apart(Chain(v, h[i]), Chain(v, h[j]))
    BY <1>1 DEF Linked
  <2>2. \A i \in Files \ {f} : Apart(t, Chain(v, h[i])) /\ Apart(Chain(v, h[i]), t)
    BY <1>2, <1>6, <2>1 DEF Apart
  <2>3. \A u : Apart(u, <<>>) /\ Apart(<<>>, u)
    BY DEF Apart
  <2> HIDE DEF s, t
  <2> QED BY <1>1, <2>1, <2>2, <2>3 DEF Owners
<1>11. \A i \in Owners : Chain(w, g[i]) = ch[i]
  <2> HIDE DEF ch
  <2> QED BY <1>9, ChainIs
<1>12. Linked(w, g)
  <2> HIDE DEF ch
  <2> QED BY <1>9, <1>10, <1>11 DEF Linked
<1> QED BY <1>1, <1>3, <1>11, <1>12

(* The first loose cluster c is freed. *)
Frees(v, h, c, w, g) ==
  /\ Linked(v, h) /\ c \in Clusters /\ h[NoFile] = c
  /\ \A d \in Clusters : Fat(w, d) = IF d = c THEN Free ELSE Fat(v, d)
  /\ \A i \in Files : g[i] = h[i]
  /\ IF Fat(v, c) \in Clusters THEN g[NoFile] = Fat(v, c) ELSE g[NoFile] \notin Clusters

LEMMA Freed ==
  ASSUME NEW v, NEW h, NEW c, NEW w, NEW g, Frees(v, h, c, w, g)
  PROVE  /\ Linked(w, g) /\ \A i \in Files : Chain(w, g[i]) = Chain(v, h[i])
         /\ Chain(v, c) \in Seq(Clusters) /\ Len(Chain(v, c)) > 0 /\ Chain(v, c)[1] = c
         /\ Chain(w, g[NoFile]) = Tail(Chain(v, c))
<1> SUFFICES ASSUME Linked(v, h), c \in Clusters, h[NoFile] = c,
                    \A d \in Clusters : Fat(w, d) = IF d = c THEN Free ELSE Fat(v, d),
                    \A i \in Files : g[i] = h[i],
                    IF Fat(v, c) \in Clusters THEN g[NoFile] = Fat(v, c) ELSE g[NoFile] \notin Clusters
             PROVE  /\ Linked(w, g) /\ \A i \in Files : Chain(w, g[i]) = Chain(v, h[i])
                    /\ Chain(v, c) \in Seq(Clusters) /\ Len(Chain(v, c)) > 0 /\ Chain(v, c)[1] = c
                    /\ Chain(w, g[NoFile]) = Tail(Chain(v, c))
  BY DEF Frees
<1> DEFINE s == Chain(v, c)
           t == Tail(s)
           ch == [i \in Owners |-> IF i = NoFile THEN t ELSE Chain(v, h[i])]
<1>1. NoFile \in Owners /\ \A i \in Files : i \in Owners /\ i # NoFile
  BY FilesAssumption DEF Owners
<1>2. s \in Seq(Clusters) /\ IsChain(v, s, c) /\ Len(s) \in Nat /\ Len(s) > 0 /\ s[1] = c
  BY <1>1 DEF Linked, IsChain
<1>3. t \in Seq(Clusters) /\ Len(t) = Len(s) - 1 /\ \A j \in 1 .. Len(t) : t[j] = s[j + 1]
  <2> HIDE DEF s
  <2> QED BY <1>2
<1>4. Fat(v, c) = (IF Len(s) = 1 THEN EOC ELSE s[2]) /\ (Len(s) # 1 => s[2] \in Clusters)
  <2> HIDE DEF s
  <2>1. PICK one \in 1 .. Len(s) : one = 1
    BY <1>2
  <2>2. Fat(v, s[one]) = (IF one = Len(s) THEN EOC ELSE s[one + 1])
    BY <1>2, <2>1, ChainAllocated
  <2>3. ASSUME Len(s) # 1 PROVE s[2] \in Clusters
    <3>0. 2 \in 1 .. Len(s)
      <4>1. \A n \in Nat : n > 0 /\ n # 1 => 2 \in 1 .. n
        OBVIOUS
      <4> QED BY <1>2, <2>3, <4>1
    <3>1. PICK two \in 1 .. Len(s) : two = 2
      BY <3>0
    <3> QED BY <1>2, <3>1
  <2> QED BY <1>2, <2>1, <2>2, <2>3
<1>5. IsChain(w, t, g[NoFile])
  <2> HIDE DEF s, t
  <2>1. Len(t) = 0 <=> g[NoFile] \notin Clusters
    BY <1>2, <1>3, <1>4 DEF EOC, Clusters
  <2>2. Len(t) > 0 => t[1] = g[NoFile]
    BY <1>2, <1>3, <1>4, <2>1 DEF EOC, Clusters
  <2>3. ASSUME NEW j \in 1 .. Len(t) PROVE Fat(w, t[j]) = IF j = Len(t) THEN EOC ELSE t[j + 1]
    <3>0. j + 1 \in 1 .. Len(s) /\ j + 1 # 1
      BY <1>2, <1>3
    <3>1. t[j] = s[j + 1] /\ s[j + 1] \in Clusters
      BY <1>2, <1>3, <3>0
    <3>2. s[j + 1] # c
      BY <1>2, <3>0 DEF IsChain
    <3>3. Fat(v, s[j + 1]) = IF j + 1 = Len(s) THEN EOC ELSE s[j + 2]
      BY <1>2, <3>0 DEF IsChain
    <3>4. j # Len(t) => t[j + 1] = s[j + 2]
      BY <1>2, <1>3
    <3> QED BY <1>2, <1>3, <3>1, <3>2, <3>3, <3>4
  <2>4. ASSUME NEW i \in 1 .. Len(t), NEW j \in 1 .. Len(t), i # j PROVE t[i] # t[j]
    <3>1. i + 1 \in 1 .. Len(s) /\ j + 1 \in 1 .. Len(s) /\ i + 1 # j + 1
      BY <1>2, <1>3, <2>4
    <3> QED BY <1>2, <1>3, <3>1 DEF IsChain
  <2> QED BY <2>1, <2>2, <2>3, <2>4 DEF IsChain
<1>6. \A i \in Files : IsChain(w, Chain(v, h[i]), g[i])
  <2>1. ASSUME NEW i \in Files PROVE IsChain(w, Chain(v, h[i]), g[i])
    <3>1. Chain(v, h[i]) \in Seq(Clusters) /\ IsChain(v, Chain(v, h[i]), h[i])
      BY <1>1 DEF Linked
    <3>2. \A j \in 1 .. Len(Chain(v, h[i])) : Chain(v, h[i])[j] # c /\ Chain(v, h[i])[j] \in Clusters
      BY <1>1, <1>2, <3>1 DEF Linked, Apart
    <3> QED BY <3>1, <3>2, ChainStays
  <2> QED BY <2>1
<1>7. \A i \in Owners : ch[i] \in Seq(Clusters) /\ IsChain(w, ch[i], g[i])
  <2> HIDE DEF s, t
  <2> QED BY <1>1, <1>3, <1>5, <1>6 DEF Owners, Linked
<1>8. \A i, j \in Owners : i # j => Apart(ch[i], ch[j])
  <2>1. \A i, j \in Files : i # j => Apart(Chain(v, h[i]), Chain(v, h[j]))
    BY <1>1 DEF Linked
  <2>2. ASSUME NEW i \in Files PROVE Apart(t, Chain(v, h[i])) /\ Apart(Chain(v, h[i]), t)
    <3>1. Apart(s, Chain(v, h[i])) /\ Apart(Chain(v, h[i]), s)
      BY <1>1 DEF Linked
    <3> HIDE DEF s, t
    <3>2. \A j \in 1 .. Len(t) : j + 1 \in 1 .. Len(s)
      BY <1>2, <1>3
    <3> QED BY <1>3, <3>1, <3>2 DEF Apart
  <2> HIDE DEF s, t
  <2> QED BY <1>1, <2>1, <2>2 DEF Owners
<1>9. \A i \in Owners : Chain(w, g[i]) = ch[i]
  <2> HIDE DEF ch
  <2> QED BY <1>7, ChainIs
<1>10. Linked(w, g)
  <2> HIDE DEF ch
  <2> QED BY <1>7, <1>8, <1>9 DEF Linked
<1> QED BY <1>1, <1>2, <1>9, <1>10

-----------------------------------------------------------------------------
(* What the invariant says of chains, told for the steps. *)
LEMMA FirstsApart ==
  ASSUME NEW v, NEW h, Linked(v, h), NEW i \in Owners, NEW j \in Owners, i # j, h[i] \in Clusters
  PROVE  h[i] # h[j]
<1>1. SUFFICES ASSUME h[i] = h[j] PROVE FALSE
  OBVIOUS
<1>2. Chain(v, h[i]) \in Seq(Clusters) /\ IsChain(v, Chain(v, h[i]), h[i])
      /\ Apart(Chain(v, h[i]), Chain(v, h[i]))
  BY <1>1 DEF Linked
<1>3. Len(Chain(v, h[i])) > 0
  BY <1>2 DEF IsChain
<1> QED BY <1>2, <1>3 DEF Apart

LEMMA FilesOwn == Files \subseteq Owners /\ NoFile \in Owners /\ NoFile \notin Files
BY FilesAssumption DEF Owners

LEMMA VolumeNow ==
  ASSUME Types
  PROVE  /\ IsVolume(Volume) /\ IsVolume(card)
         /\ Volume[Dir] \in [Files -> EntrySet] /\ \A c \in Clusters : Fat(Volume, c) \in FatValues
BY CachedVolume, VolumeParts DEF Types, CardTypes, Volume

LEMMA OwnChain ==
  ASSUME Chains, Calls, IsOpen
  PROVE  Own \in Seq(Clusters) /\ IsChain(Volume, Own, fp.sclust) /\ op.file \in Owners
<1>1. pc # "idle"
  BY DEF IsOpen, Working, Closing, Creating
<1>2. op.file \in Files /\ op.file \in Owners /\ op.file # NoFile
  BY <1>1, FilesOwn DEF Calls
<1>3. Firsts[op.file] = fp.sclust
  BY <1>2 DEF Firsts, First
<1> QED BY <1>2, <1>3 DEF Chains, Linked, Own

(* The files as the directory names them. *)
LEMMA NamedLinked ==
  ASSUME Types, Calls, Chains
  PROVE  Linked(Volume, [i \in Owners |-> IF i = NoFile THEN 0 ELSE Volume[Dir][i].sclust])
<1> DEFINE g == [i \in Owners |-> IF i = NoFile THEN 0 ELSE Volume[Dir][i].sclust]
<1>1. 0 \notin Clusters
  BY DEF Clusters
<1>2. \A i \in Owners : g[i] \notin Clusters \/ g[i] = Firsts[i]
  <2>1. ASSUME NEW i \in Files PROVE g[i] \notin Clusters \/ g[i] = Firsts[i]
    <3>1. i \in Owners /\ i # NoFile
      BY FilesOwn
    <3>2. CASE IsOpen /\ i = op.file
      BY <1>1, <3>1, <3>2 DEF Chains, EntryOK, Firsts, First
    <3>3. CASE ~(IsOpen /\ i = op.file)
      BY <3>1, <3>3 DEF Firsts, First
    <3> QED BY <3>2, <3>3
  <2> QED BY <1>1, <2>1 DEF Owners
<1>3. \A i, j \in Owners : i # j /\ g[i] \in Clusters => g[i] # g[j]
  <2> HIDE DEF g
  <2>1. ASSUME NEW i \in Owners, NEW j \in Owners, i # j, g[i] \in Clusters, g[i] = g[j]
        PROVE  FALSE
    BY <1>2, <2>1, FirstsApart DEF Chains
  <2> QED BY <2>1
<1>4. Linked(Volume, Firsts)
  BY DEF Chains
<1> HIDE DEF g
<1>5. Linked(Volume, g)
  BY <1>2, <1>3, <1>4, Reassigned
<1> QED BY <1>5 DEF g

LEMMA NamedChains ==
  ASSUME Types, Calls, Chains
  PROVE  [f \in Files |-> Named(Volume, f)] \in Layouts /\ OnChains(Volume, [f \in Files |-> Named(Volume, f)])
<1> DEFINE g == [i \in Owners |-> IF i = NoFile THEN 0 ELSE Volume[Dir][i].sclust]
           ch == [f \in Files |-> Named(Volume, f)]
<1>1. \A f \in Files : f \in Owners /\ f # NoFile /\ g[f] = Volume[Dir][f].sclust
  BY FilesOwn
<1>2. Linked(Volume, g)
  BY NamedLinked
<1> HIDE DEF g
<1>3. \A f \in Files : /\ Named(Volume, f) \in Seq(Clusters)
                       /\ IsChain(Volume, Named(Volume, f), Volume[Dir][f].sclust)
  BY <1>1, <1>2 DEF Linked, Named
<1>4. \A f, h \in Files : f # h => Apart(Named(Volume, f), Named(Volume, h))
  BY <1>1, <1>2 DEF Linked, Named
<1>5. ch \in Layouts
  BY <1>3, ChainIs DEF Layouts
<1>6. OnChains(Volume, ch)
  BY <1>3, <1>4 DEF OnChains, Apart, Chains, Fits
<1> QED BY <1>5, <1>6

LEMMA OrderNow ==
  ASSUME Types, Calls, Chains
  PROVE  InOrder(Volume)
BY NamedChains DEF InOrder

(* A step that leaves the volume as FatFS sees it; chains may change hands or be given up. *)
LEMMA Shuffled ==
  ASSUME Types, Calls, Chains, Volume' = Volume, card' \in {card, Volume},
         \A i \in Owners : First(i)' \notin Clusters \/ \E j \in Owners : First(i)' = First(j),
         \A i, j \in Owners : i # j /\ First(i)' \in Clusters => First(i)' # First(j)',
         EntryOK', PlaceOK'
  PROVE  Chains'
<1>1. Linked(Volume, Firsts)'
  <2>1. Firsts' = [i \in Owners |-> First(i)'] /\ Firsts = [i \in Owners |-> First(i)]
    BY DEF Firsts
  <2>2. Linked(Volume, Firsts)
    BY DEF Chains
  <2>3. Linked(Volume, Firsts')
    BY <2>1, <2>2, Reassigned
  <2>4. Linked(Volume', Firsts')
    BY <2>3
  <2> QED BY <2>4
<1>2. Fits(Volume)'
  BY DEF Chains, Fits, Named, Chain, IsChain, Fat
<1>3. InOrder(card)'
  <2>1. InOrder(card) /\ InOrder(Volume)
    BY OrderNow DEF Chains
  <2> QED BY <2>1 DEF InOrder, OnChains, IsChain, Fat
<1> QED BY <1>1, <1>2, <1>3 DEF Chains

LEMMA Distinct ==
  ASSUME Chains, NEW i \in Owners, NEW j \in Owners, i # j, First(i) \in Clusters
  PROVE  First(i) # First(j)
<1>1. Firsts[i] = First(i) /\ Firsts[j] = First(j)
  BY DEF Firsts
<1>2. Linked(Volume, Firsts)
  BY DEF Chains
<1> QED BY <1>1, <1>2, FirstsApart

LEMMA Steady ==
  ASSUME Types, Calls, Chains, Volume' = Volume, card' \in {card, Volume},
         \A i \in Owners : First(i)' = First(i) \/ First(i)' \notin Clusters,
         EntryOK', PlaceOK'
  PROVE  Chains'
<1>1. \A i, j \in Owners : i # j /\ First(i) \in Clusters => First(i) # First(j)
  BY Distinct
<1>2. \A i, j \in Owners : i # j /\ First(i)' \in Clusters => First(i)' # First(j)'
  BY <1>1
<1> QED BY <1>2, Shuffled

-----------------------------------------------------------------------------
(* Steps that leave the volume as FatFS sees it. *)
Same ==
  /\ CardTypes' /\ Volume' = Volume /\ card' \in {card, Volume}
  /\ faults' \in Nat /\ (faults' = 0 => faults = 0)
  /\ ~win.wflag => card' = card /\ ~win'.wflag

LEMMA Unmoved ==
  ASSUME Types, UNCHANGED <<card, win>>, faults' \in {faults, faults + 1}
  PROVE  Same
<1>1. CardTypes' /\ Volume' = Volume
  BY DEF Types, CardTypes, IsVolume, IsWindow, IsClean, Contents, Volume, Cached
<1> QED BY <1>1 DEF Same, Types

(* move_window(), whether the step that calls it goes on to fail or not *)
LEMMA Glanced ==
  ASSUME Types, NEW s \in SectorSet, NEW m \in move_window(s), card' = m.card, win' = m.win,
         faults' \in {faults, faults + 1}
  PROVE  Same
<1>1. Volume' = Cached(card', win')
  BY DEF Volume
<1>2. IsVolume(Volume)
  BY VolumeNow
<1>3. CardTypes
  BY DEF Types
<1>4. CardTypes' /\ Volume' = Volume /\ card' \in {card, Volume}
      /\ (~win.wflag => card' = card /\ ~win'.wflag)
  BY <1>1, <1>2, <1>3, Moved DEF CardTypes
<1> QED BY <1>4 DEF Same, Types

LEMMA Glimpsed ==
  ASSUME Types, NEW s \in SectorSet, NEW m \in move_window(s), Window(m, m.win)
  PROVE  /\ Same /\ (faults' = 0 => m.ok)
         /\ m.ok => m.win.content = Volume[s] /\ win'.sect = s /\ win' = m.win
<1>1. card' = m.card /\ win' = m.win /\ Fault(~m.ok)
  BY DEF Window
<1>2. m.ok \in BOOLEAN /\ (m.ok => m.win.content = Volume[s] /\ m.win.sect = s)
  BY Moved DEF Types
<1>3. faults' = 0 => m.ok
  BY <1>1, <1>2 DEF Fault, Types
<1>4. faults' \in {faults, faults + 1}
  BY <1>1 DEF Fault, Types
<1> QED BY <1>1, <1>2, <1>3, <1>4, Glanced

(* The function is at its end, or will have no file object. *)
LEMMA Stops ==
  ASSUME Types, Calls, Chains, Same, pc' \in {"idle", "open"} \/ (pc' \in Closing /\ ~fp'.modified)
  PROVE  /\ Chains'
         /\ \A i \in Files : First(i)' = First(i) \/ First(i)' = 0
         /\ (IsOpen => Volume[Dir][op.file].sclust = fp.sclust) => \A i \in Files : First(i)' = First(i)
         /\ Loose' = 0
<1>1. ~IsOpen' /\ pc' \notin Working
  BY DEF IsOpen, Closing, Working, Creating
<1>2. Loose' = 0
  BY <1>1 DEF Loose, Working, Creating, Closing
<1>3. ASSUME NEW i \in Files
      PROVE  /\ First(i)' = First(i) \/ First(i)' = 0
             /\ (IsOpen => Volume[Dir][op.file].sclust = fp.sclust) => First(i)' = First(i)
  <2>1. i # NoFile /\ First(i)' = Volume[Dir][i].sclust
    BY <1>1, FilesOwn DEF First, Same
  <2> QED BY <2>1 DEF First, Chains, EntryOK
<1>4. First(NoFile)' = 0 /\ 0 \notin Clusters
  BY <1>2 DEF First, Clusters
<1>5. EntryOK' /\ PlaceOK'
  BY <1>1 DEF EntryOK, PlaceOK, Working, Creating, Closing
<1>6. \A i \in Owners : First(i)' = First(i) \/ First(i)' \notin Clusters
  BY <1>3, <1>4 DEF Owners
<1>7. Chains'
  BY <1>5, <1>6, Steady DEF Same
<1> QED BY <1>2, <1>3, <1>7

(* The file stays open, with the same chain. *)
LEMMA Continues ==
  ASSUME Types, Calls, Chains, Same, IsOpen, pc # "sync", pc' \in Working \cup {"close"},
         op'.file = op.file, op'.kind = op.kind, fp'.sclust = fp.sclust,
         fp'.objsize <= PerSector * Len(Own), Loose' \in {0, Loose}, PlaceOK'
  PROVE  /\ Chains' /\ Own' = Own
         /\ op.kind # "read" /\ (pc' = "close" => fp'.modified) => \A i \in Files : First(i)' = First(i)
         /\ op.kind = "read" => \A i \in Files : First(i)' = First(i)
<1>1. op.file \in Files /\ Volume' = Volume /\ Own' = Own
  BY DEF Calls, IsOpen, Working, Creating, Closing, Same, Own
<1>2. EntryOK'
  BY <1>1 DEF EntryOK, Chains, Working, Creating
<1>3. ASSUME NEW i \in Files
      PROVE  /\ First(i)' = First(i) \/ First(i)' = 0
             /\ IsOpen' => First(i)' = First(i)
             /\ op.kind = "read" => First(i)' = First(i)
  BY <1>1, FilesOwn DEF First, Chains, EntryOK
<1>4. First(NoFile)' \in {0, First(NoFile)} /\ 0 \notin Clusters
  BY DEF First, Clusters
<1>5. \A i \in Owners : First(i)' = First(i) \/ First(i)' \notin Clusters
  BY <1>3, <1>4 DEF Owners
<1>6. Chains'
  BY <1>2, <1>5, Steady DEF Same
<1>7. pc' # "close" => IsOpen'
  BY DEF IsOpen
<1>8. pc' = "close" /\ fp'.modified => IsOpen'
  BY DEF IsOpen, Closing
<1> QED BY <1>1, <1>3, <1>6, <1>7, <1>8

(* The chains are a matter of the table. *)
LEMMA SameTable ==
  ASSUME NEW v, NEW w, \A c \in Clusters : Fat(w, c) = Fat(v, c)
  PROVE  /\ \A c : \A s \in Seq(Clusters) : IsChain(v, s, c) <=> IsChain(w, s, c)
         /\ \A c : Chain(w, c) = Chain(v, c)
<1>1. ASSUME NEW c, NEW s \in Seq(Clusters) PROVE IsChain(v, s, c) <=> IsChain(w, s, c)
  <2>1. \A i \in 1 .. Len(s) : s[i] \in Clusters
    OBVIOUS
  <2>2. \A i \in 1 .. Len(s) : Fat(w, s[i]) = Fat(v, s[i])
    BY <2>1
  <2> QED BY <2>2 DEF IsChain
<1>2. ASSUME NEW c PROVE Chain(w, c) = Chain(v, c)
  <2> DEFINE U == UNION {[1 .. n -> Clusters] : n \in 0 .. LastCluster - 1}
  <2>1. U \subseteq Seq(Clusters)
    BY SMT
  <2>2. \A s \in U : IsChain(v, s, c) <=> IsChain(w, s, c)
    BY <1>1, <2>1
  <2> QED BY <2>2, Zenon DEF Chain
<1> QED BY <1>1, <1>2

(* The clusters in use stay with their files, the table stays as it is. *)
LEMMA TidyStays ==
  ASSUME Tidy, faults' = 0 => faults = 0, \A c \in Clusters : Fat(Volume', c) = Fat(Volume, c),
         faults' = 0 => \A i \in Owners : First(i) \in Clusters => \E j \in Owners : First(j)' = First(i),
         faults' = 0 /\ (\/ pc' \in {"idle", "open"} \/ op'.kind = "read"
                         \/ pc' \in Closing /\ ~fp'.modified) => ~win'.wflag,
         faults' = 0 /\ pc' \in {"first", "sought", "fill"} => x'.res # Broken
  PROVE  Tidy'
<1>1. SUFFICES ASSUME faults' = 0, NEW c \in Clusters, Fat(Volume', c) # Free
               PROVE  IsLinked(c)'
  BY DEF Tidy
<1>2. faults = 0 /\ Fat(Volume, c) # Free
  BY <1>1
<1>3. IsLinked(c)
  BY <1>2 DEF Tidy
<1>4. PICK i \in Owners : \E k \in 1 .. Len(Chain(Volume, First(i))) : Chain(Volume, First(i))[k] = c
  BY <1>3 DEF IsLinked
<1>5. First(i) \in Clusters
  BY <1>4, NoChain
<1>6. PICK j \in Owners : First(j)' = First(i)
  BY <1>1, <1>5
<1>7. Chain(Volume', First(j)') = Chain(Volume, First(i))
  BY <1>6, SameTable
<1>8. \E k \in 1 .. Len(Chain(Volume', First(j)')) : Chain(Volume', First(j)')[k] = c
  BY <1>4, <1>7
<1> QED BY <1>8 DEF IsLinked

LEMMA Tidies ==
  ASSUME Tidy, Same,
         faults' = 0 => \A i \in Owners : First(i) \in Clusters => \E j \in Owners : First(j)' = First(i),
         faults' = 0 /\ (\/ pc' \in {"idle", "open"} \/ op'.kind = "read"
                         \/ pc' \in Closing /\ ~fp'.modified) => ~win'.wflag,
         faults' = 0 /\ pc' \in {"first", "sought", "fill"} => x'.res # Broken
  PROVE  Tidy'
BY TidyStays DEF Same

(* Directory and table of a card that is in order. *)
LEMMA FromOrder ==
  ASSUME NEW v, InOrder(v)
  PROVE  Fits(v) /\ Linked(v, [i \in Owners |-> IF i = NoFile THEN 0 ELSE v[Dir][i].sclust])
<1> DEFINE g == [i \in Owners |-> IF i = NoFile THEN 0 ELSE v[Dir][i].sclust]
<1>1. PICK ch \in Layouts : OnChains(v, ch)
  BY DEF InOrder
<1>2. \A f \in Files : f \in Owners /\ f # NoFile /\ g[f] = v[Dir][f].sclust
  BY FilesOwn
<1>3. ASSUME NEW f \in Files PROVE ch[f] \in Seq(Clusters)
  <2>1. ch[f] \in UNION {[1 .. n -> Clusters] : n \in 0 .. LastCluster - 1}
    BY DEF Layouts
  <2>2. \A t \in UNION {[1 .. n -> Clusters] : n \in 0 .. LastCluster - 1} : t \in Seq(Clusters)
    BY SMT
  <2> QED BY <2>1, <2>2
<1>4. \A f \in Files : IsChain(v, ch[f], g[f]) /\ v[Dir][f].size <= PerSector * Len(ch[f])
  BY <1>1, <1>2 DEF OnChains
<1>5. \A f, h \in Files : f # h => Apart(ch[f], ch[h])
  BY <1>1 DEF OnChains, Apart
<1>6. g[NoFile] = 0 /\ 0 \notin Clusters
  BY FilesOwn DEF Clusters
<1>7. \A f \in Files : Chain(v, g[f]) = ch[f] /\ Chain(v, v[Dir][f].sclust) = ch[f]
  BY <1>2, <1>3, <1>4, ChainIs
<1>8. Chain(v, g[NoFile]) = <<>> /\ IsChain(v, <<>>, g[NoFile]) /\ <<>> \in Seq(Clusters) /\ Len(<<>>) = 0
  BY <1>6, NoChain
<1>9. Fits(v)
  BY <1>4, <1>7 DEF Fits, Named
<1> HIDE DEF g
<1>10. Linked(v, g)
  <2>1. \A i \in Owners : i \in Files \/ i = NoFile
    BY DEF Owners
  <2>2. \A i \in Owners : Chain(v, g[i]) \in Seq(Clusters) /\ IsChain(v, Chain(v, g[i]), g[i])
    BY <1>3, <1>4, <1>7, <1>8, <2>1
  <2>3. ASSUME NEW i \in Owners, NEW j \in Owners, i # j PROVE Apart(Chain(v, g[i]), Chain(v, g[j]))
    <3>1. CASE i \in Files /\ j \in Files
      BY <1>5, <1>7, <2>3, <3>1
    <3>2. CASE i = NoFile \/ j = NoFile
      BY <1>8, <3>2 DEF Apart
    <3> QED BY <2>1, <3>1, <3>2
  <2> QED BY <2>2, <2>3 DEF Linked
<1> QED BY <1>9, <1>10 DEF g

(* An entry of the directory changes. *)
LEMMA Renamed ==
  ASSUME Types, Calls, Chains, CardTypes', card' \in {card, Volume}, NEW f \in Files, NEW e \in EntrySet,
         Volume' = [Volume EXCEPT ![Dir][f] = e], e.size <= PerSector * Len(Chain(Volume, e.sclust)),
         \A i \in Owners : First(i)' \notin Clusters \/ \E j \in Owners : First(i)' = First(j),
         \A i, j \in Owners : i # j /\ First(i)' \in Clusters => First(i)' # First(j)',
         EntryOK', PlaceOK'
  PROVE  Chains' /\ \A c : Chain(Volume', c) = Chain(Volume, c)
<1>1. /\ Volume'[Dir] = [Volume[Dir] EXCEPT ![f] = e]
      /\ \A c \in Clusters : Fat(Volume', c) = Fat(Volume, c)
  BY VolumeNow, SectorNumbers DEF IsVolume, Fat, Dir
<1>2. \A c : \A s \in Seq(Clusters) : IsChain(Volume, s, c) <=> IsChain(Volume', s, c)
  BY <1>1, SameTable
<1>3. \A c : Chain(Volume', c) = Chain(Volume, c)
  BY <1>1, SameTable
<1>4. Linked(Volume', Firsts')
  <2>1. Firsts' = [i \in Owners |-> First(i)'] /\ Firsts = [i \in Owners |-> First(i)]
    BY DEF Firsts
  <2>2. Linked(Volume, Firsts)
    BY DEF Chains
  <2>3. Linked(Volume, Firsts')
    BY <2>1, <2>2, Reassigned
  <2> QED BY <1>2, <1>3, <2>3 DEF Linked
<1>5. Fits(Volume')
  <2>1. ASSUME NEW i \in Files
        PROVE  Volume'[Dir][i].size <= PerSector * Len(Chain(Volume, Volume'[Dir][i].sclust))
    <3>1. CASE i = f
      BY <1>1, <3>1, VolumeNow
    <3>2. CASE i # f
      BY <1>1, <3>2, VolumeNow DEF Chains, Fits, Named
    <3> QED BY <3>1, <3>2
  <2> QED BY <1>3, <2>1 DEF Fits, Named
<1>6. InOrder(card')
  BY OrderNow DEF Chains
<1> QED BY <1>3, <1>4, <1>5, <1>6 DEF Chains

(* Records and sectors. *)
LEMMA Times ==
  ASSUME NEW m \in Nat, NEW n \in Nat
  PROVE  /\ PerSector * m \in Nat
         /\ m <= n => PerSector * m <= PerSector * n
         /\ m < n => PerSector * m + PerSector <= PerSector * n
         /\ PerSector * (m + 1) = PerSector * m + PerSector
<1>1. PerSector \in Nat /\ PerSector > 0
  BY SectorAssumption
<1>2. PerSector * m \in Nat /\ PerSector * (m + 1) = PerSector * m + PerSector
  BY <1>1
<1>3. ASSUME m <= n PROVE PerSector * m <= PerSector * n
  <2>1. PICK d \in Nat : n = m + d
    BY <1>3
  <2>2. PerSector * n = PerSector * m + PerSector * d /\ PerSector * d \in Nat
    BY <1>1, <2>1
  <2> QED BY <1>2, <2>2
<1>4. ASSUME m < n PROVE PerSector * m + PerSector <= PerSector * n
  <2>1. PICK d \in Nat : n = m + 1 + d
    BY <1>4
  <2>2. PerSector * n = PerSector * m + PerSector + PerSector * d /\ PerSector * d \in Nat
    BY <1>1, <2>1
  <2> QED BY <1>1, <1>2, <2>2
<1> QED BY <1>2, <1>3, <1>4

(* The table changes, no chain of a file gets shorter. *)
LEMMA Longer ==
  ASSUME Types, Calls, Chains, Volume'[Dir] = Volume[Dir],
         \A i \in Files : /\ Chain(Volume', Firsts[i]) \in Seq(Clusters)
                         /\ Len(Chain(Volume', Firsts[i])) >= Len(Chain(Volume, Firsts[i]))
  PROVE  Fits(Volume')
<1>1. \A c : c \notin Clusters =>
        Chain(Volume', c) \in Seq(Clusters) /\ Len(Chain(Volume', c)) = 0 /\ Len(Chain(Volume, c)) = 0
  <2>1. Len(<<>>) = 0
    OBVIOUS
  <2> QED BY <2>1, NoChain
<1>2. ASSUME NEW f \in Files
      PROVE  /\ Chain(Volume', Volume[Dir][f].sclust) \in Seq(Clusters)
             /\ Len(Chain(Volume', Volume[Dir][f].sclust)) >= Len(Chain(Volume, Volume[Dir][f].sclust))
  <2>1. Volume[Dir][f].sclust \in {0, Firsts[f]}
    BY FilesOwn DEF Firsts, First, Chains, EntryOK
  <2>2. CASE Volume[Dir][f].sclust = 0
    <3>1. Volume[Dir][f].sclust \notin Clusters
      BY <2>2 DEF Clusters
    <3> QED BY <1>1, <3>1
  <2>3. CASE Volume[Dir][f].sclust = Firsts[f]
    BY <2>3
  <2> QED BY <2>1, <2>2, <2>3
<1>3. ASSUME NEW f \in Files PROVE Volume'[Dir][f].size <= PerSector * Len(Named(Volume', f))
  <2>1. Volume[Dir][f].size <= PerSector * Len(Chain(Volume, Volume[Dir][f].sclust))
    BY DEF Chains, Fits, Named
  <2>2. Linked(Volume, [i \in Owners |-> IF i = NoFile THEN 0 ELSE Volume[Dir][i].sclust])
    BY NamedLinked
  <2>3. Chain(Volume, Volume[Dir][f].sclust) \in Seq(Clusters)
    BY <2>2, FilesOwn DEF Linked
  <2> DEFINE m == Len(Chain(Volume, Volume[Dir][f].sclust))
             n == Len(Chain(Volume', Volume[Dir][f].sclust))
  <2>4. m \in Nat /\ n \in Nat /\ m <= n
    BY <1>2, <2>3
  <2>5. Volume[Dir][f].size \in Nat
    BY VolumeNow DEF EntrySet
  <2> HIDE DEF m, n
  <2>6. PerSector * m \in Nat /\ PerSector * n \in Nat /\ PerSector * m <= PerSector * n
    BY <2>4, Times
  <2>7. Volume[Dir][f].size <= PerSector * n
    BY <2>1, <2>5, <2>6 DEF m
  <2> QED BY <2>7 DEF Named, n
<1> QED BY <1>3 DEF Fits

-----------------------------------------------------------------------------
LEMMA InitInv ==
  ASSUME Init
  PROVE  Inv
<1> USE DEF NoOp, NoLocals, Closed, Unread
<1>1. PICK dir \in [Files -> Entries], fat \in [Clusters -> {Free, EOC} \cup Clusters] :
        card = Sectors(dir, fat)
  BY DEF Init
<1>2. IsVolume(card)
  <2>1. Entries \subseteq EntrySet
    <3>1. \A n \in 0 .. PerSector * (LastCluster - 1) : n \in Nat
      OBVIOUS
    <3> QED BY <3>1 DEF Entries, EntrySet, Absent
  <2>2. card = [s \in SectorSet |-> card[s]]
    BY <1>1 DEF Sectors, SectorSet
  <2>3. ASSUME NEW s \in SectorSet PROVE card[s] \in Contents(s)
    <3>1. CASE s = Dir
      BY <1>1, <2>1, <2>3, <3>1 DEF Sectors, SectorSet, Contents
    <3>2. CASE s # Dir
      BY <1>1, <2>3, <3>2 DEF Sectors, SectorSet, Contents, FatValues
    <3> QED BY <3>1, <3>2
  <2> QED BY <2>2, <2>3 DEF IsVolume
<1>3. Volume = card /\ CardTypes
  BY <1>2, SectorNumbers DEF Init, Volume, Cached, CardTypes, IsWindow, IsClean
<1>4. Types
  <2>1. fp \in FileObjects /\ x \in Locals /\ op \in Requests
    BY VolumeAssumption DEF Init, FileObjects, Locals, Requests, Values, NoSpace
  <2>2. data \in [Clusters -> [Records -> Values]]
    BY DEF Init, Values
  <2> QED BY <1>3, <2>1, <2>2 DEF Init, Types
<1>5. Calls
  BY DEF Init, Calls, Creating
<1>6. PICK ch \in Layouts :
        /\ OnChains(card, ch)
        /\ \A c \in Clusters : Fat(card, c) # Free => \E f \in Files : \E i \in 1 .. Len(ch[f]) : c = ch[f][i]
  BY DEF Init, NothingLost
<1>7. InOrder(card)
  BY <1>6 DEF InOrder
<1>8. ~IsOpen /\ Loose = 0
  BY DEF Init, IsOpen, Loose, Working, Creating, Closing
<1>9. Firsts = [i \in Owners |-> IF i = NoFile THEN 0 ELSE card[Dir][i].sclust]
  BY <1>3, <1>8 DEF Firsts, First
<1>10. Chains
  <2>1. EntryOK /\ PlaceOK
    BY <1>8 DEF Init, EntryOK, PlaceOK, Creating
  <2> QED BY <1>3, <1>7, <1>9, <2>1, FromOrder DEF Chains
<1>11. Tidy
  <2>1. ASSUME NEW c \in Clusters, Fat(card, c) # Free PROVE IsLinked(c)
    <3>1. PICK f \in Files : \E i \in 1 .. Len(ch[f]) : c = ch[f][i]
      BY <1>6, <2>1
    <3>2. f \in Owners /\ First(f) = card[Dir][f].sclust
      BY <1>3, <1>8, FilesOwn DEF First
    <3>3. ch[f] \in Seq(Clusters)
      <4>1. ch[f] \in UNION {[1 .. n -> Clusters] : n \in 0 .. LastCluster - 1}
        BY DEF Layouts
      <4>2. \A t \in UNION {[1 .. n -> Clusters] : n \in 0 .. LastCluster - 1} : t \in Seq(Clusters)
        BY SMT
      <4> QED BY <4>1, <4>2
    <3>4. Chain(Volume, First(f)) = ch[f]
      BY <1>3, <1>6, <3>2, <3>3, ChainIs DEF OnChains
    <3> QED BY <3>1, <3>2, <3>4 DEF IsLinked
  <2> QED BY <1>3, <2>1 DEF Init, Tidy
<1> QED BY <1>4, <1>5, <1>10, <1>11 DEF Inv

LEMMA StartInv ==
  ASSUME Inv, NEW kind \in {"read", "write", "save"}, NEW f \in Files, NEW pos \in Nat, NEW val \in Values,
         Start(kind, f, pos, val), kind = "save" => f = Conf /\ pos = 0, kind = "write" => f \in Images
  PROVE  Inv'
<1>1. Types /\ Calls /\ Chains /\ Tidy /\ Same
  BY Unmoved DEF Inv, Start
<1>2. pc = "idle" /\ pc' = "open" /\ op' = [kind |-> kind, file |-> f, pos |-> pos, val |-> val, ok |-> FALSE]
  BY DEF Start
<1>3. Types'
  <2>1. op' \in Requests
    BY <1>2 DEF Requests
  <2> QED BY <1>1, <1>2, <2>1 DEF Types, Start, Same
<1>4. Calls'
  BY <1>1, <1>2 DEF Calls, Start, Creating, Closed
<1>5. Chains' /\ \A i \in Files : First(i)' = First(i)
  BY <1>1, <1>2, Stops DEF IsOpen, Working, Creating, Closing
<1>6. Tidy'
  <2>1. \A i \in Owners : First(i) \in Clusters => i \in Files
    BY <1>2 DEF Owners, First, Loose, Clusters
  <2>2. faults' = 0 => ~win.wflag
    BY <1>1, <1>2 DEF Tidy, Same
  <2> QED BY <1>1, <1>2, <1>5, <2>1, <2>2, FilesOwn, Tidies DEF Same
<1> QED BY <1>3, <1>4, <1>5, <1>6 DEF Inv

LEMMA RequestInv ==
  ASSUME Inv, Request
  PROVE  Inv'
<1>1. Positions \subseteq Nat /\ 0 \in Nat /\ Blank \in Values /\ Data \subseteq Values
  BY DEF Positions, Values
<1>2. Conf \in Files /\ Images \subseteq Files
  BY DEF Files
<1>3. CASE ReadRecord(Conf, 0)
  BY <1>1, <1>2, <1>3, StartInv DEF ReadRecord
<1>4. CASE \E f \in Images, p \in Positions : ReadRecord(f, p)
  BY <1>1, <1>2, <1>4, StartInv DEF ReadRecord
<1>5. CASE \E f \in Images, p \in Positions, v \in Data : WriteRecord(f, p, v)
  BY <1>1, <1>2, <1>5, StartInv DEF WriteRecord
<1>6. CASE \E v \in Data : SaveConfig(v)
  BY <1>1, <1>2, <1>6, StartInv DEF SaveConfig
<1> QED BY <1>3, <1>4, <1>5, <1>6 DEF Request

-----------------------------------------------------------------------------
(* The file is open, its pointer at its start. *)
LEMMA Opened ==
  ASSUME Types, Calls, pc \in {"open", "reopen"}, NEW e \in EntrySet, e.sclust # -1, FileObject(e),
         e = Volume'[Dir][op.file], e.size <= PerSector * Len(Chain(Volume', e.sclust))
  PROVE  /\ op' = op /\ locked' = locked /\ fp' \in FileObjects /\ x' \in Locals /\ Calls'
         /\ pc' \in {"transfer", "seek"} /\ EntryOK' /\ PlaceOK'
         /\ Loose' = 0 /\ First(op.file)' = e.sclust /\ \A i \in Files \ {op.file} : First(i)' = Volume'[Dir][i].sclust
<1>1. /\ pc' \in {"transfer", "seek"} /\ op' = op /\ locked' = locked
      /\ x'.ofs = (IF op.kind = "read" /\ op.pos > e.size THEN e.size ELSE op.pos)
      /\ x'.ofs = 0 <=> pc' = "transfer"
      /\ x' = [NoLocals EXCEPT !.ofs = x'.ofs]
  BY DEF FileObject, Goto, NoLocals
<1>2. /\ fp' = [Closed EXCEPT !.sclust = e.sclust, !.objsize = e.size, !.modified = (op.kind = "save")]
      /\ fp'.sclust = e.sclust /\ fp'.objsize = e.size /\ fp'.fptr = 0 /\ (fp'.modified <=> op.kind = "save")
      /\ fp'.clust = 0 /\ fp'.sect = 0 /\ fp'.dirty = FALSE
  BY DEF FileObject, Closed
<1>3. op.file \in Files /\ e.size \in Nat /\ e.sclust \in {0} \cup Clusters /\ op.pos \in Nat
  BY DEF Calls, EntrySet, Types, Requests
<1>4. fp' \in FileObjects
  BY <1>2, <1>3 DEF FileObjects, Closed, Values
<1>5. x'.ofs \in Nat
  BY <1>1, <1>3
<1>6. x' \in Locals
  BY <1>1, <1>5, VolumeAssumption DEF Locals, NoLocals, NoSpace
<1>7. Calls'
  BY <1>1, <1>2, <1>3, <1>5 DEF Calls, Creating
<1>8. IsOpen' /\ Loose' = 0
  BY <1>1 DEF IsOpen, Working, Loose
<1>9. EntryOK'
  BY <1>1, <1>2, <1>8 DEF EntryOK, Own
<1>10. PlaceOK'
  BY <1>1, <1>2, <1>3 DEF PlaceOK, Creating
<1>11. First(op.file)' = e.sclust
  BY <1>1, <1>2, <1>3, <1>8, FilesOwn DEF First
<1>12. \A i \in Files \ {op.file} : First(i)' = Volume'[Dir][i].sclust
  BY <1>1, <1>8, FilesOwn DEF First
<1> QED BY <1>1, <1>4, <1>6, <1>7, <1>8, <1>9, <1>10, <1>11, <1>12

(* An entry of the directory is absent, or names a cluster or none. *)
LEMMA EntryNow ==
  ASSUME Types, Calls, Chains, NEW f \in Files
  PROVE  /\ Volume[Dir][f] \in EntrySet /\ (Volume[Dir][f].sclust = -1 => Volume[Dir][f] = Absent)
         /\ Volume[Dir][f].size <= PerSector * Len(Chain(Volume, Volume[Dir][f].sclust))
         /\ Volume[Dir][f].sclust \notin Clusters => Volume[Dir][f].size = 0
<1>1. Volume[Dir][f] \in EntrySet
  BY VolumeNow
<1>2. Volume[Dir][f].size <= PerSector * Len(Chain(Volume, Volume[Dir][f].sclust))
  BY DEF Chains, Fits, Named
<1>3. ASSUME Volume[Dir][f].sclust \notin Clusters PROVE Volume[Dir][f].size = 0
  <2>1. Len(Chain(Volume, Volume[Dir][f].sclust)) = 0
    BY <1>3, NoChain
  <2>2. PerSector * 0 = 0
    BY SectorAssumption
  <2> QED BY <1>1, <1>2, <2>1, <2>2 DEF EntrySet
<1>4. ASSUME Volume[Dir][f].sclust = -1 PROVE Volume[Dir][f] = Absent
  <2>1. Volume[Dir][f].size = 0
    BY <1>3, <1>4 DEF Clusters
  <2> QED BY <1>1, <1>4, <2>1 DEF EntrySet, Absent
<1> QED BY <1>1, <1>2, <1>3, <1>4

(* A function that fails before there is an open file. *)
LEMMA FailInv ==
  ASSUME Inv, Same, Fail, data' = data, last_clst' \in Int, ~IsOpen, faults' # 0
  PROVE  Inv'
<1>1. Types /\ Calls /\ Chains /\ Tidy
  BY DEF Inv
<1>2. pc' = "idle" /\ fp' = Closed /\ op' = NoOp /\ x' = NoLocals /\ locked' = locked
  BY DEF Fail
<1>3. fp' \in FileObjects /\ x' \in Locals /\ op' \in Requests
  BY <1>2, VolumeAssumption DEF Closed, NoOp, NoLocals, NoSpace, FileObjects, Locals, Requests, Values
<1>4. Types'
  BY <1>1, <1>2, <1>3 DEF Types, Same
<1>5. Calls'
  BY <1>2 DEF Calls, Closed, NoOp, Creating
<1>6. Chains'
  BY <1>1, <1>2, Stops
<1>7. Tidy'
  BY DEF Tidy
<1> QED BY <1>4, <1>5, <1>6, <1>7 DEF Inv

LEMMA OpenInv ==
  ASSUME Inv, f_open
  PROVE  Inv'
<1>1. Types /\ Calls /\ Chains /\ Tidy /\ CardTypes /\ faults \in Nat
  BY DEF Inv, Types
<1>2. /\ pc = "open" /\ data' = data /\ last_clst' = last_clst
      /\ ~IsOpen /\ Loose = 0 /\ op.file \in Files
  BY <1>1 DEF f_open, IsOpen, Loose, Working, Creating, Closing, Calls
<1>3. /\ First(NoFile) = 0 /\ 0 \notin Clusters
      /\ \A i \in Files : First(i) = Volume[Dir][i].sclust /\ i \in Owners /\ i # NoFile
  BY <1>2, FilesOwn DEF First, Clusters
<1>4. PICK m \in move_window(Dir) :
        \/ ~Opens(m) /\ Window(m, m.win) /\ Fail
        \/ /\ Opens(m) /\ op.kind # "save" /\ Window(m, m.win) /\ FileObject(m.win.content[op.file])
        \/ /\ Opens(m) /\ op.kind = "save" /\ Window(m, Put(m.win, Conf, Empty))
           /\ LET entry == m.win.content[op.file] IN
              IF entry.sclust > 0
                THEN Goto("remove") /\ x' = [x EXCEPT !.clst = entry.sclust, !.scl = entry.sclust] /\ UNCHANGED fp
                ELSE FileObject(Empty)
  BY DEF f_open
<1>5. Dir \in SectorSet
  BY SectorNumbers
<1>6. ASSUME m.ok PROVE m.win.content[op.file] = Volume[Dir][op.file]
  BY <1>1, <1>5, <1>6, Moved
<1> DEFINE e == Volume[Dir][op.file]
<1>7. e \in EntrySet /\ (e.sclust = -1 => e = Absent) /\ e.size <= PerSector * Len(Chain(Volume, e.sclust))
  BY <1>1, <1>2, EntryNow
<1>8. CASE ~Opens(m) /\ Window(m, m.win) /\ Fail
  <2>1. Same /\ (faults' = 0 => m.ok)
    BY <1>1, <1>5, <1>8, Glimpsed
  <2>2. pc' = "idle" /\ fp' = Closed /\ op' = NoOp /\ x' = NoLocals /\ locked' = locked
    BY <1>8 DEF Fail
  <2>3. fp' \in FileObjects /\ x' \in Locals /\ op' \in Requests
    BY <2>2, VolumeAssumption DEF Closed, NoOp, NoLocals, NoSpace, FileObjects, Locals, Requests, Values
  <2>4. Types'
    BY <1>1, <1>2, <2>1, <2>2, <2>3 DEF Types, Same
  <2>5. Calls'
    BY <2>2 DEF Calls, Closed, NoOp, Creating
  <2>6. Chains' /\ \A i \in Files : First(i)' = First(i)
    BY <1>1, <1>2, <2>1, <2>2, Stops
  <2>7. faults' = 0 => ~win'.wflag
    BY <1>1, <1>2, <2>1 DEF Tidy, Same
  <2>8. Tidy'
    BY <1>1, <1>3, <2>1, <2>2, <2>6, <2>7, Tidies DEF Owners
  <2> QED BY <2>4, <2>5, <2>6, <2>8 DEF Inv
<1>9. CASE Opens(m) /\ op.kind # "save" /\ Window(m, m.win) /\ FileObject(m.win.content[op.file])
  <2>1. Same
    BY <1>1, <1>5, <1>9, Glimpsed
  <2>2. m.win.content[op.file] = e /\ e # Absent /\ Volume' = Volume
    BY <1>6, <1>9, <2>1 DEF Opens, Same
  <2>3. /\ op' = op /\ locked' = locked /\ fp' \in FileObjects /\ x' \in Locals /\ Calls'
        /\ pc' \in {"transfer", "seek"} /\ EntryOK' /\ PlaceOK'
        /\ Loose' = 0 /\ First(op.file)' = e.sclust
        /\ \A i \in Files \ {op.file} : First(i)' = Volume'[Dir][i].sclust
    BY <1>1, <1>2, <1>7, <1>9, <2>2, Opened
  <2>4. Types'
    BY <1>1, <1>2, <2>1, <2>3 DEF Types, Same, Working
  <2>5. \A i \in Owners : First(i)' = First(i)
    <3>1. First(NoFile)' = 0
      BY <2>3 DEF First
    <3> QED BY <1>3, <2>2, <2>3, <3>1 DEF Owners
  <2>6. Chains'
    BY <1>1, <2>1, <2>3, <2>5, Steady DEF Same
  <2>7. Tidy'
    BY <1>1, <1>2, <2>1, <2>3, <2>5, Tidies DEF Tidy, Same, Closing
  <2> QED BY <2>3, <2>4, <2>6, <2>7 DEF Inv
<1>10. CASE /\ Opens(m) /\ op.kind = "save" /\ Window(m, Put(m.win, Conf, Empty))
            /\ LET entry == m.win.content[op.file] IN
               IF entry.sclust > 0
                 THEN Goto("remove") /\ x' = [x EXCEPT !.clst = entry.sclust, !.scl = entry.sclust] /\ UNCHANGED fp
                 ELSE FileObject(Empty)
  <2>1. op.file = Conf /\ m.ok /\ m.win.content[op.file] = e /\ op.kind = "save"
    BY <1>1, <1>6, <1>10 DEF Calls, Opens
  <2>2. Conf \in DOMAIN Volume[Dir] /\ Empty \in EntrySet
    BY <1>1, <1>2, <2>1, VolumeNow DEF Empty, EntrySet
  <2>3. /\ CardTypes' /\ Volume' = [Volume EXCEPT ![Dir][Conf] = Empty] /\ card' \in {card, Volume}
        /\ faults' = faults
    BY <1>1, <1>5, <1>10, <2>1, <2>2, Puts
  <2>4. Volume'[Dir] = [Volume[Dir] EXCEPT ![Conf] = Empty] /\ \A c \in Clusters : Fat(Volume', c) = Fat(Volume, c)
    BY <1>1, <2>3, VolumeNow, SectorNumbers DEF IsVolume, Fat, Dir
  <2>5. PerSector * 0 = 0 /\ Chain(Volume, 0) = <<>> /\ Chain(Volume', 0) = <<>> /\ Len(<<>>) = 0
    BY <1>3, SectorAssumption, NoChain
  <2>6. Empty.size <= PerSector * Len(Chain(Volume, Empty.sclust)) /\ Empty.size <= PerSector * Len(Chain(Volume', Empty.sclust))
    BY <2>5 DEF Empty
  <2>7. /\ Volume'[Dir][Conf] = Empty
        /\ \A i \in Files \ {Conf} : Volume'[Dir][i] = Volume[Dir][i]
    BY <1>1, <1>2, <2>1, <2>4, VolumeNow
  <2>8. CASE e.sclust > 0
    <3>1. /\ pc' = "remove" /\ op' = op /\ locked' = locked /\ fp' = fp
          /\ x' = [x EXCEPT !.clst = e.sclust, !.scl = e.sclust]
      BY <1>10, <2>1, <2>8 DEF Goto
    <3>2. e.sclust \in Clusters
      BY <1>7, <2>8 DEF EntrySet
    <3>3. x' \in Locals /\ x'.clst = e.sclust
      <4>1. e.sclust \in 0 .. LastCluster
        BY <3>2, VolumeAssumption DEF Clusters
      <4> HIDE DEF e
      <4> QED BY <1>1, <3>1, <3>2, <4>1 DEF Types, Locals
    <3>4. Types'
      BY <1>1, <1>2, <2>3, <3>1, <3>3 DEF Types
    <3>5. Calls'
      BY <1>1, <1>2, <2>1, <3>1, <3>2, <3>3 DEF Calls, Creating
    <3>6. ~IsOpen' /\ Loose' = e.sclust
      BY <3>1, <3>3 DEF IsOpen, Loose, Working, Creating, Closing
    <3>7. EntryOK' /\ PlaceOK'
      BY <2>7, <3>1, <3>6 DEF EntryOK, PlaceOK, Creating
    <3>8. /\ First(NoFile)' = First(Conf) /\ First(Conf)' = 0
          /\ \A i \in Files \ {Conf} : First(i)' = First(i)
      BY <1>2, <1>3, <2>1, <2>7, <3>6, FilesOwn DEF First, Empty
    <3>9. \A i, j \in Owners : i # j /\ First(i)' \in Clusters => First(i)' # First(j)'
      <4>1. \A i, j \in Owners : i # j /\ First(i) \in Clusters => First(i) # First(j)
        BY <1>1, Distinct
      <4> QED BY <1>2, <1>3, <2>1, <3>8, <4>1 DEF Owners
    <3>10. Chains' /\ \A c : Chain(Volume', c) = Chain(Volume, c)
      BY <1>1, <1>2, <1>3, <2>1, <2>2, <2>3, <2>6, <3>7, <3>8, <3>9, Renamed DEF Owners
    <3>11. Tidy'
      <4>1. \A i \in Owners : First(i) \in Clusters => \E j \in Owners : First(j)' = First(i)
        BY <1>2, <1>3, <2>1, <3>8, FilesOwn DEF Owners
      <4> QED BY <1>1, <2>1, <2>3, <2>4, <3>1, <4>1, TidyStays DEF Closing
    <3> QED BY <3>4, <3>5, <3>10, <3>11 DEF Inv
  <2>9. CASE ~(e.sclust > 0)
    <3>1. FileObject(Empty)
      BY <1>10, <2>1, <2>9
    <3>2. /\ op' = op /\ locked' = locked /\ fp' \in FileObjects /\ x' \in Locals /\ Calls'
          /\ pc' \in {"transfer", "seek"} /\ EntryOK' /\ PlaceOK'
          /\ Loose' = 0 /\ First(Conf)' = 0
          /\ \A i \in Files \ {Conf} : First(i)' = Volume'[Dir][i].sclust
      BY <1>1, <1>2, <2>1, <2>2, <2>6, <2>7, <3>1, Opened DEF Empty
    <3>3. Types'
      BY <1>1, <1>2, <2>3, <3>2 DEF Types, Working
    <3>4. First(Conf) \notin Clusters /\ First(NoFile)' = 0 /\ \A i \in Files \ {Conf} : First(i)' = First(i)
      BY <1>2, <1>3, <2>1, <2>7, <2>9, <3>2 DEF Clusters, First
    <3>5. \A i, j \in Owners : i # j /\ First(i)' \in Clusters => First(i)' # First(j)'
      <4>1. \A i, j \in Owners : i # j /\ First(i) \in Clusters => First(i) # First(j)
        BY <1>1, Distinct
      <4> QED BY <1>3, <3>2, <3>4, <4>1 DEF Owners
    <3>6. Chains' /\ \A c : Chain(Volume', c) = Chain(Volume, c)
      <4>1. \A i \in Owners : First(i)' \notin Clusters \/ \E j \in Owners : First(i)' = First(j)
        BY <1>3, <3>2, <3>4 DEF Owners
      <4> HIDE DEF e
      <4> QED BY <1>1, <1>2, <2>1, <2>2, <2>3, <2>6, <3>2, <3>5, <4>1, Renamed
    <3>7. Tidy'
      <4>1. \A i \in Owners : First(i) \in Clusters => \E j \in Owners : First(j)' = First(i)
        BY <1>3, <3>4, FilesOwn DEF Owners
      <4> QED BY <1>1, <2>1, <2>3, <2>4, <3>2, <4>1, TidyStays DEF Closing
    <3> QED BY <3>2, <3>3, <3>6, <3>7 DEF Inv
  <2> QED BY <2>8, <2>9
<1> QED BY <1>4, <1>8, <1>9, <1>10

-----------------------------------------------------------------------------
(* put_fat(), when the window could be moved *)
LEMMA TablePut ==
  ASSUME Types, NEW c \in Clusters, NEW e \in FatValues, NEW m \in move_window(FatSector(c)), m.ok,
         Window(m, Put(m.win, c, e))
  PROVE  /\ CardTypes' /\ Volume'[Dir] = Volume[Dir] /\ card' \in {card, Volume}
         /\ \A d \in Clusters : Fat(Volume', d) = IF d = c THEN e ELSE Fat(Volume, d)
         /\ win.sect = FatSector(c) => card' = card
         /\ win.sect # FatSector(c) => card' = Volume
         /\ faults' = faults /\ win'.sect = FatSector(c) /\ win'.wflag
<1>1. IsVolume(Volume) /\ FatSector(c) \in SectorSet /\ FatSector(c) # Dir /\ CardTypes /\ faults \in Nat
  BY VolumeNow, SectorNumbers DEF Types, Dir
<1>2. c \in DOMAIN Volume[FatSector(c)]
  BY <1>1, VolumeParts
<1>3. /\ CardTypes' /\ Volume' = [Volume EXCEPT ![FatSector(c)][c] = e]
      /\ card' \in {card, Volume} /\ (win.sect = FatSector(c) => card' = card)
      /\ (win.sect # FatSector(c) => card' = Volume)
      /\ faults' = faults /\ win'.sect = FatSector(c) /\ win'.wflag
  BY <1>1, <1>2, Puts
<1>4. Volume'[Dir] = Volume[Dir] /\ Volume'[FatSector(c)] = [Volume[FatSector(c)] EXCEPT ![c] = e]
      /\ \A s \in SectorSet \ {FatSector(c)} : Volume'[s] = Volume[s]
  BY <1>1, <1>3, SectorNumbers DEF IsVolume
<1>5. ASSUME NEW d \in Clusters PROVE Fat(Volume', d) = IF d = c THEN e ELSE Fat(Volume, d)
  <2>1. CASE FatSector(d) # FatSector(c)
    BY <1>4, <2>1, SectorNumbers DEF Fat
  <2>2. CASE FatSector(d) = FatSector(c)
    <3>1. Fat(Volume', d) = [Volume[FatSector(c)] EXCEPT ![c] = e][d] /\ Fat(Volume, d) = Volume[FatSector(c)][d]
      BY <1>4, <2>2 DEF Fat
    <3>2. d \in DOMAIN Volume[FatSector(c)]
      BY <1>1, <2>2, VolumeParts
    <3> QED BY <1>2, <3>1, <3>2
  <2> QED BY <2>1, <2>2
<1> QED BY <1>3, <1>4, <1>5

(* get_fat(), when the window could be moved *)
LEMMA TableRead ==
  ASSUME Types, NEW c \in Clusters, NEW m \in move_window(FatSector(c)), m.ok
  PROVE  get_fat(m, c) = Fat(Volume, c)
BY SectorNumbers, Moved DEF get_fat, Fat, Types

LEMMA RemoveInv ==
  ASSUME Inv, remove_chain
  PROVE  Inv'
<1>1. Types /\ Calls /\ Chains /\ Tidy /\ CardTypes /\ faults \in Nat
  BY DEF Inv, Types
<1>2. /\ pc = "remove" /\ data' = data /\ last_clst' = last_clst /\ op.kind = "save"
      /\ ~IsOpen /\ Loose = x.clst /\ x.clst \in Clusters /\ op.file = Conf /\ Volume[Dir][Conf] = Empty
  BY <1>1 DEF remove_chain, IsOpen, Loose, Working, Creating, Closing, Calls, Chains, PlaceOK
<1>3. /\ First(NoFile) = x.clst /\ 0 \notin Clusters
      /\ \A i \in Files : First(i) = Volume[Dir][i].sclust /\ i \in Owners /\ i # NoFile
  BY <1>2, FilesOwn DEF First, Clusters
<1>4. PICK m \in move_window(FatSector(x.clst)) :
        LET nxt == get_fat(m, x.clst) IN
        \/ ~m.ok /\ Window(m, m.win) /\ Fail
        \/ /\ m.ok /\ UNCHANGED fp
           /\ Window(m, IF EndsAt(nxt) THEN m.win ELSE Put(m.win, x.clst, Free))
           /\ IF nxt \in Clusters
                THEN x' = [x EXCEPT !.clst = nxt] /\ Goto("remove")
                ELSE UNCHANGED x /\ Goto("reopen")
  BY DEF remove_chain
<1>5. FatSector(x.clst) \in SectorSet
  BY <1>2, SectorNumbers
<1>6. CASE ~m.ok /\ Window(m, m.win) /\ Fail
  <2>1. Same /\ faults' # 0
    BY <1>1, <1>5, <1>6, Glimpsed
  <2>2. last_clst' \in Int
    BY <1>1, <1>2 DEF Types
  <2> QED BY <1>2, <1>6, <2>1, <2>2, FailInv
<1>7. ASSUME m.ok, UNCHANGED fp,
             Window(m, IF EndsAt(get_fat(m, x.clst)) THEN m.win ELSE Put(m.win, x.clst, Free)),
             IF get_fat(m, x.clst) \in Clusters
               THEN x' = [x EXCEPT !.clst = get_fat(m, x.clst)] /\ Goto("remove")
               ELSE UNCHANGED x /\ Goto("reopen")
      PROVE  Inv'
  <2> DEFINE nxt == Fat(Volume, x.clst)
  <2>1. get_fat(m, x.clst) = nxt
    BY <1>1, <1>2, <1>7, TableRead
  <2>2. Linked(Volume, Firsts) /\ Firsts[NoFile] = x.clst /\ NoFile \in Owners
    BY <1>1, <1>3, FilesOwn DEF Chains, Firsts
  <2>3. nxt # Free
    <3>1. Chain(Volume, x.clst) \in Seq(Clusters) /\ IsChain(Volume, Chain(Volume, x.clst), x.clst)
      BY <2>2 DEF Linked
    <3>2. Len(Chain(Volume, x.clst)) > 0 /\ Chain(Volume, x.clst)[1] = x.clst
      BY <1>2, <3>1 DEF IsChain
    <3>3. PICK one \in 1 .. Len(Chain(Volume, x.clst)) : one = 1
      BY <3>1, <3>2
    <3> QED BY <3>1, <3>2, <3>3, ChainAllocated
  <2>4. Window(m, Put(m.win, x.clst, Free)) /\ Free \in FatValues
    BY <1>7, <2>1, <2>3 DEF EndsAt, FatValues
  <2>5. /\ CardTypes' /\ Volume'[Dir] = Volume[Dir] /\ card' \in {card, Volume} /\ faults' = faults
        /\ \A d \in Clusters : Fat(Volume', d) = IF d = x.clst THEN Free ELSE Fat(Volume, d)
    BY <1>1, <1>2, <1>7, <2>4, TablePut
  <2>6. /\ op' = op /\ locked' = locked /\ fp' = fp
        /\ \/ nxt \in Clusters /\ x' = [x EXCEPT !.clst = nxt] /\ pc' = "remove"
           \/ nxt \notin Clusters /\ x' = x /\ pc' = "reopen"
    BY <1>7, <2>1 DEF Goto
  <2> HIDE DEF nxt
  <2>7. x' \in Locals /\ (nxt \in Clusters => x'.clst = nxt) /\ (nxt \notin Clusters => x'.clst = x.clst)
    BY <1>1, <2>6 DEF Types, Locals
  <2>8. Types'
    BY <1>1, <1>2, <2>5, <2>6, <2>7 DEF Types
  <2>9. Calls'
    BY <1>1, <1>2, <2>6, <2>7 DEF Calls, Creating
  <2>10. ~IsOpen' /\ Loose' = (IF nxt \in Clusters THEN nxt ELSE 0)
    BY <2>6, <2>7 DEF IsOpen, Loose, Working, Creating, Closing
  <2>11. EntryOK' /\ PlaceOK'
    BY <1>2, <2>5, <2>6, <2>10 DEF EntryOK, PlaceOK, Creating
  <2>12. /\ First(NoFile)' = (IF nxt \in Clusters THEN nxt ELSE 0)
         /\ \A i \in Files : First(i)' = First(i)
    BY <1>3, <2>5, <2>10 DEF First
  <2>13. /\ Linked(Volume', Firsts') /\ \A i \in Files : Chain(Volume', Firsts'[i]) = Chain(Volume, Firsts[i])
         /\ Chain(Volume, x.clst) \in Seq(Clusters) /\ Len(Chain(Volume, x.clst)) > 0 /\ Chain(Volume, x.clst)[1] = x.clst
         /\ Chain(Volume', Firsts'[NoFile]) = Tail(Chain(Volume, x.clst))
    <3>1. /\ \A i \in Files : Firsts'[i] = Firsts[i]
          /\ IF Fat(Volume, x.clst) \in Clusters THEN Firsts'[NoFile] = Fat(Volume, x.clst) ELSE Firsts'[NoFile] \notin Clusters
      BY <1>3, <2>12, FilesOwn DEF Firsts, nxt
    <3>2. ASSUME NEW v, NEW w, NEW h, NEW g, v = Volume, w = Volume', h = Firsts, g = Firsts'
          PROVE  /\ Linked(w, g) /\ \A i \in Files : Chain(w, g[i]) = Chain(v, h[i])
                 /\ Chain(v, x.clst) \in Seq(Clusters) /\ Len(Chain(v, x.clst)) > 0 /\ Chain(v, x.clst)[1] = x.clst
                 /\ Chain(w, g[NoFile]) = Tail(Chain(v, x.clst))
      <4>1. Linked(v, h) /\ h[NoFile] = x.clst /\ x.clst \in Clusters
        BY <1>2, <2>2, <3>2
      <4>2. \A d \in Clusters : Fat(w, d) = IF d = x.clst THEN Free ELSE Fat(v, d)
        BY <2>5, <3>2
      <4>3. /\ \A i \in Files : g[i] = h[i]
            /\ IF Fat(v, x.clst) \in Clusters THEN g[NoFile] = Fat(v, x.clst) ELSE g[NoFile] \notin Clusters
        BY <3>1, <3>2
      <4>4. Frees(v, h, x.clst, w, g)
        BY <4>1, <4>2, <4>3 DEF Frees
      <4> QED BY <4>4, Freed
    <3> QED BY <3>2
  <2>14. Chains'
    <3>1. \A i \in Files : Firsts'[i] = Firsts[i] /\ Chain(Volume, Firsts[i]) \in Seq(Clusters)
      BY <1>3, <2>2, <2>12 DEF Firsts, Linked
    <3>2. \A i \in Files : /\ Chain(Volume', Firsts[i]) \in Seq(Clusters)
                           /\ Len(Chain(Volume', Firsts[i])) >= Len(Chain(Volume, Firsts[i]))
      BY <2>13, <3>1
    <3>3. Fits(Volume')
      BY <1>1, <2>5, <3>2, Longer
    <3>4. InOrder(card')
      BY <1>1, <2>5, OrderNow DEF Chains
    <3> QED BY <2>11, <2>13, <3>3, <3>4 DEF Chains
  <2>15. Tidy'
    <3>1. ASSUME faults' = 0, NEW c \in Clusters, Fat(Volume', c) # Free PROVE IsLinked(c)'
      <4>1. c # x.clst /\ Fat(Volume, c) # Free /\ faults = 0
        BY <2>5, <3>1
      <4>2. PICK i \in Owners : \E k \in 1 .. Len(Chain(Volume, First(i))) : Chain(Volume, First(i))[k] = c
        BY <1>1, <4>1 DEF Tidy, IsLinked
      <4>3. First(i)' = Firsts'[i] /\ First(i) = Firsts[i]
        BY DEF Firsts
      <4>4. CASE i \in Files
        BY <2>13, <4>2, <4>3, <4>4 DEF IsLinked
      <4>5. CASE i = NoFile
        <5>1. PICK k \in 1 .. Len(Chain(Volume, x.clst)) : Chain(Volume, x.clst)[k] = c
          BY <1>3, <4>2, <4>5
        <5> DEFINE s == Chain(Volume, x.clst)
        <5>2. s \in Seq(Clusters) /\ Len(s) > 0 /\ s[1] = x.clst /\ s[k] = c /\ k \in 1 .. Len(s)
          BY <2>13, <5>1
        <5> HIDE DEF s
        <5>3. k - 1 \in 1 .. Len(Tail(s)) /\ Tail(s)[k - 1] = c
          BY <4>1, <5>2
        <5>4. Chain(Volume', First(NoFile)') = Tail(s)
          BY <2>13, <4>3, <4>5 DEF s
        <5> QED BY <2>2, <5>3, <5>4 DEF IsLinked
      <4> QED BY <4>4, <4>5 DEF Owners
    <3> QED BY <1>2, <2>6, <3>1 DEF Tidy, Closing
  <2> QED BY <2>8, <2>9, <2>14, <2>15 DEF Inv
<1> QED BY <1>4, <1>6, <1>7

LEMMA ReopenInv ==
  ASSUME Inv, ReopenTruncated
  PROVE  Inv'
<1>1. Types /\ Calls /\ Chains /\ Tidy
  BY DEF Inv
<1>2. /\ pc = "reopen" /\ data' = data /\ last_clst' = x.scl - 1 /\ op.kind = "save"
      /\ ~IsOpen /\ Loose = 0 /\ op.file = Conf /\ Volume[Dir][Conf] = Empty /\ Conf \in Files
  BY <1>1 DEF ReopenTruncated, IsOpen, Loose, Working, Creating, Closing, Calls, Chains, PlaceOK
<1>3. last_clst' \in Int
  BY <1>1, <1>2 DEF Types, Locals
<1>4. PICK m \in move_window(Dir) :
        Window(m, m.win) /\ IF m.ok THEN FileObject(m.win.content[Conf]) ELSE Fail
  BY DEF ReopenTruncated
<1>5. Same /\ (faults' = 0 => m.ok) /\ (m.ok => m.win.content = Volume[Dir])
  BY <1>1, <1>4, Glimpsed, SectorNumbers
<1>6. CASE ~m.ok
  BY <1>2, <1>3, <1>4, <1>5, <1>6, FailInv
<1>7. CASE m.ok
  <2>1. FileObject(Empty) /\ Volume' = Volume
    BY <1>2, <1>4, <1>5, <1>7 DEF Same
  <2>2. Empty \in EntrySet /\ Empty.sclust = 0 /\ Empty.size = 0
    BY DEF Empty, EntrySet
  <2>3. Empty.size <= PerSector * Len(Chain(Volume', Empty.sclust))
    BY <1>1, <1>2, <2>1, EntryNow
  <2>4. /\ op' = op /\ locked' = locked /\ fp' \in FileObjects /\ x' \in Locals /\ Calls'
        /\ pc' \in {"transfer", "seek"} /\ EntryOK' /\ PlaceOK'
        /\ Loose' = 0 /\ First(Conf)' = 0
        /\ \A i \in Files \ {Conf} : First(i)' = Volume'[Dir][i].sclust
    BY <1>1, <1>2, <2>1, <2>2, <2>3, Opened
  <2>5. Types'
    BY <1>1, <1>2, <1>3, <1>5, <2>4 DEF Types, Same, Working
  <2>6. \A i \in Owners : First(i)' = First(i)
    <3>1. First(NoFile)' = 0 /\ First(NoFile) = 0
      BY <1>2, <2>4 DEF First
    <3>2. \A i \in Files : First(i)' = First(i)
      BY <1>2, <2>1, <2>2, <2>4, FilesOwn DEF First
    <3> QED BY <3>1, <3>2 DEF Owners
  <2>7. Chains'
    BY <1>1, <1>5, <2>4, <2>6, Steady DEF Same
  <2>8. Tidy'
    BY <1>1, <1>2, <1>5, <2>4, <2>6, Tidies DEF Closing
  <2> QED BY <2>4, <2>5, <2>7, <2>8 DEF Inv
<1> QED BY <1>6, <1>7

-----------------------------------------------------------------------------
(* create_chain() ends without having allocated a cluster. *)
LEMMA ReturnInv ==
  ASSUME Inv, Same, pc \in Creating, UNCHANGED <<data, fp, last_clst>>,
         NEW res \in {NoSpace, Broken} \cup Clusters, Return(res),
         Valid(res) => x.clst # 0 /\ Ahead(res),
         res = Broken \/ pc = "link" => faults' # 0
  PROVE  Inv'
<1>1. Types /\ Calls /\ Chains /\ Tidy
  BY DEF Inv
<1>2. /\ op' = op /\ locked' = locked /\ pc' = x.ret /\ x' = [NoLocals EXCEPT !.ofs = x.ofs, !.res = res]
      /\ x'.ofs = x.ofs /\ x'.res = res /\ data' = data /\ fp' = fp /\ last_clst' = last_clst
  BY DEF Return, Goto, NoLocals
<1>3. x.ret \in {"first", "sought", "fill"} /\ op.kind # "read" /\ IsOpen /\ pc # "sync"
      /\ (x.clst = 0 => AtFirst /\ x.ret # "sought")
      /\ (x.clst # 0 => x.ret # "first" /\ x.clst = fp.clust /\ Behind(x.clst))
  BY <1>1 DEF Calls, IsOpen, Working, Chains, PlaceOK, Creating
<1>4. x' \in Locals
  <2>1. x.ofs \in Nat /\ 0 \in 0 .. LastCluster
    BY <1>1, VolumeAssumption DEF Types, Locals
  <2>2. x' = [ofs |-> x.ofs, clst |-> 0, ncl |-> 0, scl |-> 0, ret |-> "none", res |-> res]
    BY <1>2 DEF NoLocals
  <2> QED BY <2>1, <2>2 DEF Locals
<1>5. Types'
  BY <1>1, <1>2, <1>3, <1>4 DEF Types, Same, Working
<1>6. Calls'
  BY <1>1, <1>2, <1>3 DEF Calls, Creating
<1>7. Own' = Own
  BY <1>2 DEF Own, Same
<1>8. AtFirst' = AtFirst /\ Ahead(res)' = Ahead(res) /\ Behind(fp.clust)' = Behind(fp.clust)
  BY <1>2, <1>7 DEF AtFirst, Ahead, Behind, On
<1>9. PlaceOK'
  BY <1>2, <1>3, <1>8 DEF PlaceOK, Creating, Behind, AtFirst
<1>10. Loose' = 0
  BY <1>2, <1>3 DEF Loose, Ahead
<1>11. fp'.objsize <= PerSector * Len(Own)
  BY <1>1, <1>2, <1>3 DEF Chains, EntryOK
<1>12. Chains' /\ \A i \in Files : First(i)' = First(i)
  BY <1>1, <1>2, <1>3, <1>9, <1>10, <1>11, Continues DEF Working
<1>13. Tidy'
  <2>1. faults' = 0 => Loose = 0
    BY <1>3 DEF Loose, Creating
  <2>2. faults' = 0 => \A i \in Owners : First(i) \in Clusters => \E j \in Owners : First(j)' = First(i)
    BY <1>12, <2>1 DEF First, Owners, Clusters
  <2> QED BY <1>1, <1>2, <1>3, <2>2, Tidies DEF Closing
<1> QED BY <1>5, <1>6, <1>12, <1>13 DEF Inv

(* create_chain() goes on looking, or has found a cluster. *)
LEMMA ProceedInv ==
  ASSUME Inv, Same, pc \in {"stretch", "next", "search"}, UNCHANGED <<data, fp, op, locked, last_clst>>,
         x' \in Locals, x'.ofs = x.ofs, x'.clst = x.clst, x'.ret = x.ret, pc' \in {"next", "search", "alloc"},
         x.clst # 0 => Fat(Volume, x.clst) = EOC, pc' = "next" => x.clst # 0 /\ x'.scl > 0,
         pc' = "search" => x'.ncl > 0 /\ x'.scl > 0,
         pc' = "alloc" => x'.ncl \in Clusters /\ Fat(Volume, x'.ncl) = Free
  PROVE  Inv'
<1>1. Types /\ Calls /\ Chains /\ Tidy
  BY DEF Inv
<1>2. x.ret \in {"first", "sought", "fill"} /\ op.kind # "read" /\ IsOpen /\ pc # "sync"
      /\ (x.clst = 0 => AtFirst /\ x.ret # "sought")
      /\ (x.clst # 0 => x.ret # "first" /\ x.clst = fp.clust /\ Behind(x.clst))
  BY <1>1 DEF Calls, IsOpen, Working, Chains, PlaceOK, Creating
<1>3. Types'
  BY <1>1 DEF Types, Same, Working, Creating
<1>4. x.clst \in {0} \cup Clusters
  BY <1>1 DEF Types, Locals
<1>5. Calls'
  BY <1>1, <1>2, <1>4 DEF Calls, Creating
<1>6. Own' = Own /\ Volume' = Volume
  BY DEF Own, Same
<1>7. AtFirst' = AtFirst /\ Behind(x.clst)' = Behind(x.clst)
  BY <1>6 DEF AtFirst, Behind, On
<1>8. PlaceOK'
  BY <1>2, <1>6, <1>7 DEF PlaceOK, Creating
<1>9. Loose' = 0 /\ Loose = 0
  BY DEF Loose
<1>10. Chains' /\ \A i \in Files : First(i)' = First(i)
  BY <1>1, <1>2, <1>8, <1>9, Continues DEF Working, Creating, Chains, EntryOK
<1>11. Tidy'
  BY <1>1, <1>2, <1>9, <1>10, Tidies DEF First, Owners, Clusters, Closing
<1> QED BY <1>3, <1>5, <1>10, <1>11 DEF Inv

LEMMA StretchInv ==
  ASSUME Inv, Stretch
  PROVE  Inv'
<1>1. Types /\ Calls /\ Chains /\ Tidy
  BY DEF Inv
<1>2. /\ pc = "stretch" /\ UNCHANGED <<data, fp, last_clst>>
      /\ x.clst \in Clusters /\ x.clst = fp.clust /\ Behind(x.clst) /\ x.scl > 0
  BY <1>1 DEF Stretch, Look, Calls, Chains, PlaceOK, Creating, Clusters
<1>3. PICK m \in move_window(FatSector(x.clst)) :
        /\ Window(m, m.win)
        /\ IF m.ok
             THEN IF get_fat(m, x.clst) = Free THEN Return(Broken)
                  ELSE IF Valid(get_fat(m, x.clst)) THEN Return(get_fat(m, x.clst))
                  ELSE UNCHANGED x /\ Goto("next")
             ELSE Return(Broken)
  BY DEF Stretch, Look
<1>4. Same /\ (faults' = 0 => m.ok)
  BY <1>1, <1>2, <1>3, Glimpsed, SectorNumbers
<1>5. CASE ~m.ok
  <2>1. ~Valid(Broken)
    BY DEF Valid, Broken, Clusters
  <2> QED BY <1>2, <1>3, <1>4, <1>5, <2>1, ReturnInv DEF Creating
<1>6. CASE m.ok
  <2> DEFINE cs == Fat(Volume, x.clst)
  <2>1. get_fat(m, x.clst) = cs
    BY <1>1, <1>2, <1>6, TableRead
  <2>2. Own \in Seq(Clusters) /\ IsChain(Volume, Own, fp.sclust)
    BY <1>1, <1>2, OwnChain DEF IsOpen, Working, Creating
  <2>3. PICK k \in 1 .. Len(Own) : fp.sclust # 0 /\ fp.fptr = PerSector * k /\ Own[k] = x.clst
    BY <1>2 DEF Behind, On
  <2>4. cs # Free /\ cs = IF k = Len(Own) THEN EOC ELSE Own[k + 1]
    BY <2>2, <2>3, ChainAllocated
  <2> HIDE DEF cs
  <2>5. CASE Valid(cs)
    <3>1. k # Len(Own)
      BY <2>4, <2>5 DEF Valid, EOC, Clusters
    <3>2. k + 1 \in 1 .. Len(Own) /\ Own[k + 1] = cs /\ k \in 0 .. Len(Own)
      BY <2>2, <2>4, <3>1
    <3>3. Ahead(cs)
      BY <2>3, <3>2 DEF Ahead, On
    <3>4. Return(cs) /\ cs # Broken /\ x.clst # 0
      BY <1>2, <1>3, <1>6, <2>1, <2>4, <2>5 DEF Valid, Clusters, Broken
    <3> QED BY <1>2, <1>4, <2>5, <3>3, <3>4, ReturnInv DEF Creating, Valid
  <2>6. CASE ~Valid(cs)
    <3>1. cs = EOC
      <4>1. k # Len(Own) => Own[k + 1] \in Clusters
        BY <2>2, <2>3
      <4> QED BY <2>4, <2>6, <4>1 DEF Valid
    <3>2. x' = x /\ pc' = "next" /\ op' = op /\ locked' = locked
      BY <1>3, <1>6, <2>1, <2>4, <2>6 DEF Goto
    <3>3. x \in Locals /\ Fat(Volume, x.clst) = EOC /\ x.clst # 0
      BY <1>1, <1>2, <3>1 DEF Types, cs, Clusters
    <3> QED BY <1>2, <1>4, <3>2, <3>3, ProceedInv
  <2> QED BY <2>5, <2>6
<1> QED BY <1>5, <1>6

LEMMA TryNextInv ==
  ASSUME Inv, TryNext
  PROVE  Inv'
<1>1. Types /\ Calls /\ Chains /\ Tidy
  BY DEF Inv
<1>2. /\ pc = "next" /\ UNCHANGED <<data, fp, last_clst>> /\ x \in Locals
      /\ x.clst \in Clusters /\ x.clst # 0 /\ Fat(Volume, x.clst) = EOC /\ x.scl > 0
  BY <1>1 DEF TryNext, Look, Calls, Chains, PlaceOK, Creating, Clusters, Types
<1> DEFINE ncl == IF x.clst = LastCluster THEN 2 ELSE x.clst + 1
           start == IF Valid(last_clst) THEN last_clst ELSE x.scl
<1>3. ncl \in Clusters
  BY <1>2, VolumeAssumption DEF Clusters
<1>4. start \in 0 .. LastCluster /\ start > 0 /\ ncl \in 0 .. LastCluster
  BY <1>1, <1>2, <1>3, VolumeAssumption DEF Types, Locals, Valid, Clusters
<1>5. PICK m \in move_window(FatSector(ncl)) :
        /\ Window(m, m.win)
        /\ IF m.ok
             THEN IF get_fat(m, ncl) = Free THEN x' = [x EXCEPT !.ncl = ncl] /\ Goto("alloc")
                  ELSE x' = [x EXCEPT !.scl = start, !.ncl = start] /\ Goto("search")
             ELSE Return(Broken)
  BY DEF TryNext, Look
<1> HIDE DEF ncl, start
<1>6. Same /\ (faults' = 0 => m.ok)
  BY <1>1, <1>3, <1>5, Glimpsed, SectorNumbers
<1>7. CASE ~m.ok
  <2>1. ~Valid(Broken)
    BY DEF Valid, Broken, Clusters
  <2> QED BY <1>2, <1>5, <1>6, <1>7, <2>1, ReturnInv DEF Creating
<1>8. CASE m.ok
  <2>1. get_fat(m, ncl) = Fat(Volume, ncl)
    BY <1>1, <1>3, <1>8, TableRead
  <2>2. CASE Fat(Volume, ncl) = Free
    <3>1. x' = [x EXCEPT !.ncl = ncl] /\ pc' = "alloc" /\ op' = op /\ locked' = locked
      BY <1>5, <1>8, <2>1, <2>2 DEF Goto
    <3>2. x' \in Locals /\ x'.ofs = x.ofs /\ x'.clst = x.clst /\ x'.ret = x.ret /\ x'.ncl = ncl
      BY <1>2, <1>4, <3>1 DEF Locals
    <3> QED BY <1>2, <1>3, <1>6, <2>2, <3>1, <3>2, ProceedInv
  <2>3. CASE Fat(Volume, ncl) # Free
    <3>1. x' = [x EXCEPT !.scl = start, !.ncl = start] /\ pc' = "search" /\ op' = op /\ locked' = locked
      BY <1>5, <1>8, <2>1, <2>3 DEF Goto
    <3>2. x' \in Locals /\ x'.ofs = x.ofs /\ x'.clst = x.clst /\ x'.ret = x.ret /\ x'.ncl = start /\ x'.scl = start
      BY <1>2, <1>4, <3>1 DEF Locals
    <3> QED BY <1>2, <1>4, <1>6, <3>1, <3>2, ProceedInv
  <2> QED BY <2>2, <2>3
<1> QED BY <1>7, <1>8

LEMMA SearchInv ==
  ASSUME Inv, Search
  PROVE  Inv'
<1>1. Types /\ Calls /\ Chains /\ Tidy
  BY DEF Inv
<1>2. /\ pc = "search" /\ UNCHANGED <<data, fp, last_clst>> /\ x \in Locals /\ x.ncl > 0 /\ x.scl > 0
      /\ (x.clst # 0 => Fat(Volume, x.clst) = EOC)
  BY <1>1 DEF Search, Look, Calls, Chains, PlaceOK, Creating, Types
<1> DEFINE wraps == x.ncl = LastCluster
           ncl == IF wraps THEN 2 ELSE x.ncl + 1
<1>3. ncl \in Clusters /\ ncl \in 0 .. LastCluster /\ ncl > 0
  BY <1>2, VolumeAssumption DEF Clusters, Locals
<1>4. ~Valid(NoSpace) /\ ~Valid(Broken) /\ NoSpace # Broken
  BY DEF Valid, NoSpace, Broken, Clusters
<1>5. CASE wraps /\ ncl > x.scl
  <2>1. Return(NoSpace) /\ UNCHANGED <<card, win, faults>>
    BY <1>5 DEF Search, ghosts
  <2> HIDE DEF wraps, ncl
  <2>2. Same
    BY <1>1, <2>1, Unmoved
  <2> QED BY <1>2, <1>4, <2>1, <2>2, ReturnInv DEF Creating
<1>6. CASE ~(wraps /\ ncl > x.scl)
  <2>1. PICK m \in move_window(FatSector(ncl)) :
          /\ Window(m, m.win)
          /\ IF m.ok
               THEN IF get_fat(m, ncl) = Free THEN x' = [x EXCEPT !.ncl = ncl] /\ Goto("alloc")
                    ELSE IF ncl = x.scl THEN Return(NoSpace)
                    ELSE x' = [x EXCEPT !.ncl = ncl] /\ Goto("search")
               ELSE Return(Broken)
    BY <1>6 DEF Search, Look
  <2> HIDE DEF wraps, ncl
  <2>2. Same /\ (faults' = 0 => m.ok)
    BY <1>1, <1>3, <2>1, Glimpsed, SectorNumbers
  <2>3. CASE ~m.ok
    BY <1>2, <1>4, <2>1, <2>2, <2>3, ReturnInv DEF Creating
  <2>4. CASE m.ok
    <3>1. get_fat(m, ncl) = Fat(Volume, ncl)
      BY <1>1, <1>3, <2>4, TableRead
    <3>2. CASE Return(NoSpace)
      BY <1>2, <1>4, <2>2, <3>2, ReturnInv DEF Creating
    <3>3. CASE /\ x' = [x EXCEPT !.ncl = ncl] /\ op' = op /\ locked' = locked
               /\ pc' = IF Fat(Volume, ncl) = Free THEN "alloc" ELSE "search"
      <4>1. x' \in Locals /\ x'.ofs = x.ofs /\ x'.clst = x.clst /\ x'.ret = x.ret /\ x'.ncl = ncl /\ x'.scl = x.scl
        BY <1>2, <1>3, <3>3 DEF Locals
      <4> QED BY <1>2, <1>3, <2>2, <3>3, <4>1, ProceedInv
    <3> QED BY <2>1, <2>4, <3>1, <3>2, <3>3 DEF Goto
  <2> QED BY <2>3, <2>4
<1> QED BY <1>5, <1>6

(* A free cluster ends a chain of its own. *)
LEMMA AllocatedInv ==
  ASSUME Inv, pc = "alloc", data' = data, fp' = fp, op' = op, locked' = locked,
         NEW m \in move_window(FatSector(x.ncl)), m.ok, Window(m, Put(m.win, x.ncl, EOC)),
         \/ x.clst = 0 /\ last_clst' = x.ncl /\ pc' = x.ret
              /\ x' = [ofs |-> x.ofs, clst |-> 0, ncl |-> 0, scl |-> 0, ret |-> "none", res |-> x.ncl]
         \/ x.clst # 0 /\ last_clst' = last_clst /\ pc' = "link" /\ x' = x
  PROVE  Inv'
<1>1. Types /\ Calls /\ Chains /\ Tidy
  BY DEF Inv
<1>2. /\ x.ncl \in Clusters /\ Fat(Volume, x.ncl) = Free
      /\ IsOpen /\ x.ret \in {"first", "sought", "fill"} /\ op.kind # "read" /\ op.file \in Files
      /\ (x.clst = 0 => AtFirst /\ x.ret # "sought")
      /\ (x.clst # 0 => x.ret # "first" /\ x.clst = fp.clust /\ Behind(x.clst) /\ Fat(Volume, x.clst) = EOC)
  BY <1>1 DEF Calls, IsOpen, Working, Chains, PlaceOK, Creating
<1>3. Loose = 0 /\ First(NoFile) = 0 /\ 0 \notin Clusters /\ \A i \in Files : i \in Owners /\ i # NoFile
  BY FilesOwn DEF Loose, First, Clusters
<1>4. /\ CardTypes' /\ Volume'[Dir] = Volume[Dir] /\ card' \in {card, Volume} /\ faults' = faults
      /\ \A d \in Clusters : Fat(Volume', d) = IF d = x.ncl THEN EOC ELSE Fat(Volume, d)
  BY <1>1, <1>2, TablePut DEF FatValues
<1>5. x' \in Locals /\ x.ncl \in 0 .. LastCluster
  BY <1>1, <1>2, VolumeAssumption DEF Types, Locals
<1>6. IsOpen' /\ Loose' = x.ncl /\ pc' \in {"first", "fill", "link"}
  BY <1>2 DEF IsOpen, Working, Creating, Loose, AtFirst, Valid
<1>7. Types'
  BY <1>1, <1>4, <1>5, <1>6 DEF Types, Working, Creating, Clusters
<1>8. Calls'
  <2>1. x.clst # 0 => x.clst \in Clusters
    BY <1>1 DEF Types, Locals
  <2> QED BY <1>1, <1>2, <1>6, <2>1 DEF Calls, Creating
<1>9. First(NoFile)' = x.ncl /\ \A i \in Files : First(i)' = First(i)
  BY <1>2, <1>3, <1>4, <1>6 DEF First
<1>10. /\ Linked(Volume', Firsts') /\ Chain(Volume', x.ncl) = <<x.ncl>>
       /\ \A i \in Files : Chain(Volume', Firsts'[i]) = Chain(Volume, Firsts[i])
  <2>1. ASSUME NEW v, NEW w, NEW h, NEW g, v = Volume, w = Volume', h = Firsts, g = Firsts'
        PROVE  Linked(w, g) /\ Chain(w, x.ncl) = <<x.ncl>> /\ \A i \in Files : Chain(w, g[i]) = Chain(v, h[i])
    <3>1. Linked(v, h) /\ Fat(v, x.ncl) = Free
      BY <1>1, <1>2, <2>1 DEF Chains
    <3>2. \A d \in Clusters : Fat(w, d) = IF d = x.ncl THEN EOC ELSE Fat(v, d)
      BY <1>4, <2>1
    <3>3. g[NoFile] = x.ncl /\ \A i \in Files : g[i] = h[i]
      BY <1>3, <1>9, <2>1, FilesOwn DEF Firsts
    <3>4. Allocates(v, h, x.ncl, w, g)
      BY <1>2, <3>1, <3>2, <3>3 DEF Allocates
    <3> QED BY <3>4, Allocated
  <2> QED BY <2>1
<1>11. \A i \in Files : Firsts'[i] = First(i) /\ Firsts[i] = First(i) /\ Chain(Volume', First(i)) = Chain(Volume, First(i))
                        /\ Chain(Volume, First(i)) \in Seq(Clusters)
  <2>1. Linked(Volume, Firsts)
    BY <1>1 DEF Chains
  <2> QED BY <1>3, <1>9, <1>10, <2>1 DEF Firsts, Linked
<1>12. Own' = Own /\ Own \in Seq(Clusters)
  BY <1>2, <1>3, <1>11 DEF Own, First
<1>13. EntryOK'
  BY <1>1, <1>2, <1>4, <1>6, <1>12 DEF EntryOK, Chains
<1>14. PlaceOK'
  <2>1. AtFirst' = AtFirst /\ Behind(x.clst)' = Behind(x.clst)
    BY <1>12 DEF AtFirst, Behind, On
  <2>2. CASE x.clst = 0
    BY <1>2, <1>6, <1>10, <2>1, <2>2 DEF PlaceOK, Creating, AtFirst
  <2>3. CASE x.clst # 0
    <3>1. x.clst \in Clusters /\ x.clst # x.ncl
      BY <1>1, <1>2, <2>3 DEF Types, Locals, EOC, Free
    <3> QED BY <1>2, <1>4, <1>6, <1>10, <2>1, <2>3, <3>1 DEF PlaceOK, Creating
  <2> QED BY <2>2, <2>3
<1>15. Chains'
  <2>1. \A i \in Files : /\ Chain(Volume', Firsts[i]) \in Seq(Clusters)
                         /\ Len(Chain(Volume', Firsts[i])) >= Len(Chain(Volume, Firsts[i]))
    BY <1>11
  <2>2. Fits(Volume')
    BY <1>1, <1>4, <2>1, Longer
  <2>3. InOrder(card')
    BY <1>1, <1>4, OrderNow DEF Chains
  <2> QED BY <1>10, <1>13, <1>14, <2>2, <2>3 DEF Chains
<1>16. Tidy'
  <2>1. ASSUME faults' = 0, NEW c \in Clusters, Fat(Volume', c) # Free PROVE IsLinked(c)'
    <3>1. CASE c = x.ncl
      <4>1. Chain(Volume', First(NoFile)') = <<c>>
        BY <1>9, <1>10, <3>1
      <4>2. 1 \in 1 .. Len(<<c>>) /\ <<c>>[1] = c
        OBVIOUS
      <4> QED BY <4>1, <4>2, FilesOwn DEF IsLinked
    <3>2. CASE c # x.ncl
      <4>1. Fat(Volume, c) # Free /\ faults = 0
        BY <1>4, <2>1, <3>2
      <4>2. PICK i \in Owners : \E k \in 1 .. Len(Chain(Volume, First(i))) : Chain(Volume, First(i))[k] = c
        BY <1>1, <4>1 DEF Tidy, IsLinked
      <4>3. First(i) \in Clusters
        BY <4>2, NoChain
      <4>4. i \in Files
        BY <1>3, <4>3 DEF Owners
      <4>5. Chain(Volume', First(i)') = Chain(Volume, First(i))
        BY <1>9, <1>11, <4>4
      <4>6. \E k \in 1 .. Len(Chain(Volume', First(i)')) : Chain(Volume', First(i)')[k] = c
        BY <4>2, <4>5
      <4> QED BY <4>6 DEF IsLinked
    <3> QED BY <3>1, <3>2
  <2>2. faults' = 0 /\ pc' \in {"first", "sought", "fill"} => x'.res # Broken
    BY <1>2, <1>6 DEF Broken, Clusters
  <2> QED BY <1>2, <1>6, <2>1, <2>2 DEF Tidy, Closing
<1> QED BY <1>7, <1>8, <1>15, <1>16 DEF Inv

(* The chain of the open file leads to the new cluster. *)
LEMMA LinkedInv ==
  ASSUME Inv, pc = "link", data' = data, fp' = fp, op' = op, locked' = locked, last_clst' = x.ncl, pc' = x.ret,
         NEW m \in move_window(FatSector(x.clst)), m.ok, Window(m, Put(m.win, x.clst, x.ncl)),
         x' = [ofs |-> x.ofs, clst |-> 0, ncl |-> 0, scl |-> 0, ret |-> "none", res |-> x.ncl]
  PROVE  Inv'
<1>1. Types /\ Calls /\ Chains /\ Tidy
  BY DEF Inv
<1>2. /\ x.ncl \in Clusters /\ x.clst \in Clusters /\ Fat(Volume, x.clst) = EOC
      /\ IsOpen /\ x.ret \in {"sought", "fill"} /\ op.kind # "read" /\ op.file \in Files
      /\ x.clst = fp.clust /\ Behind(x.clst) /\ Chain(Volume, x.ncl) = <<x.ncl>>
  BY <1>1 DEF Calls, IsOpen, Working, Chains, PlaceOK, Creating, Clusters
<1>3. First(NoFile) = x.ncl /\ First(op.file) = fp.sclust /\ 0 \notin Clusters
      /\ \A i \in Files : i \in Owners /\ i # NoFile
  BY <1>2, FilesOwn DEF Loose, First, Clusters
<1>4. /\ CardTypes' /\ Volume'[Dir] = Volume[Dir] /\ card' \in {card, Volume} /\ faults' = faults
      /\ \A d \in Clusters : Fat(Volume', d) = IF d = x.clst THEN x.ncl ELSE Fat(Volume, d)
  BY <1>1, <1>2, TablePut DEF FatValues
<1>5. x' \in Locals
  BY <1>1, <1>2, VolumeAssumption DEF Types, Locals
<1>6. IsOpen' /\ Loose' = 0 /\ First(NoFile)' = 0
  BY <1>2 DEF IsOpen, Working, Creating, Loose, Behind, First
<1>7. Types'
  BY <1>1, <1>2, <1>4, <1>5 DEF Types, Working, Clusters
<1>8. Calls'
  BY <1>1, <1>2 DEF Calls, Creating, Clusters
<1>9. \A i \in Files : First(i)' = First(i)
  BY <1>2, <1>3, <1>4, <1>6 DEF First
<1>10. PICK k \in 0 .. Len(Own) : fp.sclust # 0 /\ fp.fptr = PerSector * k /\ k \in 1 .. Len(Own) /\ Own[k] = x.clst
  BY <1>2 DEF Behind, On
<1>11. /\ Linked(Volume', Firsts') /\ k = Len(Own) /\ Own' = Append(Own, x.ncl)
       /\ \A i \in Files \ {op.file} : Chain(Volume', First(i)) = Chain(Volume, First(i))
  <2>1. ASSUME NEW v, NEW w, NEW h, NEW g, v = Volume, w = Volume', h = Firsts, g = Firsts',
               NEW f, NEW n, NEW c, f = op.file, n = x.ncl, c = x.clst
        PROVE  /\ Linked(w, g) /\ k = Len(Chain(v, h[f]))
               /\ Chain(w, h[f]) = Append(Chain(v, h[f]), n)
               /\ \A i \in Files \ {f} : Chain(w, g[i]) = Chain(v, h[i])
    <3>1. Linked(v, h) /\ Fat(v, c) = EOC /\ Chain(v, n) = <<n>> /\ f \in Files /\ n \in Clusters
      BY <1>1, <1>2, <2>1 DEF Chains
    <3>2. \A d \in Clusters : Fat(w, d) = IF d = c THEN n ELSE Fat(v, d)
      BY <1>4, <2>1
    <3>3. g[NoFile] \notin Clusters /\ h[NoFile] = n /\ \A i \in Files : g[i] = h[i]
      BY <1>3, <1>6, <1>9, <2>1, FilesOwn DEF Firsts
    <3>4. h[f] = fp.sclust /\ Chain(v, h[f]) = Own
      BY <1>2, <1>3, <2>1 DEF Firsts, Own
    <3>5. k \in 1 .. Len(Chain(v, h[f])) /\ Chain(v, h[f])[k] = c
      BY <1>10, <2>1, <3>4
    <3>6. Lengthens(v, h, f, n, k, c, w, g)
      BY <3>1, <3>2, <3>3, <3>5 DEF Lengthens
    <3> QED BY <3>6, Lengthened
  <2>2. \A i \in Files : Firsts[i] = First(i) /\ Firsts'[i] = First(i)
    BY <1>3, <1>9 DEF Firsts
  <2>3. Own = Chain(Volume, Firsts[op.file]) /\ Own' = Chain(Volume', Firsts[op.file])
    BY <1>2, <1>3, <2>2 DEF Own
  <2>4. /\ Linked(Volume', Firsts') /\ k = Len(Chain(Volume, Firsts[op.file]))
        /\ Chain(Volume', Firsts[op.file]) = Append(Chain(Volume, Firsts[op.file]), x.ncl)
        /\ \A i \in Files \ {op.file} : Chain(Volume', Firsts'[i]) = Chain(Volume, Firsts[i])
    BY <2>1
  <2> QED BY <2>2, <2>3, <2>4
<1>12. Own \in Seq(Clusters)
  BY <1>1, <1>2, OwnChain
<1>13. Own' \in Seq(Clusters) /\ Len(Own') = Len(Own) + 1 /\ Own'[Len(Own) + 1] = x.ncl
       /\ \A j \in 1 .. Len(Own) : Own'[j] = Own[j]
  BY <1>2, <1>11, <1>12
<1>14. EntryOK'
  <2>1. PerSector * Len(Own) <= PerSector * Len(Own') /\ PerSector * Len(Own) \in Nat /\ PerSector * Len(Own') \in Nat
    <3>1. Len(Own) \in Nat /\ Len(Own') \in Nat /\ Len(Own) <= Len(Own')
      BY <1>12, <1>13
    <3> QED BY <3>1, Times
  <2>2. fp.objsize <= PerSector * Len(Own) /\ fp.objsize \in Nat
    BY <1>1, <1>2 DEF Chains, EntryOK, Types, FileObjects
  <2>3. fp'.objsize <= PerSector * Len(Own')
    BY <2>1, <2>2
  <2> QED BY <1>1, <1>2, <1>4, <2>3 DEF EntryOK, Chains
<1>15. PlaceOK'
  <2>1. Ahead(x.res)' /\ x'.res \in Clusters
    BY <1>2, <1>10, <1>11, <1>12, <1>13 DEF Ahead, On
  <2> QED BY <1>2, <1>10, <2>1 DEF PlaceOK, Creating, Valid
<1>16. Chains'
  <2>1. ASSUME NEW i \in Files
        PROVE  /\ Chain(Volume', Firsts[i]) \in Seq(Clusters)
               /\ Len(Chain(Volume', Firsts[i])) >= Len(Chain(Volume, Firsts[i]))
    <3>1. Firsts[i] = First(i) /\ Chain(Volume, Firsts[i]) \in Seq(Clusters)
      BY <1>1, <1>3 DEF Firsts, Chains, Linked
    <3>2. CASE i = op.file
      BY <1>3, <1>12, <1>13, <3>1, <3>2 DEF Own
    <3>3. CASE i # op.file
      BY <1>11, <3>1, <3>3
    <3> QED BY <3>2, <3>3
  <2>2. Fits(Volume')
    BY <1>1, <1>4, <2>1, Longer
  <2>3. InOrder(card')
    BY <1>1, <1>4, OrderNow DEF Chains
  <2> QED BY <1>11, <1>14, <1>15, <2>2, <2>3 DEF Chains
<1>17. Tidy'
  <2>1. ASSUME faults' = 0, NEW c \in Clusters, Fat(Volume', c) # Free PROVE IsLinked(c)'
    <3>1. First(op.file)' = fp.sclust /\ Own' = Chain(Volume', First(op.file)') /\ op.file \in Owners
      BY <1>2, <1>3, <1>9 DEF Own
    <3>2. ASSUME NEW j \in 1 .. Len(Own'), Own'[j] = c PROVE IsLinked(c)'
      BY <3>1, <3>2 DEF IsLinked
    <3>3. CASE c = x.clst
      BY <1>10, <1>12, <1>13, <3>2, <3>3
    <3>4. CASE c # x.clst
      <4>1. Fat(Volume, c) # Free /\ faults = 0
        BY <1>4, <2>1, <3>4
      <4>2. PICK i \in Owners : \E j \in 1 .. Len(Chain(Volume, First(i))) : Chain(Volume, First(i))[j] = c
        BY <1>1, <4>1 DEF Tidy, IsLinked
      <4>3. CASE i = NoFile
        <5>1. \A j \in 1 .. Len(<<x.ncl>>) : <<x.ncl>>[j] = x.ncl
          OBVIOUS
        <5>2. c = x.ncl
          BY <1>2, <1>3, <4>2, <4>3, <5>1
        <5> QED BY <1>12, <1>13, <3>2, <5>2
      <4>4. CASE i = op.file
        BY <1>3, <1>12, <1>13, <3>2, <4>2, <4>4 DEF Own
      <4>5. CASE i \in Files \ {op.file}
        <5>1. Chain(Volume', First(i)') = Chain(Volume, First(i))
          BY <1>9, <1>11, <4>5
        <5>2. \E j \in 1 .. Len(Chain(Volume', First(i)')) : Chain(Volume', First(i)')[j] = c
          BY <4>2, <5>1
        <5> QED BY <5>2 DEF IsLinked
      <4> QED BY <4>3, <4>4, <4>5 DEF Owners
    <3> QED BY <3>3, <3>4
  <2>2. faults' = 0 /\ pc' \in {"first", "sought", "fill"} => x'.res # Broken
    BY <1>2 DEF Broken, Clusters
  <2> QED BY <1>2, <2>1, <2>2 DEF Tidy, Closing
<1> QED BY <1>7, <1>8, <1>16, <1>17 DEF Inv

LEMMA AllocInv ==
  ASSUME Inv, Alloc
  PROVE  Inv'
<1>1. Types /\ Calls /\ Chains
  BY DEF Inv
<1>2. ~Valid(Broken)
  BY DEF Valid, Broken, Clusters
<1>3. CASE pc = "alloc"
  <2>1. x.ncl \in Clusters /\ data' = data /\ fp' = fp
    BY <1>1, <1>3 DEF Calls, Alloc, PutFat
  <2>2. PICK m \in move_window(FatSector(x.ncl)) :
          IF m.ok THEN /\ Window(m, Put(m.win, x.ncl, EOC))
                       /\ IF x.clst = 0 THEN Created ELSE UNCHANGED <<x, last_clst>> /\ Goto("link")
          ELSE Window(m, m.win) /\ Return(Broken) /\ UNCHANGED last_clst
    BY <1>3 DEF Alloc, PutFat
  <2>3. CASE m.ok
    BY <1>3, <2>1, <2>2, <2>3, AllocatedInv DEF Created, Return, Goto, NoLocals
  <2>4. CASE ~m.ok
    <3>1. Same /\ (faults' = 0 => m.ok)
      BY <1>1, <2>1, <2>2, <2>4, Glimpsed, SectorNumbers
    <3> QED BY <1>2, <1>3, <2>1, <2>2, <2>4, <3>1, ReturnInv DEF Creating
  <2> QED BY <2>3, <2>4
<1>4. CASE pc = "link"
  <2>1. x.clst \in Clusters /\ data' = data /\ fp' = fp
    BY <1>1, <1>4 DEF Calls, Alloc, PutFat
  <2>2. PICK m \in move_window(FatSector(x.clst)) :
          IF m.ok THEN Window(m, Put(m.win, x.clst, x.ncl)) /\ Created
          ELSE Window(m, m.win) /\ Return(Broken) /\ UNCHANGED last_clst
    BY <1>4 DEF Alloc, PutFat
  <2>3. CASE m.ok
    BY <1>4, <2>1, <2>2, <2>3, LinkedInv DEF Created, Return, Goto, NoLocals
  <2>4. CASE ~m.ok
    <3>1. Same /\ (faults' = 0 => m.ok)
      BY <1>1, <2>1, <2>2, <2>4, Glimpsed, SectorNumbers
    <3> QED BY <1>2, <1>4, <2>1, <2>2, <2>4, <3>1, ReturnInv DEF Creating
  <2> QED BY <2>3, <2>4
<1> QED BY <1>3, <1>4 DEF Alloc

-----------------------------------------------------------------------------
(* What f_lseek(), f_read() and f_write() begin and end with. *)
LEMMA CreateInv ==
  ASSUME Inv, pc \in Working \ Creating, Loose = 0, op.kind # "read", UNCHANGED <<card, win, faults, data, last_clst>>,
         NEW clst \in {0} \cup Clusters, NEW ret \in {"first", "sought", "fill"}, NEW locals \in Locals,
         CreateChain(clst, ret, locals),
         fp' \in FileObjects, fp'.sclust = fp.sclust, fp'.objsize <= PerSector * Len(Own),
         clst = 0 => fp.sclust = 0 /\ fp'.fptr = 0 /\ ret # "sought",
         clst # 0 => ret # "first" /\ clst = fp'.clust /\ fp.sclust # 0
                     /\ \E k \in 0 .. Len(Own) : fp'.fptr = PerSector * k /\ On(clst, k),
         ret # "fill" => op.kind # "save" /\ locals.ofs > 0
  PROVE  Inv'
<1>1. Types /\ Calls /\ Chains /\ Tidy
  BY DEF Inv
<1>2. /\ op' = op /\ locked' = locked /\ pc' = (IF clst # 0 THEN "stretch" ELSE "search")
      /\ x' = [locals EXCEPT !.clst = clst, !.ret = ret,
                 !.scl = IF clst # 0 THEN clst ELSE IF Valid(last_clst) THEN last_clst ELSE 1,
                 !.ncl = IF clst # 0 THEN 0 ELSE IF Valid(last_clst) THEN last_clst ELSE 1]
  BY DEF CreateChain, Goto
<1>3. /\ x' \in Locals /\ x'.clst = clst /\ x'.ret = ret /\ x'.ofs = locals.ofs
      /\ x'.scl > 0 /\ (clst = 0 => x'.ncl > 0)
  <2>1. clst \in 0 .. LastCluster /\ 0 \in 0 .. LastCluster /\ 1 \in 0 .. LastCluster /\ (clst # 0 => clst > 0)
    BY VolumeAssumption DEF Clusters
  <2>2. Valid(last_clst) => last_clst \in 0 .. LastCluster /\ last_clst > 0
    BY VolumeAssumption DEF Valid, Clusters
  <2> DEFINE scl == IF clst # 0 THEN clst ELSE IF Valid(last_clst) THEN last_clst ELSE 1
             ncl == IF clst # 0 THEN 0 ELSE IF Valid(last_clst) THEN last_clst ELSE 1
  <2>3. scl \in 0 .. LastCluster /\ ncl \in 0 .. LastCluster /\ scl > 0 /\ (clst = 0 => ncl > 0)
    BY <2>1, <2>2
  <2>4. x' = [locals EXCEPT !.clst = clst, !.ret = ret, !.scl = scl, !.ncl = ncl]
    BY <1>2
  <2> HIDE DEF scl, ncl
  <2> QED BY <2>3, <2>4 DEF Locals
<1>4. Same /\ IsOpen /\ pc # "sync" /\ op.file \in Files
  BY <1>1, Unmoved DEF IsOpen, Calls, Working, Creating
<1>5. Types'
  BY <1>1, <1>2, <1>3, <1>4 DEF Types, Same, Working, Creating
<1>6. Calls'
  <2>1. clst # 0 => clst \in Clusters
    OBVIOUS
  <2> QED BY <1>1, <1>2, <1>3, <1>4, <2>1 DEF Calls, Creating, Working
<1>7. Own' = Own /\ Volume' = Volume
  BY <1>4 DEF Own, Same
<1>8. PlaceOK'
  BY <1>2, <1>3, <1>7 DEF PlaceOK, Creating, AtFirst, Behind, On
<1>9. Loose' = 0
  BY <1>2 DEF Loose
<1>10. Chains' /\ \A i \in Files : First(i)' = First(i)
  BY <1>1, <1>2, <1>4, <1>8, <1>9, Continues DEF Working, Creating
<1>11. Tidy'
  BY <1>1, <1>2, <1>4, <1>9, <1>10, Tidies DEF First, Owners, Clusters, Closing
<1> QED BY <1>5, <1>6, <1>10, <1>11 DEF Inv

LEMMA CloseInv ==
  ASSUME Inv, pc \in Working \ Creating, Same, data' = data, last_clst' = last_clst,
         NEW ok \in BOOLEAN, NEW val \in Values, ThenClose(ok, val), fp' \in FileObjects,
         op.kind = "read" => ~fp'.modified,
         op.kind # "read" => fp'.sclust = fp.sclust /\ fp'.objsize <= PerSector * Len(Own),
         faults' = 0 => Loose = 0 /\ (op.kind # "read" => fp'.modified)
  PROVE  Inv'
<1>1. Types /\ Calls /\ Chains /\ Tidy
  BY DEF Inv
<1>2. /\ pc' = "close" /\ op' = [op EXCEPT !.ok = ok, !.val = val] /\ x' = NoLocals /\ locked' = locked
      /\ pc # "idle" /\ pc # "sync" /\ pc \in Working
  BY DEF ThenClose, Working, Creating
<1>3. op' \in Requests /\ op'.kind = op.kind /\ op'.file = op.file /\ op'.pos = op.pos
  BY <1>1, <1>2 DEF Types, Requests
<1>4. x' \in Locals
  BY <1>2, VolumeAssumption DEF NoLocals, Locals, NoSpace
<1>5. Types'
  BY <1>1, <1>2, <1>3, <1>4 DEF Types, Same, Closing
<1>6. Calls'
  BY <1>1, <1>2, <1>3 DEF Calls, Creating
<1>7. IsOpen /\ Loose' = 0
  BY <1>2 DEF IsOpen, Loose
<1>8. CASE ~fp'.modified
  <2>1. /\ Chains'
        /\ (op.kind = "read" => \A i \in Files : First(i)' = First(i))
    BY <1>1, <1>2, <1>7, <1>8, Stops DEF Closing, Chains, EntryOK
  <2>2. Tidy'
    <3>1. faults' = 0 => faults = 0 /\ op.kind = "read" /\ Loose = 0 /\ ~win.wflag
      BY <1>1, <1>8 DEF Tidy, Same
    <3>2. faults' = 0 => ~win'.wflag
      BY <3>1 DEF Same
    <3> QED BY <1>1, <1>2, <1>7, <2>1, <3>1, <3>2, Tidies DEF First, Owners, Clusters
  <2> QED BY <1>5, <1>6, <2>1, <2>2 DEF Inv
<1>9. CASE fp'.modified
  <2>1. op.kind # "read" /\ fp'.sclust = fp.sclust /\ fp'.objsize <= PerSector * Len(Own)
    BY <1>9
  <2>2. PlaceOK'
    BY <1>2 DEF PlaceOK, Creating
  <2>3. Chains' /\ \A i \in Files : First(i)' = First(i)
    BY <1>1, <1>2, <1>3, <1>7, <1>9, <2>1, <2>2, Continues
  <2>4. Tidy'
    BY <1>1, <1>2, <1>3, <1>7, <1>9, <2>1, <2>3, Tidies DEF First, Owners, Clusters
  <2> QED BY <1>5, <1>6, <2>3, <2>4 DEF Inv
<1> QED BY <1>8, <1>9

(* The file pointer has arrived, or has moved on to the next cluster. *)
LEMMA SeekInv ==
  ASSUME Inv, pc \in {"seek", "first", "sought"}, Same, UNCHANGED <<data, last_clst, op, locked>>, x' \in Locals,
         fp' \in FileObjects, fp'.sclust = fp.sclust, fp'.objsize <= PerSector * Len(Own),
         op.kind = "read" => ~fp'.modified,
         faults' = 0 => Loose = 0,
         \/ /\ pc' = "transfer"
            /\ \/ fp'.fptr = 0
               \/ fp.sclust # 0 /\ \E k \in 0 .. Len(Own) :
                    /\ On(fp'.clust, k) /\ PerSector * (k - 1) < fp'.fptr /\ fp'.fptr <= PerSector * k
                    /\ fp'.fptr < PerSector * k => fp'.sect = fp'.clust
         \/ /\ pc' = "sought" /\ x'.ofs > 0 /\ Valid(x'.res) /\ fp.sclust # 0
            /\ \E k \in 0 .. Len(Own) : fp'.fptr = PerSector * k /\ On(x'.res, k + 1)
  PROVE  Inv'
<1>1. Types /\ Calls /\ Chains /\ Tidy
  BY DEF Inv
<1>2. IsOpen /\ pc # "sync" /\ op.file \in Files /\ op.kind # "save" /\ pc' \in {"transfer", "sought"}
  BY <1>1 DEF IsOpen, Calls, Working, Creating
<1>3. Types'
  BY <1>1, <1>2 DEF Types, Same, Working
<1>4. Calls'
  BY <1>1, <1>2 DEF Calls, Creating
<1>5. Own' = Own
  BY DEF Own, Same
<1>6. PlaceOK'
  BY <1>2, <1>5 DEF PlaceOK, Creating, Ahead, On
<1>7. Loose' = 0
  BY <1>2 DEF Loose
<1>8. Chains' /\ (\A i \in Files : First(i)' = First(i))
  BY <1>1, <1>2, <1>6, <1>7, Continues DEF Working
<1>9. Tidy'
  <2>1. faults' = 0 /\ op'.kind = "read" => ~win'.wflag
    BY <1>1, <1>2 DEF Tidy, Same
  <2>2. pc' = "sought" => x'.res # Broken
    BY <1>2 DEF Valid, Broken, Clusters
  <2> QED BY <1>1, <1>2, <1>7, <1>8, <2>1, <2>2, Tidies DEF First, Owners, Clusters, Closing
<1> QED BY <1>3, <1>4, <1>8, <1>9 DEF Inv

(* A pointer inside a sector, and one at its end. *)
LEMMA Remainder ==
  ASSUME NEW q \in Nat, NEW r \in 0 .. PerSector - 1
  PROVE  (PerSector * q + r) % PerSector = r
<1> DEFINE a == PerSector * q + r
           quot == a \div PerSector
           rest == a % PerSector
<1>1. PerSector \in Nat /\ PerSector > 0
  BY SectorAssumption
<1>2. PerSector * q \in Nat /\ a \in Nat
  BY <1>1, Times
<1>3. a = PerSector * quot + rest /\ rest \in 0 .. PerSector - 1 /\ quot \in Nat
  BY <1>1, <1>2
<1> HIDE DEF quot, rest
<1>4. PerSector * quot \in Nat
  BY <1>3, Times
<1>5. ~(quot < q)
  <2>1. quot < q => PerSector * quot + PerSector <= PerSector * q
    BY <1>3, Times
  <2> QED BY <1>1, <1>2, <1>3, <1>4, <2>1
<1>6. ~(q < quot)
  <2>1. q < quot => PerSector * q + PerSector <= PerSector * quot
    BY <1>3, Times
  <2> QED BY <1>1, <1>2, <1>3, <1>4, <2>1
<1>7. quot = q
  BY <1>3, <1>5, <1>6
<1>8. rest = r
  BY <1>2, <1>3, <1>7
<1> QED BY <1>8 DEF rest

LEMMA Boundary ==
  ASSUME NEW k \in Nat \ {0}, NEW ptr \in Nat, PerSector * (k - 1) < ptr, ptr <= PerSector * k,
         ptr % PerSector = 0
  PROVE  ptr = PerSector * k
<1>1. PICK j \in Nat : k = j + 1 /\ k - 1 = j
  <2>1. k - 1 \in Nat /\ k = (k - 1) + 1
    OBVIOUS
  <2> QED BY <2>1
<1>2. PerSector \in Nat /\ PerSector > 0 /\ PerSector * j \in Nat /\ PerSector * k = PerSector * j + PerSector
  BY <1>1, SectorAssumption, Times
<1>3. PerSector * j < ptr
  BY <1>1
<1>4. SUFFICES ASSUME ptr < PerSector * k PROVE FALSE
  BY <1>2
<1>5. PICK r \in 0 .. PerSector - 1 : ptr = PerSector * j + r /\ r > 0
  <2> DEFINE r == ptr - PerSector * j
  <2>1. r \in 0 .. PerSector - 1 /\ ptr = PerSector * j + r /\ r > 0
    BY <1>2, <1>3, <1>4
  <2> QED BY <2>1
<1> QED BY <1>5, Remainder

(* The file object that f_lseek() leaves. *)
Pointed(ptr, clst) == [At(ptr) EXCEPT !.clust = clst]

LEMMA AtPointer ==
  ASSUME fp \in FileObjects, NEW ptr \in Nat, NEW clst \in {0} \cup Clusters,
         NEW to, to = Pointed(ptr, clst)
  PROVE  /\ to \in FileObjects /\ to.fptr = ptr /\ to.clust = clst /\ to.sclust = fp.sclust /\ to.sect = fp.sect
         /\ to.objsize = (IF ForWriting /\ ptr > fp.objsize THEN ptr ELSE fp.objsize)
         /\ op.kind = "read" => to.modified = fp.modified
         /\ to.buf = fp.buf /\ to.dirty = fp.dirty
<1> DEFINE size == IF ForWriting /\ ptr > fp.objsize THEN ptr ELSE fp.objsize
           mod == fp.modified \/ (ForWriting /\ ptr > fp.objsize)
<1>1. size \in Nat /\ mod \in BOOLEAN /\ (op.kind = "read" => mod = fp.modified)
  BY DEF FileObjects, ForWriting
<1>2. to = [fp EXCEPT !.fptr = ptr, !.objsize = size, !.modified = mod, !.clust = clst]
  BY DEF Pointed, At, FileObjects
<1>3. size = IF ForWriting /\ ptr > fp.objsize THEN ptr ELSE fp.objsize
  OBVIOUS
<1> HIDE DEF size, mod
<1> QED BY <1>1, <1>2, <1>3 DEF FileObjects

(* The pointer comes to rest in the cluster clst, or at its end. *)
LEMMA SeekEndInv ==
  ASSUME Inv, pc \in {"seek", "sought"}, UNCHANGED <<data, last_clst>>, NEW clst \in Clusters, NEW ofs \in Nat,
         SeekEnd(clst, ofs), fp.sclust # 0, NEW k \in 1 .. Len(Own), Own[k] = clst,
         PerSector * (k - 1) < fp.fptr + ofs, fp.fptr + ofs <= PerSector * k
  PROVE  Inv'
<1> DEFINE ptr == fp.fptr + ofs
           to == Pointed(ptr, clst)
<1>1. Types /\ Calls /\ Chains /\ Tidy /\ fp \in FileObjects
  BY DEF Inv, Types
<1>2. /\ card' = card /\ win' = win
      /\ IF to.fptr % PerSector = 0
           THEN fp' = to /\ x' = NoLocals /\ Goto("transfer") /\ UNCHANGED faults
           ELSE \/ fp' = [to EXCEPT !.sect = clst, !.buf = data[clst]] /\ x' = NoLocals /\ Goto("transfer") /\ UNCHANGED faults
                \/ fp' = to /\ Abort /\ Fault(TRUE)
  BY DEF SeekEnd, Pointed
<1>3. ptr \in Nat /\ fp.objsize \in Nat
  BY <1>1 DEF FileObjects
<1>4. /\ to \in FileObjects /\ to.fptr = ptr /\ to.clust = clst /\ to.sclust = fp.sclust
      /\ to.objsize = (IF ForWriting /\ ptr > fp.objsize THEN ptr ELSE fp.objsize)
      /\ op.kind = "read" => to.modified = fp.modified
  <2>1. clst \in {0} \cup Clusters
    OBVIOUS
  <2> HIDE DEF ptr
  <2> QED BY <1>1, <1>3, <2>1, AtPointer
<1> HIDE DEF to
<1>5. Own \in Seq(Clusters) /\ IsOpen /\ Loose = 0 /\ pc # "idle"
  BY <1>1, OwnChain DEF IsOpen, Working, Loose
<1>6. k \in Nat /\ k > 0 /\ k <= Len(Own) /\ Len(Own) \in Nat
  BY <1>5
<1>7. PerSector * k \in Nat /\ PerSector * Len(Own) \in Nat /\ PerSector * k <= PerSector * Len(Own)
  BY <1>6, Times
<1>8. to.objsize <= PerSector * Len(Own)
  <2>1. fp.objsize <= PerSector * Len(Own)
    BY <1>1, <1>5 DEF Chains, EntryOK
  <2> QED BY <1>3, <1>4, <1>7, <2>1
<1>9. x' = NoLocals => x' \in Locals
  BY VolumeAssumption DEF NoLocals, Locals, NoSpace
<1>10. op.kind = "read" => ~to.modified
  BY <1>1, <1>4, <1>5 DEF Calls
<1>11. k \in 0 .. Len(Own) /\ On(clst, k)
  BY <1>6 DEF On
<1>12. CASE fp' = to /\ ptr = PerSector * k /\ x' = NoLocals /\ Goto("transfer") /\ UNCHANGED faults
  <2>1. Same
    BY <1>1, <1>2, <1>12, Unmoved
  <2> QED BY <1>3, <1>4, <1>5, <1>8, <1>9, <1>10, <1>11, <1>12, <2>1, SeekInv DEF Goto
<1>13. CASE fp' = [to EXCEPT !.sect = clst, !.buf = data[clst]] /\ x' = NoLocals /\ Goto("transfer") /\ UNCHANGED faults
  <2>1. Same
    BY <1>1, <1>2, <1>13, Unmoved
  <2>2. data[clst] \in [Records -> Values]
    BY <1>1 DEF Types
  <2>3. /\ fp' \in FileObjects /\ fp'.fptr = ptr /\ fp'.clust = clst /\ fp'.sect = clst /\ fp'.sclust = fp.sclust
        /\ fp'.objsize = to.objsize /\ fp'.modified = to.modified
    BY <1>4, <1>13, <2>2 DEF FileObjects
  <2> QED BY <1>5, <1>8, <1>9, <1>10, <1>11, <1>13, <2>1, <2>3, SeekInv DEF Goto
<1>14. CASE fp' = to /\ Abort /\ Fault(TRUE)
  <2>1. faults' = faults + 1 /\ faults \in Nat
    BY <1>1, <1>14 DEF Fault, Types
  <2>2. Same
    BY <1>1, <1>2, <2>1, Unmoved
  <2>3. op.val \in Values
    BY <1>1 DEF Types, Requests
  <2>4. /\ fp' \in FileObjects /\ (op.kind = "read" => ~fp'.modified) /\ fp'.sclust = fp.sclust
        /\ fp'.objsize <= PerSector * Len(Own)
    BY <1>4, <1>8, <1>10, <1>14
  <2>5. pc \in Working \ Creating /\ faults' # 0
    BY <2>1 DEF Working, Creating
  <2> QED BY <1>14, <2>2, <2>3, <2>4, <2>5, CloseInv DEF Abort
<1>15. to.fptr % PerSector = 0 => ptr = PerSector * k
  BY <1>3, <1>4, <1>6, Boundary
<1> QED BY <1>2, <1>12, <1>13, <1>14, <1>15

(* One step along the chain. *)
LEMMA SeekStepInv ==
  ASSUME Inv, pc \in {"seek", "sought"}, UNCHANGED <<data, last_clst>>, NEW clst \in Clusters,
         SeekStep(clst), x.ofs > PerSector, fp.sclust # 0, NEW k \in 1 .. Len(Own), Own[k] = clst,
         fp.fptr = PerSector * (k - 1)
  PROVE  Inv'
<1> DEFINE ptr == fp.fptr + PerSector
<1>1. Types /\ Calls /\ Chains /\ Tidy /\ fp \in FileObjects /\ x \in Locals /\ PerSector \in Nat /\ PerSector > 0
  BY SectorAssumption DEF Inv, Types
<1>2. Own \in Seq(Clusters) /\ IsChain(Volume, Own, fp.sclust) /\ IsOpen /\ Loose = 0 /\ pc # "idle"
  BY <1>1, OwnChain DEF IsOpen, Working, Loose
<1>3. k \in Nat /\ k - 1 \in Nat /\ k <= Len(Own) /\ Len(Own) \in Nat /\ k \in 0 .. Len(Own) /\ On(clst, k)
  BY <1>2 DEF On
<1>4. ptr = PerSector * k /\ ptr \in Nat
  <2>1. PerSector * ((k - 1) + 1) = PerSector * (k - 1) + PerSector
    BY <1>3, Times
  <2>2. (k - 1) + 1 = k
    BY <1>3
  <2> QED BY <1>3, <2>1, <2>2, Times
<1>5. PerSector * Len(Own) \in Nat /\ ptr <= PerSector * Len(Own) /\ fp.objsize \in Nat /\ fp.objsize <= PerSector * Len(Own)
  BY <1>1, <1>2, <1>3, <1>4, Times DEF Chains, EntryOK, FileObjects
<1> HIDE DEF ptr
<1>6. x.ofs - PerSector \in Nat /\ x.ofs - PerSector > 0
  BY <1>1 DEF Locals
<1>7. op.kind # "save" /\ (op.kind = "read" => ~fp.modified) /\ op.val \in Values
  BY <1>1, <1>2 DEF Calls, Types, Requests
<1>8. CASE ForWriting
  <2>1. /\ fp' = Pointed(ptr, clst)
        /\ CreateChain(clst, "sought", [x EXCEPT !.ofs = @ - PerSector])
        /\ UNCHANGED <<card, win, faults>>
    BY <1>8 DEF SeekStep, Pointed, ptr
  <2>2. clst \in {0} \cup Clusters /\ clst # 0
    BY DEF Clusters
  <2>3. /\ fp' \in FileObjects /\ fp'.fptr = ptr /\ fp'.clust = clst /\ fp'.sclust = fp.sclust
        /\ fp'.objsize = (IF ForWriting /\ ptr > fp.objsize THEN ptr ELSE fp.objsize)
    BY <1>1, <1>4, <2>1, <2>2, AtPointer
  <2> DEFINE locals == [x EXCEPT !.ofs = @ - PerSector]
  <2>4. locals \in Locals /\ locals.ofs > 0
    BY <1>1, <1>6 DEF Locals
  <2>5. CreateChain(clst, "sought", locals) /\ op.kind # "read" /\ fp'.objsize <= PerSector * Len(Own)
    BY <1>5, <1>8, <2>1, <2>3 DEF ForWriting
  <2> HIDE DEF locals
  <2>6. \E j \in 0 .. Len(Own) : fp'.fptr = PerSector * j /\ On(clst, j)
    BY <1>3, <1>4, <2>3
  <2> QED BY <1>2, <1>7, <2>1, <2>2, <2>3, <2>4, <2>5, <2>6, CreateInv DEF Working, Creating
<1>9. CASE ~ForWriting
  <2>1. PICK m \in move_window(FatSector(clst)) :
          /\ Window(m, m.win)
          /\ IF m.ok /\ Valid(get_fat(m, clst))
               THEN /\ fp' = [fp EXCEPT !.fptr = ptr, !.clust = get_fat(m, clst)]
                    /\ x' = [x EXCEPT !.ofs = @ - PerSector, !.res = get_fat(m, clst)]
                    /\ Goto("sought")
               ELSE Abort /\ UNCHANGED fp
    BY <1>9 DEF SeekStep, ptr
  <2>2. Same /\ (faults' = 0 => m.ok)
    BY <1>1, <2>1, Glimpsed, SectorNumbers
  <2>3. CASE m.ok /\ Valid(get_fat(m, clst))
    <3> DEFINE cs == Fat(Volume, clst)
    <3>1. get_fat(m, clst) = cs
      BY <1>1, <2>3, TableRead
    <3>2. cs \in Clusters /\ cs = IF k = Len(Own) THEN EOC ELSE Own[k + 1]
      BY <1>2, <2>3, <3>1, ChainAllocated DEF Valid
    <3> HIDE DEF cs
    <3>3. k + 1 \in 1 .. Len(Own) /\ Own[k + 1] = cs
      BY <1>3, <3>2 DEF EOC, Clusters
    <3>4. /\ fp' = [fp EXCEPT !.fptr = ptr, !.clust = cs] /\ x' = [x EXCEPT !.ofs = @ - PerSector, !.res = cs]
          /\ pc' = "sought" /\ op' = op /\ locked' = locked
      BY <2>1, <2>3, <3>1 DEF Goto
    <3>5. /\ fp' \in FileObjects /\ fp'.fptr = ptr /\ fp'.sclust = fp.sclust /\ fp'.objsize = fp.objsize
          /\ fp'.modified = fp.modified
      BY <1>1, <1>4, <3>2, <3>4 DEF FileObjects
    <3>6. x' \in Locals /\ x'.ofs > 0 /\ x'.res = cs
      BY <1>1, <1>6, <3>2, <3>4 DEF Locals
    <3>7. \E j \in 0 .. Len(Own) : fp'.fptr = PerSector * j /\ On(x'.res, j + 1)
      BY <1>3, <1>4, <3>3, <3>5, <3>6 DEF On
    <3> QED BY <1>2, <1>5, <1>7, <2>2, <3>2, <3>4, <3>5, <3>6, <3>7, SeekInv DEF Valid
  <2>4. CASE ~(m.ok /\ Valid(get_fat(m, clst)))
    <3>1. Abort /\ fp' = fp
      BY <2>1, <2>4
    <3> QED BY <1>1, <1>2, <1>5, <1>7, <1>9, <2>2, <3>1, CloseInv DEF Abort, Working, Creating, ForWriting
  <2> QED BY <2>3, <2>4
<1> QED BY <1>8, <1>9

(* The new cluster becomes the first one of the open file. *)
LEMMA AdoptInv ==
  ASSUME Inv, pc \in {"first", "fill"}, fp.sclust = 0, Valid(x.res), Same,
         UNCHANGED <<data, last_clst, locked>>, pc' \in {"sought", "close"}, x' \in Locals,
         op' \in Requests, op'.kind = op.kind, op'.file = op.file, op'.pos = op.pos,
         fp' \in FileObjects, fp'.sclust = x.res, fp'.objsize <= PerSector,
         pc' = "close" => fp'.modified,
         pc' = "sought" => x' = x /\ pc = "first" /\ fp'.fptr = 0
  PROVE  Inv'
<1>1. Types /\ Calls /\ Chains /\ Tidy
  BY DEF Inv
<1>2. /\ IsOpen /\ IsOpen' /\ pc # "sync" /\ op.file \in Files /\ op.kind # "read" /\ x.res \in Clusters
      /\ Loose = x.res /\ Loose' = 0 /\ 0 \notin Clusters /\ Volume' = Volume
  BY <1>1 DEF IsOpen, Calls, Working, Closing, Loose, Valid, Clusters, Same
<1>3. Types'
  BY <1>1, <1>2 DEF Types, Same, Working, Closing
<1>4. Calls'
  BY <1>1, <1>2 DEF Calls, Creating
<1>5. Own' = <<x.res>>
  BY <1>1, <1>2 DEF Chains, PlaceOK, Own
<1>6. Len(Own') = 1 /\ Own'[1] = x.res
  BY <1>5
<1>7. EntryOK'
  <2> DEFINE e == Volume[Dir][op.file]
  <2>1. e.sclust = 0 /\ e.size = 0
    BY <1>1, <1>2, EntryNow DEF Chains, EntryOK
  <2>2. fp'.objsize <= PerSector * Len(Own')
    <3>1. PerSector * 1 = PerSector
      BY SectorAssumption
    <3> QED BY <1>6, <3>1
  <2>3. e = Volume'[Dir][op'.file]
    BY <1>2
  <2> HIDE DEF e
  <2> QED BY <1>2, <2>1, <2>2, <2>3 DEF EntryOK
<1>8. PlaceOK'
  <2>1. ASSUME pc' = "sought" PROVE Ahead(x.res)'
    <3>1. PerSector * 0 = 0
      BY SectorAssumption
    <3>2. 0 \in 0 .. Len(Own') /\ 0 + 1 \in 1 .. Len(Own') /\ Own'[0 + 1] = x.res
      BY <1>6
    <3> QED BY <1>2, <2>1, <3>1, <3>2 DEF Ahead, On
  <2>2. pc' = "sought" => Valid(x'.res)
    OBVIOUS
  <2> QED BY <2>1, <2>2 DEF PlaceOK, Creating
<1>9. /\ First(op.file)' = First(NoFile) /\ First(op.file) = 0 /\ First(NoFile)' = 0
      /\ \A i \in Files \ {op.file} : First(i)' = First(i)
      /\ op.file \in Owners /\ NoFile \in Owners /\ NoFile # op.file
  BY <1>2, FilesOwn DEF First
<1>10. \A i, j \in Owners : i # j /\ First(i)' \in Clusters => First(i)' # First(j)'
  <2>1. \A i, j \in Owners : i # j /\ First(i) \in Clusters => First(i) # First(j)
    BY <1>1, Distinct
  <2> QED BY <1>2, <1>9, <2>1 DEF Owners
<1>11. \A i \in Owners : First(i)' \notin Clusters \/ \E j \in Owners : First(i)' = First(j)
  BY <1>2, <1>9 DEF Owners
<1>12. Chains'
  BY <1>1, <1>7, <1>8, <1>10, <1>11, Shuffled DEF Same
<1>13. Tidy'
  <2>1. \A i \in Owners : First(i) \in Clusters => \E j \in Owners : First(j)' = First(i)
    BY <1>2, <1>9 DEF Owners
  <2>2. pc' = "sought" => x'.res # Broken
    BY <1>2 DEF Broken, Clusters
  <2> QED BY <1>1, <1>2, <2>1, <2>2, Tidies DEF Closing
<1> QED BY <1>3, <1>4, <1>12, <1>13 DEF Inv

LEMMA LseekInv ==
  ASSUME Inv, f_lseek
  PROVE  Inv'
<1>1. Types /\ Calls /\ Chains /\ Tidy /\ fp \in FileObjects /\ x \in Locals /\ PerSector \in Nat /\ PerSector > 0
  BY SectorAssumption DEF Inv, Types
<1>2. /\ pc \in {"seek", "first", "sought"} /\ UNCHANGED <<data, last_clst>>
      /\ IsOpen /\ pc # "idle" /\ pc \in Working \ Creating /\ op.kind # "save" /\ op.val \in Values
      /\ x.ofs > 0 /\ x.ofs \in Nat /\ (op.kind = "read" => ~fp.modified)
  BY <1>1 DEF f_lseek, IsOpen, Working, Creating, Calls, Types, Requests, Locals
<1>3. Own \in Seq(Clusters) /\ IsChain(Volume, Own, fp.sclust) /\ fp.objsize <= PerSector * Len(Own)
  BY <1>1, <1>2, OwnChain DEF Chains, EntryOK
<1>4. PerSector * 0 = 0 /\ NoSpace = 0 /\ Broken = 1 /\ 0 \notin Clusters /\ 1 \notin Clusters /\ fp.sclust \in {0} \cup Clusters
  BY <1>1 DEF NoSpace, Broken, Clusters, FileObjects
<1> DEFINE clst == IF pc = "seek" THEN fp.sclust ELSE x.res
<1>5. CASE pc = "seek" /\ fp.sclust = 0
  <2>1. CreateChain(0, "first", x) /\ UNCHANGED <<card, win, faults, fp>>
    BY <1>4, <1>5 DEF f_lseek, Valid, NoSpace
  <2>2. fp.fptr = 0 /\ op.kind # "read"
    <3>1. Len(Own) = 0
      BY <1>3, <1>4, <1>5 DEF IsChain
    <3>2. fp.objsize = 0
      BY <1>1, <1>3, <1>4, <3>1 DEF FileObjects
    <3> QED BY <1>1, <1>2, <1>5, <3>2 DEF Chains, PlaceOK
  <2>3. Loose = 0 /\ fp.objsize <= PerSector * Len(Own)
    BY <1>3, <1>5 DEF Loose
  <2> QED BY <1>1, <1>2, <1>5, <2>1, <2>2, <2>3, CreateInv
<1>6. CASE pc = "first" /\ x.res # Broken
  <2>1. /\ fp' = [fp EXCEPT !.sclust = x.res, !.clust = x.res] /\ UNCHANGED <<card, win, faults, x, op, locked>>
        /\ pc' = (IF x.res = NoSpace THEN "transfer" ELSE "sought")
    BY <1>6 DEF f_lseek, Goto
  <2>2. fp.sclust = 0 /\ fp.fptr = 0 /\ x.res \in {0} \cup Clusters
    BY <1>1, <1>4, <1>6 DEF Chains, PlaceOK, AtFirst, Locals
  <2>3. fp' \in FileObjects /\ fp'.sclust = x.res /\ fp'.fptr = 0 /\ fp'.objsize = fp.objsize /\ fp'.modified = fp.modified
    BY <1>1, <2>1, <2>2 DEF FileObjects
  <2>4. Same
    BY <1>1, <2>1, Unmoved
  <2>5. CASE x.res = NoSpace
    <3>1. Loose = 0
      BY <1>4, <1>6, <2>5 DEF Loose, Valid
    <3>2. pc' = "transfer" /\ x' \in Locals /\ fp'.objsize <= PerSector * Len(Own)
          /\ (op.kind = "read" => ~fp'.modified)
      BY <1>1, <1>2, <1>3, <2>1, <2>3, <2>5
    <3>3. fp.sclust = fp'.sclust
      BY <1>4, <2>2, <2>3, <2>5
    <3> QED BY <1>2, <2>1, <2>3, <2>4, <3>1, <3>2, <3>3, SeekInv
  <2>6. CASE x.res # NoSpace
    <3>1. Valid(x.res) /\ op \in Requests
      BY <1>1, <1>4, <2>2, <2>6 DEF Valid, Types
    <3>2. fp'.objsize <= PerSector
      <4>1. Len(Own) = 0
        BY <1>3, <1>4, <2>2 DEF IsChain
      <4> QED BY <1>1, <1>3, <1>4, <2>3, <4>1 DEF FileObjects
    <3> QED BY <1>1, <1>2, <1>6, <2>1, <2>2, <2>3, <2>4, <2>6, <3>1, <3>2, AdoptInv
  <2> QED BY <2>5, <2>6
<1>7. CASE pc # "first" /\ Valid(clst)
  <2>1. IF x.ofs > PerSector THEN SeekStep(clst) ELSE SeekEnd(clst, x.ofs)
    BY <1>4, <1>7 DEF f_lseek, Valid
  <2>2. /\ fp.sclust # 0 /\ clst \in Clusters
        /\ \E k \in 1 .. Len(Own) : Own[k] = clst /\ fp.fptr = PerSector * (k - 1)
    <3>1. CASE pc = "seek"
      <4>1. fp.fptr = 0 /\ clst = fp.sclust /\ clst \in Clusters
        BY <1>1, <1>7, <3>1 DEF Chains, PlaceOK, Valid
      <4>2. Len(Own) \in Nat /\ Len(Own) > 0 /\ Own[1] = fp.sclust
        BY <1>3, <4>1 DEF IsChain
      <4>3. 1 \in 1 .. Len(Own) /\ 1 - 1 = 0
        BY <4>2
      <4> QED BY <1>4, <4>1, <4>2, <4>3
    <3>2. CASE pc = "sought"
      <4>1. Ahead(x.res) /\ clst = x.res /\ clst \in Clusters
        BY <1>1, <1>7, <3>2 DEF Chains, PlaceOK, Valid
      <4>2. PICK k \in 0 .. Len(Own) : fp.fptr = PerSector * k /\ k + 1 \in 1 .. Len(Own) /\ Own[k + 1] = x.res
        BY <4>1 DEF Ahead, On
      <4>3. (k + 1) - 1 = k
        BY <4>2
      <4> QED BY <4>1, <4>2, <4>3 DEF Ahead
    <3> QED BY <1>2, <1>7, <3>1, <3>2
  <2> HIDE DEF clst
  <2>3. PICK k \in 1 .. Len(Own) : Own[k] = clst /\ fp.fptr = PerSector * (k - 1)
    BY <2>2
  <2>4. CASE x.ofs > PerSector
    BY <1>2, <1>7, <2>1, <2>2, <2>3, <2>4, SeekStepInv
  <2>5. CASE ~(x.ofs > PerSector)
    <3>1. k - 1 \in Nat /\ (k - 1) + 1 = k
      BY <1>3, <2>3
    <3>2. PerSector * (k - 1) \in Nat /\ PerSector * k = PerSector * (k - 1) + PerSector
      BY <3>1, Times
    <3>3. PerSector * (k - 1) < fp.fptr + x.ofs /\ fp.fptr + x.ofs <= PerSector * k
      BY <1>1, <1>2, <2>3, <2>5, <3>2
    <3>4. SeekEnd(clst, x.ofs)
      BY <2>1, <2>5
    <3> QED BY <1>2, <1>7, <2>2, <2>3, <3>3, <3>4, SeekEndInv
  <2> QED BY <2>4, <2>5
<1>8. CASE pc = "sought" /\ x.res = NoSpace
  <2>1. SeekEnd(fp.clust, 0)
    BY <1>2, <1>4, <1>8 DEF f_lseek, Valid
  <2>2. PICK k \in 0 .. Len(Own) : fp.sclust # 0 /\ fp.fptr = PerSector * k /\ k \in 1 .. Len(Own) /\ Own[k] = fp.clust
    BY <1>1, <1>4, <1>8 DEF Chains, PlaceOK, Behind, On, Valid
  <2>3. k - 1 \in Nat /\ (k - 1) + 1 = k /\ fp.clust \in Clusters /\ 0 \in Nat
    BY <1>3, <2>2
  <2>4. PerSector * (k - 1) \in Nat /\ PerSector * k = PerSector * (k - 1) + PerSector
    BY <2>3, Times
  <2>5. PerSector * (k - 1) < fp.fptr + 0 /\ fp.fptr + 0 <= PerSector * k
    BY <1>1, <2>2, <2>4
  <2> QED BY <1>2, <1>8, <2>1, <2>2, <2>3, <2>5, SeekEndInv
<1>9. CASE pc # "seek" /\ x.res = Broken
  <2>1. Abort /\ UNCHANGED <<card, win, faults, fp>>
    BY <1>4, <1>9 DEF f_lseek, Valid
  <2>2. Same /\ faults' # 0
    BY <1>1, <1>2, <1>9, <2>1, Unmoved DEF Tidy
  <2> QED BY <1>1, <1>2, <1>3, <2>1, <2>2, CloseInv DEF Abort
<1> QED BY <1>1, <1>2, <1>4, <1>5, <1>6, <1>7, <1>8, <1>9 DEF Valid, Locals

(* A record of a sector. *)
LEMMA Record ==
  ASSUME NEW ptr \in Nat
  PROVE  ptr % PerSector \in Records
BY SectorAssumption DEF Records

LEMMA ReadInv ==
  ASSUME Inv, f_read
  PROVE  Inv'
<1>1. Types /\ Calls /\ Chains /\ Tidy /\ fp \in FileObjects
  BY DEF Inv, Types
<1>2. /\ pc = "transfer" /\ op.kind = "read" /\ UNCHANGED <<data, last_clst>> /\ ~fp.modified
      /\ pc \in Working \ Creating /\ Loose = 0 /\ op.val \in Values /\ fp.fptr % PerSector \in Records
  BY <1>1, Record DEF f_read, Working, Creating, Loose, Calls, Types, Requests, FileObjects
<1>3. ASSUME Same, NEW buf \in [Records -> Values], Deliver(buf) PROVE Inv'
  <2>1. fp' \in FileObjects /\ ~fp'.modified
    BY <1>3 DEF Deliver, Closed, FileObjects, Values
  <2>2. ThenClose(TRUE, buf[fp.fptr % PerSector]) /\ buf[fp.fptr % PerSector] \in Values
    BY <1>2, <1>3 DEF Deliver
  <2> QED BY <1>2, <1>3, <2>1, <2>2, CloseInv
<1>4. ASSUME Same, Abort, fp' = fp PROVE Inv'
  BY <1>1, <1>2, <1>4, CloseInv DEF Abort
<1>5. ASSUME NEW m, NEW clst, ReadAt(m, clst),
             card' = m.card /\ win' = m.win /\ faults' \in {faults, faults + 1} => Same
      PROVE  Inv'
  <2>1. CASE m.ok /\ Valid(clst) /\ Window(m, m.win) /\ Deliver(data[clst])
    <3>1. Same
      BY <1>1, <1>5, <2>1 DEF Window, Fault, Types
    <3>2. data[clst] \in [Records -> Values]
      BY <1>1, <2>1 DEF Types, Valid
    <3> QED BY <1>3, <2>1, <3>1, <3>2
  <2>2. CASE UNCHANGED fp /\ Abort /\ card' = m.card /\ win' = m.win /\ Fault(TRUE)
    <3>1. Same
      BY <1>1, <1>5, <2>2 DEF Fault, Types
    <3> QED BY <1>4, <2>2, <3>1
  <2> QED BY <1>5, <2>1, <2>2 DEF ReadAt
<1>6. CASE fp.fptr >= fp.objsize /\ Abort /\ UNCHANGED <<card, win, faults, fp>>
  <2>1. Same
    BY <1>1, <1>6, Unmoved
  <2> QED BY <1>4, <1>6, <2>1
<1>7. CASE Deliver(fp.buf) /\ UNCHANGED <<card, win, faults>>
  <2>1. Same /\ fp.buf \in [Records -> Values]
    BY <1>1, <1>7, Unmoved DEF FileObjects
  <2> QED BY <1>3, <1>7, <2>1
<1>8. CASE ReadAt([ok |-> TRUE, card |-> card, win |-> win], fp.sclust)
  <2>1. ASSUME card' = card, win' = win, faults' \in {faults, faults + 1} PROVE Same
    BY <1>1, <2>1, Unmoved
  <2> QED BY <1>5, <1>8, <2>1
<1>9. CASE fp.fptr > 0 /\ \E m \in move_window(FatSector(fp.clust)) : ReadAt(m, get_fat(m, fp.clust))
  <2>1. PICK m \in move_window(FatSector(fp.clust)) : ReadAt(m, get_fat(m, fp.clust))
    BY <1>9
  <2>2. fp.clust \in Clusters
    <3>1. Own \in Seq(Clusters)
      BY <1>1, <1>2, OwnChain DEF IsOpen, Working
    <3>2. \E k \in 1 .. Len(Own) : Own[k] = fp.clust
      BY <1>1, <1>2, <1>9 DEF Chains, PlaceOK, On, FileObjects
    <3> QED BY <3>1, <3>2
  <2>3. ASSUME card' = m.card, win' = m.win, faults' \in {faults, faults + 1} PROVE Same
    BY <1>1, <2>2, <2>3, Glanced, SectorNumbers
  <2> QED BY <1>5, <2>1, <2>3
<1> QED BY <1>6, <1>7, <1>8, <1>9 DEF f_read

(* The record to be written goes to the sector buffer. *)
LEMMA StoreInv ==
  ASSUME Inv, pc \in {"transfer", "fill"}, UNCHANGED <<card, win, faults, data, last_clst>>, op.kind # "read",
         NEW f \in FileObjects, Store(f), f.fptr = fp.fptr, f.objsize = fp.objsize,
         \/ f.sclust = fp.sclust /\ Loose = 0 /\ fp.fptr + 1 <= PerSector * Len(Own)
         \/ fp.sclust = 0 /\ pc = "fill" /\ Valid(x.res) /\ f.sclust = x.res /\ fp.objsize = 0 /\ fp.fptr = 0
  PROVE  Inv'
<1>1. Types /\ Calls /\ Chains /\ Tidy /\ PerSector \in Nat /\ PerSector > 0
  BY SectorAssumption DEF Inv, Types
<1>2. pc \in Working \ Creating /\ IsOpen /\ op.val \in Values /\ f.fptr % PerSector \in Records
  BY <1>1, Record DEF Working, Creating, IsOpen, Types, Requests, FileObjects
<1> DEFINE size == IF f.fptr < f.objsize THEN f.objsize ELSE f.fptr + 1
           buf == [f.buf EXCEPT ![f.fptr % PerSector] = op.val]
<1>3. /\ ThenClose(TRUE, op.val)
      /\ fp' = [f EXCEPT !.buf = buf, !.dirty = TRUE, !.modified = TRUE, !.fptr = f.fptr + 1, !.objsize = size]
  BY DEF Store, FileObjects
<1>4. size \in Nat /\ f.fptr + 1 \in Nat /\ buf \in [Records -> Values]
  BY <1>2 DEF FileObjects
<1>5. size = (IF fp.fptr < fp.objsize THEN fp.objsize ELSE fp.fptr + 1)
  OBVIOUS
<1> HIDE DEF size, buf
<1>6. fp' \in FileObjects /\ fp'.sclust = f.sclust /\ fp'.modified = TRUE /\ fp'.objsize = size
  BY <1>3, <1>4 DEF FileObjects
<1>7. Same
  BY <1>1, Unmoved
<1>8. CASE f.sclust = fp.sclust /\ Loose = 0 /\ fp.fptr + 1 <= PerSector * Len(Own)
  <2>1. size <= PerSector * Len(Own)
    BY <1>1, <1>2, <1>5, <1>8 DEF Chains, EntryOK
  <2> QED BY <1>2, <1>3, <1>6, <1>7, <1>8, <2>1, CloseInv
<1>9. CASE fp.sclust = 0 /\ pc = "fill" /\ Valid(x.res) /\ f.sclust = x.res /\ fp.objsize = 0 /\ fp.fptr = 0
  <2>1. size <= PerSector
    BY <1>1, <1>5, <1>9
  <2>2. /\ pc' = "close" /\ op' = [op EXCEPT !.ok = TRUE, !.val = op.val] /\ x' = NoLocals /\ locked' = locked
    BY <1>3 DEF ThenClose
  <2>3. op' \in Requests /\ op'.kind = op.kind /\ op'.file = op.file /\ op'.pos = op.pos
    BY <1>1, <2>2 DEF Types, Requests
  <2>4. x' \in Locals
    BY <2>2, VolumeAssumption DEF NoLocals, Locals, NoSpace
  <2> QED BY <1>6, <1>7, <1>9, <2>1, <2>2, <2>3, <2>4, AdoptInv
<1> QED BY <1>8, <1>9

LEMMA WriteWithinInv ==
  ASSUME Inv, WriteWithin
  PROVE  Inv'
<1>1. Types /\ Calls /\ Chains /\ Tidy /\ fp \in FileObjects /\ x \in Locals /\ PerSector \in Nat /\ PerSector > 0
  BY SectorAssumption DEF Inv, Types
<1>2. /\ pc = "transfer" /\ op.kind # "read" /\ UNCHANGED <<card, data, win, last_clst, faults>>
      /\ pc \in Working \ Creating /\ Loose = 0 /\ IsOpen /\ pc # "sync" /\ pc # "idle"
  BY DEF WriteWithin, ghosts, Working, Creating, Loose, IsOpen
<1>3. Own \in Seq(Clusters) /\ IsChain(Volume, Own, fp.sclust) /\ fp.objsize <= PerSector * Len(Own)
  BY <1>1, <1>2, OwnChain DEF Chains, EntryOK
<1>4. fp.fptr \in Nat /\ 0 % PerSector = 0 /\ PerSector * 0 = 0 /\ fp.sclust \in {0} \cup Clusters /\ 0 \notin Clusters
  BY <1>1 DEF FileObjects, Clusters
<1>5. \/ fp.fptr = 0
      \/ fp.sclust # 0 /\ \E k \in 1 .. Len(Own) :
           /\ Own[k] = fp.clust /\ PerSector * (k - 1) < fp.fptr /\ fp.fptr <= PerSector * k
  BY <1>1, <1>2 DEF Chains, PlaceOK, On
<1>6. CASE ~OnBoundary /\ Store(fp)
  <2>1. PICK k \in 1 .. Len(Own) :
          /\ Own[k] = fp.clust /\ PerSector * (k - 1) < fp.fptr /\ fp.fptr <= PerSector * k
    BY <1>4, <1>5, <1>6 DEF OnBoundary
  <2>2. fp.fptr # PerSector * k
    <3>1. (PerSector * k + 0) % PerSector = 0 /\ PerSector * k \in Nat
      BY <1>1, <1>3, <2>1, Remainder, Times
    <3>2. (PerSector * k) % PerSector = 0
      BY <3>1
    <3> QED BY <1>6, <3>2 DEF OnBoundary
  <2>3. PerSector * k <= PerSector * Len(Own) /\ PerSector * k \in Nat /\ PerSector * Len(Own) \in Nat
    BY <1>3, <2>1, Times
  <2>4. fp.fptr + 1 <= PerSector * Len(Own)
    BY <1>4, <2>1, <2>2, <2>3
  <2> QED BY <1>1, <1>2, <1>6, <2>4, StoreInv
<1>7. CASE fp.fptr = 0 /\ fp.sclust # 0 /\ x' = [x EXCEPT !.res = fp.sclust] /\ Goto("fill") /\ UNCHANGED fp
  <2>1. pc' = "fill" /\ op' = op /\ locked' = locked /\ fp' = fp /\ fp.sclust \in Clusters
    BY <1>4, <1>7 DEF Goto
  <2>2. x' \in Locals /\ x'.res = fp.sclust
    BY <1>1, <1>7, <2>1 DEF Locals
  <2>3. Same
    BY <1>1, <1>2, Unmoved
  <2>4. Own' = Own /\ Own[1] = fp.sclust /\ Len(Own) > 0
    BY <1>3, <2>1, <2>3 DEF Own, Same, IsChain
  <2>5. Ahead(x.res)'
    <3>1. 0 \in 0 .. Len(Own) /\ 0 + 1 \in 1 .. Len(Own) /\ Own[0 + 1] = fp.sclust
      BY <1>3, <2>4
    <3> QED BY <1>4, <1>7, <2>1, <2>2, <2>4, <3>1 DEF Ahead, On
  <2>6. PlaceOK'
    BY <1>7, <2>1, <2>5 DEF PlaceOK, Creating
  <2>7. Loose' = 0
    BY <1>7, <2>1 DEF Loose
  <2>8. Chains' /\ \A i \in Files : First(i)' = First(i)
    BY <1>1, <1>2, <1>3, <2>1, <2>3, <2>6, <2>7, Continues DEF Working
  <2>9. Types'
    BY <1>1, <1>2, <2>1, <2>2, <2>3 DEF Types, Same, Working
  <2>10. Calls'
    BY <1>1, <1>2, <2>1 DEF Calls, Creating
  <2>11. Tidy'
    <3>1. x'.res # Broken
      BY <2>1, <2>2 DEF Broken, Clusters
    <3> QED BY <1>1, <1>2, <2>1, <2>3, <2>7, <2>8, <3>1, Tidies DEF First, Owners, Clusters, Closing
  <2> QED BY <2>8, <2>9, <2>10, <2>11 DEF Inv
<1>8. CASE /\ OnBoundary /\ (fp.fptr > 0 \/ fp.sclust = 0)
           /\ CreateChain(IF fp.fptr = 0 THEN 0 ELSE fp.clust, "fill", x) /\ UNCHANGED fp
  <2>1. CASE fp.fptr = 0
    BY <1>1, <1>2, <1>3, <1>8, <2>1, CreateInv
  <2>2. CASE fp.fptr # 0
    <3>1. PICK k \in 1 .. Len(Own) :
            /\ Own[k] = fp.clust /\ PerSector * (k - 1) < fp.fptr /\ fp.fptr <= PerSector * k
      BY <1>5, <2>2
    <3>2. k \in Nat \ {0} /\ k \in 0 .. Len(Own) /\ fp.clust \in Clusters /\ fp.clust # 0
      BY <1>3, <1>4, <3>1
    <3>3. fp.fptr = PerSector * k /\ On(fp.clust, k)
      BY <1>4, <1>8, <3>1, <3>2, Boundary DEF OnBoundary, On
    <3>4. fp.sclust # 0 /\ fp.clust \in {0} \cup Clusters /\ CreateChain(fp.clust, "fill", x)
      BY <1>5, <1>8, <2>2, <3>2
    <3> QED BY <1>1, <1>2, <1>3, <1>8, <3>2, <3>3, <3>4, CreateInv
  <2> QED BY <2>1, <2>2
<1> QED BY <1>6, <1>7, <1>8 DEF WriteWithin

LEMMA WriteSectorInv ==
  ASSUME Inv, WriteSector
  PROVE  Inv'
<1>1. Types /\ Calls /\ Chains /\ Tidy /\ fp \in FileObjects /\ x \in Locals /\ PerSector \in Nat /\ PerSector > 0
  BY SectorAssumption DEF Inv, Types
<1>2. /\ pc = "fill" /\ op.kind # "read" /\ UNCHANGED <<card, data, win, last_clst>>
      /\ pc \in Working \ Creating /\ IsOpen /\ pc # "idle" /\ op.val \in Values
  BY <1>1 DEF WriteSector, Working, Creating, Loose, IsOpen, Calls, Types, Requests
<1>3. Own \in Seq(Clusters) /\ IsChain(Volume, Own, fp.sclust) /\ fp.objsize <= PerSector * Len(Own)
  BY <1>1, <1>2, OwnChain DEF Chains, EntryOK
<1>4. fp.fptr \in Nat /\ fp.objsize \in Nat /\ PerSector * 0 = 0 /\ fp.sclust \in {0} \cup Clusters /\ 0 \notin Clusters
  BY <1>1 DEF FileObjects, Clusters
<1> DEFINE f == [fp EXCEPT !.clust = x.res, !.sect = x.res, !.sclust = IF @ = 0 THEN x.res ELSE @]
           g == [f EXCEPT !.buf = IF InsideFile THEN data[x.res] ELSE @]
<1>5. \/ Got(x.res) /\ Store(g) /\ UNCHANGED faults
      \/ Got(x.res) /\ InsideFile /\ fp' = f /\ Abort /\ Fault(TRUE)
      \/ x.res = NoSpace /\ fp' = [fp EXCEPT !.modified = TRUE] /\ Abort /\ UNCHANGED faults
      \/ x.res = Broken /\ Abort /\ UNCHANGED <<fp, faults>>
  BY DEF WriteSector
<1>6. ASSUME Got(x.res)
      PROVE  /\ x.res \in Clusters /\ f \in FileObjects /\ g \in FileObjects
             /\ f.fptr = fp.fptr /\ f.objsize = fp.objsize /\ g.fptr = fp.fptr /\ g.objsize = fp.objsize
             /\ f.sclust = (IF fp.sclust = 0 THEN x.res ELSE fp.sclust) /\ g.sclust = f.sclust
  <2>1. x.res \in Clusters /\ data[x.res] \in [Records -> Values]
    BY <1>1, <1>6 DEF Got, Types
  <2> DEFINE first == IF fp.sclust = 0 THEN x.res ELSE fp.sclust
             buf == IF InsideFile THEN data[x.res] ELSE fp.buf
  <2>2. first \in {0} \cup Clusters /\ buf \in [Records -> Values]
    BY <1>1, <1>4, <2>1 DEF FileObjects
  <2>3. f = [fp EXCEPT !.clust = x.res, !.sect = x.res, !.sclust = first]
    BY DEF FileObjects
  <2>4. g = [fp EXCEPT !.clust = x.res, !.sect = x.res, !.sclust = first, !.buf = buf]
    BY <1>1 DEF FileObjects
  <2>5. first = IF fp.sclust = 0 THEN x.res ELSE fp.sclust
    OBVIOUS
  <2> HIDE DEF first, buf, f, g
  <2> QED BY <1>1, <2>1, <2>2, <2>3, <2>4, <2>5 DEF FileObjects
<1>7. fp.sclust = 0 => (fp.fptr = 0 /\ fp.objsize = 0) \/ ~Valid(x.res)
  <2>1. fp.sclust = 0 => Len(Own) = 0
    BY <1>3, <1>4 DEF IsChain
  <2> QED BY <1>1, <1>2, <1>3, <1>4, <2>1 DEF Chains, PlaceOK, AtFirst
<1>8. Got(x.res) => Valid(x.res)
  BY DEF Got, Valid
<1>9. fp.sclust # 0 => Loose = 0
  BY <1>2 DEF Loose
<1>10. CASE Got(x.res) /\ Store(g) /\ UNCHANGED faults
  <2> HIDE DEF f, g
  <2>1. CASE fp.sclust = 0
    BY <1>2, <1>6, <1>7, <1>8, <1>10, <2>1, StoreInv
  <2>2. CASE fp.sclust # 0
    <3>1. PICK k \in 0 .. Len(Own) : fp.fptr = PerSector * k /\ k + 1 \in 1 .. Len(Own)
      BY <1>1, <1>2, <1>8, <1>10, <2>2 DEF Chains, PlaceOK, Ahead, On
    <3>2. k \in Nat /\ k < Len(Own) /\ Len(Own) \in Nat
      BY <1>3, <3>1
    <3>3. PerSector * k + PerSector <= PerSector * Len(Own) /\ PerSector * k \in Nat /\ PerSector * Len(Own) \in Nat
      BY <3>2, Times
    <3>4. fp.fptr + 1 <= PerSector * Len(Own)
      BY <1>1, <3>1, <3>3
    <3> QED BY <1>2, <1>6, <1>9, <1>10, <2>2, <3>4, StoreInv
  <2> QED BY <2>1, <2>2
<1>11. CASE Got(x.res) /\ InsideFile /\ fp' = f /\ Abort /\ Fault(TRUE)
  <2> HIDE DEF f, g
  <2>1. faults' = faults + 1 /\ faults \in Nat
    BY <1>1, <1>11 DEF Fault, Types
  <2>2. Same /\ faults' # 0
    BY <1>1, <1>2, <2>1, Unmoved
  <2>3. fp.sclust # 0
    BY <1>4, <1>7, <1>8, <1>11 DEF InsideFile
  <2> QED BY <1>2, <1>3, <1>6, <1>11, <2>2, <2>3, CloseInv DEF Abort
<1>12. CASE x.res = NoSpace /\ fp' = [fp EXCEPT !.modified = TRUE] /\ Abort /\ UNCHANGED faults
  <2>1. Same
    BY <1>1, <1>2, <1>12, Unmoved
  <2>2. fp' \in FileObjects /\ fp'.sclust = fp.sclust /\ fp'.objsize = fp.objsize /\ fp'.modified
    BY <1>1, <1>12 DEF FileObjects
  <2>3. Loose = 0
    BY <1>2, <1>12 DEF Loose, Valid, NoSpace, Clusters
  <2> QED BY <1>2, <1>3, <1>12, <2>1, <2>2, <2>3, CloseInv DEF Abort
<1>13. CASE x.res = Broken /\ Abort /\ UNCHANGED <<fp, faults>>
  <2>1. Same /\ faults' # 0
    BY <1>1, <1>2, <1>13, Unmoved DEF Tidy
  <2> QED BY <1>1, <1>2, <1>3, <1>13, <2>1, CloseInv DEF Abort
<1> QED BY <1>5, <1>10, <1>11, <1>12, <1>13

-----------------------------------------------------------------------------
(* The operation is over, and the file is closed or given up. *)
LEMMA IdleInv ==
  ASSUME Inv, Same, pc' = "idle", op' = NoOp, fp' = Closed, x' = NoLocals, locked' \subseteq Files,
         data' \in [Clusters -> [Records -> Values]], last_clst' = last_clst,
         faults' = 0 => Loose = 0 /\ ~win'.wflag /\ (IsOpen => Volume[Dir][op.file].sclust = fp.sclust)
  PROVE  Inv'
<1>1. Types /\ Calls /\ Chains /\ Tidy
  BY DEF Inv
<1>2. fp' \in FileObjects /\ x' \in Locals /\ op' \in Requests
  BY VolumeAssumption DEF Closed, NoOp, NoLocals, NoSpace, FileObjects, Locals, Requests, Values
<1>3. Types'
  BY <1>1, <1>2 DEF Types, Same
<1>4. Calls'
  BY DEF Calls, Closed, NoOp, Creating
<1>5. Chains' /\ (faults' = 0 => \A i \in Files : First(i)' = First(i))
  BY <1>1, Stops
<1>6. Tidy'
  <2>1. faults' = 0 => \A i \in Owners : First(i) \in Clusters => \E j \in Owners : First(j)' = First(i)
    BY <1>5 DEF First, Owners, Clusters
  <2>2. faults' = 0 => ~win'.wflag
    OBVIOUS
  <2> QED BY <1>1, <2>1, <2>2, Tidies
<1> QED BY <1>3, <1>4, <1>5, <1>6 DEF Inv

LEMMA CloseUnchangedInv ==
  ASSUME Inv, CloseUnchanged
  PROVE  Inv'
<1>1. Types /\ Tidy
  BY DEF Inv
<1>2. /\ pc = "close" /\ ~fp.modified /\ UNCHANGED <<card, data, win, last_clst, faults>>
      /\ pc' = "idle" /\ op' = NoOp /\ fp' = Closed /\ x' = NoLocals /\ locked' = locked
  BY DEF CloseUnchanged, ClosedWell, Fail
<1>3. Same /\ locked' \subseteq Files /\ data' \in [Clusters -> [Records -> Values]]
  BY <1>1, <1>2, Unmoved DEF Types
<1>4. Loose = 0 /\ ~IsOpen
  BY <1>2 DEF Loose, IsOpen, Working, Creating
<1>5. faults' = 0 => ~win'.wflag
  BY <1>1, <1>2 DEF Tidy, Closing
<1> QED BY <1>2, <1>3, <1>4, <1>5, IdleInv

(* f_close() fails, the file stays open. *)
LEMMA LeftOpenInv ==
  ASSUME Inv, Same, pc \in Closing, LeftOpen, data' \in [Clusters -> [Records -> Values]],
         last_clst' = last_clst, faults' # 0
  PROVE  Inv'
<1>1. op.file \in Files /\ locked \subseteq Files
  BY DEF Inv, Types, Calls, Closing
<1>2. /\ pc' = "idle" /\ op' = NoOp /\ fp' = Closed /\ x' = NoLocals /\ locked' \subseteq Files
  BY <1>1 DEF LeftOpen
<1> QED BY <1>2, IdleInv

LEMMA WriteBackInv ==
  ASSUME Inv, WriteBack
  PROVE  Inv'
<1>1. Types /\ Calls /\ Chains /\ Tidy /\ fp \in FileObjects
  BY DEF Inv, Types
<1> DEFINE written == [data EXCEPT ![fp.sect] = fp.buf]
<1>2. /\ pc = "close" /\ fp.modified /\ UNCHANGED <<card, win, last_clst>> /\ IsOpen /\ pc \in Closing /\ pc # "sync"
      /\ Loose = 0 /\ written \in [Clusters -> [Records -> Values]] /\ data \in [Clusters -> [Records -> Values]]
  BY <1>1 DEF WriteBack, IsOpen, Closing, Loose, Types, FileObjects
<1>3. \/ data' = written /\ fp' = [fp EXCEPT !.dirty = FALSE] /\ UNCHANGED <<locked, op, pc, x, faults>>
      \/ data' \in {data, written} /\ LeftOpen /\ Fault(TRUE)
  BY DEF WriteBack
<1> HIDE DEF written
<1>4. CASE data' = written /\ fp' = [fp EXCEPT !.dirty = FALSE] /\ UNCHANGED <<locked, op, pc, x, faults>>
  <2>1. /\ fp' \in FileObjects /\ fp'.sclust = fp.sclust /\ fp'.objsize = fp.objsize /\ fp'.modified = fp.modified
        /\ fp'.fptr = fp.fptr /\ fp'.clust = fp.clust /\ fp'.sect = fp.sect
    BY <1>1, <1>4 DEF FileObjects
  <2>2. Same
    BY <1>1, <1>2, <1>4, Unmoved
  <2>3. Types'
    BY <1>1, <1>2, <1>4, <2>1, <2>2 DEF Types, Same
  <2>4. Calls'
    BY <1>1, <1>2, <1>4, <2>1 DEF Calls, Creating
  <2>5. PlaceOK' /\ Loose' = 0
    BY <1>2, <1>4 DEF PlaceOK, Creating, Loose
  <2>6. fp'.objsize <= PerSector * Len(Own)
    BY <1>1, <1>2, <2>1 DEF Chains, EntryOK
  <2>7. Chains' /\ (op.kind # "read" => \A i \in Files : First(i)' = First(i))
    BY <1>1, <1>2, <1>4, <2>1, <2>2, <2>5, <2>6, Continues
  <2>8. op.kind # "read"
    BY <1>1, <1>2 DEF Calls
  <2>9. Tidy'
    BY <1>1, <1>2, <1>4, <2>1, <2>2, <2>5, <2>7, <2>8, Tidies DEF First, Owners, Clusters
  <2> QED BY <2>3, <2>4, <2>7, <2>9 DEF Inv
<1>5. CASE data' \in {data, written} /\ LeftOpen /\ Fault(TRUE)
  <2>1. faults' = faults + 1 /\ faults \in Nat
    BY <1>1, <1>5 DEF Fault, Types
  <2>2. Same /\ faults' # 0 /\ data' \in [Clusters -> [Records -> Values]]
    BY <1>1, <1>2, <1>5, <2>1, Unmoved
  <2> QED BY <1>2, <1>5, <2>2, LeftOpenInv
<1> QED BY <1>3, <1>4, <1>5

LEMMA UpdateEntryInv ==
  ASSUME Inv, UpdateEntry
  PROVE  Inv'
<1>1. Types /\ Calls /\ Chains /\ Tidy /\ CardTypes /\ faults \in Nat
  BY DEF Inv, Types
<1>2. /\ pc = "close" /\ fp.modified /\ UNCHANGED <<data, last_clst>> /\ IsOpen /\ pc \in Closing
      /\ Loose = 0 /\ op.file \in Files /\ op.kind # "read"
  BY <1>1 DEF UpdateEntry, IsOpen, Closing, Loose, Calls
<1> DEFINE e == [sclust |-> fp.sclust, size |-> fp.objsize]
<1>3. PICK m \in move_window(Dir) :
        IF m.ok THEN Window(m, Put(m.win, op.file, e)) /\ Goto("sync") /\ UNCHANGED <<fp, x>>
        ELSE Window(m, m.win) /\ LeftOpen
  BY DEF UpdateEntry
<1>4. e.sclust = fp.sclust /\ e.size = fp.objsize /\ e \in EntrySet
  BY <1>1 DEF Types, FileObjects, EntrySet
<1> HIDE DEF e
<1>5. CASE ~m.ok
  <2>1. Same /\ faults' # 0
    BY <1>1, <1>3, <1>5, Glimpsed, SectorNumbers
  <2>2. data' \in [Clusters -> [Records -> Values]]
    BY <1>1, <1>2 DEF Types
  <2> QED BY <1>2, <1>3, <1>5, <2>1, <2>2, LeftOpenInv
<1>6. CASE m.ok
  <2>1. pc' = "sync" /\ op' = op /\ locked' = locked /\ fp' = fp /\ x' = x
    BY <1>3, <1>6 DEF Goto
  <2>2. op.file \in DOMAIN Volume[Dir]
    BY <1>1, <1>2, VolumeNow
  <2>3. /\ CardTypes' /\ Volume' = [Volume EXCEPT ![Dir][op.file] = e] /\ card' \in {card, Volume} /\ faults' = faults
    BY <1>1, <1>3, <1>4, <1>6, <2>2, Puts, SectorNumbers
  <2>4. /\ Volume'[Dir] = [Volume[Dir] EXCEPT ![op.file] = e]
        /\ \A c \in Clusters : Fat(Volume', c) = Fat(Volume, c)
    BY <1>1, <2>3, VolumeNow, SectorNumbers DEF IsVolume, Fat, Dir
  <2>5. /\ Volume'[Dir][op.file] = e
        /\ \A i \in Files \ {op.file} : Volume'[Dir][i] = Volume[Dir][i]
    BY <1>1, <1>2, <2>4, VolumeNow
  <2>6. Own' = Own
    BY <2>1, <2>4, SameTable DEF Own
  <2>7. fp.objsize <= PerSector * Len(Own)
    BY <1>1, <1>2 DEF Chains, EntryOK
  <2>8. IsOpen' /\ Loose' = 0
    BY <1>2, <2>1 DEF IsOpen, Loose, Closing
  <2>9. EntryOK'
    BY <1>2, <1>4, <2>1, <2>5, <2>6, <2>7, <2>8 DEF EntryOK, e
  <2>10. PlaceOK'
    BY <2>1 DEF PlaceOK, Creating
  <2>11. \A i \in Owners : First(i)' = First(i)
    BY <1>2, <2>1, <2>5, <2>8 DEF First, Owners
  <2>12. \A i, j \in Owners : i # j /\ First(i) \in Clusters => First(i) # First(j)
    BY <1>1, Distinct
  <2>13. Chains'
    <3>1. e.size <= PerSector * Len(Chain(Volume, e.sclust))
      BY <1>4, <2>7 DEF Own
    <3>2. \A i, j \in Owners : i # j /\ First(i)' \in Clusters => First(i)' # First(j)'
      BY <2>11, <2>12
    <3>3. \A i \in Owners : First(i)' \notin Clusters \/ \E j \in Owners : First(i)' = First(j)
      BY <2>11
    <3> QED BY <1>1, <1>2, <1>4, <2>3, <2>9, <2>10, <3>1, <3>2, <3>3, Renamed
  <2>14. Types'
    BY <1>1, <1>2, <2>1, <2>3 DEF Types, Closing
  <2>15. Calls'
    BY <1>1, <1>2, <2>1 DEF Calls, Creating
  <2>16. Tidy'
    <3>1. \A i \in Owners : First(i) \in Clusters => \E j \in Owners : First(j)' = First(i)
      BY <2>11
    <3> QED BY <1>1, <1>2, <2>1, <2>3, <2>4, <3>1, TidyStays
  <2> QED BY <2>13, <2>14, <2>15, <2>16 DEF Inv
<1> QED BY <1>5, <1>6

LEMMA SyncEntryInv ==
  ASSUME Inv, SyncEntry
  PROVE  Inv'
<1>1. Types /\ Calls /\ Chains /\ Tidy /\ CardTypes /\ faults \in Nat
  BY DEF Inv, Types
<1>2. pc = "sync" /\ UNCHANGED <<data, last_clst>> /\ pc \in Closing /\ Loose = 0
  BY DEF SyncEntry, Closing, Loose
<1>3. PICK m \in sync_window : Window(m, m.win) /\ IF m.ok THEN ClosedWell ELSE LeftOpen
  BY DEF SyncEntry
<1>4. card' = m.card /\ win' = m.win /\ faults' = faults + (IF ~m.ok THEN 1 ELSE 0)
  BY <1>3 DEF Window, Fault
<1>5. /\ m.ok \in BOOLEAN /\ m.card \in {card, Volume}
      /\ IsWindow(m.win) /\ IsClean(m.card, m.win) /\ Cached(m.card, m.win) = Volume
      /\ m.ok => m.card = Volume /\ ~m.win.wflag
      /\ ~win.wflag => m.card = card /\ ~m.win.wflag
  BY <1>1, Synced
<1>6. Same
  <2>1. Volume' = Cached(card', win')
    BY DEF Volume
  <2>2. IsVolume(Volume)
    BY <1>1, VolumeNow
  <2>3. CardTypes'
    BY <1>1, <1>4, <1>5, <2>2 DEF CardTypes
  <2>4. faults' \in Nat /\ (faults' = 0 => faults = 0)
    BY <1>1, <1>4, <1>5
  <2> QED BY <1>4, <1>5, <2>1, <2>3, <2>4 DEF Same
<1>7. data' \in [Clusters -> [Records -> Values]] /\ locked \subseteq Files
  BY <1>1, <1>2 DEF Types
<1>8. CASE m.ok
  <2>1. pc' = "idle" /\ op' = NoOp /\ fp' = Closed /\ x' = NoLocals /\ locked' = locked
    BY <1>3, <1>8 DEF ClosedWell, Fail
  <2>2. ~win'.wflag
    BY <1>4, <1>5, <1>8
  <2>3. IsOpen => Volume[Dir][op.file].sclust = fp.sclust
    BY <1>1, <1>2 DEF Chains, EntryOK
  <2> QED BY <1>2, <1>6, <1>7, <2>1, <2>2, <2>3, IdleInv
<1>9. CASE ~m.ok
  <2>1. faults' # 0 /\ LeftOpen
    BY <1>1, <1>3, <1>4, <1>9
  <2> QED BY <1>2, <1>6, <1>7, <2>1, LeftOpenInv
<1> QED BY <1>8, <1>9

LEMMA RemountInv ==
  ASSUME Inv, Remount
  PROVE  Inv'
<1>1. Types /\ Calls /\ Chains /\ Tidy /\ CardTypes /\ faults \in Nat
  BY DEF Inv, Types
<1>2. /\ card' = card /\ data' = data /\ win' = Unread /\ last_clst' = 0 /\ locked' = {}
      /\ op' = NoOp /\ fp' = Closed /\ pc' = "idle" /\ x' = NoLocals
      /\ faults' = faults + (IF pc # "idle" THEN 1 ELSE 0)
  BY DEF Remount, Mounted, Fault
<1>3. Volume' = card
  BY <1>2 DEF Volume, Cached, Unread
<1>4. CardTypes'
  BY <1>1, <1>2, SectorNumbers DEF CardTypes, IsVolume, IsWindow, IsClean, Unread, Contents
<1>5. fp' \in FileObjects /\ x' \in Locals /\ op' \in Requests
  BY <1>2, VolumeAssumption DEF Closed, NoOp, NoLocals, NoSpace, FileObjects, Locals, Requests, Values
<1>6. Types'
  BY <1>1, <1>2, <1>4, <1>5 DEF Types
<1>7. Calls'
  BY <1>2 DEF Calls, Closed, NoOp, Creating
<1>8. ~IsOpen' /\ Loose' = 0
  BY <1>2 DEF IsOpen, Loose, Working, Creating, Closing
<1>9. Firsts' = [i \in Owners |-> IF i = NoFile THEN 0 ELSE card[Dir][i].sclust]
  BY <1>3, <1>8 DEF Firsts, First
<1>10. Chains'
  <2>1. EntryOK' /\ PlaceOK'
    BY <1>2, <1>8 DEF EntryOK, PlaceOK, Creating
  <2>2. InOrder(card)
    BY <1>1 DEF Chains
  <2>3. Linked(Volume', Firsts') /\ Fits(Volume') /\ InOrder(card')
    BY <1>2, <1>3, <1>9, <2>2, FromOrder
  <2> QED BY <2>1, <2>3 DEF Chains
<1>11. Tidy'
  <2>1. SUFFICES ASSUME faults' = 0 PROVE Tidy'
    BY DEF Tidy
  <2>2. faults = 0 /\ pc = "idle" /\ ~win.wflag /\ Volume = card
    BY <1>1, <1>2, <2>1 DEF Tidy, Volume, Cached
  <2>3. ~IsOpen /\ Loose = 0
    BY <2>2 DEF IsOpen, Loose, Working, Creating, Closing
  <2>4. \A i \in Owners : First(i)' = First(i)
    BY <1>3, <1>8, <2>2, <2>3 DEF First
  <2>5. \A c \in Clusters : Fat(Volume', c) = Fat(Volume, c)
    BY <1>3, <2>2
  <2>6. ~win'.wflag
    BY <1>2 DEF Unread
  <2>7. \A i \in Owners : First(i) \in Clusters => \E j \in Owners : First(j)' = First(i)
    BY <2>4
  <2> QED BY <1>1, <1>2, <2>2, <2>5, <2>6, <2>7, TidyStays
<1> QED BY <1>6, <1>7, <1>10, <1>11 DEF Inv

LEMMA StutterInv ==
  ASSUME Inv, UNCHANGED vars
  PROVE  Inv'
<1>1. UNCHANGED <<card, data, win, last_clst, locked, op, fp, pc, x, faults>>
  BY DEF vars, ghosts
<1>2. Types /\ Calls /\ Chains /\ Tidy
  BY DEF Inv
<1>3. Same
  BY <1>1, <1>2, Unmoved
<1>4. Types'
  BY <1>1, <1>2, <1>3 DEF Types, Same
<1>5. Calls'
  BY <1>1, <1>2 DEF Calls
<1>6. Volume' = Volume /\ Own' = Own /\ (IsOpen' <=> IsOpen) /\ Loose' = Loose
  BY <1>1, <1>3 DEF Same, Own, IsOpen, Loose
<1>7. \A i \in Owners : First(i)' = First(i)
  BY <1>1, <1>6 DEF First
<1>8. EntryOK'
  BY <1>1, <1>2, <1>6 DEF Chains, EntryOK
<1>9. PlaceOK'
  BY <1>1, <1>2, <1>6 DEF Chains, PlaceOK, AtFirst, Ahead, Behind, On
<1>10. Chains'
  BY <1>1, <1>2, <1>6, <1>7, <1>8, <1>9, Steady
<1>11. Tidy'
  BY <1>1, <1>2, <1>3, <1>7, Tidies DEF Tidy
<1> QED BY <1>4, <1>5, <1>10, <1>11 DEF Inv

-----------------------------------------------------------------------------
LEMMA NextInv ==
  ASSUME Inv, [Next]_vars
  PROVE  Inv'
<1>1. CASE Request
  BY <1>1, RequestInv
<1>2. CASE f_open
  BY <1>2, OpenInv
<1>3. CASE remove_chain
  BY <1>3, RemoveInv
<1>4. CASE ReopenTruncated
  BY <1>4, ReopenInv
<1>5. CASE Stretch
  BY <1>5, StretchInv
<1>6. CASE TryNext
  BY <1>6, TryNextInv
<1>7. CASE Search
  BY <1>7, SearchInv
<1>8. CASE Alloc
  BY <1>8, AllocInv
<1>9. CASE f_lseek
  BY <1>9, LseekInv
<1>10. CASE f_read
  BY <1>10, ReadInv
<1>11. CASE WriteWithin
  BY <1>11, WriteWithinInv
<1>12. CASE WriteSector
  BY <1>12, WriteSectorInv
<1>13. CASE CloseUnchanged
  BY <1>13, CloseUnchangedInv
<1>14. CASE WriteBack
  BY <1>14, WriteBackInv
<1>15. CASE UpdateEntry
  BY <1>15, UpdateEntryInv
<1>16. CASE SyncEntry
  BY <1>16, SyncEntryInv
<1>17. CASE Remount
  BY <1>17, RemountInv
<1>18. CASE UNCHANGED vars
  BY <1>18, StutterInv
<1> QED BY <1>1, <1>2, <1>3, <1>4, <1>5, <1>6, <1>7, <1>8, <1>9, <1>10, <1>11, <1>12, <1>13,
           <1>14, <1>15, <1>16, <1>17, <1>18 DEF Next, Step

(* Card, window, file object and the locals of the functions fit together  *)
(* at every step, whatever fails and wherever the power goes: the chains   *)
(* of the files, of the file being worked on and of the clusters in no     *)
(* file are whole and apart.                                               *)
THEOREM Invariance == Spec => []Inv
<1>1. Init => Inv
  BY InitInv
<1>2. Inv /\ [Next]_vars => Inv'
  BY NextInv
<1> QED BY <1>1, <1>2, PTL DEF Spec

(* The window shows a sector of the volume or nothing, and no error value  *)
(* of create_chain() or get_fat() gets into the file object.               *)
THEOREM TypeCorrect == Spec => []TypeOK
<1>1. Inv => TypeOK
  BY DEF Inv, Types, CardTypes, IsVolume, IsWindow, SectorSet, FileObjects, TypeOK
<1> QED BY <1>1, Invariance, PTL

(* Wherever an operation is cut short, the chains on the card end, do not  *)
(* meet and are long enough for the sizes in the directory: the order of   *)
(* the writes in f_open(), create_chain(), remove_chain() and f_sync().    *)
THEOREM VolumeStaysSound == Spec => []VolumeSound
<1>1. Inv => VolumeSound
  BY DEF Inv, Chains, VolumeSound
<1> QED BY <1>1, Invariance, PTL

(* As long as nothing has failed, no cluster stays allocated that belongs  *)
(* to no file, in particular when f_open() truncates a file and the hole   *)
(* that remove_chain() leaves is used again.                               *)
THEOREM NothingIsLost == Spec => []NoLostClusters
<1>1. ASSUME Inv, faults = 0, pc = "idle" PROVE NothingLost(card)
  <2>1. Types /\ Calls /\ Chains /\ Tidy
    BY <1>1 DEF Inv
  <2>2. Volume = card
    BY <1>1, <2>1 DEF Tidy, Volume, Cached
  <2> DEFINE ch == [f \in Files |-> Named(Volume, f)]
  <2>3. ch \in Layouts /\ OnChains(Volume, ch)
    BY <2>1, NamedChains
  <2>4. ~IsOpen /\ Loose = 0
    BY <1>1 DEF IsOpen, Loose, Working, Creating, Closing
  <2>5. ASSUME NEW c \in Clusters, Fat(Volume, c) # Free
        PROVE  \E f \in Files : \E i \in 1 .. Len(ch[f]) : c = ch[f][i]
    <3>1. PICK i \in Owners : \E k \in 1 .. Len(Chain(Volume, First(i))) : Chain(Volume, First(i))[k] = c
      BY <1>1, <2>1, <2>5 DEF Tidy, IsLinked
    <3>2. First(i) \in Clusters
      BY <3>1, NoChain
    <3>3. i \in Files /\ First(i) = Volume[Dir][i].sclust
      BY <2>4, <3>2, FilesOwn DEF First, Owners, Clusters
    <3>4. ch[i] = Chain(Volume, First(i))
      BY <3>3 DEF Named
    <3> QED BY <3>1, <3>3, <3>4
  <2> HIDE DEF ch
  <2> QED BY <2>2, <2>3, <2>5 DEF NothingLost
<1>2. Inv => NoLostClusters
  BY <1>1 DEF NoLostClusters
<1> QED BY <1>2, Invariance, PTL

-----------------------------------------------------------------------------
(***************************************************************************)
(* What the files hold.  Inv says where the chains are, FilesOK what is on *)
(* them.  A power cut leaves the card as it is, an access to the card may  *)
(* write the changed window on it: so the files must hold what saved       *)
(* allows by the directory of the card and by that of the window, and what *)
(* is written to a cluster must be nothing that counts on the card (Agree: *)
(* the card's clusters are not given to another file, or place, before the *)
(* card knows).  Doing says what the operation under way has in the file   *)
(* object, and that saved has been widened by what it is about to write.   *)
(***************************************************************************)
(* the number of record r of the k-th cluster of a file *)
Place(k, r) == PerSector * (k - 1) + r + 1

(* the first n records on the chain s are such as sv allows, the data being d *)
Holds(s, d, n, sv) ==
  /\ n \in sv.least .. Len(sv.recs)
  /\ \A k \in 1 .. Len(s), r \in Records : Place(k, r) <= n => d[s[k]][r] \in sv.recs[Place(k, r)]

KeptOn(v, d, sv) == \A f \in Files : Holds(Named(v, f), d, v[Dir][f].size, sv[f])

SavedOK == saved \in [Files -> [least : Nat, recs : Seq(SUBSET Values)]]

(* Every cluster that a file has on the card c is allocated on the volume  *)
(* v, and only that file may have it there, at the same place: h are the   *)
(* first clusters on v.  While a truncated entry is still in the window    *)
(* the clusters to be freed are the old ones.                              *)
Agreed(c, v, h, truncated) ==
  \A f \in Files : \A k \in 1 .. Len(Named(c, f)) :
    /\ Fat(v, Named(c, f)[k]) # Free
    /\ \A i \in Owners : \A l \in 1 .. Len(Chain(v, h[i])) :
         Named(c, f)[k] = Chain(v, h[i])[l] => (i = f /\ k = l) \/ (i = NoFile /\ truncated)

Truncated == pc = "remove" /\ win.sect = Dir /\ win.wflag
Agree == Agreed(card, Volume, Firsts, Truncated)

(* the entry of an image on the card is the same as in the window, or older *)
Grows == \A f \in Images : card[Dir][f].size <= Volume[Dir][f].size

Stored == SavedOK /\ Agree /\ Grows /\ KeptOn(card, data, saved) /\ KeptOn(Volume, data, saved)

(* the data with the sector buffer of the open file *)
View == IF fp.dirty THEN [data EXCEPT ![fp.sect] = fp.buf] ELSE data

Writes == op.kind \in {"write", "save"}

OpenKept ==
  Writes /\ IsOpen =>
    /\ Volume[Dir][op.file].size <= fp.objsize
    /\ Holds(Own, View, fp.objsize, saved[op.file])

(* a file written anew has only new clusters until its entry is updated *)
Fresh ==
  op.kind = "save" =>
    /\ saved[Conf].least = 0
    /\ IsOpen /\ pc # "sync" => Volume[Dir][Conf] = Empty /\ Apart(Named(card, Conf), Own)

(* what the operation may leave *)
Widened ==
  Writes =>
    /\ op.pos < Len(saved[op.file].recs) /\ op.val \in saved[op.file].recs[op.pos + 1]
    /\ \A i \in 1 .. op.pos : i > Volume[Dir][op.file].size => saved[op.file].recs[i] = Values

Full == \A c \in Clusters : Fat(Volume, c) # Free
Examined ==
  {c \in Clusters : IF x.ncl >= x.scl THEN c > x.scl /\ c <= x.ncl ELSE c > x.scl \/ c <= x.ncl}

(* the pointer is where the request says, or the card is full *)
Aimed ==
  \/ fp.fptr = op.pos
  \/ fp.fptr < op.pos /\ OnBoundary /\ Full /\ (AtFirst \/ (fp.fptr > 0 /\ Fat(Volume, fp.clust) = EOC))

(* create_chain() called on the way to the position *)
OnTheWay == pc \in {"first", "sought"} \/ (pc \in Creating /\ x.ret # "fill")
ToTransfer == pc = "transfer" \/ (pc \in Creating /\ x.ret = "fill")

Pointer ==
  /\ pc = "seek" => x.ofs <= op.pos /\ (op.kind = "write" => x.ofs = op.pos)
  /\ OnTheWay => fp.fptr + x.ofs <= op.pos /\ (op.kind = "write" => fp.fptr + x.ofs = op.pos)
  /\ pc \in {"first", "sought"} /\ x.res = NoSpace => Full /\ (pc = "sought" => Fat(Volume, fp.clust) = EOC)
  /\ pc = "search" => \A c \in Examined : Fat(Volume, c) # Free
  /\ Writes /\ ToTransfer => Aimed
  /\ (pc = "fill" /\ Valid(x.res)) \/ (pc = "link" /\ x.ret = "fill") => fp.fptr = op.pos
  /\ Writes /\ pc \in Working => ~fp.dirty /\ fp.fptr <= fp.objsize
  /\ pc = "transfer" /\ ~OnBoundary => fp.buf = data[fp.sect]

Written ==
  Writes /\ pc \in Closing =>
    /\ fp.dirty => fp.modified /\ pc = "close" /\ \E k \in 1 .. Len(Own) : Own[k] = fp.sect
    /\ op.ok =>
         /\ fp.modified /\ op.pos < fp.objsize
         /\ \A k \in 1 .. Len(Own), r \in Records : Place(k, r) = op.pos + 1 => View[Own[k]][r] = op.val

Reading ==
  op.kind = "read" =>
    /\ pc \in Working => fp.objsize = Volume[Dir][op.file].size /\ fp.fptr <= fp.objsize
    /\ pc = "seek" => x.ofs \in {op.pos, fp.objsize}
    /\ pc = "sought" => Valid(x.res) /\ fp.fptr + x.ofs \in {op.pos, fp.objsize} /\ fp.fptr + x.ofs <= fp.objsize
    /\ pc = "transfer" => fp.fptr \in {op.pos, fp.objsize}
    /\ pc = "close" /\ op.ok => op.pos < Len(saved[op.file].recs) /\ op.val \in saved[op.file].recs[op.pos + 1]

Doing == OpenKept /\ Fresh /\ Widened /\ Pointer /\ Written /\ Reading
FilesOK == Stored /\ Doing

(* The number of a record says which one it is. *)
LEMMA PlaceOf ==
  ASSUME NEW k \in Nat \ {0}, NEW r \in Records
  PROVE  /\ Place(k, r) \in Nat \ {0} /\ PerSector * (k - 1) < Place(k, r) /\ Place(k, r) <= PerSector * k
         /\ \A j \in Nat \ {0}, q \in Records : Place(j, q) = Place(k, r) => j = k /\ q = r
<1>1. r \in Nat /\ r < PerSector /\ PerSector \in Nat
  BY SectorAssumption DEF Records
<1>2. /\ PerSector * (k - 1) \in Nat
      /\ PerSector * (k - 1 + 1) = PerSector * (k - 1) + PerSector
  BY Times
<1>3. k - 1 + 1 = k
  OBVIOUS
<1>4. /\ Place(k, r) \in Nat \ {0} /\ PerSector * (k - 1) < Place(k, r) /\ Place(k, r) <= PerSector * k
  BY <1>1, <1>2, <1>3 DEF Place
<1>5. ASSUME NEW j \in Nat \ {0}, NEW q \in Records, Place(j, q) = Place(k, r) PROVE j = k /\ q = r
  <2>1. q \in Nat /\ q < PerSector
    BY SectorAssumption DEF Records
  <2>2. /\ PerSector * (j - 1) \in Nat
        /\ (j - 1 < k - 1 => PerSector * (j - 1) + PerSector <= PerSector * (k - 1))
        /\ (k - 1 < j - 1 => PerSector * (k - 1) + PerSector <= PerSector * (j - 1))
    BY Times
  <2>3. PerSector * (j - 1) + q = PerSector * (k - 1) + r
    BY <1>1, <1>2, <1>5, <2>1, <2>2 DEF Place
  <2>4. j = k
    BY <1>1, <1>2, <2>1, <2>2, <2>3
  <2> QED BY <1>1, <1>2, <2>1, <2>3, <2>4
<1> QED BY <1>4, <1>5

(* A file grows over places that may hold anything. *)
LEMMA HoldsMore ==
  ASSUME NEW s \in Seq(Clusters), NEW d \in [Clusters -> [Records -> Values]],
         NEW sv, sv.least \in Nat, sv.recs \in Seq(SUBSET Values),
         NEW n \in Nat, NEW m \in Nat, Holds(s, d, n, sv), n <= m, m <= Len(sv.recs),
         \A i \in 1 .. m : i > n => sv.recs[i] = Values
  PROVE  Holds(s, d, m, sv)
<1>1. ASSUME NEW k \in 1 .. Len(s), NEW r \in Records, Place(k, r) <= m
      PROVE  d[s[k]][r] \in sv.recs[Place(k, r)]
  <2>1. k \in Nat \ {0} /\ s[k] \in Clusters
    OBVIOUS
  <2>2. Place(k, r) \in Nat \ {0}
    BY <2>1, PlaceOf
  <2>3. d[s[k]][r] \in Values
    BY <2>1
  <2> QED BY <1>1, <2>2, <2>3 DEF Holds
<1> QED BY <1>1 DEF Holds

(* The same records on another chain, or with other data. *)
LEMMA HoldsThere ==
  ASSUME NEW s, NEW d, NEW n, NEW sv, Holds(s, d, n, sv), NEW t, NEW e,
         \A k \in 1 .. Len(t), r \in Records :
           Place(k, r) <= n => k \in 1 .. Len(s) /\ e[t[k]][r] = d[s[k]][r]
  PROVE  Holds(t, e, n, sv)
BY DEF Holds

(* What the clusters of a chain behind its records hold does not matter. *)
LEMMA HoldsLonger ==
  ASSUME NEW s \in Seq(Clusters), NEW d, NEW n \in Nat, NEW sv, Holds(s, d, n, sv), NEW c \in Clusters,
         n <= PerSector * Len(s)
  PROVE  Holds(Append(s, c), d, n, sv)
<1>1. ASSUME NEW k \in 1 .. Len(Append(s, c)), NEW r \in Records, Place(k, r) <= n
      PROVE  k \in 1 .. Len(s) /\ Append(s, c)[k] = s[k]
  <2>1. k \in 1 .. Len(s) + 1 /\ k \in Nat \ {0} /\ Len(s) \in Nat
    OBVIOUS
  <2>2. PerSector * (k - 1) < Place(k, r) /\ Place(k, r) \in Nat
    BY <2>1, PlaceOf
  <2>3. k # Len(s) + 1
    <3>1. SUFFICES ASSUME k - 1 = Len(s) PROVE FALSE
      BY <2>1
    <3>2. PerSector * Len(s) \in Nat
      BY <2>1, Times
    <3> QED BY <1>1, <2>2, <3>1, <3>2
  <2>4. k \in 1 .. Len(s)
    BY <2>1, <2>3
  <2> QED BY <2>4
<1> QED BY <1>1, HoldsThere

(* The history allows more. *)
LEMMA HoldsWider ==
  ASSUME NEW s \in Seq(Clusters), NEW d, NEW n \in Nat, NEW sv, Holds(s, d, n, sv),
         NEW su, su.least <= n, n <= Len(su.recs), su.least \in Nat, su.recs \in Seq(SUBSET Values),
         \A i \in 1 .. n : sv.recs[i] \subseteq su.recs[i]
  PROVE  Holds(s, d, n, su)
<1>1. ASSUME NEW k \in 1 .. Len(s), NEW r \in Records, Place(k, r) <= n
      PROVE  d[s[k]][r] \in su.recs[Place(k, r)]
  <2>1. k \in Nat \ {0}
    OBVIOUS
  <2>2. Place(k, r) \in Nat \ {0}
    BY <2>1, PlaceOf
  <2> QED BY <1>1, <2>2 DEF Holds
<1>2. n \in su.least .. Len(su.recs)
  OBVIOUS
<1> QED BY <1>1, <1>2 DEF Holds

-----------------------------------------------------------------------------
(* Which clusters the files have on a volume and on another one. *)
LEMMA AgreedSelf ==
  ASSUME NEW v, NEW h, Linked(v, h), NEW e,
         \A f \in Files : v[Dir][f].sclust \in Clusters => v[Dir][f].sclust = h[f]
  PROVE  Agreed(v, v, h, e)
<1> SUFFICES ASSUME NEW f \in Files, NEW k \in 1 .. Len(Named(v, f))
             PROVE  /\ Fat(v, Named(v, f)[k]) # Free
                    /\ \A i \in Owners : \A l \in 1 .. Len(Chain(v, h[i])) :
                         Named(v, f)[k] = Chain(v, h[i])[l] => i = f /\ k = l
  BY DEF Agreed
<1>1. v[Dir][f].sclust \in Clusters
  <2>1. v[Dir][f].sclust \notin Clusters => Len(Named(v, f)) = 0
    BY NoChain DEF Named
  <2> QED BY <2>1
<1>2. Named(v, f) = Chain(v, h[f]) /\ f \in Owners
  BY <1>1, FilesOwn DEF Named
<1> DEFINE s == Chain(v, h[f])
<1>3. s \in Seq(Clusters) /\ IsChain(v, s, h[f]) /\ k \in 1 .. Len(s)
  BY <1>2 DEF Linked
<1>4. Fat(v, s[k]) # Free
  BY <1>3, ChainAllocated
<1>5. ASSUME NEW i \in Owners, NEW l \in 1 .. Len(Chain(v, h[i])), s[k] = Chain(v, h[i])[l]
      PROVE  i = f /\ k = l
  <2>1. i = f
    BY <1>2, <1>3, <1>5 DEF Linked, Apart
  <2> QED BY <1>3, <1>5, <2>1 DEF IsChain
<1> QED BY <1>2, <1>4, <1>5

(* The table stays, files keep their first cluster or lose it. *)
LEMMA AgreedSteady ==
  ASSUME NEW c, NEW v, NEW h, NEW e, Agreed(c, v, h, e), NEW w, NEW g, NEW b,
         \A d \in Clusters : Fat(w, d) = Fat(v, d), \A f \in Files : Named(c, f) \in Seq(Clusters),
         \A i \in Owners : g[i] = h[i] \/ g[i] \notin Clusters,
         e => b \/ g[NoFile] \notin Clusters
  PROVE  Agreed(c, w, g, b)
<1> SUFFICES ASSUME NEW f \in Files, NEW k \in 1 .. Len(Named(c, f))
             PROVE  /\ Fat(w, Named(c, f)[k]) # Free
                    /\ \A i \in Owners : \A l \in 1 .. Len(Chain(w, g[i])) :
                         Named(c, f)[k] = Chain(w, g[i])[l] => (i = f /\ k = l) \/ (i = NoFile /\ b)
  BY DEF Agreed
<1>1. Named(c, f)[k] \in Clusters
  OBVIOUS
<1>2. Fat(v, Named(c, f)[k]) # Free
  BY DEF Agreed
<1>3. ASSUME NEW i \in Owners, NEW l \in 1 .. Len(Chain(w, g[i])), Named(c, f)[k] = Chain(w, g[i])[l]
      PROVE  (i = f /\ k = l) \/ (i = NoFile /\ b)
  <2>1. g[i] \in Clusters
    <3>1. g[i] \notin Clusters => Len(Chain(w, g[i])) = 0
      BY NoChain
    <3> QED BY <3>1
  <2>2. Chain(w, g[i]) = Chain(v, h[i])
    BY <2>1, SameTable
  <2>3. (i = f /\ k = l) \/ (i = NoFile /\ e)
    BY <1>3, <2>2 DEF Agreed
  <2> QED BY <2>1, <2>3
<1> QED BY <1>1, <1>2, <1>3

(* A free cluster is taken: no file has it. *)
LEMMA AgreedAlloc ==
  ASSUME NEW c, NEW v, NEW h, NEW n, NEW w, NEW g, Allocates(v, h, n, w, g),
         Agreed(c, v, h, FALSE), \A f \in Files : Named(c, f) \in Seq(Clusters)
  PROVE  Agreed(c, w, g, FALSE)
<1> SUFFICES ASSUME NEW f \in Files, NEW k \in 1 .. Len(Named(c, f))
             PROVE  /\ Fat(w, Named(c, f)[k]) # Free
                    /\ \A i \in Owners : \A l \in 1 .. Len(Chain(w, g[i])) :
                         Named(c, f)[k] = Chain(w, g[i])[l] => i = f /\ k = l
  BY DEF Agreed
<1>1. Named(c, f)[k] \in Clusters /\ Fat(v, Named(c, f)[k]) # Free
  BY DEF Agreed
<1>2. Named(c, f)[k] # n /\ Fat(w, Named(c, f)[k]) # Free
  BY <1>1 DEF Allocates
<1>3. Chain(w, g[NoFile]) = <<n>> /\ \A i \in Files : Chain(w, g[i]) = Chain(v, h[i])
  <2>1. Chain(w, n) = <<n>> /\ \A i \in Files : Chain(w, g[i]) = Chain(v, h[i])
    BY Allocated
  <2>2. g[NoFile] = n
    BY DEF Allocates
  <2> QED BY <2>1, <2>2
<1>4. ASSUME NEW i \in Owners, NEW l \in 1 .. Len(Chain(w, g[i])), Named(c, f)[k] = Chain(w, g[i])[l]
      PROVE  i = f /\ k = l
  <2>1. i # NoFile
    <3>1. \A m \in 1 .. Len(<<n>>) : <<n>>[m] = n
      OBVIOUS
    <3> QED BY <1>2, <1>3, <1>4, <3>1
  <2>2. i \in Files
    BY <2>1 DEF Owners
  <2> QED BY <1>3, <1>4, <2>2 DEF Agreed
<1> QED BY <1>1, <1>2, <1>4

(* The loose cluster n is linked: no file has it either. *)
LEMMA AgreedLink ==
  ASSUME NEW cd, NEW v, NEW h, NEW f, NEW n, NEW k, NEW c, NEW w, NEW g, Lengthens(v, h, f, n, k, c, w, g),
         Agreed(cd, v, h, FALSE), \A i \in Files : Named(cd, i) \in Seq(Clusters)
  PROVE  /\ Agreed(cd, w, g, FALSE)
         /\ \A i \in Files : \A j \in 1 .. Len(Named(cd, i)) : Named(cd, i)[j] # n
<1>1. /\ Linked(v, h) /\ f \in Files /\ n \in Clusters /\ h[NoFile] = n /\ Chain(v, n) = <<n>>
      /\ \A d \in Clusters : Fat(w, d) = IF d = c THEN n ELSE Fat(v, d)
      /\ g[NoFile] \notin Clusters /\ \A i \in Files : g[i] = h[i]
  BY DEF Lengthens
<1>2. /\ k = Len(Chain(v, h[f])) /\ Chain(w, h[f]) = Append(Chain(v, h[f]), n)
      /\ \A i \in Files \ {f} : Chain(w, g[i]) = Chain(v, h[i])
  BY Lengthened
<1>3. n # Free
  BY <1>1 DEF Clusters, Free
<1>4. ASSUME NEW i \in Files, NEW j \in 1 .. Len(Named(cd, i))
      PROVE  Named(cd, i)[j] # n /\ Named(cd, i)[j] \in Clusters /\ Fat(v, Named(cd, i)[j]) # Free
  <2>1. Named(cd, i)[j] \in Clusters /\ Fat(v, Named(cd, i)[j]) # Free
    BY DEF Agreed
  <2>2. 1 \in 1 .. Len(<<n>>) /\ <<n>>[1] = n
    OBVIOUS
  <2>3. NoFile \in Owners /\ i # NoFile
    BY FilesOwn
  <2>4. ASSUME Named(cd, i)[j] = n PROVE FALSE
    <3>1. 1 \in 1 .. Len(Chain(v, h[NoFile])) /\ Chain(v, h[NoFile])[1] = n
      BY <1>1, <2>2
    <3> QED BY <2>3, <2>4, <3>1 DEF Agreed
  <2> QED BY <2>1, <2>4
<1>5. ASSUME NEW i \in Files, NEW j \in 1 .. Len(Named(cd, i)),
             NEW o \in Owners, NEW l \in 1 .. Len(Chain(w, g[o])), Named(cd, i)[j] = Chain(w, g[o])[l]
      PROVE  o = i /\ j = l
  <2>1. o # NoFile
    <3>1. Len(Chain(w, g[NoFile])) = 0
      BY <1>1, NoChain
    <3> QED BY <3>1
  <2>2. o \in Files
    BY <2>1 DEF Owners
  <2>3. CASE o # f
    BY <1>2, <1>5, <2>2, <2>3 DEF Agreed
  <2>4. CASE o = f
    <3>1. Chain(v, h[f]) \in Seq(Clusters)
      BY <1>1, FilesOwn DEF Linked
    <3> DEFINE s == Chain(v, h[f])
    <3> HIDE DEF s
    <3>2. Chain(w, g[o]) = Append(s, n) /\ s \in Seq(Clusters)
      BY <1>1, <1>2, <2>4, <3>1 DEF s
    <3>3. l \in 1 .. Len(s) + 1 /\ Append(s, n)[Len(s) + 1] = n
      BY <1>1, <3>2
    <3>4. l # Len(s) + 1
      BY <1>4, <1>5, <3>2, <3>3
    <3>5. l \in 1 .. Len(s) /\ Append(s, n)[l] = s[l]
      BY <1>1, <3>2, <3>3, <3>4
    <3>6. l \in 1 .. Len(Chain(v, h[o])) /\ Named(cd, i)[j] = Chain(v, h[o])[l]
      BY <1>5, <2>4, <3>2, <3>5 DEF s
    <3> QED BY <3>6 DEF Agreed
  <2> QED BY <2>3, <2>4
<1>6. ASSUME NEW i \in Files, NEW j \in 1 .. Len(Named(cd, i)) PROVE Fat(w, Named(cd, i)[j]) # Free
  BY <1>1, <1>3, <1>4
<1> QED BY <1>4, <1>5, <1>6 DEF Agreed

(* The loose chain becomes the one of the file f. *)
Adopts(h, f, g) ==
  f \in Files /\ g[f] = h[NoFile] /\ g[NoFile] \notin Clusters /\ \A i \in Files \ {f} : g[i] = h[i]

(* the chain from e is nobody's on c *)
Elsewhere(c, v, e) ==
  \A i \in Files : \A k \in 1 .. Len(Named(c, i)), l \in 1 .. Len(Chain(v, e)) : Named(c, i)[k] # Chain(v, e)[l]

LEMMA AgreedAdopt ==
  ASSUME NEW c, NEW v, NEW h, Agreed(c, v, h, FALSE), NEW g, NEW f, Adopts(h, f, g)
  PROVE  /\ Agreed(c, v, g, FALSE)
         /\ Elsewhere(c, v, g[f])
<1> USE DEF Adopts, Elsewhere
<1>1. \A i \in Files : \A k \in 1 .. Len(Named(c, i)) : Fat(v, Named(c, i)[k]) # Free
  BY DEF Agreed
<1>2. ASSUME NEW i \in Files, NEW k \in 1 .. Len(Named(c, i)), NEW l \in 1 .. Len(Chain(v, h[NoFile]))
      PROVE  Named(c, i)[k] # Chain(v, h[NoFile])[l]
  BY FilesOwn DEF Agreed
<1>3. ASSUME NEW i \in Files, NEW k \in 1 .. Len(Named(c, i)),
             NEW o \in Owners, NEW l \in 1 .. Len(Chain(v, g[o])), Named(c, i)[k] = Chain(v, g[o])[l]
      PROVE  o = i /\ k = l
  <2>1. o # NoFile
    <3>1. Len(Chain(v, g[NoFile])) = 0
      BY NoChain
    <3> QED BY <3>1
  <2>2. o # f
    BY <1>2, <1>3
  <2>3. o \in Files \ {f}
    BY <2>1, <2>2 DEF Owners
  <2> QED BY <1>3, <2>3 DEF Agreed
<1> QED BY <1>1, <1>2, <1>3 DEF Agreed

(* The first loose cluster is freed: no file has it. *)
LEMMA AgreedFree ==
  ASSUME NEW cd, NEW v, NEW h, NEW c, NEW w, NEW g, Frees(v, h, c, w, g),
         Agreed(cd, v, h, FALSE), \A f \in Files : Named(cd, f) \in Seq(Clusters)
  PROVE  Agreed(cd, w, g, FALSE)
<1>1. /\ \A i \in Files : Chain(w, g[i]) = Chain(v, h[i])
      /\ Chain(v, c) \in Seq(Clusters) /\ Len(Chain(v, c)) > 0 /\ Chain(v, c)[1] = c
      /\ Chain(w, g[NoFile]) = Tail(Chain(v, c))
  BY Freed
<1>2. ASSUME NEW i \in Files, NEW k \in 1 .. Len(Named(cd, i)), NEW l \in 1 .. Len(Chain(v, c))
      PROVE  Named(cd, i)[k] # Chain(v, c)[l]
  BY FilesOwn DEF Agreed, Frees
<1>3. ASSUME NEW i \in Files, NEW k \in 1 .. Len(Named(cd, i)) PROVE Fat(w, Named(cd, i)[k]) # Free
  <2>1. Named(cd, i)[k] \in Clusters /\ Fat(v, Named(cd, i)[k]) # Free
    BY DEF Agreed
  <2>2. Named(cd, i)[k] # c
    BY <1>1, <1>2
  <2> QED BY <2>1, <2>2 DEF Frees
<1>4. ASSUME NEW i \in Files, NEW k \in 1 .. Len(Named(cd, i)),
             NEW o \in Owners, NEW l \in 1 .. Len(Chain(w, g[o])), Named(cd, i)[k] = Chain(w, g[o])[l]
      PROVE  o = i /\ k = l
  <2>1. o # NoFile
    <3> DEFINE s == Chain(v, c)
    <3>1. s \in Seq(Clusters) /\ Len(s) > 0 /\ Chain(w, g[NoFile]) = Tail(s)
      BY <1>1
    <3>2. \A j \in 1 .. Len(s) : Named(cd, i)[k] # s[j]
      BY <1>2
    <3> HIDE DEF s
    <3>3. \A j \in 1 .. Len(Tail(s)) : Tail(s)[j] = s[j + 1] /\ j + 1 \in 1 .. Len(s)
      BY <3>1
    <3> QED BY <1>4, <3>1, <3>2, <3>3
  <2>2. o \in Files
    BY <2>1 DEF Owners
  <2> QED BY <1>1, <1>4, <2>2 DEF Agreed
<1> QED BY <1>3, <1>4 DEF Agreed

(* The entry of f is emptied in the window, its clusters are to be freed. *)
Cuts(v, h, f, w, g) ==
  /\ \A d \in Clusters : Fat(w, d) = Fat(v, d)
  /\ f \in Files /\ g[f] \notin Clusters /\ \A i \in Files \ {f} : g[i] = h[i]

LEMMA AgreedCut ==
  ASSUME NEW c, NEW v, NEW h, NEW f, NEW w, NEW g, Cuts(v, h, f, w, g),
         Agreed(c, v, h, FALSE), \A i \in Files : Named(c, i) \in Seq(Clusters)
  PROVE  Agreed(c, w, g, TRUE)
<1> USE DEF Cuts
<1>1. ASSUME NEW i \in Files, NEW k \in 1 .. Len(Named(c, i)) PROVE Fat(w, Named(c, i)[k]) # Free
  <2>1. Named(c, i)[k] \in Clusters /\ Fat(v, Named(c, i)[k]) # Free
    BY DEF Agreed
  <2> QED BY <2>1
<1>2. ASSUME NEW i \in Files, NEW k \in 1 .. Len(Named(c, i)), NEW o \in Owners, o # NoFile,
             NEW l \in 1 .. Len(Chain(w, g[o])), Named(c, i)[k] = Chain(w, g[o])[l]
      PROVE  o = i /\ k = l
  <2>1. o # f
    <3>1. Len(Chain(w, g[f])) = 0
      BY NoChain
    <3> QED BY <1>2, <3>1
  <2>2. o \in Files \ {f}
    BY <1>2, <2>1 DEF Owners
  <2>3. Chain(w, g[o]) = Chain(v, h[o])
    BY <2>2, SameTable
  <2> QED BY <1>2, <2>2, <2>3 DEF Agreed
<1> QED BY <1>1, <1>2 DEF Agreed

-----------------------------------------------------------------------------
(* The chains that the directory of the card, or of the window, names. *)
LEMMA EntryFirst ==
  ASSUME Inv, NEW f \in Files
  PROVE  /\ Volume[Dir][f].sclust \in Clusters => Volume[Dir][f].sclust = Firsts[f]
         /\ Named(card, f) \in Seq(Clusters) /\ Named(Volume, f) \in Seq(Clusters)
         /\ IsChain(Volume, Named(Volume, f), Volume[Dir][f].sclust)
<1>1. Types /\ Calls /\ Chains /\ f \in Owners /\ f # NoFile /\ 0 \notin Clusters
  BY FilesOwn DEF Inv, Clusters
<1>2. Volume[Dir][f].sclust \in Clusters => Volume[Dir][f].sclust = Firsts[f]
  BY <1>1 DEF Chains, EntryOK, Firsts, First
<1>3. Named(card, f) \in Seq(Clusters)
  <2>1. Linked(card, [i \in Owners |-> IF i = NoFile THEN 0 ELSE card[Dir][i].sclust])
    BY <1>1, FromOrder DEF Chains
  <2> QED BY <1>1, <2>1 DEF Linked, Named
<1>4. Named(Volume, f) \in Seq(Clusters) /\ IsChain(Volume, Named(Volume, f), Volume[Dir][f].sclust)
  <2>1. Linked(Volume, [i \in Owners |-> IF i = NoFile THEN 0 ELSE Volume[Dir][i].sclust])
    BY <1>1, NamedLinked
  <2> QED BY <1>1, <2>1 DEF Linked, Named
<1> QED BY <1>2, <1>3, <1>4

LEMMA AgreedBoth ==
  ASSUME Inv, Agree
  PROVE  /\ Agreed(Volume, Volume, Firsts, FALSE) /\ Agreed(card, Volume, Firsts, Truncated)
         /\ ~Truncated => Agreed(card, Volume, Firsts, FALSE)
<1>1. Linked(Volume, Firsts)
  BY DEF Inv, Chains
<1>2. \A f \in Files : Volume[Dir][f].sclust \in Clusters => Volume[Dir][f].sclust = Firsts[f]
  BY EntryFirst
<1>3. Agreed(Volume, Volume, Firsts, FALSE)
  BY <1>1, <1>2, AgreedSelf
<1> QED BY <1>3 DEF Agree, Agreed

LEMMA FirstsStay ==
  ASSUME Inv, Volume'[Dir] = Volume[Dir], Loose' \in {0, Loose},
         IsOpen' => \/ IsOpen /\ op'.file = op.file /\ fp'.sclust = fp.sclust
                    \/ fp'.sclust = Volume[Dir][op'.file].sclust
  PROVE  \A i \in Owners : First(i)' = First(i) \/ First(i)' \notin Clusters
<1>1. 0 \notin Clusters /\ EntryOK
  BY DEF Inv, Chains, Clusters
<1>2. ASSUME NEW i \in Files PROVE First(i)' = First(i) \/ First(i)' = 0
  <2>1. i # NoFile
    BY FilesOwn
  <2>2. First(i)' = (IF IsOpen' /\ i = op'.file THEN fp'.sclust ELSE Volume[Dir][i].sclust)
    BY <2>1 DEF First
  <2>3. Volume[Dir][i].sclust = First(i) \/ Volume[Dir][i].sclust = 0
    BY <1>1, <2>1 DEF First, EntryOK
  <2>4. IsOpen /\ i = op.file => First(i) = fp.sclust
    BY <2>1 DEF First
  <2> QED BY <2>2, <2>3, <2>4
<1>3. First(NoFile)' = Loose' /\ First(NoFile) = Loose
  BY DEF First
<1> QED BY <1>1, <1>2, <1>3 DEF Owners

LEMMA AgreeSteady ==
  ASSUME Inv, Agree, card' \in {card, Volume}, \A d \in Clusters : Fat(Volume', d) = Fat(Volume, d),
         \A i \in Owners : First(i)' = First(i) \/ First(i)' \notin Clusters,
         Truncated => card' = Volume \/ Loose' = 0 \/ Truncated'
  PROVE  Agree'
<1>1. \A i \in Owners : Firsts'[i] = First(i)' /\ Firsts[i] = First(i)
  BY DEF Firsts
<1>2. \A i \in Owners : Firsts'[i] = Firsts[i] \/ Firsts'[i] \notin Clusters
  BY <1>1
<1>3. Loose' = 0 => Firsts'[NoFile] \notin Clusters
  BY <1>1, FilesOwn DEF First, Clusters
<1>4. \A f \in Files : Named(card, f) \in Seq(Clusters) /\ Named(Volume, f) \in Seq(Clusters)
  BY EntryFirst
<1>5. Agreed(Volume, Volume, Firsts, FALSE) /\ Agreed(card, Volume, Firsts, Truncated)
  BY AgreedBoth
<1>6. Agree' = Agreed(card', Volume', Firsts', Truncated')
  BY DEF Agree
<1>7. CASE card' = Volume
  <2>1. Agreed(Volume, Volume', Firsts', Truncated')
    BY <1>2, <1>4, <1>5, AgreedSteady
  <2> QED BY <1>6, <1>7, <2>1
<1>8. CASE card' = card /\ card' # Volume
  <2>1. Truncated => Truncated' \/ Firsts'[NoFile] \notin Clusters
    BY <1>3, <1>8
  <2>2. Agreed(card, Volume', Firsts', Truncated')
    BY <1>2, <1>4, <1>5, <2>1, AgreedSteady
  <2> QED BY <1>6, <1>8, <2>2
<1> QED BY <1>7, <1>8

(* A step after which card and volume are what they were, or the same. *)
LEMMA StoredSteady ==
  ASSUME Types, Stored, card' \in {card, Volume}, Volume' = Volume, data' = data, saved' = saved, Agree'
  PROVE  Stored'
<1>1. SavedOK' /\ KeptOn(Volume, data, saved)'
  BY DEF Stored, SavedOK
<1>2. KeptOn(card, data, saved)'
  BY DEF Stored
<1>3. Grows'
  <2>1. \A f \in Images : Volume[Dir][f].size \in Nat
    BY VolumeNow DEF EntrySet, Files
  <2> QED BY <2>1 DEF Stored, Grows
<1> QED BY <1>1, <1>2, <1>3 DEF Stored

LEMMA StoredSame ==
  ASSUME Inv, Stored, Same, data' = data, saved' = saved, Loose' \in {0, Loose}, pc = "remove" => Loose' = 0,
         IsOpen' => \/ IsOpen /\ op'.file = op.file /\ fp'.sclust = fp.sclust
                    \/ fp'.sclust = Volume[Dir][op'.file].sclust
  PROVE  Stored'
<1>1. card' \in {card, Volume} /\ Volume' = Volume /\ Types
  BY DEF Same, Inv
<1>2. \A i \in Owners : First(i)' = First(i) \/ First(i)' \notin Clusters
  BY <1>1, FirstsStay
<1>3. Agree'
  <2>1. Truncated => Loose' = 0
    BY DEF Truncated
  <2>2. \A d \in Clusters : Fat(Volume', d) = Fat(Volume, d)
    BY <1>1
  <2> QED BY <1>1, <1>2, <2>1, <2>2, AgreeSteady DEF Stored
<1> QED BY <1>1, <1>3, StoredSteady

-----------------------------------------------------------------------------
(* What the operation under way keeps up. *)
LEMMA DoingIdle ==
  ASSUME pc' = "idle", op' = NoOp
  PROVE  Doing'
<1>1. pc' \notin Working /\ pc' \notin Closing /\ pc' \notin Creating /\ ~Writes' /\ op'.kind = "none"
  BY DEF Working, Closing, Creating, Writes, NoOp
<1>2. OpenKept' /\ Fresh' /\ Widened' /\ Written' /\ Reading'
  BY <1>1 DEF OpenKept, Fresh, Widened, Written, Reading
<1>3. Pointer'
  BY <1>1 DEF Pointer, OnTheWay, ToTransfer
<1> QED BY <1>2, <1>3 DEF Doing

LEMMA DoingRead ==
  ASSUME op'.kind = "read", Pointer', Reading'
  PROVE  Doing'
BY DEF Doing, OpenKept, Fresh, Widened, Written, Writes

LEMMA WidenedSteady ==
  ASSUME Types, Calls, pc # "idle", Widened, saved' = saved, op'.kind = op.kind, op'.file = op.file, op'.pos = op.pos,
         op'.val = op.val, Volume[Dir][op.file].size <= Volume'[Dir][op.file].size,
         Volume'[Dir][op.file].size \in Nat
  PROVE  Widened'
<1>1. op.pos \in Nat /\ Volume[Dir][op.file].size \in Nat
  BY VolumeNow DEF Types, Requests, Calls, EntrySet
<1> QED BY <1>1 DEF Widened, Writes

LEMMA OpenSteady ==
  ASSUME Inv, SavedOK, OpenKept, Widened, IsOpen, saved' = saved, op'.kind = op.kind, op'.file = op.file,
         Volume'[Dir] = Volume[Dir], Own' = Own, View' = View, View \in [Clusters -> [Records -> Values]],
         fp'.objsize \in Nat, fp.objsize <= fp'.objsize, fp'.objsize = fp.objsize \/ fp'.objsize <= op.pos
  PROVE  OpenKept'
<1>1. Types /\ Calls /\ Chains /\ op.file \in Files
  BY DEF Inv, Calls, IsOpen, Working, Creating, Closing
<1>2. SUFFICES ASSUME Writes
               PROVE  /\ Volume[Dir][op.file].size <= fp'.objsize
                      /\ Holds(Own, View, fp'.objsize, saved[op.file])
  BY DEF OpenKept, Writes
<1>3. Volume[Dir][op.file].size \in Nat /\ fp.objsize \in Nat /\ op.pos \in Nat
  BY <1>1, VolumeNow DEF EntrySet, Types, FileObjects, Requests
<1>4. Volume[Dir][op.file].size <= fp.objsize /\ Holds(Own, View, fp.objsize, saved[op.file])
  BY <1>2 DEF OpenKept
<1>5. Volume[Dir][op.file].size <= fp'.objsize
  BY <1>3, <1>4
<1>6. CASE fp'.objsize = fp.objsize
  BY <1>4, <1>5, <1>6
<1>7. CASE fp'.objsize <= op.pos
  <2> DEFINE sv == saved[op.file]
  <2>1. sv.least \in Nat /\ sv.recs \in Seq(SUBSET Values)
    BY <1>1 DEF SavedOK
  <2>2. op.pos < Len(sv.recs) /\ \A i \in 1 .. op.pos : i > Volume[Dir][op.file].size => sv.recs[i] = Values
    BY <1>2 DEF Widened
  <2>3. Own \in Seq(Clusters)
    BY <1>1, OwnChain
  <2> HIDE DEF sv
  <2>4. Len(sv.recs) \in Nat
    BY <2>1
  <2>5. \A i \in 1 .. fp'.objsize : i > fp.objsize => sv.recs[i] = Values
    BY <1>3, <1>4, <1>7, <2>2
  <2>6. fp'.objsize <= Len(sv.recs)
    BY <1>3, <1>7, <2>2, <2>4
  <2>7. Holds(Own, View, fp.objsize, sv)
    BY <1>4 DEF sv
  <2>8. Holds(Own, View, fp'.objsize, sv)
    BY <1>3, <2>1, <2>3, <2>5, <2>6, <2>7, HoldsMore
  <2> QED BY <1>5, <2>8 DEF sv
<1> QED BY <1>6, <1>7

LEMMA FreshSteady ==
  ASSUME Inv, Fresh, saved' = saved, op'.kind = op.kind, card' \in {card, Volume}, Own' = Own,
         IsOpen' /\ pc' # "sync" => IsOpen /\ pc # "sync" /\ Volume'[Dir] = Volume[Dir]
  PROVE  Fresh'
<1>1. SUFFICES ASSUME op.kind = "save", IsOpen', pc' # "sync"
               PROVE  Volume'[Dir][Conf] = Empty /\ Apart(Named(card', Conf), Own)
  BY DEF Fresh
<1>2. Volume[Dir][Conf] = Empty /\ Apart(Named(card, Conf), Own) /\ Volume'[Dir] = Volume[Dir]
  BY <1>1 DEF Fresh
<1>3. Apart(Named(Volume, Conf), Own)
  <2>1. Len(Named(Volume, Conf)) = 0
    BY <1>2, NoChain DEF Named, Empty, Clusters
  <2> QED BY <2>1 DEF Apart
<1> QED BY <1>2, <1>3

(* The file stays open, nothing that counts changes but its size. *)
Continuing ==
  /\ Same /\ data' = data /\ saved' = saved /\ pc \in Working
  /\ op'.kind = op.kind /\ op'.file = op.file /\ op'.pos = op.pos
  /\ fp'.sclust = fp.sclust /\ fp' \in FileObjects
  /\ op.kind # "read" => op'.val = op.val /\ ~fp'.dirty

LEMMA GoesOn ==
  ASSUME Inv, FilesOK, Continuing, Loose' \in {0, Loose}, op.kind # "read", 
         fp.objsize <= fp'.objsize, fp'.objsize = fp.objsize \/ fp'.objsize <= op.pos
  PROVE  Stored' /\ OpenKept' /\ Fresh' /\ Widened' /\ Own' = Own /\ View' = data
<1>1. Types /\ Calls /\ Chains /\ IsOpen /\ pc # "sync" /\ pc # "remove" /\ pc # "idle" /\ Writes /\ op.file \in Files
  <2>1. pc # "sync" /\ pc # "remove" /\ pc # "idle"
    BY DEF Continuing, Working, Creating
  <2>2. op.kind \in {"none", "read", "write", "save"} /\ op.kind # "none"
    BY <2>1 DEF Inv, Types, Requests, Calls
  <2> QED BY <2>1, <2>2 DEF Inv, Calls, IsOpen, Continuing, Writes
<1>2. Volume' = Volume /\ card' \in {card, Volume} /\ Own' = Own
  BY DEF Continuing, Same, Own
<1>3. ~fp.dirty /\ View = data /\ View' = data
  BY <1>1 DEF FilesOK, Doing, Pointer, Continuing, View
<1>4. Stored'
  BY <1>1, StoredSame DEF Continuing, FilesOK
<1>5. data \in [Clusters -> [Records -> Values]] /\ fp'.objsize \in Nat
  BY <1>1 DEF Types, Continuing, FileObjects
<1>6. OpenKept'
  BY <1>1, <1>2, <1>3, <1>5, OpenSteady DEF Continuing, FilesOK, Doing, Stored
<1>7. Fresh'
  BY <1>1, <1>2, FreshSteady DEF Continuing, FilesOK, Doing
<1>8. Widened'
  <2>1. Volume[Dir][op.file].size \in Nat
    BY <1>1, VolumeNow DEF EntrySet
  <2> QED BY <1>1, <1>2, <2>1, WidenedSteady DEF Continuing, FilesOK, Doing
<1> QED BY <1>2, <1>3, <1>4, <1>6, <1>7, <1>8

-----------------------------------------------------------------------------
(* create_chain() ends without having allocated a cluster. *)
LEMMA ReturnKept ==
  ASSUME Inv, FilesOK, Same, pc \in Creating, UNCHANGED <<data, fp, saved>>,
         NEW res, Return(res),
         res = NoSpace => Full /\ (x.clst # 0 => Fat(Volume, x.clst) = EOC),
         Valid(res) => fp.sclust # 0 /\ Valid(Fat(Volume, fp.clust))
  PROVE  FilesOK'
<1>1. Types /\ Calls /\ Chains
  BY DEF Inv
<1>2. /\ op' = op /\ pc' = x.ret /\ x'.ofs = x.ofs /\ x'.res = res /\ data' = data /\ fp' = fp /\ saved' = saved
      /\ fp \in FileObjects
  BY <1>1 DEF Return, Goto, NoLocals, Types
<1>3. /\ x.ret \in {"first", "sought", "fill"} /\ op.kind # "read" /\ pc \in Working /\ Writes /\ op.kind # "none"
      /\ (x.clst = 0 => x.ret # "sought") /\ (x.clst # 0 => x.clst = fp.clust)
  BY <1>1 DEF Calls, Working, Chains, PlaceOK, Creating, Types, Requests, Writes
<1>4. Pointer /\ ~fp.dirty /\ fp.fptr <= fp.objsize /\ pc' \in Working
  BY <1>2, <1>3 DEF FilesOK, Doing, Pointer, Working
<1>5. Continuing
  BY <1>2, <1>3, <1>4 DEF Continuing
<1>6. Loose' \in {0, Loose}
  BY <1>1, <1>2, <1>3 DEF Loose, Valid, Creating, FilesOK
<1>7. Stored' /\ OpenKept' /\ Fresh' /\ Widened' /\ Volume' = Volume
  <2>1. fp.objsize <= fp'.objsize /\ fp'.objsize = fp.objsize
    BY <1>2 DEF FileObjects
  <2> QED BY <1>3, <1>5, <1>6, <2>1, GoesOn DEF Same
<1>8. Pointer'
  <2>1. x.ret # "fill" => fp.fptr + x.ofs <= op.pos /\ (op.kind = "write" => fp.fptr + x.ofs = op.pos)
    BY <1>4 DEF Pointer, OnTheWay
  <2>2. x.ret = "fill" /\ Valid(res) => fp.fptr = op.pos
    BY <1>3, <1>4 DEF Pointer, ToTransfer, Aimed, AtFirst, Valid, EOC, Clusters
  <2>3. res = NoSpace => Full' /\ (x.ret = "sought" => Fat(Volume', fp.clust) = EOC)
    BY <1>3, <1>7 DEF Full
  <2>4. pc' \notin Creating /\ pc' # "seek" /\ pc' # "search" /\ pc' # "transfer" /\ pc' # "link"
    BY <1>2, <1>3 DEF Creating
  <2> QED BY <1>2, <1>3, <1>4, <2>1, <2>2, <2>3, <2>4 DEF Pointer, OnTheWay, ToTransfer
<1>9. Written' /\ Reading'
  BY <1>2, <1>3 DEF Written, Reading, Closing
<1> QED BY <1>7, <1>8, <1>9 DEF FilesOK, Doing

(* create_chain() goes on. *)
LEMMA ProceedKept ==
  ASSUME Inv, FilesOK, Same, pc \in {"stretch", "next", "search"}, UNCHANGED <<data, fp, op, saved>>,
         x'.ofs = x.ofs, x'.clst = x.clst, x'.ret = x.ret, pc' \in {"next", "search", "alloc"},
         pc' = "search" => \A c \in Examined' : Fat(Volume, c) # Free
  PROVE  FilesOK'
<1>1. Types /\ Calls /\ Chains
  BY DEF Inv
<1>2. /\ op' = op /\ data' = data /\ fp' = fp /\ saved' = saved /\ fp \in FileObjects
      /\ pc \in Creating /\ pc' \in Creating /\ pc \in Working /\ pc' \in Working
  BY <1>1 DEF Types, Creating, Working
<1>3. op.kind # "read" /\ Writes
  BY <1>1, <1>2 DEF Calls, Creating, Types, Requests, Writes
<1>4. Pointer /\ ~fp.dirty /\ fp.fptr <= fp.objsize
  BY <1>2, <1>3 DEF FilesOK, Doing, Pointer, Working
<1>5. Continuing
  BY <1>2, <1>3, <1>4 DEF Continuing
<1>6. Loose' = 0
  BY DEF Loose
<1>7. Stored' /\ OpenKept' /\ Fresh' /\ Widened' /\ Volume' = Volume
  <2>1. fp.objsize <= fp'.objsize /\ fp'.objsize = fp.objsize
    BY <1>2 DEF FileObjects
  <2> QED BY <1>3, <1>5, <1>6, <2>1, GoesOn DEF Same
<1>8. Pointer'
  <2>1. OnTheWay' = OnTheWay /\ ToTransfer' = ToTransfer /\ Aimed' = Aimed /\ Writes' = Writes
    BY <1>2, <1>7 DEF OnTheWay, ToTransfer, Aimed, Writes, OnBoundary, Full, AtFirst, Creating
  <2> QED BY <1>2, <1>3, <1>4, <1>7, <2>1 DEF Pointer
<1>9. Written' /\ Reading'
  BY <1>2, <1>3 DEF Written, Reading, Closing
<1> QED BY <1>7, <1>8, <1>9 DEF FilesOK, Doing

LEMMA StretchKept ==
  ASSUME Inv, FilesOK, Stretch
  PROVE  FilesOK'
<1>1. Types /\ Calls /\ Chains
  BY DEF Inv
<1>2. /\ pc = "stretch" /\ UNCHANGED <<data, fp, saved>>
      /\ x.clst \in Clusters /\ x.clst = fp.clust /\ Behind(x.clst)
  BY <1>1 DEF Stretch, Look, Calls, Chains, PlaceOK, Creating, Clusters
<1>3. PICK m \in move_window(FatSector(x.clst)) :
        /\ Window(m, m.win)
        /\ IF m.ok
             THEN IF get_fat(m, x.clst) = Free THEN Return(Broken)
                  ELSE IF Valid(get_fat(m, x.clst)) THEN Return(get_fat(m, x.clst))
                  ELSE UNCHANGED x /\ Goto("next")
             ELSE Return(Broken)
  BY DEF Stretch, Look
<1>4. Same
  BY <1>1, <1>2, <1>3, Glimpsed, SectorNumbers
<1>5. ~Valid(Broken) /\ Broken # NoSpace
  BY DEF Valid, Broken, Clusters, NoSpace
<1>6. CASE Return(Broken)
  BY <1>2, <1>4, <1>5, <1>6, ReturnKept DEF Creating
<1>7. CASE m.ok /\ Valid(get_fat(m, x.clst)) /\ Return(get_fat(m, x.clst))
  <2>1. get_fat(m, x.clst) = Fat(Volume, x.clst)
    BY <1>1, <1>2, <1>7, TableRead
  <2>2. get_fat(m, x.clst) # NoSpace /\ fp.sclust # 0
    BY <1>2, <1>7 DEF Valid, NoSpace, Clusters, Behind
  <2> QED BY <1>2, <1>4, <1>7, <2>1, <2>2, ReturnKept DEF Creating
<1>8. CASE UNCHANGED x /\ Goto("next")
  BY <1>2, <1>4, <1>8, ProceedKept DEF Goto
<1> QED BY <1>3, <1>6, <1>7, <1>8

LEMMA TryNextKept ==
  ASSUME Inv, FilesOK, TryNext
  PROVE  FilesOK'
<1>1. Types /\ Calls /\ Chains
  BY DEF Inv
<1>2. pc = "next" /\ UNCHANGED <<data, fp, saved>> /\ x \in Locals /\ x.clst \in Clusters
  BY <1>1 DEF TryNext, Look, Calls, Creating, Types
<1> DEFINE ncl == IF x.clst = LastCluster THEN 2 ELSE x.clst + 1
           start == IF Valid(last_clst) THEN last_clst ELSE x.scl
<1>3. ncl \in Clusters /\ start \in 0 .. LastCluster
  BY <1>1, <1>2, VolumeAssumption DEF Clusters, Types, Locals, Valid
<1>4. PICK m \in move_window(FatSector(ncl)) :
        /\ Window(m, m.win)
        /\ IF m.ok
             THEN IF get_fat(m, ncl) = Free THEN x' = [x EXCEPT !.ncl = ncl] /\ Goto("alloc")
                  ELSE x' = [x EXCEPT !.scl = start, !.ncl = start] /\ Goto("search")
             ELSE Return(Broken)
  BY DEF TryNext, Look
<1> HIDE DEF ncl, start
<1>5. Same
  BY <1>1, <1>3, <1>4, Glimpsed, SectorNumbers
<1>6. ~Valid(Broken) /\ Broken # NoSpace
  BY DEF Valid, Broken, Clusters, NoSpace
<1>7. CASE Return(Broken)
  BY <1>2, <1>5, <1>6, <1>7, ReturnKept DEF Creating
<1>8. CASE x' = [x EXCEPT !.ncl = ncl] /\ Goto("alloc")
  <2>1. x'.ofs = x.ofs /\ x'.clst = x.clst /\ x'.ret = x.ret /\ pc' = "alloc" /\ op' = op
    BY <1>2, <1>8 DEF Locals, Goto
  <2> QED BY <1>2, <1>5, <2>1, ProceedKept
<1>9. CASE x' = [x EXCEPT !.scl = start, !.ncl = start] /\ Goto("search")
  <2>1. /\ x'.ofs = x.ofs /\ x'.clst = x.clst /\ x'.ret = x.ret /\ pc' = "search" /\ op' = op
        /\ x'.ncl = start /\ x'.scl = start
    BY <1>2, <1>9 DEF Locals, Goto
  <2>2. Examined' = {}
    BY <1>3, <2>1 DEF Examined, Clusters
  <2> QED BY <1>2, <1>5, <2>1, <2>2, ProceedKept
<1> QED BY <1>4, <1>7, <1>8, <1>9

LEMMA SearchKept ==
  ASSUME Inv, FilesOK, Search
  PROVE  FilesOK'
<1>1. Types /\ Calls /\ Chains
  BY DEF Inv
<1>2. /\ pc = "search" /\ UNCHANGED <<data, fp, saved>> /\ x \in Locals /\ x.ncl > 0 /\ x.scl > 0
      /\ (x.clst # 0 => Fat(Volume, x.clst) = EOC)
  BY <1>1 DEF Search, Look, Calls, Chains, PlaceOK, Creating, Types, ghosts
<1>3. \A c \in Examined : Fat(Volume, c) # Free
  BY <1>2 DEF FilesOK, Doing, Pointer
<1> DEFINE wraps == x.ncl = LastCluster
           ncl == IF wraps THEN 2 ELSE x.ncl + 1
<1>4. ncl \in Clusters /\ x.ncl \in 0 .. LastCluster /\ x.scl \in 0 .. LastCluster /\ LastCluster \in Nat /\ LastCluster >= 2
  BY <1>2, VolumeAssumption DEF Clusters, Locals
<1>5. ~Valid(NoSpace) /\ ~Valid(Broken) /\ NoSpace # Broken
  BY DEF Valid, NoSpace, Broken, Clusters
<1>6. CASE wraps /\ ncl > x.scl
  <2>1. Return(NoSpace) /\ UNCHANGED <<card, win, faults>>
    BY <1>6 DEF Search, ghosts
  <2>2. Full
    <3>1. Clusters \subseteq Examined
      BY <1>2, <1>4, <1>6 DEF Examined, Clusters
    <3> QED BY <1>3, <3>1 DEF Full
  <2> HIDE DEF wraps, ncl
  <2>3. Same
    BY <1>1, <2>1, Unmoved
  <2> QED BY <1>2, <1>5, <2>1, <2>2, <2>3, ReturnKept DEF Creating
<1>7. CASE ~(wraps /\ ncl > x.scl)
  <2>1. PICK m \in move_window(FatSector(ncl)) :
          /\ Window(m, m.win)
          /\ IF m.ok
               THEN IF get_fat(m, ncl) = Free THEN x' = [x EXCEPT !.ncl = ncl] /\ Goto("alloc")
                    ELSE IF ncl = x.scl THEN Return(NoSpace)
                    ELSE x' = [x EXCEPT !.ncl = ncl] /\ Goto("search")
               ELSE Return(Broken)
    BY <1>7 DEF Search, Look
  <2>2. ncl = x.scl => Clusters \subseteq Examined \cup {ncl}
    BY <1>2, <1>4, <1>7 DEF Examined, Clusters
  <2>3. ASSUME ncl # x.scl, x'.ncl = ncl, x'.scl = x.scl PROVE Examined' \subseteq Examined \cup {ncl}
    BY <1>2, <1>4, <1>7, <2>3 DEF Examined, Clusters
  <2> HIDE DEF wraps, ncl
  <2>4. Same
    BY <1>1, <1>4, <2>1, Glimpsed, SectorNumbers
  <2>5. CASE ~m.ok
    BY <1>2, <1>5, <2>1, <2>4, <2>5, ReturnKept DEF Creating
  <2>6. CASE m.ok
    <3>1. get_fat(m, ncl) = Fat(Volume, ncl)
      BY <1>1, <1>4, <2>6, TableRead
    <3>2. CASE Fat(Volume, ncl) = Free
      <4>1. x'.ofs = x.ofs /\ x'.clst = x.clst /\ x'.ret = x.ret /\ pc' = "alloc" /\ op' = op
        BY <1>2, <2>1, <2>6, <3>1, <3>2 DEF Locals, Goto
      <4> QED BY <1>2, <2>4, <4>1, ProceedKept
    <3>3. CASE Fat(Volume, ncl) # Free /\ ncl = x.scl
      <4>1. Full
        BY <1>3, <2>2, <3>3 DEF Full
      <4>2. Return(NoSpace)
        BY <2>1, <2>6, <3>1, <3>3
      <4> QED BY <1>2, <1>5, <2>4, <4>1, <4>2, ReturnKept DEF Creating
    <3>4. CASE Fat(Volume, ncl) # Free /\ ncl # x.scl
      <4>1. /\ x'.ofs = x.ofs /\ x'.clst = x.clst /\ x'.ret = x.ret /\ pc' = "search" /\ op' = op
            /\ x'.ncl = ncl /\ x'.scl = x.scl
        BY <1>2, <2>1, <2>6, <3>1, <3>4 DEF Locals, Goto
      <4>2. \A c \in Examined' : Fat(Volume, c) # Free
        BY <1>3, <2>3, <3>4, <4>1
      <4> QED BY <1>2, <2>4, <4>1, <4>2, ProceedKept
    <3> QED BY <3>2, <3>3, <3>4
  <2> QED BY <2>5, <2>6
<1> QED BY <1>6, <1>7

-----------------------------------------------------------------------------
(* create_chain() allocates a cluster, and links it. *)
LEMMA AgreedWeaker ==
  ASSUME NEW c, NEW v, NEW h, Agreed(c, v, h, FALSE), NEW e
  PROVE  Agreed(c, v, h, e)
BY DEF Agreed

(* The table changes, but the chains of the files do not. *)
LEMMA SameNames ==
  ASSUME Inv, Volume'[Dir] = Volume[Dir], \A f \in Files : Chain(Volume', Firsts[f]) = Chain(Volume, Firsts[f])
  PROVE  \A f \in Files : Named(Volume', f) = Named(Volume, f)
<1> TAKE f \in Files
<1>1. CASE Volume[Dir][f].sclust \in Clusters
  BY <1>1, EntryFirst DEF Named
<1>2. CASE Volume[Dir][f].sclust \notin Clusters
  BY <1>2, NoChain DEF Named
<1> QED BY <1>1, <1>2

LEMMA StoredMoved ==
  ASSUME Inv, Stored, card' \in {card, Volume}, Volume'[Dir] = Volume[Dir], data' = data, saved' = saved,
         \A f \in Files : Chain(Volume', Firsts[f]) = Chain(Volume, Firsts[f]), Agree'
  PROVE  Stored'
<1>1. Types /\ SavedOK'
  BY DEF Stored, SavedOK, Inv
<1>2. \A f \in Files : Named(Volume', f) = Named(Volume, f)
  BY SameNames
<1>3. KeptOn(Volume', data', saved') /\ KeptOn(card', data', saved')
  BY <1>2 DEF Stored, KeptOn
<1>4. Grows'
  <2>1. \A f \in Images : Volume[Dir][f].size \in Nat
    BY <1>1, VolumeNow DEF EntrySet, Files
  <2> QED BY <2>1 DEF Stored, Grows
<1> QED BY <1>1, <1>3, <1>4 DEF Stored

LEMMA AllocatedKept ==
  ASSUME Inv, FilesOK, pc = "alloc", data' = data, fp' = fp, op' = op, saved' = saved,
         NEW m \in move_window(FatSector(x.ncl)), m.ok, Window(m, Put(m.win, x.ncl, EOC)),
         \/ x.clst = 0 /\ pc' = x.ret
              /\ x' = [ofs |-> x.ofs, clst |-> 0, ncl |-> 0, scl |-> 0, ret |-> "none", res |-> x.ncl]
         \/ x.clst # 0 /\ pc' = "link" /\ x' = x
  PROVE  FilesOK'
<1>1. Types /\ Calls /\ Chains
  BY DEF Inv
<1>2. /\ x.ncl \in Clusters /\ Fat(Volume, x.ncl) = Free /\ fp \in FileObjects
      /\ IsOpen /\ x.ret \in {"first", "sought", "fill"} /\ op.kind # "read" /\ op.file \in Files /\ Writes
      /\ (x.clst = 0 => AtFirst /\ x.ret # "sought") /\ (x.clst # 0 => x.ret # "first")
      /\ Stored /\ OpenKept /\ Fresh /\ Widened /\ Pointer /\ SavedOK
  BY <1>1 DEF Calls, IsOpen, Working, Chains, PlaceOK, Creating, Types, Requests, Writes, FilesOK, Doing, Stored
<1>3. ~Full /\ ~fp.dirty /\ fp.fptr <= fp.objsize
  BY <1>2, FilesOwn DEF Full, Pointer, Working, Creating
<1>4. /\ CardTypes' /\ Volume'[Dir] = Volume[Dir] /\ card' \in {card, Volume}
      /\ \A d \in Clusters : Fat(Volume', d) = IF d = x.ncl THEN EOC ELSE Fat(Volume, d)
  BY <1>1, <1>2, TablePut DEF FatValues
<1>5. IsOpen' /\ Loose' = x.ncl /\ pc' \in {"first", "fill", "link"} /\ pc' \in Working
  BY <1>2 DEF IsOpen, Working, Creating, Loose, AtFirst, Valid
<1>6. Firsts'[NoFile] = x.ncl /\ \A i \in Files : Firsts'[i] = Firsts[i] /\ i \in Owners
  BY <1>2, <1>4, <1>5, FilesOwn DEF Firsts, First
<1>7. \A i \in Files : Named(card, i) \in Seq(Clusters) /\ Named(Volume, i) \in Seq(Clusters)
  BY EntryFirst
<1>8. Agreed(card, Volume, Firsts, FALSE) /\ Agreed(Volume, Volume, Firsts, FALSE)
  BY <1>2, AgreedBoth DEF Stored, Truncated
<1>9. Agreed(card', Volume', Firsts', FALSE) /\ \A i \in Files : Chain(Volume', Firsts'[i]) = Chain(Volume, Firsts[i])
  <2>1. ASSUME NEW v, NEW w, NEW h, NEW g, NEW c, v = Volume, w = Volume', h = Firsts, g = Firsts', c \in {card, Volume}
        PROVE  Agreed(c, w, g, FALSE) /\ \A i \in Files : Chain(w, g[i]) = Chain(v, h[i])
    <3>1. Linked(v, h) /\ Fat(v, x.ncl) = Free
      BY <1>1, <1>2, <2>1 DEF Chains
    <3>2. \A d \in Clusters : Fat(w, d) = IF d = x.ncl THEN EOC ELSE Fat(v, d)
      BY <1>4, <2>1
    <3>3. g[NoFile] = x.ncl /\ \A i \in Files : g[i] = h[i]
      BY <1>6, <2>1
    <3>4. Allocates(v, h, x.ncl, w, g)
      BY <1>2, <3>1, <3>2, <3>3 DEF Allocates
    <3>5. Agreed(c, v, h, FALSE) /\ \A f \in Files : Named(c, f) \in Seq(Clusters)
      BY <1>7, <1>8, <2>1
    <3>6. Agreed(c, w, g, FALSE)
      BY <3>4, <3>5, AgreedAlloc
    <3>7. \A i \in Files : Chain(w, g[i]) = Chain(v, h[i])
      BY <3>4, Allocated
    <3> QED BY <3>6, <3>7
  <2>2. \A c \in {card, Volume} : Agreed(c, Volume', Firsts', FALSE)
    BY <2>1
  <2>3. card \in {card, Volume}
    OBVIOUS
  <2>4. \A i \in Files : Chain(Volume', Firsts'[i]) = Chain(Volume, Firsts[i])
    BY <2>1, <2>3
  <2> QED BY <1>4, <2>2, <2>4
<1>10. Agree'
  BY <1>9, AgreedWeaker DEF Agree
<1>11. \A i \in Files : Chain(Volume', Firsts[i]) = Chain(Volume, Firsts[i])
  BY <1>6, <1>9
<1>12. Stored'
  BY <1>2, <1>4, <1>10, <1>11, StoredMoved
<1>13. Own' = Own
  BY <1>2, <1>11, FilesOwn DEF Own, Firsts, First
<1>14. OpenKept'
  <2>1. View = data /\ View' = data /\ data \in [Clusters -> [Records -> Values]]
    BY <1>1, <1>3 DEF View, Types
  <2>2. fp'.objsize \in Nat /\ fp.objsize <= fp'.objsize /\ fp'.objsize = fp.objsize
    BY <1>2 DEF FileObjects
  <2> QED BY <1>2, <1>4, <1>13, <2>1, <2>2, OpenSteady
<1>15. Fresh'
  BY <1>2, <1>4, <1>13, FreshSteady
<1>16. Widened'
  <2>1. Volume[Dir][op.file].size \in Nat
    BY <1>1, <1>2, VolumeNow DEF EntrySet
  <2> QED BY <1>1, <1>2, <1>4, <2>1, WidenedSteady
<1>17. Pointer'
  <2>1. x.ret # "fill" => fp.fptr + x.ofs <= op.pos /\ (op.kind = "write" => fp.fptr + x.ofs = op.pos)
    BY <1>2 DEF Pointer, OnTheWay, Creating
  <2>2. x.ret = "fill" => fp.fptr = op.pos
    BY <1>2, <1>3 DEF Pointer, ToTransfer, Creating, Aimed
  <2>3. x.ncl # NoSpace
    BY <1>2 DEF NoSpace, Clusters
  <2>4. x'.ofs = x.ofs /\ (pc' # "link" => x'.res = x.ncl /\ pc' = x.ret) /\ (pc' = "link" => x'.ret = x.ret)
    BY <1>2
  <2>5. OnTheWay' => x.ret # "fill"
    BY <1>5, <2>4 DEF OnTheWay, Creating
  <2>6. ToTransfer' => x.ret = "fill"
    BY <1>5, <2>4 DEF ToTransfer, Creating
  <2> QED BY <1>3, <1>5, <2>1, <2>2, <2>3, <2>4, <2>5, <2>6 DEF Pointer, Aimed
<1>18. Written' /\ Reading'
  BY <1>2, <1>5 DEF Written, Reading, Closing
<1> QED BY <1>12, <1>14, <1>15, <1>16, <1>17, <1>18 DEF FilesOK, Doing

LEMMA LinkedKept ==
  ASSUME Inv, FilesOK, pc = "link", data' = data, fp' = fp, op' = op, saved' = saved, pc' = x.ret,
         NEW m \in move_window(FatSector(x.clst)), m.ok, Window(m, Put(m.win, x.clst, x.ncl)),
         x' = [ofs |-> x.ofs, clst |-> 0, ncl |-> 0, scl |-> 0, ret |-> "none", res |-> x.ncl]
  PROVE  FilesOK'
<1>1. Types /\ Calls /\ Chains
  BY DEF Inv
<1>2. /\ x.ncl \in Clusters /\ x.clst \in Clusters /\ Fat(Volume, x.clst) = EOC /\ fp \in FileObjects
      /\ IsOpen /\ x.ret \in {"sought", "fill"} /\ op.kind # "read" /\ op.file \in Files /\ Writes
      /\ Behind(x.clst) /\ Chain(Volume, x.ncl) = <<x.ncl>>
      /\ Stored /\ OpenKept /\ Fresh /\ Widened /\ Pointer /\ SavedOK
  BY <1>1 DEF Calls, IsOpen, Working, Chains, PlaceOK, Creating, Clusters, Types, Requests, Writes, FilesOK, Doing, Stored
<1>3. ~fp.dirty /\ fp.fptr <= fp.objsize /\ View = data /\ View' = data
  BY <1>2 DEF Pointer, Working, Creating, View
<1>4. /\ CardTypes' /\ Volume'[Dir] = Volume[Dir] /\ card' \in {card, Volume}
      /\ \A d \in Clusters : Fat(Volume', d) = IF d = x.clst THEN x.ncl ELSE Fat(Volume, d)
  BY <1>1, <1>2, TablePut DEF FatValues
<1>5. IsOpen' /\ Loose' = 0 /\ Loose = x.ncl /\ pc' \in Working /\ fp.sclust # 0
  BY <1>2 DEF IsOpen, Working, Creating, Loose, Behind
<1>6. /\ Firsts'[NoFile] \notin Clusters /\ Firsts[NoFile] = x.ncl /\ Firsts[op.file] = fp.sclust
      /\ \A i \in Files : Firsts'[i] = Firsts[i] /\ i \in Owners
  BY <1>2, <1>4, <1>5, FilesOwn DEF Firsts, First, Clusters
<1>7. \A i \in Files : Named(card, i) \in Seq(Clusters) /\ Named(Volume, i) \in Seq(Clusters)
  BY EntryFirst
<1>8. Agreed(card, Volume, Firsts, FALSE) /\ Agreed(Volume, Volume, Firsts, FALSE)
  BY <1>2, AgreedBoth DEF Stored, Truncated
<1>9. PICK k \in 1 .. Len(Own) : Own[k] = x.clst
  BY <1>2 DEF Behind, On
<1>10. /\ Agreed(card', Volume', Firsts', FALSE) /\ Own' = Append(Own, x.ncl)
       /\ \A i \in Files \ {op.file} : Chain(Volume', Firsts[i]) = Chain(Volume, Firsts[i])
       /\ \A j \in 1 .. Len(Named(card, Conf)) : Named(card, Conf)[j] # x.ncl
  <2>1. ASSUME NEW v, NEW w, NEW h, NEW g, v = Volume, w = Volume', h = Firsts, g = Firsts',
               NEW f, NEW n, NEW last, f = op.file, n = x.ncl, last = x.clst
        PROVE  /\ Lengthens(v, h, f, n, k, last, w, g)
               /\ Chain(w, h[f]) = Append(Chain(v, h[f]), n)
               /\ \A i \in Files \ {f} : Chain(w, g[i]) = Chain(v, h[i])
    <3>1. Linked(v, h) /\ Fat(v, last) = EOC /\ Chain(v, n) = <<n>> /\ f \in Files /\ n \in Clusters
      BY <1>1, <1>2, <2>1 DEF Chains
    <3>2. \A d \in Clusters : Fat(w, d) = IF d = last THEN n ELSE Fat(v, d)
      BY <1>4, <2>1
    <3>3. g[NoFile] \notin Clusters /\ h[NoFile] = n /\ \A i \in Files : g[i] = h[i]
      BY <1>6, <2>1
    <3>4. h[f] = fp.sclust /\ Chain(v, h[f]) = Own
      BY <1>6, <2>1 DEF Own
    <3>5. k \in 1 .. Len(Chain(v, h[f])) /\ Chain(v, h[f])[k] = last
      BY <1>9, <2>1, <3>4
    <3>6. Lengthens(v, h, f, n, k, last, w, g)
      BY <3>1, <3>2, <3>3, <3>5 DEF Lengthens
    <3> QED BY <3>6, Lengthened
  <2>2. Own = Chain(Volume, Firsts[op.file]) /\ Own' = Chain(Volume', Firsts[op.file])
    BY <1>6 DEF Own
  <2>3. Conf \in Files
    BY DEF Files
  <2>4. /\ Lengthens(Volume, Firsts, op.file, x.ncl, k, x.clst, Volume', Firsts')
        /\ Chain(Volume', Firsts[op.file]) = Append(Chain(Volume, Firsts[op.file]), x.ncl)
        /\ \A i \in Files \ {op.file} : Chain(Volume', Firsts'[i]) = Chain(Volume, Firsts[i])
    BY <2>1
  <2>5. ASSUME NEW w, NEW g, w = Volume', g = Firsts', NEW c \in {card, Volume}
        PROVE  /\ Agreed(c, w, g, FALSE)
               /\ \A i \in Files : \A j \in 1 .. Len(Named(c, i)) : Named(c, i)[j] # x.ncl
    <3>1. Lengthens(Volume, Firsts, op.file, x.ncl, k, x.clst, w, g)
      BY <2>4, <2>5
    <3>2. Agreed(c, Volume, Firsts, FALSE) /\ \A i \in Files : Named(c, i) \in Seq(Clusters)
      BY <1>7, <1>8
    <3> QED BY <3>1, <3>2, AgreedLink
  <2>6. \A c \in {card, Volume} : Agreed(c, Volume', Firsts', FALSE)
    BY <2>5
  <2>7. \A j \in 1 .. Len(Named(card, Conf)) : Named(card, Conf)[j] # x.ncl
    BY <2>3, <2>5
  <2> QED BY <1>4, <1>6, <2>2, <2>4, <2>6, <2>7
<1>11. Agree'
  BY <1>10, AgreedWeaker DEF Agree
<1>12. Own \in Seq(Clusters) /\ fp.objsize \in Nat /\ fp.objsize <= PerSector * Len(Own)
  BY <1>1, <1>2, OwnChain DEF Chains, EntryOK, FileObjects
<1>13. ASSUME NEW f \in Files
       PROVE  Holds(Named(Volume', f), data, Volume'[Dir][f].size, saved[f])
  <2>1. Holds(Named(Volume, f), data, Volume[Dir][f].size, saved[f])
    BY <1>2 DEF Stored, KeptOn
  <2>2. Volume[Dir][f].size \in Nat /\ Volume[Dir][f].size <= PerSector * Len(Named(Volume, f))
    BY <1>1, EntryNow DEF EntrySet, Named
  <2>3. CASE Volume[Dir][f].sclust \notin Clusters
    <3>1. Named(Volume', f) = Named(Volume, f)
      BY <1>4, <2>3, NoChain DEF Named
    <3> QED BY <1>4, <2>1, <3>1
  <2>4. CASE Volume[Dir][f].sclust \in Clusters /\ f # op.file
    <3>1. Named(Volume', f) = Named(Volume, f)
      BY <1>4, <1>10, <2>4, EntryFirst DEF Named
    <3> QED BY <1>4, <2>1, <3>1
  <2>5. CASE Volume[Dir][f].sclust \in Clusters /\ f = op.file
    <3>1. Volume[Dir][f].sclust = fp.sclust
      BY <1>6, <2>5, EntryFirst
    <3>2. Named(Volume, f) = Own /\ Named(Volume', f) = Append(Own, x.ncl)
      BY <1>4, <1>10, <3>1 DEF Named, Own
    <3>3. Holds(Append(Own, x.ncl), data, Volume[Dir][f].size, saved[f])
      BY <1>2, <1>12, <2>1, <2>2, <3>2, HoldsLonger
    <3> QED BY <1>4, <3>2, <3>3
  <2> QED BY <2>3, <2>4, <2>5
<1>14. Stored'
  <2>1. KeptOn(Volume', data', saved')
    BY <1>13 DEF KeptOn
  <2>2. KeptOn(card', data', saved')
    BY <1>2, <1>4 DEF Stored
  <2>3. Grows'
    <3>1. \A f \in Images : Volume[Dir][f].size \in Nat
      BY <1>1, VolumeNow DEF EntrySet, Files
    <3> QED BY <1>2, <1>4, <3>1 DEF Stored, Grows
  <2> QED BY <1>2, <1>11, <2>1, <2>2, <2>3 DEF Stored, SavedOK
<1>15. OpenKept'
  <2>1. Volume[Dir][op.file].size <= fp.objsize /\ Holds(Own, data, fp.objsize, saved[op.file])
    BY <1>2, <1>3 DEF OpenKept
  <2>2. Holds(Append(Own, x.ncl), data, fp.objsize, saved[op.file])
    BY <1>2, <1>12, <2>1, HoldsLonger
  <2> QED BY <1>3, <1>4, <1>10, <2>1, <2>2 DEF OpenKept
<1>16. Fresh'
  <2>1. SUFFICES ASSUME op.kind = "save"
                 PROVE  saved[Conf].least = 0 /\ Volume'[Dir][Conf] = Empty /\ Apart(Named(card', Conf), Own')
    BY DEF Fresh
  <2>2. saved[Conf].least = 0 /\ Volume[Dir][Conf] = Empty /\ Apart(Named(card, Conf), Own)
    BY <1>2, <2>1 DEF Fresh
  <2>3. CASE card' = Volume
    <3>1. Len(Named(Volume, Conf)) = 0
      BY <2>2, NoChain DEF Named, Empty, Clusters
    <3> QED BY <1>4, <2>2, <2>3, <3>1 DEF Apart
  <2>4. CASE card' = card
    <3>1. \A j \in 1 .. Len(Append(Own, x.ncl)) :
            (j \in 1 .. Len(Own) /\ Append(Own, x.ncl)[j] = Own[j]) \/ Append(Own, x.ncl)[j] = x.ncl
      BY <1>2, <1>12
    <3>2. Apart(Named(card, Conf), Append(Own, x.ncl))
      BY <1>10, <2>2, <3>1 DEF Apart
    <3> QED BY <1>4, <1>10, <2>2, <2>4, <3>2
  <2> QED BY <1>4, <2>3, <2>4
<1>17. Widened'
  <2>1. Volume[Dir][op.file].size \in Nat
    BY <1>1, <1>2, VolumeNow DEF EntrySet
  <2> QED BY <1>1, <1>2, <1>4, <2>1, WidenedSteady
<1>18. Pointer'
  <2>1. x.ret # "fill" => fp.fptr + x.ofs <= op.pos /\ (op.kind = "write" => fp.fptr + x.ofs = op.pos)
    BY <1>2 DEF Pointer, OnTheWay, Creating
  <2>2. x.ret = "fill" => fp.fptr = op.pos
    BY <1>2 DEF Pointer
  <2>3. x.ncl # NoSpace
    BY <1>2 DEF NoSpace, Clusters
  <2>4. x'.ofs = x.ofs /\ x'.res = x.ncl
    OBVIOUS
  <2>5. pc' \notin Creating /\ pc' # "seek" /\ pc' # "search" /\ pc' # "transfer" /\ pc' # "link"
    BY <1>2 DEF Creating
  <2> QED BY <1>2, <1>3, <2>1, <2>2, <2>3, <2>4, <2>5 DEF Pointer, OnTheWay, ToTransfer
<1>19. Written' /\ Reading'
  BY <1>2 DEF Written, Reading, Closing
<1> QED BY <1>14, <1>15, <1>16, <1>17, <1>18, <1>19 DEF FilesOK, Doing

LEMMA AllocKept ==
  ASSUME Inv, FilesOK, Alloc
  PROVE  FilesOK'
<1>1. Types /\ Calls /\ Chains
  BY DEF Inv
<1>2. ~Valid(Broken) /\ Broken # NoSpace
  BY DEF Valid, Broken, Clusters, NoSpace
<1>3. CASE pc = "alloc"
  <2>1. x.ncl \in Clusters /\ UNCHANGED <<data, fp, saved>>
    BY <1>1, <1>3 DEF Calls, Alloc, PutFat
  <2>2. PICK m \in move_window(FatSector(x.ncl)) :
          IF m.ok THEN /\ Window(m, Put(m.win, x.ncl, EOC))
                       /\ IF x.clst = 0 THEN Created ELSE UNCHANGED <<x, last_clst>> /\ Goto("link")
          ELSE Window(m, m.win) /\ Return(Broken) /\ UNCHANGED last_clst
    BY <1>3 DEF Alloc, PutFat
  <2>3. CASE m.ok
    BY <1>3, <2>1, <2>2, <2>3, AllocatedKept DEF Created, Return, Goto, NoLocals
  <2>4. CASE ~m.ok
    <3>1. Same
      BY <1>1, <2>1, <2>2, <2>4, Glimpsed, SectorNumbers
    <3> QED BY <1>2, <1>3, <2>1, <2>2, <2>4, <3>1, ReturnKept DEF Creating
  <2> QED BY <2>3, <2>4
<1>4. CASE pc = "link"
  <2>1. x.clst \in Clusters /\ UNCHANGED <<data, fp, saved>>
    BY <1>1, <1>4 DEF Calls, Alloc, PutFat
  <2>2. PICK m \in move_window(FatSector(x.clst)) :
          IF m.ok THEN Window(m, Put(m.win, x.clst, x.ncl)) /\ Created
          ELSE Window(m, m.win) /\ Return(Broken) /\ UNCHANGED last_clst
    BY <1>4 DEF Alloc, PutFat
  <2>3. CASE m.ok
    BY <1>4, <2>1, <2>2, <2>3, LinkedKept DEF Created, Return, Goto, NoLocals
  <2>4. CASE ~m.ok
    <3>1. Same
      BY <1>1, <2>1, <2>2, <2>4, Glimpsed, SectorNumbers
    <3> QED BY <1>2, <1>4, <2>1, <2>2, <2>4, <3>1, ReturnKept DEF Creating
  <2> QED BY <2>3, <2>4
<1> QED BY <1>3, <1>4 DEF Alloc

-----------------------------------------------------------------------------
(* f_open(): the file object of an entry *)
LEMMA OpenedKept ==
  ASSUME Types, Calls, FileObject(Volume'[Dir][op.file]), saved' = saved, data' = data, op.kind # "none",
         Volume'[Dir][op.file] \in EntrySet, Widened, Fresh,
         Holds(Chain(Volume', Volume'[Dir][op.file].sclust), data, Volume'[Dir][op.file].size, saved[op.file]),
         op.kind = "save" => Volume'[Dir][op.file] = Empty /\ op.file = Conf,
         op.kind # "save" => Volume'[Dir] = Volume[Dir] /\ op.file \in Files
  PROVE  Doing'
<1> DEFINE e == Volume'[Dir][op.file]
<1>1. /\ pc' \in {"transfer", "seek"} /\ op' = op /\ pc' \in Working
      /\ x'.ofs = (IF op.kind = "read" /\ op.pos > e.size THEN e.size ELSE op.pos)
      /\ x'.ofs = 0 <=> pc' = "transfer"
  BY DEF FileObject, Goto, NoLocals, Working
<1>2. /\ fp'.sclust = e.sclust /\ fp'.objsize = e.size /\ fp'.fptr = 0 /\ fp'.dirty = FALSE
      /\ e.size \in Nat /\ op.pos \in Nat /\ op.kind \in {"read", "write", "save"}
  BY DEF FileObject, Closed, EntrySet, Types, Requests
<1>3. Own' = Chain(Volume', e.sclust) /\ View' = data /\ OnBoundary'
  BY <1>2, SectorAssumption DEF Own, View, OnBoundary
<1>4. OpenKept'
  BY <1>1, <1>2, <1>3 DEF OpenKept
<1>5. Fresh'
  <2>1. SUFFICES ASSUME op.kind = "save" PROVE saved[Conf].least = 0 /\ Volume'[Dir][Conf] = Empty /\ Apart(Named(card', Conf), Own')
    BY <1>1 DEF Fresh
  <2>2. Len(Own') = 0
    BY <1>3, <2>1, NoChain DEF Empty, Clusters
  <2> QED BY <2>1, <2>2 DEF Fresh, Apart
<1>6. Widened'
  <2>1. CASE op.kind = "save"
    BY <1>1, <1>2, <2>1 DEF Widened, Writes, Calls
  <2>2. CASE op.kind # "save"
    BY <1>1, <2>2 DEF Widened, Writes
  <2> QED BY <2>1, <2>2
<1>7. Pointer'
  <2>1. pc' \notin Creating /\ pc' \notin {"first", "sought", "search", "fill", "link"}
    BY <1>1 DEF Creating
  <2>2. pc' = "transfer" => op.kind = "read" \/ op.pos = 0
    BY <1>1, <1>2
  <2> HIDE DEF e
  <2> QED BY <1>1, <1>2, <1>3, <2>1, <2>2 DEF Pointer, OnTheWay, ToTransfer, Aimed, Writes
<1>8. Written'
  BY <1>1 DEF Written, Closing
<1>9. Reading'
  BY <1>1, <1>2 DEF Reading
<1> QED BY <1>4, <1>5, <1>6, <1>7, <1>8, <1>9 DEF Doing

(* The entry of the configuration is emptied in the window. *)
LEMMA StoredEmptied ==
  ASSUME Inv, Stored, card' \in {card, Volume}, Volume'[Dir] = [Volume[Dir] EXCEPT ![Conf] = Empty],
         \A c \in Clusters : Fat(Volume', c) = Fat(Volume, c), data' = data, saved' = saved, saved[Conf].least = 0, Agree'
  PROVE  Stored'
<1>1. Types /\ Calls /\ Chains /\ SavedOK' /\ Volume[Dir] \in [Files -> EntrySet] /\ Conf \in Files
  BY VolumeNow DEF Stored, SavedOK, Inv, Files
<1>2. ASSUME NEW f \in Files PROVE Holds(Named(Volume', f), data, Volume'[Dir][f].size, saved[f])
  <2>1. CASE f # Conf
    <3>1. Volume'[Dir][f] = Volume[Dir][f]
      BY <1>1, <2>1
    <3>2. Named(Volume', f) = Named(Volume, f)
      BY <3>1, SameTable DEF Named
    <3> QED BY <3>1, <3>2 DEF Stored, KeptOn
  <2>2. CASE f = Conf
    <3>1. Volume'[Dir][f] = Empty /\ Empty.size = 0 /\ Empty.sclust \notin Clusters
      BY <1>1, <2>2 DEF Empty, Clusters
    <3>2. Len(Named(Volume', f)) = 0
      BY <3>1, NoChain DEF Named
    <3>3. Len(saved[f].recs) \in Nat
      BY DEF Stored, SavedOK
    <3>4. 0 \in saved[f].least .. Len(saved[f].recs)
      BY <2>2, <3>3
    <3> QED BY <3>1, <3>2, <3>4 DEF Holds
  <2> QED BY <2>1, <2>2
<1>3. KeptOn(Volume', data', saved') /\ KeptOn(card', data', saved')
  BY <1>2 DEF Stored, KeptOn
<1>4. Grows'
  <2>1. \A f \in Images : Volume[Dir][f].size \in Nat /\ Volume'[Dir][f] = Volume[Dir][f]
    BY <1>1, FilesAssumption DEF EntrySet, Files
  <2> QED BY <2>1 DEF Stored, Grows
<1> QED BY <1>1, <1>3, <1>4 DEF Stored

(* A function that ends without a file object. *)
LEMMA FailKept ==
  ASSUME Inv, FilesOK, Same, data' = data, saved' = saved, pc' = "idle", op' = NoOp
  PROVE  FilesOK'
<1>1. Loose' = 0 /\ ~IsOpen'
  BY DEF Loose, IsOpen, Working, Creating, Closing
<1>2. Stored'
  BY <1>1, StoredSame DEF FilesOK
<1>3. Doing'
  BY DoingIdle
<1> QED BY <1>2, <1>3 DEF FilesOK

LEMMA OpenKeeps ==
  ASSUME Inv, FilesOK, f_open
  PROVE  FilesOK'
<1>1. Types /\ Calls /\ Chains /\ CardTypes /\ faults \in Nat
  BY DEF Inv, Types
<1>2. /\ pc = "open" /\ data' = data /\ saved' = saved /\ ~IsOpen /\ Loose = 0 /\ op.file \in Files /\ op.kind # "none"
      /\ Stored /\ Fresh /\ Widened /\ Agree
  BY <1>1 DEF f_open, IsOpen, Loose, Working, Creating, Closing, Calls, FilesOK, Doing, Stored
<1>3. PICK m \in move_window(Dir) :
        \/ ~Opens(m) /\ Window(m, m.win) /\ Fail
        \/ /\ Opens(m) /\ op.kind # "save" /\ Window(m, m.win) /\ FileObject(m.win.content[op.file])
        \/ /\ Opens(m) /\ op.kind = "save" /\ Window(m, Put(m.win, Conf, Empty))
           /\ LET entry == m.win.content[op.file] IN
              IF entry.sclust > 0
                THEN Goto("remove") /\ x' = [x EXCEPT !.clst = entry.sclust, !.scl = entry.sclust] /\ UNCHANGED fp
                ELSE FileObject(Empty)
  BY DEF f_open
<1> DEFINE e == Volume[Dir][op.file]
<1>4. e \in EntrySet /\ (m.ok => m.win.content[op.file] = e)
  BY <1>1, <1>2, Moved, SectorNumbers, VolumeNow
<1>5. CASE ~Opens(m) /\ Window(m, m.win) /\ Fail
  <2>1. Same
    BY <1>1, <1>5, Glimpsed, SectorNumbers
  <2> QED BY <1>2, <1>5, <2>1, FailKept DEF Fail
<1>6. CASE Opens(m) /\ op.kind # "save" /\ Window(m, m.win) /\ FileObject(m.win.content[op.file])
  <2>1. Same /\ Volume' = Volume
    BY <1>1, <1>6, Glimpsed, SectorNumbers DEF Same
  <2>2. FileObject(e)
    BY <1>4, <1>6 DEF Opens
  <2>3. pc' \in {"transfer", "seek"} /\ op' = op /\ fp'.sclust = e.sclust
    BY <2>2 DEF FileObject, Goto, Closed
  <2>4. Loose' = 0
    BY <2>3 DEF Loose
  <2>5. Stored'
    BY <1>2, <2>1, <2>3, <2>4, StoredSame
  <2>6. Holds(Chain(Volume', Volume'[Dir][op.file].sclust), data, Volume'[Dir][op.file].size, saved[op.file])
    BY <1>2, <2>1 DEF Stored, KeptOn, Named
  <2>7. Doing'
    BY <1>1, <1>2, <1>4, <1>6, <2>1, <2>2, <2>6, OpenedKept
  <2> QED BY <2>5, <2>7 DEF FilesOK
<1>7. CASE /\ Opens(m) /\ op.kind = "save" /\ Window(m, Put(m.win, Conf, Empty))
           /\ IF m.win.content[op.file].sclust > 0
                THEN Goto("remove") /\ x' = [x EXCEPT !.clst = m.win.content[op.file].sclust,
                                                      !.scl = m.win.content[op.file].sclust] /\ UNCHANGED fp
                ELSE FileObject(Empty)
  <2>1. op.file = Conf /\ m.ok /\ m.win.content[op.file] = e /\ Conf \in Files
    BY <1>1, <1>2, <1>4, <1>7 DEF Calls, Opens
  <2>2. Conf \in DOMAIN Volume[Dir] /\ Empty \in EntrySet /\ Empty.sclust = 0 /\ Empty.size = 0
    BY <1>1, <1>2, <2>1, VolumeNow DEF Empty, EntrySet
  <2>3. /\ Volume' = [Volume EXCEPT ![Dir][Conf] = Empty] /\ card' \in {card, Volume} /\ win'.sect = Dir /\ win'.wflag
    BY <1>1, <1>7, <2>1, <2>2, Puts, SectorNumbers
  <2>4. Volume'[Dir] = [Volume[Dir] EXCEPT ![Conf] = Empty] /\ \A c \in Clusters : Fat(Volume', c) = Fat(Volume, c)
    BY <1>1, <2>3, VolumeNow, SectorNumbers DEF IsVolume, Fat, Dir
  <2>5. /\ Volume'[Dir][Conf] = Empty /\ saved[Conf].least = 0
        /\ \A i \in Files \ {Conf} : Volume'[Dir][i] = Volume[Dir][i]
    BY <1>1, <1>2, <1>7, <2>1, <2>4, VolumeNow DEF Fresh
  <2>6. \A f \in Files : Named(card, f) \in Seq(Clusters) /\ Named(Volume, f) \in Seq(Clusters)
    BY EntryFirst
  <2>7. Agreed(card, Volume, Firsts, FALSE) /\ Agreed(Volume, Volume, Firsts, FALSE)
    BY <1>2, AgreedBoth DEF Truncated
  <2>8. CASE e.sclust > 0
    <3>1. /\ pc' = "remove" /\ op' = op /\ fp' = fp
      BY <1>7, <2>1, <2>8 DEF Goto
    <3>2. ~IsOpen' /\ Truncated' /\ pc' \notin Working /\ pc' \notin Closing /\ pc' \notin Creating
      BY <2>3, <3>1 DEF IsOpen, Truncated, Working, Creating, Closing
    <3>3. /\ Firsts'[Conf] \notin Clusters /\ \A i \in Files \ {Conf} : Firsts'[i] = Firsts[i]
      BY <1>2, <2>1, <2>2, <2>5, <3>2, FilesOwn DEF Firsts, First, Clusters
    <3>4. ASSUME NEW c \in {card, Volume}, NEW w, NEW g, w = Volume', g = Firsts' PROVE Agreed(c, w, g, TRUE)
      <4>1. Agreed(c, Volume, Firsts, FALSE) /\ \A i \in Files : Named(c, i) \in Seq(Clusters)
        BY <2>6, <2>7
      <4>2. Cuts(Volume, Firsts, Conf, w, g)
        BY <2>1, <2>4, <3>3, <3>4 DEF Cuts
      <4> QED BY <4>1, <4>2, AgreedCut
    <3>5. Agreed(card', Volume', Firsts', TRUE)
      BY <2>3, <3>4
    <3>6. Agree'
      BY <3>2, <3>5 DEF Agree, Agreed
    <3>7. Stored'
      BY <1>2, <2>3, <2>4, <2>5, <3>6, StoredEmptied
    <3>8. Widened'
      BY <1>1, <1>2, <1>7, <3>1 DEF Widened, Writes, Calls
    <3>9. OpenKept' /\ Fresh' /\ Written' /\ Reading'
      BY <1>2, <1>7, <2>5, <3>1, <3>2 DEF OpenKept, Fresh, Written, Reading
    <3>10. Pointer'
      BY <3>1, <3>2 DEF Pointer, OnTheWay, ToTransfer
    <3> QED BY <3>7, <3>8, <3>9, <3>10 DEF FilesOK, Doing
  <2>9. CASE ~(e.sclust > 0)
    <3>1. FileObject(Empty)
      BY <1>7, <2>1, <2>9
    <3>2. pc' \in {"transfer", "seek"} /\ op' = op /\ fp'.sclust = 0 /\ pc' \in Working
      BY <2>2, <3>1 DEF FileObject, Goto, Closed, Working
    <3>3. Loose' = 0 /\ IsOpen' /\ ~Truncated'
      BY <3>2 DEF Loose, IsOpen, Truncated
    <3>4. \A i \in Owners : Firsts'[i] = Firsts[i] \/ Firsts'[i] \notin Clusters
      <4>1. Firsts'[NoFile] \notin Clusters /\ Firsts'[Conf] \notin Clusters
        BY <2>1, <3>2, <3>3, FilesOwn DEF Firsts, First, Clusters
      <4>2. \A i \in Files \ {Conf} : Firsts'[i] = Firsts[i]
        BY <1>2, <2>1, <2>5, <3>2, FilesOwn DEF Firsts, First
      <4> QED BY <4>1, <4>2 DEF Owners
    <3>5. ASSUME NEW c \in {card, Volume}, NEW w, NEW g, w = Volume', g = Firsts' PROVE Agreed(c, w, g, FALSE)
      BY <2>4, <2>6, <2>7, <3>4, <3>5, AgreedSteady
    <3>6. Agreed(card', Volume', Firsts', FALSE)
      BY <2>3, <3>5
    <3>7. Agree'
      BY <3>6, AgreedWeaker DEF Agree
    <3>8. Stored'
      BY <1>2, <2>3, <2>4, <2>5, <3>7, StoredEmptied
    <3>9. Holds(Chain(Volume', Volume'[Dir][op.file].sclust), data, Volume'[Dir][op.file].size, saved[op.file])
      <4>1. KeptOn(Volume', data', saved')
        BY <3>8 DEF Stored
      <4> QED BY <1>2, <4>1 DEF KeptOn, Named
    <3>10. Doing'
      BY <1>1, <1>2, <1>7, <2>1, <2>2, <2>5, <3>1, <3>9, OpenedKept
    <3> QED BY <3>8, <3>10 DEF FilesOK
  <2> QED BY <2>8, <2>9
<1> QED BY <1>3, <1>5, <1>6, <1>7

LEMMA RemoveKept ==
  ASSUME Inv, FilesOK, remove_chain
  PROVE  FilesOK'
<1>1. Types /\ Calls /\ Chains /\ Stored /\ Fresh /\ Widened /\ Agree
  BY DEF Inv, FilesOK, Doing, Stored
<1>2. /\ pc = "remove" /\ data' = data /\ saved' = saved /\ op.kind = "save"
      /\ ~IsOpen /\ Loose = x.clst /\ x.clst \in Clusters /\ op.file = Conf /\ Volume[Dir][Conf] = Empty
  BY <1>1 DEF remove_chain, IsOpen, Loose, Working, Creating, Closing, Calls, Chains, PlaceOK
<1>3. /\ First(NoFile) = x.clst /\ 0 \notin Clusters
      /\ \A i \in Files : First(i) = Volume[Dir][i].sclust /\ i \in Owners /\ i # NoFile
  BY <1>2, FilesOwn DEF First, Clusters
<1>4. PICK m \in move_window(FatSector(x.clst)) :
        LET nxt == get_fat(m, x.clst) IN
        \/ ~m.ok /\ Window(m, m.win) /\ Fail
        \/ /\ m.ok /\ UNCHANGED fp
           /\ Window(m, IF EndsAt(nxt) THEN m.win ELSE Put(m.win, x.clst, Free))
           /\ IF nxt \in Clusters
                THEN x' = [x EXCEPT !.clst = nxt] /\ Goto("remove")
                ELSE UNCHANGED x /\ Goto("reopen")
  BY DEF remove_chain
<1>5. FatSector(x.clst) \in SectorSet /\ FatSector(x.clst) # Dir
  BY <1>2, SectorNumbers DEF Dir
<1>6. CASE ~m.ok /\ Window(m, m.win) /\ Fail
  <2>1. Same
    BY <1>1, <1>5, <1>6, Glimpsed
  <2> QED BY <1>2, <1>6, <2>1, FailKept DEF Fail
<1>7. ASSUME m.ok, UNCHANGED fp,
             Window(m, IF EndsAt(get_fat(m, x.clst)) THEN m.win ELSE Put(m.win, x.clst, Free)),
             IF get_fat(m, x.clst) \in Clusters
               THEN x' = [x EXCEPT !.clst = get_fat(m, x.clst)] /\ Goto("remove")
               ELSE UNCHANGED x /\ Goto("reopen")
      PROVE  FilesOK'
  <2> DEFINE nxt == Fat(Volume, x.clst)
  <2>1. get_fat(m, x.clst) = nxt
    BY <1>1, <1>2, <1>7, TableRead
  <2>2. Linked(Volume, Firsts) /\ Firsts[NoFile] = x.clst /\ NoFile \in Owners
    BY <1>1, <1>3, FilesOwn DEF Chains, Firsts
  <2>3. nxt # Free
    <3>1. Chain(Volume, x.clst) \in Seq(Clusters) /\ IsChain(Volume, Chain(Volume, x.clst), x.clst)
      BY <2>2 DEF Linked
    <3>2. Len(Chain(Volume, x.clst)) > 0 /\ Chain(Volume, x.clst)[1] = x.clst
      BY <1>2, <3>1 DEF IsChain
    <3>3. PICK one \in 1 .. Len(Chain(Volume, x.clst)) : one = 1
      BY <3>1, <3>2
    <3> QED BY <3>1, <3>2, <3>3, ChainAllocated
  <2>4. Window(m, Put(m.win, x.clst, Free)) /\ Free \in FatValues
    BY <1>7, <2>1, <2>3 DEF EndsAt, FatValues
  <2>5. /\ Volume'[Dir] = Volume[Dir] /\ card' \in {card, Volume} /\ win'.sect = FatSector(x.clst)
        /\ win.sect = Dir => card' = Volume
        /\ \A d \in Clusters : Fat(Volume', d) = IF d = x.clst THEN Free ELSE Fat(Volume, d)
    BY <1>1, <1>2, <1>5, <1>7, <2>4, TablePut
  <2>6. /\ op' = op /\ fp' = fp
        /\ \/ nxt \in Clusters /\ x' = [x EXCEPT !.clst = nxt] /\ pc' = "remove"
           \/ nxt \notin Clusters /\ x' = x /\ pc' = "reopen"
    BY <1>7, <2>1 DEF Goto
  <2> HIDE DEF nxt
  <2>7. nxt \in Clusters => x'.clst = nxt
    BY <1>1, <2>6 DEF Types, Locals
  <2>8. ~IsOpen' /\ Loose' = (IF nxt \in Clusters THEN nxt ELSE 0) /\ ~Truncated'
    BY <1>5, <2>5, <2>6, <2>7 DEF IsOpen, Loose, Working, Creating, Closing, Truncated
  <2>9. /\ First(NoFile)' = (IF nxt \in Clusters THEN nxt ELSE 0)
        /\ \A i \in Files : First(i)' = First(i)
    BY <1>3, <2>5, <2>8 DEF First
  <2>10. /\ \A i \in Files : Firsts'[i] = Firsts[i]
         /\ IF nxt \in Clusters THEN Firsts'[NoFile] = nxt ELSE Firsts'[NoFile] \notin Clusters
    BY <1>3, <2>9, FilesOwn DEF Firsts
  <2>11. /\ Agreed(Volume, Volume, Firsts, FALSE) /\ Agreed(card', Volume, Firsts, FALSE)
         /\ \A f \in Files : Named(card', f) \in Seq(Clusters)
    <3>1. Agreed(Volume, Volume, Firsts, FALSE) /\ (~Truncated => Agreed(card, Volume, Firsts, FALSE))
      BY <1>1, AgreedBoth
    <3>2. Truncated => card' = Volume
      BY <2>5 DEF Truncated
    <3>3. \A f \in Files : Named(card, f) \in Seq(Clusters) /\ Named(Volume, f) \in Seq(Clusters)
      BY EntryFirst
    <3> QED BY <2>5, <3>1, <3>2, <3>3
  <2>12. Agreed(card', Volume', Firsts', FALSE) /\ \A i \in Files : Chain(Volume', Firsts'[i]) = Chain(Volume, Firsts[i])
    <3>1. ASSUME NEW v, NEW w, NEW h, NEW g, NEW c, v = Volume, w = Volume', h = Firsts, g = Firsts', c = card'
          PROVE  Agreed(c, w, g, FALSE) /\ \A i \in Files : Chain(w, g[i]) = Chain(v, h[i])
      <4>1. Linked(v, h) /\ h[NoFile] = x.clst /\ x.clst \in Clusters
        BY <1>2, <2>2, <3>1
      <4>2. \A d \in Clusters : Fat(w, d) = IF d = x.clst THEN Free ELSE Fat(v, d)
        BY <2>5, <3>1
      <4>3. /\ \A i \in Files : g[i] = h[i]
            /\ IF Fat(v, x.clst) \in Clusters THEN g[NoFile] = Fat(v, x.clst) ELSE g[NoFile] \notin Clusters
        BY <2>10, <3>1 DEF nxt
      <4>4. Frees(v, h, x.clst, w, g)
        BY <4>1, <4>2, <4>3 DEF Frees
      <4>5. Agreed(c, v, h, FALSE) /\ \A f \in Files : Named(c, f) \in Seq(Clusters)
        BY <2>11, <3>1
      <4>6. Agreed(c, w, g, FALSE)
        BY <4>4, <4>5, AgreedFree
      <4>7. \A i \in Files : Chain(w, g[i]) = Chain(v, h[i])
        BY <4>4, Freed
      <4> QED BY <4>6, <4>7
    <3> QED BY <3>1
  <2>13. Agree'
    BY <2>12, AgreedWeaker DEF Agree
  <2>14. Stored'
    <3>1. \A i \in Files : Chain(Volume', Firsts[i]) = Chain(Volume, Firsts[i])
      BY <2>10, <2>12
    <3> QED BY <1>1, <1>2, <2>5, <2>13, <3>1, StoredMoved
  <2>15. OpenKept' /\ Fresh' /\ Written' /\ Reading'
    BY <1>1, <1>2, <2>6, <2>8 DEF OpenKept, Fresh, Written, Reading, Closing
  <2>16. Widened'
    <3>1. Volume'[Dir][op.file].size = 0
      BY <1>2, <2>5 DEF Empty
    <3> QED BY <1>1, <1>2, <2>5, <2>6, <3>1 DEF Widened, Writes
  <2>17. Pointer'
    BY <2>6 DEF Pointer, OnTheWay, ToTransfer, Creating, Working
  <2> QED BY <2>14, <2>15, <2>16, <2>17 DEF FilesOK, Doing
<1> QED BY <1>4, <1>6, <1>7

LEMMA ReopenKept ==
  ASSUME Inv, FilesOK, ReopenTruncated
  PROVE  FilesOK'
<1>1. Types /\ Calls /\ Chains /\ Stored /\ Fresh /\ Widened
  BY DEF Inv, FilesOK, Doing
<1>2. /\ pc = "reopen" /\ data' = data /\ saved' = saved /\ op.kind = "save"
      /\ op.file = Conf /\ Volume[Dir][Conf] = Empty /\ Conf \in Files
  BY <1>1 DEF ReopenTruncated, Calls, Chains, PlaceOK
<1>3. PICK m \in move_window(Dir) :
        Window(m, m.win) /\ IF m.ok THEN FileObject(m.win.content[Conf]) ELSE Fail
  BY DEF ReopenTruncated
<1>4. Same /\ Volume' = Volume /\ (m.ok => m.win.content = Volume[Dir])
  BY <1>1, <1>3, Glimpsed, SectorNumbers DEF Same
<1>5. CASE ~m.ok
  BY <1>2, <1>3, <1>4, <1>5, FailKept DEF Fail
<1>6. CASE m.ok
  <2>1. FileObject(Empty) /\ Empty \in EntrySet /\ Empty.sclust = 0
    BY <1>2, <1>3, <1>4, <1>6 DEF Empty, EntrySet
  <2>2. pc' \in {"transfer", "seek"} /\ op' = op /\ fp'.sclust = 0
    BY <2>1 DEF FileObject, Goto, Closed
  <2>3. Loose' = 0
    BY <2>2 DEF Loose
  <2>4. Stored'
    BY <1>1, <1>2, <1>4, <2>1, <2>2, <2>3, StoredSame
  <2>5. Holds(Chain(Volume', Volume'[Dir][op.file].sclust), data, Volume'[Dir][op.file].size, saved[op.file])
    BY <1>1, <1>2, <1>4 DEF Stored, KeptOn, Named
  <2>6. Doing'
    BY <1>1, <1>2, <1>4, <2>1, <2>5, OpenedKept
  <2> QED BY <2>4, <2>6 DEF FilesOK
<1> QED BY <1>5, <1>6

-----------------------------------------------------------------------------
(* The program asks for a record, or to save the configuration. *)
LEMMA SizeNow ==
  ASSUME Types, NEW f \in Files
  PROVE  Size(f) = Volume[Dir][f].size
<1>1. IsVolume(card) /\ IsWindow(win) /\ IsClean(card, win) /\ Dir \in SectorSet /\ Dir # NoSector
  BY SectorNumbers DEF Types, CardTypes, Dir, NoSector
<1>2. CASE win.wflag
  BY <1>1, <1>2 DEF Size, Entry, Volume, Cached, IsVolume
<1>3. CASE ~win.wflag
  BY <1>1, <1>3 DEF Size, Entry, Volume, Cached, IsClean
<1> QED BY <1>2, <1>3

(* saved allows for more, for what the directory on the card or in the window names *)
Widens ==
  /\ SavedOK'
  /\ \A g \in Files : \A n \in {card[Dir][g].size, Volume[Dir][g].size} :
       /\ saved'[g].least <= n /\ n <= Len(saved'[g].recs)
       /\ \A i \in 1 .. n : saved[g].recs[i] \subseteq saved'[g].recs[i]

LEMMA StartKept ==
  ASSUME Inv, FilesOK, NEW kind \in {"read", "write", "save"}, NEW f \in Files, NEW pos, NEW val,
         Start(kind, f, pos, val), Widens, Widened', kind = "save" => saved'[Conf].least = 0
  PROVE  FilesOK'
<1>1. Types /\ Calls /\ Chains /\ Stored /\ Same /\ Agree /\ SavedOK
  BY Unmoved DEF Inv, Start, FilesOK, Stored
<1>2. /\ pc = "idle" /\ pc' = "open" /\ card' = card /\ data' = data /\ Volume' = Volume
      /\ op'.kind = kind
  BY <1>1 DEF Start, Same
<1>3. ~IsOpen' /\ Loose' = 0 /\ ~Truncated
  BY <1>2 DEF IsOpen, Loose, Truncated, Working, Creating, Closing
<1>4. Agree'
  <2>1. \A i \in Owners : First(i)' = First(i) \/ First(i)' \notin Clusters
    BY <1>2, <1>3, FirstsStay
  <2>2. \A d \in Clusters : Fat(Volume', d) = Fat(Volume, d)
    BY <1>2
  <2> QED BY <1>1, <1>2, <1>3, <2>1, <2>2, AgreeSteady
<1>5. ASSUME NEW v \in {card, Volume} PROVE KeptOn(v, data', saved')
  <2>1. ASSUME NEW g \in Files PROVE Holds(Named(v, g), data, v[Dir][g].size, saved'[g])
    <3> DEFINE n == v[Dir][g].size
               su == saved'[g]
    <3>1. n \in Nat
      BY <1>1, VolumeNow, VolumeParts DEF EntrySet
    <3>2. Named(v, g) \in Seq(Clusters) /\ Holds(Named(v, g), data, n, saved[g])
      BY <1>1, EntryFirst DEF Stored, KeptOn
    <3>3. su.least <= n /\ n <= Len(su.recs) /\ \A i \in 1 .. n : saved[g].recs[i] \subseteq su.recs[i]
      BY DEF Widens
    <3>4. su.least \in Nat /\ su.recs \in Seq(SUBSET Values)
      BY DEF Widens, SavedOK
    <3> HIDE DEF n, su
    <3>5. Holds(Named(v, g), data, n, su)
      BY <3>1, <3>2, <3>3, <3>4, HoldsWider
    <3> QED BY <3>5 DEF n, su
  <2> QED BY <1>2, <2>1 DEF KeptOn
<1>6. Stored'
  <2>1. KeptOn(card', data', saved') /\ KeptOn(Volume', data', saved')
    BY <1>2, <1>5
  <2>2. Grows'
    BY <1>1, <1>2 DEF Stored, Grows
  <2> QED BY <1>4, <2>1, <2>2 DEF Stored, Widens
<1>7. OpenKept' /\ Fresh' /\ Written' /\ Reading'
  BY <1>2, <1>3 DEF OpenKept, Fresh, Written, Reading, Closing, Working, Creating
<1>8. Pointer'
  BY <1>2 DEF Pointer, OnTheWay, ToTransfer, Creating, Working
<1> QED BY <1>6, <1>7, <1>8 DEF FilesOK, Doing

(* The sizes in the directory are within what saved says. *)
LEMMA SizesKept ==
  ASSUME Inv, Stored, NEW g \in Files, NEW n \in {card[Dir][g].size, Volume[Dir][g].size}
  PROVE  /\ n \in Nat /\ saved[g].least <= n /\ n <= Len(saved[g].recs)
         /\ saved[g].least \in Nat /\ saved[g].recs \in Seq(SUBSET Values) /\ Len(saved[g].recs) \in Nat
         /\ g \in Images => n <= Volume[Dir][g].size
<1>1. Types /\ SavedOK /\ Volume[Dir][g] \in EntrySet /\ card[Dir][g] \in EntrySet
  BY VolumeNow, VolumeParts DEF Inv, Stored
<1>2. n \in Nat /\ saved[g].least \in Nat /\ saved[g].recs \in Seq(SUBSET Values) /\ Len(saved[g].recs) \in Nat
  BY <1>1 DEF EntrySet, SavedOK
<1>3. n \in saved[g].least .. Len(saved[g].recs)
  BY DEF Stored, KeptOn, Holds
<1>4. g \in Images => n <= Volume[Dir][g].size
  BY <1>1 DEF Stored, Grows, EntrySet
<1> QED BY <1>2, <1>3, <1>4

LEMMA ReadAskedKept ==
  ASSUME Inv, FilesOK, NEW f \in Files, NEW pos \in Nat, ReadRecord(f, pos)
  PROVE  FilesOK'
<1>1. Start("read", f, pos, Blank) /\ saved' = saved /\ Stored /\ SavedOK
  BY DEF ReadRecord, FilesOK, Stored
<1>2. Widens
  BY <1>1, SizesKept DEF Widens, SavedOK
<1>3. Widened'
  BY <1>1 DEF Start, Widened, Writes
<1> QED BY <1>1, <1>2, <1>3, StartKept

LEMMA WriteAskedKept ==
  ASSUME Inv, FilesOK, NEW f \in Images, NEW pos \in Nat, NEW val \in Data, WriteRecord(f, pos, val)
  PROVE  FilesOK'
<1>1. Start("write", f, pos, val) /\ Stored /\ SavedOK /\ Types /\ f \in Files /\ val \in Values
  BY DEF WriteRecord, FilesOK, Stored, Inv, Files, Values
<1> DEFINE size == Volume[Dir][f].size
           old == saved[f].recs
           len == IF pos < size THEN Len(old) ELSE pos + 1
           recs == [i \in 1 .. len |->
                      IF i # pos + 1 THEN IF i <= size THEN old[i] ELSE Values
                      ELSE IF pos < size THEN old[i] \cup {val} ELSE {val}]
<1>2. /\ size \in Nat /\ size <= Len(old) /\ old \in Seq(SUBSET Values) /\ Len(old) \in Nat
      /\ saved[f].least \in Nat
      /\ \A n \in {card[Dir][f].size, Volume[Dir][f].size} : n \in Nat /\ saved[f].least <= n /\ n <= size
  BY <1>1, SizesKept
<1>3. saved' = [saved EXCEPT ![f].recs = recs]
  BY <1>1, SizeNow DEF WriteRecord, Known
<1>4. len \in Nat /\ size <= len /\ pos < len
  BY <1>2
<1>5. ASSUME NEW i \in 1 .. len PROVE recs[i] \in SUBSET Values /\ (i <= size => old[i] \subseteq recs[i])
  <2>1. i <= size => i \in 1 .. Len(old)
    BY <1>2
  <2>2. i <= size => old[i] \in SUBSET Values
    BY <1>2, <2>1
  <2>3. i = pos + 1 => (i <= size <=> pos < size)
    BY <1>2
  <2> QED BY <1>1, <2>2, <2>3
<1>6. recs \in Seq(SUBSET Values) /\ Len(recs) = len
  <2>1. recs \in [1 .. len -> SUBSET Values]
    BY <1>5
  <2> HIDE DEF recs, len
  <2> QED BY <1>4, <2>1
<1>7. recs[pos + 1] = IF pos < size THEN old[pos + 1] \cup {val} ELSE {val}
  <2>1. pos + 1 \in 1 .. len
    BY <1>4
  <2> QED BY <2>1
<1>8. \A i \in 1 .. pos : i > size => recs[i] = Values
  <2>1. \A i \in 1 .. pos : i \in 1 .. len /\ i # pos + 1
    BY <1>4
  <2> QED BY <1>2, <2>1
<1>9. /\ saved'[f].least = saved[f].least /\ saved'[f].recs = recs /\ saved' \in [Files -> [least : Nat, recs : Seq(SUBSET Values)]]
      /\ \A g \in Files \ {f} : saved'[g] = saved[g]
  <2> HIDE DEF recs
  <2> QED BY <1>1, <1>2, <1>3, <1>6 DEF SavedOK
<1>10. Widens
  <2>1. ASSUME NEW g \in Files, NEW n \in {card[Dir][g].size, Volume[Dir][g].size}
        PROVE  /\ saved'[g].least <= n /\ n <= Len(saved'[g].recs)
               /\ \A i \in 1 .. n : saved[g].recs[i] \subseteq saved'[g].recs[i]
    <3>1. CASE g = f
      <4>1. n \in Nat /\ saved[f].least <= n /\ n <= size
        BY <1>2, <3>1
      <4>2. \A i \in 1 .. n : i \in 1 .. len /\ i <= size
        BY <1>2, <1>4, <4>1
      <4>3. \A i \in 1 .. n : old[i] \subseteq recs[i]
        BY <1>5, <4>2
      <4> HIDE DEF recs, len, size
      <4> QED BY <1>2, <1>4, <1>6, <1>9, <3>1, <4>1, <4>3
    <3>2. CASE g # f
      <4>1. saved'[g] = saved[g]
        BY <1>9, <3>2
      <4> QED BY <1>1, <4>1, SizesKept
    <3> QED BY <3>1, <3>2
  <2> QED BY <1>9, <2>1 DEF Widens, SavedOK
<1>11. Widened'
  <2>1. op' = [kind |-> "write", file |-> f, pos |-> pos, val |-> val, ok |-> FALSE]
    BY <1>1 DEF Start
  <2>2. Volume' = Volume
    BY <1>1 DEF Start, Volume, Cached
  <2>3. op'.file = f /\ op'.pos = pos /\ op'.val = val /\ Volume'[Dir][op'.file].size = size
    BY <2>1, <2>2
  <2>4. val \in recs[pos + 1]
    BY <1>7
  <2> HIDE DEF recs, len, size
  <2> QED BY <1>4, <1>6, <1>8, <1>9, <2>3, <2>4 DEF Widened
<1> HIDE DEF recs, len, size
<1> QED BY <1>1, <1>10, <1>11, StartKept

LEMMA SaveAskedKept ==
  ASSUME Inv, FilesOK, NEW val \in Data, SaveConfig(val)
  PROVE  FilesOK'
<1>1. Start("save", Conf, 0, val) /\ Stored /\ SavedOK /\ Types /\ Conf \in Files /\ val \in Values
  BY DEF SaveConfig, FilesOK, Stored, Inv, Files, Values
<1> DEFINE old == saved[Conf].recs
           recs == IF old = <<>> THEN <<{val}>> ELSE [old EXCEPT ![1] = @ \cup {val}]
<1>2. old \in Seq(SUBSET Values) /\ Len(old) \in Nat
  BY <1>1, SizesKept
<1>3. saved' = [saved EXCEPT ![Conf] = [least |-> 0, recs |-> recs]]
  BY <1>1 DEF SaveConfig, SavedOK
<1>4. /\ recs \in Seq(SUBSET Values) /\ Len(recs) > 0 /\ Len(old) <= Len(recs) /\ val \in recs[1]
      /\ \A i \in 1 .. Len(old) : old[i] \subseteq recs[i]
  <2>1. CASE old = <<>>
    <3>1. recs = <<{val}>> /\ Len(old) = 0
      BY <2>1
    <3>2. {val} \in SUBSET Values
      BY <1>1
    <3> HIDE DEF recs, old
    <3> QED BY <3>1, <3>2
  <2>2. CASE old # <<>>
    <3> HIDE DEF old
    <3>1. Len(old) > 0 /\ 1 \in 1 .. Len(old)
      BY <1>2, <2>2
    <3>2. old[1] \cup {val} \in SUBSET Values
      BY <1>1, <1>2, <3>1
    <3>3. recs = [old EXCEPT ![1] = old[1] \cup {val}]
      BY <2>2
    <3> HIDE DEF recs
    <3> QED BY <1>2, <3>1, <3>2, <3>3
  <2> QED BY <2>1, <2>2
<1> HIDE DEF recs
<1>5. /\ saved'[Conf].least = 0 /\ saved'[Conf].recs = recs /\ saved' \in [Files -> [least : Nat, recs : Seq(SUBSET Values)]]
      /\ \A g \in Files \ {Conf} : saved'[g] = saved[g]
  BY <1>1, <1>3, <1>4 DEF SavedOK
<1>6. Widens
  <2>1. ASSUME NEW g \in Files, NEW n \in {card[Dir][g].size, Volume[Dir][g].size}
        PROVE  /\ saved'[g].least <= n /\ n <= Len(saved'[g].recs)
               /\ \A i \in 1 .. n : saved[g].recs[i] \subseteq saved'[g].recs[i]
    <3>1. CASE g = Conf
      <4>1. n \in Nat /\ n <= Len(old)
        BY <1>1, <3>1, SizesKept
      <4> HIDE DEF old
      <4>2. \A i \in 1 .. n : i \in 1 .. Len(old)
        BY <1>2, <4>1
      <4>3. \A i \in 1 .. n : old[i] \subseteq recs[i]
        BY <1>4, <4>2
      <4> QED BY <1>2, <1>4, <1>5, <3>1, <4>1, <4>3 DEF old
    <3>2. CASE g # Conf
      <4>1. saved'[g] = saved[g]
        BY <1>5, <3>2
      <4> QED BY <1>1, <4>1, SizesKept
    <3> QED BY <3>1, <3>2
  <2> QED BY <1>5, <2>1 DEF Widens, SavedOK
<1>7. Widened'
  <2>1. op' = [kind |-> "save", file |-> Conf, pos |-> 0, val |-> val, ok |-> FALSE]
    BY <1>1 DEF Start
  <2>2. op'.file = Conf /\ op'.pos = 0 /\ op'.val = val /\ 0 + 1 = 1
    BY <2>1
  <2>3. \A i \in 1 .. 0 : FALSE
    OBVIOUS
  <2> QED BY <1>4, <1>5, <2>2, <2>3 DEF Widened
<1> QED BY <1>1, <1>5, <1>6, <1>7, StartKept

LEMMA RequestKept ==
  ASSUME Inv, FilesOK, Request
  PROVE  FilesOK'
<1>1. Positions \subseteq Nat /\ 0 \in Nat /\ Conf \in Files /\ Images \subseteq Files
  BY DEF Positions, Files
<1>2. CASE ReadRecord(Conf, 0)
  BY <1>1, <1>2, ReadAskedKept
<1>3. CASE \E f \in Images, p \in Positions : ReadRecord(f, p)
  BY <1>1, <1>3, ReadAskedKept
<1>4. CASE \E f \in Images, p \in Positions, v \in Data : WriteRecord(f, p, v)
  BY <1>1, <1>4, WriteAskedKept
<1>5. CASE \E v \in Data : SaveConfig(v)
  BY <1>5, SaveAskedKept
<1> QED BY <1>2, <1>3, <1>4, <1>5 DEF Request

-----------------------------------------------------------------------------
(* Only what is on the card counts after f_mount(). *)
LEMMA RemountKept ==
  ASSUME Inv, FilesOK, Remount
  PROVE  FilesOK'
<1>1. /\ card' = card /\ data' = data /\ saved' = saved /\ win' = Unread /\ op' = NoOp /\ pc' = "idle"
      /\ Types /\ Chains /\ Stored
  BY DEF Remount, Mounted, Inv, FilesOK
<1>2. Volume' = card
  BY <1>1 DEF Volume, Cached, Unread
<1>3. ~IsOpen' /\ Loose' = 0
  BY <1>1 DEF IsOpen, Loose, Working, Creating, Closing
<1>4. Firsts' = [i \in Owners |-> IF i = NoFile THEN 0 ELSE card[Dir][i].sclust]
  BY <1>2, <1>3 DEF Firsts, First
<1>5. Agree'
  <2>1. Linked(card, Firsts')
    BY <1>1, <1>4, FromOrder DEF Chains
  <2>2. \A f \in Files : card[Dir][f].sclust = Firsts'[f]
    BY <1>4, FilesOwn
  <2> HIDE DEF Firsts, Truncated
  <2>3. Agreed(card, card, Firsts', Truncated')
    BY <2>1, <2>2, AgreedSelf
  <2> QED BY <1>1, <1>2, <2>3 DEF Agree
<1>6. Stored'
  <2>1. Grows'
    BY <1>1, <1>2, VolumeNow, VolumeParts DEF Grows, Files, EntrySet
  <2> QED BY <1>1, <1>2, <1>5, <2>1 DEF Stored, SavedOK
<1>7. Doing'
  BY <1>1, DoingIdle
<1> QED BY <1>6, <1>7 DEF FilesOK

LEMMA StutterKept ==
  ASSUME Inv, FilesOK, UNCHANGED vars
  PROVE  FilesOK'
<1>1. UNCHANGED <<card, data, win, op, fp, pc, x, saved>>
  BY DEF vars, ghosts
<1>2. Types /\ Volume' = Volume /\ Stored /\ Doing /\ Agree
  BY <1>1 DEF Volume, Cached, Inv, FilesOK, Stored
<1>3. (IsOpen' <=> IsOpen) /\ Loose' = Loose /\ Own' = Own /\ (Truncated' <=> Truncated) /\ View' = View
  BY <1>1, <1>2 DEF IsOpen, Loose, Own, Truncated, View
<1>4. Firsts' = Firsts
  BY <1>1, <1>2, <1>3 DEF Firsts, First
<1>5. Agree'
  BY <1>1, <1>2, <1>3, <1>4 DEF Agree, Agreed
<1>6. Stored'
  BY <1>1, <1>2, <1>5, StoredSteady
<1>7. OpenKept' /\ Fresh' /\ Widened' /\ Written' /\ Reading'
  BY <1>1, <1>2, <1>3 DEF Doing, OpenKept, Fresh, Widened, Written, Reading, Writes
<1>8. Pointer'
  BY <1>1, <1>2 DEF Doing, Pointer, OnTheWay, ToTransfer, Aimed, Writes, OnBoundary, Full, AtFirst, Examined
<1> QED BY <1>6, <1>7, <1>8 DEF FilesOK, Doing

LEMMA InitKept ==
  ASSUME Init
  PROVE  FilesOK
<1>1. Inv /\ Types /\ Chains
  BY InitInv DEF Inv
<1>2. /\ data = [c \in Clusters |-> [r \in Records |-> Blank]] /\ win = Unread /\ op = NoOp /\ pc = "idle"
      /\ saved = [f \in Files |-> [least |-> Entry(f).size, recs |-> [i \in 1 .. Entry(f).size |-> {Blank}]]]
  BY DEF Init
<1>3. Volume = card
  BY <1>2 DEF Volume, Cached, Unread
<1>4. ASSUME NEW f \in Files
      PROVE  /\ card[Dir][f].size \in Nat /\ saved[f].least = card[Dir][f].size
             /\ saved[f].recs = [i \in 1 .. card[Dir][f].size |-> {Blank}]
             /\ saved[f] \in [least : Nat, recs : Seq(SUBSET Values)] /\ Len(saved[f].recs) = card[Dir][f].size
  <2>1. card[Dir][f].size \in Nat
    BY <1>1, VolumeNow, VolumeParts DEF EntrySet
  <2>2. /\ saved[f] = [least |-> card[Dir][f].size, recs |-> [i \in 1 .. card[Dir][f].size |-> {Blank}]]
    BY <1>2 DEF Entry
  <2> DEFINE recs == [i \in 1 .. card[Dir][f].size |-> {Blank}]
  <2>3. recs \in [1 .. card[Dir][f].size -> SUBSET Values]
    BY DEF Values
  <2> HIDE DEF recs
  <2>4. recs \in Seq(SUBSET Values) /\ Len(recs) = card[Dir][f].size
    BY <2>1, <2>3
  <2>5. saved[f] = [least |-> card[Dir][f].size, recs |-> recs]
    BY <2>2 DEF recs
  <2>6. saved[f] \in [least : Nat, recs : Seq(SUBSET Values)] /\ saved[f].recs = recs /\ saved[f].least = card[Dir][f].size
    BY <2>1, <2>4, <2>5
  <2> QED BY <2>1, <2>4, <2>6 DEF recs
<1>5. KeptOn(card, data, saved)
  <2>1. ASSUME NEW f \in Files PROVE Holds(Named(card, f), data, card[Dir][f].size, saved[f])
    <3>1. Named(card, f) \in Seq(Clusters)
      BY <1>1, EntryFirst
    <3>2. ASSUME NEW k \in 1 .. Len(Named(card, f)), NEW r \in Records, Place(k, r) <= card[Dir][f].size
          PROVE  data[Named(card, f)[k]][r] \in saved[f].recs[Place(k, r)]
      <4>1. Named(card, f)[k] \in Clusters /\ k \in Nat \ {0}
        BY <3>1
      <4>2. Place(k, r) \in Nat \ {0}
        BY <4>1, PlaceOf
      <4>3. Place(k, r) \in 1 .. card[Dir][f].size
        BY <1>4, <3>2, <4>2
      <4> QED BY <1>2, <1>4, <4>1, <4>3
    <3>3. \A n \in Nat : n \in n .. n
      OBVIOUS
    <3>4. card[Dir][f].size \in saved[f].least .. Len(saved[f].recs)
      <4>1. card[Dir][f].size \in Nat /\ saved[f].least = card[Dir][f].size /\ Len(saved[f].recs) = card[Dir][f].size
        BY <1>4
      <4> QED BY <3>3, <4>1
    <3> QED BY <3>2, <3>4 DEF Holds
  <2> QED BY <2>1 DEF KeptOn
<1>6. SavedOK
  BY <1>2, <1>4 DEF SavedOK
<1>7. Agree
  <2>1. \A f \in Files : Volume[Dir][f].sclust \in Clusters => Volume[Dir][f].sclust = Firsts[f]
    BY <1>1, EntryFirst
  <2> HIDE DEF Firsts, Truncated
  <2>2. Agreed(Volume, Volume, Firsts, Truncated)
    BY <1>1, <2>1, AgreedSelf DEF Chains
  <2> QED BY <1>3, <2>2 DEF Agree
<1>8. Grows
  <2>1. \A f \in Images : card[Dir][f].size \in Nat
    BY <1>4 DEF Files
  <2>2. \A n \in Nat : n <= n
    OBVIOUS
  <2>3. \A f \in Images : card[Dir][f].size <= card[Dir][f].size
    BY <2>1, <2>2
  <2> QED BY <1>3, <2>3 DEF Grows
<1>9. Stored
  BY <1>3, <1>5, <1>6, <1>7, <1>8 DEF Stored
<1>10. pc \notin Working /\ pc \notin Closing /\ pc \notin Creating /\ ~Writes /\ op.kind = "none"
  BY <1>2 DEF Working, Closing, Creating, Writes, NoOp
<1>11. OpenKept /\ Fresh /\ Widened /\ Written /\ Reading
  BY <1>10 DEF OpenKept, Fresh, Widened, Written, Reading
<1>12. Pointer
  BY <1>2, <1>10 DEF Pointer, OnTheWay, ToTransfer
<1> QED BY <1>9, <1>11, <1>12 DEF FilesOK, Doing

-----------------------------------------------------------------------------
(* create_chain() is called. *)
LEMMA CreateKept ==
  ASSUME Inv, FilesOK, pc \in Working \ Creating, Loose = 0, op.kind # "read", UNCHANGED <<card, win, faults, data, saved>>,
         NEW clst \in {0} \cup Clusters, NEW ret \in {"first", "sought", "fill"}, NEW locals \in Locals,
         CreateChain(clst, ret, locals),
         fp' \in FileObjects, fp'.sclust = fp.sclust, fp'.dirty = fp.dirty, fp'.fptr <= fp'.objsize,
         fp.objsize <= fp'.objsize, fp'.objsize = fp.objsize \/ fp'.objsize <= op.pos,
         ret # "fill" => fp'.fptr + locals.ofs <= op.pos /\ (op.kind = "write" => fp'.fptr + locals.ofs = op.pos),
         ret = "fill" => fp' = fp /\ pc = "transfer"
  PROVE  FilesOK'
<1>1. Types /\ Calls /\ Chains /\ Pointer
  BY DEF Inv, FilesOK, Doing
<1>2. op' = op /\ pc' = (IF clst # 0 THEN "stretch" ELSE "search")
  BY DEF CreateChain, Goto
<1>3. /\ x'.ret = ret /\ x'.ofs = locals.ofs /\ (clst = 0 => x'.ncl = x'.scl /\ x'.scl \in Int)
  BY <1>1 DEF CreateChain, Locals, Types
<1>4. Same /\ pc \in Working /\ pc # "idle" /\ Volume' = Volume
  BY <1>1, Unmoved DEF Same, Working, Creating
<1>5. Writes /\ ~fp.dirty
  BY <1>1, <1>4 DEF Writes, Types, Calls, Requests, Pointer
<1>6. Continuing
  BY <1>2, <1>4, <1>5 DEF Continuing
<1>7. Loose' = 0 /\ pc' \in Creating /\ pc' \in Working
  BY <1>2 DEF Loose, Creating, Working
<1>8. Stored' /\ OpenKept' /\ Fresh' /\ Widened'
  BY <1>6, <1>7, GoesOn
<1>9. Pointer'
  <2>1. pc' = "search" => Examined' = {}
    BY <1>2, <1>3, VolumeAssumption DEF Examined, Clusters
  <2>2. ret = "fill" => Aimed'
    <3>1. pc = "transfer" => Aimed
      BY <1>1, <1>5 DEF Pointer, ToTransfer
    <3> QED BY <1>2, <1>4, <3>1 DEF Aimed, OnBoundary, Full, AtFirst
  <2>3. (OnTheWay' <=> ret # "fill") /\ (ToTransfer' <=> ret = "fill")
    BY <1>2, <1>3, <1>7 DEF OnTheWay, ToTransfer
  <2> QED BY <1>2, <1>3, <1>5, <2>1, <2>2, <2>3 DEF Pointer
<1>10. Written' /\ Reading'
  BY <1>2 DEF Written, Reading, Closing
<1> QED BY <1>8, <1>9, <1>10 DEF FilesOK, Doing

(* What follows "close" is no concern of the pointer any more. *)
LEMMA PointerClosed ==
  ASSUME pc' = "close"
  PROVE  Pointer'
BY DEF Pointer, OnTheWay, ToTransfer, Creating, Working

(* The transfer fails, and the program closes the file. *)
LEMMA AbortKept ==
  ASSUME Inv, FilesOK, pc \in Working, Same, data' = data, saved' = saved, Abort, fp' \in FileObjects, op.kind # "read",
         fp'.sclust = fp.sclust, fp'.dirty = fp.dirty, fp.objsize <= fp'.objsize,
         fp'.objsize = fp.objsize \/ fp'.objsize <= op.pos
  PROVE  FilesOK'
<1>1. Types /\ Calls /\ Pointer /\ pc # "idle" /\ op \in Requests
  BY DEF Inv, FilesOK, Doing, Working, Creating, Types
<1>2. /\ pc' = "close" /\ op'.kind = op.kind /\ op'.file = op.file /\ op'.pos = op.pos /\ op'.val = op.val /\ op'.ok = FALSE
  BY <1>1 DEF Abort, ThenClose, Requests
<1>3. Writes /\ ~fp.dirty
  BY <1>1 DEF Writes, Types, Calls, Requests, Pointer
<1>4. Continuing
  BY <1>2, <1>3 DEF Continuing
<1>5. Loose' = 0
  BY <1>2 DEF Loose
<1>6. Stored' /\ OpenKept' /\ Fresh' /\ Widened'
  BY <1>4, <1>5, GoesOn
<1>7. Written' /\ Reading'
  BY <1>2, <1>3 DEF Written, Reading
<1> QED BY <1>2, <1>6, <1>7, PointerClosed DEF FilesOK, Doing

(* Reading ends. *)
LEMMA ReadEnds ==
  ASSUME Inv, FilesOK, pc \in Working, Same, data' = data, saved' = saved, op.kind = "read", ~fp'.modified,
         NEW ok \in BOOLEAN, NEW val, ThenClose(ok, val),
         ok => op.pos < Len(saved[op.file].recs) /\ val \in saved[op.file].recs[op.pos + 1]
  PROVE  FilesOK'
<1>1. Types /\ Stored /\ pc # "remove" /\ op \in Requests
  BY DEF Inv, FilesOK, Working, Creating, Types
<1>2. /\ pc' = "close" /\ op'.kind = "read" /\ op'.file = op.file /\ op'.pos = op.pos /\ op'.val = val /\ op'.ok = ok
  BY <1>1 DEF ThenClose, Requests
<1>3. ~IsOpen' /\ Loose' = 0
  BY <1>2 DEF IsOpen, Loose, Working, Creating
<1>4. Stored'
  BY <1>1, <1>3, StoredSame
<1>5. Reading'
  BY <1>2 DEF Reading, Working, Creating
<1> QED BY <1>2, <1>4, <1>5, PointerClosed, DoingRead DEF FilesOK

(* f_lseek() goes on in a file that is read. *)
LEMMA SeekReadKept ==
  ASSUME Inv, FilesOK, pc \in {"seek", "sought"}, Same, UNCHANGED <<data, saved, op>>, op.kind = "read",
         fp'.sclust = fp.sclust, fp'.objsize = fp.objsize, fp'.fptr <= fp.objsize,
         \/ pc' = "sought" /\ Valid(x'.res) /\ fp'.fptr + x'.ofs = (fp.fptr + x.ofs)
         \/ pc' = "transfer" /\ fp'.fptr = fp.fptr + x.ofs /\ (~OnBoundary' => fp'.buf = data[fp'.sect])
  PROVE  FilesOK'
<1>1. Types /\ Calls /\ Chains /\ Stored /\ Pointer /\ Reading /\ pc \in Working /\ pc' \in Working
  BY DEF Inv, FilesOK, Doing, Working
<1>2. Volume' = Volume /\ Loose' = 0 /\ IsOpen
  BY <1>1 DEF Same, Loose, IsOpen
<1>3. Stored'
  BY <1>1, <1>2, StoredSame
<1>4. /\ fp.fptr + x.ofs \in {op.pos, fp.objsize} /\ fp.fptr + x.ofs <= fp.objsize /\ fp.fptr + x.ofs <= op.pos
  <2>1. fp.fptr \in Nat /\ x.ofs \in Nat /\ (pc = "seek" => fp.fptr = 0 /\ x.ofs <= fp.objsize)
    BY <1>1 DEF Types, FileObjects, Locals, Chains, PlaceOK
  <2> QED BY <1>1, <2>1 DEF Reading, Pointer, OnTheWay
<1>5. Reading'
  BY <1>1, <1>2, <1>4 DEF Reading
<1>6. Pointer'
  <2>1. pc' \notin Creating /\ ~Writes'
    BY DEF Creating, Writes
  <2>2. Valid(x'.res) => x'.res # NoSpace
    BY DEF Valid, NoSpace, Clusters
  <2> QED BY <1>1, <1>4, <2>1, <2>2 DEF Pointer, OnTheWay
<1> QED BY <1>3, <1>5, <1>6, DoingRead DEF FilesOK

(* f_lseek() has arrived, or the card is full, in a file that is written. *)
LEMMA SeekWriteKept ==
  ASSUME Inv, FilesOK, pc \in {"seek", "first", "sought"}, Same, UNCHANGED <<data, saved, op>>, op.kind # "read",
         fp' \in FileObjects, fp'.sclust = fp.sclust, fp'.dirty = fp.dirty, fp'.fptr <= fp'.objsize,
         fp.objsize <= fp'.objsize, fp'.objsize = fp.objsize \/ fp'.objsize <= op.pos,
         pc' = "transfer", ~OnBoundary' => fp'.buf = data[fp'.sect], Aimed'
  PROVE  FilesOK'
<1>1. Types /\ Calls /\ Pointer /\ pc \in Working /\ pc' \in Working /\ pc # "idle" /\ pc' \notin Creating
  BY DEF Inv, FilesOK, Doing, Working, Creating
<1>2. Writes /\ ~fp.dirty
  BY <1>1 DEF Writes, Types, Calls, Requests, Pointer
<1>3. Continuing
  BY <1>1, <1>2 DEF Continuing
<1>4. Loose' = 0
  BY DEF Loose
<1>5. Stored' /\ OpenKept' /\ Fresh' /\ Widened'
  BY <1>3, <1>4, GoesOn
<1>6. Pointer'
  BY <1>1, <1>2 DEF Pointer, OnTheWay
<1>7. Written' /\ Reading'
  BY <1>1, <1>2 DEF Written, Reading, Closing
<1> QED BY <1>5, <1>6, <1>7 DEF FilesOK, Doing

(* f_lseek() comes to rest. *)
LEMMA SeekEndKept ==
  ASSUME Inv, FilesOK, pc \in {"seek", "sought"}, UNCHANGED <<data, last_clst, saved>>, NEW clst \in Clusters, NEW ofs \in Nat,
         SeekEnd(clst, ofs),
         op.kind = "read" => ofs = x.ofs /\ fp.fptr + ofs <= fp.objsize,
         op.kind # "read" =>
           /\ fp.fptr + ofs <= op.pos
           /\ \/ fp.fptr + ofs = op.pos
              \/ (fp.fptr + ofs) % PerSector = 0 /\ fp.fptr + ofs > 0 /\ Full /\ Fat(Volume, clst) = EOC
  PROVE  FilesOK'
<1> DEFINE ptr == fp.fptr + ofs
           to == Pointed(ptr, clst)
<1>1. Types /\ Calls /\ fp \in FileObjects /\ op.pos \in Nat /\ pc \in Working /\ op.file \in Files
  BY DEF Inv, Types, Working, Requests, Calls, Creating
<1>2. /\ card' = card /\ win' = win
      /\ IF to.fptr % PerSector = 0
           THEN fp' = to /\ x' = NoLocals /\ Goto("transfer") /\ UNCHANGED faults
           ELSE \/ fp' = [to EXCEPT !.sect = clst, !.buf = data[clst]] /\ x' = NoLocals /\ Goto("transfer") /\ UNCHANGED faults
                \/ fp' = to /\ Abort /\ Fault(TRUE)
  BY DEF SeekEnd, Pointed
<1>3. ptr \in Nat /\ fp.objsize \in Nat
  BY <1>1 DEF FileObjects
<1>4. /\ to \in FileObjects /\ to.fptr = ptr /\ to.clust = clst /\ to.sclust = fp.sclust
      /\ to.objsize = (IF ForWriting /\ ptr > fp.objsize THEN ptr ELSE fp.objsize)
      /\ (op.kind = "read" => to.modified = fp.modified)
      /\ to.buf = fp.buf /\ to.dirty = fp.dirty
  <2>1. clst \in {0} \cup Clusters
    OBVIOUS
  <2> HIDE DEF ptr
  <2> QED BY <1>1, <1>3, <2>1, AtPointer
<1> HIDE DEF to
<1>5. Same
  <2>1. faults' \in {faults, faults + 1}
    BY <1>2 DEF Fault
  <2> QED BY <1>1, <1>2, <2>1, Unmoved
<1>6. CASE Goto("transfer") /\ (fp' = [to EXCEPT !.sect = clst, !.buf = data[clst]] \/ (fp' = to /\ ptr % PerSector = 0))
  <2>1. data[clst] \in [Records -> Values]
    BY <1>1 DEF Types
  <2>2. /\ fp' \in FileObjects /\ fp'.fptr = ptr /\ fp'.sclust = fp.sclust /\ fp'.clust = clst
        /\ fp'.objsize = to.objsize /\ fp'.dirty = fp.dirty
        /\ (ptr % PerSector # 0 => fp'.buf = data[fp'.sect])
    BY <1>4, <1>6, <2>1 DEF FileObjects
  <2>3. pc' = "transfer" /\ op' = op /\ (~OnBoundary' => fp'.buf = data[fp'.sect])
    BY <1>6, <2>2 DEF Goto, OnBoundary
  <2>4. CASE op.kind = "read"
    <3>1. fp'.objsize = fp.objsize /\ fp'.fptr <= fp.objsize /\ fp'.fptr = fp.fptr + x.ofs
      BY <1>4, <2>2, <2>4 DEF ForWriting
    <3> QED BY <1>5, <2>2, <2>3, <2>4, <3>1, SeekReadKept
  <2>5. CASE op.kind # "read"
    <3>1. ptr <= op.pos /\ (ptr = op.pos \/ (ptr % PerSector = 0 /\ ptr > 0 /\ Full /\ Fat(Volume, clst) = EOC))
      BY <2>5
    <3>2. /\ fp'.fptr <= fp'.objsize /\ fp.objsize <= fp'.objsize
          /\ fp'.objsize = fp.objsize \/ fp'.objsize <= op.pos
      <4> HIDE DEF ptr
      <4> QED BY <1>1, <1>3, <1>4, <2>2, <2>5, <3>1 DEF ForWriting
    <3>3. Aimed'
      <4>1. Volume' = Volume
        BY <1>5 DEF Same
      <4> HIDE DEF ptr
      <4> QED BY <1>1, <1>3, <2>2, <2>3, <3>1, <4>1 DEF Aimed, OnBoundary, Full
    <3> QED BY <1>5, <2>2, <2>3, <2>5, <3>2, <3>3, SeekWriteKept
  <2> QED BY <2>4, <2>5
<1>7. CASE fp' = to /\ Abort
  <2>1. CASE op.kind = "read"
    <3>1. ~fp'.modified
      BY <1>1, <1>4, <1>7, <2>1 DEF Calls, Working, Creating
    <3> QED BY <1>1, <1>5, <1>7, <2>1, <3>1, ReadEnds DEF Abort
  <2>2. CASE op.kind # "read"
    <3>1. fp.objsize <= fp'.objsize /\ (fp'.objsize = fp.objsize \/ fp'.objsize <= op.pos)
      <4>1. ptr <= op.pos
        BY <2>2
      <4> HIDE DEF ptr
      <4> QED BY <1>1, <1>3, <1>4, <1>7, <4>1
    <3> QED BY <1>1, <1>4, <1>5, <1>7, <2>2, <3>1, AbortKept
  <2> QED BY <2>1, <2>2
<1> QED BY <1>2, <1>4, <1>6, <1>7

(* f_lseek() goes on to the next cluster. *)
LEMMA SeekStepKept ==
  ASSUME Inv, FilesOK, pc \in {"seek", "sought"}, UNCHANGED <<data, last_clst, saved>>, NEW clst \in Clusters,
         SeekStep(clst), x.ofs > PerSector, fp.fptr + x.ofs <= op.pos,
         op.kind = "read" => fp.fptr + x.ofs <= fp.objsize,
         op.kind = "write" => fp.fptr + x.ofs = op.pos
  PROVE  FilesOK'
<1> DEFINE ptr == fp.fptr + PerSector
<1>1. /\ Types /\ Calls /\ Pointer /\ fp \in FileObjects /\ x \in Locals /\ PerSector \in Nat /\ PerSector > 0 /\ op.pos \in Nat
      /\ pc \in Working \ Creating /\ Loose = 0
  BY SectorAssumption DEF Inv, FilesOK, Doing, Types, Requests, Working, Creating, Loose
<1>2. /\ ptr \in Nat /\ ptr < fp.fptr + x.ofs /\ fp.objsize \in Nat /\ fp.fptr \in Nat /\ x.ofs \in Nat
      /\ x.ofs - PerSector \in Nat /\ ptr + (x.ofs - PerSector) = fp.fptr + x.ofs
  BY <1>1 DEF FileObjects, Locals
<1> HIDE DEF ptr
<1>3. CASE op.kind # "read"
  <2>1. /\ fp' = Pointed(ptr, clst)
        /\ CreateChain(clst, "sought", [x EXCEPT !.ofs = @ - PerSector])
        /\ UNCHANGED <<card, win, faults>>
    BY <1>3 DEF SeekStep, Pointed, ptr, ForWriting
  <2>2. clst \in {0} \cup Clusters
    OBVIOUS
  <2>3. /\ fp' \in FileObjects /\ fp'.fptr = ptr /\ fp'.sclust = fp.sclust /\ fp'.dirty = fp.dirty
        /\ fp'.objsize = (IF ForWriting /\ ptr > fp.objsize THEN ptr ELSE fp.objsize)
    BY <1>1, <1>2, <2>1, <2>2, AtPointer
  <2> DEFINE locals == [x EXCEPT !.ofs = @ - PerSector]
  <2>4. locals \in Locals /\ locals.ofs = x.ofs - PerSector
    BY <1>1, <1>2 DEF Locals
  <2>5. CreateChain(clst, "sought", locals)
    BY <2>1
  <2> HIDE DEF locals
  <2>6. /\ fp'.fptr <= fp'.objsize /\ fp.objsize <= fp'.objsize
        /\ fp'.objsize = fp.objsize \/ fp'.objsize <= op.pos
    BY <1>1, <1>2, <1>3, <2>3 DEF ForWriting
  <2>7. fp'.fptr + locals.ofs <= op.pos /\ (op.kind = "write" => fp'.fptr + locals.ofs = op.pos)
    BY <1>2, <2>3, <2>4
  <2> QED BY <1>1, <1>3, <2>1, <2>2, <2>3, <2>4, <2>5, <2>6, <2>7, CreateKept
<1>4. CASE op.kind = "read"
  <2>1. PICK m \in move_window(FatSector(clst)) :
          /\ Window(m, m.win)
          /\ IF m.ok /\ Valid(get_fat(m, clst))
               THEN /\ fp' = [fp EXCEPT !.fptr = ptr, !.clust = get_fat(m, clst)]
                    /\ x' = [x EXCEPT !.ofs = @ - PerSector, !.res = get_fat(m, clst)]
                    /\ Goto("sought")
               ELSE Abort /\ UNCHANGED fp
    BY <1>4 DEF SeekStep, ptr, ForWriting
  <2>2. Same
    BY <1>1, <2>1, Glimpsed, SectorNumbers
  <2>3. CASE m.ok /\ Valid(get_fat(m, clst))
    <3> DEFINE cs == get_fat(m, clst)
    <3> HIDE DEF cs
    <3>1. /\ fp' = [fp EXCEPT !.fptr = ptr, !.clust = cs] /\ x' = [x EXCEPT !.ofs = @ - PerSector, !.res = cs]
          /\ pc' = "sought" /\ op' = op /\ Valid(cs)
      BY <2>1, <2>3 DEF Goto, cs
    <3>2. fp'.sclust = fp.sclust /\ fp'.objsize = fp.objsize /\ fp'.fptr = ptr
      BY <1>1, <3>1 DEF FileObjects
    <3>3. x'.res = cs /\ x'.ofs = x.ofs - PerSector
      BY <1>1, <3>1 DEF Locals
    <3>4. fp'.fptr <= fp.objsize /\ fp'.fptr + x'.ofs = fp.fptr + x.ofs
      BY <1>2, <1>4, <3>2, <3>3
    <3> QED BY <1>4, <2>2, <3>1, <3>2, <3>3, <3>4, SeekReadKept
  <2>4. CASE ~(m.ok /\ Valid(get_fat(m, clst)))
    <3>1. Abort /\ fp' = fp /\ ~fp.modified
      BY <1>1, <1>4, <2>1, <2>4 DEF Calls, Working, Creating
    <3> QED BY <1>1, <1>4, <2>2, <3>1, ReadEnds DEF Abort
  <2> QED BY <2>3, <2>4
<1> QED BY <1>3, <1>4

(* A file without records. *)
LEMMA HoldsNone ==
  ASSUME NEW s, NEW d, NEW sv, Holds(s, d, 0, sv), NEW t \in Seq(Clusters), NEW e
  PROVE  Holds(t, e, 0, sv)
<1>1. ASSUME NEW k \in 1 .. Len(t), NEW r \in Records PROVE ~(Place(k, r) <= 0)
  <2>1. k \in Nat \ {0}
    OBVIOUS
  <2>2. Place(k, r) \in Nat \ {0}
    BY <2>1, PlaceOf
  <2> QED BY <2>2
<1> QED BY <1>1, HoldsThere

(* The new cluster becomes the first one of the open file. *)
LEMMA AdoptedKept ==
  ASSUME Inv, FilesOK, pc \in {"first", "fill"}, fp.sclust = 0, Valid(x.res), Same, data' = data, saved' = saved,
         op'.kind = op.kind, op'.file = op.file, pc' \in {"sought", "close"}, IsOpen', fp'.sclust = x.res
  PROVE  Stored' /\ Fresh' /\ Own' = <<x.res>>
<1>1. Types /\ Calls /\ Chains /\ Stored /\ Fresh /\ Agree
  BY DEF Inv, FilesOK, Doing, Stored
<1>2. /\ IsOpen /\ pc # "sync" /\ op.file \in Files /\ x.res \in Clusters
      /\ Loose = x.res /\ Loose' = 0 /\ 0 \notin Clusters /\ Volume' = Volume /\ card' \in {card, Volume}
      /\ ~Truncated
  BY <1>1 DEF IsOpen, Calls, Working, Loose, Valid, Clusters, Same, Truncated
<1>3. Own' = <<x.res>>
  BY <1>1, <1>2 DEF Chains, PlaceOK, Own
<1>4. /\ First(op.file)' = First(NoFile) /\ First(NoFile)' = 0
      /\ \A i \in Files \ {op.file} : First(i)' = First(i)
      /\ Files \subseteq Owners /\ NoFile \in Owners /\ NoFile # op.file /\ First(op.file)' = fp'.sclust
  BY <1>2, FilesOwn DEF First
<1>5. /\ Firsts'[op.file] = Firsts[NoFile] /\ Firsts'[NoFile] = 0 /\ Firsts'[op.file] = fp'.sclust
      /\ \A i \in Files \ {op.file} : Firsts'[i] = Firsts[i]
  BY <1>2, <1>4 DEF Firsts
<1>6. Agreed(card', Volume, Firsts, FALSE)
  BY <1>1, <1>2, AgreedBoth
<1>7. Agreed(card', Volume', Firsts', FALSE) /\ Elsewhere(card', Volume', fp'.sclust)
  <2>1. ASSUME NEW c, NEW v, NEW h, NEW g, NEW f, c = card', v = Volume, h = Firsts, g = Firsts', f = op.file
        PROVE  Agreed(c, v, g, FALSE) /\ Elsewhere(c, v, g[f])
    <3>1. Agreed(c, v, h, FALSE)
      BY <1>6, <2>1
    <3>2. Adopts(h, f, g)
      BY <1>2, <1>5, <2>1 DEF Adopts
    <3> QED BY <3>1, <3>2, AgreedAdopt
  <2>2. Agreed(card', Volume, Firsts', FALSE) /\ Elsewhere(card', Volume, Firsts'[op.file])
    BY <2>1
  <2> QED BY <1>2, <1>5, <2>2
<1>8. Agree'
  BY <1>7, AgreedWeaker DEF Agree
<1>9. Stored'
  BY <1>1, <1>2, <1>8, StoredSteady
<1>10. Fresh'
  <2>1. SUFFICES ASSUME op.kind = "save" PROVE Volume'[Dir][Conf] = Empty /\ Apart(Named(card', Conf), Own')
    BY <1>1 DEF Fresh
  <2>2. op.file = Conf /\ Conf \in Files
    BY <1>1, <2>1 DEF Calls, Files
  <2>3. Own' = Chain(Volume', fp'.sclust)
    BY DEF Own
  <2> QED BY <1>1, <1>2, <1>7, <2>1, <2>2, <2>3 DEF Fresh, Apart, Elsewhere
<1> QED BY <1>3, <1>9, <1>10

(* f_lseek() has the first cluster of a file that had none. *)
LEMMA FirstKept ==
  ASSUME Inv, FilesOK, pc = "first", Valid(x.res), Same, UNCHANGED <<data, saved, op, x>>, pc' = "sought",
         fp' = [fp EXCEPT !.sclust = x.res, !.clust = x.res]
  PROVE  FilesOK'
<1>1. /\ Types /\ Calls /\ Chains /\ Pointer /\ OpenKept /\ Widened /\ fp \in FileObjects /\ pc \in Working /\ pc' \in Working
      /\ IsOpen /\ IsOpen' /\ pc # "idle"
  BY DEF Inv, FilesOK, Doing, Types, Working, IsOpen, Creating
<1>2. op.kind # "read" /\ fp.sclust = 0 /\ fp.fptr = 0 /\ Writes /\ op.file \in Files
  BY <1>1 DEF Calls, Chains, PlaceOK, AtFirst, Writes, Types, Requests
<1>3. fp'.sclust = x.res /\ fp'.objsize = fp.objsize /\ fp'.fptr = 0 /\ fp'.dirty = fp.dirty /\ ~fp.dirty
  BY <1>1, <1>2 DEF FileObjects, Valid, Pointer
<1>4. Stored' /\ Fresh' /\ Own' = <<x.res>> /\ Volume' = Volume
  BY <1>1, <1>2, <1>3, AdoptedKept DEF Same
<1>5. fp.objsize = 0
  <2>1. Len(Own) = 0
    BY <1>1, <1>2, OwnChain DEF IsChain, Clusters
  <2>2. PerSector * 0 = 0
    BY SectorAssumption
  <2> QED BY <1>1, <2>1, <2>2 DEF Chains, EntryOK, FileObjects
<1>6. OpenKept'
  <2>1. Volume[Dir][op.file].size <= fp.objsize /\ Holds(Own, View, 0, saved[op.file])
    BY <1>1, <1>2, <1>5 DEF OpenKept
  <2>2. Own' \in Seq(Clusters)
    BY <1>4 DEF Valid
  <2>3. Holds(Own', View', 0, saved[op.file])
    BY <2>1, <2>2, HoldsNone
  <2> QED BY <1>3, <1>4, <1>5, <2>1, <2>3 DEF OpenKept
<1>7. Widened'
  <2>1. Volume[Dir][op.file].size \in Nat
    BY <1>1, <1>2, VolumeNow DEF EntrySet
  <2> QED BY <1>1, <1>4, <2>1, WidenedSteady
<1>8. Pointer'
  BY <1>1, <1>3, <1>5 DEF Pointer, OnTheWay, ToTransfer, Creating, Valid, NoSpace, Clusters
<1>9. Written' /\ Reading'
  BY <1>2 DEF Written, Reading, Closing
<1> QED BY <1>4, <1>6, <1>7, <1>8, <1>9 DEF FilesOK, Doing

LEMMA LseekKept ==
  ASSUME Inv, FilesOK, f_lseek
  PROVE  FilesOK'
<1>1. /\ Types /\ Calls /\ Chains /\ Pointer /\ Reading
      /\ fp \in FileObjects /\ x \in Locals /\ PerSector \in Nat /\ PerSector > 0
  BY SectorAssumption DEF Inv, Types, FilesOK, Doing
<1>2. /\ pc \in {"seek", "first", "sought"} /\ UNCHANGED <<data, last_clst, saved>>
      /\ IsOpen /\ pc # "idle" /\ pc \in Working \ Creating /\ pc \in Working /\ op.kind \in {"read", "write"}
      /\ x.ofs > 0 /\ x.ofs \in Nat /\ fp.fptr \in Nat /\ fp.objsize \in Nat /\ op.pos \in Nat
  BY <1>1 DEF f_lseek, IsOpen, Working, Creating, Calls, Types, Requests, Locals, FileObjects
<1>3. Own \in Seq(Clusters) /\ IsChain(Volume, Own, fp.sclust) /\ fp.objsize <= PerSector * Len(Own)
  BY <1>1, <1>2, OwnChain DEF Chains, EntryOK
<1>4. PerSector * 0 = 0 /\ NoSpace = 0 /\ Broken = 1 /\ 0 \notin Clusters /\ 1 \notin Clusters /\ fp.sclust \in {0} \cup Clusters
  BY <1>1 DEF NoSpace, Broken, Clusters, FileObjects
<1>5. fp.fptr + x.ofs <= op.pos /\ (op.kind = "write" => fp.fptr + x.ofs = op.pos)
  BY <1>1, <1>2 DEF Pointer, OnTheWay, Chains, PlaceOK
<1>6. op.kind = "read" => fp.fptr + x.ofs <= fp.objsize
  BY <1>1, <1>2 DEF Reading, Chains, PlaceOK, Calls
<1> DEFINE clst == IF pc = "seek" THEN fp.sclust ELSE x.res
<1>7. CASE pc = "seek" /\ fp.sclust = 0
  <2>1. CreateChain(0, "first", x) /\ UNCHANGED <<card, win, faults, fp>>
    BY <1>4, <1>7 DEF f_lseek, Valid, NoSpace
  <2>2. fp.fptr = 0 /\ op.kind # "read"
    <3>1. Len(Own) = 0
      BY <1>3, <1>4, <1>7 DEF IsChain
    <3>2. fp.objsize = 0
      BY <1>1, <1>3, <1>4, <3>1 DEF FileObjects
    <3> QED BY <1>1, <1>2, <1>7, <3>2 DEF Chains, PlaceOK
  <2>3. Loose = 0 /\ fp.fptr <= fp.objsize /\ fp.objsize <= fp'.objsize /\ fp' \in FileObjects
    BY <1>1, <1>2, <1>7, <2>1, <2>2 DEF Loose
  <2> QED BY <1>1, <1>2, <1>5, <2>1, <2>2, <2>3, CreateKept
<1>8. CASE pc = "first" /\ x.res # Broken
  <2>1. /\ fp' = [fp EXCEPT !.sclust = x.res, !.clust = x.res] /\ UNCHANGED <<card, win, faults, x, op>>
        /\ pc' = (IF x.res = NoSpace THEN "transfer" ELSE "sought")
    BY <1>8 DEF f_lseek, Goto
  <2>2. fp.sclust = 0 /\ fp.fptr = 0 /\ x.res \in {0} \cup Clusters /\ op.kind # "read"
    BY <1>1, <1>4, <1>8 DEF Chains, PlaceOK, AtFirst, Locals, Calls
  <2>3. Same
    BY <1>1, <2>1, Unmoved
  <2>4. CASE x.res = NoSpace
    <3>1. /\ fp' \in FileObjects /\ fp'.sclust = 0 /\ fp'.fptr = 0 /\ fp'.objsize = fp.objsize /\ fp'.dirty = fp.dirty
      BY <1>1, <1>4, <2>1, <2>2, <2>4 DEF FileObjects
    <3>2. 0 % PerSector = 0
      BY SectorAssumption
    <3>3. Aimed'
      <4>1. Full
        BY <1>1, <1>8, <2>4 DEF Pointer
      <4>2. Full' /\ OnBoundary' /\ AtFirst' /\ op'.pos = op.pos
        BY <2>1, <2>3, <3>1, <3>2, <4>1 DEF Full, Same, OnBoundary, AtFirst
      <4> QED BY <1>2, <3>1, <4>2 DEF Aimed
    <3> QED BY <1>2, <1>4, <2>1, <2>2, <2>3, <2>4, <3>1, <3>2, <3>3, SeekWriteKept DEF OnBoundary
  <2>5. CASE x.res # NoSpace
    <3>1. Valid(x.res) /\ pc' = "sought"
      BY <1>4, <2>1, <2>2, <2>5 DEF Valid
    <3> QED BY <1>2, <1>8, <2>1, <2>3, <3>1, FirstKept
  <2> QED BY <2>4, <2>5
<1>9. CASE pc # "first" /\ Valid(clst)
  <2>1. (IF x.ofs > PerSector THEN SeekStep(clst) ELSE SeekEnd(clst, x.ofs)) /\ clst \in Clusters
    BY <1>4, <1>9 DEF f_lseek, Valid
  <2> HIDE DEF clst
  <2>2. CASE x.ofs > PerSector
    BY <1>2, <1>5, <1>6, <1>9, <2>1, <2>2, SeekStepKept
  <2>3. CASE ~(x.ofs > PerSector)
    BY <1>2, <1>5, <1>6, <1>9, <2>1, <2>3, SeekEndKept
  <2> QED BY <2>2, <2>3
<1>10. CASE pc = "sought" /\ x.res = NoSpace
  <2>1. SeekEnd(fp.clust, 0)
    BY <1>2, <1>4, <1>10 DEF f_lseek, Valid
  <2>2. PICK k \in 0 .. Len(Own) : fp.fptr = PerSector * k /\ k \in 1 .. Len(Own) /\ Own[k] = fp.clust
    BY <1>1, <1>4, <1>10 DEF Chains, PlaceOK, Behind, On, Valid
  <2>3. k \in Nat /\ k >= 1 /\ fp.clust \in Clusters /\ 0 \in Nat
    BY <1>3, <2>2
  <2>4. fp.fptr > 0
    <3>1. k - 1 \in Nat /\ (k - 1) + 1 = k
      BY <2>3
    <3>2. PerSector * (k - 1) \in Nat /\ PerSector * ((k - 1) + 1) = PerSector * (k - 1) + PerSector
      BY <3>1, Times
    <3> QED BY <1>1, <2>2, <3>1, <3>2
  <2>5. fp.fptr % PerSector = 0
    <3>1. (PerSector * k + 0) % PerSector = 0 /\ PerSector * k \in Nat
      BY <1>1, <2>3, Remainder, Times
    <3> QED BY <2>2, <3>1
  <2>6. op.kind # "read" /\ Full /\ Fat(Volume, fp.clust) = EOC
    BY <1>1, <1>4, <1>10 DEF Reading, Valid, Pointer
  <2>7. fp.fptr + 0 = fp.fptr /\ fp.fptr <= op.pos
    BY <1>2, <1>5
  <2>8. /\ fp.fptr + 0 <= op.pos /\ (fp.fptr + 0) % PerSector = 0 /\ fp.fptr + 0 > 0
    BY <2>4, <2>5, <2>7
  <2> QED BY <1>2, <1>10, <2>1, <2>3, <2>6, <2>8, SeekEndKept
<1>11. CASE pc # "seek" /\ x.res = Broken
  <2>1. Abort /\ UNCHANGED <<card, win, faults, fp>>
    BY <1>4, <1>11 DEF f_lseek, Valid
  <2>2. Same /\ fp.objsize <= fp'.objsize
    BY <1>1, <1>2, <2>1, Unmoved
  <2>3. op.kind # "read"
    BY <1>1, <1>2, <1>4, <1>11 DEF Reading, Valid, Calls
  <2> QED BY <1>1, <1>2, <2>1, <2>2, <2>3, AbortKept
<1> QED BY <1>1, <1>2, <1>4, <1>7, <1>8, <1>9, <1>10, <1>11 DEF Valid, Locals

-----------------------------------------------------------------------------
(* The record at a pointer. *)
LEMMA PlaceAt ==
  ASSUME NEW j \in Nat, NEW ptr \in Nat, PerSector * j <= ptr, ptr < PerSector * j + PerSector
  PROVE  Place(j + 1, ptr % PerSector) = ptr + 1 /\ ptr % PerSector \in Records
<1>1. PerSector * j \in Nat /\ PerSector \in Nat
  BY SectorAssumption, Times
<1>2. PICK r \in 0 .. PerSector - 1 : ptr = PerSector * j + r
  <2> DEFINE r == ptr - PerSector * j
  <2>1. r \in 0 .. PerSector - 1 /\ ptr = PerSector * j + r
    BY <1>1
  <2> QED BY <2>1
<1>3. ptr % PerSector = r /\ (j + 1) - 1 = j
  BY <1>2, Remainder
<1> QED BY <1>1, <1>2, <1>3 DEF Place, Records

(* The sector buffer holds the record at the pointer, or the cluster before it is known. *)
LEMMA PlaceWithin ==
  ASSUME Inv, pc = "transfer", fp.fptr > 0
  PROVE  \E k \in 1 .. Len(Own) :
           /\ Own[k] = fp.clust /\ fp.sclust # 0 /\ Own[k] \in Clusters
           /\ OnBoundary => fp.fptr = PerSector * k
           /\ ~OnBoundary => fp.sect = Own[k] /\ Place(k, fp.fptr % PerSector) = fp.fptr + 1
<1>1. Types /\ Calls /\ Chains /\ fp.fptr \in Nat /\ PerSector \in Nat /\ PerSector > 0
  BY SectorAssumption DEF Inv, Types, FileObjects
<1>2. Own \in Seq(Clusters)
  BY <1>1, OwnChain DEF IsOpen, Working
<1>3. PICK k \in 0 .. Len(Own) :
        /\ fp.sclust # 0 /\ k \in 1 .. Len(Own) /\ Own[k] = fp.clust
        /\ PerSector * (k - 1) < fp.fptr /\ fp.fptr <= PerSector * k
        /\ fp.fptr < PerSector * k => fp.sect = fp.clust
  BY <1>1 DEF Chains, PlaceOK, On
<1>4. k \in Nat \ {0} /\ Own[k] \in Clusters /\ k - 1 \in Nat /\ (k - 1) + 1 = k
  BY <1>2, <1>3
<1>5. /\ PerSector * (k - 1) \in Nat /\ PerSector * ((k - 1) + 1) = PerSector * (k - 1) + PerSector
      /\ PerSector * k \in Nat
  BY <1>4, Times
<1>6. CASE OnBoundary
  BY <1>1, <1>3, <1>4, <1>6, Boundary DEF OnBoundary
<1>7. CASE ~OnBoundary
  <2>1. fp.fptr # PerSector * k
    <3>1. (PerSector * k + 0) % PerSector = 0
      BY <1>1, <1>4, Remainder
    <3> QED BY <1>5, <1>7, <3>1 DEF OnBoundary
  <2>2. Place((k - 1) + 1, fp.fptr % PerSector) = fp.fptr + 1
    <3> DEFINE j == k - 1
    <3>1. j \in Nat /\ PerSector * j <= fp.fptr /\ fp.fptr < PerSector * j + PerSector
      BY <1>1, <1>3, <1>4, <1>5, <2>1
    <3> HIDE DEF j
    <3>2. Place(j + 1, fp.fptr % PerSector) = fp.fptr + 1
      BY <1>1, <3>1, PlaceAt
    <3> QED BY <3>2 DEF j
  <2> QED BY <1>1, <1>3, <1>4, <1>5, <1>7, <2>1, <2>2
<1> QED BY <1>6, <1>7

(* The record is read. *)
LEMMA DeliverKept ==
  ASSUME Inv, FilesOK, pc = "transfer", op.kind = "read", Same, data' = data, saved' = saved, fp.fptr < fp.objsize,
         NEW k \in 1 .. Len(Own), NEW buf, Deliver(buf), buf = data[Own[k]],
         Place(k, fp.fptr % PerSector) = fp.fptr + 1
  PROVE  FilesOK'
<1>1. /\ Types /\ Calls /\ Chains /\ Stored /\ Reading /\ IsOpen /\ op.file \in Files
      /\ fp.fptr \in Nat /\ fp.objsize \in Nat
  BY DEF Inv, FilesOK, Doing, IsOpen, Working, Calls, Types, FileObjects
<1>2. /\ fp.objsize = Volume[Dir][op.file].size /\ fp.fptr = op.pos
  BY <1>1 DEF Reading, Working
<1>3. Own = Named(Volume, op.file)
  BY <1>1 DEF Chains, EntryOK, Own, Named
<1>4. Holds(Own, data, fp.objsize, saved[op.file])
  BY <1>1, <1>2, <1>3 DEF Stored, KeptOn
<1>5. fp.fptr % PerSector \in Records
  BY <1>1, Record
<1>6. saved[op.file].recs \in Seq(SUBSET Values) /\ saved[op.file].least \in Nat
  BY <1>1 DEF Stored, SavedOK
<1>7. op.pos < Len(saved[op.file].recs) /\ buf[fp.fptr % PerSector] \in saved[op.file].recs[op.pos + 1]
  BY <1>1, <1>2, <1>4, <1>5, <1>6 DEF Holds
<1>8. ThenClose(TRUE, buf[fp.fptr % PerSector]) /\ ~fp'.modified /\ pc \in Working
  BY DEF Deliver, Closed, Working
<1> QED BY <1>7, <1>8, ReadEnds

LEMMA ReadKept ==
  ASSUME Inv, FilesOK, f_read
  PROVE  FilesOK'
<1>1. Types /\ Calls /\ Chains /\ Pointer /\ fp \in FileObjects /\ PerSector \in Nat /\ PerSector > 0
  BY SectorAssumption DEF Inv, Types, FilesOK, Doing
<1>2. /\ pc = "transfer" /\ op.kind = "read" /\ data' = data /\ saved' = saved /\ ~fp.modified
      /\ pc \in Working /\ fp.fptr \in Nat /\ fp.objsize \in Nat /\ IsOpen
  BY <1>1 DEF f_read, Working, Calls, FileObjects, IsOpen
<1>3. Own \in Seq(Clusters) /\ IsChain(Volume, Own, fp.sclust) /\ fp.objsize <= PerSector * Len(Own)
  BY <1>1, <1>2, OwnChain DEF Chains, EntryOK
<1>4. ASSUME Same, Abort, fp' = fp PROVE FilesOK'
  BY <1>1, <1>2, <1>4, ReadEnds DEF Abort
<1>5. ASSUME NEW m, NEW clst, ReadAt(m, clst),
             card' = m.card /\ win' = m.win /\ faults' \in {faults, faults + 1} => Same,
             fp.fptr < fp.objsize,
             m.ok /\ Valid(clst) => \E k \in 1 .. Len(Own) : Own[k] = clst /\ Place(k, fp.fptr % PerSector) = fp.fptr + 1
      PROVE  FilesOK'
  <2>1. CASE m.ok /\ Valid(clst) /\ Window(m, m.win) /\ Deliver(data[clst])
    <3>1. Same
      BY <1>1, <1>5, <2>1 DEF Window, Fault, Types
    <3>2. PICK k \in 1 .. Len(Own) : Own[k] = clst /\ Place(k, fp.fptr % PerSector) = fp.fptr + 1
      BY <1>5, <2>1
    <3> QED BY <1>2, <1>5, <2>1, <3>1, <3>2, DeliverKept
  <2>2. CASE UNCHANGED fp /\ Abort /\ card' = m.card /\ win' = m.win /\ Fault(TRUE)
    <3>1. Same
      BY <1>1, <1>5, <2>2 DEF Fault, Types
    <3> QED BY <1>4, <2>2, <3>1
  <2> QED BY <1>5, <2>1, <2>2 DEF ReadAt
<1>6. CASE fp.fptr >= fp.objsize /\ Abort /\ UNCHANGED <<card, win, faults, fp>>
  <2>1. Same
    BY <1>1, <1>6, Unmoved
  <2> QED BY <1>4, <1>6, <2>1
<1>7. CASE fp.fptr < fp.objsize /\ ~OnBoundary /\ Deliver(fp.buf) /\ UNCHANGED <<card, win, faults>>
  <2>1. Same
    BY <1>1, <1>7, Unmoved
  <2>2. fp.fptr > 0
    <3>1. 0 % PerSector = 0
      BY <1>1
    <3> QED BY <1>2, <1>7, <3>1 DEF OnBoundary
  <2>3. PICK k \in 1 .. Len(Own) : fp.sect = Own[k] /\ Place(k, fp.fptr % PerSector) = fp.fptr + 1
    BY <1>2, <1>7, <2>2, PlaceWithin
  <2>4. fp.buf = data[Own[k]]
    BY <1>1, <1>2, <1>7, <2>3 DEF Pointer
  <2> QED BY <1>2, <1>7, <2>1, <2>3, <2>4, DeliverKept
<1>8. CASE fp.fptr < fp.objsize /\ fp.fptr = 0 /\ ReadAt([ok |-> TRUE, card |-> card, win |-> win], fp.sclust)
  <2>1. ASSUME card' = card, win' = win, faults' \in {faults, faults + 1} PROVE Same
    BY <1>1, <2>1, Unmoved
  <2>2. ASSUME Valid(fp.sclust) PROVE 1 \in 1 .. Len(Own) /\ Own[1] = fp.sclust
    BY <1>3, <2>2 DEF IsChain, Valid
  <2>3. Place(0 + 1, 0 % PerSector) = 0 + 1
    <3>1. PerSector * 0 = 0 /\ 0 \in Nat /\ PerSector * 0 <= 0 /\ 0 < PerSector * 0 + PerSector
      BY <1>1
    <3> QED BY <3>1, PlaceAt
  <2>4. Place(1, fp.fptr % PerSector) = fp.fptr + 1
    BY <1>8, <2>3
  <2> DEFINE m == [ok |-> TRUE, card |-> card, win |-> win]
  <2>5. m.card = card /\ m.win = win
    OBVIOUS
  <2> HIDE DEF m
  <2>6. ReadAt(m, fp.sclust)
    BY <1>8 DEF m
  <2> QED BY <1>5, <1>8, <2>1, <2>2, <2>4, <2>5, <2>6
<1>9. CASE /\ fp.fptr < fp.objsize /\ fp.fptr > 0 /\ OnBoundary
           /\ \E m \in move_window(FatSector(fp.clust)) : ReadAt(m, get_fat(m, fp.clust))
  <2>1. PICK m \in move_window(FatSector(fp.clust)) : ReadAt(m, get_fat(m, fp.clust))
    BY <1>9
  <2>2. PICK k \in 1 .. Len(Own) : Own[k] = fp.clust /\ Own[k] \in Clusters /\ fp.fptr = PerSector * k
    BY <1>2, <1>9, PlaceWithin
  <2>3. ASSUME card' = m.card, win' = m.win, faults' \in {faults, faults + 1} PROVE Same
    BY <1>1, <2>2, <2>3, Glanced, SectorNumbers
  <2>4. ASSUME m.ok, Valid(get_fat(m, fp.clust))
        PROVE  k + 1 \in 1 .. Len(Own) /\ Own[k + 1] = get_fat(m, fp.clust)
    <3>1. get_fat(m, fp.clust) = Fat(Volume, Own[k])
      BY <1>1, <2>2, <2>4, TableRead
    <3>2. Fat(Volume, Own[k]) = IF k = Len(Own) THEN EOC ELSE Own[k + 1]
      BY <1>3 DEF IsChain
    <3> QED BY <1>3, <2>4, <3>1, <3>2 DEF Valid, EOC, Clusters
  <2>5. Place(k + 1, fp.fptr % PerSector) = fp.fptr + 1
    <3>1. k \in Nat /\ PerSector * k <= fp.fptr /\ fp.fptr < PerSector * k + PerSector
      BY <1>1, <1>2, <2>2
    <3> QED BY <1>2, <3>1, PlaceAt
  <2> QED BY <1>5, <1>9, <2>1, <2>3, <2>4, <2>5
<1> QED BY <1>6, <1>7, <1>8, <1>9 DEF f_read

-----------------------------------------------------------------------------
(* The record to be written is in the sector buffer of f. *)
Buffered(f, own, k) ==
  /\ own \in Seq(Clusters) /\ k \in 1 .. Len(own) /\ own[k] = f.sect
  /\ \A i, j \in 1 .. Len(own) : i # j => own[i] # own[j]
  /\ Place(k, f.fptr % PerSector) = f.fptr + 1
  /\ \A r \in Records : Place(k, r) <= f.objsize => f.buf[r] = data[f.sect][r]
  /\ Holds(own, data, f.objsize, saved[op.file])

(* The chain own, the data d with it, after the record was put there. *)
LEMMA HoldsStored ==
  ASSUME Types, Stored, op.file \in Files, NEW f \in FileObjects, NEW own, NEW k, Buffered(f, own, k), NEW size \in Nat,
         size = (IF f.fptr < f.objsize THEN f.objsize ELSE f.fptr + 1), f.fptr <= f.objsize,
         NEW buf \in [Records -> Values], buf = [f.buf EXCEPT ![f.fptr % PerSector] = op.val],
         NEW e, e = [data EXCEPT ![f.sect] = buf],
         f.fptr < Len(saved[op.file].recs), op.val \in saved[op.file].recs[f.fptr + 1]
  PROVE  Holds(own, e, size, saved[op.file])
<1> DEFINE sv == saved[op.file]
           q == f.fptr % PerSector
<1>1. /\ data \in [Clusters -> [Records -> Values]] /\ f.fptr \in Nat /\ f.objsize \in Nat /\ q \in Records
      /\ sv.least \in Nat /\ sv.recs \in Seq(SUBSET Values) /\ f.sect \in Clusters /\ f.buf \in [Records -> Values]
      /\ k \in Nat \ {0}
  BY Record DEF Types, FileObjects, Stored, SavedOK, Buffered
<1>2. e[f.sect] = buf /\ \A c \in Clusters : c # f.sect => e[c] = data[c]
  BY <1>1
<1>3. size \in sv.least .. Len(sv.recs)
  <2>1. f.objsize \in sv.least .. Len(sv.recs)
    BY DEF Buffered, Holds
  <2> QED BY <1>1, <2>1
<1>4. ASSUME NEW j \in 1 .. Len(own), NEW r \in Records, Place(j, r) <= size
      PROVE  e[own[j]][r] \in sv.recs[Place(j, r)]
  <2>1. own[j] \in Clusters /\ own[k] = f.sect /\ j \in Nat \ {0} /\ (j # k => own[j] # own[k]) /\ Place(k, q) = f.fptr + 1
    BY DEF Buffered
  <2>2. Place(j, r) \in Nat \ {0} /\ (Place(j, r) = f.fptr + 1 => j = k /\ r = q)
    <3>1. /\ Place(j, r) \in Nat \ {0}
          /\ \A i \in Nat \ {0}, p \in Records : Place(i, p) = Place(j, r) => i = j /\ p = r
      BY <2>1, PlaceOf
    <3> QED BY <1>1, <2>1, <3>1
  <2> HIDE DEF q
  <2>3. CASE Place(j, r) = f.fptr + 1
    <3>1. e[own[j]][r] = buf[q] /\ buf[q] = op.val
      BY <1>1, <1>2, <2>1, <2>2, <2>3 DEF q
    <3> QED BY <2>3, <3>1
  <2>4. CASE Place(j, r) # f.fptr + 1
    <3>1. Place(j, r) <= f.objsize
      BY <1>1, <1>4, <2>2, <2>4
    <3>2. data[own[j]][r] \in sv.recs[Place(j, r)]
      BY <3>1 DEF Buffered, Holds
    <3>3. e[own[j]][r] = data[own[j]][r]
      <4>1. CASE j # k
        BY <1>2, <2>1, <4>1
      <4>2. CASE j = k
        <5>1. r # q
          BY <2>1, <2>4, <4>2
        <5>2. buf[r] = f.buf[r]
          BY <1>1, <5>1 DEF q
        <5>3. f.buf[r] = data[f.sect][r]
          BY <3>1, <4>2 DEF Buffered
        <5> QED BY <1>2, <2>1, <4>2, <5>2, <5>3
      <4> QED BY <4>1, <4>2
    <3> QED BY <3>2, <3>3
  <2> QED BY <2>3, <2>4
<1> QED BY <1>3, <1>4 DEF Holds

LEMMA StoreKept ==
  ASSUME Inv, FilesOK, op.kind # "read", pc \in {"transfer", "fill"}, Same, data' = data, saved' = saved,
         NEW f \in FileObjects, Store(f), f.fptr = op.pos, f.fptr = fp.fptr, f.objsize = fp.objsize,
         NEW own, NEW k, Buffered(f, own, k), Own' = own, Stored', Fresh'
  PROVE  FilesOK'
<1>1. /\ Types /\ Calls /\ Stored /\ OpenKept /\ Widened /\ Pointer /\ IsOpen /\ op.file \in Files /\ pc # "idle" /\ Writes
      /\ op \in Requests /\ op.val \in Values /\ pc \in Working
  BY DEF Inv, FilesOK, Doing, IsOpen, Working, Creating, Calls, Types, Requests, Writes
<1> DEFINE size == IF f.fptr < f.objsize THEN f.objsize ELSE f.fptr + 1
           q == f.fptr % PerSector
           buf == [f.buf EXCEPT ![q] = op.val]
<1>2. /\ ThenClose(TRUE, op.val)
      /\ fp' = [f EXCEPT !.buf = buf, !.dirty = TRUE, !.modified = TRUE, !.fptr = f.fptr + 1, !.objsize = size]
  BY DEF Store, FileObjects
<1>3. /\ size \in Nat /\ f.fptr \in Nat /\ f.objsize \in Nat /\ q \in Records /\ buf \in [Records -> Values] /\ buf[q] = op.val
  BY <1>1, Record DEF FileObjects
<1>4. size = (IF f.fptr < f.objsize THEN f.objsize ELSE f.fptr + 1) /\ buf = [f.buf EXCEPT ![f.fptr % PerSector] = op.val]
  OBVIOUS
<1>5. q = f.fptr % PerSector
  OBVIOUS
<1> HIDE DEF size, q, buf
<1>6. fp'.sclust = f.sclust /\ fp'.modified /\ fp'.dirty /\ fp'.objsize = size /\ fp'.sect = f.sect /\ fp'.buf = buf
  BY <1>2, <1>3 DEF FileObjects
<1>7. pc' = "close" /\ op'.kind = op.kind /\ op'.file = op.file /\ op'.pos = op.pos /\ op'.val = op.val
  BY <1>1, <1>2 DEF ThenClose, Requests
<1>8. View' = [data EXCEPT ![f.sect] = buf]
  BY <1>6 DEF View
<1>9. /\ op.pos < Len(saved[op.file].recs) /\ op.val \in saved[op.file].recs[op.pos + 1]
      /\ fp.fptr <= fp.objsize /\ Volume[Dir][op.file].size <= fp.objsize
  BY <1>1 DEF Widened, Pointer, OpenKept
<1>10. Volume' = Volume /\ Volume[Dir][op.file].size \in Nat
  BY <1>1, VolumeNow DEF Same, EntrySet
<1>11. OpenKept'
  <2>1. Holds(own, View', size, saved[op.file])
    BY <1>1, <1>3, <1>4, <1>8, <1>9, HoldsStored
  <2>2. Volume[Dir][op.file].size <= size
    BY <1>3, <1>4, <1>9, <1>10
  <2>3. Holds(Own', View', fp'.objsize, saved'[op'.file]) /\ Volume'[Dir][op'.file].size <= fp'.objsize
    BY <1>6, <1>7, <1>10, <2>1, <2>2
  <2> QED BY <2>3 DEF OpenKept
<1>12. Widened'
  <2>1. Volume[Dir][op.file].size <= Volume'[Dir][op.file].size /\ Volume'[Dir][op.file].size \in Nat
    BY <1>10
  <2> QED BY <1>1, <1>7, <2>1, WidenedSteady
<1>13. Written'
  <2>1. ASSUME NEW j \in 1 .. Len(own), NEW r \in Records, Place(j, r) = op.pos + 1
        PROVE  View'[own[j]][r] = op.val
    <3>1. /\ j \in Nat \ {0} /\ k \in Nat \ {0} /\ own[k] = f.sect /\ f.sect \in Clusters
          /\ Place(k, q) = op.pos + 1
      BY <1>5 DEF Buffered
    <3>2. j = k /\ r = q
      <4>1. \A i \in Nat \ {0}, p \in Records : Place(i, p) = Place(k, q) => i = k /\ p = q
        BY <1>3, <3>1, PlaceOf
      <4> QED BY <2>1, <3>1, <4>1
    <3>3. View'[f.sect] = buf
      BY <1>1, <1>8, <3>1 DEF Types
    <3> QED BY <1>3, <3>1, <3>2, <3>3
  <2>2. op.pos < size
    BY <1>3, <1>4
  <2>3. \E j \in 1 .. Len(own) : own[j] = f.sect
    BY DEF Buffered
  <2>4. /\ fp'.dirty => fp'.modified /\ pc' = "close" /\ \E j \in 1 .. Len(Own') : Own'[j] = fp'.sect
        /\ fp'.modified /\ op'.pos < fp'.objsize
        /\ \A j \in 1 .. Len(Own'), r \in Records : Place(j, r) = op'.pos + 1 => View'[Own'[j]][r] = op'.val
    BY <1>6, <1>7, <2>1, <2>2, <2>3
  <2> QED BY <2>4 DEF Written
<1>14. Reading'
  BY <1>7 DEF Reading
<1> QED BY <1>7, <1>11, <1>12, <1>13, <1>14, PointerClosed DEF FilesOK, Doing

(* The same when the file has its first cluster. *)
LEMMA StoreOn ==
  ASSUME Inv, FilesOK, op.kind # "read", pc \in {"transfer", "fill"}, Same, data' = data, saved' = saved,
         NEW f \in FileObjects, Store(f), f.fptr = op.pos, f.fptr = fp.fptr, f.objsize = fp.objsize,
         f.sclust = fp.sclust, Loose = 0,
         NEW k \in 1 .. Len(Own), Own[k] = f.sect, Place(k, f.fptr % PerSector) = f.fptr + 1,
         \A r \in Records : Place(k, r) <= f.objsize => f.buf[r] = data[f.sect][r]
  PROVE  FilesOK'
<1>1. /\ Types /\ Calls /\ Chains /\ Stored /\ OpenKept /\ Fresh /\ Pointer /\ IsOpen /\ Writes /\ op \in Requests /\ pc # "sync"
      /\ pc \in Working
  BY DEF Inv, FilesOK, Doing, IsOpen, Working, Types, Calls, Requests, Writes
<1>2. Own \in Seq(Clusters) /\ IsChain(Volume, Own, fp.sclust)
  BY <1>1, OwnChain
<1>3. ThenClose(TRUE, op.val) /\ fp'.sclust = fp.sclust /\ fp'.modified
  BY DEF Store, FileObjects
<1>4. pc' = "close" /\ op'.kind = op.kind /\ op'.file = op.file /\ Loose' = 0
  BY <1>1, <1>3 DEF ThenClose, Requests, Loose
<1>5. Volume' = Volume /\ card' \in {card, Volume} /\ Own' = Own
  BY <1>3 DEF Same, Own
<1>6. Stored'
  BY <1>1, <1>3, <1>4, StoredSame
<1>7. Fresh'
  BY <1>1, <1>4, <1>5, FreshSteady
<1>8. Holds(Own, data, f.objsize, saved[op.file])
  BY <1>1 DEF OpenKept, Pointer, View
<1>9. Buffered(f, Own, k)
  BY <1>2, <1>8 DEF Buffered, IsChain
<1> QED BY <1>5, <1>6, <1>7, <1>9, StoreKept

LEMMA WriteWithinKept ==
  ASSUME Inv, FilesOK, WriteWithin
  PROVE  FilesOK'
<1>1. /\ Types /\ Calls /\ Chains /\ Pointer /\ fp \in FileObjects /\ x \in Locals /\ PerSector \in Nat /\ PerSector > 0
  BY SectorAssumption DEF Inv, FilesOK, Doing, Types
<1>2. /\ pc = "transfer" /\ op.kind # "read" /\ UNCHANGED <<card, data, win, faults, saved>>
      /\ pc \in Working \ Creating /\ pc \in Working /\ Loose = 0 /\ IsOpen /\ pc # "idle" /\ Writes
      /\ fp.fptr \in Nat /\ fp.objsize \in Nat /\ op.pos \in Nat /\ fp.sclust \in {0} \cup Clusters /\ 0 \notin Clusters
  BY <1>1 DEF WriteWithin, ghosts, Working, Creating, Loose, IsOpen, Calls, Types, Requests, Writes, FileObjects, Clusters
<1>3. Same
  BY <1>1, <1>2, Unmoved
<1>4. Aimed /\ ~fp.dirty /\ fp.fptr <= fp.objsize
  BY <1>1, <1>2 DEF Pointer, ToTransfer
<1>5. CASE ~OnBoundary /\ Store(fp)
  <2>1. fp.fptr = op.pos
    BY <1>4, <1>5 DEF Aimed
  <2>2. fp.fptr > 0
    <3>1. 0 % PerSector = 0
      BY <1>1
    <3> QED BY <1>2, <1>5, <3>1 DEF OnBoundary
  <2>3. PICK k \in 1 .. Len(Own) : fp.sect = Own[k] /\ Place(k, fp.fptr % PerSector) = fp.fptr + 1
    BY <1>2, <1>5, <2>2, PlaceWithin
  <2>4. fp.buf = data[fp.sect]
    BY <1>1, <1>2, <1>5 DEF Pointer
  <2> QED BY <1>1, <1>2, <1>3, <1>5, <2>1, <2>3, <2>4, StoreOn
<1>6. CASE fp.fptr = 0 /\ fp.sclust # 0 /\ x' = [x EXCEPT !.res = fp.sclust] /\ Goto("fill") /\ UNCHANGED fp
  <2>1. pc' = "fill" /\ op' = op /\ fp' = fp /\ pc' \in Working
    BY <1>6 DEF Goto, Working
  <2>2. Loose' = 0
    BY <1>6, <2>1 DEF Loose
  <2>3. Continuing
    BY <1>1, <1>2, <1>3, <1>4, <2>1 DEF Continuing
  <2>4. Stored' /\ OpenKept' /\ Fresh' /\ Widened'
    <3>1. fp.objsize <= fp'.objsize /\ fp'.objsize = fp.objsize
      BY <1>2, <2>1
    <3> QED BY <1>2, <2>2, <2>3, <3>1, GoesOn
  <2>5. fp.fptr = op.pos
    BY <1>2, <1>4, <1>6 DEF Aimed, AtFirst
  <2>6. Pointer'
    BY <1>2, <1>4, <2>1, <2>5 DEF Pointer, OnTheWay, ToTransfer, Creating
  <2>7. Written' /\ Reading'
    BY <1>2, <2>1 DEF Written, Reading, Closing
  <2> QED BY <2>4, <2>6, <2>7 DEF FilesOK, Doing
<1>7. CASE /\ OnBoundary /\ (fp.fptr > 0 \/ fp.sclust = 0)
           /\ CreateChain(IF fp.fptr = 0 THEN 0 ELSE fp.clust, "fill", x) /\ UNCHANGED fp
  <2> DEFINE clst == IF fp.fptr = 0 THEN 0 ELSE fp.clust
  <2>1. clst \in {0} \cup Clusters
    BY <1>1 DEF FileObjects
  <2>2. CreateChain(clst, "fill", x) /\ fp' = fp
    BY <1>7
  <2> HIDE DEF clst
  <2>3. fp' \in FileObjects /\ fp.objsize <= fp'.objsize /\ fp'.fptr <= fp'.objsize
    BY <1>1, <1>2, <1>4, <2>2
  <2> QED BY <1>1, <1>2, <2>1, <2>2, <2>3, CreateKept
<1> QED BY <1>5, <1>6, <1>7 DEF WriteWithin

LEMMA WriteSectorKept ==
  ASSUME Inv, FilesOK, WriteSector
  PROVE  FilesOK'
<1>1. /\ Types /\ Calls /\ Chains /\ Pointer /\ OpenKept /\ fp \in FileObjects /\ x \in Locals
      /\ PerSector \in Nat /\ PerSector > 0
  BY SectorAssumption DEF Inv, FilesOK, Doing, Types
<1>2. /\ pc = "fill" /\ op.kind # "read" /\ UNCHANGED <<card, data, win, last_clst, saved>>
      /\ pc \in Working \ Creating /\ pc \in Working /\ IsOpen /\ pc # "idle" /\ Writes /\ op \in Requests
      /\ fp.fptr \in Nat /\ fp.objsize \in Nat /\ fp.sclust \in {0} \cup Clusters /\ 0 \notin Clusters /\ op.file \in Files
  BY <1>1 DEF WriteSector, Working, Creating, Loose, IsOpen, Calls, Types, Requests, Writes, FileObjects, Clusters
<1>3. Own \in Seq(Clusters) /\ IsChain(Volume, Own, fp.sclust) /\ fp.objsize <= PerSector * Len(Own) /\ PerSector * 0 = 0
  BY <1>1, <1>2, OwnChain DEF Chains, EntryOK
<1>4. ~fp.dirty /\ fp.fptr <= fp.objsize
  BY <1>1, <1>2 DEF Pointer
<1> DEFINE f == [fp EXCEPT !.clust = x.res, !.sect = x.res, !.sclust = IF @ = 0 THEN x.res ELSE @]
           g == [f EXCEPT !.buf = IF InsideFile THEN data[x.res] ELSE @]
<1>5. \/ Got(x.res) /\ Store(g) /\ UNCHANGED faults
      \/ Got(x.res) /\ InsideFile /\ fp' = f /\ Abort /\ Fault(TRUE)
      \/ x.res = NoSpace /\ fp' = [fp EXCEPT !.modified = TRUE] /\ Abort /\ UNCHANGED faults
      \/ x.res = Broken /\ Abort /\ UNCHANGED <<fp, faults>>
  BY DEF WriteSector
<1>6. ASSUME Got(x.res)
      PROVE  /\ x.res \in Clusters /\ f \in FileObjects /\ g \in FileObjects
             /\ f.objsize = fp.objsize /\ g.fptr = fp.fptr /\ g.objsize = fp.objsize
             /\ f.sclust = (IF fp.sclust = 0 THEN x.res ELSE fp.sclust) /\ g.sclust = f.sclust
             /\ f.dirty = fp.dirty /\ g.sect = x.res
             /\ (InsideFile => g.buf = data[x.res])
  <2>1. x.res \in Clusters /\ data[x.res] \in [Records -> Values]
    BY <1>1, <1>6 DEF Got, Types
  <2> DEFINE first == IF fp.sclust = 0 THEN x.res ELSE fp.sclust
             buf == IF InsideFile THEN data[x.res] ELSE fp.buf
  <2>2. first \in {0} \cup Clusters /\ buf \in [Records -> Values] /\ (InsideFile => buf = data[x.res])
    BY <1>1, <1>2, <2>1 DEF FileObjects
  <2>3. f = [fp EXCEPT !.clust = x.res, !.sect = x.res, !.sclust = first]
    BY DEF FileObjects
  <2>4. g = [fp EXCEPT !.clust = x.res, !.sect = x.res, !.sclust = first, !.buf = buf]
    BY <1>1 DEF FileObjects
  <2>5. first = IF fp.sclust = 0 THEN x.res ELSE fp.sclust
    OBVIOUS
  <2> HIDE DEF first, buf, f, g
  <2> QED BY <1>1, <2>1, <2>2, <2>3, <2>4, <2>5 DEF FileObjects
<1> HIDE DEF f, g
<1>7. Got(x.res) => fp.fptr = op.pos /\ Valid(x.res)
  BY <1>1, <1>2 DEF Pointer, Got, Valid
<1>8. fp.sclust = 0 => fp.objsize = 0
  <2>1. fp.sclust = 0 => Len(Own) = 0
    BY <1>2, <1>3 DEF IsChain
  <2> QED BY <1>2, <1>3, <2>1
<1>9. CASE Got(x.res) /\ Store(g) /\ UNCHANGED faults
  <2>1. Same
    BY <1>1, <1>2, <1>9, Unmoved
  <2>2. CASE fp.sclust # 0
    <3>1. PICK k \in 0 .. Len(Own) : fp.fptr = PerSector * k /\ k + 1 \in 1 .. Len(Own) /\ Own[k + 1] = x.res
      BY <1>1, <1>2, <1>7, <1>9, <2>2 DEF Chains, PlaceOK, Ahead, On
    <3>2. k \in Nat /\ PerSector * k <= fp.fptr /\ fp.fptr < PerSector * k + PerSector
      BY <1>1, <1>2, <1>3, <3>1
    <3>3. Place(k + 1, fp.fptr % PerSector) = fp.fptr + 1
      BY <1>2, <3>2, PlaceAt
    <3>4. ASSUME NEW r \in Records, Place(k + 1, r) <= fp.objsize PROVE g.buf[r] = data[x.res][r]
      <4>1. k + 1 \in Nat \ {0} /\ (k + 1) - 1 = k /\ PerSector * k \in Nat
        BY <3>2, Times
      <4>2. PerSector * ((k + 1) - 1) < Place(k + 1, r) /\ Place(k + 1, r) \in Nat
        BY <4>1, PlaceOf
      <4>3. InsideFile
        BY <1>2, <3>1, <3>4, <4>1, <4>2 DEF InsideFile
      <4> QED BY <1>6, <1>9, <4>3
    <3>5. Loose = 0
      BY <1>2, <2>2 DEF Loose
    <3>6. k + 1 \in 1 .. Len(Own) /\ Own[k + 1] = g.sect /\ Place(k + 1, g.fptr % PerSector) = g.fptr + 1
          /\ \A r \in Records : Place(k + 1, r) <= g.objsize => g.buf[r] = data[g.sect][r]
      BY <1>6, <1>9, <3>1, <3>3, <3>4
    <3> QED BY <1>2, <1>6, <1>7, <1>9, <2>1, <2>2, <3>5, <3>6, StoreOn
  <2>3. CASE fp.sclust = 0
    <3>1. fp.fptr = 0 /\ fp.objsize = 0 /\ g.sclust = x.res /\ x.res \in Clusters
      BY <1>2, <1>4, <1>6, <1>8, <1>9, <2>3
    <3>2. ThenClose(TRUE, op.val) /\ fp'.sclust = x.res /\ fp'.modified
      BY <1>6, <1>9, <3>1 DEF Store, FileObjects
    <3>3. pc' = "close" /\ op'.kind = op.kind /\ op'.file = op.file /\ IsOpen'
      BY <1>2, <3>2 DEF ThenClose, Requests, IsOpen, Closing
    <3>4. Stored' /\ Fresh' /\ Own' = <<x.res>>
      BY <1>2, <1>7, <1>9, <2>1, <2>3, <3>2, <3>3, AdoptedKept
    <3>5. Place(1, 0 % PerSector) = 0 + 1
      <4>1. 0 \in Nat /\ PerSector * 0 <= 0 /\ 0 < PerSector * 0 + PerSector
        BY <1>1, <1>3
      <4>2. Place(0 + 1, 0 % PerSector) = 0 + 1
        BY <4>1, PlaceAt
      <4> QED BY <4>2
    <3>6. /\ <<x.res>> \in Seq(Clusters) /\ 1 \in 1 .. Len(<<x.res>>) /\ <<x.res>>[1] = x.res
          /\ \A i, j \in 1 .. Len(<<x.res>>) : i = j
      BY <3>1
    <3>7. \A r \in Records : ~(Place(1, r) <= 0)
      <4>1. 1 \in Nat \ {0}
        OBVIOUS
      <4>2. \A r \in Records : Place(1, r) \in Nat \ {0}
        BY <4>1, PlaceOf
      <4> QED BY <4>2
    <3>8. Holds(<<x.res>>, data, 0, saved[op.file])
      <4>1. Holds(Own, View, 0, saved[op.file])
        BY <1>1, <1>2, <3>1 DEF OpenKept
      <4> QED BY <3>6, <4>1, HoldsNone
    <3>9. Buffered(g, <<x.res>>, 1)
      BY <1>6, <1>9, <3>1, <3>5, <3>6, <3>7, <3>8 DEF Buffered
    <3> QED BY <1>2, <1>6, <1>7, <1>9, <2>1, <3>4, <3>9, StoreKept
  <2> QED BY <2>2, <2>3
<1>10. CASE Got(x.res) /\ InsideFile /\ fp' = f /\ Abort /\ Fault(TRUE)
  <2>1. Same
    BY <1>1, <1>2, <1>10, Unmoved DEF Fault
  <2>2. fp.sclust # 0 /\ fp.objsize <= fp'.objsize /\ fp'.objsize = fp.objsize
    BY <1>2, <1>6, <1>8, <1>10 DEF InsideFile
  <2> QED BY <1>2, <1>6, <1>10, <2>1, <2>2, AbortKept
<1>11. CASE x.res = NoSpace /\ fp' = [fp EXCEPT !.modified = TRUE] /\ Abort /\ UNCHANGED faults
  <2>1. Same
    BY <1>1, <1>2, <1>11, Unmoved
  <2>2. fp' \in FileObjects /\ fp'.sclust = fp.sclust /\ fp'.objsize = fp.objsize /\ fp'.dirty = fp.dirty
    BY <1>1, <1>11 DEF FileObjects
  <2>3. fp.objsize <= fp'.objsize
    BY <1>2, <2>2
  <2> QED BY <1>2, <1>11, <2>1, <2>2, <2>3, AbortKept
<1>12. CASE x.res = Broken /\ Abort /\ UNCHANGED <<fp, faults>>
  <2>1. Same /\ fp.objsize <= fp'.objsize
    BY <1>1, <1>2, <1>12, Unmoved
  <2> QED BY <1>1, <1>2, <1>12, <2>1, AbortKept
<1> QED BY <1>5, <1>9, <1>10, <1>11, <1>12

-----------------------------------------------------------------------------
(* The operation ends, and what the files hold or may hold has changed. *)
LEMMA StoredAnew ==
  ASSUME Inv, FilesOK, Same, pc' = "idle", op' = NoOp, SavedOK',
         KeptOn(card', data', saved'), KeptOn(Volume, data', saved')
  PROVE  FilesOK'
<1>1. card' \in {card, Volume} /\ Volume' = Volume /\ Types /\ Agree /\ Grows
  BY DEF Same, Inv, FilesOK, Stored
<1>2. Loose' = 0 /\ ~IsOpen'
  BY DEF Loose, IsOpen, Working, Creating, Closing
<1>3. Agree'
  <2>1. \A i \in Owners : First(i)' = First(i) \/ First(i)' \notin Clusters
    BY <1>1, <1>2, FirstsStay
  <2>2. \A d \in Clusters : Fat(Volume', d) = Fat(Volume, d)
    BY <1>1
  <2> QED BY <1>1, <1>2, <2>1, <2>2, AgreeSteady
<1>4. Grows'
  <2>1. \A f \in Images : Volume[Dir][f].size \in Nat
    BY <1>1, VolumeNow DEF EntrySet, Files
  <2> QED BY <1>1, <2>1 DEF Grows
<1>5. KeptOn(card, data, saved)' /\ KeptOn(Volume, data, saved)'
  BY <1>1
<1>6. Stored'
  BY <1>3, <1>4, <1>5 DEF Stored
<1> QED BY <1>6, DoingIdle DEF FilesOK

LEMMA LeftKept ==
  ASSUME Inv, FilesOK, Same, data' = data, saved' = saved, LeftOpen
  PROVE  FilesOK'
BY FailKept DEF LeftOpen

LEMMA CloseUnchangedKept ==
  ASSUME Inv, FilesOK, CloseUnchanged
  PROVE  FilesOK'
<1>1. /\ pc = "close" /\ ~fp.modified /\ UNCHANGED <<card, data, win, last_clst, faults>> /\ pc' = "idle" /\ op' = NoOp
      /\ saved' = IF op.ok /\ op.kind # "read"
                    THEN [saved EXCEPT ![op.file] =
                      [least |-> IF op.pos < @.least THEN @.least ELSE op.pos + 1,
                       recs |-> [@.recs EXCEPT ![op.pos + 1] = {op.val}]]]
                    ELSE saved
  BY DEF CloseUnchanged, ClosedWell, Fail
<1>2. Types /\ Calls /\ Written
  BY DEF Inv, FilesOK, Doing
<1>3. ~(op.ok /\ op.kind # "read")
  BY <1>1, <1>2 DEF Written, Writes, Closing, Calls, Types, Requests
<1>4. Same
  BY <1>1, <1>2, Unmoved
<1> QED BY <1>1, <1>3, <1>4, FailKept

(* The sector buffer is written: no file but the open one has this sector. *)
LEMMA BufferKept ==
  ASSUME Inv, FilesOK, pc = "close", fp.modified, fp.dirty, Writes
  PROVE  KeptOn(card, View, saved) /\ KeptOn(Volume, View, saved)
<1>1. /\ Types /\ Calls /\ Chains /\ Stored /\ OpenKept /\ Fresh /\ Written /\ IsOpen /\ op.file \in Files /\ pc \in Closing
      /\ ~Truncated /\ Agree
  BY DEF Inv, FilesOK, Doing, IsOpen, Closing, Calls, Stored, Truncated
<1>2. Own \in Seq(Clusters) /\ View = [data EXCEPT ![fp.sect] = fp.buf] /\ fp.objsize \in Nat
  BY <1>1, OwnChain DEF View, Types, FileObjects
<1>3. PICK l \in 1 .. Len(Own) : Own[l] = fp.sect
  BY <1>1 DEF Written
<1>4. Own = Chain(Volume, Firsts[op.file]) /\ op.file \in Owners /\ op.file # NoFile
  BY <1>1, FilesOwn DEF Own, Firsts, First
<1>5. /\ Volume[Dir][op.file].size <= fp.objsize /\ Holds(Own, View, fp.objsize, saved[op.file])
  BY <1>1 DEF OpenKept
<1>6. ASSUME NEW v \in {card, Volume} PROVE KeptOn(v, View, saved)
  <2>1. Agreed(v, Volume, Firsts, FALSE) /\ KeptOn(v, data, saved)
    BY <1>1, AgreedBoth DEF Stored
  <2>2. \A f \in Files : Named(v, f) \in Seq(Clusters) /\ v[Dir][f].size \in Nat
    BY <1>1, EntryFirst, VolumeNow, VolumeParts DEF EntrySet
  <2>3. op.file \in Images \/ op.file = Conf
    BY <1>1 DEF Files
  <2>4. v[Dir][op.file].size <= fp.objsize \/ (op.kind = "save" /\ Apart(Named(v, op.file), Own))
    <3>1. CASE v = Volume
      BY <1>5, <3>1
    <3>2. CASE v = card /\ op.kind = "write"
      <4>1. op.file \in Images
        BY <1>1, <3>2 DEF Calls
      <4>2. card[Dir][op.file].size <= Volume[Dir][op.file].size
        BY <1>1, <4>1 DEF Stored, Grows
      <4>3. Volume[Dir][op.file].size \in Nat
        BY <1>1, VolumeNow DEF EntrySet
      <4> QED BY <1>1, <1>2, <1>5, <2>2, <3>2, <4>2, <4>3
    <3>3. CASE v = card /\ op.kind = "save"
      BY <1>1, <3>3 DEF Fresh, Calls
    <3> QED BY <3>1, <3>2, <3>3 DEF Writes
  <2>5. ASSUME NEW f \in Files, NEW k \in 1 .. Len(Named(v, f)), NEW r \in Records, Place(k, r) <= v[Dir][f].size
        PROVE  View[Named(v, f)[k]][r] \in saved[f].recs[Place(k, r)]
    <3>1. Named(v, f)[k] \in Clusters /\ data[Named(v, f)[k]][r] \in saved[f].recs[Place(k, r)] /\ k \in Nat \ {0}
      BY <2>1, <2>2, <2>5 DEF KeptOn, Holds
    <3>2. CASE Named(v, f)[k] # fp.sect
      <4>1. View[Named(v, f)[k]] = data[Named(v, f)[k]]
        BY <1>1, <1>2, <3>1, <3>2 DEF Types
      <4> QED BY <3>1, <4>1
    <3>3. CASE Named(v, f)[k] = fp.sect
      <4>1. f = op.file /\ k = l
        BY <1>3, <1>4, <2>1, <3>3 DEF Agreed
      <4>2. v[Dir][f].size <= fp.objsize
        BY <1>3, <2>4, <3>3, <4>1 DEF Apart
      <4>3. Place(k, r) \in Nat
        BY <3>1, PlaceOf
      <4>4. Place(k, r) <= fp.objsize
        BY <1>2, <2>2, <2>5, <4>2, <4>3
      <4> QED BY <1>3, <1>5, <3>3, <4>1, <4>4 DEF Holds
    <3> QED BY <3>2, <3>3
  <2> QED BY <2>1, <2>5 DEF KeptOn, Holds
<1> QED BY <1>6

LEMMA WriteBackKept ==
  ASSUME Inv, FilesOK, WriteBack
  PROVE  FilesOK'
<1>1. /\ Types /\ Calls /\ Chains /\ Stored /\ OpenKept /\ Fresh /\ Widened /\ Written /\ fp \in FileObjects
      /\ faults \in Nat
  BY DEF Inv, FilesOK, Doing, Types
<1>2. /\ pc = "close" /\ fp.modified /\ fp.dirty /\ UNCHANGED <<card, win, saved>> /\ IsOpen /\ pc \in Closing
      /\ op.kind # "read" /\ op.file \in Files /\ Writes
  BY <1>1 DEF WriteBack, IsOpen, Closing, Calls, Types, Requests, Writes
<1>3. \/ data' = View /\ fp' = [fp EXCEPT !.dirty = FALSE] /\ UNCHANGED <<op, pc, x, faults>>
      \/ data' \in {data, View} /\ LeftOpen /\ Fault(TRUE)
  BY <1>2 DEF WriteBack, View
<1>4. KeptOn(card, View, saved) /\ KeptOn(Volume, View, saved)
  BY <1>2, BufferKept
<1>5. Same
  BY <1>1, <1>2, <1>3, Unmoved DEF Fault
<1>6. CASE data' = View /\ fp' = [fp EXCEPT !.dirty = FALSE] /\ UNCHANGED <<op, pc, x, faults>>
  <2>1. /\ fp'.sclust = fp.sclust /\ fp'.objsize = fp.objsize /\ fp'.modified = fp.modified /\ fp'.dirty = FALSE
    BY <1>1, <1>6 DEF FileObjects
  <2>2. Volume' = Volume /\ Own' = Own /\ View' = View /\ card' = card /\ IsOpen'
    BY <1>2, <1>5, <1>6, <2>1 DEF Same, Own, View, IsOpen
  <2>3. Agree'
    <3>1. Loose' = 0
      BY <1>2, <1>6 DEF Loose
    <3>2. \A i \in Owners : First(i)' = First(i) \/ First(i)' \notin Clusters
      BY <1>2, <1>6, <2>1, <2>2, <3>1, FirstsStay
    <3>3. \A d \in Clusters : Fat(Volume', d) = Fat(Volume, d)
      BY <2>2
    <3> QED BY <1>1, <1>2, <2>2, <3>1, <3>2, <3>3, AgreeSteady DEF Stored
  <2>4. Stored'
    <3>1. SavedOK' /\ Grows'
      BY <1>1, <1>2, <2>2 DEF Stored, SavedOK, Grows
    <3>2. KeptOn(card, data, saved)' /\ KeptOn(Volume, data, saved)'
      BY <1>2, <1>4, <1>6, <2>2
    <3> QED BY <2>3, <3>1, <3>2 DEF Stored
  <2>5. OpenKept'
    BY <1>1, <1>2, <1>6, <2>1, <2>2 DEF OpenKept, Writes
  <2>6. Fresh'
    BY <1>1, <1>2, <1>6, <2>2 DEF Fresh
  <2>7. Widened'
    BY <1>1, <1>2, <1>6, <2>2 DEF Widened, Writes
  <2>8. Written'
    BY <1>1, <1>2, <1>6, <2>1, <2>2 DEF Written, Writes
  <2>9. Reading'
    BY <1>2, <1>6 DEF Reading
  <2>10. Pointer'
    BY <1>2, <1>6, PointerClosed
  <2> QED BY <2>4, <2>5, <2>6, <2>7, <2>8, <2>9, <2>10 DEF FilesOK, Doing
<1>7. CASE data' \in {data, View} /\ LeftOpen
  <2>1. pc' = "idle" /\ op' = NoOp
    BY <1>7 DEF LeftOpen
  <2>2. SavedOK'
    BY <1>1, <1>2 DEF Stored, SavedOK
  <2>3. KeptOn(card', data', saved') /\ KeptOn(Volume, data', saved')
    <3>1. CASE data' = View
      BY <1>2, <1>4, <3>1
    <3>2. CASE data' = data
      BY <1>1, <1>2, <3>2 DEF Stored
    <3> QED BY <1>7, <3>1, <3>2
  <2> QED BY <1>5, <2>1, <2>2, <2>3, StoredAnew
<1> QED BY <1>3, <1>6, <1>7

LEMMA UpdateEntryKept ==
  ASSUME Inv, FilesOK, UpdateEntry
  PROVE  FilesOK'
<1>1. /\ Types /\ Calls /\ Chains /\ Stored /\ OpenKept /\ Fresh /\ Widened /\ Written /\ CardTypes /\ faults \in Nat
      /\ fp \in FileObjects
  BY DEF Inv, FilesOK, Doing, Types
<1>2. /\ pc = "close" /\ fp.modified /\ ~fp.dirty /\ data' = data /\ saved' = saved /\ IsOpen /\ pc \in Closing
      /\ op.kind # "read" /\ op.file \in Files /\ Writes /\ pc # "idle" /\ fp.objsize \in Nat
  BY <1>1 DEF UpdateEntry, IsOpen, Closing, Calls, Types, Requests, Writes, FileObjects
<1> DEFINE e == [sclust |-> fp.sclust, size |-> fp.objsize]
<1>3. PICK m \in move_window(Dir) :
        IF m.ok THEN Window(m, Put(m.win, op.file, e)) /\ Goto("sync") /\ UNCHANGED <<fp, x>>
        ELSE Window(m, m.win) /\ LeftOpen
  BY DEF UpdateEntry
<1>4. e.sclust = fp.sclust /\ e.size = fp.objsize /\ e \in EntrySet
  BY <1>1 DEF FileObjects, EntrySet
<1> HIDE DEF e
<1>5. CASE ~m.ok
  <2>1. Same
    BY <1>1, <1>3, <1>5, Glimpsed, SectorNumbers
  <2> QED BY <1>2, <1>3, <1>5, <2>1, LeftKept
<1>6. CASE m.ok
  <2>1. pc' = "sync" /\ op' = op /\ fp' = fp
    BY <1>3, <1>6 DEF Goto
  <2>2. op.file \in DOMAIN Volume[Dir]
    BY <1>1, <1>2, VolumeNow
  <2>3. Volume' = [Volume EXCEPT ![Dir][op.file] = e] /\ card' \in {card, Volume}
    BY <1>1, <1>3, <1>4, <1>6, <2>2, Puts, SectorNumbers
  <2>4. /\ Volume'[Dir] = [Volume[Dir] EXCEPT ![op.file] = e]
        /\ \A c \in Clusters : Fat(Volume', c) = Fat(Volume, c)
    BY <1>1, <2>3, VolumeNow, SectorNumbers DEF IsVolume, Fat, Dir
  <2>5. /\ Volume'[Dir][op.file] = e
        /\ \A i \in Files \ {op.file} : Volume'[Dir][i] = Volume[Dir][i]
    BY <1>1, <1>2, <2>4, VolumeNow
  <2>6. Own' = Own /\ \A c : Chain(Volume', c) = Chain(Volume, c)
    BY <2>1, <2>4, SameTable DEF Own
  <2>7. IsOpen' /\ Loose' = 0 /\ Loose = 0 /\ ~Truncated
    BY <1>2, <2>1 DEF IsOpen, Loose, Closing, Truncated
  <2>8. \A i \in Owners : First(i)' = First(i)
    BY <1>2, <2>1, <2>5, <2>7 DEF First, Owners
  <2>9. /\ \A f \in Files : Volume[Dir][f].size \in Nat
        /\ Volume[Dir][op.file].size <= fp.objsize /\ Holds(Own, data, fp.objsize, saved[op.file])
        /\ View = data /\ View' = data
    BY <1>1, <1>2, <2>1, VolumeNow DEF EntrySet, OpenKept, View
  <2>10. Agree'
    BY <1>1, <2>3, <2>4, <2>7, <2>8, AgreeSteady DEF Stored
  <2>11. Grows'
    <3>1. ASSUME NEW f \in Images PROVE card'[Dir][f].size <= Volume'[Dir][f].size
      <4>1. card[Dir][f].size <= Volume[Dir][f].size /\ f \in Files
        BY <1>1 DEF Stored, Grows, Files
      <4>2. card[Dir][f].size \in Nat /\ Volume[Dir][f].size \in Nat
        BY <1>1, <4>1, VolumeNow, VolumeParts DEF EntrySet
      <4>3. card'[Dir][f].size <= Volume[Dir][f].size
        BY <2>3, <4>1, <4>2
      <4>4. card'[Dir][f].size \in Nat
        BY <2>3, <4>2
      <4>5. CASE f = op.file
        BY <1>2, <1>4, <2>5, <2>9, <4>2, <4>3, <4>4, <4>5
      <4>6. CASE f # op.file
        BY <2>5, <4>1, <4>3, <4>6
      <4> QED BY <4>5, <4>6
    <3> QED BY <3>1 DEF Grows
  <2>12. KeptOn(Volume', data, saved)
    <3>1. ASSUME NEW f \in Files PROVE Holds(Named(Volume', f), data, Volume'[Dir][f].size, saved[f])
      <4>1. CASE f = op.file
        <5>1. Named(Volume', f) = Own /\ Volume'[Dir][f].size = fp.objsize
          BY <1>4, <2>5, <2>6, <4>1 DEF Named, Own
        <5> QED BY <2>9, <4>1, <5>1
      <4>2. CASE f # op.file
        <5>1. Volume'[Dir][f] = Volume[Dir][f]
          BY <2>5, <4>2
        <5>2. Named(Volume', f) = Named(Volume, f)
          BY <2>6, <5>1 DEF Named
        <5> QED BY <1>1, <5>1, <5>2 DEF Stored, KeptOn
      <4> QED BY <4>1, <4>2
    <3> QED BY <3>1 DEF KeptOn
  <2>13. Stored'
    <3>1. SavedOK' /\ KeptOn(Volume, data, saved)'
      BY <1>1, <1>2, <2>12 DEF Stored, SavedOK
    <3>2. KeptOn(card, data, saved)'
      BY <1>1, <1>2, <2>3 DEF Stored
    <3> QED BY <2>10, <2>11, <3>1, <3>2 DEF Stored
  <2>14. OpenKept'
    <3>1. Volume'[Dir][op'.file].size <= fp'.objsize
      BY <1>2, <1>4, <2>1, <2>5
    <3>2. Holds(Own', View', fp'.objsize, saved'[op'.file])
      BY <1>2, <2>1, <2>6, <2>9
    <3> QED BY <3>1, <3>2 DEF OpenKept
  <2>15. Fresh'
    BY <1>1, <1>2, <2>1 DEF Fresh
  <2>16. Widened'
    <3>1. Volume[Dir][op.file].size <= Volume'[Dir][op.file].size /\ Volume'[Dir][op.file].size \in Nat
      BY <1>2, <1>4, <2>5, <2>9
    <3> QED BY <1>1, <1>2, <2>1, <3>1, WidenedSteady
  <2>17. Written'
    BY <1>1, <1>2, <2>1, <2>6, <2>9 DEF Written, Writes
  <2>18. Reading'
    BY <1>2, <2>1 DEF Reading
  <2>19. Pointer'
    BY <2>1 DEF Pointer, OnTheWay, ToTransfer, Creating, Working
  <2> QED BY <2>13, <2>14, <2>15, <2>16, <2>17, <2>18, <2>19 DEF FilesOK, Doing
<1> QED BY <1>5, <1>6

(* The entry is on the card: the record is one that was written. *)
LEMMA SyncedKept ==
  ASSUME Inv, FilesOK, pc = "sync", Same, card' = Volume, data' = data, pc' = "idle", op' = NoOp, op.ok, op.kind # "read",
         saved' = [saved EXCEPT ![op.file] =
                    [least |-> IF op.pos < @.least THEN @.least ELSE op.pos + 1,
                     recs |-> [@.recs EXCEPT ![op.pos + 1] = {op.val}]]]
  PROVE  FilesOK'
<1>1. /\ Types /\ Calls /\ Chains /\ Stored /\ OpenKept /\ Widened /\ Written /\ fp \in FileObjects /\ pc # "idle"
      /\ op \in Requests /\ Volume' = Volume
  BY DEF Inv, FilesOK, Doing, Types, Same
<1>2. /\ op.file \in Files /\ op.pos \in Nat /\ op.val \in Values /\ fp.objsize \in Nat /\ Writes /\ ~fp.dirty /\ fp.modified
      /\ op.pos < fp.objsize /\ IsOpen /\ View = data
      /\ \A k \in 1 .. Len(Own), r \in Records : Place(k, r) = op.pos + 1 => data[Own[k]][r] = op.val
  BY <1>1 DEF Calls, Requests, Writes, FileObjects, Written, Closing, IsOpen, View
<1> DEFINE sv == saved[op.file]
           least == IF op.pos < sv.least THEN sv.least ELSE op.pos + 1
           recs == [sv.recs EXCEPT ![op.pos + 1] = {op.val}]
           su == [least |-> least, recs |-> recs]
<1>3. saved' = [saved EXCEPT ![op.file] = su]
  OBVIOUS
<1>4. sv.least \in Nat /\ sv.recs \in Seq(SUBSET Values) /\ saved \in [Files -> [least : Nat, recs : Seq(SUBSET Values)]]
  BY <1>1, <1>2 DEF Stored, SavedOK
<1>5. Holds(Own, data, fp.objsize, sv)
  BY <1>1, <1>2 DEF OpenKept
<1>6. Volume[Dir][op.file].size = fp.objsize /\ Named(Volume, op.file) = Own
  BY <1>1, <1>2 DEF Chains, EntryOK, Named, Own
<1>7. least = (IF op.pos < sv.least THEN sv.least ELSE op.pos + 1) /\ recs = [sv.recs EXCEPT ![op.pos + 1] = {op.val}]
      /\ su = [least |-> least, recs |-> recs]
  OBVIOUS
<1> HIDE DEF sv, least, recs, su
<1>8. fp.objsize \in sv.least .. Len(sv.recs)
  BY <1>5 DEF Holds
<1>9. /\ least \in Nat /\ recs \in Seq(SUBSET Values) /\ Len(recs) = Len(sv.recs) /\ least <= fp.objsize
      /\ su.least = least /\ su.recs = recs
  <2>1. {op.val} \in SUBSET Values /\ op.pos + 1 \in 1 .. Len(sv.recs)
    BY <1>2, <1>4, <1>8
  <2>2. recs \in Seq(SUBSET Values) /\ Len(recs) = Len(sv.recs)
    BY <1>4, <1>7, <2>1
  <2> QED BY <1>2, <1>4, <1>7, <1>8, <2>2
<1>10. su \in [least : Nat, recs : Seq(SUBSET Values)]
  BY <1>7, <1>9
<1>11. SavedOK'
  BY <1>2, <1>3, <1>4, <1>10 DEF SavedOK
<1>12. Holds(Own, data, fp.objsize, su)
  <2>1. fp.objsize \in su.least .. Len(su.recs)
    BY <1>2, <1>8, <1>9
  <2>2. ASSUME NEW k \in 1 .. Len(Own), NEW r \in Records, Place(k, r) <= fp.objsize
        PROVE  data[Own[k]][r] \in su.recs[Place(k, r)]
    <3>1. data[Own[k]][r] \in sv.recs[Place(k, r)]
      BY <1>5, <2>2 DEF Holds
    <3>2. Place(k, r) \in 1 .. Len(sv.recs)
      <4>1. k \in Nat \ {0}
        OBVIOUS
      <4>2. Place(k, r) \in Nat \ {0}
        BY <4>1, PlaceOf
      <4> QED BY <1>2, <1>4, <1>8, <2>2, <4>2
    <3>3. CASE Place(k, r) = op.pos + 1
      <4>1. recs[Place(k, r)] = {op.val}
        BY <1>4, <1>7, <3>2, <3>3
      <4> QED BY <1>2, <1>9, <3>3, <4>1
    <3>4. CASE Place(k, r) # op.pos + 1
      <4>1. recs[Place(k, r)] = sv.recs[Place(k, r)]
        BY <1>4, <1>7, <3>2, <3>4
      <4> QED BY <1>9, <3>1, <4>1
    <3> QED BY <3>3, <3>4
  <2> QED BY <2>1, <2>2 DEF Holds
<1>13. KeptOn(Volume, data, saved')
  <2>1. ASSUME NEW f \in Files PROVE Holds(Named(Volume, f), data, Volume[Dir][f].size, saved'[f])
    <3>1. CASE f = op.file
      <4>1. saved'[f] = su
        BY <1>2, <1>3, <1>4, <3>1
      <4> QED BY <1>6, <1>12, <3>1, <4>1
    <3>2. CASE f # op.file
      <4>1. saved'[f] = saved[f]
        BY <1>3, <1>4, <3>2
      <4> QED BY <1>1, <4>1 DEF Stored, KeptOn
    <3> QED BY <3>1, <3>2
  <2> QED BY <2>1 DEF KeptOn
<1>14. KeptOn(card', data', saved') /\ KeptOn(Volume, data', saved')
  BY <1>13
<1> QED BY <1>11, <1>14, StoredAnew

LEMMA SyncEntryKept ==
  ASSUME Inv, FilesOK, SyncEntry
  PROVE  FilesOK'
<1>1. Types /\ CardTypes /\ faults \in Nat
  BY DEF Inv, Types
<1>2. pc = "sync" /\ data' = data
  BY DEF SyncEntry
<1>3. PICK m \in sync_window : Window(m, m.win) /\ IF m.ok THEN ClosedWell ELSE LeftOpen /\ UNCHANGED saved
  BY DEF SyncEntry
<1>4. card' = m.card /\ win' = m.win /\ faults' = faults + (IF ~m.ok THEN 1 ELSE 0)
  BY <1>3 DEF Window, Fault
<1>5. /\ m.ok \in BOOLEAN /\ m.card \in {card, Volume}
      /\ IsWindow(m.win) /\ IsClean(m.card, m.win) /\ Cached(m.card, m.win) = Volume
      /\ m.ok => m.card = Volume /\ ~m.win.wflag
      /\ ~win.wflag => m.card = card /\ ~m.win.wflag
  BY <1>1, Synced
<1>6. Same
  <2>1. Volume' = Cached(card', win')
    BY DEF Volume
  <2>2. IsVolume(Volume) /\ IsVolume(card)
    BY <1>1, VolumeNow
  <2>3. CardTypes'
    BY <1>4, <1>5, <2>2 DEF CardTypes
  <2>4. faults' \in Nat /\ (faults' = 0 => faults = 0)
    BY <1>1, <1>4, <1>5
  <2> QED BY <1>4, <1>5, <2>1, <2>3, <2>4 DEF Same
<1>7. CASE m.ok
  <2>1. /\ pc' = "idle" /\ op' = NoOp /\ card' = Volume
        /\ saved' = IF op.ok /\ op.kind # "read"
                      THEN [saved EXCEPT ![op.file] =
                        [least |-> IF op.pos < @.least THEN @.least ELSE op.pos + 1,
                         recs |-> [@.recs EXCEPT ![op.pos + 1] = {op.val}]]]
                      ELSE saved
    BY <1>3, <1>4, <1>5, <1>7 DEF ClosedWell, Fail
  <2>2. CASE op.ok /\ op.kind # "read"
    BY <1>2, <1>6, <2>1, <2>2, SyncedKept
  <2>3. CASE ~(op.ok /\ op.kind # "read")
    BY <1>2, <1>6, <2>1, <2>3, FailKept
  <2> QED BY <2>2, <2>3
<1>8. CASE ~m.ok
  BY <1>2, <1>3, <1>6, <1>8, LeftKept
<1> QED BY <1>7, <1>8

-----------------------------------------------------------------------------
(* Every step, and what follows. *)
LEMMA NextKept ==
  ASSUME Inv, FilesOK, [Next]_vars
  PROVE  FilesOK'
<1>1. CASE Request
  BY <1>1, RequestKept
<1>2. CASE f_open
  BY <1>2, OpenKeeps
<1>3. CASE remove_chain
  BY <1>3, RemoveKept
<1>4. CASE ReopenTruncated
  BY <1>4, ReopenKept
<1>5. CASE Stretch
  BY <1>5, StretchKept
<1>6. CASE TryNext
  BY <1>6, TryNextKept
<1>7. CASE Search
  BY <1>7, SearchKept
<1>8. CASE Alloc
  BY <1>8, AllocKept
<1>9. CASE f_lseek
  BY <1>9, LseekKept
<1>10. CASE f_read
  BY <1>10, ReadKept
<1>11. CASE WriteWithin
  BY <1>11, WriteWithinKept
<1>12. CASE WriteSector
  BY <1>12, WriteSectorKept
<1>13. CASE CloseUnchanged
  BY <1>13, CloseUnchangedKept
<1>14. CASE WriteBack
  BY <1>14, WriteBackKept
<1>15. CASE UpdateEntry
  BY <1>15, UpdateEntryKept
<1>16. CASE SyncEntry
  BY <1>16, SyncEntryKept
<1>17. CASE Remount
  BY <1>17, RemountKept
<1>18. CASE UNCHANGED vars
  BY <1>18, StutterKept
<1> QED BY <1>1, <1>2, <1>3, <1>4, <1>5, <1>6, <1>7, <1>8, <1>9, <1>10, <1>11, <1>12, <1>13,
           <1>14, <1>15, <1>16, <1>17, <1>18 DEF Next, Step

(* the chains that a volume in order has are those that its entries name *)
LEMMA OrderNames ==
  ASSUME NEW v, NEW ch \in Layouts, OnChains(v, ch), NEW f \in Files
  PROVE  Named(v, f) = ch[f]
<1>1. ch[f] \in Seq(Clusters)
  <2>1. ch[f] \in UNION {[1 .. n -> Clusters] : n \in 0 .. LastCluster - 1}
    BY DEF Layouts
  <2>2. \A t \in UNION {[1 .. n -> Clusters] : n \in 0 .. LastCluster - 1} : t \in Seq(Clusters)
    BY SMT
  <2> QED BY <2>1, <2>2
<1>2. IsChain(v, ch[f], v[Dir][f].sclust)
  BY DEF OnChains
<1> QED BY <1>1, <1>2, ChainIs DEF Named

LEMMA FilesFollow ==
  ASSUME Inv, FilesOK
  PROVE  FilesKept
<1>1. PICK ch \in Layouts : OnChains(card, ch)
  BY DEF Inv, Chains, InOrder
<1>2. Kept(card, ch)
  <2>1. ASSUME NEW f \in Files
        PROVE  Holds(ch[f], data, card[Dir][f].size, saved[f])
    <3>1. Named(card, f) = ch[f]
      BY <1>1, OrderNames
    <3>2. Holds(Named(card, f), data, card[Dir][f].size, saved[f])
      BY DEF FilesOK, Stored, KeptOn
    <3> QED BY <3>1, <3>2
  <2> QED BY <2>1 DEF Kept, Holds, Place
<1>3. pc = "close" /\ op.kind = "read" /\ op.ok => op.val \in saved[op.file].recs[op.pos + 1]
  BY DEF FilesOK, Doing, Reading
<1> QED BY <1>1, <1>2, <1>3 DEF FilesKept

(* Whatever is cut short, and wherever: a record on the card is one that   *)
(* was written to that place of that file, and the last one if its write   *)
(* was reported as done; a disk image never gets shorter; a configuration  *)
(* being saved is the old one, the new one or empty; what f_read() returns *)
(* is one of these too.                                                    *)
THEOREM FilesStay == Spec => []FilesKept
<1>1. Init => Inv /\ FilesOK
  BY InitInv, InitKept
<1>2. Inv /\ FilesOK /\ [Next]_vars => (Inv /\ FilesOK)'
  BY NextInv, NextKept
<1>3. Inv /\ FilesOK => FilesKept
  BY FilesFollow
<1> QED BY <1>1, <1>2, <1>3, PTL DEF Spec
=============================================================================
