---------------------------- MODULE MemoryProofs ----------------------------
(***************************************************************************)
(* Proofs about Memory, and at the end about the other ports of simio.c.   *)
(*                                                                         *)
(* Memory: for every size of memory, bank, ROM and sector, and             *)
(* every set of bytes.  The guest program is assumed to select banks that  *)
(* exist: the code does not refuse the others (see BankExists).            *)
(***************************************************************************)
EXTENDS Memory, SimIo, TLAPS

KnowsBanks == Selectable \subseteq Banks

(* The inductive invariant.  The pointer is a bank, and the selected one   *)
(* unless mmu_out() is between its two stores; a reader that has seen a    *)
(* bank selected has an address inside a bank; a block transfer has all of *)
(* its remaining bytes below the end of memory.                            *)
CellsOK ==
  /\ bnk0 \in [Addr -> Byte]
  /\ bnks \in [1 .. NumSeg -> [0 .. SegSiz - 1 -> Byte]]
  /\ got \in Byte
BankOK ==
  /\ selbnk \in Banks /\ selbnk \in {0} \cup Selectable
  /\ curbnk \in 1 .. NumSeg
  /\ cpu = "mmu" => selbnk # 0
  /\ selbnk # 0 /\ cpu # "mmu" => curbnk = selbnk
CoreOK ==
  /\ cpu \in {"menu", "load", "run", "mmu", "dma"}
  /\ dma \in Transfers
  /\ cpu = "dma" => dma.addr + dma.left <= MemSize - 1
ReaderOK ==
  /\ reader \in [step : {"idle", "select", "fetch"}, addr : Addr, bank : Banks]
  /\ reader.step # "idle" /\ reader.bank # 0 => reader.addr < SegSiz
  /\ reader.step = "select" => reader.addr < SegSiz
IInv == CellsOK /\ RomIntact /\ BankOK /\ CoreOK /\ ReaderOK

(* What a store does to the cells: it changes one cell outside the ROM.    *)
LEMMA StoreCells ==
  ASSUME IInv, NEW a \in Addr, NEW d \in Byte, Store(a, d), got' = got,
         cpu # "mmu"
  PROVE  CellsOK' /\ RomIntact'
<1> USE SizesAssumption, CodeAssumption DEF IInv, CellsOK, BankOK, RomIntact
<1>1. CASE InBank0(a)
  <2>1. bnks' = bnks
        /\ bnk0' = IF a < RomStart THEN [bnk0 EXCEPT ![a] = d] ELSE bnk0
    BY <1>1 DEF Store
  <2>2. CellsOK'
    BY <2>1
  <2>3. RomIntact'
    BY <2>1 DEF Addr, Rom
  <2> QED BY <2>2, <2>3
<1>2. CASE ~InBank0(a)
  <2>1. a \in 0 .. SegSiz - 1
    BY <1>2 DEF InBank0, Addr
  <2>2. bnks' = [bnks EXCEPT ![curbnk][a] = d] /\ bnk0' = bnk0
    BY <1>2 DEF Store
  <2> QED BY <2>1, <2>2
<1> QED BY <1>1, <1>2

LEMMA InitOK == ASSUME Init PROVE IInv
<1> USE SizesAssumption, DmaAssumption
<1>1. CellsOK /\ RomIntact
  BY DEF Init, CellsOK, RomIntact
<1>2. BankOK
  BY DEF Init, BankOK, Banks
<1>3. CoreOK
  BY DEF Init, CoreOK, Transfers, Idle, Addr
<1>4. ReaderOK
  BY DEF Init, ReaderOK, Addr, Banks
<1> QED BY <1>1, <1>2, <1>3, <1>4 DEF IInv

(* A load returns the byte the selected address space has at the address.  *)
LEMMA LoadsSpace ==
  ASSUME IInv, cpu # "mmu", NEW a \in Addr
  PROVE  Loads(a) = {space[selbnk][a]} /\ Loads(a) \subseteq Byte
<1> USE SizesAssumption DEF IInv, CellsOK, BankOK
<1>1. CASE InBank0(a)
  BY <1>1 DEF InBank0, Loads, space, Banks
<1>2. CASE ~InBank0(a)
  <2>1. selbnk # 0 /\ a \in 0 .. SegSiz - 1 /\ curbnk = selbnk
    BY <1>2 DEF InBank0, Addr
  <2> QED BY <1>2, <2>1 DEF Loads, space, Banks
<1> QED BY <1>1, <1>2

(* A store is a write of the selected address space.                       *)
LEMMA StoreWrites ==
  ASSUME IInv, cpu # "mmu", NEW a \in Addr, NEW d \in Byte, Store(a, d),
         selbnk' = selbnk, got' = got
  PROVE  AS!Write(a, d)
<1> USE SizesAssumption DEF IInv, CellsOK, BankOK
<1>1. space' = [b \in Banks |->
                 [x \in Addr |->
                   IF x = a /\ a \notin Rom /\ (b = selbnk \/ a >= SegSiz)
                     THEN d ELSE space[b][x]]]
  <2>1. CASE InBank0(a)
    <3>1. bnks' = bnks
          /\ bnk0' = IF a < RomStart THEN [bnk0 EXCEPT ![a] = d] ELSE bnk0
      BY <2>1 DEF Store
    <3>2. ASSUME NEW b \in Banks, NEW x \in Addr
          PROVE  (IF b = 0 \/ x >= SegSiz THEN bnk0[x] ELSE bnks[b][x])'
                 = IF x = a /\ a \notin Rom /\ (b = selbnk \/ a >= SegSiz)
                     THEN d ELSE space[b][x]
      BY <2>1, <3>1 DEF InBank0, space, Addr, Rom, Banks
    <3> QED BY <3>2 DEF space
  <2>2. CASE ~InBank0(a)
    <3>1. /\ bnk0' = bnk0 /\ curbnk = selbnk /\ selbnk # 0
          /\ a \in 0 .. SegSiz - 1 /\ a \notin Rom
      BY <2>2 DEF Store, InBank0, Addr, Rom
    <3>2. bnks' = [bnks EXCEPT ![selbnk][a] = d]
      BY <2>2, <3>1 DEF Store
    <3>3. ASSUME NEW b \in Banks, NEW x \in Addr
          PROVE  (IF b = 0 \/ x >= SegSiz THEN bnk0[x] ELSE bnks[b][x])'
                 = IF x = a /\ a \notin Rom /\ (b = selbnk \/ a >= SegSiz)
                     THEN d ELSE space[b][x]
      <4>1. CASE b = 0 \/ x >= SegSiz
        BY <3>1, <4>1 DEF space
      <4>2. CASE ~(b = 0 \/ x >= SegSiz)
        <5>1. b \in 1 .. NumSeg /\ x \in 0 .. SegSiz - 1
          BY <4>2 DEF Banks, Addr
        <5>2. bnks'[b][x] = IF b = selbnk /\ x = a THEN d ELSE bnks[b][x]
          BY <3>1, <3>2, <5>1
        <5> QED BY <3>1, <4>2, <5>1, <5>2 DEF space
      <4> QED BY <4>1, <4>2
    <3> QED BY <3>3 DEF space
  <2> QED BY <2>1, <2>2
<1>2. AS!Addr = Addr /\ AS!Rom = Rom /\ AS!Banks = Banks
  BY DEF AS!Addr, AS!Rom, AS!Banks, Addr, Rom, Banks
<1> QED BY <1>1, <1>2 DEF AS!Write

ASVars == <<space, selbnk, got>>

(* What each group of steps leaves alone. *)
CellsSame == UNCHANGED <<bnk0, bnks, got>>
BankSame == UNCHANGED <<selbnk, curbnk>> /\ (cpu = "mmu" <=> cpu' = "mmu")

LEMMA CellsStay ==
  ASSUME IInv, CellsSame PROVE CellsOK' /\ RomIntact' /\ space' = space
BY DEF IInv, CellsSame, CellsOK, RomIntact, space

LEMMA BankStays == ASSUME IInv, BankSame PROVE BankOK'
BY DEF IInv, BankSame, BankOK

LEMMA CoreStays == ASSUME IInv, UNCHANGED <<cpu, dma>> PROVE CoreOK'
BY DEF IInv, CoreOK

LEMMA ReaderStays == ASSUME IInv, UNCHANGED reader PROVE ReaderOK'
BY DEF IInv, ReaderOK

(* One byte of a block transfer: the address moves on, what is left of it  *)
(* stays below the end of memory, so the WORD does not wrap.               *)
LEMMA AdvanceOK ==
  ASSUME IInv, cpu = "dma", dma.left > 0, Advance, UNCHANGED cpu
  PROVE  CoreOK'
<1> USE SizesAssumption DEF IInv, CoreOK, Transfers, Addr
<1>1. (dma.addr + 1) % MemSize = dma.addr + 1
  BY DmaAssumption
<1>2. dma' = [addr |-> dma.addr + 1, left |-> dma.left - 1]
  BY <1>1 DEF Advance
<1> QED BY <1>2, DmaAssumption

(* The steps of core 0. *)
LEMMA Core0Step ==
  ASSUME KnowsBanks, IInv, Core0
  PROVE  IInv' /\ (AS!Next \/ ASVars' = ASVars)
<1> USE SizesAssumption
<1>a. AS!Addr = Addr /\ AS!Banks = Banks
  BY DEF AS!Addr, AS!Banks, Addr, Banks
<1>1. ASSUME NEW a \in Addr, NEW d \in Byte, memwrt(a, d)
      PROVE  IInv' /\ AS!Next
  <2>1. Store(a, d) /\ cpu = "run" /\ BankSame /\ got' = got
    BY <1>1 DEF memwrt, BankSame
  <2>2. CellsOK' /\ RomIntact' /\ AS!Write(a, d)
    BY <2>1, StoreCells, StoreWrites DEF BankSame
  <2>3. BankOK' /\ CoreOK' /\ ReaderOK'
    BY <1>1, <2>1, BankStays, CoreStays, ReaderStays DEF memwrt
  <2> QED BY <2>2, <2>3, <1>a DEF IInv, AS!Next
<1>2. ASSUME NEW a \in Addr, memrdr(a)
      PROVE  IInv' /\ AS!Next
  <2>1. Loads(a) = {space[selbnk][a]} /\ Loads(a) \subseteq Byte
    BY <1>2, LoadsSpace DEF memrdr
  <2>2. got' = space[selbnk][a] /\ got' \in Byte
    BY <1>2, <2>1 DEF memrdr
  <2>3. UNCHANGED <<bnk0, bnks, selbnk>> /\ BankSame
    BY <1>2 DEF memrdr, BankSame
  <2>4. CellsOK' /\ RomIntact'
    BY <2>2, <2>3 DEF IInv, CellsOK, RomIntact
  <2>5. BankOK' /\ CoreOK' /\ ReaderOK'
    BY <1>2, <2>3, BankStays, CoreStays, ReaderStays DEF memrdr
  <2>6. AS!Read(a)
    BY <2>2, <2>3 DEF AS!Read, space
  <2> QED BY <2>4, <2>5, <2>6, <1>a DEF IInv, AS!Next
<1>3. ASSUME NEW data \in Selectable, mmu_out(data)
      PROVE  IInv' /\ AS!Next
  <2>1. selbnk \in 0 .. NumSeg /\ data \in Banks
    BY DEF IInv, BankOK, Banks, KnowsBanks
  <2>2. /\ cpu = "run" /\ selbnk' = data
        /\ cpu' = IF data # 0 THEN "mmu" ELSE "run"
        /\ UNCHANGED <<bnk0, bnks, curbnk, dma, got, reader>>
    BY <1>3, <2>1 DEF mmu_out
  <2>3. CellsOK' /\ RomIntact' /\ space' = space
    BY <2>2, CellsStay DEF CellsSame
  <2>4. BankOK'
    BY <2>1, <2>2 DEF IInv, BankOK
  <2>5. CoreOK' /\ ReaderOK'
    BY <2>2, ReaderStays DEF IInv, CoreOK
  <2>6. AS!Select(data)
    BY <2>2, <2>3 DEF AS!Select
  <2> QED BY <2>1, <2>3, <2>4, <2>5, <2>6, <1>a DEF IInv, AS!Next
<1>4. ASSUME SetPointer
      PROVE  IInv' /\ ASVars' = ASVars
  <2>1. CellsSame /\ UNCHANGED <<selbnk, dma, reader>> /\ cpu' = "run"
        /\ cpu = "mmu" /\ curbnk' = selbnk
    BY <1>4 DEF SetPointer, CellsSame
  <2>2. CellsOK' /\ RomIntact' /\ space' = space
    BY <2>1, CellsStay
  <2>3. BankOK'
    BY <2>1 DEF IInv, BankOK, Banks
  <2>4. CoreOK' /\ ReaderOK'
    BY <2>1, ReaderStays DEF IInv, CoreOK
  <2> QED BY <2>1, <2>2, <2>3, <2>4 DEF IInv, ASVars, CellsSame
<1>5. ASSUME reset_memory
      PROVE  IInv' /\ AS!Next
  <2>1. CellsSame /\ UNCHANGED <<curbnk, cpu, dma, reader>> /\ selbnk' = 0
        /\ cpu = "run"
    BY <1>5 DEF reset_memory, CellsSame
  <2>2. CellsOK' /\ RomIntact' /\ space' = space
    BY <2>1, CellsStay
  <2>3. BankOK'
    BY <2>1 DEF IInv, BankOK, Banks
  <2>4. CoreOK' /\ ReaderOK'
    BY <2>1, CoreStays, ReaderStays
  <2>5. AS!Select(0) /\ 0 \in Banks
    BY <2>1, <2>2 DEF AS!Select, CellsSame, Banks
  <2> QED BY <2>2, <2>3, <2>4, <2>5, <1>a DEF IInv, AS!Next
<1>6. ASSUME NEW a \in Addr, StartSector(a)
      PROVE  IInv' /\ ASVars' = ASVars
  <2>1. CellsSame /\ BankSame /\ UNCHANGED reader /\ a <= DmaMax
        /\ cpu' = "dma" /\ dma' = [addr |-> a, left |-> SecSz]
    BY <1>6 DEF StartSector, CellsSame, BankSame
  <2>2. CoreOK'
    BY <2>1, DmaAssumption DEF CoreOK, Transfers, Addr
  <2>3. CellsOK' /\ RomIntact' /\ space' = space /\ BankOK' /\ ReaderOK'
    BY <2>1, CellsStay, BankStays, ReaderStays
  <2> QED BY <2>1, <2>2, <2>3 DEF IInv, ASVars, CellsSame, BankSame
<1>7. ASSUME NEW d \in Byte, SectorByteIn(d)
      PROVE  IInv' /\ AS!Next
  <2>1. /\ cpu = "dma" /\ dma.left > 0 /\ Store(dma.addr, d) /\ Advance
        /\ BankSame /\ UNCHANGED <<cpu, got, reader>>
    BY <1>7 DEF SectorByteIn, dma_write, BankSame
  <2>2. dma.addr \in Addr
    BY DEF IInv, CoreOK, Transfers
  <2>3. CellsOK' /\ RomIntact' /\ AS!Write(dma.addr, d)
    BY <2>1, <2>2, StoreCells, StoreWrites DEF BankSame
  <2>4. BankOK' /\ CoreOK' /\ ReaderOK'
    BY <2>1, BankStays, AdvanceOK, ReaderStays
  <2> QED BY <2>2, <2>3, <2>4, <1>a DEF IInv, AS!Next
<1>8. ASSUME SectorByteOut
      PROVE  IInv' /\ AS!Next
  <2>1. /\ cpu = "dma" /\ dma.left > 0 /\ got' \in Loads(dma.addr) /\ Advance
        /\ BankSame /\ UNCHANGED <<bnk0, bnks, cpu, reader>>
    BY <1>8 DEF SectorByteOut, BankSame
  <2>2. dma.addr \in Addr
    BY DEF IInv, CoreOK, Transfers
  <2>3. /\ Loads(dma.addr) = {space[selbnk][dma.addr]}
        /\ Loads(dma.addr) \subseteq Byte
    BY <2>1, <2>2, LoadsSpace
  <2>4. got' = space[selbnk][dma.addr] /\ got' \in Byte
    BY <2>1, <2>3
  <2>5. CellsOK' /\ RomIntact'
    BY <2>1, <2>4 DEF IInv, CellsOK, RomIntact
  <2>6. BankOK' /\ CoreOK' /\ ReaderOK'
    BY <2>1, BankStays, AdvanceOK, ReaderStays
  <2>7. AS!Read(dma.addr)
    BY <2>1, <2>4 DEF AS!Read, space, BankSame
  <2> QED BY <2>2, <2>5, <2>6, <2>7, <1>a DEF IInv, AS!Next
<1>9. ASSUME SectorDone \/ StartLoad \/ LoadEnds \/ Go
      PROVE  IInv' /\ ASVars' = ASVars
  <2>1. /\ CellsSame /\ BankSame /\ UNCHANGED reader
        /\ cpu' \in {"menu", "load", "run"} /\ dma' \in {Idle, dma}
    BY <1>9 DEF SectorDone, StartLoad, LoadEnds, Go, CellsSame, BankSame
  <2>2. CoreOK'
    BY <2>1, DmaAssumption DEF IInv, CoreOK, Idle, Transfers, Addr
  <2>3. CellsOK' /\ RomIntact' /\ space' = space /\ BankOK' /\ ReaderOK'
    BY <2>1, CellsStay, BankStays, ReaderStays
  <2> QED BY <2>1, <2>2, <2>3 DEF IInv, ASVars, CellsSame, BankSame
<1>10. ASSUME NEW d \in Byte, LoadByte(d)
       PROVE  IInv' /\ AS!Next
  <2>1. /\ cpu = "load" /\ Store(dma.addr, d) /\ BankSame
        /\ dma' = [dma EXCEPT !.addr = (@ + 1) % MemSize]
        /\ UNCHANGED <<cpu, got, reader>>
    BY <1>10 DEF LoadByte, dma_write, BankSame
  <2>2. dma.addr \in Addr
    BY DEF IInv, CoreOK, Transfers
  <2>3. CellsOK' /\ RomIntact' /\ AS!Write(dma.addr, d)
    BY <2>1, <2>2, StoreCells, StoreWrites DEF BankSame
  <2>4. (dma.addr + 1) % MemSize \in Addr
    BY <2>2 DEF Addr
  <2>5. CoreOK'
    BY <2>1, <2>4 DEF IInv, CoreOK, Transfers
  <2>6. BankOK' /\ ReaderOK'
    BY <2>1, BankStays, ReaderStays
  <2> QED BY <2>2, <2>3, <2>5, <2>6, <1>a DEF IInv, AS!Next
<1> QED
  BY <1>1, <1>2, <1>3, <1>4, <1>5, <1>6, <1>7, <1>8, <1>9, <1>10 DEF Core0

(* The steps of a reader on core 1. *)
LEMMA Core1Step ==
  ASSUME IInv, Core1
  PROVE  IInv' /\ ASVars' = ASVars
<1> USE SizesAssumption
<1>1. CellsSame /\ BankSame /\ UNCHANGED <<cpu, dma>>
  BY DEF Core1, ReaderTest, ReaderPointer, ReaderFetch, CellsSame, BankSame
<1>2. ReaderOK'
  <2>1. ASSUME NEW a \in Addr, ReaderTest(a) PROVE ReaderOK'
    BY <2>1 DEF ReaderTest, ReaderOK, InBank0, Banks, Addr
  <2>2. ASSUME ReaderPointer PROVE ReaderOK'
    <3>1. reader' = [step |-> "fetch", addr |-> reader.addr, bank |-> curbnk]
          /\ reader.step = "select"
      BY <2>2 DEF IInv, ReaderOK, ReaderPointer
    <3>2. reader.addr \in Addr /\ reader.addr < SegSiz /\ curbnk \in Banks
      BY <3>1 DEF IInv, ReaderOK, BankOK, Banks
    <3> QED BY <3>1, <3>2 DEF ReaderOK
  <2>3. ASSUME ReaderFetch PROVE ReaderOK'
    BY <2>3 DEF ReaderFetch, ReaderOK, Banks, Addr
  <2> QED BY <2>1, <2>2, <2>3 DEF Core1
<1>3. CellsOK' /\ RomIntact' /\ space' = space /\ BankOK' /\ CoreOK'
  BY <1>1, CellsStay, BankStays, CoreStays
<1> QED BY <1>1, <1>2, <1>3 DEF IInv, ASVars, CellsSame, BankSame

LEMMA Inductive ==
  ASSUME KnowsBanks, IInv, [Next]_vars
  PROVE  IInv' /\ (AS!Next \/ ASVars' = ASVars)
<1>1. CASE Next
  BY <1>1, Core0Step, Core1Step DEF Next
<1>2. CASE UNCHANGED vars
  BY <1>2, CellsStay, BankStays, CoreStays, ReaderStays
  DEF IInv, vars, CellsSame, BankSame, ASVars
<1> QED BY <1>1, <1>2

THEOREM Invariance == KnowsBanks => (Spec => []IInv)
<1> SUFFICES ASSUME KnowsBanks PROVE Spec => []IInv
  OBVIOUS
<1>1. Init => IInv
  BY InitOK
<1>2. IInv /\ [Next]_vars => IInv'
  BY Inductive
<1> QED BY <1>1, <1>2, PTL DEF Spec

(* The boot ROM is never overwritten, by any store, sector or file.        *)
THEOREM RomNeverChanges == KnowsBanks => (Spec => []RomIntact)
<1>1. IInv => RomIntact
  BY DEF IInv
<1> QED BY <1>1, Invariance, PTL

(* Type correctness. *)
THEOREM TypeCorrect == KnowsBanks => (Spec => []TypeOK)
<1>1. IInv => TypeOK
  BY SizesAssumption
  DEF IInv, CellsOK, BankOK, CoreOK, ReaderOK, TypeOK, Banks
<1> QED BY <1>1, Invariance, PTL

(* The bank pointer agrees with the select register whenever core 0 is     *)
(* between two instructions, as mmu_out() and reset_memory() set both.     *)
THEOREM PointerFollows == KnowsBanks => (Spec => []PointerAgrees)
<1>1. IInv => PointerAgrees
  BY SizesAssumption DEF IInv, BankOK, PointerAgrees, Banks
<1> QED BY <1>1, Invariance, PTL

(* A load of getmem() on core 1 stays inside the arrays, also when core 0  *)
(* selects another bank between its test of selbnk and its use of curbnk.  *)
THEOREM ReadersStayInside == KnowsBanks => (Spec => []ReaderInside)
<1>1. IInv => ReaderInside
  BY SizesAssumption DEF IInv, BankOK, ReaderOK, ReaderInside, Banks
<1> QED BY <1>1, Invariance, PTL

(* A sector that prep_io() let pass is moved without wrapping around the   *)
(* end of the address space.                                               *)
THEOREM SectorsFit == KnowsBanks => (Spec => []SectorNeverWraps)
<1>1. IInv => SectorNeverWraps
  BY SizesAssumption DEF IInv, CoreOK, SectorNeverWraps
<1> QED BY <1>1, Invariance, PTL

(* The banked memory implements the NUMSEG + 1 address spaces.             *)
THEOREM Refinement == KnowsBanks => (Spec => IsAddressSpace)
<1> SUFFICES ASSUME KnowsBanks PROVE Spec => IsAddressSpace
  OBVIOUS
<1>1. Init => AS!Init
  <2> SUFFICES ASSUME Init PROVE AS!Init
    OBVIOUS
  <2>1. AS!Addr = Addr /\ AS!Rom = Rom /\ AS!Banks = Banks
    BY DEF AS!Addr, AS!Rom, AS!Banks, Addr, Rom, Banks
  <2>2. IInv
    BY InitOK
  <2>3. space \in [Banks -> [Addr -> Byte]]
    BY <2>2, SizesAssumption DEF IInv, CellsOK, space, Banks, Addr
  <2>4. \A b \in Banks, a \in SegSiz .. MemSize - 1 : space[b][a] = space[0][a]
    BY SizesAssumption DEF space, Banks, Addr
  <2>5. \A a \in Rom : space[0][a] = Code[a]
    BY SizesAssumption DEF Init, space, Banks, Addr, Rom
  <2> QED BY <2>1, <2>3, <2>4, <2>5 DEF Init, AS!Init
<1>2. IInv /\ [Next]_vars => [AS!Next]_AS!vars
  BY Inductive DEF AS!vars, ASVars
<1> QED BY <1>1, <1>2, Invariance, PTL DEF Spec, IsAddressSpace, AS!Spec

-----------------------------------------------------------------------------
(***************************************************************************)
(* The other ports of srcsim/simio.c: timer and hardware control, which    *)
(* SimIo models.  The theorems hold for every size of the alarm pool and   *)
(* whatever bytes the guest outputs.                                       *)
(***************************************************************************)
(* The inductive invariant: the port is unlocked only right after the      *)
(* magic number.                                                           *)
IoUnlocked == hwctl_lock = 0 => prev = 170
IoInv == IoTypeOK /\ IoUnlocked /\ KeyForEachCommand /\ ResetLikePowerOn

LEMMA IoInitOK == ASSUME IoInit PROVE IoInv
<1>0. alarms \in 0 .. PoolSize
  BY PoolAssumption DEF IoInit
<1>1. IoTypeOK
  BY <1>0, Zenon DEF IoInit, IoTypeOK, Effects
<1> QED BY <1>1 DEF IoInit, IoInv, IoUnlocked, KeyForEachCommand, ResetLikePowerOn

(* Steps of the timer, the break and the end of main() leave the control   *)
(* port and what depends on it alone.                                      *)
LEMMA IoPortStays ==
  ASSUME IoInv, UNCHANGED portVars
  PROVE  IoUnlocked' /\ KeyForEachCommand' /\ ResetLikePowerOn'
BY DEF IoInv, IoUnlocked, KeyForEachCommand, ResetLikePowerOn, portVars

(* An instruction that is not for the port clears the history. *)
LEMMA IoOtherInstruction ==
  ASSUME IoInv, effect' = "none", UNCHANGED <<hwctl_lock, prev>>
  PROVE  IoUnlocked' /\ KeyForEachCommand' /\ ResetLikePowerOn'
BY DEF IoInv, IoUnlocked, KeyForEachCommand, ResetLikePowerOn

LEMMA IoPortStep ==
  ASSUME IoInv, NEW data \in Bytes, HwctlLocked(data) \/ HwctlOut(data)
  PROVE  IoInv'
<1> USE DEF IoInv
<1>1. CASE HwctlLocked(data)
  <2>1. IoTypeOK'
    BY <1>1 DEF HwctlLocked, IoTypeOK, timerVars, Effects
  <2> QED BY <1>1, <2>1 DEF HwctlLocked, IoTypeOK, IoUnlocked, KeyForEachCommand, ResetLikePowerOn
<1>2. CASE HwctlOut(data)
  <2>1. Command(data) \in Effects
    BY DEF Command, Effects
  <2>2. hwctl_lock = 0 /\ hwctl_lock' = 255 /\ prev = 170 /\ key' = TRUE
        /\ prev' = data /\ effect' = Command(data)
        /\ cpu_state' \in {"stopped", cpu_state}
        /\ core' = core /\ timer' = timer /\ alarms' = alarms /\ int_int' = int_int
    BY <1>2 DEF HwctlOut, Relock, IoUnlocked, timerVars
  <2>3. /\ banked' \in BOOLEAN /\ dazzler' \in BOOLEAN
        /\ effect' = "reset" => ~banked' /\ ~dazzler'
    BY <1>2, <2>2 DEF HwctlOut
  <2>4. hwctl_lock' \in {0, 255} /\ prev' \in Bytes \cup {0}
    BY <2>2
  <2>5. cpu_state' \in {"running", "stopped"} /\ effect' \in Effects /\ key' \in BOOLEAN
    BY <2>1, <2>2 DEF IoTypeOK
  <2>6. core' \in {"run", "add", "exited"} /\ alarms' \in 0 .. PoolSize
    BY <2>2 DEF IoTypeOK
  <2>7. timer' \in BOOLEAN /\ int_int' \in BOOLEAN
    BY <2>2 DEF IoTypeOK
  <2>8. IoTypeOK'
    BY <2>3, <2>4, <2>5, <2>6, <2>7 DEF IoTypeOK
  <2> QED BY <2>2, <2>3, <2>8 DEF IoUnlocked, KeyForEachCommand, ResetLikePowerOn
<1> QED BY <1>1, <1>2

LEMMA IoStepOK == ASSUME IoInv, [IoNext]_ioVars PROVE IoInv'
<1>1. CASE UNCHANGED ioVars \/ Ended
  <2>1. UNCHANGED ioVars
    BY <1>1 DEF Ended
  <2>2. IoTypeOK'
    BY <2>1 DEF IoInv, IoTypeOK, ioVars, timerVars, portVars
  <2> QED BY <2>1, <2>2, IoPortStays DEF ioVars, IoInv
<1>2. CASE AddAlarm \/ TimerAlarm \/ Break \/ ExitIo
  <2>1. UNCHANGED portVars
    BY <1>2 DEF AddAlarm, TimerAlarm, Break, ExitIo
  <2>2. alarms' \in 0 .. PoolSize
    BY <1>2, PoolAssumption
    DEF AddAlarm, TimerAlarm, Break, ExitIo, IoInv, IoTypeOK, timerVars
  <2>3. /\ core' \in {"run", "add", "exited"} /\ cpu_state' \in {"running", "stopped"}
        /\ timer' \in BOOLEAN /\ int_int' \in BOOLEAN
    BY <1>2 DEF AddAlarm, TimerAlarm, Break, ExitIo, IoInv, IoTypeOK, timerVars
  <2>4. IoTypeOK'
    BY <2>1, <2>2, <2>3 DEF IoInv, IoTypeOK, portVars
  <2> QED BY <2>1, <2>4, IoPortStays DEF IoInv
<1>3. CASE TimerOn \/ TimerOff \/ Acknowledge \/ OtherPorts
  <2>1. effect' = "none" /\ UNCHANGED <<hwctl_lock, prev, key, cpu_state, alarms>>
    BY <1>3 DEF TimerOn, TimerOff, Acknowledge, OtherPorts, timerVars
  <2>2. /\ core' \in {"run", "add", "exited"}
        /\ timer' \in BOOLEAN /\ int_int' \in BOOLEAN
        /\ banked' \in BOOLEAN /\ dazzler' \in BOOLEAN
    BY <1>3 DEF TimerOn, TimerOff, Acknowledge, OtherPorts, IoInv, IoTypeOK, timerVars
  <2>3. IoTypeOK'
    BY <2>1, <2>2 DEF IoInv, IoTypeOK, Effects
  <2> QED BY <2>1, <2>3, IoOtherInstruction DEF IoInv
<1> QED BY <1>1, <1>2, <1>3, IoPortStep DEF IoNext

THEOREM IoInvariance == IoSpec => []IoInv
<1>1. IoInit => IoInv
  BY IoInitOK
<1>2. IoInv /\ [IoNext]_ioVars => IoInv'
  BY IoStepOK
<1> QED BY <1>1, <1>2, PTL DEF IoSpec

(* Every variable keeps its type. *)
THEOREM IoTypeCorrect == IoSpec => []IoTypeOK
<1>1. IoInv => IoTypeOK
  BY DEF IoInv
<1> QED BY <1>1, IoInvariance, PTL

(* Every command at the control port had its own magic number. *)
THEOREM KeyNeeded == IoSpec => []KeyForEachCommand
<1>1. IoInv => KeyForEachCommand
  BY DEF IoInv
<1> QED BY <1>1, IoInvariance, PTL

(* A reset leaves bank 0, the Dazzler off and the port locked. *)
THEOREM ResetIsClean == IoSpec => []ResetLikePowerOn
<1>1. IoInv => ResetLikePowerOn
  BY DEF IoInv
<1> QED BY <1>1, IoInvariance, PTL
=============================================================================
