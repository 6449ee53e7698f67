------------------------------- MODULE Memory -------------------------------
(***************************************************************************)
(* The banked memory of picosim: bnk0[], bnks[][], the bank select         *)
(* register selbnk and the bank pointer curbnk (srcsim/simmem.h,           *)
(* srcsim/simmem.c), the MMU port (mmu_out() of srcsim/simio.c), and       *)
(* everything that goes through them: loads and stores of the CPU, sector  *)
(* DMA and the file loader (srcsim/disks.c) on core 0, and the Dazzler and *)
(* the memory panel, which read memory on core 1 while the CPU is running. *)
(*                                                                         *)
(* mmu_out() stores selbnk and curbnk one after the other, and a reader on *)
(* core 1 loads them one after the other, without a lock: these are steps  *)
(* of their own.                                                           *)
(***************************************************************************)
EXTENDS Naturals

CONSTANTS MemSize, SegSiz, RomStart, NumSeg, Byte, Code,
  SecSz,        \* SEC_SZ, the bytes of a sector
  DmaMax,       \* 0xff7f, the highest address prep_io() lets a sector go to
  Selectable    \* bytes the guest program outputs to the MMU port

Addr == 0 .. MemSize - 1
Rom == RomStart .. MemSize - 1
Banks == 0 .. NumSeg

ASSUME SizesAssumption ==
  /\ MemSize \in Nat /\ SegSiz \in Nat /\ RomStart \in Nat /\ NumSeg \in Nat
  /\ 0 < SegSiz /\ SegSiz <= RomStart /\ RomStart < MemSize /\ 0 < NumSeg

ASSUME CodeAssumption == Code \in [Rom -> Byte]

ASSUME DmaAssumption ==
  /\ SecSz \in Nat \ {0} /\ DmaMax \in Nat /\ DmaMax + SecSz < MemSize
  /\ Selectable \subseteq Nat

VARIABLES
  bnk0, bnks,   \* the memory arrays
  selbnk,       \* the bank the guest program selected
  curbnk,       \* the bank the pointer of that name points to
  cpu,          \* what core 0 is doing: "menu", "load", "run", "mmu", "dma",
                \* or "stopped" after an I/O error
  dma,          \* the block transfer core 0 is doing: next address, bytes left
  got,          \* the byte the CPU or a DMA device read last
  reader        \* a load on core 1: step, address, byte it read

vars == <<bnk0, bnks, selbnk, curbnk, cpu, dma, got, reader>>

Transfers == [addr : Addr, left : 0 .. SecSz]
Idle == [addr |-> 0, left |-> 0]

TypeOK ==
  /\ bnk0 \in [Addr -> Byte]
  /\ bnks \in [1 .. NumSeg -> [0 .. SegSiz - 1 -> Byte]]
  /\ selbnk \in {0} \cup Selectable
  /\ curbnk \in (1 .. NumSeg) \cup (Selectable \ {0})
  /\ cpu \in {"menu", "load", "run", "mmu", "dma", "stopped"}
  /\ dma \in Transfers
  /\ got \in Byte
  /\ reader \in [step : {"idle", "select", "fetch"}, addr : Addr,
                 bank : (0 .. NumSeg) \cup Selectable]

(* Mutant: the trash is written without the pointer. *)
MutInit ==
  /\ bnk0 \in [Addr -> Byte]
  /\ \A a \in Rom : bnk0[a] = Code[a]
  /\ bnks \in [1 .. NumSeg -> [0 .. SegSiz - 1 -> Byte]]
  /\ curbnk = NumSeg + 1
  /\ selbnk = 0
  /\ cpu = "menu"
  /\ dma = Idle
  /\ got \in Byte
  /\ reader = [step |-> "idle", addr |-> 0, bank |-> 0]

(* init_memory(): the boot ROM, and trash everywhere else.  The pointer is *)
(* left at the last bank it has filled.                                    *)
Init ==
  /\ bnk0 \in [Addr -> Byte]
  /\ \A a \in Rom : bnk0[a] = Code[a]
  /\ bnks \in [1 .. NumSeg -> [0 .. SegSiz - 1 -> Byte]]
  /\ curbnk = NumSeg
  /\ selbnk = 0
  /\ cpu = "menu"
  /\ dma = Idle
  /\ got \in Byte
  /\ reader = [step |-> "idle", addr |-> 0, bank |-> 0]

(***************************************************************************)
(* The access functions of simmem.h.  memwrt(), dma_write() and putmem()   *)
(* store alike, memrdr(), dma_read() and getmem() load alike.              *)
(***************************************************************************)
(* Mutant: the last bank cell is taken for common memory. *)
MutInBank0(a) == selbnk = 0 \/ a >= SegSiz - 1

InBank0(a) == selbnk = 0 \/ a >= SegSiz

Store(a, d) ==
  IF InBank0(a)
    THEN /\ bnk0' = IF a < RomStart THEN [bnk0 EXCEPT ![a] = d] ELSE bnk0
         /\ UNCHANGED bnks
    ELSE /\ bnks' = IF curbnk \in 1 .. NumSeg   \* else outside the arrays
                      THEN [bnks EXCEPT ![curbnk][a] = d] ELSE bnks
         /\ UNCHANGED bnk0

dma_write(a, d) == Store(a, d)

(* what a load may return: anything when the pointer is outside the arrays *)
Loads(a) ==
  IF InBank0(a) THEN {bnk0[a]}
  ELSE IF curbnk \in 1 .. NumSeg THEN {bnks[curbnk][a]}
  ELSE Byte

(***************************************************************************)
(* Core 0.                                                                 *)
(***************************************************************************)
memwrt(a, d) ==
  /\ cpu = "run"
  /\ Store(a, d)
  /\ UNCHANGED <<selbnk, curbnk, cpu, dma, got, reader>>

memrdr(a) ==
  /\ cpu = "run"
  /\ got' \in Loads(a)
  /\ UNCHANGED <<bnk0, bnks, selbnk, curbnk, cpu, dma, reader>>

(* Mutant: the pointer is left behind. *)
MutNoPointer(data) ==
  /\ cpu = "run"
  /\ selbnk' = data
  /\ UNCHANGED <<bnk0, bnks, curbnk, cpu, dma, got, reader>>

(* mmu_out(): the range check looks at the bank selected before *)
mmu_out(data) ==
  /\ cpu = "run"
  /\ IF selbnk > NumSeg
       THEN /\ cpu' = "stopped"
            /\ UNCHANGED selbnk
       ELSE /\ selbnk' = data
            /\ cpu' = IF data # 0 THEN "mmu" ELSE "run"
  /\ UNCHANGED <<bnk0, bnks, curbnk, dma, got, reader>>

SetPointer ==
  /\ cpu = "mmu"
  /\ curbnk' = selbnk
  /\ cpu' = "run"
  /\ UNCHANGED <<bnk0, bnks, selbnk, dma, got, reader>>

(* reset by the hardware control port *)
reset_memory ==
  /\ cpu = "run"
  /\ selbnk' = 0
  /\ UNCHANGED <<bnk0, bnks, curbnk, cpu, dma, got, reader>>

(* Mutant: any WORD is accepted. *)
MutAnyDmaAddress(a) ==
  /\ cpu = "run"
  /\ cpu' = "dma"
  /\ dma' = [addr |-> a, left |-> SecSz]
  /\ UNCHANGED <<bnk0, bnks, selbnk, curbnk, got, reader>>

(* read_sec() and write_sec(), once prep_io() has accepted the address *)
StartSector(a) ==
  /\ cpu = "run"
  /\ a <= DmaMax
  /\ cpu' = "dma"
  /\ dma' = [addr |-> a, left |-> SecSz]
  /\ UNCHANGED <<bnk0, bnks, selbnk, curbnk, got, reader>>

Advance ==
  dma' = [addr |-> (dma.addr + 1) % MemSize, left |-> dma.left - 1]

SectorByteIn(d) ==
  /\ cpu = "dma" /\ dma.left > 0
  /\ dma_write(dma.addr, d)
  /\ Advance
  /\ UNCHANGED <<selbnk, curbnk, cpu, got, reader>>

SectorByteOut ==
  /\ cpu = "dma" /\ dma.left > 0
  /\ got' \in Loads(dma.addr)
  /\ Advance
  /\ UNCHANGED <<bnk0, bnks, selbnk, curbnk, cpu, reader>>

SectorDone ==
  /\ cpu = "dma" /\ dma.left = 0
  /\ cpu' = "run"
  /\ dma' = Idle
  /\ UNCHANGED <<bnk0, bnks, selbnk, curbnk, got, reader>>

(* load_file() from the configuration dialog: a file of any length, stored *)
(* from address 0; the address is a WORD and wraps                         *)
StartLoad ==
  /\ cpu = "menu"
  /\ cpu' = "load"
  /\ dma' = Idle
  /\ UNCHANGED <<bnk0, bnks, selbnk, curbnk, got, reader>>

LoadByte(d) ==
  /\ cpu = "load"
  /\ dma_write(dma.addr, d)
  /\ dma' = [dma EXCEPT !.addr = (@ + 1) % MemSize]
  /\ UNCHANGED <<selbnk, curbnk, cpu, got, reader>>

LoadEnds ==
  /\ cpu = "load"
  /\ cpu' = "menu"
  /\ dma' = Idle
  /\ UNCHANGED <<bnk0, bnks, selbnk, curbnk, got, reader>>

Go ==
  /\ cpu = "menu"
  /\ cpu' = "run"
  /\ UNCHANGED <<bnk0, bnks, selbnk, curbnk, dma, got, reader>>

Core0 ==
  \/ \E a \in Addr, d \in Byte : memwrt(a, d)
  \/ \E a \in Addr : memrdr(a)
  \/ \E data \in Selectable : mmu_out(data)
  \/ SetPointer
  \/ reset_memory
  \/ \E a \in Addr : StartSector(a)
  \/ \E d \in Byte : SectorByteIn(d)
  \/ SectorByteOut
  \/ SectorDone
  \/ StartLoad
  \/ \E d \in Byte : LoadByte(d)
  \/ LoadEnds
  \/ Go

(***************************************************************************)
(* A dma_read() or getmem() on core 1: load selbnk, load curbnk, fetch.    *)
(***************************************************************************)
ReaderTest(a) ==
  /\ reader.step = "idle"
  /\ reader' = [step |-> IF InBank0(a) THEN "fetch" ELSE "select",
                addr |-> a, bank |-> 0]
  /\ UNCHANGED <<bnk0, bnks, selbnk, curbnk, cpu, dma, got>>

ReaderPointer ==
  /\ reader.step = "select"
  /\ reader' = [reader EXCEPT !.step = "fetch", !.bank = curbnk]
  /\ UNCHANGED <<bnk0, bnks, selbnk, curbnk, cpu, dma, got>>

ReaderFetch ==
  /\ reader.step = "fetch"
  /\ reader' = [step |-> "idle", addr |-> 0, bank |-> 0]
  /\ UNCHANGED <<bnk0, bnks, selbnk, curbnk, cpu, dma, got>>

Core1 == (\E a \in Addr : ReaderTest(a)) \/ ReaderPointer \/ ReaderFetch

Next == Core0 \/ Core1

Spec == Init /\ [][Next]_vars

(***************************************************************************)
(* Properties.                                                             *)
(***************************************************************************)

(* The two-level memory is NumSeg + 1 address spaces: space b below SegSiz  *)
(* is bank b, everything above is bnk0.                                     *)
space ==
  [b \in Banks |->
    [a \in Addr |-> IF b = 0 \/ a >= SegSiz THEN bnk0[a] ELSE bnks[b][a]]]

AS == INSTANCE AddressSpace WITH space <- space, bank <- selbnk, got <- got

(* Loads, stores, sector DMA, the file loader and bank switching behave as *)
(* on NumSeg + 1 address spaces with a common part: a store never shows in *)
(* a bank that is not selected, common memory is the same in all banks,    *)
(* the byte a load returns is the one last stored in the selected space.   *)
IsAddressSpace == AS!Spec

(* The boot ROM stays what bootrom.c says, whatever the CPU stores, DMA    *)
(* sends there, or a loaded file is long enough to reach: "Last page in    *)
(* memory is ROM and write protected" (simmem.h).                          *)
RomIntact == \A a \in Rom : bnk0[a] = Code[a]

(* Outside the two stores of mmu_out() the bank pointer agrees with the    *)
(* select register: no sequence of selections and resets separates them.   *)
PointerAgrees == selbnk # 0 /\ cpu # "mmu" => curbnk = selbnk

(* A reader on core 1 that races with a bank switch may read the bank      *)
(* selected before, but it never fetches outside the memory arrays: not    *)
(* through the pointer, and not above the end of a bank.                   *)
ReaderInside ==
  reader.step = "fetch" =>
    \/ reader.bank \in 1 .. NumSeg /\ reader.addr < SegSiz
    \/ reader.bank = 0

(* A sector transfer stays in one piece: it never wraps around to address  *)
(* 0, where it would overwrite the page-zero vectors, because prep_io()    *)
(* refuses addresses above 0xff7f.                                         *)
SectorNeverWraps == cpu = "dma" => dma.addr + dma.left <= MemSize - 1

(* Only banks that exist are ever selected, as the message "trying to      *)
(* select non-existing bank" of mmu_out() says.                            *)
BankExists == selbnk <= NumSeg
=============================================================================
