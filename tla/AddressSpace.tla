---------------------------- MODULE AddressSpace ----------------------------
(***************************************************************************)
(* What the banked memory of picosim promises the programs that run on it  *)
(* (srcsim/simmem.h, srcsim/simmem.c and the MMU port of srcsim/simio.c):  *)
(* NumSeg + 1 address spaces of MemSize bytes each.  Addresses below       *)
(* SegSiz are private to a space, addresses from SegSiz up are common to   *)
(* all of them, and the page from RomStart up is a ROM.  One space is      *)
(* selected at a time.                                                     *)
(***************************************************************************)
EXTENDS Naturals

CONSTANTS
  MemSize,    \* 65536
  SegSiz,     \* SEGSIZ, the size of a bank
  RomStart,   \* 0xff00
  NumSeg,     \* NUMSEG, the number of banks besides bank 0
  Byte,       \* what a memory cell holds
  Code        \* code[] of bootrom.c, by address

Addr == 0 .. MemSize - 1
Rom == RomStart .. MemSize - 1
Banks == 0 .. NumSeg

VARIABLES
  space,      \* space[b][a]: the byte at address a of space b
  bank,       \* the space that is selected
  got         \* the byte that was read last

vars == <<space, bank, got>>

Init ==
  /\ space \in [Banks -> [Addr -> Byte]]
  /\ \A b \in Banks, a \in SegSiz .. MemSize - 1 : space[b][a] = space[0][a]
  /\ \A a \in Rom : space[0][a] = Code[a]
  /\ bank = 0
  /\ got \in Byte

(* A store reaches the selected space, or all of them, or the ROM. *)
Write(a, d) ==
  /\ space' = [b \in Banks |->
                [x \in Addr |->
                  IF x = a /\ a \notin Rom /\ (b = bank \/ a >= SegSiz)
                    THEN d ELSE space[b][x]]]
  /\ UNCHANGED <<bank, got>>

Read(a) ==
  /\ got' = space[bank][a]
  /\ UNCHANGED <<space, bank>>

Select(b) ==
  /\ bank' = b
  /\ UNCHANGED <<space, got>>

Next ==
  \/ \E a \in Addr, d \in Byte : Write(a, d)
  \/ \E a \in Addr : Read(a)
  \/ \E b \in Banks : Select(b)

Spec == Init /\ [][Next]_vars
=============================================================================
