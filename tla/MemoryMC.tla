------------------------------ MODULE MemoryMC ------------------------------
(* Memory in miniature: two banks of two cells, two cells of common RAM,   *)
(* a ROM of two cells.                                                     *)
EXTENDS Memory

MCCode == [a \in {4, 5} |-> 1]

(* What a program that reads the number of banks from the MMU port selects, *)
(* and what one that does not may select.                                   *)
BanksThatExist == 0 .. 2
AnyBank == 0 .. 3
=============================================================================
