------------------------------ MODULE DisksMC ------------------------------
(***************************************************************************)
(* Two drives of two tracks with two sectors, two names and two images: on *)
(* a card the names may open two files, the same one, or none.  The images *)
(* the host puts on the card hold the first track only, so that a write to *)
(* the second one makes the file grow.                                     *)
(***************************************************************************)
EXTENDS Disks, TLC

MCBlank == {[p \in Positions |-> IF p < SPT THEN Torn ELSE Absent]}
MCData == {"new"}
MCRequestDrives == 0 .. NumDisk
AnyNameAndImage == Permutations(Names) \cup Permutations(Images)
=============================================================================
