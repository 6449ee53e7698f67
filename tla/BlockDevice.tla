---------------------------- MODULE BlockDevice ----------------------------
(***************************************************************************)
(* What disk_read() and disk_write() of the glue layer (src/glue.c) promise *)
(* to FatFS and to the USB host: an array of sectors, one request at a      *)
(* time.  A request changes nothing but the sectors it is for.              *)
(***************************************************************************)
EXTENDS Naturals, Sequences

CONSTANTS Sectors,      \* sectors of the device are 0 .. Sectors - 1
          Data,         \* contents of a sector
          Torn          \* content of a sector whose writing lost its power

VARIABLES media,        \* the contents
          request,      \* the request that is served, or NoRequest
          answer        \* the last answer

vars == <<media, request, answer>>

NoRequest == [op |-> "none", sector |-> 0, count |-> 0, data |-> <<>>]

(* the sectors a request is for, and what a write request brings for one *)
Covers(r, s) == s \in r.sector .. r.sector + r.count - 1
At(r, s) == r.data[s - r.sector + 1]

Init ==
  /\ media \in [0 .. Sectors - 1 -> Data]
  /\ request = NoRequest
  /\ answer = [ok |-> TRUE, data |-> <<>>]

(* only the first sector is known to exist *)
Ask ==
  /\ request = NoRequest
  /\ request' \in [op : {"read", "write"}, sector : 0 .. Sectors - 1, count : Nat, data : Seq(Data)]
  /\ request'.op = "write" => Len(request'.data) = request'.count
  /\ UNCHANGED <<media, answer>>

(* a sector of the write request gets a content *)
Put(s, content) ==
  /\ request.op = "write" /\ Covers(request, s)
  /\ media' = [media EXCEPT ![s] = content]

(* sectors are written in any order, also by a request that fails *)
WriteSector(s) == Put(s, At(request, s)) /\ UNCHANGED <<request, answer>>

(* a request that goes beyond the last sector never succeeds *)
Done ==
  /\ request # NoRequest
  /\ answer'.ok
  /\ request.sector + request.count <= Sectors
  /\ request' = NoRequest
  /\ UNCHANGED media
  /\ request.op = "write" =>
       \A s \in 0 .. Sectors - 1 : Covers(request, s) => media[s] = At(request, s)
  /\ request.op = "read" =>
       /\ Len(answer'.data) = request.count
       /\ \A i \in 1 .. request.count : answer'.data[i] = media[request.sector + i - 1]

Failed ==
  /\ request # NoRequest
  /\ ~answer'.ok
  /\ request' = NoRequest
  /\ UNCHANGED media \/ \E s \in 0 .. Sectors - 1 : Put(s, At(request, s))

(* a reset or a power cut: the sector being written may be lost *)
Cut ==
  /\ request' = NoRequest
  /\ UNCHANGED media \/ \E s \in 0 .. Sectors - 1 : Put(s, Torn)
  /\ UNCHANGED answer

Next == Ask \/ (\E s \in 0 .. Sectors - 1 : WriteSector(s)) \/ Done \/ Failed \/ Cut

Spec == Init /\ [][Next]_vars
=============================================================================
