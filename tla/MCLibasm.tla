------------------------------ MODULE MCLibasm ------------------------------
(* Two strings of up to three and two bytes, with anything behind their    *)
(* ends, of Z, z, the byte after Z, and one that is no ASCII.              *)
EXTENDS Libasm

MCBytes == {0, 90, 91, 122, 255}
MCMemory == {m \in [1 .. 7 -> MCBytes] : m[4] = 0 /\ m[7] = 0}
MCCounts == {-1, 0, 1, 2, 3}
MCRests == {0, 256}
=============================================================================
