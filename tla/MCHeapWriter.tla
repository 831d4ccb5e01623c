---------------------------- MODULE MCHeapWriter ----------------------------
(* A string of two bytes, in mappings of four that have it at their start, *)
(* at their end, twice, in part or not at all.                             *)
EXTENDS HeapWriter

MCSearch == <<1, 2>>
MCContents == {<<1, 2, 1, 2>>, <<3, 1, 2, 3>>, <<1, 1, 1, 2>>, <<3, 1, 1, 1>>}
MCReplacements == {<<>>, <<3>>, <<3, 4>>, <<3, 4, 4, 4>>}
=============================================================================
