------------------------------- MODULE MCWords -------------------------------
(***************************************************************************)
(* The calls TLC makes: every number of a word of WIDTH bits and some that *)
(* do not fit, Python integers of up to one digit too many, headers of     *)
(* both classes and orders of bytes with known and unknown names, in whole *)
(* and short files, and writes of a few words near the end of a mapping.   *)
(***************************************************************************)
EXTENDS Words

Texts == [text : {"NULL", "invalid"}, value : {0}]
           \cup [text : {"number"}, value : (- 300 .. - 1) \cup (0 .. 300)]

Ints == {a \in [long : {TRUE}, negative : BOOLEAN, digits : BoundedSeq({0, 1, 3, 4, 7}, 4)] :
           IF a.digits = <<>> THEN ~ a.negative ELSE Last(a.digits) # 0}
          \cup [long : {FALSE}, negative : {FALSE}, digits : {<<>>}]

Headers ==
  [magic : {ELFMAG, 5}, class : {1, 2}, data : {0, 1, 2}, osabi : {2, 5}, type : {2, 5},
   machine : {3, 62}, version : {1}, entry : {6, 4095, 4096 * 5 + 3}]
WellFormed(h) == h.class = 2 \/ h.entry < Power(BASE, 4)
Files == [header : {h \in Headers : WellFormed(h)}, size : {0, 3, 20}]

Writes ==
  UNION {[memory : {m}, len : 1 .. Len(m)] :
           m \in BoundedSeq({"letter", "newline", "tab"}, 6) \ {<<>>}}

MCCalls ==
  [fn : {"prime_factors"}, arg : Texts] \cup [fn : {"print_python_int"}, arg : Ints]
    \cup [fn : {"hreadelf"}, arg : Files] \cup [fn : {"dump_write_buffer"}, arg : Writes]
=============================================================================
