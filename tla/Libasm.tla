------------------------------- MODULE Libasm -------------------------------
(***************************************************************************)
(* libasm/: the functions in assembly, one turn of a loop at a time, over  *)
(* a memory of bytes.  fn says which function is called, with   *)
(* rdi and rsi the addresses of its strings and rdx its third argument.    *)
(*                                                                         *)
(* A byte outside of the memory may be anything.  A register is kept where *)
(* it is an address, an index or a count; of a register that only holds a  *)
(* byte, what matters is the rest of it, which a load of the low byte does *)
(* not change.                                                             *)
(***************************************************************************)
EXTENDS Integers, Sequences, FiniteSetsExt

CONSTANTS
  Bytes,      \* the values of a byte that occur, 0 among them
  S, T,       \* where the two strings are
  Memory,     \* the contents of memory: functions from addresses to Bytes
  Counts,     \* the values of n, as a signed number
  Rests,      \* the values of a register whose low byte is 0
  UINT_MAX,   \* the largest value of eax, 2^32 - 1 in the code
  LONG_MAX    \* the largest signed value of rax, 2^63 - 1 in the code

ASSUME LibasmAssumption ==
  /\ 0 \in Bytes /\ Bytes \subseteq 0 .. 255
  /\ UINT_MAX \in Nat /\ LONG_MAX \in Nat /\ 256 < UINT_MAX /\ UINT_MAX <= LONG_MAX
  /\ S \in Nat \ {0} /\ T \in Nat /\ S < T /\ 2 * T - S < LONG_MAX
  /\ Counts \subseteq -LONG_MAX - 1 .. LONG_MAX
  /\ \A x \in Rests : x \in 0 .. UINT_MAX - 255 /\ x % 256 = 0
  /\ \A m \in Memory :
       /\ DOMAIN m \subseteq 1 .. LONG_MAX - 1 /\ m \in [DOMAIN m -> Bytes]
       /\ \A a \in {S, T} : \E e \in DOMAIN m : e >= a /\ m[e] = 0 /\ a .. e \subseteq DOMAIN m

Functions ==
  {"strlen", "strchr", "strcmp", "strncmp", "strcasecmp", "strncasecmp",
   "strstr", "memcpy", "strspn", "strcspn", "strpbrk", "putc", "puts"}

VARIABLES
  fn,           \* the function that was called
  s, t, n, c,   \* its arguments, c the byte of strchr and putc
  mem, old,     \* memory, now and at the call
  code,         \* the bytes at the return address, up to the first that is 0
  at,           \* the loop it is in, "write" or "ret"
  r,            \* the registers
  reads,        \* history: the addresses the last step read
  written       \* what the call has written to standard output

args == <<fn, s, t, n, c, old, code>>
vars == <<args, mem, at, r, reads, written>>

(* With the registers as the instructions before the first loop leave them.*)
(* Only strcasecmp and strpbrk look for a NULL.                            *)
Init ==
  /\ fn \in Functions
  /\ s \in IF fn \in {"strcasecmp", "strpbrk"} THEN {0, S} ELSE {S}
  /\ t \in IF fn \in {"strcasecmp", "strpbrk"} THEN {0, T} ELSE {T}
  /\ n \in IF fn = "memcpy" THEN Counts \intersect (0 .. T - S)
          ELSE IF fn \in {"strncmp", "strncasecmp"} THEN Counts ELSE {0}
  /\ c \in IF fn \in {"strchr", "putc"} THEN Bytes ELSE {0}
  /\ old \in Memory /\ mem = old
  /\ fn = "memcpy" => t .. t + n - 1 \subseteq DOMAIN old
  /\ code \in IF fn = "strpbrk" THEN SUBSET (Bytes \ {0}) ELSE {{}}
  /\ at = IF fn = "putc" THEN "write" ELSE "loop"
  /\ reads = {} /\ written = <<>>
  /\ \E ax, bx \in IF fn = "strncmp" THEN Rests ELSE {0} :
       r = [rax |-> ax, rbx |-> bx, rdi |-> s, rsi |-> t, r8 |-> 0,
            rcx |-> IF fn \in {"memcpy", "strncasecmp"} THEN n ELSE 0]
-----------------------------------------------------------------------------
(* Mutated forms, for the sensitivity of the properties.                   *)

CountReachedLate == r.rcx > n
UpperWide(b) == b >= 65 /\ b <= 91
NextPairStuck == r
-----------------------------------------------------------------------------
(* Instructions.                                                           *)

Byte(a) == IF a \in DOMAIN mem THEN {mem[a]} ELSE Bytes
SignedByte(b) == IF b < 128 THEN b ELSE b - 256

(* sub in a register of 32 bits. *)
SubWide(x, y) ==
  LET d == (x - y) % (UINT_MAX + 1)
  IN  IF d <= UINT_MAX \div 2 THEN d ELSE d - (UINT_MAX + 1)

(* dec of a register of 64 bits. *)
Less(x) == IF x = -LONG_MAX - 1 THEN LONG_MAX ELSE x - 1

(* sub of bytes, and movsx. *)
SubByte(x, y) == SignedByte((x - y) % 256)

Upper(b) == SignedByte(b) >= 65 /\ SignedByte(b) <= 90
Lower(b) == IF Upper(b) THEN b + 32 ELSE b

Return(x) == at' = "ret" /\ r' = [r EXCEPT !.rax = x]
Again(next) == at' = "loop" /\ r' = next
Inner(next) == at' = "inner" /\ r' = next
Reading(A) == reads' = A /\ UNCHANGED <<args, mem, written>>
-----------------------------------------------------------------------------
(* The functions.                                                          *)

NextByte == [r EXCEPT !.rax = @ + 1]
LengthKnown == at' = (IF fn = "puts" THEN "write" ELSE "ret") /\ UNCHANGED r

(* asm_puts begins with a call of asm_strlen.                              *)
Strlen ==
  /\ fn \in {"strlen", "puts"} /\ at = "loop"
  /\ Reading({r.rdi + r.rax})
  /\ \E b \in Byte(r.rdi + r.rax) :
       IF b = 0 THEN LengthKnown ELSE Again(NextByte)

(* The system call write of the text: it may write less of it, or fail,    *)
(* with -errno, which is -1 here.  asm_puts does not look at what it says. *)
Write(text) ==
  \E done \in (1 .. Len(text)) \union {IF text = <<>> THEN 0 ELSE -1} :
    /\ written' = SubSeq(text, 1, done)
    /\ Return(IF fn = "putc" THEN done ELSE r.rax)
    /\ UNCHANGED <<args, mem>>

Putc ==
  /\ fn = "putc" /\ at = "write"
  /\ Write(<<c>>)
  /\ reads' = {}

Puts ==
  /\ fn = "puts" /\ at = "write"
  /\ Write([k \in 1 .. r.rax |-> mem[s + k - 1]])
  /\ reads' = s .. s + r.rax - 1

Strchr ==
  /\ fn = "strchr" /\ at = "loop"
  /\ Reading({r.rdi + r.rax})
  /\ \E cl \in Byte(r.rdi + r.rax) :
       IF cl = 0 THEN Return(0)
       ELSE IF cl = c THEN Return(r.rdi + r.rax) ELSE Again(NextByte)

NextPair == [r EXCEPT !.rcx = @ + 1]

(* What strcmp and strncmp subtract: the bytes, or all of eax and ebx, of   *)
(* which only the low bytes were loaded.                                   *)
Difference(al, bl) ==
  IF fn = "strcmp" THEN SignedByte(al) - SignedByte(bl)
  ELSE SubWide(r.rax + al, r.rbx + bl)

ComparePair ==
  LET a == r.rdi + r.rcx  b == r.rsi + r.rcx
  IN  /\ Reading({a, b})
      /\ \E al \in Byte(a), bl \in Byte(b) :
           IF al # bl THEN Return(Difference(al, bl))
           ELSE IF al = 0 THEN Return(0) ELSE Again(NextPair)

Strcmp ==
  /\ fn = "strcmp" /\ at = "loop"
  /\ ComparePair

(* jge takes the size_t n for a signed number.                             *)
CountReached == r.rcx >= n

Strncmp ==
  /\ fn = "strncmp" /\ at = "loop"
  /\ IF CountReached THEN Reading({}) /\ Return(0)
     ELSE ComparePair

NextCasePair == [r EXCEPT !.rdi = @ + 1, !.rsi = @ + 1]

(* A NULL is replaced by the other string; two of them fault.              *)
Strcasecmp ==
  LET a == IF s = 0 THEN r.rsi ELSE r.rdi
      b == IF t = 0 THEN r.rdi ELSE r.rsi
  IN  /\ fn = "strcasecmp" /\ at = "loop"
      /\ \/ /\ s = 0 /\ t = 0
            /\ at' = "fault" /\ UNCHANGED r /\ Reading({})
         \/ /\ s # 0 \/ t # 0
            /\ Reading({a, b})
            /\ \E al \in Byte(a), bl \in Byte(b) :
                 IF al = 0 \/ bl = 0 \/ Lower(al) # Lower(bl)
                 THEN Return(SubByte(Lower(al), Lower(bl)))
                 ELSE Again(NextCasePair)

(* A byte that is compared with the end of the other string is not made    *)
(* lower case.                                                             *)
Strncasecmp ==
  /\ fn = "strncasecmp" /\ at = "loop"
  /\ IF r.rcx = 0 THEN Reading({}) /\ Return(0)
     ELSE /\ Reading({r.rdi, r.rsi})
          /\ \E al \in Byte(r.rdi), bl \in Byte(r.rsi) :
               IF al = 0 \/ bl = 0 THEN Return(SubByte(al, bl))
               ELSE IF Lower(al) # Lower(bl) THEN Return(SubByte(Lower(al), Lower(bl)))
               ELSE Again([NextCasePair EXCEPT !.rcx = Less(@)])

(* A match that fails goes on one byte after the place it began at. *)
NextHaystack == [r EXCEPT !.rdi = @ + 1]

(* rbx and rcx run ahead of rdi and rsi in the inner loop. *)
Strstr ==
  /\ fn = "strstr" /\ at = "loop"
  /\ Reading({r.rdi, r.rsi})
  /\ \E al \in Byte(r.rdi), bl \in Byte(r.rsi) :
       IF bl = 0 THEN Return(r.rdi)
       ELSE IF al = bl THEN Inner([r EXCEPT !.rbx = r.rdi, !.rcx = r.rsi])
       ELSE IF al = 0 THEN Return(0) ELSE Again(NextHaystack)

StrstrInner ==
  /\ fn = "strstr" /\ at = "inner"
  /\ Reading({r.rbx + 1, r.rcx + 1})
  /\ \E al \in Byte(r.rbx + 1), dl \in Byte(r.rcx + 1) :
       IF dl = 0 THEN Return(r.rdi)
       ELSE IF al = 0 THEN Return(0)
       ELSE IF al = dl THEN Inner([r EXCEPT !.rbx = @ + 1, !.rcx = @ + 1])
       ELSE Again(NextHaystack)

Memcpy ==
  /\ fn = "memcpy" /\ at = "loop"
  /\ UNCHANGED <<args, written>>
  /\ IF r.rcx = 0 THEN reads' = {} /\ UNCHANGED mem /\ Return(s)
     ELSE /\ reads' = {r.rsi}
          /\ \E bl \in Byte(r.rsi) : mem' = [mem EXCEPT ![r.rdi] = bl]
          /\ Again([NextCasePair EXCEPT !.rcx = Less(@)])

(* rcx is the index into s, rbx (rdx in the code of strspn) that into the  *)
(* set, r8 the number of bytes that matched.                               *)
Strspn ==
  /\ fn = "strspn" /\ at = "loop"
  /\ Reading({r.rdi + r.rcx})
  /\ \E b \in Byte(r.rdi + r.rcx) :
       IF b = 0 THEN Return(r.r8) ELSE Inner([r EXCEPT !.rax = b, !.rbx = 0])

Matched == [r EXCEPT !.rcx = @ + 1, !.r8 = @ + 1]

StrspnInner ==
  /\ fn = "strspn" /\ at = "inner"
  /\ Reading({r.rsi + r.rbx})
  /\ \E b \in Byte(r.rsi + r.rbx) :
       IF b = 0 THEN Return(r.r8)
       ELSE IF b = r.rax THEN Again(Matched) ELSE Inner([r EXCEPT !.rbx = @ + 1])

Strcspn ==
  /\ fn = "strcspn" /\ at = "loop"
  /\ Reading({r.rdi + r.rcx})
  /\ \E al \in Byte(r.rdi + r.rcx) :
       IF al = 0 THEN Return(r.rcx) ELSE Inner([r EXCEPT !.rax = al, !.rbx = 0])

(* The byte is loaded into the low part of rbx, which is the index: the    *)
(* next index is that byte and one, above what inc has carried out of the  *)
(* low part.  An index beyond the address space faults.                    *)
NextIndex(bl) == (r.rbx - (r.rbx % 256)) + bl + 1

StrcspnInner ==
  /\ fn = "strcspn" /\ at = "inner"
  /\ Reading({r.rsi + r.rbx})
  /\ \E bl \in Byte(r.rsi + r.rbx) :
       IF bl = 0 THEN Again([r EXCEPT !.rcx = @ + 1])
       ELSE IF bl = r.rax THEN Return(r.rcx)
       ELSE IF r.rsi + NextIndex(bl) > LONG_MAX THEN at' = "fault" /\ UNCHANGED r
       ELSE Inner([r EXCEPT !.rbx = NextIndex(bl)])

(* The inner loop runs over the bytes at [rbp + 8], which is the return    *)
(* address and not the second argument.                                    *)
Strpbrk ==
  /\ fn = "strpbrk" /\ at = "loop"
  /\ IF s = 0 \/ t = 0 THEN Reading({}) /\ Return(0)
     ELSE /\ Reading({r.rdi})
          /\ \E al \in Byte(r.rdi) :
               IF al = 0 THEN Return(0)
               ELSE IF al \in code THEN Return(r.rdi) ELSE Again(NextHaystack)

Returned == at \in {"ret", "fault"} /\ UNCHANGED vars

Step ==
  \/ Strlen \/ Putc \/ Puts \/ Strchr \/ Strcmp \/ Strncmp \/ Strcasecmp \/ Strncasecmp
  \/ Strstr \/ StrstrInner \/ Memcpy \/ Strspn \/ StrspnInner
  \/ Strcspn \/ StrcspnInner \/ Strpbrk

Next == Step \/ Returned

(* Straight code: it goes on. *)
Spec == Init /\ [][Next]_vars /\ WF_vars(Step)
-----------------------------------------------------------------------------
(* The functions of the C library, as they are defined.                    *)

First(A) == IF A = {} THEN 0 ELSE Min(A)
Length(a) == Min({e \in DOMAIN old : e >= a /\ old[e] = 0}) - a
Extent(a) == IF a = 0 THEN {} ELSE a .. a + Length(a)
Members == {old[a] : a \in Extent(t)} \ {0}
Ascii == \A a \in Extent(s) \union Extent(t) : old[a] < 128

Fold(b) == IF b \in 65 .. 90 THEN b + 32 ELSE b
Key(b) == IF fn \in {"strcasecmp", "strncasecmp"} THEN Fold(b) ELSE b
Counted == n >= 0 /\ fn \in {"strncmp", "strncasecmp"}

(* -1, 0 or 1, as the strings, or their first n bytes, compare. *)
Differ == {k \in 0 .. Min({Length(s), Length(t)}) : Key(old[s + k]) # Key(old[t + k])}
Order ==
  LET k == Min(Differ)
  IN  IF Differ = {} \/ (Counted /\ k >= n) THEN 0
      ELSE IF Key(old[s + k]) < Key(old[t + k]) THEN -1 ELSE 1

Sign(x) == IF x < 0 THEN -1 ELSE IF x = 0 THEN 0 ELSE 1

FirstByte == First({a \in Extent(s) : old[a] = c})

FoundAt(a) ==
  \A k \in 0 .. Length(t) - 1 : a + k \in Extent(s) /\ old[a + k] = old[t + k]
FirstFound == First({a \in Extent(s) : FoundAt(a)})

Copied == [a \in DOMAIN old |-> IF a \in s .. s + n - 1 THEN old[t + a - s] ELSE old[a]]

Span == Min({k \in 0 .. Length(s) : old[s + k] \notin Members})
ComplementSpan == Min({k \in 0 .. Length(s) : old[s + k] \in Members \union {0}})
-----------------------------------------------------------------------------

Word == -LONG_MAX - 1 .. LONG_MAX
Registers == [{"rax", "rbx", "rcx", "rdi", "rsi", "r8"} -> Word]

TypeOK ==
  /\ fn \in Functions /\ s \in {0, S} /\ t \in {0, T}
  /\ n \in Counts \union {0} /\ c \in Bytes /\ code \subseteq Bytes
  /\ old \in Memory /\ mem \in [DOMAIN old -> Bytes]
  /\ at \in {"loop", "inner", "write", "ret", "fault"}
  /\ r \in Registers /\ reads \subseteq Nat /\ written \in Seq(Bytes)

(* Each function returns what the C library's does, for strings of ASCII   *)
(* where bytes are ordered.  Not so: strncmp of a count with its top bit   *)
(* set, and the sign of what strncmp returns, which is that of the rest of *)
(* two registers; strchr for the byte that ends the string; a NULL; and    *)
(* strcspn and strpbrk.  What asm_putc returns tells whether the byte was  *)
(* written; asm_puts returns the length of its string, of which any part   *)
(* or nothing may have been written.                                       *)
AgreesWithC ==
  at = "ret" /\ s # 0 /\ t # 0 =>
    /\ fn = "strlen" => r.rax = Length(s)
    /\ fn = "strchr" /\ c # 0 => r.rax = FirstByte
    /\ fn \in {"strcmp", "strcasecmp", "strncasecmp"} \/ (fn = "strncmp" /\ n >= 0) =>
         (r.rax = 0 <=> Order = 0)
    /\ fn \in {"strcmp", "strcasecmp", "strncasecmp"} /\ Ascii => Sign(r.rax) = Order
    /\ fn = "strstr" => r.rax = FirstFound
    /\ fn = "memcpy" => r.rax = s /\ mem = Copied
    /\ fn = "strspn" => r.rax = Span
    /\ fn = "putc" => written = IF r.rax = 1 THEN <<c>> ELSE <<>>
    /\ fn = "puts" => /\ r.rax = Length(s) /\ Len(written) <= Length(s)
                      /\ \A k \in DOMAIN written : written[k] = old[s + k - 1]

MayRead(a) ==
  /\ fn # "memcpy" => a \in Extent(s) \union Extent(t)
  /\ fn \in {"strncmp", "strncasecmp"} /\ n >= 0 => a < s + n \/ a \in t .. t + n - 1
  /\ fn = "memcpy" => a \in t .. t + n - 1

(* No function reads beyond the end of a string or beyond the count it was *)
(* given, but for the two whose inner loop runs over something else; and   *)
(* registers and variables have the values of their types.                 *)
ReadsInBounds ==
  /\ TypeOK
  /\ fn \notin {"strcspn", "strpbrk"} => \A a \in reads : MayRead(a)

(* Every call returns (or faults, for two NULLs), but for strcspn, which   *)
(* can come back to the same index for ever, or run out of memory.         *)
Returns == fn = "strcspn" \/ <>(at \in {"ret", "fault"})

(* 11-main.c:22-28 and 12-main.c:23-27: asm_strcspn and asm_strpbrk return *)
(* what strcspn and strpbrk do.                                            *)
AssertedByMains ==
  at = "ret" /\ s # 0 /\ t # 0 =>
    /\ fn = "strcspn" => r.rax = ComplementSpan
    /\ fn = "strpbrk" => r.rax = First({a \in Extent(s) : old[a] \in Members})
=============================================================================
