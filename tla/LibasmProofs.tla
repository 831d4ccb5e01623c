---------------------------- MODULE LibasmProofs ----------------------------
(***************************************************************************)
(* Proofs about the functions of libasm, for any memory, any two strings   *)
(* in it and any counts.                                                   *)
(***************************************************************************)
EXTENDS Libasm, WellFoundedInduction, TLAPS

(* The strings and the memory of a call. *)
Arguments ==
  /\ fn \notin {"strcasecmp", "strpbrk"} => s = S /\ t = T
  /\ fn = "memcpy" => n \in 0 .. T - S /\ t .. t + n - 1 \subseteq DOMAIN old
  /\ fn # "memcpy" => mem = old

(* Where each function is in its strings, and what it has found there.     *)
LengthInv ==
  /\ r.rdi = s /\ r.rax \in 0 .. Length(s)
  /\ at = "write" => r.rax = Length(s)

StrchrInv ==
  /\ r.rdi = s /\ r.rax \in 0 .. Length(s)
  /\ \A k \in 0 .. r.rax - 1 : old[s + k] # c

CompareInv ==
  /\ r.rdi = s /\ r.rsi = t /\ r.rcx \in 0 .. Length(s) /\ r.rcx <= Length(t)
  /\ \A k \in 0 .. r.rcx - 1 : old[s + k] = old[t + k]
  /\ fn = "strncmp" => r.rax \in Rests /\ r.rbx \in Rests /\ (n >= 0 => r.rcx <= n)

CaseInv ==
  /\ r.rsi - t = r.rdi - s /\ r.rdi >= s
  /\ s # 0 => r.rdi \in Extent(s)
  /\ t # 0 => r.rsi \in Extent(t)
  /\ s # 0 /\ t # 0 =>
       \A k \in 0 .. r.rdi - s - 1 : Fold(old[s + k]) = Fold(old[t + k])
  /\ fn = "strncasecmp" =>
       \/ r.rcx = n - (r.rdi - s) /\ (n >= 0 => r.rcx >= 0)
       \/ n < 0 /\ r.rcx = n - (r.rdi - s) + 2 * LONG_MAX + 2

StrstrInv ==
  /\ r.rsi = t /\ r.rdi \in Extent(s)
  /\ \A a \in s .. r.rdi - 1 : ~ FoundAt(a)
  /\ at = "inner" =>
       /\ r.rbx - r.rdi = r.rcx - t
       /\ r.rbx \in Extent(s) /\ r.rcx \in Extent(t)
       /\ \A k \in 0 .. r.rcx - t : old[r.rdi + k] = old[t + k] /\ old[t + k] # 0

MemcpyInv ==
  /\ r.rcx \in 0 .. n /\ r.rdi = s + (n - r.rcx) /\ r.rsi = t + (n - r.rcx)
  /\ \A a \in DOMAIN old :
       mem[a] = IF a \in s .. s + (n - r.rcx) - 1 THEN old[t + a - s] ELSE old[a]

StrspnInv ==
  /\ r.rdi = s /\ r.rsi = t /\ r.r8 = r.rcx /\ r.rcx \in 0 .. Length(s)
  /\ \A k \in 0 .. r.rcx - 1 : old[s + k] \in Members
  /\ at = "inner" =>
       /\ r.rax = old[s + r.rcx] /\ r.rax # 0 /\ r.rbx \in 0 .. Length(t)
       /\ \A k \in 0 .. r.rbx - 1 : old[t + k] # r.rax

StrcspnInv ==
  /\ r.rdi = s /\ r.rsi = t /\ r.rcx \in 0 .. Length(s)
  /\ at = "inner" => old[s + r.rcx] # 0 /\ r.rbx \in Nat /\ t + r.rbx <= LONG_MAX

StrpbrkInv == s # 0 => r.rdi \in Extent(s)

FunctionInv ==
  /\ fn \in {"strlen", "puts"} => LengthInv
  /\ fn = "strchr" => StrchrInv
  /\ fn \in {"strcmp", "strncmp"} => CompareInv
  /\ fn \in {"strcasecmp", "strncasecmp"} => CaseInv
  /\ fn = "strstr" => StrstrInv
  /\ fn = "memcpy" => MemcpyInv
  /\ fn = "strspn" => StrspnInv
  /\ fn = "strcspn" => StrcspnInv
  /\ fn = "strpbrk" => StrpbrkInv

Running == at \notin {"ret", "fault"}

IInv == ReadsInBounds /\ Arguments /\ (Running => FunctionInv) /\ AgreesWithC
-----------------------------------------------------------------------------
Below == OpToRel(<, Nat)

LEMMA LeastFact ==
  ASSUME NEW A, A \subseteq Nat, A # {}
  PROVE  Min(A) \in A /\ \A j \in A : Min(A) <= j
  <1>1. \A i, j \in Nat : <<j, i>> \in Below <=> j < i
    BY DEF OpToRel, Below
  <1>2. IsWellFoundedOn(Below, Nat)
    BY NatLessThanWellFounded DEF Below
  <1>3. PICK i \in A : \A j \in A : <<j, i>> \notin Below
    BY <1>2, WFMin
  <1>4. \A j \in A : i <= j
    <2> TAKE j \in A
    <2>1. ~ (j < i)
      BY <1>1, <1>3
    <2> QED BY <2>1
  <1> QED BY <1>4, Zenon DEF Min

(* The least of a set is the one that is in it and below the others.       *)
LEMMA LeastIs ==
  ASSUME NEW A, A \subseteq Nat, NEW i \in A, \A j \in A : i <= j
  PROVE  Min(A) = i
  <1>1. Min(A) \in A /\ \A j \in A : Min(A) <= j
    BY LeastFact
  <1> DEFINE m == Min(A)
  <1>2. m \in Nat /\ i \in Nat /\ m <= i /\ i <= m
    BY <1>1
  <1> QED BY <1>2

LEMMA SmallFact ==
  ASSUME NEW x \in -256 .. 256
  PROVE  x \in Word
  <1>1. LONG_MAX \in Nat /\ 256 < LONG_MAX /\ Word = -LONG_MAX - 1 .. LONG_MAX
    BY LibasmAssumption DEF Word
  <1> QED BY <1>1

LEMMA FirstIs ==
  ASSUME NEW A, A \subseteq Nat, NEW i \in A, \A j \in A : i <= j
  PROVE  First(A) = i
  BY LeastIs DEF First

LEMMA MemoryFact ==
  ASSUME old \in Memory
  PROVE  /\ DOMAIN old \subseteq 1 .. LONG_MAX - 1 /\ LONG_MAX \in Nat
         /\ \A a \in DOMAIN old : a \in Nat \ {0} /\ a < LONG_MAX /\ old[a] \in 0 .. 255
         /\ old \in [DOMAIN old -> Bytes]
  BY LibasmAssumption

(* A string runs to its first byte that is 0.                              *)
LEMMA StringFact ==
  ASSUME old \in Memory, NEW a \in {S, T}
  PROVE  /\ a \in Nat \ {0} /\ Length(a) \in Nat
         /\ Extent(a) = a .. a + Length(a)
         /\ Extent(a) \subseteq DOMAIN old
         /\ old[a + Length(a)] = 0
         /\ \A k \in 0 .. Length(a) - 1 : old[a + k] # 0
  <1> DEFINE Ends == {e \in DOMAIN old : e >= a /\ old[e] = 0}
  <1>1. a \in Nat \ {0}
    BY LibasmAssumption
  <1>2. PICK e \in DOMAIN old : e >= a /\ old[e] = 0 /\ a .. e \subseteq DOMAIN old
    BY LibasmAssumption
  <1>3. Ends \subseteq Nat /\ Ends # {}
    BY <1>2, MemoryFact
  <1>4. Min(Ends) \in Ends /\ \A j \in Ends : Min(Ends) <= j
    <2> HIDE DEF Ends
    <2> QED BY <1>3, LeastFact
  <1>5. Length(a) = Min(Ends) - a
    BY DEF Length
  <1> DEFINE m == Min(Ends)
  <1>6. m \in Nat /\ m >= a /\ old[m] = 0 /\ m \in DOMAIN old
    BY <1>3, <1>4
  <1>7. m <= e
    BY <1>2, <1>4
  <1>8. Length(a) = m - a
    BY <1>5
  <1>9. \A j \in DOMAIN old : j >= a /\ old[j] = 0 => m <= j
    BY <1>4
  <1> HIDE DEF m
  <1>10. Length(a) \in Nat /\ a + Length(a) = m
    BY <1>1, <1>6, <1>8
  <1>11. Extent(a) = a .. a + Length(a)
    BY <1>1 DEF Extent
  <1>12. e \in Nat
    BY MemoryFact
  <1>13. Extent(a) \subseteq DOMAIN old
    BY <1>1, <1>2, <1>6, <1>7, <1>10, <1>11, <1>12
  <1>14. ASSUME NEW k \in 0 .. Length(a) - 1 PROVE old[a + k] # 0
    <2>1. a + k \in Extent(a) /\ a + k >= a /\ ~ (m <= a + k)
      BY <1>1, <1>6, <1>10, <1>11
    <2> QED BY <2>1, <1>9, <1>13
  <1> QED BY <1>1, <1>6, <1>10, <1>11, <1>13, <1>14
-----------------------------------------------------------------------------
LEMMA Same ==
  ASSUME UNCHANGED args
  PROVE  /\ UNCHANGED <<fn, s, t, n, c, old, code>>
         /\ Length(s)' = Length(s) /\ Length(t)' = Length(t)
         /\ Extent(s)' = Extent(s) /\ Extent(t)' = Extent(t)
         /\ \A a : (FoundAt(a)' <=> FoundAt(a)) /\ (MayRead(a)' <=> MayRead(a))
         /\ UNCHANGED <<Members, Ascii, Order, FirstByte, FirstFound, Span, Copied>>
  <1>1. UNCHANGED <<fn, s, t, n, c, old, code>>
    BY DEF args
  <1>2. /\ Length(s)' = Length(s) /\ Length(t)' = Length(t)
        /\ Extent(s)' = Extent(s) /\ Extent(t)' = Extent(t)
    BY <1>1 DEF Length, Extent
  <1>3. \A a : FoundAt(a)' <=> FoundAt(a)
    BY <1>1, <1>2 DEF FoundAt
  <1>4. UNCHANGED Members
    BY <1>1, <1>2 DEF Members
  <1>5. UNCHANGED Ascii
    BY <1>1, <1>2 DEF Ascii
  <1>6. UNCHANGED Order
    BY <1>1, <1>2 DEF Order, Differ, Key, Fold, Counted
  <1>7. UNCHANGED FirstByte
    BY <1>1, <1>2 DEF FirstByte
  <1>8. UNCHANGED FirstFound
    BY <1>1, <1>2, <1>3 DEF FirstFound
  <1>9. UNCHANGED Span
    BY <1>1, <1>2, <1>4 DEF Span
  <1>10. UNCHANGED Copied
    BY <1>1 DEF Copied
  <1>11. \A a : MayRead(a)' <=> MayRead(a)
    BY <1>1, <1>2 DEF MayRead
  <1> QED BY <1>1, <1>2, <1>3, <1>4, <1>5, <1>6, <1>7, <1>8, <1>9, <1>10, <1>11

LEMMA NumberFact ==
  /\ LONG_MAX \in Nat /\ UINT_MAX \in Nat /\ 256 < UINT_MAX /\ UINT_MAX <= LONG_MAX
  /\ S \in Nat \ {0} /\ T \in Nat \ {0} /\ S < T /\ 2 * T - S < LONG_MAX
  /\ Word = -LONG_MAX - 1 .. LONG_MAX /\ 0 \in Word /\ 1 \in Word /\ -1 \in Word
  /\ \A b \in Bytes : b \in 0 .. 255
  BY LibasmAssumption DEF Word

(* A byte of a string is what it is in memory, and not its last if not 0.  *)
LEMMA ByteFact ==
  ASSUME old \in Memory, mem = old, NEW a \in {S, T},
         NEW k \in 0 .. Length(a)
  PROVE  /\ Byte(a + k) = {old[a + k]} /\ old[a + k] \in Bytes /\ old[a + k] \in 0 .. 255
         /\ a + k \in Extent(a) /\ a + k \in 1 .. LONG_MAX - 1
         /\ k \in Word /\ k + 1 \in Word /\ a + k \in Word /\ a + k + 1 \in Word
         /\ old[a + k] # 0 => k + 1 \in 0 .. Length(a)
         /\ old[a + k] = 0 => k = Length(a)
  <1>1. /\ a \in Nat \ {0} /\ Length(a) \in Nat
        /\ Extent(a) = a .. a + Length(a)
        /\ Extent(a) \subseteq DOMAIN old
        /\ old[a + Length(a)] = 0
        /\ \A j \in 0 .. Length(a) - 1 : old[a + j] # 0
    BY StringFact
  <1>2. a + k \in Extent(a) /\ a + k \in DOMAIN old
    BY <1>1
  <1>3. a + k \in 1 .. LONG_MAX - 1 /\ old[a + k] \in Bytes /\ old[a + k] \in 0 .. 255
    BY <1>1, <1>2, MemoryFact
  <1>4. Byte(a + k) = {old[a + k]}
    BY <1>2 DEF Byte
  <1>5. old[a + k] # 0 => k + 1 \in 0 .. Length(a)
    BY <1>1
  <1>6. old[a + k] = 0 => k = Length(a)
    BY <1>1
  <1>7. k \in Word /\ k + 1 \in Word /\ a + k \in Word /\ a + k + 1 \in Word
    BY <1>1, <1>3, NumberFact
  <1> QED BY <1>2, <1>3, <1>4, <1>5, <1>6, <1>7

(* The part of the invariant that is the same for every step. *)
LEMMA Steps ==
  ASSUME IInv, UNCHANGED args,
         mem' \in [DOMAIN old -> Bytes], fn # "memcpy" => mem' = mem,
         written' \in Seq(Bytes),
         at' \in {"loop", "inner", "write", "ret", "fault"},
         r' \in Registers, reads' \subseteq Nat,
         fn \notin {"strcspn", "strpbrk"} => \A a \in reads' : MayRead(a),
         at' \notin {"ret", "fault"} => FunctionInv',
         at' = "ret" => AgreesWithC'
  PROVE  IInv'
  <1>1. TypeOK /\ Arguments
    BY DEF IInv, ReadsInBounds
  <1>2. /\ UNCHANGED <<fn, s, t, n, c, old, code>>
        /\ \A a : MayRead(a)' <=> MayRead(a)
    BY Same
  <1>3. TypeOK'
    BY <1>1, <1>2 DEF TypeOK
  <1>4. Arguments'
    BY <1>1, <1>2 DEF Arguments
  <1>5. ReadsInBounds'
    BY <1>2, <1>3 DEF ReadsInBounds
  <1>6. AgreesWithC'
    <2>1. CASE at' # "ret"
      BY <2>1 DEF AgreesWithC
    <2> QED BY <2>1
  <1> QED BY <1>4, <1>5, <1>6 DEF IInv, Running

(* A step that only reads, and goes on or returns.                         *)
LEMMA GoesOn ==
  ASSUME IInv, UNCHANGED <<args, mem, written>>,
         at' \in {"loop", "inner", "write", "ret", "fault"},
         r' \in Registers, reads' \subseteq Nat,
         fn \notin {"strcspn", "strpbrk"} => \A a \in reads' : MayRead(a),
         at' \notin {"ret", "fault"} => FunctionInv',
         at' = "ret" => AgreesWithC'
  PROVE  IInv'
  <1>1. mem' \in [DOMAIN old -> Bytes] /\ mem' = mem /\ written' \in Seq(Bytes)
    BY DEF IInv, ReadsInBounds, TypeOK
  <1> QED BY <1>1, Steps

LEMMA StrlenKeeps ==
  ASSUME IInv, Strlen
  PROVE  IInv'
  <1>1. /\ fn \in {"strlen", "puts"} /\ at = "loop" /\ reads' = {r.rdi + r.rax}
        /\ UNCHANGED <<args, mem, written>>
    BY DEF Strlen, Reading
  <1>2. TypeOK /\ mem = old /\ LengthInv /\ s = S /\ t = T /\ s # 0
    BY <1>1, NumberFact DEF IInv, ReadsInBounds, Arguments, Running, FunctionInv
  <1>3. UNCHANGED <<fn, s>> /\ Length(s)' = Length(s)
    BY <1>1, Same
  <1> DEFINE k == r.rax
  <1>4. r.rdi = s /\ k \in 0 .. Length(s)
    BY <1>2 DEF LengthInv
  <1> HIDE DEF k
  <1>5. /\ Byte(s + k) = {old[s + k]} /\ s + k \in Extent(s)
        /\ s + k \in 1 .. LONG_MAX - 1 /\ k + 1 \in Word
        /\ old[s + k] # 0 => k + 1 \in 0 .. Length(s)
        /\ old[s + k] = 0 => k = Length(s)
    BY <1>2, <1>4, ByteFact DEF TypeOK
  <1>6. IF old[s + k] = 0 THEN LengthKnown ELSE Again(NextByte)
    BY <1>4, <1>5 DEF Strlen, k
  <1>7. reads' \subseteq Nat /\ \A a \in reads' : MayRead(a)
    BY <1>1, <1>4, <1>5, NumberFact DEF MayRead, k
  <1>8. CASE old[s + k] = 0
    <2>1. /\ at' = IF fn = "puts" THEN "write" ELSE "ret"
          /\ r' = r /\ r.rax = Length(s)
      BY <1>8, <1>5, <1>6 DEF LengthKnown, k
    <2>2. at' \in {"write", "ret"} /\ r' \in Registers /\ (at' = "ret" => fn = "strlen")
      BY <2>1, <1>1, <1>2 DEF TypeOK
    <2>3. LengthInv'
      BY <2>1, <1>3, <1>4 DEF LengthInv, k
    <2>4. FunctionInv'
      BY <2>3, <1>1, <1>3 DEF FunctionInv
    <2>5. at' = "ret" => AgreesWithC'
      BY <2>1, <2>2, <1>3 DEF AgreesWithC
    <2> QED BY <2>2, <2>4, <2>5, <1>1, <1>7, GoesOn
  <1>9. CASE old[s + k] # 0
    <2>1. at' = "loop" /\ r' = [r EXCEPT !.rax = @ + 1]
      BY <1>9, <1>6 DEF Again, NextByte
    <2>2. r'.rdi = r.rdi /\ r'.rax = k + 1 /\ r' \in Registers
      BY <2>1, <1>2, <1>5 DEF TypeOK, Registers, k
    <2>3. LengthInv'
      BY <2>1, <2>2, <1>3, <1>4, <1>5, <1>9 DEF LengthInv
    <2>4. FunctionInv'
      BY <2>3, <1>1, <1>3 DEF FunctionInv
    <2> QED BY <2>1, <2>2, <2>4, <1>1, <1>7, GoesOn
  <1> QED BY <1>8, <1>9

LEMMA StrchrKeeps ==
  ASSUME IInv, Strchr
  PROVE  IInv'
  <1>1. /\ fn = "strchr" /\ at = "loop" /\ reads' = {r.rdi + r.rax}
        /\ UNCHANGED <<args, mem, written>>
    BY DEF Strchr, Reading
  <1>2. TypeOK /\ mem = old /\ StrchrInv /\ s = S /\ t = T /\ s # 0
    BY <1>1, NumberFact DEF IInv, ReadsInBounds, Arguments, Running, FunctionInv
  <1>3. UNCHANGED <<fn, s, c, old, FirstByte>> /\ Length(s)' = Length(s)
    BY <1>1, Same
  <1> DEFINE k == r.rax
  <1>4. r.rdi = s /\ k \in 0 .. Length(s) /\ \A j \in 0 .. k - 1 : old[s + j] # c
    BY <1>2 DEF StrchrInv
  <1> HIDE DEF k
  <1>5. /\ Byte(s + k) = {old[s + k]} /\ s + k \in Extent(s)
        /\ s + k \in 1 .. LONG_MAX - 1 /\ k + 1 \in Word /\ s + k \in Word
        /\ old[s + k] # 0 => k + 1 \in 0 .. Length(s)
        /\ old[s + k] = 0 => k = Length(s)
    BY <1>2, <1>4, ByteFact DEF TypeOK
  <1>6. IF old[s + k] = 0 THEN Return(0)
        ELSE IF old[s + k] = c THEN Return(s + k) ELSE Again(NextByte)
    BY <1>4, <1>5 DEF Strchr, k
  <1>7. reads' \subseteq Nat /\ \A a \in reads' : MayRead(a)
    BY <1>1, <1>4, <1>5, NumberFact DEF MayRead, k
  <1>8. /\ s \in Nat \ {0} /\ Length(s) \in Nat /\ Extent(s) = s .. s + Length(s)
    BY <1>2, StringFact DEF TypeOK
  <1> DEFINE A == {a \in Extent(s) : old[a] = c}
  <1>9. \A a \in A : \E j \in 0 .. Length(s) : a = s + j /\ old[s + j] = c
    <2> TAKE a \in A
    <2>1. a - s \in 0 .. Length(s) /\ a = s + (a - s)
      BY <1>8
    <2> QED BY <2>1
  <1>10. CASE old[s + k] = 0
    <2>1. at' = "ret" /\ r' = [r EXCEPT !.rax = 0]
      BY <1>10, <1>6 DEF Return
    <2>2. r'.rax = 0 /\ r' \in Registers
      BY <2>1, <1>2, NumberFact DEF TypeOK, Registers
    <2>3. c # 0 => FirstByte = 0
      <3> SUFFICES ASSUME c # 0 PROVE A = {}
        BY DEF FirstByte, First
      <3> SUFFICES ASSUME NEW a \in A PROVE FALSE
        OBVIOUS
      <3>1. PICK j \in 0 .. Length(s) : old[s + j] = c
        BY <1>9
      <3> QED BY <3>1, <1>4, <1>5, <1>10
    <2>4. AgreesWithC'
      BY <2>1, <2>2, <2>3, <1>1, <1>3 DEF AgreesWithC
    <2> QED BY <2>1, <2>2, <2>4, <1>1, <1>7, GoesOn
  <1>11. CASE old[s + k] # 0 /\ old[s + k] = c
    <2>1. at' = "ret" /\ r' = [r EXCEPT !.rax = s + k]
      BY <1>11, <1>6 DEF Return
    <2>2. r'.rax = s + k /\ r' \in Registers
      BY <2>1, <1>2, <1>5 DEF TypeOK, Registers
    <2>3. FirstByte = s + k
      <3>1. s + k \in A /\ A \subseteq Nat
        BY <1>5, <1>8, <1>11
      <3>2. \A a \in A : s + k <= a
        <4> TAKE a \in A
        <4>1. PICK j \in 0 .. Length(s) : a = s + j /\ old[s + j] = c
          BY <1>9
        <4> QED BY <4>1, <1>4, <1>8
      <3> HIDE DEF A
      <3>3. First(A) = s + k
        BY <3>1, <3>2, FirstIs
      <3> QED BY <3>3 DEF FirstByte, A
    <2>4. AgreesWithC'
      BY <2>1, <2>2, <2>3, <1>1, <1>3 DEF AgreesWithC
    <2> QED BY <2>1, <2>2, <2>4, <1>1, <1>7, GoesOn
  <1>12. CASE old[s + k] # 0 /\ old[s + k] # c
    <2>1. at' = "loop" /\ r' = [r EXCEPT !.rax = @ + 1]
      BY <1>12, <1>6 DEF Again, NextByte
    <2>2. r'.rdi = r.rdi /\ r'.rax = k + 1 /\ r' \in Registers
      BY <2>1, <1>2, <1>5 DEF TypeOK, Registers, k
    <2>3. StrchrInv'
      BY <2>1, <2>2, <1>3, <1>4, <1>5, <1>12 DEF StrchrInv
    <2>4. FunctionInv'
      BY <2>3, <1>1, <1>3 DEF FunctionInv
    <2> QED BY <2>1, <2>2, <2>4, <1>1, <1>7, GoesOn
  <1> QED BY <1>10, <1>11, <1>12

LEMMA PutcKeeps ==
  ASSUME IInv, Putc
  PROVE  IInv'
  <1>1. fn = "putc" /\ at = "write" /\ reads' = {} /\ UNCHANGED args /\ mem' = mem
    BY DEF Putc, Write
  <1>2. TypeOK
    BY DEF IInv, ReadsInBounds
  <1>3. c \in Bytes /\ mem' \in [DOMAIN old -> Bytes]
    BY <1>1, <1>2 DEF TypeOK
  <1>4. PICK done \in {1, -1} : written' = SubSeq(<<c>>, 1, done) /\ Return(done)
    BY <1>1, <1>3 DEF Putc, Write
  <1>5. at' = "ret" /\ r' = [r EXCEPT !.rax = done]
    BY <1>4 DEF Return
  <1>6. r'.rax = done /\ r' \in Registers
    BY <1>2, <1>4, <1>5, NumberFact DEF TypeOK, Registers
  <1>7. written' = IF done = 1 THEN <<c>> ELSE <<>>
    BY <1>3, <1>4
  <1>8. written' \in Seq(Bytes)
    BY <1>3, <1>7
  <1>9. UNCHANGED <<fn, c>>
    BY <1>1, Same
  <1>10. AgreesWithC'
    BY <1>1, <1>6, <1>7, <1>9 DEF AgreesWithC
  <1> QED BY <1>1, <1>3, <1>5, <1>6, <1>8, <1>10, Steps

LEMMA PutsKeeps ==
  ASSUME IInv, Puts
  PROVE  IInv'
  <1>1. /\ fn = "puts" /\ at = "write" /\ reads' = s .. s + r.rax - 1
        /\ UNCHANGED args /\ mem' = mem
    BY DEF Puts, Write
  <1>2. TypeOK /\ mem = old /\ LengthInv /\ s = S /\ t = T /\ s # 0
    BY <1>1, NumberFact DEF IInv, ReadsInBounds, Arguments, Running, FunctionInv
  <1>3. UNCHANGED <<fn, s, old>> /\ Length(s)' = Length(s)
    BY <1>1, Same
  <1> DEFINE l == Length(s)
             text == [k \in 1 .. l |-> mem[s + k - 1]]
  <1>4. r.rax = l
    BY <1>1, <1>2 DEF LengthInv
  <1>5. /\ s \in Nat \ {0} /\ l \in Nat /\ Extent(s) = s .. s + l
        /\ Extent(s) \subseteq DOMAIN old
    BY <1>2, StringFact DEF TypeOK
  <1> HIDE DEF l
  <1>6. \A k \in 1 .. l : mem[s + k - 1] \in Bytes
    BY <1>2, <1>5 DEF TypeOK
  <1>7. text \in Seq(Bytes) /\ Len(text) = l /\ \A k \in 1 .. l : text[k] = old[s + k - 1]
    BY <1>2, <1>5, <1>6
  <1>8. PICK done \in (1 .. Len(text)) \union {IF text = <<>> THEN 0 ELSE -1} :
          written' = SubSeq(text, 1, done) /\ Return(r.rax)
    BY <1>1, <1>4 DEF Puts, Write
  <1> HIDE DEF text
  <1>9. done \in -1 .. l /\ done \in Int /\ done <= l
    BY <1>5, <1>7, <1>8
  <1>10. /\ written' \in Seq(Bytes) /\ Len(written') <= l
         /\ \A k \in DOMAIN written' : written'[k] = old[s + k - 1]
    BY <1>5, <1>7, <1>8, <1>9
  <1>11. at' = "ret" /\ r' \in Registers /\ r'.rax = l
    BY <1>2, <1>4, <1>8 DEF Return, TypeOK, Registers
  <1>12. reads' \subseteq Nat /\ \A a \in reads' : MayRead(a)
    BY <1>1, <1>4, <1>5 DEF MayRead
  <1>13. AgreesWithC'
    BY <1>1, <1>3, <1>10, <1>11 DEF AgreesWithC, l
  <1>14. mem' \in [DOMAIN old -> Bytes]
    BY <1>1, <1>2 DEF TypeOK
  <1> QED BY <1>1, <1>10, <1>11, <1>12, <1>13, <1>14, Steps
-----------------------------------------------------------------------------
(* The order of two strings is that of the first bytes that differ.        *)
LEMMA DifferFact ==
  ASSUME old \in Memory, s = S, t = T
  PROVE  /\ Differ \subseteq Nat
         /\ \A k : k \in Differ <=> /\ k \in 0 .. Length(s) /\ k <= Length(t)
                                    /\ Key(old[s + k]) # Key(old[t + k])
  <1> DEFINE m == Min({Length(s), Length(t)})
  <1>1. Length(s) \in Nat /\ Length(t) \in Nat
    BY StringFact
  <1>2. m \in {Length(s), Length(t)} /\ \A j \in {Length(s), Length(t)} : m <= j
    BY <1>1, LeastFact
  <1>3. m \in Nat /\ \A k \in Nat : k <= m <=> k <= Length(s) /\ k <= Length(t)
    BY <1>1, <1>2
  <1>4. Differ = {k \in 0 .. m : Key(old[s + k]) # Key(old[t + k])}
    BY DEF Differ
  <1> HIDE DEF m
  <1> QED BY <1>1, <1>3, <1>4

LEMMA OrderDiffers ==
  ASSUME old \in Memory, s = S, t = T,
         NEW k \in 0 .. Length(s), k <= Length(t), n \in Int,
         Key(old[s + k]) # Key(old[t + k]),
         \A j \in 0 .. k - 1 : Key(old[s + j]) = Key(old[t + j]),
         Counted => k < n
  PROVE  Order = IF Key(old[s + k]) < Key(old[t + k]) THEN -1 ELSE 1
  <1>1. /\ Differ \subseteq Nat
        /\ \A j : j \in Differ <=> /\ j \in 0 .. Length(s) /\ j <= Length(t)
                                   /\ Key(old[s + j]) # Key(old[t + j])
    BY DifferFact
  <1>2. Length(s) \in Nat /\ Length(t) \in Nat
    BY StringFact
  <1>3. k \in Differ /\ \A j \in Differ : k <= j
    BY <1>1, <1>2
  <1>4. Min(Differ) = k /\ Differ # {}
    BY <1>1, <1>3, LeastIs
  <1>5. ~ (Counted /\ k >= n)
    BY <1>2
  <1> QED BY <1>4, <1>5 DEF Order

LEMMA OrderEqual ==
  ASSUME old \in Memory, s = S, t = T, n \in Int,
         NEW k \in 0 .. Length(s), k <= Length(t),
         \A j \in 0 .. k - 1 : Key(old[s + j]) = Key(old[t + j]),
         \/ Counted /\ k = n
         \/ k = Length(s) /\ k = Length(t)
  PROVE  Order = 0
  <1>1. /\ Differ \subseteq Nat
        /\ \A j : j \in Differ <=> /\ j \in 0 .. Length(s) /\ j <= Length(t)
                                   /\ Key(old[s + j]) # Key(old[t + j])
    BY DifferFact
  <1>2. Length(s) \in Nat /\ Length(t) \in Nat
    BY StringFact
  <1>3. CASE Differ = {}
    BY <1>3 DEF Order
  <1>4. CASE Differ # {} /\ Counted /\ k = n
    <2> DEFINE m == Min(Differ)
    <2>1. m \in Differ
      BY <1>1, <1>4, LeastFact
    <2>2. m >= k
      BY <1>1, <1>2, <2>1
    <2> HIDE DEF m
    <2> QED BY <1>4, <2>2 DEF Order, m
  <1>5. CASE k = Length(s) /\ k = Length(t)
    <2>1. old[s + k] = 0 /\ old[t + k] = 0
      BY <1>5, StringFact
    <2>2. Differ = {}
      BY <1>1, <1>2, <1>5, <2>1
    <2> QED BY <2>2 DEF Order
  <1> QED BY <1>3, <1>4, <1>5

LEMMA SubWideFact ==
  ASSUME NEW u \in 0 .. UINT_MAX, NEW v \in 0 .. UINT_MAX, u # v
  PROVE  SubWide(u, v) # 0 /\ SubWide(u, v) \in Word
  <1>1. UINT_MAX \in Nat /\ UINT_MAX + 1 \in Nat \ {0}
    BY NumberFact
  <1>2. (u - v) % (UINT_MAX + 1) # 0 /\ (u - v) % (UINT_MAX + 1) \in 0 .. UINT_MAX
    BY <1>1
  <1>3. PICK d : d = (u - v) % (UINT_MAX + 1)
    OBVIOUS
  <1>4. SubWide(u, v) = IF d <= UINT_MAX \div 2 THEN d ELSE d - (UINT_MAX + 1)
    BY <1>3 DEF SubWide
  <1>5. d \in 0 .. UINT_MAX /\ d # 0
    BY <1>2, <1>3
  <1>6. SubWide(u, v) \in -UINT_MAX .. UINT_MAX /\ SubWide(u, v) # 0
    BY <1>1, <1>4, <1>5
  <1> QED BY <1>6, NumberFact

(* What two registers of which only the low bytes differ leave when one is *)
(* subtracted from the other.                                              *)
LEMMA WideDiffers ==
  ASSUME NEW x \in Rests, NEW y \in Rests,
         NEW a \in 0 .. 255, NEW b \in 0 .. 255, a # b
  PROVE  SubWide(x + a, y + b) # 0 /\ SubWide(x + a, y + b) \in Word
  <1>1. /\ x \in 0 .. UINT_MAX - 255 /\ x % 256 = 0
        /\ y \in 0 .. UINT_MAX - 255 /\ y % 256 = 0
    BY LibasmAssumption
  <1>2. x + a \in 0 .. UINT_MAX /\ y + b \in 0 .. UINT_MAX
    BY <1>1, NumberFact
  <1>3. x \in Nat /\ y \in Nat
    BY <1>1, NumberFact
  <1>4. (x + a) % 256 = a /\ (y + b) % 256 = b
    BY <1>1, <1>3
  <1> QED BY <1>2, <1>4, SubWideFact

LEMMA SignedFact ==
  ASSUME NEW a \in 0 .. 255, NEW b \in 0 .. 255
  PROVE  /\ SignedByte(a) - SignedByte(b) \in -256 .. 256
         /\ SignedByte(a) - SignedByte(b) = 0 <=> a = b
         /\ a < 128 /\ b < 128 => SignedByte(a) - SignedByte(b) = a - b
  <1>1. PICK x : x = SignedByte(a)
    OBVIOUS
  <1>2. PICK y : y = SignedByte(b)
    OBVIOUS
  <1>3. /\ x = IF a < 128 THEN a ELSE a - 256
        /\ y = IF b < 128 THEN b ELSE b - 256
    BY <1>1, <1>2 DEF SignedByte
  <1>4. x \in -128 .. 127 /\ y \in -128 .. 127
    BY <1>3
  <1>5. x - y \in -256 .. 256
    BY <1>4
  <1>6. x - y = 0 <=> a = b
    BY <1>3, <1>4
  <1>7. a < 128 /\ b < 128 => x - y = a - b
    BY <1>3, <1>4
  <1> QED BY <1>1, <1>2, <1>5, <1>6, <1>7

LEMMA SignFact ==
  ASSUME NEW a \in 0 .. 255, NEW b \in 0 .. 255
  PROVE  Sign(a - b) = IF a = b THEN 0 ELSE IF a < b THEN -1 ELSE 1
  BY DEF Sign

LEMMA CompareKeeps ==
  ASSUME IInv, Strcmp \/ Strncmp
  PROVE  IInv'
  <1>1. /\ fn \in {"strcmp", "strncmp"} /\ at = "loop"
        /\ UNCHANGED <<args, mem, written>>
    BY DEF Strcmp, Strncmp, ComparePair, Reading
  <1>2. TypeOK /\ mem = old /\ CompareInv /\ s = S /\ t = T /\ s # 0
    BY <1>1, NumberFact DEF IInv, ReadsInBounds, Arguments, Running, FunctionInv
  <1>3. UNCHANGED <<fn, s, t, n, old, Order, Ascii>>
        /\ Length(s)' = Length(s) /\ Length(t)' = Length(t)
    BY <1>1, Same
  <1> DEFINE k == r.rcx
  <1>4. /\ r.rdi = s /\ r.rsi = t /\ k \in 0 .. Length(s) /\ k \in 0 .. Length(t)
        /\ \A j \in 0 .. k - 1 : old[s + j] = old[t + j]
        /\ fn = "strncmp" => r.rax \in Rests /\ r.rbx \in Rests /\ (n >= 0 => k <= n)
    BY <1>2, StringFact DEF CompareInv, TypeOK
  <1> HIDE DEF k
  <1> DEFINE a == old[s + k]  b == old[t + k]
  <1>5. /\ Byte(s + k) = {a} /\ s + k \in Extent(s) /\ s + k \in 1 .. LONG_MAX - 1
        /\ a \in 0 .. 255 /\ k + 1 \in Word
        /\ a # 0 => k + 1 \in 0 .. Length(s)
        /\ a = 0 => k = Length(s)
    BY <1>2, <1>4, ByteFact DEF TypeOK
  <1>6. /\ Byte(t + k) = {b} /\ t + k \in Extent(t) /\ t + k \in 1 .. LONG_MAX - 1
        /\ b \in 0 .. 255
        /\ b # 0 => k + 1 \in 0 .. Length(t)
        /\ b = 0 => k = Length(t)
    BY <1>2, <1>4, ByteFact DEF TypeOK
  <1>7. n \in Int /\ \A x : Key(x) = x
    BY <1>1, <1>2, LibasmAssumption DEF TypeOK, Key
  <1>8. CASE fn = "strncmp" /\ k >= n
    <2>1. reads' = {} /\ at' = "ret" /\ r' = [r EXCEPT !.rax = 0]
      BY <1>8 DEF Strcmp, Strncmp, CountReached, Reading, Return, k
    <2>2. r'.rax = 0 /\ r' \in Registers
      BY <2>1, <1>2, NumberFact DEF TypeOK, Registers
    <2>3. n >= 0 => Order = 0
      BY <1>2, <1>4, <1>7, <1>8, OrderEqual DEF TypeOK, Counted
    <2>4. AgreesWithC'
      BY <2>1, <2>2, <2>3, <1>3, <1>8 DEF AgreesWithC
    <2> QED BY <2>1, <2>2, <2>4, <1>1, GoesOn
  <1>9. CASE ~ (fn = "strncmp" /\ k >= n)
    <2>1. /\ reads' = {s + k, t + k}
          /\ IF a # b THEN Return(Difference(a, b))
             ELSE IF a = 0 THEN Return(0) ELSE Again(NextPair)
      BY <1>4, <1>5, <1>6, <1>9 DEF Strcmp, Strncmp, CountReached, ComparePair, Reading, k
    <2>2. fn = "strncmp" /\ n >= 0 => k < n
      BY <1>4, <1>7, <1>9
    <2>3. reads' \subseteq Nat /\ \A x \in reads' : MayRead(x)
      BY <2>1, <2>2, <1>1, <1>2, <1>4, <1>5, <1>6, <1>7, NumberFact DEF MayRead
    <2>4. CASE a # b
      <3>1. at' = "ret" /\ r' = [r EXCEPT !.rax = Difference(a, b)]
        BY <2>1, <2>4 DEF Return
      <3>2. Difference(a, b) \in Word /\ Difference(a, b) # 0
        <4>1. CASE fn = "strcmp"
          <5>1. Difference(a, b) = SignedByte(a) - SignedByte(b)
            BY <4>1 DEF Difference
          <5>2. /\ SignedByte(a) - SignedByte(b) \in -256 .. 256
                /\ SignedByte(a) - SignedByte(b) # 0
            BY <2>4, <1>5, <1>6, SignedFact, ZenonT(60)
          <5> QED BY <5>1, <5>2, SmallFact
        <4>2. CASE fn = "strncmp"
          BY <4>2, <2>4, <1>4, <1>5, <1>6, WideDiffers, ZenonT(60) DEF Difference
        <4> QED BY <4>1, <4>2, <1>1
      <3>3. r'.rax = Difference(a, b) /\ r' \in Registers
        BY <3>1, <3>2, <1>2 DEF TypeOK, Registers
      <3>4. fn = "strcmp" \/ n >= 0 => Order = IF a < b THEN -1 ELSE 1
        BY <2>2, <2>4, <1>1, <1>2, <1>4, <1>7, OrderDiffers DEF TypeOK, Counted
      <3>5. fn = "strcmp" /\ Ascii => Difference(a, b) = a - b
        BY <1>5, <1>6 DEF Ascii, Difference, SignedByte
      <3>6. fn = "strcmp" /\ Ascii => Sign(r'.rax) = Order
        <4>1. Sign(a - b) = IF a < b THEN -1 ELSE 1
          BY <2>4, <1>5, <1>6, SignFact
        <4> QED BY <4>1, <3>3, <3>4, <3>5
      <3>7. AgreesWithC'
        BY <3>1, <3>2, <3>3, <3>4, <3>6, <1>1, <1>3 DEF AgreesWithC, Sign
      <3> QED BY <3>1, <3>3, <3>7, <2>3, <1>1, GoesOn
    <2>5. CASE a = b /\ a = 0
      <3>1. at' = "ret" /\ r' = [r EXCEPT !.rax = 0]
        BY <2>1, <2>5 DEF Return
      <3>2. r'.rax = 0 /\ r' \in Registers
        BY <3>1, <1>2, NumberFact DEF TypeOK, Registers
      <3>3. Order = 0
        BY <2>5, <1>2, <1>4, <1>5, <1>6, <1>7, OrderEqual DEF TypeOK
      <3>4. AgreesWithC'
        BY <3>1, <3>2, <3>3, <1>1, <1>3 DEF AgreesWithC, Sign
      <3> QED BY <3>1, <3>2, <3>4, <2>3, <1>1, GoesOn
    <2>6. CASE a = b /\ a # 0
      <3>1. at' = "loop" /\ r' = [r EXCEPT !.rcx = @ + 1]
        BY <2>1, <2>6 DEF Again, NextPair
      <3>2. /\ r'.rdi = s /\ r'.rsi = t /\ r'.rcx = k + 1
            /\ r'.rax = r.rax /\ r'.rbx = r.rbx /\ r' \in Registers
        BY <3>1, <1>2, <1>4, <1>5 DEF TypeOK, Registers, k
      <3>3. \A j \in 0 .. k : old[s + j] = old[t + j]
        BY <2>6, <1>4
      <3>4. CompareInv'
        BY <3>1, <3>2, <3>3, <2>2, <2>6, <1>3, <1>4, <1>5, <1>6, <1>7 DEF CompareInv
      <3>5. FunctionInv'
        BY <3>4, <1>1, <1>3 DEF FunctionInv
      <3> QED BY <3>1, <3>2, <3>5, <2>3, <1>1, GoesOn
    <2> QED BY <2>4, <2>5, <2>6
  <1> QED BY <1>8, <1>9
-----------------------------------------------------------------------------
LEMMA FoldFact ==
  ASSUME NEW a \in 0 .. 255
  PROVE  /\ Lower(a) = Fold(a) /\ Fold(a) \in 0 .. 255
         /\ Fold(a) = 0 <=> a = 0
         /\ a < 128 => Fold(a) < 128
  <1>1. Upper(a) <=> a \in 65 .. 90
    BY DEF Upper, SignedByte
  <1>2. Lower(a) = IF a \in 65 .. 90 THEN a + 32 ELSE a
    BY <1>1 DEF Lower
  <1>3. Fold(a) = IF a \in 65 .. 90 THEN a + 32 ELSE a
    BY DEF Fold
  <1>4. Fold(a) \in 0 .. 255
    BY <1>3
  <1>5. Fold(a) = 0 <=> a = 0
    BY <1>3
  <1>6. a < 128 => Fold(a) < 128
    BY <1>3
  <1> QED BY <1>2, <1>3, <1>4, <1>5, <1>6

LEMMA SubByteFact ==
  ASSUME NEW a \in 0 .. 255, NEW b \in 0 .. 255
  PROVE  /\ SubByte(a, b) \in Word
         /\ SubByte(a, b) = 0 <=> a = b
         /\ a < 128 /\ b < 128 => SubByte(a, b) = a - b
  <1>1. PICK d : d = (a - b) % 256
    OBVIOUS
  <1>2. d \in 0 .. 255 /\ d \in Int
    BY <1>1
  <1>3. d = IF a >= b THEN a - b ELSE a - b + 256
    BY <1>1
  <1>4. PICK x : x = SubByte(a, b)
    OBVIOUS
  <1>5. x = IF d < 128 THEN d ELSE d - 256
    BY <1>1, <1>4 DEF SubByte, SignedByte
  <1>6. x \in -256 .. 256
    BY <1>2, <1>5
  <1>7. x = 0 <=> a = b
    BY <1>2, <1>3, <1>5
  <1>8. a < 128 /\ b < 128 => x = a - b
    BY <1>2, <1>3, <1>5
  <1> QED BY <1>4, <1>6, <1>7, <1>8, SmallFact

LEMMA CaseFact ==
  ASSUME IInv, fn \in {"strcasecmp", "strncasecmp"}, at = "loop", s # 0 \/ t # 0
  PROVE  \E k \in Nat :
           /\ r.rdi = s + k /\ r.rsi = t + k
           /\ s + k + 1 \in Word /\ t + k + 1 \in Word
           /\ s # 0 =>
                /\ s = S /\ Byte(s + k) = {old[s + k]}
                /\ s + k \in Extent(s) /\ s + k \in 1 .. LONG_MAX - 1
                /\ k \in 0 .. Length(s) /\ old[s + k] \in 0 .. 255
                /\ old[s + k] # 0 => k + 1 \in 0 .. Length(s)
                /\ old[s + k] = 0 => k = Length(s)
           /\ t # 0 =>
                /\ t = T /\ Byte(t + k) = {old[t + k]}
                /\ t + k \in Extent(t) /\ t + k \in 1 .. LONG_MAX - 1
                /\ k \in 0 .. Length(t) /\ old[t + k] \in 0 .. 255
                /\ old[t + k] # 0 => k + 1 \in 0 .. Length(t)
                /\ old[t + k] = 0 => k = Length(t)
  <1>1. TypeOK /\ mem = old /\ CaseInv
    BY DEF IInv, ReadsInBounds, Arguments, Running, FunctionInv
  <1>2. /\ s \in {0, S} /\ t \in {0, T} /\ old \in Memory
        /\ s \in Nat /\ t \in Nat /\ r.rdi \in Int /\ r.rsi \in Int
    BY <1>1, NumberFact DEF TypeOK, Registers
  <1> DEFINE k == r.rdi - s
  <1>3. k \in Nat /\ r.rdi = s + k /\ r.rsi = t + k
    BY <1>1, <1>2 DEF CaseInv
  <1>4. /\ s # 0 => s = S /\ s + k \in Extent(s)
        /\ t # 0 => t = T /\ t + k \in Extent(t)
    BY <1>1, <1>2, <1>3 DEF CaseInv
  <1> HIDE DEF k
  <1>5. ASSUME s # 0
        PROVE  /\ s = S /\ Byte(s + k) = {old[s + k]}
               /\ s + k \in Extent(s) /\ s + k \in 1 .. LONG_MAX - 1
               /\ k \in 0 .. Length(s) /\ old[s + k] \in 0 .. 255
               /\ k + 1 \in Word /\ s + k + 1 \in Word
               /\ old[s + k] # 0 => k + 1 \in 0 .. Length(s)
               /\ old[s + k] = 0 => k = Length(s)
    <2>1. Extent(s) = s .. s + Length(s) /\ Length(s) \in Nat
      BY <1>2, <1>4, <1>5, StringFact
    <2>2. k \in 0 .. Length(s)
      BY <1>2, <1>3, <1>4, <1>5, <2>1
    <2> QED BY <1>1, <1>2, <1>4, <1>5, <2>2, ByteFact
  <1>6. ASSUME t # 0
        PROVE  /\ t = T /\ Byte(t + k) = {old[t + k]}
               /\ t + k \in Extent(t) /\ t + k \in 1 .. LONG_MAX - 1
               /\ k \in 0 .. Length(t) /\ old[t + k] \in 0 .. 255
               /\ k + 1 \in Word /\ t + k + 1 \in Word
               /\ old[t + k] # 0 => k + 1 \in 0 .. Length(t)
               /\ old[t + k] = 0 => k = Length(t)
    <2>1. Extent(t) = t .. t + Length(t) /\ Length(t) \in Nat
      BY <1>2, <1>4, <1>6, StringFact
    <2>2. k \in 0 .. Length(t)
      BY <1>2, <1>3, <1>4, <1>6, <2>1
    <2> QED BY <1>1, <1>2, <1>4, <1>6, <2>2, ByteFact
  <1>7. s + k + 1 \in Word
    <2>1. CASE s = 0
      BY <2>1, <1>3, <1>6
    <2> QED BY <2>1, <1>5
  <1>8. t + k + 1 \in Word
    <2>1. CASE t = 0
      BY <2>1, <1>3, <1>5
    <2> QED BY <2>1, <1>6
  <1> QED BY <1>3, <1>5, <1>6, <1>7, <1>8

(* The count of strncasecmp goes down with the bytes that were compared; a *)
(* negative one wraps around and reaches 0 later than any string ends.     *)
LEMMA CountFact ==
  ASSUME NEW m \in Word, NEW k \in Nat, k + 1 < LONG_MAX, NEW x \in Word, x # 0,
         \/ x = m - k /\ (m >= 0 => x >= 0)
         \/ m < 0 /\ x = m - k + 2 * LONG_MAX + 2
  PROVE  /\ Less(x) \in Word /\ (m >= 0 => k < m)
         /\ \/ Less(x) = m - (k + 1) /\ (m >= 0 => Less(x) >= 0)
            \/ m < 0 /\ Less(x) = m - (k + 1) + 2 * LONG_MAX + 2
  <1>1. LONG_MAX \in Nat /\ m \in -LONG_MAX - 1 .. LONG_MAX /\ x \in -LONG_MAX - 1 .. LONG_MAX
    BY NumberFact
  <1>2. PICK y : y = Less(x)
    OBVIOUS
  <1>3. y = IF x = -LONG_MAX - 1 THEN LONG_MAX ELSE x - 1
    BY <1>2 DEF Less
  <1>4. y \in -LONG_MAX - 1 .. LONG_MAX
    BY <1>1, <1>3
  <1>5. m >= 0 => k < m
    BY <1>1
  <1>6. \/ y = m - (k + 1) /\ (m >= 0 => y >= 0)
        \/ m < 0 /\ y = m - (k + 1) + 2 * LONG_MAX + 2
    BY <1>1, <1>3
  <1> QED BY <1>2, <1>4, <1>5, <1>6, NumberFact

LEMMA CaseGoesOn ==
  ASSUME IInv, UNCHANGED args, fn \in {"strcasecmp", "strncasecmp"},
         at = "loop", at' = "loop",
         NEW k \in Nat, r.rdi = s + k, r'.rdi = s + k + 1, r'.rsi = t + k + 1,
         s # 0 => s = S /\ k + 1 \in 0 .. Length(s),
         t # 0 => t = T /\ k + 1 \in 0 .. Length(t),
         s # 0 /\ t # 0 => Fold(old[s + k]) = Fold(old[t + k]),
         fn = "strncasecmp" =>
           \/ r'.rcx = n - (k + 1) /\ (n >= 0 => r'.rcx >= 0)
           \/ n < 0 /\ r'.rcx = n - (k + 1) + 2 * LONG_MAX + 2
  PROVE  FunctionInv'
  <1>1. TypeOK /\ CaseInv
    BY DEF IInv, ReadsInBounds, Running, FunctionInv
  <1>2. /\ UNCHANGED <<fn, s, t, n, old>> /\ Extent(s)' = Extent(s) /\ Extent(t)' = Extent(t)
    BY Same
  <1>3. s \in Nat /\ t \in Nat /\ old \in Memory
    BY <1>1, NumberFact DEF TypeOK
  <1>4. s # 0 => s + k + 1 \in Extent(s)
    BY <1>3, StringFact
  <1>5. t # 0 => t + k + 1 \in Extent(t)
    BY <1>3, StringFact
  <1>6. r'.rdi - s = k + 1 /\ r.rdi - s = k /\ r'.rsi - t = k + 1 /\ r'.rdi >= s
    BY <1>3
  <1>7. s # 0 /\ t # 0 => \A j \in 0 .. k : Fold(old[s + j]) = Fold(old[t + j])
    <2> SUFFICES ASSUME s # 0 /\ t # 0, NEW j \in 0 .. k
                 PROVE  Fold(old[s + j]) = Fold(old[t + j])
      OBVIOUS
    <2>1. CASE j = k
      BY <2>1
    <2>2. CASE j # k
      <3>1. j \in 0 .. r.rdi - s - 1
        BY <2>2, <1>6
      <3> QED BY <3>1, <1>1 DEF CaseInv
    <2> QED BY <2>1, <2>2
  <1>8. (r'.rsi - t = r'.rdi - s) /\ r'.rdi >= s
    BY <1>6
  <1>9. s # 0 /\ t # 0 => \A j \in 0 .. r'.rdi - s - 1 : Fold(old[s + j]) = Fold(old[t + j])
    BY <1>6, <1>7
  <1>10. fn = "strncasecmp" =>
           \/ r'.rcx = n - (r'.rdi - s) /\ (n >= 0 => r'.rcx >= 0)
           \/ n < 0 /\ r'.rcx = n - (r'.rdi - s) + 2 * LONG_MAX + 2
    BY <1>6
  <1>11. CaseInv'
    BY <1>2, <1>4, <1>5, <1>8, <1>9, <1>10 DEF CaseInv, Fold
  <1> QED BY <1>2, <1>11 DEF FunctionInv

LEMMA EndFact ==
  ASSUME old \in Memory, NEW a \in {S, T}, NEW k \in 0 .. Length(a)
  PROVE  /\ old[a + k] \in 0 .. 255 /\ a + k \in Extent(a)
         /\ old[a + k] = 0 => k = Length(a)
  <1>1. /\ a \in Nat \ {0} /\ Length(a) \in Nat
        /\ Extent(a) = a .. a + Length(a)
        /\ Extent(a) \subseteq DOMAIN old
        /\ \A j \in 0 .. Length(a) - 1 : old[a + j] # 0
    BY StringFact
  <1>2. a + k \in Extent(a)
    BY <1>1
  <1>3. old[a + k] \in 0 .. 255
    BY <1>1, <1>2, MemoryFact
  <1> QED BY <1>1, <1>2, <1>3

(* What they return where the strings differ or one of them ends.          *)
LEMMA CaseResult ==
  ASSUME old \in Memory, s = S, t = T, n \in Int,
         fn \in {"strcasecmp", "strncasecmp"},
         NEW k \in 0 .. Length(s), k <= Length(t), Counted => k < n,
         \A j \in 0 .. k - 1 : Fold(old[s + j]) = Fold(old[t + j]),
         NEW a, NEW b, a = old[s + k], b = old[t + k],
         a = 0 \/ b = 0 \/ Fold(a) # Fold(b),
         NEW v, \/ v = SubByte(Lower(a), Lower(b))
                \/ (a = 0 \/ b = 0) /\ v = SubByte(a, b)
  PROVE  v \in Word /\ (v = 0 <=> Order = 0) /\ (Ascii => Sign(v) = Order)
  <1>1. Length(s) \in Nat /\ Length(t) \in Nat /\ k \in 0 .. Length(t)
    BY StringFact
  <1>2. a \in 0 .. 255 /\ s + k \in Extent(s) /\ (a = 0 => k = Length(s))
    BY EndFact
  <1>3. b \in 0 .. 255 /\ t + k \in Extent(t) /\ (b = 0 => k = Length(t))
    BY <1>1, EndFact
  <1>4. \A x : Key(x) = Fold(x)
    BY DEF Key
  <1>5. Ascii => a < 128 /\ b < 128
    BY <1>2, <1>3 DEF Ascii
  <1> DEFINE x == Fold(a)  y == Fold(b)
  <1>6. /\ Lower(a) = x /\ x \in 0 .. 255 /\ (x = 0 <=> a = 0) /\ (a < 128 => x < 128)
        /\ Lower(b) = y /\ y \in 0 .. 255 /\ (y = 0 <=> b = 0) /\ (b < 128 => y < 128)
    BY <1>2, <1>3, FoldFact
  <1>7. CASE x = y
    <2>1. a = 0 /\ b = 0
      BY <1>6, <1>7
    <2>2. Order = 0
      BY <2>1, <1>1, <1>2, <1>3, <1>4, OrderEqual
    <2>3. v = 0
      <3>1. 0 \in 0 .. 255
        OBVIOUS
      <3>2. SubByte(0, 0) = 0
        BY <3>1, SubByteFact
      <3>3. Lower(a) = 0 /\ Lower(b) = 0
        BY <2>1, <1>6, <1>7
      <3> QED BY <2>1, <3>2, <3>3, Zenon
    <2>4. Sign(0) = 0 /\ 0 \in Word
      BY NumberFact DEF Sign
    <2> QED BY <2>2, <2>3, <2>4
  <1>8. CASE x # y
    <2>1. Order = IF x < y THEN -1 ELSE 1
      BY <1>1, <1>4, <1>8, OrderDiffers
    <2> HIDE DEF x, y
    <2>2. /\ v \in Word /\ v # 0
          /\ Ascii => Sign(v) = IF x < y THEN -1 ELSE 1
      <3>1. CASE v = SubByte(x, y)
        <4>1. v \in Word /\ v # 0
          BY <3>1, <1>6, <1>8, SubByteFact
        <4>2. Ascii => v = x - y
          BY <3>1, <1>5, <1>6, SubByteFact
        <4>3. Sign(x - y) = IF x < y THEN -1 ELSE 1
          BY <1>6, <1>8, SignFact
        <4> QED BY <4>1, <4>2, <4>3
      <3>2. CASE (a = 0 \/ b = 0) /\ v = SubByte(a, b)
        <4>1. a # b
          BY <3>2, <1>6, <1>8
        <4>2. v \in Word /\ v # 0
          BY <3>2, <4>1, <1>2, <1>3, SubByteFact
        <4>3. Ascii => v = a - b
          BY <3>2, <1>2, <1>3, <1>5, SubByteFact
        <4>4. Sign(a - b) = IF a < b THEN -1 ELSE 1
          BY <4>1, <1>2, <1>3, SignFact, ZenonT(60)
        <4>5. a < b <=> x < y
          BY <3>2, <4>1, <1>2, <1>3, <1>6
        <4> QED BY <4>2, <4>3, <4>4, <4>5
      <3> QED BY <3>1, <3>2, <1>6
    <2>3. Order # 0
      BY <2>1
    <2> QED BY <2>1, <2>2, <2>3
  <1> QED BY <1>7, <1>8

LEMMA StrcasecmpKeeps ==
  ASSUME IInv, Strcasecmp
  PROVE  IInv'
  <1>1. /\ fn = "strcasecmp" /\ at = "loop"
        /\ UNCHANGED <<args, mem, written>>
    BY DEF Strcasecmp, Reading
  <1>2. TypeOK
    BY DEF IInv, ReadsInBounds
  <1>3. UNCHANGED <<fn, s, t, old, Order, Ascii>>
    BY <1>1, Same
  <1>4. CASE s = 0 /\ t = 0
    <2>1. at' = "fault" /\ r' = r /\ reads' = {}
      BY <1>4 DEF Strcasecmp, Reading
    <2> QED BY <2>1, <1>1, <1>2, GoesOn DEF TypeOK
  <1>5. CASE s # 0 \/ t # 0
    <2>1. PICK k \in Nat :
           /\ r.rdi = s + k /\ r.rsi = t + k
           /\ s + k + 1 \in Word /\ t + k + 1 \in Word
           /\ s # 0 =>
                /\ s = S /\ Byte(s + k) = {old[s + k]}
                /\ s + k \in Extent(s) /\ s + k \in 1 .. LONG_MAX - 1
                /\ k \in 0 .. Length(s) /\ old[s + k] \in 0 .. 255
                /\ old[s + k] # 0 => k + 1 \in 0 .. Length(s)
                /\ old[s + k] = 0 => k = Length(s)
           /\ t # 0 =>
                /\ t = T /\ Byte(t + k) = {old[t + k]}
                /\ t + k \in Extent(t) /\ t + k \in 1 .. LONG_MAX - 1
                /\ k \in 0 .. Length(t) /\ old[t + k] \in 0 .. 255
                /\ old[t + k] # 0 => k + 1 \in 0 .. Length(t)
                /\ old[t + k] = 0 => k = Length(t)
      BY <1>1, <1>5, CaseFact
    <2> DEFINE p == IF s = 0 THEN t + k ELSE s + k
               q == IF t = 0 THEN s + k ELSE t + k
               a == old[p]
               b == old[q]
    <2>2. /\ Byte(p) = {a} /\ a \in 0 .. 255 /\ p \in Extent(s) \union Extent(t) /\ p \in Nat
      <3>1. CASE s = 0
        BY <3>1, <2>1, <1>5, NumberFact
      <3>2. CASE s # 0
        BY <3>2, <2>1, NumberFact
      <3> QED BY <3>1, <3>2
    <2>3. /\ Byte(q) = {b} /\ b \in 0 .. 255 /\ q \in Extent(s) \union Extent(t) /\ q \in Nat
      <3>1. CASE t = 0
        BY <3>1, <2>1, <1>5, NumberFact
      <3>2. CASE t # 0
        BY <3>2, <2>1, NumberFact
      <3> QED BY <3>1, <3>2
    <2>4. /\ s # 0 => p = s + k
          /\ t # 0 => q = t + k
          /\ s = 0 => p = q
          /\ t = 0 => p = q
      BY <1>5
    <2>5. reads' = {p, q}
      BY <1>5, <2>1 DEF Strcasecmp, Reading
    <2>6. \E al \in Byte(p), bl \in Byte(q) :
            IF al = 0 \/ bl = 0 \/ Lower(al) # Lower(bl)
            THEN Return(SubByte(Lower(al), Lower(bl)))
            ELSE Again(NextCasePair)
      BY <1>5, <2>1 DEF Strcasecmp
    <2> HIDE DEF p, q
    <2>7. IF a = 0 \/ b = 0 \/ Lower(a) # Lower(b)
          THEN Return(SubByte(Lower(a), Lower(b)))
          ELSE Again(NextCasePair)
      BY <2>2, <2>3, <2>6
    <2>8. reads' \subseteq Nat /\ \A x \in reads' : MayRead(x)
      BY <1>1, <2>2, <2>3, <2>5 DEF MayRead
    <2>9. Lower(a) = Fold(a) /\ Lower(b) = Fold(b)
          /\ Fold(a) \in 0 .. 255 /\ Fold(b) \in 0 .. 255
      BY <2>2, <2>3, FoldFact
    <2>10. CASE a = 0 \/ b = 0 \/ Fold(a) # Fold(b)
      <3> DEFINE v == SubByte(Lower(a), Lower(b))
      <3>1. at' = "ret" /\ r' = [r EXCEPT !.rax = v]
        BY <2>7, <2>9, <2>10 DEF Return
      <3>2. v \in Word
        BY <2>9, SubByteFact
      <3>3. r'.rax = v /\ r' \in Registers
        BY <3>1, <3>2, <1>2 DEF TypeOK, Registers
      <3>4. s # 0 /\ t # 0 => (v = 0 <=> Order = 0) /\ (Ascii => Sign(v) = Order)
        <4> SUFFICES ASSUME s # 0 /\ t # 0
                     PROVE  (v = 0 <=> Order = 0) /\ (Ascii => Sign(v) = Order)
          OBVIOUS
        <4>1. CaseInv /\ n \in Int /\ old \in Memory
          BY <1>1, <1>2, LibasmAssumption
             DEF TypeOK, IInv, Running, FunctionInv
        <4>2. r.rdi - s = k /\ k <= Length(t)
          BY <2>1, <1>2, NumberFact DEF TypeOK
        <4>3. \A j \in 0 .. k - 1 : Fold(old[s + j]) = Fold(old[t + j])
          BY <4>1, <4>2 DEF CaseInv
        <4>4. a = old[s + k] /\ b = old[t + k] /\ ~ Counted
          BY <2>4, <1>1 DEF Counted
        <4> HIDE DEF a, b, v
        <4> QED BY <2>1, <2>10, <4>1, <4>2, <4>3, <4>4, <1>1, CaseResult DEF v
      <3> HIDE DEF v
      <3>5. AgreesWithC'
        BY <3>1, <3>3, <3>4, <1>1, <1>3 DEF AgreesWithC, Sign
      <3> QED BY <3>1, <3>3, <3>5, <2>8, <1>1, GoesOn
    <2>11. CASE a # 0 /\ b # 0 /\ Fold(a) = Fold(b)
      <3>1. at' = "loop" /\ r' = [r EXCEPT !.rdi = @ + 1, !.rsi = @ + 1]
        BY <2>7, <2>9, <2>11 DEF Again, NextCasePair
      <3>2. r'.rdi = s + k + 1 /\ r'.rsi = t + k + 1 /\ r' \in Registers
        BY <3>1, <2>1, <1>2 DEF TypeOK, Registers
      <3>3. FunctionInv'
        BY <3>1, <3>2, <2>1, <2>4, <2>11, <1>1, CaseGoesOn
      <3> QED BY <3>1, <3>2, <3>3, <2>8, <1>1, GoesOn
    <2> QED BY <2>10, <2>11
  <1> QED BY <1>4, <1>5

LEMMA StrncasecmpKeeps ==
  ASSUME IInv, Strncasecmp
  PROVE  IInv'
  <1>1. /\ fn = "strncasecmp" /\ at = "loop"
        /\ UNCHANGED <<args, mem, written>>
    BY DEF Strncasecmp, Reading
  <1>2. /\ TypeOK /\ s = S /\ t = T /\ s # 0 /\ t # 0 /\ CaseInv
        /\ old \in Memory /\ n \in Word /\ n \in Int /\ r.rcx \in Word
    <2>1. /\ TypeOK /\ s = S /\ t = T /\ s # 0 /\ t # 0 /\ CaseInv /\ old \in Memory
      BY <1>1, NumberFact
         DEF IInv, ReadsInBounds, Arguments, Running, FunctionInv, TypeOK
    <2>2. n \in Word /\ n \in Int
      BY <2>1, LibasmAssumption DEF TypeOK, Word
    <2>3. r.rcx \in Word
      BY <2>1 DEF TypeOK, Registers
    <2> QED BY <2>1, <2>2, <2>3
  <1>3. UNCHANGED <<fn, s, t, old, Order, Ascii>>
    BY <1>1, Same
  <1>4. PICK k \in Nat :
         /\ r.rdi = s + k /\ r.rsi = t + k
         /\ s + k + 1 \in Word /\ t + k + 1 \in Word
         /\ s # 0 =>
              /\ s = S /\ Byte(s + k) = {old[s + k]}
              /\ s + k \in Extent(s) /\ s + k \in 1 .. LONG_MAX - 1
              /\ k \in 0 .. Length(s) /\ old[s + k] \in 0 .. 255
              /\ old[s + k] # 0 => k + 1 \in 0 .. Length(s)
              /\ old[s + k] = 0 => k = Length(s)
         /\ t # 0 =>
              /\ t = T /\ Byte(t + k) = {old[t + k]}
              /\ t + k \in Extent(t) /\ t + k \in 1 .. LONG_MAX - 1
              /\ k \in 0 .. Length(t) /\ old[t + k] \in 0 .. 255
              /\ old[t + k] # 0 => k + 1 \in 0 .. Length(t)
              /\ old[t + k] = 0 => k = Length(t)
    BY <1>1, <1>2, CaseFact
  <1> DEFINE a == old[s + k]
             b == old[t + k]
             x == r.rcx
  <1>5. /\ \/ x = n - k /\ (n >= 0 => x >= 0)
           \/ n < 0 /\ x = n - k + 2 * LONG_MAX + 2
        /\ \A j \in 0 .. k - 1 : Fold(old[s + j]) = Fold(old[t + j])
    <2>1. r.rdi - s = k
      BY <1>2, <1>4, NumberFact
    <2> QED BY <2>1, <1>1, <1>2 DEF CaseInv
  <1>6. k + 1 < LONG_MAX /\ LONG_MAX \in Nat
    BY <1>2, <1>4, NumberFact
  <1> HIDE DEF x
  <1>7. CASE x = 0
    <2>1. reads' = {} /\ at' = "ret" /\ r' = [r EXCEPT !.rax = 0]
      BY <1>7 DEF Strncasecmp, Reading, Return, x
    <2>2. r'.rax = 0 /\ r' \in Registers
      BY <2>1, <1>2, NumberFact DEF TypeOK, Registers
    <2>3. n >= 0 /\ k = n
      BY <1>2, <1>5, <1>6, <1>7, NumberFact
    <2>4. Counted /\ \A y : Key(y) = Fold(y)
      BY <2>3, <1>1 DEF Counted, Key
    <2>5. k \in 0 .. Length(s) /\ k <= Length(t)
      BY <1>2, <1>4, StringFact
    <2>6. \A j \in 0 .. k - 1 : Key(old[s + j]) = Key(old[t + j])
      BY <2>4, <1>5
    <2>7. Order = 0
      BY <2>3, <2>4, <2>5, <2>6, <1>2, OrderEqual
    <2>8. AgreesWithC'
      BY <2>1, <2>2, <2>7, <1>1, <1>3 DEF AgreesWithC, Sign
    <2> QED BY <2>1, <2>2, <2>8, <1>1, GoesOn
  <1>8. CASE x # 0
    <2>1. /\ Less(x) \in Word /\ (n >= 0 => k < n)
          /\ \/ Less(x) = n - (k + 1) /\ (n >= 0 => Less(x) >= 0)
             \/ n < 0 /\ Less(x) = n - (k + 1) + 2 * LONG_MAX + 2
      BY <1>2, <1>5, <1>6, <1>8, CountFact DEF x
    <2>2. /\ reads' = {s + k, t + k}
          /\ IF a = 0 \/ b = 0 THEN Return(SubByte(a, b))
             ELSE IF Lower(a) # Lower(b) THEN Return(SubByte(Lower(a), Lower(b)))
             ELSE Again([NextCasePair EXCEPT !.rcx = Less(@)])
      BY <1>2, <1>4, <1>8 DEF Strncasecmp, Reading, x
    <2>3. reads' \subseteq Nat /\ \A y \in reads' : MayRead(y)
      <3>1. s \in Nat /\ t \in Nat /\ s + k \in Nat /\ t + k \in Nat
        BY <1>2, NumberFact
      <3>2. n >= 0 => s + k < s + n /\ t + k \in t .. t + n - 1
        BY <3>1, <2>1, <1>2
      <3>3. s + k \in Extent(s) /\ t + k \in Extent(t)
        BY <1>2, <1>4
      <3>4. MayRead(s + k)
        BY <3>2, <3>3, <1>1 DEF MayRead
      <3>5. MayRead(t + k)
        BY <3>2, <3>3, <1>1 DEF MayRead
      <3> QED BY <3>1, <3>4, <3>5, <2>2
    <2>4. Lower(a) = Fold(a) /\ Lower(b) = Fold(b)
      BY <1>2, <1>4, FoldFact
    <2>5. CASE a = 0 \/ b = 0 \/ Fold(a) # Fold(b)
      <3>1. PICK v : /\ at' = "ret" /\ r' = [r EXCEPT !.rax = v]
                     /\ \/ v = SubByte(Lower(a), Lower(b))
                        \/ (a = 0 \/ b = 0) /\ v = SubByte(a, b)
        BY <2>2, <2>4, <2>5 DEF Return
      <3>2. Counted => k < n
        BY <2>1 DEF Counted
      <3>3. k \in 0 .. Length(s) /\ k <= Length(t)
        BY <1>2, <1>4, StringFact
      <3>4. v \in Word /\ (v = 0 <=> Order = 0) /\ (Ascii => Sign(v) = Order)
        <4> HIDE DEF a, b
        <4>1. a = old[s + k] /\ b = old[t + k]
          BY DEF a, b
        <4> QED BY <4>1, <3>1, <3>2, <3>3, <2>5, <1>1, <1>2, <1>5, CaseResult
      <3>5. r'.rax = v /\ r' \in Registers
        BY <3>1, <3>4, <1>2 DEF TypeOK, Registers
      <3>6. AgreesWithC'
        BY <3>1, <3>4, <3>5, <1>1, <1>3 DEF AgreesWithC, Sign
      <3> QED BY <3>1, <3>5, <3>6, <2>3, <1>1, GoesOn
    <2>6. CASE a # 0 /\ b # 0 /\ Fold(a) = Fold(b)
      <3>1. /\ at' = "loop"
            /\ r' = [r EXCEPT !.rdi = @ + 1, !.rsi = @ + 1, !.rcx = Less(x)]
        BY <2>2, <2>4, <2>6, <1>2 DEF Again, NextCasePair, TypeOK, Registers, x
      <3>2. /\ r'.rdi = s + k + 1 /\ r'.rsi = t + k + 1 /\ r'.rcx = Less(x)
            /\ r' \in Registers
        BY <3>1, <2>1, <1>2, <1>4 DEF TypeOK, Registers
      <3>3. \/ r'.rcx = n - (k + 1) /\ (n >= 0 => r'.rcx >= 0)
            \/ n < 0 /\ r'.rcx = n - (k + 1) + 2 * LONG_MAX + 2
        BY <3>2, <2>1
      <3>4. FunctionInv'
        BY <3>1, <3>2, <3>3, <2>6, <1>1, <1>2, <1>4, CaseGoesOn
      <3> QED BY <3>1, <3>2, <3>4, <2>3, <1>1, GoesOn
    <2> QED BY <2>5, <2>6
  <1> QED BY <1>7, <1>8
-----------------------------------------------------------------------------
LEMMA FoundFirst ==
  ASSUME old \in Memory, s = S, t = T, NEW p \in Extent(s), FoundAt(p),
         \A a \in s .. p - 1 : ~ FoundAt(a)
  PROVE  FirstFound = p
  <1> DEFINE A == {a \in Extent(s) : FoundAt(a)}
  <1>1. s \in Nat /\ Length(s) \in Nat /\ Extent(s) = s .. s + Length(s)
    BY StringFact
  <1>2. A \subseteq Nat /\ p \in A
    BY <1>1
  <1>3. \A a \in A : p <= a
    <2> TAKE a \in A
    <2>1. a \notin s .. p - 1 /\ a \in s .. s + Length(s) /\ p \in s .. s + Length(s)
      BY <1>1
    <2> QED BY <2>1, <1>1
  <1>4. First(A) = p
    <2> HIDE DEF A
    <2> QED BY <1>2, <1>3, FirstIs
  <1> QED BY <1>4 DEF FirstFound

LEMMA FoundNowhere ==
  ASSUME \A a \in Extent(s) : ~ FoundAt(a)
  PROVE  FirstFound = 0
  <1>1. {a \in Extent(s) : FoundAt(a)} = {}
    OBVIOUS
  <1> QED BY <1>1 DEF FirstFound, First

LEMMA StrstrKeeps ==
  ASSUME IInv, Strstr
  PROVE  IInv'
  <1>1. /\ fn = "strstr" /\ at = "loop" /\ reads' = {r.rdi, r.rsi}
        /\ UNCHANGED <<args, mem, written>>
    BY DEF Strstr, Reading
  <1>2. /\ TypeOK /\ mem = old /\ StrstrInv /\ s = S /\ t = T /\ s # 0
        /\ old \in Memory
    BY <1>1, NumberFact
       DEF IInv, ReadsInBounds, Arguments, Running, FunctionInv, TypeOK
  <1>3. /\ UNCHANGED <<fn, s, t, old, FirstFound>>
        /\ Extent(s)' = Extent(s) /\ Extent(t)' = Extent(t)
        /\ \A a : FoundAt(a)' <=> FoundAt(a)
    BY <1>1, Same
  <1>4. /\ s \in Nat \ {0} /\ Length(s) \in Nat /\ Extent(s) = s .. s + Length(s)
        /\ t \in Nat \ {0} /\ Length(t) \in Nat /\ Extent(t) = t .. t + Length(t)
    BY <1>2, StringFact
  <1> DEFINE p == r.rdi
             i == p - s
             al == old[s + i]
             bl == old[t + 0]
  <1>5. /\ r.rsi = t /\ p \in s .. s + Length(s)
        /\ \A a \in s .. p - 1 : ~ FoundAt(a)
    BY <1>2, <1>4 DEF StrstrInv
  <1> HIDE DEF p
  <1>6. i \in 0 .. Length(s) /\ p = s + i /\ t = t + 0 /\ p \in Int
    BY <1>4, <1>5
  <1> HIDE DEF i
  <1>7. /\ Byte(p) = {al} /\ p \in Extent(s) /\ p \in Nat /\ p \in Word /\ p + 1 \in Word
        /\ al # 0 => i + 1 \in 0 .. Length(s)
        /\ al = 0 => i = Length(s)
    <2>1. /\ Byte(s + i) = {al} /\ s + i \in Extent(s)
          /\ s + i \in Word /\ s + i + 1 \in Word
          /\ al # 0 => i + 1 \in 0 .. Length(s)
          /\ al = 0 => i = Length(s)
      BY <1>2, <1>6, ByteFact
    <2>2. p \in Nat
      BY <1>4, <1>6
    <2> QED BY <1>6, <2>1, <2>2
  <1>8. /\ Byte(t) = {bl} /\ t \in Extent(t) /\ t \in Nat /\ t \in Word
        /\ bl # 0 => 1 \in 0 .. Length(t)
        /\ bl = 0 => 0 = Length(t)
    <2>1. /\ Byte(t + 0) = {bl} /\ t + 0 \in Extent(t) /\ t + 0 \in Word
          /\ bl # 0 => 0 + 1 \in 0 .. Length(t)
          /\ bl = 0 => 0 = Length(t)
      BY <1>2, <1>4, ByteFact
    <2> QED BY <1>4, <1>6, <2>1
  <1>9. IF bl = 0 THEN Return(p)
        ELSE IF al = bl THEN Inner([r EXCEPT !.rbx = p, !.rcx = t])
        ELSE IF al = 0 THEN Return(0) ELSE Again(NextHaystack)
    BY <1>5, <1>7, <1>8 DEF Strstr, p
  <1>10. reads' \subseteq Nat /\ \A a \in reads' : MayRead(a)
    BY <1>1, <1>5, <1>7, <1>8 DEF MayRead, p
  <1>11. al = old[p] /\ bl = old[t]
    BY <1>6
  <1>12. al # bl /\ bl # 0 => ~ FoundAt(p)
    <2> SUFFICES ASSUME al # bl, bl # 0, FoundAt(p) PROVE FALSE
      OBVIOUS
    <2>1. 0 \in 0 .. Length(t) - 1
      BY <1>4, <1>8
    <2>2. old[p + 0] = old[t + 0]
      BY <2>1 DEF FoundAt
    <2> QED BY <2>2, <1>6, <1>11
  <1> HIDE DEF al, bl
  <1>13. CASE bl = 0
    <2>1. at' = "ret" /\ r' = [r EXCEPT !.rax = p]
      BY <1>9, <1>13 DEF Return
    <2>2. r'.rax = p /\ r' \in Registers
      BY <2>1, <1>2, <1>7 DEF TypeOK, Registers
    <2>3. FoundAt(p)
      BY <1>4, <1>8, <1>13 DEF FoundAt
    <2>4. FirstFound = p
      BY <2>3, <1>2, <1>5, <1>7, FoundFirst
    <2>5. AgreesWithC'
      BY <2>1, <2>2, <2>4, <1>1, <1>3 DEF AgreesWithC
    <2> QED BY <2>1, <2>2, <2>5, <1>1, <1>10, GoesOn
  <1>14. CASE bl # 0 /\ al = bl
    <2>1. at' = "inner" /\ r' = [r EXCEPT !.rbx = p, !.rcx = t]
      BY <1>9, <1>14 DEF Inner
    <2>2. /\ r'.rdi = p /\ r'.rsi = t /\ r'.rbx = p /\ r'.rcx = t
          /\ r' \in Registers
      BY <2>1, <1>2, <1>5, <1>7, <1>8 DEF TypeOK, Registers, p
    <2>3. \A k \in 0 .. t - t : old[p + k] = old[t + k] /\ old[t + k] # 0
      <3> SUFFICES ASSUME NEW k \in 0 .. t - t
                   PROVE  old[p + k] = old[t + k] /\ old[t + k] # 0
        OBVIOUS
      <3>1. p + k = p /\ t + k = t
        BY <1>4, <1>6
      <3> QED BY <3>1, <1>11, <1>14
    <2>4. p - p = t - t
      BY <1>4, <1>6
    <2>5. StrstrInv'
      BY <2>1, <2>2, <2>3, <2>4, <1>3, <1>5, <1>7, <1>8 DEF StrstrInv
    <2>6. FunctionInv'
      BY <2>5, <1>1, <1>3 DEF FunctionInv
    <2> QED BY <2>1, <2>2, <2>6, <1>1, <1>10, GoesOn
  <1>15. CASE bl # 0 /\ al # bl /\ al = 0
    <2>1. at' = "ret" /\ r' = [r EXCEPT !.rax = 0]
      BY <1>9, <1>15 DEF Return
    <2>2. r'.rax = 0 /\ r' \in Registers
      BY <2>1, <1>2, NumberFact DEF TypeOK, Registers
    <2>3. \A a \in Extent(s) : ~ FoundAt(a)
      <3> TAKE a \in Extent(s)
      <3>1. a \in s .. p - 1 \/ a = p
        BY <1>4, <1>6, <1>7, <1>15
      <3> QED BY <3>1, <1>5, <1>12, <1>15
    <2>4. AgreesWithC'
      BY <2>1, <2>2, <2>3, <1>1, <1>3, FoundNowhere DEF AgreesWithC
    <2> QED BY <2>1, <2>2, <2>4, <1>1, <1>10, GoesOn
  <1>16. CASE bl # 0 /\ al # bl /\ al # 0
    <2>1. at' = "loop" /\ r' = [r EXCEPT !.rdi = @ + 1]
      BY <1>9, <1>16 DEF Again, NextHaystack
    <2>2. r'.rdi = p + 1 /\ r'.rsi = t /\ r' \in Registers
      BY <2>1, <1>2, <1>5, <1>7 DEF TypeOK, Registers, p
    <2>3. p + 1 \in Extent(s)
      BY <1>4, <1>6, <1>7, <1>16
    <2>4. \A a \in s .. r'.rdi - 1 : ~ FoundAt(a)
      <3> TAKE a \in s .. r'.rdi - 1
      <3>1. a \in s .. p - 1 \/ a = p
        BY <2>2, <1>4, <1>6
      <3> QED BY <3>1, <1>5, <1>12, <1>16
    <2>5. StrstrInv'
      BY <2>1, <2>2, <2>3, <2>4, <1>3 DEF StrstrInv
    <2>6. FunctionInv'
      BY <2>5, <1>1, <1>3 DEF FunctionInv
    <2> QED BY <2>1, <2>2, <2>6, <1>1, <1>10, GoesOn
  <1> QED BY <1>13, <1>14, <1>15, <1>16

LEMMA StrstrInnerKeeps ==
  ASSUME IInv, StrstrInner
  PROVE  IInv'
  <1>1. /\ fn = "strstr" /\ at = "inner" /\ reads' = {r.rbx + 1, r.rcx + 1}
        /\ UNCHANGED <<args, mem, written>>
    BY DEF StrstrInner, Reading
  <1>2. /\ TypeOK /\ mem = old /\ StrstrInv /\ s = S /\ t = T /\ s # 0
        /\ old \in Memory
    BY <1>1, NumberFact
       DEF IInv, ReadsInBounds, Arguments, Running, FunctionInv, TypeOK
  <1>3. /\ UNCHANGED <<fn, s, t, old, FirstFound>>
        /\ Extent(s)' = Extent(s) /\ Extent(t)' = Extent(t)
        /\ \A a : FoundAt(a)' <=> FoundAt(a)
    BY <1>1, Same
  <1>4. /\ s \in Nat \ {0} /\ Length(s) \in Nat /\ Extent(s) = s .. s + Length(s)
        /\ t \in Nat \ {0} /\ Length(t) \in Nat /\ Extent(t) = t .. t + Length(t)
        /\ \A k \in 0 .. Length(s) - 1 : old[s + k] # 0
        /\ \A k \in 0 .. Length(t) - 1 : old[t + k] # 0
    BY <1>2, StringFact
  <1> DEFINE p == r.rdi
             j == r.rcx - t
  <1>5. /\ r.rsi = t /\ p \in s .. s + Length(s)
        /\ \A a \in s .. p - 1 : ~ FoundAt(a)
        /\ \A k \in 0 .. j : old[p + k] = old[t + k] /\ old[t + k] # 0
    BY <1>1, <1>2, <1>4 DEF StrstrInv
  <1> DEFINE q == r.rbx  u == r.rcx
  <1>6. /\ p \in Int /\ q \in Int /\ u \in Int /\ j \in Nat
        /\ q = p + j /\ u = t + j /\ j <= Length(t) /\ p + j <= s + Length(s)
    <2>1. q - p = u - t /\ q \in s .. s + Length(s) /\ u \in t .. t + Length(t)
      BY <1>1, <1>2, <1>4 DEF StrstrInv
    <2>2. p \in s .. s + Length(s)
      BY <1>5
    <2> HIDE DEF p, q, u
    <2> QED BY <2>1, <2>2, <1>4 DEF u
  <1> HIDE DEF p, q, u
  <1> HIDE DEF j
  <1>7. old[p + j] = old[t + j] /\ old[t + j] # 0
    BY <1>5, <1>6
  <1> DEFINE i == p + j - s
  <1>8. /\ i \in 0 .. Length(s) /\ j \in 0 .. Length(t)
        /\ q = s + i /\ old[s + i] # 0 /\ old[t + j] # 0
    <2>1. i \in 0 .. Length(s) /\ q = s + i /\ s + i = p + j
      BY <1>4, <1>5, <1>6
    <2> QED BY <2>1, <1>6, <1>7
  <1>9. i + 1 \in 0 .. Length(s) /\ j + 1 \in 0 .. Length(t)
    BY <1>2, <1>8, ByteFact
  <1> DEFINE al == old[p + (j + 1)]
             dl == old[t + (j + 1)]
  <1>10. /\ Byte(q + 1) = {al} /\ q + 1 \in Extent(s) /\ q + 1 \in Nat /\ q + 1 \in Word
         /\ al = 0 => i + 1 = Length(s)
    <2>1. s + (i + 1) = q + 1 /\ p + (j + 1) = q + 1 /\ s + (i + 1) \in Nat
      BY <1>4, <1>6, <1>8, <1>9
    <2>2. /\ Byte(s + (i + 1)) = {old[s + (i + 1)]} /\ s + (i + 1) \in Extent(s)
          /\ s + (i + 1) \in Word
          /\ old[s + (i + 1)] = 0 => i + 1 = Length(s)
      BY <1>2, <1>9, ByteFact
    <2> QED BY <2>1, <2>2
  <1>11. /\ Byte(u + 1) = {dl} /\ u + 1 \in Extent(t) /\ u + 1 \in Nat /\ u + 1 \in Word
         /\ dl = 0 => j + 1 = Length(t)
         /\ dl # 0 => j + 2 <= Length(t)
    <2>1. t + (j + 1) = u + 1 /\ t + (j + 1) \in Nat
      BY <1>4, <1>6, <1>9
    <2>2. /\ Byte(t + (j + 1)) = {dl} /\ t + (j + 1) \in Extent(t)
          /\ t + (j + 1) \in Word
          /\ dl # 0 => j + 1 + 1 \in 0 .. Length(t)
          /\ dl = 0 => j + 1 = Length(t)
      BY <1>2, <1>9, ByteFact
    <2>3. dl # 0 => j + 2 <= Length(t)
      BY <2>2, <1>4, <1>6
    <2> QED BY <2>1, <2>2, <2>3
  <1>12. IF dl = 0 THEN Return(p)
         ELSE IF al = 0 THEN Return(0)
         ELSE IF al = dl THEN Inner([r EXCEPT !.rbx = @ + 1, !.rcx = @ + 1])
         ELSE Again(NextHaystack)
    BY <1>10, <1>11 DEF StrstrInner, p, q, u
  <1>13. reads' \subseteq Nat /\ \A a \in reads' : MayRead(a)
    BY <1>1, <1>10, <1>11 DEF MayRead, q, u
  <1>14. al # dl /\ dl # 0 => ~ FoundAt(p)
    <2> SUFFICES ASSUME al # dl, dl # 0, FoundAt(p) PROVE FALSE
      OBVIOUS
    <2>1. j + 1 \in 0 .. Length(t) - 1
      BY <1>4, <1>6, <1>11
    <2> QED BY <2>1 DEF FoundAt
  <1> HIDE DEF al, dl
  <1>15. CASE dl = 0
    <2>1. at' = "ret" /\ r' = [r EXCEPT !.rax = p]
      BY <1>12, <1>15 DEF Return
    <2>2. p \in Word /\ p \in Extent(s)
      BY <1>2, <1>4, <1>5 DEF TypeOK, Registers, p
    <2>3. r'.rax = p /\ r' \in Registers
      BY <2>1, <2>2, <1>2 DEF TypeOK, Registers
    <2>4. FoundAt(p)
      <3> SUFFICES ASSUME NEW k \in 0 .. Length(t) - 1
                   PROVE  p + k \in Extent(s) /\ old[p + k] = old[t + k]
        BY DEF FoundAt
      <3>1. k \in 0 .. j
        BY <1>4, <1>6, <1>11, <1>15
      <3>2. p + k \in Extent(s)
        BY <3>1, <1>4, <1>5, <1>6
      <3> QED BY <3>1, <3>2, <1>5
    <2>5. FirstFound = p
      BY <2>2, <2>4, <1>2, <1>5, FoundFirst
    <2>6. AgreesWithC'
      BY <2>1, <2>3, <2>5, <1>1, <1>3 DEF AgreesWithC
    <2> QED BY <2>1, <2>3, <2>6, <1>1, <1>13, GoesOn
  <1>16. CASE dl # 0 /\ al = 0
    <2>1. at' = "ret" /\ r' = [r EXCEPT !.rax = 0]
      BY <1>12, <1>16 DEF Return
    <2>2. r'.rax = 0 /\ r' \in Registers
      BY <2>1, <1>2, NumberFact DEF TypeOK, Registers
    <2>3. \A a \in Extent(s) : ~ FoundAt(a)
      <3> SUFFICES ASSUME NEW a \in Extent(s), FoundAt(a) PROVE FALSE
        OBVIOUS
      <3>1. a \in Int /\ a >= s
        BY <1>4
      <3>2. a > p
        <4>1. a # p
          BY <1>14, <1>16
        <4>2. a \notin s .. p - 1
          BY <1>5
        <4> QED BY <4>1, <4>2, <3>1, <1>6
      <3>3. j + 1 \in 0 .. Length(t) - 1 /\ j + 1 \in Nat
        BY <1>4, <1>6, <1>11, <1>16
      <3>4. a + (j + 1) \in Extent(s)
        BY <3>3 DEF FoundAt
      <3>5. p + (j + 1) = s + Length(s)
        BY <1>4, <1>6, <1>8, <1>10, <1>16
      <3> QED BY <3>1, <3>2, <3>3, <3>4, <3>5, <1>4, <1>6
    <2>4. AgreesWithC'
      BY <2>1, <2>2, <2>3, <1>1, <1>3, FoundNowhere DEF AgreesWithC
    <2> QED BY <2>1, <2>2, <2>4, <1>1, <1>13, GoesOn
  <1>17. CASE dl # 0 /\ al # 0 /\ al = dl
    <2>1. at' = "inner" /\ r' = [r EXCEPT !.rbx = @ + 1, !.rcx = @ + 1]
      BY <1>12, <1>17 DEF Inner
    <2>2. /\ r'.rdi = p /\ r'.rsi = t /\ r'.rbx = q + 1 /\ r'.rcx = u + 1
          /\ r' \in Registers
      BY <2>1, <1>2, <1>5, <1>10, <1>11 DEF TypeOK, Registers, p, q, u
    <2>3. \A k \in 0 .. r'.rcx - t : old[p + k] = old[t + k] /\ old[t + k] # 0
      <3> SUFFICES ASSUME NEW k \in 0 .. r'.rcx - t
                   PROVE  old[p + k] = old[t + k] /\ old[t + k] # 0
        OBVIOUS
      <3>1. k \in 0 .. j \/ k = j + 1
        BY <2>2, <1>4, <1>6
      <3>2. old[p + (j + 1)] = old[t + (j + 1)] /\ old[t + (j + 1)] # 0
        BY <1>17 DEF al, dl
      <3> QED BY <3>1, <3>2, <1>5
    <2>4. r'.rbx - r'.rdi = r'.rcx - t
      BY <2>2, <1>4, <1>6
    <2>5. r'.rdi \in Extent(s) /\ \A a \in s .. r'.rdi - 1 : ~ FoundAt(a)
      BY <2>2, <1>4, <1>5
    <2>6. StrstrInv'
      BY <2>1, <2>2, <2>3, <2>4, <2>5, <1>3, <1>10, <1>11 DEF StrstrInv
    <2>7. FunctionInv'
      BY <2>6, <1>1, <1>3 DEF FunctionInv
    <2> QED BY <2>1, <2>2, <2>7, <1>1, <1>13, GoesOn
  <1>18. CASE dl # 0 /\ al # 0 /\ al # dl
    <2>1. at' = "loop" /\ r' = [r EXCEPT !.rdi = @ + 1]
      BY <1>12, <1>18 DEF Again, NextHaystack
    <2>2. p + 1 \in Extent(s) /\ p + 1 \in Word
      <3>1. p + 1 \in s .. s + Length(s)
        BY <1>4, <1>5, <1>6, <1>8, <1>9
      <3>2. p + 1 - s \in 0 .. Length(s) /\ s + (p + 1 - s) = p + 1
        BY <3>1, <1>4, <1>6
      <3>3. s + (p + 1 - s) \in Word
        BY <3>2, <1>2, ByteFact
      <3> QED BY <3>1, <3>2, <3>3, <1>4
    <2>3. r'.rdi = p + 1 /\ r'.rsi = t /\ r' \in Registers
      BY <2>1, <2>2, <1>2, <1>5 DEF TypeOK, Registers, p
    <2>4. \A a \in s .. r'.rdi - 1 : ~ FoundAt(a)
      <3> TAKE a \in s .. r'.rdi - 1
      <3>1. a \in s .. p - 1 \/ a = p
        BY <2>3, <1>4, <1>6
      <3> QED BY <3>1, <1>5, <1>14, <1>18
    <2>5. StrstrInv'
      BY <2>1, <2>2, <2>3, <2>4, <1>3 DEF StrstrInv
    <2>6. FunctionInv'
      BY <2>5, <1>1, <1>3 DEF FunctionInv
    <2> QED BY <2>1, <2>3, <2>6, <1>1, <1>13, GoesOn
  <1> QED BY <1>15, <1>16, <1>17, <1>18
-----------------------------------------------------------------------------
(* The addresses of the copy do not overlap: a byte is read as it was.     *)
LEMMA MemcpyKeeps ==
  ASSUME IInv, Memcpy
  PROVE  IInv'
  <1>1. fn = "memcpy" /\ at = "loop" /\ UNCHANGED args /\ written' = written
    BY DEF Memcpy
  <1>2. /\ TypeOK /\ MemcpyInv /\ s = S /\ t = T /\ s # 0 /\ old \in Memory
        /\ n \in 0 .. T - S /\ t .. t + n - 1 \subseteq DOMAIN old
    BY <1>1, NumberFact
       DEF IInv, ReadsInBounds, Arguments, Running, FunctionInv, TypeOK
  <1>3. UNCHANGED <<fn, s, t, n, old, Copied>>
    BY <1>1, Same
  <1>4. /\ s \in Nat \ {0} /\ t \in Nat \ {0} /\ n \in Nat /\ s + n <= t
        /\ t + n < LONG_MAX /\ LONG_MAX \in Nat
    BY <1>2, NumberFact
  <1> DEFINE x == r.rcx
             k == n - x
  <1>5. x \in 0 .. n /\ r.rdi = s + k /\ r.rsi = t + k
        /\ \A a \in DOMAIN old :
             mem[a] = IF a \in s .. s + k - 1 THEN old[t + a - s] ELSE old[a]
    BY <1>2 DEF MemcpyInv
  <1> HIDE DEF x
  <1>6. k \in Nat /\ k <= n
    BY <1>4, <1>5
  <1>7. written' \in Seq(Bytes)
    BY <1>1, <1>2 DEF TypeOK
  <1>8. CASE x = 0
    <2>1. reads' = {} /\ mem' = mem /\ at' = "ret" /\ r' = [r EXCEPT !.rax = s]
      BY <1>8 DEF Memcpy, Return, x
    <2>2. s \in Word
      BY <1>4, NumberFact
    <2>3. r'.rax = s /\ r' \in Registers
      BY <2>1, <2>2, <1>2 DEF TypeOK, Registers
    <2>4. mem = Copied
      <3>1. k = n
        BY <1>4, <1>8
      <3>2. mem = [a \in DOMAIN old |-> mem[a]]
        BY <1>2 DEF TypeOK
      <3> QED BY <3>1, <3>2, <1>5 DEF Copied
    <2>5. AgreesWithC'
      BY <2>1, <2>3, <2>4, <1>1, <1>3 DEF AgreesWithC
    <2>6. mem' \in [DOMAIN old -> Bytes]
      BY <2>1, <1>2 DEF TypeOK
    <2> QED BY <2>1, <2>3, <2>5, <2>6, <1>1, <1>7, Steps
  <1>9. CASE x # 0
    <2>1. /\ reads' = {t + k} /\ at' = "loop"
          /\ \E bl \in Byte(t + k) : mem' = [mem EXCEPT ![s + k] = bl]
          /\ r' = [NextCasePair EXCEPT !.rcx = Less(@)]
      BY <1>5, <1>9 DEF Memcpy, Again, x
    <2>2. k < n /\ t + k \in t .. t + n - 1 /\ t + k \in DOMAIN old /\ t + k \in Nat
      BY <1>2, <1>4, <1>5, <1>6, <1>9
    <2>3. mem[t + k] = old[t + k]
      BY <2>2, <1>4, <1>5, <1>6
    <2>4. DOMAIN mem = DOMAIN old /\ old[t + k] \in Bytes
      BY <2>2, <1>2, MemoryFact DEF TypeOK
    <2>5. mem' = [mem EXCEPT ![s + k] = old[t + k]]
      BY <2>1, <2>2, <2>3, <2>4 DEF Byte
    <2>6. ASSUME NEW a \in DOMAIN old
          PROVE  mem'[a] = IF a \in s .. s + (k + 1) - 1 THEN old[t + a - s] ELSE old[a]
      <3>1. a \in Nat
        BY <1>2, MemoryFact
      <3>2. CASE a = s + k
        BY <3>1, <3>2, <2>4, <2>5, <1>4, <1>6
      <3>3. CASE a # s + k
        <4>1. mem'[a] = mem[a]
          BY <3>3, <2>4, <2>5
        <4>2. a \in s .. s + k - 1 <=> a \in s .. s + (k + 1) - 1
          BY <3>1, <3>3, <1>4, <1>6
        <4> QED BY <4>1, <4>2, <1>5
      <3> QED BY <3>2, <3>3
    <2>7. Less(x) = x - 1 /\ x - 1 \in 0 .. n /\ x - 1 \in Word
          /\ s + k + 1 \in Word /\ t + k + 1 \in Word
      BY <2>2, <1>4, <1>5, <1>6, <1>9, NumberFact DEF Less
    <2>8. /\ r'.rdi = s + k + 1 /\ r'.rsi = t + k + 1 /\ r'.rcx = x - 1
          /\ r' \in Registers
      BY <2>1, <2>7, <1>2, <1>5 DEF NextCasePair, TypeOK, Registers, x
    <2>9. mem' \in [DOMAIN old -> Bytes]
      BY <2>4, <2>5, <1>2 DEF TypeOK
    <2>10. MemcpyInv'
      <3>1. n - r'.rcx = k + 1 /\ r'.rdi = s + (k + 1) /\ r'.rsi = t + (k + 1)
        BY <2>8, <1>4, <1>5
      <3>2. \A a \in DOMAIN old :
              mem'[a] = IF a \in s .. s + (n - r'.rcx) - 1 THEN old[t + a - s] ELSE old[a]
        BY <3>1, <2>6
      <3> QED BY <3>1, <3>2, <2>7, <2>8, <1>3 DEF MemcpyInv
    <2>11. FunctionInv'
      BY <2>10, <1>1, <1>3 DEF FunctionInv
    <2>12. reads' \subseteq Nat /\ \A a \in reads' : MayRead(a)
      BY <2>1, <2>2, <1>1 DEF MayRead
    <2> QED BY <2>1, <2>8, <2>9, <2>11, <2>12, <1>1, <1>7, Steps
  <1> QED BY <1>8, <1>9
-----------------------------------------------------------------------------
LEMMA SpanFact ==
  ASSUME old \in Memory, s = S, NEW k \in 0 .. Length(s), old[s + k] \notin Members,
         \A j \in 0 .. k - 1 : old[s + j] \in Members
  PROVE  Span = k
  <1> DEFINE A == {j \in 0 .. Length(s) : old[s + j] \notin Members}
  <1>1. Length(s) \in Nat
    BY StringFact
  <1>2. A \subseteq Nat /\ k \in A /\ \A j \in A : k <= j
    BY <1>1
  <1>3. Min(A) = k
    <2> HIDE DEF A
    <2> QED BY <1>2, LeastIs
  <1> QED BY <1>3 DEF Span

LEMMA StrspnKeeps ==
  ASSUME IInv, Strspn
  PROVE  IInv'
  <1>1. /\ fn = "strspn" /\ at = "loop" /\ reads' = {r.rdi + r.rcx}
        /\ UNCHANGED <<args, mem, written>>
    BY DEF Strspn, Reading
  <1>2. /\ TypeOK /\ mem = old /\ StrspnInv /\ s = S /\ t = T /\ s # 0
        /\ old \in Memory
    BY <1>1, NumberFact
       DEF IInv, ReadsInBounds, Arguments, Running, FunctionInv, TypeOK
  <1>3. /\ UNCHANGED <<fn, s, t, old, Span, Members>>
        /\ Length(s)' = Length(s) /\ Length(t)' = Length(t)
    BY <1>1, Same
  <1> DEFINE k == r.rcx
  <1>4. /\ r.rdi = s /\ r.rsi = t /\ r.r8 = k /\ k \in 0 .. Length(s)
        /\ \A j \in 0 .. k - 1 : old[s + j] \in Members
    BY <1>2 DEF StrspnInv
  <1> HIDE DEF k
  <1>5. /\ Byte(s + k) = {old[s + k]} /\ s + k \in Extent(s)
        /\ s + k \in 1 .. LONG_MAX - 1 /\ k \in Word /\ old[s + k] \in 0 .. 255
    BY <1>2, <1>4, ByteFact
  <1>6. IF old[s + k] = 0 THEN Return(k)
        ELSE Inner([r EXCEPT !.rax = old[s + k], !.rbx = 0])
    BY <1>4, <1>5 DEF Strspn, k
  <1>7. reads' \subseteq Nat /\ \A a \in reads' : MayRead(a)
    BY <1>1, <1>4, <1>5, NumberFact DEF MayRead, k
  <1>8. CASE old[s + k] = 0
    <2>1. at' = "ret" /\ r' = [r EXCEPT !.rax = k]
      BY <1>6, <1>8 DEF Return
    <2>2. r'.rax = k /\ r' \in Registers
      BY <2>1, <1>2, <1>5 DEF TypeOK, Registers
    <2>3. Span = k
      BY <1>2, <1>4, <1>8, SpanFact DEF Members
    <2>4. AgreesWithC'
      BY <2>1, <2>2, <2>3, <1>1, <1>3 DEF AgreesWithC
    <2> QED BY <2>1, <2>2, <2>4, <1>1, <1>7, GoesOn
  <1>9. CASE old[s + k] # 0
    <2>1. at' = "inner" /\ r' = [r EXCEPT !.rax = old[s + k], !.rbx = 0]
      BY <1>6, <1>9 DEF Inner
    <2>2. old[s + k] \in Word /\ 0 \in Word
      <3>1. old[s + k] \in -256 .. 256
        BY <1>5
      <3>2. old[s + k] \in Word
        BY <3>1, SmallFact
      <3> QED BY <3>2, NumberFact
    <2>3. /\ r'.rdi = s /\ r'.rsi = t /\ r'.r8 = k /\ r'.rcx = k
          /\ r'.rax = old[s + k] /\ r'.rbx = 0 /\ r' \in Registers
      BY <2>1, <2>2, <1>2, <1>4 DEF TypeOK, Registers, k
    <2>4. Length(t) \in Nat
      BY <1>2, StringFact
    <2>5. StrspnInv'
      BY <2>1, <2>3, <2>4, <1>3, <1>4, <1>9 DEF StrspnInv
    <2>6. FunctionInv'
      BY <2>5, <1>1, <1>3 DEF FunctionInv
    <2> QED BY <2>1, <2>3, <2>6, <1>1, <1>7, GoesOn
  <1> QED BY <1>8, <1>9

LEMMA StrspnInnerKeeps ==
  ASSUME IInv, StrspnInner
  PROVE  IInv'
  <1>1. /\ fn = "strspn" /\ at = "inner" /\ reads' = {r.rsi + r.rbx}
        /\ UNCHANGED <<args, mem, written>>
    BY DEF StrspnInner, Reading
  <1>2. /\ TypeOK /\ mem = old /\ StrspnInv /\ s = S /\ t = T /\ s # 0
        /\ old \in Memory
    BY <1>1, NumberFact
       DEF IInv, ReadsInBounds, Arguments, Running, FunctionInv, TypeOK
  <1>3. /\ UNCHANGED <<fn, s, t, old, Span, Members>>
        /\ Length(s)' = Length(s) /\ Length(t)' = Length(t)
    BY <1>1, Same
  <1> DEFINE k == r.rcx  j == r.rbx  x == old[s + k]
  <1>4. /\ r.rdi = s /\ r.rsi = t /\ r.r8 = k /\ k \in 0 .. Length(s)
        /\ \A i \in 0 .. k - 1 : old[s + i] \in Members
        /\ r.rax = x /\ x # 0 /\ j \in 0 .. Length(t)
        /\ \A i \in 0 .. j - 1 : old[t + i] # x
    BY <1>1, <1>2 DEF StrspnInv
  <1> HIDE DEF k, j
  <1>5. /\ Byte(t + j) = {old[t + j]} /\ t + j \in Extent(t)
        /\ t + j \in 1 .. LONG_MAX - 1 /\ j + 1 \in Word
        /\ old[t + j] # 0 => j + 1 \in 0 .. Length(t)
        /\ old[t + j] = 0 => j = Length(t)
    BY <1>2, <1>4, ByteFact
  <1>6. /\ k \in Word /\ k + 1 \in Word
        /\ x # 0 => k + 1 \in 0 .. Length(s)
    BY <1>2, <1>4, ByteFact
  <1>7. IF old[t + j] = 0 THEN Return(k)
        ELSE IF old[t + j] = x THEN Again(Matched)
        ELSE Inner([r EXCEPT !.rbx = @ + 1])
    BY <1>4, <1>5 DEF StrspnInner, j
  <1>8. reads' \subseteq Nat /\ \A a \in reads' : MayRead(a)
    BY <1>1, <1>4, <1>5, NumberFact DEF MayRead, j
  <1>9. t \in Nat /\ Length(t) \in Nat /\ Extent(t) = t .. t + Length(t)
    BY <1>2, StringFact
  <1> HIDE DEF x
  <1>10. CASE old[t + j] = 0
    <2>1. at' = "ret" /\ r' = [r EXCEPT !.rax = k]
      BY <1>7, <1>10 DEF Return
    <2>2. r'.rax = k /\ r' \in Registers
      BY <2>1, <1>2, <1>6 DEF TypeOK, Registers
    <2>3. x \notin Members
      <3> SUFFICES ASSUME NEW a \in Extent(t), old[a] = x PROVE FALSE
        BY DEF Members
      <3>1. a - t \in 0 .. Length(t) /\ t + (a - t) = a
        BY <1>9
      <3>2. a - t \in 0 .. j - 1 \/ a - t = j
        BY <3>1, <1>4, <1>5, <1>10
      <3> QED BY <3>1, <3>2, <1>4, <1>10
    <2>4. Span = k
      BY <2>3, <1>2, <1>4, SpanFact DEF x
    <2>5. AgreesWithC'
      BY <2>1, <2>2, <2>4, <1>1, <1>3 DEF AgreesWithC
    <2> QED BY <2>1, <2>2, <2>5, <1>1, <1>8, GoesOn
  <1>11. CASE old[t + j] # 0 /\ old[t + j] = x
    <2>1. at' = "loop" /\ r' = [r EXCEPT !.rcx = @ + 1, !.r8 = @ + 1]
      BY <1>7, <1>11 DEF Again, Matched
    <2>2. /\ r'.rdi = s /\ r'.rsi = t /\ r'.r8 = k + 1 /\ r'.rcx = k + 1
          /\ r' \in Registers
      BY <2>1, <1>2, <1>4, <1>6 DEF TypeOK, Registers, k
    <2>3. x \in Members
      BY <1>4, <1>5, <1>11 DEF Members
    <2>4. \A i \in 0 .. r'.rcx - 1 : old[s + i] \in Members
      <3> TAKE i \in 0 .. r'.rcx - 1
      <3>1. i \in 0 .. k - 1 \/ i = k
        BY <2>2, <1>4
      <3> QED BY <3>1, <2>3, <1>4 DEF x
    <2>5. StrspnInv'
      BY <2>1, <2>2, <2>4, <1>3, <1>4, <1>6 DEF StrspnInv
    <2>6. FunctionInv'
      BY <2>5, <1>1, <1>3 DEF FunctionInv
    <2> QED BY <2>1, <2>2, <2>6, <1>1, <1>8, GoesOn
  <1>12. CASE old[t + j] # 0 /\ old[t + j] # x
    <2>1. at' = "inner" /\ r' = [r EXCEPT !.rbx = @ + 1]
      BY <1>7, <1>12 DEF Inner
    <2>2. /\ r'.rdi = s /\ r'.rsi = t /\ r'.r8 = k /\ r'.rcx = k /\ r'.rax = x
          /\ r'.rbx = j + 1 /\ r' \in Registers
      BY <2>1, <1>2, <1>4, <1>5 DEF TypeOK, Registers, k, j
    <2>3. \A i \in 0 .. r'.rbx - 1 : old[t + i] # x
      <3> TAKE i \in 0 .. r'.rbx - 1
      <3>1. i \in 0 .. j - 1 \/ i = j
        BY <2>2, <1>4
      <3> QED BY <3>1, <1>4, <1>12
    <2>4. StrspnInv'
      BY <2>1, <2>2, <2>3, <1>3, <1>4, <1>5, <1>12 DEF StrspnInv, x
    <2>5. FunctionInv'
      BY <2>4, <1>1, <1>3 DEF FunctionInv
    <2> QED BY <2>1, <2>2, <2>5, <1>1, <1>8, GoesOn
  <1> QED BY <1>10, <1>11, <1>12
-----------------------------------------------------------------------------
LEMMA StrcspnKeeps ==
  ASSUME IInv, Strcspn
  PROVE  IInv'
  <1>1. /\ fn = "strcspn" /\ at = "loop" /\ reads' = {r.rdi + r.rcx}
        /\ UNCHANGED <<args, mem, written>>
    BY DEF Strcspn, Reading
  <1>2. /\ TypeOK /\ mem = old /\ StrcspnInv /\ s = S /\ t = T /\ old \in Memory
    BY <1>1 DEF IInv, ReadsInBounds, Arguments, Running, FunctionInv, TypeOK
  <1>3. UNCHANGED <<fn, s, t, old>> /\ Length(s)' = Length(s)
    BY <1>1, Same
  <1> DEFINE k == r.rcx
  <1>4. r.rdi = s /\ r.rsi = t /\ k \in 0 .. Length(s)
    BY <1>2 DEF StrcspnInv
  <1> HIDE DEF k
  <1>5. /\ Byte(s + k) = {old[s + k]} /\ s + k \in 1 .. LONG_MAX - 1
        /\ k \in Word /\ old[s + k] \in 0 .. 255
    BY <1>2, <1>4, ByteFact
  <1>6. IF old[s + k] = 0 THEN Return(k)
        ELSE Inner([r EXCEPT !.rax = old[s + k], !.rbx = 0])
    BY <1>4, <1>5 DEF Strcspn, k
  <1>7. reads' \subseteq Nat
    BY <1>1, <1>4, <1>5, NumberFact DEF k
  <1>8. CASE old[s + k] = 0
    <2>1. at' = "ret" /\ r' = [r EXCEPT !.rax = k]
      BY <1>6, <1>8 DEF Return
    <2>2. r' \in Registers
      BY <2>1, <1>2, <1>5 DEF TypeOK, Registers
    <2>3. AgreesWithC'
      BY <1>1, <1>3 DEF AgreesWithC
    <2> QED BY <2>1, <2>2, <2>3, <1>1, <1>7, GoesOn
  <1>9. CASE old[s + k] # 0
    <2>1. at' = "inner" /\ r' = [r EXCEPT !.rax = old[s + k], !.rbx = 0]
      BY <1>6, <1>9 DEF Inner
    <2>2. old[s + k] \in Word /\ 0 \in Word
      <3>1. old[s + k] \in -256 .. 256
        BY <1>5
      <3>2. old[s + k] \in Word
        BY <3>1, SmallFact
      <3> QED BY <3>2, NumberFact
    <2>3. r'.rdi = s /\ r'.rsi = t /\ r'.rcx = k /\ r'.rbx = 0 /\ r' \in Registers
      BY <2>1, <2>2, <1>2, <1>4 DEF TypeOK, Registers, k
    <2>4. t + 0 <= LONG_MAX
      BY <1>2, NumberFact
    <2>5. StrcspnInv'
      BY <2>3, <2>4, <1>3, <1>4, <1>9 DEF StrcspnInv
    <2>6. FunctionInv'
      BY <2>5, <1>1, <1>3 DEF FunctionInv
    <2> QED BY <2>1, <2>3, <2>6, <1>1, <1>7, GoesOn
  <1> QED BY <1>8, <1>9

LEMMA StrcspnInnerKeeps ==
  ASSUME IInv, StrcspnInner
  PROVE  IInv'
  <1>1. /\ fn = "strcspn" /\ at = "inner" /\ reads' = {r.rsi + r.rbx}
        /\ UNCHANGED <<args, mem, written>>
    BY DEF StrcspnInner, Reading
  <1>2. /\ TypeOK /\ mem = old /\ StrcspnInv /\ s = S /\ t = T /\ old \in Memory
    BY <1>1 DEF IInv, ReadsInBounds, Arguments, Running, FunctionInv, TypeOK
  <1>3. UNCHANGED <<fn, s, t, old>> /\ Length(s)' = Length(s)
    BY <1>1, Same
  <1> DEFINE k == r.rcx  j == r.rbx
  <1>4. /\ r.rdi = s /\ r.rsi = t /\ k \in 0 .. Length(s)
        /\ old[s + k] # 0 /\ j \in Nat
    BY <1>1, <1>2 DEF StrcspnInv
  <1> HIDE DEF k, j
  <1>5. k \in Word /\ k + 1 \in Word /\ k + 1 \in 0 .. Length(s)
    BY <1>2, <1>4, ByteFact
  <1>6. reads' \subseteq Nat
    <2>1. t \in Nat /\ reads' = {t + j}
      BY <1>1, <1>2, <1>4, NumberFact DEF j
    <2> QED BY <2>1, <1>4
  <1>7. PICK bl \in 0 .. 255 :
          IF bl = 0 THEN Again([r EXCEPT !.rcx = @ + 1])
          ELSE IF bl = r.rax THEN Return(r.rcx)
          ELSE IF r.rsi + NextIndex(bl) > LONG_MAX THEN at' = "fault" /\ UNCHANGED r
          ELSE Inner([r EXCEPT !.rbx = NextIndex(bl)])
    <2>1. \A a : Byte(a) \subseteq Bytes
      BY <1>2 DEF Byte, TypeOK
    <2> QED BY <2>1, NumberFact DEF StrcspnInner
  <1>8. CASE bl = 0
    <2>1. at' = "loop" /\ r' = [r EXCEPT !.rcx = @ + 1]
      BY <1>7, <1>8 DEF Again
    <2>2. r'.rdi = s /\ r'.rsi = t /\ r'.rcx = k + 1 /\ r' \in Registers
      BY <2>1, <1>2, <1>4, <1>5 DEF TypeOK, Registers, k
    <2>3. StrcspnInv'
      BY <2>1, <2>2, <1>3, <1>5 DEF StrcspnInv
    <2>4. FunctionInv'
      BY <2>3, <1>1, <1>3 DEF FunctionInv
    <2> QED BY <2>1, <2>2, <2>4, <1>1, <1>6, GoesOn
  <1>9. CASE bl # 0 /\ bl = r.rax
    <2>1. at' = "ret" /\ r' = [r EXCEPT !.rax = k]
      BY <1>7, <1>9 DEF Return, k
    <2>2. r' \in Registers
      BY <2>1, <1>2, <1>5 DEF TypeOK, Registers
    <2>3. AgreesWithC'
      BY <1>1, <1>3 DEF AgreesWithC
    <2> QED BY <2>1, <2>2, <2>3, <1>1, <1>6, GoesOn
  <1>10. CASE bl # 0 /\ bl # r.rax /\ t + NextIndex(bl) > LONG_MAX
    <2>1. at' = "fault" /\ r' = r
      BY <1>4, <1>7, <1>10
    <2>2. r' \in Registers
      BY <2>1, <1>2 DEF TypeOK
    <2>3. AgreesWithC'
      BY <2>1 DEF AgreesWithC
    <2> QED BY <2>1, <2>2, <2>3, <1>1, <1>6, GoesOn
  <1>11. CASE bl # 0 /\ bl # r.rax /\ ~ (t + NextIndex(bl) > LONG_MAX)
    <2>1. at' = "inner" /\ r' = [r EXCEPT !.rbx = NextIndex(bl)]
      BY <1>4, <1>7, <1>11 DEF Inner
    <2>2. NextIndex(bl) \in Word /\ NextIndex(bl) \in Nat /\ t + NextIndex(bl) <= LONG_MAX
      <3>1. NextIndex(bl) \in Nat
        <4>1. PICK h : h = j % 256
          OBVIOUS
        <4>2. h \in 0 .. 255 /\ h <= j
          BY <4>1, <1>4
        <4>3. NextIndex(bl) = (j - h) + bl + 1
          BY <4>1 DEF NextIndex, j
        <4>4. h \in Int /\ j \in Int /\ bl \in Nat
          BY <4>2, <1>4, <1>7
        <4> QED BY <4>2, <4>3, <4>4
      <3>2. t + NextIndex(bl) <= LONG_MAX
        BY <3>1, <1>2, <1>11, NumberFact
      <3> QED BY <3>1, <3>2, <1>2, NumberFact
    <2>3. /\ r'.rdi = s /\ r'.rsi = t /\ r'.rcx = k /\ r'.rbx = NextIndex(bl)
          /\ r' \in Registers
      BY <2>1, <2>2, <1>2, <1>4 DEF TypeOK, Registers, k
    <2>4. StrcspnInv'
      BY <2>1, <2>2, <2>3, <1>3, <1>4 DEF StrcspnInv
    <2>5. FunctionInv'
      BY <2>4, <1>1, <1>3 DEF FunctionInv
    <2> QED BY <2>1, <2>3, <2>5, <1>1, <1>6, GoesOn
  <1> QED BY <1>8, <1>9, <1>10, <1>11

LEMMA StrpbrkKeeps ==
  ASSUME IInv, Strpbrk
  PROVE  IInv'
  <1>1. fn = "strpbrk" /\ at = "loop" /\ UNCHANGED <<args, mem, written>>
    BY DEF Strpbrk, Reading
  <1>2. /\ TypeOK /\ mem = old /\ StrpbrkInv /\ old \in Memory /\ s \in {0, S}
    BY <1>1 DEF IInv, ReadsInBounds, Arguments, Running, FunctionInv, TypeOK
  <1>3. UNCHANGED <<fn, s>> /\ Extent(s)' = Extent(s)
    BY <1>1, Same
  <1>4. AgreesWithC'
    BY <1>1, <1>3 DEF AgreesWithC
  <1>5. CASE s = 0 \/ t = 0
    <2>1. reads' = {} /\ at' = "ret" /\ r' = [r EXCEPT !.rax = 0]
      BY <1>5 DEF Strpbrk, Reading, Return
    <2>2. r' \in Registers
      BY <2>1, <1>2, NumberFact DEF TypeOK, Registers
    <2> QED BY <2>1, <2>2, <1>1, <1>4, GoesOn
  <1>6. CASE s # 0 /\ t # 0
    <2> DEFINE k == r.rdi - s
    <2>1. /\ s = S /\ s \in Nat /\ Length(s) \in Nat /\ Extent(s) = s .. s + Length(s)
      BY <1>2, <1>6, StringFact
    <2>2. k \in 0 .. Length(s) /\ r.rdi = s + k
      BY <2>1, <1>2, <1>6 DEF StrpbrkInv
    <2> HIDE DEF k
    <2>3. /\ Byte(s + k) = {old[s + k]} /\ s + k \in 1 .. LONG_MAX - 1
          /\ s + k \in Word /\ s + k + 1 \in Word
          /\ old[s + k] # 0 => k + 1 \in 0 .. Length(s)
      BY <2>1, <2>2, <1>2, ByteFact
    <2>4. /\ reads' = {s + k}
          /\ \/ at' = "ret" /\ \E x \in {0, s + k} : r' = [r EXCEPT !.rax = x]
             \/ /\ old[s + k] # 0
                /\ at' = "loop" /\ r' = [r EXCEPT !.rdi = @ + 1]
      BY <2>2, <2>3, <1>6 DEF Strpbrk, Reading, Return, Again, NextHaystack
    <2>5. reads' \subseteq Nat
      BY <2>3, <2>4, NumberFact
    <2>6. CASE at' = "ret" /\ \E x \in {0, s + k} : r' = [r EXCEPT !.rax = x]
      <3>1. r' \in Registers
        <4>1. PICK x \in {0, s + k} : r' = [r EXCEPT !.rax = x]
          BY <2>6
        <4>2. x \in Word
          BY <2>3, NumberFact
        <4> QED BY <4>1, <4>2, <1>2 DEF TypeOK, Registers
      <3> QED BY <3>1, <2>5, <2>6, <1>1, <1>4, GoesOn
    <2>7. CASE old[s + k] # 0 /\ at' = "loop" /\ r' = [r EXCEPT !.rdi = @ + 1]
      <3>1. r' \in Registers /\ r'.rdi = s + k + 1
        BY <2>2, <2>3, <2>7, <1>2 DEF TypeOK, Registers
      <3>2. s + k + 1 \in Extent(s)
        BY <2>1, <2>2, <2>3, <2>7
      <3>3. FunctionInv'
        BY <3>1, <3>2, <1>1, <1>3 DEF FunctionInv, StrpbrkInv
      <3> QED BY <3>1, <3>3, <2>5, <2>7, <1>1, GoesOn
    <2> QED BY <2>4, <2>6, <2>7
  <1> QED BY <1>5, <1>6
-----------------------------------------------------------------------------
LEMMA InitKeeps ==
  ASSUME Init
  PROVE  IInv
  <1>1. /\ fn \in Functions /\ old \in Memory /\ mem = old
        /\ at \in {"loop", "write"} /\ reads = {} /\ written = <<>>
        /\ s \in {0, S} /\ t \in {0, T} /\ c \in Bytes /\ code \subseteq Bytes
        /\ n \in Counts \union {0}
    BY LibasmAssumption DEF Init
  <1>2. PICK ax, bx \in IF fn = "strncmp" THEN Rests ELSE {0} :
          r = [rax |-> ax, rbx |-> bx, rdi |-> s, rsi |-> t, r8 |-> 0,
               rcx |-> IF fn \in {"memcpy", "strncasecmp"} THEN n ELSE 0]
    BY DEF Init
  <1>3. n \in Word /\ n \in Int /\ s \in Word /\ t \in Word /\ 0 \in Word
    BY <1>1, LibasmAssumption, NumberFact, SMTT(30) DEF Word
  <1>4. ax \in Word /\ bx \in Word
    <2>1. Rests \subseteq Word
      <3> SUFFICES ASSUME NEW x \in Rests PROVE x \in Word
        OBVIOUS
      <3>1. x \in 0 .. UINT_MAX - 255
        BY LibasmAssumption
      <3> QED BY <3>1, NumberFact
    <2> QED BY <2>1, <1>3
  <1>5. r \in Registers
    BY <1>2, <1>3, <1>4 DEF Registers
  <1>6. TypeOK
    BY <1>1, <1>5, MemoryFact DEF TypeOK
  <1>7. Arguments
    BY <1>1 DEF Init, Arguments
  <1>8. /\ r.rdi = s /\ r.rsi = t /\ r.r8 = 0 /\ r.rax = ax /\ r.rbx = bx
        /\ r.rcx = IF fn \in {"memcpy", "strncasecmp"} THEN n ELSE 0
    BY <1>2
  <1>9. \A a \in {S, T} : /\ a \in Nat \ {0} /\ Length(a) \in Nat
                          /\ Extent(a) = a .. a + Length(a)
    BY <1>1, StringFact
  <1>10. at = "write" => fn = "putc"
    BY DEF Init
  <1>11. at = "loop"  /\ fn \notin {"strcasecmp", "strpbrk"} => s = S /\ t = T
    BY DEF Init
  <1>12. FunctionInv
    <2>1. CASE fn = "putc"
      BY <2>1 DEF FunctionInv
    <2>2. CASE fn # "putc"
      <3>1. at = "loop"
        BY <1>1, <1>10, <2>2
      <3>2. fn \in {"strlen", "puts"} => LengthInv
        BY <3>1, <1>2, <1>8, <1>9, <1>11 DEF LengthInv
      <3>3. fn = "strchr" => StrchrInv
        BY <3>1, <1>2, <1>8, <1>9, <1>11 DEF StrchrInv
      <3>4. fn \in {"strcmp", "strncmp"} => CompareInv
        BY <3>1, <1>2, <1>3, <1>8, <1>9, <1>11 DEF CompareInv
      <3>5. fn \in {"strcasecmp", "strncasecmp"} => CaseInv
        <4>1. s \in Nat /\ t \in Nat
          BY <1>1, <1>9
        <4>2. /\ s # 0 => r.rdi \in Extent(s)
              /\ t # 0 => r.rsi \in Extent(t)
          BY <1>1, <1>8, <1>9
        <4>3. /\ r.rsi - t = r.rdi - s /\ r.rdi >= s /\ r.rdi - s = 0
          BY <4>1, <1>8
        <4>4. fn = "strncasecmp" => r.rcx = n - (r.rdi - s) /\ (n >= 0 => r.rcx >= 0)
          BY <4>3, <1>3, <1>8
        <4>5. \A k \in 0 .. r.rdi - s - 1 : FALSE
          BY <4>3
        <4> QED BY <4>2, <4>3, <4>4, <4>5 DEF CaseInv
      <3>6. fn = "strstr" => StrstrInv
        BY <3>1, <1>2, <1>8, <1>9, <1>11 DEF StrstrInv
      <3>7. fn = "memcpy" => MemcpyInv
        <4> SUFFICES ASSUME fn = "memcpy" PROVE MemcpyInv
          OBVIOUS
        <4>1. n \in Nat /\ r.rcx = n /\ s \in Nat /\ t \in Nat
          BY <3>1, <1>8, <1>9, <1>11 DEF Init
        <4>2. r.rcx \in 0 .. n /\ r.rdi = s + (n - r.rcx) /\ r.rsi = t + (n - r.rcx)
          BY <4>1, <1>8
        <4>3. \A a : a \notin s .. s + (n - r.rcx) - 1
          BY <4>1
        <4> QED BY <4>2, <4>3, <1>1 DEF MemcpyInv
      <3>8. fn = "strspn" => StrspnInv
        BY <3>1, <1>2, <1>8, <1>9, <1>11 DEF StrspnInv
      <3>9. fn = "strcspn" => StrcspnInv
        BY <3>1, <1>2, <1>8, <1>9, <1>11 DEF StrcspnInv
      <3>10. fn = "strpbrk" => StrpbrkInv
        BY <1>1, <1>8, <1>9 DEF StrpbrkInv
      <3> QED BY <3>2, <3>3, <3>4, <3>5, <3>6, <3>7, <3>8, <3>9, <3>10 DEF FunctionInv
    <2> QED BY <2>1, <2>2
  <1>13. AgreesWithC
    BY <1>1 DEF AgreesWithC
  <1>14. ReadsInBounds
    BY <1>1, <1>6 DEF ReadsInBounds
  <1> QED BY <1>7, <1>12, <1>13, <1>14 DEF IInv

LEMMA StutterKeeps ==
  ASSUME IInv, UNCHANGED vars
  PROVE  IInv'
  <1>1. /\ UNCHANGED args /\ UNCHANGED <<fn, s, t, n, c, old, code>>
        /\ UNCHANGED <<mem, at, r, reads, written>>
    BY DEF vars, args
  <1>2. /\ Length(s)' = Length(s) /\ Length(t)' = Length(t)
        /\ Extent(s)' = Extent(s) /\ Extent(t)' = Extent(t)
        /\ \A a : (FoundAt(a)' <=> FoundAt(a)) /\ (MayRead(a)' <=> MayRead(a))
        /\ UNCHANGED <<Members, Ascii, Order, FirstByte, FirstFound, Span, Copied>>
    BY <1>1, Same
  <1>3. TypeOK /\ Arguments /\ AgreesWithC
    BY DEF IInv, ReadsInBounds
  <1>4. AgreesWithC'
    BY <1>1, <1>2, <1>3 DEF AgreesWithC, Sign
  <1>5. at' \notin {"ret", "fault"} => FunctionInv'
    <2> SUFFICES ASSUME FunctionInv PROVE FunctionInv'
      BY <1>1 DEF IInv, Running
    <2>1. LengthInv' <=> LengthInv
      BY <1>1, <1>2 DEF LengthInv
    <2>2. StrchrInv' <=> StrchrInv
      BY <1>1, <1>2 DEF StrchrInv
    <2>3. CompareInv' <=> CompareInv
      BY <1>1, <1>2 DEF CompareInv
    <2>4. CaseInv' <=> CaseInv
      BY <1>1, <1>2 DEF CaseInv, Fold
    <2>5. StrstrInv' <=> StrstrInv
      BY <1>1, <1>2 DEF StrstrInv
    <2>6. MemcpyInv' <=> MemcpyInv
      BY <1>1, <1>2 DEF MemcpyInv
    <2>7. StrspnInv' <=> StrspnInv
      BY <1>1, <1>2 DEF StrspnInv
    <2>8. StrcspnInv' <=> StrcspnInv
      BY <1>1, <1>2 DEF StrcspnInv
    <2>9. StrpbrkInv' <=> StrpbrkInv
      BY <1>1, <1>2 DEF StrpbrkInv
    <2> QED BY <2>1, <2>2, <2>3, <2>4, <2>5, <2>6, <2>7, <2>8, <2>9, <1>1
            DEF FunctionInv
  <1>6. /\ mem' \in [DOMAIN old -> Bytes] /\ written' \in Seq(Bytes)
        /\ at' \in {"loop", "inner", "write", "ret", "fault"}
        /\ r' \in Registers /\ reads' \subseteq Nat
        /\ fn \notin {"strcspn", "strpbrk"} => \A a \in reads' : MayRead(a)
    BY <1>1, <1>3 DEF TypeOK, IInv, ReadsInBounds
  <1> QED BY <1>1, <1>4, <1>5, <1>6, Steps

(* Where a function is in its strings, for all of the functions.           *)
THEOREM LibasmInvariant == Spec => []IInv
  <1>1. Init => IInv
    BY InitKeeps
  <1>2. IInv /\ [Next]_vars => IInv'
    <2> SUFFICES ASSUME IInv, [Next]_vars PROVE IInv'
      OBVIOUS
    <2>1. CASE Strlen BY <2>1, StrlenKeeps
    <2>2. CASE Putc BY <2>2, PutcKeeps
    <2>3. CASE Puts BY <2>3, PutsKeeps
    <2>4. CASE Strchr BY <2>4, StrchrKeeps
    <2>5. CASE Strcmp \/ Strncmp BY <2>5, CompareKeeps
    <2>6. CASE Strcasecmp BY <2>6, StrcasecmpKeeps
    <2>7. CASE Strncasecmp BY <2>7, StrncasecmpKeeps
    <2>8. CASE Strstr BY <2>8, StrstrKeeps
    <2>9. CASE StrstrInner BY <2>9, StrstrInnerKeeps
    <2>10. CASE Memcpy BY <2>10, MemcpyKeeps
    <2>11. CASE Strspn BY <2>11, StrspnKeeps
    <2>12. CASE StrspnInner BY <2>12, StrspnInnerKeeps
    <2>13. CASE Strcspn BY <2>13, StrcspnKeeps
    <2>14. CASE StrcspnInner BY <2>14, StrcspnInnerKeeps
    <2>15. CASE Strpbrk BY <2>15, StrpbrkKeeps
    <2>16. CASE UNCHANGED vars BY <2>16, StutterKeeps
    <2> QED
      BY <2>1, <2>2, <2>3, <2>4, <2>5, <2>6, <2>7, <2>8, <2>9, <2>10, <2>11, <2>12,
         <2>13, <2>14, <2>15, <2>16 DEF Next, Step, Returned
  <1> QED BY <1>1, <1>2, PTL DEF Spec

(* No function reads beyond its strings or its count.                      *)
THEOREM StaysInBounds == Spec => []ReadsInBounds
  <1>1. IInv => ReadsInBounds
    BY DEF IInv
  <1> QED BY <1>1, LibasmInvariant, PTL

(* Each function returns what the C library's does.                        *)
THEOREM ReturnsAsC == Spec => []AgreesWithC
  <1>1. IInv => AgreesWithC
    BY DEF IInv
  <1> QED BY <1>1, LibasmInvariant, PTL
=============================================================================
