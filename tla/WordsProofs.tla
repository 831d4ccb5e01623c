----------------------------- MODULE WordsProofs -----------------------------
(***************************************************************************)
(* Proofs about prime_factors, print_python_int, the header printer of     *)
(* readelf and dump_write_buffer, for words, digits and bytes of any       *)
(* width, any memory and any arguments.                                    *)
(***************************************************************************)
EXTENDS Words, FiniteSetTheorems, SequenceTheorems, WellFoundedInduction, TLAPS

(* The function that was called has an argument of its own kind. *)
ArgumentInv ==
  \/ fn = "prime_factors" /\ arg \in Numerals
  \/ fn = "print_python_int" /\ arg \in Objects
  \/ fn = "hreadelf" /\ arg \in ElfFiles
  \/ fn = "dump_write_buffer" /\ arg \in WriteBuffers

(* The list of prime_factors and its blocks: two for each factor, and the  *)
(* list.                                                                   *)
Counting == {"two", "odd", "divide", "last"}
Blocks(k) == {FactorList} \cup UNION {NodeBlocks(j) : j \in 1 .. k}

ListInv ==
  fn = "prime_factors" =>
    /\ pc \in {"call", "return", "NULL", "fault"} \cup Counting
    /\ pc \in {"call", "NULL"} => held = {}
    /\ pc \in {"call", "return"} \cup Counting => out \in Seq(Nat)
    /\ pc = "call" => out = <<>>
    /\ pc \in {"return"} \cup Counting =>
         /\ held = Blocks(Len(out)) /\ IsFiniteSet(held)
         /\ Cardinality(held) = 2 * Len(out) + 1 /\ Len(out) <= MEMORY
    /\ pc \in Counting => arg.text = "number"
    /\ pc = "return" /\ arg.text # "number" => out = <<>>

(* The factors on a list are prime and in order, up to limit. *)
Factors(list, limit) ==
  /\ \A k \in DOMAIN list : IsPrime(list[k]) /\ list[k] <= limit
  /\ \A k \in DOMAIN list : k > 1 => list[k - 1] <= list[k]

(* The factors so far and n make up the number, and n has no divisor below *)
(* the present one.  A divisor that went round to 1 stays there, dividing  *)
(* 1 by 1, until memory ends.                                              *)
DivisorInv ==
  fn = "prime_factors" /\ pc \in Counting =>
    /\ Product(out) * n = Strtoul(arg.value)
    /\ pc = "two" => Factors(out, 2)
    /\ pc # "two" =>
         /\ n % 2 = 1 /\ i % 2 = 1 /\ i <= ULONG_MAX
         /\ \A d \in 2 .. i - 1 : n % d # 0
         /\ IF i = 1 THEN n = 1 /\ pc # "last" ELSE Factors(out, i)
         /\ pc = "last" => i * i > n

(* The values of the k highest digits. *)
Tops(digits) ==
  LET v[k \in 0 .. Len(digits)] ==
        IF k = 0 THEN 0 ELSE v[k - 1] * PyLong_BASE + digits[Len(digits) - k + 1]
  IN  v

NumberInv ==
  fn = "print_python_int" =>
    /\ pc \in {"call", "digits", "return", "overflow", "invalid"} /\ held = {}
    /\ pc = "call" => n = 0
    /\ pc = "digits" => /\ arg.long /\ i \in 0 .. Len(arg.digits)
                        /\ n = Tops(arg.digits)[Len(arg.digits) - i]
    /\ NumberShown

(* What hreadelf holds, and what it has read of a file that is still whole. *)
Whole == size >= Len(Contents(arg.header)) /\ arg.header.data \in {ELFDATA2LSB, ELFDATA2MSB}

HeaderInv ==
  fn = "hreadelf" =>
    /\ pc \in {"call", "fstat", "mmap", "header", "print", "fields", "return", "fault", "98"}
    /\ pc \in {"call", "return", "98"} => held = {}
    /\ pc \in {"fstat", "mmap"} => held = {FD}
    /\ pc \in {"header", "print", "fields", "fault"} => held = {FD, MAP}
    /\ size <= ULONG_MAX
    /\ Whole /\ pc \in {"print", "fields"} => (i = 1 <=> arg.header.data = ELFDATA2MSB)
    /\ Whole /\ pc = "fields" =>
         out = << IF arg.header.class = ELFCLASS64 THEN 64 ELSE 32, arg.header.data,
                  Named(arg.header.osabi, KnownOsabi) >>
    /\ HeaderShown

DumpInv ==
  fn = "dump_write_buffer" =>
    /\ pc \in {"call", "words", "return"} /\ held = {}
    /\ pc = "call" => i = 0 /\ out = <<>>
    /\ pc \in {"words", "return"} =>
         /\ n = Min({arg.len, DUMP_MAX})
         /\ out = Visible(SubSeq(arg.memory, 1, Min({i, n}))) /\ i % WORD = 0
    /\ pc = "return" => i >= n \/ i + WORD > size
    /\ size <= Len(arg.memory)

IInv ==
  /\ TypeOK /\ ArgumentInv /\ ListInv /\ DivisorInv /\ FactorsRight
  /\ NumberInv /\ HeaderInv /\ DumpInv
-----------------------------------------------------------------------------
(* Numbers.                                                                *)

Below == OpToRel(<, Nat)

LEMMA LeastFact ==
  ASSUME NEW S, S \subseteq Nat, S # {}
  PROVE  \E m \in S : \A j \in S : m <= j
  <1>1. \A m, j \in Nat : <<j, m>> \in Below <=> j < m
    BY DEF OpToRel, Below
  <1>2. IsWellFoundedOn(Below, Nat)
    BY NatLessThanWellFounded DEF Below
  <1>3. PICK m \in S : \A j \in S : <<j, m>> \notin Below
    BY <1>2, WFMin
  <1>4. \A j \in S : m <= j
    <2> TAKE j \in S
    <2>1. ~ (j < m)
      BY <1>1, <1>3
    <2>2. m \in Nat /\ j \in Nat
      OBVIOUS
    <2> QED BY <2>1, <2>2
  <1> QED BY <1>4

(* What holds for 0, and for each number up to N if it holds for the one   *)
(* before, holds up to N.                                                  *)
LEMMA Induction ==
  ASSUME NEW N \in Nat, NEW S, 0 \in S, \A k \in 1 .. N : k - 1 \in S => k \in S
  PROVE  \A k \in 0 .. N : k \in S
  <1> DEFINE T == {k \in 0 .. N : k \notin S}
  <1>1. SUFFICES ASSUME T # {} PROVE FALSE
    OBVIOUS
  <1>2. PICK m \in T : \A j \in T : m <= j
    <2>1. T \subseteq Nat
      OBVIOUS
    <2> HIDE DEF T
    <2> QED BY <1>1, <2>1, LeastFact
  <1>3. m \in 1 .. N /\ m - 1 \in 0 .. N /\ m - 1 \notin T
    BY <1>2
  <1> QED BY <1>2, <1>3

Iterates(f, N, base, g) == f[0] = base /\ \A k \in 1 .. N : f[k] = g[k][f[k - 1]]

(* A function can be given by its first value and by each value from the   *)
(* one before.                                                             *)
LEMMA Recursion ==
  ASSUME NEW N \in Nat, NEW S, NEW base \in S, NEW g \in [1 .. N -> [S -> S]]
  PROVE  \E f \in [0 .. N -> S] : Iterates(f, N, base, g)
  <1> DEFINE Upto(m, f) == f[0] = base /\ \A k \in 1 .. m : f[k] = g[k][f[k - 1]]
             T == {m \in Nat : \E f \in [0 .. N -> S] : Upto(m, f)}
  <1>1. 0 \in T
    <2>1. [k \in 0 .. N |-> base] \in [0 .. N -> S] /\ Upto(0, [k \in 0 .. N |-> base])
      OBVIOUS
    <2> QED BY <2>1
  <1>2. ASSUME NEW m \in 1 .. N, m - 1 \in T PROVE m \in T
    <2>1. PICK f \in [0 .. N -> S] : Upto(m - 1, f)
      BY <1>2
    <2> DEFINE h == [f EXCEPT ![m] = g[m][f[m - 1]]]
    <2>2. f[m - 1] \in S /\ g[m][f[m - 1]] \in S
      OBVIOUS
    <2>3. h \in [0 .. N -> S]
      BY <2>2
    <2>4. h[m] = g[m][f[m - 1]] /\ \A k \in 0 .. N : k # m => h[k] = f[k]
      OBVIOUS
    <2>5. h[m - 1] = f[m - 1] /\ h[0] = base
      BY <2>1, <2>4
    <2>6. ASSUME NEW k \in 1 .. m PROVE h[k] = g[k][h[k - 1]]
      <3> HIDE DEF h
      <3>1. CASE k = m
        BY <2>4, <2>5, <3>1
      <3>2. CASE k # m
        <4>1. k \in 1 .. m - 1 /\ k \in 0 .. N /\ k - 1 \in 0 .. N /\ k - 1 # m
          BY <3>2
        <4>2. h[k] = f[k] /\ h[k - 1] = f[k - 1]
          BY <2>4, <3>2, <4>1
        <4> QED BY <2>1, <4>1, <4>2
      <3> QED BY <3>1, <3>2
    <2> HIDE DEF h
    <2>7. Upto(m, h)
      BY <2>5, <2>6
    <2> QED BY <2>3, <2>7
  <1> HIDE DEF T
  <1>3. N \in T
    <2>1. \A k \in 0 .. N : k \in T
      BY <1>1, <1>2, Induction
    <2> QED BY <2>1
  <1>4. PICK f \in [0 .. N -> S] : Upto(N, f)
    BY <1>3 DEF T
  <1> QED BY <1>4 DEF Iterates

LEMMA Products ==
  /\ \A a, b \in Nat : a * b \in Nat
  /\ \A a, b \in Nat : b > 0 => a <= a * b
  /\ \A a, b, c \in Nat : a <= b => a * c <= b * c
  <1>1. \A a, b \in Nat : a * b \in Nat
    OBVIOUS
  <1>2. ASSUME NEW a \in Nat, NEW b \in Nat, NEW c \in Nat, a <= b PROVE a * c <= b * c
    <2>1. b - a \in Nat /\ b * c = a * c + (b - a) * c
      BY <1>2
    <2>2. (b - a) * c \in Nat /\ a * c \in Nat /\ b * c \in Nat
      BY <1>1, <2>1
    <2> QED BY <2>1, <2>2
  <1>3. ASSUME NEW a \in Nat, NEW b \in Nat, b > 0 PROVE a <= a * b
    <2>1. 1 * a <= b * a
      BY <1>2, <1>3
    <2> QED BY <2>1
  <1> QED BY <1>1, <1>2, <1>3

PowerTo(b, k, p) == p = [j \in 0 .. k |-> IF j = 0 THEN 1 ELSE p[j - 1] * b]

LEMMA PowerIs ==
  ASSUME NEW b \in Nat, NEW k \in Nat
  PROVE  \E p \in [0 .. k -> Nat] : PowerTo(b, k, p) /\ Power(b, k) = p[k]
  <1> DEFINE g == [j \in 1 .. k |-> [x \in Nat |-> x * b]]
  <1>1. g \in [1 .. k -> [Nat -> Nat]]
    OBVIOUS
  <1>2. PICK f \in [0 .. k -> Nat] : Iterates(f, k, 1, g)
    <2> HIDE DEF g
    <2>1. 1 \in Nat
      OBVIOUS
    <2> QED BY <1>1, <2>1, Recursion
  <1>3. \A j \in 0 .. k : f[j] = IF j = 0 THEN 1 ELSE f[j - 1] * b
    <2>1. \A j \in 1 .. k, x \in Nat : g[j][x] = x * b
      OBVIOUS
    <2> HIDE DEF g
    <2>2. \A j \in 1 .. k : f[j] = g[j][f[j - 1]] /\ f[j - 1] \in Nat
      BY <1>2 DEF Iterates
    <2>3. \A j \in 1 .. k : f[j] = f[j - 1] * b
      BY <2>1, <2>2
    <2>4. f[0] = 1 /\ \A j \in 0 .. k : j = 0 \/ j \in 1 .. k
      BY <1>2 DEF Iterates
    <2> QED BY <2>3, <2>4
  <1> HIDE DEF g
  <1>4. PowerTo(b, k, f)
    BY <1>3 DEF PowerTo
  <1>5. Power(b, k) = (CHOOSE p : PowerTo(b, k, p))[k]
    BY DEF Power, PowerTo
  <1>6. PICK p : PowerTo(b, k, p) /\ Power(b, k) = p[k]
    BY <1>4, <1>5
  <1>7. \A j \in 0 .. k : p[j] = IF j = 0 THEN 1 ELSE p[j - 1] * b
    BY <1>6 DEF PowerTo
  <1>8. \A j \in 0 .. k : p[j] = f[j]
    <2> DEFINE S == {j \in 0 .. k : p[j] = f[j]}
    <2>1. 0 \in S /\ \A j \in 1 .. k : j - 1 \in S => j \in S
      BY <1>3, <1>7
    <2> HIDE DEF S
    <2>2. \A j \in 0 .. k : j \in S
      BY <2>1, Induction
    <2> QED BY <2>2 DEF S
  <1>9. p = f
    BY <1>3, <1>6, <1>8 DEF PowerTo
  <1> QED BY <1>6, <1>9

LEMMA PowerFact ==
  ASSUME NEW b \in Nat, NEW k \in Nat
  PROVE  Power(b, k) \in Nat /\ Power(b, 0) = 1 /\ Power(b, k + 1) = Power(b, k) * b
  <1>1. Power(b, 0) = 1
    <2> SUFFICES ASSUME NEW m \in Nat, m = 0 PROVE Power(b, m) = 1
      OBVIOUS
    <2>1. PICK p \in [0 .. m -> Nat] : PowerTo(b, m, p) /\ Power(b, m) = p[m]
      BY PowerIs
    <2> QED BY <2>1 DEF PowerTo
  <1>2. PICK p \in [0 .. k -> Nat] : PowerTo(b, k, p) /\ Power(b, k) = p[k]
    BY PowerIs
  <1>3. PICK q \in [0 .. k + 1 -> Nat] : PowerTo(b, k + 1, q) /\ Power(b, k + 1) = q[k + 1]
    <2>1. k + 1 \in Nat
      OBVIOUS
    <2> QED BY <2>1, PowerIs, Zenon
  <1>4. \A j \in 0 .. k : p[j] = q[j]
    <2>1. \A j \in 0 .. k : p[j] = IF j = 0 THEN 1 ELSE p[j - 1] * b
      BY <1>2 DEF PowerTo
    <2>2. \A j \in 0 .. k + 1 : q[j] = IF j = 0 THEN 1 ELSE q[j - 1] * b
      BY <1>3 DEF PowerTo
    <2> DEFINE S == {j \in 0 .. k : p[j] = q[j]}
    <2>3. 0 \in S /\ \A j \in 1 .. k : j - 1 \in S => j \in S
      BY <2>1, <2>2
    <2> HIDE DEF S
    <2>4. \A j \in 0 .. k : j \in S
      BY <2>3, Induction
    <2> QED BY <2>4 DEF S
  <1>5. q[k + 1] = q[k] * b
    BY <1>3 DEF PowerTo
  <1> QED BY <1>1, <1>2, <1>3, <1>4, <1>5

LEMMA PowerPositive ==
  ASSUME NEW b \in Nat \ {0}, NEW k \in Nat
  PROVE  Power(b, k) \in Nat /\ Power(b, k) > 0 /\ Power(b, k) <= Power(b, k + 1)
  <1> DEFINE S == {j \in Nat : Power(b, j) > 0}
  <1>1. 0 \in S
    BY PowerFact
  <1>2. \A j \in 1 .. k : j - 1 \in S => j \in S
    <2> SUFFICES ASSUME NEW j \in 1 .. k, j - 1 \in S PROVE j \in S
      OBVIOUS
    <2>1. j - 1 \in Nat /\ (j - 1) + 1 = j
      OBVIOUS
    <2>2. Power(b, j - 1) \in Nat /\ Power(b, j) \in Nat /\ Power(b, j) = Power(b, j - 1) * b
      BY <2>1, PowerFact
    <2>3. Power(b, j - 1) <= Power(b, j)
      BY <2>2, Products
    <2> QED BY <2>2, <2>3
  <1>3. k \in S
    <2> HIDE DEF S
    <2> QED BY <1>1, <1>2, Induction
  <1>4. Power(b, k) \in Nat /\ Power(b, k + 1) = Power(b, k) * b
    BY PowerFact
  <1> QED BY <1>3, <1>4, Products

LEMMA PowerGrows ==
  ASSUME NEW b \in Nat \ {0}, NEW j \in Nat, NEW k \in Nat, j <= k
  PROVE  Power(b, j) <= Power(b, k)
  <1> DEFINE S == {m \in Nat : Power(b, j) <= Power(b, j + m)}
  <1>1. 0 \in S
    BY PowerPositive
  <1>2. \A m \in 1 .. k - j : m - 1 \in S => m \in S
    <2> SUFFICES ASSUME NEW m \in 1 .. k - j, m - 1 \in S PROVE m \in S
      OBVIOUS
    <2>1. j + (m - 1) \in Nat /\ (j + (m - 1)) + 1 = j + m
      OBVIOUS
    <2>2. Power(b, j + (m - 1)) <= Power(b, j + m)
      BY <2>1, PowerPositive
    <2>3. {Power(b, j), Power(b, j + (m - 1)), Power(b, j + m)} \subseteq Nat
      BY <2>1, PowerFact
    <2> QED BY <2>2, <2>3
  <1>3. k - j \in Nat /\ j + (k - j) = k
    OBVIOUS
  <1>4. k - j \in S
    <2> HIDE DEF S
    <2> QED BY <1>1, <1>2, <1>3, Induction
  <1> QED BY <1>3, <1>4

LEMMA PowerAdds ==
  ASSUME NEW b \in Nat, NEW j \in Nat, NEW k \in Nat
  PROVE  Power(b, j + k) = Power(b, j) * Power(b, k)
  <1> DEFINE S == {m \in Nat : Power(b, j + m) = Power(b, j) * Power(b, m)}
  <1>1. 0 \in S
    BY PowerFact
  <1>2. \A m \in 1 .. k : m - 1 \in S => m \in S
    <2> SUFFICES ASSUME NEW m \in 1 .. k, m - 1 \in S PROVE m \in S
      OBVIOUS
    <2>1. j + (m - 1) \in Nat /\ (j + (m - 1)) + 1 = j + m /\ m - 1 \in Nat /\ (m - 1) + 1 = m
      OBVIOUS
    <2>2. Power(b, j + m) = Power(b, j + (m - 1)) * b
      BY <2>1, PowerFact
    <2>3. Power(b, m) = Power(b, m - 1) * b
      BY <2>1, PowerFact
    <2>4. Power(b, j) \in Nat /\ Power(b, m - 1) \in Nat
      BY <2>1, PowerFact
    <2> QED BY <2>2, <2>3, <2>4
  <1>3. k \in S
    <2> HIDE DEF S
    <2> QED BY <1>1, <1>2, Induction
  <1> QED BY <1>3

LEMMA PowerPowers ==
  ASSUME NEW j \in Nat, NEW k \in Nat
  PROVE  Power(Power(2, j), k) = Power(2, j * k)
  <1> DEFINE S == {m \in Nat : Power(Power(2, j), m) = Power(2, j * m)}
  <1>0. Power(2, j) \in Nat
    BY PowerFact
  <1>1. 0 \in S
    <2>1. j * 0 = 0
      OBVIOUS
    <2> QED BY <1>0, <2>1, PowerFact
  <1>2. \A m \in 1 .. k : m - 1 \in S => m \in S
    <2> SUFFICES ASSUME NEW m \in 1 .. k, m - 1 \in S PROVE m \in S
      OBVIOUS
    <2>1. m - 1 \in Nat /\ (m - 1) + 1 = m /\ j * (m - 1) \in Nat /\ j * (m - 1) + j = j * m
      OBVIOUS
    <2>2. Power(Power(2, j), m) = Power(Power(2, j), m - 1) * Power(2, j)
      BY <1>0, <2>1, PowerFact
    <2>3. Power(2, j * m) = Power(2, j * (m - 1)) * Power(2, j)
      <3>1. PICK a \in Nat : a = j * (m - 1)
        BY <2>1
      <3>2. Power(2, a + j) = Power(2, a) * Power(2, j)
        BY PowerAdds
      <3>3. a + j = j * m
        BY <2>1, <3>1
      <3> QED BY <3>1, <3>2, <3>3
    <2> QED BY <2>2, <2>3
  <1>3. k \in S
    <2> HIDE DEF S
    <2> QED BY <1>1, <1>2, Induction
  <1> QED BY <1>3
-----------------------------------------------------------------------------
(* Products.                                                               *)

ProductTo(list, p) ==
  p = [k \in 0 .. Len(list) |-> IF k = 0 THEN 1 ELSE p[k - 1] * list[k]]

LEMMA ProductIs ==
  ASSUME NEW list \in Seq(Nat)
  PROVE  \E p \in [0 .. Len(list) -> Nat] : ProductTo(list, p) /\ Product(list) = p[Len(list)]
  <1> DEFINE N == Len(list)
             g == [j \in 1 .. N |-> [x \in Nat |-> x * list[j]]]
  <1>0. N \in Nat /\ \A j \in 1 .. N : list[j] \in Nat
    OBVIOUS
  <1>1. g \in [1 .. N -> [Nat -> Nat]]
    BY <1>0, Products
  <1>2. PICK f \in [0 .. N -> Nat] : Iterates(f, N, 1, g)
    <2> HIDE DEF g, N
    <2>1. 1 \in Nat
      OBVIOUS
    <2> QED BY <1>0, <1>1, <2>1, Recursion
  <1>3. \A j \in 0 .. N : f[j] = IF j = 0 THEN 1 ELSE f[j - 1] * list[j]
    <2>1. \A j \in 1 .. N, x \in Nat : g[j][x] = x * list[j]
      OBVIOUS
    <2> HIDE DEF g
    <2>2. \A j \in 1 .. N : f[j] = g[j][f[j - 1]] /\ f[j - 1] \in Nat
      <3> HIDE DEF N
      <3> QED BY <1>0, <1>2 DEF Iterates
    <2>3. \A j \in 1 .. N : f[j] = f[j - 1] * list[j]
      BY <2>1, <2>2
    <2>4. f[0] = 1 /\ \A j \in 0 .. N : j = 0 \/ j \in 1 .. N
      BY <1>0, <1>2 DEF Iterates
    <2> QED BY <2>3, <2>4
  <1> HIDE DEF g
  <1>4. ProductTo(list, f)
    BY <1>3 DEF ProductTo
  <1>5. Product(list) = (CHOOSE p : ProductTo(list, p))[N]
    BY DEF Product, ProductTo
  <1>6. PICK p : ProductTo(list, p) /\ Product(list) = p[N]
    BY <1>4, <1>5
  <1>7. \A j \in 0 .. N : p[j] = IF j = 0 THEN 1 ELSE p[j - 1] * list[j]
    BY <1>6 DEF ProductTo
  <1>8. \A j \in 0 .. N : p[j] = f[j]
    <2> DEFINE S == {j \in 0 .. N : p[j] = f[j]}
    <2>1. 0 \in S /\ \A j \in 1 .. N : j - 1 \in S => j \in S
      BY <1>0, <1>3, <1>7
    <2> HIDE DEF S, N
    <2>2. \A j \in 0 .. N : j \in S
      BY <1>0, <2>1, Induction
    <2> QED BY <2>2 DEF S
  <1>9. p = f
    BY <1>3, <1>6, <1>8 DEF ProductTo
  <1> QED BY <1>6, <1>9

LEMMA ProductFact ==
  ASSUME NEW list \in Seq(Nat), NEW x \in Nat
  PROVE  /\ Product(list) \in Nat /\ Product(<<>>) = 1
         /\ Product(Append(list, x)) = Product(list) * x
  <1> DEFINE N == Len(list)
             more == Append(list, x)
  <1>0. N \in Nat /\ more \in Seq(Nat) /\ Len(more) = N + 1 /\ more[N + 1] = x
        /\ \A j \in 1 .. N : more[j] = list[j]
    OBVIOUS
  <1>1. Product(<<>>) = 1
    <2>1. PICK p \in [0 .. Len(<<>>) -> Nat] : ProductTo(<<>>, p) /\ Product(<<>>) = p[Len(<<>>)]
      BY ProductIs
    <2> QED BY <2>1 DEF ProductTo
  <1>2. PICK p \in [0 .. N -> Nat] : ProductTo(list, p) /\ Product(list) = p[N]
    BY ProductIs
  <1>3. PICK q \in [0 .. N + 1 -> Nat] : ProductTo(more, q) /\ Product(more) = q[N + 1]
    <2> HIDE DEF more
    <2> QED BY <1>0, ProductIs
  <1>4. \A j \in 0 .. N : p[j] = q[j]
    <2> DEFINE S == {j \in 0 .. N : p[j] = q[j]}
    <2>1. \A j \in 0 .. N : p[j] = IF j = 0 THEN 1 ELSE p[j - 1] * list[j]
      BY <1>2 DEF ProductTo
    <2>2. \A j \in 0 .. N + 1 : q[j] = IF j = 0 THEN 1 ELSE q[j - 1] * more[j]
      BY <1>0, <1>3 DEF ProductTo
    <2> HIDE DEF more, N
    <2>3. 0 \in S
      BY <1>0, <2>1, <2>2
    <2>5. \A j \in 1 .. N : j - 1 \in S => j \in S
      <3> TAKE j \in 1 .. N
      <3>1. /\ p[j] = p[j - 1] * list[j]
            /\ q[j] = q[j - 1] * more[j] /\ more[j] = list[j]
        <4>1. /\ j # 0 /\ j \in 0 .. N /\ j \in 0 .. N + 1 /\ more[j] = list[j]
          BY <1>0
        <4> QED BY <2>1, <2>2, <4>1, Zenon
      <3>2. p[j - 1] = q[j - 1] => p[j] = q[j]
        BY <3>1, Zenon
      <3>3. j - 1 \in 0 .. N /\ j \in 0 .. N
        BY <1>0
      <3> QED BY <3>2, <3>3
    <2> HIDE DEF S
    <2>4. \A j \in 0 .. N : j \in S
      BY <1>0, <2>3, <2>5, Induction
    <2> QED BY <2>4 DEF S
  <1>5. q[N + 1] = q[N] * x
    BY <1>0, <1>3 DEF ProductTo
  <1> QED BY <1>0, <1>1, <1>2, <1>3, <1>4, <1>5
-----------------------------------------------------------------------------
(* Division.                                                               *)

LEMMA Division ==
  ASSUME NEW a \in Nat, NEW b \in Nat \ {0}
  PROVE  /\ a \div b \in Nat /\ a % b \in 0 .. b - 1
         /\ a = (a \div b) * b + (a % b)
  <1>1. a % b \in 0 .. b - 1
    OBVIOUS
  <1>2. a = (a \div b) * b + (a % b)
    <2>1. b \in Nat /\ b > 0
      OBVIOUS
    <2> QED BY <2>1
  <1>3. a \div b \in Nat
    OBVIOUS
  <1> QED BY <1>1, <1>2, <1>3, Zenon

LEMMA Quotient ==
  ASSUME NEW b \in Nat \ {0}, NEW q \in Nat, NEW r \in 0 .. b - 1
  PROVE  (b * q + r) \div b = q /\ (b * q + r) % b = r
  <1> DEFINE a == b * q + r
  <1>1. a \in Nat
    BY Products
  <1> DEFINE p == a \div b
             s == a % b
  <1>0. p \in Nat /\ s \in 0 .. b - 1 /\ a = p * b + s
    <2> HIDE DEF a
    <2> QED BY <1>1, Division
  <1> HIDE DEF p, s
  <1>2. p \in Nat /\ s \in 0 .. b - 1 /\ b * q + r = b * p + s
    BY <1>0
  <1>3. ~ (p < q)
    <2> SUFFICES ASSUME p < q PROVE FALSE
      OBVIOUS
    <2>1. (p + 1) * b <= q * b /\ (p + 1) * b = b * p + b /\ q * b = b * q
      BY <1>2, Products
    <2>2. b * p \in Nat /\ b * q \in Nat
      BY <1>2, Products
    <2> QED BY <1>2, <2>1, <2>2
  <1>4. ~ (q < p)
    <2> SUFFICES ASSUME q < p PROVE FALSE
      OBVIOUS
    <2>1. (q + 1) * b <= p * b /\ (q + 1) * b = b * q + b /\ p * b = b * p
      BY <1>2, Products
    <2>2. b * p \in Nat /\ b * q \in Nat
      BY <1>2, Products
    <2> QED BY <1>2, <2>1, <2>2
  <1>5. p = q
    BY <1>2, <1>3, <1>4
  <1>6. s = r
    <2>1. b * p = b * q /\ b * q \in Nat
      BY <1>5, Products
    <2> QED BY <1>2, <2>1
  <1> QED BY <1>5, <1>6 DEF p, s

(* What divides a divisor divides. *)
LEMMA Divisors ==
  ASSUME NEW d \in Nat \ {0}, NEW m \in Nat, NEW k \in Nat, m % d = 0
  PROVE  (m * k) % d = 0
  <1>1. m = (m \div d) * d + 0 /\ m \div d \in Nat
    BY Division
  <1>2. PICK q \in Nat : m = d * q
    BY <1>1
  <1>3. m * k = d * (q * k) + 0
    BY <1>2
  <1>4. q * k \in Nat
    BY Products
  <1>5. (d * (q * k) + 0) % d = 0
    <2>1. 0 \in 0 .. d - 1
      OBVIOUS
    <2> HIDE <1>3
    <2> QED BY <1>4, <2>1, Quotient
  <1> QED BY <1>3, <1>5

(* What divides a quotient divides. *)
LEMMA QuotientKeeps ==
  ASSUME NEW m \in Nat, NEW d \in Nat \ {0}, m % d = 0, NEW e \in Nat \ {0}, m % e # 0
  PROVE  (m \div d) % e # 0
  <1> SUFFICES ASSUME (m \div d) % e = 0 PROVE FALSE
    OBVIOUS
  <1>1. m = (m \div d) * d + 0 /\ m \div d \in Nat
    BY Division
  <1>2. PICK q \in Nat : q = m \div d
    BY <1>1
  <1>3. (q * d) % e = 0
    BY <1>2, Divisors
  <1>4. m = q * d
    <2>1. q * d \in Nat
      BY Products
    <2> QED BY <1>1, <1>2, <2>1
  <1> QED BY <1>3, <1>4

(* The least divisor is prime. *)
LEMMA LeastDivisor ==
  ASSUME NEW m \in Nat, NEW d \in Nat, d > 1, m % d = 0, \A e \in 2 .. d - 1 : m % e # 0
  PROVE  IsPrime(d)
  <1> SUFFICES ASSUME NEW e \in 2 .. d - 1, d % e = 0 PROVE FALSE
    BY DEF IsPrime
  <1>1. m = (m \div d) * d + 0 /\ m \div d \in Nat
    BY Division
  <1>2. PICK q \in Nat : q = m \div d
    BY <1>1
  <1>3. (d * q) % e = 0
    <2>1. e \in Nat \ {0}
      OBVIOUS
    <2> QED BY <2>1, Divisors
  <1>4. m = d * q
    <2>1. q * d \in Nat /\ q * d = d * q
      BY Products
    <2> QED BY <1>1, <1>2, <2>1
  <1> QED BY <1>3, <1>4

(* What has no divisor up to its square root is prime. *)
LEMMA NoDivisor ==
  ASSUME NEW m \in Nat, m > 1, NEW d \in Nat, d * d > m, \A e \in 2 .. d - 1 : m % e # 0
  PROVE  IsPrime(m) /\ d <= m
  <1>1. d <= m
    <2> SUFFICES ASSUME m < d PROVE FALSE
      OBVIOUS
    <2>1. m \in 2 .. d - 1 /\ m * 1 + 0 = m /\ 0 \in 0 .. m - 1
      OBVIOUS
    <2>2. (m * 1 + 0) % m = 0
      BY <2>1, Quotient
    <2> QED BY <2>1, <2>2
  <1>2. ASSUME NEW e \in 2 .. m - 1, m % e = 0 PROVE FALSE
    <2>1. ~ (e < d)
      BY <1>2
    <2>2. m = (m \div e) * e + 0 /\ m \div e \in Nat
      BY <1>2, Division
    <2>3. PICK q \in Nat : m = q * e
      <3>1. PICK q \in Nat : q = m \div e
        BY <2>2
      <3>2. m = q * e + 0
        BY <2>2, <3>1, Zenon
      <3>3. q * e \in Nat
        BY Products
      <3> QED BY <3>2, <3>3
    <2>4. q # 0 /\ q # 1
      BY <2>3
    <2>5. q < d
      <3> SUFFICES ASSUME d <= q PROVE FALSE
        BY <2>3
      <3>1. d * e <= q * e /\ d * d <= e * d /\ e * d = d * e
        BY <2>1, <2>3, Products
      <3>2. d * d \in Nat /\ d * e \in Nat /\ e * d \in Nat
        BY Products
      <3> QED BY <2>3, <3>1, <3>2
    <2>6. q \in 2 .. d - 1 /\ q \in Nat \ {0}
      BY <2>3, <2>4, <2>5
    <2>7. m % q = 0
      <3>1. q * e + 0 = m /\ 0 \in 0 .. q - 1 /\ e \in Nat
        BY <2>3, <2>6
      <3>2. (q * e + 0) % q = 0
        <4> HIDE <2>3
        <4> QED BY <2>6, <3>1, Quotient
      <3> QED BY <3>1, <3>2
    <2> QED BY <2>6, <2>7
  <1> QED BY <1>1, <1>2 DEF IsPrime

(* A word has an even number of values, four at least. *)
LEMMA WordFact ==
  /\ ULONG_MAX \in Nat /\ ULONG_MAX >= 3 /\ ULONG_MAX % 2 = 1
  /\ Power(2, WIDTH) = ULONG_MAX + 1
  /\ PyLong_BASE \in Nat /\ PyLong_BASE > 0
  <1>1. WIDTH \in Nat /\ WIDTH > 1 /\ SHIFT \in Nat /\ WIDTH - 2 \in Nat
    BY WordsAssumption
  <1>2. Power(2, WIDTH - 2) \in Nat /\ Power(2, WIDTH - 2) > 0
    BY <1>1, PowerPositive
  <1>3. Power(2, WIDTH - 1) = Power(2, WIDTH - 2) * 2
    BY <1>1, PowerFact
  <1>4. Power(2, WIDTH) = Power(2, WIDTH - 1) * 2
    <2>1. WIDTH - 1 \in Nat /\ (WIDTH - 1) + 1 = WIDTH
      BY <1>1
    <2> QED BY <2>1, PowerFact
  <1>5. Power(2, SHIFT) \in Nat /\ Power(2, SHIFT) > 0
    BY <1>1, PowerPositive
  <1> QED BY <1>2, <1>3, <1>4, <1>5 DEF ULONG_MAX, PyLong_BASE

LEMMA StrtoulFact ==
  ASSUME NEW value \in Int
  PROVE  Strtoul(value) \in 0 .. ULONG_MAX
  BY WordFact DEF Strtoul
-----------------------------------------------------------------------------
(* prime_factors.                                                          *)

LEMMA BlocksFact ==
  ASSUME NEW k \in Nat
  PROVE  /\ <<"value", k + 1>> \notin Blocks(k) /\ <<"node", k + 1>> \notin Blocks(k)
         /\ Blocks(k + 1) = (Blocks(k) \cup {<<"value", k + 1>>}) \cup {<<"node", k + 1>>}
         /\ Free(ListDestroy(Blocks(k)), FactorList) = {}
  <1>1. \A j : NodeBlocks(j) = {<<"value", j>>, <<"node", j>>}
    BY DEF NodeBlocks
  <1>2. \A b : b \in Blocks(k) <=>
                 b = <<"list", 0>> \/ \E j \in 1 .. k : b = <<"value", j>> \/ b = <<"node", j>>
    BY <1>1 DEF Blocks, FactorList
  <1>3. \A b : b \in Blocks(k + 1) <=>
                 b = <<"list", 0>> \/ \E j \in 1 .. k + 1 : b = <<"value", j>> \/ b = <<"node", j>>
    BY <1>1 DEF Blocks, FactorList
  <1>4. \A j \in 1 .. k + 1 : j = k + 1 \/ j \in 1 .. k
    OBVIOUS
  <1>5. \A j \in 1 .. k : j # k + 1 /\ j \in 1 .. k + 1
    OBVIOUS
  <1>6. k + 1 \in 1 .. k + 1
    OBVIOUS
  <1>7. <<"value", k + 1>> \notin Blocks(k) /\ <<"node", k + 1>> \notin Blocks(k)
    BY <1>2, <1>5
  <1>8. Blocks(k + 1) = (Blocks(k) \cup {<<"value", k + 1>>}) \cup {<<"node", k + 1>>}
    BY <1>2, <1>3, <1>4, <1>5, <1>6
  <1>9. Free(ListDestroy(Blocks(k)), FactorList) = {}
    BY <1>2 DEF Free, ListDestroy, FactorList
  <1> QED BY <1>7, <1>8, <1>9

LEMMA PushFact ==
  ASSUME IInv, fn = "prime_factors", pc \in Counting, NEW factor \in Nat, NEW rest, NEW next,
         Push(factor, rest, next)
  PROVE  \/ /\ pc' = next /\ n' = rest /\ out' = Append(out, factor)
            /\ out' \in Seq(Nat) /\ held' = Blocks(Len(out')) /\ IsFiniteSet(held')
            /\ Cardinality(held') = 2 * Len(out') + 1 /\ Len(out') <= MEMORY
            /\ held' \subseteq {FactorList} \cup ({"value", "node"} \X (1 .. MEMORY))
         \/ pc' = "NULL" /\ held' = {} /\ UNCHANGED <<n, out>>
         \/ pc' = "fault" /\ UNCHANGED <<held, n, out>>
  <1> DEFINE k == Len(out)
  <1>1. /\ out \in Seq(Nat) /\ held = Blocks(k) /\ IsFiniteSet(held)
        /\ Cardinality(held) = 2 * k + 1 /\ k <= MEMORY /\ k \in Nat
    <2>1. out \in Seq(Nat) => Len(out) \in Nat
      OBVIOUS
    <2> QED BY <2>1 DEF IInv, ListInv
  <1>2. CASE /\ Cardinality(held) + 2 <= MEMORY
             /\ held' = held \cup NodeBlocks(k + 1) /\ out' = ListAdd(out, factor)
             /\ n' = rest /\ Goto(next)
    <2>1. out' = Append(out, factor) /\ out' \in Seq(Nat) /\ Len(out') = k + 1
      BY <1>1, <1>2 DEF ListAdd
    <2>2. held' = (held \cup {<<"value", k + 1>>}) \cup {<<"node", k + 1>>}
      BY <1>2 DEF NodeBlocks
    <2> HIDE DEF k
    <2>3. held' = Blocks(k + 1)
      BY <1>1, <2>2, BlocksFact
    <2>4. <<"value", k + 1>> \notin held
      BY <1>1, BlocksFact
    <2>5. <<"node", k + 1>> \notin held \cup {<<"value", k + 1>>}
      BY <1>1, BlocksFact
    <2>6. \A S, b : IsFiniteSet(S) /\ b \notin S =>
                     IsFiniteSet(S \cup {b}) /\ Cardinality(S \cup {b}) = Cardinality(S) + 1
      BY FS_AddElement
    <2>7. IsFiniteSet(held') /\ Cardinality(held') = 2 * k + 3
      <3>1. PICK b : b = <<"value", k + 1>>
        OBVIOUS
      <3>2. PICK c : c = <<"node", k + 1>>
        OBVIOUS
      <3>3. IsFiniteSet(held \cup {b}) /\ Cardinality(held \cup {b}) = 2 * k + 1 + 1
        BY <1>1, <2>4, <2>6, <3>1
      <3>4. /\ IsFiniteSet((held \cup {b}) \cup {c})
            /\ Cardinality((held \cup {b}) \cup {c}) = 2 * k + 1 + 1 + 1
        BY <2>5, <2>6, <3>1, <3>2, <3>3
      <3>5. held' = (held \cup {b}) \cup {c}
        BY <2>2, <3>1, <3>2
      <3> QED BY <1>1, <3>4, <3>5
    <2>8. MEMORY \in Nat
      BY WordsAssumption
    <2>9. k + 1 <= MEMORY /\ k + 1 \in 1 .. MEMORY
      BY <1>1, <1>2, <2>8
    <2>10. held' \subseteq {FactorList} \cup ({"value", "node"} \X (1 .. MEMORY))
      <3>1. held \subseteq {FactorList} \cup ({"value", "node"} \X (1 .. MEMORY))
        <4>1. \A j \in 1 .. k : NodeBlocks(j) \subseteq {"value", "node"} \X (1 .. MEMORY)
          BY <1>1, <2>8 DEF NodeBlocks
        <4> QED BY <1>1, <4>1 DEF Blocks
      <3> QED BY <2>2, <2>9, <3>1
    <2> QED BY <1>1, <1>2, <2>1, <2>3, <2>7, <2>9, <2>10 DEF Goto
  <1>3. CASE /\ held' = Free(ListDestroy(held), FactorList)
             /\ Goto("NULL") /\ UNCHANGED <<n, out>>
    <2>1. held' = {}
      BY <1>1, <1>3, BlocksFact
    <2> QED BY <1>3, <2>1 DEF Goto
  <1>4. CASE Cardinality(held) < MEMORY /\ Goto("fault") /\ UNCHANGED <<held, n, out>>
    BY <1>4 DEF Goto
  <1> QED BY <1>2, <1>3, <1>4 DEF Push

LEMMA FactorAdded ==
  ASSUME NEW list \in Seq(Nat), NEW limit \in Nat, NEW x \in Nat,
         Factors(list, limit), limit <= x
  PROVE  Factors(list, x) /\ (IsPrime(x) => Factors(Append(list, x), x))
  <1> DEFINE more == Append(list, x)
  <1>1. /\ DOMAIN list = 1 .. Len(list) /\ Len(list) \in Nat
        /\ DOMAIN more = 1 .. Len(list) + 1
        /\ more[Len(list) + 1] = x /\ \A k \in 1 .. Len(list) : more[k] = list[k]
        /\ \A k \in 1 .. Len(list) : list[k] \in Nat
    OBVIOUS
  <1>2. Factors(list, x)
    BY <1>1 DEF Factors
  <1>3. ASSUME IsPrime(x) PROVE Factors(more, x)
    <2> HIDE DEF more
    <2>1. ASSUME NEW k \in DOMAIN more PROVE IsPrime(more[k]) /\ more[k] <= x
      <3>1. k = Len(list) + 1 \/ k \in 1 .. Len(list)
        BY <1>1
      <3> QED BY <1>1, <1>2, <1>3, <3>1 DEF Factors
    <2>2. ASSUME NEW k \in DOMAIN more, k > 1 PROVE more[k - 1] <= more[k]
      <3>1. k - 1 \in 1 .. Len(list) /\ (k = Len(list) + 1 \/ k \in 1 .. Len(list))
        BY <1>1, <2>2
      <3> QED BY <1>1, <1>2, <2>2, <3>1 DEF Factors
    <2> QED BY <2>1, <2>2 DEF Factors
  <1> QED BY <1>2, <1>3

(* A product of primes is not zero. *)
LEMMA ProductPositive ==
  ASSUME NEW list \in Seq(Nat), \A k \in DOMAIN list : list[k] > 0
  PROVE  Product(list) > 0
  <1>1. PICK p \in [0 .. Len(list) -> Nat] : ProductTo(list, p) /\ Product(list) = p[Len(list)]
    BY ProductIs
  <1> DEFINE N == Len(list)
             S == {k \in 0 .. N : p[k] > 0}
  <1>2. N \in Nat /\ \A k \in 1 .. N : list[k] \in Nat /\ list[k] > 0
    OBVIOUS
  <1>3. \A k \in 0 .. N : p[k] = IF k = 0 THEN 1 ELSE p[k - 1] * list[k]
    BY <1>1 DEF ProductTo
  <1> HIDE DEF N
  <1>4. 0 \in S
    BY <1>2, <1>3
  <1>5. ASSUME NEW k \in 1 .. N, k - 1 \in S PROVE k \in S
    <2>1. p[k] = p[k - 1] * list[k] /\ p[k - 1] > 0
      BY <1>2, <1>3, <1>5
    <2>2. p[k - 1] \in Nat /\ list[k] \in Nat /\ list[k] > 0 /\ p[k] \in Nat
      BY <1>1, <1>2, <1>5 DEF N
    <2>3. p[k - 1] <= p[k - 1] * list[k]
      BY <2>2, Products
    <2> QED BY <2>1, <2>2, <2>3
  <1> HIDE DEF S
  <1>6. \A k \in 0 .. N : k \in S
    BY <1>2, <1>4, <1>5, Induction
  <1>7. N \in S
    BY <1>2, <1>6
  <1> QED BY <1>1, <1>7 DEF N, S

Stays == fn' = fn /\ arg' = arg /\ size' = size

LEMMA OthersInv ==
  ASSUME IInv, fn = "prime_factors", Stays, pc' # "overflow"
  PROVE  ArgumentInv' /\ NumberInv' /\ HeaderInv' /\ DumpInv'
  BY DEF IInv, Stays, ArgumentInv, NumberInv, HeaderInv, DumpInv

LEMMA PushInv ==
  ASSUME IInv, fn = "prime_factors", pc \in Counting, NEW factor \in Nat,
         NEW rest \in 0 .. ULONG_MAX, NEW next \in Counting \cup {"return"},
         Push(factor, rest, next), Stays, i' = i
  PROVE  TypeOK' /\ ArgumentInv' /\ ListInv' /\ NumberInv' /\ HeaderInv' /\ DumpInv'
  <1>1. \/ /\ pc' = next /\ n' = rest /\ out' \in Seq(Nat) /\ held' = Blocks(Len(out'))
           /\ IsFiniteSet(held') /\ Cardinality(held') = 2 * Len(out') + 1
           /\ Len(out') <= MEMORY
           /\ held' \subseteq {FactorList} \cup ({"value", "node"} \X (1 .. MEMORY))
        \/ pc' = "NULL" /\ held' = {} /\ UNCHANGED <<n, out>>
        \/ pc' = "fault" /\ UNCHANGED <<held, n, out>>
    BY PushFact
  <1>2. pc' \in {"two", "odd", "divide", "last", "return", "NULL", "fault"}
    BY <1>1 DEF Counting
  <1>3. TypeOK'
    BY <1>1, <1>2 DEF IInv, TypeOK, Stays, Ended
  <1>4. arg.text = "number"
    BY DEF IInv, ListInv
  <1>5. ListInv'
    BY <1>1, <1>2, <1>4 DEF ListInv, Stays, Counting
  <1> QED BY <1>2, <1>3, <1>5, OthersInv

LEMMA HalveInv ==
  ASSUME IInv, Halve PROVE IInv'
  <1>1. /\ fn = "prime_factors" /\ pc = "two" /\ Stays /\ i' = i /\ n % 2 = 0
        /\ Push(2, n \div 2, "two")
    BY DEF Halve, Running, Stays
  <1>2. out \in Seq(Nat) /\ n \in 0 .. ULONG_MAX /\ pc \in Counting
    BY <1>1 DEF IInv, TypeOK, ListInv, Counting
  <1>3. Product(out) * n = Strtoul(arg.value) /\ Factors(out, 2)
    BY <1>1, <1>2 DEF IInv, DivisorInv
  <1>4. PICK h \in 0 .. ULONG_MAX : h = n \div 2 /\ n = 2 * h
    BY <1>1, <1>2, WordFact
  <1>5. TypeOK' /\ ArgumentInv' /\ ListInv' /\ NumberInv' /\ HeaderInv' /\ DumpInv'
    BY <1>1, <1>2, <1>4, PushInv DEF Counting
  <1>6. \/ pc' = "two" /\ n' = h /\ out' = Append(out, 2)
        \/ pc' \in {"NULL", "fault"}
    BY <1>1, <1>2, <1>4, PushFact
  <1>7. DivisorInv'
    <2> SUFFICES ASSUME pc' = "two" PROVE DivisorInv'
      BY <1>6 DEF DivisorInv, Counting
    <2>1. n' = h /\ out' = Append(out, 2)
      BY <1>6
    <2>2. Product(Append(out, 2)) = Product(out) * 2 /\ Product(out) \in Nat
      BY <1>2, ProductFact
    <2>3. PICK a \in Nat : a = Product(out)
      BY <2>2
    <2>4. (a * 2) * h = a * (2 * h)
      BY <1>4
    <2>5. Product(out') * n' = Strtoul(arg.value)
      BY <1>3, <1>4, <2>1, <2>2, <2>3, <2>4
    <2>6. IsPrime(2)
      BY DEF IsPrime
    <2>7. Factors(out', 2)
      BY <1>2, <1>3, <2>1, <2>6, FactorAdded
    <2> QED BY <1>1, <2>5, <2>7 DEF DivisorInv, Stays
  <1>8. FactorsRight'
    BY <1>6 DEF FactorsRight
  <1> QED BY <1>5, <1>7, <1>8 DEF IInv

(* A step that only moves on. *)
LEMMA MoveInv ==
  ASSUME IInv, fn = "prime_factors", pc \in Counting, Stays,
         UNCHANGED <<n, held, out>>, i' \in Nat, pc' \in Counting \cup {"return"}
  PROVE  TypeOK' /\ ArgumentInv' /\ ListInv' /\ NumberInv' /\ HeaderInv' /\ DumpInv'
  <1>1. pc' \in {"two", "odd", "divide", "last", "return"}
    BY DEF Counting
  <1>2. TypeOK'
    BY <1>1 DEF IInv, TypeOK, Stays, Ended
  <1>3. ListInv'
    BY <1>1 DEF IInv, ListInv, Stays, Counting
  <1> QED BY <1>1, <1>2, <1>3, OthersInv

LEMMA FirstOddInv ==
  ASSUME IInv, FirstOdd PROVE IInv'
  <1>1. /\ fn = "prime_factors" /\ pc = "two" /\ Stays /\ i' = 3 /\ n % 2 # 0 /\ pc' = "odd"
        /\ UNCHANGED <<n, held, out>>
    BY DEF FirstOdd, Running, Stays, Goto
  <1>2. out \in Seq(Nat) /\ n \in 0 .. ULONG_MAX
    BY <1>1 DEF IInv, TypeOK, ListInv, Counting
  <1>3. Product(out) * n = Strtoul(arg.value) /\ Factors(out, 2)
    BY <1>1 DEF IInv, DivisorInv, Counting
  <1>4. TypeOK' /\ ArgumentInv' /\ ListInv' /\ NumberInv' /\ HeaderInv' /\ DumpInv'
    BY <1>1, MoveInv DEF Counting
  <1>5. DivisorInv'
    <2>1. Factors(out, 3)
      BY <1>2, <1>3, FactorAdded
    <2>2. n % 2 = 1 /\ 3 % 2 = 1 /\ 3 <= ULONG_MAX /\ \A d \in 2 .. 3 - 1 : n % d # 0
      <3>1. n % 2 = 1
        BY <1>1, <1>2, WordFact
      <3>2. \A d \in 2 .. 3 - 1 : d = 2
        OBVIOUS
      <3> QED BY <1>1, <3>1, <3>2, WordFact
    <2> QED BY <1>1, <1>3, <2>1, <2>2 DEF DivisorInv, Stays
  <1>6. FactorsRight'
    BY <1>1 DEF FactorsRight
  <1> QED BY <1>4, <1>5, <1>6 DEF IInv

LEMMA TryDivisorInv ==
  ASSUME IInv, TryDivisor PROVE IInv'
  <1>1. /\ fn = "prime_factors" /\ pc = "odd" /\ Stays /\ UNCHANGED <<n, i, held, out>>
        /\ pc' = IF SquareFits(i) THEN "divide" ELSE "last"
    BY DEF TryDivisor, Running, Stays, Goto
  <1>2. n \in 0 .. ULONG_MAX /\ i \in Nat
    BY DEF IInv, TypeOK
  <1>3. TypeOK' /\ ArgumentInv' /\ ListInv' /\ NumberInv' /\ HeaderInv' /\ DumpInv'
    BY <1>1, <1>2, MoveInv DEF Counting
  <1>4. ASSUME ~ SquareFits(i) PROVE i * i > n /\ i # 1
    <2>1. i * i \in Nat /\ ULONG_MAX + 1 \in Nat /\ ULONG_MAX + 1 > 0 /\ ULONG_MAX >= 3
      BY <1>2, WordFact, Products
    <2>0. PICK s \in Nat : s = i * i
      BY <2>1
    <2>2. PICK m \in Nat \ {0} : m = ULONG_MAX + 1
      BY <2>1
    <2>3. s % m > n
      <3>1. s % m \in Nat
        BY <2>2
      <3> QED BY <1>2, <1>4, <2>0, <2>1, <2>2, <3>1 DEF SquareFits
    <2>4. s % m <= s /\ s % m \in Nat
      <3>1. s % m \in Nat /\ s \div m \in Nat /\ s = (s \div m) * m + (s % m)
        <4>1. /\ s \div m \in Nat /\ s % m \in 0 .. m - 1
              /\ s = (s \div m) * m + (s % m)
          BY Division, Zenon
        <4> QED BY <4>1
      <3>2. (s \div m) * m \in Nat
        BY <3>1, Products
      <3> QED BY <3>1, <3>2
    <2>5. i * i > n
      BY <1>2, <2>0, <2>3, <2>4
    <2>6. i # 1
      <3> SUFFICES ASSUME i = 1 PROVE FALSE
        OBVIOUS
      <3>1. n = 1
        BY <1>1 DEF IInv, DivisorInv, Counting
      <3> QED BY <2>5, <3>1
    <2> QED BY <2>5, <2>6
  <1>5. DivisorInv'
    BY <1>1, <1>4 DEF IInv, DivisorInv, Counting, Stays
  <1>6. FactorsRight'
    BY <1>1 DEF FactorsRight
  <1> QED BY <1>3, <1>5, <1>6 DEF IInv

LEMMA DivideInv ==
  ASSUME IInv, Divide PROVE IInv'
  <1>1. /\ fn = "prime_factors" /\ pc = "divide" /\ Stays /\ i' = i /\ n % i = 0
        /\ Push(i, n \div i, "divide")
    BY DEF Divide, Running, Stays
  <1>2. /\ out \in Seq(Nat) /\ n \in 0 .. ULONG_MAX /\ pc \in Counting
        /\ i \in Nat /\ ULONG_MAX \in Nat
    BY <1>1, WordFact DEF IInv, TypeOK, ListInv, Counting
  <1>3. /\ Product(out) * n = Strtoul(arg.value)
        /\ n % 2 = 1 /\ i % 2 = 1 /\ i <= ULONG_MAX
        /\ \A d \in 2 .. i - 1 : n % d # 0
        /\ IF i = 1 THEN n = 1 ELSE Factors(out, i)
    BY <1>1 DEF IInv, DivisorInv, Counting
  <1>4. i > 0 /\ i # 2
    BY <1>2, <1>3
  <1>5. PICK h \in 0 .. ULONG_MAX : h = n \div i /\ n = h * i
    <2>0. n \in Nat /\ i \in Nat \ {0}
      BY <1>2, <1>4
    <2>1. n = (n \div i) * i + 0 /\ n \div i \in Nat
      BY <1>1, <2>0, Division, Zenon
    <2>2. PICK h \in Nat : h = n \div i
      BY <2>1
    <2>3. n = h * i + 0
      BY <2>1, <2>2, Zenon
    <2>4. h <= h * i /\ h * i \in Nat
      BY <1>2, <1>4, Products
    <2>5. n = h * i /\ h \in 0 .. ULONG_MAX
      BY <1>2, <2>3, <2>4
    <2> QED BY <2>2, <2>5
  <1>6. TypeOK' /\ ArgumentInv' /\ ListInv' /\ NumberInv' /\ HeaderInv' /\ DumpInv'
    BY <1>1, <1>2, <1>5, PushInv DEF Counting
  <1>7. \/ pc' = "divide" /\ n' = h /\ out' = Append(out, i)
        \/ pc' \in {"NULL", "fault"}
    BY <1>1, <1>2, <1>5, PushFact
  <1>8. DivisorInv'
    <2> SUFFICES ASSUME pc' = "divide" PROVE DivisorInv'
      BY <1>7 DEF DivisorInv, Counting
    <2>1. n' = h /\ out' = Append(out, i)
      BY <1>7
    <2>2. Product(Append(out, i)) = Product(out) * i /\ Product(out) \in Nat
      BY <1>2, ProductFact
    <2>3. PICK a \in Nat : a = Product(out)
      BY <2>2
    <2>4. (a * i) * h = a * (h * i)
      BY <1>2
    <2>5. Product(out') * n' = Strtoul(arg.value)
      BY <1>3, <1>5, <2>1, <2>2, <2>3, <2>4
    <2>6. \A e \in Nat \ {0} : n % e # 0 => h % e # 0
      <3>1. n \in Nat /\ i \in Nat \ {0}
        BY <1>2, <1>4
      <3> QED BY <1>1, <1>5, <3>1, QuotientKeeps, Zenon
    <2>7. h % 2 = 1 /\ \A d \in 2 .. i - 1 : h % d # 0
      <3>1. \A d \in 2 .. i - 1 : d \in Nat \ {0}
        OBVIOUS
      <3>2. \A d \in 2 .. i - 1 : h % d # 0
        BY <1>3, <2>6, <3>1, Zenon
      <3>3. n % 2 # 0 /\ 2 \in Nat \ {0}
        BY <1>3
      <3>4. h % 2 # 0
        BY <2>6, <3>3, Zenon
      <3>5. h \in Nat
        BY <1>2
      <3> QED BY <3>2, <3>4, <3>5
    <2>8. CASE i = 1
      <3>1. h = 1
        BY <1>3, <1>5, <2>8
      <3> QED BY <1>1, <1>3, <2>1, <2>5, <2>7, <2>8, <3>1 DEF DivisorInv, Stays
    <2>9. CASE i # 1
      <3>1. IsPrime(i)
        <4>1. n \in Nat /\ i \in Nat /\ i > 1
          BY <1>2, <1>4, <2>9
        <4> QED BY <1>1, <1>3, <4>1, LeastDivisor, Zenon
      <3>2. Factors(out', i)
        BY <1>2, <1>3, <2>1, <2>9, <3>1, FactorAdded
      <3> QED BY <1>1, <1>3, <2>1, <2>5, <2>7, <2>9, <3>2 DEF DivisorInv, Stays
    <2> QED BY <2>8, <2>9
  <1>9. FactorsRight'
    BY <1>7 DEF FactorsRight
  <1> QED BY <1>6, <1>8, <1>9 DEF IInv

(* The next odd divisor, which is 1 again after the last of a word. *)
LEMMA NextOddFact ==
  ASSUME NEW d \in Nat, d % 2 = 1, d <= ULONG_MAX
  PROVE  /\ NextOdd(d) \in Nat /\ NextOdd(d) % 2 = 1 /\ NextOdd(d) <= ULONG_MAX
         /\ IF d = ULONG_MAX THEN NextOdd(d) = 1 ELSE NextOdd(d) = d + 2
  <1>1. PICK m \in Nat : m = ULONG_MAX /\ m >= 3 /\ m % 2 = 1
    BY WordFact
  <1>2. NextOdd(d) = (d + 2) % (m + 1)
    BY <1>1 DEF NextOdd
  <1>3. CASE d = m
    <2>1. m + 1 \in Nat \ {0} /\ 1 \in Nat /\ 1 \in 0 .. (m + 1) - 1
      BY <1>1
    <2>2. ((m + 1) * 1 + 1) % (m + 1) = 1
      BY <2>1, Quotient
    <2>3. (m + 1) * 1 + 1 = d + 2
      BY <1>3
    <2> QED BY <1>1, <1>2, <1>3, <2>2, <2>3
  <1>4. CASE d # m
    <2>1. d + 2 <= m
      BY <1>1, <1>4
    <2>2. m + 1 \in Nat \ {0} /\ 0 \in Nat /\ d + 2 \in 0 .. (m + 1) - 1
      BY <1>1, <2>1
    <2>3. ((m + 1) * 0 + (d + 2)) % (m + 1) = d + 2
      BY <2>2, Quotient
    <2>4. (m + 1) * 0 + (d + 2) = d + 2
      BY <1>1
    <2>5. NextOdd(d) = d + 2
      BY <1>2, <2>3, <2>4
    <2> QED BY <1>1, <1>4, <2>1, <2>5
  <1> QED BY <1>3, <1>4

LEMMA NextDivisorInv ==
  ASSUME IInv, NextDivisor PROVE IInv'
  <1>1. /\ fn = "prime_factors" /\ pc = "divide" /\ Stays /\ i' = NextOdd(i) /\ n % i # 0
        /\ pc' = "odd" /\ UNCHANGED <<n, held, out>>
    BY DEF NextDivisor, Running, Stays, Goto
  <1>2. /\ out \in Seq(Nat) /\ n \in Nat /\ n <= ULONG_MAX
        /\ i \in Nat /\ ULONG_MAX \in Nat
    BY <1>1, WordFact DEF IInv, TypeOK, ListInv, Counting
  <1>3. /\ Product(out) * n = Strtoul(arg.value)
        /\ n % 2 = 1 /\ i % 2 = 1 /\ i <= ULONG_MAX
        /\ \A d \in 2 .. i - 1 : n % d # 0
        /\ IF i = 1 THEN n = 1 ELSE Factors(out, i)
    BY <1>1 DEF IInv, DivisorInv, Counting
  <1>4. i # 1
    BY <1>1, <1>3
  <1>5. /\ i' \in Nat /\ i' % 2 = 1 /\ i' <= ULONG_MAX
        /\ IF i = ULONG_MAX THEN i' = 1 ELSE i' = i + 2
    BY <1>1, <1>2, <1>3, NextOddFact
  <1>6. TypeOK' /\ ArgumentInv' /\ ListInv' /\ NumberInv' /\ HeaderInv' /\ DumpInv'
    BY <1>1, <1>5, MoveInv DEF Counting
  <1>7. DivisorInv'
    <2>1. CASE i = ULONG_MAX
      <3>1. n = 1
        <4> SUFFICES ASSUME n # 1 PROVE FALSE
          OBVIOUS
        <4>1. n >= 2
          BY <1>2, <1>3
        <4>2. n % n = 0
          <5>1. n \in Nat \ {0} /\ 1 \in Nat /\ 0 \in 0 .. n - 1 /\ n * 1 + 0 = n
            BY <1>2, <4>1
          <5>2. (n * 1 + 0) % n = 0
            BY <5>1, Quotient
          <5> QED BY <5>1, <5>2
        <4>3. n \in 2 .. i - 1 \/ n = i
          BY <1>2, <2>1, <4>1
        <4> QED BY <1>1, <1>3, <4>2, <4>3
      <3>2. \A d \in 2 .. 1 - 1 : n % d # 0
        OBVIOUS
      <3> QED BY <1>1, <1>3, <1>5, <2>1, <3>1, <3>2 DEF DivisorInv, Stays
    <2>2. CASE i # ULONG_MAX
      <3>1. i' = i + 2
        BY <1>5, <2>2
      <3>2. Factors(out, i + 2)
        BY <1>2, <1>3, <1>4, FactorAdded
      <3>3. n % (i + 1) # 0
        <4> SUFFICES ASSUME n % (i + 1) = 0 PROVE FALSE
          OBVIOUS
        <4>1. PICK h \in Nat : h > 0 /\ i + 1 = 2 * h
          <5>1. i \div 2 \in Nat /\ i = 2 * (i \div 2) + 1
            BY <1>2, <1>3
          <5>2. PICK h \in Nat : i = 2 * h + 1
            BY <5>1
          <5>3. h + 1 \in Nat /\ h + 1 > 0 /\ i + 1 = 2 * (h + 1)
            BY <5>2
          <5> QED BY <5>3
        <4>2. i + 1 \in Nat \ {0}
          BY <1>2
        <4>3. /\ n = (n \div (i + 1)) * (i + 1) + (n % (i + 1))
              /\ n \div (i + 1) \in Nat
          BY <1>2, <4>2, Division, Zenon
        <4>4. PICK q \in Nat : n = q * (2 * h) + 0
          BY <4>1, <4>3, Zenon
        <4>5. n = 2 * (q * h) /\ q * h \in Nat
          BY <4>4, Products
        <4>6. PICK k \in Nat : n = 2 * k
          BY <4>5
        <4> QED BY <1>3, <4>6
      <3>4. ASSUME NEW d \in 2 .. i + 2 - 1 PROVE n % d # 0
        <4>1. d \in 2 .. i - 1 \/ d = i \/ d = i + 1
          BY <1>2
        <4> QED BY <1>1, <1>3, <3>3, <4>1
      <3> QED BY <1>1, <1>2, <1>3, <1>5, <3>1, <3>2, <3>4 DEF DivisorInv, Stays
    <2> QED BY <2>1, <2>2
  <1>8. FactorsRight'
    BY <1>1 DEF FactorsRight
  <1> QED BY <1>6, <1>7, <1>8 DEF IInv

(* A list of prime factors of a number is the right one. *)
LEMMA ListIsRight ==
  ASSUME out' \in Seq(Nat), NEW limit \in Nat, Factors(out', limit),
         Product(out') = Strtoul(arg.value), arg' = arg, arg.text = "number"
  PROVE  FactorsRight'
  <1>1. \A k \in DOMAIN out' : IsPrime(out'[k]) /\ (k > 1 => out'[k - 1] <= out'[k])
    BY DEF Factors
  <1>2. \A k \in DOMAIN out' : out'[k] > 0
    <2>1. \A k \in DOMAIN out' : out'[k] \in Nat /\ out'[k] > 1
      BY <1>1 DEF IsPrime
    <2> QED BY <2>1
  <1>3. Product(out') > 0
    <2>1. PICK list \in Seq(Nat) : list = out'
      OBVIOUS
    <2> QED BY <1>2, <2>1, ProductPositive
  <1>4. Strtoul(arg.value) > 0
    BY <1>3
  <1> QED BY <1>1, <1>4 DEF FactorsRight

LEMMA LastFactorInv ==
  ASSUME IInv, LastFactor PROVE IInv'
  <1>1. /\ fn = "prime_factors" /\ pc = "last" /\ Stays /\ i' = i
        /\ \/ n > 1 /\ Push(n, n, "return")
           \/ n <= 1 /\ pc' = "return" /\ UNCHANGED <<held, out, n>>
    BY DEF LastFactor, Running, Stays, Goto
  <1>2. /\ out \in Seq(Nat) /\ n \in Nat /\ n <= ULONG_MAX /\ n \in 0 .. ULONG_MAX
        /\ i \in Nat /\ pc \in Counting /\ ULONG_MAX \in Nat
    BY <1>1, WordFact DEF IInv, TypeOK, ListInv, Counting
  <1>3. /\ Product(out) * n = Strtoul(arg.value) /\ n % 2 = 1 /\ arg.text = "number"
        /\ \A d \in 2 .. i - 1 : n % d # 0
        /\ i * i > n /\ Factors(out, i)
    BY <1>1 DEF IInv, DivisorInv, ListInv, Counting
  <1>4. Product(out) \in Nat
    BY <1>2, ProductFact
  <1>5. CASE n > 1 /\ Push(n, n, "return")
    <2>1. TypeOK' /\ ArgumentInv' /\ ListInv' /\ NumberInv' /\ HeaderInv' /\ DumpInv'
      BY <1>1, <1>2, <1>5, PushInv
    <2>2. \/ pc' = "return" /\ out' = Append(out, n)
          \/ pc' \in {"NULL", "fault"}
      BY <1>1, <1>2, <1>5, PushFact
    <2>3. DivisorInv'
      BY <2>2 DEF DivisorInv, Counting
    <2>4. CASE pc' = "return"
      <3>1. IsPrime(n) /\ i <= n
        BY <1>2, <1>3, <1>5, NoDivisor, Zenon
      <3>2. Factors(out', n)
        BY <1>2, <1>3, <2>2, <2>4, <3>1, FactorAdded
      <3>3. Product(out') = Strtoul(arg.value) /\ out' \in Seq(Nat)
        <4>1. out' = Append(out, n)
          BY <2>2, <2>4
        <4>2. Product(Append(out, n)) = Product(out) * n
          BY <1>2, ProductFact
        <4> QED BY <1>2, <1>3, <4>1, <4>2
      <3>4. FactorsRight'
        BY <1>1, <1>2, <1>3, <3>2, <3>3, ListIsRight DEF Stays
      <3> QED BY <2>1, <2>3, <3>4 DEF IInv
    <2>5. CASE pc' \in {"NULL", "fault"}
      <3>1. FactorsRight'
        BY <2>5 DEF FactorsRight
      <3> QED BY <2>1, <2>3, <3>1 DEF IInv
    <2> QED BY <2>2, <2>4, <2>5
  <1>6. CASE n <= 1 /\ pc' = "return" /\ UNCHANGED <<held, out, n>>
    <2>1. TypeOK' /\ ArgumentInv' /\ ListInv' /\ NumberInv' /\ HeaderInv' /\ DumpInv'
      BY <1>1, <1>2, <1>6, MoveInv
    <2>2. DivisorInv'
      BY <1>6 DEF DivisorInv, Counting
    <2>3. n = 1
      BY <1>2, <1>3, <1>6
    <2>4. Product(out) = Strtoul(arg.value)
      BY <1>3, <1>4, <2>3
    <2>5. FactorsRight'
      BY <1>1, <1>2, <1>3, <1>6, <2>4, ListIsRight DEF Stays
    <2> QED BY <2>1, <2>2, <2>5 DEF IInv
  <1> QED BY <1>1, <1>5, <1>6

LEMMA PrimeFactorsInv ==
  ASSUME IInv, PrimeFactors PROVE IInv'
  <1>1. /\ fn = "prime_factors" /\ pc = "call" /\ Stays /\ UNCHANGED <<i, out>>
        /\ \/ pc' \in {"fault", "NULL"} /\ UNCHANGED <<n, held>>
           \/ /\ arg.text = "invalid"
              /\ held' = {FactorList} /\ pc' = "return" /\ UNCHANGED n
           \/ /\ arg.text = "number"
              /\ held' = {FactorList} /\ n' = Strtoul(arg.value) /\ pc' = "two"
    BY DEF PrimeFactors, Running, Stays, Goto
  <1>2. held = {} /\ out = <<>> /\ arg.value \in Int /\ MEMORY \in Nat
    BY <1>1, WordsAssumption DEF IInv, ListInv, ArgumentInv, Numerals
  <1>3. out \in Seq(Nat) /\ Len(out) = 0 /\ DOMAIN out = {}
    BY <1>2
  <1>4. /\ {FactorList} = Blocks(0) /\ IsFiniteSet({FactorList})
        /\ Cardinality({FactorList}) = 1
    <2>1. {NodeBlocks(j) : j \in 1 .. 0} = {}
      OBVIOUS
    <2>2. {FactorList} = Blocks(0)
      BY <2>1, Zenon DEF Blocks
    <2> QED BY <2>2, FS_Singleton, Zenon
  <1>5. Strtoul(arg.value) \in 0 .. ULONG_MAX
    BY <1>2, StrtoulFact
  <1>6. TypeOK'
    BY <1>1, <1>5 DEF IInv, TypeOK, Stays, Ended
  <1>7. ListInv'
    <2>1. CASE pc' \in {"fault", "NULL"} /\ UNCHANGED <<n, held>>
      BY <1>1, <1>2, <2>1 DEF ListInv, Stays, Counting
    <2>2. CASE held' = {FactorList} /\ pc' \in {"return", "two"}
      <3>1. held' = Blocks(Len(out')) /\ IsFiniteSet(held') /\ Cardinality(held') = 1
        BY <1>1, <1>3, <1>4, <2>2
      <3>2. out' = <<>> /\ out' \in Seq(Nat) /\ Len(out') = 0
        BY <1>1, <1>2, <1>3
      <3>3. pc' = "two" => arg'.text = "number"
        BY <1>1 DEF Stays
      <3> QED BY <1>2, <2>2, <3>1, <3>2, <3>3 DEF ListInv, Counting
    <2> QED BY <1>1, <2>1, <2>2
  <1>8. DivisorInv'
    <2> SUFFICES ASSUME pc' = "two" PROVE DivisorInv'
      BY <1>1 DEF DivisorInv, Counting
    <2>1. n' = Strtoul(arg.value) /\ out' = <<>>
      BY <1>1, <1>2
    <2>2. Product(<<>>) = 1
      BY <1>3, ProductFact
    <2>3. Product(out') * n' = Strtoul(arg'.value)
      BY <1>1, <1>5, <2>1, <2>2, WordFact DEF Stays
    <2>4. Factors(out', 2)
      BY <1>3, <2>1, <1>2 DEF Factors
    <2> QED BY <2>3, <2>4 DEF DivisorInv
  <1>9. FactorsRight'
    BY <1>1, <1>2 DEF FactorsRight, Stays
  <1>10. ArgumentInv' /\ NumberInv' /\ HeaderInv' /\ DumpInv'
    BY <1>1, OthersInv
  <1> QED BY <1>6, <1>7, <1>8, <1>9, <1>10 DEF IInv
-----------------------------------------------------------------------------
(* print_python_int.                                                       *)

TopsTo(digits, v) ==
  v = [k \in 0 .. Len(digits) |->
         IF k = 0 THEN 0 ELSE v[k - 1] * PyLong_BASE + digits[Len(digits) - k + 1]]

LEMMA TopsFact ==
  ASSUME NEW digits \in Seq(Nat)
  PROVE  /\ Tops(digits) \in [0 .. Len(digits) -> Nat]
         /\ Value(digits) = Tops(digits)[Len(digits)] /\ Value(digits) \in Nat
         /\ Tops(digits)[0] = 0
         /\ \A k \in 1 .. Len(digits) :
              Tops(digits)[k] =
                Tops(digits)[k - 1] * PyLong_BASE + digits[Len(digits) - k + 1]
  <1> DEFINE N == Len(digits)
             g == [j \in 1 .. N |-> [x \in Nat |-> x * PyLong_BASE + digits[N - j + 1]]]
  <1>0. N \in Nat /\ PyLong_BASE \in Nat /\ \A j \in 1 .. N : digits[N - j + 1] \in Nat
    <2>1. N \in Nat /\ \A j \in 1 .. N : digits[j] \in Nat
      OBVIOUS
    <2> HIDE DEF N
    <2>2. \A j \in 1 .. N : N - j + 1 \in 1 .. N
      BY <2>1
    <2> QED BY <2>1, <2>2, WordFact
  <1>1. g \in [1 .. N -> [Nat -> Nat]]
    <2>1. \A j \in 1 .. N, x \in Nat : x * PyLong_BASE + digits[N - j + 1] \in Nat
      BY <1>0, Products
    <2> QED BY <2>1
  <1>2. PICK f \in [0 .. N -> Nat] : Iterates(f, N, 0, g)
    <2> HIDE DEF g, N
    <2>1. 0 \in Nat
      OBVIOUS
    <2> QED BY <1>0, <1>1, <2>1, Recursion
  <1>3. \A j \in 1 .. N, x \in Nat : g[j][x] = x * PyLong_BASE + digits[N - j + 1]
    OBVIOUS
  <1>4. f[0] = 0 /\ \A j \in 1 .. N : f[j] = f[j - 1] * PyLong_BASE + digits[N - j + 1]
    <2> HIDE DEF g, N
    <2>1. \A j \in 1 .. N : f[j] = g[j][f[j - 1]] /\ f[j - 1] \in Nat
      BY <1>0, <1>2 DEF Iterates
    <2>2. f[0] = 0
      BY <1>2 DEF Iterates
    <2> QED BY <1>3, <2>1, <2>2
  <1> HIDE DEF g
  <1>5. TopsTo(digits, f)
    <2>1. \A j \in 0 .. N : j = 0 \/ j \in 1 .. N
      BY <1>0
    <2> QED BY <1>4, <2>1 DEF TopsTo
  <1>6. Tops(digits) = (CHOOSE v : TopsTo(digits, v))
    BY DEF Tops, TopsTo
  <1>7. PICK v : TopsTo(digits, v) /\ Tops(digits) = v
    BY <1>5, <1>6
  <1>8. v[0] = 0 /\ \A j \in 1 .. N : v[j] = v[j - 1] * PyLong_BASE + digits[N - j + 1]
    <2>1. \A j \in 0 .. N : v[j] = IF j = 0 THEN 0 ELSE v[j - 1] * PyLong_BASE + digits[N - j + 1]
      BY <1>7 DEF TopsTo
    <2> HIDE DEF N
    <2>2. 0 \in 0 .. N /\ \A j \in 1 .. N : j \in 0 .. N /\ j # 0
      BY <1>0
    <2> QED BY <2>1, <2>2
  <1>9. \A j \in 0 .. N : v[j] = f[j]
    <2> DEFINE S == {j \in 0 .. N : v[j] = f[j]}
    <2> HIDE DEF N
    <2>1. 0 \in S
      BY <1>0, <1>4, <1>8
    <2>2. \A j \in 1 .. N : j - 1 \in S => j \in S
      BY <1>0, <1>4, <1>8
    <2> HIDE DEF S
    <2>3. \A j \in 0 .. N : j \in S
      BY <1>0, <2>1, <2>2, Induction
    <2> QED BY <2>3 DEF S
  <1>10. v = f
    BY <1>5, <1>7, <1>9 DEF TopsTo
  <1>11. Value(digits) = Tops(digits)[N]
    BY DEF Value, Tops
  <1>12. f[N] \in Nat
    BY <1>0
  <1> QED BY <1>4, <1>7, <1>10, <1>11, <1>12

(* Each further digit makes the number no smaller. *)
LEMMA TopsGrow ==
  ASSUME NEW digits \in Seq(Nat), NEW k \in 0 .. Len(digits)
  PROVE  Tops(digits)[k] <= Value(digits)
  <1> DEFINE N == Len(digits)
             v == Tops(digits)
             S == {m \in Nat : m > N \/ v[N - m] <= Value(digits)}
  <1>0. N \in Nat
    OBVIOUS
  <1>1. /\ v \in [0 .. N -> Nat] /\ Value(digits) = v[N]
        /\ \A j \in 1 .. N : v[j] = v[j - 1] * PyLong_BASE + digits[N - j + 1]
    BY TopsFact
  <1>2. \A j \in 1 .. N : digits[N - j + 1] \in Nat
    <2>1. \A j \in 1 .. N : digits[j] \in Nat
      OBVIOUS
    <2> HIDE DEF N
    <2>2. \A j \in 1 .. N : N - j + 1 \in 1 .. N
      BY <1>0
    <2> QED BY <2>1, <2>2
  <1> HIDE DEF N, v
  <1>3. \A j \in 1 .. N : v[j - 1] <= v[j]
    <2> TAKE j \in 1 .. N
    <2>1. v[j - 1] \in Nat /\ digits[N - j + 1] \in Nat /\ PyLong_BASE \in Nat /\ PyLong_BASE > 0
      BY <1>0, <1>1, <1>2, WordFact
    <2>2. v[j - 1] <= v[j - 1] * PyLong_BASE /\ v[j - 1] * PyLong_BASE \in Nat
      BY <2>1, Products
    <2> QED BY <1>1, <2>1, <2>2
  <1>4. 0 \in S
    BY <1>0, <1>1
  <1>5. ASSUME NEW m \in 1 .. N, m - 1 \in S PROVE m \in S
    <2>1. N - m + 1 \in 1 .. N /\ (N - m + 1) - 1 = N - m /\ N - (m - 1) = N - m + 1
          /\ N - m \in 0 .. N
      BY <1>0
    <2>2. v[N - m] <= v[N - m + 1]
      BY <1>3, <2>1
    <2>3. v[N - m + 1] <= Value(digits)
      BY <1>0, <1>5, <2>1
    <2>4. v[N - m] \in Nat /\ v[N - m + 1] \in Nat /\ Value(digits) \in Nat
      BY <1>0, <1>1, <2>1
    <2> QED BY <2>2, <2>3, <2>4
  <1>6. N - k \in 0 .. N /\ N - (N - k) = k
    BY <1>0 DEF N
  <1>7. N - k \in S
    <2> HIDE DEF S
    <2>1. \A m \in 0 .. N : m \in S
      BY <1>0, <1>4, <1>5, Induction
    <2> QED BY <1>6, <2>1
  <1> QED BY <1>0, <1>6, <1>7 DEF v

(* A number with a highest digit that is not zero is as large as the power *)
(* of that digit.                                                          *)
LEMMA TopsLarge ==
  ASSUME NEW digits \in Seq(Nat), digits # <<>>, digits[Len(digits)] # 0
  PROVE  Power(PyLong_BASE, Len(digits) - 1) <= Value(digits)
  <1> DEFINE N == Len(digits)
             v == Tops(digits)
             S == {m \in Nat : Power(PyLong_BASE, m) <= v[m + 1]}
  <1>0. N \in Nat /\ N > 0 /\ N - 1 \in Nat /\ digits[N] \in Nat
    OBVIOUS
  <1>1. /\ v \in [0 .. N -> Nat] /\ Value(digits) = v[N] /\ v[0] = 0
        /\ \A j \in 1 .. N : v[j] = v[j - 1] * PyLong_BASE + digits[N - j + 1]
    BY TopsFact
  <1>2. \A j \in 1 .. N : digits[N - j + 1] \in Nat
    <2>1. \A j \in 1 .. N : digits[j] \in Nat
      OBVIOUS
    <2> HIDE DEF N
    <2>2. \A j \in 1 .. N : N - j + 1 \in 1 .. N
      BY <1>0
    <2> QED BY <2>1, <2>2
  <1>3. digits[N] # 0
    OBVIOUS
  <1>4. PyLong_BASE \in Nat /\ PyLong_BASE > 0
    BY WordFact
  <1> HIDE DEF N, v
  <1>5. 0 \in S
    <2>1. v[1] = v[1 - 1] * PyLong_BASE + digits[N - 1 + 1]
      BY <1>0, <1>1
    <2>2. v[1 - 1] = 0 /\ digits[N - 1 + 1] = digits[N]
      BY <1>0, <1>1
    <2>3. v[1] = digits[N]
      BY <1>0, <1>4, <2>1, <2>2
    <2>4. Power(PyLong_BASE, 0) = 1
      BY <1>4, PowerFact
    <2> QED BY <1>0, <1>3, <2>3, <2>4
  <1>6. ASSUME NEW m \in 1 .. N - 1, m - 1 \in S PROVE m \in S
    <2>1. m - 1 \in Nat /\ (m - 1) + 1 = m /\ m + 1 \in 1 .. N /\ (m + 1) - 1 = m
          /\ m \in 0 .. N
      BY <1>0
    <2>2. Power(PyLong_BASE, m) = Power(PyLong_BASE, m - 1) * PyLong_BASE
          /\ Power(PyLong_BASE, m - 1) \in Nat
      BY <1>4, <2>1, PowerFact
    <2>3. Power(PyLong_BASE, m - 1) <= v[m]
      BY <1>6, <2>1
    <2>4. v[m] \in Nat /\ v[m + 1] \in Nat /\ digits[N - (m + 1) + 1] \in Nat
      BY <1>1, <1>2, <2>1
    <2>5. v[m + 1] = v[m] * PyLong_BASE + digits[N - (m + 1) + 1]
      BY <1>1, <2>1
    <2>6. Power(PyLong_BASE, m - 1) * PyLong_BASE <= v[m] * PyLong_BASE
      BY <1>4, <2>2, <2>3, <2>4, Products
    <2>7. Power(PyLong_BASE, m - 1) * PyLong_BASE \in Nat /\ v[m] * PyLong_BASE \in Nat
      BY <1>4, <2>2, <2>4, Products
    <2>8. Power(PyLong_BASE, m) <= v[m + 1]
      BY <2>2, <2>4, <2>5, <2>6, <2>7
    <2> QED BY <2>8
  <1>7. N - 1 \in S
    <2> HIDE DEF S
    <2>1. \A m \in 0 .. N - 1 : m \in S
      BY <1>0, <1>5, <1>6, Induction
    <2> QED BY <1>0, <2>1
  <1>8. (N - 1) + 1 = N
    BY <1>0
  <1> QED BY <1>1, <1>7, <1>8 DEF N

(* A number with more digits than a word has room for is too large.        *)
LEMMA TooManyDigits ==
  ASSUME NEW digits \in Seq(Nat), digits # <<>>, digits[Len(digits)] # 0,
         Len(digits) > MaxDigits
  PROVE  Value(digits) > ULONG_MAX
  <1>1. PICK w, s \in Nat \ {0} : w = WIDTH /\ s = SHIFT
    BY WordsAssumption
  <1>2. /\ (w + s - 1) \div s \in Nat /\ (w + s - 1) % s \in 0 .. s - 1
        /\ w + s - 1 = ((w + s - 1) \div s) * s + ((w + s - 1) % s)
    <2>1. w + s - 1 \in Nat
      BY <1>1
    <2> QED BY <1>1, <2>1, Division, Zenon
  <1>3. PICK q \in Nat : q = MaxDigits /\ q * s >= w
    <2>1. PICK q \in Nat : q = (w + s - 1) \div s
      BY <1>2
    <2>2. PICK r \in 0 .. s - 1 : w + s - 1 = q * s + r
      BY <1>2, <2>1
    <2>3. q * s \in Nat
      BY <1>1, Products
    <2>4. q * s >= w
      BY <1>1, <2>2, <2>3
    <2>5. q = MaxDigits
      BY <1>1, <2>1 DEF MaxDigits
    <2> QED BY <2>4, <2>5
  <1>4. Len(digits) \in Nat /\ Len(digits) - 1 \in Nat /\ q <= Len(digits) - 1
    <2>1. Len(digits) \in Nat
      OBVIOUS
    <2> QED BY <1>3, <2>1
  <1>5. Power(PyLong_BASE, q) <= Power(PyLong_BASE, Len(digits) - 1)
    <2>1. PyLong_BASE \in Nat \ {0}
      BY WordFact
    <2> QED BY <1>3, <1>4, <2>1, PowerGrows
  <1>6. Power(PyLong_BASE, q) = Power(2, s * q)
    BY <1>1, PowerPowers DEF PyLong_BASE
  <1>7. Power(2, w) <= Power(2, s * q)
    <2>1. PICK a \in Nat : a = s * q
      BY <1>1, Products
    <2>2. w <= a
      BY <1>1, <1>3, <2>1
    <2>3. Power(2, w) <= Power(2, a)
      BY <1>1, <2>2, PowerGrows
    <2> QED BY <2>1, <2>3
  <1>8. Power(2, w) = ULONG_MAX + 1
    BY <1>1, WordFact
  <1>9. Power(PyLong_BASE, Len(digits) - 1) <= Value(digits)
    BY TopsLarge
  <1>10. /\ Power(PyLong_BASE, Len(digits) - 1) \in Nat /\ Power(PyLong_BASE, q) \in Nat
         /\ Power(2, w) \in Nat /\ Value(digits) \in Nat /\ ULONG_MAX \in Nat
    <2>1. Value(digits) \in Nat
      BY <1>4, TopsFact
    <2>2. PyLong_BASE \in Nat /\ ULONG_MAX \in Nat
      BY WordFact
    <2>3. Power(2, w) \in Nat
      BY <1>1, PowerFact
    <2> QED BY <1>3, <1>4, <2>1, <2>2, <2>3, PowerFact
  <1> QED BY <1>5, <1>6, <1>7, <1>8, <1>9, <1>10

LEMMA NotPythonInv ==
  ASSUME IInv, fn = "print_python_int", Stays
  PROVE  ArgumentInv' /\ ListInv' /\ DivisorInv' /\ FactorsRight' /\ HeaderInv' /\ DumpInv'
  BY DEF IInv, Stays, ArgumentInv, ListInv, DivisorInv, FactorsRight, HeaderInv, HeaderShown,
         DumpInv

LEMMA PythonFact ==
  ASSUME IInv, fn = "print_python_int"
  PROVE  /\ arg.digits \in Seq(Nat) /\ Len(arg.digits) \in Nat
         /\ arg.digits # <<>> => arg.digits[Len(arg.digits)] # 0
         /\ Value(arg.digits) \in Nat
         /\ \A k \in 1 .. Len(arg.digits) : arg.digits[k] \in Nat
  <1>1. arg \in Objects /\ PyLong_BASE \in Nat
    BY WordFact DEF IInv, ArgumentInv
  <1>2. arg.digits \in Seq(0 .. PyLong_BASE - 1)
        /\ (arg.digits # <<>> => arg.digits[Len(arg.digits)] # 0)
    BY <1>1 DEF Objects
  <1>3. arg.digits \in Seq(Nat)
    BY <1>1, <1>2
  <1>4. Len(arg.digits) \in Nat /\ \A k \in 1 .. Len(arg.digits) : arg.digits[k] \in Nat
    BY <1>3
  <1>5. Value(arg.digits) \in Nat
    BY <1>3, TopsFact
  <1> QED BY <1>2, <1>3, <1>4, <1>5

LEMMA PrintPythonIntInv ==
  ASSUME IInv, PrintPythonInt PROVE IInv'
  <1>1. /\ fn = "print_python_int" /\ pc = "call" /\ Stays /\ UNCHANGED <<n, held>>
        /\ \/ pc' = "invalid" /\ UNCHANGED <<i, out>>
           \/ arg.digits = <<>> /\ out' = <<0>> /\ pc' = "return" /\ UNCHANGED i
           \/ arg.long /\ Len(arg.digits) > MaxDigits /\ pc' = "overflow" /\ UNCHANGED <<i, out>>
           \/ arg.long /\ i' = Len(arg.digits) /\ pc' = "digits" /\ UNCHANGED out
    BY DEF PrintPythonInt, Running, Stays, Goto
  <1>2. /\ arg.digits \in Seq(Nat) /\ Len(arg.digits) \in Nat
        /\ arg.digits # <<>> => arg.digits[Len(arg.digits)] # 0
        /\ Value(arg.digits) \in Nat
    BY <1>1, PythonFact
  <1>3. TypeOK'
    BY <1>1, <1>2 DEF IInv, TypeOK, Stays, Ended
  <1>4. n = 0 /\ held = {} /\ ULONG_MAX \in Nat
    BY <1>1, WordFact DEF IInv, NumberInv
  <1>5. Tops(arg.digits)[0] = 0 /\ Value(arg.digits) = Tops(arg.digits)[Len(arg.digits)]
    BY <1>2, TopsFact
  <1>6. NumberInv'
    <2>1. CASE pc' = "invalid"
      BY <1>1, <1>4, <2>1 DEF NumberInv, NumberShown, Stays
    <2>2. CASE arg.digits = <<>> /\ out' = <<0>> /\ pc' = "return"
      <3>0. Len(arg.digits) = 0
        BY <2>2
      <3>1. Value(arg.digits) = 0
        BY <1>5, <3>0
      <3>2. <<IF arg.negative THEN - Value(arg.digits) ELSE Value(arg.digits)>> = <<0>>
        <4>1. \A x \in Int : - x = 0 - x
          OBVIOUS
        <4>2. Value(arg.digits) \in Int /\ 0 - Value(arg.digits) = 0
          BY <3>1
        <4>3. - Value(arg.digits) = 0
          BY <4>1, <4>2, Zenon
        <4> QED BY <3>1, <4>3, Zenon
      <3> QED BY <1>1, <1>4, <2>2, <3>1, <3>2 DEF NumberInv, NumberShown, Stays
    <2>3. CASE Len(arg.digits) > MaxDigits /\ pc' = "overflow"
      <3>1. arg.digits # <<>>
        <4> SUFFICES ASSUME arg.digits = <<>> PROVE FALSE
          OBVIOUS
        <4>1. PICK w, s \in Nat \ {0} : w = WIDTH /\ s = SHIFT
          BY WordsAssumption
        <4>2. (w + s - 1) \div s \in Nat
          BY <4>1
        <4> QED BY <2>3, <4>1, <4>2 DEF MaxDigits
      <3>2. Value(arg.digits) > ULONG_MAX
        BY <1>2, <2>3, <3>1, TooManyDigits
      <3> QED BY <1>1, <1>4, <2>3, <3>2 DEF NumberInv, NumberShown, Stays
    <2>4. CASE arg.long /\ i' = Len(arg.digits) /\ pc' = "digits"
      <3>1. i' \in 0 .. Len(arg.digits) /\ Len(arg.digits) - i' = 0
        BY <1>2, <2>4
      <3> QED BY <1>1, <1>4, <1>5, <2>4, <3>1 DEF NumberInv, NumberShown, Stays
    <2> QED BY <1>1, <2>1, <2>2, <2>3, <2>4
  <1>7. ArgumentInv' /\ ListInv' /\ DivisorInv' /\ FactorsRight' /\ HeaderInv' /\ DumpInv'
    BY <1>1, NotPythonInv
  <1> QED BY <1>3, <1>6, <1>7 DEF IInv

(* The shifted number and its new digit fit a word, or the number with it  *)
(* is too large.                                                           *)
LEMMA DigitFact ==
  ASSUME NEW m \in 0 .. ULONG_MAX, NEW digit \in Nat
  PROVE  LET shifted == (m * PyLong_BASE) % (ULONG_MAX + 1)
         IN  IF TopFits(m) /\ digit <= ULONG_MAX - shifted
             THEN /\ (shifted + digit) % (ULONG_MAX + 1) = m * PyLong_BASE + digit
                  /\ m * PyLong_BASE + digit \in 0 .. ULONG_MAX
             ELSE m * PyLong_BASE + digit > ULONG_MAX
  <1>1. PICK max, base \in Nat : max = ULONG_MAX /\ base = PyLong_BASE /\ base > 0
    BY WordFact
  <1>2. PICK x \in Nat : x = m * base
    BY <1>1, Products
  <1>3. max + 1 \in Nat \ {0} /\ 0 \in Nat /\ (max + 1) * 0 = 0
    BY <1>1
  <1>4. \A y \in 0 .. max : y % (max + 1) = y
    <2> TAKE y \in 0 .. max
    <2>1. y \in 0 .. (max + 1) - 1 /\ (max + 1) * 0 + y = y
      BY <1>1, <1>3
    <2>2. ((max + 1) * 0 + y) % (max + 1) = y
      BY <1>3, <2>1, Quotient
    <2> QED BY <2>1, <2>2
  <1>5. PICK q, r \in Nat : q = max \div base /\ max = q * base + r /\ r < base
    <2>1. /\ max \div base \in Nat /\ max % base \in 0 .. base - 1
          /\ max = (max \div base) * base + (max % base)
      <3>1. base \in Nat \ {0}
        BY <1>1
      <3> QED BY <3>1, Division, Zenon
    <2> QED BY <2>1
  <1>6. m \in Nat /\ TopFits(m) <=> m <= q
    BY <1>1, <1>5 DEF TopFits
  <1>7. CASE m <= q
    <2>1. x <= q * base /\ q * base \in Nat
      BY <1>1, <1>2, <1>5, <1>7, Products
    <2>2. x \in 0 .. max
      BY <1>1, <1>2, <1>5, <2>1
    <2>3. x % (max + 1) = x
      BY <1>4, <2>2
    <2>4. CASE digit <= max - x
      <3>1. x + digit \in 0 .. max
        BY <1>1, <1>2, <2>4
      <3>2. (x + digit) % (max + 1) = x + digit
        BY <1>4, <3>1
      <3> QED BY <1>1, <1>2, <1>6, <1>7, <2>3, <2>4, <3>1, <3>2
    <2>5. CASE ~ (digit <= max - x)
      <3>1. x + digit > max
        BY <1>1, <1>2, <2>5
      <3> QED BY <1>1, <1>2, <1>6, <1>7, <2>3, <2>5, <3>1
    <2> QED BY <2>4, <2>5
  <1>8. CASE ~ (m <= q)
    <2>1. q + 1 <= m /\ q + 1 \in Nat /\ m \in Nat
      BY <1>1, <1>5, <1>8
    <2>2. (q + 1) * base <= m * base
      BY <1>1, <2>1, Products
    <2>3. (q + 1) * base = q * base + base /\ q * base \in Nat
      BY <1>1, <1>5, Products
    <2>4. x > max
      BY <1>1, <1>2, <1>5, <2>2, <2>3
    <2>5. x + digit > max
      BY <1>1, <1>2, <2>4
    <2> QED BY <1>1, <1>2, <1>6, <1>8, <2>5
  <1> QED BY <1>7, <1>8

LEMMA NextDigitInv ==
  ASSUME IInv, NextDigit PROVE IInv'
  <1> DEFINE digits == arg.digits
             N == Len(digits)
             shifted == (n * PyLong_BASE) % (ULONG_MAX + 1)
             fits == TopFits(n) /\ digits[i] <= ULONG_MAX - shifted
  <1>1. /\ fn = "print_python_int" /\ pc = "digits" /\ Stays /\ i > 0 /\ UNCHANGED <<held, out>>
        /\ IF fits
           THEN n' = (shifted + digits[i]) % (ULONG_MAX + 1) /\ i' = i - 1 /\ pc' = pc
           ELSE pc' = "overflow" /\ UNCHANGED <<n, i>>
    BY DEF NextDigit, Running, Stays, Goto
  <1>2. /\ digits \in Seq(Nat) /\ N \in Nat /\ Value(digits) \in Nat
        /\ \A k \in 1 .. N : digits[k] \in Nat
    BY <1>1, PythonFact
  <1>3. /\ held = {} /\ arg.long /\ i \in 0 .. N /\ n = Tops(digits)[N - i]
        /\ n \in 0 .. ULONG_MAX /\ ULONG_MAX \in Nat
    BY <1>1, WordFact DEF IInv, TypeOK, NumberInv
  <1>4. ArgumentInv' /\ ListInv' /\ DivisorInv' /\ FactorsRight' /\ HeaderInv' /\ DumpInv'
    BY <1>1, NotPythonInv
  <1>5. digits[i] \in Nat /\ i \in 1 .. N
    BY <1>1, <1>2, <1>3
  <1>6. IF fits THEN /\ (shifted + digits[i]) % (ULONG_MAX + 1) = n * PyLong_BASE + digits[i]
                     /\ n * PyLong_BASE + digits[i] \in 0 .. ULONG_MAX
                ELSE n * PyLong_BASE + digits[i] > ULONG_MAX
    BY <1>3, <1>5, DigitFact
  <1>7. Tops(digits)[N - i + 1] = n * PyLong_BASE + digits[i]
    <2>1. \A k \in 1 .. N :
            Tops(digits)[k] = Tops(digits)[k - 1] * PyLong_BASE + digits[N - k + 1]
      BY <1>2, TopsFact
    <2> HIDE DEF digits, N
    <2>2. /\ N - i + 1 \in 1 .. N /\ (N - i + 1) - 1 = N - i
          /\ N - (N - i + 1) + 1 = i
      BY <1>2, <1>5
    <2> QED BY <1>3, <2>1, <2>2
  <1> HIDE DEF fits, shifted
  <1>8. CASE fits
    <2>1. n' = Tops(digits)[N - i + 1] /\ n' \in 0 .. ULONG_MAX /\ i' = i - 1 /\ pc' = "digits"
      BY <1>1, <1>6, <1>7, <1>8
    <2>2. i' \in 0 .. N /\ N - i' = N - i + 1 /\ i' \in Nat
      BY <1>2, <1>5, <2>1
    <2>3. TypeOK'
      BY <1>1, <2>1, <2>2 DEF IInv, TypeOK, Stays
    <2>4. NumberInv'
      BY <1>1, <1>3, <2>1, <2>2 DEF NumberInv, NumberShown, Stays
    <2> QED BY <1>4, <2>3, <2>4 DEF IInv
  <1>9. CASE ~ fits
    <2>1. pc' = "overflow" /\ UNCHANGED <<n, i>>
      BY <1>1, <1>9
    <2>2. TypeOK'
      BY <1>1, <2>1 DEF IInv, TypeOK, Stays, Ended
    <2>3. Value(digits) > ULONG_MAX
      <3>1. N - i + 1 \in 0 .. N
        BY <1>2, <1>5
      <3>2. Tops(digits)[N - i + 1] <= Value(digits)
        BY <1>2, <3>1, TopsGrow
      <3>3. n * PyLong_BASE \in Nat
        BY <1>3, Products, WordFact
      <3>4. Tops(digits)[N - i + 1] > ULONG_MAX
        BY <1>2, <1>3, <1>5, <1>6, <1>7, <1>9, <3>3
      <3>5. Tops(digits)[N - i + 1] \in Nat /\ Value(digits) \in Nat /\ ULONG_MAX \in Nat
        BY <1>2, <3>1, TopsFact, WordFact
      <3> QED BY <3>2, <3>4, <3>5
    <2>4. NumberInv'
      BY <1>1, <1>3, <2>1, <2>3 DEF NumberInv, NumberShown, Stays
    <2> QED BY <1>4, <2>2, <2>4 DEF IInv
  <1> QED BY <1>8, <1>9

LEMMA PrintNumberInv ==
  ASSUME IInv, PrintNumber PROVE IInv'
  <1>1. /\ fn = "print_python_int" /\ pc = "digits" /\ Stays /\ i = 0 /\ UNCHANGED <<n, i, held>>
        /\ out' = <<IF arg.negative THEN - n ELSE n>> /\ pc' = "return"
    BY DEF PrintNumber, Running, Stays, Goto
  <1>2. /\ arg.digits \in Seq(Nat) /\ Len(arg.digits) \in Nat
    BY <1>1, PythonFact
  <1>3. /\ held = {} /\ n = Tops(arg.digits)[Len(arg.digits) - i]
        /\ n \in 0 .. ULONG_MAX /\ ULONG_MAX \in Nat
    BY <1>1, WordFact DEF IInv, TypeOK, NumberInv
  <1>4. n = Value(arg.digits)
    <2>1. Len(arg.digits) - i = Len(arg.digits)
      BY <1>1, <1>2
    <2> QED BY <1>2, <1>3, <2>1, TopsFact
  <1>5. n <= ULONG_MAX
    BY <1>3
  <1>6. TypeOK'
    BY <1>1 DEF IInv, TypeOK, Stays, Ended
  <1>7. NumberInv'
    BY <1>1, <1>3, <1>4, <1>5, Zenon DEF NumberInv, NumberShown, Stays
  <1> QED BY <1>1, <1>6, <1>7, NotPythonInv DEF IInv
-----------------------------------------------------------------------------
(* dump_write_buffer.                                                      *)

Characters == {"letter", "newline", "tab"}

VisibleTo(text, v) ==
  v = [k \in 0 .. Len(text) |->
         IF k = 0 THEN <<>>
         ELSE IF IsShown(text[k]) THEN Append(v[k - 1], text[k]) ELSE v[k - 1]]

LEMMA VisibleIs ==
  ASSUME NEW text \in Seq(Characters)
  PROVE  \E v \in [0 .. Len(text) -> Seq(Characters)] :
           /\ Visible(text) = v[Len(text)] /\ v[0] = <<>>
           /\ \A k \in 1 .. Len(text) :
                v[k] = IF IsShown(text[k]) THEN Append(v[k - 1], text[k]) ELSE v[k - 1]
  <1> DEFINE N == Len(text)
             S == Seq(Characters)
             g == [j \in 1 .. N |->
                     [x \in S |-> IF IsShown(text[j]) THEN Append(x, text[j]) ELSE x]]
  <1>0. N \in Nat /\ \A j \in 1 .. N : text[j] \in Characters
    OBVIOUS
  <1>1. g \in [1 .. N -> [S -> S]]
    <2>1. \A j \in 1 .. N, x \in S : (IF IsShown(text[j]) THEN Append(x, text[j]) ELSE x) \in S
      BY <1>0
    <2> HIDE DEF S
    <2> QED BY <2>1
  <1>2. PICK f \in [0 .. N -> S] : Iterates(f, N, <<>>, g)
    <2>1. <<>> \in S
      OBVIOUS
    <2> HIDE DEF g, N, S
    <2> QED BY <1>0, <1>1, <2>1, Recursion
  <1>3. \A j \in 1 .. N, x \in S : g[j][x] = IF IsShown(text[j]) THEN Append(x, text[j]) ELSE x
    <2> HIDE DEF S
    <2> QED OBVIOUS
  <1>4. /\ f[0] = <<>>
        /\ \A j \in 1 .. N : f[j] = IF IsShown(text[j]) THEN Append(f[j - 1], text[j]) ELSE f[j - 1]
    <2> HIDE DEF g, N, S
    <2>1. \A j \in 1 .. N : f[j] = g[j][f[j - 1]] /\ f[j - 1] \in S
      BY <1>0, <1>2 DEF Iterates
    <2>2. f[0] = <<>>
      BY <1>2 DEF Iterates
    <2> QED BY <1>3, <2>1, <2>2
  <1> HIDE DEF g
  <1>5. VisibleTo(text, f)
    <2>1. \A j \in 0 .. N : j = 0 \/ j \in 1 .. N
      BY <1>0
    <2> HIDE DEF S
    <2> QED BY <1>4, <2>1 DEF VisibleTo
  <1>6. Visible(text) = (CHOOSE v : VisibleTo(text, v))[N]
    BY DEF Visible, VisibleTo
  <1>7. PICK v : VisibleTo(text, v) /\ Visible(text) = v[N]
    BY <1>5, <1>6
  <1>8. /\ v[0] = <<>>
        /\ \A j \in 1 .. N : v[j] = IF IsShown(text[j]) THEN Append(v[j - 1], text[j]) ELSE v[j - 1]
    <2>1. \A j \in 0 .. N : v[j] = IF j = 0 THEN <<>>
                                   ELSE IF IsShown(text[j]) THEN Append(v[j - 1], text[j])
                                   ELSE v[j - 1]
      BY <1>7 DEF VisibleTo
    <2> HIDE DEF N
    <2>2. 0 \in 0 .. N /\ \A j \in 1 .. N : j \in 0 .. N /\ j # 0
      BY <1>0
    <2> QED BY <2>1, <2>2
  <1>9. \A j \in 0 .. N : v[j] = f[j]
    <2> DEFINE T == {j \in 0 .. N : v[j] = f[j]}
    <2> HIDE DEF N
    <2>1. 0 \in T
      BY <1>0, <1>4, <1>8
    <2>2. ASSUME NEW j \in 1 .. N, j - 1 \in T PROVE j \in T
      <3>1. v[j - 1] = f[j - 1] /\ j \in 0 .. N
        BY <1>0, <2>2
      <3>2. v[j] = f[j]
        BY <1>4, <1>8, <3>1, Zenon
      <3> QED BY <3>1, <3>2
    <2> HIDE DEF T
    <2>3. \A j \in 0 .. N : j \in T
      BY <1>0, <2>1, <2>2, Induction
    <2> QED BY <2>3 DEF T
  <1>10. N \in 0 .. N
    BY <1>0
  <1> QED BY <1>4, <1>7, <1>9, <1>10

(* What is visible of two texts is what is visible of the one and then of  *)
(* the other.                                                              *)
LEMMA VisibleJoins ==
  ASSUME NEW s \in Seq(Characters), NEW t \in Seq(Characters)
  PROVE  Visible(s \o t) = Visible(s) \o Visible(t)
  <1> DEFINE M == Len(s)
             N == Len(t)
             st == s \o t
  <1>0. /\ M \in Nat /\ N \in Nat /\ st \in Seq(Characters) /\ Len(st) = M + N
        /\ \A j \in 1 .. M : st[j] = s[j]
        /\ \A j \in 1 .. N : st[M + j] = t[j]
        /\ \A j \in 1 .. N : t[j] \in Characters
    OBVIOUS
  <1>1. PICK u \in [0 .. M -> Seq(Characters)] :
          /\ Visible(s) = u[M] /\ u[0] = <<>>
          /\ \A k \in 1 .. M : u[k] = IF IsShown(s[k]) THEN Append(u[k - 1], s[k]) ELSE u[k - 1]
    BY VisibleIs
  <1>2. PICK v \in [0 .. N -> Seq(Characters)] :
          /\ Visible(t) = v[N] /\ v[0] = <<>>
          /\ \A k \in 1 .. N : v[k] = IF IsShown(t[k]) THEN Append(v[k - 1], t[k]) ELSE v[k - 1]
    BY VisibleIs
  <1>3. PICK w \in [0 .. M + N -> Seq(Characters)] :
          /\ Visible(st) = w[M + N] /\ w[0] = <<>>
          /\ \A k \in 1 .. M + N :
               w[k] = IF IsShown(st[k]) THEN Append(w[k - 1], st[k]) ELSE w[k - 1]
    <2> HIDE DEF st, M, N
    <2>1. PICK w \in [0 .. Len(st) -> Seq(Characters)] :
          /\ Visible(st) = w[Len(st)] /\ w[0] = <<>>
          /\ \A k \in 1 .. Len(st) :
               w[k] = IF IsShown(st[k]) THEN Append(w[k - 1], st[k]) ELSE w[k - 1]
      BY <1>0, VisibleIs
    <2> QED BY <1>0, <2>1
  <1> HIDE DEF st, M, N
  <1>4. \A j \in 0 .. M : u[j] = w[j]
    <2> DEFINE T == {j \in 0 .. M : u[j] = w[j]}
    <2>1. 0 \in T
      BY <1>0, <1>1, <1>3
    <2>2. ASSUME NEW j \in 1 .. M, j - 1 \in T PROVE j \in T
      <3>1. j \in 1 .. M + N /\ st[j] = s[j] /\ u[j - 1] = w[j - 1]
        BY <1>0, <2>2
      <3>2. w[j] = u[j]
        BY <1>1, <1>3, <3>1, Zenon
      <3> QED BY <3>2
    <2> HIDE DEF T
    <2>3. \A j \in 0 .. M : j \in T
      BY <1>0, <2>1, <2>2, Induction
    <2> QED BY <2>3 DEF T
  <1>5. \A j \in 0 .. N : w[M + j] = u[M] \o v[j]
    <2> DEFINE T == {j \in 0 .. N : w[M + j] = u[M] \o v[j]}
    <2>0. u[M] \in Seq(Characters)
      BY <1>0, <1>1
    <2>1. 0 \in T
      <3>1. u[M] \o <<>> = u[M]
        BY <2>0
      <3>2. M + 0 = M /\ M \in 0 .. M /\ 0 \in 0 .. N
        BY <1>0
      <3> QED BY <1>2, <1>4, <3>1, <3>2
    <2>2. ASSUME NEW j \in 1 .. N, j - 1 \in T PROVE j \in T
      <3>1. M + j \in 1 .. M + N /\ (M + j) - 1 = M + (j - 1) /\ st[M + j] = t[j]
            /\ j - 1 \in 0 .. N /\ j \in 0 .. N /\ t[j] \in Characters
        BY <1>0
      <3>2. w[M + j] = IF IsShown(t[j]) THEN Append(w[M + (j - 1)], t[j]) ELSE w[M + (j - 1)]
        BY <1>3, <3>1
      <3>3. v[j] = IF IsShown(t[j]) THEN Append(v[j - 1], t[j]) ELSE v[j - 1]
        BY <1>2
      <3>4. w[M + (j - 1)] = u[M] \o v[j - 1] /\ v[j - 1] \in Seq(Characters)
        BY <1>2, <2>2, <3>1
      <3>5. \A a, b \in Seq(Characters), c \in Characters : Append(a \o b, c) = a \o Append(b, c)
        <4> TAKE a, b \in Seq(Characters), c \in Characters
        <4>1. <<c>> \in Seq(Characters) /\ a \o b \in Seq(Characters)
          BY ConcatProperties
        <4>2. Append(a \o b, c) = (a \o b) \o <<c>> /\ Append(b, c) = b \o <<c>>
          BY <4>1, AppendIsConcat
        <4> QED BY <4>1, <4>2, ConcatAssociative
      <3>6. w[M + j] = u[M] \o v[j]
        <4>1. Append(u[M] \o v[j - 1], t[j]) = u[M] \o Append(v[j - 1], t[j])
          BY <2>0, <3>1, <3>4, <3>5
        <4> QED BY <3>2, <3>3, <3>4, <4>1, Zenon
      <3> QED BY <3>1, <3>6
    <2> HIDE DEF T
    <2>3. \A j \in 0 .. N : j \in T
      BY <1>0, <2>1, <2>2, Induction
    <2> QED BY <2>3 DEF T
  <1>6. N \in 0 .. N
    BY <1>0
  <1> QED BY <1>1, <1>2, <1>3, <1>5, <1>6 DEF st

(* How many characters of a text up to k are no newlines, and where each   *)
(* of them is shown.                                                       *)
NoNewlines(text, k) == {j \in 1 .. k : text[j] # "newline"}

LEMMA NoNewlinesFact ==
  ASSUME NEW text, NEW k \in Nat \ {0}
  PROVE  /\ Cardinality(NoNewlines(text, k)) \in Nat /\ Cardinality(NoNewlines(text, 0)) = 0
         /\ Cardinality(NoNewlines(text, k)) =
              Cardinality(NoNewlines(text, k - 1)) + IF text[k] # "newline" THEN 1 ELSE 0
  <1> DEFINE W(m) == NoNewlines(text, m)
  <1>1. \A m \in Nat : IsFiniteSet(W(m)) /\ Cardinality(W(m)) \in Nat
    <2> TAKE m \in Nat
    <2>1. IsFiniteSet(1 .. m)
      BY FS_Interval
    <2>2. W(m) \subseteq 1 .. m
      BY DEF NoNewlines
    <2>3. IsFiniteSet(W(m))
      BY <2>1, <2>2, FS_Subset
    <2> QED BY <2>3, FS_CardinalityType
  <1>2. W(0) = {}
    BY DEF NoNewlines
  <1>3. Cardinality(W(0)) = 0
    BY <1>2, FS_EmptySet
  <1>4. k - 1 \in Nat /\ k \notin W(k - 1)
    BY DEF NoNewlines
  <1>5. CASE text[k] # "newline"
    <2>1. W(k) = W(k - 1) \cup {k}
      BY <1>5 DEF NoNewlines
    <2> HIDE DEF W
    <2>2. Cardinality(W(k - 1) \cup {k}) = Cardinality(W(k - 1)) + 1
      BY <1>1, <1>4, FS_AddElement
    <2> QED BY <1>1, <1>3, <1>5, <2>1, <2>2 DEF W
  <1>6. CASE text[k] = "newline"
    <2>1. W(k) = W(k - 1)
      <3>1. \A j \in 1 .. k : j = k \/ j \in 1 .. k - 1
        OBVIOUS
      <3> QED BY <1>6, <3>1 DEF NoNewlines
    <2> HIDE DEF W
    <2>2. Cardinality(W(k)) = Cardinality(W(k - 1)) + 0
      BY <1>1, <1>4, <2>1
    <2> QED BY <1>1, <1>3, <1>6, <2>2 DEF W
  <1> QED BY <1>5, <1>6

LEMMA VisibleCounts ==
  ASSUME NEW text \in Seq(Characters)
  PROVE  /\ Len(Visible(text)) = Cardinality(NoNewlines(text, Len(text)))
         /\ \A j \in NoNewlines(text, Len(text)) :
              Visible(text)[Cardinality(NoNewlines(text, j))] = text[j]
  <1> DEFINE N == Len(text)
             C(k) == Cardinality(NoNewlines(text, k))
  <1>0. N \in Nat /\ \A j \in 1 .. N : text[j] \in Characters
    OBVIOUS
  <1>1. PICK v \in [0 .. N -> Seq(Characters)] :
          /\ Visible(text) = v[N] /\ v[0] = <<>>
          /\ \A k \in 1 .. N :
               v[k] = IF IsShown(text[k]) THEN Append(v[k - 1], text[k]) ELSE v[k - 1]
    BY VisibleIs
  <1> DEFINE At(k, j) == C(j) \in 1 .. Len(v[k]) /\ v[k][C(j)] = text[j]
             T == {k \in 0 .. N : Len(v[k]) = C(k) /\ \A j \in NoNewlines(text, k) : At(k, j)}
  <1>2. \A k \in 1 .. N : /\ C(k) \in Nat /\ C(0) = 0
                          /\ C(k) = C(k - 1) + IF text[k] # "newline" THEN 1 ELSE 0
    BY NoNewlinesFact
  <1>3. 0 \in T
    <2>1. C(0) = 0
      <3>1. 1 \in Nat \ {0}
        OBVIOUS
      <3> QED BY <3>1, NoNewlinesFact
    <2>2. NoNewlines(text, 0) = {}
      BY DEF NoNewlines
    <2> HIDE DEF C, N
    <2> QED BY <1>0, <1>1, <2>1, <2>2
  <1> HIDE DEF C, N
  <1>4. ASSUME NEW k \in 1 .. N, k - 1 \in T PROVE k \in T
    <2>1. /\ k - 1 \in 0 .. N /\ k \in 0 .. N /\ text[k] \in Characters
          /\ v[k - 1] \in Seq(Characters)
      BY <1>0, <1>1
    <2>2. Len(v[k - 1]) = C(k - 1) /\ \A j \in NoNewlines(text, k - 1) : At(k - 1, j)
      BY <1>4
    <2>3. \A j : j \in NoNewlines(text, k) <=>
                   j \in NoNewlines(text, k - 1) \/ (j = k /\ text[k] # "newline")
      <3>1. \A j : j \in 1 .. k <=> j \in 1 .. k - 1 \/ j = k
        BY <2>1
      <3> QED BY <3>1 DEF NoNewlines
    <2>4. CASE text[k] # "newline"
      <3>1. v[k] = Append(v[k - 1], text[k])
        BY <1>1, <2>4 DEF IsShown
      <3>2. /\ Len(v[k]) = Len(v[k - 1]) + 1 /\ Len(v[k - 1]) \in Nat
            /\ v[k][Len(v[k - 1]) + 1] = text[k]
            /\ \A m \in 1 .. Len(v[k - 1]) : v[k][m] = v[k - 1][m]
        BY <2>1, <3>1, AppendProperties
      <3>3. C(k) = Len(v[k - 1]) + 1
        BY <1>2, <2>2, <2>4, <3>2
      <3>4. At(k, k)
        BY <3>2, <3>3
      <3>5. ASSUME NEW j \in NoNewlines(text, k - 1) PROVE At(k, j)
        BY <2>2, <3>2
      <3> HIDE DEF At
      <3>6. \A j \in NoNewlines(text, k) : At(k, j)
        BY <2>3, <3>4, <3>5
      <3> QED BY <2>1, <3>2, <3>3, <3>6
    <2>5. CASE text[k] = "newline"
      <3>1. v[k] = v[k - 1] /\ C(k) = C(k - 1) + 0
        BY <1>1, <1>2, <2>5 DEF IsShown
      <3>2. Len(v[k - 1]) \in Nat
        BY <2>1
      <3> QED BY <2>1, <2>2, <2>3, <2>5, <3>1, <3>2
    <2> QED BY <2>4, <2>5
  <1>5. N \in T
    <2> HIDE DEF T
    <2>1. \A k \in 0 .. N : k \in T
      BY <1>0, <1>3, <1>4, Induction
    <2> QED BY <1>0, <2>1
  <1> QED BY <1>1, <1>5 DEF N, C

LEMMA LeastOfTwo ==
  ASSUME NEW a \in Int, NEW b \in Int
  PROVE  Min({a, b}) = IF a <= b THEN a ELSE b
  BY DEF Min

LEMMA NotDumpInv ==
  ASSUME IInv, fn = "dump_write_buffer", Stays
  PROVE  ArgumentInv' /\ ListInv' /\ DivisorInv' /\ FactorsRight' /\ NumberInv' /\ HeaderInv'
  BY DEF IInv, Stays, ArgumentInv, ListInv, DivisorInv, FactorsRight, NumberInv, HeaderInv

LEMMA DumpFact ==
  ASSUME IInv, fn = "dump_write_buffer"
  PROVE  /\ arg.memory \in Seq(Characters) /\ Len(arg.memory) \in Nat
         /\ arg.len \in Nat /\ arg.len <= Len(arg.memory)
         /\ WORD \in Nat /\ WORD > 0 /\ DUMP_MAX \in Nat /\ DUMP_MAX <= ULONG_MAX
         /\ ULONG_MAX \in Nat /\ i \in Nat
         /\ Min({arg.len, DUMP_MAX}) \in 0 .. DUMP_MAX
         /\ Min({arg.len, DUMP_MAX}) <= arg.len
  <1>1. arg \in WriteBuffers
    BY DEF IInv, ArgumentInv
  <1>2. /\ arg.memory \in Seq(Characters) /\ Len(arg.memory) \in Nat
        /\ arg.len \in Nat /\ arg.len <= Len(arg.memory)
    BY <1>1 DEF WriteBuffers, Characters
  <1>3. /\ WORD \in Nat /\ WORD > 0 /\ DUMP_MAX \in Nat /\ DUMP_MAX <= ULONG_MAX
        /\ ULONG_MAX \in Nat
    BY WordsAssumption, WordFact
  <1>4. Min({arg.len, DUMP_MAX}) = IF arg.len <= DUMP_MAX THEN arg.len ELSE DUMP_MAX
    BY <1>2, <1>3, LeastOfTwo
  <1>5. i \in Nat
    BY DEF IInv, TypeOK
  <1> QED BY <1>2, <1>3, <1>4, <1>5

LEMMA DumpWriteBufferInv ==
  ASSUME IInv, DumpWriteBuffer PROVE IInv'
  <1>1. /\ fn = "dump_write_buffer" /\ pc = "call" /\ Stays /\ UNCHANGED <<i, held, out>>
        /\ n' = Min({arg.len, DUMP_MAX}) /\ pc' = "words"
    BY DEF DumpWriteBuffer, Running, Stays, Goto
  <1>2. n' \in 0 .. ULONG_MAX /\ n' \in Nat
    BY <1>1, DumpFact
  <1>3. held = {} /\ i = 0 /\ out = <<>>
    BY <1>1 DEF IInv, DumpInv
  <1>4. TypeOK' /\ 0 % WORD = 0
    <2>1. TypeOK'
      BY <1>1, <1>2 DEF IInv, TypeOK, Stays
    <2>2. PICK w \in Nat \ {0} : w = WORD
      BY <1>1, DumpFact
    <2>3. 0 \in 0 .. w - 1 /\ w * 0 + 0 = 0 /\ (w * 0 + 0) % w = 0
      BY Quotient
    <2> QED BY <2>1, <2>2, <2>3
  <1>5. out = Visible(SubSeq(arg.memory, 1, Min({0, n'})))
    <2>1. Min({0, n'}) = 0
      BY <1>2, LeastOfTwo
    <2>2. SubSeq(arg.memory, 1, 0) = <<>>
      BY <1>1, DumpFact
    <2>3. <<>> \in Seq(Characters) /\ Len(<<>>) = 0
      OBVIOUS
    <2>4. Visible(<<>>) = <<>>
      <3>1. PICK v \in [0 .. Len(<<>>) -> Seq(Characters)] :
              Visible(<<>>) = v[Len(<<>>)] /\ v[0] = <<>>
        BY <2>3, VisibleIs
      <3> QED BY <2>3, <3>1
    <2> QED BY <1>3, <2>1, <2>2, <2>4
  <1>6. DumpInv'
    BY <1>1, <1>3, <1>4, <1>5 DEF IInv, DumpInv, Stays
  <1> QED BY <1>1, <1>4, <1>6, NotDumpInv DEF IInv

LEMMA PeekWordInv ==
  ASSUME IInv, PeekWord PROVE IInv'
  <1>1. /\ fn = "dump_write_buffer" /\ pc = "words" /\ Stays /\ UNCHANGED <<pc, n, held>>
        /\ i < n /\ i + WORD <= size
        /\ out' = out \o Visible(SubSeq(arg.memory, i + 1, WordEnd))
        /\ i' = i + WORD
    BY DEF PeekWord, Running, Stays
  <1>2. /\ held = {} /\ n = Min({arg.len, DUMP_MAX})
        /\ out = Visible(SubSeq(arg.memory, 1, Min({i, n})))
        /\ i % WORD = 0 /\ size <= Len(arg.memory) /\ size \in Nat
    BY <1>1 DEF IInv, DumpInv, TypeOK
  <1>3. PICK m \in Seq(Characters) : m = arg.memory
    BY <1>1, DumpFact
  <1>4. /\ i \in Nat /\ WORD \in Nat /\ WORD > 0 /\ n \in Nat /\ n <= Len(m) /\ Len(m) \in Nat
        /\ i + WORD <= Len(m)
    BY <1>1, <1>2, <1>3, DumpFact
  <1>5. Min({i, n}) = i /\ Min({i + WORD, n}) = IF i + WORD <= n THEN i + WORD ELSE n
    BY <1>1, <1>4, LeastOfTwo
  <1>6. PICK e \in Nat : e = WordEnd /\ i <= e /\ e <= Len(m) /\ e = Min({i', n})
    BY <1>1, <1>4, <1>5 DEF WordEnd
  <1>7. SubSeq(m, 1, i) \o SubSeq(m, i + 1, e) = SubSeq(m, 1, e)
    <2>1. 1 \in 1 .. Len(m) + 1 /\ i \in 1 - 1 .. Len(m) /\ e \in i .. Len(m)
      BY <1>4, <1>6
    <2> QED BY <2>1, ConcatAdjacentSubSeq
  <1>8. SubSeq(m, 1, i) \in Seq(Characters) /\ SubSeq(m, i + 1, e) \in Seq(Characters)
    <2>1. \A k \in 1 .. Len(m) : m[k] \in Characters
      OBVIOUS
    <2>2. \A k \in 1 .. i : m[k] \in Characters
      BY <1>4, <2>1
    <2>3. \A k \in i + 1 .. e : m[k] \in Characters
      BY <1>4, <1>6, <2>1
    <2>4. 1 \in Int /\ i \in Int /\ i + 1 \in Int /\ e \in Int
      BY <1>4, <1>6
    <2> QED BY <2>2, <2>3, <2>4, SubSeqProperties
  <1>9. out' = Visible(SubSeq(m, 1, e))
    <2>1. /\ out' = Visible(SubSeq(m, 1, i)) \o Visible(SubSeq(m, i + 1, e))
      BY <1>1, <1>2, <1>3, <1>5, <1>6, Zenon
    <2>2. Visible(SubSeq(m, 1, i)) \o Visible(SubSeq(m, i + 1, e)) =
            Visible(SubSeq(m, 1, i) \o SubSeq(m, i + 1, e))
      BY <1>8, VisibleJoins, Zenon
    <2> QED BY <1>7, <2>1, <2>2, Zenon
  <1>10. TypeOK'
    BY <1>1, <1>4 DEF IInv, TypeOK, Stays
  <1>11. i' % WORD = 0
    <2>1. PICK w \in Nat \ {0} : w = WORD
      BY <1>4
    <2>2. PICK q \in Nat : q = i \div w
      BY <1>4, <2>1, Division
    <2>3. i = q * w + (i % w)
      BY <1>4, <2>2, Division
    <2>4. i % w = 0
      BY <1>2, <2>1
    <2>5. w * (q + 1) + 0 = i + w
      BY <1>4, <2>3, <2>4
    <2>6. q + 1 \in Nat /\ 0 \in 0 .. w - 1
      OBVIOUS
    <2>7. (w * (q + 1) + 0) % w = 0
      BY <2>6, Quotient
    <2> QED BY <1>1, <2>1, <2>5, <2>7
  <1>12. DumpInv'
    BY <1>1, <1>2, <1>3, <1>6, <1>9, <1>11 DEF DumpInv, Stays
  <1> QED BY <1>1, <1>10, <1>12, NotDumpInv DEF IInv

LEMMA DumpEndsInv ==
  ASSUME IInv, DumpEnds PROVE IInv'
  <1>1. /\ fn = "dump_write_buffer" /\ pc = "words" /\ Stays /\ UNCHANGED <<n, i, held, out>>
        /\ (i >= n \/ i + WORD > size) /\ pc' = "return"
    BY DEF DumpEnds, Running, Stays, Goto
  <1>2. TypeOK'
    BY <1>1 DEF IInv, TypeOK, Stays, Ended
  <1>3. DumpInv'
    BY <1>1 DEF IInv, DumpInv, Stays
  <1> QED BY <1>1, <1>2, <1>3, NotDumpInv DEF IInv

(* What the invariant says of a dump that is done.                         *)
LEMMA DumpShown ==
  ASSUME IInv PROVE WrittenShown
  <1> SUFFICES ASSUME fn = "dump_write_buffer", pc = "return" PROVE WrittenShown
    BY DEF WrittenShown
  <1>1. PICK m \in Seq(Characters) : m = arg.memory
    BY DumpFact
  <1>2. /\ i \in Nat /\ WORD \in Nat /\ WORD > 0 /\ Len(m) \in Nat
        /\ n \in Nat /\ n <= Len(m) /\ n = Min({arg.len, DUMP_MAX})
        /\ out = Visible(SubSeq(m, 1, Min({i, n})))
        /\ i >= n \/ i + WORD > size
        /\ i % WORD = 0
    BY <1>1, DumpFact DEF IInv, DumpInv
  <1>3. PICK read \in 0 .. n : read = Min({i, n}) /\ (read = i \/ read = n) /\ (i < n => read = i)
        /\ (i >= n => read = n)
    <2>1. PICK read : read = Min({i, n})
      OBVIOUS
    <2>2. read = IF i <= n THEN i ELSE n
      <3>1. i \in Int /\ n \in Int
        BY <1>2
      <3> QED BY <2>1, <3>1, LeastOfTwo, Zenon
    <2> QED BY <1>2, <2>1, <2>2
  <1>4. read = n \/ (read % WORD = 0 /\ read + WORD > size)
    BY <1>2, <1>3
  <1> DEFINE text == SubSeq(m, 1, read)
  <1>5. /\ text \in Seq(Characters) /\ Len(text) = read
        /\ \A j \in 1 .. read : text[j] = m[j]
    <2>1. \A k \in 1 .. Len(m) : m[k] \in Characters
      OBVIOUS
    <2>2. \A k \in 1 .. read : m[k] \in Characters
      BY <1>2, <1>3, <2>1
    <2>3. 1 \in Int /\ read \in Int /\ read \in Nat
      BY <1>2, <1>3
    <2>4. /\ text \in Seq(Characters)
          /\ Len(text) = IF 1 <= read THEN read - 1 + 1 ELSE 0
          /\ \A j \in 1 .. read - 1 + 1 : text[j] = m[1 + j - 1]
      BY <2>2, <2>3, SubSeqProperties
    <2> HIDE DEF text
    <2>5. read - 1 + 1 = read /\ \A j \in 1 .. read : 1 + j - 1 = j
      BY <2>3
    <2> QED BY <2>3, <2>4, <2>5
  <1> HIDE DEF text
  <1>6. \A k \in 0 .. read : NoNewlines(text, k) = {j \in 1 .. k : m[j] # "newline"}
    <2> TAKE k \in 0 .. read
    <2>1. \A j \in 1 .. k : j \in 1 .. read
      BY <1>2, <1>3
    <2> QED BY <1>5, <2>1 DEF NoNewlines
  <1>7. /\ Len(out) = Cardinality(NoNewlines(text, read))
        /\ \A j \in NoNewlines(text, read) : out[Cardinality(NoNewlines(text, j))] = text[j]
    <2>1. out = Visible(text)
      BY <1>2, <1>3, Zenon DEF text
    <2> QED BY <1>5, <2>1, VisibleCounts
  <1>8. \A j \in NoNewlines(text, read) : j \in 0 .. read /\ text[j] = m[j]
    BY <1>5 DEF NoNewlines
  <1>9. read \in 0 .. read
    BY <1>3
  <1> DEFINE written(k) == {j \in 1 .. k : arg.memory[j] # "newline"}
  <1>10. /\ Len(out) = Cardinality(written(read))
         /\ \A j \in written(read) : out[Cardinality(written(j))] = arg.memory[j]
    BY <1>1, <1>6, <1>7, <1>8, <1>9
  <1> HIDE DEF written
  <1> QED BY <1>1, <1>2, <1>4, <1>10 DEF WrittenShown, written
-----------------------------------------------------------------------------
(* hreadelf.                                                               *)

(* What is left of a value after its lower digits, digit by digit.         *)
LEMMA DivideTwice ==
  ASSUME NEW v \in Nat, NEW p \in Nat \ {0}, NEW b \in Nat \ {0}
  PROVE  v \div (p * b) = (v \div p) \div b
  <1>1. /\ v \div p \in Nat /\ v % p \in 0 .. p - 1 /\ v = (v \div p) * p + (v % p)
    BY Division, Zenon
  <1>2. PICK q \in Nat : q = v \div p
    BY <1>1
  <1>3. PICK r \in 0 .. p - 1 : v = q * p + r
    BY <1>1, <1>2
  <1>4. /\ q \div b \in Nat /\ q % b \in 0 .. b - 1 /\ q = (q \div b) * b + (q % b)
    BY Division, Zenon
  <1>5. PICK h \in Nat : h = q \div b
    BY <1>4
  <1>6. PICK s \in 0 .. b - 1 : q = h * b + s
    BY <1>4, <1>5
  <1>7. PICK pb \in Nat : pb = p * b
    BY Products
  <1>8. PICK x \in Nat : x = s * p + r /\ x < pb /\ r \in Nat /\ s \in Nat
    <2>1. s \in Nat /\ r \in Nat /\ b - 1 \in Nat /\ s <= b - 1
      OBVIOUS
    <2>2. s * p \in Nat /\ s * p <= (b - 1) * p
      BY <2>1, Products
    <2>3. (b - 1) * p = pb - p
      BY <1>7
    <2> QED BY <1>7, <2>1, <2>2, <2>3
  <1>9. v = pb * h + x
    <2>1. q * p = (h * b) * p + s * p
      BY <1>6, <1>8
    <2>2. (h * b) * p = h * (b * p) /\ b * p = p * b
      OBVIOUS
    <2>3. h * pb = pb * h /\ pb * h \in Nat /\ s * p \in Nat
      BY <1>7, <1>8, Products
    <2>4. (h * b) * p = pb * h
      BY <1>7, <2>2, <2>3
    <2> QED BY <1>3, <1>8, <2>1, <2>3, <2>4
  <1>10. pb \in Nat \ {0} /\ x \in 0 .. pb - 1
    BY <1>7, <1>8
  <1>11. (pb * h + x) \div pb = h
    BY <1>10, Quotient
  <1> QED BY <1>2, <1>5, <1>7, <1>9, <1>11

Rest(value, k) == value \div Power(BASE, k)
Digit(value, k) == Rest(value, k) % BASE

LEMMA BaseFact == BASE \in Nat /\ BASE > 0 /\ \A k \in Nat : Power(BASE, k) \in Nat \ {0}
  <1>1. BASE \in Nat \ {0}
    BY WordsAssumption
  <1>2. \A k \in Nat : Power(BASE, k) \in Nat /\ Power(BASE, k) > 0
    BY <1>1, PowerPositive
  <1> QED BY <1>1, <1>2

LEMMA RestFact ==
  ASSUME NEW v \in Nat, NEW k \in Nat
  PROVE  /\ Rest(v, k) \in Nat /\ Digit(v, k) \in 0 .. BASE - 1 /\ Rest(v, 0) = v
         /\ Rest(v, k) = Rest(v, k + 1) * BASE + Digit(v, k)
         /\ v < Power(BASE, k) => Rest(v, k) = 0
  <1>1. PICK b, p \in Nat \ {0} : b = BASE /\ p = Power(BASE, k) /\ Power(BASE, k + 1) = p * b
        /\ Power(BASE, 0) = 1
    <2>1. Power(BASE, k) \in Nat \ {0} /\ BASE \in Nat \ {0}
      BY BaseFact
    <2>2. Power(BASE, k + 1) = Power(BASE, k) * BASE /\ Power(BASE, 0) = 1
      BY <2>1, PowerFact
    <2> QED BY <2>1, <2>2
  <1>2. Rest(v, k) = v \div p /\ Rest(v, k) \in Nat
    <2>1. v \div p \in Nat
      BY Division, Zenon
    <2> QED BY <1>1, <2>1 DEF Rest
  <1>3. Rest(v, k + 1) = Rest(v, k) \div b
    BY <1>1, <1>2, DivideTwice DEF Rest
  <1>4. PICK q \in Nat : q = Rest(v, k)
    BY <1>2
  <1>5. q % b \in 0 .. b - 1 /\ q = (q \div b) * b + (q % b)
    BY Division, Zenon
  <1>6. Digit(v, k) = q % b
    BY <1>1, <1>4 DEF Digit
  <1>7. Rest(v, 0) = v
    <2>1. 1 * v + 0 = v /\ 1 \in Nat \ {0} /\ 0 \in 0 .. 1 - 1
      OBVIOUS
    <2>2. (1 * v + 0) \div 1 = v
      BY <2>1, Quotient
    <2> QED BY <1>1, <2>1, <2>2 DEF Rest
  <1>8. ASSUME v < p PROVE v \div p = 0
    <2>1. v \in 0 .. p - 1 /\ 0 \in Nat /\ p * 0 + v = v
      BY <1>8
    <2>2. (p * 0 + v) \div p = 0
      BY <2>1, Quotient
    <2> QED BY <2>1, <2>2
  <1> QED BY <1>1, <1>2, <1>3, <1>4, <1>5, <1>6, <1>7, <1>8

(* Two and four digits of a value that has no more make up the value.      *)
LEMMA DigitsMakeUp ==
  ASSUME NEW v \in Nat
  PROVE  /\ v < Power(BASE, 2) => Digit(v, 1) * BASE + Digit(v, 0) = v
         /\ v < Power(BASE, 4) =>
              (Digit(v, 3) * BASE + Digit(v, 2)) * Power(BASE, 2)
                + (Digit(v, 1) * BASE + Digit(v, 0)) = v
  <1>1. PICK b \in Nat \ {0} : b = BASE
    BY BaseFact
  <1>2. /\ Rest(v, 0) = v /\ Rest(v, 0) = Rest(v, 1) * b + Digit(v, 0)
        /\ Rest(v, 1) = Rest(v, 2) * b + Digit(v, 1)
        /\ Rest(v, 2) = Rest(v, 3) * b + Digit(v, 2)
        /\ Rest(v, 3) = Rest(v, 4) * b + Digit(v, 3)
        /\ v < Power(BASE, 2) => Rest(v, 2) = 0
        /\ v < Power(BASE, 4) => Rest(v, 4) = 0
    <2>1. 0 + 1 = 1 /\ 1 + 1 = 2 /\ 2 + 1 = 3 /\ 3 + 1 = 4
      OBVIOUS
    <2>2. \A k \in Nat : Rest(v, 0) = v /\ Rest(v, k) = Rest(v, k + 1) * b + Digit(v, k)
                         /\ (v < Power(BASE, k) => Rest(v, k) = 0)
      BY <1>1, RestFact
    <2>3. {0, 1, 2, 3, 4} \subseteq Nat
      OBVIOUS
    <2> QED BY <2>1, <2>2, <2>3
  <1>3. PICK d0, d1, d2, d3 \in Nat :
          d0 = Digit(v, 0) /\ d1 = Digit(v, 1) /\ d2 = Digit(v, 2) /\ d3 = Digit(v, 3)
    <2>1. \A k \in Nat : Digit(v, k) \in Nat
      <3>1. \A k \in Nat : Digit(v, k) \in 0 .. BASE - 1
        BY RestFact
      <3> QED BY <3>1, BaseFact
    <2> QED BY <2>1
  <1>4. PICK r2, r4 \in Nat : r2 = Rest(v, 2) /\ r4 = Rest(v, 4)
    BY RestFact
  <1>5. Power(BASE, 2) = b * b
    <2>1. Power(BASE, 1) = Power(BASE, 0) * BASE /\ Power(BASE, 0) = 1
      <3>1. 0 \in Nat /\ 0 + 1 = 1 /\ BASE \in Nat
        BY BaseFact
      <3> QED BY <3>1, PowerFact
    <2>2. Power(BASE, 2) = Power(BASE, 1) * BASE
      <3>1. 1 \in Nat /\ 1 + 1 = 2 /\ BASE \in Nat
        BY BaseFact
      <3> QED BY <3>1, PowerFact
    <2> QED BY <1>1, <2>1, <2>2
  <1>6. v = (r2 * b + d1) * b + d0
    BY <1>2, <1>3, <1>4
  <1>7. v < Power(BASE, 2) => d1 * b + d0 = v
    <2>1. SUFFICES ASSUME r2 = 0 PROVE d1 * b + d0 = v
      BY <1>2, <1>4
    <2> QED BY <1>6, <2>1
  <1>8. v < Power(BASE, 4) => (d3 * b + d2) * (b * b) + (d1 * b + d0) = v
    <2>1. SUFFICES ASSUME r4 = 0 PROVE (d3 * b + d2) * (b * b) + (d1 * b + d0) = v
      BY <1>2, <1>4
    <2>2. r2 = d3 * b + d2
      BY <1>2, <1>3, <1>4, <2>1
    <2>3. (r2 * b + d1) * b + d0 = r2 * (b * b) + (d1 * b + d0)
      OBVIOUS
    <2> QED BY <1>6, <2>2, <2>3
  <1> QED BY <1>1, <1>3, <1>5, <1>7, <1>8

(* The bytes of a field, from the lowest digit or from the highest.        *)
LEMMA StoredFact ==
  ASSUME NEW v \in Nat, NEW w \in Nat, NEW big \in BOOLEAN
  PROVE  /\ Stored(v, w, big) \in Seq(Nat) /\ Len(Stored(v, w, big)) = w
         /\ \A k \in 1 .. w :
              Stored(v, w, big)[k] = IF big THEN Digit(v, w - k) ELSE Digit(v, k - 1)
  <1> DEFINE little == [k \in 1 .. w |-> Digit(v, k - 1)]
             large == [k \in 1 .. w |-> little[w - k + 1]]
  <1>1. \A k \in Nat : Digit(v, k) \in Nat
    <2>1. \A k \in Nat : Digit(v, k) \in 0 .. BASE - 1
      BY RestFact
    <2> QED BY <2>1, BaseFact
  <1>2. \A k \in 1 .. w : k - 1 \in Nat /\ w - k \in Nat /\ w - k + 1 \in 1 .. w
                          /\ (w - k + 1) - 1 = w - k
    OBVIOUS
  <1>3. \A k \in 1 .. w : little[k] = Digit(v, k - 1) /\ little[k] \in Nat
    BY <1>1, <1>2
  <1>4. little \in [1 .. w -> Nat]
    BY <1>1, <1>2
  <1>5. little \in Seq(Nat) /\ Len(little) = w
    <2> HIDE DEF little
    <2> QED BY <1>4
  <1>6. Stored(v, w, big) = IF big THEN large ELSE little
    <2>1. Stored(v, w, big) = IF big THEN Reverse(little) ELSE little
      BY DEF Stored, Digit, Rest
    <2>2. Reverse(little) = [k \in 1 .. Len(little) |-> little[(Len(little) - k) + 1]]
      BY DEF Reverse
    <2> HIDE DEF little
    <2>3. Reverse(little) = large
      BY <1>5, <2>2
    <2> QED BY <2>1, <2>3
  <1>7. \A k \in 1 .. w : large[k] = Digit(v, w - k) /\ large[k] \in Nat
    <2> HIDE DEF little
    <2>1. \A k \in 1 .. w : large[k] = little[w - k + 1]
      OBVIOUS
    <2> HIDE DEF large
    <2> QED BY <1>1, <1>2, <1>3, <2>1
  <1>8. large \in [1 .. w -> Nat]
    <2> HIDE DEF little
    <2>1. large = [k \in 1 .. w |-> little[w - k + 1]]
      OBVIOUS
    <2> HIDE DEF large
    <2> QED BY <1>7, <2>1
  <1> HIDE DEF large, little
  <1>9. large \in Seq(Nat) /\ Len(large) = w
    BY <1>8
  <1> QED BY <1>3, <1>5, <1>6, <1>7, <1>9

(* Where each field is in a header.                                        *)
At(s, o, t) == \A k \in 1 .. Len(t) : s[o + k] = t[k]

LEMMA AtEnd ==
  ASSUME NEW s \in Seq(Nat), NEW t \in Seq(Nat)
  PROVE  /\ s \o t \in Seq(Nat) /\ Len(s \o t) = Len(s) + Len(t) /\ At(s \o t, Len(s), t)
         /\ \A o \in Nat, u \in Seq(Nat) :
              o + Len(u) <= Len(s) /\ At(s, o, u) => At(s \o t, o, u)
  <1>1. /\ s \o t \in Seq(Nat) /\ Len(s \o t) = Len(s) + Len(t)
        /\ \A k \in 1 .. Len(s) + Len(t) :
             (s \o t)[k] = IF k <= Len(s) THEN s[k] ELSE t[k - Len(s)]
    BY ConcatProperties
  <1>2. PICK st \in Seq(Nat) : st = s \o t
    BY <1>1
  <1>3. Len(s) \in Nat /\ Len(t) \in Nat
    OBVIOUS
  <1>4. At(st, Len(s), t)
    <2>1. \A k \in 1 .. Len(t) : Len(s) + k \in 1 .. Len(s) + Len(t) /\ ~ (Len(s) + k <= Len(s))
                                 /\ Len(s) + k - Len(s) = k
      BY <1>3
    <2> QED BY <1>1, <1>2, <2>1 DEF At
  <1>5. ASSUME NEW o \in Nat, NEW u \in Seq(Nat), o + Len(u) <= Len(s), At(s, o, u)
        PROVE  At(st, o, u)
    <2>1. \A k \in 1 .. Len(u) : o + k \in 1 .. Len(s) + Len(t) /\ o + k <= Len(s)
      BY <1>3, <1>5
    <2> QED BY <1>1, <1>2, <1>5, <2>1 DEF At
  <1> QED BY <1>1, <1>2, <1>4, <1>5

Field(s, o, v, w, big) == \A k \in 1 .. w : s[o + k] = Stored(v, w, big)[k]

LEMMA ContentsFact ==
  ASSUME NEW h \in ElfHeaders
  PROVE  \E big \in BOOLEAN, aw \in {4, 8} :
           /\ big = (h.data = ELFDATA2MSB) /\ aw = AddressWidth(h)
           /\ Contents(h) \in Seq(Nat) /\ Len(Contents(h)) = 12 + aw
           /\ At(Contents(h), 0, <<h.magic, h.class, h.data, h.osabi>>)
           /\ Field(Contents(h), 4, h.type, 2, big) /\ Field(Contents(h), 6, h.machine, 2, big)
           /\ Field(Contents(h), 8, h.version, 4, big)
           /\ Field(Contents(h), 12, h.entry, aw, big)
  <1>1. PICK big \in BOOLEAN : big = (h.data = ELFDATA2MSB)
    OBVIOUS
  <1>2. PICK aw \in {4, 8} : aw = AddressWidth(h)
    BY DEF AddressWidth
  <1>3. /\ h.magic \in Nat /\ h.class \in Nat /\ h.data \in Nat /\ h.osabi \in Nat
        /\ h.type \in Nat /\ h.machine \in Nat /\ h.version \in Nat /\ h.entry \in Nat
    BY DEF ElfHeaders
  <1>4. PICK s0 : s0 = <<h.magic, h.class, h.data, h.osabi>>
    OBVIOUS
  <1>5. s0 \in Seq(Nat) /\ Len(s0) = 4
    BY <1>3, <1>4
  <1>18. \A v, w \in Nat : Stored(v, w, big) \in Seq(Nat) /\ Len(Stored(v, w, big)) = w
    BY StoredFact
  <1>6. PICK s1 \in Seq(Nat) : s1 = Stored(h.type, 2, big) /\ Len(s1) = 2
    <2>1. 2 \in Nat /\ h.type \in Nat
      BY <1>2, <1>3
    <2>2. Stored(h.type, 2, big) \in Seq(Nat) /\ Len(Stored(h.type, 2, big)) = 2
      BY <1>18, <2>1, Zenon
    <2> QED BY <2>2
  <1>7. PICK s2 \in Seq(Nat) : s2 = Stored(h.machine, 2, big) /\ Len(s2) = 2
    <2>1. 2 \in Nat /\ h.machine \in Nat
      BY <1>2, <1>3
    <2>2. Stored(h.machine, 2, big) \in Seq(Nat) /\ Len(Stored(h.machine, 2, big)) = 2
      BY <1>18, <2>1, Zenon
    <2> QED BY <2>2
  <1>8. PICK s3 \in Seq(Nat) : s3 = Stored(h.version, 4, big) /\ Len(s3) = 4
    <2>1. 4 \in Nat /\ h.version \in Nat
      BY <1>2, <1>3
    <2>2. Stored(h.version, 4, big) \in Seq(Nat) /\ Len(Stored(h.version, 4, big)) = 4
      BY <1>18, <2>1, Zenon
    <2> QED BY <2>2
  <1>9. PICK s4 \in Seq(Nat) : s4 = Stored(h.entry, aw, big) /\ Len(s4) = aw
    <2>1. aw \in Nat /\ h.entry \in Nat
      BY <1>2, <1>3
    <2>2. Stored(h.entry, aw, big) \in Seq(Nat) /\ Len(Stored(h.entry, aw, big)) = aw
      BY <1>18, <2>1, Zenon
    <2> QED BY <2>2
  <1>10. Contents(h) = (((s0 \o s1) \o s2) \o s3) \o s4
    BY <1>1, <1>2, <1>4, <1>6, <1>7, <1>8, <1>9 DEF Contents
  <1>11. At(s0, 0, s0)
    BY <1>5 DEF At
  <1>17. /\ s1 \in Seq(Nat) /\ Len(s1) = 2 /\ s2 \in Seq(Nat) /\ Len(s2) = 2
         /\ s3 \in Seq(Nat) /\ Len(s3) = 4 /\ s4 \in Seq(Nat) /\ Len(s4) = aw
    BY <1>6, <1>7, <1>8, <1>9, Zenon
  <1>12. PICK c1 \in Seq(Nat) : c1 = s0 \o s1 /\ Len(c1) = 6
         /\ At(c1, 0, s0) /\ At(c1, 4, s1)
    <2>1. PICK c \in Seq(Nat) : c = s0 \o s1 /\ Len(c) = Len(s0) + Len(s1)
          /\ At(c, Len(s0), s1)
          /\ \A o \in Nat, u \in Seq(Nat) : o + Len(u) <= Len(s0) /\ At(s0, o, u) => At(c, o, u)
      BY <1>5, <1>17, AtEnd
    <2>2. Len(s0) = 4 /\ Len(s1) = 2 /\ Len(c) = 6
      BY <1>5, <1>2, <1>17, <2>1
    <2>3. At(c, 0, s0)
      <3>1. 0 \in Nat /\ s0 \in Seq(Nat) /\ 0 + Len(s0) <= Len(s0) /\ At(s0, 0, s0)
        BY <1>5, <1>5, <2>2, <1>11
      <3> QED BY <2>1, <3>1, Zenon
    <2> QED BY <2>1, <2>2, <2>3
  <1>13. PICK c2 \in Seq(Nat) : c2 = c1 \o s2 /\ Len(c2) = 8
         /\ At(c2, 0, s0) /\ At(c2, 4, s1) /\ At(c2, 6, s2)
    <2>1. PICK c \in Seq(Nat) : c = c1 \o s2 /\ Len(c) = Len(c1) + Len(s2)
          /\ At(c, Len(c1), s2)
          /\ \A o \in Nat, u \in Seq(Nat) : o + Len(u) <= Len(c1) /\ At(c1, o, u) => At(c, o, u)
      BY <1>12, <1>17, AtEnd
    <2>2. Len(c1) = 6 /\ Len(s2) = 2 /\ Len(c) = 8
      BY <1>12, <1>2, <1>17, <2>1
    <2>3. At(c, 0, s0)
      <3>1. 0 \in Nat /\ s0 \in Seq(Nat) /\ 0 + Len(s0) <= Len(c1) /\ At(c1, 0, s0)
        BY <1>12, <1>5, <2>2
      <3> QED BY <2>1, <3>1, Zenon
    <2>4. At(c, 4, s1)
      <3>1. 4 \in Nat /\ s1 \in Seq(Nat) /\ 4 + Len(s1) <= Len(c1) /\ At(c1, 4, s1)
        BY <1>12, <1>17, <2>2
      <3> QED BY <2>1, <3>1, Zenon
    <2> QED BY <2>1, <2>2, <2>3, <2>4
  <1>14. PICK c3 \in Seq(Nat) : c3 = c2 \o s3 /\ Len(c3) = 12
         /\ At(c3, 0, s0) /\ At(c3, 4, s1) /\ At(c3, 6, s2) /\ At(c3, 8, s3)
    <2>1. PICK c \in Seq(Nat) : c = c2 \o s3 /\ Len(c) = Len(c2) + Len(s3)
          /\ At(c, Len(c2), s3)
          /\ \A o \in Nat, u \in Seq(Nat) : o + Len(u) <= Len(c2) /\ At(c2, o, u) => At(c, o, u)
      BY <1>13, <1>17, AtEnd
    <2>2. Len(c2) = 8 /\ Len(s3) = 4 /\ Len(c) = 12
      BY <1>13, <1>2, <1>17, <2>1
    <2>3. At(c, 0, s0)
      <3>1. 0 \in Nat /\ s0 \in Seq(Nat) /\ 0 + Len(s0) <= Len(c2) /\ At(c2, 0, s0)
        BY <1>13, <1>5, <2>2
      <3> QED BY <2>1, <3>1, Zenon
    <2>4. At(c, 4, s1)
      <3>1. 4 \in Nat /\ s1 \in Seq(Nat) /\ 4 + Len(s1) <= Len(c2) /\ At(c2, 4, s1)
        BY <1>13, <1>17, <2>2
      <3> QED BY <2>1, <3>1, Zenon
    <2>5. At(c, 6, s2)
      <3>1. 6 \in Nat /\ s2 \in Seq(Nat) /\ 6 + Len(s2) <= Len(c2) /\ At(c2, 6, s2)
        BY <1>13, <1>17, <2>2
      <3> QED BY <2>1, <3>1, Zenon
    <2> QED BY <2>1, <2>2, <2>3, <2>4, <2>5
  <1>15. PICK c4 \in Seq(Nat) : c4 = c3 \o s4 /\ Len(c4) = 12 + aw
         /\ At(c4, 0, s0) /\ At(c4, 4, s1) /\ At(c4, 6, s2) /\ At(c4, 8, s3) /\ At(c4, 12, s4)
    <2>1. PICK c \in Seq(Nat) : c = c3 \o s4 /\ Len(c) = Len(c3) + Len(s4)
          /\ At(c, Len(c3), s4)
          /\ \A o \in Nat, u \in Seq(Nat) : o + Len(u) <= Len(c3) /\ At(c3, o, u) => At(c, o, u)
      BY <1>14, <1>17, AtEnd
    <2>2. Len(c3) = 12 /\ Len(s4) = aw /\ Len(c) = 12 + aw
      BY <1>14, <1>2, <1>17, <2>1
    <2>3. At(c, 0, s0)
      <3>1. 0 \in Nat /\ s0 \in Seq(Nat) /\ 0 + Len(s0) <= Len(c3) /\ At(c3, 0, s0)
        BY <1>14, <1>5, <2>2
      <3> QED BY <2>1, <3>1, Zenon
    <2>4. At(c, 4, s1)
      <3>1. 4 \in Nat /\ s1 \in Seq(Nat) /\ 4 + Len(s1) <= Len(c3) /\ At(c3, 4, s1)
        BY <1>14, <1>17, <2>2
      <3> QED BY <2>1, <3>1, Zenon
    <2>5. At(c, 6, s2)
      <3>1. 6 \in Nat /\ s2 \in Seq(Nat) /\ 6 + Len(s2) <= Len(c3) /\ At(c3, 6, s2)
        BY <1>14, <1>17, <2>2
      <3> QED BY <2>1, <3>1, Zenon
    <2>6. At(c, 8, s3)
      <3>1. 8 \in Nat /\ s3 \in Seq(Nat) /\ 8 + Len(s3) <= Len(c3) /\ At(c3, 8, s3)
        BY <1>14, <1>17, <2>2
      <3> QED BY <2>1, <3>1, Zenon
    <2> QED BY <2>1, <2>2, <2>3, <2>4, <2>5, <2>6
  <1>16. Contents(h) = c4
    BY <1>10, <1>12, <1>13, <1>14, <1>15, Zenon
  <1>19. /\ Field(c4, 4, h.type, 2, big) /\ Field(c4, 6, h.machine, 2, big)
         /\ Field(c4, 8, h.version, 4, big) /\ Field(c4, 12, h.entry, aw, big)
    BY <1>6, <1>7, <1>8, <1>9, <1>15, Zenon DEF At, Field
  <1> QED BY <1>1, <1>2, <1>4, <1>15, <1>16, <1>19, Zenon

(* Reading the bytes of a value in the order they were stored in.          *)
LEMMA ReadFact ==
  ASSUME NEW o \in Nat, NEW at \in Nat, at = o + 1, NEW v \in Nat, NEW big \in BOOLEAN, NEW w \in {2, 4, 8},
         \A k \in 1 .. w : Byte(o + k) = Stored(v, w, big)[k]
  PROVE  /\ w = 2 /\ v < Power(BASE, 2) => Read16(at, big) = v
         /\ (w = 4 \/ (w = 8 /\ ~ big)) /\ v < Power(BASE, 4) => Read32(at, big) = v
  <1>1. \A k \in 1 .. w : Byte(o + k) = IF big THEN Digit(v, w - k) ELSE Digit(v, k - 1)
    <2>1. w \in Nat
      OBVIOUS
    <2>2. \A k \in 1 .. w :
            Stored(v, w, big)[k] = IF big THEN Digit(v, w - k) ELSE Digit(v, k - 1)
      BY <2>1, StoredFact, Zenon
    <2> QED BY <2>2
  <1>2. ASSUME w = 2, v < Power(BASE, 2) PROVE Read16(at, big) = v
    <2>1. Byte(at) = (IF big THEN Digit(v, 1) ELSE Digit(v, 0))
          /\ Byte(at + 1) = IF big THEN Digit(v, 0) ELSE Digit(v, 1)
      <3>1. /\ 1 \in 1 .. w /\ o + 1 = at /\ w - 1 = 1 /\ 1 - 1 = 0
            /\ 2 \in 1 .. w /\ o + 2 = at + 1 /\ w - 2 = 0 /\ 2 - 1 = 1
        BY <1>2
      <3> QED BY <1>1, <3>1
    <2>2. Digit(v, 1) * BASE + Digit(v, 0) = v
      BY <1>2, DigitsMakeUp
    <2> QED BY <2>1, <2>2 DEF Read16
  <1>3. ASSUME w = 4 \/ (w = 8 /\ ~ big), v < Power(BASE, 4) PROVE Read32(at, big) = v
    <2>1. /\ Byte(at) = (IF big THEN Digit(v, 3) ELSE Digit(v, 0))
          /\ Byte(at + 1) = (IF big THEN Digit(v, 2) ELSE Digit(v, 1))
          /\ Byte(at + 2) = (IF big THEN Digit(v, 1) ELSE Digit(v, 2))
          /\ Byte(at + 2 + 1) = (IF big THEN Digit(v, 0) ELSE Digit(v, 3))
      <3>1. /\ 1 \in 1 .. w /\ o + 1 = at /\ 1 - 1 = 0
            /\ 2 \in 1 .. w /\ o + 2 = at + 1 /\ 2 - 1 = 1
            /\ 3 \in 1 .. w /\ o + 3 = at + 2 /\ 3 - 1 = 2
            /\ 4 \in 1 .. w /\ o + 4 = at + 2 + 1 /\ 4 - 1 = 3
            /\ big => w - 1 = 3 /\ w - 2 = 2 /\ w - 3 = 1 /\ w - 4 = 0
        BY <1>3
      <3> QED BY <1>1, <3>1
    <2>2. (Digit(v, 3) * BASE + Digit(v, 2)) * Power(BASE, 2)
            + (Digit(v, 1) * BASE + Digit(v, 0)) = v
      BY <1>3, DigitsMakeUp
    <2>3. Read16(at, big) = (IF big THEN Digit(v, 3) * BASE + Digit(v, 2)
                                   ELSE Digit(v, 1) * BASE + Digit(v, 0))
          /\ Read16(at + 2, big) = (IF big THEN Digit(v, 1) * BASE + Digit(v, 0)
                                          ELSE Digit(v, 3) * BASE + Digit(v, 2))
      BY <2>1 DEF Read16
    <2>4. CASE big
      BY <2>2, <2>3, <2>4 DEF Read32
    <2>5. CASE ~ big
      BY <2>2, <2>3, <2>5 DEF Read32
    <2> QED BY <2>4, <2>5
  <1> QED BY <1>2, <1>3

(* What is read of a file that is whole.                                   *)
LEMMA HeaderFact ==
  ASSUME arg \in ElfFiles, size \in Nat, Whole
  PROVE  /\ Byte(2) = arg.header.class /\ Byte(3) = arg.header.data /\ Byte(4) = arg.header.osabi
         /\ \A big \in BOOLEAN : big = (arg.header.data = ELFDATA2MSB) =>
              /\ Read16(5, big) = arg.header.type /\ Read16(7, big) = arg.header.machine
              /\ Read32(9, big) = arg.header.version
              /\ arg.header.class # ELFCLASS64
                   \/ (arg.header.data = ELFDATA2LSB /\ arg.header.entry < Power(BASE, 4))
                 => Read32(13, big) = arg.header.entry
         /\ 0 < Len(Contents(arg.header)) /\ size # 0 /\ 3 < Len(Contents(arg.header))
  <1>1. PICK h \in ElfHeaders : h = arg.header
    BY DEF ElfFiles
  <1>2. PICK big \in BOOLEAN, aw \in {4, 8} :
           /\ big = (h.data = ELFDATA2MSB) /\ aw = AddressWidth(h)
           /\ Contents(h) \in Seq(Nat) /\ Len(Contents(h)) = 12 + aw
           /\ At(Contents(h), 0, <<h.magic, h.class, h.data, h.osabi>>)
           /\ Field(Contents(h), 4, h.type, 2, big) /\ Field(Contents(h), 6, h.machine, 2, big)
           /\ Field(Contents(h), 8, h.version, 4, big)
           /\ Field(Contents(h), 12, h.entry, aw, big)
    BY ContentsFact
  <1>3. PICK c \in Seq(Nat) : c = Contents(h) /\ Len(c) = 12 + aw
    BY <1>2
  <1>4. \A o \in 1 .. 12 + aw : Byte(o) = c[o]
    <2>1. Min({size, Len(c)}) = Len(c)
      <3>1. size \in Int /\ Len(c) \in Int /\ size >= Len(c)
        BY <1>1, <1>2, <1>3 DEF Whole
      <3>2. Min({size, Len(c)}) = IF size <= Len(c) THEN size ELSE Len(c)
        BY <3>1, LeastOfTwo
      <3> QED BY <3>1, <3>2
    <2>2. \A o \in 1 .. 12 + aw : o <= Len(c)
      BY <1>2, <1>3
    <2> QED BY <1>1, <1>3, <2>1, <2>2 DEF Byte
  <1>5. /\ h.magic \in Nat /\ h.class \in Nat /\ h.data \in Nat /\ h.osabi \in Nat
        /\ h.type \in Nat /\ h.machine \in Nat /\ h.version \in Nat /\ h.entry \in Nat
        /\ h.type < Power(BASE, 2) /\ h.machine < Power(BASE, 2) /\ h.version < Power(BASE, 4)
        /\ h.class # ELFCLASS64 => h.entry < Power(BASE, 4)
    <2>1. /\ h.type \in 0 .. Power(BASE, 2) - 1 /\ h.machine \in 0 .. Power(BASE, 2) - 1
          /\ h.version \in 0 .. Power(BASE, 4) - 1 /\ h.entry \in 0 .. Power(BASE, 8) - 1
          /\ h.magic \in Nat /\ h.class \in Nat /\ h.data \in Nat /\ h.osabi \in Nat
          /\ h.class # ELFCLASS64 => h.entry < Power(BASE, 4)
      BY DEF ElfHeaders
    <2>2. Power(BASE, 2) \in Nat /\ Power(BASE, 4) \in Nat
      BY BaseFact
    <2> QED BY <2>1, <2>2
  <1>6. Byte(2) = h.class /\ Byte(3) = h.data /\ Byte(4) = h.osabi
    <2>1. \A k \in 1 .. 4 : c[0 + k] = <<h.magic, h.class, h.data, h.osabi>>[k]
      BY <1>2, <1>3 DEF At
    <2>2. /\ 0 + 2 = 2 /\ 0 + 3 = 3 /\ 0 + 4 = 4 /\ {2, 3, 4} \subseteq 1 .. 4
          /\ {2, 3, 4} \subseteq 1 .. 12 + aw
      BY <1>2
    <2>3. c[2] = h.class /\ c[3] = h.data /\ c[4] = h.osabi
      BY <2>1, <2>2
    <2> QED BY <1>4, <2>2, <2>3
  <1>12. \A o \in Nat, v \in Nat, w \in {2, 4, 8} :
           Field(c, o, v, w, big) /\ o + w <= 12 + aw =>
             \A k \in 1 .. w : Byte(o + k) = Stored(v, w, big)[k]
    <2> TAKE o \in Nat, v \in Nat, w \in {2, 4, 8}
    <2>1. HAVE Field(c, o, v, w, big) /\ o + w <= 12 + aw
    <2>2. \A k \in 1 .. w : o + k \in 1 .. 12 + aw
      BY <1>2, <2>1
    <2>3. \A k \in 1 .. w : c[o + k] = Stored(v, w, big)[k]
      BY <2>1 DEF Field
    <2> QED BY <1>4, <2>2, <2>3, Zenon
  <1>7. Read16(5, big) = h.type
    <2>1. /\ 2 \in {2, 4, 8} /\ 5 \in Nat /\ 5 = 4 + 1 /\ 4 \in Nat /\ 4 + 2 <= 12 + aw
          /\ h.type \in Nat
      BY <1>2, <1>5
    <2>2. \A k \in 1 .. 2 : Byte(4 + k) = Stored(h.type, 2, big)[k]
      <3>1. Field(c, 4, h.type, 2, big)
        BY <1>2, <1>3, Zenon
      <3> QED BY <1>12, <2>1, <3>1, Zenon
    <2>3. 2 = 2 /\ h.type < Power(BASE, 2) => Read16(5, big) = h.type
      BY <2>1, <2>2, ReadFact
    <2> QED BY <1>5, <2>3
  <1>8. Read16(7, big) = h.machine
    <2>1. /\ 2 \in {2, 4, 8} /\ 7 \in Nat /\ 7 = 6 + 1 /\ 6 \in Nat /\ 6 + 2 <= 12 + aw
          /\ h.machine \in Nat
      BY <1>2, <1>5
    <2>2. \A k \in 1 .. 2 : Byte(6 + k) = Stored(h.machine, 2, big)[k]
      <3>1. Field(c, 6, h.machine, 2, big)
        BY <1>2, <1>3, Zenon
      <3> QED BY <1>12, <2>1, <3>1, Zenon
    <2>3. 2 = 2 /\ h.machine < Power(BASE, 2) => Read16(7, big) = h.machine
      BY <2>1, <2>2, ReadFact
    <2> QED BY <1>5, <2>3
  <1>9. Read32(9, big) = h.version
    <2>1. /\ 4 \in {2, 4, 8} /\ 9 \in Nat /\ 9 = 8 + 1 /\ 8 \in Nat /\ 8 + 4 <= 12 + aw
          /\ h.version \in Nat
      BY <1>2, <1>5
    <2>2. \A k \in 1 .. 4 : Byte(8 + k) = Stored(h.version, 4, big)[k]
      <3>1. Field(c, 8, h.version, 4, big)
        BY <1>2, <1>3, Zenon
      <3> QED BY <1>12, <2>1, <3>1, Zenon
    <2>3. (4 = 4 \/ (4 = 8 /\ ~ big)) /\ h.version < Power(BASE, 4) => Read32(9, big) = h.version
      BY <2>1, <2>2, ReadFact
    <2> QED BY <1>5, <2>3
  <1>10. ASSUME h.class # ELFCLASS64 \/ (h.data = ELFDATA2LSB /\ h.entry < Power(BASE, 4))
         PROVE  Read32(13, big) = h.entry
    <2>1. /\ aw \in {2, 4, 8} /\ 13 \in Nat /\ 13 = 12 + 1 /\ 12 \in Nat /\ 12 + aw <= 12 + aw
          /\ h.entry \in Nat
      BY <1>2, <1>5
    <2>2. \A k \in 1 .. aw : Byte(12 + k) = Stored(h.entry, aw, big)[k]
      <3>1. Field(c, 12, h.entry, aw, big)
        BY <1>2, <1>3, Zenon
      <3> QED BY <1>12, <2>1, <3>1, Zenon
    <2>3. h.entry < Power(BASE, 4) /\ (aw = 4 \/ (aw = 8 /\ ~ big))
      BY <1>2, <1>5, <1>10 DEF AddressWidth, ELFDATA2LSB, ELFDATA2MSB
    <2>4. \A m \in {2, 4, 8} : m = aw =>
            ((m = 4 \/ (m = 8 /\ ~ big)) /\ h.entry < Power(BASE, 4) => Read32(13, big) = h.entry)
      <3> TAKE m \in {2, 4, 8}
      <3>1. HAVE m = aw
      <3>2. \A k \in 1 .. m : Byte(12 + k) = Stored(h.entry, m, big)[k]
        BY <2>2, <3>1, Zenon
      <3> QED BY <2>1, <3>2, ReadFact
    <2> QED BY <2>1, <2>3, <2>4
  <1>11. 0 < Len(c) /\ size # 0 /\ 3 < Len(c)
    BY <1>1, <1>2, <1>3 DEF Whole
  <1> QED BY <1>1, <1>2, <1>3, <1>6, <1>7, <1>8, <1>9, <1>10, <1>11

LEMMA NotHeaderInv ==
  ASSUME IInv, fn = "hreadelf", fn' = fn, arg' = arg
  PROVE  ArgumentInv' /\ ListInv' /\ DivisorInv' /\ FactorsRight' /\ NumberInv' /\ DumpInv'
  BY DEF IInv, ArgumentInv, ListInv, DivisorInv, FactorsRight, NumberInv, DumpInv

LEMMA FileFact ==
  ASSUME IInv, fn = "hreadelf"
  PROVE  /\ arg \in ElfFiles /\ size \in Nat /\ size <= ULONG_MAX /\ ULONG_MAX \in Nat
  BY WordFact DEF IInv, ArgumentInv, TypeOK, HeaderInv

LEMMA OpenFileInv ==
  ASSUME IInv, OpenFile PROVE IInv'
  <1>1. /\ fn = "hreadelf" /\ pc = "call" /\ Stays /\ UNCHANGED <<n, i, out>>
        /\ \/ pc' = "98" /\ held' = held
           \/ pc' = "fstat" /\ held' = {FD}
    BY DEF OpenFile, Running, Stays, Goto
  <1>2. held = {} /\ size <= ULONG_MAX
    BY <1>1 DEF IInv, HeaderInv
  <1>3. TypeOK'
    BY <1>1, <1>2 DEF IInv, TypeOK, Stays, Ended
  <1>4. HeaderInv'
    BY <1>1, <1>2 DEF HeaderInv, HeaderShown, Stays
  <1> QED BY <1>1, <1>3, <1>4, NotHeaderInv DEF IInv, Stays

LEMMA FstatInv ==
  ASSUME IInv, Fstat PROVE IInv'
  <1>1. /\ fn = "hreadelf" /\ pc = "fstat" /\ Stays /\ UNCHANGED <<i, out>>
        /\ \/ pc' = "98" /\ held' = {} /\ n' = n
           \/ pc' = "mmap" /\ held' = held /\ n' = size
    BY DEF Fstat, Running, Stays, Goto
  <1>2. held = {FD} /\ size <= ULONG_MAX
    BY <1>1 DEF IInv, HeaderInv
  <1>3. n' \in 0 .. ULONG_MAX
    BY <1>1, FileFact DEF IInv, TypeOK
  <1>4. TypeOK'
    BY <1>1, <1>2, <1>3 DEF IInv, TypeOK, Stays, Ended
  <1>5. HeaderInv'
    BY <1>1, <1>2 DEF HeaderInv, HeaderShown, Stays
  <1> QED BY <1>1, <1>4, <1>5, NotHeaderInv DEF IInv, Stays

LEMMA MmapInv ==
  ASSUME IInv, Mmap PROVE IInv'
  <1>1. /\ fn = "hreadelf" /\ pc = "mmap" /\ Stays /\ UNCHANGED <<n, i, out>>
        /\ \/ pc' = "98" /\ held' = held \ {FD}
           \/ pc' = "header" /\ held' = held \cup {MAP}
    BY DEF Mmap, Running, Stays, Goto
  <1>2. held = {FD} /\ size <= ULONG_MAX
    BY <1>1 DEF IInv, HeaderInv
  <1>3. \/ pc' = "98" /\ held' = {}
        \/ pc' = "header" /\ held' = {FD, MAP}
    BY <1>1, <1>2
  <1>4. TypeOK'
    BY <1>1, <1>3 DEF IInv, TypeOK, Stays, Ended
  <1>5. HeaderInv'
    BY <1>1, <1>2, <1>3 DEF HeaderInv, HeaderShown, Stays
  <1> QED BY <1>1, <1>4, <1>5, NotHeaderInv DEF IInv, Stays

LEMMA ProcessElfHeaderInv ==
  ASSUME IInv, ProcessElfHeader PROVE IInv'
  <1>1. /\ fn = "hreadelf" /\ pc = "header" /\ Stays /\ UNCHANGED <<n, out>>
        /\ \/ pc' = "fault" /\ held' = held
           \/ pc' = "98" /\ held' = held \ {MAP, FD}
           \/ pc' = "print" /\ held' = held
        /\ i' = IF Byte(3) = ELFDATA2MSB THEN 1 ELSE 0
    BY DEF ProcessElfHeader, Running, Stays, Goto, Close
  <1>2. held = {FD, MAP} /\ size <= ULONG_MAX
    BY <1>1 DEF IInv, HeaderInv
  <1>3. \/ pc' = "fault" /\ held' = held
        \/ pc' = "98" /\ held' = {}
        \/ pc' = "print" /\ held' = held
    BY <1>1, <1>2
  <1>4. TypeOK'
    BY <1>1, <1>3 DEF IInv, TypeOK, Stays, Ended
  <1>5. ASSUME Whole' PROVE i' = 1 <=> arg'.header.data = ELFDATA2MSB
    <2>1. Whole
      BY <1>1, <1>5 DEF Stays, Whole
    <2>2. Byte(3) = arg.header.data
      BY <1>1, <2>1, FileFact, HeaderFact
    <2> QED BY <1>1, <2>2 DEF Stays
  <1>6. HeaderInv'
    BY <1>1, <1>2, <1>3, <1>5 DEF HeaderInv, HeaderShown, Stays
  <1> QED BY <1>1, <1>4, <1>6, NotHeaderInv DEF IInv, Stays

LEMMA PrintDataInv ==
  ASSUME IInv, PrintData PROVE IInv'
  <1>1. /\ fn = "hreadelf" /\ pc = "print" /\ Stays /\ UNCHANGED <<n, i, held>>
        /\ \/ size = 0 /\ pc' = "fault"
           \/ /\ pc' = "fields"
              /\ out' = << IF Byte(2) = ELFCLASS64 THEN 64 ELSE 32,
                           IF Byte(3) = ELFDATA2LSB THEN ELFDATA2LSB ELSE ELFDATA2MSB,
                           Named(Byte(4), KnownOsabi) >>
    BY DEF PrintData, Running, Stays, Goto
  <1>2. /\ held = {FD, MAP} /\ size <= ULONG_MAX
        /\ Whole => (i = 1 <=> arg.header.data = ELFDATA2MSB)
    BY <1>1 DEF IInv, HeaderInv
  <1>3. TypeOK'
    BY <1>1 DEF IInv, TypeOK, Stays, Ended
  <1>4. ASSUME Whole', pc' = "fields"
        PROVE  out' = << IF arg.header.class = ELFCLASS64 THEN 64 ELSE 32, arg.header.data,
                         Named(arg.header.osabi, KnownOsabi) >>
    <2>1. Whole
      BY <1>1, <1>4 DEF Stays, Whole
    <2>2. Byte(2) = arg.header.class /\ Byte(3) = arg.header.data /\ Byte(4) = arg.header.osabi
      BY <1>1, <2>1, FileFact, HeaderFact
    <2>3. (IF arg.header.data = ELFDATA2LSB THEN ELFDATA2LSB ELSE ELFDATA2MSB) = arg.header.data
      BY <2>1 DEF Whole
    <2> QED BY <1>1, <1>4, <2>2, <2>3
  <1>5. Whole' <=> Whole
    BY <1>1 DEF Whole, Stays
  <1>6. HeaderInv'
    BY <1>1, <1>2, <1>4, <1>5 DEF HeaderInv, HeaderShown, Stays
  <1> QED BY <1>1, <1>3, <1>6, NotHeaderInv DEF IInv, Stays

LEMMA SevenLines ==
  ASSUME NEW a, NEW b, NEW c, NEW d, NEW e, NEW f, NEW g
  PROVE  /\ SubSeq(<<a, b, c>> \o <<d, e, f, g>>, 1, 6) = <<a, b, c, d, e, f>>
         /\ (<<a, b, c>> \o <<d, e, f, g>>)[7] = g
  <1> DEFINE S == {a, b, c, d, e, f, g}
  <1>0. a \in S /\ b \in S /\ c \in S /\ d \in S /\ e \in S /\ f \in S /\ g \in S
    OBVIOUS
  <1> HIDE DEF S
  <1>1. PICK s \in Seq(S) : s = <<a, b, c>> /\ Len(s) = 3 /\ s[1] = a /\ s[2] = b /\ s[3] = c
    <2>1. <<a, b, c>> \in Seq(S) /\ Len(<<a, b, c>>) = 3
      BY <1>0
    <2> QED BY <2>1
  <1>2. PICK t \in Seq(S) : t = <<d, e, f, g>> /\ Len(t) = 4
        /\ t[1] = d /\ t[2] = e /\ t[3] = f /\ t[4] = g
    <2>1. <<d, e, f, g>> \in Seq(S) /\ Len(<<d, e, f, g>>) = 4
      BY <1>0
    <2> QED BY <2>1
  <1>3. PICK u \in Seq(S) : u = <<a, b, c, d, e, f>> /\ Len(u) = 6
        /\ u[1] = a /\ u[2] = b /\ u[3] = c /\ u[4] = d /\ u[5] = e /\ u[6] = f
    <2>1. <<a, b, c, d, e, f>> \in Seq(S) /\ Len(<<a, b, c, d, e, f>>) = 6
      BY <1>0
    <2> QED BY <2>1
  <1>4. PICK st \in Seq(S) : st = s \o t /\ Len(st) = 7
        /\ \A k \in 1 .. 7 : st[k] = IF k <= 3 THEN s[k] ELSE t[k - 3]
    <2>1. /\ s \o t \in Seq(S) /\ Len(s \o t) = Len(s) + Len(t)
          /\ \A k \in 1 .. Len(s) + Len(t) :
               (s \o t)[k] = IF k <= Len(s) THEN s[k] ELSE t[k - Len(s)]
      BY ConcatProperties, Zenon
    <2>2. Len(s) = 3 /\ Len(t) = 4 /\ 3 + 4 = 7
      BY <1>1, <1>2
    <2> QED BY <2>1, <2>2
  <1>5. /\ st[1] = a /\ st[2] = b /\ st[3] = c /\ st[4] = d /\ st[5] = e /\ st[6] = f
        /\ st[7] = g
    BY <1>1, <1>2, <1>4
  <1>6. PICK v \in Seq(S) : v = SubSeq(st, 1, 6) /\ Len(v) = 6
        /\ \A k \in 1 .. 6 : v[k] = st[k]
    <2>1. \A k \in 1 .. 7 : st[k] \in S
      BY <1>4
    <2>2. \A k \in 1 .. 6 : st[k] \in S /\ 1 + k - 1 = k
      BY <2>1
    <2>3. 1 \in Int /\ 6 \in Int /\ 6 - 1 + 1 = 6 /\ 1 <= 6
      OBVIOUS
    <2>4. /\ SubSeq(st, 1, 6) \in Seq(S)
          /\ Len(SubSeq(st, 1, 6)) = 6
          /\ \A k \in 1 .. 6 : SubSeq(st, 1, 6)[k] = st[1 + k - 1]
      BY <2>2, <2>3, SubSeqProperties
    <2> QED BY <2>2, <2>4
  <1>7. \A k \in 1 .. Len(v) : v[k] = u[k]
    <2>1. \A k \in 1 .. 6 : k = 1 \/ k = 2 \/ k = 3 \/ k = 4 \/ k = 5 \/ k = 6
      OBVIOUS
    <2> QED BY <1>3, <1>5, <1>6, <2>1
  <1>8. v = u
    BY <1>3, <1>6, <1>7, SeqEqual
  <1> QED BY <1>1, <1>2, <1>3, <1>4, <1>5, <1>6, <1>8

LEMMA PrintElfHeaderInv ==
  ASSUME IInv, PrintElfHeader PROVE IInv'
  <1>1. PICK big \in BOOLEAN : big = (i = 1)
    OBVIOUS
  <1>2. /\ fn = "hreadelf" /\ pc = "fields" /\ Stays /\ UNCHANGED <<n, i>>
        /\ \/ size = 0 /\ pc' = "fault" /\ held' = held
           \/ /\ pc' = "return" /\ held' = held \ {MAP, FD}
              /\ out' = out \o << Named(Read16(5, big), KnownTypes),
                                  Named(Read16(7, big), KnownMachines),
                                  Read32(9, big), Read32(13, big) >>
    BY <1>1 DEF PrintElfHeader, Running, Stays, Goto, Close
  <1>3. held = {FD, MAP} /\ size <= ULONG_MAX
    BY <1>2 DEF IInv, HeaderInv
  <1>4. \/ pc' = "fault" /\ held' = held
        \/ pc' = "return" /\ held' = {}
    BY <1>2, <1>3
  <1>5. TypeOK'
    BY <1>2, <1>4 DEF IInv, TypeOK, Stays, Ended
  <1>6. HeaderShown'
    <2> DEFINE h == arg.header
    <2>1. SUFFICES ASSUME pc' = "return", Whole PROVE HeaderShown'
      BY <1>2 DEF HeaderShown, Whole, Stays
    <2>2. big = (h.data = ELFDATA2MSB)
      BY <1>1, <1>2, <2>1 DEF IInv, HeaderInv
    <2>3. /\ Read16(5, big) = h.type /\ Read16(7, big) = h.machine /\ Read32(9, big) = h.version
          /\ h.class # ELFCLASS64 \/ (h.data = ELFDATA2LSB /\ h.entry < Power(BASE, 4))
               => Read32(13, big) = h.entry
      BY <1>2, <2>1, <2>2, FileFact, HeaderFact
    <2>4. out = << IF h.class = ELFCLASS64 THEN 64 ELSE 32, h.data, Named(h.osabi, KnownOsabi) >>
      BY <1>2, <2>1 DEF IInv, HeaderInv
    <2>5. out' = out \o << Named(h.type, KnownTypes), Named(h.machine, KnownMachines),
                           h.version, Read32(13, big) >>
      BY <1>2, <2>1, <2>3
    <2>6. /\ SubSeq(out', 1, 6) =
               << IF h.class = ELFCLASS64 THEN 64 ELSE 32, h.data, Named(h.osabi, KnownOsabi),
                  Named(h.type, KnownTypes), Named(h.machine, KnownMachines), h.version >>
           /\ out'[7] = Read32(13, big)
      <3>1. PICK a, b, c, d, e, f, g :
              /\ a = (IF h.class = ELFCLASS64 THEN 64 ELSE 32) /\ b = h.data
              /\ c = Named(h.osabi, KnownOsabi) /\ d = Named(h.type, KnownTypes)
              /\ e = Named(h.machine, KnownMachines) /\ f = h.version
              /\ g = Read32(13, big)
        OBVIOUS
      <3>2. out' = <<a, b, c>> \o <<d, e, f, g>>
        BY <2>4, <2>5, <3>1, Zenon
      <3>3. /\ SubSeq(<<a, b, c>> \o <<d, e, f, g>>, 1, 6) = <<a, b, c, d, e, f>>
            /\ (<<a, b, c>> \o <<d, e, f, g>>)[7] = g
        BY SevenLines
      <3>4. SubSeq(out', 1, 6) = <<a, b, c, d, e, f>> /\ out'[7] = g
        BY <3>2, <3>3, Zenon
      <3> QED BY <3>1, <3>4, Zenon
    <2> QED BY <1>2, <2>3, <2>6 DEF HeaderShown, Stays
  <1>7. HeaderInv'
    BY <1>2, <1>3, <1>4, <1>6 DEF HeaderInv, Stays
  <1> QED BY <1>2, <1>5, <1>7, NotHeaderInv DEF IInv, Stays

-----------------------------------------------------------------------------
(* The file is cut, or the memory is gone.                                 *)

(* A file that is whole after it was cut was whole before.                 *)
LEMMA CutInv ==
  ASSUME IInv, Cut PROVE IInv'
  <1>1. /\ fn = "hreadelf" \/ fn = "dump_write_buffer"
        /\ pc # "return" /\ UNCHANGED <<fn, arg, pc, n, i, held, out>>
        /\ size' \in Nat /\ size' < size /\ size \in Nat
    BY WordsAssumption DEF Cut, Ended, IInv, TypeOK
  <1>2. TypeOK' /\ ArgumentInv' /\ ListInv' /\ DivisorInv' /\ FactorsRight' /\ NumberInv'
    <2>1. NumberInv'
      BY <1>1 DEF IInv, NumberInv, NumberShown
    <2> QED BY <1>1, <2>1 DEF IInv, TypeOK, ArgumentInv, ListInv, DivisorInv, FactorsRight
  <1>3. CASE fn = "hreadelf"
    <2>1. size <= ULONG_MAX /\ ULONG_MAX \in Nat
      BY <1>3, FileFact
    <2>2. Whole' => Whole
      <3>1. PICK h \in ElfHeaders : h = arg.header
        BY <1>3, FileFact DEF ElfFiles
      <3>2. Len(Contents(h)) \in Nat
        <4>1. \E aw \in {4, 8} : Len(Contents(h)) = 12 + aw
          BY ContentsFact
        <4> QED BY <4>1
      <3>3. arg' = arg
        BY <1>1
      <3> HIDE DEF ELFDATA2LSB, ELFDATA2MSB
      <3> QED BY <1>1, <3>1, <3>2, <3>3 DEF Whole
    <2>3. HeaderInv'
      BY <1>1, <1>3, <2>1, <2>2 DEF IInv, HeaderInv, HeaderShown
    <2>4. DumpInv'
      BY <1>1, <1>3 DEF DumpInv
    <2> QED BY <1>2, <2>3, <2>4 DEF IInv
  <1>4. CASE fn = "dump_write_buffer"
    <2>1. HeaderInv'
      BY <1>1, <1>4 DEF HeaderInv
    <2>2. DumpInv'
      <3>1. Len(arg.memory) \in Nat
        BY <1>4, DumpFact
      <3> QED BY <1>1, <1>4, <3>1 DEF IInv, DumpInv
    <2> QED BY <1>2, <2>1, <2>2 DEF IInv
  <1> QED BY <1>1, <1>3, <1>4
-----------------------------------------------------------------------------
(* The whole specification.                                                *)

LEMMA InitInv ==
  ASSUME Init PROVE IInv
  <1>1. PICK c \in Calls : fn = c.fn /\ arg = c.arg
    BY DEF Init
  <1>2. /\ pc = "call" /\ n = 0 /\ i = 0 /\ held = {} /\ out = <<>>
        /\ fn = "hreadelf" => size = arg.size
        /\ fn = "dump_write_buffer" => size = Len(arg.memory)
        /\ fn \notin {"hreadelf", "dump_write_buffer"} => size = 0
    BY DEF Init
  <1>3. ULONG_MAX \in Nat
    BY WordFact
  <1>4. ArgumentInv
    BY <1>1, WordsAssumption DEF ArgumentInv
  <1>5. size \in Nat /\ (fn = "hreadelf" => size <= ULONG_MAX)
    <2>1. CASE fn = "hreadelf"
      <3>1. arg.size \in 0 .. ULONG_MAX
        BY <1>4, <2>1 DEF ArgumentInv, ElfFiles
      <3> QED BY <1>2, <1>3, <2>1, <3>1
    <2>2. CASE fn = "dump_write_buffer"
      <3>1. arg.memory \in Seq(Characters)
        BY <1>4, <2>2 DEF ArgumentInv, WriteBuffers, Characters
      <3> QED BY <1>2, <2>2, <3>1
    <2>3. CASE fn \notin {"hreadelf", "dump_write_buffer"}
      BY <1>2, <2>3
    <2> QED BY <2>1, <2>2, <2>3
  <1>6. TypeOK
    BY <1>2, <1>3, <1>5 DEF TypeOK
  <1>7. ListInv
    <2>1. out \in Seq(Nat)
      BY <1>2
    <2> QED BY <1>2, <2>1 DEF ListInv, Counting
  <1>8. DivisorInv /\ FactorsRight
    BY <1>2 DEF DivisorInv, FactorsRight, Counting
  <1>9. NumberInv
    BY <1>2 DEF NumberInv, NumberShown
  <1>10. HeaderInv
    BY <1>2, <1>5 DEF HeaderInv, HeaderShown
  <1>11. DumpInv
    BY <1>2, <1>5 DEF DumpInv
  <1> QED BY <1>4, <1>6, <1>7, <1>8, <1>9, <1>10, <1>11 DEF IInv

LEMMA StutterInv ==
  ASSUME IInv, UNCHANGED vars PROVE IInv'
  <1>1. UNCHANGED <<fn, arg, pc, n, i, held, out, size>>
    BY DEF vars
  <1>2. TypeOK' /\ ArgumentInv' /\ ListInv' /\ DivisorInv' /\ FactorsRight'
    BY <1>1 DEF IInv, TypeOK, ArgumentInv, ListInv, DivisorInv, FactorsRight
  <1>3. NumberInv'
    BY <1>1 DEF IInv, NumberInv, NumberShown
  <1>4. HeaderInv'
    <2>1. Whole' <=> Whole
      BY <1>1 DEF Whole
    <2>2. HeaderShown' <=> HeaderShown
      BY <1>1 DEF HeaderShown
    <2> QED BY <1>1, <2>1, <2>2 DEF IInv, HeaderInv
  <1>5. DumpInv'
    BY <1>1 DEF IInv, DumpInv
  <1> QED BY <1>2, <1>3, <1>4, <1>5 DEF IInv

(* The invariant holds in every state of every call.                       *)
THEOREM WordsInvariant == Spec => []IInv
  <1>1. Init => IInv
    BY InitInv
  <1>2. IInv /\ [Next]_vars => IInv'
    <2> SUFFICES ASSUME IInv, [Next]_vars PROVE IInv'
      OBVIOUS
    <2>1. CASE Factorisation
      BY <2>1, PrimeFactorsInv, HalveInv, FirstOddInv, TryDivisorInv, DivideInv, NextDivisorInv,
         LastFactorInv DEF Factorisation
    <2>2. CASE PythonInt
      BY <2>2, PrintPythonIntInv, NextDigitInv, PrintNumberInv DEF PythonInt
    <2>3. CASE ReadElf
      BY <2>3, OpenFileInv, FstatInv, MmapInv, ProcessElfHeaderInv, PrintDataInv,
         PrintElfHeaderInv DEF ReadElf
    <2>4. CASE Dump
      BY <2>4, DumpWriteBufferInv, PeekWordInv, DumpEndsInv DEF Dump
    <2>5. CASE Cut
      BY <2>5, CutInv
    <2>6. CASE Done \/ UNCHANGED vars
      BY <2>6, StutterInv DEF Done
    <2> QED BY <2>1, <2>2, <2>3, <2>4, <2>5, <2>6 DEF Next, Call
  <1> QED BY <1>1, <1>2, PTL DEF Spec

(* prime_factors returns the prime factors of the number in order, for     *)
(* every number and word: neither the square of a divisor nor a divisor    *)
(* that goes round makes it return a wrong list, or a list for zero.       *)
THEOREM FactorsAreRight == Spec => []FactorsRight
  <1>1. IInv => FactorsRight
    BY DEF IInv
  <1> QED BY <1>1, WordsInvariant, PTL

(* print_python_int prints a number exactly if it fits in an unsigned      *)
(* long, hreadelf the fields of a header in either order of bytes, and     *)
(* dump_write_buffer what was written, as far as the memory was there to   *)
(* be read in whole words.                                                 *)
THEOREM ShownIsGiven == Spec => []Shown
  <1>1. ASSUME IInv PROVE Shown
    <2>1. NumberShown
      <3>1. CASE fn = "print_python_int"
        BY <1>1, <3>1 DEF IInv, NumberInv
      <3>2. CASE fn # "print_python_int"
        <4>1. pc # "overflow"
          BY <1>1, <3>2 DEF IInv, ArgumentInv, ListInv, HeaderInv, DumpInv, Counting
        <4> QED BY <3>2, <4>1 DEF NumberShown
      <3> QED BY <3>1, <3>2
    <2>2. HeaderShown
      <3>1. CASE fn = "hreadelf"
        BY <1>1, <3>1 DEF IInv, HeaderInv
      <3>2. CASE fn # "hreadelf"
        BY <3>2 DEF HeaderShown
      <3> QED BY <3>1, <3>2
    <2>3. WrittenShown
      BY <1>1, DumpShown
    <2> QED BY <2>1, <2>2, <2>3 DEF Shown
  <1> QED BY <1>1, WordsInvariant, PTL

(* prime_factors that gives up has freed all, hreadelf that ends has its   *)
(* file closed and unmapped, and a list that is returned has the blocks of *)
(* its factors and no others.                                              *)
THEOREM WordsRelease == Spec => []Released
  <1>1. ASSUME IInv PROVE Released
    <2>1. TypeOK
      BY <1>1 DEF IInv
    <2>2. pc \in {"NULL", "98"} \/ (fn = "hreadelf" /\ pc = "return") => held = {}
      BY <1>1 DEF IInv, ArgumentInv, ListInv, NumberInv, HeaderInv, DumpInv, Counting
    <2>3. fn = "prime_factors" /\ pc = "return" =>
            held = {FactorList} \cup UNION {NodeBlocks(k) : k \in DOMAIN out}
      <3>1. SUFFICES ASSUME fn = "prime_factors", pc = "return"
                     PROVE  held = {FactorList} \cup UNION {NodeBlocks(k) : k \in DOMAIN out}
        OBVIOUS
      <3>2. held = Blocks(Len(out)) /\ out \in Seq(Nat)
        BY <1>1, <3>1 DEF IInv, ListInv
      <3>3. DOMAIN out = 1 .. Len(out)
        BY <3>2
      <3> QED BY <3>2, <3>3 DEF Blocks
    <2> QED BY <2>1, <2>2, <2>3 DEF Released
  <1> QED BY <1>1, WordsInvariant, PTL
=============================================================================
