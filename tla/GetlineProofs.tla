---------------------------- MODULE GetlineProofs ----------------------------
(***************************************************************************)
(* Proofs about the programs of getline/: _getline, for any descriptors,   *)
(* files and buffer size, and race_state, for any cars and arrays.         *)
(***************************************************************************)
EXTENDS Getline, Laps, FiniteSetTheorems, SequenceTheorems, WellFoundedInduction, TLAPS

Content == {NL} \union Chars

TypeInv ==
  /\ file \in [Fds -> {NULL} \union Seq(Content)]
  /\ at \in [Fds -> 0 .. MaxLength] /\ opens \in 0 .. MaxOpens
  /\ buffer \in [Fds -> Seq(Content)]
  /\ bytes_read \in [Fds -> Int] /\ offset \in [Fds -> Int]
  /\ \A fd \in Fds : /\ Len(buffer[fd]) <= READ_SIZE
                     /\ bytes_read[fd] \in -1 .. Len(buffer[fd])
                     /\ offset[fd] \in 0 .. Len(buffer[fd])
  /\ got \in [Fds -> Seq(Seq(Chars))]
  /\ last \in [Fds -> {"none", "line", "NULL"}]
  /\ faults \in 0 .. MaxFaults
  /\ readError \subseteq Fds /\ noMemory \subseteq Fds
  /\ cur \in Fds \union {NONE} /\ line \in {NULL} \union Seq(Chars)
  /\ callError \in Fds \union {NONE}

(* The call that runs, and its line. *)
CallInv ==
  /\ cur # NONE => cur < MAX_FDS /\ file[cur] # NULL
  /\ line # NULL => cur # NONE /\ line # <<>>

LineNow(fd) == IF cur = fd THEN LineSoFar ELSE <<>>
Sound(fd) == fd \notin readError \union noMemory

(* Where the buffer is empty. *)
EmptyInv(fd) ==
  /\ fd >= MAX_FDS => at[fd] = 0 /\ Empty(fd)
  /\ file[fd] = NULL =>
       got[fd] = <<>> /\ last[fd] = "none" /\ fd \notin readError
  /\ file[fd] = NULL /\ fd \notin noMemory => Empty(fd)
  /\ last[fd] = "NULL" /\ fd \notin noMemory /\ cur # fd => Empty(fd)
  /\ file[fd] # NULL => at[fd] <= Len(file[fd]) /\ Len(file[fd]) <= MaxLength

(* What was returned, what is being built and what is in the buffer are    *)
(* what was read, with the newlines put back.                              *)
WholeInv(fd) ==
  file[fd] # NULL /\ Sound(fd) =>
    /\ \/ Joined(got[fd]) \o LineNow(fd) \o Buffered(fd) = SubSeq(file[fd], 1, at[fd])
       \/ /\ EndsInside(file[fd]) /\ Joined(got[fd]) = Append(file[fd], NL)
          /\ at[fd] = Len(file[fd]) /\ Empty(fd) /\ LineNow(fd) = <<>>
    /\ last[fd] = "NULL" /\ fd < MAX_FDS =>
         at[fd] = Len(file[fd]) /\ Empty(fd) /\ LineNow(fd) = <<>>

Returned(fd) == UNION {Text(got[fd][k]) : k \in DOMAIN got[fd]}
Gathered(fd) == Returned(fd) \union Text(LineNow(fd)) \union Text(Buffered(fd))

LostInv(fd) ==
  file[fd] # NULL /\ fd \notin noMemory =>
    Text(SubSeq(file[fd], 1, at[fd])) = Gathered(fd)

Ordered(s) == \A i, j \in DOMAIN s : i < j /\ NL \notin {s[i], s[j]} => Before(s[i], s[j])
Precedes(A, B) == \A x \in A, y \in B : Before(x, y)

OrderInv(fd) ==
  /\ \A k \in DOMAIN got[fd] : Ordered(got[fd][k])
  /\ \A k, l \in DOMAIN got[fd] :
       k < l => Precedes(Text(got[fd][k]), Text(got[fd][l]))
  /\ Ordered(LineNow(fd)) /\ Ordered(Buffered(fd))
  /\ Precedes(Returned(fd), Text(LineNow(fd)))
  /\ Precedes(Returned(fd), Text(Buffered(fd)))
  /\ Precedes(Text(LineNow(fd)), Text(Buffered(fd)))

(* A file has characters of its own, later than all that were read before. *)
SourceInv(fd) ==
  IF file[fd] = NULL
    THEN \A x \in Gathered(fd) : x[1] <= opens
    ELSE \E n \in 1 .. opens :
           /\ \A i \in DOMAIN file[fd] : file[fd][i] \in {NL, <<n, i>>}
           /\ Precedes(Gathered(fd), {<<n, at[fd] + 1>>})

FdInv(fd) ==
  EmptyInv(fd) /\ WholeInv(fd) /\ LostInv(fd) /\ OrderInv(fd) /\ SourceInv(fd)

IInv == TypeInv /\ CallInv /\ \A fd \in Fds : FdInv(fd)
-----------------------------------------------------------------------------
Below == OpToRel(<, Nat)

LEMMA LeastFact ==
  ASSUME NEW S, S \subseteq Nat, S # {}
  PROVE  Min(S) \in S /\ \A j \in S : Min(S) <= j
  <1>1. \A i, j \in Nat : <<j, i>> \in Below <=> j < i
    BY DEF OpToRel, Below
  <1>2. IsWellFoundedOn(Below, Nat)
    BY NatLessThanWellFounded DEF Below
  <1>3. PICK i \in S : \A j \in S : <<j, i>> \notin Below
    BY <1>2, WFMin
  <1>4. \A j \in S : i <= j
    <2> TAKE j \in S
    <2>1. ~ (j < i)
      BY <1>1, <1>3
    <2> QED BY <2>1
  <1> QED BY <1>4, Zenon DEF Min

(* What holds for 0 and for the successor of each number it holds for.     *)
LEMMA Induction ==
  ASSUME NEW S, 0 \in S, \A n \in Nat : n \in S => n + 1 \in S
  PROVE  \A n \in Nat : n \in S
  <1> DEFINE T == {n \in Nat : n \notin S}
  <1>1. SUFFICES ASSUME T # {} PROVE FALSE
    OBVIOUS
  <1>2. PICK m \in T : \A j \in T : m <= j
    BY <1>1, LeastFact
  <1>3. m # 0 /\ m - 1 \in Nat /\ m - 1 \notin T
    BY <1>2
  <1> QED BY <1>2, <1>3

(* The function by which FlattenSeq is defined. *)
Flattens(s, f) ==
  f = [i \in 1 .. Len(s) |-> IF i = 1 THEN s[i] ELSE f[i - 1] \o s[i]]

LEMMA FlattensExists ==
  ASSUME NEW s
  PROVE  \A n \in Nat : \E f : f = [i \in 1 .. n |-> IF i = 1 THEN s[i] ELSE f[i - 1] \o s[i]]
  <1> DEFINE Body(f, i) == IF i = 1 THEN s[i] ELSE f[i - 1] \o s[i]
             S == {n \in Nat : \E f : f = [i \in 1 .. n |-> Body(f, i)]}
  <1>1. 0 \in S
    <2> DEFINE f == [i \in 1 .. 0 |-> <<>>]
    <2>1. f = [i \in 1 .. 0 |-> Body(f, i)]
      OBVIOUS
    <2> QED BY <2>1
  <1>2. ASSUME NEW n \in Nat, n \in S PROVE n + 1 \in S
    <2>1. PICK f : f = [i \in 1 .. n |-> Body(f, i)]
      BY <1>2
    <2> DEFINE g == [i \in 1 .. n + 1 |-> IF i = n + 1 THEN Body(f, i) ELSE f[i]]
    <2>2. \A i \in 1 .. n + 1 : i # 1 => g[i - 1] = f[i - 1]
      OBVIOUS
    <2>3. \A i \in 1 .. n + 1 : Body(g, i) = Body(f, i)
      BY <2>2
    <2>4. \A i \in 1 .. n : f[i] = Body(f, i)
      BY <2>1
    <2>5. \A i \in 1 .. n + 1 : i # n + 1 => i \in 1 .. n
      OBVIOUS
    <2> HIDE DEF Body
    <2>6. \A i \in 1 .. n + 1 : g[i] = Body(g, i)
      BY <2>3, <2>4, <2>5
    <2>7. g = [i \in 1 .. n + 1 |-> Body(g, i)]
      BY <2>6
    <2> HIDE DEF g
    <2>8. \E h : h = [i \in 1 .. n + 1 |-> Body(h, i)]
      BY <2>7
    <2> QED BY <2>8
  <1> HIDE DEF S
  <1>3. \A n \in Nat : n \in S
    BY <1>1, <1>2, Induction
  <1> QED BY <1>3 DEF S

LEMMA FlattenFact ==
  ASSUME NEW s, Len(s) \in Nat \ {0}
  PROVE  \E f : Flattens(s, f) /\ FlattenSeq(s) = f[Len(s)]
  <1>1. \E f : Flattens(s, f)
    BY FlattensExists DEF Flattens
  <1>2. FlattenSeq(s) = (CHOOSE f : Flattens(s, f))[Len(s)]
    BY DEF FlattenSeq, Flattens
  <1> QED BY <1>1, <1>2

LEMMA FlattensStep ==
  ASSUME NEW s, NEW f, Flattens(s, f), NEW i \in 1 .. Len(s)
  PROVE  f[i] = IF i = 1 THEN s[i] ELSE f[i - 1] \o s[i]
  <1> DEFINE h == [j \in 1 .. Len(s) |-> IF j = 1 THEN s[j] ELSE f[j - 1] \o s[j]]
  <1>1. f = h
    BY DEF Flattens
  <1>2. h[i] = IF i = 1 THEN s[i] ELSE f[i - 1] \o s[i]
    OBVIOUS
  <1> HIDE DEF h
  <1> QED BY <1>1, <1>2

LEMMA FlattensAgree ==
  ASSUME NEW s, NEW t, NEW f, NEW g, Flattens(s, f), Flattens(t, g),
         NEW n \in Nat, Len(s) \in Nat, Len(t) \in Nat, n <= Len(s), n <= Len(t),
         \A i \in 1 .. n : s[i] = t[i]
  PROVE  \A i \in 1 .. n : f[i] = g[i]
  <1> DEFINE S == {i \in Nat : i \in 1 .. n => f[i] = g[i]}
  <1>1. 0 \in S
    OBVIOUS
  <1>2. ASSUME NEW i \in Nat, i \in S, i + 1 \in 1 .. n PROVE f[i + 1] = g[i + 1]
    <2>1. i + 1 \in 1 .. Len(s) /\ i + 1 \in 1 .. Len(t) /\ s[i + 1] = t[i + 1]
      BY <1>2
    <2>2. /\ f[i + 1] = IF i + 1 = 1 THEN s[i + 1] ELSE f[i] \o s[i + 1]
          /\ g[i + 1] = IF i + 1 = 1 THEN t[i + 1] ELSE g[i] \o t[i + 1]
      <3>1. i + 1 - 1 = i
        OBVIOUS
      <3>2. /\ f[i + 1] = IF i + 1 = 1 THEN s[i + 1] ELSE f[i + 1 - 1] \o s[i + 1]
            /\ g[i + 1] = IF i + 1 = 1 THEN t[i + 1] ELSE g[i + 1 - 1] \o t[i + 1]
        BY <2>1, FlattensStep
      <3> QED BY <3>1, <3>2
    <2>3. CASE i = 0
      BY <2>1, <2>2, <2>3
    <2>4. CASE i # 0
      BY <1>2, <2>1, <2>2, <2>4
    <2> QED BY <2>3, <2>4
  <1>3. \A i \in Nat : i \in S => i + 1 \in S
    BY <1>2
  <1> HIDE DEF S
  <1>4. \A i \in Nat : i \in S
    BY <1>1, <1>3, Induction
  <1> QED BY <1>4 DEF S

LEMMA FlattensType ==
  ASSUME NEW X, NEW s \in Seq(Seq(X)), NEW f, Flattens(s, f)
  PROVE  \A i \in 1 .. Len(s) : f[i] \in Seq(X)
  <1> DEFINE S == {i \in Nat : i \in 1 .. Len(s) => f[i] \in Seq(X)}
  <1>1. 0 \in S
    OBVIOUS
  <1>2. ASSUME NEW i \in Nat, i \in S, i + 1 \in 1 .. Len(s) PROVE f[i + 1] \in Seq(X)
    <2>1. f[i + 1] = IF i + 1 = 1 THEN s[i + 1] ELSE f[i] \o s[i + 1]
      <3>1. i + 1 - 1 = i
        OBVIOUS
      <3>2. f[i + 1] = IF i + 1 = 1 THEN s[i + 1] ELSE f[i + 1 - 1] \o s[i + 1]
        BY <1>2, FlattensStep
      <3> QED BY <3>1, <3>2
    <2>2. s[i + 1] \in Seq(X)
      BY <1>2
    <2>3. CASE i = 0
      BY <2>1, <2>2, <2>3
    <2>4. CASE i # 0
      <3>1. f[i] \in Seq(X)
        BY <1>2, <2>4
      <3> QED BY <2>1, <2>2, <2>4, <3>1
    <2> QED BY <2>3, <2>4
  <1>3. \A i \in Nat : i \in S => i + 1 \in S
    <2> SUFFICES ASSUME NEW i \in Nat, i \in S PROVE i + 1 \in S
      OBVIOUS
    <2>1. i + 1 \in 1 .. Len(s) => f[i + 1] \in Seq(X)
      BY <1>2
    <2> QED BY <2>1
  <1> HIDE DEF S
  <1>4. \A i \in Nat : i \in S
    BY <1>1, <1>3, Induction
  <1> QED BY <1>4 DEF S

LEMMA FlattenAppend ==
  ASSUME NEW X, NEW s \in Seq(Seq(X)), NEW l \in Seq(X)
  PROVE  /\ FlattenSeq(s) \in Seq(X)
         /\ FlattenSeq(Append(s, l)) = FlattenSeq(s) \o l
  <1> DEFINE t == Append(s, l)
  <1>1. /\ t \in Seq(Seq(X)) /\ Len(t) = Len(s) + 1 /\ Len(s) \in Nat
        /\ t[Len(s) + 1] = l
        /\ \A i \in 1 .. Len(s) : s[i] = t[i]
    OBVIOUS
  <1> HIDE DEF t
  <1>2. PICK g : Flattens(t, g) /\ FlattenSeq(t) = g[Len(t)]
    BY <1>1, FlattenFact
  <1>3. g[Len(s) + 1] = IF Len(s) + 1 = 1 THEN l ELSE g[Len(s)] \o l
    <2>1. Len(s) + 1 \in 1 .. Len(t) /\ Len(s) + 1 - 1 = Len(s)
      BY <1>1
    <2>2. g[Len(s) + 1] =
            IF Len(s) + 1 = 1 THEN t[Len(s) + 1] ELSE g[Len(s) + 1 - 1] \o t[Len(s) + 1]
      BY <1>2, <2>1, FlattensStep
    <2> QED BY <1>1, <2>1, <2>2
  <1>4. CASE Len(s) = 0
    <2>1. s = <<>> /\ FlattenSeq(s) = <<>>
      BY <1>4 DEF FlattenSeq
    <2>2. <<>> \o l = l /\ <<>> \in Seq(X)
      OBVIOUS
    <2>3. FlattenSeq(t) = l
      BY <1>1, <1>2, <1>3, <1>4
    <2> QED BY <2>1, <2>2, <2>3 DEF t
  <1>5. CASE Len(s) # 0
    <2>1. PICK f : Flattens(s, f) /\ FlattenSeq(s) = f[Len(s)]
      BY <1>1, <1>5, FlattenFact
    <2>2. f[Len(s)] = g[Len(s)]
      <3>1. \A i \in 1 .. Len(s) : f[i] = g[i]
        <4> DEFINE n == Len(s)
        <4>1. n \in Nat /\ n <= Len(s) /\ n <= Len(t) /\ Len(s) \in Nat /\ Len(t) \in Nat
          BY <1>1
        <4>2. \A i \in 1 .. n : s[i] = t[i]
          BY <1>1
        <4>3. Flattens(s, f) /\ Flattens(t, g)
          BY <1>2, <2>1
        <4> HIDE DEF n
        <4>4. \A i \in 1 .. n : f[i] = g[i]
          BY <4>1, <4>2, <4>3, FlattensAgree
        <4> QED BY <4>4 DEF n
      <3> QED BY <1>1, <1>5, <3>1
    <2>3. f[Len(s)] \in Seq(X)
      BY <1>1, <1>5, <2>1, FlattensType
    <2> QED BY <1>1, <1>2, <1>3, <1>5, <2>1, <2>2, <2>3 DEF t
  <1> QED BY <1>1, <1>4, <1>5

(* One more line is one more at the end. *)
LEMMA JoinedFact ==
  ASSUME NEW s \in Seq(Seq(Chars)), NEW l \in Seq(Chars)
  PROVE  /\ Joined(s) \in Seq({NL} \union Chars)
         /\ Joined(Append(s, l)) = Joined(s) \o Append(l, NL)
         /\ Joined(<<>>) = <<>>
  <1> DEFINE C == {NL} \union Chars
             E(u) == [k \in DOMAIN u |-> Append(u[k], NL)]
  <1>1. \A u \in Seq(Chars) : Append(u, NL) \in Seq(C)
    <2> TAKE u \in Seq(Chars)
    <2>1. u \in Seq(C) /\ NL \in C
      BY SeqMonotonic
    <2> QED BY <2>1, AppendProperties
  <1> HIDE DEF C
  <1>2. E(s) \in Seq(Seq(C)) /\ Len(E(s)) = Len(s)
    <2>1. DOMAIN s = 1 .. Len(s) /\ Len(s) \in Nat
      OBVIOUS
    <2>2. \A k \in 1 .. Len(s) : Append(s[k], NL) \in Seq(C)
      BY <1>1
    <2>3. E(s) = [k \in 1 .. Len(s) |-> Append(s[k], NL)]
      BY <2>1
    <2> HIDE DEF E
    <2> QED BY <2>1, <2>2, <2>3
  <1>3. E(Append(s, l)) = Append(E(s), Append(l, NL))
    <2>1. /\ Append(s, l) \in Seq(Seq(Chars)) /\ Len(Append(s, l)) = Len(s) + 1
          /\ DOMAIN Append(s, l) = 1 .. Len(s) + 1 /\ DOMAIN s = 1 .. Len(s)
          /\ \A i \in 1 .. Len(s) : Append(s, l)[i] = s[i]
          /\ Append(s, l)[Len(s) + 1] = l
          /\ Len(s) \in Nat
      OBVIOUS
    <2>2. E(Append(s, l)) \in Seq(Seq(C)) /\ Len(E(Append(s, l))) = Len(s) + 1
      BY <1>1, <2>1
    <2>3. /\ Append(E(s), Append(l, NL)) \in Seq(Seq(C))
          /\ Len(Append(E(s), Append(l, NL))) = Len(s) + 1
          /\ \A i \in 1 .. Len(s) : Append(E(s), Append(l, NL))[i] = E(s)[i]
          /\ Append(E(s), Append(l, NL))[Len(s) + 1] = Append(l, NL)
      BY <1>1, <1>2, <2>1, AppendProperties
    <2>4. \A i \in 1 .. Len(s) + 1 : E(Append(s, l))[i] = Append(E(s), Append(l, NL))[i]
      BY <2>1, <2>3
    <2> HIDE DEF E
    <2> QED BY <2>2, <2>3, <2>4, SeqEqual
  <1>4. Joined(s) = FlattenSeq(E(s)) /\ Joined(Append(s, l)) = FlattenSeq(E(Append(s, l)))
    BY DEF Joined
  <1>5. Joined(<<>>) = <<>>
    BY DEF Joined, FlattenSeq
  <1> HIDE DEF E
  <1> QED BY <1>1, <1>2, <1>3, <1>4, <1>5, FlattenAppend DEF C
-----------------------------------------------------------------------------
LEMMA CharsFact ==
  /\ NL \notin Chars
  /\ \A c \in Chars : c[1] \in 1 .. MaxOpens /\ c[2] \in 1 .. MaxLength /\ c = <<c[1], c[2]>>
  <1>1. ASSUME NEW c \in Chars PROVE c # <<>>
    <2>1. PICK a, b : c = <<a, b>>
      BY DEF Chars
    <2>2. Len(<<a, b>>) = 2 /\ Len(<<>>) = 0
      OBVIOUS
    <2> QED BY <2>1, <2>2
  <1> QED BY <1>1 DEF NL, Chars

LEMMA TextFact ==
  ASSUME NEW s \in Seq(Content), NEW t \in Seq(Content)
  PROVE  /\ Text(s \o t) = Text(s) \union Text(t)
         /\ Ordered(s \o t) <=> Ordered(s) /\ Ordered(t) /\ Precedes(Text(s), Text(t))
  <1> DEFINE u == s \o t
  <1>1. /\ Len(s) \in Nat /\ Len(t) \in Nat /\ Len(u) = Len(s) + Len(t)
        /\ DOMAIN s = 1 .. Len(s) /\ DOMAIN t = 1 .. Len(t)
        /\ DOMAIN u = 1 .. Len(s) + Len(t)
        /\ \A i \in DOMAIN s : i \in DOMAIN u /\ u[i] = s[i]
        /\ \A i \in DOMAIN t : Len(s) + i \in DOMAIN u /\ u[Len(s) + i] = t[i]
    BY ConcatProperties
  <1>2. \A i \in DOMAIN u :
          i \in DOMAIN s \/ (i - Len(s) \in DOMAIN t /\ i = Len(s) + (i - Len(s)))
    BY <1>1
  <1> HIDE DEF u
  <1>3. Text(u) = Text(s) \union Text(t)
    BY <1>1, <1>2 DEF Text
  <1>4. ASSUME Ordered(u) PROVE Ordered(s) /\ Ordered(t) /\ Precedes(Text(s), Text(t))
    <2>1. Ordered(s)
      BY <1>1, <1>4 DEF Ordered
    <2>2. Ordered(t)
      <3> SUFFICES ASSUME NEW i \in DOMAIN t, NEW j \in DOMAIN t, i < j, NL \notin {t[i], t[j]}
                   PROVE  Before(t[i], t[j])
        BY DEF Ordered
      <3>1. Len(s) + i < Len(s) + j
        BY <1>1
      <3> QED BY <1>1, <1>4, <3>1 DEF Ordered
    <2>3. Precedes(Text(s), Text(t))
      <3> SUFFICES ASSUME NEW i \in DOMAIN s, NEW j \in DOMAIN t, NL \notin {s[i], t[j]}
                   PROVE  Before(s[i], t[j])
        BY DEF Precedes, Text
      <3>1. i < Len(s) + j
        BY <1>1
      <3> QED BY <1>1, <1>4, <3>1 DEF Ordered
    <2> QED BY <2>1, <2>2, <2>3
  <1>5. ASSUME Ordered(s), Ordered(t), Precedes(Text(s), Text(t)) PROVE Ordered(u)
    <2> SUFFICES ASSUME NEW i \in DOMAIN u, NEW j \in DOMAIN u, i < j, NL \notin {u[i], u[j]}
                 PROVE  Before(u[i], u[j])
      BY DEF Ordered
    <2>1. CASE i \in DOMAIN s /\ j \in DOMAIN s
      BY <1>1, <1>5, <2>1 DEF Ordered
    <2>2. CASE i \in DOMAIN s /\ j \notin DOMAIN s
      <3>1. s[i] = u[i] /\ u[j] = t[j - Len(s)] /\ j - Len(s) \in DOMAIN t
        BY <1>1, <1>2, <2>2
      <3>2. u[i] \in Text(s) /\ u[j] \in Text(t)
        BY <2>2, <3>1 DEF Text
      <3> QED BY <1>5, <3>2 DEF Precedes
    <2>3. CASE i \notin DOMAIN s /\ j \notin DOMAIN s
      <3>1. /\ u[i] = t[i - Len(s)] /\ i - Len(s) \in DOMAIN t
            /\ u[j] = t[j - Len(s)] /\ j - Len(s) \in DOMAIN t
            /\ i - Len(s) < j - Len(s)
        BY <1>1, <1>2, <2>3
      <3> QED BY <1>5, <3>1 DEF Ordered
    <2>4. CASE i \notin DOMAIN s /\ j \in DOMAIN s
      BY <1>1, <2>4
    <2> QED BY <2>1, <2>2, <2>3, <2>4
  <1> QED BY <1>3, <1>4, <1>5 DEF u

LEMMA NothingFact ==
  /\ Text(<<>>) = {} /\ Ordered(<<>>)
  /\ Text(<<NL>>) = {} /\ Ordered(<<NL>>)
  /\ \A A : Precedes(A, {}) /\ Precedes({}, A)
  <1>1. Text(<<>>) = {} /\ Ordered(<<>>)
    BY DEF Text, Ordered
  <1>2. DOMAIN <<NL>> = {1} /\ <<NL>>[1] = NL
    OBVIOUS
  <1>3. Text(<<NL>>) = {} /\ Ordered(<<NL>>)
    BY <1>2 DEF Text, Ordered
  <1> QED BY <1>1, <1>3 DEF Precedes

(* One more line for what was returned. *)
LEMMA ReturnedFact ==
  ASSUME NEW fd \in Fds, got[fd] \in Seq(Seq(Chars)), NEW l \in Seq(Chars),
         got'[fd] = Append(got[fd], l)
  PROVE  /\ got'[fd] \in Seq(Seq(Chars))
         /\ Returned(fd)' = Returned(fd) \union Text(l)
         /\ DOMAIN got'[fd] = 1 .. Len(got[fd]) + 1 /\ DOMAIN got[fd] = 1 .. Len(got[fd])
         /\ Len(got[fd]) \in Nat
         /\ \A k \in DOMAIN got[fd] : got'[fd][k] = got[fd][k]
         /\ got'[fd][Len(got[fd]) + 1] = l
  <1>1. /\ got'[fd] \in Seq(Seq(Chars)) /\ Len(got[fd]) \in Nat
        /\ DOMAIN got'[fd] = 1 .. Len(got[fd]) + 1 /\ DOMAIN got[fd] = 1 .. Len(got[fd])
        /\ \A k \in DOMAIN got[fd] : got'[fd][k] = got[fd][k]
        /\ got'[fd][Len(got[fd]) + 1] = l
    OBVIOUS
  <1>2. \A k \in DOMAIN got'[fd] : k \in DOMAIN got[fd] \/ k = Len(got[fd]) + 1
    BY <1>1
  <1>3. \A k \in DOMAIN got[fd] : k \in DOMAIN got'[fd]
    BY <1>1
  <1>4. Len(got[fd]) + 1 \in DOMAIN got'[fd]
    BY <1>1
  <1> QED BY <1>1, <1>2, <1>3, <1>4, Zenon DEF Returned
-----------------------------------------------------------------------------
LEMMA PiecesFact ==
  ASSUME TypeInv, NEW fd \in Fds
  PROVE  /\ Buffered(fd) \in Seq(Content)
         /\ Empty(fd) => Buffered(fd) = <<>>
         /\ LineNow(fd) \in Seq(Chars) /\ LineNow(fd) \in Seq(Content)
         /\ Joined(got[fd]) \in Seq(Content)
         /\ Gathered(fd) \subseteq Chars
  <1>1. /\ buffer[fd] \in Seq(Content) /\ bytes_read[fd] \in -1 .. Len(buffer[fd])
        /\ offset[fd] \in 0 .. Len(buffer[fd])
    BY DEF TypeInv
  <1>2. Buffered(fd) \in Seq(Content)
    <2>1. \A i \in offset[fd] + 1 .. bytes_read[fd] : buffer[fd][i] \in Content
      BY <1>1
    <2> QED BY <1>1, <2>1, SubSeqProperties DEF Buffered
  <1>3. Empty(fd) => Buffered(fd) = <<>>
    BY <1>1, SubSeqEmpty DEF Empty, Buffered
  <1>4. LineNow(fd) \in Seq(Chars)
    BY DEF TypeInv, LineNow, LineSoFar
  <1>5. LineNow(fd) \in Seq(Content)
    BY <1>4, SeqMonotonic DEF Content
  <1>6. got[fd] \in Seq(Seq(Chars)) /\ <<>> \in Seq(Chars)
    BY DEF TypeInv
  <1>7. Joined(got[fd]) \in Seq(Content)
    BY <1>6, JoinedFact DEF Content
  <1>8. Gathered(fd) \subseteq Chars
    <2>1. Text(LineNow(fd)) \subseteq Chars /\ Text(Buffered(fd)) \subseteq Chars
      BY <1>2, <1>4 DEF Text, Content
    <2>2. Returned(fd) \subseteq Chars
      BY DEF Returned, Text, TypeInv
    <2> QED BY <2>1, <2>2 DEF Gathered
  <1> QED BY <1>2, <1>3, <1>4, <1>5, <1>7, <1>8

(* A descriptor whose view does not change. *)
LEMMA ViewInv ==
  ASSUME TypeInv, NEW g \in Fds, FdInv(g), EmptyInv(g)',
         LineNow(g)' = LineNow(g), file'[g] = file[g], at'[g] = at[g], got'[g] = got[g],
         buffer'[g] = buffer[g], bytes_read'[g] = bytes_read[g], offset'[g] = offset[g],
         last'[g] = last[g] \/ g >= MAX_FDS,
         g \in readError' <=> g \in readError, g \in noMemory' <=> g \in noMemory,
         opens' \in Nat, opens <= opens'
  PROVE  FdInv(g)'
  <1>1. /\ Buffered(g)' = Buffered(g)
        /\ Empty(g)' <=> Empty(g)
        /\ Returned(g)' = Returned(g)
        /\ Sound(g)' <=> Sound(g)
    BY DEF Buffered, Empty, Returned, Sound
  <1>2. Gathered(g)' = Gathered(g)
    BY <1>1 DEF Gathered
  <1>3. MAX_FDS \in Nat /\ g \in Nat
    BY GetlineAssumption
  <1>4. WholeInv(g)'
    <2> SUFFICES ASSUME file[g] # NULL, Sound(g) PROVE WholeInv(g)'
      BY <1>1 DEF WholeInv
    <2>1. CASE g < MAX_FDS
      <3>1. last'[g] = last[g]
        BY <1>3, <2>1
      <3> QED BY <1>1, <3>1 DEF FdInv, WholeInv
    <2>2. CASE ~ (g < MAX_FDS)
      BY <1>1, <2>2 DEF FdInv, WholeInv
    <2> QED BY <2>1, <2>2
  <1>5. LostInv(g)' /\ OrderInv(g)'
    BY <1>1, <1>2 DEF FdInv, LostInv, OrderInv
  <1>6. SourceInv(g)'
    <2>1. SourceInv(g) /\ opens \in Nat
      BY GetlineAssumption DEF FdInv, TypeInv
    <2>2. CASE file[g] = NULL
      <3>1. \A x \in Gathered(g) : x[1] \in Nat
        <4>1. Gathered(g) \subseteq Chars
          BY PiecesFact
        <4> QED BY <4>1, CharsFact
      <3> QED BY <1>2, <2>1, <2>2, <3>1 DEF SourceInv
    <2>3. CASE file[g] # NULL
      <3>1. PICK n \in 1 .. opens :
              /\ \A i \in DOMAIN file[g] : file[g][i] \in {NL, <<n, i>>}
              /\ Precedes(Gathered(g), {<<n, at[g] + 1>>})
        BY <2>1, <2>3 DEF SourceInv
      <3>2. n \in 1 .. opens'
        BY <2>1
      <3> QED BY <1>2, <2>3, <3>1, <3>2 DEF SourceInv
    <2> QED BY <2>2, <2>3
  <1> QED BY <1>4, <1>5, <1>6 DEF FdInv

(* Every descriptor but the one a step is for. *)
LEMMA ElsewhereInv ==
  ASSUME TypeInv, NEW g \in Fds, FdInv(g), cur # g, cur' # g,
         file'[g] = file[g], at'[g] = at[g], got'[g] = got[g], last'[g] = last[g],
         buffer'[g] = buffer[g], bytes_read'[g] = bytes_read[g], offset'[g] = offset[g],
         g \in readError' <=> g \in readError, g \in noMemory' <=> g \in noMemory,
         opens' \in Nat, opens <= opens'
  PROVE  FdInv(g)'
  <1>1. LineNow(g)' = LineNow(g)
    BY DEF LineNow
  <1>2. Empty(g)' <=> Empty(g)
    BY DEF Empty
  <1>3. EmptyInv(g)'
    BY <1>2 DEF FdInv, EmptyInv
  <1> QED BY <1>1, <1>3, ViewInv

LEMMA InitInv == Init => IInv
  <1> SUFFICES ASSUME Init PROVE IInv
    OBVIOUS
  <1> USE GetlineAssumption DEF Init
  <1>1. TypeInv
    <2>1. <<>> \in Seq(Content) /\ <<>> \in Seq(Seq(Chars)) /\ Len(<<>>) = 0
      OBVIOUS
    <2> QED BY <2>1 DEF TypeInv
  <1>2. CallInv
    BY DEF CallInv
  <1>3. ASSUME NEW fd \in Fds PROVE FdInv(fd)
    <2>1. /\ file[fd] = NULL /\ at[fd] = 0 /\ got[fd] = <<>> /\ last[fd] = "none"
          /\ Empty(fd) /\ LineNow(fd) = <<>> /\ Buffered(fd) = <<>>
      <3>1. Empty(fd) /\ cur # fd
        BY DEF Empty
      <3> QED BY <1>1, <3>1, PiecesFact DEF LineNow
    <2>2. EmptyInv(fd)
      BY <2>1 DEF EmptyInv
    <2>3. Returned(fd) = {} /\ Gathered(fd) = {}
      BY <2>1, NothingFact DEF Returned, Gathered
    <2>4. OrderInv(fd)
      <3>1. DOMAIN got[fd] = {}
        BY <2>1
      <3>2. Text(LineNow(fd)) = {} /\ Text(Buffered(fd)) = {}
        BY <2>1, NothingFact
      <3>3. Ordered(LineNow(fd)) /\ Ordered(Buffered(fd))
        BY <2>1, NothingFact
      <3> QED BY <2>3, <3>1, <3>2, <3>3, NothingFact DEF OrderInv
    <2>5. WholeInv(fd) /\ LostInv(fd) /\ SourceInv(fd)
      BY <2>1, <2>3 DEF WholeInv, LostInv, SourceInv
    <2> QED BY <2>2, <2>4, <2>5 DEF FdInv
  <1> QED BY <1>1, <1>2, <1>3 DEF IInv
-----------------------------------------------------------------------------
LEMMA NullFact ==
  /\ NULL \notin Seq(Content) /\ NULL \notin Seq(Chars)
  /\ MaxLength \in Nat /\ MaxOpens \in Nat /\ MAX_FDS \in Nat /\ NONE \notin Fds
  /\ \A fd \in Fds : fd \in Nat
  <1>1. \A c \in Content : c \in Seq(Nat)
    <2>1. \A a, b \in Nat : <<a, b>> \in Seq(Nat)
      OBVIOUS
    <2>2. \A c \in Chars : c[1] \in Nat /\ c[2] \in Nat /\ c = <<c[1], c[2]>>
      BY CharsFact, GetlineAssumption
    <2>3. \A c \in Chars : <<c[1], c[2]>> \in Seq(Nat)
      BY <2>1, <2>2
    <2>4. <<>> \in Seq(Nat)
      OBVIOUS
    <2> QED BY <2>2, <2>3, <2>4 DEF Content, NL
  <1>2. Content \subseteq Seq(Nat) /\ Chars \subseteq Seq(Nat)
    BY <1>1 DEF Content
  <1>3. \A s \in Seq(Content) : s \in Seq(Seq(Nat))
    BY <1>2, SeqMonotonic
  <1>4. \A s \in Seq(Chars) : s \in Seq(Seq(Nat))
    BY <1>2, SeqMonotonic
  <1> QED BY <1>3, <1>4, GetlineAssumption

(* A file is opened: nothing of it was read. *)
LEMMA OpenInv ==
  ASSUME IInv, NEW fd \in Fds, Open(fd)
  PROVE  IInv'
  <1>0. TypeInv /\ CallInv /\ \A g \in Fds : FdInv(g)
    BY DEF IInv
  <1> USE NullFact
  <1>1. /\ cur = NONE /\ file[fd] = NULL /\ opens < MaxOpens /\ opens' = opens + 1
        /\ at' = [at EXCEPT ![fd] = 0]
        /\ UNCHANGED <<buffer, bytes_read, offset, cur, line, got, last, faults, readError,
                       noMemory, callError>>
    BY DEF Open, staticVars, callVars, historyVars
  <1>2. PICK c \in Contents(opens') : file' = [file EXCEPT ![fd] = c]
    BY DEF Open
  <1>3. PICK k \in 0 .. MaxLength, S \in SUBSET (1 .. MaxLength) :
          c = [i \in 1 .. k |-> IF i \in S THEN NL ELSE <<opens', i>>]
    <2> DEFINE F(k, S) == [i \in 1 .. k |-> IF i \in S THEN NL ELSE <<opens', i>>]
    <2>1. Contents(opens') = {F(k, S) : k \in 0 .. MaxLength, S \in SUBSET (1 .. MaxLength)}
      BY DEF Contents
    <2> HIDE DEF F
    <2>2. \E k \in 0 .. MaxLength, S \in SUBSET (1 .. MaxLength) : c = F(k, S)
      BY <1>2, <2>1
    <2> QED BY <2>2 DEF F
  <1>4. opens \in Nat /\ opens' \in 1 .. MaxOpens
    BY <1>0, <1>1 DEF TypeInv
  <1>5. /\ c \in Seq(Content) /\ c # NULL /\ Len(c) \in Nat
        /\ Len(c) <= MaxLength
        /\ \A i \in DOMAIN c : c[i] \in {NL, <<opens', i>>}
    <2>1. \A i \in 1 .. k : <<opens', i>> \in Chars
      BY <1>4 DEF Chars
    <2>2. \A i \in 1 .. k : c[i] \in Content
      BY <1>3, <2>1 DEF Content
    <2>3. c \in Seq(Content)
      BY <1>3, <2>2
    <2>4. \A i \in DOMAIN c : c[i] \in {NL, <<opens', i>>}
      BY <1>3
    <2>5. DOMAIN c = 1 .. k
      BY <1>3
    <2>6. Len(c) \in Nat /\ DOMAIN c = 1 .. Len(c)
      BY <2>3
    <2>7. Len(c) = k
      BY <2>5, <2>6
    <2> QED BY <2>3, <2>4, <2>7
  <1>6. file'[fd] = c /\ at'[fd] = 0
    BY <1>0, <1>1, <1>2 DEF TypeInv
  <1>7. TypeInv'
    <2>1. file' \in [Fds -> {NULL} \union Seq(Content)] /\ at' \in [Fds -> 0 .. MaxLength]
      BY <1>0, <1>1, <1>2, <1>5 DEF TypeInv
    <2> QED BY <1>0, <1>1, <1>4, <2>1, SMTT(30) DEF TypeInv
  <1>8. CallInv'
    BY <1>0, <1>1 DEF CallInv
  <1>9. ASSUME NEW g \in Fds, g # fd PROVE FdInv(g)'
    <2>1. file'[g] = file[g] /\ at'[g] = at[g]
      BY <1>0, <1>1, <1>2, <1>9 DEF TypeInv
    <2>2. cur # g /\ cur' # g
      BY <1>1
    <2>3. opens' \in Nat /\ opens <= opens'
      BY <1>1, <1>4
    <2> QED BY <1>0, <1>1, <2>1, <2>2, <2>3, ElsewhereInv
  <1>10. FdInv(fd)'
    <2>1. /\ EmptyInv(fd) /\ OrderInv(fd) /\ SourceInv(fd)
          /\ got[fd] = <<>> /\ last[fd] = "none"
          /\ fd \notin noMemory => Empty(fd)
      BY <1>0, <1>1 DEF FdInv, EmptyInv
    <2>2. /\ Buffered(fd)' = Buffered(fd) /\ LineNow(fd)' = LineNow(fd)
          /\ Returned(fd)' = Returned(fd)
          /\ Empty(fd)' <=> Empty(fd)
      BY <1>1 DEF Buffered, LineNow, LineSoFar, Empty, Returned
    <2>3. Gathered(fd)' = Gathered(fd)
      BY <2>2 DEF Gathered
    <2>4. Returned(fd) = {} /\ LineNow(fd) = <<>>
      BY <1>1, <2>1 DEF Returned, LineNow
    <2>5. SubSeq(c, 1, 0) = <<>>
      BY SubSeqEmpty
    <2>6. EmptyInv(fd)'
      BY <1>1, <1>5, <1>6, <2>1, <2>2 DEF EmptyInv
    <2>7. fd \notin noMemory => Buffered(fd) = <<>>
      BY <1>0, <2>1, PiecesFact
    <2>8. WholeInv(fd)'
      <3>1. Joined(got[fd]) = <<>>
        <4>1. <<>> \in Seq(Chars) /\ <<>> \in Seq(Seq(Chars))
          OBVIOUS
        <4> QED BY <2>1, <4>1, JoinedFact
      <3> QED BY <1>1, <1>5, <1>6, <2>1, <2>2, <2>4, <2>5, <2>7, <3>1 DEF WholeInv, Sound
    <2>9. LostInv(fd)'
      <3>1. fd \notin noMemory => Gathered(fd) = {}
        BY <2>4, <2>7, NothingFact DEF Gathered
      <3> QED BY <1>1, <1>6, <2>3, <2>5, <3>1, NothingFact DEF LostInv
    <2>10. OrderInv(fd)'
      BY <1>1, <2>1, <2>2 DEF OrderInv
    <2>11. SourceInv(fd)'
      <3>1. \A x \in Gathered(fd) : x[1] <= opens
        BY <1>1, <2>1 DEF SourceInv
      <3>2. \A x \in Gathered(fd) : x \in Chars
        BY <1>0, PiecesFact
      <3>3. Precedes(Gathered(fd), {<<opens', at'[fd] + 1>>})
        BY <1>1, <1>4, <3>1, <3>2, CharsFact DEF Precedes, Before
      <3>4. opens' \in 1 .. opens'
        BY <1>4
      <3> QED BY <1>5, <1>6, <2>3, <3>3, <3>4 DEF SourceInv
    <2> QED BY <2>6, <2>8, <2>9, <2>10, <2>11 DEF FdInv
  <1> QED BY <1>7, <1>8, <1>9, <1>10 DEF IInv

(* It is closed, once a call has returned NULL. *)
LEMMA CloseInv ==
  ASSUME IInv, NEW fd \in Fds, Close(fd)
  PROVE  IInv'
  <1>0. TypeInv /\ CallInv /\ \A g \in Fds : FdInv(g)
    BY DEF IInv
  <1> USE NullFact
  <1>1. /\ cur = NONE /\ file[fd] # NULL /\ last[fd] = "NULL"
        /\ file' = [file EXCEPT ![fd] = NULL]
        /\ got' = [got EXCEPT ![fd] = <<>>]
        /\ last' = [last EXCEPT ![fd] = "none"]
        /\ readError' = readError \ {fd}
        /\ UNCHANGED <<at, opens, buffer, bytes_read, offset, cur, line, faults, noMemory,
                       callError>>
    BY DEF Close, staticVars, callVars
  <1>2. file'[fd] = NULL /\ got'[fd] = <<>> /\ last'[fd] = "none"
    BY <1>0, <1>1 DEF TypeInv
  <1>3. TypeInv'
    BY <1>0, <1>1 DEF TypeInv
  <1>4. CallInv'
    BY <1>0, <1>1 DEF CallInv
  <1>5. opens \in Nat
    BY <1>0 DEF TypeInv
  <1>6. ASSUME NEW g \in Fds, g # fd PROVE FdInv(g)'
    <2>1. file'[g] = file[g] /\ got'[g] = got[g] /\ last'[g] = last[g]
      BY <1>0, <1>1, <1>6 DEF TypeInv
    <2>2. cur # g /\ cur' # g
      BY <1>1
    <2>3. opens' \in Nat /\ opens <= opens' /\ (g \in readError' <=> g \in readError)
      BY <1>1, <1>5, <1>6
    <2> QED BY <1>0, <1>1, <2>1, <2>2, <2>3, ElsewhereInv
  <1>7. FdInv(fd)'
    <2>1. /\ EmptyInv(fd) /\ OrderInv(fd) /\ SourceInv(fd)
          /\ fd \notin noMemory => Empty(fd)
      BY <1>0, <1>1 DEF FdInv, EmptyInv
    <2>2. /\ Buffered(fd)' = Buffered(fd) /\ LineNow(fd)' = LineNow(fd)
          /\ Empty(fd)' <=> Empty(fd)
      BY <1>1 DEF Buffered, LineNow, LineSoFar, Empty
    <2>3. Returned(fd)' = {} /\ DOMAIN got'[fd] = {}
      BY <1>2 DEF Returned
    <2>4. EmptyInv(fd)'
      BY <1>1, <1>2, <2>1, <2>2 DEF EmptyInv
    <2>5. WholeInv(fd)' /\ LostInv(fd)'
      BY <1>2 DEF WholeInv, LostInv
    <2>6. OrderInv(fd)'
      BY <2>1, <2>2, <2>3, NothingFact DEF OrderInv
    <2>7. SourceInv(fd)'
      <3>1. PICK n \in 1 .. opens : Precedes(Gathered(fd), {<<n, at[fd] + 1>>})
        BY <1>1, <2>1 DEF SourceInv
      <3>2. Gathered(fd)' \subseteq Gathered(fd)
        BY <2>2, <2>3 DEF Gathered
      <3>3. Gathered(fd)' \subseteq Chars
        BY <1>0, <3>2, PiecesFact
      <3>4. \A x \in Gathered(fd)' : x[1] <= opens
        BY <1>5, <3>1, <3>2, <3>3, CharsFact DEF Precedes, Before
      <3> QED BY <1>1, <1>2, <3>4 DEF SourceInv
    <2> QED BY <2>4, <2>5, <2>6, <2>7 DEF FdInv
  <1> QED BY <1>3, <1>4, <1>6, <1>7 DEF IInv
-----------------------------------------------------------------------------
(* return (NULL) and return (line). *)
LEMMA ReturnFact ==
  ASSUME TypeInv, NEW fd \in Fds, NEW l \in {NULL} \union Seq(Chars), Return(fd, l)
  PROVE  /\ cur' = NONE /\ line' = NULL
         /\ got' \in [Fds -> Seq(Seq(Chars))]
         /\ got'[fd] = IF l = NULL THEN got[fd] ELSE Append(got[fd], l)
         /\ last' \in [Fds -> {"none", "line", "NULL"}]
         /\ last'[fd] = IF l = NULL THEN "NULL" ELSE "line"
         /\ \A g \in Fds : g # fd => got'[g] = got[g] /\ last'[g] = last[g]
         /\ LineNow(fd)' = <<>>
  <1>1. cur' = NONE /\ line' = NULL
    BY DEF Return
  <1>2. /\ last' \in [Fds -> {"none", "line", "NULL"}]
        /\ last'[fd] = IF l = NULL THEN "NULL" ELSE "line"
        /\ \A g \in Fds : g # fd => last'[g] = last[g]
    BY DEF Return, TypeInv
  <1>3. got \in [Fds -> Seq(Seq(Chars))]
    BY DEF TypeInv
  <1>4. /\ got' \in [Fds -> Seq(Seq(Chars))]
        /\ got'[fd] = IF l = NULL THEN got[fd] ELSE Append(got[fd], l)
        /\ \A g \in Fds : g # fd => got'[g] = got[g]
    <2>1. CASE l = NULL
      BY <1>3, <2>1 DEF Return
    <2>2. CASE l # NULL
      <3>1. Append(got[fd], l) \in Seq(Seq(Chars))
        BY <1>3, <2>2, AppendProperties
      <3>2. got' = [got EXCEPT ![fd] = Append(got[fd], l)]
        BY <2>2 DEF Return
      <3> QED BY <1>3, <2>2, <3>1, <3>2
    <2> QED BY <2>1, <2>2
  <1>5. LineNow(fd)' = <<>>
    BY <1>1, NullFact DEF LineNow
  <1> QED BY <1>1, <1>2, <1>4, <1>5

(* The order once a line was returned. *)
LEMMA LineOrder ==
  ASSUME NEW fd \in Fds, got[fd] \in Seq(Seq(Chars)), NEW l \in Seq(Chars),
         got'[fd] = Append(got[fd], l), LineNow(fd)' = <<>>, OrderInv(fd),
         Ordered(l), Precedes(Returned(fd), Text(l)), Ordered(Buffered(fd)'),
         Precedes(Returned(fd), Text(Buffered(fd)')), Precedes(Text(l), Text(Buffered(fd)'))
  PROVE  OrderInv(fd)'
  <1>1. /\ Returned(fd)' = Returned(fd) \union Text(l)
        /\ DOMAIN got'[fd] = 1 .. Len(got[fd]) + 1 /\ DOMAIN got[fd] = 1 .. Len(got[fd])
        /\ Len(got[fd]) \in Nat
        /\ \A k \in DOMAIN got[fd] : got'[fd][k] = got[fd][k]
        /\ got'[fd][Len(got[fd]) + 1] = l
    BY ReturnedFact
  <1>2. \A k \in DOMAIN got'[fd] : k \in DOMAIN got[fd] \/ k = Len(got[fd]) + 1
    BY <1>1
  <1>3. \A k \in DOMAIN got'[fd] : Ordered(got'[fd][k])
    BY <1>1, <1>2 DEF OrderInv
  <1>4. ASSUME NEW j \in DOMAIN got'[fd], NEW k \in DOMAIN got'[fd], j < k
        PROVE  Precedes(Text(got'[fd][j]), Text(got'[fd][k]))
    <2>1. j \in DOMAIN got[fd] /\ got'[fd][j] = got[fd][j]
      BY <1>1, <1>4
    <2>2. CASE k \in DOMAIN got[fd]
      BY <1>1, <1>4, <2>1, <2>2 DEF OrderInv
    <2>3. CASE k = Len(got[fd]) + 1
      <3>1. Text(got[fd][j]) \subseteq Returned(fd)
        BY <2>1 DEF Returned
      <3> QED BY <1>1, <2>1, <2>3, <3>1 DEF Precedes
    <2> QED BY <1>2, <2>2, <2>3
  <1>5. Precedes(Returned(fd)', Text(Buffered(fd)'))
    BY <1>1 DEF Precedes
  <1>6. Ordered(LineNow(fd)') /\ Text(LineNow(fd)') = {}
    BY NothingFact
  <1>7. /\ Precedes(Returned(fd)', Text(LineNow(fd)'))
        /\ Precedes(Text(LineNow(fd)'), Text(Buffered(fd)'))
    BY <1>6, NothingFact
  <1> QED BY <1>3, <1>4, <1>5, <1>6, <1>7 DEF OrderInv

(* Which descriptors a step of a call leaves alone. *)
LEMMA OthersInv ==
  ASSUME IInv, NEW fd \in Fds, cur \in {fd, NONE}, cur' \in {fd, NONE},
         UNCHANGED <<file, opens>>,
         \A g \in Fds : g # fd =>
           /\ at'[g] = at[g] /\ got'[g] = got[g] /\ last'[g] = last[g]
           /\ buffer'[g] = buffer[g] /\ bytes_read'[g] = bytes_read[g]
           /\ offset'[g] = offset[g]
           /\ g \in readError' <=> g \in readError
           /\ g \in noMemory' <=> g \in noMemory
  PROVE  \A g \in Fds : g # fd => FdInv(g)'
  <1> SUFFICES ASSUME NEW g \in Fds, g # fd PROVE FdInv(g)'
    OBVIOUS
  <1>1. TypeInv /\ FdInv(g)
    BY DEF IInv
  <1>2. opens' \in Nat /\ opens <= opens'
    BY <1>1, NullFact DEF TypeInv
  <1>3. cur # g /\ cur' # g
    BY NullFact
  <1> QED BY <1>1, <1>2, <1>3, ElsewhereInv

(* _getline is called; for a descriptor from MAX_FDS on it returns NULL. *)
LEMMA CallsInv ==
  ASSUME IInv, NEW fd \in Fds, Call(fd)
  PROVE  IInv'
  <1>0. TypeInv /\ CallInv /\ \A g \in Fds : FdInv(g)
    BY DEF IInv
  <1> USE NullFact
  <1>1. /\ cur = NONE /\ file[fd] # NULL /\ callError' = NONE
        /\ UNCHANGED <<file, at, opens, buffer, bytes_read, offset, faults, readError, noMemory>>
        /\ \/ fd < MAX_FDS /\ cur' = fd /\ UNCHANGED <<line, got, last>>
           \/ fd >= MAX_FDS /\ Return(fd, NULL)
    BY DEF Call, osVars, staticVars
  <1>2. line = NULL
    BY <1>0, <1>1 DEF CallInv
  <1>3. /\ line' = NULL /\ cur' \in {fd, NONE} /\ (cur' = fd => fd < MAX_FDS)
        /\ got' \in [Fds -> Seq(Seq(Chars))] /\ got'[fd] = got[fd]
        /\ last' \in [Fds -> {"none", "line", "NULL"}]
        /\ last'[fd] = last[fd] \/ (fd >= MAX_FDS /\ last'[fd] = "NULL")
        /\ \A g \in Fds : g # fd => got'[g] = got[g] /\ last'[g] = last[g]
    <2>1. CASE fd < MAX_FDS /\ cur' = fd /\ UNCHANGED <<line, got, last>>
      BY <1>0, <1>2, <2>1 DEF TypeInv
    <2>2. CASE fd >= MAX_FDS /\ Return(fd, NULL)
      BY <1>0, <2>2, ReturnFact
    <2> QED BY <1>1, <2>1, <2>2
  <1>4. TypeInv'
    BY <1>0, <1>1, <1>3 DEF TypeInv
  <1>5. CallInv'
    BY <1>1, <1>3 DEF CallInv
  <1>6. \A g \in Fds : g # fd => FdInv(g)'
    BY <1>1, <1>3, OthersInv
  <1>7. FdInv(fd)'
    <2>1. LineNow(fd)' = LineNow(fd)
      BY <1>1, <1>2, <1>3 DEF LineNow, LineSoFar
    <2>2. EmptyInv(fd)'
      <3>1. EmptyInv(fd) /\ (Empty(fd)' <=> Empty(fd))
        BY <1>0, <1>1 DEF FdInv, Empty
      <3>2. CASE last'[fd] = last[fd]
        BY <1>1, <1>3, <3>1, <3>2 DEF EmptyInv
      <3>3. CASE fd >= MAX_FDS
        BY <1>1, <1>3, <3>1, <3>3 DEF EmptyInv
      <3> QED BY <1>3, <3>2, <3>3
    <2>3. last'[fd] = last[fd] \/ fd >= MAX_FDS
      BY <1>3
    <2>4. opens' \in Nat /\ opens <= opens'
      BY <1>0, <1>1 DEF TypeInv
    <2> QED BY <1>0, <1>1, <1>3, <2>1, <2>2, <2>3, <2>4, ViewInv
  <1> QED BY <1>4, <1>5, <1>6, <1>7 DEF IInv
-----------------------------------------------------------------------------
(* What holds while a call runs. *)
LEMMA CallFact ==
  ASSUME IInv, NEW fd \in Fds, cur = fd
  PROVE  /\ TypeInv /\ CallInv /\ FdInv(fd)
         /\ file[fd] # NULL /\ file[fd] \in Seq(Content) /\ Len(file[fd]) \in Nat
         /\ Len(file[fd]) <= MaxLength
         /\ fd < MAX_FDS /\ fd \in Nat
         /\ at[fd] \in 0 .. Len(file[fd])
         /\ LineSoFar = LineNow(fd)
         /\ last[fd] = "NULL" /\ Sound(fd) => at[fd] = Len(file[fd]) /\ Empty(fd)
  <1>1. TypeInv /\ CallInv /\ FdInv(fd)
    BY DEF IInv
  <1>2. file[fd] # NULL /\ fd < MAX_FDS /\ fd \in Nat /\ LineSoFar = LineNow(fd)
    BY <1>1, NullFact DEF CallInv, LineNow
  <1>3. file[fd] \in Seq(Content) /\ Len(file[fd]) \in Nat
    BY <1>1, <1>2 DEF TypeInv
  <1>4. at[fd] \in 0 .. Len(file[fd]) /\ Len(file[fd]) <= MaxLength
    BY <1>1, <1>2, <1>3, NullFact DEF TypeInv, FdInv, EmptyInv
  <1>5. last[fd] = "NULL" /\ Sound(fd) => at[fd] = Len(file[fd]) /\ Empty(fd)
    BY <1>1, <1>2 DEF FdInv, WholeInv
  <1> QED BY <1>1, <1>2, <1>3, <1>4, <1>5

LEMMA SliceFact ==
  ASSUME NEW s, NEW a \in Nat, NEW n \in Nat, \A i \in a + 1 .. a + n : s[i] \in Content
  PROVE  /\ SubSeq(s, a + 1, a + n) \in Seq(Content)
         /\ Len(SubSeq(s, a + 1, a + n)) = n
         /\ \A i \in 1 .. n : SubSeq(s, a + 1, a + n)[i] = s[a + i]
  <1> DEFINE b == a + 1
             c == a + n
  <1>1. b \in Int /\ c \in Int /\ c - b + 1 = n /\ (b <= c <=> n # 0)
    OBVIOUS
  <1>2. \A i \in 1 .. n : b + i - 1 = a + i
    OBVIOUS
  <1>3. \A i \in b .. c : s[i] \in Content
    OBVIOUS
  <1> HIDE DEF b, c
  <1>4. /\ SubSeq(s, b, c) \in Seq(Content)
        /\ Len(SubSeq(s, b, c)) = IF b <= c THEN c - b + 1 ELSE 0
        /\ \A i \in 1 .. c - b + 1 : SubSeq(s, b, c)[i] = s[b + i - 1]
    BY <1>1, <1>3, SubSeqProperties
  <1>5. Len(SubSeq(s, b, c)) = n
    BY <1>1, <1>4
  <1>6. \A i \in 1 .. n : SubSeq(s, b, c)[i] = s[a + i]
    BY <1>1, <1>2, <1>4
  <1> QED BY <1>4, <1>5, <1>6 DEF b, c

(* read() brings n characters into the empty buffer. *)
LEMMA FillReads ==
  ASSUME IInv, NEW fd \in Fds, cur = fd, Empty(fd),
         NEW n \in 1 .. READ_SIZE, at[fd] + n <= Len(file[fd]),
         offset' = [offset EXCEPT ![fd] = 0],
         buffer' = [buffer EXCEPT ![fd] = SubSeq(file[fd], at[fd] + 1, at[fd] + n)],
         bytes_read' = [bytes_read EXCEPT ![fd] = n],
         at' = [at EXCEPT ![fd] = @ + n],
         UNCHANGED <<file, opens, cur, line, got, last, faults, readError, noMemory, callError>>
  PROVE  IInv'
  <1> DEFINE new == SubSeq(file[fd], at[fd] + 1, at[fd] + n)
  <1> USE NullFact
  <1>1. /\ TypeInv /\ CallInv /\ FdInv(fd)
        /\ file[fd] # NULL /\ file[fd] \in Seq(Content) /\ Len(file[fd]) \in Nat
        /\ Len(file[fd]) <= MaxLength
        /\ fd < MAX_FDS /\ fd \in Nat
        /\ at[fd] \in 0 .. Len(file[fd])
        /\ last[fd] = "NULL" /\ Sound(fd) => at[fd] = Len(file[fd]) /\ Empty(fd)
    BY CallFact
  <1>2. /\ new \in Seq(Content) /\ Len(new) = n /\ DOMAIN new = 1 .. n
        /\ \A i \in 1 .. n : new[i] = file[fd][at[fd] + i]
    <2> DEFINE a == at[fd]
    <2>1. a \in Nat /\ n \in Nat
      BY <1>1
    <2>2. \A i \in a + 1 .. a + n : file[fd][i] \in Content
      BY <1>1, <2>1
    <2> HIDE DEF a
    <2>3. /\ SubSeq(file[fd], a + 1, a + n) \in Seq(Content)
          /\ Len(SubSeq(file[fd], a + 1, a + n)) = n
          /\ \A i \in 1 .. n : SubSeq(file[fd], a + 1, a + n)[i] = file[fd][a + i]
      BY <2>1, <2>2, SliceFact
    <2>4. new = SubSeq(file[fd], a + 1, a + n)
      BY DEF a
    <2> HIDE DEF new
    <2>5. new \in Seq(Content) /\ Len(new) = n /\ \A i \in 1 .. n : new[i] = file[fd][a + i]
      BY <2>3, <2>4
    <2>6. DOMAIN new = 1 .. n
      BY <2>5
    <2> QED BY <2>5, <2>6 DEF a
  <1>3. buffer'[fd] = new /\ bytes_read'[fd] = n /\ offset'[fd] = 0 /\ at'[fd] = at[fd] + n
    BY <1>1 DEF TypeInv
  <1> HIDE DEF new
  <1>4. TypeInv'
    <2>1. buffer' \in [Fds -> Seq(Content)]
      <3>1. buffer' = [buffer EXCEPT ![fd] = new]
        BY DEF new
      <3> QED BY <1>1, <1>2, <3>1 DEF TypeInv
    <2>2. bytes_read' \in [Fds -> Int] /\ offset' \in [Fds -> Int]
      BY <1>1, SMTT(30) DEF TypeInv
    <2>3. at' \in [Fds -> 0 .. MaxLength]
      <3>1. at[fd] + n \in 0 .. MaxLength
        BY <1>1
      <3> QED BY <1>1, <3>1 DEF TypeInv
    <2>4. ASSUME NEW g \in Fds
          PROVE  /\ Len(buffer'[g]) <= READ_SIZE
                 /\ bytes_read'[g] \in -1 .. Len(buffer'[g])
                 /\ offset'[g] \in 0 .. Len(buffer'[g])
      <3>1. CASE g = fd
        <4>1. n \in Nat /\ n <= READ_SIZE
          BY GetlineAssumption
        <4>2. Len(buffer'[g]) = n
          BY <1>2, <1>3, <3>1
        <4>3. bytes_read'[g] = n /\ offset'[g] = 0
          BY <1>3, <3>1
        <4>4. n \in -1 .. n /\ 0 \in 0 .. n
          BY <4>1
        <4> QED BY <4>1, <4>2, <4>3, <4>4, Zenon
      <3>2. CASE g # fd
        BY <1>1, <3>2 DEF TypeInv
      <3> QED BY <3>1, <3>2
    <2> QED BY <1>1, <2>1, <2>2, <2>3, <2>4 DEF TypeInv
  <1>5. CallInv'
    BY <1>1 DEF CallInv
  <1>6. \A g \in Fds : g # fd => FdInv(g)'
    <2>1. \A g \in Fds : g # fd => /\ at'[g] = at[g] /\ buffer'[g] = buffer[g]
                                   /\ bytes_read'[g] = bytes_read[g] /\ offset'[g] = offset[g]
      BY <1>1 DEF TypeInv
    <2> QED BY <2>1, OthersInv
  <1>7. /\ Buffered(fd) = <<>> /\ Buffered(fd)' = new
        /\ LineNow(fd)' = LineNow(fd) /\ Returned(fd)' = Returned(fd)
        /\ Joined(got[fd]) \in Seq(Content) /\ LineNow(fd) \in Seq(Content)
        /\ Gathered(fd) \subseteq Chars
        /\ Gathered(fd)' = Gathered(fd) \union Text(new)
    <2>1. Buffered(fd)' = SubSeq(new, 1, n)
      <3>1. 0 + 1 = 1
        OBVIOUS
      <3> QED BY <1>3, <3>1, Zenon DEF Buffered
    <2>2. Buffered(fd)' = new
      BY <1>2, <2>1, SubSeqFull
    <2>3. LineNow(fd)' = LineNow(fd) /\ Returned(fd)' = Returned(fd)
      BY DEF LineNow, LineSoFar, Returned
    <2>4. /\ Buffered(fd) = <<>> /\ Gathered(fd) \subseteq Chars
          /\ Joined(got[fd]) \in Seq(Content) /\ LineNow(fd) \in Seq(Content)
      BY <1>1, PiecesFact
    <2> QED BY <2>2, <2>3, <2>4, NothingFact DEF Gathered
  <1>8. PICK m \in 1 .. opens : /\ \A i \in DOMAIN file[fd] : file[fd][i] \in {NL, <<m, i>>}
                                /\ Precedes(Gathered(fd), {<<m, at[fd] + 1>>})
    BY <1>1 DEF FdInv, SourceInv
  <1>9. \A i \in 1 .. n : new[i] \in {NL, <<m, at[fd] + i>>}
    <2> TAKE i \in 1 .. n
    <2>1. at[fd] + i \in DOMAIN file[fd]
      BY <1>1
    <2> QED BY <1>2, <1>8, <2>1
  <1>10. m \in Nat
    BY <1>1 DEF TypeInv
  <1>11. Precedes(Gathered(fd), Text(new))
    <2> SUFFICES ASSUME NEW x \in Gathered(fd), NEW i \in 1 .. n, new[i] # NL
                 PROVE  Before(x, new[i])
      BY <1>2 DEF Precedes, Text
    <2>1. new[i] = <<m, at[fd] + i>> /\ Before(x, <<m, at[fd] + 1>>)
      BY <1>8, <1>9 DEF Precedes
    <2>2. x[1] \in Nat /\ x[2] \in Nat
      BY <1>7, CharsFact
    <2> QED BY <1>1, <1>10, <2>1, <2>2 DEF Before
  <1>12. Ordered(new)
    <2> SUFFICES ASSUME NEW i \in 1 .. n, NEW j \in 1 .. n, i < j, NL \notin {new[i], new[j]}
                 PROVE  Before(new[i], new[j])
      BY <1>2 DEF Ordered
    <2>1. new[i] = <<m, at[fd] + i>> /\ new[j] = <<m, at[fd] + j>>
      BY <1>9
    <2> QED BY <1>1, <1>10, <2>1 DEF Before
  <1>13. EmptyInv(fd)'
    BY <1>1, <1>3 DEF EmptyInv
  <1>14. SubSeq(file[fd], 1, at[fd] + n) = SubSeq(file[fd], 1, at[fd]) \o new
    <2>1. 1 \in 1 .. Len(file[fd]) + 1 /\ at[fd] \in 1 - 1 .. Len(file[fd])
          /\ at[fd] + n \in at[fd] .. Len(file[fd])
      BY <1>1
    <2> QED BY <1>1, <2>1, ConcatAdjacentSubSeq DEF new
  <1>15. WholeInv(fd)'
    <2> SUFFICES ASSUME Sound(fd)
                 PROVE  /\ Joined(got[fd]) \o LineNow(fd) \o new = SubSeq(file[fd], 1, at[fd] + n)
                        /\ last[fd] # "NULL"
      BY <1>3, <1>7 DEF WholeInv, Sound
    <2>1. at[fd] # Len(file[fd])
      BY <1>1
    <2>2. Joined(got[fd]) \o LineNow(fd) \o <<>> = SubSeq(file[fd], 1, at[fd])
      BY <1>1, <1>7, <2>1 DEF FdInv, WholeInv
    <2>3. Joined(got[fd]) \o LineNow(fd) = SubSeq(file[fd], 1, at[fd])
      <3> DEFINE given == Joined(got[fd]) \o LineNow(fd)
      <3>1. given \in Seq(Content)
        BY <1>7, ConcatProperties
      <3>2. given \o <<>> = given
        BY <3>1, ConcatEmptySeq
      <3> QED BY <2>2, <3>2
    <2> QED BY <1>1, <1>14, <2>1, <2>3
  <1>16. LostInv(fd)'
    <2> SUFFICES ASSUME fd \notin noMemory
                 PROVE  Text(SubSeq(file[fd], 1, at[fd] + n)) = Gathered(fd) \union Text(new)
      BY <1>3, <1>7 DEF LostInv
    <2>1. SubSeq(file[fd], 1, at[fd]) \in Seq(Content)
      <3>1. \A i \in 1 .. at[fd] : file[fd][i] \in Content
        BY <1>1
      <3> QED BY <1>1, <3>1, SubSeqProperties
    <2>2. Text(SubSeq(file[fd], 1, at[fd])) = Gathered(fd)
      BY <1>1 DEF FdInv, LostInv
    <2> QED BY <1>2, <1>14, <2>1, <2>2, TextFact
  <1>17. OrderInv(fd)'
    <2>1. OrderInv(fd)
      BY <1>1 DEF FdInv
    <2>2. Precedes(Returned(fd), Text(new)) /\ Precedes(Text(LineNow(fd)), Text(new))
      BY <1>11 DEF Precedes, Gathered
    <2> QED BY <1>7, <1>12, <2>1, <2>2 DEF OrderInv
  <1>18. SourceInv(fd)'
    <2>1. Precedes(Gathered(fd)', {<<m, at'[fd] + 1>>})
      <3> SUFFICES ASSUME NEW x \in Gathered(fd)'
                   PROVE  Before(x, <<m, at[fd] + n + 1>>)
        BY <1>3 DEF Precedes
      <3>1. CASE x \in Gathered(fd)
        <4>1. Before(x, <<m, at[fd] + 1>>)
          BY <1>8, <3>1 DEF Precedes
        <4>2. x[1] \in Nat /\ x[2] \in Nat
          BY <1>7, <3>1, CharsFact
        <4> QED BY <1>1, <1>10, <4>1, <4>2 DEF Before
      <3>2. CASE x \in Text(new)
        <4>1. PICK i \in 1 .. n : x = <<m, at[fd] + i>>
          BY <1>2, <1>9, <3>2 DEF Text
        <4> QED BY <1>1, <1>10, <4>1 DEF Before
      <3> QED BY <1>7, <3>1, <3>2
    <2> QED BY <1>1, <1>8, <2>1 DEF SourceInv
  <1> QED BY <1>4, <1>5, <1>6, <1>13, <1>15, <1>16, <1>17, <1>18 DEF IInv, FdInv

(* What a file still shows of its characters once no more of them, and none *)
(* but the old ones, are there.                                             *)
LEMMA SourceFact ==
  ASSUME NEW fd \in Fds, file[fd] # NULL, SourceInv(fd), file'[fd] = file[fd],
         at'[fd] = at[fd], opens' = opens, Gathered(fd)' \subseteq Gathered(fd)
  PROVE  SourceInv(fd)'
  BY DEF SourceInv, Precedes

(* read() brings nothing: the end of the file, or an error. *)
LEMMA FillEnds ==
  ASSUME IInv, NEW fd \in Fds, cur = fd, Empty(fd), NEW r \in {0, -1},
         offset' = [offset EXCEPT ![fd] = 0],
         bytes_read' = [bytes_read EXCEPT ![fd] = r],
         Return(fd, line),
         UNCHANGED <<file, at, opens, buffer, noMemory>>,
         \/ at[fd] = Len(file[fd]) /\ UNCHANGED <<faults, readError, callError>>
         \/ Fault /\ readError' = readError \union {fd} /\ callError' = fd
  PROVE  IInv'
  <1> USE NullFact
  <1>1. /\ TypeInv /\ CallInv /\ FdInv(fd)
        /\ file[fd] # NULL /\ file[fd] \in Seq(Content) /\ Len(file[fd]) \in Nat
        /\ Len(file[fd]) <= MaxLength
        /\ fd < MAX_FDS /\ fd \in Nat
        /\ at[fd] \in 0 .. Len(file[fd])
        /\ LineSoFar = LineNow(fd)
    BY CallFact
  <1>2. /\ cur' = NONE /\ line' = NULL
        /\ got' \in [Fds -> Seq(Seq(Chars))]
        /\ got'[fd] = IF line = NULL THEN got[fd] ELSE Append(got[fd], line)
        /\ last' \in [Fds -> {"none", "line", "NULL"}]
        /\ last'[fd] = IF line = NULL THEN "NULL" ELSE "line"
        /\ \A g \in Fds : g # fd => got'[g] = got[g] /\ last'[g] = last[g]
        /\ LineNow(fd)' = <<>>
    <2>1. line \in {NULL} \union Seq(Chars)
      BY <1>1 DEF TypeInv
    <2> QED BY <1>1, <2>1, ReturnFact
  <1>3. bytes_read'[fd] = r /\ offset'[fd] = 0
    BY <1>1 DEF TypeInv
  <1>4. TypeInv'
    <2>1. bytes_read' \in [Fds -> Int] /\ offset' \in [Fds -> Int]
      BY <1>1 DEF TypeInv
    <2>2. ASSUME NEW g \in Fds
          PROVE  /\ Len(buffer'[g]) <= READ_SIZE
                 /\ bytes_read'[g] \in -1 .. Len(buffer'[g])
                 /\ offset'[g] \in 0 .. Len(buffer'[g])
      <3>1. Len(buffer[g]) \in Nat /\ Len(buffer[g]) <= READ_SIZE /\ buffer'[g] = buffer[g]
        BY <1>1 DEF TypeInv
      <3>2. CASE g = fd
        BY <1>3, <3>1, <3>2
      <3>3. CASE g # fd
        BY <1>1, <3>1, <3>3 DEF TypeInv
      <3> QED BY <3>2, <3>3
    <2>3. faults' \in 0 .. MaxFaults /\ readError' \subseteq Fds /\ callError' \in Fds \union {NONE}
      <3>1. CASE UNCHANGED <<faults, readError, callError>>
        BY <1>1, <3>1 DEF TypeInv
      <3>2. CASE Fault /\ readError' = readError \union {fd} /\ callError' = fd
        BY <1>1, <3>2, GetlineAssumption, SMTT(30) DEF TypeInv, Fault
      <3> QED BY <3>1, <3>2
    <2> QED BY <1>1, <1>2, <2>1, <2>2, <2>3 DEF TypeInv
  <1>5. CallInv'
    BY <1>2 DEF CallInv
  <1>6. \A g \in Fds : g # fd => FdInv(g)'
    <2>1. \A g \in Fds : g # fd => bytes_read'[g] = bytes_read[g] /\ offset'[g] = offset[g]
      BY <1>1 DEF TypeInv
    <2>2. \A g \in Fds : g # fd => (g \in readError' <=> g \in readError)
      OBVIOUS
    <2> QED BY <1>2, <2>1, <2>2, OthersInv
  <1>7. /\ Buffered(fd) = <<>> /\ Buffered(fd)' = <<>> /\ Empty(fd)'
        /\ Joined(got[fd]) \in Seq(Content) /\ LineNow(fd) \in Seq(Content)
        /\ LineNow(fd) \in Seq(Chars)
    <2>1. Empty(fd)'
      BY <1>3 DEF Empty
    <2>2. Buffered(fd)' = <<>>
      BY <1>3, SubSeqEmpty DEF Buffered
    <2> QED BY <1>1, <2>1, <2>2, PiecesFact
  <1>8. EmptyInv(fd)'
    BY <1>1, <1>2, <1>7 DEF EmptyInv
  <1>9. Sound(fd)' => Sound(fd) /\ at[fd] = Len(file[fd])
    BY DEF Sound
  <1>10. CASE line = NULL
    <2>1. LineNow(fd) = <<>> /\ got'[fd] = got[fd]
      BY <1>1, <1>2, <1>10 DEF LineSoFar
    <2>2. Gathered(fd)' = Gathered(fd) /\ Returned(fd)' = Returned(fd)
      BY <1>2, <1>7, <2>1 DEF Gathered, Returned
    <2>3. WholeInv(fd)'
      BY <1>1, <1>2, <1>7, <1>9, <2>1 DEF FdInv, WholeInv
    <2>4. LostInv(fd)' /\ OrderInv(fd)'
      BY <1>1, <1>2, <1>7, <2>1, <2>2 DEF FdInv, LostInv, OrderInv
    <2>5. SourceInv(fd)'
      BY <1>1, <2>2, SourceFact DEF FdInv
    <2> QED BY <1>4, <1>5, <1>6, <1>8, <2>3, <2>4, <2>5 DEF IInv, FdInv
  <1>11. CASE line # NULL
    <2>1. /\ line \in Seq(Chars) /\ line # <<>> /\ LineNow(fd) = line
          /\ got'[fd] = Append(got[fd], line) /\ last'[fd] = "line"
      BY <1>1, <1>2, <1>11 DEF TypeInv, CallInv, LineSoFar
    <2>2. got[fd] \in Seq(Seq(Chars))
      BY <1>1 DEF TypeInv
    <2>3. Returned(fd)' = Returned(fd) \union Text(line)
      BY <2>1, <2>2, ReturnedFact
    <2>4. Gathered(fd)' = Gathered(fd)
      BY <1>2, <1>7, <2>1, <2>3, NothingFact DEF Gathered
    <2>5. WholeInv(fd)'
      <3> SUFFICES ASSUME Sound(fd)'
                   PROVE  EndsInside(file[fd]) /\ Joined(got'[fd]) = Append(file[fd], NL)
        BY <1>2, <1>7, <1>9, <2>1 DEF WholeInv
      <3>1. Joined(got[fd]) \o line \o <<>> = SubSeq(file[fd], 1, at[fd])
        BY <1>1, <1>7, <1>9, <2>1 DEF FdInv, WholeInv
      <3>2. Joined(got[fd]) \o line = file[fd]
        <4>1. Joined(got[fd]) \o line \in Seq(Content)
          BY <1>7, <2>1, ConcatProperties
        <4> QED BY <1>1, <1>9, <3>1, <4>1, ConcatEmptySeq, SubSeqFull
      <3>3. Joined(got'[fd]) = Append(file[fd], NL)
        <4>1. Joined(got'[fd]) = Joined(got[fd]) \o Append(line, NL)
          BY <2>1, <2>2, JoinedFact
        <4>2. NL \in Content /\ line \in Seq(Content) /\ <<NL>> \in Seq(Content)
          BY <1>7, <2>1 DEF Content
        <4>3. Append(line, NL) = line \o <<NL>> /\ Append(file[fd], NL) = file[fd] \o <<NL>>
          BY <1>1, <4>2, AppendIsConcat
        <4>4. (Joined(got[fd]) \o line) \o <<NL>> = Joined(got[fd]) \o (line \o <<NL>>)
          BY <1>7, <4>2, ConcatAssociative
        <4> QED BY <3>2, <4>1, <4>3, <4>4
      <3>4. EndsInside(file[fd])
        <4>1. /\ Len(line) \in Nat \ {0} /\ Len(Joined(got[fd])) \in Nat
              /\ line \in Seq(Content)
          BY <1>7, <2>1, EmptySeq, LenProperties
        <4> DEFINE J == Joined(got[fd])
        <4>2. J \in Seq(Content) /\ Len(J) \in Nat /\ J \o line = file[fd]
          BY <1>7, <3>2, <4>1
        <4> HIDE DEF J
        <4>3. /\ Len(file[fd]) = Len(J) + Len(line)
              /\ file[fd][Len(file[fd])] = line[Len(line)]
          <5>1. /\ Len(J \o line) = Len(J) + Len(line)
                /\ \A i \in 1 .. Len(J) + Len(line) :
                     (J \o line)[i] = IF i <= Len(J) THEN J[i] ELSE line[i - Len(J)]
            BY <4>1, <4>2, ConcatProperties
          <5> DEFINE n == Len(J) + Len(line)
          <5>2. n \in 1 .. n /\ ~ (n <= Len(J)) /\ n - Len(J) = Len(line)
            BY <4>1, <4>2
          <5>3. (J \o line)[n] = line[Len(line)]
            <6> HIDE DEF n
            <6>1. (J \o line)[n] = IF n <= Len(J) THEN J[n] ELSE line[n - Len(J)]
              BY <5>1, <5>2 DEF n
            <6> QED BY <5>2, <6>1
          <5> QED BY <4>2, <5>1, <5>3
        <4>4. line[Len(line)] \in Chars
          BY <2>1, <4>1, ElementOfSeq
        <4>5. file[fd] # <<>>
          BY <4>1, <4>2, <4>3
        <4> QED BY <4>3, <4>4, <4>5, CharsFact DEF EndsInside
      <3> QED BY <3>3, <3>4
    <2>6. LostInv(fd)'
      BY <1>1, <2>4 DEF FdInv, LostInv
    <2>7. OrderInv(fd)'
      <3>1. OrderInv(fd) /\ Ordered(line) /\ Precedes(Returned(fd), Text(line))
        BY <1>1, <2>1 DEF FdInv, OrderInv
      <3>2. /\ Ordered(Buffered(fd)') /\ Precedes(Returned(fd), Text(Buffered(fd)'))
            /\ Precedes(Text(line), Text(Buffered(fd)'))
        BY <1>7, NothingFact
      <3> QED BY <1>2, <2>1, <2>2, <3>1, <3>2, LineOrder
    <2>8. SourceInv(fd)'
      BY <1>1, <2>4, SourceFact DEF FdInv
    <2> QED BY <1>4, <1>5, <1>6, <1>8, <2>5, <2>6, <2>7, <2>8 DEF IInv, FdInv
  <1> QED BY <1>10, <1>11
-----------------------------------------------------------------------------
(* realloc fails: the line is given up, the buffer stays. *)
LEMMA NoMemoryInv ==
  ASSUME IInv, NEW fd \in Fds, cur = fd, NoMemory(fd),
         UNCHANGED <<osVars, buffer, bytes_read, readError, callError>>
  PROVE  IInv'
  <1> USE NullFact
  <1>1. /\ TypeInv /\ CallInv /\ FdInv(fd) /\ file[fd] # NULL
        /\ fd < MAX_FDS /\ fd \in Nat
        /\ at[fd] \in 0 .. Len(file[fd]) /\ Len(file[fd]) <= MaxLength
    BY CallFact
  <1>2. /\ UNCHANGED <<file, at, opens, buffer, bytes_read, offset, readError, callError>>
        /\ noMemory' = noMemory \union {fd} /\ Return(fd, NULL)
        /\ faults < MaxFaults /\ faults' = faults + 1
    BY DEF NoMemory, Fault, osVars
  <1>3. /\ cur' = NONE /\ line' = NULL
        /\ got' \in [Fds -> Seq(Seq(Chars))] /\ got'[fd] = got[fd]
        /\ last' \in [Fds -> {"none", "line", "NULL"}]
        /\ \A g \in Fds : g # fd => got'[g] = got[g] /\ last'[g] = last[g]
        /\ LineNow(fd)' = <<>>
    BY <1>1, <1>2, ReturnFact
  <1>4. TypeInv'
    <2>1. faults' \in 0 .. MaxFaults /\ noMemory' \subseteq Fds
      BY <1>1, <1>2, GetlineAssumption, SMTT(30) DEF TypeInv
    <2> QED BY <1>1, <1>2, <1>3, <2>1 DEF TypeInv
  <1>5. CallInv'
    BY <1>3 DEF CallInv
  <1>6. \A g \in Fds : g # fd => FdInv(g)'
    <2>1. \A g \in Fds : g # fd => (g \in noMemory' <=> g \in noMemory)
      BY <1>2
    <2> QED BY <1>2, <1>3, <2>1, OthersInv
  <1>7. /\ Buffered(fd)' = Buffered(fd) /\ Returned(fd)' = Returned(fd)
        /\ Gathered(fd)' \subseteq Gathered(fd)
    <2>1. Buffered(fd)' = Buffered(fd) /\ Returned(fd)' = Returned(fd)
      BY <1>2, <1>3 DEF Buffered, Returned
    <2> QED BY <1>3, <2>1, NothingFact DEF Gathered
  <1>8. EmptyInv(fd)'
    BY <1>1, <1>2 DEF EmptyInv
  <1>9. WholeInv(fd)' /\ LostInv(fd)'
    BY <1>2 DEF WholeInv, LostInv, Sound
  <1>10. OrderInv(fd)'
    BY <1>1, <1>3, <1>7, NothingFact DEF FdInv, OrderInv
  <1>11. SourceInv(fd)'
    BY <1>1, <1>2, <1>7, SourceFact DEF FdInv
  <1> QED BY <1>4, <1>5, <1>6, <1>8, <1>9, <1>10, <1>11 DEF IInv, FdInv

(* The rest of the buffer is taken, which has no newline. *)
LEMMA RestInv ==
  ASSUME IInv, NEW fd \in Fds, cur = fd, ~ Empty(fd), Newlines(fd) = {},
         line' = LineSoFar \o Buffered(fd),
         offset' = [offset EXCEPT ![fd] = bytes_read[fd]],
         UNCHANGED <<file, at, opens, buffer, bytes_read, cur, got, last, faults, readError,
                     noMemory, callError>>
  PROVE  IInv'
  <1> USE NullFact
  <1>1. /\ TypeInv /\ CallInv /\ FdInv(fd) /\ file[fd] # NULL
        /\ fd < MAX_FDS /\ fd \in Nat
        /\ at[fd] \in 0 .. Len(file[fd]) /\ Len(file[fd]) <= MaxLength
        /\ LineSoFar = LineNow(fd)
        /\ ~ (last[fd] = "NULL" /\ Sound(fd))
    BY CallFact
  <1>2. /\ buffer[fd] \in Seq(Content) /\ Len(buffer[fd]) \in Nat
        /\ bytes_read[fd] \in 1 .. Len(buffer[fd]) /\ offset[fd] \in 0 .. bytes_read[fd] - 1
    BY <1>1, SMTT(30) DEF TypeInv, Empty
  <1>3. offset'[fd] = bytes_read[fd]
    BY <1>1 DEF TypeInv
  <1>4. /\ Buffered(fd) \in Seq(Chars) /\ Buffered(fd) \in Seq(Content)
        /\ Len(Buffered(fd)) \in Nat \ {0}
    <2> DEFINE a == offset[fd]
               n == bytes_read[fd] - offset[fd]
    <2>1. a \in Nat /\ n \in Nat \ {0} /\ a + n = bytes_read[fd]
      BY <1>2
    <2>2. \A i \in a + 1 .. a + n : buffer[fd][i] \in Chars
      <3> TAKE i \in a + 1 .. a + n
      <3>1. i \in 1 .. Len(buffer[fd]) /\ i \in offset[fd] + 1 .. bytes_read[fd]
        BY <1>2
      <3>2. buffer[fd][i] # NL
        BY <3>1 DEF Newlines
      <3> QED BY <1>2, <3>1, <3>2 DEF Content
    <2> HIDE DEF a, n
    <2>3. SubSeq(buffer[fd], a + 1, a + n) \in Seq(Chars)
      <3>1. a + 1 \in Int /\ a + n \in Int
        BY <2>1
      <3> QED BY <2>2, <3>1, SubSeqProperties
    <2>4. Len(SubSeq(buffer[fd], a + 1, a + n)) = n
      BY <2>1, <2>2, SliceFact DEF Content
    <2>5. Buffered(fd) = SubSeq(buffer[fd], a + 1, a + n)
      BY <2>1 DEF Buffered, a
    <2> QED BY <1>1, <2>1, <2>3, <2>4, <2>5, PiecesFact
  <1>5. LineNow(fd) \in Seq(Chars) /\ LineNow(fd) \in Seq(Content) /\ Joined(got[fd]) \in Seq(Content)
    BY <1>1, PiecesFact
  <1>6. line' \in Seq(Chars) /\ line' # <<>> /\ line' # NULL
    <2>1. line' = LineNow(fd) \o Buffered(fd)
      BY <1>1
    <2>2. line' \in Seq(Chars) /\ Len(line') = Len(LineNow(fd)) + Len(Buffered(fd))
      BY <1>4, <1>5, <2>1, ConcatProperties
    <2>3. Len(LineNow(fd)) \in Nat
      BY <1>5, LenProperties
    <2>4. Len(line') # 0
      BY <1>4, <2>2, <2>3
    <2> QED BY <2>2, <2>4
  <1>7. TypeInv'
    <2>1. offset' \in [Fds -> Int]
      BY <1>1, <1>2 DEF TypeInv
    <2>2. ASSUME NEW g \in Fds PROVE offset'[g] \in 0 .. Len(buffer'[g])
      <3>1. CASE g = fd
        BY <1>2, <1>3, <3>1
      <3>2. CASE g # fd
        BY <1>1, <3>2 DEF TypeInv
      <3> QED BY <3>1, <3>2
    <2> QED BY <1>1, <1>6, <2>1, <2>2 DEF TypeInv
  <1>8. CallInv'
    BY <1>1, <1>6 DEF CallInv
  <1>9. \A g \in Fds : g # fd => FdInv(g)'
    <2>1. \A g \in Fds : g # fd => offset'[g] = offset[g]
      BY <1>1 DEF TypeInv
    <2> QED BY <2>1, OthersInv
  <1>10. /\ LineNow(fd)' = LineNow(fd) \o Buffered(fd) /\ Buffered(fd)' = <<>>
         /\ Returned(fd)' = Returned(fd)
    <2>1. LineNow(fd)' = LineNow(fd) \o Buffered(fd)
      BY <1>1, <1>6 DEF LineNow, LineSoFar
    <2>2. Buffered(fd)' = <<>>
      BY <1>2, <1>3, SubSeqEmpty DEF Buffered
    <2> QED BY <2>1, <2>2 DEF Returned
  <1>11. /\ Text(LineNow(fd)') = Text(LineNow(fd)) \union Text(Buffered(fd))
         /\ Ordered(LineNow(fd)') <=> /\ Ordered(LineNow(fd)) /\ Ordered(Buffered(fd))
                                      /\ Precedes(Text(LineNow(fd)), Text(Buffered(fd)))
    BY <1>4, <1>5, <1>10, TextFact
  <1>12. Gathered(fd)' = Gathered(fd)
    BY <1>10, <1>11, NothingFact DEF Gathered
  <1>13. EmptyInv(fd)'
    BY <1>1 DEF EmptyInv
  <1>14. WholeInv(fd)'
    <2> SUFFICES ASSUME Sound(fd)
                 PROVE  Joined(got[fd]) \o (LineNow(fd) \o Buffered(fd)) \o <<>>
                          = SubSeq(file[fd], 1, at[fd])
      BY <1>1, <1>10 DEF WholeInv, Sound
    <2>1. Joined(got[fd]) \o LineNow(fd) \o Buffered(fd) = SubSeq(file[fd], 1, at[fd])
      BY <1>1 DEF FdInv, WholeInv
    <2>2. (Joined(got[fd]) \o LineNow(fd)) \o Buffered(fd)
            = Joined(got[fd]) \o (LineNow(fd) \o Buffered(fd))
      BY <1>4, <1>5, ConcatAssociative
    <2>3. Joined(got[fd]) \o (LineNow(fd) \o Buffered(fd)) \in Seq(Content)
      BY <1>4, <1>5, ConcatProperties
    <2> QED BY <2>1, <2>2, <2>3, ConcatEmptySeq
  <1>15. LostInv(fd)'
    BY <1>1, <1>12 DEF FdInv, LostInv
  <1>16. OrderInv(fd)'
    <2>1. OrderInv(fd)
      BY <1>1 DEF FdInv
    <2>2. Precedes(Returned(fd), Text(LineNow(fd)'))
      BY <1>11, <2>1 DEF OrderInv, Precedes
    <2> QED BY <1>10, <1>11, <2>1, <2>2, NothingFact DEF OrderInv
  <1>17. SourceInv(fd)'
    BY <1>1, <1>12, SourceFact DEF FdInv
  <1> QED BY <1>7, <1>8, <1>9, <1>13, <1>14, <1>15, <1>16, <1>17 DEF IInv, FdInv

(* What is left of the buffer, up to its first newline and after it.       *)
LEMMA SplitFact ==
  ASSUME TypeInv, NEW fd \in Fds, ~ Empty(fd), Newlines(fd) # {},
         NEW i, i = Min(Newlines(fd))
  PROVE  LET pre == SubSeq(buffer[fd], offset[fd] + 1, i - 1)
             post == SubSeq(buffer[fd], i + 1, bytes_read[fd])
         IN  /\ i \in offset[fd] + 1 .. bytes_read[fd]
             /\ pre \in Seq(Chars) /\ pre \in Seq(Content) /\ post \in Seq(Content)
             /\ Buffered(fd) = pre \o (<<NL>> \o post)
  <1> DEFINE b == buffer[fd]
             n == bytes_read[fd]
             a == offset[fd]
             pre == SubSeq(b, a + 1, i - 1)
             post == SubSeq(b, i + 1, n)
  <1>1. b \in Seq(Content) /\ Len(b) \in Nat /\ n \in 1 .. Len(b) /\ a \in 0 .. n - 1
    BY SMTT(30) DEF TypeInv, Empty
  <1>2. Newlines(fd) = {j \in a + 1 .. n : b[j] = NL}
    BY DEF Newlines
  <1>3. Newlines(fd) \subseteq Nat
    BY <1>1, <1>2
  <1>4. i \in a + 1 .. n /\ b[i] = NL /\ \A j \in a + 1 .. n : b[j] = NL => i <= j
    BY <1>2, <1>3, LeastFact
  <1>5. pre \in Seq(Chars)
    <2>1. \A j \in a + 1 .. i - 1 : b[j] \in Chars
      <3> TAKE j \in a + 1 .. i - 1
      <3>1. j \in a + 1 .. n /\ ~ (i <= j) /\ j \in 1 .. Len(b)
        BY <1>1, <1>4
      <3> QED BY <1>1, <1>4, <3>1 DEF Content
    <2>2. a + 1 \in Int /\ i - 1 \in Int
      BY <1>1, <1>4
    <2> HIDE DEF a, b
    <2> QED BY <2>1, <2>2, SubSeqProperties
  <1>6. post \in Seq(Content)
    <2>1. \A j \in i + 1 .. n : b[j] \in Content
      BY <1>1, <1>4
    <2>2. i + 1 \in Int /\ n \in Int
      BY <1>1, <1>4
    <2> HIDE DEF n, b
    <2> QED BY <2>1, <2>2, SubSeqProperties
  <1>7. pre \in Seq(Content)
    BY <1>5, SeqMonotonic DEF Content
  <1>8. Buffered(fd) = pre \o (<<NL>> \o post)
    <2>1. /\ a + 1 \in 1 .. Len(b) + 1 /\ i - 1 \in (a + 1) - 1 .. Len(b)
          /\ n \in i - 1 .. Len(b) /\ i - 1 + 1 = i
          /\ i \in 1 .. Len(b) /\ n \in i .. Len(b)
      BY <1>1, <1>4
    <2> HIDE DEF a, b, n
    <2>2. SubSeq(b, a + 1, i - 1) \o SubSeq(b, i, n) = SubSeq(b, a + 1, n)
      BY <1>1, <2>1, ConcatAdjacentSubSeq
    <2>3. SubSeq(b, i, n) = <<b[i]>> \o SubSeq(b, i + 1, n)
      BY <1>1, <2>1, SubSeqRecursiveFirst
    <2>4. Buffered(fd) = SubSeq(b, a + 1, n)
      BY DEF Buffered, a, b, n
    <2> QED BY <1>4, <2>2, <2>3, <2>4
  <1> QED BY <1>4, <1>5, <1>6, <1>7, <1>8

(* A line is taken from the buffer and returned. *)
LEMMA LineInv ==
  ASSUME IInv, NEW fd \in Fds, cur = fd, ~ Empty(fd), Newlines(fd) # {},
         NEW i, i = Min(Newlines(fd)),
         Return(fd, LineSoFar \o SubSeq(buffer[fd], offset[fd] + 1, i - 1)),
         offset' = [offset EXCEPT ![fd] = i],
         UNCHANGED <<file, at, opens, buffer, bytes_read, faults, readError, noMemory, callError>>
  PROVE  IInv'
  <1> USE NullFact
  <1> DEFINE pre == SubSeq(buffer[fd], offset[fd] + 1, i - 1)
             post == SubSeq(buffer[fd], i + 1, bytes_read[fd])
             l == LineNow(fd) \o pre
  <1>1. /\ TypeInv /\ CallInv /\ FdInv(fd) /\ file[fd] # NULL
        /\ fd < MAX_FDS /\ fd \in Nat
        /\ at[fd] \in 0 .. Len(file[fd]) /\ Len(file[fd]) <= MaxLength
        /\ LineSoFar = LineNow(fd)
    BY CallFact
  <1>2. /\ buffer[fd] \in Seq(Content) /\ Len(buffer[fd]) \in Nat
        /\ bytes_read[fd] \in 1 .. Len(buffer[fd]) /\ offset[fd] \in 0 .. bytes_read[fd] - 1
    BY <1>1, SMTT(30) DEF TypeInv, Empty
  <1>3. /\ i \in offset[fd] + 1 .. bytes_read[fd]
        /\ pre \in Seq(Chars) /\ pre \in Seq(Content) /\ post \in Seq(Content)
        /\ Buffered(fd) = pre \o (<<NL>> \o post)
    BY <1>1, SplitFact
  <1>4. LineNow(fd) \in Seq(Chars) /\ LineNow(fd) \in Seq(Content) /\ Joined(got[fd]) \in Seq(Content)
    BY <1>1, PiecesFact
  <1>5. offset'[fd] = i
    BY <1>1 DEF TypeInv
  <1> HIDE DEF pre, post
  <1>6. l \in Seq(Chars) /\ l # NULL
    BY <1>3, <1>4, ConcatProperties
  <1>7. Return(fd, l)
    BY <1>1 DEF pre
  <1> HIDE DEF l
  <1>8. /\ cur' = NONE /\ line' = NULL
        /\ got' \in [Fds -> Seq(Seq(Chars))] /\ got'[fd] = Append(got[fd], l)
        /\ last' \in [Fds -> {"none", "line", "NULL"}] /\ last'[fd] = "line"
        /\ \A g \in Fds : g # fd => got'[g] = got[g] /\ last'[g] = last[g]
        /\ LineNow(fd)' = <<>>
    BY <1>1, <1>6, <1>7, ReturnFact
  <1>9. TypeInv'
    <2>1. offset' \in [Fds -> Int]
      BY <1>1, <1>2, <1>3 DEF TypeInv
    <2>2. ASSUME NEW g \in Fds PROVE offset'[g] \in 0 .. Len(buffer'[g])
      <3>1. CASE g = fd
        BY <1>2, <1>3, <1>5, <3>1
      <3>2. CASE g # fd
        BY <1>1, <3>2 DEF TypeInv
      <3> QED BY <3>1, <3>2
    <2> QED BY <1>1, <1>8, <2>1, <2>2 DEF TypeInv
  <1>10. CallInv'
    BY <1>8 DEF CallInv
  <1>11. \A g \in Fds : g # fd => FdInv(g)'
    <2>1. \A g \in Fds : g # fd => offset'[g] = offset[g]
      BY <1>1 DEF TypeInv
    <2> QED BY <1>8, <2>1, OthersInv
  <1>12. Buffered(fd)' = post
    BY <1>5 DEF Buffered, post
  <1>13. got[fd] \in Seq(Seq(Chars)) /\ <<NL>> \in Seq(Content) /\ NL \in Content
    <2>1. NL \in Content
      BY DEF Content
    <2> QED BY <1>1, <2>1 DEF TypeInv
  <1>14. /\ Text(l) = Text(LineNow(fd)) \union Text(pre)
         /\ Text(Buffered(fd)) = Text(pre) \union Text(post)
         /\ Ordered(l) <=> /\ Ordered(LineNow(fd)) /\ Ordered(pre)
                           /\ Precedes(Text(LineNow(fd)), Text(pre))
         /\ Ordered(Buffered(fd)) =>
              /\ Ordered(pre) /\ Ordered(post) /\ Precedes(Text(pre), Text(post))
    <2> DEFINE rest == <<NL>> \o post
    <2>1. rest \in Seq(Content)
      BY <1>3, <1>13, ConcatProperties
    <2>2. Text(rest) = Text(post) /\ (Ordered(rest) => Ordered(post))
      BY <1>3, <1>13, TextFact, NothingFact, ZenonT(60)
    <2> HIDE DEF rest
    <2>3. /\ Text(pre \o rest) = Text(pre) \union Text(rest)
          /\ Ordered(pre \o rest) => /\ Ordered(pre) /\ Ordered(rest)
                                     /\ Precedes(Text(pre), Text(rest))
      BY <1>3, <2>1, TextFact
    <2>4. /\ Text(l) = Text(LineNow(fd)) \union Text(pre)
          /\ Ordered(l) <=> /\ Ordered(LineNow(fd)) /\ Ordered(pre)
                            /\ Precedes(Text(LineNow(fd)), Text(pre))
      BY <1>3, <1>4, TextFact DEF l
    <2>5. Buffered(fd) = pre \o rest
      BY <1>3 DEF rest
    <2> QED BY <2>2, <2>3, <2>4, <2>5
  <1>15. Returned(fd)' = Returned(fd) \union Text(l)
    BY <1>6, <1>8, <1>13, ReturnedFact
  <1>16. Gathered(fd)' = Gathered(fd)
    BY <1>8, <1>12, <1>14, <1>15, NothingFact DEF Gathered
  <1>17. EmptyInv(fd)'
    BY <1>1, <1>8 DEF EmptyInv
  <1>18. WholeInv(fd)'
    <2> SUFFICES ASSUME Sound(fd)
                 PROVE  Joined(got'[fd]) \o <<>> \o post = SubSeq(file[fd], 1, at[fd])
      BY <1>8, <1>12 DEF WholeInv, Sound
    <2>1. Joined(got[fd]) \o LineNow(fd) \o Buffered(fd) = SubSeq(file[fd], 1, at[fd])
      BY <1>1 DEF FdInv, WholeInv
    <2>2. Joined(got'[fd]) = Joined(got[fd]) \o Append(l, NL)
      BY <1>6, <1>8, <1>13, JoinedFact
    <2>3. ((Joined(got[fd]) \o Append(LineNow(fd) \o pre, NL)) \o <<>>) \o post
            = (Joined(got[fd]) \o LineNow(fd)) \o (pre \o (<<NL>> \o post))
      <3> DEFINE J == Joined(got[fd])
                 L == LineNow(fd)
      <3>1. /\ J \in Seq(Content) /\ L \in Seq(Content) /\ NL \in Content
            /\ pre \in Seq(Content) /\ post \in Seq(Content)
        BY <1>3, <1>4, <1>13
      <3> HIDE DEF J, L
      <3> DEFINE w == Append(L \o pre, NL)
                 r == <<NL>> \o post
                 t == pre \o r
      <3>2. \A a, b, c \in Seq(Content) : (a \o b) \o c = a \o (b \o c)
        BY ConcatAssociative
      <3>3. L \o pre \in Seq(Content) /\ <<NL>> \in Seq(Content) /\ r \in Seq(Content)
        BY <3>1, ConcatProperties
      <3>4. w = (L \o pre) \o <<NL>> /\ w \in Seq(Content)
        BY <3>1, <3>3, AppendIsConcat, AppendProperties
      <3>5. w \o post = (L \o pre) \o r
        BY <3>1, <3>3, <3>4, ConcatAssociative, SMTT(30)
      <3> HIDE DEF w, r
      <3>6. (L \o pre) \o r = L \o t /\ t \in Seq(Content)
        BY <3>1, <3>3, ConcatAssociative, ConcatProperties, SMTT(30)
      <3> HIDE DEF t
      <3>7. (J \o L) \o t = J \o (L \o t)
        BY <3>1, <3>6, <3>2, Zenon
      <3>8. (J \o w) \o post = J \o (w \o post)
        BY <3>1, <3>4, <3>2, ZenonT(60)
      <3>9. (J \o w) \o <<>> = J \o w
        <4>1. J \o w \in Seq(Content)
          BY <3>1, <3>4, ConcatProperties
        <4> QED BY <4>1, ConcatEmptySeq
      <3>10. ((J \o w) \o <<>>) \o post = (J \o L) \o t
        BY <3>5, <3>6, <3>7, <3>8, <3>9
      <3> QED BY <3>10 DEF w, r, t, J, L
    <2> QED BY <1>3, <2>1, <2>2, <2>3 DEF l
  <1>19. LostInv(fd)'
    BY <1>1, <1>16 DEF FdInv, LostInv
  <1>20. OrderInv(fd)'
    <2>1. OrderInv(fd)
      BY <1>1 DEF FdInv
    <2>2. Ordered(l) /\ Precedes(Returned(fd), Text(l))
      BY <1>14, <2>1 DEF OrderInv, Precedes
    <2>3. /\ Ordered(Buffered(fd)') /\ Precedes(Returned(fd), Text(Buffered(fd)'))
          /\ Precedes(Text(l), Text(Buffered(fd)'))
      BY <1>12, <1>14, <2>1 DEF OrderInv, Precedes
    <2> QED BY <1>6, <1>8, <1>13, <2>1, <2>2, <2>3, LineOrder
  <1>21. SourceInv(fd)'
    BY <1>1, <1>16, SourceFact DEF FdInv
  <1> QED BY <1>9, <1>10, <1>11, <1>17, <1>18, <1>19, <1>20, <1>21 DEF IInv, FdInv
-----------------------------------------------------------------------------
LEMMA FillInv ==
  ASSUME IInv, NEW fd \in Fds, Fill(fd)
  PROVE  IInv'
  <1>1. /\ cur = fd /\ Empty(fd) /\ offset' = [offset EXCEPT ![fd] = 0]
        /\ UNCHANGED <<file, opens, noMemory>>
    BY DEF Fill
  <1>2. CASE /\ \E n \in 1 .. READ_SIZE :
                  /\ at[fd] + n <= Len(file[fd])
                  /\ buffer' = [buffer EXCEPT
                                  ![fd] = SubSeq(file[fd], at[fd] + 1, at[fd] + n)]
                  /\ bytes_read' = [bytes_read EXCEPT ![fd] = n]
                  /\ at' = [at EXCEPT ![fd] = @ + n]
             /\ UNCHANGED <<callVars, got, last, faults, readError, callError>>
    BY <1>1, <1>2, FillReads DEF callVars
  <1>3. CASE /\ at[fd] = Len(file[fd])
             /\ bytes_read' = [bytes_read EXCEPT ![fd] = 0]
             /\ Return(fd, WhatItHas)
             /\ UNCHANGED <<buffer, at, faults, readError, callError>>
    BY <1>1, <1>3, FillEnds DEF WhatItHas
  <1>4. CASE /\ Fault
             /\ readError' = readError \union {fd} /\ callError' = fd
             /\ bytes_read' = [bytes_read EXCEPT ![fd] = -1]
             /\ Return(fd, WhatItHas)
             /\ UNCHANGED <<buffer, at>>
    BY <1>1, <1>4, FillEnds DEF WhatItHas
  <1> QED BY <1>2, <1>3, <1>4 DEF Fill

LEMMA TakeLineInv ==
  ASSUME IInv, NEW fd \in Fds, TakeLine(fd)
  PROVE  IInv'
  <1>1. /\ cur = fd /\ ~ Empty(fd) /\ Newlines(fd) # {}
        /\ UNCHANGED <<osVars, buffer, bytes_read, readError, callError>>
    BY DEF TakeLine
  <1>2. CASE NoMemory(fd)
    BY <1>1, <1>2, NoMemoryInv
  <1>3. CASE LET i == Min(Newlines(fd)) IN
               /\ Return(fd, LineSoFar \o SubSeq(buffer[fd], offset[fd] + 1, i - 1))
               /\ offset' = [offset EXCEPT ![fd] = NextOffset(i)]
               /\ UNCHANGED <<faults, noMemory>>
    <2> DEFINE i == Min(Newlines(fd))
    <2>1. /\ Return(fd, LineSoFar \o SubSeq(buffer[fd], offset[fd] + 1, i - 1))
          /\ offset' = [offset EXCEPT ![fd] = i]
          /\ UNCHANGED <<file, at, opens, buffer, bytes_read, faults, readError, noMemory,
                         callError>>
      BY <1>1, <1>3 DEF NextOffset, osVars
    <2>2. i = Min(Newlines(fd))
      OBVIOUS
    <2> HIDE DEF i
    <2> QED BY <1>1, <2>1, <2>2, LineInv
  <1> QED BY <1>2, <1>3 DEF TakeLine

LEMMA TakeRestInv ==
  ASSUME IInv, NEW fd \in Fds, TakeRest(fd)
  PROVE  IInv'
  <1>1. /\ cur = fd /\ ~ Empty(fd) /\ Newlines(fd) = {}
        /\ UNCHANGED <<osVars, buffer, bytes_read, readError, callError>>
    BY DEF TakeRest
  <1>2. CASE NoMemory(fd)
    BY <1>1, <1>2, NoMemoryInv
  <1>3. CASE /\ line' = LineSoFar \o
                          SubSeq(buffer[fd], offset[fd] + 1, bytes_read[fd])
             /\ offset' = [offset EXCEPT ![fd] = bytes_read[fd]]
             /\ UNCHANGED <<cur, got, last, faults, noMemory>>
    BY <1>1, <1>3, RestInv DEF Buffered, osVars
  <1> QED BY <1>2, <1>3 DEF TakeRest

LEMMA StutterInv ==
  ASSUME IInv, UNCHANGED vars
  PROVE  IInv'
  <1>0. TypeInv /\ CallInv /\ \A g \in Fds : FdInv(g)
    BY DEF IInv
  <1>1. UNCHANGED <<file, at, opens, buffer, bytes_read, offset, cur, line, got, last, faults,
                    readError, noMemory, callError>>
    BY DEF vars, osVars, staticVars, callVars, historyVars
  <1>2. TypeInv' /\ CallInv'
    BY <1>0, <1>1 DEF TypeInv, CallInv
  <1>3. ASSUME NEW g \in Fds PROVE FdInv(g)'
    <2>1. EmptyInv(g)' /\ LineNow(g)' = LineNow(g)
      BY <1>0, <1>1 DEF FdInv, EmptyInv, Empty, LineNow, LineSoFar
    <2>2. opens' \in Nat /\ opens <= opens'
      BY <1>0, <1>1, NullFact DEF TypeInv
    <2> QED BY <1>0, <1>1, <2>1, <2>2, ViewInv
  <1> QED BY <1>2, <1>3 DEF IInv

(* The invariant holds: nothing is gained or lost between read(), the      *)
(* static buffer, the line that is being built and the lines returned.     *)
THEOREM GetlineInvariant == Spec => []IInv
  <1>1. ASSUME IInv, [Next]_vars PROVE IInv'
    <2>1. CASE UNCHANGED vars
      BY <1>1, <2>1, StutterInv
    <2>2. CASE Done
      BY <1>1, <2>2, StutterInv DEF Done
    <2>3. ASSUME NEW fd \in Fds, Open(fd) \/ Close(fd) \/ Call(fd) \/ Step(fd) PROVE IInv'
      BY <1>1, <2>3, OpenInv, CloseInv, CallsInv, FillInv, TakeLineInv, TakeRestInv DEF Step
    <2> QED BY <1>1, <2>1, <2>2, <2>3 DEF Next
  <1> QED BY InitInv, <1>1, PTL DEF Spec
-----------------------------------------------------------------------------
LEMMA PrefixFact ==
  ASSUME NEW s \in Seq(Content), NEW t \in Seq(Content), NEW c \in Seq(Content),
         NEW k \in 0 .. Len(c), s \o t = SubSeq(c, 1, k)
  PROVE  IsPrefix(s, c)
  <1> DEFINE n == Len(s)
             u == SubSeq(c, 1, n)
  <1>1. Len(s \o t) = n + Len(t) /\ n \in Nat /\ Len(t) \in Nat /\ Len(c) \in Nat
    BY ConcatProperties
  <1>2. \A i \in 1 .. n : (s \o t)[i] = s[i]
    <2> TAKE i \in 1 .. n
    <2>1. i \in 1 .. n + Len(t) /\ i <= n
      BY <1>1
    <2>2. \A j \in 1 .. n + Len(t) : (s \o t)[j] = IF j <= n THEN s[j] ELSE t[j - n]
      BY ConcatProperties
    <2> QED BY <2>1, <2>2
  <1>3. Len(SubSeq(c, 1, k)) = k /\ \A i \in 1 .. k : SubSeq(c, 1, k)[i] = c[i]
    BY <1>1
  <1> HIDE DEF u
  <1>4. n <= k /\ k <= Len(c)
    BY <1>1, <1>3
  <1>5. \A i \in 1 .. n : s[i] = c[i]
    BY <1>1, <1>2, <1>3, <1>4
  <1>6. u \in Seq(Content) /\ Len(u) = n /\ \A i \in 1 .. n : u[i] = c[i]
    <2> HIDE DEF n
    <2> QED BY <1>1, <1>4 DEF u
  <1>7. u = s
    BY <1>5, <1>6, SeqEqual
  <1>8. SubSeq(s, 1, n) = s
    BY SubSeqFull
  <1> QED BY <1>4, <1>7, <1>8 DEF IsPrefix, u

LEMMA WholeFact == ASSUME IInv PROVE WholeLines
  <1>0. TypeInv /\ CallInv /\ \A g \in Fds : FdInv(g)
    BY DEF IInv
  <1>1. TypeOK
    BY <1>0 DEF TypeInv, TypeOK, Content
  <1>2. ASSUME NEW fd \in Fds, file[fd] # NULL, fd < MAX_FDS, Sound(fd),
               NEW given, given = Joined(got[fd]),
               NEW whole, whole = (EndsInside(file[fd]) /\ given = Append(file[fd], NL))
        PROVE  /\ IsPrefix(given, file[fd]) \/ whole
               /\ last[fd] = "NULL" => given = file[fd] \/ whole
    <2>1. /\ given \in Seq(Content) /\ LineNow(fd) \in Seq(Content)
          /\ Buffered(fd) \in Seq(Content)
          /\ Empty(fd) => Buffered(fd) = <<>>
      BY <1>0, <1>2, PiecesFact
    <2>2. file[fd] \in Seq(Content) /\ Len(file[fd]) \in Nat /\ at[fd] \in 0 .. Len(file[fd])
      <3>1. file[fd] \in Seq(Content) /\ Len(file[fd]) \in Nat
        BY <1>0, <1>2 DEF TypeInv
      <3> QED BY <1>0, <1>2, <3>1, NullFact DEF TypeInv, FdInv, EmptyInv
    <2>3. \/ given \o LineNow(fd) \o Buffered(fd) = SubSeq(file[fd], 1, at[fd])
          \/ whole
      BY <1>0, <1>2 DEF FdInv, WholeInv
    <2>4. last[fd] = "NULL" => at[fd] = Len(file[fd]) /\ Empty(fd) /\ LineNow(fd) = <<>>
      BY <1>0, <1>2 DEF FdInv, WholeInv
    <2>5. CASE given \o LineNow(fd) \o Buffered(fd) = SubSeq(file[fd], 1, at[fd])
      <3>1. \A rest \in Seq(Content) :
              given \o rest = SubSeq(file[fd], 1, at[fd]) => IsPrefix(given, file[fd])
        BY <2>1, <2>2, PrefixFact
      <3>2. LineNow(fd) \o Buffered(fd) \in Seq(Content)
        BY <2>1, ConcatProperties
      <3>3. (given \o LineNow(fd)) \o Buffered(fd) = given \o (LineNow(fd) \o Buffered(fd))
        <4>1. \A a, b, c \in Seq(Content) : (a \o b) \o c = a \o (b \o c)
          BY ConcatAssociative
        <4> QED BY <2>1, <4>1, Zenon
      <3>4. last[fd] = "NULL" => given = file[fd]
        <4> SUFFICES ASSUME last[fd] = "NULL" PROVE given = file[fd]
          OBVIOUS
        <4>1. LineNow(fd) = <<>> /\ Buffered(fd) = <<>> /\ at[fd] = Len(file[fd])
          BY <2>1, <2>4
        <4>2. given \o <<>> = given
          BY <2>1, ConcatEmptySeq
        <4>3. SubSeq(file[fd], 1, Len(file[fd])) = file[fd]
          BY <2>2, SubSeqFull
        <4> QED BY <2>5, <4>1, <4>2, <4>3
      <3> QED BY <2>5, <3>1, <3>2, <3>3, <3>4
    <2>6. CASE whole
      BY <2>6
    <2> QED BY <2>3, <2>5, <2>6
  <1>3. \A fd \in Fds : file[fd] # NULL /\ fd < MAX_FDS /\ fd \notin readError \union noMemory =>
           Sound(fd)
    BY DEF Sound
  <1> QED BY <1>1, <1>2, <1>3 DEF WholeLines

(* The pieces are the lines returned, the line that is being built, and    *)
(* what is in the buffer.                                                  *)
LEMMA PiecesIndex ==
  ASSUME TypeInv, NEW fd \in Fds, NEW p, p = Pieces(fd), NEW n, n = Len(got[fd])
  PROVE  /\ n \in Nat /\ DOMAIN got[fd] = 1 .. n /\ DOMAIN p = 1 .. n + 2
         /\ \A k \in 1 .. n : p[k] = got[fd][k]
         /\ p[n + 1] = LineNow(fd)
         /\ p[n + 2] = Buffered(fd)
  <1> DEFINE g == got[fd]
             two == <<LineNow(fd), Buffered(fd)>>
  <1>1. g \in Seq(Seq(Content))
    <2>1. g \in Seq(Seq(Chars))
      BY DEF TypeInv
    <2>2. \A s \in Seq(Chars) : s \in Seq(Content)
      BY SeqMonotonic DEF Content
    <2>3. Seq(Chars) \subseteq Seq(Content)
      BY <2>2
    <2> HIDE DEF g
    <2> QED BY <2>1, <2>3, SeqMonotonic
  <1>2. two \in Seq(Seq(Content)) /\ Len(two) = 2 /\ two[1] = LineNow(fd) /\ two[2] = Buffered(fd)
    <2>1. LineNow(fd) \in Seq(Content) /\ Buffered(fd) \in Seq(Content)
      BY PiecesFact
    <2>2. \A x, y : Len(<<x, y>>) = 2 /\ <<x, y>>[1] = x /\ <<x, y>>[2] = y
      OBVIOUS
    <2>3. \A x, y \in Seq(Content) : <<x, y>> \in Seq(Seq(Content))
      OBVIOUS
    <2>4. two \in Seq(Seq(Content))
      BY <2>1, <2>3
    <2>5. Len(two) = 2 /\ two[1] = LineNow(fd) /\ two[2] = Buffered(fd)
      BY <2>2
    <2> QED BY <2>4, <2>5
  <1>3. p = g \o two
    BY DEF Pieces, LineNow
  <1>4. n \in Nat /\ n = Len(g) /\ DOMAIN g = 1 .. n
    BY <1>1, LenProperties
  <1> HIDE DEF g, two
  <1>5. p \in Seq(Seq(Content)) /\ Len(p) = n + 2
    <2>1. g \o two \in Seq(Seq(Content)) /\ Len(g \o two) = Len(g) + Len(two)
      BY <1>1, <1>2, ConcatProperties
    <2> QED BY <1>2, <1>3, <1>4, <2>1
  <1>6. \A k \in 1 .. n + 2 : p[k] = IF k <= n THEN g[k] ELSE two[k - n]
    <2>1. \A k \in 1 .. Len(g) + Len(two) :
            (g \o two)[k] = IF k <= Len(g) THEN g[k] ELSE two[k - Len(g)]
      BY <1>1, <1>2, ConcatProperties
    <2> QED BY <1>2, <1>3, <1>4, <2>1
  <1>7. DOMAIN p = 1 .. n + 2
    BY <1>5
  <1>8. \A k \in 1 .. n : p[k] = g[k]
    BY <1>4, <1>6
  <1>9. p[n + 1] = two[1] /\ p[n + 2] = two[2]
    <2>1. /\ n + 1 \in 1 .. n + 2 /\ ~ (n + 1 <= n) /\ n + 1 - n = 1
          /\ n + 2 \in 1 .. n + 2 /\ ~ (n + 2 <= n) /\ n + 2 - n = 2
      BY <1>4
    <2>2. p[n + 1] = two[n + 1 - n]
      BY <1>6, <2>1
    <2>3. p[n + 2] = two[n + 2 - n]
      BY <1>6, <2>1
    <2> QED BY <2>1, <2>2, <2>3
  <1> QED BY <1>2, <1>4, <1>7, <1>8, <1>9 DEF g

LEMMA LostFact == ASSUME IInv PROVE NothingLost
  <1>0. TypeInv /\ \A g \in Fds : FdInv(g)
    BY DEF IInv
  <1> SUFFICES ASSUME NEW fd \in Fds, file[fd] # NULL, fd \notin noMemory
               PROVE  Text(SubSeq(file[fd], 1, at[fd])) =
                        UNION {Text(Pieces(fd)[k]) : k \in DOMAIN Pieces(fd)}
    BY DEF NothingLost
  <1> DEFINE p == Pieces(fd)
             n == Len(got[fd])
  <1>1. /\ n \in Nat /\ DOMAIN got[fd] = 1 .. n /\ DOMAIN p = 1 .. n + 2
        /\ \A k \in 1 .. n : p[k] = got[fd][k]
        /\ p[n + 1] = LineNow(fd)
        /\ p[n + 2] = Buffered(fd)
    BY <1>0, PiecesIndex
  <1> HIDE DEF p, n
  <1>2. /\ n + 1 \in DOMAIN p /\ n + 2 \in DOMAIN p /\ \A k \in DOMAIN got[fd] : k \in DOMAIN p
        /\ \A k \in DOMAIN p : k \in DOMAIN got[fd] \/ k = n + 1 \/ k = n + 2
    BY <1>1
  <1>3. /\ \A k \in DOMAIN got[fd] : p[k] = got[fd][k]
        /\ p[n + 1] = LineNow(fd) /\ p[n + 2] = Buffered(fd)
    BY <1>1
  <1>4. UNION {Text(p[k]) : k \in DOMAIN p} = Gathered(fd)
    BY <1>2, <1>3, Zenon DEF Gathered, Returned
  <1>5. Text(SubSeq(file[fd], 1, at[fd])) = Gathered(fd)
    BY <1>0 DEF FdInv, LostInv
  <1> QED BY <1>4, <1>5 DEF p

LEMMA OrderFact == ASSUME IInv PROVE InOrderOnce
  <1>0. TypeInv /\ \A g \in Fds : FdInv(g)
    BY DEF IInv
  <1> SUFFICES ASSUME NEW fd \in Fds, NEW p, p = Pieces(fd)
               PROVE  \A k, l \in DOMAIN p : \A i \in DOMAIN p[k], j \in DOMAIN p[l] :
                        /\ k < l \/ (k = l /\ i < j)
                        /\ NL \notin {p[k][i], p[l][j]}
                        => Before(p[k][i], p[l][j])
    BY DEF InOrderOnce
  <1> SUFFICES ASSUME NEW k \in DOMAIN p, NEW l \in DOMAIN p,
                      NEW i \in DOMAIN p[k], NEW j \in DOMAIN p[l],
                      k < l \/ (k = l /\ i < j), NL \notin {p[k][i], p[l][j]}
               PROVE  Before(p[k][i], p[l][j])
    OBVIOUS
  <1> DEFINE n == Len(got[fd])
  <1>1. n = Len(got[fd])
    OBVIOUS
  <1> HIDE DEF n
  <1>2. /\ n \in Nat /\ DOMAIN got[fd] = 1 .. n /\ DOMAIN p = 1 .. n + 2
        /\ \A h \in 1 .. n : p[h] = got[fd][h]
        /\ p[n + 1] = LineNow(fd)
        /\ p[n + 2] = Buffered(fd)
    BY <1>0, <1>1, PiecesIndex
  <1>3. OrderInv(fd)
    BY <1>0 DEF FdInv
  <1>4. \A h \in DOMAIN p : h \in DOMAIN got[fd] \/ h = n + 1 \/ h = n + 2
    BY <1>2
  <1>5. \A h \in DOMAIN got[fd] : p[h] = got[fd][h] /\ Text(p[h]) \subseteq Returned(fd)
    BY <1>2 DEF Returned
  <1>6. CASE k = l
    <2>1. Ordered(p[k])
      BY <1>2, <1>3, <1>4, <1>5 DEF OrderInv
    <2> QED BY <1>2, <1>6, <2>1 DEF Ordered
  <1>7. CASE k < l
    <2>1. p[k][i] \in Text(p[k]) /\ p[l][j] \in Text(p[l])
      BY DEF Text
    <2>2. Precedes(Text(p[k]), Text(p[l]))
      <3>1. CASE l \in DOMAIN got[fd]
        <4>1. k \in DOMAIN got[fd]
          BY <1>2, <1>7, <3>1
        <4> QED BY <1>3, <1>5, <1>7, <3>1, <4>1 DEF OrderInv
      <3>2. CASE k \in DOMAIN got[fd] /\ l = n + 1
        <4>1. Precedes(Returned(fd), Text(p[l]))
          BY <1>2, <1>3, <3>2 DEF OrderInv
        <4> QED BY <1>5, <3>2, <4>1 DEF Precedes
      <3>3. CASE k \in DOMAIN got[fd] /\ l = n + 2
        <4>1. Precedes(Returned(fd), Text(p[l]))
          BY <1>2, <1>3, <3>3 DEF OrderInv
        <4> QED BY <1>5, <3>3, <4>1 DEF Precedes
      <3>4. CASE k = n + 1 /\ l = n + 2
        BY <1>2, <1>3, <3>4 DEF OrderInv
      <3>5. k \in DOMAIN got[fd] \/ (k = n + 1 /\ l = n + 2) \/ l \in DOMAIN got[fd]
        BY <1>2, <1>7
      <3> QED BY <1>4, <3>1, <3>2, <3>3, <3>4, <3>5
    <2> QED BY <2>1, <2>2 DEF Precedes
  <1> QED BY <1>6, <1>7
-----------------------------------------------------------------------------
(* However read() cuts a file into pieces, the lines returned, joined, are *)
(* a beginning of it, and all of it once a call has returned NULL.         *)
THEOREM LinesAreWhole == Spec => []WholeLines
  BY GetlineInvariant, WholeFact, PTL

(* A read that fails loses nothing of what the earlier ones brought.       *)
THEOREM ErrorsLoseNothing == Spec => []NothingLost
  BY GetlineInvariant, LostFact, PTL

(* Nothing is returned twice or late, whatever realloc does and whatever   *)
(* was open under the descriptor before.                                   *)
THEOREM OrderIsKept == Spec => []InOrderOnce
  BY GetlineInvariant, OrderFact, PTL
-----------------------------------------------------------------------------
(* The race of laps.c.                                                     *)

(* The address at k of a sequence of addresses, NoCar beyond its end. *)
Node(l, k) == IF k \in 1 .. Len(l) THEN l[k] ELSE NoCar

(* The nodes of the heap are those of l, each is linked to the next, and   *)
(* the identifiers grow.                                                   *)
Links(l) ==
  /\ cars = Node(l, 1)
  /\ DOMAIN heap = {l[k] : k \in 1 .. Len(l)}
  /\ \A k \in 1 .. Len(l) : heap[l[k]].next = Node(l, k + 1)
  /\ \A j, k \in 1 .. Len(l) : j < k => heap[l[j]].id < heap[l[k]].id

NodeInv ==
  /\ DOMAIN heap \subseteq Addresses
  /\ \A a \in DOMAIN heap : heap[a] \in [id : Ids, laps : Nat, next : Addresses \cup {NoCar}]

Entry == [id : Ids, memory : BOOLEAN]
HistoryInv ==
  /\ left \in Seq(Ids) /\ entries \in Seq(Entry)
  /\ Len(entries) + Len(left) <= MaxEntries

(* A car is on the heap exactly if it has entered, with the laps it did. *)
EnteredIn(es, c, before) == \E j \in 1 .. before : es[j] = [id |-> c, memory |-> TRUE]
LapsIn(es, c) == {k \in DOMAIN es : es[k].id = c /\ EnteredIn(es, c, k - 1)}
CountInv ==
  /\ \A a \in DOMAIN heap :
       /\ EnteredIn(entries, heap[a].id, Len(entries))
       /\ heap[a].laps = Cardinality(LapsIn(entries, heap[a].id))
  /\ \A c \in Ids :
       EnteredIn(entries, c, Len(entries)) => \E a \in DOMAIN heap : heap[a].id = c

RaceInv == NodeInv /\ HistoryInv /\ CountInv /\ \E l \in Seq(Addresses) : Links(l)

(* Nodes with growing identifiers are different, so there are no more of   *)
(* them than addresses.                                                    *)
LEMMA NodesDiffer ==
  ASSUME NodeInv, NEW l \in Seq(Addresses), Links(l)
  PROVE  /\ \A j, k \in 1 .. Len(l) : l[j] = l[k] => j = k
         /\ \A k \in 1 .. Len(l) : l[k] \in DOMAIN heap /\ heap[l[k]].id \in Ids
         /\ Len(l) <= Cardinality(Addresses) /\ Cardinality(Addresses) \in Nat
         /\ NoCar \notin Addresses
  <1>1. Len(l) \in Nat /\ \A k \in 1 .. Len(l) : l[k] \in Addresses
    OBVIOUS
  <1>2. \A k \in 1 .. Len(l) : l[k] \in DOMAIN heap /\ heap[l[k]].id \in Ids
                               /\ heap[l[k]].id \in Int
    BY LapsAssumption DEF Links, NodeInv
  <1>3. ASSUME NEW j \in 1 .. Len(l), NEW k \in 1 .. Len(l), l[j] = l[k] PROVE j = k
    <2>1. heap[l[j]].id = heap[l[k]].id /\ heap[l[k]].id \in Int
      BY <1>2, <1>3
    <2>2. /\ j < k => heap[l[j]].id < heap[l[k]].id
          /\ k < j => heap[l[k]].id < heap[l[j]].id
      BY DEF Links
    <2>3. ~ (j < k) /\ ~ (k < j)
      <3> DEFINE u == heap[l[j]].id
                 v == heap[l[k]].id
      <3>1. u = v /\ v \in Int /\ (j < k => u < v) /\ (k < j => v < u)
        BY <2>1, <2>2
      <3> HIDE DEF u, v
      <3> QED BY <3>1
    <2> QED BY <1>1, <2>3
  <1>4. l \in Injection(1 .. Len(l), Addresses)
    <2>1. l \in [1 .. Len(l) -> Addresses]
      OBVIOUS
    <2>2. \A j, k \in 1 .. Len(l) : l[j] = l[k] => j = k
      BY <1>3
    <2> QED BY <2>1, <2>2 DEF Injection, IsInjective
  <1>5. Cardinality(1 .. Len(l)) <= Cardinality(Addresses)
    BY <1>4, LapsAssumption, FS_Injection
  <1>6. Cardinality(1 .. Len(l)) = Len(l)
    <2>1. 1 \in Int /\ Len(l) \in Int
      BY <1>1
    <2>2. Cardinality(1 .. Len(l)) = IF 1 > Len(l) THEN 0 ELSE Len(l) - 1 + 1
      BY <2>1, FS_Interval
    <2> QED BY <1>1, <2>2
  <1>7. Cardinality(Addresses) \in Nat /\ NoCar \notin Addresses
    BY LapsAssumption, FS_CardinalityType
  <1> QED BY <1>2, <1>3, <1>5, <1>6, <1>7

(* The walk from the head comes to all of them, in their order.            *)
LEMMA ListFact ==
  ASSUME NodeInv, NEW l \in Seq(Addresses), Links(l)
  PROVE  List = l
  <1> DEFINE N == Cardinality(Addresses)
             path == [k \in 0 .. N |-> Node(l, k + 1)]
             Walks(p) == p = [k \in 0 .. N |->
                                IF k = 0 THEN cars
                                ELSE IF p[k - 1] = NoCar THEN NoCar ELSE heap[p[k - 1]].next]
  <1>1. /\ \A k \in 1 .. Len(l) : l[k] \in DOMAIN heap /\ l[k] # NoCar
        /\ Len(l) <= N /\ N \in Nat /\ Len(l) \in Nat
    BY NodesDiffer
  <1> HIDE DEF N
  <1>2. Walks(path)
    <2>1. ASSUME NEW k \in 1 .. N
          PROVE  path[k] = IF path[k - 1] = NoCar THEN NoCar ELSE heap[path[k - 1]].next
      <3>1. path[k] = Node(l, k + 1) /\ path[k - 1] = Node(l, k)
        BY <1>1
      <3> HIDE DEF path
      <3>2. CASE k \in 1 .. Len(l)
        <4>1. Node(l, k) = l[k] /\ l[k] # NoCar /\ heap[l[k]].next = Node(l, k + 1)
          BY <1>1, <3>2 DEF Node, Links
        <4> QED BY <3>1, <4>1
      <3>3. CASE k \notin 1 .. Len(l)
        <4>1. Node(l, k) = NoCar /\ Node(l, k + 1) = NoCar
          BY <1>1, <3>3 DEF Node
        <4> QED BY <3>1, <4>1
      <3> QED BY <3>2, <3>3
    <2>2. path[0] = cars
      BY <1>1 DEF Links
    <2>3. \A k \in 0 .. N : k = 0 \/ k \in 1 .. N
      BY <1>1
    <2>4. path = [k \in 0 .. N |-> path[k]]
      OBVIOUS
    <2> HIDE DEF path
    <2>5. \A k \in 0 .. N : path[k] = IF k = 0 THEN cars
                                  ELSE IF path[k - 1] = NoCar THEN NoCar ELSE heap[path[k - 1]].next
      BY <2>1, <2>2, <2>3
    <2> QED BY <2>4, <2>5
  <1>3. Walk = CHOOSE p : Walks(p)
    BY DEF Walk, N
  <1> HIDE DEF Walks
  <1>4. PICK p : Walks(p) /\ Walk = p
    BY <1>2, <1>3
  <1>5. \A k \in Nat : k \in 0 .. N => p[k] = path[k]
    <2> DEFINE S == {k \in Nat : k \in 0 .. N => p[k] = path[k]}
    <2>1. /\ \A k \in 0 .. N : p[k] = IF k = 0 THEN cars
               ELSE IF p[k - 1] = NoCar THEN NoCar ELSE heap[p[k - 1]].next
          /\ \A k \in 0 .. N : path[k] = IF k = 0 THEN cars
               ELSE IF path[k - 1] = NoCar THEN NoCar ELSE heap[path[k - 1]].next
      <3> HIDE DEF path
      <3> QED BY <1>2, <1>4 DEF Walks
    <2> HIDE DEF path
    <2>2. 0 \in S
      BY <1>1, <2>1
    <2>3. ASSUME NEW k \in Nat, k \in S PROVE k + 1 \in S
      <3>1. SUFFICES ASSUME k + 1 \in 0 .. N PROVE p[k + 1] = path[k + 1]
        OBVIOUS
      <3>2. k \in 0 .. N /\ k + 1 # 0 /\ k + 1 - 1 = k
        BY <1>1, <3>1
      <3>3. p[k] = path[k]
        BY <2>3, <3>2
      <3>4. /\ p[k + 1] = IF p[k] = NoCar THEN NoCar ELSE heap[p[k]].next
            /\ path[k + 1] = IF path[k] = NoCar THEN NoCar ELSE heap[path[k]].next
        BY <2>1, <3>1, <3>2
      <3> QED BY <3>3, <3>4
    <2> HIDE DEF S
    <2>4. \A k \in Nat : k \in S
      BY <2>2, <2>3, Induction
    <2> QED BY <2>4 DEF S
  <1>6. DOMAIN Walk = 0 .. N /\ \A k \in 0 .. N : Walk[k] = Node(l, k + 1)
    <2>1. DOMAIN p = 0 .. N
      BY <1>4 DEF Walks
    <2>2. \A k \in 0 .. N : k \in Nat /\ path[k] = Node(l, k + 1)
      BY <1>1
    <2> HIDE DEF path
    <2> QED BY <1>4, <1>5, <2>1, <2>2
  <1>7. {j \in DOMAIN Walk : Walk[j] # NoCar} = 0 .. Len(l) - 1
    <2>1. \A j \in 0 .. N : Node(l, j + 1) # NoCar <=> j \in 0 .. Len(l) - 1
      BY <1>1 DEF Node
    <2>2. \A j \in 0 .. Len(l) - 1 : j \in 0 .. N
      BY <1>1
    <2> QED BY <1>6, <2>1, <2>2
  <1>8. Cardinality(0 .. Len(l) - 1) = Len(l)
    <2>1. 0 \in Int /\ Len(l) - 1 \in Int
      BY <1>1
    <2>2. Cardinality(0 .. Len(l) - 1) = IF 0 > Len(l) - 1 THEN 0 ELSE Len(l) - 1 - 0 + 1
      BY <2>1, FS_Interval
    <2> QED BY <1>1, <2>2
  <1>9. List = [k \in 1 .. Len(l) |-> Walk[k - 1]]
    BY <1>7, <1>8 DEF List
  <1>10. \A k \in 1 .. Len(l) : Walk[k - 1] = l[k]
    <2>1. \A k \in 1 .. Len(l) : k - 1 \in 0 .. N /\ k - 1 + 1 = k /\ Node(l, k) = l[k]
      BY <1>1 DEF Node
    <2> QED BY <1>6, <2>1
  <1>11. l = [k \in 1 .. Len(l) |-> l[k]]
    OBVIOUS
  <1> QED BY <1>9, <1>10, <1>11

(* What one more name counts. *)
LEMMA EntryCounts ==
  ASSUME NEW es \in Seq(Entry), NEW e \in Entry, NEW c
  PROVE  /\ IsFiniteSet(LapsIn(es, c)) /\ Cardinality(LapsIn(es, c)) \in 0 .. Len(es)
         /\ ~ EnteredIn(es, c, Len(es)) => LapsIn(es, c) = {}
         /\ EnteredIn(Append(es, e), c, Len(Append(es, e))) <=>
              EnteredIn(es, c, Len(es)) \/ e = [id |-> c, memory |-> TRUE]
         /\ e.id # c \/ ~ EnteredIn(es, c, Len(es)) => LapsIn(Append(es, e), c) = LapsIn(es, c)
         /\ e.id = c /\ EnteredIn(es, c, Len(es)) =>
              Cardinality(LapsIn(Append(es, e), c)) = Cardinality(LapsIn(es, c)) + 1
  <1> DEFINE N == Len(es)
             fs == Append(es, e)
             name == [id |-> c, memory |-> TRUE]
  <1>1. /\ N \in Nat /\ DOMAIN es = 1 .. N
        /\ Len(fs) = N + 1 /\ DOMAIN fs = 1 .. N + 1
        /\ \A k \in 1 .. N : fs[k] = es[k]
        /\ fs[N + 1] = e
    OBVIOUS
  <1> HIDE DEF N, fs
  <1>2. \A k \in 1 .. N : \A x \in 1 .. k - 1 : x \in 1 .. N
    BY <1>1
  <1>3. /\ IsFiniteSet(LapsIn(es, c)) /\ Cardinality(LapsIn(es, c)) \in 0 .. N
        /\ N + 1 \notin LapsIn(es, c)
    <2>1. LapsIn(es, c) \subseteq 1 .. N
      BY <1>1 DEF LapsIn
    <2>2. 1 \in Int /\ N \in Int
      BY <1>1
    <2>3. IsFiniteSet(1 .. N) /\ Cardinality(1 .. N) = IF 1 > N THEN 0 ELSE N - 1 + 1
      BY <2>2, FS_Interval
    <2>4. /\ IsFiniteSet(LapsIn(es, c)) /\ Cardinality(LapsIn(es, c)) <= Cardinality(1 .. N)
      BY <2>1, <2>3, FS_Subset
    <2>5. Cardinality(LapsIn(es, c)) \in Nat
      BY <2>4, FS_CardinalityType
    <2>6. N + 1 \notin 1 .. N
      BY <1>1
    <2> QED BY <1>1, <2>1, <2>3, <2>4, <2>5, <2>6
  <1>4. ASSUME ~ EnteredIn(es, c, N) PROVE LapsIn(es, c) = {}
    <2>1. ASSUME NEW k \in LapsIn(es, c) PROVE FALSE
      <3>1. k \in 1 .. N /\ EnteredIn(es, c, k - 1)
        BY <1>1, <2>1 DEF LapsIn
      <3> QED BY <1>2, <1>4, <3>1 DEF EnteredIn
    <2> QED BY <2>1
  <1>5. \A k \in 1 .. N : EnteredIn(fs, c, k - 1) <=> EnteredIn(es, c, k - 1)
    BY <1>1, <1>2 DEF EnteredIn
  <1>6. EnteredIn(fs, c, N) <=> EnteredIn(es, c, N)
    BY <1>1 DEF EnteredIn
  <1>7. EnteredIn(fs, c, Len(fs)) <=> EnteredIn(es, c, N) \/ e = name
    <2>1. \A k : k \in 1 .. Len(fs) <=> k \in 1 .. N \/ k = N + 1
      BY <1>1
    <2>2. EnteredIn(fs, c, Len(fs)) <=> EnteredIn(fs, c, N) \/ fs[N + 1] = name
      BY <2>1 DEF EnteredIn
    <2> QED BY <1>1, <1>6, <2>2
  <1>8. \A k : k \in LapsIn(fs, c) <=>
          k \in LapsIn(es, c) \/ (k = N + 1 /\ e.id = c /\ EnteredIn(es, c, N))
    <2>1. \A k : k \in 1 .. N + 1 <=> k \in 1 .. N \/ k = N + 1
      BY <1>1
    <2>2. ASSUME NEW k \in 1 .. N PROVE k \in LapsIn(fs, c) <=> k \in LapsIn(es, c)
      <3>1. k \in DOMAIN fs /\ k \in DOMAIN es /\ fs[k] = es[k]
        BY <1>1, <2>1
      <3> QED BY <1>5, <3>1 DEF LapsIn
    <2>3. N + 1 \in LapsIn(fs, c) <=> e.id = c /\ EnteredIn(es, c, N)
      <3>1. N + 1 - 1 = N /\ N + 1 \in DOMAIN fs
        BY <1>1
      <3> QED BY <1>1, <1>6, <3>1 DEF LapsIn
    <2>4. \A k : /\ k \in LapsIn(fs, c) => k \in 1 .. N + 1
                 /\ k \in LapsIn(es, c) => k \in 1 .. N
      BY <1>1 DEF LapsIn
    <2>5. N + 1 \notin 1 .. N
      BY <1>1
    <2> QED BY <2>1, <2>2, <2>3, <2>4, <2>5
  <1>9. ASSUME e.id # c \/ ~ EnteredIn(es, c, N) PROVE LapsIn(fs, c) = LapsIn(es, c)
    BY <1>8, <1>9
  <1>10. ASSUME e.id = c, EnteredIn(es, c, N)
         PROVE  Cardinality(LapsIn(fs, c)) = Cardinality(LapsIn(es, c)) + 1
    <2>1. LapsIn(fs, c) = LapsIn(es, c) \cup {N + 1}
      BY <1>8, <1>10
    <2> QED BY <1>3, <2>1, FS_AddElement
  <1>11. Cardinality(LapsIn(es, c)) \in 0 .. Len(es)
    BY <1>3 DEF N
  <1> QED BY <1>3, <1>4, <1>7, <1>9, <1>10, <1>11 DEF N, fs

(* A turn of the loop goes from one history to the next. *)
LEMMA HistoryTurn ==
  ASSUME HistoryInv, left # <<>>, left' = Tail(left), NEW memory \in BOOLEAN,
         entries' = Append(entries, [id |-> Head(left), memory |-> memory])
  PROVE  /\ HistoryInv' /\ Head(left) \in Ids
         /\ entries \in Seq(Entry) /\ [id |-> Head(left), memory |-> memory] \in Entry
  <1>1. Head(left) \in Ids /\ left' \in Seq(Ids) /\ Len(left') = Len(left) - 1
    BY DEF HistoryInv
  <1>2. entries \in Seq(Entry) /\ [id |-> Head(left), memory |-> memory] \in Entry
    BY <1>1 DEF HistoryInv, Entry
  <1>3. entries' \in Seq(Entry) /\ Len(entries') = Len(entries) + 1
    BY <1>2
  <1>4. Len(left) \in Nat /\ Len(entries) \in Nat /\ MaxEntries \in Nat
    BY LapsAssumption DEF HistoryInv
  <1> QED BY <1>1, <1>2, <1>3, <1>4 DEF HistoryInv

(* No two nodes have one identifier. *)
LEMMA OneNodeEach ==
  ASSUME NodeInv, NEW l \in Seq(Addresses), Links(l),
         NEW a \in DOMAIN heap, NEW b \in DOMAIN heap, heap[a].id = heap[b].id
  PROVE  a = b
  <1>1. PICK j \in 1 .. Len(l) : l[j] = a
    BY DEF Links
  <1>2. PICK k \in 1 .. Len(l) : l[k] = b
    BY DEF Links
  <1>3. /\ j < k => heap[a].id < heap[b].id
        /\ k < j => heap[b].id < heap[a].id
    BY <1>1, <1>2 DEF Links
  <1>4. heap[a].id \in Int /\ heap[b].id \in Int
    BY LapsAssumption DEF NodeInv
  <1>5. ~ (j < k) /\ ~ (k < j)
    <2> DEFINE u == heap[a].id
               v == heap[b].id
    <2>1. u = v /\ v \in Int /\ (j < k => u < v) /\ (k < j => v < u)
      BY <1>3, <1>4
    <2> HIDE DEF u, v
    <2> QED BY <2>1
  <1>6. j = k
    BY <1>5
  <1> QED BY <1>1, <1>2, <1>6

(* Who is found has a node, and has entered. *)
LEMMA FoundFact ==
  ASSUME NodeInv, CountInv, NEW l \in Seq(Addresses), Links(l), NEW c \in Ids
  PROVE  /\ Found(c) <=> \E a \in DOMAIN heap : heap[a].id = c
         /\ Found(c) <=> EnteredIn(entries, c, Len(entries))
         /\ \A k \in DOMAIN List : Car(k) = heap[l[k]]
         /\ DOMAIN List = 1 .. Len(l)
  <1>1. List = l /\ DOMAIN List = 1 .. Len(l)
    BY ListFact
  <1>2. \A k \in DOMAIN List : Car(k) = heap[l[k]]
    BY <1>1 DEF Car
  <1>3. Found(c) <=> \E k \in 1 .. Len(l) : heap[l[k]].id = c
    BY <1>1, <1>2 DEF Found
  <1>4. Found(c) <=> \E a \in DOMAIN heap : heap[a].id = c
    BY <1>3 DEF Links
  <1>5. Found(c) <=> EnteredIn(entries, c, Len(entries))
    BY <1>4 DEF CountInv
  <1> QED BY <1>1, <1>2, <1>4, <1>5

(* A turn for a car that is found. *)
LEMMA UpdateInv ==
  ASSUME RaceInv, left # <<>>, left' = Tail(left), NEW memory \in BOOLEAN,
         entries' = Append(entries, [id |-> Head(left), memory |-> memory]),
         Found(Head(left)), UpdateLaps(Head(left))
  PROVE  RaceInv'
  <1> DEFINE c == Head(left)
             e == [id |-> c, memory |-> memory]
  <1>1. HistoryInv' /\ c \in Ids /\ entries \in Seq(Entry) /\ e \in Entry
    BY HistoryTurn DEF RaceInv
  <1>2. PICK l \in Seq(Addresses) : Links(l)
    BY DEF RaceInv
  <1>3. NodeInv /\ CountInv
    BY DEF RaceInv
  <1>4. e.id = c /\ entries' = Append(entries, e)
    OBVIOUS
  <1> HIDE DEF c, e
  <1>5. /\ List = l /\ \A k \in DOMAIN List : Car(k) = heap[l[k]]
        /\ DOMAIN List = 1 .. Len(l) /\ EnteredIn(entries, c, Len(entries))
    <2>1. Found(c)
      BY DEF c
    <2> QED BY <1>1, <1>2, <1>3, <2>1, FoundFact, ListFact
  <1>6. PICK k \in DOMAIN List :
          /\ Car(k).id = c
          /\ heap' = [heap EXCEPT ![List[k]].laps = @ + 1] /\ cars' = cars
    BY DEF UpdateLaps, c
  <1> DEFINE a == l[k]
  <1>7. a \in DOMAIN heap /\ heap[a].id = c
    BY <1>2, <1>5, <1>6 DEF Links
  <1>8. heap' = [heap EXCEPT ![a].laps = @ + 1]
    BY <1>5, <1>6
  <1> HIDE DEF a
  <1>9. /\ DOMAIN heap' = DOMAIN heap
        /\ heap'[a] = [heap[a] EXCEPT !.laps = @ + 1]
        /\ \A b \in DOMAIN heap : b # a => heap'[b] = heap[b]
    <2>1. DOMAIN heap' = DOMAIN heap
      BY <1>8
    <2>2. \A b \in DOMAIN heap : b # a => heap'[b] = heap[b]
      BY <1>8
    <2>3. heap'[a] = [heap[a] EXCEPT !.laps = @ + 1]
      BY <1>7, <1>8
    <2> QED BY <2>1, <2>2, <2>3
  <1>10. /\ DOMAIN heap \subseteq Addresses
         /\ \A b \in DOMAIN heap :
              heap[b] \in [id : Ids, laps : Nat, next : Addresses \cup {NoCar}]
    BY <1>3 DEF NodeInv
  <1>11. /\ heap'[a] \in [id : Ids, laps : Nat, next : Addresses \cup {NoCar}]
         /\ heap'[a].id = heap[a].id /\ heap'[a].next = heap[a].next
         /\ heap'[a].laps = heap[a].laps + 1
    <2> DEFINE r == heap[a]
    <2>1. r \in [id : Ids, laps : Nat, next : Addresses \cup {NoCar}]
      BY <1>7, <1>10
    <2>2. heap'[a] = [r EXCEPT !.laps = @ + 1]
      BY <1>9
    <2> HIDE DEF r
    <2>3. /\ [r EXCEPT !.laps = @ + 1] \in [id : Ids, laps : Nat, next : Addresses \cup {NoCar}]
          /\ [r EXCEPT !.laps = @ + 1].id = r.id /\ [r EXCEPT !.laps = @ + 1].next = r.next
          /\ [r EXCEPT !.laps = @ + 1].laps = r.laps + 1
      <3>1. r = [id |-> r.id, laps |-> r.laps, next |-> r.next] /\ r.id \in Ids
            /\ r.laps \in Nat /\ r.next \in Addresses \cup {NoCar}
        BY <2>1
      <3>2. [r EXCEPT !.laps = @ + 1] = [id |-> r.id, laps |-> r.laps + 1, next |-> r.next]
        BY <3>1
      <3>3. r.laps + 1 \in Nat
        BY <3>1
      <3> QED BY <3>1, <3>2, <3>3
    <2> QED BY <2>2, <2>3 DEF r
  <1>12. NodeInv'
    BY <1>9, <1>10, <1>11 DEF NodeInv
  <1>13. \A b \in DOMAIN heap : heap'[b].id = heap[b].id /\ heap'[b].next = heap[b].next
    BY <1>9, <1>11
  <1>14. Links(l)'
    <2>1. \A j \in 1 .. Len(l) : l[j] \in DOMAIN heap
      BY <1>2 DEF Links
    <2>2. \A j \in 1 .. Len(l) : heap'[l[j]].id = heap[l[j]].id /\ heap'[l[j]].next = heap[l[j]].next
      BY <1>13, <2>1
    <2>3. cars' = cars /\ DOMAIN heap' = DOMAIN heap
      BY <1>6, <1>9
    <2>4. cars' = Node(l, 1) /\ DOMAIN heap' = {l[j] : j \in 1 .. Len(l)}
      BY <1>2, <2>3 DEF Links
    <2>5. \A j \in 1 .. Len(l) : heap'[l[j]].next = Node(l, j + 1)
      BY <1>2, <2>2 DEF Links
    <2>6. \A i, j \in 1 .. Len(l) : i < j => heap'[l[i]].id < heap'[l[j]].id
      BY <1>2, <2>2 DEF Links
    <2> QED BY <2>4, <2>5, <2>6 DEF Links, Node
  <1>15. CountInv'
    <2>1. ASSUME NEW b \in DOMAIN heap
          PROVE  /\ EnteredIn(entries', heap'[b].id, Len(entries'))
                 /\ heap'[b].laps = Cardinality(LapsIn(entries', heap'[b].id))
      <3>1. EnteredIn(entries, heap[b].id, Len(entries))
            /\ heap[b].laps = Cardinality(LapsIn(entries, heap[b].id))
        BY <1>3 DEF CountInv
      <3>2. EnteredIn(entries', heap[b].id, Len(entries'))
        BY <1>1, <1>4, <3>1, EntryCounts
      <3>3. CASE b = a
        <4>1. Cardinality(LapsIn(entries', c)) = Cardinality(LapsIn(entries, c)) + 1
          BY <1>1, <1>4, <1>5, EntryCounts
        <4> QED BY <1>7, <1>11, <3>1, <3>2, <3>3, <4>1
      <3>4. CASE b # a
        <4>1. heap[b].id # c
          BY <1>2, <1>3, <1>7, <3>4, OneNodeEach
        <4>2. LapsIn(entries', heap[b].id) = LapsIn(entries, heap[b].id)
          BY <1>1, <1>4, <4>1, EntryCounts
        <4> QED BY <1>9, <3>1, <3>2, <3>4, <4>2
      <3> QED BY <3>3, <3>4
    <2>2. ASSUME NEW d \in Ids, EnteredIn(entries', d, Len(entries'))
          PROVE  \E b \in DOMAIN heap : heap'[b].id = d
      <3>1. EnteredIn(entries, d, Len(entries)) \/ e = [id |-> d, memory |-> TRUE]
        BY <1>1, <1>4, <2>2, EntryCounts
      <3>2. EnteredIn(entries, d, Len(entries)) \/ d = c
        BY <1>4, <3>1
      <3>3. EnteredIn(entries, d, Len(entries))
        BY <1>5, <3>2
      <3> QED BY <1>3, <1>13, <3>3 DEF CountInv
    <2> QED BY <1>9, <2>1, <2>2 DEF CountInv
  <1> QED BY <1>1, <1>12, <1>14, <1>15 DEF RaceInv

(* A turn for a car that malloc has no memory for. *)
LEMMA PassOverInv ==
  ASSUME RaceInv, left # <<>>, left' = Tail(left),
         entries' = Append(entries, [id |-> Head(left), memory |-> FALSE]),
         ~ Found(Head(left)), UNCHANGED <<cars, heap>>
  PROVE  RaceInv'
  <1> DEFINE c == Head(left)
             e == [id |-> c, memory |-> FALSE]
  <1>1. HistoryInv' /\ c \in Ids /\ entries \in Seq(Entry) /\ e \in Entry
    <2>1. FALSE \in BOOLEAN
      OBVIOUS
    <2> QED BY <2>1, HistoryTurn DEF RaceInv
  <1>2. PICK l \in Seq(Addresses) : Links(l)
    BY DEF RaceInv
  <1>3. NodeInv /\ CountInv
    BY DEF RaceInv
  <1>4. \A b \in DOMAIN heap : heap[b].id # e.id
    <2>1. ~ Found(c) /\ e.id = c
      OBVIOUS
    <2> HIDE DEF c, e
    <2> QED BY <1>1, <1>2, <1>3, <2>1, FoundFact
  <1>5. (\A d : e # [id |-> d, memory |-> TRUE]) /\ entries' = Append(entries, e)
    <2>1. e.memory = FALSE /\ \A d : [id |-> d, memory |-> TRUE].memory = TRUE
      OBVIOUS
    <2> HIDE DEF e
    <2>2. \A d : e # [id |-> d, memory |-> TRUE]
      BY <2>1
    <2> QED BY <2>2 DEF e
  <1> HIDE DEF c, e
  <1>6. NodeInv' /\ Links(l)'
    BY <1>2, <1>3 DEF NodeInv, Links, Node
  <1>7. \A b \in DOMAIN heap :
          /\ EnteredIn(entries', heap[b].id, Len(entries'))
          /\ heap[b].laps = Cardinality(LapsIn(entries', heap[b].id))
    BY <1>1, <1>3, <1>4, <1>5, EntryCounts DEF CountInv
  <1>8. \A d \in Ids : EnteredIn(entries', d, Len(entries')) => \E b \in DOMAIN heap : heap[b].id = d
    BY <1>1, <1>3, <1>5, EntryCounts DEF CountInv
  <1>9. CountInv'
    BY <1>7, <1>8 DEF CountInv
  <1> QED BY <1>1, <1>6, <1>9 DEF RaceInv

(* A node put between those before it and those after it. *)
LEMMA InsertLinks ==
  ASSUME NodeInv, NEW l \in Seq(Addresses), Links(l),
         NEW c \in Ids, NEW new \in Addresses \ DOMAIN heap, NEW j \in 0 .. Len(l),
         \A k \in 1 .. j : heap[l[k]].id < c,
         \A k \in j + 1 .. Len(l) : c < heap[l[k]].id,
         cars' = IF j = 0 THEN new ELSE cars,
         DOMAIN heap' = DOMAIN heap \cup {new},
         heap'[new].id = c, heap'[new].next = Node(l, j + 1),
         \A k \in 1 .. Len(l) :
           /\ heap'[l[k]].id = heap[l[k]].id
           /\ heap'[l[k]].next = IF k = j THEN new ELSE heap[l[k]].next
  PROVE  \E m \in Seq(Addresses) : Links(m)'
  <1> DEFINE N == Len(l)
             mm == [k \in 1 .. N + 1 |->
                      IF k <= j THEN l[k] ELSE IF k = j + 1 THEN new ELSE l[k - 1]]
  <1>1. /\ N \in Nat /\ j \in Nat /\ j <= N
        /\ \A k \in 1 .. N : l[k] \in Addresses /\ l[k] \in DOMAIN heap /\ heap[l[k]].id \in Int
    <2>1. Len(l) \in Nat /\ \A k \in 1 .. Len(l) : l[k] \in Addresses
      OBVIOUS
    <2>2. \A k \in 1 .. Len(l) : l[k] \in DOMAIN heap
      BY DEF Links
    <2>3. \A b \in DOMAIN heap : heap[b].id \in Int
      BY LapsAssumption DEF NodeInv
    <2> QED BY <2>1, <2>2, <2>3
  <1>2. c \in Int
    BY LapsAssumption
  <1>3. mm \in Seq(Addresses) /\ Len(mm) = N + 1
    <2>1. N + 1 \in Nat
      BY <1>1
    <2>2. \A k \in 1 .. N + 1 : mm[k] \in Addresses
      BY <1>1
    <2>3. mm \in [1 .. N + 1 -> Addresses]
      <3>1. DOMAIN mm = 1 .. N + 1 /\ mm = [k \in 1 .. N + 1 |-> mm[k]]
        OBVIOUS
      <3> HIDE DEF mm
      <3> QED BY <2>2, <3>1
    <2> HIDE DEF mm
    <2>4. mm \in Seq(Addresses)
      BY <2>1, <2>3, SeqDef
    <2>5. DOMAIN mm = 1 .. N + 1
      BY <2>3
    <2> QED BY <2>1, <2>4, <2>5
  <1> HIDE DEF N
  <1>4. \A k \in 1 .. N + 1 :
          /\ k <= j => mm[k] = l[k] /\ k \in 1 .. N
          /\ k = j + 1 => mm[k] = new
          /\ k > j + 1 => mm[k] = l[k - 1] /\ k - 1 \in 1 .. N
    BY <1>1
  <1>5. PICK m : m \in Seq(Addresses) /\ Len(m) = N + 1 /\ m = mm
    BY <1>3
  <1> HIDE DEF mm
  <1>6. \A k \in 1 .. N + 1 :
          /\ k <= j => m[k] = l[k] /\ k \in 1 .. N
          /\ k = j + 1 => m[k] = new
          /\ k > j + 1 => m[k] = l[k - 1] /\ k - 1 \in 1 .. N
    BY <1>4, <1>5
  <1>7. cars' = Node(m, 1)
    <2>1. Node(m, 1) = m[1] /\ 1 \in 1 .. N + 1
      BY <1>1, <1>5 DEF Node
    <2>2. CASE j = 0
      BY <1>6, <2>1, <2>2
    <2>3. CASE j # 0
      <3>1. 1 \in 1 .. N /\ 1 <= j
        BY <1>1, <2>3
      <3>2. m[1] = l[1] /\ Node(l, 1) = l[1]
        BY <1>6, <2>1, <3>1 DEF Node, N
      <3> QED BY <2>1, <2>3, <3>2 DEF Links
    <2> QED BY <2>2, <2>3
  <1>8. DOMAIN heap' = {m[k] : k \in 1 .. N + 1}
    <2>1. DOMAIN heap = {l[k] : k \in 1 .. N}
      BY DEF Links, N
    <2>2. ASSUME NEW k \in 1 .. N + 1 PROVE m[k] \in DOMAIN heap \cup {new}
      <3>1. k <= j \/ k = j + 1 \/ k > j + 1
        BY <1>1
      <3> QED BY <1>6, <2>1, <3>1
    <2>3. ASSUME NEW k \in 1 .. N PROVE l[k] \in {m[x] : x \in 1 .. N + 1}
      <3>1. CASE k <= j
        <4>1. k \in 1 .. N + 1
          BY <1>1
        <4> QED BY <1>6, <3>1, <4>1
      <3>2. CASE ~ (k <= j)
        <4>1. k + 1 \in 1 .. N + 1 /\ k + 1 > j + 1 /\ k + 1 - 1 = k
          BY <1>1, <3>2
        <4>2. m[k + 1] = l[k]
          BY <1>6, <4>1
        <4> QED BY <4>1, <4>2
      <3> QED BY <3>1, <3>2
    <2>4. j + 1 \in 1 .. N + 1 /\ m[j + 1] = new
      BY <1>1, <1>6
    <2>5. new \in {m[x] : x \in 1 .. N + 1}
      BY <2>4
    <2>6. DOMAIN heap' = DOMAIN heap \cup {new}
      OBVIOUS
    <2>7. {m[x] : x \in 1 .. N + 1} \subseteq DOMAIN heap \cup {new}
      BY <2>2
    <2>8. DOMAIN heap \subseteq {m[x] : x \in 1 .. N + 1}
      BY <2>1, <2>3
    <2> QED BY <2>5, <2>6, <2>7, <2>8
  <1>9. \A k \in 1 .. N : /\ heap[l[k]].next = IF k + 1 \in 1 .. N THEN l[k + 1] ELSE NoCar
                          /\ heap'[l[k]].id = heap[l[k]].id
                          /\ heap'[l[k]].next = IF k = j THEN new ELSE heap[l[k]].next
    BY DEF Links, Node, N
  <1>10. heap'[new].next = IF j + 1 \in 1 .. N THEN l[j + 1] ELSE NoCar
    BY DEF Node, N
  <1>11. ASSUME NEW k \in 1 .. N + 1 PROVE heap'[m[k]].next = Node(m, k + 1)
    <2>1. Node(m, k + 1) = IF k + 1 \in 1 .. N + 1 THEN m[k + 1] ELSE NoCar
      BY <1>5 DEF Node
    <2>2. CASE k < j
      <3>1. k + 1 \in 1 .. N + 1 /\ k + 1 <= j /\ k \in 1 .. N /\ k + 1 \in 1 .. N /\ k <= j /\ k # j
        BY <1>1, <2>2
      <3>2. m[k] = l[k] /\ m[k + 1] = l[k + 1]
        BY <1>6, <3>1
      <3> QED BY <1>9, <2>1, <3>1, <3>2
    <2>3. CASE k = j
      <3>1. k + 1 \in 1 .. N + 1 /\ k + 1 = j + 1 /\ k \in 1 .. N /\ k <= j
        BY <1>1, <2>3
      <3>2. m[k] = l[k] /\ m[k + 1] = new
        BY <1>6, <3>1
      <3> QED BY <1>9, <2>1, <2>3, <3>1, <3>2
    <2>4. CASE k = j + 1
      <3>1. m[k] = new
        BY <1>6, <2>4
      <3>2. k + 1 \in 1 .. N + 1 <=> k \in 1 .. N
        BY <1>1
      <3>3. k + 1 \in 1 .. N + 1 => m[k + 1] = l[k]
        <4>1. k + 1 > j + 1 /\ k + 1 - 1 = k
          BY <1>1, <2>4
        <4> QED BY <1>6, <4>1
      <3> QED BY <1>10, <2>1, <2>4, <3>1, <3>2, <3>3
    <2>5. CASE k > j + 1
      <3>1. m[k] = l[k - 1] /\ k - 1 \in 1 .. N /\ k - 1 + 1 = k /\ k - 1 # j
        BY <1>1, <1>6, <2>5
      <3>2. k + 1 \in 1 .. N + 1 <=> k \in 1 .. N
        BY <1>1
      <3>3. k + 1 \in 1 .. N + 1 => m[k + 1] = l[k]
        <4>1. k + 1 > j + 1 /\ k + 1 - 1 = k
          BY <1>1, <2>5
        <4> QED BY <1>6, <4>1
      <3>4. heap'[l[k - 1]].next = IF k \in 1 .. N THEN l[k] ELSE NoCar
        BY <1>9, <3>1
      <3> QED BY <2>1, <3>1, <3>2, <3>3, <3>4
    <2> QED BY <1>1, <2>2, <2>3, <2>4, <2>5
  <1>12. \A i, k \in 1 .. N : i < k => heap[l[i]].id < heap[l[k]].id
    BY DEF Links, N
  <1>13. /\ \A k \in 1 .. j : heap[l[k]].id < c
         /\ \A k \in j + 1 .. N : c < heap[l[k]].id
    BY DEF N
  <1>14. ASSUME NEW i \in 1 .. N + 1, NEW k \in 1 .. N + 1, i < k
         PROVE  heap'[m[i]].id < heap'[m[k]].id
    <2>1. CASE k <= j
      <3>1. i <= j /\ i \in 1 .. N /\ k \in 1 .. N
        BY <1>1, <1>14, <2>1
      <3>2. m[i] = l[i] /\ m[k] = l[k]
        BY <1>6, <2>1, <3>1
      <3> QED BY <1>9, <1>12, <1>14, <3>1, <3>2
    <2>2. CASE k = j + 1
      <3>1. i <= j /\ i \in 1 .. N /\ i \in 1 .. j
        BY <1>1, <1>14, <2>2
      <3>2. m[i] = l[i] /\ m[k] = new
        BY <1>6, <2>2, <3>1
      <3> QED BY <1>9, <1>13, <3>1, <3>2
    <2>3. CASE k > j + 1
      <3>1. m[k] = l[k - 1] /\ k - 1 \in 1 .. N /\ k - 1 \in j + 1 .. N
        BY <1>1, <1>6, <2>3
      <3>2. heap'[m[k]].id = heap[l[k - 1]].id
        BY <1>9, <3>1
      <3>3. CASE i <= j
        <4>1. m[i] = l[i] /\ i \in 1 .. N /\ i < k - 1
          BY <1>1, <1>6, <2>3, <3>3
        <4> QED BY <1>9, <1>12, <3>1, <3>2, <4>1
      <3>4. CASE i = j + 1
        <4>1. m[i] = new
          BY <1>6, <3>4
        <4> QED BY <1>13, <3>1, <3>2, <4>1
      <3>5. CASE i > j + 1
        <4>1. m[i] = l[i - 1] /\ i - 1 \in 1 .. N /\ i - 1 < k - 1
          BY <1>1, <1>6, <1>14, <3>5
        <4> QED BY <1>9, <1>12, <3>1, <3>2, <4>1
      <3> QED BY <1>1, <3>3, <3>4, <3>5
    <2> QED BY <1>1, <2>1, <2>2, <2>3
  <1>15. Links(m)'
    <2>1. 1 .. Len(m) = 1 .. N + 1 /\ m \in Seq(Addresses)
      BY <1>5
    <2>2. cars' = Node(m, 1) /\ DOMAIN heap' = {m[k] : k \in 1 .. Len(m)}
      BY <1>7, <1>8, <2>1
    <2>3. \A k \in 1 .. Len(m) : heap'[m[k]].next = Node(m, k + 1)
      BY <1>11, <2>1
    <2>4. \A i, k \in 1 .. Len(m) : i < k => heap'[m[i]].id < heap'[m[k]].id
      BY <1>14, <2>1
    <2> QED BY <2>2, <2>3, <2>4 DEF Links, Node
  <1> QED BY <1>5, <1>15

(* What a new node changes apart from the links. *)
LEMMA InsertCounts ==
  ASSUME NodeInv, CountInv, NEW c \in Ids, NEW new \in Addresses \ DOMAIN heap,
         NEW nx \in Addresses \cup {NoCar},
         entries \in Seq(Entry), entries' = Append(entries, [id |-> c, memory |-> TRUE]),
         ~ EnteredIn(entries, c, Len(entries)), \A b \in DOMAIN heap : heap[b].id # c,
         DOMAIN heap' = DOMAIN heap \cup {new}, heap'[new] = NewCar(c, nx),
         \A b \in DOMAIN heap :
           /\ heap'[b] \in [id : Ids, laps : Nat, next : Addresses \cup {NoCar}]
           /\ heap'[b].id = heap[b].id /\ heap'[b].laps = heap[b].laps
  PROVE  NodeInv' /\ CountInv'
  <1> DEFINE e == [id |-> c, memory |-> TRUE]
  <1>1. e \in Entry /\ e.id = c /\ entries' = Append(entries, e)
    <2>1. TRUE \in BOOLEAN
      OBVIOUS
    <2> QED BY <2>1 DEF Entry
  <1>2. \A d : e = [id |-> d, memory |-> TRUE] <=> d = c
    OBVIOUS
  <1> HIDE DEF e
  <1>3. heap'[new] \in [id : Ids, laps : Nat, next : Addresses \cup {NoCar}]
        /\ heap'[new].id = c /\ heap'[new].laps = 0
    BY DEF NewCar
  <1>4. NodeInv'
    BY <1>3 DEF NodeInv
  <1>5. /\ EnteredIn(entries', c, Len(entries'))
        /\ Cardinality(LapsIn(entries', c)) = 0
    <2>1. EnteredIn(entries', c, Len(entries'))
      BY <1>1, <1>2, EntryCounts
    <2>2. LapsIn(entries, c) = {} /\ LapsIn(entries', c) = LapsIn(entries, c)
      BY <1>1, EntryCounts
    <2> QED BY <2>1, <2>2, FS_EmptySet
  <1>6. ASSUME NEW b \in DOMAIN heap
        PROVE  /\ EnteredIn(entries', heap'[b].id, Len(entries'))
               /\ heap'[b].laps = Cardinality(LapsIn(entries', heap'[b].id))
    <2>1. /\ heap[b].id # c
          /\ EnteredIn(entries, heap[b].id, Len(entries))
          /\ heap[b].laps = Cardinality(LapsIn(entries, heap[b].id))
      BY DEF CountInv
    <2>2. EnteredIn(entries', heap[b].id, Len(entries'))
      BY <1>1, <2>1, EntryCounts
    <2>3. LapsIn(entries', heap[b].id) = LapsIn(entries, heap[b].id)
      BY <1>1, <2>1, EntryCounts
    <2> QED BY <2>1, <2>2, <2>3
  <1>7. ASSUME NEW d \in Ids, EnteredIn(entries', d, Len(entries'))
        PROVE  \E b \in DOMAIN heap' : heap'[b].id = d
    <2>1. EnteredIn(entries, d, Len(entries)) \/ d = c
      BY <1>1, <1>2, <1>7, EntryCounts
    <2>2. CASE EnteredIn(entries, d, Len(entries))
      BY <2>2 DEF CountInv
    <2>3. CASE d = c
      BY <1>3, <2>3
    <2> QED BY <2>1, <2>2, <2>3
  <1>8. \A b \in DOMAIN heap' :
          /\ EnteredIn(entries', heap'[b].id, Len(entries'))
          /\ heap'[b].laps = Cardinality(LapsIn(entries', heap'[b].id))
    BY <1>3, <1>5, <1>6
  <1>9. CountInv'
    BY <1>7, <1>8 DEF CountInv
  <1> QED BY <1>4, <1>9

(* A turn for a car that joins the race. *)
LEMMA AddInv ==
  ASSUME RaceInv, left # <<>>, left' = Tail(left),
         entries' = Append(entries, [id |-> Head(left), memory |-> TRUE]),
         ~ Found(Head(left)), AddCar(Head(left))
  PROVE  RaceInv'
  <1> DEFINE c == Head(left)
  <1>1. HistoryInv' /\ c \in Ids /\ entries \in Seq(Entry)
    <2>1. TRUE \in BOOLEAN
      OBVIOUS
    <2> QED BY <2>1, HistoryTurn DEF RaceInv
  <1>2. PICK l \in Seq(Addresses) : Links(l)
    BY DEF RaceInv
  <1>3. NodeInv /\ CountInv /\ ~ Found(c) /\ AddCar(c)
        /\ entries' = Append(entries, [id |-> c, memory |-> TRUE])
    BY DEF RaceInv
  <1> HIDE DEF c
  <1>4. /\ List = l /\ \A k \in DOMAIN List : Car(k) = heap[l[k]]
        /\ DOMAIN List = 1 .. Len(l) /\ Len(List) = Len(l)
        /\ ~ EnteredIn(entries, c, Len(entries)) /\ \A b \in DOMAIN heap : heap[b].id # c
    BY <1>1, <1>2, <1>3, FoundFact, ListFact
  <1>5. /\ DOMAIN heap \subseteq Addresses
        /\ \A b \in DOMAIN heap :
             /\ heap[b] \in [id : Ids, laps : Nat, next : Addresses \cup {NoCar}]
             /\ heap[b].id \in Int
        /\ c \in Int /\ NoCar \notin Addresses
    BY <1>1, <1>3, LapsAssumption DEF NodeInv
  <1>6. /\ Len(l) \in Nat /\ \A k \in 1 .. Len(l) : l[k] \in DOMAIN heap /\ l[k] \in Addresses
        /\ DOMAIN heap = {l[k] : k \in 1 .. Len(l)}
        /\ cars = Node(l, 1) /\ \A k \in 1 .. Len(l) : heap[l[k]].next = Node(l, k + 1)
        /\ \A i, k \in 1 .. Len(l) : i < k => heap[l[i]].id < heap[l[k]].id
        /\ \A i, k \in 1 .. Len(l) : l[i] = l[k] => i = k
    <2>1. Len(l) \in Nat
      OBVIOUS
    <2> QED BY <1>2, <1>3, <1>5, <2>1, NodesDiffer DEF Links
  <1>7. PICK new \in Addresses \ DOMAIN heap :
          \/ /\ JoinsInFront(c)
             /\ heap' = With(heap, new, NewCar(c, cars)) /\ cars' = new
          \/ /\ ~ JoinsInFront(c)
             /\ \E k \in DOMAIN List :
                  /\ IsPrev(k, c)
                  /\ heap' = With([heap EXCEPT ![List[k]].next = new], new, NewCar(c, Car(k).next))
             /\ cars' = cars
    BY <1>3 DEF AddCar
  <1>8. CASE /\ JoinsInFront(c)
             /\ heap' = With(heap, new, NewCar(c, cars)) /\ cars' = new
    <2>1. /\ DOMAIN heap' = DOMAIN heap \cup {new} /\ heap'[new] = NewCar(c, cars)
          /\ \A b \in DOMAIN heap : heap'[b] = heap[b]
      BY <1>7, <1>8 DEF With
    <2>2. cars \in Addresses \cup {NoCar}
      BY <1>6 DEF Node
    <2>3. NodeInv' /\ CountInv'
      BY <1>1, <1>3, <1>4, <1>5, <1>7, <2>1, <2>2, InsertCounts
    <2>4. \A k \in 1 .. Len(l) : c < heap[l[k]].id
      <3>1. ASSUME 1 \in 1 .. Len(l) PROVE c < heap[l[1]].id
        <4>1. cars = l[1] /\ cars # NoCar
          BY <1>5, <1>6, <3>1 DEF Node
        <4>2. heap[cars].id > c
          BY <1>8, <4>1 DEF JoinsInFront
        <4>3. heap[l[1]].id \in Int
          BY <1>5, <1>6, <3>1
        <4> QED BY <1>5, <4>1, <4>2, <4>3
      <3>2. ASSUME NEW k \in 1 .. Len(l) PROVE c < heap[l[k]].id
        <4>1. 1 \in 1 .. Len(l) /\ (k = 1 \/ 1 < k)
          BY <1>6
        <4>2. heap[l[1]].id \in Int /\ heap[l[k]].id \in Int
          BY <1>5, <1>6, <4>1
        <4>3. k = 1 \/ heap[l[1]].id < heap[l[k]].id
          BY <1>6, <4>1
        <4> QED BY <1>5, <3>1, <4>1, <4>2, <4>3
      <3> QED BY <3>2
    <2>5. 0 \in 0 .. Len(l) /\ 0 + 1 = 1 /\ 1 .. 0 = {}
      BY <1>6
    <2>6. /\ heap'[new].id = c /\ heap'[new].next = Node(l, 0 + 1)
          /\ cars' = IF 0 = 0 THEN new ELSE cars
      BY <1>6, <1>8, <2>1, <2>5 DEF NewCar
    <2>7. \A k \in 1 .. Len(l) :
            /\ heap'[l[k]].id = heap[l[k]].id
            /\ heap'[l[k]].next = IF k = 0 THEN new ELSE heap[l[k]].next
      BY <1>6, <2>1
    <2>8. /\ \A k \in 1 .. 0 : heap[l[k]].id < c
          /\ \A k \in 0 + 1 .. Len(l) : c < heap[l[k]].id
      BY <2>4, <2>5
    <2>9. \E m \in Seq(Addresses) : Links(m)'
      BY <1>1, <1>2, <1>3, <1>7, <2>1, <2>5, <2>6, <2>7, <2>8, InsertLinks
    <2> QED BY <1>1, <2>3, <2>9 DEF RaceInv
  <1>9. CASE /\ ~ JoinsInFront(c)
             /\ \E k \in DOMAIN List :
                  /\ IsPrev(k, c)
                  /\ heap' = With([heap EXCEPT ![List[k]].next = new], new, NewCar(c, Car(k).next))
             /\ cars' = cars
    <2>1. PICK j \in 1 .. Len(l) :
            /\ IsPrev(j, c)
            /\ heap' = With([heap EXCEPT ![l[j]].next = new], new, NewCar(c, heap[l[j]].next))
      BY <1>4, <1>9
    <2> DEFINE g == [heap EXCEPT ![l[j]].next = new]
    <2>2. /\ DOMAIN g = DOMAIN heap /\ g[l[j]] = [heap[l[j]] EXCEPT !.next = new]
          /\ \A b \in DOMAIN heap : b # l[j] => g[b] = heap[b]
      BY <1>6
    <2> HIDE DEF g
    <2>3. /\ DOMAIN heap' = DOMAIN heap \cup {new} /\ heap'[new] = NewCar(c, heap[l[j]].next)
          /\ \A b \in DOMAIN heap : heap'[b] = g[b]
      <3>1. heap' = [a \in DOMAIN g \cup {new} |-> IF a = new THEN NewCar(c, heap[l[j]].next) ELSE g[a]]
        BY <2>1 DEF With, g
      <3> QED BY <1>7, <2>2, <3>1
    <2>4. \A b \in DOMAIN heap :
            /\ heap'[b] \in [id : Ids, laps : Nat, next : Addresses \cup {NoCar}]
            /\ heap'[b].id = heap[b].id /\ heap'[b].laps = heap[b].laps
            /\ heap'[b].next = IF b = l[j] THEN new ELSE heap[b].next
      <3>1. ASSUME NEW r \in [id : Ids, laps : Nat, next : Addresses \cup {NoCar}]
            PROVE  /\ [r EXCEPT !.next = new] \in [id : Ids, laps : Nat, next : Addresses \cup {NoCar}]
                   /\ [r EXCEPT !.next = new].id = r.id /\ [r EXCEPT !.next = new].laps = r.laps
                   /\ [r EXCEPT !.next = new].next = new
        <4>1. r = [id |-> r.id, laps |-> r.laps, next |-> r.next] /\ r.id \in Ids /\ r.laps \in Nat
          OBVIOUS
        <4>2. [r EXCEPT !.next = new] = [id |-> r.id, laps |-> r.laps, next |-> new]
          BY <4>1
        <4> QED BY <1>7, <4>1, <4>2
      <3>2. ASSUME NEW b \in DOMAIN heap, b = l[j]
            PROVE  /\ heap'[b] \in [id : Ids, laps : Nat, next : Addresses \cup {NoCar}]
                   /\ heap'[b].id = heap[b].id /\ heap'[b].laps = heap[b].laps
                   /\ heap'[b].next = new
        <4>1. heap'[b] = [heap[b] EXCEPT !.next = new]
          BY <2>2, <2>3, <3>2
        <4>2. heap[b] \in [id : Ids, laps : Nat, next : Addresses \cup {NoCar}]
          BY <1>5
        <4> QED BY <3>1, <4>1, <4>2
      <3>3. \A b \in DOMAIN heap : b # l[j] => heap'[b] = heap[b]
        BY <2>2, <2>3
      <3> QED BY <1>5, <3>2, <3>3
    <2>5. heap[l[j]].next \in Addresses \cup {NoCar}
      BY <1>5, <1>6
    <2>6. NodeInv' /\ CountInv'
      BY <1>1, <1>3, <1>4, <1>5, <1>7, <2>3, <2>4, <2>5, InsertCounts
    <2>7. \A k \in 1 .. j : heap[l[k]].id < c
      <3>1. \A k \in 1 .. j : k \in DOMAIN List /\ Car(k).id < c
        BY <1>4, <1>6, <2>1 DEF IsPrev
      <3> QED BY <1>4, <3>1
    <2>8. \A k \in j + 1 .. Len(l) : c < heap[l[k]].id
      <3>1. ASSUME j < Len(l) PROVE c < heap[l[j + 1]].id
        <4>1. j + 1 \in 1 .. Len(l)
          BY <1>6, <3>1
        <4>2. Car(j + 1).id >= c
          BY <1>4, <2>1, <3>1 DEF IsPrev
        <4>3. heap[l[j + 1]].id # c /\ heap[l[j + 1]].id \in Int
          BY <1>4, <1>5, <1>6, <4>1
        <4>4. Car(j + 1) = heap[l[j + 1]]
          BY <1>4, <4>1
        <4> QED BY <1>5, <4>2, <4>3, <4>4
      <3>2. ASSUME NEW k \in j + 1 .. Len(l) PROVE c < heap[l[k]].id
        <4>1. j < Len(l) /\ j + 1 \in 1 .. Len(l) /\ k \in 1 .. Len(l) /\ (k = j + 1 \/ j + 1 < k)
          BY <1>6
        <4>2. heap[l[j + 1]].id \in Int /\ heap[l[k]].id \in Int
          BY <1>5, <1>6, <4>1
        <4>3. k = j + 1 \/ heap[l[j + 1]].id < heap[l[k]].id
          BY <1>6, <4>1
        <4> QED BY <1>5, <3>1, <4>1, <4>2, <4>3
      <3> QED BY <3>2
    <2>9. j \in 0 .. Len(l) /\ j # 0
      BY <1>6
    <2>10. /\ heap'[new].id = c /\ heap'[new].next = Node(l, j + 1)
           /\ cars' = IF j = 0 THEN new ELSE cars
      <3>1. heap'[new].id = c /\ heap'[new].next = heap[l[j]].next
        BY <2>3 DEF NewCar
      <3>2. heap[l[j]].next = Node(l, j + 1)
        BY <1>6
      <3>3. cars' = cars
        BY <1>9
      <3> QED BY <2>9, <3>1, <3>2, <3>3
    <2>11. \A k \in 1 .. Len(l) :
             /\ heap'[l[k]].id = heap[l[k]].id
             /\ heap'[l[k]].next = IF k = j THEN new ELSE heap[l[k]].next
      BY <1>6, <2>4
    <2>12. \E m \in Seq(Addresses) : Links(m)'
      BY <1>1, <1>2, <1>3, <1>7, <2>3, <2>7, <2>8, <2>9, <2>10, <2>11, InsertLinks
    <2> QED BY <1>1, <2>6, <2>12 DEF RaceInv
  <1> QED BY <1>7, <1>8, <1>9

LEMMA TurnInv ==
  ASSUME RaceInv, Turn
  PROVE  RaceInv'
  <1>1. PICK memory \in BOOLEAN :
          /\ entries' = Append(entries, [id |-> Head(left), memory |-> memory])
          /\ \/ Found(Head(left)) /\ UpdateLaps(Head(left))
             \/ ~ Found(Head(left)) /\ memory /\ AddCar(Head(left))
             \/ ~ Found(Head(left)) /\ ~ memory /\ UNCHANGED <<cars, heap>>
    BY DEF Turn
  <1>2. left # <<>> /\ left' = Tail(left)
    BY DEF Turn
  <1>3. CASE Found(Head(left)) /\ UpdateLaps(Head(left))
    BY <1>1, <1>2, <1>3, UpdateInv
  <1>4. CASE ~ Found(Head(left)) /\ memory /\ AddCar(Head(left))
    <2>1. memory = TRUE
      BY <1>4
    <2>2. entries' = Append(entries, [id |-> Head(left), memory |-> TRUE])
      BY <1>1, <2>1
    <2> QED BY <1>2, <1>4, <2>2, AddInv
  <1>5. CASE ~ Found(Head(left)) /\ ~ memory /\ UNCHANGED <<cars, heap>>
    <2>1. memory = FALSE
      BY <1>1, <1>5
    <2>2. entries' = Append(entries, [id |-> Head(left), memory |-> FALSE])
      BY <1>1, <2>1
    <2> QED BY <1>2, <1>5, <2>2, PassOverInv
  <1> QED BY <1>1, <1>3, <1>4, <1>5

(* A race without cars, at the beginning and after its end. *)
LEMMA NoCars ==
  ASSUME heap = [a \in {} |-> NoCar], cars = NoCar, entries = <<>>, left = <<>>
  PROVE  RaceInv
  <1>1. DOMAIN heap = {}
    OBVIOUS
  <1>2. NodeInv
    BY <1>1 DEF NodeInv
  <1>3. HistoryInv
    BY LapsAssumption DEF HistoryInv
  <1>4. CountInv
    <2>1. \A c : ~ EnteredIn(entries, c, Len(entries))
      <3>1. Len(entries) = 0 /\ 1 .. 0 = {}
        OBVIOUS
      <3> QED BY <3>1 DEF EnteredIn
    <2> QED BY <1>1, <2>1 DEF CountInv
  <1>5. \E l \in Seq(Addresses) : Links(l)
    <2>1. <<>> \in Seq(Addresses)
      OBVIOUS
    <2>2. PICK l \in Seq(Addresses) : l = <<>>
      BY <2>1, Zenon
    <2>3. Len(l) = 0 /\ 1 .. Len(l) = {} /\ 1 \notin 1 .. Len(l)
      BY <2>2
    <2>4. Links(l)
      BY <1>1, <2>3 DEF Links, Node
    <2> QED BY <2>4
  <1> QED BY <1>2, <1>3, <1>4, <1>5 DEF RaceInv

(* The history and the list of laps.c agree, for any identifiers and any   *)
(* lengths: the nodes of the heap are linked from cars in the order of     *)
(* their identifiers, and a node has the laps its car has done.            *)
THEOREM RaceInvariant == RaceSpec => []RaceInv
  <1>1. RaceInit => RaceInv
    BY NoCars DEF RaceInit
  <1>2. RaceInv /\ [RaceNext]_raceVars => RaceInv'
    <2> SUFFICES ASSUME RaceInv, [RaceNext]_raceVars PROVE RaceInv'
      OBVIOUS
    <2>1. CASE RaceState
      <3>1. NodeInv' /\ CountInv' /\ \E l \in Seq(Addresses) : Links(l)'
        <4>1. cars' = cars /\ heap' = heap /\ entries' = entries
          BY <2>1 DEF RaceState
        <4>2. NodeInv /\ CountInv
          BY DEF RaceInv
        <4>3. PICK l \in Seq(Addresses) : Links(l)
          BY DEF RaceInv
        <4>4. NodeInv' /\ CountInv'
          BY <4>1, <4>2 DEF NodeInv, CountInv
        <4>5. Links(l)'
          BY <4>1, <4>3 DEF Links, Node
        <4> QED BY <4>4, <4>5
      <3>2. HistoryInv'
        <4>1. left' \in Arrays /\ Len(entries) + Len(left') <= MaxEntries /\ entries' = entries
          BY <2>1 DEF RaceState
        <4>2. PICK m \in 1 .. MaxArray : left' \in [1 .. m -> Ids]
          BY <4>1 DEF Arrays
        <4>3. m \in Nat
          BY LapsAssumption
        <4>4. left' \in Seq(Ids)
          BY <4>2, <4>3, SeqDef
        <4>5. entries \in Seq(Entry)
          BY DEF RaceInv, HistoryInv
        <4> QED BY <4>1, <4>4, <4>5 DEF HistoryInv
      <3> QED BY <3>1, <3>2 DEF RaceInv
    <2>2. CASE Turn
      BY <2>2, TurnInv
    <2>3. CASE EndRace
      <3>1. PICK l \in Seq(Addresses) : Links(l)
        BY DEF RaceInv
      <3>2. List = l
        BY <3>1, ListFact DEF RaceInv
      <3>3. DOMAIN heap = {List[k] : k \in DOMAIN List}
        <4>1. DOMAIN l = 1 .. Len(l)
          OBVIOUS
        <4> QED BY <3>1, <3>2, <4>1 DEF Links
      <3>4. DOMAIN heap \ {List[k] : k \in DOMAIN List} = {}
        BY <3>3
      <3>5. heap' = [a \in {} |-> heap[a]]
        BY <2>3, <3>4 DEF EndRace
      <3>6. heap' = [a \in {} |-> NoCar]
        BY <3>5
      <3>7. cars' = NoCar /\ entries' = <<>> /\ left' = <<>>
        BY <2>3 DEF EndRace
      <3> HIDE DEF RaceInv
      <3>8. (heap = [a \in {} |-> NoCar] /\ cars = NoCar /\ entries = <<>> /\ left = <<>> => RaceInv)'
        BY NoCars, PTL
      <3> QED BY <3>6, <3>7, <3>8
    <2>4. CASE UNCHANGED raceVars
      <3>1. cars' = cars /\ heap' = heap /\ entries' = entries /\ left' = left
        BY <2>4 DEF raceVars
      <3>2. PICK l \in Seq(Addresses) : Links(l)
        BY DEF RaceInv
      <3>3. Links(l)'
        BY <3>1, <3>2 DEF Links, Node
      <3> QED BY <3>1, <3>3 DEF RaceInv, NodeInv, CountInv, HistoryInv
    <2> QED BY <2>1, <2>2, <2>3, <2>4 DEF RaceNext
  <1> QED BY <1>1, <1>2, PTL DEF RaceSpec

(* What laps.c prints at the end of a call: each car once, in the order of *)
(* the identifiers, and no node is out of the reach of free_cars.          *)
THEOREM BoardIsInOrder == RaceSpec => []Leaderboard
  <1>1. RaceInv => Leaderboard
    <2> SUFFICES ASSUME RaceInv PROVE Leaderboard
      OBVIOUS
    <2>1. PICK l \in Seq(Addresses) : Links(l)
      BY DEF RaceInv
    <2>2. List = l /\ DOMAIN List = 1 .. Len(l) /\ \A k \in DOMAIN List : Car(k) = heap[l[k]]
      BY <2>1, ListFact DEF RaceInv, Car
    <2>3. \A k \in 1 .. Len(l) : l[k] \in DOMAIN heap
      BY <2>1 DEF Links
    <2>4. NoCarLost
      BY <2>1, <2>2 DEF Links, NoCarLost
    <2>5. ASSUME NEW j \in DOMAIN List, NEW k \in DOMAIN List, j < k
          PROVE  Car(j).id < Car(k).id
      <3>1. Car(j) = heap[l[j]] /\ Car(k) = heap[l[k]] /\ j \in 1 .. Len(l) /\ k \in 1 .. Len(l)
        BY <2>2
      <3>2. heap[l[j]].id < heap[l[k]].id
        BY <2>1, <2>5, <3>1 DEF Links
      <3> QED BY <3>1, <3>2
    <2>6. ASSUME NEW a \in DOMAIN heap
          PROVE  /\ heap[a].id \in Ids /\ heap[a].laps \in 0 .. MaxEntries
                 /\ heap[a].next \in DOMAIN heap \cup {NoCar}
      <3>1. heap[a].id \in Ids /\ heap[a].laps = Cardinality(LapsIn(entries, heap[a].id))
        BY DEF RaceInv, NodeInv, CountInv
      <3>2. heap[a].laps \in 0 .. MaxEntries
        <4>1. entries \in Seq(Entry) /\ Len(entries) <= MaxEntries /\ MaxEntries \in Nat
          <5>1. left \in Seq(Ids) /\ entries \in Seq(Entry) /\ Len(entries) + Len(left) <= MaxEntries
            BY DEF RaceInv, HistoryInv
          <5> QED BY <5>1, LapsAssumption
        <4>2. [id |-> heap[a].id, memory |-> TRUE] \in Entry
          <5>1. TRUE \in BOOLEAN
            OBVIOUS
          <5> QED BY <3>1, <5>1 DEF Entry
        <4>3. Cardinality(LapsIn(entries, heap[a].id)) \in 0 .. Len(entries)
          BY <4>1, <4>2, EntryCounts
        <4> QED BY <3>1, <4>1, <4>3
      <3>3. PICK k \in 1 .. Len(l) : a = l[k]
        BY <2>1 DEF Links
      <3>4. heap[a].next = Node(l, k + 1)
        BY <2>1, <3>3 DEF Links
      <3>5. heap[a].next \in DOMAIN heap \cup {NoCar}
        BY <2>3, <3>4 DEF Node
      <3> QED BY <3>1, <3>2, <3>5
    <2>7. cars \in DOMAIN heap \cup {NoCar}
      BY <2>1, <2>3 DEF Links, Node
    <2> QED BY <2>4, <2>5, <2>6, <2>7 DEF Leaderboard, RaceTypeOK
  <1> QED BY <1>1, RaceInvariant, PTL

(* The laps that laps.c keeps are those of the race, whatever the failures *)
(* of malloc.                                                              *)
THEOREM LapsAreCounted == RaceSpec => []LapsCounted
  <1>1. RaceInv => LapsCounted
    <2> SUFFICES ASSUME RaceInv PROVE LapsCounted
      OBVIOUS
    <2>1. PICK l \in Seq(Addresses) : Links(l)
      BY DEF RaceInv
    <2>2. List = l /\ DOMAIN List = 1 .. Len(l) /\ \A k \in DOMAIN List : Car(k) = heap[l[k]]
      BY <2>1, ListFact DEF RaceInv, Car
    <2>3. \A c, b : Entered(c, b) <=> EnteredIn(entries, c, b)
      BY DEF Entered, EnteredIn
    <2>4. \A c : LapsOf(c) = LapsIn(entries, c)
      BY <2>3 DEF LapsOf, LapsIn
    <2>5. DOMAIN heap = {l[k] : k \in 1 .. Len(l)}
      BY <2>1 DEF Links
    <2>6. /\ \A a \in DOMAIN heap : /\ heap[a].id \in Ids
                                    /\ Entered(heap[a].id, Len(entries))
                                    /\ heap[a].laps = Cardinality(LapsOf(heap[a].id))
          /\ \A c \in Ids : Entered(c, Len(entries)) => \E a \in DOMAIN heap : heap[a].id = c
      BY <2>3, <2>4 DEF RaceInv, NodeInv, CountInv
    <2>7. ASSUME NEW k \in DOMAIN List
          PROVE  <<Car(k).id, Car(k).laps>> \in
                   {<<c, Cardinality(LapsOf(c))>> : c \in {d \in Ids : Entered(d, Len(entries))}}
      <3>1. Car(k) = heap[l[k]] /\ l[k] \in DOMAIN heap
        BY <2>2, <2>5
      <3> QED BY <2>6, <3>1
    <2>8. ASSUME NEW c \in Ids, Entered(c, Len(entries))
          PROVE  <<c, Cardinality(LapsOf(c))>> \in {<<Car(k).id, Car(k).laps>> : k \in DOMAIN List}
      <3>1. PICK a \in DOMAIN heap : heap[a].id = c
        BY <2>6, <2>8
      <3>2. PICK k \in DOMAIN List : a = l[k]
        BY <2>2, <2>5
      <3>3. Car(k).id = c /\ Car(k).laps = Cardinality(LapsOf(c))
        BY <2>2, <2>6, <3>1, <3>2
      <3> QED BY <3>3
    <2> QED BY <2>7, <2>8 DEF LapsCounted
  <1> QED BY <1>1, RaceInvariant, PTL
=============================================================================
