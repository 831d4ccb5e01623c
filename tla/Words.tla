-------------------------------- MODULE Words --------------------------------
(***************************************************************************)
(* Functions that work on numbers of the width of a machine word, or on    *)
(* the bytes that numbers and buffers are made of: prime_factors of        *)
(* multithreading/, print_python_int of 0x08_CPython/, the header printer  *)
(* of readelf/ and dump_write_buffer of strace_2.c.  fn says which one was *)
(* called, arg with what; a step is a turn of a loop or a call.            *)
(*                                                                         *)
(* Widths are constants, so that the limits of a word are near.  Memory is *)
(* finite, and malloc may fail before it is used up.  The file hreadelf    *)
(* reads can be cut short by another process at any time, and the memory   *)
(* dump_write_buffer reads is gone when the tracee is killed, or what      *)
(* another of its threads unmaps of it.                                    *)
(***************************************************************************)
EXTENDS Integers, SequencesExt, FiniteSetsExt

CONSTANTS
  WIDTH,       \* bits of unsigned long, 64 in the code
  SHIFT,       \* bits of a digit of a Python integer, PyLong_SHIFT
  BASE,        \* values of a byte, 256 in the code
  WORD,        \* bytes of a long, 8 in the code
  DUMP_MAX,    \* bytes that are dumped at most, 64 in the code
  MEMORY,      \* blocks malloc has room for
  Cuts,        \* the sizes a file or a mapping may be cut to
  Calls        \* the calls: a function and its argument

(* b to the k. *)
Power(b, k) ==
  LET p[j \in 0 .. k] == IF j = 0 THEN 1 ELSE p[j - 1] * b IN p[k]

ULONG_MAX == Power(2, WIDTH) - 1
PyLong_BASE == Power(2, SHIFT)
ELFCLASS64 == 2
UNKNOWN == -1

(* The arguments of each function: a text for strtoul, an object whose     *)
(* digits come from CPython and have no zero on top, a file with its       *)
(* header, and the memory from the address of a write on, which has all    *)
(* that was written and which no other thread of the tracee writes to.     *)
Numerals == [text : {"NULL", "invalid", "number"}, value : Int]
Objects ==
  {a \in [long : BOOLEAN, negative : BOOLEAN, digits : Seq(0 .. PyLong_BASE - 1)] :
     a.digits # <<>> => a.digits[Len(a.digits)] # 0}
ElfHeaders ==
  {h \in [magic : Nat, class : Nat, data : Nat, osabi : Nat,
          type : 0 .. Power(BASE, 2) - 1, machine : 0 .. Power(BASE, 2) - 1,
          version : 0 .. Power(BASE, 4) - 1, entry : 0 .. Power(BASE, 8) - 1] :
     h.class # ELFCLASS64 => h.entry < Power(BASE, 4)}
ElfFiles == [header : ElfHeaders, size : 0 .. ULONG_MAX]
WriteBuffers ==
  {b \in [memory : Seq({"letter", "newline", "tab"}), len : Nat] : b.len <= Len(b.memory)}

ASSUME WordsAssumption ==
  /\ {WIDTH, SHIFT, BASE, WORD, DUMP_MAX, MEMORY} \subseteq Nat \ {0}
  /\ WIDTH > 1 /\ DUMP_MAX <= ULONG_MAX /\ Cuts \subseteq Nat
  /\ \A c \in Calls :
       \/ c.fn = "prime_factors" /\ c.arg \in Numerals
       \/ c.fn = "print_python_int" /\ c.arg \in Objects
       \/ c.fn = "hreadelf" /\ c.arg \in ElfFiles
       \/ c.fn = "dump_write_buffer" /\ c.arg \in WriteBuffers

VARIABLES
  fn, arg,     \* the function that was called, and its argument
  pc,          \* where it is, or how it ended
  n,           \* n, or uval
  i,           \* d_factor, or the index of a loop
  held,        \* what is allocated, opened or mapped
  out,         \* the list that is made, or what was printed
  size         \* how much there is of the file of hreadelf, or of the memory
               \* that dump_write_buffer reads

vars == <<fn, arg, pc, n, i, held, out, size>>

Ended == {"return", "NULL", "fault", "invalid", "overflow", "98"}
Running(f, at) == fn = f /\ pc = at /\ UNCHANGED <<fn, arg>>
Goto(next) == pc' = next

Init ==
  /\ \E c \in Calls : fn = c.fn /\ arg = c.arg
  /\ pc = "call" /\ n = 0 /\ i = 0 /\ held = {} /\ out = <<>>
  /\ size = CASE fn = "hreadelf" -> arg.size
              [] fn = "dump_write_buffer" -> Len(arg.memory)
              [] OTHER -> 0
-----------------------------------------------------------------------------
(* The list of prime_factors, and its blocks.                              *)

ListAdd(list, content) == Append(list, content)
NodeBlocks(k) == {<<"value", k>>, <<"node", k>>}
ListDestroyNodesOnly(blocks) == {b \in blocks : b[1] # "node"}   \* mutated form
ListDestroy(blocks) == {b \in blocks : b[1] \notin {"value", "node"}}
Free(blocks, b) == blocks \ {b}
FactorList == <<"list", 0>>

-----------------------------------------------------------------------------
(* prime_factors.                                                          *)

(* strtoul: too large a number is ULONG_MAX, a negative one wraps.         *)
Strtoul(value) ==
  IF value \in (- ULONG_MAX) .. ULONG_MAX THEN value % (ULONG_MAX + 1) ELSE ULONG_MAX

(* strtoul(NULL) comes before the test for NULL.  What is no number gives  *)
(* an empty list, not the NULL the comment of the function promises.       *)
PrimeFactors ==
  /\ Running("prime_factors", "call")
  /\ \/ arg.text = "NULL" /\ Goto("fault") /\ UNCHANGED <<n, held>>
     \/ arg.text # "NULL" /\ Goto("NULL") /\ UNCHANGED <<n, held>>
     \/ /\ arg.text = "invalid"
        /\ held' = {FactorList} /\ Goto("return") /\ UNCHANGED n
     \/ /\ arg.text = "number"
        /\ held' = {FactorList} /\ n' = Strtoul(arg.value) /\ Goto("two")
  /\ UNCHANGED <<i, out, size>>

(* A factor goes to the end of the list, and n becomes rest.  node_create  *)
(* writes to the node malloc returned without a test.                      *)
Push(factor, rest, next) ==
  LET k == Len(out) + 1
  IN  \/ /\ Cardinality(held) + 2 <= MEMORY
         /\ held' = held \cup NodeBlocks(k) /\ out' = ListAdd(out, factor)
         /\ n' = rest /\ Goto(next)
      \/ /\ held' = Free(ListDestroy(held), FactorList)
         /\ Goto("NULL") /\ UNCHANGED <<n, out>>
      \/ Cardinality(held) < MEMORY /\ Goto("fault") /\ UNCHANGED <<held, n, out>>

Halve ==
  /\ Running("prime_factors", "two")
  /\ n % 2 = 0
  /\ Push(2, n \div 2, "two")
  /\ UNCHANGED <<i, size>>

FirstOdd ==
  /\ Running("prime_factors", "two")
  /\ n % 2 # 0
  /\ i' = 3 /\ Goto("odd")
  /\ UNCHANGED <<n, held, out, size>>

(* d_factor * d_factor <= n, in unsigned long.                             *)
SquareFitsBelow(d) == (d * d) % (ULONG_MAX + 1) < n   \* mutated form
SquareFits(d) == (d * d) % (ULONG_MAX + 1) <= n

NextOddForgotten(d) == d   \* mutated form
NextOdd(d) == (d + 2) % (ULONG_MAX + 1)

TryDivisor ==
  /\ Running("prime_factors", "odd")
  /\ Goto(IF SquareFits(i) THEN "divide" ELSE "last")
  /\ UNCHANGED <<n, i, held, out, size>>

Divide ==
  /\ Running("prime_factors", "divide")
  /\ n % i = 0
  /\ Push(i, n \div i, "divide")
  /\ UNCHANGED <<i, size>>

NextDivisor ==
  /\ Running("prime_factors", "divide")
  /\ n % i # 0
  /\ i' = NextOdd(i) /\ Goto("odd")
  /\ UNCHANGED <<n, held, out, size>>

LastFactor ==
  /\ Running("prime_factors", "last")
  /\ \/ n > 1 /\ Push(n, n, "return")
     \/ n <= 1 /\ Goto("return") /\ UNCHANGED <<held, out, n>>
  /\ UNCHANGED <<i, size>>

Factorisation ==
  PrimeFactors \/ Halve \/ FirstOdd \/ TryDivisor \/ Divide \/ NextDivisor \/ LastFactor
-----------------------------------------------------------------------------
(* print_python_int: the digits are stored from the lowest one.            *)

MaxDigits == (WIDTH + SHIFT - 1) \div SHIFT
TopFitsAlways(uval) == TRUE   \* mutated form
TopFits(uval) == uval <= ULONG_MAX \div PyLong_BASE

PrintPythonInt ==
  /\ Running("print_python_int", "call")
  /\ \/ ~ arg.long /\ Goto("invalid") /\ UNCHANGED <<i, out>>
     \/ arg.long /\ arg.digits = <<>> /\ out' = <<0>> /\ Goto("return") /\ UNCHANGED i
     \/ /\ arg.long /\ Len(arg.digits) > MaxDigits
        /\ Goto("overflow") /\ UNCHANGED <<i, out>>
     \/ /\ arg.long /\ Len(arg.digits) \in 1 .. MaxDigits
        /\ i' = Len(arg.digits) /\ Goto("digits") /\ UNCHANGED out
  /\ UNCHANGED <<n, held, size>>

NextDigit ==
  /\ Running("print_python_int", "digits")
  /\ i > 0
  /\ LET shifted == (n * PyLong_BASE) % (ULONG_MAX + 1)
     IN  IF TopFits(n) /\ arg.digits[i] <= ULONG_MAX - shifted
         THEN n' = (shifted + arg.digits[i]) % (ULONG_MAX + 1) /\ i' = i - 1 /\ UNCHANGED pc
         ELSE Goto("overflow") /\ UNCHANGED <<n, i>>
  /\ UNCHANGED <<held, out, size>>

PrintNumber ==
  /\ Running("print_python_int", "digits")
  /\ i = 0
  /\ out' = <<IF arg.negative THEN - n ELSE n>> /\ Goto("return")
  /\ UNCHANGED <<n, i, held, size>>

PythonInt == PrintPythonInt \/ NextDigit \/ PrintNumber
-----------------------------------------------------------------------------
(* hreadelf.  A file has the bytes of its header in the order EI_DATA      *)
(* says; the four bytes of the magic number are one here, and of the       *)
(* fields there is one of each width and use.  What is past the end of a   *)
(* file shorter than a page reads as zero.                                 *)

FD == <<"fd", 0>>
MAP == <<"map", 0>>
ELFMAG == 7
ELFDATA2LSB == 1
ELFDATA2MSB == 2
KnownOsabi == {0, 1, 2, 3, 6, 8, 9, 10, 97, 255}
KnownTypes == 0 .. 4
KnownMachines == {0, 1, 2, 3, 4, 5, 7, 8, 9, 10, 15, 18, 19, 20, 21, 22, 37}
Named(value, known) == IF value \in known THEN value ELSE UNKNOWN

(* The bytes of a value, as the writer of the file stored them.            *)
Stored(value, width, big) ==
  LET little == [k \in 1 .. width |-> (value \div Power(BASE, k - 1)) % BASE]
  IN  IF big THEN Reverse(little) ELSE little

AddressWidth(header) == IF header.class = ELFCLASS64 THEN 8 ELSE 4
Contents(header) ==
  LET big == header.data = ELFDATA2MSB
  IN  <<header.magic, header.class, header.data, header.osabi>>
        \o Stored(header.type, 2, big) \o Stored(header.machine, 2, big)
        \o Stored(header.version, 4, big) \o Stored(header.entry, AddressWidth(header), big)

Byte(offset) ==
  IF offset <= Min({size, Len(Contents(arg.header))}) THEN Contents(arg.header)[offset] ELSE 0

Read16(at, big) ==
  IF big THEN Byte(at) * BASE + Byte(at + 1) ELSE Byte(at + 1) * BASE + Byte(at)
Read32(at, big) ==
  IF big THEN Read16(at, big) * Power(BASE, 2) + Read16(at + 2, big)
         ELSE Read16(at + 2, big) * Power(BASE, 2) + Read16(at, big)

OpenFile ==
  /\ Running("hreadelf", "call")
  /\ \/ Goto("98") /\ UNCHANGED held                          \* usage, or open fails
     \/ held' = {FD} /\ Goto("fstat")
  /\ UNCHANGED <<n, i, out, size>>

(* The size that fstat tells stays in n.                                   *)
Fstat ==
  /\ Running("hreadelf", "fstat")
  /\ \/ held' = {} /\ Goto("98") /\ UNCHANGED n
     \/ n' = size /\ Goto("mmap") /\ UNCHANGED held
  /\ UNCHANGED <<i, out, size>>

Mmap ==
  /\ Running("hreadelf", "mmap")
  /\ \/ held' = held \ {FD} /\ Goto("98")
     \/ n > 0 /\ held' = held \cup {MAP} /\ Goto("header")
  /\ UNCHANGED <<n, i, out, size>>

Close == held' = held \ {MAP, FD}

(* A page of the map that the file no longer has raises SIGBUS.            *)
ProcessElfHeader ==
  /\ Running("hreadelf", "header")
  /\ \/ size = 0 /\ Goto("fault") /\ UNCHANGED held
     \/ size > 0 /\ Byte(1) # ELFMAG /\ Close /\ Goto("98")
     \/ size > 0 /\ Byte(1) = ELFMAG /\ Goto("print") /\ UNCHANGED held
  /\ i' = IF Byte(3) = ELFDATA2MSB THEN 1 ELSE 0               \* is_big_endian
  /\ UNCHANGED <<n, out, size>>

PrintData ==
  /\ Running("hreadelf", "print")
  /\ IF size = 0
     THEN Goto("fault") /\ UNCHANGED out
     ELSE /\ out' = << IF Byte(2) = ELFCLASS64 THEN 64 ELSE 32,
                       IF Byte(3) = ELFDATA2LSB THEN ELFDATA2LSB ELSE ELFDATA2MSB,
                       Named(Byte(4), KnownOsabi) >>
          /\ Goto("fields")
  /\ UNCHANGED <<n, i, held, size>>

(* The entry point of either class is read as four bytes.                  *)
PrintElfHeader ==
  /\ Running("hreadelf", "fields")
  /\ LET big == i = 1
     IN  IF size = 0
         THEN Goto("fault") /\ UNCHANGED <<held, out>>
         ELSE /\ out' = out \o << Named(Read16(5, big), KnownTypes),
                                  Named(Read16(7, big), KnownMachines),
                                  Read32(9, big), Read32(13, big) >>
              /\ Close /\ Goto("return")
  /\ UNCHANGED <<n, i, size>>

ReadElf ==
  OpenFile \/ Fstat \/ Mmap \/ ProcessElfHeader \/ PrintData \/ PrintElfHeader
-----------------------------------------------------------------------------
(* dump_write_buffer: what a write has written, read word by word from     *)
(* the tracee.  Any error of PTRACE_PEEKDATA ends it.                      *)

DumpWriteBuffer ==
  /\ Running("dump_write_buffer", "call")
  /\ n' = Min({arg.len, DUMP_MAX}) /\ Goto("words")
  /\ UNCHANGED <<i, held, out, size>>

IsShown(c) == c # "newline"
Visible(text) ==
  LET v[k \in 0 .. Len(text)] ==
        IF k = 0 THEN <<>>
        ELSE IF IsShown(text[k]) THEN Append(v[k - 1], text[k]) ELSE v[k - 1]
  IN  v[Len(text)]
WordEnd == Min({i + WORD, n})

PeekWord ==
  /\ Running("dump_write_buffer", "words")
  /\ i < n /\ i + WORD <= size
  /\ out' = out \o Visible(SubSeq(arg.memory, i + 1, WordEnd))
  /\ i' = i + WORD
  /\ UNCHANGED <<pc, n, held, size>>

DumpEnds ==
  /\ Running("dump_write_buffer", "words")
  /\ i >= n \/ i + WORD > size
  /\ Goto("return")
  /\ UNCHANGED <<n, i, held, out, size>>

Dump == DumpWriteBuffer \/ PeekWord \/ DumpEnds
-----------------------------------------------------------------------------
(* Another process cuts the file; the tracee is killed, or a thread of it  *)
(* unmaps a part of the memory.                                            *)
Cut ==
  /\ fn \in {"hreadelf", "dump_write_buffer"} /\ pc \notin Ended
  /\ size' \in Cuts /\ size' < size
  /\ UNCHANGED <<fn, arg, pc, n, i, held, out>>

Call == Factorisation \/ PythonInt \/ ReadElf \/ Dump
Done == pc \in Ended /\ UNCHANGED vars
Next == Call \/ Cut \/ Done
Spec == Init /\ [][Next]_vars /\ WF_vars(Call)
-----------------------------------------------------------------------------
TypeOK ==
  /\ pc \in Ended \cup {"call", "two", "odd", "divide", "last", "digits", "fstat", "mmap",
                      "header", "print", "fields", "words"}
  /\ n \in 0 .. ULONG_MAX /\ i \in Nat /\ size \in Nat
  /\ held \subseteq {FactorList, FD, MAP} \cup ({"value", "node"} \X (1 .. MEMORY))

Product(list) ==
  LET p[k \in 0 .. Len(list)] == IF k = 0 THEN 1 ELSE p[k - 1] * list[k]
  IN  p[Len(list)]
IsPrime(p) == p > 1 /\ \A d \in 2 .. (p - 1) : p % d # 0
Value(digits) ==                          \* v[k]: that of the k highest digits
  LET v[k \in 0 .. Len(digits)] ==
        IF k = 0 THEN 0 ELSE v[k - 1] * PyLong_BASE + digits[Len(digits) - k + 1]
  IN  v[Len(digits)]

(* A list that prime_factors returns for a number has its prime factors in *)
(* their order, up to the largest unsigned long, where the square of the   *)
(* divisor overflows; the number is what strtoul makes of the text.  Zero  *)
(* has no factors: its call ends when memory does, and never with a list.  *)
(* Nothing is said of what is no number: for that the code returns an      *)
(* empty list, where its comment (21-prime_factors.c:9) promises NULL.     *)
FactorsRight ==
  fn = "prime_factors" /\ pc = "return" /\ arg.text = "number" =>
    /\ Strtoul(arg.value) > 0 /\ Product(out) = Strtoul(arg.value)
    /\ \A k \in DOMAIN out : IsPrime(out[k]) /\ (k > 1 => out[k - 1] <= out[k])

(* print_python_int prints the number exactly if it is one an unsigned     *)
(* long can hold, and says overflow exactly if it is not.                  *)
NumberShown ==
  /\ fn = "print_python_int" /\ pc = "return" =>
       /\ Value(arg.digits) <= ULONG_MAX
       /\ out = <<IF arg.negative THEN - Value(arg.digits) ELSE Value(arg.digits)>>
  /\ pc = "overflow" => Value(arg.digits) > ULONG_MAX

(* hreadelf shows the fields of a header the file has until the end in     *)
(* either order of bytes; the entry point, which has eight bytes in class  *)
(* 64 and is read as four, it shows for class 32, and for class 64 when    *)
(* the lower four bytes, which come first in a little endian file, are all *)
(* of it.                                                                  *)
HeaderShown ==
  fn = "hreadelf" /\ pc = "return" /\ size >= Len(Contents(arg.header))
    /\ arg.header.data \in {ELFDATA2LSB, ELFDATA2MSB} =>
    LET h == arg.header
    IN  /\ SubSeq(out, 1, 6) =
             << IF h.class = ELFCLASS64 THEN 64 ELSE 32, h.data, Named(h.osabi, KnownOsabi),
                Named(h.type, KnownTypes), Named(h.machine, KnownMachines), h.version >>
        /\ h.class # ELFCLASS64 \/ (h.data = ELFDATA2LSB /\ h.entry < Power(BASE, 4))
             => out[7] = h.entry

(* The tracer shows what was written, newlines left out, up to DUMP_MAX    *)
(* bytes.  It shows less only when the next word reaches beyond what there *)
(* is of the memory, and then whole words: where the mapping ends within   *)
(* the last word, or when the tracee was killed or unmapped the rest.      *)
WrittenShown ==
  fn = "dump_write_buffer" /\ pc = "return" =>
    LET due == Min({arg.len, DUMP_MAX})
        written(k) == {j \in 1 .. k : arg.memory[j] # "newline"}
    IN  \E read \in 0 .. due :
          /\ Len(out) = Cardinality(written(read))
          /\ \A j \in written(read) : out[Cardinality(written(j))] = arg.memory[j]
          /\ read = due \/ (read % WORD = 0 /\ read + WORD > size)

(* What is printed is what was given, as far as the code can show it.      *)
Shown == NumberShown /\ HeaderShown /\ WrittenShown

(* When prime_factors gives up it has freed every value, every node and    *)
(* the list, and hreadelf ends with its file closed and unmapped; a list   *)
(* that is returned has one node and one value for each factor.            *)
Released ==
  /\ TypeOK
  /\ pc \in {"NULL", "98"} \/ (fn = "hreadelf" /\ pc = "return") => held = {}
  /\ fn = "prime_factors" /\ pc = "return" =>
       held = {FactorList} \cup UNION {NodeBlocks(k) : k \in DOMAIN out}

(* Every call ends, that of prime_factors for a number as large as an      *)
(* unsigned long too, and for zero, because memory ends.                   *)
Ends == <>(pc \in Ended)
=============================================================================
