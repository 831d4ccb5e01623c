--------------------------------- MODULE Nm ---------------------------------
(***************************************************************************)
(* nm_objdump/: main.c reads the identification of each file it is given,  *)
(* process_elf64.c or process_elf32.c reads its tables, one allocated      *)
(* block after the other, and lists its symbols.  Every error on the way   *)
(* goes to one cleanup that frees what was allocated so far.               *)
(*                                                                         *)
(* What a file holds is chosen where the program reads it; a call that     *)
(* fails, or a field that is refused, is a disjunct of the step that makes *)
(* the call.  Names are kept as far as the program looks at them: none     *)
(* (st_name is 0), empty, or some.  The offsets and sizes of a file are    *)
(* taken to lie within it.                                                 *)
(***************************************************************************)
EXTENDS Naturals, Sequences

CONSTANTS
  NFiles,       \* how many files are named on the command line
  Symbols,      \* the symbols that may stand in a symbol table
  MaxSymbols,   \* bound on their number
  UINT16_MAX    \* the largest value of the loop counter (uint16_t i), 65535

Special == {"UNDEF", "ABS", "COMMON", "RESERVED"}
Flags == {"ALLOC", "EXECINSTR", "WRITE"}

ASSUME NmAssumption ==
  /\ NFiles \in Nat \ {0} /\ MaxSymbols \in Nat /\ UINT16_MAX \in Nat
  /\ Symbols \subseteq
       [shndx : Special \union {"SECTION"}, flags : SUBSET Flags,
        section : {"NOBITS", "NOTE", "PROGBITS"},
        bind : {"LOCAL", "GLOBAL", "WEAK", "UNIQUE"},
        type : {"FILE", "SECTION", "OTHER"},
        name : {"none", "empty", "some"}, value : {"zero", "nonzero"}]

VARIABLES
  pc,           \* the part of the program that runs next
  file,         \* the number of the file that is read
  class, swap,  \* is_64bit and swap_endian of that file
  fd,           \* whether its descriptor is open
  heap,         \* the blocks that are allocated
  status,       \* what process_elf64 or process_elf32 will return
  overall,      \* overall_status
  num,          \* num_symbols
  i,            \* the loop counter
  table,        \* history: the symbols of the table seen so far
  wrapped,      \* history: whether i went back to 0 inside the loop
  out,          \* history: the lines printed for this file
  trouble       \* history: the files for which a call failed or a field was
                \* refused

fileVars == <<file, class, swap>>
loopVars == <<num, i, table, wrapped, out>>
vars == <<pc, fileVars, fd, heap, status, overall, loopVars, trouble>>

Blocks == {"shdr_table", "shstrtab", "strtab", "symtab"}

Init ==
  /\ pc = "open" /\ file = 1 /\ class = 64 /\ swap = FALSE
  /\ fd = "closed" /\ heap = {}
  /\ status = "SUCCESS" /\ overall = "SUCCESS"
  /\ num = 0 /\ i = 0 /\ table = <<>> /\ wrapped = FALSE /\ out = <<>>
  /\ trouble = {}
-----------------------------------------------------------------------------
(* Mutated forms, for the sensitivity of the properties.                   *)

FreedButNames == Blocks \ {"shstrtab"}
CombinedLast(s) == s
MoreSymbolsClosed == i <= num
MoreSymbolsShort == i + 1 < num
-----------------------------------------------------------------------------
(* get_symbol_type64 and get_symbol_type32, which are the same.            *)

(* The letter of the section a symbol is defined in. *)
BySection(s) ==
  IF "ALLOC" \notin s.flags THEN IF s.section = "NOTE" THEN "n" ELSE "?"
  ELSE IF "EXECINSTR" \in s.flags THEN "T"
  ELSE IF "WRITE" \in s.flags THEN IF s.section = "NOBITS" THEN "B" ELSE "D"
  ELSE "R"

ByIndex(s) ==
  IF s.shndx = "UNDEF" THEN "U"
  ELSE IF s.shndx = "ABS" THEN "A"
  ELSE IF s.shndx = "COMMON" THEN "C"
  ELSE IF s.shndx = "SECTION" THEN BySection(s)
  ELSE "?"

Lowered(c) ==
  [U |-> "u", A |-> "a", C |-> "c", T |-> "t", B |-> "b", D |-> "d",
   R |-> "r", n |-> "n"][c]

ByBind(s, c) ==
  IF s.bind = "UNIQUE" THEN "u"
  ELSE IF s.bind = "WEAK" THEN IF s.shndx = "UNDEF" THEN "w" ELSE "W"
  ELSE IF s.bind = "LOCAL" /\ c # "?" THEN Lowered(c)
  ELSE c

SymbolType(s) ==
  IF s.type \in {"FILE", "SECTION"} THEN "?" ELSE ByBind(s, ByIndex(s))

(* What is printed of the next symbol of the table: nothing, or its letter,*)
(* whether its value is shown, and its name.  The two classes differ: only *)
(* process_elf32 lists an undefined symbol whose name is empty, and only   *)
(* process_elf64 shows the value of one that has a value.                  *)
Line(s) ==
  LET c == SymbolType(s)
      undefined == c \in {"U", "w"}
      line(shown) == <<[at |-> Len(table) + 1, letter |-> c, shown |-> shown,
                        name |-> s.name]>>
  IN  IF s.name = "none" THEN <<>>
      ELSE IF class = 32 /\ undefined THEN line(FALSE)
      ELSE IF c \in {"?", "a"} \/ s.name = "empty" THEN <<>>
      ELSE line(~ (undefined /\ s.value = "zero"))
-----------------------------------------------------------------------------
(* main and process_file.                                                  *)

Trouble == trouble' = trouble \union {file}

Combined(s) == IF s # "SUCCESS" THEN "FAILURE" ELSE overall

(* process_file returns s, and main goes on to the next file. *)
Leave(s) ==
  /\ overall' = Combined(s)
  /\ file' = file + 1
  /\ pc' = IF file = NFiles THEN "end" ELSE "open"

OpenFile ==
  /\ pc = "open"
  /\ \/ /\ fd' = "open"
        /\ pc' = "ident"
        /\ UNCHANGED <<file, overall, trouble>>
     \/ /\ Trouble /\ Leave("FAILURE")
        /\ UNCHANGED fd
  /\ num' = 0 /\ i' = 0 /\ table' = <<>> /\ wrapped' = FALSE /\ out' = <<>>
  /\ UNCHANGED <<class, swap, heap, status>>

(* e_ident, and the lseek back to its start. *)
ReadIdent ==
  /\ pc = "ident"
  /\ \/ /\ class' \in {32, 64} /\ swap' \in BOOLEAN
        /\ status' = "FAILURE"
        /\ pc' = "header"
        /\ UNCHANGED <<file, overall, fd, trouble>>
     \/ /\ fd' = "closed"
        /\ Trouble /\ Leave("FAILURE")
        /\ UNCHANGED <<class, swap, status>>
  /\ UNCHANGED <<heap, loopVars>>

CloseFile ==
  /\ pc = "close"
  /\ fd' = "closed"
  /\ \/ Leave(status) /\ UNCHANGED trouble
     \/ Leave("FAILURE") /\ Trouble
  /\ UNCHANGED <<class, swap, heap, status, loopVars>>
-----------------------------------------------------------------------------
(* process_elf64 and process_elf32.                                        *)

(* goto cleanup, after an error and with nothing to list. *)
Fail == Trouble /\ pc' = "cleanup" /\ UNCHANGED status
NothingToList == pc' = "cleanup" /\ status' = "SUCCESS" /\ UNCHANGED trouble
Proceed(to) == pc' = to /\ UNCHANGED <<status, trouble>>

(* malloc of a block, and lseek and read of what it is for. *)
Acquire(block, to) ==
  \/ Fail /\ heap' \in {heap, heap \union {block}}
  \/ Proceed(to) /\ heap' = heap \union {block}

ReadHeader ==
  /\ pc = "header"
  /\ Fail \/ NothingToList \/ Proceed("sections")
  /\ UNCHANGED <<fileVars, fd, heap, overall, loopVars>>

ReadSections ==
  /\ pc = "sections"
  /\ Acquire("shdr_table", "names")
  /\ UNCHANGED <<fileVars, fd, overall, loopVars>>

(* The section names, which a file need not have. *)
ReadNames ==
  /\ pc = "names"
  /\ \/ Acquire("shstrtab", "find")
     \/ Proceed("find") /\ UNCHANGED heap
  /\ UNCHANGED <<fileVars, fd, overall, loopVars>>

(* No symbol table is no error; one with a link out of range is. *)
FindSymtab ==
  /\ pc = "find"
  /\ Fail \/ NothingToList \/ Proceed("strtab")
  /\ UNCHANGED <<fileVars, fd, heap, overall, loopVars>>

ReadStrtab ==
  /\ pc = "strtab"
  /\ Acquire("strtab", "symtab")
  /\ UNCHANGED <<fileVars, fd, overall, loopVars>>

(* An entry size of 0 is refused before malloc. *)
ReadSymtab ==
  /\ pc = "symtab"
  /\ \/ /\ Acquire("symtab", IF swap THEN "swap" ELSE "list")
        /\ num' \in 0 .. MaxSymbols
     \/ Fail /\ UNCHANGED <<heap, num>>
  /\ UNCHANGED <<fileVars, fd, overall, i, table, wrapped, out>>

MoreSymbols == i < num

(* i++, in its width. *)
NextIndex == (i + 1) % (UINT16_MAX + 1)

Increment ==
  /\ i' = NextIndex
  /\ wrapped' = (wrapped \/ i' = 0)

(* One turn of the loop that swaps the symbols, or its end. *)
SwapSymbol ==
  /\ pc = "swap"
  /\ \/ MoreSymbols /\ Increment /\ UNCHANGED pc
     \/ ~ MoreSymbols /\ i' = 0 /\ pc' = "list" /\ UNCHANGED wrapped
  /\ UNCHANGED <<fileVars, fd, heap, status, overall, num, table, out, trouble>>

(* One turn of the loop that lists them.  Once i has gone back to 0 the    *)
(* loop repeats itself, and what it prints is not kept any more.           *)
ListSymbol ==
  /\ pc = "list" /\ MoreSymbols
  /\ Increment
  /\ IF wrapped THEN UNCHANGED <<table, out>>
     ELSE \E s \in Symbols :
            /\ table' = Append(table, s)
            /\ out' = out \o Line(s)
  /\ UNCHANGED <<pc, fileVars, fd, heap, status, overall, num, trouble>>

ListEnd ==
  /\ pc = "list" /\ ~ MoreSymbols
  /\ pc' = "cleanup" /\ status' = "SUCCESS"
  /\ UNCHANGED <<fileVars, fd, heap, overall, loopVars, trouble>>

Freed == Blocks

Cleanup ==
  /\ pc = "cleanup"
  /\ heap' = heap \ Freed
  /\ pc' = "close"
  /\ UNCHANGED <<fileVars, fd, status, overall, loopVars, trouble>>

Exited == pc = "end" /\ UNCHANGED vars

Next ==
  \/ OpenFile \/ ReadIdent \/ ReadHeader \/ ReadSections \/ ReadNames
  \/ FindSymtab \/ ReadStrtab \/ ReadSymtab \/ SwapSymbol \/ ListSymbol
  \/ ListEnd \/ Cleanup \/ CloseFile \/ Exited

(* The program is sequential: it takes its next step. *)
Spec == Init /\ [][Next]_vars /\ WF_vars(Next)
-----------------------------------------------------------------------------

TypeOK ==
  /\ pc \in {"open", "ident", "header", "sections", "names", "find",
             "strtab", "symtab", "swap", "list", "cleanup", "close", "end"}
  /\ file \in 1 .. NFiles + 1 /\ class \in {32, 64} /\ swap \in BOOLEAN
  /\ fd \in {"open", "closed"} /\ heap \subseteq Blocks
  /\ {status, overall} \subseteq {"SUCCESS", "FAILURE"}
  /\ num \in 0 .. MaxSymbols /\ i \in 0 .. UINT16_MAX
  /\ table \in Seq(Symbols) /\ wrapped \in BOOLEAN
  /\ trouble \subseteq 1 .. NFiles

(* Whichever of its calls fails, a file leaves no block and no descriptor  *)
(* behind for the next one; and variables keep their types.                *)
NothingHeld == TypeOK /\ (pc \in {"open", "end"} => heap = {} /\ fd = "closed")

(* The program fails exactly if something went wrong with one of the files *)
(* it has left, whichever came after; a file with no symbols is no error.  *)
ExitStatus == overall = "FAILURE" <=> \E f \in trouble : f < file

(* The symbols a listing is about: those with a name that are not files,   *)
(* sections, absolute and local, or of a kind nm does not know.            *)
Unknown(s) ==
  /\ s.bind \in {"LOCAL", "GLOBAL"}
  /\ \/ s.shndx = "RESERVED"
     \/ s.shndx = "SECTION" /\ "ALLOC" \notin s.flags /\ s.section # "NOTE"

Wanted(s) ==
  /\ s.name = "some" /\ s.type = "OTHER" /\ ~ Unknown(s)
  /\ ~ (s.shndx = "ABS" /\ s.bind = "LOCAL")

(* What a capital letter says of a symbol.                                 *)
Says(c, s) ==
  LET loaded == s.shndx = "SECTION" /\ "ALLOC" \in s.flags
      data == loaded /\ "EXECINSTR" \notin s.flags
  IN  \/ c = "U" /\ s.shndx = "UNDEF"
      \/ c = "A" /\ s.shndx = "ABS"
      \/ c = "C" /\ s.shndx = "COMMON"
      \/ c = "n" /\ s.shndx = "SECTION" /\ ~ loaded /\ s.section = "NOTE"
      \/ c = "T" /\ loaded /\ ~ data
      \/ c = "R" /\ data /\ "WRITE" \notin s.flags
      \/ c = "B" /\ data /\ "WRITE" \in s.flags /\ s.section = "NOBITS"
      \/ c = "D" /\ data /\ "WRITE" \in s.flags /\ s.section # "NOBITS"

SmallLetters ==
  {<<"U", "u">>, <<"A", "a">>, <<"C", "c">>, <<"n", "n">>, <<"T", "t">>,
   <<"R", "r">>, <<"B", "b">>, <<"D", "d">>}

(* The letter of a symbol: by where it is defined, a small one if it is    *)
(* local; weak and unique symbols have letters of their own.               *)
RightLetter(c, s) ==
  /\ s.bind = "GLOBAL" => Says(c, s)
  /\ s.bind = "LOCAL" => \E p \in SmallLetters : Says(p[1], s) /\ c = p[2]
  /\ s.bind = "WEAK" => c = IF s.shndx = "UNDEF" THEN "w" ELSE "W"
  /\ s.bind = "UNIQUE" => c = "u"

(* A file is listed as a whole or not at all: a file that failed before    *)
(* its close prints nothing, and any other one prints each symbol a        *)
(* listing is about once, in the order of the table, each with the letter  *)
(* of its kind, and only undefined symbols without a value.                *)
Listing ==
  pc = "close" =>
    /\ status = "FAILURE" <=> file \in trouble
    /\ status = "FAILURE" => out = <<>>
    /\ status = "SUCCESS" => Len(table) = num
    /\ \A j, k \in DOMAIN out : j < k => out[j].at < out[k].at
    /\ {out[k].at : k \in {k \in DOMAIN out : out[k].name = "some"}} =
         {j \in DOMAIN table : Wanted(table[j])}
    /\ \A k \in DOMAIN out :
         LET s == table[out[k].at] IN
         /\ out[k].name = s.name
         /\ RightLetter(out[k].letter, s)
         /\ ~ out[k].shown => s.shndx = "UNDEF"

(* The program ends for tables the counter can count: one more symbol than *)
(* its largest value, 65536 in the code, and the loop never does.          *)
Ends == <>(pc = "end" \/ num > UINT16_MAX)
=============================================================================
