------------------------------ MODULE NmProofs ------------------------------
(***************************************************************************)
(* Proofs about nm, for any number of files, any symbols and tables of any *)
(* length, also longer than the loop counter can count: types, what a file *)
(* leaves behind, the exit status, and what is listed.                     *)
(***************************************************************************)
EXTENDS Nm, TLAPS

Reading == {"header", "sections", "names", "find", "strtab", "symtab", "swap", "list"}
BeforeTables == {"open", "ident", "header", "end"}

(* The blocks and the descriptor that may be held at each point. *)
HeldInv ==
  /\ pc \in BeforeTables \union {"close"} => heap = {}
  /\ pc \in {"open", "end"} => fd = "closed"

(* trouble has the files that went wrong: of those that were left all that *)
(* main remembers, and the present one once its status is settled.         *)
StatusInv ==
  /\ pc # "end" => file <= NFiles
  /\ trouble \subseteq 1 .. file
  /\ ExitStatus
  /\ pc \in {"open", "end", "ident"} \union Reading => file \notin trouble
  /\ pc \in Reading => status = "FAILURE"
  /\ pc \in {"cleanup", "close"} => (status = "FAILURE" <=> file \in trouble)

(* How far the loops are.  A counter that went back to 0 is one that will  *)
(* never reach num, so neither loop ends any more.                         *)
LoopInv ==
  /\ wrapped => pc \in {"swap", "list"} /\ num > UINT16_MAX
  /\ pc \in {"ident"} \union (Reading \ {"list"}) => table = <<>>
  /\ pc \in {"ident"} \union (Reading \ {"swap", "list"}) => num = 0 /\ i = 0
  /\ pc \in {"swap", "list"} => i <= num
  /\ pc = "list" /\ ~ wrapped => Len(table) = i
  /\ pc \in {"cleanup", "close"} /\ status = "SUCCESS" => Len(table) = num
  /\ pc \in {"cleanup", "close"} /\ status = "FAILURE" => table = <<>>

Letters == {"U", "A", "C", "T", "B", "D", "R", "n", "u", "a", "c", "t", "b",
            "d", "r", "w", "W", "?"}
Printed ==
  [at : Nat \ {0}, letter : Letters, shown : BOOLEAN, name : {"none", "empty", "some"}]

(* What a line says of the symbol it is about. *)
Tells(o, s) ==
  /\ o.name = s.name
  /\ o.name = "some" => Wanted(s)
  /\ RightLetter(o.letter, s)
  /\ ~ o.shown => s.shndx = "UNDEF"

(* The lines are about symbols of the table, in its order, and no symbol   *)
(* that a listing is about is missing.                                     *)
LinesInv ==
  /\ out \in Seq(Printed)
  /\ \A k \in 1 .. Len(out) :
       out[k].at \in 1 .. Len(table) /\ Tells(out[k], table[out[k].at])
  /\ \A j, k \in 1 .. Len(out) : j < k => out[j].at < out[k].at
  /\ \A j \in 1 .. Len(table) :
       Wanted(table[j]) => \E k \in 1 .. Len(out) : out[k].at = j

IInv == TypeOK /\ HeldInv /\ StatusInv /\ LoopInv /\ LinesInv
-----------------------------------------------------------------------------
LEMMA Bounds == NFiles \in Nat \ {0} /\ MaxSymbols \in Nat /\ UINT16_MAX \in Nat
  BY NmAssumption

(* The symbols, field by field.                                            *)
LEMMA SymbolFact ==
  ASSUME NEW s \in Symbols
  PROVE  /\ s.shndx \in Special \union {"SECTION"} /\ s.flags \subseteq Flags
         /\ s.section \in {"NOBITS", "NOTE", "PROGBITS"}
         /\ s.bind \in {"LOCAL", "GLOBAL", "WEAK", "UNIQUE"}
         /\ s.type \in {"FILE", "SECTION", "OTHER"}
         /\ s.name \in {"none", "empty", "some"} /\ s.value \in {"zero", "nonzero"}
  BY NmAssumption

(* The letter of a section: there is one for every set of flags.           *)
LEMMA SectionLetter ==
  ASSUME NEW s \in Symbols
  PROVE  /\ BySection(s) \in {"n", "?", "T", "B", "D", "R"}
         /\ (BySection(s) = "?") <=> ("ALLOC" \notin s.flags /\ s.section # "NOTE")
  BY SymbolFact DEF BySection

(* The letter of a symbol that is no file and no section.                  *)
LEMMA TypeLetter ==
  ASSUME NEW s \in Symbols, s.type = "OTHER"
  PROVE  LET c == SymbolType(s) IN
         /\ c \in Letters
         /\ (c = "?") <=> Unknown(s)
         /\ (c = "a") <=> (s.shndx = "ABS" /\ s.bind = "LOCAL")
         /\ c \in {"U", "w"} => s.shndx = "UNDEF"
         /\ c # "?" => RightLetter(c, s)
  <1> DEFINE b == ByIndex(s)
  <1> USE SymbolFact
  <1>1. /\ b \in {"U", "A", "C", "n", "?", "T", "B", "D", "R"}
        /\ (b = "U") <=> (s.shndx = "UNDEF")
        /\ (b = "A") <=> (s.shndx = "ABS")
        /\ (b = "?") <=> \/ s.shndx = "RESERVED"
                         \/ s.shndx = "SECTION" /\ "ALLOC" \notin s.flags
                              /\ s.section # "NOTE"
    BY SectionLetter DEF ByIndex, Special
  <1>2. ASSUME b # "?"
        PROVE  /\ Lowered(b) \in {"u", "a", "c", "t", "b", "d", "r", "n"}
               /\ (Lowered(b) = "a") <=> (b = "A")
               /\ <<b, Lowered(b)>> \in SmallLetters
    BY <1>1, <1>2 DEF Lowered, SmallLetters
  <1>3. SymbolType(s) = ByBind(s, b)
    BY DEF SymbolType
  <1>4. b # "?" => Says(b, s)
    BY DEF ByIndex, BySection, Says, Special
  <1> HIDE DEF b
  <1>5. SymbolType(s) # "?" => RightLetter(SymbolType(s), s)
    <2>1. CASE s.bind = "UNIQUE"
      BY <1>3, <2>1 DEF ByBind, RightLetter
    <2>2. CASE s.bind = "WEAK"
      BY <1>3, <2>2 DEF ByBind, RightLetter
    <2>3. CASE s.bind = "LOCAL"
      <3>1. SUFFICES ASSUME SymbolType(s) # "?" PROVE RightLetter(SymbolType(s), s)
        OBVIOUS
      <3>2. b # "?" /\ SymbolType(s) = Lowered(b)
        BY <1>3, <2>3, <3>1 DEF ByBind
      <3>3. /\ <<b, Lowered(b)>> \in SmallLetters /\ Says(b, s)
            /\ <<b, Lowered(b)>>[1] = b /\ <<b, Lowered(b)>>[2] = Lowered(b)
        BY <1>2, <1>4, <3>2
      <3>4. \E p \in SmallLetters : Says(p[1], s) /\ SymbolType(s) = p[2]
        BY <3>2, <3>3
      <3> QED BY <2>3, <3>4 DEF RightLetter
    <2>4. CASE s.bind = "GLOBAL"
      BY <1>3, <1>4, <2>4 DEF ByBind, RightLetter
    <2> QED BY <2>1, <2>2, <2>3, <2>4
  <1> QED BY <1>1, <1>2, <1>3, <1>5 DEF ByBind, Unknown, Letters

(* A symbol that a listing is about has one line that tells what it is, and*)
(* so has any other symbol that has a line.                                *)
LEMMA LineFact ==
  ASSUME TypeOK, NEW s \in Symbols
  PROVE  \/ Line(s) = <<>> /\ ~ Wanted(s)
         \/ \E o \in Printed :
              Line(s) = <<o>> /\ o.at = Len(table) + 1 /\ Tells(o, s)
  <1> DEFINE c == SymbolType(s)
             o(shown) == [at |-> Len(table) + 1, letter |-> c, shown |-> shown,
                          name |-> s.name]
  <1>1. Len(table) + 1 \in Nat \ {0}
    BY DEF TypeOK
  <1>2. CASE s.type # "OTHER"
    <2>1. c = "?"
      BY <1>2, SymbolFact DEF SymbolType
    <2> QED BY <1>2, <2>1 DEF Line, Wanted
  <1>3. CASE s.type = "OTHER"
    <2>1. \A shown \in BOOLEAN : o(shown) \in Printed
      BY <1>1, <1>3, TypeLetter, SymbolFact DEF Printed
    <2>2. CASE s.name = "none"
      BY <2>2 DEF Line, Wanted
    <2>3. CASE s.name # "none" /\ class = 32 /\ c \in {"U", "w"}
      <3>1. Line(s) = <<o(FALSE)>>
        BY <2>3 DEF Line
      <3>2. Tells(o(FALSE), s)
        BY <1>3, <2>3, TypeLetter DEF Tells, Wanted
      <3> QED BY <2>1, <3>1, <3>2
    <2>4. CASE s.name # "none" /\ ~ (class = 32 /\ c \in {"U", "w"})
      <3>1. CASE c \in {"?", "a"} \/ s.name = "empty"
        BY <1>3, <2>4, <3>1, TypeLetter DEF Line, Wanted
      <3>2. CASE c \notin {"?", "a"} /\ s.name # "empty"
        <4> DEFINE shown == ~ (c \in {"U", "w"} /\ s.value = "zero")
        <4>1. Line(s) = <<o(shown)>>
          BY <2>4, <3>2 DEF Line
        <4>2. Tells(o(shown), s)
          BY <1>3, <2>4, <3>2, TypeLetter, SymbolFact DEF Tells, Wanted
        <4> QED BY <2>1, <4>1, <4>2
      <3> QED BY <3>1, <3>2
    <2> QED BY <2>2, <2>3, <2>4
  <1> QED BY <1>2, <1>3, SymbolFact
-----------------------------------------------------------------------------
(* Two parts of the invariant that a step leaves alone if it does not touch*)
(* what they are about.                                                    *)
LEMMA LinesKept ==
  ASSUME LinesInv, UNCHANGED <<table, out>>
  PROVE  LinesInv'
  <1>1. table' = table /\ out' = out
    OBVIOUS
  <1> QED BY <1>1 DEF LinesInv

LEMMA NothingPrinted ==
  /\ out = <<>> /\ table = <<>> => LinesInv
  /\ out' = <<>> /\ table' = <<>> => LinesInv'
  <1>1. Len(<<>>) = 0 /\ 1 .. 0 = {} /\ <<>> \in Seq(Printed)
    OBVIOUS
  <1> QED BY <1>1 DEF LinesInv

(* The variables that hold truth values, apart from the others.            *)
Values ==
  /\ pc \in {"open", "ident", "header", "sections", "names", "find",
             "strtab", "symtab", "swap", "list", "cleanup", "close", "end"}
  /\ file \in 1 .. NFiles + 1 /\ class \in {32, 64}
  /\ fd \in {"open", "closed"} /\ heap \subseteq Blocks
  /\ {status, overall} \subseteq {"SUCCESS", "FAILURE"}
  /\ num \in 0 .. MaxSymbols /\ i \in 0 .. UINT16_MAX
  /\ trouble \subseteq 1 .. NFiles
Truths == swap \in BOOLEAN /\ wrapped \in BOOLEAN

LEMMA TypeParts ==
  /\ TypeOK <=> Values /\ Truths /\ table \in Seq(Symbols)
  /\ TypeOK' <=> Values' /\ Truths' /\ (table \in Seq(Symbols))'
  BY Zenon DEF TypeOK, Values, Truths

LEMMA NoSymbols == table' = <<>> => table' \in Seq(Symbols)
  OBVIOUS

LEMMA InitIInv == Init => IInv
  <1> SUFFICES ASSUME Init PROVE IInv
    OBVIOUS
  <1>1. TypeOK
    <2>1. Values
      BY Bounds DEF Init, Values
    <2>2. Truths
      BY DEF Init, Truths
    <2>3. table \in Seq(Symbols)
      BY DEF Init
    <2> QED BY <2>1, <2>2, <2>3, TypeParts
  <1>2. HeldInv
    BY DEF Init, HeldInv
  <1>3. StatusInv
    BY Bounds DEF Init, StatusInv, ExitStatus, Reading
  <1>4. LoopInv
    BY DEF Init, LoopInv, Reading
  <1>5. LinesInv
    BY NothingPrinted DEF Init
  <1> QED BY <1>1, <1>2, <1>3, <1>4, <1>5 DEF IInv

(* A file is left with a failure exactly if something went wrong with it.  *)
LEMMA LeaveFact ==
  ASSUME Values, StatusInv, file <= NFiles, NEW s \in {"SUCCESS", "FAILURE"},
         Leave(s), trouble' \in {trouble, trouble \union {file}},
         s = "FAILURE" <=> file \in trouble'
  PROVE  /\ pc' \in {"open", "end"} /\ file' \in 1 .. NFiles + 1
         /\ overall' \in {"SUCCESS", "FAILURE"} /\ trouble' \subseteq 1 .. NFiles
         /\ StatusInv'
  <1> USE Bounds DEF Leave, Values
  <1>1. /\ pc' \in {"open", "end"} /\ file' \in 1 .. NFiles + 1 /\ file' = file + 1
        /\ pc' # "end" => file' <= NFiles
    OBVIOUS
  <1>2. trouble' \subseteq 1 .. file /\ trouble' \subseteq 1 .. NFiles
    BY DEF StatusInv
  <1>3. overall' \in {"SUCCESS", "FAILURE"}
    BY DEF Combined
  <1>4. ExitStatus'
    <2>1. \A f \in trouble : f < file => f < file'
      BY <1>1, <1>2
    <2>2. CASE s = "FAILURE"
      <3>1. overall' = "FAILURE" /\ file \in trouble' /\ file < file'
        BY <2>2, <1>1 DEF Combined
      <3> QED BY <3>1 DEF ExitStatus
    <2>3. CASE s = "SUCCESS"
      <3>1. overall' = overall /\ trouble' = trouble /\ file \notin trouble
        BY <2>3 DEF Combined
      <3>2. \A f \in trouble : f < file <=> f < file'
        BY <1>1, <1>2, <3>1
      <3> QED BY <3>1, <3>2 DEF StatusInv, ExitStatus
    <2> QED BY <2>2, <2>3
  <1>5. file' \notin trouble' /\ trouble' \subseteq 1 .. file'
    BY <1>1, <1>2
  <1> QED BY <1>1, <1>2, <1>3, <1>4, <1>5 DEF StatusInv, Reading

(* The steps of main and process_file.                                     *)
LEMMA OpenFileInv ==
  ASSUME IInv, OpenFile
  PROVE  IInv'
  <1>0. Values /\ Truths /\ HeldInv /\ StatusInv
    BY TypeParts DEF IInv
  <1>1. /\ pc = "open" /\ num' = 0 /\ i' = 0 /\ table' = <<>> /\ wrapped' = FALSE
        /\ out' = <<>> /\ UNCHANGED <<class, swap, heap, status>>
    BY DEF OpenFile
  <1>2. file <= NFiles /\ file \notin trouble /\ heap = {} /\ fd = "closed"
    BY <1>0, <1>1 DEF StatusInv, HeldInv, BeforeTables
  <1>3. Values' /\ HeldInv' /\ StatusInv'
    <2>1. CASE fd' = "open" /\ pc' = "ident" /\ UNCHANGED <<file, overall, trouble>>
      <3>1. Values'
        BY <1>0, <1>1, <2>1, Bounds DEF Values
      <3>2. HeldInv'
        BY <1>1, <1>2, <2>1 DEF HeldInv
      <3>3. StatusInv'
        BY <1>0, <1>1, <1>2, <2>1 DEF StatusInv, ExitStatus, Reading
      <3> QED BY <3>1, <3>2, <3>3
    <2>2. CASE Trouble /\ Leave("FAILURE") /\ UNCHANGED fd
      <3>1. /\ pc' \in {"open", "end"} /\ file' \in 1 .. NFiles + 1
            /\ overall' \in {"SUCCESS", "FAILURE"} /\ trouble' \subseteq 1 .. NFiles
            /\ StatusInv'
        BY <1>0, <1>2, <2>2, LeaveFact DEF Trouble
      <3>2. Values'
        BY <1>0, <1>1, <2>2, <3>1, Bounds DEF Values
      <3>3. HeldInv'
        BY <1>1, <1>2, <2>2 DEF HeldInv
      <3> QED BY <3>1, <3>2, <3>3
    <2> QED BY <2>1, <2>2 DEF OpenFile
  <1>4. Truths'
    BY <1>0, <1>1 DEF Truths
  <1>5. LoopInv'
    <2>1. pc' \in {"ident", "open", "end"}
      BY DEF OpenFile, Leave
    <2> QED BY <1>1, <2>1 DEF LoopInv, Reading
  <1> QED BY <1>1, <1>3, <1>4, <1>5, NoSymbols, NothingPrinted, TypeParts DEF IInv

LEMMA ReadIdentInv ==
  ASSUME IInv, ReadIdent
  PROVE  IInv'
  <1>0. Values /\ Truths /\ HeldInv /\ StatusInv /\ LoopInv /\ LinesInv
    BY TypeParts DEF IInv
  <1>1. /\ pc = "ident" /\ heap' = heap /\ num' = num /\ i' = i /\ table' = table
        /\ wrapped' = wrapped /\ out' = out
    BY DEF ReadIdent, loopVars
  <1>2. /\ file <= NFiles /\ file \notin trouble
        /\ table = <<>> /\ num = 0 /\ i = 0 /\ ~ wrapped
    BY <1>0, <1>1 DEF StatusInv, LoopInv, Reading, Truths
  <1>3. Values' /\ HeldInv' /\ StatusInv' /\ Truths' /\ pc' \in {"header", "open", "end"}
    <2>1. CASE /\ class' \in {32, 64} /\ swap' \in BOOLEAN
               /\ status' = "FAILURE" /\ pc' = "header"
               /\ UNCHANGED <<file, overall, fd, trouble>>
      <3>1. Values'
        BY <1>0, <1>1, <2>1, Bounds DEF Values
      <3>2. HeldInv'
        BY <1>0, <1>1, <2>1 DEF HeldInv, BeforeTables
      <3>3. StatusInv'
        BY <1>0, <1>1, <1>2, <2>1 DEF StatusInv, ExitStatus, Reading
      <3>4. Truths'
        BY <1>0, <1>1, <2>1 DEF Truths
      <3> QED BY <2>1, <3>1, <3>2, <3>3, <3>4
    <2>2. CASE /\ fd' = "closed" /\ Trouble /\ Leave("FAILURE")
               /\ UNCHANGED <<class, swap, status>>
      <3>1. /\ pc' \in {"open", "end"} /\ file' \in 1 .. NFiles + 1
            /\ overall' \in {"SUCCESS", "FAILURE"} /\ trouble' \subseteq 1 .. NFiles
            /\ StatusInv'
        BY <1>0, <1>2, <2>2, LeaveFact DEF Trouble
      <3>2. Values'
        BY <1>0, <1>1, <2>2, <3>1, Bounds DEF Values
      <3>3. HeldInv'
        BY <1>0, <1>1, <2>2 DEF HeldInv, BeforeTables
      <3>4. Truths'
        BY <1>0, <1>1, <2>2 DEF Truths
      <3> QED BY <3>1, <3>2, <3>3, <3>4
    <2> QED BY <2>1, <2>2 DEF ReadIdent
  <1>4. LoopInv'
    BY <1>1, <1>2, <1>3 DEF LoopInv, Reading
  <1>5. LinesInv' /\ table' \in Seq(Symbols)
    BY <1>0, <1>1, <1>2, LinesKept, NoSymbols
  <1> QED BY <1>3, <1>4, <1>5, TypeParts DEF IInv

LEMMA CloseFileInv ==
  ASSUME IInv, CloseFile
  PROVE  IInv'
  <1>0. Values /\ Truths /\ HeldInv /\ StatusInv /\ LoopInv /\ LinesInv
    BY TypeParts DEF IInv
  <1>1. /\ pc = "close" /\ fd' = "closed" /\ heap' = heap /\ num' = num /\ i' = i
        /\ table' = table /\ wrapped' = wrapped /\ out' = out
        /\ UNCHANGED <<class, swap, status>>
    BY DEF CloseFile, loopVars
  <1>2. /\ file <= NFiles /\ ~ wrapped /\ heap = {}
        /\ status = "FAILURE" <=> file \in trouble
    BY <1>0, <1>1 DEF StatusInv, LoopInv, Truths, HeldInv
  <1>3. /\ pc' \in {"open", "end"} /\ file' \in 1 .. NFiles + 1
        /\ overall' \in {"SUCCESS", "FAILURE"} /\ trouble' \subseteq 1 .. NFiles
        /\ StatusInv'
    <2>1. CASE Leave(status) /\ UNCHANGED trouble
      BY <1>0, <1>2, <2>1, LeaveFact DEF Values
    <2>2. CASE Leave("FAILURE") /\ Trouble
      BY <1>0, <1>2, <2>2, LeaveFact DEF Trouble
    <2> QED BY <2>1, <2>2 DEF CloseFile
  <1>4. Values'
    BY <1>0, <1>1, <1>3 DEF Values
  <1>5. HeldInv'
    BY <1>1, <1>2, <1>3 DEF HeldInv, BeforeTables
  <1>6. Truths' /\ LoopInv'
    BY <1>0, <1>1, <1>2, <1>3 DEF Truths, LoopInv, Reading
  <1>7. LinesInv' /\ table' \in Seq(Symbols)
    BY <1>0, <1>1, LinesKept, TypeParts DEF IInv
  <1> QED BY <1>3, <1>4, <1>5, <1>6, <1>7, TypeParts DEF IInv
-----------------------------------------------------------------------------
(* The steps that read a header or a table: they go to cleanup after an    *)
(* error, which leaves the status at failure, or with nothing to list, or  *)
(* proceed.                                                                *)
LEMMA TableFact ==
  ASSUME Values, \/ ReadHeader \/ ReadSections \/ ReadNames \/ FindSymtab
                 \/ ReadStrtab \/ ReadSymtab
  PROVE  /\ pc \in Reading \ {"swap", "list"}
         /\ UNCHANGED <<file, class, swap, fd, overall, i, table, wrapped, out>>
         /\ heap' \subseteq Blocks /\ num' \in 0 .. MaxSymbols
         /\ num' # num => pc' \in {"swap", "list", "cleanup"}
         /\ \/ Fail
            \/ NothingToList /\ num' = num
            \/ /\ pc' \in Reading \ {"header"}
               /\ UNCHANGED <<status, trouble>>
  <1> USE DEF Values, Blocks, Reading, Fail, NothingToList, Proceed, Acquire,
              fileVars, loopVars
  <1>1. CASE ReadHeader
    BY <1>1 DEF ReadHeader
  <1>2. CASE ReadSections
    BY <1>2 DEF ReadSections
  <1>3. CASE ReadNames
    BY <1>3 DEF ReadNames
  <1>4. CASE FindSymtab
    BY <1>4 DEF FindSymtab
  <1>5. CASE ReadStrtab
    BY <1>5 DEF ReadStrtab
  <1>6. CASE ReadSymtab
    BY <1>6 DEF ReadSymtab
  <1> QED BY <1>1, <1>2, <1>3, <1>4, <1>5, <1>6

LEMMA TableInv ==
  ASSUME IInv, \/ ReadHeader \/ ReadSections \/ ReadNames \/ FindSymtab
               \/ ReadStrtab \/ ReadSymtab
  PROVE  IInv'
  <1>0. Values /\ Truths /\ HeldInv /\ StatusInv /\ LoopInv /\ LinesInv
    BY TypeParts DEF IInv
  <1>1. /\ pc \in Reading \ {"swap", "list"}
        /\ UNCHANGED <<file, class, swap, fd, overall, i, table, wrapped, out>>
        /\ heap' \subseteq Blocks /\ num' \in 0 .. MaxSymbols
        /\ num' # num => pc' \in {"swap", "list", "cleanup"}
    BY <1>0, TableFact
  <1>2. \/ Fail
        \/ NothingToList /\ num' = num
        \/ /\ pc' \in Reading \ {"header"}
           /\ UNCHANGED <<status, trouble>>
    BY <1>0, TableFact
  <1>3. /\ file <= NFiles /\ file \notin trouble /\ status = "FAILURE"
        /\ table = <<>> /\ num = 0 /\ i = 0 /\ ~ wrapped
    BY <1>0, <1>1 DEF StatusInv, LoopInv, Reading, Truths
  <1>4. file \in 1 .. NFiles /\ trouble' \subseteq 1 .. NFiles /\ trouble' \subseteq 1 .. file
    <2>1. file \in 1 .. NFiles /\ trouble \subseteq 1 .. NFiles /\ trouble \subseteq 1 .. file
      BY <1>0, <1>3, Bounds DEF Values, StatusInv
    <2>2. trouble' \subseteq trouble \union {file}
      BY <1>2 DEF Fail, Trouble, NothingToList
    <2> QED BY <2>1, <2>2, Bounds
  <1>5. Values'
    BY <1>0, <1>1, <1>2, <1>4 DEF Values, Fail, NothingToList, Reading
  <1>6. Truths' /\ HeldInv' /\ LinesInv' /\ table' \in Seq(Symbols)
    <2>1. pc' \notin BeforeTables \union {"close", "open"}
      BY <1>2 DEF Fail, NothingToList, Reading, BeforeTables
    <2> QED BY <1>0, <1>1, <1>3, <2>1, LinesKept, NoSymbols DEF Truths, HeldInv, BeforeTables
  <1>7. StatusInv'
    <2>1. ExitStatus'
      BY <1>0, <1>1, <1>2, <1>4
         DEF StatusInv, ExitStatus, Fail, Trouble, NothingToList, Values
    <2>2. pc' \in {"cleanup", "close"} => (status' = "FAILURE" <=> file' \in trouble')
      BY <1>1, <1>2, <1>3 DEF Fail, Trouble, NothingToList, Reading
    <2>3. pc' \in Reading => status' = "FAILURE" /\ file' \notin trouble'
      BY <1>1, <1>2, <1>3 DEF Fail, NothingToList, Reading
    <2> QED BY <1>1, <1>2, <1>3, <1>4, <2>1, <2>2, <2>3
            DEF StatusInv, Reading, Fail, NothingToList
  <1>8. LoopInv'
    BY <1>0, <1>1, <1>2, <1>3 DEF LoopInv, Reading, Fail, NothingToList, Values
  <1> QED BY <1>5, <1>6, <1>7, <1>8, TypeParts DEF IInv
-----------------------------------------------------------------------------
(* The two loops.                                                          *)
LEMMA NextFact ==
  ASSUME Values, i < num
  PROVE  /\ NextIndex \in 0 .. UINT16_MAX /\ NextIndex <= num
         /\ NextIndex # 0 => NextIndex = i + 1
         /\ NextIndex = 0 => num > UINT16_MAX
  BY Bounds DEF Values, NextIndex

LEMMA SwapSymbolInv ==
  ASSUME IInv, SwapSymbol
  PROVE  IInv'
  <1>0. Values /\ Truths /\ HeldInv /\ StatusInv /\ LoopInv /\ LinesInv
    BY TypeParts DEF IInv
  <1>1. /\ pc = "swap" /\ pc' \in {"swap", "list"}
        /\ UNCHANGED <<file, class, swap, fd, heap, status, overall, num, table,
                       out, trouble>>
    BY DEF SwapSymbol, fileVars
  <1>2. table = <<>> /\ i <= num
    BY <1>0, <1>1 DEF LoopInv, Reading
  <1>3. /\ i' \in 0 .. UINT16_MAX /\ i' <= num /\ wrapped' \in BOOLEAN
        /\ wrapped' => num > UINT16_MAX
        /\ pc' = "list" /\ ~ wrapped' => i' = 0
    <2>1. CASE MoreSymbols /\ Increment /\ UNCHANGED pc
      BY <1>0, <1>1, <2>1, NextFact DEF MoreSymbols, Increment, Truths, LoopInv
    <2>2. CASE i' = 0 /\ pc' = "list" /\ UNCHANGED wrapped
      BY <1>0, <1>1, <2>2, Bounds DEF Truths, LoopInv, Values
    <2> QED BY <2>1, <2>2 DEF SwapSymbol
  <1>4. Values'
    BY <1>0, <1>1, <1>3 DEF Values
  <1>5. HeldInv' /\ StatusInv'
    BY <1>0, <1>1 DEF HeldInv, BeforeTables, StatusInv, ExitStatus, Reading
  <1>6. LoopInv'
    BY <1>1, <1>2, <1>3 DEF LoopInv, Reading
  <1>7. Truths' /\ LinesInv' /\ table' \in Seq(Symbols)
    BY <1>0, <1>1, <1>2, <1>3, LinesKept, NoSymbols DEF Truths
  <1> QED BY <1>4, <1>5, <1>6, <1>7, TypeParts DEF IInv

(* A symbol is added to the table, and its line, if it has one, to what is *)
(* printed.                                                                *)
LEMMA LinesGrow ==
  ASSUME TypeOK, LinesInv, NEW s \in Symbols,
         table' = Append(table, s), out' = out \o Line(s)
  PROVE  LinesInv'
  <1> DEFINE n == Len(table)
  <1>1. /\ table \in Seq(Symbols) /\ n \in Nat /\ Len(table') = n + 1
        /\ table'[n + 1] = s /\ \A j \in 1 .. n : table'[j] = table[j]
    BY DEF TypeOK
  <1>2. CASE Line(s) = <<>> /\ ~ Wanted(s)
    <2>1. out' = out
      BY <1>2 DEF LinesInv
    <2>2. \A j \in 1 .. Len(table') : j \in 1 .. n \/ j = n + 1
      BY <1>1
    <2> QED BY <1>1, <1>2, <2>1, <2>2 DEF LinesInv
  <1>3. CASE \E o \in Printed : Line(s) = <<o>> /\ o.at = n + 1 /\ Tells(o, s)
    <2>1. PICK o \in Printed : Line(s) = <<o>> /\ o.at = n + 1 /\ Tells(o, s)
      BY <1>3
    <2> DEFINE m == Len(out)
    <2>2. /\ out \in Seq(Printed) /\ m \in Nat /\ out' \in Seq(Printed)
          /\ Len(out') = m + 1 /\ out'[m + 1] = o
          /\ \A k \in 1 .. m : out'[k] = out[k]
      BY <2>1 DEF LinesInv
    <2>3. /\ \A j \in 1 .. Len(table') : j \in 1 .. n \/ j = n + 1
          /\ \A k \in 1 .. Len(out') : k \in 1 .. m \/ k = m + 1
      BY <1>1, <2>2
    <2>4. \A k \in 1 .. Len(out') :
            out'[k].at \in 1 .. Len(table') /\ Tells(out'[k], table'[out'[k].at])
      <3>1. \A k \in 1 .. m : out[k].at \in 1 .. n /\ Tells(out[k], table[out[k].at])
        BY DEF LinesInv
      <3> QED BY <1>1, <2>1, <2>2, <2>3, <3>1
    <2>5. \A j, k \in 1 .. Len(out') : j < k => out'[j].at < out'[k].at
      <3>1. \A j, k \in 1 .. m : j < k => out[j].at < out[k].at
        BY DEF LinesInv
      <3>2. \A j \in 1 .. m : out[j].at < n + 1
        BY <1>1 DEF LinesInv
      <3> QED BY <1>1, <2>1, <2>2, <2>3, <3>1, <3>2
    <2>6. \A j \in 1 .. Len(table') :
            Wanted(table'[j]) => \E k \in 1 .. Len(out') : out'[k].at = j
      <3>1. \A j \in 1 .. n : Wanted(table[j]) => \E k \in 1 .. m : out[k].at = j
        BY DEF LinesInv
      <3> QED BY <1>1, <2>1, <2>2, <2>3, <3>1
    <2> QED BY <2>2, <2>4, <2>5, <2>6 DEF LinesInv
  <1> QED BY <1>2, <1>3, LineFact

LEMMA ListSymbolInv ==
  ASSUME IInv, ListSymbol
  PROVE  IInv'
  <1>0. Values /\ Truths /\ HeldInv /\ StatusInv /\ LoopInv /\ LinesInv
    BY TypeParts DEF IInv
  <1>1. /\ pc = "list" /\ pc' = pc /\ i < num
        /\ UNCHANGED <<file, class, swap, fd, heap, status, overall, num, trouble>>
    BY DEF ListSymbol, fileVars, MoreSymbols
  <1>2. /\ i' \in 0 .. UINT16_MAX /\ i' <= num /\ wrapped' \in BOOLEAN
        /\ wrapped' => num > UINT16_MAX
        /\ ~ wrapped' => i' = i + 1 /\ ~ wrapped
    BY <1>0, <1>1, NextFact DEF ListSymbol, Increment, Truths, LoopInv
  <1>3. Values'
    BY <1>0, <1>1, <1>2 DEF Values
  <1>4. HeldInv' /\ StatusInv'
    BY <1>0, <1>1 DEF HeldInv, BeforeTables, StatusInv, ExitStatus, Reading
  <1>5. CASE wrapped
    <2>1. wrapped' /\ table' = table /\ out' = out
      BY <1>5, <1>2 DEF ListSymbol
    <2>2. LoopInv'
      BY <1>1, <1>2, <2>1 DEF LoopInv, Reading
    <2>3. Truths' /\ LinesInv' /\ table' \in Seq(Symbols)
      BY <1>0, <1>1, <1>2, <2>1, LinesKept, TypeParts DEF Truths, IInv
    <2> QED BY <1>3, <1>4, <2>2, <2>3, TypeParts DEF IInv
  <1>6. CASE ~ wrapped
    <2>1. PICK s \in Symbols : table' = Append(table, s) /\ out' = out \o Line(s)
      BY <1>6 DEF ListSymbol
    <2>2. table \in Seq(Symbols) /\ Len(table) = i
      BY <1>0, <1>1, <1>6, TypeParts DEF LoopInv, IInv
    <2>3. table' \in Seq(Symbols) /\ Len(table') = i + 1
      BY <2>1, <2>2
    <2>4. LoopInv'
      BY <1>1, <1>2, <2>3 DEF LoopInv, Reading
    <2>5. LinesInv'
      BY <1>0, <2>1, LinesGrow DEF IInv
    <2>6. Truths'
      BY <1>0, <1>1, <1>2 DEF Truths
    <2> QED BY <1>3, <1>4, <2>3, <2>4, <2>5, <2>6, TypeParts DEF IInv
  <1> QED BY <1>0, <1>5, <1>6 DEF Truths

LEMMA ListEndInv ==
  ASSUME IInv, ListEnd
  PROVE  IInv'
  <1>0. Values /\ Truths /\ HeldInv /\ StatusInv /\ LoopInv /\ LinesInv
    BY TypeParts DEF IInv
  <1>1. /\ pc = "list" /\ pc' = "cleanup" /\ status' = "SUCCESS" /\ ~ (i < num)
        /\ UNCHANGED <<file, class, swap, fd, heap, overall, num, i, table,
                       wrapped, out, trouble>>
    BY DEF ListEnd, fileVars, loopVars, MoreSymbols
  <1>2. ~ wrapped /\ i = num /\ Len(table) = num
    BY <1>0, <1>1, Bounds DEF LoopInv, Values, Truths
  <1>3. Values'
    BY <1>0, <1>1 DEF Values
  <1>4. HeldInv' /\ StatusInv'
    BY <1>0, <1>1 DEF HeldInv, BeforeTables, StatusInv, ExitStatus, Reading
  <1>5. LoopInv'
    BY <1>1, <1>2 DEF LoopInv, Reading
  <1>6. Truths' /\ LinesInv' /\ table' \in Seq(Symbols)
    BY <1>0, <1>1, LinesKept, TypeParts DEF Truths, IInv
  <1> QED BY <1>3, <1>4, <1>5, <1>6, TypeParts DEF IInv

LEMMA CleanupInv ==
  ASSUME IInv, Cleanup
  PROVE  IInv'
  <1>0. Values /\ Truths /\ HeldInv /\ StatusInv /\ LoopInv /\ LinesInv
    BY TypeParts DEF IInv
  <1>1. /\ pc = "cleanup" /\ pc' = "close" /\ heap' = heap \ Freed
        /\ UNCHANGED <<file, class, swap, fd, status, overall, num, i, table,
                       wrapped, out, trouble>>
    BY DEF Cleanup, fileVars, loopVars
  <1>2. heap' = {}
    BY <1>0, <1>1 DEF Freed, Values
  <1>3. Values'
    BY <1>0, <1>1, <1>2 DEF Values
  <1>4. HeldInv' /\ StatusInv'
    BY <1>0, <1>1, <1>2 DEF HeldInv, BeforeTables, StatusInv, ExitStatus, Reading
  <1>5. LoopInv'
    BY <1>0, <1>1 DEF LoopInv, Reading
  <1>6. Truths' /\ LinesInv' /\ table' \in Seq(Symbols)
    BY <1>0, <1>1, LinesKept, TypeParts DEF Truths, IInv
  <1> QED BY <1>3, <1>4, <1>5, <1>6, TypeParts DEF IInv

LEMMA StutterInv == IInv /\ UNCHANGED vars => IInv'
  <1> SUFFICES ASSUME IInv, UNCHANGED vars PROVE IInv'
    OBVIOUS
  <1>1. UNCHANGED <<pc, file, class, swap, fd, heap, status, overall, num, i,
                    table, wrapped, out, trouble>>
    BY DEF vars, fileVars, loopVars
  <1> QED BY <1>1, LinesKept
          DEF IInv, TypeOK, HeldInv, StatusInv, ExitStatus, LoopInv

THEOREM NmInvariant == Spec => []IInv
  <1>1. IInv /\ [Next]_vars => IInv'
    BY OpenFileInv, ReadIdentInv, CloseFileInv, TableInv, SwapSymbolInv,
       ListSymbolInv, ListEndInv, CleanupInv, StutterInv DEF Next, Exited
  <1> QED BY <1>1, InitIInv, PTL DEF Spec
-----------------------------------------------------------------------------
(* Whichever call fails, a file leaves no block and no descriptor behind   *)
(* for the next one: every error goes to the one cleanup.                  *)
THEOREM FilesLeaveNothing == Spec => []NothingHeld
  <1>1. IInv => NothingHeld
    BY DEF IInv, HeldInv, BeforeTables, NothingHeld
  <1> QED BY <1>1, NmInvariant, PTL

(* The exit status is that of the worst file, whichever came last.         *)
THEOREM StatusRemembered == Spec => []ExitStatus
  <1>1. IInv => ExitStatus
    BY DEF IInv, StatusInv
  <1> QED BY <1>1, NmInvariant, PTL

(* A file is listed as a whole or not at all, every symbol a listing is    *)
(* about once, in order and with the letter of its kind, for tables of any *)
(* length.                                                                 *)
THEOREM ListedWholeOrNot == Spec => []Listing
  <1>1. ASSUME IInv, pc = "close"
        PROVE  Listing
    <2>1. /\ status = "FAILURE" <=> file \in trouble
          /\ status = "FAILURE" => table = <<>>
          /\ status = "SUCCESS" => Len(table) = num
      BY <1>1 DEF IInv, StatusInv, LoopInv
    <2>2. /\ table \in Seq(Symbols) /\ DOMAIN table = 1 .. Len(table)
          /\ out \in Seq(Printed) /\ DOMAIN out = 1 .. Len(out)
          /\ \A k \in DOMAIN out :
               out[k].at \in DOMAIN table /\ Tells(out[k], table[out[k].at])
          /\ \A j, k \in DOMAIN out : j < k => out[j].at < out[k].at
          /\ \A j \in DOMAIN table :
               Wanted(table[j]) => \E k \in DOMAIN out : out[k].at = j
      <3>1. /\ table \in Seq(Symbols) /\ DOMAIN table = 1 .. Len(table)
            /\ out \in Seq(Printed) /\ DOMAIN out = 1 .. Len(out)
        BY <1>1 DEF IInv, LinesInv, TypeOK
      <3> QED BY <1>1, <3>1 DEF IInv, LinesInv
    <2>3. table = <<>> => out = <<>>
      <3>1. table = <<>> => DOMAIN table = {}
        OBVIOUS
      <3> QED BY <2>2, <3>1
    <2>4. {out[k].at : k \in {k \in DOMAIN out : out[k].name = "some"}} =
            {j \in DOMAIN table : Wanted(table[j])}
      <3>1. \A k \in DOMAIN out : /\ out[k].at \in DOMAIN table
                                 /\ out[k].name = "some" <=> Wanted(table[out[k].at])
        BY <2>2 DEF Tells, Wanted
      <3> QED BY <2>2, <3>1
    <2>5. \A k \in DOMAIN out :
         LET s == table[out[k].at] IN
         /\ out[k].name = s.name
         /\ RightLetter(out[k].letter, s)
         /\ ~ out[k].shown => s.shndx = "UNDEF"
      BY <2>2 DEF Tells
    <2> QED BY <2>1, <2>2, <2>3, <2>4, <2>5 DEF Listing
  <1>2. IInv => Listing
    BY <1>1 DEF Listing
  <1> QED BY <1>2, NmInvariant, PTL
=============================================================================
