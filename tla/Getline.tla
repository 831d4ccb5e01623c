------------------------------ MODULE Getline ------------------------------
(***************************************************************************)
(* _getline() of getline/_getline.c: one line of a file per call, read     *)
(* through a static buffer for each descriptor that keeps what a read      *)
(* brought beyond the newline.  The program around it reads as the one in  *)
(* test_main.c does, from several files at once: it opens a file, calls    *)
(* _getline until it returns NULL, and may then close the file and open    *)
(* another one under the same descriptor.                                  *)
(*                                                                         *)
(* A character is a newline or the position it has in its file, tagged     *)
(* with the number of the open() it was read through, so that every        *)
(* character is told from every other.                                     *)
(***************************************************************************)
EXTENDS Integers, Sequences, SequencesExt

CONSTANTS
  Fds,          \* the descriptors open() returns
  MAX_FDS,      \* descriptors from this one on have no buffer
  READ_SIZE,    \* the size of a buffer
  MaxLength,    \* bound on the length of a file
  MaxOpens,     \* bound on how often a file is opened
  MaxFaults,    \* bound on the reads and realloc that fail
  NULL, NONE    \* no line; no descriptor

ASSUME GetlineAssumption ==
  /\ Fds \subseteq Nat /\ {MaxLength, MaxOpens, MaxFaults} \subseteq Nat
  /\ MAX_FDS \in Nat /\ READ_SIZE \in Nat \ {0}
  /\ NONE \notin Fds /\ NULL \notin Seq(Seq(Nat))

NL == <<>>                          \* '\n'
Chars == (1 .. MaxOpens) \X (1 .. MaxLength)

VARIABLES
  file,         \* file[fd]: what is open as fd, or NULL
  at,           \* at[fd]: how much of it the kernel has handed out
  opens,        \* how many files were opened
  buffer, bytes_read, offset,     \* the static arrays of _getline
  cur,          \* the descriptor of the call that runs, or NONE
  line,         \* its line, or NULL
  got,          \* got[fd]: the lines returned since fd was opened
  last,         \* last[fd]: what the last call for fd did
  faults,       \* how many read() and realloc have failed
  readError,    \* the descriptors with a failed read since they were opened
  noMemory,     \* the descriptors that ever had a failed realloc
  callError     \* the descriptor whose running or last call had a failed
                \* read, or NONE

osVars == <<file, at, opens>>
staticVars == <<buffer, bytes_read, offset>>
callVars == <<cur, line>>
historyVars == <<got, last, faults, readError, noMemory, callError>>
vars == <<osVars, staticVars, callVars, historyVars>>

Contents(n) ==
  {[i \in 1 .. k |-> IF i \in S THEN NL ELSE <<n, i>>] :
     k \in 0 .. MaxLength, S \in SUBSET (1 .. MaxLength)}

Init ==
  /\ file = [fd \in Fds |-> NULL] /\ at = [fd \in Fds |-> 0] /\ opens = 0
  /\ buffer = [fd \in Fds |-> <<>>]
  /\ bytes_read = [fd \in Fds |-> 0] /\ offset = [fd \in Fds |-> 0]
  /\ cur = NONE /\ line = NULL
  /\ got = [fd \in Fds |-> <<>>] /\ last = [fd \in Fds |-> "none"]
  /\ faults = 0 /\ readError = {} /\ noMemory = {}
  /\ callError = NONE
-----------------------------------------------------------------------------
(* Mutated forms, for the sensitivity of the properties.                   *)

EmptyLate(fd) == offset[fd] > bytes_read[fd]
WhatItHasDropped == NULL
NextOffsetReset(i) == 0
LineSoFarDropped == <<>>
-----------------------------------------------------------------------------
(* The program around _getline. *)

Open(fd) ==
  /\ cur = NONE /\ file[fd] = NULL /\ opens < MaxOpens
  /\ opens' = opens + 1
  /\ \E c \in Contents(opens') : file' = [file EXCEPT ![fd] = c]
  /\ at' = [at EXCEPT ![fd] = 0]
  /\ UNCHANGED <<staticVars, callVars, historyVars>>

Close(fd) ==
  /\ cur = NONE /\ file[fd] # NULL /\ last[fd] = "NULL"
  /\ file' = [file EXCEPT ![fd] = NULL]
  /\ got' = [got EXCEPT ![fd] = <<>>]
  /\ last' = [last EXCEPT ![fd] = "none"]
  /\ readError' = readError \ {fd}
  /\ UNCHANGED <<at, opens, staticVars, callVars, faults, noMemory, callError>>
-----------------------------------------------------------------------------
(* The steps of a call.  offset[fd] counts the characters of the buffer    *)
(* that were used, so the next one is buffer[fd][offset[fd] + 1].          *)

(* return (NULL) or return (line). *)
Return(fd, l) ==
  /\ cur' = NONE /\ line' = NULL
  /\ got' = IF l = NULL THEN got ELSE [got EXCEPT ![fd] = Append(@, l)]
  /\ last' = [last EXCEPT ![fd] = IF l = NULL THEN "NULL" ELSE "line"]

Call(fd) ==
  /\ cur = NONE /\ file[fd] # NULL
  /\ callError' = NONE
  /\ \/ /\ fd < MAX_FDS
        /\ cur' = fd
        /\ UNCHANGED <<line, got, last>>
     \/ /\ fd >= MAX_FDS
        /\ Return(fd, NULL)
  /\ UNCHANGED <<osVars, staticVars, faults, readError, noMemory>>

(* A call of read() or realloc that fails. *)
Fault ==
  /\ faults < MaxFaults
  /\ faults' = faults + 1

Empty(fd) == offset[fd] >= bytes_read[fd]

(* What a call returns that can read no more. *)
WhatItHas == line

(* read() brings 1 to READ_SIZE characters, none at the end of the file,   *)
(* or fails; without characters the call returns what it has.              *)
Fill(fd) ==
  /\ cur = fd /\ Empty(fd)
  /\ offset' = [offset EXCEPT ![fd] = 0]
  /\ \/ /\ \E n \in 1 .. READ_SIZE :
             /\ at[fd] + n <= Len(file[fd])
             /\ buffer' = [buffer EXCEPT
                             ![fd] = SubSeq(file[fd], at[fd] + 1, at[fd] + n)]
             /\ bytes_read' = [bytes_read EXCEPT ![fd] = n]
             /\ at' = [at EXCEPT ![fd] = @ + n]
        /\ UNCHANGED <<callVars, got, last, faults, readError, callError>>
     \/ /\ at[fd] = Len(file[fd])
        /\ bytes_read' = [bytes_read EXCEPT ![fd] = 0]
        /\ Return(fd, WhatItHas)
        /\ UNCHANGED <<buffer, at, faults, readError, callError>>
     \/ /\ Fault
        /\ readError' = readError \union {fd} /\ callError' = fd
        /\ bytes_read' = [bytes_read EXCEPT ![fd] = -1]
        /\ Return(fd, WhatItHas)
        /\ UNCHANGED <<buffer, at>>
  /\ UNCHANGED <<file, opens, noMemory>>

Newlines(fd) ==
  {i \in offset[fd] + 1 .. bytes_read[fd] : buffer[fd][i] = NL}

(* Where the next line starts, after a newline at i. *)
NextOffset(i) == i

(* The line so far, or nothing yet. *)
LineSoFar == IF line = NULL THEN <<>> ELSE line

(* A realloc that fails: the call returns NULL, the characters it had      *)
(* gathered are lost, those in the buffer stay there.                      *)
NoMemory(fd) ==
  /\ Fault
  /\ noMemory' = noMemory \union {fd}
  /\ Return(fd, NULL)
  /\ UNCHANGED offset

(* The buffer holds a newline: the line ends there. *)
TakeLine(fd) ==
  /\ cur = fd /\ ~ Empty(fd) /\ Newlines(fd) # {}
  /\ \/ LET i == Min(Newlines(fd)) IN
          /\ Return(fd, LineSoFar \o SubSeq(buffer[fd], offset[fd] + 1, i - 1))
          /\ offset' = [offset EXCEPT ![fd] = NextOffset(i)]
          /\ UNCHANGED <<faults, noMemory>>
     \/ NoMemory(fd)
  /\ UNCHANGED <<osVars, buffer, bytes_read, readError, callError>>

(* It does not: the whole rest of the buffer is appended to the line. *)
TakeRest(fd) ==
  /\ cur = fd /\ ~ Empty(fd) /\ Newlines(fd) = {}
  /\ \/ /\ line' = LineSoFar \o
                     SubSeq(buffer[fd], offset[fd] + 1, bytes_read[fd])
        /\ offset' = [offset EXCEPT ![fd] = bytes_read[fd]]
        /\ UNCHANGED <<cur, got, last, faults, noMemory>>
     \/ NoMemory(fd)
  /\ UNCHANGED <<osVars, buffer, bytes_read, readError, callError>>

Step(fd) == Fill(fd) \/ TakeLine(fd) \/ TakeRest(fd)

(* Every file was read and closed, and the program ends. *)
Done ==
  /\ opens = MaxOpens /\ \A fd \in Fds : file[fd] = NULL
  /\ UNCHANGED vars

Next ==
  (\E fd \in Fds : Open(fd) \/ Close(fd) \/ Call(fd) \/ Step(fd)) \/ Done

(* A call that runs goes on. *)
Spec == Init /\ [][Next]_vars /\ \A fd \in Fds : WF_vars(Step(fd))
-----------------------------------------------------------------------------

Buffered(fd) == SubSeq(buffer[fd], offset[fd] + 1, bytes_read[fd])

TypeOK ==
  /\ file \in [Fds -> {NULL} \union Seq({NL} \union Chars)]
  /\ at \in [Fds -> 0 .. MaxLength] /\ opens \in 0 .. MaxOpens
  /\ \A fd \in Fds :
       /\ Len(buffer[fd]) <= READ_SIZE
       /\ bytes_read[fd] \in -1 .. Len(buffer[fd])
       /\ offset[fd] \in 0 .. Len(buffer[fd])
       /\ got[fd] \in Seq(Seq(Chars))
       /\ last[fd] \in {"none", "line", "NULL"}
  /\ faults \in 0 .. MaxFaults
  /\ readError \subseteq Fds /\ noMemory \subseteq Fds
  /\ cur \in Fds \union {NONE} /\ line \in {NULL} \union Seq(Chars)
  /\ callError \in Fds \union {NONE}

(* The lines with their newlines, one after the other. *)
Joined(lines) == FlattenSeq([k \in DOMAIN lines |-> Append(lines[k], NL)])

EndsInside(c) == c # <<>> /\ c[Len(c)] # NL

(* The calls for a descriptor return the lines of its file, whole and in   *)
(* order, and NULL once all were returned: however read() cuts the file    *)
(* into pieces, whichever other files are read in between, and whatever    *)
(* was open under the same descriptor before.  The lines put together are  *)
(* the file so far, or all of it and the newline that its last line lacks. *)
(* (And the positions in the buffers stay inside them.)                    *)
WholeLines ==
  /\ TypeOK
  /\ \A fd \in Fds :
       file[fd] # NULL /\ fd < MAX_FDS /\ fd \notin readError \union noMemory =>
         LET given == Joined(got[fd])
             whole == EndsInside(file[fd]) /\ given = Append(file[fd], NL)
         IN  /\ IsPrefix(given, file[fd]) \/ whole
             /\ last[fd] = "NULL" => given = file[fd] \/ whole

(* What was read and is still there: in a returned line, in the line that  *)
(* is being built, or in the buffer.                                       *)
Pieces(fd) ==
  got[fd] \o << IF cur = fd THEN LineSoFar ELSE <<>>, Buffered(fd) >>

Text(s) == {s[i] : i \in DOMAIN s} \ {NL}

(* Nothing that was read is lost when a read fails in the middle of a      *)
(* line: every character is in one of the pieces, and nothing else.        *)
NothingLost ==
  \A fd \in Fds :
    file[fd] # NULL /\ fd \notin noMemory =>
      Text(SubSeq(file[fd], 1, at[fd])) =
        UNION {Text(Pieces(fd)[k]) : k \in DOMAIN Pieces(fd)}

Before(x, y) == x[1] < y[1] \/ (x[1] = y[1] /\ x[2] < y[2])

(* No character is returned twice or out of order, even after a realloc    *)
(* that failed.  Then the rest of the buffer is returned late, with the    *)
(* first line of the next file that is opened under the descriptor if the  *)
(* one it is from is closed, but before anything of that one, and once.    *)
InOrderOnce ==
  \A fd \in Fds :
    LET p == Pieces(fd) IN
    \A k, l \in DOMAIN p : \A i \in DOMAIN p[k], j \in DOMAIN p[l] :
      /\ k < l \/ (k = l /\ i < j)
      /\ NL \notin {p[k][i], p[l][j]}
      => Before(p[k][i], p[l][j])

(* Every call returns. *)
CallEnds == \A fd \in Fds : cur = fd ~> cur = NONE
-----------------------------------------------------------------------------
(* "Return: [...] NULL if there are no more lines or an error occurs"      *)
(* (_getline.c, lines 11-12): a call in which a read failed returns NULL.  *)
ErrorGivesNull ==
  callError # NONE /\ cur = NONE => last[callError] # "line"
=============================================================================
