----------------------------- MODULE HeapWriter -----------------------------
(***************************************************************************)
(* proc_filesystem/read_write_heap.py: attaches to a process, looks for a  *)
(* string in its heap, writes another one over it and detaches.  The       *)
(* process is one of those of Signals, with signals on their way to it.    *)
(*                                                                         *)
(* What the mappings of the process hold, and the replacement, are chosen  *)
(* where the script looks at them.  The process may change its heap at any *)
(* time it runs; PTRACE_ATTACH stops one thread, and others may go on.  A  *)
(* tracer that ends detaches.                                              *)
(***************************************************************************)
EXTENDS Signals, FiniteSetsExt

CONSTANTS
  Contents,       \* what a mapping may hold: sequences of bytes
  Search,         \* search_string
  Replacements,   \* the values of replace_string
  NUL

ASSUME HeapWriterAssumption ==
  /\ NUL \in Nat /\ Search # <<>>
  /\ Contents \union Replacements \union {Search} \subseteq Seq(Nat)

VARIABLES
  wpc,      \* where the script is
  where,    \* the mapping that was chosen: "exe" or "heap"
  mem,      \* what that mapping holds
  offset,   \* where the string was found
  lost,     \* history: the sender of the signal that detach dropped, or None
  raced,    \* history: waitpid reported another signal than SIGSTOP
  stale     \* history: who changed memory between the read and the write

vars == <<processVars, wpc, where, mem, offset, lost, raced, stale>>

Init ==
  /\ SignalsInit
  /\ wpc = "attach" /\ where = "none" /\ mem = <<>> /\ offset = 0
  /\ lost = None /\ raced = FALSE /\ stale = "nobody"
-----------------------------------------------------------------------------
(* Mutated forms, for the sensitivity of the properties.                   *)

WaitReturnsAtOnce == TRUE
PaddingNone(bytes) == <<>>
-----------------------------------------------------------------------------
(* PTRACE_ATTACH, which fails for a process that has ended, or is not ours:*)
(* sys.exit, and `finally`.                                                *)
Attach ==
  /\ wpc = "attach"
  /\ \/ wpc' = "detach" /\ UNCHANGED <<traced, sigstop>>
     \/ /\ target \notin Dead
        /\ traced' = TRUE /\ sigstop' = TRUE
        /\ wpc' = "wait"
  /\ UNCHANGED <<mainVars, handlerVars, pending, target, reported, sent, where,
                 mem, offset, lost, raced, stale>>

WaitReturns == target = "stopped" \/ target \in Dead

(* os.waitpid, whatever it reports. *)
Waitpid ==
  /\ wpc = "wait" /\ WaitReturns
  /\ raced' = (target = "stopped" /\ sigstop)
  /\ wpc' = "maps"
  /\ UNCHANGED <<processVars, where, mem, offset, lost, stale>>

(* The first line of /proc/pid/maps that contains "heap": that of the      *)
(* executable comes first if its path does.  There may be none, and there  *)
(* is none for a process that has ended.                                   *)
FindHeap ==
  /\ wpc = "maps"
  /\ \/ wpc' = "detach" /\ UNCHANGED where
     \/ /\ target \notin Dead
        /\ where' \in {"exe", "heap"}
        /\ wpc' = "read"
  /\ UNCHANGED <<processVars, mem, offset, lost, raced, stale>>

Offsets(s) ==
  {i \in 1 .. Len(s) - Len(Search) + 1 : SubSeq(s, i, i + Len(Search) - 1) = Search}

Found(s) == Min(Offsets(s))

(* mem_file.read and heap_data.find; of a process that has ended nothing   *)
(* is read.                                                                *)
ReadHeap ==
  /\ wpc = "read"
  /\ mem' \in IF target \in Dead THEN {<<>>} ELSE Contents
  /\ \/ Offsets(mem') = {} /\ wpc' = "detach" /\ UNCHANGED offset
     \/ Offsets(mem') # {} /\ wpc' = "write" /\ offset' = Found(mem')
  /\ UNCHANGED <<processVars, where, lost, raced, stale>>

(* b'\x00' times a number that is negative is empty. *)
Padding(bytes) ==
  [i \in 1 .. Max({0, Len(Search) - Len(bytes)}) |-> NUL]

(* What does not fit into the mapping is not written. *)
Overwritten(s, bytes) ==
  [i \in DOMAIN s |->
     IF i - offset \in 0 .. Len(bytes) - 1 THEN bytes[i - offset + 1] ELSE s[i]]

WriteHeap(bytes) ==
  /\ wpc = "write"
  /\ mem' = IF target \in Dead THEN mem ELSE Overwritten(mem, bytes \o Padding(bytes))
  /\ wpc' = "detach"
  /\ UNCHANGED <<processVars, where, offset, lost, raced, stale>>

(* PTRACE_DETACH, with signal 0: a signal that was reported is dropped.  It*)
(* fails when the process is not stopped, and the script ends either way.  *)
Detach ==
  /\ wpc = "detach"
  /\ wpc' = "done" /\ traced' = FALSE
  /\ IF traced /\ target = "stopped" THEN target' = "running" /\ lost' = reported
     ELSE UNCHANGED <<target, lost>>
  /\ reported' = None /\ mem' = <<>> /\ offset' = 0
  /\ UNCHANGED <<mainVars, handlerVars, pending, sigstop, sent, where, raced, stale>>

Writer ==
  \/ Attach \/ Waitpid \/ FindHeap \/ ReadHeap \/ Detach
  \/ \E bytes \in Replacements : WriteHeap(bytes)

(* The process, or a thread of it that was not stopped, changes its heap   *)
(* after it was read.                                                      *)
TargetWrites ==
  /\ wpc = "write" /\ where = "heap" /\ target \notin Dead
  /\ mem' \in Contents
  /\ stale' = IF target = "running" THEN "itself" ELSE "thread"
  /\ UNCHANGED <<processVars, wpc, where, offset, lost, raced>>

Process ==
  \/ (ProcessStep \/ Others) /\ UNCHANGED <<wpc, where, mem, offset, lost, raced, stale>>
  \/ TargetWrites

Done ==
  /\ wpc = "done" /\ target \in Dead \union {"stopped"}
  /\ UNCHANGED vars

Next == Writer \/ Process \/ Done

(* The script and the process go on, and the kernel delivers; nobody has   *)
(* to send a signal, and the process does not have to write.               *)
Fairness ==
  /\ WF_vars(Writer)
  /\ WF_vars(ProcessStep /\ UNCHANGED <<wpc, where, mem, offset, lost, raced, stale>>)
  /\ WF_vars(KernelStep /\ UNCHANGED <<wpc, where, mem, offset, lost, raced, stale>>)

Spec == Init /\ [][Next]_vars /\ Fairness
-----------------------------------------------------------------------------

TypeOK ==
  /\ SignalsTypeOK
  /\ wpc \in {"attach", "wait", "maps", "read", "write", "detach", "done"}
  /\ where \in {"none", "exe", "heap"} /\ mem \in Seq(Nat) /\ offset \in Nat
  /\ lost \in Senders \union {None}
  /\ raced \in BOOLEAN /\ stale \in {"nobody", "thread", "itself"}

(* A process with one thread stands still from the read to the write, so   *)
(* what is written goes where the string is: over the first occurrence in  *)
(* the mapping, which then reads replace_string and NULs, and over nothing *)
(* else.  The exceptions are another thread that changed memory, and a     *)
(* replacement that is longer, which runs over the bytes that follow.      *)
EditsInPlace(bytes) ==
  LET At(i) == \A k \in DOMAIN Search : i + k - 1 \in DOMAIN mem /\ mem[i + k - 1] = Search[k]
      found == Min({i \in DOMAIN mem : At(i)})
  IN  \A i \in DOMAIN mem :
        mem'[i] = IF i - found \notin 0 .. Len(Search) - 1 THEN mem[i]
                  ELSE IF i - found \in 0 .. Len(bytes) - 1 THEN bytes[i - found + 1]
                  ELSE NUL

HeapEdited ==
  [][\A bytes \in Replacements :
       WriteHeap(bytes) /\ target \notin Dead =>
         /\ stale # "itself"
         /\ stale = "nobody" /\ Len(bytes) <= Len(Search) => EditsInPlace(bytes)]_vars

(* The script leaves the process running, with no SIGSTOP on its way, and  *)
(* has taken none of its signals: those that came while it was attached    *)
(* wait until it is detached.  Not so when another signal came before the  *)
(* attach had stopped it, and only then: waitpid reports that one, detach  *)
(* drops it, and the SIGSTOP of the attach is delivered when there is no   *)
(* tracer any more.                                                        *)
LeftRunning ==
  /\ TypeOK
  /\ wpc = "done" /\ target \notin Dead =>
       IF raced THEN lost # None
       ELSE target = "running" /\ ~ sigstop /\ lost = None


(* A signal for the suspended program ends it, by its handler or by the    *)
(* default action, also when the script attaches in between, but for the   *)
(* signal that the script drops.                                           *)
SignalEndsSuspend ==
  (prog = "suspend" /\ pc = "pause" /\ pending # None) ~> (target \in Dead \/ raced)
=============================================================================
