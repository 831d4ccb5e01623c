--------------------------- MODULE HeapWriterProofs ---------------------------
(***************************************************************************)
(* Proofs about the process that handles a signal and the script that      *)
(* rewrites its heap, for any number of senders, any contents of memory,   *)
(* any string searched for and any replacement: where a signal can end the *)
(* process, how the script leaves it, and which bytes it writes.           *)
(***************************************************************************)
EXTENDS HeapWriter, WellFoundedInduction, TLAPS

(* The variables, without those that hold truth values. *)
SignalValues ==
  /\ prog \in Programs
  /\ pc \in {"set", "idle", "asking", "suspending", "pause", "end"}
  /\ disp \in {"default", "ignore", "handler"}
  /\ saved \in {"default", "ignore", "handler"}
  /\ handler \in {"none", "print", "reset"}
  /\ pending \in Senders \union {None} /\ from \in Senders \union {None}
  /\ caught \in Seq([by : Senders, at : {"set", "idle", "asking", "suspending", "pause"}])
  /\ target \in {"running", "stopped"} \union Dead
  /\ sent \in [Senders -> {"nothing", "success", "failure", "killed"}]

WriterValues ==
  /\ wpc \in {"attach", "wait", "maps", "read", "write", "detach", "done"}
  /\ where \in {"none", "exe", "heap"} /\ mem \in Seq(Nat) /\ offset \in Nat
  /\ reported \in Senders \union {None} /\ lost \in Senders \union {None}
  /\ stale \in {"nobody", "thread"}

Flags == traced \in BOOLEAN /\ sigstop \in BOOLEAN /\ raced \in BOOLEAN

(* The places of the main flow of each program. *)
PlaceInv ==
  /\ prog = "handle_signal" => pc \in {"set", "idle", "asking"}
  /\ prog \in {"handle_sigaction", "trace_signal_sender"} => pc \in {"set", "idle"}
  /\ prog = "suspend" => pc \in {"set", "suspending", "pause", "end"}

(* The disposition at each of them. *)
DispInv ==
  /\ pc = "idle" => disp = "handler"
  /\ pc = "asking" => saved = "handler" /\ disp = "default"
  /\ pc \in {"suspending", "pause"} /\ caught = <<>> => disp = "handler"
  /\ pc = "set" => disp # "handler"
  /\ handler # "none" => disp = "handler" /\ from \in Senders

(* 6-suspend.c catches one signal, and leaves pause() by it alone. *)
SuspendInv ==
  /\ handler = "reset" => prog = "suspend"
  /\ prog = "suspend" =>
       /\ Len(caught) <= 1
       /\ pc = "set" \/ handler = "print" => caught = <<>>
       /\ caught # <<>> /\ handler # "reset" => disp = "default"
       /\ handler = "reset" => Len(caught) = 1 /\ caught[1].at = pc
       /\ pc = "end" => Len(caught) = 1 /\ caught[1].at = "pause" /\ handler = "none"

(* How the process may have ended. *)
EndInv ==
  /\ target = "killed" =>
       \/ pc = "set"
       \/ prog = "handle_signal" /\ pc = "asking"
       \/ prog = "suspend" /\ Len(caught) = 1
  /\ target = "exited" => prog = "suspend" /\ caught[1].at = "pause"

SignalInv == SignalValues /\ PlaceInv /\ DispInv /\ SuspendInv /\ EndInv

(* The process is stopped from the time that waitpid returned to the       *)
(* detach, and the SIGSTOP of the attach is on its way until it is seen.   *)
TraceInv ==
  /\ wpc \in {"wait", "maps", "read", "write"} => traced
  /\ wpc \in {"attach", "done"} => ~ traced
  /\ ~ traced /\ wpc # "done" => ~ sigstop /\ ~ raced /\ target # "stopped"
  /\ wpc = "wait" => ~ raced /\ (target = "running" => sigstop)
  /\ wpc \in {"maps", "read", "write", "detach"} /\ traced /\ target \notin Dead =>
       target = "stopped" /\ (~ raced => ~ sigstop)
  /\ wpc = "done" /\ target \notin Dead /\ ~ raced => target = "running" /\ ~ sigstop

(* Which signal was reported, if any: it was not that of the attach.       *)
ReportInv ==
  /\ ~ traced => reported = None
  /\ target = "running" => reported = None
  /\ wpc = "wait" /\ target = "stopped" => (reported # None <=> sigstop)
  /\ wpc \in {"maps", "read", "write", "detach"} /\ target = "stopped"
       => (reported # None <=> raced)
  /\ wpc # "done" => lost = None
  /\ wpc = "done" /\ target \notin Dead => (lost # None <=> raced)

(* While no other thread writes, the string is still where it was found.   *)
FoundInv ==
  wpc = "write" /\ stale = "nobody" => Offsets(mem) # {} /\ offset = Found(mem)

IInv ==
  Flags /\ SignalInv /\ WriterValues /\ TraceInv /\ ReportInv /\ FoundInv
-----------------------------------------------------------------------------
LEMMA MaxFact ==
  ASSUME NEW a \in Int, NEW b \in Int
  PROVE  Max({a, b}) = IF a <= b THEN b ELSE a
  <1> DEFINE m == IF a <= b THEN b ELSE a
  <1>1. m \in {a, b} /\ \A y \in {a, b} : m >= y
    OBVIOUS
  <1>2. \A x \in {a, b} : (\A y \in {a, b} : x >= y) => x = m
    OBVIOUS
  <1>3. \E x \in {a, b} : \A y \in {a, b} : x >= y
    BY <1>1
  <1>4. Max({a, b}) \in {a, b} /\ \A y \in {a, b} : Max({a, b}) >= y
    BY <1>3, Zenon DEF Max
  <1> QED BY <1>2, <1>4

(* The least element of a set of positions.                                *)
Below == OpToRel(<, Nat)

LEMMA BelowFact == \A i, j \in Nat : <<i, j>> \in Below <=> i < j
  BY DEF Below, OpToRel

LEMMA LeastFact ==
  ASSUME NEW S, S \subseteq Nat, S # {}
  PROVE  Min(S) \in S /\ \A j \in S : Min(S) <= j
  <1>1. IsWellFoundedOn(Below, Nat)
    BY NatLessThanWellFounded DEF Below
  <1>2. PICK i \in S : \A j \in S : <<j, i>> \notin Below
    BY <1>1, WFMin
  <1>3. \A j \in S : i <= j
    <2> TAKE j \in S
    <2>1. ~ (j < i)
      BY <1>2, BelowFact
    <2> QED BY <2>1
  <1> QED BY <1>3, Zenon DEF Min

LEMMA FoundFact ==
  ASSUME NEW s \in Seq(Nat), Offsets(s) # {}
  PROVE  Found(s) \in Offsets(s) /\ Found(s) \in Nat
  <1>1. Offsets(s) \subseteq Nat
    BY DEF Offsets
  <1> QED BY <1>1, LeastFact DEF Found

(* The padding fills up what the replacement leaves of the string.         *)
LEMMA PaddingFact ==
  ASSUME NEW bytes \in Seq(Nat)
  PROVE  /\ Padding(bytes) \in Seq(Nat)
         /\ \A i \in 1 .. Len(Padding(bytes)) : Padding(bytes)[i] = NUL
         /\ Len(bytes) <= Len(Search) =>
              Len(Padding(bytes)) = Len(Search) - Len(bytes)
  <1> DEFINE n == Max({0, Len(Search) - Len(bytes)})
  <1>1. Len(Search) \in Nat /\ Len(bytes) \in Nat
    BY HeapWriterAssumption
  <1>2. n = IF Len(bytes) <= Len(Search) THEN Len(Search) - Len(bytes) ELSE 0
    BY <1>1, MaxFact
  <1>3. n \in Nat
    BY <1>1, <1>2
  <1> HIDE DEF n
  <1>4. /\ [i \in 1 .. n |-> NUL] \in Seq(Nat) /\ Len([i \in 1 .. n |-> NUL]) = n
        /\ \A i \in 1 .. n : [j \in 1 .. n |-> NUL][i] = NUL
    BY <1>3, HeapWriterAssumption
  <1> QED BY <1>1, <1>2, <1>4 DEF Padding, n

LEMMA OverwrittenFact ==
  ASSUME offset \in Nat, NEW s \in Seq(Nat), NEW bytes \in Seq(Nat)
  PROVE  Overwritten(s, bytes) \in Seq(Nat)
  <1>1. DOMAIN s = 1 .. Len(s) /\ Len(s) \in Nat
    OBVIOUS
  <1>2. \A i \in 1 .. Len(s) :
          (IF i - offset \in 0 .. Len(bytes) - 1 THEN bytes[i - offset + 1] ELSE s[i]) \in Nat
    OBVIOUS
  <1> QED BY <1>1, <1>2, SMTT(30) DEF Overwritten

LEMMA InitIInv == Init => IInv
  <1> SUFFICES ASSUME Init PROVE IInv
    OBVIOUS
  <1>1. Flags
    BY DEF Init, SignalsInit, Flags
  <1>2. SignalValues /\ WriterValues
    <2>1. caught \in Seq([by : Senders, at : {"set", "idle", "asking", "suspending", "pause"}])
      BY DEF Init, SignalsInit
    <2>2. mem \in Seq(Nat)
      BY DEF Init
    <2> QED BY <2>1, <2>2 DEF Init, SignalsInit, SignalValues, WriterValues, Dead
  <1>3. PlaceInv /\ DispInv /\ EndInv
    BY DEF Init, SignalsInit, PlaceInv, DispInv, EndInv
  <1>4. SuspendInv
    <2>1. caught = <<>> /\ Len(<<>>) = 0
      BY DEF Init, SignalsInit
    <2> QED BY <2>1 DEF Init, SignalsInit, SuspendInv
  <1>5. TraceInv /\ ReportInv /\ FoundInv
    BY DEF Init, SignalsInit, TraceInv, ReportInv, FoundInv
  <1> QED BY <1>1, <1>2, <1>3, <1>4, <1>5 DEF IInv, SignalInv

(* A handler is installed. *)
LEMMA InstallInv ==
  ASSUME SignalInv,
         HandleSignal \/ HandleSigaction \/ TraceSignalSender \/ SuspendMain
  PROVE  SignalInv'
  <1>0. SignalValues /\ PlaceInv /\ DispInv /\ SuspendInv /\ EndInv
    BY DEF SignalInv
  <1>1. /\ target = "running" /\ handler = "none" /\ pc = "set" /\ disp' = "handler"
        /\ pc' = IF prog = "suspend" THEN "suspending" ELSE "idle"
        /\ UNCHANGED <<prog, saved, handler, from, caught, pending, target, sent>>
    BY DEF HandleSignal, HandleSigaction, TraceSignalSender, SuspendMain, Installs,
           Runs, handlerVars, kernelVars
  <1>2. SignalValues'
    BY <1>0, <1>1 DEF SignalValues
  <1>3. PlaceInv' /\ DispInv'
    BY <1>0, <1>1 DEF SignalValues, Programs, PlaceInv, DispInv
  <1>4. SuspendInv'
    BY <1>0, <1>1 DEF SuspendInv
  <1>5. EndInv'
    BY <1>1 DEF EndInv
  <1> QED BY <1>2, <1>3, <1>4, <1>5 DEF SignalInv

(* The current disposition is asked for. *)
LEMMA QueryInv ==
  ASSUME SignalInv, CurrentHandlerSignal \/ CurrentHandlerSigaction
  PROVE  SignalInv'
  <1>0. SignalValues /\ PlaceInv /\ DispInv /\ SuspendInv /\ EndInv
    BY DEF SignalInv
  <1>1. /\ target = "running" /\ handler = "none" /\ prog \in {"handle_signal", "handle_sigaction"}
        /\ \/ pc = "idle" /\ pc' = "asking" /\ saved' = disp /\ disp' = "default"
              /\ prog = "handle_signal"
           \/ pc = "asking" /\ pc' = "idle" /\ saved' = saved /\ disp' = saved
           \/ pc = "idle" /\ pc' = "idle" /\ saved' = disp /\ disp' = disp
        /\ UNCHANGED <<prog, handler, from, caught, pending, target, sent>>
    BY DEF CurrentHandlerSignal, CurrentHandlerSigaction, DispAfterQuery, Runs,
           handlerVars, kernelVars
  <1>2. SignalValues'
    BY <1>0, <1>1 DEF SignalValues
  <1>3. PlaceInv' /\ DispInv'
    BY <1>0, <1>1 DEF PlaceInv, DispInv
  <1>4. SuspendInv'
    BY <1>0, <1>1 DEF SuspendInv
  <1>5. EndInv'
    BY <1>1 DEF EndInv
  <1> QED BY <1>2, <1>3, <1>4, <1>5 DEF SignalInv

(* The suspended program waits, and ends when pause() has returned. *)
LEMMA PauseExitInv ==
  ASSUME SignalInv, Pause \/ Exit
  PROVE  SignalInv'
  <1>0. SignalValues /\ PlaceInv /\ DispInv /\ SuspendInv /\ EndInv
    BY DEF SignalInv
  <1>1. /\ target = "running" /\ handler = "none"
        /\ \/ pc = "suspending" /\ pc' = "pause" /\ target' = target
           \/ pc = "end" /\ pc' = pc /\ target' = "exited"
        /\ UNCHANGED <<prog, disp, saved, handler, from, caught, pending, sent>>
    BY DEF Pause, Exit, Runs, handlerVars, kernelVars, mainVars
  <1>2. SignalValues'
    BY <1>0, <1>1 DEF SignalValues, Dead
  <1>3. PlaceInv' /\ DispInv'
    BY <1>0, <1>1 DEF SignalValues, Programs, PlaceInv, DispInv
  <1>4. SuspendInv'
    BY <1>0, <1>1 DEF SuspendInv
  <1>5. EndInv'
    BY <1>0, <1>1 DEF EndInv, SignalValues, Programs, PlaceInv, SuspendInv
  <1> QED BY <1>2, <1>3, <1>4, <1>5 DEF SignalInv

(* A handler that prints and returns. *)
LEMMA HandlerInv ==
  ASSUME SignalInv, SigintHandler \/ HandleSigint \/ HandleSigquit
  PROVE  SignalInv'
  <1>0. SignalValues /\ PlaceInv /\ DispInv /\ SuspendInv /\ EndInv
    BY DEF SignalInv
  <1>1. /\ target = "running" /\ handler = "print" /\ prog \in Programs \ {"suspend"}
        /\ caught' = Append(caught, [by |-> from, at |-> pc])
        /\ handler' = "none" /\ from' = None
        /\ pc' = IF pc = "pause" THEN "end" ELSE pc
        /\ UNCHANGED <<prog, disp, saved, pending, target, sent>>
    BY DEF SigintHandler, HandleSigint, HandleSigquit, Prints, HandlerReturns,
           AfterPause, Programs, kernelVars
  <1>2. pc \in {"set", "idle", "asking"} /\ pc' = pc
    BY <1>0, <1>1 DEF PlaceInv, Programs
  <1>3. SignalValues'
    <2>1. [by |-> from, at |-> pc] \in
            [by : Senders, at : {"set", "idle", "asking", "suspending", "pause"}]
      BY <1>0, <1>1, <1>2 DEF DispInv
    <2>2. caught' \in Seq([by : Senders, at : {"set", "idle", "asking", "suspending", "pause"}])
      BY <1>0, <1>1, <2>1 DEF SignalValues
    <2> QED BY <1>0, <1>1, <1>2, <2>2 DEF SignalValues
  <1>4. PlaceInv' /\ DispInv'
    BY <1>0, <1>1, <1>2 DEF PlaceInv, DispInv
  <1>5. SuspendInv'
    BY <1>1 DEF SuspendInv
  <1>6. EndInv'
    BY <1>1 DEF EndInv
  <1> QED BY <1>3, <1>4, <1>5, <1>6 DEF SignalInv

(* That of 6-suspend.c, in its two steps. *)
LEMMA SuspendHandlerInv ==
  ASSUME SignalInv, SuspendHandler
  PROVE  SignalInv'
  <1>0. SignalValues /\ PlaceInv /\ DispInv /\ SuspendInv /\ EndInv
    BY DEF SignalInv
  <1>1. /\ prog = "suspend" /\ target = "running"
        /\ UNCHANGED <<prog, saved, pending, target, sent>>
    BY DEF SuspendHandler, Prints, kernelVars
  <1>2. CASE /\ handler = "print" /\ handler' = "reset"
             /\ caught' = Append(caught, [by |-> from, at |-> pc])
             /\ UNCHANGED <<pc, disp, from>>
    <2>1. caught = <<>> /\ pc \in {"suspending", "pause"} /\ disp = "handler" /\ from \in Senders
      BY <1>0, <1>1, <1>2 DEF SuspendInv, PlaceInv, DispInv
    <2>2. caught' = <<[by |-> from, at |-> pc]>>
      BY <1>2, <2>1
    <2>3. Len(caught') = 1 /\ caught'[1].at = pc
      BY <2>2
    <2>4. caught' \in Seq([by : Senders, at : {"set", "idle", "asking", "suspending", "pause"}])
      BY <2>1, <2>2
    <2>5. caught' # <<>>
      BY <2>2
    <2>6. SignalValues'
      BY <1>0, <1>1, <1>2, <2>4 DEF SignalValues
    <2>7. PlaceInv' /\ DispInv'
      BY <1>0, <1>1, <1>2, <2>1, <2>5 DEF PlaceInv, DispInv
    <2>8. SuspendInv'
      BY <1>1, <1>2, <2>1, <2>3 DEF SuspendInv
    <2>9. EndInv'
      BY <1>1 DEF EndInv
    <2> QED BY <2>6, <2>7, <2>8, <2>9 DEF SignalInv
  <1>3. CASE /\ handler = "reset" /\ disp' = "default" /\ HandlerReturns /\ UNCHANGED caught
    <2>1. /\ handler' = "none" /\ from' = None /\ pc' = IF pc = "pause" THEN "end" ELSE pc
          /\ Len(caught) = 1 /\ caught[1].at = pc /\ caught' = caught
      BY <1>0, <1>1, <1>3 DEF SuspendInv, HandlerReturns, AfterPause
    <2>2. pc \in {"suspending", "pause"}
      BY <1>0, <1>1, <1>3 DEF SuspendInv, PlaceInv, DispInv
    <2>3. caught # <<>> /\ Len(<<>>) = 0
      BY <2>1
    <2>4. SignalValues'
      BY <1>0, <1>1, <1>3, <2>1 DEF SignalValues
    <2>5. PlaceInv' /\ DispInv'
      BY <1>0, <1>1, <1>3, <2>1, <2>2, <2>3 DEF PlaceInv, DispInv
    <2>6. SuspendInv'
      BY <1>0, <1>1, <1>3, <2>1, <2>2, <2>3 DEF SuspendInv
    <2>7. EndInv'
      BY <1>1 DEF EndInv
    <2> QED BY <2>4, <2>5, <2>6, <2>7 DEF SignalInv
  <1>4. \/ /\ handler = "print" /\ handler' = "reset"
           /\ caught' = Append(caught, [by |-> from, at |-> pc])
           /\ UNCHANGED <<pc, disp, from>>
        \/ handler = "reset" /\ disp' = "default" /\ HandlerReturns /\ UNCHANGED caught
    BY DEF SuspendHandler, Prints
  <1> QED BY <1>2, <1>3, <1>4

(* A signal is delivered: here the process may die of it. *)
LEMMA DeliverInv ==
  ASSUME SignalInv, Deliver
  PROVE  SignalInv'
  <1>0. SignalValues /\ PlaceInv /\ DispInv /\ SuspendInv /\ EndInv
    BY DEF SignalInv
  <1>1. /\ target = "running" /\ handler = "none" /\ pending # None /\ pending' = None
        /\ handler' = IF disp = "handler" THEN "print" ELSE "none"
        /\ from' = IF disp = "handler" THEN pending ELSE None
        /\ target' = IF disp = "default" THEN "killed" ELSE target
        /\ UNCHANGED <<prog, pc, disp, saved, caught, sent>>
    BY DEF Deliver, Deliverable, Runs, mainVars
  <1>2. SignalValues'
    BY <1>0, <1>1 DEF SignalValues, Dead
  <1>3. PlaceInv'
    BY <1>0, <1>1 DEF PlaceInv
  <1>4. DispInv'
    BY <1>0, <1>1 DEF DispInv, SignalValues
  <1>5. SuspendInv'
    BY <1>0, <1>1 DEF SuspendInv, SignalValues
  <1>6. EndInv'
    <2>1. SUFFICES ASSUME disp = "default"
                   PROVE  \/ pc = "set"
                          \/ prog = "handle_signal" /\ pc = "asking"
                          \/ prog = "suspend" /\ Len(caught) = 1
      BY <1>1 DEF EndInv
    <2>2. SUFFICES ASSUME prog = "suspend", pc # "set"
                   PROVE  Len(caught) = 1
      BY <1>0, <2>1 DEF SignalValues, Programs, PlaceInv, DispInv
    <2>3. pc = "end" \/ caught # <<>>
      BY <1>0, <2>1, <2>2 DEF PlaceInv, DispInv
    <2>4. caught # <<>> => Len(caught) # 0
      BY <1>0 DEF SignalValues
    <2>5. Len(caught) \in Nat /\ Len(caught) <= 1
      BY <1>0, <2>2 DEF SignalValues, SuspendInv
    <2>6. pc = "end" => Len(caught) = 1
      BY <1>0, <2>2 DEF SuspendInv
    <2>7. Len(caught) # 0
      BY <2>3, <2>4, <2>6
    <2>8. \A n \in Nat : n <= 1 /\ n # 0 => n = 1
      OBVIOUS
    <2> QED BY <2>5, <2>7, <2>8
  <1> QED BY <1>2, <1>3, <1>4, <1>5, <1>6 DEF SignalInv

(* The steps that the main flow and the handlers have no part in: stops,   *)
(* detaching, signals on their way, SIGKILL.                               *)
LEMMA OutsideInv ==
  ASSUME SignalInv, UNCHANGED <<mainVars, handlerVars>>,
         pending' \in Senders \union {None},
         sent' \in [Senders -> {"nothing", "success", "failure", "killed"}],
         target' = target \/ target' \in {"running", "stopped", "SIGKILL"}
  PROVE  SignalInv'
  <1>0. SignalValues /\ PlaceInv /\ DispInv /\ SuspendInv /\ EndInv
    BY DEF SignalInv
  <1>1. UNCHANGED <<prog, pc, disp, saved, handler, from, caught>>
    BY DEF mainVars, handlerVars
  <1>2. SignalValues'
    BY <1>0, <1>1 DEF SignalValues, Dead
  <1>3. PlaceInv' /\ DispInv' /\ SuspendInv'
    BY <1>0, <1>1 DEF PlaceInv, DispInv, SuspendInv
  <1>4. EndInv'
    BY <1>0, <1>1 DEF EndInv
  <1> QED BY <1>2, <1>3, <1>4 DEF SignalInv

(* The traced process stops, for a signal or for the SIGSTOP of the attach.*)
Stops ==
  /\ traced /\ target = "running" /\ target' = "stopped"
  /\ \/ sigstop' = sigstop /\ reported' \in Senders \ {None}
     \/ sigstop /\ sigstop' = FALSE /\ reported' = reported

(* The process and those that signal it keep SignalInv, and change what    *)
(* the script looks at in one of four ways only.                           *)
LEMMA ProcessInv ==
  ASSUME SignalInv, ProcessStep \/ Others
  PROVE  /\ SignalInv'
         /\ traced' = traced
         /\ \/ UNCHANGED <<target, sigstop, reported>>
            \/ target \notin Dead /\ target' \in Dead /\ UNCHANGED <<sigstop, reported>>
            \/ Stops
            \/ ~ traced /\ sigstop /\ target = "running" /\ target' = "stopped"
                 /\ sigstop' = FALSE /\ reported' = reported
  <1>0. SignalValues
    BY DEF SignalInv
  <1>1. ASSUME HandleSignal \/ HandleSigaction \/ TraceSignalSender \/ SuspendMain
        PROVE  SignalInv' /\ UNCHANGED <<traced, target, sigstop, reported>>
    BY <1>1, InstallInv
       DEF HandleSignal, HandleSigaction, TraceSignalSender, SuspendMain, Installs, kernelVars
  <1>2. ASSUME CurrentHandlerSignal \/ CurrentHandlerSigaction
        PROVE  SignalInv' /\ UNCHANGED <<traced, target, sigstop, reported>>
    BY <1>2, QueryInv DEF CurrentHandlerSignal, CurrentHandlerSigaction, kernelVars
  <1>3. ASSUME Pause
        PROVE  SignalInv' /\ UNCHANGED <<traced, target, sigstop, reported>>
    BY <1>3, PauseExitInv DEF Pause, kernelVars
  <1>4. ASSUME Exit
        PROVE  /\ SignalInv' /\ UNCHANGED <<traced, sigstop, reported>>
               /\ target \notin Dead /\ target' \in Dead
    BY <1>4, PauseExitInv DEF Exit, Runs, Dead
  <1>5. ASSUME SigintHandler \/ HandleSigint \/ HandleSigquit
        PROVE  SignalInv' /\ UNCHANGED <<traced, target, sigstop, reported>>
    BY <1>5, HandlerInv DEF SigintHandler, HandleSigint, HandleSigquit, kernelVars
  <1>6. ASSUME SuspendHandler
        PROVE  SignalInv' /\ UNCHANGED <<traced, target, sigstop, reported>>
    BY <1>6, SuspendHandlerInv DEF SuspendHandler, kernelVars
  <1>7. ASSUME Deliver
        PROVE  /\ SignalInv' /\ UNCHANGED <<traced, sigstop, reported>>
               /\ \/ target' = target
                  \/ target \notin Dead /\ target' \in Dead
    BY <1>7, DeliverInv DEF Deliver, Deliverable, Runs, Dead
  <1>8. ASSUME StopsForTracer
        PROVE  SignalInv' /\ traced' = traced /\ Stops
    <2>1. /\ UNCHANGED <<mainVars, handlerVars, traced, sent>>
          /\ target' = "stopped"
          /\ pending' \in {pending, None}
      BY <1>8 DEF StopsForTracer
    <2>2. Stops
      BY <1>0, <1>8 DEF StopsForTracer, Stops, Deliverable, SignalValues
    <2> QED BY <1>0, <2>1, <2>2, OutsideInv DEF SignalValues
  <1>9. ASSUME StopsForGood
        PROVE  /\ SignalInv' /\ traced' = traced
               /\ ~ traced /\ sigstop /\ target = "running" /\ target' = "stopped"
               /\ sigstop' = FALSE /\ reported' = reported
    <2>1. /\ UNCHANGED <<mainVars, handlerVars, pending, traced, reported, sent>>
          /\ ~ traced /\ sigstop /\ target = "running" /\ target' = "stopped"
          /\ sigstop' = FALSE
      BY <1>9 DEF StopsForGood
    <2> QED BY <1>0, <2>1, OutsideInv DEF SignalValues
  <1>10. ASSUME SigKill
         PROVE  /\ SignalInv' /\ UNCHANGED <<traced, sigstop, reported>>
                /\ target \notin Dead /\ target' \in Dead
    <2>1. /\ UNCHANGED <<mainVars, handlerVars, pending, traced, sigstop, reported, sent>>
          /\ target \notin Dead /\ target' = "SIGKILL"
      BY <1>10 DEF SigKill
    <2>2. SignalInv'
      BY <1>0, <2>1, OutsideInv DEF SignalValues
    <2> QED BY <2>1, <2>2 DEF Dead
  <1>11. ASSUME NEW p \in Senders, SignalSend(p)
         PROVE  SignalInv' /\ UNCHANGED <<traced, target, sigstop, reported>>
    <2>1. /\ UNCHANGED <<mainVars, handlerVars, target, traced, sigstop, reported>>
          /\ pending' \in {pending, p}
          /\ \E r \in {"failure", "success", "killed"} : sent' = [sent EXCEPT ![p] = r]
      BY <1>11 DEF SignalSend, Arrives
    <2>2. /\ pending' \in Senders \union {None}
          /\ sent' \in [Senders -> {"nothing", "success", "failure", "killed"}]
      BY <1>0, <2>1 DEF SignalValues
    <2> QED BY <2>1, <2>2, OutsideInv
  <1> QED
    BY <1>1, <1>2, <1>3, <1>4, <1>5, <1>6, <1>7, <1>8, <1>9, <1>10, <1>11, Zenon
       DEF ProcessStep, KernelStep, Others

(* The script finds them as it left them. *)
LEMMA ProcessKeeps ==
  ASSUME IInv, ProcessStep \/ Others,
         UNCHANGED <<wpc, where, mem, offset, lost, raced, stale>>
  PROVE  IInv'
  <1>0. Flags /\ SignalInv /\ WriterValues /\ TraceInv /\ ReportInv /\ FoundInv
    BY DEF IInv
  <1>1. SignalInv' /\ traced' = traced
    BY <1>0, ProcessInv
  <1>2. \/ UNCHANGED <<target, sigstop, reported>>
        \/ target \notin Dead /\ target' \in Dead /\ UNCHANGED <<sigstop, reported>>
        \/ Stops
        \/ ~ traced /\ sigstop /\ target = "running" /\ target' = "stopped"
             /\ sigstop' = FALSE /\ reported' = reported
    BY <1>0, ProcessInv
  <1>3. Flags'
    BY <1>0, <1>1, <1>2 DEF Flags, Stops
  <1>4. WriterValues' /\ FoundInv'
    <2>1. reported' \in Senders \union {None}
      BY <1>0, <1>2 DEF WriterValues, Stops
    <2> QED BY <1>0, <2>1 DEF WriterValues, FoundInv, Offsets, Found
  <1>5. TraceInv' /\ ReportInv'
    <2>1. wpc \in {"attach", "wait", "maps", "read", "write", "detach", "done"}
      BY <1>0 DEF WriterValues
    <2>2. CASE UNCHANGED <<target, sigstop, reported>>
      BY <1>0, <1>1, <2>2 DEF TraceInv, ReportInv
    <2>3. CASE target \notin Dead /\ target' \in Dead /\ UNCHANGED <<sigstop, reported>>
      BY <1>0, <1>1, <2>3 DEF TraceInv, ReportInv, Dead
    <2>4. CASE Stops
      <3>1. TraceInv'
        BY <1>0, <1>1, <2>1, <2>4 DEF TraceInv, Stops, Dead
      <3>2. ReportInv'
        BY <1>0, <1>1, <2>1, <2>4 DEF TraceInv, ReportInv, Stops, Dead
      <3> QED BY <3>1, <3>2
    <2>5. CASE /\ ~ traced /\ sigstop /\ target = "running" /\ target' = "stopped"
               /\ sigstop' = FALSE /\ reported' = reported
      BY <1>0, <1>1, <2>1, <2>5 DEF TraceInv, ReportInv, Dead
    <2> QED BY <1>2, <2>2, <2>3, <2>4, <2>5
  <1> QED BY <1>1, <1>3, <1>4, <1>5 DEF IInv
-----------------------------------------------------------------------------
(* The script.                                                             *)

LEMMA AttachInv ==
  ASSUME IInv, Attach
  PROVE  IInv'
  <1>0. Flags /\ SignalInv /\ WriterValues /\ TraceInv /\ ReportInv /\ FoundInv
    BY DEF IInv
  <1>1. /\ wpc = "attach" /\ wpc' \in {"detach", "wait"}
        /\ UNCHANGED <<mainVars, handlerVars, pending, target, reported, sent,
                       where, mem, offset, lost, raced, stale>>
        /\ \/ wpc' = "detach" /\ traced' = traced /\ sigstop' = sigstop
           \/ wpc' = "wait" /\ traced' = TRUE /\ sigstop' = TRUE
    BY DEF Attach
  <1>2. SignalInv'
    BY <1>0, <1>1, OutsideInv DEF SignalInv, SignalValues
  <1>3. Flags'
    BY <1>0, <1>1 DEF Flags
  <1>4. WriterValues' /\ FoundInv'
    BY <1>0, <1>1 DEF WriterValues, FoundInv
  <1>5. TraceInv' /\ ReportInv'
    BY <1>0, <1>1 DEF TraceInv, ReportInv
  <1> QED BY <1>2, <1>3, <1>4, <1>5 DEF IInv

LEMMA WaitpidInv ==
  ASSUME IInv, Waitpid
  PROVE  IInv'
  <1>0. Flags /\ SignalInv /\ WriterValues /\ TraceInv /\ ReportInv /\ FoundInv
    BY DEF IInv
  <1>1. /\ wpc = "wait" /\ wpc' = "maps"
        /\ target = "stopped" \/ target \in Dead
        /\ UNCHANGED <<processVars, where, mem, offset, lost, stale>>
        /\ raced' = (target = "stopped" /\ sigstop)
    BY DEF Waitpid, WaitReturns
  <1>2. UNCHANGED <<prog, pc, disp, saved, handler, from, caught, pending, target,
                    traced, sigstop, reported, sent>>
    BY <1>1 DEF processVars, mainVars, handlerVars, kernelVars
  <1>3. SignalInv'
    BY <1>0, <1>2, OutsideInv DEF SignalInv, SignalValues, mainVars, handlerVars
  <1>4. Flags'
    <2>1. raced' \in BOOLEAN
      BY <1>1
    <2> QED BY <1>0, <1>2, <2>1 DEF Flags
  <1>5. WriterValues' /\ FoundInv'
    BY <1>0, <1>1, <1>2 DEF WriterValues, FoundInv
  <1>6. TraceInv' /\ ReportInv'
    BY <1>0, <1>1, <1>2 DEF TraceInv, ReportInv, Dead
  <1> QED BY <1>3, <1>4, <1>5, <1>6 DEF IInv

LEMMA FindHeapInv ==
  ASSUME IInv, FindHeap
  PROVE  IInv'
  <1>0. Flags /\ SignalInv /\ WriterValues /\ TraceInv /\ ReportInv /\ FoundInv
    BY DEF IInv
  <1>1. /\ wpc = "maps" /\ wpc' \in {"detach", "read"}
        /\ where' \in {where, "exe", "heap"}
        /\ UNCHANGED <<processVars, mem, offset, lost, raced, stale>>
    BY DEF FindHeap
  <1>2. UNCHANGED <<prog, pc, disp, saved, handler, from, caught, pending, target,
                    traced, sigstop, reported, sent>>
    BY <1>1 DEF processVars, mainVars, handlerVars, kernelVars
  <1>3. SignalInv'
    BY <1>0, <1>2, OutsideInv DEF SignalInv, SignalValues, mainVars, handlerVars
  <1>4. Flags'
    BY <1>0, <1>1, <1>2 DEF Flags
  <1>5. WriterValues' /\ FoundInv'
    BY <1>0, <1>1, <1>2 DEF WriterValues, FoundInv
  <1>6. TraceInv' /\ ReportInv'
    BY <1>0, <1>1, <1>2 DEF TraceInv, ReportInv, Dead
  <1> QED BY <1>3, <1>4, <1>5, <1>6 DEF IInv

(* Only a process that goes on is read, and the string is found in what    *)
(* was read.                                                               *)
LEMMA ReadHeapInv ==
  ASSUME IInv, ReadHeap
  PROVE  IInv'
  <1>0. Flags /\ SignalInv /\ WriterValues /\ TraceInv /\ ReportInv /\ FoundInv
    BY DEF IInv
  <1>1. /\ wpc = "read" /\ wpc' \in {"detach", "write"}
        /\ mem' \in Contents \/ mem' = <<>>
        /\ wpc' = "detach" => offset' = offset
        /\ wpc' = "write" => Offsets(mem') # {} /\ offset' = Found(mem')
        /\ UNCHANGED <<processVars, where, lost, raced, stale>>
    BY DEF ReadHeap
  <1>2. UNCHANGED <<prog, pc, disp, saved, handler, from, caught, pending, target,
                    traced, sigstop, reported, sent>>
    BY <1>1 DEF processVars, mainVars, handlerVars, kernelVars
  <1>3. SignalInv'
    BY <1>0, <1>2, OutsideInv DEF SignalInv, SignalValues, mainVars, handlerVars
  <1>4. Flags'
    BY <1>0, <1>1, <1>2 DEF Flags
  <1>5. WriterValues'
    <2>1. <<>> \in Seq(Nat) /\ Contents \subseteq Seq(Nat)
      BY HeapWriterAssumption
    <2>2. mem' \in Seq(Nat)
      BY <1>1, <2>1, Zenon
    <2>3. wpc' = "write" => offset' \in Nat
      BY <1>1, <2>2, FoundFact
    <2> QED BY <1>0, <1>1, <1>2, <2>2, <2>3 DEF WriterValues
  <1>6. FoundInv'
    BY <1>1 DEF FoundInv, Found, Offsets
  <1>7. TraceInv' /\ ReportInv'
    BY <1>0, <1>1, <1>2 DEF TraceInv, ReportInv, Dead
  <1> QED BY <1>3, <1>4, <1>5, <1>6, <1>7 DEF IInv

LEMMA WriteHeapInv ==
  ASSUME IInv, NEW bytes \in Replacements, WriteHeap(bytes)
  PROVE  IInv'
  <1>0. Flags /\ SignalInv /\ WriterValues /\ TraceInv /\ ReportInv /\ FoundInv
    BY DEF IInv
  <1>1. /\ wpc = "write" /\ wpc' = "detach"
        /\ \/ mem' = mem
           \/ mem' = Overwritten(mem, bytes \o Padding(bytes))
        /\ UNCHANGED <<processVars, where, offset, lost, raced, stale>>
    BY DEF WriteHeap
  <1>2. UNCHANGED <<prog, pc, disp, saved, handler, from, caught, pending, target,
                    traced, sigstop, reported, sent>>
    BY <1>1 DEF processVars, mainVars, handlerVars, kernelVars
  <1>3. SignalInv'
    BY <1>0, <1>2, OutsideInv DEF SignalInv, SignalValues, mainVars, handlerVars
  <1>4. Flags'
    BY <1>0, <1>1, <1>2 DEF Flags
  <1>5. WriterValues'
    <2>1. mem \in Seq(Nat) /\ offset \in Nat /\ bytes \in Seq(Nat)
      BY <1>0, HeapWriterAssumption DEF WriterValues
    <2>2. bytes \o Padding(bytes) \in Seq(Nat)
      BY <2>1, PaddingFact
    <2>3. Overwritten(mem, bytes \o Padding(bytes)) \in Seq(Nat)
      BY <2>1, <2>2, OverwrittenFact
    <2>4. mem' \in Seq(Nat)
      BY <1>1, <2>1, <2>3, Zenon
    <2> QED BY <1>0, <1>1, <1>2, <2>4 DEF WriterValues
  <1>6. FoundInv'
    BY <1>1 DEF FoundInv
  <1>7. TraceInv' /\ ReportInv'
    BY <1>0, <1>1, <1>2 DEF TraceInv, ReportInv, Dead
  <1> QED BY <1>3, <1>4, <1>5, <1>6, <1>7 DEF IInv

LEMMA DetachInv ==
  ASSUME IInv, Detach
  PROVE  IInv'
  <1>0. Flags /\ SignalInv /\ WriterValues /\ TraceInv /\ ReportInv /\ FoundInv
    BY DEF IInv
  <1>1. /\ wpc = "detach" /\ wpc' = "done" /\ traced' = FALSE
        /\ target' = IF traced /\ target = "stopped" THEN "running" ELSE target
        /\ lost' = IF traced /\ target = "stopped" THEN reported ELSE lost
        /\ reported' = None /\ mem' = <<>> /\ offset' = 0
        /\ UNCHANGED <<mainVars, handlerVars, pending, sigstop, sent, where, raced, stale>>
    BY DEF Detach
  <1>2. SignalInv'
    BY <1>0, <1>1, OutsideInv DEF SignalInv, SignalValues
  <1>3. Flags'
    BY <1>0, <1>1 DEF Flags
  <1>4. WriterValues' /\ FoundInv'
    <2>1. <<>> \in Seq(Nat)
      OBVIOUS
    <2>2. lost' \in Senders \union {None}
      BY <1>0, <1>1 DEF WriterValues
    <2> QED BY <1>0, <1>1, <2>1, <2>2 DEF WriterValues, FoundInv
  <1>5. TraceInv' /\ ReportInv'
    <2>1. target \in {"running", "stopped"} \union Dead
      BY <1>0 DEF SignalInv, SignalValues
    <2>2. CASE traced /\ target = "stopped"
      BY <1>0, <1>1, <2>2 DEF TraceInv, ReportInv, Dead
    <2>3. CASE ~ (traced /\ target = "stopped")
      BY <1>0, <1>1, <2>1, <2>3 DEF TraceInv, ReportInv, Dead
    <2> QED BY <2>2, <2>3
  <1> QED BY <1>2, <1>3, <1>4, <1>5 DEF IInv

(* Another thread writes: the process itself stands still. *)
LEMMA TargetWritesInv ==
  ASSUME IInv, TargetWrites
  PROVE  IInv'
  <1>0. Flags /\ SignalInv /\ WriterValues /\ TraceInv /\ ReportInv /\ FoundInv
    BY DEF IInv
  <1>1. /\ wpc = "write" /\ target \notin Dead /\ mem' \in Contents
        /\ stale' = IF target = "running" THEN "itself" ELSE "thread"
        /\ UNCHANGED <<processVars, wpc, where, offset, lost, raced>>
    BY DEF TargetWrites
  <1>2. UNCHANGED <<prog, pc, disp, saved, handler, from, caught, pending, target,
                    traced, sigstop, reported, sent>>
    BY <1>1 DEF processVars, mainVars, handlerVars, kernelVars
  <1>3. SignalInv'
    BY <1>0, <1>2, OutsideInv DEF SignalInv, SignalValues, mainVars, handlerVars
  <1>4. Flags'
    BY <1>0, <1>1, <1>2 DEF Flags
  <1>5. stale' = "thread"
    BY <1>0, <1>1 DEF TraceInv
  <1>6. WriterValues' /\ FoundInv'
    BY <1>0, <1>1, <1>2, <1>5, HeapWriterAssumption DEF WriterValues, FoundInv
  <1>7. TraceInv' /\ ReportInv'
    BY <1>0, <1>1, <1>2 DEF TraceInv, ReportInv, Dead
  <1> QED BY <1>3, <1>4, <1>6, <1>7 DEF IInv

LEMMA StutterInv == IInv /\ UNCHANGED vars => IInv'
  BY DEF IInv, Flags, SignalInv, SignalValues, PlaceInv, DispInv, SuspendInv, EndInv,
         WriterValues, TraceInv, ReportInv, FoundInv, vars, processVars, mainVars, handlerVars, kernelVars

THEOREM WriterInvariant == Spec => []IInv
  <1>1. ASSUME IInv, [Next]_vars PROVE IInv'
    <2>1. CASE Writer
      BY <1>1, <2>1, AttachInv, WaitpidInv, FindHeapInv, ReadHeapInv, WriteHeapInv,
         DetachInv DEF Writer
    <2>2. CASE Process
      BY <1>1, <2>2, ProcessKeeps, TargetWritesInv DEF Process
    <2>3. CASE Done \/ UNCHANGED vars
      BY <1>1, <2>3, StutterInv DEF Done
    <2> QED BY <1>1, <2>1, <2>2, <2>3 DEF Next
  <1> QED BY <1>1, InitIInv, PTL DEF Spec
-----------------------------------------------------------------------------
(* A process whose handler is installed dies of the signal inside          *)
(* current_handler_signal and after the one that 6-suspend.c catches, and  *)
(* nowhere else, and only a signal that came in pause() ends 6-suspend.c.  *)
THEOREM DiesNowhereElse == Spec => []DiesUnguarded
  <1>1. IInv => DiesUnguarded
    BY DEF IInv, SignalInv, EndInv, SuspendInv, DiesUnguarded
  <1> QED BY <1>1, WriterInvariant, PTL

(* The script leaves the process running and with all its signals, unless  *)
(* one came before the attach had stopped it.                              *)
THEOREM LeftAsFound == Spec => []LeftRunning
  <1>1. IInv => LeftRunning
    <2> SUFFICES ASSUME IInv PROVE LeftRunning
      OBVIOUS
    <2>0. Flags /\ SignalValues /\ WriterValues /\ TraceInv /\ ReportInv
      BY DEF IInv, SignalInv
    <2>1. SignalsTypeOK
      <3>1. {pending, from, reported} \subseteq Senders \union {None}
        BY <2>0 DEF SignalValues, WriterValues
      <3> QED BY <2>0, <3>1, Zenon DEF SignalsTypeOK, SignalValues, Flags
    <2>2. TypeOK
      <3>1. stale \in {"nobody", "thread", "itself"}
        BY <2>0 DEF WriterValues
      <3> QED BY <2>0, <2>1, <3>1, Zenon DEF TypeOK, WriterValues, Flags
    <2>3. wpc = "done" /\ target \notin Dead =>
            IF raced THEN lost # None
            ELSE target = "running" /\ ~ sigstop /\ lost = None
      BY <2>0 DEF TraceInv, ReportInv
    <2> QED BY <2>2, <2>3 DEF LeftRunning
  <1> QED BY <1>1, WriterInvariant, PTL
-----------------------------------------------------------------------------
(* A position has the string if and only if it is one of the offsets.      *)
LEMMA OffsetsFact ==
  ASSUME NEW s \in Seq(Nat)
  PROVE  Offsets(s) = {i \in DOMAIN s :
                         \A k \in DOMAIN Search :
                           i + k - 1 \in DOMAIN s /\ s[i + k - 1] = Search[k]}
  <1>1. /\ Search \in Seq(Nat) /\ Len(Search) \in Nat \ {0}
        /\ DOMAIN Search = 1 .. Len(Search)
        /\ DOMAIN s = 1 .. Len(s) /\ Len(s) \in Nat
    BY HeapWriterAssumption
  <1>2. ASSUME NEW i \in 1 .. Len(s), i + Len(Search) - 1 <= Len(s)
        PROVE  SubSeq(s, i, i + Len(Search) - 1) = Search
                 <=> \A k \in 1 .. Len(Search) : s[i + k - 1] = Search[k]
    <2> DEFINE sub == SubSeq(s, i, i + Len(Search) - 1)
    <2>1. sub \in Seq(Nat) /\ Len(sub) = Len(Search)
      BY <1>1, <1>2
    <2>2. \A k \in 1 .. Len(Search) : sub[k] = s[i + k - 1]
      BY <1>1, <1>2
    <2> HIDE DEF sub
    <2>3. sub = Search <=> \A k \in 1 .. Len(Search) : sub[k] = Search[k]
      BY <1>1, <2>1
    <2> QED BY <2>2, <2>3 DEF sub
  <1>3. ASSUME NEW i
        PROVE  i \in 1 .. Len(s) - Len(Search) + 1
                 <=> /\ i \in 1 .. Len(s)
                     /\ \A k \in 1 .. Len(Search) : i + k - 1 \in 1 .. Len(s)
    BY <1>1
  <1>4. ASSUME NEW i
        PROVE  i \in Offsets(s)
                 <=> /\ i \in 1 .. Len(s)
                     /\ \A k \in 1 .. Len(Search) :
                          i + k - 1 \in 1 .. Len(s) /\ s[i + k - 1] = Search[k]
    <2>1. i \in Offsets(s) <=> /\ i \in 1 .. Len(s) - Len(Search) + 1
                              /\ SubSeq(s, i, i + Len(Search) - 1) = Search
      BY DEF Offsets
    <2>2. i \in 1 .. Len(s) - Len(Search) + 1 => i + Len(Search) - 1 <= Len(s)
      BY <1>1
    <2> QED BY <1>2, <1>3, <2>1, <2>2
  <1> QED BY <1>1, <1>4

(* What is written goes over the first occurrence of the string and over   *)
(* nothing else, unless another thread changed memory or the replacement   *)
(* is longer.                                                              *)
LEMMA EditFact ==
  ASSUME IInv, NEW bytes \in Replacements, WriteHeap(bytes), target \notin Dead,
         stale = "nobody", Len(bytes) <= Len(Search)
  PROVE  EditsInPlace(bytes)
  <1>0. mem \in Seq(Nat) /\ bytes \in Seq(Nat)
    BY HeapWriterAssumption DEF IInv, WriterValues
  <1>1. /\ mem' = Overwritten(mem, bytes \o Padding(bytes))
        /\ Offsets(mem) # {} /\ offset = Found(mem) /\ offset \in Nat
    BY FoundFact, <1>0 DEF IInv, FoundInv, WriteHeap
  <1>2. offset = Min({i \in DOMAIN mem :
                        \A k \in DOMAIN Search :
                          i + k - 1 \in DOMAIN mem /\ mem[i + k - 1] = Search[k]})
    BY <1>0, <1>1, OffsetsFact DEF Found
  <1>3. /\ DOMAIN mem = 1 .. Len(mem) /\ Len(mem) \in Nat
        /\ Len(bytes) \in Nat /\ Len(Search) \in Nat
    BY <1>0, HeapWriterAssumption
  <1> DEFINE pad == Padding(bytes)
  <1>4. /\ pad \in Seq(Nat) /\ Len(pad) = Len(Search) - Len(bytes)
        /\ \A k \in 1 .. Len(pad) : pad[k] = NUL
    BY <1>0, PaddingFact
  <1> HIDE DEF pad
  <1>5. /\ Len(bytes \o pad) = Len(Search)
        /\ \A k \in 1 .. Len(Search) :
             (bytes \o pad)[k] = IF k <= Len(bytes) THEN bytes[k] ELSE NUL
    BY <1>0, <1>3, <1>4
  <1>6. \A i \in DOMAIN mem :
          mem'[i] = IF i - offset \in 0 .. Len(bytes \o pad) - 1
                    THEN (bytes \o pad)[i - offset + 1] ELSE mem[i]
    BY <1>1, Zenon DEF Overwritten, pad
  <1>7. \A i \in DOMAIN mem :
          mem'[i] = IF i - offset \notin 0 .. Len(Search) - 1 THEN mem[i]
                    ELSE IF i - offset \in 0 .. Len(bytes) - 1 THEN bytes[i - offset + 1]
                    ELSE NUL
    <2> TAKE i \in DOMAIN mem
    <2>1. i \in Nat /\ offset \in Nat
      BY <1>1, <1>3
    <2>2. CASE i - offset \notin 0 .. Len(Search) - 1
      BY <1>5, <1>6, <2>2
    <2>3. CASE i - offset \in 0 .. Len(Search) - 1
      <3>1. i - offset + 1 \in 1 .. Len(Search)
        BY <2>1, <2>3, <1>3
      <3>2. mem'[i] = (bytes \o pad)[i - offset + 1]
        BY <1>5, <1>6, <2>3
      <3>3. mem'[i] = IF i - offset + 1 <= Len(bytes) THEN bytes[i - offset + 1] ELSE NUL
        BY <1>5, <3>1, <3>2
      <3>4. i - offset + 1 <= Len(bytes) <=> i - offset \in 0 .. Len(bytes) - 1
        BY <1>3, <2>1, <2>3
      <3> QED BY <2>3, <3>3, <3>4
    <2> QED BY <2>2, <2>3
  <1> QED BY <1>2, <1>7, Zenon DEF EditsInPlace

THEOREM EditedInPlace == Spec => HeapEdited
  <1>1. ASSUME IInv
        PROVE  \A bytes \in Replacements :
                 WriteHeap(bytes) /\ target \notin Dead =>
                   /\ stale # "itself"
                   /\ stale = "nobody" /\ Len(bytes) <= Len(Search) => EditsInPlace(bytes)
    <2>1. stale # "itself"
      BY <1>1 DEF IInv, WriterValues
    <2> QED BY <1>1, <2>1, EditFact
  <1> QED BY <1>1, WriterInvariant, PTL DEF HeapEdited
=============================================================================
