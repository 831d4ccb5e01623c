------------------------------ MODULE Tprintf ------------------------------
(***************************************************************************)
(* tprintf() of multithreading/20-tprintf.c: a printf that prefixes what a *)
(* thread writes with "[<thread id>] ".  One line is two separate printf   *)
(* calls on stdout, kept together by the mutex tprintf_mutex.              *)
(*                                                                         *)
(* Only the order of the fragments on stdout is kept: a fragment is either *)
(* the identifier of a thread or the text of its message, and both name    *)
(* the line they belong to.  fflush() decides when the fragments leave the *)
(* process, not their order, and is part of the step that unlocks.         *)
(***************************************************************************)
EXTENDS Naturals, Sequences, FiniteSets

CONSTANTS
  Threads,    \* the threads that may call tprintf
  Lines,      \* the messages they may pass
  Nobody,     \* the owner of a mutex that is free, and no message at all
  MaxFaults   \* bound on the calls of libc that fail

ASSUME TprintfAssumption ==
  /\ Nobody \notin Threads \union Lines
  /\ MaxFaults \in Nat

VARIABLES
  tpc,      \* tpc[t]: where thread t is inside tprintf, "idle" when outside
  line,     \* line[t]: the message of the call thread t is in, or Nobody
  mutex,    \* the owner of tprintf_mutex, or Nobody
  stdout,   \* the fragments printed so far, in order
  faults    \* how many calls of libc have failed

tprintfVars == <<tpc, line, mutex, stdout, faults>>

Fragment == [thread : Threads, part : {"id", "text"}, line : Lines]

TprintfInit ==
  /\ tpc = [t \in Threads |-> "idle"]
  /\ line = [t \in Threads |-> Nobody]
  /\ mutex = Nobody
  /\ stdout = <<>>
  /\ faults = 0

(* A call of libc that fails: one of the MaxFaults this model allows. *)
Fault ==
  /\ faults < MaxFaults
  /\ faults' = faults + 1

-----------------------------------------------------------------------------
(* Mutated forms, for the sensitivity of the properties.                   *)

MutexFreeIgnored == TRUE

-----------------------------------------------------------------------------
(* pthread_mutex_lock waits for this. *)
MutexFree == mutex = Nobody

PrintPart(t, part) ==
  stdout' = Append(stdout, [thread |-> t, part |-> part, line |-> line[t]])

(* The step of the caller that calls tprintf with message m. *)
TprintfCall(t, m) ==
  /\ tpc' = [tpc EXCEPT ![t] = "enter"]
  /\ line' = [line EXCEPT ![t] = m]
  /\ UNCHANGED <<mutex, stdout, faults>>

Return(t) ==
  /\ tpc' = [tpc EXCEPT ![t] = "idle"]
  /\ line' = [line EXCEPT ![t] = Nobody]

(* pthread_mutex_lock: it returns with the mutex, or fails and tprintf     *)
(* returns -1 with nothing printed.                                        *)
TprintfLock(t) ==
  /\ tpc[t] = "enter"
  /\ \/ /\ MutexFree
        /\ mutex' = t
        /\ tpc' = [tpc EXCEPT ![t] = "id"]
        /\ UNCHANGED <<line, faults>>
     \/ /\ Fault
        /\ Return(t)
        /\ UNCHANGED mutex
  /\ UNCHANGED stdout

(* printf("[%lu] ", tid).  When it fails the function unlocks and returns. *)
TprintfId(t) ==
  /\ tpc[t] = "id"
  /\ \/ /\ PrintPart(t, "id")
        /\ tpc' = [tpc EXCEPT ![t] = "text"]
        /\ UNCHANGED faults
     \/ /\ Fault
        /\ tpc' = [tpc EXCEPT ![t] = "unlock"]
        /\ UNCHANGED stdout
  /\ UNCHANGED <<line, mutex>>

(* vprintf(format, args): the message, or an error that leaves the         *)
(* identifier without a text and without the newline the text ends with:   *)
(* what is printed next goes on behind it.  Both paths unlock next.        *)
TprintfText(t) ==
  /\ tpc[t] = "text"
  /\ tpc' = [tpc EXCEPT ![t] = "unlock"]
  /\ \/ PrintPart(t, "text") /\ UNCHANGED faults
     \/ Fault /\ UNCHANGED stdout
  /\ UNCHANGED <<line, mutex>>

(* pthread_mutex_unlock and the return to the caller. *)
TprintfUnlock(t) ==
  /\ tpc[t] = "unlock"
  /\ mutex' = Nobody
  /\ Return(t)
  /\ UNCHANGED <<stdout, faults>>

TprintfStep(t) ==
  TprintfLock(t) \/ TprintfId(t) \/ TprintfText(t) \/ TprintfUnlock(t)

-----------------------------------------------------------------------------

TprintfTypeOK ==
  /\ tpc \in [Threads -> {"idle", "enter", "id", "text", "unlock"}]
  /\ line \in [Threads -> Lines \union {Nobody}]
  /\ mutex \in Threads \union {Nobody}
  /\ stdout \in Seq(Fragment)
  /\ faults \in 0 .. MaxFaults

(* The lines that do not begin at the beginning of a line of stdout: the   *)
(* identifier before theirs got no text.                                   *)
RunOn ==
  {i \in 2 .. Len(stdout) :
     stdout[i].part = "id" /\ stdout[i - 1].part = "id"}

(* The text of a thread follows directly on that thread's own identifier,  *)
(* whatever other threads print and whichever calls of printf fail ("Uses  *)
(* a mutex to ensure thread-safe printing to stdout").  A line goes on     *)
(* behind the lone identifier of another thread only where a vprintf had   *)
(* failed, once for each failure: the error path leaves no newline.        *)
LinesIntact ==
  /\ \A i \in 1 .. Len(stdout) :
       stdout[i].part = "text" =>
         /\ i > 1
         /\ stdout[i - 1] = [stdout[i] EXCEPT !.part = "id"]
  /\ Cardinality(RunOn) <= faults
=============================================================================
