------------------------------- MODULE Tracee -------------------------------
(***************************************************************************)
(* The process that the strace tools trace, as the kernel shows it to its  *)
(* tracer: a run of system calls with a ptrace stop at the entry and one   *)
(* at the exit of each, and stops for signals.  The kernel is not in the   *)
(* repository; only what the tracers see of it is modelled:                *)
(*   - a successful execve is followed, after its exit stop, by a stop     *)
(*     with a plain SIGTRAP, as no tracer sets PTRACE_O_TRACEEXEC;         *)
(*   - the tracers resume with signal 0, so a signal is dropped, and an    *)
(*     instruction that faults faults again;                               *)
(*   - SIGKILL ends the process at any moment, even in a stop.             *)
(***************************************************************************)
EXTENDS Naturals, Sequences

CONSTANTS
  MaxCalls,     \* bound on the system calls of the process
  MaxSignals,   \* bound on the signals it receives
  CanBeKilled   \* whether SIGKILL may arrive

WRITE == 1
IOCTL == 16
EXECVE == 59
EXIT == 60
EXIT_GROUP == 231
SIGPROCMASK == 14   \* stands for every call no tracer looks at
Exits == {EXIT, EXIT_GROUP}
NO_CALL == 0        \* orig_rax when the process stopped outside of a call
Numbers == {WRITE, IOCTL, EXECVE, SIGPROCMASK} \union Exits

VARIABLES
  tool,       \* the program that traces: strace_0, strace_1, strace_2 or main
  tracee,     \* where the process is: in a stop, running, or ended
  calls,      \* the system calls it has entered: number and returned value
  signals,    \* how many signals it has received
  crashing    \* whether it executes an instruction that faults

traceeVars == <<tracee, calls, signals, crashing>>

Stops == {"start", "entry", "exit", "exectrap", "sigtrap", "signal"}
Running == {"user", "kernel", "loading"}
Ended == {"exited", "killed", "reaped"}

nr == calls[Len(calls)].nr
ret == calls[Len(calls)].ret

(* orig_rax: after a SIGTRAP the number of the last call may be stale, or  *)
(* there is none.                                                          *)
OrigRax == IF tracee = "sigtrap" THEN {nr, NO_CALL} ELSE {nr}

Execs == {i \in DOMAIN calls : calls[i].nr = EXECVE /\ calls[i].ret = "ok"}
Loaded == Execs # {}

(* It stops itself, or a call of its prologue fails and it exits. *)
TraceeInit ==
  /\ tracee \in {"start", "exited"}
  /\ calls = <<>> /\ signals = 0 /\ crashing = FALSE

(* What it may call next.  The child of each tool calls execve, after what *)
(* raise() restores in strace_2; when execve fails it exits, and main and  *)
(* strace_2 print the error first.  A program that was loaded calls what   *)
(* it likes and exits before the bound.                                    *)
NextCalls ==
  IF Loaded THEN IF Len(calls) + 1 < MaxCalls THEN Numbers ELSE Exits
  ELSE IF \E i \in DOMAIN calls : calls[i].nr = EXECVE
    THEN {EXIT_GROUP} \union
         (IF tool \in {"main", "strace_2"} /\ Len(calls) + 1 < MaxCalls
            THEN {WRITE} ELSE {})
  ELSE {EXECVE} \union
       (IF tool = "strace_2" /\ calls = <<>> THEN {SIGPROCMASK} ELSE {})

TraceeCalls ==
  /\ tracee = "user" /\ ~ crashing
  /\ \E n \in NextCalls : calls' = Append(calls, [nr |-> n, ret |-> "none"])
  /\ tracee' = "entry"
  /\ UNCHANGED <<signals, crashing>>

TraceeReturns ==
  /\ tracee = "kernel"
  /\ \/ /\ nr \in Exits
        /\ tracee' = "exited"
        /\ UNCHANGED calls
     \/ /\ nr \notin Exits
        /\ tracee' = "exit"
        /\ \E r \in {"ok", "error"} : calls' = [calls EXCEPT ![Len(calls)].ret = r]
  /\ UNCHANGED <<signals, crashing>>

TraceeLoads ==
  /\ tracee = "loading"
  /\ tracee' = "exectrap"
  /\ UNCHANGED <<calls, signals, crashing>>

(* The loaded program gets a SIGTRAP, another signal, or faults. *)
TraceeSignal ==
  /\ tracee = "user" /\ Loaded
  /\ \/ /\ ~ crashing /\ signals < MaxSignals
        /\ signals' = signals + 1
        /\ tracee' \in {"sigtrap", "signal"}
        /\ crashing' = FALSE \/ (tracee' = "signal" /\ crashing' = TRUE)
     \/ /\ crashing
        /\ tracee' = "signal"
        /\ UNCHANGED <<signals, crashing>>
  /\ UNCHANGED calls

TraceeKilled ==
  /\ CanBeKilled /\ tracee \notin Ended
  /\ tracee' = "killed"
  /\ UNCHANGED <<calls, signals, crashing>>

(* What the process does until its next stop or its end. *)
TraceeStep == TraceeCalls \/ TraceeReturns \/ TraceeLoads \/ TraceeSignal

(* ptrace(PTRACE_SYSCALL) on a stopped process. *)
Resume ==
  /\ tracee \in Stops
  /\ tracee' = IF tracee = "entry" THEN "kernel"
               ELSE IF tracee = "exit" /\ nr = EXECVE /\ ret = "ok" THEN "loading"
               ELSE "user"
  /\ UNCHANGED <<calls, signals, crashing>>

TraceeTypeOK ==
  /\ tracee \in Stops \union Running \union Ended
  /\ calls \in Seq([nr : Numbers, ret : {"none", "ok", "error"}])
  /\ signals \in 0 .. MaxSignals
  /\ crashing \in BOOLEAN
=============================================================================
