------------------------------- MODULE Strace -------------------------------
(***************************************************************************)
(* The tracers of strace/: strace_0.c and strace_1.c, which have the same  *)
(* loop and print a number or a name, strace_2.c, which prints the         *)
(* returned value too, and the skeleton main.c.  Each is a loop of         *)
(* ptrace(PTRACE_SYSCALL) and waitpid, and must tell from the stops alone  *)
(* whether a call is entered or left.                                      *)
(*                                                                         *)
(* A line that is printed is kept as the number and the value it shows and *)
(* the call the tracee was in.                                             *)
(***************************************************************************)
EXTENDS Tracee

CONSTANT Tools    \* the tools to be run, one per behavior

ASSUME StraceAssumption ==
  /\ Tools \subseteq {"strace_0", "strace_1", "strace_2", "main"}
  /\ MaxCalls \in Nat /\ MaxSignals \in Nat /\ CanBeKilled \in BOOLEAN

VARIABLES
  pc,           \* where the tracer is
  sysgood,      \* whether PTRACE_O_TRACESYSGOOD is set
  entryFlag,    \* print_on_entry_flag, is_syscall_entry, or in_syscall = 0
  startup,      \* in_execve_startup_phase, or not seen_execve_exit
  trapCount,    \* execve_trap_count
  current,      \* current_syscall_nr
  out           \* the lines printed

flagVars == <<entryFlag, startup, trapCount, current>>
tracerVars == <<pc, sysgood, flagVars, out>>
vars == <<tool, traceeVars, tracerVars>>

Numbering == {"strace_0", "strace_1"}

Init ==
  /\ tool \in Tools
  /\ TraceeInit
  /\ pc = "first" /\ sysgood = FALSE
  /\ entryFlag = TRUE /\ startup = TRUE /\ trapCount = 0 /\ current = NO_CALL
  /\ out = <<>>
-----------------------------------------------------------------------------
(* Mutated forms, for the sensitivity of the properties.                   *)

AfterEsrchOn == "resume"
HandledCallsOnly == tracee \in {"entry", "exit"}
StartupTrapsTwo == 2
ToggledOff(flag) == FALSE
EndsProcessGroupOnly(n) == n = EXIT_GROUP
-----------------------------------------------------------------------------
PrintLine(n, r) ==
  out' = Append(out, [nr |-> n, ret |-> r, call |-> Len(calls)])

(* The first waitpid: `if (WIFEXITED(status)) return`. *)
FirstWait ==
  /\ pc = "first"
  /\ \/ /\ tracee = "exited"
        /\ pc' = "end" /\ tracee' = "reaped"
     \/ /\ tracee = "start"
        /\ pc' = IF tool = "strace_2" THEN "options" ELSE "resume"
        /\ UNCHANGED tracee
     \/ /\ tracee = "killed"
        /\ pc' = IF tool = "strace_2" THEN "options" ELSE "resume"
        /\ tracee' = "reaped"
  /\ UNCHANGED <<tool, calls, signals, crashing, sysgood, flagVars, out>>

(* ptrace(PTRACE_SETOPTIONS) of strace_2; an error is reported and no      *)
(* option is set.                                                          *)
SetOptions ==
  /\ pc = "options"
  /\ sysgood' = (tracee \in Stops)
  /\ pc' = "resume"
  /\ UNCHANGED <<tool, traceeVars, flagVars, out>>

AfterEsrch == "end"

(* ptrace(PTRACE_SYSCALL): ESRCH, when the process is gone, leaves the     *)
(* loop.                                                                   *)
PtraceSyscall ==
  /\ pc = "resume"
  /\ \/ Resume /\ pc' = "wait"
     \/ tracee \in Ended /\ pc' = AfterEsrch /\ UNCHANGED traceeVars
  /\ UNCHANGED <<tool, sysgood, flagVars, out>>

(* Which stops reach the handler: a SIGTRAP, or with TRACESYSGOOD a        *)
(* SIGTRAP that carries the system call bit.                               *)
Handled ==
  IF tool = "strace_2" THEN sysgood /\ tracee \in {"entry", "exit"}
                       ELSE tracee \in {"entry", "exit", "exectrap", "sigtrap"}

(* Any other stop is left alone, and the process set going again. *)
AfterOtherStop == "resume"

(* waitpid returns once the process has stopped or ended.  A process that  *)
(* was killed is neither stopped nor exited: the loop goes on.             *)
Wait ==
  /\ pc = "wait"
  /\ \/ /\ tracee = "exited"
        /\ pc' = "end" /\ tracee' = "reaped"
     \/ /\ tracee = "killed"
        /\ pc' = "resume" /\ tracee' = "reaped"
     \/ /\ tracee \in Stops
        /\ pc' = IF Handled THEN "regs" ELSE AfterOtherStop
        /\ UNCHANGED tracee
  /\ UNCHANGED <<tool, calls, signals, crashing, sysgood, flagVars, out>>

(* ptrace(PTRACE_GETREGS) fails when the process was killed meanwhile. *)
GetRegsFails ==
  /\ pc = "regs" /\ tracee \in Ended
  /\ pc' = "end"
  /\ UNCHANGED <<tool, traceeVars, sysgood, flagVars, out>>

Handles(t) == pc = "regs" /\ tracee \in Stops /\ tool \in t

StartupTraps == 3
Toggled(flag) == ~ flag

(* strace_0 and strace_1, while execve is starting the program: its first  *)
(* stop is printed, and the third one ends the phase.                      *)
NumberStartup ==
  /\ Handles(Numbering) /\ startup /\ nr = EXECVE
  /\ trapCount' = trapCount + 1
  /\ IF trapCount' = 1 THEN PrintLine(nr, "none") ELSE UNCHANGED out
  /\ startup' = (trapCount' < StartupTraps)
  /\ entryFlag' = (trapCount' >= StartupTraps \/ Toggled(entryFlag))
  /\ pc' = "resume"
  /\ UNCHANGED <<tool, traceeVars, sysgood, current>>

(* strace_0 and strace_1 afterwards: exit_group is always printed, and of  *)
(* the other stops every second one.                                       *)
NumberStop ==
  /\ Handles(Numbering)
  /\ \E n \in OrigRax :
       /\ ~ (startup /\ n = EXECVE)
       /\ LET flag == startup \/ entryFlag IN
            /\ IF flag \/ n = EXIT_GROUP THEN PrintLine(n, "none")
                                         ELSE UNCHANGED out
            /\ entryFlag' = IF n = EXIT_GROUP THEN flag ELSE Toggled(flag)
  /\ startup' = FALSE
  /\ pc' = "resume"
  /\ UNCHANGED <<tool, traceeVars, sysgood, trapCount, current>>

EndsProcess(n) == n \in Exits

(* strace_2 with is_syscall_entry set: what comes before execve is         *)
(* skipped, and an exit, which has no exit stop, is printed at once.       *)
ReturnEntry ==
  /\ Handles({"strace_2"}) /\ entryFlag
  /\ current' = nr
  /\ \/ /\ startup /\ nr # EXECVE
        /\ UNCHANGED <<entryFlag, out>>
     \/ /\ ~ (startup /\ nr # EXECVE) /\ EndsProcess(nr)
        /\ PrintLine(nr, "?")
        /\ UNCHANGED entryFlag
     \/ /\ ~ (startup /\ nr # EXECVE) /\ ~ EndsProcess(nr)
        /\ entryFlag' = FALSE
        /\ UNCHANGED out
  /\ pc' = "resume"
  /\ UNCHANGED <<tool, traceeVars, sysgood, startup, trapCount>>

(* strace_2 with is_syscall_entry clear: the number saved at the entry     *)
(* with the value of rax now; ioctl is skipped, except before the end of   *)
(* the first execve.                                                       *)
ReturnExit ==
  /\ Handles({"strace_2"}) /\ ~ entryFlag
  /\ entryFlag' = TRUE
  /\ startup' = (startup /\ current # EXECVE)
  /\ IF (startup /\ current = EXECVE) \/ (~ startup /\ current # IOCTL)
       THEN PrintLine(current, ret)
       ELSE UNCHANGED out
  /\ pc' = "resume"
  /\ UNCHANGED <<tool, traceeVars, sysgood, trapCount, current>>

(* main.c: nothing is printed when in_syscall = 0, and an exit ends the    *)
(* loop when in_syscall = 1.                                               *)
MainStop ==
  /\ Handles({"main"})
  /\ \/ /\ ~ entryFlag /\ EndsProcess(nr)
        /\ PrintLine(nr, "?")
        /\ pc' = "end"
        /\ UNCHANGED entryFlag
     \/ /\ entryFlag \/ ~ EndsProcess(nr)
        /\ entryFlag' = ~ entryFlag
        /\ pc' = "resume"
        /\ UNCHANGED out
  /\ UNCHANGED <<tool, traceeVars, sysgood, startup, trapCount, current>>

Tracer ==
  \/ FirstWait \/ SetOptions \/ PtraceSyscall \/ Wait \/ GetRegsFails
  \/ NumberStartup \/ NumberStop \/ ReturnEntry \/ ReturnExit \/ MainStop

(* The process, for as long as it is traced. *)
Traced ==
  /\ pc # "end"
  /\ TraceeStep \/ TraceeKilled
  /\ UNCHANGED <<tool, tracerVars>>

Done == pc = "end" /\ UNCHANGED vars

Next == Tracer \/ Traced \/ Done

(* The tracer runs, and so does the process: a program that computes       *)
(* forever is not considered.                                              *)
Fairness ==
  /\ WF_vars(Tracer)
  /\ WF_vars(pc # "end" /\ TraceeStep /\ UNCHANGED <<tool, tracerVars>>)

Spec == Init /\ [][Next]_vars /\ Fairness
-----------------------------------------------------------------------------

TypeOK ==
  /\ TraceeTypeOK
  /\ tool \in Tools
  /\ pc \in {"first", "options", "resume", "wait", "regs", "end"}
  /\ sysgood \in BOOLEAN /\ entryFlag \in BOOLEAN /\ startup \in BOOLEAN
  /\ trapCount \in 0 .. 3
  /\ current \in Numbers \union {NO_CALL}
  /\ out \in Seq([nr : Numbers \union {NO_CALL}, ret : {"none", "ok", "error", "?"}, call : Nat])

(* The calls the process has left and the tracer has gone past. *)
Left ==
  {i \in DOMAIN calls :
     i < Len(calls)
       \/ tracee \in {"user", "loading", "exectrap", "sigtrap", "signal"}}

Printed(i) == {j \in DOMAIN out : out[j].call = i}

(* "Prints the syscall number for each intercepted syscall" (README.md,    *)
(* step 0), for the calls that return: strace_0 and strace_1 miss none,    *)
(* whatever extra stops execve and SIGTRAP bring and however often the     *)
(* alternation of entries and exits is turned over by them.                *)
NoReturnedCallMissed ==
  tool \in Numbering => \A i \in Left : Printed(i) # {}

(* Without such extra stops, and with an execve that works or fails, each  *)
(* call is printed once, when it is entered, in order.                     *)
OneLinePerCall ==
  tool \in Numbering /\ signals = 0 /\ Execs \subseteq {1} =>
    /\ Len(out) <= Len(calls)
    /\ \A j \in DOMAIN out : out[j].call = j /\ out[j].nr = calls[j].nr
    /\ tracee \notin {"entry", "killed", "reaped"} => Len(out) = Len(calls)

(* What strace_2 should have printed of the calls. *)
Shown(i) ==
  /\ \E j \in 1 .. i : calls[j].nr = EXECVE
  /\ calls[i].nr # IOCTL
  /\ i \in Left \/ (tracee \in {"kernel", "exited"} /\ calls[i].nr \in Exits)

(* is_syscall_entry agrees with the stop it is used at, once strace_2 has  *)
(* seen the first execve return.                                           *)
EntryFlagRight ==
  tool = "strace_2" /\ pc = "regs" /\ tracee \in Stops /\ ~ startup
    => (entryFlag <=> tracee = "entry")

(* strace_2 prints exactly the calls from the first execve on that are not *)
(* ioctl, in order, each with its own number and its own value, however    *)
(* many signals, SIGTRAPs and further execves come between the stops, and  *)
(* its flag is right at every stop.                                        *)
ReturnsPaired ==
  /\ TypeOK /\ EntryFlagRight
  /\ tool = "strace_2" /\ tracee \notin {"entry", "exit", "killed", "reaped"} =>
       /\ {out[j].call : j \in DOMAIN out} = {i \in DOMAIN calls : Shown(i)}
       /\ \A j \in DOMAIN out :
            LET c == calls[out[j].call] IN
            /\ out[j].nr = c.nr
            /\ out[j].ret = IF c.nr \in Exits THEN "?" ELSE c.ret
            /\ \A k \in 1 .. j - 1 : out[k].call < out[j].call

(* The skeleton prints " = ?" once at the most, for a call that exits.  A  *)
(* program that was loaded without further traps and is not killed gets    *)
(* its line, for the call it exits by: the line is out when the tracer has *)
(* gone past the stop at its entry, and when the tracer ends.  A program   *)
(* that could not be loaded gets none.                                     *)
MainReportsExit ==
  tool = "main" =>
    /\ Len(out) <= 1
    /\ \A j \in DOMAIN out : out[j].nr \in Exits
    /\ (/\ signals = 0 /\ Execs = {1} /\ tracee \notin {"killed", "reaped"}
        /\ \/ pc = "end"
           \/ nr \in Exits /\ ~ (tracee = "entry" /\ pc \in {"wait", "regs"}))
         => out = <<[nr |-> nr, ret |-> "?", call |-> Len(calls)]>>
    /\ Execs = {} => out = <<>>

(* The tracer ends, whether the process exits, is killed in a stop or      *)
(* while it runs, or never starts.  The exception is a program that        *)
(* faults: its signal is never delivered, so it faults for ever.  And      *)
(* whatever it stops for, it is set going again, or its tracer ends.       *)
TracerEnds ==
  /\ <>(pc = "end" \/ crashing)
  /\ \A s \in Stops : tracee = s ~> (tracee # s \/ pc = "end")
-----------------------------------------------------------------------------
(* What the repository says of its tracers, and the code does not do.      *)

(* "Prints the syscall number for each intercepted syscall" (README.md,    *)
(* line 20), the call that ends the process included.                      *)
EveryCallPrinted ==
  tool = "strace_0" /\ tracee = "exited"
    => \A i \in DOMAIN calls : Printed(i) # {}
=============================================================================
