------------------------------- MODULE Signals -------------------------------
(***************************************************************************)
(* signals/: a process that handles a signal in one of the ways of this    *)
(* directory, and processes that send it that signal, which is SIGQUIT for *)
(* trace_signal_sender and SIGINT for the others.  The process installs    *)
(* its handler and then asks for the current one again and again, or       *)
(* suspends itself.                                                        *)
(*                                                                         *)
(* The kernel is not in the repository.  A signal of which one is pending  *)
(* already is merged with it; a signal is blocked while its handler runs;  *)
(* a traced process stops for its tracer where a signal would be           *)
(* delivered, and of two signals the lower number comes first.  signal()   *)
(* and sigaction() do not fail for a signal that exists.                   *)
(***************************************************************************)
EXTENDS Naturals, Sequences

CONSTANTS
  Senders,      \* the processes that send a signal, each once
  None

ASSUME SignalsAssumption == None \notin Senders

VARIABLES
  prog,         \* what the process does
  pc,           \* where its main flow is
  disp,         \* the disposition of the signal
  saved,        \* handler, in the function that asks for the current one
  pending,      \* the sender of the signal that is pending, or None
  handler,      \* where the handler is, "none" when it does not run
  from,         \* info->si_pid of the signal that is handled
  caught,       \* the signals that were caught: what is printed of each
  target,       \* the process: running, stopped, or how it ended
  traced,       \* whether it has a tracer
  sigstop,      \* whether a SIGSTOP is pending
  reported,     \* the sender of the signal it stopped for, None if it was SIGSTOP
  sent          \* what each sender reports

mainVars == <<prog, pc, disp, saved>>
handlerVars == <<handler, from, caught>>
kernelVars == <<pending, target, traced, sigstop, reported>>
processVars == <<mainVars, handlerVars, kernelVars, sent>>

Programs == {"handle_signal", "handle_sigaction", "suspend", "trace_signal_sender"}
Dead == {"killed", "exited", "SIGKILL"}

(* A disposition is inherited through execve if it is not a handler. *)
SignalsInit ==
  /\ prog \in Programs /\ pc = "set"
  /\ disp \in {"default", "ignore"} /\ saved = "default"
  /\ handler = "none" /\ from = None /\ caught = <<>>
  /\ pending = None /\ target = "running" /\ traced = FALSE /\ sigstop = FALSE
  /\ reported = None
  /\ sent = [p \in Senders |-> "nothing"]
-----------------------------------------------------------------------------
(* Mutated forms, for the sensitivity of the properties.                   *)

DispAfterQueryReset == "default"
AfterPauseAgain == "pause"
-----------------------------------------------------------------------------
(* The main flow, which waits while a handler runs.                        *)

Runs == target = "running" /\ handler = "none"

Installs(program, next) ==
  /\ Runs /\ pc = "set" /\ prog = program
  /\ disp' = "handler" /\ pc' = next
  /\ UNCHANGED <<prog, saved, handlerVars, kernelVars, sent>>

HandleSignal == Installs("handle_signal", "idle")
HandleSigaction == Installs("handle_sigaction", "idle")
TraceSignalSender == Installs("trace_signal_sender", "idle")
SuspendMain == Installs("suspend", "suspending")

(* current_handler_signal: signal(SIGINT, SIG_DFL), and back. *)
CurrentHandlerSignal ==
  /\ Runs /\ prog = "handle_signal"
  /\ \/ /\ pc = "idle"
        /\ saved' = disp /\ disp' = "default" /\ pc' = "asking"
     \/ /\ pc = "asking"
        /\ disp' = saved /\ pc' = "idle" /\ UNCHANGED saved
  /\ UNCHANGED <<prog, handlerVars, kernelVars, sent>>

DispAfterQuery == disp

(* current_handler_sigaction: one call, with no new action. *)
CurrentHandlerSigaction ==
  /\ Runs /\ prog = "handle_sigaction" /\ pc = "idle"
  /\ saved' = disp /\ disp' = DispAfterQuery
  /\ UNCHANGED <<prog, pc, handlerVars, kernelVars, sent>>

Pause ==
  /\ Runs /\ pc = "suspending"
  /\ pc' = "pause"
  /\ UNCHANGED <<prog, disp, saved, handlerVars, kernelVars, sent>>

AfterPause == "end"

Exit ==
  /\ Runs /\ pc = "end"
  /\ target' = "exited"
  /\ UNCHANGED <<mainVars, handlerVars, pending, traced, sigstop, reported, sent>>
-----------------------------------------------------------------------------
(* The handlers.  pause() returns when one has returned.                   *)

Prints(program) ==
  /\ target = "running" /\ handler = "print" /\ prog = program
  /\ caught' = Append(caught, [by |-> from, at |-> pc])

HandlerReturns ==
  /\ handler' = "none" /\ from' = None
  /\ pc' = IF pc = "pause" THEN AfterPause ELSE pc

SigintHandler ==
  /\ Prints("handle_signal") /\ HandlerReturns
  /\ UNCHANGED <<prog, disp, saved, kernelVars, sent>>

HandleSigint ==
  /\ Prints("handle_sigaction") /\ HandlerReturns
  /\ UNCHANGED <<prog, disp, saved, kernelVars, sent>>

HandleSigquit ==
  /\ Prints("trace_signal_sender") /\ HandlerReturns
  /\ UNCHANGED <<prog, disp, saved, kernelVars, sent>>

(* That of 6-suspend.c sets SIG_DFL before it returns. *)
SuspendHandler ==
  /\ prog = "suspend"
  /\ \/ Prints("suspend") /\ handler' = "reset" /\ UNCHANGED <<pc, disp, from>>
     \/ /\ target = "running" /\ handler = "reset"
        /\ disp' = "default" /\ HandlerReturns /\ UNCHANGED caught
  /\ UNCHANGED <<prog, saved, kernelVars, sent>>
-----------------------------------------------------------------------------
(* The kernel and the senders.                                             *)

Deliverable == Runs /\ pending # None

Deliver ==
  /\ Deliverable /\ ~ traced
  /\ pending' = None
  /\ handler' = IF disp = "handler" THEN "print" ELSE "none"
  /\ from' = IF disp = "handler" THEN pending ELSE None
  /\ target' = IF disp = "default" THEN "killed" ELSE target
  /\ UNCHANGED <<mainVars, caught, traced, sigstop, reported, sent>>

Arrives(p) == pending' = IF pending = None THEN p ELSE pending

(* 7-signal_send.c and 8-signal_send.sh: a usage error, or kill().  For an *)
(* argument that is no number atoi gives 0, which is the process group of  *)
(* the sender itself.  A process that has ended is found until its parent  *)
(* has waited for it.                                                      *)
SignalSend(p) ==
  /\ sent[p] = "nothing"
  /\ \/ /\ sent' = [sent EXCEPT ![p] = "failure"]
        /\ UNCHANGED pending
     \/ /\ sent' = [sent EXCEPT ![p] = "success"]
        /\ IF target \in Dead THEN UNCHANGED pending ELSE Arrives(p)
     \/ /\ sent' = [sent EXCEPT ![p] = "killed"]
        /\ prog # "trace_signal_sender"
        /\ UNCHANGED pending \/ (target \notin Dead /\ Arrives(p))
  /\ UNCHANGED <<mainVars, handlerVars, target, traced, sigstop, reported>>

(* SIGKILL, from anyone. *)
SigKill ==
  /\ target \notin Dead
  /\ target' = "SIGKILL"
  /\ UNCHANGED <<mainVars, handlerVars, pending, traced, sigstop, reported, sent>>

(* A traced process stops where a signal would be delivered, and one that  *)
(* is traced no more stops for a SIGSTOP of its former tracer.             *)
StopsForTracer ==
  /\ traced /\ target = "running"
  /\ \/ Deliverable /\ pending' = None /\ reported' = pending /\ UNCHANGED sigstop
     \/ ~ Deliverable /\ sigstop /\ sigstop' = FALSE /\ UNCHANGED <<pending, reported>>
  /\ target' = "stopped"
  /\ UNCHANGED <<mainVars, handlerVars, traced, sent>>

StopsForGood ==
  /\ ~ traced /\ target = "running" /\ sigstop /\ ~ Deliverable
  /\ target' = "stopped" /\ sigstop' = FALSE
  /\ UNCHANGED <<mainVars, handlerVars, pending, traced, reported, sent>>

KernelStep == Deliver \/ StopsForTracer \/ StopsForGood

(* What the process and the kernel do of their own accord. *)
ProcessStep ==
  \/ HandleSignal \/ HandleSigaction \/ TraceSignalSender \/ SuspendMain
  \/ CurrentHandlerSignal \/ CurrentHandlerSigaction \/ Pause \/ Exit
  \/ SigintHandler \/ HandleSigint \/ HandleSigquit \/ SuspendHandler
  \/ KernelStep

Others == SigKill \/ \E p \in Senders : SignalSend(p)
-----------------------------------------------------------------------------

SignalsTypeOK ==
  /\ prog \in Programs
  /\ pc \in {"set", "idle", "asking", "suspending", "pause", "end"}
  /\ {disp, saved} \subseteq {"default", "ignore", "handler"}
  /\ handler \in {"none", "print", "reset"}
  /\ {pending, from, reported} \subseteq Senders \union {None}
  /\ caught \in Seq([by : Senders, at : {"set", "idle", "asking", "suspending", "pause"}])
  /\ target \in {"running", "stopped"} \union Dead
  /\ traced \in BOOLEAN /\ sigstop \in BOOLEAN
  /\ sent \in [Senders -> {"nothing", "success", "failure", "killed"}]

(* A process that has installed its handler dies of the signal at two      *)
(* places only: inside current_handler_signal, which is at SIG_DFL for a   *)
(* moment, and after the one signal that 6-suspend.c catches.  The program *)
(* of 6-suspend.c leaves pause() for a signal that came while it was       *)
(* there, and for no other: one that came before is caught and the process *)
(* stays.                                                                  *)
DiesUnguarded ==
  /\ target = "killed" =>
       \/ pc = "set"
       \/ prog = "handle_signal" /\ pc = "asking"
       \/ prog = "suspend" /\ Len(caught) = 1
  /\ prog = "suspend" => Len(caught) <= 1
  /\ target = "exited" => prog = "suspend" /\ caught[1].at = "pause"
=============================================================================
