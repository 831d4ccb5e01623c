------------------------------ MODULE TaskPool ------------------------------
(***************************************************************************)
(* The task pool of multithreading/22-prime_factors.c: a list of tasks,    *)
(* and threads that all run exec_tasks() over it until a pass over the     *)
(* list finds nothing left to start.                                       *)
(*                                                                         *)
(* The program that creates the tasks, starts and joins the threads and    *)
(* then destroys the list is not in the repository; it is modelled from    *)
(* the interface (create_task, exec_tasks as a thread entry, destroy_task  *)
(* as the callback of list_destroy).  The result of an entry function is   *)
(* NULL or a list it allocated, named after the task and the thread.       *)
(***************************************************************************)
EXTENDS Tprintf

CONSTANTS
  NTasks,   \* how many tasks the program creates
  NULL      \* the null pointer

Tasks == 1 .. NTasks
Results == Tasks \X Threads

ASSUME TaskPoolAssumption ==
  /\ NTasks \in Nat
  /\ NULL \notin Results
  /\ Lines = Tasks \X {"Started", "Success", "Failure"}

VARIABLES
  phase,        \* what the program does: build, run, destroy, end; or fault
  created,      \* how many tasks it has tried to create
  tasks,        \* the list, in order
  given,        \* whether exec_tasks was given the list or NULL
  status,       \* the status field of a task; "absent" or "gone" off the heap
  result,       \* the result field of a task
  lock,         \* the owner of a task's mutex, or Nobody
  wpc,          \* where each thread is in exec_tasks
  pos,          \* its current_node, as a position in the list
  processed,    \* its processed_task_in_pass
  runs,         \* history: how often the entry function of a task was called
  runner,       \* history: the thread that set the task STARTED
  liveResults   \* the results on the heap

driverVars == <<phase, created, tasks, given>>
taskVars == <<status, result, lock, runs, runner, liveResults>>
workerVars == <<wpc, pos, processed>>
vars == <<tprintfVars, driverVars, taskVars, workerVars>>

Init ==
  /\ TprintfInit
  /\ phase = "build" /\ created = 0 /\ tasks = <<>> /\ given = TRUE
  /\ status = [k \in Tasks |-> "absent"]
  /\ result = [k \in Tasks |-> NULL]
  /\ lock = [k \in Tasks |-> Nobody]
  /\ runs = [k \in Tasks |-> 0]
  /\ runner = [k \in Tasks |-> Nobody]
  /\ liveResults = {}
  /\ wpc = [w \in Threads |-> "enter"]
  /\ pos = [w \in Threads |-> 1]
  /\ processed = [w \in Threads |-> FALSE]

Task(w) == tasks[pos[w]]
Settled == {"SUCCESS", "FAILURE"}
-----------------------------------------------------------------------------
(* Mutated forms, for the sensitivity of the properties.                   *)

TaskLockFreeIgnored(k) == TRUE
UnlockPassedForgotten(w) == UNCHANGED lock
NextNodeBreak(w) == Len(tasks) + 1
OutcomeSwapped(r) == IF r = NULL THEN "SUCCESS" ELSE "FAILURE"
WordCopied(s) == "Success"
AtPassStartKept(w) == processed[w]
DestroyResultForgotten(k) == UNCHANGED liveResults
-----------------------------------------------------------------------------
(* The program around the pool.                                            *)

MoreTasks == created < NTasks

(* list_add(tasks, k): a node at the end of the list.  node_create does    *)
(* not test what malloc returned and writes through it: without memory the *)
(* program ends here, by a fault.                                          *)
ListAdd(k) ==
  \/ tasks' = Append(tasks, k) /\ UNCHANGED <<faults, phase>>
  \/ Fault /\ phase' = "fault" /\ UNCHANGED tasks

(* create_task(k), which is PENDING, and list_add; or NULL, and nothing to *)
(* add, when malloc or pthread_mutex_init fails.                           *)
CreateTask ==
  /\ phase = "build" /\ MoreTasks
  /\ created' = created + 1
  /\ \/ /\ status' = [status EXCEPT ![created + 1] = "PENDING"]
        /\ ListAdd(created + 1)
     \/ /\ Fault
        /\ UNCHANGED <<phase, status, tasks>>
  /\ UNCHANGED <<tpc, line, mutex, stdout, given, result, lock, runs, runner,
                 liveResults, workerVars>>

(* pthread_create of every thread, with the list or with NULL. *)
Launch ==
  /\ phase = "build" /\ created = NTasks
  /\ phase' = "run"
  /\ given' \in BOOLEAN
  /\ UNCHANGED <<tprintfVars, created, tasks, taskVars, workerVars>>

Join ==
  /\ phase = "run"
  /\ \A w \in Threads : wpc[w] = "done"
  /\ phase' = "destroy"
  /\ UNCHANGED <<tprintfVars, created, tasks, given, taskVars, workerVars>>

DestroyResult(k) ==
  liveResults' = IF result[k] = NULL THEN liveResults
                                     ELSE liveResults \ {result[k]}

(* list_destroy(tasks, destroy_task): the first task of what is left. *)
DestroyTask ==
  /\ phase = "destroy" /\ tasks # <<>>
  /\ LET k == Head(tasks) IN
       /\ DestroyResult(k)
       /\ status' = [status EXCEPT ![k] = "gone"]
       /\ result' = [result EXCEPT ![k] = NULL]
  /\ tasks' = Tail(tasks)
  /\ UNCHANGED <<tprintfVars, phase, created, given, lock, runs, runner,
                 workerVars>>

Finish ==
  /\ phase = "destroy" /\ tasks = <<>>
  /\ phase' = "end"
  /\ UNCHANGED <<tprintfVars, created, tasks, given, taskVars, workerVars>>

Driver == CreateTask \/ Launch \/ Join \/ DestroyTask \/ Finish
-----------------------------------------------------------------------------
(* exec_tasks, one step per access to what the threads share.  A thread    *)
(* that is inside tprintf takes only the steps of tprintf.                 *)

At(w, pc) == wpc[w] = pc /\ tpc[w] = "idle" /\ phase = "run"
Goto(w, pc) == wpc' = [wpc EXCEPT ![w] = pc]

(* pthread_mutex_lock(&task->lock) waits for this.  Lines 86 and 95 do not *)
(* look at its result: for a default mutex that create_task initialised    *)
(* and that the thread does not hold it has no error to return.            *)
TaskLockFree(k) == lock[k] = Nobody

NextNode(w) == pos[w] + 1

(* processed_task_in_pass at the start of a pass. *)
AtPassStart(w) == FALSE

(* `if (!tasks) return NULL`, else the first pass begins. *)
Enter(w) ==
  /\ At(w, "enter")
  /\ Goto(w, IF given THEN "scan" ELSE "done")
  /\ pos' = [pos EXCEPT ![w] = 1]
  /\ processed' = [processed EXCEPT ![w] = AtPassStart(w)]
  /\ UNCHANGED <<tprintfVars, driverVars, taskVars>>

LockTask(w) ==
  /\ At(w, "scan") /\ pos[w] <= Len(tasks)
  /\ TaskLockFree(Task(w))
  /\ lock' = [lock EXCEPT ![Task(w)] = w]
  /\ Goto(w, "check")
  /\ UNCHANGED <<tprintfVars, driverVars, status, result, runs, runner,
                 liveResults, pos, processed>>

(* pthread_mutex_unlock of a task that is passed over. *)
UnlockPassed(w) == lock' = [lock EXCEPT ![Task(w)] = Nobody]

(* `if (status == PENDING)`: the branch is taken on what was read, and a   *)
(* task that is not PENDING is unlocked and passed over.                   *)
Check(w) ==
  /\ At(w, "check")
  /\ \/ /\ status[Task(w)] = "PENDING"
        /\ Goto(w, "claim")
        /\ UNCHANGED <<lock, pos>>
     \/ /\ status[Task(w)] # "PENDING"
        /\ UnlockPassed(w)
        /\ pos' = [pos EXCEPT ![w] = NextNode(w)]
        /\ Goto(w, "scan")
  /\ UNCHANGED <<tprintfVars, driverVars, status, result, runs, runner,
                 liveResults, processed>>

(* STARTED, unlock, and the call that logs "Started". *)
Claim(w) ==
  /\ At(w, "claim")
  /\ status' = [status EXCEPT ![Task(w)] = "STARTED"]
  /\ runner' = [runner EXCEPT ![Task(w)] = w]
  /\ lock' = [lock EXCEPT ![Task(w)] = Nobody]
  /\ TprintfCall(w, <<pos[w], "Started">>)
  /\ Goto(w, "run")
  /\ UNCHANGED <<driverVars, result, runs, liveResults, pos, processed>>

(* result = entry(param), with no lock held. *)
RunEntry(w) ==
  /\ At(w, "run")
  /\ \/ /\ result' = [result EXCEPT ![Task(w)] = <<Task(w), w>>]
        /\ liveResults' = liveResults \union {<<Task(w), w>>}
     \/ /\ result' = [result EXCEPT ![Task(w)] = NULL]
        /\ UNCHANGED liveResults
  /\ runs' = [runs EXCEPT ![Task(w)] = @ + 1]
  /\ Goto(w, "relock")
  /\ UNCHANGED <<tprintfVars, driverVars, status, lock, runner, pos, processed>>

Relock(w) ==
  /\ At(w, "relock")
  /\ TaskLockFree(Task(w))
  /\ lock' = [lock EXCEPT ![Task(w)] = w]
  /\ Goto(w, "settle")
  /\ UNCHANGED <<tprintfVars, driverVars, status, result, runs, runner,
                 liveResults, pos, processed>>

Outcome(r) == IF r = NULL THEN "FAILURE" ELSE "SUCCESS"
Word(s) == IF s = "SUCCESS" THEN "Success" ELSE "Failure"

(* The final status, and the call that logs it: the lock stays held. *)
Settle(w) ==
  /\ At(w, "settle")
  /\ LET s == Outcome(result[Task(w)]) IN
       /\ status' = [status EXCEPT ![Task(w)] = s]
       /\ TprintfCall(w, <<pos[w], Word(s)>>)
  /\ Goto(w, "release")
  /\ UNCHANGED <<driverVars, result, lock, runs, runner, liveResults, pos,
                 processed>>

(* unlock, processed_task_in_pass = 1, next node. *)
Release(w) ==
  /\ At(w, "release")
  /\ lock' = [lock EXCEPT ![Task(w)] = Nobody]
  /\ processed' = [processed EXCEPT ![w] = TRUE]
  /\ pos' = [pos EXCEPT ![w] = NextNode(w)]
  /\ Goto(w, "scan")
  /\ UNCHANGED <<tprintfVars, driverVars, status, result, runs, runner,
                 liveResults>>

(* The end of a pass: another one if this one started something. *)
EndPass(w) ==
  /\ At(w, "scan") /\ pos[w] > Len(tasks)
  /\ \/ /\ processed[w]
        /\ pos' = [pos EXCEPT ![w] = 1]
        /\ processed' = [processed EXCEPT ![w] = AtPassStart(w)]
        /\ UNCHANGED wpc
     \/ /\ ~ processed[w]
        /\ Goto(w, "done")
        /\ UNCHANGED <<pos, processed>>
  /\ UNCHANGED <<tprintfVars, driverVars, taskVars>>

Log(w) == TprintfStep(w) /\ UNCHANGED <<driverVars, taskVars, workerVars>>

Worker(w) ==
  \/ Enter(w) \/ LockTask(w) \/ Check(w) \/ Claim(w) \/ RunEntry(w)
  \/ Relock(w) \/ Settle(w) \/ Release(w) \/ EndPass(w) \/ Log(w)

(* The program has ended: nothing is left to do. *)
Exited == phase \in {"end", "fault"} /\ UNCHANGED vars

Next == Driver \/ (\E w \in Threads : Worker(w)) \/ Exited

(* Every thread is scheduled.  Weak fairness is enough: a thread that      *)
(* waits for a lock is passed only finitely often by the others.           *)
Fairness == WF_vars(Driver) /\ \A w \in Threads : WF_vars(Worker(w))

Spec == Init /\ [][Next]_vars /\ Fairness
-----------------------------------------------------------------------------

TypeOK ==
  /\ TprintfTypeOK
  /\ phase \in {"build", "run", "destroy", "end", "fault"}
  /\ created \in 0 .. NTasks
  /\ tasks \in Seq(Tasks)
  /\ given \in BOOLEAN
  /\ status \in [Tasks -> {"absent", "PENDING", "STARTED", "gone"}
                            \union Settled]
  /\ result \in [Tasks -> Results \union {NULL}]
  /\ lock \in [Tasks -> Threads \union {Nobody}]
  /\ wpc \in [Threads -> {"enter", "scan", "check", "claim", "run", "relock",
                          "settle", "release", "done"}]
  /\ pos \in [Threads -> Nat \ {0}]
  /\ processed \in [Threads -> BOOLEAN]
  /\ runs \in [Tasks -> Nat]
  /\ runner \in [Tasks -> Threads \union {Nobody}]
  /\ liveResults \subseteq Results

(* Each lock is held by the thread whose code is between its lock and its  *)
(* unlock, and by nobody else: along every branch and every error path of  *)
(* exec_tasks and tprintf a thread gives back exactly the lock it took, on *)
(* the task it took it of.  So no mutex is held any more when the list, or *)
(* tprintf_mutex with the program, is destroyed.                           *)
LocksPaired ==
  /\ TypeOK
  /\ \A w \in Threads, k \in Tasks :
       lock[k] = w <=> /\ wpc[w] \in {"check", "claim", "settle", "release"}
                       /\ Task(w) = k
  /\ \A w \in Threads : mutex = w <=> tpc[w] \in {"id", "text", "unlock"}
  /\ phase # "run" => mutex = Nobody /\ \A k \in Tasks : lock[k] = Nobody

(* No entry function is called twice, although the call is made with the   *)
(* task unlocked and every thread passes over every task, several times.   *)
RunAtMostOnce == \A k \in Tasks : runs[k] <= 1

(* "Threads exit when no PENDING tasks remain after a full scan": once one *)
(* thread has left, every task it was given has been started, by it or by  *)
(* another thread; and a task with no thread left running is settled, with *)
(* the status its result calls for.                                        *)
NobodyQuitsEarly ==
  given =>
    \A i \in DOMAIN tasks :
      /\ (\E w \in Threads : wpc[w] = "done")
           => status[tasks[i]] \in {"STARTED"} \union Settled
      /\ (Threads # {} /\ \A w \in Threads : wpc[w] = "done")
           => status[tasks[i]] = Outcome(result[tasks[i]])

(* The log agrees with the tasks: for each task at most one thread ever    *)
(* says Started, and at most one says how it ended, after its own Started  *)
(* and never against the status the task has.                              *)
LogTellsTheTruth ==
  \A i, j \in 1 .. Len(stdout) :
    LET a == stdout[i]
        b == stdout[j]
    IN
    /\ a.part = "text" /\ phase = "run" =>
         LET s == status[tasks[a.line[1]]] IN
         /\ a.line[2] = "Started" => s \in {"STARTED"} \union Settled
         /\ a.line[2] = "Success" => s = "SUCCESS"
         /\ a.line[2] = "Failure" => s = "FAILURE"
    /\ (i < j /\ a.part = "text" /\ b.part = "text" /\ a.line[1] = b.line[1])
         => /\ a.thread = b.thread
            /\ a.line[2] = "Started" /\ b.line[2] # "Started"

(* Every list an entry function returned is freed with its task: none is   *)
(* lost to a second run, to a failure or to the status of the task.        *)
NothingLeaked ==
  /\ phase = "end" => liveResults = {}
  /\ \A r \in liveResults : \E i \in DOMAIN tasks : result[tasks[i]] = r

(* Once a task is settled its result does not change until it is freed:    *)
(* the write at line 93, made with no lock held, is never seen by a reader *)
(* of a settled task.                                                      *)
ResultsAreFinal ==
  [][\A k \in Tasks :
       status[k] \in Settled /\ status'[k] # "gone"
         => status'[k] = status[k] /\ result'[k] = result[k]]_vars

(* However the threads interleave and whichever of their calls fail, they  *)
(* return, the tasks are destroyed and the program ends: two threads never *)
(* wait for each other's locks, and the passes over the list come to an    *)
(* end.  A program without memory for a node ends before it starts them.   *)
Termination == <>(phase \in {"end", "fault"})

(* A result is published with the final status of its task. *)
publishedResult ==
  [k \in Tasks |-> IF status[k] \in Settled THEN result[k] ELSE NULL]

Board == INSTANCE TaskBoard WITH result <- publishedResult

(* The pool keeps the promise of TaskBoard, which has the fairness that a  *)
(* started task is settled.                                                *)
BoardSpec == Board!Spec

(* Its safety part, without the fairness. *)
BoardSafety == Board!Init /\ [][Board!Next]_(Board!boardVars)
=============================================================================
