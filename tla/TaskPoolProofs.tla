--------------------------- MODULE TaskPoolProofs ---------------------------
(***************************************************************************)
(* Proofs about the task pool, for any number of threads, tasks and        *)
(* failing calls: types, the safety invariants of TaskPool, and that every *)
(* step of the pool is a step of TaskBoard or changes nothing it can see.  *)
(*                                                                         *)
(* The safety invariants are not inductive by themselves.  IInv adds what  *)
(* each thread knows of its current task at each of its program points:    *)
(* that it holds the lock, or that it is the one who set the task STARTED. *)
(***************************************************************************)
EXTENDS TaskPool, FiniteSetTheorems, TLAPS

-----------------------------------------------------------------------------
(* tprintf: what every program that calls it can rely on, for any set of   *)
(* threads and any messages.                                               *)

(* Exactly the thread that owns the mutex is between lock and unlock. *)
MutexInv ==
  \A t \in Threads : mutex = t <=> tpc[t] \in {"id", "text", "unlock"}

(* A thread has a message while it is inside tprintf, and only then. *)
LineInv == \A t \in Threads : line[t] \in Lines <=> tpc[t] # "idle"

(* Before the text of a message is printed, the last fragment on stdout is *)
(* the identifier of the thread that prints it.                            *)
IdentifierLast ==
  \A t \in Threads :
    tpc[t] = "text" =>
      /\ stdout # <<>>
      /\ stdout[Len(stdout)] =
           [thread |-> t, part |-> "id", line |-> line[t]]

(* 1 while the last identifier on stdout has no text and will not get one. *)
Owed ==
  IF /\ stdout # <<>> /\ stdout[Len(stdout)].part = "id"
     /\ \A t \in Threads : tpc[t] # "text"
  THEN 1 ELSE 0

(* Each lone identifier was paid for by a call that failed. *)
RunOnInv == IsFiniteSet(RunOn) /\ Cardinality(RunOn) + Owed <= faults

(* The first half of LinesIntact. *)
OwnIdentifier ==
  \A i \in 1 .. Len(stdout) :
    stdout[i].part = "text" =>
      /\ i > 1
      /\ stdout[i - 1] = [stdout[i] EXCEPT !.part = "id"]

TprintfInv ==
  /\ TprintfTypeOK /\ MutexInv /\ LineInv
  /\ IdentifierLast /\ OwnIdentifier /\ RunOnInv

LEMMA TprintfIntact == TprintfInv => LinesIntact
  <1> SUFFICES ASSUME TprintfInv PROVE LinesIntact
    OBVIOUS
  <1>1. Cardinality(RunOn) \in Nat
    BY FS_CardinalityType DEF TprintfInv, RunOnInv
  <1>2. Owed \in {0, 1} /\ faults \in Nat
    BY TprintfAssumption DEF Owed, TprintfInv, TprintfTypeOK
  <1>3. Cardinality(RunOn) <= faults
    BY <1>1, <1>2 DEF TprintfInv, RunOnInv
  <1> QED BY <1>3 DEF TprintfInv, OwnIdentifier, LinesIntact

(* A step that prints nothing, and after which the threads at "text" are   *)
(* the same as before, owes no more.                                       *)
LEMMA QuietRunOn ==
  ASSUME TprintfInv, UNCHANGED stdout, faults' \in {faults, faults + 1},
         \/ \A t \in Threads : tpc'[t] = "text" <=> tpc[t] = "text"
         \/ faults' = faults + 1
  PROVE  RunOnInv'
  <1>1. RunOn' = RunOn
    BY DEF RunOn
  <1>2. Owed \in {0, 1} /\ Owed' \in {0, 1}
    BY DEF Owed
  <1>3. Owed' = Owed \/ faults' = faults + 1
    BY DEF Owed
  <1>4. Cardinality(RunOn) \in Nat /\ faults \in Nat
    BY FS_CardinalityType, TprintfAssumption
    DEF TprintfInv, RunOnInv, TprintfTypeOK
  <1>5. Cardinality(RunOn) + Owed <= faults /\ IsFiniteSet(RunOn)
    BY DEF TprintfInv, RunOnInv
  <1>6. Cardinality(RunOn) + Owed' <= faults'
    BY <1>2, <1>3, <1>4, <1>5
  <1> QED BY <1>1, <1>5, <1>6 DEF RunOnInv

(* What Append does to stdout. *)
LEMMA PrintFact ==
  ASSUME stdout \in Seq(Fragment), NEW f \in Fragment,
         stdout' = Append(stdout, f)
  PROVE  /\ stdout' \in Seq(Fragment)
         /\ Len(stdout) \in Nat
         /\ Len(stdout') = Len(stdout) + 1
         /\ stdout'[Len(stdout) + 1] = f
         /\ \A i \in 1 .. Len(stdout) : stdout'[i] = stdout[i]
  OBVIOUS

(* The invariant of tprintf holds before any thread calls it. *)
LEMMA TprintfInitInv == TprintfInit => TprintfInv
  <1> SUFFICES ASSUME TprintfInit PROVE TprintfInv
    OBVIOUS
  <1> USE TprintfAssumption DEF TprintfInit
  <1>1. TprintfTypeOK
    BY DEF TprintfTypeOK
  <1>2. MutexInv /\ LineInv /\ IdentifierLast /\ OwnIdentifier
    BY DEF MutexInv, LineInv, IdentifierLast, OwnIdentifier
  <1>3. RunOnInv
    <2>1. RunOn = {} /\ Owed = 0
      BY DEF RunOn, Owed
    <2> QED BY <2>1, FS_EmptySet DEF RunOnInv
  <1> QED BY <1>1, <1>2, <1>3 DEF TprintfInv

(* It is kept by a step that calls tprintf from outside. *)
LEMMA TprintfCallInv ==
  ASSUME TprintfInv, NEW t \in Threads, NEW m \in Lines,
         tpc[t] = "idle", TprintfCall(t, m)
  PROVE  TprintfInv'
  <1> USE TprintfAssumption DEF TprintfInv, TprintfCall, TprintfTypeOK
  <1>1. TprintfTypeOK'
    OBVIOUS
  <1>2. MutexInv'
    BY DEF MutexInv
  <1>3. LineInv'
    BY DEF LineInv
  <1>4. IdentifierLast'
    BY DEF IdentifierLast
  <1>5. OwnIdentifier'
    BY DEF OwnIdentifier
  <1>6. RunOnInv'
    BY QuietRunOn
  <1> QED BY <1>1, <1>2, <1>3, <1>4, <1>5, <1>6

(* It is kept by every step of a thread inside tprintf, whether its call   *)
(* of libc succeeds or fails.                                              *)
LEMMA TprintfStepInv ==
  ASSUME TprintfInv, NEW t \in Threads, TprintfStep(t)
  PROVE  TprintfInv'
  <1> USE TprintfAssumption DEF TprintfInv, TprintfTypeOK, Return, Fault
  <1>1. CASE TprintfLock(t)
    <2> USE <1>1 DEF TprintfLock, MutexFree
    <2>1. TprintfTypeOK' OBVIOUS
    <2>2. MutexInv' BY DEF MutexInv
    <2>3. LineInv' BY DEF LineInv
    <2>4. IdentifierLast' BY DEF IdentifierLast
    <2>5. OwnIdentifier' BY DEF OwnIdentifier
    <2>6. RunOnInv' BY QuietRunOn
    <2> QED BY <2>1, <2>2, <2>3, <2>4, <2>5, <2>6
  <1>2. CASE TprintfId(t)
    <2> USE <1>2 DEF TprintfId, PrintPart
    <2> DEFINE f == [thread |-> t, part |-> "id", line |-> line[t]]
    <2>1. line[t] \in Lines BY DEF LineInv
    <2>2. f \in Fragment /\ f.part # "text" BY <2>1 DEF Fragment
    <2> HIDE DEF f
    <2>3. TprintfTypeOK'
      <3>1. stdout' = stdout \/ stdout' = Append(stdout, f) BY DEF f
      <3>2. stdout' \in Seq(Fragment) BY <2>2, <3>1, PrintFact
      <3> QED BY <3>2
    <2>4. MutexInv' BY DEF MutexInv
    <2>5. LineInv' BY DEF LineInv
    <2>6. \A s \in Threads : s # t => tpc[s] # "text" BY DEF MutexInv
    <2>7. IdentifierLast' BY <2>6 DEF IdentifierLast
    <2>8. OwnIdentifier'
      <3>1. CASE UNCHANGED stdout BY <3>1 DEF OwnIdentifier
      <3>2. CASE stdout' = Append(stdout, f)
        <4> SUFFICES ASSUME NEW i \in 1 .. Len(stdout'),
                            stdout'[i].part = "text"
                     PROVE  /\ i > 1
                            /\ stdout'[i - 1] = [stdout'[i] EXCEPT !.part = "id"]
          BY DEF OwnIdentifier
        <4>1. i \in 1 .. Len(stdout) BY <3>2, <2>2, PrintFact
        <4> QED BY <4>1, <3>2, <2>2, PrintFact DEF OwnIdentifier
      <3> QED BY <3>1, <3>2 DEF f
    <2>9. RunOnInv'
      <3>1. CASE UNCHANGED stdout BY <3>1, QuietRunOn
      <3>2. CASE stdout' = Append(stdout, f) /\ UNCHANGED faults
        <4> DEFINE n == Len(stdout)
        <4>1. /\ n \in Nat /\ Len(stdout') = n + 1 /\ stdout'[n + 1] = f
              /\ \A i \in 1 .. n : stdout'[i] = stdout[i]
          BY <3>2, <2>2, PrintFact
        <4>2. tpc'[t] = "text"
          BY <3>2, <2>2, <4>1 DEF TprintfTypeOK
        <4>3. Owed' = 0
          BY <4>2 DEF Owed
        <4>4. f.part = "id"
          BY DEF f
        <4>5. stdout # <<>> <=> n > 0
          BY DEF TprintfTypeOK
        <4>6. CASE n > 0 /\ stdout[n].part = "id"
          <5>1. Owed = 1
            BY <2>6, <4>5, <4>6 DEF Owed, TprintfId
          <5>2. RunOn' = RunOn \union {n + 1} /\ n + 1 \notin RunOn
            BY <4>1, <4>4, <4>6 DEF RunOn
          <5>3. IsFiniteSet(RunOn) /\ Cardinality(RunOn) + 1 <= faults
            BY <5>1 DEF RunOnInv
          <5>4. /\ IsFiniteSet(RunOn \union {n + 1})
                /\ Cardinality(RunOn \union {n + 1}) = Cardinality(RunOn) + 1
            BY <5>2, <5>3, FS_AddElement
          <5>5. Cardinality(RunOn) \in Nat
            BY <5>3, FS_CardinalityType
          <5> QED BY <3>2, <4>3, <5>2, <5>3, <5>4, <5>5 DEF RunOnInv
        <4>7. CASE ~ (n > 0 /\ stdout[n].part = "id")
          <5>1. RunOn' = RunOn
            <6>1. ASSUME NEW i \in 2 .. n + 1
                  PROVE  /\ stdout'[i - 1] = stdout[i - 1]
                         /\ i # n + 1 => stdout'[i] = stdout[i] /\ i \in 2 .. n
              BY <4>1
            <6>2. n + 1 \in 2 .. n + 1 => n > 0 /\ stdout'[n] = stdout[n]
              BY <4>1
            <6>3. n + 1 \notin RunOn'
              BY <4>1, <4>7, <6>2 DEF RunOn
            <6>4. \A i \in RunOn' : i \in 2 .. n + 1 /\ i # n + 1
              BY <4>1, <6>3 DEF RunOn
            <6>5. RunOn' \subseteq RunOn
              BY <6>1, <6>4 DEF RunOn
            <6>6. RunOn \subseteq RunOn'
              BY <4>1, <6>1 DEF RunOn
            <6> QED BY <6>5, <6>6
          <5>2. Owed = 0
            BY <4>5, <4>7 DEF Owed
          <5> QED BY <3>2, <4>3, <5>1, <5>2 DEF RunOnInv
        <4> QED BY <4>6, <4>7
      <3> QED BY <3>1, <3>2 DEF f
    <2> QED BY <2>3, <2>4, <2>5, <2>7, <2>8, <2>9
  <1>3. CASE TprintfText(t)
    <2> USE <1>3 DEF TprintfText, PrintPart
    <2> DEFINE f == [thread |-> t, part |-> "text", line |-> line[t]]
    <2> DEFINE g == [thread |-> t, part |-> "id", line |-> line[t]]
    <2>1. line[t] \in Lines BY DEF LineInv
    <2>2. f \in Fragment /\ g = [f EXCEPT !.part = "id"]
      BY <2>1 DEF Fragment
    <2>3. stdout # <<>> /\ stdout[Len(stdout)] = g BY DEF IdentifierLast
    <2> HIDE DEF f, g
    <2>4. TprintfTypeOK' BY <2>2, PrintFact DEF f
    <2>5. MutexInv' BY DEF MutexInv
    <2>6. LineInv' BY DEF LineInv
    <2>7. \A s \in Threads : s # t => tpc[s] # "text" BY DEF MutexInv
    <2>8. IdentifierLast' BY <2>7 DEF IdentifierLast
    <2>9. OwnIdentifier'
      <3>1. CASE UNCHANGED stdout BY <3>1 DEF OwnIdentifier
      <3>2. CASE stdout' = Append(stdout, f)
        <4> SUFFICES ASSUME NEW i \in 1 .. Len(stdout'),
                            stdout'[i].part = "text"
                     PROVE  /\ i > 1
                            /\ stdout'[i - 1] = [stdout'[i] EXCEPT !.part = "id"]
          BY DEF OwnIdentifier
        <4>1. CASE i \in 1 .. Len(stdout)
          BY <4>1, <3>2, <2>2, PrintFact DEF OwnIdentifier
        <4>2. CASE i = Len(stdout) + 1
          BY <4>2, <3>2, <2>2, <2>3, PrintFact, SMTT(30)
        <4>3. Len(stdout') = Len(stdout) + 1 /\ Len(stdout) \in Nat
          BY <3>2, <2>2, PrintFact
        <4>4. i \in 1 .. Len(stdout) \/ i = Len(stdout) + 1
          BY <4>3
        <4> QED BY <4>1, <4>2, <4>4
      <3> QED BY <3>1, <3>2 DEF f
    <2>10. RunOnInv'
      <3>1. CASE UNCHANGED stdout /\ faults' = faults + 1
        BY <3>1, QuietRunOn
      <3>2. CASE stdout' = Append(stdout, f) /\ UNCHANGED faults
        <4> DEFINE n == Len(stdout)
        <4>1. /\ n \in Nat /\ Len(stdout') = n + 1 /\ stdout'[n + 1] = f
              /\ \A i \in 1 .. n : stdout'[i] = stdout[i]
          BY <3>2, <2>2, PrintFact
        <4>2. f.part = "text"
          BY DEF f
        <4>3. Owed' = 0
          BY <4>1, <4>2 DEF Owed
        <4>4. RunOn' = RunOn
          BY <4>1, <4>2 DEF RunOn
        <4>5. Owed = 0
          BY <1>3 DEF Owed, TprintfText
        <4> QED BY <3>2, <4>3, <4>4, <4>5 DEF RunOnInv
      <3> QED BY <3>1, <3>2 DEF f
    <2> QED BY <2>4, <2>5, <2>6, <2>8, <2>9, <2>10
  <1>4. CASE TprintfUnlock(t)
    <2> USE <1>4 DEF TprintfUnlock
    <2>1. TprintfTypeOK' OBVIOUS
    <2>2. MutexInv' BY DEF MutexInv
    <2>3. LineInv' BY DEF LineInv
    <2>4. IdentifierLast' BY DEF IdentifierLast
    <2>5. OwnIdentifier' BY DEF OwnIdentifier
    <2>6. RunOnInv' BY QuietRunOn
    <2> QED BY <2>1, <2>2, <2>3, <2>4, <2>5, <2>6
  <1> QED BY <1>1, <1>2, <1>3, <1>4 DEF TprintfStep

(* It does not depend on how many calls of libc have failed. *)
LEMMA TprintfFaultInv ==
  ASSUME TprintfInv, Fault \/ UNCHANGED faults,
         UNCHANGED <<tpc, line, mutex, stdout>>
  PROVE  TprintfInv'
  <1> USE TprintfAssumption DEF TprintfInv, Fault
  <1>1. TprintfTypeOK' BY DEF TprintfTypeOK
  <1>2. MutexInv' /\ LineInv' /\ IdentifierLast' /\ OwnIdentifier'
    BY DEF MutexInv, LineInv, IdentifierLast, OwnIdentifier
  <1>3. RunOnInv'
    BY QuietRunOn
  <1> QED BY <1>1, <1>2, <1>3

-----------------------------------------------------------------------------
(* The task pool.                                                          *)

OnTask == {"check", "claim", "run", "relock", "settle", "release"}
Owning == {"run", "relock", "settle"}
Holding == {"check", "claim", "settle", "release"}

(* Threads run between Launch and Join only, and a thread that works on a  *)
(* task points into the list.                                              *)
PhaseInv ==
  /\ \A w \in Threads : wpc[w] # "enter" => phase \notin {"build", "fault"}
  /\ \A w \in Threads : phase \in {"destroy", "end"} => wpc[w] = "done"
  /\ \A w \in Threads : wpc[w] \notin {"enter", "done"} => given
  /\ \A w \in Threads :
       wpc[w] \in OnTask => phase = "run" /\ pos[w] <= Len(tasks)
  /\ phase = "end" => tasks = <<>>

(* The list holds tasks that exist, each once, in the order they were      *)
(* created.                                                                *)
ListInv ==
  /\ Len(tasks) <= created
  /\ \A i \in 1 .. Len(tasks) :
       tasks[i] <= created /\ status[tasks[i]] \notin {"absent", "gone"}
  /\ \A i, j \in 1 .. Len(tasks) : i < j => tasks[i] < tasks[j]
  /\ \A k \in Tasks : k > created => status[k] = "absent"

(* A lock is held by the thread that works on its task, and by that only.  *)
LockInv ==
  /\ \A w \in Threads : wpc[w] \in Holding => lock[Task(w)] = w
  /\ \A w \in Threads, k \in Tasks :
       lock[k] = w => wpc[w] \in Holding /\ Task(w) = k

(* What a thread knows of the task it works on. *)
ClaimInv ==
  \A w \in Threads :
    /\ wpc[w] = "claim" => status[Task(w)] = "PENDING"
    /\ wpc[w] \in Owning => status[Task(w)] = "STARTED"
    /\ wpc[w] \in Owning => runner[Task(w)] = w
    /\ wpc[w] = "run" => runs[Task(w)] = 0
    /\ wpc[w] = "release" => status[Task(w)] \in Settled

RunsInv ==
  \A k \in Tasks :
    /\ runs[k] <= 1
    /\ status[k] \in {"absent", "PENDING"} => runs[k] = 0

(* A task that is STARTED has a thread that will settle it. *)
OwnerInv ==
  \A k \in Tasks :
    status[k] = "STARTED" =>
      /\ runner[k] \in Threads
      /\ wpc[runner[k]] \in Owning
      /\ Task(runner[k]) = k

ResultInv ==
  /\ \A k \in Tasks : runs[k] = 0 => result[k] = NULL
  /\ \A k \in Tasks : result[k] # NULL => result[k][1] = k
  /\ \A k \in Tasks : status[k] \in Settled => status[k] = Outcome(result[k])
  /\ \A r \in liveResults : \E i \in 1 .. Len(tasks) : result[tasks[i]] = r

(* A thread has left nothing PENDING behind it in this pass. *)
PassInv ==
  /\ \A w \in Threads :
       wpc[w] \notin {"enter", "done"} =>
         \A i \in 1 .. Len(tasks) : i < pos[w] => status[tasks[i]] # "PENDING"
  /\ \A w \in Threads :
       wpc[w] = "done" /\ given =>
         \A i \in 1 .. Len(tasks) : status[tasks[i]] # "PENDING"

PoolInv ==
  /\ PhaseInv /\ ListInv /\ LockInv /\ ClaimInv
  /\ RunsInv /\ OwnerInv /\ ResultInv /\ PassInv

IInv == TypeOK /\ TprintfInv /\ PoolInv

(* The invariant holds before the first task is created. *)
LEMMA InitIInv == Init => IInv
  <1> SUFFICES ASSUME Init PROVE IInv
    OBVIOUS
  <1> USE TprintfAssumption, TaskPoolAssumption DEF Init
  <1>1. TprintfInv
    BY TprintfInitInv
  <1>2. TypeOK
    BY <1>1 DEF TprintfInv, TypeOK, Tasks
  <1>3. PhaseInv /\ ListInv /\ LockInv
    BY DEF PhaseInv, ListInv, LockInv, OnTask, Holding, Tasks
  <1>4. ClaimInv /\ RunsInv /\ OwnerInv
    BY DEF ClaimInv, RunsInv, OwnerInv, Owning
  <1>5. ResultInv /\ PassInv
    BY DEF ResultInv, PassInv, Settled
  <1> QED BY <1>1, <1>2, <1>3, <1>4, <1>5 DEF IInv, PoolInv

(* The task a thread points at is a task of the list. *)
LEMMA TaskFact ==
  ASSUME IInv, NEW w \in Threads, pos[w] <= Len(tasks)
  PROVE  /\ pos[w] \in 1 .. Len(tasks)
         /\ pos[w] \in Tasks
         /\ Task(w) \in Tasks
  BY TaskPoolAssumption
  DEF IInv, PoolInv, TypeOK, ListInv, Tasks, Task

(* A thread that unlocks the task it works on, and leaves the part of the  *)
(* code that holds it, leaves the other locks as they were.                *)
LEMMA UnlockFact ==
  ASSUME IInv, NEW w \in Threads, wpc[w] \in Holding, Task(w) \in Tasks,
         lock' = [lock EXCEPT ![Task(w)] = Nobody],
         UNCHANGED tasks, wpc'[w] \notin Holding,
         \A v \in Threads : v # w => wpc'[v] = wpc[v] /\ pos'[v] = pos[v]
  PROVE  LockInv'
  <1> USE DEF IInv, PoolInv
  <1>1. lock[Task(w)] = w
    BY DEF LockInv
  <1>2. /\ lock'[Task(w)] = Nobody
        /\ \A k \in Tasks : k # Task(w) => lock'[k] = lock[k]
    BY DEF TypeOK
  <1>3. \A v \in Threads : v # w => Task(v)' = Task(v)
    BY DEF Task
  <1>4. ASSUME NEW v \in Threads, wpc'[v] \in Holding
        PROVE  lock'[Task(v)'] = v
    <2>1. v # w /\ wpc[v] \in Holding
      BY <1>4
    <2>2. lock[Task(v)] = v /\ Task(v) \in Tasks
      BY <2>1, TaskFact DEF LockInv, PhaseInv, OnTask, Holding
    <2>3. Task(v) # Task(w)
      BY <1>1, <2>1, <2>2
    <2> QED BY <1>2, <1>3, <2>1, <2>2, <2>3
  <1>5. ASSUME NEW v \in Threads, NEW k \in Tasks, lock'[k] = v
        PROVE  wpc'[v] \in Holding /\ Task(v)' = k
    <2>1. k # Task(w) /\ lock[k] = v
      BY <1>2, <1>5, TprintfAssumption
    <2>2. wpc[v] \in Holding /\ Task(v) = k
      BY <2>1 DEF LockInv
    <2>3. v # w
      BY <2>1, <2>2
    <2> QED BY <1>3, <2>2, <2>3
  <1> QED BY <1>4, <1>5 DEF LockInv

(* It is kept when a thread enters exec_tasks. *)
LEMMA EnterInv ==
  ASSUME IInv, NEW w \in Threads, Enter(w)
  PROVE  IInv'
  <1> USE DEF IInv, PoolInv, Enter, AtPassStart, At, Goto, tprintfVars,
              driverVars, taskVars
  <1>1. TprintfInv'
    BY TprintfFaultInv
  <1>2. TypeOK'
    BY <1>1 DEF TprintfInv, TypeOK
  <1>3. PhaseInv' /\ ListInv' /\ LockInv'
    BY DEF PhaseInv, ListInv, LockInv, OnTask, Holding, Task, TypeOK
  <1>4. ClaimInv' /\ RunsInv' /\ OwnerInv'
    BY DEF ClaimInv, RunsInv, OwnerInv, Owning, Task, TypeOK
  <1>5. ResultInv' /\ PassInv'
    BY DEF ResultInv, PassInv, Settled, TypeOK, Outcome, ListInv
  <1> QED BY <1>1, <1>2, <1>3, <1>4, <1>5

(* It is kept when a thread locks the task it points at. *)
LEMMA LockTaskInv ==
  ASSUME IInv, NEW w \in Threads, LockTask(w)
  PROVE  IInv'
  <1> USE DEF IInv, PoolInv, LockTask, TaskLockFree, At, Goto, tprintfVars,
              driverVars
  <1>1. TprintfInv'
    BY TprintfFaultInv
  <1>2. TypeOK'
    BY <1>1 DEF TprintfInv, TypeOK
  <1>3. Task(w) \in Tasks
    BY TaskFact
  <1>4. PhaseInv' /\ ListInv'
    BY DEF PhaseInv, ListInv, OnTask, TypeOK
  <1>5. LockInv'
    BY <1>3, TprintfAssumption DEF LockInv, Holding, Task, TypeOK
  <1>6. ClaimInv' /\ RunsInv' /\ OwnerInv'
    BY DEF ClaimInv, RunsInv, OwnerInv, Owning, Task, TypeOK
  <1>7. ResultInv' /\ PassInv'
    BY DEF ResultInv, PassInv, Settled, TypeOK, Outcome
  <1> QED BY <1>1, <1>2, <1>4, <1>5, <1>6, <1>7

(* It is kept when a thread reads the status: the branch it takes is right *)
(* for as long as it holds the lock.                                       *)
LEMMA CheckInv ==
  ASSUME IInv, NEW w \in Threads, Check(w)
  PROVE  IInv'
  <1> USE DEF IInv, PoolInv, At, Goto, tprintfVars, driverVars
  <1>1. TprintfInv'
    BY TprintfFaultInv DEF Check
  <1>2. Task(w) \in Tasks /\ pos[w] \in 1 .. Len(tasks)
    BY TaskFact DEF PhaseInv, OnTask, Check
  <1>3. CASE status[Task(w)] = "PENDING"
    <2>1. /\ wpc[w] = "check" /\ phase = "run"
          /\ wpc' = [wpc EXCEPT ![w] = "claim"]
          /\ UNCHANGED <<phase, created, tasks, given, status, result, lock,
                         runs, runner, liveResults, pos, processed>>
      BY <1>3 DEF Check
    <2>2. TypeOK'
      BY <1>1, <2>1 DEF TprintfInv, TypeOK
    <2>3. PhaseInv' /\ ListInv'
      BY <2>1 DEF PhaseInv, ListInv, OnTask, TypeOK
    <2>4. LockInv'
      BY <2>1 DEF LockInv, Holding, Task, TypeOK
    <2>5. ClaimInv' /\ RunsInv' /\ OwnerInv'
      BY <1>3, <2>1 DEF ClaimInv, RunsInv, OwnerInv, Owning, Task, TypeOK
    <2>6. ResultInv' /\ PassInv'
      BY <2>1 DEF ResultInv, PassInv, TypeOK
    <2> QED BY <1>1, <2>2, <2>3, <2>4, <2>5, <2>6
  <1>4. CASE status[Task(w)] # "PENDING"
    <2>1. /\ wpc[w] = "check" /\ phase = "run"
          /\ wpc' = [wpc EXCEPT ![w] = "scan"]
          /\ pos' = [pos EXCEPT ![w] = pos[w] + 1]
          /\ lock' = [lock EXCEPT ![Task(w)] = Nobody]
          /\ UNCHANGED <<phase, created, tasks, given, status, result, runs,
                         runner, liveResults, processed>>
      BY <1>4 DEF Check, NextNode, UnlockPassed
    <2>2. TypeOK'
      <3>1. pos' \in [Threads -> Nat \ {0}]
        BY <2>1 DEF TypeOK
      <3>2. lock' \in [Tasks -> Threads \union {Nobody}]
        BY <2>1 DEF TypeOK
      <3> QED BY <1>1, <2>1, <3>1, <3>2 DEF TprintfInv, TypeOK
    <2>3. PhaseInv' /\ ListInv'
      BY <2>1 DEF PhaseInv, ListInv, OnTask, TypeOK
    <2>4. LockInv'
      <3>1. wpc[w] \in Holding /\ wpc'[w] \notin Holding
        BY <2>1 DEF Holding, TypeOK
      <3>2. \A v \in Threads : v # w => wpc'[v] = wpc[v] /\ pos'[v] = pos[v]
        BY <2>1 DEF TypeOK
      <3> QED BY <1>2, <2>1, <3>1, <3>2, UnlockFact
    <2>5. ClaimInv' /\ RunsInv' /\ OwnerInv'
      BY <2>1 DEF ClaimInv, RunsInv, OwnerInv, Owning, Task, TypeOK
    <2>6. ResultInv'
      BY <2>1 DEF ResultInv
    <2>7. PassInv'
      <3>1. \A v \in Threads : v # w => wpc'[v] = wpc[v] /\ pos'[v] = pos[v]
        BY <2>1 DEF TypeOK
      <3>2. wpc'[w] = "scan" /\ pos'[w] = pos[w] + 1 /\ pos[w] \in Nat
        BY <2>1 DEF TypeOK
      <3>3. \A i \in 1 .. Len(tasks) :
              i < pos[w] + 1 => status[tasks[i]] # "PENDING"
        BY <1>2, <1>4, <2>1 DEF PassInv, Task
      <3> QED BY <2>1, <3>1, <3>2, <3>3 DEF PassInv
    <2> QED BY <1>1, <2>2, <2>3, <2>4, <2>5, <2>6, <2>7
  <1> QED BY <1>3, <1>4

(* It is kept when a thread sets its task STARTED, which makes it the      *)
(* runner of the task, and unlocks it.                                     *)
LEMMA ClaimStepInv ==
  ASSUME IInv, NEW w \in Threads, Claim(w)
  PROVE  IInv'
  <1> USE DEF IInv, PoolInv, Claim, At, Goto, driverVars
  <1>1. Task(w) \in Tasks /\ pos[w] \in 1 .. Len(tasks) /\ pos[w] \in Tasks
    BY TaskFact DEF PhaseInv, OnTask
  <1>2. <<pos[w], "Started">> \in Lines
    BY <1>1, TaskPoolAssumption
  <1>3. TprintfInv'
    BY <1>2, TprintfCallInv
  <1>4. TypeOK'
    BY <1>3 DEF TprintfInv, TypeOK
  <1>5. status[Task(w)] = "PENDING" /\ lock[Task(w)] = w
    BY DEF ClaimInv, LockInv, Holding
  <1>6. PhaseInv'
    BY DEF PhaseInv, OnTask, TypeOK
  <1>7. ListInv'
    BY <1>1, <1>5 DEF ListInv, TypeOK, Tasks
  <1>8. LockInv'
    <2>1. wpc[w] \in Holding /\ wpc'[w] \notin Holding
      BY DEF Holding, TypeOK
    <2>2. \A v \in Threads : v # w => wpc'[v] = wpc[v] /\ pos'[v] = pos[v]
      BY DEF TypeOK
    <2> QED BY <1>1, <2>1, <2>2, UnlockFact
  <1>9. ClaimInv' /\ RunsInv'
    BY <1>1, <1>5 DEF ClaimInv, RunsInv, LockInv, Holding, Owning, Task, TypeOK
  <1>10. OwnerInv'
    BY <1>1, <1>5 DEF OwnerInv, Owning, Task, TypeOK
  <1>11. ResultInv'
    BY <1>1, <1>5 DEF ResultInv, Settled, Outcome, TypeOK
  <1>12. PassInv'
    BY <1>1, <1>5 DEF PassInv, TypeOK
  <1> QED BY <1>3, <1>4, <1>6, <1>7, <1>8, <1>9, <1>10, <1>11, <1>12

(* It is kept by the call of the entry function, made without the lock: only*)
(* the runner of a STARTED task comes here.                                *)
LEMMA RunEntryInv ==
  ASSUME IInv, NEW w \in Threads, RunEntry(w)
  PROVE  IInv'
  <1> DEFINE k == Task(w)
  <1> USE DEF IInv, PoolInv
  <1>1. TprintfInv'
    BY TprintfFaultInv DEF RunEntry, tprintfVars
  <1>2. /\ wpc[w] = "run" /\ phase = "run"
        /\ wpc' = [wpc EXCEPT ![w] = "relock"]
        /\ runs' = [runs EXCEPT ![k] = runs[k] + 1]
        /\ UNCHANGED <<phase, created, tasks, given, status, lock, runner, pos,
                       processed>>
    BY DEF RunEntry, At, Goto, driverVars
  <1>3. PICK r \in {NULL, <<k, w>>} :
          /\ result' = [result EXCEPT ![k] = r]
          /\ liveResults' = IF r = NULL THEN liveResults
                                        ELSE liveResults \union {r}
    <2>1. <<k, w>> # NULL
      BY TaskFact, <1>2, TaskPoolAssumption DEF PhaseInv, OnTask, Results
    <2> QED BY <2>1 DEF RunEntry
  <1>4. k \in Tasks /\ pos[w] \in 1 .. Len(tasks)
    BY TaskFact, <1>2 DEF PhaseInv, OnTask
  <1>5. status[k] = "STARTED" /\ runner[k] = w /\ runs[k] = 0
    BY <1>2 DEF ClaimInv, Owning
  <1>6. TypeOK'
    <2>1. runs' \in [Tasks -> Nat]
      BY <1>2, <1>4 DEF TypeOK
    <2>2. <<k, w>> \in Results
      BY <1>4 DEF Results
    <2>3. /\ result' \in [Tasks -> Results \union {NULL}]
          /\ liveResults' \subseteq Results
      BY <1>3, <2>2 DEF TypeOK
    <2> QED BY <1>1, <1>2, <2>1, <2>3 DEF TprintfInv, TypeOK
  <1>7. PhaseInv' /\ ListInv'
    BY <1>2 DEF PhaseInv, ListInv, OnTask, TypeOK
  <1>8. LockInv'
    BY <1>2 DEF LockInv, Holding, Task, TypeOK
  <1>9. ClaimInv'
    <2> SUFFICES ASSUME NEW v \in Threads, v # w, wpc[v] \in Owning
                 PROVE  wpc[v] = "run" => runs'[Task(v)] = 0
      BY <1>2 DEF ClaimInv, Owning, Task, TypeOK
    <2>1. Task(v) # k
      BY <1>5 DEF ClaimInv
    <2> QED BY <1>2, <2>1 DEF ClaimInv, TypeOK
  <1>10. RunsInv'
    BY <1>2, <1>4, <1>5 DEF RunsInv, TypeOK
  <1>11. OwnerInv'
    BY <1>2 DEF OwnerInv, Owning, Task, TypeOK
  <1>12. result[k] = NULL
    BY <1>4, <1>5 DEF ResultInv
  <1>13. ResultInv'
    <2>1. \A l \in Tasks : l # k => result'[l] = result[l] /\ runs'[l] = runs[l]
      BY <1>2, <1>3, <1>4 DEF TypeOK
    <2>2. result'[k] = r /\ runs'[k] = 1
      BY <1>2, <1>3, <1>4, <1>5 DEF TypeOK
    <2>3. \A l \in Tasks : result'[l] # NULL => result'[l][1] = l
      BY <1>3, <2>1, <2>2 DEF ResultInv
    <2>4. \A l \in Tasks : /\ runs'[l] = 0 => result'[l] = NULL
                           /\ status'[l] \in Settled =>
                                status'[l] = Outcome(result'[l])
      BY <1>2, <1>5, <2>1, <2>2 DEF ResultInv, Settled
    <2>5. ASSUME NEW q \in liveResults'
          PROVE  \E i \in 1 .. Len(tasks) : result'[tasks[i]] = q
      <3>1. CASE q = r /\ r # NULL
        BY <1>4, <2>2, <3>1 DEF Task
      <3>2. CASE q \in liveResults
        <4>1. PICK i \in 1 .. Len(tasks) : result[tasks[i]] = q
          BY <3>2 DEF ResultInv
        <4>2. q # NULL /\ tasks[i] \in Tasks
          BY <3>2, TaskPoolAssumption DEF TypeOK
        <4> QED BY <1>12, <2>1, <4>1, <4>2
      <3> QED BY <1>3, <3>1, <3>2
    <2> QED BY <1>2, <2>3, <2>4, <2>5 DEF ResultInv
  <1>14. PassInv'
    BY <1>2 DEF PassInv, TypeOK
  <1> QED BY <1>1, <1>6, <1>7, <1>8, <1>9, <1>10, <1>11, <1>13, <1>14

(* It is kept when the runner locks its task again. *)
LEMMA RelockInv ==
  ASSUME IInv, NEW w \in Threads, Relock(w)
  PROVE  IInv'
  <1> USE DEF IInv, PoolInv
  <1>1. TprintfInv'
    BY TprintfFaultInv DEF Relock, tprintfVars
  <1>2. /\ wpc[w] = "relock" /\ phase = "run" /\ lock[Task(w)] = Nobody
        /\ wpc' = [wpc EXCEPT ![w] = "settle"]
        /\ lock' = [lock EXCEPT ![Task(w)] = w]
        /\ UNCHANGED <<phase, created, tasks, given, status, result, runs,
                       runner, liveResults, pos, processed>>
    BY DEF Relock, At, Goto, TaskLockFree, driverVars
  <1>3. Task(w) \in Tasks
    BY TaskFact, <1>2 DEF PhaseInv, OnTask
  <1>4. TypeOK'
    BY <1>1, <1>2 DEF TprintfInv, TypeOK
  <1>5. PhaseInv' /\ ListInv'
    BY <1>2 DEF PhaseInv, ListInv, OnTask, TypeOK
  <1>6. LockInv'
    BY <1>2, <1>3, TprintfAssumption DEF LockInv, Holding, Task, TypeOK
  <1>7. ClaimInv' /\ RunsInv' /\ OwnerInv'
    BY <1>2 DEF ClaimInv, RunsInv, OwnerInv, Owning, Task, TypeOK
  <1>8. ResultInv' /\ PassInv'
    BY <1>2 DEF ResultInv, PassInv, TypeOK
  <1> QED BY <1>1, <1>4, <1>5, <1>6, <1>7, <1>8

(* It is kept when the runner writes the final status. *)
LEMMA SettleInv ==
  ASSUME IInv, NEW w \in Threads, Settle(w)
  PROVE  IInv'
  <1> DEFINE k == Task(w)
  <1> USE DEF IInv, PoolInv
  <1>1. /\ wpc[w] = "settle" /\ phase = "run" /\ tpc[w] = "idle"
        /\ wpc' = [wpc EXCEPT ![w] = "release"]
        /\ status' = [status EXCEPT ![k] = Outcome(result[k])]
        /\ TprintfCall(w, <<pos[w], Word(Outcome(result[k]))>>)
        /\ UNCHANGED <<phase, created, tasks, given, lock, result, runs,
                       runner, liveResults, pos, processed>>
    BY DEF Settle, At, Goto, driverVars
  <1>2. k \in Tasks /\ pos[w] \in 1 .. Len(tasks) /\ pos[w] \in Tasks
    BY TaskFact, <1>1 DEF PhaseInv, OnTask
  <1>3. <<pos[w], Word(Outcome(result[k]))>> \in Lines
    BY <1>2, TaskPoolAssumption DEF Word
  <1>4. TprintfInv'
    BY <1>1, <1>3, TprintfCallInv
  <1>5. status[k] = "STARTED" /\ runner[k] = w
    BY <1>1 DEF ClaimInv, Owning
  <1>6. Outcome(result[k]) \in Settled
    BY DEF Outcome, Settled
  <1>7. TypeOK'
    BY <1>1, <1>4, <1>6 DEF TprintfInv, TypeOK
  <1>8. PhaseInv'
    BY <1>1 DEF PhaseInv, OnTask, TypeOK
  <1>9. /\ status'[k] = Outcome(result[k])
        /\ \A l \in Tasks : l # k => status'[l] = status[l]
    BY <1>1, <1>2 DEF TypeOK
  <1>10. ListInv'
    BY <1>1, <1>2, <1>5, <1>6, <1>9 DEF ListInv, TypeOK, Settled
  <1>11. LockInv'
    BY <1>1 DEF LockInv, Holding, Task, TypeOK
  <1>12. ClaimInv'
    <2> SUFFICES ASSUME NEW v \in Threads, v # w
                 PROVE  /\ wpc[v] = "claim" => status'[Task(v)] = "PENDING"
                        /\ wpc[v] \in Owning => status'[Task(v)] = "STARTED"
                        /\ wpc[v] = "release" => status'[Task(v)] \in Settled
      BY <1>1, <1>2, <1>6, <1>9 DEF ClaimInv, Owning, Task, TypeOK
    <2>1. wpc[v] = "claim" \/ wpc[v] \in Owning => Task(v) # k
      BY <1>5 DEF ClaimInv
    <2> QED BY <1>1, <1>6, <1>9, <2>1 DEF ClaimInv, TypeOK
  <1>13. RunsInv' /\ OwnerInv'
    BY <1>1, <1>5, <1>6, <1>9
    DEF RunsInv, OwnerInv, Owning, Settled, Task, TypeOK
  <1>14. ResultInv'
    BY <1>1, <1>9 DEF ResultInv
  <1>15. PassInv'
    BY <1>1, <1>2, <1>6, <1>9 DEF PassInv, Settled, TypeOK
  <1> QED BY <1>4, <1>7, <1>8, <1>10, <1>11, <1>12, <1>13, <1>14, <1>15

(* It is kept when a thread unlocks its task and moves to the next node. *)
LEMMA ReleaseInv ==
  ASSUME IInv, NEW w \in Threads, Release(w)
  PROVE  IInv'
  <1> USE DEF IInv, PoolInv
  <1>1. TprintfInv'
    BY TprintfFaultInv DEF Release, tprintfVars
  <1>2. /\ wpc[w] = "release" /\ phase = "run"
        /\ wpc' = [wpc EXCEPT ![w] = "scan"]
        /\ pos' = [pos EXCEPT ![w] = pos[w] + 1]
        /\ lock' = [lock EXCEPT ![Task(w)] = Nobody]
        /\ processed' = [processed EXCEPT ![w] = TRUE]
        /\ UNCHANGED <<phase, created, tasks, given, status, result, runs,
                       runner, liveResults>>
    BY DEF Release, NextNode, At, Goto, driverVars
  <1>3. Task(w) \in Tasks /\ pos[w] \in 1 .. Len(tasks)
    BY TaskFact, <1>2 DEF PhaseInv, OnTask
  <1>4. TypeOK'
    <2>1. pos' \in [Threads -> Nat \ {0}]
      BY <1>2 DEF TypeOK
    <2>2. lock' \in [Tasks -> Threads \union {Nobody}]
      BY <1>2 DEF TypeOK
    <2> QED BY <1>1, <1>2, <2>1, <2>2 DEF TprintfInv, TypeOK
  <1>5. PhaseInv' /\ ListInv'
    BY <1>2 DEF PhaseInv, ListInv, OnTask, TypeOK
  <1>6. LockInv'
    <2>1. wpc[w] \in Holding /\ wpc'[w] \notin Holding
      BY <1>2 DEF Holding, TypeOK
    <2>2. \A v \in Threads : v # w => wpc'[v] = wpc[v] /\ pos'[v] = pos[v]
      BY <1>2 DEF TypeOK
    <2> QED BY <1>3, <1>2, <2>1, <2>2, UnlockFact
  <1>7. ClaimInv' /\ RunsInv' /\ OwnerInv'
    BY <1>2 DEF ClaimInv, RunsInv, OwnerInv, Owning, Task, TypeOK
  <1>8. ResultInv'
    BY <1>2 DEF ResultInv
  <1>9. status[Task(w)] # "PENDING"
    BY <1>2 DEF ClaimInv, Settled
  <1>10. PassInv'
    <2>1. \A v \in Threads : v # w => wpc'[v] = wpc[v] /\ pos'[v] = pos[v]
      BY <1>2 DEF TypeOK
    <2>2. wpc'[w] = "scan" /\ pos'[w] = pos[w] + 1 /\ pos[w] \in Nat
      BY <1>2 DEF TypeOK
    <2>3. \A i \in 1 .. Len(tasks) : i < pos[w] => status[tasks[i]] # "PENDING"
      BY <1>2 DEF PassInv
    <2>4. \A i \in 1 .. Len(tasks) : i < pos[w] + 1 => i < pos[w] \/ i = pos[w]
      BY <2>2
    <2> QED BY <1>2, <1>9, <2>1, <2>2, <2>3, <2>4 DEF PassInv, Task
  <1> QED BY <1>1, <1>4, <1>5, <1>6, <1>7, <1>8, <1>10

(* It is kept at the end of a pass: a thread that leaves has passed over   *)
(* the whole list.                                                         *)
LEMMA EndPassInv ==
  ASSUME IInv, NEW w \in Threads, EndPass(w)
  PROVE  IInv'
  <1> USE DEF IInv, PoolInv
  <1>1. TprintfInv'
    BY TprintfFaultInv DEF EndPass, tprintfVars
  <1>2. /\ wpc[w] = "scan" /\ phase = "run" /\ pos[w] > Len(tasks)
        /\ UNCHANGED <<phase, created, tasks, given, status, result, lock,
                       runs, runner, liveResults>>
    BY DEF EndPass, At, driverVars, taskVars
  <1>3. \A i \in 1 .. Len(tasks) : i < pos[w]
    BY <1>2 DEF TypeOK
  <1>4. \A i \in 1 .. Len(tasks) : status[tasks[i]] # "PENDING"
    BY <1>2, <1>3 DEF PassInv
  <1>5. CASE processed[w]
    <2>1. /\ pos' = [pos EXCEPT ![w] = 1] /\ wpc' = wpc
          /\ processed' = [processed EXCEPT ![w] = FALSE]
      BY <1>5 DEF EndPass, AtPassStart
    <2>2. TypeOK'
      BY <1>1, <1>2, <2>1 DEF TprintfInv, TypeOK
    <2>3. PhaseInv' /\ ListInv' /\ LockInv'
      BY <1>2, <2>1 DEF PhaseInv, ListInv, LockInv, OnTask, Holding, Task, TypeOK
    <2>4. ClaimInv' /\ RunsInv' /\ OwnerInv'
      BY <1>2, <2>1 DEF ClaimInv, RunsInv, OwnerInv, Owning, Task, TypeOK
    <2>5. ResultInv' /\ PassInv'
      BY <1>2, <1>4, <2>1 DEF ResultInv, PassInv
    <2> QED BY <1>1, <2>2, <2>3, <2>4, <2>5
  <1>6. CASE ~ processed[w]
    <2>1. /\ wpc' = [wpc EXCEPT ![w] = "done"]
          /\ pos' = pos /\ processed' = processed
      BY <1>6 DEF EndPass, Goto
    <2>2. TypeOK'
      BY <1>1, <1>2, <2>1 DEF TprintfInv, TypeOK
    <2>3. PhaseInv' /\ ListInv' /\ LockInv'
      BY <1>2, <2>1 DEF PhaseInv, ListInv, LockInv, OnTask, Holding, Task, TypeOK
    <2>4. ClaimInv' /\ RunsInv' /\ OwnerInv'
      BY <1>2, <2>1 DEF ClaimInv, RunsInv, OwnerInv, Owning, Task, TypeOK
    <2>5. ResultInv' /\ PassInv'
      BY <1>2, <1>4, <2>1 DEF ResultInv, PassInv, TypeOK
    <2> QED BY <1>1, <2>2, <2>3, <2>4, <2>5
  <1> QED BY <1>5, <1>6

(* It is kept by the steps inside tprintf. *)
LEMMA LogInv ==
  ASSUME IInv, NEW w \in Threads, Log(w)
  PROVE  IInv'
  <1> USE DEF IInv, PoolInv, Log, driverVars, taskVars, workerVars
  <1>1. TprintfInv'
    BY TprintfStepInv
  <1>2. TypeOK'
    BY <1>1 DEF TprintfInv, TypeOK
  <1>3. PhaseInv' /\ ListInv' /\ LockInv'
    BY DEF PhaseInv, ListInv, LockInv, Task
  <1>4. ClaimInv' /\ RunsInv' /\ OwnerInv'
    BY DEF ClaimInv, RunsInv, OwnerInv, Task
  <1>5. ResultInv' /\ PassInv'
    BY DEF ResultInv, PassInv
  <1> QED BY <1>1, <1>2, <1>3, <1>4, <1>5

(* It is kept when a task is created, or cannot be. *)
LEMMA CreateTaskInv ==
  ASSUME IInv, CreateTask
  PROVE  IInv'
  <1> DEFINE k == created + 1
  <1> USE DEF IInv, PoolInv
  <1>1. TprintfInv'
    BY TprintfFaultInv DEF CreateTask, ListAdd
  <1>2. /\ phase = "build" /\ created < NTasks /\ created' = k
        /\ phase' \in {"build", "fault"}
        /\ UNCHANGED <<given, result, lock, runs, runner, liveResults,
                       wpc, pos, processed>>
    BY DEF CreateTask, ListAdd, MoreTasks, workerVars
  <1>3. k \in Tasks /\ created \in Nat /\ NTasks \in Nat
    BY <1>2, TaskPoolAssumption DEF TypeOK, Tasks
  <1>4. \A w \in Threads : wpc[w] = "enter"
    BY <1>2 DEF PhaseInv
  <1>5. PhaseInv' /\ LockInv'
    BY <1>2, <1>4 DEF PhaseInv, LockInv, OnTask, Holding
  <1>6. CASE UNCHANGED <<status, tasks>>
    <2>1. TypeOK'
      BY <1>1, <1>2, <1>3, <1>6 DEF TprintfInv, TypeOK, Tasks
    <2>2. ListInv'
      BY <1>2, <1>3, <1>6 DEF ListInv, TypeOK, Tasks
    <2>3. ClaimInv' /\ RunsInv' /\ OwnerInv'
      BY <1>2, <1>6 DEF ClaimInv, RunsInv, OwnerInv, Task
    <2>4. ResultInv' /\ PassInv'
      BY <1>2, <1>6 DEF ResultInv, PassInv
    <2> QED BY <1>1, <1>5, <2>1, <2>2, <2>3, <2>4
  <1>7. CASE /\ status' = [status EXCEPT ![k] = "PENDING"]
             /\ UNCHANGED tasks
    <2>1. /\ status'[k] = "PENDING"
          /\ \A l \in Tasks : l # k => status'[l] = status[l]
          /\ status[k] = "absent"
      BY <1>3, <1>7 DEF TypeOK, ListInv
    <2>2. TypeOK'
      BY <1>1, <1>2, <1>3, <1>7 DEF TprintfInv, TypeOK, Tasks
    <2>3. \A i \in 1 .. Len(tasks) :
            tasks[i] \in Tasks /\ tasks[i] <= created /\ tasks[i] # k
      BY <1>3 DEF TypeOK, ListInv, Tasks
    <2>4. ListInv'
      <3>1. Len(tasks) <= k /\ \A i \in 1 .. Len(tasks) : tasks[i] <= k
        BY <1>3, <2>3 DEF TypeOK, ListInv, Tasks
      <3>2. \A l \in Tasks : l > k => l > created /\ l # k
        BY <1>3 DEF Tasks
      <3> QED BY <1>2, <1>7, <2>1, <2>3, <3>1, <3>2 DEF ListInv
    <2>5. ClaimInv'
      BY <1>2, <1>4 DEF ClaimInv, Owning
    <2>6. RunsInv' /\ OwnerInv'
      <3>1. \A l \in Tasks : status'[l] = "STARTED" => status[l] = "STARTED"
        BY <2>1
      <3>2. OwnerInv'
        BY <1>2, <1>4, <3>1 DEF OwnerInv, Owning
      <3> QED BY <1>2, <2>1, <3>2 DEF RunsInv
    <2>7. ResultInv'
      <3>1. \A l \in Tasks : status'[l] \in Settled => status'[l] = status[l]
        BY <2>1 DEF Settled
      <3> QED BY <1>2, <1>7, <3>1 DEF ResultInv
    <2>8. PassInv'
      BY <1>2, <1>4 DEF PassInv
    <2> QED BY <1>1, <1>5, <2>2, <2>4, <2>5, <2>6, <2>7, <2>8
  <1>8. CASE /\ status' = [status EXCEPT ![k] = "PENDING"]
             /\ tasks' = Append(tasks, k)
    <2>1. /\ tasks' \in Seq(Tasks) /\ Len(tasks) \in Nat
          /\ Len(tasks') = Len(tasks) + 1
          /\ tasks'[Len(tasks) + 1] = k
          /\ \A i \in 1 .. Len(tasks) : tasks'[i] = tasks[i]
      BY <1>3, <1>8 DEF TypeOK
    <2>2. /\ status'[k] = "PENDING"
          /\ \A l \in Tasks : l # k => status'[l] = status[l]
          /\ status[k] = "absent"
      BY <1>3, <1>8 DEF TypeOK, ListInv
    <2>3. TypeOK'
      BY <1>1, <1>2, <1>3, <1>8, <2>1 DEF TprintfInv, TypeOK, Tasks
    <2>4. \A i \in 1 .. Len(tasks) : tasks[i] \in Tasks /\ tasks[i] < k
      <3>1. \A i \in 1 .. Len(tasks) : tasks[i] \in Tasks
        BY DEF TypeOK
      <3>2. \A i \in 1 .. Len(tasks) : tasks[i] <= created
        BY DEF ListInv
      <3>3. \A l \in Tasks : l <= created => l < k
        BY <1>3 DEF Tasks
      <3> QED BY <3>1, <3>2, <3>3
    <2>5. ListInv'
      <3>1. Len(tasks') <= created'
        BY <1>2, <1>3, <2>1 DEF ListInv
      <3>2. \A i \in 1 .. Len(tasks') :
              tasks'[i] <= created' /\ status'[tasks'[i]] \notin {"absent", "gone"}
        <4> SUFFICES ASSUME NEW i \in 1 .. Len(tasks')
                     PROVE  /\ tasks'[i] <= created'
                            /\ status'[tasks'[i]] \notin {"absent", "gone"}
          OBVIOUS
        <4>1. CASE i = Len(tasks) + 1
          BY <1>2, <1>3, <2>1, <2>2, <4>1
        <4>2. CASE i \in 1 .. Len(tasks)
          <5>1. tasks'[i] = tasks[i] /\ tasks[i] \in Tasks /\ tasks[i] < k
            BY <2>1, <2>4, <4>2
          <5>2. status'[tasks[i]] = status[tasks[i]] /\ tasks[i] <= k
            BY <1>3, <2>2, <5>1 DEF Tasks
          <5> QED BY <1>2, <4>2, <5>1, <5>2 DEF ListInv
        <4> QED BY <2>1, <4>1, <4>2
      <3>3. \A i, j \in 1 .. Len(tasks') : i < j => tasks'[i] < tasks'[j]
        BY <1>3, <2>1, <2>4 DEF ListInv
      <3>4. \A l \in Tasks : l > created' => status'[l] = "absent"
        BY <1>2, <1>3, <2>2 DEF ListInv, Tasks
      <3> QED BY <3>1, <3>2, <3>3, <3>4 DEF ListInv
    <2>6. ClaimInv'
      BY <1>2, <1>4 DEF ClaimInv, Owning
    <2>7. RunsInv' /\ OwnerInv'
      <3>1. \A l \in Tasks : status'[l] = "STARTED" => l # k
        BY <2>2
      <3>2. OwnerInv'
        BY <1>2, <1>4, <2>2, <3>1 DEF OwnerInv, Owning
      <3> QED BY <1>2, <2>2, <3>2 DEF RunsInv
    <2>8. ResultInv'
      <3>1. \A l \in Tasks : status'[l] \in Settled => l # k
        BY <2>2 DEF Settled
      <3>2. \A r \in liveResults : \E i \in 1 .. Len(tasks') : result[tasks'[i]] = r
        BY <2>1 DEF ResultInv
      <3> QED BY <1>2, <2>2, <3>1, <3>2 DEF ResultInv
    <2>9. PassInv'
      BY <1>2, <1>4 DEF PassInv
    <2> QED BY <1>1, <1>5, <2>3, <2>5, <2>6, <2>7, <2>8, <2>9
  <1> QED BY <1>6, <1>7, <1>8 DEF CreateTask, ListAdd

(* It is kept when the threads are started. *)
LEMMA LaunchInv ==
  ASSUME IInv, Launch
  PROVE  IInv'
  <1> USE DEF IInv, PoolInv
  <1>1. TprintfInv'
    BY TprintfFaultInv DEF Launch, tprintfVars
  <1>2. /\ phase = "build" /\ phase' = "run" /\ given' \in BOOLEAN
        /\ UNCHANGED <<created, tasks, status, result, lock, runs, runner,
                       liveResults, wpc, pos, processed>>
    BY DEF Launch, taskVars, workerVars
  <1>3. \A w \in Threads : wpc[w] = "enter"
    BY <1>2 DEF PhaseInv
  <1>4. TypeOK'
    BY <1>1, <1>2 DEF TprintfInv, TypeOK
  <1>5. PhaseInv' /\ ListInv' /\ LockInv'
    BY <1>2, <1>3 DEF PhaseInv, ListInv, LockInv, OnTask, Holding
  <1>6. ClaimInv' /\ RunsInv' /\ OwnerInv'
    BY <1>2 DEF ClaimInv, RunsInv, OwnerInv, Task
  <1>7. ResultInv' /\ PassInv'
    BY <1>2, <1>3 DEF ResultInv, PassInv
  <1> QED BY <1>1, <1>4, <1>5, <1>6, <1>7

(* It is kept when the threads are joined, and when the program ends. *)
LEMMA JoinFinishInv ==
  ASSUME IInv, Join \/ Finish
  PROVE  IInv'
  <1> USE DEF IInv, PoolInv
  <1>1. TprintfInv'
    BY TprintfFaultInv DEF Join, Finish, tprintfVars
  <1>2. /\ phase \notin {"build", "fault"} /\ phase' \in {"destroy", "end"}
        /\ \A w \in Threads : wpc[w] = "done"
        /\ phase' = "end" => tasks = <<>>
        /\ UNCHANGED <<created, tasks, given, status, result, lock, runs,
                       runner, liveResults, wpc, pos, processed>>
    BY DEF Join, Finish, taskVars, workerVars, PhaseInv
  <1>3. TypeOK'
    BY <1>1, <1>2 DEF TprintfInv, TypeOK
  <1>4. PhaseInv' /\ ListInv' /\ LockInv'
    BY <1>2 DEF PhaseInv, ListInv, LockInv, OnTask, Holding
  <1>5. ClaimInv' /\ RunsInv' /\ OwnerInv'
    BY <1>2 DEF ClaimInv, RunsInv, OwnerInv, Task
  <1>6. ResultInv' /\ PassInv'
    BY <1>2 DEF ResultInv, PassInv
  <1> QED BY <1>1, <1>3, <1>4, <1>5, <1>6

(* When the list is destroyed every thread has returned, so no task is     *)
(* STARTED and no thread points into the list.                             *)
LEMMA QuiescentFact ==
  ASSUME IInv, phase \in {"destroy", "end"}
  PROVE  /\ \A w \in Threads : wpc[w] = "done"
         /\ \A k \in Tasks : status[k] # "STARTED"
  <1> USE DEF IInv, PoolInv
  <1>1. \A w \in Threads : wpc[w] = "done"
    BY DEF PhaseInv
  <1> QED BY <1>1 DEF OwnerInv, Owning

(* It is kept when the first task of the list is destroyed. *)
LEMMA DestroyTaskInv ==
  ASSUME IInv, DestroyTask
  PROVE  IInv'
  <1> DEFINE k == Head(tasks)
  <1> USE DEF IInv, PoolInv
  <1>1. TprintfInv'
    BY TprintfFaultInv DEF DestroyTask, tprintfVars
  <1>2. /\ phase = "destroy" /\ tasks # <<>> /\ tasks' = Tail(tasks)
        /\ status' = [status EXCEPT ![k] = "gone"]
        /\ result' = [result EXCEPT ![k] = NULL]
        /\ liveResults' = IF result[k] = NULL THEN liveResults
                                              ELSE liveResults \ {result[k]}
        /\ UNCHANGED <<phase, created, given, lock, runs, runner, wpc, pos,
                       processed>>
    BY DEF DestroyTask, DestroyResult, workerVars
  <1>3. /\ \A w \in Threads : wpc[w] = "done"
        /\ \A l \in Tasks : status[l] # "STARTED"
    BY <1>2, QuiescentFact
  <1>4. /\ tasks' \in Seq(Tasks) /\ Len(tasks) \in Nat /\ Len(tasks) >= 1
        /\ Len(tasks') = Len(tasks) - 1
        /\ k = tasks[1] /\ k \in Tasks
        /\ \A i \in 1 .. Len(tasks) - 1 : tasks'[i] = tasks[i + 1]
    BY <1>2 DEF TypeOK
  <1>5. \A i \in 1 .. Len(tasks) - 1 : tasks[i + 1] \in Tasks /\ tasks[i + 1] > k
    BY <1>4 DEF ListInv, TypeOK
  <1>6. /\ status'[k] = "gone" /\ result'[k] = NULL
        /\ \A l \in Tasks :
             l # k => status'[l] = status[l] /\ result'[l] = result[l]
    BY <1>2, <1>4 DEF TypeOK
  <1>7. k <= created /\ created \in Nat
    BY <1>4 DEF ListInv, TypeOK
  <1>8. TypeOK'
    BY <1>1, <1>2, <1>4 DEF TprintfInv, TypeOK
  <1>9. PhaseInv' /\ LockInv' /\ ClaimInv'
    BY <1>2, <1>3 DEF PhaseInv, LockInv, ClaimInv, OnTask, Holding, Owning
  <1>10. ListInv'
    <2>1. Len(tasks') <= created'
      BY <1>2, <1>4, <1>7 DEF ListInv
    <2>2. \A i \in 1 .. Len(tasks') :
            tasks'[i] <= created' /\ status'[tasks'[i]] \notin {"absent", "gone"}
      <3> SUFFICES ASSUME NEW i \in 1 .. Len(tasks')
                   PROVE  /\ tasks'[i] <= created'
                          /\ status'[tasks'[i]] \notin {"absent", "gone"}
        OBVIOUS
      <3>1. tasks'[i] = tasks[i + 1] /\ i + 1 \in 1 .. Len(tasks)
        BY <1>4
      <3>2. tasks'[i] \in Tasks /\ tasks'[i] # k
        BY <1>4, <1>5, <3>1 DEF Tasks
      <3> QED BY <1>2, <1>6, <3>1, <3>2 DEF ListInv
    <2>3. \A i, j \in 1 .. Len(tasks') : i < j => tasks'[i] < tasks'[j]
      BY <1>4 DEF ListInv
    <2>4. \A l \in Tasks : l > created' => status'[l] = "absent"
      BY <1>2, <1>4, <1>6, <1>7 DEF ListInv, Tasks
    <2> QED BY <2>1, <2>2, <2>3, <2>4 DEF ListInv
  <1>11. RunsInv' /\ OwnerInv'
    BY <1>2, <1>3, <1>6 DEF RunsInv, OwnerInv
  <1>12. ResultInv'
    <2>1. \A l \in Tasks : /\ runs'[l] = 0 => result'[l] = NULL
                           /\ result'[l] # NULL => result'[l][1] = l
                           /\ status'[l] \in Settled =>
                                status'[l] = Outcome(result'[l])
      BY <1>2, <1>6 DEF ResultInv, Settled
    <2>2. ASSUME NEW q \in liveResults'
          PROVE  \E i \in 1 .. Len(tasks') : result'[tasks'[i]] = q
      <3>1. q \in liveResults /\ q # result[k] /\ q # NULL
        BY <1>2, TaskPoolAssumption DEF TypeOK
      <3>2. PICK i \in 1 .. Len(tasks) : result[tasks[i]] = q
        BY <3>1 DEF ResultInv
      <3>3. i # 1
        BY <1>4, <3>1, <3>2
      <3>4. i - 1 \in 1 .. Len(tasks') /\ tasks'[i - 1] = tasks[i]
        BY <1>4, <3>3
      <3>5. tasks[i] \in Tasks /\ tasks[i] # k
        <4>1. i - 1 \in 1 .. Len(tasks) - 1 /\ (i - 1) + 1 = i
          BY <1>4, <3>3
        <4>2. tasks[i] \in Tasks /\ tasks[i] > k
          BY <1>5, <4>1
        <4> QED BY <1>4, <4>2 DEF Tasks
      <3> QED BY <1>6, <3>2, <3>4, <3>5
    <2> QED BY <2>1, <2>2 DEF ResultInv
  <1>13. PassInv'
    <2>1. ASSUME given, NEW i \in 1 .. Len(tasks'), Threads # {}
          PROVE  status'[tasks'[i]] # "PENDING"
      <3>1. tasks'[i] = tasks[i + 1] /\ i + 1 \in 1 .. Len(tasks)
        BY <1>4
      <3>2. tasks'[i] \in Tasks /\ tasks'[i] # k
        BY <1>4, <1>5, <3>1 DEF Tasks
      <3> QED BY <1>3, <1>6, <2>1, <3>1, <3>2 DEF PassInv
    <2> QED BY <1>2, <1>3, <2>1 DEF PassInv
  <1> QED BY <1>1, <1>8, <1>9, <1>10, <1>11, <1>12, <1>13

(* Nothing changes: the invariant does not either. *)
LEMMA StutterInv ==
  ASSUME IInv, UNCHANGED vars
  PROVE  IInv'
  <1> USE DEF IInv, PoolInv, vars, tprintfVars, driverVars, taskVars, workerVars
  <1>1. TprintfInv'
    BY TprintfFaultInv
  <1>2. TypeOK'
    BY <1>1 DEF TprintfInv, TypeOK
  <1>3. PhaseInv' /\ ListInv' /\ LockInv'
    BY DEF PhaseInv, ListInv, LockInv, Task
  <1>4. ClaimInv' /\ RunsInv' /\ OwnerInv'
    BY DEF ClaimInv, RunsInv, OwnerInv, Task
  <1>5. ResultInv' /\ PassInv'
    BY DEF ResultInv, PassInv
  <1> QED BY <1>1, <1>2, <1>3, <1>4, <1>5

(* The invariant is inductive. *)
LEMMA NextIInv == IInv /\ [Next]_vars => IInv'
  <1> SUFFICES ASSUME IInv, [Next]_vars PROVE IInv'
    OBVIOUS
  <1>1. CASE Driver
    BY <1>1, CreateTaskInv, LaunchInv, JoinFinishInv, DestroyTaskInv DEF Driver
  <1>2. ASSUME NEW w \in Threads, Worker(w) PROVE IInv'
    BY <1>2, EnterInv, LockTaskInv, CheckInv, ClaimStepInv, RunEntryInv,
       RelockInv, SettleInv, ReleaseInv, EndPassInv, LogInv DEF Worker
  <1>3. CASE Exited
    BY <1>3, StutterInv DEF Exited
  <1>4. CASE UNCHANGED vars
    BY <1>4, StutterInv
  <1> QED BY <1>1, <1>2, <1>3, <1>4 DEF Next

(* Every reachable state satisfies the inductive invariant. *)
THEOREM InductiveInvariant == Spec => []IInv
  <1> QED BY InitIInv, NextIInv, PTL DEF Spec

-----------------------------------------------------------------------------
(* The lines tprintf prints stay whole however the threads interleave.     *)
THEOREM LogLinesIntact == Spec => []LinesIntact
  <1>1. IInv => LinesIntact
    BY TprintfIntact DEF IInv
  <1> QED BY <1>1, InductiveInvariant, PTL

(* exec_tasks calls the entry function of a task once at the most.         *)
THEOREM EntryCalledAtMostOnce == Spec => []RunAtMostOnce
  <1>1. IInv => RunAtMostOnce
    BY DEF IInv, PoolInv, RunsInv, RunAtMostOnce
  <1> QED BY <1>1, InductiveInvariant, PTL

(* A thread that leaves exec_tasks leaves no task PENDING, and the last    *)
(* thread that leaves leaves every task settled.                           *)
THEOREM ExitAfterFullScan == Spec => []NobodyQuitsEarly
  <1>1. IInv => NobodyQuitsEarly
    <2> SUFFICES ASSUME IInv, given, NEW i \in DOMAIN tasks
                 PROVE  /\ (\E w \in Threads : wpc[w] = "done")
                             => status[tasks[i]] \in {"STARTED"} \union Settled
                        /\ (Threads # {} /\ \A w \in Threads : wpc[w] = "done")
                             => status[tasks[i]] = Outcome(result[tasks[i]])
      BY DEF NobodyQuitsEarly
    <2> USE DEF IInv, PoolInv
    <2>1. i \in 1 .. Len(tasks) /\ tasks[i] \in Tasks
      BY DEF TypeOK
    <2>2. status[tasks[i]] \in {"PENDING", "STARTED"} \union Settled
      BY <2>1 DEF ListInv, TypeOK
    <2>3. (\E w \in Threads : wpc[w] = "done") => status[tasks[i]] # "PENDING"
      BY <2>1 DEF PassInv
    <2>4. (\A w \in Threads : wpc[w] = "done") => status[tasks[i]] # "STARTED"
      BY <2>1 DEF OwnerInv, Owning
    <2>5. status[tasks[i]] \in Settled =>
            status[tasks[i]] = Outcome(result[tasks[i]])
      BY <2>1 DEF ResultInv
    <2> QED BY <2>2, <2>3, <2>4, <2>5
  <1> QED BY <1>1, InductiveInvariant, PTL

(* Every result on the heap belongs to a task of the list, and none is     *)
(* left when the program ends.                                             *)
THEOREM ResultsFreed == Spec => []NothingLeaked
  <1>1. IInv => NothingLeaked
    <2> SUFFICES ASSUME IInv PROVE NothingLeaked
      OBVIOUS
    <2>1. \A r \in liveResults : \E i \in 1 .. Len(tasks) : result[tasks[i]] = r
      BY DEF IInv, PoolInv, ResultInv
    <2>2. DOMAIN tasks = 1 .. Len(tasks)
      BY DEF IInv, TypeOK
    <2>3. phase = "end" => DOMAIN tasks = {}
      BY DEF IInv, PoolInv, PhaseInv
    <2> QED BY <2>1, <2>2, <2>3 DEF NothingLeaked
  <1> QED BY <1>1, InductiveInvariant, PTL

-----------------------------------------------------------------------------
(* The log.                                                                *)

Texts == {i \in 1 .. Len(stdout) : stdout[i].part = "text"}

(* What a thread inside tprintf is about to print of its task. *)
CallInv ==
  \A w \in Threads :
    tpc[w] # "idle" =>
      /\ runner[Task(w)] = w
      /\ \/ wpc[w] = "run" /\ line[w] = <<pos[w], "Started">>
         \/ wpc[w] = "release" /\ line[w] = <<pos[w], Word(status[Task(w)])>>

(* A text speaks of a task of the list, is the word of the thread that     *)
(* runs it, and agrees with its status.                                    *)
TextInv ==
  \A i \in Texts :
    LET a == stdout[i]
        s == status[tasks[a.line[1]]]
    IN
    /\ phase \notin {"build", "fault"}
    /\ phase = "run" =>
         /\ a.line[1] \in 1 .. Len(tasks)
         /\ a.thread = runner[tasks[a.line[1]]]
         /\ s \in {"STARTED"} \union Settled
         /\ a.line[2] = "Success" => s = "SUCCESS"
         /\ a.line[2] = "Failure" => s = "FAILURE"

(* Before a thread prints that its task is started, nothing was printed of *)
(* that task; before it prints how the task ended, only that it started.   *)
BeforeInv ==
  \A w \in Threads :
    tpc[w] \in {"enter", "id", "text"} =>
      \A i \in Texts : stdout[i].line[1] = pos[w] =>
        wpc[w] = "release" /\ stdout[i].line[2] = "Started"

OrderInv ==
  \A i, j \in Texts :
    i < j /\ stdout[i].line[1] = stdout[j].line[1] =>
      /\ stdout[i].thread = stdout[j].thread
      /\ stdout[i].line[2] = "Started" /\ stdout[j].line[2] # "Started"

RecordInv == CallInv /\ TextInv /\ BeforeInv /\ OrderInv

(* A text with the position of a task that was not claimed yet is nowhere. *)
LEMMA TextFact ==
  ASSUME IInv, RecordInv, NEW i \in Texts
  PROVE  /\ stdout[i] \in Fragment /\ stdout[i].line[1] \in Tasks
         /\ phase = "run" =>
              /\ stdout[i].line[1] \in 1 .. Len(tasks)
              /\ tasks[stdout[i].line[1]] \in Tasks
              /\ status[tasks[stdout[i].line[1]]] # "PENDING"
  <1> USE DEF IInv, TypeOK, TprintfTypeOK, RecordInv, Texts
  <1>1. stdout[i] \in Fragment
    OBVIOUS
  <1>2. stdout[i].line \in Tasks \X {"Started", "Success", "Failure"}
    BY <1>1, TaskPoolAssumption DEF Fragment
  <1>3. phase = "run" => /\ stdout[i].line[1] \in 1 .. Len(tasks)
                         /\ status[tasks[stdout[i].line[1]]] # "PENDING"
    BY DEF TextInv, Settled
  <1> QED BY <1>1, <1>2, <1>3

(* Before the threads run nothing is printed; afterwards no call of        *)
(* tprintf is open and what was printed stays.                             *)
LEMMA DriverRecord ==
  ASSUME IInv, RecordInv, Driver
  PROVE  RecordInv'
  <1>1. UNCHANGED <<tpc, line, stdout, wpc, pos>>
    BY DEF Driver, CreateTask, ListAdd, Launch, Join, DestroyTask, Finish, tprintfVars,
           workerVars, Fault
  <1>2. \A w \in Threads : wpc[w] \in {"enter", "done"}
    BY DEF Driver, CreateTask, ListAdd, Launch, Join, DestroyTask, Finish, IInv, PoolInv,
           PhaseInv
  <1>3. \A w \in Threads : tpc[w] = "idle"
    BY <1>2 DEF RecordInv, CallInv
  <1>4. CallInv' /\ BeforeInv'
    BY <1>1, <1>3 DEF CallInv, BeforeInv
  <1>5. Texts' = Texts /\ OrderInv'
    BY <1>1 DEF Texts, RecordInv, OrderInv
  <1>6. phase = "build" \/ phase' \in {"destroy", "end"}
    BY DEF Driver, CreateTask, ListAdd, Launch, Join, DestroyTask, Finish
  <1>7. phase = "build" => Texts = {}
    BY DEF RecordInv, TextInv
  <1>8. TextInv'
    BY <1>1, <1>5, <1>6, <1>7 DEF TextInv
  <1> QED BY <1>4, <1>5, <1>8 DEF RecordInv

(* A thread outside tprintf that changes neither a status nor what was     *)
(* printed leaves the log as it is.                                        *)
LEMMA QuietRecord ==
  ASSUME IInv, RecordInv, NEW w \in Threads, tpc[w] = "idle",
         UNCHANGED <<tpc, line, stdout, phase, tasks, status, runner>>,
         \A v \in Threads : v # w => wpc'[v] = wpc[v] /\ pos'[v] = pos[v]
  PROVE  RecordInv'
  <1>1. Texts' = Texts /\ OrderInv' /\ TextInv'
    BY DEF Texts, RecordInv, OrderInv, TextInv
  <1>2. CallInv'
    <2> SUFFICES ASSUME NEW v \in Threads, tpc[v] # "idle"
                 PROVE  /\ runner[Task(v)] = v
                        /\ \/ wpc[v] = "run" /\ line[v] = <<pos[v], "Started">>
                           \/ /\ wpc[v] = "release"
                              /\ line[v] = <<pos[v], Word(status[Task(v)])>>
      BY DEF CallInv, Task
    <2> QED BY DEF RecordInv, CallInv
  <1>3. BeforeInv'
    BY <1>1 DEF RecordInv, BeforeInv
  <1> QED BY <1>1, <1>2, <1>3 DEF RecordInv

(* The call that logs Started, made by the thread that claims a task: the  *)
(* task was PENDING, so that nothing was printed of it.                    *)
LEMMA ClaimRecord ==
  ASSUME IInv, RecordInv, NEW w \in Threads, Claim(w)
  PROVE  RecordInv'
  <1> DEFINE k == Task(w)
  <1>1. /\ wpc[w] = "claim" /\ phase = "run" /\ tpc[w] = "idle"
        /\ status' = [status EXCEPT ![k] = "STARTED"]
        /\ runner' = [runner EXCEPT ![k] = w]
        /\ wpc' = [wpc EXCEPT ![w] = "run"]
        /\ tpc' = [tpc EXCEPT ![w] = "enter"]
        /\ line' = [line EXCEPT ![w] = <<pos[w], "Started">>]
        /\ UNCHANGED <<stdout, phase, tasks, pos>>
    BY DEF Claim, At, Goto, TprintfCall, driverVars
  <1>2. k \in Tasks /\ pos[w] \in 1 .. Len(tasks) /\ status[k] = "PENDING"
    BY <1>1, TaskFact DEF IInv, PoolInv, PhaseInv, OnTask, ClaimInv
  <1>3. Texts' = Texts /\ OrderInv'
    BY <1>1 DEF Texts, RecordInv, OrderInv
  <1>4. \A i \in Texts : /\ stdout[i].line[1] \in 1 .. Len(tasks)
                         /\ tasks[stdout[i].line[1]] \in Tasks
                         /\ tasks[stdout[i].line[1]] # k
    BY <1>1, <1>2, TextFact
  <1>5. \A l \in Tasks : l # k => status'[l] = status[l] /\ runner'[l] = runner[l]
    BY <1>1, <1>2 DEF IInv, TypeOK
  <1>6. TextInv'
    BY <1>1, <1>3, <1>4, <1>5 DEF RecordInv, TextInv
  <1>7. \A v \in Threads : v # w => /\ wpc'[v] = wpc[v] /\ tpc'[v] = tpc[v]
                                    /\ line'[v] = line[v]
    BY <1>1 DEF IInv, TypeOK, TprintfTypeOK
  <1>8. wpc'[w] = "run" /\ tpc'[w] = "enter" /\ line'[w] = <<pos[w], "Started">>
    BY <1>1 DEF IInv, TypeOK, TprintfTypeOK
  <1>9. CallInv'
    <2> SUFFICES ASSUME NEW v \in Threads, v # w, tpc[v] # "idle"
                 PROVE  /\ runner'[Task(v)] = v
                        /\ \/ wpc[v] = "run" /\ line[v] = <<pos[v], "Started">>
                           \/ /\ wpc[v] = "release"
                              /\ line[v] = <<pos[v], Word(status'[Task(v)])>>
      <3>1. runner'[k] = w
        BY <1>1, <1>2 DEF IInv, TypeOK
      <3> QED BY <1>1, <1>7, <1>8, <3>1 DEF CallInv, Task
    <2>1. /\ wpc[v] \in {"run", "release"} /\ Task(v) \in Tasks
          /\ status[Task(v)] \in {"STARTED"} \union Settled
      BY TaskFact DEF RecordInv, CallInv, IInv, PoolInv, PhaseInv, OnTask,
                      ClaimInv, Owning
    <2>2. /\ status'[Task(v)] = status[Task(v)]
          /\ runner'[Task(v)] = runner[Task(v)]
      BY <1>2, <1>5, <2>1 DEF Settled
    <2> QED BY <2>2 DEF RecordInv, CallInv
  <1>10. BeforeInv'
    <2>1. \A i \in Texts : stdout[i].line[1] # pos[w]
      BY <1>4 DEF Task
    <2> QED BY <1>1, <1>3, <1>7, <2>1 DEF RecordInv, BeforeInv
  <1> QED BY <1>3, <1>6, <1>9, <1>10 DEF RecordInv

(* The call that logs how a task ended, by the thread that started it.     *)
LEMMA SettleRecord ==
  ASSUME IInv, RecordInv, NEW w \in Threads, Settle(w)
  PROVE  RecordInv'
  <1> DEFINE k == Task(w)
             s == Outcome(result[k])
  <1>1. /\ wpc[w] = "settle" /\ phase = "run" /\ tpc[w] = "idle"
        /\ status' = [status EXCEPT ![k] = s]
        /\ wpc' = [wpc EXCEPT ![w] = "release"]
        /\ tpc' = [tpc EXCEPT ![w] = "enter"]
        /\ line' = [line EXCEPT ![w] = <<pos[w], Word(s)>>]
        /\ UNCHANGED <<stdout, phase, tasks, pos, runner>>
    BY DEF Settle, At, Goto, TprintfCall, driverVars
  <1>2. /\ k \in Tasks /\ pos[w] \in 1 .. Len(tasks)
        /\ status[k] = "STARTED" /\ runner[k] = w /\ lock[k] = w
    BY <1>1, TaskFact DEF IInv, PoolInv, PhaseInv, OnTask, ClaimInv, Owning,
                          LockInv, Holding
  <1>3. Texts' = Texts /\ OrderInv'
    BY <1>1 DEF Texts, RecordInv, OrderInv
  <1>4. /\ status'[k] = s /\ s \in Settled
        /\ \A l \in Tasks : l # k => status'[l] = status[l]
    BY <1>1, <1>2 DEF IInv, TypeOK, Outcome, Settled
  <1>5. \A i \in Texts : tasks[stdout[i].line[1]] = k => stdout[i].line[2] = "Started"
    <2> SUFFICES ASSUME NEW i \in Texts, tasks[stdout[i].line[1]] = k
                 PROVE  stdout[i].line[2] = "Started"
      OBVIOUS
    <2>1. stdout[i].line[2] \in {"Started", "Success", "Failure"}
      BY TextFact, TaskPoolAssumption DEF Fragment
    <2> QED BY <1>1, <1>2, <2>1 DEF RecordInv, TextInv
  <1>6. TextInv'
    <2> SUFFICES ASSUME NEW i \in Texts
                 PROVE  LET a == stdout[i]
                            t == status'[tasks[a.line[1]]]
                        IN /\ a.line[1] \in 1 .. Len(tasks)
                           /\ a.thread = runner[tasks[a.line[1]]]
                           /\ t \in {"STARTED"} \union Settled
                           /\ a.line[2] = "Success" => t = "SUCCESS"
                           /\ a.line[2] = "Failure" => t = "FAILURE"
      BY <1>1, <1>3 DEF TextInv
    <2>1. CASE tasks[stdout[i].line[1]] = k
      BY <1>1, <1>4, <1>5, <2>1 DEF RecordInv, TextInv
    <2>2. CASE tasks[stdout[i].line[1]] # k
      BY <1>1, <1>4, <2>2, TextFact DEF RecordInv, TextInv
    <2> QED BY <2>1, <2>2
  <1>7. \A v \in Threads : v # w => /\ wpc'[v] = wpc[v] /\ tpc'[v] = tpc[v]
                                    /\ line'[v] = line[v]
    BY <1>1 DEF IInv, TypeOK, TprintfTypeOK
  <1>8. wpc'[w] = "release" /\ tpc'[w] = "enter" /\ line'[w] = <<pos[w], Word(s)>>
    BY <1>1 DEF IInv, TypeOK, TprintfTypeOK
  <1>9. CallInv'
    <2> SUFFICES ASSUME NEW v \in Threads, v # w, tpc[v] # "idle"
                 PROVE  /\ runner[Task(v)] = v
                        /\ \/ wpc[v] = "run" /\ line[v] = <<pos[v], "Started">>
                           \/ /\ wpc[v] = "release"
                              /\ line[v] = <<pos[v], Word(status'[Task(v)])>>
      BY <1>1, <1>2, <1>4, <1>7, <1>8 DEF CallInv, Task
    <2>1. wpc[v] = "release" => Task(v) \in Tasks /\ lock[Task(v)] = v
      BY TaskFact DEF IInv, PoolInv, PhaseInv, OnTask, LockInv, Holding
    <2>2. wpc[v] = "release" => status'[Task(v)] = status[Task(v)]
      BY <1>2, <1>4, <2>1
    <2> QED BY <2>2 DEF RecordInv, CallInv
  <1>10. BeforeInv'
    <2>1. \A i \in Texts : stdout[i].line[1] = pos[w] => stdout[i].line[2] = "Started"
      BY <1>5 DEF Task
    <2> QED BY <1>1, <1>3, <1>7, <1>8, <2>1 DEF RecordInv, BeforeInv
  <1> QED BY <1>3, <1>6, <1>9, <1>10 DEF RecordInv

(* A step of tprintf.  Only a text is about a task, and the thread that    *)
(* prints it holds the task's lock, or is the only one to work on it.      *)
LEMMA LogRecord ==
  ASSUME IInv, RecordInv, NEW w \in Threads, Log(w)
  PROVE  RecordInv'
  <1>1. /\ tpc[w] # "idle"
        /\ UNCHANGED <<phase, tasks, status, runner, wpc, pos>>
    BY DEF Log, TprintfStep, TprintfLock, TprintfId, TprintfText, TprintfUnlock,
           driverVars, taskVars, workerVars
  <1>2. \A v \in Threads : v # w => tpc'[v] = tpc[v] /\ line'[v] = line[v]
    BY DEF Log, TprintfStep, TprintfLock, TprintfId, TprintfText, TprintfUnlock,
           Return, IInv, TypeOK, TprintfTypeOK
  <1>3. /\ tpc'[w] # "idle" => line'[w] = line[w]
        /\ tpc'[w] \in {"enter", "id", "text"} => tpc[w] \in {"enter", "id"}
    BY DEF Log, TprintfStep, TprintfLock, TprintfId, TprintfText, TprintfUnlock,
           Return, IInv, TypeOK, TprintfTypeOK
  <1>4. CallInv'
    BY <1>1, <1>2, <1>3 DEF RecordInv, CallInv, Task
  <1>5. CASE Texts' = Texts /\ \A i \in Texts : stdout'[i] = stdout[i]
    <2>1. TextInv' /\ OrderInv'
      BY <1>1, <1>5 DEF RecordInv, TextInv, OrderInv
    <2>2. BeforeInv'
      BY <1>1, <1>2, <1>3, <1>5 DEF RecordInv, BeforeInv
    <2> QED BY <1>4, <2>1, <2>2 DEF RecordInv
  <1>6. CASE tpc[w] = "text" /\ PrintPart(w, "text")
    <2> DEFINE n == Len(stdout) + 1
               a == [thread |-> w, part |-> "text", line |-> line[w]]
    <2>1. a \in Fragment
      BY <1>1 DEF IInv, TprintfInv, LineInv, Fragment
    <2>2. /\ n \in Nat /\ Len(stdout') = n /\ stdout'[n] = a
          /\ \A i \in 1 .. Len(stdout) : stdout'[i] = stdout[i]
      BY <1>6, <2>1, PrintFact DEF PrintPart, IInv, TypeOK, TprintfTypeOK
    <2>3. Texts' = Texts \union {n} /\ \A i \in Texts : stdout'[i] = stdout[i] /\ i < n
      BY <2>2 DEF Texts
    <2>4. /\ runner[Task(w)] = w
          /\ \/ wpc[w] = "run" /\ line[w] = <<pos[w], "Started">>
             \/ wpc[w] = "release" /\ line[w] = <<pos[w], Word(status[Task(w)])>>
      BY <1>1 DEF RecordInv, CallInv
    <2>5. /\ phase = "run" /\ pos[w] \in 1 .. Len(tasks) /\ Task(w) \in Tasks
          /\ line[w][1] = pos[w]
      BY <2>4, TaskFact DEF IInv, PoolInv, PhaseInv, OnTask
    <2>6. /\ wpc[w] = "run" => status[Task(w)] = "STARTED"
          /\ wpc[w] = "release" => status[Task(w)] \in Settled
      BY DEF IInv, PoolInv, ClaimInv, Owning
    <2>7. \A i \in Texts : stdout[i].line[1] = pos[w] =>
            wpc[w] = "release" /\ stdout[i].line[2] = "Started" /\ stdout[i].thread = w
      <3> SUFFICES ASSUME NEW i \in Texts, stdout[i].line[1] = pos[w]
                   PROVE  /\ wpc[w] = "release" /\ stdout[i].line[2] = "Started"
                          /\ stdout[i].thread = w
        OBVIOUS
      <3>1. wpc[w] = "release" /\ stdout[i].line[2] = "Started"
        BY <1>6 DEF RecordInv, BeforeInv
      <3>2. stdout[i].thread = runner[Task(w)]
        BY <2>5 DEF RecordInv, TextInv, Task
      <3> QED BY <2>4, <3>1, <3>2
    <2>8. TextInv'
      <3>1. \A i \in Texts : stdout'[i] = stdout[i] /\ i \in Texts'
        BY <2>3
      <3>2. LET s == status[tasks[a.line[1]]] IN
              /\ a.line[1] \in 1 .. Len(tasks)
              /\ a.thread = runner[tasks[a.line[1]]]
              /\ s \in {"STARTED"} \union Settled
              /\ a.line[2] = "Success" => s = "SUCCESS"
              /\ a.line[2] = "Failure" => s = "FAILURE"
        <4>1. a.line = line[w] /\ a.thread = w /\ tasks[a.line[1]] = Task(w)
          BY <2>5 DEF Task
        <4>2. CASE wpc[w] = "run"
          <5>1. line[w][2] = "Started"
            BY <2>4, <4>2
          <5> QED BY <2>4, <2>5, <2>6, <4>1, <4>2, <5>1
        <4>3. CASE wpc[w] = "release"
          <5>1. line[w][2] = Word(status[Task(w)])
            BY <2>4, <4>3
          <5> QED BY <2>4, <2>5, <2>6, <4>1, <4>3, <5>1 DEF Word, Settled
        <4> QED BY <2>4, <4>2, <4>3
      <3>3. ASSUME NEW i \in Texts' PROVE i \in Texts \/ (i = n /\ stdout'[i] = a)
        BY <2>2, <2>3
      <3> QED BY <1>1, <2>5, <3>1, <3>2, <3>3 DEF RecordInv, TextInv
    <2>9. OrderInv'
      <3>1. wpc[w] = "release" => line[w][2] # "Started"
        BY <2>4 DEF Word
      <3> SUFFICES ASSUME NEW i \in Texts', NEW j \in Texts', i < j,
                          stdout'[i].line[1] = stdout'[j].line[1]
                   PROVE  /\ stdout'[i].thread = stdout'[j].thread
                          /\ stdout'[i].line[2] = "Started"
                          /\ stdout'[j].line[2] # "Started"
        BY DEF OrderInv
      <3>2. CASE j \in Texts
        <4>1. i \in Texts /\ stdout'[i] = stdout[i] /\ stdout'[j] = stdout[j]
          <5>1. i # n
            <6>1. j < n /\ j \in Nat /\ n \in Nat
              BY <2>2, <2>3, <3>2 DEF Texts
            <6> HIDE DEF n
            <6> QED BY <6>1
          <5>2. i \in Texts
            BY <2>3, <5>1
          <5> QED BY <2>3, <3>2, <5>2
        <4> QED BY <3>2, <4>1 DEF RecordInv, OrderInv
      <3>3. CASE j = n
        <4>1. i \in Texts /\ stdout'[i] = stdout[i] /\ stdout'[j] = a
          <5>1. i # n
            <6>1. i < n /\ i \in Nat /\ n \in Nat
              BY <2>2, <3>3 DEF Texts
            <6> HIDE DEF n, a
            <6> QED BY <6>1
          <5>2. stdout'[j] = a
            BY <2>2, <3>3
          <5> HIDE DEF n, a
          <5> QED BY <2>3, <5>1, <5>2
        <4>2. stdout[i].line[1] = pos[w]
          BY <2>5, <4>1
        <4> QED BY <2>7, <3>1, <4>1, <4>2
      <3> QED BY <2>3, <3>2, <3>3
    <2>10. BeforeInv'
      <3> SUFFICES ASSUME NEW v \in Threads, tpc'[v] \in {"enter", "id", "text"},
                          NEW i \in Texts', stdout'[i].line[1] = pos[v]
                   PROVE  wpc[v] = "release" /\ stdout'[i].line[2] = "Started"
        BY <1>1 DEF BeforeInv
      <3>1. v # w
        BY <1>3, <1>6
      <3>2. tpc[v] \in {"enter", "id", "text"}
        BY <1>2, <3>1
      <3>3. i # n
        <4>1. pos[v] # pos[w]
          <5> SUFFICES ASSUME pos[v] = pos[w] PROVE FALSE
            OBVIOUS
          <5>1. runner[Task(v)] = v
            BY <3>2 DEF RecordInv, CallInv
          <5> QED BY <2>4, <3>1, <5>1 DEF Task
        <4> QED BY <2>2, <2>5, <4>1
      <3> QED BY <2>3, <3>2, <3>3 DEF RecordInv, BeforeInv
    <2> QED BY <1>4, <2>8, <2>9, <2>10 DEF RecordInv
  <1>7. \/ Texts' = Texts /\ \A i \in Texts : stdout'[i] = stdout[i]
        \/ tpc[w] = "text" /\ PrintPart(w, "text")
    <2>1. CASE stdout' = stdout
      BY <2>1 DEF Texts
    <2>2. CASE tpc[w] = "id" /\ PrintPart(w, "id")
      <3> DEFINE a == [thread |-> w, part |-> "id", line |-> line[w]]
      <3>1. a \in Fragment
        BY <1>1 DEF IInv, TprintfInv, LineInv, Fragment
      <3>2. /\ Len(stdout) \in Nat /\ Len(stdout') = Len(stdout) + 1
            /\ stdout'[Len(stdout) + 1] = a
            /\ \A i \in 1 .. Len(stdout) : stdout'[i] = stdout[i]
        BY <2>2, <3>1, PrintFact DEF PrintPart, IInv, TypeOK, TprintfTypeOK
      <3> QED BY <3>2 DEF Texts
    <2> QED BY <2>1, <2>2 DEF Log, TprintfStep, TprintfLock, TprintfId,
                              TprintfText, TprintfUnlock
  <1> QED BY <1>5, <1>6, <1>7

LEMMA NextRecord == IInv /\ RecordInv /\ [Next]_vars => RecordInv'
  <1> SUFFICES ASSUME IInv, RecordInv, [Next]_vars PROVE RecordInv'
    OBVIOUS
  <1>1. CASE Driver
    BY <1>1, DriverRecord
  <1>2. ASSUME NEW w \in Threads, Worker(w) PROVE RecordInv'
    <2>1. CASE \/ Enter(w) \/ LockTask(w) \/ Check(w) \/ RunEntry(w)
               \/ Relock(w) \/ Release(w) \/ EndPass(w)
      <3>1. /\ tpc[w] = "idle"
            /\ UNCHANGED <<tpc, line, stdout, phase, tasks, status, runner>>
        BY <2>1 DEF Enter, LockTask, Check, RunEntry, Relock, Release, EndPass,
                    At, tprintfVars, driverVars, taskVars
      <3>2. \A v \in Threads : v # w => wpc'[v] = wpc[v] /\ pos'[v] = pos[v]
        BY <2>1 DEF Enter, LockTask, Check, RunEntry, Relock, Release, EndPass,
                    Goto, IInv, TypeOK
      <3> QED BY <3>1, <3>2, QuietRecord
    <2> QED BY <1>2, <2>1, ClaimRecord, SettleRecord, LogRecord DEF Worker
  <1>3. CASE UNCHANGED vars
    BY <1>3 DEF vars, tprintfVars, driverVars, taskVars, workerVars, RecordInv,
                CallInv, TextInv, BeforeInv, OrderInv, Texts, Task
  <1> QED BY <1>1, <1>2, <1>3 DEF Next, Exited

(* Nothing was printed when the program starts. *)
LEMMA InitRecord == Init => RecordInv
  <1>1. Init => Texts = {}
    BY DEF Init, TprintfInit, Texts
  <1> QED BY <1>1 DEF Init, TprintfInit, RecordInv, CallInv, TextInv, BeforeInv,
                      OrderInv

(* Each lock is held by the thread between its lock and its unlock, on the *)
(* task that thread works on, and none when the threads have returned: a   *)
(* thread inside tprintf is at one of two places of exec_tasks, which is   *)
(* why the record of what it prints is needed.                             *)
THEOREM EveryLockGivenBack == Spec => []LocksPaired
  <1>1. IInv /\ RecordInv => LocksPaired
    <2> SUFFICES ASSUME IInv, RecordInv PROVE LocksPaired
      OBVIOUS
    <2> USE DEF IInv, PoolInv
    <2>1. \A w \in Threads : mutex = w <=> tpc[w] \in {"id", "text", "unlock"}
      BY DEF TprintfInv, MutexInv
    <2>2. ASSUME NEW w \in Threads, NEW k \in Tasks
          PROVE  lock[k] = w <=> /\ wpc[w] \in {"check", "claim", "settle", "release"}
                                 /\ Task(w) = k
      BY DEF LockInv, Holding
    <2>3. ASSUME phase # "run", NEW w \in Threads
          PROVE  wpc[w] \notin OnTask
      BY <2>3 DEF PhaseInv
    <2>4. ASSUME phase # "run" PROVE mutex = Nobody
      <3> SUFFICES ASSUME NEW w \in Threads, mutex = w PROVE FALSE
        BY DEF TypeOK, TprintfTypeOK
      <3>1. tpc[w] # "idle"
        BY <2>1
      <3>2. wpc[w] \in OnTask
        BY <3>1 DEF RecordInv, CallInv, OnTask
      <3> QED BY <2>3, <2>4, <3>2
    <2>5. ASSUME phase # "run", NEW k \in Tasks PROVE lock[k] = Nobody
      <3> SUFFICES ASSUME NEW w \in Threads, lock[k] = w PROVE FALSE
        BY DEF TypeOK
      <3>1. wpc[w] \in OnTask
        BY <2>2 DEF OnTask
      <3> QED BY <2>3, <2>5, <3>1
    <2>6. TypeOK
      OBVIOUS
    <2> QED BY <2>1, <2>2, <2>4, <2>5, <2>6 DEF LocksPaired
  <1> QED BY <1>1, InitRecord, NextRecord, InductiveInvariant, PTL DEF Spec

(* What the threads print of a task agrees with the task and comes in      *)
(* order, from one thread, although each line is printed after the status  *)
(* was written and, for Started, with the task unlocked.                   *)
THEOREM LogIsTrue == Spec => []LogTellsTheTruth
  <1>1. RecordInv => LogTellsTheTruth
    BY DEF RecordInv, TextInv, OrderInv, LogTellsTheTruth, Texts
  <1> QED BY <1>1, InitRecord, NextRecord, InductiveInvariant, PTL DEF Spec

-----------------------------------------------------------------------------
(* How the steps of the pool look on the board.                            *)

(* Settled tasks are changed only by DestroyTask. *)
LEMMA FinalStep ==
  ASSUME IInv, [Next]_vars, NEW k \in Tasks, status[k] \in Settled,
         status'[k] # "gone"
  PROVE  status'[k] = status[k] /\ result'[k] = result[k]
  <1> USE DEF IInv, PoolInv
  <1>1. CASE UNCHANGED <<status, result>>
    BY <1>1
  <1>2. CASE CreateTask
    <2>1. created + 1 # k
      BY <1>2 DEF ListInv, TypeOK, Settled, Tasks
    <2> QED BY <1>2, <2>1 DEF CreateTask, TypeOK
  <1>3. CASE DestroyTask
    <2>1. Head(tasks) # k
      BY <1>3 DEF DestroyTask, TypeOK
    <2> QED BY <1>3, <2>1 DEF DestroyTask, TypeOK
  <1>4. ASSUME NEW w \in Threads, Claim(w) \/ RunEntry(w) \/ Settle(w)
        PROVE  status'[k] = status[k] /\ result'[k] = result[k]
    <2>1. wpc[w] \in {"claim", "run", "settle"}
      BY <1>4 DEF Claim, RunEntry, Settle, At
    <2>2. status[Task(w)] \in {"PENDING", "STARTED"}
      BY <2>1 DEF ClaimInv, Owning
    <2>3. Task(w) # k
      BY <2>2 DEF Settled
    <2> QED BY <1>4, <2>3 DEF Claim, RunEntry, Settle, TypeOK
  <1>5. \/ UNCHANGED <<status, result>> \/ CreateTask \/ DestroyTask
        \/ \E w \in Threads : Claim(w) \/ RunEntry(w) \/ Settle(w)
    BY DEF Next, Driver, Worker, Exited, Launch, Join, Finish, Enter, LockTask,
           Check, Relock, Release, EndPass, Log, vars, taskVars
  <1> QED BY <1>1, <1>2, <1>3, <1>4, <1>5

(* What was published of a settled task does not change until it is freed. *)
THEOREM PublishedResultsAreFinal == Spec => ResultsAreFinal
  <1>1. IInv /\ [Next]_vars =>
          [\A k \in Tasks :
             status[k] \in Settled /\ status'[k] # "gone"
               => status'[k] = status[k] /\ result'[k] = result[k]]_vars
    BY FinalStep
  <1> QED BY <1>1, InductiveInvariant, PTL DEF Spec, ResultsAreFinal

(* The initial states of the pool are initial states of the board. *)
LEMMA BoardInit == Init => Board!Init
  BY DEF Init, Board!Init, publishedResult, Settled

(* A step that changes neither the status nor the published result of a    *)
(* task is a stutter of the board.                                         *)
LEMMA BoardStutter ==
  ASSUME UNCHANGED <<status, result, runner>>
  PROVE  UNCHANGED Board!boardVars
  BY DEF Board!boardVars, publishedResult

(* A step of the pool is a step of the board or a stutter. *)
LEMMA BoardStep == IInv /\ [Next]_vars => [Board!Next]_(Board!boardVars)
  <1> SUFFICES ASSUME IInv, [Next]_vars
               PROVE  Board!Next \/ UNCHANGED Board!boardVars
    OBVIOUS
  <1> USE DEF IInv, PoolInv
  <1>1. CASE UNCHANGED <<status, result, runner>>
    BY <1>1, BoardStutter
  <1>2. CASE CreateTask
    <2>1. CASE status' = [status EXCEPT ![created + 1] = "PENDING"]
      <3> DEFINE k == created + 1
      <3>1. k \in Tasks /\ status[k] = "absent"
        BY <1>2, TaskPoolAssumption
        DEF CreateTask, MoreTasks, ListInv, TypeOK, Tasks
      <3>2. publishedResult' = publishedResult
        BY <1>2, <2>1, <3>1 DEF CreateTask, publishedResult, Settled, TypeOK
      <3>3. Board!Post(k)
        BY <1>2, <2>1, <3>1, <3>2 DEF CreateTask, ListAdd, Board!Post
      <3> QED BY <3>1, <3>3 DEF Board!Next
    <2>2. CASE UNCHANGED status
      BY <1>2, <2>2, BoardStutter DEF CreateTask
    <2> QED BY <1>2, <2>1, <2>2 DEF CreateTask
  <1>3. CASE DestroyTask
    <2> DEFINE k == Head(tasks)
    <2>1. k = tasks[1] /\ 1 \in 1 .. Len(tasks) /\ k \in Tasks
      BY <1>3 DEF DestroyTask, TypeOK
    <2>2. status[k] \in {"PENDING", "SUCCESS", "FAILURE"}
      BY <1>3, <2>1, QuiescentFact DEF DestroyTask, ListInv, TypeOK, Settled
    <2>3. publishedResult' = [publishedResult EXCEPT ![k] = NULL]
      BY <1>3, <2>1 DEF DestroyTask, publishedResult, Settled, TypeOK
    <2>4. Board!Retire(k)
      BY <1>3, <2>2, <2>3 DEF DestroyTask, Board!Retire
    <2> QED BY <2>1, <2>4 DEF Board!Next
  <1>4. ASSUME NEW w \in Threads, Claim(w) PROVE Board!Next
    <2>1. wpc[w] = "claim"
      BY <1>4 DEF Claim, At
    <2>2. Task(w) \in Tasks /\ status[Task(w)] = "PENDING"
      BY <2>1, TaskFact DEF PhaseInv, OnTask, ClaimInv
    <2>3. publishedResult' = publishedResult
      BY <1>4, <2>2 DEF Claim, publishedResult, Settled, TypeOK
    <2>4. Board!Start(Task(w))
      BY <1>4, <2>2, <2>3 DEF Claim, Board!Start
    <2> QED BY <2>2, <2>4 DEF Board!Next
  <1>5. ASSUME NEW w \in Threads, RunEntry(w)
        PROVE  UNCHANGED Board!boardVars
    <2>1. status[Task(w)] = "STARTED"
      BY <1>5 DEF RunEntry, At, ClaimInv, Owning
    <2>2. publishedResult' = publishedResult
      BY <1>5, <2>1 DEF RunEntry, publishedResult, Settled, TypeOK
    <2> QED BY <1>5, <2>2 DEF RunEntry, Board!boardVars
  <1>6. ASSUME NEW w \in Threads, Settle(w) PROVE Board!Next
    <2> DEFINE k == Task(w)
    <2> DEFINE r == result[k]
    <2>1. wpc[w] = "settle"
      BY <1>6 DEF Settle, At
    <2>2. k \in Tasks /\ status[k] = "STARTED"
      BY <2>1, TaskFact DEF PhaseInv, OnTask, ClaimInv, Owning
    <2>3. r \in Results \union {NULL}
      BY <2>2 DEF TypeOK
    <2>4. status' = [status EXCEPT ![k] = Outcome(r)] /\ UNCHANGED <<result, runner>>
      BY <1>6 DEF Settle
    <2>5. publishedResult' = [publishedResult EXCEPT ![k] = r]
      BY <2>2, <2>4 DEF publishedResult, Settled, Outcome, TypeOK
    <2>6. Board!Settle(k)
      BY <2>2, <2>3, <2>4, <2>5 DEF Board!Settle, Outcome
    <2> QED BY <2>2, <2>6 DEF Board!Next
  <1>7. \/ UNCHANGED <<status, result, runner>> \/ CreateTask \/ DestroyTask
        \/ \E w \in Threads : Claim(w) \/ RunEntry(w) \/ Settle(w)
    BY DEF Next, Driver, Worker, Exited, Launch, Join, Finish, Enter, LockTask,
           Check, Relock, Release, EndPass, Log, vars, taskVars
  <1> QED BY <1>1, <1>2, <1>3, <1>4, <1>5, <1>6, <1>7

(* The pool implements the board: every step of the pool is a step of the  *)
(* board, or one the board does not see.                                   *)
THEOREM PoolImplementsBoard == Spec => BoardSafety
  <1> QED BY BoardInit, BoardStep, InductiveInvariant, PTL DEF Spec, BoardSafety
=============================================================================
