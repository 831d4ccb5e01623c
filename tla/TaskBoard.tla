----------------------------- MODULE TaskBoard -----------------------------
(***************************************************************************)
(* What a pool of threads running exec_tasks() promises to the program     *)
(* that posts the tasks: a task is started by one thread, is settled once  *)
(* by the thread that started it, and its result and its final status      *)
(* become visible together.  Locks, passes over the list and the log are   *)
(* not part of the promise.                                                *)
(***************************************************************************)
CONSTANTS Tasks, Threads, Results, NULL, Nobody

VARIABLES
  status,   \* status[k]: "absent" before k is posted, "gone" once destroyed
  result,   \* result[k]: what the entry function of k returned
  runner    \* runner[k]: the thread that started k

boardVars == <<status, result, runner>>

Init ==
  /\ status = [k \in Tasks |-> "absent"]
  /\ result = [k \in Tasks |-> NULL]
  /\ runner = [k \in Tasks |-> Nobody]

Post(k) ==
  /\ status[k] = "absent"
  /\ status' = [status EXCEPT ![k] = "PENDING"]
  /\ UNCHANGED <<result, runner>>

Start(k) ==
  /\ status[k] = "PENDING"
  /\ status' = [status EXCEPT ![k] = "STARTED"]
  /\ \E w \in Threads : runner' = [runner EXCEPT ![k] = w]
  /\ UNCHANGED result

Settle(k) ==
  /\ status[k] = "STARTED"
  /\ \E r \in Results \union {NULL} :
       /\ result' = [result EXCEPT ![k] = r]
       /\ status' = [status EXCEPT
                       ![k] = IF r = NULL THEN "FAILURE" ELSE "SUCCESS"]
  /\ UNCHANGED runner

Retire(k) ==
  /\ status[k] \in {"PENDING", "SUCCESS", "FAILURE"}
  /\ status' = [status EXCEPT ![k] = "gone"]
  /\ result' = [result EXCEPT ![k] = NULL]
  /\ UNCHANGED runner

Next == \E k \in Tasks : Post(k) \/ Start(k) \/ Settle(k) \/ Retire(k)

(* A task that was started is settled. *)
Fairness == \A k \in Tasks : WF_boardVars(Settle(k))

Spec == Init /\ [][Next]_boardVars /\ Fairness
=============================================================================
