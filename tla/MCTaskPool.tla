----------------------------- MODULE MCTaskPool -----------------------------
(* Two threads over two tasks, with two calls of libc that may fail. *)
EXTENDS TaskPool

MCLines == (1 .. NTasks) \X {"Started", "Success", "Failure"}
=============================================================================
