----------------------------- MODULE StraceProofs -----------------------------
(***************************************************************************)
(* Proofs about the tracers, for processes that make any number of calls   *)
(* and receive any number of signals: what each tracer tells from the      *)
(* stops alone about the calls.                                            *)
(***************************************************************************)
EXTENDS Strace, TLAPS

(* The last call is entered and was not looked at; it was looked at and    *)
(* not yet when it returned; it was looked at when it returned.            *)
Fresh == tracee = "entry" /\ pc \in {"wait", "regs"}
InCall ==
  \/ tracee = "kernel"
  \/ tracee = "entry" /\ pc = "resume"
  \/ tracee = "exit" /\ pc \in {"wait", "regs"}
Past ==
  \/ tracee \in {"user", "loading", "exectrap", "sigtrap", "signal"}
  \/ tracee = "exit" /\ pc = "resume"
Live == tracee \notin {"killed", "reaped"}

Call == [nr : Numbers, ret : {"none", "ok", "error"}]
Line == [nr : Numbers \union {NO_CALL}, ret : {"none", "ok", "error", "?"}, call : Nat]

(* The variables, without those that hold truth values. *)
Values ==
  /\ tracee \in Stops \union Running \union Ended
  /\ calls \in Seq(Call) /\ signals \in 0 .. MaxSignals
  /\ tool \in Tools
  /\ pc \in {"first", "options", "resume", "wait", "regs", "end"}
  /\ trapCount \in 0 .. 3 /\ current \in Numbers \union {NO_CALL}
  /\ out \in Seq(Line)

Flags ==
  /\ crashing \in BOOLEAN /\ sysgood \in BOOLEAN
  /\ entryFlag \in BOOLEAN /\ startup \in BOOLEAN

(* Where the tracer may be while the process is where it is. *)
PlaceInv ==
  /\ pc = "first" => tracee \in {"start", "exited", "killed"}
  /\ pc = "options" => tool = "strace_2" /\ tracee \in {"start", "killed", "reaped"}
  /\ pc = "resume" => tracee \in Stops \union {"killed", "reaped"}
  /\ pc = "wait" => tracee \in (Stops \ {"start"}) \union Running \union {"exited", "killed"}
  /\ pc = "regs" => tracee \in {"entry", "exit", "exectrap", "sigtrap", "killed"}
  /\ pc = "regs" /\ tool = "strace_2" => tracee \in {"entry", "exit", "killed"}
  /\ pc = "end" => tracee \in {"reaped", "killed"} \/ (tool = "main" /\ tracee \in Stops)
  /\ tool = "strace_2" /\ Live /\ pc \notin {"first", "options"} => sysgood

(* Every call but the last has returned. *)
CallInv ==
  /\ \A i \in 1 .. Len(calls) - 1 : calls[i].ret \in {"ok", "error"} /\ calls[i].nr \notin Exits
  /\ tracee = "start" => calls = <<>>
  /\ tracee \in (Stops \ {"start"}) \union {"kernel", "loading"} => calls # <<>>
  /\ tracee \in {"entry", "kernel"} => ret = "none"
  /\ Past \/ tracee = "exit" => calls = <<>> \/ (ret \in {"ok", "error"} /\ nr \notin Exits)
  /\ tracee \in {"loading", "exectrap"} => nr = EXECVE /\ ret = "ok"
  /\ tracee = "exited" => calls = <<>> \/ nr \in Exits
  /\ tracee \in {"sigtrap", "signal"} \/ crashing => signals > 0
  /\ signals > 0 => Execs # {}

(* strace_0 and strace_1: the phase in which execve is starting.           *)
StartInv ==
  tool \in Numbering =>
    /\ calls # <<>> => calls[1].nr = EXECVE
    /\ startup => trapCount <= 2
    /\ Live /\ startup =>
         \/ calls = <<>> /\ trapCount = 0
         \/ Len(calls) = 1 /\ Fresh /\ trapCount = 0
         \/ Len(calls) = 1 /\ InCall /\ trapCount = 1
         \/ /\ Len(calls) = 1 /\ trapCount = 2
            /\ \/ tracee = "exit" /\ pc = "resume"
               \/ tracee = "loading"
               \/ tracee = "exectrap" /\ pc \in {"wait", "regs"}
               \/ tracee = "user" /\ ret = "error"
         \/ Len(calls) = 2 /\ Fresh /\ nr = EXIT_GROUP
    /\ Live /\ ~ startup =>
         /\ calls # <<>>
         /\ Len(calls) = 1 =>
              \/ tracee \in {"user", "sigtrap", "signal"}
              \/ tracee = "exectrap" /\ pc = "resume"

(* Each call was printed at its first stop or is at its second.            *)
MissInv ==
  tool \in Numbering =>
    /\ \A i \in DOMAIN calls : i < Len(calls) \/ Past => \E j \in DOMAIN out : out[j].call = i
    /\ InCall => \/ \E j \in DOMAIN out : out[j].call = Len(calls)
                 \/ entryFlag /\ ~ startup

(* Without further traps the flag is right. *)
OneLineInv ==
  tool \in Numbering /\ signals = 0 /\ Execs \subseteq {1} =>
    /\ Len(out) <= Len(calls)
    /\ \A j \in DOMAIN out : out[j].call = j /\ out[j].nr = calls[j].nr
    /\ Live => Len(out) = IF Fresh THEN Len(calls) - 1 ELSE Len(calls)
    /\ Live /\ ~ startup => /\ Fresh \/ Past => entryFlag
                            /\ InCall /\ nr # EXIT_GROUP => ~ entryFlag

(* main: the flag is right until the program is loaded, and wrong from     *)
(* then on.                                                                *)
Loading ==
  /\ Len(calls) = 1
  /\ \/ tracee \in {"exit", "loading"}
     \/ tracee = "exectrap" /\ pc \in {"wait", "regs"}

Traces == Live /\ pc # "end" /\ tracee # "exited"

MainInv ==
  tool = "main" =>
    /\ calls # <<>> => calls[1].nr = EXECVE
    /\ IF pc = "end" THEN Len(out) <= 1 ELSE out = <<>>
    /\ \A j \in DOMAIN out : out[j].nr \in Exits
    /\ out # <<>> => Execs # {}
    /\ pc = "end" /\ Live =>
         out = <<[nr |-> nr, ret |-> "?", call |-> Len(calls)]>>
    /\ Traces /\ Execs = {} => (entryFlag <=> ~ InCall)
    /\ Traces /\ signals = 0 /\ Execs = {1} =>
         /\ Loading => (entryFlag <=> ~ InCall)
         /\ ~ Loading => (entryFlag <=> InCall)
    /\ Live /\ signals = 0 /\ Execs = {1} /\ (InCall \/ tracee = "exited") =>
         nr \notin Exits

(* strace_2: the flag is clear inside of a call that is to be printed.     *)
EntryInv ==
  tool = "strace_2" /\ Live =>
    /\ ~ entryFlag <=> InCall /\ nr \notin Exits /\ (startup => nr = EXECVE)
    /\ ~ entryFlag => current = nr
    /\ startup => \A i \in DOMAIN calls : calls[i].nr = EXECVE => i = Len(calls) /\ ~ Past
    /\ ~ startup =>
         \E i \in DOMAIN calls : calls[i].nr = EXECVE /\ (i < Len(calls) \/ Past)

(* The calls that strace_2 has printed. *)
Done_2(i) ==
  /\ \E j \in 1 .. i : calls[j].nr = EXECVE
  /\ calls[i].nr # IOCTL
  /\ \/ i < Len(calls) \/ Past
     \/ (InCall \/ tracee = "exited") /\ calls[i].nr \in Exits

PairInv ==
  tool = "strace_2" /\ Live =>
    /\ \A i \in DOMAIN calls : (\E j \in DOMAIN out : out[j].call = i) <=> Done_2(i)
    /\ \A j \in DOMAIN out :
         /\ out[j].call \in DOMAIN calls
         /\ out[j].nr = calls[out[j].call].nr
         /\ out[j].ret = IF out[j].nr \in Exits THEN "?" ELSE calls[out[j].call].ret
    /\ \A j, k \in DOMAIN out : k < j => out[k].call < out[j].call

IInv ==
  /\ Values /\ Flags /\ PlaceInv /\ CallInv
  /\ StartInv /\ MissInv /\ OneLineInv /\ MainInv /\ EntryInv /\ PairInv
-----------------------------------------------------------------------------
LEMMA CallsFact ==
  ASSUME Values
  PROVE  /\ Len(calls) \in Nat /\ DOMAIN calls = 1 .. Len(calls)
         /\ calls # <<>> <=> Len(calls) # 0
         /\ \A i \in 1 .. Len(calls) : calls[i] \in Call
         /\ Len(out) \in Nat /\ DOMAIN out = 1 .. Len(out)
         /\ out # <<>> <=> Len(out) # 0
  BY DEF Values

LEMMA PhaseFact ==
  ASSUME Values
  PROVE  /\ Fresh \/ InCall \/ Past => Live
         /\ ~ (Fresh /\ InCall) /\ ~ (Fresh /\ Past) /\ ~ (InCall /\ Past)
         /\ Live /\ pc # "end" => \/ tracee \in {"start", "exited"}
                                  \/ Fresh \/ InCall \/ Past
                                  \/ pc \in {"first", "options"}
  BY DEF Values, Fresh, InCall, Past, Live, Stops, Running, Ended

LEMMA InitIInv == Init => IInv
  <1> SUFFICES ASSUME Init PROVE IInv
    OBVIOUS
  <1>1. /\ calls = <<>> /\ out = <<>> /\ signals = 0 /\ pc = "first"
        /\ tracee \in {"start", "exited"}
        /\ trapCount = 0 /\ current = NO_CALL /\ tool \in Tools
        /\ Len(<<>>) = 0 /\ DOMAIN calls = {} /\ DOMAIN out = {}
    BY DEF Init, TraceeInit
  <1>2. crashing = FALSE /\ entryFlag = TRUE /\ startup = TRUE /\ sysgood = FALSE
    BY DEF Init, TraceeInit
  <1>3. Values
    <2>1. <<>> \in Seq(Call) /\ <<>> \in Seq(Line)
      OBVIOUS
    <2> QED BY <1>1, <2>1, StraceAssumption DEF Values, Stops, Running, Ended
  <1>4. Flags
    BY <1>2 DEF Flags
  <1>5. ~ Fresh /\ ~ InCall /\ ~ Past /\ Execs = {}
    BY <1>1 DEF Fresh, InCall, Past, Execs
  <1>6. PlaceInv
    BY <1>1 DEF PlaceInv, Live
  <1>7. CallInv
    BY <1>1, <1>2, <1>5 DEF CallInv, Stops
  <1>8. StartInv /\ MissInv /\ OneLineInv
    BY <1>1, <1>2, <1>5 DEF StartInv, MissInv, OneLineInv
  <1>9. MainInv /\ EntryInv /\ PairInv
    BY <1>1, <1>2, <1>5 DEF MainInv, EntryInv, PairInv, Traces, Loading
  <1> QED BY <1>3, <1>4, <1>6, <1>7, <1>8, <1>9 DEF IInv
-----------------------------------------------------------------------------
(* A step of the process or of the tracer that neither makes a call nor    *)
(* handles a stop.                                                         *)
LEMMA MoveInv ==
  ASSUME IInv, UNCHANGED <<tool, calls, flagVars, out>>,
         signals' = signals \/ signals' > 0,
         pc # "end", pc' = "end" => ~ Live',
         Live' => /\ Live /\ (Fresh' <=> Fresh) /\ (InCall' <=> InCall)
                  /\ Past => Past'
                  /\ Past' => Past \/ calls = <<>>
                  /\ tracee = "exited" <=> tracee' = "exited"
                  /\ tool = "main" /\ Execs = {1} => (Loading' <=> Loading),
         Values', StartInv'
  PROVE  MissInv' /\ OneLineInv' /\ MainInv' /\ EntryInv' /\ PairInv'
  <1>0. /\ Values /\ CallInv /\ StartInv
        /\ MissInv /\ OneLineInv /\ MainInv /\ EntryInv /\ PairInv
    BY DEF IInv
  <1>1. UNCHANGED <<tool, calls, entryFlag, startup, trapCount, current, out>>
    BY DEF flagVars
  <1>2. Execs' = Execs /\ nr' = nr
    BY <1>1 DEF Execs, nr
  <1>3. Fresh' \/ InCall' \/ Past' => Live'
    BY DEF Fresh, InCall, Past, Live
  <1>4. calls = <<>> => DOMAIN calls = {}
    OBVIOUS
  <1>5. MissInv'
    BY <1>0, <1>1, <1>3, <1>4 DEF MissInv
  <1>6. OneLineInv'
    BY <1>0, <1>1, <1>2, <1>3 DEF OneLineInv, StartInv
  <1>7. MainInv'
    BY <1>0, <1>1, <1>2, <1>3 DEF MainInv, Traces
  <1>8. EntryInv'
    BY <1>0, <1>1, <1>2, <1>3, <1>4 DEF EntryInv
  <1>9. PairInv'
    BY <1>0, <1>1, <1>2, <1>3, <1>4 DEF PairInv, Done_2
  <1> QED BY <1>5, <1>6, <1>7, <1>8, <1>9

(* The first waitpid, and the option.                                      *)
LEMMA FirstWaitInv ==
  ASSUME IInv, FirstWait
  PROVE  IInv'
  <1>0. Values /\ Flags /\ PlaceInv /\ CallInv /\ StartInv
    BY DEF IInv
  <1>1. /\ pc = "first"
        /\ \/ tracee = "exited" /\ pc' = "end" /\ tracee' = "reaped"
           \/ /\ tracee = "start" /\ tracee' = "start"
              /\ pc' = IF tool = "strace_2" THEN "options" ELSE "resume"
           \/ /\ tracee = "killed" /\ tracee' = "reaped"
              /\ pc' = IF tool = "strace_2" THEN "options" ELSE "resume"
        /\ UNCHANGED <<tool, calls, signals, crashing, sysgood, flagVars, out>>
    BY DEF FirstWait
  <1>2. UNCHANGED <<entryFlag, startup, trapCount, current>>
    BY <1>1 DEF flagVars
  <1>3. /\ nr' = nr /\ ret' = ret /\ Execs' = Execs
        /\ ~ Fresh /\ ~ Fresh' /\ ~ InCall /\ ~ InCall' /\ ~ Past /\ ~ Past'
        /\ Live' => Live /\ (Loading' <=> Loading) /\ tracee' = "start" /\ tracee = "start"
    BY <1>1 DEF nr, ret, Execs, Fresh, InCall, Past, Live, Loading
  <1>4. Values'
    BY <1>0, <1>1, <1>2 DEF Values, Stops, Running, Ended
  <1>5. Flags'
    BY <1>0, <1>1, <1>2 DEF Flags
  <1>6. PlaceInv'
    BY <1>0, <1>1 DEF PlaceInv, Live, Stops
  <1>7. CallInv'
    BY <1>0, <1>1, <1>3 DEF CallInv, Stops
  <1>8. StartInv'
    BY <1>0, <1>1, <1>2, <1>3 DEF StartInv, CallInv, Live
  <1>9. MissInv' /\ OneLineInv' /\ MainInv' /\ EntryInv' /\ PairInv'
    BY <1>1, <1>3, <1>4, <1>8, MoveInv
  <1> QED BY <1>4, <1>5, <1>6, <1>7, <1>8, <1>9 DEF IInv

LEMMA SetOptionsInv ==
  ASSUME IInv, SetOptions
  PROVE  IInv'
  <1>0. Values /\ Flags /\ PlaceInv /\ CallInv /\ StartInv
    BY DEF IInv
  <1>1. /\ pc = "options" /\ pc' = "resume" /\ sysgood' = (tracee \in Stops)
        /\ UNCHANGED <<tool, tracee, calls, signals, crashing, flagVars, out>>
    BY DEF SetOptions, traceeVars
  <1>2. UNCHANGED <<entryFlag, startup, trapCount, current>>
    BY <1>1 DEF flagVars
  <1>3. tool = "strace_2" /\ tracee \in {"start", "killed", "reaped"}
    BY <1>0, <1>1 DEF PlaceInv
  <1>4. /\ nr' = nr /\ ret' = ret /\ Execs' = Execs
        /\ ~ Fresh /\ ~ Fresh' /\ ~ InCall /\ ~ InCall' /\ ~ Past /\ ~ Past'
        /\ Live' => Live /\ (Loading' <=> Loading)
    BY <1>1, <1>3 DEF nr, ret, Execs, Fresh, InCall, Past, Live, Loading
  <1>5. Values'
    BY <1>0, <1>1, <1>2 DEF Values
  <1>6. Flags'
    <2>1. sysgood' \in BOOLEAN
      BY <1>1
    <2> QED BY <1>0, <1>1, <1>2, <2>1 DEF Flags
  <1>7. PlaceInv'
    BY <1>0, <1>1, <1>3 DEF PlaceInv, Live, Stops
  <1>8. CallInv'
    BY <1>0, <1>1, <1>4 DEF CallInv
  <1>9. StartInv'
    BY <1>1, <1>3 DEF StartInv, Numbering
  <1>10. MissInv' /\ OneLineInv' /\ MainInv' /\ EntryInv' /\ PairInv'
    BY <1>1, <1>4, <1>5, <1>9, MoveInv
  <1> QED BY <1>5, <1>6, <1>7, <1>8, <1>9, <1>10 DEF IInv

(* A process that has stopped is set going again. *)
LEMMA ResumeInv ==
  ASSUME IInv, PtraceSyscall
  PROVE  IInv'
  <1>0. Values /\ Flags /\ PlaceInv /\ CallInv /\ StartInv
    BY DEF IInv
  <1>1. /\ pc = "resume"
        /\ \/ /\ tracee \in Stops /\ pc' = "wait"
              /\ tracee' = IF tracee = "entry" THEN "kernel"
                           ELSE IF tracee = "exit" /\ nr = EXECVE /\ ret = "ok" THEN "loading"
                           ELSE "user"
           \/ tracee \in Ended /\ pc' = "end" /\ tracee' = tracee
        /\ UNCHANGED <<tool, calls, signals, crashing, sysgood, flagVars, out>>
    BY DEF PtraceSyscall, Resume, AfterEsrch, traceeVars
  <1>2. UNCHANGED <<entryFlag, startup, trapCount, current>>
    BY <1>1 DEF flagVars
  <1>3. nr' = nr /\ ret' = ret /\ Execs' = Execs
    BY <1>1 DEF nr, ret, Execs
  <1>4. Values'
    BY <1>0, <1>1, <1>2 DEF Values, Stops, Running, Ended
  <1>5. Flags'
    BY <1>0, <1>1, <1>2 DEF Flags
  <1>6. CASE tracee \in Ended /\ pc' = "end" /\ tracee' = tracee
    <2>1. tracee \in {"killed", "reaped"}
      BY <1>0, <1>1, <1>6 DEF PlaceInv, Stops, Ended
    <2>2. ~ Live' /\ ~ Past' /\ ~ InCall'
      BY <1>6, <2>1 DEF Live, Past, InCall
    <2>3. PlaceInv'
      BY <1>0, <1>6, <2>1, <2>2 DEF PlaceInv
    <2>4. CallInv'
      BY <1>0, <1>1, <1>3, <1>6, <2>1, <2>2 DEF CallInv, Stops
    <2>5. StartInv'
      BY <1>0, <1>1, <1>2, <2>2 DEF StartInv
    <2>6. MissInv' /\ OneLineInv' /\ MainInv' /\ EntryInv' /\ PairInv'
      BY <1>1, <1>4, <2>2, <2>5, MoveInv
    <2> QED BY <1>4, <1>5, <2>3, <2>4, <2>5, <2>6 DEF IInv
  <1>7. CASE /\ tracee \in Stops /\ pc' = "wait"
             /\ tracee' = IF tracee = "entry" THEN "kernel"
                          ELSE IF tracee = "exit" /\ nr = EXECVE /\ ret = "ok" THEN "loading"
                          ELSE "user"
    <2>1. /\ Live' /\ Live /\ ~ Fresh /\ ~ Fresh' /\ tracee # "exited" /\ tracee' # "exited"
          /\ InCall <=> tracee = "entry"
          /\ InCall' <=> tracee = "entry"
          /\ Past <=> tracee \in {"exit", "exectrap", "sigtrap", "signal"}
          /\ Past' <=> tracee # "entry"
      BY <1>1, <1>7 DEF Live, Fresh, InCall, Past, Stops
    <2>2. tracee = "start" => calls = <<>>
      BY <1>0 DEF CallInv
    <2>3. Past' => Past \/ calls = <<>>
      BY <1>7, <2>1, <2>2 DEF Stops
    <2>4. Execs = {1} => (Loading' <=> Loading)
      <3>1. SUFFICES ASSUME Execs = {1}, Len(calls) = 1
                     PROVE  Loading' <=> Loading
        BY <1>1 DEF Loading
      <3>2. nr = EXECVE /\ ret = "ok"
        BY <3>1 DEF Execs, nr, ret
      <3> QED BY <1>1, <1>7, <3>1, <3>2 DEF Loading, Stops
    <2>5. PlaceInv'
      BY <1>0, <1>1, <1>7 DEF PlaceInv, Stops, Running, Live
    <2>6. CallInv'
      BY <1>0, <1>1, <1>3, <1>7, <2>1, <2>2 DEF CallInv, Stops
    <2>7. StartInv'
      <3>1. tracee = "exit" => ret \in {"ok", "error"}
        BY <1>0, <2>1 DEF CallInv, Stops
      <3>2. Len(calls) = 1 => nr = calls[1].nr
        BY DEF nr
      <3>3. SUFFICES ASSUME tool \in Numbering PROVE StartInv'
        BY <1>1 DEF StartInv
      <3>4. CASE startup
        <4>1. CASE tracee = "entry"
          BY <1>0, <1>1, <1>2, <1>3, <1>7, <2>1, <3>3, <3>4, <4>1 DEF StartInv
        <4>2. CASE tracee = "exit"
          BY <1>0, <1>1, <1>2, <1>3, <1>7, <2>1, <3>1, <3>2, <3>3, <3>4, <4>2 DEF StartInv
        <4>3. CASE tracee \notin {"entry", "exit"}
          BY <1>0, <1>1, <1>2, <1>3, <1>7, <2>1, <3>3, <3>4, <4>3 DEF StartInv, Stops
        <4> QED BY <4>1, <4>2, <4>3
      <3>5. CASE ~ startup
        BY <1>0, <1>1, <1>2, <1>3, <1>7, <2>1, <3>3, <3>5 DEF StartInv, Stops
      <3> QED BY <3>4, <3>5
    <2>8. MissInv' /\ OneLineInv' /\ MainInv' /\ EntryInv' /\ PairInv'
      <3>1. pc # "end" /\ pc' # "end"
        BY <1>1, <1>7
      <3> HIDE <1>7
      <3> QED BY <1>1, <1>4, <2>1, <2>3, <2>4, <2>7, <3>1, MoveInv
    <2> QED BY <1>4, <1>5, <2>5, <2>6, <2>7, <2>8 DEF IInv
  <1> QED BY <1>1, <1>6, <1>7

(* waitpid returns: what was stopped without need goes on at once. *)
LEMMA WaitInv ==
  ASSUME IInv, Wait
  PROVE  IInv'
  <1>0. Values /\ Flags /\ PlaceInv /\ CallInv /\ StartInv
    BY DEF IInv
  <1>1. /\ pc = "wait"
        /\ \/ tracee = "exited" /\ pc' = "end" /\ tracee' = "reaped"
           \/ tracee = "killed" /\ pc' = "resume" /\ tracee' = "reaped"
           \/ /\ tracee \in Stops /\ tracee' = tracee
              /\ pc' = IF Handled THEN "regs" ELSE "resume"
        /\ UNCHANGED <<tool, calls, signals, crashing, sysgood, flagVars, out>>
    BY DEF Wait, AfterOtherStop
  <1>2. UNCHANGED <<entryFlag, startup, trapCount, current>>
    BY <1>1 DEF flagVars
  <1>3. nr' = nr /\ ret' = ret /\ Execs' = Execs
    BY <1>1 DEF nr, ret, Execs
  <1>4. Values'
    BY <1>0, <1>1, <1>2 DEF Values, Ended
  <1>5. Flags'
    BY <1>0, <1>1, <1>2 DEF Flags
  <1>6. CASE tracee' = "reaped" /\ pc' \in {"resume", "end"}
    <2>1. ~ Live' /\ ~ Past' /\ ~ InCall'
      BY <1>6 DEF Live, Past, InCall
    <2>2. PlaceInv'
      BY <1>1, <1>6, <2>1 DEF PlaceInv
    <2>3. CallInv'
      BY <1>0, <1>1, <1>3, <1>6, <2>1 DEF CallInv, Stops
    <2>4. StartInv'
      BY <1>0, <1>1, <1>2, <2>1 DEF StartInv
    <2>5. MissInv' /\ OneLineInv' /\ MainInv' /\ EntryInv' /\ PairInv'
      BY <1>1, <1>4, <2>1, <2>4, MoveInv
    <2> QED BY <1>4, <1>5, <2>2, <2>3, <2>4, <2>5 DEF IInv
  <1>7. CASE tracee \in Stops /\ tracee' = tracee /\ pc' = IF Handled THEN "regs" ELSE "resume"
    <2>1. tracee \in {"entry", "exit", "exectrap", "sigtrap", "signal"}
      BY <1>0, <1>1, <1>7 DEF PlaceInv, Stops, Running
    <2>2. tracee \in {"entry", "exit"} => pc' = "regs"
      BY <1>0, <1>1, <1>7 DEF Handled, PlaceInv, Live
    <2>3. tool # "strace_2" /\ tracee = "exectrap" => pc' = "regs"
      BY <1>7 DEF Handled
    <2>4. pc' = "regs" => tracee \in IF tool = "strace_2" THEN {"entry", "exit"}
                                     ELSE {"entry", "exit", "exectrap", "sigtrap"}
      BY <1>7 DEF Handled
    <2>5. pc' \in {"regs", "resume"}
      BY <1>7
    <2>6. /\ Live' /\ Live /\ (Fresh' <=> Fresh) /\ (InCall' <=> InCall) /\ (Past' <=> Past)
      BY <1>1, <1>7, <2>1, <2>2, <2>5 DEF Live, Fresh, InCall, Past
    <2>7. tool # "strace_2" => (Loading' <=> Loading)
      BY <1>1, <1>7, <2>1, <2>3, <2>5 DEF Loading
    <2>8. PlaceInv'
      BY <1>0, <1>1, <1>7, <2>1, <2>4, <2>5 DEF PlaceInv, Stops, Live
    <2>9. CallInv'
      BY <1>0, <1>1, <1>3, <1>7, <2>6 DEF CallInv
    <2>10. StartInv'
      <3>1. SUFFICES ASSUME tool \in Numbering PROVE StartInv'
        BY <1>1 DEF StartInv
      <3>2. tool # "strace_2"
        BY <3>1 DEF Numbering
      <3> QED BY <1>0, <1>1, <1>2, <1>3, <1>7, <2>1, <2>2, <2>3, <2>5, <2>6, <3>1, <3>2
              DEF StartInv
    <2>11. MissInv' /\ OneLineInv' /\ MainInv' /\ EntryInv' /\ PairInv'
      BY <1>1, <1>4, <1>7, <2>6, <2>7, <2>10, MoveInv
    <2> QED BY <1>4, <1>5, <2>8, <2>9, <2>10, <2>11 DEF IInv
  <1> QED BY <1>1, <1>6, <1>7

LEMMA GetRegsFailsInv ==
  ASSUME IInv, GetRegsFails
  PROVE  IInv'
  <1>0. Values /\ Flags /\ PlaceInv /\ CallInv /\ StartInv
    BY DEF IInv
  <1>1. /\ pc = "regs" /\ tracee \in Ended /\ pc' = "end"
        /\ UNCHANGED <<tool, tracee, calls, signals, crashing, sysgood, flagVars, out>>
    BY DEF GetRegsFails, traceeVars
  <1>2. UNCHANGED <<entryFlag, startup, trapCount, current>>
    BY <1>1 DEF flagVars
  <1>3. nr' = nr /\ ret' = ret /\ Execs' = Execs /\ tracee = "killed"
    BY <1>0, <1>1 DEF nr, ret, Execs, PlaceInv, Ended
  <1>4. ~ Live' /\ ~ Past' /\ ~ InCall'
    BY <1>1, <1>3 DEF Live, Past, InCall
  <1>5. Values' /\ PlaceInv'
    BY <1>0, <1>1, <1>2, <1>3, <1>4 DEF Values, PlaceInv
  <1>6. Flags'
    BY <1>0, <1>1, <1>2 DEF Flags
  <1>7. CallInv'
    BY <1>0, <1>1, <1>3, <1>4 DEF CallInv
  <1>8. StartInv'
    BY <1>0, <1>1, <1>2, <1>4 DEF StartInv
  <1>9. MissInv' /\ OneLineInv' /\ MainInv' /\ EntryInv' /\ PairInv'
    BY <1>1, <1>4, <1>5, <1>8, MoveInv
  <1> QED BY <1>5, <1>6, <1>7, <1>8, <1>9 DEF IInv

LEMMA KilledInv ==
  ASSUME IInv, pc # "end", TraceeKilled, UNCHANGED <<tool, tracerVars>>
  PROVE  IInv'
  <1>0. Values /\ Flags /\ PlaceInv /\ CallInv /\ StartInv
    BY DEF IInv
  <1>1. /\ tracee \notin Ended /\ tracee' = "killed"
        /\ UNCHANGED <<tool, calls, signals, crashing, pc, sysgood, flagVars, out>>
    BY DEF TraceeKilled, tracerVars
  <1>2. UNCHANGED <<entryFlag, startup, trapCount, current>>
    BY <1>1 DEF flagVars
  <1>3. nr' = nr /\ ret' = ret /\ Execs' = Execs
    BY <1>1 DEF nr, ret, Execs
  <1>4. ~ Live' /\ ~ Past' /\ ~ InCall'
    BY <1>1 DEF Live, Past, InCall
  <1>5. Values' /\ PlaceInv'
    BY <1>0, <1>1, <1>2, <1>4 DEF Values, PlaceInv, Ended
  <1>6. Flags'
    BY <1>0, <1>1, <1>2 DEF Flags
  <1>7. CallInv'
    BY <1>0, <1>1, <1>3, <1>4 DEF CallInv, Stops
  <1>8. StartInv'
    BY <1>0, <1>1, <1>2, <1>4 DEF StartInv
  <1>9. MissInv' /\ OneLineInv' /\ MainInv' /\ EntryInv' /\ PairInv'
    BY <1>1, <1>4, <1>5, <1>8, MoveInv
  <1> QED BY <1>5, <1>6, <1>7, <1>8, <1>9 DEF IInv

(* The process loads a program, or gets a signal, outside of any call. *)
LEMMA LoadsInv ==
  ASSUME IInv, pc # "end", TraceeLoads \/ TraceeSignal, UNCHANGED <<tool, tracerVars>>
  PROVE  IInv'
  <1>0. Values /\ Flags /\ PlaceInv /\ CallInv /\ StartInv
    BY DEF IInv
  <1>1. /\ UNCHANGED <<tool, calls, pc, sysgood, entryFlag, startup, trapCount, current, out>>
        /\ UNCHANGED flagVars
    BY DEF TraceeLoads, TraceeSignal, tracerVars, flagVars
  <1>2. nr' = nr /\ ret' = ret /\ Execs' = Execs
    BY <1>1 DEF nr, ret, Execs
  <1>3. \/ /\ tracee = "loading" /\ tracee' = "exectrap"
           /\ UNCHANGED <<signals, crashing>>
        \/ /\ tracee = "user" /\ tracee' \in {"sigtrap", "signal"} /\ Execs # {}
           /\ signals' > 0 /\ signals' \in 0 .. MaxSignals
           /\ signals' = signals \/ signals' = signals + 1
    <2>1. signals \in 0 .. MaxSignals /\ MaxSignals \in Nat
      BY <1>0, StraceAssumption DEF Values
    <2>2. crashing => signals > 0
      BY <1>0 DEF CallInv
    <2> QED BY <2>1, <2>2 DEF TraceeLoads, TraceeSignal, Loaded
  <1>4. pc = "wait"
    BY <1>0, <1>3 DEF PlaceInv, Values, Stops, Running
  <1>5. /\ Live' /\ Live /\ ~ Fresh /\ ~ Fresh' /\ ~ InCall /\ ~ InCall' /\ Past /\ Past'
        /\ tracee # "exited" /\ tracee' # "exited"
        /\ Loading' <=> Loading
    BY <1>1, <1>3, <1>4 DEF Live, Fresh, InCall, Past, Loading
  <1>6. Values'
    BY <1>0, <1>1, <1>3 DEF Values, Stops, Running, Ended
  <1>7. Flags'
    <2>1. crashing' \in BOOLEAN
      BY <1>0 DEF Flags, TraceeLoads, TraceeSignal
    <2> QED BY <1>0, <1>1, <2>1 DEF Flags
  <1>8. PlaceInv'
    BY <1>0, <1>1, <1>3, <1>4 DEF PlaceInv, Stops, Live
  <1>9. CallInv'
    <2>1. signals > 0 => signals' > 0
      BY <1>3
    <2>2. Execs # {} => calls # <<>>
      BY DEF Execs
    <2>3. tracee' \in {"sigtrap", "signal"} \/ crashing' => signals' > 0
      BY <1>0, <1>3 DEF CallInv
    <2>4. signals' > 0 => Execs # {}
      BY <1>0, <1>3 DEF CallInv
    <2> QED BY <1>0, <1>1, <1>2, <1>3, <1>5, <2>2, <2>3, <2>4 DEF CallInv
  <1>10. StartInv'
    <2>1. ASSUME startup, tool \in Numbering PROVE tracee = "loading"
      <3>1. SUFFICES ASSUME tracee = "user", Execs # {} PROVE FALSE
        BY <1>3
      <3>2. Len(calls) = 1 /\ ret = "error"
        BY <1>0, <1>5, <2>1, <3>1 DEF StartInv, Execs
      <3> QED BY <3>1, <3>2 DEF Execs, ret
    <2> QED BY <1>0, <1>1, <1>2, <1>3, <1>4, <1>5, <2>1 DEF StartInv
  <1>11. MissInv' /\ OneLineInv' /\ MainInv' /\ EntryInv' /\ PairInv'
    BY <1>1, <1>3, <1>5, <1>6, <1>10, MoveInv
  <1> QED BY <1>6, <1>7, <1>8, <1>9, <1>10, <1>11 DEF IInv

(* The process enters a call. *)
LEMMA CallsInv ==
  ASSUME IInv, pc # "end", TraceeCalls, UNCHANGED <<tool, tracerVars>>
  PROVE  IInv'
  <1>0. /\ Values /\ Flags /\ PlaceInv /\ CallInv /\ StartInv
        /\ MissInv /\ OneLineInv /\ MainInv /\ EntryInv /\ PairInv
    BY DEF IInv
  <1>1. PICK n \in NextCalls : calls' = Append(calls, [nr |-> n, ret |-> "none"])
    BY DEF TraceeCalls
  <1>2. /\ tracee = "user" /\ tracee' = "entry"
        /\ UNCHANGED <<tool, signals, crashing, pc, sysgood, entryFlag, startup,
                       trapCount, current, out>>
    BY DEF TraceeCalls, tracerVars, flagVars
  <1>3. pc = "wait"
    BY <1>0, <1>2 DEF PlaceInv, Values, Stops, Running
  <1>4. /\ Live' /\ Live /\ Fresh' /\ ~ Fresh /\ ~ InCall /\ ~ InCall' /\ Past /\ ~ Past'
        /\ ~ Loading /\ ~ Loading' /\ tracee # "exited" /\ tracee' # "exited"
    BY <1>2, <1>3 DEF Live, Fresh, InCall, Past, Loading
  <1>5. n \in Numbers
    BY DEF NextCalls, Numbers, Exits
  <1>6. /\ Len(calls) \in Nat /\ DOMAIN calls = 1 .. Len(calls)
        /\ calls # <<>> <=> Len(calls) # 0
        /\ Len(out) \in Nat /\ DOMAIN out = 1 .. Len(out)
    BY <1>0, CallsFact
  <1>7. /\ calls' \in Seq(Call) /\ Len(calls') = Len(calls) + 1
        /\ DOMAIN calls' = 1 .. Len(calls) + 1 /\ calls' # <<>>
        /\ \A i \in 1 .. Len(calls) : calls'[i] = calls[i]
        /\ calls'[Len(calls) + 1] = [nr |-> n, ret |-> "none"]
    <2>1. [nr |-> n, ret |-> "none"] \in Call
      BY <1>5 DEF Call
    <2> QED BY <1>0, <1>1, <2>1 DEF Values
  <1>8. nr' = n /\ ret' = "none"
    BY <1>6, <1>7 DEF nr, ret
  <1>9. Execs' = Execs
    <2>1. ASSUME NEW i PROVE i \in Execs' <=> i \in Execs
      <3>1. CASE i \in 1 .. Len(calls)
        BY <1>6, <1>7, <3>1 DEF Execs
      <3>2. CASE i = Len(calls) + 1
        BY <1>6, <1>7, <3>2 DEF Execs
      <3> QED BY <1>6, <1>7, <3>1, <3>2 DEF Execs
    <2> QED BY <2>1 DEF Execs
  <1>10. Values' /\ PlaceInv'
    BY <1>0, <1>2, <1>3, <1>7 DEF Values, PlaceInv, Stops, Live
  <1>11. Flags'
    BY <1>0, <1>2 DEF Flags
  <1>12. CallInv'
    <2>1. ASSUME NEW i \in 1 .. Len(calls') - 1
          PROVE  calls'[i].ret \in {"ok", "error"} /\ calls'[i].nr \notin Exits
      <3>1. i \in 1 .. Len(calls) /\ calls'[i] = calls[i]
        BY <1>6, <1>7
      <3>2. CASE i = Len(calls)
        BY <1>0, <1>4, <1>6, <3>1, <3>2 DEF CallInv, nr, ret
      <3>3. CASE i # Len(calls)
        <4>1. \A m \in Nat : i \in 1 .. m /\ i # m => i \in 1 .. m - 1
          OBVIOUS
        <4>2. i \in 1 .. Len(calls) - 1
          BY <1>6, <3>1, <3>3, <4>1
        <4> QED BY <1>0, <3>1, <4>2 DEF CallInv
      <3> QED BY <3>2, <3>3
    <2>2. signals' > 0 => Execs' # {}
      BY <1>0, <1>2, <1>9 DEF CallInv
    <2>3. crashing' => signals' > 0
      BY <1>0, <1>2 DEF CallInv
    <2> QED BY <1>2, <1>4, <1>7, <1>8, <2>1, <2>2, <2>3 DEF CallInv
  <1>13. tool # "strace_2" /\ calls = <<>> => n = EXECVE
    BY <1>1 DEF NextCalls, Loaded, Execs
  <1>14. StartInv'
    <2>1. SUFFICES ASSUME tool \in Numbering PROVE StartInv'
      BY <1>2 DEF StartInv
    <2>2. calls'[1].nr = EXECVE
      BY <1>0, <1>6, <1>7, <1>13, <2>1 DEF StartInv, Numbering
    <2>3. CASE startup /\ calls = <<>>
      BY <1>0, <1>2, <1>4, <1>6, <1>7, <2>1, <2>2, <2>3 DEF StartInv
    <2>4. CASE startup /\ calls # <<>>
      <3>1. Len(calls) = 1 /\ ret = "error" /\ calls[1].nr = EXECVE /\ trapCount <= 2
        BY <1>0, <1>2, <1>4, <2>1, <2>4 DEF StartInv
      <3>2. Execs = {} /\ \E i \in DOMAIN calls : calls[i].nr = EXECVE
        BY <1>6, <3>1 DEF Execs, ret
      <3>3. n = EXIT_GROUP
        BY <1>1, <2>1, <3>2 DEF NextCalls, Loaded, Numbering
      <3> QED BY <1>2, <1>4, <1>7, <1>8, <2>1, <2>2, <2>4, <3>1, <3>3 DEF StartInv
    <2>5. CASE ~ startup
      BY <1>0, <1>2, <1>4, <1>6, <1>7, <2>1, <2>2, <2>5 DEF StartInv
    <2> QED BY <2>3, <2>4, <2>5
  <1>15. MissInv'
    BY <1>0, <1>2, <1>4, <1>6, <1>7 DEF MissInv
  <1>16. OneLineInv'
    <2>1. SUFFICES ASSUME tool \in Numbering, signals = 0, Execs \subseteq {1}
                   PROVE  OneLineInv'
      BY <1>2, <1>9 DEF OneLineInv
    <2>2. /\ Len(out) = Len(calls)
          /\ \A j \in DOMAIN out : out[j].call = j /\ out[j].nr = calls[j].nr
          /\ ~ startup => entryFlag
      BY <1>0, <1>4, <2>1 DEF OneLineInv
    <2>3. \A j \in DOMAIN out : out[j].call = j /\ out[j].nr = calls'[j].nr
      BY <1>6, <1>7, <2>2
    <2> QED BY <1>2, <1>4, <1>6, <1>7, <2>2, <2>3 DEF OneLineInv
  <1>17. MainInv'
    <2>1. tool = "main" => calls'[1].nr = EXECVE
      BY <1>0, <1>6, <1>7, <1>13 DEF MainInv
    <2> QED BY <1>0, <1>2, <1>4, <1>9, <2>1 DEF MainInv, Traces
  <1>18. EntryInv'
    <2>1. SUFFICES ASSUME tool = "strace_2" PROVE EntryInv'
      BY <1>2 DEF EntryInv
    <2>2. entryFlag
      BY <1>0, <1>4, <2>1 DEF EntryInv
    <2>3. startup => \A i \in 1 .. Len(calls) : calls[i].nr # EXECVE
      BY <1>0, <1>4, <1>6, <2>1 DEF EntryInv
    <2>4. ~ startup => \E i \in 1 .. Len(calls) : calls[i].nr = EXECVE
      BY <1>0, <1>4, <1>6, <2>1 DEF EntryInv
    <2>5. startup' => \A i \in DOMAIN calls' :
                        calls'[i].nr = EXECVE => i = Len(calls') /\ ~ Past'
      BY <1>2, <1>4, <1>6, <1>7, <2>3
    <2>6. ~ startup' => \E i \in DOMAIN calls' :
                          calls'[i].nr = EXECVE /\ (i < Len(calls') \/ Past')
      BY <1>2, <1>6, <1>7, <2>4
    <2> QED BY <1>2, <1>4, <2>2, <2>5, <2>6 DEF EntryInv
  <1>19. PairInv'
    <2>1. SUFFICES ASSUME tool = "strace_2" PROVE PairInv'
      BY <1>2 DEF PairInv
    <2>2. /\ \A i \in DOMAIN calls : (\E j \in DOMAIN out : out[j].call = i) <=> Done_2(i)
          /\ \A j \in DOMAIN out :
               /\ out[j].call \in DOMAIN calls
               /\ out[j].nr = calls[out[j].call].nr
               /\ out[j].ret = IF out[j].nr \in Exits THEN "?" ELSE calls[out[j].call].ret
          /\ \A j, k \in DOMAIN out : k < j => out[k].call < out[j].call
      BY <1>0, <1>4, <2>1 DEF PairInv
    <2>3. ASSUME NEW i \in 1 .. Len(calls) PROVE Done_2(i)' <=> Done_2(i)
      <3>1. \A j \in 1 .. i : calls'[j] = calls[j]
        BY <1>6, <1>7
      <3>2. i < Len(calls')
        BY <1>6, <1>7
      <3> QED BY <1>4, <3>1, <3>2 DEF Done_2
    <2>4. ASSUME NEW i \in DOMAIN calls', i = Len(calls) + 1 PROVE ~ Done_2(i)'
      BY <1>4, <1>6, <1>7, <2>4 DEF Done_2
    <2>5. ASSUME NEW i \in DOMAIN calls'
          PROVE  (\E j \in DOMAIN out : out[j].call = i) <=> Done_2(i)'
      <3>1. CASE i = Len(calls) + 1
        BY <1>6, <2>2, <2>4, <3>1
      <3>2. CASE i # Len(calls) + 1
        <4>1. i \in 1 .. Len(calls)
          BY <1>6, <1>7, <3>2
        <4> QED BY <1>6, <2>2, <2>3, <4>1
      <3> QED BY <3>1, <3>2
    <2>6. \A j \in DOMAIN out :
               /\ out[j].call \in DOMAIN calls'
               /\ out[j].nr = calls'[out[j].call].nr
               /\ out[j].ret = IF out[j].nr \in Exits THEN "?" ELSE calls'[out[j].call].ret
      BY <1>6, <1>7, <2>2
    <2> QED BY <1>2, <2>2, <2>5, <2>6 DEF PairInv
  <1> QED BY <1>10, <1>11, <1>12, <1>14, <1>15, <1>16, <1>17, <1>18, <1>19 DEF IInv

(* A call that ends the process does not return, the others do. *)
LEMMA NeverReturnsInv ==
  ASSUME IInv, pc = "wait", tracee = "kernel", tracee' = "exited", nr \in Exits,
         UNCHANGED <<tool, calls, signals, crashing, tracerVars>>
  PROVE  IInv'
  <1>0. /\ Values /\ Flags /\ PlaceInv /\ CallInv /\ StartInv
        /\ MissInv /\ OneLineInv /\ MainInv /\ EntryInv /\ PairInv
    BY DEF IInv
  <1>1. UNCHANGED <<pc, sysgood, entryFlag, startup, trapCount, current, out>>
    BY DEF tracerVars, flagVars
  <1>2. nr' = nr /\ ret' = ret /\ Execs' = Execs
    BY DEF nr, ret, Execs
  <1>3. /\ Live' /\ Live /\ ~ Fresh' /\ ~ Fresh /\ InCall /\ ~ InCall' /\ ~ Past /\ ~ Past'
        /\ ~ Loading /\ ~ Traces'
    BY DEF Live, Fresh, InCall, Past, Loading, Traces
  <1>4. Values' /\ PlaceInv'
    BY <1>0, <1>1 DEF Values, PlaceInv, Running, Ended, Stops, Live
  <1>5. Flags'
    BY <1>0, <1>1 DEF Flags
  <1>6. CallInv'
    BY <1>0, <1>1, <1>2, <1>3 DEF CallInv, Stops
  <1>7. StartInv'
    <2>1. Len(calls) = 1 => nr = calls[1].nr
      BY DEF nr
    <2>2. EXECVE \notin Exits
      BY DEF Exits, EXECVE, EXIT, EXIT_GROUP
    <2> QED BY <1>0, <1>1, <1>2, <1>3, <2>1, <2>2 DEF StartInv, CallInv
  <1>8. MissInv' /\ OneLineInv'
    BY <1>0, <1>1, <1>2, <1>3 DEF MissInv, OneLineInv
  <1>9. MainInv'
    BY <1>0, <1>1, <1>2, <1>3 DEF MainInv
  <1>10. EntryInv'
    BY <1>0, <1>1, <1>2, <1>3 DEF EntryInv
  <1>11. PairInv'
    <2>1. \A i : Done_2(i)' <=> Done_2(i)
      BY <1>1, <1>3 DEF Done_2
    <2> QED BY <1>0, <1>1, <1>3, <2>1 DEF PairInv
  <1> QED BY <1>4, <1>5, <1>6, <1>7, <1>8, <1>9, <1>10, <1>11 DEF IInv

LEMMA ReturnsInv ==
  ASSUME IInv, pc # "end", TraceeReturns, UNCHANGED <<tool, tracerVars>>
  PROVE  IInv'
  <1>0. /\ Values /\ Flags /\ PlaceInv /\ CallInv /\ StartInv
        /\ MissInv /\ OneLineInv /\ MainInv /\ EntryInv /\ PairInv
    BY DEF IInv
  <1>1. tracee = "kernel" /\ pc = "wait"
    BY <1>0 DEF TraceeReturns, PlaceInv, Values, Stops, Running
  <1>2. CASE nr \in Exits
    BY <1>1, <1>2, NeverReturnsInv DEF TraceeReturns
  <1>3. SUFFICES ASSUME nr \notin Exits PROVE IInv'
    BY <1>2
  <1>4. PICK r \in {"ok", "error"} : calls' = [calls EXCEPT ![Len(calls)].ret = r]
    BY <1>3 DEF TraceeReturns
  <1>5. /\ tracee' = "exit"
        /\ UNCHANGED <<tool, signals, crashing, pc, sysgood, entryFlag, startup,
                       trapCount, current, out>>
    BY <1>3 DEF TraceeReturns, tracerVars, flagVars
  <1>6. /\ Live' /\ Live /\ ~ Fresh' /\ ~ Fresh /\ InCall /\ InCall' /\ ~ Past /\ ~ Past'
        /\ ~ Loading /\ tracee # "exited" /\ tracee' # "exited"
    BY <1>1, <1>5 DEF Live, Fresh, InCall, Past, Loading
  <1>7. /\ Len(calls) \in Nat /\ DOMAIN calls = 1 .. Len(calls)
        /\ Len(calls) # 0 /\ calls # <<>>
        /\ Len(out) \in Nat /\ DOMAIN out = 1 .. Len(out)
    BY <1>0, <1>1, CallsFact DEF CallInv
  <1>8. /\ calls' \in Seq(Call) /\ Len(calls') = Len(calls)
        /\ DOMAIN calls' = DOMAIN calls /\ calls' # <<>>
        /\ \A i \in DOMAIN calls : i # Len(calls) => calls'[i] = calls[i]
        /\ \A i \in DOMAIN calls : calls'[i].nr = calls[i].nr
        /\ calls'[Len(calls)].ret = r
    <2>1. calls \in Seq(Call) /\ calls[Len(calls)] \in Call
      BY <1>0, <1>7 DEF Values
    <2>2. [calls[Len(calls)] EXCEPT !.ret = r] = [nr |-> nr, ret |-> r]
      BY <2>1 DEF Call, nr
    <2>3. [nr |-> nr, ret |-> r] \in Call
      BY <2>1 DEF Call, nr
    <2>4. calls' = [calls EXCEPT ![Len(calls)] = [nr |-> nr, ret |-> r]]
      BY <1>4, <2>2
    <2>5. calls' \in Seq(Call) /\ Len(calls') = Len(calls) /\ DOMAIN calls' = DOMAIN calls
      BY <1>7, <2>1, <2>3, <2>4
    <2>6. \A i \in DOMAIN calls :
            calls'[i] = IF i = Len(calls) THEN [nr |-> nr, ret |-> r] ELSE calls[i]
      BY <1>7, <2>1, <2>4
    <2>7. calls'[Len(calls)] = [nr |-> nr, ret |-> r] /\ nr = calls[Len(calls)].nr
      BY <1>7, <2>6 DEF nr
    <2> QED BY <1>7, <2>5, <2>6, <2>7
  <1>9. nr' = nr /\ ret' = r /\ ret = "none"
    BY <1>0, <1>1, <1>7, <1>8 DEF nr, ret, CallInv
  <1>10. /\ Execs \subseteq Execs' /\ Execs' \subseteq Execs \union {Len(calls)}
         /\ Len(calls) \notin Execs
    <2>1. Len(calls) \notin Execs
      BY <1>9 DEF Execs, ret
    <2>2. ASSUME NEW i \in DOMAIN calls, i # Len(calls)
          PROVE  i \in Execs' <=> i \in Execs
      BY <1>8, <2>2 DEF Execs
    <2> QED BY <1>8, <2>1, <2>2 DEF Execs
  <1>11. Values' /\ PlaceInv'
    BY <1>0, <1>1, <1>5, <1>6, <1>8 DEF Values, PlaceInv, Stops, Running
  <1>12. Flags'
    BY <1>0, <1>5 DEF Flags
  <1>13. CallInv'
    <2>1. \A i \in 1 .. Len(calls') - 1 :
            calls'[i].ret \in {"ok", "error"} /\ calls'[i].nr \notin Exits
      BY <1>0, <1>7, <1>8 DEF CallInv
    <2>2. signals' > 0 => Execs' # {}
      BY <1>0, <1>5, <1>10 DEF CallInv
    <2>3. crashing' => signals' > 0
      BY <1>0, <1>5 DEF CallInv
    <2> QED BY <1>3, <1>5, <1>6, <1>8, <1>9, <2>1, <2>2, <2>3 DEF CallInv
  <1>14. StartInv'
    <2>1. SUFFICES ASSUME tool \in Numbering PROVE StartInv'
      BY <1>5 DEF StartInv
    <2>2. calls'[1].nr = EXECVE
      BY <1>0, <1>7, <1>8, <2>1 DEF StartInv
    <2> QED BY <1>0, <1>1, <1>5, <1>6, <1>7, <1>8, <2>1, <2>2 DEF StartInv
  <1>15. MissInv'
    BY <1>0, <1>5, <1>6, <1>8 DEF MissInv
  <1>16. OneLineInv'
    <2>1. SUFFICES ASSUME tool \in Numbering, signals = 0, Execs \subseteq {1}
                   PROVE  OneLineInv'
      BY <1>5, <1>10 DEF OneLineInv
    <2>2. /\ Len(out) = Len(calls)
          /\ \A j \in DOMAIN out : out[j].call = j /\ out[j].nr = calls[j].nr
          /\ ~ startup /\ nr # EXIT_GROUP => ~ entryFlag
      BY <1>0, <1>6, <2>1 DEF OneLineInv
    <2>3. \A j \in DOMAIN out : out[j].call = j /\ out[j].nr = calls'[j].nr
      BY <1>7, <1>8, <2>2
    <2> QED BY <1>5, <1>6, <1>7, <1>8, <1>9, <2>2, <2>3 DEF OneLineInv
  <1>17. MainInv'
    <2>1. SUFFICES ASSUME tool = "main" PROVE MainInv'
      BY <1>5 DEF MainInv
    <2>2. calls'[1].nr = EXECVE
      BY <1>0, <1>7, <1>8, <2>1 DEF MainInv
    <2>3. Traces /\ Traces'
      BY <1>1, <1>5, <1>6 DEF Traces
    <2>4. Execs' = {} => ~ entryFlag
      BY <1>0, <1>6, <1>10, <2>1, <2>3 DEF MainInv
    <2>5. ASSUME signals = 0, Execs' = {1}
          PROVE  IF Loading' THEN ~ entryFlag ELSE entryFlag
      <3>1. CASE Len(calls) = 1
        <4>1. Execs = {} /\ Loading'
          BY <1>5, <1>8, <1>10, <2>5, <3>1 DEF Loading
        <4> QED BY <1>0, <1>6, <2>1, <2>3, <4>1 DEF MainInv
      <3>2. CASE Len(calls) # 1
        <4>1. Execs = {1} /\ ~ Loading'
          BY <1>8, <1>10, <2>5, <3>2 DEF Loading
        <4> QED BY <1>0, <1>6, <2>1, <2>3, <2>5, <4>1 DEF MainInv
      <3> QED BY <3>1, <3>2
    <2>6. out # <<>> => Execs' # {}
      BY <1>0, <1>10, <2>1 DEF MainInv
    <2> QED BY <1>0, <1>3, <1>5, <1>6, <1>9, <2>1, <2>2, <2>4, <2>5, <2>6 DEF MainInv
  <1>18. EntryInv'
    BY <1>0, <1>5, <1>6, <1>8, <1>9 DEF EntryInv
  <1>19. PairInv'
    <2>1. SUFFICES ASSUME tool = "strace_2" PROVE PairInv'
      BY <1>5 DEF PairInv
    <2>2. /\ \A i \in DOMAIN calls : (\E j \in DOMAIN out : out[j].call = i) <=> Done_2(i)
          /\ \A j \in DOMAIN out :
               /\ out[j].call \in DOMAIN calls
               /\ out[j].nr = calls[out[j].call].nr
               /\ out[j].ret = IF out[j].nr \in Exits THEN "?" ELSE calls[out[j].call].ret
          /\ \A j, k \in DOMAIN out : k < j => out[k].call < out[j].call
      BY <1>0, <1>6, <2>1 DEF PairInv
    <2>3. \A i \in DOMAIN calls : Done_2(i)' <=> Done_2(i)
      <3>1. ASSUME NEW i \in DOMAIN calls PROVE \A j \in 1 .. i : calls'[j].nr = calls[j].nr
        BY <1>7, <1>8
      <3> QED BY <1>6, <1>8, <3>1 DEF Done_2
    <2>4. \A j \in DOMAIN out : out[j].call # Len(calls)
      <3>1. ~ Done_2(Len(calls))
        BY <1>3, <1>6, <1>7 DEF Done_2, nr
      <3> QED BY <1>7, <2>2, <3>1
    <2>5. \A j \in DOMAIN out :
               /\ out[j].call \in DOMAIN calls'
               /\ out[j].nr = calls'[out[j].call].nr
               /\ out[j].ret = IF out[j].nr \in Exits THEN "?" ELSE calls'[out[j].call].ret
      BY <1>8, <2>2, <2>4
    <2>6. \A i \in DOMAIN calls' : (\E j \in DOMAIN out : out[j].call = i) <=> Done_2(i)'
      BY <1>8, <2>2, <2>3
    <2> QED BY <1>5, <2>2, <2>5, <2>6 DEF PairInv
  <1> QED BY <1>11, <1>12, <1>13, <1>14, <1>15, <1>16, <1>17, <1>18, <1>19 DEF IInv
-----------------------------------------------------------------------------
(* A stop is handled: an entry becomes a call in progress, an exit the end *)
(* of one.                                                                 *)
LEMMA HandleFact ==
  ASSUME IInv, pc = "regs", tracee \in Stops, pc' = "resume",
         UNCHANGED <<tool, traceeVars, sysgood>>
  PROVE  /\ UNCHANGED <<tool, tracee, calls, signals, crashing, sysgood>>
         /\ nr' = nr /\ ret' = ret /\ Execs' = Execs
         /\ tracee \in {"entry", "exit", "exectrap", "sigtrap"}
         /\ Live /\ Live'
         /\ Fresh <=> tracee = "entry"
         /\ InCall <=> tracee = "exit"
         /\ Past <=> tracee \in {"exectrap", "sigtrap"}
         /\ ~ Fresh'
         /\ InCall' <=> tracee = "entry"
         /\ Past' <=> tracee # "entry"
         /\ Loading <=> Len(calls) = 1 /\ tracee \in {"exit", "exectrap"}
         /\ Loading' <=> Len(calls) = 1 /\ tracee = "exit"
         /\ calls # <<>> /\ Len(calls) \in Nat \ {0} /\ DOMAIN calls = 1 .. Len(calls)
         /\ Len(out) \in Nat /\ DOMAIN out = 1 .. Len(out)
         /\ nr = calls[Len(calls)].nr
         /\ tracee = "exit" => nr \notin Exits /\ ret \in {"ok", "error"}
         /\ tracee = "exectrap" => nr = EXECVE /\ Len(calls) \in Execs
         /\ tracee = "sigtrap" => signals > 0
         /\ PlaceInv' /\ CallInv'
  <1>0. Values /\ PlaceInv /\ CallInv
    BY DEF IInv
  <1>1. UNCHANGED <<tool, tracee, calls, signals, crashing, sysgood>>
    BY DEF traceeVars
  <1>2. nr' = nr /\ ret' = ret /\ Execs' = Execs
    BY <1>1 DEF nr, ret, Execs
  <1>3. tracee \in {"entry", "exit", "exectrap", "sigtrap"}
    BY <1>0 DEF PlaceInv, Stops
  <1>4. /\ Live /\ Live' /\ ~ Fresh' /\ (Fresh <=> tracee = "entry")
        /\ (InCall <=> tracee = "exit") /\ (InCall' <=> tracee = "entry")
        /\ (Past <=> tracee \in {"exectrap", "sigtrap"}) /\ (Past' <=> tracee # "entry")
    BY <1>1, <1>3 DEF Live, Fresh, InCall, Past
  <1>5. /\ Loading <=> Len(calls) = 1 /\ tracee \in {"exit", "exectrap"}
        /\ Loading' <=> Len(calls) = 1 /\ tracee = "exit"
    BY <1>1, <1>3 DEF Loading
  <1>6. /\ calls # <<>> /\ Len(calls) \in Nat \ {0} /\ DOMAIN calls = 1 .. Len(calls)
        /\ Len(out) \in Nat /\ DOMAIN out = 1 .. Len(out)
    BY <1>0, <1>3, CallsFact DEF CallInv, Stops
  <1>7. /\ nr = calls[Len(calls)].nr
        /\ tracee = "exit" => nr \notin Exits /\ ret \in {"ok", "error"}
        /\ tracee = "sigtrap" => signals > 0
    BY <1>0, <1>6 DEF CallInv, nr
  <1>8. tracee = "exectrap" => nr = EXECVE /\ Len(calls) \in Execs
    BY <1>0, <1>6 DEF CallInv, nr, ret, Execs
  <1>9. PlaceInv'
    BY <1>0, <1>1, <1>3 DEF PlaceInv, Live, Stops
  <1>10. CallInv'
    BY <1>0, <1>1, <1>2, <1>3, <1>4 DEF CallInv, Stops
  <1> QED BY <1>1, <1>2, <1>3, <1>4, <1>5, <1>6, <1>7, <1>8, <1>9, <1>10

(* A line is added to what was printed. *)
LEMMA PrintFact ==
  ASSUME Values, NEW n \in Numbers \union {NO_CALL}, NEW r \in {"none", "ok", "error", "?"},
         PrintLine(n, r)
  PROVE  /\ out' \in Seq(Line) /\ Len(out') = Len(out) + 1
         /\ DOMAIN out' = 1 .. Len(out) + 1
         /\ \A j \in DOMAIN out : out'[j] = out[j]
         /\ LET new == out'[Len(out) + 1]
            IN  new.nr = n /\ new.ret = r /\ new.call = Len(calls)
  <1>1. [nr |-> n, ret |-> r, call |-> Len(calls)] \in Line
    BY DEF Values, Line
  <1>2. out \in Seq(Line) /\ out' = Append(out, [nr |-> n, ret |-> r, call |-> Len(calls)])
    BY DEF Values, PrintLine
  <1> QED BY <1>1, <1>2

LEMMA NrFact ==
  ASSUME Values, calls # <<>>
  PROVE  nr \in Numbers /\ ret \in {"none", "ok", "error"}
  <1>1. calls[Len(calls)] \in Call
    BY DEF Values
  <1> QED BY <1>1 DEF nr, ret, Call

(* execve starts the program: its first stop is printed. *)
LEMMA NumberStartupInv ==
  ASSUME IInv, NumberStartup
  PROVE  IInv'
  <1>0. /\ Values /\ Flags /\ StartInv /\ MissInv /\ OneLineInv
    BY DEF IInv
  <1>1. /\ pc = "regs" /\ tracee \in Stops /\ pc' = "resume" /\ tool \in Numbering
        /\ startup /\ nr = EXECVE /\ trapCount' = trapCount + 1
        /\ startup' = (trapCount' < 3) /\ entryFlag' = (trapCount' >= 3 \/ ~ entryFlag)
        /\ UNCHANGED <<tool, traceeVars, sysgood, current>>
        /\ IF trapCount' = 1 THEN PrintLine(nr, "none") ELSE out' = out
    BY DEF NumberStartup, Handles, StartupTraps, Toggled
  <1> USE HandleFact
  <1>2. PlaceInv' /\ CallInv'
    BY <1>1
  <1>3. tool' = tool /\ tracee' = tracee /\ calls' = calls /\ signals' = signals
    BY <1>1
  <1>4. /\ Len(calls) = 1 /\ calls[1].nr = EXECVE /\ trapCount \in 0 .. 2
        /\ trapCount = IF tracee = "entry" THEN 0 ELSE IF tracee = "exit" THEN 1 ELSE 2
        /\ tracee \in {"entry", "exit", "exectrap"}
    <2>1. EXIT_GROUP # EXECVE
      BY DEF EXIT_GROUP, EXECVE
    <2> QED BY <1>0, <1>1, <2>1 DEF StartInv
  <1>5. /\ trapCount' < 3 => startup'
        /\ ~ (trapCount' < 3) => ~ startup'
        /\ trapCount' >= 3 => entryFlag'
    BY DEF NumberStartup, StartupTraps
  <1>6. trapCount' = IF tracee = "entry" THEN 1 ELSE IF tracee = "exit" THEN 2 ELSE 3
    BY <1>1, <1>4
  <1>7. /\ tracee \in {"entry", "exit"} => startup'
        /\ tracee = "exectrap" => ~ startup' /\ entryFlag'
    BY <1>5, <1>6
  <1>8. tool # "main" /\ tool # "strace_2"
    BY <1>1 DEF Numbering
  <1>9. MainInv' /\ EntryInv' /\ PairInv'
    BY <1>3, <1>8 DEF MainInv, EntryInv, PairInv
  <1>10. Flags'
    <2>1. startup' \in BOOLEAN /\ entryFlag' \in BOOLEAN
      BY <1>1
    <2>2. crashing' = crashing /\ sysgood' = sysgood
      BY <1>1
    <2> QED BY <1>0, <2>1, <2>2 DEF Flags
  <1>11. nr \in Numbers
    BY <1>0, <1>1, NrFact
  <1>12. CASE tracee = "entry"
    <2>1. trapCount' = 1 /\ startup' /\ PrintLine(nr, "none")
      BY <1>1, <1>12, <1>6, <1>7
    <2>2. /\ out' \in Seq(Line) /\ Len(out') = Len(out) + 1
          /\ DOMAIN out' = 1 .. Len(out) + 1
          /\ \A j \in DOMAIN out : out'[j] = out[j]
          /\ out'[Len(out) + 1].nr = nr /\ out'[Len(out) + 1].call = 1
      BY <1>0, <1>4, <1>11, <2>1, PrintFact
    <2>3. Values'
      BY <1>0, <1>1, <2>1, <2>2 DEF Values
    <2>4. StartInv'
      BY <1>1, <1>4, <1>12, <2>1 DEF StartInv
    <2>5. MissInv'
      BY <1>1, <1>4, <1>12, <2>2 DEF MissInv
    <2>6. OneLineInv'
      <3>1. SUFFICES ASSUME signals = 0, Execs \subseteq {1} PROVE OneLineInv'
        BY <1>1 DEF OneLineInv
      <3>2. Len(out) = 0
        BY <1>0, <1>1, <1>4, <1>12, <3>1 DEF OneLineInv
      <3> QED BY <1>1, <1>4, <1>12, <2>1, <2>2, <3>2 DEF OneLineInv
    <2> QED BY <1>2, <1>9, <1>10, <2>3, <2>4, <2>5, <2>6 DEF IInv
  <1>13. CASE tracee \in {"exit", "exectrap"}
    <2>1. out' = out /\ trapCount' = trapCount + 1
      BY <1>1, <1>4, <1>13
    <2>2. Values'
      BY <1>0, <1>1, <1>4, <2>1 DEF Values
    <2>3. StartInv'
      BY <1>1, <1>4, <1>13, <1>6, <1>7 DEF StartInv
    <2>4. MissInv'
      BY <1>0, <1>1, <1>4, <1>13, <2>1 DEF MissInv
    <2>5. OneLineInv'
      <3>1. SUFFICES ASSUME signals = 0, Execs \subseteq {1} PROVE OneLineInv'
        BY <1>1 DEF OneLineInv
      <3>2. /\ Len(out) = 1
            /\ \A j \in DOMAIN out : out[j].call = j /\ out[j].nr = calls[j].nr
        BY <1>0, <1>1, <1>4, <1>13, <3>1 DEF OneLineInv
      <3>3. startup' \/ entryFlag'
        BY <1>4, <1>7
      <3>4. startup' \/ ~ InCall'
        BY <1>1, <1>13
      <3> QED BY <1>1, <1>3, <1>4, <1>13, <2>1, <3>2, <3>3, <3>4 DEF OneLineInv
    <2> QED BY <1>2, <1>9, <1>10, <2>2, <2>3, <2>4, <2>5 DEF IInv
  <1> QED BY <1>4, <1>12, <1>13

(* Afterwards every second stop is printed, and exit_group always.         *)
LEMMA NumberStopInv ==
  ASSUME IInv, NumberStop
  PROVE  IInv'
  <1>0. /\ Values /\ Flags /\ StartInv /\ MissInv /\ OneLineInv
    BY DEF IInv
  <1>1. /\ pc = "regs" /\ tracee \in Stops /\ pc' = "resume" /\ tool \in Numbering
        /\ UNCHANGED <<tool, traceeVars, sysgood, trapCount, current>>
        /\ ~ startup'
    BY DEF NumberStop, Handles
  <1>2. PICK n \in OrigRax :
          /\ ~ (startup /\ n = EXECVE)
          /\ IF startup \/ entryFlag \/ n = EXIT_GROUP THEN PrintLine(n, "none")
                                                       ELSE out' = out
          /\ entryFlag' = IF n = EXIT_GROUP THEN startup \/ entryFlag
                                            ELSE ~ (startup \/ entryFlag)
    BY DEF NumberStop, Toggled
  <1>3. /\ n # EXIT_GROUP /\ (startup \/ entryFlag) => ~ entryFlag'
        /\ n # EXIT_GROUP /\ ~ (startup \/ entryFlag) => entryFlag'
    BY <1>2
  <1> USE HandleFact
  <1>4. PlaceInv' /\ CallInv'
    BY <1>1
  <1>5. tool' = tool /\ tracee' = tracee /\ calls' = calls /\ signals' = signals
    BY <1>1
  <1>6. nr \in Numbers
    BY <1>0, <1>1, NrFact
  <1>7. /\ n \in Numbers \union {NO_CALL}
        /\ tracee # "sigtrap" => n = nr
    BY <1>2, <1>6 DEF OrigRax
  <1>8. startup => tracee = "entry" /\ Len(calls) = 2
    BY <1>0, <1>1, <1>2, <1>7 DEF StartInv
  <1>9. ~ startup /\ Len(calls) = 1 => tracee = "sigtrap"
    BY <1>0, <1>1 DEF StartInv
  <1>10. tool # "main" /\ tool # "strace_2"
    BY <1>1 DEF Numbering
  <1>11. MainInv' /\ EntryInv' /\ PairInv'
    BY <1>5, <1>10 DEF MainInv, EntryInv, PairInv
  <1>12. Flags'
    <2>1. startup' \in BOOLEAN /\ entryFlag' \in BOOLEAN
      BY <1>2 DEF NumberStop
    <2>2. crashing' = crashing /\ sysgood' = sysgood
      BY <1>1
    <2> QED BY <1>0, <2>1, <2>2 DEF Flags
  <1>13. StartInv'
    BY <1>0, <1>1, <1>8, <1>9 DEF StartInv
  <1>14. CASE startup \/ entryFlag \/ n = EXIT_GROUP
    <2>1. /\ out' \in Seq(Line) /\ Len(out') = Len(out) + 1
          /\ DOMAIN out' = 1 .. Len(out) + 1
          /\ \A j \in DOMAIN out : out'[j] = out[j]
          /\ out'[Len(out) + 1].nr = n /\ out'[Len(out) + 1].call = Len(calls)
      BY <1>0, <1>2, <1>7, <1>14, PrintFact
    <2>2. Values'
      BY <1>0, <1>1, <2>1 DEF Values
    <2>3. \E j \in DOMAIN out' : out'[j].call = Len(calls)
      BY <1>1, <2>1
    <2>4. ASSUME NEW i \in DOMAIN calls, i < Len(calls)
          PROVE  \E j \in DOMAIN out' : out'[j].call = i
      BY <1>0, <1>1, <2>1, <2>4 DEF MissInv
    <2>5. MissInv'
      BY <1>1, <2>3, <2>4 DEF MissInv
    <2>6. OneLineInv'
      <3>1. SUFFICES ASSUME signals = 0, Execs \subseteq {1} PROVE OneLineInv'
        BY <1>1 DEF OneLineInv
      <3>2. tracee = "entry"
        <4>1. tracee # "sigtrap" /\ tracee # "exectrap"
          BY <1>1, <1>8, <1>9, <3>1
        <4>2. tracee = "exit" => ~ startup /\ ~ entryFlag /\ n # EXIT_GROUP
          BY <1>0, <1>1, <1>7, <1>8, <3>1, <4>1 DEF OneLineInv, Exits
        <4> QED BY <1>1, <1>14, <4>1, <4>2
      <3>3. /\ Len(out) = Len(calls) - 1
            /\ \A j \in DOMAIN out : out[j].call = j /\ out[j].nr = calls[j].nr
        BY <1>0, <1>1, <3>1, <3>2 DEF OneLineInv
      <3>4. \A j \in DOMAIN out' : out'[j].call = j /\ out'[j].nr = calls[j].nr
        BY <1>1, <1>7, <2>1, <3>2, <3>3
      <3>5. (startup \/ entryFlag) /\ n = nr
        BY <1>0, <1>1, <1>7, <3>1, <3>2 DEF OneLineInv
      <3>6. nr # EXIT_GROUP => ~ entryFlag'
        BY <1>3, <3>5
      <3> QED BY <1>1, <2>1, <3>2, <3>3, <3>4, <3>6 DEF OneLineInv
    <2> QED BY <1>4, <1>11, <1>12, <1>13, <2>2, <2>5, <2>6 DEF IInv
  <1>15. CASE ~ startup /\ ~ entryFlag /\ n # EXIT_GROUP
    <2>1. out' = out /\ entryFlag'
      BY <1>2, <1>3, <1>15
    <2>2. Values'
      BY <1>0, <1>1, <2>1 DEF Values
    <2>3. MissInv'
      BY <1>0, <1>1, <1>15, <2>1 DEF MissInv
    <2>4. OneLineInv'
      <3>1. SUFFICES ASSUME signals = 0, Execs \subseteq {1} PROVE OneLineInv'
        BY <1>1 DEF OneLineInv
      <3>2. tracee = "exit"
        BY <1>0, <1>1, <1>9, <1>15, <3>1 DEF OneLineInv
      <3> QED BY <1>0, <1>1, <2>1, <3>1, <3>2 DEF OneLineInv
    <2> QED BY <1>4, <1>11, <1>12, <1>13, <2>2, <2>3, <2>4 DEF IInv
  <1> QED BY <1>14, <1>15
-----------------------------------------------------------------------------
(* strace_2 prints a line for the last call, which had none. *)
LEMMA PairPrintFact ==
  ASSUME Values, PairInv, Live, tool = "strace_2", calls # <<>>,
         UNCHANGED <<tool, calls>>,
         NEW r \in {"none", "ok", "error", "?"}, PrintLine(nr, r),
         r = IF nr \in Exits THEN "?" ELSE ret,
         \A i \in DOMAIN calls : Done_2(i)' <=> Done_2(i) \/ i = Len(calls),
         ~ Done_2(Len(calls))
  PROVE  out' \in Seq(Line) /\ PairInv'
  <1>1. /\ Len(calls) \in Nat /\ DOMAIN calls = 1 .. Len(calls) /\ Len(calls) # 0
        /\ Len(out) \in Nat /\ DOMAIN out = 1 .. Len(out)
    BY CallsFact
  <1>2. /\ out' \in Seq(Line) /\ Len(out') = Len(out) + 1
        /\ DOMAIN out' = 1 .. Len(out) + 1
        /\ \A j \in DOMAIN out : out'[j] = out[j]
        /\ out'[Len(out) + 1].nr = nr /\ out'[Len(out) + 1].ret = r
        /\ out'[Len(out) + 1].call = Len(calls)
    BY NrFact, PrintFact
  <1>3. /\ \A i \in DOMAIN calls : (\E j \in DOMAIN out : out[j].call = i) <=> Done_2(i)
        /\ \A j \in DOMAIN out :
             /\ out[j].call \in DOMAIN calls
             /\ out[j].nr = calls[out[j].call].nr
             /\ out[j].ret = IF out[j].nr \in Exits THEN "?" ELSE calls[out[j].call].ret
        /\ \A j, k \in DOMAIN out : k < j => out[k].call < out[j].call
    BY DEF PairInv
  <1>4. \A j \in DOMAIN out : out[j].call \in 1 .. Len(calls) /\ out[j].call # Len(calls)
    BY <1>1, <1>3
  <1>5. \A j \in DOMAIN out : out[j].call < Len(calls)
    BY <1>1, <1>4
  <1>6. \A j \in DOMAIN out' : j \in DOMAIN out \/ j = Len(out) + 1
    BY <1>1, <1>2
  <1>7. \A i \in DOMAIN calls : (\E j \in DOMAIN out' : out'[j].call = i) <=> Done_2(i)'
    <2>1. ASSUME NEW i \in DOMAIN calls, i = Len(calls)
          PROVE  (\E j \in DOMAIN out' : out'[j].call = i) /\ Done_2(i)'
      BY <1>1, <1>2, <2>1
    <2>2. ASSUME NEW i \in DOMAIN calls, i # Len(calls)
          PROVE  (\E j \in DOMAIN out' : out'[j].call = i)
                   <=> \E j \in DOMAIN out : out[j].call = i
      BY <1>1, <1>2, <1>6, <2>2
    <2> QED BY <1>3, <2>1, <2>2
  <1>8. \A j \in DOMAIN out' :
          /\ out'[j].call \in DOMAIN calls
          /\ out'[j].nr = calls[out'[j].call].nr
          /\ out'[j].ret = IF out'[j].nr \in Exits THEN "?" ELSE calls[out'[j].call].ret
    BY <1>1, <1>2, <1>3, <1>6 DEF nr, ret
  <1>9. \A j, k \in DOMAIN out' : k < j => out'[k].call < out'[j].call
    <2>1. \A j, k \in DOMAIN out' : k < j => k \in DOMAIN out
      BY <1>1, <1>2
    <2> QED BY <1>2, <1>3, <1>5, <1>6, <2>1
  <1> QED BY <1>2, <1>7, <1>8, <1>9 DEF PairInv

(* strace_2 takes the stop for an entry. *)
LEMMA ReturnEntryInv ==
  ASSUME IInv, ReturnEntry
  PROVE  IInv'
  <1>0. Values /\ Flags /\ PlaceInv /\ EntryInv /\ PairInv
    BY DEF IInv
  <1>1. /\ pc = "regs" /\ tracee \in Stops /\ pc' = "resume" /\ tool = "strace_2"
        /\ UNCHANGED <<tool, traceeVars, sysgood, startup, trapCount>>
        /\ entryFlag /\ current' = nr
    BY DEF ReturnEntry, Handles
  <1> USE HandleFact
  <1>2. PlaceInv' /\ CallInv'
    BY <1>1
  <1>3. tool' = tool /\ tracee' = tracee /\ calls' = calls /\ signals' = signals
    BY <1>1
  <1>4. nr \in Numbers
    BY <1>0, <1>1, NrFact
  <1>5. tracee \in {"entry", "exit"}
    BY <1>0, <1>1 DEF PlaceInv
  <1>6. tool # "main" /\ tool \notin Numbering
    BY <1>1 DEF Numbering
  <1>7. StartInv' /\ MissInv' /\ OneLineInv' /\ MainInv'
    BY <1>3, <1>6 DEF StartInv, MissInv, OneLineInv, MainInv
  <1>8. Flags'
    <2>1. entryFlag' \in BOOLEAN
      BY <1>0 DEF ReturnEntry, Flags
    <2>2. crashing' = crashing /\ sysgood' = sysgood /\ startup' = startup
      BY <1>1
    <2> QED BY <1>0, <2>1, <2>2 DEF Flags
  <1>9. /\ startup => \A i \in DOMAIN calls : calls[i].nr = EXECVE => i = Len(calls) /\ ~ Past
        /\ ~ startup =>
             \E i \in DOMAIN calls : calls[i].nr = EXECVE /\ (i < Len(calls) \/ Past)
        /\ ~ (InCall /\ nr \notin Exits /\ (startup => nr = EXECVE))
    BY <1>0, <1>1 DEF EntryInv
  <1>10. EXECVE \notin Exits /\ IOCTL \notin Exits
    BY DEF EXECVE, IOCTL, Exits, EXIT, EXIT_GROUP
  <1>11. CASE startup /\ nr # EXECVE /\ entryFlag' = entryFlag /\ out' = out
    <2>1. \A i \in DOMAIN calls : calls[i].nr # EXECVE
      BY <1>1, <1>9, <1>11
    <2>2. \A i \in DOMAIN calls : \A j \in 1 .. i : calls[j].nr # EXECVE
      BY <1>1, <2>1
    <2>3. \A i \in DOMAIN calls : ~ Done_2(i) /\ ~ Done_2(i)'
      BY <1>3, <2>2 DEF Done_2
    <2>4. EntryInv'
      BY <1>1, <1>3, <1>11, <2>1 DEF EntryInv
    <2>5. PairInv'
      BY <1>0, <1>1, <1>3, <1>11, <2>3 DEF PairInv
    <2>6. Values'
      BY <1>0, <1>1, <1>4, <1>11 DEF Values
    <2> QED BY <1>2, <1>7, <1>8, <2>4, <2>5, <2>6 DEF IInv
  <1>12. CASE ~ startup /\ nr \in Exits /\ PrintLine(nr, "?") /\ entryFlag' = entryFlag
    <2>1. tracee = "entry" /\ InCall' /\ ~ Past
      BY <1>1, <1>5, <1>12
    <2>2. PICK e \in DOMAIN calls : calls[e].nr = EXECVE /\ e < Len(calls)
      BY <1>9, <1>12, <2>1
    <2>3. ~ Done_2(Len(calls))
      BY <1>1, <2>1 DEF Done_2
    <2>4. Done_2(Len(calls))'
      <3>1. \E j \in 1 .. Len(calls) : calls[j].nr = EXECVE
        BY <1>1, <2>2
      <3>2. calls[Len(calls)].nr \in Exits /\ calls[Len(calls)].nr # IOCTL
        BY <1>1, <1>10, <1>12
      <3> QED BY <1>3, <2>1, <3>1, <3>2 DEF Done_2
    <2>5. ASSUME NEW i \in DOMAIN calls, i # Len(calls)
          PROVE  Done_2(i)' <=> Done_2(i)
      <3>1. i < Len(calls)
        BY <1>1, <2>5
      <3> QED BY <1>3, <3>1 DEF Done_2
    <2>6. \A i \in DOMAIN calls : Done_2(i)' <=> Done_2(i) \/ i = Len(calls)
      <3>1. ASSUME NEW i, i = Len(calls) PROVE Done_2(i)'
        BY <1>3, <2>4, <3>1 DEF Done_2
      <3> QED BY <2>5, <3>1
    <2>7. out' \in Seq(Line) /\ PairInv'
      BY <1>0, <1>1, <1>12, <2>3, <2>6, PairPrintFact
    <2>8. EntryInv'
      BY <1>1, <1>3, <1>12, <2>1, <2>2 DEF EntryInv
    <2>9. Values'
      BY <1>0, <1>1, <1>4, <2>7 DEF Values
    <2> QED BY <1>2, <1>7, <1>8, <2>7, <2>8, <2>9 DEF IInv
  <1>13. CASE /\ startup => nr = EXECVE
              /\ nr \notin Exits /\ ~ entryFlag' /\ out' = out
    <2>1. tracee = "entry" /\ InCall' /\ ~ Past /\ ~ Past'
      BY <1>1, <1>5, <1>9, <1>13
    <2>2. EntryInv'
      BY <1>1, <1>3, <1>9, <1>13, <2>1 DEF EntryInv
    <2>3. \A i \in DOMAIN calls : Done_2(i)' <=> Done_2(i)
      BY <1>1, <1>3, <1>13, <2>1 DEF Done_2
    <2>4. PairInv'
      BY <1>0, <1>1, <1>3, <1>13, <2>3 DEF PairInv
    <2>5. Values'
      BY <1>0, <1>1, <1>4, <1>13 DEF Values
    <2> QED BY <1>2, <1>7, <1>8, <2>2, <2>4, <2>5 DEF IInv
  <1>14. \/ startup /\ nr # EXECVE /\ entryFlag' = entryFlag /\ out' = out
         \/ ~ startup /\ nr \in Exits /\ PrintLine(nr, "?") /\ entryFlag' = entryFlag
         \/ /\ startup => nr = EXECVE
            /\ nr \notin Exits /\ ~ entryFlag' /\ out' = out
    BY <1>10 DEF ReturnEntry, EndsProcess
  <1> QED BY <1>11, <1>12, <1>13, <1>14

(* strace_2 takes the stop for an exit. *)
LEMMA ReturnExitInv ==
  ASSUME IInv, ReturnExit
  PROVE  IInv'
  <1>0. Values /\ Flags /\ PlaceInv /\ EntryInv /\ PairInv
    BY DEF IInv
  <1>1. /\ pc = "regs" /\ tracee \in Stops /\ pc' = "resume" /\ tool = "strace_2"
        /\ UNCHANGED <<tool, traceeVars, sysgood, trapCount, current>>
        /\ ~ entryFlag /\ entryFlag' /\ (startup' => startup /\ current # EXECVE)
        /\ IF (startup /\ current = EXECVE) \/ (~ startup /\ current # IOCTL)
             THEN PrintLine(current, ret) ELSE out' = out
    BY DEF ReturnExit, Handles
  <1> USE HandleFact
  <1>2. PlaceInv' /\ CallInv'
    BY <1>1
  <1>3. tool' = tool /\ tracee' = tracee /\ calls' = calls /\ signals' = signals
    BY <1>1
  <1>4. nr \in Numbers /\ ret \in {"none", "ok", "error"}
    BY <1>0, <1>1, NrFact
  <1>5. /\ tracee = "exit" /\ InCall /\ ~ InCall' /\ Past' /\ ~ Past
        /\ nr \notin Exits /\ current = nr /\ (startup => nr = EXECVE) /\ ~ startup'
    BY <1>0, <1>1 DEF EntryInv
  <1>6. tool # "main" /\ tool \notin Numbering
    BY <1>1 DEF Numbering
  <1>7. StartInv' /\ MissInv' /\ OneLineInv' /\ MainInv'
    BY <1>3, <1>6 DEF StartInv, MissInv, OneLineInv, MainInv
  <1>8. Flags'
    <2>1. entryFlag' \in BOOLEAN /\ startup' \in BOOLEAN
      BY DEF ReturnExit
    <2>2. crashing' = crashing /\ sysgood' = sysgood
      BY <1>1
    <2> QED BY <1>0, <2>1, <2>2 DEF Flags
  <1>9. PICK e \in DOMAIN calls : calls[e].nr = EXECVE
    <2>1. CASE startup
      BY <1>1, <1>5, <2>1
    <2>2. CASE ~ startup
      BY <1>0, <1>1, <2>2 DEF EntryInv
    <2> QED BY <2>1, <2>2
  <1>10. EntryInv'
    BY <1>1, <1>3, <1>5, <1>9 DEF EntryInv
  <1>11. ~ Done_2(Len(calls))
    BY <1>1, <1>5 DEF Done_2
  <1>12. Done_2(Len(calls))' <=> nr # IOCTL
    <2>1. \E j \in 1 .. Len(calls) : calls[j].nr = EXECVE
      BY <1>1, <1>9
    <2> QED BY <1>1, <1>3, <1>5, <2>1 DEF Done_2
  <1>13. ASSUME NEW i \in DOMAIN calls, i # Len(calls)
         PROVE  Done_2(i)' <=> Done_2(i)
    <2>1. i < Len(calls)
      BY <1>1, <1>13
    <2> QED BY <1>3, <2>1 DEF Done_2
  <1>14. ASSUME NEW i, i = Len(calls)
         PROVE  Done_2(i)' <=> nr # IOCTL
    BY <1>3, <1>12, <1>14 DEF Done_2
  <1>15. EXECVE # IOCTL
    BY DEF EXECVE, IOCTL
  <1>16. CASE nr # IOCTL
    <2>1. PrintLine(nr, ret)
      BY <1>1, <1>5, <1>15, <1>16
    <2>2. \A i \in DOMAIN calls : Done_2(i)' <=> Done_2(i) \/ i = Len(calls)
      BY <1>13, <1>14, <1>16
    <2>3. out' \in Seq(Line) /\ PairInv'
      BY <1>0, <1>1, <1>4, <1>5, <1>11, <2>1, <2>2, PairPrintFact
    <2>4. Values'
      BY <1>0, <1>1, <2>3 DEF Values
    <2> QED BY <1>2, <1>7, <1>8, <1>10, <2>3, <2>4 DEF IInv
  <1>17. CASE nr = IOCTL
    <2>1. out' = out
      BY <1>1, <1>5, <1>15, <1>17
    <2>2. \A i \in DOMAIN calls : Done_2(i)' <=> Done_2(i)
      <3>1. ASSUME NEW i, i = Len(calls) PROVE ~ Done_2(i)
        BY <1>11, <3>1
      <3> QED BY <1>13, <1>14, <1>17, <3>1
    <2>3. PairInv'
      BY <1>0, <1>1, <1>3, <2>1, <2>2 DEF PairInv
    <2>4. Values'
      BY <1>0, <1>1, <2>1 DEF Values
    <2> QED BY <1>2, <1>7, <1>8, <1>10, <2>3, <2>4 DEF IInv
  <1> QED BY <1>16, <1>17

(* The skeleton turns its flag over, or prints an exit and ends. *)
LEMMA MainStopInv ==
  ASSUME IInv, MainStop
  PROVE  IInv'
  <1>0. Values /\ Flags /\ PlaceInv /\ CallInv /\ MainInv
    BY DEF IInv
  <1>1. /\ pc = "regs" /\ tracee \in Stops /\ tool = "main"
        /\ UNCHANGED <<tool, traceeVars, sysgood, startup, trapCount, current>>
    BY DEF MainStop, Handles
  <1>2. /\ tool' = tool /\ tracee' = tracee /\ calls' = calls /\ signals' = signals
        /\ crashing' = crashing /\ sysgood' = sysgood
        /\ Execs' = Execs /\ nr' = nr /\ ret' = ret
    BY <1>1 DEF traceeVars, Execs, nr, ret
  <1>3. nr \in Numbers /\ calls # <<>>
    BY <1>0, <1>1, NrFact DEF PlaceInv, CallInv, Stops
  <1>4. tool # "strace_2" /\ tool \notin Numbering
    BY <1>1 DEF Numbering
  <1>5. StartInv' /\ MissInv' /\ OneLineInv' /\ EntryInv' /\ PairInv'
    BY <1>2, <1>4 DEF StartInv, MissInv, OneLineInv, EntryInv, PairInv
  <1>6. Flags'
    <2>1. entryFlag' \in BOOLEAN
      BY <1>0 DEF MainStop, Flags
    <2>2. startup' = startup
      BY <1>1
    <2> QED BY <1>0, <1>2, <2>1, <2>2 DEF Flags
  <1>7. tracee \in {"entry", "exit", "exectrap", "sigtrap"} /\ Traces
    BY <1>0, <1>1 DEF PlaceInv, Stops, Traces, Live
  <1>8. /\ InCall <=> tracee = "exit"
        /\ Loading <=> Len(calls) = 1 /\ tracee \in {"exit", "exectrap"}
        /\ tracee \in {"exit", "exectrap"} => nr \notin Exits
        /\ tracee = "exectrap" => Len(calls) \in Execs
        /\ tracee = "sigtrap" => signals > 0
        /\ signals > 0 => Execs # {}
    <2>1. InCall <=> tracee = "exit"
      BY <1>1, <1>7 DEF InCall
    <2>2. Loading <=> Len(calls) = 1 /\ tracee \in {"exit", "exectrap"}
      BY <1>1, <1>7 DEF Loading
    <2>3. /\ tracee \in {"exit", "exectrap"} => nr \notin Exits
          /\ tracee = "exectrap" => nr = EXECVE /\ ret = "ok"
          /\ tracee = "sigtrap" => signals > 0
          /\ signals > 0 => Execs # {}
      BY <1>0, <1>3 DEF CallInv, Past
    <2>4. tracee = "exectrap" => Len(calls) \in Execs
      BY <1>0, <1>3, <2>3, CallsFact DEF Execs, nr, ret
    <2> QED BY <2>1, <2>2, <2>3, <2>4
  <1>9. calls[1].nr = EXECVE /\ out = <<>>
    BY <1>0, <1>1, <1>3 DEF MainInv
  <1>10. /\ Execs = {} => (entryFlag <=> ~ InCall)
         /\ signals = 0 /\ Execs = {1} =>
              /\ Loading => (entryFlag <=> ~ InCall)
              /\ ~ Loading => (entryFlag <=> InCall)
    BY <1>0, <1>1, <1>7 DEF MainInv
  <1>11. CASE ~ entryFlag /\ nr \in Exits /\ PrintLine(nr, "?") /\ pc' = "end"
    <2>1. tracee \in {"entry", "sigtrap"} /\ ~ InCall'
      BY <1>1, <1>2, <1>7, <1>8, <1>11 DEF InCall, Past
    <2>2. /\ out' \in Seq(Line) /\ Len(out') = 1 /\ DOMAIN out' = 1 .. 1
          /\ out'[1].nr = nr
          /\ out' = <<[nr |-> nr, ret |-> "?", call |-> Len(calls)]>>
      <3>1. out' = Append(<<>>, [nr |-> nr, ret |-> "?", call |-> Len(calls)])
        BY <1>9, <1>11 DEF PrintLine
      <3> QED BY <1>0, <1>3, <1>9, <1>11, <3>1, PrintFact
    <2>3. Values'
      BY <1>0, <1>1, <1>2, <1>11, <2>2 DEF Values
    <2>4. PlaceInv' /\ CallInv'
      <3>1. PlaceInv'
        BY <1>1, <1>2, <1>11 DEF PlaceInv
      <3>2. Past' <=> Past
        BY <1>1, <1>2, <1>7, <1>8, <1>11 DEF Past
      <3> QED BY <1>0, <1>2, <3>1, <3>2 DEF CallInv
    <2>5. Execs # {}
      BY <1>7, <1>8, <1>10, <1>11, <2>1
    <2>6. MainInv'
      <3>1. ~ Traces' /\ tracee' # "exited" /\ pc' = "end"
        BY <1>2, <1>11, <2>1 DEF Traces
      <3>2. \A j \in DOMAIN out' : out'[j].nr \in Exits
        BY <1>11, <2>2
      <3> QED BY <1>2, <1>9, <2>1, <2>2, <2>5, <3>1, <3>2 DEF MainInv
    <2> QED BY <1>5, <1>6, <2>3, <2>4, <2>6 DEF IInv
  <1>12. CASE /\ entryFlag \/ nr \notin Exits
              /\ entryFlag' <=> ~ entryFlag
              /\ pc' = "resume" /\ out' = out
    <2>1. Values'
      BY <1>0, <1>1, <1>2, <1>12 DEF Values
    <2>2. PlaceInv' /\ CallInv'
      BY <1>1, <1>12, HandleFact
    <2>3. /\ InCall' <=> tracee = "entry"
          /\ Loading' <=> Len(calls) = 1 /\ tracee = "exit"
          /\ Len(calls) \in Nat
      BY <1>1, <1>12, HandleFact
    <2>4. Execs = {} => (entryFlag' <=> ~ InCall')
      BY <1>7, <1>8, <1>10, <1>12, <2>3
    <2>5. ASSUME signals = 0, Execs = {1}
          PROVE  /\ Loading' => (entryFlag' <=> ~ InCall')
                 /\ ~ Loading' => (entryFlag' <=> InCall')
                 /\ InCall' => nr \notin Exits
      <3>1. tracee # "sigtrap" /\ (tracee = "exectrap" => Len(calls) = 1)
        BY <1>8, <2>5
      <3> QED BY <1>7, <1>8, <1>10, <1>12, <2>3, <2>5, <3>1
    <2>6. MainInv'
      BY <1>2, <1>7, <1>9, <1>12, <2>4, <2>5 DEF MainInv
    <2> QED BY <1>5, <1>6, <2>1, <2>2, <2>6 DEF IInv
  <1> QED BY <1>11, <1>12 DEF MainStop, EndsProcess

LEMMA StutterInv ==
  ASSUME IInv, UNCHANGED vars
  PROVE  IInv'
  <1>1. UNCHANGED <<tool, tracee, calls, signals, crashing, pc, sysgood, entryFlag, startup,
                    trapCount, current, out>>
    BY DEF vars, traceeVars, tracerVars, flagVars
  <1>2. /\ nr' = nr /\ ret' = ret /\ Execs' = Execs
        /\ Fresh' <=> Fresh
        /\ InCall' <=> InCall
        /\ Past' <=> Past
        /\ Live' <=> Live
        /\ Loading' <=> Loading
        /\ Traces' <=> Traces
    BY <1>1 DEF nr, ret, Execs, Fresh, InCall, Past, Live, Loading, Traces
  <1>3. \A i : Done_2(i)' <=> Done_2(i)
    BY <1>1, <1>2 DEF Done_2
  <1>4. Values' /\ Flags' /\ PlaceInv' /\ CallInv'
    BY <1>1, <1>2 DEF IInv, Values, Flags, PlaceInv, CallInv
  <1>5. StartInv' /\ MissInv' /\ OneLineInv'
    BY <1>1, <1>2 DEF IInv, StartInv, MissInv, OneLineInv
  <1>6. MainInv' /\ EntryInv' /\ PairInv'
    BY <1>1, <1>2, <1>3 DEF IInv, MainInv, EntryInv, PairInv
  <1> QED BY <1>4, <1>5, <1>6 DEF IInv

(* The inductive invariant of the tracers.                                 *)
THEOREM StraceInvariant == Spec => []IInv
  <1>1. Init => IInv
    BY InitIInv
  <1>2. IInv /\ [Next]_vars => IInv'
    <2> SUFFICES ASSUME IInv, [Next]_vars PROVE IInv'
      OBVIOUS
    <2>1. CASE FirstWait BY <2>1, FirstWaitInv
    <2>2. CASE SetOptions BY <2>2, SetOptionsInv
    <2>3. CASE PtraceSyscall BY <2>3, ResumeInv
    <2>4. CASE Wait BY <2>4, WaitInv
    <2>5. CASE GetRegsFails BY <2>5, GetRegsFailsInv
    <2>6. CASE NumberStartup BY <2>6, NumberStartupInv
    <2>7. CASE NumberStop BY <2>7, NumberStopInv
    <2>8. CASE ReturnEntry BY <2>8, ReturnEntryInv
    <2>9. CASE ReturnExit BY <2>9, ReturnExitInv
    <2>10. CASE MainStop BY <2>10, MainStopInv
    <2>11. CASE Traced
      <3>1. pc # "end" /\ UNCHANGED <<tool, tracerVars>> /\ (TraceeStep \/ TraceeKilled)
        BY <2>11 DEF Traced
      <3>2. CASE TraceeCalls BY <3>1, <3>2, CallsInv
      <3>3. CASE TraceeReturns BY <3>1, <3>3, ReturnsInv
      <3>4. CASE TraceeLoads \/ TraceeSignal BY <3>1, <3>4, LoadsInv
      <3>5. CASE TraceeKilled BY <3>1, <3>5, KilledInv
      <3> QED BY <3>1, <3>2, <3>3, <3>4, <3>5 DEF TraceeStep
    <2>12. CASE UNCHANGED vars BY <2>12, StutterInv
    <2> QED
      BY <2>1, <2>2, <2>3, <2>4, <2>5, <2>6, <2>7, <2>8, <2>9, <2>10, <2>11, <2>12
      DEF Next, Tracer, Done
  <1> QED BY <1>1, <1>2, PTL DEF Spec
-----------------------------------------------------------------------------
(* strace_0 and strace_1 print something for every call that returns,      *)
(* although execve and SIGTRAP turn the alternation of entries and exits   *)
(* over.                                                                   *)
THEOREM NoneMissed == Spec => []NoReturnedCallMissed
  <1>1. IInv => NoReturnedCallMissed
    <2> SUFFICES ASSUME IInv, tool \in Numbering, NEW i \in Left PROVE Printed(i) # {}
      BY DEF NoReturnedCallMissed
    <2>1. i \in DOMAIN calls /\ (i < Len(calls) \/ Past)
      BY DEF Left, Past
    <2>2. \E j \in DOMAIN out : out[j].call = i
      BY <2>1 DEF IInv, MissInv
    <2> QED BY <2>2 DEF Printed
  <1> QED BY <1>1, StraceInvariant, PTL

(* Without signals, and with one execve, they print each call once, when   *)
(* it is entered, in order.                                                *)
THEOREM OneLineEach == Spec => []OneLinePerCall
  <1>1. IInv => OneLinePerCall
    <2> SUFFICES ASSUME IInv, tool \in Numbering, signals = 0, Execs \subseteq {1}
                 PROVE  /\ Len(out) <= Len(calls)
                        /\ \A j \in DOMAIN out : out[j].call = j /\ out[j].nr = calls[j].nr
                        /\ tracee \notin {"entry", "killed", "reaped"} => Len(out) = Len(calls)
      BY DEF OneLinePerCall
    <2>1. tracee \notin {"entry", "killed", "reaped"} => Live /\ ~ Fresh
      BY DEF Live, Fresh
    <2> QED BY <2>1 DEF IInv, OneLineInv
  <1> QED BY <1>1, StraceInvariant, PTL

(* main prints at most one line, of a call that exits: none when nothing   *)
(* was loaded, and exactly one, of the call it exits by, for a program     *)
(* that was loaded, had no further traps and was not killed.               *)
THEOREM MainPrintsExit == Spec => []MainReportsExit
  <1>1. IInv => MainReportsExit
    <2> DEFINE exitLine == <<[nr |-> nr, ret |-> "?", call |-> Len(calls)]>>
    <2> SUFFICES ASSUME IInv, tool = "main"
                 PROVE  /\ Len(out) <= 1
                        /\ \A j \in DOMAIN out : out[j].nr \in Exits
                        /\ (/\ signals = 0 /\ Execs = {1}
                            /\ tracee \notin {"killed", "reaped"}
                            /\ \/ pc = "end"
                               \/ /\ nr \in Exits
                                  /\ ~ (tracee = "entry" /\ pc \in {"wait", "regs"}))
                             => out = exitLine
                        /\ Execs = {} => out = <<>>
      BY DEF MainReportsExit
    <2>1. Values /\ PlaceInv /\ CallInv /\ MainInv
      BY DEF IInv
    <2>2. Len(out) <= 1
      BY <2>1, CallsFact DEF MainInv
    <2>3. ASSUME signals = 0, Execs = {1}, tracee \notin {"killed", "reaped"},
                 \/ pc = "end"
                 \/ /\ nr \in Exits
                    /\ ~ (tracee = "entry" /\ pc \in {"wait", "regs"})
          PROVE  out = exitLine
      <3>1. CASE pc = "end"
        BY <2>1, <2>3, <3>1 DEF MainInv, Live
      <3>2. CASE pc # "end" /\ nr \in Exits
        <4>1. calls # <<>>
          BY <2>3 DEF Execs
        <4>2. ~ Past /\ tracee # "exit" /\ tracee # "start"
          <5>1. Past \/ tracee = "exit" => nr \notin Exits
            BY <2>1, <4>1 DEF CallInv
          <5>2. tracee # "start"
            BY <2>1, <4>1 DEF CallInv
          <5> QED BY <3>2, <5>1, <5>2
        <4>3. tracee \in {"entry", "kernel", "exited"}
          BY <2>1, <2>3, <4>2 DEF Values, Past, Stops, Running, Ended
        <4>4. tracee = "entry" => pc = "resume"
          BY <2>1, <2>3, <3>2 DEF Values, PlaceInv
        <4>5. Live /\ (InCall \/ tracee = "exited")
          BY <4>3, <4>4 DEF Live, InCall
        <4> QED BY <2>1, <2>3, <3>2, <4>5 DEF MainInv
      <3> QED BY <2>3, <3>1, <3>2
    <2> QED BY <2>1, <2>2, <2>3 DEF MainInv
  <1> QED BY <1>1, StraceInvariant, PTL

(* strace_2 prints the calls from the first execve on that are not ioctl,  *)
(* in order, each with its own number and value, and its flag is right at  *)
(* every stop.                                                             *)
THEOREM ReturnsArePaired == Spec => []ReturnsPaired
  <1>1. IInv => TypeOK
    <2> SUFFICES ASSUME IInv PROVE TypeOK
      OBVIOUS
    <2>1. Values /\ Flags
      BY DEF IInv
    <2>2. TraceeTypeOK
      BY <2>1 DEF Values, Flags, TraceeTypeOK, Call
    <2> QED BY <2>1, <2>2 DEF Values, Flags, TypeOK, Line
  <1>2. IInv => EntryFlagRight
    <2> SUFFICES ASSUME IInv, tool = "strace_2", pc = "regs", tracee \in Stops, ~ startup
                 PROVE  entryFlag <=> tracee = "entry"
      BY DEF EntryFlagRight
    <2>1. PlaceInv /\ CallInv /\ EntryInv
      BY DEF IInv
    <2>2. tracee \in {"entry", "exit"} /\ Live
      BY <2>1 DEF PlaceInv, Stops, Live
    <2>3. InCall <=> tracee = "exit"
      BY <2>2 DEF InCall
    <2>4. tracee = "exit" => nr \notin Exits
      BY <2>1 DEF CallInv, Stops
    <2> QED BY <2>1, <2>2, <2>3, <2>4 DEF EntryInv
  <1>3. ASSUME IInv, tool = "strace_2", tracee \notin {"entry", "exit", "killed", "reaped"}
        PROVE  /\ {out[j].call : j \in DOMAIN out} = {i \in DOMAIN calls : Shown(i)}
               /\ \A j \in DOMAIN out :
                    LET c == calls[out[j].call] IN
                    /\ out[j].nr = c.nr
                    /\ out[j].ret = IF c.nr \in Exits THEN "?" ELSE c.ret
                    /\ \A k \in 1 .. j - 1 : out[k].call < out[j].call
    <2>1. Values /\ PairInv /\ Live
      BY <1>3 DEF IInv, Live
    <2>2. /\ \A i \in DOMAIN calls : (\E j \in DOMAIN out : out[j].call = i) <=> Done_2(i)
          /\ \A j \in DOMAIN out :
               /\ out[j].call \in DOMAIN calls
               /\ out[j].nr = calls[out[j].call].nr
               /\ out[j].ret = IF out[j].nr \in Exits THEN "?" ELSE calls[out[j].call].ret
          /\ \A j, k \in DOMAIN out : k < j => out[k].call < out[j].call
      BY <1>3, <2>1 DEF PairInv
    <2>3. ASSUME NEW i \in DOMAIN calls PROVE Shown(i) <=> Done_2(i)
      <3>1. i \in Left <=> i < Len(calls) \/ Past
        BY <1>3 DEF Left, Past
      <3>2. InCall \/ tracee = "exited" <=> tracee \in {"kernel", "exited"}
        BY <1>3 DEF InCall
      <3> QED BY <3>1, <3>2 DEF Shown, Done_2
    <2>4. {out[j].call : j \in DOMAIN out} = {i \in DOMAIN calls : Shown(i)}
      BY <2>2, <2>3
    <2>5. ASSUME NEW j \in DOMAIN out
          PROVE  \A k \in 1 .. j - 1 : out[k].call < out[j].call
      <3>1. DOMAIN out = 1 .. Len(out) /\ Len(out) \in Nat
        BY <2>1, CallsFact
      <3>2. \A k \in 1 .. j - 1 : k \in DOMAIN out /\ k < j
        BY <2>5, <3>1
      <3> QED BY <2>2, <2>5, <3>2
    <2> QED BY <2>2, <2>4, <2>5
  <1>4. IInv => ReturnsPaired
    BY <1>1, <1>2, <1>3 DEF ReturnsPaired
  <1> QED BY <1>4, StraceInvariant, PTL
=============================================================================
