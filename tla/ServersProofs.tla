---------------------------- MODULE ServersProofs ----------------------------
(***************************************************************************)
(* Proofs about the socket servers, for any number of clients, any sizes   *)
(* of request, buffer and queue, and any number of failing calls: which    *)
(* sockets are open when, and what is printed of a request.                *)
(***************************************************************************)
EXTENDS Servers, TLAPS

Serving == {"recv", "scan", "send", "close", "overrun"}

(* The variables, without trouble, which holds a truth value. *)
Values ==
  /\ program \in {"0-server", "1-server", "3-server", "todo_api_0"}
  /\ pc \in {"socket", "bind", "listen", "pause", "accept", "recv", "scan",
             "send", "close", "ended", "killed", "overrun"}
  /\ status \in {None, "SUCCESS", "FAILURE"}
  /\ server \in {"closed", "open", "listening"}
  /\ queue \in Seq(Clients) /\ open \subseteq Clients
  /\ cli \in Clients \union {None}
  /\ buffer \in Seq(Words) /\ fields \in [1 .. 3 -> Words \union {None}]
  /\ peer \in [Clients -> {"away", "open", "shut", "reset", "broken"}]
  /\ written \in [Clients -> 0 .. MaxWords]
  /\ tooLong \subseteq Clients \X LongAt
  /\ taken \in [Clients -> Nat]
  /\ faults \in 0 .. MaxFaults

(* recv took what had been written, or as much as there is room for.       *)
CountInv == \A c \in Clients : taken[c] <= written[c] /\ taken[c] <= BUFFER

(* A connection waits once, and is not the one that is served. *)
QueueInv ==
  /\ Len(queue) <= BACKLOG + 1
  /\ \A j, k \in 1 .. Len(queue) : queue[j] = queue[k] => j = k
  /\ \A k \in 1 .. Len(queue) : peer[queue[k]] # "away" /\ queue[k] \notin open
  /\ server # "listening" => queue = <<>>

(* Which sockets are open, and which calls each program makes. *)
SocketInv ==
  /\ server = "listening" <=> pc \in {"pause", "accept"} \union Serving
  /\ server = "closed" <=> pc \in {"socket", "ended", "killed"}
  /\ pc \in Serving => cli \in Clients /\ open = {cli} /\ peer[cli] # "away"
  /\ pc \notin Serving => open = {}
  /\ program = "0-server" => pc \notin {"accept"} \union Serving
  /\ program = "1-server" => pc \notin {"recv", "scan", "send", "overrun"}
  /\ program # "todo_api_0" => pc \notin {"scan", "send", "overrun"}

(* What a program has done wrong by the point it is at. *)
StatusInv ==
  /\ status # None <=> pc = "ended"
  /\ pc \in {"socket", "bind", "listen"} => ~ trouble
  /\ program # "todo_api_0" /\ pc \in {"pause", "accept", "recv"} => ~ trouble
  /\ program \in {"0-server", "1-server"} /\ pc # "ended" => ~ trouble
  /\ program # "3-server" /\ pc = "ended" => (status = "FAILURE" <=> trouble)

(* The buffer holds the request of the client that is served; a field that *)
(* is not of this request is of one that was handled before.               *)
RequestInv ==
  /\ pc \in {"scan", "send", "overrun"} =>
       buffer = [k \in 1 .. taken[cli] |-> <<cli, k>>]
  /\ pc = "send" => \A k \in 1 .. 3 :
       k <= taken[cli] => fields[k] = <<cli, k>> /\ fields[k] \notin tooLong
  /\ pc = "overrun" => \E k \in 1 .. taken[cli] : <<cli, k>> \in tooLong
  /\ \A k \in 1 .. 3 :
       fields[k] # None =>
         \/ Handled(fields[k][1])
         \/ pc \in {"send", "close"} /\ k <= taken[cli] /\ fields[k] = <<cli, k>>

IInv ==
  /\ Values /\ trouble \in BOOLEAN
  /\ CountInv /\ QueueInv /\ SocketInv /\ StatusInv /\ RequestInv
-----------------------------------------------------------------------------
LEMMA Bounds == MaxWords \in Nat /\ BUFFER \in Nat /\ BACKLOG \in Nat /\ MaxFaults \in Nat
  BY ServersAssumption

LEMMA NoneFact == None \notin Clients /\ None \notin Words /\ None \notin {"SUCCESS", "FAILURE"}
  BY ServersAssumption DEF Words

LEMMA MinFact ==
  ASSUME NEW a \in Nat, NEW b \in Nat
  PROVE  Min({a, b}) = IF a <= b THEN a ELSE b
  <1> DEFINE m == IF a <= b THEN a ELSE b
  <1>1. m \in {a, b} /\ \A y \in {a, b} : m <= y
    OBVIOUS
  <1>2. \A x \in {a, b} : (\A y \in {a, b} : x <= y) => x = m
    OBVIOUS
  <1>3. \E x \in {a, b} : \A y \in {a, b} : x <= y
    BY <1>1
  <1>4. Min({a, b}) \in {a, b} /\ \A y \in {a, b} : Min({a, b}) <= y
    BY <1>3, Zenon DEF Min
  <1> QED BY <1>2, <1>4

LEMMA InitIInv == Init => IInv
  <1> SUFFICES ASSUME Init PROVE IInv
    OBVIOUS
  <1>1. Values
    <2>1. <<None, None, None>> \in [1 .. 3 -> Words \union {None}]
      OBVIOUS
    <2>2. queue \in Seq(Clients) /\ buffer \in Seq(Words)
      BY DEF Init
    <2> QED BY <2>1, <2>2, Bounds DEF Init, Values
  <1>2. trouble \in BOOLEAN
    BY DEF Init
  <1>3. CountInv
    BY Bounds, MinFact DEF Init, CountInv
  <1>4. QueueInv /\ SocketInv
    BY Bounds DEF Init, QueueInv, SocketInv, Serving
  <1>5. StatusInv
    BY DEF Init, StatusInv
  <1>6. RequestInv
    <2>1. \A k \in 1 .. 3 : fields[k] = None
      BY DEF Init
    <2> QED BY <2>1 DEF Init, RequestInv
  <1> QED BY <1>1, <1>2, <1>3, <1>4, <1>5, <1>6 DEF IInv

(* A connection is handled once it waits for nothing any more.             *)
LEMMA HandledFact ==
  ASSUME NEW c
  PROVE  Handled(c) <=> /\ peer[c] # "away" /\ c \notin open
                        /\ \A k \in 1 .. Len(queue) : queue[k] # c
  BY DEF Handled, Contains

(* A client connects: it has not been here before.                         *)
LEMMA ConnectInv ==
  ASSUME IInv, NEW c \in Clients, Client(c), Connect(c)
  PROVE  IInv'
  <1>0. /\ Values /\ CountInv /\ QueueInv /\ SocketInv /\ StatusInv
        /\ RequestInv
    BY DEF IInv
  <1>1. /\ server = "listening" /\ peer[c] = "away" /\ Len(queue) <= BACKLOG
        /\ peer' = [peer EXCEPT ![c] = "open"] /\ queue' = Append(queue, c)
        /\ UNCHANGED <<program, pc, status, server, open, cli, buffer, fields,
                       written, tooLong, taken, faults, trouble>>
    BY DEF Client, Connect
  <1>2. /\ peer' \in [Clients -> {"away", "open", "shut", "reset", "broken"}]
        /\ peer'[c] = "open" /\ \A d \in Clients : d # c => peer'[d] = peer[d]
    BY <1>0, <1>1 DEF Values
  <1>3. /\ queue' \in Seq(Clients) /\ Len(queue) \in Nat
        /\ Len(queue') = Len(queue) + 1 /\ queue'[Len(queue) + 1] = c
        /\ \A k \in 1 .. Len(queue) : queue'[k] = queue[k] /\ queue[k] \in Clients
    BY <1>0, <1>1 DEF Values
  <1>4. \A k \in 1 .. Len(queue') : k \in 1 .. Len(queue) \/ k = Len(queue) + 1
    BY <1>3
  <1>5. \A k \in 1 .. Len(queue) : queue[k] # c
    BY <1>0, <1>1 DEF QueueInv
  <1>6. c \notin open
    BY <1>0, <1>1 DEF SocketInv
  <1>7. Values'
    BY <1>0, <1>1, <1>2, <1>3 DEF Values
  <1>8. QueueInv'
    <2>1. Len(queue') <= BACKLOG + 1
      BY <1>1, <1>3, Bounds
    <2>2. \A j, k \in 1 .. Len(queue') : queue'[j] = queue'[k] => j = k
      BY <1>0, <1>3, <1>4, <1>5 DEF QueueInv
    <2>3. \A k \in 1 .. Len(queue') : peer'[queue'[k]] # "away" /\ queue'[k] \notin open'
      BY <1>0, <1>1, <1>2, <1>3, <1>4, <1>6 DEF QueueInv
    <2> QED BY <1>1, <2>1, <2>2, <2>3 DEF QueueInv
  <1>9. CountInv' /\ StatusInv'
    BY <1>0, <1>1 DEF CountInv, StatusInv
  <1>10. SocketInv'
    BY <1>0, <1>1, <1>2 DEF SocketInv
  <1>11. RequestInv'
    <2>1. \A d \in Clients : Handled(d) => Handled(d)'
      <3> SUFFICES ASSUME NEW d \in Clients, Handled(d) PROVE Handled(d)'
        OBVIOUS
      <3>1. d # c /\ d \notin open /\ peer[d] # "away"
            /\ \A k \in 1 .. Len(queue) : queue[k] # d
        BY <1>1, HandledFact
      <3>2. d \notin open' /\ peer'[d] # "away"
            /\ \A k \in 1 .. Len(queue') : queue'[k] # d
        BY <1>1, <1>2, <1>3, <1>4, <3>1
      <3> QED BY <3>2 DEF Handled, Contains
    <2>2. \A k \in 1 .. 3 : fields[k] # None => fields[k][1] \in Clients
      BY <1>0 DEF Values, Words
    <2> QED BY <1>0, <1>1, <2>1, <2>2 DEF RequestInv
  <1> QED BY <1>0, <1>1, <1>7, <1>8, <1>9, <1>10, <1>11 DEF IInv

(* A client writes a word, which is none of those that were received.      *)
LEMMA WriteInv ==
  ASSUME IInv, NEW c \in Clients, Client(c), Write(c)
  PROVE  IInv'
  <1>0. /\ Values /\ CountInv /\ QueueInv /\ SocketInv /\ StatusInv
        /\ RequestInv
    BY DEF IInv
  <1>1. /\ written[c] < MaxWords /\ written' = [written EXCEPT ![c] = written[c] + 1]
        /\ UNCHANGED <<program, pc, status, server, open, cli, buffer, fields,
                       peer, queue, taken, faults, trouble>>
    BY DEF Client, Write
  <1>2. /\ written' \in [Clients -> 0 .. MaxWords] /\ written'[c] = written[c] + 1
        /\ \A d \in Clients : d # c => written'[d] = written[d]
    BY <1>0, <1>1, Bounds DEF Values
  <1>3. \/ tooLong' = tooLong
        \/ written'[c] \in LongAt /\ tooLong' = tooLong \union {<<c, written'[c]>>}
    BY DEF Write
  <1>4. /\ \A d \in Clients : taken[d] \in Nat /\ written[d] \in Nat
        /\ \A d \in Clients : taken[d] <= written[d]
    BY <1>0, Bounds DEF Values, CountInv
  <1>5. Values'
    <2>1. tooLong' \subseteq Clients \X LongAt
      BY <1>0, <1>3 DEF Values
    <2> QED BY <1>0, <1>1, <1>2, <2>1 DEF Values
  <1>6. CountInv'
    BY <1>0, <1>1, <1>2, <1>4 DEF CountInv
  <1>7. QueueInv' /\ SocketInv' /\ StatusInv'
    BY <1>0, <1>1 DEF QueueInv, SocketInv, StatusInv
  <1>8. RequestInv'
    <2>1. tooLong \subseteq tooLong'
      BY <1>3
    <2>2. ASSUME pc = "send", NEW k \in 1 .. 3, k <= taken[cli]
          PROVE  fields[k] = <<cli, k>> /\ fields[k] \notin tooLong'
      <3>1. fields[k] = <<cli, k>> /\ fields[k] \notin tooLong
        BY <1>0, <2>2 DEF RequestInv
      <3>2. cli \in Clients
        BY <1>0, <2>2 DEF SocketInv, Serving
      <3>3. cli = c => k # written'[c]
        BY <1>2, <1>4, <2>2, <3>2
      <3>4. <<cli, k>> # <<c, written'[c]>>
        BY <3>3
      <3> QED BY <1>3, <3>1, <3>4
    <2>3. \A d : Handled(d)' <=> Handled(d)
      BY <1>1 DEF Handled
    <2>4. pc = "overrun" => \E k \in 1 .. taken[cli] : <<cli, k>> \in tooLong'
      BY <1>0, <2>1 DEF RequestInv
    <2>5. /\ pc \in {"scan", "send", "overrun"} =>
                buffer = [k \in 1 .. taken[cli] |-> <<cli, k>>]
          /\ \A k \in 1 .. 3 :
               fields[k] # None =>
                 \/ Handled(fields[k][1])
                 \/ pc \in {"send", "close"} /\ k <= taken[cli] /\ fields[k] = <<cli, k>>
      BY <1>0 DEF RequestInv
    <2> QED BY <1>1, <2>2, <2>3, <2>4, <2>5 DEF RequestInv
  <1> QED BY <1>0, <1>1, <1>5, <1>6, <1>7, <1>8 DEF IInv

(* A client closes or resets its connection.                               *)
LEMMA LeaveInv ==
  ASSUME IInv, NEW c \in Clients, Client(c), Leave(c)
  PROVE  IInv'
  <1>0. /\ Values /\ CountInv /\ QueueInv /\ SocketInv /\ StatusInv
        /\ RequestInv
    BY DEF IInv
  <1>1. UNCHANGED <<program, pc, status, server, open, cli, buffer, fields,
                    queue, written, tooLong, taken, faults, trouble>>
    BY DEF Client, Leave
  <1>2. /\ peer' \in [Clients -> {"away", "open", "shut", "reset", "broken"}]
        /\ \A d \in Clients : peer[d] = "away" <=> peer'[d] = "away"
    BY <1>0 DEF Leave, Values
  <1>4. Values'
    BY <1>0, <1>1, <1>2 DEF Values
  <1>5. CountInv' /\ StatusInv'
    BY <1>0, <1>1 DEF CountInv, StatusInv
  <1>6. QueueInv'
    <2>1. \A k \in 1 .. Len(queue) : queue[k] \in Clients
      BY <1>0 DEF Values
    <2> QED BY <1>0, <1>1, <1>2, <2>1 DEF QueueInv
  <1>7. SocketInv'
    BY <1>0, <1>1, <1>2 DEF SocketInv
  <1>8. RequestInv'
    <2>1. \A k \in 1 .. 3 : fields[k] # None => fields[k][1] \in Clients
      BY <1>0 DEF Values, Words
    <2>2. \A d \in Clients : Handled(d) => Handled(d)'
      BY <1>1, <1>2 DEF Handled, Contains
    <2> QED BY <1>0, <1>1, <2>1, <2>2 DEF RequestInv
  <1> QED BY <1>0, <1>1, <1>4, <1>5, <1>6, <1>7, <1>8 DEF IInv
-----------------------------------------------------------------------------
(* The calls that set a server up: the socket it opened is closed again    *)
(* when one of them fails.                                                 *)
LEMMA SetUpInv ==
  ASSUME IInv, ServerSocket \/ Bind \/ Listen, UNCHANGED <<program, clientVars>>
  PROVE  IInv'
  <1>0. /\ Values /\ CountInv /\ QueueInv /\ SocketInv /\ StatusInv
        /\ RequestInv
    BY DEF IInv
  <1>1. /\ pc \in {"socket", "bind", "listen"}
        /\ UNCHANGED <<program, queue, open, cli, buffer, fields, peer, written,
                       tooLong, taken>>
    BY DEF ServerSocket, Bind, Listen, clientVars
  <1>2. /\ ~ trouble /\ queue = <<>> /\ open = {} /\ status = None
        /\ Len(queue) = 0
    BY <1>0, <1>1 DEF StatusInv, QueueInv, SocketInv, Serving, Values
  <1>3. \/ /\ pc' \in {"bind", "listen", "pause", "accept"}
           /\ server' = IF pc' \in {"bind", "listen"} THEN "open" ELSE "listening"
           /\ pc' = "pause" <=> program = "0-server" /\ pc' \notin {"bind", "listen"}
           /\ UNCHANGED <<status, faults, trouble>>
        \/ /\ pc' = "ended" /\ status' = "FAILURE" /\ server' = "closed"
           /\ trouble' = TRUE /\ faults' \in 0 .. MaxFaults
    <2>1. CASE ServerSocket
      BY <1>0, <2>1, Bounds DEF ServerSocket, NoFault, Fault, Goto, Exit, SocketInv, Values
    <2>2. CASE Bind
      BY <1>0, <2>2, Bounds DEF Bind, NoFault, Fault, Goto, Exit, SocketInv, Values, Serving
    <2>3. CASE Listen
      BY <1>0, <2>3, Bounds DEF Listen, NoFault, Fault, Goto, Exit, SocketInv, Values
    <2> QED BY <2>1, <2>2, <2>3
  <1>4. Values'
    BY <1>0, <1>1, <1>3 DEF Values
  <1>5. trouble' \in BOOLEAN
    BY <1>3 DEF IInv
  <1>6. CountInv' /\ QueueInv'
    BY <1>0, <1>1, <1>2 DEF CountInv, QueueInv
  <1>7. SocketInv'
    BY <1>0, <1>1, <1>2, <1>3 DEF SocketInv, Serving
  <1>8. StatusInv'
    BY <1>1, <1>2, <1>3, NoneFact DEF StatusInv
  <1>9. RequestInv'
    <2>1. \A d \in Clients : Handled(d)' <=> Handled(d)
      BY <1>1 DEF Handled
    <2>2. \A k \in 1 .. 3 : fields[k] # None => fields[k][1] \in Clients
      BY <1>0 DEF Values, Words
    <2>3. /\ pc \notin {"scan", "send", "close", "overrun"}
          /\ pc' \notin {"scan", "send", "close", "overrun"}
      BY <1>1, <1>3
    <2> QED BY <1>0, <1>1, <2>1, <2>2, <2>3 DEF RequestInv
  <1> QED BY <1>4, <1>5, <1>6, <1>7, <1>8, <1>9 DEF IInv

(* What is left of a request when nothing of it changes, and every client  *)
(* that was handled still is.                                              *)
LEMMA RequestKept ==
  ASSUME Values, RequestInv, UNCHANGED <<fields, buffer, cli, taken, tooLong>>,
         pc' \in {"scan", "send", "overrun"} => pc' = pc,
         \A d \in Clients : Handled(d) => Handled(d)',
         pc \in {"send", "close"} => pc' \in {"send", "close"} \/ Handled(cli)'
  PROVE  RequestInv'
  <1>1. \A k \in 1 .. 3 : fields[k] # None => fields[k][1] \in Clients
    BY DEF Values, Words
  <1>2. \A k \in 1 .. 3 : fields[k] = <<cli, k>> => fields[k][1] = cli
    OBVIOUS
  <1> QED BY <1>1, <1>2 DEF RequestInv

(* The first connection that waits is accepted.                            *)
LEMMA TakeInv ==
  ASSUME IInv, pc = "accept", queue # <<>>,
         cli' = Head(queue), open' = {Head(queue)}, queue' = Tail(queue),
         Goto(IF program = "1-server" THEN "close" ELSE "recv"), NoFault,
         UNCHANGED <<server, buffer, fields, taken, program, clientVars>>
  PROVE  IInv'
  <1> DEFINE h == Head(queue)
  <1>0. /\ Values /\ CountInv /\ QueueInv /\ SocketInv /\ StatusInv
        /\ RequestInv
    BY DEF IInv
  <1>1. /\ cli' = h /\ open' = {h} /\ queue' = Tail(queue)
        /\ pc' \in {"close", "recv"}
        /\ pc' = "close" <=> program = "1-server"
        /\ UNCHANGED <<program, status, server, buffer, fields, peer, written,
                       tooLong, taken, faults, trouble>>
    BY DEF Goto, NoFault, clientVars
  <1>2. /\ Len(queue) \in Nat /\ Len(queue) >= 1 /\ h = queue[1]
        /\ Len(queue') = Len(queue) - 1 /\ queue' \in Seq(Clients)
        /\ \A k \in 1 .. Len(queue') : queue'[k] = queue[k + 1]
        /\ \A k \in 1 .. Len(queue) : queue[k] \in Clients
    BY <1>0, <1>1 DEF Values
  <1>3. /\ \A k \in 1 .. Len(queue') : queue'[k] # h
        /\ h \in Clients /\ peer[h] # "away"
    <2>1. 1 \in 1 .. Len(queue) /\ queue[1] \in Clients
      BY <1>2
    <2>2. \A k \in 1 .. Len(queue') : k + 1 \in 1 .. Len(queue) /\ k + 1 # 1
      BY <1>2
    <2>3. \A k \in 1 .. Len(queue') : queue[k + 1] # queue[1]
      BY <1>0, <2>1, <2>2 DEF QueueInv
    <2> QED BY <1>0, <1>2, <2>1, <2>3 DEF QueueInv
  <1>4. server = "listening" /\ open = {}
    BY <1>0 DEF SocketInv, Serving
  <1>5. Values'
    BY <1>0, <1>1, <1>2, <1>3 DEF Values
  <1>6. QueueInv'
    <2>1. \A k \in 1 .. Len(queue') : k + 1 \in 1 .. Len(queue)
      BY <1>2
    <2>2. Len(queue') <= BACKLOG + 1
      BY <1>0, <1>2, Bounds DEF QueueInv
    <2>3. \A j, k \in 1 .. Len(queue') : queue'[j] = queue'[k] => j = k
      BY <1>0, <1>2, <2>1 DEF QueueInv
    <2>4. \A k \in 1 .. Len(queue') : peer[queue'[k]] # "away" /\ queue'[k] \notin open'
      BY <1>0, <1>1, <1>2, <1>3, <2>1 DEF QueueInv
    <2> QED BY <1>1, <1>4, <2>2, <2>3, <2>4 DEF QueueInv
  <1>7. CountInv' /\ StatusInv'
    BY <1>0, <1>1 DEF CountInv, StatusInv
  <1>8. SocketInv'
    BY <1>0, <1>1, <1>3, <1>4 DEF SocketInv, Serving
  <1>9. RequestInv'
    <2>1. \A d \in Clients : Handled(d) => Handled(d)'
      <3> SUFFICES ASSUME NEW d \in Clients, Handled(d) PROVE Handled(d)'
        OBVIOUS
      <3>1. peer[d] # "away" /\ \A k \in 1 .. Len(queue) : queue[k] # d
        BY HandledFact
      <3>2. d # h
        BY <1>2, <3>1
      <3>3. \A k \in 1 .. Len(queue') : queue'[k] # d
        BY <1>2, <3>1
      <3> QED BY <1>1, <3>1, <3>2, <3>3 DEF Handled, Contains
    <2>2. \A k \in 1 .. 3 : fields[k] # None => Handled(fields[k][1]) /\ fields[k][1] \in Clients
      BY <1>0 DEF RequestInv, Values, Words
    <2> QED BY <1>1, <2>1, <2>2 DEF RequestInv
  <1>10. (trouble \in BOOLEAN)'
    BY <1>1 DEF IInv
  <1> QED BY <1>5, <1>6, <1>7, <1>8, <1>9, <1>10 DEF IInv

(* Nothing is accepted: the server tries again, or ends.                   *)
LEMMA AcceptFailsInv ==
  ASSUME IInv, pc = "accept", Fault,
         IF program = "todo_api_0" THEN Goto("accept") /\ UNCHANGED <<server, queue>>
         ELSE Exit("FAILURE") /\ CloseServer,
         UNCHANGED <<open, cli, buffer, fields, taken, program, clientVars>>
  PROVE  IInv'
  <1>0. /\ Values /\ CountInv /\ QueueInv /\ SocketInv /\ StatusInv
        /\ RequestInv
    BY DEF IInv
  <1>1. /\ UNCHANGED <<program, open, cli, buffer, fields, peer, written, tooLong,
                       taken>>
        /\ trouble' = TRUE
        /\ \/ /\ program = "todo_api_0" /\ pc' = "accept"
              /\ UNCHANGED <<status, server, queue>>
           \/ /\ program # "todo_api_0" /\ pc' = "ended" /\ status' = "FAILURE"
              /\ server' = "closed" /\ queue' = <<>>
    BY DEF Fault, Goto, Exit, CloseServer, clientVars
  <1>2. faults' \in 0 .. MaxFaults
    BY <1>0, Bounds DEF Fault, Values
  <1>3. open = {} /\ queue' \in {queue, <<>>} /\ Len(<<>>) = 0
    BY <1>0, <1>1 DEF SocketInv, Serving
  <1>4. Values'
    <2>1. <<>> \in Seq(Clients) /\ queue \in Seq(Clients)
      BY <1>0 DEF Values
    <2>2. queue' \in Seq(Clients)
      BY <1>3, <2>1, Zenon
    <2> QED BY <1>0, <1>1, <1>2, <2>2 DEF Values
  <1>5. QueueInv'
    BY <1>0, <1>1, <1>3, Bounds DEF QueueInv
  <1>6. CountInv'
    BY <1>0, <1>1 DEF CountInv
  <1>7. SocketInv'
    BY <1>0, <1>1, <1>3 DEF SocketInv, Serving
  <1>8. StatusInv'
    BY <1>0, <1>1, NoneFact DEF StatusInv
  <1>9. RequestInv'
    <2>1. \A d \in Clients : Handled(d) => Handled(d)'
      BY <1>1, <1>3 DEF Handled, Contains
    <2> QED BY <1>0, <1>1, <2>1, RequestKept
  <1>10. (trouble \in BOOLEAN)'
    BY <1>1
  <1> QED BY <1>4, <1>5, <1>6, <1>7, <1>8, <1>9, <1>10 DEF IInv

LEMMA AcceptInv ==
  ASSUME IInv, Accept, UNCHANGED <<program, clientVars>>
  PROVE  IInv'
  BY TakeInv, AcceptFailsInv DEF Accept

(* recv returns what the client wrote: the buffer was cleared before.      *)
LEMMA ReceiveFact ==
  ASSUME Values, CountInv, cli \in Clients, Receive
  PROVE  /\ taken' \in [Clients -> Nat]
         /\ taken'[cli] <= written[cli] /\ taken'[cli] <= BUFFER
         /\ \A d \in Clients : d # cli => taken'[d] = taken[d]
         /\ buffer' \in Seq(Words)
         /\ buffer' = [k \in 1 .. taken'[cli] |-> <<cli, k>>]
  <1> DEFINE n == Min({written[cli], BUFFER})
             words == [k \in 1 .. n |-> <<cli, k>>]
  <1>1. written[cli] \in 0 .. MaxWords
    BY DEF Values
  <1>2. n \in Nat /\ n <= MaxWords /\ n <= written[cli] /\ n <= BUFFER
    BY <1>1, Bounds, MinFact
  <1> HIDE DEF n
  <1>3. words \in Seq(Words) /\ Len(words) = n
    BY <1>2, Bounds DEF Words
  <1>4. SubSeq(Cleared, n + 1, Len(Cleared)) = <<>>
    BY <1>2 DEF Cleared
  <1>5. /\ buffer' = words \o <<>>
        /\ taken' = [taken EXCEPT ![cli] = n]
    BY <1>4 DEF Receive, Room, n
  <1>6. buffer' = words
    BY <1>3, <1>5
  <1>7. /\ taken' \in [Clients -> Nat] /\ taken'[cli] = n
        /\ \A d \in Clients : d # cli => taken'[d] = taken[d]
    BY <1>2, <1>5 DEF Values
  <1> QED BY <1>2, <1>3, <1>6, <1>7

LEMMA RecvInv ==
  ASSUME IInv, Recv, UNCHANGED <<program, clientVars>>
  PROVE  IInv'
  <1>0. /\ Values /\ CountInv /\ QueueInv /\ SocketInv /\ StatusInv
        /\ RequestInv
    BY DEF IInv
  <1>1. /\ pc = "recv" /\ status' = status
        /\ UNCHANGED <<program, server, queue, cli, fields, peer, written, tooLong>>
    BY DEF Recv, Goto, clientVars
  <1>2. /\ cli \in Clients /\ open = {cli} /\ peer[cli] # "away"
        /\ program \notin {"0-server", "1-server"} /\ server = "listening"
    BY <1>0, <1>1 DEF SocketInv, Serving
  <1>3. \A d \in Clients : open' \subseteq open /\ Handled(d) => Handled(d)'
    BY <1>1 DEF Handled, Contains
  <1>4. CASE /\ Receive /\ NoFault /\ UNCHANGED open
             /\ pc' = IF program = "todo_api_0" THEN "scan" ELSE "close"
    <2>1. /\ taken' \in [Clients -> Nat]
          /\ taken'[cli] <= written[cli] /\ taken'[cli] <= BUFFER
          /\ \A d \in Clients : d # cli => taken'[d] = taken[d]
          /\ buffer' \in Seq(Words)
          /\ buffer' = [k \in 1 .. taken'[cli] |-> <<cli, k>>]
      BY <1>0, <1>2, <1>4, ReceiveFact
    <2>2. faults' = faults /\ trouble' = trouble /\ open' = open
      BY <1>4 DEF NoFault
    <2>3. Values'
      BY <1>0, <1>1, <1>4, <2>1, <2>2 DEF Values
    <2>4. CountInv'
      BY <1>0, <1>1, <2>1 DEF CountInv
    <2>5. QueueInv' /\ SocketInv'
      BY <1>0, <1>1, <1>2, <1>4, <2>2 DEF QueueInv, SocketInv, Serving
    <2>6. StatusInv'
      BY <1>0, <1>1, <1>2, <1>4, <2>2 DEF StatusInv
    <2>7. RequestInv'
      <3>1. \A k \in 1 .. 3 :
              fields[k] # None => Handled(fields[k][1]) /\ fields[k][1] \in Clients
        BY <1>0, <1>1 DEF RequestInv, Values, Words
      <3> QED BY <1>1, <1>3, <1>4, <2>1, <2>2, <3>1 DEF RequestInv
    <2>8. (trouble \in BOOLEAN)'
      BY <2>2 DEF IInv
    <2> QED BY <2>3, <2>4, <2>5, <2>6, <2>7, <2>8 DEF IInv
  <1>5. CASE /\ trouble' = TRUE /\ faults' \in 0 .. MaxFaults
             /\ \/ /\ program = "todo_api_0" /\ open' = {} /\ pc' = "accept"
                \/ program # "todo_api_0" /\ open' = open /\ pc' = "close"
             /\ UNCHANGED <<buffer, taken>>
    <2>1. Values'
      BY <1>0, <1>1, <1>5 DEF Values
    <2>2. CountInv'
      BY <1>0, <1>1, <1>5 DEF CountInv
    <2>3. QueueInv' /\ SocketInv'
      BY <1>0, <1>1, <1>2, <1>5 DEF QueueInv, SocketInv, Serving
    <2>4. StatusInv'
      BY <1>0, <1>1, <1>2, <1>5 DEF StatusInv
    <2>5. RequestInv'
      <3>1. open' \subseteq open
        BY <1>5
      <3> QED BY <1>0, <1>1, <1>3, <1>5, <3>1, RequestKept
    <2>6. (trouble \in BOOLEAN)'
      BY <1>5
    <2> QED BY <2>1, <2>2, <2>3, <2>4, <2>5, <2>6 DEF IInv
  <1>6. \/ /\ Receive /\ NoFault /\ UNCHANGED open
           /\ pc' = IF program = "todo_api_0" THEN "scan" ELSE "close"
        \/ /\ trouble' = TRUE /\ faults' \in 0 .. MaxFaults
           /\ \/ /\ program = "todo_api_0" /\ open' = {} /\ pc' = "accept"
              \/ program # "todo_api_0" /\ open' = open /\ pc' = "close"
           /\ UNCHANGED <<buffer, taken>>
    BY <1>0, Bounds DEF Recv, Goto, Fault, OpenAfterError, Values
  <1> QED BY <1>4, <1>5, <1>6

(* A word of the request goes to its field; a field that the request does  *)
(* not have keeps what a client that was handled before left there.        *)
LEMMA ScanInv ==
  ASSUME IInv, Scan, UNCHANGED <<program, clientVars>>
  PROVE  IInv'
  <1>0. /\ Values /\ CountInv /\ QueueInv /\ SocketInv /\ StatusInv
        /\ RequestInv
    BY DEF IInv
  <1>1. /\ pc = "scan"
        /\ UNCHANGED <<program, status, server, queue, open, cli, buffer, peer,
                       written, tooLong, taken, faults, trouble>>
    BY DEF Scan, Goto, NoFault, clientVars
  <1>2. /\ cli \in Clients /\ taken[cli] \in Nat
        /\ buffer = [k \in 1 .. taken[cli] |-> <<cli, k>>]
        /\ DOMAIN buffer = 1 .. taken[cli]
    BY <1>0, <1>1 DEF SocketInv, Serving, RequestInv, Values
  <1>3. CountInv' /\ QueueInv' /\ (trouble \in BOOLEAN)'
    BY <1>0, <1>1 DEF CountInv, QueueInv, IInv
  <1>4. pc' \in {"send", "overrun"} => SocketInv' /\ StatusInv'
    BY <1>0, <1>1 DEF SocketInv, StatusInv, Serving
  <1>5. /\ \A d : Handled(d) <=> Handled(d)'
        /\ \A k \in 1 .. 3 : fields[k] # None => Handled(fields[k][1])
    BY <1>0, <1>1 DEF RequestInv, Handled
  <1>6. CASE /\ ~ Overrun /\ pc' = "send"
             /\ fields' = [k \in 1 .. 3 |-> IF k \in DOMAIN buffer THEN buffer[k]
                                            ELSE fields[k]]
    <2>1. \A k \in 1 .. 3 :
            fields'[k] = IF k <= taken[cli] THEN <<cli, k>> ELSE fields[k]
      BY <1>2, <1>6
    <2>2. Values'
      <3>1. \A k \in DOMAIN buffer : buffer[k] \in Words
        BY <1>0 DEF Values
      <3>2. fields' \in [1 .. 3 -> Words \union {None}]
        BY <1>0, <1>6, <3>1 DEF Values
      <3> QED BY <1>0, <1>1, <1>6, <3>2 DEF Values
    <2>3. \A k \in 1 .. 3 : k <= taken[cli] => <<cli, k>> \notin tooLong
      <3>1. \A k \in 1 .. taken[cli] : <<cli, k>> \notin tooLong
        BY <1>2, <1>6 DEF Overrun, Scanned
      <3> QED BY <1>2, <3>1
    <2>4. ASSUME NEW k \in 1 .. 3, fields'[k] # None
          PROVE  Handled(fields[k][1])' \/ (k <= taken[cli] /\ fields'[k] = <<cli, k>>)
      <3>1. CASE k <= taken[cli]
        BY <2>1, <3>1
      <3>2. CASE ~ (k <= taken[cli])
        <4>1. fields'[k] = fields[k] /\ Handled(fields[k][1])
          BY <1>5, <2>1, <2>4, <3>2
        <4> QED BY <1>1, <4>1 DEF Handled
      <3> QED BY <3>1, <3>2
    <2>5. RequestInv'
      BY <1>1, <1>2, <1>6, <2>1, <2>3, <2>4 DEF RequestInv
    <2> QED BY <1>3, <1>4, <1>6, <2>2, <2>5 DEF IInv
  <1>7. CASE Overrun /\ pc' = "overrun" /\ fields' = fields
    <2>1. Values'
      BY <1>0, <1>1, <1>7 DEF Values
    <2>2. \E k \in 1 .. taken[cli] : <<cli, k>> \in tooLong
      BY <1>2, <1>7 DEF Overrun, Scanned
    <2>3. RequestInv'
      BY <1>1, <1>2, <1>5, <1>7, <2>2 DEF RequestInv, Handled
    <2> QED BY <1>3, <1>4, <1>7, <2>1, <2>3 DEF IInv
  <1> QED BY <1>6, <1>7 DEF Scan, Scanned, Goto

(* The answer is sent, or the process is killed.                           *)
LEMMA SendInv ==
  ASSUME IInv, Send, UNCHANGED <<program, clientVars>>
  PROVE  IInv'
  <1>0. /\ Values /\ CountInv /\ QueueInv /\ SocketInv /\ StatusInv
        /\ RequestInv
    BY DEF IInv
  <1>1. /\ pc = "send" /\ status' = status
        /\ UNCHANGED <<program, cli, buffer, fields, peer, written, tooLong, taken>>
    BY DEF Send, Goto, clientVars
  <1>2. /\ cli \in Clients /\ open = {cli} /\ peer[cli] # "away"
        /\ server = "listening" /\ program = "todo_api_0"
        /\ \A k \in 1 .. Len(queue) : queue[k] # cli
    BY <1>0, <1>1 DEF SocketInv, Serving, QueueInv
  <1>3. \A d \in Clients :
          open' \subseteq open /\ queue' \in {queue, <<>>} /\ Handled(d) => Handled(d)'
    BY <1>1 DEF Handled, Contains
  <1>4. CASE /\ pc' = "killed" /\ server' = "closed" /\ queue' = <<>> /\ open' = {}
             /\ NoFault
    <2>1. faults' = faults /\ trouble' = trouble /\ Len(queue') = 0
      BY <1>4 DEF NoFault
    <2>2. Values'
      <3>1. queue' \in Seq(Clients)
        BY <1>4
      <3> QED BY <1>0, <1>1, <1>4, <2>1, <3>1 DEF Values
    <2>3. CountInv'
      BY <1>0, <1>1 DEF CountInv
    <2>4. QueueInv' /\ SocketInv'
      BY <1>0, <1>1, <1>2, <1>4, <2>1, Bounds DEF QueueInv, SocketInv, Serving
    <2>5. StatusInv'
      BY <1>0, <1>1, <1>2, <1>4, <2>1 DEF StatusInv
    <2>6. RequestInv'
      <3>1. Handled(cli)'
        BY <1>1, <1>2, <1>4, <2>1 DEF Handled, Contains
      <3> QED BY <1>0, <1>1, <1>3, <1>4, <3>1, RequestKept
    <2>7. (trouble \in BOOLEAN)'
      BY <2>1 DEF IInv
    <2> QED BY <2>2, <2>3, <2>4, <2>5, <2>6, <2>7 DEF IInv
  <1>5. CASE /\ pc' = "close" /\ UNCHANGED <<server, queue, open>>
             /\ faults' \in 0 .. MaxFaults
    <2>2. Values'
      BY <1>0, <1>1, <1>5 DEF Values
    <2>3. CountInv' /\ QueueInv'
      BY <1>0, <1>1, <1>5 DEF CountInv, QueueInv
    <2>4. SocketInv'
      BY <1>0, <1>1, <1>2, <1>5 DEF SocketInv, Serving
    <2>5. StatusInv'
      BY <1>0, <1>1, <1>2, <1>5 DEF StatusInv
    <2>6. RequestInv'
      BY <1>0, <1>1, <1>3, <1>5, RequestKept
    <2>7. (trouble \in BOOLEAN)'
      BY <1>5 DEF IInv, Send, NoFault, Fault
    <2> QED BY <2>2, <2>3, <2>4, <2>5, <2>6, <2>7 DEF IInv
  <1>6. \/ /\ pc' = "killed" /\ server' = "closed" /\ queue' = <<>> /\ open' = {}
           /\ NoFault
        \/ /\ pc' = "close" /\ UNCHANGED <<server, queue, open>>
           /\ faults' \in 0 .. MaxFaults
    BY <1>0, Bounds, SMTT(30) DEF Send, AfterSend, Goto, Fault, NoFault, Values
  <1> QED BY <1>4, <1>5, <1>6

(* The client is left; 0-server.c, 1-server.c and 3-server.c end.          *)
LEMMA CloseInv ==
  ASSUME IInv, Close, UNCHANGED <<program, clientVars>>
  PROVE  IInv'
  <1>0. /\ Values /\ CountInv /\ QueueInv /\ SocketInv /\ StatusInv
        /\ RequestInv
    BY DEF IInv
  <1>1. /\ pc = "close" /\ open' = {} /\ cli' = None
        /\ UNCHANGED <<program, buffer, fields, peer, written, tooLong, taken,
                       faults, trouble>>
        /\ \/ /\ program = "todo_api_0" /\ pc' = "accept"
              /\ UNCHANGED <<status, server, queue>>
           \/ /\ program # "todo_api_0" /\ pc' = "ended" /\ status' = "SUCCESS"
              /\ server' = "closed" /\ queue' = <<>>
    BY DEF Close, Goto, Exit, CloseServer, NoFault, clientVars
  <1>2. /\ cli \in Clients /\ open = {cli} /\ peer[cli] # "away"
        /\ \A k \in 1 .. Len(queue) : queue[k] # cli
        /\ queue' \in {queue, <<>>} /\ Len(<<>>) = 0
    BY <1>0, <1>1 DEF SocketInv, Serving, QueueInv
  <1>4. \A d \in Clients : Handled(d) => Handled(d)'
    BY <1>1, <1>2 DEF Handled, Contains
  <1>5. Values'
    <2>1. <<>> \in Seq(Clients) /\ queue \in Seq(Clients)
      BY <1>0 DEF Values
    <2>2. queue' \in Seq(Clients)
      BY <1>2, <2>1, Zenon
    <2> QED BY <1>0, <1>1, <2>2 DEF Values
  <1>6. CountInv'
    BY <1>0, <1>1 DEF CountInv
  <1>7. QueueInv'
    BY <1>0, <1>1, <1>2, Bounds DEF QueueInv
  <1>8. SocketInv'
    BY <1>0, <1>1 DEF SocketInv, Serving
  <1>9. StatusInv'
    <2>1. CASE program = "todo_api_0"
      BY <1>0, <1>1, <2>1 DEF StatusInv
    <2>2. CASE program # "todo_api_0"
      <3>1. /\ pc' = "ended" /\ status' = "SUCCESS"
            /\ program # "0-server" /\ status' # None
        BY <1>0, <1>1, <2>2, NoneFact DEF SocketInv, Serving
      <3>2. program # "3-server" => ~ trouble
        BY <1>0, <1>1, <2>2, <3>1 DEF StatusInv, Values
      <3> QED BY <1>1, <2>2, <3>1, <3>2 DEF StatusInv
    <2> QED BY <2>1, <2>2
  <1>10. RequestInv'
    <2>1. Handled(cli) \/ (peer'[cli] # "away" /\ cli \notin open'
                           /\ \A k \in 1 .. Len(queue') : queue'[k] # cli)
      BY <1>1, <1>2
    <2>2. ASSUME NEW k \in 1 .. 3, fields[k] # None
          PROVE  Handled(fields[k][1])'
      <3>1. fields'[k] = fields[k] /\ (Handled(fields[k][1]) \/ fields[k][1] = cli)
        BY <1>0, <1>1, <2>2 DEF RequestInv
      <3>2. fields[k][1] \in Clients
        BY <1>0, <2>2 DEF Values, Words
      <3>3. CASE Handled(fields[k][1])
        <4>1. /\ peer[fields[k][1]] # "away" /\ fields[k][1] \notin open
              /\ \A j \in 1 .. Len(queue) : queue[j] # fields[k][1]
          BY <3>3, HandledFact
        <4> QED BY <1>1, <1>2, <3>1, <4>1 DEF Handled, Contains
      <3>4. CASE fields[k][1] = cli
        BY <1>1, <1>2, <3>1, <3>4 DEF Handled, Contains
      <3> QED BY <3>1, <3>3, <3>4
    <2>3. pc' \notin {"scan", "send", "close"}
      BY <1>1
    <2> QED BY <1>1, <2>2, <2>3 DEF RequestInv
  <1>11. (trouble \in BOOLEAN)'
    BY <1>1 DEF IInv
  <1> QED BY <1>5, <1>6, <1>7, <1>8, <1>9, <1>10, <1>11 DEF IInv

LEMMA StutterInv == IInv /\ UNCHANGED vars => IInv'
  <1> SUFFICES ASSUME IInv, UNCHANGED vars PROVE IInv'
    OBVIOUS
  <1>1. UNCHANGED <<program, pc, status, server, queue, open, cli, buffer,
                    fields, peer, written, tooLong, taken, faults, trouble>>
    BY DEF vars, serverVars, clientVars
  <1>2. Values' /\ (trouble \in BOOLEAN)'
    BY <1>1 DEF IInv, Values
  <1>3. CountInv' /\ QueueInv' /\ SocketInv' /\ StatusInv'
    BY <1>1 DEF IInv, CountInv, QueueInv, SocketInv, StatusInv
  <1>4. RequestInv'
    BY <1>1 DEF IInv, RequestInv, Handled
  <1> QED BY <1>2, <1>3, <1>4 DEF IInv

THEOREM ServersInvariant == Spec => []IInv
  <1>1. ASSUME IInv, [Next]_vars PROVE IInv'
    <2>1. CASE Server
      BY <1>1, <2>1, SetUpInv, AcceptInv, RecvInv, ScanInv, SendInv, CloseInv
         DEF Server
    <2>2. ASSUME NEW c \in Clients, Client(c) PROVE IInv'
      BY <1>1, <2>2, ConnectInv, WriteInv, LeaveInv DEF Client
    <2> QED BY <1>1, <2>1, <2>2, StutterInv DEF Next, Quiet
  <1> QED BY <1>1, InitIInv, PTL DEF Spec
-----------------------------------------------------------------------------
(* Whichever calls fail and whoever leaves, no descriptor of a client is   *)
(* open when the next one is accepted, and none when a server has ended.   *)
THEOREM DescriptorsClosed == Spec => []SocketsClosed
  <1>1. IInv => SocketsClosed
    <2> SUFFICES ASSUME IInv PROVE SocketsClosed
      OBVIOUS
    <2>0. Values /\ CountInv /\ QueueInv /\ SocketInv /\ StatusInv
      BY DEF IInv
    <2>1. queue \in Seq(Clients) /\ IsInjective(queue) /\ Len(queue) <= BACKLOG + 1
      <3>1. queue \in Seq(Clients) /\ DOMAIN queue = 1 .. Len(queue)
        BY <2>0 DEF Values
      <3> QED BY <2>0, <3>1 DEF QueueInv, IsInjective
    <2>2. \A c \in Clients : taken[c] \in 0 .. Min({written[c], BUFFER})
      <3> SUFFICES ASSUME NEW c \in Clients
                   PROVE  taken[c] \in 0 .. Min({written[c], BUFFER})
        OBVIOUS
      <3>1. taken[c] \in Nat /\ written[c] \in Nat
        BY <2>0, Bounds DEF Values
      <3>2. taken[c] <= written[c] /\ taken[c] <= BUFFER
        BY <2>0 DEF CountInv
      <3>3. Min({written[c], BUFFER}) \in {written[c], BUFFER}
        BY <3>1, Bounds, MinFact
      <3> QED BY <3>1, <3>2, <3>3, Bounds
    <2>3. fields \in Seq(Words \union {None})
      <3>1. fields \in [1 .. 3 -> Words \union {None}]
        BY <2>0 DEF Values
      <3>2. <<fields[1], fields[2], fields[3]>> \in Seq(Words \union {None})
        BY <3>1
      <3>3. fields = <<fields[1], fields[2], fields[3]>>
        BY <3>1
      <3> QED BY <3>2, <3>3
    <2>4. status # None <=> pc = "ended"
      BY <2>0 DEF StatusInv
    <2>5. TypeOK
      <3>1. trouble \in BOOLEAN
        BY DEF IInv
      <3> QED BY <2>0, <2>1, <2>2, <2>3, <2>4, <3>1, Zenon DEF TypeOK, Values
    <2>6. /\ pc = "ended" /\ program # "3-server" => (status = "FAILURE" <=> trouble)
          /\ pc = "accept" => open = {}
          /\ pc = "ended" => open = {} /\ server = "closed" /\ queue = <<>>
      BY <2>0 DEF StatusInv, SocketInv, QueueInv, Serving
    <2> QED BY <2>5, <2>6 DEF SocketsClosed
  <1> QED BY <1>1, ServersInvariant, PTL

(* What is printed of a request is what its client sent, unless one of its *)
(* words overran its field.                                                *)
THEOREM PrintedAsSent == Spec => []RequestAsSent
  <1>1. IInv => RequestAsSent
    <2> SUFFICES ASSUME IInv PROVE RequestAsSent
      OBVIOUS
    <2>1. RequestInv
      BY DEF IInv
    <2>2. ASSUME pc = "send", NEW k \in 1 .. 3
          PROVE  IF k <= taken[cli] THEN fields[k] = <<cli, k>> /\ fields[k] \notin tooLong
                 ELSE fields[k] = None \/ Handled(fields[k][1])
      BY <2>1, <2>2 DEF RequestInv
    <2> QED BY <2>1, <2>2 DEF RequestInv, RequestAsSent
  <1> QED BY <1>1, ServersInvariant, PTL
=============================================================================
