------------------------------ MODULE Servers ------------------------------
(***************************************************************************)
(* sockets/: 0-server.c listens and waits; 1-server.c accepts one client;  *)
(* 3-server.c receives one message of it and prints it; todo_api_0.c       *)
(* receives, scans and answers one request after the other, for ever.      *)
(* Each listens, accepts and receives the same way; program says which one *)
(* runs.  2-client.c is one of the clients: it connects and leaves.        *)
(*                                                                         *)
(* Clients and the kernel are external.  What a client writes is a         *)
(* sequence of words <<c, 1>>, <<c, 2>>, ..., each of which fits the field *)
(* that todo_api_0.c scans it into or is too long for it; it may stop      *)
(* after any of them, close (the end of its stream is seen once all of it  *)
(* was read) or reset its connection, before or after it closed.  recv     *)
(* returns what has arrived, up to the size of the buffer.  Whether an     *)
(* answer that was sent is read is up to the kernel and not followed.      *)
(***************************************************************************)
EXTENDS Naturals, Sequences, SequencesExt, FiniteSetsExt

CONSTANTS
  Clients,
  MaxWords,     \* bound on the words a client writes
  LongAt,       \* the places at which a word may be longer than its field
  BUFFER,       \* the words recv has room for: BUFFER_SIZE - 1 bytes
  BACKLOG,      \* the argument of listen
  MaxFaults,    \* bound on the calls that fail for no fault of a client
  None          \* no client, and the value of a field never assigned

ASSUME ServersAssumption ==
  /\ {MaxWords, BUFFER, BACKLOG, MaxFaults} \subseteq Nat /\ LongAt \subseteq 1 .. 3
  /\ None \notin Clients \union (Clients \X Nat) \union {"SUCCESS", "FAILURE"}

VARIABLES
  program,      \* which server runs
  pc,           \* its next call
  status,       \* what it exits with
  server,       \* the state of server_fd
  queue,        \* the connections that were not accepted yet
  open,         \* the clients of the descriptors accept returned
  cli,          \* the client of client_fd
  buffer,       \* the words in buffer
  fields,       \* method, path, version
  peer,         \* the client's end of each connection
  written,      \* how many words each client wrote
  tooLong,      \* those of the first three that are longer than their field
  taken,        \* how many of a client's words recv returned
  faults, trouble   \* how many calls failed, and whether any did

serverVars == <<pc, status, server, queue, open, cli, buffer, fields>>
clientVars == <<peer, written, tooLong>>
vars == <<program, serverVars, clientVars, taken, faults, trouble>>

Init ==
  /\ program \in {"0-server", "1-server", "3-server", "todo_api_0"}
  /\ pc = "socket" /\ status = None /\ server = "closed"
  /\ queue = <<>> /\ open = {} /\ cli = None
  /\ buffer = <<>> /\ fields = <<None, None, None>>
  /\ peer = [c \in Clients |-> "away"]
  /\ written = [c \in Clients |-> 0]
  /\ tooLong = {} /\ taken = [c \in Clients |-> 0]
  /\ faults = 0 /\ trouble = FALSE
-----------------------------------------------------------------------------
(* Mutated forms, for the sensitivity of the properties.                   *)

ClearedNot == buffer
ClosedAfterErrorNot == open
AfterSendAgain == "recv"
-----------------------------------------------------------------------------
(* Clients.                                                                *)

Handled(c) == peer[c] # "away" /\ ~ Contains(queue, c) /\ c \notin open

(* A connection waits for accept; one that finds the queue full tries      *)
(* again.                                                                  *)
Connect(c) ==
  /\ server = "listening" /\ peer[c] = "away" /\ Len(queue) <= BACKLOG
  /\ peer' = [peer EXCEPT ![c] = "open"]
  /\ queue' = Append(queue, c)
  /\ UNCHANGED <<written, tooLong>>

Write(c) ==
  /\ peer[c] = "open" /\ written[c] < MaxWords
  /\ written' = [written EXCEPT ![c] = @ + 1]
  /\ \/ UNCHANGED tooLong
     \/ written'[c] \in LongAt /\ tooLong' = tooLong \union {<<c, written'[c]>>}
  /\ UNCHANGED <<peer, queue>>

Leave(c) ==
  /\ \E how \in {<<"open", "shut">>, <<"open", "reset">>, <<"shut", "broken">>} :
       peer[c] = how[1] /\ peer' = [peer EXCEPT ![c] = how[2]]
  /\ UNCHANGED <<queue, written, tooLong>>

Client(c) ==
  /\ Connect(c) \/ Write(c) \/ Leave(c)
  /\ UNCHANGED <<program, pc, status, server, open, cli, buffer, fields, taken,
                 faults, trouble>>
-----------------------------------------------------------------------------
(* What the servers have in common.                                        *)

Fault == faults < MaxFaults /\ faults' = faults + 1 /\ trouble' = TRUE
NoFault == UNCHANGED <<faults, trouble>>
Goto(to) == pc' = to /\ UNCHANGED status
Exit(s) == pc' = "ended" /\ status' = s

ServerSocket ==
  /\ pc = "socket"
  /\ \/ NoFault /\ server' = "open" /\ Goto("bind")
     \/ Fault /\ Exit("FAILURE") /\ UNCHANGED server
  /\ UNCHANGED <<queue, open, cli, buffer, fields, taken>>

Bind ==
  /\ pc = "bind"
  /\ \/ NoFault /\ Goto("listen") /\ UNCHANGED server
     \/ Fault /\ Exit("FAILURE") /\ server' = "closed"
  /\ UNCHANGED <<queue, open, cli, buffer, fields, taken>>

(* 0-server.c then waits for a signal. *)
Listen ==
  /\ pc = "listen"
  /\ \/ /\ NoFault /\ server' = "listening"
        /\ Goto(IF program = "0-server" THEN "pause" ELSE "accept")
     \/ Fault /\ Exit("FAILURE") /\ server' = "closed"
  /\ UNCHANGED <<queue, open, cli, buffer, fields, taken>>

(* close(server_fd), which resets the connections that wait. *)
CloseServer == server' = "closed" /\ queue' = <<>>

(* accept waits for a connection.  When it fails todo_api_0.c calls it     *)
(* again, and the others exit.                                             *)
Accept ==
  /\ pc = "accept"
  /\ \/ /\ queue # <<>>
        /\ cli' = Head(queue) /\ open' = {Head(queue)} /\ queue' = Tail(queue)
        /\ Goto(IF program = "1-server" THEN "close" ELSE "recv")
        /\ NoFault /\ UNCHANGED server
     \/ /\ Fault
        /\ IF program = "todo_api_0" THEN Goto("accept") /\ UNCHANGED <<server, queue>>
           ELSE Exit("FAILURE") /\ CloseServer
        /\ UNCHANGED <<open, cli>>
  /\ UNCHANGED <<buffer, fields, taken>>

(* memset, or the initializer of 3-server.c. *)
Cleared == <<>>
Room == BUFFER

(* recv waits until there is something to return; at the end of the        *)
(* client's stream it returns 0, which is no error.                        *)
Receive ==
  LET n == Min({written[cli], Room})
      words == [k \in 1 .. n |-> <<cli, k>>]
  IN  /\ written[cli] > 0 \/ peer[cli] \in {"shut", "broken"}
      /\ buffer' = words \o SubSeq(Cleared, n + 1, Len(Cleared))
      /\ taken' = [taken EXCEPT ![cli] = n]

OpenAfterError == {}

Recv ==
  /\ pc = "recv"
  /\ \/ /\ Receive /\ NoFault /\ UNCHANGED open
        /\ Goto(IF program = "todo_api_0" THEN "scan" ELSE "close")
     \/ /\ \/ Fault
           \/ /\ written[cli] = 0 /\ peer[cli] = "reset"
              /\ trouble' = TRUE /\ UNCHANGED faults
        /\ IF program = "todo_api_0" THEN open' = OpenAfterError /\ Goto("accept")
           ELSE UNCHANGED open /\ Goto("close")
        /\ UNCHANGED <<buffer, taken>>
  /\ UNCHANGED <<server, queue, cli, fields>>
-----------------------------------------------------------------------------
(* The rest of todo_api_0.c, and the exit of the others.                   *)

(* sscanf(buffer, "%s %s %s", method, path, version): it assigns as many   *)
(* of them as the buffer has words.  No width is given: a word of 16 bytes *)
(* or more (256 for path) is written on beyond its field, over the other   *)
(* fields, the descriptors or the pointer to the answer, as the compiler   *)
(* laid them out.  What the process does from there on is undefined: it is *)
(* not followed, and every property names "overrun" as its exception.      *)
Scanned == DOMAIN buffer
Overrun == \E k \in Scanned : buffer[k] \in tooLong
Scan ==
  /\ pc = "scan"
  /\ \/ /\ ~ Overrun
        /\ fields' = [k \in 1 .. 3 |-> IF k \in Scanned THEN buffer[k] ELSE fields[k]]
        /\ Goto("send")
     \/ Overrun /\ Goto("overrun") /\ UNCHANGED fields
  /\ NoFault
  /\ UNCHANGED <<server, queue, open, cli, buffer, taken>>

AfterSend == "close"

(* The result of send is not looked at.  The client's reset after its end  *)
(* of stream makes send raise SIGPIPE, which ends the process.             *)
Send ==
  /\ pc = "send"
  /\ IF peer[cli] = "broken"
     THEN /\ pc' = "killed" /\ server' = "closed" /\ queue' = <<>> /\ open' = {}
          /\ NoFault /\ UNCHANGED status
     ELSE /\ NoFault \/ Fault
          /\ Goto(AfterSend) /\ UNCHANGED <<server, queue, open>>
  /\ UNCHANGED <<cli, buffer, fields, taken>>

Close ==
  /\ pc = "close"
  /\ open' = {} /\ cli' = None
  /\ IF program = "todo_api_0" THEN Goto("accept") /\ UNCHANGED <<server, queue>>
     ELSE Exit("SUCCESS") /\ CloseServer
  /\ NoFault
  /\ UNCHANGED <<buffer, fields, taken>>

Server ==
  /\ \/ ServerSocket \/ Bind \/ Listen \/ Accept \/ Recv \/ Scan \/ Send \/ Close
  /\ UNCHANGED <<program, clientVars>>

(* Clients may stop, and so may a server that waits for one or has ended.  *)
Quiet ==
  /\ \/ pc \in {"pause", "ended", "killed", "overrun"}
     \/ pc = "accept" /\ queue = <<>>
     \/ pc = "recv" /\ written[cli] = 0
  /\ UNCHANGED vars

Next == Server \/ (\E c \in Clients : Client(c)) \/ Quiet

(* The server goes on whenever its call can return.  Nothing is assumed of *)
(* the clients.                                                            *)
Spec == Init /\ [][Next]_vars /\ WF_vars(Server)
-----------------------------------------------------------------------------

Words == Clients \X (1 .. MaxWords)

TypeOK ==
  /\ pc \in {"socket", "bind", "listen", "pause", "accept", "recv", "scan",
             "send", "close", "ended", "killed", "overrun"}
  /\ status \in {None, "SUCCESS", "FAILURE"}
  /\ status # None <=> pc = "ended"
  /\ server \in {"closed", "open", "listening"}
  /\ queue \in Seq(Clients) /\ IsInjective(queue) /\ Len(queue) <= BACKLOG + 1
  /\ open \subseteq Clients /\ cli \in Clients \union {None}
  /\ buffer \in Seq(Words) /\ fields \in Seq(Words \union {None})
  /\ peer \in [Clients -> {"away", "open", "shut", "reset", "broken"}]
  /\ written \in [Clients -> 0 .. MaxWords]
  /\ tooLong \subseteq Clients \X LongAt
  /\ \A c \in Clients : taken[c] \in 0 .. Min({written[c], BUFFER})
  /\ faults \in 0 .. MaxFaults /\ trouble \in BOOLEAN

(* Whichever calls failed and whoever left, a server that is about to      *)
(* accept holds no descriptor of an earlier client, and one that has ended *)
(* holds none at all.  Its exit status tells whether a call failed, but for *)
(* recv in 3-server.c, which ends with EXIT_SUCCESS then too.              *)
SocketsClosed ==
  /\ TypeOK
  /\ pc = "ended" /\ program # "3-server" => (status = "FAILURE" <=> trouble)
  /\ pc = "accept" => open = {}
  /\ pc = "ended" => open = {} /\ server = "closed" /\ queue = <<>>

(* What is printed of a request, as it came and word by word, is what this *)
(* client sent, without a rest of an earlier one in the buffer; a field    *)
(* that the request does not have still holds what an earlier client left  *)
(* there, or nothing.  The exception are requests of which one of the      *)
(* first three words is too long for its field: they are printed as they   *)
(* came, and nothing is said of their fields nor of what follows.          *)
RequestAsSent ==
  /\ pc \in {"scan", "send", "overrun"} =>
       buffer = [k \in 1 .. taken[cli] |-> <<cli, k>>]
  /\ pc = "send" =>
       \A k \in 1 .. 3 :
         IF k <= taken[cli] THEN fields[k] = <<cli, k>> /\ fields[k] \notin tooLong
         ELSE fields[k] = None \/ Handled(fields[k][1])
  /\ pc = "overrun" => \E k \in 1 .. taken[cli] : <<cli, k>> \in tooLong

Waiting(c) == Contains(queue, c) \/ c \in open
Silent(c) == Waiting(c) /\ peer[c] = "open" /\ written[c] = 0

(* todo_api_0 serves one client at a time: if no client stays silent for   *)
(* ever, each connection that was made is handled, or ends because the     *)
(* server is killed, unless a word overran its field.                      *)
EveryClientHandled ==
  (\A c \in Clients : Silent(c) ~> ~ Silent(c))
    => (\A c \in Clients :
          program = "todo_api_0" /\ Waiting(c) ~> ~ Waiting(c) \/ pc = "overrun")
=============================================================================
