----------------------------- MODULE ModbusLink -----------------------------
(***************************************************************************)
(* The Modbus TCP client and the PLC behind it.  Threads share one client; *)
(* a call takes its lock, connects if there is no socket, sends a request  *)
(* with the next transaction id and waits for an answer, for two seconds.  *)
(* Whatever goes wrong closes the socket and raises.  Nothing is sent      *)
(* again, but a request that timed out may still be on its way, and the    *)
(* PLC, which serves every connection on a thread of its own, executes it  *)
(* when it gets there.                                                     *)
(*                                                                         *)
(* Requests are numbered in the order of sending.  The number stands for   *)
(* what a request writes, so a cell of the PLC (a coil or a register)      *)
(* holds the number of the write that it has its value from.               *)
(***************************************************************************)
EXTENDS Integers, Sequences, FiniteSets

CONSTANTS
  Callers,     \* threads that share the client
  Cells,       \* coils and registers of the PLC
  LastId,      \* the last transaction id; 65534
  MaxRetries,  \* max_retries: attempts to connect
  MaxConns,    \* bound: connections that are open at one end at least
  MaxSent,     \* bound: requests that are sent
  None

ASSUME NoneAssumption   == None \notin Callers /\ None \notin Nat
ASSUME CellsAssumption  == Cells # {}
ASSUME BoundsAssumption == LastId \in Nat \ {0} /\ MaxRetries \in Nat \ {0} /\ MaxConns \in Nat /\ MaxSent \in Nat

VARIABLES
  lock,     \* the thread that holds the lock
  sock,     \* _sock: the connection, or None
  nextId,   \* _transaction_id
  call,     \* what each thread is at
  conn,     \* each connection: who still has it open
  out,      \* requests on their way to the PLC, by connection
  back,     \* answers on their way back
  held,     \* the PLC's cells
  sent,     \* requests sent so far
  outcome,  \* history: what became of each request
  newest    \* history: the newest confirmed write of each cell

client == <<lock, sock, nextId, call>>
plc    == <<conn, out, back, held>>
vars   == <<client, plc, sent, outcome, newest>>

Conns   == 1..MaxConns
Numbers == 1..MaxSent

\* "write" and "read" are single coils and registers, "block" several coils or
\* a float.
Ops == {"write", "read", "block"}

Idle == [at |-> "idle", op |-> "read", cell |-> CHOOSE c \in Cells : TRUE, tries |-> 0,
         tx |-> 0, num |-> 0, got |-> 0]

Init ==
  /\ lock = None /\ sock = None /\ nextId = 1
  /\ call = [c \in Callers |-> Idle]
  /\ conn = [n \in Conns |-> "none"]
  /\ out = [n \in Conns |-> <<>>] /\ back = [n \in Conns |-> <<>>]
  /\ held = [x \in Cells |-> 0]
  /\ sent = 0
  /\ outcome = [i \in Numbers |-> "none"]
  /\ newest = [x \in Cells |-> 0]

-----------------------------------------------------------------------------
(* A call.                                                                 *)

\* Calls that will send a request.
Pending == {c \in Callers : call[c].at \in {"wait", "connect", "send"}}

\* A name is looked up in the map of coils or registers; then the lock.
Request(c, op, x) ==
  /\ call[c].at = "idle" /\ sent + Cardinality(Pending) < MaxSent
  /\ call' = [call EXCEPT ![c] = [Idle EXCEPT !.at = "wait", !.op = op, !.cell = x]]
  /\ UNCHANGED <<lock, sock, nextId, plc, sent, outcome, newest>>

Write(c) == \E x \in Cells : Request(c, "write", x)
Read(c)  == \E x \in Cells : Request(c, "read", x)
Block(c) == \E x \in Cells : Request(c, "block", x)

Acquire(c) ==
  /\ call[c].at = "wait" /\ lock = None
  /\ lock' = c
  /\ call' = [call EXCEPT ![c].at = "connect"]
  /\ UNCHANGED <<sock, nextId, plc, sent, outcome, newest>>

\* _get_socket: the socket that is there, or a new one.
Connect(c) ==
  /\ call[c].at = "connect"
  /\ call' = [call EXCEPT ![c].at = "send"]
  /\ \/ sock # None /\ UNCHANGED <<sock, conn>>
     \/ /\ sock = None
        /\ \E n \in Conns :
             /\ conn[n] = "none"
             /\ sock' = n
             /\ conn' = [conn EXCEPT ![n] = "open"]
  /\ UNCHANGED <<lock, nextId, out, back, held, sent, outcome, newest>>

\* Bug: a client that cannot connect tries for ever.
RefusedForEver(c) ==
  /\ call[c].at = "connect" /\ sock = None
  /\ UNCHANGED vars

\* The PLC cannot be reached: the next attempt after a pause, with the lock
\* held; the last one raises.
Refused(c) ==
  /\ call[c].at = "connect" /\ sock = None
  /\ IF call[c].tries + 1 < MaxRetries
     THEN call' = [call EXCEPT ![c].tries = @ + 1] /\ lock' = lock
     ELSE call' = [call EXCEPT ![c].at = "idle", ![c].tries = 0] /\ lock' = None
  /\ UNCHANGED <<sock, nextId, plc, sent, outcome, newest>>

\* (tx + 1) % 65535 or 1
NextId(tx) == IF (tx + 1) % (LastId + 1) = 0 THEN 1 ELSE (tx + 1) % (LastId + 1)

\* The request is on its way, or lost if the PLC has closed the connection.
Send(c) ==
  /\ call[c].at = "send" /\ sent < MaxSent
  /\ sent' = sent + 1
  /\ nextId' = NextId(nextId)
  /\ call' = [call EXCEPT ![c].at = "await", ![c].tx = nextId, ![c].num = sent + 1]
  /\ outcome' = [outcome EXCEPT ![sent + 1] = "sent"]
  /\ out' = IF conn[sock] # "open" THEN out
            ELSE [out EXCEPT ![sock] =
                    Append(@, [num |-> sent + 1, tx |-> nextId, op |-> call[c].op, cell |-> call[c].cell])]
  /\ UNCHANGED <<lock, sock, conn, back, held, newest>>

\* Bug: after an error the socket is kept for the next call.
RaisesKeepingSocket(c) ==
  /\ call' = [call EXCEPT ![c].at = "idle", ![c].tries = 0]
  /\ outcome' = [outcome EXCEPT ![call[c].num] = "failed"]
  /\ lock' = None
  /\ UNCHANGED <<sock, conn, back>>

\* The end of a call that failed: the socket is closed, and what comes back
\* on it is not read any more.
Raises(c) ==
  /\ call' = [call EXCEPT ![c].at = "idle", ![c].tries = 0]
  /\ outcome' = [outcome EXCEPT ![call[c].num] = "failed"]
  /\ lock' = None
  /\ sock' = None
  /\ conn' = [conn EXCEPT ![sock] = IF @ = "open" THEN "left" ELSE "none"]
  /\ back' = [back EXCEPT ![sock] = <<>>]

\* Two seconds pass, or the connection breaks, before the answer is complete.
TimesOut(c) ==
  /\ call[c].at = "await"
  /\ Raises(c)
  /\ UNCHANGED <<nextId, out, held, sent, newest>>

\* Bug: an exception of the PLC passes for an answer.
MismatchOfIds(c, answer) == answer.tx # call[c].tx

\* The answer to another transaction or function, or an exception of the PLC.
Mismatch(c, answer) == answer.tx # call[c].tx \/ answer.op # call[c].op

ReceiveWrong(c) ==
  /\ call[c].at = "await" /\ back[sock] # <<>>
  /\ Mismatch(c, Head(back[sock]))
  /\ Raises(c)
  /\ UNCHANGED <<nextId, out, held, sent, newest>>

\* The answer: a write is confirmed, a read has the value.
Receive(c) ==
  LET answer == Head(back[sock])
  IN  /\ call[c].at = "await" /\ back[sock] # <<>>
      /\ ~Mismatch(c, answer)
      /\ back' = [back EXCEPT ![sock] = Tail(@)]
      /\ call' = [call EXCEPT ![c].at = "idle", ![c].tries = 0, ![c].got = answer.value]
      /\ outcome' = [outcome EXCEPT ![call[c].num] = "ok"]
      /\ newest' = IF call[c].op = "read" THEN newest ELSE [newest EXCEPT ![call[c].cell] = call[c].num]
      /\ lock' = None
      /\ UNCHANGED <<sock, nextId, conn, out, held, sent>>

\* disconnect, at any time between two calls.
Disconnect ==
  /\ lock = None /\ sock # None
  /\ sock' = None
  /\ conn' = [conn EXCEPT ![sock] = IF @ = "open" THEN "left" ELSE "none"]
  /\ back' = [back EXCEPT ![sock] = <<>>]
  /\ UNCHANGED <<lock, nextId, call, out, held, sent, outcome, newest>>

-----------------------------------------------------------------------------
(* The PLC.                                                                *)

\* A request is executed and answered, or refused with an exception; the PLC of
\* this repository neither executes nor answers a block.  The answer has the
\* id of the request and comes back if the client still has the connection.
Serve(n) ==
  LET request == Head(out[n])
      Answers(op, value) ==
        back' = IF conn[n] = "left" THEN back
                ELSE [back EXCEPT ![n] = Append(@, [tx |-> request.tx, op |-> op, value |-> value])]
  IN  /\ conn[n] \in {"open", "left"} /\ out[n] # <<>>
      /\ out' = [out EXCEPT ![n] = Tail(@)]
      /\ \/ /\ request.op = "read"
            /\ held' = held /\ Answers("read", held[request.cell])
         \/ /\ request.op # "read"
            /\ held' = [held EXCEPT ![request.cell] = request.num]
            /\ Answers(request.op, request.num)
         \/ held' = held /\ Answers("exception", 0)
         \/ request.op = "block" /\ held' = held /\ back' = back
      /\ UNCHANGED <<client, conn, sent, outcome, newest>>

\* The PLC closes a connection: idle for too long, or a restart.
Hangup(n) ==
  /\ conn[n] \in {"open", "left"}
  /\ conn' = [conn EXCEPT ![n] = IF @ = "open" THEN "hung" ELSE "none"]
  /\ out' = [out EXCEPT ![n] = <<>>]
  /\ UNCHANGED <<client, back, held, sent, outcome, newest>>

-----------------------------------------------------------------------------
Step(c) == Acquire(c) \/ Connect(c) \/ Refused(c) \/ Send(c) \/ TimesOut(c) \/ ReceiveWrong(c) \/ Receive(c)

Next ==
  \/ \E c \in Callers : Write(c) \/ Read(c) \/ Block(c) \/ Step(c)
  \/ Disconnect
  \/ \E n \in Conns : Serve(n) \/ Hangup(n)

\* Threads run, and the waits of a call are bounded; nothing is assumed of the
\* PLC.
Fairness == \A c \in Callers : WF_vars(Step(c))

Spec     == Init /\ [][Next]_vars
FairSpec == Spec /\ Fairness

-----------------------------------------------------------------------------
(* Properties.                                                             *)

CallType ==
  [at : {"idle", "wait", "connect", "send", "await"}, op : Ops, cell : Cells, tries : 0..(MaxRetries - 1),
   tx : 0..LastId, num : 0..MaxSent, got : 0..MaxSent]
RequestType == [num : Numbers, tx : 1..LastId, op : Ops, cell : Cells]
AnswerType  == [tx : 1..LastId, op : Ops \cup {"exception"}, value : 0..MaxSent]

\* Types; transaction ids never are zero, and whoever is in a call beyond its
\* start holds the lock.
TypeOK ==
  /\ lock \in Callers \cup {None} /\ sock \in Conns \cup {None}
  /\ nextId \in 1..LastId
  /\ call \in [Callers -> CallType]
  /\ conn \in [Conns -> {"none", "open", "left", "hung"}]
  /\ out \in [Conns -> Seq(RequestType)] /\ back \in [Conns -> Seq(AnswerType)]
  /\ held \in [Cells -> 0..MaxSent]
  /\ sent \in 0..MaxSent
  /\ outcome \in [Numbers -> {"none", "sent", "ok", "failed"}]
  /\ newest \in [Cells -> 0..MaxSent]
  /\ \A c \in Callers : call[c].at \in {"connect", "send", "await"} <=> lock = c

\* Between calls nothing is on its way on the socket that the next call will
\* use, in either direction, however calls time out, fail or are refused
\* (controller.py _send_and_receive, close).
OpenSocketIsQuiet ==
  lock = None /\ sock # None => out[sock] = <<>> /\ back[sock] = <<>>

\* A call that returns has the answer to its own request, although ids come
\* round: a write is confirmed by its own echo, and a read has the newest
\* confirmed value or one of a write that failed, but not an older one
\* (controller.py _send_and_receive, write_register, read_register).
AnswersAreCurrent ==
  [][ \A c \in Callers : call[c].at = "await" /\ outcome'[call[c].num] = "ok" =>
        \/ call[c].op # "read" /\ call'[c].got = call[c].num
        \/ /\ call[c].op = "read"
           /\ \/ call'[c].got = newest[call[c].cell]
              \/ call'[c].got # 0 /\ outcome[call'[c].got] = "failed" ]_vars

\* A confirmed write is in the PLC until a newer one is confirmed, unless one
\* that failed took its place: it may have arrived, earlier or later, and its
\* caller knows no more (controller.py _send_and_receive, set_signal).
ConfirmedIsHeld ==
  lock = None => \A x \in Cells : held[x] = newest[x] \/ (held[x] # 0 /\ outcome[held[x]] = "failed")

\* Whoever has the lock gives it back, whatever the PLC does: attempts to
\* connect and waits for answers end.  That a waiting thread is the next to
\* get it is not promised by the lock (controller.py _get_socket).
LockIsReleased == \A c \in Callers : lock = c ~> lock # c

=============================================================================
