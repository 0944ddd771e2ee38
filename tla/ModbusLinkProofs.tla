-------------------------- MODULE ModbusLinkProofs --------------------------
(* Proofs about ModbusLink: nothing is left on the socket between two      *)
(* calls, so an answer is the answer to the request before it, although    *)
(* transaction ids come round; and a confirmed write is lost to failed     *)
(* ones only.  For any number of threads, cells, ids and connections.      *)
EXTENDS ModbusLink, TLAPS

Failed(v) == v # 0 /\ outcome[v] = "failed"

\* The request that the thread has sent.
Sent(c) == [num |-> call[c].num, tx |-> call[c].tx, op |-> call[c].op, cell |-> call[c].cell]

\* What the answer to it may be.
Proper(c, a) ==
  \/ a.op = "exception"
  \/ a.op = "read" /\ call[c].op = "read" /\ (a.value = newest[call[c].cell] \/ Failed(a.value))
  \/ /\ a.op = call[c].op /\ call[c].op # "read" /\ a.value = call[c].num
     /\ held[call[c].cell] = call[c].num \/ Failed(held[call[c].cell])

\* Beyond the start of a call there is a socket, and only the client's socket
\* is open at its end; where the PLC has hung up nothing is on its way to it.
SocketInv ==
  /\ \A c \in Callers : call[c].at \in {"send", "await"} => sock \in Conns
  /\ sock # None => conn[sock] \in {"open", "hung"}
  /\ \A n \in Conns : n # sock => conn[n] \in {"none", "left"} /\ back[n] = <<>>
  /\ \A n \in Conns : conn[n] \in {"none", "hung"} => out[n] = <<>>

\* Numbers are taken in turn, and who waits knows no outcome yet.
NumberInv ==
  /\ \A i \in Numbers : i > sent => outcome[i] = "none"
  /\ \A c \in Callers : call[c].at = "await" => call[c].num \in 1..sent /\ outcome[call[c].num] = "sent"

\* A thread that waits finds its own request or the answer to it on the
\* socket, or nothing; otherwise the socket is quiet.  What is on other
\* connections has failed.
TrafficInv ==
  /\ sock # None /\ (\A c \in Callers : call[c].at # "await") => out[sock] = <<>> /\ back[sock] = <<>>
  /\ \A c \in Callers : call[c].at = "await" =>
       \/ out[sock] \in {<<>>, <<Sent(c)>>} /\ back[sock] = <<>>
       \/ /\ out[sock] = <<>>
          /\ \E a \in AnswerType : back[sock] = <<a>> /\ Proper(c, a)
  /\ \A n \in Conns : n # sock => \A i \in 1..Len(out[n]) : outcome[out[n][i].num] = "failed"

\* A cell has its value from the newest confirmed write, from one that failed
\* or from the one that is waiting for its answer.
HeldInv ==
  \A x \in Cells :
    \/ held[x] = newest[x]
    \/ Failed(held[x])
    \/ \E c \in Callers : /\ call[c].at = "await" /\ call[c].op # "read"
                          /\ call[c].cell = x /\ held[x] = call[c].num

Inv == TypeOK /\ SocketInv /\ NumberInv /\ TrafficInv /\ HeldInv
-----------------------------------------------------------------------------
(* Types.                                                                  *)

LEMMA IdleType == Idle \in CallType
BY CellsAssumption, BoundsAssumption DEF Idle, CallType, Ops

\* Ids run from 1 to LastId and start again.
LEMMA NextIdType == ASSUME NEW tx \in 1..LastId PROVE NextId(tx) \in 1..LastId
<1>1. (tx + 1) % (LastId + 1) \in 0..LastId
  BY BoundsAssumption
<1> QED BY <1>1, BoundsAssumption DEF NextId

LEMMA InitType == Init => TypeOK
<1> SUFFICES ASSUME Init PROVE TypeOK OBVIOUS
<1>1. call \in [Callers -> CallType] BY IdleType DEF Init
<1>2. \A n \in Conns : out[n] = <<>> /\ back[n] = <<>> BY DEF Init
<1>3. out \in [Conns -> Seq(RequestType)] /\ back \in [Conns -> Seq(AnswerType)] BY DEF Init
<1> QED BY <1>1, <1>3, NoneAssumption, BoundsAssumption DEF Init, TypeOK, Idle

\* What a call becomes.
LEMMA Tries == ASSUME NEW r \in CallType, r.tries + 1 < MaxRetries
               PROVE  LET v == [r EXCEPT !.tries = @ + 1] IN v \in CallType /\ v.at = r.at
BY BoundsAssumption DEF CallType

LEMMA Sends == ASSUME NEW r \in CallType, NEW tx \in 0..LastId, NEW num \in 0..MaxSent
               PROVE  LET v == [r EXCEPT !.at = "await", !.tx = tx, !.num = num] IN v \in CallType /\ v.at = "await"
BY DEF CallType

LEMMA Ends == ASSUME NEW r \in CallType
              PROVE  LET v == [r EXCEPT !.at = "idle", !.tries = 0] IN v \in CallType /\ v.at = "idle"
<1>0. 0 \in 0..(MaxRetries - 1) BY BoundsAssumption
<1>1. [r EXCEPT !.at = "idle", !.tries = 0] \in CallType BY <1>0 DEF CallType
<1>2. [r EXCEPT !.at = "idle", !.tries = 0].at = "idle" BY DEF CallType
<1> QED BY <1>1, <1>2, Zenon

LEMMA EndsWith == ASSUME NEW r \in CallType, NEW got \in 0..MaxSent
                  PROVE  LET v == [r EXCEPT !.at = "idle", !.tries = 0, !.got = got] IN v \in CallType /\ v.at = "idle"
<1>0. 0 \in 0..(MaxRetries - 1) BY BoundsAssumption
<1>1. [r EXCEPT !.at = "idle", !.tries = 0, !.got = got] \in CallType BY <1>0 DEF CallType
<1>2. [r EXCEPT !.at = "idle", !.tries = 0, !.got = got].at = "idle" BY DEF CallType
<1> QED BY <1>1, <1>2, Zenon

\* One thread goes on; the lock follows.
LEMMA GoesOn ==
  ASSUME TypeOK, NEW c \in Callers, NEW v \in CallType, call' = [call EXCEPT ![c] = v],
         v.at \in {"connect", "send", "await"} <=> lock' = c,
         \A d \in Callers \ {c} : lock = d <=> lock' = d
  PROVE  /\ call' \in [Callers -> CallType]
         /\ \A d \in Callers : call'[d].at \in {"connect", "send", "await"} <=> lock' = d
<1>1. call \in [Callers -> CallType] BY DEF TypeOK
<1>2. call'[c] = v /\ \A d \in Callers \ {c} : call'[d] = call[d] BY <1>1
<1>3. \A d \in Callers : call[d].at \in {"connect", "send", "await"} <=> lock = d BY DEF TypeOK
<1>4. call' \in [Callers -> CallType] BY <1>1
<1> QED BY <1>2, <1>3, <1>4

LEMMA RequestKeepsType ==
  ASSUME TypeOK, NEW c \in Callers, NEW op \in Ops, NEW x \in Cells, Request(c, op, x) PROVE TypeOK'
<1> DEFINE v == [Idle EXCEPT !.at = "wait", !.op = op, !.cell = x]
<1>1. call' = [call EXCEPT ![c] = v] BY DEF Request
<1>2. v \in CallType /\ v.at = "wait" BY IdleType DEF CallType
<1>3. lock' = lock /\ lock # c BY DEF Request, TypeOK
<1> HIDE DEF v
<1>4. call' \in [Callers -> CallType] /\ \A d \in Callers : call'[d].at \in {"connect", "send", "await"} <=> lock' = d
  BY <1>1, <1>2, <1>3, GoesOn
<1> QED BY <1>4 DEF Request, TypeOK, plc

LEMMA AcquireType == ASSUME TypeOK, NEW c \in Callers, Acquire(c) PROVE TypeOK'
<1> DEFINE v == [call[c] EXCEPT !.at = "connect"]
<1>1. call' = [call EXCEPT ![c] = v] BY DEF Acquire
<1>2. v \in CallType /\ v.at = "connect" BY DEF CallType, TypeOK
<1>3. call[c].at = "wait" /\ lock = None /\ lock' = c BY DEF Acquire
<1> HIDE DEF v
<1>4. call' \in [Callers -> CallType] /\ \A d \in Callers : call'[d].at \in {"connect", "send", "await"} <=> lock' = d
  BY <1>1, <1>2, <1>3, GoesOn, NoneAssumption
<1> QED BY <1>3, <1>4 DEF Acquire, TypeOK, plc

LEMMA ConnectType == ASSUME TypeOK, NEW c \in Callers, Connect(c) PROVE TypeOK'
<1> DEFINE v == [call[c] EXCEPT !.at = "send"]
<1>1. call' = [call EXCEPT ![c] = v] BY DEF Connect
<1>2. v \in CallType /\ v.at = "send" BY DEF CallType, TypeOK
<1>3. call[c].at = "connect" /\ lock = c /\ lock' = c BY DEF Connect, TypeOK
<1> HIDE DEF v
<1>4. call' \in [Callers -> CallType] /\ \A d \in Callers : call'[d].at \in {"connect", "send", "await"} <=> lock' = d
  BY <1>1, <1>2, <1>3, GoesOn
<1>5. sock' \in Conns \cup {None} /\ conn' \in [Conns -> {"none", "open", "left", "hung"}]
  BY DEF Connect, TypeOK
<1> QED BY <1>4, <1>5 DEF Connect, TypeOK

LEMMA RefusedType == ASSUME TypeOK, NEW c \in Callers, Refused(c) PROVE TypeOK'
<1>1. call[c].at = "connect" /\ lock = c BY DEF Refused, TypeOK
<1>2. CASE call[c].tries + 1 < MaxRetries
  <2> DEFINE v == [call[c] EXCEPT !.tries = @ + 1]
  <2>1. call' = [call EXCEPT ![c] = v] /\ lock' = c BY <1>1, <1>2 DEF Refused
  <2>2. v \in CallType /\ v.at = "connect" BY <1>1, <1>2, Tries DEF TypeOK
  <2> HIDE DEF v
  <2>3. call' \in [Callers -> CallType] /\ \A d \in Callers : call'[d].at \in {"connect", "send", "await"} <=> lock' = d
    BY <1>1, <2>1, <2>2, GoesOn
  <2> QED BY <2>1, <2>3 DEF Refused, TypeOK, plc
<1>3. CASE ~(call[c].tries + 1 < MaxRetries)
  <2> DEFINE v == [call[c] EXCEPT !.at = "idle", !.tries = 0]
  <2>1. call' = [call EXCEPT ![c] = v] /\ lock' = None BY <1>3 DEF Refused
  <2>2. v \in CallType /\ v.at = "idle" BY Ends DEF TypeOK
  <2> HIDE DEF v
  <2>3. call' \in [Callers -> CallType] /\ \A d \in Callers : call'[d].at \in {"connect", "send", "await"} <=> lock' = d
    BY <1>1, <2>1, <2>2, GoesOn, NoneAssumption
  <2> QED BY <2>1, <2>3 DEF Refused, TypeOK, plc
<1> QED BY <1>2, <1>3

LEMMA SendType == ASSUME TypeOK, SocketInv, NEW c \in Callers, Send(c) PROVE TypeOK'
<1>1. nextId' \in 1..LastId BY NextIdType DEF Send, TypeOK
<1>2. sent + 1 \in Numbers /\ sent' \in 0..MaxSent BY BoundsAssumption DEF Send, TypeOK, Numbers
<1> DEFINE v == [call[c] EXCEPT !.at = "await", !.tx = nextId, !.num = sent + 1]
<1>3. call' = [call EXCEPT ![c] = v] BY DEF Send
<1>4. v \in CallType /\ v.at = "await"
  <2>1. nextId \in 0..LastId /\ sent + 1 \in 0..MaxSent /\ call[c] \in CallType BY <1>2 DEF TypeOK, Numbers
  <2> QED BY <2>1, Sends
<1>5. call[c].at = "send" /\ lock = c /\ lock' = c BY DEF Send, TypeOK
<1> HIDE DEF v
<1>6. call' \in [Callers -> CallType] /\ \A d \in Callers : call'[d].at \in {"connect", "send", "await"} <=> lock' = d
  BY <1>3, <1>4, <1>5, GoesOn
<1>7. outcome' \in [Numbers -> {"none", "sent", "ok", "failed"}] BY <1>2 DEF Send, TypeOK
<1>8. out' \in [Conns -> Seq(RequestType)]
  <2> DEFINE r == [num |-> sent + 1, tx |-> nextId, op |-> call[c].op, cell |-> call[c].cell]
  <2>1. r \in RequestType BY <1>2 DEF RequestType, TypeOK, CallType
  <2>2. sock \in Conns BY DEF SocketInv, Send
  <2>3. Append(out[sock], r) \in Seq(RequestType) BY <2>1, <2>2 DEF TypeOK
  <2>4. out' = out \/ out' = [out EXCEPT ![sock] = Append(out[sock], r)] BY Zenon DEF Send
  <2> HIDE DEF r
  <2> QED BY <2>2, <2>3, <2>4 DEF TypeOK
<1> QED BY <1>1, <1>2, <1>6, <1>7, <1>8 DEF Send, TypeOK

LEMMA AwaitsNumber ==
  ASSUME TypeOK, SocketInv, NumberInv, NEW c \in Callers, call[c].at = "await"
  PROVE  sock \in Conns /\ call[c].num \in Numbers /\ call[c].num \in 0..MaxSent
<1>1. sent \in Nat /\ MaxSent \in Nat /\ sent <= MaxSent BY BoundsAssumption DEF TypeOK
<1>2. call[c].num \in 1..sent BY DEF NumberInv
<1>3. sock \in Conns BY DEF SocketInv
<1> QED BY <1>1, <1>2, <1>3 DEF Numbers

LEMMA RaisesType ==
  ASSUME TypeOK, SocketInv, NumberInv, NEW c \in Callers, call[c].at = "await", Raises(c),
         UNCHANGED <<nextId, out, held, sent, newest>>
  PROVE  TypeOK'
<1>1. sock \in Conns /\ call[c].num \in Numbers BY AwaitsNumber
<1> DEFINE v == [call[c] EXCEPT !.at = "idle", !.tries = 0]
<1>2. call' = [call EXCEPT ![c] = v] /\ lock' = None BY DEF Raises
<1>3. v \in CallType /\ v.at = "idle" BY Ends DEF TypeOK
<1>4. lock = c BY DEF TypeOK
<1> HIDE DEF v
<1>5. call' \in [Callers -> CallType] /\ \A d \in Callers : call'[d].at \in {"connect", "send", "await"} <=> lock' = d
  BY <1>2, <1>3, <1>4, GoesOn, NoneAssumption
<1>6. conn' \in [Conns -> {"none", "open", "left", "hung"}] BY <1>1 DEF Raises, TypeOK
<1>7. back' \in [Conns -> Seq(AnswerType)]
  <2>1. <<>> \in Seq(AnswerType) OBVIOUS
  <2> QED BY <1>1, <2>1 DEF Raises, TypeOK
<1>8. outcome' \in [Numbers -> {"none", "sent", "ok", "failed"}] BY <1>1 DEF Raises, TypeOK
<1> QED BY <1>2, <1>5, <1>6, <1>7, <1>8 DEF Raises, TypeOK

LEMMA ReceiveType == ASSUME TypeOK, SocketInv, NumberInv, NEW c \in Callers, Receive(c) PROVE TypeOK'
<1>1. sock \in Conns /\ call[c].num \in Numbers /\ call[c].num \in 0..MaxSent
  BY AwaitsNumber DEF Receive
<1>2. Head(back[sock]) \in AnswerType /\ Tail(back[sock]) \in Seq(AnswerType) BY <1>1 DEF TypeOK, Receive
<1> DEFINE v == [call[c] EXCEPT !.at = "idle", !.tries = 0, !.got = Head(back[sock]).value]
<1>3. call' = [call EXCEPT ![c] = v] /\ lock' = None BY DEF Receive
<1>4. v \in CallType /\ v.at = "idle" BY <1>2, EndsWith DEF TypeOK, AnswerType
<1>5. lock = c BY DEF TypeOK, Receive
<1> HIDE DEF v
<1>6. call' \in [Callers -> CallType] /\ \A d \in Callers : call'[d].at \in {"connect", "send", "await"} <=> lock' = d
  BY <1>3, <1>4, <1>5, GoesOn, NoneAssumption
<1>7. back' \in [Conns -> Seq(AnswerType)] BY <1>1, <1>2 DEF Receive, TypeOK
<1>8. outcome' \in [Numbers -> {"none", "sent", "ok", "failed"}] BY <1>1 DEF Receive, TypeOK
<1>9. newest' \in [Cells -> 0..MaxSent] BY <1>1 DEF Receive, TypeOK, CallType
<1> QED BY <1>3, <1>6, <1>7, <1>8, <1>9 DEF Receive, TypeOK

LEMMA DisconnectType == ASSUME TypeOK, Disconnect PROVE TypeOK'
<1>1. sock \in Conns BY DEF Disconnect, TypeOK
<1>2. conn' \in [Conns -> {"none", "open", "left", "hung"}] BY <1>1 DEF Disconnect, TypeOK
<1>3. back' \in [Conns -> Seq(AnswerType)]
  <2>1. <<>> \in Seq(AnswerType) OBVIOUS
  <2> QED BY <1>1, <2>1 DEF Disconnect, TypeOK
<1> QED BY <1>2, <1>3 DEF Disconnect, TypeOK

LEMMA ServeType == ASSUME TypeOK, NEW n \in Conns, Serve(n) PROVE TypeOK'
<1> DEFINE request == Head(out[n])
<1>1. request \in RequestType /\ Tail(out[n]) \in Seq(RequestType) BY DEF Serve, TypeOK
<1>2. out' \in [Conns -> Seq(RequestType)] BY <1>1 DEF Serve, TypeOK
<1>3. request.num \in 0..MaxSent /\ request.cell \in Cells /\ request.tx \in 1..LastId /\ request.op \in Ops
  BY <1>1 DEF RequestType, Numbers
<1>4. held' \in [Cells -> 0..MaxSent] BY <1>3 DEF Serve, TypeOK
<1>5. back' \in [Conns -> Seq(AnswerType)]
  <2>1. held[request.cell] \in 0..MaxSent /\ 0 \in 0..MaxSent BY <1>3, BoundsAssumption DEF TypeOK
  <2>2. \A op \in Ops \cup {"exception"} : \A value \in 0..MaxSent :
          Append(back[n], [tx |-> request.tx, op |-> op, value |-> value]) \in Seq(AnswerType)
    <3> TAKE op \in Ops \cup {"exception"}
    <3> TAKE value \in 0..MaxSent
    <3> DEFINE a == [tx |-> request.tx, op |-> op, value |-> value]
    <3>1. a \in AnswerType BY <1>3 DEF AnswerType
    <3>2. back[n] \in Seq(AnswerType) BY DEF TypeOK
    <3> HIDE DEF a
    <3>3. Append(back[n], a) \in Seq(AnswerType) BY <3>1, <3>2
    <3> QED BY <3>3 DEF a
  <2>3. \/ back' = back
        \/ \E op \in Ops \cup {"exception"} : \E value \in 0..MaxSent :
             back' = [back EXCEPT ![n] = Append(@, [tx |-> request.tx, op |-> op, value |-> value])]
    BY <1>3, <2>1, Zenon DEF Serve, Ops
  <2>4. back' = back \/ \E q \in Seq(AnswerType) : back' = [back EXCEPT ![n] = q]
    BY <2>2, <2>3
  <2> QED BY <2>4 DEF TypeOK
<1> QED BY <1>2, <1>4, <1>5 DEF Serve, TypeOK, client

LEMMA HangupType == ASSUME TypeOK, NEW n \in Conns, Hangup(n) PROVE TypeOK'
<1>1. conn' \in [Conns -> {"none", "open", "left", "hung"}] BY DEF Hangup, TypeOK
<1>2. out' \in [Conns -> Seq(RequestType)]
  <2>1. <<>> \in Seq(RequestType) OBVIOUS
  <2> QED BY <2>1 DEF Hangup, TypeOK
<1> QED BY <1>1, <1>2 DEF Hangup, TypeOK, client
-----------------------------------------------------------------------------
(* The invariant, action by action.                                        *)

Rest == SocketInv /\ NumberInv /\ TrafficInv /\ HeldInv

\* The holder of the lock is alone in a call.
LEMMA Alone == ASSUME TypeOK, NEW c \in Callers, lock = c, NEW d \in Callers \ {c} 
               PROVE  call[d].at \notin {"connect", "send", "await"}
BY DEF TypeOK

LEMMA NobodyInside == ASSUME TypeOK, lock = None, NEW d \in Callers
                      PROVE  call[d].at \notin {"connect", "send", "await"}
BY NoneAssumption DEF TypeOK

\* Steps that only move a thread on outside its wait for an answer.
LEMMA Moves ==
  ASSUME TypeOK, Rest, NEW c \in Callers, NEW v, call' = [call EXCEPT ![c] = v],
         call[c].at # "await", v.at \notin {"send", "await"},
         UNCHANGED <<sock, conn, out, back, held, sent, outcome, newest>>
  PROVE  Rest'
<1>1. call'[c] = v /\ \A d \in Callers \ {c} : call'[d] = call[d] BY DEF TypeOK
<1>2. \A d \in Callers : call'[d].at = "await" => call[d].at = "await" /\ call'[d] = call[d] BY <1>1
<1>3. \A d \in Callers : call[d].at = "await" => call'[d] = call[d] BY <1>1
<1>4. SocketInv' BY <1>1 DEF Rest, SocketInv
<1>5. NumberInv' BY <1>2 DEF Rest, NumberInv
<1>6. TrafficInv'
  <2>1. sock' # None /\ (\A d \in Callers : call'[d].at # "await") => out'[sock'] = <<>> /\ back'[sock'] = <<>>
    BY <1>3 DEF Rest, TrafficInv
  <2>2. ASSUME NEW d \in Callers, call'[d].at = "await"
        PROVE  \/ out'[sock'] \in {<<>>, <<Sent(d)'>>} /\ back'[sock'] = <<>>
               \/ out'[sock'] = <<>> /\ \E a \in AnswerType : back'[sock'] = <<a>> /\ Proper(d, a)'
    <3>1. call[d].at = "await" /\ call'[d] = call[d] BY <1>2, <2>2
    <3>2. Sent(d)' = Sent(d) /\ \A a : Proper(d, a)' = Proper(d, a) BY <3>1 DEF Sent, Proper, Failed
    <3> QED BY <3>1, <3>2 DEF Rest, TrafficInv
  <2>3. \A n \in Conns : n # sock' => \A i \in 1..Len(out'[n]) : outcome'[out'[n][i].num] = "failed"
    BY DEF Rest, TrafficInv
  <2> QED BY <2>1, <2>2, <2>3 DEF TrafficInv
<1>7. HeldInv'
  <2> SUFFICES ASSUME NEW x \in Cells
               PROVE  \/ held'[x] = newest'[x]
                      \/ Failed(held[x])'
                      \/ \E d \in Callers : /\ call'[d].at = "await" /\ call'[d].op # "read"
                                            /\ call'[d].cell = x /\ held'[x] = call'[d].num
    BY DEF HeldInv
  <2> QED BY <1>3 DEF Rest, HeldInv, Failed
<1> QED BY <1>4, <1>5, <1>6, <1>7 DEF Rest

LEMMA ConnectRest == ASSUME TypeOK, Rest, NEW c \in Callers, Connect(c) PROVE Rest'
<1> DEFINE v == [call[c] EXCEPT !.at = "send"]
<1>1. call' = [call EXCEPT ![c] = v] BY DEF Connect
<1>2. v.at = "send" BY DEF TypeOK, CallType
<1>3. lock = c BY DEF Connect, TypeOK
<1> HIDE DEF v
<1>4. \A d \in Callers : call[d].at # "await" /\ call'[d].at # "await"
  BY <1>1, <1>2, <1>3, Alone DEF TypeOK, Connect
<1>5. \A d \in Callers : d # c => call'[d].at # "send" BY <1>1, <1>3, Alone DEF TypeOK
<1>6. out' = out /\ back' = back /\ held' = held /\ sent' = sent /\ outcome' = outcome /\ newest' = newest
  BY DEF Connect
<1>7. /\ sock' \in Conns
      /\ \/ sock' = sock /\ conn' = conn
         \/ sock = None /\ conn[sock'] = "none" /\ conn' = [conn EXCEPT ![sock'] = "open"]
  BY DEF Connect, TypeOK
<1>8. SocketInv'
  <2>1. CASE sock' = sock /\ conn' = conn
    BY <1>6, <1>7, <2>1, NoneAssumption DEF Rest, SocketInv, Conns
  <2>2. CASE sock = None /\ conn[sock'] = "none" /\ conn' = [conn EXCEPT ![sock'] = "open"]
    <3>1. conn'[sock'] = "open" /\ \A n \in Conns \ {sock'} : conn'[n] = conn[n] BY <1>7, <2>2 DEF TypeOK
    <3>2. \A n \in Conns : conn[n] \in {"none", "left"} /\ back[n] = <<>>
      BY <2>2, NoneAssumption DEF Rest, SocketInv, Conns
    <3> QED BY <1>6, <1>7, <3>1, <3>2 DEF Rest, SocketInv
  <2> QED BY <1>7, <2>1, <2>2
<1>9. NumberInv' BY <1>4, <1>6 DEF Rest, NumberInv
<1>10. TrafficInv'
  <2>1. out[sock'] = <<>> /\ back[sock'] = <<>>
    BY <1>4, <1>7, NoneAssumption DEF Rest, SocketInv, TrafficInv, Conns
  <2>2. \A n \in Conns : n # sock' => \A i \in 1..Len(out[n]) : outcome[out[n][i].num] = "failed"
    <3>1. CASE sock' = sock BY <3>1 DEF Rest, TrafficInv
    <3>2. CASE sock = None BY <3>2, NoneAssumption DEF Rest, TrafficInv, Conns
    <3> QED BY <3>1, <3>2, <1>7
  <2> QED BY <1>4, <1>6, <2>1, <2>2 DEF TrafficInv
<1>11. HeldInv' BY <1>4, <1>6 DEF Rest, HeldInv, Failed
<1> QED BY <1>8, <1>9, <1>10, <1>11 DEF Rest

\* What has failed has failed for good, as nothing that failed is answered.
LEMMA FailedStays ==
  ASSUME TypeOK, NEW k \in Numbers, NEW s, outcome' = [outcome EXCEPT ![k] = s], s = "failed" \/ outcome[k] # "failed"
  PROVE  \A v \in 0..MaxSent : Failed(v) => Failed(v)'
BY BoundsAssumption DEF TypeOK, Failed, Numbers

LEMMA OnTheWay ==
  ASSUME TypeOK, NEW n \in Conns, NEW i \in 1..Len(out[n])
  PROVE  out[n][i] \in RequestType /\ out[n][i].num \in 0..MaxSent /\ out[n][i].num # 0
<1>1. out[n] \in Seq(RequestType) BY DEF TypeOK
<1>2. out[n][i] \in RequestType BY <1>1
<1> QED BY <1>2, BoundsAssumption DEF RequestType, Numbers

LEMMA SendRest == ASSUME TypeOK, Rest, NEW c \in Callers, Send(c) PROVE Rest'
<1> DEFINE v == [call[c] EXCEPT !.at = "await", !.tx = nextId, !.num = sent + 1]
<1>1. call' = [call EXCEPT ![c] = v] BY DEF Send
<1>2. v.at = "await" /\ v.num = sent + 1 /\ v.tx = nextId /\ v.op = call[c].op /\ v.cell = call[c].cell
  BY DEF TypeOK, CallType
<1> HIDE DEF v
<1>3. lock = c /\ call[c].at = "send" BY DEF Send, TypeOK
<1>4. call'[c] = v /\ \A d \in Callers \ {c} : call'[d] = call[d] BY <1>1 DEF TypeOK
<1>5. \A d \in Callers : call[d].at # "await" BY <1>3, Alone
<1>6. \A d \in Callers \ {c} : call'[d].at \notin {"send", "await"} BY <1>3, <1>4, Alone
<1>7. sock \in Conns /\ out[sock] = <<>> /\ back[sock] = <<>>
  BY <1>3, <1>5, NoneAssumption DEF Rest, SocketInv, TrafficInv, Conns
<1>8. sent + 1 \in Numbers /\ sent \in Nat BY BoundsAssumption DEF Send, TypeOK, Numbers
<1>9. outcome[sent + 1] = "none" BY <1>8 DEF Rest, NumberInv
<1>10. \A w \in 0..MaxSent : Failed(w) => Failed(w)' BY <1>8, <1>9, FailedStays DEF Send
<1>11. /\ sock' = sock /\ conn' = conn /\ back' = back /\ held' = held /\ newest' = newest
       /\ sent' = sent + 1 /\ outcome' = [outcome EXCEPT ![sent + 1] = "sent"]
  BY DEF Send
<1>12. Sent(c)' = [num |-> sent + 1, tx |-> nextId, op |-> call[c].op, cell |-> call[c].cell]
  BY <1>2, <1>4 DEF Sent
<1>13. out' = out \/ (conn[sock] = "open" /\ out' = [out EXCEPT ![sock] = Append(<<>>, Sent(c)')])
  <2> DEFINE r == [num |-> sent + 1, tx |-> nextId, op |-> call[c].op, cell |-> call[c].cell]
  <2>1. CASE conn[sock] # "open" BY <2>1 DEF Send
  <2>2. CASE conn[sock] = "open"
    <3>1. out' = [out EXCEPT ![sock] = Append(out[sock], r)] BY <2>2 DEF Send
    <3> HIDE DEF r
    <3>2. r = Sent(c)' BY <1>12 DEF r
    <3> QED BY <1>7, <2>2, <3>1, <3>2, Zenon
  <2> QED BY <2>1, <2>2
<1>14. \A n \in Conns \ {sock} : out'[n] = out[n] BY <1>7, <1>13 DEF TypeOK
<1>15. out'[sock] \in {<<>>, <<Sent(c)'>>} /\ (conn[sock] = "hung" => out'[sock] = <<>>)
  BY <1>7, <1>13 DEF TypeOK
<1>16. SocketInv'
  BY <1>6, <1>7, <1>11, <1>14, <1>15, NoneAssumption DEF Rest, SocketInv, Conns
<1>17. NumberInv'
  <2>1. outcome'[sent + 1] = "sent" /\ \A i \in Numbers \ {sent + 1} : outcome'[i] = outcome[i]
    BY <1>8, <1>11 DEF TypeOK
  <2>2. \A i \in Numbers : i > sent' => outcome'[i] = "none"
    BY <1>8, <1>11, <2>1 DEF Rest, NumberInv, Numbers
  <2>3. call'[c].num \in 1..sent' /\ outcome'[call'[c].num] = "sent" BY <1>2, <1>4, <1>8, <1>11, <2>1
  <2> QED BY <1>6, <2>2, <2>3 DEF NumberInv
<1>18. TrafficInv'
  <2>1. ASSUME NEW n \in Conns, n # sock, NEW i \in 1..Len(out'[n]) PROVE outcome'[out'[n][i].num] = "failed"
    <3>1. out'[n] = out[n] BY <1>14, <2>1
    <3>2. Failed(out[n][i].num) /\ out[n][i].num \in 0..MaxSent
      BY <2>1, <3>1, OnTheWay DEF Rest, TrafficInv, Failed
    <3> QED BY <1>10, <3>1, <3>2 DEF Failed
  <2>2. \A d \in Callers : call'[d].at = "await" => d = c BY <1>6
  <2>3. call'[c].at = "await" BY <1>2, <1>4
  <2> QED BY <1>7, <1>11, <1>15, <2>1, <2>2, <2>3 DEF TrafficInv
<1>19. HeldInv'
  BY <1>5, <1>10, <1>11 DEF Rest, HeldInv, TypeOK
<1> QED BY <1>16, <1>17, <1>18, <1>19 DEF Rest

LEMMA RaisesRest ==
  ASSUME TypeOK, Rest, NEW c \in Callers, call[c].at = "await", Raises(c),
         UNCHANGED <<nextId, out, held, sent, newest>>
  PROVE  Rest'
<1> DEFINE v == [call[c] EXCEPT !.at = "idle", !.tries = 0]
<1>1. call' = [call EXCEPT ![c] = v] BY DEF Raises
<1>2. v.at = "idle" BY DEF TypeOK, CallType
<1> HIDE DEF v
<1>3. lock = c BY DEF TypeOK
<1>4. \A d \in Callers : call'[d].at \notin {"send", "await"} BY <1>1, <1>2, <1>3, Alone DEF TypeOK
<1>5. sock \in Conns /\ call[c].num \in Numbers BY AwaitsNumber DEF Rest
<1>6. sock' = None /\ sent' = sent /\ out' = out /\ held' = held /\ newest' = newest BY DEF Raises
<1>7. outcome' = [outcome EXCEPT ![call[c].num] = "failed"] BY DEF Raises
<1>8. \A w \in 0..MaxSent : Failed(w) => Failed(w)' BY <1>5, <1>7, FailedStays
<1>9. call[c].num # 0 /\ outcome'[call[c].num] = "failed"
  BY <1>5, <1>7, BoundsAssumption DEF TypeOK, Failed, Numbers
<1>10. SocketInv'
  <2>1. /\ back'[sock] = <<>> /\ conn'[sock] \in {"none", "left"}
        /\ conn[sock] = "open" => conn'[sock] = "left"
        /\ \A n \in Conns \ {sock} : conn'[n] = conn[n] /\ back'[n] = back[n]
    BY <1>5 DEF Raises, TypeOK
  <2>2. conn[sock] \in {"open", "hung"} /\ \A n \in Conns \ {sock} : conn[n] \in {"none", "left"} /\ back[n] = <<>>
    BY <1>5, NoneAssumption DEF Rest, SocketInv, Conns
  <2>3. \A n \in Conns : conn[n] \in {"none", "hung"} => out[n] = <<>> BY DEF Rest, SocketInv
  <2>4. \A n \in Conns : conn'[n] \in {"none", "left"} /\ back'[n] = <<>> BY <2>1, <2>2
  <2>5. \A n \in Conns : conn'[n] \in {"none", "hung"} => out[n] = <<>> BY <2>1, <2>2, <2>3
  <2> QED BY <1>4, <1>6, <2>4, <2>5 DEF SocketInv
<1>11. NumberInv'
  <2>1. call[c].num \in 1..sent /\ sent \in Nat BY DEF Rest, NumberInv, TypeOK
  <2>2. \A i \in Numbers : i > sent => outcome'[i] = outcome[i] BY <1>5, <1>7, <2>1 DEF TypeOK, Numbers
  <2> QED BY <1>4, <1>6, <2>2 DEF Rest, NumberInv
<1>12. TrafficInv'
  <2> SUFFICES ASSUME NEW n \in Conns, NEW i \in 1..Len(out[n]) PROVE outcome'[out[n][i].num] = "failed"
    BY <1>4, <1>6 DEF TrafficInv
  <2>1. out[n][i].num \in 0..MaxSent /\ out[n][i].num # 0 BY OnTheWay
  <2>2. CASE n # sock
    <3>1. Failed(out[n][i].num) BY <2>1, <2>2 DEF Rest, TrafficInv, Failed
    <3> QED BY <1>8, <2>1, <3>1 DEF Failed
  <2>3. CASE n = sock
    <3>1. out[n] = <<Sent(c)>> BY <2>3 DEF Rest, TrafficInv
    <3>2. out[n][i] = Sent(c) BY <3>1
    <3> QED BY <1>9, <3>2 DEF Sent
  <2> QED BY <2>2, <2>3
<1>13. HeldInv'
  <2>1. \A x \in Cells : held[x] = newest[x] \/ Failed(held[x]) \/ held[x] = call[c].num
    BY <1>3, Alone DEF Rest, HeldInv
  <2>2. \A x \in Cells : held[x] \in 0..MaxSent BY DEF TypeOK
  <2>3. \A x \in Cells : Failed(held[x]) => Failed(held[x])' BY <1>6, <1>8, <2>2 DEF Failed
  <2>4. \A x \in Cells : held[x] = call[c].num => Failed(held[x])' BY <1>6, <1>9 DEF Failed
  <2> QED BY <1>6, <2>1, <2>3, <2>4 DEF HeldInv
<1> QED BY <1>10, <1>11, <1>12, <1>13 DEF Rest

LEMMA ReceiveRest == ASSUME TypeOK, Rest, NEW c \in Callers, Receive(c) PROVE Rest'
<1> DEFINE answer == Head(back[sock])
           v == [call[c] EXCEPT !.at = "idle", !.tries = 0, !.got = answer.value]
<1>1. call' = [call EXCEPT ![c] = v] BY DEF Receive
<1>2. v.at = "idle" BY DEF TypeOK, CallType
<1> HIDE DEF v
<1>3. lock = c /\ call[c].at = "await" BY DEF Receive, TypeOK
<1>4. \A d \in Callers : call'[d].at \notin {"send", "await"} BY <1>1, <1>2, <1>3, Alone DEF TypeOK
<1>5. sock \in Conns /\ call[c].num \in Numbers BY <1>3, AwaitsNumber DEF Rest
<1>6. sock' = sock /\ sent' = sent /\ out' = out /\ held' = held /\ conn' = conn BY DEF Receive
<1>7. outcome' = [outcome EXCEPT ![call[c].num] = "ok"] BY DEF Receive
<1>8. outcome[call[c].num] = "sent" BY <1>3 DEF Rest, NumberInv
<1>9. \A w \in 0..MaxSent : Failed(w) => Failed(w)' BY <1>5, <1>7, <1>8, FailedStays
<1>10. out[sock] = <<>> /\ Proper(c, answer) /\ Tail(back[sock]) = <<>>
  <2>1. back[sock] # <<>> BY DEF Receive
  <2>2. out[sock] = <<>> /\ \E a \in AnswerType : back[sock] = <<a>> /\ Proper(c, a)
    BY <1>3, <2>1 DEF Rest, TrafficInv
  <2>3. PICK a \in AnswerType : back[sock] = <<a>> /\ Proper(c, a) BY <2>2
  <2>4. answer = a /\ Tail(back[sock]) = <<>> BY <2>3
  <2> HIDE DEF answer
  <2> QED BY <2>2, <2>3, <2>4
<1>11. answer.op = call[c].op /\ call[c].op \in Ops /\ call[c].cell \in Cells
  BY <1>3 DEF Receive, Mismatch, TypeOK, CallType
<1>12. back' = [back EXCEPT ![sock] = <<>>] BY <1>10 DEF Receive
<1>13. SocketInv' BY <1>4, <1>5, <1>6, <1>12 DEF Rest, SocketInv, TypeOK
<1>14. NumberInv'
  <2>1. call[c].num \in 1..sent /\ sent \in Nat BY <1>3 DEF Rest, NumberInv, TypeOK
  <2>2. \A i \in Numbers : i > sent => outcome'[i] = outcome[i] BY <1>5, <1>7, <2>1 DEF TypeOK, Numbers
  <2> QED BY <1>4, <1>6, <2>2 DEF Rest, NumberInv
<1>15. TrafficInv'
  <2>1. ASSUME NEW n \in Conns, n # sock, NEW i \in 1..Len(out[n]) PROVE outcome'[out[n][i].num] = "failed"
    <3>1. Failed(out[n][i].num) /\ out[n][i].num \in 0..MaxSent
      BY <2>1, OnTheWay DEF Rest, TrafficInv, Failed
    <3> QED BY <1>9, <3>1 DEF Failed
  <2>2. out'[sock] = <<>> /\ back'[sock] = <<>> BY <1>5, <1>6, <1>10, <1>12 DEF TypeOK
  <2> QED BY <1>4, <1>6, <2>1, <2>2 DEF TrafficInv
<1>16. HeldInv'
  <2>1. \A x \in Cells : held[x] = newest[x] \/ Failed(held[x])
                         \/ (call[c].op # "read" /\ x = call[c].cell /\ held[x] = call[c].num)
    <3>1. \A d \in Callers : call[d].at = "await" => d = c BY <1>3, Alone
    <3> SUFFICES ASSUME NEW x \in Cells, held[x] # newest[x], ~Failed(held[x])
                 PROVE  call[c].op # "read" /\ x = call[c].cell /\ held[x] = call[c].num
      OBVIOUS
    <3>2. PICK d \in Callers : call[d].at = "await" /\ call[d].op # "read" /\ call[d].cell = x /\ held[x] = call[d].num
      BY DEF Rest, HeldInv
    <3> QED BY <3>1, <3>2
  <2>2. \A x \in Cells : Failed(held[x]) => Failed(held[x])' BY <1>6, <1>9 DEF Failed, TypeOK
  <2>3. CASE call[c].op = "read"
    <3>1. newest' = newest BY <2>3 DEF Receive
    <3> QED BY <1>6, <2>1, <2>2, <2>3, <3>1 DEF HeldInv
  <2>4. CASE call[c].op # "read"
    <3>1. newest' = [newest EXCEPT ![call[c].cell] = call[c].num] BY <2>4 DEF Receive
    <3>2. held[call[c].cell] = call[c].num \/ Failed(held[call[c].cell])
      BY <1>10, <1>11, <2>4 DEF Proper, Ops
    <3> QED BY <1>6, <1>11, <2>1, <2>2, <3>1, <3>2 DEF HeldInv, TypeOK
  <2> QED BY <2>3, <2>4
<1> QED BY <1>13, <1>14, <1>15, <1>16 DEF Rest

LEMMA DisconnectRest == ASSUME TypeOK, Rest, Disconnect PROVE Rest'
<1>1. /\ sock \in Conns /\ sock' = None /\ call' = call /\ sent' = sent /\ out' = out
      /\ held' = held /\ newest' = newest /\ outcome' = outcome
  BY DEF Disconnect, TypeOK
<1>2. \A d \in Callers : call[d].at \notin {"send", "await"} BY NobodyInside DEF Disconnect
<1>3. out[sock] = <<>> BY <1>1, <1>2, NoneAssumption DEF Rest, TrafficInv, Conns
<1>4. SocketInv'
  <2>1. /\ back'[sock] = <<>> /\ conn'[sock] \in {"none", "left"}
        /\ \A n \in Conns \ {sock} : conn'[n] = conn[n] /\ back'[n] = back[n]
    BY <1>1 DEF Disconnect, TypeOK, Rest, SocketInv
  <2>2. \A n \in Conns \ {sock} : conn[n] \in {"none", "left"} /\ back[n] = <<>> BY DEF Rest, SocketInv
  <2>3. \A n \in Conns : conn[n] \in {"none", "hung"} => out[n] = <<>> BY DEF Rest, SocketInv
  <2> QED BY <1>1, <1>2, <1>3, <2>1, <2>2, <2>3 DEF SocketInv
<1>5. NumberInv' BY <1>1 DEF Rest, NumberInv
<1>6. TrafficInv'
  <2>1. \A n \in Conns : \A i \in 1..Len(out[n]) : outcome[out[n][i].num] = "failed"
    BY <1>3 DEF Rest, TrafficInv
  <2> QED BY <1>1, <1>2, <2>1 DEF TrafficInv
<1>7. HeldInv' BY <1>1 DEF Rest, HeldInv, Failed
<1> QED BY <1>4, <1>5, <1>6, <1>7 DEF Rest

LEMMA HangupRest == ASSUME TypeOK, Rest, NEW n \in Conns, Hangup(n) PROVE Rest'
<1>1. /\ sock' = sock /\ call' = call /\ sent' = sent /\ back' = back
      /\ held' = held /\ newest' = newest /\ outcome' = outcome
  BY DEF Hangup, client
<1>2. /\ out'[n] = <<>> /\ \A m \in Conns \ {n} : out'[m] = out[m] /\ conn'[m] = conn[m]
      /\ conn'[n] = IF conn[n] = "open" THEN "hung" ELSE "none"
      /\ conn[n] \in {"open", "left"}
  BY DEF Hangup, TypeOK
<1>3. \A m \in Conns : out'[m] = <<>> \/ out'[m] = out[m] BY <1>2
<1>4. SocketInv'
  <2>1. sock # None => conn'[sock] \in {"open", "hung"}
    BY <1>1, <1>2, NoneAssumption DEF Rest, SocketInv, TypeOK, Conns
  <2>2. \A m \in Conns : m # sock => conn'[m] \in {"none", "left"} /\ back[m] = <<>>
    BY <1>2 DEF Rest, SocketInv
  <2>3. \A m \in Conns : conn'[m] \in {"none", "hung"} => out'[m] = <<>>
    BY <1>2 DEF Rest, SocketInv
  <2>4. \A c \in Callers : call[c].at \in {"send", "await"} => sock \in Conns BY DEF Rest, SocketInv
  <2> QED BY <1>1, <2>1, <2>2, <2>3, <2>4 DEF SocketInv
<1>5. NumberInv' BY <1>1 DEF Rest, NumberInv
<1>6. TrafficInv'
  <2>1. sock # None /\ (\A c \in Callers : call[c].at # "await") => out'[sock] = <<>> /\ back[sock] = <<>>
    BY <1>3 DEF Rest, TrafficInv, TypeOK
  <2>2. ASSUME NEW c \in Callers, call[c].at = "await"
        PROVE  \/ out'[sock] \in {<<>>, <<Sent(c)>>} /\ back[sock] = <<>>
               \/ out'[sock] = <<>> /\ \E a \in AnswerType : back[sock] = <<a>> /\ Proper(c, a)
    BY <1>3, <2>2 DEF Rest, TrafficInv, SocketInv
  <2>3. \A m \in Conns : m # sock => \A i \in 1..Len(out'[m]) : outcome[out'[m][i].num] = "failed"
    BY <1>3 DEF Rest, TrafficInv
  <2>4. \A c \in Callers : Sent(c)' = Sent(c) /\ \A a : Proper(c, a)' = Proper(c, a)
    BY <1>1 DEF Sent, Proper, Failed
  <2> QED BY <1>1, <2>1, <2>2, <2>3, <2>4 DEF TrafficInv
<1>7. HeldInv' BY <1>1 DEF Rest, HeldInv, Failed
<1> QED BY <1>4, <1>5, <1>6, <1>7 DEF Rest

\* Who has a request or an answer on the socket.
LEMMA Served ==
  ASSUME TypeOK, Rest, NEW n \in Conns, n = sock, out[n] # <<>>
  PROVE  \E c \in Callers : call[c].at = "await" /\ out[n] = <<Sent(c)>> /\ back[n] = <<>>
<1>1. PICK c \in Callers : call[c].at = "await" BY NoneAssumption DEF Rest, TrafficInv, Conns
<1> QED BY <1>1 DEF Rest, TrafficInv

\* A request that nobody waits for is executed: what it writes has failed.
LEMMA ServeLate == ASSUME TypeOK, Rest, NEW n \in Conns, n # sock, Serve(n) PROVE Rest'
<1> DEFINE request == Head(out[n])
<1>1. conn[n] = "left" /\ out[n] # <<>> BY DEF Rest, SocketInv, Serve
<1>2. request \in RequestType /\ request = out[n][1] /\ 1 \in 1..Len(out[n])
  BY <1>1 DEF TypeOK
<1>3. Failed(request.num)
  <2>1. outcome[out[n][1].num] = "failed" BY <1>2 DEF Rest, TrafficInv
  <2> QED BY <1>2, <2>1, OnTheWay DEF Failed
<1> HIDE DEF request
<1>4. /\ sock' = sock /\ call' = call /\ sent' = sent /\ conn' = conn
      /\ newest' = newest /\ outcome' = outcome /\ out' = [out EXCEPT ![n] = Tail(@)]
  BY DEF Serve, client
<1>5. back' = back BY <1>1 DEF Serve
<1>6. held' = held \/ held' = [held EXCEPT ![request.cell] = request.num] BY DEF Serve, request
<1>7. \A x \in Cells : held'[x] = held[x] \/ Failed(held'[x]) BY <1>3, <1>6 DEF TypeOK
<1>8. \A m \in Conns \ {n} : out'[m] = out[m] BY <1>4 DEF TypeOK
<1>9. SocketInv' BY <1>1, <1>4, <1>5, <1>8 DEF Rest, SocketInv
<1>10. NumberInv' BY <1>4 DEF Rest, NumberInv
<1>11. TrafficInv'
  <2>1. sock # None /\ (\A c \in Callers : call[c].at # "await") => out'[sock] = <<>> /\ back[sock] = <<>>
    BY <1>8 DEF Rest, TrafficInv, TypeOK
  <2>2. \A c \in Callers : \A a : Proper(c, a) => Proper(c, a)'
    <3> SUFFICES ASSUME NEW c \in Callers, NEW a, Proper(c, a) PROVE Proper(c, a)' OBVIOUS
    <3>1. call[c].cell \in Cells BY DEF TypeOK, CallType
    <3> QED BY <1>4, <1>7, <3>1 DEF Proper, Failed
  <2>3. ASSUME NEW c \in Callers, call[c].at = "await"
        PROVE  \/ out'[sock] \in {<<>>, <<Sent(c)>>} /\ back[sock] = <<>>
               \/ out'[sock] = <<>> /\ \E a \in AnswerType : back[sock] = <<a>> /\ Proper(c, a)'
    BY <1>8, <2>2, <2>3 DEF Rest, TrafficInv, SocketInv
  <2>4. ASSUME NEW m \in Conns, m # sock, NEW i \in 1..Len(out'[m]) PROVE outcome[out'[m][i].num] = "failed"
    <3>1. CASE m # n BY <1>8, <2>4, <3>1 DEF Rest, TrafficInv
    <3>2. CASE m = n
      <4>1. out[n] \in Seq(RequestType) /\ out'[n] = Tail(out[n]) BY <1>4 DEF TypeOK
      <4>2. i + 1 \in 1..Len(out[n]) /\ out'[n][i] = out[n][i + 1] BY <1>1, <2>4, <3>2, <4>1
      <4> QED BY <3>2, <4>2 DEF Rest, TrafficInv
    <3> QED BY <3>1, <3>2
  <2>5. \A c \in Callers : Sent(c)' = Sent(c) BY <1>4 DEF Sent
  <2> QED BY <1>4, <1>5, <2>1, <2>3, <2>4, <2>5 DEF TrafficInv
<1>12. HeldInv'
  <2> SUFFICES ASSUME NEW x \in Cells
               PROVE  \/ held'[x] = newest[x]
                      \/ Failed(held'[x])
                      \/ \E c \in Callers : /\ call[c].at = "await" /\ call[c].op # "read"
                                            /\ call[c].cell = x /\ held'[x] = call[c].num
    BY <1>4 DEF HeldInv, Failed
  <2> QED BY <1>7 DEF Rest, HeldInv
<1> QED BY <1>9, <1>10, <1>11, <1>12 DEF Rest

\* The request that its thread waits for is executed and answered, or not.
LEMMA ServeWaited == ASSUME TypeOK, Rest, NEW n \in Conns, n = sock, Serve(n) PROVE Rest'
<1>1. conn[n] = "open" /\ out[n] # <<>> BY NoneAssumption DEF Rest, SocketInv, Serve, Conns
<1>2. PICK c \in Callers : call[c].at = "await" /\ out[n] = <<Sent(c)>> /\ back[n] = <<>> BY <1>1, Served
<1>3. lock = c BY <1>2 DEF TypeOK
<1>4. \A d \in Callers : call[d].at = "await" => d = c BY <1>3, Alone
<1>5. /\ sock' = sock /\ call' = call /\ sent' = sent /\ conn' = conn
      /\ newest' = newest /\ outcome' = outcome /\ out' = [out EXCEPT ![n] = Tail(@)]
  BY DEF Serve, client
<1>6. Head(out[n]) = Sent(c) /\ Tail(out[n]) = <<>> BY <1>2
<1>7. out'[n] = <<>> /\ \A m \in Conns \ {n} : out'[m] = out[m] BY <1>5, <1>6 DEF TypeOK
<1>8. /\ Sent(c).op = call[c].op /\ Sent(c).cell = call[c].cell
      /\ Sent(c).num = call[c].num /\ Sent(c).tx = call[c].tx
  BY DEF Sent
<1>9. Sent(c) \in RequestType
  <2>1. 1 \in 1..Len(out[n]) /\ out[n][1] = Sent(c) BY <1>2
  <2> QED BY <2>1, OnTheWay
<1>10. /\ call[c].op \in Ops /\ call[c].cell \in Cells /\ call[c].tx \in 1..LastId
       /\ call[c].num \in 0..MaxSent
  BY <1>8, <1>9 DEF RequestType, TypeOK, CallType
<1> DEFINE Answers(op, value) ==
             back' = [back EXCEPT ![n] = Append(@, [tx |-> call[c].tx, op |-> op, value |-> value])]
<1>11. \/ held' = held /\ call[c].op = "read" /\ Answers("read", held[call[c].cell])
       \/ /\ held' = [held EXCEPT ![call[c].cell] = call[c].num] /\ call[c].op # "read"
          /\ Answers(call[c].op, call[c].num)
       \/ held' = held /\ Answers("exception", 0)
       \/ held' = held /\ back' = back
  <2> DEFINE request == Head(out[n])
             Answered(op, value) ==
               back' = [back EXCEPT ![n] = Append(@, [tx |-> request.tx, op |-> op, value |-> value])]
  <2>1. conn[n] # "left" BY <1>1
  <2>2. \/ held' = held /\ request.op = "read" /\ Answered("read", held[request.cell])
        \/ /\ held' = [held EXCEPT ![request.cell] = request.num] /\ request.op # "read"
           /\ Answered(request.op, request.num)
        \/ held' = held /\ Answered("exception", 0)
        \/ held' = held /\ back' = back
    BY <2>1, Zenon DEF Serve
  <2>3. request.op = call[c].op /\ request.cell = call[c].cell /\ request.num = call[c].num /\ request.tx = call[c].tx
    BY <1>6, <1>8
  <2> HIDE DEF request
  <2>4. \A op, value : Answered(op, value) <=> Answers(op, value) BY <2>3, Zenon
  <2> HIDE DEF Answered, Answers
  <2> QED BY <2>2, <2>3, <2>4, Zenon
<1> HIDE DEF Answers
<1> DEFINE answer(op, value) == [tx |-> call[c].tx, op |-> op, value |-> value]
<1>12. ASSUME NEW op \in Ops \cup {"exception"}, NEW value \in 0..MaxSent, Answers(op, value)
       PROVE  /\ back'[n] = <<answer(op, value)>> /\ answer(op, value) \in AnswerType
              /\ answer(op, value).op = op /\ answer(op, value).value = value
              /\ \A m \in Conns \ {n} : back'[m] = back[m]
  <2>1. answer(op, value) \in AnswerType /\ answer(op, value).op = op /\ answer(op, value).value = value
    BY <1>10 DEF AnswerType
  <2>2. back' = [back EXCEPT ![n] = Append(@, answer(op, value))] BY <1>12 DEF Answers
  <2> HIDE DEF answer
  <2>3. back' = [back EXCEPT ![n] = <<answer(op, value)>>] BY <1>2, <2>2
  <2> QED BY <2>1, <2>3 DEF TypeOK
<1> HIDE DEF answer
<1>13. held[call[c].cell] \in 0..MaxSent /\ 0 \in 0..MaxSent /\ "read" \in Ops
  BY <1>10, BoundsAssumption DEF TypeOK, Ops
<1>14. \A m \in Conns \ {n} : back'[m] = back[m]
  <2>1. CASE back' = back BY <2>1
  <2>2. CASE Answers("read", held[call[c].cell]) BY <1>12, <1>13, <2>2
  <2>3. CASE Answers(call[c].op, call[c].num) BY <1>10, <1>12, <2>3
  <2>4. CASE Answers("exception", 0) BY <1>12, <1>13, <2>4
  <2> QED BY <1>11, <2>1, <2>2, <2>3, <2>4
<1>15. held' = held \/ (held' = [held EXCEPT ![call[c].cell] = call[c].num] /\ call[c].op # "read") BY <1>11
<1>16. back'[n] = <<>> \/ \E a \in AnswerType : back'[n] = <<a>> /\ Proper(c, a)'
  <2>1. CASE held' = held /\ call[c].op = "read" /\ Answers("read", held[call[c].cell])
    <3>1. PICK a \in AnswerType : back'[n] = <<a>> /\ a.op = "read" /\ a.value = held[call[c].cell]
      BY <1>12, <1>13, <2>1
    <3>2. held[call[c].cell] = newest[call[c].cell] \/ Failed(held[call[c].cell])
      BY <1>4, <1>10, <2>1 DEF Rest, HeldInv
    <3>3. Proper(c, a)' BY <1>5, <2>1, <3>1, <3>2 DEF Proper, Failed
    <3> QED BY <3>1, <3>3
  <2>2. CASE /\ held' = [held EXCEPT ![call[c].cell] = call[c].num] /\ call[c].op # "read"
             /\ Answers(call[c].op, call[c].num)
    <3>1. PICK a \in AnswerType : back'[n] = <<a>> /\ a.op = call[c].op /\ a.value = call[c].num
      BY <1>10, <1>12, <2>2
    <3>2. held'[call[c].cell] = call[c].num BY <1>10, <2>2 DEF TypeOK
    <3>3. Proper(c, a)' BY <1>5, <2>2, <3>1, <3>2 DEF Proper
    <3> QED BY <3>1, <3>3
  <2>3. CASE Answers("exception", 0)
    <3>1. PICK a \in AnswerType : back'[n] = <<a>> /\ a.op = "exception" BY <1>12, <1>13, <2>3
    <3>2. Proper(c, a)' BY <3>1 DEF Proper
    <3> QED BY <3>1, <3>2
  <2>4. CASE back' = back BY <1>2, <2>4
  <2> QED BY <1>11, <2>1, <2>2, <2>3, <2>4
<1>17. SocketInv' BY <1>1, <1>5, <1>7, <1>14 DEF Rest, SocketInv
<1>18. NumberInv' BY <1>5 DEF Rest, NumberInv
<1>19. TrafficInv'
  <2>1. \A m \in Conns : m # sock => \A i \in 1..Len(out'[m]) : outcome[out'[m][i].num] = "failed"
    BY <1>7 DEF Rest, TrafficInv
  <2>2. \A d \in Callers : call'[d].at = "await" =>
          \/ out'[sock] \in {<<>>, <<Sent(d)'>>} /\ back'[sock] = <<>>
          \/ out'[sock] = <<>> /\ \E a \in AnswerType : back'[sock] = <<a>> /\ Proper(d, a)'
    BY <1>4, <1>5, <1>7, <1>16
  <2> QED BY <1>2, <1>5, <2>1, <2>2 DEF TrafficInv
<1>20. HeldInv'
  <2> SUFFICES ASSUME NEW x \in Cells
               PROVE  \/ held'[x] = newest[x]
                      \/ Failed(held'[x])
                      \/ \E d \in Callers : /\ call[d].at = "await" /\ call[d].op # "read"
                                            /\ call[d].cell = x /\ held'[x] = call[d].num
    BY <1>5 DEF HeldInv, Failed
  <2>1. held'[x] = held[x] \/ (call[c].op # "read" /\ call[c].cell = x /\ held'[x] = call[c].num)
    BY <1>10, <1>15 DEF TypeOK
  <2> QED BY <1>2, <2>1 DEF Rest, HeldInv
<1> QED BY <1>17, <1>18, <1>19, <1>20 DEF Rest
-----------------------------------------------------------------------------
LEMMA InitInv == Init => Inv
<1> SUFFICES ASSUME Init PROVE Inv OBVIOUS
<1>1. \A c \in Callers : call[c].at = "idle" BY DEF Init, Idle
<1>2. SocketInv BY <1>1, NoneAssumption DEF Init, SocketInv
<1>3. NumberInv BY <1>1 DEF Init, NumberInv
<1>4. TrafficInv BY <1>1 DEF Init, TrafficInv
<1>5. HeldInv BY DEF Init, HeldInv
<1> QED BY <1>2, <1>3, <1>4, <1>5, InitType DEF Inv

\* What is left of the steps: a thread that asks, takes the lock or is refused
\* moves on and does nothing else.
LEMMA RequestRest ==
  ASSUME TypeOK, Rest, NEW c \in Callers, NEW op \in Ops, NEW x \in Cells, Request(c, op, x) PROVE Rest'
<1> DEFINE v == [Idle EXCEPT !.at = "wait", !.op = op, !.cell = x]
<1>1. call' = [call EXCEPT ![c] = v] /\ call[c].at = "idle" BY DEF Request
<1>2. v.at = "wait" BY IdleType DEF CallType
<1> HIDE DEF v
<1> QED BY <1>1, <1>2, Moves DEF Request, plc

LEMMA AcquireRest == ASSUME TypeOK, Rest, NEW c \in Callers, Acquire(c) PROVE Rest'
<1> DEFINE v == [call[c] EXCEPT !.at = "connect"]
<1>1. call' = [call EXCEPT ![c] = v] /\ call[c].at = "wait" BY DEF Acquire
<1>2. v.at = "connect" BY DEF TypeOK, CallType
<1> HIDE DEF v
<1> QED BY <1>1, <1>2, Moves DEF Acquire, plc

LEMMA RefusedRest == ASSUME TypeOK, Rest, NEW c \in Callers, Refused(c) PROVE Rest'
<1>1. call[c].at = "connect" BY DEF Refused
<1>2. CASE call[c].tries + 1 < MaxRetries
  <2> DEFINE v == [call[c] EXCEPT !.tries = @ + 1]
  <2>1. call' = [call EXCEPT ![c] = v] BY <1>2 DEF Refused
  <2>2. v.at = "connect" BY <1>1 DEF TypeOK, CallType
  <2> HIDE DEF v
  <2> QED BY <1>1, <2>1, <2>2, Moves DEF Refused, plc
<1>3. CASE ~(call[c].tries + 1 < MaxRetries)
  <2> DEFINE v == [call[c] EXCEPT !.at = "idle", !.tries = 0]
  <2>1. call' = [call EXCEPT ![c] = v] BY <1>3 DEF Refused
  <2>2. v.at = "idle" BY DEF TypeOK, CallType
  <2> HIDE DEF v
  <2> QED BY <1>1, <2>1, <2>2, Moves DEF Refused, plc
<1> QED BY <1>2, <1>3

LEMMA Inductive == Inv /\ [Next]_vars => Inv'
<1> SUFFICES ASSUME Inv, [Next]_vars PROVE Inv' OBVIOUS
<1>0. TypeOK /\ Rest BY DEF Inv, Rest
<1>1. ASSUME NEW c \in Callers, Write(c) \/ Read(c) \/ Block(c) PROVE Inv'
  <2>1. PICK op \in Ops, x \in Cells : Request(c, op, x) BY <1>1 DEF Write, Read, Block, Ops
  <2> QED BY <1>0, <2>1, RequestKeepsType, RequestRest DEF Inv, Rest
<1>2. ASSUME NEW c \in Callers, Acquire(c) PROVE Inv' BY <1>0, <1>2, AcquireType, AcquireRest DEF Inv, Rest
<1>3. ASSUME NEW c \in Callers, Connect(c) PROVE Inv' BY <1>0, <1>3, ConnectType, ConnectRest DEF Inv, Rest
<1>4. ASSUME NEW c \in Callers, Refused(c) PROVE Inv' BY <1>0, <1>4, RefusedType, RefusedRest DEF Inv, Rest
<1>5. ASSUME NEW c \in Callers, Send(c) PROVE Inv' BY <1>0, <1>5, SendType, SendRest DEF Inv, Rest
<1>6. ASSUME NEW c \in Callers, TimesOut(c) PROVE Inv'
  BY <1>0, <1>6, RaisesType, RaisesRest DEF Inv, Rest, TimesOut
<1>7. ASSUME NEW c \in Callers, ReceiveWrong(c) PROVE Inv'
  BY <1>0, <1>7, RaisesType, RaisesRest DEF Inv, Rest, ReceiveWrong
<1>8. ASSUME NEW c \in Callers, Receive(c) PROVE Inv' BY <1>0, <1>8, ReceiveType, ReceiveRest DEF Inv, Rest
<1>9. ASSUME Disconnect PROVE Inv' BY <1>0, <1>9, DisconnectType, DisconnectRest DEF Inv, Rest
<1>10. ASSUME NEW n \in Conns, Serve(n) PROVE Inv'
  BY <1>0, <1>10, ServeType, ServeLate, ServeWaited DEF Inv, Rest
<1>11. ASSUME NEW n \in Conns, Hangup(n) PROVE Inv' BY <1>0, <1>11, HangupType, HangupRest DEF Inv, Rest
<1>12. CASE UNCHANGED vars
  <2>1. UNCHANGED <<lock, sock, nextId, call, conn, out, back, held, sent, outcome, newest>>
    BY <1>12 DEF vars, client, plc
  <2>2. TypeOK' BY <1>0, <2>1 DEF TypeOK
  <2>3. SocketInv' /\ NumberInv' BY <1>0, <2>1 DEF Rest, SocketInv, NumberInv
  <2>4. TrafficInv' /\ HeldInv' BY <1>0, <2>1 DEF Rest, TrafficInv, HeldInv, Sent, Proper, Failed
  <2> QED BY <2>2, <2>3, <2>4 DEF Inv
<1> QED BY <1>1, <1>2, <1>3, <1>4, <1>5, <1>6, <1>7, <1>8, <1>9, <1>10, <1>11, <1>12 DEF Next, Step

\* The states the link can be in (controller.py, modbus_server.py).
THEOREM Invariant == Spec => []Inv
BY InitInv, Inductive, PTL DEF Spec

\* Types are kept, ids never are zero, and a thread in a call has the lock
\* (controller.py _next_tx_id).
THEOREM TypeCorrect == Spec => []TypeOK
<1>1. Inv => TypeOK BY DEF Inv
<1> QED BY <1>1, Invariant, PTL

\* Between calls the socket is quiet in both directions (controller.py
\* _send_and_receive).
THEOREM SocketIsQuiet == Spec => []OpenSocketIsQuiet
<1>1. Inv => OpenSocketIsQuiet
  <2> SUFFICES ASSUME Inv, lock = None, sock # None PROVE out[sock] = <<>> /\ back[sock] = <<>>
    BY DEF OpenSocketIsQuiet
  <2>1. \A c \in Callers : call[c].at # "await" BY NobodyInside DEF Inv
  <2> QED BY <2>1 DEF Inv, TrafficInv
<1> QED BY <1>1, Invariant, PTL

\* Between calls a cell has the newest confirmed write, or one that failed
\* (controller.py set_signal, write_register).
THEOREM ConfirmedHeld == Spec => []ConfirmedIsHeld
<1>1. Inv => ConfirmedIsHeld
  <2> SUFFICES ASSUME Inv, lock = None, NEW x \in Cells
               PROVE  held[x] = newest[x] \/ (held[x] # 0 /\ outcome[held[x]] = "failed")
    BY DEF ConfirmedIsHeld
  <2>1. \A c \in Callers : call[c].at # "await" BY NobodyInside DEF Inv
  <2> QED BY <2>1 DEF Inv, HeldInv, Failed
<1> QED BY <1>1, Invariant, PTL

\* The answer that a call returns with is the one to its own request, however
\* many calls timed out before and however often ids came round
\* (controller.py _send_and_receive).
THEOREM AnswersCurrent == Spec => AnswersAreCurrent
<1> DEFINE Current == \A c \in Callers : call[c].at = "await" /\ outcome'[call[c].num] = "ok" =>
                        \/ call[c].op # "read" /\ call'[c].got = call[c].num
                        \/ /\ call[c].op = "read"
                           /\ \/ call'[c].got = newest[call[c].cell]
                              \/ call'[c].got # 0 /\ outcome[call'[c].got] = "failed"
<1>1. Inv /\ [Next]_vars => [Current]_vars
  <2> SUFFICES ASSUME Inv, Next, NEW c \in Callers, call[c].at = "await", outcome'[call[c].num] = "ok"
               PROVE  \/ call[c].op # "read" /\ call'[c].got = call[c].num
                      \/ /\ call[c].op = "read"
                         /\ \/ call'[c].got = newest[call[c].cell]
                            \/ call'[c].got # 0 /\ outcome[call'[c].got] = "failed"
    OBVIOUS
  <2>1. outcome[call[c].num] = "sent" BY DEF Inv, NumberInv
  <2>2. sock \in Conns /\ call[c].num \in Numbers BY AwaitsNumber DEF Inv
  <2>3. lock = c BY DEF Inv, TypeOK
  <2>4. PICK d \in Callers : Send(d) \/ TimesOut(d) \/ ReceiveWrong(d) \/ Receive(d)
    BY <2>1 DEF Next, Write, Read, Block, Request, Step, Acquire, Connect, Refused, Disconnect, Serve, Hangup
  <2>5. d = c BY <2>3, <2>4 DEF Inv, TypeOK, Send, TimesOut, ReceiveWrong, Receive
  <2>6. Receive(c) BY <2>2, <2>4, <2>5 DEF Inv, TypeOK, Send, TimesOut, ReceiveWrong, Raises
  <2>7. PICK a \in AnswerType : back[sock] = <<a>> /\ Proper(c, a) BY <2>6 DEF Inv, TrafficInv, Receive
  <2>8. Head(back[sock]) = a BY <2>7
  <2>9. a.op = call[c].op /\ call[c].op \in Ops BY <2>6, <2>8 DEF Receive, Mismatch, Inv, TypeOK, CallType
  <2>10. call'[c].got = a.value
    <3> DEFINE v == [call[c] EXCEPT !.at = "idle", !.tries = 0, !.got = Head(back[sock]).value]
    <3>1. call' = [call EXCEPT ![c] = v] BY <2>6 DEF Receive
    <3>2. v.got = a.value BY <2>8 DEF Inv, TypeOK, CallType
    <3> HIDE DEF v
    <3> QED BY <3>1, <3>2 DEF Inv, TypeOK
  <2> QED BY <2>7, <2>9, <2>10 DEF Proper, Failed, Ops
<1>2. Spec => [][Current]_vars BY <1>1, Invariant, PTL DEF Spec
<1> QED BY <1>2 DEF AnswersAreCurrent
=============================================================================
