----------------------------- MODULE OrderServer -----------------------------
(***************************************************************************)
(* The order gateway of the exchange: OrderServer (exchange/order_server), *)
(* its FIFOSequencer and the TCPServer below it, with the sending half of  *)
(* the clients' OrderGateways and the MatchingEngine as far as the server  *)
(* sees them.                                                              *)
(*                                                                         *)
(* The server is one thread: it polls, reads every socket once, hands the  *)
(* requests it accepted to the matching engine, sends the responses that   *)
(* are ready, and starts over.  Clients, the network and the matching      *)
(* engine run beside it.                                                   *)
(*                                                                         *)
(* The kernel takes what is sent to a live connection in one call.  Once a *)
(* connection was reset every send() on it fails, and the loop around it   *)
(* never ends: the thread is "spinning".                                   *)
(***************************************************************************)
EXTENDS Integers, Sequences, FiniteSets

CONSTANTS
    Clients, Sockets,
    MaxSends,      \* bound: requests sent by all clients together
    MaxPending,    \* ME_MAX_PENDING_REQUESTS
    StableLimit,   \* up to this length std::sort() keeps equal elements in order
    Null           \* nullptr

ASSUME MaxSendsAssumption == MaxSends \in Nat
ASSUME MaxPendingAssumption == MaxPending \in Nat
ASSUME StableLimitAssumption == StableLimit \in Nat
ASSUME NullAssumption == Null \notin Sockets

VARIABLES
    \* clients and network
    link,                     \* the socket of each running client
    next_outgoing_seq_num_,   \* of each client's OrderGateway
    wire,                     \* requests that arrived at a socket, unread
    clock,                    \* time of the last arrival
    backlog,                  \* connections not accepted yet
    reset,                    \* connections that were reset
    \* TCPServer and TCPSocket
    recv_sockets_,
    disconnected_sockets_,
    rcv_buffer_,              \* whole requests in the buffer of a socket
    partial,                  \* does the buffer hold the start of one more?
    send_buffer_,             \* responses in the buffer of a socket, unsent
    \* OrderServer and FIFOSequencer
    pc, turn, recv, rx_time,  \* where the thread is
    clientId_socket_,
    clientId_outgoing_seqNum_,
    pending_client_requests_,
    process,                  \* "running", "fatal", "assert" or "spinning"
    \* queues to and from the matching engine, and what has been done
    incoming_requests_,
    client_responses_,
    forwarded,                \* every request handed to the matching engine
    sent,                     \* number of responses to each client
    longest                   \* length of the longest batch that was sorted

network == <<link, next_outgoing_seq_num_, wire, clock, backlog, reset>>
sockets == <<recv_sockets_, disconnected_sockets_>>
session == <<clientId_socket_, clientId_outgoing_seqNum_>>
queues  == <<incoming_requests_, client_responses_, forwarded, sent, longest>>

vars == <<network, sockets, rcv_buffer_, partial, send_buffer_, pc, turn, recv,
          rx_time, session, pending_client_requests_, process, queues>>

Init ==
    /\ link = [c \in Clients |-> Null]
    /\ next_outgoing_seq_num_ = [c \in Clients |-> 1]
    /\ wire = [s \in Sockets |-> << >>]
    /\ clock = 0
    /\ backlog = << >>
    /\ reset = {}
    /\ recv_sockets_ = << >>
    /\ disconnected_sockets_ = {}
    /\ rcv_buffer_ = [s \in Sockets |-> << >>]
    /\ partial = [s \in Sockets |-> FALSE]
    /\ send_buffer_ = [s \in Sockets |-> 0]
    /\ pc = "poll"
    /\ turn = 1
    /\ recv = FALSE
    /\ rx_time = 0
    /\ clientId_socket_ = [c \in Clients |-> Null]
    /\ clientId_outgoing_seqNum_ = [c \in Clients |-> 1]
    /\ pending_client_requests_ = << >>
    /\ process = "running"
    /\ incoming_requests_ = << >>
    /\ client_responses_ = << >>
    /\ forwarded = << >>
    /\ sent = [c \in Clients |-> 0]
    /\ longest = 0

Elements(s) == {s[i] : i \in DOMAIN s}

-----------------------------------------------------------------------------
(* Clients and network. *)

\* Sockets no connection has used so far.
Unused ==
    {s \in Sockets : /\ s \notin Elements(backlog) \cup Elements(recv_sockets_)
                     /\ s \notin reset
                     /\ \A c \in Clients : link[c] # s}

\* A trading system starts, or starts again, and connects.
Connect(c, s) ==
    /\ link[c] = Null
    /\ s \in Unused
    /\ link' = [link EXCEPT ![c] = s]
    /\ next_outgoing_seq_num_' = [next_outgoing_seq_num_ EXCEPT ![c] = 1]
    /\ backlog' = Append(backlog, s)
    /\ UNCHANGED <<wire, clock, reset>>

\* OrderGateway::run() sends a request, which arrives at the exchange.
SendRequest(c) ==
    /\ link[c] # Null
    /\ clock < MaxSends
    /\ clock' = clock + 1
    /\ wire' = [wire EXCEPT ![link[c]] =
                  Append(@, [clientId_ |-> c,
                             seq_num |-> next_outgoing_seq_num_[c],
                             from |-> link[c], arrival |-> clock'])]
    /\ next_outgoing_seq_num_' = [next_outgoing_seq_num_ EXCEPT ![c] = @ + 1]
    /\ UNCHANGED <<link, backlog, reset>>

\* A trading system ends.  What it sent is still there to be read.
Disconnect(c) ==
    /\ link[c] # Null
    /\ link' = [link EXCEPT ![c] = Null]
    /\ UNCHANGED <<next_outgoing_seq_num_, wire, clock, backlog, reset>>

\* A connection without a client is reset: at once, when the exchange sends
\* to it, or never.  What was not read may be lost.
Reset(s) ==
    /\ s \in (Elements(backlog) \cup Elements(recv_sockets_)) \ reset
    /\ \A c \in Clients : link[c] # s
    /\ reset' = reset \cup {s}
    /\ wire' \in {wire, [wire EXCEPT ![s] = << >>]}
    /\ UNCHANGED <<link, next_outgoing_seq_num_, clock, backlog>>

Client ==
    /\ \/ \E c \in Clients, s \in Sockets : Connect(c, s)
       \/ \E c \in Clients : SendRequest(c)
       \/ \E c \in Clients : Disconnect(c)
       \/ \E s \in Sockets : Reset(s)
    /\ UNCHANGED <<sockets, rcv_buffer_, partial, send_buffer_, pc, turn,
                   recv, rx_time, session, pending_client_requests_, process,
                   queues>>

-----------------------------------------------------------------------------
(* TCPServer::poll(). *)

\* Erase-remove: what recv_sockets_ becomes without disconnected_sockets_, the
\* others in their order.  The set has one element.
StillConnected ==
    LET kept == {i \in DOMAIN recv_sockets_ :
                   recv_sockets_[i] \notin disconnected_sockets_}
        n == Cardinality(kept)
    IN  {[i \in 1 .. n |-> recv_sockets_[p[i]]] :
           p \in {q \in [1 .. n -> kept] :
                    /\ \A i, j \in 1 .. n : i < j => q[i] < q[j]
                    /\ \A k \in kept : \E i \in 1 .. n : q[i] = k}}

\* Mutant: a client whose connection hangs up is forgotten.
pollForgetsClients ==
    /\ pc = "poll"
    /\ process = "running"
    /\ \E still \in StillConnected : recv_sockets_' = still \o backlog
    /\ \/ UNCHANGED <<disconnected_sockets_, clientId_socket_>>
       \/ \E s \in reset \cap Elements(recv_sockets_) :
             /\ disconnected_sockets_' = disconnected_sockets_ \cup {s}
             /\ clientId_socket_' =
                   [c \in Clients |-> IF clientId_socket_[c] = s THEN Null
                                      ELSE clientId_socket_[c]]
    /\ backlog' = << >>
    /\ pc' = "recv"
    /\ UNCHANGED <<link, next_outgoing_seq_num_, wire, clock, reset,
                   rcv_buffer_, partial, send_buffer_, turn, recv, rx_time,
                   clientId_outgoing_seqNum_, pending_client_requests_,
                   process, queues>>

\* sockets_ is never filled, so epoll_wait() returns one event at most: a new
\* connection, a hang-up, or nothing that changes a list (readable sockets
\* are in recv_sockets_ since they were accepted).
poll ==
    /\ pc = "poll"
    /\ process = "running"
    /\ \E still \in StillConnected :
          \/ /\ backlog # << >>
             /\ recv_sockets_' = still \o backlog
             /\ backlog' = << >>
             /\ UNCHANGED disconnected_sockets_
          \/ \E s \in (reset \cap Elements(recv_sockets_)) \ disconnected_sockets_ :
                /\ recv_sockets_' = still
                /\ disconnected_sockets_' = disconnected_sockets_ \cup {s}
                /\ UNCHANGED backlog
          \/ /\ recv_sockets_' = still
             /\ UNCHANGED <<backlog, disconnected_sockets_>>
    /\ pc' = "recv"
    /\ UNCHANGED <<link, next_outgoing_seq_num_, wire, clock, reset,
                   rcv_buffer_, partial, send_buffer_, turn, recv, rx_time,
                   session, pending_client_requests_, process, queues>>

-----------------------------------------------------------------------------
(* TCPServer::sendAndRecv() and the callbacks of OrderServer. *)

\* TCPSocket::sendAndRecv(), second half: the responses in the buffer are
\* sent.  When send() fails n_send grows by one instead of shrinking.
Transmit(s) ==
    IF send_buffer_[s] > 0 /\ s \in reset
    THEN /\ process' = "spinning"
         /\ UNCHANGED send_buffer_
    ELSE /\ send_buffer_' = [send_buffer_ EXCEPT ![s] = 0]
         /\ UNCHANGED process

\* The socket that the loop in TCPServer::sendAndRecv() has reached.
InTurn(s) == turn <= Len(recv_sockets_) /\ recv_sockets_[turn] = s

\* First half, of the socket whose turn it is: everything that has arrived is
\* read, and the end of the last request may still be on its way.  The time
\* stamp of the kernel is that of the last bytes.
Receive ==
    /\ pc = "recv"
    /\ process = "running"
    /\ \E s \in Sockets :
           /\ InTurn(s)
           /\ wire[s] # << >>
           /\ \E whole \in {Len(wire[s]), Len(wire[s]) - 1} :
                 /\ whole > 0 \/ ~partial[s]
                 /\ rcv_buffer_' = [rcv_buffer_ EXCEPT ![s] =
                                      SubSeq(wire[s], 1, whole)]
                 /\ wire' = [wire EXCEPT ![s] =
                               SubSeq(@, whole + 1, Len(@))]
                 /\ partial' = [partial EXCEPT ![s] = whole < Len(wire[s])]
           /\ rx_time' = wire[s][Len(wire[s])].arrival
    /\ recv' = TRUE
    /\ pc' = "callback"
    /\ UNCHANGED <<link, next_outgoing_seq_num_, clock, backlog, reset,
                   sockets, send_buffer_, turn, session,
                   pending_client_requests_, process, queues>>

\* recvmsg() finds nothing: no data, or a request whose end has not arrived.
NothingToReceive(s) == wire[s] = << >> \/ (partial[s] /\ Len(wire[s]) = 1)

\* Mutant: sendAndRecv() returns early when there is nothing to receive.
ReceiveNothingReturns ==
    /\ pc = "recv"
    /\ process = "running"
    /\ \E s \in Sockets : InTurn(s) /\ NothingToReceive(s)
    /\ turn' = turn + 1
    /\ UNCHANGED <<network, sockets, rcv_buffer_, partial, send_buffer_, pc,
                   recv, rx_time, session, pending_client_requests_, process,
                   queues>>

ReceiveNothing ==
    /\ pc = "recv"
    /\ process = "running"
    /\ \E s \in Sockets : InTurn(s) /\ NothingToReceive(s) /\ Transmit(s)
    /\ turn' = turn + 1
    /\ UNCHANGED <<network, sockets, rcv_buffer_, partial, pc, recv, rx_time,
                   session, pending_client_requests_, queues>>

\* Mutant: a client is bound to the socket it used last.
SocketOfLatest(c, s) == s

\* The socket a client is bound to once this request has been seen.
SocketOf(c, s) == IF clientId_socket_[c] = Null THEN s ELSE clientId_socket_[c]

\* The tests of recvCallback().  The number is compared with the counter of
\* the responses.
Acceptable(r, s) ==
    /\ SocketOf(r.clientId_, s) = s
    /\ r.seq_num = clientId_outgoing_seqNum_[r.clientId_]

\* Mutant: off by one.
TooManyPendingLate == Len(pending_client_requests_) > MaxPending

\* addClientRequest() is FATAL when the array is full.
TooManyPending == Len(pending_client_requests_) >= MaxPending

\* One round of the loop in recvCallback(), with addClientRequest().
recvCallback ==
    /\ pc = "callback"
    /\ process = "running"
    /\ \E s \in Sockets :
       LET r == Head(rcv_buffer_[s])
           c == r.clientId_
       IN  /\ InTurn(s)
           /\ rcv_buffer_[s] # << >>
           /\ rcv_buffer_' = [rcv_buffer_ EXCEPT ![s] = Tail(@)]
           /\ clientId_socket_' = [clientId_socket_ EXCEPT ![c] =
                                     SocketOf(c, s)]
           /\ IF ~Acceptable(r, s)
              THEN UNCHANGED <<clientId_outgoing_seqNum_, process,
                               pending_client_requests_>>
              ELSE /\ clientId_outgoing_seqNum_' =
                         [clientId_outgoing_seqNum_ EXCEPT ![c] = @ + 1]
                   /\ IF TooManyPending
                      THEN /\ process' = "fatal"
                           /\ UNCHANGED pending_client_requests_
                      ELSE /\ pending_client_requests_' =
                                Append(pending_client_requests_,
                                       [recv_time |-> rx_time, request |-> r])
                           /\ UNCHANGED process
    /\ UNCHANGED <<network, sockets, partial, send_buffer_, pc, turn, recv,
                   rx_time, queues>>

\* The buffer holds no whole request any more; sendAndRecv() goes on.
recvCallbackReturns ==
    /\ pc = "callback"
    /\ process = "running"
    /\ \E s \in Sockets :
          InTurn(s) /\ rcv_buffer_[s] = << >> /\ Transmit(s)
    /\ pc' = "recv"
    /\ turn' = turn + 1
    /\ rx_time' = 0
    /\ UNCHANGED <<network, sockets, rcv_buffer_, partial, recv, session,
                   pending_client_requests_, queues>>

\* Mutant: the comparison is <= instead of <, and equal times may be swapped.
SortedLoosely(s) ==
    {[i \in DOMAIN s |-> s[p[i]]] :
       p \in {q \in [DOMAIN s -> DOMAIN s] :
                \A i, j \in DOMAIN s : i < j =>
                   /\ q[i] # q[j]
                   /\ s[q[i]].recv_time <= s[q[j]].recv_time}}

\* What std::sort() can make of s: a permutation by time, and up to a certain
\* length one that keeps requests of the same time in place.
Sorted(s) ==
    {[i \in DOMAIN s |-> s[p[i]]] :
       p \in {q \in [DOMAIN s -> DOMAIN s] :
                \A i, j \in DOMAIN s : i < j =>
                   /\ q[i] # q[j]
                   /\ s[q[i]].recv_time <= s[q[j]].recv_time
                   /\ (/\ Len(s) <= StableLimit
                       /\ s[q[i]].recv_time = s[q[j]].recv_time)
                         => q[i] < q[j]}}

\* Mutant: the requests are handed over only when all that arrived is read.
FlushWhenDrained == recv /\ \A s \in Sockets : wire[s] = << >>

\* sendAndRecv() remembers that some socket received something.
FlushNeeded == recv

\* recvFinishedCallback() with sequenceAndPublish(), after the last socket.
sequenceAndPublish ==
    /\ pc = "recv"
    /\ process = "running"
    /\ turn > Len(recv_sockets_)
    /\ IF FlushNeeded
       THEN \E batch \in Sorted(pending_client_requests_) :
               LET requests == [i \in DOMAIN batch |-> batch[i].request]
               IN  /\ incoming_requests_' = incoming_requests_ \o requests
                   /\ forwarded' = forwarded \o requests
                   /\ pending_client_requests_' = << >>
                   /\ longest' = IF Len(batch) > longest
                                 THEN Len(batch) ELSE longest
       ELSE UNCHANGED <<incoming_requests_, forwarded,
                        pending_client_requests_, longest>>
    /\ pc' = "respond"
    /\ turn' = 1
    /\ recv' = FALSE
    /\ UNCHANGED <<network, sockets, rcv_buffer_, partial, send_buffer_,
                   rx_time, session, process, client_responses_, sent>>

-----------------------------------------------------------------------------
(* The responses. *)

\* One round of the loop in run() that sends responses.
SendResponse ==
    /\ pc = "respond"
    /\ process = "running"
    /\ client_responses_ # << >>
    /\ LET c == Head(client_responses_)
       IN  IF clientId_socket_[c] = Null
           THEN /\ process' = "assert"
                /\ UNCHANGED <<clientId_outgoing_seqNum_, client_responses_,
                               send_buffer_, sent>>
           ELSE /\ send_buffer_' =
                      [send_buffer_ EXCEPT ![clientId_socket_[c]] = @ + 1]
                /\ sent' = [sent EXCEPT ![c] = @ + 1]
                /\ client_responses_' = Tail(client_responses_)
                /\ clientId_outgoing_seqNum_' =
                      [clientId_outgoing_seqNum_ EXCEPT ![c] = @ + 1]
                /\ UNCHANGED process
    /\ UNCHANGED <<network, sockets, rcv_buffer_, partial, pc, turn, recv,
                   rx_time, clientId_socket_, pending_client_requests_,
                   incoming_requests_, forwarded, longest>>

RoundEnds ==
    /\ pc = "respond"
    /\ process = "running"
    /\ client_responses_ = << >>
    /\ pc' = "poll"
    /\ UNCHANGED <<network, sockets, rcv_buffer_, partial, send_buffer_, turn,
                   recv, rx_time, session, pending_client_requests_, process,
                   queues>>

\* The matching engine answers the client whose request it processes.
Answer ==
    /\ process \in {"running", "spinning"}
    /\ incoming_requests_ # << >>
    /\ client_responses_' = Append(client_responses_,
                                   Head(incoming_requests_).clientId_)
    /\ incoming_requests_' = Tail(incoming_requests_)
    /\ UNCHANGED <<network, sockets, rcv_buffer_, partial, send_buffer_, pc,
                   turn, recv, rx_time, session, pending_client_requests_,
                   process, forwarded, sent, longest>>

Server ==
    \/ poll
    \/ Receive
    \/ ReceiveNothing
    \/ recvCallback
    \/ recvCallbackReturns
    \/ sequenceAndPublish
    \/ SendResponse
    \/ RoundEnds

Next == Client \/ Server \/ Answer

Spec == Init /\ [][Next]_vars

\* The threads of the server and of the matching engine keep running; clients
\* need not do anything.
FairSpec == Spec /\ WF_vars(Server) /\ WF_vars(Answer)

-----------------------------------------------------------------------------
(* Properties. *)

Request == [clientId_ : Clients, seq_num : Nat, from : Sockets, arrival : Nat]

TypeOK ==
    /\ link \in [Clients -> Sockets \cup {Null}]
    /\ next_outgoing_seq_num_ \in [Clients -> Nat]
    /\ wire \in [Sockets -> Seq(Request)]
    /\ clock \in Nat
    /\ backlog \in Seq(Sockets)
    /\ reset \subseteq Sockets
    /\ recv_sockets_ \in Seq(Sockets)
    /\ disconnected_sockets_ \subseteq Sockets
    /\ rcv_buffer_ \in [Sockets -> Seq(Request)]
    /\ partial \in [Sockets -> BOOLEAN]
    /\ send_buffer_ \in [Sockets -> Nat]
    /\ pc \in {"poll", "recv", "callback", "respond"}
    /\ turn \in Nat
    /\ recv \in BOOLEAN
    /\ rx_time \in Nat
    /\ clientId_socket_ \in [Clients -> Sockets \cup {Null}]
    /\ clientId_outgoing_seqNum_ \in [Clients -> Nat]
    /\ pending_client_requests_ \in Seq([recv_time : Nat, request : Request])
    /\ Len(pending_client_requests_) <= MaxPending
    /\ process \in {"running", "fatal", "assert", "spinning"}
    /\ incoming_requests_ \in Seq(Request)
    /\ client_responses_ \in Seq(Clients)
    /\ forwarded \in Seq(Request)
    /\ sent \in [Clients -> Nat]
    /\ longest \in Nat

\* The requests of a client reach the matching engine in the order of their
\* numbers and none twice, also when the client starts again with number 1
\* on another connection and bursts of several clients are sorted together,
\* as long as no batch was too long for std::sort() to keep requests of one
\* time in place (sequenceAndPublish()).
ForwardedInOrder ==
    longest <= StableLimit =>
       \A i, j \in DOMAIN forwarded :
          (i < j /\ forwarded[i].clientId_ = forwarded[j].clientId_)
             => forwarded[i].seq_num < forwarded[j].seq_num

\* Everything a client ever got executed came over one connection.
OneSocketPerClient ==
    \A i \in DOMAIN forwarded :
       forwarded[i].from = clientId_socket_[forwarded[i].clientId_]

\* No accepted request stays behind in the sequencer when the thread turns to
\* the responses: it would wait for somebody else's next message.
RoundFlushed ==
    pc \in {"poll", "respond"} => pending_client_requests_ = << >>

\* ASSERT in run(): whoever gets a response has a socket.
AnswerHasSocket == process # "assert"

Forwarded(c) ==
    Cardinality({i \in DOMAIN forwarded : forwarded[i].clientId_ = c})

\* The responses to a client that have left the server.
Transmitted(c) ==
    IF clientId_socket_[c] = Null
    THEN 0
    ELSE sent[c] - send_buffer_[clientId_socket_[c]]

\* Every request handed to the matching engine is answered to its client,
\* over the network and without another message from anybody, unless its
\* connection was reset or the server gives up.
ForwardedIsAnswered ==
    \A c \in Clients : \A n \in 1 .. MaxSends :
       (Forwarded(c) >= n) ~> \/ Transmitted(c) >= n
                              \/ clientId_socket_[c] \in reset
                              \/ process # "running"

\* The header's account of the counters: recvCallback() expects of a client
\* the number after that of the last request it accepted.
Accepted(c) ==
    Forwarded(c)
    + Cardinality({i \in DOMAIN pending_client_requests_ :
                     pending_client_requests_[i].request.clientId_ = c})

ExpectsNextNumber ==
    process = "running" =>
       \A c \in Clients : clientId_outgoing_seqNum_[c] = Accepted(c) + 1
=============================================================================
