-------------------------- MODULE OrderServerProofs --------------------------
(***************************************************************************)
(* Proofs about OrderServer, for every number of clients and sockets and   *)
(* whatever the order in which they connect, send, end and start again.    *)
(*                                                                         *)
(* The argument follows a request: it carries the socket it came over;     *)
(* recvCallback() lets it pass only if its client is bound to that socket; *)
(* and a binding, once made, is never changed.  So wherever an accepted    *)
(* request is, its client is bound to its socket, and a response can only  *)
(* be for a client that has one.                                           *)
(***************************************************************************)
EXTENDS OrderServer, TLAPS, SequenceTheorems, FiniteSetTheorems

Pending == [recv_time : Nat, request : Request]

\* The part of the type invariant that the argument needs.
Types ==
    /\ link \in [Clients -> Sockets \cup {Null}]
    /\ next_outgoing_seq_num_ \in [Clients -> Nat]
    /\ clock \in Nat
    /\ rx_time \in Nat
    /\ wire \in [Sockets -> Seq(Request)]
    /\ rcv_buffer_ \in [Sockets -> Seq(Request)]
    /\ clientId_socket_ \in [Clients -> Sockets \cup {Null}]
    /\ pending_client_requests_ \in Seq(Pending)
    /\ incoming_requests_ \in Seq(Request)
    /\ forwarded \in Seq(Request)
    /\ client_responses_ \in Seq(Clients)

\* A request in the buffers of a socket came over that socket.
CarriesSocket ==
    \A s \in Sockets :
       /\ \A i \in 1 .. Len(wire[s]) : wire[s][i].from = s
       /\ \A i \in 1 .. Len(rcv_buffer_[s]) : rcv_buffer_[s][i].from = s

\* The client of request r is bound to the socket r came over.
Bound(r) == clientId_socket_[r.clientId_] = r.from

\* Every accepted request is bound, and every answered client has a socket.
AcceptedBound ==
    /\ \A i \in 1 .. Len(pending_client_requests_) :
          Bound(pending_client_requests_[i].request)
    /\ \A i \in 1 .. Len(incoming_requests_) : Bound(incoming_requests_[i])
    /\ \A i \in 1 .. Len(forwarded) : Bound(forwarded[i])
    /\ \A i \in 1 .. Len(client_responses_) :
          clientId_socket_[client_responses_[i]] # Null

SessionInv ==
    /\ Types
    /\ CarriesSocket
    /\ AcceptedBound
    /\ AnswerHasSocket

-----------------------------------------------------------------------------
(* Sequences. *)

\* The elements of a sequence after Append().
LEMMA AppendElements ==
    ASSUME NEW S, NEW q \in Seq(S), NEW e \in S
    PROVE  /\ Append(q, e) \in Seq(S)
           /\ Len(Append(q, e)) = Len(q) + 1
           /\ \A i \in 1 .. Len(q) : Append(q, e)[i] = q[i]
           /\ Append(q, e)[Len(q) + 1] = e
  OBVIOUS

\* The elements of a sequence without its first one.
LEMMA TailElements ==
    ASSUME NEW S, NEW q \in Seq(S), q # << >>
    PROVE  /\ Head(q) \in S
           /\ Head(q) = q[1]
           /\ Len(q) \in Nat \ {0}
           /\ Tail(q) \in Seq(S)
           /\ Len(Tail(q)) = Len(q) - 1
           /\ \A i \in 1 .. Len(Tail(q)) : Tail(q)[i] = q[i + 1]
  OBVIOUS

\* The elements of a part of a sequence.
LEMMA SubSeqElements ==
    ASSUME NEW S, NEW q \in Seq(S), NEW a \in 1 .. Len(q) + 1,
           NEW b \in 0 .. Len(q)
    PROVE  /\ SubSeq(q, a, b) \in Seq(S)
           /\ \A i \in 1 .. Len(SubSeq(q, a, b)) :
                 /\ a + i - 1 \in 1 .. Len(q)
                 /\ SubSeq(q, a, b)[i] = q[a + i - 1]
  OBVIOUS

\* The elements of two sequences in a row.
LEMMA ConcatElements ==
    ASSUME NEW S, NEW q \in Seq(S), NEW p \in Seq(S)
    PROVE  /\ q \o p \in Seq(S)
           /\ \A i \in 1 .. Len(q \o p) :
                 \/ i \in 1 .. Len(q) /\ (q \o p)[i] = q[i]
                 \/ i - Len(q) \in 1 .. Len(p) /\ (q \o p)[i] = p[i - Len(q)]
  OBVIOUS

-----------------------------------------------------------------------------
(* One lemma per step that touches what SessionInv speaks of. *)

\* A request that is sent carries the socket of its client.
LEMMA SendRequestKeeps ==
    ASSUME SessionInv, NEW c \in Clients, SendRequest(c),
           UNCHANGED <<rx_time, rcv_buffer_, clientId_socket_,
                       pending_client_requests_, incoming_requests_,
                       forwarded, client_responses_, process>>
    PROVE  SessionInv'
<1> DEFINE s == link[c]
           r == [clientId_ |-> c, seq_num |-> next_outgoing_seq_num_[c],
                 from |-> s, arrival |-> clock']
<1>1. s \in Sockets
  BY DEF SessionInv, Types, SendRequest
<1>2. clock' \in Nat /\ r \in Request
  BY <1>1 DEF SessionInv, Types, SendRequest, Request
<1>3. wire' = [wire EXCEPT ![s] = Append(wire[s], r)]
  BY DEF SendRequest
<1>4. wire[s] \in Seq(Request)
  BY <1>1 DEF SessionInv, Types
<1>5. /\ Append(wire[s], r) \in Seq(Request)
      /\ Len(Append(wire[s], r)) = Len(wire[s]) + 1
      /\ \A i \in 1 .. Len(wire[s]) : Append(wire[s], r)[i] = wire[s][i]
      /\ Append(wire[s], r)[Len(wire[s]) + 1] = r
  BY <1>2, <1>4, AppendElements
<1>6. r.from = s
  OBVIOUS
<1> HIDE DEF r
<1>7. Types'
  BY <1>1, <1>2, <1>3, <1>5 DEF SessionInv, Types, SendRequest
<1>8. CarriesSocket'
  <2> SUFFICES ASSUME NEW t \in Sockets
               PROVE  /\ \A i \in 1 .. Len(wire'[t]) : wire'[t][i].from = t
                      /\ \A i \in 1 .. Len(rcv_buffer_'[t]) :
                            rcv_buffer_'[t][i].from = t
    BY DEF CarriesSocket
  <2>1. \A i \in 1 .. Len(rcv_buffer_'[t]) : rcv_buffer_'[t][i].from = t
    BY DEF SessionInv, CarriesSocket
  <2>2. CASE t # s
    BY <2>1, <2>2, <1>3 DEF SessionInv, CarriesSocket, Types
  <2>3. CASE t = s
    <3>1. wire'[s] = Append(wire[s], r)
      BY <1>1, <1>3 DEF SessionInv, Types
    <3>2. Len(wire[s]) \in Nat
      BY <1>4
    <3>3. \A i \in 1 .. Len(wire[s]) : wire[s][i].from = s
      BY <1>1 DEF SessionInv, CarriesSocket
    <3>4. \A i \in 1 .. Len(wire'[s]) : wire'[s][i].from = s
      <4> SUFFICES ASSUME NEW i \in 1 .. Len(wire[s]) + 1
                   PROVE  Append(wire[s], r)[i].from = s
        BY <3>1, <1>5
      <4>1. CASE i = Len(wire[s]) + 1
        BY <4>1, <1>5, <1>6
      <4>2. CASE i \in 1 .. Len(wire[s])
        BY <4>2, <1>5, <3>3
      <4> QED BY <4>1, <4>2, <3>2
    <3> QED BY <3>4, <2>1, <2>3
  <2> QED BY <2>2, <2>3
<1>9. AcceptedBound' /\ AnswerHasSocket'
  BY DEF SessionInv, AcceptedBound, AnswerHasSocket, Bound
<1> QED BY <1>7, <1>8, <1>9 DEF SessionInv

\* What is read into the buffer of a socket stays with that socket.
LEMMA ReceiveKeeps ==
    ASSUME SessionInv, Receive
    PROVE  SessionInv'
<1>1. PICK s \in Sockets :
         /\ wire[s] # << >>
         /\ \E whole \in {Len(wire[s]), Len(wire[s]) - 1} :
               /\ rcv_buffer_' = [rcv_buffer_ EXCEPT ![s] =
                                    SubSeq(wire[s], 1, whole)]
               /\ wire' = [wire EXCEPT ![s] =
                             SubSeq(wire[s], whole + 1, Len(wire[s]))]
         /\ rx_time' = wire[s][Len(wire[s])].arrival
  BY DEF Receive
<1>2. PICK whole \in {Len(wire[s]), Len(wire[s]) - 1} :
         /\ rcv_buffer_' = [rcv_buffer_ EXCEPT ![s] =
                              SubSeq(wire[s], 1, whole)]
         /\ wire' = [wire EXCEPT ![s] =
                       SubSeq(wire[s], whole + 1, Len(wire[s]))]
  BY <1>1
<1> DEFINE q == wire[s]
           got == SubSeq(q, 1, whole)
           left == SubSeq(q, whole + 1, Len(q))
<1>3. q \in Seq(Request) /\ Len(q) \in Nat \ {0}
  BY <1>1 DEF SessionInv, Types
<1>4. whole \in 0 .. Len(q) /\ whole + 1 \in 1 .. Len(q) + 1
  BY <1>2, <1>3
<1>5. /\ got \in Seq(Request)
      /\ \A i \in 1 .. Len(got) : 1 + i - 1 \in 1 .. Len(q)
                                  /\ got[i] = q[1 + i - 1]
  <2>1. 1 \in 1 .. Len(q) + 1
    BY <1>3
  <2> QED BY <2>1, <1>3, <1>4, SubSeqElements
<1>6. /\ left \in Seq(Request)
      /\ \A i \in 1 .. Len(left) :
            /\ whole + 1 + i - 1 \in 1 .. Len(q)
            /\ left[i] = q[whole + 1 + i - 1]
  <2>1. Len(q) \in 0 .. Len(q)
    BY <1>3
  <2> QED BY <2>1, <1>3, <1>4, SubSeqElements
<1>7. \A i \in 1 .. Len(q) : q[i].from = s
  BY DEF SessionInv, CarriesSocket
<1>8. q[Len(q)].arrival \in Nat
  <2>1. q[Len(q)] \in Request
    BY <1>3
  <2> QED BY <2>1 DEF Request
<1>9. rcv_buffer_' = [rcv_buffer_ EXCEPT ![s] = got]
      /\ wire' = [wire EXCEPT ![s] = left]
      /\ rx_time' = q[Len(q)].arrival
  BY <1>1, <1>2
<1>10. (\A i \in 1 .. Len(got) : got[i].from = s)
       /\ (\A i \in 1 .. Len(left) : left[i].from = s)
  BY <1>5, <1>6, <1>7
<1> HIDE DEF q, got, left
<1>11. Types'
  BY <1>5, <1>6, <1>8, <1>9
  DEF SessionInv, Types, Receive, session, queues
<1>12. CarriesSocket'
  BY <1>9, <1>10 DEF SessionInv, Types, CarriesSocket
<1>13. AcceptedBound' /\ AnswerHasSocket'
  BY DEF SessionInv, AcceptedBound, AnswerHasSocket, Bound, Receive, session,
         queues
<1> QED BY <1>11, <1>12, <1>13 DEF SessionInv

\* A binding is made once: what was bound stays bound to the same socket.
LEMMA BoundStays ==
    ASSUME SessionInv,
           \A c \in Clients : clientId_socket_[c] # Null =>
                                 clientId_socket_'[c] = clientId_socket_[c],
           UNCHANGED <<incoming_requests_, forwarded, client_responses_>>
    PROVE  /\ \A r \in Request : Bound(r) => Bound(r)'
           /\ \A i \in 1 .. Len(incoming_requests_') :
                 Bound(incoming_requests_[i])'
           /\ \A i \in 1 .. Len(forwarded') : Bound(forwarded[i])'
           /\ \A i \in 1 .. Len(client_responses_') :
                 clientId_socket_'[client_responses_'[i]] # Null
<1>1. \A r \in Request : Bound(r) => Bound(r)'
  BY NullAssumption DEF Bound, Request
<1>2. \A i \in 1 .. Len(incoming_requests_) :
         incoming_requests_[i] \in Request /\ Bound(incoming_requests_[i])
  BY DEF SessionInv, Types, AcceptedBound
<1>3. \A i \in 1 .. Len(forwarded) :
         forwarded[i] \in Request /\ Bound(forwarded[i])
  BY DEF SessionInv, Types, AcceptedBound
<1>4. \A i \in 1 .. Len(client_responses_) :
         /\ client_responses_[i] \in Clients
         /\ clientId_socket_[client_responses_[i]] # Null
  BY DEF SessionInv, Types, AcceptedBound
<1>5. \A i \in 1 .. Len(incoming_requests_') : Bound(incoming_requests_[i])'
  BY <1>1, <1>2 DEF Bound
<1>6. \A i \in 1 .. Len(forwarded') : Bound(forwarded[i])'
  BY <1>1, <1>3 DEF Bound
<1> QED BY <1>1, <1>4, <1>5, <1>6

\* A request passes recvCallback() only over the socket of its client.
LEMMA recvCallbackKeeps ==
    ASSUME SessionInv, recvCallback
    PROVE  SessionInv'
<1>1. PICK s \in Sockets :
         LET r == Head(rcv_buffer_[s])
             c == r.clientId_
         IN  /\ rcv_buffer_[s] # << >>
             /\ rcv_buffer_' = [rcv_buffer_ EXCEPT ![s] = Tail(rcv_buffer_[s])]
             /\ clientId_socket_' = [clientId_socket_ EXCEPT ![c] =
                                       SocketOf(c, s)]
             /\ IF ~Acceptable(r, s)
                THEN UNCHANGED <<process, pending_client_requests_>>
                ELSE \/ /\ process' = "fatal"
                        /\ UNCHANGED pending_client_requests_
                     \/ /\ pending_client_requests_' =
                              Append(pending_client_requests_,
                                     [recv_time |-> rx_time, request |-> r])
                        /\ UNCHANGED process
  BY DEF recvCallback
<1> DEFINE q == rcv_buffer_[s]
           r == Head(q)
           c == r.clientId_
           new == [recv_time |-> rx_time, request |-> r]
<1>2. q \in Seq(Request) /\ q # << >>
  BY <1>1 DEF SessionInv, Types
<1>3. /\ r \in Request
      /\ r = q[1]
      /\ Len(q) \in Nat \ {0}
      /\ Tail(q) \in Seq(Request)
      /\ Len(Tail(q)) = Len(q) - 1
      /\ \A i \in 1 .. Len(Tail(q)) : Tail(q)[i] = q[i + 1]
  BY <1>2, TailElements
<1>4. \A i \in 1 .. Len(q) : q[i].from = s
  BY DEF SessionInv, CarriesSocket
<1>5. r.from = s /\ c \in Clients
  BY <1>3, <1>4 DEF Request
<1>6. new \in Pending /\ new.request = r
  BY <1>3 DEF Pending, SessionInv, Types
<1>7. /\ rcv_buffer_' = [rcv_buffer_ EXCEPT ![s] = Tail(q)]
      /\ clientId_socket_' = [clientId_socket_ EXCEPT ![c] = SocketOf(c, s)]
      /\ \/ process' \in {process, "fatal"}
            /\ UNCHANGED pending_client_requests_
         \/ /\ SocketOf(c, s) = s
            /\ pending_client_requests_' =
                  Append(pending_client_requests_, new)
            /\ UNCHANGED process
  BY <1>1 DEF Acceptable
<1>8. UNCHANGED <<link, next_outgoing_seq_num_, clock, rx_time, wire,
                  incoming_requests_, forwarded, client_responses_>>
  BY DEF recvCallback, network, queues
<1> HIDE DEF q, r, c, new
<1>9. SocketOf(c, s) \in Sockets
      /\ (clientId_socket_[c] # Null => SocketOf(c, s) = clientId_socket_[c])
  BY <1>5 DEF SocketOf, SessionInv, Types
<1>10. clientId_socket_' \in [Clients -> Sockets \cup {Null}]
       /\ clientId_socket_'[c] = SocketOf(c, s)
       /\ \A d \in Clients : clientId_socket_[d] # Null =>
                                clientId_socket_'[d] = clientId_socket_[d]
  BY <1>5, <1>7, <1>9 DEF SessionInv, Types
<1>11. /\ \A x \in Request : Bound(x) => Bound(x)'
       /\ \A i \in 1 .. Len(incoming_requests_') :
             Bound(incoming_requests_[i])'
       /\ \A i \in 1 .. Len(forwarded') : Bound(forwarded[i])'
       /\ \A i \in 1 .. Len(client_responses_') :
             clientId_socket_'[client_responses_'[i]] # Null
  BY <1>8, <1>10, BoundStays
<1> DEFINE p == pending_client_requests_
<1>12. p \in Seq(Pending)
       /\ \A i \in 1 .. Len(p) :
             clientId_socket_'[p[i].request.clientId_] = p[i].request.from
  <2>1. p \in Seq(Pending)
    BY DEF SessionInv, Types
  <2>2. \A i \in 1 .. Len(p) : p[i] \in Pending /\ Bound(p[i].request)
    BY <2>1 DEF SessionInv, AcceptedBound
  <2>3. \A x \in Pending : x.request \in Request
    BY DEF Pending
  <2>4. \A x \in Request : Bound(x) =>
           clientId_socket_'[x.clientId_] = x.from
    BY <1>11 DEF Bound
  <2> QED BY <2>1, <2>2, <2>3, <2>4
<1>13. /\ pending_client_requests_' \in Seq(Pending)
       /\ \A i \in 1 .. Len(pending_client_requests_') :
             Bound(pending_client_requests_[i].request)'
  <2>1. CASE UNCHANGED pending_client_requests_
    BY <2>1, <1>12 DEF Bound
  <2>2. CASE /\ SocketOf(c, s) = s
             /\ pending_client_requests_' = Append(p, new)
    <3>1. /\ Append(p, new) \in Seq(Pending)
          /\ Len(Append(p, new)) = Len(p) + 1
          /\ \A i \in 1 .. Len(p) : Append(p, new)[i] = p[i]
          /\ Append(p, new)[Len(p) + 1] = new
      BY <1>6, <1>12, AppendElements
    <3>2. clientId_socket_'[new.request.clientId_] = new.request.from
      BY <2>2, <1>5, <1>6, <1>10 DEF c
    <3>3. Len(p) \in Nat
      BY <1>12
    <3>4. SUFFICES ASSUME NEW i \in 1 .. Len(p) + 1
                   PROVE  clientId_socket_'[Append(p, new)[i].request.clientId_]
                             = Append(p, new)[i].request.from
      BY <2>2, <3>1 DEF Bound
    <3>5. CASE i = Len(p) + 1
      BY <3>1, <3>2, <3>5
    <3>6. CASE i \in 1 .. Len(p)
      BY <3>1, <1>12, <3>6
    <3> QED BY <3>3, <3>5, <3>6
  <2> QED BY <2>1, <2>2, <1>7
<1>14. Types'
  BY <1>3, <1>7, <1>8, <1>10, <1>13 DEF SessionInv, Types
<1>15. CarriesSocket'
  <2>1. \A i \in 1 .. Len(Tail(q)) : Tail(q)[i].from = s
    BY <1>3, <1>4
  <2> QED BY <2>1, <1>7, <1>8 DEF SessionInv, Types, CarriesSocket
<1>16. AcceptedBound' /\ AnswerHasSocket'
  BY <1>7, <1>11, <1>13 DEF SessionInv, AcceptedBound, AnswerHasSocket
<1> QED BY <1>14, <1>15, <1>16 DEF SessionInv

\* Sorting and publishing moves bound requests on.
LEMMA sequenceAndPublishKeeps ==
    ASSUME SessionInv, sequenceAndPublish
    PROVE  SessionInv'
<1> DEFINE p == pending_client_requests_
<1>1. UNCHANGED <<link, next_outgoing_seq_num_, clock, rx_time, wire,
                  rcv_buffer_, clientId_socket_, client_responses_, process>>
  BY DEF sequenceAndPublish, network, session
<1>2. p \in Seq(Pending) /\ \A i \in 1 .. Len(p) : Bound(p[i].request)
  BY DEF SessionInv, Types, AcceptedBound
<1>3. CASE UNCHANGED <<incoming_requests_, forwarded,
                       pending_client_requests_>>
  BY <1>1, <1>3 DEF SessionInv, Types, CarriesSocket, AcceptedBound, Bound,
                    AnswerHasSocket
<1>4. CASE ~UNCHANGED <<incoming_requests_, forwarded,
                        pending_client_requests_>>
  <2>1. PICK batch \in Sorted(p) :
           LET requests == [i \in DOMAIN batch |-> batch[i].request]
           IN  /\ incoming_requests_' = incoming_requests_ \o requests
               /\ forwarded' = forwarded \o requests
               /\ pending_client_requests_' = << >>
    BY <1>4 DEF sequenceAndPublish
  <2>2. PICK f \in [DOMAIN p -> DOMAIN p] :
           batch = [i \in DOMAIN p |-> p[f[i]]]
    BY DEF Sorted
  <2> DEFINE requests == [i \in 1 .. Len(p) |-> p[f[i]].request]
  <2>3. DOMAIN p = 1 .. Len(p) /\ Len(p) \in Nat
    BY <1>2
  <2>4. [i \in DOMAIN batch |-> batch[i].request] = requests
    BY <2>2, <2>3
  <2>5. \A i \in 1 .. Len(p) : p[f[i]] \in Pending /\ Bound(p[f[i]].request)
    BY <1>2, <2>3
  <2>6. \A x \in Pending : x.request \in Request
    BY DEF Pending
  <2>7. requests \in Seq(Request) /\ Len(requests) = Len(p)
    BY <2>3, <2>5, <2>6
  <2>8. \A i \in 1 .. Len(requests) : Bound(requests[i])
    BY <2>5, <2>7
  <2>9. /\ incoming_requests_' = incoming_requests_ \o requests
        /\ forwarded' = forwarded \o requests
        /\ pending_client_requests_' = << >>
    BY <2>1, <2>4
  <2> HIDE DEF requests
  <2>10. ASSUME NEW q \in Seq(Request), \A i \in 1 .. Len(q) : Bound(q[i])
         PROVE  /\ q \o requests \in Seq(Request)
                /\ \A i \in 1 .. Len(q \o requests) : Bound((q \o requests)[i])
    <3>1. /\ q \o requests \in Seq(Request)
          /\ \A i \in 1 .. Len(q \o requests) :
                \/ i \in 1 .. Len(q) /\ (q \o requests)[i] = q[i]
                \/ /\ i - Len(q) \in 1 .. Len(requests)
                   /\ (q \o requests)[i] = requests[i - Len(q)]
      BY <2>7, ConcatElements
    <3> QED BY <3>1, <2>8, <2>10
  <2>11. /\ incoming_requests_' \in Seq(Request)
         /\ \A i \in 1 .. Len(incoming_requests_') :
               Bound(incoming_requests_'[i])
    BY <2>9, <2>10 DEF SessionInv, Types, AcceptedBound
  <2>12. /\ forwarded' \in Seq(Request)
         /\ \A i \in 1 .. Len(forwarded') : Bound(forwarded'[i])
    BY <2>9, <2>10 DEF SessionInv, Types, AcceptedBound
  <2>13. /\ pending_client_requests_' \in Seq(Pending)
         /\ Len(pending_client_requests_') = 0
    BY <2>9
  <2>14. Types' /\ CarriesSocket' /\ AnswerHasSocket'
    BY <1>1, <2>11, <2>12, <2>13
    DEF SessionInv, Types, CarriesSocket, AnswerHasSocket
  <2>15. AcceptedBound'
    BY <1>1, <2>11, <2>12, <2>13 DEF SessionInv, AcceptedBound, Bound
  <2> QED BY <2>14, <2>15 DEF SessionInv
<1> QED BY <1>3, <1>4

\* The response that is sent next is for a client with a socket.
LEMMA SendResponseKeeps ==
    ASSUME SessionInv, SendResponse
    PROVE  SessionInv'
<1> DEFINE q == client_responses_
<1>1. UNCHANGED <<link, next_outgoing_seq_num_, clock, rx_time, wire,
                  rcv_buffer_, clientId_socket_, pending_client_requests_,
                  incoming_requests_, forwarded>>
  BY DEF SendResponse, network
<1>2. q \in Seq(Clients) /\ q # << >>
  BY DEF SessionInv, Types, SendResponse
<1>3. /\ Head(q) = q[1]
      /\ Len(q) \in Nat \ {0}
      /\ Tail(q) \in Seq(Clients)
      /\ Len(Tail(q)) = Len(q) - 1
      /\ \A i \in 1 .. Len(Tail(q)) : Tail(q)[i] = q[i + 1]
  BY <1>2, TailElements
<1>4. \A i \in 1 .. Len(q) : clientId_socket_[q[i]] # Null
  BY DEF SessionInv, AcceptedBound
<1>5. clientId_socket_[Head(q)] # Null
  BY <1>3, <1>4
<1>6. client_responses_' = Tail(q) /\ UNCHANGED process
  BY <1>5 DEF SendResponse
<1>7. \A i \in 1 .. Len(Tail(q)) : clientId_socket_[Tail(q)[i]] # Null
  BY <1>3, <1>4
<1> QED
  BY <1>1, <1>3, <1>6, <1>7
  DEF SessionInv, Types, CarriesSocket, AcceptedBound, Bound, AnswerHasSocket

\* The matching engine answers a client whose request was accepted.
LEMMA AnswerKeeps ==
    ASSUME SessionInv, Answer
    PROVE  SessionInv'
<1> DEFINE q == incoming_requests_
           c == Head(q).clientId_
           a == client_responses_
<1>1. UNCHANGED <<link, next_outgoing_seq_num_, clock, rx_time, wire,
                  rcv_buffer_, clientId_socket_, pending_client_requests_,
                  forwarded, process>>
  BY DEF Answer, network, session
<1>2. q \in Seq(Request) /\ q # << >> /\ a \in Seq(Clients)
  BY DEF SessionInv, Types, Answer
<1>3. /\ Head(q) \in Request
      /\ Head(q) = q[1]
      /\ Len(q) \in Nat \ {0}
      /\ Tail(q) \in Seq(Request)
      /\ Len(Tail(q)) = Len(q) - 1
      /\ \A i \in 1 .. Len(Tail(q)) : Tail(q)[i] = q[i + 1]
  BY <1>2, TailElements
<1>4. \A i \in 1 .. Len(q) : Bound(q[i])
  BY DEF SessionInv, AcceptedBound
<1>5. c \in Clients /\ clientId_socket_[c] # Null
  BY <1>3, <1>4, NullAssumption DEF Bound, Request
<1>6. client_responses_' = Append(a, c) /\ incoming_requests_' = Tail(q)
  BY DEF Answer
<1> HIDE DEF c
<1>7. /\ Append(a, c) \in Seq(Clients)
      /\ Len(Append(a, c)) = Len(a) + 1
      /\ \A i \in 1 .. Len(a) : Append(a, c)[i] = a[i]
      /\ Append(a, c)[Len(a) + 1] = c
  BY <1>2, <1>5, AppendElements
<1>8. \A i \in 1 .. Len(a) : clientId_socket_[a[i]] # Null
  BY DEF SessionInv, AcceptedBound
<1>9. \A i \in 1 .. Len(Append(a, c)) : clientId_socket_[Append(a, c)[i]] # Null
  <2> SUFFICES ASSUME NEW i \in 1 .. Len(a) + 1
               PROVE  clientId_socket_[Append(a, c)[i]] # Null
    BY <1>7
  <2>1. Len(a) \in Nat
    BY <1>2
  <2>2. CASE i \in 1 .. Len(a)
    BY <2>2, <1>7, <1>8
  <2>3. CASE i = Len(a) + 1
    BY <2>3, <1>5, <1>7
  <2> QED BY <2>1, <2>2, <2>3
<1>10. \A i \in 1 .. Len(Tail(q)) : Bound(Tail(q)[i])
  BY <1>3, <1>4
<1>11. Types' /\ CarriesSocket' /\ AnswerHasSocket'
  BY <1>1, <1>3, <1>6, <1>7
  DEF SessionInv, Types, CarriesSocket, AnswerHasSocket
<1>12. AcceptedBound'
  BY <1>1, <1>6, <1>9, <1>10 DEF SessionInv, AcceptedBound, Bound
<1> QED BY <1>11, <1>12 DEF SessionInv

\* Steps that touch neither requests nor bindings.
LEMMA QuietKeeps ==
    ASSUME SessionInv,
           link' \in [Clients -> Sockets \cup {Null}],
           next_outgoing_seq_num_' \in [Clients -> Nat],
           rx_time' \in Nat,
           process' # "assert",
           UNCHANGED <<clock, wire, rcv_buffer_, clientId_socket_,
                       pending_client_requests_, incoming_requests_,
                       forwarded, client_responses_>>
    PROVE  SessionInv'
<1>1. Types'
  BY DEF SessionInv, Types
<1>2. CarriesSocket'
  BY DEF SessionInv, CarriesSocket
<1>3. AcceptedBound' /\ AnswerHasSocket'
  BY DEF SessionInv, AcceptedBound, AnswerHasSocket, Bound
<1> QED BY <1>1, <1>2, <1>3 DEF SessionInv

\* A reset keeps or drops what was not read.
LEMMA ResetKeeps ==
    ASSUME SessionInv, NEW s \in Sockets, Reset(s),
           UNCHANGED <<rx_time, rcv_buffer_, clientId_socket_,
                       pending_client_requests_, incoming_requests_,
                       forwarded, client_responses_, process>>
    PROVE  SessionInv'
<1>1. UNCHANGED <<link, next_outgoing_seq_num_, clock>>
  BY DEF Reset
<1>2. wire' = wire \/ wire' = [wire EXCEPT ![s] = << >>]
  BY DEF Reset
<1>3. wire' \in [Sockets -> Seq(Request)]
  <2>1. << >> \in Seq(Request)
    OBVIOUS
  <2>2. wire \in [Sockets -> Seq(Request)]
    BY DEF SessionInv, Types
  <2>3. CASE wire' = wire
    BY <2>2, <2>3
  <2>4. CASE wire' = [wire EXCEPT ![s] = << >>]
    BY <2>1, <2>2, <2>4
  <2> QED BY <2>3, <2>4, <1>2
<1>4. Types' /\ AcceptedBound' /\ AnswerHasSocket'
  BY <1>1, <1>3 DEF SessionInv, Types, AcceptedBound, AnswerHasSocket, Bound
<1>5. \A t \in Sockets : wire'[t] = wire[t] \/ wire'[t] = << >>
  BY <1>2 DEF SessionInv, Types
<1>6. CarriesSocket'
  <2> SUFFICES ASSUME NEW t \in Sockets
               PROVE  /\ \A i \in 1 .. Len(wire'[t]) : wire'[t][i].from = t
                      /\ \A i \in 1 .. Len(rcv_buffer_'[t]) :
                            rcv_buffer_'[t][i].from = t
    BY DEF CarriesSocket
  <2>1. CASE wire'[t] = wire[t]
    BY <2>1 DEF SessionInv, CarriesSocket
  <2>2. CASE wire'[t] = << >>
    BY <2>2 DEF SessionInv, CarriesSocket
  <2> QED BY <2>1, <2>2, <1>5
<1> QED BY <1>4, <1>6 DEF SessionInv

-----------------------------------------------------------------------------
\* Whatever clients do and however the threads are scheduled, an accepted
\* request has come over the one socket its client is bound to.
THEOREM SessionInvariant == Spec => []SessionInv
<1>1. Init => SessionInv
  <2> SUFFICES ASSUME Init PROVE SessionInv
    OBVIOUS
  <2>1. Types
    BY DEF Init, Types
  <2>2. CarriesSocket /\ AcceptedBound /\ AnswerHasSocket
    BY DEF Init, CarriesSocket, AcceptedBound, AnswerHasSocket
  <2> QED BY <2>1, <2>2 DEF SessionInv
<1>2. SessionInv /\ [Next]_vars => SessionInv'
  <2> SUFFICES ASSUME SessionInv, [Next]_vars
               PROVE  SessionInv'
    OBVIOUS
  <2>1. /\ link \in [Clients -> Sockets \cup {Null}]
        /\ next_outgoing_seq_num_ \in [Clients -> Nat]
        /\ rx_time \in Nat
        /\ process # "assert"
    BY DEF SessionInv, Types, AnswerHasSocket
  <2>2. CASE Client
    <3>1. UNCHANGED <<rx_time, rcv_buffer_, clientId_socket_,
                      pending_client_requests_, incoming_requests_,
                      forwarded, client_responses_, process>>
      BY <2>2 DEF Client, session, queues
    <3>2. CASE \E c \in Clients, s \in Sockets : Connect(c, s)
      BY <2>1, <3>1, <3>2, QuietKeeps DEF Connect
    <3>3. CASE \E c \in Clients : SendRequest(c)
      BY <3>1, <3>3, SendRequestKeeps
    <3>4. CASE \E c \in Clients : Disconnect(c)
      BY <2>1, <3>1, <3>4, QuietKeeps DEF Disconnect
    <3>5. CASE \E s \in Sockets : Reset(s)
      BY <3>1, <3>5, ResetKeeps
    <3> QED BY <2>2, <3>2, <3>3, <3>4, <3>5 DEF Client
  <2>3. CASE poll
    BY <2>1, <2>3, QuietKeeps DEF poll, session, queues
  <2>4. CASE Receive
    BY <2>4, ReceiveKeeps
  <2>5. CASE ReceiveNothing
    <3>1. process' # "assert"
      BY <2>1, <2>5 DEF ReceiveNothing, Transmit
    <3> QED
      BY <2>1, <2>5, <3>1, QuietKeeps
      DEF ReceiveNothing, network, session, queues
  <2>6. CASE recvCallback
    BY <2>6, recvCallbackKeeps
  <2>7. CASE recvCallbackReturns
    <3>1. process' # "assert" /\ rx_time' = 0
      BY <2>1, <2>7 DEF recvCallbackReturns, Transmit
    <3> QED
      BY <2>1, <2>7, <3>1, QuietKeeps
      DEF recvCallbackReturns, network, session, queues
  <2>8. CASE sequenceAndPublish
    BY <2>8, sequenceAndPublishKeeps
  <2>9. CASE SendResponse
    BY <2>9, SendResponseKeeps
  <2>10. CASE RoundEnds
    BY <2>1, <2>10, QuietKeeps DEF RoundEnds, network, session, queues
  <2>11. CASE Answer
    BY <2>11, AnswerKeeps
  <2>12. CASE UNCHANGED vars
    BY <2>1, <2>12, QuietKeeps DEF vars, network, session, queues
  <2> QED
    BY <2>2, <2>3, <2>4, <2>5, <2>6, <2>7, <2>8, <2>9, <2>10, <2>11, <2>12
    DEF Next, Server
<1> QED BY <1>1, <1>2, PTL DEF Spec

\* Everything a client ever got executed came over one connection, for every
\* number of clients, sockets and requests and every sort.
THEOREM OneSocket == Spec => []OneSocketPerClient
<1>1. SessionInv => OneSocketPerClient
  <2> SUFFICES ASSUME SessionInv, NEW i \in DOMAIN forwarded
               PROVE  forwarded[i].from
                         = clientId_socket_[forwarded[i].clientId_]
    BY DEF OneSocketPerClient
  <2>1. i \in 1 .. Len(forwarded)
    BY DEF SessionInv, Types
  <2> QED BY <2>1 DEF SessionInv, AcceptedBound, Bound
<1> QED BY <1>1, SessionInvariant, PTL

\* The assertion in OrderServer::run() never fires: whoever gets a response
\* has a socket.
THEOREM ResponseHasSocket == Spec => []AnswerHasSocket
  BY SessionInvariant, PTL DEF SessionInv

-----------------------------------------------------------------------------
(* The whole type invariant, and that every round hands over what it read. *)

\* What std::remove() leaves of recv_sockets_.
LEMMA StillConnectedElements ==
    ASSUME recv_sockets_ \in Seq(Sockets), NEW still \in StillConnected
    PROVE  /\ still \in Seq(Sockets)
           /\ Elements(still) = Elements(recv_sockets_) \ disconnected_sockets_
<1> DEFINE kept == {i \in DOMAIN recv_sockets_ :
                      recv_sockets_[i] \notin disconnected_sockets_}
           n == Cardinality(kept)
<1>1. n \in Nat
  <2>1. IsFiniteSet(1 .. Len(recv_sockets_))
    BY FS_Interval
  <2>2. kept \subseteq 1 .. Len(recv_sockets_)
    OBVIOUS
  <2> QED BY <2>1, <2>2, FS_Subset, FS_CardinalityType
<1>2. PICK p \in [1 .. n -> kept] :
         /\ still = [i \in 1 .. n |-> recv_sockets_[p[i]]]
         /\ \A k \in kept : \E i \in 1 .. n : p[i] = k
  BY DEF StillConnected
<1>3. \A k \in kept : /\ k \in DOMAIN recv_sockets_
                      /\ recv_sockets_[k] \in Sockets
                      /\ recv_sockets_[k] \notin disconnected_sockets_
  OBVIOUS
<1>4. \A k \in DOMAIN recv_sockets_ :
         recv_sockets_[k] \notin disconnected_sockets_ => k \in kept
  OBVIOUS
<1> HIDE DEF kept, n
<1>5. still \in Seq(Sockets) /\ DOMAIN still = 1 .. n
  BY <1>1, <1>2, <1>3
<1>6. \A i \in 1 .. n : still[i] = recv_sockets_[p[i]] /\ p[i] \in kept
  BY <1>2
<1>7. \A x \in Elements(still) :
         x \in Elements(recv_sockets_) /\ x \notin disconnected_sockets_
  BY <1>3, <1>5, <1>6 DEF Elements
<1>8. ASSUME NEW x \in Elements(recv_sockets_), x \notin disconnected_sockets_
      PROVE  x \in Elements(still)
  <2>1. PICK k \in DOMAIN recv_sockets_ : recv_sockets_[k] = x
    BY DEF Elements
  <2>2. PICK i \in 1 .. n : p[i] = k
    BY <2>1, <1>2, <1>4, <1>8
  <2> QED BY <2>1, <2>2, <1>5, <1>6 DEF Elements
<1> QED BY <1>5, <1>7, <1>8

\* The rest of the types: what SessionInv does not speak of.
OtherTypes ==
    /\ backlog \in Seq(Sockets)
    /\ reset \subseteq Sockets
    /\ recv_sockets_ \in Seq(Sockets)
    /\ disconnected_sockets_ \subseteq Sockets
    /\ partial \in [Sockets -> BOOLEAN]
    /\ send_buffer_ \in [Sockets -> Nat]
    /\ pc \in {"poll", "recv", "callback", "respond"}
    /\ turn \in Nat
    /\ recv \in BOOLEAN
    /\ clientId_outgoing_seqNum_ \in [Clients -> Nat]
    /\ Len(pending_client_requests_) <= MaxPending
    /\ process \in {"running", "fatal", "assert", "spinning"}
    /\ sent \in [Clients -> Nat]
    /\ longest \in Nat

\* Clients and the network touch only what arrives.
LEMMA ClientOtherTypes ==
    ASSUME OtherTypes, Client
    PROVE  OtherTypes'
<1>1. UNCHANGED <<recv_sockets_, disconnected_sockets_, partial, send_buffer_,
                  pc, turn, recv, clientId_outgoing_seqNum_,
                  pending_client_requests_, process, sent, longest>>
  BY DEF Client, sockets, session, queues
<1>2. backlog' \in Seq(Sockets) /\ reset' \subseteq Sockets
  <2>1. CASE \E c \in Clients, s \in Sockets : Connect(c, s)
    BY <2>1 DEF Connect, OtherTypes
  <2>2. CASE \E c \in Clients : SendRequest(c) \/ Disconnect(c)
    BY <2>2 DEF SendRequest, Disconnect, OtherTypes
  <2>3. CASE \E s \in Sockets : Reset(s)
    BY <2>3 DEF Reset, OtherTypes
  <2> QED BY <2>1, <2>2, <2>3 DEF Client
<1> QED BY <1>1, <1>2 DEF OtherTypes

\* TCPServer::poll() keeps lists of sockets.
LEMMA pollOtherTypes ==
    ASSUME OtherTypes, poll
    PROVE  OtherTypes'
<1>1. UNCHANGED <<reset, partial, send_buffer_, turn, recv,
                  clientId_outgoing_seqNum_, pending_client_requests_, process,
                  sent, longest>>
      /\ pc' = "recv"
  BY DEF poll, session, queues
<1>2. PICK still \in StillConnected :
         /\ recv_sockets_' = still \o backlog \/ recv_sockets_' = still
         /\ backlog' = << >> \/ backlog' = backlog
         /\ \/ disconnected_sockets_' = disconnected_sockets_
            \/ \E s \in reset : disconnected_sockets_' = disconnected_sockets_ \cup {s}
  BY DEF poll
<1>3. still \in Seq(Sockets) /\ backlog \in Seq(Sockets)
  BY StillConnectedElements DEF OtherTypes
<1>4. recv_sockets_' \in Seq(Sockets) /\ backlog' \in Seq(Sockets)
  <2>1. still \o backlog \in Seq(Sockets) /\ << >> \in Seq(Sockets)
    BY <1>3, ConcatElements
  <2> QED BY <2>1, <1>2, <1>3
<1>5. disconnected_sockets_' \subseteq Sockets
  BY <1>2 DEF OtherTypes
<1> QED BY <1>1, <1>4, <1>5 DEF OtherTypes

\* Sending from the buffer of a socket empties it or never ends.
LEMMA TransmitTypes ==
    ASSUME OtherTypes, NEW s \in Sockets, Transmit(s)
    PROVE  /\ send_buffer_' \in [Sockets -> Nat]
           /\ process' \in {"running", "fatal", "assert", "spinning"}
<1>1. \/ /\ send_buffer_' = send_buffer_
         /\ process' = "spinning"
      \/ /\ send_buffer_' = [send_buffer_ EXCEPT ![s] = 0]
         /\ process' = process
  BY DEF Transmit
<1>2. send_buffer_ \in [Sockets -> Nat]
  BY DEF OtherTypes
<1>3. [send_buffer_ EXCEPT ![s] = 0] \in [Sockets -> Nat]
  BY <1>2
<1>4. process \in {"running", "fatal", "assert", "spinning"}
  BY DEF OtherTypes
<1> QED BY <1>1, <1>2, <1>3, <1>4

\* The sequencer takes a request only when there is room for it.
LEMMA recvCallbackOtherTypes ==
    ASSUME SessionInv, OtherTypes, recvCallback
    PROVE  OtherTypes'
<1>1. UNCHANGED <<backlog, reset, recv_sockets_, disconnected_sockets_, partial,
                  send_buffer_, pc, turn, recv, sent, longest>>
  BY DEF recvCallback, network, sockets, queues
<1>2. /\ process' \in {process, "fatal"}
      /\ \/ UNCHANGED pending_client_requests_
         \/ /\ ~TooManyPending
            /\ \E x : pending_client_requests_' =
                         Append(pending_client_requests_, x)
      /\ \/ UNCHANGED clientId_outgoing_seqNum_
         \/ \E c : clientId_outgoing_seqNum_' =
               [clientId_outgoing_seqNum_ EXCEPT
                  ![c] = clientId_outgoing_seqNum_[c] + 1]
  BY DEF recvCallback
<1>3. Len(pending_client_requests_') <= MaxPending
  <2>1. /\ pending_client_requests_ \in Seq(Pending)
        /\ Len(pending_client_requests_) <= MaxPending
    BY DEF SessionInv, Types, OtherTypes
  <2>2. CASE UNCHANGED pending_client_requests_
    BY <2>1, <2>2
  <2>3. CASE /\ ~TooManyPending
             /\ \E x : pending_client_requests_' =
                          Append(pending_client_requests_, x)
    <3>1. Len(pending_client_requests_') = Len(pending_client_requests_) + 1
      BY <2>1, <2>3
    <3> QED BY <3>1, <2>1, <2>3, MaxPendingAssumption DEF TooManyPending
  <2> QED BY <2>2, <2>3, <1>2
<1>4. clientId_outgoing_seqNum_' \in [Clients -> Nat]
  <2>1. clientId_outgoing_seqNum_ \in [Clients -> Nat]
    BY DEF OtherTypes
  <2>2. ASSUME NEW c, clientId_outgoing_seqNum_' =
                         [clientId_outgoing_seqNum_ EXCEPT
                            ![c] = clientId_outgoing_seqNum_[c] + 1]
        PROVE  clientId_outgoing_seqNum_' \in [Clients -> Nat]
    <3>1. CASE c \in Clients
      BY <3>1, <2>1, <2>2
    <3>2. CASE c \notin Clients
      BY <3>2, <2>1, <2>2
    <3> QED BY <3>1, <3>2
  <2> QED BY <2>1, <2>2, <1>2
<1> QED BY <1>1, <1>2, <1>3, <1>4 DEF OtherTypes

\* A response is counted for a client and put into the buffer of its socket.
LEMMA SendResponseOtherTypes ==
    ASSUME SessionInv, OtherTypes, SendResponse
    PROVE  OtherTypes'
<1> DEFINE c == Head(client_responses_)
           s == clientId_socket_[c]
<1>1. UNCHANGED <<backlog, reset, recv_sockets_, disconnected_sockets_, partial,
                  pc, turn, recv, pending_client_requests_, longest>>
  BY DEF SendResponse, network, sockets
<1>2. c \in Clients
  BY TailElements DEF SessionInv, Types, SendResponse
<1>3. CASE s = Null
  BY <1>1, <1>3 DEF SendResponse, OtherTypes
<1>4. CASE s # Null
  <2>1. s \in Sockets
    BY <1>2, <1>4 DEF SessionInv, Types
  <2>2. /\ send_buffer_' = [send_buffer_ EXCEPT ![s] = send_buffer_[s] + 1]
        /\ sent' = [sent EXCEPT ![c] = sent[c] + 1]
        /\ clientId_outgoing_seqNum_' =
              [clientId_outgoing_seqNum_ EXCEPT
                 ![c] = clientId_outgoing_seqNum_[c] + 1]
        /\ UNCHANGED process
    BY <1>4 DEF SendResponse
  <2> HIDE DEF c, s
  <2> QED BY <2>1, <2>2, <1>1, <1>2 DEF OtherTypes
<1> QED BY <1>3, <1>4

\* The longest batch is as long as what was pending.
LEMMA sequenceAndPublishOtherTypes ==
    ASSUME SessionInv, OtherTypes, sequenceAndPublish
    PROVE  OtherTypes'
<1> DEFINE p == pending_client_requests_
<1>1. UNCHANGED <<backlog, reset, recv_sockets_, disconnected_sockets_, partial,
                  send_buffer_, clientId_outgoing_seqNum_, process, sent>>
      /\ pc' = "respond" /\ turn' = 1 /\ recv' = FALSE
  BY DEF sequenceAndPublish, network, sockets, session
<1>2. p \in Seq(Pending) /\ Len(p) \in Nat /\ DOMAIN p = 1 .. Len(p)
  BY DEF SessionInv, Types
<1>3. CASE UNCHANGED <<p, longest>>
  BY <1>1, <1>3 DEF OtherTypes
<1>4. CASE ~UNCHANGED <<p, longest>>
  <2>1. PICK batch \in Sorted(p) :
           /\ p' = << >>
           /\ longest' = IF Len(batch) > longest THEN Len(batch) ELSE longest
    BY <1>4 DEF sequenceAndPublish
  <2>2. PICK f \in [DOMAIN p -> DOMAIN p] : batch = [i \in DOMAIN p |-> p[f[i]]]
    BY DEF Sorted
  <2>3. \A i \in 1 .. Len(p) : p[f[i]] \in Pending
    BY <1>2
  <2>4. batch \in Seq(Pending) /\ Len(batch) = Len(p)
    BY <2>2, <2>3, <1>2
  <2>5. longest' \in Nat
    BY <2>1, <2>4, <1>2 DEF OtherTypes
  <2>6. Len(p') <= MaxPending
    BY <2>1, MaxPendingAssumption
  <2> QED BY <2>5, <2>6, <1>1 DEF OtherTypes
<1> QED BY <1>3, <1>4

\* Every variable keeps its type, for every number of clients and sockets, and
\* the sequencer never holds more than ME_MAX_PENDING_REQUESTS requests.
THEOREM TypeCorrect == Spec => []TypeOK
<1>1. Init => OtherTypes
  <2> SUFFICES ASSUME Init PROVE OtherTypes
    OBVIOUS
  <2>1. partial \in [Sockets -> BOOLEAN] /\ recv \in BOOLEAN
    BY Zenon DEF Init
  <2> QED BY <2>1, MaxPendingAssumption DEF Init, OtherTypes
<1>2. SessionInv /\ OtherTypes /\ [Next]_vars => OtherTypes'
  <2> SUFFICES ASSUME SessionInv, OtherTypes, [Next]_vars
               PROVE  OtherTypes'
    OBVIOUS
  <2>1. CASE Client
    BY <2>1, ClientOtherTypes
  <2>2. CASE poll
    BY <2>2, pollOtherTypes
  <2>3. CASE Receive
    <3>1. partial' \in [Sockets -> BOOLEAN]
      <4>1. PICK s \in Sockets :
               \E whole \in {Len(wire[s]), Len(wire[s]) - 1} :
                  partial' = [partial EXCEPT ![s] = whole < Len(wire[s])]
        BY <2>3 DEF Receive
      <4>2. PICK whole \in {Len(wire[s]), Len(wire[s]) - 1} :
               partial' = [partial EXCEPT ![s] = whole < Len(wire[s])]
        BY <4>1
      <4>3. ASSUME NEW b \in BOOLEAN
            PROVE  [partial EXCEPT ![s] = b] \in [Sockets -> BOOLEAN]
        BY Zenon DEF OtherTypes
      <4>4. Len(wire[s]) \in Int /\ whole \in Int
        BY DEF SessionInv, Types
      <4>5. (whole < Len(wire[s])) \in BOOLEAN
        BY <4>4
      <4> QED BY <4>2, <4>3, <4>5, Zenon
    <3>2. UNCHANGED <<backlog, reset, recv_sockets_, disconnected_sockets_,
                      send_buffer_, turn, clientId_outgoing_seqNum_,
                      pending_client_requests_, process, sent, longest>>
          /\ pc' = "callback" /\ recv' = TRUE
      BY <2>3 DEF Receive, sockets, session, queues
    <3> QED BY <3>1, <3>2 DEF OtherTypes
  <2>4. CASE ReceiveNothing
    <3>1. PICK s \in Sockets : Transmit(s)
      BY <2>4 DEF ReceiveNothing
    <3>2. UNCHANGED <<backlog, reset, recv_sockets_, disconnected_sockets_,
                      partial, pc, recv, clientId_outgoing_seqNum_,
                      pending_client_requests_, sent, longest>>
          /\ turn' = turn + 1
      BY <2>4 DEF ReceiveNothing, network, sockets, session, queues
    <3> QED BY <3>1, <3>2, TransmitTypes DEF OtherTypes
  <2>5. CASE recvCallback
    BY <2>5, recvCallbackOtherTypes
  <2>6. CASE recvCallbackReturns
    <3>1. PICK s \in Sockets : Transmit(s)
      BY <2>6 DEF recvCallbackReturns
    <3>2. UNCHANGED <<backlog, reset, recv_sockets_, disconnected_sockets_,
                      partial, recv, clientId_outgoing_seqNum_,
                      pending_client_requests_, sent, longest>>
          /\ turn' = turn + 1 /\ pc' = "recv"
      BY <2>6 DEF recvCallbackReturns, network, sockets, session, queues
    <3> QED BY <3>1, <3>2, TransmitTypes DEF OtherTypes
  <2>7. CASE sequenceAndPublish
    BY <2>7, sequenceAndPublishOtherTypes
  <2>8. CASE SendResponse
    BY <2>8, SendResponseOtherTypes
  <2>9. CASE RoundEnds
    BY <2>9 DEF RoundEnds, OtherTypes, network, sockets, session, queues
  <2>10. CASE Answer
    BY <2>10 DEF Answer, OtherTypes, network, sockets, session
  <2>11. CASE UNCHANGED vars
    BY <2>11 DEF vars, OtherTypes, network, sockets, session, queues
  <2> QED BY <2>1, <2>2, <2>3, <2>4, <2>5, <2>6, <2>7, <2>8, <2>9, <2>10, <2>11
          DEF Next, Server
<1>3. SessionInv /\ OtherTypes => TypeOK
  BY DEF SessionInv, Types, OtherTypes, Pending, TypeOK
<1> QED BY <1>1, <1>2, <1>3, SessionInvariant, PTL DEF Spec

\* recv tells whether there may be something to hand over.
FlushInv ==
    /\ RoundFlushed
    /\ pending_client_requests_ # << >> => recv = TRUE
    /\ pc = "callback" => recv = TRUE

\* No accepted request stays behind in the sequencer when the thread turns to
\* the responses, however the rounds of reading went (sendAndRecv()).
THEOREM EveryRoundFlushes == Spec => []RoundFlushed
<1>1. Init => FlushInv
  BY DEF Init, FlushInv, RoundFlushed
<1>2. FlushInv /\ [Next]_vars => FlushInv'
  <2> SUFFICES ASSUME FlushInv, [Next]_vars
               PROVE  FlushInv'
    OBVIOUS
  <2>1. CASE Client \/ Answer \/ UNCHANGED vars
    <3>1. UNCHANGED <<pc, recv, pending_client_requests_>>
      BY <2>1 DEF Client, Answer, vars
    <3> QED BY <3>1 DEF FlushInv, RoundFlushed
  <2>2. CASE poll \/ RoundEnds
    <3>1. /\ UNCHANGED <<recv, pending_client_requests_>>
          /\ pc \in {"poll", "respond"}
          /\ pc' \in {"recv", "poll"}
      BY <2>2 DEF poll, RoundEnds
    <3> QED BY <3>1 DEF FlushInv, RoundFlushed
  <2>3. CASE Receive
    BY <2>3 DEF Receive, FlushInv, RoundFlushed
  <2>4. CASE ReceiveNothing
    BY <2>4 DEF ReceiveNothing, FlushInv, RoundFlushed
  <2>5. CASE recvCallback
    BY <2>5 DEF recvCallback, FlushInv, RoundFlushed
  <2>6. CASE recvCallbackReturns
    BY <2>6 DEF recvCallbackReturns, FlushInv, RoundFlushed
  <2>7. CASE sequenceAndPublish
    <3>1. recv' = FALSE /\ pc' = "respond"
      BY <2>7 DEF sequenceAndPublish
    <3>2. pending_client_requests_' = << >>
      BY <2>7 DEF sequenceAndPublish, FlushNeeded, FlushInv
    <3> QED BY <3>1, <3>2 DEF FlushInv, RoundFlushed
  <2>8. CASE SendResponse
    BY <2>8 DEF SendResponse, FlushInv, RoundFlushed
  <2> QED BY <2>1, <2>2, <2>3, <2>4, <2>5, <2>6, <2>7, <2>8 DEF Next, Server
<1> QED BY <1>1, <1>2, PTL DEF Spec, FlushInv

-----------------------------------------------------------------------------
(* The order of a client's requests.                                       *)
(*                                                                         *)
(* A request moves from the wire through the buffer of its socket and the  *)
(* sequencer to the matching engine.  What is further on its way has a     *)
(* smaller number than what comes behind it, if it is of the same client   *)
(* and came over the same socket.  Numbers start again at 1 only on a      *)
(* socket that was never used.  In the sequencer the requests of a socket  *)
(* are in the order of their times, so that a stable sort keeps them.      *)

Before(a, b) ==
    a.clientId_ = b.clientId_ /\ a.from = b.from => a.seq_num < b.seq_num

InOrder(q) == \A i, j \in 1 .. Len(q) : i < j => Before(q[i], q[j])
Precede(A, B) == \A a \in A, b \in B : Before(a, b)

\* The requests in the buffers of a socket, in the sequencer, and handed over.
OnWire(s) == Elements(wire[s])
Buffered(s) == Elements(rcv_buffer_[s])
Waiting == {x.request : x \in Elements(pending_client_requests_)}
Done == Elements(forwarded)

LineInOrder(s) ==
    /\ InOrder(wire[s])
    /\ InOrder(rcv_buffer_[s])
    /\ Precede(Buffered(s), OnWire(s))
    /\ Precede(Waiting \cup Done, Buffered(s) \cup OnWire(s))

WaitingInOrder ==
    \A i, j \in 1 .. Len(pending_client_requests_) : i < j =>
        LET x == pending_client_requests_[i]
            y == pending_client_requests_[j]
        IN  /\ Before(x.request, y.request)
            /\ x.request.from = y.request.from => x.recv_time <= y.recv_time

Ordered ==
    /\ \A s \in Sockets : LineInOrder(s)
    /\ WaitingInOrder
    /\ Precede(Done, Waiting)
    /\ longest <= StableLimit => InOrder(forwarded)

\* Everything that came over socket s and was not lost.
Of(s) == {a \in OnWire(s) \cup Buffered(s) \cup Waiting \cup Done : a.from = s}

NumbersGrow ==
    \A c \in Clients : link[c] # Null =>
        \A a \in Of(link[c]) : a.clientId_ = c =>
                                  a.seq_num < next_outgoing_seq_num_[c]

Used(s) == s \in Elements(backlog) \cup Elements(recv_sockets_) \cup reset

FreshSockets ==
    /\ disconnected_sockets_ \subseteq reset
    /\ \A c \in Clients : link[c] # Null => Used(link[c])
    /\ \A s \in Sockets : ~Used(s) => Of(s) = {}

\* A request is stamped with a time no later than what its socket brings next.
TimesAgree ==
    LET pending == Elements(pending_client_requests_)
    IN  /\ \A s \in Sockets : \A a \in OnWire(s) : a.arrival <= clock
        /\ \A x \in pending :
              /\ x.recv_time <= clock
              /\ \A a \in OnWire(x.request.from) : x.recv_time <= a.arrival
        /\ pc = "callback" =>
              \A s \in Sockets : InTurn(s) =>
                 /\ rx_time <= clock
                 /\ \A a \in OnWire(s) : rx_time <= a.arrival
                 /\ \A x \in pending : x.request.from = s => x.recv_time <= rx_time

OrderInv ==
    /\ Ordered
    /\ NumbersGrow
    /\ FreshSockets
    /\ TimesAgree

\* The elements of a sequence are found at its indices.
LEMMA ElementsIndexed ==
    ASSUME NEW S, NEW q \in Seq(S)
    PROVE  /\ Elements(q) \subseteq S
           /\ \A x : x \in Elements(q) <=> \E i \in 1 .. Len(q) : x = q[i]
           /\ Len(q) \in Nat
  BY DEF Elements

\* Append() adds one element.
LEMMA AppendSet ==
    ASSUME NEW S, NEW q \in Seq(S), NEW e \in S
    PROVE  Elements(Append(q, e)) = Elements(q) \cup {e}
<1> DEFINE p == Append(q, e)
<1>1. /\ p \in Seq(S)
      /\ Len(p) = Len(q) + 1
      /\ \A i \in 1 .. Len(q) : p[i] = q[i]
      /\ p[Len(q) + 1] = e
      /\ Len(q) \in Nat
  BY AppendElements
<1> HIDE DEF p
<1>2. /\ \A i \in 1 .. Len(p) : i \in 1 .. Len(q) \/ i = Len(q) + 1
      /\ \A i \in 1 .. Len(q) : i \in 1 .. Len(p)
      /\ Len(q) + 1 \in 1 .. Len(p)
  BY <1>1
<1>3. \A x : x \in Elements(p) <=> \E i \in 1 .. Len(p) : x = p[i]
  BY <1>1, ElementsIndexed
<1>4. \A x : x \in Elements(q) <=> \E i \in 1 .. Len(q) : x = q[i]
  BY ElementsIndexed
<1>5. \A i \in 1 .. Len(p) : p[i] \in Elements(q) \cup {e}
  BY <1>1, <1>2, <1>4
<1> QED BY <1>1, <1>2, <1>3, <1>4, <1>5 DEF p

\* An element that is appended comes after all others.
LEMMA AppendInOrder ==
    ASSUME NEW S, NEW q \in Seq(S), NEW e \in S, InOrder(q), Precede(Elements(q), {e})
    PROVE  InOrder(Append(q, e))
<1> DEFINE p == Append(q, e)
<1>1. /\ Len(p) = Len(q) + 1
      /\ \A i \in 1 .. Len(q) : p[i] = q[i]
      /\ p[Len(q) + 1] = e
      /\ Len(q) \in Nat
  BY AppendElements
<1> HIDE DEF p
<1> SUFFICES ASSUME NEW i \in 1 .. Len(p), NEW j \in 1 .. Len(p), i < j
             PROVE  Before(p[i], p[j])
  BY DEF InOrder, p
<1>2. i \in 1 .. Len(q) /\ p[i] = q[i]
  BY <1>1
<1>3. CASE j = Len(q) + 1
  <2>1. q[i] \in Elements(q)
    BY <1>2, ElementsIndexed
  <2> QED BY <2>1, <1>1, <1>2, <1>3 DEF Precede
<1>4. CASE j \in 1 .. Len(q)
  BY <1>1, <1>2, <1>4 DEF InOrder
<1> QED BY <1>1, <1>3, <1>4

\* The first element comes before the others.
LEMMA TailSet ==
    ASSUME NEW S, NEW q \in Seq(S), q # << >>
    PROVE  /\ Head(q) \in Elements(q)
           /\ Elements(Tail(q)) \subseteq Elements(q)
           /\ InOrder(q) => InOrder(Tail(q)) /\ Precede({Head(q)}, Elements(Tail(q)))
<1> DEFINE p == Tail(q)
<1>1. /\ Head(q) = q[1]
      /\ Len(q) \in Nat \ {0}
      /\ p \in Seq(S)
      /\ Len(p) = Len(q) - 1
      /\ \A i \in 1 .. Len(p) : p[i] = q[i + 1]
  BY TailElements
<1> HIDE DEF p
<1>2. \A i \in 1 .. Len(p) : i + 1 \in 1 .. Len(q) /\ 1 \in 1 .. Len(q) /\ 1 < i + 1
  BY <1>1
<1>3. Head(q) \in Elements(q)
  BY <1>1, ElementsIndexed
<1>4. \A x : x \in Elements(p) <=> \E i \in 1 .. Len(p) : x = p[i]
  BY <1>1, ElementsIndexed
<1>5. \A x : x \in Elements(q) <=> \E i \in 1 .. Len(q) : x = q[i]
  BY ElementsIndexed
<1>6. Elements(p) \subseteq Elements(q)
  BY <1>1, <1>2, <1>4, <1>5
<1>7. ASSUME InOrder(q)
      PROVE  InOrder(p) /\ Precede({Head(q)}, Elements(p))
  <2>1. InOrder(p)
    <3> SUFFICES ASSUME NEW i \in 1 .. Len(p), NEW j \in 1 .. Len(p), i < j
                 PROVE  Before(p[i], p[j])
      BY DEF InOrder
    <3>1. i + 1 < j + 1 /\ p[i] = q[i + 1] /\ p[j] = q[j + 1]
      BY <1>1
    <3> QED BY <3>1, <1>2, <1>7 DEF InOrder
  <2>2. Precede({Head(q)}, Elements(p))
    BY <1>1, <1>2, <1>4, <1>7 DEF InOrder, Precede
  <2> QED BY <2>1, <2>2
<1> QED BY <1>3, <1>6, <1>7 DEF p

\* A sequence is cut in two.
LEMMA CutSet ==
    ASSUME NEW S, NEW q \in Seq(S), NEW k \in 0 .. Len(q), InOrder(q)
    PROVE  LET a == SubSeq(q, 1, k)
               b == SubSeq(q, k + 1, Len(q))
           IN  /\ Elements(a) \cup Elements(b) \subseteq Elements(q)
               /\ InOrder(a)
               /\ InOrder(b)
               /\ Precede(Elements(a), Elements(b))
<1> DEFINE a == SubSeq(q, 1, k)
           b == SubSeq(q, k + 1, Len(q))
<1>1. /\ Len(q) \in Nat
      /\ 1 \in 1 .. Len(q) + 1
      /\ k + 1 \in 1 .. Len(q) + 1
      /\ Len(q) \in 0 .. Len(q)
  OBVIOUS
<1>2. /\ a \in Seq(S)
      /\ Len(a) = k
      /\ \A i \in 1 .. Len(a) : 1 + i - 1 \in 1 .. Len(q) /\ a[i] = q[1 + i - 1]
  BY <1>1, SubSeqElements
<1>3. /\ b \in Seq(S)
      /\ \A i \in 1 .. Len(b) : /\ k + 1 + i - 1 \in 1 .. Len(q)
                                /\ b[i] = q[k + 1 + i - 1]
  BY <1>1, SubSeqElements
<1> HIDE DEF a, b
<1>4. /\ \A x : x \in Elements(a) <=> \E i \in 1 .. Len(a) : x = a[i]
      /\ \A x : x \in Elements(b) <=> \E i \in 1 .. Len(b) : x = b[i]
      /\ \A x : x \in Elements(q) <=> \E i \in 1 .. Len(q) : x = q[i]
      /\ Len(b) \in Nat
  BY <1>2, <1>3, ElementsIndexed
<1>5. Elements(a) \subseteq Elements(q)
  BY <1>2, <1>4
<1>6. Elements(b) \subseteq Elements(q)
  BY <1>3, <1>4
<1>7. InOrder(a)
  <2> SUFFICES ASSUME NEW i \in 1 .. Len(a), NEW j \in 1 .. Len(a), i < j
               PROVE  Before(a[i], a[j])
    BY DEF InOrder
  <2>1. 1 + i - 1 < 1 + j - 1
    BY <1>2
  <2> QED BY <2>1, <1>2 DEF InOrder
<1>8. InOrder(b)
  <2> SUFFICES ASSUME NEW i \in 1 .. Len(b), NEW j \in 1 .. Len(b), i < j
               PROVE  Before(b[i], b[j])
    BY DEF InOrder
  <2>1. k + 1 + i - 1 < k + 1 + j - 1
    BY <1>4
  <2> QED BY <2>1, <1>3 DEF InOrder
<1>9. Precede(Elements(a), Elements(b))
  <2> SUFFICES ASSUME NEW x \in Elements(a), NEW y \in Elements(b)
               PROVE  Before(x, y)
    BY DEF Precede
  <2>1. PICK i \in 1 .. Len(a) : x = a[i]
    BY <1>4
  <2>2. PICK j \in 1 .. Len(b) : y = b[j]
    BY <1>4
  <2>3. 1 + i - 1 < k + 1 + j - 1
    BY <1>2, <1>4
  <2> QED BY <2>1, <2>2, <2>3, <1>2, <1>3 DEF InOrder
<1> QED BY <1>5, <1>6, <1>7, <1>8, <1>9 DEF a, b

\* One sequence after another.
LEMMA ConcatSet ==
    ASSUME NEW S, NEW q \in Seq(S), NEW p \in Seq(S)
    PROVE  /\ Elements(q \o p) \subseteq Elements(q) \cup Elements(p)
           /\ Elements(q) \cup Elements(p) \subseteq Elements(q \o p)
           /\ InOrder(q) /\ InOrder(p) /\ Precede(Elements(q), Elements(p)) =>
                 InOrder(q \o p)
<1> DEFINE r == q \o p
<1>1. /\ r \in Seq(S)
      /\ Len(q) \in Nat
      /\ Len(p) \in Nat
      /\ Len(r) = Len(q) + Len(p)
      /\ \A i \in 1 .. Len(q) : r[i] = q[i]
      /\ \A i \in 1 .. Len(p) : r[Len(q) + i] = p[i]
  OBVIOUS
<1>2. \A i \in 1 .. Len(r) :
         \/ i \in 1 .. Len(q) /\ r[i] = q[i]
         \/ /\ i - Len(q) \in 1 .. Len(p)
            /\ r[i] = p[i - Len(q)]
  BY ConcatElements
<1> HIDE DEF r
<1>3. /\ \A x : x \in Elements(q) <=> \E i \in 1 .. Len(q) : x = q[i]
      /\ \A x : x \in Elements(p) <=> \E i \in 1 .. Len(p) : x = p[i]
      /\ \A x : x \in Elements(r) <=> \E i \in 1 .. Len(r) : x = r[i]
  BY <1>1, ElementsIndexed
<1>4. Elements(r) \subseteq Elements(q) \cup Elements(p)
  BY <1>2, <1>3
<1>5. Elements(q) \cup Elements(p) \subseteq Elements(r)
  <2>1. ASSUME NEW i \in 1 .. Len(q)
        PROVE  q[i] \in Elements(r)
    <3>1. i \in 1 .. Len(r) /\ r[i] = q[i]
      BY <1>1
    <3> QED BY <3>1, <1>3
  <2>2. ASSUME NEW i \in 1 .. Len(p)
        PROVE  p[i] \in Elements(r)
    <3>1. Len(q) + i \in 1 .. Len(r) /\ r[Len(q) + i] = p[i]
      BY <1>1
    <3> QED BY <3>1, <1>3
  <2> QED BY <2>1, <2>2, <1>3
<1>6. ASSUME InOrder(q), InOrder(p), Precede(Elements(q), Elements(p)),
             NEW i \in 1 .. Len(r), NEW j \in 1 .. Len(r), i < j
      PROVE  Before(r[i], r[j])
  <2>1. CASE i \in 1 .. Len(q) /\ j \in 1 .. Len(q)
    BY <2>1, <1>1, <1>6 DEF InOrder
  <2>2. CASE i - Len(q) \in 1 .. Len(p) /\ j - Len(q) \in 1 .. Len(p)
    <3>1. i - Len(q) < j - Len(q)
      BY <1>1, <1>6
    <3>2. r[i] = p[i - Len(q)] /\ r[j] = p[j - Len(q)]
      BY <2>2, <1>1, <1>2
    <3> QED BY <3>1, <3>2, <2>2, <1>6 DEF InOrder
  <2>3. CASE i \in 1 .. Len(q) /\ j - Len(q) \in 1 .. Len(p)
    <3>1. r[i] = q[i] /\ r[j] = p[j - Len(q)]
      BY <2>3, <1>1, <1>2
    <3> QED BY <3>1, <2>3, <1>3, <1>6 DEF Precede
  <2> QED BY <2>1, <2>2, <2>3, <1>1, <1>2, <1>6
<1> QED BY <1>4, <1>5, <1>6 DEF r, InOrder

\* A step that only moves requests on, or loses them: what came over a socket
\* came over it before, and a socket that was used stays used.
LEMMA MovesKeep ==
    ASSUME SessionInv, NumbersGrow, FreshSockets,
           \A s \in Sockets : Of(s)' \subseteq Of(s),
           \A s \in Sockets : Used(s) => Used(s)',
           disconnected_sockets_' \subseteq reset',
           UNCHANGED <<link, next_outgoing_seq_num_>>
    PROVE  NumbersGrow' /\ FreshSockets'
<1>1. \A c \in Clients : link[c] # Null => link[c] \in Sockets
  BY DEF SessionInv, Types
<1>2. NumbersGrow'
  BY <1>1 DEF NumbersGrow
<1>3. \A c \in Clients : link'[c] # Null => Used(link[c])'
  BY <1>1 DEF FreshSockets
<1>4. \A s \in Sockets : ~Used(s)' => Of(s)' = {}
  BY DEF FreshSockets
<1> QED BY <1>2, <1>3, <1>4 DEF FreshSockets

\* The order of requests that stay where they are.
LEMMA OrderedStays ==
    ASSUME Ordered,
           UNCHANGED <<wire, rcv_buffer_, pending_client_requests_, forwarded,
                       longest>>
    PROVE  Ordered'
<1>1. \A s : LineInOrder(s)' <=> LineInOrder(s)
  BY DEF LineInOrder, OnWire, Buffered, Waiting, Done
<1>2. WaitingInOrder' <=> WaitingInOrder
  BY DEF WaitingInOrder
<1>3. Waiting' = Waiting /\ Done' = Done
  BY DEF Waiting, Done
<1> QED BY <1>1, <1>2, <1>3 DEF Ordered

\* A step that leaves the requests, their numbers and the sockets alone.
LEMMA QuietOrder ==
    ASSUME OrderInv,
           UNCHANGED <<link, next_outgoing_seq_num_, wire, clock, backlog, reset,
                       recv_sockets_, disconnected_sockets_, rcv_buffer_,
                       pending_client_requests_, forwarded, longest>>,
           pc' # "callback" \/ UNCHANGED <<pc, turn, rx_time>>
    PROVE  OrderInv'
<1>1. Ordered'
  BY OrderedStays DEF OrderInv
<1>2. NumbersGrow'
  BY DEF OrderInv, NumbersGrow, Of, OnWire, Buffered, Waiting, Done
<1>3. FreshSockets'
  BY DEF OrderInv, FreshSockets, Used, Of, OnWire, Buffered, Waiting, Done
<1>4. TimesAgree'
  BY DEF OrderInv, TimesAgree, OnWire, InTurn
<1> QED BY <1>1, <1>2, <1>3, <1>4 DEF OrderInv

\* The members of the sets of requests are requests.
LEMMA SetsTyped ==
    ASSUME SessionInv
    PROVE  /\ \A s \in Sockets : /\ OnWire(s) \subseteq Request
                                 /\ Buffered(s) \subseteq Request
                                 /\ \A a \in OnWire(s) \cup Buffered(s) : a.from = s
           /\ Elements(pending_client_requests_) \subseteq Pending
           /\ Waiting \subseteq Request
           /\ Done \subseteq Request
           /\ \A a \in Waiting \cup Done :
                 clientId_socket_[a.clientId_] = a.from
<1>1. ASSUME NEW s \in Sockets
      PROVE  /\ OnWire(s) \subseteq Request
             /\ Buffered(s) \subseteq Request
             /\ \A a \in OnWire(s) \cup Buffered(s) : a.from = s
  <2>1. wire[s] \in Seq(Request) /\ rcv_buffer_[s] \in Seq(Request)
    BY DEF SessionInv, Types
  <2>2. /\ \A x : x \in OnWire(s) <=> \E i \in 1 .. Len(wire[s]) : x = wire[s][i]
        /\ OnWire(s) \subseteq Request
    BY <2>1, ElementsIndexed DEF OnWire
  <2>3. /\ \A x : x \in Buffered(s) <=>
                     \E i \in 1 .. Len(rcv_buffer_[s]) : x = rcv_buffer_[s][i]
        /\ Buffered(s) \subseteq Request
    BY <2>1, ElementsIndexed DEF Buffered
  <2> QED BY <2>2, <2>3 DEF SessionInv, CarriesSocket
<1>2. /\ Elements(pending_client_requests_) \subseteq Pending
      /\ \A x \in Elements(pending_client_requests_) : Bound(x.request)
  <2>1. pending_client_requests_ \in Seq(Pending)
    BY DEF SessionInv, Types
  <2>2. \A x : x \in Elements(pending_client_requests_) <=>
                  \E i \in 1 .. Len(pending_client_requests_) :
                     x = pending_client_requests_[i]
    BY <2>1, ElementsIndexed
  <2>3. Elements(pending_client_requests_) \subseteq Pending
    BY <2>1, ElementsIndexed
  <2> QED BY <2>2, <2>3 DEF SessionInv, AcceptedBound
<1>3. Waiting \subseteq Request /\ \A a \in Waiting : Bound(a)
  BY <1>2 DEF Waiting, Pending
<1>4. Done \subseteq Request /\ \A a \in Done : Bound(a)
  <2>1. forwarded \in Seq(Request)
    BY DEF SessionInv, Types
  <2>2. /\ \A x : x \in Done <=> \E i \in 1 .. Len(forwarded) : x = forwarded[i]
        /\ Done \subseteq Request
    BY <2>1, ElementsIndexed DEF Done
  <2> QED BY <2>2 DEF SessionInv, AcceptedBound
<1> QED BY <1>1, <1>2, <1>3, <1>4 DEF Bound

\* A client connects over a socket that was never used.
LEMMA ConnectOrder ==
    ASSUME SessionInv, OtherTypes, OrderInv, NEW c \in Clients, NEW s \in Sockets,
           Connect(c, s),
           UNCHANGED <<recv_sockets_, disconnected_sockets_, rcv_buffer_, pc, turn,
                       rx_time, pending_client_requests_, forwarded, longest>>
    PROVE  OrderInv'
<1>1. /\ link' = [link EXCEPT ![c] = s]
      /\ next_outgoing_seq_num_' = [next_outgoing_seq_num_ EXCEPT ![c] = 1]
      /\ backlog' = Append(backlog, s)
      /\ UNCHANGED <<wire, clock, reset>>
  BY DEF Connect
<1>2. /\ link \in [Clients -> Sockets \cup {Null}]
      /\ next_outgoing_seq_num_ \in [Clients -> Nat]
      /\ backlog \in Seq(Sockets)
  BY DEF SessionInv, Types, OtherTypes
<1>3. ~Used(s)
  BY DEF Connect, Unused, Used
<1>4. Of(s) = {}
  BY <1>3 DEF OrderInv, FreshSockets
<1>5. \A t \in Sockets : Of(t)' = Of(t)
  BY <1>1 DEF Of, OnWire, Buffered, Waiting, Done
<1>6. Ordered'
  BY <1>1, OrderedStays DEF OrderInv
<1>7. NumbersGrow'
  <2> SUFFICES ASSUME NEW d \in Clients, link'[d] # Null,
                      NEW a \in Of(link[d])', a.clientId_ = d
               PROVE  a.seq_num < next_outgoing_seq_num_'[d]
    BY DEF NumbersGrow
  <2>1. CASE d = c
    BY <2>1, <1>1, <1>2, <1>4, <1>5
  <2>2. CASE d # c
    <3>1. link'[d] = link[d] /\ next_outgoing_seq_num_'[d] = next_outgoing_seq_num_[d]
      BY <2>2, <1>1, <1>2
    <3>2. link[d] \in Sockets /\ a \in Of(link[d])
      BY <3>1, <1>2, <1>5
    <3> QED BY <3>1, <3>2 DEF OrderInv, NumbersGrow
  <2> QED BY <2>1, <2>2
<1>8. Elements(backlog') = Elements(backlog) \cup {s}
  <2>1. ASSUME NEW q \in Seq(Sockets)
        PROVE  Elements(Append(q, s)) = Elements(q) \cup {s}
    BY AppendSet
  <2> QED BY <2>1, <1>1, <1>2
<1>9. \A t : Used(t)' <=> Used(t) \/ t = s
  BY <1>1, <1>8 DEF Used
<1>10. FreshSockets'
  <2>1. \A d \in Clients : link'[d] # Null => Used(link'[d]) \/ link'[d] = s
    BY <1>1, <1>2 DEF OrderInv, FreshSockets
  <2>2. \A d \in Clients : link'[d] # Null => Used(link[d])'
    BY <2>1, <1>9, <1>8, <1>1 DEF Used
  <2> QED BY <2>2, <1>1, <1>5, <1>9 DEF OrderInv, FreshSockets
<1>11. TimesAgree'
  BY <1>1 DEF OrderInv, TimesAgree, OnWire, InTurn
<1> QED BY <1>6, <1>7, <1>10, <1>11 DEF OrderInv

\* A request gets the next number of its client, and the latest time.
LEMMA SendRequestOrder ==
    ASSUME SessionInv, OtherTypes, OrderInv, NEW c \in Clients, NEW s \in Sockets,
           link[c] = s, SendRequest(c),
           UNCHANGED <<recv_sockets_, disconnected_sockets_, rcv_buffer_, pc, turn,
                       rx_time, pending_client_requests_, forwarded, longest>>
    PROVE  OrderInv'
<1> DEFINE r == [clientId_ |-> c, seq_num |-> next_outgoing_seq_num_[c],
                 from |-> s, arrival |-> clock']
<1>1. /\ link \in [Clients -> Sockets \cup {Null}]
      /\ next_outgoing_seq_num_ \in [Clients -> Nat]
      /\ clock \in Nat
      /\ rx_time \in Nat
      /\ wire \in [Sockets -> Seq(Request)]
  BY DEF SessionInv, Types
<1>2. /\ s # Null
      /\ clock' = clock + 1
      /\ wire' = [wire EXCEPT ![s] = Append(wire[s], r)]
      /\ next_outgoing_seq_num_' =
            [next_outgoing_seq_num_ EXCEPT ![c] = next_outgoing_seq_num_[c] + 1]
      /\ UNCHANGED <<link, backlog, reset>>
  BY DEF SendRequest
<1>3. /\ r \in Request
      /\ r.clientId_ = c
      /\ r.seq_num = next_outgoing_seq_num_[c]
      /\ r.from = s
      /\ r.arrival = clock'
  BY <1>1, <1>2 DEF Request
<1> HIDE DEF r
<1>4. /\ wire'[s] = Append(wire[s], r)
      /\ \A t \in Sockets : t # s => wire'[t] = wire[t]
      /\ wire[s] \in Seq(Request)
  BY <1>1, <1>2
<1>5. /\ OnWire(s)' = OnWire(s) \cup {r}
      /\ \A t \in Sockets : t # s => OnWire(t)' = OnWire(t)
  <2>1. Elements(Append(wire[s], r)) = Elements(wire[s]) \cup {r}
    BY <1>3, <1>4, AppendSet
  <2> QED BY <2>1, <1>2, <1>4 DEF OnWire
<1>6. /\ \A t : Buffered(t)' = Buffered(t)
      /\ Waiting' = Waiting
      /\ Done' = Done
  BY DEF Buffered, Waiting, Done
<1>7. \A a \in OnWire(s) \cup Buffered(s) \cup Waiting \cup Done : Before(a, r)
  BY <1>2, <1>3 DEF OrderInv, NumbersGrow, Of, Before
<1>8. Ordered'
  <2>1. ASSUME NEW t \in Sockets
        PROVE  LineInOrder(t)'
    <3>1. LineInOrder(t)
      BY DEF OrderInv, Ordered
    <3>2. CASE t # s
      BY <3>1, <3>2, <1>4, <1>5, <1>6 DEF LineInOrder
    <3>3. CASE t = s
      <4>1. Precede(Elements(wire[s]), {r})
        BY <1>7 DEF Precede, OnWire
      <4>2. InOrder(wire[s])
        BY <3>1, <3>3 DEF LineInOrder
      <4>3. InOrder(Append(wire[s], r))
        BY <4>1, <4>2, <1>3, <1>4, AppendInOrder
      <4>4. Precede(Buffered(s), OnWire(s) \cup {r})
        BY <3>1, <3>3, <1>7 DEF LineInOrder, Precede
      <4>5. Precede(Waiting \cup Done, Buffered(s) \cup OnWire(s) \cup {r})
        BY <3>1, <3>3, <1>7 DEF LineInOrder, Precede
      <4>6. InOrder(rcv_buffer_[s])
        BY <3>1, <3>3 DEF LineInOrder
      <4>7. Precede(Waiting' \cup Done', Buffered(s)' \cup OnWire(s)')
        BY <4>5, <1>5, <1>6 DEF Precede
      <4>8. Precede(Buffered(s)', OnWire(s)')
        BY <4>4, <1>5, <1>6
      <4>9. InOrder(wire'[s]) /\ InOrder(rcv_buffer_'[s])
        BY <4>3, <4>6, <1>4
      <4> QED BY <4>7, <4>8, <4>9, <3>3, <1>2 DEF LineInOrder
    <3> QED BY <3>2, <3>3
  <2>2. WaitingInOrder'
    BY DEF OrderInv, Ordered, WaitingInOrder
  <2> QED BY <2>1, <2>2, <1>6 DEF OrderInv, Ordered
<1>9. /\ Of(s)' \subseteq Of(s) \cup {r}
      /\ \A t \in Sockets : t # s => Of(t)' = Of(t)
  BY <1>2, <1>5, <1>6 DEF Of
<1>10. NumbersGrow'
  <2> SUFFICES ASSUME NEW d \in Clients, link[d] # Null,
                      NEW a \in Of(link[d])', a.clientId_ = d
               PROVE  a.seq_num < next_outgoing_seq_num_'[d]
    BY <1>2 DEF NumbersGrow
  <2>1. CASE a = r
    BY <2>1, <1>1, <1>2, <1>3
  <2>2. CASE a # r
    <3>1. link[d] \in Sockets /\ a \in Of(link[d])
      BY <2>2, <1>1, <1>2, <1>9
    <3>2. a.seq_num < next_outgoing_seq_num_[d]
      BY <3>1 DEF OrderInv, NumbersGrow
    <3>3. a.seq_num \in Nat
      BY <3>1, SetsTyped DEF Of, Request
    <3> QED BY <3>2, <3>3, <1>1, <1>2
  <2> QED BY <2>1, <2>2
<1>11. FreshSockets'
  <2>1. \A t : Used(t)' <=> Used(t)
    BY <1>2 DEF Used
  <2>2. Used(s)
    BY <1>2 DEF OrderInv, FreshSockets
  <2>3. \A d \in Clients : link'[d] # Null => Used(link[d])'
    BY <1>2 DEF OrderInv, FreshSockets, Used
  <2>4. \A t \in Sockets : ~Used(t)' => Of(t)' = {}
    BY <2>1, <2>2, <1>9 DEF OrderInv, FreshSockets
  <2> QED BY <2>3, <2>4, <1>2 DEF OrderInv, FreshSockets
<1>12. TimesAgree'
  <2> DEFINE pending == Elements(pending_client_requests_)
  <2>1. /\ \A x \in pending : x.recv_time \in Nat /\ x.request.from \in Sockets
        /\ \A t \in Sockets : \A a \in OnWire(t) : a.arrival \in Nat
    BY SetsTyped DEF Pending, Request
  <2>2. \A t \in Sockets : \A a \in OnWire(t)' :
           a \in OnWire(t) \/ a.arrival = clock + 1
    BY <1>2, <1>3, <1>5
  <2>3. ASSUME NEW t \in Sockets, NEW a \in OnWire(t)'
        PROVE  a.arrival <= clock'
    <3>1. CASE a \in OnWire(t)
      <4>1. a.arrival <= clock /\ a.arrival \in Nat
        BY <3>1, <2>1 DEF OrderInv, TimesAgree
      <4> QED BY <4>1, <1>1, <1>2
    <3>2. CASE a.arrival = clock + 1
      BY <3>2, <1>1, <1>2
    <3> QED BY <3>1, <3>2, <2>2
  <2>4. \A x \in pending : /\ x.recv_time <= clock'
                           /\ \A a \in OnWire(x.request.from)' :
                                 x.recv_time <= a.arrival
    BY <2>1, <2>2, <1>1, <1>2 DEF OrderInv, TimesAgree
  <2>5. ASSUME pc = "callback", NEW t \in Sockets, InTurn(t)
        PROVE  /\ rx_time <= clock'
               /\ \A a \in OnWire(t)' : rx_time <= a.arrival
               /\ \A x \in pending : x.request.from = t => x.recv_time <= rx_time
    BY <2>1, <2>2, <2>5, <1>1, <1>2 DEF OrderInv, TimesAgree
  <2> QED BY <2>3, <2>4, <2>5 DEF TimesAgree, InTurn, OnWire
<1> QED BY <1>8, <1>10, <1>11, <1>12 DEF OrderInv

\* A client that ends sends nothing any more.
LEMMA DisconnectOrder ==
    ASSUME SessionInv, OrderInv, NEW c \in Clients, Disconnect(c),
           UNCHANGED <<recv_sockets_, disconnected_sockets_, rcv_buffer_, pc, turn,
                       rx_time, pending_client_requests_, forwarded, longest>>
    PROVE  OrderInv'
<1>1. /\ link' = [link EXCEPT ![c] = Null]
      /\ UNCHANGED <<next_outgoing_seq_num_, wire, clock, backlog, reset>>
      /\ link \in [Clients -> Sockets \cup {Null}]
  BY DEF Disconnect, SessionInv, Types
<1>2. \A d \in Clients : link'[d] # Null => link'[d] = link[d] /\ link[d] \in Sockets
  BY <1>1
<1>3. \A t : Of(t)' = Of(t) /\ (Used(t)' <=> Used(t))
  BY <1>1 DEF Of, OnWire, Buffered, Waiting, Done, Used
<1>4. Ordered'
  BY <1>1, OrderedStays DEF OrderInv
<1>5. NumbersGrow'
  BY <1>1, <1>2, <1>3 DEF OrderInv, NumbersGrow
<1>6. FreshSockets'
  BY <1>1, <1>2, <1>3 DEF OrderInv, FreshSockets
<1>7. TimesAgree'
  BY <1>1 DEF OrderInv, TimesAgree, OnWire, InTurn
<1> QED BY <1>4, <1>5, <1>6, <1>7 DEF OrderInv

\* A reset may lose what was not read.
LEMMA ResetOrder ==
    ASSUME SessionInv, OrderInv, NEW s \in Sockets, Reset(s),
           UNCHANGED <<recv_sockets_, disconnected_sockets_, rcv_buffer_, pc, turn,
                       rx_time, pending_client_requests_, forwarded, longest>>
    PROVE  OrderInv'
<1>1. /\ reset' = reset \cup {s}
      /\ wire' = wire \/ wire' = [wire EXCEPT ![s] = << >>]
      /\ UNCHANGED <<link, next_outgoing_seq_num_, clock, backlog>>
      /\ wire \in [Sockets -> Seq(Request)]
  BY DEF Reset, SessionInv, Types
<1>2. \A t \in Sockets : wire'[t] = wire[t] \/ wire'[t] = << >>
  BY <1>1
<1>3. \A t \in Sockets : OnWire(t)' = OnWire(t) \/ OnWire(t)' = {}
  <2>1. Elements(<< >>) = {}
    BY DEF Elements
  <2> QED BY <2>1, <1>2 DEF OnWire
<1>4. /\ \A t : Buffered(t)' = Buffered(t)
      /\ Waiting' = Waiting
      /\ Done' = Done
  BY DEF Buffered, Waiting, Done
<1>5. Ordered'
  <2>1. ASSUME NEW t \in Sockets
        PROVE  LineInOrder(t)'
    <3>1. LineInOrder(t)
      BY DEF OrderInv, Ordered
    <3>2. InOrder(wire'[t])
      <4>1. CASE wire'[t] = << >>
        BY <4>1 DEF InOrder
      <4> QED BY <4>1, <3>1, <1>2 DEF LineInOrder
    <3>3. Precede(Buffered(t)', OnWire(t)')
      BY <3>1, <1>3, <1>4 DEF LineInOrder, Precede
    <3>4. Precede(Waiting' \cup Done', Buffered(t)' \cup OnWire(t)')
      BY <3>1, <1>3, <1>4 DEF LineInOrder, Precede
    <3> QED BY <3>1, <3>2, <3>3, <3>4 DEF LineInOrder
  <2>2. WaitingInOrder'
    BY DEF OrderInv, Ordered, WaitingInOrder
  <2> QED BY <2>1, <2>2, <1>4 DEF OrderInv, Ordered
<1>6. \A t \in Sockets : Of(t)' \subseteq Of(t) /\ (Used(t) => Used(t)')
  BY <1>1, <1>3, <1>4 DEF Of, Used
<1>7. NumbersGrow' /\ FreshSockets'
  BY <1>1, <1>6, MovesKeep DEF OrderInv, FreshSockets
<1>8. TimesAgree'
  <2>1. \A t \in Sockets : \A a \in OnWire(t)' : a \in OnWire(t)
    BY <1>3
  <2>2. \A x \in Elements(pending_client_requests_) : x.request.from \in Sockets
    BY SetsTyped DEF Pending, Request
  <2> QED BY <2>1, <2>2, <1>1 DEF OrderInv, TimesAgree, InTurn
<1> QED BY <1>5, <1>7, <1>8 DEF OrderInv

\* poll() forgets only sockets that were reset.
LEMMA pollOrder ==
    ASSUME SessionInv, OtherTypes, OrderInv, poll
    PROVE  OrderInv'
<1>1. /\ UNCHANGED <<link, next_outgoing_seq_num_, wire, clock, reset, rcv_buffer_,
                     pending_client_requests_, forwarded, longest>>
      /\ pc' = "recv"
  BY DEF poll, queues
<1>2. PICK still \in StillConnected :
         /\ \/ recv_sockets_' = still \o backlog
            \/ recv_sockets_' = still /\ backlog' = backlog
         /\ \/ disconnected_sockets_' = disconnected_sockets_
            \/ \E s \in reset : disconnected_sockets_' = disconnected_sockets_ \cup {s}
  BY DEF poll
<1>3. /\ still \in Seq(Sockets)
      /\ backlog \in Seq(Sockets)
      /\ Elements(still) = Elements(recv_sockets_) \ disconnected_sockets_
  BY StillConnectedElements DEF OtherTypes
<1>4. Elements(still) \cup Elements(backlog) \subseteq
         Elements(recv_sockets_') \cup Elements(backlog')
  <2>1. Elements(still) \cup Elements(backlog) \subseteq Elements(still \o backlog)
    BY <1>3, ConcatSet
  <2> QED BY <2>1, <1>2
<1>5. disconnected_sockets_ \subseteq reset /\ disconnected_sockets_' \subseteq reset'
  BY <1>1, <1>2 DEF OrderInv, FreshSockets
<1>6. \A t \in Sockets : Used(t) => Used(t)'
  BY <1>1, <1>3, <1>4, <1>5 DEF Used
<1>7. \A t \in Sockets : Of(t)' \subseteq Of(t)
  BY <1>1 DEF Of, OnWire, Buffered, Waiting, Done
<1>8. NumbersGrow' /\ FreshSockets'
  BY <1>1, <1>5, <1>6, <1>7, MovesKeep DEF OrderInv
<1>9. Ordered'
  BY <1>1, OrderedStays DEF OrderInv
<1>10. TimesAgree'
  BY <1>1 DEF OrderInv, TimesAgree, OnWire
<1> QED BY <1>8, <1>9, <1>10 DEF OrderInv

\* What arrived moves into the buffer, and its last bytes give the time.
LEMMA ReceiveOrder ==
    ASSUME SessionInv, OtherTypes, OrderInv, Receive
    PROVE  OrderInv'
<1>1. PICK s \in Sockets :
         /\ InTurn(s)
         /\ wire[s] # << >>
         /\ \E whole \in {Len(wire[s]), Len(wire[s]) - 1} :
               /\ rcv_buffer_' = [rcv_buffer_ EXCEPT ![s] =
                                    SubSeq(wire[s], 1, whole)]
               /\ wire' = [wire EXCEPT ![s] =
                             SubSeq(wire[s], whole + 1, Len(wire[s]))]
         /\ rx_time' = wire[s][Len(wire[s])].arrival
  BY DEF Receive
<1>2. PICK whole \in {Len(wire[s]), Len(wire[s]) - 1} :
         /\ rcv_buffer_' = [rcv_buffer_ EXCEPT ![s] =
                              SubSeq(wire[s], 1, whole)]
         /\ wire' = [wire EXCEPT ![s] =
                       SubSeq(wire[s], whole + 1, Len(wire[s]))]
  BY <1>1
<1>3. /\ UNCHANGED <<link, next_outgoing_seq_num_, clock, backlog, reset,
                     recv_sockets_, disconnected_sockets_, turn,
                     pending_client_requests_, forwarded, longest>>
      /\ wire \in [Sockets -> Seq(Request)]
      /\ rcv_buffer_ \in [Sockets -> Seq(Request)]
  BY DEF Receive, sockets, queues, SessionInv, Types
<1>4. wire[s] \in Seq(Request) /\ Len(wire[s]) \in Nat \ {0}
  BY <1>1, <1>3
<1>5. whole \in 0 .. Len(wire[s])
  BY <1>2, <1>4
<1>6. LineInOrder(s)
  BY DEF OrderInv, Ordered
<1> DEFINE got == SubSeq(wire[s], 1, whole)
           left == SubSeq(wire[s], whole + 1, Len(wire[s]))
           last == wire[s][Len(wire[s])]
<1>7. /\ Elements(got) \cup Elements(left) \subseteq OnWire(s)
      /\ InOrder(got)
      /\ InOrder(left)
      /\ Precede(Elements(got), Elements(left))
  BY <1>4, <1>5, <1>6, CutSet DEF LineInOrder, OnWire
<1>8. last \in OnWire(s)
  <2>1. Len(wire[s]) \in 1 .. Len(wire[s])
    BY <1>4
  <2> QED BY <2>1, <1>4, ElementsIndexed DEF OnWire
<1>9. \A a \in Elements(left) : a = last
  <2>1. whole + 1 \in 1 .. Len(wire[s]) + 1 /\ Len(wire[s]) \in 0 .. Len(wire[s])
    BY <1>4, <1>5
  <2>2. /\ left \in Seq(Request)
        /\ \A i \in 1 .. Len(left) :
              /\ whole + 1 + i - 1 \in 1 .. Len(wire[s])
              /\ left[i] = wire[s][whole + 1 + i - 1]
    BY <2>1, <1>4, SubSeqElements
  <2> HIDE DEF left
  <2>3. Len(left) \in Nat
    BY <2>2
  <2>4. \A i \in 1 .. Len(left) : whole + 1 + i - 1 = Len(wire[s])
    BY <2>2, <2>3, <1>2, <1>4
  <2> QED BY <2>2, <2>4, ElementsIndexed
<1>10. /\ rcv_buffer_'[s] = got
       /\ wire'[s] = left
       /\ \A t \in Sockets : t # s => rcv_buffer_'[t] = rcv_buffer_[t]
                                      /\ wire'[t] = wire[t]
  BY <1>2, <1>3
<1> HIDE DEF got, left, last
<1>11. /\ Buffered(s)' \subseteq OnWire(s)
       /\ OnWire(s)' \subseteq OnWire(s)
       /\ \A a \in OnWire(s)' : a = last
       /\ Precede(Buffered(s)', OnWire(s)')
       /\ \A t \in Sockets : t # s => /\ Buffered(t)' = Buffered(t)
                                      /\ OnWire(t)' = OnWire(t)
  BY <1>7, <1>9, <1>10 DEF Buffered, OnWire
<1>12. Waiting' = Waiting /\ Done' = Done
  BY <1>3 DEF Waiting, Done
<1>13. Ordered'
  <2>1. ASSUME NEW t \in Sockets
        PROVE  LineInOrder(t)'
    <3>1. LineInOrder(t)
      BY DEF OrderInv, Ordered
    <3>2. CASE t # s
      BY <3>1, <3>2, <1>10, <1>11, <1>12 DEF LineInOrder
    <3>3. CASE t = s
      <4>1. Precede(Waiting' \cup Done', Buffered(s)' \cup OnWire(s)')
        BY <1>6, <1>11, <1>12 DEF LineInOrder, Precede
      <4> QED BY <4>1, <3>3, <1>7, <1>10, <1>11 DEF LineInOrder
    <3> QED BY <3>2, <3>3
  <2>2. WaitingInOrder'
    BY <1>3 DEF OrderInv, Ordered, WaitingInOrder
  <2> QED BY <2>1, <2>2, <1>3, <1>12 DEF OrderInv, Ordered
<1>14. \A t \in Sockets : Of(t)' \subseteq Of(t) /\ (Used(t) => Used(t)')
  BY <1>3, <1>11, <1>12 DEF Of, Used
<1>15. NumbersGrow' /\ FreshSockets'
  BY <1>3, <1>14, MovesKeep DEF OrderInv, FreshSockets
<1>16. TimesAgree'
  <2> DEFINE pending == Elements(pending_client_requests_)
  <2>1. rx_time' = last.arrival
    BY <1>1 DEF last
  <2>2. \A t \in Sockets : \A a \in OnWire(t)' : a \in OnWire(t)
    BY <1>11
  <2>3. \A x \in pending : x.request.from \in Sockets
    BY SetsTyped DEF Pending, Request
  <2>4. /\ \A t \in Sockets : \A a \in OnWire(t)' : a.arrival <= clock
        /\ \A x \in pending : /\ x.recv_time <= clock
                              /\ \A a \in OnWire(x.request.from)' :
                                    x.recv_time <= a.arrival
    BY <2>2, <2>3 DEF OrderInv, TimesAgree
  <2>5. rx_time' \in Nat
    BY <2>1, <1>8, SetsTyped DEF Request
  <2>6. ASSUME NEW t \in Sockets, InTurn(t)'
        PROVE  /\ rx_time' <= clock
               /\ \A a \in OnWire(t)' : rx_time' <= a.arrival
               /\ \A x \in pending : x.request.from = t => x.recv_time <= rx_time'
    <3>1. t = s
      BY <2>6, <1>1, <1>3 DEF InTurn
    <3> QED BY <3>1, <2>1, <2>5, <1>8, <1>11 DEF OrderInv, TimesAgree
  <2> QED BY <2>4, <2>6, <1>3 DEF TimesAgree
<1> QED BY <1>13, <1>15, <1>16 DEF OrderInv

\* A request that is accepted goes to the end of the sequencer.
LEMMA AcceptOrder ==
    ASSUME SessionInv, OrderInv, NEW s \in Sockets, InTurn(s), pc = "callback",
           rcv_buffer_[s] # << >>,
           rcv_buffer_' = [rcv_buffer_ EXCEPT ![s] = Tail(rcv_buffer_[s])],
           \/ UNCHANGED pending_client_requests_
           \/ pending_client_requests_' =
                 Append(pending_client_requests_,
                        [recv_time |-> rx_time, request |-> Head(rcv_buffer_[s])]),
           UNCHANGED <<link, next_outgoing_seq_num_, wire, clock, backlog, reset,
                       recv_sockets_, disconnected_sockets_, pc, turn, rx_time,
                       forwarded, longest>>
    PROVE  OrderInv'
<1> DEFINE q == rcv_buffer_[s]
           r == Head(q)
           p == pending_client_requests_
           new == [recv_time |-> rx_time, request |-> r]
<1>1. /\ rcv_buffer_ \in [Sockets -> Seq(Request)]
      /\ q \in Seq(Request)
      /\ p \in Seq(Pending)
      /\ rx_time \in Nat
      /\ clock \in Nat
  BY DEF SessionInv, Types
<1>2. LineInOrder(s)
  BY DEF OrderInv, Ordered
<1>3. /\ r \in Buffered(s)
      /\ Elements(Tail(q)) \subseteq Buffered(s)
      /\ InOrder(Tail(q))
      /\ Precede({r}, Elements(Tail(q)))
  BY <1>1, <1>2, TailSet DEF LineInOrder, Buffered
<1>4. r \in Request /\ r.from = s
  BY <1>3, SetsTyped
<1>5. /\ new \in Pending
      /\ new.request = r
      /\ new.recv_time = rx_time
  BY <1>1, <1>4 DEF Pending
<1>6. /\ rcv_buffer_'[s] = Tail(q)
      /\ \A t \in Sockets : t # s => rcv_buffer_'[t] = rcv_buffer_[t]
  BY <1>1
<1>7. p' = p \/ p' = Append(p, new)
  OBVIOUS
<1> HIDE DEF q, r, new
<1>8. /\ Buffered(s)' = Elements(Tail(q))
      /\ \A t \in Sockets : t # s => Buffered(t)' = Buffered(t)
      /\ \A t : OnWire(t)' = OnWire(t)
      /\ Done' = Done
  BY <1>6 DEF Buffered, OnWire, Done
<1>9. Elements(p') \subseteq Elements(p) \cup {new}
  <2>1. Elements(Append(p, new)) = Elements(p) \cup {new}
    BY <1>1, <1>5, AppendSet
  <2> QED BY <2>1, <1>7
<1>10. Waiting' \subseteq Waiting \cup {r}
  BY <1>5, <1>9 DEF Waiting
<1>11. Ordered'
  <2>1. ASSUME NEW t \in Sockets
        PROVE  LineInOrder(t)'
    <3>1. LineInOrder(t)
      BY DEF OrderInv, Ordered
    <3>2. CASE t # s
      <4>1. \A a \in Buffered(t) \cup OnWire(t) : a.from = t
        BY SetsTyped
      <4>2. Precede({r}, Buffered(t) \cup OnWire(t))
        BY <4>1, <3>2, <1>4 DEF Precede, Before
      <4>3. Precede(Waiting' \cup Done', Buffered(t)' \cup OnWire(t)')
        BY <4>2, <3>1, <3>2, <1>8, <1>10 DEF LineInOrder, Precede
      <4>4. InOrder(wire'[t]) /\ InOrder(rcv_buffer_'[t])
        BY <3>1, <3>2, <1>6 DEF LineInOrder
      <4>5. Precede(Buffered(t)', OnWire(t)')
        BY <3>1, <3>2, <1>8 DEF LineInOrder
      <4> QED BY <4>3, <4>4, <4>5 DEF LineInOrder
    <3>3. CASE t = s
      <4>1. Precede({r}, OnWire(s))
        BY <1>2, <1>3 DEF LineInOrder, Precede
      <4>2. Precede(Waiting' \cup Done', Buffered(s)' \cup OnWire(s)')
        BY <4>1, <1>2, <1>3, <1>8, <1>10 DEF LineInOrder, Precede
      <4>3. InOrder(wire'[s]) /\ InOrder(rcv_buffer_'[s])
        BY <1>2, <1>3, <1>6 DEF LineInOrder
      <4>4. Precede(Buffered(s)', OnWire(s)')
        BY <1>2, <1>3, <1>8 DEF LineInOrder, Precede
      <4> QED BY <4>2, <4>3, <4>4, <3>3 DEF LineInOrder
    <3> QED BY <3>2, <3>3
  <2>2. WaitingInOrder'
    <3>1. CASE p' = p
      BY <3>1 DEF OrderInv, Ordered, WaitingInOrder
    <3>2. CASE p' = Append(p, new)
      <4>1. /\ Len(p') = Len(p) + 1
            /\ \A i \in 1 .. Len(p) : p'[i] = p[i]
            /\ p'[Len(p) + 1] = new
            /\ Len(p) \in Nat
        BY <3>2, <1>1, <1>5, AppendElements
      <4>2. \A x \in Elements(p) :
               /\ Before(x.request, r)
               /\ x.request.from = r.from => x.recv_time <= rx_time
        <5> SUFFICES ASSUME NEW x \in Elements(p)
                     PROVE  /\ Before(x.request, r)
                            /\ x.request.from = r.from => x.recv_time <= rx_time
          OBVIOUS
        <5>1. x.request \in Waiting
          BY DEF Waiting
        <5>2. Before(x.request, r)
          BY <5>1, <1>2, <1>3 DEF LineInOrder, Precede
        <5>3. x.request.from = r.from => x.recv_time <= rx_time
          BY <1>4 DEF OrderInv, TimesAgree
        <5> QED BY <5>2, <5>3
      <4>3. \A i \in 1 .. Len(p) : p[i] \in Elements(p)
        BY <1>1, ElementsIndexed
      <4> SUFFICES ASSUME NEW i \in 1 .. Len(p'), NEW j \in 1 .. Len(p'), i < j
                   PROVE  /\ Before(p'[i].request, p'[j].request)
                          /\ p'[i].request.from = p'[j].request.from =>
                                p'[i].recv_time <= p'[j].recv_time
        BY DEF WaitingInOrder
      <4>4. i \in 1 .. Len(p) /\ p'[i] = p[i]
        BY <4>1
      <4>5. CASE j = Len(p) + 1
        BY <4>1, <4>2, <4>3, <4>4, <4>5, <1>5
      <4>6. CASE j \in 1 .. Len(p)
        BY <4>1, <4>4, <4>6 DEF OrderInv, Ordered, WaitingInOrder
      <4> QED BY <4>1, <4>5, <4>6
    <3> QED BY <3>1, <3>2, <1>7
  <2>3. Precede(Done, {r})
    BY <1>2, <1>3 DEF LineInOrder, Precede
  <2>4. Precede(Done', Waiting')
    BY <2>3, <1>8, <1>10 DEF OrderInv, Ordered, Precede
  <2> QED BY <2>1, <2>2, <2>4 DEF OrderInv, Ordered
<1>12. \A t \in Sockets : Of(t)' \subseteq Of(t) /\ (Used(t) => Used(t)')
  <2>1. \A t \in Sockets : Of(t)' \subseteq Of(t)
    BY <1>3, <1>4, <1>8, <1>10 DEF Of
  <2> QED BY <2>1 DEF Used
<1>13. NumbersGrow' /\ FreshSockets'
  BY <1>12, MovesKeep DEF OrderInv, FreshSockets
<1>14. TimesAgree'
  <2>1. /\ new.recv_time <= clock
        /\ \A a \in OnWire(s) : new.recv_time <= a.arrival
        /\ new.request.from = s
        /\ new.recv_time <= rx_time
    BY <1>1, <1>4, <1>5 DEF OrderInv, TimesAgree
  <2>2. \A t : InTurn(t)' <=> InTurn(t)
    BY DEF InTurn
  <2>3. \A t \in Sockets : \A a \in OnWire(t)' : a.arrival <= clock'
    BY <1>8 DEF OrderInv, TimesAgree
  <2>4. ASSUME NEW x \in Elements(p)'
        PROVE  /\ x.recv_time <= clock'
               /\ \A a \in OnWire(x.request.from)' : x.recv_time <= a.arrival
    BY <2>1, <1>8, <1>9 DEF OrderInv, TimesAgree
  <2>5. ASSUME NEW t \in Sockets, InTurn(t)
        PROVE  /\ rx_time <= clock
               /\ \A a \in OnWire(t)' : rx_time <= a.arrival
               /\ \A x \in Elements(p)' : x.request.from = t => x.recv_time <= rx_time
    BY <2>1, <2>5, <1>8, <1>9 DEF OrderInv, TimesAgree
  <2> QED BY <2>2, <2>3, <2>4, <2>5 DEF TimesAgree
<1> QED BY <1>11, <1>13, <1>14 DEF OrderInv

\* Sorting by time keeps the order of a socket's requests, if it is stable.
LEMMA SortedInOrder ==
    ASSUME SessionInv, OrderInv,
           NEW f \in [DOMAIN pending_client_requests_ ->
                      DOMAIN pending_client_requests_],
           \A i, j \in DOMAIN pending_client_requests_ : i < j =>
              LET p == pending_client_requests_
              IN  /\ f[i] # f[j]
                  /\ p[f[i]].recv_time <= p[f[j]].recv_time
                  /\ p[f[i]].recv_time = p[f[j]].recv_time => f[i] < f[j]
    PROVE  InOrder([i \in 1 .. Len(pending_client_requests_) |->
                      pending_client_requests_[f[i]].request])
<1> DEFINE p == pending_client_requests_
           requests == [i \in 1 .. Len(p) |-> p[f[i]].request]
<1>1. p \in Seq(Pending) /\ Len(p) \in Nat /\ DOMAIN p = 1 .. Len(p)
  BY DEF SessionInv, Types
<1>2. Len(requests) = Len(p) /\ \A i \in 1 .. Len(p) : requests[i] = p[f[i]].request
  BY <1>1
<1> HIDE DEF requests
<1> SUFFICES ASSUME NEW i \in 1 .. Len(p), NEW j \in 1 .. Len(p), i < j
             PROVE  Before(requests[i], requests[j])
  BY <1>2 DEF InOrder, requests
<1> DEFINE a == f[i]
           b == f[j]
<1>3. /\ a \in 1 .. Len(p)
      /\ b \in 1 .. Len(p)
      /\ a # b
      /\ p[a].recv_time <= p[b].recv_time
      /\ p[a].recv_time = p[b].recv_time => a < b
  BY <1>1
<1> HIDE DEF a, b
<1>4. p[a].recv_time \in Nat /\ p[b].recv_time \in Nat
  <2>1. p[a] \in Pending /\ p[b] \in Pending
    BY <1>1, <1>3
  <2> QED BY <2>1 DEF Pending
<1>5. CASE a < b
  BY <1>2, <1>3, <1>5 DEF OrderInv, Ordered, WaitingInOrder, a, b
<1>6. CASE b < a
  <2>1. p[b].request.from = p[a].request.from => p[b].recv_time <= p[a].recv_time
    BY <1>3, <1>6 DEF OrderInv, Ordered, WaitingInOrder
  <2>2. p[b].request.from # p[a].request.from
    BY <2>1, <1>3, <1>4, <1>6
  <2> QED BY <2>2, <1>2 DEF Before, a, b
<1> QED BY <1>3, <1>5, <1>6

\* The sorted requests come after everything handed over before.
LEMMA sequenceAndPublishOrder ==
    ASSUME SessionInv, OtherTypes, OrderInv, sequenceAndPublish
    PROVE  OrderInv'
<1> DEFINE p == pending_client_requests_
<1>1. /\ UNCHANGED <<link, next_outgoing_seq_num_, wire, clock, backlog, reset,
                     recv_sockets_, disconnected_sockets_, rcv_buffer_>>
      /\ pc' = "respond"
  BY DEF sequenceAndPublish, network, sockets
<1>2. CASE UNCHANGED <<p, forwarded, longest>>
  BY <1>1, <1>2, QuietOrder
<1>3. CASE ~UNCHANGED <<p, forwarded, longest>>
  <2>1. PICK batch \in Sorted(p) :
           /\ forwarded' = forwarded \o [i \in DOMAIN batch |-> batch[i].request]
           /\ p' = << >>
           /\ longest' = IF Len(batch) > longest THEN Len(batch) ELSE longest
    BY <1>3 DEF sequenceAndPublish
  <2>2. PICK f \in [DOMAIN p -> DOMAIN p] :
           /\ batch = [i \in DOMAIN p |-> p[f[i]]]
           /\ \A i, j \in DOMAIN p : i < j =>
                 /\ f[i] # f[j]
                 /\ p[f[i]].recv_time <= p[f[j]].recv_time
                 /\ (Len(p) <= StableLimit
                     /\ p[f[i]].recv_time = p[f[j]].recv_time) => f[i] < f[j]
    BY DEF Sorted
  <2> DEFINE requests == [i \in 1 .. Len(p) |-> p[f[i]].request]
  <2>3. /\ p \in Seq(Pending)
        /\ Len(p) \in Nat
        /\ DOMAIN p = 1 .. Len(p)
        /\ forwarded \in Seq(Request)
        /\ longest \in Nat
    BY DEF SessionInv, Types, OtherTypes
  <2>4. [i \in DOMAIN batch |-> batch[i].request] = requests
    BY <2>2, <2>3
  <2>5. \A i \in 1 .. Len(p) : /\ f[i] \in 1 .. Len(p)
                               /\ p[f[i]] \in Pending
                               /\ p[f[i]] \in Elements(p)
    BY <2>3 DEF Elements
  <2>6. batch \in Seq(Pending) /\ Len(batch) = Len(p)
    BY <2>2, <2>3, <2>5
  <2>7. \A i \in 1 .. Len(p) : p[f[i]].request \in Request /\ p[f[i]].request \in Waiting
    BY <2>5 DEF Pending, Waiting
  <2>8. requests \in Seq(Request) /\ Len(requests) = Len(p)
    BY <2>3, <2>7
  <2>9. Elements(requests) \subseteq Waiting
    BY <2>3, <2>7 DEF Elements
  <2>10. Len(p) <= StableLimit => InOrder(requests)
    BY <2>2, SortedInOrder
  <2> HIDE DEF requests
  <2>11. forwarded' = forwarded \o requests
    BY <2>1, <2>4
  <2>12. Precede(Elements(forwarded), Elements(requests))
    BY <2>9 DEF OrderInv, Ordered, Precede, Done
  <2>13. longest' <= StableLimit => longest <= StableLimit /\ Len(p) <= StableLimit
    BY <2>1, <2>3, <2>6, StableLimitAssumption
  <2>14. longest' <= StableLimit => InOrder(forwarded')
    <3> SUFFICES ASSUME longest' <= StableLimit
                 PROVE  InOrder(forwarded \o requests)
      BY <2>11
    <3>1. InOrder(forwarded) /\ InOrder(requests)
      BY <2>10, <2>13 DEF OrderInv, Ordered
    <3> QED BY <3>1, <2>3, <2>8, <2>12, ConcatSet
  <2>15. Elements(forwarded \o requests) \subseteq Elements(forwarded) \cup Elements(requests)
    BY <2>3, <2>8, ConcatSet
  <2>16. /\ Done' \subseteq Done \cup Waiting
         /\ Waiting' = {}
         /\ Elements(p)' = {}
    <3>1. Elements(p)' = {}
      BY <2>1 DEF Elements
    <3>2. Waiting' = {}
      BY <3>1 DEF Waiting
    <3>3. Elements(forwarded)' = Elements(forwarded \o requests)
      BY <2>11 DEF Elements
    <3>4. Done' \subseteq Done \cup Waiting
      BY <3>3, <2>9, <2>15 DEF Done
    <3> QED BY <3>1, <3>2, <3>4
  <2>17. \A t : OnWire(t)' = OnWire(t) /\ Buffered(t)' = Buffered(t)
    BY <1>1 DEF OnWire, Buffered
  <2>18. Ordered'
    <3>1. ASSUME NEW t \in Sockets
          PROVE  LineInOrder(t)'
      <4>1. LineInOrder(t)
        BY DEF OrderInv, Ordered
      <4>2. Precede(Waiting' \cup Done', Buffered(t)' \cup OnWire(t)')
        BY <4>1, <2>16, <2>17 DEF LineInOrder, Precede
      <4> QED BY <4>1, <4>2, <2>17, <1>1 DEF LineInOrder
    <3>2. WaitingInOrder'
      BY <2>1 DEF WaitingInOrder
    <3>3. Precede(Done', Waiting')
      BY <2>16 DEF Precede
    <3> QED BY <3>1, <3>2, <3>3, <2>14 DEF Ordered
  <2>19. \A t \in Sockets : Of(t)' \subseteq Of(t) /\ (Used(t) => Used(t)')
    BY <2>16, <2>17, <1>1 DEF Of, Used
  <2>20. NumbersGrow' /\ FreshSockets'
    BY <2>19, <1>1, MovesKeep DEF OrderInv, FreshSockets
  <2>21. TimesAgree'
    BY <2>16, <2>17, <1>1 DEF OrderInv, TimesAgree
  <2> QED BY <2>18, <2>20, <2>21 DEF OrderInv
<1> QED BY <1>2, <1>3

\* One round of recvCallback() takes the first request out of the buffer.
LEMMA recvCallbackOrder ==
    ASSUME SessionInv, OrderInv, recvCallback
    PROVE  OrderInv'
<1>1. PICK s \in Sockets :
         /\ InTurn(s)
         /\ rcv_buffer_[s] # << >>
         /\ rcv_buffer_' = [rcv_buffer_ EXCEPT ![s] = Tail(rcv_buffer_[s])]
         /\ \/ UNCHANGED pending_client_requests_
            \/ pending_client_requests_' =
                  Append(pending_client_requests_,
                         [recv_time |-> rx_time, request |-> Head(rcv_buffer_[s])])
  BY DEF recvCallback
<1>2. /\ pc = "callback"
      /\ UNCHANGED <<link, next_outgoing_seq_num_, wire, clock, backlog, reset,
                     recv_sockets_, disconnected_sockets_, pc, turn, rx_time,
                     forwarded, longest>>
  BY DEF recvCallback, network, sockets, queues
<1> QED BY <1>1, <1>2, AcceptOrder

\* What is on its way is in order, from the client to the matching engine.
THEOREM OrderInvariant == Spec => []OrderInv
<1>1. Init => OrderInv
  <2> SUFFICES ASSUME Init PROVE OrderInv
    OBVIOUS
  <2>1. /\ \A s \in Sockets : wire[s] = << >> /\ rcv_buffer_[s] = << >>
        /\ pending_client_requests_ = << >>
        /\ forwarded = << >>
        /\ disconnected_sockets_ = {}
        /\ pc = "poll"
        /\ \A c \in Clients : link[c] = Null
    BY DEF Init
  <2>2. /\ \A s \in Sockets : OnWire(s) = {} /\ Buffered(s) = {}
        /\ Elements(pending_client_requests_) = {}
        /\ Done = {}
    BY <2>1 DEF OnWire, Buffered, Done, Elements
  <2>3. Waiting = {}
    BY <2>2 DEF Waiting
  <2>4. InOrder(<< >>)
    BY DEF InOrder
  <2>5. Ordered
    <3>1. \A s \in Sockets : LineInOrder(s)
      BY <2>1, <2>2, <2>3, <2>4 DEF LineInOrder, Precede
    <3>2. WaitingInOrder
      BY <2>1 DEF WaitingInOrder
    <3> QED BY <3>1, <3>2, <2>1, <2>2, <2>4 DEF Ordered, Precede
  <2>6. NumbersGrow
    BY <2>1 DEF NumbersGrow
  <2>7. FreshSockets
    BY <2>1, <2>2, <2>3 DEF FreshSockets, Of
  <2>8. TimesAgree
    BY <2>1, <2>2 DEF TimesAgree
  <2> QED BY <2>5, <2>6, <2>7, <2>8 DEF OrderInv
<1>2. SessionInv /\ TypeOK /\ OrderInv /\ [Next]_vars => OrderInv'
  <2> SUFFICES ASSUME SessionInv, TypeOK, OrderInv, [Next]_vars
               PROVE  OrderInv'
    OBVIOUS
  <2>1. OtherTypes
    BY DEF TypeOK, OtherTypes
  <2>2. CASE Client
    <3>1. UNCHANGED <<recv_sockets_, disconnected_sockets_, rcv_buffer_, pc, turn,
                      rx_time, pending_client_requests_, forwarded, longest>>
      BY <2>2 DEF Client, sockets, queues
    <3>2. CASE \E c \in Clients, s \in Sockets : Connect(c, s)
      BY <3>1, <3>2, <2>1, ConnectOrder
    <3>3. ASSUME NEW c \in Clients, SendRequest(c)
          PROVE  OrderInv'
      <4>1. PICK s \in Sockets : link[c] = s
        BY <3>3 DEF SendRequest, SessionInv, Types
      <4> QED BY <4>1, <3>1, <3>3, <2>1, SendRequestOrder
    <3>4. CASE \E c \in Clients : Disconnect(c)
      BY <3>1, <3>4, DisconnectOrder
    <3>5. CASE \E s \in Sockets : Reset(s)
      BY <3>1, <3>5, ResetOrder
    <3> QED BY <2>2, <3>2, <3>3, <3>4, <3>5 DEF Client
  <2>3. CASE poll
    BY <2>3, <2>1, pollOrder
  <2>4. CASE Receive
    BY <2>4, <2>1, ReceiveOrder
  <2>5. CASE recvCallback
    BY <2>5, recvCallbackOrder
  <2>6. CASE sequenceAndPublish
    BY <2>6, <2>1, sequenceAndPublishOrder
  <2>7. CASE ReceiveNothing \/ recvCallbackReturns \/ SendResponse \/ RoundEnds
             \/ Answer \/ UNCHANGED vars
    <3>1. UNCHANGED <<link, next_outgoing_seq_num_, wire, clock, backlog, reset,
                      recv_sockets_, disconnected_sockets_, rcv_buffer_,
                      pending_client_requests_, forwarded, longest>>
      BY <2>7 DEF ReceiveNothing, recvCallbackReturns, SendResponse, RoundEnds,
                  Answer, vars, network, sockets, queues
    <3>2. pc' # "callback" \/ UNCHANGED <<pc, turn, rx_time>>
      BY <2>7 DEF ReceiveNothing, recvCallbackReturns, SendResponse, RoundEnds,
                  Answer, vars
    <3> QED BY <3>1, <3>2, QuietOrder
  <2> QED BY <2>2, <2>3, <2>4, <2>5, <2>6, <2>7 DEF Next, Server
<1> QED BY <1>1, <1>2, SessionInvariant, TypeCorrect, PTL DEF Spec

\* The requests of a client reach the matching engine in the order of their
\* numbers and none twice, for every number of clients and sockets and however
\* they are sent, read and sorted together, as long as no batch was too long
\* for std::sort() to be stable (sequenceAndPublish()).
THEOREM InNumberOrder == Spec => []ForwardedInOrder
<1>1. SessionInv /\ OrderInv => ForwardedInOrder
  <2> SUFFICES ASSUME SessionInv, OrderInv, longest <= StableLimit,
                      NEW i \in DOMAIN forwarded, NEW j \in DOMAIN forwarded,
                      i < j, forwarded[i].clientId_ = forwarded[j].clientId_
               PROVE  forwarded[i].seq_num < forwarded[j].seq_num
    BY DEF ForwardedInOrder
  <2>1. i \in 1 .. Len(forwarded) /\ j \in 1 .. Len(forwarded)
    BY DEF SessionInv, Types
  <2>2. forwarded[i].from = forwarded[j].from
    BY <2>1 DEF SessionInv, AcceptedBound, Bound
  <2>3. Before(forwarded[i], forwarded[j])
    BY <2>1 DEF OrderInv, Ordered, InOrder
  <2> QED BY <2>2, <2>3 DEF Before
<1> QED BY <1>1, SessionInvariant, OrderInvariant, PTL
=============================================================================
