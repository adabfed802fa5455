------------------------ MODULE StratumSessionProofs ------------------------
(***************************************************************************)
(* Proofs about StratumSession, for any number of mining threads, jobs and *)
(* connections.                                                            *)
(***************************************************************************)
EXTENDS StratumSession, SequenceTheorems, TLAPS

\* Where the main thread is says what has become of the socket.
MainAndSocket ==
  /\ main = "connect" => socket = "none"
  /\ main = "dial" => socket = "created"
  /\ main = "await" => socket \in {"dialing", "reset", "broken"}
  /\ main \in {"subscribe", "authorize", "receive", "join"} =>
       socket \in {"up", "closing", "reset", "broken"}
  /\ main = "close" => socket \in {"closing", "broken"}
  /\ socket # "none" => conn >= 1

\* Jobs are set in the order they were announced in, each once.
JobOrder ==
  /\ job + waiting <= Len(announced)
  /\ main = "join" => job + waiting < Len(announced)
  /\ \A j \in 1..Len(announced) : announced[j] <= conn

\* A job of the present connection has come through its receive loop, and a
\* share under way is of the job that is set.
JobAndShares ==
  /\ AnnouncedOn(job, conn) =>
       main \in {"receive", "join", "close", "connect", "exited", "killed"}
  /\ \A d \in Devices : th[d] = "submit" => share[d] = job
  /\ \A d \in Devices : th[d] # "off" => job >= 1

Sent(c, kind) == \E k \in 1..Len(received[c]) : received[c][k].kind = kind

\* What has gone out on the present connection, if it is still up.
HandshakeSent ==
  /\ socket = "up" /\ main \in {"authorize", "receive", "join"} => Sent(conn, "subscribe")
  /\ socket = "up" /\ main \in {"receive", "join"} => Sent(conn, "authorize")

\* What the pool has received is of jobs that have been announced.
JobsKnown ==
  \A c \in 1..Len(received) : \A k \in 1..Len(received[c]) :
    received[c][k].job <= Len(announced)

OrderInv   == HandshakeSent /\ JobsKnown /\ HandshakeFirst
SessionInv == TypeOK /\ MainAndSocket /\ JobOrder /\ JobAndShares /\ OrderInv

-----------------------------------------------------------------------------
(* send().                                                                 *)

\* What HandshakeFirst asks of message k of a connection.
Bound(m, c) == m.kind = "authorize" \/ (m.kind = "share" /\ AnnouncedOn(m.job, c))

InOrder(c, k) ==
  Bound(received[c][k], c) =>
    /\ \E j \in 1..(k - 1) : received[c][j].kind = "subscribe"
    /\ received[c][k].kind = "share" => \E j \in 1..(k - 1) : received[c][j].kind = "authorize"

LEMMA HandshakeFirstIs ==
  HandshakeFirst <=> \A c \in 1..Len(received) : \A k \in 1..Len(received[c]) : InOrder(c, k)
  BY DEF HandshakeFirst, InOrder, Bound

\* A message that is delivered is the last of the present connection.
LEMMA DeliveredFacts ==
  ASSUME TypeOK, conn >= 1, NEW m \in Messages, Delivered(m)
  PROVE  /\ received' \in Seq(Seq(Messages)) /\ Len(received') = Len(received)
         /\ \A c \in 1..Len(received) : c # conn => received'[c] = received[c]
         /\ Len(received'[conn]) = Len(received[conn]) + 1
         /\ \A k \in 1..Len(received[conn]) : received'[conn][k] = received[conn][k]
         /\ received'[conn][Len(received[conn]) + 1] = m
         /\ Len(received[conn]) \in Nat /\ conn \in 1..Len(received)
<1> DEFINE r == received[conn]
           t == Append(r, m)
<1>1. conn \in 1..Len(received) /\ received \in Seq(Seq(Messages))
  BY DEF TypeOK
<1>2. r \in Seq(Messages)
  BY <1>1, ElementOfSeq
<1>3. received' = [received EXCEPT ![conn] = t]
  BY DEF Delivered
<1> HIDE DEF r
<1>4. /\ t \in Seq(Messages) /\ Len(t) = Len(r) + 1 /\ Len(r) \in Nat
      /\ \A k \in 1..Len(r) : t[k] = r[k]
      /\ t[Len(r) + 1] = m
  BY <1>2
<1> HIDE DEF t
<1>5. /\ received' \in Seq(Seq(Messages)) /\ Len(received') = Len(received)
      /\ \A c \in 1..Len(received) : received'[c] = IF c = conn THEN t ELSE received[c]
  BY <1>1, <1>3, <1>4, ExceptSeq
<1> QED  BY <1>1, <1>4, <1>5 DEF r

\* Sending keeps the type and the order of what has been received, and says
\* what the connection then has received if it is still up.
LEMMA SendFacts ==
  ASSUME TypeOK, HandshakeFirst, JobsKnown, conn >= 1, NEW m \in Messages, Send(m),
         conn' = conn, m.job <= Len(announced),
         socket = "up" /\ Bound(m, conn) =>
           Sent(conn, "subscribe") /\ (m.kind = "share" => Sent(conn, "authorize"))
  PROVE  /\ received' \in Seq(Seq(Messages)) /\ Len(received') = Len(received)
         /\ unread' \in 0..SendBuffer /\ waiting' = waiting /\ announced' = announced
         /\ HandshakeFirst' /\ JobsKnown'
         /\ \/ socket' = socket
            \/ socket \in {"closing", "reset"} /\ socket' = "broken"
         /\ \A kind : Sent(conn, kind) => Sent(conn, kind)'
         /\ socket' = "up" => Sent(conn, m.kind)'
<1>1. CASE Delivered(m)
  <2> DEFINE n == Len(received[conn])
  <2>1. /\ received' \in Seq(Seq(Messages)) /\ Len(received') = Len(received)
        /\ \A c \in 1..Len(received) : c # conn => received'[c] = received[c]
        /\ Len(received'[conn]) = n + 1
        /\ \A k \in 1..n : received'[conn][k] = received[conn][k]
        /\ received'[conn][n + 1] = m
        /\ n \in Nat /\ conn \in 1..Len(received)
    BY <1>1, DeliveredFacts
  <2> HIDE DEF n
  <2>2. \A kind : Sent(conn, kind) => \E k \in 1..n : received'[conn][k].kind = kind
    BY <2>1 DEF Sent, n
  <2>3. \A kind : Sent(conn, kind) => Sent(conn, kind)'
    <3>1. \A k \in 1..n : k \in 1..Len(received'[conn]) /\ conn' = conn
      BY <2>1
    <3> QED  BY <2>2, <3>1 DEF Sent
  <2>4. Sent(conn, m.kind)'
    <3>1. n + 1 \in 1..Len(received'[conn]) /\ conn' = conn
      BY <2>1
    <3> QED  BY <2>1, <3>1 DEF Sent
  <2>5. /\ unread' \in 0..SendBuffer
        /\ UNCHANGED <<waiting, socket, announced, conn>>
    BY <1>1, SessionAssumption DEF Delivered, TypeOK
  <2>6. ASSUME NEW c \in 1..Len(received), NEW k \in 1..Len(received'[c])
        PROVE  InOrder(c, k)'
    <3>1. CASE c # conn
      <4>1. InOrder(c, k)
        BY <2>1, <3>1, HandshakeFirstIs
      <4> QED  BY <2>1, <2>5, <3>1, <4>1 DEF InOrder, Bound, AnnouncedOn
    <3>2. CASE c = conn /\ k \in 1..n
      <4>1. InOrder(conn, k)
        BY <2>1, <3>2, HandshakeFirstIs DEF n
      <4>2. \A j \in 1..(k - 1) : received'[conn][j] = received[conn][j]
        BY <2>1, <3>2
      <4> QED  BY <2>1, <2>5, <3>2, <4>1, <4>2 DEF InOrder, Bound, AnnouncedOn
    <3>3. CASE c = conn /\ k = n + 1
      <4>1. received'[c][k] = m /\ k - 1 = n
        BY <2>1, <3>3
      <4>2. socket = "up"
        BY <1>1 DEF Delivered
      <4>3. Bound(m, conn)' <=> Bound(m, conn)
        BY <2>5 DEF Bound, AnnouncedOn
      <4> QED  BY <2>1, <2>2, <3>3, <4>1, <4>2, <4>3 DEF InOrder, Bound
    <3> QED  BY <2>1, <3>1, <3>2, <3>3
  <2>7. HandshakeFirst'
    BY <2>1, <2>6, HandshakeFirstIs DEF HandshakeFirst, InOrder, Bound
  <2>8. JobsKnown'
    <3>1. ASSUME NEW c \in 1..Len(received), NEW k \in 1..Len(received'[c])
          PROVE  received'[c][k].job <= Len(announced)
      <4>1. CASE c # conn
        BY <2>1, <4>1 DEF JobsKnown
      <4>2. CASE c = conn /\ k \in 1..n
        BY <2>1, <4>2 DEF JobsKnown, n
      <4>3. CASE c = conn /\ k = n + 1
        BY <2>1, <4>3
      <4> QED  BY <2>1, <4>1, <4>2, <4>3
    <3> QED  BY <2>1, <2>5, <3>1 DEF JobsKnown
  <2> QED  BY <2>1, <2>3, <2>4, <2>7, <2>5, <2>8
<1>2. CASE Discarded \/ Refused
  <2>1. /\ UNCHANGED poolVars
        /\ socket' # "up"
        /\ socket' = socket \/ (socket \in {"closing", "reset"} /\ socket' = "broken")
    BY <1>2 DEF Discarded, Refused
  <2>2. HandshakeFirst' /\ JobsKnown'
    BY <2>1 DEF poolVars, HandshakeFirst, JobsKnown, AnnouncedOn
  <2>3. \A kind : Sent(conn, kind) => Sent(conn, kind)'
    BY <2>1 DEF poolVars, Sent
  <2> QED  BY <2>1, <2>2, <2>3 DEF poolVars, TypeOK
<1> QED  BY <1>1, <1>2 DEF Send
-----------------------------------------------------------------------------
(* The invariant.                                                          *)

LEMMA InitInv == Init => SessionInv
<1> SUFFICES ASSUME Init PROVE SessionInv
  OBVIOUS
<1>1. received \in Seq(Seq(Messages)) /\ Len(received) = 0
  BY EmptySeq DEF Init
<1>2. TypeOK
  BY <1>1, SessionAssumption, EmptySeq DEF Init, TypeOK, SocketStates
<1>3. MainAndSocket /\ JobOrder /\ JobAndShares /\ OrderInv
  BY <1>1 DEF Init, MainAndSocket, JobOrder, JobAndShares, OrderInv, HandshakeSent,
     JobsKnown, HandshakeFirst, AnnouncedOn
<1> QED  BY <1>2, <1>3 DEF SessionInv

\* The handshake, by the main thread.
LEMMA HandshakeStep ==
  ASSUME SessionInv, Subscribe \/ Authorize
  PROVE  SessionInv'
<1> USE DEF SessionInv, OrderInv
<1>1. PICK m \in Messages :
        /\ Send(m) /\ m.job = 0
        /\ \/ main = "subscribe" /\ main' = "authorize" /\ m.kind = "subscribe"
           \/ main = "authorize" /\ main' = "receive" /\ m.kind = "authorize"
  <2>1. \A kind \in {"subscribe", "authorize"} :
          Request(kind) \in Messages /\ Request(kind).job = 0 /\ Request(kind).kind = kind
    BY SessionAssumption DEF Request, Messages
  <2> QED  BY <2>1 DEF Subscribe, Authorize, MainAt
<1>2. UNCHANGED <<conn, job, threadVars>>
  BY DEF Subscribe, Authorize
<1>3. socket # "none" /\ conn >= 1
  BY <1>1 DEF MainAndSocket
<1>4. /\ received' \in Seq(Seq(Messages)) /\ Len(received') = Len(received)
      /\ unread' \in 0..SendBuffer /\ waiting' = waiting /\ announced' = announced
      /\ HandshakeFirst' /\ JobsKnown'
      /\ socket' = socket \/ (socket \in {"closing", "reset"} /\ socket' = "broken")
      /\ \A kind : Sent(conn, kind) => Sent(conn, kind)'
      /\ socket' = "up" => Sent(conn, m.kind)'
  <2>1. socket = "up" /\ Bound(m, conn) =>
          Sent(conn, "subscribe") /\ (m.kind = "share" => Sent(conn, "authorize"))
    BY <1>1 DEF HandshakeSent, Bound
  <2>2. m.job <= Len(announced)
    BY <1>1 DEF TypeOK
  <2> QED  BY <1>1, <1>2, <1>3, <2>1, <2>2, SendFacts
<1>5. TypeOK'
  BY <1>1, <1>2, <1>4 DEF TypeOK, SocketStates, threadVars
<1>6. MainAndSocket' /\ JobOrder'
  BY <1>1, <1>2, <1>3, <1>4 DEF MainAndSocket, JobOrder
<1>8. JobAndShares'
  BY <1>1, <1>2, <1>4 DEF JobAndShares, AnnouncedOn, threadVars
<1>7. HandshakeSent'
  BY <1>1, <1>2, <1>4 DEF HandshakeSent
<1> QED  BY <1>4, <1>5, <1>6, <1>7, <1>8

\* A share, by a mining thread, whatever the main thread is doing.
LEMMA SubmitStep ==
  ASSUME SessionInv, NEW d \in Devices, Submit(d)
  PROVE  SessionInv'
<1> USE DEF SessionInv, OrderInv
<1> DEFINE m == [kind |-> "share", job |-> share[d]]
<1>1. /\ th[d] = "submit" /\ main \notin {"exited", "killed"}
      /\ \E to \in {"off", "search"} : th' = [th EXCEPT ![d] = to]
      /\ Send(m)
      /\ UNCHANGED <<main, conn, job, share>>
  BY DEF Submit, ThreadAt, Ended
<1>2. share[d] = job /\ m \in Messages /\ m.kind = "share" /\ m.job = job
  <2>1. share[d] = job /\ job \in 0..MaxJobs
    BY <1>1 DEF JobAndShares, TypeOK
  <2> QED  BY <2>1 DEF Messages
<1> HIDE DEF m
<1>3. job \in 1..Len(announced) /\ conn >= 1
  <2>1. job \in 1..Len(announced)
    BY <1>1 DEF JobAndShares, JobOrder, TypeOK
  <2>2. announced[job] \in 1..MaxConns /\ announced[job] <= conn
    BY <2>1, ElementOfSeq DEF JobOrder, TypeOK
  <2> QED  BY <2>1, <2>2 DEF TypeOK
<1>4. /\ received' \in Seq(Seq(Messages)) /\ Len(received') = Len(received)
      /\ unread' \in 0..SendBuffer /\ waiting' = waiting /\ announced' = announced
      /\ HandshakeFirst' /\ JobsKnown'
      /\ socket' = socket \/ (socket \in {"closing", "reset"} /\ socket' = "broken")
      /\ \A kind : Sent(conn, kind) => Sent(conn, kind)'
  <2>1. socket = "up" /\ Bound(m, conn) =>
          Sent(conn, "subscribe") /\ (m.kind = "share" => Sent(conn, "authorize"))
    BY <1>1, <1>2, <1>3 DEF HandshakeSent, JobAndShares, MainAndSocket, Bound
  <2> QED  BY <1>1, <1>2, <1>3, <2>1, SendFacts
<1>5. TypeOK'
  BY <1>1, <1>4 DEF TypeOK, SocketStates
<1>6. MainAndSocket' /\ JobOrder'
  BY <1>1, <1>4 DEF MainAndSocket, JobOrder
<1>7. JobAndShares'
  BY <1>1, <1>4 DEF JobAndShares, AnnouncedOn, TypeOK
<1>8. HandshakeSent'
  BY <1>1, <1>4 DEF HandshakeSent
<1> QED  BY <1>4, <1>5, <1>6, <1>7, <1>8

\* A new socket: nothing has been received on it.
LEMMA CreateSocketStep ==
  ASSUME SessionInv, CreateSocket
  PROVE  SessionInv'
<1> USE DEF SessionInv, OrderInv
<1>1. /\ main = "connect" /\ main' = "dial" /\ socket' = "created"
      /\ conn < MaxConns /\ conn' = conn + 1
      /\ unread' = 0 /\ received' = Append(received, <<>>)
      /\ UNCHANGED <<announced, waiting, job, threadVars>>
  BY DEF CreateSocket, MainAt
<1>2. received \in Seq(Seq(Messages)) /\ Len(received) = conn /\ conn \in 0..MaxConns
  BY DEF TypeOK
<1>3. /\ received' \in Seq(Seq(Messages)) /\ Len(received') = Len(received) + 1
      /\ \A c \in 1..Len(received) : received'[c] = received[c]
      /\ received'[Len(received) + 1] = <<>>
  <2>1. <<>> \in Seq(Messages)
    BY EmptySeq
  <2> QED  BY <1>1, <1>2, <2>1, AppendProperties
<1>4. TypeOK'
  BY <1>1, <1>2, <1>3, SessionAssumption DEF TypeOK, SocketStates, threadVars
<1>5. MainAndSocket' /\ HandshakeSent' /\ JobOrder'
  <2>1. \A j \in 1..Len(announced) : announced[j] <= conn'
    <3> SUFFICES ASSUME NEW j \in 1..Len(announced) PROVE announced[j] <= conn'
      OBVIOUS
    <3>1. announced[j] \in 1..MaxConns /\ announced[j] <= conn
      BY ElementOfSeq DEF JobOrder, TypeOK
    <3> QED  BY <1>1, <1>2, <3>1, SessionAssumption
  <2> QED  BY <1>1, <1>2, <2>1 DEF MainAndSocket, JobOrder, HandshakeSent
<1>7. JobAndShares'
  <2>1. ~AnnouncedOn(job, conn')
    BY <1>1, <1>2 DEF AnnouncedOn, JobOrder, TypeOK
  <2> QED  BY <1>1, <2>1 DEF JobAndShares, AnnouncedOn, threadVars
<1>8. JobsKnown'
  <2>1. ASSUME NEW c \in 1..Len(received'), NEW k \in 1..Len(received'[c])
        PROVE  received'[c][k].job <= Len(announced)
    <3>1. c \in 1..Len(received) /\ received'[c] = received[c]
      <4>1. c # Len(received) + 1
        BY <1>3
      <4> QED  BY <1>2, <1>3, <4>1
    <3> QED  BY <3>1 DEF JobsKnown
  <2> QED  BY <1>1, <2>1 DEF JobsKnown
<1>6. HandshakeFirst'
  <2>1. ASSUME NEW c \in 1..Len(received'), NEW k \in 1..Len(received'[c])
        PROVE  InOrder(c, k)'
    <3>1. c \in 1..Len(received) /\ received'[c] = received[c]
      <4>1. c # Len(received) + 1
        BY <1>3
      <4> QED  BY <1>2, <1>3, <4>1
    <3>2. InOrder(c, k)
      BY <3>1, HandshakeFirstIs
    <3> QED  BY <1>1, <3>1, <3>2 DEF InOrder, Bound, AnnouncedOn
  <2> QED  BY <2>1 DEF HandshakeFirst, InOrder, Bound
<1> QED  BY <1>4, <1>5, <1>6, <1>7, <1>8

\* A new job: the messages of the pool, older than it, are of older jobs.
LEMMA AnnounceStep ==
  ASSUME SessionInv, PoolAnnounces
  PROVE  SessionInv'
<1> USE DEF SessionInv, OrderInv
<1>1. /\ socket = "up" /\ Len(announced) < MaxJobs /\ waiting < MaxWaiting
      /\ waiting' = waiting + 1 /\ announced' = Append(announced, conn)
      /\ UNCHANGED <<main, conn, socket, unread, received, job, threadVars>>
  BY DEF PoolAnnounces
<1>2. conn \in 1..MaxConns /\ announced \in Seq(1..MaxConns)
  BY <1>1 DEF MainAndSocket, TypeOK
<1>3. /\ announced' \in Seq(1..MaxConns) /\ Len(announced') = Len(announced) + 1
      /\ \A j \in 1..Len(announced) : announced'[j] = announced[j]
      /\ announced'[Len(announced) + 1] = conn /\ Len(announced) \in Nat
  BY <1>1, <1>2, AppendProperties
<1>4. TypeOK' /\ MainAndSocket' /\ HandshakeSent'
  BY <1>1, <1>3, SessionAssumption
  DEF TypeOK, MainAndSocket, HandshakeSent, Sent, threadVars
<1>5. JobOrder'
  BY <1>1, <1>2, <1>3 DEF JobOrder, TypeOK
<1>7. JobAndShares'
  <2>1. AnnouncedOn(job, conn)' <=> AnnouncedOn(job, conn)
    BY <1>1, <1>3, SessionAssumption DEF AnnouncedOn, JobOrder, TypeOK
  <2> QED  BY <1>1, <2>1 DEF JobAndShares, threadVars
<1>8. JobsKnown' /\ HandshakeFirst'
  <2>1. ASSUME NEW c \in 1..Len(received), NEW k \in 1..Len(received[c])
        PROVE  received[c][k].job <= Len(announced') /\ InOrder(c, k)'
    <3>1. received[c][k].job \in 0..MaxJobs
      <4>1. received[c] \in Seq(Messages)
        BY ElementOfSeq DEF TypeOK
      <4>2. received[c][k] \in Messages
        BY <4>1, ElementOfSeq
      <4> QED  BY <4>2 DEF Messages
    <3>2. received[c][k].job <= Len(announced) /\ InOrder(c, k)
      BY HandshakeFirstIs DEF JobsKnown
    <3>3. AnnouncedOn(received[c][k].job, c)' <=> AnnouncedOn(received[c][k].job, c)
      <4>1. received'[c][k].job = received[c][k].job
        BY <1>1
      <4>2. CASE received[c][k].job \in 1..Len(announced)
        BY <1>3, <4>1, <4>2 DEF AnnouncedOn
      <4>3. CASE received[c][k].job = 0
        BY <4>1, <4>3 DEF AnnouncedOn
      <4> QED  BY <1>3, <3>1, <3>2, <4>2, <4>3
    <3> QED  BY <1>1, <1>3, <3>1, <3>2, <3>3, SessionAssumption DEF InOrder, Bound
  <2> QED  BY <1>1, <2>1 DEF JobsKnown, HandshakeFirst, InOrder, Bound
<1> QED  BY <1>4, <1>5, <1>7, <1>8

\* The other steps leave alone what has been announced and received.
LEMMA QuietStep ==
  ASSUME SessionInv, UNCHANGED <<announced, received, conn>>, TypeOK', MainAndSocket',
         JobOrder', JobAndShares',
         socket' = "up" /\ main' \in {"authorize", "receive", "join"} =>
           /\ socket = "up"
           /\ main = main' \/ (main \in {"receive", "join"} /\ main' \in {"receive", "join"})
  PROVE  SessionInv'
<1>1. HandshakeFirst' /\ JobsKnown'
  BY DEF SessionInv, OrderInv, HandshakeFirst, JobsKnown, AnnouncedOn
<1>2. HandshakeSent'
  BY DEF SessionInv, OrderInv, HandshakeSent, Sent
<1> QED  BY <1>1, <1>2 DEF SessionInv, OrderInv

LEMMA NextInv == SessionInv /\ [Next]_vars => SessionInv'
<1> SUFFICES ASSUME SessionInv, [Next]_vars PROVE SessionInv'
  OBVIOUS
<1> USE SessionAssumption
    DEF TypeOK, SocketStates, Lost, MainAndSocket, JobOrder, JobAndShares, AnnouncedOn,
        poolVars, threadVars
<1>0. TypeOK /\ MainAndSocket /\ JobOrder /\ JobAndShares
  BY DEF SessionInv
<1>1. CASE CreateSocket
  BY <1>1, CreateSocketStep
<1>2. CASE Subscribe \/ Authorize
  BY <1>2, HandshakeStep
<1>3. ASSUME NEW d \in Devices, Submit(d) PROVE SessionInv'
  BY <1>3, SubmitStep
<1>4. CASE Dial
  BY <1>0, <1>4, QuietStep DEF Dial, MainAt
<1>5. CASE Connected
  BY <1>0, <1>5, QuietStep DEF Connected, MainAt
<1>6. CASE ConnectFails
  BY <1>0, <1>6, QuietStep DEF ConnectFails
<1>7. CASE ReceiveJob
  BY <1>0, <1>7, QuietStep DEF ReceiveJob, MainAt
<1>8. CASE SetJob
  BY <1>0, <1>8, QuietStep DEF SetJob, MainAt, LastReceived
<1>9. CASE ReceiveEnd \/ CloseSocket
  BY <1>0, <1>9, QuietStep DEF ReceiveEnd, CloseSocket, MainAt
<1>10. CASE ReceiveFails
  BY <1>0, <1>10, QuietStep DEF ReceiveFails, MainAt
<1>11. ASSUME NEW d \in Devices, FindShare(d) PROVE SessionInv'
  BY <1>0, <1>11, QuietStep DEF FindShare, ThreadAt, Ended
<1>12. ASSUME NEW d \in Devices, SearchEnds(d) \/ SearchFails(d) PROVE SessionInv'
  BY <1>0, <1>12, QuietStep DEF SearchEnds, SearchFails, ThreadAt, Ended
<1>13. CASE Killed
  BY <1>0, <1>13, QuietStep DEF Killed, Ended
<1>14. CASE PoolReads
  BY <1>0, <1>14, QuietStep DEF PoolReads
<1>15. CASE PoolAnnounces
  BY <1>15, AnnounceStep
<1>16. CASE PoolCloses \/ PoolRefuses
  BY <1>0, <1>16, QuietStep DEF PoolCloses, PoolRefuses
<1>17. CASE UNCHANGED vars
  BY <1>0, <1>17, QuietStep DEF vars
<1> QED
  BY <1>1, <1>2, <1>3, <1>4, <1>5, <1>6, <1>7, <1>8, <1>9, <1>10, <1>11, <1>12, <1>13,
     <1>14, <1>15, <1>16, <1>17 DEF Next, MainStep, Done

LEMMA InvHolds == Spec => []SessionInv
  BY InitInv, NextInv, PTL DEF Spec

-----------------------------------------------------------------------------
(* Theorems.                                                               *)

\* Every variable of the session keeps its type, for any number of mining threads,
\* jobs and connections.
THEOREM TypeCorrect == Spec => []TypeOK
<1>1. SessionInv => TypeOK
  BY DEF SessionInv
<1> QED  BY <1>1, InvHolds, PTL

\* Although mining threads send on the socket whenever they like, the pool
\* sees the handshake before the first share of its own job.
THEOREM HandshakeComesFirst == Spec => []HandshakeFirst
<1>1. SessionInv => HandshakeFirst
  BY DEF SessionInv, OrderInv
<1> QED  BY <1>1, InvHolds, PTL

\* No share is sent for a job that has been replaced, by a later job of the same
\* connection or of another.
THEOREM OnlyNewestJob == Spec => NewestJobOnly
<1>1. SessionInv /\ [Next]_vars =>
        [\A d \in Devices : th[d] = "submit" /\ th'[d] # "submit" => share[d] = job]_vars
  BY DEF SessionInv, JobAndShares
<1> QED  BY <1>1, InvHolds, PTL DEF Spec, NewestJobOnly

\* The session uses the mining engine as MiningEngine allows.
LEMMA EngineStep == SessionInv /\ [Next]_vars => [Engine!Next]_(Engine!vars)
<1> SUFFICES ASSUME SessionInv, [Next]_vars
             PROVE  Engine!Next \/ UNCHANGED Engine!vars
  OBVIOUS
<1> DEFINE W == [d \in Devices |-> IF th[d] = "off" THEN 0 ELSE job]
           O == [d \in Devices |-> IF th[d] = "submit" THEN share[d] ELSE 0]
<1>0. /\ th \in [Devices -> {"off", "search", "submit"}] /\ share \in [Devices -> 0..MaxJobs]
      /\ job \in Nat
      /\ \A d \in Devices : th[d] = "submit" => share[d] = job
      /\ \A d \in Devices : th[d] # "off" => job >= 1
  BY SessionAssumption DEF SessionInv, TypeOK, JobAndShares
<1>1. CASE SetJob
  <2>1. /\ job' = LastReceived
        /\ \A d \in Devices : th[d] = "off" /\ th'[d] = "search"
        /\ share' = share
    BY <1>0, <1>1 DEF SetJob
  <2>2. PICK j \in 1..MaxJobs : j = LastReceived
    <3>1. /\ job \in Nat /\ waiting \in Nat /\ Len(announced) <= MaxJobs
          /\ announced \in Seq(1..MaxConns)
          /\ job + waiting < Len(announced)
      BY <1>1 DEF SetJob, MainAt, SessionInv, JobOrder, TypeOK
    <3>2. Len(announced) \in Nat
      BY <3>1, LenProperties
    <3>3. Len(announced) - waiting \in 1..MaxJobs
      BY <3>1, <3>2, SessionAssumption
    <3> QED  BY <3>3 DEF LastReceived
  <2>3. Engine!SetJob(j)
    BY <2>1, <2>2 DEF Engine!SetJob, Engine!Resting
  <2> QED  BY <2>3 DEF Engine!Next
<1>2. ASSUME NEW d \in Devices, FindShare(d)
      PROVE  Engine!Offer(d)
  <2>1. /\ th[d] = "search" /\ th' = [th EXCEPT ![d] = "submit"]
        /\ share' = [share EXCEPT ![d] = job] /\ job' = job
    BY <1>2 DEF FindShare, ThreadAt
  <2>2. W[d] = job /\ W[d] # 0 /\ O[d] = 0
    BY <1>0, <2>1
  <2>3. W' = W
    BY <1>0, <2>1
  <2>4. O' = [O EXCEPT ![d] = W[d]]
    <3>1. O'[d] = job
      BY <1>0, <2>1
    <3>2. \A e \in Devices : e # d => O'[e] = O[e]
      BY <1>0, <2>1
    <3> QED  BY <2>2, <3>1, <3>2
  <2> QED  BY <2>1, <2>2, <2>3, <2>4 DEF Engine!Offer, Engine!Resting, Engine!Submitting
<1>3. ASSUME NEW d \in Devices, Submit(d)
      PROVE  Engine!Sent(d)
  <2>1. /\ th[d] = "submit" /\ UNCHANGED <<share, job>>
        /\ \/ th' = [th EXCEPT ![d] = "off"]
           \/ th' = [th EXCEPT ![d] = "search"]
    BY <1>3 DEF Submit, ThreadAt
  <2>2. O[d] # 0
    BY <1>0, <2>1
  <2>3. O' = [O EXCEPT ![d] = 0]
    BY <1>0, <2>1
  <2>4. W' \in {W, [W EXCEPT ![d] = 0]}
    <3>1. CASE th' = [th EXCEPT ![d] = "off"]
      BY <1>0, <2>1, <3>1
    <3>2. CASE th' = [th EXCEPT ![d] = "search"]
      BY <1>0, <2>1, <3>2
    <3> QED  BY <2>1, <3>1, <3>2
  <2> QED  BY <2>1, <2>2, <2>3, <2>4 DEF Engine!Sent, Engine!Submitting
<1>4. ASSUME NEW d \in Devices, SearchEnds(d) \/ SearchFails(d)
      PROVE  Engine!Rest(d)
  <2>1. th[d] = "search" /\ th' = [th EXCEPT ![d] = "off"] /\ UNCHANGED <<share, job>>
    BY <1>4 DEF SearchEnds, SearchFails, ThreadAt
  <2> QED  BY <1>0, <2>1 DEF Engine!Rest, Engine!Submitting
<1>5. CASE UNCHANGED <<job, threadVars>>
  BY <1>5 DEF Engine!vars, threadVars
<1> QED
  BY <1>1, <1>2, <1>3, <1>4, <1>5
  DEF Next, MainStep, Engine!Next, CreateSocket, Dial, Connected, ConnectFails, Subscribe,
      Authorize, ReceiveJob, ReceiveEnd, CloseSocket, ReceiveFails, Killed, PoolReads,
      PoolAnnounces, PoolCloses, PoolRefuses, Done, vars

\* No job is replaced while a device works or its share is under way.
THEOREM SessionUsesEngine == Spec => UsesEngine
<1>1. Init => Engine!Init
  BY DEF Init, Engine!Init
<1>2. SessionInv /\ [Next]_vars => [Engine!Next]_(Engine!vars)
  BY EngineStep
<1> QED
  BY <1>1, <1>2, InvHolds, PTL DEF Spec, UsesEngine, Engine!Spec

=============================================================================
