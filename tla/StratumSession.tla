--------------------------- MODULE StratumSession ---------------------------
(***************************************************************************)
(* The life of the pool connection (stratum.cpp): the main thread connects,*)
(* subscribes, authorizes, waits for jobs and reconnects, while the mining *)
(* threads send their shares on the same socket, through the same `sock',  *)
(* at any moment of that.                                                  *)
(*                                                                         *)
(* The mining engine is reduced to what KawPowHost shows of it: set_job    *)
(* waits for every thread to return and then starts them all.  The socket  *)
(* and the pool are external: the state of the connection decides what     *)
(* send and recv do, as on Linux.  An error of the connection is reported  *)
(* once, to the first call that sees it; a send after that raises SIGPIPE, *)
(* which is not ignored (nor is MSG_NOSIGNAL given), and kills.            *)
(*                                                                         *)
(* Jobs are numbered in the order in which the pool announces them.        *)
(***************************************************************************)
EXTENDS Naturals, Sequences

CONSTANTS
  Devices,      \* the mining threads
  SendBuffer,   \* bound: messages the connection holds unread
  MaxJobs,      \* bound: jobs announced
  MaxWaiting,   \* bound: those announced and not yet received
  MaxConns,     \* bound: connections
  MaxMessages   \* bound: no share is found once so many messages have reached
                \* the pool on the present connection

ASSUME SessionAssumption ==
  /\ SendBuffer \in Nat \ {0} /\ MaxJobs \in Nat /\ MaxWaiting \in Nat
  /\ MaxConns \in Nat /\ MaxMessages \in Nat

VARIABLES
  main,      \* where the main thread is; or how the process has ended
  conn,      \* the number of the latest connection
  socket,    \* the state of the connection `sock' names, see below
  unread,    \* messages sent and not yet read by the pool
  announced, \* history: the connection each job was announced on
  waiting,   \* jobs announced and not yet received
  received,  \* history: what has reached the pool on each connection, in order
  job,       \* the job that is set, 0 before the first
  th,        \* where each mining thread is
  share      \* the job of the share each thread submits

poolVars   == <<unread, announced, received, waiting>>
threadVars == <<th, share>>
vars == <<main, conn, socket, poolVars, job, threadVars>>

Ended == main \in {"exited", "killed"}

\* The job that came last through the receive loop.
LastReceived == Len(announced) - waiting

(***************************************************************************)
(* The states of a connection: no socket, or a closed one; a socket not    *)
(* connected yet; being connected, not blocking; up; closed by the pool;   *)
(* reset by it, with the error still to be reported; broken: the error has *)
(* been reported, or it is EPIPE, the answer to a message sent to a pool   *)
(* that had closed.                                                        *)
(***************************************************************************)
SocketStates == {"none", "created", "dialing", "up", "closing", "reset", "broken"}
Lost         == {"closing", "reset", "broken"}

Init ==
  /\ main = "connect" /\ conn = 0 /\ socket = "none"
  /\ unread = 0 /\ announced = <<>> /\ received = <<>> /\ waiting = 0
  /\ job = 0
  /\ th = [d \in Devices |-> "off"] /\ share = [d \in Devices |-> 0]

-----------------------------------------------------------------------------
(* send().                                                                 *)

Request(kind) == [kind |-> kind, job |-> 0]

\* There is room in the buffers; send blocks until there is.
Delivered(m) ==
  /\ socket = "up" /\ unread < SendBuffer
  /\ received' = [received EXCEPT ![conn] = Append(@, m)]
  /\ unread' = unread + 1
  /\ UNCHANGED <<socket, announced, waiting>>

\* The pool has closed: the message is accepted, and answered by a reset, which
\* comes before the next call or later.
Discarded ==
  /\ socket = "closing" /\ socket' \in {"closing", "broken"}
  /\ UNCHANGED poolVars

\* An error is returned (and logged): no such descriptor, not connected yet and
\* not blocking, or the reset, which is thereby reported.
Refused ==
  /\ socket \in {"none", "dialing", "reset"}
  /\ socket' = IF socket = "reset" THEN "broken" ELSE socket
  /\ UNCHANGED poolVars

Send(m) == Delivered(m) \/ Discarded \/ Refused

\* SIGPIPE: a socket that is not connected, or no longer.
Broken == socket \in {"created", "broken"}

-----------------------------------------------------------------------------
(* The main thread.                                                        *)

MainAt(from, to) == main = from /\ main' = to

\* socket(), from now on named by `sock'.
CreateSocket ==
  /\ conn < MaxConns                                   \* bound
  /\ MainAt("connect", "dial")
  /\ socket' = "created" /\ conn' = conn + 1
  /\ unread' = 0 /\ received' = Append(received, <<>>)
  /\ UNCHANGED <<announced, waiting, job, threadVars>>

\* ::connect on the non-blocking socket: EINPROGRESS.
Dial ==
  /\ MainAt("dial", "await")
  /\ socket' = "dialing"
  /\ UNCHANGED <<conn, poolVars, job, threadVars>>

\* select reports the connection made; the socket blocks again.  So it does when
\* the connection was refused and a mining thread's send was given the error.
Connected ==
  /\ MainAt("await", "subscribe")
  /\ socket \in {"dialing", "broken"}
  /\ socket' = IF socket = "dialing" THEN "up" ELSE socket
  /\ UNCHANGED <<conn, poolVars, job, threadVars>>

\* exit(1): no socket, no such host, refused, or no answer in 10 seconds.
ConnectFails ==
  /\ main \in {"connect", "dial", "await"} /\ main' = "exited"
  /\ UNCHANGED <<conn, socket, poolVars, job, threadVars>>

Subscribe ==
  /\ MainAt("subscribe", "authorize")
  /\ Send(Request("subscribe"))
  /\ UNCHANGED <<conn, job, threadVars>>

\* (Faulty) the receive loop is entered without authorize().
AuthorizeForgotten ==
  /\ MainAt("authorize", "receive")
  /\ UNCHANGED <<conn, socket, poolVars, job, threadVars>>

Authorize ==
  /\ MainAt("authorize", "receive")
  /\ Send(Request("authorize"))
  /\ UNCHANGED <<conn, job, threadVars>>

\* A mining.notify is received, and set_job begins to stop the threads.  What
\* was announced before the connection was lost is still received.
ReceiveJob ==
  /\ MainAt("receive", "join")
  /\ waiting > 0 /\ waiting' = waiting - 1
  /\ UNCHANGED <<conn, socket, unread, announced, received, job, threadVars>>

\* (Faulty) set_job does not wait for a thread that is submitting.
SetJobEarly ==
  /\ MainAt("join", "receive")
  /\ \A d \in Devices : th[d] # "search"
  /\ job' = LastReceived
  /\ th' = [d \in Devices |-> IF th[d] = "off" THEN "search" ELSE th[d]]
  /\ UNCHANGED <<conn, socket, poolVars, share>>

\* Every thread has returned; the new job is set and they start again.
SetJob ==
  /\ MainAt("join", "receive")
  /\ \A d \in Devices : th[d] = "off"
  /\ job' = LastReceived
  /\ th' = [d \in Devices |-> "search"]
  /\ UNCHANGED <<conn, socket, poolVars, share>>

\* (Faulty) only a clean end leads to a new connection.
ReceiveEndOnly ==
  /\ MainAt("receive", "close")
  /\ socket \in {"closing", "broken"} /\ waiting = 0
  /\ UNCHANGED <<conn, socket, poolVars, job, threadVars>>

\* recv returns 0, or ECONNRESET, which is thereby reported.
ReceiveEnd ==
  /\ MainAt("receive", "close")
  /\ socket \in Lost /\ waiting = 0
  /\ socket' = IF socket = "reset" THEN "broken" ELSE socket
  /\ UNCHANGED <<conn, poolVars, job, threadVars>>

\* close(sock), and reconnect.  The mining threads are not told.
CloseSocket ==
  /\ MainAt("close", "connect")
  /\ socket' = "none"
  /\ UNCHANGED <<conn, poolVars, job, threadVars>>

\* Another error of poll or recv: the loop is left and main() returns.
ReceiveFails ==
  /\ MainAt("receive", "exited")
  /\ UNCHANGED <<conn, socket, poolVars, job, threadVars>>

-----------------------------------------------------------------------------
(* A mining thread.                                                        *)

ThreadAt(d, from, to) ==
  ~Ended /\ th[d] = from /\ th' = [th EXCEPT ![d] = to]

\* A share is found and submit_share reads the job it goes out under.
FindShare(d) ==
  /\ ThreadAt(d, "search", "submit")
  /\ Len(received[conn]) < MaxMessages                   \* bound
  /\ share' = [share EXCEPT ![d] = job]
  /\ UNCHANGED <<main, conn, socket, poolVars, job>>

\* (Faulty) the search loop goes on without looking at continue_mining.
SubmitIgnoringFlag(d) ==
  /\ ThreadAt(d, "submit", "search")
  /\ Send([kind |-> "share", job |-> share[d]])
  /\ UNCHANGED <<main, conn, job, share>>

\* Stratum::submit: a failure is logged and the share forgotten.  Back in the
\* search loop the thread looks at continue_mining.
Submit(d) ==
  /\ ThreadAt(d, "submit", IF main = "join" THEN "off" ELSE "search")
  /\ Send([kind |-> "share", job |-> share[d]])
  /\ UNCHANGED <<main, conn, job, share>>

\* The search ends when the main thread has cleared continue_mining.
SearchEnds(d) ==
  /\ main = "join" /\ ThreadAt(d, "search", "off")
  /\ UNCHANGED <<main, conn, socket, poolVars, job, share>>

\* The device gave up by itself: no DAG.
SearchFails(d) ==
  /\ ThreadAt(d, "search", "off")
  /\ UNCHANGED <<main, conn, socket, poolVars, job, share>>

\* A send, of any thread, on a broken connection.
Killed ==
  /\ ~Ended /\ Broken
  /\ main \in {"subscribe", "authorize"} \/ \E d \in Devices : th[d] = "submit"
  /\ main' = "killed"
  /\ UNCHANGED <<conn, socket, poolVars, job, threadVars>>

-----------------------------------------------------------------------------
(* The pool (external).                                                    *)

PoolReads ==
  /\ socket = "up" /\ unread > 0
  /\ unread' = unread - 1
  /\ UNCHANGED <<main, conn, socket, announced, received, waiting, job, threadVars>>

PoolAnnounces ==
  /\ socket = "up"
  /\ waiting < MaxWaiting /\ Len(announced) < MaxJobs      \* bounds
  /\ waiting' = waiting + 1
  /\ announced' = Append(announced, conn)
  /\ UNCHANGED <<main, conn, socket, unread, received, job, threadVars>>

\* A connection ends with a reset if the pool closes with something unread, or
\* fails, or if it is cut off on the way.
PoolCloses ==
  /\ socket = "up"
  /\ socket' \in IF unread = 0 THEN {"closing", "reset"} ELSE {"reset"}
  /\ UNCHANGED <<main, conn, poolVars, job, threadVars>>

\* Nobody listens.
PoolRefuses ==
  /\ socket = "dialing" /\ socket' = "reset"
  /\ UNCHANGED <<main, conn, poolVars, job, threadVars>>

MainStep ==
  \/ CreateSocket \/ Dial \/ Connected \/ ConnectFails
  \/ Subscribe \/ Authorize \/ ReceiveJob \/ SetJob
  \/ ReceiveEnd \/ CloseSocket

Done == Ended /\ UNCHANGED vars

Next ==
  \/ MainStep \/ ReceiveFails
  \/ \E d \in Devices :
       FindShare(d) \/ Submit(d) \/ SearchEnds(d) \/ SearchFails(d)
  \/ Killed
  \/ PoolReads \/ PoolAnnounces \/ PoolCloses \/ PoolRefuses
  \/ Done

Spec == Init /\ [][Next]_vars

\* Every thread is scheduled, a running search sees the flag, and a signal comes.
\* The last conjunct is an assumption about the pool: it reads what it is sent.
FairSpec ==
  /\ Spec
  /\ WF_vars(MainStep) /\ WF_vars(Killed)
  /\ \A d \in Devices : WF_vars(Submit(d)) /\ WF_vars(SearchEnds(d))
  /\ WF_vars(PoolReads)

-----------------------------------------------------------------------------
(* Properties.                                                             *)

Messages == [kind : {"subscribe", "authorize", "share"}, job : 0..MaxJobs]

TypeOK ==
  /\ main \in {"connect", "dial", "await", "subscribe", "authorize", "receive",
               "join", "close", "exited", "killed"}
  /\ conn \in 0..MaxConns
  /\ socket \in SocketStates
  /\ unread \in 0..SendBuffer
  /\ announced \in Seq(1..MaxConns) /\ Len(announced) <= MaxJobs
  /\ waiting \in 0..MaxWaiting
  /\ received \in Seq(Seq(Messages)) /\ Len(received) = conn
  /\ job \in 0..MaxJobs
  /\ th \in [Devices -> {"off", "search", "submit"}]
  /\ share \in [Devices -> 0..MaxJobs]

AnnouncedOn(j, c) == j >= 1 /\ announced[j] = c

\* The pool sees subscribe before authorize, and authorize before any share of
\* a job it announced on the connection -- though the mining threads send on
\* the new socket as soon as there is one, even before subscribe does: what it
\* may see earlier are shares of an earlier connection's job.
HandshakeFirst ==
  \A c \in 1..Len(received) : \A k \in 1..Len(received[c]) :
    LET m == received[c][k]
        Before(kind) == \E i \in 1..(k - 1) : received[c][i].kind = kind
    IN  m.kind = "authorize" \/ (m.kind = "share" /\ AnnouncedOn(m.job, c)) =>
          /\ Before("subscribe")
          /\ m.kind = "share" => Before("authorize")

\* No share is sent for a job that has been replaced, by a later one of the same
\* connection or by the first of the next: however long send blocks, the job it was
\* called for is still the one that is set when it returns.
NewestJobOnly ==
  [][\A d \in Devices : th[d] = "submit" /\ th'[d] # "submit" => share[d] = job]_vars

\* A connection that is lost is given up, and not mined for until the process
\* is stopped -- also when it is lost while a new job waits for the threads.
LossNoticed == socket \in Lost ~> socket \notin Lost \/ Ended

\* set_job comes to its end if the pool reads what it is sent, although it
\* waits for threads that may be blocked in send.
JobTaken == main = "join" ~> main # "join"

\* The session asks of the mining engine what MiningEngine promises and
\* KawPowHost implements: a job is replaced while no device works, and the
\* share a device submits, however long send blocks, is of the present job.
Engine == INSTANCE MiningEngine WITH
  Jobs  <- 1..MaxJobs, NoJob <- 0,
  work  <- [d \in Devices |-> IF th[d] = "off" THEN 0 ELSE job],
  offer <- [d \in Devices |-> IF th[d] = "submit" THEN share[d] ELSE 0]

UsesEngine == Engine!Spec

\* "Connection closed by pool" / "Attempting to reconnect...": the process ends
\* because a connection cannot be made or by an error of the receive loop, and
\* not because a connection was lost.
SurvivesLoss == main # "killed"
=============================================================================
