--------------------------- MODULE StratumReceive ---------------------------
(***************************************************************************)
(* The receive loop of Stratum::run (stratum.cpp): poll, recv into a fixed *)
(* buffer, cut the buffer into lines, keep the rest, reconnect.            *)
(*                                                                         *)
(* TCP (external) delivers the bytes of a connection in order, in pieces   *)
(* of any size.  A byte in the buffer is named by its connection and its   *)
(* place there, so bytes that are lost, repeated or mixed show.  The pool  *)
(* sends text: no byte it sends is NUL.  What a line says is the matter of *)
(* other modules; connect, subscribe and authorize are one step here.      *)
(***************************************************************************)
EXTENDS Naturals, Sequences

CONSTANTS
  BufferSize,   \* sizeof(buffer)
  MaxBytes,     \* bound: bytes sent on one connection
  MaxConns,     \* bound: connections
  Nul           \* '\0'

ASSUME ReceiveAssumption ==
  /\ BufferSize \in Nat /\ BufferSize >= 2
  /\ MaxBytes \in Nat /\ MaxConns \in Nat
  /\ Nul \notin Nat \X Nat

VARIABLES
  pc,             \* "poll", "lines" (in the inner loop) or "ended"
  conn,           \* the number of the present connection
  sent,           \* the bytes the pool has sent on each connection
  closed,         \* the connections the pool has closed
  taken,          \* bytes of the present connection given out by recv
  buffer, buffer_offset, line_start,     \* as in the code
  handled,        \* the arguments of handle_message, in order
  blamed          \* the connections "closed by pool" was logged of

loopVars == <<buffer, buffer_offset, line_start>>
poolVars == <<sent, closed>>
vars == <<pc, conn, poolVars, taken, loopVars, handled, blamed>>

Index == 0..(BufferSize - 1)
Bytes == {"text", "nl"}

Init ==
  /\ pc = "poll" /\ conn = 1
  /\ sent = <<<<>>>> /\ closed = {} /\ taken = 0
  /\ buffer = [i \in Index |-> Nul] /\ buffer_offset = 0 /\ line_start = 0
  /\ handled = <<>> /\ blamed = {}

-----------------------------------------------------------------------------
(* The pool and the network (external).                                    *)

PoolSends(b) ==
  /\ conn \notin closed /\ Len(sent[conn]) < MaxBytes
  /\ sent' = [sent EXCEPT ![conn] = Append(@, b)]
  /\ UNCHANGED <<pc, conn, closed, taken, loopVars, handled, blamed>>

PoolCloses ==
  /\ conn \notin closed /\ closed' = closed \cup {conn}
  /\ UNCHANGED <<pc, conn, sent, taken, loopVars, handled, blamed>>

-----------------------------------------------------------------------------
(* The receive loop.                                                       *)

\* (Faulty) the NUL that ends the buffer is not allowed for.
SpaceForNulForgotten == BufferSize - buffer_offset

Space     == BufferSize - buffer_offset - 1
Available == Len(sent[conn]) - taken
Readable  == Available > 0 \/ conn \in closed       \* poll reports POLLIN

\* recv returns n bytes, a NUL is put after them, and the inner loop starts.
Receive(n) ==
  /\ pc = "poll" /\ n \in 1..Space /\ n <= Available
  /\ buffer' = [i \in Index |->
                  IF i \in buffer_offset..(buffer_offset + n - 1)
                    THEN <<conn, taken - buffer_offset + i + 1>>
                    ELSE IF i = buffer_offset + n THEN Nul ELSE buffer[i]]
  /\ buffer_offset' = buffer_offset + n
  /\ taken' = taken + n
  /\ line_start' = 0
  /\ pc' = "lines"
  /\ UNCHANGED <<conn, poolVars, handled, blamed>>

IsNewline(x) == x # Nul /\ sent[x[1]][x[2]] = "nl"

\* strstr(line_start, "\n"): the first newline before the terminating NUL.
Newline(e) ==
  /\ e \in line_start..(buffer_offset - 1) /\ IsNewline(buffer[e])
  /\ \A i \in line_start..(e - 1) : buffer[i] # Nul /\ ~IsNewline(buffer[i])

\* strstr returns nullptr.
NoNewline == \A i \in line_start..(buffer_offset - 1) : ~IsNewline(buffer[i])

Message(e) == [k \in 1..(e - line_start) |-> buffer[line_start + k - 1]]

\* (Faulty) if in place of while: one line for each recv.
HandleOneLine ==
  /\ pc = "lines"
  /\ \E e \in Index :
       /\ Newline(e)
       /\ handled' = Append(handled, Message(e))
       /\ buffer' = [i \in Index |-> IF i < buffer_offset - (e + 1)
                                       THEN buffer[e + 1 + i] ELSE buffer[i]]
       /\ buffer_offset' = buffer_offset - (e + 1)
  /\ line_start' = 0
  /\ pc' = "poll"
  /\ UNCHANGED <<conn, poolVars, taken, blamed>>

HandleLine ==
  /\ pc = "lines"
  /\ \E e \in Index :
       /\ Newline(e)
       /\ handled' = Append(handled, Message(e))
       /\ buffer' = [buffer EXCEPT ![e] = Nul]
       /\ line_start' = e + 1
  /\ UNCHANGED <<pc, conn, poolVars, taken, buffer_offset, blamed>>

\* (Faulty) the rest is moved to the front and its length forgotten.
MoveRestOnly ==
  /\ pc = "lines" /\ NoNewline
  /\ buffer' = [i \in Index |-> IF i < buffer_offset - line_start
                                  THEN buffer[line_start + i] ELSE buffer[i]]
  /\ line_start' = 0
  /\ pc' = "poll"
  /\ UNCHANGED <<conn, poolVars, taken, buffer_offset, handled, blamed>>

\* No line is left: memmove of the incomplete one to the front of the buffer.
MoveRest ==
  /\ pc = "lines" /\ NoNewline
  /\ buffer' = [i \in Index |-> IF i < buffer_offset - line_start
                                  THEN buffer[line_start + i] ELSE buffer[i]]
  /\ buffer_offset' = buffer_offset - line_start
  /\ line_start' = 0
  /\ pc' = "poll"
  /\ UNCHANGED <<conn, poolVars, taken, handled, blamed>>

\* (Faulty) the incomplete line of the lost connection stays in the buffer.
ReconnectKeepingRest ==
  /\ conn < MaxConns
  /\ conn' = conn + 1
  /\ sent' = Append(sent, <<>>)
  /\ taken' = 0
  /\ UNCHANGED <<pc, closed, loopVars, handled>>

\* close, connect, subscribe, authorize; buffer_offset = 0.
Reconnect ==
  /\ conn < MaxConns                    \* bound
  /\ conn' = conn + 1
  /\ sent' = Append(sent, <<>>)
  /\ taken' = 0 /\ buffer_offset' = 0
  /\ UNCHANGED <<pc, closed, buffer, line_start, handled>>

\* connect() calls exit(1), or the loop is left.
End == pc' = "ended" /\ UNCHANGED <<conn, poolVars, taken, loopVars, handled>>

\* recv returns 0: at the end of a closed connection's bytes, or because it
\* was asked for none, the buffer being full.
ReceiveNothing ==
  /\ pc = "poll" /\ Readable
  /\ Available = 0 \/ Space = 0
  /\ blamed' = blamed \cup {conn}
  /\ Reconnect \/ End

\* poll or recv fails: a reset or a timeout leads to a new connection, any
\* other error ends the loop.
ReceiveFails ==
  /\ pc = "poll"
  /\ Reconnect \/ End
  /\ UNCHANGED blamed

LoopStep ==
  \/ \E n \in 1..BufferSize : Receive(n)
  \/ HandleLine \/ MoveRest \/ ReceiveNothing

\* The loop has been left, or the bound on connections is reached.
Ended == pc = "ended" /\ UNCHANGED vars

Next ==
  \/ \E b \in Bytes : PoolSends(b)
  \/ PoolCloses \/ LoopStep \/ ReceiveFails \/ Ended

Spec == Init /\ [][Next]_vars

\* The main thread is scheduled and handle_message returns; the pool and the
\* network owe nothing.
FairSpec == Spec /\ WF_vars(LoopStep)

-----------------------------------------------------------------------------
(* Properties.                                                             *)

TypeOK ==
  /\ pc \in {"poll", "lines", "ended"}
  /\ conn \in Nat \ {0}
  /\ sent \in Seq(Seq(Bytes)) /\ Len(sent) = conn
  /\ closed \subseteq 1..conn /\ blamed \subseteq 1..conn
  /\ taken \in 0..Len(sent[conn])
  /\ buffer \in [Index -> (Nat \X Nat) \cup {Nul}]
  /\ buffer_offset \in Index      \* so the NUL at buffer_offset is inside
  /\ line_start \in 0..buffer_offset
  /\ handled \in Seq(Seq(Nat \X Nat))

\* Lines are handled whole, in order and once, however recv cuts the stream,
\* whatever is carried over in the buffer, and across reconnections.
Lines == INSTANCE LineStream
           WITH next <- taken - buffer_offset + line_start + 1

RefinesLines == Lines!Spec

\* Before the loop waits again it has handled every line that has arrived: a
\* job is not left in the buffer until the pool happens to send more.
NoLineLeftWaiting ==
  pc = "poll" => \A i \in (taken - buffer_offset + 1)..taken : sent[conn][i] # "nl"

\* A line that was sent is handled, unless its connection is lost.
LineHandled ==
  \A c \in 1..MaxConns, p \in 1..MaxBytes :
    (conn = c /\ p <= Len(sent[c]) /\ sent[c][p] = "nl")
      ~> (conn # c \/ pc = "ended" \/ (pc = "poll" /\ taken - buffer_offset >= p))

\* A stretch of a connection's bytes that fills the buffer, without a newline.
Unbroken(c, p) ==
  /\ p + BufferSize - 1 <= Len(sent[c])
  /\ \A i \in (p + 1)..(p + BufferSize - 1) : sent[c][i] # "nl"

\* "Connection closed by pool" is said of a connection the pool has not closed
\* only if the pool has sent a line that does not fit into the buffer: however
\* recv cuts the stream and whatever is carried over, shorter lines never fill it.
BlamedForLongLine ==
  \A c \in blamed \ closed : \E p \in 0..Len(sent[c]) : Unbroken(c, p)
=============================================================================
