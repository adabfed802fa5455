----------------------------- MODULE LineStream -----------------------------
(***************************************************************************)
(* What the receive loop of Stratum::run promises, without its buffer: the *)
(* lines a pool sends on a connection are handled whole, once each and in  *)
(* the order they were sent, and what has not been handled when a          *)
(* connection is given up is dropped, not mixed into the next one.         *)
(***************************************************************************)
EXTENDS Naturals, Sequences

CONSTANT Bytes     \* what a pool sends: "nl" ends a line

VARIABLES
  conn,      \* the number of the present connection
  sent,      \* the bytes sent on each connection so far
  next,      \* the first byte of the present connection not yet handled
  handled    \* the lines handled: a line is the sequence of its bytes, and a
             \* byte is named by its connection and its place there

Init == conn = 1 /\ sent = <<<<>>>> /\ next = 1 /\ handled = <<>>

Send(b) ==
  /\ sent' = [sent EXCEPT ![conn] = Append(@, b)]
  /\ UNCHANGED <<conn, next, handled>>

\* The bytes from next up to the newline at position e of the connection.
Line(e) == [k \in 1..(e - next) |-> <<conn, next + k - 1>>]

FirstNewline(e) ==
  /\ e \in next..Len(sent[conn])
  /\ sent[conn][e] = "nl"
  /\ \A i \in next..(e - 1) : sent[conn][i] # "nl"

Handle ==
  \E e \in 1..Len(sent[conn]) :
    /\ FirstNewline(e)
    /\ handled' = Append(handled, Line(e))
    /\ next' = e + 1
    /\ UNCHANGED <<conn, sent>>

Reconnect ==
  /\ conn' = conn + 1
  /\ sent' = Append(sent, <<>>)
  /\ next' = 1
  /\ UNCHANGED handled

Next == (\E b \in Bytes : Send(b)) \/ Handle \/ Reconnect

vars == <<conn, sent, next, handled>>
Spec == Init /\ [][Next]_vars
=============================================================================
