------------------------ MODULE StratumReceiveProofs ------------------------
(***************************************************************************)
(* Proofs about StratumReceive, for a buffer of any size, any stream and   *)
(* any way of cutting it: the loop implements LineStream.                  *)
(***************************************************************************)
EXTENDS StratumReceive, TLAPS

Cell == (Nat \X Nat) \cup {Nul}

\* The numbers the loop keeps, and the bytes the pool has sent.
Counters ==
  /\ pc \in {"poll", "lines", "ended"}
  /\ conn \in Nat \ {0}
  /\ sent \in Seq(Seq(Bytes)) /\ Len(sent) = conn
  /\ taken \in 0..Len(sent[conn])
  /\ buffer_offset \in Index /\ buffer_offset <= taken
  /\ line_start \in 0..buffer_offset
  /\ pc # "lines" => line_start = 0

\* The rest of the buffer is the last bytes taken from the connection, in order.
BufferHoldsTail ==
  /\ buffer \in [Index -> Cell]
  /\ \A i \in line_start..(buffer_offset - 1) :
       buffer[i] = <<conn, taken - buffer_offset + i + 1>>

ReceiveInv == Counters /\ BufferHoldsTail /\ NoLineLeftWaiting

-----------------------------------------------------------------------------

LEMMA CountersInit == Init => Counters
<1> SUFFICES ASSUME Init PROVE Counters
  OBVIOUS
<1>1. sent \in Seq(Seq(Bytes)) /\ Len(sent) = 1 /\ sent[1] = <<>>
  BY DEF Init
<1>. QED
  BY <1>1, ReceiveAssumption DEF Init, Counters, Index

LEMMA CountersStep == Counters /\ [Next]_vars => Counters'
<1> SUFFICES ASSUME Counters, [Next]_vars PROVE Counters'
  OBVIOUS
<1> USE ReceiveAssumption DEF Counters, Index, loopVars, poolVars
<1>1. ASSUME NEW b \in Bytes, PoolSends(b) PROVE Counters'
  BY <1>1 DEF PoolSends
<1>2. CASE PoolCloses
  BY <1>2 DEF PoolCloses
<1>3. ASSUME NEW n \in 1..BufferSize, Receive(n) PROVE Counters'
  BY <1>3 DEF Receive, Space, Available
<1>4. CASE HandleLine
  BY <1>4 DEF HandleLine, Newline
<1>5. CASE MoveRest
  BY <1>5 DEF MoveRest
<1>6. ASSUME Reconnect, pc = "poll" PROVE Counters'
  BY <1>6 DEF Reconnect
<1>7. ASSUME End, pc = "poll" PROVE Counters'
  BY <1>7 DEF End
<1>8. CASE UNCHANGED vars
  BY <1>8 DEF vars
<1>. QED
  BY <1>1, <1>2, <1>3, <1>4, <1>5, <1>6, <1>7, <1>8
  DEF Next, LoopStep, ReceiveNothing, ReceiveFails, Ended

LEMMA TailInit == Init => BufferHoldsTail
  BY DEF Init, BufferHoldsTail, Cell

\* The place in the connection of the byte at index i of the buffer.
Place(i) == taken - buffer_offset + i + 1

\* What the loop sees of a byte of the rest.
LEMMA TailByte ==
  ASSUME Counters, BufferHoldsTail, NEW i \in line_start..(buffer_offset - 1)
  PROVE  /\ i \in Index
         /\ Place(i) \in 1..Len(sent[conn])
         /\ buffer[i] = <<conn, Place(i)>>
         /\ buffer[i] # Nul
         /\ IsNewline(buffer[i]) <=> sent[conn][Place(i)] = "nl"
<1>1. i \in Index
  BY ReceiveAssumption DEF Counters, Index
<1>2. Place(i) \in 1..Len(sent[conn]) /\ Place(i) \in Nat /\ conn \in Nat
  BY <1>1, ReceiveAssumption DEF Counters, Index, Place
<1>3. buffer[i] = <<conn, Place(i)>>
  BY DEF BufferHoldsTail, Place
<1>4. <<conn, Place(i)>> \in Nat \X Nat
  BY <1>2
<1>5. buffer[i] # Nul
  BY <1>3, <1>4, ReceiveAssumption
<1>6. buffer[i][1] = conn /\ buffer[i][2] = Place(i)
  BY <1>3
<1>7. IsNewline(buffer[i]) <=> sent[conn][Place(i)] = "nl"
  BY <1>5, <1>6 DEF IsNewline
<1>. QED
  BY <1>1, <1>2, <1>3, <1>5, <1>7

LEMMA ReceiveTail ==
  ASSUME Counters, BufferHoldsTail, NEW n \in 1..BufferSize, Receive(n)
  PROVE  BufferHoldsTail'
<1>1. /\ line_start = 0 /\ line_start' = 0 /\ conn' = conn
      /\ buffer_offset' = buffer_offset + n /\ taken' = taken + n
      /\ buffer_offset + n \in Index
      /\ n \in Nat \ {0} /\ buffer_offset \in Nat /\ taken \in Nat
      /\ conn \in Nat /\ buffer_offset <= taken
  BY ReceiveAssumption DEF Receive, Space, Counters, Index
<1>2. buffer' = [i \in Index |->
                  IF i \in buffer_offset..(buffer_offset + n - 1)
                    THEN <<conn, taken - buffer_offset + i + 1>>
                    ELSE IF i = buffer_offset + n THEN Nul ELSE buffer[i]]
  BY DEF Receive
<1>3. buffer' \in [Index -> Cell]
  <2>1. \A i \in Index : i \in Nat
    BY DEF Index
  <2>2. ASSUME NEW i \in Index, i \in buffer_offset..(buffer_offset + n - 1)
        PROVE  <<conn, taken - buffer_offset + i + 1>> \in Cell
    <3>1. taken - buffer_offset + i + 1 \in Nat
      BY <1>1, <2>1
    <3>. QED
      BY <1>1, <3>1 DEF Cell
  <2>3. Nul \in Cell /\ \A i \in Index : buffer[i] \in Cell
    BY DEF Cell, BufferHoldsTail
  <2>. QED
    BY <1>2, <2>2, <2>3
<1>4. ASSUME NEW i \in line_start'..(buffer_offset' - 1)
      PROVE  buffer'[i] = <<conn', taken' - buffer_offset' + i + 1>>
  <2>1. i \in Index /\ i \in Nat
    BY <1>1, ReceiveAssumption DEF Index
  <2>2. taken' - buffer_offset' + i + 1 = taken - buffer_offset + i + 1
    BY <1>1, <2>1
  <2>3. CASE i < buffer_offset
    <3>1. i \in line_start..(buffer_offset - 1)
      BY <1>1, <2>1, <2>3
    <3>2. buffer[i] = <<conn, taken - buffer_offset + i + 1>>
      BY <3>1 DEF BufferHoldsTail
    <3>3. buffer'[i] = buffer[i]
      BY <1>1, <1>2, <2>1, <2>3
    <3>. QED
      BY <1>1, <2>2, <3>2, <3>3
  <2>4. CASE ~(i < buffer_offset)
    <3>1. i \in buffer_offset..(buffer_offset + n - 1)
      BY <1>1, <2>1, <2>4
    <3>. QED
      BY <1>1, <1>2, <2>1, <2>2, <3>1
  <2>. QED
    BY <2>3, <2>4
<1>. QED
  BY <1>3, <1>4 DEF BufferHoldsTail

LEMMA TailStep == Counters /\ BufferHoldsTail /\ [Next]_vars => BufferHoldsTail'
<1> SUFFICES ASSUME Counters, BufferHoldsTail, [Next]_vars
             PROVE  BufferHoldsTail'
  OBVIOUS
<1> USE ReceiveAssumption
    DEF Counters, BufferHoldsTail, Index, Cell, loopVars, poolVars
<1>1. ASSUME NEW b \in Bytes, PoolSends(b) PROVE BufferHoldsTail'
  BY <1>1 DEF PoolSends
<1>2. CASE PoolCloses
  BY <1>2 DEF PoolCloses
<1>3. ASSUME NEW n \in 1..BufferSize, Receive(n) PROVE BufferHoldsTail'
  BY <1>3, ReceiveTail
<1>4. CASE HandleLine
  BY <1>4 DEF HandleLine, Newline
<1>5. CASE MoveRest
  BY <1>5 DEF MoveRest
<1>6. ASSUME Reconnect, pc = "poll" PROVE BufferHoldsTail'
  BY <1>6 DEF Reconnect
<1>7. ASSUME End, pc = "poll" PROVE BufferHoldsTail'
  BY <1>7 DEF End
<1>8. CASE UNCHANGED vars
  BY <1>8 DEF vars
<1>. QED
  BY <1>1, <1>2, <1>3, <1>4, <1>5, <1>6, <1>7, <1>8
  DEF Next, LoopStep, ReceiveNothing, ReceiveFails, Ended

LEMMA WaitingInit == Init => NoLineLeftWaiting
  BY DEF Init, NoLineLeftWaiting

LEMMA WaitingStep ==
  /\ Counters /\ BufferHoldsTail /\ NoLineLeftWaiting /\ [Next]_vars
  => NoLineLeftWaiting'
<1> SUFFICES ASSUME Counters, BufferHoldsTail, NoLineLeftWaiting, [Next]_vars
             PROVE  NoLineLeftWaiting'
  OBVIOUS
<1> USE ReceiveAssumption DEF Counters, loopVars, poolVars
<1>1. ASSUME NEW b \in Bytes, PoolSends(b) PROVE NoLineLeftWaiting'
  BY <1>1 DEF PoolSends, NoLineLeftWaiting, Index
<1>2. ASSUME NEW n \in 1..BufferSize, Receive(n) PROVE NoLineLeftWaiting'
  BY <1>2 DEF Receive, NoLineLeftWaiting
<1>3. CASE HandleLine
  BY <1>3 DEF HandleLine, NoLineLeftWaiting
<1>4. CASE MoveRest
  <2>1. /\ UNCHANGED <<taken, sent, conn>> /\ pc = "lines"
        /\ buffer_offset' = buffer_offset - line_start
    BY <1>4 DEF MoveRest
  <2>2. ASSUME NEW i \in (taken' - buffer_offset' + 1)..taken'
        PROVE  sent[conn][i] # "nl"
    <3> DEFINE k == i - taken + buffer_offset - 1
    <3>1. k \in line_start..(buffer_offset - 1) /\ Place(k) = i
      BY <2>1 DEF Index, Place
    <3>. QED
      BY <1>4, <3>1, TailByte DEF MoveRest, NoNewline
  <2>. QED
    BY <2>1, <2>2 DEF NoLineLeftWaiting
<1>5. ASSUME Reconnect, pc = "poll" PROVE NoLineLeftWaiting'
  BY <1>5 DEF Reconnect, NoLineLeftWaiting
<1>6. ASSUME End PROVE NoLineLeftWaiting'
  BY <1>6 DEF End, NoLineLeftWaiting
<1>7. CASE PoolCloses \/ UNCHANGED vars
  BY <1>7 DEF PoolCloses, vars, NoLineLeftWaiting
<1>. QED
  BY <1>1, <1>2, <1>3, <1>4, <1>5, <1>6, <1>7
  DEF Next, LoopStep, ReceiveNothing, ReceiveFails, Ended

-----------------------------------------------------------------------------
(* The theorems.                                                           *)

\* The inductive invariant of the receive loop.
THEOREM ReceiveInvariant == Spec => []ReceiveInv
<1>1. Init => ReceiveInv
  BY CountersInit, TailInit, WaitingInit DEF ReceiveInv
<1>2. ReceiveInv /\ [Next]_vars => ReceiveInv'
  BY CountersStep, TailStep, WaitingStep DEF ReceiveInv
<1>. QED
  BY <1>1, <1>2, PTL DEF Spec

\* No line that has arrived waits in the buffer for more to arrive.
THEOREM NoneLeftWaiting == Spec => []NoLineLeftWaiting
<1>1. ReceiveInv => NoLineLeftWaiting
  BY DEF ReceiveInv
<1>. QED
  BY <1>1, ReceiveInvariant, PTL

\* What Counters leaves open of the type.
Histories ==
  /\ closed \subseteq 1..conn /\ blamed \subseteq 1..conn
  /\ handled \in Seq(Seq(Nat \X Nat))

LEMMA FunctionIsSeq ==
  ASSUME NEW T, NEW n \in Nat, NEW f \in [1..n -> T] PROVE f \in Seq(T)
  OBVIOUS

LEMMA HistoriesStep ==
  Counters /\ BufferHoldsTail /\ Histories /\ [Next]_vars => Histories'
<1> SUFFICES ASSUME Counters, BufferHoldsTail, Histories, [Next]_vars PROVE Histories'
  OBVIOUS
<1> USE ReceiveAssumption DEF Counters, Histories, loopVars, poolVars
<1>1. ASSUME NEW b \in Bytes, PoolSends(b) PROVE Histories'
  BY <1>1 DEF PoolSends
<1>2. CASE PoolCloses
  BY <1>2 DEF PoolCloses
<1>3. ASSUME NEW n \in 1..BufferSize, Receive(n) PROVE Histories'
  BY <1>3 DEF Receive
<1>4. CASE HandleLine
  <2>1. PICK e \in Index : Newline(e) /\ handled' = Append(handled, Message(e))
    BY <1>4 DEF HandleLine
  <2>2. \A i \in line_start..(e - 1) : buffer[i] \in Nat \X Nat
    BY <2>1 DEF Newline, BufferHoldsTail, Cell, Index
  <2>3. Message(e) \in Seq(Nat \X Nat)
    <3>1. e - line_start \in Nat
      BY <2>1 DEF Newline, Index
    <3>2. \A k \in 1..(e - line_start) : buffer[line_start + k - 1] \in Nat \X Nat
      BY <2>1, <2>2 DEF Index
    <3>3. Message(e) \in [1..(e - line_start) -> Nat \X Nat]
      BY <3>2 DEF Message
    <3>. QED
      BY <3>1, <3>3, FunctionIsSeq
  <2>4. handled' \in Seq(Seq(Nat \X Nat))
    <3> DEFINE m == Message(e)
    <3>1. m \in Seq(Nat \X Nat) /\ handled' = Append(handled, m)
      BY <2>1, <2>3
    <3> HIDE DEF m
    <3>. QED
      BY <3>1
  <2>. QED
    BY <1>4, <2>4 DEF HandleLine
<1>5. CASE MoveRest
  BY <1>5 DEF MoveRest
<1>6. CASE ReceiveNothing \/ ReceiveFails
  <2>1. conn \in Nat /\ blamed' \subseteq 1..conn
    <3>1. conn \in Nat /\ conn \in 1..conn
      OBVIOUS
    <3>2. blamed' = blamed \/ blamed' = blamed \cup {conn}
      BY <1>6 DEF ReceiveNothing, ReceiveFails
    <3>. QED
      BY <3>1, <3>2
  <2>2. /\ conn' \in {conn, conn + 1}
        /\ closed' = closed /\ handled' = handled
    BY <1>6 DEF ReceiveNothing, ReceiveFails, Reconnect, End
  <2>3. 1..conn \subseteq 1..conn'
    BY <2>1, <2>2
  <2>. QED
    BY <2>1, <2>2, <2>3
<1>7. CASE UNCHANGED vars
  BY <1>7 DEF vars
<1>. QED
  BY <1>1, <1>2, <1>3, <1>4, <1>5, <1>6, <1>7 DEF Next, LoopStep, Ended

\* Every variable of the receive loop keeps its type; in particular the NUL is
\* written inside the buffer.
THEOREM TypeCorrect == Spec => []TypeOK
<1>1. Init => Histories
  BY DEF Init, Histories
<1>2. ReceiveInv /\ Histories /\ [Next]_vars => Histories'
  BY HistoriesStep DEF ReceiveInv
<1>3. ReceiveInv /\ Histories => TypeOK
  BY DEF ReceiveInv, Counters, BufferHoldsTail, Histories, TypeOK, Cell
<1>. QED
  BY <1>1, <1>2, <1>3, ReceiveInvariant, PTL DEF Spec

LEMMA AppendKeeps ==
  ASSUME NEW T, NEW s \in Seq(T), NEW x
  PROVE  Len(Append(s, x)) = Len(s) + 1 /\ \A i \in 1..Len(s) : Append(s, x)[i] = s[i]
  OBVIOUS

\* An unbroken stretch stays one: bytes sent are never taken back.
LEMMA UnbrokenStays ==
  ASSUME Counters, Histories, [Next]_vars, NEW c \in 1..conn, NEW p \in 0..Len(sent[c]),
         Unbroken(c, p)
  PROVE  p \in 0..Len(sent'[c]) /\ Unbroken(c, p)'
<1> USE ReceiveAssumption DEF Counters, loopVars, poolVars
<1>1. /\ Len(sent'[c]) \in Nat /\ Len(sent[c]) <= Len(sent'[c])
      /\ \A i \in 1..Len(sent[c]) : sent'[c][i] = sent[c][i]
  <2>1. sent[c] \in Seq(Bytes)
    OBVIOUS
  <2>2. ASSUME NEW b \in Bytes, PoolSends(b)
        PROVE  sent'[c] = sent[c] \/ sent'[c] = Append(sent[c], b)
    BY <2>2 DEF PoolSends
  <2>3. CASE ~(\E b \in Bytes : PoolSends(b))
    <3>1. sent' = sent \/ sent' = Append(sent, <<>>)
      BY <2>3 DEF Next, LoopStep, PoolCloses, Receive, HandleLine, MoveRest,
         ReceiveNothing, ReceiveFails, Reconnect, End, Ended, vars
    <3>2. c \in 1..Len(sent) /\ sent \in Seq(Seq(Bytes))
      OBVIOUS
    <3>3. sent'[c] = sent[c]
      BY <3>1, <3>2, AppendKeeps
    <3>. QED
      BY <2>1, <3>3
  <2>4. ASSUME sent'[c] = sent[c] \/ \E b \in Bytes : sent'[c] = Append(sent[c], b)
        PROVE  /\ Len(sent'[c]) \in Nat /\ Len(sent[c]) <= Len(sent'[c])
               /\ \A i \in 1..Len(sent[c]) : sent'[c][i] = sent[c][i]
    <3> DEFINE s == sent[c]
               t == sent'[c]
    <3>1. s \in Seq(Bytes) /\ (t = s \/ \E b \in Bytes : t = Append(s, b))
      BY <2>1, <2>4
    <3> SUFFICES Len(t) \in Nat /\ Len(s) <= Len(t) /\ \A i \in 1..Len(s) : t[i] = s[i]
      OBVIOUS
    <3> HIDE DEF s, t
    <3>2. Len(s) \in Nat
      BY <3>1
    <3>3. CASE t = s
      BY <3>2, <3>3
    <3>4. ASSUME NEW b \in Bytes, t = Append(s, b)
          PROVE  Len(t) = Len(s) + 1 /\ \A i \in 1..Len(s) : t[i] = s[i]
      <4>1. Len(Append(s, b)) = Len(s) + 1 /\ \A i \in 1..Len(s) : Append(s, b)[i] = s[i]
        BY <3>1, AppendKeeps, Zenon
      <4>. QED
        BY <3>4, <4>1, Zenon
    <3>. QED
      BY <3>1, <3>2, <3>3, <3>4
  <2>. QED
    BY <2>2, <2>3, <2>4
<1>2. p \in Nat /\ Len(sent[c]) \in Nat /\ p + BufferSize - 1 <= Len(sent[c])
  BY DEF Unbroken
<1>3. \A i \in (p + 1)..(p + BufferSize - 1) : i \in 1..Len(sent[c])
  BY <1>2
<1>4. p + BufferSize - 1 <= Len(sent'[c]) /\ p \in 0..Len(sent'[c])
  BY <1>1, <1>2
<1>5. ASSUME NEW i \in (p + 1)..(p + BufferSize - 1) PROVE sent'[c][i] # "nl"
  BY <1>1, <1>3 DEF Unbroken
<1>. QED
  BY <1>4, <1>5 DEF Unbroken

\* A connection that lives is given up only for a line as long as the buffer, for
\* a buffer of any size and any way of cutting the stream.
THEOREM LivingKept == Spec => []BlamedForLongLine
<1>1. Init => BlamedForLongLine /\ Histories
  BY DEF Init, BlamedForLongLine, Histories
<1>2. /\ ReceiveInv /\ Histories /\ BlamedForLongLine /\ [Next]_vars
      => BlamedForLongLine' /\ Histories'
  <2> SUFFICES ASSUME ReceiveInv, Histories, BlamedForLongLine, [Next]_vars
               PROVE  BlamedForLongLine'
    BY HistoriesStep DEF ReceiveInv
  <2> USE ReceiveAssumption DEF ReceiveInv
  <2>1. closed \subseteq closed' /\ Counters
    BY DEF Next, LoopStep, PoolCloses, PoolSends, Receive, HandleLine, MoveRest,
       ReceiveNothing, ReceiveFails, Reconnect, End, Ended, vars, poolVars
  <2>2. ASSUME NEW c \in blamed' \ closed', c \in blamed
        PROVE  \E p \in 0..Len(sent'[c]) : Unbroken(c, p)'
    <3>1. PICK p \in 0..Len(sent[c]) : Unbroken(c, p)
      BY <2>1, <2>2 DEF BlamedForLongLine
    <3>. QED
      BY <2>1, <2>2, <3>1, UnbrokenStays DEF Histories
  <2>3. ASSUME NEW c \in blamed' \ closed', c \notin blamed
        PROVE  \E p \in 0..Len(sent'[c]) : Unbroken(c, p)'
    <3>1. ReceiveNothing /\ c = conn /\ conn \notin closed
      BY <2>1, <2>3 DEF Next, LoopStep, PoolCloses, PoolSends, Receive, HandleLine,
         MoveRest, ReceiveNothing, ReceiveFails, Reconnect, End, Ended, vars, poolVars
    <3>2. pc = "poll" /\ buffer_offset = BufferSize - 1
      BY <3>1 DEF ReceiveNothing, Readable, Available, Space, Counters, Index
    <3> DEFINE p == taken - buffer_offset
    <3>3. p \in Nat /\ p + BufferSize - 1 = taken /\ taken <= Len(sent[conn])
          /\ Len(sent[conn]) \in Nat /\ taken \in Nat
      BY <3>2 DEF Counters, Index
    <3>4. \A i \in (p + 1)..(p + BufferSize - 1) : sent[conn][i] # "nl"
      BY <3>2, <3>3 DEF NoLineLeftWaiting
    <3> HIDE DEF p
    <3>5. p \in 0..Len(sent[conn]) /\ Unbroken(conn, p)
      BY <3>3, <3>4 DEF Unbroken
    <3>6. conn \in 1..conn
      BY DEF Counters
    <3>. QED
      BY <3>1, <3>5, <3>6, UnbrokenStays
  <2>. QED
    BY <2>2, <2>3 DEF BlamedForLongLine
<1>. QED
  BY <1>1, <1>2, ReceiveInvariant, PTL DEF Spec

LEMMA HandleRefines ==
  Counters /\ BufferHoldsTail /\ HandleLine => Lines!Handle
<1> SUFFICES ASSUME Counters, BufferHoldsTail, HandleLine PROVE Lines!Handle
  OBVIOUS
<1>1. PICK e \in Index :
        /\ Newline(e)
        /\ handled' = Append(handled, Message(e))
        /\ line_start' = e + 1
  BY DEF HandleLine
<1> DEFINE n == Place(line_start)
           p == Place(e)
<1>2. UNCHANGED <<conn, sent, taken, buffer_offset>>
  BY DEF HandleLine, poolVars
<1>3. /\ e \in line_start..(buffer_offset - 1)
      /\ line_start \in Nat /\ e \in Nat /\ n \in Nat /\ p \in Nat
      /\ n >= 1 /\ n <= p /\ p <= Len(sent[conn]) /\ Len(sent[conn]) \in Nat
      /\ p - n = e - line_start
      /\ \A i \in Nat : Place(i) = n + i - line_start
  BY <1>1 DEF Newline, Index, Counters, Place
<1>4. \A i \in line_start..(buffer_offset - 1) :
        /\ buffer[i] = <<conn, Place(i)>>
        /\ IsNewline(buffer[i]) <=> sent[conn][Place(i)] = "nl"
  BY TailByte
<1>5. Lines!FirstNewline(p)
  <2>1. sent[conn][p] = "nl"
    BY <1>1, <1>3, <1>4 DEF Newline
  <2>2. ASSUME NEW i \in n..(p - 1) PROVE sent[conn][i] # "nl"
    <3> DEFINE k == i - n + line_start
    <3> HIDE DEF n, p, k
    <3>1. /\ k = i - n + line_start /\ i \in n..(p - 1)
          /\ buffer_offset \in Nat
      BY <2>2 DEF k, Counters, Index
    <3>2. k \in line_start..(e - 1) /\ k \in Nat
      <4>1. i \in Nat /\ n <= i /\ i <= p - 1
        BY <1>3, <3>1
      <4>. QED
        BY <1>3, <3>1, <4>1
    <3>3. k \in line_start..(buffer_offset - 1)
      BY <1>3, <3>1, <3>2
    <3>4. Place(k) = i
      BY <1>3, <3>1, <3>2
    <3>5. ~IsNewline(buffer[k])
      BY <1>1, <3>2 DEF Newline
    <3>. QED
      BY <1>4, <3>3, <3>4, <3>5
  <2>. QED
    BY <1>3, <2>1, <2>2 DEF Lines!FirstNewline, Place
<1>6. Message(e) = Lines!Line(p)
  <2>1. ASSUME NEW k \in 1..(e - line_start)
        PROVE  buffer[line_start + k - 1] = <<conn, n + k - 1>>
    <3>1. line_start + k - 1 \in line_start..(buffer_offset - 1)
      BY <1>3 DEF Counters, Index
    <3>2. Place(line_start + k - 1) = n + k - 1
      BY <1>3
    <3>. QED
      BY <1>4, <3>1, <3>2
  <2>2. Message(e) = [k \in 1..(e - line_start) |-> <<conn, n + k - 1>>]
    BY <2>1 DEF Message
  <2>3. p - n = e - line_start
    BY <1>3
  <2>. QED
    BY <2>2, <2>3 DEF Lines!Line, Place
<1>7. p \in 1..Len(sent[conn]) /\ taken - buffer_offset + line_start' + 1 = p + 1
  BY <1>1, <1>3 DEF Place, Counters, Index
<1>. QED
  BY <1>1, <1>2, <1>5, <1>6, <1>7 DEF Lines!Handle

LEMMA StepRefines ==
  Counters /\ BufferHoldsTail /\ [Next]_vars => [Lines!Next]_(Lines!vars)
<1> SUFFICES ASSUME Counters, BufferHoldsTail, [Next]_vars
             PROVE  Lines!Next \/ UNCHANGED Lines!vars
  OBVIOUS
<1> USE ReceiveAssumption DEF Counters, loopVars, poolVars
<1>1. ASSUME NEW b \in Bytes, PoolSends(b) PROVE Lines!Send(b)
  BY <1>1 DEF PoolSends, Lines!Send
<1>2. ASSUME NEW n \in 1..BufferSize, Receive(n) PROVE UNCHANGED Lines!vars
  BY <1>2 DEF Receive, Lines!vars, Index
<1>3. CASE HandleLine
  BY <1>3, HandleRefines DEF Lines!Next
<1>4. CASE MoveRest
  BY <1>4 DEF MoveRest, Lines!vars, Index
<1>5. ASSUME Reconnect, pc = "poll" PROVE Lines!Reconnect
  BY <1>5 DEF Reconnect, Lines!Reconnect
<1>6. CASE End
  BY <1>6 DEF End, Lines!vars
<1>7. CASE PoolCloses \/ UNCHANGED vars
  BY <1>7 DEF PoolCloses, vars, Lines!vars
<1>. QED
  BY <1>1, <1>2, <1>3, <1>4, <1>5, <1>6, <1>7
  DEF Next, LoopStep, ReceiveNothing, ReceiveFails, Ended, Lines!Next

\* The receive loop implements LineStream: lines are handled whole, in order
\* and once, and never put together from two connections.
THEOREM ReceiveImplementsLines == Spec => RefinesLines
<1>1. Init => Lines!Init
  BY DEF Init, Lines!Init
<1>2. ReceiveInv /\ [Next]_vars => [Lines!Next]_(Lines!vars)
  BY StepRefines DEF ReceiveInv
<1>. QED
  BY <1>1, <1>2, ReceiveInvariant, PTL DEF Spec, RefinesLines, Lines!Spec

=============================================================================
