----------------------- MODULE MessageDispatchProofs -----------------------
(***************************************************************************)
(* Proofs about MessageDispatch, for lines of any length, any messages and *)
(* any number of them.                                                     *)
(***************************************************************************)
EXTENDS MessageDispatch, SequenceTheorems, FiniteSetTheorems, NaturalsInduction,
        WellFoundedInduction, TLAPS

\* The matching loop: the braces open are among the characters passed.
SplitBounds ==
  /\ pc = "match" =>
       /\ start < end /\ end <= Len(line) + 1
       /\ brace_count <= end - start
  /\ at = "listen" => /\ pos = 1 /\ start = 1 /\ end = 1 /\ brace_count = 0
                      /\ messages = <<>> /\ index = 1

\* An object that is processed is one of the line.
OneOfTheLine ==
  /\ at = "split" => index = 1
  /\ at # "split" => pc = "done"
  /\ at \in {"dispatch", "stop", "set"} => index <= Len(messages)

TypeInv == DispatchTypeOK /\ SplitBounds /\ OneOfTheLine

LEMMA LineType ==
  ASSUME NEW l \in UNION {[1..n -> Chars] : n \in 0..MaxLength}
  PROVE  l \in Seq(Chars) /\ Len(l) <= MaxLength
<1>1. PICK n \in 0..MaxLength : l \in [1..n -> Chars]
  OBVIOUS
<1>2. n \in Nat /\ n <= MaxLength
  BY SplitAssumption
<1>3. l \in Seq(Chars) /\ Len(l) = n
  BY <1>1, <1>2
<1> QED BY <1>2, <1>3

LEMMA TypeInit == DispatchInit => TypeInv
<1> SUFFICES ASSUME DispatchInit PROVE TypeInv
  OBVIOUS
<1>1. line \in Seq(Chars) /\ Len(line) <= MaxLength
  BY LineType DEF DispatchInit, Init
<1>2. messages = <<>> /\ log = <<>>
  BY DEF DispatchInit, Init
<1>3. messages \in Seq((1..Len(line)) \X (1..Len(line))) /\ log \in Seq(Messages)
  BY <1>2
<1>4. TypeOK
  BY <1>1, <1>3 DEF DispatchInit, Init, TypeOK
<1>5. 1 \in 1..MaxConns
  BY DispatchAssumption
<1>6. index \in 1..(Len(messages) + 1)
  BY <1>2 DEF DispatchInit
<1>7. DispatchTypeOK
  BY <1>3, <1>4, <1>5, <1>6 DEF DispatchInit, DispatchTypeOK
<1> QED BY <1>7 DEF DispatchInit, Init, TypeInv, SplitBounds, OneOfTheLine

LEMMA TypeSplit == TypeInv /\ Split => TypeInv'
<1> SUFFICES ASSUME TypeInv, Split PROVE TypeInv'
  OBVIOUS
<1> USE DEF TypeInv, SplitBounds, OneOfTheLine
<1>0. /\ at = "split" /\ at' = at /\ index' = index /\ index = 1 /\ doc' = doc
      /\ mining' = mining /\ conn' = conn /\ log' = log
  BY DEF Split, dispatchVars, engineVars
<1>1. Len(line) \in Nat /\ pos \in Nat /\ start \in Nat /\ end \in Nat /\ brace_count \in Nat
  BY DEF DispatchTypeOK, TypeOK
<1>2. TypeOK
  BY DEF DispatchTypeOK
<1>3. TypeOK' /\ SplitBounds' /\ Len(messages') \in Nat
  <2>1. CASE FindStart
    <3>1. PICK p \in 1..Len(line) : FirstOpen(p) /\ start' = p /\ end' = p + 1
      BY <2>1 DEF FindStart
    <3> QED BY <1>0, <1>1, <1>2, <2>1, <3>1 DEF FindStart, TypeOK
  <2>2. CASE NoStart
    BY <1>0, <1>1, <1>2, <2>2 DEF NoStart, TypeOK
  <2>3. CASE CountBrace
    <3>1. /\ brace_count' \in {brace_count - 1, brace_count, brace_count + 1}
          /\ brace_count > 0 /\ end' = end + 1 /\ end <= Len(line) /\ start' = start
          /\ pc' = "match" /\ pc = "match"
      BY <2>3 DEF CountBrace
    <3>2. start >= 1 /\ start < end /\ brace_count <= end - start
      BY <1>2, <3>1 DEF TypeOK
    <3>3. brace_count' \in Nat /\ brace_count' <= end' - start' /\ brace_count' <= Len(line)
      BY <1>1, <3>1, <3>2
    <3>4. brace_count' \in 0..Len(line) /\ end' \in 1..(Len(line) + 1)
      BY <1>1, <3>1, <3>3
    <3>5. /\ UNCHANGED <<line, pos, messages>>
      BY <2>3 DEF CountBrace
    <3> QED BY <1>0, <1>1, <1>2, <3>1, <3>2, <3>3, <3>4, <3>5 DEF TypeOK
  <2>4. CASE Complete
    <3>1. start \in 1..Len(line) /\ end - 1 \in 1..Len(line)
      BY <1>1, <1>2, <2>4 DEF Complete, TypeOK
    <3>2. messages' \in Seq((1..Len(line)) \X (1..Len(line)))
      BY <1>2, <2>4, <3>1, AppendProperties DEF Complete, TypeOK
    <3> QED BY <1>0, <1>1, <1>2, <2>4, <3>2 DEF Complete, TypeOK
  <2>5. CASE Incomplete
    BY <1>0, <1>1, <1>2, <2>5 DEF Incomplete, TypeOK
  <2> QED BY <2>1, <2>2, <2>3, <2>4, <2>5 DEF Split, Next
<1>4. index' \in 1..(Len(messages') + 1)
  BY <1>0, <1>3
<1>5. DispatchTypeOK'
  BY <1>0, <1>3, <1>4 DEF DispatchTypeOK
<1> QED BY <1>0, <1>3, <1>5

\* The steps that leave the splitting of the line alone.
LEMMA TypeMessage ==
  ASSUME TypeInv, UNCHANGED splitVars,
         at \in {"split", "object", "dispatch", "stop", "set"},
         BeginObjects \/ ParseError \/ Parse \/ Notify \/ StopMining \/ SetJob
           \/ SetTarget \/ NameSession \/ Abort \/ LogOnly
  PROVE  TypeInv'
<1> USE DEF TypeInv, OneOfTheLine
<1>0. TypeOK' /\ messages' = messages /\ Len(messages) \in Nat /\ pc' = pc
  BY DEF splitVars, DispatchTypeOK, TypeOK
<1>1. /\ line' = line /\ start' = start /\ end' = end /\ brace_count' = brace_count
  BY DEF splitVars
<1>2. at' # "listen" /\ conn' = conn /\ (at' = "split" \/ pc = "done")
  BY DEF BeginObjects, ParseError, Parse, Notify, StopMining, SetJob, SetTarget,
         NameSession, Abort, LogOnly, Processed
<1>3. SplitBounds'
  BY <1>0, <1>1, <1>2 DEF SplitBounds
<1>4. log' \in Seq(Messages) /\ doc' \in Messages \cup {Nothing}
  <2>1. CASE Parse
    <3>1. PICK m \in Messages : doc' = m /\ log' = IF Asks(m) THEN Append(log, m) ELSE log
      BY <2>1 DEF Parse
    <3> QED BY <3>1, AppendProperties DEF DispatchTypeOK
  <2>2. CASE ~Parse
    BY <2>2 DEF BeginObjects, ParseError, Notify, StopMining, SetJob, SetTarget,
         NameSession, Abort, LogOnly, Processed, DispatchTypeOK
  <2> QED BY <2>1, <2>2
<1>5. mining' \in BOOLEAN
  BY DEF BeginObjects, ParseError, Parse, Notify, StopMining, SetJob, SetTarget,
         NameSession, Abort, LogOnly, engineVars, DispatchTypeOK
<1>6. /\ index' \in 1..(Len(messages) + 1)
      /\ at' \in {"dispatch", "stop", "set"} => index' <= Len(messages)
      /\ at' \in {"object", "dispatch", "stop", "set", "aborted"}
  BY <1>0 DEF BeginObjects, ParseError, Parse, Notify, StopMining, SetJob, SetTarget,
         NameSession, Abort, LogOnly, Processed, DispatchTypeOK
<1> QED BY <1>0, <1>2, <1>3, <1>4, <1>5, <1>6 DEF DispatchTypeOK

LEMMA TypeLine ==
  ASSUME TypeInv, EndLine \/ NextLine \/ Reconnect PROVE TypeInv'
<1> USE DEF TypeInv, OneOfTheLine, SplitBounds
<1>1. CASE EndLine
  <2>1. line' = <<>> /\ messages' = <<>>
    BY <1>1 DEF EndLine
  <2>2. /\ line' \in Seq(Chars) /\ Len(line') = 0 /\ Len(messages') = 0
        /\ messages' \in Seq((1..Len(line')) \X (1..Len(line')))
    BY <2>1
  <2>3. /\ pc' = pc /\ pos' = 1 /\ start' = 1 /\ end' = 1 /\ brace_count' = 0
        /\ at' = "listen" /\ index' = 1 /\ doc' = Nothing
        /\ mining' = mining /\ conn' = conn /\ log' = log
    BY <1>1 DEF EndLine, engineVars
  <2>4. TypeOK'
    BY <2>2, <2>3, SplitAssumption DEF DispatchTypeOK, TypeOK
  <2>5. pc # "match"
    BY <1>1 DEF EndLine
  <2>6. index' \in 1..(Len(messages') + 1)
    BY <2>2, <2>3
  <2>7. DispatchTypeOK'
    BY <2>3, <2>4, <2>6 DEF DispatchTypeOK
  <2>8. SplitBounds' /\ OneOfTheLine'
    BY <1>1, <2>1, <2>3, <2>5 DEF EndLine
  <2> QED BY <2>7, <2>8
<1>2. CASE NextLine
  <2>1. /\ line' \in Seq(Chars) /\ Len(line') <= MaxLength
    BY <1>2, DispatchAssumption DEF NextLine
  <2>2. /\ pc' = "search" /\ pos' = 1 /\ start' = 1 /\ end' = 1 /\ brace_count' = 0
        /\ messages' = <<>> /\ index' = 1 /\ at' = "split" /\ doc' = doc
        /\ mining' = mining /\ conn' = conn /\ log' = log
    BY <1>2 DEF NextLine, engineVars
  <2>3. TypeOK'
    BY <2>1, <2>2 DEF TypeOK
  <2> QED BY <2>1, <2>2, <2>3 DEF DispatchTypeOK
<1>3. CASE Reconnect
  BY <1>3, DispatchAssumption DEF Reconnect, splitVars, engineVars, DispatchTypeOK, TypeOK
<1> QED BY <1>1, <1>2, <1>3

LEMMA TypeNext == TypeInv /\ [DispatchNext]_allVars => TypeInv'
<1> SUFFICES ASSUME TypeInv, [DispatchNext]_allVars PROVE TypeInv'
  OBVIOUS
<1>1. CASE Split
  BY <1>1, TypeSplit
<1>2. CASE EndLine \/ NextLine \/ Reconnect
  BY <1>2, TypeLine
<1>3. CASE BeginObjects \/ ParseError \/ Parse \/ Notify \/ StopMining \/ SetJob
            \/ SetTarget \/ NameSession \/ Abort \/ LogOnly
  <2>1. UNCHANGED splitVars /\ at \in {"split", "object", "dispatch", "stop", "set"}
    BY <1>3 DEF BeginObjects, ParseError, Parse, Notify, StopMining, SetJob,
           SetTarget, NameSession, Abort, LogOnly
  <2> QED BY <1>3, <2>1, TypeMessage
<1>4. CASE Ended \/ UNCHANGED allVars
  BY <1>4 DEF Ended, allVars, splitVars, dispatchVars, engineVars, TypeInv,
         DispatchTypeOK, TypeOK, SplitBounds, OneOfTheLine
<1> QED BY <1>1, <1>2, <1>3, <1>4 DEF DispatchNext

\* Every variable keeps its type: the counts of the matching loop stay within the
\* line, an object found lies in it, and an object processed was found.
THEOREM TypeCorrect == DispatchSpec => []DispatchTypeOK
<1>1. DispatchInit => TypeInv
  BY TypeInit
<1>2. TypeInv /\ [DispatchNext]_allVars => TypeInv'
  BY TypeNext
<1>3. TypeInv => DispatchTypeOK
  BY DEF TypeInv
<1> QED BY <1>1, <1>2, <1>3, PTL DEF DispatchSpec

-----------------------------------------------------------------------------
(* The messages of the log that ask for something.                         *)

TargetsIn(n)  == {i \in 1..n : SetsTarget(log[i])}
JobsIn(n)     == {i \in 1..n : AnnouncesJob(log[i])}
SessionsIn(n) == {i \in 1..n : NamesSession(log[i])}

LEMMA FirstOf ==
  ASSUME NEW n \in Nat, NEW I \in SUBSET (1..n), I # {}
  PROVE  First(I) \in I /\ \A k \in I : First(I) <= k
<1>1. IsWellFoundedOn(OpToRel(<, Nat), Nat)
  BY NatLessThanWellFounded
<1>2. I \subseteq Nat
  OBVIOUS
<1>3. PICK i \in I : \A k \in I : ~(<<k, i>> \in OpToRel(<, Nat))
  BY <1>1, <1>2, WFMin
<1>4. \A k \in I : ~(k < i)
  BY <1>2, <1>3 DEF OpToRel
<1>5. \A k \in I : i <= k
  BY <1>2, <1>4
<1> QED BY <1>5 DEF First

LEMMA LastOf ==
  ASSUME NEW n \in Nat, NEW I \in SUBSET (1..n), I # {}
  PROVE  Last(I) \in I /\ \A k \in I : k <= Last(I)
<1> DEFINE D == {d \in 1..(n + 1) : (n + 1) - d \in I}
<1>1. ASSUME NEW k \in I PROVE (n + 1) - k \in D
  <2>1. k \in 1..n
    OBVIOUS
  <2>2. (n + 1) - ((n + 1) - k) = k /\ (n + 1) - k \in 1..(n + 1)
    BY <2>1
  <2> QED BY <2>2
<1>2. D \in SUBSET (1..(n + 1)) /\ D # {}
  BY <1>1
<1>3. \A d \in D : d \in Nat /\ (n + 1) - d \in I
  OBVIOUS
<1> HIDE DEF D
<1>4. First(D) \in D /\ \A d \in D : First(D) <= d
  BY <1>2, FirstOf
<1> DEFINE m == (n + 1) - First(D)
<1>5. m \in I /\ First(D) \in Nat
  BY <1>3, <1>4
<1>6. ASSUME NEW k \in I PROVE k <= m
  <2>1. First(D) <= (n + 1) - k /\ k \in Nat
    BY <1>1, <1>4
  <2> QED BY <1>5, <2>1
<1> HIDE DEF m
<1> QED BY <1>5, <1>6 DEF Last

LEMMA LastIsTheEnd ==
  ASSUME NEW n \in Nat \ {0}, NEW I \in SUBSET (1..n), n \in I
  PROVE  Last(I) = n
<1>1. I # {} /\ n \in Nat
  OBVIOUS
<1>2. Last(I) \in I /\ \A k \in I : k <= Last(I)
  BY <1>1, LastOf
<1>3. Last(I) \in 1..n /\ n <= Last(I)
  BY <1>2
<1> QED BY <1>3

\* What the first n messages leave behind depends on no later one.
LEMMA AfterSame ==
  ASSUME NEW n \in Nat, \A i \in 1..n : log'[i] = log[i],
         job' = job, current_target' = current_target, session_id' = session_id,
         Follows(n)
  PROVE  Follows(n)'
<1>1. /\ TargetsIn(n)' = TargetsIn(n) /\ JobsIn(n)' = JobsIn(n)
      /\ SessionsIn(n)' = SessionsIn(n)
  BY DEF TargetsIn, JobsIn, SessionsIn
<1>2. ASSUME NEW k \in 1..n PROVE TargetAfter(k)' = TargetAfter(k)
  <2>1. TargetsIn(k)' = TargetsIn(k)
    BY DEF TargetsIn
  <2>2. TargetsIn(k) # {} => Last(TargetsIn(k)) \in 1..n
    <3>1. TargetsIn(k) \in SUBSET (1..k) /\ k \in Nat
      BY DEF TargetsIn
    <3>2. TargetsIn(k) # {} => Last(TargetsIn(k)) \in 1..k
      BY <3>1, LastOf
    <3> QED BY <3>2
  <2>3. TargetsIn(k) # {} => log'[Last(TargetsIn(k))] = log[Last(TargetsIn(k))]
    BY <2>2
  <2> QED BY <2>1, <2>3 DEF TargetAfter, TargetsIn
<1>3. TargetAfter(n)' = TargetAfter(n)
  BY <1>2 DEF TargetAfter, TargetsIn
<1>4. JobAfter(n)' = JobAfter(n)
  <2>1. JobsIn(n) # {} => Last(JobsIn(n)) \in 1..n
    BY LastOf DEF JobsIn
  <2> QED BY <1>1, <1>2, <2>1 DEF JobAfter, JobsIn
<1>5. SessionAfter(n)' = SessionAfter(n)
  <2>1. SessionsIn(n) # {} => First(SessionsIn(n)) \in 1..n
    BY FirstOf DEF SessionsIn
  <2> QED BY <1>1, <2>1 DEF SessionAfter, SessionsIn
<1> QED BY <1>3, <1>4, <1>5 DEF Follows

\* What the last message adds.
LEMMA TargetAdded ==
  ASSUME NEW n \in Nat \ {0}
  PROVE  TargetAfter(n) = IF SetsTarget(log[n]) THEN Element(log[n].params, 0).string
                          ELSE TargetAfter(n - 1)
<1>1. CASE SetsTarget(log[n])
  <2>1. n \in TargetsIn(n) /\ TargetsIn(n) \in SUBSET (1..n)
    BY <1>1 DEF TargetsIn
  <2>2. Last(TargetsIn(n)) = n
    BY <2>1, LastIsTheEnd
  <2> QED BY <1>1, <2>1, <2>2 DEF TargetAfter, TargetsIn
<1>2. CASE ~SetsTarget(log[n])
  <2>1. TargetsIn(n) = TargetsIn(n - 1)
    BY <1>2 DEF TargetsIn
  <2> QED BY <1>2, <2>1 DEF TargetAfter, TargetsIn
<1> QED BY <1>1, <1>2

LEMMA JobAdded ==
  ASSUME NEW n \in Nat \ {0}
  PROVE  JobAfter(n) = IF AnnouncesJob(log[n]) THEN JobOf(log[n], TargetAfter(n))
                       ELSE JobAfter(n - 1)
<1>1. CASE AnnouncesJob(log[n])
  <2>1. n \in JobsIn(n) /\ JobsIn(n) \in SUBSET (1..n)
    BY <1>1 DEF JobsIn
  <2>2. Last(JobsIn(n)) = n
    BY <2>1, LastIsTheEnd
  <2> QED BY <1>1, <2>1, <2>2 DEF JobAfter, JobsIn
<1>2. CASE ~AnnouncesJob(log[n])
  <2>1. JobsIn(n) = JobsIn(n - 1)
    BY <1>2 DEF JobsIn
  <2> QED BY <1>2, <2>1 DEF JobAfter, JobsIn
<1> QED BY <1>1, <1>2

LEMMA SessionAdded ==
  ASSUME NEW n \in Nat \ {0}
  PROVE  SessionAfter(n) = IF NamesSession(log[n]) /\ SessionAfter(n - 1) = None
                           THEN Element(log[n].result, 1).string ELSE SessionAfter(n - 1)
<1> DEFINE I == SessionsIn(n - 1)
<1>0. I \in SUBSET (1..(n - 1)) /\ \A i \in I : i < n
  BY DEF SessionsIn
<1>1. CASE ~NamesSession(log[n])
  <2>1. SessionsIn(n) = I
    BY <1>1 DEF SessionsIn
  <2> QED BY <1>1, <2>1 DEF SessionAfter, SessionsIn
<1>2. CASE NamesSession(log[n])
  <2>1. SessionsIn(n) = I \cup {n}
    BY <1>2 DEF SessionsIn
  <2>2. CASE I = {}
    <3>1. First(SessionsIn(n)) = n
      BY <2>1, <2>2 DEF First
    <3> QED BY <1>2, <2>1, <2>2, <3>1 DEF SessionAfter, SessionsIn
  <2>3. CASE I # {}
    <3> HIDE DEF I
    <3>1. First(I) \in I /\ \A k \in I : First(I) <= k
      <4>1. n - 1 \in Nat
        OBVIOUS
      <4> QED BY <1>0, <2>3, <4>1, FirstOf
    <3>2. First(SessionsIn(n)) \in I \cup {n} /\ \A k \in I \cup {n} : First(SessionsIn(n)) <= k
      <4>1. I \cup {n} \in SUBSET (1..n) /\ n \in Nat
        BY <1>0
      <4> QED BY <2>1, <4>1, FirstOf
    <3>3. First(SessionsIn(n)) = First(I)
      <4>0. \A i \in I \cup {n} : i \in Nat
        BY <1>0
      <4>1. First(SessionsIn(n)) \in Nat /\ First(I) \in Nat /\ First(I) < n
        BY <1>0, <3>1, <3>2, <4>0
      <4>2. First(SessionsIn(n)) <= First(I)
        BY <3>1, <3>2
      <4>3. First(SessionsIn(n)) # n
        BY <4>1, <4>2
      <4>4. First(I) <= First(SessionsIn(n))
        BY <3>1, <3>2, <4>3
      <4> QED BY <4>1, <4>2, <4>4
    <3>4. GivesText(Element(log[First(I)].result, 1))
      BY <3>1 DEF I, SessionsIn, NamesSession
    <3> QED BY <2>1, <2>3, <3>3, <3>4 DEF I, SessionAfter, SessionsIn, GivesText
  <2> QED BY <2>2, <2>3
<1> QED BY <1>1, <1>2

-----------------------------------------------------------------------------
(* The state and the log.                                                  *)

Busy == at \in {"dispatch", "stop", "set"}

\* While a message is processed the state lags behind the log by that message.
LogInv ==
  /\ StateFollowsLog
  /\ Busy => doc \in Messages
  /\ Busy /\ ~Asks(doc) => Follows(Len(log))
  /\ Busy /\ Asks(doc) =>
       Len(log) > 0 /\ log[Len(log)] = doc /\ Follows(Len(log) - 1)
  /\ at \in {"stop", "set"} => MakesJob(doc)
  /\ at = "aborted" => Asserts(doc)

\* The guards of the code accept the messages that announce a job, and no other.
LEMMA MakesJobIsAnnounces ==
  ASSUME NEW m \in Messages PROVE MakesJob(m) <=> AnnouncesJob(m)
<1> DEFINE p == m.params
<1>1. IsArray(p) => Len(p.items) \in Nat
  BY MessagesAssumption
<1>2. IsArray(p) /\ 5 < Len(p.items) /\ IsUint64(p.items[6])
        => p.items[6].int \in Int /\ p.items[6].int >= 0
  <2>1. IsArray(p) /\ 5 < Len(p.items) => 6 \in 1..Len(p.items)
    BY <1>1
  <2> QED BY <2>1, MessagesAssumption DEF IsUint64
<1>3. IsUint64(Element(p, 5)) =>
        /\ IsArray(p) /\ Len(p.items) >= 6
        /\ Element(p, 5).int \in Int /\ Element(p, 5).int >= 0
  BY <1>1, <1>2 DEF Element, IsUint64, IsInt, Absent
<1>4. ASSUME MakesJob(m) PROVE AnnouncesJob(m)
  <2>1. /\ Says(m, "mining.notify") /\ \A i \in 0..2 : Text(m, i) # None
        /\ Block(m) # 0
    BY <1>4 DEF MakesJob, IsNotify, Essential
  <2>2. \A i \in 0..2 : GivesText(Element(p, i))
    BY <2>1 DEF Text, GivesText
  <2>3. IsUint64(Element(p, 5)) /\ Element(p, 5).int > 0
    BY <1>3, <2>1 DEF Block
  <2> QED BY <2>1, <2>2, <2>3 DEF AnnouncesJob
<1>5. ASSUME AnnouncesJob(m) PROVE MakesJob(m)
  <2>1. /\ Says(m, "mining.notify") /\ \A i \in 0..2 : GivesText(Element(p, i))
        /\ IsUint64(Element(p, 5)) /\ Element(p, 5).int > 0
    BY <1>5 DEF AnnouncesJob
  <2>2. IsArray(p) /\ Len(p.items) >= 6 /\ Element(p, 5).int \in Int
    BY <1>3, <2>1
  <2>3. ~TooFewParams(m) /\ Has(p)
    BY <1>1, <2>2 DEF TooFewParams, Has, IsArray
  <2>4. Essential(m)
    BY <2>1, <2>2 DEF Essential, Text, Block, GivesText
  <2> QED BY <2>1, <2>3, <2>4 DEF MakesJob, IsNotify
<1> QED BY <1>4, <1>5

LEMMA OneThingAsked ==
  ASSUME NEW m
  PROVE  /\ ~(AnnouncesJob(m) /\ SetsTarget(m))
         /\ ~(AnnouncesJob(m) /\ NamesSession(m))
         /\ ~(SetsTarget(m) /\ NamesSession(m))
<1>1. ~(Says(m, "mining.notify") /\ Says(m, "mining.set_target"))
  <2>1. Str("mining.notify").string # Str("mining.set_target").string
    BY DEF Str
  <2> QED BY <2>1 DEF Says
<1>2. ASSUME NEW name, Says(m, name) PROVE Has(m.method)
  BY <1>2 DEF Says, Has, Str
<1> QED BY <1>1, <1>2 DEF AnnouncesJob, SetsTarget, NamesSession

\* A message that names a session is looked at for it.
LEMMA NamesGives ==
  ASSUME NEW m, NamesSession(m) PROVE GivesSession(m)
<1>1. IsArray(m.result) /\ IsStr(Element(m.result, 1))
  BY DEF NamesSession, GivesText, Element, IsStr, Absent
<1>2. Has(m.result) /\ Has(m.id) /\ ~Has(m.method)
  BY <1>1 DEF NamesSession, Has, IsArray, Num
<1> QED BY <1>1, <1>2 DEF GivesSession, IsResponse, NamesSession

\* The steps after which the state has caught up with the log.
LEMMA CaughtUp ==
  ASSUME LogInv, TypeInv, Busy, log' = log,
         NEW n \in Nat, n = Len(log),
         job' = IF AnnouncesJob(doc) THEN JobOf(doc, current_target) ELSE job,
         current_target' = IF SetsTarget(doc) THEN Element(doc.params, 0).string
                           ELSE current_target,
         session_id' = IF NamesSession(doc) /\ session_id = None
                       THEN Element(doc.result, 1).string ELSE session_id
  PROVE  Follows(n)'
<1>0. /\ TargetAfter(n)' = TargetAfter(n) /\ JobAfter(n)' = JobAfter(n)
      /\ SessionAfter(n)' = SessionAfter(n)
  BY DEF TargetAfter, JobAfter, SessionAfter
<1>1. CASE ~Asks(doc)
  BY <1>0, <1>1 DEF LogInv, Asks, Follows
<1>2. CASE Asks(doc)
  <2>1. n \in Nat \ {0} /\ log[n] = doc /\ Follows(n - 1)
    BY <1>2 DEF LogInv
  <2>2. current_target' = TargetAfter(n)
    BY <2>1, TargetAdded DEF Follows
  <2>3. session_id' = SessionAfter(n)
    BY <2>1, SessionAdded DEF Follows
  <2>4. job' = JobAfter(n)
    <3>1. AnnouncesJob(doc) => TargetAfter(n) = current_target
      BY <2>1, TargetAdded, OneThingAsked DEF Follows
    <3> QED BY <2>1, <3>1, JobAdded DEF Follows
  <2> QED BY <1>0, <2>2, <2>3, <2>4 DEF Follows
<1> QED BY <1>1, <1>2

LEMMA LogInit == DispatchInit => LogInv
<1> SUFFICES ASSUME DispatchInit PROVE LogInv
  OBVIOUS
<1>1. at = "split" /\ log = <<>> /\ Len(log) = 0
  BY DEF DispatchInit
<1>2. Follows(0)
  <2>1. 1..0 = {}
    OBVIOUS
  <2> QED BY <2>1 DEF DispatchInit, Follows, TargetAfter, JobAfter, SessionAfter
<1> QED BY <1>1, <1>2 DEF LogInv, Busy, StateFollowsLog

LEMMA LogUnchanged ==
  ASSUME LogInv, TypeInv, UNCHANGED <<memberVars, engineVars, log>>,
         at \in {"listen", "split", "object"}, at' \in {"listen", "split", "object"}
  PROVE  LogInv'
<1>1. Follows(Len(log)) /\ Len(log) \in Nat
  BY DEF LogInv, StateFollowsLog, TypeInv, DispatchTypeOK
<1>2. Follows(Len(log))'
  BY <1>1 DEF Follows, TargetAfter, JobAfter, SessionAfter, memberVars, engineVars
<1> QED BY <1>2 DEF LogInv, StateFollowsLog, Busy

LEMMA LogParse == LogInv /\ TypeInv /\ Parse => LogInv'
<1> SUFFICES ASSUME LogInv, TypeInv, Parse PROVE LogInv'
  OBVIOUS
<1>0. PICK n \in Nat : n = Len(log)
  BY DEF TypeInv, DispatchTypeOK
<1>1. Follows(n) /\ n \in Nat /\ log \in Seq(Messages)
  BY <1>0 DEF Parse, LogInv, StateFollowsLog, TypeInv, DispatchTypeOK
<1>2. PICK m \in Messages : doc' = m /\ log' = IF Asks(m) THEN Append(log, m) ELSE log
  BY DEF Parse
<1>3. /\ at' = "dispatch" /\ job' = job /\ current_target' = current_target
      /\ session_id' = session_id
  BY DEF Parse, memberVars, engineVars
<1>4. Asks(m) => Len(log') = n + 1 /\ log'[n + 1] = m
  BY <1>0, <1>1, <1>2, AppendProperties
<1>5. \A i \in 1..n : log'[i] = log[i]
  BY <1>0, <1>1, <1>2, AppendProperties
<1>6. Follows(n)'
  BY <1>1, <1>3, <1>5, AfterSame
<1>7. Asks(doc)' <=> Asks(m)
  BY <1>2
<1>8. CASE Asks(m)
  <2>1. Len(log') > 0 /\ log'[Len(log')] = doc' /\ Len(log') - 1 = n
    BY <1>0, <1>1, <1>2, <1>4, <1>8
  <2>2. (Follows(Len(log) - 1))'
    BY <1>6, <2>1 DEF Follows, JobAfter, TargetAfter, SessionAfter
  <2> QED BY <1>2, <1>3, <1>7, <1>8, <2>1, <2>2 DEF LogInv, StateFollowsLog, Busy
<1>9. CASE ~Asks(m)
  <2>1. Len(log') = n
    BY <1>0, <1>2, <1>9
  <2>2. Follows(Len(log))'
    BY <1>6, <2>1 DEF Follows, JobAfter, TargetAfter, SessionAfter
  <2> QED BY <1>2, <1>3, <1>7, <1>9, <2>2 DEF LogInv, StateFollowsLog, Busy
<1> QED BY <1>8, <1>9

\* Before the call of set_job nothing is written.
LEMMA LogNotify ==
  ASSUME LogInv, TypeInv, Notify \/ StopMining PROVE LogInv'
<1>1. /\ Busy /\ at' \in {"stop", "set"} /\ doc' = doc /\ log' = log /\ job' = job
      /\ current_target' = current_target /\ session_id' = session_id
  BY DEF Notify, StopMining, Busy, memberVars, engineVars
<1>2. MakesJob(doc)
  BY DEF Notify, StopMining, LogInv
<1>3. PICK n \in Nat : n = Len(log)
  BY DEF TypeInv, DispatchTypeOK
<1>4. \A k \in Nat : Follows(k) => Follows(k)'
  BY <1>1 DEF Follows, JobAfter, TargetAfter, SessionAfter
<1>5. CASE Asks(doc)
  <2>1. n > 0 /\ log[n] = doc /\ Follows(n - 1) /\ n - 1 \in Nat
    BY <1>1, <1>3, <1>5 DEF LogInv
  <2>2. Follows(n - 1)'
    BY <1>4, <2>1
  <2>3. (Follows(Len(log) - 1))'
    BY <1>1, <1>3, <2>2 DEF Follows, JobAfter, TargetAfter, SessionAfter
  <2> QED BY <1>1, <1>2, <1>3, <1>5, <2>1, <2>3 DEF LogInv, StateFollowsLog, Busy
<1>6. CASE ~Asks(doc)
  BY <1>1, <1>2, <1>6, MakesJobIsAnnounces DEF LogInv, Asks
<1> QED BY <1>5, <1>6

\* The steps that end the processing of a message do what it asks for.
LEMMA LogProcessed ==
  ASSUME LogInv, TypeInv, SetJob \/ SetTarget \/ NameSession \/ LogOnly PROVE LogInv'
<1>1. Busy /\ at' = "object" /\ log' = log /\ doc \in Messages
  BY DEF SetJob, SetTarget, NameSession, LogOnly, Processed, Busy, LogInv
<1>2. PICK n \in Nat : n = Len(log)
  BY DEF TypeInv, DispatchTypeOK
<1>3. MakesJob(doc) <=> AnnouncesJob(doc)
  BY <1>1, MakesJobIsAnnounces
<1>4. NamesSession(doc) => GivesSession(doc)
  BY NamesGives
<1>5. GivesSession(doc) => \/ NamesSession(doc) /\ ~MakesJob(doc) /\ ~SetsTarget(doc)
                           \/ /\ Element(doc.result, 1).string = None
                              /\ ~MakesJob(doc) /\ ~SetsTarget(doc) /\ ~NamesSession(doc)
  <2>1. ASSUME GivesSession(doc) PROVE ~Has(doc.method)
    BY <2>1 DEF GivesSession, IsResponse
  <2>2. ASSUME NEW name, Says(doc, name) PROVE Has(doc.method)
    BY <2>2 DEF Says, Has, Str
  <2>3. ASSUME GivesSession(doc) PROVE ~MakesJob(doc) /\ ~SetsTarget(doc)
    BY <2>1, <2>2, <2>3 DEF MakesJob, IsNotify, SetsTarget
  <2>4. ASSUME GivesSession(doc), Element(doc.result, 1).string # None
        PROVE  NamesSession(doc)
    BY <2>1, <2>4 DEF GivesSession, NamesSession, GivesText
  <2>5. ASSUME GivesSession(doc), Element(doc.result, 1).string = None
        PROVE  ~NamesSession(doc)
    BY <2>5 DEF NamesSession, GivesText
  <2> QED BY <2>3, <2>4, <2>5
<1>6. /\ job' = IF AnnouncesJob(doc) THEN JobOf(doc, current_target) ELSE job
      /\ current_target' = IF SetsTarget(doc) THEN Element(doc.params, 0).string
                           ELSE current_target
      /\ session_id' = IF NamesSession(doc) /\ session_id = None
                       THEN Element(doc.result, 1).string ELSE session_id
  <2>1. CASE SetJob
    <3>1. MakesJob(doc) /\ AnnouncesJob(doc)
      BY <1>3, <2>1 DEF SetJob, LogInv
    <3>2. /\ Text(doc, 0) = Element(doc.params, 0).string
          /\ Text(doc, 1) = Element(doc.params, 1).string
          /\ Text(doc, 2) = Element(doc.params, 2).string
      BY <3>1 DEF AnnouncesJob, Text, GivesText
    <3>3. Block(doc) = Element(doc.params, 5).int
      BY <3>1 DEF MakesJob, Essential, Block
    <3>4. job' = JobOf(doc, current_target)
      BY <2>1, <3>2, <3>3 DEF SetJob, JobOf
    <3> QED BY <2>1, <3>1, <3>4, OneThingAsked DEF SetJob, memberVars
  <2>2. CASE SetTarget
    BY <2>2, OneThingAsked DEF SetTarget, engineVars
  <2>3. CASE NameSession
    <3>1. ~AnnouncesJob(doc) /\ ~SetsTarget(doc)
      BY <1>3, <1>5, <2>3 DEF NameSession
    <3>2. job' = job /\ current_target' = current_target /\ session_id = None
      BY <2>3 DEF NameSession, engineVars
    <3>3. session_id' = Element(doc.result, 1).string
      BY <2>3 DEF NameSession
    <3>4. GivesSession(doc)
      BY <2>3 DEF NameSession
    <3> QED BY <1>5, <3>1, <3>2, <3>3, <3>4
  <2>4. CASE LogOnly
    BY <1>3, <1>4, <2>4 DEF LogOnly, memberVars, engineVars
  <2> QED BY <2>1, <2>2, <2>3, <2>4
<1>7. Follows(n)'
  BY <1>1, <1>2, <1>6, CaughtUp
<1>8. Follows(Len(log))'
  BY <1>1, <1>2, <1>7 DEF Follows, JobAfter, TargetAfter, SessionAfter
<1> QED BY <1>1, <1>8 DEF LogInv, StateFollowsLog, Busy

LEMMA LogNext == LogInv /\ TypeInv /\ [DispatchNext]_allVars => LogInv'
<1> SUFFICES ASSUME LogInv, TypeInv, [DispatchNext]_allVars PROVE LogInv'
  OBVIOUS
<1>1. CASE Split \/ BeginObjects \/ EndLine \/ NextLine \/ Reconnect \/ ParseError
  BY <1>1, LogUnchanged DEF Split, BeginObjects, EndLine, NextLine, Reconnect,
     ParseError, Processed, dispatchVars
<1>2. CASE Parse
  BY <1>2, LogParse
<1>3. CASE Notify \/ StopMining
  BY <1>3, LogNotify
<1>4. CASE SetJob \/ SetTarget \/ NameSession \/ LogOnly
  BY <1>4, LogProcessed
<1>5. CASE Abort
  BY <1>5 DEF Abort, LogInv, StateFollowsLog, Busy
<1>6. CASE Ended \/ UNCHANGED allVars
  <2>1. UNCHANGED allVars
    BY <1>6 DEF Ended
  <2>2. /\ at' = at /\ doc' = doc /\ log' = log /\ job' = job
        /\ current_target' = current_target /\ session_id' = session_id
    BY <2>1 DEF allVars, dispatchVars, memberVars, engineVars
  <2> QED BY <2>2 DEF LogInv, StateFollowsLog, Busy, Follows, JobAfter, TargetAfter,
             SessionAfter
<1> QED BY <1>1, <1>2, <1>3, <1>4, <1>5, <1>6 DEF DispatchNext

LEMMA Invariant == DispatchSpec => [](TypeInv /\ LogInv)
<1>1. DispatchInit => TypeInv /\ LogInv
  BY TypeInit, LogInit
<1>2. TypeInv /\ LogInv /\ [DispatchNext]_allVars => (TypeInv /\ LogInv)'
  BY TypeNext, LogNext
<1> QED BY <1>1, <1>2, PTL DEF DispatchSpec

\* The job, the target and the session id are those the messages of the pool ask
\* for, in whatever lines and connections they come, among whatever else: the
\* guards of process_single_message let through exactly the complete
\* announcements, and nothing else writes what they set.
THEOREM StateIsOfTheLog == DispatchSpec => []StateFollowsLog
<1>1. LogInv => StateFollowsLog
  BY DEF LogInv
<1> QED BY <1>1, Invariant, PTL

\* A message with members of the right types, of whatever length and content, its
\* ids and codes being whole numbers that an int holds, meets none of rapidjson's
\* assertions.
THEOREM RightTypesAreSafe == DispatchSpec => []RightTypesNeverAbort
<1>1. ASSUME NEW m \in Messages, Asserts(m) PROVE ~RightTypes(m)
  <2>1. ASSUME NEW v \in {m.params, m.result, m.error}, IsArray(v)
        PROVE  Len(v.items) \in Nat
    BY <2>1, MessagesAssumption
  <2>2. IsArray(m.error) => Len(m.error.items) \in Nat
    BY <2>1
  <2>3. CASE Has(m.method) /\ ~IsStr(m.method)
    BY <2>3 DEF RightTypes
  <2>4. CASE IsNotify(m) /\ ~TooFewParams(m) /\ Len(m.params.items) < 6
    BY <2>4 DEF TooFewParams
  <2>5. CASE IsResponse(m) /\ ~IsInt(m.id)
    BY <2>5 DEF RightTypes, IsResponse
  <2>6. CASE IsRejection(m) /\ ~(IsInt(Element(m.error, 0)) /\ IsStr(Element(m.error, 1)))
    <3>1. IsArray(m.error) /\ Len(m.error.items) >= 2
      BY <2>6 DEF IsRejection, IsArray
    <3>2. Element(m.error, 0) = m.error.items[1] /\ Element(m.error, 1) = m.error.items[2]
      BY <2>2, <3>1 DEF Element
    <3> QED BY <2>6, <3>1, <3>2 DEF RightTypes, RightError, IsArray
  <2>7. CASE IsFailure(m) /\ IsStr(Element(m.error, 1)) /\ ~IsInt(Element(m.error, 0))
    <3>1. IsArray(m.error) /\ 1 < Len(m.error.items)
      BY <2>7 DEF Element, IsStr, Absent
    <3>2. Len(m.error.items) >= 2 /\ Element(m.error, 0) = m.error.items[1]
      BY <2>2, <3>1 DEF Element
    <3> QED BY <2>7, <3>1, <3>2 DEF RightTypes, RightError, IsArray
  <2>8. CASE /\ IsFailure(m) /\ m.error.type = "object"
             /\ ~(IsInt(m.error.code) /\ IsStr(m.error.text))
    BY <2>8 DEF RightTypes, RightError, IsArray
  <2> QED BY <1>1, <2>3, <2>4, <2>5, <2>6, <2>7, <2>8 DEF Asserts
<1> DEFINE AbortInv == at = "aborted" => doc \in Messages /\ Asserts(doc)
<1>2. DispatchInit => AbortInv
  BY DEF DispatchInit
<1>3. LogInv /\ AbortInv /\ [DispatchNext]_allVars => AbortInv'
  BY DEF LogInv, Busy, DispatchNext, Split, BeginObjects, EndLine, NextLine, Reconnect,
     ParseError, Parse, Notify, StopMining, SetJob, SetTarget, NameSession, Abort,
     LogOnly, Ended, Processed, allVars, dispatchVars
<1>4. AbortInv => RightTypesNeverAbort
  BY <1>1 DEF RightTypesNeverAbort
<1> HIDE DEF AbortInv
<1> QED BY <1>2, <1>3, <1>4, Invariant, PTL DEF DispatchSpec

\* Whatever the pool sends, the engine stands still only between the stop and the
\* start of a job that is complete.
THEOREM MiningGoesOn == DispatchSpec => []NeverLeftIdle
<1> DEFINE IdleInv == NeverLeftIdle
<1>1. DispatchInit => IdleInv
  BY DEF DispatchInit, NeverLeftIdle
<1>2. LogInv /\ IdleInv /\ [DispatchNext]_allVars => IdleInv'
  <2> SUFFICES ASSUME LogInv, IdleInv, [DispatchNext]_allVars PROVE IdleInv'
    OBVIOUS
  <2>1. CASE SetJob
    <3>1. Text(doc, 0) # None
      BY <2>1 DEF SetJob, LogInv, MakesJob, Essential
    <3>2. job' # NoJob
      BY <2>1, <3>1 DEF SetJob, NoJob
    <3> QED BY <2>1, <3>2 DEF SetJob, NeverLeftIdle
  <2>2. CASE ~SetJob
    BY <2>2 DEF DispatchNext, NeverLeftIdle, Split, BeginObjects, EndLine, NextLine,
       Reconnect, ParseError, Parse, Notify, StopMining, SetTarget, NameSession, Abort,
       LogOnly, Ended, Processed, allVars, dispatchVars, engineVars
  <2> QED BY <2>1, <2>2
<1> HIDE DEF IdleInv
<1>3. IdleInv => NeverLeftIdle
  BY DEF IdleInv
<1> QED BY <1>1, <1>2, <1>3, Invariant, PTL DEF DispatchSpec

-----------------------------------------------------------------------------
(* The objects of a line.                                                  *)

Plain == WellFormed /\ ~BraceInString

LEMMA OneMore ==
  ASSUME NEW n \in Nat, NEW A \in SUBSET (1..n), NEW B \in SUBSET (1..(n + 1)),
         B \ {n + 1} = A
  PROVE  /\ Cardinality(A) \in Nat
         /\ Cardinality(B) = IF n + 1 \in B THEN Cardinality(A) + 1 ELSE Cardinality(A)
<1>1. IsFiniteSet(1..n)
  BY FS_Interval
<1>2. IsFiniteSet(A)
  BY <1>1, FS_Subset
<1>3. Cardinality(A) \in Nat
  BY <1>2, FS_CardinalityType
<1>4. n + 1 \notin A
  OBVIOUS
<1>5. CASE n + 1 \in B
  <2>1. B = A \cup {n + 1}
    BY <1>5
  <2>2. Cardinality(A \cup {n + 1}) = Cardinality(A) + 1
    BY <1>2, <1>4, FS_AddElement
  <2> QED BY <1>3, <1>5, <2>1, <2>2
<1>6. CASE n + 1 \notin B
  <2>1. B = A
    BY <1>6
  <2> QED BY <1>3, <1>6, <2>1
<1> QED BY <1>5, <1>6

\* One character more opens or closes one object at most.
LEMMA OpenedStep ==
  ASSUME NEW n \in Nat
  PROVE  /\ Opened(0) = 0 /\ Closed(0) = 0
         /\ Opened(n) \in Nat /\ Closed(n) \in Nat
         /\ Opened(n + 1) = IF Structural(Open, n + 1) THEN Opened(n) + 1 ELSE Opened(n)
         /\ Closed(n + 1) = IF Structural(Close, n + 1) THEN Closed(n) + 1 ELSE Closed(n)
<1> DEFINE O(m) == {i \in 1..m : Structural(Open, i)}
           C(m) == {i \in 1..m : Structural(Close, i)}
<1>1. O(0) = {} /\ C(0) = {}
  OBVIOUS
<1>2. Cardinality(O(0)) = 0 /\ Cardinality(C(0)) = 0
  BY <1>1, FS_EmptySet
<1>3. /\ O(n) \in SUBSET (1..n) /\ O(n + 1) \in SUBSET (1..(n + 1))
      /\ O(n + 1) \ {n + 1} = O(n) /\ (n + 1 \in O(n + 1) <=> Structural(Open, n + 1))
  OBVIOUS
<1>4. /\ C(n) \in SUBSET (1..n) /\ C(n + 1) \in SUBSET (1..(n + 1))
      /\ C(n + 1) \ {n + 1} = C(n) /\ (n + 1 \in C(n + 1) <=> Structural(Close, n + 1))
  OBVIOUS
<1> HIDE DEF O, C
<1>5. /\ Cardinality(O(n)) \in Nat
      /\ Cardinality(O(n + 1)) = IF Structural(Open, n + 1) THEN Cardinality(O(n)) + 1
                                 ELSE Cardinality(O(n))
  BY <1>3, OneMore
<1>6. /\ Cardinality(C(n)) \in Nat
      /\ Cardinality(C(n + 1)) = IF Structural(Close, n + 1) THEN Cardinality(C(n)) + 1
                                 ELSE Cardinality(C(n))
  BY <1>4, OneMore
<1> QED BY <1>2, <1>5, <1>6 DEF Opened, Closed, O, C

\* In a plain line every brace counts.
LEMMA PlainBraces ==
  ASSUME Plain, NEW i \in 1..Len(line)
  PROVE  /\ Structural(Open, i) <=> line[i] = Open
         /\ Structural(Close, i) <=> line[i] = Close
  BY DEF Plain, BraceInString, Structural

LEMMA SplitInduction ==
  ASSUME NEW n \in Nat, NEW S, 0 \in S, \A k \in 0..(n - 1) : k \in S => k + 1 \in S
  PROVE  \A k \in 0..n : k \in S
<1> DEFINE T == {k \in 1..n : k \notin S}
<1>1. SUFFICES ASSUME T # {} PROVE FALSE
  OBVIOUS
<1>2. T \in SUBSET (1..n)
  OBVIOUS
<1>3. First(T) \in T /\ \A k \in T : First(T) <= k
  BY <1>1, <1>2, FirstOf
<1> DEFINE x == First(T)
<1>4. x \in 1..n /\ x \notin S /\ \A k \in T : x <= k
  BY <1>3
<1> HIDE DEF x
<1>5. x - 1 \in 0..(n - 1) /\ (x - 1) + 1 = x /\ (x - 1 = 0 \/ x - 1 \in 1..n)
  BY <1>4
<1>6. x - 1 \in S
  BY <1>4, <1>5
<1> QED BY <1>4, <1>5, <1>6

\* Where nothing is open and nothing opens, nothing closes.
LEMMA NothingOpens ==
  ASSUME Plain, Len(line) \in Nat, NEW a \in 0..Len(line), NEW b \in a..Len(line),
         \A i \in (a + 1)..b : line[i] # Open, Opened(a) = Closed(a)
  PROVE  Opened(b) = Closed(b)
<1> DEFINE S == {k \in 0..(b - a) : Opened(a + k) = Closed(a + k)}
<1>1. a \in Nat /\ b - a \in Nat /\ a + 0 = a /\ a + (b - a) = b
  OBVIOUS
<1>2. 0 \in S
  BY <1>1
<1>3. ASSUME NEW k \in 0..((b - a) - 1), k \in S PROVE k + 1 \in S
  <2> DEFINE m == a + k
  <2>1. /\ m \in Nat /\ m + 1 = a + (k + 1) /\ m + 1 \in (a + 1)..b
        /\ m + 1 \in 1..Len(line) /\ k + 1 \in 0..(b - a)
    BY <1>1
  <2>2. Opened(m) = Closed(m)
    BY <1>3
  <2>3. ~Structural(Open, m + 1)
    BY <2>1, PlainBraces
  <2>4. Closed(m + 1) <= Opened(m + 1)
    BY <2>1 DEF Plain, WellFormed
  <2> HIDE DEF m
  <2>5. m \in Nat
    BY <2>1
  <2>6. /\ Opened(m) \in Nat /\ Closed(m) \in Nat
        /\ Opened(m + 1) = IF Structural(Open, m + 1) THEN Opened(m) + 1 ELSE Opened(m)
        /\ Closed(m + 1) = IF Structural(Close, m + 1) THEN Closed(m) + 1 ELSE Closed(m)
    BY <2>5, OpenedStep
  <2>7. Opened(m + 1) = Opened(m)
    BY <2>3, <2>6
  <2>8. Closed(m + 1) \in {Closed(m), Closed(m) + 1}
    BY <2>6
  <2>9. Opened(m + 1) = Closed(m + 1)
    BY <2>2, <2>4, <2>6, <2>7, <2>8
  <2> QED BY <2>1, <2>9
<1> HIDE DEF S
<1> DEFINE n == b - a
<1>4. n \in Nat /\ \A k \in 0..(n - 1) : k \in S => k + 1 \in S
  BY <1>1, <1>3
<1> HIDE DEF n
<1>5. \A k \in 0..n : k \in S
  BY <1>2, <1>4, SplitInduction
<1>6. n \in S
  BY <1>4, <1>5
<1> QED BY <1>1, <1>6 DEF n, S

\* The objects that end before p.
Before(p) == {o \in Objects : o[2] < p}

\* An object that ends after a place where nothing is open begins after it.
LEMMA ObjectAfter ==
  ASSUME NEW o \in Objects, Len(line) \in Nat, NEW p \in 1..(Len(line) + 1),
         Opened(p - 1) = Closed(p - 1), o[2] >= p
  PROVE  /\ o[1] \in p..Len(line) /\ o[2] \in 1..Len(line) /\ o[1] < o[2]
         /\ line[o[1]] = Open
         /\ Opened(o[1] - 1) = Closed(o[1] - 1) /\ Opened(o[2]) = Closed(o[2])
<1>1. o[1] \in 1..Len(line) /\ o[2] \in 1..Len(line) /\ o[1] < o[2] /\ IsObject(o[1], o[2])
  BY DEF Objects
<1>2. /\ line[o[1]] = Open /\ Opened(o[2]) = Closed(o[2])
      /\ Opened(o[1] - 1) = Closed(o[1] - 1)
      /\ \A n \in o[1]..(o[2] - 1) : Opened(n) # Closed(n)
  BY <1>1 DEF IsObject, Structural
<1>3. ~(o[1] < p)
  <2>1. o[1] < p => p - 1 \in o[1]..(o[2] - 1)
    BY <1>1
  <2> QED BY <1>2, <2>1
<1> QED BY <1>1, <1>2, <1>3

\* With nothing balanced from start to end - 2, the only object that ends after
\* pos can begin at start, and not end before end - 1.
LEMMA ObjectAtStart ==
  ASSUME NEW o \in Objects, Len(line) \in Nat, pos \in 1..(Len(line) + 1),
         Opened(pos - 1) = Closed(pos - 1), o[2] >= pos, FirstOpen(start),
         start \in 1..Len(line), NEW e \in Nat, o[1] <= e,
         \A n \in start..(e - 1) : Opened(n) # Closed(n)
  PROVE  o[1] = start /\ o[2] >= e
<1>1. /\ o[1] \in pos..Len(line) /\ o[2] \in 1..Len(line) /\ o[1] < o[2]
      /\ line[o[1]] = Open
      /\ Opened(o[1] - 1) = Closed(o[1] - 1) /\ Opened(o[2]) = Closed(o[2])
  BY ObjectAfter
<1>2. ~(o[1] \in pos..(start - 1))
  BY <1>1 DEF FirstOpen
<1>3. o[1] >= start
  BY <1>1, <1>2
<1>4. o[1] - 1 \notin start..(e - 1)
  BY <1>1
<1>5. o[1] = start
  BY <1>1, <1>3, <1>4
<1>6. o[2] \notin start..(e - 1)
  BY <1>1
<1> QED BY <1>1, <1>5, <1>6

\* While a line is split: what was handed on are the objects that end before pos,
\* and the matching loop is inside the next.
Matching ==
  /\ start \in pos..Len(line) /\ FirstOpen(start) /\ Opened(start - 1) = Closed(start - 1)
  /\ start < end /\ Opened(end - 1) = Closed(end - 1) + brace_count
  /\ \A n \in start..(end - 2) : Opened(n) # Closed(n)

InOrder ==
  /\ \A i, j \in 1..Len(messages) : i < j => messages[i][2] < messages[j][1]
  /\ \A i \in 1..Len(messages) : messages[i][2] < pos
  /\ pc = "match" => pos <= start /\ start < end

HandedOn ==
  Plain =>
    /\ pc \in {"search", "match"} => Found = Before(pos) /\ Opened(pos - 1) = Closed(pos - 1)
    /\ pc = "match" => Matching
    /\ pc = "done" => Found = Objects

SplitInv == InOrder /\ HandedOn

LEMMA NothingSplit ==
  messages = <<>> /\ pos = 1 /\ pc # "match" /\ (line = <<>> \/ pc = "search") => SplitInv
<1> SUFFICES ASSUME messages = <<>>, pos = 1, pc # "match", line = <<>> \/ pc = "search"
             PROVE  SplitInv
  OBVIOUS
<1>1. InOrder /\ Found = {}
  BY DEF InOrder, Found
<1>2. Before(pos) = {}
  BY DEF Before, Objects
<1>3. line = <<>> => Objects = {}
  BY DEF Objects
<1>4. Opened(pos - 1) = Closed(pos - 1)
  BY OpenedStep
<1> QED BY <1>1, <1>2, <1>3, <1>4 DEF SplitInv, HandedOn

\* What only depends on the line.
LEMMA SameLine ==
  ASSUME line' = line
  PROVE  /\ Plain' <=> Plain
         /\ Objects' = Objects
         /\ \A n \in Nat : Opened(n)' = Opened(n) /\ Closed(n)' = Closed(n)
<1>1. \A n \in Nat : Opened(n)' = Opened(n) /\ Closed(n)' = Closed(n)
  BY DEF Opened, Closed, Structural, InString, Count
<1>2. Objects' = Objects
  BY DEF Objects, IsObject, Opened, Closed, Structural, InString, Count
<1>3. Plain' <=> Plain
  BY DEF Plain, WellFormed, BraceInString, Opened, Closed, Structural, InString, Count
<1> QED BY <1>1, <1>2, <1>3

\* The variables are numbers within the line.
Within ==
  /\ Len(line) \in Nat
  /\ pos \in 1..(Len(line) + 1) /\ end \in 1..(Len(line) + 1)
  /\ start \in Nat /\ brace_count \in Nat

LEMMA SplitFindStart ==
  ASSUME Within, SplitInv, FindStart PROVE SplitInv'
<1>1. PICK p \in 1..Len(line) : FirstOpen(p) /\ start' = p /\ end' = p + 1
  BY DEF FindStart
<1>2. /\ pc = "search" /\ pc' = "match" /\ line' = line /\ pos' = pos
      /\ messages' = messages /\ brace_count' = 1
  BY DEF FindStart
<1>3. InOrder'
  <2>1. pos <= p /\ p < p + 1
    BY <1>1 DEF FirstOpen, Within
  <2> QED BY <1>1, <1>2, <2>1 DEF SplitInv, InOrder
<1>4. ASSUME Plain PROVE Opened(p - 1) = Closed(p - 1) /\ Opened(p) = Closed(p) + 1
  <2>1. Opened(pos - 1) = Closed(pos - 1)
    BY <1>2, <1>4 DEF SplitInv, HandedOn
  <2>2. /\ p \in pos..Len(line) /\ line[p] = Open /\ \A i \in pos..(p - 1) : line[i] # Open
    BY <1>1 DEF FirstOpen
  <2>3. Opened(p - 1) = Closed(p - 1)
    <3> DEFINE a == pos - 1
               b == p - 1
    <3>1. /\ a \in 0..Len(line) /\ b \in a..Len(line) /\ a + 1 = pos /\ Len(line) \in Nat
          /\ \A i \in (a + 1)..b : line[i] # Open
      BY <2>2 DEF Within
    <3>2. Opened(a) = Closed(a)
      BY <2>1
    <3> HIDE DEF a, b
    <3>3. Opened(b) = Closed(b)
      BY <1>4, <3>1, <3>2, NothingOpens
    <3> QED BY <3>3 DEF b
  <2>4. Structural(Open, p) /\ ~Structural(Close, p)
    BY <1>1, <1>4, <2>2, PlainBraces DEF Open, Close
  <2> DEFINE m == p - 1
  <2>5. m \in Nat /\ m + 1 = p
    BY <1>1 DEF Within
  <2> HIDE DEF m
  <2>6. /\ Opened(m) \in Nat /\ Closed(m) \in Nat
        /\ Opened(m + 1) = IF Structural(Open, m + 1) THEN Opened(m) + 1 ELSE Opened(m)
        /\ Closed(m + 1) = IF Structural(Close, m + 1) THEN Closed(m) + 1 ELSE Closed(m)
    BY <2>5, OpenedStep
  <2>7. Opened(p) = Opened(m) + 1 /\ Closed(p) = Closed(m)
    BY <2>4, <2>5, <2>6
  <2> QED BY <2>3, <2>7 DEF m
<1>5. HandedOn'
  <2> SUFFICES ASSUME Plain'
               PROVE  Found' = Before(pos)' /\ (Opened(pos - 1) = Closed(pos - 1))' /\ Matching'
    BY <1>2 DEF HandedOn
  <2>1. Plain
    BY <1>2, SameLine
  <2>2. Objects' = Objects /\ \A n \in Nat : Opened(n)' = Opened(n) /\ Closed(n)' = Closed(n)
    BY <1>2, SameLine
  <2>3. Found = Before(pos) /\ Opened(pos - 1) = Closed(pos - 1)
    BY <1>2, <2>1 DEF SplitInv, HandedOn
  <2>4. Found' = Before(pos)'
    BY <1>2, <2>2, <2>3 DEF Found, Before
  <2>5. (Opened(pos - 1) = Closed(pos - 1))'
    <3>1. pos - 1 \in Nat
      BY DEF Within
    <3> QED BY <1>2, <2>2, <2>3, <3>1
  <2>6. Matching'
    <3>1. p - 1 \in Nat /\ p \in Nat /\ (p + 1) - 1 = p /\ (p + 1) - 2 = p - 1
      BY <1>1 DEF Within
    <3>2. start' \in pos'..Len(line') /\ FirstOpen(start)'
      BY <1>1, <1>2 DEF FirstOpen
    <3>3. /\ (Opened(start - 1) = Closed(start - 1))'
          /\ (Opened(end - 1) = Closed(end - 1) + brace_count)'
      BY <1>1, <1>2, <1>4, <2>1, <2>2, <3>1
    <3>4. start' < end' /\ \A n : n \notin start'..(end' - 2)
      BY <1>1, <3>1
    <3> QED BY <3>2, <3>3, <3>4 DEF Matching
  <2> QED BY <2>4, <2>5, <2>6
<1> QED BY <1>3, <1>5 DEF SplitInv

LEMMA SplitCountBrace ==
  ASSUME Within, SplitInv, CountBrace PROVE SplitInv'
<1>1. /\ pc = "match" /\ pc' = "match" /\ line' = line /\ pos' = pos /\ start' = start
      /\ messages' = messages /\ end' = end + 1 /\ end <= Len(line) /\ brace_count > 0
  BY DEF CountBrace
<1>2. InOrder'
  <2>1. pos <= start /\ start < end /\ start < end + 1
    BY <1>1 DEF SplitInv, InOrder, Within
  <2> QED BY <1>1, <2>1 DEF SplitInv, InOrder
<1>3. HandedOn'
  <2> SUFFICES ASSUME Plain'
               PROVE  Found' = Before(pos)' /\ (Opened(pos - 1) = Closed(pos - 1))' /\ Matching'
    BY <1>1 DEF HandedOn
  <2>1. Plain
    BY <1>1, SameLine
  <2>2. Objects' = Objects /\ \A n \in Nat : Opened(n)' = Opened(n) /\ Closed(n)' = Closed(n)
    BY <1>1, SameLine
  <2>3. Found = Before(pos) /\ Opened(pos - 1) = Closed(pos - 1) /\ Matching
    BY <1>1, <2>1 DEF SplitInv, HandedOn
  <2>4. Found' = Before(pos)'
    BY <1>1, <2>2, <2>3 DEF Found, Before
  <2>5. (Opened(pos - 1) = Closed(pos - 1))'
    <3>1. pos - 1 \in Nat
      BY DEF Within
    <3> QED BY <1>1, <2>2, <2>3, <3>1
  <2>6. /\ start \in pos..Len(line) /\ start \in Nat /\ end \in Nat /\ brace_count \in Nat
        /\ Len(line) \in Nat /\ start < end
    BY <2>3 DEF Matching, Within
  <2>7. Opened(end) = Closed(end) + brace_count' /\ Opened(end - 1) # Closed(end - 1)
    <3> DEFINE m == end - 1
    <3>1. m \in Nat /\ m + 1 = end
      BY <2>6
    <3>2. Opened(m) = Closed(m) + brace_count
      BY <2>3 DEF Matching
    <3> HIDE DEF m
    <3>3. /\ Opened(m) \in Nat /\ Closed(m) \in Nat
          /\ Opened(m + 1) = IF Structural(Open, m + 1) THEN Opened(m) + 1 ELSE Opened(m)
          /\ Closed(m + 1) = IF Structural(Close, m + 1) THEN Closed(m) + 1 ELSE Closed(m)
      BY <3>1, OpenedStep
    <3>4. /\ Structural(Open, end) <=> line[end] = Open
          /\ Structural(Close, end) <=> line[end] = Close
      <4>1. end \in 1..Len(line)
        BY <1>1, <2>6, <3>1
      <4> QED BY <2>1, <4>1, PlainBraces
    <3>5. Opened(m) # Closed(m)
      BY <1>1, <2>6, <3>2, <3>3
    <3>6. CASE line[end] = Open
      <4>1. brace_count' = brace_count + 1
        BY <3>6 DEF CountBrace, Open, Close
      <4>2. Opened(end) = Opened(m) + 1 /\ Closed(end) = Closed(m)
        BY <3>1, <3>3, <3>4, <3>6 DEF Open, Close
      <4> QED BY <2>6, <3>2, <3>3, <3>5, <4>1, <4>2 DEF m
    <3>7. CASE line[end] = Close
      <4>1. brace_count' = brace_count - 1
        BY <3>7 DEF CountBrace, Open, Close
      <4>2. Opened(end) = Opened(m) /\ Closed(end) = Closed(m) + 1
        BY <3>1, <3>3, <3>4, <3>7 DEF Open, Close
      <4> QED BY <2>6, <3>2, <3>3, <3>5, <4>1, <4>2 DEF m
    <3>8. CASE line[end] \notin {Open, Close}
      <4>1. brace_count' = brace_count
        BY <3>8 DEF CountBrace
      <4>2. Opened(end) = Opened(m) /\ Closed(end) = Closed(m)
        BY <3>1, <3>3, <3>4, <3>8
      <4> QED BY <3>2, <3>5, <4>1, <4>2 DEF m
    <3> QED BY <3>6, <3>7, <3>8
  <2>8. Matching'
    <3>1. start - 1 \in Nat /\ (end + 1) - 1 = end /\ (end + 1) - 2 = end - 1
      BY <2>3, <2>6 DEF Within
    <3>2. start' \in pos'..Len(line') /\ FirstOpen(start)' /\ start' < end'
      BY <1>1, <2>3, <2>6 DEF Matching, FirstOpen
    <3>3. (Opened(start - 1) = Closed(start - 1))'
      BY <1>1, <2>2, <2>3, <3>1 DEF Matching
    <3>4. (Opened(end - 1) = Closed(end - 1) + brace_count)'
      BY <1>1, <2>2, <2>6, <2>7, <3>1
    <3>5. ASSUME NEW n \in start..(end - 1) PROVE Opened(n)' # Closed(n)'
      <4>1. n \in Nat /\ (n \in start..(end - 2) \/ n = end - 1)
        BY <2>6
      <4> QED BY <2>2, <2>3, <2>7, <4>1 DEF Matching
    <3> QED BY <1>1, <3>1, <3>2, <3>3, <3>4, <3>5 DEF Matching
  <2> QED BY <2>4, <2>5, <2>8
<1> QED BY <1>2, <1>3 DEF SplitInv

LEMMA SplitComplete ==
  ASSUME Within, TypeOK, SplitInv, Complete PROVE SplitInv'
<1> DEFINE new == <<start, end - 1>>
           k == Len(messages)
<1>1. /\ pc = "match" /\ pc' = "search" /\ line' = line /\ pos' = end
      /\ messages' = Append(messages, new) /\ brace_count = 0
      /\ start' = start /\ end' = end
  BY DEF Complete
<1>2. /\ k \in Nat /\ Len(messages') = k + 1 /\ messages'[k + 1] = new
      /\ \A i \in 1..k : messages'[i] = messages[i]
  BY <1>1 DEF TypeOK
<1>3. pc = "match" => start \in Nat /\ end \in Nat /\ pos \in Nat
  BY DEF TypeOK
<1> HIDE DEF k
<1>4. Found' = Found \cup {new}
  <2>1. Found' = {messages'[i] : i \in 1..(k + 1)} /\ Found = {messages[i] : i \in 1..k}
    BY <1>2 DEF Found, k
  <2>2. \A i \in 1..(k + 1) : i \in 1..k \/ i = k + 1
    BY <1>2
  <2>3. \A i \in 1..k : i \in 1..(k + 1)
    BY <1>2
  <2>4. k + 1 \in 1..(k + 1)
    BY <1>2
  <2> HIDE DEF new
  <2> QED BY <1>2, <2>1, <2>2, <2>3, <2>4
<1>5. pos <= start /\ start < end
  BY <1>1 DEF SplitInv, InOrder
<1>6. InOrder'
  <2>1. new[1] = start /\ new[2] = end - 1
    OBVIOUS
  <2> HIDE DEF new
  <2>2. \A i \in 1..k : messages[i][2] < pos /\ messages[i][2] \in Nat
    BY DEF SplitInv, InOrder, TypeOK, k
  <2>3. ASSUME NEW i \in 1..(k + 1), NEW j \in 1..(k + 1), i < j
        PROVE  messages'[i][2] < messages'[j][1]
    <3>1. i \in 1..k /\ (j \in 1..k \/ j = k + 1)
      BY <1>2, <2>3
    <3>2. CASE j \in 1..k
      BY <1>2, <2>3, <3>1, <3>2 DEF SplitInv, InOrder, k
    <3>3. CASE j = k + 1
      BY <1>1, <1>2, <1>3, <1>5, <2>1, <2>2, <3>1, <3>3
    <3> QED BY <3>1, <3>2, <3>3
  <2>4. ASSUME NEW i \in 1..(k + 1) PROVE messages'[i][2] < end
    <3>1. i \in 1..k \/ i = k + 1
      BY <1>2
    <3> QED BY <1>1, <1>2, <1>3, <1>5, <2>1, <2>2, <3>1
  <2> QED BY <1>1, <1>2, <2>3, <2>4 DEF InOrder
<1>7. HandedOn'
  <2> SUFFICES ASSUME Plain'
               PROVE  Found' = Before(pos)' /\ (Opened(pos - 1) = Closed(pos - 1))'
    BY <1>1 DEF HandedOn
  <2>1. Plain
    BY <1>1, SameLine
  <2>2. Objects' = Objects /\ \A n \in Nat : Opened(n)' = Opened(n) /\ Closed(n)' = Closed(n)
    BY <1>1, SameLine
  <2>3. Found = Before(pos) /\ Opened(pos - 1) = Closed(pos - 1) /\ Matching
    BY <1>1, <2>1 DEF SplitInv, HandedOn
  <2>4. end - 1 \in Nat /\ Len(line) \in Nat /\ start \in 1..Len(line) /\ end - 1 \in 1..Len(line)
    BY <1>1, <1>3, <1>5, <2>3 DEF Within, Matching
  <2>5. Opened(end - 1) = Closed(end - 1)
    <3>1. Closed(end - 1) \in Nat
      BY <2>4, OpenedStep
    <3> QED BY <1>1, <2>3, <3>1 DEF Matching
  <2>6. (Opened(pos - 1) = Closed(pos - 1))'
    BY <1>1, <2>2, <2>4, <2>5
  <2>7. new \in Objects
    <3>1. Structural(Open, start)
      BY <2>1, <2>3, <2>4, PlainBraces DEF Matching, FirstOpen
    <3>2. start < end - 1
      <4> DEFINE m == start - 1
      <4>1. m \in Nat /\ m + 1 = start
        BY <2>4
      <4>2. ~Structural(Close, start)
        BY <3>1 DEF Structural, Open, Close
      <4>3. Opened(m) = Closed(m)
        BY <2>3 DEF Matching
      <4> HIDE DEF m
      <4>4. Opened(m) \in Nat /\ Opened(m + 1) = Opened(m) + 1 /\ Closed(m + 1) = Closed(m)
        BY <3>1, <4>1, <4>2, OpenedStep
      <4>5. Opened(start) # Closed(start)
        BY <4>1, <4>3, <4>4
      <4>6. start # end - 1
        BY <2>5, <4>5
      <4> QED BY <1>1, <1>3, <1>5, <4>6
    <3>3. (end - 1) - 1 = end - 2
      BY <1>1, <1>3
    <3>4. IsObject(start, end - 1)
      BY <2>3, <2>5, <3>1, <3>3 DEF IsObject, Matching
    <3> QED BY <2>4, <3>2, <3>4 DEF Objects
  <2>8. ASSUME NEW o \in Objects, o[2] < end, o[2] >= pos
        PROVE  o = new
    <3> DEFINE e == end - 1
    <3>1. /\ o \in (1..Len(line)) \X (1..Len(line)) /\ o[1] < o[2] /\ o = <<o[1], o[2]>>
      BY DEF Objects
    <3>2. /\ e \in Nat /\ o[1] <= e /\ o[2] <= e /\ e - 1 = end - 2
          /\ pos \in 1..(Len(line) + 1)
      BY <1>1, <1>3, <2>4, <2>8, <3>1 DEF Within
    <3>3. FirstOpen(start) /\ \A n \in start..(e - 1) : Opened(n) # Closed(n)
      BY <2>3, <3>2 DEF Matching
    <3> HIDE DEF e
    <3>4. o[1] = start /\ o[2] >= e
      BY <2>3, <2>4, <2>8, <3>2, <3>3, ObjectAtStart
    <3>5. o[2] = e
      BY <3>1, <3>2, <3>4
    <3> QED BY <3>1, <3>4, <3>5 DEF e
  <2>9. new[2] = end - 1 /\ end - 1 < end /\ pos < end /\ \A o \in Objects : o[2] \in Nat
    BY <1>1, <1>3, <1>5 DEF Objects
  <2> HIDE DEF new
  <2>10. Before(end) = Before(pos) \cup {new}
    <3>1. ASSUME NEW o \in Objects, o[2] < pos PROVE o[2] < end
      BY <1>1, <1>3, <2>9, <3>1
    <3>2. ASSUME NEW o \in Objects, o[2] < end PROVE o[2] < pos \/ o = new
      BY <1>1, <1>3, <2>8, <2>9, <3>2
    <3> QED BY <2>7, <2>9, <3>1, <3>2 DEF Before
  <2>11. Before(pos)' = Before(end)
    BY <1>1, <2>2 DEF Before
  <2> QED BY <1>4, <2>3, <2>6, <2>10, <2>11
<1> QED BY <1>6, <1>7 DEF SplitInv

\* The line is at its end, or its rest is dropped: no object is left.
LEMMA SplitDone ==
  ASSUME Within, TypeOK, SplitInv, NoStart \/ Incomplete PROVE SplitInv'
<1>1. /\ pc \in {"search", "match"} /\ pc' = "done" /\ line' = line /\ pos' = pos
      /\ messages' = messages
  BY DEF NoStart, Incomplete
<1>2. InOrder'
  BY <1>1 DEF SplitInv, InOrder
<1>3. ASSUME Plain PROVE Found = Objects
  <2>1. Found = Before(pos) /\ Opened(pos - 1) = Closed(pos - 1)
    BY <1>1, <1>3 DEF SplitInv, HandedOn
  <2>2. Len(line) \in Nat /\ pos \in 1..(Len(line) + 1)
    BY DEF Within
  <2>3. ASSUME NEW o \in Objects, o[2] >= pos PROVE FALSE
    <3>1. /\ o[1] \in pos..Len(line) /\ o[2] \in 1..Len(line) /\ o[1] < o[2]
          /\ line[o[1]] = Open /\ Opened(o[2]) = Closed(o[2])
      BY <2>1, <2>2, <2>3, ObjectAfter
    <3>2. CASE NoStart
      BY <3>1, <3>2 DEF NoStart
    <3>3. CASE Incomplete
      <4>1. pc = "match" /\ end > Len(line) /\ brace_count > 0
        BY <3>3 DEF Incomplete
      <4>2. Matching
        BY <1>3, <4>1 DEF SplitInv, HandedOn
      <4>3. end - 1 = Len(line) /\ end - 2 = Len(line) - 1 /\ brace_count \in Nat
        BY <2>2, <4>1 DEF Within
      <4> DEFINE e == Len(line)
      <4>4. /\ e \in Nat /\ o[1] <= e /\ FirstOpen(start) /\ start \in 1..Len(line)
            /\ \A n \in start..(e - 1) : Opened(n) # Closed(n)
        BY <2>2, <3>1, <4>2, <4>3 DEF Matching
      <4> HIDE DEF e
      <4>5. o[2] >= e
        BY <2>1, <2>2, <2>3, <4>4, ObjectAtStart
      <4>6. o[2] = Len(line)
        BY <3>1, <4>4, <4>5 DEF e
      <4>7. Opened(Len(line)) = Closed(Len(line)) + brace_count
        BY <4>2, <4>3 DEF Matching
      <4>8. Closed(Len(line)) \in Nat
        BY <2>2, OpenedStep
      <4> QED BY <3>1, <4>1, <4>3, <4>6, <4>7, <4>8
    <3> QED BY <3>2, <3>3
  <2>4. \A o \in Objects : o[2] \in Nat
    BY DEF Objects
  <2>5. Objects = Before(pos)
    BY <2>2, <2>3, <2>4 DEF Before
  <2> QED BY <2>1, <2>5
<1>4. Found' = Found /\ Objects' = Objects /\ (Plain' <=> Plain)
  BY <1>1, SameLine DEF Found
<1>5. HandedOn'
  BY <1>1, <1>3, <1>4 DEF HandedOn
<1> QED BY <1>2, <1>5 DEF SplitInv

\* Steps that leave the splitting alone.
LEMMA SplitSame == SplitInv /\ UNCHANGED splitVars => SplitInv'
<1> SUFFICES ASSUME SplitInv, UNCHANGED splitVars PROVE SplitInv'
  OBVIOUS
<1>1. /\ line' = line /\ pc' = pc /\ pos' = pos /\ start' = start /\ end' = end
      /\ brace_count' = brace_count /\ messages' = messages
  BY DEF splitVars
<1>2. (Plain' <=> Plain) /\ Objects' = Objects
  BY <1>1, SameLine
<1>3. Found' = Found /\ Before(pos)' = Before(pos)
  BY <1>1, <1>2 DEF Found, Before
<1>4. (Opened(pos - 1) = Closed(pos - 1))' <=> (Opened(pos - 1) = Closed(pos - 1))
  BY <1>1 DEF Opened, Closed, Structural, InString, Count
<1>5. Matching => Matching'
  <2> SUFFICES ASSUME Matching PROVE Matching'
    OBVIOUS
  <2>1. \A n : Opened(n)' = Opened(n) /\ Closed(n)' = Closed(n)
    BY <1>1 DEF Opened, Closed, Structural, InString, Count
  <2>2. (start \in pos..Len(line) /\ FirstOpen(start) /\ start < end)'
    BY <1>1 DEF Matching, FirstOpen
  <2>3. (Opened(start - 1) = Closed(start - 1))'
    BY <1>1, <2>1 DEF Matching
  <2>4. (Opened(end - 1) = Closed(end - 1) + brace_count)'
    BY <1>1, <2>1 DEF Matching
  <2>5. (\A n \in start..(end - 2) : Opened(n) # Closed(n))'
    BY <1>1, <2>1 DEF Matching
  <2> QED BY <2>2, <2>3, <2>4, <2>5 DEF Matching
<1>6. InOrder'
  BY <1>1 DEF SplitInv, InOrder
<1>7. HandedOn'
  BY <1>1, <1>2, <1>3, <1>4, <1>5 DEF SplitInv, HandedOn
<1> QED BY <1>6, <1>7 DEF SplitInv

LEMMA SplitInvNext == TypeInv /\ SplitInv /\ [DispatchNext]_allVars => SplitInv'
<1> SUFFICES ASSUME TypeInv, SplitInv, [DispatchNext]_allVars PROVE SplitInv'
  OBVIOUS
<1>1. TypeOK /\ Within
  BY DEF TypeInv, DispatchTypeOK, TypeOK, Within
<1>2. (messages = <<>> /\ pos = 1 /\ pc # "match" /\ (line = <<>> \/ pc = "search")
         => SplitInv)'
  BY NothingSplit, PTL
<1>3. CASE Split
  BY <1>1, <1>3, SplitFindStart, SplitCountBrace, SplitComplete, SplitDone DEF Split, Next
<1>4. CASE EndLine
  <2>1. line' = <<>> /\ messages' = <<>> /\ pos' = 1 /\ pc' = pc /\ pc # "match"
    BY <1>4 DEF EndLine, TypeInv, OneOfTheLine
  <2> QED BY <1>2, <2>1
<1>5. CASE NextLine
  <2>1. messages' = <<>> /\ pos' = 1 /\ pc' = "search"
    BY <1>5 DEF NextLine, TypeInv, SplitBounds
  <2> QED BY <1>2, <2>1
<1>6. CASE ~Split /\ ~EndLine /\ ~NextLine
  <2>1. UNCHANGED splitVars
    BY <1>6 DEF DispatchNext, BeginObjects, Reconnect, ParseError, Parse, Notify, StopMining,
       SetJob, SetTarget, NameSession, Abort, LogOnly, Ended, allVars
  <2> QED BY <2>1, SplitSame
<1> QED BY <1>3, <1>4, <1>5, <1>6

\* Cutting a line at the braces that match finds its complete objects, each of
\* them once and in order, and nothing else: for lines of any length, however
\* deep objects are nested and wherever the line ends.
THEOREM ObjectsAreSplit == DispatchSpec => []SplitsPlainObjects
<1>1. DispatchInit => SplitInv
  <2>1. DispatchInit => messages = <<>> /\ pos = 1 /\ pc = "search"
    BY DEF DispatchInit, Init
  <2> QED BY <2>1, NothingSplit
<1>2. TypeInv /\ LogInv /\ SplitInv /\ [DispatchNext]_allVars => SplitInv'
  BY SplitInvNext
<1>3. SplitInv => SplitsPlainObjects
  BY DEF SplitInv, InOrder, HandedOn, Plain, SplitsPlainObjects
<1> QED BY <1>1, <1>2, <1>3, Invariant, PTL DEF DispatchSpec
=============================================================================
