---------------------------- MODULE MessageSplit ----------------------------
(***************************************************************************)
(* Stratum::handle_message (stratum.cpp): a line is cut into the JSON      *)
(* objects it holds by counting braces.  MessageDispatch goes on from the  *)
(* state in which pc is "done".                                            *)
(*                                                                         *)
(* A line is a sequence of characters, of which only braces and quotation  *)
(* marks are told apart ("x" is any other; escapes are left out).          *)
(* Positions count from 1, and an object is the pair of its first and its  *)
(* last position.                                                          *)
(***************************************************************************)
EXTENDS Naturals, Sequences, FiniteSets

CONSTANT MaxLength   \* bound: characters of a line

ASSUME SplitAssumption == MaxLength \in Nat

Open  == "{"
Close == "}"
Quote == "quote"
Chars == {Open, Close, Quote, "x"}

VARIABLES
  line,          \* the argument
  pc,            \* "search" (outer loop), "match" (inner loop), "done"
  pos, start, end, brace_count,   \* as in the code
  messages       \* the objects found, in order

vars == <<line, pc, pos, start, end, brace_count, messages>>

Init ==
  /\ line \in UNION {[1..n -> Chars] : n \in 0..MaxLength}
  /\ pc = "search"
  /\ pos = 1 /\ start = 1 /\ end = 1 /\ brace_count = 0
  /\ messages = <<>>

-----------------------------------------------------------------------------

FirstOpen(p) ==
  /\ p \in pos..Len(line) /\ line[p] = Open
  /\ \A i \in pos..(p - 1) : line[i] # Open

\* find_first_of('{', pos) finds the start of an object.
FindStart ==
  /\ pc = "search"
  /\ \E p \in 1..Len(line) :
       /\ FirstOpen(p)
       /\ start' = p /\ end' = p + 1
  /\ brace_count' = 1
  /\ pc' = "match"
  /\ UNCHANGED <<line, pos, messages>>

\* There is none, or the line is at its end.
NoStart ==
  /\ pc = "search" /\ \A i \in pos..Len(line) : line[i] # Open
  /\ pc' = "done"
  /\ UNCHANGED <<line, pos, start, end, brace_count, messages>>

\* (Faulty) braces inside an object are not counted.
CountCloseOnly ==
  /\ pc = "match" /\ end <= Len(line) /\ brace_count > 0
  /\ brace_count' = IF line[end] = Close THEN brace_count - 1 ELSE brace_count
  /\ end' = end + 1
  /\ UNCHANGED <<line, pc, pos, start, messages>>

\* (Faulty) the loop does not stop at the matching brace.
CountToTheEnd ==
  /\ pc = "match" /\ end <= Len(line)
  /\ brace_count' = CASE line[end] = Open  -> brace_count + 1
                      [] line[end] = Close -> brace_count - 1
                      [] OTHER             -> brace_count
  /\ end' = end + 1
  /\ UNCHANGED <<line, pc, pos, start, messages>>

\* The inner loop, one character.
CountBrace ==
  /\ pc = "match" /\ end <= Len(line) /\ brace_count > 0
  /\ brace_count' = CASE line[end] = Open  -> brace_count + 1
                      [] line[end] = Close -> brace_count - 1
                      [] OTHER             -> brace_count
  /\ end' = end + 1
  /\ UNCHANGED <<line, pc, pos, start, messages>>

\* "Found a complete JSON object"
Complete ==
  /\ pc = "match" /\ brace_count = 0
  /\ messages' = Append(messages, <<start, end - 1>>)
  /\ pos' = end
  /\ pc' = "search"
  /\ UNCHANGED <<line, start, end, brace_count>>

\* "Incomplete JSON object": the rest of the line is dropped.
Incomplete ==
  /\ pc = "match" /\ end > Len(line) /\ brace_count > 0
  /\ pc' = "done"
  /\ UNCHANGED <<line, pos, start, end, brace_count, messages>>

Next == FindStart \/ NoStart \/ CountBrace \/ Complete \/ Incomplete

-----------------------------------------------------------------------------
(* The reference: the objects of a line, by the grammar of JSON.           *)

Count(c, n) == Cardinality({i \in 1..n : line[i] = c})

\* Between an odd quotation mark and the next.
InString(i) == line[i] # Quote /\ Count(Quote, i) % 2 = 1

Structural(c, i) == line[i] = c /\ ~InString(i)

Opened(n) == Cardinality({i \in 1..n : Structural(Open, i)})
Closed(n) == Cardinality({i \in 1..n : Structural(Close, i)})

\* No object is closed that was not opened, no string crosses an object's end,
\* and between two objects there is no string.
WellFormed ==
  \A n \in 0..Len(line) :
    /\ Closed(n) <= Opened(n)
    /\ Opened(n) = Closed(n) => Count(Quote, n) % 2 = 0
    /\ n > 0 /\ line[n] = Quote => Closed(n) < Opened(n)

IsObject(a, b) ==
  /\ Structural(Open, a) /\ Opened(a - 1) = Closed(a - 1)
  /\ Opened(b) = Closed(b)
  /\ \A n \in a..(b - 1) : Opened(n) # Closed(n)

Objects == {o \in (1..Len(line)) \X (1..Len(line)) : o[1] < o[2] /\ IsObject(o[1], o[2])}

BraceInString == \E i \in 1..Len(line) : line[i] \in {Open, Close} /\ InString(i)

Found == {messages[i] : i \in 1..Len(messages)}

-----------------------------------------------------------------------------
(* Properties.                                                             *)

TypeOK ==
  /\ line \in Seq(Chars) /\ Len(line) <= MaxLength
  /\ pc \in {"search", "match", "done"}
  /\ pos \in 1..(Len(line) + 1) /\ start \in 1..(Len(line) + 1)
  /\ end \in 1..(Len(line) + 1)
  /\ brace_count \in 0..Len(line)
  /\ messages \in Seq((1..Len(line)) \X (1..Len(line)))

\* Every complete object of a line is handed on, once and in order, and nothing
\* else is -- also when objects are nested, several share a line, or the last
\* is cut off -- provided that no string holds a brace, which the code counts
\* like any other.
SplitsPlainObjects ==
  pc = "done" /\ WellFormed /\ ~BraceInString =>
    /\ Found = Objects
    /\ \A i, j \in 1..Len(messages) : i < j => messages[i][2] < messages[j][1]
=============================================================================
