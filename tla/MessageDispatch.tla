-------------------------- MODULE MessageDispatch --------------------------
(***************************************************************************)
(* What the miner does with the lines of the pool (stratum.cpp):           *)
(* handle_message cuts a line into JSON objects, as MessageSplit models    *)
(* it, and hands each of them to process_single_message, which answers by  *)
(* a job for the mining engine, a target, a session id, a line of the log, *)
(* or an assertion of rapidjson that ends the process.                     *)
(*                                                                         *)
(* A JSON value is a record of its type and what is read of it; a message  *)
(* has the five members the code asks for, `Absent' standing for one it    *)
(* lacks.  The mining engine is reduced to whether it runs, and on what:   *)
(* KawPowHost models it.                                                   *)
(***************************************************************************)
EXTENDS MessageSplit, Integers

CONSTANTS
  Messages,     \* what an object of the pool can say
  LaterLines,   \* bound: the lines that may follow the first
  MaxLog,       \* bound: no line arrives after so many messages with an effect
  MaxConns      \* bound: connections

ASSUME DispatchAssumption ==
  /\ \A l \in LaterLines : l \in Seq(Chars) /\ Len(l) <= MaxLength
  /\ MaxLog \in Nat /\ MaxConns \in Nat \ {0}

\* rapidjson's values: only the types the code tells apart.  A number is an int,
\* a whole one from 2^31 on that a uint64_t holds, or any other: a fraction, 1.0,
\* or one below -2^31.
Absent     == [type |-> "absent"]
Null       == [type |-> "null"]
Bool(b)    == [type |-> "bool", bool |-> b]
Num(n)     == [type |-> "int", int |-> n]
Big(n)     == [type |-> "uint64", int |-> n]
Real       == [type |-> "double"]
Str(s)     == [type |-> "string", string |-> s]
Array(s)   == [type |-> "array", items |-> s]
Err(c, t)  == [type |-> "object", code |-> c, text |-> t]   \* an error object

Has(v)     == v.type # "absent"
IsInt(v)   == v.type = "int"
IsUint64(v) == v.type = "uint64" \/ (IsInt(v) /\ v.int >= 0)
IsStr(v)   == v.type = "string"
IsArray(v) == v.type = "array"

ASSUME MessagesAssumption ==
  \A m \in Messages : \A v \in {m.params, m.result, m.error} : IsArray(v) =>
    /\ Len(v.items) \in Nat
    /\ \A i \in 1..Len(v.items) :
         /\ IsInt(v.items[i]) => v.items[i].int \in Int
         /\ v.items[i].type = "uint64" => v.items[i].int \in Nat

None  == "none"            \* the empty string
NoJob == [id |-> None, header |-> None, seed |-> None, block |-> 0, target |-> None]

VARIABLES
  at,              \* "listen", "object", "dispatch", "stop", "set", "aborted"
  index,           \* the object of the line being processed
  doc,             \* the message parsed
  session_id, current_target,   \* members of Stratum
  job, mining,     \* the engine: the job set last, and whether it is mined
  conn,            \* the number of the connection
  log              \* history: the messages that ask for something, so far

splitVars  == <<line, pc, pos, start, end, brace_count, messages>>
memberVars == <<session_id, current_target>>
engineVars == <<job, mining>>
dispatchVars == <<at, index, doc, memberVars, engineVars, conn, log>>
allVars == <<splitVars, dispatchVars>>

Nothing == [method |-> Absent, params |-> Absent, id |-> Absent,
            result |-> Absent, error |-> Absent]

DispatchInit ==
  /\ Init
  /\ at = "split" /\ index = 1 /\ doc = Nothing
  /\ session_id = None /\ current_target = None
  /\ job = NoJob /\ mining = FALSE
  /\ conn = 1 /\ log = <<>>

-----------------------------------------------------------------------------
(* What a message asks for, by the protocol.                               *)

\* The elements of an array, counted from 0 as in the code.
Element(v, i) == IF IsArray(v) /\ i < Len(v.items) THEN v.items[i + 1] ELSE Absent

Says(m, name) == m.method = Str(name)

GivesText(v) == IsStr(v) /\ v.string # None

AnnouncesJob(m) ==
  /\ Says(m, "mining.notify")
  /\ \A i \in 0..2 : GivesText(Element(m.params, i))
  /\ IsUint64(Element(m.params, 5)) /\ Element(m.params, 5).int > 0

SetsTarget(m) == Says(m, "mining.set_target") /\ IsStr(Element(m.params, 0))

NamesSession(m) ==
  /\ ~Has(m.method) /\ m.id \in {Num(1), Num(2)}
  /\ GivesText(Element(m.result, 1))

Asks(m) == AnnouncesJob(m) \/ SetsTarget(m) \/ NamesSession(m)

\* Every member has the type the protocol gives it: a request names its method,
\* an answer the request by its id, and an error comes as [code, text, ...] or as
\* an object.  Ids and codes are whole numbers an int holds, as those of the miner
\* are; other numbers are of another type here, as they are for rapidjson.  How
\* many elements an array has is left open.
RightError(v) ==
  \/ v.type \in {"absent", "null"}
  \/ IsArray(v) /\ (Len(v.items) >= 2 => IsInt(v.items[1]) /\ IsStr(v.items[2]))
  \/ v.type = "object" /\ IsInt(v.code) /\ IsStr(v.text)

RightTypes(m) ==
  /\ Has(m.method) => IsStr(m.method)
  /\ ~Has(m.method) /\ Has(m.result) /\ Has(m.id) => IsInt(m.id)
  /\ RightError(m.error)

-----------------------------------------------------------------------------
(* handle_message.                                                         *)

Split ==
  /\ at = "split"
  /\ Next
  /\ UNCHANGED dispatchVars

\* The objects found are processed in order; with none this is the error
\* "Failed to parse any complete JSON objects".
BeginObjects ==
  /\ at = "split" /\ pc = "done"
  /\ at' = "object" /\ index' = 1
  /\ UNCHANGED <<splitVars, doc, memberVars, engineVars, conn, log>>

\* handle_message returns to the receive loop.
EndLine ==
  /\ at = "object" /\ index > Len(messages)
  /\ at' = "listen"
  /\ line' = <<>> /\ pos' = 1 /\ start' = 1 /\ end' = 1 /\ brace_count' = 0
  /\ messages' = <<>> /\ UNCHANGED pc
  /\ index' = 1 /\ doc' = Nothing
  /\ UNCHANGED <<memberVars, engineVars, conn, log>>

\* The next line (StratumReceive).
NextLine ==
  /\ at = "listen" /\ Len(log) < MaxLog             \* bound
  /\ line' \in LaterLines
  /\ pc' = "search" /\ at' = "split"
  /\ UNCHANGED <<pos, start, end, brace_count, messages, index, doc,
                 memberVars, engineVars, conn, log>>

\* (Faulty) the state of the session is forgotten with the connection.
ReconnectForgetting ==
  /\ at = "listen" /\ conn < MaxConns
  /\ conn' = conn + 1
  /\ current_target' = None /\ session_id' = None
  /\ UNCHANGED <<splitVars, at, index, doc, engineVars, log>>

\* connect() after a loss: no member is reset and the engine mines on.
Reconnect ==
  /\ at = "listen" /\ conn < MaxConns               \* bound
  /\ conn' = conn + 1
  /\ UNCHANGED <<splitVars, at, index, doc, memberVars, engineVars, log>>

-----------------------------------------------------------------------------
(* process_single_message.                                                 *)

\* The piece of the line from a to b read as a text of its own: one object,
\* with its braces outside strings balanced.
PieceDepth(a, n) ==
  LET Plain(k) == Cardinality({i \in a..k : line[i] = Quote}) % 2 = 0
      Of(c)    == Cardinality({k \in a..n : line[k] = c /\ Plain(k)})
  IN  Of(Open) - Of(Close)

Parses(a, b) ==
  /\ Cardinality({i \in a..b : line[i] = Quote}) % 2 = 0
  /\ PieceDepth(a, b) = 0
  /\ \A n \in a..(b - 1) : PieceDepth(a, n) > 0

Processed == at' = "object" /\ index' = index + 1 /\ doc' = Nothing

\* HasParseError(): the piece is no object, or is no JSON for another reason.
ParseError ==
  /\ at = "object" /\ index <= Len(messages)
  /\ Processed
  /\ UNCHANGED <<splitVars, memberVars, engineVars, conn, log>>

Parse ==
  /\ at = "object" /\ index <= Len(messages)
  /\ Parses(messages[index][1], messages[index][2])
  /\ \E m \in Messages :
       /\ doc' = m
       /\ log' = IF Asks(m) THEN Append(log, m) ELSE log
  /\ at' = "dispatch"
  /\ UNCHANGED <<splitVars, index, memberVars, engineVars, conn>>

IsNotify(m) == Says(m, "mining.notify") /\ Has(m.params)

\* (Faulty) five parameters are taken to be enough.
TooFewParamsByOne(m) == ~IsArray(m.params) \/ Len(m.params.items) < 5

TooFewParams(m) == ~IsArray(m.params) \/ Len(m.params.items) < 6

\* job_id, header_hash and seed_hash: empty unless they are strings.
Text(m, i) == IF IsStr(Element(m.params, i)) THEN Element(m.params, i).string ELSE None

\* 0 unless IsUint64().
Block(m) == IF IsUint64(Element(m.params, 5)) THEN Element(m.params, 5).int ELSE 0

\* TRUE unless it is a Boolean.
Clean(m) == Element(m.params, 4).type = "bool" => Element(m.params, 4).bool

Essential(m) == (\A i \in 0..2 : Text(m, i) # None) /\ Block(m) # 0

MakesJob(m) == IsNotify(m) /\ ~TooFewParams(m) /\ Essential(m)

\* (Faulty) mining is stopped before the parameters are looked at.
NotifyStoppingFirst ==
  /\ at = "dispatch" /\ IsNotify(doc) /\ ~TooFewParams(doc)
  /\ mining' = (mining /\ ~Clean(doc))
  /\ IF Essential(doc) THEN at' = "set" /\ UNCHANGED <<index, doc>> ELSE Processed
  /\ UNCHANGED <<splitVars, memberVars, job, conn, log>>

\* A job that can be mined: stop first if it is a clean one.
Notify ==
  /\ at = "dispatch" /\ MakesJob(doc) /\ Len(doc.params.items) >= 6
  /\ at' = IF Clean(doc) THEN "stop" ELSE "set"
  /\ UNCHANGED <<splitVars, index, doc, memberVars, engineVars, conn, log>>

\* kawpow.stop_mining(), which returns when every thread has.
StopMining ==
  /\ at = "stop" /\ at' = "set"
  /\ mining' = FALSE
  /\ UNCHANGED <<splitVars, index, doc, memberVars, job, conn, log>>

\* kawpow.set_job(..., current_target).
SetJob ==
  /\ at = "set"
  /\ job' = [id |-> Text(doc, 0), header |-> Text(doc, 1), seed |-> Text(doc, 2),
             block |-> Block(doc), target |-> current_target]
  /\ mining' = TRUE
  /\ Processed
  /\ UNCHANGED <<splitVars, memberVars, conn, log>>

SetTarget ==
  /\ at = "dispatch" /\ SetsTarget(doc)
  /\ current_target' = Element(doc.params, 0).string
  /\ Processed
  /\ UNCHANGED <<splitVars, session_id, engineVars, conn, log>>

IsResponse(m) == ~Has(m.method) /\ Has(m.id) /\ Has(m.result)

GivesSession(m) ==
  IsResponse(m) /\ m.id \in {Num(1), Num(2)} /\ IsStr(Element(m.result, 1))

\* An answer to subscribe or authorize; the first session id is kept.
NameSession ==
  /\ at = "dispatch" /\ GivesSession(doc) /\ session_id = None
  /\ session_id' = Element(doc.result, 1).string
  /\ Processed
  /\ UNCHANGED <<splitVars, current_target, engineVars, conn, log>>

IsRejection(m) ==
  /\ IsResponse(m) /\ m.id = Num(4) /\ m.result = Bool(FALSE)
  /\ m.error.type = "array" /\ Len(m.error.items) >= 2

IsFailure(m) == ~Has(m.method) /\ ~IsResponse(m) /\ m.error.type \notin {"absent", "null"}

\* rapidjson's assertions, which the build keeps: a value is read as a type it
\* does not have (GetInt of 3000000000 or of 1.0 too), or past the end of an array.
Asserts(m) ==
  \/ Has(m.method) /\ ~IsStr(m.method)
  \/ IsNotify(m) /\ ~TooFewParams(m) /\ Len(m.params.items) < 6
  \/ IsResponse(m) /\ ~IsInt(m.id)
  \/ IsRejection(m) /\ ~(IsInt(Element(m.error, 0)) /\ IsStr(Element(m.error, 1)))
  \/ IsFailure(m) /\ IsStr(Element(m.error, 1)) /\ ~IsInt(Element(m.error, 0))
  \/ IsFailure(m) /\ m.error.type = "object" /\ Has(m.error.code) /\ Has(m.error.text)
       /\ ~(IsInt(m.error.code) /\ IsStr(m.error.text))

Abort ==
  /\ at = "dispatch" /\ Asserts(doc)
  /\ at' = "aborted"
  /\ UNCHANGED <<splitVars, index, doc, memberVars, engineVars, conn, log>>

\* Everything else is written to the log, or ignored: parameters that make no
\* job, other methods, the fate of a share, errors.
LogOnly ==
  /\ at = "dispatch" /\ ~Asserts(doc)
  /\ ~MakesJob(doc) /\ ~SetsTarget(doc) /\ ~(GivesSession(doc) /\ session_id = None)
  /\ Processed
  /\ UNCHANGED <<splitVars, memberVars, engineVars, conn, log>>

\* The process has ended, or no more lines are looked at.
Ended ==
  /\ at = "aborted" \/ (at = "listen" /\ Len(log) >= MaxLog)
  /\ UNCHANGED allVars

DispatchNext ==
  \/ Split \/ BeginObjects \/ EndLine \/ NextLine \/ Reconnect
  \/ ParseError \/ Parse
  \/ Notify \/ StopMining \/ SetJob \/ SetTarget \/ NameSession \/ Abort \/ LogOnly
  \/ Ended

DispatchSpec == DispatchInit /\ [][DispatchNext]_allVars

-----------------------------------------------------------------------------
(* Properties.                                                             *)

DispatchTypeOK ==
  /\ TypeOK
  /\ at \in {"listen", "split", "object", "dispatch", "stop", "set", "aborted"}
  /\ index \in 1..(Len(messages) + 1)
  /\ doc \in Messages \cup {Nothing}
  /\ mining \in BOOLEAN
  /\ conn \in 1..MaxConns
  /\ log \in Seq(Messages)

Last(I)  == CHOOSE i \in I : \A k \in I : k <= i
First(I) == CHOOSE i \in I : \A k \in I : i <= k

\* The target, the job and the session id that the first n messages of the log
\* leave behind.
TargetAfter(n) ==
  LET I == {i \in 1..n : SetsTarget(log[i])}
  IN  IF I = {} THEN None ELSE Element(log[Last(I)].params, 0).string

JobOf(m, target) ==
  [id |-> Element(m.params, 0).string, header |-> Element(m.params, 1).string,
   seed |-> Element(m.params, 2).string, block |-> Element(m.params, 5).int,
   target |-> target]

JobAfter(n) ==
  LET I == {i \in 1..n : AnnouncesJob(log[i])}
  IN  IF I = {} THEN NoJob ELSE JobOf(log[Last(I)], TargetAfter(Last(I)))

SessionAfter(n) ==
  LET I == {i \in 1..n : NamesSession(log[i])}
  IN  IF I = {} THEN None ELSE Element(log[First(I)].result, 1).string

Follows(n) ==
  /\ job = JobAfter(n)
  /\ current_target = TargetAfter(n)
  /\ session_id = SessionAfter(n)

\* Between two messages the job is the last one announced completely, under the
\* last target set before its announcement, and the session id is the first one
\* named, whatever else the pool has sent, in however many lines and over however
\* many connections: a target is not lost with the connection, nor is one that
\* comes after a job applied to it.
StateFollowsLog == at \in {"listen", "split", "object"} => Follows(Len(log))

\* Mining is interrupted only between two jobs: no message that brings no job,
\* malformed or cut off as it may be, leaves the engine stopped.
NeverLeftIdle == at \in {"listen", "split", "object", "dispatch"} => mining = (job # NoJob)

\* A message whose members have the types of the protocol, ids and codes being
\* numbers that fit an int, does not end the process, however many elements its
\* arrays have, whichever members it lacks and whatever its block number is.
RightTypesNeverAbort == at = "aborted" => ~RightTypes(doc)
=============================================================================
