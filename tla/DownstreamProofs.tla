--------------------------- MODULE DownstreamProofs ---------------------------
(***************************************************************************)
(* What the client of a downstream server guarantees, for every set of     *)
(* requests, pipes of any size, and a server that does what it likes.      *)
(***************************************************************************)
EXTENDS Downstream, TLAPS

(* The gateway's thread is in one request at most. *)
Busy(r) == phase[r] \in InMap \cup {"read"}

OneAtATime == \A r, q \in Requests : Busy(r) /\ Busy(q) => r = q

(* A request is written once, and so taken once and carried out once.      *)
Sent(r) == phase[r] \notin {"new", "write"}

WrittenOnce ==
  /\ \A i \in 1..Len(input) : Sent(input[i]) /\ input[i] \notin taken
  /\ \A i, j \in 1..Len(input) : input[i] = input[j] => i = j
  /\ \A r \in taken : Sent(r)
  /\ \A r \in Requests : done[r] <= 1 /\ (done[r] > 0 => r \in taken)

(* A response is about something the server has read, and a result about   *)
(* something it did.  That stays so on its way: the pipe, the reader, the  *)
(* holder, the answer.                                                     *)
Genuine(m) ==
  m.id \in Requests => m.id \in taken /\ (m.kind = "result" => done[m.id] = 1)

OnItsWay ==
  /\ \A i \in 1..Len(output) : Genuine(output[i])
  /\ reader \in {"storing", "signalling"} => found \in Responses /\ Genuine(found)
  /\ \A r \in Requests :
       /\ holder[r] # NoMessage => holder[r].id = r /\ Genuine(holder[r])
       /\ phase[r] = "returned" =>
            answer[r] \in Responses /\ answer[r].id = r /\ Genuine(answer[r])

(* The holder is filled before the event is set, and the event is set      *)
(* before anybody is woken by it.                                          *)
FilledFirst ==
  /\ reader = "signalling" => holder[found.id] # NoMessage
  /\ \A r \in Requests :
       /\ event[r] => holder[r] # NoMessage
       /\ phase[r] \in {"woken", "read"} => event[r]

IInv ==
  /\ TypeOK /\ PendingExact
  /\ OneAtATime /\ WrittenOnce
  /\ OnItsWay /\ FilledFirst

LEMMA InitialState == Init => IInv
<1> SUFFICES ASSUME Init PROVE IInv
  OBVIOUS
<1> USE DEF Init
<1>1. TypeOK
  <2>1. phase \in [Requests -> Phases]
    BY DEF Phases
  <2>2. input \in Seq(Requests) /\ output \in Seq(Lines)
    OBVIOUS
  <2> QED
    BY <2>1, <2>2 DEF TypeOK
<1>2. PendingExact /\ OneAtATime
  BY DEF PendingExact, OneAtATime, Busy, InMap
<1>3. WrittenOnce
  BY DEF WrittenOnce
<1>4. OnItsWay /\ FilledFirst
  BY DEF OnItsWay, FilledFirst
<1> QED
  BY <1>1, <1>2, <1>3, <1>4 DEF IInv
------------------------------------------------------------------------------
(* Types.                                                                  *)

LEMMA ResponseLines ==
  ASSUME NEW m \in Lines, m.id \in Requests PROVE m \in Responses
BY DownstreamConstants DEF Lines, Responses

LEMMA TypeStep ==
  ASSUME TypeOK, [Next]_vars PROVE TypeOK'
<1> USE DEF TypeOK, vars, requester, mailbox, readerVars, server, Goto
<1>1. CASE Start \/ Stop \/ UNCHANGED vars
  BY <1>1 DEF Start, Stop
<1>2. ASSUME NEW r \in Requests, Request(r) PROVE TypeOK'
  <2> USE DEF Phases, InMap, Ended
  <2>1. CASE StartFails(r) \/ Register(r) \/ WriteFails(r) \/ Wake(r) \/ TimeOut(r) \/ Pop(r)
    BY <2>1 DEF StartFails, Register, WriteFails, Wake, TimeOut, Pop
  <2>2. CASE Write(r)
    BY <2>2 DEF Write
  <2>3. CASE ReadHolder(r)
    BY <2>3 DEF ReadHolder
  <2> QED
    BY <1>2, <2>1, <2>2, <2>3 DEF Request, Enter, Continue
<1>3. CASE ReadLoop
  <2>1. CASE Receive
    <3>1. output' \in Seq(Lines)
      BY <2>1 DEF Receive
    <3>2. Head(output) \in Lines
      BY <2>1 DEF Receive
    <3>3. found' \in Responses \cup {NoMessage}
      BY <2>1, <3>2, ResponseLines DEF Receive
    <3> QED
      BY <2>1, <3>1, <3>3 DEF Receive
  <2>2. CASE Store
    BY <2>2 DEF Store
  <2>3. CASE Signal
    BY <2>3 DEF Signal
  <2>4. CASE EndOfFile
    BY <2>4 DEF EndOfFile
  <2> QED
    BY <1>3, <2>1, <2>2, <2>3, <2>4 DEF ReadLoop
<1>4. CASE Server
  <2>1. CASE Take
    <3>1. Head(input) \in Requests /\ input' \in Seq(Requests)
      BY <2>1 DEF Take
    <3>2. [done EXCEPT ![Head(input)] = @ + 1] \in [Requests -> Nat]
      BY <3>1
    <3> QED
      BY <2>1, <3>1, <3>2 DEF Take
  <2>2. CASE CloseInput \/ Die
    <3>1. <<>> \in Seq(Requests)
      OBVIOUS
    <3> QED
      BY <2>2, <3>1 DEF CloseInput, Die
  <2>3. ASSUME NEW m \in Lines, Respond(m) PROVE TypeOK'
    BY <2>3 DEF Respond
  <2> QED
    BY <1>4, <2>1, <2>2, <2>3 DEF Server
<1> QED
  BY <1>1, <1>2, <1>3, <1>4 DEF Next, Request
------------------------------------------------------------------------------
(* The requester's side.                                                   *)

(* Nothing but request(r) moves r, and no other request moves meanwhile.   *)
LEMMA Elsewhere ==
  ASSUME Start \/ Stop \/ ReadLoop \/ Server \/ UNCHANGED vars PROVE UNCHANGED requester
BY DEF vars, Start, Stop, ReadLoop, Receive, Store, Signal, EndOfFile,
   Server, Take, CloseInput, Die, Respond

LEMMA Others ==
  ASSUME [Next]_vars, \A r \in Requests : ~Request(r) PROVE UNCHANGED requester
BY Elsewhere DEF Next, Request

LEMMA Alone ==
  ASSUME TypeOK, NEW r \in Requests, Request(r)
  PROVE  /\ phase' = [phase EXCEPT ![r] = phase'[r]]
         /\ pending' \in {pending, pending \cup {r}, pending \ {r}}
         /\ answer' = [answer EXCEPT ![r] = answer'[r]]
         /\ UNCHANGED <<mailbox, readerVars, server, output>>
<1> USE DEF TypeOK, Goto
<1>1. CASE StartFails(r) \/ Register(r) \/ WriteFails(r) \/ Wake(r) \/ TimeOut(r) \/ Pop(r)
  BY <1>1 DEF StartFails, Register, WriteFails, Wake, TimeOut, Pop
<1>2. CASE Write(r)
  BY <1>2 DEF Write
<1>3. CASE ReadHolder(r)
  BY <1>3 DEF ReadHolder
<1> QED
  BY <1>1, <1>2, <1>3 DEF Request, Enter, Continue

LEMMA PendingStep ==
  ASSUME TypeOK, PendingExact, OneAtATime, [Next]_vars PROVE PendingExact' /\ OneAtATime'
<1> USE DEF PendingExact, OneAtATime, Busy
<1>1. CASE Start \/ Stop \/ ReadLoop \/ Server \/ UNCHANGED vars
  BY <1>1, Elsewhere DEF requester
<1>2. ASSUME NEW r \in Requests, (Idle /\ Enter(r)) \/ Continue(r)
      PROVE  PendingExact' /\ OneAtATime'
  <2> USE DEF TypeOK, Goto, InMap, Ended
  <2>1. CASE StartFails(r)
    BY <2>1 DEF StartFails
  <2>2. CASE Register(r) /\ Idle
    BY <2>2 DEF Register, Idle
  <2>3. CASE Write(r) \/ Wake(r) \/ TimeOut(r)
    BY <2>3 DEF Write, Wake, TimeOut
  <2>4. CASE WriteFails(r)
    BY <2>4 DEF WriteFails
  <2>5. CASE Pop(r)
    BY <2>5 DEF Pop
  <2>6. CASE ReadHolder(r)
    BY <2>6 DEF ReadHolder
  <2> QED
    BY <1>2, <2>1, <2>2, <2>3, <2>4, <2>5, <2>6 DEF Enter, Continue
<1> QED
  BY <1>1, <1>2 DEF Next
------------------------------------------------------------------------------
(* The server's side.                                                      *)

(* What request(r) has written stays written. *)
LEMMA SentKept ==
  ASSUME TypeOK, [Next]_vars, NEW q \in Requests, Sent(q) PROVE Sent(q)'
<1>1. CASE \A r \in Requests : ~Request(r)
  BY <1>1, Others DEF Sent, requester
<1>2. ASSUME NEW r \in Requests, Request(r) PROVE Sent(q)'
  <2>1. CASE q # r
    BY <1>2, <2>1, Alone DEF Sent, TypeOK
  <2>2. CASE q = r
    BY <1>2, <2>2 DEF Request, Enter, Continue, StartFails, Register, Write, WriteFails, Wake, TimeOut,
       Pop, ReadHolder, Goto, Sent, TypeOK
  <2> QED
    BY <2>1, <2>2
<1> QED
  BY <1>1, <1>2

LEMMA WrittenOnceStep ==
  ASSUME TypeOK, WrittenOnce, [Next]_vars PROVE WrittenOnce'
<1> USE DEF WrittenOnce
<1>1. \A q \in Requests : Sent(q) => Sent(q)'
  BY SentKept
<1>t. input \in Seq(Requests) /\ taken \subseteq Requests /\ done \in [Requests -> Nat]
  BY DEF TypeOK
<1>2. ASSUME UNCHANGED <<input, taken, done>> PROVE WrittenOnce'
  BY <1>1, <1>t, <1>2
<1>3. ASSUME NEW r \in Requests, Write(r) PROVE WrittenOnce'
  <2>1. input' = Append(input, r) /\ Sent(r)' /\ UNCHANGED <<taken, done>>
    BY <1>3 DEF Write, Goto, Sent, TypeOK, server
  <2>2. r \notin taken /\ \A i \in 1..Len(input) : input[i] # r
    BY <1>3 DEF Write, Sent
  <2> QED
    BY <1>1, <1>t, <2>1, <2>2
<1>4. CASE Take
  <2> DEFINE h == Head(input)
  <2>1. /\ h = input[1] /\ h \in Requests /\ 1 \in 1..Len(input)
        /\ input' = Tail(input) /\ taken' = taken \cup {h}
        /\ Len(input') = Len(input) - 1
        /\ \A i \in 1..Len(input') : i + 1 \in 1..Len(input) /\ input'[i] = input[i + 1]
    BY <1>t, <1>4 DEF Take
  <2>2. \A r \in Requests : done'[r] = done[r] \/ (r = h /\ done'[r] = done[r] + 1)
    BY <1>t, <1>4, <2>1 DEF Take
  <2>3. done[h] = 0 /\ Sent(h)
    BY <1>t, <2>1
  <2>4. \A i \in 1..Len(input') :
          phase'[input'[i]] \notin {"new", "write"} /\ input'[i] \notin taken'
    <3> TAKE i \in 1..Len(input')
    <3>1. i + 1 \in 1..Len(input) /\ i + 1 # 1 /\ input'[i] = input[i + 1]
      BY <2>1
    <3>2. input[i + 1] \in Requests /\ input[i + 1] # h
      BY <1>t, <2>1, <3>1
    <3> QED
      BY <1>1, <2>1, <3>1, <3>2 DEF Sent
  <2>5. \A i, j \in 1..Len(input') : input'[i] = input'[j] => i = j
    <3> TAKE i, j \in 1..Len(input')
    <3>1. Len(input') \in Nat /\ (i + 1 = j + 1 => i = j)
      BY <1>t, <2>1
    <3> QED
      BY <2>1, <3>1
  <2>6. \A r \in taken' : Sent(r)'
    BY <1>1, <1>t, <2>1, <2>3
  <2>7. \A r \in Requests : done'[r] <= 1 /\ (done'[r] > 0 => r \in taken')
    <3> TAKE r \in Requests
    <3>1. done[r] \in Nat /\ done[r] <= 1 /\ (done[r] > 0 => r \in taken)
      BY <1>t
    <3> QED
      BY <2>1, <2>2, <2>3, <3>1
  <2> QED
    BY <2>4, <2>5, <2>6, <2>7 DEF Sent
<1>5. CASE CloseInput \/ Die
  <2>1. input' = <<>> /\ UNCHANGED <<taken, done>>
    BY <1>5 DEF CloseInput, Die
  <2> QED
    BY <1>1, <1>t, <2>1
<1>6. ASSUME NEW r \in Requests, Request(r), ~Write(r) PROVE UNCHANGED <<input, taken, done>>
  BY <1>6 DEF Request, Enter, Continue, StartFails, Register, WriteFails, Wake, TimeOut, Pop, ReadHolder, server
<1>7. CASE Start \/ Stop \/ ReadLoop \/ UNCHANGED vars \/ \E m \in Lines : Respond(m)
  BY <1>2, <1>7 DEF Start, Stop, ReadLoop, Receive, Store, Signal, EndOfFile, Respond, vars, server
<1> QED
  BY <1>2, <1>3, <1>4, <1>5, <1>6, <1>7 DEF Next, Request, Server

(* What the server has read it has read, and what it did it has done, once. *)
LEMMA GenuineKept ==
  ASSUME TypeOK, WrittenOnce, [Next]_vars
  PROVE  taken \subseteq taken' /\ \A q \in Requests : done[q] = 1 => done'[q] = 1
<1>1. CASE Take
  <2>1. Head(input) = input[1] /\ Head(input) \in Requests /\ 1 \in 1..Len(input)
    BY <1>1 DEF Take, TypeOK
  <2>2. done[Head(input)] # 1
    BY <2>1 DEF WrittenOnce, TypeOK
  <2> QED
    BY <1>1, <2>1, <2>2 DEF Take, TypeOK
<1>2. ASSUME NEW r \in Requests, Request(r) PROVE UNCHANGED server
  BY <1>2, Alone
<1>3. CASE Start \/ Stop \/ ReadLoop \/ CloseInput \/ Die \/ UNCHANGED vars \/ \E m \in Lines : Respond(m)
  BY <1>3 DEF Start, Stop, ReadLoop, Receive, Store, Signal, EndOfFile, CloseInput, Die, Respond, vars, server
<1> QED
  BY <1>1, <1>2, <1>3 DEF Next, Request, Server, server
------------------------------------------------------------------------------
(* The response on its way.                                                *)

LEMMA OnItsWayStep ==
  ASSUME IInv, [Next]_vars PROVE OnItsWay'
<1> USE DEF IInv, OnItsWay
<1>t. TypeOK
  OBVIOUS
<1>k. taken \subseteq taken' /\ \A q \in Requests : done[q] = 1 => done'[q] = 1
  BY GenuineKept
<1>g. \A m : Genuine(m) =>
        (m.id \in Requests => m.id \in taken' /\ (m.kind = "result" => done'[m.id] = 1))
  BY <1>k DEF Genuine
<1>1. ASSUME UNCHANGED <<requester, mailbox, readerVars, output>> PROVE OnItsWay'
  BY <1>g, <1>1 DEF Genuine, requester, mailbox, readerVars
<1>2. ASSUME NEW r \in Requests, Request(r) PROVE OnItsWay'
  <2>1. UNCHANGED <<mailbox, readerVars, output>>
    BY <1>2, Alone
  <2>2. ASSUME NEW q \in Requests, phase'[q] = "returned"
        PROVE  answer'[q] \in Responses /\ answer'[q].id = q /\ Genuine(answer'[q])
    <3>1. CASE phase[q] = "returned"
      <4>1. q # r \/ answer'[q] = answer[q]
        BY <1>2, <3>1 DEF Request, Enter, Continue, StartFails, Register, Write, WriteFails, Wake, TimeOut,
           Pop, ReadHolder, Ended
      <4> QED
        BY <1>2, <3>1, <4>1, Alone DEF TypeOK
    <3>2. CASE phase[q] # "returned"
      <4>1. q = r
        BY <1>2, <2>2, <3>2, Alone DEF TypeOK
      <4>2. ReadHolder(r)
        BY <1>2, <2>2, <3>2, <4>1 DEF Request, Enter, Continue, StartFails, Register, Write, WriteFails,
           Wake, TimeOut, Pop, Goto, TypeOK
      <4>3. answer'[q] = holder[q] /\ holder[q] # NoMessage
        BY <2>2, <4>1, <4>2 DEF ReadHolder, Goto, TypeOK
      <4> QED
        BY <4>3 DEF TypeOK
    <3> QED
      BY <3>1, <3>2
  <2> QED
    BY <1>g, <2>1, <2>2 DEF Genuine, mailbox, readerVars
<1>3. CASE Receive
  <2>1. UNCHANGED <<phase, answer, holder>>
    BY <1>3 DEF Receive, requester, mailbox
  <2>2. Head(output) = output[1] /\ 1 \in 1..Len(output) /\ Head(output) \in Lines
    BY <1>3 DEF Receive, TypeOK
  <2>3. \A i \in 1..Len(output') : i + 1 \in 1..Len(output) /\ output'[i] = output[i + 1]
    BY <1>3 DEF Receive, TypeOK
  <2>4. reader' \in {"storing", "signalling"} => found' = Head(output) /\ Head(output) \in Responses
    BY <1>3, <2>2, ResponseLines DEF Receive, readerVars, TypeOK
  <2> QED
    BY <1>g, <2>1, <2>2, <2>3, <2>4 DEF Genuine
<1>4. CASE Store
  <2>1. reader = "storing" /\ holder' = [holder EXCEPT ![found.id] = found]
        /\ UNCHANGED <<phase, answer, found, output>>
    BY <1>4 DEF Store, requester
  <2>2. \A r \in Requests : holder'[r] = IF r = found.id THEN found ELSE holder[r]
    BY <2>1 DEF TypeOK
  <2> QED
    BY <1>g, <2>1, <2>2 DEF Genuine
<1>5. CASE Signal
  BY <1>g, <1>5 DEF Signal, Genuine, requester
<1>6. CASE EndOfFile
  BY <1>g, <1>6 DEF EndOfFile, Genuine, requester, mailbox
<1>7. ASSUME NEW m \in Lines, Respond(m) PROVE OnItsWay'
  <2>1. UNCHANGED <<phase, answer, holder, reader, found>> /\ output' = Append(output, m)
    BY <1>7 DEF Respond, requester, mailbox, readerVars
  <2>2. Genuine(m)
    <3> SUFFICES ASSUME m.id \in Requests
                 PROVE  m.id \in taken /\ (m.kind = "result" => done[m.id] = 1)
      BY DEF Genuine
    <3>1. done[m.id] \in Nat /\ done[m.id] <= 1
      BY DEF WrittenOnce, TypeOK
    <3> QED
      BY <1>7, <3>1, DownstreamConstants DEF Respond
  <2>3. \A i \in 1..Len(output') : output'[i] = m \/ (i \in 1..Len(output) /\ output'[i] = output[i])
    BY <2>1 DEF TypeOK
  <2> QED
    BY <1>g, <2>1, <2>2, <2>3 DEF Genuine
<1>8. CASE Start
  BY <1>g, <1>8 DEF Start, Genuine, requester, mailbox
<1>9. CASE Stop \/ Take \/ CloseInput \/ Die \/ UNCHANGED vars
  BY <1>1, <1>9 DEF Stop, Take, CloseInput, Die, vars
<1> QED
  BY <1>2, <1>3, <1>4, <1>5, <1>6, <1>7, <1>8, <1>9 DEF Next, Request, ReadLoop, Server

LEMMA FilledFirstStep ==
  ASSUME IInv, [Next]_vars PROVE FilledFirst'
<1> USE DEF IInv, FilledFirst
<1>t. TypeOK
  OBVIOUS
<1>1. ASSUME UNCHANGED <<requester, mailbox, readerVars>> PROVE FilledFirst'
  BY <1>1 DEF requester, mailbox, readerVars
<1>2. ASSUME NEW r \in Requests, Request(r) PROVE FilledFirst'
  <2>1. phase' = [phase EXCEPT ![r] = phase'[r]] /\ UNCHANGED <<mailbox, readerVars>>
    BY <1>2, Alone
  <2>2. phase'[r] \in {"woken", "read"} => event[r]
    BY <1>2 DEF Request, Enter, Continue, StartFails, Register, Write, WriteFails, Wake, TimeOut, Pop,
       ReadHolder, Goto, TypeOK
  <2> QED
    BY <2>1, <2>2 DEF TypeOK, mailbox, readerVars
<1>3. CASE Receive
  BY <1>3 DEF Receive, requester, mailbox, readerVars
<1>4. CASE Store
  <2>1. found # NoMessage /\ found.id \in Requests
    BY <1>4, DownstreamConstants DEF Store, OnItsWay, Responses, Lines
  <2> QED
    BY <1>4, <2>1 DEF Store, requester, TypeOK
<1>5. CASE Signal
  BY <1>5 DEF Signal, requester, TypeOK
<1>6. CASE EndOfFile \/ Start
  BY <1>6 DEF EndOfFile, Start, requester, mailbox
<1>7. CASE Stop \/ Server \/ UNCHANGED vars
  BY <1>1, <1>7 DEF Stop, Server, Take, CloseInput, Die, Respond, vars
<1> QED
  BY <1>2, <1>3, <1>4, <1>5, <1>6, <1>7 DEF Next, Request, ReadLoop
------------------------------------------------------------------------------
(* The theorems.                                                           *)

LEMMA InvariantStep ==
  ASSUME IInv, [Next]_vars PROVE IInv'
BY TypeStep, PendingStep, WrittenOnceStep, OnItsWayStep, FilledFirstStep DEF IInv

THEOREM Inductive == Spec => []IInv
BY InitialState, InvariantStep, PTL DEF Spec

(* Every reachable state of the client is well typed. *)
THEOREM ClientTyped == Spec => []TypeOK
<1>1. IInv => TypeOK
  BY DEF IInv
<1> QED
  BY <1>1, Inductive, PTL

(* The map of pending requests holds the ones under way and no other,      *)
(* however requests end: DownstreamServer._pending.                        *)
THEOREM NothingLeftPending == Spec => []PendingExact
<1>1. IInv => PendingExact
  BY DEF IInv
<1> QED
  BY <1>1, Inductive, PTL

(* Whoever is woken finds its response: the branch of request that raises  *)
(* "Malformed downstream response" is dead.                                *)
THEOREM HolderFilled == Spec => []NeverMalformed
<1>1. IInv => NeverMalformed
  BY DEF IInv, FilledFirst, NeverMalformed
<1> QED
  BY <1>1, Inductive, PTL

(* Late, duplicate and foreign lines never answer a request, and a result  *)
(* answers one the server carried out, once.                               *)
THEOREM AnswersOwn == Spec => []AnswerIsOwn
<1>1. IInv => AnswerIsOwn
  BY DEF IInv, OnItsWay, Genuine, AnswerIsOwn
<1> QED
  BY <1>1, Inductive, PTL
------------------------------------------------------------------------------
(* The contract of module Rpc.                                             *)

LEMMA StageNext ==
  ASSUME NEW r
  PROVE  Stage(r)' = CASE phase'[r] = "new" -> "new"
                       [] phase'[r] = "raised" -> "raised"
                       [] phase'[r] = "returned" -> answer'[r].kind
                       [] OTHER -> "open"
BY DEF Stage

(* A request takes its own stage along and leaves the others where they    *)
(* are.                                                                    *)
LEMMA StageMoves ==
  ASSUME IInv, NEW r \in Requests, Request(r)
  PROVE  [q \in Requests |-> Stage(q)]' = [[q \in Requests |-> Stage(q)] EXCEPT ![r] = Stage(r)']
<1>1. ASSUME NEW q \in Requests, q # r PROVE Stage(q)' = Stage(q)
  <2>1. phase'[q] = phase[q] /\ answer'[q] = answer[q]
    BY <1>1, Alone DEF IInv, TypeOK
  <2> QED
    BY <2>1, StageNext DEF Stage
<1> QED
  BY <1>1

LEMMA ContractStep ==
  ASSUME IInv, [Next]_vars PROVE [Contract!Next]_(Contract!vars)
<1> DEFINE stage == [q \in Requests |-> Stage(q)]
<1> USE DEF IInv, Contract!vars
<1>t. TypeOK
  OBVIOUS
<1>1. ASSUME UNCHANGED <<phase, answer, done>> PROVE UNCHANGED Contract!vars
  BY <1>1, StageNext DEF Stage
<1>2. ASSUME NEW r \in Requests, (Idle /\ Enter(r)) \/ Continue(r)
      PROVE  [Contract!Next]_(Contract!vars)
  <2>0. Request(r)
    BY <1>2 DEF Request
  <2>1. stage' = [stage EXCEPT ![r] = Stage(r)'] /\ done' = done
    BY <2>0, StageMoves, Alone DEF server
  <2>2. stage[r] = Stage(r) /\ stage \in [Requests -> {Stage(q) : q \in Requests}]
    OBVIOUS
  <2>3. ASSUME Stage(r)' = Stage(r) PROVE UNCHANGED Contract!vars
    BY <2>1, <2>2, <2>3
  <2>4. ASSUME Stage(r) \in {"new", "open"}, Stage(r)' = "raised"
        PROVE  Contract!Raise(r)
    BY <2>1, <2>2, <2>4 DEF Contract!Raise
  <2> USE DEF Goto
  <2>5. CASE StartFails(r)
    BY <1>t, <2>4, <2>5, StageNext DEF StartFails, Stage, TypeOK, Contract!Next
  <2>6. CASE Register(r) /\ Idle
    <3>1. Stage(r) = "new" /\ Stage(r)' = "open"
      BY <1>t, <2>6, StageNext DEF Register, Stage, TypeOK
    <3>2. ASSUME NEW q \in Requests PROVE stage[q] # "open"
      <4>1. phase[q] \in {"new"} \cup Ended
        BY <2>6 DEF Register, Idle
      <4>2. phase[q] = "returned" => answer[q].kind # "open"
        BY DEF OnItsWay, Responses
      <4> QED
        BY <4>1, <4>2 DEF Stage, Ended
    <3> QED
      BY <2>1, <2>2, <3>1, <3>2 DEF Contract!Open, Contract!Next
  <2>7. CASE Write(r) \/ Wake(r) \/ TimeOut(r)
    BY <1>t, <2>3, <2>7, StageNext DEF Write, Wake, TimeOut, Stage, TypeOK
  <2>8. CASE WriteFails(r)
    BY <1>t, <2>4, <2>8, StageNext DEF WriteFails, Stage, TypeOK, Contract!Next
  <2>9. CASE Pop(r)
    <3>1. CASE phase[r] = "woken"
      BY <1>t, <2>3, <2>9, <3>1, StageNext DEF Pop, Stage, TypeOK
    <3>2. CASE phase[r] = "late"
      BY <1>t, <2>4, <2>9, <3>2, StageNext DEF Pop, Stage, TypeOK, Contract!Next
    <3> QED
      BY <2>9, <3>1, <3>2 DEF Pop
  <2>10. CASE ReadHolder(r)
    <3>1. holder[r] \in Responses /\ holder[r].id = r /\ Genuine(holder[r])
      BY <2>10 DEF ReadHolder, OnItsWay, FilledFirst, TypeOK
    <3>2. Stage(r) = "open" /\ Stage(r)' = holder[r].kind
      <4>1. phase'[r] = "returned" /\ answer'[r] = holder[r] /\ phase[r] = "read"
        BY <1>t, <2>10, <3>1, DownstreamConstants DEF ReadHolder, TypeOK, Lines
      <4> QED
        BY <4>1, StageNext DEF Stage
    <3>3. CASE holder[r].kind = "result"
      BY <2>1, <2>2, <3>1, <3>2, <3>3 DEF Genuine, Contract!Succeed, Contract!Next
    <3>4. CASE holder[r].kind = "error"
      BY <2>1, <2>2, <3>1, <3>2, <3>4 DEF Contract!Fail, Contract!Next
    <3> QED
      BY <3>1, <3>3, <3>4 DEF Responses
  <2> QED
    BY <1>2, <2>5, <2>6, <2>7, <2>8, <2>9, <2>10 DEF Enter, Continue
<1>3. CASE Take
  <2> DEFINE h == Head(input)
  <2>1. h = input[1] /\ h \in Requests /\ 1 \in 1..Len(input)
    BY <1>3 DEF Take, TypeOK
  <2>2. Sent(h) /\ h \notin taken /\ done[h] = 0
    BY <2>1 DEF WrittenOnce, TypeOK
  <2>3. UNCHANGED <<phase, answer>>
    BY <1>3 DEF Take, requester
  <2>4. Stage(h) \in {"open", "raised"}
    <3>1. phase[h] # "returned"
      BY <2>1, <2>2 DEF OnItsWay, Genuine
    <3> QED
      BY <2>2, <3>1 DEF Sent, Stage
  <2>5. stage' = stage
    BY <2>3, StageNext DEF Stage
  <2>6. CASE done' = done
    BY <1>1, <2>3, <2>6
  <2>7. CASE done' = [done EXCEPT ![h] = @ + 1]
    <3>1. stage[h] \in {"open", "raised"}
      BY <2>1, <2>4
    <3>2. done' = [done EXCEPT ![h] = 1]
      BY <2>2, <2>7
    <3>3. Contract!CarryOut(h)
      BY <2>2, <2>5, <3>1, <3>2 DEF Contract!CarryOut
    <3> QED
      BY <2>1, <3>3 DEF Contract!Next
  <2> QED
    BY <1>3, <2>6, <2>7 DEF Take
<1>4. CASE Start \/ Stop \/ ReadLoop \/ CloseInput \/ Die \/ UNCHANGED vars \/ \E m \in Lines : Respond(m)
  BY <1>1, <1>4 DEF Start, Stop, ReadLoop, Receive, Store, Signal, EndOfFile, CloseInput, Die, Respond,
     vars, server, requester
<1> QED
  BY <1>2, <1>3, <1>4 DEF Next, Server

(* request() keeps its callers' contract: one at a time, each carried out  *)
(* at most once, a result only for what was carried out.                   *)
THEOREM ClientImplementsRpc == Spec => RpcContract
<1>1. Init => Contract!Init
  BY DEF Init, Contract!Init, Stage
<1> QED
  BY <1>1, Inductive, ContractStep, PTL DEF Spec, RpcContract, Contract!Spec
==============================================================================
