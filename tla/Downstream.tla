------------------------------ MODULE Downstream ------------------------------
(***************************************************************************)
(* The client of one downstream MCP server (proxy/downstream.py): the      *)
(* gateway's thread makes requests, one at a time; a reader thread matches *)
(* the lines the child process writes with the requests that are pending;  *)
(* two pipes of bounded size connect them with the child.                  *)
(*                                                                         *)
(* The child answers what it has taken, once, several times or never, in   *)
(* any order, writes lines that answer nothing, may close its stdin, and   *)
(* may die.  The map of pending requests is guarded by a lock, but the     *)
(* reader fills the holder and sets the event outside of it, and the       *)
(* requester reads the holder outside of it.                               *)
(***************************************************************************)
EXTENDS Naturals, Sequences

CONSTANTS
  Requests,     \* requests the gateway makes; each has a fresh id
  NoRequest,    \* the id of a line that answers no request ever made
  NoMessage,    \* None
  InputSize,    \* how many lines the child's stdin pipe holds
  OutputSize    \* how many lines its stdout pipe holds

Responses == [id : Requests, kind : {"result", "error"}]

(* "noise" is whatever the reader skips: empty lines, no JSON, no object,  *)
(* no id, an unknown id.  "garbled" is a line that cannot be decoded.      *)
Lines == Responses \cup [id : {NoRequest}, kind : {"noise", "garbled"}]

ASSUME DownstreamConstants ==
  /\ NoRequest \notin Requests
  /\ NoMessage \notin Lines
  /\ InputSize \in Nat
  /\ OutputSize \in Nat

VARIABLES
  phase,     \* where the gateway's thread is in request(r)
  pending,   \* the keys of _pending
  event,     \* whether the request's threading.Event is set
  holder,    \* what the reader put in the request's holder
  answer,    \* what request(r) returned
  alive,     \* _alive
  reader,    \* where the reader thread is
  found,     \* the response it delivers
  child,     \* the child process
  input,     \* its stdin pipe
  output,    \* its stdout pipe
  taken,     \* the requests the child has read
  done       \* how many times it carried each of them out

requester == <<phase, pending, answer>>
mailbox == <<event, holder>>
readerVars == <<reader, found>>
server == <<child, taken, done>>
vars == <<requester, mailbox, alive, readerVars, server, input, output>>

Ended == {"returned", "raised"}
InMap == {"write", "wait", "woken", "late"}
Phases == {"new", "read"} \cup InMap \cup Ended

TypeOK ==
  /\ phase \in [Requests -> Phases]
  /\ pending \subseteq Requests
  /\ event \in [Requests -> BOOLEAN]
  /\ holder \in [Requests -> Responses \cup {NoMessage}]
  /\ answer \in [Requests -> Responses \cup {NoMessage}]
  /\ alive \in BOOLEAN
  /\ reader \in {"off", "reading", "storing", "signalling", "ended"}
  /\ found \in Responses \cup {NoMessage}
  /\ child \in {"none", "up", "deaf", "dead"}
  /\ input \in Seq(Requests)
  /\ output \in Seq(Lines)
  /\ taken \subseteq Requests
  /\ done \in [Requests -> Nat]

Init ==
  /\ phase = [r \in Requests |-> "new"]
  /\ pending = {}
  /\ event = [r \in Requests |-> FALSE]
  /\ holder = [r \in Requests |-> NoMessage]
  /\ answer = [r \in Requests |-> NoMessage]
  /\ alive = FALSE
  /\ reader = "off" /\ found = NoMessage
  /\ child = "none"
  /\ input = <<>> /\ output = <<>>
  /\ taken = {}
  /\ done = [r \in Requests |-> 0]
------------------------------------------------------------------------------
Goto(r, l) == phase' = [phase EXCEPT ![r] = l]

(* Whether nobody is left to read what is written to the child.            *)
Unread == child \in {"deaf", "dead"}

(* The process is started once: after it has died nobody starts it again.  *)
Start ==
  /\ child = "none"
  /\ child' = "up" /\ alive' = TRUE /\ reader' = "reading"
  /\ UNCHANGED <<requester, mailbox, found, input, output, taken, done>>

(* The command cannot be run: a request that has to start it raises.       *)
StartFails(r) ==
  /\ child = "none" /\ phase[r] = "new"
  /\ Goto(r, "raised")
  /\ UNCHANGED <<pending, answer, mailbox, alive, readerVars, server, input, output>>

Stop ==
  /\ child # "none" /\ alive
  /\ alive' = FALSE
  /\ UNCHANGED <<requester, mailbox, readerVars, server, input, output>>

Register(r) ==
  /\ child # "none" /\ phase[r] = "new"
  /\ pending' = pending \cup {r}
  /\ Goto(r, "write")
  /\ UNCHANGED <<answer, mailbox, alive, readerVars, server, input, output>>

(* Writing waits, without a timeout, while the pipe is full.               *)
Write(r) ==
  /\ phase[r] = "write"
  /\ child = "up" /\ Len(input) < InputSize
  /\ input' = Append(input, r)
  /\ Goto(r, "wait")
  /\ UNCHANGED <<pending, answer, mailbox, alive, readerVars, server, output>>

(* A mutant of WriteFails: the entry stays behind. *)
WriteFailsLeaking(r) ==
  /\ phase[r] = "write"
  /\ Unread
  /\ Goto(r, "raised")
  /\ UNCHANGED <<pending, answer, mailbox, alive, readerVars, server, input, output>>

WriteFails(r) ==
  /\ phase[r] = "write"
  /\ Unread
  /\ pending' = pending \ {r}
  /\ Goto(r, "raised")
  /\ UNCHANGED <<answer, mailbox, alive, readerVars, server, input, output>>

Wake(r) ==
  /\ phase[r] = "wait" /\ event[r]
  /\ Goto(r, "woken")
  /\ UNCHANGED <<pending, answer, mailbox, alive, readerVars, server, input, output>>

(* Mutants of TimeOut: a request that got no answer is written again; the  *)
(* wait has no timeout.                                                    *)
TimeOutAndRetry(r) ==
  /\ phase[r] = "wait" /\ ~event[r]
  /\ Goto(r, "write")
  /\ UNCHANGED <<pending, answer, mailbox, alive, readerVars, server, input, output>>

TimeOutNever(r) == phase[r] = "wait" /\ FALSE /\ UNCHANGED vars

(* Event.wait gives up; the reader may still set the event before the      *)
(* entry is removed.                                                       *)
TimeOut(r) ==
  /\ phase[r] = "wait" /\ ~event[r]
  /\ Goto(r, "late")
  /\ UNCHANGED <<pending, answer, mailbox, alive, readerVars, server, input, output>>

Pop(r) ==
  /\ phase[r] \in {"woken", "late"}
  /\ pending' = pending \ {r}
  /\ Goto(r, IF phase[r] = "woken" THEN "read" ELSE "raised")
  /\ UNCHANGED <<answer, mailbox, alive, readerVars, server, input, output>>

(* The response is read from the holder; without one it is "malformed".    *)
ReadHolder(r) ==
  /\ phase[r] = "read"
  /\ answer' = [answer EXCEPT ![r] = holder[r]]
  /\ Goto(r, IF holder[r] = NoMessage THEN "raised" ELSE "returned")
  /\ UNCHANGED <<pending, mailbox, alive, readerVars, server, input, output>>
------------------------------------------------------------------------------
(* A mutant of Receive: a line goes to whoever waits. *)
ReceiveForAnyone ==
  /\ reader = "reading" /\ output # <<>>
  /\ output' = Tail(output)
  /\ IF pending # {} /\ Head(output).id \in Requests
     THEN /\ reader' = "storing"
          /\ found' = [Head(output) EXCEPT !.id = CHOOSE r \in pending : TRUE]
     ELSE UNCHANGED readerVars
  /\ UNCHANGED <<requester, mailbox, alive, server, input>>

(* Another: it is delivered although nobody asked. *)
ReceiveUnmatched ==
  /\ reader = "reading" /\ output # <<>>
  /\ output' = Tail(output)
  /\ reader' = "storing" /\ found' = Head(output)
  /\ UNCHANGED <<requester, mailbox, alive, server, input>>

(* The reader takes a line and looks up whose it is.  One that cannot be   *)
(* decoded ends the thread by an exception.                                *)
Receive ==
  /\ reader = "reading" /\ output # <<>>
  /\ output' = Tail(output)
  /\ \/ /\ ~alive \/ Head(output).kind = "garbled"
        /\ reader' = "ended" /\ UNCHANGED found
     \/ /\ alive /\ Head(output).kind # "garbled"
        /\ IF Head(output).id \in pending
           THEN reader' = "storing" /\ found' = Head(output)
           ELSE UNCHANGED readerVars
  /\ UNCHANGED <<requester, mailbox, alive, server, input>>

(* A mutant of Store: the event is set before the holder is filled. *)
SignalFirst ==
  /\ reader = "storing"
  /\ event' = [event EXCEPT ![found.id] = TRUE]
  /\ reader' = "signalling"
  /\ UNCHANGED <<requester, holder, alive, found, server, input, output>>

Store ==
  /\ reader = "storing"
  /\ holder' = [holder EXCEPT ![found.id] = found]
  /\ reader' = "signalling"
  /\ UNCHANGED <<requester, event, alive, found, server, input, output>>

Signal ==
  /\ reader = "signalling"
  /\ event' = [event EXCEPT ![found.id] = TRUE]
  /\ reader' = "reading" /\ found' = NoMessage
  /\ UNCHANGED <<requester, holder, alive, server, input, output>>

EndOfFile ==
  /\ reader = "reading" /\ output = <<>> /\ child = "dead"
  /\ reader' = "ended"
  /\ UNCHANGED <<requester, mailbox, alive, found, server, input, output>>
------------------------------------------------------------------------------
(* The child reads a request, and carries it out or refuses to.            *)
Take ==
  /\ child = "up" /\ input # <<>>
  /\ input' = Tail(input)
  /\ taken' = taken \cup {Head(input)}
  /\ done' \in {done, [done EXCEPT ![Head(input)] = @ + 1]}
  /\ UNCHANGED <<requester, mailbox, alive, readerVars, child, output>>

(* It writes a line, of a request it has taken or of none.                 *)
Respond(m) ==
  /\ child \in {"up", "deaf"} /\ Len(output) < OutputSize
  /\ m.id \in taken \cup {NoRequest}
  /\ m.kind = "result" => done[m.id] > 0
  /\ output' = Append(output, m)
  /\ UNCHANGED <<requester, mailbox, alive, readerVars, server, input>>

(* It closes its stdin and lives on; what it had not read is lost.         *)
CloseInput ==
  /\ child = "up"
  /\ child' = "deaf" /\ input' = <<>>
  /\ UNCHANGED <<requester, mailbox, alive, readerVars, taken, done, output>>

Die ==
  /\ child \in {"up", "deaf"}
  /\ child' = "dead" /\ input' = <<>>
  /\ UNCHANGED <<requester, mailbox, alive, readerVars, taken, done, output>>
------------------------------------------------------------------------------
Enter(r) == StartFails(r) \/ Register(r)

Continue(r) == Write(r) \/ WriteFails(r) \/ Wake(r) \/ TimeOut(r) \/ Pop(r) \/ ReadHolder(r)

Request(r) == Enter(r) \/ Continue(r)

ReadLoop == Receive \/ Store \/ Signal \/ EndOfFile

Server == Take \/ CloseInput \/ Die \/ \E m \in Lines : Respond(m)

(* The client as it may be used: whoever starts or stops the server, or    *)
(* makes a request, waits until the last request has ended.  That the      *)
(* gateway keeps to this is the property ClientKept of module              *)
(* ProxyGateway.                                                           *)
Idle == \A r \in Requests : phase[r] \in {"new"} \cup Ended

Next ==
  \/ Idle /\ (Start \/ Stop \/ \E r \in Requests : Enter(r))
  \/ \E r \in Requests : Continue(r)
  \/ ReadLoop
  \/ Server

Spec == Init /\ [][Next]_vars

(* A thread inside request is scheduled, and so is the reader.  Nothing is *)
(* assumed of the child, nor that requests are made.                       *)
Fairness ==
  /\ WF_vars(ReadLoop)
  /\ \A r \in Requests : WF_vars(Continue(r))

FairSpec == Spec /\ Fairness
------------------------------------------------------------------------------
(* A request is answered by its own response, to what the server really    *)
(* did: never by one that came late for an earlier request, was written    *)
(* twice, or answers nothing.                                              *)
AnswerIsOwn ==
  \A r \in Requests : phase[r] = "returned" =>
    /\ answer[r].id = r
    /\ r \in taken
    /\ answer[r].kind = "result" => done[r] = 1

(* Whoever is woken finds a response in the holder, although neither side  *)
(* holds the lock there: "Malformed downstream response" never happens.    *)
NeverMalformed ==
  \A r \in Requests : phase[r] \in {"woken", "read"} => holder[r] # NoMessage

(* No entry outlives its request, however it ends, and none is missing     *)
(* while the requester waits: late responses find nobody, timely ones do.  *)
PendingExact == pending = {r \in Requests : phase[r] \in InMap}

(* A request ends, by its response or by its timeout, whatever the server  *)
(* does and even when the reader is gone - unless the server leaves its    *)
(* pipe full for good: a write has no timeout.                             *)
RequestsEnd ==
  []<>(Unread \/ Len(input) < InputSize) =>
    \A r \in Requests : phase[r] = "write" ~> phase[r] \in Ended

Stage(r) ==
  CASE phase[r] = "new" -> "new"
    [] phase[r] = "raised" -> "raised"
    [] phase[r] = "returned" -> answer[r].kind
    [] OTHER -> "open"

(* The client implements the contract its callers rely on: one request at  *)
(* a time, each carried out at most once, success only for one that was.   *)
Contract == INSTANCE Rpc WITH stage <- [r \in Requests |-> Stage(r)]

RpcContract == Contract!Spec
==============================================================================
