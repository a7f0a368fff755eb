----------------------------- MODULE ProxyProofs ------------------------------
(***************************************************************************)
(* What proxy mode guarantees from end to end, for every policy, any       *)
(* number of worker threads, pipes of any size, and a downstream server    *)
(* that takes its time: the gateway and the client both keep their own     *)
(* specifications, what the server does was permitted and recorded, and    *)
(* what is answered and recorded as executed the server has done.          *)
(***************************************************************************)
EXTENDS ProxyGateway, EvidenceProofs

(* The client's theorems, of the client that proxy mode uses.              *)
DP == INSTANCE DownstreamProofs WITH Requests <- Calls, event <- signal

(* The types of the client that the argument needs.                        *)
ClientTypes ==
  /\ input \in Seq(Calls)
  /\ taken \subseteq Calls
  /\ done \in [Calls -> Nat]

(* A call that is on its way to the server, or has got there, is the one   *)
(* under way or one that counts as run.                                    *)
HandedOver ==
  /\ \A c \in Calls : IsCall(c) /\ Handed(c) => runs[c] > 0 \/ (gw = "execute" /\ cur = c)
  /\ \A c \in Calls : done[c] > 0 => c \in taken

ProxyInv == ClientTypes /\ HandedOver
------------------------------------------------------------------------------
(* The parts keep their specifications.                                    *)
(*                                                                         *)
(* Neither follows from how the two are put together.  That the client is  *)
(* used for one request at a time depends on the gateway's staying where   *)
(* it is until the request has ended; that the gateway records a call as   *)
(* executed only when a server had it depends on the client's answering a  *)
(* request by its own response.  The invariant takes in both.              *)

LEMMA ServingCall == ASSUME IInv, InRequest PROVE cur \in Calls
BY Served DEF InRequest

InFlight == D!InMap \cup {"read"}

(* A request that has begun and not ended is the one the gateway serves;   *)
(* none begins before the server is started.                               *)
UnderWay ==
  \A c \in Calls : /\ phase[c] \in InFlight => cur = c /\ InRequest
                   /\ child = "none" => phase[c] = "new"

PartsInv == IInv /\ DP!IInv /\ UnderWay

(* The client as module DownstreamProofs knows it.                         *)

LEMMA ClientAssumed == DP!DownstreamConstants
BY ClientConstants DEF DP!DownstreamConstants, D!Lines, DP!Lines, D!Responses, DP!Responses

LEMMA SameStart == D!Init => DP!Init
BY DEF D!Init, DP!Init

LEMMA SameSteps == [D!Next]_D!vars => [DP!Next]_DP!vars
BY DEF D!Next, D!vars, D!requester, D!mailbox, D!readerVars, D!server,
   D!Start, D!Stop, D!ReadLoop, D!Receive, D!Store, D!Signal, D!EndOfFile,
   D!Server, D!Take, D!Respond, D!CloseInput, D!Die,
   D!Request, D!Enter, D!Continue, D!Unread, D!StartFails, D!Register, D!Write, D!WriteFails, D!Wake, D!TimeOut,
   D!Pop, D!ReadHolder, D!Goto, D!Idle, D!Lines, D!Responses, D!Ended,
   DP!Next, DP!vars, DP!requester, DP!mailbox, DP!readerVars, DP!server,
   DP!Start, DP!Stop, DP!ReadLoop, DP!Receive, DP!Store, DP!Signal, DP!EndOfFile,
   DP!Server, DP!Take, DP!Respond, DP!CloseInput, DP!Die,
   DP!Request, DP!Enter, DP!Continue, DP!Unread, DP!StartFails, DP!Register, DP!Write, DP!WriteFails, DP!Wake, DP!TimeOut,
   DP!Pop, DP!ReadHolder, DP!Goto, DP!Idle, DP!Lines, DP!Responses, DP!Ended

LEMMA ClientTyped ==
  ASSUME DP!IInv
  PROVE  /\ phase \in [Calls -> DP!Phases]
         /\ answer \in [Calls -> DP!Responses \cup {NoMessage}]
         /\ input \in Seq(Calls) /\ taken \subseteq Calls
         /\ done \in [Calls -> Nat]
BY DEF DP!IInv, DP!TypeOK

(* A request that has returned has got to the server. *)
LEMMA ReturnedHanded ==
  ASSUME DP!IInv, NEW c \in Calls, Succeeded(c) PROVE Handed(c)
BY DEF DP!IInv, DP!OnItsWay, DP!Genuine, Succeeded, Handed

(* The end of a request is to the gateway one step that runs the tool, and *)
(* goes on to the line that fits, or does not.                             *)
LEMMA RunsCounted ==
  ASSUME IInv, ReturnCall
  PROVE  /\ Handed(cur) => runs' = [runs EXCEPT ![cur] = @ + 1]
         /\ ~Handed(cur) => runs' = runs
<1>1. runs' = [runs EXCEPT ![cur] = IF Handed(cur) THEN runs[cur] + 1 ELSE runs[cur]]
  BY DEF ReturnCall
<1>2. runs \in [Calls -> Nat]
  BY Served
<1> HIDE DEF Handed
<1> QED
  BY <1>1, <1>2

LEMMA ReturnExecutes == ASSUME PartsInv, ReturnCall PROVE Execute
<1>1. cur \in Calls /\ gw = "execute" /\ UNCHANGED <<adminVars, call, waitLeft>>
  BY Served DEF PartsInv, ReturnCall
<1>2. CASE Succeeded(cur)
  BY <1>1, <1>2, RunsCounted, ReturnedHanded DEF PartsInv, ReturnCall, Execute
<1>3. CASE ~Succeeded(cur)
  BY <1>1, <1>3, RunsCounted DEF PartsInv, ReturnCall, Execute
<1> QED
  BY <1>2, <1>3

LEMMA ReturnLists == ASSUME ReturnListing PROVE ListTools
BY InProxyMode DEF ReturnListing, ListTools, adminVars

LEMMA GatewayMoves ==
  ASSUME PartsInv, [ProxyNext]_allVars PROVE [Next]_vars
<1>1. CASE StartServer \/ StepRequest \/ Downstream
  BY <1>1 DEF StartServer, StepRequest, Downstream
<1>2. CASE ReadMessage
  BY <1>2 DEF ReadMessage, Next
<1>3. CASE ReturnCall
  BY <1>3, ReturnExecutes DEF Next, Serve
<1>4. CASE ReturnListing
  BY <1>4, ReturnLists DEF Next, Serve, ServeSimple
<1>5. CASE ServeElse
  BY <1>5 DEF ServeElse, Next
<1>6. CASE Beside
  BY <1>6 DEF Beside, Next
<1>7. CASE UNCHANGED allVars
  BY <1>7 DEF allVars
<1> QED
  BY <1>1, <1>2, <1>3, <1>4, <1>5, <1>6, <1>7 DEF ProxyNext

LEMMA ClientStutters ==
  ASSUME UNCHANGED clientVars PROVE UNCHANGED D!vars
BY DEF clientVars, D!vars, D!requester, D!mailbox, D!readerVars, D!server

(* Whoever enters a request finds the last one ended. *)
LEMMA EntersIdle ==
  ASSUME PartsInv, InRequest, phase[cur] = "new" PROVE D!Idle
<1>1. \A c \in Calls : phase[c] \in DP!Phases
  BY ClientTyped DEF PartsInv
<1>2. ASSUME NEW c \in Calls PROVE phase[c] \notin InFlight
  BY <1>2 DEF PartsInv, UnderWay, InFlight, D!InMap
<1> QED
  BY <1>1, <1>2 DEF DP!Phases, DP!InMap, DP!Ended, InFlight, D!InMap, D!Ended, D!Idle

LEMMA ClientMoves ==
  ASSUME PartsInv, [ProxyNext]_allVars PROVE [D!Next]_D!vars
<1>1. CASE StartServer
  <2>1. child = "none" /\ D!Start
    BY <1>1 DEF StartServer, D!Start
  <2>2. D!Idle
    BY <2>1 DEF PartsInv, UnderWay, D!Idle
  <2> QED
    BY <2>1, <2>2 DEF D!Next
<1>2. CASE StepRequest
  <2>1. cur \in Calls /\ D!Request(cur) /\ InRequest
    BY <1>2, ServingCall DEF StepRequest, PartsInv
  <2>2. CASE D!Enter(cur)
    <3>1. phase[cur] = "new"
      BY <2>2 DEF D!Enter, D!StartFails, D!Register
    <3> QED
      BY <2>1, <2>2, <3>1, EntersIdle DEF D!Next
  <2> QED
    BY <2>1, <2>2 DEF D!Request, D!Next
<1>3. CASE Downstream
  BY <1>3 DEF Downstream, D!Next
<1>4. CASE ReadMessage \/ ReturnCall \/ ReturnListing \/ ServeElse \/ Beside
  BY <1>4, ClientStutters DEF ReadMessage, ReturnCall, ReturnListing, ServeElse, Beside
<1>5. CASE UNCHANGED allVars
  BY <1>5, ClientStutters DEF allVars
<1> QED
  BY <1>1, <1>2, <1>3, <1>4, <1>5 DEF ProxyNext

LEMMA UnderWayStep ==
  ASSUME PartsInv, [ProxyNext]_allVars PROVE UnderWay'
<1> USE DEF UnderWay
<1>t. UnderWay /\ phase \in [Calls -> DP!Phases]
  BY ClientTyped DEF PartsInv
<1>1. CASE StepRequest
  <2>1. cur \in Calls /\ D!Request(cur) /\ child # "none" /\ UNCHANGED vars
    BY <1>1, ServingCall DEF StepRequest, PartsInv
  <2>2. InRequest /\ InRequest' /\ cur' = cur
    BY <1>1, <2>1 DEF StepRequest, InRequest, vars, gwVars
  <2>3. \A c \in Calls : c # cur => phase'[c] = phase[c]
    BY <1>t, <2>1 DEF D!Request, D!Enter, D!Continue, D!StartFails, D!Register, D!Write,
       D!WriteFails, D!Wake, D!TimeOut, D!Pop, D!ReadHolder, D!Goto
  <2>4. child' = child
    BY <2>1 DEF D!Request, D!Enter, D!Continue, D!StartFails, D!Register, D!Write,
       D!WriteFails, D!Wake, D!TimeOut, D!Pop, D!ReadHolder, D!server
  <2> QED
    BY <1>t, <2>1, <2>2, <2>3, <2>4
<1>2. CASE ReturnCall \/ ReturnListing
  <2>1. UNCHANGED <<phase, child>> /\ phase[cur] \in D!Ended \cup {"new"}
    BY <1>2 DEF ReturnCall, ReturnListing, clientVars
  <2>2. \A c \in Calls : phase[c] \notin InFlight
    BY <1>t, <2>1 DEF InFlight, D!InMap, D!Ended
  <2> QED
    BY <1>t, <2>1, <2>2
<1>3. CASE ServeElse \/ ReadMessage
  <2>1. UNCHANGED <<phase, child>> /\ ~InRequest
    BY <1>3 DEF ServeElse, ReadMessage, Read, clientVars, InRequest
  <2> QED
    BY <1>t, <2>1
<1>4. CASE Beside
  <2>1. UNCHANGED <<phase, child>> /\ (InRequest => InRequest' /\ cur' = cur)
    BY <1>4 DEF Beside, Exit, Tick, AdjustClock, Admin, gwVars, clientVars, InRequest
  <2> QED
    BY <1>t, <2>1
<1>5. CASE StartServer \/ Downstream \/ UNCHANGED allVars
  <2>1. UNCHANGED vars /\ phase' = phase /\ (child' = "none" => child = "none")
    BY <1>5 DEF StartServer, Downstream, allVars, clientVars, D!Start, D!ReadLoop, D!Receive,
       D!Store, D!Signal, D!EndOfFile, D!Server, D!Take, D!Respond, D!CloseInput, D!Die,
       D!requester, D!server
  <2>2. (InRequest <=> InRequest') /\ cur' = cur
    BY <2>1 DEF vars, gwVars, InRequest
  <2> QED
    BY <1>t, <2>1, <2>2
<1> QED
  BY <1>1, <1>2, <1>3, <1>4, <1>5 DEF ProxyNext

LEMMA PartsStart == ProxyInit => PartsInv
<1> SUFFICES ASSUME ProxyInit PROVE PartsInv
  OBVIOUS
<1>1. IInv
  BY InitIInv DEF ProxyInit
<1>2. DP!IInv
  BY SameStart, ClientAssumed, DP!InitialState DEF ProxyInit
<1>3. UnderWay
  BY DEF ProxyInit, D!Init, UnderWay, InFlight, D!InMap
<1> QED
  BY <1>1, <1>2, <1>3 DEF PartsInv

LEMMA PartsStep == PartsInv /\ [ProxyNext]_allVars => PartsInv'
<1> SUFFICES ASSUME PartsInv, [ProxyNext]_allVars PROVE PartsInv'
  OBVIOUS
<1>1. IInv'
  BY GatewayMoves, IInvStep DEF PartsInv
<1>2. DP!IInv'
  BY ClientMoves, SameSteps, ClientAssumed, DP!InvariantStep DEF PartsInv
<1> QED
  BY <1>1, <1>2, UnderWayStep DEF PartsInv

LEMMA PartsAlways == ProxySpec => []PartsInv
BY PartsStart, PartsStep, PTL DEF ProxySpec

(* With the steps of a request, and a child that answers as it likes, in   *)
(* the place of its tools, the gateway does what module Gateway lets it    *)
(* do: it records a call as executed only if a server had it, whatever the *)
(* responses on their way, and as failed whichever way the request ended   *)
(* (stdio_server.py:224-251, downstream.py).                               *)
THEOREM ProxyKeepsGateway == ProxySpec => GatewayKept
<1>1. ProxyInit => Init
  BY DEF ProxyInit
<1>2. PartsInv /\ [ProxyNext]_allVars => [Next]_vars
  BY GatewayMoves
<1> QED
  BY <1>1, <1>2, PartsAlways, PTL DEF ProxySpec, GatewayKept, Spec

(* The gateway never makes a request while another has not ended, nor one  *)
(* before the server is started: what is proved of the client holds        *)
(* (stdio_server.py:38-78, DownstreamServer.request).                      *)
THEOREM ProxyKeepsClient == ProxySpec => ClientKept
<1>1. ProxyInit => D!Init
  BY DEF ProxyInit
<1>2. PartsInv /\ [ProxyNext]_allVars => [D!Next]_D!vars
  BY ClientMoves
<1> QED
  BY <1>1, <1>2, PartsAlways, PTL DEF ProxySpec, ClientKept, D!Spec

LEMMA SameClient == ClientKept => DP!Spec
BY SameStart, SameSteps, PTL DEF ClientKept, D!Spec, DP!Spec
------------------------------------------------------------------------------
(* What the server does.                                                   *)

(* The input pipe changes by appending, by taking the first line, or all.  *)
LEMMA Appended ==
  ASSUME ClientTypes, NEW r \in Calls, input' = Append(input, r), taken' = taken
  PROVE  input' \in Seq(Calls) /\ \A c : Handed(c)' => Handed(c) \/ c = r
<1>1. input' \in Seq(Calls) /\ DOMAIN input = 1..Len(input) /\ DOMAIN input' = 1..(Len(input) + 1)
  BY DEF ClientTypes
<1>2. \A i \in DOMAIN input' : input'[i] = IF i \in DOMAIN input THEN input[i] ELSE r
  BY <1>1 DEF ClientTypes
<1> QED
  BY <1>1, <1>2 DEF Handed

LEMMA Consumed ==
  ASSUME ClientTypes, input # <<>>, input' = Tail(input), taken' = taken \cup {Head(input)}
  PROVE  /\ input' \in Seq(Calls) /\ Head(input) \in Calls
         /\ \A c : Handed(c)' => Handed(c)
<1>1. /\ input' \in Seq(Calls) /\ Len(input) >= 1 /\ Len(input) \in Nat
      /\ DOMAIN input = 1..Len(input) /\ DOMAIN input' = 1..(Len(input) - 1)
  BY DEF ClientTypes
<1>2. Head(input) = input[1] /\ Head(input) \in Calls
  BY DEF ClientTypes
<1>3. \A i \in DOMAIN input' : i + 1 \in DOMAIN input /\ input'[i] = input[i + 1]
  BY <1>1 DEF ClientTypes
<1>4. 1 \in DOMAIN input
  BY <1>1
<1> QED
  BY <1>1, <1>2, <1>3, <1>4 DEF Handed

(* A step of the client hands nothing over but the request under way.      *)
LEMMA ClientHands ==
  ASSUME ClientTypes, HandedOver, NEW r \in Calls, D!Request(r)
  PROVE  /\ ClientTypes' /\ taken' = taken /\ done' = done
         /\ \A c : Handed(c)' => Handed(c) \/ c = r
<1>1. CASE D!Write(r)
  BY <1>1, Appended DEF D!Write, D!mailbox, D!readerVars, D!server, ClientTypes
<1>2. CASE ~D!Write(r)
  <2>1. input' = input /\ taken' = taken /\ done' = done
    BY <1>2 DEF D!Request, D!Enter, D!Continue, D!StartFails, D!Register, D!WriteFails, D!Wake, D!TimeOut,
       D!Pop, D!ReadHolder, D!server
  <2> QED
    BY <2>1 DEF ClientTypes, Handed
<1> QED
  BY <1>1, <1>2

(* The child and the reader hand nothing over at all.                      *)
LEMMA ServerHands ==
  ASSUME ClientTypes, HandedOver, Downstream
  PROVE  /\ ClientTypes'
         /\ \A c : Handed(c)' => Handed(c)
         /\ \A c \in Calls : done'[c] > 0 => c \in taken'
<1>1. CASE D!Take
  <2>1. /\ input # <<>> /\ input' = Tail(input) /\ taken' = taken \cup {Head(input)}
        /\ done' \in {done, [done EXCEPT ![Head(input)] = @ + 1]}
    BY <1>1 DEF D!Take
  <2>2. input' \in Seq(Calls) /\ Head(input) \in Calls /\ \A c : Handed(c)' => Handed(c)
    BY <2>1, Consumed
  <2>3. done' \in [Calls -> Nat] /\ \A c \in Calls : done'[c] > 0 => c \in taken'
    BY <2>1, <2>2 DEF ClientTypes, HandedOver
  <2> QED
    BY <2>1, <2>2, <2>3 DEF ClientTypes
<1>2. CASE D!CloseInput \/ D!Die
  <2>1. input' = <<>> /\ taken' = taken /\ done' = done
    BY <1>2 DEF D!CloseInput, D!Die
  <2> QED
    BY <2>1 DEF ClientTypes, Handed, HandedOver
<1>3. CASE D!ReadLoop \/ \E m \in D!Lines : D!Respond(m)
  <2>1. input' = input /\ taken' = taken /\ done' = done
    BY <1>3 DEF D!ReadLoop, D!Receive, D!Store, D!Signal, D!EndOfFile, D!Respond, D!server
  <2> QED
    BY <2>1 DEF ClientTypes, Handed, HandedOver
<1> QED
  BY <1>1, <1>2, <1>3 DEF Downstream, D!Server

(* What runs counts is never taken back, and the gateway leaves "execute"  *)
(* by no other step than the return of the call.                           *)
LEMMA RunsKept ==
  ASSUME IInv, ServeElse \/ ReadMessage \/ Beside \/ ReturnListing
  PROVE  runs' = runs /\ ~(gw = "execute" /\ (gw' # "execute" \/ cur' # cur))
<1>1. CASE ReadMessage
  BY <1>1 DEF ReadMessage, Read
<1>2. CASE ReturnListing
  BY <1>2 DEF ReturnListing, Finish
<1>3. CASE Beside
  BY <1>3 DEF Beside, Exit, Tick, AdjustClock, Admin, gwVars
<1>4. CASE ServeElse
  <2>1. gw # "execute" /\ Serve
    BY <1>4 DEF ServeElse, InRequest
  <2>2. CASE ServeSimple \/ Propose \/ Evaluate \/ Refuse \/ Build \/ Insert \/ Announce
    BY <2>1, <2>2 DEF ServeSimple, Initialize, ListTools, InvalidName, InvalidParams, UnknownMethod,
       Propose, Evaluate, Refuse, Build, Insert, Announce
  <2>3. CASE Arm \/ Wake \/ TimeOut \/ CollectDecision \/ Block \/ Mark \/ Record \/ RecordFail
    BY <2>1, <2>3 DEF Arm, Wake, TimeOut, CollectDecision, Block, Mark, Record, RecordFail
  <2> QED
    BY <2>1, <2>2, <2>3 DEF Serve, Execute
<1> QED
  BY <1>1, <1>2, <1>3, <1>4

LEMMA ProxyStart == ProxyInit => ProxyInv
<1> SUFFICES ASSUME ProxyInit PROVE ProxyInv
  OBVIOUS
<1>1. input = <<>> /\ taken = {} /\ done = [c \in Calls |-> 0]
  BY DEF ProxyInit, D!Init
<1> QED
  BY <1>1 DEF ProxyInv, ClientTypes, HandedOver, Handed

LEMMA ProxyStep == PartsInv /\ ProxyInv /\ [ProxyNext]_allVars => ProxyInv'
<1> SUFFICES ASSUME PartsInv, ProxyInv, [ProxyNext]_allVars PROVE ProxyInv'
  OBVIOUS
<1> USE DEF ProxyInv, PartsInv
<1>0. \A c : IsCall(c)' = IsCall(c)
  BY GatewayMoves, Fixed
<1>1. CASE StepRequest
  <2>1. cur \in Calls /\ D!Request(cur) /\ UNCHANGED vars
    BY <1>1, ServingCall DEF StepRequest
  <2>2. gw' = gw /\ cur' = cur /\ runs' = runs
    BY <2>1 DEF vars, gwVars
  <2>3. IsCall(cur) => gw = "execute"
    BY <1>1 DEF StepRequest, InRequest, IsCall
  <2> QED
    BY <1>0, <2>1, <2>2, <2>3, ClientHands DEF HandedOver
<1>2. CASE ReturnCall
  <2>1. cur \in Calls /\ runs \in [Calls -> Nat]
    BY <1>2, Served DEF ReturnCall
  <2>2. /\ runs' = runs \/ runs' = [runs EXCEPT ![cur] = @ + 1]
        /\ runs'[cur] > runs[cur] <=> Handed(cur)
        /\ input' = input /\ taken' = taken /\ done' = done
    BY <1>2, <2>1, RunsCounted DEF ReturnCall, clientVars
  <2>3. \A c \in Calls : runs'[c] \in Nat /\ runs'[c] >= runs[c]
    BY <2>1, <2>2
  <2>4. ClientTypes' /\ \A c : Handed(c)' <=> Handed(c)
    BY <2>2 DEF ClientTypes, Handed
  <2>5. ASSUME NEW c \in Calls, IsCall(c), Handed(c) PROVE runs'[c] > 0
    BY <2>1, <2>2, <2>3, <2>5 DEF HandedOver
  <2> QED
    BY <1>0, <2>2, <2>4, <2>5 DEF HandedOver
<1>3. CASE ServeElse \/ ReadMessage \/ Beside \/ ReturnListing
  <2>1. input' = input /\ taken' = taken /\ done' = done
    BY <1>3 DEF ServeElse, ReadMessage, Beside, ReturnListing, clientVars
  <2> QED
    BY <1>0, <1>3, <2>1, RunsKept DEF HandedOver, Handed, ClientTypes
<1>4. CASE Downstream
  <2>1. gw' = gw /\ cur' = cur /\ runs' = runs
    BY <1>4 DEF Downstream, vars, gwVars
  <2> QED
    BY <1>0, <1>4, <2>1, ServerHands DEF HandedOver
<1>5. CASE StartServer \/ UNCHANGED allVars
  <2>1. /\ gw' = gw /\ cur' = cur /\ runs' = runs
        /\ input' = input /\ taken' = taken /\ done' = done
    BY <1>5 DEF StartServer, D!Start, allVars, vars, gwVars, clientVars
  <2> QED
    BY <1>0, <2>1 DEF HandedOver, Handed, ClientTypes
<1> QED
  BY <1>1, <1>2, <1>3, <1>4, <1>5 DEF ProxyNext

LEMMA EffectsFollow == IInv /\ LogInv /\ ProxyInv => EffectsPermitted
<1> SUFFICES ASSUME IInv, LogInv, ProxyInv, NEW c \in Calls, IsCall(c), done[c] > 0
             PROVE  /\ Recorded("tool_call_proposed", c) /\ Recorded("decision_made", c)
                    /\ ~Recorded("tool_call_blocked", c)
                    /\ \/ Verdict(c).action = "allow"
                       \/ /\ Verdict(c).action = "require_approval"
                          /\ Recorded("approval_required", c)
                          /\ decision[c] = "approved" /\ MayDecide(approver[c], c)
  BY DEF EffectsPermitted
<1>1. runs[c] > 0 \/ (gw = "execute" /\ cur = c)
  BY DEF ProxyInv, HandedOver, Handed
<1>2. Permitted(c)
  BY <1>1 DEF IInv, ServerInv, CallInv
<1>3. decision[c] = "approved" => MayDecide(approver[c], c)
  BY DEF IInv, ThreadInv, DecidedByEntitled, Verdicts
<1>4. CallLogged(c)
  BY DEF LogInv
<1>5. CASE runs[c] > 0
  BY <1>2, <1>3, <1>4, <1>5 DEF Permitted, CallLogged, RunLogged, AnswerLogged
<1>6. CASE gw = "execute" /\ cur = c
  <2>1. Open(c)
    BY <1>6, Served DEF Open
  <2> QED
    BY <1>2, <1>3, <1>4, <1>6, <2>1 DEF Permitted, CallLogged, Led, OutcomeOpen
<1> QED
  BY <1>1, <1>5, <1>6

(* Whatever a downstream server does for a call, at whatever time, policy  *)
(* allows or an entitled principal has approved, and the log says so       *)
(* (stdio_server.py:185-229, DownstreamServer.request).                    *)
THEOREM EffectsArePermitted == ProxySpec => []EffectsPermitted
<1>1. ProxySpec => []LogInv
  BY ProxyKeepsGateway, LogAlways, PTL DEF GatewayKept
<1>2. ProxySpec => []ProxyInv
  BY PartsAlways, ProxyStart, ProxyStep, PTL DEF ProxySpec
<1>3. PartsInv /\ LogInv /\ ProxyInv => EffectsPermitted
  BY EffectsFollow DEF PartsInv
<1> QED
  BY <1>1, <1>2, <1>3, PartsAlways, PTL
------------------------------------------------------------------------------
(* What is proved of the client holds of it in proxy mode.                 *)

(* In proxy mode the gateway keeps its step-up contract, and each request  *)
(* it makes keeps the contract of a remote call: carried out once at most, *)
(* and a success only if it was (stdio_server.py:226, downstream.py).      *)
THEOREM ContractsKept == ProxySpec => StepUpContract /\ D!RpcContract
<1>1. DP!Contract!Init => D!Contract!Init
  BY DEF DP!Contract!Init, D!Contract!Init, DP!Stage, D!Stage
<1>2. [DP!Contract!Next]_(DP!Contract!vars) => [D!Contract!Next]_(D!Contract!vars)
  BY DEF DP!Contract!Next, D!Contract!Next, DP!Contract!vars, D!Contract!vars, DP!Stage, D!Stage,
     DP!Contract!Open, D!Contract!Open, DP!Contract!CarryOut, D!Contract!CarryOut,
     DP!Contract!Succeed, D!Contract!Succeed, DP!Contract!Fail, D!Contract!Fail,
     DP!Contract!Raise, D!Contract!Raise
<1>3. DP!RpcContract => D!RpcContract
  BY <1>1, <1>2, PTL DEF DP!RpcContract, D!RpcContract, DP!Contract!Spec, D!Contract!Spec
<1>4. ProxySpec => D!RpcContract
  BY <1>3, ProxyKeepsClient, SameClient, ClientAssumed, DP!ClientImplementsRpc, PTL
<1>5. ProxySpec => StepUpContract
  BY ProxyKeepsGateway, GatewayImplementsContract, PTL DEF GatewayKept
<1> QED
  BY <1>4, <1>5
------------------------------------------------------------------------------
(* What is told and recorded as executed.                                  *)

(* The answer or the line that says so is out, or about to be written.     *)
SaysDone(c) ==
  \/ gw = "record" /\ cur = c
  \/ reply[c] = "result"
  \/ Recorded("tool_call_executed", c)

(* Whatever says that a call was executed goes back to a request that      *)
(* returned a result.                                                      *)
ResultBacked == \A c \in Calls : IsCall(c) /\ SaysDone(c) => Succeeded(c)

(* A request that has returned is over: its answer stays what it is.       *)
LEMMA SuccessKept ==
  ASSUME PartsInv, [ProxyNext]_allVars, NEW c \in Calls, Succeeded(c)
  PROVE  Succeeded(c)'
<1> USE DEF Succeeded, PartsInv
<1>1. CASE StepRequest
  <2>1. cur \in Calls /\ D!Request(cur)
    BY <1>1, ServingCall DEF StepRequest
  <2>2. phase[cur] # "returned"
    BY <2>1 DEF D!Request, D!Enter, D!Continue, D!StartFails, D!Register, D!Write, D!WriteFails, D!Wake,
       D!TimeOut, D!Pop, D!ReadHolder
  <2>3. phase'[c] = phase[c] /\ answer'[c] = answer[c]
    BY <2>1, <2>2, ClientTyped DEF D!Request, D!Enter, D!Continue, D!StartFails, D!Register, D!Write, D!WriteFails,
       D!Wake, D!TimeOut, D!Pop, D!ReadHolder, D!Goto
  <2> QED
    BY <2>3
<1>2. CASE Downstream \/ StartServer
  BY <1>2 DEF Downstream, D!ReadLoop, D!Receive, D!Store, D!Signal, D!EndOfFile, D!Server,
     D!Take, D!Respond, D!CloseInput, D!Die, D!requester, StartServer, D!Start
<1>3. CASE ReadMessage \/ ReturnCall \/ ReturnListing \/ ServeElse \/ Beside \/ UNCHANGED allVars
  BY <1>3 DEF ReadMessage, ReturnCall, ReturnListing, ServeElse, Beside, allVars, clientVars
<1> QED
  BY <1>1, <1>2, <1>3 DEF ProxyNext

(* Nothing says so for the first time but the return of such a request.    *)
LEMMA SaidBefore ==
  ASSUME PartsInv, [ProxyNext]_allVars, NEW c \in Calls, IsCall(c), SaysDone(c)'
  PROVE  SaysDone(c) \/ Succeeded(c)
<1> USE DEF SaysDone, PartsInv
<1>t. /\ reply \in [Calls -> Answers \cup {"unread", "serving"}]
      /\ "tool_call_executed" \in CallEvents
  BY Served DEF CallEvents, OutcomeEvents
<1>1. CASE StartServer \/ StepRequest \/ Downstream \/ UNCHANGED allVars
  BY <1>1, NoLineAdded DEF StartServer, StepRequest, Downstream, allVars, vars, gwVars, adminVars
<1>2. CASE ReadMessage
  BY <1>t, <1>2, NoLineAdded DEF ReadMessage, Read, adminVars
<1>3. CASE Beside
  BY <1>t, <1>3, NoLineAdded, AdminLines
  DEF Beside, Exit, Tick, AdjustClock, Admin, gwVars, adminVars
<1>4. CASE ReturnListing
  BY <1>t, <1>4, NoLineAdded DEF ReturnListing, Finish, IsCall, adminVars
<1>5. CASE ReturnCall
  BY <1>5, NoLineAdded DEF ReturnCall, Proceed, adminVars
<1>6. CASE ServeElse
  <2>1. Serve /\ gw # "execute"
    BY <1>6 DEF ServeElse, InRequest
  <2> USE DEF EmitFailed, EmitRaises, EmitThen, Finish, Proceed
  <2>2. CASE ServeSimple
    BY <1>t, <2>2, LineAdded, NoLineAdded
    DEF ServeSimple, Initialize, ListTools, InvalidName, InvalidParams, UnknownMethod, IsCall
  <2>3. CASE Propose
    BY <1>t, <2>3, LineAdded, NoLineAdded DEF Propose
  <2>4. CASE Evaluate
    <3>1. Verdict(cur).action \in Actions
      BY <2>4, Served, VerdictTyped DEF Evaluate, IInv, TypeOK
    <3>2. AfterDecision(Verdict(cur).action) # "record"
      BY <3>1 DEF AfterDecision, Actions
    <3> QED
      BY <1>t, <2>4, <3>2, LineAdded, NoLineAdded DEF Evaluate
  <2>5. CASE Refuse \/ Announce \/ Block \/ RecordFail
    BY <1>t, <2>5, LineAdded, NoLineAdded DEF Refuse, Announce, Block, RecordFail
  <2>6. CASE Build \/ Insert \/ Arm \/ Wake \/ TimeOut \/ CollectDecision \/ Mark
    BY <2>6, NoLineAdded
    DEF Build, Insert, Arm, Wake, TimeOut, CollectDecision, Mark, adminVars
  <2>7. CASE Record
    BY <1>t, <2>7, LineAdded, NoLineAdded DEF Record
  <2> QED
    BY <2>1, <2>2, <2>3, <2>4, <2>5, <2>6, <2>7 DEF Serve, Execute
<1> QED
  BY <1>1, <1>2, <1>3, <1>4, <1>5, <1>6 DEF ProxyNext

LEMMA BackedStart == ProxyInit => ResultBacked
BY DEF ProxyInit, Init, AdminInit, SinkInit, ResultBacked, SaysDone, Recorded

LEMMA BackedStep ==
  PartsInv /\ ResultBacked /\ [ProxyNext]_allVars => ResultBacked'
<1> SUFFICES ASSUME PartsInv, ResultBacked, [ProxyNext]_allVars,
                    NEW c \in Calls, IsCall(c)', SaysDone(c)'
             PROVE  Succeeded(c)'
  BY DEF ResultBacked
<1>1. IsCall(c)
  BY GatewayMoves, Fixed
<1>2. Succeeded(c)
  BY <1>1, SaidBefore DEF ResultBacked
<1> QED
  BY <1>2, SuccessKept

(* What the client is told, and the log says, was executed, the downstream *)
(* server has done, once, for this very call: no late, duplicate or        *)
(* foreign line makes a result (stdio_server.py:224-239, downstream.py).   *)
THEOREM ResultsAreReal == ProxySpec => []ResultsHappened
<1>1. ProxySpec => []ResultBacked
  BY PartsAlways, BackedStart, BackedStep, PTL DEF ProxySpec
<1>2. PartsInv /\ ResultBacked => ResultsHappened
  BY DEF PartsInv, DP!IInv, DP!OnItsWay, DP!Genuine, ResultBacked, SaysDone, Succeeded,
     ResultsHappened
<1> QED
  BY <1>1, <1>2, PartsAlways, PTL
------------------------------------------------------------------------------
(* The promise of module Mediation.                                        *)

(* An answer is final, and so is what the log says of a call's outcome     *)
(* once it is answered.                                                    *)
LEMMA OutcomeFinal ==
  ASSUME IInv, [Next]_vars, NEW c \in Calls, reply[c] \in Answers
  PROVE  /\ reply'[c] = reply[c]
         /\ \A e \in CallEvents : Recorded(e, c)' <=> Recorded(e, c)
<1>t. /\ reply \in [Calls -> Answers \cup {"unread", "serving"}]
      /\ c # cur
  BY Served, GatewayConstants DEF Answers, IInv, ServerInv
<1>1. ASSUME NEW w, EmitThen(w) \/ EmitRaises(w, cur, NoPrincipal) \/ evidence' = evidence
      PROVE  \A e \in CallEvents : Recorded(e, c)' <=> Recorded(e, c)
  BY <1>t, <1>1, LineAdded, NoLineAdded DEF EmitThen, EmitRaises
<1> USE DEF EmitFailed, Finish, Proceed
<1>2. CASE Serve
  <2>1. CASE ServeSimple
    BY <1>t, <1>1, <2>1 DEF ServeSimple, Initialize, ListTools, InvalidName, InvalidParams, UnknownMethod
  <2>2. CASE Propose \/ Evaluate \/ Refuse \/ Announce
    BY <1>t, <1>1, <2>2 DEF Propose, Evaluate, Refuse, Announce
  <2>3. CASE Block \/ Record \/ RecordFail
    BY <1>t, <1>1, <2>3 DEF Block, Record, RecordFail
  <2>4. CASE Build \/ Insert \/ Arm \/ Wake \/ TimeOut \/ CollectDecision \/ Mark \/ Execute
    BY <1>1, <2>4
    DEF Build, Insert, Arm, Wake, TimeOut, CollectDecision, Mark, Execute, adminVars
  <2> QED
    BY <1>2, <2>1, <2>2, <2>3, <2>4 DEF Serve
<1>3. ASSUME NEW d \in Calls, Read(d)
      PROVE  reply'[c] = reply[c] /\ \A e \in CallEvents : Recorded(e, c)' <=> Recorded(e, c)
  BY <1>t, <1>1, <1>3 DEF Read, adminVars, Answers
<1>4. ASSUME NEW t \in Threads, Admin(t)
      PROVE  reply'[c] = reply[c] /\ \A e \in CallEvents : Recorded(e, c)' <=> Recorded(e, c)
  BY <1>4, AdminLines DEF Admin, gwVars
<1>5. CASE Exit \/ Tick \/ AdjustClock \/ UNCHANGED vars
  BY <1>1, <1>5 DEF Exit, Tick, AdjustClock, vars, gwVars, adminVars
<1> QED
  BY <1>2, <1>3, <1>4, <1>5 DEF Next

(* The course of a call is that of the step-up contract, but for its end.  *)
LEMMA ProgressRefines ==
  ASSUME NEW c
  PROVE  /\ Stage(c) = "new" => Progress(c) = "new"
         /\ Stage(c) = "open" => Progress(c) = "open"
         /\ Stage(c)' = "open" => Progress(c)' = "open"
         /\ Stage(c)' = "closed" => Progress(c)' \in {"done", "refused", "ended"}
BY DEF Stage, Progress, Answers

LEMMA ProgressKept ==
  ASSUME IInv, [Next]_vars, NEW c \in Calls, Stage(c)' = Stage(c)
  PROVE  Progress(c)' = Progress(c)
<1>t. reply[c] \in Answers \cup {"unread", "serving"}
  BY Served
<1>1. CASE reply[c] \in Answers
  <2>1. /\ reply'[c] = reply[c] /\ IsCall(c)' = IsCall(c)
        /\ Recorded("tool_call_executed", c)' <=> Recorded("tool_call_executed", c)
        /\ Recorded("tool_call_blocked", c)' <=> Recorded("tool_call_blocked", c)
    BY <1>1, OutcomeFinal, Fixed DEF CallEvents, OutcomeEvents
  <2> QED
    BY <2>1 DEF Progress
<1>2. CASE reply[c] \in {"unread", "serving"}
  BY <1>2 DEF Stage, Progress, Answers
<1> QED
  BY <1>t, <1>1, <1>2

(* What the client of the downstream server and the server itself do.      *)
LEMMA EffectStep ==
  ASSUME IInv, HandedOver, DP!IInv, ResultsHappened, EffectsPermitted', UNCHANGED vars,
         StepRequest \/ StartServer \/ Downstream
  PROVE  [Promise!Next]_Promise!vars
<1> DEFINE stage == [c \in Calls |-> Progress(c)]
           effects == [c \in Calls |-> IF IsCall(c) THEN done[c] ELSE 0]
<1>1. /\ \A c : Verdict(c)' = Verdict(c) /\ IsCall(c)' = IsCall(c) /\ Progress(c)' = Progress(c)
      /\ \A c, p : MayDecide(p, c)' = MayDecide(p, c)
      /\ \A e, c : Recorded(e, c)' <=> Recorded(e, c)
      /\ decision' = decision /\ approver' = approver /\ runs' = runs /\ reply' = reply
  BY DEF vars, gwVars, adminVars, storeVars, Verdict, IsCall, Progress, Recorded,
     MayDecide, SodCheck, CapabilityCheck
<1>2. ASSUME effects' = effects PROVE UNCHANGED Promise!vars
  BY <1>1, <1>2 DEF Promise!vars
<1>3. CASE done' = done
  BY <1>1, <1>2, <1>3
<1>4. CASE D!Take
  <2> DEFINE h == Head(input)
  <2>1. h = input[1] /\ h \in Calls /\ 1 \in DOMAIN input /\ DOMAIN input = 1..Len(input)
    BY <1>4, ClientTyped DEF D!Take
  <2>2. done[h] = 0
    BY <2>1, ClientTyped DEF DP!IInv, DP!WrittenOnce
  <2>3. CASE done' # done /\ IsCall(h)
    <3>1. done' = [done EXCEPT ![h] = 1]
      BY <1>4, <2>2, <2>3 DEF D!Take
    <3>2. effects' = [effects EXCEPT ![h] = 1] /\ effects[h] = 0 /\ done'[h] = 1
      BY <1>1, <2>1, <2>2, <2>3, <3>1, ClientTyped
    <3>3. reply[h] # "unread"
      <4>1. Handed(h)
        BY <2>1 DEF Handed
      <4>2. runs[h] > 0 \/ (gw = "execute" /\ cur = h)
        BY <2>1, <2>3, <4>1 DEF HandedOver
      <4> QED
        BY <2>1, <4>2, Served DEF IInv, CallInv
    <3>4. Progress(h) \in {"open", "ended"}
      <4>1. ~Recorded("tool_call_blocked", h)
        BY <1>1, <2>1, <2>3, <3>2 DEF EffectsPermitted
      <4>2. ~Recorded("tool_call_executed", h)
        BY <2>1, <2>2, <2>3 DEF ResultsHappened
      <4> QED
        BY <3>3, <4>1, <4>2 DEF Progress
    <3>5. \/ Verdict(h).action = "allow"
          \/ Verdict(h).action = "require_approval" /\ decision[h] = "approved"
      BY <1>1, <2>1, <2>3, <3>2 DEF EffectsPermitted
    <3>6. ASSUME NEW c \in Calls, c = h PROVE Promise!Effect(c)
      BY <1>1, <3>2, <3>4, <3>5, <3>6 DEF Promise!Effect
    <3> QED
      BY <2>1, <3>6 DEF Promise!Next
  <2>4. CASE done' # done /\ ~IsCall(h)
    <3>1. done' = [done EXCEPT ![h] = @ + 1]
      BY <1>4, <2>4 DEF D!Take
    <3>2. effects' = effects
      BY <1>1, <2>1, <2>4, <3>1, ClientTyped
    <3> QED
      BY <1>2, <3>2
  <2> QED
    BY <1>3, <2>3, <2>4
<1>5. CASE ~D!Take
  <2>1. CASE StepRequest \/ StartServer
    BY <1>3, <2>1 DEF StepRequest, StartServer, D!Start, D!Request, D!Enter, D!Continue, D!StartFails, D!Register,
       D!Write, D!WriteFails, D!Wake, D!TimeOut, D!Pop, D!ReadHolder, D!server
  <2>2. CASE Downstream
    BY <1>3, <1>5, <2>2 DEF Downstream, D!ReadLoop, D!Receive, D!Store, D!Signal, D!EndOfFile,
       D!Server, D!Respond, D!CloseInput, D!Die, D!server
  <2> QED
    BY <2>1, <2>2
<1> QED
  BY <1>4, <1>5

(* What the gateway itself does is a step of the step-up contract; it says *)
(* "done" or "refused" only if that is so.                                 *)
LEMMA PromiseFixed ==
  ASSUME [Next]_vars, UNCHANGED done
  PROVE  /\ [c \in Calls |-> Verdict(c).action]' = [c \in Calls |-> Verdict(c).action]
         /\ [c \in Calls |-> {p \in Principals : MayDecide(p, c)}]'
              = [c \in Calls |-> {p \in Principals : MayDecide(p, c)}]
         /\ [c \in Calls |-> IF IsCall(c) THEN done[c] ELSE 0]'
              = [c \in Calls |-> IF IsCall(c) THEN done[c] ELSE 0]
BY ContractFixed, Fixed

LEMMA PromiseStutters ==
  ASSUME IInv, [Next]_vars, UNCHANGED <<decision, approver, done>>,
         [c \in Calls |-> Stage(c)]' = [c \in Calls |-> Stage(c)]
  PROVE  UNCHANGED Promise!vars
<1>1. [c \in Calls |-> Progress(c)]' = [c \in Calls |-> Progress(c)]
  BY ProgressKept
<1> QED
  BY <1>1, PromiseFixed DEF Promise!vars

(* The course of one call goes on, the others stay where they are.         *)
LEMMA ProgressMoves ==
  ASSUME IInv, [Next]_vars, NEW c \in Calls, NEW s,
         [d \in Calls |-> Stage(d)]' = [[d \in Calls |-> Stage(d)] EXCEPT ![c] = s]
  PROVE  /\ Stage(c)' = s
         /\ [d \in Calls |-> Progress(d)]'
              = [[d \in Calls |-> Progress(d)] EXCEPT ![c] = Progress(c)']
<1>1. \A d \in Calls : Stage(d)' = IF d = c THEN s ELSE Stage(d)
  <2>1. \A d \in Calls : [e \in Calls |-> Stage(e)]'[d] = Stage(d)'
    OBVIOUS
  <2> QED
    BY <2>1
<1>2. \A d \in Calls : d # c => Progress(d)' = Progress(d)
  BY <1>1, ProgressKept
<1> QED
  BY <1>1, <1>2

LEMMA GatewayStep ==
  ASSUME IInv, DP!IInv, EffectsPermitted', ResultsHappened', [Next]_vars, UNCHANGED done
  PROVE  [Promise!Next]_Promise!vars
<1> DEFINE progress == [c \in Calls |-> Progress(c)]
           effects == [c \in Calls |-> IF IsCall(c) THEN done[c] ELSE 0]
           stage == [c \in Calls |-> Stage(c)]
<1>0. [Contract!Next]_Contract!vars
  BY ContractStep
<1>1. ASSUME NEW c \in Calls, Contract!Open(c) PROVE Promise!Open(c)
  <2>1. Stage(c) = "new" /\ stage' = [stage EXCEPT ![c] = "open"] /\ UNCHANGED <<decision, approver>>
    BY <1>1 DEF Contract!Open
  <2>2. Progress(c) = "new" /\ progress' = [progress EXCEPT ![c] = "open"]
    BY <2>1, ProgressMoves, ProgressRefines
  <2> QED
    BY <2>1, <2>2, PromiseFixed DEF Promise!Open
<1>2. ASSUME NEW c \in Calls, Contract!Expire(c) PROVE Promise!Expire(c)
  <2>1. stage' = stage /\ Stage(c) # "new" /\ approver' = approver
    BY <1>2 DEF Contract!Expire
  <2>2. progress' = progress /\ Progress(c) # "new"
    BY <2>1, ProgressKept DEF Stage, Progress
  <2> QED
    BY <1>2, <2>1, <2>2, PromiseFixed DEF Contract!Expire, Promise!Expire
<1>3. ASSUME NEW c \in Calls, NEW v \in {"approved", "denied"}, NEW p \in Principals,
             Contract!Grant(c, v, p)
      PROVE  Promise!Grant(c, v, p)
  <2>1. stage' = stage /\ Stage(c) # "new"
    BY <1>3 DEF Contract!Grant
  <2>2. progress' = progress /\ Progress(c) # "new"
    BY <2>1, ProgressKept DEF Stage, Progress
  <2> QED
    BY <1>3, <2>1, <2>2, PromiseFixed DEF Contract!Grant, Promise!Grant
<1>4. ASSUME NEW c \in Calls, Contract!Close(c) PROVE Promise!Close(c)
  <2>1. /\ Stage(c) = "open" /\ stage' = [stage EXCEPT ![c] = "closed"]
        /\ UNCHANGED <<decision, approver>>
    BY <1>4 DEF Contract!Close
  <2>2. Progress(c) = "open" /\ progress' = [progress EXCEPT ![c] = Progress(c)']
    BY <2>1, ProgressMoves, ProgressRefines
  <2>3. Progress(c)' = "done" => effects[c] = 1
    <3>1. Progress(c)' = "done" => IsCall(c)' /\ Recorded("tool_call_executed", c)'
      BY DEF Progress
    <3> QED
      BY <3>1, Fixed DEF ResultsHappened
  <2>4. Progress(c)' = "refused" => effects[c] = 0
    <3>1. Progress(c)' = "refused" => IsCall(c)' /\ Recorded("tool_call_blocked", c)'
      BY DEF Progress
    <3>2. done[c] \in Nat
      BY ClientTyped
    <3> QED
      BY <3>1, <3>2, Fixed DEF EffectsPermitted
  <2>5. Progress(c)' \in {"done", "refused", "ended"}
    BY <2>1, ProgressMoves, ProgressRefines
  <2> QED
    BY <2>1, <2>2, <2>3, <2>4, <2>5, PromiseFixed DEF Promise!Close
<1>5. ASSUME (\E c \in Calls : Contract!Run(c)) \/ UNCHANGED Contract!vars
      PROVE  UNCHANGED Promise!vars
  <2>1. stage' = stage /\ UNCHANGED <<decision, approver>>
    BY <1>5 DEF Contract!Run, Contract!vars
  <2> QED
    BY <2>1, PromiseStutters
<1> QED
  BY <1>0, <1>1, <1>2, <1>3, <1>4, <1>5 DEF Contract!Next, Promise!Next

LEMMA PromiseStart == ProxyInit => Promise!Init
<1> SUFFICES ASSUME ProxyInit PROVE Promise!Init
  OBVIOUS
<1>1. Contract!Init
  BY ContractInit DEF ProxyInit
<1>2. ASSUME NEW c \in Calls PROVE Progress(c) = "new" /\ done[c] = 0
  <2>1. reply[c] = "unread" /\ done[c] = 0
    BY DEF ProxyInit, Init, D!Init
  <2> QED
    BY <2>1 DEF Progress, Answers
<1> QED
  BY <1>1, <1>2 DEF Promise!Init, Contract!Init

LEMMA PromiseStep ==
  PartsInv /\ ProxyInv /\ ResultsHappened /\ ResultsHappened' /\ EffectsPermitted'
    /\ [ProxyNext]_allVars => [Promise!Next]_Promise!vars
<1> SUFFICES ASSUME PartsInv, ProxyInv, ResultsHappened, ResultsHappened', EffectsPermitted',
                    [ProxyNext]_allVars
             PROVE  [Promise!Next]_Promise!vars
  OBVIOUS
<1> USE DEF PartsInv
<1>1. CASE StepRequest \/ StartServer \/ Downstream
  BY <1>1, EffectStep DEF StepRequest, StartServer, Downstream, ProxyInv
<1>2. CASE ReadMessage \/ ReturnCall \/ ReturnListing \/ ServeElse \/ Beside \/ UNCHANGED allVars
  <2>1. UNCHANGED done
    BY <1>2 DEF ReadMessage, ReturnCall, ReturnListing, ServeElse, Beside, allVars, clientVars
  <2> QED
    BY <2>1, GatewayMoves, GatewayStep
<1> QED
  BY <1>1, <1>2 DEF ProxyNext

(* From end to end proxy mode keeps the promise of Mediation.tla: what a   *)
(* server does for a call was permitted before, happens once at most and   *)
(* never after a refusal, and is recorded as done only when it is          *)
(* (stdio_server.py, approval/store.py, admin/api.py, proxy/downstream.py).*)
THEOREM ProxyMediates == ProxySpec => MediationContract
<1>1. ProxySpec => []ProxyInv
  BY PartsAlways, ProxyStart, ProxyStep, PTL DEF ProxySpec
<1> QED
  BY <1>1, PartsAlways, EffectsArePermitted, ResultsAreReal, PromiseStart, PromiseStep, PTL
  DEF ProxySpec, MediationContract, Promise!Spec
==============================================================================
