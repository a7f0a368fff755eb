------------------------------- MODULE Gateway --------------------------------
(***************************************************************************)
(* The whole gateway: the stdio server (mcp/stdio_server.py), one thread   *)
(* that serves the client's messages one after the other, beside the admin *)
(* API's threads, over the shared approval store and evidence log.         *)
(*                                                                         *)
(* The steps of a tools/call follow _handle_tools_call; each evidence line *)
(* and each access to the store is a step, and a failing emit leaves the   *)
(* handler where the code's except clauses say.  When the client closes    *)
(* stdin the main thread returns and the daemon threads stop with it.      *)
(***************************************************************************)
EXTENDS AdminApi

CONSTANTS
  NoCall,         \* the server reads its next line
  Notifications,  \* messages without an id: served, never answered
  ProxyMode       \* whether tools/list and tools/call go downstream

ASSUME GatewayConstants ==
  /\ NoCall \notin Calls
  /\ Notifications \subseteq Calls
  /\ ProxyMode \in BOOLEAN

VARIABLES
  gw,         \* where the server thread is
  cur,        \* the call it serves
  waitLeft,   \* what is left of the timeout of Event.wait
  outcome,    \* what wait_for_decision returned
  reply,      \* how far each call got, and its answer
  runs        \* how many times each call was handed to its tool

gwVars == <<gw, cur, waitLeft, outcome, reply, runs>>
vars == <<adminVars, call, gwVars>>

GwSteps == {"idle", "simple", "propose", "evaluate", "refuse", "build", "insert",
            "announce", "arm", "waiting", "collect", "block", "mark", "execute",
            "record", "recordfail", "exited"}

Answers == {"result", "denied", "blocked", "error", "internal_error",
            "method_not_found", "silent"}

TypeOK ==
  /\ AdminTypeOK
  /\ evidence \subseteq [event : Events, call : Calls, by : Principals \cup {NoPrincipal}]
  /\ gw \in GwSteps
  /\ cur \in Calls \cup {NoCall}
  /\ waitLeft \in 0..TTL
  /\ outcome \in Decisions \cup {"none", "timeout"}
  /\ reply \in [Calls -> Answers \cup {"unread", "serving"}]
  /\ runs \in [Calls -> Nat]

Init ==
  /\ AdminInit
  /\ gw = "idle"
  /\ cur = NoCall
  /\ waitLeft = 0
  /\ outcome = "none"
  /\ reply = [c \in Calls |-> "unread"]
  /\ runs = [c \in Calls |-> 0]
------------------------------------------------------------------------------
Proceed(l) == gw' = l /\ UNCHANGED <<cur, outcome, reply>>

(* The response line is written, unless the message carries no id. *)
Finish(r) ==
  /\ gw' = "idle"
  /\ cur' = NoCall
  /\ outcome' = "none"
  /\ reply' = [reply EXCEPT ![cur] = IF cur \in Notifications THEN "silent" ELSE r]

(* A step of the server that writes one line of evidence, or fails to. *)
EmitThen(what) == Emit(what, cur, NoPrincipal)
EmitFailed(what) == EmitRaises(what, cur, NoPrincipal) /\ Finish("internal_error")

Read(c) ==
  /\ gw = "idle"
  /\ reply[c] = "unread"
  /\ cur' = c
  /\ reply' = [reply EXCEPT ![c] = "serving"]
  /\ gw' = IF call[c].method = "tools/call" THEN "propose" ELSE "simple"
  /\ UNCHANGED <<adminVars, call, waitLeft, outcome, runs>>

Initialize ==
  /\ gw = "simple" /\ call[cur].method = "initialize"
  /\ (EmitThen("initialize") /\ Finish("result")) \/ EmitFailed("initialize")
  /\ UNCHANGED <<storeVars, threadVars, call, waitLeft, runs>>

(* In proxy mode the catalogue comes from the downstream servers, which    *)
(* may fail; nothing is recorded of a listing.                             *)
ListTools ==
  /\ gw = "simple" /\ call[cur].method = "tools/list"
  /\ Finish("result") \/ (ProxyMode /\ Finish("internal_error"))
  /\ UNCHANGED <<storeVars, threadVars, evidence, call, waitLeft, runs>>

(* A tools/call whose name is not a string is answered before anything     *)
(* else happens.                                                           *)
InvalidName ==
  /\ gw = "simple" /\ call[cur].method = "invalid_tool"
  /\ Finish("result")
  /\ UNCHANGED <<storeVars, threadVars, evidence, call, waitLeft, runs>>

(* One whose params are no object has nothing to look the name up in.      *)
InvalidParams ==
  /\ gw = "simple" /\ call[cur].method = "invalid_params"
  /\ Finish("internal_error")
  /\ UNCHANGED <<storeVars, threadVars, evidence, call, waitLeft, runs>>

UnknownMethod ==
  /\ gw = "simple" /\ call[cur].method = "unknown"
  /\ Finish("method_not_found")
  /\ UNCHANGED <<storeVars, threadVars, evidence, call, waitLeft, runs>>

ServeSimple == Initialize \/ ListTools \/ InvalidName \/ InvalidParams \/ UnknownMethod

(* A mutant of Propose: a failing emit is ignored. *)
ProposeRegardless ==
  /\ gw = "propose"
  /\ EmitThen("tool_call_proposed") \/ EmitRaises("tool_call_proposed", cur, NoPrincipal)
  /\ Proceed("evaluate")
  /\ UNCHANGED <<storeVars, threadVars, call, waitLeft, runs>>

Propose ==
  /\ gw = "propose"
  /\ (EmitThen("tool_call_proposed") /\ Proceed("evaluate")) \/ EmitFailed("tool_call_proposed")
  /\ UNCHANGED <<storeVars, threadVars, call, waitLeft, runs>>

AfterDecision(action) ==
  CASE action = "deny" -> "refuse"
    [] action = "require_approval" -> "build"
    [] action = "allow" -> "execute"

Evaluate ==
  /\ gw = "evaluate"
  /\ \/ EmitThen("decision_made") /\ Proceed(AfterDecision(Verdict(cur).action))
     \/ EmitFailed("decision_made")
  /\ UNCHANGED <<storeVars, threadVars, call, waitLeft, runs>>

Refuse ==
  /\ gw = "refuse"
  /\ (EmitThen("tool_call_blocked") /\ Finish("denied")) \/ EmitFailed("tool_call_blocked")
  /\ UNCHANGED <<storeVars, threadVars, call, waitLeft, runs>>
------------------------------------------------------------------------------
Build ==
  /\ gw = "build"
  /\ BuildRecord(cur)
  /\ Proceed("insert")
  /\ UNCHANGED <<threadVars, evidence, call, waitLeft, runs>>

Insert ==
  /\ gw = "insert"
  /\ InsertRecord(cur)
  /\ Proceed("announce")
  /\ UNCHANGED <<threadVars, evidence, call, waitLeft, runs>>

(* If this line cannot be written the record stays, with nobody waiting. *)
Announce ==
  /\ gw = "announce"
  /\ (EmitThen("approval_required") /\ Proceed("arm")) \/ EmitFailed("approval_required")
  /\ UNCHANGED <<storeVars, threadVars, call, waitLeft, runs>>

(* wait_for_decision fetches the event, then waits a full TTL from now on. *)
Arm ==
  /\ gw = "arm"
  /\ LockFree
  /\ waitLeft' = TTL
  /\ Proceed("waiting")
  /\ UNCHANGED <<storeVars, threadVars, evidence, call, runs>>

Wake ==
  /\ gw = "waiting"
  /\ event[cur]
  /\ waitLeft' = 0
  /\ Proceed("collect")
  /\ UNCHANGED <<storeVars, threadVars, evidence, call, runs>>

(* A mutant of TimeOut: Event.wait is called without a timeout. *)
WaitForever ==
  FALSE /\ UNCHANGED vars

(* Event.wait gives up; the event may still be set before the next step. *)
TimeOut ==
  /\ gw = "waiting"
  /\ waitLeft = 0
  /\ ~event[cur]
  /\ gw' = "block"
  /\ outcome' = "timeout"
  /\ UNCHANGED <<adminVars, call, cur, waitLeft, reply, runs>>

(* A mutant of CollectDecision: whatever is not a denial lets the call run. *)
CollectUnlessDenied ==
  /\ gw = "collect"
  /\ LockFree
  /\ outcome' = DecisionRead(cur)
  /\ gw' = IF outcome' = "denied" THEN "block" ELSE "mark"
  /\ UNCHANGED <<adminVars, call, cur, waitLeft, reply, runs>>

CollectDecision ==
  /\ gw = "collect"
  /\ LockFree
  /\ outcome' = DecisionRead(cur)
  /\ gw' = IF outcome' = "approved" THEN "mark" ELSE "block"
  /\ UNCHANGED <<adminVars, call, cur, waitLeft, reply, runs>>

(* A mutant of Block: the return is missing. *)
BlockFallsThrough ==
  /\ gw = "block"
  /\ (EmitThen("tool_call_blocked") /\ Proceed("mark")) \/ EmitFailed("tool_call_blocked")
  /\ UNCHANGED <<storeVars, threadVars, call, waitLeft, runs>>

Block ==
  /\ gw = "block"
  /\ (EmitThen("tool_call_blocked") /\ Finish("blocked")) \/ EmitFailed("tool_call_blocked")
  /\ UNCHANGED <<storeVars, threadVars, call, waitLeft, runs>>

Mark ==
  /\ gw = "mark"
  /\ MarkExecuted(cur)
  /\ Proceed("execute")
  /\ UNCHANGED <<threadVars, evidence, call, waitLeft, runs>>
------------------------------------------------------------------------------
(* The call is handed to its tool, which answers, or fails with or without *)
(* having had an effect: a timeout downstream or in the sandbox says       *)
(* neither, and a request sent downstream may be carried out later (Rpc).  *)
Execute ==
  /\ gw = "execute"
  /\ \/ runs' = [runs EXCEPT ![cur] = @ + 1] /\ Proceed("record")
     \/ runs' = [runs EXCEPT ![cur] = @ + 1] /\ Proceed("recordfail")
     \/ UNCHANGED runs /\ Proceed("recordfail")
  /\ UNCHANGED <<adminVars, call, waitLeft>>

(* A mutant of Record: the answer does not depend on the line. *)
RecordOrNot ==
  /\ gw = "record"
  /\ EmitThen("tool_call_executed") \/ EmitRaises("tool_call_executed", cur, NoPrincipal)
  /\ Finish("result")
  /\ UNCHANGED <<storeVars, threadVars, call, waitLeft, runs>>

(* The line about the outcome is written inside the try block: when that   *)
(* fails the handler goes on as if the tool had failed.                    *)
Record ==
  /\ gw = "record"
  /\ \/ EmitThen("tool_call_executed") /\ Finish("result")
     \/ EmitRaises("tool_call_executed", cur, NoPrincipal) /\ Proceed("recordfail")
  /\ UNCHANGED <<storeVars, threadVars, call, waitLeft, runs>>

RecordFail ==
  /\ gw = "recordfail"
  /\ (EmitThen("tool_call_failed") /\ Finish("error")) \/ EmitFailed("tool_call_failed")
  /\ UNCHANGED <<storeVars, threadVars, call, waitLeft, runs>>

Exit ==
  /\ gw = "idle"
  /\ gw' = "exited"
  /\ UNCHANGED <<adminVars, call, cur, waitLeft, outcome, reply, runs>>
------------------------------------------------------------------------------
Alive == gw # "exited"

Serve ==
  \/ ServeSimple \/ Propose \/ Evaluate \/ Refuse \/ Build \/ Insert \/ Announce
  \/ Arm \/ Wake \/ TimeOut \/ CollectDecision \/ Block \/ Mark
  \/ Execute \/ Record \/ RecordFail

Admin(t) ==
  /\ Alive
  /\ Handle(t) \/ Release(t) \/ \E j \in Jobs : Submit(t, j)
  /\ UNCHANGED <<call, gwVars>>

(* A mutant of Tick: the wait does not stop at its timeout. *)
TickOn ==
  /\ Alive
  /\ Age
  /\ waitLeft' = waitLeft - 1
  /\ UNCHANGED <<threadVars, evidence, call, gw, cur, outcome, reply, runs>>

Tick ==
  /\ Alive
  /\ Age
  /\ waitLeft' = IF waitLeft > 0 THEN waitLeft - 1 ELSE 0
  /\ UNCHANGED <<threadVars, evidence, call, gw, cur, outcome, reply, runs>>

AdjustClock ==
  /\ Alive
  /\ \E d \in WallSteps : SetWallClock(d)
  /\ UNCHANGED <<threadVars, evidence, call, gwVars>>

Next ==
  \/ \E c \in Calls : Read(c)
  \/ Serve
  \/ Exit
  \/ \E t \in Threads : Admin(t)
  \/ Tick
  \/ AdjustClock

Spec == Init /\ [][Next]_vars

(* The server thread and a thread inside a handler are scheduled, time     *)
(* passes, and a tool returns: waiting for one has a timeout.  Writing to  *)
(* a downstream server has none; Downstream tells when that ends, too.     *)
(* Neither the client nor the approvers owe the gateway anything.          *)
Fairness ==
  /\ WF_vars(Serve)
  /\ \A t \in Threads : WF_vars(Alive /\ Handle(t) /\ UNCHANGED <<call, gwVars>>)
  /\ WF_vars(Tick)

FairSpec == Spec /\ Fairness
==============================================================================
