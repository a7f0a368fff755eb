----------------------------- MODULE GatewayProofs -----------------------------
(***************************************************************************)
(* What the whole gateway guarantees, for every set of calls, threads,     *)
(* principals and tools, every policy, every TTL, every adjustment of the  *)
(* wall clock, and with an evidence sink that may fail.                    *)
(***************************************************************************)
EXTENDS GatewayProperties, ApprovalStoreProofs

(* What each admin thread knows when it decides: it was authenticated, and *)
(* it may decide on the call of its request.  So may whoever holds the     *)
(* lock, and so might whoever took a decision that is already there.       *)
ThreadInv ==
  /\ \A t \in Threads :
       /\ at[t] # "idle" => job[t] \in Jobs
       /\ at[t] \notin {"idle", "answered"} => Decider(t) \in Principals
       /\ at[t] \in {"decide", "commit"} => MayDecide(Decider(t), Id(t))
  /\ section # NoSection => MayDecide(section.by, section.id)
  /\ DecidedByEntitled

StepUpSteps == {"build", "insert", "announce", "arm", "waiting", "collect", "mark"}

Permitted(c) ==
  \/ Verdict(c).action = "allow"
  \/ Verdict(c).action = "require_approval" /\ decision[c] = "approved"

(* What the server thread knows at each step: which call it serves, why it *)
(* is there, and that the call's tool has not run before "execute".        *)
ServerInv ==
  /\ gw \in {"idle", "exited"} <=> cur = NoCall
  /\ cur # NoCall => reply[cur] = "serving"
  /\ gw \in StepUpSteps => Verdict(cur).action = "require_approval"
  /\ gw = "mark" => decision[cur] = "approved"
  /\ gw \in {"execute", "record", "recordfail"} => Permitted(cur)
  /\ gw \notin {"idle", "exited", "record", "recordfail"} => runs[cur] = 0

CallInv ==
  \A c \in Calls :
    /\ reply[c] = "unread" => status[c] = "absent" /\ runs[c] = 0
    /\ status[c] # "absent" => Verdict(c).action = "require_approval"
    /\ runs[c] > 0 => Permitted(c)

IInv == TypeOK /\ StoreConsistent /\ ThreadInv /\ ServerInv /\ CallInv

LEMMA VerdictTyped ==
  ASSUME AdminTypeOK, NEW c \in Calls
  PROVE  Verdict(c).action \in Actions
BY AdminConstants DEF AdminTypeOK, Verdict

LEMMA AuthTyped ==
  ASSUME NEW x PROVE Auth(x) \in Principals \cup {NoPrincipal}
BY AdminConstants DEF Auth
------------------------------------------------------------------------------
(* How the store moves in the composed system.                             *)

LEMMA StoreStep ==
  ASSUME IInv, [Next]_vars PROVE [StoreNext]_storeVars
<1> USE DEF IInv, TypeOK, AdminTypeOK
<1>1. ASSUME NEW c \in Calls, Read(c) PROVE UNCHANGED storeVars
  BY <1>1 DEF Read, adminVars
<1>2. CASE Serve
  <2>0. gw \notin {"idle", "exited"} => cur \in Calls
    BY DEF ServerInv
  <2>1. CASE Build
    BY <2>0, <2>1 DEF Build, StoreNext
  <2>2. CASE Insert
    BY <2>0, <2>2 DEF Insert, StoreNext
  <2>3. CASE Mark
    BY <2>0, <2>3 DEF Mark, StoreNext, ServerInv
  <2>4. CASE ~(Build \/ Insert \/ Mark)
    <3>1. CASE ServeSimple \/ Propose \/ Evaluate \/ Refuse \/ Announce \/ Arm
      BY <3>1 DEF ServeSimple, Initialize, ListTools, InvalidName, InvalidParams, UnknownMethod,
         Propose, Evaluate, Refuse, Announce, Arm
    <3>2. CASE Wake \/ TimeOut \/ CollectDecision \/ Block
      BY <3>2 DEF Wake, TimeOut, CollectDecision, Block, adminVars
    <3>3. CASE Execute \/ Record \/ RecordFail
      BY <3>3 DEF Execute, Record, RecordFail, adminVars
    <3> QED
      BY <1>2, <2>4, <3>1, <3>2, <3>3 DEF Serve
  <2> QED
    BY <2>1, <2>2, <2>3, <2>4
<1>3. CASE Exit
  BY <1>3 DEF Exit, adminVars
<1>4. ASSUME NEW t \in Threads, Admin(t) PROVE [StoreNext]_storeVars
  <2>1. CASE Decide(t)
    <3>1. job[t] \in Jobs /\ Decider(t) \in Principals
      BY <2>1 DEF Decide, ThreadInv
    <3>2. Id(t) \in Calls /\ job[t].verdict \in Verdicts
      BY <3>1 DEF Id, Jobs
    <3> QED
      BY <2>1, <3>1, <3>2 DEF Decide, StoreNext
  <2>2. CASE Commit(t)
    BY <2>2 DEF Commit, StoreNext
  <2>3. CASE Lookup(t) \/ Reject(t) \/ Reread(t) \/ Log(t) \/ Release(t)
    BY <2>3 DEF Lookup, Reject, Reread, Log, Release
  <2>4. ASSUME NEW j \in Jobs, Submit(t, j) PROVE UNCHANGED storeVars
    BY <2>4 DEF Submit
  <2> QED
    BY <1>4, <2>1, <2>2, <2>3, <2>4 DEF Admin, Handle
<1>5. CASE Tick
  BY <1>5 DEF Tick, StoreNext
<1>6. CASE AdjustClock
  BY <1>6 DEF AdjustClock, StoreNext
<1>7. CASE UNCHANGED vars
  BY <1>7 DEF vars, adminVars
<1> QED
  BY <1>1, <1>2, <1>3, <1>4, <1>5, <1>6, <1>7 DEF Next

(* A call never changes, and only the server thread and the steps of the   *)
(* admin threads touch their own variables.                                *)
LEMMA CallFixed ==
  ASSUME [Next]_vars PROVE call' = call
<1>1. ASSUME NEW c \in Calls, Read(c) PROVE call' = call
  BY <1>1 DEF Read
<1>2. CASE Serve
  <2>1. CASE ServeSimple \/ Propose \/ Evaluate \/ Refuse \/ Build \/ Insert \/ Announce
    BY <2>1 DEF ServeSimple, Initialize, ListTools, InvalidName, InvalidParams, UnknownMethod,
         Propose, Evaluate, Refuse, Build, Insert, Announce
  <2>2. CASE Arm \/ Wake \/ TimeOut \/ CollectDecision \/ Block \/ Mark
    BY <2>2 DEF Arm, Wake, TimeOut, CollectDecision, Block, Mark
  <2>3. CASE Execute \/ Record \/ RecordFail
    BY <2>3 DEF Execute, Record, RecordFail
  <2> QED
    BY <1>2, <2>1, <2>2, <2>3 DEF Serve
<1>3. CASE Exit
  BY <1>3 DEF Exit
<1>4. ASSUME NEW t \in Threads, Admin(t) PROVE call' = call
  BY <1>4 DEF Admin
<1>5. CASE Tick \/ AdjustClock \/ UNCHANGED vars
  BY <1>5 DEF Tick, AdjustClock, vars
<1> QED
  BY <1>1, <1>2, <1>3, <1>4, <1>5 DEF Next

(* Steps of the server and of the clock leave the threads and the holder   *)
(* of the lock alone.                                                      *)
LEMMA ThreadsUndisturbed ==
  ASSUME [Next]_vars, \A t \in Threads : ~Admin(t)
  PROVE  UNCHANGED <<threadVars, section, approver>>
<1>1. ASSUME NEW c \in Calls, Read(c) PROVE UNCHANGED <<threadVars, section, approver>>
  BY <1>1 DEF Read, adminVars, storeVars
<1>2. CASE Serve
  <2>1. CASE ServeSimple \/ Propose \/ Evaluate \/ Refuse \/ Announce \/ Arm \/ Wake
    BY <2>1 DEF ServeSimple, Initialize, ListTools, InvalidName, InvalidParams, UnknownMethod,
         Propose, Evaluate, Refuse, Announce, Arm, Wake, storeVars
  <2>2. CASE Build \/ Insert \/ Mark
    BY <2>2 DEF Build, BuildRecord, Insert, InsertRecord, Mark, MarkExecuted
  <2>3. CASE TimeOut \/ CollectDecision \/ Block \/ Execute \/ Record \/ RecordFail
    BY <2>3 DEF TimeOut, CollectDecision, Block, Execute, Record, RecordFail,
         adminVars, storeVars
  <2> QED
    BY <1>2, <2>1, <2>2, <2>3 DEF Serve
<1>3. CASE Exit
  BY <1>3 DEF Exit, adminVars, storeVars
<1>4. CASE Tick
  BY <1>4 DEF Tick, Age
<1>5. CASE AdjustClock
  BY <1>5 DEF AdjustClock, SetWallClock
<1>6. CASE UNCHANGED vars
  BY <1>6 DEF vars, adminVars, storeVars
<1> QED
  BY <1>1, <1>2, <1>3, <1>4, <1>5, <1>6 DEF Next
------------------------------------------------------------------------------
(* Types.                                                                  *)

LEMMA StoreTypedInGateway ==
  ASSUME IInv, [Next]_vars PROVE StoreTypeOK' /\ StoreConsistent'
BY StoreStep, StoreTypeStep, ConsistentStep DEF IInv, TypeOK, AdminTypeOK

LEMMA ThreadTypes ==
  ASSUME IInv, [Next]_vars PROVE AdminTypeOK'
<1> USE DEF IInv, TypeOK
<1>1. StoreTypeOK' /\ call' \in [Calls -> Messages]
  BY StoreTypedInGateway, CallFixed DEF AdminTypeOK
<1> DEFINE Typed == /\ at' \in [Threads -> Steps]
                    /\ job' \in [Threads -> Jobs \cup {NoJob}]
                    /\ ok' \in [Threads -> BOOLEAN]
                    /\ seen' \in [Threads -> Statuses]
                    /\ code' \in [Threads -> {0, 200, 401, 403, 404, 500}]
<1>2. ASSUME NEW t \in Threads, Admin(t) PROVE Typed
  <2> USE DEF AdminTypeOK, Goto, Answer
  <2>1. at[t] # "idle" => Id(t) \in Calls /\ job[t].verdict \in Verdicts
    BY DEF ThreadInv, Jobs, Id
  <2>2. CASE Lookup(t)
    BY <2>2 DEF Lookup, Steps
  <2>3. CASE Reject(t)
    BY <2>3 DEF Reject, Steps
  <2>4. CASE Decide(t)
    BY <2>4 DEF Decide, Steps
  <2>5. CASE Commit(t)
    <3>1. section \in Sections
      BY <2>5 DEF Commit, CommitDecision, StoreTypeOK
    <3>2. section.live \in BOOLEAN /\ job[t].verdict \in Statuses
      BY <2>1, <2>5, <3>1 DEF Commit, Sections, Statuses, Decisions
    <3> QED
      BY <2>5, <3>2 DEF Commit, Steps
  <2>6. CASE Reread(t)
    <3>1. status[Id(t)] \in Statuses
      BY <2>1, <2>6 DEF Reread, StoreTypeOK
    <3> QED
      BY <2>6, <3>1 DEF Reread, Steps
  <2>7. CASE Log(t)
    BY <2>7 DEF Log, Steps
  <2>8. CASE Release(t)
    BY <2>8 DEF Release, Steps, Statuses
  <2>9. ASSUME NEW j \in Jobs, Submit(t, j) PROVE Typed
    BY <2>9 DEF Submit, Steps
  <2> QED
    BY <1>2, <2>2, <2>3, <2>4, <2>5, <2>6, <2>7, <2>8, <2>9 DEF Admin, Handle
<1>3. ASSUME \A t \in Threads : ~Admin(t) PROVE Typed
  BY <1>3, ThreadsUndisturbed DEF AdminTypeOK, threadVars
<1> QED
  BY <1>1, <1>2, <1>3 DEF AdminTypeOK

(* The lines of evidence are about calls, and name principals or nobody.   *)
LEMMA EvidenceTypes ==
  ASSUME IInv, [Next]_vars
  PROVE  evidence' \subseteq [event : Events, call : Calls, by : Principals \cup {NoPrincipal}]
<1> DEFINE Lines == [event : Events, call : Calls, by : Principals \cup {NoPrincipal}]
<1> SUFFICES evidence' \subseteq Lines
  OBVIOUS
<1>0. evidence \subseteq Lines
  BY DEF IInv, TypeOK
<1>1. ASSUME NEW c \in Calls, NEW w \in Events, NEW p \in Principals \cup {NoPrincipal},
             Emit(w, c, p)
      PROVE  evidence' \subseteq Lines
  BY <1>0, <1>1 DEF Emit
<1>2. ASSUME NEW c \in Calls, NEW w \in Events, NEW p \in Principals \cup {NoPrincipal},
             EmitRaises(w, c, p)
      PROVE  evidence' \subseteq Lines
  BY <1>0, <1>1, <1>2 DEF EmitRaises
<1> HIDE DEF Lines
<1>3. ASSUME NEW c \in Calls, Read(c) PROVE evidence' = evidence
  BY <1>3 DEF Read, adminVars
<1>4. CASE Serve
  <2> USE DEF EmitFailed
  <2>1. cur \in Calls \/ gw \in {"idle", "exited"}
    BY DEF IInv, TypeOK, ServerInv
  <2>2. ASSUME NEW w \in Events, EmitThen(w) \/ EmitRaises(w, cur, NoPrincipal), cur \in Calls
        PROVE  evidence' \subseteq Lines
    BY <1>0, <1>1, <1>2, <2>2 DEF EmitThen
  <2>3. {"initialize", "tool_call_proposed", "decision_made", "approval_required",
         "tool_call_blocked", "tool_call_executed", "tool_call_failed"} \subseteq Events
    BY DEF Events
  <2>4. CASE ServeSimple
    BY <1>0, <2>1, <2>2, <2>3, <2>4 DEF ServeSimple, Initialize, ListTools, InvalidName, InvalidParams, UnknownMethod
  <2>5. CASE Propose \/ Evaluate
    BY <2>1, <2>2, <2>3, <2>5 DEF Propose, Evaluate
  <2>6. CASE Refuse \/ Announce
    BY <2>1, <2>2, <2>3, <2>6 DEF Refuse, Announce
  <2>7. CASE Build \/ Insert \/ Arm \/ Wake \/ TimeOut \/ CollectDecision \/ Mark \/ Execute
    BY <1>0, <2>7 DEF Build, Insert, Arm, Wake, TimeOut, CollectDecision, Mark, Execute,
         adminVars
  <2>8. CASE Block \/ Record
    BY <2>1, <2>2, <2>3, <2>8 DEF Block, Record
  <2>9. CASE RecordFail
    BY <2>1, <2>2, <2>3, <2>9 DEF RecordFail
  <2> QED
    BY <1>4, <2>4, <2>5, <2>6, <2>7, <2>8, <2>9 DEF Serve
<1>5. CASE Exit \/ Tick \/ AdjustClock \/ UNCHANGED vars
  BY <1>0, <1>5 DEF Exit, Tick, AdjustClock, vars, adminVars
<1>6. ASSUME NEW t \in Threads, Admin(t) PROVE evidence' \subseteq Lines
  <2>1. at[t] \notin {"idle", "answered"} => Id(t) \in Calls /\ Decider(t) \in Principals
    BY DEF IInv, ThreadInv, Jobs, Id
  <2>2. CASE Reject(t)
    <3>1. RejectEvent(t) \in Events
      BY DEF RejectEvent, Events
    <3> QED
      BY <1>0, <1>1, <1>2, <2>1, <2>2, <3>1 DEF Reject
  <2>3. CASE Log(t)
    <3>1. LogEvent(t) \in Events
      BY DEF LogEvent, Events
    <3> QED
      BY <1>0, <1>1, <1>2, <2>1, <2>3, <3>1 DEF Log
  <2>4. CASE Lookup(t) \/ Decide(t) \/ Commit(t) \/ Reread(t) \/ Release(t)
    BY <1>0, <2>4 DEF Lookup, Decide, Commit, Reread, Release
  <2>5. ASSUME NEW j \in Jobs, Submit(t, j) PROVE evidence' = evidence
    BY <2>5 DEF Submit
  <2> QED
    BY <1>0, <1>6, <2>2, <2>3, <2>4, <2>5 DEF Admin, Handle
<1> QED
  BY <1>0, <1>3, <1>4, <1>5, <1>6 DEF Next

LEMMA ServerTypes ==
  ASSUME IInv, [Next]_vars
  PROVE  /\ gw' \in GwSteps
         /\ cur' \in Calls \cup {NoCall}
         /\ waitLeft' \in 0..TTL
         /\ outcome' \in Decisions \cup {"none", "timeout"}
         /\ reply' \in [Calls -> Answers \cup {"unread", "serving"}]
         /\ runs' \in [Calls -> Nat]
<1> USE StoreConstants
<1> USE DEF IInv, TypeOK
<1> DEFINE Typed == /\ gw' \in GwSteps
                    /\ cur' \in Calls \cup {NoCall}
                    /\ waitLeft' \in 0..TTL
                    /\ outcome' \in Decisions \cup {"none", "timeout"}
                    /\ reply' \in [Calls -> Answers \cup {"unread", "serving"}]
                    /\ runs' \in [Calls -> Nat]
<1>1. ASSUME NEW c \in Calls, Read(c) PROVE Typed
  BY <1>1 DEF Read, GwSteps
<1>2. CASE Serve
  <2>0. cur \in Calls \/ gw \in {"idle", "exited"}
    BY DEF ServerInv
  <2>1. ASSUME NEW r \in Answers, Finish(r), cur \in Calls
        PROVE  /\ gw' \in GwSteps
               /\ cur' \in Calls \cup {NoCall}
               /\ outcome' \in Decisions \cup {"none", "timeout"}
               /\ reply' \in [Calls -> Answers \cup {"unread", "serving"}]
    BY <2>1 DEF Finish, GwSteps, Answers
  <2>2. \A r \in {"result", "internal_error", "method_not_found", "denied", "blocked", "error"} :
          r \in Answers
    BY DEF Answers
  <2>3. CASE ServeSimple
    BY <2>0, <2>1, <2>2, <2>3 DEF ServeSimple, Initialize, ListTools, InvalidName, InvalidParams, UnknownMethod,
         EmitFailed
  <2>4. CASE Propose \/ Refuse \/ Announce
    BY <2>0, <2>1, <2>2, <2>4 DEF Propose, Refuse, Announce, EmitFailed, Proceed, GwSteps
  <2>5. CASE Evaluate
    <3>1. cur \in Calls
      BY <2>0, <2>5 DEF Evaluate
    <3>2. AfterDecision(Verdict(cur).action) \in GwSteps
      BY <3>1, VerdictTyped DEF AfterDecision, GwSteps, Actions
    <3> QED
      BY <2>1, <2>2, <2>5, <3>1, <3>2 DEF Evaluate, EmitFailed, Proceed
  <2>6. CASE Build \/ Insert \/ Arm \/ Wake \/ Mark
    BY <2>6 DEF Build, Insert, Arm, Wake, Mark, Proceed, GwSteps
  <2>7. CASE TimeOut
    BY <2>7 DEF TimeOut, GwSteps
  <2>8. CASE CollectDecision
    <3>1. cur \in Calls
      BY <2>0, <2>8 DEF CollectDecision
    <3>2. DecisionRead(cur) \in Decisions \cup {"none", "timeout"}
      BY <3>1 DEF DecisionRead, AdminTypeOK, StoreTypeOK
    <3> QED
      BY <2>8, <3>2 DEF CollectDecision, GwSteps
  <2>9. CASE Block \/ Record \/ RecordFail
    BY <2>0, <2>1, <2>2, <2>9 DEF Block, Record, RecordFail, EmitFailed, Proceed, GwSteps
  <2>10. CASE Execute
    <3>1. cur \in Calls
      BY <2>0, <2>10 DEF Execute
    <3>2. [runs EXCEPT ![cur] = @ + 1] \in [Calls -> Nat]
      BY <3>1
    <3> QED
      BY <2>10, <3>2 DEF Execute, Proceed, GwSteps
  <2> QED
    BY <1>2, <2>3, <2>4, <2>5, <2>6, <2>7, <2>8, <2>9, <2>10 DEF Serve
<1>3. CASE Exit
  BY <1>3 DEF Exit, GwSteps
<1>4. ASSUME NEW t \in Threads, Admin(t) PROVE Typed
  BY <1>4 DEF Admin, gwVars
<1>5. CASE Tick
  BY <1>5 DEF Tick
<1>6. CASE AdjustClock \/ UNCHANGED vars
  BY <1>6 DEF AdjustClock, vars, gwVars
<1> QED
  BY <1>1, <1>2, <1>3, <1>4, <1>5, <1>6 DEF Next

LEMMA TypeStep ==
  ASSUME IInv, [Next]_vars PROVE TypeOK'
BY ThreadTypes, EvidenceTypes, ServerTypes DEF TypeOK
------------------------------------------------------------------------------
(* Who decides.                                                            *)

(* Whether a principal may decide on a call is settled by its message.     *)
LEMMA MayDecideFixed ==
  ASSUME [Next]_vars, NEW p, NEW c PROVE MayDecide(p, c)' = MayDecide(p, c)
BY CallFixed DEF MayDecide, SodCheck, CapabilityCheck, Verdict

LEMMA EntitledNext ==
  ASSUME [Next]_vars,
         \A c \in Calls : decision'[c] \in Verdicts => MayDecide(approver'[c], c)
  PROVE  DecidedByEntitled'
BY CallFixed DEF DecidedByEntitled, MayDecide, SodCheck, CapabilityCheck, Verdict

LEMMA ThreadStep ==
  ASSUME IInv, [Next]_vars PROVE ThreadInv'
<1> USE NoSectionIsNone
<1> DEFINE Thread(t) == /\ at[t] # "idle" => job[t] \in Jobs
                        /\ at[t] \notin {"idle", "answered"} => Decider(t) \in Principals
                        /\ at[t] \in {"decide", "commit"} => MayDecide(Decider(t), Id(t))
           Holder == section # NoSection => MayDecide(section.by, section.id)
<1>0. (\A t \in Threads : Thread(t)) /\ Holder /\ DecidedByEntitled
  BY DEF IInv, ThreadInv
<1>t. /\ at \in [Threads -> Steps] /\ job \in [Threads -> Jobs \cup {NoJob}]
      /\ StoreTypeOK /\ StoreConsistent
  BY DEF IInv, TypeOK, AdminTypeOK
<1>1. CASE \A t \in Threads : ~Admin(t)
  <2>1. UNCHANGED <<threadVars, section, approver>>
    BY <1>1, ThreadsUndisturbed
  <2>2. \A t \in Threads : Thread(t)'
    BY <1>0, <2>1, MayDecideFixed DEF threadVars, Decider, Id
  <2>3. Holder'
    BY <1>0, <2>1, MayDecideFixed
  <2>4. ASSUME NEW c \in Calls, decision'[c] \in Verdicts PROVE MayDecide(approver'[c], c)
    <3>1. approver[c] # NoPrincipal
      BY <2>1, <2>4, StoreTypedInGateway DEF StoreConsistent
    <3>2. decision[c] \in Verdicts
      BY <1>t, <3>1 DEF StoreConsistent
    <3> QED
      BY <1>0, <2>1, <3>2 DEF DecidedByEntitled
  <2> QED
    BY <2>2, <2>3, <2>4, EntitledNext DEF ThreadInv, Decider, Id
<1>2. ASSUME NEW t \in Threads, Admin(t) PROVE ThreadInv'
  <2> USE <1>t DEF Goto, Answer
  <2>1. ASSUME UNCHANGED storeVars PROVE Holder' /\ DecidedByEntitled'
    BY <1>0, <2>1, MayDecideFixed DEF storeVars, DecidedByEntitled
  <2>2. ASSUME NEW u \in Threads, at'[u] = at[u], job'[u] = job[u] PROVE Thread(u)'
    BY <1>0, <2>2, MayDecideFixed DEF Decider, Id
  <2>3. ASSUME NEW j \in Jobs, Submit(t, j) PROVE ThreadInv'
    <3>1. ASSUME NEW u \in Threads, u # t PROVE at'[u] = at[u] /\ job'[u] = job[u]
      BY <2>3, <3>1 DEF Submit
    <3>2. job'[t] = j /\ at'[t] = IF Auth(j.token) = NoPrincipal THEN "answered" ELSE "lookup"
      BY <2>3 DEF Submit
    <3>3. Thread(t)'
      BY <3>2, AuthTyped DEF Decider
    <3>4. UNCHANGED storeVars
      BY <2>3 DEF Submit
    <3> QED
      BY <2>1, <2>2, <3>1, <3>3, <3>4 DEF ThreadInv
  <2>4. CASE Lookup(t)
    <3>1. ASSUME NEW u \in Threads, u # t PROVE at'[u] = at[u]
      BY <2>4, <3>1 DEF Lookup
    <3>2. job' = job /\ UNCHANGED storeVars
      BY <2>4 DEF Lookup
    <3>3. \/ at'[t] \in {"answered", "reject"}
          \/ at'[t] = "decide" /\ MayDecide(Decider(t), Id(t))
      BY <2>4 DEF Lookup
    <3>4. job[t] \in Jobs /\ Decider(t) \in Principals
      BY <1>0, <2>4 DEF Lookup
    <3>5. Thread(t)'
      BY <3>2, <3>3, <3>4, MayDecideFixed DEF Decider, Id
    <3> QED
      BY <2>1, <2>2, <3>1, <3>2, <3>5 DEF ThreadInv
  <2>5. CASE Reject(t) \/ Reread(t) \/ Log(t)
    <3>1. ASSUME NEW u \in Threads, u # t PROVE at'[u] = at[u]
      BY <2>5, <3>1 DEF Reject, Reread, Log
    <3>2. job' = job /\ UNCHANGED storeVars
      BY <2>5 DEF Reject, Reread, Log
    <3>3. at'[t] \in {"answered", "log"} /\ at[t] \notin {"idle", "answered"}
      BY <2>5 DEF Reject, Reread, Log
    <3>4. Thread(t)'
      BY <1>0, <3>2, <3>3 DEF Decider, Id
    <3> QED
      BY <2>1, <2>2, <3>1, <3>2, <3>4 DEF ThreadInv
  <2>6. CASE Decide(t)
    <3>1. ASSUME NEW u \in Threads, u # t PROVE at'[u] = at[u]
      BY <2>6, <3>1 DEF Decide
    <3>2. job' = job
      BY <2>6 DEF Decide
    <3>3. at'[t] \in {"commit", "reread"} /\ at[t] = "decide"
      BY <2>6 DEF Decide
    <3>4. Thread(t)'
      BY <1>0, <3>2, <3>3, MayDecideFixed DEF Decider, Id
    <3>5. Holder' /\ DecidedByEntitled'
      <4>1. CASE UNCHANGED storeVars
        BY <2>1, <4>1
      <4>2. CASE BeginDecision(t, Id(t), job[t].verdict, Decider(t))
        <5>1. section'.by = Decider(t) /\ section'.id = Id(t)
          BY <4>2 DEF BeginDecision, Enter
        <5>2. UNCHANGED <<decision, approver>>
          BY <4>2 DEF BeginDecision, Enter
        <5>3. MayDecide(Decider(t), Id(t))
          BY <1>0, <3>3
        <5> QED
          BY <1>0, <5>1, <5>2, <5>3, MayDecideFixed DEF DecidedByEntitled
      <4> QED
        BY <2>6, <4>1, <4>2 DEF Decide
    <3> QED
      BY <2>2, <3>1, <3>2, <3>4, <3>5 DEF ThreadInv
  <2>7. CASE Commit(t)
    <3>1. ASSUME NEW u \in Threads, u # t PROVE at'[u] = at[u]
      BY <2>7, <3>1 DEF Commit
    <3>2. job' = job
      BY <2>7 DEF Commit
    <3>3. at'[t] \in {"log", "reread"} /\ at[t] = "commit"
      BY <2>7 DEF Commit
    <3>4. Thread(t)'
      BY <1>0, <3>2, <3>3 DEF Decider, Id
    <3>5. section \in Sections /\ section # NoSection /\ section' = NoSection
      BY <2>7 DEF Commit, CommitDecision, StoreTypeOK
    <3>6. section.id \in Calls
      BY <3>5 DEF Sections
    <3>7. ASSUME NEW c \in Calls, decision'[c] \in Verdicts
          PROVE  MayDecide(approver'[c], c)
      <4>1. CASE c = section.id
        <5>1. section.live /\ approver'[c] = section.by
          BY <2>7, <3>6, <3>7, <4>1
          DEF Commit, CommitDecision, Settle, StoreTypeOK, Verdicts
        <5> QED
          BY <1>0, <3>5, <4>1, <5>1
      <4>2. CASE c # section.id
        <5>1. decision'[c] = decision[c] /\ approver'[c] = approver[c]
          BY <2>7, <4>2 DEF Commit, CommitDecision, Settle, StoreTypeOK
        <5> QED
          BY <1>0, <3>7, <5>1 DEF DecidedByEntitled
      <4> QED
        BY <4>1, <4>2
    <3> QED
      BY <2>2, <3>1, <3>2, <3>4, <3>5, <3>7, EntitledNext DEF ThreadInv
  <2>8. CASE Release(t)
    <3>1. ASSUME NEW u \in Threads, u # t PROVE at'[u] = at[u] /\ job'[u] = job[u]
      BY <2>8, <3>1 DEF Release
    <3>2. at'[t] = "idle" /\ UNCHANGED storeVars
      BY <2>8 DEF Release
    <3> QED
      BY <2>1, <2>2, <3>1, <3>2 DEF ThreadInv
  <2> QED
    BY <1>2, <2>3, <2>4, <2>5, <2>6, <2>7, <2>8 DEF Admin, Handle
<1> QED
  BY <1>1, <1>2
------------------------------------------------------------------------------
(* What the server thread knows.                                           *)

LEMMA VerdictFixed ==
  ASSUME [Next]_vars, NEW c PROVE Verdict(c)' = Verdict(c)
BY CallFixed DEF Verdict

LEMMA PermittedKept ==
  ASSUME IInv, [Next]_vars, NEW c \in Calls, Permitted(c) PROVE Permitted(c)'
<1>1. decision[c] = "approved" => decision'[c] = "approved"
  BY StoreStep, FinalStep DEF IInv, TypeOK, AdminTypeOK
<1> QED
  BY <1>1, VerdictFixed DEF Permitted

(* The reasons the server thread is where it is stay valid meanwhile.      *)
LEMMA ReasonsKept ==
  ASSUME IInv, [Next]_vars, cur \in Calls, UNCHANGED cur
  PROVE  /\ Verdict(cur)' = Verdict(cur)
         /\ decision[cur] = "approved" => decision'[cur] = "approved"
         /\ Permitted(cur) => Permitted(cur)'
<1>1. Verdict(cur)' = Verdict(cur)
  BY CallFixed DEF Verdict
<1>2. decision[cur] = "approved" => decision'[cur] = "approved"
  BY StoreStep, FinalStep DEF IInv, TypeOK, AdminTypeOK
<1> QED
  BY <1>1, <1>2 DEF Permitted

(* No record appears without the server building it for its call.          *)
LEMMA OnlyBuildAdds ==
  ASSUME IInv, [Next]_vars, NEW c \in Calls, status[c] = "absent", ~(Build /\ c = cur)
  PROVE  status'[c] = "absent"
<1> USE DEF IInv, TypeOK, AdminTypeOK, StoreTypeOK
<1>1. CASE Serve
  <2>1. CASE Build
    BY <2>1 DEF Build, BuildRecord
  <2>2. CASE Insert
    BY <2>2 DEF Insert, InsertRecord
  <2>3. CASE Mark
    BY <2>3 DEF Mark, MarkExecuted, Known
  <2>4. CASE ServeSimple \/ Propose \/ Evaluate \/ Refuse \/ Announce \/ Arm \/ Wake
    BY <2>4 DEF ServeSimple, Initialize, ListTools, InvalidName, InvalidParams, UnknownMethod,
         Propose, Evaluate, Refuse, Announce, Arm, Wake, storeVars
  <2>5. CASE TimeOut \/ CollectDecision \/ Block \/ Execute \/ Record \/ RecordFail
    BY <2>5 DEF TimeOut, CollectDecision, Block, Execute, Record, RecordFail,
         adminVars, storeVars
  <2> QED
    BY <1>1, <2>1, <2>2, <2>3, <2>4, <2>5 DEF Serve
<1>2. ASSUME NEW t \in Threads, Admin(t) PROVE status'[c] = "absent"
  <2>1. CASE Commit(t)
    <3>1. section.id # c
      BY <2>1 DEF Commit, CommitDecision, StoreConsistent
    <3> QED
      BY <2>1, <3>1 DEF Commit, CommitDecision, Settle
  <2>2. CASE Decide(t)
    BY <2>2 DEF Decide, BeginDecision, Enter, storeVars
  <2>3. CASE Lookup(t) \/ Reject(t) \/ Reread(t) \/ Log(t) \/ Release(t)
    BY <2>3 DEF Lookup, Reject, Reread, Log, Release, storeVars
  <2>4. ASSUME NEW j \in Jobs, Submit(t, j) PROVE status'[c] = "absent"
    BY <2>4 DEF Submit, storeVars
  <2> QED
    BY <1>2, <2>1, <2>2, <2>3, <2>4 DEF Admin, Handle
<1>3. ASSUME NEW d \in Calls, Read(d) PROVE status'[c] = "absent"
  BY <1>3 DEF Read, adminVars, storeVars
<1>4. CASE Exit \/ Tick \/ AdjustClock \/ UNCHANGED vars
  BY <1>4 DEF Exit, Tick, Age, AdjustClock, SetWallClock, vars, adminVars, storeVars
<1> QED
  BY <1>1, <1>2, <1>3, <1>4 DEF Next

(* What is left of CallInv when one knows how records appear.              *)
LEMMA CallInvNext ==
  ASSUME IInv, [Next]_vars,
         Build => Verdict(cur).action = "require_approval" /\ reply'[cur] # "unread",
         \A c \in Calls : reply'[c] = "unread" => reply[c] = "unread" /\ runs'[c] = runs[c],
         \A c \in Calls : runs'[c] > 0 => runs[c] > 0 \/ Permitted(c)
  PROVE  CallInv'
<1> SUFFICES ASSUME NEW c \in Calls
             PROVE  /\ reply'[c] = "unread" => status'[c] = "absent" /\ runs'[c] = 0
                    /\ status'[c] # "absent" => Verdict(c)'.action = "require_approval"
                    /\ runs'[c] > 0 => Permitted(c)'
  BY DEF CallInv
<1>1. reply'[c] = "unread" => status'[c] = "absent" /\ runs'[c] = 0
  BY OnlyBuildAdds DEF IInv, CallInv
<1>2. status'[c] # "absent" => Verdict(c).action = "require_approval"
  BY OnlyBuildAdds DEF IInv, CallInv
<1>3. runs'[c] > 0 => Permitted(c)'
  BY PermittedKept DEF IInv, CallInv
<1> QED
  BY <1>1, <1>2, <1>3, VerdictFixed

LEMMA ServerStep ==
  ASSUME IInv, [Next]_vars PROVE ServerInv' /\ CallInv'
<1> USE GatewayConstants
<1> USE DEF StepUpSteps
<1>t. /\ cur \in Calls \cup {NoCall} /\ gw \in GwSteps
      /\ runs \in [Calls -> Nat]
      /\ reply \in [Calls -> Answers \cup {"unread", "serving"}]
  BY DEF IInv, TypeOK
<1>s. gw \notin {"idle", "exited"} => cur \in Calls /\ reply[cur] = "serving"
  BY <1>t DEF IInv, ServerInv
<1>i. ServerInv /\ CallInv
  BY DEF IInv
<1>a. \A c \in Calls : Verdict(c).action \in Actions
  BY VerdictTyped DEF IInv, TypeOK
<1>f. ASSUME NEW r \in Answers, Finish(r), cur \in Calls, ~Build, UNCHANGED runs
      PROVE  ServerInv' /\ CallInv'
  <2>1. gw' = "idle" /\ cur' = NoCall
    BY <1>f DEF Finish
  <2>2. ServerInv'
    BY <2>1 DEF ServerInv
  <2>3. \A c \in Calls : reply'[c] = "unread" => reply[c] = "unread" /\ runs'[c] = runs[c]
    BY <1>f, <1>t DEF Finish, Answers
  <2> QED
    BY <1>f, <2>2, <2>3, CallInvNext
<1>p. ASSUME UNCHANGED <<cur, reply, runs>>, cur \in Calls, reply[cur] = "serving",
             gw' \notin {"idle", "exited"},
             gw' \in StepUpSteps => Verdict(cur).action = "require_approval",
             gw' = "mark" => decision'[cur] = "approved",
             gw' \in {"execute", "record", "recordfail"} => Permitted(cur),
             gw' \notin {"record", "recordfail"} => runs[cur] = 0,
             Build => Verdict(cur).action = "require_approval"
      PROVE  ServerInv' /\ CallInv'
  <2>3. ServerInv'
    BY <1>p, ReasonsKept DEF ServerInv
  <2>4. CallInv'
    BY <1>p, CallInvNext
  <2> QED
    BY <2>3, <2>4
<1>1. ASSUME NEW c \in Calls, Read(c) PROVE ServerInv' /\ CallInv'
  <2>1. cur' = c /\ gw' \in {"propose", "simple"} /\ reply'[c] = "serving" /\ runs[c] = 0
    BY <1>1, <1>t, <1>i DEF Read, CallInv
  <2>2. runs' = runs /\ ~Build
    BY <1>1 DEF Read, Build
  <2>3. ServerInv'
    BY <2>1, <2>2 DEF ServerInv
  <2>4. \A d \in Calls : reply'[d] = "unread" => reply[d] = "unread" /\ runs'[d] = runs[d]
    BY <1>1, <1>t, <2>2 DEF Read
  <2> QED
    BY <2>2, <2>3, <2>4, CallInvNext
<1>2. CASE Serve
  <2> USE <1>s
  <2>0. \A r \in {"result", "internal_error", "method_not_found", "denied", "blocked", "error"} :
          r \in Answers
    BY DEF Answers
  <2>1. CASE ServeSimple
    BY <1>f, <2>0, <2>1 DEF ServeSimple, Initialize, ListTools, InvalidName, InvalidParams, UnknownMethod,
         EmitFailed, Build
  <2>2. CASE Propose
    BY <1>f, <1>p, <1>i, <2>0, <2>2 DEF Propose, EmitFailed, Proceed, Build, ServerInv
  <2>3. CASE Evaluate
    <3>1. CASE EmitFailed("decision_made")
      BY <1>f, <2>0, <2>3, <3>1 DEF Evaluate, EmitFailed, Build
    <3>2. CASE Proceed(AfterDecision(Verdict(cur).action))
      <4>1. CASE Verdict(cur).action = "deny"
        BY <1>p, <1>i, <2>3, <3>2, <4>1 DEF Evaluate, Proceed, AfterDecision, Build, ServerInv
      <4>2. CASE Verdict(cur).action = "require_approval"
        BY <1>p, <1>i, <2>3, <3>2, <4>2 DEF Evaluate, Proceed, AfterDecision, Build, ServerInv
      <4>3. CASE Verdict(cur).action = "allow"
        BY <1>p, <1>i, <2>3, <3>2, <4>3
        DEF Evaluate, Proceed, AfterDecision, Build, ServerInv, Permitted
      <4> QED
        BY <1>a, <2>3, <4>1, <4>2, <4>3 DEF Evaluate, Actions
    <3> QED
      BY <2>3, <3>1, <3>2 DEF Evaluate
  <2>4. CASE Refuse \/ Block
    BY <1>f, <2>0, <2>4 DEF Refuse, Block, EmitFailed, Build
  <2>5. CASE Build
    BY <1>p, <1>i, <2>5 DEF Build, Proceed, ServerInv
  <2>6. CASE Insert \/ Arm \/ Wake
    BY <1>p, <1>i, <2>6 DEF Insert, Arm, Wake, Proceed, Build, ServerInv
  <2>7. CASE Announce
    BY <1>f, <1>p, <1>i, <2>0, <2>7 DEF Announce, EmitFailed, Proceed, Build, ServerInv
  <2>8. CASE TimeOut
    BY <1>p, <1>i, <2>8 DEF TimeOut, Build, ServerInv
  <2>9. CASE CollectDecision
    <3>1. gw' = "mark" => decision'[cur] = "approved"
      BY <2>9 DEF CollectDecision, DecisionRead, adminVars, storeVars
    <3> QED
      BY <1>p, <1>i, <2>9, <3>1 DEF CollectDecision, Build, ServerInv
  <2>10. CASE Mark
    BY <1>p, <1>i, <2>10 DEF Mark, Proceed, Build, ServerInv, Permitted
  <2>11. CASE Execute
    <3>1. cur' = cur /\ reply' = reply /\ gw' \in {"record", "recordfail"} /\ ~Build
      BY <2>11 DEF Execute, Proceed, Build
    <3>2. Permitted(cur) /\ Permitted(cur)' /\ cur \in Calls /\ reply[cur] = "serving"
      BY <1>i, <2>11, <3>1, ReasonsKept DEF Execute, ServerInv
    <3>3. \A c \in Calls : c # cur => runs'[c] = runs[c]
      BY <1>t, <2>11 DEF Execute
    <3>4. ServerInv'
      BY <3>1, <3>2 DEF ServerInv
    <3> QED
      BY <3>1, <3>2, <3>3, <3>4, CallInvNext
  <2>12. CASE Record
    BY <1>f, <1>p, <1>i, <2>0, <2>12 DEF Record, Proceed, Build, ServerInv
  <2>13. CASE RecordFail
    BY <1>f, <2>0, <2>13 DEF RecordFail, EmitFailed, Build
  <2> QED
    BY <1>2, <2>1, <2>2, <2>3, <2>4, <2>5, <2>6, <2>7, <2>8, <2>9, <2>10, <2>11, <2>12, <2>13
    DEF Serve
<1>3. CASE Exit
  <2>1. ServerInv'
    BY <1>3, <1>i DEF Exit, ServerInv
  <2> QED
    BY <1>3, <2>1, CallInvNext DEF Exit, Build
<1>4. ASSUME UNCHANGED gwVars, ~Build PROVE ServerInv' /\ CallInv'
  <2>1. CASE cur \in Calls
    <3>1. ServerInv'
      BY <1>4, <1>i, <2>1, ReasonsKept DEF gwVars, ServerInv
    <3> QED
      BY <1>4, <3>1, CallInvNext DEF gwVars
  <2>2. CASE cur = NoCall
    BY <1>4, <1>i, <2>2, CallInvNext DEF gwVars, ServerInv
  <2> QED
    BY <1>t, <2>1, <2>2
<1>5. ASSUME NEW t \in Threads, Admin(t) PROVE UNCHANGED gwVars
  BY <1>5 DEF Admin
<1>6. CASE Tick
  <2>1. UNCHANGED <<gw, cur, reply, runs>> /\ ~Build
    BY <1>6 DEF Tick, Build, Proceed
  <2>2. ServerInv'
    <3>1. CASE cur \in Calls
      BY <1>i, <2>1, <3>1, ReasonsKept DEF ServerInv
    <3>2. CASE cur = NoCall
      BY <1>i, <2>1, <3>2 DEF ServerInv
    <3> QED
      BY <1>t, <3>1, <3>2
  <2> QED
    BY <2>1, <2>2, CallInvNext
<1>7. UNCHANGED gwVars => ~Build
  BY DEF Build, Proceed, gwVars
<1>8. CASE AdjustClock \/ UNCHANGED vars
  BY <1>4, <1>7, <1>8 DEF AdjustClock, vars
<1> QED
  BY <1>1, <1>2, <1>3, <1>4, <1>5, <1>6, <1>7, <1>8 DEF Next
------------------------------------------------------------------------------
(* The invariant, and what follows from it.                                *)

LEMMA InitIInv == Init => IInv
<1> SUFFICES ASSUME Init PROVE IInv
  OBVIOUS
<1> USE StoreConstants, GatewayConstants
<1>1. StoreTypeOK
  BY DEF Init, AdminInit, StoreInit, StoreTypeOK, Statuses
<1>2. StoreConsistent
  BY DEF Init, AdminInit, StoreInit, StoreConsistent, Decisions, Verdicts
<1>3. TypeOK
  BY <1>1 DEF Init, AdminInit, SinkInit, TypeOK, AdminTypeOK, Steps, Statuses, GwSteps
<1>4. ThreadInv
  BY DEF Init, AdminInit, StoreInit, ThreadInv, DecidedByEntitled, Verdicts
<1>5. ServerInv /\ CallInv
  BY DEF Init, AdminInit, StoreInit, ServerInv, CallInv, StepUpSteps
<1> QED
  BY <1>2, <1>3, <1>4, <1>5 DEF IInv

LEMMA IInvStep == IInv /\ [Next]_vars => IInv'
BY TypeStep, StoreTypedInGateway, ThreadStep, ServerStep DEF IInv

THEOREM Inductive == Spec => []IInv
BY InitIInv, IInvStep, PTL DEF Spec

(* Every state of the gateway is well typed.                               *)
THEOREM GatewayTyped == Spec => []TypeOK
<1>1. IInv => TypeOK
  BY DEF IInv
<1> QED
  BY <1>1, Inductive, PTL

(* A tool runs only if policy allows the call, or requires an approval and *)
(* an entitled principal has given it (stdio_server.py:185-229), however   *)
(* waiter, admin threads, clocks and failing emits interleave.             *)
THEOREM RunsPermitted == Spec => []RunsOnlyIfPermitted
<1>1. IInv => RunsOnlyIfPermitted
  BY DEF IInv, CallInv, Permitted, ThreadInv, DecidedByEntitled, Verdicts, RunsOnlyIfPermitted
<1> QED
  BY <1>1, Inductive, PTL

(* Whoever decided was not the requestor and was within the capability     *)
(* main.py grants (api.py:67-87), although the checks run outside the lock *)
(* that the decision takes.                                                *)
THEOREM DecidersEntitled == Spec => []DecidedByEntitled
<1>1. IInv => DecidedByEntitled
  BY DEF IInv, ThreadInv
<1> QED
  BY <1>1, Inductive, PTL

(* An approval that is given while the server thread waits for it is not   *)
(* dropped: the wait does not time out under it, what is read back is the  *)
(* approval, and the call goes on to its tool (store.py:112-129,           *)
(* stdio_server.py:211-226).  That it gets there is left to the scheduler. *)
THEOREM ApprovalsNotDropped == Spec => ApprovalNotDropped
<1>1. ASSUME IInv, [Next]_vars, NEW c \in Calls, cur = c, decision[c] = "approved",
             gw \in {"waiting", "collect", "mark"}
      PROVE  cur' = c /\ (gw' = gw \/ <<gw, gw'>> \in OnwardToRun)
  <2>1. event[c]
    BY <1>1 DEF IInv, StoreConsistent
  <2>2. CASE Serve
    <3>1. Wake \/ CollectDecision \/ Mark
      BY <1>1, <2>1, <2>2 DEF Serve, ServeSimple, Initialize, ListTools, InvalidName,
         InvalidParams, UnknownMethod, Propose, Evaluate, Refuse, Build, Insert, Announce, Arm, TimeOut,
         Block, Execute, Record, RecordFail
    <3>2. CASE Wake \/ Mark
      BY <1>1, <3>2 DEF Wake, Mark, Proceed, OnwardToRun
    <3>3. CASE CollectDecision
      BY <1>1, <3>3 DEF CollectDecision, DecisionRead, OnwardToRun
    <3> QED
      BY <3>1, <3>2, <3>3
  <2>3. ASSUME NEW d \in Calls, Read(d) PROVE FALSE
    BY <1>1, <2>3 DEF Read
  <2>4. ASSUME NEW t \in Threads, Admin(t) PROVE gw' = gw /\ cur' = cur
    BY <2>4 DEF Admin, gwVars
  <2>5. CASE Exit
    BY <1>1, <2>5 DEF Exit
  <2>6. CASE Tick \/ AdjustClock \/ UNCHANGED vars
    BY <1>1, <2>6 DEF Tick, AdjustClock, vars, gwVars
  <2> QED
    BY <1>1, <2>2, <2>3, <2>4, <2>5, <2>6 DEF Next
<1>2. IInv /\ [Next]_vars =>
        [\A c \in Calls :
           cur = c /\ decision[c] = "approved" /\ gw \in {"waiting", "collect", "mark"} =>
             cur' = c /\ (gw' = gw \/ <<gw, gw'>> \in OnwardToRun)]_vars
  BY <1>1
<1> QED
  BY <1>2, Inductive, PTL DEF Spec, ApprovalNotDropped

(* The gateway keeps the contract of the store: what ApprovalStoreProofs   *)
(* proves of the store alone holds in the composed system.                 *)
THEOREM GatewayKeepsStore == Spec => StoreSpec
<1>1. Init => StoreInit
  BY DEF Init, AdminInit
<1>2. IInv /\ [Next]_vars => [StoreNext]_storeVars
  BY StoreStep
<1> QED
  BY <1>1, <1>2, Inductive, PTL DEF Spec, StoreSpec

(* In the composed gateway, too, the first decision on a call is the last. *)
THEOREM GatewayDecisionsFinal == Spec => DecisionFinal
BY GatewayKeepsStore, DecisionsFinal

(* In the composed gateway, too, no call is approved after its TTL.        *)
THEOREM GatewayNeverLate == ASSUME Forward PROVE Spec => NoLateApproval
BY GatewayKeepsStore, ApprovalNeverLate
------------------------------------------------------------------------------
(* The gateway implements the step-up contract.                            *)

LEMMA ContractInit == Init => Contract!Init
<1> SUFFICES ASSUME Init PROVE Contract!Init
  OBVIOUS
<1>1. ASSUME NEW c \in Calls PROVE Verdict(c).action \in {"allow", "deny", "require_approval"}
  BY <1>1, InitIInv, VerdictTyped DEF IInv, TypeOK, Actions
<1> QED
  BY <1>1 DEF Contract!Init, Init, AdminInit, StoreInit, Stage

(* What policy says of a call and who may decide on it never change.       *)
LEMMA ContractFixed ==
  ASSUME [Next]_vars
  PROVE  /\ [c \in Calls |-> Verdict(c).action]' = [c \in Calls |-> Verdict(c).action]
         /\ [c \in Calls |-> {p \in Principals : MayDecide(p, c)}]'
              = [c \in Calls |-> {p \in Principals : MayDecide(p, c)}]
BY CallFixed DEF Verdict, MayDecide, SodCheck, CapabilityCheck

LEMMA ContractStutter ==
  ASSUME [Next]_vars, UNCHANGED <<reply, decision, approver, runs>>
  PROVE  UNCHANGED Contract!vars
BY ContractFixed DEF Contract!vars, Stage

(* The server thread answers the call it serves.                           *)
LEMMA ContractClose ==
  ASSUME IInv, [Next]_vars, cur \in Calls, reply[cur] = "serving",
         NEW r \in Answers, Finish(r), UNCHANGED <<decision, approver, runs>>
  PROVE  Contract!Next
<1>1. \A c \in Calls : reply'[c] = IF c = cur THEN (IF cur \in Notifications THEN "silent" ELSE r)
                                   ELSE reply[c]
  BY DEF Finish, IInv, TypeOK
<1>2. [c \in Calls |-> Stage(c)]' = [[c \in Calls |-> Stage(c)] EXCEPT ![cur] = "closed"]
  BY <1>1 DEF Stage, Answers
<1>3. Stage(cur) = "open"
  BY DEF Stage
<1>4. Contract!Close(cur)
  BY <1>2, <1>3, ContractFixed DEF Contract!Close
<1> QED
  BY <1>4 DEF Contract!Next

(* A decision committed under the lock is the contract's Grant or Expire.  *)
LEMMA ContractDecide ==
  ASSUME IInv, [Next]_vars, NEW t \in Threads, CommitDecision(t), UNCHANGED <<reply, runs>>
  PROVE  Contract!Next
<1> USE NoSectionIsNone
<1> DEFINE c == section.id
<1>0. StoreTypeOK /\ StoreConsistent /\ ThreadInv /\ CallInv
  BY DEF IInv, TypeOK, AdminTypeOK
<1>1. section \in Sections /\ section # NoSection
  BY <1>0 DEF CommitDecision, StoreTypeOK
<1>2. c \in Calls /\ section.verdict \in Verdicts /\ section.by \in Principals
  BY <1>1 DEF Sections
<1>3. decision[c] = "none" /\ status[c] = "pending"
  BY <1>0, <1>1, CommitConsistent DEF StoreConsistent
<1>4. Verdict(c).action = "require_approval" /\ Stage(c) # "new"
  BY <1>0, <1>2, <1>3 DEF CallInv, Stage
<1>5. MayDecide(section.by, c)
  BY <1>0, <1>1 DEF ThreadInv
<1>6. [d \in Calls |-> Stage(d)]' = [d \in Calls |-> Stage(d)]
  BY DEF Stage
<1>7. CASE section.live
  <2>1. /\ decision' = [decision EXCEPT ![c] = section.verdict]
        /\ approver' = [approver EXCEPT ![c] = section.by]
    BY <1>7 DEF CommitDecision, Settle
  <2>2. Contract!Grant(c, section.verdict, section.by)
    BY <1>2, <1>3, <1>4, <1>5, <1>6, <2>1, ContractFixed DEF Contract!Grant
  <2> QED
    BY <1>2, <2>2 DEF Contract!Next, Verdicts
<1>8. CASE ~section.live
  <2>1. decision' = [decision EXCEPT ![c] = "expired"] /\ approver' = approver
    BY <1>0, <1>8 DEF CommitDecision, Settle, StoreTypeOK
  <2>2. Contract!Expire(c)
    BY <1>2, <1>3, <1>4, <1>6, <2>1, ContractFixed DEF Contract!Expire
  <2> QED
    BY <1>2, <2>2 DEF Contract!Next
<1> QED
  BY <1>7, <1>8

LEMMA ContractStep ==
  ASSUME IInv, [Next]_vars PROVE [Contract!Next]_(Contract!vars)
<1>0. /\ StoreTypeOK /\ StoreConsistent /\ ServerInv /\ CallInv
      /\ runs \in [Calls -> Nat]
      /\ reply \in [Calls -> Answers \cup {"unread", "serving"}]
      /\ gw \notin {"idle", "exited"} => cur \in Calls /\ reply[cur] = "serving"
  BY DEF IInv, TypeOK, AdminTypeOK, ServerInv
<1> DEFINE Quiet == UNCHANGED <<reply, decision, approver, runs>>
           Closed == /\ gw \notin {"idle", "exited"}
                     /\ \E r \in Answers : Finish(r)
                     /\ UNCHANGED <<decision, approver, runs>>
<1>q. CASE Quiet
  BY <1>q, ContractStutter
<1>c. CASE Closed
  BY <1>0, <1>c, ContractClose
<1>1. ASSUME NEW c \in Calls, Read(c) PROVE Contract!Next
  <2>1. [d \in Calls |-> Stage(d)]' = [[d \in Calls |-> Stage(d)] EXCEPT ![c] = "open"]
    BY <1>0, <1>1 DEF Read, Stage
  <2>2. Stage(c) = "new" /\ UNCHANGED <<decision, approver, runs>>
    BY <1>1 DEF Read, Stage, adminVars, storeVars
  <2>3. Contract!Open(c)
    BY <2>1, <2>2, ContractFixed DEF Contract!Open
  <2> QED
    BY <2>3 DEF Contract!Next
<1>2. CASE Serve
  <2>0. \A r \in {"result", "internal_error", "method_not_found", "denied", "blocked", "error"} :
          r \in Answers
    BY DEF Answers
  <2>1. CASE ServeSimple
    <3>1. Closed
      BY <2>0, <2>1 DEF ServeSimple, Initialize, ListTools, InvalidName, InvalidParams, UnknownMethod,
         EmitFailed, storeVars
    <3> QED
      BY <1>c, <3>1
  <2>2. CASE Propose \/ Evaluate \/ Announce
    <3>1. Quiet \/ Closed
      BY <2>0, <2>2 DEF Propose, Evaluate, Announce, EmitFailed, Proceed, storeVars
    <3> QED
      BY <1>q, <1>c, <3>1
  <2>3. CASE Refuse \/ Block \/ Record \/ RecordFail
    <3>1. Quiet \/ Closed
      BY <2>0, <2>3 DEF Refuse, Block, Record, RecordFail, EmitFailed, Proceed, storeVars
    <3> QED
      BY <1>q, <1>c, <3>1
  <2>4. CASE Build \/ Arm \/ Wake \/ TimeOut \/ CollectDecision \/ Mark
    <3>1. Quiet
      BY <2>4 DEF Build, BuildRecord, Arm, Wake, TimeOut, CollectDecision, Mark, MarkExecuted,
           Proceed, adminVars, storeVars
    <3> QED
      BY <1>q, <3>1
  <2>5. CASE Insert
    <3>1. cur \in Calls /\ decision[cur] = "none"
      BY <1>0, <2>5 DEF Insert, InsertRecord, StoreConsistent
    <3>2. decision' = decision
      BY <1>0, <2>5, <3>1 DEF Insert, InsertRecord, StoreTypeOK
    <3>3. Quiet
      BY <2>5, <3>2 DEF Insert, InsertRecord, Proceed
    <3> QED
      BY <1>q, <3>3
  <2>6. CASE Execute
    <3>1. CASE UNCHANGED runs
      <4>1. Quiet
        BY <2>6, <3>1 DEF Execute, Proceed, adminVars, storeVars
      <4> QED
        BY <1>q, <4>1
    <3>2. CASE runs' = [runs EXCEPT ![cur] = @ + 1]
      <4>1. cur \in Calls /\ runs[cur] = 0 /\ Stage(cur) = "open" /\ Permitted(cur)
        BY <1>0, <2>6 DEF Execute, ServerInv, Stage
      <4>2. runs' = [runs EXCEPT ![cur] = 1]
        BY <1>0, <3>2, <4>1
      <4>3. UNCHANGED <<reply, decision, approver>>
        BY <2>6 DEF Execute, Proceed, adminVars, storeVars
      <4>4. [d \in Calls |-> Stage(d)]' = [d \in Calls |-> Stage(d)]
        BY <4>3 DEF Stage
      <4>5. Contract!Run(cur)
        BY <4>1, <4>2, <4>3, <4>4, ContractFixed DEF Contract!Run, Permitted
      <4> QED
        BY <4>1, <4>5 DEF Contract!Next
    <3> QED
      BY <2>6, <3>1, <3>2 DEF Execute
  <2> QED
    BY <1>2, <2>1, <2>2, <2>3, <2>4, <2>5, <2>6 DEF Serve
<1>3. ASSUME NEW t \in Threads, Admin(t) PROVE [Contract!Next]_(Contract!vars)
  <2>1. UNCHANGED <<reply, runs>>
    BY <1>3 DEF Admin, gwVars
  <2>2. CASE Commit(t)
    BY <2>1, <2>2, ContractDecide DEF Commit
  <2>3. CASE Lookup(t) \/ Reject(t) \/ Decide(t) \/ Reread(t) \/ Log(t) \/ Release(t)
    <3>1. Quiet
      BY <2>1, <2>3 DEF Lookup, Reject, Decide, BeginDecision, Enter, Reread, Log, Release,
           storeVars
    <3> QED
      BY <1>q, <3>1
  <2>4. ASSUME NEW j \in Jobs, Submit(t, j) PROVE Quiet
    BY <2>1, <2>4 DEF Submit, storeVars
  <2> QED
    BY <1>3, <1>q, <2>2, <2>3, <2>4 DEF Admin, Handle
<1>4. CASE Exit \/ Tick \/ AdjustClock \/ UNCHANGED vars
  <2>1. Quiet
    BY <1>4 DEF Exit, Tick, Age, AdjustClock, SetWallClock, vars, gwVars, adminVars, storeVars
  <2> QED
    BY <1>q, <2>1
<1> QED
  BY <1>1, <1>2, <1>3, <1>4 DEF Next

(* The gateway implements the step-up contract: it opens, decides, runs    *)
(* and closes calls as StepUp.tla allows, whatever locks, events, clocks   *)
(* and failing evidence do in between.                                     *)
THEOREM GatewayImplementsContract == Spec => StepUpContract
<1>1. IInv /\ [Next]_vars => [Contract!Next]_(Contract!vars)
  BY ContractStep
<1> QED
  BY <1>1, ContractInit, Inductive, PTL DEF Spec, StepUpContract, Contract!Spec
==============================================================================
