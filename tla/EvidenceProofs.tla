---------------------------- MODULE EvidenceProofs ----------------------------
(***************************************************************************)
(* What the composed gateway answers and records, for any number of worker *)
(* threads and a sink that may fail at any line.  First the admin API: its *)
(* answers are true of the store, and of all the requests that race on a   *)
(* record the log holds at most one success.  Then the calls: nothing runs *)
(* before the log says why, and no answer goes out whose outcome the log   *)
(* does not hold.                                                          *)
(***************************************************************************)
EXTENDS GatewayProofs
------------------------------------------------------------------------------
(* The admin API.                                                          *)

(* The answer a thread has, or is about to give, is what the store holds.  *)
Truth(t) ==
  IF ok[t] THEN /\ decision[Id(t)] = job[t].verdict
                /\ approver[Id(t)] = Decider(t)
           ELSE /\ seen[t] \in Decisions \cup {"executed"}
                /\ DecisionRead(Id(t)) = IF seen[t] = "executed" THEN "approved" ELSE seen[t]

(* Whether the principal a thread serves may decide on the record at all.  *)
Entitled(t) == MayDecide(Decider(t), Id(t))

(* Inside its decision a thread owns the lock, for the request it serves.  *)
Owner(t) ==
  /\ section # NoSection
  /\ section.thread = t /\ section.id = Id(t)
  /\ section.verdict = job[t].verdict /\ section.by = Decider(t)

Knows(t) ==
  /\ at[t] = "commit" => Owner(t)
  /\ at[t] \notin {"log", "answered"} => ~ok[t]
  /\ at[t] # "answered" => code[t] = 0
  /\ at[t] = "decide" => Known(Id(t))
  /\ at[t] = "reject" => ~Entitled(t)
  /\ at[t] = "reread" => decision[Id(t)] # "none"
  /\ at[t] = "log" \/ code[t] = 200 \/ (code[t] = 500 /\ Entitled(t)) => Truth(t)

AcceptedEvents == {"approval_granted", "approval_denied"}

(* An accepted decision is in the log only after it is in the store. *)
LoggedAfter == \A e \in evidence : e.event \in AcceptedEvents => TrueOfStore(e)

(* Where no line can fail, every decision is in the log or owed to it. *)
Accounted ==
  ~SinkMayFail => \A c \in Calls : decision[c] \in Verdicts => Accepted(c) \cup Owed(c) # {}

(* At most one accepted decision, and a line that is written is owed no longer.  The *)
(* stronger form is needed because the lines and the threads that owe them *)
(* might, for all the constants say, be the same values.                   *)
WrittenOrOwed ==
  \A c \in Calls :
    /\ Accepted(c) = {} \/ Owed(c) = {}
    /\ \A x, y \in Accepted(c) : x = y
    /\ \A x, y \in Owed(c) : x = y

AdminInv == (\A t \in Threads : Knows(t)) /\ LoggedAfter /\ WrittenOrOwed /\ Accounted

LEMMA Typed ==
  ASSUME IInv
  PROVE  /\ StoreTypeOK /\ StoreConsistent
         /\ at \in [Threads -> Steps]
         /\ job \in [Threads -> Jobs \cup {NoJob}]
         /\ ok \in [Threads -> BOOLEAN]
         /\ seen \in [Threads -> Statuses]
         /\ code \in [Threads -> {0, 200, 401, 403, 404, 500}]
         /\ \A t \in Threads :
              at[t] # "idle" => job[t] \in Jobs /\ Id(t) \in Calls /\ job[t].verdict \in Verdicts
BY DEF IInv, TypeOK, AdminTypeOK, ThreadInv, Jobs, Id

(* Who a thread serves, and what it may do, is settled by its request.     *)
LEMMA SameRequest ==
  ASSUME [Next]_vars, NEW t, job'[t] = job[t]
  PROVE  Id(t)' = Id(t) /\ Decider(t)' = Decider(t) /\ Entitled(t)' = Entitled(t)
BY CallFixed DEF Entitled, MayDecide, SodCheck, CapabilityCheck, Verdict, Id, Decider, Auth

(* A decision, once taken, is there to stay: the store's own theorem.      *)
LEMMA Stays ==
  ASSUME IInv, [Next]_vars, NEW c \in Calls, decision[c] # "none"
  PROVE  decision'[c] = decision[c] /\ approver'[c] = approver[c]
BY StoreStep, FinalStep, Typed

(* A record that is in the store is never taken out. *)
LEMMA StaysKnown ==
  ASSUME IInv, [Next]_vars, NEW c \in Calls, Known(c) PROVE Known(c)'
<1> USE Typed DEF StoreTypeOK, Known
<1>1. [StoreNext]_storeVars
  BY StoreStep
<1>2. ASSUME NEW d \in Calls, BuildRecord(d) \/ InsertRecord(d) \/ MarkExecuted(d) PROVE Known(c)'
  BY <1>2 DEF BuildRecord, InsertRecord, MarkExecuted
<1>3. ASSUME NEW t \in Threads, CommitDecision(t) PROVE Known(c)'
  BY <1>3 DEF CommitDecision, Settle, Sections, Verdicts
<1>4. ASSUME NEW t, NEW d, NEW v, NEW p, BeginDecision(t, d, v, p) PROVE Known(c)'
  BY <1>4 DEF BeginDecision, Enter
<1>5. CASE Age \/ UNCHANGED storeVars
  BY <1>5 DEF Age, storeVars
<1>6. ASSUME NEW d, SetWallClock(d) PROVE Known(c)'
  BY <1>6 DEF SetWallClock
<1> QED
  BY <1>1, <1>2, <1>3, <1>4, <1>5, <1>6 DEF StoreNext

(* What a thread knows outlives the steps of everybody else.               *)
LEMMA KnowsKept ==
  ASSUME IInv, [Next]_vars, NEW t \in Threads, Knows(t),
         at'[t] = at[t], job'[t] = job[t], ok'[t] = ok[t], seen'[t] = seen[t], code'[t] = code[t],
         at[t] = "commit" => section' = section
  PROVE  Knows(t)'
<1>1. Id(t)' = Id(t) /\ Decider(t)' = Decider(t) /\ Entitled(t)' = Entitled(t)
  BY SameRequest
<1>2. at[t] = "commit" => Owner(t)'
  BY <1>1 DEF Knows, Owner
<1>3. at[t] = "reread" => decision'[Id(t)] # "none"
  BY Typed, Stays DEF Knows
<1>k. at[t] = "decide" => Known(Id(t))'
  BY <1>1, Typed, StaysKnown DEF Knows
<1>4. CASE at[t] = "log" \/ code[t] = 200 \/ (code[t] = 500 /\ Entitled(t))
  <2>1. Truth(t) /\ at[t] # "idle" /\ Id(t) \in Calls /\ job[t].verdict \in Verdicts
    BY <1>4, Typed DEF Knows
  <2>2. decision[Id(t)] # "none"
    BY <2>1 DEF Truth, Verdicts, Decisions, DecisionRead
  <2>3. decision'[Id(t)] = decision[Id(t)] /\ approver'[Id(t)] = approver[Id(t)]
    BY <2>1, <2>2, Stays
  <2>4. Truth(t)'
    BY <1>1, <2>1, <2>3 DEF Truth, DecisionRead
  <2> QED
    BY <1>1, <1>2, <1>3, <1>k, <2>4 DEF Knows
<1> QED
  BY <1>1, <1>2, <1>3, <1>k, <1>4 DEF Knows
------------------------------------------------------------------------------
(* The log.                                                                *)

(* The lines that are in the log stay true of the store. *)
LEMMA LinesTrue ==
  ASSUME IInv, LoggedAfter, [Next]_vars, NEW e \in evidence, e.event \in AcceptedEvents
  PROVE  TrueOfStore(e)'
<1>1. e.call \in Calls /\ TrueOfStore(e)
  BY DEF IInv, TypeOK, LoggedAfter
<1>2. decision'[e.call] = decision[e.call] /\ approver'[e.call] = approver[e.call]
  BY <1>1, Stays DEF TrueOfStore
<1> QED
  BY <1>1, <1>2 DEF TrueOfStore

(* Nothing but a thread that leaves its decision's lock takes a decision.  *)
LEMMA DecidedInLock ==
  ASSUME IInv, [Next]_vars, section' = section, NEW c \in Calls, decision'[c] \in Verdicts
  PROVE  decision[c] \in Verdicts
<1> USE Typed DEF StoreTypeOK
<1>1. [StoreNext]_storeVars
  BY StoreStep
<1>2. ASSUME NEW d \in Calls, BuildRecord(d) \/ InsertRecord(d) \/ MarkExecuted(d)
      PROVE  decision[c] \in Verdicts
  BY <1>2 DEF BuildRecord, InsertRecord, MarkExecuted, Verdicts
<1>3. ASSUME NEW t \in Threads, CommitDecision(t) PROVE FALSE
  BY <1>3 DEF CommitDecision
<1>4. ASSUME NEW t, NEW d, NEW v, NEW p, BeginDecision(t, d, v, p) PROVE decision' = decision
  BY <1>4 DEF BeginDecision, Enter
<1>5. CASE Age \/ UNCHANGED storeVars
  BY <1>5 DEF Age, storeVars
<1>6. ASSUME NEW d, SetWallClock(d) PROVE decision' = decision
  BY <1>6 DEF SetWallClock
<1> QED
  BY <1>1, <1>2, <1>3, <1>4, <1>5, <1>6 DEF StoreNext

(* Steps that neither add an accepted decision to the log, nor owe one.    *)
LEMMA AcceptKept ==
  ASSUME IInv, [Next]_vars, LoggedAfter, WrittenOrOwed,
         \A e \in evidence' : e.event \in AcceptedEvents => e \in evidence,
         \A t \in Threads : at'[t] = "log" /\ ok'[t] =>
                              at[t] = "log" /\ ok[t] /\ job'[t] = job[t]
  PROVE  LoggedAfter' /\ WrittenOrOwed'
<1>1. LoggedAfter'
  BY LinesTrue DEF LoggedAfter
<1>2. ASSUME NEW c \in Calls PROVE Accepted(c)' \subseteq Accepted(c) /\ Owed(c)' \subseteq Owed(c)
  BY <1>2 DEF Accepted, Owed, AcceptedEvents, Id
<1> QED
  BY <1>1, <1>2 DEF WrittenOrOwed

(* Steps that take no decision and pay no debt.                            *)
LEMMA AccountKept ==
  ASSUME Accounted, evidence \subseteq evidence',
         \A c \in Calls : decision'[c] \in Verdicts => decision[c] \in Verdicts,
         \A t \in Threads : ~SinkMayFail /\ at[t] = "log" /\ ok[t] =>
                              at'[t] = "log" /\ ok'[t] /\ job'[t] = job[t]
  PROVE  Accounted'
<1>1. ASSUME ~SinkMayFail, NEW c \in Calls
      PROVE  Accepted(c) \subseteq Accepted(c)' /\ Owed(c) \subseteq Owed(c)'
  BY <1>1 DEF Accepted, Owed, Id
<1> QED
  BY <1>1 DEF Accounted

(* Only a thread of the admin API writes of accepted decisions. *)
LEMMA ServerLogs ==
  ASSUME IInv, [Next]_vars, \A t \in Threads : ~Admin(t)
  PROVE  \A e \in evidence' : e.event \in AcceptedEvents => e \in evidence
<1>1. ASSUME NEW w, w \notin AcceptedEvents, EmitThen(w) \/ EmitRaises(w, cur, NoPrincipal)
      PROVE  \A e \in evidence' : e.event \in AcceptedEvents => e \in evidence
  BY <1>1 DEF EmitThen, EmitRaises, Emit
<1>2. {"initialize", "tool_call_proposed", "decision_made", "approval_required",
       "tool_call_blocked", "tool_call_executed", "tool_call_failed"} \cap AcceptedEvents = {}
  BY DEF AcceptedEvents
<1>3. CASE Serve
  <2> USE DEF EmitFailed
  <2>1. CASE ServeSimple
    BY <1>1, <1>2, <2>1 DEF ServeSimple, Initialize, ListTools, InvalidName, InvalidParams, UnknownMethod
  <2>2. CASE Propose \/ Evaluate
    BY <1>1, <1>2, <2>2 DEF Propose, Evaluate
  <2>3. CASE Refuse \/ Announce
    BY <1>1, <1>2, <2>3 DEF Refuse, Announce
  <2>4. CASE Block \/ Record
    BY <1>1, <1>2, <2>4 DEF Block, Record
  <2>5. CASE RecordFail
    BY <1>1, <1>2, <2>5 DEF RecordFail
  <2>6. CASE Build \/ Insert \/ Arm \/ Wake \/ TimeOut \/ CollectDecision \/ Mark \/ Execute
    BY <2>6 DEF Build, Insert, Arm, Wake, TimeOut, CollectDecision, Mark, Execute, adminVars
  <2> QED
    BY <1>3, <2>1, <2>2, <2>3, <2>4, <2>5, <2>6 DEF Serve
<1>4. ASSUME NEW c \in Calls, Read(c) PROVE evidence' = evidence
  BY <1>4 DEF Read, adminVars
<1>5. CASE Exit \/ Tick \/ AdjustClock \/ UNCHANGED vars
  BY <1>5 DEF Exit, Tick, AdjustClock, vars, adminVars
<1> QED
  BY <1>3, <1>4, <1>5 DEF Next

LEMMA LogGrows == ASSUME [Next]_vars PROVE evidence \subseteq evidence'
<1>1. \A w, c, p : Emit(w, c, p) => evidence \subseteq evidence'
  BY DEF Emit
<1>2. \A w, c, p : EmitRaises(w, c, p) => evidence \subseteq evidence'
  BY <1>1 DEF EmitRaises
<1>3. CASE Serve
  <2> USE DEF EmitFailed, EmitThen
  <2>1. CASE ServeSimple
    BY <1>1, <1>2, <2>1 DEF ServeSimple, Initialize, ListTools, InvalidName, InvalidParams, UnknownMethod
  <2>2. CASE Propose \/ Evaluate \/ Refuse \/ Announce
    BY <1>1, <1>2, <2>2 DEF Propose, Evaluate, Refuse, Announce
  <2>3. CASE Block \/ Record \/ RecordFail
    BY <1>1, <1>2, <2>3 DEF Block, Record, RecordFail
  <2>4. CASE Build \/ Insert \/ Arm \/ Wake \/ TimeOut \/ CollectDecision \/ Mark \/ Execute
    BY <2>4 DEF Build, Insert, Arm, Wake, TimeOut, CollectDecision, Mark, Execute, adminVars
  <2> QED
    BY <1>3, <2>1, <2>2, <2>3, <2>4 DEF Serve
<1>4. ASSUME NEW t \in Threads, Admin(t) PROVE evidence \subseteq evidence'
  BY <1>1, <1>2, <1>4
  DEF Admin, Handle, Lookup, Reject, Decide, Commit, Reread, Log, Release, Submit
<1>5. (\E c \in Calls : Read(c)) \/ Exit \/ Tick \/ AdjustClock \/ UNCHANGED vars
      => evidence' = evidence
  BY DEF Read, Exit, Tick, AdjustClock, vars, adminVars
<1> QED
  BY <1>3, <1>4, <1>5 DEF Next
------------------------------------------------------------------------------
(* One thread moves.                                                       *)

LEMMA OthersStand ==
  ASSUME IInv, NEW t \in Threads, Admin(t), NEW u \in Threads, u # t, Knows(u)
  PROVE  /\ at'[u] = at[u] /\ job'[u] = job[u] /\ ok'[u] = ok[u]
         /\ seen'[u] = seen[u] /\ code'[u] = code[u]
         /\ at[u] = "commit" => section' = section
<1> USE DEF Goto, Answer
<1>0. at[u] = "commit" => section # NoSection /\ section.thread = u
  BY DEF Knows, Owner
<1>1. CASE Commit(t)
  BY <1>0, <1>1, Typed DEF Commit, CommitDecision
<1>2. CASE Decide(t)
  BY <1>0, <1>2, Typed DEF Decide, BeginDecision, Enter, LockFree, storeVars
<1>3. CASE Lookup(t) \/ Reject(t) \/ Reread(t) \/ Log(t) \/ Release(t)
  BY <1>3, Typed DEF Lookup, Reject, Reread, Log, Release, storeVars
<1>4. ASSUME NEW j \in Jobs, Submit(t, j)
      PROVE  /\ at'[u] = at[u] /\ job'[u] = job[u] /\ ok'[u] = ok[u]
             /\ seen'[u] = seen[u] /\ code'[u] = code[u]
             /\ at[u] = "commit" => section' = section
  BY <1>4, Typed DEF Submit, storeVars
<1> QED
  BY <1>1, <1>2, <1>3, <1>4 DEF Admin, Handle

(* The thread that moves, when it decides nothing, leaves no new line and  *)
(* owed none.                                                              *)
LEMMA PlainStep ==
  ASSUME IInv, AdminInv, [Next]_vars, NEW t \in Threads, Admin(t), Knows(t)',
         \A e \in evidence' : e.event \in AcceptedEvents => e \in evidence,
         at'[t] # "log" \/ ~ok'[t],
         ~SinkMayFail => at[t] # "log" \/ ~ok[t],
         \A c \in Calls : decision'[c] \in Verdicts => decision[c] \in Verdicts
  PROVE  AdminInv'
<1>1. \A u \in Threads : u # t => /\ at'[u] = at[u] /\ job'[u] = job[u] /\ ok'[u] = ok[u]
                                  /\ seen'[u] = seen[u] /\ code'[u] = code[u]
                                  /\ at[u] = "commit" => section' = section
  BY OthersStand DEF AdminInv
<1>2. \A u \in Threads : Knows(u)'
  BY <1>1, KnowsKept DEF AdminInv
<1>3. LoggedAfter' /\ WrittenOrOwed'
  BY <1>1, AcceptKept DEF AdminInv
<1>4. Accounted'
  BY <1>1, LogGrows, AccountKept DEF AdminInv
<1> QED
  BY <1>2, <1>3, <1>4 DEF AdminInv

(* A decision that is committed is the first on its record, so no other is *)
(* in the log or owed to it.                                               *)
LEMMA CommitStep ==
  ASSUME IInv, AdminInv, [Next]_vars, NEW t \in Threads, Admin(t), Commit(t)
  PROVE  AdminInv'
<1> DEFINE c == Id(t)
<1>0. /\ Knows(t) /\ at[t] = "commit" /\ Owner(t)
      /\ c \in Calls /\ job[t].verdict \in Verdicts /\ section.id = c
  BY Typed DEF AdminInv, Commit, Knows, Owner
<1>1. CommitDecision(t) /\ decision[c] = "none"
  BY <1>0, Typed, CommitConsistent DEF Commit
<1>2. /\ job' = job /\ evidence' = evidence /\ code' = code
      /\ ok'[t] = section.live
  BY Typed DEF Commit
<1>3. Id(t)' = c /\ Decider(t)' = Decider(t)
  BY <1>2, SameRequest
<1>4. CASE ~section.live
  <2>1. at'[t] = "reread" /\ decision'[c] = "expired"
    BY <1>0, <1>1, <1>4, Typed DEF Commit, CommitDecision, Settle, Goto, StoreTypeOK
  <2>2. Knows(t)'
    BY <1>0, <1>2, <1>3, <1>4, <2>1 DEF Knows
  <2>3. \A d \in Calls : decision'[d] \in Verdicts => decision[d] \in Verdicts
    BY <1>0, <1>1, <1>4, Typed DEF CommitDecision, Settle, StoreTypeOK, Verdicts
  <2> QED
    BY <1>0, <1>2, <2>1, <2>2, <2>3, PlainStep
<1>5. CASE section.live
  <2>1. /\ at'[t] = "log" /\ ok'[t]
        /\ decision'[c] = job[t].verdict /\ approver'[c] = Decider(t)
    BY <1>0, <1>1, <1>2, <1>5, Typed
    DEF Commit, CommitDecision, Settle, Goto, StoreTypeOK, Owner
  <2>2. Truth(t)'
    BY <1>2, <1>3, <2>1 DEF Truth
  <2>3. Knows(t)'
    BY <1>0, <1>2, <2>1, <2>2 DEF Knows
  <2>4. \A u \in Threads : u # t => /\ at'[u] = at[u] /\ job'[u] = job[u] /\ ok'[u] = ok[u]
                                    /\ seen'[u] = seen[u] /\ code'[u] = code[u]
                                    /\ at[u] = "commit" => section' = section
    BY OthersStand DEF AdminInv
  <2>5. \A u \in Threads : Knows(u)'
    BY <2>3, <2>4, KnowsKept DEF AdminInv
  <2>6. LoggedAfter'
    BY <1>2, LinesTrue DEF AdminInv, LoggedAfter
  <2>7. Accepted(c) = {} /\ Owed(c) = {}
    <3>1. Accepted(c) = {}
      BY <1>1 DEF AdminInv, LoggedAfter, TrueOfStore, Accepted, AcceptedEvents
    <3>2. ASSUME NEW u \in Owed(c) PROVE FALSE
      <4>1. u \in Threads /\ at[u] = "log" /\ ok[u] /\ Id(u) = c
        BY <3>2 DEF Owed
      <4>2. decision[c] = job[u].verdict /\ job[u].verdict \in Verdicts
        BY <4>1, Typed DEF AdminInv, Knows, Truth
      <4> QED
        BY <1>1, <4>2 DEF Verdicts
    <3> QED
      BY <3>1, <3>2
  <2>8. ASSUME NEW d \in Calls
        PROVE  /\ Accepted(d)' = Accepted(d)
               /\ Owed(d)' = IF d = c THEN {t} ELSE Owed(d)
    <3>1. Accepted(d)' = Accepted(d)
      BY <1>2 DEF Accepted
    <3>2. \A u \in Threads : u \in Owed(d)' <=> IF u = t THEN d = c ELSE u \in Owed(d)
      BY <1>2, <1>3, <2>1, <2>4 DEF Owed, Id
    <3>3. t \notin Owed(d)
      BY <1>0 DEF Owed
    <3>4. Owed(d)' \subseteq Threads /\ Owed(d) \subseteq Threads
      BY DEF Owed
    <3> QED
      BY <2>7, <3>1, <3>2, <3>3, <3>4
  <2>9. WrittenOrOwed'
    <3> HIDE DEF c
    <3>1. ASSUME NEW d \in Calls
          PROVE  /\ Accepted(d)' = {} \/ Owed(d)' = {}
                 /\ \A x, y \in Accepted(d)' : x = y
                 /\ \A x, y \in Owed(d)' : x = y
      BY <2>7, <2>8 DEF AdminInv, WrittenOrOwed
    <3> QED
      BY <3>1 DEF WrittenOrOwed
  <2>10. Accounted'
    <3>1. \A d \in Calls : d # c => decision'[d] = decision[d]
      BY <1>0, <1>1, Typed DEF CommitDecision, Settle, StoreTypeOK
    <3> HIDE DEF c
    <3> QED
      BY <2>8, <3>1 DEF AdminInv, Accounted
  <2> QED
    BY <2>5, <2>6, <2>9, <2>10 DEF AdminInv
<1>6. section.live \in BOOLEAN
  BY <1>0, Typed DEF Owner, StoreTypeOK, Sections
<1> QED
  BY <1>4, <1>5, <1>6

(* The line about an accepted decision replaces the debt of the thread.    *)
LEMMA LogAccepted ==
  ASSUME IInv, AdminInv, [Next]_vars, NEW t \in Threads, Admin(t), Log(t), ok[t], Knows(t)',
         NEW w \in AcceptedEvents, w = LogEvent(t), Emit(w, Id(t), Decider(t))
  PROVE  AdminInv'
<1> DEFINE c == Id(t)
           line == [event |-> w, call |-> c, by |-> Decider(t)]
<1>1. /\ c \in Calls /\ job[t].verdict \in Verdicts /\ at[t] = "log" /\ Truth(t)
  BY Typed DEF AdminInv, Knows, Log
<1>2. evidence' = evidence \cup {line} /\ UNCHANGED storeVars /\ at'[t] = "answered"
  BY Typed DEF Emit, Log, Answer, Goto
<1>3. line.event \in AcceptedEvents /\ line.call = c /\ TrueOfStore(line)
  BY <1>1 DEF Truth, TrueOfStore, LogEvent, Verdicts
<1> HIDE DEF line
<1>4. \A u \in Threads : u # t => /\ at'[u] = at[u] /\ job'[u] = job[u] /\ ok'[u] = ok[u]
                                  /\ seen'[u] = seen[u] /\ code'[u] = code[u]
                                  /\ at[u] = "commit" => section' = section
  BY OthersStand DEF AdminInv
<1>5. \A u \in Threads : Knows(u)'
  BY <1>4, KnowsKept DEF AdminInv
<1>6. LoggedAfter'
  <2>1. UNCHANGED <<decision, approver>>
    BY <1>2 DEF storeVars
  <2>2. ASSUME NEW e \in evidence', e = line PROVE TrueOfStore(e)'
    BY <1>3, <2>1, <2>2 DEF TrueOfStore
  <2>3. ASSUME NEW e \in evidence, e.event \in AcceptedEvents PROVE TrueOfStore(e)'
    BY <2>3, LinesTrue DEF AdminInv
  <2>4. \A e \in evidence' : e \in evidence \/ e = line
    BY <1>2
  <2> QED
    BY <2>2, <2>3, <2>4 DEF LoggedAfter
<1>7. t \in Owed(c)
  BY <1>1 DEF Owed
<1>8. Owed(c) = {t} /\ Accepted(c) = {}
  BY <1>1, <1>7 DEF AdminInv, WrittenOrOwed
<1>9. ASSUME NEW d \in Calls
      PROVE  IF d = c THEN Accepted(d)' = {line} /\ Owed(d)' = {}
             ELSE Accepted(d)' = Accepted(d) /\ Owed(d)' \subseteq Owed(d)
  <2>1. Owed(d)' \subseteq Owed(d) \ {t}
    BY <1>2, <1>4 DEF Owed, Id
  <2>2. Accepted(d)' = Accepted(d) \cup IF d = c THEN {line} ELSE {}
    BY <1>2, <1>3 DEF Accepted, AcceptedEvents
  <2> QED
    BY <1>8, <2>1, <2>2
<1>10. WrittenOrOwed'
  <2> HIDE DEF c
  <2>1. ASSUME NEW d \in Calls
        PROVE  /\ Accepted(d)' = {} \/ Owed(d)' = {}
               /\ \A x, y \in Accepted(d)' : x = y
               /\ \A x, y \in Owed(d)' : x = y
    BY <1>9 DEF AdminInv, WrittenOrOwed
  <2> QED
    BY <2>1 DEF WrittenOrOwed
<1>11. Accounted'
  <2>1. decision' = decision
    BY <1>2 DEF storeVars
  <2>2. \A d \in Calls : d # c => Owed(d)' = Owed(d)
    BY <1>2, <1>4 DEF Owed, Id
  <2> HIDE DEF c
  <2> QED
    BY <1>9, <2>1, <2>2 DEF AdminInv, Accounted
<1> QED
  BY <1>5, <1>6, <1>10, <1>11 DEF AdminInv

LEMMA LogStep ==
  ASSUME IInv, AdminInv, [Next]_vars, NEW t \in Threads, Admin(t), Log(t)
  PROVE  AdminInv'
<1>1. Knows(t) /\ at[t] = "log" /\ Truth(t)
  BY DEF AdminInv, Knows, Log
<1>2. /\ UNCHANGED storeVars /\ job' = job /\ ok' = ok /\ seen' = seen
      /\ at'[t] = "answered"
  BY Typed DEF Log, Answer, Goto
<1>3. Knows(t)'
  <2>1. Truth(t)'
    BY <1>1, <1>2, SameRequest DEF Truth, storeVars, DecisionRead
  <2> QED
    BY <1>1, <1>2, <2>1 DEF Knows
<1>4. CASE SinkMayFail /\ evidence' = evidence
  BY <1>2, <1>3, <1>4, PlainStep DEF storeVars
<1>5. CASE Emit(LogEvent(t), Id(t), Decider(t))
  <2>1. CASE ok[t]
    BY <1>3, <1>5, <2>1, LogAccepted DEF LogEvent, AcceptedEvents
  <2>2. CASE ~ok[t]
    <3>1. LogEvent(t) \notin AcceptedEvents
      BY <2>2 DEF LogEvent, AcceptedEvents
    <3>2. \A e \in evidence' : e.event \in AcceptedEvents => e \in evidence
      BY <1>5, <3>1 DEF Emit
    <3> QED
      BY <1>2, <1>3, <2>2, <3>2, PlainStep DEF storeVars
  <2> QED
    BY <2>1, <2>2
<1> QED
  BY <1>4, <1>5 DEF Log, EmitRaises

(* The status that is read again explains why the decision failed.         *)
LEMMA RereadStep ==
  ASSUME IInv, AdminInv, [Next]_vars, NEW t \in Threads, Admin(t), Reread(t)
  PROVE  AdminInv'
<1> DEFINE c == Id(t)
<1>1. /\ Knows(t) /\ at[t] = "reread" /\ ~ok[t] /\ code[t] = 0
      /\ c \in Calls /\ decision[c] # "none"
  BY Typed DEF AdminInv, Knows, Reread
<1>2. /\ UNCHANGED <<storeVars, evidence, job, ok, code>>
      /\ at'[t] = "log" /\ seen'[t] = status[c]
  BY Typed DEF Reread, Goto
<1>3. /\ status[c] \in Decisions \cup {"executed"}
      /\ status[c] \in Decisions => decision[c] = status[c]
      /\ status[c] = "executed" => decision[c] = "approved"
  BY <1>1, Typed DEF StoreTypeOK, StoreConsistent, Statuses
<1>4. Truth(t)'
  BY <1>1, <1>2, <1>3 DEF Truth, DecisionRead, Id, storeVars, Decisions, Verdicts
<1>5. Knows(t)'
  BY <1>1, <1>2, <1>4 DEF Knows
<1> QED
  BY <1>1, <1>2, <1>5, PlainStep DEF storeVars

LEMMA DecideStep ==
  ASSUME IInv, AdminInv, [Next]_vars, NEW t \in Threads, Admin(t), Decide(t)
  PROVE  AdminInv'
<1> DEFINE c == Id(t)
<1>1. /\ Knows(t) /\ at[t] = "decide" /\ Known(c) /\ ~ok[t] /\ code[t] = 0 /\ c \in Calls
      /\ Decider(t) \in Principals /\ job[t].verdict \in Verdicts
  BY Typed DEF AdminInv, Knows, Decide, IInv, ThreadInv
<1>2. UNCHANGED <<evidence, job, ok, seen, code>>
  BY DEF Decide
<1>3. Id(t)' = c /\ Decider(t)' = Decider(t)
  BY <1>2, SameRequest
<1>4. CASE BeginDecision(t, c, job[t].verdict, Decider(t)) /\ at'[t] = "commit"
  <2> DEFINE holder == [thread |-> t, id |-> c, verdict |-> job[t].verdict,
                        by |-> Decider(t), live |-> ~Expired(c)]
  <2>1. section' = holder
    BY <1>4 DEF BeginDecision, Enter
  <2>2. holder \in Sections
    BY <1>1 DEF Sections, Expired
  <2>3. Owner(t)'
    BY <1>2, <1>3, <2>1, <2>2, NoSectionIsNone DEF Owner
  <2>4. Knows(t)'
    BY <1>1, <1>2, <1>4, <2>3 DEF Knows
  <2>5. decision' = decision
    BY <1>4 DEF BeginDecision, Enter
  <2> QED
    BY <1>1, <1>2, <1>4, <2>4, <2>5, PlainStep
<1>5. CASE AlreadyDecided(c) /\ at'[t] = "reread" /\ UNCHANGED storeVars
  <2>1. decision[c] # "none"
    BY <1>1, <1>5, Typed
    DEF Known, AlreadyDecided, StoreTypeOK, StoreConsistent, Statuses, Decisions, Verdicts
  <2>2. Knows(t)'
    BY <1>1, <1>2, <1>3, <1>5, <2>1 DEF Knows, storeVars
  <2> QED
    BY <1>1, <1>2, <1>5, <2>2, PlainStep DEF storeVars
<1> QED
  BY <1>4, <1>5, Typed DEF Decide, Goto

LEMMA LookupStep ==
  ASSUME IInv, AdminInv, [Next]_vars, NEW t \in Threads, Admin(t), Lookup(t)
  PROVE  AdminInv'
<1>1. Knows(t) /\ at[t] = "lookup" /\ ~ok[t] /\ code[t] = 0
  BY DEF AdminInv, Knows, Lookup
<1>2. UNCHANGED <<storeVars, evidence, job, ok, seen>>
  BY DEF Lookup
<1>3. \/ at'[t] = "answered" /\ code'[t] = 404
      \/ at'[t] = "reject" /\ code'[t] = 0 /\ ~Entitled(t)
      \/ at'[t] = "decide" /\ code'[t] = 0 /\ Known(Id(t))
  BY <1>1, Typed DEF Lookup, Answer, Goto, Entitled
<1>4. Knows(t)'
  BY <1>1, <1>2, <1>3, SameRequest DEF Knows, Known, storeVars
<1> QED
  BY <1>1, <1>2, <1>3, <1>4, PlainStep DEF storeVars

LEMMA RejectStep ==
  ASSUME IInv, AdminInv, [Next]_vars, NEW t \in Threads, Admin(t), Reject(t)
  PROVE  AdminInv'
<1>1. Knows(t) /\ at[t] = "reject" /\ ~ok[t] /\ code[t] = 0
  BY DEF AdminInv, Knows, Reject
<1>2. /\ UNCHANGED <<storeVars, job, ok, seen>>
      /\ at'[t] = "answered" /\ code'[t] \in {403, 500}
  BY Typed DEF Reject, Answer, Goto
<1>3. \A e \in evidence' : e.event \in AcceptedEvents => e \in evidence
  BY DEF Reject, RejectEvent, Emit, EmitRaises, AcceptedEvents
<1>4. ~Entitled(t)'
  BY <1>1, <1>2, SameRequest DEF Knows
<1>5. Knows(t)'
  BY <1>1, <1>2, <1>4 DEF Knows
<1> QED
  BY <1>1, <1>2, <1>3, <1>5, PlainStep DEF storeVars

LEMMA SubmitStep ==
  ASSUME IInv, AdminInv, [Next]_vars, NEW t \in Threads, Admin(t), NEW j \in Jobs, Submit(t, j)
  PROVE  AdminInv'
<1>1. Knows(t) /\ at[t] = "idle" /\ ~ok[t] /\ code[t] = 0
  BY DEF AdminInv, Knows, Submit
<1>2. /\ UNCHANGED <<storeVars, evidence, ok, seen>>
      /\ \/ at'[t] = "answered" /\ code'[t] = 401
         \/ at'[t] = "lookup" /\ code'[t] = 0
  BY <1>1, Typed DEF Submit, Answer, Goto
<1>3. Knows(t)'
  BY <1>1, <1>2 DEF Knows
<1> QED
  BY <1>1, <1>2, <1>3, PlainStep DEF storeVars

LEMMA ReleaseStep ==
  ASSUME IInv, AdminInv, [Next]_vars, NEW t \in Threads, Admin(t), Release(t)
  PROVE  AdminInv'
<1>1. /\ UNCHANGED <<storeVars, evidence>>
      /\ at'[t] = "idle" /\ ok'[t] = FALSE /\ code'[t] = 0
  BY Typed DEF Release, Goto
<1>2. Knows(t)'
  BY <1>1 DEF Knows
<1> QED
  BY <1>1, <1>2, PlainStep DEF storeVars, Release
------------------------------------------------------------------------------
LEMMA AdminStart == Init => AdminInv
<1> SUFFICES ASSUME Init PROVE AdminInv
  OBVIOUS
<1>1. \A t \in Threads : Knows(t)
  BY DEF Init, AdminInit, Knows
<1>2. LoggedAfter /\ WrittenOrOwed
  BY DEF Init, AdminInit, SinkInit, LoggedAfter, WrittenOrOwed, Accepted, Owed
<1>3. Accounted
  BY DEF Init, AdminInit, StoreInit, Accounted, Verdicts
<1> QED
  BY <1>1, <1>2, <1>3 DEF AdminInv

LEMMA AdminStep == IInv /\ AdminInv /\ [Next]_vars => AdminInv'
<1> SUFFICES ASSUME IInv, AdminInv, [Next]_vars PROVE AdminInv'
  OBVIOUS
<1>1. ASSUME NEW t \in Threads, Admin(t) PROVE AdminInv'
  <2>1. ASSUME NEW j \in Jobs, Submit(t, j) PROVE AdminInv'
    BY <1>1, <2>1, SubmitStep
  <2> QED
    BY <1>1, <2>1, LookupStep, RejectStep, DecideStep, CommitStep, RereadStep, LogStep, ReleaseStep
    DEF Admin, Handle
<1>2. CASE \A t \in Threads : ~Admin(t)
  <2>1. UNCHANGED <<threadVars, section, approver>>
    BY <1>2, ThreadsUndisturbed
  <2>2. \A t \in Threads : Knows(t)'
    BY <2>1, KnowsKept DEF AdminInv, threadVars
  <2>3. LoggedAfter' /\ WrittenOrOwed'
    BY <1>2, <2>1, ServerLogs, AcceptKept DEF AdminInv, threadVars
  <2>4. Accounted'
    BY <2>1, LogGrows, DecidedInLock, AccountKept DEF AdminInv, threadVars
  <2> QED
    BY <2>2, <2>3, <2>4 DEF AdminInv
<1> QED
  BY <1>1, <1>2

LEMMA AdminAlways == Spec => []AdminInv
BY AdminStart, AdminStep, Inductive, PTL DEF Spec

(* What an entitled request is answered is true of the store, although the *)
(* status of a failed decision is read outside the lock, after other       *)
(* threads may have run; also when the answer is a 500, because the sink   *)
(* failed after the decision had been taken (admin/api.py).                *)
THEOREM AnswersTrue == Spec => []AnswerTruthful
<1>1. AdminInv => AnswerTruthful
  BY DEF AdminInv, Knows, Truth, Entitled, AnswerTruthful
<1> QED
  BY <1>1, AdminAlways, PTL

(* However many requests race on a record, the log holds one success for   *)
(* it or is owed one, never more; the line says what the store holds, and  *)
(* a decision that took effect has one unless the sink failed              *)
(* (admin/api.py, approval/store.py).                                      *)
THEOREM AcceptedOnce == Spec => []OneAcceptedDecision
<1>1. ASSUME AdminInv, NEW c \in Calls
      PROVE  /\ \A x, y \in Accepted(c) \cup Owed(c) : x = y
             /\ \A e \in Accepted(c) : TrueOfStore(e)
             /\ decision[c] \in Verdicts /\ ~SinkMayFail => Accepted(c) \cup Owed(c) # {}
  <2>1. \A x, y \in Accepted(c) \cup Owed(c) : x = y
    BY <1>1 DEF AdminInv, WrittenOrOwed
  <2>2. \A e \in Accepted(c) : TrueOfStore(e)
    BY <1>1 DEF AdminInv, LoggedAfter, Accepted, AcceptedEvents
  <2>3. decision[c] \in Verdicts /\ ~SinkMayFail => Accepted(c) \cup Owed(c) # {}
    BY <1>1 DEF AdminInv, Accounted
  <2> QED
    BY <2>1, <2>2, <2>3
<1>2. AdminInv => OneAcceptedDecision
  BY <1>1 DEF OneAcceptedDecision
<1> QED
  BY <1>2, AdminAlways, PTL
------------------------------------------------------------------------------
(* The calls.                                                              *)

OutcomeEvents == {"tool_call_blocked", "tool_call_executed", "tool_call_failed"}

CallEvents == OutcomeEvents \cup
  {"initialize", "tool_call_proposed", "decision_made", "approval_required"}

(* What the log holds of a call while the server thread serves it: all     *)
(* that led to the step it is at.                                          *)
Led(c) ==
  /\ gw = "simple" <=> ~IsCall(c)
  /\ gw \notin {"simple", "propose"} => Recorded("tool_call_proposed", c)
  /\ gw \notin {"simple", "propose", "evaluate"} => Recorded("decision_made", c)
  /\ \/ gw \in {"arm", "waiting", "collect", "mark"}
     \/ gw \in {"execute", "record", "recordfail"} /\ Verdict(c).action = "require_approval"
     => Recorded("approval_required", c)
  /\ gw = "record" => runs[c] > 0
  /\ gw \in {"refuse", "block"} => runs[c] = 0

Open(c) == reply[c] \in {"unread", "serving"}

(* Until it is answered the log tells no outcome of a call - but for one   *)
(* that is going to be told as a failure because the line about its        *)
(* execution raised after it was written.                                  *)
OutcomeOpen(c) ==
  /\ ~Recorded("tool_call_blocked", c) /\ ~Recorded("tool_call_failed", c)
  /\ Recorded("tool_call_executed", c) => cur = c /\ gw = "recordfail"

(* EvidenceBeforeRun and OutcomeRecorded of one call. *)
RunLogged(c) ==
  runs[c] > 0 => /\ Recorded("tool_call_proposed", c)
                 /\ Recorded("decision_made", c)
                 /\ Verdict(c).action = "require_approval" => Recorded("approval_required", c)

AnswerLogged(c) ==
  /\ reply[c] = "result" => Recorded("tool_call_executed", c) /\ ~Recorded("tool_call_failed", c)
  /\ reply[c] \in {"denied", "blocked"} => Recorded("tool_call_blocked", c)
  /\ reply[c] = "error" => Recorded("tool_call_failed", c)
  /\ Recorded("tool_call_blocked", c) => runs[c] = 0
  /\ Recorded("tool_call_executed", c) => runs[c] > 0

CallLogged(c) ==
  /\ cur = c => Led(c)
  /\ Open(c) /\ IsCall(c) => OutcomeOpen(c)
  /\ RunLogged(c)
  /\ IsCall(c) => AnswerLogged(c)

LogInv == \A c \in Calls : CallLogged(c)
------------------------------------------------------------------------------
LEMMA Served ==
  ASSUME IInv
  PROVE  /\ gw \in GwSteps
         /\ runs \in [Calls -> Nat]
         /\ reply \in [Calls -> Answers \cup {"unread", "serving"}]
         /\ cur = NoCall <=> gw \in {"idle", "exited"}
         /\ gw \notin {"idle", "exited"} => cur \in Calls /\ reply[cur] = "serving"
         /\ gw \notin {"idle", "exited", "record", "recordfail"} => runs[cur] = 0
BY DEF IInv, TypeOK, ServerInv

LEMMA Fixed ==
  ASSUME [Next]_vars, NEW c
  PROVE  IsCall(c)' = IsCall(c) /\ Verdict(c)' = Verdict(c)
BY CallFixed DEF IsCall, Verdict

(* What a line adds to the log, and that it adds nothing else. *)
LEMMA LineAdded ==
  ASSUME NEW w, NEW d, NEW p, Emit(w, d, p)
  PROVE  \A e, c : Recorded(e, c)' <=> Recorded(e, c) \/ (e = w /\ c = d)
<1> DEFINE line == [event |-> w, call |-> d, by |-> p]
<1>1. evidence' = evidence \cup {line} /\ line.event = w /\ line.call = d
  BY DEF Emit
<1> HIDE DEF line
<1> SUFFICES ASSUME NEW e, NEW c
             PROVE  Recorded(e, c)' <=> Recorded(e, c) \/ (e = w /\ c = d)
  OBVIOUS
<1>2. Recorded(e, c)' => Recorded(e, c) \/ (e = w /\ c = d)
  BY <1>1 DEF Recorded
<1>3. Recorded(e, c) \/ (e = w /\ c = d) => Recorded(e, c)'
  BY <1>1 DEF Recorded
<1> QED
  BY <1>2, <1>3

LEMMA NoLineAdded ==
  ASSUME evidence' = evidence PROVE \A e, c : Recorded(e, c)' <=> Recorded(e, c)
BY DEF Recorded

(* A call that a step does not serve keeps its log, and so its guarantees. *)
LEMMA LoggedKept ==
  ASSUME [Next]_vars, NEW c \in Calls, CallLogged(c),
         \A e \in CallEvents : Recorded(e, c)' <=> Recorded(e, c),
         reply'[c] = reply[c], runs'[c] = runs[c],
         cur' = c <=> cur = c, cur = c => gw' = gw
  PROVE  CallLogged(c)'
<1>1. IsCall(c)' = IsCall(c) /\ Verdict(c)' = Verdict(c)
  BY Fixed
<1>2. {"tool_call_proposed", "decision_made", "approval_required"} \subseteq CallEvents
      /\ OutcomeEvents \subseteq CallEvents
  BY DEF CallEvents
<1>3. {"tool_call_blocked", "tool_call_executed", "tool_call_failed"} = OutcomeEvents
  BY DEF OutcomeEvents
<1>4. RunLogged(c)'
  BY <1>1, <1>2 DEF CallLogged, RunLogged
<1>5. IsCall(c)' => AnswerLogged(c)'
  BY <1>1, <1>2, <1>3 DEF CallLogged, AnswerLogged
<1>6. Open(c)' /\ IsCall(c)' => OutcomeOpen(c)'
  BY <1>1, <1>2, <1>3 DEF CallLogged, Open, OutcomeOpen
<1>7. cur' = c => Led(c)'
  BY <1>1, <1>2 DEF CallLogged, Led
<1> QED
  BY <1>4, <1>5, <1>6, <1>7 DEF CallLogged
------------------------------------------------------------------------------
(* The call that is served.                                                *)

(* It is answered, after the line about its outcome or after a failure. *)
LEMMA AnswerStep ==
  ASSUME IInv, [Next]_vars, NEW c \in Calls, CallLogged(c), cur = c, NEW r \in Answers, Finish(r),
         UNCHANGED runs, NEW w, \A e \in CallEvents : Recorded(e, c)' <=> Recorded(e, c) \/ e = w,
         IsCall(c) => \/ r = "result" /\ w = "tool_call_executed" /\ runs[c] > 0
                      \/ r \in {"denied", "blocked"} /\ w = "tool_call_blocked" /\ runs[c] = 0
                      \/ r = "error" /\ w = "tool_call_failed"
                      \/ /\ r = "internal_error" /\ w # "tool_call_executed"
                         /\ w = "tool_call_blocked" => runs[c] = 0
  PROVE  CallLogged(c)'
<1>1. IsCall(c)' = IsCall(c) /\ Verdict(c)' = Verdict(c)
  BY Fixed
<1>2. reply[c] = "serving" /\ cur' # c
  BY Served, GatewayConstants DEF Finish
<1>3. reply'[c] \in {"silent", r} /\ ~Open(c)'
  BY Served DEF Finish, Open, Answers
<1>4. IsCall(c) => /\ ~Recorded("tool_call_blocked", c)
                   /\ ~Recorded("tool_call_failed", c)
                   /\ Recorded("tool_call_executed", c) => runs[c] > 0
  BY <1>2 DEF CallLogged, AnswerLogged, Open, OutcomeOpen
<1>5. {"tool_call_proposed", "decision_made", "approval_required",
       "tool_call_blocked", "tool_call_executed", "tool_call_failed"} \subseteq CallEvents
  BY DEF CallEvents, OutcomeEvents
<1>6. RunLogged(c)'
  BY <1>1, <1>5 DEF CallLogged, RunLogged
<1>7. IsCall(c)' => AnswerLogged(c)'
  BY <1>1, <1>3, <1>4, <1>5 DEF AnswerLogged
<1> QED
  BY <1>2, <1>3, <1>6, <1>7 DEF CallLogged

(* It goes on to a step that the log has led to, its outcome still open. *)
LEMMA OnwardStep ==
  ASSUME IInv, [Next]_vars, NEW c \in Calls, CallLogged(c), cur = c, cur' = c, UNCHANGED reply,
         NEW w, \A e \in CallEvents : Recorded(e, c)' <=> Recorded(e, c) \/ e = w,
         \/ w \notin OutcomeEvents
         \/ w = "tool_call_executed" /\ gw' = "recordfail" /\ runs'[c] > 0,
         runs'[c] = runs[c] \/ gw = "execute",
         gw # "recordfail", Led(c)'
  PROVE  CallLogged(c)'
<1>1. IsCall(c)' = IsCall(c) /\ Verdict(c)' = Verdict(c)
  BY Fixed
<1>2. reply[c] = "serving" /\ reply'[c] = "serving"
  BY Served, GatewayConstants
<1>3. OutcomeEvents \subseteq CallEvents
      /\ {"tool_call_proposed", "decision_made", "approval_required"} \subseteq CallEvents
      /\ {"tool_call_blocked", "tool_call_executed", "tool_call_failed"} = OutcomeEvents
  BY DEF CallEvents, OutcomeEvents
<1>o. IsCall(c) => \A e \in OutcomeEvents : ~Recorded(e, c)
  BY <1>2, <1>3 DEF CallLogged, Open, OutcomeOpen
<1>4. IsCall(c)' => OutcomeOpen(c)' /\ (Recorded("tool_call_executed", c)' => runs'[c] > 0)
  BY <1>1, <1>3, <1>o DEF OutcomeOpen
<1>5. IsCall(c)' => AnswerLogged(c)'
  BY <1>2, <1>4 DEF AnswerLogged, OutcomeOpen
<1>6. RunLogged(c)'
  <2>1. CASE runs'[c] = runs[c]
    BY <1>1, <1>3, <2>1 DEF CallLogged, RunLogged
  <2>2. CASE gw = "execute"
    BY <1>1, <1>3, <2>2 DEF CallLogged, RunLogged, Led
  <2> QED
    BY <2>1, <2>2
<1> QED
  BY <1>4, <1>5, <1>6 DEF CallLogged

(* The line about a step, or nothing when the sink fails.                  *)
LEMMA OwnLine ==
  ASSUME NEW w, EmitThen(w), NEW c, cur = c
  PROVE  \A e \in CallEvents : Recorded(e, c)' <=> Recorded(e, c) \/ e = w
BY LineAdded DEF EmitThen

LEMMA NoLine ==
  ASSUME evidence' = evidence, NEW c
  PROVE  \A e \in CallEvents : Recorded(e, c)' <=> Recorded(e, c) \/ e = "none"
<1>1. "none" \notin CallEvents
  BY DEF CallEvents, OutcomeEvents
<1> QED
  BY <1>1, NoLineAdded

(* An emit that raises has written the line, or has not.                   *)
LEMMA SinkFails ==
  ASSUME IInv, [Next]_vars, NEW c \in Calls, CallLogged(c), cur = c, NEW what, EmitFailed(what),
         what # "tool_call_executed", what = "tool_call_blocked" => runs[c] = 0, UNCHANGED runs
  PROVE  CallLogged(c)'
<1>1. Finish("internal_error") /\ "internal_error" \in Answers
  BY DEF EmitFailed, Answers
<1>2. CASE evidence' = evidence
  BY <1>1, <1>2, NoLine, AnswerStep
<1>3. CASE EmitThen(what)
  <2>1. \A e \in CallEvents : Recorded(e, c)' <=> Recorded(e, c) \/ e = what
    BY <1>3, OwnLine
  <2> QED
    BY <1>1, <2>1, AnswerStep
<1> QED
  BY <1>2, <1>3 DEF EmitFailed, EmitRaises, EmitThen

LEMMA SimpleLogged ==
  ASSUME IInv, [Next]_vars, NEW c \in Calls, CallLogged(c), cur = c, ServeSimple
  PROVE  CallLogged(c)'
<1>1. ~IsCall(c) /\ UNCHANGED runs
  BY DEF ServeSimple, Initialize, ListTools, InvalidName, InvalidParams, UnknownMethod, CallLogged, Led
<1>2. {"result", "internal_error", "method_not_found"} \subseteq Answers
  BY DEF Answers
<1>3. CASE Initialize
  BY <1>1, <1>2, <1>3, OwnLine, AnswerStep, SinkFails DEF Initialize
<1>4. CASE ListTools \/ InvalidName \/ InvalidParams \/ UnknownMethod
  BY <1>1, <1>2, <1>4, NoLine, AnswerStep DEF ListTools, InvalidName, InvalidParams, UnknownMethod
<1> QED
  BY <1>3, <1>4 DEF ServeSimple

LEMMA ServedLogged ==
  ASSUME IInv, [Next]_vars, NEW c \in Calls, CallLogged(c), cur = c, Serve
  PROVE  CallLogged(c)'
<1>1. IsCall(c)' = IsCall(c) /\ Verdict(c)' = Verdict(c) /\ Led(c)
  BY Fixed DEF CallLogged
<1>2. {"result", "denied", "blocked", "error"} \subseteq Answers
  BY DEF Answers
<1>3. {"none", "tool_call_proposed", "decision_made", "approval_required"} \cap OutcomeEvents = {}
      /\ {"tool_call_proposed", "decision_made", "approval_required"} \subseteq CallEvents
  BY DEF CallEvents, OutcomeEvents
<1>4. gw = "simple" <=> ~IsCall(c)
  BY <1>1 DEF Led
<1>5. CASE ServeSimple
  BY <1>5, SimpleLogged
<1>6. CASE Propose
  <2>1. CASE EmitFailed("tool_call_proposed")
    BY <1>6, <2>1, SinkFails DEF Propose
  <2>2. CASE EmitThen("tool_call_proposed") /\ Proceed("evaluate")
    <3>1. \A e \in CallEvents : Recorded(e, c)' <=> Recorded(e, c) \/ e = "tool_call_proposed"
      BY <2>2, OwnLine
    <3>2. Led(c)'
      BY <1>1, <1>3, <1>4, <1>6, <2>2, <3>1 DEF Propose, Proceed, Led
    <3> QED
      BY <1>3, <1>6, <2>2, <3>1, <3>2, OnwardStep DEF Propose, Proceed
  <2> QED
    BY <1>6, <2>1, <2>2 DEF Propose
<1>7. CASE Evaluate
  <2>1. CASE EmitFailed("decision_made")
    BY <1>7, <2>1, SinkFails DEF Evaluate
  <2>2. CASE EmitThen("decision_made") /\ Proceed(AfterDecision(Verdict(cur).action))
    <3>1. \A e \in CallEvents : Recorded(e, c)' <=> Recorded(e, c) \/ e = "decision_made"
      BY <2>2, OwnLine
    <3>2. Verdict(c).action \in Actions /\ runs[c] = 0
      BY <1>7, VerdictTyped, Served DEF Evaluate, IInv, TypeOK
    <3>3. \/ gw' = "refuse" \/ gw' = "build"
          \/ gw' = "execute" /\ Verdict(c).action # "require_approval"
      BY <2>2, <3>2 DEF Proceed, AfterDecision, Actions
    <3>4. Led(c)'
      BY <1>1, <1>3, <1>4, <1>7, <3>1, <3>2, <3>3 DEF Evaluate, Led
    <3> QED
      BY <1>3, <1>7, <2>2, <3>1, <3>4, OnwardStep DEF Evaluate, Proceed
  <2> QED
    BY <1>7, <2>1, <2>2 DEF Evaluate
<1>8. CASE Refuse
  <2>1. runs[c] = 0
    BY <1>1, <1>8 DEF Refuse, Led
  <2> QED
    BY <1>2, <1>8, <2>1, OwnLine, AnswerStep, SinkFails DEF Refuse
<1>9. CASE Block
  <2>1. runs[c] = 0
    BY <1>1, <1>9 DEF Block, Led
  <2> QED
    BY <1>2, <1>9, <2>1, OwnLine, AnswerStep, SinkFails DEF Block
<1>10. CASE Announce
  <2>1. CASE EmitFailed("approval_required")
    BY <1>10, <2>1, SinkFails DEF Announce
  <2>2. CASE EmitThen("approval_required") /\ Proceed("arm")
    <3>1. \A e \in CallEvents : Recorded(e, c)' <=> Recorded(e, c) \/ e = "approval_required"
      BY <2>2, OwnLine
    <3>2. Led(c)'
      BY <1>1, <1>3, <1>4, <1>10, <2>2, <3>1 DEF Announce, Proceed, Led
    <3> QED
      BY <1>3, <1>10, <2>2, <3>1, <3>2, OnwardStep DEF Announce, Proceed
  <2> QED
    BY <1>10, <2>1, <2>2 DEF Announce
<1>11. CASE Build \/ Insert \/ Arm \/ Wake \/ TimeOut \/ CollectDecision \/ Mark
  <2>1. UNCHANGED <<evidence, cur, reply, runs>> /\ gw # "recordfail"
    BY <1>11 DEF Build, Insert, Arm, Wake, TimeOut, CollectDecision, Mark, Proceed, adminVars
  <2>2. \A e \in CallEvents : Recorded(e, c)' <=> Recorded(e, c) \/ e = "none"
    BY <2>1, NoLine
  <2>3. Led(c)'
    <3>1. CASE Build \/ Insert
      BY <1>1, <1>3, <1>4, <2>1, <2>2, <3>1 DEF Build, Insert, Proceed, Led
    <3>2. CASE Arm \/ Wake \/ Mark
      BY <1>1, <1>3, <1>4, <2>1, <2>2, <3>2 DEF Arm, Wake, Mark, Proceed, Led
    <3>3. CASE TimeOut \/ CollectDecision
      <4>1. runs[c] = 0
        BY <3>3, Served DEF TimeOut, CollectDecision
      <4> QED
        BY <1>1, <1>3, <1>4, <2>1, <2>2, <3>3, <4>1 DEF TimeOut, CollectDecision, Led
    <3> QED
      BY <1>11, <3>1, <3>2, <3>3
  <2> QED
    BY <1>3, <2>1, <2>2, <2>3, OnwardStep
<1>12. CASE Execute
  <2>1. UNCHANGED <<evidence, cur, reply>> /\ gw = "execute" /\ gw' \in {"record", "recordfail"}
        /\ (gw' = "record" => runs' = [runs EXCEPT ![c] = @ + 1])
    BY <1>12 DEF Execute, Proceed, adminVars
  <2>2. \A e \in CallEvents : Recorded(e, c)' <=> Recorded(e, c) \/ e = "none"
    BY <2>1, NoLine
  <2>3. gw' = "record" => runs'[c] > 0
    BY <2>1, Served
  <2>4. Led(c)'
    BY <1>1, <1>3, <1>4, <2>1, <2>2, <2>3 DEF Led
  <2> QED
    BY <1>3, <2>1, <2>2, <2>4, OnwardStep
<1>13. CASE Record
  <2>1. CASE EmitThen("tool_call_executed") /\ Finish("result")
    BY <1>1, <1>2, <1>13, <2>1, OwnLine, AnswerStep DEF Record, Led
  <2>2. CASE EmitRaises("tool_call_executed", cur, NoPrincipal) /\ Proceed("recordfail")
    <3>1. PICK w \in {"none", "tool_call_executed"} :
            \A e \in CallEvents : Recorded(e, c)' <=> Recorded(e, c) \/ e = w
      BY <2>2, NoLine, OwnLine DEF EmitRaises, EmitThen
    <3>2. Led(c)'
      BY <1>1, <1>3, <1>4, <1>13, <2>2, <3>1 DEF Record, Proceed, Led
    <3>3. runs'[c] > 0 /\ UNCHANGED runs
      BY <1>1, <1>13 DEF Record, Led
    <3> QED
      BY <1>3, <1>13, <2>2, <3>1, <3>2, <3>3, OnwardStep DEF Record, Proceed
  <2> QED
    BY <1>13, <2>1, <2>2 DEF Record
<1>14. CASE RecordFail
  BY <1>2, <1>14, OwnLine, AnswerStep, SinkFails DEF RecordFail
<1> QED
  BY <1>5, <1>6, <1>7, <1>8, <1>9, <1>10, <1>11, <1>12, <1>13, <1>14 DEF Serve
------------------------------------------------------------------------------
(* The others.                                                             *)

(* A step of the server leaves the calls it does not serve alone.          *)
LEMMA OthersLogged ==
  ASSUME IInv, [Next]_vars, Serve, NEW c \in Calls, c # cur, CallLogged(c)
  PROVE  CallLogged(c)'
<1> USE DEF EmitFailed, Finish, Proceed
<1>0. evidence' = evidence => \A e \in CallEvents : Recorded(e, c)' <=> Recorded(e, c)
  BY NoLineAdded
<1>1. ASSUME NEW w, EmitThen(w) \/ EmitRaises(w, cur, NoPrincipal)
      PROVE  \A e \in CallEvents : Recorded(e, c)' <=> Recorded(e, c)
  BY <1>0, <1>1, LineAdded DEF EmitThen, EmitRaises
<1> DEFINE Apart == /\ \A e \in CallEvents : Recorded(e, c)' <=> Recorded(e, c)
                    /\ reply'[c] = reply[c] /\ runs'[c] = runs[c]
                    /\ cur' # c
<1>2. CASE ServeSimple
  <2>1. Apart
    BY <1>0, <1>1, <1>2, Served, GatewayConstants
    DEF ServeSimple, Initialize, ListTools, InvalidName, InvalidParams, UnknownMethod
  <2> QED
    BY <2>1, LoggedKept
<1>3. CASE Propose \/ Evaluate
  <2>1. Apart
    BY <1>1, <1>3, Served, GatewayConstants DEF Propose, Evaluate
  <2> QED
    BY <2>1, LoggedKept
<1>4. CASE Refuse \/ Announce \/ Block
  <2>1. Apart
    BY <1>1, <1>4, Served, GatewayConstants DEF Refuse, Announce, Block
  <2> QED
    BY <2>1, LoggedKept
<1>5. CASE Build \/ Insert \/ Arm \/ Wake \/ TimeOut \/ CollectDecision \/ Mark
  <2>1. Apart
    BY <1>0, <1>5 DEF Build, Insert, Arm, Wake, TimeOut, CollectDecision, Mark, adminVars
  <2> QED
    BY <2>1, LoggedKept
<1>6. CASE Execute
  <2>1. Apart
    BY <1>0, <1>6, Served DEF Execute, adminVars
  <2> QED
    BY <2>1, LoggedKept
<1>7. CASE Record \/ RecordFail
  <2>1. Apart
    BY <1>1, <1>7, Served, GatewayConstants DEF Record, RecordFail
  <2> QED
    BY <2>1, LoggedKept
<1> QED
  BY <1>2, <1>3, <1>4, <1>5, <1>6, <1>7 DEF Serve

(* The lines of the admin API are not about the course of a call. *)
LEMMA AdminLines ==
  ASSUME NEW t \in Threads, Admin(t), NEW c
  PROVE  \A e \in CallEvents : Recorded(e, c)' <=> Recorded(e, c)
<1>1. CASE Reject(t)
  <2>1. RejectEvent(t) \notin CallEvents
    BY DEF RejectEvent, CallEvents, OutcomeEvents
  <2> QED
    BY <1>1, <2>1, LineAdded, NoLineAdded DEF Reject, EmitRaises
<1>2. CASE Log(t)
  <2>1. LogEvent(t) \notin CallEvents
    BY DEF LogEvent, CallEvents, OutcomeEvents
  <2> QED
    BY <1>2, <2>1, LineAdded, NoLineAdded DEF Log, EmitRaises
<1>3. CASE Lookup(t) \/ Decide(t) \/ Commit(t) \/ Reread(t) \/ Release(t)
  BY <1>3, NoLineAdded DEF Lookup, Decide, Commit, Reread, Release
<1>4. ASSUME NEW j \in Jobs, Submit(t, j) PROVE evidence' = evidence
  BY <1>4 DEF Submit
<1> QED
  BY <1>1, <1>2, <1>3, <1>4, NoLineAdded DEF Admin, Handle

LEMMA ReadLogged ==
  ASSUME IInv, [Next]_vars, NEW d \in Calls, Read(d), NEW c \in Calls, CallLogged(c)
  PROVE  CallLogged(c)'
<1>1. UNCHANGED <<evidence, runs>> /\ cur' = d /\ runs[d] = 0 /\ reply'[d] = "serving"
  BY Served DEF Read, adminVars, IInv, CallInv
<1>2. \A e \in CallEvents : Recorded(e, c)' <=> Recorded(e, c)
  BY <1>1, NoLineAdded
<1>3. CASE c # d
  BY <1>1, <1>2, <1>3, Served, GatewayConstants, LoggedKept DEF Read
<1>4. CASE c = d
  <2>1. IsCall(c)' = IsCall(c) /\ reply[c] = "unread"
    BY <1>4, Fixed DEF Read
  <2>2. gw' = IF IsCall(c) THEN "propose" ELSE "simple"
    BY <1>4 DEF Read, IsCall
  <2>3. Led(c)'
    BY <2>1, <2>2 DEF Led
  <2>4. Open(c)' /\ IsCall(c)' => OutcomeOpen(c)'
    BY <1>2, <1>4, <2>1, Served, GatewayConstants
    DEF Read, CallLogged, Open, OutcomeOpen, CallEvents, OutcomeEvents
  <2>5. RunLogged(c)'
    BY <1>1, <1>4 DEF RunLogged
  <2>6. IsCall(c)' => AnswerLogged(c)'
    BY <1>1, <1>4, <2>1, <2>4 DEF AnswerLogged, Open, OutcomeOpen, Read
  <2> QED
    BY <2>3, <2>4, <2>5, <2>6 DEF CallLogged
<1> QED
  BY <1>3, <1>4
------------------------------------------------------------------------------
LEMMA LogStart == Init => LogInv
<1> SUFFICES ASSUME Init, NEW c \in Calls PROVE CallLogged(c)
  BY DEF LogInv
<1>1. cur # c /\ reply[c] = "unread" /\ runs[c] = 0 /\ \A e : ~Recorded(e, c)
  BY GatewayConstants DEF Init, AdminInit, SinkInit, Recorded
<1> QED
  BY <1>1 DEF CallLogged, RunLogged, AnswerLogged, OutcomeOpen

LEMMA CallLogStep == IInv /\ LogInv /\ [Next]_vars => LogInv'
<1> SUFFICES ASSUME IInv, LogInv, [Next]_vars, NEW c \in Calls PROVE CallLogged(c)'
  BY DEF LogInv
<1>0. CallLogged(c)
  BY DEF LogInv
<1>1. ASSUME NEW d \in Calls, Read(d) PROVE CallLogged(c)'
  BY <1>0, <1>1, ReadLogged
<1>2. CASE Serve
  BY <1>0, <1>2, ServedLogged, OthersLogged
<1>3. CASE Exit
  BY <1>0, <1>3, Served, GatewayConstants, NoLineAdded, LoggedKept DEF Exit, adminVars
<1>4. ASSUME NEW t \in Threads, Admin(t) PROVE CallLogged(c)'
  BY <1>0, <1>4, AdminLines, LoggedKept DEF Admin, gwVars
<1>5. CASE Tick \/ AdjustClock \/ UNCHANGED vars
  BY <1>0, <1>5, NoLineAdded, LoggedKept DEF Tick, AdjustClock, vars, gwVars, adminVars
<1> QED
  BY <1>1, <1>2, <1>3, <1>4, <1>5 DEF Next

LEMMA LogAlways == Spec => []LogInv
BY LogStart, CallLogStep, Inductive, PTL DEF Spec

(* No tool runs before the log holds the proposal, the decision and, for a *)
(* step-up, the request for approval, whichever emit fails                 *)
(* (mcp/stdio_server.py, _handle_tools_call).                              *)
THEOREM NothingRunsUnrecorded == Spec => []EvidenceBeforeRun
<1>1. LogInv => EvidenceBeforeRun
  BY DEF LogInv, CallLogged, RunLogged, EvidenceBeforeRun
<1> QED
  BY <1>1, LogAlways, PTL

(* No answer tells of an outcome that the log does not hold, and no line   *)
(* of the log tells of an outcome that is not the call's                   *)
(* (mcp/stdio_server.py, _handle_tools_call).                              *)
THEOREM OutcomesRecorded == Spec => []OutcomeRecorded
<1>1. LogInv => OutcomeRecorded
  BY DEF LogInv, CallLogged, AnswerLogged, OutcomeRecorded
<1> QED
  BY <1>1, LogAlways, PTL
==============================================================================
