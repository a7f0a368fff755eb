------------------------------ MODULE StubProofs ------------------------------
(***************************************************************************)
(* What the approver stub can bring about in the gateway, for any list of  *)
(* allowed tools, any risk limit, any threads and any other approvers, and *)
(* with lists that are stale by the time it works through them.            *)
(***************************************************************************)
EXTENDS ApproverStub, EvidenceProofs

(* The stub has a token and a principal of its own. *)
Distinct == AdminToken # ApproverToken /\ AdminPrincipal # ApproverPrincipal

Request(c) == [token |-> ApproverToken, verdict |-> StubVerdict(c), id |-> c]

Able(c) == MayDecide(ApproverPrincipal, c)

(* Whoever asks as the approver asks for what the stub would ask for; only *)
(* approvals of it pass the checks, hold the lock and reach the store.     *)
OnlyInv ==
  /\ \A t \in Threads : at[t] # "idle" /\ Decider(t) = ApproverPrincipal =>
                          job[t].verdict = StubVerdict(Id(t))
  /\ section # NoSection /\ section.by = ApproverPrincipal => section.verdict = "approved"
  /\ StubOnlyApproves

(* A request of the stub's is about a record that the store holds; it is   *)
(* answered with the record decided, unless the stub was not allowed to.   *)
AskInv ==
  /\ \A t \in via :
       /\ t \in StubThreads /\ posting \in Calls
       /\ at[t] # "idle" /\ job[t] = Request(posting) /\ Known(posting)
       /\ at[t] = "reject" => ~Able(posting)
       /\ at[t] = "answered" => ~Able(posting) \/ decision[posting] # "none"
  /\ \A c \in todo : c \in Calls /\ Known(c)
  /\ \A c \in Calls : said[c] = "Approved" =>
       InCapability(c) /\ (~Able(c) \/ decision[c] # "none")

LEMMA RequestIsJob ==
  ASSUME NEW c \in Calls PROVE Request(c) \in Jobs
BY StubConstants DEF Request, StubVerdict, Jobs, Verdicts

LEMMA StubFixed ==
  ASSUME [Next]_vars, NEW c
  PROVE  /\ InCapability(c)' = InCapability(c) /\ StubVerdict(c)' = StubVerdict(c)
         /\ Able(c)' = Able(c)
BY CallFixed DEF StubVerdict, InCapability, Able, MayDecide, SodCheck, CapabilityCheck, Verdict

(* Every step of the stub is one that the gateway allows, or none. *)
LEMMA StubStepIsStep ==
  ASSUME IInv, AskInv, [StubNext]_<<vars, stubVars>> PROVE [Next]_vars
<1>1. ASSUME NEW t \in StubThreads, NEW c \in Calls, Post(c, t) PROVE Next
  <2>1. Submit(t, Request(c)) /\ Alive /\ UNCHANGED <<call, gwVars>>
    BY <1>1 DEF Post, Request
  <2> QED
    BY <2>1, RequestIsJob, StubConstants DEF Next, Admin
<1>2. ASSUME NEW t \in StubThreads, Hear(t) \/ AnswerDropped(t) PROVE Next
  BY <1>2, StubConstants DEF Hear, AnswerDropped, Next, Admin
<1>3. ASSUME NEW t \in StubThreads, Alive /\ Handle(t) /\ UNCHANGED <<call, gwVars>> PROVE Next
  BY <1>3, StubConstants DEF Next, Admin
<1>4. ASSUME NEW t \in Threads \ StubThreads, Others(t) PROVE Next
  BY <1>4 DEF Others, Next, Admin
<1>5. CASE Poll \/ GiveUp \/ UNCHANGED <<vars, stubVars>>
  BY <1>5 DEF Poll, GiveUp
<1>6. CASE (\E c \in Calls : Read(c)) \/ Serve \/ Exit \/ Tick \/ AdjustClock
  BY <1>6 DEF Next
<1> QED
  BY <1>1, <1>2, <1>3, <1>4, <1>5, <1>6 DEF StubNext
------------------------------------------------------------------------------
(* The store hears only approvals from the approver.                       *)

(* What a thread of the approver's may do, it does to approve. *)
LEMMA ApproverApproves ==
  ASSUME Distinct, OnlyInv, NEW t \in Threads, at[t] # "idle",
         Decider(t) = ApproverPrincipal, Able(Id(t))
  PROVE  job[t].verdict = "approved"
BY DEF Distinct, OnlyInv, Able, MayDecide, CapabilityCheck, StubVerdict, InCapability

LEMMA OnlyStep ==
  ASSUME Distinct, IInv, AdminInv, OnlyInv, [Next]_vars,
         \A t \in Threads, j \in Jobs :
           Admin(t) /\ Submit(t, j) => j.token # ApproverToken \/ j = Request(j.id)
  PROVE  OnlyInv'
<1> USE DEF Goto, Answer
<1> DEFINE Asks(t) == at[t] # "idle" /\ Decider(t) = ApproverPrincipal =>
                        job[t].verdict = StubVerdict(Id(t))
           Holds == section # NoSection /\ section.by = ApproverPrincipal =>
                      section.verdict = "approved"
<1>0. (\A t \in Threads : Asks(t)) /\ Holds /\ StubOnlyApproves
  BY DEF OnlyInv
<1>1. ASSUME NEW t \in Threads, at'[t] = "idle" \/ (at[t] # "idle" /\ job'[t] = job[t])
      PROVE  Asks(t)'
  BY <1>0, <1>1, StubFixed DEF Decider, Auth, Id
<1>2. ASSUME UNCHANGED <<section, approver>> PROVE Holds' /\ StubOnlyApproves'
  <2>1. Holds'
    BY <1>0, <1>2
  <2>2. ASSUME NEW c \in Calls, approver'[c] = ApproverPrincipal PROVE decision'[c] = "approved"
    <3>1. decision[c] = "approved"
      BY <1>0, <1>2, <2>2 DEF StubOnlyApproves
    <3> QED
      BY <3>1, Stays
  <2> QED
    BY <2>1, <2>2 DEF StubOnlyApproves
<1>3. CASE \A t \in Threads : ~Admin(t)
  <2>1. UNCHANGED <<threadVars, section, approver>>
    BY <1>3, ThreadsUndisturbed
  <2>2. \A t \in Threads : Asks(t)'
    BY <1>1, <2>1 DEF threadVars
  <2> QED
    BY <1>2, <2>1, <2>2 DEF OnlyInv
<1>4. ASSUME NEW t \in Threads, Admin(t) PROVE OnlyInv'
  <2>0. \A u \in Threads : u # t => at'[u] = at[u] /\ job'[u] = job[u]
    BY <1>4, OthersStand DEF AdminInv
  <2>1. ASSUME Asks(t)', Holds', StubOnlyApproves' PROVE OnlyInv'
    <3>1. ASSUME NEW u \in Threads, u # t PROVE Asks(u)'
      <4>1. at'[u] = at[u] /\ job'[u] = job[u]
        BY <2>0, <3>1
      <4> QED
        BY <1>1, <4>1
    <3> QED
      BY <2>1, <3>1 DEF OnlyInv
  <2>2. CASE Lookup(t) \/ Reject(t) \/ Reread(t) \/ Log(t) \/ Release(t)
    <3>1. UNCHANGED <<section, approver>>
      BY <2>2 DEF Lookup, Reject, Reread, Log, Release, storeVars
    <3>2. at'[t] = "idle" \/ (at[t] # "idle" /\ job'[t] = job[t])
      BY <2>2, Typed DEF Lookup, Reject, Reread, Log, Release
    <3> QED
      BY <1>1, <1>2, <2>1, <3>1, <3>2
  <2>3. ASSUME NEW j \in Jobs, Submit(t, j) PROVE OnlyInv'
    <3>1. UNCHANGED <<section, approver>> /\ job'[t] = j
      BY <2>3, Typed DEF Submit, storeVars
    <3>2. Auth(j.token) = ApproverPrincipal => j = Request(j.id)
      BY <1>4, <2>3, AdminConstants, StoreConstants DEF Auth, Distinct
    <3>3. Asks(t)'
      BY <3>1, <3>2, StubFixed DEF Decider, Auth, Id, Request
    <3> QED
      BY <1>2, <2>1, <3>1, <3>3
  <2>4. CASE Decide(t)
    <3>1. job' = job /\ at[t] = "decide" /\ approver' = approver
      BY <2>4 DEF Decide, BeginDecision, Enter, storeVars
    <3>2. Asks(t)'
      BY <1>1, <3>1
    <3>3. Holds'
      <4>1. CASE BeginDecision(t, Id(t), job[t].verdict, Decider(t))
        <5>1. section'.by = Decider(t) /\ section'.verdict = job[t].verdict
          BY <4>1 DEF BeginDecision, Enter
        <5>2. MayDecide(Decider(t), Id(t))
          BY <3>1 DEF IInv, ThreadInv
        <5> QED
          BY <3>1, <5>1, <5>2, ApproverApproves DEF Able
      <4>2. CASE UNCHANGED storeVars
        BY <1>0, <4>2 DEF storeVars
      <4> QED
        BY <2>4, <4>1, <4>2 DEF Decide
    <3>4. StubOnlyApproves'
      BY <1>0, <2>4, <3>1 DEF StubOnlyApproves, Decide, BeginDecision, Enter, storeVars
    <3> QED
      BY <2>1, <3>2, <3>3, <3>4
  <2>5. CASE Commit(t)
    <3>1. job' = job /\ at[t] = "commit" /\ section \in Sections /\ section # NoSection
      BY <2>5, Typed DEF Commit, CommitDecision, StoreTypeOK
    <3>2. Asks(t)'
      BY <1>1, <3>1
    <3>3. Holds'
      BY <2>5 DEF Commit, CommitDecision
    <3>4. ASSUME NEW c \in Calls, approver'[c] = ApproverPrincipal PROVE decision'[c] = "approved"
      <4>1. CASE c = section.id /\ section.live
        BY <1>0, <2>5, <3>1, <3>4, <4>1, Typed DEF Commit, CommitDecision, Settle, StoreTypeOK
      <4>2. CASE ~(c = section.id /\ section.live)
        <5>1. approver'[c] = approver[c]
          BY <2>5, <4>2, Typed DEF Commit, CommitDecision, Settle, StoreTypeOK
        <5>2. decision[c] = "approved"
          BY <1>0, <3>4, <5>1 DEF StubOnlyApproves
        <5> QED
          BY <5>2, Stays
      <4> QED
        BY <4>1, <4>2
    <3> QED
      BY <2>1, <3>2, <3>3, <3>4 DEF StubOnlyApproves
  <2> QED
    BY <1>4, <2>2, <2>3, <2>4, <2>5 DEF Admin, Handle
<1> QED
  BY <1>3, <1>4
------------------------------------------------------------------------------
(* No request of the stub's is lost between its answer and the record.     *)

InStore(c) == ~Able(c) \/ decision[c] # "none"

LEMMA InStoreStays ==
  ASSUME IInv, [Next]_vars, NEW c \in Calls, InStore(c) PROVE InStore(c)'
BY StubFixed, Stays DEF InStore

(* What holds of a thread that serves a request of the stub's about c.     *)
Serves(t, c) ==
  /\ at[t] # "idle" /\ job[t] = Request(c) /\ Known(c)
  /\ at[t] = "reject" => ~Able(c)
  /\ at[t] = "answered" => InStore(c)

LEMMA ServesKept ==
  ASSUME Distinct, IInv, AdminInv, [Next]_vars, NEW t \in Threads, NEW c \in Calls, Serves(t, c),
         ~Release(t)
  PROVE  Serves(t, c)'
<1> USE DEF Goto, Answer
<1>1. /\ Known(c)' /\ Request(c)' = Request(c) /\ Able(c)' = Able(c)
      /\ Id(t) = c /\ Decider(t) = ApproverPrincipal
  BY StaysKnown, StubFixed DEF Serves, Request, Id, Decider, Auth, Distinct
<1>2. CASE at'[t] = at[t] /\ job'[t] = job[t]
  BY <1>1, <1>2, InStoreStays DEF Serves
<1>3. ASSUME NEW u \in Threads, Admin(u) PROVE Serves(t, c)'
  <2>1. CASE u # t
    <3>1. at'[t] = at[t] /\ job'[t] = job[t]
      BY <1>3, <2>1, OthersStand DEF AdminInv
    <3> QED
      BY <1>2, <3>1
  <2>2. CASE Lookup(t)
    BY <1>1, <2>2, Typed DEF Lookup, Serves, Able
  <2>3. CASE Reject(t)
    BY <1>1, <2>3, InStoreStays, Typed DEF Reject, Serves, InStore
  <2>4. CASE Decide(t) \/ Commit(t) \/ Reread(t)
    BY <1>1, <2>4, Typed DEF Decide, Commit, Reread, Serves
  <2>5. CASE Log(t)
    <3>1. Truth(t) /\ job[t].verdict \in Verdicts
      BY <2>5, Typed DEF AdminInv, Knows, Log
    <3>2. decision[c] # "none"
      BY <1>1, <3>1 DEF Truth, DecisionRead, Verdicts, Decisions
    <3>3. InStore(c)'
      BY <3>2, InStoreStays DEF InStore
    <3> QED
      BY <1>1, <2>5, <3>3, Typed DEF Log, Serves
  <2>6. ASSUME NEW j \in Jobs, Submit(t, j) PROVE FALSE
    BY <2>6 DEF Submit, Serves
  <2> QED
    BY <1>3, <2>1, <2>2, <2>3, <2>4, <2>5, <2>6 DEF Admin, Handle
<1>4. CASE \A u \in Threads : ~Admin(u)
  BY <1>2, <1>4, ThreadsUndisturbed DEF threadVars
<1> QED
  BY <1>3, <1>4

(* AskInv, part by part. *)
Spoken(c) == said[c] = "Approved" => InCapability(c) /\ InStore(c)

LEMMA AskParts ==
  AskInv <=> /\ \A t \in via : t \in StubThreads /\ posting \in Calls /\ Serves(t, posting)
             /\ \A c \in todo : c \in Calls /\ Known(c)
             /\ \A c \in Calls : Spoken(c)
BY DEF AskInv, Serves, Spoken, InStore

LEMMA SpokenKept ==
  ASSUME IInv, [Next]_vars, NEW c \in Calls, Spoken(c), said'[c] = said[c] PROVE Spoken(c)'
BY InStoreStays, StubFixed DEF Spoken

LEMMA AskNext ==
  ASSUME \A t \in via' : t \in StubThreads /\ posting' \in Calls /\ Serves(t, posting)',
         \A c \in todo' : c \in Calls /\ Known(c)',
         \A c \in Calls : Spoken(c)'
  PROVE  AskInv'
BY DEF AskInv, Serves, Spoken, InStore

(* The server and the clock leave the threads where they are. *)
LEMMA ServerLeavesThreads ==
  ASSUME (\E c \in Calls : Read(c)) \/ Serve \/ Exit \/ Tick \/ AdjustClock
  PROVE  at' = at
<1>1. ASSUME NEW c \in Calls, Read(c) PROVE at' = at
  BY <1>1 DEF Read, adminVars, threadVars
<1>2. CASE ServeSimple \/ Propose \/ Evaluate \/ Refuse \/ Build \/ Insert \/ Announce \/ Arm
  BY <1>2 DEF ServeSimple, Initialize, ListTools, InvalidName, InvalidParams, UnknownMethod,
       Propose, Evaluate, Refuse, Build, Insert, Announce, Arm, threadVars
<1>3. CASE Wake \/ TimeOut \/ CollectDecision \/ Block \/ Mark \/ Execute \/ Record \/ RecordFail
  BY <1>3 DEF Wake, TimeOut, CollectDecision, Block, Mark, Execute, Record, RecordFail,
       adminVars, threadVars
<1>4. CASE Exit \/ Tick \/ AdjustClock
  BY <1>4 DEF Exit, Tick, AdjustClock, adminVars, threadVars
<1> QED
  BY <1>1, <1>2, <1>3, <1>4 DEF Serve

LEMMA AskStep ==
  ASSUME Distinct, IInv, AdminInv, StubTypeOK, AskInv, [StubNext]_<<vars, stubVars>>
  PROVE  AskInv'
<1>0. [Next]_vars
  BY StubStepIsStep
<1>1. /\ \A t \in via : t \in StubThreads /\ t \in Threads /\ posting \in Calls /\ Serves(t, posting)
      /\ \A c \in todo : c \in Calls /\ Known(c)
      /\ \A c \in Calls : Spoken(c)
  BY AskParts, StubConstants
<1>2. ASSUME NEW S, S \subseteq todo PROVE \A c \in S : c \in Calls /\ Known(c)'
  BY <1>0, <1>1, <1>2, StaysKnown
<1>3. ASSUME said' = said PROVE \A c \in Calls : Spoken(c)'
  BY <1>0, <1>1, <1>3, SpokenKept
<1>4. ASSUME \A t \in via : ~Release(t), UNCHANGED <<posting, via>>
      PROVE  \A t \in via' : t \in StubThreads /\ posting' \in Calls /\ Serves(t, posting)'
  <2>1. ASSUME NEW t \in via PROVE Serves(t, posting)'
    <3> DEFINE p == posting
    <3>1. t \in Threads /\ p \in Calls /\ Serves(t, p) /\ ~Release(t)
      BY <1>1, <1>4, <2>1
    <3>2. PICK c \in Calls : c = p
      BY <3>1
    <3>3. Serves(t, c)'
      BY <1>0, <3>1, <3>2, ServesKept
    <3> QED
      BY <1>4, <3>2, <3>3 DEF Serves, InStore, Able, Known, Request, MayDecide, SodCheck,
         CapabilityCheck, StubVerdict, InCapability, Verdict
  <2> QED
    BY <1>1, <1>4, <2>1
<1>r. ASSUME NEW t \in Threads, at'[t] # "idle" PROVE ~Release(t)
  BY <1>r, Typed DEF Release, Goto
<1>5. CASE Poll
  <2>1. UNCHANGED <<vars, posting, via, said>> /\ todo' = ListPending
    BY <1>5 DEF Poll
  <2>2. \A t \in via : ~Release(t)
    BY <1>1, <1>r, <2>1 DEF vars, adminVars, threadVars, Serves
  <2>3. \A c \in todo' : c \in Calls /\ Known(c)'
    BY <2>1 DEF ListPending, Known, vars, adminVars, storeVars
  <2> QED
    BY <1>3, <1>4, <2>1, <2>2, <2>3, AskNext
<1>6. ASSUME NEW c \in Calls, NEW t \in StubThreads, Post(c, t) PROVE AskInv'
  <2>1. /\ via' = {t} /\ posting' = c /\ todo' = todo \ {c} /\ said' = said /\ c \in todo
        /\ Submit(t, Request(c)) /\ t \in Threads
    BY <1>6, StubConstants DEF Post, Request
  <2>2. at'[t] = "lookup" /\ job'[t] = Request(c) /\ Known(c)'
    <3>1. Request(c).token = ApproverToken
      BY DEF Request
    <3>2. Auth(ApproverToken) # NoPrincipal
      BY AdminConstants, StoreConstants DEF Auth
    <3> QED
      BY <1>0, <1>1, <2>1, <3>1, <3>2, StaysKnown, Typed DEF Submit, Goto
  <2>3. Serves(t, c)'
    BY <1>0, <2>2, StubFixed DEF Serves, Request
  <2>4. Serves(t, posting)'
    BY <1>0, <2>1, <2>3, StubFixed
    DEF Serves, InStore, Able, Known, Request, MayDecide, SodCheck,
        CapabilityCheck, StubVerdict, InCapability, Verdict
  <2> QED
    BY <1>2, <1>3, <2>1, <2>4, AskNext
<1>7. ASSUME NEW t \in StubThreads, Hear(t) PROVE AskInv'
  <2>1. /\ via' = {} /\ todo' = todo /\ said' = [said EXCEPT ![posting] = Says(posting)]
        /\ t \in via /\ at[t] = "answered" /\ posting \in Calls
    BY <1>1, <1>7 DEF Hear, Release
  <2>2. InStore(posting)
    BY <1>1, <2>1 DEF Serves
  <2>3. ASSUME NEW c \in Calls PROVE Spoken(c)'
    <3>1. CASE c # posting
      <4>1. said'[c] = said[c]
        BY <2>1, <3>1 DEF StubTypeOK
      <4> QED
        BY <1>0, <1>1, <4>1, SpokenKept
    <3>2. CASE c = posting
      <4>1. said'[c] = Says(c)
        BY <2>1, <3>2 DEF StubTypeOK
      <4>2. InStore(c)' /\ InCapability(c)' = InCapability(c)
        BY <1>0, <2>2, <3>2, InStoreStays, StubFixed
      <4> QED
        BY <4>1, <4>2 DEF Spoken, Says
    <3> QED
      BY <3>1, <3>2
  <2> QED
    BY <1>2, <2>1, <2>3, AskNext
<1>8. CASE GiveUp
  BY <1>3, <1>8, AskNext DEF GiveUp
<1>9. ASSUME UNCHANGED stubVars, \A u \in via : ~Release(u) PROVE AskInv'
  BY <1>2, <1>3, <1>4, <1>9, AskNext DEF stubVars
<1>10. ASSUME NEW t \in Threads, UNCHANGED stubVars,
              \/ Handle(t)
              \/ t \notin via /\ (Release(t) \/ \E j \in Jobs : Submit(t, j))
       PROVE  AskInv'
  <2>1. ASSUME NEW u \in via PROVE at'[u] # "idle"
    <3> USE DEF Goto, Answer
    <3>1. u \in Threads /\ at[u] # "idle"
      BY <1>1, <2>1 DEF Serves
    <3>2. CASE Handle(t)
      BY <3>1, <3>2, Typed DEF Handle, Lookup, Reject, Decide, Commit, Reread, Log
    <3>3. CASE u # t /\ Release(t)
      BY <3>1, <3>3, Typed DEF Release
    <3>4. CASE u # t /\ \E j \in Jobs : Submit(t, j)
      BY <3>1, <3>4, Typed DEF Submit
    <3> QED
      BY <1>10, <2>1, <3>2, <3>3, <3>4
  <2> QED
    BY <1>1, <1>9, <1>10, <1>r, <2>1
<1>11. ASSUME UNCHANGED stubVars, UNCHANGED at PROVE AskInv'
  BY <1>1, <1>9, <1>11, <1>r DEF Serves
<1> QED
  <2>1. CASE Poll \/ GiveUp
    BY <1>5, <1>8, <2>1
  <2>2. ASSUME NEW t \in StubThreads,
               \/ \E c \in Calls : Post(c, t)
               \/ Hear(t) \/ AnswerDropped(t)
               \/ Alive /\ Handle(t) /\ UNCHANGED <<call, gwVars, stubVars>>
        PROVE  AskInv'
    BY <1>6, <1>7, <1>10, <2>2, StubConstants DEF AnswerDropped
  <2>3. ASSUME NEW t \in Threads \ StubThreads, Others(t) PROVE AskInv'
    BY <1>1, <1>10, <2>3 DEF Others
  <2>4. CASE /\ (\E c \in Calls : Read(c)) \/ Serve \/ Exit \/ Tick \/ AdjustClock
             /\ UNCHANGED stubVars
    BY <1>11, <2>4, ServerLeavesThreads
  <2>5. CASE UNCHANGED <<vars, stubVars>>
    BY <1>11, <2>5 DEF vars, adminVars, threadVars
  <2> QED
    BY <2>1, <2>2, <2>3, <2>4, <2>5 DEF StubNext
------------------------------------------------------------------------------
(* Types.                                                                  *)

LEMMA StubTypeStep ==
  ASSUME IInv, StubTypeOK, AskInv, [StubNext]_<<vars, stubVars>> PROVE StubTypeOK'
<1>1. TypeOK'
  BY StubStepIsStep, TypeStep
<1> DEFINE Kinds == /\ todo' \subseteq Calls
                    /\ posting' \in Calls \cup {NoCall}
                    /\ via' \subseteq StubThreads
                    /\ said' \in [Calls -> {"nothing", "Approved", "Denied"}]
<1> USE DEF StubTypeOK
<1>2. CASE UNCHANGED stubVars
  BY <1>1, <1>2 DEF stubVars
<1>3. CASE Poll \/ GiveUp
  BY <1>1, <1>3 DEF Poll, GiveUp, ListPending
<1>4. ASSUME NEW c \in Calls, NEW t \in StubThreads, Post(c, t) PROVE Kinds
  BY <1>4 DEF Post
<1>5. ASSUME NEW t \in StubThreads, Hear(t) PROVE Kinds
  BY <1>5 DEF Hear, Says
<1>6. ASSUME NEW t \in Threads, AnswerDropped(t) \/ Others(t) PROVE UNCHANGED stubVars
  BY <1>6 DEF AnswerDropped, Others
<1> QED
  BY <1>1, <1>2, <1>3, <1>4, <1>5, <1>6, StubConstants DEF StubNext
------------------------------------------------------------------------------
(* Requests that carry the approver's token are the stub's.                *)
LEMMA ApproversRequests ==
  ASSUME [StubNext]_<<vars, stubVars>>, StubTypeOK, IInv,
         NEW u \in Threads, NEW k \in Jobs, Admin(u), Submit(u, k)
  PROVE  k.token # ApproverToken \/ k = Request(k.id)
<1> USE DEF Goto, Answer
<1>0. at[u] = "idle" /\ at'[u] # "idle" /\ job'[u] = k
  BY Typed DEF Submit
<1>1. ASSUME NEW c \in Calls, NEW t \in StubThreads, Post(c, t)
      PROVE  k.token # ApproverToken \/ k = Request(k.id)
  <2>1. Submit(t, Request(c)) /\ t \in Threads
    BY <1>1, StubConstants DEF Post, Request
  <2>2. u = t /\ k = Request(c)
    BY <1>0, <2>1, Typed DEF Submit
  <2>3. Request(c).id = c
    BY DEF Request
  <2> QED
    BY <2>2, <2>3
<1>2. ASSUME NEW t \in Threads, Release(t) \/ Handle(t) PROVE FALSE
  BY <1>0, <1>2, Typed DEF Release, Handle, Lookup, Reject, Decide, Commit, Reread, Log
<1>3. ASSUME NEW t \in Threads, NEW j \in Jobs, j.token # ApproverToken, Submit(t, j)
      PROVE  k.token # ApproverToken
  BY <1>0, <1>3, Typed DEF Submit
<1>4. at' # at
  BY <1>0
<1>5. ~Poll /\ ~GiveUp /\ ~UNCHANGED <<vars, stubVars>>
  BY <1>4 DEF Poll, GiveUp, vars, adminVars, threadVars
<1>6. ~((\E c \in Calls : Read(c)) \/ Serve \/ Exit \/ Tick \/ AdjustClock)
  BY <1>4, ServerLeavesThreads
<1> QED
  BY <1>1, <1>2, <1>3, <1>5, <1>6, StubConstants DEF StubNext, Hear, AnswerDropped, Others

StubInv == IInv /\ AdminInv /\ StubTypeOK /\ OnlyInv /\ AskInv

LEMMA StubStart == StubInit => StubInv
<1> SUFFICES ASSUME StubInit PROVE StubInv
  OBVIOUS
<1>1. IInv /\ AdminInv
  BY InitIInv, AdminStart DEF StubInit
<1>2. StubTypeOK
  BY <1>1 DEF StubInit, StubTypeOK, IInv
<1>3. OnlyInv
  BY AdminConstants, StoreConstants
  DEF StubInit, Init, AdminInit, StoreInit, OnlyInv, StubOnlyApproves
<1>4. AskInv
  BY DEF StubInit, AskInv
<1> QED
  BY <1>1, <1>2, <1>3, <1>4 DEF StubInv

LEMMA StubStep ==
  ASSUME Distinct, StubInv, [StubNext]_<<vars, stubVars>> PROVE StubInv'
<1>1. [Next]_vars
  BY StubStepIsStep DEF StubInv
<1>2. IInv'
  BY <1>1, TypeStep, StoreTypedInGateway, ThreadStep, ServerStep DEF StubInv, IInv
<1>3. AdminInv'
  BY <1>1, AdminStep DEF StubInv
<1>4. OnlyInv'
  BY <1>1, OnlyStep, ApproversRequests DEF StubInv
<1> QED
  BY <1>2, <1>3, <1>4, StubTypeStep, AskStep DEF StubInv

LEMMA StubAlways == ASSUME Distinct PROVE StubSpec => []StubInv
<1>1. StubInv /\ [StubNext]_<<vars, stubVars>> => StubInv'
  BY StubStep
<1> QED
  BY <1>1, StubStart, PTL DEF StubSpec

(* The stub keeps its type beside a gateway that keeps its own             *)
(* (aimxs_approver_stub/stub.py).                                          *)
THEOREM StubTyped == ASSUME Distinct PROVE StubSpec => []StubTypeOK
<1>1. StubInv => StubTypeOK
  BY DEF StubInv
<1> QED
  BY <1>1, StubAlways, PTL

(* If the stub has a token and a principal of its own, every decision that *)
(* the store accepts from its principal is an approval: its denials never  *)
(* pass the checks of main.py (aimxs_approver_stub/stub.py).               *)
THEOREM OnlyApprovals == ASSUME Distinct PROVE StubSpec => []StubOnlyApproves
<1>1. StubInv => StubOnlyApproves
  BY DEF StubInv, OnlyInv
<1> QED
  BY <1>1, StubAlways, PTL

(* When the stub says it approved a call of somebody else, the call is     *)
(* decided, however stale its list was (aimxs_approver_stub/stub.py).      *)
THEOREM SaidIsDecided == ASSUME Distinct PROVE StubSpec => []ApprovedMeansDecided
<1>1. ASSUME StubInv, NEW c \in Calls, said[c] = "Approved", call[c].requestor # ApproverPrincipal
      PROVE  decision[c] # "none"
  <2>1. InCapability(c) /\ (~Able(c) \/ decision[c] # "none")
    BY <1>1 DEF StubInv, AskInv
  <2>2. Able(c)
    BY <1>1, <2>1 DEF Able, MayDecide, SodCheck, CapabilityCheck, InCapability
  <2> QED
    BY <2>1, <2>2
<1>2. StubInv => ApprovedMeansDecided
  BY <1>1 DEF ApprovedMeansDecided
<1> QED
  BY <1>2, StubAlways, PTL

(* The gateway with the stub beside it is the gateway: what is proved of   *)
(* every behaviour of the gateway holds in its company, too.               *)
LEMMA StubKeepsGateway == ASSUME Distinct PROVE StubSpec => Spec
<1>1. StubInv /\ [StubNext]_<<vars, stubVars>> => [Next]_vars
  BY StubStepIsStep DEF StubInv
<1>2. StubInit => Init
  BY DEF StubInit
<1> QED
  BY <1>1, <1>2, StubAlways, PTL DEF StubSpec, Spec
==============================================================================
