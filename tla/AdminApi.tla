------------------------------- MODULE AdminApi -------------------------------
(***************************************************************************)
(* The admin API (admin/api.py) with the checks main.py builds for it.     *)
(* Each worker thread serves one approve or deny request at a time: token, *)
(* lookup, separation of duties, capability, decision, evidence, answer.   *)
(* Threads interleave at every access to the shared store and log.         *)
(***************************************************************************)
EXTENDS ApprovalStore, EvidenceSink

CONSTANTS
  Tokens,             \* values of the X-AIMXS-ADMIN-TOKEN header
  AdminToken, ApproverToken,
  AdminPrincipal, ApproverPrincipal,
  Tools,              \* tool names
  Policy,             \* what PolicyPlugin.evaluate decides on each tool
  AllowedTools,       \* approver_stub.allowed_tools
  MaxRisk,            \* approver_stub.max_risk_tier
  Messages,           \* the messages a client may send
  NoJob               \* a thread that serves nobody

Actions == {"allow", "deny", "require_approval"}
RiskTiers == {"low", "medium", "high", "forbidden"}
RiskOrder == [low |-> 1, medium |-> 2, high |-> 3, forbidden |-> 4]

Methods == {"initialize", "tools/list", "tools/call", "invalid_tool", "invalid_params", "unknown"}

Jobs == [token : Tokens, verdict : Verdicts, id : Calls]

ASSUME AdminConstants ==
  /\ {AdminPrincipal, ApproverPrincipal} \subseteq Principals
  /\ Policy \in [Tools -> [action : Actions, risk : RiskTiers]]
  /\ AllowedTools \subseteq Tools
  /\ MaxRisk \in RiskTiers
  /\ Messages \subseteq [method : Methods, tool : Tools, requestor : Principals]
  /\ NoJob \notin Jobs

VARIABLES
  call,     \* the message each call is; never changes
  at,       \* where each thread is in its handler
  job,      \* the HTTP request it serves
  ok,       \* what store.approve or store.deny returned
  seen,     \* the status the answer reports
  code      \* the HTTP status code of the answer

threadVars == <<at, job, ok, seen, code>>
adminVars == <<storeVars, threadVars, evidence>>

Steps == {"idle", "lookup", "reject", "decide", "commit", "reread", "log", "answered"}

AdminTypeOK ==
  /\ StoreTypeOK
  /\ call \in [Calls -> Messages]
  /\ at \in [Threads -> Steps]
  /\ job \in [Threads -> Jobs \cup {NoJob}]
  /\ ok \in [Threads -> BOOLEAN]
  /\ seen \in [Threads -> Statuses]
  /\ code \in [Threads -> {0, 200, 401, 403, 404, 500}]

AdminInit ==
  /\ StoreInit
  /\ SinkInit
  /\ call \in [Calls -> Messages]
  /\ at = [t \in Threads |-> "idle"]
  /\ job = [t \in Threads |-> NoJob]
  /\ ok = [t \in Threads |-> FALSE]
  /\ seen = [t \in Threads |-> "absent"]
  /\ code = [t \in Threads |-> 0]
------------------------------------------------------------------------------
Auth(token) ==
  IF token = AdminToken THEN AdminPrincipal
  ELSE IF token = ApproverToken THEN ApproverPrincipal
  ELSE NoPrincipal

Verdict(c) == Policy[call[c].tool]

CapabilityCheck(p, c) ==
  \/ p = AdminPrincipal
  \/ /\ p = ApproverPrincipal
     /\ call[c].tool \in AllowedTools
     /\ RiskOrder[Verdict(c).risk] <= RiskOrder[MaxRisk]

SodCheck(p, c) == p # call[c].requestor

MayDecide(p, c) == SodCheck(p, c) /\ CapabilityCheck(p, c)

Id(t) == job[t].id
Decider(t) == Auth(job[t].token)
------------------------------------------------------------------------------
Goto(t, l) == at' = [at EXCEPT ![t] = l]

Answer(t, n) == Goto(t, "answered") /\ code' = [code EXCEPT ![t] = n]

(* A request arrives.  Without a valid token it is answered 401 at once. *)
Submit(t, j) ==
  /\ at[t] = "idle"
  /\ job' = [job EXCEPT ![t] = j]
  /\ IF Auth(j.token) = NoPrincipal THEN Answer(t, 401)
     ELSE Goto(t, "lookup") /\ UNCHANGED code
  /\ UNCHANGED <<storeVars, evidence, ok, seen>>

(* Mutants of Lookup: one of the two checks is missing. *)
LookupNoCapability(t) ==
  /\ at[t] = "lookup"
  /\ LockFree
  /\ \/ ~Known(Id(t)) /\ Answer(t, 404)
     \/ /\ Known(Id(t)) /\ UNCHANGED code
        /\ Goto(t, IF SodCheck(Decider(t), Id(t)) THEN "decide" ELSE "reject")
  /\ UNCHANGED <<storeVars, evidence, job, ok, seen>>

LookupNoSod(t) ==
  /\ at[t] = "lookup"
  /\ LockFree
  /\ \/ ~Known(Id(t)) /\ Answer(t, 404)
     \/ /\ Known(Id(t)) /\ UNCHANGED code
        /\ Goto(t, IF CapabilityCheck(Decider(t), Id(t)) THEN "decide" ELSE "reject")
  /\ UNCHANGED <<storeVars, evidence, job, ok, seen>>

(* store.get, then the two checks, which read only fields of the record    *)
(* that never change.                                                      *)
Lookup(t) ==
  /\ at[t] = "lookup"
  /\ LockFree
  /\ \/ ~Known(Id(t)) /\ Answer(t, 404)
     \/ /\ Known(Id(t)) /\ UNCHANGED code
        /\ Goto(t, IF MayDecide(Decider(t), Id(t)) THEN "decide" ELSE "reject")
  /\ UNCHANGED <<storeVars, evidence, job, ok, seen>>

RejectEvent(t) ==
  IF job[t].verdict = "approved" THEN "approval_rejected" ELSE "deny_rejected"

Reject(t) ==
  /\ at[t] = "reject"
  /\ \/ Emit(RejectEvent(t), Id(t), Decider(t)) /\ Answer(t, 403)
     \/ EmitRaises(RejectEvent(t), Id(t), Decider(t)) /\ Answer(t, 500)
  /\ UNCHANGED <<storeVars, job, ok, seen>>

Decide(t) ==
  /\ at[t] = "decide"
  /\ \/ BeginDecision(t, Id(t), job[t].verdict, Decider(t)) /\ Goto(t, "commit")
     \/ AlreadyDecided(Id(t)) /\ Goto(t, "reread") /\ UNCHANGED storeVars
  /\ UNCHANGED <<evidence, job, ok, seen, code>>

(* Mutants of Commit: an expiry is answered like a decision; a successful  *)
(* decision is answered without its line of evidence.                      *)
CommitAlwaysOk(t) ==
  /\ at[t] = "commit"
  /\ CommitDecision(t)
  /\ ok' = [ok EXCEPT ![t] = TRUE]
  /\ seen' = [seen EXCEPT ![t] = job[t].verdict]
  /\ Goto(t, "log")
  /\ UNCHANGED <<evidence, job, code>>

CommitUnlogged(t) ==
  /\ at[t] = "commit"
  /\ CommitDecision(t)
  /\ ok' = [ok EXCEPT ![t] = section.live]
  /\ IF section.live THEN seen' = [seen EXCEPT ![t] = job[t].verdict] /\ Answer(t, 200)
     ELSE UNCHANGED <<seen, code>> /\ Goto(t, "reread")
  /\ UNCHANGED <<evidence, job>>

Commit(t) ==
  /\ at[t] = "commit"
  /\ CommitDecision(t)
  /\ ok' = [ok EXCEPT ![t] = section.live]
  /\ IF section.live THEN seen' = [seen EXCEPT ![t] = job[t].verdict] /\ Goto(t, "log")
     ELSE UNCHANGED seen /\ Goto(t, "reread")
  /\ UNCHANGED <<evidence, job, code>>

(* After a failed decision the record is fetched again, and its status     *)
(* read when get has released the lock.                                    *)
Reread(t) ==
  /\ at[t] = "reread"
  /\ seen' = [seen EXCEPT ![t] = status[Id(t)]]
  /\ Goto(t, "log")
  /\ UNCHANGED <<storeVars, evidence, job, ok, code>>

LogEvent(t) ==
  IF job[t].verdict = "approved"
  THEN IF ok[t] THEN "approval_granted" ELSE "approval_failed"
  ELSE IF ok[t] THEN "approval_denied" ELSE "deny_failed"

Log(t) ==
  /\ at[t] = "log"
  /\ \/ Emit(LogEvent(t), Id(t), Decider(t)) /\ Answer(t, 200)
     \/ EmitRaises(LogEvent(t), Id(t), Decider(t)) /\ Answer(t, 500)
  /\ UNCHANGED <<storeVars, job, ok, seen>>

(* The answer leaves, and the thread returns to the pool. *)
Release(t) ==
  /\ at[t] = "answered"
  /\ Goto(t, "idle")
  /\ job' = [job EXCEPT ![t] = NoJob]
  /\ ok' = [ok EXCEPT ![t] = FALSE]
  /\ seen' = [seen EXCEPT ![t] = "absent"]
  /\ code' = [code EXCEPT ![t] = 0]
  /\ UNCHANGED <<storeVars, evidence>>

Handle(t) == Lookup(t) \/ Reject(t) \/ Decide(t) \/ Commit(t) \/ Reread(t) \/ Log(t)
------------------------------------------------------------------------------
(* What an approver is told is what the store holds.  A success means the  *)
(* record carries that verdict and that principal; a failure reports a     *)
(* status that explains it, never one that is still open, although the     *)
(* status is read without the lock, after other threads may have run.  An  *)
(* entitled request that is answered 500, because its line could not be    *)
(* written, was decided all the same: by it, or before it came.            *)
AnswerTruthful ==
  \A t \in Threads :
    code[t] = 200 \/ (code[t] = 500 /\ MayDecide(Decider(t), Id(t))) =>
      IF ok[t] THEN /\ decision[Id(t)] = job[t].verdict
                    /\ approver[Id(t)] = Decider(t)
               ELSE /\ seen[t] \in Decisions \cup {"executed"}
                    /\ DecisionRead(Id(t)) = IF seen[t] = "executed" THEN "approved" ELSE seen[t]

(* Of all the requests that race on one record at most one succeeds: there *)
(* is one accepted decision about it in the log, or one thread that still  *)
(* owes the log that line, and never both nor two of either.  The line is  *)
(* true of the store, and a decision that took effect goes unaccounted for *)
(* only if its line could not be written.                                  *)
Accepted(c) ==
  {e \in evidence : e.call = c /\ e.event \in {"approval_granted", "approval_denied"}}

Owed(c) == {t \in Threads : at[t] = "log" /\ ok[t] /\ Id(t) = c}

TrueOfStore(e) ==
  /\ decision[e.call] = IF e.event = "approval_granted" THEN "approved" ELSE "denied"
  /\ approver[e.call] = e.by

OneAcceptedDecision ==
  \A c \in Calls :
    /\ \A x, y \in Accepted(c) \cup Owed(c) : x = y
    /\ \A e \in Accepted(c) : TrueOfStore(e)
    /\ decision[c] \in Verdicts /\ ~SinkMayFail => Accepted(c) \cup Owed(c) # {}

(* Every decision the store accepted was taken by a principal that may     *)
(* decide on that call: not its requestor, and within its capability.      *)
DecidedByEntitled ==
  \A c \in Calls : decision[c] \in Verdicts => MayDecide(approver[c], c)
==============================================================================
