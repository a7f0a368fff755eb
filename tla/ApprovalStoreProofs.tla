------------------------- MODULE ApprovalStoreProofs --------------------------
(***************************************************************************)
(* What the approval store guarantees for every set of calls, threads and  *)
(* principals, every TTL and every bound.                                  *)
(***************************************************************************)
EXTENDS ApprovalStore, TLAPS

(* A step of a thread that holds the lock, or of one that takes it, keeps  *)
(* the types of the store's state.                                         *)
LEMMA StoreTypeStep == StoreTypeOK /\ [StoreNext]_storeVars => StoreTypeOK'
<1> USE StoreConstants, NoSectionIsNone
<1> SUFFICES ASSUME StoreTypeOK, [StoreNext]_storeVars PROVE StoreTypeOK'
  OBVIOUS
<1>1. ASSUME NEW c \in Calls, BuildRecord(c) PROVE StoreTypeOK'
  BY <1>1 DEF StoreTypeOK, BuildRecord, Statuses
<1>2. ASSUME NEW c \in Calls, InsertRecord(c) PROVE StoreTypeOK'
  BY <1>2 DEF StoreTypeOK, InsertRecord, Statuses
<1>3. ASSUME NEW c \in Calls, MarkExecuted(c) PROVE StoreTypeOK'
  BY <1>3 DEF StoreTypeOK, MarkExecuted, Statuses
<1>4. ASSUME NEW t \in Threads, NEW c \in Calls, NEW v \in Verdicts, NEW p \in Principals,
             BeginDecision(t, c, v, p)
      PROVE  StoreTypeOK'
  <2>1. section' \in Sections
    BY <1>4 DEF StoreTypeOK, BeginDecision, Enter, Sections, Expired
  <2> QED
    BY <1>4, <2>1 DEF StoreTypeOK, BeginDecision, Enter
<1>5. ASSUME NEW t \in Threads, CommitDecision(t) PROVE StoreTypeOK'
  <2>1. section \in Sections
    BY <1>5 DEF CommitDecision, StoreTypeOK
  <2>2. section.id \in Calls /\ section.verdict \in Verdicts /\ section.by \in Principals
    BY <2>1 DEF Sections
  <2>3. ASSUME NEW v \in Decisions, NEW p \in Principals \cup {NoPrincipal},
               Settle(section.id, v, p)
        PROVE  /\ status' \in [Calls -> Statuses]
               /\ approver' \in [Calls -> Principals \cup {NoPrincipal}]
               /\ decision' \in [Calls -> Decisions \cup {"none"}]
               /\ event' \in [Calls -> BOOLEAN]
    BY <2>2, <2>3 DEF Settle, StoreTypeOK, Statuses
  <2>4. approver[section.id] \in Principals \cup {NoPrincipal}
    BY <2>2 DEF StoreTypeOK
  <2>5. CASE section.live
    BY <1>5, <2>2, <2>3, <2>5 DEF CommitDecision, StoreTypeOK, Decisions
  <2>6. CASE ~section.live
    BY <1>5, <2>4, <2>3, <2>6 DEF CommitDecision, StoreTypeOK, Decisions
  <2> QED
    BY <2>5, <2>6
<1>6. CASE Age
  BY <1>6 DEF StoreTypeOK, Age
<1>7. ASSUME NEW d \in WallSteps, SetWallClock(d) PROVE StoreTypeOK'
  BY <1>7 DEF StoreTypeOK, SetWallClock
<1>8. CASE UNCHANGED storeVars
  BY <1>8 DEF StoreTypeOK, storeVars
<1> QED
  BY <1>1, <1>2, <1>3, <1>4, <1>5, <1>6, <1>7, <1>8 DEF StoreNext

(* Every reachable state of the store is well typed (store.py).            *)
THEOREM StoreTyped == StoreSpec => []StoreTypeOK
<1>1. StoreInit => StoreTypeOK
  BY StoreConstants DEF StoreInit, StoreTypeOK, Statuses
<1> QED
  BY <1>1, StoreTypeStep, PTL DEF StoreSpec
------------------------------------------------------------------------------
(* A decision written to a pending record reaches status, decision, event  *)
(* and approver together.                                                  *)
LEMMA CommitConsistent ==
  ASSUME StoreTypeOK, StoreConsistent, NEW t \in Threads, CommitDecision(t)
  PROVE  StoreConsistent' /\ decision[section.id] = "none"
<1> USE StoreConstants, NoSectionIsNone
<1> DEFINE c == section.id
           v == IF section.live THEN section.verdict ELSE "expired"
           p == IF section.live THEN section.by ELSE approver[c]
<1>1. section \in Sections /\ section # NoSection
  BY DEF CommitDecision, StoreTypeOK
<1>2. c \in Calls /\ section.verdict \in Verdicts /\ section.by \in Principals
  BY <1>1 DEF Sections
<1>3. status[c] = "pending"
  BY <1>1 DEF StoreConsistent
<1>4. decision[c] = "none"
  BY <1>2, <1>3 DEF StoreConsistent
<1>5. approver[c] = NoPrincipal
  BY <1>2, <1>4 DEF StoreConsistent, Verdicts
<1>6. v \in Decisions /\ (p # NoPrincipal <=> v \in Verdicts)
  BY <1>2, <1>5 DEF Decisions, Verdicts
<1>7. Settle(c, v, p) /\ section' = NoSection
  BY DEF CommitDecision
<1>8. ASSUME NEW d \in Calls
      PROVE  /\ status'[d] = IF d = c THEN v ELSE status[d]
             /\ approver'[d] = IF d = c THEN p ELSE approver[d]
             /\ decision'[d] = IF d = c THEN v ELSE decision[d]
             /\ event'[d] = IF d = c THEN TRUE ELSE event[d]
  <2> HIDE DEF c, v, p
  <2> QED
    BY <1>7, <1>8 DEF Settle, StoreTypeOK
<1> HIDE DEF v, p, c
<1>9. StoreConsistent'
  BY <1>6, <1>7, <1>8 DEF StoreConsistent, Decisions, Verdicts
<1> QED
  BY <1>4, <1>9 DEF c

LEMMA ConsistentStep ==
  StoreTypeOK /\ StoreConsistent /\ [StoreNext]_storeVars => StoreConsistent'
<1> USE StoreConstants, NoSectionIsNone
<1> SUFFICES ASSUME StoreTypeOK, StoreConsistent, [StoreNext]_storeVars
             PROVE  StoreConsistent'
  OBVIOUS
<1>1. ASSUME NEW c \in Calls, BuildRecord(c) PROVE StoreConsistent'
  BY <1>1 DEF StoreConsistent, BuildRecord, Decisions, StoreTypeOK, Verdicts
<1>2. ASSUME NEW c \in Calls, InsertRecord(c) PROVE StoreConsistent'
  BY <1>2 DEF StoreConsistent, InsertRecord, LockFree, Decisions, StoreTypeOK, Verdicts
<1>3. ASSUME NEW c \in Calls, decision[c] = "approved", MarkExecuted(c)
      PROVE  StoreConsistent'
  BY <1>3 DEF StoreConsistent, MarkExecuted, LockFree, Known, Decisions, StoreTypeOK, Verdicts
<1>4. ASSUME NEW t \in Threads, NEW c \in Calls, NEW v \in Verdicts, NEW p \in Principals,
             BeginDecision(t, c, v, p)
      PROVE  StoreConsistent'
  <2>1. section'.id = c
    BY <1>4 DEF BeginDecision, Enter
  <2> QED
    BY <1>4, <2>1 DEF StoreConsistent, BeginDecision, Enter
<1>5. ASSUME NEW t \in Threads, CommitDecision(t) PROVE StoreConsistent'
  BY <1>5, CommitConsistent
<1>6. CASE Age
  BY <1>6 DEF StoreConsistent, Age
<1>7. ASSUME NEW d \in WallSteps, SetWallClock(d) PROVE StoreConsistent'
  BY <1>7 DEF StoreConsistent, SetWallClock
<1>8. CASE UNCHANGED storeVars
  BY <1>8 DEF StoreConsistent, storeVars
<1> QED
  BY <1>1, <1>2, <1>3, <1>4, <1>5, <1>6, <1>7, <1>8 DEF StoreNext

(* Status, decision, event and approver of a record never disagree,        *)
(* whichever threads approve, deny, wait or let it expire.                 *)
THEOREM StoreConsistency == StoreSpec => []StoreConsistent
<1>1. StoreInit => StoreConsistent
  BY StoreConstants DEF StoreInit, StoreConsistent, Decisions, Verdicts
<1> QED
  BY <1>1, StoreTyped, ConsistentStep, PTL DEF StoreSpec
------------------------------------------------------------------------------
(* A decision that commits meets a record that has none.                   *)
LEMMA FinalStep ==
  StoreTypeOK /\ StoreConsistent /\ [StoreNext]_storeVars =>
    \A c \in Calls :
      /\ decision[c] # "none" => decision'[c] = decision[c] /\ approver'[c] = approver[c]
      /\ status[c] = "executed" => status'[c] = "executed"
<1> USE StoreConstants, NoSectionIsNone
<1> SUFFICES ASSUME StoreTypeOK, StoreConsistent, [StoreNext]_storeVars,
                    NEW c \in Calls
             PROVE  /\ decision[c] # "none" => /\ decision'[c] = decision[c]
                                               /\ approver'[c] = approver[c]
                    /\ status[c] = "executed" => status'[c] = "executed"
  OBVIOUS
<1> DEFINE Kept == /\ decision[c] # "none" => /\ decision'[c] = decision[c]
                                              /\ approver'[c] = approver[c]
                   /\ status[c] = "executed" => status'[c] = "executed"
<1>1. ASSUME NEW b \in Calls, BuildRecord(b) PROVE Kept
  BY <1>1 DEF BuildRecord, StoreTypeOK
<1>2. ASSUME NEW b \in Calls, InsertRecord(b) PROVE Kept
  BY <1>2 DEF InsertRecord, StoreTypeOK, StoreConsistent
<1>3. ASSUME NEW b \in Calls, MarkExecuted(b) PROVE Kept
  BY <1>3 DEF MarkExecuted, Known, StoreTypeOK
<1>4. ASSUME NEW t \in Threads, NEW b \in Calls, NEW v \in Verdicts, NEW p \in Principals,
             BeginDecision(t, b, v, p)
      PROVE  Kept
  BY <1>4 DEF BeginDecision, Enter
<1>5. ASSUME NEW t \in Threads, CommitDecision(t) PROVE Kept
  <2>1. status[section.id] = "pending" /\ decision[section.id] = "none"
    BY <1>5, CommitConsistent DEF CommitDecision, StoreConsistent
  <2> QED
    BY <1>5, <2>1 DEF CommitDecision, Settle, StoreTypeOK
<1>6. CASE Age
  BY <1>6 DEF Age
<1>7. ASSUME NEW d \in WallSteps, SetWallClock(d) PROVE Kept
  BY <1>7 DEF SetWallClock
<1>8. CASE UNCHANGED storeVars
  BY <1>8 DEF storeVars
<1> QED
  BY <1>1, <1>2, <1>3, <1>4, <1>5, <1>6, <1>7, <1>8 DEF StoreNext

(* The first decision on a record is the last: no later approve, deny or   *)
(* expiry replaces the decision or the principal that took it, and an      *)
(* executed record stays executed (the status checks of store.py).         *)
THEOREM DecisionsFinal == StoreSpec => DecisionFinal
<1>1. StoreTypeOK /\ StoreConsistent /\ [StoreNext]_storeVars =>
        [\A c \in Calls :
           /\ decision[c] # "none" => /\ decision'[c] = decision[c]
                                      /\ approver'[c] = approver[c]
           /\ status[c] = "executed" => status'[c] = "executed"]_storeVars
  BY FinalStep
<1> QED
  BY <1>1, StoreTyped, StoreConsistency, PTL DEF StoreSpec, DecisionFinal
------------------------------------------------------------------------------
(* From here on the wall clock is never set back.                          *)

Forward == WallSteps \subseteq Nat

(* What a section or a decision says about expiry is true: a thread that   *)
(* found the record expired is right about it, and so is its decision.     *)
ExpiryTrue ==
  /\ section # NoSection /\ ~section.live => Expired(section.id)
  /\ NoEarlyExpiry

(* Once a record was built, time only shortens what it has left.           *)
LEMMA RemainingFalls ==
  ASSUME Forward, StoreTypeOK, [StoreNext]_storeVars, NEW c \in Calls,
         status[c] # "absent", Expired(c)
  PROVE  Expired(c)' /\ status'[c] # "absent"
<1> USE StoreConstants, NoSectionIsNone
<1>1. ASSUME NEW b \in Calls, BuildRecord(b) PROVE Expired(c)' /\ status'[c] # "absent"
  BY <1>1 DEF BuildRecord, StoreTypeOK, Expired
<1>2. ASSUME NEW b \in Calls, InsertRecord(b) PROVE Expired(c)' /\ status'[c] # "absent"
  BY <1>2 DEF InsertRecord, StoreTypeOK, Expired
<1>3. ASSUME NEW b \in Calls, MarkExecuted(b) PROVE Expired(c)' /\ status'[c] # "absent"
  BY <1>3 DEF MarkExecuted, Known, StoreTypeOK, Expired
<1>4. ASSUME NEW t \in Threads, NEW b \in Calls, NEW v \in Verdicts, NEW p \in Principals,
             BeginDecision(t, b, v, p)
      PROVE  Expired(c)' /\ status'[c] # "absent"
  BY <1>4 DEF BeginDecision, Enter, Expired
<1>5. ASSUME NEW t \in Threads, CommitDecision(t)
      PROVE  Expired(c)' /\ status'[c] # "absent"
  <2>1. section \in Sections
    BY <1>5 DEF CommitDecision, StoreTypeOK
  <2>2. section.verdict # "absent"
    BY <2>1 DEF Sections, Verdicts
  <2> QED
    BY <1>5, <2>2 DEF CommitDecision, Settle, StoreTypeOK, Expired
<1>6. CASE Age
  BY <1>6 DEF Age, Expired, StoreTypeOK
<1>7. ASSUME NEW d \in WallSteps, SetWallClock(d)
      PROVE  Expired(c)' /\ status'[c] # "absent"
  <2>1. d \in Nat
    BY DEF Forward
  <2> QED
    BY <1>7, <2>1 DEF SetWallClock, Expired, StoreTypeOK
<1>8. CASE UNCHANGED storeVars
  BY <1>8 DEF storeVars, Expired
<1> QED
  BY <1>1, <1>2, <1>3, <1>4, <1>5, <1>6, <1>7, <1>8 DEF StoreNext

LEMMA ExpiryStep ==
  ASSUME Forward, StoreTypeOK, StoreConsistent, ExpiryTrue, [StoreNext]_storeVars
  PROVE  ExpiryTrue'
<1> USE StoreConstants, NoSectionIsNone
<1>1. ASSUME NEW c \in Calls, decision'[c] = "expired" PROVE Expired(c)'
  <2>1. CASE decision[c] = "expired"
    BY <2>1, RemainingFalls DEF ExpiryTrue, NoEarlyExpiry, StoreConsistent
  <2>2. CASE decision[c] # "expired"
    <3>1. PICK t \in Threads : CommitDecision(t)
      <4>1. ASSUME NEW b \in Calls, InsertRecord(b) PROVE FALSE
        BY <1>1, <2>2, <4>1 DEF InsertRecord, StoreTypeOK
      <4> QED
        BY <1>1, <2>2, <4>1 DEF StoreNext, storeVars, BuildRecord, MarkExecuted,
             BeginDecision, Enter, Age, SetWallClock
    <3>2. section \in Sections /\ section # NoSection
      BY <3>1 DEF CommitDecision, StoreTypeOK
    <3>3. section.id = c /\ ~section.live
      BY <1>1, <2>2, <3>1, <3>2
      DEF CommitDecision, Settle, StoreTypeOK, Sections, Verdicts
    <3> QED
      BY <3>1, <3>2, <3>3 DEF ExpiryTrue, CommitDecision, Expired
  <2> QED
    BY <2>1, <2>2
<1>2. ASSUME section' # NoSection, ~section'.live PROVE Expired(section.id)'
  <2>1. CASE UNCHANGED section
    <3>1. section.id \in Calls
      BY <1>2, <2>1 DEF StoreTypeOK, Sections
    <3>2. status[section.id] # "absent" /\ Expired(section.id)
      BY <1>2, <2>1 DEF ExpiryTrue, StoreConsistent
    <3> QED
      BY <2>1, <3>1, <3>2, RemainingFalls DEF Expired
  <2>2. CASE section' # section
    <3>1. PICK t \in Threads, c \in Calls, v \in Verdicts, p \in Principals :
            BeginDecision(t, c, v, p)
      BY <1>2, <2>2 DEF StoreNext, storeVars, BuildRecord, InsertRecord, MarkExecuted,
           CommitDecision, Age, SetWallClock
    <3>2. section'.id = c /\ section'.live = ~Expired(c) /\ remaining' = remaining
      BY <3>1 DEF BeginDecision, Enter
    <3> QED
      BY <1>2, <3>2 DEF Expired
  <2> QED
    BY <2>1, <2>2
<1> QED
  BY <1>1, <1>2 DEF ExpiryTrue, NoEarlyExpiry, Expired

(* No record is lost early: what is decided "expired" is past its TTL, as  *)
(* long as the wall clock is never set back (store.py:78-83 and 99-104).   *)
THEOREM ExpiryNeverEarly == ASSUME Forward PROVE StoreSpec => []NoEarlyExpiry
<1>1. StoreInit => ExpiryTrue
  BY DEF StoreInit, ExpiryTrue, NoEarlyExpiry
<1>2. StoreTypeOK /\ StoreConsistent /\ ExpiryTrue /\ [StoreNext]_storeVars => ExpiryTrue'
  BY ExpiryStep
<1>3. StoreSpec => []ExpiryTrue
  BY <1>1, <1>2, StoreTyped, StoreConsistency, PTL DEF StoreSpec
<1>4. ExpiryTrue => NoEarlyExpiry
  BY DEF ExpiryTrue
<1> QED
  BY <1>3, <1>4, PTL
------------------------------------------------------------------------------
(* The record of c can only expire: its TTL is over, and no decision taken *)
(* before that is still to be written.                                     *)
Lapsed(c) ==
  /\ Expired(c)
  /\ status[c] # "absent"
  /\ status[c] = "pending" \/ decision[c] \in {"denied", "expired"}
  /\ section # NoSection /\ section.id = c => ~section.live

LEMMA LapsedStep ==
  ASSUME Forward, StoreTypeOK, StoreConsistent, [StoreNext]_storeVars,
         NEW c \in Calls, Lapsed(c)
  PROVE  Lapsed(c)'
<1> USE StoreConstants, NoSectionIsNone
<1>1. Expired(c)' /\ status'[c] # "absent"
  BY RemainingFalls DEF Lapsed
<1> DEFINE Rest == /\ status'[c] = "pending" \/ decision'[c] \in {"denied", "expired"}
                   /\ section' # NoSection /\ section'.id = c => ~section'.live
<1>2. Rest
  <2>1. ASSUME NEW b \in Calls, BuildRecord(b) PROVE Rest
    BY <2>1 DEF BuildRecord, StoreTypeOK, Lapsed
  <2>2. ASSUME NEW b \in Calls, InsertRecord(b) PROVE Rest
    BY <2>2 DEF InsertRecord, StoreTypeOK, Lapsed, StoreConsistent
  <2>3. ASSUME NEW b \in Calls, decision[b] = "approved", MarkExecuted(b) PROVE Rest
    BY <2>3 DEF MarkExecuted, StoreTypeOK, Lapsed, StoreConsistent
  <2>4. ASSUME NEW t \in Threads, NEW b \in Calls, NEW v \in Verdicts, NEW p \in Principals,
               BeginDecision(t, b, v, p)
        PROVE  Rest
    <3>1. section'.id = b /\ section'.live = ~Expired(b)
      BY <2>4 DEF BeginDecision, Enter
    <3> QED
      BY <2>4, <3>1 DEF BeginDecision, Enter, Lapsed
  <2>5. ASSUME NEW t \in Threads, CommitDecision(t) PROVE Rest
    <3>1. section \in Sections /\ section # NoSection
      BY <2>5 DEF CommitDecision, StoreTypeOK
    <3>2. section.id \in Calls
      BY <3>1 DEF Sections
    <3>3. section' = NoSection
      BY <2>5 DEF CommitDecision
    <3>4. CASE section.id = c
      BY <2>5, <3>1, <3>2, <3>3, <3>4 DEF CommitDecision, Settle, StoreTypeOK, Lapsed
    <3>5. CASE section.id # c
      BY <2>5, <3>2, <3>3, <3>5 DEF CommitDecision, Settle, StoreTypeOK, Lapsed
    <3> QED
      BY <3>4, <3>5
  <2>6. CASE Age
    BY <2>6 DEF Age, Lapsed
  <2>7. ASSUME NEW d \in WallSteps, SetWallClock(d) PROVE Rest
    BY <2>7 DEF SetWallClock, Lapsed
  <2>8. CASE UNCHANGED storeVars
    BY <2>8 DEF storeVars, Lapsed
  <2> QED
    BY <2>1, <2>2, <2>3, <2>4, <2>5, <2>6, <2>7, <2>8 DEF StoreNext
<1> QED
  BY <1>1, <1>2 DEF Lapsed, Expired

(* No approval after the TTL: once a record is seen past its expiry with   *)
(* no decision in progress, no approve ever succeeds on it, as long as the *)
(* wall clock is never set back (store.py:75-83).                          *)
THEOREM ApprovalNeverLate == ASSUME Forward PROVE StoreSpec => NoLateApproval
<1> SUFFICES ASSUME NEW c \in Calls
             PROVE  StoreSpec =>
                      [](status[c] = "pending" /\ Expired(c) /\ LockFree =>
                           [](decision[c] # "approved"))
  BY DEF NoLateApproval
<1>1. status[c] = "pending" /\ Expired(c) /\ LockFree => Lapsed(c)
  BY DEF Lapsed, LockFree
<1>2. StoreTypeOK /\ StoreConsistent /\ Lapsed(c) /\ [StoreNext]_storeVars => Lapsed(c)'
  BY LapsedStep
<1>3. StoreConsistent /\ Lapsed(c) => decision[c] # "approved"
  BY DEF StoreConsistent, Lapsed
<1> QED
  BY <1>1, <1>2, <1>3, StoreTyped, StoreConsistency, PTL DEF StoreSpec
==============================================================================
