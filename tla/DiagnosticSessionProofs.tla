---------------------- MODULE DiagnosticSessionProofs -----------------------
(***************************************************************************)
(* Safety of the session table for any conversations, requests, messages,  *)
(* power readings, equipment and clock bound.                              *)
(***************************************************************************)
EXTENDS DiagnosticSession, TLAPS

-----------------------------------------------------------------------------
(* What the pure parts return.                                             *)

\* What a verdict can be: open only with a problem, without a step only when
\* healthy, and at one of three distances from the end.
LEMMA DiagnosisFacts ==
    ASSUME NEW t \in Technical
    PROVE  LET d == Diagnosis(t) IN
           /\ d.status \in DiagnosticStatuses
           /\ d.wfStatus \in {"waiting_user", "waiting_system", "completed"}
           /\ d.step \in WorkflowSteps
           /\ d.wfStatus # "completed" => d.step \notin {"null", "none"} /\ d.status # "SUCCESS"
           /\ d.step = "null" => d.wfStatus = "completed" /\ d.status = "SUCCESS"
           /\ Rank([status |-> d.wfStatus, step |-> d.step]) \in {0, 2, 4}
  BY DEF Diagnosis, Verdict, DiagnosticStatuses, WorkflowSteps, Rank, Closed

\* Every reaction to a message closes the session or leaves it waiting at a
\* step, and never further from its end than it was.
LEMMA ReactionFacts ==
    ASSUME NEW s \in Rows, NEW m, CoherentRow(s), ~NeedsRecheck(s)
    PROVE  LET move == Reaction(s, m) IN
           /\ move.status \in {"waiting_user", "waiting_system", "completed"}
           /\ move.step \in WorkflowSteps \ {"null"}
           /\ move.status # "completed" => move.step # "none" /\ ~Closed(s)
           /\ Rank(move) <= Rank(s)
<1>1. CASE Closed(s)
  BY <1>1 DEF Reaction, CoherentRow, Closed, Rank, Complete, To, WorkflowSteps
<1>2. CASE ~Closed(s) /\ s.step = "ask_led_status"
  <2>1. Reaction(s, m) = AskLedStatus(m)
    BY <1>2 DEF Reaction, Closed
  <2>2. AskLedStatus(m) \in {To("waiting_user", "verify_power"), To("waiting_user", "ask_led_status"),
                            To("waiting_system", "schedule_visit"), To("waiting_system", "recheck")}
    BY DEF AskLedStatus, WaitUser, WaitSystem
  <2>3. QED BY <2>1, <2>2, <1>2 DEF To, Rank, Closed, WorkflowSteps
<1>3. CASE ~Closed(s) /\ s.step = "verify_power"
  <2>1. Reaction(s, m) = VerifyPower(m)
    BY <1>3 DEF Reaction, Closed
  <2>2. VerifyPower(m) \in {To("waiting_user", "verify_power"), To("waiting_user", "schedule_visit"),
                           To("waiting_system", "schedule_visit"), To("waiting_system", "recheck")}
    BY DEF VerifyPower, WaitUser, WaitSystem
  <2>3. QED BY <2>1, <2>2, <1>3 DEF To, Rank, Closed, WorkflowSteps
<1>4. CASE ~Closed(s) /\ s.step \notin {"ask_led_status", "verify_power"}
  <2>1. Reaction(s, m) \in {To("completed", "none"), To("waiting_user", "transfer_support")}
    BY <1>4 DEF Reaction, Closed, Complete, WaitUser
  <2>2. s.step \in {"schedule_visit", "transfer_support"} => Reaction(s, m) = To("completed", "none")
    BY <1>4 DEF Reaction, Closed, Complete
  <2>3. QED BY <2>1, <2>2, <1>4 DEF To, Rank, Closed, WorkflowSteps
<1>5. QED BY <1>1, <1>2, <1>3, <1>4

LEMMA RankType == ASSUME NEW s PROVE Rank(s) \in 0 .. 4
  BY DEF Rank

\* The rank of a session depends on its status and its step only.
LEMMA RankOf ==
    ASSUME NEW s, NEW u, s.status = u.status, s.step = u.step
    PROVE  Rank(s) = Rank(u)
  BY DEF Rank, Closed

-----------------------------------------------------------------------------
(* The inductive invariant.                                                *)

\* Starts and continues go through their own stages.
Kinds ==
    /\ \A r \in Starts : pc[r] \notin {"load", "recheck", "update", "not_found"}
    /\ \A r \in Continues : pc[r] \notin {"collect", "find", "save"}

\* A row's id was made up by a start of its own conversation.
RowIds == \A c \in Conversations : sessions[c] # NoRow => ConvOf[sessions[c].id] = c

\* The session object a start is about to store.
StartHolds ==
    \A r \in Starts : pc[r] \in {"find", "save"} =>
        /\ work[r] \in Rows /\ CoherentRow(work[r])
        /\ work[r].origin = r /\ ConvOf[work[r].id] = ConvOf[r]
        /\ Rank(work[r]) \in {0, 2, 4}

\* The session object a continue holds still has the id of its row.
ContinueHolds ==
    \A r \in Continues : pc[r] \in {"recheck", "update"} =>
        /\ work[r] \in Rows /\ CoherentRow(work[r])
        /\ Row(r) # NoRow /\ Row(r).id = work[r].id
        /\ pc[r] = "recheck" => NeedsRecheck(work[r])

\* As long as nobody has overtaken it, what a continue holds follows from the row.
FreshHolds ==
    \A r \in Continues \ stale : pc[r] \in {"recheck", "update"} =>
        /\ pc[r] = "recheck" => work[r] = Row(r)
        /\ Rank(work[r]) <= Rank(Row(r))
        /\ work[r].origin = Row(r).origin
        /\ work[r].expiresAt = Row(r).expiresAt

SessionInv ==
    /\ TypeOK
    /\ StoredSessionsAreCoherent
    /\ Kinds
    /\ RowIds
    /\ StartHolds
    /\ ContinueHolds
    /\ FreshHolds

-----------------------------------------------------------------------------
(* Consequences of the invariant used by several steps.                    *)

LEMMA ConvType == ASSUME NEW r \in Requests PROVE ConvOf[r] \in Conversations
  BY SessionAssumption

LEMMA KindsDisjoint == ASSUME NEW r \in Starts PROVE r \in Requests /\ r \notin Continues
  BY SessionAssumption DEF Requests

\* An update by id hits the row that was read and no other.
LEMMA TargetIsTheRow ==
    ASSUME SessionInv, NEW r \in Continues, pc[r] \in {"recheck", "update"}
    PROVE  Target(r) = {ConvOf[r]}
<1>1. r \in Requests /\ ConvOf[r] \in Conversations
  BY ConvType DEF Requests
<1>2. Row(r) # NoRow /\ Row(r).id = work[r].id
  BY DEF SessionInv, ContinueHolds
<1>3. ASSUME NEW c \in Target(r) PROVE c = ConvOf[r]
  BY <1>1, <1>2, <1>3 DEF Target, SessionInv, RowIds, Row
<1>4. ConvOf[r] \in Target(r)
  BY <1>1, <1>2 DEF Target, Row
<1>5. QED BY <1>3, <1>4

-----------------------------------------------------------------------------
LEMMA InitEstablishes == Init => SessionInv
<1>1. Init => TypeOK
  BY SessionAssumption DEF Init, TypeOK
<1>2. QED
  BY <1>1, KindsDisjoint DEF Init, SessionInv, StoredSessionsAreCoherent, Kinds, RowIds, StartHolds,
     ContinueHolds, FreshHolds, Requests

\* Steps that leave the table alone and only move requests on: what every
\* request that still holds a session held before is unchanged.
LEMMA QuietStep ==
    ASSUME SessionInv, UNCHANGED <<sessions, stale, saved>>, now' \in 0 .. MaxTime, TypeOK',
           Kinds',
           \A r \in Requests : pc'[r] \in {"find", "save", "recheck", "update"} =>
                                   pc'[r] = pc[r] /\ work'[r] = work[r]
    PROVE  SessionInv'
<1>1. StoredSessionsAreCoherent' /\ RowIds'
  BY DEF SessionInv, StoredSessionsAreCoherent, RowIds
<1>2. StartHolds'
  BY KindsDisjoint DEF SessionInv, StartHolds
<1>3. ContinueHolds'
  BY DEF SessionInv, ContinueHolds, Row, Requests
<1>4. FreshHolds'
  BY DEF SessionInv, FreshHolds, Row, Requests
<1>5. QED BY <1>1, <1>2, <1>3, <1>4 DEF SessionInv

LEMMA QuietSteps ==
    ASSUME SessionInv,
           \/ \E r \in Starts : StartArrive(r)
           \/ \E r \in Continues : ContinueArrive(r) \/ ContinueNotFound(r)
           \/ \E r \in Requests : Reject(r)
           \/ Tick
           \/ Restart
           \/ UNCHANGED vars
    PROVE  SessionInv'
<1> USE DEF SessionInv
<1>1. CASE \E r \in Starts : StartArrive(r)
  <2>1. PICK r \in Starts : Arrive(r, "collect")
    BY <1>1 DEF StartArrive
  <2>2. TypeOK' /\ Kinds'
    BY <2>1, KindsDisjoint DEF Arrive, Goto, TypeOK, Kinds, InFlight, Requests
  <2>3. QED BY <2>1, <2>2, KindsDisjoint, QuietStep DEF Arrive, Goto, TypeOK
<1>2. CASE \E r \in Continues : ContinueArrive(r)
  <2>1. PICK r \in Continues : Arrive(r, "load")
    BY <1>2 DEF ContinueArrive
  <2>2. TypeOK' /\ Kinds'
    BY <2>1, KindsDisjoint DEF Arrive, Goto, TypeOK, Kinds, InFlight, Requests
  <2>3. QED BY <2>1, <2>2, QuietStep DEF Arrive, Goto, TypeOK, Requests
<1>3. CASE \E r \in Continues : ContinueNotFound(r)
  <2>1. PICK r \in Continues : ContinueNotFound(r)
    BY <1>3
  <2>2. TypeOK' /\ Kinds'
    BY <2>1, KindsDisjoint DEF ContinueNotFound, Goto, TypeOK, Kinds, Answers, Requests
  <2>3. QED BY <2>1, <2>2, QuietStep DEF ContinueNotFound, Goto, TypeOK, Requests
<1>4. CASE \E r \in Requests : Reject(r)
  <2>1. PICK r \in Requests : Reject(r)
    BY <1>4
  <2>2. TypeOK' /\ Kinds'
    BY <2>1, KindsDisjoint DEF Reject, Goto, TypeOK, Kinds, Answers, Requests
  <2>3. QED BY <2>1, <2>2, QuietStep DEF Reject, Goto, TypeOK
<1>5. CASE Tick
  BY <1>5, QuietStep, SessionAssumption DEF Tick, TypeOK, Kinds
<1>6. CASE Restart
  <2>1. TypeOK' /\ Kinds'
    BY <1>6, KindsDisjoint DEF Restart, TypeOK, Kinds, InFlight, Answers, Requests
  <2>2. QED BY <1>6, <2>1, QuietStep DEF Restart, TypeOK, InFlight
<1>7. CASE UNCHANGED vars
  BY <1>7, QuietStep DEF vars, TypeOK, Kinds
<1>8. QED BY <1>1, <1>2, <1>3, <1>4, <1>5, <1>6, <1>7

\* A step that leaves the table alone and gives request r a session to hold:
\* it is enough to look at r.
LEMMA HoldStep ==
    ASSUME SessionInv, UNCHANGED <<sessions, now, stale, saved>>, NEW r \in Requests,
           NEW row \in Rows, NEW l \in {"find", "save", "recheck", "update"},
           Hold(r, row), Goto(r, l), CoherentRow(row),
           r \in Starts =>
               /\ l \in {"find", "save"} /\ row.origin = r
               /\ ConvOf[row.id] = ConvOf[r] /\ Rank(row) \in {0, 2, 4},
           r \in Continues =>
               /\ l \in {"recheck", "update"}
               /\ Row(r) # NoRow /\ row.id = Row(r).id
               /\ l = "recheck" => NeedsRecheck(row)
               /\ r \notin stale =>
                      /\ l = "recheck" => row = Row(r)
                      /\ Rank(row) <= Rank(Row(r))
                      /\ row.origin = Row(r).origin /\ row.expiresAt = Row(r).expiresAt
    PROVE  SessionInv'
<1> USE DEF SessionInv
<1>0. /\ work' = [work EXCEPT ![r] = row] /\ pc' = [pc EXCEPT ![r] = l]
      /\ pc[r] # l => TRUE
      /\ work \in [Requests -> Rows \cup {NoRow}]
      /\ pc \in [Requests -> {"idle"} \cup InFlight \cup Answers]
      /\ \A q \in Requests : q # r => work'[q] = work[q] /\ pc'[q] = pc[q]
      /\ work'[r] = row /\ pc'[r] = l
  BY DEF Hold, Goto, TypeOK
<1>1. TypeOK'
  BY <1>0 DEF TypeOK, InFlight
<1>2. StoredSessionsAreCoherent' /\ RowIds'
  BY DEF StoredSessionsAreCoherent, RowIds
<1>3. Kinds'
  BY <1>0, KindsDisjoint DEF Kinds, Requests
<1>4. StartHolds'
  BY <1>0, KindsDisjoint DEF StartHolds
<1>5. ContinueHolds'
  BY <1>0 DEF ContinueHolds, Row, Requests
<1>6. FreshHolds'
  BY <1>0 DEF FreshHolds, Row, Requests
<1>7. QED BY <1>1, <1>2, <1>3, <1>4, <1>5, <1>6

LEMMA StartCollectedPreserves ==
    ASSUME SessionInv, NEW r \in Starts, NEW e \in Equipment, NEW t \in Technical,
           StartCollected(r, e, t)
    PROVE  SessionInv'
<1> DEFINE d == Diagnosis(t)
           row == [id |-> r, status |-> d.wfStatus, step |-> d.step, equipment |-> e,
                   technicalOf |-> e, diagnosis |-> d.status,
                   expiresAt |-> now + Lifetime, origin |-> r]
<1>1. now + Lifetime \in 0 .. MaxTime + Lifetime
  BY SessionAssumption DEF SessionInv, TypeOK
<1>2. row \in Rows
  BY <1>1, DiagnosisFacts DEF Rows, WorkflowStatuses
<1>3. CoherentRow(row)
  BY DiagnosisFacts DEF CoherentRow, Closed
<1>4. Rank(row) \in {0, 2, 4}
  BY DiagnosisFacts, RankOf
<1>5. /\ Hold(r, row) /\ Goto(r, "find") /\ UNCHANGED <<sessions, now, stale, saved>>
  BY DEF StartCollected
<1>6. row.origin = r /\ row.id = r
  OBVIOUS
<1> HIDE DEF row
<1>7. QED
  BY <1>2, <1>3, <1>4, <1>5, <1>6, KindsDisjoint, HoldStep

LEMMA StartFindPreserves ==
    ASSUME SessionInv, NEW r \in Starts, StartFind(r)
    PROVE  SessionInv'
<1> DEFINE i == IF Row(r) = NoRow THEN r ELSE Row(r).id
           row == [work[r] EXCEPT !.id = i]
<1>1. work[r] \in Rows /\ CoherentRow(work[r]) /\ work[r].origin = r /\ Rank(work[r]) \in {0, 2, 4}
  BY DEF StartFind, SessionInv, StartHolds
<1>2. Row(r) # NoRow => Row(r) \in Rows /\ ConvOf[Row(r).id] = ConvOf[r]
  BY ConvType, KindsDisjoint DEF SessionInv, TypeOK, RowIds, Row
<1>3. i \in Starts /\ ConvOf[i] = ConvOf[r]
  BY <1>2 DEF Rows
<1>4. /\ row \in Rows /\ row.id = i /\ row.origin = r
      /\ row.status = work[r].status /\ row.step = work[r].step
      /\ row.technicalOf = work[r].technicalOf /\ row.equipment = work[r].equipment
      /\ row.diagnosis = work[r].diagnosis
  BY <1>1, <1>3 DEF Rows
<1>5. Rank(row) \in {0, 2, 4}
  BY <1>1, <1>4, RankOf
<1>6. CoherentRow(row)
  BY <1>1, <1>4 DEF CoherentRow, Closed
<1>7. Hold(r, row) /\ Goto(r, "save") /\ UNCHANGED <<sessions, now, stale, saved>>
  BY DEF StartFind
<1> HIDE DEF row, i
<1>8. QED
  BY <1>3, <1>4, <1>5, <1>6, <1>7, KindsDisjoint, HoldStep

LEMMA ContinueLoadPreserves ==
    ASSUME SessionInv, NEW r \in Continues, NEW m \in Messages, ContinueLoad(r, m)
    PROVE  SessionInv'
<1> DEFINE move == Reaction(Row(r), m)
           row == [Row(r) EXCEPT !.status = move.status, !.step = move.step]
<1>1. r \in Requests /\ r \notin Starts
  BY KindsDisjoint DEF Requests
<1>2. Row(r) \in Rows /\ CoherentRow(Row(r)) /\ ~NeedsRecheck(Row(r)) /\ Row(r) # NoRow
  BY <1>1, ConvType DEF ContinueLoad, SessionInv, TypeOK, StoredSessionsAreCoherent, Row
<1>3. /\ move.status \in {"waiting_user", "waiting_system", "completed"}
      /\ move.step \in WorkflowSteps \ {"null"}
      /\ move.status # "completed" => move.step # "none" /\ ~Closed(Row(r))
      /\ Rank(move) <= Rank(Row(r))
  BY <1>2, ReactionFacts
<1> HIDE DEF move
<1>4. /\ row \in Rows /\ row.status = move.status /\ row.step = move.step
      /\ row.id = Row(r).id /\ row.origin = Row(r).origin /\ row.expiresAt = Row(r).expiresAt
      /\ row.technicalOf = Row(r).technicalOf /\ row.equipment = Row(r).equipment
      /\ row.diagnosis = Row(r).diagnosis
  BY <1>2, <1>3 DEF Rows, WorkflowStatuses
<1>5. CoherentRow(row)
  BY <1>2, <1>3, <1>4 DEF CoherentRow, Closed
<1>6. Rank(row) <= Rank(Row(r))
  BY <1>3, <1>4, RankOf
<1>7. Hold(r, row) /\ Goto(r, "update") /\ UNCHANGED <<sessions, now, stale, saved>>
  BY DEF ContinueLoad, move
<1> HIDE DEF row
<1>8. QED
  BY <1>1, <1>2, <1>4, <1>5, <1>6, <1>7, HoldStep

LEMMA ContinueToRecheckPreserves ==
    ASSUME SessionInv, NEW r \in Continues, ContinueToRecheck(r)
    PROVE  SessionInv'
<1>1. r \in Requests /\ r \notin Starts
  BY KindsDisjoint DEF Requests
<1>2. Row(r) \in Rows /\ CoherentRow(Row(r)) /\ NeedsRecheck(Row(r)) /\ Row(r) # NoRow
  BY <1>1, ConvType DEF ContinueToRecheck, SessionInv, TypeOK, StoredSessionsAreCoherent, Row
<1>3. Rank(Row(r)) <= Rank(Row(r))
  BY RankType
<1>4. Hold(r, Row(r)) /\ Goto(r, "recheck") /\ UNCHANGED <<sessions, now, stale, saved>>
  BY DEF ContinueToRecheck
<1>5. QED
  BY <1>1, <1>2, <1>3, <1>4, HoldStep

\* After the recheck, whether it succeeded or not, the session is at most one
\* step from its end and was two away.
LEMMA RecheckedPreserves ==
    ASSUME SessionInv, NEW r \in Continues, pc[r] = "recheck", UNCHANGED <<sessions, now, stale, saved>>,
           Goto(r, "update"), NEW row \in Rows, Hold(r, row), CoherentRow(row), Rank(row) <= 1,
           row.id = work[r].id, row.origin = work[r].origin, row.expiresAt = work[r].expiresAt
    PROVE  SessionInv'
<1>1. r \in Requests /\ r \notin Starts
  BY KindsDisjoint DEF Requests
<1>2. Row(r) # NoRow /\ Row(r).id = work[r].id /\ NeedsRecheck(work[r])
  BY DEF SessionInv, ContinueHolds
<1>3. r \notin stale => work[r] = Row(r)
  BY DEF SessionInv, FreshHolds
<1>4. r \notin stale => Rank(Row(r)) = 2
  BY <1>2, <1>3 DEF NeedsRecheck, Rank, Closed
<1>5. r \notin stale => Rank(row) <= Rank(Row(r))
  BY <1>4, RankType
<1>6. QED
  BY <1>1, <1>2, <1>3, <1>5, HoldStep

LEMMA RecheckStepPreserves ==
    ASSUME SessionInv, NEW r \in Continues,
           RecheckRejected(r) \/ \E t \in Technical : Rechecked(r, t)
    PROVE  SessionInv'
<1>1. pc[r] = "recheck"
  BY DEF RecheckRejected, Rechecked
<1>2. work[r] \in Rows /\ CoherentRow(work[r]) /\ NeedsRecheck(work[r])
  BY <1>1 DEF SessionInv, ContinueHolds
<1>3. CASE RecheckRejected(r)
  <2> DEFINE row == [work[r] EXCEPT !.status = RecheckFailed.status, !.step = RecheckFailed.step]
  <2>0. RecheckFailed.status = "waiting_user" /\ RecheckFailed.step = "transfer_support"
    BY DEF RecheckFailed, WaitUser, To
  <2>2. /\ row \in Rows /\ row.status = "waiting_user" /\ row.step = "transfer_support"
        /\ row.technicalOf = work[r].technicalOf /\ row.equipment = work[r].equipment
        /\ row.diagnosis = work[r].diagnosis
        /\ row.id = work[r].id /\ row.origin = work[r].origin
        /\ row.expiresAt = work[r].expiresAt
    BY <1>2, <2>0 DEF Rows, WorkflowStatuses, WorkflowSteps
  <2>1. row \in Rows /\ CoherentRow(row) /\ Rank(row) <= 1
    BY <1>2, <2>2 DEF CoherentRow, NeedsRecheck, Closed, Rank
  <2>3. Hold(r, row) /\ Goto(r, "update") /\ UNCHANGED <<sessions, now, stale, saved>>
    BY <1>3 DEF RecheckRejected
  <2> HIDE DEF row
  <2>4. QED BY <1>1, <2>1, <2>2, <2>3, RecheckedPreserves
<1>4. CASE \E t \in Technical : Rechecked(r, t)
  <2>1. PICK t \in Technical : Rechecked(r, t)
    BY <1>4
  <2> DEFINE d == Diagnosis(t)
             move == RecheckVerdict(d.status)
             row == [work[r] EXCEPT !.status = move.status, !.step = move.step,
                                    !.technicalOf = work[r].equipment, !.diagnosis = d.status]
  <2>2. d.status \in DiagnosticStatuses
    BY DiagnosisFacts
  <2>3. /\ move \in {To("completed", "none"), To("waiting_user", "schedule_visit")}
        /\ move.status # "completed" => d.status # "SUCCESS"
    BY DEF RecheckVerdict, Complete, WaitUser, To
  <2>4. Hold(r, row) /\ Goto(r, "update") /\ UNCHANGED <<sessions, now, stale, saved>>
    BY <2>1 DEF Rechecked
  <2> HIDE DEF d, move
  <2>c. move.status \in WorkflowStatuses /\ move.step \in WorkflowSteps
    BY <2>3 DEF To, WorkflowStatuses, WorkflowSteps
  <2>5. /\ row \in Rows /\ row.status = move.status /\ row.step = move.step
        /\ row.technicalOf = row.equipment /\ row.diagnosis = d.status
        /\ row.id = work[r].id /\ row.origin = work[r].origin
        /\ row.expiresAt = work[r].expiresAt
    BY <1>2, <2>2, <2>c DEF Rows
  <2> HIDE DEF row
  <2>6. CoherentRow(row) /\ Rank(row) <= 1
    BY <2>3, <2>5 DEF CoherentRow, Closed, Rank, To
  <2>7. QED BY <1>1, <2>4, <2>5, <2>6, RecheckedPreserves
<1>5. QED BY <1>3, <1>4

-----------------------------------------------------------------------------
(* The two writes.                                                         *)

\* A write by w keeps the row's id and marks everybody else who holds the row.
LEMMA WriteStep ==
    ASSUME SessionInv, NEW w \in Requests, NEW row \in Rows, UNCHANGED <<now, work>>,
           sessions' = [sessions EXCEPT ![ConvOf[w]] = row],
           Overtake(w, ConvOf[w]), NEW l \in {"answered", "failed"}, Goto(w, l),
           saved' \subseteq Starts, CoherentRow(row), ConvOf[row.id] = ConvOf[w],
           Row(w) # NoRow => row.id = Row(w).id
    PROVE  SessionInv'
<1> USE DEF SessionInv
<1>0. /\ ConvOf[w] \in Conversations
      /\ sessions'[ConvOf[w]] = row
      /\ \A c \in Conversations : c # ConvOf[w] => sessions'[c] = sessions[c]
      /\ pc'[w] = l
      /\ \A q \in Requests : q # w => pc'[q] = pc[q]
      /\ row # NoRow
  BY ConvType, RowAssumption DEF TypeOK, Goto
<1>1. TypeOK'
  <2>1. sessions' \in [Conversations -> Rows \cup {NoRow}]
    BY <1>0 DEF TypeOK
  <2>2. pc' \in [Requests -> {"idle"} \cup InFlight \cup Answers]
    BY DEF TypeOK, Goto, Answers
  <2>3. stale' \subseteq Requests
    BY DEF TypeOK, Overtake, Holding
  <2>4. now' \in 0 .. MaxTime /\ work' \in [Requests -> Rows \cup {NoRow}]
    BY DEF TypeOK
  <2>5. QED BY <2>1, <2>2, <2>3, <2>4 DEF TypeOK
<1>2. StoredSessionsAreCoherent' /\ RowIds'
  BY <1>0 DEF StoredSessionsAreCoherent, RowIds
<1>3. Kinds'
  BY <1>0, KindsDisjoint DEF Kinds, Requests
<1>4. StartHolds'
  BY <1>0, KindsDisjoint DEF StartHolds
<1>5. ContinueHolds'
  <2> SUFFICES ASSUME NEW r \in Continues, pc'[r] \in {"recheck", "update"}
               PROVE  /\ work[r] \in Rows /\ CoherentRow(work[r])
                      /\ Row(r)' # NoRow /\ Row(r)'.id = work[r].id
                      /\ pc'[r] = "recheck" => NeedsRecheck(work[r])
    BY DEF ContinueHolds
  <2>1. r \in Requests /\ r # w /\ pc'[r] = pc[r]
    BY <1>0 DEF Requests
  <2>2. /\ work[r] \in Rows /\ CoherentRow(work[r]) /\ Row(r) # NoRow /\ Row(r).id = work[r].id
        /\ pc[r] = "recheck" => NeedsRecheck(work[r])
    BY <2>1 DEF ContinueHolds
  <2>3. CASE ConvOf[r] = ConvOf[w]
    BY <2>1, <2>2, <2>3, <1>0 DEF Row
  <2>4. CASE ConvOf[r] # ConvOf[w]
    BY <2>1, <2>2, <2>4, <1>0, ConvType DEF Row
  <2>5. QED BY <2>3, <2>4
<1>6. FreshHolds'
  <2> SUFFICES ASSUME NEW r \in Continues, r \notin stale', pc'[r] \in {"recheck", "update"}
               PROVE  /\ pc'[r] = "recheck" => work[r] = Row(r)'
                      /\ Rank(work[r]) <= Rank(Row(r))'
                      /\ work[r].origin = Row(r)'.origin
                      /\ work[r].expiresAt = Row(r)'.expiresAt
    BY DEF FreshHolds
  <2>1. r \in Requests /\ r # w /\ pc'[r] = pc[r] /\ r \notin stale
    BY <1>0 DEF Requests, Overtake
  <2>2. ConvOf[r] # ConvOf[w]
    BY <2>1 DEF Overtake, Holding
  <2>3. Row(r)' = Row(r)
    BY <2>1, <2>2, <1>0, ConvType DEF Row
  <2>4. QED BY <2>1, <2>3 DEF FreshHolds
<1>7. QED BY <1>1, <1>2, <1>3, <1>4, <1>5, <1>6

\* What a save and an update write, and that they keep the row's id.
LEMMA SaveWrites ==
    ASSUME SessionInv, NEW r \in Starts, StartSave(r)
    PROVE  \E row \in Rows :
             /\ sessions' = [sessions EXCEPT ![ConvOf[r]] = row]
             /\ CoherentRow(row) /\ ConvOf[row.id] = ConvOf[r] /\ Rank(row) \in {0, 2, 4}
             /\ Row(r) # NoRow => row.id = Row(r).id
             /\ row.origin = r
<1>1. r \in Requests /\ ConvOf[r] \in Conversations
  BY ConvType, KindsDisjoint
<1>2. /\ work[r] \in Rows /\ CoherentRow(work[r]) /\ work[r].origin = r
      /\ ConvOf[work[r].id] = ConvOf[r] /\ Rank(work[r]) \in {0, 2, 4}
  BY DEF StartSave, SessionInv, StartHolds
<1>3. Row(r) # NoRow => Row(r).id \in Starts /\ ConvOf[Row(r).id] = ConvOf[r]
  BY <1>1 DEF SessionInv, TypeOK, RowIds, Row, Rows
<1> DEFINE row == Upserted(Row(r), work[r])
<1>4. sessions' = [sessions EXCEPT ![ConvOf[r]] = row]
  BY <1>1 DEF StartSave, Row, SessionInv, TypeOK
<1>5. CASE Row(r) = NoRow
  <2>1. row = work[r]
    BY <1>5 DEF Upserted
  <2>2. QED BY <1>2, <1>4, <1>5, <2>1
<1>6. CASE Row(r) # NoRow
  <2>1. row = [work[r] EXCEPT !.id = Row(r).id]
    BY <1>6 DEF Upserted
  <2>2. /\ row \in Rows /\ row.id = Row(r).id /\ row.origin = work[r].origin
        /\ row.status = work[r].status /\ row.step = work[r].step
        /\ row.technicalOf = work[r].technicalOf /\ row.equipment = work[r].equipment
        /\ row.diagnosis = work[r].diagnosis
    BY <1>2, <1>3, <1>6, <2>1 DEF Rows
  <2> HIDE DEF row
  <2>3. CoherentRow(row)
    BY <1>2, <2>2 DEF CoherentRow, Closed
  <2>4. Rank(row) = Rank(work[r])
    BY <2>2, RankOf
  <2>5. QED BY <1>2, <1>3, <1>4, <1>6, <2>2, <2>3, <2>4
<1>7. QED BY <1>5, <1>6

LEMMA UpdateWrites ==
    ASSUME SessionInv, NEW r \in Continues, ContinueUpdate(r)
    PROVE  /\ sessions' = [sessions EXCEPT ![ConvOf[r]] = work[r]]
           /\ work[r] \in Rows /\ CoherentRow(work[r]) /\ Row(r) # NoRow
           /\ work[r].id = Row(r).id /\ ConvOf[work[r].id] = ConvOf[r]
           /\ Committed(r)
<1>1. pc[r] = "update"
  BY DEF ContinueUpdate
<1>2. Target(r) = {ConvOf[r]}
  BY <1>1, TargetIsTheRow
<1>3. r \in Requests /\ ConvOf[r] \in Conversations
  BY ConvType DEF Requests
<1>4. sessions' = [sessions EXCEPT ![ConvOf[r]] = work[r]]
  BY <1>2, <1>3 DEF ContinueUpdate, SessionInv, TypeOK
<1>5. work[r] \in Rows /\ CoherentRow(work[r]) /\ Row(r) # NoRow /\ work[r].id = Row(r).id
  BY <1>1 DEF SessionInv, ContinueHolds
<1>6. ConvOf[work[r].id] = ConvOf[r]
  BY <1>3, <1>5 DEF SessionInv, RowIds, Row
<1>7. QED BY <1>2, <1>4, <1>5, <1>6 DEF ContinueUpdate

LEMMA StartSavePreserves ==
    ASSUME SessionInv, NEW r \in Starts, StartSave(r)
    PROVE  SessionInv'
<1>1. PICK row \in Rows :
         /\ sessions' = [sessions EXCEPT ![ConvOf[r]] = row]
         /\ CoherentRow(row) /\ ConvOf[row.id] = ConvOf[r]
         /\ Row(r) # NoRow => row.id = Row(r).id
  BY SaveWrites
<1>2. PICK l \in {"answered", "failed"} : Goto(r, l)
  BY DEF StartSave, Committed
<1>3. saved' \subseteq Starts /\ r \in Requests
  BY KindsDisjoint DEF StartSave, SessionInv, TypeOK
<1>4. QED BY <1>1, <1>2, <1>3, WriteStep DEF StartSave

LEMMA ContinueUpdatePreserves ==
    ASSUME SessionInv, NEW r \in Continues, ContinueUpdate(r)
    PROVE  SessionInv'
<1>1. PICK l \in {"answered", "failed"} : Goto(r, l)
  BY UpdateWrites DEF Committed
<1>2. saved' \subseteq Starts /\ r \in Requests /\ UNCHANGED <<now, work>> /\ Overtake(r, ConvOf[r])
  BY DEF ContinueUpdate, SessionInv, TypeOK, Requests
<1>3. QED BY <1>1, <1>2, UpdateWrites, WriteStep

-----------------------------------------------------------------------------
(* The invariant and what it gives.                                        *)

LEMMA StepPreserves == SessionInv /\ [Next]_vars => SessionInv'
<1> SUFFICES ASSUME SessionInv, [Next]_vars PROVE SessionInv'
  OBVIOUS
<1>1. CASE \E r \in Starts : StartArrive(r)
  BY <1>1, QuietSteps
<1>2. CASE \E r \in Starts : StartStep(r)
  BY <1>2, StartCollectedPreserves, StartFindPreserves, StartSavePreserves DEF StartStep
<1>3. CASE \E r \in Continues : ContinueArrive(r)
  BY <1>3, QuietSteps
<1>4. CASE \E r \in Continues : ContinueStep(r)
  BY <1>4, ContinueLoadPreserves, ContinueToRecheckPreserves, RecheckStepPreserves,
     ContinueUpdatePreserves, QuietSteps DEF ContinueStep
<1>5. CASE \E r \in Requests : Reject(r)
  BY <1>5, QuietSteps
<1>6. CASE Tick
  BY <1>6, QuietSteps
<1>7. CASE Restart
  BY <1>7, QuietSteps
<1>8. CASE UNCHANGED vars
  BY <1>8, QuietSteps
<1>9. QED BY <1>1, <1>2, <1>3, <1>4, <1>5, <1>6, <1>7, <1>8 DEF Next

LEMMA SessionInvariant == Spec => []SessionInv
BY InitEstablishes, StepPreserves, PTL DEF Spec

\* Every variable keeps its type.
THEOREM TypeCorrect == Spec => []TypeOK
<1>1. SessionInv => TypeOK
  BY DEF SessionInv
<1>2. QED BY <1>1, SessionInvariant, PTL

\* The stored sessions tell one story, whatever starts and continues interleaved
\* (start-diagnostic and continue-diagnostic use cases over the Prisma adapter).
THEOREM SessionsCoherent == Spec => []StoredSessionsAreCoherent
<1>1. SessionInv => StoredSessionsAreCoherent
  BY DEF SessionInv
<1>2. QED BY <1>1, SessionInvariant, PTL

\* A continue's update by id hits the row it read (PrismaDiagnosticSessionAdapter.update).
THEOREM UpdatesHit == Spec => []UpdateFindsItsRow
<1>1. SessionInv => UpdateFindsItsRow
  BY TargetIsTheRow DEF UpdateFindsItsRow
<1>2. QED BY <1>1, SessionInvariant, PTL

LEMMA RewriteKeeps ==
    ASSUME SessionInv, NEW d, NEW row \in Rows,
           sessions' = [sessions EXCEPT ![d] = row],
           sessions[d] # NoRow => row.id = sessions[d].id
    PROVE  \A c \in Conversations :
              sessions[c] # NoRow => sessions'[c] # NoRow /\ sessions'[c].id = sessions[c].id
<1> SUFFICES ASSUME NEW c \in Conversations, sessions[c] # NoRow
             PROVE  sessions'[c] # NoRow /\ sessions'[c].id = sessions[c].id
  OBVIOUS
<1>0. DOMAIN sessions = Conversations
  BY DEF SessionInv, TypeOK
<1>1. CASE c = d
  BY <1>0, <1>1, RowAssumption
<1>2. CASE c # d
  BY <1>0, <1>2
<1>3. QED BY <1>1, <1>2

\* Rows and their ids are for ever (the upsert of PrismaDiagnosticSessionAdapter.save).
THEOREM IdentityKept == Spec => RowIdentity
<1> DEFINE Kept == \A c \in Conversations :
                      sessions[c] # NoRow => sessions'[c] # NoRow /\ sessions'[c].id = sessions[c].id
<1>1. SessionInv /\ [Next]_vars => Kept
  <2> SUFFICES ASSUME SessionInv, [Next]_vars PROVE Kept
    OBVIOUS
  <2>1. ASSUME NEW r \in Starts, StartSave(r) PROVE Kept
    <3>1. PICK row \in Rows : /\ sessions' = [sessions EXCEPT ![ConvOf[r]] = row]
                              /\ Row(r) # NoRow => row.id = Row(r).id
      BY <2>1, SaveWrites
    <3>2. QED BY <3>1, RowAssumption, RewriteKeeps DEF Row
  <2>2. ASSUME NEW r \in Continues, ContinueUpdate(r) PROVE Kept
    <3>1. /\ sessions' = [sessions EXCEPT ![ConvOf[r]] = work[r]]
          /\ work[r] \in Rows /\ work[r].id = Row(r).id
      BY <2>2, UpdateWrites
    <3>2. QED BY <3>1, RowAssumption, RewriteKeeps DEF Row
  <2>3. CASE UNCHANGED sessions
    BY <2>3
  <2>4. QED
    BY <2>1, <2>2, <2>3 DEF Next, StartStep, ContinueStep, StartArrive, ContinueArrive, Arrive,
       StartCollected, StartFind, ContinueLoad, ContinueNotFound, ContinueToRecheck, Rechecked,
       RecheckRejected, Reject, Tick, Restart, vars
<1>2. QED BY <1>1, SessionInvariant, PTL DEF Spec, RowIdentity

\* An answer computed on the row as it still is never takes the conversation
\* back: only an overtaken continue can reopen a closed session
\* (ContinueDiagnosticUseCase.execute, which holds no lock).
THEOREM FreshAnswersAdvance == Spec => FreshAnswerMovesForward
<1> DEFINE Forward == \A r \in Continues :
              ContinueUpdate(r) /\ r \notin stale =>
                  /\ Rank(Row(r)') <= Rank(Row(r))
                  /\ Row(r)'.origin = Row(r).origin
                  /\ Row(r)'.expiresAt = Row(r).expiresAt
<1>1. SessionInv => Forward
  <2> SUFFICES ASSUME SessionInv, NEW r \in Continues, ContinueUpdate(r), r \notin stale
               PROVE  /\ Rank(Row(r)') <= Rank(Row(r))
                      /\ Row(r)'.origin = Row(r).origin
                      /\ Row(r)'.expiresAt = Row(r).expiresAt
    OBVIOUS
  <2>1. Row(r)' = work[r]
    BY UpdateWrites, ConvType DEF Row, SessionInv, TypeOK, Requests
  <2>2. /\ Rank(work[r]) <= Rank(Row(r)) /\ work[r].origin = Row(r).origin
        /\ work[r].expiresAt = Row(r).expiresAt
    BY DEF ContinueUpdate, SessionInv, FreshHolds
  <2>3. QED BY <2>1, <2>2
<1>2. QED BY <1>1, SessionInvariant, PTL DEF FreshAnswerMovesForward

-----------------------------------------------------------------------------
(* Whose diagnosis a row descends from.                                    *)

\* r's diagnosis has been stored, and was asked for in conversation c.
StoredIn(r, c) == r \in saved /\ ConvOf[r] = c

\* What a continue holds descends from a stored diagnosis as well: it may write
\* it long after the row has become another's.
OriginInv ==
    /\ DiagnosesStayInTheirConversation
    /\ \A r \in Continues : pc[r] \in {"recheck", "update"} => StoredIn(work[r].origin, ConvOf[r])

\* A step that leaves the table alone and does not move a continue on.
LEMMA OriginsRest ==
    ASSUME OriginInv, UNCHANGED <<sessions, saved>>,
           \A q \in Continues : pc'[q] \in {"recheck", "update"} =>
               pc[q] = pc'[q] /\ work'[q] = work[q]
    PROVE  OriginInv'
  BY DEF OriginInv, DiagnosesStayInTheirConversation, StoredIn

\* A continue takes the origin of what it holds on from the row, or from what it held.
LEMMA OriginsHeld ==
    ASSUME SessionInv, OriginInv, NEW r \in Continues, UNCHANGED <<sessions, saved>>,
           NEW row, Hold(r, row), NEW l, Goto(r, l),
           \/ pc[r] = "load" /\ Row(r) # NoRow /\ row.origin = Row(r).origin
           \/ pc[r] = "recheck" /\ row.origin = work[r].origin
    PROVE  OriginInv'
<1>1. r \in Requests /\ ConvOf[r] \in Conversations
  BY ConvType DEF Requests
<1>2. work'[r] = row /\ \A q \in Continues : q # r => pc'[q] = pc[q] /\ work'[q] = work[q]
  BY <1>1 DEF Hold, Goto, SessionInv, TypeOK, Requests
<1>3. StoredIn(row.origin, ConvOf[r])
  BY <1>1 DEF OriginInv, DiagnosesStayInTheirConversation, StoredIn, Row
<1>4. QED BY <1>2, <1>3 DEF OriginInv, DiagnosesStayInTheirConversation, StoredIn

\* A write of a row that descends from a diagnosis of its own conversation.
LEMMA OriginsWritten ==
    ASSUME SessionInv, OriginInv, NEW r \in Requests, NEW row, UNCHANGED work,
           sessions' = [sessions EXCEPT ![ConvOf[r]] = row], saved \subseteq saved',
           row.origin \in saved', ConvOf[row.origin] = ConvOf[r],
           NEW l \in {"answered", "failed"}, Goto(r, l)
    PROVE  OriginInv'
<1>1. ConvOf[r] \in Conversations
  BY ConvType
<1>2. \A c \in Conversations : sessions'[c] = IF c = ConvOf[r] THEN row ELSE sessions[c]
  BY <1>1 DEF SessionInv, TypeOK
<1>3. \A q \in Continues : pc'[q] \in {"recheck", "update"} => pc'[q] = pc[q]
  BY DEF Goto, SessionInv, TypeOK, Requests
<1>4. QED BY <1>2, <1>3 DEF OriginInv, DiagnosesStayInTheirConversation, StoredIn

LEMMA OriginStep == SessionInv /\ OriginInv /\ [Next]_vars => OriginInv'
<1> SUFFICES ASSUME SessionInv, OriginInv, [Next]_vars PROVE OriginInv'
  OBVIOUS
<1>1. ASSUME NEW r \in Starts, StartArrive(r) \/ StartFind(r)
                \/ \E e \in Equipment, t \in Technical : StartCollected(r, e, t)
      PROVE  OriginInv'
  <2>1. UNCHANGED <<sessions, saved>>
    BY <1>1 DEF StartArrive, Arrive, StartFind, StartCollected
  <2>2. \A q \in Continues : pc'[q] = pc[q] /\ work'[q] = work[q]
    BY <1>1, KindsDisjoint DEF StartArrive, Arrive, StartFind, StartCollected, Goto, Hold,
       SessionInv, TypeOK, Requests
  <2>3. QED BY <2>1, <2>2, OriginsRest
<1>2. ASSUME NEW r \in Starts, StartSave(r) PROVE OriginInv'
  <2>1. PICK row \in Rows : sessions' = [sessions EXCEPT ![ConvOf[r]] = row] /\ row.origin = r
    BY <1>2, SaveWrites
  <2>2. PICK l \in {"answered", "failed"} : Goto(r, l)
    BY <1>2 DEF StartSave, Committed
  <2>3. r \in Requests /\ saved' = saved \cup {r} /\ UNCHANGED work
    BY <1>2, KindsDisjoint DEF StartSave
  <2>4. QED BY <2>1, <2>2, <2>3, OriginsWritten
<1>3. ASSUME NEW r \in Continues, ContinueArrive(r) \/ ContinueNotFound(r) PROVE OriginInv'
  <2>1. UNCHANGED <<sessions, saved, work>> /\ \E l \in {"load", "not_found"} : Goto(r, l)
    BY <1>3 DEF ContinueArrive, Arrive, ContinueNotFound
  <2>2. \A q \in Continues : pc'[q] \in {"recheck", "update"} => pc'[q] = pc[q]
    BY <2>1 DEF Goto, SessionInv, TypeOK, Requests
  <2>3. QED BY <2>1, <2>2, OriginsRest
<1>4. ASSUME NEW r \in Continues, NEW m \in Messages, ContinueLoad(r, m) PROVE OriginInv'
  <2> DEFINE move == Reaction(Row(r), m)
             row == [Row(r) EXCEPT !.status = move.status, !.step = move.step]
  <2>1. /\ UNCHANGED <<sessions, saved>> /\ pc[r] = "load" /\ Row(r) # NoRow
        /\ Hold(r, row) /\ Goto(r, "update")
    BY <1>4 DEF ContinueLoad
  <2>2. Row(r) \in Rows
    BY <2>1, ConvType DEF SessionInv, TypeOK, Row, Requests
  <2>3. row.origin = Row(r).origin
    BY <2>2 DEF Rows
  <2> HIDE DEF row
  <2>4. QED BY <2>1, <2>3, OriginsHeld
<1>5. ASSUME NEW r \in Continues, ContinueToRecheck(r) PROVE OriginInv'
  <2>1. /\ UNCHANGED <<sessions, saved>> /\ pc[r] = "load" /\ Row(r) # NoRow
        /\ Hold(r, Row(r)) /\ Goto(r, "recheck")
    BY <1>5 DEF ContinueToRecheck
  <2>2. QED BY <2>1, OriginsHeld
<1>6. ASSUME NEW r \in Continues, RecheckRejected(r) PROVE OriginInv'
  <2> DEFINE row == [work[r] EXCEPT !.status = RecheckFailed.status, !.step = RecheckFailed.step]
  <2>1. /\ UNCHANGED <<sessions, saved>> /\ pc[r] = "recheck" /\ Hold(r, row) /\ Goto(r, "update")
    BY <1>6 DEF RecheckRejected
  <2>2. work[r] \in Rows
    BY <2>1 DEF SessionInv, ContinueHolds
  <2>3. row.origin = work[r].origin
    BY <2>2 DEF Rows
  <2> HIDE DEF row
  <2>4. QED BY <2>1, <2>3, OriginsHeld
<1>7. ASSUME NEW r \in Continues, NEW t \in Technical, Rechecked(r, t) PROVE OriginInv'
  <2> DEFINE d == Diagnosis(t)
             move == RecheckVerdict(d.status)
             row == [work[r] EXCEPT !.status = move.status, !.step = move.step,
                                    !.technicalOf = work[r].equipment, !.diagnosis = d.status]
  <2>1. /\ UNCHANGED <<sessions, saved>> /\ pc[r] = "recheck" /\ Hold(r, row) /\ Goto(r, "update")
    BY <1>7 DEF Rechecked
  <2>2. work[r] \in Rows
    BY <2>1 DEF SessionInv, ContinueHolds
  <2>3. row.origin = work[r].origin
    BY <2>2 DEF Rows
  <2> HIDE DEF row
  <2>4. QED BY <2>1, <2>3, OriginsHeld
<1>8. ASSUME NEW r \in Continues, ContinueUpdate(r) PROVE OriginInv'
  <2>1. sessions' = [sessions EXCEPT ![ConvOf[r]] = work[r]]
    BY <1>8, UpdateWrites
  <2>2. PICK l \in {"answered", "failed"} : Goto(r, l)
    BY <1>8, UpdateWrites DEF Committed
  <2>3. r \in Requests /\ pc[r] = "update" /\ UNCHANGED <<work, saved>>
    BY <1>8 DEF ContinueUpdate, Requests
  <2>4. StoredIn(work[r].origin, ConvOf[r])
    BY <2>3 DEF OriginInv
  <2>5. QED BY <2>1, <2>2, <2>3, <2>4, OriginsWritten DEF StoredIn
<1>9. ASSUME NEW r \in Requests, Reject(r) PROVE OriginInv'
  <2>1. UNCHANGED <<sessions, saved, work>> /\ Goto(r, "failed")
    BY <1>9 DEF Reject
  <2>2. \A q \in Continues : pc'[q] \in {"recheck", "update"} => pc'[q] = pc[q]
    BY <2>1 DEF Goto, SessionInv, TypeOK, Requests
  <2>3. QED BY <2>1, <2>2, OriginsRest
<1>10. CASE Tick \/ Restart \/ UNCHANGED vars
  <2>1. UNCHANGED <<sessions, saved, work>>
    BY <1>10 DEF Tick, Restart, vars
  <2>2. \A q \in Continues : pc'[q] \in {"recheck", "update"} => pc'[q] = pc[q]
    BY <1>10 DEF Tick, Restart, vars, Requests, InFlight
  <2>3. QED BY <2>1, <2>2, OriginsRest
<1>11. QED
  BY <1>1, <1>2, <1>3, <1>4, <1>5, <1>6, <1>7, <1>8, <1>9, <1>10 DEF Next, StartStep, ContinueStep

\* However starts and continues interleave, a row descends from a diagnosis that
\* was asked for and stored in its own conversation (save and update of
\* PrismaDiagnosticSessionAdapter).
THEOREM DiagnosesStay == Spec => []DiagnosesStayInTheirConversation
<1>1. Init => OriginInv
  BY DEF Init, OriginInv, DiagnosesStayInTheirConversation, Requests
<1>2. OriginInv => DiagnosesStayInTheirConversation
  BY DEF OriginInv
<1>3. QED BY <1>1, <1>2, OriginStep, SessionInvariant, PTL DEF Spec

-----------------------------------------------------------------------------
(* Refinement: with clients that take turns nobody is ever overtaken, and  *)
(* the table implements the abstract conversation.                         *)

TurnInv ==
    /\ \A q, r \in Requests :
          ConvOf[q] = ConvOf[r] /\ pc[q] \in InFlight /\ pc[r] \in InFlight => q = r
    /\ stale = {}
    /\ \A r \in saved : pc[r] \in Answers

LEMMA StepKeepsTurns == TakingTurns /\ SessionInv /\ TurnInv /\ [Next]_vars => TurnInv'
<1> SUFFICES ASSUME TakingTurns, SessionInv, TurnInv, [Next]_vars PROVE TurnInv'
  OBVIOUS
<1> USE DEF TurnInv, SessionInv
<1>0. /\ pc \in [Requests -> {"idle"} \cup InFlight \cup Answers]
      /\ InFlight \cap Answers = {} /\ "idle" \notin InFlight \cup Answers
      /\ saved \subseteq Requests
  BY DEF TypeOK, InFlight, Answers, Requests
\* A request in flight moves on, or ends.
<1>1. ASSUME NEW r \in Requests, pc[r] \in InFlight, NEW l \in InFlight \cup Answers,
             Goto(r, l), stale' = stale, saved' = saved \/ (saved' = saved \cup {r} /\ l \in Answers)
      PROVE  TurnInv'
  <2>1. \A q \in Requests : pc'[q] = IF q = r THEN l ELSE pc[q]
    BY <1>0, <1>1 DEF Goto
  <2>2. r \notin saved
    BY <1>0, <1>1
  <2>3. QED BY <1>0, <1>1, <2>1, <2>2
<1>2. ASSUME NEW r \in Requests, NEW l \in InFlight, Arrive(r, l) PROVE TurnInv'
  <2>1. \A q \in Requests : pc'[q] = IF q = r THEN l ELSE pc[q]
    BY <1>0, <1>2 DEF Goto, Arrive
  <2>2. \A q \in Requests : ConvOf[q] = ConvOf[r] => pc[q] \notin InFlight
    BY <1>2 DEF Arrive
  <2>3. r \notin saved /\ stale' = stale /\ saved' = saved
    BY <1>0, <1>2 DEF Arrive
  <2>4. QED BY <1>0, <2>1, <2>2, <2>3
<1>3. ASSUME NEW r \in Requests, pc[r] \in {"save", "update"}, Overtake(r, ConvOf[r])
      PROVE  stale' = stale
  BY <1>3 DEF Overtake, Holding, InFlight
<1> HIDE DEF TurnInv, SessionInv
\* The steps that neither write nor store a diagnosis.
<1>10. ASSUME NEW r \in Requests, pc[r] \in InFlight, stale' = stale, saved' = saved,
              \E l \in {"find", "save", "recheck", "update", "not_found", "failed"} : Goto(r, l)
       PROVE  TurnInv'
  <2>1. PICK l \in {"find", "save", "recheck", "update", "not_found", "failed"} : Goto(r, l)
    BY <1>10
  <2>2. \A q \in Requests : pc'[q] = IF q = r THEN l ELSE pc[q]
    BY <1>0, <2>1 DEF Goto
  <2>3. r \notin saved
    BY <1>0, <1>10 DEF TurnInv
  <2>4. QED BY <1>0, <1>10, <2>2, <2>3 DEF TurnInv
<1>4. CASE \E r \in Starts : StartArrive(r) \/ StartStep(r)
  <2>1. PICK r \in Starts : StartArrive(r) \/ StartStep(r)
    BY <1>4
  <2>2. r \in Requests
    BY KindsDisjoint
  <2>3. CASE StartArrive(r)
    BY <2>2, <2>3, <1>2 DEF StartArrive, InFlight
  <2>4. CASE \E e \in Equipment, t \in Technical : StartCollected(r, e, t)
    <3>1. pc[r] \in InFlight /\ Goto(r, "find") /\ stale' = stale /\ saved' = saved
      BY <2>4 DEF StartCollected, InFlight
    <3>2. QED BY <2>2, <3>1, <1>10
  <2>5. CASE StartFind(r)
    <3>1. pc[r] \in InFlight /\ Goto(r, "save") /\ stale' = stale /\ saved' = saved
      BY <2>5 DEF StartFind, InFlight
    <3>2. QED BY <2>2, <3>1, <1>10
  <2>6. CASE StartSave(r)
    <3>1. PICK l \in {"answered", "failed"} : Goto(r, l)
      BY <2>6 DEF StartSave, Committed
    <3>2. stale' = stale /\ pc[r] \in InFlight /\ saved' = saved \cup {r} /\ l \in Answers
      BY <2>2, <2>6, <1>3 DEF StartSave, InFlight, Answers
    <3>3. QED BY <2>2, <3>1, <3>2, <1>1
  <2>7. QED BY <2>1, <2>3, <2>4, <2>5, <2>6 DEF StartStep
<1>5. CASE \E r \in Continues : ContinueArrive(r) \/ ContinueStep(r)
  <2>1. PICK r \in Continues : ContinueArrive(r) \/ ContinueStep(r)
    BY <1>5
  <2>2. r \in Requests
    BY DEF Requests
  <2>3. CASE ContinueArrive(r)
    BY <2>2, <2>3, <1>2 DEF ContinueArrive, InFlight
  <2>4. CASE \E m \in Messages : ContinueLoad(r, m)
    <3>1. pc[r] \in InFlight /\ Goto(r, "update") /\ stale' = stale /\ saved' = saved
      BY <2>4 DEF ContinueLoad, InFlight
    <3>2. QED BY <2>2, <3>1, <1>10
  <2>5. CASE ContinueNotFound(r)
    <3>1. pc[r] \in InFlight /\ Goto(r, "not_found") /\ stale' = stale /\ saved' = saved
      BY <2>5 DEF ContinueNotFound, InFlight
    <3>2. QED BY <2>2, <3>1, <1>10
  <2>6. CASE ContinueToRecheck(r)
    <3>1. pc[r] \in InFlight /\ Goto(r, "recheck") /\ stale' = stale /\ saved' = saved
      BY <2>6 DEF ContinueToRecheck, InFlight
    <3>2. QED BY <2>2, <3>1, <1>10
  <2>7. CASE RecheckRejected(r) \/ \E t \in Technical : Rechecked(r, t)
    <3>1. pc[r] \in InFlight /\ Goto(r, "update") /\ stale' = stale /\ saved' = saved
      BY <2>7 DEF RecheckRejected, Rechecked, InFlight
    <3>2. QED BY <2>2, <3>1, <1>10
  <2>8. CASE ContinueUpdate(r)
    <3>1. PICK l \in {"answered", "failed"} : Goto(r, l)
      BY <2>8, UpdateWrites DEF Committed
    <3>2. stale' = stale /\ pc[r] \in InFlight /\ saved' = saved /\ l \in Answers
      BY <2>2, <2>8, <1>3 DEF ContinueUpdate, InFlight, Answers
    <3>3. QED BY <2>2, <3>1, <3>2, <1>1
  <2>9. QED BY <2>1, <2>3, <2>4, <2>5, <2>6, <2>7, <2>8 DEF ContinueStep
<1>6. CASE \E r \in Requests : Reject(r)
  BY <1>6, <1>10 DEF Reject, InFlight
<1>7. CASE Tick \/ UNCHANGED vars
  BY <1>7 DEF Tick, vars, TurnInv
<1>8. CASE Restart
  <2>1. \A q \in Requests : pc'[q] = IF pc[q] \in InFlight THEN "failed" ELSE pc[q]
    BY <1>8 DEF Restart
  <2>2. stale' = stale /\ saved' = saved
    BY <1>8 DEF Restart
  <2>3. QED BY <1>0, <2>1, <2>2 DEF Answers, TurnInv
<1>9. QED BY <1>4, <1>5, <1>6, <1>7, <1>8 DEF Next

\* What a write to one row does to the standing of the conversations.
LEMMA StandingStep ==
    ASSUME SessionInv, NEW d \in Conversations, NEW row \in Rows,
           sessions' = [sessions EXCEPT ![d] = row]
    PROVE  Standing' = [Standing EXCEPT ![d] = [origin |-> row.origin, rank |-> Rank(row)]]
<1>1. DOMAIN sessions = Conversations
  BY DEF SessionInv, TypeOK
<1>2. sessions'[d] = row /\ row # NoRow
  BY <1>1, RowAssumption
<1>3. \A c \in Conversations : c # d => sessions'[c] = sessions[c]
  BY <1>1
<1>4. QED BY <1>2, <1>3 DEF Standing

\* The table implements Conversation when clients await their answers.
THEOREM TurnsKeepThePromise == TakingTurns /\ Spec => KeepsThePromise
<1> SUFFICES ASSUME TakingTurns PROVE Spec => KeepsThePromise
  OBVIOUS
<1>1. Init => Promise!Init /\ TurnInv
  BY DEF Init, Promise!Init, Standing, TurnInv, InFlight
<1>2. SessionInv /\ TurnInv /\ [Next]_vars => [Promise!Next]_(Promise!vars)
  <2> SUFFICES ASSUME SessionInv, TurnInv, [Next]_vars
               PROVE  [Promise!Next]_(Promise!vars)
    OBVIOUS
  <2>1. ASSUME NEW r \in Starts, StartSave(r) PROVE Promise!Diagnose(r)
    <3>1. PICK row \in Rows : /\ sessions' = [sessions EXCEPT ![ConvOf[r]] = row]
                              /\ Rank(row) \in {0, 2, 4} /\ row.origin = r
      BY <2>1, SaveWrites
    <3>2. ConvOf[r] \in Conversations
      BY ConvType, KindsDisjoint
    <3>3. Standing' = [Standing EXCEPT ![ConvOf[r]] = [origin |-> r, rank |-> Rank(row)]]
      BY <3>1, <3>2, StandingStep
    <3>4. r \notin saved /\ saved' = saved \cup {r}
      BY <2>1 DEF StartSave, TurnInv, Answers
    <3>5. QED BY <3>1, <3>3, <3>4 DEF Promise!Diagnose
  <2>2. ASSUME NEW r \in Continues, ContinueUpdate(r) PROVE Promise!Advance(ConvOf[r])
    <3>1. /\ sessions' = [sessions EXCEPT ![ConvOf[r]] = work[r]]
          /\ work[r] \in Rows /\ Row(r) # NoRow
      BY <2>2, UpdateWrites
    <3>2. ConvOf[r] \in Conversations /\ r \notin stale
      BY ConvType DEF Requests, TurnInv
    <3>3. Rank(work[r]) <= Rank(Row(r)) /\ work[r].origin = Row(r).origin
      BY <2>2, <3>2 DEF ContinueUpdate, SessionInv, FreshHolds
    <3>4. Standing[ConvOf[r]] = [origin |-> Row(r).origin, rank |-> Rank(Row(r))]
      BY <3>1, <3>2 DEF Standing, Row
    <3>5. Standing' = [Standing EXCEPT ![ConvOf[r]] =
                          [origin |-> work[r].origin, rank |-> Rank(work[r])]]
      BY <3>1, <3>2, StandingStep
    <3>6. Rank(work[r]) \in 0 .. Rank(Row(r))
      BY <3>3, RankType
    <3>7. Standing[ConvOf[r]] # NoRow
      <4>1. Row(r) \in Rows
        BY <3>1, <3>2 DEF SessionInv, TypeOK, Row
      <4>2. Standing[ConvOf[r]] \in [origin : Starts, rank : 0 .. 4]
        BY <3>4, <4>1, RankType DEF Rows
      <4>3. QED BY <4>2, RowAssumption
    <3>8. Standing' = [Standing EXCEPT ![ConvOf[r]].rank = Rank(work[r])]
      <4>1. [Standing[ConvOf[r]] EXCEPT !.rank = Rank(work[r])]
                = [origin |-> work[r].origin, rank |-> Rank(work[r])]
        BY <3>3, <3>4
      <4>2. QED BY <3>5, <4>1
    <3>9. saved' = saved
      BY <2>2 DEF ContinueUpdate
    <3>10. Standing[ConvOf[r]].rank = Rank(Row(r))
      BY <3>4
    <3>11. QED BY <3>6, <3>7, <3>8, <3>9, <3>10 DEF Promise!Advance
  <2>3. CASE UNCHANGED <<sessions, saved>>
    BY <2>3 DEF Promise!vars, Standing
  <2>4. QED
    BY <2>1, <2>2, <2>3, ConvType DEF Promise!Next, Requests, Next, StartStep, ContinueStep,
       StartArrive, ContinueArrive, Arrive, StartCollected, StartFind, ContinueLoad,
       ContinueNotFound, ContinueToRecheck, Rechecked, RecheckRejected, Reject, Tick, Restart, vars
<1>3. SessionInv /\ TurnInv /\ [Next]_vars => TurnInv'
  BY StepKeepsTurns
<1>4. QED
  BY <1>1, <1>2, <1>3, SessionInvariant, PTL DEF Spec, KeepsThePromise, Promise!Spec

\* What the adapter's comment says of a new diagnostic is true of clients that
\* await their answers, and of any number of conversations: no continue brings a
\* replaced diagnosis back.
THEOREM TurnsPrevail == TakingTurns /\ Spec => NewDiagnosticPrevails
<1> SUFFICES ASSUME TakingTurns PROVE Spec => NewDiagnosticPrevails
  OBVIOUS
<1> DEFINE Prevails == \A r \in Continues : ContinueUpdate(r) => Row(r)'.origin = Row(r).origin
<1>1. Init => TurnInv
  BY DEF Init, TurnInv, InFlight
<1>2. SessionInv /\ TurnInv => Prevails
  <2> SUFFICES ASSUME SessionInv, TurnInv, NEW r \in Continues, ContinueUpdate(r)
               PROVE  Row(r)'.origin = Row(r).origin
    OBVIOUS
  <2>1. Row(r)' = work[r]
    BY UpdateWrites, ConvType DEF Row, SessionInv, TypeOK, Requests
  <2>2. work[r].origin = Row(r).origin
    BY DEF ContinueUpdate, TurnInv, SessionInv, FreshHolds
  <2>3. QED BY <2>1, <2>2
<1>3. SessionInv /\ TurnInv /\ [Next]_vars => TurnInv'
  BY StepKeepsTurns
<1>4. QED BY <1>1, <1>2, <1>3, SessionInvariant, PTL DEF Spec, NewDiagnosticPrevails
=============================================================================
