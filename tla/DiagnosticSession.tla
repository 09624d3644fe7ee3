------------------------- MODULE DiagnosticSession --------------------------
(***************************************************************************)
(* StartDiagnosticUseCase and ContinueDiagnosticUseCase over the session   *)
(* table.  Requests run concurrently in one Node process: each one is a    *)
(* sequence of synchronous stretches of code between awaits, so an action  *)
(* is what happens from one await to the next.  The awaits are the OLT     *)
(* read (tens of seconds) and the three repository operations; nothing     *)
(* locks a conversation from the read of its row to the write.             *)
(*                                                                         *)
(* A row keeps the columns the service decides on.  updatedAt is always    *)
(* expiresAt minus the lifetime, createdAt is written with the id and only *)
(* with it, and of the context the equipment asked about (request), the    *)
(* equipment the telemetry belongs to (technical) and the verdict remain.  *)
(* origin is history: the start request whose diagnosis the row            *)
(* descends from.                                                          *)
(***************************************************************************)
EXTENDS ConversationWorkflow, FiniteSets

CONSTANTS
    Conversations,     \* conversation ids
    Starts, Continues, \* the requests POST /diagnostic and /diagnostic/continue
    ConvOf,            \* the conversation each request names
    Equipment,         \* ONUs that can be diagnosed
    Lifetime,          \* how long a diagnosis is meant to live
    MaxTime,           \* bound of the clock
    TakingTurns,       \* whether a client awaits its answer before it writes again
    NoRow

Requests == Starts \cup Continues

ASSUME SessionAssumption ==
    /\ Starts \cap Continues = {}
    /\ ConvOf \in [Requests -> Conversations]
    /\ Lifetime \in Nat /\ MaxTime \in Nat
    /\ TakingTurns \in BOOLEAN

Rows == [id : Starts, status : WorkflowStatuses, step : WorkflowSteps,
         equipment : Equipment, technicalOf : Equipment, diagnosis : DiagnosticStatuses,
         expiresAt : 0 .. MaxTime + Lifetime, origin : Starts]

ASSUME RowAssumption == NoRow \notin Rows \cup [origin : Starts, rank : 0 .. 4]

VARIABLES
    sessions,  \* the DiagnosticSession table, by its unique conversationId
    now,       \* the clock
    pc,        \* where each request is
    work,      \* the session object a request holds in memory
    stale,     \* history: requests whose row was written by another since they read it
    saved      \* history: start requests whose diagnosis has been stored

vars == <<sessions, now, pc, work, stale, saved>>

\* What a request is awaiting, or how it was answered.
InFlight == {"collect", "find", "save", "load", "recheck", "update"}
Answers == {"answered", "not_found", "failed"}

TypeOK ==
    /\ sessions \in [Conversations -> Rows \cup {NoRow}]
    /\ now \in 0 .. MaxTime
    /\ pc \in [Requests -> {"idle"} \cup InFlight \cup Answers]
    /\ work \in [Requests -> Rows \cup {NoRow}]
    /\ stale \subseteq Requests
    /\ saved \subseteq Starts

Init ==
    /\ sessions = [c \in Conversations |-> NoRow]
    /\ now = 0
    /\ pc = [r \in Requests |-> "idle"]
    /\ work = [r \in Requests |-> NoRow]
    /\ stale = {}
    /\ saved = {}

-----------------------------------------------------------------------------
\* findByConversationId.
Row(r) == sessions[ConvOf[r]]
Goto(r, l) == pc' = [pc EXCEPT ![r] = l]
Hold(r, row) == work' = [work EXCEPT ![r] = row]

\* Requests of conversation c that have read its row and not yet written.
Holding(c) == {r \in Requests : ConvOf[r] = c /\ pc[r] \in {"save", "recheck", "update"}}

\* A write by r to conversation c overtakes the others that hold its row.
Overtake(r, c) == stale' = stale \cup (Holding(c) \ {r})

\* The database may commit a write and the connection fail all the same.
Committed(r) == \E l \in {"answered", "failed"} : Goto(r, l)

Arrive(r, l) ==
    /\ pc[r] = "idle"
    /\ TakingTurns => \A q \in Requests : ConvOf[q] = ConvOf[r] => pc[q] \notin InFlight
    /\ Goto(r, l)
    /\ UNCHANGED <<sessions, now, work, stale, saved>>

\* Any await may reject: the OLT read of a start, or a repository call that did
\* not commit.  The middleware answers an error.
Reject(r) ==
    /\ pc[r] \in {"collect", "find", "save", "load", "update"}
    /\ Goto(r, "failed")
    /\ UNCHANGED <<sessions, now, work, stale, saved>>

-----------------------------------------------------------------------------
StartArrive(r) == Arrive(r, "collect")

\* The OLT has answered and the engine has its verdict: the session is dated
\* now, before the row is looked up.
StartCollected(r, e, t) ==
    /\ pc[r] = "collect"
    /\ LET d == Diagnosis(t) IN
       Hold(r, [id |-> r, status |-> d.wfStatus, step |-> d.step, equipment |-> e,
                technicalOf |-> e, diagnosis |-> d.status,
                expiresAt |-> now + Lifetime, origin |-> r])
    /\ Goto(r, "find")
    /\ UNCHANGED <<sessions, now, stale, saved>>

\* findByConversationId: an existing row lends its id to the new session.
StartFind(r) ==
    /\ pc[r] = "find"
    /\ Hold(r, [work[r] EXCEPT !.id = IF Row(r) = NoRow THEN r ELSE Row(r).id])
    /\ Goto(r, "save")
    /\ UNCHANGED <<sessions, now, stale, saved>>

\* Mutant: the update branch of the upsert writes the new id too.
Replaced(old, new) == new

\* save: an upsert by conversationId.  The update branch leaves the id alone.
Upserted(old, new) == IF old = NoRow THEN new ELSE [new EXCEPT !.id = old.id]

StartSave(r) ==
    /\ pc[r] = "save"
    /\ sessions' = [sessions EXCEPT ![ConvOf[r]] = Upserted(@, work[r])]
    /\ Overtake(r, ConvOf[r])
    /\ saved' = saved \cup {r}
    /\ Committed(r)
    /\ UNCHANGED <<now, work>>

-----------------------------------------------------------------------------
ContinueArrive(r) == Arrive(r, "load")

\* findByConversationId and, in the same stretch, the workflow engine: it
\* decides on the message at once unless the session is at RECHECK.
ContinueLoad(r, m) ==
    /\ pc[r] = "load"
    /\ Row(r) # NoRow
    /\ ~NeedsRecheck(Row(r))
    /\ LET move == Reaction(Row(r), m) IN
       Hold(r, [Row(r) EXCEPT !.status = move.status, !.step = move.step])
    /\ Goto(r, "update")
    /\ UNCHANGED <<sessions, now, stale, saved>>

\* Mutant: nobody answers a continue without a session.
ContinueNotAnswered(r) == pc[r] = "load" /\ Row(r) = NoRow /\ UNCHANGED vars

\* 404.
ContinueNotFound(r) ==
    /\ pc[r] = "load"
    /\ Row(r) = NoRow
    /\ Goto(r, "not_found")
    /\ UNCHANGED <<sessions, now, work, stale, saved>>

ContinueToRecheck(r) ==
    /\ pc[r] = "load"
    /\ Row(r) # NoRow
    /\ NeedsRecheck(Row(r))
    /\ Hold(r, Row(r))
    /\ Goto(r, "recheck")
    /\ UNCHANGED <<sessions, now, stale, saved>>

\* The OLT has been read again for the equipment the session is about.
Rechecked(r, t) ==
    /\ pc[r] = "recheck"
    /\ LET d == Diagnosis(t)
           move == RecheckVerdict(d.status) IN
       Hold(r, [work[r] EXCEPT !.status = move.status, !.step = move.step,
                               !.technicalOf = work[r].equipment, !.diagnosis = d.status])
    /\ Goto(r, "update")
    /\ UNCHANGED <<sessions, now, stale, saved>>

\* The OLT read failed: the handler catches it, the old telemetry stays.
RecheckRejected(r) ==
    /\ pc[r] = "recheck"
    /\ Hold(r, [work[r] EXCEPT !.status = RecheckFailed.status, !.step = RecheckFailed.step])
    /\ Goto(r, "update")
    /\ UNCHANGED <<sessions, now, stale, saved>>

\* Mutant: found by its equipment, not by its id.
TargetByEquipment(r) ==
    {c \in Conversations : sessions[c] # NoRow /\ sessions[c].equipment = work[r].equipment}

\* update: the whole session, expiresAt included, over the row with its id.
\* Without such a row Prisma throws and the request fails.
Target(r) == {c \in Conversations : sessions[c] # NoRow /\ sessions[c].id = work[r].id}

ContinueUpdate(r) ==
    /\ pc[r] = "update"
    /\ sessions' = [c \in Conversations |-> IF c \in Target(r) THEN work[r] ELSE sessions[c]]
    /\ Overtake(r, ConvOf[r])
    /\ IF Target(r) = {} THEN Goto(r, "failed") ELSE Committed(r)
    /\ UNCHANGED <<now, work, saved>>

-----------------------------------------------------------------------------
Tick ==
    /\ now < MaxTime
    /\ now' = now + 1
    /\ UNCHANGED <<sessions, pc, work, stale, saved>>

\* The process dies and comes back: its requests are lost, the table is not.
Restart ==
    /\ \E r \in Requests : pc[r] \in InFlight
    /\ pc' = [r \in Requests |-> IF pc[r] \in InFlight THEN "failed" ELSE pc[r]]
    /\ UNCHANGED <<sessions, now, work, stale, saved>>

StartStep(r) ==
    \/ \E e \in Equipment, t \in Technical : StartCollected(r, e, t)
    \/ StartFind(r)
    \/ StartSave(r)

ContinueStep(r) ==
    \/ \E m \in Messages : ContinueLoad(r, m)
    \/ ContinueNotFound(r)
    \/ ContinueToRecheck(r)
    \/ \E t \in Technical : Rechecked(r, t)
    \/ RecheckRejected(r)
    \/ ContinueUpdate(r)

Next ==
    \/ \E r \in Starts : StartArrive(r) \/ StartStep(r)
    \/ \E r \in Continues : ContinueArrive(r) \/ ContinueStep(r)
    \/ \E r \in Requests : Reject(r)
    \/ Tick
    \/ Restart

Spec == Init /\ [][Next]_vars

\* A request that waits for its OLT.
AwaitsOlt(r) == pc[r] \in {"collect", "recheck"}

\* The event loop serves every request it has accepted, and every call to the
\* database ends.  A read of the OLT need not: opening its shell has no timer.
\* No client has to send anything.
Fairness ==
    /\ \A r \in Starts : WF_vars(~AwaitsOlt(r) /\ StartStep(r))
    /\ \A r \in Continues : WF_vars(~AwaitsOlt(r) /\ ContinueStep(r))

FairSpec == Spec /\ Fairness

-----------------------------------------------------------------------------
\* Every stored session tells one story, whatever interleaving of starts and
\* continues wrote it: its telemetry is of the equipment it is about; it waits
\* for somebody exactly while there is a step to take; a session left open has
\* a diagnosis that found something; and a session closed without a step was
\* diagnosed healthy.  FAILED and IN_PROGRESS are never stored.
CoherentRow(s) ==
    /\ s.technicalOf = s.equipment
    /\ s.status \in {"waiting_user", "waiting_system", "completed"}
    /\ ~Closed(s) => s.step \notin {"null", "none"} /\ s.diagnosis # "SUCCESS"
    /\ s.step = "null" => Closed(s) /\ s.diagnosis = "SUCCESS"

StoredSessionsAreCoherent ==
    \A c \in Conversations : sessions[c] # NoRow => CoherentRow(sessions[c])

\* A continue that is about to write finds exactly the row it read, however many
\* starts raced to create or replace it in between: update by id neither misses
\* (Prisma would throw) nor hits another conversation.
UpdateFindsItsRow ==
    \A r \in Continues : pc[r] = "update" => Target(r) = {ConvOf[r]}

\* A row descends from a diagnosis that was asked for, and stored, in its own
\* conversation: neither the id a replaced session keeps nor an update by id,
\* computed on a row read long before, brings one subscriber the session of
\* another or a diagnosis that nobody stored.
DiagnosesStayInTheirConversation ==
    \A c \in Conversations : sessions[c] # NoRow =>
        sessions[c].origin \in saved /\ ConvOf[sessions[c].origin] = c

\* A conversation keeps its row and its row keeps its id for ever: concurrent
\* starts, each with a uuid of its own, do not replace one another's identity.
RowIdentity ==
    [][\A c \in Conversations :
          sessions[c] # NoRow => sessions'[c] # NoRow /\ sessions'[c].id = sessions[c].id]_vars

\* An answer computed on the row as it still is brings the conversation no
\* further from its end, keeps its diagnosis and does not touch its lifetime.
\* A closed session is reopened only by an answer computed on an outdated row.
FreshAnswerMovesForward ==
    [][\A r \in Continues :
          ContinueUpdate(r) /\ r \notin stale =>
              /\ Rank(Row(r)') <= Rank(Row(r))
              /\ Row(r)'.origin = Row(r).origin
              /\ Row(r)'.expiresAt = Row(r).expiresAt]_vars

\* Every request the service has accepted is answered in the end, whatever the
\* others do to its row, unless it waits for its OLT for ever (liveness, under
\* Fairness): none is left without an answer by the handlers themselves.
EveryRequestEnds ==
    \A r \in Requests :
        pc[r] \in InFlight ~> (pc[r] \in Answers \/ []AwaitsOlt(r))

\* With clients that take turns the table implements the abstract conversation.
Standing ==
    [c \in Conversations |->
        IF sessions[c] = NoRow THEN NoRow
        ELSE [origin |-> sessions[c].origin, rank |-> Rank(sessions[c])]]

Promise == INSTANCE Conversation WITH at <- Standing, diagnosed <- saved

KeepsThePromise == Promise!Spec

-----------------------------------------------------------------------------
\* What texts of the repository say and the code does not do.

\* prisma-diagnostic-session-adapter.ts: a new DIAGNOSTIC in the conversation
\* replaces its context and step.  No continue brings the replaced one back.
NewDiagnosticPrevails ==
    [][\A r \in Continues : ContinueUpdate(r) => Row(r)'.origin = Row(r).origin]_vars
=============================================================================
