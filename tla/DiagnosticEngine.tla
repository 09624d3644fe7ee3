-------------------------- MODULE DiagnosticEngine --------------------------
(***************************************************************************)
(* DiagnosticEngine.execute: one run of the analyzer chain over the data   *)
(* read from the OLT.  The chain is onu, run state, power, mac; each       *)
(* analyzer may report a finding into the context, and the chain stops     *)
(* after the first analyzer that leaves workflow.stopExecution set.        *)
(* Every request has a context of its own, so one run is the whole story.  *)
(***************************************************************************)
EXTENDS DiagnosticRules, Sequences

VARIABLES
    technical,  \* the telemetry under diagnosis
    context,    \* DiagnosticContext: status, findings, actions, workflow
    next        \* the analyzer the loop is at, or "done"

vars == <<technical, context, next>>

Analyzers == {"onu", "runState", "power", "mac"}
After == [onu |-> "runState", runState |-> "power", power |-> "mac", mac |-> "done"]

Contexts == [status : DiagnosticStatuses,
             findings : Seq(FindingTypes),
             actions : Seq(ActionTypes),
             workflow : [status : WorkflowStatuses, step : WorkflowSteps, stop : BOOLEAN]]

NewContext == [status |-> "SUCCESS", findings |-> <<>>, actions |-> <<>>,
               workflow |-> [status |-> "completed", step |-> "null", stop |-> FALSE]]

Elements(s) == {s[i] : i \in DOMAIN s}
AddOnce(s, e) == IF e \in Elements(s) THEN s ELSE Append(s, e)

-----------------------------------------------------------------------------
\* Mutant: the finding is filed among the actions.
AddFindingAsAction(c, f) ==
    [c EXCEPT !.actions = AddOnce(@, f), !.workflow.stop = @ \/ FindingCatalog[f].stop]

\* addFinding: kept once per type; a stopping finding stops the chain.
AddFinding(c, f) ==
    [c EXCEPT !.findings = AddOnce(@, f),
              !.workflow.stop = @ \/ FindingCatalog[f].stop]

\* Mutant: an action leaves the stop flag as the finding has set it.
AddActionKeepingStop(c, a) ==
    IF a \in Elements(c.actions) THEN c
    ELSE [c EXCEPT !.actions = Append(@, a),
                   !.workflow = [WorkflowCatalog[a] EXCEPT !.stop = c.workflow.stop]]

\* addAction: kept once per type; a new action overrides the whole workflow,
\* the stop flag the finding has just set included.
AddAction(c, a) ==
    IF a \in Elements(c.actions) THEN c
    ELSE [c EXCEPT !.actions = Append(@, a), !.workflow = WorkflowCatalog[a]]

\* Mutant: setStatus keeps the milder of the two.
LowerStatus(c, s) ==
    IF StatusPriority[s] < StatusPriority[c.status] THEN [c EXCEPT !.status = s] ELSE c

\* setStatus: only upwards.
RaiseStatus(c, s) ==
    IF StatusPriority[s] > StatusPriority[c.status] THEN [c EXCEPT !.status = s] ELSE c

Report(c, f, a) == RaiseStatus(AddAction(AddFinding(c, f), a), FindingCatalog[f].status)

-----------------------------------------------------------------------------
\* Mutant: the loop forgets to look at stopExecution.
LeaveWithoutStopping(n, c) == context' = c /\ next' = After[n] /\ UNCHANGED technical

\* The tail of the loop body: stop, or go to the next analyzer.
Leave(n, c) ==
    /\ context' = c
    /\ next' = IF c.workflow.stop THEN "done" ELSE After[n]
    /\ UNCHANGED technical

Skip(n) == next' = After[n] /\ UNCHANGED <<technical, context>>

AnalyzeOnu ==
    /\ next = "onu"
    /\ Leave("onu", IF technical.onu THEN context
                    ELSE Report(context, "ont_not_available", "hook_user_device"))

AnalyzeRunState ==
    /\ next = "runState"
    /\ technical.runState # "missing"
    /\ Leave("runState", IF Offline(technical)
                         THEN Report(context, "onu_offline", "ask_led_status")
                         ELSE context)

\* The analyzer's own null test never succeeds: supports() has excluded it.
AnalyzePower ==
    /\ next = "power"
    /\ technical.power # NoReading
    /\ LET level == PowerLevel(technical.power) IN
       Leave("power",
             IF level = "WARNING" THEN Report(context, "low_power", "schedule_visit")
             ELSE IF level = "CRITICAL" THEN Report(context, "critical_low_power", "schedule_visit")
             ELSE context)

AnalyzeMac ==
    /\ next = "mac"
    /\ Leave("mac", IF technical.mac THEN context
                    ELSE Report(context, "no_mac", "request_information"))

\* supports() said no.
SkipUnsupported ==
    \/ next = "runState" /\ technical.runState = "missing" /\ Skip("runState")
    \/ next = "power" /\ technical.power = NoReading /\ Skip("power")

Init == technical \in Technical /\ context = NewContext /\ next = "onu"

Next == AnalyzeOnu \/ AnalyzeRunState \/ AnalyzePower \/ AnalyzeMac \/ SkipUnsupported

Spec == Init /\ [][Next]_vars

-----------------------------------------------------------------------------
TypeOK ==
    /\ technical \in Technical
    /\ context \in Contexts
    /\ next \in Analyzers \cup {"done"}

\* What a verdict is to the rest of the service.
Outcome(c) == Verdict(c.status, c.workflow.status, c.workflow.step)

\* The loop's result is the first problem in the chain's order, whatever mix of
\* problems the ONU has and although two findings are catalogued as not
\* stopping the chain (DiagnosticContext.addFinding and addAction together).
VerdictIsFirstProblem == next = "done" => Outcome(context) = Diagnosis(technical)

\* One diagnosis reports at most one problem, and it stops the chain there: no
\* later analyzer can push the workflow of an earlier, graver finding aside.
OneProblemStopsTheChain ==
    /\ Len(context.findings) <= 1
    /\ context.findings # <<>> <=> context.workflow.stop
    /\ context.workflow.stop => next = "done"

\* Although the chain stops at the first problem it meets and never looks for
\* the others, the status it leaves is the gravest of all the problems the ONU
\* has, and SUCCESS means it has none: no problem hides a graver one behind it.
Problems(t) ==
    {f \in FindingTypes :
        \/ f = "ont_not_available" /\ ~t.onu
        \/ f = "onu_offline" /\ Offline(t)
        \/ f = "low_power" /\ Weak(t, "WARNING")
        \/ f = "critical_low_power" /\ Weak(t, "CRITICAL")
        \/ f = "no_mac" /\ ~t.mac}

StatusIsTheWorst ==
    next = "done" =>
        /\ \A f \in Problems(technical) :
              StatusPriority[FindingCatalog[f].status] <= StatusPriority[context.status]
        /\ context.status = "SUCCESS" <=> Problems(technical) = {}
=============================================================================
