----------------------- MODULE DiagnosticEngineProofs -----------------------
(***************************************************************************)
(* The analyzer loop computes Diagnosis, for every set of power readings.  *)
(***************************************************************************)
EXTENDS DiagnosticEngine, TLAPS

\* The loop invariant: until the chain stops the context is untouched and no
\* analyzer that has been passed had anything to report.
Passed(n) ==
    /\ n \in {"runState", "power", "mac"} => technical.onu
    /\ n \in {"power", "mac"} => ~Offline(technical)
    /\ n = "mac" => ~Weak(technical, "WARNING") /\ ~Weak(technical, "CRITICAL")

LoopInv ==
    /\ technical \in Technical
    /\ next \in Analyzers \cup {"done"}
    /\ next # "done" => context = NewContext /\ Passed(next)
    /\ next = "done" => Outcome(context) = Diagnosis(technical)

\* Reporting into an untouched context leaves the finding's status and the
\* workflow of the action, which stops the chain for each of the four actions.
LEMMA FirstReport ==
    ASSUME NEW f \in FindingTypes, NEW a \in {"hook_user_device", "ask_led_status",
                                              "schedule_visit", "request_information"}
    PROVE  /\ Outcome(Report(NewContext, f, a)) =
                 Verdict(FindingCatalog[f].status, WorkflowCatalog[a].status,
                         WorkflowCatalog[a].step)
           /\ Report(NewContext, f, a).workflow.stop
<1>1. ~(f \in Elements(<<>>)) /\ ~(a \in Elements(<<>>))
  BY DEF Elements
<1>2. /\ FindingCatalog[f].status \in {"WARNING", "CRITICAL"}
      /\ WorkflowCatalog[a].stop = TRUE
      /\ WorkflowCatalog[a].status \in WorkflowStatuses
  BY DEF FindingCatalog, WorkflowCatalog, Parked, ActionTypes, WorkflowStatuses
<1> DEFINE c1 == AddFinding(NewContext, f)
           c2 == AddAction(c1, a)
<1>3. c1.status = "SUCCESS" /\ c1.actions = <<>>
  BY DEF AddFinding, NewContext
<1>4. /\ c2.status = "SUCCESS"
      /\ c2.workflow = WorkflowCatalog[a]
      /\ c2 = [c1 EXCEPT !.actions = Append(@, a), !.workflow = WorkflowCatalog[a]]
  <2>1. DOMAIN c1 = {"status", "findings", "actions", "workflow"}
    BY DEF AddFinding, NewContext
  <2>2. c2 = [c1 EXCEPT !.actions = Append(@, a), !.workflow = WorkflowCatalog[a]]
    BY <1>1, <1>3 DEF AddAction
  <2>3. QED BY <2>1, <2>2, <1>3
<1>5. DOMAIN c2 = {"status", "findings", "actions", "workflow"}
  BY <1>4 DEF AddFinding, NewContext
<1>6. StatusPriority[FindingCatalog[f].status] > StatusPriority["SUCCESS"]
  BY <1>2 DEF StatusPriority, DiagnosticStatuses
<1>7. Report(NewContext, f, a) = [c2 EXCEPT !.status = FindingCatalog[f].status]
  BY <1>4, <1>6 DEF Report, RaiseStatus
<1>8. QED
  BY <1>2, <1>4, <1>5, <1>7 DEF Outcome, Verdict

\* The loop invariant holds of every run of DiagnosticEngine.execute.
LEMMA LoopInvariant == Spec => []LoopInv
<1>1. Init => LoopInv
  BY DEF Init, LoopInv, Passed, Analyzers
<1>2. LoopInv /\ [Next]_vars => LoopInv'
  <2> SUFFICES ASSUME LoopInv, [Next]_vars PROVE LoopInv'
    OBVIOUS
  <2> USE DEF LoopInv
  <2>a. NewContext.workflow.stop = FALSE /\ Outcome(NewContext) = Verdict("SUCCESS", "completed", "null")
    BY DEF NewContext, Outcome
  <2>1. CASE AnalyzeOnu
    <3>1. CASE technical.onu
      BY <2>1, <3>1, <2>a DEF AnalyzeOnu, Leave, Passed, After, Analyzers
    <3>2. CASE ~technical.onu
      <4>1. context' = Report(NewContext, "ont_not_available", "hook_user_device")
        BY <2>1, <3>2 DEF AnalyzeOnu, Leave
      <4>2. Outcome(context') = Diagnosis(technical) /\ context'.workflow.stop
        BY <4>1, <3>2, FirstReport
           DEF Diagnosis, FindingTypes, FindingCatalog, Mild, WorkflowCatalog, ActionTypes, Parked
      <4>3. next' = "done" /\ technical' = technical
        BY <2>1, <3>2, <4>1, <4>2 DEF AnalyzeOnu, Leave
      <4>4. QED BY <4>2, <4>3 DEF Outcome
    <3>3. QED BY <3>1, <3>2
  <2>2. CASE AnalyzeRunState
    <3>1. CASE ~Offline(technical)
      BY <2>2, <3>1, <2>a DEF AnalyzeRunState, Leave, Passed, After, Analyzers, Offline
    <3>2. CASE Offline(technical)
      <4>1. context' = Report(NewContext, "onu_offline", "ask_led_status") /\ technical.onu
        BY <2>2, <3>2 DEF AnalyzeRunState, Leave, Passed
      <4>2. Outcome(context') = Diagnosis(technical) /\ context'.workflow.stop
        BY <4>1, <3>2, FirstReport
           DEF Diagnosis, FindingTypes, FindingCatalog, Mild, WorkflowCatalog, ActionTypes, Parked
      <4>3. next' = "done" /\ technical' = technical
        BY <2>2, <3>2, <4>1, <4>2 DEF AnalyzeRunState, Leave
      <4>4. QED BY <4>2, <4>3 DEF Outcome
    <3>3. QED BY <3>1, <3>2
  <2>3. CASE AnalyzePower
    <3>0. technical.onu /\ ~Offline(technical) /\ technical.power # NoReading /\ context = NewContext
      BY <2>3 DEF AnalyzePower, Passed
    <3>1. CASE Weak(technical, "WARNING")
      <4>1. context' = Report(NewContext, "low_power", "schedule_visit")
        BY <2>3, <3>0, <3>1 DEF AnalyzePower, Leave, Weak
      <4>2. Outcome(context') = Diagnosis(technical) /\ context'.workflow.stop
        BY <4>1, <3>0, <3>1, FirstReport
           DEF Diagnosis, FindingTypes, FindingCatalog, Mild, WorkflowCatalog, ActionTypes, Parked
      <4>3. next' = "done" /\ technical' = technical
        BY <2>3, <4>1, <4>2, <3>1 DEF AnalyzePower, Leave, Weak
      <4>4. QED BY <4>2, <4>3 DEF Outcome
    <3>2. CASE ~Weak(technical, "WARNING") /\ Weak(technical, "CRITICAL")
      <4>1. context' = Report(NewContext, "critical_low_power", "schedule_visit")
        BY <2>3, <3>0, <3>2 DEF AnalyzePower, Leave, Weak
      <4>2. Outcome(context') = Diagnosis(technical) /\ context'.workflow.stop
        BY <4>1, <3>0, <3>2, FirstReport
           DEF Diagnosis, FindingTypes, FindingCatalog, Mild, WorkflowCatalog, ActionTypes, Parked
      <4>3. next' = "done" /\ technical' = technical
        BY <2>3, <4>1, <4>2, <3>2 DEF AnalyzePower, Leave, Weak
      <4>4. QED BY <4>2, <4>3 DEF Outcome
    <3>3. CASE ~Weak(technical, "WARNING") /\ ~Weak(technical, "CRITICAL")
      <4>1. context' = NewContext /\ next' = "mac" /\ technical' = technical
        BY <2>3, <3>0, <3>3, <2>a DEF AnalyzePower, Leave, Weak, After
      <4>2. QED BY <4>1, <3>0, <3>3 DEF Passed, Analyzers, Weak, Offline
    <3>4. QED BY <3>1, <3>2, <3>3
  <2>4. CASE AnalyzeMac
    <3>0. /\ technical.onu /\ ~Offline(technical) /\ context = NewContext
          /\ ~Weak(technical, "WARNING") /\ ~Weak(technical, "CRITICAL")
      BY <2>4 DEF AnalyzeMac, Passed
    <3>1. CASE technical.mac
      <4>1. context' = NewContext /\ next' = "done" /\ technical' = technical
        BY <2>4, <3>0, <3>1 DEF AnalyzeMac, Leave, After
      <4>2. QED BY <4>1, <3>0, <3>1, <2>a DEF Diagnosis, Outcome
    <3>2. CASE ~technical.mac
      <4>1. context' = Report(NewContext, "no_mac", "request_information")
        BY <2>4, <3>0, <3>2 DEF AnalyzeMac, Leave
      <4>2. Outcome(context') = Diagnosis(technical) /\ context'.workflow.stop
        BY <4>1, <3>0, <3>2, FirstReport
           DEF Diagnosis, FindingTypes, FindingCatalog, Mild, WorkflowCatalog, ActionTypes, Parked
      <4>3. next' = "done" /\ technical' = technical
        BY <2>4, <3>2, <4>1, <4>2 DEF AnalyzeMac, Leave
      <4>4. QED BY <4>2, <4>3 DEF Outcome
    <3>3. QED BY <3>1, <3>2
  <2>5. CASE SkipUnsupported
    BY <2>5 DEF SkipUnsupported, Skip, Passed, After, Analyzers, Offline, Weak
  <2>6. CASE UNCHANGED vars
    BY <2>6 DEF vars, Passed, Offline, Weak, Outcome
  <2>7. QED BY <2>1, <2>2, <2>3, <2>4, <2>5, <2>6 DEF Next
<1>3. QED BY <1>1, <1>2, PTL DEF Spec

\* The loop's result is the first problem in the chain's order
\* (DiagnosticEngine.execute with the four analyzers of the container).
THEOREM EngineComputesDiagnosis == Spec => []VerdictIsFirstProblem
<1>1. LoopInv => VerdictIsFirstProblem
  BY DEF LoopInv, VerdictIsFirstProblem
<1>2. QED BY <1>1, LoopInvariant, PTL

\* The status the chain ends with is the gravest of all the problems the ONU
\* has, those the chain never looked for included, and SUCCESS means none.
THEOREM StatusIsGravest == Spec => []StatusIsTheWorst
<1>1. LoopInv => StatusIsTheWorst
  <2> SUFFICES ASSUME LoopInv, next = "done" PROVE StatusIsTheWorst
    BY DEF StatusIsTheWorst
  <2>1. context.status = Diagnosis(technical).status
    BY DEF LoopInv, Outcome, Verdict, Diagnosis
  <2>2. \A f \in FindingTypes :
           FindingCatalog[f].status = IF f \in Mild THEN "WARNING" ELSE "CRITICAL"
    BY DEF FindingCatalog
  <2>3. /\ StatusPriority["SUCCESS"] = 0 /\ StatusPriority["WARNING"] = 1
        /\ StatusPriority["CRITICAL"] = 3
    BY DEF StatusPriority, DiagnosticStatuses
  <2>4. ~(Weak(technical, "WARNING") /\ Weak(technical, "CRITICAL"))
    BY DEF Weak
  <2>5. ASSUME NEW f \in Problems(technical)
        PROVE  StatusPriority[FindingCatalog[f].status] <= StatusPriority[context.status]
    <3>1. FindingCatalog[f].status = IF f \in Mild THEN "WARNING" ELSE "CRITICAL"
      BY <2>2, <2>5 DEF Problems
    <3>2. context.status # "SUCCESS"
      BY <2>1, <2>4, <2>5 DEF Problems, Diagnosis, Verdict
    <3>3. f \notin Mild => context.status = "CRITICAL"
      BY <2>1, <2>4, <2>5 DEF Problems, Diagnosis, Verdict, Mild
    <3>4. context.status \in {"WARNING", "CRITICAL"}
      BY <2>1, <3>2 DEF Diagnosis, Verdict
    <3>5. QED BY <3>1, <3>3, <3>4, <2>3
  <2>6. context.status = "SUCCESS" <=> Problems(technical) = {}
    <3>1. ASSUME context.status = "SUCCESS" PROVE Problems(technical) = {}
      BY <2>1, <3>1 DEF Problems, Diagnosis, Verdict
    <3>2. ASSUME Problems(technical) = {} PROVE context.status = "SUCCESS"
      <4>1. {"ont_not_available", "onu_offline", "low_power", "critical_low_power", "no_mac"}
              \subseteq FindingTypes
        BY DEF FindingTypes
      <4>2. /\ technical.onu /\ ~Offline(technical) /\ ~Weak(technical, "WARNING")
            /\ ~Weak(technical, "CRITICAL") /\ technical.mac
        BY <3>2, <4>1 DEF Problems
      <4>3. QED BY <2>1, <4>2 DEF Diagnosis, Verdict
    <3>3. QED BY <3>1, <3>2
  <2>7. QED BY <2>5, <2>6 DEF StatusIsTheWorst
<1>2. QED BY <1>1, LoopInvariant, PTL

-----------------------------------------------------------------------------
\* The contexts a run can hold: untouched, or with the one finding that has
\* stopped the chain.
Tidy(c) ==
    /\ c \in Contexts
    /\ Len(c.findings) <= 1
    /\ c.findings # <<>> <=> c.workflow.stop

ReportedActions == {"hook_user_device", "ask_led_status", "schedule_visit", "request_information"}

LEMMA UntouchedIsTidy == Tidy(NewContext)
<1>1. <<>> \in Seq(FindingTypes) /\ <<>> \in Seq(ActionTypes) /\ Len(<<>>) = 0
  OBVIOUS
<1>2. QED
  BY <1>1 DEF Tidy, NewContext, Contexts, DiagnosticStatuses, WorkflowStatuses, WorkflowSteps

\* The first report leaves one finding, one action and the chain stopped.
LEMMA ReportIsTidy ==
    ASSUME NEW f \in FindingTypes, NEW a \in ReportedActions
    PROVE  Tidy(Report(NewContext, f, a))
<1> DEFINE c1 == AddFinding(NewContext, f)
           c2 == AddAction(c1, a)
           r  == Report(NewContext, f, a)
<1>1. ~(f \in Elements(<<>>)) /\ ~(a \in Elements(<<>>))
  BY DEF Elements
<1>2. c1 = [NewContext EXCEPT !.findings = Append(<<>>, f),
                              !.workflow.stop = @ \/ FindingCatalog[f].stop]
  BY <1>1 DEF AddFinding, AddOnce, NewContext
<1>3. c1.findings = Append(<<>>, f) /\ c1.actions = <<>> /\ c1.status = "SUCCESS"
  BY <1>2 DEF NewContext
<1>4. c2 = [c1 EXCEPT !.actions = Append(@, a), !.workflow = WorkflowCatalog[a]]
  BY <1>1, <1>3 DEF AddAction
<1>5. /\ c2.status = "SUCCESS" /\ c2.findings = Append(<<>>, f)
      /\ c2.actions = Append(<<>>, a) /\ c2.workflow = WorkflowCatalog[a]
      /\ DOMAIN c2 = {"status", "findings", "actions", "workflow"}
  BY <1>2, <1>3, <1>4 DEF NewContext
<1>6. c2 = [status |-> "SUCCESS", findings |-> Append(<<>>, f),
            actions |-> Append(<<>>, a), workflow |-> WorkflowCatalog[a]]
  BY <1>2, <1>4, <1>5 DEF NewContext
<1>7. StatusPriority[FindingCatalog[f].status] > StatusPriority["SUCCESS"]
  BY DEF FindingCatalog, StatusPriority, DiagnosticStatuses
<1>8. r = [c2 EXCEPT !.status = FindingCatalog[f].status]
  BY <1>5, <1>7 DEF Report, RaiseStatus
<1>9. r = [status |-> FindingCatalog[f].status, findings |-> Append(<<>>, f),
           actions |-> Append(<<>>, a), workflow |-> WorkflowCatalog[a]]
  BY <1>6, <1>8
<1>10. /\ WorkflowCatalog[a] \in [status : WorkflowStatuses, step : WorkflowSteps, stop : BOOLEAN]
       /\ WorkflowCatalog[a].stop = TRUE
  BY DEF WorkflowCatalog, Parked, ReportedActions, ActionTypes, WorkflowStatuses, WorkflowSteps
<1>11. FindingCatalog[f].status \in DiagnosticStatuses
  BY DEF FindingCatalog, DiagnosticStatuses
<1>12. a \in ActionTypes
  BY DEF ReportedActions, ActionTypes
<1>13. /\ Append(<<>>, f) \in Seq(FindingTypes) /\ Append(<<>>, a) \in Seq(ActionTypes)
       /\ Len(Append(<<>>, f)) = 1
  BY <1>12
<1>14. Append(<<>>, f) # <<>>
  BY <1>13
<1>15. QED BY <1>9, <1>10, <1>11, <1>13, <1>14 DEF Tidy, Contexts

\* A step of the loop leaves the context alone or reports into an untouched one.
LEMMA StepReports ==
    ASSUME LoopInv, Next
    PROVE  \/ context' = context
           \/ \E f \in FindingTypes, a \in ReportedActions : context' = Report(NewContext, f, a)
<1>1. context = NewContext
  BY DEF Next, LoopInv, AnalyzeOnu, AnalyzeRunState, AnalyzePower, AnalyzeMac, SkipUnsupported
<1>2. {"ont_not_available", "onu_offline", "low_power", "critical_low_power", "no_mac"}
        \subseteq FindingTypes
  BY DEF FindingTypes
<1>3. QED
  BY <1>1, <1>2 DEF Next, AnalyzeOnu, AnalyzeRunState, AnalyzePower, AnalyzeMac,
                    SkipUnsupported, Skip, Leave, ReportedActions

LEMMA TidyInvariant == Spec => []Tidy(context)
<1>1. Init => Tidy(context)
  BY UntouchedIsTidy DEF Init
<1>2. LoopInv /\ Tidy(context) /\ [Next]_vars => Tidy(context)'
  BY StepReports, ReportIsTidy DEF Tidy, vars
<1>3. QED BY <1>1, <1>2, LoopInvariant, PTL DEF Spec

\* Type correctness of the diagnostic context and of the loop.
THEOREM TypeCorrect == Spec => []TypeOK
<1>1. LoopInv /\ Tidy(context) => TypeOK
  BY DEF LoopInv, Tidy, TypeOK
<1>2. QED BY <1>1, LoopInvariant, TidyInvariant, PTL

\* A diagnosis reports at most one problem, and it stops the chain there
\* (DiagnosticContext.addFinding and addAction within DiagnosticEngine.execute).
THEOREM OneProblem == Spec => []OneProblemStopsTheChain
<1>1. LoopInv /\ Tidy(context) => OneProblemStopsTheChain
  BY DEF LoopInv, Tidy, OneProblemStopsTheChain, NewContext
<1>2. QED BY <1>1, LoopInvariant, TidyInvariant, PTL
=============================================================================
