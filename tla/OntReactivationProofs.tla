------------------------ MODULE OntReactivationProofs ------------------------
(***************************************************************************)
(* Theorems about OntReactivation, for any brands, places, phases and      *)
(* powers, and for an ONT that changes as often as it likes.               *)
(***************************************************************************)
EXTENDS OntReactivation, TLAPS

\* The flows are made of the named steps.
LEMMA FlowTypes ==
    ASSUME NEW b \in Brands
    PROVE  ReadFlow(b) \in Seq(StepNames) /\ ActivationFlow(b) \in Seq(StepNames)
<1>1. b \in AllBrands
  BY OntAssumption
<1>2. CASE b = "huawei"
  BY <1>2 DEF ReadFlow, ActivationFlow, HuaweiRead, StepNames, CData
<1>3. CASE b \in CData
  <2>1. CDataRead \in Seq(StepNames)
    BY DEF CDataRead, StepNames
  <2>2. <<"login", "activate", "exit">> \in Seq(StepNames)
    BY DEF StepNames
  <2>3. ReadFlow(b) = CDataRead /\ ActivationFlow(b) = <<"login", "activate", "exit">>
    BY <1>3 DEF ReadFlow, ActivationFlow, CData
  <2> QED
    BY <2>1, <2>2, <2>3
<1>4. CASE b = "vsol"
  BY <1>4 DEF ReadFlow, ActivationFlow, VSolRead, StepNames, CData
<1>5. CASE b = "kingtype"
  BY <1>5 DEF ReadFlow, ActivationFlow, KingtypeRead, StepNames, CData
<1> QED
  BY <1>1, <1>2, <1>3, <1>4, <1>5 DEF AllBrands

\* A read that has nothing yet.
LEMMA NewContextType == NewContext \in Contexts
BY DEF NewContext, Contexts, Powers

\* What is left of a flow is a flow.
LEMMA TailType ==
    ASSUME NEW s, todo \in Seq(StepNames), At(s)
    PROVE  Tail(todo) \in Seq(StepNames)
BY DEF At

\* A reply is about the ONT at some time of the session, or about nothing.
LEMMA AboutType ==
    ASSUME TypeOK, NEW o \in About \cup AboutPon
    PROVE  o \in past \cup {ont, Nothing} /\ o \in Onts \cup {Nothing}
BY DEF About, AboutPon, TypeOK

\* An activation makes an ONT of an ONT.
LEMMA ReachesType ==
    ASSUME TypeOK, NEW onts \in SUBSET {"ordered", "other"}, Reaches(onts)
    PROVE  /\ ont' \in Onts /\ past' \subseteq Onts /\ hit' \subseteq {"ordered", "other"}
           /\ ont' = ont \/ ont' = [ont EXCEPT !.enabled = TRUE]
           /\ past' = past \cup {ont'} /\ hit' = hit \cup onts
<1>1. ont \in Onts /\ past \subseteq Onts /\ hit \subseteq {"ordered", "other"}
  BY DEF TypeOK
<1>2. [ont EXCEPT !.enabled = TRUE] \in Onts
  BY <1>1 DEF Onts
<1> QED
  BY <1>1, <1>2 DEF Reaches

\* What a command does on the OLT, or nothing at all.
LEMMA EffectDoes ==
    ASSUME TypeOK, NEW s, Effect(s) \/ UNCHANGED <<iface, hit, ont, past>>
    PROVE  /\ ont' \in Onts /\ past' \subseteq Onts /\ hit' \subseteq {"ordered", "other"}
           /\ iface' \in {"none", "own", "other"}
           /\ ont' = ont \/ ont' = [ont EXCEPT !.enabled = TRUE]
           /\ past' = past \cup {ont'} \/ (past' = past /\ ont' = ont)
<1>1. CASE UNCHANGED <<iface, hit, ont, past>>
  BY <1>1 DEF TypeOK
<1>2. CASE Effect(s)
  <2>1. iface' \in {"none", "own", "other"}
    BY <1>2 DEF Effect, LoginTo, TypeOK
  <2>2. CASE s = "activate"
    <3>1. ActivateOnt
      BY <1>2, <2>2 DEF Effect
    <3>2. PICK onts \in SUBSET {"ordered", "other"} : Reaches(onts)
      BY <3>1 DEF ActivateOnt
    <3> QED
      BY <2>1, <3>2, ReachesType
  <2>3. CASE s # "activate"
    BY <1>2, <2>1, <2>3 DEF Effect, TypeOK
  <2> QED
    BY <2>2, <2>3
<1> QED
  BY <1>1, <1>2
-----------------------------------------------------------------------------
(* What a job knows of its ONT it has been, and once it is enabled it stays so. *)

\* What the context says of the ONT was true of it in this session.
SeenOf(c) == {c.row, c.ont, c.state}
SeenWasTrue == SeenOf(seen) \subseteq past \cup {Nothing}

\* An ONT that has been enabled in this session is enabled.
EnabledStays == ont \in past /\ \A o \in past : o.enabled => ont.enabled

JobInv == TypeOK /\ SeenWasTrue /\ EnabledStays /\ SuccessMeansEnabled

LEMMA JobStarts == Init => JobInv
<1> SUFFICES ASSUME Init PROVE JobInv
  OBVIOUS
<1>1. TypeOK
  <2>1. /\ order \in [brand : Brands, slot : Slots, id : Ids, exists : BOOLEAN, onPon : BOOLEAN]
        /\ ont \in Onts /\ past \subseteq Onts
        /\ stage = "status" /\ iface = "none" /\ answer = "none" /\ hit = {}
        /\ trouble = FALSE /\ changes = 0
    BY DEF Init
  <2>2. todo \in Seq(StepNames)
    BY <2>1, FlowTypes DEF Init
  <2>3. seen \in Contexts
    BY NewContextType DEF Init
  <2>4. changes \in 0 .. MaxChanges
    BY <2>1, OntAssumption
  <2> QED
    BY <2>1, <2>2, <2>3, <2>4 DEF TypeOK
<1>2. SeenWasTrue
  BY DEF Init, SeenWasTrue, SeenOf, NewContext
<1>3. EnabledStays /\ SuccessMeansEnabled
  BY DEF Init, EnabledStays, SuccessMeansEnabled
<1> QED
  BY <1>1, <1>2, <1>3 DEF JobInv

\* A step that only reads.
LEMMA GatherKeeps ==
    ASSUME JobInv, UNCHANGED <<world, job, iface, trouble>>,
           todo' \in Seq(StepNames), seen' \in Contexts, SeenOf(seen') \subseteq past \cup {Nothing}
    PROVE  JobInv'
<1>1. TypeOK'
  BY DEF JobInv, TypeOK, world, job
<1>2. SeenWasTrue' /\ EnabledStays'
  BY DEF JobInv, SeenWasTrue, SeenOf, EnabledStays, world
<1>3. SuccessMeansEnabled'
  BY DEF JobInv, SuccessMeansEnabled, world, job
<1> QED
  BY <1>1, <1>2, <1>3 DEF JobInv

\* The parts of a context may be replaced by what a reply says.
LEMMA ContextWith ==
    ASSUME JobInv, NEW o \in About \cup AboutPon
    PROVE  /\ [seen EXCEPT !.row = o] \in Contexts
           /\ [seen EXCEPT !.ont = o] \in Contexts
           /\ [seen EXCEPT !.state = o] \in Contexts
           /\ [seen EXCEPT !.ont = o, !.state = o] \in Contexts
           /\ \A m \in BOOLEAN : [seen EXCEPT !.ont = o, !.state = o, !.mac = m] \in Contexts
           /\ o \in past \cup {Nothing}
<1>1. o \in Onts \cup {Nothing} /\ o \in past \cup {ont, Nothing}
  BY AboutType DEF JobInv
<1>2. seen \in Contexts /\ ont \in past
  BY DEF JobInv, TypeOK, EnabledStays
<1> QED
  BY <1>1, <1>2 DEF Contexts

LEMMA ReadTableKeeps == ASSUME JobInv, ReadTable PROVE JobInv'
<1>1. todo \in Seq(StepNames) /\ At("table")
  BY DEF ReadTable, JobInv, TypeOK
<1>2. todo' \in Seq(StepNames)
  <2>1. todo' \in {<<>>, Tail(todo)}
    BY DEF ReadTable, Gather
  <2>2. Tail(todo) \in Seq(StepNames)
    BY <1>1, TailType
  <2>3. <<>> \in Seq(StepNames)
    OBVIOUS
  <2> QED
    BY <2>1, <2>2, <2>3
<1>3. seen' \in Contexts /\ SeenOf(seen') \subseteq past \cup {Nothing}
  <2>1. CASE seen' = seen
    BY <2>1 DEF JobInv, TypeOK, SeenWasTrue
  <2>2. ASSUME NEW o \in AboutPon,
               seen' = [seen EXCEPT !.ont = o, !.state = o, !.mac = o # Nothing]
        PROVE  seen' \in Contexts /\ SeenOf(seen') \subseteq past \cup {Nothing}
    <3>1. seen' \in Contexts /\ o \in past \cup {Nothing}
      BY <2>2, ContextWith
    <3>2. SeenOf(seen') = {seen.row, o}
      BY <2>2 DEF SeenOf, JobInv, TypeOK, Contexts
    <3> QED
      BY <3>1, <3>2 DEF JobInv, SeenWasTrue, SeenOf
  <2> QED
    BY <2>1, <2>2 DEF ReadTable, Gather
<1> QED
  BY <1>2, <1>3, GatherKeeps DEF ReadTable

LEMMA ReadOntKeeps == ASSUME JobInv, ReadOnt PROVE JobInv'
<1>1. PICK o \in About : Gather([seen EXCEPT !.ont = o, !.state = o])
  BY DEF ReadOnt
<1>2. seen' \in Contexts /\ o \in past \cup {Nothing}
  BY <1>1, ContextWith DEF Gather
<1>3. SeenOf(seen') = {seen.row, o}
  BY <1>1 DEF SeenOf, JobInv, TypeOK, Contexts, Gather
<1>4. todo' \in Seq(StepNames)
  BY <1>1, TailType DEF ReadOnt, Gather, JobInv, TypeOK
<1> QED
  BY <1>2, <1>3, <1>4, GatherKeeps DEF ReadOnt, JobInv, SeenWasTrue, SeenOf

LEMMA OntMissingKeeps == ASSUME JobInv, OntMissing PROVE JobInv'
BY GatherKeeps DEF OntMissing, JobInv, TypeOK, SeenWasTrue

LEMMA ReadOntInfoKeeps == ASSUME JobInv, ReadOntInfo PROVE JobInv'
<1>1. PICK o \in About : Gather([seen EXCEPT !.ont = o])
  BY DEF ReadOntInfo
<1>2. seen' \in Contexts /\ o \in past \cup {Nothing}
  BY <1>1, ContextWith DEF Gather
<1>3. SeenOf(seen') = {seen.row, o, seen.state}
  BY <1>1 DEF SeenOf, JobInv, TypeOK, Contexts, Gather
<1>4. todo' \in Seq(StepNames)
  BY <1>1, TailType DEF ReadOntInfo, Gather, JobInv, TypeOK
<1> QED
  BY <1>2, <1>3, <1>4, GatherKeeps DEF ReadOntInfo, JobInv, SeenWasTrue, SeenOf

LEMMA ReadRowsKeeps == ASSUME JobInv, ReadRows PROVE JobInv'
<1>1. PICK o \in AboutPon : Gather([seen EXCEPT !.row = o])
  BY DEF ReadRows
<1>2. seen' \in Contexts /\ o \in past \cup {Nothing}
  BY <1>1, ContextWith DEF Gather
<1>3. SeenOf(seen') = {o, seen.ont, seen.state}
  BY <1>1 DEF SeenOf, JobInv, TypeOK, Contexts, Gather
<1>4. todo' \in Seq(StepNames)
  BY <1>1, TailType DEF ReadRows, Gather, JobInv, TypeOK
<1> QED
  BY <1>2, <1>3, <1>4, GatherKeeps DEF ReadRows, JobInv, SeenWasTrue, SeenOf

LEMMA PickOnuKeeps == ASSUME JobInv, PickOnu PROVE JobInv'
<1>1. seen \in Contexts
  BY DEF JobInv, TypeOK
<1>2. seen' \in Contexts /\ SeenOf(seen') \subseteq SeenOf(seen)
  BY <1>1 DEF PickOnu, Gather, Contexts, SeenOf
<1>3. todo' \in Seq(StepNames)
  BY TailType DEF PickOnu, Gather, JobInv, TypeOK
<1> QED
  BY <1>2, <1>3, GatherKeeps DEF PickOnu, JobInv, SeenWasTrue

LEMMA ReadStateKeeps == ASSUME JobInv, ReadState PROVE JobInv'
<1>1. PICK o \in About : Gather(IF seen.ont = Nothing THEN seen ELSE [seen EXCEPT !.state = o])
  BY DEF ReadState
<1>2. seen' \in Contexts /\ o \in past \cup {Nothing}
  BY <1>1, ContextWith DEF Gather, JobInv, TypeOK
<1>3. SeenOf(seen') \subseteq SeenOf(seen) \cup {o}
  BY <1>1 DEF SeenOf, JobInv, TypeOK, Contexts, Gather
<1>4. todo' \in Seq(StepNames)
  BY <1>1, TailType DEF ReadState, Gather, JobInv, TypeOK
<1> QED
  BY <1>2, <1>3, <1>4, GatherKeeps DEF ReadState, JobInv, SeenWasTrue

\* The power and the MAC say nothing of the rest.
LEMMA ContextWithPower ==
    ASSUME NEW c \in Contexts, NEW p \in Powers, NEW m \in BOOLEAN
    PROVE  /\ [c EXCEPT !.power = p] \in Contexts /\ SeenOf([c EXCEPT !.power = p]) = SeenOf(c)
           /\ [c EXCEPT !.mac = m] \in Contexts /\ SeenOf([c EXCEPT !.mac = m]) = SeenOf(c)
BY DEF Contexts, SeenOf

LEMMA ReadPowerKeeps == ASSUME JobInv, ReadPower PROVE JobInv'
<1>1. seen \in Contexts
  BY DEF JobInv, TypeOK
<1>2. PICK c \in {seen} \cup {[seen EXCEPT !.power = p] : p \in Powers} : Gather(c)
  <2>1. CASE \E o \in About : Gather([seen EXCEPT !.power = IF o = Nothing THEN NoReading ELSE o.power])
    <3>1. PICK o \in About : Gather([seen EXCEPT !.power = IF o = Nothing THEN NoReading ELSE o.power])
      BY <2>1
    <3>2. (IF o = Nothing THEN NoReading ELSE o.power) \in Powers
      BY AboutType DEF JobInv, Powers, Onts
    <3> QED
      BY <3>1, <3>2
  <2>2. CASE \E p \in Powers : Gather([seen EXCEPT !.power = p])
    BY <2>2
  <2>3. CASE Gather(seen)
    BY <2>3
  <2> QED
    BY <2>1, <2>2, <2>3 DEF ReadPower
<1>3. seen' \in Contexts /\ SeenOf(seen') = SeenOf(seen)
  BY <1>1, <1>2, ContextWithPower DEF Gather
<1>4. todo' \in Seq(StepNames)
  BY <1>2, TailType DEF ReadPower, Gather, JobInv, TypeOK
<1> QED
  BY <1>3, <1>4, GatherKeeps DEF ReadPower, JobInv, SeenWasTrue

LEMMA ReadMacKeeps == ASSUME JobInv, ReadMac PROVE JobInv'
<1>1. PICK o \in About :
          Gather([seen EXCEPT !.mac = seen.ont # Nothing /\ o # Nothing /\ o.mac])
  BY DEF ReadMac
<1>2. seen \in Contexts /\ o \in Onts \cup {Nothing}
  BY AboutType DEF JobInv, TypeOK
<1>3. (seen.ont # Nothing /\ o # Nothing /\ o.mac) \in BOOLEAN
  BY <1>2 DEF Onts
<1>4. seen' \in Contexts /\ SeenOf(seen') = SeenOf(seen)
  BY <1>1, <1>2, <1>3, ContextWithPower DEF Gather, Powers
<1>5. todo' \in Seq(StepNames)
  BY <1>1, TailType DEF ReadMac, Gather, JobInv, TypeOK
<1> QED
  BY <1>4, <1>5, GatherKeeps DEF ReadMac, JobInv, SeenWasTrue
-----------------------------------------------------------------------------
\* A step that may have enabled the ONT, or let it change otherwise.
LEMMA OntMoves ==
    ASSUME JobInv, ont' \in Onts, ont.enabled => ont'.enabled,
           past' = past \cup {ont'} \/ (past' = past /\ ont' = ont),
           UNCHANGED <<order, seen>>, answer' \in {answer, "failed"}
    PROVE  past' \subseteq Onts /\ SeenWasTrue' /\ EnabledStays' /\ SuccessMeansEnabled'
<1>1. past \subseteq Onts
  BY DEF JobInv, TypeOK
<1>2. past' \subseteq Onts /\ past \subseteq past'
  BY <1>1
<1>3. SeenWasTrue'
  BY <1>2 DEF JobInv, SeenWasTrue, SeenOf
<1>4. EnabledStays'
  BY DEF JobInv, EnabledStays
<1>5. SuccessMeansEnabled'
  BY DEF JobInv, SuccessMeansEnabled
<1> QED
  BY <1>2, <1>3, <1>4, <1>5

\* Only upwards.
LEMMA EnabledUp ==
    ASSUME TypeOK, ont' = ont \/ ont' = [ont EXCEPT !.enabled = TRUE]
    PROVE  ont.enabled => ont'.enabled
BY DEF TypeOK, Onts

LEMMA RunCommandKeeps == ASSUME JobInv, RunCommand PROVE JobInv'
<1>1. TypeOK
  BY DEF JobInv
<1>2. PICK s : At(s) /\ (Effect(s) \/ UNCHANGED <<iface, hit, ont, past>>)
  BY DEF RunCommand
<1>3. /\ ont' \in Onts /\ past' \subseteq Onts /\ hit' \subseteq {"ordered", "other"}
      /\ iface' \in {"none", "own", "other"}
      /\ ont.enabled => ont'.enabled
      /\ past' = past \cup {ont'} \/ (past' = past /\ ont' = ont)
  BY <1>1, <1>2, EffectDoes, EnabledUp
<1>4. todo' \in Seq(StepNames)
  BY <1>1, <1>2, TailType DEF RunCommand, Gather, TypeOK
<1>5. TypeOK'
  BY <1>1, <1>3, <1>4 DEF RunCommand, Gather, TypeOK, job
<1> QED
  BY <1>3, <1>5, OntMoves DEF RunCommand, Gather, JobInv, job

LEMMA LostKeeps == ASSUME JobInv, Lost PROVE JobInv'
<1>1. TypeOK
  BY DEF JobInv
<1>2. PICK s \in StepNames :
          /\ At(s)
          /\ Effect(s) \/ UNCHANGED <<iface, hit, ont, past>>
          /\ todo' = IF Required(order.brand, s) THEN <<>> ELSE Tail(todo)
          /\ IF s = "activate" /\ order.brand = "kingtype"
             THEN stage' = "answered" /\ answer' = "failed"
             ELSE UNCHANGED <<stage, answer>>
  BY DEF Lost
<1>3. /\ ont' \in Onts /\ past' \subseteq Onts /\ hit' \subseteq {"ordered", "other"}
      /\ iface' \in {"none", "own", "other"}
      /\ ont.enabled => ont'.enabled
      /\ past' = past \cup {ont'} \/ (past' = past /\ ont' = ont)
  BY <1>1, <1>2, EffectDoes, EnabledUp
<1>4. todo' \in Seq(StepNames)
  <2>1. Tail(todo) \in Seq(StepNames)
    BY <1>1, <1>2, TailType DEF TypeOK
  <2>2. <<>> \in Seq(StepNames)
    OBVIOUS
  <2> QED
    BY <1>2, <2>1, <2>2
<1>5. stage' \in {stage, "answered"} /\ answer' \in {answer, "failed"}
  BY <1>2
<1>6. trouble' = TRUE /\ UNCHANGED <<order, changes, seen>>
  BY DEF Lost
<1>7. TypeOK'
  BY <1>1, <1>3, <1>4, <1>5, <1>6 DEF TypeOK
<1> QED
  BY <1>3, <1>5, <1>6, <1>7, OntMoves DEF JobInv

LEMMA OntChangesKeeps == ASSUME JobInv, OntChanges PROVE JobInv'
<1>1. TypeOK
  BY DEF JobInv
<1>2. ont' \in Onts /\ ont'.enabled = ont.enabled /\ past' = past \cup {ont'}
  BY DEF OntChanges
<1>3. UNCHANGED <<order, hit, stage, answer, todo, iface, seen, trouble>>
  BY DEF OntChanges, job
<1>4. changes' \in 0 .. MaxChanges
  BY <1>1, OntAssumption DEF OntChanges, TypeOK
<1>5. past' \subseteq Onts /\ SeenWasTrue' /\ EnabledStays' /\ SuccessMeansEnabled'
  BY <1>2, <1>3, OntMoves
<1>6. TypeOK'
  BY <1>1, <1>2, <1>3, <1>4, <1>5 DEF TypeOK
<1> QED
  BY <1>5, <1>6 DEF JobInv

-----------------------------------------------------------------------------
\* A flow begins with a context that knows nothing.
LEMMA FlowStarts ==
    ASSUME JobInv, seen' = NewContext, todo' \in Seq(StepNames), UNCHANGED world,
           UNCHANGED <<answer, iface, trouble>>, stage' \in {"activation", "again"}
    PROVE  JobInv'
<1>1. TypeOK'
  BY NewContextType DEF JobInv, TypeOK, world
<1>2. SeenWasTrue'
  BY DEF SeenWasTrue, SeenOf, NewContext
<1>3. EnabledStays' /\ SuccessMeansEnabled'
  BY DEF JobInv, EnabledStays, SuccessMeansEnabled, world
<1> QED
  BY <1>1, <1>2, <1>3 DEF JobInv

\* A job ends with its answer.
LEMMA JobEnds ==
    ASSUME JobInv, UNCHANGED <<world, seen, todo, iface, trouble>>, stage' = "answered",
           answer' \in {"success", "unconfirmed", "not_found"},
           answer' = "success" /\ order.brand \in {"huawei", "kingtype"} => ont.enabled
    PROVE  JobInv'
<1>1. TypeOK'
  BY DEF JobInv, TypeOK, world
<1>2. SeenWasTrue' /\ EnabledStays'
  BY DEF JobInv, SeenWasTrue, SeenOf, EnabledStays, world
<1>3. SuccessMeansEnabled'
  BY DEF SuccessMeansEnabled, world
<1> QED
  BY <1>1, <1>2, <1>3 DEF JobInv

LEMMA ActivationKeeps == ASSUME JobInv, Activation PROVE JobInv'
<1>1. CASE seen.ont = Nothing \/ order.id = 0
  BY <1>1, JobEnds DEF Activation
<1>2. CASE ~(seen.ont = Nothing \/ order.id = 0)
  <2>1. todo' \in Seq(StepNames)
    BY <1>2, FlowTypes DEF Activation, JobInv, TypeOK
  <2> QED
    BY <1>2, <2>1, FlowStarts DEF Activation
<1> QED
  BY <1>1, <1>2

LEMMA SecondReadKeeps == ASSUME JobInv, SecondRead PROVE JobInv'
<1>1. todo' \in Seq(StepNames)
  BY FlowTypes DEF SecondRead, JobInv, TypeOK
<1> QED
  BY <1>1, FlowStarts DEF SecondRead

\* The test of Huawei and Kingtype needs an ONT that was enabled when it was read.
LEMMA SuccessSawEnabled ==
    ASSUME JobInv, order.brand \in {"huawei", "kingtype"}, Succeeds(order.brand, seen)
    PROVE  ont.enabled
<1>1. seen.ont # Nothing /\ seen.ont.enabled
  <2>1. seen.ont \in Onts \cup {Nothing}
    BY DEF JobInv, TypeOK, Contexts
  <2>2. CASE order.brand = "huawei"
    BY <2>2 DEF Succeeds, Status, HuaweiStatus, CData
  <2>3. CASE order.brand = "kingtype"
    <3>1. seen.ont # Nothing /\ seen.ont.phase = "online"
      BY <2>3 DEF Succeeds, Status, KingtypeStatus, CData
    <3> QED
      BY <2>1, <3>1 DEF Onts
  <2> QED
    BY <2>2, <2>3
<1>2. seen.ont \in past
  BY <1>1 DEF JobInv, SeenWasTrue, SeenOf
<1> QED
  BY <1>1, <1>2 DEF JobInv, EnabledStays

LEMMA AnswerKeeps == ASSUME JobInv, Answer PROVE JobInv'
<1>1. answer' = "success" => Succeeds(order.brand, seen)
  BY DEF Answer
<1> QED
  BY <1>1, SuccessSawEnabled, JobEnds DEF Answer

LEMMA JobStep == JobInv /\ [Next]_vars => JobInv'
<1> SUFFICES ASSUME JobInv, [Next]_vars PROVE JobInv'
  OBVIOUS
<1>1. CASE UNCHANGED vars
  <2>1. UNCHANGED <<world, job, iface, trouble>> /\ seen' = seen /\ todo' = todo
    BY <1>1 DEF vars, world, job
  <2> QED
    BY <2>1, GatherKeeps DEF JobInv, TypeOK, SeenWasTrue
<1>2. CASE ReadTable \/ ReadOnt \/ OntMissing \/ ReadOntInfo \/ ReadRows
  BY <1>2, ReadTableKeeps, ReadOntKeeps, OntMissingKeeps, ReadOntInfoKeeps, ReadRowsKeeps
<1>3. CASE PickOnu \/ ReadState \/ ReadPower \/ ReadMac
  BY <1>3, PickOnuKeeps, ReadStateKeeps, ReadPowerKeeps, ReadMacKeeps
<1>4. CASE RunCommand \/ Lost \/ OntChanges
  BY <1>4, RunCommandKeeps, LostKeeps, OntChangesKeeps
<1>5. CASE Activation \/ SecondRead \/ Answer
  BY <1>5, ActivationKeeps, SecondReadKeeps, AnswerKeeps
<1> QED
  BY <1>1, <1>2, <1>3, <1>4, <1>5 DEF Next

LEMMA JobInvariant == Spec => []JobInv
BY JobStarts, JobStep, PTL DEF Spec

\* Type correctness of the jobs.
THEOREM TypeCorrect == Spec => []TypeOK
<1>1. JobInv => TypeOK
  BY DEF JobInv
<1> QED
  BY <1>1, JobInvariant, PTL

\* Whatever was lost, a reactivation that Huawei's or Kingtype's adapter answers
\* as a success has left the ONT enabled.
THEOREM SuccessIsReal == Spec => []SuccessMeansEnabled
<1>1. JobInv => SuccessMeansEnabled
  BY DEF JobInv
<1> QED
  BY <1>1, JobInvariant, PTL
=============================================================================
