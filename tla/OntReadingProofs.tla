--------------------------- MODULE OntReadingProofs ---------------------------
(***************************************************************************)
(* Theorems about what a job on an ONT finds and reaches: they need to     *)
(* know where in its flow a job is, and so which commands came before.     *)
(***************************************************************************)
EXTENDS OntReactivationProofs

\* What is left of a read, step by step.
HuaweiTails ==
    {HuaweiRead, <<"login", "power", "exit", "mac">>, <<"power", "exit", "mac">>,
     <<"exit", "mac">>, <<"mac">>, <<>>}
CDataTails ==
    {CDataRead, <<"login", "ont", "power", "exit", "mac">>, <<"ont", "power", "exit", "mac">>,
     <<"power", "exit", "mac">>, <<"exit", "mac">>, <<"mac">>, <<>>}
VSolTails ==
    {VSolRead, <<"rows", "onu", "state", "power", "exit", "mac">>,
     <<"onu", "state", "power", "exit", "mac">>, <<"state", "power", "exit", "mac">>,
     <<"power", "exit", "mac">>, <<"exit", "mac">>, <<"mac">>, <<>>}
KingtypeTails ==
    {KingtypeRead, <<"onu", "power", "mac">>, <<"power", "mac">>, <<"mac">>, <<>>}

ReadTails(b) ==
    CASE b = "huawei" -> HuaweiTails
      [] b \in CData -> CDataTails
      [] b = "vsol" -> VSolTails
      [] b = "kingtype" -> KingtypeTails

\* Those in which the ONT is still to be found.
Before(b) ==
    CASE b = "huawei" -> {HuaweiRead}
      [] b \in {"cdata", "cdata_other"} ->
             {CDataRead, <<"login", "ont", "power", "exit", "mac">>,
              <<"ont", "power", "exit", "mac">>}
      [] b = "epon" -> {CDataRead}
      [] b = "vsol" -> {VSolRead, <<"rows", "onu", "state", "power", "exit", "mac">>}
      [] b = "kingtype" -> {KingtypeRead}

\* Those in which the CLI has been brought to an interface and is still there.
Inside(b) ==
    CASE b = "huawei" -> {<<"power", "exit", "mac">>}
      [] b \in CData -> {<<"ont", "power", "exit", "mac">>, <<"power", "exit", "mac">>}
      [] b = "vsol" -> {<<"rows", "onu", "state", "power", "exit", "mac">>,
                        <<"onu", "state", "power", "exit", "mac">>,
                        <<"state", "power", "exit", "mac">>, <<"power", "exit", "mac">>}
      [] b = "kingtype" -> {}

\* Those in which the power, and V-Sol's state, have had their turn.
AfterPower == {<<"exit", "mac">>, <<"mac">>, <<>>}
AfterState == {<<"power", "exit", "mac">>} \cup AfterPower

\* How a read goes on from t: what finds the ONT comes in order,
Moves(b, t) ==
    t # <<>> =>
        /\ Tail(t) \in ReadTails(b)
        /\ t \in Before(b) => \/ Tail(t) \in Before(b)
                              \/ Head(t) \in {"ont", "rows"}
                              \/ b = "epon" /\ Head(t) = "table"
        /\ Tail(t) # <<>> /\ Head(Tail(t)) = "onu" => Head(t) = "rows"
        /\ Head(t) = "rows" => Tail(t) # <<>> /\ Head(Tail(t)) = "onu"
        /\ Head(t) = "onu" => t \notin Before(b)
        /\ b = "huawei" /\ t \in Before(b) => Head(t) = "ont"
        /\ b = "epon" /\ t \in Before(b) => Head(t) = "table"
        /\ Head(t) \in {"rows", "onu"} => b \in {"vsol", "kingtype"}
        /\ Head(t) = "ont" => b \notin {"vsol", "kingtype"}
        /\ Head(t) \notin {"ont_info", "activate"}

\* and so does the rest.
Turns(b, t) ==
    t # <<>> =>
        /\ Tail(t) \in Inside(b) => Head(t) = "login" \/ (t \in Inside(b) /\ Head(t) # "exit")
        /\ Head(t) = "power" => t \in Inside(b) \/ b = "kingtype"
        /\ Tail(t) \in AfterPower => Head(t) = "power" \/ (t \in AfterPower /\ Head(t) \in {"exit", "mac"})
        /\ b = "vsol" /\ Tail(t) \in AfterState => Head(t) = "state" \/ t \in AfterState
        /\ Tail(t) = <<>> => Head(t) = "mac"

LEMMA HuaweiMoves == ASSUME NEW t \in HuaweiTails PROVE Moves("huawei", t) /\ Turns("huawei", t)
<1>1. CASE t = HuaweiRead
  BY <1>1 DEF HuaweiTails, HuaweiRead, Moves, ReadTails, Before, CData,
            Turns, Inside, AfterPower, AfterState
<1>2. CASE t = <<"login", "power", "exit", "mac">>
  BY <1>2 DEF HuaweiTails, HuaweiRead, Moves, ReadTails, Before, CData,
            Turns, Inside, AfterPower, AfterState
<1>3. CASE t = <<"power", "exit", "mac">>
  BY <1>3 DEF HuaweiTails, HuaweiRead, Moves, ReadTails, Before, CData,
            Turns, Inside, AfterPower, AfterState
<1>4. CASE t = <<"exit", "mac">>
  BY <1>4 DEF HuaweiTails, HuaweiRead, Moves, ReadTails, Before, CData,
            Turns, Inside, AfterPower, AfterState
<1>5. CASE t = <<"mac">>
  BY <1>5 DEF HuaweiTails, HuaweiRead, Moves, ReadTails, Before, CData,
            Turns, Inside, AfterPower, AfterState
<1>6. CASE t = <<>>
  BY <1>6 DEF Moves, Turns
<1> QED
  BY <1>1, <1>2, <1>3, <1>4, <1>5, <1>6 DEF HuaweiTails

LEMMA CDataMoves ==
    ASSUME NEW b \in CData, NEW t \in CDataTails PROVE Moves(b, t) /\ Turns(b, t)
<1>1. CASE t = CDataRead
  <2>1. CASE b \in {"cdata", "cdata_other"}
    BY <1>1, <2>1 DEF CDataTails, CDataRead, Moves, ReadTails, Before, CData,
            Turns, Inside, AfterPower, AfterState
  <2>2. CASE b = "epon"
    BY <1>1, <2>2 DEF CDataTails, CDataRead, Moves, ReadTails, Before, CData,
            Turns, Inside, AfterPower, AfterState
  <2> QED
    BY <2>1, <2>2 DEF CData
<1>2. CASE t = <<"login", "ont", "power", "exit", "mac">>
  <2>1. CASE b \in {"cdata", "cdata_other"}
    BY <1>2, <2>1 DEF CDataTails, CDataRead, Moves, ReadTails, Before, CData,
            Turns, Inside, AfterPower, AfterState
  <2>2. CASE b = "epon"
    BY <1>2, <2>2 DEF CDataTails, CDataRead, Moves, ReadTails, Before, CData,
            Turns, Inside, AfterPower, AfterState
  <2> QED
    BY <2>1, <2>2 DEF CData
<1>3. CASE t = <<"ont", "power", "exit", "mac">>
  <2>1. CASE b \in {"cdata", "cdata_other"}
    BY <1>3, <2>1 DEF CDataTails, CDataRead, Moves, ReadTails, Before, CData,
            Turns, Inside, AfterPower, AfterState
  <2>2. CASE b = "epon"
    BY <1>3, <2>2 DEF CDataTails, CDataRead, Moves, ReadTails, Before, CData,
            Turns, Inside, AfterPower, AfterState
  <2> QED
    BY <2>1, <2>2 DEF CData
<1>4. CASE t = <<"power", "exit", "mac">>
  <2>1. CASE b \in {"cdata", "cdata_other"}
    BY <1>4, <2>1 DEF CDataTails, CDataRead, Moves, ReadTails, Before, CData,
            Turns, Inside, AfterPower, AfterState
  <2>2. CASE b = "epon"
    BY <1>4, <2>2 DEF CDataTails, CDataRead, Moves, ReadTails, Before, CData,
            Turns, Inside, AfterPower, AfterState
  <2> QED
    BY <2>1, <2>2 DEF CData
<1>5. CASE t = <<"exit", "mac">>
  <2>1. CASE b \in {"cdata", "cdata_other"}
    BY <1>5, <2>1 DEF CDataTails, CDataRead, Moves, ReadTails, Before, CData,
            Turns, Inside, AfterPower, AfterState
  <2>2. CASE b = "epon"
    BY <1>5, <2>2 DEF CDataTails, CDataRead, Moves, ReadTails, Before, CData,
            Turns, Inside, AfterPower, AfterState
  <2> QED
    BY <2>1, <2>2 DEF CData
<1>6. CASE t = <<"mac">>
  <2>1. CASE b \in {"cdata", "cdata_other"}
    BY <1>6, <2>1 DEF CDataTails, CDataRead, Moves, ReadTails, Before, CData,
            Turns, Inside, AfterPower, AfterState
  <2>2. CASE b = "epon"
    BY <1>6, <2>2 DEF CDataTails, CDataRead, Moves, ReadTails, Before, CData,
            Turns, Inside, AfterPower, AfterState
  <2> QED
    BY <2>1, <2>2 DEF CData
<1>7. CASE t = <<>>
  BY <1>7 DEF Moves, Turns
<1> QED
  BY <1>1, <1>2, <1>3, <1>4, <1>5, <1>6, <1>7 DEF CDataTails

LEMMA VSolMoves == ASSUME NEW t \in VSolTails PROVE Moves("vsol", t) /\ Turns("vsol", t)
<1>1. CASE t = VSolRead
  BY <1>1 DEF VSolTails, VSolRead, Moves, ReadTails, Before, CData,
            Turns, Inside, AfterPower, AfterState
<1>2. CASE t = <<"rows", "onu", "state", "power", "exit", "mac">>
  BY <1>2 DEF VSolTails, VSolRead, Moves, ReadTails, Before, CData,
            Turns, Inside, AfterPower, AfterState
<1>3. CASE t = <<"onu", "state", "power", "exit", "mac">>
  BY <1>3 DEF VSolTails, VSolRead, Moves, ReadTails, Before, CData,
            Turns, Inside, AfterPower, AfterState
<1>4. CASE t = <<"state", "power", "exit", "mac">>
  BY <1>4 DEF VSolTails, VSolRead, Moves, ReadTails, Before, CData,
            Turns, Inside, AfterPower, AfterState
<1>5. CASE t = <<"power", "exit", "mac">>
  BY <1>5 DEF VSolTails, VSolRead, Moves, ReadTails, Before, CData,
            Turns, Inside, AfterPower, AfterState
<1>6. CASE t = <<"exit", "mac">>
  BY <1>6 DEF VSolTails, VSolRead, Moves, ReadTails, Before, CData,
            Turns, Inside, AfterPower, AfterState
<1>7. CASE t = <<"mac">>
  BY <1>7 DEF VSolTails, VSolRead, Moves, ReadTails, Before, CData,
            Turns, Inside, AfterPower, AfterState
<1>8. CASE t = <<>>
  BY <1>8 DEF Moves, Turns
<1> QED
  BY <1>1, <1>2, <1>3, <1>4, <1>5, <1>6, <1>7, <1>8 DEF VSolTails

LEMMA KingtypeMoves == ASSUME NEW t \in KingtypeTails PROVE Moves("kingtype", t) /\ Turns("kingtype", t)
<1>1. CASE t = KingtypeRead
  BY <1>1 DEF KingtypeTails, KingtypeRead, Moves, ReadTails, Before, CData,
            Turns, Inside, AfterPower, AfterState
<1>2. CASE t = <<"onu", "power", "mac">>
  BY <1>2 DEF KingtypeTails, KingtypeRead, Moves, ReadTails, Before, CData,
            Turns, Inside, AfterPower, AfterState
<1>3. CASE t = <<"power", "mac">>
  BY <1>3 DEF KingtypeTails, KingtypeRead, Moves, ReadTails, Before, CData,
            Turns, Inside, AfterPower, AfterState
<1>4. CASE t = <<"mac">>
  BY <1>4 DEF KingtypeTails, KingtypeRead, Moves, ReadTails, Before, CData,
            Turns, Inside, AfterPower, AfterState
<1>5. CASE t = <<>>
  BY <1>5 DEF Moves, Turns
<1> QED
  BY <1>1, <1>2, <1>3, <1>4, <1>5 DEF KingtypeTails

LEMMA ReadMoves ==
    ASSUME NEW b \in AllBrands, NEW t \in ReadTails(b)
    PROVE  Moves(b, t) /\ Turns(b, t)
<1>1. CASE b = "huawei"
  BY <1>1, HuaweiMoves DEF ReadTails, CData
<1>2. CASE b \in CData
  <2>1. t \in CDataTails
    BY <1>2 DEF ReadTails, CData
  <2> QED
    BY <1>2, <2>1, CDataMoves
<1>3. CASE b = "vsol"
  BY <1>3, VSolMoves DEF ReadTails, CData
<1>4. CASE b = "kingtype"
  BY <1>4, KingtypeMoves DEF ReadTails, CData
<1> QED
  BY <1>1, <1>2, <1>3, <1>4 DEF AllBrands

\* A read begins before its ONT is found, and may end anywhere.
LEMMA ReadEnds ==
    ASSUME NEW b \in AllBrands
    PROVE  /\ ReadFlow(b) \in ReadTails(b) \cap Before(b) /\ <<>> \in ReadTails(b) \ Before(b)
           /\ ReadFlow(b) # <<>> /\ Head(ReadFlow(b)) # "onu"
<1>1. CASE b = "huawei"
  BY <1>1 DEF ReadFlow, ReadTails, Before, HuaweiTails, HuaweiRead, CData
<1>2. CASE b \in {"cdata", "cdata_other"}
  BY <1>2 DEF ReadFlow, ReadTails, Before, CDataTails, CDataRead, CData
<1>3. CASE b = "epon"
  BY <1>3 DEF ReadFlow, ReadTails, Before, CDataTails, CDataRead, CData
<1>4. CASE b = "vsol"
  BY <1>4 DEF ReadFlow, ReadTails, Before, VSolTails, VSolRead, CData
<1>5. CASE b = "kingtype"
  BY <1>5 DEF ReadFlow, ReadTails, Before, KingtypeTails, KingtypeRead, CData
<1> QED
  BY <1>1, <1>2, <1>3, <1>4, <1>5 DEF AllBrands, CData

\* What is left of an activation; Huawei's looks the ONT up first.
HuaweiActivation == <<"ont_info", "login", "activate", "exit">>
ActivationTails ==
    {HuaweiActivation, <<"login", "activate", "exit">>, <<"activate", "exit">>, <<"exit">>,
     <<"activate">>, <<>>}

LEMMA ActivationMoves ==
    ASSUME NEW t \in ActivationTails, t # <<>>
    PROVE  /\ Tail(t) \in ActivationTails
           /\ Head(t) \in {"ont_info", "login", "activate", "exit"}
           /\ t = HuaweiActivation <=> Head(t) = "ont_info"
           /\ Tail(t) # HuaweiActivation
<1>1. CASE t = HuaweiActivation
  BY <1>1 DEF HuaweiActivation, ActivationTails
<1>2. CASE t = <<"login", "activate", "exit">>
  BY <1>2 DEF HuaweiActivation, ActivationTails
<1>3. CASE t = <<"activate", "exit">>
  BY <1>3 DEF HuaweiActivation, ActivationTails
<1>4. CASE t = <<"exit">>
  BY <1>4 DEF HuaweiActivation, ActivationTails
<1>5. CASE t = <<"activate">>
  BY <1>5 DEF HuaweiActivation, ActivationTails
<1> QED
  BY <1>1, <1>2, <1>3, <1>4, <1>5 DEF ActivationTails

-----------------------------------------------------------------------------
(* The invariant. *)

Reading == stage \in {"status", "again"}

\* The flow at hand is the stage's.
InFlow ==
    /\ Reading => todo \in ReadTails(order.brand)
    /\ stage = "activation" => todo \in ActivationTails

\* The EPON table, and what passes for it, ends the read.
TableEnds ==
    Reading /\ ~trouble /\ order.brand \in {"epon", "cdata_other"} => todo \in {CDataRead, <<>>}

\* As long as nothing is lost, an ONT that is not hidden is found in its turn.
FoundInTurn ==
    Reading /\ ~trouble /\ ~Hidden =>
        /\ At("onu") => seen.row # Nothing
        /\ todo \in Before(order.brand) \/ At("onu") \/ seen.ont # Nothing

\* Huawei reads nothing else of an ONT it has not found, whatever is lost.
FoundFirst ==
    Reading /\ order.brand = "huawei" =>
        todo \in Before("huawei") \/ todo = <<>> \/ seen.ont # Nothing

\* Nor does it activate one.
FoundToActivate ==
    stage = "activation" /\ order.brand = "huawei" /\ ~trouble =>
        todo = HuaweiActivation \/ seen.ont # Nothing

Position == InFlow /\ TableEnds /\ FoundInTurn /\ FoundFirst /\ FoundToActivate

\* What is hidden is not found, and not activated.
NoneToFind ==
    ~trouble /\ Hidden => SeenOf(seen) = {Nothing} /\ stage \in {"status", "answered"}

\* Only a blind activation leads Huawei to the wrong interface.
InPlace ==
    /\ order.brand # "huawei" \/ stage = "status" \/ ~trouble => iface # "other"
    /\ stage = "activation" /\ iface = "other" => todo # HuaweiActivation /\ Blind

\* So the power of the first read is the ONT's.
PowerWasTrue ==
    stage = "status" /\ order.onPon =>
        seen.power = NoReading \/ \E o \in past : o.power = seen.power

\* A job is not answered before its end.
AnswerComes == stage # "answered" => answer = "none"

ReadingInv ==
    /\ JobInv /\ Position /\ NoneToFind /\ InPlace /\ PowerWasTrue
    /\ AnswerComes /\ FoundUnlessHidden

LEMMA BrandType == ASSUME JobInv PROVE order.brand \in AllBrands
BY OntAssumption DEF JobInv, TypeOK

\* Where the flow at hand goes next.
LEMMA TodoMoves ==
    ASSUME JobInv, InFlow, Reading, NEW s, At(s)
    PROVE  /\ todo # <<>> /\ Head(todo) = s /\ todo \in ReadTails(order.brand)
           /\ Moves(order.brand, todo) /\ Turns(order.brand, todo)
BY BrandType, ReadMoves DEF InFlow, At

LEMMA InFlowMoves ==
    ASSUME JobInv, InFlow, NEW s, At(s), todo' \in {Tail(todo), <<>>}, UNCHANGED <<order, stage>>
    PROVE  InFlow'
<1>1. CASE Reading
  <2>1. Tail(todo) \in ReadTails(order.brand)
    BY <1>1, TodoMoves DEF Moves
  <2>2. <<>> \in ReadTails(order.brand)
    BY BrandType, ReadEnds
  <2> QED
    BY <1>1, <2>1, <2>2 DEF InFlow, Reading
<1>2. CASE stage = "activation"
  <2>1. Tail(todo) \in ActivationTails
    BY <1>2, ActivationMoves DEF InFlow, At
  <2>2. <<>> \in ActivationTails
    BY DEF ActivationTails
  <2> QED
    BY <1>2, <2>1, <2>2 DEF InFlow, Reading
<1> QED
  BY <1>1, <1>2 DEF InFlow, Reading

\* So no other step is taken, unless one is lost.
LEMMA TableStep ==
    ASSUME TableEnds, NEW s, At(s), UNCHANGED <<order, stage, trouble>>,
           s = "table" => order.brand = "cdata" \/ trouble \/ todo' = <<>>
    PROVE  TableEnds'
<1>1. CDataRead # <<>> /\ Head(CDataRead) = "table"
  BY DEF CDataRead
<1> QED
  BY <1>1 DEF TableEnds, Reading, At

\* A step that neither finds the ONT nor could have.
LEMMA PlainStep ==
    ASSUME JobInv, Position, NEW s, At(s), s \notin {"ont", "rows", "onu", "ont_info"},
           s = "table" => order.brand = "cdata" \/ trouble,
           todo' = Tail(todo), UNCHANGED <<order, stage, trouble>>,
           seen'.row = seen.row, seen'.ont = seen.ont
    PROVE  Position'
<1>1. InFlow'
  BY InFlowMoves DEF Position
<1>2. FoundInTurn' /\ FoundFirst'
  <2>1. SUFFICES ASSUME Reading PROVE FoundInTurn' /\ FoundFirst'
    BY DEF FoundInTurn, FoundFirst, Reading
  <2>2. todo # <<>> /\ Head(todo) = s /\ Moves(order.brand, todo)
    BY <2>1, TodoMoves DEF Position
  <2>3. todo \in Before(order.brand) => Tail(todo) \in Before(order.brand) \/ trouble
    BY <2>2 DEF Moves
  <2>4. ~At("onu")'
    BY <2>2 DEF Moves, At
  <2>5. ~At("onu")
    BY DEF At
  <2>6. FoundInTurn'
    BY <2>1, <2>3, <2>4, <2>5 DEF Position, FoundInTurn, Reading, Hidden
  <2>7. FoundFirst'
    BY <2>1, <2>2 DEF Position, FoundFirst, Reading, Moves
  <2> QED
    BY <2>6, <2>7
<1>3. FoundToActivate'
  <2>1. SUFFICES ASSUME stage = "activation", order.brand = "huawei", ~trouble
                 PROVE  seen.ont # Nothing
    BY DEF FoundToActivate
  <2>2. todo \in ActivationTails /\ todo # <<>> /\ Head(todo) = s
    BY <2>1 DEF Position, InFlow, At
  <2>3. todo # HuaweiActivation
    BY <2>2, ActivationMoves
  <2> QED
    BY <2>1, <2>3 DEF Position, FoundToActivate
<1>4. TableEnds'
  BY TableStep DEF Position
<1> QED
  BY <1>1, <1>2, <1>3, <1>4 DEF Position

\* A step that finds the ONT, if it is there and nothing was lost.
LEMMA FindStep ==
    ASSUME JobInv, Position, NoneToFind, NEW s, At(s), s # "rows",
           todo' \in {Tail(todo), <<>>}, UNCHANGED <<order, stage, trouble>>,
           s = "table" => order.brand = "epon" /\ todo' = <<>>,
           ~trouble /\ ~Hidden => seen'.ont # Nothing,
           Reading /\ order.brand = "huawei" => seen'.ont # Nothing \/ todo' = <<>>
    PROVE  Position'
<1>1. InFlow'
  BY InFlowMoves DEF Position
<1>2. FoundInTurn'
  <2>1. SUFFICES ASSUME Reading PROVE FoundInTurn'
    BY DEF FoundInTurn, Reading
  <2>2. todo # <<>> /\ Head(todo) = s /\ Moves(order.brand, todo)
    BY <2>1, TodoMoves DEF Position
  <2>3. ~At("onu")'
    BY <2>2 DEF Moves, At
  <2> QED
    BY <2>3 DEF FoundInTurn, Hidden
<1>3. FoundFirst'
  BY DEF FoundFirst, Reading
<1>4. FoundToActivate'
  BY DEF FoundToActivate, NoneToFind
<1>5. TableEnds'
  BY TableStep DEF Position
<1> QED
  BY <1>1, <1>2, <1>3, <1>4, <1>5 DEF Position

\* A read that ends without having found anything: nothing was to be found, or a
\* step was lost before.
LEMMA GiveUp ==
    ASSUME JobInv, Position, NEW s, At(s), s \in {"table", "ont"}, ~trouble => Hidden,
           todo' = <<>>, seen' = seen, UNCHANGED <<order, stage, trouble>>
    PROVE  Position'
<1>1. InFlow'
  BY InFlowMoves DEF Position
<1>2. TableEnds' /\ FoundFirst'
  BY DEF TableEnds, FoundFirst
<1>3. FoundInTurn'
  BY DEF FoundInTurn, Hidden
<1>4. FoundToActivate'
  <2>1. stage # "activation"
    BY ActivationMoves DEF Position, InFlow, At
  <2> QED
    BY <2>1 DEF FoundToActivate
<1> QED
  BY <1>1, <1>2, <1>3, <1>4 DEF Position

-----------------------------------------------------------------------------
(* The steps that only read. *)

\* While nothing is lost a reply is about the ONT as it is.
LEMMA AboutNow ==
    ASSUME JobInv, ~trouble
    PROVE  /\ \A o \in About : (order.exists => o = ont /\ o # Nothing)
                               /\ (~order.exists => o = Nothing)
           /\ \A o \in AboutPon : (order.exists /\ order.onPon => o # Nothing)
                                  /\ (~order.exists \/ ~order.onPon => o = Nothing)
BY NothingAssumption DEF About, AboutPon, JobInv, TypeOK

\* In the wrong interface an activation reads nothing any more.
LEMMA NothingReadThere ==
    ASSUME ReadingInv, NEW s, At(s), s \notin {"login", "activate", "exit"}
    PROVE  ~(stage = "activation" /\ iface = "other")
<1> SUFFICES ASSUME stage = "activation", iface = "other" PROVE FALSE
  OBVIOUS
<1>1. order.brand = "huawei" /\ todo # HuaweiActivation
  BY DEF ReadingInv, InPlace
<1>2. todo \in ActivationTails /\ todo # <<>> /\ Head(todo) = s
  BY <1>1 DEF ReadingInv, Position, InFlow, At
<1> QED
  BY <1>1, <1>2, ActivationMoves

LEMMA ReadingKeeps ==
    ASSUME ReadingInv, JobInv', UNCHANGED <<world, job, iface, trouble>>,
           Position', NoneToFind', PowerWasTrue',
           ~(stage = "activation" /\ iface = "other")
    PROVE  ReadingInv'
<1>1. InPlace'
  BY DEF ReadingInv, InPlace, Blind, world, job
<1>2. AnswerComes' /\ FoundUnlessHidden'
  BY DEF ReadingInv, AnswerComes, FoundUnlessHidden, Hidden, world, job
<1> QED
  BY <1>1, <1>2 DEF ReadingInv

\* What a step that leaves the power alone has to show.
LEMMA PowerKept ==
    ASSUME ReadingInv, UNCHANGED <<world, job>>, seen'.power = seen.power
    PROVE  PowerWasTrue'
BY DEF ReadingInv, PowerWasTrue, world, job

LEMMA NoneKept ==
    ASSUME ReadingInv, UNCHANGED <<world, job, trouble>>,
           ~trouble /\ Hidden => SeenOf(seen') = {Nothing}
    PROVE  NoneToFind'
BY DEF ReadingInv, NoneToFind, Hidden, world, job

LEMMA SeenFields == ASSUME JobInv PROVE seen \in Contexts
BY DEF JobInv, TypeOK

\* Steps that find: the ONT, and with it its state, as the reply has it.
LEMMA FindingKeeps ==
    ASSUME ReadingInv, JobInv', UNCHANGED <<world, job, iface, trouble>>,
           NEW s, At(s), s \notin {"rows", "login", "activate", "exit"},
           s = "table" => order.brand = "epon" /\ todo' = <<>>,
           todo' \in {Tail(todo), <<>>},
           NEW o, seen'.ont = o, seen'.row = seen.row, seen'.power = seen.power,
           seen'.state \in {o, seen.state},
           ~trouble => (o = Nothing <=> Hidden),
           Reading /\ order.brand = "huawei" => o # Nothing \/ todo' = <<>>
    PROVE  ReadingInv'
<1>1. /\ JobInv /\ Position /\ NoneToFind
      /\ UNCHANGED <<order, stage, trouble>> /\ UNCHANGED <<world, job>>
  BY DEF ReadingInv, world, job
<1>2. Position'
  BY <1>1, FindStep
<1>3. ~trouble /\ Hidden => SeenOf(seen') = {Nothing}
  BY <1>1 DEF NoneToFind, SeenOf
<1> QED
  BY <1>1, <1>2, <1>3, NoneKept, PowerKept, NothingReadThere, ReadingKeeps

\* Steps that leave what was found as it is.
LEMMA PlainKeeps ==
    ASSUME ReadingInv, JobInv', UNCHANGED <<world, job, iface, trouble>>,
           NEW s, At(s),
           s \notin {"ont", "rows", "onu", "ont_info", "login", "activate", "exit"},
           s = "table" => order.brand = "cdata" \/ trouble,
           todo' = Tail(todo), seen'.row = seen.row, seen'.ont = seen.ont,
           ~trouble /\ Hidden => seen'.state \in {seen.state, Nothing},
           PowerWasTrue'
    PROVE  ReadingInv'
<1>1. /\ JobInv /\ Position /\ NoneToFind
      /\ UNCHANGED <<order, stage, trouble>> /\ UNCHANGED <<world, job>>
  BY DEF ReadingInv, world, job
<1>2. Position'
  BY <1>1, PlainStep
<1>3. ~trouble /\ Hidden => SeenOf(seen') = {Nothing}
  BY <1>1 DEF NoneToFind, SeenOf
<1> QED
  BY <1>1, <1>2, <1>3, NoneKept, NothingReadThere, ReadingKeeps

\* Steps that end a read with nothing, because there is nothing or because of a loss.
LEMMA GivingUpKeeps ==
    ASSUME ReadingInv, JobInv', UNCHANGED <<world, job, iface, trouble>>,
           NEW s, At(s), s \in {"table", "ont"}, ~trouble => Hidden,
           todo' = <<>>, seen' = seen
    PROVE  ReadingInv'
<1>1. /\ JobInv /\ Position /\ NoneToFind
      /\ UNCHANGED <<order, stage, trouble>> /\ UNCHANGED <<world, job>>
  BY DEF ReadingInv, world, job
<1>2. Position'
  BY <1>1, GiveUp
<1>3. NoneToFind' /\ PowerWasTrue'
  BY <1>1, NoneKept, PowerKept DEF NoneToFind
<1> QED
  BY <1>2, <1>3, NothingReadThere, ReadingKeeps

LEMMA ReadTableReads == ASSUME ReadingInv, ReadTable PROVE ReadingInv'
<1>1. JobInv /\ JobInv' /\ seen \in Contexts
  BY ReadTableKeeps, SeenFields DEF ReadingInv
<1>2. At("table") /\ UNCHANGED <<world, job, iface, trouble>> /\ UNCHANGED <<world, job>>
  BY DEF ReadTable
<1>3. CASE (order.brand = "cdata" \/ trouble) /\ Gather(seen)
  <2>1. seen' = seen /\ todo' = Tail(todo)
    BY <1>3 DEF Gather
  <2>2. PowerWasTrue'
    BY <1>2, <2>1, PowerKept
  <2> QED
    BY <1>1, <1>2, <1>3, <2>1, <2>2, PlainKeeps
<1>4. ASSUME order.brand = "epon", todo' = <<>>,
             NEW o \in AboutPon, seen' = [seen EXCEPT !.ont = o, !.state = o, !.mac = o # Nothing]
      PROVE  ReadingInv'
  <2>1. seen'.ont = o /\ seen'.row = seen.row /\ seen'.power = seen.power /\ seen'.state = o
    BY <1>1, <1>4 DEF Contexts
  <2>2. ~trouble => (o = Nothing <=> Hidden)
    BY <1>1, <1>4, AboutNow DEF Hidden, JobInv, TypeOK
  <2> QED
    BY <1>1, <1>2, <1>4, <2>1, <2>2, FindingKeeps
<1>5. CASE (order.brand = "cdata_other" \/ trouble) /\ todo' = <<>> /\ UNCHANGED seen
  BY <1>1, <1>2, <1>5, GivingUpKeeps DEF Hidden
<1> QED
  BY <1>3, <1>4, <1>5 DEF ReadTable

LEMMA ReadOntReads == ASSUME ReadingInv, ReadOnt PROVE ReadingInv'
<1>1. JobInv /\ JobInv' /\ seen \in Contexts /\ Position /\ NoneToFind
  BY ReadOntKeeps, SeenFields DEF ReadingInv
<1>2. At("ont") /\ order.brand # "epon" /\ UNCHANGED <<world, job, iface, trouble>>
  BY DEF ReadOnt
<1>3. PICK o \in About \ {Nothing} : Gather([seen EXCEPT !.ont = o, !.state = o])
  BY DEF ReadOnt
<1>4. /\ seen'.ont = o /\ seen'.row = seen.row /\ seen'.power = seen.power /\ seen'.state = o
      /\ todo' = Tail(todo)
  BY <1>1, <1>3 DEF Contexts, Gather
<1>5. ~trouble => ~Hidden
  <2>1. SUFFICES ASSUME ~trouble, Hidden PROVE FALSE
    OBVIOUS
  <2>2. Reading
    BY <1>1, <1>2, <2>1 DEF NoneToFind, Reading, At
  <2>3. order.exists
    BY <1>1, <1>3, <2>1, AboutNow
  <2>4. order.brand \notin {"vsol", "kingtype"}
    BY <1>1, <1>2, <2>2, TodoMoves DEF Position, Moves
  <2>5. order.brand \notin {"epon", "cdata_other"}
    BY <1>1, <1>2, <2>1, <2>2 DEF Position, TableEnds, At, CDataRead
  <2> QED
    BY <2>1, <2>3, <2>4, <2>5 DEF Hidden
<1> QED
  BY <1>1, <1>2, <1>3, <1>4, <1>5, FindingKeeps

LEMMA ReadOntInfoReads == ASSUME ReadingInv, ReadOntInfo PROVE ReadingInv'
<1>1. JobInv /\ JobInv' /\ seen \in Contexts /\ Position /\ NoneToFind
  BY ReadOntInfoKeeps, SeenFields DEF ReadingInv
<1>2. At("ont_info") /\ UNCHANGED <<world, job, iface, trouble>>
  BY DEF ReadOntInfo
<1>3. PICK o \in About : Gather([seen EXCEPT !.ont = o])
  BY DEF ReadOntInfo
<1>4. /\ seen'.ont = o /\ seen'.row = seen.row /\ seen'.power = seen.power
      /\ seen'.state = seen.state /\ todo' = Tail(todo)
  BY <1>1, <1>3 DEF Contexts, Gather
<1>5. ~Reading
  BY <1>1, <1>2, TodoMoves DEF Moves, Position
<1>6. ~trouble => o # Nothing /\ ~Hidden
  <2>1. SUFFICES ASSUME ~trouble PROVE o # Nothing /\ ~Hidden
    OBVIOUS
  <2>2. ~Hidden
    BY <1>1, <1>2, <1>5, <2>1 DEF NoneToFind, Reading, At
  <2> QED
    BY <1>1, <2>1, <2>2, AboutNow DEF Hidden
<1> QED
  BY <1>1, <1>2, <1>3, <1>4, <1>5, <1>6, FindingKeeps

\* The parser throws only if there is nothing to be found, or after a loss.
LEMMA MissingHidden == ASSUME ReadingInv, OntMissing, ~trouble PROVE Hidden
<1>1. JobInv /\ Position /\ At("ont")
  BY DEF ReadingInv, OntMissing
<1>2. Reading
  <2>1. stage # "activation"
    BY <1>1, ActivationMoves DEF Position, InFlow, At
  <2> QED
    BY <1>1, <2>1 DEF Reading, At, JobInv, TypeOK
<1>3. order.brand # "epon"
  BY <1>1, <1>2 DEF Position, TableEnds, At, CDataRead
<1> QED
  BY <1>1, <1>3, AboutNow DEF OntMissing, Hidden

LEMMA OntMissingReads == ASSUME ReadingInv, OntMissing PROVE ReadingInv'
<1>1. JobInv'
  BY OntMissingKeeps DEF ReadingInv
<1>2. /\ At("ont") /\ UNCHANGED <<world, job, iface, trouble>>
      /\ todo' = <<>> /\ seen' = seen
  BY DEF OntMissing
<1> QED
  BY <1>1, <1>2, MissingHidden, GivingUpKeeps

LEMMA ReadRowsReads == ASSUME ReadingInv, ReadRows PROVE ReadingInv'
<1>1. JobInv /\ JobInv' /\ seen \in Contexts /\ Position
  BY ReadRowsKeeps, SeenFields DEF ReadingInv
<1>2. At("rows") /\ UNCHANGED <<world, job, iface, trouble>> /\ UNCHANGED <<order, stage>>
  BY DEF ReadRows, world, job
<1>3. PICK o \in AboutPon : Gather([seen EXCEPT !.row = o])
  BY DEF ReadRows
<1>4. /\ seen'.row = o /\ seen'.ont = seen.ont /\ seen'.power = seen.power
      /\ seen'.state = seen.state /\ todo' = Tail(todo)
  BY <1>1, <1>3 DEF Contexts, Gather
<1>5. ~trouble => (o = Nothing <=> Hidden)
  <2>1. SUFFICES ASSUME ~trouble PROVE o = Nothing <=> Hidden
    OBVIOUS
  <2>2. Reading
    <3>1. stage # "activation"
      BY <1>1, <1>2, ActivationMoves DEF Position, InFlow, At
    <3> QED
      BY <1>1, <1>2, <3>1 DEF Reading, At, JobInv, TypeOK
  <2>3. order.brand \in {"vsol", "kingtype"}
    BY <1>1, <1>2, <2>2, TodoMoves DEF Position, Moves
  <2> QED
    BY <1>1, <1>3, <2>1, <2>3, AboutNow DEF Hidden, JobInv, TypeOK
<1>6. InFlow'
  BY <1>1, <1>2, <1>4, InFlowMoves DEF Position
<1>7. FoundInTurn' /\ FoundFirst'
  <2>1. SUFFICES ASSUME Reading PROVE FoundInTurn' /\ FoundFirst'
    BY <1>2 DEF FoundInTurn, FoundFirst, Reading
  <2>2. todo # <<>> /\ Head(todo) = "rows" /\ Moves(order.brand, todo)
    BY <1>1, <1>2, <2>1, TodoMoves DEF Position
  <2>3. At("onu")'
    BY <1>2, <1>4, <2>1, <2>2 DEF Moves, At, Reading
  <2>4. order.brand # "huawei"
    BY <2>2 DEF Moves
  <2> QED
    BY <1>2, <1>4, <1>5, <2>3, <2>4 DEF FoundInTurn, FoundFirst, Hidden
<1>8. FoundToActivate'
  <2>1. stage # "activation"
    BY <1>1, <1>2, ActivationMoves DEF Position, InFlow, At
  <2> QED
    BY <1>2, <2>1 DEF FoundToActivate
<1>9. ~trouble /\ Hidden => SeenOf(seen') = {Nothing}
  BY <1>4, <1>5 DEF ReadingInv, NoneToFind, SeenOf
<1>10. TableEnds'
  BY <1>1, <1>2, TableStep DEF Position
<1>11. NoneToFind' /\ PowerWasTrue'
  BY <1>2, <1>4, <1>9, NoneKept, PowerKept
<1> QED
  BY <1>1, <1>2, <1>6, <1>7, <1>8, <1>10, <1>11, NothingReadThere, ReadingKeeps DEF Position

LEMMA PickOnuReads == ASSUME ReadingInv, PickOnu PROVE ReadingInv'
<1>1. JobInv /\ JobInv' /\ seen \in Contexts /\ Position /\ NoneToFind
  BY PickOnuKeeps, SeenFields DEF ReadingInv
<1>2. At("onu") /\ UNCHANGED <<world, job, iface, trouble>> /\ UNCHANGED <<order, stage>>
  BY DEF PickOnu, world, job
<1>3. /\ seen'.row = seen.row /\ seen'.ont = seen.row /\ seen'.power = seen.power
      /\ seen'.state \in {seen.row, seen.state} /\ todo' = Tail(todo)
  BY <1>1 DEF PickOnu, Contexts, Gather
<1>4. InFlow'
  BY <1>1, <1>2, <1>3, InFlowMoves DEF Position
<1>5. FoundInTurn' /\ FoundFirst'
  <2>1. SUFFICES ASSUME Reading PROVE FoundInTurn' /\ FoundFirst'
    BY <1>2 DEF FoundInTurn, FoundFirst, Reading
  <2>2. todo # <<>> /\ Head(todo) = "onu" /\ Moves(order.brand, todo)
    BY <1>1, <1>2, <2>1, TodoMoves DEF Position
  <2>3. ~At("onu")'
    BY <1>3, <2>2 DEF Moves, At
  <2>4. order.brand # "huawei"
    BY <2>2 DEF Moves
  <2>5. ~trouble /\ ~Hidden => seen.row # Nothing
    BY <1>1, <1>2, <2>1 DEF Position, FoundInTurn
  <2> QED
    BY <1>2, <1>3, <2>3, <2>4, <2>5 DEF FoundInTurn, FoundFirst, Hidden
<1>6. FoundToActivate'
  <2>1. stage # "activation"
    BY <1>1, <1>2, ActivationMoves DEF Position, InFlow, At
  <2> QED
    BY <1>2, <2>1 DEF FoundToActivate
<1>7. ~trouble /\ Hidden => SeenOf(seen') = {Nothing}
  BY <1>1, <1>3 DEF NoneToFind, SeenOf
<1>8. TableEnds'
  BY <1>1, <1>2, TableStep DEF Position
<1>9. NoneToFind' /\ PowerWasTrue'
  BY <1>2, <1>3, <1>7, NoneKept, PowerKept
<1> QED
  BY <1>1, <1>2, <1>4, <1>5, <1>6, <1>8, <1>9, NothingReadThere, ReadingKeeps DEF Position

LEMMA ReadStateReads == ASSUME ReadingInv, ReadState PROVE ReadingInv'
<1>1. JobInv /\ JobInv' /\ seen \in Contexts /\ NoneToFind
  BY ReadStateKeeps, SeenFields DEF ReadingInv
<1>2. At("state") /\ UNCHANGED <<world, job, iface, trouble>>
  BY DEF ReadState
<1>3. PICK o \in About : Gather(IF seen.ont = Nothing THEN seen ELSE [seen EXCEPT !.state = o])
  BY DEF ReadState
<1>4. /\ seen'.row = seen.row /\ seen'.ont = seen.ont /\ seen'.power = seen.power
      /\ seen'.state \in {o, seen.state} /\ todo' = Tail(todo)
  BY <1>1, <1>3 DEF Contexts, Gather
<1>5. ~trouble /\ Hidden => seen'.state = seen.state
  BY <1>1, <1>3 DEF NoneToFind, SeenOf, Gather
<1>6. PowerWasTrue'
  BY <1>2, <1>4, PowerKept
<1> QED
  BY <1>1, <1>2, <1>4, <1>5, <1>6, PlainKeeps

LEMMA ReadMacReads == ASSUME ReadingInv, ReadMac PROVE ReadingInv'
<1>1. JobInv /\ JobInv' /\ seen \in Contexts
  BY ReadMacKeeps, SeenFields DEF ReadingInv
<1>2. At("mac") /\ UNCHANGED <<world, job, iface, trouble>>
  BY DEF ReadMac
<1>3. /\ seen'.row = seen.row /\ seen'.ont = seen.ont /\ seen'.power = seen.power
      /\ seen'.state = seen.state /\ todo' = Tail(todo)
  BY <1>1 DEF ReadMac, Contexts, Gather
<1>4. PowerWasTrue'
  BY <1>2, <1>3, PowerKept
<1> QED
  BY <1>1, <1>2, <1>3, <1>4, PlainKeeps

\* In its place the power is the ONT's.
LEMMA ReadPowerReads == ASSUME ReadingInv, ReadPower PROVE ReadingInv'
<1>1. JobInv /\ JobInv' /\ seen \in Contexts
  BY ReadPowerKeeps, SeenFields DEF ReadingInv
<1>2. At("power") /\ UNCHANGED <<world, job, iface, trouble>>
  BY DEF ReadPower
<1>3. /\ seen'.row = seen.row /\ seen'.ont = seen.ont /\ seen'.state = seen.state
      /\ todo' = Tail(todo)
  BY <1>1 DEF ReadPower, Contexts, Gather
<1>4. PowerWasTrue'
  <2>1. SUFFICES ASSUME stage = "status", order.onPon
                 PROVE  seen'.power = NoReading \/ \E o \in past : o.power = seen'.power
    BY <1>2 DEF PowerWasTrue, world, job
  <2>2. iface # "other"
    BY <2>1 DEF ReadingInv, InPlace
  <2>3. CASE \E o \in About :
                 Gather([seen EXCEPT !.power = IF o = Nothing THEN NoReading ELSE o.power])
    <3>1. PICK o \in About :
                 Gather([seen EXCEPT !.power = IF o = Nothing THEN NoReading ELSE o.power])
      BY <2>3
    <3>2. seen'.power = IF o = Nothing THEN NoReading ELSE o.power
      BY <1>1, <3>1 DEF Contexts, Gather
    <3>3. o \in past \cup {Nothing}
      BY <1>1, ContextWith
    <3> QED
      BY <3>2, <3>3
  <2>4. CASE seen' = seen
    BY <2>1, <2>4 DEF ReadingInv, PowerWasTrue
  <2> QED
    BY <2>1, <2>2, <2>3, <2>4 DEF ReadPower, Gather
<1> QED
  BY <1>1, <1>2, <1>3, <1>4, PlainKeeps

-----------------------------------------------------------------------------
(* The commands. *)

\* Huawei logs in where it should, if it has found the ONT.
LEMMA LoginInPlace ==
    ASSUME JobInv, Position, At("login"), stage = "status" \/ ~trouble \/ order.brand # "huawei"
    PROVE  LoginTo # "other"
<1>1. SUFFICES ASSUME order.brand = "huawei" PROVE seen.ont # Nothing
  BY DEF LoginTo
<1>2. stage \in {"status", "activation", "again"}
  BY DEF JobInv, TypeOK, At
<1>3. CASE Reading
  <2>1. todo # <<>> /\ todo \notin Before("huawei")
    BY <1>1, <1>3, TodoMoves DEF Position, Moves
  <2> QED
    BY <1>1, <1>3, <2>1 DEF Position, FoundFirst
<1>4. CASE stage = "activation"
  <2>1. todo # HuaweiActivation
    BY <1>1, <1>4, ActivationMoves DEF Position, InFlow, At
  <2> QED
    BY <1>1, <1>4, <2>1 DEF Position, FoundToActivate
<1> QED
  BY <1>2, <1>3, <1>4 DEF Reading

\* A command leaves the CLI in its place, if that is where it should be, and an
\* activation that is led astray is blind.
LEMMA StaysInPlace ==
    ASSUME JobInv, Position, InPlace, NEW s, At(s), todo' \in {Tail(todo), <<>>},
           Effect(s) \/ UNCHANGED <<iface, hit, ont, past>>
    PROVE  /\ order.brand # "huawei" \/ stage = "status" \/ ~trouble => iface' # "other"
           /\ stage = "activation" /\ iface' = "other" => todo' # HuaweiActivation /\ Blind
<1>1. iface' \in {iface, "none"} \/ (s = "login" /\ iface' = LoginTo)
  BY DEF Effect
<1>2. ASSUME order.brand # "huawei" \/ stage = "status" \/ ~trouble PROVE iface' # "other"
  <2>1. iface # "other"
    BY <1>2 DEF InPlace
  <2>2. s = "login" => LoginTo # "other"
    BY <1>2, LoginInPlace
  <2> QED
    BY <1>1, <2>1, <2>2
<1>3. ASSUME stage = "activation", iface' = "other" PROVE todo' # HuaweiActivation /\ Blind
  <2>1. todo \in ActivationTails /\ todo # <<>> /\ Head(todo) = s
    BY <1>3 DEF Position, InFlow, At
  <2>2. todo' # HuaweiActivation
    <3>1. Tail(todo) # HuaweiActivation
      BY <2>1, ActivationMoves
    <3>2. <<>> # HuaweiActivation
      BY DEF HuaweiActivation
    <3> QED
      BY <3>1, <3>2
  <2>3. CASE iface = "other"
    BY <1>3, <2>2, <2>3 DEF InPlace
  <2>4. CASE s = "login" /\ LoginTo = "other"
    <3>1. order.brand = "huawei" /\ seen.ont = Nothing /\ order.slot # 0
      BY <2>4 DEF LoginTo
    <3>2. trouble
      BY <1>3, <2>1, <2>4, <3>1, ActivationMoves DEF Position, FoundToActivate
    <3> QED
      BY <2>2, <3>1, <3>2 DEF Blind
  <2> QED
    BY <1>1, <1>3, <2>3, <2>4
<1> QED
  BY <1>2, <1>3

\* What the ONT has been is not forgotten.
LEMMA PowerRemembered ==
    ASSUME ReadingInv, past \subseteq past', UNCHANGED <<order, seen, stage>>
    PROVE  PowerWasTrue'
BY DEF ReadingInv, PowerWasTrue

LEMMA RunCommandReads == ASSUME ReadingInv, RunCommand PROVE ReadingInv'
<1>1. JobInv /\ JobInv' /\ Position /\ NoneToFind /\ InPlace /\ TypeOK
  BY RunCommandKeeps DEF ReadingInv, JobInv
<1>2. PICK s \in {"login", "exit", "activate"} :
          At(s) /\ (Effect(s) \/ UNCHANGED <<iface, hit, ont, past>>)
  BY DEF RunCommand
<1>3. todo' = Tail(todo) /\ seen' = seen /\ UNCHANGED <<order, stage, answer, trouble>>
  BY DEF RunCommand, Gather, job
<1>4. Position'
  BY <1>1, <1>2, <1>3, PlainStep
<1>5. NoneToFind'
  BY <1>1, <1>3 DEF NoneToFind, SeenOf, Hidden
<1>6. InPlace'
  BY <1>1, <1>2, <1>3, StaysInPlace DEF InPlace, Blind
<1>7. past \subseteq past'
  BY <1>1, <1>2, EffectDoes
<1>8. PowerWasTrue' /\ AnswerComes' /\ FoundUnlessHidden'
  BY <1>3, <1>7, PowerRemembered DEF ReadingInv, AnswerComes, FoundUnlessHidden, Hidden
<1> QED
  BY <1>1, <1>4, <1>5, <1>6, <1>8 DEF ReadingInv

LEMMA LostReads == ASSUME ReadingInv, Lost PROVE ReadingInv'
<1>1. JobInv /\ JobInv' /\ Position /\ NoneToFind /\ InPlace /\ TypeOK
  BY LostKeeps DEF ReadingInv, JobInv
<1>2. PICK s \in StepNames :
          /\ At(s)
          /\ Effect(s) \/ UNCHANGED <<iface, hit, ont, past>>
          /\ todo' = IF Required(order.brand, s) THEN <<>> ELSE Tail(todo)
          /\ IF s = "activate" /\ order.brand = "kingtype"
             THEN stage' = "answered" /\ answer' = "failed"
             ELSE UNCHANGED <<stage, answer>>
  BY DEF Lost
<1>3. trouble' = TRUE /\ UNCHANGED <<order, changes, seen>>
  BY DEF Lost
<1>4. past \subseteq past'
  BY <1>1, <1>2, EffectDoes
<1>5. InFlow' /\ FoundFirst'
  <2>1. CASE stage' = "answered"
    BY <2>1 DEF InFlow, FoundFirst, Reading
  <2>2. CASE stage' = stage
    <3>1. InFlow'
      BY <1>1, <1>2, <1>3, <2>2, InFlowMoves DEF Position
    <3>2. FoundFirst'
      <4>1. SUFFICES ASSUME Reading, order.brand = "huawei", todo' # <<>> PROVE seen.ont # Nothing
        BY <1>3, <2>2 DEF FoundFirst, Reading
      <4>2. s # "ont"
        BY <1>2, <4>1 DEF Required
      <4>3. todo # <<>> /\ todo \notin Before("huawei")
        BY <1>1, <1>2, <4>1, <4>2, TodoMoves DEF Position, Moves
      <4> QED
        BY <1>1, <4>1, <4>3 DEF Position, FoundFirst
    <3> QED
      BY <3>1, <3>2
  <2> QED
    BY <1>2, <2>1, <2>2
<1>6. Position'
  BY <1>3, <1>5 DEF Position, TableEnds, FoundInTurn, FoundToActivate
<1>7. NoneToFind' /\ AnswerComes' /\ FoundUnlessHidden'
  BY <1>2, <1>3 DEF ReadingInv, NoneToFind, AnswerComes, FoundUnlessHidden
<1>8. InPlace'
  <2>1. todo' \in {Tail(todo), <<>>} /\ stage' \in {stage, "answered"}
    BY <1>2
  <2>2. /\ order.brand # "huawei" \/ stage = "status" \/ ~trouble => iface' # "other"
        /\ stage = "activation" /\ iface' = "other" => todo' # HuaweiActivation /\ Blind
    BY <1>1, <1>2, <2>1, StaysInPlace
  <2> QED
    BY <1>3, <2>1, <2>2 DEF InPlace, Blind
<1>9. PowerWasTrue'
  <2>1. CASE stage' = "answered"
    BY <2>1 DEF PowerWasTrue
  <2>2. CASE stage' = stage
    BY <1>3, <1>4, <2>2, PowerRemembered
  <2> QED
    BY <1>2, <2>1, <2>2
<1> QED
  BY <1>1, <1>6, <1>7, <1>8, <1>9 DEF ReadingInv
LEMMA OntChangesReads == ASSUME ReadingInv, OntChanges PROVE ReadingInv'
<1>1. JobInv'
  BY OntChangesKeeps DEF ReadingInv
<1>2. /\ UNCHANGED <<order, hit, stage, answer, todo, iface, seen, trouble>>
      /\ past \subseteq past'
  BY DEF OntChanges, job
<1>3. Position' /\ NoneToFind'
  BY <1>2 DEF ReadingInv, Position, InFlow, TableEnds, FoundInTurn, FoundFirst, FoundToActivate,
              Reading, At, NoneToFind, SeenOf, Hidden
<1>4. PowerWasTrue'
  BY <1>2, PowerRemembered
<1>5. InPlace' /\ AnswerComes' /\ FoundUnlessHidden'
  BY <1>2 DEF ReadingInv, InPlace, Blind, AnswerComes, FoundUnlessHidden, Hidden
<1> QED
  BY <1>1, <1>3, <1>4, <1>5 DEF ReadingInv

-----------------------------------------------------------------------------
(* The ends of the flows. *)

\* A read that has come to its end without losses has found what there is.
LEMMA ReadFound ==
    ASSUME ReadingInv, Reading, todo = <<>>, ~trouble
    PROVE  ~Hidden <=> seen.ont # Nothing
<1>1. todo \notin Before(order.brand) /\ ~At("onu")
  BY BrandType, ReadEnds DEF ReadingInv, At
<1> QED
  BY <1>1 DEF ReadingInv, Position, FoundInTurn, NoneToFind, SeenOf

LEMMA JobOver ==
    ASSUME stage' = "answered"
    PROVE  Position' /\ PowerWasTrue'
BY DEF Position, InFlow, TableEnds, FoundInTurn, FoundFirst, FoundToActivate, Reading,
       PowerWasTrue

LEMMA ActivationReads == ASSUME ReadingInv, Activation PROVE ReadingInv'
<1>1. JobInv'
  BY ActivationKeeps DEF ReadingInv
<1>2. stage = "status" /\ todo = <<>> /\ UNCHANGED <<order, hit, iface, trouble>>
  BY DEF Activation, world
<1>3. ~trouble => (~Hidden <=> seen.ont # Nothing)
  BY <1>2, ReadFound DEF Reading
<1>4. InPlace'
  BY <1>2 DEF ReadingInv, InPlace
<1>5. CASE seen.ont = Nothing \/ order.id = 0
  <2>1. stage' = "answered" /\ answer' = "not_found" /\ UNCHANGED <<seen, todo>>
    BY <1>5 DEF Activation
  <2>2. NoneToFind'
    BY <1>2, <2>1 DEF ReadingInv, NoneToFind, SeenOf, Hidden
  <2>3. AnswerComes' /\ FoundUnlessHidden'
    BY <1>2, <1>3, <1>5, <2>1 DEF AnswerComes, FoundUnlessHidden, Hidden
  <2> QED
    BY <1>1, <1>4, <2>1, <2>2, <2>3, JobOver DEF ReadingInv
<1>6. CASE ~(seen.ont = Nothing \/ order.id = 0)
  <2>1. /\ stage' = "activation" /\ todo' = ActivationFlow(order.brand) /\ UNCHANGED answer
    BY <1>6 DEF Activation
  <2>2. /\ order.brand = "huawei" => todo' = HuaweiActivation
        /\ todo' \in ActivationTails
    <3>1. order.brand \in AllBrands
      BY BrandType DEF ReadingInv
    <3> QED
      BY <2>1, <3>1 DEF ActivationFlow, HuaweiActivation, ActivationTails, AllBrands, CData
  <2>3. Position' /\ PowerWasTrue'
    BY <1>2, <2>1, <2>2 DEF Position, InFlow, TableEnds, FoundInTurn, FoundFirst, FoundToActivate,
                            Reading, PowerWasTrue
  <2>4. NoneToFind'
    BY <1>2, <1>3, <1>6 DEF NoneToFind, Hidden
  <2>5. AnswerComes' /\ FoundUnlessHidden'
    BY <1>2, <1>3, <1>6, <2>1 DEF ReadingInv, AnswerComes, FoundUnlessHidden, Hidden
  <2> QED
    BY <1>1, <1>4, <2>3, <2>4, <2>5 DEF ReadingInv
<1> QED
  BY <1>5, <1>6

LEMMA SecondReadReads == ASSUME ReadingInv, SecondRead PROVE ReadingInv'
<1>1. JobInv /\ JobInv'
  BY SecondReadKeeps DEF ReadingInv
<1>2. /\ stage = "activation" /\ stage' = "again" /\ todo' = ReadFlow(order.brand)
      /\ UNCHANGED <<order, hit, answer, iface, trouble>>
  BY DEF SecondRead, world
<1>3. /\ todo' \in ReadTails(order.brand) /\ todo' \in Before(order.brand)
      /\ Head(todo') # "onu"
  BY <1>1, <1>2, BrandType, ReadEnds
<1>4. Position' /\ PowerWasTrue'
  <2>1. TableEnds'
    BY <1>2 DEF TableEnds, ReadFlow, CData
  <2> QED
    BY <1>2, <1>3, <2>1 DEF Position, InFlow, FoundInTurn, FoundFirst, FoundToActivate, Reading,
                            At, PowerWasTrue
<1>5. NoneToFind'
  BY <1>2 DEF ReadingInv, NoneToFind, Hidden
<1>6. InPlace' /\ AnswerComes' /\ FoundUnlessHidden'
  BY <1>2 DEF ReadingInv, InPlace, AnswerComes, FoundUnlessHidden, Hidden
<1> QED
  BY <1>1, <1>4, <1>5, <1>6 DEF ReadingInv

LEMMA AnswerReads == ASSUME ReadingInv, Answer PROVE ReadingInv'
<1>1. JobInv'
  BY AnswerKeeps DEF ReadingInv
<1>2. /\ stage = "again" /\ stage' = "answered" /\ answer' # "not_found"
      /\ UNCHANGED <<order, hit, seen, iface, trouble>>
  BY DEF Answer, world
<1>3. NoneToFind'
  BY <1>2 DEF ReadingInv, NoneToFind, SeenOf, Hidden
<1>4. InPlace' /\ AnswerComes' /\ FoundUnlessHidden'
  BY <1>2 DEF ReadingInv, InPlace, AnswerComes, FoundUnlessHidden, Hidden
<1> QED
  BY <1>1, <1>2, <1>3, <1>4, JobOver DEF ReadingInv

LEMMA ReadingStarts == Init => ReadingInv
<1> SUFFICES ASSUME Init PROVE ReadingInv
  OBVIOUS
<1>1. JobInv
  BY JobStarts
<1>2. /\ stage = "status" /\ todo = ReadFlow(order.brand) /\ iface = "none"
      /\ seen = NewContext /\ answer = "none" /\ hit = {}
  BY DEF Init
<1>3. /\ todo \in ReadTails(order.brand) /\ todo \in Before(order.brand)
      /\ Head(todo) # "onu"
  BY <1>1, <1>2, BrandType, ReadEnds
<1>4. Position
  <2>1. TableEnds
    BY <1>2 DEF TableEnds, ReadFlow, CData
  <2> QED
    BY <1>2, <1>3, <2>1 DEF Position, InFlow, FoundInTurn, FoundFirst, FoundToActivate, Reading, At
<1>5. NoneToFind /\ PowerWasTrue
  BY <1>2 DEF NoneToFind, PowerWasTrue, SeenOf, NewContext
<1>6. InPlace /\ AnswerComes /\ FoundUnlessHidden
  BY <1>2 DEF InPlace, AnswerComes, FoundUnlessHidden
<1> QED
  BY <1>1, <1>4, <1>5, <1>6 DEF ReadingInv

LEMMA ReadingStep == ReadingInv /\ [Next]_vars => ReadingInv'
<1> SUFFICES ASSUME ReadingInv, [Next]_vars PROVE ReadingInv'
  OBVIOUS
<1>1. CASE UNCHANGED vars
  <2>1. JobInv'
    BY <1>1, JobStep DEF ReadingInv
  <2> QED
    BY <1>1, <2>1 DEF vars, ReadingInv, Position, InFlow, TableEnds, FoundInTurn, FoundFirst,
                      FoundToActivate, Reading, At, NoneToFind, SeenOf, InPlace, Blind,
                      PowerWasTrue, AnswerComes, FoundUnlessHidden, Hidden
<1>2. CASE ReadTable \/ ReadOnt \/ OntMissing \/ ReadOntInfo \/ ReadRows
  BY <1>2, ReadTableReads, ReadOntReads, OntMissingReads, ReadOntInfoReads, ReadRowsReads
<1>3. CASE PickOnu \/ ReadState \/ ReadPower \/ ReadMac
  BY <1>3, PickOnuReads, ReadStateReads, ReadPowerReads, ReadMacReads
<1>4. CASE RunCommand \/ Lost \/ OntChanges
  BY <1>4, RunCommandReads, LostReads, OntChangesReads
<1>5. CASE Activation \/ SecondRead \/ Answer
  BY <1>5, ActivationReads, SecondReadReads, AnswerReads
<1> QED
  BY <1>1, <1>2, <1>3, <1>4, <1>5 DEF Next

LEMMA ReadingInvariant == Spec => []ReadingInv
BY ReadingStarts, ReadingStep, PTL DEF Spec

-----------------------------------------------------------------------------
-----------------------------------------------------------------------------
(* What an activation reaches. *)

\* Only the activation of a reactivation reaches anything.
LEMMA HitsWhen ==
    ASSUME ReadingInv, NEW s, At(s), Effect(s) \/ UNCHANGED <<iface, hit, ont, past>>,
           order.brand = "huawei", "other" \in hit' \ hit
    PROVE  ~order.onPon \/ Blind
<1>1. hit' # hit
  OBVIOUS
<1>2. s = "activate" /\ ActivateOnt
  BY <1>1 DEF Effect
<1>3. stage = "activation"
  <2>1. JobInv /\ InFlow
    BY DEF ReadingInv, Position
  <2>2. ~Reading
    BY <1>2, <2>1, TodoMoves DEF Moves
  <2> QED
    BY <2>1, <2>2 DEF Reading, At, JobInv, TypeOK
<1>4. CASE iface = "other"
  BY <1>3, <1>4 DEF ReadingInv, InPlace
<1>5. CASE iface # "other"
  <2>1. SUFFICES ASSUME order.onPon PROVE FALSE
    OBVIOUS
  <2>2. iface \in {"none", "own"}
    BY <1>5 DEF ReadingInv, JobInv, TypeOK
  <2>3. Reaches({}) \/ Reaches({"ordered"})
    BY <1>2, <2>1, <2>2 DEF ActivateOnt
  <2> QED
    BY <2>3 DEF Reaches
<1> QED
  BY <1>4, <1>5

\* Huawei's activation reaches another ONT than the one ordered only if the request
\* names a PON that ONT is not on, or if its slot was not told.
THEOREM ActivationHits == Spec => ActivationHitsUnlessBlind
<1>1. ReadingInv /\ [Next]_vars
        => [order.brand = "huawei" /\ "other" \in hit' \ hit => ~order.onPon \/ Blind]_vars
  <2> SUFFICES ASSUME ReadingInv, Next, order.brand = "huawei", "other" \in hit' \ hit
               PROVE  ~order.onPon \/ Blind
    BY DEF vars
  <2>1. hit' # hit
    OBVIOUS
  <2>2. RunCommand \/ Lost
    BY <2>1 DEF Next, ReadTable, ReadOnt, OntMissing, ReadOntInfo, ReadRows, PickOnu, ReadState,
                ReadPower, ReadMac, Activation, SecondRead, Answer, OntChanges, world
  <2>3. PICK s : At(s) /\ (Effect(s) \/ UNCHANGED <<iface, hit, ont, past>>)
    BY <2>2 DEF RunCommand, Lost
  <2> QED
    BY <2>3, HitsWhen
<1> QED
  BY <1>1, ReadingInvariant, PTL DEF Spec, ActivationHitsUnlessBlind

\* As long as no command is lost "not found" is answered for the ONTs that are hidden,
\* or have the id 0, and for no others.
THEOREM Found == Spec => []FoundUnlessHidden
<1>1. ReadingInv => FoundUnlessHidden
  BY DEF ReadingInv
<1> QED
  BY <1>1, ReadingInvariant, PTL
-----------------------------------------------------------------------------
(* What the first read has gathered, in a session without losses. *)

\* The CLI is where the read has brought it; the state, the power and the MAC of an
\* ONT that was found are what they were when their turn came.
Gathered ==
    stage = "status" /\ ~trouble =>
        /\ todo \in Inside(order.brand) => iface = "own"
        /\ seen.ont # Nothing =>
              /\ order.brand = "vsol" /\ todo \in AfterState => seen.state # Nothing
              /\ order.brand # "epon" /\ order.onPon /\ todo \in AfterPower =>
                    \E o \in past : o.power = seen.power
              /\ todo = <<>> => seen.mac \/ \E o \in past : ~o.mac

\* A read neither begins nor ends in an interface.
LEMMA NotInside ==
    ASSUME NEW b \in AllBrands
    PROVE  <<>> \notin Inside(b) /\ ReadFlow(b) \notin Inside(b)
<1>1. CASE b = "huawei"
  BY <1>1 DEF Inside, ReadFlow, HuaweiRead, CData
<1>2. CASE b \in CData
  BY <1>2 DEF Inside, ReadFlow, CDataRead, CData
<1>3. CASE b = "vsol"
  BY <1>3 DEF Inside, ReadFlow, VSolRead, CData
<1>4. CASE b = "kingtype"
  BY <1>4 DEF Inside, ReadFlow, KingtypeRead, CData
<1> QED
  BY <1>1, <1>2, <1>3, <1>4 DEF AllBrands

\* In a first read without losses the step at hand has its place in the flow.
LEMMA FirstRead ==
    ASSUME ReadingInv, stage = "status", ~trouble, NEW s, At(s)
    PROVE  /\ todo # <<>> /\ Head(todo) = s
           /\ Turns(order.brand, todo) /\ Moves(order.brand, todo)
           /\ JobInv /\ seen \in Contexts /\ ont \in past /\ ont \in Onts
           /\ seen.ont # Nothing => ~Hidden
<1>1. JobInv /\ InFlow /\ Reading
  BY DEF ReadingInv, Position, Reading
<1>2. seen.ont # Nothing => ~Hidden
  BY DEF ReadingInv, NoneToFind, SeenOf
<1> QED
  BY <1>1, <1>2, TodoMoves DEF JobInv, TypeOK, EnabledStays

\* Steps that leave the state, the power and the MAC to others.
LEMMA GatheredKept ==
    ASSUME ReadingInv, Gathered, NEW s, At(s), s \notin {"state", "power", "mac"},
           todo' = Tail(todo), UNCHANGED <<order, stage, trouble>>, past \subseteq past',
           s = "exit" => seen' = seen,
           s = "login" /\ stage = "status" /\ ~trouble => iface' = "own",
           s \notin {"login", "exit"} => iface' = iface
    PROVE  Gathered'
<1> SUFFICES ASSUME stage = "status", ~trouble PROVE Gathered'
  BY DEF Gathered
<1>1. todo # <<>> /\ Head(todo) = s /\ Turns(order.brand, todo)
  BY FirstRead
<1>2. todo' \in Inside(order.brand) => iface' = "own"
  BY <1>1 DEF Turns, Gathered
<1>3. todo' # <<>>
  BY <1>1 DEF Turns
<1>4. todo' \in AfterPower => todo \in AfterPower /\ s = "exit"
  BY <1>1 DEF Turns
<1>5. order.brand = "vsol" /\ todo' \in AfterState => todo \in AfterState /\ s = "exit"
  <2>1. order.brand = "vsol" /\ todo' \in AfterState => todo \in AfterState
    BY <1>1 DEF Turns
  <2>2. todo \in AfterState => s \in {"power", "exit", "mac"}
    BY <1>1 DEF AfterState, AfterPower
  <2> QED
    BY <2>1, <2>2
<1> QED
  BY <1>2, <1>3, <1>4, <1>5 DEF Gathered

\* A read that ends at its table, or because the parser throws.
LEMMA GatheredAtEnd ==
    ASSUME ReadingInv, Gathered, todo' = <<>>, UNCHANGED <<order, stage, trouble>>,
           stage = "status" /\ ~trouble =>
               seen'.ont = Nothing \/ (order.brand = "epon" /\ seen'.mac)
    PROVE  Gathered'
<1>1. todo' \notin Inside(order.brand)
  BY BrandType, NotInside DEF ReadingInv
<1> QED
  BY <1>1 DEF Gathered

LEMMA TableGathers == ASSUME ReadingInv, Gathered, ReadTable PROVE Gathered'
<1>1. At("table") /\ UNCHANGED <<order, stage, past, trouble, iface>>
  BY DEF ReadTable, world, job
<1>2. seen \in Contexts
  BY SeenFields DEF ReadingInv
<1>3. CASE Gather(seen)
  BY <1>1, <1>3, GatheredKept DEF Gather
<1>4. ASSUME order.brand = "epon", todo' = <<>>,
             NEW o \in AboutPon, seen' = [seen EXCEPT !.ont = o, !.state = o, !.mac = o # Nothing]
      PROVE  Gathered'
  <2>1. seen'.ont = o /\ seen'.mac = (o # Nothing)
    BY <1>2, <1>4 DEF Contexts
  <2> QED
    BY <1>1, <1>4, <2>1, GatheredAtEnd
<1>5. CASE (order.brand = "cdata_other" \/ trouble) /\ todo' = <<>> /\ UNCHANGED seen
  <2>1. ~trouble => seen.ont = Nothing
    BY <1>5 DEF ReadingInv, NoneToFind, SeenOf, Hidden
  <2> QED
    BY <1>1, <1>5, <2>1, GatheredAtEnd
<1> QED
  BY <1>3, <1>4, <1>5 DEF ReadTable

LEMMA MissingGathers == ASSUME ReadingInv, Gathered, OntMissing PROVE Gathered'
<1>1. UNCHANGED <<order, stage, trouble>> /\ todo' = <<>> /\ seen' = seen
  BY DEF OntMissing, world, job
<1>2. ~trouble => seen.ont = Nothing
  BY MissingHidden DEF ReadingInv, NoneToFind, SeenOf
<1> QED
  BY <1>1, <1>2, GatheredAtEnd

LEMMA FindersGather ==
    ASSUME ReadingInv, Gathered, ReadOnt \/ ReadOntInfo \/ ReadRows \/ PickOnu
    PROVE  Gathered'
<1>1. PICK s \in {"ont", "ont_info", "rows", "onu"} : At(s)
  BY DEF ReadOnt, ReadOntInfo, ReadRows, PickOnu
<1>2. todo' = Tail(todo) /\ UNCHANGED <<order, stage, past, trouble, iface>>
  BY DEF ReadOnt, ReadOntInfo, ReadRows, PickOnu, Gather, world, job
<1> QED
  BY <1>1, <1>2, GatheredKept

LEMMA StateGathers == ASSUME ReadingInv, Gathered, ReadState PROVE Gathered'
<1>1. At("state") /\ UNCHANGED <<order, stage, past, trouble, iface>>
  BY DEF ReadState, world, job
<1> SUFFICES ASSUME stage = "status", ~trouble PROVE Gathered'
  BY <1>1 DEF Gathered
<1>2. PICK o \in About : Gather(IF seen.ont = Nothing THEN seen ELSE [seen EXCEPT !.state = o])
  BY DEF ReadState
<1>3. /\ todo # <<>> /\ Head(todo) = "state" /\ Turns(order.brand, todo)
      /\ JobInv /\ seen \in Contexts /\ (seen.ont # Nothing => ~Hidden)
  BY <1>1, FirstRead
<1>4. todo' = Tail(todo) /\ seen'.ont = seen.ont /\ (seen.ont # Nothing => seen'.state = o)
  BY <1>2, <1>3 DEF Gather, Contexts
<1>5. seen.ont # Nothing => o # Nothing
  BY <1>3, AboutNow DEF Hidden
<1>6. todo' \in Inside(order.brand) => iface' = "own"
  BY <1>1, <1>3, <1>4 DEF Turns, Gathered
<1>7. todo' \notin AfterPower /\ todo' # <<>>
  BY <1>3, <1>4 DEF Turns
<1> QED
  BY <1>1, <1>4, <1>5, <1>6, <1>7 DEF Gathered

LEMMA PowerGathers == ASSUME ReadingInv, Gathered, ReadPower PROVE Gathered'
<1>1. At("power") /\ UNCHANGED <<order, stage, past, trouble, iface>>
  BY DEF ReadPower, world, job
<1> SUFFICES ASSUME stage = "status", ~trouble PROVE Gathered'
  BY <1>1 DEF Gathered
<1>2. /\ todo # <<>> /\ Head(todo) = "power" /\ Turns(order.brand, todo)
      /\ JobInv /\ seen \in Contexts /\ ont \in past /\ (seen.ont # Nothing => ~Hidden)
  BY <1>1, FirstRead
<1>3. todo' = Tail(todo) /\ seen'.ont = seen.ont /\ seen'.state = seen.state
  BY <1>2 DEF ReadPower, Gather, Contexts
<1>4. todo' \in Inside(order.brand) => iface' = "own"
  BY <1>1, <1>2, <1>3 DEF Turns, Gathered
<1>5. todo' # <<>> /\ (order.brand = "vsol" /\ todo' \in AfterState => todo \in AfterState)
  BY <1>2, <1>3 DEF Turns
<1>6. ASSUME seen.ont # Nothing, order.onPon PROVE seen'.power = ont.power
  <2>1. iface = "own" \/ order.brand = "kingtype"
    BY <1>2 DEF Turns, Gathered
  <2>2. iface # "other"
    BY DEF ReadingInv, InPlace
  <2>3. PICK o \in About : Gather([seen EXCEPT !.power = IF o = Nothing THEN NoReading ELSE o.power])
    BY <1>6, <2>1, <2>2 DEF ReadPower
  <2>4. o = ont /\ o # Nothing
    BY <1>2, <1>6, AboutNow DEF Hidden
  <2> QED
    BY <1>2, <2>3, <2>4 DEF Gather, Contexts
<1> QED
  BY <1>1, <1>2, <1>3, <1>4, <1>5, <1>6 DEF Gathered

LEMMA MacGathers == ASSUME ReadingInv, Gathered, ReadMac PROVE Gathered'
<1>1. At("mac") /\ UNCHANGED <<order, stage, past, trouble, iface>>
  BY DEF ReadMac, world, job
<1> SUFFICES ASSUME stage = "status", ~trouble PROVE Gathered'
  BY <1>1 DEF Gathered
<1>2. /\ todo # <<>> /\ Head(todo) = "mac" /\ Turns(order.brand, todo)
      /\ JobInv /\ seen \in Contexts /\ ont \in past /\ ont \in Onts
      /\ (seen.ont # Nothing => ~Hidden)
  BY <1>1, FirstRead
<1>3. PICK o \in About : Gather([seen EXCEPT !.mac = seen.ont # Nothing /\ o # Nothing /\ o.mac])
  BY DEF ReadMac
<1>4. /\ todo' = Tail(todo) /\ seen'.ont = seen.ont /\ seen'.state = seen.state
      /\ seen'.power = seen.power /\ seen'.mac = (seen.ont # Nothing /\ o # Nothing /\ o.mac)
  BY <1>2, <1>3 DEF Gather, Contexts
<1>5. todo' \in Inside(order.brand) => iface' = "own"
  BY <1>1, <1>2, <1>4 DEF Turns, Gathered
<1>6. /\ todo' \in AfterPower => todo \in AfterPower
      /\ order.brand = "vsol" /\ todo' \in AfterState => todo \in AfterState
  BY <1>2, <1>4 DEF Turns
<1>7. seen.ont # Nothing => seen'.mac \/ \E q \in past : ~q.mac
  <2>1. seen.ont # Nothing => o = ont /\ o # Nothing
    BY <1>2, AboutNow DEF Hidden
  <2> QED
    BY <1>2, <1>4, <2>1
<1> QED
  BY <1>1, <1>4, <1>5, <1>6, <1>7 DEF Gathered

LEMMA CommandGathers == ASSUME ReadingInv, Gathered, RunCommand PROVE Gathered'
<1>1. PICK s \in {"login", "exit", "activate"} :
          At(s) /\ (Effect(s) \/ (trouble /\ UNCHANGED <<iface, hit, ont, past>>))
  BY DEF RunCommand
<1>2. todo' = Tail(todo) /\ seen' = seen /\ UNCHANGED <<order, stage, trouble>>
  BY DEF RunCommand, Gather, job
<1>3. JobInv /\ TypeOK /\ Position
  BY DEF ReadingInv, JobInv
<1>4. past \subseteq past'
  BY <1>1, <1>3, EffectDoes
<1>5. ASSUME s = "login", stage = "status", ~trouble PROVE iface' = "own"
  <2>1. LoginTo # "other"
    BY <1>1, <1>3, <1>5, LoginInPlace
  <2> QED
    BY <1>1, <1>5, <2>1 DEF Effect, LoginTo
<1>6. s = "activate" => iface' = iface
  BY <1>1 DEF Effect
<1> QED
  BY <1>1, <1>2, <1>4, <1>5, <1>6, GatheredKept

LEMMA GatheredStep == ReadingInv /\ Gathered /\ [Next]_vars => Gathered'
<1> SUFFICES ASSUME ReadingInv, Gathered, [Next]_vars PROVE Gathered'
  OBVIOUS
<1>1. CASE UNCHANGED vars
  BY <1>1 DEF vars, Gathered
<1>2. CASE ReadTable \/ OntMissing \/ ReadOnt \/ ReadOntInfo \/ ReadRows \/ PickOnu
  BY <1>2, TableGathers, MissingGathers, FindersGather
<1>3. CASE ReadState \/ ReadPower \/ ReadMac \/ RunCommand
  BY <1>3, StateGathers, PowerGathers, MacGathers, CommandGathers
<1>4. CASE Lost
  BY <1>4 DEF Lost, Gathered
<1>5. CASE Activation \/ SecondRead \/ Answer
  <2>1. stage' # "status"
    BY <1>5 DEF Activation, SecondRead, Answer
  <2> QED
    BY <2>1 DEF Gathered
<1>6. CASE OntChanges
  <2>1. UNCHANGED <<order, stage, todo, iface, seen, trouble>> /\ past \subseteq past'
    BY <1>6 DEF OntChanges, job
  <2> QED
    BY <2>1 DEF Gathered
<1> QED
  BY <1>1, <1>2, <1>3, <1>4, <1>5, <1>6 DEF Next

LEMMA GatheredInvariant == Spec => []Gathered
<1>1. Init => Gathered
  <2> SUFFICES ASSUME Init PROVE Gathered
    OBVIOUS
  <2>1. todo \notin Inside(order.brand)
    BY JobStarts, BrandType, NotInside DEF Init
  <2>2. seen.ont = Nothing
    BY DEF Init, NewContext
  <2> QED
    BY <2>1, <2>2 DEF Gathered
<1> QED
  BY <1>1, GatheredStep, ReadingInvariant, PTL DEF Spec

\* What a first read makes of the ONT, and when none of it is missing.
LEMMA WhatIsRead ==
    ASSUME ReadingInv, Gathered, stage = "status", todo = <<>>,
           NEW t, t = TechnicalOf(order.brand, seen),
           NEW o, o = IF order.brand = "vsol" THEN seen.state ELSE seen.ont
    PROVE  /\ o \in past \cup {Nothing}
           /\ t.onu = (seen.ont # Nothing) /\ t.mac \in BOOLEAN
           /\ t.mac => seen.ont = Nothing \/ o # Nothing
           /\ o # Nothing => (Offline(t) <=> o.phase # "online")
           /\ ~Offline(t) \/ o # Nothing
           /\ t.power \in {NoReading, seen.power}
           /\ ~trouble /\ t.onu => t.power = seen.power /\ t.mac = seen.mac
<1>1. seen \in Contexts /\ order.brand \in AllBrands
  BY BrandType, SeenFields DEF ReadingInv
<1>2. /\ {seen.ont, seen.state} \subseteq past \cup {Nothing}
      /\ {seen.ont, seen.state} \subseteq Onts \cup {Nothing}
  BY <1>1 DEF ReadingInv, JobInv, SeenWasTrue, SeenOf, Contexts
<1>3. t.onu = (seen.ont # Nothing) /\ t.runState = RunState(order.brand, seen)
  BY DEF TechnicalOf
<1>4. /\ t.power = IF order.brand = "vsol" /\ seen.state = Nothing THEN NoReading ELSE seen.power
      /\ t.mac = (seen.mac /\ ~(order.brand = "vsol" /\ seen.state = Nothing))
  BY DEF TechnicalOf
<1>5. t.mac \in BOOLEAN /\ (seen.mac \in BOOLEAN)
  BY <1>1, <1>4 DEF Contexts
<1>6. t.mac => seen.ont = Nothing \/ o # Nothing
  BY <1>4
<1>7. /\ o = Nothing => t.runState = "missing"
      /\ o # Nothing /\ o.phase = "online" => t.runState = "online"
      /\ o # Nothing /\ o.phase # "online" => t.runState \in {"offline", "powerdown"}
  BY <1>3 DEF RunState, Omcc
<1>8. (o # Nothing => (Offline(t) <=> o.phase # "online")) /\ (~Offline(t) \/ o # Nothing)
  BY <1>7 DEF Offline
<1>9. ~trouble /\ t.onu => t.power = seen.power /\ t.mac = seen.mac
  <2>1. SUFFICES ASSUME ~trouble, t.onu, order.brand = "vsol" PROVE seen.state # Nothing
    BY <1>4, <1>5
  <2> QED
    BY <1>3, <2>1 DEF Gathered, AfterState, AfterPower
<1> QED
  BY <1>2, <1>3, <1>4, <1>5, <1>6, <1>8, <1>9

\* The verdict of a diagnosis was justified at some moment of the session, whatever
\* commands were lost; if none was, nothing it rests on has been left out.
THEOREM VerdictsHold == Spec => []VerdictWasTrue
<1>1. ASSUME ReadingInv, Gathered, stage = "status", todo = <<>> PROVE VerdictWasTrue
  <2> DEFINE t == TechnicalOf(order.brand, seen)
             d == Diagnosis(t)
             o == IF order.brand = "vsol" THEN seen.state ELSE seen.ont
             measured == \E q \in past : q.power = t.power
  <2>1. /\ o \in past \cup {Nothing} /\ t.onu = (seen.ont # Nothing) /\ t.mac \in BOOLEAN
        /\ t.mac => seen.ont = Nothing \/ o # Nothing
        /\ o # Nothing => (Offline(t) <=> o.phase # "online")
        /\ ~Offline(t) \/ o # Nothing
        /\ t.power \in {NoReading, seen.power}
        /\ ~trouble /\ t.onu => t.power = seen.power /\ t.mac = seen.mac
    BY <1>1, WhatIsRead
  <2> HIDE DEF t, o
  <2>2. /\ d.status = "SUCCESS" => t.onu /\ ~Offline(t) /\ t.mac
        /\ d.step = "ask_led_status" => t.onu /\ Offline(t)
        /\ d.step = "schedule_visit" => t.power # NoReading
        /\ d.step = "onu_not_available" => ~t.onu
        /\ d.step = "request_information" => t.onu /\ ~t.mac
    BY <2>1 DEF Diagnosis, Verdict, Weak
  <2> HIDE DEF d
  <2>3. d.status = "SUCCESS" => \E q \in past : q.phase = "online"
    BY <2>1, <2>2
  <2>4. d.status = "SUCCESS" /\ ~trouble /\ order.onPon /\ order.brand # "epon" => measured
    BY <1>1, <2>1, <2>2 DEF Gathered, AfterPower
  <2>5. d.step = "ask_led_status" => \E q \in past : q.phase # "online"
    BY <2>1, <2>2
  <2>6. d.step = "schedule_visit" /\ order.onPon => measured
    BY <1>1, <2>1, <2>2 DEF ReadingInv, PowerWasTrue
  <2>7. d.step = "onu_not_available" => trouble \/ Hidden
    <3>1. SUFFICES ASSUME ~t.onu, ~trouble, ~Hidden PROVE FALSE
      BY <2>2
    <3>2. todo \notin Before(order.brand) /\ ~At("onu")
      BY <1>1, BrandType, ReadEnds DEF ReadingInv, At
    <3> QED
      BY <1>1, <2>1, <3>1, <3>2 DEF ReadingInv, Position, FoundInTurn, Reading
  <2>8. d.step = "request_information" => trouble \/ \E q \in past : ~q.mac
    BY <1>1, <2>1, <2>2 DEF Gathered
  <2> QED
    BY <2>3, <2>4, <2>5, <2>6, <2>7, <2>8 DEF VerdictWasTrue, d, t
<1>2. ReadingInv /\ Gathered => VerdictWasTrue
  BY <1>1 DEF VerdictWasTrue
<1> QED
  BY <1>2, ReadingInvariant, GatheredInvariant, PTL
=============================================================================
