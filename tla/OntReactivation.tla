--------------------------- MODULE OntReactivation ---------------------------
(***************************************************************************)
(* One job on an ONT through the adapter of its OLT's brand: read its      *)
(* state (showOnu), activate it, and read it again (reactivateOnt).  The   *)
(* job is a flow of commands of which any may be lost, while the ONT goes  *)
(* on living.  How a lost command confuses the replies to the ones after   *)
(* it is the subject of OltShell; of it remains that a step may then be    *)
(* told what was true earlier in the session, or nothing it understands.   *)
(*                                                                         *)
(* A first read is also what a diagnosis starts from.                      *)
(***************************************************************************)
EXTENDS DiagnosticRules, Sequences

CONSTANTS
    Brands,     \* the kinds of OLT considered
    Slots, Ids, \* the places an ONT may have
    Phases,     \* what an ONT may be physically
    MaxChanges, \* bound: how often the ONT changes on its own
    Nothing     \* a read has found no such thing

\* C-Data OLTs: "epon" knows "show olt .. all", "cdata" refuses it in one of the
\* words the adapter knows for an error, and "cdata_other" in other words.
CData == {"cdata", "cdata_other", "epon"}
AllBrands == {"huawei", "vsol", "kingtype"} \cup CData

ASSUME OntAssumption ==
    /\ Brands \subseteq AllBrands
    /\ Slots \subseteq Nat /\ Ids \subseteq Nat
    /\ Phases \subseteq {"online", "offline", "los", "powerdown"}
    /\ MaxChanges \in Nat

\* An ONT that is administratively disabled is not online.
Powers == PowerReadings \cup {NoReading}
Onts == {o \in [enabled : BOOLEAN, phase : Phases, power : Powers, mac : BOOLEAN] :
            o.phase = "online" => o.enabled}

ASSUME NothingAssumption == Nothing \notin Onts

\* The context of a flow: the row found in a table, the ONT, its state, its
\* received power, and whether it has a MAC address.
Contexts == [row : Onts \cup {Nothing}, ont : Onts \cup {Nothing},
             state : Onts \cup {Nothing}, power : Powers, mac : BOOLEAN]
NewContext == [row |-> Nothing, ont |-> Nothing, state |-> Nothing,
               power |-> NoReading, mac |-> FALSE]

VARIABLES
    order,   \* the OLT's brand, the ONT's place, whether there is such an ONT, and
             \* whether it is on the PON the request names
    ont,     \* what it really is
    past,    \* history: all it has been since the session was opened
    stage,   \* "status", "activation", "again" or "answered"
    todo,    \* the steps of the current flow not yet run
    iface,   \* the interface the CLI is in: "none", the ONT's "own", or an "other"
    seen,    \* the context of the current flow
    answer,  \* of the job, or "none"
    hit,     \* history: the ONTs the activation has reached
    trouble, \* history: a command has been lost
    changes  \* how often the ONT has changed

vars == <<order, ont, past, stage, todo, iface, seen, answer, hit, trouble, changes>>

StepNames == {"table", "ont", "ont_info", "login", "rows", "onu", "state", "power", "exit",
              "mac", "activate"}

TypeOK ==
    /\ order \in [brand : Brands, slot : Slots, id : Ids, exists : BOOLEAN, onPon : BOOLEAN]
    /\ ont \in Onts
    /\ past \subseteq Onts
    /\ stage \in {"status", "activation", "again", "answered"}
    /\ todo \in Seq(StepNames)
    /\ iface \in {"none", "own", "other"}
    /\ seen \in Contexts
    /\ answer \in {"none", "success", "unconfirmed", "not_found", "failed"}
    /\ hit \subseteq {"ordered", "other"}
    /\ trouble \in BOOLEAN
    /\ changes \in 0 .. MaxChanges

-----------------------------------------------------------------------------
\* The flows.

HuaweiRead == <<"ont", "login", "power", "exit", "mac">>
CDataRead == <<"table", "login", "ont", "power", "exit", "mac">>
VSolRead == <<"login", "rows", "onu", "state", "power", "exit", "mac">>
KingtypeRead == <<"rows", "onu", "power", "mac">>

ReadFlow(b) ==
    CASE b = "huawei" -> HuaweiRead
      [] b \in CData -> CDataRead
      [] b = "vsol" -> VSolRead
      [] b = "kingtype" -> KingtypeRead

ActivationFlow(b) ==
    CASE b = "huawei" -> <<"ont_info", "login", "activate", "exit">>
      [] b \in CData \cup {"vsol"} -> <<"login", "activate", "exit">>
      [] b = "kingtype" -> <<"activate">>

\* A failure of one of these ends its flow.
Required(b, s) ==
    \/ s = "ont"
    \/ s = "state" /\ b = "vsol"
    \/ s = "activate" /\ b = "kingtype"

-----------------------------------------------------------------------------
\* What the adapters make of a read.

\* No power, or -28 dBm at most.
Faded(p) == p = NoReading \/ p <= -2800

HuaweiStatus(c) ==
    IF c.ont = Nothing THEN "NOT_FOUND"
    ELSE IF ~c.ont.enabled THEN "DISABLED"
    ELSE IF c.ont.phase = "online" THEN "ENABLED"
    ELSE IF Faded(c.power) THEN "OPTICAL_FAULT" ELSE "SUSPENDED"

\* The control flag an EPON table is given: only an ONU that is online is active.
CDataFlag(b, o) ==
    IF b # "epon" THEN (IF o.enabled THEN "active" ELSE "deactivated")
    ELSE IF o.phase = "online" THEN "active"
    ELSE IF o.phase = "powerdown" THEN "powerdown" ELSE "deactivated"

CDataStatus(b, c) ==
    IF c.ont = Nothing THEN "NOT_FOUND"
    ELSE IF c.ont.phase = "online" THEN "ENABLED"
    ELSE IF c.ont.phase = "powerdown" THEN "DISABLED"
    ELSE IF CDataFlag(b, c.ont) = "deactivated" THEN "DISABLED"
    ELSE IF c.power # NoReading /\ Faded(c.power) THEN "OPTICAL_FAULT" ELSE "SUSPENDED"

\* omccState: the management channel is up while the ONU is online.
Omcc(o) == o.phase = "online"

VSolStatus(c) ==
    IF c.ont = Nothing THEN "NOT_FOUND"
    ELSE IF c.state = Nothing THEN "OPTICAL_FAULT"
    ELSE IF ~c.state.enabled \/ ~Omcc(c.state) THEN "DISABLED"
    ELSE IF c.state.phase = "online" THEN "ENABLED"
    ELSE IF c.state.phase = "los" \/ Faded(c.power) THEN "OPTICAL_FAULT" ELSE "SUSPENDED"

\* The table of registered ONUs only tells whether the MIB is ready.
KingtypeStatus(c) ==
    IF c.ont = Nothing THEN "NOT_FOUND"
    ELSE IF c.ont.phase = "online" THEN "ENABLED"
    ELSE IF Faded(c.power) THEN "OPTICAL_FAULT" ELSE "SUSPENDED"

Status(b, c) ==
    CASE b = "huawei" -> HuaweiStatus(c)
      [] b \in CData -> CDataStatus(b, c)
      [] b = "vsol" -> VSolStatus(c)
      [] b = "kingtype" -> KingtypeStatus(c)

\* Mutant: anything but DISABLED counts for a success.
NotDisabledSucceeds(b, c) == Status(b, c) # "DISABLED"

\* What a reactivation takes for its success, in the second read.
Succeeds(b, c) ==
    CASE b = "huawei" -> Status(b, c) = "ENABLED" \/ (c.ont # Nothing /\ c.ont.enabled)
      [] b \in CData \cup {"vsol"} -> Status(b, c) # "DISABLED"
      [] b = "kingtype" -> Status(b, c) = "ENABLED"

\* Mutant: V-Sol's run state is taken from the administrative state.
RunStateAdministrative(b, c) ==
    LET o == IF b = "vsol" THEN c.state ELSE c.ont IN
    IF o = Nothing THEN "missing"
    ELSE IF o.phase = "online" \/ (b = "vsol" /\ o.enabled) THEN "online" ELSE "offline"

\* The run state as the analyzers get it.
RunState(b, c) ==
    LET o == IF b = "vsol" THEN c.state ELSE c.ont IN
    IF o = Nothing THEN "missing"
    ELSE IF b = "vsol" THEN (IF Omcc(o) THEN "online" ELSE "offline")
    ELSE IF o.phase = "online" THEN "online"
    ELSE IF o.phase = "powerdown" /\ b \in CData THEN "powerdown"
    ELSE "offline"

\* TechnicalDataResponseDTO.  V-Sol gives neither power nor MAC without a state,
\* and an EPON table no power, but always the MAC it is looked up by.
TechnicalOf(b, c) ==
    [onu |-> c.ont # Nothing, runState |-> RunState(b, c),
     power |-> IF b = "vsol" /\ c.state = Nothing THEN NoReading ELSE c.power,
     mac |-> c.mac /\ ~(b = "vsol" /\ c.state = Nothing)]

-----------------------------------------------------------------------------
\* What a reply may be about: the ONT as it is, or, once a command has been
\* lost, as it was at some time in this session, or nothing that can be parsed.
About ==
    {o \in IF trouble THEN past ELSE {ont} : order.exists}
        \cup (IF trouble \/ ~order.exists THEN {Nothing} ELSE {})

\* The table of a PON lists the ONTs on it.
AboutPon == IF order.onPon THEN About ELSE {Nothing}

At(s) == stage # "answered" /\ todo # <<>> /\ Head(todo) = s

\* The reply to the step at hand leaves context c.
Gather(c) == seen' = c /\ todo' = Tail(todo)

world == <<order, ont, past, hit, changes>>
job == <<stage, answer>>

Init ==
    /\ order \in [brand : Brands, slot : Slots, id : Ids, exists : BOOLEAN, onPon : BOOLEAN]
    /\ ont \in Onts /\ past = {ont}
    /\ stage = "status" /\ todo = ReadFlow(order.brand) /\ iface = "none"
    /\ seen = NewContext /\ answer = "none"
    /\ hit = {} /\ trouble = FALSE /\ changes = 0

-----------------------------------------------------------------------------
\* The steps of the flows, when their commands are answered.

\* Mutant: any reply to it is an EPON table.
ReadAnyTable ==
    /\ At("table")
    /\ \E o \in AboutPon :
          seen' = IF order.brand = "epon" THEN [seen EXCEPT !.ont = o, !.state = o] ELSE seen
    /\ todo' = <<>>
    /\ UNCHANGED <<world, job, iface, trouble>>

\* C-Data first asks for the EPON table of the PON.  The read goes on when the
\* reply is an error in known words (or, after a loss, looks like no table); a
\* table is the whole read; and any other reply that repeats the command or counts
\* something is taken for a table without the ONU.
ReadTable ==
    /\ At("table")
    /\ \/ /\ order.brand = "cdata" \/ trouble
          /\ Gather(seen)
       \/ /\ order.brand = "epon"
          /\ \E o \in AboutPon : seen' = [seen EXCEPT !.ont = o, !.state = o, !.mac = o # Nothing]
          /\ todo' = <<>>
       \/ /\ order.brand = "cdata_other" \/ trouble
          /\ todo' = <<>> /\ UNCHANGED seen
    /\ UNCHANGED <<world, job, iface, trouble>>

ReadOnt ==
    /\ At("ont") /\ order.brand # "epon"
    /\ \E o \in About \ {Nothing} : Gather([seen EXCEPT !.ont = o, !.state = o])
    /\ UNCHANGED <<world, job, iface, trouble>>

\* The parser throws and the flow is over.
OntMissing ==
    /\ At("ont")
    /\ Nothing \in About \/ order.brand = "epon"
    /\ todo' = <<>>
    /\ UNCHANGED <<world, job, iface, seen, trouble>>

ReadOntInfo ==
    /\ At("ont_info")
    /\ \E o \in About : Gather([seen EXCEPT !.ont = o])
    /\ UNCHANGED <<world, job, iface, trouble>>

ReadRows ==
    /\ At("rows")
    /\ \E o \in AboutPon : Gather([seen EXCEPT !.row = o])
    /\ UNCHANGED <<world, job, iface, trouble>>

PickOnu ==
    /\ At("onu")
    /\ Gather([seen EXCEPT !.ont = seen.row,
                           !.state = IF order.brand = "kingtype" THEN seen.row ELSE @])
    /\ UNCHANGED <<world, job, iface, trouble>>

ReadState ==
    /\ At("state")
    /\ \E o \in About : Gather(IF seen.ont = Nothing THEN seen ELSE [seen EXCEPT !.state = o])
    /\ UNCHANGED <<world, job, iface, trouble>>

\* The power is asked for by the PON of the request and the id found: in another
\* interface, or with another PON, it is that of another ONT, if of any.  Outside an
\* interface there is none.
ReadPower ==
    /\ At("power")
    /\ \/ /\ seen.ont # Nothing /\ order.onPon /\ (iface = "own" \/ order.brand = "kingtype")
          /\ \E o \in About :
                Gather([seen EXCEPT !.power = IF o = Nothing THEN NoReading ELSE o.power])
       \/ /\ seen.ont # Nothing /\ (iface = "other" \/ (iface = "own" /\ ~order.onPon))
          /\ \E p \in Powers : Gather([seen EXCEPT !.power = p])
       \/ /\ seen.ont = Nothing \/ (iface = "none" /\ order.brand # "kingtype")
          /\ Gather(seen)
    /\ UNCHANGED <<world, job, iface, trouble>>

ReadMac ==
    /\ At("mac")
    /\ \E o \in About :
          Gather([seen EXCEPT !.mac = seen.ont # Nothing /\ o # Nothing /\ o.mac])
    /\ UNCHANGED <<world, job, iface, trouble>>

-----------------------------------------------------------------------------
\* What a command does on the OLT, answered or lost.

\* Mutant: the slot is never looked up.
LoginToSlotZero == IF order.brand = "huawei" /\ order.slot # 0 THEN "other" ELSE "own"

\* Huawei's login takes the slot from the context, and slot 0 when the context
\* has no ONT.  The others go to the PON asked for, or to the only interface.
LoginTo ==
    IF order.brand = "huawei" /\ seen.ont = Nothing /\ order.slot # 0 THEN "other" ELSE "own"

Reaches(onts) ==
    /\ hit' = hit \cup onts
    /\ ont' = IF "ordered" \in onts /\ order.exists THEN [ont EXCEPT !.enabled = TRUE] ELSE ont
    /\ past' = past \cup {ont'}

\* Huawei's and V-Sol's command names the PON of the request, in the interface at
\* hand, and the id found: elsewhere that is another ONT, or none.  The commands of
\* C-Data and Kingtype name an id and no port: which ONT of that id they reach, if
\* any, is the OLT's business.
ActivateOnt ==
    \E onts \in
        IF order.brand \notin {"huawei", "vsol"} THEN {{}, {"ordered"}, {"other"}}
        ELSE IF iface = "none" THEN {{}}
        ELSE IF iface = "own" /\ order.onPon THEN {{"ordered"}}
        ELSE {{}, {"other"}} : Reaches(onts)

Effect(s) ==
    /\ iface' = IF s = "login" THEN LoginTo ELSE IF s = "exit" THEN "none" ELSE iface
    /\ IF s = "activate" THEN ActivateOnt ELSE UNCHANGED <<hit, ont, past>>

\* The interaction of C-Data's and V-Sol's activation answers its own answers
\* (ShellReactivation): its flow goes on only when the session is lost.
NeverEnds(s) == s = "activate" /\ order.brand \in CData \cup {"vsol"}

\* After a lost command the CLI may be where it takes this one for an error.
RunCommand ==
    /\ \E s \in {"login", "exit", "activate"} :
          /\ At(s) /\ ~NeverEnds(s)
          /\ Effect(s) \/ (trouble /\ UNCHANGED <<iface, hit, ont, past>>)
    /\ Gather(seen)
    /\ UNCHANGED <<order, changes, job, trouble>>

\* A command is not answered in time, or the session is broken: it may have run
\* or not.  The flow goes on unless the step was required; Kingtype's activation
\* fails the whole job.
Lost ==
    /\ \E s \in StepNames :
          /\ At(s)
          /\ Effect(s) \/ UNCHANGED <<iface, hit, ont, past>>
          /\ todo' = IF Required(order.brand, s) THEN <<>> ELSE Tail(todo)
          /\ IF s = "activate" /\ order.brand = "kingtype"
             THEN stage' = "answered" /\ answer' = "failed"
             ELSE UNCHANGED <<stage, answer>>
    /\ trouble' = TRUE
    /\ UNCHANGED <<order, changes, seen>>

-----------------------------------------------------------------------------
\* The ends of the flows.

\* The first read decides whether there is anything to activate: an id of 0
\* counts as none.
Activation ==
    /\ stage = "status" /\ todo = <<>>
    /\ IF seen.ont = Nothing \/ order.id = 0
       THEN stage' = "answered" /\ answer' = "not_found" /\ UNCHANGED <<seen, todo>>
       ELSE /\ stage' = "activation" /\ todo' = ActivationFlow(order.brand)
            /\ seen' = NewContext
            /\ UNCHANGED answer
    /\ UNCHANGED <<world, iface, trouble>>

SecondRead ==
    /\ stage = "activation" /\ todo = <<>>
    /\ stage' = "again" /\ todo' = ReadFlow(order.brand) /\ seen' = NewContext
    /\ UNCHANGED <<world, answer, iface, trouble>>

\* Mutant: the answer is the ONT's status.
AnswerStatus ==
    /\ stage = "again" /\ todo = <<>>
    /\ answer' = Status(order.brand, seen)
    /\ stage' = "answered"
    /\ UNCHANGED <<world, todo, seen, iface, trouble>>

Answer ==
    /\ stage = "again" /\ todo = <<>>
    /\ answer' = IF Succeeds(order.brand, seen) THEN "success" ELSE "unconfirmed"
    /\ stage' = "answered"
    /\ UNCHANGED <<world, todo, seen, iface, trouble>>

\* The ONT goes on living; nobody else enables or disables it meanwhile.
OntChanges ==
    /\ changes < MaxChanges /\ stage # "answered"
    /\ \E o \in Onts : o # ont /\ o.enabled = ont.enabled /\ ont' = o
    /\ past' = past \cup {ont'}
    /\ changes' = changes + 1
    /\ UNCHANGED <<order, hit, job, todo, iface, seen, trouble>>

Next ==
    \/ ReadTable \/ ReadOnt \/ OntMissing \/ ReadOntInfo \/ ReadRows \/ PickOnu
    \/ ReadState \/ ReadPower \/ ReadMac
    \/ RunCommand \/ Lost
    \/ Activation \/ SecondRead \/ Answer
    \/ OntChanges

Spec == Init /\ [][Next]_vars

-----------------------------------------------------------------------------
\* Huawei and Kingtype take the ONT's own state for their answer: a reactivation
\* answered as a success has left it enabled, whichever of its commands were lost
\* and whatever it did meanwhile.  (The other two take any state but DISABLED.)
SuccessMeansEnabled ==
    order.brand \in {"huawei", "kingtype"} /\ answer = "success" => ont.enabled

\* The lookup by serial did not tell Huawei's activation the slot.
Blind == trouble /\ seen.ont = Nothing /\ order.slot # 0

\* Huawei's activation reaches another ONT than the one ordered only if the request
\* names a PON that ONT is not on, or if the flow was blind: no other loss, and
\* nothing the first read left behind, leads it astray.
ActivationHitsUnlessBlind ==
    [][order.brand = "huawei" /\ "other" \in hit' \ hit => ~order.onPon \/ Blind]_vars

\* What an OLT that answers every command cannot be asked for: an ONT that is not
\* there, one that is not on the PON whose table is read, and any ONT of a C-Data
\* OLT whose refusal of the EPON table passes for that table.
Hidden ==
    \/ ~order.exists
    \/ ~order.onPon /\ order.brand \in {"epon", "vsol", "kingtype"}
    \/ order.brand = "cdata_other"

\* As long as every command is answered, a job is refused as "not found" exactly if
\* its ONT is hidden or has the id 0: a C-Data OLT is asked in two languages, and
\* only a refusal in unknown words keeps the second from being tried.
FoundUnlessHidden ==
    ~trouble /\ stage # "status" => (answer = "not_found" <=> Hidden \/ order.id = 0)

\* The verdict of a diagnosis on the first read was justified at some moment of
\* that session, though the read puts it together from several moments and
\* steps of it may be missing: an ONU said to be fine was online, one said to
\* be off was not, and a power found weak was measured on it if the PON was its own.
\* What was not read counts as a null, and no null comes of it as long as every
\* command is answered: then an ONU said to be missing is hidden, one without a
\* MAC had none, and one said to be fine has been measured.
VerdictWasTrue ==
    stage = "status" /\ todo = <<>> =>
        LET t == TechnicalOf(order.brand, seen)
            d == Diagnosis(t)
            measured == \E o \in past : o.power = t.power
        IN  /\ d.status = "SUCCESS" =>
                  /\ \E o \in past : o.phase = "online"
                  /\ ~trouble /\ order.onPon /\ order.brand # "epon" => measured
            /\ d.step = "ask_led_status" => \E o \in past : o.phase # "online"
            /\ d.step = "schedule_visit" /\ order.onPon => measured
            /\ d.step = "onu_not_available" => trouble \/ Hidden
            /\ d.step = "request_information" => trouble \/ \E o \in past : ~o.mac

=============================================================================
