--------------------------- MODULE SshSessionsProofs ---------------------------
(***************************************************************************)
(* For every job, of any number of sessions: type correctness, which         *)
(* failures leave a connection open, that only who has been let in succeeds, *)
(* and that a login types every command at the terminal it is for and leaves *)
(* the OLT where the adapter's flow takes over.                             *)
(***************************************************************************)
EXTENDS SshSessions, TLAPS

LEMMA SequenceFacts ==
    ASSUME NEW S, NEW s \in Seq(S)
    PROVE  /\ s # <<>> => Head(s) \in S /\ Tail(s) \in Seq(S)
           /\ \A a \in S : Append(s, a) \in Seq(S)
           /\ \A e \in Nat : SubSeq(s, e + 1, Len(s)) \in Seq(S)
  OBVIOUS

\* A login has seven steps at most, each of which types a command.
LEMMA LoginTyped ==
    ASSUME NEW kind \in Kinds
    PROVE  /\ Len(LoginOf(kind)) \in 0 .. 7
           /\ kind \in Brands => 1 <= Len(LoginOf(kind))
           /\ \A i \in 1 .. Len(LoginOf(kind)) : LoginOf(kind)[i].command \in Commands
<1> DEFINE Typed(s) == /\ Len(s) \in 1 .. 7
                       /\ \A i \in 1 .. Len(s) : s[i].command \in Commands
<1>1. Typed(HuaweiLogin)
  <2>1. Len(HuaweiLogin) = 5
    BY DEF HuaweiLogin
  <2>2. \A i \in 1 .. 5 : HuaweiLogin[i].command \in Commands
    BY DEF HuaweiLogin, Step, Commands
  <2>3. QED BY <2>1, <2>2
<1>2. Typed(VsolLogin)
  <2>1. Len(VsolLogin) = 6
    BY DEF VsolLogin
  <2>2. \A i \in 1 .. 6 : VsolLogin[i].command \in Commands
    BY DEF VsolLogin, Step, Commands
  <2>3. QED BY <2>1, <2>2
<1>3. Typed(CdataLogin)
  <2>1. Len(CdataLogin) = 3
    BY DEF CdataLogin
  <2>2. \A i \in 1 .. 3 : CdataLogin[i].command \in Commands
    BY DEF CdataLogin, Step, Commands
  <2>3. QED BY <2>1, <2>2
<1>4. Typed(KingtypeLogin)
  <2>1. Len(KingtypeLogin) = 7
    BY DEF KingtypeLogin
  <2>2. \A i \in 1 .. 7 : KingtypeLogin[i].command \in Commands
    BY DEF KingtypeLogin, Step, Commands
  <2>3. QED BY <2>1, <2>2
<1>5. CASE kind \in Brands
  <2>1. LoginOf(kind) \in {HuaweiLogin, VsolLogin, CdataLogin, KingtypeLogin}
    BY <1>5 DEF LoginOf, Brands
  <2>2. Typed(LoginOf(kind))
    BY <1>1, <1>2, <1>3, <1>4, <2>1, Zenon
  <2>3. QED BY <2>2
<1>6. CASE kind \notin Brands
  <2>1. LoginOf(kind) = <<>>
    BY <1>6 DEF LoginOf, Brands
  <2>2. QED BY <1>6, <2>1
<1>7. QED BY <1>5, <1>6

\* While a job is not over its first session is of some kind.
LEMMA KindTyped ==
    ASSUME TypeOK, phase # "over"
    PROVE  Kind \in Kinds /\ Tail(todo) \in Seq(Kinds)
  BY SequenceFacts DEF TypeOK, Kind

LEMMA EndTyped ==
    ASSUME TypeOK, phase # "over", NEW success \in BOOLEAN, EndSession(success),
           left' \subseteq Phases
    PROVE  TypeOK'
<1>1. Kind \in Kinds /\ Tail(todo) \in Seq(Kinds)
  BY KindTyped
<1>2. todo' \in Seq(Kinds)
  BY <1>1 DEF EndSession
<1>3. phase' \in Phases /\ (phase' = "over" <=> todo' = <<>>) /\ phase' # "login"
  BY DEF EndSession, Phases
<1>4. shut' \subseteq Olts \X BOOLEAN /\ ok' \in BOOLEAN
  BY DEF EndSession, TypeOK
<1>5. buffer' \in Seq(Texts) /\ wire' \in Seq(Texts) /\ inputs' \in Seq(Commands)
  BY DEF EndSession
<1>6. /\ conn' \in {"none", "open", "lost"} /\ k' = 0
      /\ place' \in Places /\ phase' \in {"connect", "over"}
  BY DEF EndSession, Places
<1>7. /\ sent' \in BOOLEAN
      /\ accepted' \in BOOLEAN /\ hungUp' \in BOOLEAN /\ misled' \in BOOLEAN
  BY Zenon DEF EndSession
<1>8. QED BY <1>2, <1>3, <1>4, <1>5, <1>6, <1>7 DEF TypeOK

\* Whoever ends a session either closes it or abandons it, and abandons it only
\* before its first use.
Abandons == OpenShellFails \/ PromptTimesOut \/ ConnectFails
Closes ==
    NoSequence \/ StepFails \/ StepTimesOut \/ WriteFails \/ Work
        \/ (phase = "connect" /\ Kind = "probe" /\ Close(TRUE))

LEMMA ClosesDoes ==
    ASSUME Closes
    PROVE  phase # "over" /\ left' = left /\ \E success \in BOOLEAN : EndSession(success)
  BY DEF Closes, NoSequence, StepFails, StepTimesOut, WriteFails, Work, Close

LEMMA AbandonsDoes ==
    ASSUME Abandons
    PROVE  /\ phase \in {"connect", "shell", "prompt"} /\ EndSession(FALSE)
           /\ left' = IF conn = "open" THEN left \cup {phase} ELSE left
  BY DEF Abandons, OpenShellFails, PromptTimesOut, ConnectFails, Abandon

LEMMA NextSplit ==
    ASSUME [Next]_vars
    PROVE  \/ Closes \/ Abandons
           \/ (Connect /\ Kind # "probe") \/ OpenShell
           \/ PromptStands \/ Lose \/ FirstExpected \/ Send \/ StepSucceeds
           \/ Arrive \/ Reads \/ HangUp
           \/ UNCHANGED vars
<1>1. Connect => Closes \/ (Connect /\ Kind # "probe")
  BY DEF Connect, Closes
<1>2. QED BY <1>1 DEF Next, Connecting, Poll, Write, Timeout, Closes, Abandons

\* What a terminal answers is text.
Answers ==
    \E p \in Places, t \in Seq(Texts) : Answer(p, t)

LEMMA TextsTyped ==
    ASSUME NEW a \in Texts, NEW b \in Texts, NEW c \in Texts
    PROVE  <<a>> \in Seq(Texts) /\ <<a, b>> \in Seq(Texts) /\ <<a, b, c>> \in Seq(Texts)
  OBVIOUS

LEMMA RefuseAnswers ==
    ASSUME NEW t \in Texts, Refuse(<<t>>)
    PROVE  Answers
<1>1. "askUser" \in Texts /\ "routerPrompt" \in Texts /\ "user" \in Places /\ "router" \in Places
  BY DEF Texts, Places
<1>2. Append(<<t>>, "askUser") \in Seq(Texts) /\ Append(<<t>>, "routerPrompt") \in Seq(Texts)
  BY <1>1, TextsTyped, SequenceFacts
<1>3. QED BY <1>1, <1>2 DEF Refuse, Answers

LEMMA UnknownAnswers ==
    ASSUME NEW p \in Places, NEW t \in Texts, Unknown(p, t)
    PROVE  Answers
<1>1. "unknown" \in Texts
  BY DEF Texts
<1>2. <<"unknown", t>> \in Seq(Texts)
  BY <1>1, TextsTyped
<1>3. QED BY <1>2 DEF Unknown, Answers

LEMMA OneAnswers ==
    ASSUME NEW p \in Places, NEW t \in Texts, Answer(p, <<t>>)
    PROVE  Answers
<1>1. <<t>> \in Seq(Texts)
  BY TextsTyped
<1>2. QED BY <1>1 DEF Answers

LEMMA EnterAnswers ==
    ASSUME NEW p \in Places, NEW t \in Texts, Enter(p, t)
    PROVE  Answers
<1>1. PICK body \in {<<>>, <<"like">>} : Answer(p, Append(body, t))
  BY DEF Enter
<1>2. "like" \in Texts
  BY DEF Texts
<1>3. body \in Seq(Texts)
  <2>1. <<"like">> \in Seq(Texts) /\ <<>> \in Seq(Texts)
    BY <1>2, TextsTyped
  <2>2. QED BY <2>1
<1>4. Append(body, t) \in Seq(Texts)
  BY <1>3, SequenceFacts
<1>5. QED BY <1>1, <1>4 DEF Answers

LEMMA ReadsAnswers ==
    ASSUME NEW command, RouterReads(command) \/ LoginReads(command) \/ CliReads(command)
    PROVE  Answers
<1>0. /\ {"askKey", "askUser", "askPassword", "routerPrompt", "userPrompt", "privPrompt",
          "configPrompt", "reset", "refused", "locked", "rejected", "expired"} \subseteq Texts
      /\ {"router", "key", "user", "password", "cli", "enablePassword", "priv", "config"} \subseteq Places
  BY DEF Texts, Places
<1>1. CASE RouterReads(command)
  <2>1. ASSUME NEW why \in {"reset", "refused", "locked"}, Answer("router", <<why, "routerPrompt">>)
        PROVE  Answers
    <3>1. <<why, "routerPrompt">> \in Seq(Texts)
      BY <1>0, TextsTyped
    <3>2. QED BY <1>0, <2>1, <3>1 DEF Answers
  <2>2. QED BY <1>0, <1>1, <2>1, OneAnswers DEF RouterReads
<1>2. CASE LoginReads(command)
  BY <1>0, <1>2, OneAnswers, RefuseAnswers, EnterAnswers DEF LoginReads
<1>3. CASE CliReads(command)
  <2>1. ASSUME Answer("cli", <<"rejected", "userPrompt">>) PROVE Answers
    <3>1. <<"rejected", "userPrompt">> \in Seq(Texts)
      BY <1>0, TextsTyped
    <3>2. QED BY <1>0, <2>1, <3>1 DEF Answers
  <2>2. QED BY <1>0, <1>3, <2>1, OneAnswers, UnknownAnswers DEF CliReads
<1>4. QED BY <1>1, <1>2, <1>3

LEMMA AnswersTyped ==
    ASSUME TypeOK, Answers
    PROVE  place' \in Places /\ wire' \in Seq(Texts) /\ hungUp' \in BOOLEAN
<1>1. PICK p \in Places, t \in Seq(Texts) : Answer(p, t)
  BY DEF Answers
<1>2. wire \o t \in Seq(Texts)
  BY DEF TypeOK
<1>3. QED BY <1>1, <1>2 DEF Answer, TypeOK

-----------------------------------------------------------------------------
LEMMA InitTyped == ASSUME Init PROVE TypeOK
<1>1. todo \in Seq(Kinds) /\ todo # <<>>
  BY JobsAssumption DEF Init
<1>2. buffer \in Seq(Texts) /\ wire \in Seq(Texts) /\ inputs \in Seq(Commands)
  BY DEF Init
<1>3. /\ sent \in BOOLEAN /\ ok \in BOOLEAN
      /\ accepted \in BOOLEAN /\ hungUp \in BOOLEAN /\ misled \in BOOLEAN
  BY Zenon DEF Init
<1>4. /\ phase = "connect" /\ conn = "none" /\ place = "router" /\ k = 0
      /\ left = {} /\ shut = {}
  BY DEF Init
<1>5. QED BY <1>1, <1>2, <1>3, <1>4 DEF TypeOK, Phases, Places

LEMMA NextTyped == ASSUME TypeOK, [Next]_vars PROVE TypeOK'
<1>1. CASE Closes
  BY <1>1, ClosesDoes, EndTyped DEF TypeOK
<1>2. CASE Abandons
  <2>1. left' \subseteq Phases
    BY <1>2, AbandonsDoes DEF TypeOK
  <2>2. QED BY <1>2, <2>1, AbandonsDoes, EndTyped
<1>3. CASE Connect /\ Kind # "probe"
  <2>1. Kind \in Brands \cup {"router"} /\ Kind' = Kind
    BY <1>3, KindTyped DEF Connect, Kinds, Olts, Kind, job
  <2>2. QED BY <1>3, <2>1 DEF Connect, TypeOK, job, service, terminal, Phases
<1>4. CASE OpenShell
  <2>1. {"routerPrompt", "like"} \subseteq Texts
    BY DEF Texts
  <2>2. <<"routerPrompt">> \in Seq(Texts) /\ <<"like", "routerPrompt">> \in Seq(Texts)
    BY <2>1, TextsTyped
  <2>3. wire' \in Seq(Texts)
    BY <1>4, <2>2 DEF OpenShell
  <2>5. Kind' = Kind /\ Steps' = Steps
    BY <1>4 DEF OpenShell, Kind, Steps, job
  <2>6. phase' \in Phases /\ phase' \notin {"connect", "over"}
        /\ (phase' = "login" => Kind \in Brands)
    BY <1>4 DEF OpenShell, Phases, TypeOK
  <2>7. 0 <= Len(Steps)
    BY <1>4, KindTyped, LoginTyped DEF OpenShell, Steps
  <2>8. k' <= Len(Steps)'
    BY <1>4, <2>5, <2>7 DEF OpenShell, TypeOK, service
  <2>9. QED BY <1>4, <2>3, <2>5, <2>6, <2>8 DEF OpenShell, TypeOK, job, service
<1>5. CASE PromptStands \/ Lose
  <2>1. <<>> \in Seq(Texts) /\ <<>> \in Seq(Commands)
    OBVIOUS
  <2>2. phase # "over" => todo # <<>>
    BY DEF TypeOK
  <2>3. CASE PromptStands
    <3>1. Kind' = Kind /\ phase' = "work" /\ Kind \in Brands \cup {"router"}
      BY <2>3 DEF PromptStands, TypeOK, Kind, job
    <3>2. QED BY <2>2, <2>3, <3>1 DEF PromptStands, TypeOK, job, service, terminal, Phases
  <2>4. CASE Lose
    BY <2>1, <2>4 DEF Lose, TypeOK, job, service, Steps, Kind
  <2>5. QED BY <1>5, <2>3, <2>4
<1>6. CASE FirstExpected
  <2>1. 1 <= Len(Steps)
    BY <1>6, KindTyped, LoginTyped DEF FirstExpected, TypeOK, Steps
  <2>2. QED BY <1>6, <2>1 DEF FirstExpected, TypeOK, session, job, terminal, Steps, Kind
<1>7. CASE Send
  <2>1. Steps[k].command \in Commands
    BY <1>7, KindTyped, LoginTyped DEF Send, TypeOK, Steps
  <2>2. inputs' \in Seq(Commands)
    BY <1>7, <2>1, SequenceFacts DEF Send, TypeOK
  <2>3. QED BY <1>7, <2>2 DEF Send, TypeOK, session, job, Steps, Kind
<1>8. CASE StepSucceeds
  <2>0. PICK i \in DOMAIN Steps[k].success : Consume(i)
    BY <1>8 DEF StepSucceeds
  <2>1. PICK e \in Ends(Steps[k].success[i], buffer) :
            /\ buffer' = SubSeq(buffer, e + 1, Len(buffer))
            /\ misled' = (misled \/ buffer[e] = "like")
    BY <2>0 DEF Consume
  <2>2. e \in Nat
    BY <2>1 DEF Ends, TypeOK
  <2>3. buffer' \in Seq(Texts)
    BY <2>1, <2>2, SequenceFacts DEF TypeOK
  <2>4. misled' \in BOOLEAN
    BY <2>1
  <2>5. /\ phase = "login" /\ todo # <<>> /\ Kind \in Brands /\ k \in Nat
        /\ k <= Len(Steps) /\ Len(Steps) \in 0 .. 7
    BY <1>8, KindTyped, LoginTyped DEF StepSucceeds, TypeOK, Steps
  <2>6. /\ k' \in 0 .. 7 /\ phase' \in {"work", "login"}
        /\ phase' = "login" => k' <= Len(Steps)
    <3>1. CASE k = Len(Steps)
      BY <1>8, <2>5, <3>1 DEF StepSucceeds
    <3>2. CASE k # Len(Steps)
      <4>1. PICK l \in 0 .. 7 : l = Len(Steps)
        BY <2>5
      <4>2. k + 1 \in 0 .. 7 /\ k + 1 <= Len(Steps)
        <5>1. k \in Nat /\ k <= l /\ k # l
          BY <2>5, <3>2, <4>1
        <5>2. k + 1 \in 0 .. 7 /\ k + 1 <= l
          BY <5>1
        <5>3. QED BY <4>1, <5>2
      <4>3. k' = k + 1 /\ phase' = phase
        BY <1>8, <3>2 DEF StepSucceeds
      <4>4. QED BY <2>5, <4>2, <4>3
    <3>3. QED BY <3>1, <3>2
  <2>7. Steps' = Steps /\ Kind' = Kind
    BY <1>8 DEF StepSucceeds, Steps, Kind, job
  <2>8. QED BY <1>8, <2>3, <2>4, <2>5, <2>6, <2>7 DEF StepSucceeds, TypeOK, job, terminal, Phases
<1>9. CASE Arrive
  <2>1. Head(wire) \in Texts /\ wire' \in Seq(Texts)
    BY <1>9, SequenceFacts DEF Arrive, TypeOK
  <2>2. buffer' \in Seq(Texts)
    BY <1>9, <2>1, SequenceFacts DEF Arrive, TypeOK
  <2>3. QED BY <1>9, <2>1, <2>2 DEF Arrive, TypeOK, session, job, Steps, Kind
<1>10. CASE Reads
  <2>1. Answers
    BY <1>10, ReadsAnswers DEF Reads
  <2>2. inputs' \in Seq(Commands)
    BY <1>10, SequenceFacts DEF Reads, TypeOK
  <2>3. accepted' \in BOOLEAN
    BY <1>10 DEF Reads, LoginReads, TypeOK
  <2>4. QED BY <1>10, <2>1, <2>2, <2>3, AnswersTyped DEF Reads, TypeOK, session, job, service, Steps, Kind
<1>11. CASE HangUp
  <2>1. "routerPrompt" \in Texts /\ "router" \in Places
    BY DEF Texts, Places
  <2>2. Answers
    BY <1>11, <2>1, OneAnswers DEF HangUp
  <2>3. QED BY <1>11, <2>2, AnswersTyped DEF HangUp, TypeOK, session, job, service, Steps, Kind
<1>12. CASE UNCHANGED vars
  BY <1>12 DEF vars, session, job, service, terminal, TypeOK, Steps, Kind
<1>13. QED
  BY <1>1, <1>2, <1>3, <1>4, <1>5, <1>6, <1>7, <1>8, <1>9, <1>10, <1>11, <1>12, NextSplit

\* Every state of every job is of the types the service declares.
THEOREM TypeCorrect == Spec => []TypeOK
<1>1. QED BY InitTyped, NextTyped, PTL DEF Spec

-----------------------------------------------------------------------------
\* A connection that is about to be made is not yet one that could be left.
ClosedBefore == phase = "connect" => conn # "open"

LEMMA LeftStep ==
    ASSUME ClosedBefore /\ LeftOpenOnlyBeforeUse, [Next]_vars
    PROVE  (ClosedBefore /\ LeftOpenOnlyBeforeUse)'
<1>1. CASE Closes
  <2>1. left' = left /\ conn' = "none"
    BY <1>1, ClosesDoes DEF EndSession
  <2>2. QED BY <2>1 DEF ClosedBefore, LeftOpenOnlyBeforeUse
<1>2. CASE Abandons
  <2>1. conn' = "none" /\ (left' = left \/ (phase \in {"shell", "prompt"} /\ left' = left \cup {phase}))
    BY <1>2, AbandonsDoes DEF EndSession, ClosedBefore
  <2>2. QED BY <2>1 DEF ClosedBefore, LeftOpenOnlyBeforeUse
<1>3. CASE UNCHANGED job /\ (phase' = "connect" => conn' # "open")
  BY <1>3 DEF job, ClosedBefore, LeftOpenOnlyBeforeUse
<1>4. CASE Connect /\ Kind # "probe"
  BY <1>3, <1>4 DEF Connect
<1>5. CASE OpenShell
  BY <1>3, <1>5 DEF OpenShell
<1>6. CASE PromptStands \/ Lose
  BY <1>3, <1>6 DEF PromptStands, Lose
<1>7. CASE FirstExpected \/ Send \/ Arrive \/ Reads \/ HangUp
  <2>1. UNCHANGED session /\ phase # "connect"
    BY <1>7 DEF FirstExpected, Send, Arrive, Reads, HangUp
  <2>2. QED BY <1>3, <2>1 DEF session
<1>8. CASE StepSucceeds
  <2>1. UNCHANGED job /\ phase' # "connect"
    BY <1>8 DEF StepSucceeds
  <2>2. QED BY <1>3, <2>1
<1>9. CASE UNCHANGED vars
  BY <1>9 DEF vars, session, job, ClosedBefore, LeftOpenOnlyBeforeUse
<1>10. QED BY <1>1, <1>2, <1>4, <1>5, <1>6, <1>7, <1>8, <1>9, NextSplit

\* A job of any number of sessions leaves a connection open only where no shell
\* could be opened on it, or where the router's first prompt did not come.
THEOREM LeftOpen == Spec => []LeftOpenOnlyBeforeUse
<1>1. Init => ClosedBefore /\ LeftOpenOnlyBeforeUse
  BY DEF Init, ClosedBefore, LeftOpenOnlyBeforeUse
<1>2. QED BY <1>1, LeftStep, PTL DEF Spec

-----------------------------------------------------------------------------
\* Nobody who has not been let in gets to the end of a login.  Until the password
\* is accepted no prompt of the OLT is anywhere in the stream; a text that may
\* pass for one ends a banner of the router, or is the router's prompt, and both
\* come before the first thing the OLT asks for unless the OLT has ended the
\* telnet: so they are gone with the first step.
OltPrompts == {"userPrompt", "privPrompt", "configPrompt"}
Marks == {"askKey", "askUser"}
Misleads(h, t) == t = "like" \/ (t = "routerPrompt" /\ ~h)

NoneIn(S, s) == \A i \in 1 .. Len(s) : s[i] \notin S

MisleadsFirst ==
    /\ \A i \in 1 .. Len(buffer), j \in 1 .. Len(buffer) :
          i < j /\ buffer[i] \in Marks => ~Misleads(hungUp, buffer[j])
    /\ \A i \in 1 .. Len(buffer), j \in 1 .. Len(wire) : buffer[i] \in Marks => ~Misleads(hungUp, wire[j])
    /\ \A i \in 1 .. Len(wire), j \in 1 .. Len(wire) :
          i < j /\ wire[i] \in Marks => ~Misleads(hungUp, wire[j])
    /\ place = "router" /\ ~hungUp => NoneIn(Marks, buffer) /\ NoneIn(Marks, wire)

NothingMisleads ==
    /\ \A i \in 1 .. Len(buffer) : ~Misleads(hungUp, buffer[i])
    /\ \A i \in 1 .. Len(wire) : ~Misleads(hungUp, wire[i])
    /\ place = "router" => hungUp

\* The step that only a prompt of the OLT satisfies, or for C-Data any prompt.
Gate == [b \in Brands |-> IF b \in {"huawei", "c-data"} THEN 3 ELSE 5]

Outside ==
    /\ place \in {"router", "key", "user", "password"}
    /\ NoneIn(OltPrompts, buffer) /\ NoneIn(OltPrompts, wire)
    /\ IF k <= 1 THEN MisleadsFirst ELSE NothingMisleads
    /\ k <= Gate[Kind]

LetIn ==
    /\ phase \in {"connect", "shell"} => place = "router" /\ buffer = <<>> /\ ~accepted /\ ~sent
    /\ phase = "prompt" => Kind \notin Brands
    /\ phase = "login" /\ sent => k > 0
    /\ phase = "login" /\ ~accepted => Outside
    /\ phase = "work" /\ Kind \in Brands /\ ~accepted => Kind = "c-data" /\ hungUp
    /\ ok => shut \subseteq {<<"c-data", TRUE>>}

LEMMA ConcatElements ==
    ASSUME NEW S, NEW s \in Seq(S), NEW t \in Seq(S)
    PROVE  /\ s \o t \in Seq(S) /\ Len(s \o t) = Len(s) + Len(t)
           /\ Len(s) \in Nat /\ Len(t) \in Nat
           /\ \A i \in 1 .. Len(s) : (s \o t)[i] = s[i]
           /\ \A i \in 1 .. Len(s \o t) : i > Len(s) => i - Len(s) \in 1 .. Len(t)
                                                      /\ (s \o t)[i] = t[i - Len(s)]
  OBVIOUS

\* The texts that let a login go on, step by step.
HuaweiTexts == <<{"askUser"}, {"askPassword"}, {"userPrompt"}, OltPrompts, {"configPrompt"}>>
VsolTexts == <<{"askUser"}, {"askPassword"}, PromptTexts, HashTexts \cup {"askPassword"}, HashTexts, HashTexts>>
CdataTexts == <<{"askUser"}, {"askPassword"}, PromptTexts>>
KingtypeTexts ==
    <<{"askKey"}, {"askUser"}, {"askPassword"}, PromptTexts, HashTexts,
      {"configPrompt"}, {"configPrompt", "unknown"}>>

Expected(b) ==
    CASE b = "huawei" -> HuaweiTexts
      [] b = "v-sol" -> VsolTexts
      [] b = "c-data" -> CdataTexts
      [] b = "kingtype" -> KingtypeTexts

\* Only texts of S let a login past the conditions.
Lets(conditions, S) ==
    \A i \in DOMAIN conditions : conditions[i].continue => conditions[i].in \subseteq S

LEMMA Stopped ==
    /\ \A texts : ~Stop(Within(texts)).continue
    /\ ~UserLocked.continue /\ ~NoSuchCommand.continue
<1>1. \A texts : ~Stop(Within(texts)).continue
  BY DEF Stop, Within
<1>2. QED BY <1>1 DEF UserLocked, NoSuchCommand

LEMMA LetsMore ==
    ASSUME NEW C, NEW s \in Seq(C), NEW t \in Seq(C), NEW S, Lets(s, S), Lets(t, S)
    PROVE  Lets(s \o t, S)
<1>1. \A i \in DOMAIN (s \o t) : \/ i \in DOMAIN s /\ (s \o t)[i] = s[i]
                                 \/ i - Len(s) \in DOMAIN t /\ (s \o t)[i] = t[i - Len(s)]
  OBVIOUS
<1>2. QED BY <1>1 DEF Lets


LEMMA NoTelnetStops == ASSUME NEW S PROVE Lets(NoTelnet, S) /\ Lets(<<UserLocked>>, S)
<1>1. ~Stop(Within({"reset"})).continue /\ ~Stop(Within({"refused"})).continue
  BY Stopped
<1>2. QED BY <1>1, Stopped DEF Lets, NoTelnet

LEMMA TelnetExpects ==
    /\ Lets(<<Within({"askUser"})>> \o NoTelnet, {"askUser"})
    /\ Lets(<<Within({"askUser"})>> \o NoTelnet \o <<UserLocked>>, {"askUser"})
<1> DEFINE C == {Within({"askUser"}), Stop(Within({"reset"})), Stop(Within({"refused"})), UserLocked}
<1> DEFINE one == <<Within({"askUser"})>>
<1>1. one \in Seq(C) /\ NoTelnet \in Seq(C) /\ <<UserLocked>> \in Seq(C)
  BY DEF NoTelnet
<1>2. Lets(one, {"askUser"})
  BY DEF Lets, Within
<1> HIDE DEF one
<1>3. Lets(one \o NoTelnet, {"askUser"}) /\ one \o NoTelnet \in Seq(C)
  <2>1. Lets(one \o NoTelnet, {"askUser"})
    BY <1>1, <1>2, NoTelnetStops, LetsMore
  <2>2. QED BY <1>1, <2>1, ConcatElements
<1>4. Lets(one \o NoTelnet \o <<UserLocked>>, {"askUser"})
  BY <1>1, <1>3, NoTelnetStops, LetsMore
<1>5. QED BY <1>3, <1>4 DEF one

LEMMA HuaweiExpects == \A n \in 1 .. 5 : Lets(HuaweiLogin[n].success, HuaweiTexts[n])
<1>1. Lets(HuaweiLogin[1].success, {"askUser"})
  BY TelnetExpects DEF HuaweiLogin, Step
<1>2. Lets(HuaweiLogin[2].success, {"askPassword"})
  <2>1. HuaweiLogin[2].success = <<Within({"askPassword"}), UserLocked>>
    BY DEF HuaweiLogin, Step
  <2>2. QED BY <2>1, Stopped DEF Lets, Within, Ending
<1>3. Lets(HuaweiLogin[3].success, {"userPrompt"})
  <2>1. HuaweiLogin[3].success = <<Within({"userPrompt"}), Stop(Within({"expired"})), UserLocked,
                                   Stop(Within({"rejected", "askUser"}))>>
    BY DEF HuaweiLogin, Step
  <2>2. ~Stop(Within({"expired"})).continue /\ ~Stop(Within({"rejected", "askUser"})).continue
    BY Stopped
  <2>3. QED BY <2>1, <2>2, Stopped DEF Lets, Within
<1>4. Lets(HuaweiLogin[4].success, OltPrompts)
  <2>1. HuaweiLogin[4].success = <<Ending(OltPrompts), NoSuchCommand>>
    BY DEF HuaweiLogin, Step, OltPrompts
  <2>2. QED BY <2>1, Stopped DEF Lets, Within, Ending
<1>5. Lets(HuaweiLogin[5].success, {"configPrompt"})
  <2>1. HuaweiLogin[5].success = <<Ending({"configPrompt"}), NoSuchCommand>>
    BY DEF HuaweiLogin, Step
  <2>2. QED BY <2>1, Stopped DEF Lets, Within, Ending
<1>6. /\ HuaweiTexts[1] = {"askUser"}
      /\ HuaweiTexts[2] = {"askPassword"}
      /\ HuaweiTexts[3] = {"userPrompt"}
      /\ HuaweiTexts[4] = OltPrompts
      /\ HuaweiTexts[5] = {"configPrompt"}
  BY DEF HuaweiTexts
<1>7. /\ Lets(HuaweiLogin[1].success, HuaweiTexts[1])
      /\ Lets(HuaweiLogin[2].success, HuaweiTexts[2])
      /\ Lets(HuaweiLogin[3].success, HuaweiTexts[3])
      /\ Lets(HuaweiLogin[4].success, HuaweiTexts[4])
      /\ Lets(HuaweiLogin[5].success, HuaweiTexts[5])
  BY <1>1, <1>2, <1>3, <1>4, <1>5, <1>6
<1>8. QED BY <1>7

LEMMA VsolExpects == \A n \in 1 .. 6 : Lets(VsolLogin[n].success, VsolTexts[n])
<1>1. Lets(VsolLogin[1].success, {"askUser"})
  BY TelnetExpects DEF VsolLogin, Step
<1>2. Lets(VsolLogin[2].success, {"askPassword"})
  <2>1. VsolLogin[2].success = <<Within({"askPassword"})>>
    BY DEF VsolLogin, Step
  <2>2. QED BY <2>1 DEF Lets, Within, Ending
<1>3. Lets(VsolLogin[3].success, PromptTexts)
  <2>1. VsolLogin[3].success = <<Ending(PromptTexts), Stop(Within({"rejected"}))>>
    BY DEF VsolLogin, Step
  <2>2. ~Stop(Within({"rejected"})).continue
    BY Stopped
  <2>3. QED BY <2>1, <2>2 DEF Lets, Within, Ending
<1>4. Lets(VsolLogin[4].success, HashTexts \cup {"askPassword"})
  <2>0. EndingAfter("unknown", HashTexts).in = HashTexts
    BY DEF Within, Ending, EndingAfter
  <2>1. VsolLogin[4].success = <<Within({"askPassword"}), Ending(HashTexts),
                                 EndingAfter("unknown", HashTexts)>>
    BY DEF VsolLogin, Step
  <2>2. Lets(<<Within({"askPassword"}), Ending(HashTexts), EndingAfter("unknown", HashTexts)>>,
             HashTexts \cup {"askPassword"})
    BY <2>0 DEF Lets, Within, Ending
  <2>3. QED BY <2>1, <2>2
<1>5. Lets(VsolLogin[5].success, HashTexts)
  <2>1. VsolLogin[5].success = <<Ending(HashTexts)>>
    BY DEF VsolLogin, Step
  <2>2. QED BY <2>1 DEF Lets, Within, Ending
<1>6. Lets(VsolLogin[6].success, HashTexts)
  <2>1. VsolLogin[6].success = <<Ending({"configPrompt"}), EndingAfter("unknown", HashTexts)>>
    BY DEF VsolLogin, Step
  <2>2. EndingAfter("unknown", HashTexts).in = HashTexts
    BY DEF Within, Ending, EndingAfter
  <2>3. Lets(<<Ending({"configPrompt"}), EndingAfter("unknown", HashTexts)>>, HashTexts)
    BY <2>2 DEF Lets, Within, Ending, HashTexts
  <2>4. QED BY <2>1, <2>3
<1>7. /\ VsolTexts[1] = {"askUser"}
      /\ VsolTexts[2] = {"askPassword"}
      /\ VsolTexts[3] = PromptTexts
      /\ VsolTexts[4] = HashTexts \cup {"askPassword"}
      /\ VsolTexts[5] = HashTexts
      /\ VsolTexts[6] = HashTexts
  BY DEF VsolTexts
<1>8. /\ Lets(VsolLogin[1].success, VsolTexts[1])
      /\ Lets(VsolLogin[2].success, VsolTexts[2])
      /\ Lets(VsolLogin[3].success, VsolTexts[3])
      /\ Lets(VsolLogin[4].success, VsolTexts[4])
      /\ Lets(VsolLogin[5].success, VsolTexts[5])
      /\ Lets(VsolLogin[6].success, VsolTexts[6])
  BY <1>1, <1>2, <1>3, <1>4, <1>5, <1>6, <1>7
<1>9. QED BY <1>8

LEMMA CdataExpects == \A n \in 1 .. 3 : Lets(CdataLogin[n].success, CdataTexts[n])
<1>1. Lets(CdataLogin[1].success, {"askUser"})
  BY TelnetExpects DEF CdataLogin, Step
<1>2. Lets(CdataLogin[2].success, {"askPassword"})
  <2>1. CdataLogin[2].success = <<Within({"askPassword"})>>
    BY DEF CdataLogin, Step
  <2>2. QED BY <2>1 DEF Lets, Within, Ending
<1>3. Lets(CdataLogin[3].success, PromptTexts)
  <2>1. CdataLogin[3].success = <<Ending(PromptTexts), Stop(Within({"rejected"}))>>
    BY DEF CdataLogin, Step
  <2>2. ~Stop(Within({"rejected"})).continue
    BY Stopped
  <2>3. QED BY <2>1, <2>2 DEF Lets, Within, Ending
<1>4. /\ CdataTexts[1] = {"askUser"}
      /\ CdataTexts[2] = {"askPassword"}
      /\ CdataTexts[3] = PromptTexts
  BY DEF CdataTexts
<1>5. /\ Lets(CdataLogin[1].success, CdataTexts[1])
      /\ Lets(CdataLogin[2].success, CdataTexts[2])
      /\ Lets(CdataLogin[3].success, CdataTexts[3])
  BY <1>1, <1>2, <1>3, <1>4
<1>6. QED BY <1>5

LEMMA KingtypeExpects == \A n \in 1 .. 7 : Lets(KingtypeLogin[n].success, KingtypeTexts[n])
<1>1. /\ Lets(KingtypeLogin[1].success, {"askKey"})
      /\ Lets(KingtypeLogin[2].success, {"askUser"})
      /\ Lets(KingtypeLogin[3].success, {"askPassword"})
      /\ Lets(KingtypeLogin[4].success, PromptTexts)
      /\ Lets(KingtypeLogin[6].success, {"configPrompt"})
  <2>1. /\ KingtypeLogin[1].success = <<Within({"askKey"})>>
        /\ KingtypeLogin[2].success = <<Within({"askUser"})>>
        /\ KingtypeLogin[3].success = <<Within({"askPassword"})>>
        /\ KingtypeLogin[4].success = <<Ending(PromptTexts)>>
        /\ KingtypeLogin[6].success = <<Ending({"configPrompt"})>>
    BY DEF KingtypeLogin, Step
  <2>2. QED BY <2>1 DEF Lets, Within, Ending
<1>2. Lets(KingtypeLogin[5].success, HashTexts)
  <2>1. KingtypeLogin[5].success = <<Ending({"privPrompt"}), Ending(HashTexts)>>
    BY DEF KingtypeLogin, Step
  <2>2. QED BY <2>1 DEF Lets, Within, Ending, HashTexts
<1>3. Lets(KingtypeLogin[7].success, {"configPrompt", "unknown"})
  <2>1. KingtypeLogin[7].success = <<Ending({"configPrompt"}), Within({"unknown"})>>
    BY DEF KingtypeLogin, Step
  <2>2. QED BY <2>1, Stopped DEF Lets, Within, Ending
<1>4. /\ KingtypeTexts[1] = {"askKey"}
      /\ KingtypeTexts[2] = {"askUser"}
      /\ KingtypeTexts[3] = {"askPassword"}
      /\ KingtypeTexts[4] = PromptTexts
      /\ KingtypeTexts[5] = HashTexts
      /\ KingtypeTexts[6] = {"configPrompt"}
      /\ KingtypeTexts[7] = {"configPrompt", "unknown"}
  BY DEF KingtypeTexts
<1>5. /\ Lets(KingtypeLogin[1].success, KingtypeTexts[1])
      /\ Lets(KingtypeLogin[2].success, KingtypeTexts[2])
      /\ Lets(KingtypeLogin[3].success, KingtypeTexts[3])
      /\ Lets(KingtypeLogin[4].success, KingtypeTexts[4])
      /\ Lets(KingtypeLogin[5].success, KingtypeTexts[5])
      /\ Lets(KingtypeLogin[6].success, KingtypeTexts[6])
      /\ Lets(KingtypeLogin[7].success, KingtypeTexts[7])
  BY <1>1, <1>2, <1>3, <1>4
<1>6. QED BY <1>5

\* What each table looks for, whatever comes first and wherever it has to stand.
LEMMA StepsExpect ==
    ASSUME NEW b \in Brands, NEW n \in 1 .. Len(LoginOf(b))
    PROVE  Lets(LoginOf(b)[n].success, Expected(b)[n])
<1>1. CASE b = "huawei"
  <2>1. LoginOf(b) = HuaweiLogin /\ Len(HuaweiLogin) = 5 /\ Expected(b) = HuaweiTexts
    BY <1>1 DEF LoginOf, HuaweiLogin, Expected
  <2>2. QED BY <2>1, HuaweiExpects
<1>2. CASE b = "v-sol"
  <2>1. LoginOf(b) = VsolLogin /\ Len(VsolLogin) = 6 /\ Expected(b) = VsolTexts
    BY <1>2 DEF LoginOf, VsolLogin, Expected
  <2>2. QED BY <2>1, VsolExpects
<1>3. CASE b = "c-data"
  <2>1. LoginOf(b) = CdataLogin /\ Len(CdataLogin) = 3 /\ Expected(b) = CdataTexts
    BY <1>3 DEF LoginOf, CdataLogin, Expected
  <2>2. QED BY <2>1, CdataExpects
<1>4. CASE b = "kingtype"
  <2>1. LoginOf(b) = KingtypeLogin /\ Len(KingtypeLogin) = 7 /\ Expected(b) = KingtypeTexts
    BY <1>4 DEF LoginOf, KingtypeLogin, Expected
  <2>2. QED BY <2>1, KingtypeExpects
<1>5. QED BY <1>1, <1>2, <1>3, <1>4 DEF Brands

LEMMA FoundText ==
    ASSUME NEW c, NEW b \in Seq(Texts), Holds(c, b), NEW e \in Ends(c, b)
    PROVE  e \in 1 .. Len(b) /\ Len(b) \in Nat /\ b[e] \in c.in
  BY DEF Holds, Ends

\* What a step that goes on has found.
LEMMA StepFinds ==
    ASSUME TypeOK, StepSucceeds, k > 0
    PROVE  \E e \in 1 .. Len(buffer) :
              /\ buffer[e] \in Expected(Kind)[k]
              /\ buffer' = SubSeq(buffer, e + 1, Len(buffer))
              /\ misled' = (misled \/ buffer[e] = "like")
<1>1. PICK i \in DOMAIN Steps[k].success :
         Matches(i) /\ Steps[k].success[i].continue /\ Consume(i)
  BY DEF StepSucceeds
<1>2. Kind \in Brands /\ k \in 1 .. Len(LoginOf(Kind)) /\ buffer \in Seq(Texts)
  <2>1. Kind \in Brands /\ k \in 0 .. 7 /\ k <= Len(LoginOf(Kind)) /\ buffer \in Seq(Texts)
    BY DEF TypeOK, StepSucceeds, Steps
  <2>2. Len(LoginOf(Kind)) \in 0 .. 7
    BY <2>1, LoginTyped DEF Kinds, Olts
  <2>3. QED BY <2>1, <2>2
<1> DEFINE c == Steps[k].success[i]
<1>3. Holds(c, buffer)
  BY <1>1 DEF Matches
<1>4. PICK e \in Ends(c, buffer) :
         buffer' = SubSeq(buffer, e + 1, Len(buffer)) /\ misled' = (misled \/ buffer[e] = "like")
  BY <1>1 DEF Consume
<1>5. e \in 1 .. Len(buffer) /\ buffer[e] \in c.in
  BY <1>2, <1>3, <1>4, FoundText
<1>6. c.in \subseteq Expected(Kind)[k]
  BY <1>1, <1>2, StepsExpect DEF Lets, Steps
<1>7. QED BY <1>4, <1>5, <1>6

\* The first step looks for what is asked first, and the gate for a prompt.
LEMMA GateExpects ==
    ASSUME NEW b \in Brands
    PROVE  /\ Expected(b)[1] \subseteq Marks
           /\ Expected(b)[Gate[b]] \subseteq OltPrompts \cup {"like"}
                 \cup IF b = "c-data" THEN {"routerPrompt"} ELSE {}
<1>1. CASE b = "huawei"
  BY <1>1 DEF Expected, HuaweiTexts, Gate, Marks, OltPrompts
<1>2. CASE b = "v-sol"
  BY <1>2 DEF Expected, VsolTexts, Gate, Marks, OltPrompts, HashTexts
<1>3. CASE b = "c-data"
  BY <1>3 DEF Expected, CdataTexts, Gate, Marks, OltPrompts, PromptTexts, HashTexts
<1>4. CASE b = "kingtype"
  BY <1>4 DEF Expected, KingtypeTexts, Gate, Marks, OltPrompts, HashTexts
<1>5. QED BY <1>1, <1>2, <1>3, <1>4 DEF Brands

\* An answer of a terminal that has let nobody in keeps the rest outside.
LEMMA AnswerOutside ==
    ASSUME TypeOK, phase = "login", Outside, ~accepted,
           NEW p \in {"router", "key", "user", "password"}, NEW texts \in Seq(Texts),
           Answer(p, texts),
           NoneIn(OltPrompts \cup {"like"}, texts),
           p # "router" => NoneIn({"routerPrompt"}, texts),
           p = "router" => NoneIn(Marks, texts),
           UNCHANGED <<session, service>>
    PROVE  Outside'
<1>1. /\ wire \in Seq(Texts) /\ wire' = wire \o texts /\ place' = p
      /\ UNCHANGED <<buffer, k, todo>> /\ Kind' = Kind
      /\ hungUp' = (hungUp \/ (place # "router" /\ p = "router"))
      /\ hungUp \in BOOLEAN
  BY DEF Answer, TypeOK, session, job, service, Kind
<1>2. /\ Len(wire) \in Nat
      /\ \A i \in 1 .. Len(wire) : wire'[i] = wire[i]
      /\ \A i \in 1 .. Len(wire') : i \in 1 .. Len(wire) \/
            (i > Len(wire) /\ i - Len(wire) \in 1 .. Len(texts) /\ wire'[i] = texts[i - Len(wire)])
  BY <1>1, ConcatElements
<1>3. \A t : Misleads(hungUp', t) => Misleads(hungUp, t)
  BY <1>1 DEF Misleads
<1>4. ASSUME NEW i \in 1 .. Len(wire'), i \notin 1 .. Len(wire), Misleads(hungUp', wire'[i])
      PROVE  place = "router" /\ ~hungUp /\ p = "router"
  <2>1. wire'[i] # "like"
    BY <1>2, <1>4 DEF NoneIn
  <2>2. wire'[i] = "routerPrompt" /\ ~hungUp'
    BY <1>4, <2>1 DEF Misleads
  <2>3. p = "router"
    BY <1>2, <1>4, <2>2 DEF NoneIn
  <2>4. QED BY <1>1, <2>2, <2>3
<1>5. NoneIn(OltPrompts, wire)'
  <2>1. NoneIn(OltPrompts, wire) /\ NoneIn(OltPrompts, texts)
    BY DEF Outside, NoneIn
  <2>2. QED BY <1>2, <2>1 DEF NoneIn
<1>6. CASE k > 1
  <2>1. NothingMisleads
    BY <1>6 DEF Outside, TypeOK
  <2>2. \A i \in 1 .. Len(wire') : ~Misleads(hungUp', wire'[i])
    BY <1>2, <1>3, <1>4, <2>1 DEF NothingMisleads
  <2>3. NothingMisleads'
    BY <1>1, <1>3, <2>1, <2>2 DEF NothingMisleads
  <2>4. QED BY <1>1, <1>5, <1>6, <2>3 DEF Outside, TypeOK, NoneIn
<1>7. CASE k <= 1
  <2>1. MisleadsFirst
    BY <1>7 DEF Outside
  <2>2. p = "router" => \A i \in 1 .. Len(wire') : i \in 1 .. Len(wire) \/ wire'[i] \notin Marks
    BY <1>2 DEF NoneIn
  <2>3. ASSUME NEW i \in 1 .. Len(buffer'), NEW j \in 1 .. Len(buffer'),
               i < j, buffer'[i] \in Marks
        PROVE  ~Misleads(hungUp', buffer'[j])
    BY <1>1, <1>3, <2>1, <2>3 DEF MisleadsFirst
  <2>4. ASSUME NEW i \in 1 .. Len(buffer'), NEW j \in 1 .. Len(wire'), buffer'[i] \in Marks
        PROVE  ~Misleads(hungUp', wire'[j])
    <3>1. CASE j \in 1 .. Len(wire)
      BY <1>1, <1>2, <1>3, <2>1, <2>4, <3>1 DEF MisleadsFirst
    <3>2. CASE j \notin 1 .. Len(wire)
      BY <1>1, <1>4, <2>1, <2>4, <3>2 DEF MisleadsFirst, NoneIn
    <3>3. QED BY <3>1, <3>2
  <2>5. ASSUME NEW i \in 1 .. Len(wire'), NEW j \in 1 .. Len(wire'), i < j, wire'[i] \in Marks
        PROVE  ~Misleads(hungUp', wire'[j])
    <3>1. CASE j \in 1 .. Len(wire)
      <4>1. i \in 1 .. Len(wire)
        BY <1>2, <2>5, <3>1
      <4>2. QED BY <1>2, <1>3, <2>1, <2>5, <3>1, <4>1 DEF MisleadsFirst
    <3>2. CASE j \notin 1 .. Len(wire)
      <4>1. ASSUME Misleads(hungUp', wire'[j]) PROVE FALSE
        <5>1. place = "router" /\ ~hungUp /\ p = "router"
          BY <1>4, <3>2, <4>1
        <5>2. NoneIn(Marks, wire)
          BY <2>1, <5>1 DEF MisleadsFirst
        <5>3. QED BY <1>2, <2>2, <2>5, <5>1, <5>2 DEF NoneIn
      <4>2. QED BY <4>1
    <3>3. QED BY <3>1, <3>2
  <2>6. ASSUME place' = "router", ~hungUp'
        PROVE  NoneIn(Marks, buffer)' /\ NoneIn(Marks, wire)'
    <3>1. p = "router" /\ place = "router" /\ ~hungUp
      BY <1>1, <2>6
    <3>2. NoneIn(Marks, buffer) /\ NoneIn(Marks, wire)
      BY <2>1, <3>1 DEF MisleadsFirst
    <3>3. QED BY <1>1, <1>2, <2>2, <3>1, <3>2 DEF NoneIn
  <2>7. MisleadsFirst'
    BY <2>3, <2>4, <2>5, <2>6 DEF MisleadsFirst
  <2>8. QED BY <1>1, <1>5, <1>7, <2>7 DEF Outside, NoneIn
<1>8. QED BY <1>6, <1>7 DEF TypeOK

LEMMA OneText ==
    ASSUME NEW a \in Texts
    PROVE  <<a>> \in Seq(Texts) /\ Len(<<a>>) = 1 /\ <<a>>[1] = a
  OBVIOUS

LEMMA TwoTexts ==
    ASSUME NEW a \in Texts, NEW b \in Texts
    PROVE  /\ Append(<<a>>, b) \in Seq(Texts) /\ Len(Append(<<a>>, b)) = 2
           /\ Append(<<a>>, b)[1] = a /\ Append(<<a>>, b)[2] = b
           /\ <<a, b>> \in Seq(Texts) /\ Len(<<a, b>>) = 2
           /\ <<a, b>>[1] = a /\ <<a, b>>[2] = b
<1>1. /\ <<a, b>> \in Seq(Texts) /\ Len(<<a, b>>) = 2
      /\ <<a, b>>[1] = a /\ <<a, b>>[2] = b
  OBVIOUS
<1> DEFINE s == <<a>>
<1>2. s \in Seq(Texts) /\ Len(s) = 1 /\ s[1] = a
  BY OneText
<1> HIDE DEF s
<1>3. /\ Append(s, b) \in Seq(Texts) /\ Len(Append(s, b)) = Len(s) + 1
      /\ Append(s, b)[Len(s) + 1] = b /\ \A i \in 1 .. Len(s) : Append(s, b)[i] = s[i]
  BY <1>2
<1>4. /\ Append(s, b) \in Seq(Texts) /\ Len(Append(s, b)) = 2
      /\ Append(s, b)[1] = a /\ Append(s, b)[2] = b
  BY <1>2, <1>3
<1>5. QED BY <1>1, <1>4 DEF s

\* What is read before the password is accepted.
LEMMA ReadsOutside ==
    ASSUME TypeOK, LetIn, Reads, ~accepted' PROVE Outside'
<1>1. phase = "login" /\ UNCHANGED <<session, service>> /\ ~accepted /\ Outside
  <2>1. ~accepted
    BY DEF Reads, LoginReads, TypeOK
  <2>2. QED BY <2>1 DEF Reads, LetIn
<1>2. ASSUME NEW p \in {"router", "key", "user", "password"}, NEW a \in Texts, Answer(p, <<a>>),
             a \notin OltPrompts \cup {"like"},
             p # "router" => a # "routerPrompt", p = "router" => a \notin Marks
      PROVE  Outside'
  <2>1. <<a>> \in Seq(Texts) /\ \A i \in 1 .. Len(<<a>>) : <<a>>[i] = a
    BY OneText
  <2>2. \A S : a \notin S => NoneIn(S, <<a>>)
    BY <2>1 DEF NoneIn
  <2>3. NoneIn(OltPrompts \cup {"like"}, <<a>>)
    BY <1>2, <2>2
  <2>4. p # "router" => NoneIn({"routerPrompt"}, <<a>>)
    BY <1>2, <2>2
  <2>5. p = "router" => NoneIn(Marks, <<a>>)
    BY <1>2, <2>2
  <2>6. QED BY <1>1, <1>2, <2>1, <2>3, <2>4, <2>5, AnswerOutside
<1>3. ASSUME NEW p \in {"router", "user"}, NEW a \in {"reset", "refused", "locked", "rejected", "expired"},
             NEW b \in Texts, NEW texts \in Seq(Texts), Answer(p, texts),
             Len(texts) = 2, texts[1] = a, texts[2] = b,
             b = IF p = "router" THEN "routerPrompt" ELSE "askUser"
      PROVE  Outside'
  <2>1. \A i \in 1 .. Len(texts) : texts[i] \in {a, b}
    <3>1. \A i \in 1 .. 2 : i = 1 \/ i = 2
      OBVIOUS
    <3>2. QED BY <1>3, <3>1
  <2>2. \A S : a \notin S /\ b \notin S => NoneIn(S, texts)
    BY <2>1 DEF NoneIn
  <2>3. a \notin OltPrompts \cup {"like"} /\ b \notin OltPrompts \cup {"like"}
    BY <1>3 DEF OltPrompts
  <2>4. p # "router" => a \notin {"routerPrompt"} /\ b \notin {"routerPrompt"}
    BY <1>3
  <2>5. p = "router" => a \notin Marks /\ b \notin Marks
    BY <1>3 DEF Marks
  <2>6. /\ NoneIn(OltPrompts \cup {"like"}, texts)
        /\ p # "router" => NoneIn({"routerPrompt"}, texts)
        /\ p = "router" => NoneIn(Marks, texts)
    BY <2>2, <2>3, <2>4, <2>5
  <2>7. QED BY <1>1, <1>3, <2>1, <2>6, AnswerOutside
<1>4. {"routerPrompt", "askUser", "askKey", "askPassword"} \subseteq Texts
  BY DEF Texts
<1>5. ASSUME NEW a \in {"locked", "rejected", "expired"}, Refuse(<<a>>) PROVE Outside'
  <2>1. a \in Texts
    BY DEF Texts
  <2>2. CASE Answer("user", Append(<<a>>, "askUser"))
    <3>1. /\ Append(<<a>>, "askUser") \in Seq(Texts) /\ Len(Append(<<a>>, "askUser")) = 2
          /\ Append(<<a>>, "askUser")[1] = a /\ Append(<<a>>, "askUser")[2] = "askUser"
      BY <1>4, <2>1, TwoTexts
    <3>2. QED BY <1>3, <1>4, <2>2, <3>1
  <2>3. CASE Answer("router", Append(<<a>>, "routerPrompt"))
    <3>1. /\ Append(<<a>>, "routerPrompt") \in Seq(Texts) /\ Len(Append(<<a>>, "routerPrompt")) = 2
          /\ Append(<<a>>, "routerPrompt")[1] = a /\ Append(<<a>>, "routerPrompt")[2] = "routerPrompt"
      BY <1>4, <2>1, TwoTexts
    <3>2. QED BY <1>3, <1>4, <2>3, <3>1
  <2>4. QED BY <1>5, <2>2, <2>3 DEF Refuse
<1>6. CASE RouterReads(Head(inputs))
  <2>1. CASE Answer("key", <<"askKey">>) \/ Answer("user", <<"askUser">>)
    BY <1>2, <1>4, <2>1 DEF OltPrompts
  <2>2. CASE Answer("router", <<"routerPrompt">>)
    BY <1>2, <1>4, <2>2 DEF OltPrompts, Marks
  <2>3. ASSUME NEW why \in {"reset", "refused", "locked"}, Answer("router", <<why, "routerPrompt">>)
        PROVE  Outside'
    <3>0. why \in Texts
      BY DEF Texts
    <3>1. /\ <<why, "routerPrompt">> \in Seq(Texts) /\ Len(<<why, "routerPrompt">>) = 2
          /\ <<why, "routerPrompt">>[1] = why /\ <<why, "routerPrompt">>[2] = "routerPrompt"
      BY <1>4, <3>0, TwoTexts
    <3>2. QED BY <1>3, <1>4, <2>3, <3>1
  <2>4. QED BY <1>6, <2>1, <2>2, <2>3 DEF RouterReads
<1>7. CASE LoginReads(Head(inputs))
  <2>1. CASE Answer("user", <<"askUser">>)
    BY <1>2, <1>4, <2>1 DEF OltPrompts
  <2>2. CASE Answer("password", <<"askPassword">>)
    BY <1>2, <1>4, <2>2 DEF OltPrompts
  <2>3. CASE Refuse(<<"locked">>) \/ \E why \in {"rejected", "locked", "expired"} : Refuse(<<why>>)
    BY <1>5, <2>3
  <2>4. QED BY <1>7, <2>1, <2>2, <2>3 DEF LoginReads
<1>8. ~CliReads(Head(inputs))
  BY <1>1 DEF CliReads, Outside
<1>9. QED BY <1>6, <1>7, <1>8 DEF Reads

LEMMA HangUpOutside ==
    ASSUME TypeOK, LetIn, HangUp, ~accepted' PROVE Outside'
<1>1. /\ phase = "login" /\ ~accepted /\ Outside /\ UNCHANGED <<session, service>>
      /\ Answer("router", <<"routerPrompt">>)
  BY DEF HangUp, LetIn
<1>2. "routerPrompt" \in Texts
  BY DEF Texts
<1>3. <<"routerPrompt">> \in Seq(Texts) /\ Len(<<"routerPrompt">>) = 1
      /\ <<"routerPrompt">>[1] = "routerPrompt"
  BY <1>2, OneText
<1>4. /\ NoneIn(OltPrompts \cup {"like"}, <<"routerPrompt">>)
      /\ NoneIn(Marks, <<"routerPrompt">>)
  BY <1>3 DEF NoneIn, OltPrompts, Marks
<1>5. QED BY <1>1, <1>3, <1>4, AnswerOutside

LEMMA GatePlace ==
    ASSUME NEW b \in Brands
    PROVE  /\ Gate[b] \in {3, 5} /\ Len(LoginOf(b)) \in Nat /\ Gate[b] <= Len(LoginOf(b))
           /\ b = "c-data" => Gate[b] = Len(LoginOf(b))
<1>1. Len(HuaweiLogin) = 5 /\ Len(VsolLogin) = 6 /\ Len(CdataLogin) = 3 /\ Len(KingtypeLogin) = 7
  BY DEF HuaweiLogin, VsolLogin, CdataLogin, KingtypeLogin
<1>2. CASE b = "huawei"
  <2>1. Gate[b] = 3
    BY <1>2 DEF Gate
  <2>2. LoginOf(b) = HuaweiLogin
    BY <1>2 DEF LoginOf
  <2>3. QED BY <1>1, <1>2, <2>1, <2>2
<1>3. CASE b = "v-sol"
  <2>1. Gate[b] = 5
    BY <1>3 DEF Gate
  <2>2. LoginOf(b) = VsolLogin
    BY <1>3 DEF LoginOf
  <2>3. Len(LoginOf(b)) = 6 /\ b # "c-data"
    BY <1>1, <1>3, <2>2
  <2>4. QED BY <2>1, <2>3
<1>4. CASE b = "c-data"
  <2>1. Gate[b] = 3
    BY <1>4 DEF Gate
  <2>2. LoginOf(b) = CdataLogin
    BY <1>4 DEF LoginOf
  <2>3. QED BY <1>1, <1>4, <2>1, <2>2, SMTT(30)
<1>5. CASE b = "kingtype"
  <2>1. Gate[b] = 5
    BY <1>5 DEF Gate
  <2>2. LoginOf(b) = KingtypeLogin
    BY <1>5 DEF LoginOf
  <2>3. Len(LoginOf(b)) = 7 /\ b # "c-data"
    BY <1>1, <1>5, <2>2
  <2>4. QED BY <2>1, <2>3
<1>6. QED BY <1>2, <1>3, <1>4, <1>5 DEF Brands

\* A step that goes on before the password is accepted is not the gate, or the
\* gate is C-Data's and the OLT has hung up.
LEMMA StepOutside ==
    ASSUME TypeOK, LetIn, StepSucceeds, ~accepted
    PROVE  /\ phase' = "login" => Outside'
           /\ phase' = "work" => Kind = "c-data" /\ hungUp
<1>1. /\ phase = "login" /\ sent /\ Outside /\ Kind \in Brands
      /\ k \in 0 .. 7 /\ buffer \in Seq(Texts) /\ hungUp \in BOOLEAN
  BY DEF StepSucceeds, LetIn, TypeOK
<1>2. PICK e \in 1 .. Len(buffer) :
         buffer[e] \in Expected(Kind)[k] /\ buffer' = SubSeq(buffer, e + 1, Len(buffer))
  <2>1. k > 0
    BY <1>1 DEF LetIn
  <2>2. QED BY <2>1, StepFinds
<1>3. e \in 1 .. Len(buffer) /\ Len(buffer) \in Nat
  BY <1>1, <1>2
<1>4. Len(buffer') = Len(buffer) - e /\ \A j \in 1 .. Len(buffer') :
         buffer'[j] = buffer[e + j] /\ e + j \in 1 .. Len(buffer) /\ e < e + j
  BY <1>1, <1>2, <1>3
<1>5. /\ UNCHANGED <<place, wire, hungUp, todo>> /\ Kind' = Kind
      /\ IF k = Len(Steps) THEN phase' = "work" /\ k' = k ELSE k' = k + 1 /\ phase' = phase
  BY DEF StepSucceeds, job, terminal, Kind
<1>6. \A t : Misleads(hungUp', t) = Misleads(hungUp, t)
  BY <1>5 DEF Misleads
<1>7. NoneIn(OltPrompts, buffer)' /\ NoneIn(OltPrompts, wire)'
  BY <1>1, <1>4, <1>5 DEF Outside, NoneIn
<1>8. k \in 1 .. 7 /\ k <= Gate[Kind]
  BY <1>1 DEF LetIn, Outside
<1>9. /\ Gate[Kind] \in {3, 5} /\ Len(Steps) \in Nat /\ Gate[Kind] <= Len(Steps)
      /\ Kind = "c-data" => Gate[Kind] = Len(Steps)
  BY <1>1, GatePlace DEF Steps
<1>10. CASE k = Gate[Kind]
  <2>1. buffer[e] \in OltPrompts \cup {"like"} \/ (Kind = "c-data" /\ buffer[e] = "routerPrompt")
    <3>1. buffer[e] \in Expected(Kind)[Gate[Kind]]
      BY <1>2, <1>10
    <3>2. CASE Kind = "c-data"
      BY <1>1, <3>1, <3>2, GateExpects
    <3>3. CASE Kind # "c-data"
      BY <1>1, <3>1, <3>3, GateExpects
    <3>4. QED BY <3>2, <3>3
  <2>2. buffer[e] \notin OltPrompts /\ ~Misleads(hungUp, buffer[e])
    <3>1. NoneIn(OltPrompts, buffer)
      BY <1>1 DEF Outside
    <3>2. ~(k <= 1)
      BY <1>9, <1>10
    <3>3. NothingMisleads
      BY <1>1, <3>2 DEF Outside
    <3>4. QED BY <1>2, <3>1, <3>3 DEF NoneIn, NothingMisleads
  <2>3. Kind = "c-data" /\ hungUp
    BY <2>1, <2>2 DEF Misleads
  <2>4. phase' = "work"
    BY <1>5, <1>9, <1>10, <2>3
  <2>5. QED BY <2>3, <2>4
<1>11. CASE k # Gate[Kind]
  <2>1. k < Gate[Kind] /\ k # Len(Steps)
    BY <1>8, <1>9, <1>11
  <2>2. k' = k + 1 /\ phase' = "login" /\ k' > 1 /\ k' <= Gate[Kind] /\ ~(k' <= 1)
    BY <1>1, <1>5, <1>8, <1>9, <2>1
  <2>3. NothingMisleads'
    <3>1. CASE k = 1
      <4>1. buffer[e] \in Marks
        BY <1>1, <1>2, <3>1, GateExpects
      <4>2. MisleadsFirst
        BY <1>1, <3>1 DEF Outside
      <4>3. \A j \in 1 .. Len(buffer') : ~Misleads(hungUp, buffer'[j])
        BY <1>3, <1>4, <4>1, <4>2 DEF MisleadsFirst
      <4>4. \A j \in 1 .. Len(wire) : ~Misleads(hungUp, wire[j])
        BY <1>3, <4>1, <4>2 DEF MisleadsFirst
      <4>5. place = "router" => hungUp
        BY <1>3, <4>1, <4>2 DEF MisleadsFirst, NoneIn
      <4>6. QED BY <1>5, <1>6, <4>3, <4>4, <4>5 DEF NothingMisleads
    <3>2. CASE k # 1
      <4>1. NothingMisleads
        BY <1>1, <1>8, <3>2 DEF Outside
      <4>2. QED BY <1>4, <1>5, <1>6, <4>1 DEF NothingMisleads
    <3>3. QED BY <3>1, <3>2
  <2>4. Outside'
    BY <1>1, <1>5, <1>7, <2>2, <2>3 DEF Outside
  <2>5. QED BY <2>2, <2>4
<1>12. QED BY <1>10, <1>11

\* What arrives is next in the stream.
LEMMA ArriveOutside ==
    ASSUME TypeOK, phase = "login", Outside, Arrive PROVE Outside'
<1>1. /\ wire \in Seq(Texts) /\ buffer \in Seq(Texts) /\ wire # <<>>
      /\ UNCHANGED <<place, k, hungUp>> /\ Kind' = Kind
  BY DEF Arrive, TypeOK, session, job, Kind
<1>2. /\ Len(wire) \in Nat \ {0} /\ Len(wire') = Len(wire) - 1
      /\ \A i \in 1 .. Len(wire') : wire'[i] = wire[i + 1] /\ i + 1 \in 1 .. Len(wire)
      /\ 1 \in 1 .. Len(wire) /\ Head(wire) = wire[1]
  BY <1>1 DEF Arrive
<1>3. /\ Len(buffer) \in Nat /\ Len(buffer') = Len(buffer) + 1
      /\ \A i \in 1 .. Len(buffer) : buffer'[i] = buffer[i]
      /\ buffer'[Len(buffer) + 1] = wire[1]
      /\ \A i \in 1 .. Len(buffer') : i \in 1 .. Len(buffer) \/ i = Len(buffer) + 1
  BY <1>1, <1>2 DEF Arrive
<1>4. \A t : Misleads(hungUp', t) = Misleads(hungUp, t)
  BY <1>1 DEF Misleads
<1>5. \A S : NoneIn(S, buffer) /\ NoneIn(S, wire) => NoneIn(S, buffer') /\ NoneIn(S, wire')
  BY <1>2, <1>3 DEF NoneIn
<1>6. CASE k <= 1
  <2>1. MisleadsFirst
    BY <1>6 DEF Outside
  <2>2. ASSUME NEW i \in 1 .. Len(buffer'), NEW j \in 1 .. Len(buffer'),
               i < j, buffer'[i] \in Marks
        PROVE  ~Misleads(hungUp, buffer'[j])
    <3>1. i \in 1 .. Len(buffer)
      BY <1>3, <2>2
    <3>2. QED BY <1>2, <1>3, <2>1, <2>2, <3>1 DEF MisleadsFirst
  <2>3. ASSUME NEW i \in 1 .. Len(buffer'), NEW j \in 1 .. Len(wire'), buffer'[i] \in Marks
        PROVE  ~Misleads(hungUp, wire'[j])
    BY <1>2, <1>3, <2>1, <2>3, SMTT(30) DEF MisleadsFirst
  <2>4. ASSUME NEW i \in 1 .. Len(wire'), NEW j \in 1 .. Len(wire'), i < j, wire'[i] \in Marks
        PROVE  ~Misleads(hungUp, wire'[j])
    BY <1>2, <2>1, <2>4, SMTT(30) DEF MisleadsFirst
  <2>5. place = "router" /\ ~hungUp => NoneIn(Marks, buffer') /\ NoneIn(Marks, wire')
    BY <1>5, <2>1 DEF MisleadsFirst
  <2>6. MisleadsFirst'
    BY <1>1, <1>4, <2>2, <2>3, <2>4, <2>5 DEF MisleadsFirst, NoneIn
  <2>7. QED BY <1>1, <1>5, <1>6, <2>6 DEF Outside, NoneIn
<1>7. CASE ~(k <= 1)
  <2>1. NothingMisleads
    BY <1>7 DEF Outside
  <2>2. NothingMisleads'
    BY <1>1, <1>2, <1>3, <1>4, <2>1 DEF NothingMisleads
  <2>3. QED BY <1>1, <1>5, <1>7, <2>2 DEF Outside, NoneIn
<1>8. QED BY <1>6, <1>7

LEMMA CloseLetIn ==
    ASSUME TypeOK, LetIn, NEW success \in BOOLEAN, EndSession(success),
           success => phase = "work" \/ Kind \notin Olts
    PROVE  LetIn'
<1>1. phase' \in {"connect", "over"}
  BY DEF EndSession
<1>2. place' = "router" /\ buffer' = <<>> /\ ~accepted' /\ ~sent'
  BY DEF EndSession
<1>3. ASSUME ok' PROVE shut' \subseteq {<<"c-data", TRUE>>}
  <2>1. ok /\ success
    BY <1>3 DEF EndSession, TypeOK
  <2>2. CASE Kind \in Olts /\ ~accepted
    <3>1. phase = "work" /\ Kind \in Brands
      BY <2>1, <2>2 DEF TypeOK, Olts, Brands
    <3>2. Kind = "c-data" /\ hungUp
      BY <2>2, <3>1 DEF LetIn
    <3>3. <<Kind, hungUp>> = <<"c-data", TRUE>>
      BY <3>2 DEF TypeOK
    <3>4. QED BY <2>1, <2>2, <3>3 DEF EndSession, LetIn
  <2>3. CASE ~(Kind \in Olts /\ ~accepted)
    BY <2>1, <2>3 DEF EndSession, LetIn
  <2>4. QED BY <2>2, <2>3
<1>4. QED BY <1>1, <1>2, <1>3 DEF LetIn

LEMMA LetInStep == ASSUME TypeOK, LetIn, [Next]_vars PROVE LetIn'
<1>1. CASE Closes
  <2>1. phase # "over" /\ (Kind = "sm" => Kind \in Olts)
    BY <1>1, ClosesDoes DEF Olts
  <2>2. \E success \in BOOLEAN : EndSession(success) /\ (success => phase = "work" \/ Kind \notin Olts)
    BY <1>1 DEF Closes, NoSequence, StepFails, StepTimesOut, WriteFails, Work, Close, Olts, Brands
  <2>3. QED BY <2>2, CloseLetIn
<1>2. CASE Abandons
  BY <1>2, AbandonsDoes, CloseLetIn
<1>3. CASE Connect /\ Kind # "probe"
  <2>1. /\ phase = "connect" /\ phase' = "shell" /\ UNCHANGED <<place, buffer, accepted, sent, ok, shut>>
    BY <1>3 DEF Connect, job, service, terminal
  <2>2. QED BY <2>1 DEF LetIn
<1>4. CASE OpenShell
  <2>1. /\ place' = "router" /\ buffer' = <<>> /\ ~accepted' /\ ~sent' /\ k' = 0
        /\ ok' = ok /\ shut' = shut /\ phase' \in {"prompt", "login"}
        /\ phase' = "login" => Kind' \in Brands
        /\ phase' = "prompt" => Kind' \notin Brands
    BY <1>4 DEF OpenShell, LetIn, TypeOK, job, service, Kind, Brands
  <2>2. /\ Len(buffer') = 0 /\ NoneIn(OltPrompts, wire') /\ NoneIn(Marks, wire')
    <3>1. Len(<<"routerPrompt">>) = 1 /\ Len(<<"like", "routerPrompt">>) = 2
      OBVIOUS
    <3>2. \A i \in 1 .. Len(wire') : wire'[i] \in {"like", "routerPrompt"}
      BY <1>4, <3>1 DEF OpenShell
    <3>3. QED BY <2>1, <3>2 DEF NoneIn, OltPrompts, Marks
  <2>3. MisleadsFirst'
    BY <2>2 DEF MisleadsFirst, NoneIn
  <2>4. phase' = "login" => Outside'
    BY <2>1, <2>2, <2>3, GatePlace DEF Outside, NoneIn
  <2>5. QED BY <2>1, <2>4 DEF LetIn
<1>5. CASE PromptStands
  <2>1. phase' = "work" /\ ok' = ok /\ shut' = shut /\ Kind' = Kind
    BY <1>5 DEF PromptStands, job, Kind
  <2>2. Kind \notin Brands
    BY <1>5 DEF PromptStands, LetIn
  <2>3. QED BY <2>1, <2>2 DEF LetIn
<1>6. CASE Lose
  <2>1. /\ UNCHANGED <<phase, k, sent, buffer, place, accepted, hungUp, ok, shut, todo>>
        /\ Kind' = Kind /\ wire' = <<>> /\ Len(wire') = 0
    BY <1>6 DEF Lose, job, service, Kind
  <2>2. Outside => Outside'
    BY <2>1 DEF Outside, MisleadsFirst, NothingMisleads, NoneIn, Misleads
  <2>3. QED BY <2>1, <2>2 DEF LetIn
<1>7. CASE FirstExpected
  <2>1. /\ UNCHANGED <<phase, sent, buffer, place, wire, accepted, hungUp, ok, shut, todo>>
        /\ Kind' = Kind /\ k = 0 /\ k' = 1 /\ phase = "login" /\ Kind \in Brands
    BY <1>7 DEF FirstExpected, session, job, terminal, Kind, TypeOK
  <2>2. MisleadsFirst => MisleadsFirst'
    BY <2>1 DEF MisleadsFirst, NoneIn
  <2>3. 1 <= Gate[Kind]
    BY <2>1, GatePlace
  <2>4. ASSUME Outside PROVE Outside'
    <3>1. MisleadsFirst'
      BY <2>1, <2>2, <2>4 DEF Outside
    <3>2. (place \in {"router", "key", "user", "password"})'
      BY <2>1, <2>4 DEF Outside
    <3>3. NoneIn(OltPrompts, buffer)' /\ NoneIn(OltPrompts, wire)'
      BY <2>1, <2>4 DEF Outside, NoneIn
    <3>4. k' <= Gate[Kind'] /\ k' <= 1
      BY <2>1, <2>3
    <3>5. QED BY <3>1, <3>2, <3>3, <3>4 DEF Outside
  <2>5. Outside => Outside'
    BY <2>4
  <2>6. phase' = "login" /\ k' > 0 /\ (~accepted' => Outside')
    <3>1. ~accepted => Outside
      BY <2>1 DEF LetIn
    <3>2. QED BY <2>1, <2>5, <3>1
  <2>7. ok' => shut' \subseteq {<<"c-data", TRUE>>}
    BY <2>1 DEF LetIn
  <2>8. QED BY <2>6, <2>7 DEF LetIn
<1>8. CASE Send
  <2>1. /\ UNCHANGED <<phase, k, buffer, place, wire, accepted, hungUp, ok, shut, todo>>
        /\ Kind' = Kind /\ k > 0 /\ phase = "login"
    BY <1>8 DEF Send, session, job, Kind
  <2>2. Outside => Outside'
    BY <2>1 DEF Outside, MisleadsFirst, NothingMisleads, NoneIn, Misleads
  <2>3. QED BY <2>1, <2>2 DEF LetIn
<1>9. CASE StepSucceeds
  <2>1. /\ UNCHANGED <<accepted, hungUp, ok, shut, todo>> /\ Kind' = Kind
        /\ sent' = FALSE /\ phase' \in {"work", "login"}
    BY <1>9 DEF StepSucceeds, job, terminal, Kind
  <2>2. QED BY <1>9, <2>1, StepOutside DEF LetIn
<1>10. CASE Arrive
  <2>1. /\ UNCHANGED <<phase, k, sent, accepted, hungUp, ok, shut, todo>> /\ Kind' = Kind
        /\ phase \in {"prompt", "login"}
    BY <1>10 DEF Arrive, session, job, Kind
  <2>2. phase = "login" /\ Outside => Outside'
    BY <1>10, ArriveOutside
  <2>3. QED BY <2>1, <2>2 DEF LetIn
<1>11. CASE Reads \/ HangUp
  <2>1. /\ UNCHANGED <<phase, k, sent, ok, shut, todo>> /\ Kind' = Kind /\ phase = "login"
    BY <1>11 DEF Reads, HangUp, session, job, service, Kind
  <2>2. ~accepted' => Outside'
    BY <1>11, ReadsOutside, HangUpOutside
  <2>3. QED BY <2>1, <2>2 DEF LetIn
<1>12. CASE UNCHANGED vars
  <2>1. /\ UNCHANGED <<phase, k, sent, buffer, place, wire, accepted, hungUp, ok, shut, todo>>
        /\ Kind' = Kind
    BY <1>12 DEF vars, session, job, service, terminal, Kind
  <2>2. Outside => Outside'
    BY <2>1 DEF Outside, MisleadsFirst, NothingMisleads, NoneIn, Misleads
  <2>3. QED BY <2>1, <2>2 DEF LetIn
<1>13. QED
  BY <1>1, <1>2, <1>3, <1>4, <1>5, <1>6, <1>7, <1>8, <1>9, <1>10, <1>11, <1>12, NextSplit

\* A job of any number of sessions succeeds only if every OLT it was about has let
\* it in, or was a C-Data OLT that hung up (OltConnectionManager over
\* SSHService.runSteps with the tables of LoginSteps).
THEOREM OnlyLetIn == Spec => []SuccessMeansLetIn
<1>1. Init => LetIn
  BY DEF Init, LetIn
<1>2. LetIn => SuccessMeansLetIn
  BY DEF LetIn, SuccessMeansLetIn
<1>3. QED BY <1>1, <1>2, LetInStep, TypeCorrect, PTL DEF Spec

-----------------------------------------------------------------------------
\* Command by command: a terminal is asked one thing at a time, and what it shows
\* when it waits again is the last thing it has said.  So whoever has found it
\* knows where the terminal is, and leaves nothing behind.

\* What a terminal of the OLT shows when it waits.
PromptOf ==
    [key |-> "askKey", user |-> "askUser", password |-> "askPassword",
     cli |-> "userPrompt", enablePassword |-> "askPassword",
     priv |-> "privPrompt", config |-> "configPrompt"]
Prompts == {"askKey", "askUser", "askPassword", "userPrompt", "privPrompt", "configPrompt"}

\* A prompt of the OLT is the last thing it has said, and tells where its terminal is.
Tells ==
    /\ \A i \in 1 .. Len(buffer) : buffer[i] \in Prompts =>
          i = Len(buffer) /\ wire = <<>> /\ place # "router" /\ buffer[i] = PromptOf[place]
    /\ \A i \in 1 .. Len(wire) : wire[i] \in Prompts =>
          i = Len(wire) /\ place # "router" /\ wire[i] = PromptOf[place]

\* The terminal that reads what the first steps of a login type.
Readers(b) == IF b = "kingtype" THEN <<"router", "key", "user", "password">>
                                ELSE <<"router", "user", "password">>
PasswordStep(b) == Len(Readers(b))

\* What the step types has not been read.
Unread == ~sent \/ inputs # <<>>

Before ==
    /\ k <= PasswordStep(Kind)
    /\ Unread => place = IF k = 0 THEN "router" ELSE Readers(Kind)[k]

After ==
    /\ place \in {"cli", "enablePassword", "priv", "config"}
    /\ k = PasswordStep(Kind) => place \in {"cli", "priv"} /\ inputs = <<>>
    /\ Kind = "kingtype" /\ k = 7 => place = "config"
    /\ Len(wire) <= 2 /\ (Len(wire) = 2 => buffer = <<>>)
    /\ wire # <<>> => wire[Len(wire)] = PromptOf[place]

InTurn ==
    /\ Len(inputs) <= 1
    /\ inputs # <<>> => sent /\ inputs[1] = Steps[k].command
    /\ Unread /\ k > 1 => buffer = <<>> /\ wire = <<>>
    /\ k > 1 => NoneIn({"routerPrompt"}, buffer) /\ NoneIn({"routerPrompt"}, wire)
    /\ Tells
    /\ IF accepted THEN After ELSE Before

\* Nothing but the steps after the password is typed once it is accepted.
OnlyCommands ==
    /\ k >= PasswordStep(Kind) /\ (k = PasswordStep(Kind) => sent)
    /\ Kind # "v-sol" => \A i \in 1 .. Len(inputs) : inputs[i] # "password"

Turns ==
    /\ phase \in {"connect", "shell"} => inputs = <<>> /\ ~hungUp /\ ~misled
    /\ phase = "login" /\ misled => accepted
    /\ phase = "login" /\ ~hungUp /\ accepted => OnlyCommands
    /\ phase = "login" /\ ~hungUp /\ ~misled => InTurn
    /\ phase = "work" /\ ~hungUp /\ ~misled => HandsOver

LEMMA ReadersFacts ==
    ASSUME NEW b \in Brands
    PROVE  /\ PasswordStep(b) \in {3, 4} /\ Len(LoginOf(b)) \in 3 .. 7
           /\ PasswordStep(b) <= Len(LoginOf(b))
           /\ b = "kingtype" => PasswordStep(b) = 4 /\ Len(LoginOf(b)) = 7
           /\ \A n \in 1 .. PasswordStep(b) :
                 /\ Readers(b)[n] \in {"router", "key", "user", "password"}
                 /\ Readers(b)[n] = "router" <=> n = 1
                 /\ Readers(b)[n] = "password" <=> n = PasswordStep(b)
<1>1. Len(HuaweiLogin) = 5 /\ Len(VsolLogin) = 6 /\ Len(CdataLogin) = 3 /\ Len(KingtypeLogin) = 7
  BY DEF HuaweiLogin, VsolLogin, CdataLogin, KingtypeLogin
<1>2. CASE b = "kingtype"
  <2>1. Readers(b) = <<"router", "key", "user", "password">> /\ LoginOf(b) = KingtypeLogin
    BY <1>2 DEF Readers, LoginOf
  <2>2. PasswordStep(b) = 4
    BY <2>1 DEF PasswordStep
  <2>3. \A n \in 1 .. 4 : /\ Readers(b)[n] \in {"router", "key", "user", "password"}
                          /\ Readers(b)[n] = "router" <=> n = 1
                          /\ Readers(b)[n] = "password" <=> n = 4
    BY <2>1
  <2>4. QED BY <1>1, <2>1, <2>2, <2>3
<1>3. CASE b # "kingtype"
  <2>1. Readers(b) = <<"router", "user", "password">>
    BY <1>3 DEF Readers
  <2>2. PasswordStep(b) = 3
    BY <2>1 DEF PasswordStep
  <2>3. Len(LoginOf(b)) \in {3, 5, 6}
    BY <1>1, <1>3 DEF LoginOf, Brands
  <2>4. \A n \in 1 .. 3 : /\ Readers(b)[n] \in {"router", "key", "user", "password"}
                          /\ Readers(b)[n] = "router" <=> n = 1
                          /\ Readers(b)[n] = "password" <=> n = 3
    BY <2>1
  <2>5. QED BY <1>3, <2>2, <2>3, <2>4, SMTT(30)
<1>4. QED BY <1>2, <1>3

\* Before the password a step goes on only with what the next one's reader shows.
LEMMA ExpectedBefore ==
    ASSUME NEW b \in Brands, NEW n \in 1 .. PasswordStep(b)
    PROVE  IF n = PasswordStep(b) THEN Expected(b)[n] \subseteq PromptTexts
           ELSE Expected(b)[n] = {PromptOf[Readers(b)[n + 1]]}
<1>0. PromptOf["key"] = "askKey" /\ PromptOf["user"] = "askUser" /\ PromptOf["password"] = "askPassword"
  BY DEF PromptOf
<1>1. CASE b = "kingtype"
  <2>1. Readers(b) = <<"router", "key", "user", "password">>
    BY <1>1 DEF Readers
  <2>2. PasswordStep(b) = 4
    BY <2>1 DEF PasswordStep
  <2>3. /\ Expected(b)[1] = {"askKey"} /\ Expected(b)[2] = {"askUser"}
        /\ Expected(b)[3] = {"askPassword"} /\ Expected(b)[4] = PromptTexts
    BY <1>1 DEF Expected, KingtypeTexts
  <2>4. Readers(b)[2] = "key" /\ Readers(b)[3] = "user" /\ Readers(b)[4] = "password"
    BY <2>1
  <2>5. n \in 1 .. 4
    BY <2>2
  <2>6. CASE n = 4
    BY <2>2, <2>3, <2>6
  <2>7. CASE n # 4
    BY <1>0, <2>2, <2>3, <2>4, <2>5, <2>7
  <2>8. QED BY <2>6, <2>7
<1>2. CASE b # "kingtype"
  <2>1. Readers(b) = <<"router", "user", "password">>
    BY <1>2 DEF Readers
  <2>2. PasswordStep(b) = 3
    BY <2>1 DEF PasswordStep
  <2>3. /\ Expected(b)[1] = {"askUser"} /\ Expected(b)[2] = {"askPassword"}
        /\ Expected(b)[3] \subseteq PromptTexts
    <3>1. CASE b = "huawei"
      BY <3>1 DEF Expected, HuaweiTexts, PromptTexts
    <3>2. CASE b = "v-sol"
      BY <3>2 DEF Expected, VsolTexts
    <3>3. CASE b = "c-data"
      BY <3>3 DEF Expected, CdataTexts
    <3>4. QED BY <1>2, <3>1, <3>2, <3>3 DEF Brands
  <2>4. Readers(b)[2] = "user" /\ Readers(b)[3] = "password"
    BY <2>1
  <2>5. n \in 1 .. 3
    BY <2>2
  <2>6. CASE n = 3
    BY <2>2, <2>3, <2>6
  <2>7. CASE n # 3
    BY <1>0, <2>2, <2>3, <2>4, <2>5, <2>7
  <2>8. QED BY <2>6, <2>7
<1>3. QED BY <1>1, <1>2

\* After it a step goes on with a prompt of the OLT, or with what looks like one;
\* but Kingtype's last with "unknown" too.
LEMMA ExpectedAfter ==
    ASSUME NEW b \in Brands, NEW n \in PasswordStep(b) .. Len(LoginOf(b))
    PROVE  /\ Expected(b)[n] \subseteq PromptTexts \cup {"askPassword"} \cup
                 IF b = "kingtype" /\ n = 7 THEN {"unknown"} ELSE {}
           /\ b = "kingtype" /\ n = 6 => Expected(b)[n] = {"configPrompt"}
           /\ b = "huawei" /\ n = Len(LoginOf(b)) => Expected(b)[n] = {"configPrompt"}
           /\ b = "v-sol" /\ n = Len(LoginOf(b)) => Expected(b)[n] = HashTexts
           /\ b = "c-data" => n = PasswordStep(b) /\ n = Len(LoginOf(b))
<1>0. /\ HashTexts \subseteq PromptTexts /\ OltPrompts \subseteq PromptTexts
      /\ "userPrompt" \in PromptTexts /\ "configPrompt" \in PromptTexts
  BY DEF PromptTexts, HashTexts, OltPrompts
<1>1. CASE b = "kingtype"
  <2>1. LoginOf(b) = KingtypeLogin /\ Len(KingtypeLogin) = 7 /\ Expected(b) = KingtypeTexts
    BY <1>1 DEF LoginOf, KingtypeLogin, Expected
  <2>2. n \in {4, 5, 6, 7}
    <3>1. PasswordStep(b) = 4
      BY <1>1, ReadersFacts
    <3>2. QED BY <2>1, <3>1
  <2>3. /\ KingtypeTexts[4] = PromptTexts /\ KingtypeTexts[5] = HashTexts
        /\ KingtypeTexts[6] = {"configPrompt"} /\ KingtypeTexts[7] = {"configPrompt", "unknown"}
    BY DEF KingtypeTexts
  <2>4. QED BY <1>0, <1>1, <2>1, <2>2, <2>3
<1>2. CASE b = "huawei"
  <2>1. LoginOf(b) = HuaweiLogin /\ Len(HuaweiLogin) = 5 /\ Expected(b) = HuaweiTexts
        /\ PasswordStep(b) = 3
    BY <1>2 DEF LoginOf, HuaweiLogin, Expected, PasswordStep, Readers
  <2>2. n \in {3, 4, 5}
    BY <2>1
  <2>3. /\ HuaweiTexts[3] = {"userPrompt"} /\ HuaweiTexts[4] = OltPrompts
        /\ HuaweiTexts[5] = {"configPrompt"}
    BY DEF HuaweiTexts
  <2>4. QED BY <1>0, <1>2, <2>1, <2>2, <2>3
<1>3. CASE b = "v-sol"
  <2>1. LoginOf(b) = VsolLogin /\ Len(VsolLogin) = 6 /\ Expected(b) = VsolTexts
        /\ PasswordStep(b) = 3
    BY <1>3 DEF LoginOf, VsolLogin, Expected, PasswordStep, Readers
  <2>2. n \in {3, 4, 5, 6}
    BY <2>1
  <2>3. /\ VsolTexts[3] = PromptTexts /\ VsolTexts[4] = HashTexts \cup {"askPassword"}
        /\ VsolTexts[5] = HashTexts /\ VsolTexts[6] = HashTexts
    BY DEF VsolTexts
  <2>4. QED BY <1>0, <1>3, <2>1, <2>2, <2>3
<1>4. CASE b = "c-data"
  <2>1. LoginOf(b) = CdataLogin /\ Len(CdataLogin) = 3 /\ Expected(b) = CdataTexts
        /\ PasswordStep(b) = 3
    BY <1>4 DEF LoginOf, CdataLogin, Expected, PasswordStep, Readers
  <2>2. n = 3
    BY <2>1
  <2>3. CdataTexts[3] = PromptTexts
    BY DEF CdataTexts
  <2>4. QED BY <1>0, <1>4, <2>1, <2>2, <2>3
<1>5. QED BY <1>1, <1>2, <1>3, <1>4 DEF Brands

\* The password is typed once, but for V-Sol.
LEMMA PasswordTyped ==
    ASSUME NEW b \in Brands, NEW n \in 1 .. Len(LoginOf(b)), LoginOf(b)[n].command = "password"
    PROVE  n >= PasswordStep(b) /\ (b # "v-sol" => n = PasswordStep(b))
<1>1. CASE b = "kingtype"
  <2>1. LoginOf(b) = KingtypeLogin /\ Len(KingtypeLogin) = 7 /\ PasswordStep(b) = 4
    BY <1>1, ReadersFacts DEF LoginOf, KingtypeLogin
  <2>2. \A m \in 1 .. 7 : KingtypeLogin[m].command = "password" => m = 4
    BY DEF KingtypeLogin, Step
  <2>3. QED BY <2>1, <2>2
<1>2. CASE b = "huawei"
  <2>1. LoginOf(b) = HuaweiLogin /\ Len(HuaweiLogin) = 5 /\ PasswordStep(b) = 3
    BY <1>2 DEF LoginOf, HuaweiLogin, PasswordStep, Readers
  <2>2. \A m \in 1 .. 5 : HuaweiLogin[m].command = "password" => m = 3
    BY DEF HuaweiLogin, Step
  <2>3. QED BY <2>1, <2>2
<1>3. CASE b = "v-sol"
  <2>1. LoginOf(b) = VsolLogin /\ Len(VsolLogin) = 6 /\ PasswordStep(b) = 3
    BY <1>3 DEF LoginOf, VsolLogin, PasswordStep, Readers
  <2>2. \A m \in 1 .. 6 : VsolLogin[m].command = "password" => m >= 3
    BY DEF VsolLogin, Step
  <2>3. QED BY <1>3, <2>1, <2>2
<1>4. CASE b = "c-data"
  <2>1. LoginOf(b) = CdataLogin /\ Len(CdataLogin) = 3 /\ PasswordStep(b) = 3
    BY <1>4 DEF LoginOf, CdataLogin, PasswordStep, Readers
  <2>2. \A m \in 1 .. 3 : CdataLogin[m].command = "password" => m = 3
    BY DEF CdataLogin, Step
  <2>3. QED BY <2>1, <2>2
<1>5. QED BY <1>1, <1>2, <1>3, <1>4 DEF Brands


\* A terminal answers with its prompt, and at most one text before it.
Speaks(p, texts) ==
    /\ texts \in Seq(Texts) /\ Len(texts) \in {1, 2}
    /\ texts[Len(texts)] = PromptOf[p]
    /\ Len(texts) = 2 => texts[1] \notin Prompts \cup {"routerPrompt"}

LEMMA SpeaksForms ==
    ASSUME NEW p \in DOMAIN PromptOf, NEW t, t = PromptOf[p],
           NEW a \in {"like", "unknown", "rejected", "locked", "expired"}
    PROVE  /\ Speaks(p, <<t>>) /\ Speaks(p, <<a, t>>)
           /\ Speaks(p, Append(<<a>>, t)) /\ Speaks(p, Append(<<>>, t))
<1>1. a \in Texts /\ t \in Texts /\ a \notin Prompts \cup {"routerPrompt"}
  BY DEF Texts, PromptOf, Prompts
<1>2. Speaks(p, <<t>>) /\ Append(<<>>, t) = <<t>>
  BY <1>1, OneText DEF Speaks
<1>3. Speaks(p, <<a, t>>)
  BY <1>1, TwoTexts DEF Speaks
<1>4. Speaks(p, Append(<<a>>, t))
  BY <1>1, TwoTexts DEF Speaks
<1>5. QED BY <1>2, <1>3, <1>4

LEMMA PromptFacts ==
    ASSUME NEW p \in DOMAIN PromptOf
    PROVE  /\ DOMAIN PromptOf = Places \ {"router"}
           /\ PromptOf[p] \in Prompts /\ "routerPrompt" \notin Prompts /\ "like" \notin Prompts
           /\ PromptTexts \subseteq Prompts \cup {"like", "routerPrompt"}
           /\ p # "router"
  BY DEF PromptOf, Prompts, Places, PromptTexts, HashTexts

\* An answer of the OLT, while nothing it has shown before is still to be read.
LEMMA Speak ==
    ASSUME TypeOK, NoneIn(Prompts, buffer), NoneIn(Prompts, wire), buffer' = buffer,
           NEW p \in DOMAIN PromptOf, NEW texts, Speaks(p, texts), Answer(p, texts)
    PROVE  /\ Tells' /\ place' = p
           /\ NoneIn({"routerPrompt"}, wire) => NoneIn({"routerPrompt"}, wire)'
           /\ wire = <<>> => wire' = texts
<1>1. /\ place' = p /\ wire' = wire \o texts /\ wire \in Seq(Texts) /\ buffer \in Seq(Texts)
      /\ texts \in Seq(Texts) /\ Len(texts) \in {1, 2}
  BY DEF Answer, Speaks, TypeOK
<1>2. /\ Len(wire) \in Nat /\ Len(wire') = Len(wire) + Len(texts)
      /\ \A i \in 1 .. Len(wire) : wire'[i] = wire[i]
      /\ \A i \in 1 .. Len(wire') : i > Len(wire) => i - Len(wire) \in 1 .. Len(texts)
                                                  /\ wire'[i] = texts[i - Len(wire)]
  BY <1>1, ConcatElements
<1>3. ASSUME NEW i \in 1 .. Len(wire'), i > Len(wire)
      PROVE  IF i = Len(wire') THEN wire'[i] = PromptOf[p]
                               ELSE wire'[i] \notin Prompts \cup {"routerPrompt"}
  <2>1. i - Len(wire) \in 1 .. Len(texts) /\ wire'[i] = texts[i - Len(wire)]
    BY <1>2, <1>3
  <2>2. CASE i = Len(wire')
    <3>1. i - Len(wire) = Len(texts)
      BY <1>1, <1>2, <2>2
    <3>2. QED BY <2>1, <2>2, <3>1 DEF Speaks
  <2>3. CASE i # Len(wire')
    <3>1. i - Len(wire) = 1 /\ Len(texts) = 2
      <4>1. i \in Nat /\ Len(wire) \in Nat /\ i # Len(wire) + Len(texts)
        BY <1>2, <2>3
      <4>2. Len(texts) = 1 => i = Len(wire) + 1
        BY <2>1, <4>1
      <4>3. ASSUME Len(texts) = 1 PROVE FALSE
        BY <4>1, <4>2, <4>3
      <4>4. Len(texts) = 2
        BY <1>1, <4>3
      <4>5. i - Len(wire) \in 1 .. 2 /\ i - Len(wire) # 2
        BY <2>1, <4>1, <4>4
      <4>6. QED BY <4>1, <4>4, <4>5
    <3>2. QED BY <2>1, <2>3, <3>1 DEF Speaks
  <2>4. QED BY <2>2, <2>3
<1>4. ASSUME NEW i \in 1 .. Len(wire'), wire'[i] \in Prompts
      PROVE  i = Len(wire') /\ wire'[i] = PromptOf[p]
  <2>1. i > Len(wire)
    BY <1>2, <1>4 DEF NoneIn
  <2>2. QED BY <1>3, <1>4, <2>1
<1>5. Tells'
  BY <1>1, <1>4, PromptFacts DEF Tells, NoneIn
<1>6. NoneIn({"routerPrompt"}, wire) => NoneIn({"routerPrompt"}, wire)'
  <2>1. ASSUME NoneIn({"routerPrompt"}, wire), NEW i \in 1 .. Len(wire')
        PROVE  wire'[i] # "routerPrompt"
    <3>1. CASE i > Len(wire)
      BY <1>3, <3>1, PromptFacts
    <3>2. CASE ~(i > Len(wire))
      BY <1>2, <2>1, <3>2 DEF NoneIn
    <3>3. QED BY <3>1, <3>2
  <2>2. QED BY <2>1 DEF NoneIn
<1>7. wire = <<>> => wire' = texts
  BY <1>1
<1>8. QED BY <1>1, <1>5, <1>6, <1>7


LEMMA OnlyOne ==
    ASSUME NEW S, NEW s \in Seq(S), s # <<>>, Len(s) <= 1
    PROVE  Len(s) = 1 /\ Tail(s) = <<>> /\ Head(s) = s[1]
<1>1. Len(s) \in Nat /\ Len(s) # 0
  OBVIOUS
<1>2. Len(s) = 1
  BY <1>1
<1>3. Tail(s) \in Seq(S) /\ Len(Tail(s)) = 0 /\ Head(s) = s[1]
  BY <1>2
<1>4. Tail(s) = <<>>
  BY <1>3
<1>5. QED BY <1>2, <1>3, <1>4

\* One turn of the OLT: it reads the one command it has been sent.
LEMMA ReadsInTurn ==
    ASSUME TypeOK, LetIn, Turns, Reads, ~hungUp', ~misled
    PROVE  InTurn'
<1>1. /\ phase = "login" /\ ~hungUp /\ InTurn /\ inputs # <<>> /\ inputs' = Tail(inputs)
      /\ UNCHANGED <<todo, phase, k, sent, buffer>> /\ Kind' = Kind /\ Steps' = Steps
      /\ Kind \in Brands /\ inputs \in Seq(Commands) /\ k \in 0 .. 7 /\ k <= Len(LoginOf(Kind))
  <2>1. Answers
    BY ReadsAnswers DEF Reads
  <2>2. ~hungUp
    BY <2>1 DEF Answers, Answer, TypeOK
  <2>3. /\ phase = "login" /\ inputs # <<>> /\ inputs' = Tail(inputs)
        /\ UNCHANGED <<todo, phase, k, sent, buffer>> /\ Kind' = Kind /\ Steps' = Steps
    BY DEF Reads, session, job, service, Kind, Steps
  <2>4. QED BY <2>2, <2>3 DEF Turns, TypeOK, Steps
<1>2. sent /\ Len(inputs) = 1 /\ inputs' = <<>> /\ Head(inputs) = LoginOf(Kind)[k].command
  <2>1. Len(inputs) <= 1 /\ sent /\ inputs[1] = Steps[k].command
    BY <1>1 DEF InTurn
  <2>2. Len(inputs) = 1 /\ Tail(inputs) = <<>> /\ Head(inputs) = inputs[1]
    BY <1>1, <2>1, OnlyOne
  <2>3. QED BY <1>1, <2>1, <2>2 DEF Steps
<1>3. k \in 1 .. Len(LoginOf(Kind))
  BY <1>1, <1>2, ReadersFacts DEF LetIn
<1>4. ~Unread' /\ Unread
  BY <1>1, <1>2 DEF Unread
<1>5. k > 1 => buffer = <<>> /\ wire = <<>>
  <2>1. Unread /\ k > 1 => buffer = <<>> /\ wire = <<>>
    BY <1>1, Zenon DEF InTurn
  <2>2. QED BY <1>4, <2>1
<1>6. Tells /\ (k > 1 => NoneIn({"routerPrompt"}, buffer) /\ NoneIn({"routerPrompt"}, wire))
  BY <1>1 DEF InTurn
<1>7. k = 1 /\ place = "router" => NoneIn(Prompts, buffer) /\ NoneIn(Prompts, wire)
  BY <1>6 DEF Tells, NoneIn
<1>8. k > 1 => NoneIn(Prompts, buffer) /\ NoneIn(Prompts, wire)
  BY <1>5 DEF NoneIn
<1>9. SUFFICES ASSUME NoneIn(Prompts, buffer), NoneIn(Prompts, wire)
               PROVE  InTurn'
  <2>1. accepted => k > 1
    BY <1>1, <1>3, ReadersFacts DEF Turns, OnlyCommands
  <2>2. ~accepted /\ k = 1 => place = "router"
    BY <1>1, <1>3, <1>4, ReadersFacts DEF InTurn, Before
  <2>3. QED BY <1>3, <1>7, <1>8, <2>1, <2>2
\* Everything but where the terminal is.
<1>10. ASSUME NEW p \in DOMAIN PromptOf, NEW texts, Speaks(p, texts), Answer(p, texts),
              IF accepted' THEN After' ELSE Before'
       PROVE  InTurn'
  <2>1. Tells' /\ (NoneIn({"routerPrompt"}, wire) => NoneIn({"routerPrompt"}, wire)')
    BY <1>1, <1>9, <1>10, Speak
  <2>2. (k > 1 => NoneIn({"routerPrompt"}, buffer) /\ NoneIn({"routerPrompt"}, wire))'
    BY <1>1, <1>6, <2>1 DEF NoneIn
  <2>3. Len(inputs') = 0
    BY <1>2
  <2>4. QED BY <1>2, <1>4, <1>10, <2>1, <2>2, <2>3 DEF InTurn
<1>11. CASE accepted
  <2>1. k > 1 /\ k # PasswordStep(Kind) /\ place \in {"cli", "enablePassword", "priv", "config"}
        /\ (Kind = "kingtype" /\ k = 7 => place = "config")
    BY <1>1, <1>3, <1>11, ReadersFacts DEF Turns, OnlyCommands, InTurn, After
  <2>2. CliReads(Head(inputs)) /\ accepted'
    BY <1>11, <2>1 DEF Reads, LoginReads
  <2>3. ASSUME NEW p \in {"cli", "enablePassword", "priv", "config"}, NEW texts,
               Speaks(p, texts), Answer(p, texts), place = "config" => p = "config"
        PROVE  InTurn'
    <3>1. p \in DOMAIN PromptOf
      BY DEF PromptOf
    <3>2. place' = p /\ wire' = texts
      BY <1>1, <1>5, <1>9, <2>1, <2>3, <3>1, Speak
    <3>3. After'
      BY <1>1, <1>5, <2>1, <2>3, <3>2 DEF After, Speaks
    <3>4. QED BY <1>10, <2>2, <2>3, <3>1, <3>3
  <2>4. /\ PromptOf["cli"] = "userPrompt" /\ PromptOf["priv"] = "privPrompt"
        /\ PromptOf["config"] = "configPrompt" /\ PromptOf["enablePassword"] = "askPassword"
        /\ {"cli", "enablePassword", "priv", "config"} \subseteq DOMAIN PromptOf
    BY DEF PromptOf
  <2>5. CASE place = "cli"
    <3>1. \/ Answer("cli", <<"unknown", "userPrompt">>)
          \/ Answer("priv", <<"privPrompt">>) \/ Answer("enablePassword", <<"askPassword">>)
      BY <2>2, <2>5 DEF CliReads, Unknown
    <3>2. /\ Speaks("cli", <<"unknown", "userPrompt">>) /\ Speaks("priv", <<"privPrompt">>)
          /\ Speaks("enablePassword", <<"askPassword">>)
      BY <2>4, SpeaksForms
    <3>3. QED BY <2>3, <2>5, <3>1, <3>2
  <2>6. CASE place = "enablePassword"
    <3>1. Answer("priv", <<"privPrompt">>) \/ Answer("cli", <<"rejected", "userPrompt">>)
      BY <2>2, <2>6 DEF CliReads
    <3>2. Speaks("priv", <<"privPrompt">>) /\ Speaks("cli", <<"rejected", "userPrompt">>)
      BY <2>4, SpeaksForms
    <3>3. QED BY <2>3, <2>6, <3>1, <3>2
  <2>7. CASE place = "priv"
    <3>1. \/ Answer("priv", <<"unknown", "privPrompt">>) \/ Answer("priv", <<"privPrompt">>)
          \/ Answer("config", <<"configPrompt">>)
      BY <2>2, <2>7 DEF CliReads, Unknown
    <3>2. /\ Speaks("priv", <<"unknown", "privPrompt">>) /\ Speaks("priv", <<"privPrompt">>)
          /\ Speaks("config", <<"configPrompt">>)
      BY <2>4, SpeaksForms
    <3>3. QED BY <2>3, <2>7, <3>1, <3>2
  <2>8. CASE place = "config"
    <3>1. Answer("config", <<"unknown", "configPrompt">>) \/ Answer("config", <<"configPrompt">>)
      BY <2>2, <2>8 DEF CliReads, Unknown
    <3>2. Speaks("config", <<"unknown", "configPrompt">>) /\ Speaks("config", <<"configPrompt">>)
      BY <2>4, SpeaksForms
    <3>3. QED BY <2>3, <2>8, <3>1, <3>2
  <2>9. QED BY <2>1, <2>5, <2>6, <2>7, <2>8
<1>12. CASE ~accepted
  <2>1. k <= PasswordStep(Kind) /\ place = Readers(Kind)[k]
    BY <1>1, <1>3, <1>4, <1>12 DEF InTurn, Before
  <2>2. /\ place \in {"router", "key", "user", "password"}
        /\ place = "router" <=> k = 1
        /\ place = "password" <=> k = PasswordStep(Kind)
    BY <1>1, <1>3, <2>1, ReadersFacts
  <2>3. ~accepted' => Before'
    BY <1>1, <1>4, <2>1 DEF Before
  <2>4. ASSUME NEW p \in DOMAIN PromptOf, NEW texts, Speaks(p, texts), Answer(p, texts), ~accepted'
        PROVE  InTurn'
    BY <1>10, <2>3, <2>4
  <2>5. /\ PromptOf["key"] = "askKey" /\ PromptOf["user"] = "askUser"
        /\ PromptOf["password"] = "askPassword" /\ PromptOf["cli"] = "userPrompt"
        /\ PromptOf["priv"] = "privPrompt"
        /\ {"key", "user", "password", "cli", "priv"} \subseteq DOMAIN PromptOf
    BY DEF PromptOf
  <2>6. CASE place = "router" /\ RouterReads(Head(inputs)) /\ UNCHANGED accepted
    <3>1. CASE Answer("key", <<"askKey">>) \/ Answer("user", <<"askUser">>)
      <4>1. Speaks("key", <<"askKey">>) /\ Speaks("user", <<"askUser">>)
        BY <2>5, SpeaksForms
      <4>2. QED BY <1>12, <2>4, <2>5, <2>6, <3>1, <4>1
    <3>2. ASSUME NEW texts \in Seq(Texts), NoneIn(Prompts, texts), Answer("router", texts)
          PROVE  InTurn'
      <4>1. /\ wire' = wire \o texts /\ place' = "router" /\ wire \in Seq(Texts) /\ k = 1 /\ ~accepted'
        BY <1>12, <2>2, <2>6, <3>2 DEF Answer, TypeOK
      <4>2. \A i \in 1 .. Len(wire') :
               \/ i \in 1 .. Len(wire) /\ wire'[i] = wire[i]
               \/ i - Len(wire) \in 1 .. Len(texts) /\ wire'[i] = texts[i - Len(wire)]
        BY <4>1, ConcatElements
      <4>3. Tells'
        BY <1>1, <1>9, <3>2, <4>1, <4>2 DEF Tells, NoneIn
      <4>4. Len(inputs') = 0
        BY <1>2
      <4>5. k' = 1 /\ inputs' = <<>> /\ Before'
        BY <1>1, <1>2, <2>3, <4>1
      <4>6. QED BY <4>1, <4>3, <4>4, <4>5 DEF InTurn
    <3>3. ASSUME NEW why \in {"reset", "refused", "locked"}, Answer("router", <<why, "routerPrompt">>)
          PROVE  InTurn'
      <4>1. why \in Texts /\ "routerPrompt" \in Texts /\ why \notin Prompts /\ "routerPrompt" \notin Prompts
        BY DEF Texts, Prompts
      <4>2. <<why, "routerPrompt">> \in Seq(Texts) /\ NoneIn(Prompts, <<why, "routerPrompt">>)
        BY <4>1, TwoTexts DEF NoneIn
      <4>3. QED BY <3>2, <3>3, <4>2
    <3>4. CASE Answer("router", <<"routerPrompt">>)
      <4>1. "routerPrompt" \in Texts /\ "routerPrompt" \notin Prompts
        BY DEF Texts, Prompts
      <4>2. <<"routerPrompt">> \in Seq(Texts) /\ NoneIn(Prompts, <<"routerPrompt">>)
        BY <4>1, OneText DEF NoneIn
      <4>3. QED BY <3>2, <3>4, <4>2
    <3>5. QED BY <2>6, <3>1, <3>3, <3>4 DEF RouterReads
  <2>7. CASE LoginReads(Head(inputs))
    <3>1. place # "router"
      BY <2>7 DEF LoginReads
    <3>2. ASSUME NEW why \in {"rejected", "locked", "expired"}, Refuse(<<why>>), UNCHANGED accepted
          PROVE  InTurn'
      <4>1. Answer("user", Append(<<why>>, "askUser"))
        BY <3>1, <3>2 DEF Refuse, Answer
      <4>2. Speaks("user", Append(<<why>>, "askUser"))
        BY <2>5, SpeaksForms
      <4>3. QED BY <1>12, <2>4, <2>5, <3>2, <4>1, <4>2
    <3>3. ASSUME NEW body \in {<<>>, <<"like">>}, NEW p \in {"cli", "priv"},
                 Answer(p, Append(body, PromptOf[p])), place = "password", accepted'
          PROVE  InTurn'
      <4> DEFINE texts == Append(body, PromptOf[p])
      <4>1. Speaks(p, texts)
        BY <2>5, SpeaksForms
      <4>2. k = PasswordStep(Kind) /\ k > 1
        BY <1>1, <2>2, <3>3, ReadersFacts
      <4> HIDE DEF texts
      <4>3. place' = p /\ wire' = texts
        BY <1>1, <1>5, <1>9, <2>5, <3>3, <4>1, <4>2, Speak DEF texts
      <4>4. After'
        <5>1. ~(Kind = "kingtype" /\ k = 7)
          BY <1>1, <4>2, ReadersFacts
        <5>2. wire' # <<>> => wire'[Len(wire')] = PromptOf[place']
          BY <4>1, <4>3 DEF Speaks
        <5>3. Len(wire') <= 2 /\ buffer' = <<>>
          BY <1>1, <1>5, <4>1, <4>2, <4>3 DEF Speaks
        <5>4. QED BY <1>1, <1>2, <4>2, <4>3, <5>1, <5>2, <5>3 DEF After
      <4>5. QED BY <1>10, <2>5, <3>3, <4>1, <4>4 DEF texts
    <3>4. CASE place = "key"
      <4>1. Answer("user", <<"askUser">>) /\ UNCHANGED accepted /\ Speaks("user", <<"askUser">>)
        BY <2>5, <2>7, <3>4, SpeaksForms DEF LoginReads
      <4>2. QED BY <1>12, <2>4, <2>5, <4>1
    <3>5. CASE place = "user"
      <4>1. Speaks("password", <<"askPassword">>)
        BY <2>5, SpeaksForms
      <4>2. (Answer("password", <<"askPassword">>) \/ Refuse(<<"locked">>)) /\ UNCHANGED accepted
        BY <2>7, <3>5 DEF LoginReads
      <4>3. QED BY <1>12, <2>4, <2>5, <3>2, <4>1, <4>2
    <3>6. CASE place = "password"
      <4>1. \/ /\ Enter("cli", "userPrompt") \/ Enter("priv", "privPrompt")
               /\ accepted'
            \/ \E why \in {"rejected", "locked", "expired"} : Refuse(<<why>>) /\ UNCHANGED accepted
        BY <2>7, <3>6 DEF LoginReads
      <4>2. CASE (Enter("cli", "userPrompt") \/ Enter("priv", "privPrompt")) /\ accepted'
        BY <2>5, <3>3, <3>6, <4>2 DEF Enter
      <4>3. QED BY <3>2, <4>1, <4>2
    <3>7. QED BY <2>7, <3>4, <3>5, <3>6 DEF LoginReads
  <2>8. ~CliReads(Head(inputs))
    BY <2>2 DEF CliReads
  <2>9. QED BY <2>6, <2>7, <2>8 DEF Reads
<1>13. QED BY <1>11, <1>12


\* A step that has found its text has the next command typed at an idle terminal,
\* or hands it over.
LEMMA StepTurns ==
    ASSUME TypeOK, LetIn, Turns, StepSucceeds
    PROVE  Turns'
<1>1. /\ phase = "login" /\ sent /\ k > 0 /\ sent' = FALSE /\ Kind \in Brands
      /\ UNCHANGED <<todo, conn, inputs, place, wire, accepted, hungUp>> /\ Kind' = Kind
      /\ IF k = Len(LoginOf(Kind)) THEN phase' = "work" /\ k' = k ELSE k' = k + 1 /\ phase' = phase
  BY DEF StepSucceeds, LetIn, TypeOK, job, terminal, Kind, Steps
<1>2. PICK e \in 1 .. Len(buffer) :
         /\ buffer[e] \in Expected(Kind)[k]
         /\ buffer' = SubSeq(buffer, e + 1, Len(buffer))
         /\ misled' = (misled \/ buffer[e] = "like")
  BY <1>1, StepFinds
<1>3. /\ k \in 1 .. Len(LoginOf(Kind)) /\ Len(LoginOf(Kind)) \in Nat
      /\ PasswordStep(Kind) \in {3, 4} /\ PasswordStep(Kind) <= Len(LoginOf(Kind))
      /\ buffer \in Seq(Texts) /\ Len(buffer) \in Nat /\ buffer # <<>>
      /\ Kind = "kingtype" => Len(LoginOf(Kind)) = 7
  <2>1. k \in 0 .. 7 /\ k <= Len(LoginOf(Kind)) /\ buffer \in Seq(Texts)
    BY <1>1 DEF TypeOK, Steps
  <2>2. QED BY <1>1, <1>2, <2>1, ReadersFacts
<1>4. k < PasswordStep(Kind) =>
         /\ k + 1 \in 1 .. PasswordStep(Kind)
         /\ Readers(Kind)[k + 1] \in {"key", "user", "password"}
         /\ buffer[e] = PromptOf[Readers(Kind)[k + 1]]
  <2>1. ASSUME k < PasswordStep(Kind)
        PROVE  k \in 1 .. PasswordStep(Kind) /\ k + 1 \in 1 .. PasswordStep(Kind) /\ k + 1 # 1
               /\ k # PasswordStep(Kind)
    BY <1>3, <2>1
  <2>2. ASSUME k < PasswordStep(Kind) PROVE Readers(Kind)[k + 1] \in {"key", "user", "password"}
    BY <1>1, <2>1, <2>2, ReadersFacts
  <2>3. ASSUME k < PasswordStep(Kind) PROVE buffer[e] = PromptOf[Readers(Kind)[k + 1]]
    BY <1>1, <1>2, <2>1, <2>3, ExpectedBefore
  <2>4. QED BY <2>1, <2>2, <2>3
<1>5. \A p \in {"key", "user", "password"} : p \in DOMAIN PromptOf /\ PromptOf[p] \in Prompts \ {"like"}
  BY DEF PromptOf, Prompts
<1>6. ASSUME misled', phase' = "login" PROVE accepted'
  <2>1. SUFFICES ASSUME ~accepted PROVE FALSE
    BY <1>1
  <2>2. buffer[e] = "like" /\ Outside
    BY <1>1, <1>2, <1>6, <2>1 DEF Turns, LetIn
  <2>3. k > 1
    BY <1>3, <1>4, <1>5, <2>2
  <2>4. NothingMisleads
    <3>1. ~(k <= 1)
      BY <1>3, <2>3
    <3>2. QED BY <2>2, <3>1 DEF Outside
  <2>5. QED BY <1>2, <2>2, <2>4 DEF NothingMisleads, Misleads
<1>7. ASSUME phase' = "login", ~hungUp', accepted' PROVE OnlyCommands'
  <2>1. OnlyCommands /\ k' = k + 1
    BY <1>1, <1>7 DEF Turns
  <2>2. k' > PasswordStep(Kind)
    BY <1>3, <2>1 DEF OnlyCommands
  <2>3. QED BY <1>1, <1>3, <2>1, <2>2 DEF OnlyCommands
<1>8. ASSUME ~hungUp', ~misled'
      PROVE  (phase' = "login" => InTurn') /\ (phase' = "work" => HandsOver')
  <2>1. InTurn /\ ~hungUp /\ buffer[e] # "like"
    BY <1>1, <1>2, <1>8 DEF Turns
  <2>2. accepted => k >= PasswordStep(Kind)
    BY <1>1, <2>1 DEF Turns, OnlyCommands
  <2>3. inputs = <<>>
    <3>1. SUFFICES ASSUME inputs # <<>> PROVE FALSE
      OBVIOUS
    <3>2. Unread
      BY <3>1 DEF Unread
    <3>3. k = 1 /\ ~accepted
      BY <1>3, <2>1, <2>2, <3>2 DEF InTurn
    <3>4. place = "router"
      BY <1>1, <1>3, <2>1, <3>2, <3>3, ReadersFacts DEF InTurn, Before
    <3>5. buffer[e] \in Prompts
      BY <1>3, <1>4, <1>5, <3>3
    <3>6. QED BY <1>2, <2>1, <3>4, <3>5 DEF InTurn, Tells
  <2>4. k > 1 => buffer[e] # "routerPrompt"
    BY <1>2, <2>1 DEF InTurn, NoneIn
  <2>5. ASSUME ~accepted PROVE k < PasswordStep(Kind)
    <3>1. k <= PasswordStep(Kind)
      BY <2>1, <2>5 DEF InTurn, Before
    <3>2. ASSUME k = PasswordStep(Kind) PROVE FALSE
      <4>1. buffer[e] \in PromptTexts /\ k > 1
        <5>1. k \in 1 .. PasswordStep(Kind) /\ k > 1
          BY <1>3, <3>2
        <5>2. QED BY <1>1, <1>2, <3>2, <5>1, ExpectedBefore
      <4>2. buffer[e] \in OltPrompts
        BY <2>1, <2>4, <4>1 DEF PromptTexts, HashTexts, OltPrompts
      <4>3. NoneIn(OltPrompts, buffer)
        BY <1>1, <2>5 DEF LetIn, Outside
      <4>4. QED BY <1>2, <4>2, <4>3 DEF NoneIn
    <3>3. QED BY <1>3, <3>1, <3>2
  <2>6. buffer[e] \in Prompts \/ (buffer[e] = "unknown" /\ Kind = "kingtype" /\ k = 7)
    <3>1. CASE k < PasswordStep(Kind)
      BY <1>4, <1>5, <3>1
    <3>2. CASE ~(k < PasswordStep(Kind))
      <4>1. k \in PasswordStep(Kind) .. Len(LoginOf(Kind)) /\ k > 1
        BY <1>3, <3>2
      <4>2. buffer[e] \in PromptTexts \cup {"askPassword"} \cup
               IF Kind = "kingtype" /\ k = 7 THEN {"unknown"} ELSE {}
        BY <1>1, <1>2, <4>1, ExpectedAfter
      <4>3. QED BY <2>1, <2>4, <4>1, <4>2 DEF PromptTexts, HashTexts, Prompts
    <3>3. QED BY <3>1, <3>2
  <2>7. buffer[e] \in Prompts =>
           e = Len(buffer) /\ wire = <<>> /\ place # "router" /\ buffer[e] = PromptOf[place]
    BY <1>2, <2>1 DEF InTurn, Tells
  <2>8. e = Len(buffer) => buffer' = <<>>
    BY <1>2, <1>3
  <2>9. accepted => After
    BY <2>1 DEF InTurn
  <2>10. /\ PromptOf["key"] = "askKey" /\ PromptOf["user"] = "askUser"
         /\ PromptOf["password"] = "askPassword" /\ PromptOf["cli"] = "userPrompt"
         /\ PromptOf["priv"] = "privPrompt" /\ PromptOf["config"] = "configPrompt"
         /\ PromptOf["enablePassword"] = "askPassword"
    BY DEF PromptOf
  <2>11. ASSUME phase' = "login" PROVE InTurn'
    <3>1. k' = k + 1 /\ k < Len(LoginOf(Kind)) /\ buffer[e] \in Prompts
      <4>1. k' = k + 1 /\ k < Len(LoginOf(Kind))
        BY <1>1, <1>3, <2>11
      <4>2. ~(Kind = "kingtype" /\ k = 7)
        BY <1>3, <4>1
      <4>3. QED BY <2>6, <4>1, <4>2
    <3>2. buffer' = <<>> /\ wire' = <<>> /\ inputs' = <<>> /\ Len(inputs') = 0
      BY <1>1, <2>3, <2>7, <2>8, <3>1
    <3>3. Tells' /\ NoneIn({"routerPrompt"}, buffer') /\ NoneIn({"routerPrompt"}, wire')
      BY <3>2 DEF Tells, NoneIn
    <3>4. ASSUME ~accepted PROVE Before'
      <4>1. place \in {"router", "key", "user", "password"}
        BY <1>1, <3>4 DEF LetIn, Outside
      <4>2. place = Readers(Kind)[k + 1]
        BY <1>4, <2>5, <2>7, <2>10, <3>1, <3>4, <4>1
      <4>3. k' <= PasswordStep(Kind) /\ k' # 0
        BY <1>3, <1>4, <2>5, <3>1, <3>4
      <4>4. QED BY <1>1, <3>1, <4>2, <4>3 DEF Before
    <3>5. ASSUME accepted PROVE After'
      <4>1. k' # PasswordStep(Kind)
        BY <1>3, <2>2, <3>1, <3>5
      <4>2. Kind = "kingtype" /\ k' = 7 => place = "config"
        <5>1. SUFFICES ASSUME Kind = "kingtype", k = 6 PROVE place = "config"
          BY <1>3, <3>1
        <5>2. k \in PasswordStep(Kind) .. Len(LoginOf(Kind))
          BY <1>3, <2>2, <3>5
        <5>3. buffer[e] = "configPrompt"
          BY <1>1, <1>2, <5>1, <5>2, ExpectedAfter
        <5>4. QED BY <2>7, <2>9, <2>10, <3>1, <3>5, <5>3 DEF After
      <4>3. place \in {"cli", "enablePassword", "priv", "config"}
        BY <2>9, <3>5 DEF After
      <4>4. QED BY <1>1, <3>2, <4>1, <4>2, <4>3 DEF After
    <3>6. QED BY <1>1, <3>2, <3>3, <3>4, <3>5 DEF InTurn
  <2>12. ASSUME phase' = "work" PROVE HandsOver'
    <3>1. k = Len(LoginOf(Kind)) /\ accepted
      BY <1>1, <1>3, <2>5, <2>12
    <3>2. k \in PasswordStep(Kind) .. Len(LoginOf(Kind))
      BY <1>3, <3>1
    <3>3. place \in {"cli", "enablePassword", "priv", "config"}
      BY <2>9, <3>1 DEF After
    <3>4. CASE Kind = "kingtype"
      <4>1. k = 7 /\ place = "config"
        BY <1>3, <2>9, <3>1, <3>4 DEF After
      <4>2. Len(wire) \in Nat /\ Len(wire) <= 1
        <5>1. Len(wire) <= 2 /\ Len(wire) # 2
          BY <1>3, <2>9, <3>1 DEF After
        <5>2. Len(wire) \in Nat
          BY DEF TypeOK
        <5>3. \A n \in Nat : n <= 2 /\ n # 2 => n <= 1
          OBVIOUS
        <5>4. QED BY <5>1, <5>2, <5>3, Zenon
      <4>3. wire # <<>> => Len(wire) = 1 /\ wire[1] = "configPrompt"
        <5>1. wire # <<>> => wire[Len(wire)] = PromptOf[place]
          BY <2>9, <3>1 DEF After
        <5>2. wire # <<>> => Len(wire) # 0
          BY DEF TypeOK
        <5>3. PromptOf[place] = "configPrompt"
          BY <2>10, <4>1
        <5>4. \A n \in Nat : n <= 1 /\ n # 0 => n = 1
          OBVIOUS
        <5>5. wire # <<>> => Len(wire) = 1
          BY <4>2, <5>2, <5>4, Zenon
        <5>6. QED BY <5>1, <5>3, <5>5
      <4>4. wire = <<>> \/ wire = <<"configPrompt">>
        BY <4>3 DEF TypeOK
      <4>5. QED BY <1>1, <2>3, <3>4, <4>1, <4>4 DEF HandsOver, ModeOf
    <3>5. CASE Kind # "kingtype"
      <4>1. buffer[e] = PromptOf[place] /\ wire = <<>>
        BY <2>6, <2>7, <3>5
      <4>2. place \in ModeOf(Kind)
        <5>1. CASE Kind = "huawei"
          <6>1. PromptOf[place] = "configPrompt"
            BY <1>1, <1>2, <3>1, <3>2, <4>1, <5>1, ExpectedAfter
          <6>2. place = "config"
            BY <2>10, <3>3, <6>1
          <6>3. QED BY <5>1, <6>2 DEF ModeOf
        <5>2. CASE Kind = "v-sol"
          <6>1. PromptOf[place] \in HashTexts
            BY <1>1, <1>2, <3>1, <3>2, <4>1, <5>2, ExpectedAfter
          <6>2. place \in {"priv", "config"}
            BY <2>10, <3>3, <6>1 DEF HashTexts
          <6>3. QED BY <5>2, <6>2 DEF ModeOf
        <5>3. CASE Kind = "c-data"
          <6>1. k = PasswordStep(Kind)
            BY <1>1, <3>2, <5>3, ExpectedAfter
          <6>2. place \in {"cli", "priv"}
            BY <2>9, <3>1, <6>1 DEF After
          <6>3. QED BY <5>3, <6>2 DEF ModeOf
        <5>4. QED BY <1>1, <3>5, <5>1, <5>2, <5>3 DEF Brands
      <4>3. QED BY <1>1, <2>3, <4>1, <4>2 DEF HandsOver
    <3>6. QED BY <3>4, <3>5
  <2>13. QED BY <2>11, <2>12
<1>9. phase' \in {"login", "work"}
  BY <1>1
<1>10. QED BY <1>6, <1>7, <1>8, <1>9 DEF Turns


LEMMA ArriveTurns ==
    ASSUME TypeOK, LetIn, Turns, Arrive
    PROVE  Turns'
<1>1. /\ wire \in Seq(Texts) /\ buffer \in Seq(Texts) /\ wire # <<>>
      /\ UNCHANGED <<todo, phase, conn, k, sent, inputs, place, accepted, hungUp, misled>>
      /\ Kind' = Kind /\ Steps' = Steps /\ phase \in {"prompt", "login"}
  BY DEF Arrive, TypeOK, session, job, Kind, Steps
<1>2. /\ Len(wire) \in Nat \ {0} /\ Len(wire') = Len(wire) - 1
      /\ \A i \in 1 .. Len(wire') : wire'[i] = wire[i + 1] /\ i + 1 \in 1 .. Len(wire)
      /\ 1 \in 1 .. Len(wire) /\ Head(wire) = wire[1]
      /\ Len(wire) = 1 => wire' = <<>>
  BY <1>1 DEF Arrive
<1>3. /\ Len(buffer) \in Nat /\ Len(buffer') = Len(buffer) + 1
      /\ \A i \in 1 .. Len(buffer) : buffer'[i] = buffer[i]
      /\ buffer'[Len(buffer) + 1] = wire[1]
      /\ \A i \in 1 .. Len(buffer') : i \in 1 .. Len(buffer) \/ i = Len(buffer) + 1
  BY <1>1, <1>2 DEF Arrive
<1>4. OnlyCommands => OnlyCommands'
  BY <1>1 DEF OnlyCommands
<1>5. ASSUME InTurn PROVE InTurn'
  <2>1. Tells'
    <3>1. ASSUME NEW i \in 1 .. Len(buffer'), buffer'[i] \in Prompts
          PROVE  i = Len(buffer') /\ wire' = <<>> /\ place # "router" /\ buffer'[i] = PromptOf[place]
      <4>1. i \notin 1 .. Len(buffer)
        BY <1>1, <1>3, <1>5, <3>1 DEF InTurn, Tells
      <4>2. i = Len(buffer) + 1 /\ wire[1] \in Prompts
        BY <1>3, <3>1, <4>1
      <4>3. 1 = Len(wire) /\ place # "router" /\ wire[1] = PromptOf[place]
        BY <1>2, <1>5, <4>2 DEF InTurn, Tells
      <4>4. QED BY <1>2, <1>3, <4>2, <4>3
    <3>2. ASSUME NEW i \in 1 .. Len(wire'), wire'[i] \in Prompts
          PROVE  i = Len(wire') /\ place # "router" /\ wire'[i] = PromptOf[place]
      <4>1. i + 1 = Len(wire) /\ place # "router" /\ wire[i + 1] = PromptOf[place]
        BY <1>2, <1>5, <3>2 DEF InTurn, Tells
      <4>2. QED BY <1>2, <3>2, <4>1
    <3>3. QED BY <1>1, <3>1, <3>2 DEF Tells
  <2>2. ~(Unread /\ k > 1) /\ Unread' = Unread
    BY <1>1, <1>5 DEF InTurn, Unread
  <2>3. (k > 1 => NoneIn({"routerPrompt"}, buffer) /\ NoneIn({"routerPrompt"}, wire))'
    BY <1>1, <1>2, <1>3, <1>5 DEF InTurn, NoneIn
  <2>4. Before => Before'
    BY <1>1, <2>2 DEF Before
  <2>5. ASSUME After PROVE After'
    <3>1. Len(wire') <= 1
      BY <1>2, <2>5 DEF After
    <3>2. wire' # <<>> => wire'[Len(wire')] = wire[Len(wire)] /\ wire # <<>>
      <4>1. wire' # <<>> => Len(wire') \in 1 .. Len(wire') /\ Len(wire') + 1 = Len(wire)
        BY <1>1, <1>2 DEF Arrive
      <4>2. QED BY <1>1, <1>2, <4>1
    <3>3. QED BY <1>1, <1>2, <2>5, <3>1, <3>2 DEF After
  <2>6. Len(inputs) <= 1 /\ (inputs # <<>> => sent /\ inputs[1] = Steps[k].command)
        /\ IF accepted THEN After ELSE Before
    BY <1>5 DEF InTurn
  <2>7. QED BY <1>1, <2>1, <2>2, <2>3, <2>4, <2>5, <2>6 DEF InTurn
<1>6. QED BY <1>1, <1>4, <1>5 DEF Turns

LEMMA SendTurns ==
    ASSUME TypeOK, LetIn, Turns, Send
    PROVE  Turns'
<1>1. /\ phase = "login" /\ k > 0 /\ ~sent /\ sent' = TRUE /\ Kind \in Brands
      /\ inputs' = Append(inputs, Steps[k].command) /\ inputs \in Seq(Commands)
      /\ UNCHANGED <<todo, phase, conn, k, buffer, place, wire, accepted, hungUp, misled>>
      /\ Kind' = Kind /\ Steps' = Steps /\ k \in 1 .. Len(LoginOf(Kind))
  <2>1. /\ phase = "login" /\ k > 0 /\ ~sent /\ sent' = TRUE /\ Kind \in Brands
        /\ inputs' = Append(inputs, Steps[k].command) /\ inputs \in Seq(Commands)
        /\ UNCHANGED <<todo, phase, conn, k, buffer, place, wire, accepted, hungUp, misled>>
        /\ Kind' = Kind /\ Steps' = Steps /\ k \in 0 .. 7 /\ k <= Len(LoginOf(Kind))
    BY DEF Send, TypeOK, session, job, Kind, Steps
  <2>2. QED BY <2>1, ReadersFacts
<1>2. Steps[k].command \in Commands /\ Steps = LoginOf(Kind)
  BY <1>1, LoginTyped DEF Steps, Kinds, Olts
<1>3. ASSUME OnlyCommands, accepted, ~hungUp PROVE OnlyCommands'
  <2>1. k >= PasswordStep(Kind) /\ k # PasswordStep(Kind)
    BY <1>1, <1>3 DEF OnlyCommands
  <2>2. Kind # "v-sol" => Steps[k].command # "password"
    BY <1>1, <1>2, <2>1, PasswordTyped
  <2>3. Kind # "v-sol" => \A i \in 1 .. Len(inputs') : inputs'[i] # "password"
    <3>1. \A i \in 1 .. Len(inputs') :
             \/ i \in 1 .. Len(inputs) /\ inputs'[i] = inputs[i]
             \/ inputs'[i] = Steps[k].command
      BY <1>1, <1>2
    <3>2. QED BY <1>3, <2>2, <3>1 DEF OnlyCommands
  <2>4. QED BY <1>1, <2>1, <2>3 DEF OnlyCommands
<1>4. ASSUME InTurn, ~hungUp PROVE InTurn'
  <2>1. inputs = <<>> /\ Unread
    BY <1>1, <1>4 DEF InTurn, Unread
  <2>2. Len(inputs') = 1 /\ inputs'[1] = Steps[k].command
    BY <1>1, <2>1
  <2>3. Unread' /\ Tells' /\ (k > 1 => buffer' = <<>> /\ wire' = <<>>)
    <3>1. Tells /\ (k > 1 => buffer = <<>> /\ wire = <<>>)
      BY <1>4, <2>1 DEF InTurn
    <3>2. Tells'
      BY <1>1, <3>1 DEF Tells
    <3>3. inputs' # <<>>
      BY <1>1, <2>1
    <3>4. QED BY <1>1, <3>1, <3>2, <3>3 DEF Unread
  <2>4. ASSUME accepted PROVE After'
    <3>1. After /\ k # PasswordStep(Kind)
      BY <1>1, <1>4, <2>4 DEF InTurn, Turns, OnlyCommands
    <3>2. QED BY <1>1, <3>1 DEF After
  <2>5. ASSUME ~accepted PROVE Before'
    BY <1>1, <1>4, <2>1, <2>5 DEF InTurn, Before
  <2>6. (k > 1 => NoneIn({"routerPrompt"}, buffer) /\ NoneIn({"routerPrompt"}, wire))'
    BY <1>1, <1>4 DEF InTurn, NoneIn
  <2>7. QED BY <1>1, <2>2, <2>3, <2>4, <2>5, <2>6 DEF InTurn
<1>5. QED BY <1>1, <1>3, <1>4 DEF Turns

LEMMA ReadsTurns ==
    ASSUME TypeOK, LetIn, Turns, Reads
    PROVE  Turns'
<1>1. /\ phase = "login" /\ inputs # <<>> /\ inputs' = Tail(inputs) /\ inputs \in Seq(Commands)
      /\ UNCHANGED <<todo, phase, k, sent, misled>> /\ Kind' = Kind /\ Kind \in Brands
      /\ k \in 0 .. 7
  BY DEF Reads, session, job, service, Kind, TypeOK
<1>2. ~hungUp' => ~hungUp
  <2>1. Answers
    BY ReadsAnswers DEF Reads
  <2>2. QED BY <2>1 DEF Answers, Answer, TypeOK
<1>3. accepted => accepted'
  BY DEF Reads, LoginReads
<1>4. ASSUME ~hungUp', accepted' PROVE OnlyCommands'
  <2>1. CASE accepted
    <3>1. OnlyCommands
      BY <1>1, <1>2, <1>4, <2>1 DEF Turns
    <3>2. \A i \in 1 .. Len(inputs') : i + 1 \in 1 .. Len(inputs) /\ inputs'[i] = inputs[i + 1]
      BY <1>1
    <3>3. QED BY <1>1, <3>1, <3>2 DEF OnlyCommands
  <2>2. CASE ~accepted
    <3>1. InTurn /\ place = "password"
      <4>1. InTurn
        BY <1>1, <1>2, <1>4, <2>2 DEF Turns
      <4>2. place = "password"
        BY <1>4, <2>2 DEF Reads, LoginReads
      <4>3. QED BY <4>1, <4>2
    <3>2. Len(inputs) <= 1 /\ sent /\ Unread /\ k > 0
      BY <1>1, <3>1 DEF InTurn, Unread, LetIn
    <3>3. k <= PasswordStep(Kind) /\ place = Readers(Kind)[k]
      BY <1>1, <2>2, <3>1, <3>2 DEF InTurn, Before
    <3>4. k = PasswordStep(Kind)
      <4>1. PasswordStep(Kind) \in {3, 4}
        BY <1>1, ReadersFacts
      <4>2. k \in 1 .. PasswordStep(Kind)
        BY <1>1, <3>2, <3>3, <4>1
      <4>3. QED BY <1>1, <3>1, <3>3, <4>2, ReadersFacts
    <3>5. inputs' = <<>> /\ Len(inputs') = 0
      BY <1>1, <3>2, OnlyOne
    <3>6. PasswordStep(Kind) \in {3, 4}
      BY <1>1, ReadersFacts
    <3>7. QED BY <1>1, <3>2, <3>4, <3>5, <3>6 DEF OnlyCommands
  <2>3. QED BY <2>1, <2>2
<1>5. ASSUME ~hungUp', ~misled' PROVE InTurn'
  BY <1>1, <1>5, ReadsInTurn
<1>6. QED BY <1>1, <1>3, <1>4, <1>5 DEF Turns

LEMMA TurnsStep == ASSUME TypeOK, LetIn, [Next]_vars, Turns PROVE Turns'
<1>1. CASE Closes \/ Abandons
  <2>1. \E success \in BOOLEAN : EndSession(success)
    BY <1>1, ClosesDoes, AbandonsDoes
  <2>2. phase' \in {"connect", "over"} /\ inputs' = <<>> /\ ~hungUp' /\ ~misled'
    BY <2>1 DEF EndSession
  <2>3. QED BY <2>2 DEF Turns
<1>2. CASE Connect /\ Kind # "probe"
  <2>1. phase = "connect" /\ phase' = "shell" /\ UNCHANGED <<inputs, hungUp, misled>>
    BY <1>2 DEF Connect, terminal
  <2>2. QED BY <2>1 DEF Turns
<1>3. CASE OpenShell
  <2>1. /\ phase = "shell" /\ phase' \in {"prompt", "login"}
        /\ UNCHANGED <<k, sent, buffer, inputs, place, accepted, hungUp, misled>>
        /\ k = 0 /\ ~sent /\ buffer = <<>> /\ inputs = <<>> /\ place = "router" /\ ~accepted
        /\ ~hungUp /\ ~misled /\ wire' \in {<<"routerPrompt">>, <<"like", "routerPrompt">>}
    BY <1>3 DEF OpenShell, Turns, LetIn, TypeOK, job, service
  <2>2. Tells'
    <3>1. Len(<<"routerPrompt">>) = 1 /\ Len(<<"like", "routerPrompt">>) = 2
      OBVIOUS
    <3>2. \A i \in 1 .. Len(wire') : wire'[i] \notin Prompts
      BY <2>1, <3>1 DEF Prompts
    <3>3. QED BY <2>1, <3>2 DEF Tells
  <2>3. phase' = "login" => Before'
    <3>1. phase' = "login" => Kind' \in Brands
      BY <1>3 DEF OpenShell, TypeOK, job, Kind
    <3>2. QED BY <2>1, <3>1, ReadersFacts DEF Before
  <2>4. phase' = "login" => InTurn'
    <3>1. Len(inputs') = 0 /\ ~(k' > 1)
      BY <2>1
    <3>2. QED BY <2>1, <2>2, <2>3, <3>1 DEF InTurn
  <2>5. QED BY <2>1, <2>4 DEF Turns
<1>4. CASE PromptStands
  <2>1. phase' = "work" /\ Kind' \notin Brands
    BY <1>4 DEF PromptStands, LetIn, job, Kind
  <2>2. QED BY <2>1 DEF Turns, HandsOver
<1>5. CASE Lose
  <2>1. /\ UNCHANGED <<todo, phase, k, sent, buffer, place, accepted, hungUp, misled>>
        /\ Kind' = Kind /\ wire' = <<>> /\ inputs' = <<>> /\ conn' = "lost" /\ Steps' = Steps
    BY <1>5 DEF Lose, job, service, Kind, Steps
  <2>2. OnlyCommands => OnlyCommands'
    BY <2>1 DEF OnlyCommands
  <2>3. ASSUME InTurn PROVE InTurn'
    <3>1. Unread' => Unread
      BY <2>1 DEF Unread
    <3>2. Tells'
      BY <2>1, <2>3 DEF InTurn, Tells
    <3>3. IF accepted' THEN After' ELSE Before'
      BY <2>1, <2>3, <3>1 DEF InTurn, After, Before
    <3>4. (k > 1 => NoneIn({"routerPrompt"}, buffer) /\ NoneIn({"routerPrompt"}, wire))'
      BY <2>1, <2>3 DEF InTurn, NoneIn
    <3>5. Len(inputs') = 0 /\ (Unread' /\ k' > 1 => buffer' = <<>>)
      BY <2>1, <2>3, <3>1 DEF InTurn
    <3>6. QED BY <2>1, <3>2, <3>3, <3>4, <3>5 DEF InTurn
  <2>4. HandsOver'
    BY <2>1 DEF HandsOver
  <2>5. phase \notin {"connect", "shell"} \/ (inputs' = <<>> /\ ~hungUp' /\ ~misled')
    BY <2>1 DEF Turns
  <2>6. QED BY <2>1, <2>2, <2>3, <2>4, <2>5 DEF Turns
<1>6. CASE FirstExpected
  <2>1. /\ phase = "login" /\ k = 0 /\ k' = 1 /\ Kind \in Brands
        /\ UNCHANGED <<todo, phase, conn, sent, buffer, inputs, place, wire, accepted, hungUp, misled>>
        /\ Kind' = Kind
    BY <1>6 DEF FirstExpected, session, job, terminal, TypeOK, Kind
  <2>2. ~sent /\ (~hungUp => ~accepted)
    BY <2>1, ReadersFacts DEF LetIn, Turns, OnlyCommands
  <2>3. ASSUME InTurn, ~hungUp PROVE InTurn'
    <3>1. inputs = <<>> /\ Len(inputs) <= 1 /\ Tells /\ Before
      BY <2>2, <2>3 DEF InTurn
    <3>2. place = "router"
      BY <2>1, <2>2, <3>1 DEF Before, Unread
    <3>3. Before'
      BY <2>1, <3>2, ReadersFacts DEF Before
    <3>4. Tells'
      BY <2>1, <3>1 DEF Tells
    <3>5. QED BY <2>1, <2>2, <2>3, <3>1, <3>3, <3>4 DEF InTurn
  <2>4. QED BY <2>1, <2>2, <2>3 DEF Turns
<1>7. CASE HangUp
  <2>1. phase' = "login" /\ hungUp' /\ phase = "login" /\ UNCHANGED <<accepted, misled>>
    BY <1>7 DEF HangUp, Answer, session, job
  <2>2. QED BY <2>1 DEF Turns
<1>8. CASE UNCHANGED vars
  <2>1. /\ UNCHANGED <<todo, phase, conn, k, sent, buffer, inputs, place, wire, accepted, hungUp, misled>>
        /\ Kind' = Kind /\ Steps' = Steps
    BY <1>8 DEF vars, session, job, service, terminal, Kind, Steps
  <2>2. OnlyCommands => OnlyCommands'
    BY <2>1 DEF OnlyCommands
  <2>3. InTurn => InTurn'
    <3>1. (Tells => Tells') /\ (After => After') /\ (Before => Before') /\ Unread' = Unread
      BY <2>1 DEF Tells, After, Before, Unread
    <3>2. QED BY <2>1, <3>1 DEF InTurn, NoneIn
  <2>4. HandsOver => HandsOver'
    BY <2>1 DEF HandsOver
  <2>5. QED BY <2>1, <2>2, <2>3, <2>4 DEF Turns
<1>9. QED
  BY <1>1, <1>2, <1>3, <1>4, <1>5, <1>6, <1>7, <1>8,
     StepTurns, ArriveTurns, SendTurns, ReadsTurns, NextSplit

LEMMA TurnsHold == Spec => [](TypeOK /\ LetIn /\ Turns)
<1>1. Init => LetIn /\ Turns
  BY DEF Init, LetIn, Turns
<1>2. QED BY <1>1, LetInStep, TurnsStep, TypeCorrect, PTL DEF Spec

\* Whatever the brand, what the adapter's flow finds at the end of the login is a
\* terminal in the mode its first command needs, with nothing typed ahead and no
\* answer late, but for Kingtype's one prompt (LOGIN_STEPS, runSteps).
THEOREM LoginHandsOver == Spec => []HandsOver
<1>1. Turns => HandsOver
  BY DEF Turns, HandsOver
<1>2. QED BY <1>1, TurnsHold, PTL

-----------------------------------------------------------------------------
\* The flow of commands that the job runs on the session.
CONSTANTS N, Interactive, Greedy, Required, MaxAsks

\* What is still to arrive, as OltShell tells it apart: nobody has asked for it.
PieceOf(t) ==
    [of |-> 0, kind |-> IF t \in Prompts THEN "prompt" ELSE IF t = "like" THEN "like" ELSE "text"]

\* The shell as runFlow finds it, which begins at its first step, with no history;
\* what has arrived it forgets before it looks at it.
Shell ==
    INSTANCE OltShell WITH
        step <- 1, mode <- "send", buffer <- <<>>, heard <- {}, paged <- FALSE,
        status <- [i \in 1 .. N |-> "none"], raw <- [i \in 1 .. N |-> {}], zombies <- 0,
        asking <- [of |-> 0, left |-> 0],
        wire <- [i \in DOMAIN wire |-> PieceOf(wire[i])],
        trouble <- IF wire = <<>> THEN 0 ELSE 1

ShellReady ==
    phase = "work" /\ Kind \in Brands /\ conn = "open" /\ ~hungUp /\ ~misled => Shell!Init

\* The flow of a job starts where OltShell starts: the two modules fit, with nothing
\* typed that the OLT has not read and at most one prompt on its way
\* (OltConnectionManager.connect, then CommandExecutor.runFlow).
THEOREM LoginLeadsToShell == Spec => []ShellReady
<1>1. ASSUME TypeOK, HandsOver PROVE ShellReady
  <2> SUFFICES ASSUME phase = "work", Kind \in Brands, conn = "open", ~hungUp, ~misled
               PROVE  Shell!Init
    BY DEF ShellReady
  <2>1. inputs = <<>> /\ (wire = <<>> \/ wire = <<"configPrompt">>)
    BY <1>1 DEF HandsOver
  <2> DEFINE pieces == [i \in DOMAIN wire |-> PieceOf(wire[i])]
  <2>2. CASE wire = <<>>
    <3>1. pieces = <<>>
      BY <2>2
    <3>2. QED BY <2>1, <2>2, <3>1 DEF Shell!Init, Shell!NotAsking, Shell!Steps
  <2>3. CASE wire = <<"configPrompt">>
    <3>1. DOMAIN wire = 1 .. 1 /\ wire[1] = "configPrompt" /\ wire # <<>>
      BY <2>3
    <3>2. PieceOf("configPrompt") = [of |-> 0, kind |-> "prompt"]
      BY DEF PieceOf, Prompts
    <3>3. pieces = <<[of |-> 0, kind |-> "prompt"]>>
      BY <3>1, <3>2
    <3>4. QED BY <2>1, <3>1, <3>3 DEF Shell!Init, Shell!NotAsking, Shell!Steps, Shell!Piece
  <2>4. QED BY <2>1, <2>2, <2>3
<1>2. QED BY <1>1, TypeCorrect, LoginHandsOver, PTL

-----------------------------------------------------------------------------
\* As long as the OLT stays, the password goes to the terminal that has asked for
\* it: never to a command line, but for V-Sol's second (runSteps).
THEOREM PasswordWhereAsked == Spec => PasswordAnswersPrompt
<1>1. ASSUME TypeOK, LetIn, Turns, [Next]_vars
      PROVE  [Reads /\ Head(inputs) = "password" /\ place \notin {"password", "enablePassword"}
                => hungUp \/ (Kind = "v-sol" /\ accepted)]_vars
  <2>1. SUFFICES ASSUME Reads, Head(inputs) = "password", place # "password", ~hungUp
                 PROVE  Kind = "v-sol" /\ accepted
    OBVIOUS
  <2>2. /\ phase = "login" /\ inputs # <<>> /\ inputs \in Seq(Commands) /\ Kind \in Brands
        /\ k \in 0 .. 7 /\ k <= Len(LoginOf(Kind)) /\ inputs[1] = "password"
        /\ 1 \in 1 .. Len(inputs)
    BY <1>1, <2>1 DEF Reads, TypeOK, Steps
  <2>3. accepted => Kind = "v-sol"
    BY <1>1, <2>1, <2>2 DEF Turns, OnlyCommands
  <2>4. ASSUME ~accepted PROVE FALSE
    <3>1. InTurn
      BY <1>1, <2>1, <2>2, <2>4 DEF Turns
    <3>2. sent /\ LoginOf(Kind)[k].command = "password" /\ Unread
      BY <2>2, <3>1 DEF InTurn, Unread, Steps
    <3>3. k > 0 /\ PasswordStep(Kind) \in {3, 4}
      BY <1>1, <2>2, <3>2, ReadersFacts DEF LetIn
    <3>4. k <= PasswordStep(Kind) /\ place = Readers(Kind)[k]
      BY <2>2, <2>4, <3>1, <3>2, <3>3 DEF InTurn, Before
    <3>5. k >= PasswordStep(Kind)
      <4>1. k \in 1 .. Len(LoginOf(Kind))
        BY <2>2, <3>3, ReadersFacts
      <4>2. QED BY <2>2, <3>2, <4>1, PasswordTyped
    <3>6. k = PasswordStep(Kind) /\ k \in 1 .. PasswordStep(Kind)
      BY <2>2, <3>3, <3>4, <3>5
    <3>7. QED BY <2>1, <2>2, <3>4, <3>6, ReadersFacts
  <2>5. QED BY <2>3, <2>4
<1>2. QED BY <1>1, TurnsHold, PTL DEF Spec, PasswordAnswersPrompt
=============================================================================
