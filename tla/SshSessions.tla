------------------------------ MODULE SshSessions ------------------------------
(***************************************************************************)
(* The SSH sessions of a job, one after the other: SSHService, from connect   *)
(* to close, in the hands of OltConnectionManager, MikrotikSshAdapter and   *)
(* the connection tests.  A session is                                      *)
(*    a brand    an OLT behind the router: login, commands, close          *)
(*    "sm"       an OLT of no brand, which has no login                    *)
(*    "router"   the router itself: first prompt, commands, close          *)
(*    "probe"    whether the router can be reached: connect, close         *)
(* What is typed is read by the terminal the shell is at, which at first is    *)
(* the router's and, after the telnet, the OLT's.                          *)
(***************************************************************************)
EXTENDS LoginSteps

CONSTANT Jobs    \* sequences of sessions

Olts == Brands \cup {"sm"}
Kinds == Olts \cup {"router", "probe"}

ASSUME JobsAssumption == Jobs \subseteq Seq(Kinds) \ {<<>>}

VARIABLES
    todo,      \* the sessions of the job that have not ended
    phase,     \* what the first of them is at
    ok,        \* nothing has failed: what the job will answer
    conn,      \* its connection: "none", "open" or "lost"
    k,         \* the step of its login, 0 before the first
    sent,      \* whether the command of that step has been written
    buffer,    \* what has arrived and no wait has consumed
    inputs,    \* what has been typed and the terminal has not read
    place,     \* where the terminal is
    wire,      \* what it has answered and has not arrived
    accepted,  \* history: the OLT has accepted the password
    hungUp,    \* history: the OLT has ended the telnet
    misled,    \* history: a wait found its text where a banner ends like a prompt
    left,      \* history: the phases in which a session ended and was not closed
    shut       \* history: OLTs whose session ended and that had let nobody in, and
               \* whether they had ended the telnet

job == <<todo, ok, left, shut>>
session == <<job, phase, conn>>
service == <<k, sent, buffer>>
terminal == <<inputs, place, wire, accepted, hungUp>>
vars == <<session, service, terminal, misled>>

Phases == {"connect", "shell", "prompt", "login", "work", "over"}
Commands == {"telnet", "key", "user", "password", "enable", "configure", "noLogging"}
Places == {"router", "key", "user", "password", "cli", "enablePassword", "priv", "config"}

Kind == Head(todo)
Steps == LoginOf(Kind)

TypeOK ==
    /\ todo \in Seq(Kinds)
    /\ phase \in Phases /\ (phase = "over" <=> todo = <<>>)
    /\ conn \in {"none", "open", "lost"}
    /\ phase \notin {"connect", "over"} => Kind \in Brands \cup {"router"}
    /\ k \in 0 .. 7 /\ (phase \in {"connect", "shell"} => k = 0)
    /\ phase = "login" => Kind \in Brands /\ k <= Len(Steps)
    /\ sent \in BOOLEAN
    /\ buffer \in Seq(Texts) /\ wire \in Seq(Texts)
    /\ inputs \in Seq(Commands) /\ place \in Places
    /\ accepted \in BOOLEAN /\ hungUp \in BOOLEAN /\ misled \in BOOLEAN
    /\ ok \in BOOLEAN /\ left \subseteq Phases /\ shut \subseteq Olts \X BOOLEAN

Init ==
    /\ todo \in Jobs /\ phase = "connect" /\ conn = "none"
    /\ ok = TRUE /\ left = {} /\ shut = {}
    /\ k = 0 /\ sent = FALSE /\ buffer = <<>>
    /\ inputs = <<>> /\ place = "router" /\ wire = <<>>
    /\ accepted = FALSE /\ hungUp = FALSE /\ misled = FALSE

-----------------------------------------------------------------------------
\* The session ends.  The job goes on after one that succeeded, and a test also
\* after that of an OLT that failed.
EndSession(success) ==
    /\ todo' = IF success \/ Kind \in Olts THEN Tail(todo) ELSE <<>>
    /\ ok' = (ok /\ success)
    /\ shut' = IF Kind \in Olts /\ ~accepted THEN shut \cup {<<Kind, hungUp>>} ELSE shut
    /\ phase' = IF todo' = <<>> THEN "over" ELSE "connect"
    /\ conn' = "none"
    /\ k' = 0 /\ sent' = FALSE /\ buffer' = <<>>
    /\ inputs' = <<>> /\ place' = "router" /\ wire' = <<>>
    /\ accepted' = FALSE /\ hungUp' = FALSE /\ misled' = FALSE

Close(success) == EndSession(success) /\ UNCHANGED left

\* The error leaves the session to nobody: connect and openShell are outside
\* the try, and so is waitForStablePrompt in createSshSession.
Abandon == EndSession(FALSE) /\ left' = IF conn = "open" THEN left \cup {phase} ELSE left

\* An OLT without a login sequence: refused before anything is opened.
NoSequence ==
    /\ phase = "connect" /\ Kind = "sm"
    /\ Close(FALSE)

Connect ==
    /\ phase = "connect" /\ Kind # "sm"
    /\ \/ Kind = "probe" /\ Close(TRUE)
       \/ /\ Kind # "probe"
          /\ conn' = "open" /\ phase' = "shell"
          /\ UNCHANGED <<job, service, terminal, misled>>

ConnectFails ==
    /\ phase = "connect" /\ Kind # "sm"
    /\ Abandon

\* The router greets; its banner may end like a prompt.
OpenShell ==
    /\ phase = "shell" /\ conn = "open"
    /\ phase' = IF Kind = "router" THEN "prompt" ELSE "login"
    /\ wire' \in {<<"routerPrompt">>, <<"like", "routerPrompt">>}
    /\ UNCHANGED <<job, conn, service, inputs, place, accepted, hungUp, misled>>

OpenShellFails ==
    /\ phase = "shell"
    /\ Abandon

-----------------------------------------------------------------------------
\* waitForStablePrompt.
PromptStands ==
    /\ phase = "prompt"
    /\ buffer # <<>> /\ buffer[Len(buffer)] \in PromptTexts
    /\ phase' = "work"
    /\ UNCHANGED <<job, conn, service, terminal, misled>>

PromptTimesOut ==
    /\ phase = "prompt"
    /\ Abandon

\* runSteps waits, before the first step only, for what the step expects, and
\* leaves the text as it is.
FirstExpected ==
    /\ phase = "login" /\ k = 0
    /\ buffer # <<>> /\ buffer[Len(buffer)] \in {"routerPrompt", "userPrompt", "like"}
    /\ k' = 1
    /\ UNCHANGED <<session, sent, buffer, terminal, misled>>

Send ==
    /\ phase = "login" /\ k > 0 /\ ~sent
    /\ sent' = TRUE
    /\ inputs' = Append(inputs, Steps[k].command)
    /\ UNCHANGED <<session, k, buffer, place, wire, accepted, hungUp, misled>>

\* waitForAny: the first condition of the step, in the order of the table, that holds.
Matches(i) ==
    LET success == Steps[k].success IN
    /\ i \in DOMAIN success
    /\ Holds(success[i], buffer)
    /\ \A j \in 1 .. i - 1 : ~Holds(success[j], buffer)

\* What is up to the end of the text that was found is gone.
Consume(i) ==
    \E e \in Ends(Steps[k].success[i], buffer) :
        /\ buffer' = SubSeq(buffer, e + 1, Len(buffer))
        /\ misled' = (misled \/ buffer[e] = "like")

\* Mutant: "continue" is not looked at, and the login goes on.
StepSucceedsAnyway ==
    /\ phase = "login" /\ sent
    /\ \E i \in DOMAIN Steps[k].success : Matches(i) /\ Consume(i)
    /\ sent' = FALSE
    /\ IF k = Len(Steps) THEN phase' = "work" /\ UNCHANGED k
                         ELSE k' = k + 1 /\ UNCHANGED phase
    /\ UNCHANGED <<job, conn, terminal>>

\* Mutant: the loop over the steps goes one too far.
StepSucceedsTooFar ==
    /\ phase = "login" /\ sent
    /\ \E i \in DOMAIN Steps[k].success :
          Matches(i) /\ Steps[k].success[i].continue /\ Consume(i)
    /\ sent' = FALSE
    /\ k' = k + 1
    /\ UNCHANGED <<session, terminal>>

StepSucceeds ==
    /\ phase = "login" /\ sent
    /\ \E i \in DOMAIN Steps[k].success :
          Matches(i) /\ Steps[k].success[i].continue /\ Consume(i)
    /\ sent' = FALSE
    /\ IF k = Len(Steps) THEN phase' = "work" /\ UNCHANGED k
                         ELSE k' = k + 1 /\ UNCHANGED phase
    /\ UNCHANGED <<job, conn, terminal>>

\* A condition that ends the login, a wait that times out, or a write that fails:
\* OltConnectionManager closes the session.
StepFails ==
    /\ phase = "login" /\ sent
    /\ \E i \in DOMAIN Steps[k].success : Matches(i) /\ ~Steps[k].success[i].continue
    /\ Close(FALSE)

\* Mutant: the catch does not close.
StepTimesOutOpen ==
    /\ phase = "login" /\ (k = 0 \/ sent)
    /\ Abandon

\* Mutant: waitFor has no timer.
StepTimesOutLater ==
    /\ phase = "login" /\ sent
    /\ Close(FALSE)

StepTimesOut ==
    /\ phase = "login" /\ (k = 0 \/ sent)
    /\ Close(FALSE)

WriteFails ==
    /\ phase = "login" /\ k > 0 /\ ~sent
    /\ Close(FALSE)

\* The commands of the job, on a session that is closed in a finally.
Work ==
    /\ phase = "work"
    /\ \E success \in BOOLEAN : Close(success)

\* stream.on("data"), while somebody waits.
Arrive ==
    /\ phase \in {"prompt", "login"} /\ wire # <<>>
    /\ buffer' = Append(buffer, Head(wire))
    /\ wire' = Tail(wire)
    /\ UNCHANGED <<session, k, sent, inputs, place, accepted, hungUp, misled>>

Lose ==
    /\ conn = "open" /\ phase # "connect"
    /\ conn' = "lost"
    /\ inputs' = <<>> /\ wire' = <<>>
    /\ UNCHANGED <<job, phase, service, place, accepted, hungUp, misled>>

-----------------------------------------------------------------------------
\* The terminal answers with texts and is then at p.
Answer(p, texts) ==
    /\ place' = p
    /\ wire' = wire \o texts
    /\ hungUp' = (hungUp \/ (place # "router" /\ p = "router"))

\* It refuses a login: the user is asked for again, or the telnet ends.
Refuse(texts) ==
    \/ Answer("user", Append(texts, "askUser"))
    \/ Answer("router", Append(texts, "routerPrompt"))

Unknown(p, prompt) == Answer(p, <<"unknown", prompt>>)

Enter(p, prompt) == \E body \in {<<>>, <<"like">>} : Answer(p, Append(body, prompt))

RouterReads(command) ==
    IF command = "telnet"
    THEN \/ IF Kind = "kingtype" THEN Answer("key", <<"askKey">>) ELSE Answer("user", <<"askUser">>)
         \/ \E why \in {"reset", "refused", "locked"} : Answer("router", <<why, "routerPrompt">>)
    ELSE Answer("router", <<"routerPrompt">>)

LoginReads(command) ==
    \/ place = "key" /\ Answer("user", <<"askUser">>) /\ UNCHANGED accepted
    \/ /\ place = "user"
       /\ Answer("password", <<"askPassword">>) \/ Refuse(<<"locked">>)
       /\ UNCHANGED accepted
    \/ /\ place = "password"
       /\ \/ /\ command = "password"
             /\ Enter("cli", "userPrompt") \/ Enter("priv", "privPrompt")
             /\ accepted' = TRUE
          \/ /\ \E why \in {"rejected", "locked", "expired"} : Refuse(<<why>>)
             /\ UNCHANGED accepted

CliReads(command) ==
    \/ /\ place = "cli"
       /\ \/ Unknown("cli", "userPrompt")
          \/ command = "enable" /\ (Answer("priv", <<"privPrompt">>)
                                    \/ Answer("enablePassword", <<"askPassword">>))
    \/ /\ place = "enablePassword"
       /\ \/ command = "password" /\ Answer("priv", <<"privPrompt">>)
          \/ Answer("cli", <<"rejected", "userPrompt">>)
    \/ /\ place = "priv"
       /\ \/ Unknown("priv", "privPrompt")
          \/ command = "enable" /\ Answer("priv", <<"privPrompt">>)
          \/ command = "configure" /\ Answer("config", <<"configPrompt">>)
    \/ /\ place = "config"
       /\ \/ Unknown("config", "configPrompt")
          \/ command = "noLogging" /\ Answer("config", <<"configPrompt">>)

Reads ==
    /\ phase = "login" /\ inputs # <<>>
    /\ inputs' = Tail(inputs)
    /\ \/ place = "router" /\ RouterReads(Head(inputs)) /\ UNCHANGED accepted
       \/ LoginReads(Head(inputs))
       \/ CliReads(Head(inputs)) /\ UNCHANGED accepted
    /\ UNCHANGED <<session, service, misled>>

HangUp ==
    /\ phase = "login" /\ conn = "open" /\ place # "router"
    /\ Answer("router", <<"routerPrompt">>)
    /\ UNCHANGED <<session, service, inputs, accepted, misled>>

-----------------------------------------------------------------------------
Connecting == NoSequence \/ Connect \/ ConnectFails
Poll == PromptStands \/ FirstExpected \/ StepSucceeds \/ StepFails
Write == Send \/ WriteFails
Timeout == PromptTimesOut \/ StepTimesOut

Next ==
    \/ Connecting \/ OpenShell \/ OpenShellFails
    \/ Poll \/ Write \/ Timeout \/ Work \/ Arrive
    \/ Lose \/ Reads \/ HangUp

Spec == Init /\ [][Next]_vars

\* Brands whose activation answers its own answers for ever (ShellReactivation).
GreedyBrands == {"v-sol", "c-data"}

\* ssh2 gives up a connection that is not ready in time; polls, timers and
\* writes end, and so do the commands of the others (OltShell).  Nothing limits
\* openShell, nor an activation of a greedy brand.
Fairness ==
    /\ WF_vars(Connecting) /\ WF_vars(Poll) /\ WF_vars(Write) /\ WF_vars(Timeout)
    /\ WF_vars(phase = "work" /\ Kind \notin GreedyBrands /\ Work)

FairSpec == Spec /\ Fairness

-----------------------------------------------------------------------------
\* Whatever fails and wherever, a job leaves a connection behind only where no
\* shell could be opened, or where the router's first prompt did not come.
LeftOpenOnlyBeforeUse == left \subseteq {"shell", "prompt"}

\* A job or a test that succeeds has been let in by every OLT it was about: no
\* refusal, no text that looks like a prompt and no end of the telnet passes for a
\* login, and no later success covers a failure.  C-Data is the exception: its login
\* ends with any prompt, that of the router included, to which an OLT that hangs up
\* returns.
SuccessMeansLetIn == phase = "over" /\ ok => shut \subseteq {<<"c-data", TRUE>>}

\* The mode in which the flows of each adapter begin.
ModeOf(brand) ==
    CASE brand \in {"huawei", "kingtype"} -> {"config"}
      [] brand = "v-sol" -> {"priv", "config"}
      [] OTHER -> {"cli", "priv"}

\* The login hands over a terminal in the mode the adapter's flow expects, with
\* nothing typed ahead and nothing still to come that the flow could take for an
\* answer; but Kingtype's may leave one prompt on its way, having found "Unknown
\* command" before it.
HandsOver ==
    phase = "work" /\ Kind \in Brands /\ conn = "open" /\ ~hungUp /\ ~misled =>
        /\ place \in ModeOf(Kind) /\ inputs = <<>>
        /\ wire = <<>> \/ (Kind = "kingtype" /\ wire = <<"configPrompt">>)

\* The password is read by whom it is meant for: a terminal that asks for one.
\* V-Sol's table types it again after "enable" whether it is asked for or not.
PasswordAnswersPrompt ==
    [][Reads /\ Head(inputs) = "password" /\ place \notin {"password", "enablePassword"}
       => hungUp \/ (Kind = "v-sol" /\ accepted)]_vars

\* Every job ends, whatever the OLT and the router do; but two things hold it for
\* ever: a shell that is neither opened nor refused, and the commands of a V-Sol
\* or C-Data OLT, among which an activation need not end.
JobEnds ==
    \/ <>(phase = "over")
    \/ <>[](phase = "shell")
    \/ <>[](phase = "work" /\ Kind \in GreedyBrands)
=============================================================================
