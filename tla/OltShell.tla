------------------------------- MODULE OltShell -------------------------------
(***************************************************************************)
(* One shell on an OLT and the flow of commands a request runs on it:      *)
(* CommandExecutor.runFlow over SSHService.runCommand.  The service writes *)
(* a command, polls what has arrived for the end of the reply, and pairs   *)
(* it with the command in the history; nothing in the stream itself says   *)
(* which command a text answers.                                           *)
(*                                                                         *)
(* A reply is cut where its end or a question could be recognised in it.   *)
(* A piece is the command it answers and its kind:                         *)
(*    "text"    neither                                                    *)
(*    "like"    output that pauses at a text ending like a prompt          *)
(*    "ask"     a pager or a "{ <cr>" the OLT stops at until it is answered *)
(*    "prompt"  the OLT is ready for the next command                      *)
(* The OLT takes its inputs in order and answers when it likes; whatever   *)
(* it has answered arrives in order.                                       *)
(***************************************************************************)
EXTENDS Integers, Sequences

CONSTANTS
    N,            \* the flow has the steps 1 .. N
    Interactive,  \* the steps with interactions
    Greedy,       \* those whose interaction waits for any blank, "#" or ">"
    Required,     \* the steps a failure of which ends the flow
    MaxAsks       \* how many questions a reply stops at

Steps == 1 .. N

ASSUME ShellAssumption ==
    /\ N \in Nat \ {0} /\ MaxAsks \in Nat \ {0}
    /\ Interactive \subseteq Steps /\ Greedy \subseteq Interactive /\ Required \subseteq Steps

\* 0 stands for an answer instead of a command, and for the reply to nothing.
Pieces == [of : 0 .. N, kind : {"text", "like", "ask", "prompt"}]
Piece(k, kind) == [of |-> k, kind |-> kind]

VARIABLES
    step,      \* the step the flow is at
    mode,      \* what it is at: "send", "wait", "answer", or "over"
    buffer,    \* what has arrived and no wait has consumed
    heard,     \* commandBuffer: what has arrived since the command was sent
    paged,     \* pagerSent
    status,    \* of each step in the history: "none", "ok" or "failed"
    raw,       \* the output each successful step was given
    zombies,   \* polls of timed out waits that go on
    inputs,    \* what the OLT has not read yet
    asking,    \* the question the OLT has stopped at, and how many may follow
    wire,      \* what the OLT has answered and has not arrived
    trouble    \* history: the step of the first timeout or misread, or 0

service == <<step, mode, buffer, heard, paged, status, raw, zombies>>
olt == <<inputs, asking>>
vars == <<service, olt, wire, trouble>>

NotAsking == [of |-> 0, left |-> 0]

TypeOK ==
    /\ step \in Steps
    /\ mode \in {"send", "wait", "answer", "over"}
    /\ buffer \in Seq(Pieces)
    /\ heard \subseteq Pieces
    /\ paged \in BOOLEAN
    /\ status \in [Steps -> {"none", "ok", "failed"}]
    /\ raw \in [Steps -> SUBSET Pieces]
    /\ zombies \in Nat
    /\ inputs \in Seq(0 .. N)
    /\ asking \in [of : 0 .. N, left : 0 .. MaxAsks]
    /\ wire \in Seq(Pieces)
    /\ trouble \in 0 .. N

\* A login hands over a silent shell, or (Kingtype's: SshSessions!HandsOver) one on
\* which a prompt is still to arrive, which the first step may take for its own.
Init ==
    /\ step = 1 /\ mode = "send"
    /\ buffer = <<>> /\ heard = {} /\ paged = FALSE
    /\ status = [k \in Steps |-> "none"] /\ raw = [k \in Steps |-> {}]
    /\ zombies = 0
    /\ inputs = <<>> /\ asking = NotAsking
    /\ \/ wire = <<>> /\ trouble = 0
       \/ wire = <<Piece(0, "prompt")>> /\ trouble = 1

-----------------------------------------------------------------------------
\* The places of a text where an interaction of step k finds its pattern.
Asks(k, b) == {i \in DOMAIN b : b[i].kind = "ask" \/ k \in Greedy}
After(b, i) == SubSeq(b, i + 1, Len(b))

LooksDone(b) == b # <<>> /\ b[Len(b)].kind \in {"prompt", "like"}

PagerSeen == \E p \in heard : p.kind = "ask"

InTrouble(k) == trouble' = IF trouble = 0 THEN k ELSE trouble

\* Mutant: the loop goes one step too far.
RecordTooMany(s, output) ==
    /\ status' = [status EXCEPT ![step] = s]
    /\ raw' = [raw EXCEPT ![step] = output]
    /\ IF s = "failed" /\ step \in Required
       THEN mode' = "over" /\ UNCHANGED step
       ELSE mode' = "send" /\ step' = step + 1

\* Mutant: a required step that failed does not end the flow.
RecordAndGoOn(s, output) ==
    /\ status' = [status EXCEPT ![step] = s]
    /\ raw' = [raw EXCEPT ![step] = output]
    /\ IF step = N
       THEN mode' = "over" /\ UNCHANGED step
       ELSE mode' = "send" /\ step' = step + 1

\* The history entry of the step, and the next step: none after a required
\* step that failed.
Record(s, output) ==
    /\ status' = [status EXCEPT ![step] = s]
    /\ raw' = [raw EXCEPT ![step] = output]
    /\ IF step = N \/ (s = "failed" /\ step \in Required)
       THEN mode' = "over" /\ UNCHANGED step
       ELSE mode' = "send" /\ step' = step + 1

-----------------------------------------------------------------------------
\* Mutant: commandBuffer is not reset.
SendOnTop ==
    /\ mode = "send"
    /\ buffer' = <<>> /\ paged' = FALSE
    /\ inputs' = Append(inputs, step)
    /\ mode' = "wait"
    /\ UNCHANGED <<step, heard, status, raw, zombies, asking, wire, trouble>>

\* runCommand: forget what has arrived, write the command.
Send ==
    /\ mode = "send"
    /\ buffer' = <<>> /\ heard' = {} /\ paged' = FALSE
    /\ inputs' = Append(inputs, step)
    /\ mode' = "wait"
    /\ UNCHANGED <<step, status, raw, zombies, asking, wire, trouble>>

\* The stream refuses a command, or the answer to a question.
WriteFails ==
    /\ mode \in {"send", "answer"}
    /\ Record("failed", {})
    /\ InTrouble(step)
    /\ UNCHANGED <<buffer, heard, paged, zombies, olt, wire>>

\* waitForAny finds an interaction, the first in the text, before any prompt.
FindQuestion ==
    /\ mode = "wait" /\ step \in Interactive
    /\ \E i \in Asks(step, buffer) :
          /\ \A j \in Asks(step, buffer) : i <= j
          /\ buffer' = After(buffer, i)
    /\ mode' = "answer"
    /\ UNCHANGED <<step, heard, paged, status, raw, zombies, olt, wire, trouble>>

SendAnswer ==
    /\ mode = "answer"
    /\ inputs' = Append(inputs, 0)
    /\ mode' = "wait"
    /\ UNCHANGED <<step, buffer, heard, paged, status, raw, zombies, asking, wire, trouble>>

\* Mutant: the pager is answered at every look.
AnswerPagerAgain ==
    /\ mode = "wait" /\ step \notin Interactive
    /\ PagerSeen
    /\ inputs' = Append(inputs, 0)
    /\ UNCHANGED <<step, mode, buffer, heard, paged, status, raw, zombies, asking, wire, trouble>>

\* waitForStablePrompt answers a pager, once, and leaves the text as it is.
AnswerPager ==
    /\ mode = "wait" /\ step \notin Interactive
    /\ PagerSeen /\ ~paged
    /\ paged' = TRUE
    /\ inputs' = Append(inputs, 0)
    /\ UNCHANGED <<step, mode, buffer, heard, status, raw, zombies, asking, wire, trouble>>

\* The text ends like a prompt: for an interactive step at one look, for the
\* others at five.  The parser may throw on what it is given.
Finish ==
    /\ mode = "wait"
    /\ LooksDone(buffer)
    /\ IF step \in Interactive THEN Asks(step, buffer) = {} ELSE PagerSeen => paged
    /\ \E s \in {"ok", "failed"} : Record(s, IF s = "ok" THEN heard ELSE {})
    /\ IF buffer[Len(buffer)].kind = "like" THEN InTrouble(step) ELSE UNCHANGED trouble
    /\ buffer' = IF step \in Interactive THEN <<>> ELSE buffer
    /\ UNCHANGED <<heard, paged, zombies, olt, wire>>

\* Mutant: waitForAny has no timer.
TimeoutOfPrompts ==
    /\ mode = "wait" /\ step \notin Interactive
    /\ Record("failed", {})
    /\ InTrouble(step)
    /\ UNCHANGED <<buffer, heard, paged, zombies, olt, wire>>

\* The step fails and the flow goes on.  The poll of waitForAny is not stopped.
Timeout ==
    /\ mode = "wait"
    /\ Record("failed", {})
    /\ zombies' = IF step \in Interactive THEN zombies + 1 ELSE zombies
    /\ InTrouble(step)
    /\ UNCHANGED <<buffer, heard, paged, olt, wire>>

\* What such a poll finds, it takes from the buffer, and nobody hears of it.  The
\* end of a prompt is looked up from the start: any earlier text like it will do.
ZombieTakes ==
    /\ zombies > 0 /\ mode # "over"
    /\ \E i \in DOMAIN buffer :
          /\ \/ buffer[i].kind = "ask"
             \/ LooksDone(buffer) /\ buffer[i].kind \in {"like", "prompt"}
          /\ buffer' = After(buffer, i)
    /\ zombies' = zombies - 1
    /\ UNCHANGED <<step, mode, heard, paged, status, raw, olt, wire, trouble>>

\* stream.on("data").
Arrive ==
    /\ wire # <<>> /\ mode # "over"
    /\ buffer' = Append(buffer, Head(wire))
    /\ heard' = heard \cup {Head(wire)}
    /\ wire' = Tail(wire)
    /\ UNCHANGED <<step, mode, paged, status, raw, zombies, olt, trouble>>

-----------------------------------------------------------------------------
\* The OLT goes on with the reply to k, up to the next of at most q questions.
\* "a" answers a pager for the rest of the reply, so a step without
\* interactions has one question at most.
Talk(k, q) ==
    \E body \in {"text", "like"} :
        \/ /\ wire' = wire \o <<Piece(k, body), Piece(k, "prompt")>>
           /\ asking' = NotAsking
        \/ /\ q > 0
           /\ wire' = wire \o <<Piece(k, body), Piece(k, "ask")>>
           /\ asking' = [of |-> k, left |-> IF k \in Interactive THEN q - 1 ELSE 0]

OltReads ==
    /\ inputs # <<>>
    /\ inputs' = Tail(inputs)
    /\ IF asking.of # 0 THEN Talk(asking.of, asking.left)
       ELSE IF Head(inputs) # 0 THEN Talk(Head(inputs), MaxAsks)
       ELSE wire' = Append(wire, Piece(0, "prompt")) /\ UNCHANGED asking
    /\ UNCHANGED <<service, trouble>>

-----------------------------------------------------------------------------
Poll == FindQuestion \/ AnswerPager \/ Finish
Write == Send \/ SendAnswer \/ WriteFails

Next == Poll \/ Write \/ Timeout \/ ZombieTakes \/ Arrive \/ OltReads

Spec == Init /\ [][Next]_vars

\* Timers fire, polls are run and writes end; the OLT need not answer.
Fairness == WF_vars(Poll) /\ WF_vars(Write) /\ WF_vars(Timeout)

FairSpec == Spec /\ Fairness

-----------------------------------------------------------------------------
\* Before the first timeout or misread every history entry is true: it holds the
\* reply to its own command, to its end, and nothing else.
OwnReply(k) == Piece(k, "prompt") \in raw[k] /\ \A p \in raw[k] : p.of = k

HistoryIsTrueUntilTrouble ==
    \A k \in Steps : status[k] = "ok" /\ (trouble = 0 \/ k < trouble) => OwnReply(k)

\* And the OLT takes no command for an answer and no answer for a command, so
\* it runs every command of the flow.
AnswersMeetQuestions ==
    [][OltReads /\ trouble = 0 => (asking.of # 0 <=> Head(inputs) = 0)]_vars

\* Whatever has gone wrong, replies are only ever late: a step is never given
\* the reply to a later command, nor one older than what an earlier step had,
\* so no reply passes for two commands of the same kind in the wrong order.
RepliesAreOnlyLate ==
    \A k \in Steps : \A p \in raw[k] :
        /\ p.of <= k
        /\ p.of # 0 => \A j \in 1 .. k - 1 : \A o \in raw[j] : o.of <= p.of

\* All that runFlow promises its caller, and nothing of how: this is CommandFlow.
Flow == INSTANCE CommandFlow WITH done <- (mode = "over")

RunsTheFlow == Flow!Spec

\* Every flow ends (liveness, under Fairness), whatever the OLT does: each wait
\* has its timer, and an interaction renews it only for a question of the OLT.
FlowEnds == <>(mode = "over")
=============================================================================
