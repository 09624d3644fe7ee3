------------------------ MODULE ConversationWorkflow ------------------------
(***************************************************************************)
(* The workflow engine and its handlers: what one message of the           *)
(* subscriber does to the status and the step of a session.                *)
(*                                                                         *)
(* The handlers only ask whether the lower-cased message contains certain  *)
(* phrases, so a message is the set of those phrases it contains.  Phrases *)
(* that every handler treats alike stand for one another:                  *)
(*    "rojo"      roja, rojo                                               *)
(*    "verde"     verde, verdes, todas verdes                              *)
(*    "luces"     luz, luces, prendio, encendio, ya, listo                 *)
(*    "no prende" no prende, no enciende, no hay luces, sigue igual,       *)
(*                sigue sin luces, no funciona                             *)
(***************************************************************************)
EXTENDS DiagnosticRules

CONSTANT Messages  \* the messages a subscriber may send

Phrases == {"sin luces", "ninguna luz", "apagado", "rojo", "verde", "luces", "no prende"}

\* A text that contains "sin luces" contains "luces", and "ninguna luz" contains "luz".
MessageAssumption ==
    \A m \in Messages :
        /\ m \subseteq Phrases
        /\ ("sin luces" \in m \/ "ninguna luz" \in m) => "luces" \in m

ASSUME MessageAssumption

Says(m, phrases) == m \cap phrases # {}

-----------------------------------------------------------------------------
\* The session's own moves: WorkflowContext.waitUser, waitSystem, complete, fail.
To(status, step) == [status |-> status, step |-> step]
WaitUser(step) == To("waiting_user", step)
WaitSystem(step) == To("waiting_system", step)
\* Mutant: complete() moves to the action instead of the step.
CompleteFinishing == To("completed", "finish")

Complete == To("completed", "none")
Fail == To("failed", "none")

AskLedStatus(m) ==
    IF Says(m, {"sin luces", "apagado", "ninguna luz"}) THEN WaitUser("verify_power")
    ELSE IF Says(m, {"rojo"}) THEN WaitSystem("schedule_visit")
    ELSE IF Says(m, {"verde"}) THEN WaitSystem("recheck")
    ELSE WaitUser("ask_led_status")

\* Mutant: a message it does not understand starts the questions over.
VerifyPowerStartingOver(m) ==
    IF Says(m, {"rojo"}) THEN WaitSystem("schedule_visit")
    ELSE IF Says(m, {"apagado", "no prende"}) THEN WaitUser("schedule_visit")
    ELSE IF Says(m, {"verde", "luces"}) THEN WaitSystem("recheck")
    ELSE WaitUser("ask_led_status")

\* "sin luces" alone is not among the phrases of the second case.
VerifyPower(m) ==
    IF Says(m, {"rojo"}) THEN WaitSystem("schedule_visit")
    ELSE IF Says(m, {"apagado", "no prende"}) THEN WaitUser("schedule_visit")
    ELSE IF Says(m, {"verde", "luces"}) THEN WaitSystem("recheck")
    ELSE WaitUser("verify_power")

\* Mutant: a recovered ONU is to be rechecked once more.
RecheckAgain(diagnosis) ==
    IF diagnosis = "SUCCESS" THEN WaitSystem("recheck") ELSE WaitUser("schedule_visit")

\* RecheckHandler, once the OLT has been read and diagnosed, or has failed.
RecheckVerdict(diagnosis) ==
    IF diagnosis = "SUCCESS" THEN Complete ELSE WaitUser("schedule_visit")
RecheckFailed == WaitUser("transfer_support")

\* WorkflowEngine.execute for a session at s = [status, step].  A session at
\* RECHECK is not decided here: its handler first goes back to the OLT.
Closed(s) == s.status \in {"completed", "failed"}
NeedsRecheck(s) == ~Closed(s) /\ s.step = "recheck"

\* Mutant: sessions that have ended are not told apart.
ReactionIgnoringClosed(s, m) ==
    IF s.step = "ask_led_status" THEN AskLedStatus(m)
    ELSE IF s.step = "verify_power" THEN VerifyPower(m)
    ELSE IF s.step \in {"schedule_visit", "transfer_support"} THEN Complete
    ELSE WaitUser("transfer_support")

\* The engine: closed sessions first, then the handler of the step.
Reaction(s, m) ==
    IF s.status = "completed" THEN Complete
    ELSE IF s.status = "failed" THEN Fail
    ELSE IF s.step = "ask_led_status" THEN AskLedStatus(m)
    ELSE IF s.step = "verify_power" THEN VerifyPower(m)
    ELSE IF s.step \in {"schedule_visit", "transfer_support"} THEN Complete
    ELSE WaitUser("transfer_support")

-----------------------------------------------------------------------------
\* How far a session is from being closed.
Rank(s) ==
    IF Closed(s) THEN 0
    ELSE IF s.step \in {"schedule_visit", "transfer_support"} THEN 1
    ELSE IF s.step = "verify_power" THEN 3
    ELSE IF s.step = "ask_led_status" THEN 4
    ELSE 2
=============================================================================
