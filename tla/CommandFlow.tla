------------------------------ MODULE CommandFlow ------------------------------
(***************************************************************************)
(* What CommandExecutor.runFlow promises an adapter, whatever happens on the  *)
(* shell: the steps are entered in the history in their order, each once; none *)
(* after a required step that failed; each with its own reply or a failure until  *)
(* the first trouble, and after that never with a reply that is too new or     *)
(* older than one already given; and the flow ends.                        *)
(***************************************************************************)
EXTENDS Integers

CONSTANTS N, Required

VARIABLES step, done, status, raw, trouble

vars == <<step, done, status, raw, trouble>>

Init ==
    /\ step = 1 /\ done = FALSE
    /\ status = [k \in 1 .. N |-> "none"] /\ raw = [k \in 1 .. N |-> {}]
    /\ trouble \in {0, 1}

Own(output) ==
    /\ [of |-> step, kind |-> "prompt"] \in output
    /\ \A p \in output : p.of = step

Late(output) ==
    \A p \in output :
        /\ p.of <= step
        /\ p.of # 0 => \A j \in 1 .. step - 1 : \A o \in raw[j] : o.of <= p.of

\* Trouble, once there, is there to stay.
Entry(s, output) ==
    /\ trouble' = trouble \/ (trouble = 0 /\ trouble' = step)
    /\ s = "failed" => output = {}
    /\ s = "ok" => IF trouble' = 0 THEN Own(output) ELSE Late(output)

Enter(s) ==
    /\ ~done
    /\ Entry(s, raw'[step])
    /\ status' = [status EXCEPT ![step] = s]
    /\ \A k \in 1 .. N : k # step => raw'[k] = raw[k]
    /\ done' = (step = N \/ (s = "failed" /\ step \in Required))
    /\ step' = IF done' THEN step ELSE step + 1

Next == \E s \in {"ok", "failed"} : Enter(s)

Spec == Init /\ [][Next]_vars /\ <>done
=============================================================================
