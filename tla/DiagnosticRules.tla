--------------------------- MODULE DiagnosticRules ---------------------------
(***************************************************************************)
(* The vocabulary and the catalogues of the diagnostic: what an OLT read   *)
(* tells about a subscriber's ONU, which finding each problem is reported  *)
(* as, and where each recommended action parks the conversation.           *)
(*                                                                         *)
(* Texts (descriptions, instructions, severities, priorities) are left     *)
(* out: no decision of the service reads them.                             *)
(***************************************************************************)
EXTENDS Integers

CONSTANTS
    PowerReadings,  \* received optical powers considered, in hundredths of a dBm
    NoReading       \* the OLT gave no power

ASSUME PowerAssumption == PowerReadings \subseteq Int /\ NoReading \notin Int

RunStates == {"missing", "online", "offline", "powerdown"}

\* The part of TechnicalDataResponseDTO that the analyzers look at.  "missing"
\* is state = null; any state but offline and powerdown counts as "online".
Technical == [onu : BOOLEAN, runState : RunStates,
              power : PowerReadings \cup {NoReading}, mac : BOOLEAN]

DiagnosticStatuses == {"SUCCESS", "WARNING", "FAILED", "CRITICAL"}
WorkflowStatuses == {"in_progress", "waiting_user", "waiting_system", "completed", "failed"}

\* "null" is the absent step of a diagnosis that found nothing.
WorkflowSteps == {"null", "none", "ask_led_status", "verify_power", "reboot_onu", "recheck",
                  "request_information", "schedule_visit", "transfer_support",
                  "onu_not_available"}

FindingTypes == {"onu_not_found", "ont_not_available", "onu_offline", "power_not_available",
                 "critical_low_power", "low_power", "high_power", "no_mac", "config_error",
                 "unknown"}

ActionTypes == {"continue", "ask_led_status", "request_information", "hook_user_device",
                "verify_power", "reboot_onu", "recheck", "schedule_visit", "transfer_support",
                "finish"}

-----------------------------------------------------------------------------
Mild == {"low_power", "no_mac"}

FindingCatalog ==
    [f \in FindingTypes |-> [stop |-> f \notin Mild,
                             status |-> IF f \in Mild THEN "WARNING" ELSE "CRITICAL"]]

Parked(status, step) == [status |-> status, step |-> step, stop |-> TRUE]

WorkflowCatalog ==
    [a \in ActionTypes |->
        CASE a \in {"ask_led_status", "request_information", "verify_power"}
                                                 -> Parked("waiting_user", a)
          [] a \in {"reboot_onu", "recheck"}     -> Parked("waiting_system", a)
          [] a = "hook_user_device"              -> Parked("waiting_system", "onu_not_available")
          [] a \in {"schedule_visit", "transfer_support"} -> Parked("completed", a)
          [] a = "finish"                        -> Parked("completed", "none")
          [] a = "continue"                      -> [status |-> "in_progress", step |-> "none",
                                                     stop |-> FALSE]]

StatusPriority == [s \in DiagnosticStatuses |->
    CASE s = "SUCCESS" -> 0 [] s = "WARNING" -> 1 [] s = "FAILED" -> 2 [] s = "CRITICAL" -> 3]

\* The bands do not meet: readings strictly between -25 and -24 dBm, between
\* -28 and -27 dBm, above -8 dBm and below -40 dBm fall in none of them.
PowerLevel(p) ==
    CASE p >= -2400 /\ p <= -800  -> "EXCELLENT"
      [] p >= -2700 /\ p <= -2500 -> "WARNING"
      [] p >= -4000 /\ p <= -2800 -> "CRITICAL"
      [] OTHER                    -> "UNKNOWN"

-----------------------------------------------------------------------------
\* What the analyzers are meant to add up to: the first problem, in the order
\* onu, run state, power, mac, decides the whole verdict.  DiagnosticEngine
\* shows that the analyzer loop computes exactly this.
Verdict(status, wfStatus, step) == [status |-> status, wfStatus |-> wfStatus, step |-> step]

Offline(t) == t.runState \in {"offline", "powerdown"}
Weak(t, level) == t.power # NoReading /\ PowerLevel(t.power) = level

Diagnosis(t) ==
    IF ~t.onu THEN Verdict("CRITICAL", "waiting_system", "onu_not_available")
    ELSE IF Offline(t) THEN Verdict("CRITICAL", "waiting_user", "ask_led_status")
    ELSE IF Weak(t, "WARNING") THEN Verdict("WARNING", "completed", "schedule_visit")
    ELSE IF Weak(t, "CRITICAL") THEN Verdict("CRITICAL", "completed", "schedule_visit")
    ELSE IF ~t.mac THEN Verdict("WARNING", "waiting_user", "request_information")
    ELSE Verdict("SUCCESS", "completed", "null")
=============================================================================
