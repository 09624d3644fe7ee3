------------------------------ MODULE LoginSteps ------------------------------
(***************************************************************************)
(* The login tables of the four brands (adapters/*/steps/login.steps.ts): what   *)
(* is typed, in order, and the conditions SSHService.waitForAny looks for      *)
(* after each.  A text is what a terminal prints at a time:                 *)
(*    "routerPrompt"                       of the router the telnet leaves from *)
(*    "userPrompt", "privPrompt", "configPrompt"    of the OLT's three modes *)
(*    "askKey", "askUser", "askPassword"            what a login asks for   *)
(*    "reset", "refused"                   why there is no telnet           *)
(*    "rejected", "locked", "expired"      why there is no login            *)
(*    "unknown"                            no such command                  *)
(*    "like"                               a banner that ends in "#" or ">" *)
(***************************************************************************)
EXTENDS Naturals, Sequences

Texts == {"routerPrompt", "userPrompt", "privPrompt", "configPrompt",
          "askKey", "askUser", "askPassword", "reset", "refused",
          "rejected", "locked", "expired", "unknown", "like"}

\* Texts that end in "#", and in "#" or ">".
HashTexts == {"privPrompt", "configPrompt", "like"}
PromptTexts == HashTexts \cup {"userPrompt", "routerPrompt"}

\* A condition: a text that must come first (or none), the texts one of which it
\* is then found in, whether only where the text ends, and whether the
\* login goes on.
Within(texts) == [first |-> {}, in |-> texts, atEnd |-> FALSE, continue |-> TRUE]
Ending(texts) == [Within(texts) EXCEPT !.atEnd = TRUE]
EndingAfter(t, texts) == [Ending(texts) EXCEPT !.first = {t}]
Stop(condition) == [condition EXCEPT !.continue = FALSE]

Step(command, success) == [command |-> command, success |-> success]

NoTelnet == <<Stop(Within({"reset"})), Stop(Within({"refused"}))>>
UserLocked == Stop(Within({"locked"}))
NoSuchCommand == Stop(Within({"unknown"}))

\* Mutant: "continue: true" for a locked user.
HuaweiLoginLocked ==
    <<Step("telnet", <<Within({"askUser"})>> \o NoTelnet \o <<UserLocked>>),
      Step("user", <<Within({"askPassword"}), Within({"locked"})>>),
      Step("password", <<Within({"userPrompt"}), Stop(Within({"expired"})), UserLocked,
                         Stop(Within({"rejected", "askUser"}))>>),
      Step("enable", <<Ending({"userPrompt", "privPrompt", "configPrompt"}), NoSuchCommand>>),
      Step("configure", <<Ending({"configPrompt"}), NoSuchCommand>>)>>

HuaweiLogin ==
    <<Step("telnet", <<Within({"askUser"})>> \o NoTelnet \o <<UserLocked>>),
      Step("user", <<Within({"askPassword"}), UserLocked>>),
      Step("password", <<Within({"userPrompt"}), Stop(Within({"expired"})), UserLocked,
                         Stop(Within({"rejected", "askUser"}))>>),
      Step("enable", <<Ending({"userPrompt", "privPrompt", "configPrompt"}), NoSuchCommand>>),
      Step("configure", <<Ending({"configPrompt"}), NoSuchCommand>>)>>

\* Mutant: "Unknown command" is enough, the prompt after it is not waited for.
VsolLoginHasty ==
    <<Step("telnet", <<Within({"askUser"})>> \o NoTelnet),
      Step("user", <<Within({"askPassword"})>>),
      Step("password", <<Ending(PromptTexts), Stop(Within({"rejected"}))>>),
      Step("enable", <<Within({"askPassword"}), Ending(HashTexts),
                       EndingAfter("unknown", HashTexts)>>),
      Step("password", <<Ending(HashTexts)>>),
      Step("configure", <<Ending({"configPrompt"}), Within({"unknown"})>>)>>

VsolLogin ==
    <<Step("telnet", <<Within({"askUser"})>> \o NoTelnet),
      Step("user", <<Within({"askPassword"})>>),
      Step("password", <<Ending(PromptTexts), Stop(Within({"rejected"}))>>),
      Step("enable", <<Within({"askPassword"}), Ending(HashTexts),
                       EndingAfter("unknown", HashTexts)>>),
      Step("password", <<Ending(HashTexts)>>),
      Step("configure", <<Ending({"configPrompt"}), EndingAfter("unknown", HashTexts)>>)>>

CdataLogin ==
    <<Step("telnet", <<Within({"askUser"})>> \o NoTelnet),
      Step("user", <<Within({"askPassword"})>>),
      Step("password", <<Ending(PromptTexts), Stop(Within({"rejected"}))>>)>>

KingtypeLogin ==
    <<Step("telnet", <<Within({"askKey"})>>),
      Step("key", <<Within({"askUser"})>>),
      Step("user", <<Within({"askPassword"})>>),
      Step("password", <<Ending(PromptTexts)>>),
      Step("enable", <<Ending({"privPrompt"}), Ending(HashTexts)>>),
      Step("configure", <<Ending({"configPrompt"})>>),
      Step("noLogging", <<Ending({"configPrompt"}), Within({"unknown"})>>)>>

Brands == {"huawei", "v-sol", "c-data", "kingtype"}

\* LOGIN_STEPS: nothing for an OLT without a brand ("sm").
LoginOf(brand) ==
    CASE brand = "huawei" -> HuaweiLogin
      [] brand = "v-sol" -> VsolLogin
      [] brand = "c-data" -> CdataLogin
      [] brand = "kingtype" -> KingtypeLogin
      [] OTHER -> <<>>

-----------------------------------------------------------------------------
\* Whether what has arrived satisfies condition c, and the places where the text
\* that was found may be taken to end: "#" and ">" are looked up again from
\* the start, so for those any earlier text that ends in them will do.
Holds(c, b) ==
    /\ \A t \in c.first : \E i \in DOMAIN b : b[i] = t
    /\ IF c.atEnd THEN b # <<>> /\ b[Len(b)] \in c.in
                  ELSE \E i \in DOMAIN b : b[i] \in c.in

Ends(c, b) ==
    IF ~c.atEnd THEN {i \in DOMAIN b : b[i] \in c.in /\ \A j \in 1 .. i - 1 : b[j] \notin c.in}
    ELSE {i \in DOMAIN b : i = Len(b) \/ ("like" \in c.in /\ c.first = {} /\ b[i] \in c.in)}
=============================================================================
