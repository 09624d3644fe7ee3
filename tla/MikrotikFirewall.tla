--------------------------- MODULE MikrotikFirewall --------------------------
(***************************************************************************)
(* MikrotikSshAdapter: cutting and reactivating a subscriber by moving the *)
(* IP between address-lists of a router.  An order looks the IP up in one  *)
(* SSH session and acts and verifies in a second one; nothing keeps        *)
(* another order for the same IP, of this process or of another, from      *)
(* acting in between, and any session may break.                           *)
(*                                                                         *)
(* The router is RouterOS as the adapter uses it: entries are printed in   *)
(* their order, and no two of them have the same list and address.         *)
(***************************************************************************)
EXTENDS Integers, Sequences

CONSTANTS
    Ips, Cuts, Reactivations, IpOf,
    OtherLists,  \* the other lists on the router, written by other hands, whose names
                 \* are of letters, digits, "_" and "-": the parser sees no others
    EnabledToo,  \* those with "habilitad" in their name, "Deshabilitado" included
    CutToo       \* those with "cortad", "moros", "suspend" or "bloque" in it

Orders == Cuts \cup Reactivations
Lists == {"Habilitado", "CORTADO"} \cup OtherLists
Wanted(r) == IF r \in Cuts THEN "CORTADO" ELSE "Habilitado"

ASSUME FirewallAssumption ==
    /\ Cuts \cap Reactivations = {}
    /\ IpOf \in [Orders -> Ips]
    /\ OtherLists \cap {"Habilitado", "CORTADO", "none"} = {}
    /\ EnabledToo \subseteq OtherLists /\ CutToo \subseteq OtherLists

VARIABLES
    entries,  \* the lists each IP is in, as the router prints them
    pc,       \* where each order is
    seen,     \* the list an order found the IP in, or "none"
    opposed   \* history: IPs of which orders wanting different lists overlapped

vars == <<entries, pc, seen, opposed>>

Stages == {"idle", "status", "act", "verify", "success", "unconfirmed", "failed"}

TypeOK ==
    /\ entries \in [Ips -> Seq(Lists)]
    /\ pc \in [Orders -> Stages]
    /\ seen \in [Orders -> Lists \cup {"none"}]
    /\ opposed \subseteq Ips

\* Before any order an IP is in one list or in none.
Init ==
    /\ entries \in [Ips -> {<<>>} \cup {<<l>> : l \in Lists}]
    /\ pc = [r \in Orders |-> "idle"]
    /\ seen = [r \in Orders |-> "none"]
    /\ opposed = {}

-----------------------------------------------------------------------------
Of(r) == entries[IpOf[r]]
Goto(r, l) == pc' = [pc EXCEPT ![r] = l]

\* Mutant: not found is an empty list name.
ListSeenUnnamed(printed) == IF printed = <<>> THEN "" ELSE printed[1]

\* parseMikrotikAddressList: the first entry printed is the IP's list.
ListSeen(printed) == IF printed = <<>> THEN "none" ELSE printed[1]

\* The parser tells the status by the name of the list, "habilitad" first.
StatusOf(list) ==
    IF list \in {"Habilitado"} \cup EnabledToo THEN "HABILITADO"
    ELSE IF list \in {"CORTADO"} \cup CutToo THEN "CORTADO"
    ELSE IF list = "none" THEN "NOT_FOUND" ELSE "UNKNOWN"

WantedStatus(r) == IF r \in Cuts THEN "CORTADO" ELSE "HABILITADO"

\* Two entries never become one list and address: the router refuses the command
\* at the first that would, or drops the surplus.
Moved(s, list) ==
    IF Len(s) <= 1 THEN {[i \in DOMAIN s |-> list]}
    ELSE {<<list>>, IF \E i \in DOMAIN s : s[i] = list THEN s ELSE [s EXCEPT ![1] = list]}

Added(s, list) == IF \E i \in DOMAIN s : s[i] = list THEN s ELSE Append(s, list)

\* Orders that have looked the same IP up and are not done with it.
Opponents(r) ==
    {q \in Orders : IpOf[q] = IpOf[r] /\ pc[q] \in {"act", "verify"} /\ Wanted(q) # Wanted(r)}

-----------------------------------------------------------------------------
\* The use case: a sector that is not configured ends the order.
Arrive(r) ==
    /\ pc[r] = "idle"
    /\ \E l \in {"status", "failed"} : Goto(r, l)
    /\ UNCHANGED <<entries, seen, opposed>>

\* getClientStatus, in a session of its own.
GetClientStatus(r) ==
    /\ pc[r] = "status"
    /\ seen' = [seen EXCEPT ![r] = ListSeen(Of(r))]
    /\ Goto(r, "act")
    /\ UNCHANGED <<entries, opposed>>

\* Mutant: the order never sets an entry, it always adds one.
ActAlwaysAdding(r) ==
    /\ pc[r] = "act"
    /\ entries' = [entries EXCEPT ![IpOf[r]] = Added(Of(r), Wanted(r))]
    /\ opposed' = IF Opponents(r) = {} THEN opposed ELSE opposed \cup {IpOf[r]}
    /\ \E l \in {"verify", "failed"} : Goto(r, l)
    /\ UNCHANGED seen

\* The command the order decided on by what it saw; the session may break with
\* the command already run.
Act(r) ==
    /\ pc[r] = "act"
    /\ \E s \in IF seen[r] # "none" THEN Moved(Of(r), Wanted(r)) ELSE {Added(Of(r), Wanted(r))} :
           entries' = [entries EXCEPT ![IpOf[r]] = s]
    /\ opposed' = IF Opponents(r) = {} THEN opposed ELSE opposed \cup {IpOf[r]}
    /\ \E l \in {"verify", "failed"} : Goto(r, l)
    /\ UNCHANGED seen

\* Mutant: verified against what the order saw before it acted.
VerifyWhatWasSeen(r) ==
    /\ pc[r] = "verify"
    /\ Goto(r, IF StatusOf(seen[r]) \in {WantedStatus(r), "NOT_FOUND"} THEN "success" ELSE "unconfirmed")
    /\ UNCHANGED <<entries, seen, opposed>>

\* The IP is printed again; success is having it first in a list of the wanted
\* status.
Verify(r) ==
    /\ pc[r] = "verify"
    /\ Goto(r, IF StatusOf(ListSeen(Of(r))) = WantedStatus(r) THEN "success" ELSE "unconfirmed")
    /\ UNCHANGED <<entries, seen, opposed>>

\* A session cannot be opened, breaks, or times out.
Break(r) ==
    /\ pc[r] \in {"status", "act", "verify"}
    /\ Goto(r, "failed")
    /\ UNCHANGED <<entries, seen, opposed>>

Next == \E r \in Orders : Arrive(r) \/ GetClientStatus(r) \/ Act(r) \/ Verify(r) \/ Break(r)

Spec == Init /\ [][Next]_vars

-----------------------------------------------------------------------------
\* Orders that agree, a retry of one that timed out for instance, do no harm
\* however they overlap: the IP stays in a single list.
UnopposedStaysSingle == \A ip \in Ips \ opposed : Len(entries[ip]) <= 1

\* Orders that do not agree do this much harm and no more, however many of them
\* overlap: the IP is in both of their lists, at worst, and in no third.
OverlapsLeaveTwoAtMost ==
    \A ip \in Ips : \/ Len(entries[ip]) <= 1
                    \/ entries[ip] \in {<<"Habilitado", "CORTADO">>, <<"CORTADO", "Habilitado">>}

\* And each order that nobody opposes and that gets to verify finds, and leaves, the IP in the wanted
\* list and in no other.
UnopposedSucceeds ==
    [][\A r \in Orders :
          Verify(r) /\ IpOf[r] \notin opposed =>
              pc'[r] = "success" /\ entries'[IpOf[r]] = <<Wanted(r)>>]_vars

\* docs/ARCHITECTURE_GUIDE.md: reactivating moves the IP to "Habilitado".  An
\* order confirmed as a success has left the IP in no other list.
ReactivationMoves ==
    [][\A r \in Reactivations :
          Verify(r) /\ pc'[r] = "success" => entries'[IpOf[r]] = <<"Habilitado">>]_vars
=============================================================================
