----------------------- MODULE MikrotikFirewallProofs -----------------------
(***************************************************************************)
(* Orders that agree keep an IP in a single list, and orders that do not   *)
(* leave it in two at most, for any number of IPs and orders.              *)
(***************************************************************************)
EXTENDS MikrotikFirewall, TLAPS

Single(ip) == entries[ip] = <<>> \/ \E l \in Lists : entries[ip] = <<l>>

\* What an order saw still says which command puts the IP where it wants it.
SeenHolds(r) ==
    /\ pc[r] = "act" /\ seen[r] = "none" => Of(r) = <<>> \/ Of(r) = <<Wanted(r)>>
    /\ pc[r] = "act" /\ seen[r] # "none" => Of(r) # <<>>
    /\ pc[r] = "verify" => Of(r) = <<Wanted(r)>>

FirewallInv ==
    /\ TypeOK
    /\ \A ip \in Ips \ opposed : Single(ip)
    /\ \A r \in Orders : IpOf[r] \notin opposed => SeenHolds(r)

LEMMA OrderTypes == ASSUME NEW r \in Orders PROVE IpOf[r] \in Ips /\ Wanted(r) \in Lists
  BY FirewallAssumption DEF Wanted, Lists

\* The commands keep the router's entries sequences of lists.
LEMMA CommandTypes ==
    ASSUME NEW s \in Seq(Lists), NEW l \in Lists
    PROVE  Added(s, l) \in Seq(Lists) /\ Moved(s, l) \subseteq Seq(Lists)
<1>1. Added(s, l) \in Seq(Lists)
  BY DEF Added
<1>2. CASE Len(s) <= 1
  <2>1. [i \in DOMAIN s |-> l] \in Seq(Lists)
    OBVIOUS
  <2>2. QED BY <1>1, <1>2, <2>1 DEF Moved
<1>3. CASE ~(Len(s) <= 1)
  <2>1. <<l>> \in Seq(Lists) /\ [s EXCEPT ![1] = l] \in Seq(Lists)
    BY <1>3
  <2>2. QED BY <1>1, <1>3, <2>1 DEF Moved
<1>4. QED BY <1>2, <1>3

\* On an IP in one list or none, the right command leaves it in the wanted one.
LEMMA CommandHits ==
    ASSUME NEW l \in Lists, NEW k \in Lists
    PROVE  /\ Added(<<>>, l) = <<l>> /\ Added(<<l>>, l) = <<l>>
           /\ Moved(<<k>>, l) = {<<l>>}
<1>1. Added(<<>>, l) = <<l>> /\ Added(<<l>>, l) = <<l>>
  BY DEF Added
<1>2. Len(<<k>>) <= 1 /\ [i \in DOMAIN <<k>> |-> l] = <<l>>
  OBVIOUS
<1>3. QED BY <1>1, <1>2 DEF Moved

LEMMA FirewallStarts == Init => FirewallInv
<1> SUFFICES ASSUME Init PROVE FirewallInv
  OBVIOUS
<1>1. entries \in [Ips -> Seq(Lists)] /\ \A ip \in Ips : Single(ip)
  <2> DEFINE Short == {<<>>} \cup {<<l>> : l \in Lists}
  <2>1. <<>> \in Seq(Lists) /\ \A l \in Lists : <<l>> \in Seq(Lists)
    OBVIOUS
  <2>2. entries \in [Ips -> Short]
    BY DEF Init
  <2>3. \A s \in Short : s = <<>> \/ \E l \in Lists : s = <<l>>
    OBVIOUS
  <2> HIDE DEF Short
  <2>4. \A s \in Short : s \in Seq(Lists)
    BY <2>1, <2>3
  <2>5. QED BY <2>2, <2>3, <2>4 DEF Single
<1>2. TypeOK
  BY <1>1 DEF Init, TypeOK, Stages
<1>3. \A r \in Orders : SeenHolds(r)
  BY DEF Init, SeenHolds
<1>4. QED BY <1>1, <1>2, <1>3 DEF FirewallInv

\* An act on an IP that nobody opposes puts it in the wanted list.
LEMMA ActHits ==
    ASSUME FirewallInv, NEW r \in Orders, Act(r), IpOf[r] \notin opposed
    PROVE  entries'[IpOf[r]] = <<Wanted(r)>>
<1>1. IpOf[r] \in Ips /\ Wanted(r) \in Lists /\ Single(IpOf[r]) /\ SeenHolds(r) /\ pc[r] = "act"
  BY OrderTypes DEF FirewallInv, Act
<1>2. PICK s \in IF seen[r] # "none" THEN Moved(Of(r), Wanted(r)) ELSE {Added(Of(r), Wanted(r))} :
         entries' = [entries EXCEPT ![IpOf[r]] = s]
  BY DEF Act
<1>3. CASE seen[r] = "none"
  <2>1. Of(r) = <<>> \/ Of(r) = <<Wanted(r)>>
    BY <1>1, <1>3 DEF SeenHolds
  <2>2. s = <<Wanted(r)>>
    BY <1>1, <1>2, <1>3, <2>1, CommandHits
  <2>3. QED BY <1>1, <1>2, <2>2 DEF FirewallInv, TypeOK
<1>4. CASE seen[r] # "none"
  <2>1. PICK k \in Lists : Of(r) = <<k>>
    BY <1>1, <1>4 DEF SeenHolds, Single, Of
  <2>2. s = <<Wanted(r)>>
    BY <1>1, <1>2, <1>4, <2>1, CommandHits
  <2>3. QED BY <1>1, <1>2, <2>2 DEF FirewallInv, TypeOK
<1>5. QED BY <1>3, <1>4

LEMMA ActKeeps == ASSUME FirewallInv, NEW r \in Orders, Act(r) PROVE FirewallInv'
<1>1. IpOf[r] \in Ips /\ Wanted(r) \in Lists /\ pc[r] = "act"
  BY OrderTypes DEF Act
<1>2. TypeOK'
  <2>1. entries[IpOf[r]] \in Seq(Lists)
    BY <1>1 DEF FirewallInv, TypeOK
  <2>2. PICK s \in Seq(Lists) : entries' = [entries EXCEPT ![IpOf[r]] = s]
    BY <1>1, <2>1, CommandTypes DEF Act, Of
  <2>3. QED BY <1>1, <2>2 DEF Act, Goto, FirewallInv, TypeOK, Stages
<1>3. /\ \A q \in Orders : q # r => pc'[q] = pc[q]
      /\ pc'[r] \in {"verify", "failed"} /\ seen' = seen
  BY DEF Act, Goto, FirewallInv, TypeOK
<1>4. \A ip \in Ips : ip # IpOf[r] => entries'[ip] = entries[ip] /\ (ip \in opposed' <=> ip \in opposed)
  BY DEF Act, FirewallInv, TypeOK
<1>5. CASE IpOf[r] \in opposed'
  BY <1>2, <1>3, <1>4, <1>5, OrderTypes DEF FirewallInv, Single, SeenHolds, Of
<1>6. CASE IpOf[r] \notin opposed'
  <2>1. IpOf[r] \notin opposed /\ Opponents(r) = {}
    BY <1>6 DEF Act
  <2>2. entries'[IpOf[r]] = <<Wanted(r)>>
    BY <2>1, ActHits
  <2>3. ASSUME NEW q \in Orders, IpOf[q] = IpOf[r] PROVE SeenHolds(q)'
    <3>1. pc'[q] \in {"act", "verify"} => Wanted(q) = Wanted(r)
      BY <1>3, <2>1, <2>3 DEF Opponents
    <3>2. <<Wanted(r)>> # <<>>
      OBVIOUS
    <3>3. QED BY <2>2, <2>3, <3>1, <3>2 DEF SeenHolds, Of
  <2>4. ASSUME NEW q \in Orders, IpOf[q] # IpOf[r], IpOf[q] \notin opposed' PROVE SeenHolds(q)'
    BY <1>3, <1>4, <2>4, OrderTypes DEF FirewallInv, SeenHolds, Of
  <2>5. \A ip \in Ips \ opposed' : Single(ip)'
    BY <1>1, <1>4, <2>2 DEF FirewallInv, Single
  <2>6. QED BY <1>2, <2>3, <2>4, <2>5 DEF FirewallInv
<1>7. QED BY <1>5, <1>6

LEMMA FirewallStep == FirewallInv /\ [Next]_vars => FirewallInv'
<1> SUFFICES ASSUME FirewallInv, [Next]_vars PROVE FirewallInv'
  OBVIOUS
<1>1. ASSUME NEW r \in Orders, Arrive(r) \/ Verify(r) \/ Break(r) PROVE FirewallInv'
  <2>1. PICK l \in {"status", "failed", "success", "unconfirmed"} : Goto(r, l)
    BY <1>1 DEF Arrive, Verify, Break
  <2>2. UNCHANGED <<entries, seen, opposed>>
    BY <1>1 DEF Arrive, Verify, Break
  <2>3. TypeOK'
    BY <2>1, <2>2 DEF Goto, FirewallInv, TypeOK, Stages
  <2>4. \A q \in Orders : pc'[q] \in {"act", "verify"} => pc'[q] = pc[q]
    BY <2>1 DEF Goto, FirewallInv, TypeOK
  <2>5. \A q \in Orders : IpOf[q] \notin opposed' => SeenHolds(q)'
    BY <2>2, <2>4 DEF FirewallInv, SeenHolds, Of
  <2>6. QED BY <2>2, <2>3, <2>5 DEF FirewallInv, Single
<1>2. ASSUME NEW r \in Orders, GetClientStatus(r) PROVE FirewallInv'
  <2>1. Of(r) \in Seq(Lists) /\ IpOf[r] \in Ips
    BY OrderTypes DEF FirewallInv, TypeOK, Of
  <2>2. ListSeen(Of(r)) \in Lists \cup {"none"} /\ (ListSeen(Of(r)) = "none" <=> Of(r) = <<>>)
    BY <2>1, FirewallAssumption DEF ListSeen, Lists
  <2>3. TypeOK'
    BY <1>2, <2>2 DEF GetClientStatus, Goto, FirewallInv, TypeOK, Stages
  <2>4. ASSUME NEW q \in Orders, IpOf[q] \notin opposed' PROVE SeenHolds(q)'
    <3>1. CASE q = r
      <4>1. pc'[q] = "act" /\ seen'[q] = ListSeen(Of(r)) /\ Of(q)' = Of(r)
        BY <1>2, <3>1 DEF GetClientStatus, Goto, FirewallInv, TypeOK, Of
      <4>2. QED BY <2>2, <4>1 DEF SeenHolds
    <3>2. CASE q # r
      <4>1. pc'[q] = pc[q] /\ seen'[q] = seen[q] /\ Of(q)' = Of(q) /\ opposed' = opposed
        BY <1>2, <3>2 DEF GetClientStatus, Goto, FirewallInv, TypeOK, Of
      <4>2. QED BY <2>4, <4>1 DEF FirewallInv, SeenHolds
    <3>3. QED BY <3>1, <3>2
  <2>5. QED BY <1>2, <2>3, <2>4 DEF GetClientStatus, FirewallInv, Single
<1>3. CASE UNCHANGED vars
  BY <1>3 DEF vars, FirewallInv, TypeOK, Single, SeenHolds, Of
<1>4. QED BY <1>1, <1>2, <1>3, ActKeeps DEF Next

LEMMA FirewallInvariant == Spec => []FirewallInv
  BY FirewallStarts, FirewallStep, PTL DEF Spec

LEMMA SingleLength == ASSUME NEW ip, Single(ip) PROVE Len(entries[ip]) <= 1
<1>1. Len(<<>>) = 0 /\ \A l \in Lists : Len(<<l>>) = 1
  OBVIOUS
<1>2. CASE entries[ip] = <<>>
  BY <1>1, <1>2
<1>3. CASE \E l \in Lists : entries[ip] = <<l>>
  BY <1>1, <1>3
<1>4. QED BY <1>2, <1>3 DEF Single

\* An IP whose overlapping orders agree is in one list at most.
THEOREM StaysSingle == Spec => []UnopposedStaysSingle
<1>1. FirewallInv => UnopposedStaysSingle
  BY SingleLength DEF FirewallInv, UnopposedStaysSingle
<1>2. QED BY <1>1, FirewallInvariant, PTL

\* Each such order that verifies succeeds.
THEOREM OrdersSucceed == Spec => UnopposedSucceeds
<1>1. ASSUME FirewallInv, NEW r \in Orders, Verify(r), IpOf[r] \notin opposed
      PROVE  pc'[r] = "success" /\ entries'[IpOf[r]] = <<Wanted(r)>>
  <2>1. Of(r) = <<Wanted(r)>> /\ pc \in [Orders -> Stages]
    BY <1>1 DEF FirewallInv, SeenHolds, Verify, TypeOK
  <2>2. StatusOf(ListSeen(Of(r))) = WantedStatus(r)
    BY <2>1, FirewallAssumption DEF ListSeen, StatusOf, WantedStatus, Wanted
  <2>3. QED BY <1>1, <2>1, <2>2 DEF Verify, Goto, Of
<1>2. FirewallInv =>
         \A r \in Orders : Verify(r) /\ IpOf[r] \notin opposed =>
             pc'[r] = "success" /\ entries'[IpOf[r]] = <<Wanted(r)>>
  BY <1>1
<1>3. QED BY <1>2, FirewallInvariant, PTL DEF UnopposedSucceeds

-----------------------------------------------------------------------------
(* Orders that oppose each other.                                          *)

Both == {<<"Habilitado", "CORTADO">>, <<"CORTADO", "Habilitado">>}

\* Where orders can leave an IP that was in no list.
Small == {<<>>, <<"Habilitado">>, <<"CORTADO">>} \cup Both

\* Only an order that saw the IP in no list adds an entry, and since then nobody
\* but orders has put it anywhere.
SurplusInv ==
    /\ \A ip \in Ips : Single(ip) \/ entries[ip] \in Both
    /\ \A r \in Orders : pc[r] = "act" /\ seen[r] = "none" => Of(r) \in Small

\* An entry added to one.
LEMMA AppendToOne ==
    ASSUME NEW S, NEW a \in S, NEW b \in S
    PROVE  Append(<<a>>, b) = <<a, b>>
<1>1. ASSUME NEW s \in Seq(S) PROVE Append(s, b) \in Seq(S)
  OBVIOUS
<1>2. ASSUME NEW s \in Seq(S) PROVE Len(Append(s, b)) = Len(s) + 1
  OBVIOUS
<1>3. ASSUME NEW s \in Seq(S) PROVE Append(s, b)[Len(s) + 1] = b
  OBVIOUS
<1>4. ASSUME NEW s \in Seq(S), NEW i \in 1 .. Len(s) PROVE Append(s, b)[i] = s[i]
  OBVIOUS
<1>5. ASSUME NEW s \in Seq(S), Len(s) = 1, s[1] = a,
             NEW t \in Seq(S), Len(t) = 2, t[1] = a, t[2] = b
      PROVE  Append(s, b) = t
  <2>1. Len(s) + 1 = 2 /\ 1 \in 1 .. Len(s)
    BY <1>5
  <2>2. Append(s, b) \in Seq(S)
    BY <1>1
  <2>3. Len(Append(s, b)) = 2
    BY <1>2, <2>1, Zenon
  <2>4. Append(s, b)[1] = a
    BY <1>4, <1>5, <2>1, Zenon
  <2>5. Append(s, b)[2] = b
    BY <1>3, <2>1, Zenon
  <2> DEFINE u == Append(s, b)
  <2> HIDE DEF u
  <2>6. u = t
    <3>1. u \in Seq(S) /\ Len(u) = 2 /\ u[1] = a /\ u[2] = b
      BY <2>2, <2>3, <2>4, <2>5 DEF u
    <3>2. QED BY <1>5, <3>1
  <2>7. QED BY <2>6 DEF u
<1>6. <<a>> \in Seq(S) /\ Len(<<a>>) = 1 /\ <<a>>[1] = a
  OBVIOUS
<1>7. <<a, b>> \in Seq(S) /\ Len(<<a, b>>) = 2 /\ <<a, b>>[1] = a /\ <<a, b>>[2] = b
  OBVIOUS
<1>8. QED BY <1>5, <1>6, <1>7

\* The commands never leave an IP in more than the two lists of the orders.
LEMMA CommandsBound ==
    ASSUME NEW l \in {"Habilitado", "CORTADO"}
    PROVE  /\ \A s \in Small : Added(s, l) \in Small
           /\ \A s \in Small : Moved(s, l) \subseteq Small
           /\ \A s \in Both : Moved(s, l) \subseteq {<<l>>} \cup Both
<1>1. l \in Lists /\ "Habilitado" \in Lists /\ "CORTADO" \in Lists
  BY DEF Lists
<1>2. \A k \in {"Habilitado", "CORTADO"} : <<k>> \in Small
  BY DEF Small
<1>3. Added(<<>>, l) = <<l>> /\ Moved(<<>>, l) = {<<>>}
  BY DEF Added, Moved
<1>4. ASSUME NEW k \in {"Habilitado", "CORTADO"}
      PROVE  Added(<<k>>, l) \in Small /\ Moved(<<k>>, l) = {<<l>>}
  <2>1. Moved(<<k>>, l) = {<<l>>}
    BY <1>1, CommandHits
  <2>2. CASE k = l
    BY <1>1, <1>2, <2>1, <2>2, CommandHits
  <2>3. CASE k # l
    <3>1. Added(<<k>>, l) = <<k, l>>
      <4>1. Added(<<k>>, l) = Append(<<k>>, l)
        BY <2>3 DEF Added
      <4>2. QED BY <4>1, AppendToOne
    <3>2. <<k, l>> \in Both
      BY <2>3 DEF Both
    <3>3. QED BY <2>1, <3>1, <3>2 DEF Small
  <2>4. QED BY <2>2, <2>3
<1>5. ASSUME NEW s \in Both PROVE Added(s, l) = s /\ Moved(s, l) = {<<l>>, s}
  <2>1. Len(s) = 2 /\ \E i \in DOMAIN s : s[i] = l
    <3>1. CASE s = <<"Habilitado", "CORTADO">>
      BY <3>1
    <3>2. CASE s = <<"CORTADO", "Habilitado">>
      BY <3>2
    <3>3. QED BY <3>1, <3>2 DEF Both
  <2>2. QED BY <2>1 DEF Added, Moved
<1>6. ASSUME NEW s \in Small PROVE Added(s, l) \in Small /\ Moved(s, l) \subseteq Small
  <2>1. CASE s = <<>>
    BY <1>2, <1>3, <2>1 DEF Small
  <2>2. CASE s \in {<<"Habilitado">>, <<"CORTADO">>}
    BY <1>2, <1>4, <2>2
  <2>3. CASE s \in Both
    BY <1>2, <1>5, <2>3 DEF Small
  <2>4. QED BY <2>1, <2>2, <2>3 DEF Small
<1>7. QED BY <1>5, <1>6

LEMMA ActBounded ==
    ASSUME FirewallInv, SurplusInv, NEW r \in Orders, Act(r)
    PROVE  SurplusInv'
<1>1. /\ IpOf[r] \in Ips /\ Wanted(r) \in {"Habilitado", "CORTADO"} /\ Wanted(r) \in Lists
      /\ pc[r] = "act" /\ Of(r) = entries[IpOf[r]]
  BY OrderTypes DEF Act, Of, Wanted
<1>2. PICK s \in IF seen[r] # "none" THEN Moved(Of(r), Wanted(r)) ELSE {Added(Of(r), Wanted(r))} :
         entries' = [entries EXCEPT ![IpOf[r]] = s]
  BY DEF Act
<1>3. \A ip \in Ips : entries'[ip] = IF ip = IpOf[r] THEN s ELSE entries[ip]
  BY <1>1, <1>2 DEF FirewallInv, TypeOK
<1>4. Of(r) \in Small => s \in Small
  BY <1>1, <1>2, CommandsBound
<1>5. s = <<>> \/ (\E l \in Lists : s = <<l>>) \/ s \in Both
  <2>1. CASE Of(r) \in Small
    <3>1. s \in Small
      BY <1>4, <2>1
    <3>2. "Habilitado" \in Lists /\ "CORTADO" \in Lists
      BY DEF Lists
    <3>3. s = <<>> \/ s = <<"Habilitado">> \/ s = <<"CORTADO">> \/ s \in Both
      BY <3>1 DEF Small
    <3>4. QED BY <3>2, <3>3
  <2>2. CASE Of(r) \notin Small
    <3>1. s \in Moved(Of(r), Wanted(r))
      BY <1>1, <1>2, <2>2 DEF SurplusInv
    <3>2. PICK k \in Lists : Of(r) = <<k>>
      BY <1>1, <2>2 DEF SurplusInv, Single, Small
    <3>3. QED BY <1>1, <3>1, <3>2, CommandHits
  <2>3. QED BY <2>1, <2>2
<1>6. \A ip \in Ips : (Single(ip) \/ entries[ip] \in Both)'
  BY <1>3, <1>5 DEF SurplusInv, Single
<1>7. ASSUME NEW q \in Orders, pc'[q] = "act", seen'[q] = "none" PROVE Of(q)' \in Small
  <2>1. pc[q] = "act" /\ seen[q] = "none"
    BY <1>7 DEF Act, Goto, FirewallInv, TypeOK
  <2>2. Of(q) \in Small
    BY <2>1 DEF SurplusInv
  <2>3. QED BY <1>3, <1>4, <2>2, OrderTypes DEF Of
<1>8. QED BY <1>6, <1>7 DEF SurplusInv

LEMMA SurplusStep == FirewallInv /\ SurplusInv /\ [Next]_vars => SurplusInv'
<1> SUFFICES ASSUME FirewallInv, SurplusInv, [Next]_vars PROVE SurplusInv'
  OBVIOUS
<1>1. ASSUME NEW r \in Orders, Arrive(r) \/ Verify(r) \/ Break(r) PROVE SurplusInv'
  <2>1. UNCHANGED <<entries, seen>>
    BY <1>1 DEF Arrive, Verify, Break
  <2>2. \A q \in Orders : pc'[q] = "act" => pc[q] = "act"
    BY <1>1 DEF Arrive, Verify, Break, Goto, FirewallInv, TypeOK
  <2>3. QED BY <2>1, <2>2 DEF SurplusInv, Single, Of
<1>2. ASSUME NEW r \in Orders, GetClientStatus(r) PROVE SurplusInv'
  <2>1. Of(r) \in Seq(Lists) /\ IpOf[r] \in Ips
    BY OrderTypes DEF FirewallInv, TypeOK, Of
  <2>2. ListSeen(Of(r)) = "none" => Of(r) = <<>>
    BY <2>1, FirewallAssumption DEF ListSeen, Lists
  <2>3. /\ seen'[r] = ListSeen(Of(r)) /\ entries' = entries
        /\ \A q \in Orders : q # r => pc'[q] = pc[q] /\ seen'[q] = seen[q]
    BY <1>2 DEF GetClientStatus, Goto, FirewallInv, TypeOK
  <2>4. QED BY <2>2, <2>3 DEF SurplusInv, Single, Of, Small
<1>3. CASE UNCHANGED vars
  BY <1>3 DEF vars, SurplusInv, Single, Of
<1>4. QED BY <1>1, <1>2, <1>3, ActBounded DEF Next

\* However many orders overlap, and whatever they want, an IP ends in the lists of
\* a cut and of a reactivation at worst (cutClient and reactivateClient, which look
\* an IP up in one session and act on what they saw in another).
THEOREM OverlapsBounded == Spec => []OverlapsLeaveTwoAtMost
<1>1. Init => SurplusInv
  <2> SUFFICES ASSUME Init PROVE SurplusInv
    OBVIOUS
  <2>1. FirewallInv /\ opposed = {}
    BY FirewallStarts DEF Init
  <2>2. QED BY <2>1 DEF Init, SurplusInv, FirewallInv
<1>2. SurplusInv => OverlapsLeaveTwoAtMost
  BY SingleLength DEF SurplusInv, OverlapsLeaveTwoAtMost, Both
<1>3. QED BY <1>1, <1>2, SurplusStep, FirewallInvariant, PTL DEF Spec

\* Type correctness of the router's lists and the orders.
THEOREM TypeCorrect == Spec => []TypeOK
<1>1. FirewallInv => TypeOK
  BY DEF FirewallInv
<1>2. QED BY <1>1, FirewallInvariant, PTL
=============================================================================
