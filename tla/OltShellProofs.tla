---------------------------- MODULE OltShellProofs ----------------------------
(***************************************************************************)
(* For flows of any length: whatever times out, replies are only ever      *)
(* late; as long as nothing does, and where no interaction is greedy, every *)
(* command is paired with its own reply; and the shell implements the       *)
(* abstract flow.                                                           *)
(***************************************************************************)
EXTENDS OltShell, TLAPS

-----------------------------------------------------------------------------
\* What Record does to the flow, whichever action calls it.
LEMMA RecordTyped ==
    ASSUME TypeOK, NEW s \in {"ok", "failed"}, NEW output \in SUBSET Pieces, Record(s, output)
    PROVE  /\ step' \in Steps /\ mode' \in {"send", "over"}
           /\ status' \in [Steps -> {"none", "ok", "failed"}]
           /\ raw' \in [Steps -> SUBSET Pieces]
           /\ mode' = "send" => step' = step + 1
           /\ mode' = "over" => step' = step
  BY ShellAssumption DEF TypeOK, Record, Steps

LEMMA PieceTyped ==
    ASSUME NEW k \in 0 .. N, NEW kind \in {"text", "like", "ask", "prompt"}
    PROVE  Piece(k, kind) \in Pieces /\ Piece(k, kind).of = k /\ Piece(k, kind).kind = kind
  BY DEF Piece, Pieces

\* Sequences: the ends of a queue.
LEMMA HeadTail ==
    ASSUME NEW S, NEW s \in Seq(S), s # <<>>
    PROVE  /\ Head(s) \in S /\ Tail(s) \in Seq(S)
           /\ Len(s) \in Nat \ {0} /\ Head(s) = s[1]
           /\ Len(Tail(s)) = Len(s) - 1
           /\ \A i \in 1 .. Len(Tail(s)) : Tail(s)[i] = s[i + 1]
  OBVIOUS

LEMMA AppendDoes ==
    ASSUME NEW S, NEW s \in Seq(S), NEW a \in S
    PROVE  /\ Append(s, a) \in Seq(S)
           /\ Len(Append(s, a)) = Len(s) + 1
           /\ Append(s, a)[Len(s) + 1] = a
           /\ \A i \in 1 .. Len(s) : Append(s, a)[i] = s[i]
  OBVIOUS

LEMMA ElementsOf ==
    ASSUME NEW S, NEW s \in Seq(S)
    PROVE  Len(s) \in Nat /\ \A i \in 1 .. Len(s) : s[i] \in S
  OBVIOUS

\* Two more pieces on the wire.
LEMMA TwoMore ==
    ASSUME NEW S, NEW s \in Seq(S), NEW a \in S, NEW b \in S
    PROVE  s \o <<a, b>> = Append(Append(s, a), b)
  OBVIOUS

\* What the OLT does when it goes on with a reply.
LEMMA TalkDoes ==
    ASSUME TypeOK, NEW k \in Steps, NEW q \in 0 .. MaxAsks, Talk(k, q)
    PROVE  \E body \in {"text", "like"}, end \in {"ask", "prompt"} :
              /\ wire' = Append(Append(wire, Piece(k, body)), Piece(k, end))
              /\ end = "prompt" => asking' = NotAsking
              /\ end = "ask" => /\ q > 0
                                /\ asking'.of = k
                                /\ asking'.left \in 0 .. MaxAsks
                                /\ asking' = [of |-> k, left |-> asking'.left]
                                /\ k \notin Interactive => asking'.left = 0
<1>1. PICK body \in {"text", "like"} :
        \/ /\ wire' = wire \o <<Piece(k, body), Piece(k, "prompt")>>
           /\ asking' = NotAsking
        \/ /\ q > 0
           /\ wire' = wire \o <<Piece(k, body), Piece(k, "ask")>>
           /\ asking' = [of |-> k, left |-> IF k \in Interactive THEN q - 1 ELSE 0]
  BY DEF Talk
<1>2. k \in 0 .. N /\ wire \in Seq(Pieces)
  BY DEF TypeOK, Steps
<1>3. \A end \in {"ask", "prompt"} :
         wire \o <<Piece(k, body), Piece(k, end)>> = Append(Append(wire, Piece(k, body)), Piece(k, end))
  BY <1>2, TwoMore, PieceTyped
<1>4. CASE asking' = NotAsking /\ wire' = wire \o <<Piece(k, body), Piece(k, "prompt")>>
  BY <1>3, <1>4
<1>5. CASE /\ q > 0
           /\ wire' = wire \o <<Piece(k, body), Piece(k, "ask")>>
           /\ asking' = [of |-> k, left |-> IF k \in Interactive THEN q - 1 ELSE 0]
  BY <1>3, <1>5, ShellAssumption
<1>6. QED BY <1>1, <1>4, <1>5

\* The OLT goes on with the reply it has stopped in, begins one, or answers an
\* empty line.
LEMMA OltReadsDoes ==
    ASSUME TypeOK, OltReads
    PROVE  /\ inputs # <<>> /\ inputs' = Tail(inputs)
           /\ UNCHANGED <<service, trouble>>
           /\ \/ \E k \in Steps, body \in {"text", "like"}, end \in {"ask", "prompt"} :
                    /\ k = IF asking.of # 0 THEN asking.of ELSE Head(inputs)
                    /\ wire' = Append(Append(wire, Piece(k, body)), Piece(k, end))
                    /\ end = "prompt" => asking' = NotAsking
                    /\ end = "ask" => /\ asking.of # 0 => asking.left > 0
                                      /\ asking'.left \in 0 .. MaxAsks
                                      /\ asking' = [of |-> k, left |-> asking'.left]
                                      /\ k \notin Interactive => asking'.left = 0
              \/ /\ asking.of = 0 /\ Head(inputs) = 0
                 /\ wire' = Append(wire, Piece(0, "prompt"))
                 /\ asking' = asking
<1>1. Head(inputs) \in 0 .. N /\ asking.of \in 0 .. N /\ asking.left \in 0 .. MaxAsks
  <2>1. inputs \in Seq(0 .. N) /\ inputs # <<>>
    BY DEF OltReads, TypeOK
  <2>2. Head(inputs) \in 0 .. N
    BY <2>1, HeadTail
  <2>3. QED BY <2>2 DEF TypeOK
<1>2. CASE asking.of # 0
  <2>1. asking.of \in Steps
    BY <1>1, <1>2 DEF Steps
  <2>2. Talk(asking.of, asking.left)
    BY <1>2 DEF OltReads
  <2>3. QED BY <1>1, <1>2, <2>1, <2>2, TalkDoes DEF OltReads
<1>3. CASE asking.of = 0 /\ Head(inputs) # 0
  <2>1. Head(inputs) \in Steps /\ MaxAsks \in 0 .. MaxAsks
    BY <1>1, <1>3, ShellAssumption DEF Steps
  <2>2. Talk(Head(inputs), MaxAsks)
    BY <1>3 DEF OltReads
  <2>3. QED BY <1>3, <2>1, <2>2, TalkDoes DEF OltReads
<1>4. CASE asking.of = 0 /\ Head(inputs) = 0
  BY <1>4 DEF OltReads
<1>5. QED BY <1>2, <1>3, <1>4

LEMMA InitTyped == ASSUME Init PROVE TypeOK
<1>1. asking \in [of : 0 .. N, left : 0 .. MaxAsks]
  BY ShellAssumption DEF Init, NotAsking
<1>2. 1 \in Steps /\ 0 \in 0 .. N /\ trouble \in 0 .. N
  BY ShellAssumption DEF Steps, Init
<1>3. buffer \in Seq(Pieces) /\ wire \in Seq(Pieces) /\ inputs \in Seq(0 .. N)
  <2>1. \A p \in Pieces : <<p>> \in Seq(Pieces)
    OBVIOUS
  <2>2. <<Piece(0, "prompt")>> \in Seq(Pieces)
    BY <1>2, <2>1, PieceTyped
  <2>3. wire \in {<<>>, <<Piece(0, "prompt")>>}
    BY DEF Init
  <2>4. wire \in Seq(Pieces)
    <3>1. CASE wire = <<>>
      BY <3>1
    <3>2. CASE wire = <<Piece(0, "prompt")>>
      BY <2>2, <3>2, Zenon
    <3>3. QED BY <2>3, <3>1, <3>2
  <2>5. buffer = <<>> /\ inputs = <<>>
    BY DEF Init
  <2>6. QED BY <2>4, <2>5
<1>4. raw \in [Steps -> SUBSET Pieces] /\ heard \subseteq Pieces
  BY DEF Init
<1>5. QED BY <1>1, <1>2, <1>3, <1>4 DEF Init, TypeOK

LEMMA NextTyped == ASSUME TypeOK, [Next]_vars PROVE TypeOK'
<1>0. step \in 0 .. N /\ step \in 1 .. N /\ 0 \in 0 .. N /\ N \in Nat
  BY ShellAssumption DEF TypeOK, Steps
<1>i. ASSUME InTrouble(step) PROVE trouble' \in 0 .. N
  BY <1>i, <1>0 DEF InTrouble, TypeOK
<1>1. CASE FindQuestion
  <2>1. PICK i \in Asks(step, buffer) : buffer' = After(buffer, i)
    BY <1>1 DEF FindQuestion
  <2>2. buffer' \in Seq(Pieces)
    BY <2>1 DEF TypeOK, Asks, After
  <2>3. QED BY <1>1, <2>2 DEF FindQuestion, TypeOK, olt
<1>2. CASE AnswerPager
  BY <1>2, <1>0 DEF AnswerPager, TypeOK
<1>3. CASE Finish
  <2>1. PICK s \in {"ok", "failed"} : Record(s, IF s = "ok" THEN heard ELSE {})
    BY <1>3 DEF Finish
  <2>2. buffer' \in Seq(Pieces) /\ trouble' \in 0 .. N
    BY <1>3, <1>i DEF Finish, TypeOK
  <2>3. (IF s = "ok" THEN heard ELSE {}) \in SUBSET Pieces
    BY DEF TypeOK
  <2>4. QED BY <1>3, <2>1, <2>2, <2>3, RecordTyped DEF Finish, TypeOK, olt
<1>4. CASE Send
  <2>1. inputs' \in Seq(0 .. N)
    BY <1>4, <1>0, AppendDoes DEF Send, TypeOK
  <2>2. buffer' \in Seq(Pieces) /\ heard' \subseteq Pieces
    BY <1>4 DEF Send
  <2>3. QED BY <1>4, <2>1, <2>2 DEF Send, TypeOK
<1>5. CASE SendAnswer
  BY <1>5, <1>0 DEF SendAnswer, TypeOK
<1>6. CASE WriteFails
  BY <1>6, <1>i, RecordTyped DEF WriteFails, TypeOK, olt
<1>7. CASE Timeout
  BY <1>7, <1>i, RecordTyped DEF Timeout, TypeOK, olt
<1>8. CASE ZombieTakes
  <2>1. buffer' \in Seq(Pieces)
    <3>1. CASE buffer' = <<>>
      BY <3>1
    <3>2. ASSUME NEW i \in DOMAIN buffer, buffer' = After(buffer, i) PROVE buffer' \in Seq(Pieces)
      BY <3>2 DEF TypeOK, After
    <3>3. QED BY <1>8, <3>1, <3>2 DEF ZombieTakes
  <2>2. QED BY <1>8, <1>0, <2>1 DEF ZombieTakes, TypeOK, olt
<1>9. CASE Arrive
  BY <1>9 DEF Arrive, TypeOK, olt
<1>10. CASE OltReads
  <2>1. inputs' \in Seq(0 .. N)
    <3>1. inputs \in Seq(0 .. N) /\ inputs # <<>> /\ inputs' = Tail(inputs)
      BY <1>10 DEF TypeOK, OltReads
    <3>2. QED BY <3>1, HeadTail
  <2>2. wire' \in Seq(Pieces) /\ asking' \in [of : 0 .. N, left : 0 .. MaxAsks]
    <3>1. CASE asking' = asking /\ wire' = Append(wire, Piece(0, "prompt"))
      BY <1>0, <3>1, PieceTyped, AppendDoes DEF TypeOK
    <3>2. ASSUME NEW k \in Steps, NEW body \in {"text", "like"}, NEW end \in {"ask", "prompt"},
                 wire' = Append(Append(wire, Piece(k, body)), Piece(k, end)),
                 \/ asking' = NotAsking
                 \/ asking'.left \in 0 .. MaxAsks /\ asking' = [of |-> k, left |-> asking'.left]
          PROVE  wire' \in Seq(Pieces) /\ asking' \in [of : 0 .. N, left : 0 .. MaxAsks]
      <4>1. k \in 0 .. N
        BY DEF Steps
      <4>2. Piece(k, body) \in Pieces /\ Piece(k, end) \in Pieces
        BY <4>1, PieceTyped
      <4>3. wire' \in Seq(Pieces)
        BY <3>2, <4>2 DEF TypeOK
      <4>4. NotAsking \in [of : 0 .. N, left : 0 .. MaxAsks]
        BY ShellAssumption DEF NotAsking
      <4>5. QED BY <3>2, <4>1, <4>3, <4>4
    <3>3. QED BY <1>10, OltReadsDoes, <3>1, <3>2
  <2>3. QED BY <1>10, <2>1, <2>2, OltReadsDoes DEF TypeOK, service
<1>11. CASE UNCHANGED vars
  BY <1>11 DEF vars, service, olt, TypeOK
<1>12. QED
  BY <1>1, <1>2, <1>3, <1>4, <1>5, <1>6, <1>7, <1>8, <1>9, <1>10, <1>11 DEF Next, Poll, Write

\* Every variable keeps its type.
THEOREM TypeCorrect == Spec => []TypeOK
  BY InitTyped, NextTyped, PTL DEF Spec

-----------------------------------------------------------------------------
\* Replies are only late.  Everything on its way to a reader, from the shell's
\* input to the history, is in the order the commands were sent; what answers
\* no command (0) is out of the order.
Ahead(m) ==
    /\ \A i \in 1 .. Len(wire) : wire[i].of = 0 \/ m <= wire[i].of
    /\ asking.of = 0 \/ m <= asking.of
    /\ \A i \in 1 .. Len(inputs) : inputs[i] = 0 \/ m <= inputs[i]
    /\ m <= step

WireInOrder ==
    \A i \in 1 .. Len(wire) :
        /\ wire[i].of <= step
        /\ asking.of = 0 \/ wire[i].of <= asking.of
        /\ \A j \in i .. Len(wire) : wire[j].of = 0 \/ wire[i].of <= wire[j].of
        /\ \A j \in 1 .. Len(inputs) : inputs[j] = 0 \/ wire[i].of <= inputs[j]

AskingInOrder ==
    /\ asking.of <= step
    /\ \A j \in 1 .. Len(inputs) : inputs[j] = 0 \/ asking.of <= inputs[j]

InputsInOrder ==
    \A i \in 1 .. Len(inputs) :
        /\ inputs[i] <= step
        /\ \A j \in i .. Len(inputs) : inputs[j] = 0 \/ inputs[i] <= inputs[j]

HeardInOrder == \A p \in heard : Ahead(p.of)

\* What the history holds came before all that is still to come, and, while a
\* wait is on, before all it has heard.
RawInOrder ==
    \A j \in Steps : \A o \in raw[j] :
        /\ Ahead(o.of)
        /\ mode \in {"wait", "answer"} => \A p \in heard : p.of = 0 \/ o.of <= p.of

NothingYet == \A k \in Steps : k > step \/ (k = step /\ mode # "over") => raw[k] = {}

InOrder ==
    /\ TypeOK /\ WireInOrder /\ AskingInOrder /\ InputsInOrder
    /\ HeardInOrder /\ RawInOrder /\ NothingYet /\ RepliesAreOnlyLate

LEMMA PiecesOf ==
    ASSUME TypeOK
    PROVE  /\ \A p \in heard : p.of \in 0 .. N
           /\ \A j \in Steps : \A o \in raw[j] : o.of \in 0 .. N
           /\ \A i \in 1 .. Len(wire) : wire[i].of \in 0 .. N
           /\ \A i \in 1 .. Len(inputs) : inputs[i] \in 0 .. N
           /\ asking.of \in 0 .. N /\ step \in Nat /\ step \in 1 .. N /\ N \in Nat
<1>1. \A p \in Pieces : p.of \in 0 .. N
  BY DEF Pieces
<1>2. \A i \in 1 .. Len(wire) : wire[i] \in Pieces
  BY ElementsOf DEF TypeOK
<1>3. \A i \in 1 .. Len(inputs) : inputs[i] \in 0 .. N
  BY ElementsOf DEF TypeOK
<1>4. heard \subseteq Pieces /\ \A j \in Steps : raw[j] \subseteq Pieces
  BY DEF TypeOK
<1>5. asking.of \in 0 .. N /\ step \in Nat /\ step \in 1 .. N /\ N \in Nat
  BY ShellAssumption DEF TypeOK, Steps
<1>6. QED BY <1>1, <1>2, <1>3, <1>4, <1>5

\* What is behind everything still to come stays so while nothing comes.
LEMMA StillAhead ==
    ASSUME NEW m \in 0 .. N, TypeOK, step' \in Steps, step <= step',
           UNCHANGED <<wire, olt>>, Ahead(m)
    PROVE  Ahead(m)'
  BY ShellAssumption DEF Ahead, TypeOK, Steps, olt

LEMMA QueuesInOrder ==
    ASSUME TypeOK, step' \in Steps, step <= step', UNCHANGED <<wire, olt>>,
           WireInOrder, AskingInOrder, InputsInOrder
    PROVE  WireInOrder' /\ AskingInOrder' /\ InputsInOrder'
<1>1. \A i \in 1 .. Len(wire) : wire[i].of \in 0 .. N
  BY PiecesOf
<1>2. \A i \in 1 .. Len(inputs) : inputs[i] \in 0 .. N
  BY PiecesOf
<1>3. asking.of \in 0 .. N /\ step \in Nat /\ step' \in Nat /\ N \in Nat
  BY ShellAssumption DEF TypeOK, Steps
<1>4. wire' = wire /\ inputs' = inputs /\ asking' = asking
  BY DEF olt
<1>5. WireInOrder'
  BY <1>1, <1>3, <1>4 DEF WireInOrder
<1>6. AskingInOrder'
  BY <1>3, <1>4 DEF AskingInOrder
<1>7. InputsInOrder'
  BY <1>2, <1>3, <1>4 DEF InputsInOrder
<1>8. QED BY <1>5, <1>6, <1>7

\* A step's entry in the history, given nothing or all that was heard.
LEMMA RecordInOrder ==
    ASSUME InOrder, TypeOK', NEW s \in {"ok", "failed"}, NEW output \in {{}, heard},
           Record(s, output), mode # "over", mode = "wait" \/ output = {},
           UNCHANGED <<heard, wire, olt>>
    PROVE  InOrder'
<1>1. TypeOK
  BY DEF InOrder
<1>2. output \in SUBSET Pieces
  BY <1>1 DEF TypeOK
<1>3. /\ step' \in Steps /\ mode' \in {"send", "over"}
      /\ mode' = "send" => step' = step + 1
      /\ mode' = "over" => step' = step
  BY <1>1, <1>2, RecordTyped
<1>4. step \in 1 .. N /\ step <= step' /\ N \in Nat
  BY <1>1, <1>3, PiecesOf
<1>5. raw' = [raw EXCEPT ![step] = output] /\ raw \in [Steps -> SUBSET Pieces]
  BY <1>1 DEF Record, TypeOK
<1>6. WireInOrder' /\ AskingInOrder' /\ InputsInOrder'
  BY <1>1, <1>3, <1>4, QueuesInOrder DEF InOrder
<1>7. HeardInOrder'
  <2>1. \A p \in heard : Ahead(p.of)'
    BY <1>1, <1>3, <1>4, PiecesOf, StillAhead DEF InOrder, HeardInOrder
  <2>2. QED BY <2>1 DEF HeardInOrder
<1>8. RawInOrder'
  <2>1. \A j \in Steps : \A o \in raw'[j] : Ahead(o.of) /\ o.of \in 0 .. N
    BY <1>1, <1>5, PiecesOf DEF InOrder, RawInOrder, HeardInOrder
  <2>2. \A j \in Steps : \A o \in raw'[j] : Ahead(o.of)'
    BY <1>1, <1>3, <1>4, <2>1, StillAhead
  <2>3. QED BY <1>3, <2>2 DEF RawInOrder
<1>9. NothingYet'
  BY <1>3, <1>4, <1>5 DEF InOrder, NothingYet, Steps
<1>10. RepliesAreOnlyLate'
  <2> SUFFICES ASSUME NEW k \in Steps, NEW p \in raw'[k]
               PROVE  /\ p.of <= k
                      /\ p.of # 0 => \A j \in 1 .. k - 1 : \A o \in raw'[j] : o.of <= p.of
    BY DEF RepliesAreOnlyLate
  <2>1. CASE k # step
    <3>1. p \in raw[k]
      BY <1>5, <2>1
    <3>2. k < step
      BY <1>4, <3>1 DEF InOrder, NothingYet, Steps
    <3>3. \A j \in 1 .. k - 1 : raw'[j] = raw[j]
      BY <1>4, <1>5, <3>2 DEF Steps
    <3>4. QED BY <3>1, <3>3 DEF InOrder, RepliesAreOnlyLate
  <2>2. CASE k = step
    <3>1. p \in heard /\ output = heard /\ mode = "wait"
      BY <1>5, <2>2
    <3>2. \A j \in 1 .. k - 1 : j \in Steps /\ raw'[j] = raw[j]
      BY <1>4, <1>5, <2>2 DEF Steps
    <3>3. \A j \in 1 .. k - 1 : \A o \in raw[j] : p.of = 0 \/ o.of <= p.of
      BY <3>1, <3>2 DEF InOrder, RawInOrder
    <3>4. p.of <= step
      BY <3>1 DEF InOrder, HeardInOrder, Ahead
    <3>5. QED BY <2>2, <3>2, <3>3, <3>4
  <2>3. QED BY <2>1, <2>2
<1>11. QED BY <1>6, <1>7, <1>8, <1>9, <1>10 DEF InOrder

LEMMA RecordNothing ==
    ASSUME InOrder, TypeOK', Record("failed", {}), mode # "over", UNCHANGED <<heard, wire, olt>>
    PROVE  InOrder'
<1>1. \E output \in {{}, heard} : output = {} /\ Record("failed", output)
  OBVIOUS
<1>2. QED BY <1>1, RecordInOrder

\* A command or an answer joins the queue at its end.
LEMMA WriteInOrder ==
    ASSUME InOrder, TypeOK', NEW k \in {0, step}, inputs' = Append(inputs, k),
           UNCHANGED <<step, wire, asking, raw>>, heard' \in {{}, heard},
           heard' = {} \/ mode \in {"wait", "answer"}, mode # "over", mode' # "over"
    PROVE  InOrder'
<1>1. TypeOK /\ inputs \in Seq(0 .. N)
  BY DEF InOrder, TypeOK
<1>2. k \in 0 .. N /\ k <= step
  BY <1>1, PiecesOf
<1>3. /\ Len(inputs') = Len(inputs) + 1 /\ Len(inputs) \in Nat
      /\ inputs'[Len(inputs) + 1] = k
      /\ \A i \in 1 .. Len(inputs) : inputs'[i] = inputs[i]
  BY <1>1, <1>2, AppendDoes
<1>4. \A i \in 1 .. Len(inputs') : i = Len(inputs) + 1 \/ i \in 1 .. Len(inputs)
  BY <1>3
<1>5. \A m : Ahead(m) => Ahead(m)'
  BY <1>3, <1>4 DEF Ahead
<1>6. WireInOrder'
  BY <1>3, <1>4 DEF InOrder, WireInOrder
<1>7. AskingInOrder'
  BY <1>3, <1>4 DEF InOrder, AskingInOrder
<1>8. InputsInOrder'
  <2> SUFFICES ASSUME NEW i \in 1 .. Len(inputs')
               PROVE  /\ inputs'[i] <= step
                      /\ \A j \in i .. Len(inputs') : inputs'[j] = 0 \/ inputs'[i] <= inputs'[j]
    BY DEF InputsInOrder
  <2>1. CASE i = Len(inputs) + 1
    BY <1>2, <1>3, <2>1, <1>1, PiecesOf
  <2>2. CASE i \in 1 .. Len(inputs)
    <3>1. inputs'[i] = inputs[i] /\ inputs[i] <= step
      BY <1>3, <2>2 DEF InOrder, InputsInOrder
    <3>2. \A j \in i .. Len(inputs) : inputs'[j] = 0 \/ inputs[i] <= inputs'[j]
      BY <1>3, <2>2 DEF InOrder, InputsInOrder
    <3>3. \A j \in i .. Len(inputs') : j = Len(inputs) + 1 \/ j \in i .. Len(inputs)
      BY <1>3, <2>2
    <3>4. QED BY <1>3, <3>1, <3>2, <3>3
  <2>3. QED BY <1>4, <2>1, <2>2
<1>9. HeardInOrder'
  BY <1>5 DEF InOrder, HeardInOrder
<1>10. RawInOrder'
  <2>1. \A j \in Steps : \A o \in raw[j] : Ahead(o.of)'
    BY <1>5 DEF InOrder, RawInOrder
  <2>2. \A j \in Steps : \A o \in raw[j] : \A p \in heard' : p.of = 0 \/ o.of <= p.of
    BY DEF InOrder, RawInOrder
  <2>3. QED BY <2>1, <2>2 DEF RawInOrder
<1>11. NothingYet' /\ RepliesAreOnlyLate'
  BY DEF InOrder, NothingYet, RepliesAreOnlyLate
<1>12. QED BY <1>6, <1>7, <1>8, <1>9, <1>10, <1>11 DEF InOrder

\* A piece arrives.
LEMMA ArriveInOrder ==
    ASSUME InOrder, TypeOK', Arrive
    PROVE  InOrder'
<1>1. TypeOK /\ wire \in Seq(Pieces) /\ wire # <<>> /\ wire' = Tail(wire)
  BY DEF InOrder, TypeOK, Arrive
<1>2. /\ Head(wire) = wire[1] /\ Len(wire) \in Nat \ {0} /\ Len(wire') = Len(wire) - 1
      /\ \A i \in 1 .. Len(wire') : wire'[i] = wire[i + 1]
  BY <1>1, HeadTail
<1>3. \A i \in 1 .. Len(wire') : i + 1 \in 1 .. Len(wire)
  BY <1>2
<1>4. /\ heard' = heard \cup {wire[1]}
      /\ UNCHANGED <<step, mode, raw, inputs, asking>>
  BY <1>2 DEF Arrive, olt
<1>5. \A m : Ahead(m) => Ahead(m)'
  BY <1>2, <1>3, <1>4 DEF Ahead
<1>6. WireInOrder'
  <2> SUFFICES ASSUME NEW i \in 1 .. Len(wire')
               PROVE  /\ wire'[i].of <= step
                      /\ asking.of = 0 \/ wire'[i].of <= asking.of
                      /\ \A j \in i .. Len(wire') : wire'[j].of = 0 \/ wire'[i].of <= wire'[j].of
                      /\ \A j \in 1 .. Len(inputs) : inputs[j] = 0 \/ wire'[i].of <= inputs[j]
    BY <1>4 DEF WireInOrder
  <2>1. wire'[i] = wire[i + 1] /\ i + 1 \in 1 .. Len(wire)
    BY <1>2, <1>3
  <2>2. \A j \in i .. Len(wire') : wire'[j] = wire[j + 1] /\ j + 1 \in (i + 1) .. Len(wire)
    BY <1>2
  <2>3. QED BY <2>1, <2>2 DEF InOrder, WireInOrder
<1>7. AskingInOrder' /\ InputsInOrder'
  BY <1>4 DEF InOrder, AskingInOrder, InputsInOrder
<1>8. \A m : m = wire[1].of => Ahead(m)'
  <2>1. Ahead(wire[1].of)
    BY <1>2 DEF InOrder, WireInOrder, Ahead
  <2>2. QED BY <1>5, <2>1
<1>9. HeardInOrder'
  BY <1>4, <1>5, <1>8 DEF InOrder, HeardInOrder
<1>10. RawInOrder'
  <2>1. \A j \in Steps : \A o \in raw[j] : Ahead(o.of)' /\ (wire[1].of = 0 \/ o.of <= wire[1].of)
    BY <1>2, <1>5 DEF InOrder, RawInOrder, Ahead
  <2>2. QED BY <1>4, <2>1 DEF InOrder, RawInOrder
<1>11. NothingYet' /\ RepliesAreOnlyLate'
  BY <1>4 DEF InOrder, NothingYet, RepliesAreOnlyLate
<1>12. QED BY <1>6, <1>7, <1>9, <1>10, <1>11 DEF InOrder

\* The OLT takes an input and its pieces join the wire.
LEMMA OltReadsInOrder ==
    ASSUME InOrder, TypeOK', OltReads
    PROVE  InOrder'
<1>1. /\ TypeOK /\ inputs \in Seq(0 .. N) /\ wire \in Seq(Pieces)
      /\ inputs # <<>> /\ inputs' = Tail(inputs)
      /\ UNCHANGED <<step, mode, heard, raw>>
  BY OltReadsDoes DEF InOrder, TypeOK, service
<1>2. /\ Head(inputs) = inputs[1] /\ Len(inputs) \in Nat \ {0} /\ Len(inputs') = Len(inputs) - 1
      /\ \A i \in 1 .. Len(inputs') : inputs'[i] = inputs[i + 1]
      /\ inputs[1] \in 0 .. N
  BY <1>1, HeadTail
<1>3. \A i \in 1 .. Len(inputs') : i + 1 \in 1 .. Len(inputs)
  BY <1>2
<1>4. PICK k \in 0 .. N :
         /\ k = IF asking.of # 0 THEN asking.of ELSE inputs[1]
         /\ asking'.of \in {0, k}
         /\ Len(wire') >= Len(wire)
         /\ \A i \in 1 .. Len(wire') :
               IF i <= Len(wire) THEN wire'[i] = wire[i] ELSE wire'[i].of = k
  <2>1. CASE asking.of = 0 /\ inputs[1] = 0 /\ wire' = Append(wire, Piece(0, "prompt")) /\ asking' = asking
    <3>1. Piece(0, "prompt") \in Pieces /\ Piece(0, "prompt").of = 0 /\ 0 \in 0 .. N
      BY PieceTyped, ShellAssumption
    <3>2. QED BY <1>1, <2>1, <3>1, AppendDoes
  <2>2. ASSUME NEW k \in Steps, NEW body \in {"text", "like"}, NEW end \in {"ask", "prompt"},
               k = IF asking.of # 0 THEN asking.of ELSE inputs[1],
               wire' = Append(Append(wire, Piece(k, body)), Piece(k, end)),
               asking' = NotAsking \/ asking' = [of |-> k, left |-> asking'.left]
        PROVE  /\ k \in 0 .. N
               /\ asking'.of \in {0, k}
               /\ Len(wire') >= Len(wire)
               /\ \A i \in 1 .. Len(wire') :
                     IF i <= Len(wire) THEN wire'[i] = wire[i] ELSE wire'[i].of = k
    <3>1. k \in 0 .. N
      BY DEF Steps
    <3>2. /\ Piece(k, body) \in Pieces /\ Piece(k, body).of = k
          /\ Piece(k, end) \in Pieces /\ Piece(k, end).of = k
      BY <3>1, PieceTyped
    <3> DEFINE w == Append(wire, Piece(k, body))
    <3>3. /\ w \in Seq(Pieces) /\ Len(w) = Len(wire) + 1 /\ w[Len(wire) + 1].of = k
          /\ \A i \in 1 .. Len(wire) : w[i] = wire[i]
      BY <1>1, <3>2, AppendDoes
    <3>4. wire' = Append(w, Piece(k, end))
      BY <2>2
    <3> HIDE DEF w
    <3>5. /\ Len(wire') = Len(w) + 1 /\ wire'[Len(w) + 1].of = k
          /\ \A i \in 1 .. Len(w) : wire'[i] = w[i]
      BY <3>2, <3>3, <3>4, AppendDoes
    <3>6. Len(wire) \in Nat
      BY <1>1, ElementsOf
    <3>7. asking'.of \in {0, k}
      BY <2>2 DEF NotAsking
    <3>8. QED BY <3>1, <3>3, <3>5, <3>6, <3>7
  <2>3. QED BY <1>2, <2>1, <2>2, OltReadsDoes, <1>1
<1>5. /\ Len(wire) \in Nat /\ Len(wire') \in Nat /\ step \in Nat
      /\ \A i \in 1 .. Len(wire) : wire[i].of \in 0 .. N
      /\ \A i \in 1 .. Len(inputs) : inputs[i] \in 0 .. N
      /\ asking.of \in 0 .. N
  <2>1. Len(wire) \in Nat
    BY <1>1, ElementsOf
  <2>2. Len(wire') \in Nat
    BY ElementsOf DEF TypeOK
  <2>3. QED BY <1>1, <2>1, <2>2, PiecesOf
<1>6. k <= step /\ \A j \in 1 .. Len(inputs') : inputs'[j] = 0 \/ k <= inputs'[j]
  <2>1. CASE asking.of # 0
    BY <1>2, <1>3, <1>4, <2>1 DEF InOrder, AskingInOrder
  <2>2. CASE asking.of = 0
    BY <1>2, <1>3, <1>4, <2>2 DEF InOrder, InputsInOrder
  <2>3. QED BY <2>1, <2>2
<1>7. \A m \in Nat : Ahead(m) => k = 0 \/ m <= k
  BY <1>2, <1>4 DEF Ahead
<1>8. \A m \in Nat : Ahead(m) => Ahead(m)'
  <2> SUFFICES ASSUME NEW m \in Nat, Ahead(m) PROVE Ahead(m)'
    OBVIOUS
  <2>1. \A i \in 1 .. Len(wire') : wire'[i].of = 0 \/ m <= wire'[i].of
    BY <1>4, <1>5, <1>7 DEF Ahead
  <2>2. asking'.of = 0 \/ m <= asking'.of
    BY <1>4, <1>7
  <2>3. \A i \in 1 .. Len(inputs') : inputs'[i] = 0 \/ m <= inputs'[i]
    BY <1>2, <1>3 DEF Ahead
  <2>4. m <= step'
    BY <1>1 DEF Ahead
  <2>5. QED BY <2>1, <2>2, <2>3, <2>4 DEF Ahead
<1>9. \A i \in 1 .. Len(wire) : k = 0 \/ wire[i].of <= k
  BY <1>2, <1>4 DEF InOrder, WireInOrder
<1>10. WireInOrder'
  <2> SUFFICES ASSUME NEW i \in 1 .. Len(wire')
               PROVE  /\ wire'[i].of <= step'
                      /\ asking'.of = 0 \/ wire'[i].of <= asking'.of
                      /\ \A j \in i .. Len(wire') : wire'[j].of = 0 \/ wire'[i].of <= wire'[j].of
                      /\ \A j \in 1 .. Len(inputs') : inputs'[j] = 0 \/ wire'[i].of <= inputs'[j]
    BY DEF WireInOrder
  <2>1. CASE i <= Len(wire)
    <3>1. i \in 1 .. Len(wire) /\ wire'[i] = wire[i]
      BY <1>4, <1>5, <2>1
    <3>2. wire[i].of <= step /\ (k = 0 \/ wire[i].of <= k)
      BY <1>9, <3>1 DEF InOrder, WireInOrder
    <3>3. \A j \in i .. Len(wire) : wire[j].of = 0 \/ wire[i].of <= wire[j].of
      BY <3>1 DEF InOrder, WireInOrder
    <3>4. \A j \in i .. Len(wire') : wire'[j].of = 0 \/ wire'[i].of <= wire'[j].of
      BY <1>4, <1>5, <3>1, <3>2, <3>3
    <3>5. \A j \in 1 .. Len(inputs') : inputs'[j] = 0 \/ wire'[i].of <= inputs'[j]
      BY <1>2, <1>3, <3>1 DEF InOrder, WireInOrder
    <3>6. QED BY <1>1, <1>4, <3>1, <3>2, <3>4, <3>5
  <2>2. CASE i > Len(wire)
    <3>1. wire'[i].of = k /\ \A j \in i .. Len(wire') : wire'[j].of = k
      BY <1>4, <1>5, <2>2
    <3>2. QED BY <1>1, <1>4, <1>6, <3>1
  <2>3. QED BY <1>5, <2>1, <2>2
<1>11. AskingInOrder'
  BY <1>1, <1>4, <1>5, <1>6 DEF AskingInOrder
<1>12. InputsInOrder'
  <2> SUFFICES ASSUME NEW i \in 1 .. Len(inputs')
               PROVE  /\ inputs'[i] <= step
                      /\ \A j \in i .. Len(inputs') : inputs'[j] = 0 \/ inputs'[i] <= inputs'[j]
    BY <1>1 DEF InputsInOrder
  <2>1. inputs'[i] = inputs[i + 1] /\ i + 1 \in 1 .. Len(inputs)
    BY <1>2, <1>3
  <2>2. \A j \in i .. Len(inputs') : inputs'[j] = inputs[j + 1] /\ j + 1 \in (i + 1) .. Len(inputs)
    BY <1>2
  <2>3. QED BY <2>1, <2>2 DEF InOrder, InputsInOrder
<1>13. HeardInOrder'
  <2>1. \A p \in heard : p.of \in Nat
    BY <1>1, PiecesOf
  <2>2. QED BY <1>1, <1>8, <2>1 DEF InOrder, HeardInOrder
<1>14. RawInOrder'
  <2>1. \A j \in Steps : \A o \in raw[j] : o.of \in Nat
    BY <1>1, PiecesOf
  <2>2. QED BY <1>1, <1>8, <2>1 DEF InOrder, RawInOrder
<1>15. NothingYet' /\ RepliesAreOnlyLate'
  BY <1>1 DEF InOrder, NothingYet, RepliesAreOnlyLate
<1>16. QED BY <1>10, <1>11, <1>12, <1>13, <1>14, <1>15 DEF InOrder

\* A step that moves nothing of the order.
LEMMA NothingMoves ==
    ASSUME InOrder, TypeOK', UNCHANGED <<step, heard, raw, inputs, asking, wire>>,
           mode' = mode \/ (mode = "wait" /\ mode' = "answer")
    PROVE  InOrder'
  BY DEF InOrder, WireInOrder, AskingInOrder, InputsInOrder, HeardInOrder, RawInOrder,
         NothingYet, RepliesAreOnlyLate, Ahead

\* Whatever times out, no step is given the reply to a later command, nor an
\* older reply than an earlier step was given.
THEOREM LateAtWorst == Spec => []RepliesAreOnlyLate
<1>1. Init => InOrder
  <2> SUFFICES ASSUME Init PROVE InOrder
    OBVIOUS
  <2>1. TypeOK
    BY InitTyped
  <2>2. /\ Len(inputs) = 0 /\ heard = {} /\ asking.of = 0 /\ step = 1
        /\ \A j \in Steps : raw[j] = {}
        /\ Len(wire) = 0 \/ (Len(wire) = 1 /\ wire[1].of = 0)
    BY ShellAssumption, PieceTyped DEF Init, NotAsking
  <2>3. WireInOrder /\ InputsInOrder
    BY <2>2 DEF WireInOrder, InputsInOrder
  <2>4. AskingInOrder
    BY <2>2 DEF AskingInOrder
  <2>5. HeardInOrder /\ RawInOrder /\ NothingYet
    BY <2>2 DEF HeardInOrder, RawInOrder, NothingYet
  <2>6. RepliesAreOnlyLate
    BY <2>2 DEF RepliesAreOnlyLate
  <2>7. QED BY <2>1, <2>3, <2>4, <2>5, <2>6 DEF InOrder
<1>2. InOrder /\ [Next]_vars => InOrder'
  <2> SUFFICES ASSUME InOrder, [Next]_vars PROVE InOrder'
    OBVIOUS
  <2>0. TypeOK /\ TypeOK'
    BY NextTyped DEF InOrder
  <2>1. CASE FindQuestion
    BY <2>0, <2>1, NothingMoves DEF FindQuestion, olt
  <2>2. CASE AnswerPager
    BY <2>0, <2>2, WriteInOrder DEF AnswerPager
  <2>3. CASE Finish
    <3>1. PICK s \in {"ok", "failed"} : Record(s, IF s = "ok" THEN heard ELSE {})
      BY <2>3 DEF Finish
    <3>2. QED BY <2>0, <2>3, <3>1, RecordInOrder DEF Finish
  <2>4. CASE Send
    BY <2>0, <2>4, WriteInOrder DEF Send
  <2>5. CASE SendAnswer
    BY <2>0, <2>5, WriteInOrder DEF SendAnswer
  <2>6. CASE WriteFails
    <3>1. Record("failed", {}) /\ UNCHANGED <<heard, wire, olt>> /\ mode # "over"
      BY <2>6 DEF WriteFails
    <3>2. QED BY <2>0, <3>1, RecordNothing
  <2>7. CASE Timeout
    <3>1. Record("failed", {}) /\ UNCHANGED <<heard, wire, olt>> /\ mode # "over"
      BY <2>7 DEF Timeout
    <3>2. QED BY <2>0, <3>1, RecordNothing
  <2>8. CASE ZombieTakes
    BY <2>0, <2>8, NothingMoves DEF ZombieTakes, olt
  <2>9. CASE Arrive
    BY <2>0, <2>9, ArriveInOrder
  <2>10. CASE OltReads
    BY <2>0, <2>10, OltReadsInOrder
  <2>11. CASE UNCHANGED vars
    BY <2>0, <2>11, NothingMoves DEF vars, service, olt
  <2>12. QED
    BY <2>1, <2>2, <2>3, <2>4, <2>5, <2>6, <2>7, <2>8, <2>9, <2>10, <2>11 DEF Next, Poll, Write
<1>3. InOrder => RepliesAreOnlyLate
  BY DEF InOrder
<1>4. QED BY <1>1, <1>2, <1>3, PTL DEF Spec

-----------------------------------------------------------------------------
\* Until the first trouble.  Everything on the stream belongs to the step the
\* flow is at, and the two ends agree on what comes next: the OLT has yet to read
\* the command, has stopped at a question, has yet to read the answer, or has
\* given the whole reply.  Between two steps nothing is under way.
NoneOf(kind, s) == \A i \in 1 .. Len(s) : s[i].kind # kind
OnlyLast(kind, s) == \A i \in 1 .. Len(s) - 1 : s[i].kind # kind
Unheard(kind) == \A p \in heard : p.kind # kind

Idle == wire = <<>> /\ inputs = <<>> /\ asking.of = 0

AllMine ==
    /\ \A p \in heard : p.of = step
    /\ \A i \in 1 .. Len(wire) : wire[i].of = step
    /\ \A i \in 1 .. Len(buffer) : buffer[i] \in heard

Unread ==
    /\ mode = "wait" /\ inputs = <<step>> /\ asking.of = 0
    /\ wire = <<>> /\ heard = {} /\ ~paged

Stopped ==
    /\ inputs = <<>> /\ asking.of = step
    /\ NoneOf("prompt", wire) /\ Unheard("prompt")
    /\ OnlyLast("ask", wire)
    /\ IF step \in Interactive
       THEN /\ mode = "answer" => wire = <<>> /\ buffer = <<>>
            /\ wire # <<>> => NoneOf("ask", buffer)
            /\ OnlyLast("ask", buffer)
       ELSE /\ mode = "wait" /\ ~paged /\ asking.left = 0
            /\ wire # <<>> => Unheard("ask")

Answered ==
    /\ mode = "wait" /\ inputs = <<0>> /\ asking.of = step
    /\ wire = <<>> /\ Unheard("prompt")
    /\ IF step \in Interactive THEN buffer = <<>> ELSE paged /\ asking.left = 0

Replied ==
    /\ mode = "wait" /\ inputs = <<>> /\ asking.of = 0
    /\ OnlyLast("prompt", wire) /\ (wire # <<>> => Unheard("prompt"))
    /\ IF step \in Interactive THEN NoneOf("ask", wire) /\ NoneOf("ask", buffer)
       ELSE paged \/ (NoneOf("ask", wire) /\ Unheard("ask"))

InTurn ==
    IF mode \in {"send", "over"} THEN Idle
    ELSE AllMine /\ (Unread \/ Stopped \/ Answered \/ Replied)

Kept ==
    /\ trouble <= step
    /\ \A k \in Steps : k > step \/ (k = step /\ mode # "over") => status[k] = "none"
    /\ HistoryIsTrueUntilTrouble

QuietInv ==
    /\ TypeOK /\ Kept
    /\ trouble = 0 => zombies = 0 /\ InTurn

\* A step's entry in the history keeps what is known of it.
LEMMA RecordKept ==
    ASSUME TypeOK, Kept, mode # "over", NEW s \in {"ok", "failed"}, NEW output \in SUBSET Pieces,
           Record(s, output),
           trouble' = (IF trouble = 0 THEN step ELSE trouble) \/ trouble' = trouble,
           s = "ok" /\ trouble' = 0 =>
               Piece(step, "prompt") \in output /\ \A p \in output : p.of = step
    PROVE  Kept'
<1>1. /\ step' \in Steps /\ mode' \in {"send", "over"}
      /\ mode' = "send" => step' = step + 1
      /\ mode' = "over" => step' = step
  BY RecordTyped
<1>2. step \in 1 .. N /\ N \in Nat /\ trouble \in 0 .. N
  BY PiecesOf DEF TypeOK
<1>3. /\ raw' = [raw EXCEPT ![step] = output] /\ raw \in [Steps -> SUBSET Pieces]
      /\ status' = [status EXCEPT ![step] = s] /\ status \in [Steps -> {"none", "ok", "failed"}]
  BY DEF Record, TypeOK
<1>4. trouble' <= step'
  BY <1>1, <1>2 DEF Kept
<1>5. \A k \in Steps : k > step' \/ (k = step' /\ mode' # "over") => status'[k] = "none"
  BY <1>1, <1>2, <1>3 DEF Kept, Steps
<1>6. ASSUME NEW k \in Steps, status'[k] = "ok", trouble' = 0 \/ k < trouble'
      PROVE  Piece(k, "prompt") \in raw'[k] /\ \A p \in raw'[k] : p.of = k
  <2>1. CASE k = step
    <3>1. s = "ok" /\ raw'[k] = output
      BY <1>3, <1>6, <2>1
    <3>2. trouble' = 0
      BY <1>2, <1>6, <2>1 DEF Kept
    <3>3. QED BY <2>1, <3>1, <3>2
  <2>2. CASE k # step
    <3>1. status[k] = "ok" /\ raw'[k] = raw[k]
      BY <1>3, <1>6, <2>2
    <3>2. trouble = 0 \/ k < trouble
      BY <1>2, <1>6
    <3>3. QED BY <3>1, <3>2 DEF Kept, HistoryIsTrueUntilTrouble, OwnReply
  <2>3. QED BY <2>1, <2>2
<1>7. HistoryIsTrueUntilTrouble'
  BY <1>6 DEF HistoryIsTrueUntilTrouble, OwnReply, Piece
<1>8. QED BY <1>4, <1>5, <1>7 DEF Kept

LEMMA NothingKept ==
    ASSUME Kept, UNCHANGED <<step, status, raw, trouble>>, mode # "over" \/ mode' = mode
    PROVE  Kept'
  BY DEF Kept, HistoryIsTrueUntilTrouble, OwnReply

\* A wait that ends in trouble: whatever is under way counts no more.
LEMMA TroubleKept ==
    ASSUME QuietInv, TypeOK', mode # "over", InTrouble(step),
           NEW s \in {"ok", "failed"}, NEW output \in SUBSET Pieces, Record(s, output)
    PROVE  QuietInv'
<1>1. step \in 1 .. N /\ trouble' # 0
  BY PiecesOf DEF InTrouble, QuietInv
<1>2. trouble' = IF trouble = 0 THEN step ELSE trouble
  BY DEF InTrouble
<1>3. Kept'
  BY <1>1, <1>2, RecordKept DEF QuietInv
<1>4. QED BY <1>1, <1>3 DEF QuietInv

\* The whole reply is there, and nothing else is.
LEMMA PromptEnds ==
    ASSUME TypeOK, AllMine, Unread \/ Stopped \/ Answered \/ Replied, mode = "wait",
           buffer # <<>>, buffer[Len(buffer)].kind = "prompt"
    PROVE  /\ Idle
           /\ Piece(step, "prompt") \in heard
<1>1. Len(buffer) \in 1 .. Len(buffer) /\ buffer[Len(buffer)] \in heard
  BY DEF TypeOK, AllMine
<1>2. buffer[Len(buffer)] \in Pieces /\ buffer[Len(buffer)].of = step
  BY <1>1 DEF TypeOK, AllMine
<1>3. buffer[Len(buffer)] = Piece(step, "prompt")
  BY <1>2 DEF Pieces, Piece
<1>4. ~Unheard("prompt")
  BY <1>1 DEF Unheard
<1>5. Replied /\ wire = <<>>
  BY <1>1, <1>4 DEF Unread, Stopped, Answered, Replied
<1>6. QED BY <1>1, <1>3, <1>5 DEF Replied, Idle

LEMMA FinishQuiet == ASSUME QuietInv, TypeOK', Finish PROVE QuietInv'
<1>1. PICK s \in {"ok", "failed"} : Record(s, IF s = "ok" THEN heard ELSE {})
  BY DEF Finish
<1> DEFINE output == IF s = "ok" THEN heard ELSE {}
<1>2. output \in SUBSET Pieces /\ Record(s, output) /\ mode = "wait" /\ TypeOK
  BY <1>1 DEF QuietInv, TypeOK, Finish
<1>3. CASE buffer[Len(buffer)].kind = "like"
  BY <1>2, <1>3, TroubleKept DEF Finish
<1>4. CASE buffer[Len(buffer)].kind # "like"
  <2>1. trouble' = trouble /\ buffer # <<>> /\ buffer[Len(buffer)].kind = "prompt"
    BY <1>4 DEF Finish, LooksDone
  <2>2. trouble = 0 => Idle /\ Piece(step, "prompt") \in heard /\ \A p \in heard : p.of = step
    BY <1>2, <2>1, PromptEnds DEF QuietInv, InTurn, AllMine
  <2>3. Kept'
    BY <1>2, <2>1, <2>2, RecordKept DEF QuietInv
  <2>4. mode' \in {"send", "over"}
    BY <1>2, RecordTyped
  <2>5. trouble' = 0 => zombies' = 0 /\ InTurn'
    BY <2>1, <2>2, <2>4 DEF QuietInv, InTurn, Idle, Finish, olt
  <2>6. QED BY <2>3, <2>5 DEF QuietInv
<1>5. QED BY <1>3, <1>4

LEMMA SendQuiet == ASSUME QuietInv, TypeOK', Send PROVE QuietInv'
<1>1. Kept'
  BY NothingKept DEF Send, QuietInv
<1>2. ASSUME trouble = 0 PROVE zombies' = 0 /\ InTurn'
  <2>1. wire' = <<>> /\ inputs' = <<step'>> /\ asking'.of = 0 /\ zombies' = 0 /\ mode' = "wait"
    BY <1>2 DEF QuietInv, InTurn, Idle, Send
  <2>2. heard' = {} /\ buffer' = <<>> /\ ~paged'
    BY DEF Send
  <2>3. AllMine'
    BY <2>1, <2>2 DEF AllMine
  <2>4. Unread'
    BY <2>1, <2>2 DEF Unread
  <2>5. QED BY <2>1, <2>3, <2>4 DEF InTurn
<1>3. QED BY <1>1, <1>2 DEF QuietInv, Send

\* A question is the last thing the OLT has said.
LEMMA FindQuestionQuiet ==
    ASSUME Greedy = {}, QuietInv, TypeOK', FindQuestion PROVE QuietInv'
<1>1. Kept' /\ TypeOK
  BY NothingKept DEF FindQuestion, QuietInv
<1>2. PICK i \in Asks(step, buffer) : buffer' = After(buffer, i)
  BY DEF FindQuestion
<1>3. i \in 1 .. Len(buffer) /\ buffer[i].kind = "ask" /\ buffer \in Seq(Pieces)
  BY <1>1, <1>2 DEF Asks, TypeOK
<1>4. ASSUME trouble = 0 PROVE zombies' = 0 /\ InTurn'
  <2>1. AllMine /\ (Unread \/ Stopped \/ Answered \/ Replied) /\ mode = "wait"
        /\ step \in Interactive /\ zombies = 0 /\ zombies' = zombies
        /\ UNCHANGED <<step, heard, wire, inputs, asking>> /\ mode' = "answer"
    BY <1>4 DEF FindQuestion, QuietInv, InTurn, olt
  <2>2. ~Unread
    BY <1>3, <2>1 DEF AllMine, Unread
  <2>3. ~Answered
    BY <1>3, <2>1 DEF Answered
  <2>4. ~Replied
    BY <1>3, <2>1 DEF Replied, NoneOf
  <2>5. Stopped
    BY <2>1, <2>2, <2>3, <2>4
  <2>6. wire = <<>>
    BY <1>3, <2>1, <2>5 DEF Stopped, NoneOf
  <2>7. i = Len(buffer)
    BY <1>3, <2>1, <2>5 DEF Stopped, OnlyLast
  <2>8. buffer' = <<>>
    <3>1. Len(buffer) \in Nat
      BY <1>3
    <3>2. SubSeq(buffer, i + 1, Len(buffer)) = <<>>
      BY <1>3, <2>7, <3>1
    <3>3. QED BY <1>2, <3>2 DEF After
  <2>9. AllMine'
    BY <2>1, <2>8 DEF AllMine
  <2>10. Stopped'
    BY <2>1, <2>5, <2>6, <2>8 DEF Stopped, NoneOf, OnlyLast, Unheard
  <2>11. QED BY <2>1, <2>9, <2>10 DEF InTurn
<1>5. QED BY <1>1, <1>4 DEF QuietInv, FindQuestion

LEMMA SendAnswerQuiet == ASSUME QuietInv, TypeOK', SendAnswer PROVE QuietInv'
<1>1. Kept' /\ TypeOK
  BY NothingKept DEF SendAnswer, QuietInv
<1>2. ASSUME trouble = 0 PROVE zombies' = 0 /\ InTurn'
  <2>1. AllMine /\ Stopped /\ zombies = 0
    BY <1>2 DEF SendAnswer, QuietInv, InTurn, Unread, Answered, Replied
  <2>2. step \in Interactive /\ wire = <<>> /\ buffer = <<>> /\ inputs' = <<0>>
    BY <2>1 DEF SendAnswer, Stopped
  <2>3. AllMine' /\ Answered' /\ mode' = "wait" /\ zombies' = 0
    BY <2>1, <2>2 DEF SendAnswer, AllMine, Stopped, Answered, Unheard
  <2>4. QED BY <2>3 DEF InTurn
<1>3. QED BY <1>1, <1>2 DEF QuietInv, SendAnswer

LEMMA AnswerPagerQuiet == ASSUME QuietInv, TypeOK', AnswerPager PROVE QuietInv'
<1>1. Kept' /\ TypeOK
  BY NothingKept DEF AnswerPager, QuietInv
<1>2. ASSUME trouble = 0 PROVE zombies' = 0 /\ InTurn'
  <2>1. AllMine /\ (Unread \/ Stopped \/ Answered \/ Replied) /\ zombies = 0
        /\ mode = "wait" /\ step \notin Interactive /\ ~paged /\ ~Unheard("ask")
    BY <1>2 DEF AnswerPager, QuietInv, InTurn, PagerSeen, Unheard
  <2>2. Stopped
    BY <2>1 DEF Unread, Answered, Replied, Unheard
  <2>3. wire = <<>> /\ inputs' = <<0>>
    BY <2>1, <2>2 DEF Stopped, AnswerPager
  <2>4. AllMine' /\ Answered' /\ mode' = "wait" /\ zombies' = 0
    BY <2>1, <2>2, <2>3 DEF AnswerPager, AllMine, Stopped, Answered, Unheard
  <2>5. QED BY <2>4 DEF InTurn
<1>3. QED BY <1>1, <1>2 DEF QuietInv, AnswerPager

LEMMA ArriveQuiet == ASSUME QuietInv, TypeOK', Arrive PROVE QuietInv'
<1>1. Kept' /\ TypeOK
  BY NothingKept DEF Arrive, QuietInv
<1>2. /\ wire \in Seq(Pieces) /\ buffer \in Seq(Pieces) /\ wire # <<>>
      /\ wire' = Tail(wire) /\ buffer' = Append(buffer, wire[1])
      /\ heard' = heard \cup {wire[1]} /\ wire[1] \in Pieces
      /\ UNCHANGED <<step, mode, paged, inputs, asking, zombies, trouble>>
  <2>1. Head(wire) = wire[1]
    BY <1>1, HeadTail DEF TypeOK, Arrive
  <2>2. QED BY <1>1, <2>1, HeadTail DEF TypeOK, Arrive, olt
<1>3. /\ Len(wire) \in Nat \ {0} /\ Len(wire') = Len(wire) - 1
      /\ \A i \in 1 .. Len(wire') : wire'[i] = wire[i + 1] /\ i + 1 \in 1 .. Len(wire)
      /\ wire' # <<>> => Len(wire) > 1
  BY <1>2, HeadTail
<1>4. /\ Len(buffer) \in Nat /\ Len(buffer') = Len(buffer) + 1
      /\ buffer'[Len(buffer) + 1] = wire[1]
      /\ \A i \in 1 .. Len(buffer) : buffer'[i] = buffer[i]
  BY <1>2, AppendDoes, ElementsOf
<1>5. ASSUME trouble = 0 PROVE zombies' = 0 /\ InTurn'
  <2>1. zombies = 0 /\ mode \in {"wait", "answer"} /\ AllMine /\ (Stopped \/ Replied)
    BY <1>2, <1>5, <1>1 DEF QuietInv, InTurn, Idle, Unread, Answered, TypeOK, Arrive
  <2>2. AllMine'
    <3>1. \A p \in heard' : p.of = step'
      BY <1>2, <1>3, <2>1 DEF AllMine
    <3>2. \A i \in 1 .. Len(wire') : wire'[i].of = step'
      BY <1>2, <1>3, <2>1 DEF AllMine
    <3>3. \A i \in 1 .. Len(buffer') : buffer'[i] \in heard'
      BY <1>2, <1>4, <2>1 DEF AllMine
    <3>4. QED BY <3>1, <3>2, <3>3 DEF AllMine
  <2>3. ASSUME NEW kind, OnlyLast(kind, wire)
        PROVE  OnlyLast(kind, wire') /\ (wire' # <<>> => wire[1].kind # kind)
    <3>1. \A i \in 1 .. Len(wire') - 1 : wire'[i] = wire[i + 1] /\ i + 1 \in 1 .. Len(wire) - 1
      BY <1>3
    <3>2. wire' # <<>> => 1 \in 1 .. Len(wire) - 1
      BY <1>3
    <3>3. QED BY <2>3, <3>1, <3>2 DEF OnlyLast
  <2>4. ASSUME NEW kind, NoneOf(kind, wire)
        PROVE  NoneOf(kind, wire') /\ wire[1].kind # kind
    BY <1>3, <2>4 DEF NoneOf
  <2>5. ASSUME NEW kind, Unheard(kind), wire[1].kind # kind PROVE Unheard(kind)'
    BY <1>2, <2>5 DEF Unheard
  <2>6. ASSUME NEW kind, NoneOf(kind, buffer)
        PROVE  OnlyLast(kind, buffer') /\ (wire[1].kind # kind => NoneOf(kind, buffer'))
    BY <1>4, <2>6 DEF NoneOf, OnlyLast
  <2>7. CASE Stopped
    <3>1. NoneOf("prompt", wire)' /\ Unheard("prompt")' /\ OnlyLast("ask", wire)'
      BY <2>3, <2>4, <2>5, <2>7 DEF Stopped
    <3>2. step \in Interactive => mode = "wait" /\ NoneOf("ask", buffer)
      BY <1>2, <2>1, <2>7 DEF Stopped
    <3>3. step \in Interactive => OnlyLast("ask", buffer)' /\ (wire' # <<>> => NoneOf("ask", buffer)')
      BY <2>3, <2>6, <2>7, <3>2 DEF Stopped
    <3>4. step \notin Interactive => (wire' # <<>> => Unheard("ask")')
      BY <1>2, <2>3, <2>5, <2>7 DEF Stopped
    <3>5. Stopped'
      BY <1>2, <2>7, <3>1, <3>2, <3>3, <3>4 DEF Stopped
    <3>6. QED BY <1>2, <2>1, <2>2, <3>5 DEF InTurn
  <2>8. CASE Replied
    <3>1. OnlyLast("prompt", wire)' /\ (wire' # <<>> => Unheard("prompt")')
      BY <1>2, <2>3, <2>5, <2>8 DEF Replied
    <3>2. step \in Interactive => NoneOf("ask", wire)' /\ NoneOf("ask", buffer)'
      BY <2>4, <2>6, <2>8 DEF Replied
    <3>3. step \notin Interactive => paged \/ (NoneOf("ask", wire)' /\ Unheard("ask")')
      BY <2>4, <2>5, <2>8 DEF Replied
    <3>4. Replied'
      BY <1>2, <2>8, <3>1, <3>2, <3>3 DEF Replied
    <3>5. QED BY <1>2, <2>1, <2>2, <3>4 DEF InTurn
  <2>9. QED BY <2>1, <2>7, <2>8
<1>6. QED BY <1>1, <1>2, <1>5 DEF QuietInv

\* Before any trouble the OLT reads a command when it is ready for one and an
\* answer when it has asked.
LEMMA ReadsInTurn ==
    ASSUME QuietInv, OltReads, trouble = 0
    PROVE  /\ AllMine /\ mode = "wait" /\ zombies = 0 /\ wire = <<>> /\ Unheard("prompt")
           /\ Unread \/ Answered
           /\ Unread => asking.of = 0 /\ Head(inputs) = step
           /\ Answered => asking.of = step /\ Head(inputs) = 0
<1>1. inputs # <<>> /\ mode \in {"send", "wait", "answer", "over"}
  BY DEF OltReads, QuietInv, TypeOK
<1>2. AllMine /\ (Unread \/ Answered) /\ zombies = 0
  BY <1>1 DEF QuietInv, InTurn, Idle, Stopped, Replied
<1>3. QED BY <1>2 DEF Unread, Answered, Unheard

LEMMA OltReadsQuiet == ASSUME QuietInv, TypeOK', OltReads PROVE QuietInv'
<1>0. TypeOK /\ UNCHANGED <<service, trouble>> /\ inputs' = Tail(inputs)
  BY OltReadsDoes DEF QuietInv
<1>1. Kept'
  BY <1>0, NothingKept DEF QuietInv, service
<1>2. ASSUME trouble = 0 PROVE zombies' = 0 /\ InTurn'
  <2>1. /\ AllMine /\ mode = "wait" /\ zombies = 0 /\ wire = <<>> /\ Unheard("prompt")
        /\ Unread \/ Answered
        /\ Unread => asking.of = 0 /\ Head(inputs) = step
        /\ Answered => asking.of = step /\ Head(inputs) = 0
    BY <1>2, ReadsInTurn
  <2>2. step \in Steps /\ step # 0 /\ step \in 0 .. N
    BY <1>0, PiecesOf DEF TypeOK
  <2>3. PICK body \in {"text", "like"}, end \in {"ask", "prompt"} :
           /\ wire' = Append(Append(wire, Piece(step, body)), Piece(step, end))
           /\ end = "prompt" => asking' = NotAsking
           /\ end = "ask" => /\ asking.of # 0 => asking.left > 0
                             /\ asking' = [of |-> step, left |-> asking'.left]
                             /\ step \notin Interactive => asking'.left = 0
    BY <1>0, <2>1, <2>2, OltReadsDoes
  <2>4. /\ <<>> \in Seq(Pieces) /\ Len(<<>>) = 0
        /\ Piece(step, body) \in Pieces /\ Piece(step, end) \in Pieces
        /\ Piece(step, body).of = step /\ Piece(step, body).kind = body
        /\ Piece(step, end).of = step /\ Piece(step, end).kind = end
    BY <2>2, PieceTyped
  <2>5. /\ Len(wire') = 2
        /\ \A i \in 1 .. Len(wire') : i = 1 \/ i = 2
        /\ wire'[1].kind = body /\ wire'[2].kind = end
        /\ wire'[1].of = step /\ wire'[2].of = step
    <3> DEFINE w == Append(wire, Piece(step, body))
    <3>1. w \in Seq(Pieces) /\ Len(w) = 1 /\ w[1] = Piece(step, body)
      BY <2>1, <2>4, AppendDoes
    <3>2. wire' = Append(w, Piece(step, end))
      BY <2>3
    <3> HIDE DEF w
    <3>a. /\ Len(wire') = Len(w) + 1 /\ wire'[Len(w) + 1] = Piece(step, end)
          /\ \A i \in 1 .. Len(w) : wire'[i] = w[i]
      BY <2>4, <3>1, <3>2, AppendDoes
    <3>3. Len(wire') = 2 /\ wire'[1] = w[1] /\ wire'[2] = Piece(step, end)
      BY <3>1, <3>a
    <3>4. \A i \in 1 .. Len(wire') : i = 1 \/ i = 2
      BY <3>3
    <3>5. wire'[1] = Piece(step, body)
      BY <3>1, <3>3
    <3>6. wire'[1].kind = body /\ wire'[1].of = step
      BY <2>4, <3>5, Zenon
    <3>7. wire'[2].kind = end /\ wire'[2].of = step
      BY <2>4, <3>3, Zenon
    <3>8. QED BY <3>3, <3>4, <3>6, <3>7
  <2>6. inputs' = <<>> /\ UNCHANGED <<step, mode, buffer, heard, paged, zombies>>
    <3>1. inputs = <<step>> \/ inputs = <<0>>
      BY <2>1 DEF Unread, Answered
    <3>2. Tail(<<step>>) = <<>> /\ Tail(<<0>>) = <<>>
      OBVIOUS
    <3>3. QED BY <1>0, <3>1, <3>2 DEF service
  <2>7. AllMine'
    BY <2>1, <2>5, <2>6 DEF AllMine
  <2>8. Unheard("prompt")' /\ (Unread => Unheard("ask")' /\ Len(buffer) = 0)
    <3>1. Unread => heard = {} /\ Len(buffer) = 0
      BY <1>0, <2>1 DEF Unread, AllMine, TypeOK
    <3>2. QED BY <2>1, <2>6, <3>1 DEF Unheard
  <2>9. step \in Interactive => Len(buffer') = 0
    BY <2>1, <2>6, <2>8 DEF Answered
  <2>10. CASE end = "prompt"
    <3>1. asking'.of = 0
      BY <2>3, <2>10 DEF NotAsking
    <3>2. OnlyLast("prompt", wire)' /\ NoneOf("ask", wire)'
      BY <2>5, <2>10 DEF OnlyLast, NoneOf
    <3>3. step \in Interactive => NoneOf("ask", buffer)'
      BY <2>9 DEF NoneOf
    <3>4. step \notin Interactive => paged \/ Unheard("ask")'
      BY <2>1, <2>8 DEF Answered
    <3>5. Replied'
      BY <2>1, <2>6, <2>8, <3>1, <3>2, <3>3, <3>4 DEF Replied
    <3>6. QED BY <2>1, <2>6, <2>7, <3>5 DEF InTurn
  <2>11. CASE end = "ask"
    <3>1. asking'.of = step /\ (step \notin Interactive => asking'.left = 0)
      BY <2>3, <2>11
    <3>2. NoneOf("prompt", wire)' /\ OnlyLast("ask", wire)'
      BY <2>5, <2>11 DEF OnlyLast, NoneOf
    <3>3. step \in Interactive => NoneOf("ask", buffer)' /\ OnlyLast("ask", buffer)'
      BY <2>9 DEF NoneOf, OnlyLast
    <3>4. step \notin Interactive => ~paged /\ Unheard("ask")'
      <4>1. step \notin Interactive => ~Answered
        BY <2>2, <2>3, <2>11 DEF Answered
      <4>2. QED BY <2>1, <2>8, <4>1 DEF Unread
    <3>5. Stopped'
      BY <2>1, <2>6, <2>8, <3>1, <3>2, <3>3, <3>4 DEF Stopped
    <3>6. QED BY <2>1, <2>6, <2>7, <3>5 DEF InTurn
  <2>12. QED BY <2>10, <2>11
<1>3. QED BY <1>0, <1>1, <1>2 DEF QuietInv

LEMMA QuietStarts == ASSUME Init PROVE QuietInv
<1>1. TypeOK
  BY InitTyped
<1>2. Kept
  BY ShellAssumption DEF Init, Kept, HistoryIsTrueUntilTrouble, Steps
<1>3. trouble = 0 => zombies = 0 /\ InTurn
  BY DEF Init, InTurn, Idle, NotAsking
<1>4. QED BY <1>1, <1>2, <1>3 DEF QuietInv

LEMMA QuietStep == ASSUME Greedy = {}, QuietInv, [Next]_vars PROVE QuietInv'
<1>0. TypeOK /\ TypeOK' /\ {} \in SUBSET Pieces
  BY NextTyped DEF QuietInv
<1>1. CASE FindQuestion
  BY <1>0, <1>1, FindQuestionQuiet
<1>2. CASE AnswerPager
  BY <1>0, <1>2, AnswerPagerQuiet
<1>3. CASE Finish
  BY <1>0, <1>3, FinishQuiet
<1>4. CASE Send
  BY <1>0, <1>4, SendQuiet
<1>5. CASE SendAnswer
  BY <1>0, <1>5, SendAnswerQuiet
<1>6. CASE WriteFails
  <2>1. mode # "over" /\ InTrouble(step) /\ Record("failed", {})
    BY <1>6 DEF WriteFails
  <2>2. QED BY <1>0, <2>1, TroubleKept
<1>7. CASE Timeout
  <2>1. mode # "over" /\ InTrouble(step) /\ Record("failed", {})
    BY <1>7 DEF Timeout
  <2>2. QED BY <1>0, <2>1, TroubleKept
<1>8. CASE ZombieTakes
  <2>1. trouble # 0
    BY <1>8 DEF ZombieTakes, QuietInv
  <2>2. Kept' /\ trouble' = trouble
    BY <1>8, NothingKept DEF ZombieTakes, QuietInv
  <2>3. QED BY <1>0, <2>1, <2>2 DEF QuietInv
<1>9. CASE Arrive
  BY <1>0, <1>9, ArriveQuiet
<1>10. CASE OltReads
  BY <1>0, <1>10, OltReadsQuiet
<1>11. CASE UNCHANGED vars
  BY <1>0, <1>11
     DEF vars, service, olt, QuietInv, Kept, HistoryIsTrueUntilTrouble, OwnReply, InTurn, Idle,
         AllMine, Unread, Stopped, Answered, Replied, Unheard
<1>12. QED
  BY <1>1, <1>2, <1>3, <1>4, <1>5, <1>6, <1>7, <1>8, <1>9, <1>10, <1>11 DEF Next, Poll, Write

\* Where no interaction waits for what its own answer produces, every entry made
\* before the first trouble holds the reply to its own command, to its end
\* (CommandExecutor.runFlow over SSHService.runCommand).
THEOREM HistoryIsTrue == ASSUME Greedy = {} PROVE Spec => []HistoryIsTrueUntilTrouble
<1>1. Init => QuietInv
  BY QuietStarts
<1>2. QuietInv /\ [Next]_vars => QuietInv'
  BY QuietStep
<1>3. QuietInv => HistoryIsTrueUntilTrouble
  BY DEF QuietInv, Kept
<1>4. QED BY <1>1, <1>2, <1>3, PTL DEF Spec

\* And the OLT reads each answer as one and each command as a command.
THEOREM InTurnAlways == ASSUME Greedy = {} PROVE Spec => AnswersMeetQuestions
<1>1. Init => QuietInv
  BY QuietStarts
<1>2. QuietInv /\ [Next]_vars => QuietInv'
  BY QuietStep
<1>3. QuietInv => (OltReads /\ trouble = 0 => (asking.of # 0 <=> Head(inputs) = 0))
  <2> SUFFICES ASSUME QuietInv, OltReads, trouble = 0 PROVE asking.of # 0 <=> Head(inputs) = 0
    OBVIOUS
  <2>1. step # 0
    BY PiecesOf DEF QuietInv
  <2>2. QED BY <2>1, ReadsInTurn
<1>4. QED BY <1>1, <1>2, <1>3, PTL DEF Spec, AnswersMeetQuestions

-----------------------------------------------------------------------------
\* The shell implements the abstract flow (CommandFlow), its ending aside.
\* An entry in the history is one step of it.
LEMMA RecordEnters ==
    ASSUME QuietInv, QuietInv', RepliesAreOnlyLate', mode # "over",
           NEW s \in {"ok", "failed"}, NEW output \in SUBSET Pieces, Record(s, output),
           s = "failed" => output = {},
           trouble' = trouble \/ InTrouble(step)
    PROVE  Flow!Next
<1>1. /\ step \in 1 .. N /\ step \in Steps /\ N \in Nat /\ TypeOK /\ trouble \in 0 .. N
  BY PiecesOf DEF QuietInv, TypeOK
<1>2. /\ raw' = [raw EXCEPT ![step] = output] /\ raw \in [Steps -> SUBSET Pieces]
      /\ status' = [status EXCEPT ![step] = s] /\ status \in [Steps -> {"none", "ok", "failed"}]
  BY <1>1 DEF Record, TypeOK
<1>3. raw'[step] = output /\ status'[step] = s /\ \A k \in 1 .. N : k # step => raw'[k] = raw[k]
  BY <1>1, <1>2 DEF Steps
<1>4. (mode' = "over") = (step = N \/ (s = "failed" /\ step \in Required))
  BY DEF Record
<1>5. step' = IF mode' = "over" THEN step ELSE step + 1
  BY DEF Record
<1>6. trouble' = trouble \/ (trouble = 0 /\ trouble' = step)
  BY DEF InTrouble
<1>7. s = "ok" /\ trouble' = 0 => Flow!Own(output)
  <2> SUFFICES ASSUME s = "ok", trouble' = 0 PROVE Flow!Own(output)
    OBVIOUS
  <2>2. HistoryIsTrueUntilTrouble'
    BY DEF QuietInv, Kept
  <2>3. Piece(step, "prompt") \in raw'[step] /\ \A p \in raw'[step] : p.of = step
    BY <1>1, <1>3, <2>2 DEF HistoryIsTrueUntilTrouble, OwnReply, Piece
  <2>4. QED BY <1>3, <2>3 DEF Flow!Own, Piece
<1>8. Flow!Late(output)
  <2>1. \A p \in raw'[step] :
           /\ p.of <= step
           /\ p.of # 0 => \A j \in 1 .. step - 1 : \A o \in raw'[j] : o.of <= p.of
    BY <1>1 DEF RepliesAreOnlyLate
  <2>2. \A j \in 1 .. step - 1 : raw'[j] = raw[j]
    BY <1>1, <1>3
  <2>3. QED BY <1>3, <2>1, <2>2 DEF Flow!Late
<1>9. Flow!Entry(s, raw'[step])
  <2>1. CASE s = "failed"
    BY <1>3, <1>6, <2>1 DEF Flow!Entry
  <2>2. CASE s = "ok"
    BY <1>3, <1>6, <1>7, <1>8, <2>2 DEF Flow!Entry
  <2>3. QED BY <2>1, <2>2
<1>10. Flow!Enter(s)
  BY <1>2, <1>3, <1>4, <1>5, <1>9 DEF Flow!Enter
<1>11. QED BY <1>10 DEF Flow!Next

\* Where no interaction waits for what its own answer produces, runFlow keeps
\* the promise of CommandFlow: entries in order, each once, none after a required
\* step that failed, each with its own reply until the first trouble and with
\* none but a late one after it.
THEOREM ImplementsCommandFlow ==
    ASSUME Greedy = {} PROVE Spec => Flow!Init /\ [][Flow!Next]_Flow!vars
<1>1. Init => QuietInv /\ Flow!Init
  BY QuietStarts DEF Init, Flow!Init, Steps
<1>2. QuietInv /\ [Next]_vars => QuietInv'
  BY QuietStep
<1>3. QuietInv /\ QuietInv' /\ RepliesAreOnlyLate' /\ [Next]_vars => [Flow!Next]_Flow!vars
  <2> SUFFICES ASSUME QuietInv, QuietInv', RepliesAreOnlyLate', [Next]_vars
               PROVE  Flow!Next \/ UNCHANGED Flow!vars
    OBVIOUS
  <2>0. {} \in SUBSET Pieces /\ heard \in SUBSET Pieces
    BY DEF QuietInv, TypeOK
  <2>1. CASE Finish
    <3>1. PICK s \in {"ok", "failed"} : Record(s, IF s = "ok" THEN heard ELSE {})
      BY <2>1 DEF Finish
    <3>2. mode # "over" /\ (trouble' = trouble \/ InTrouble(step))
      BY <2>1 DEF Finish
    <3>3. QED BY <2>0, <3>1, <3>2, RecordEnters
  <2>2. CASE WriteFails
    BY <2>0, <2>2, RecordEnters DEF WriteFails
  <2>3. CASE Timeout
    BY <2>0, <2>3, RecordEnters DEF Timeout
  <2>4. CASE UNCHANGED <<step, status, raw, trouble>> /\ (mode = "over") = (mode' = "over")
    BY <2>4 DEF Flow!vars
  <2>5. CASE FindQuestion \/ AnswerPager \/ Send \/ SendAnswer \/ ZombieTakes \/ Arrive \/ OltReads
    BY <2>4, <2>5 DEF FindQuestion, AnswerPager, Send, SendAnswer, ZombieTakes, Arrive, OltReads,
                      service
  <2>6. CASE UNCHANGED vars
    BY <2>4, <2>6 DEF vars, service
  <2>7. QED BY <2>1, <2>2, <2>3, <2>5, <2>6 DEF Next, Poll, Write
<1>4. QED BY <1>1, <1>2, <1>3, LateAtWorst, PTL DEF Spec
=============================================================================
