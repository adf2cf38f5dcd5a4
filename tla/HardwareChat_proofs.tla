------------------------- MODULE HardwareChat_proofs -------------------------
(***************************************************************************)
(* Proofs about the hardwareChatMessage handlers of module HardwareChat.   *)
(***************************************************************************)
EXTENDS HardwareChat, FiniteSetTheorems, TLAPS

USE ConstantsAssumption

\* The two turns a successful remote call adds are turns of the history.
LEMMA ExtendedType ==
  ASSUME NEW h \in Seq(Turn), NEW q \in Query, NEW a \in Reply
  PROVE  HardwareChatHistory(q, h, a) \in Seq(Turn)
<1>1. CASE a = ErrorReply
  BY <1>1 DEF HardwareChatHistory, Abs!Extended
<1>2. CASE a # ErrorReply
  <2>1. a \in Answer
    BY <1>2 DEF Reply
  <2>2. Abs!UserTurn(q) \in Turn /\ Abs!ModelTurn(a) \in Turn
    BY <2>1 DEF Abs!UserTurn, Abs!ModelTurn, Turn
  <2>3. QED
    BY <1>2, <2>2 DEF HardwareChatHistory, Abs!Extended
<1>3. QED
  BY <1>1, <1>2

\* Every step of the handlers keeps every variable in its type.
LEMMA TypeStep == TypeOK /\ [Next]_vars => TypeOK'
<1> SUFFICES ASSUME TypeOK, [Next]_vars PROVE TypeOK'
  OBVIOUS
<1>1. ASSUME NEW r \in Req, ReceiveExisting(r) PROVE TypeOK'
  BY <1>1 DEF ReceiveExisting, TypeOK
<1>2. ASSUME NEW r \in Req, ReceiveNew(r) PROVE TypeOK'
  BY <1>2 DEF ReceiveNew, TypeOK
<1>3. ASSUME NEW r \in Req, Save(r) PROVE TypeOK'
  <2>1. PICK a \in Reply :
          /\ history' = [history EXCEPT ![sid[r]] =
                           HardwareChatHistory(question[r], snapshot[r], a)]
          /\ reply' = [reply EXCEPT ![r] = a]
    BY <1>3 DEF Save
  <2>2. HardwareChatHistory(question[r], snapshot[r], a) \in Seq(Turn)
    BY ExtendedType DEF TypeOK
  <2>3. QED
    BY <1>3, <2>1, <2>2 DEF Save, TypeOK
<1>4. ASSUME NEW r \in Req, Record(r) PROVE TypeOK'
  <2>1. [question |-> question[r], answer |-> reply[r]] \in Row
    BY DEF TypeOK, Row
  <2>2. queries' \in [Sid -> Seq(Row)]
    <3>1. CASE sid[r] \in Sid
      <4>1. Append(queries[sid[r]], [question |-> question[r], answer |-> reply[r]]) \in Seq(Row)
        BY <3>1, <2>1 DEF TypeOK
      <4>2. QED
        BY <1>4, <4>1 DEF Record, TypeOK
    <3>2. CASE sid[r] \notin Sid
      BY <1>4, <3>2 DEF Record, TypeOK
    <3>3. QED
      BY <3>1, <3>2
  <2>3. QED
    BY <1>4, <2>2 DEF Record, TypeOK
<1>5. CASE UNCHANGED vars
  BY <1>5 DEF vars, TypeOK
<1>6. ASSUME NEW r \in Req, SaveFails(r) \/ RecordFails(r) PROVE TypeOK'
  BY <1>6 DEF SaveFails, RecordFails, TypeOK
<1>7. QED
  BY <1>1, <1>2, <1>3, <1>4, <1>5, <1>6 DEF Next

\* The handlers keep every variable in its type.
THEOREM TypeCorrect == Spec => []TypeOK
<1>1. Init => TypeOK
  BY DEF Init, TypeOK, Reply
<1>2. QED
  BY <1>1, TypeStep, PTL DEF Spec

\* A session id not yet handed out by uuid4 has no history and no rows:
\* ReceiveNew creates the row with history=[].
FreshRowsEmpty ==
  \A s \in Sid \ chats : history[s] = <<>> /\ queries[s] = <<>>

\* The inductive invariant: SessionsExclusive is not inductive by itself, it
\* needs the types and the emptiness of the rows not yet created.
IInv == TypeOK /\ FreshRowsEmpty /\ SessionsExclusive

\* With sequential clients, no two handlers ever work on one session and a
\* handler saving a history saves onto the history it read.
THEOREM Exclusive == SequentialClients = TRUE => (Spec => []IInv)
<1> SUFFICES ASSUME SequentialClients = TRUE PROVE Spec => []IInv
  OBVIOUS
<1>1. Init => IInv
  BY TypeCorrect DEF Init, IInv, TypeOK, Reply, FreshRowsEmpty, SessionsExclusive
<1>2. IInv /\ [Next]_vars => IInv'
  <2> SUFFICES ASSUME IInv, [Next]_vars PROVE IInv'
    OBVIOUS
  <2>0. TypeOK'
    BY TypeStep DEF IInv
  <2>1. ASSUME NEW r \in Req, ReceiveExisting(r) PROVE IInv'
    BY <2>0, <2>1 DEF ReceiveExisting, IInv, TypeOK, FreshRowsEmpty, SessionsExclusive, Busy
  <2>2. ASSUME NEW r \in Req, ReceiveNew(r) PROVE IInv'
    BY <2>0, <2>2 DEF ReceiveNew, IInv, TypeOK, FreshRowsEmpty, SessionsExclusive
  <2>3. ASSUME NEW r \in Req, Save(r) PROVE IInv'
    <3>1. PICK a \in Reply :
            history' = [history EXCEPT ![sid[r]] =
                          HardwareChatHistory(question[r], snapshot[r], a)]
      BY <2>3 DEF Save
    <3>2. sid[r] \in chats
      BY <2>3 DEF Save, IInv, SessionsExclusive
    <3>3. \A t \in Sid : t # sid[r] => history'[t] = history[t]
      BY <3>1 DEF IInv, TypeOK
    <3>4. FreshRowsEmpty'
      BY <2>3, <3>2, <3>3 DEF Save, IInv, FreshRowsEmpty
    <3>5. ASSUME NEW o \in Req, pc'[o] = "save" PROVE snapshot'[o] = history'[sid'[o]]
      <4>1. o # r /\ pc[o] = "save"
        BY <2>3, <3>5 DEF Save, IInv, TypeOK
      <4>2. sid[o] # sid[r] /\ sid[o] \in Sid
        BY <2>3, <4>1 DEF Save, IInv, TypeOK, SessionsExclusive
      <4>3. QED
        BY <2>3, <3>3, <4>1, <4>2 DEF Save, IInv, SessionsExclusive
    <3>6. QED
      BY <2>0, <2>3, <3>4, <3>5 DEF Save, IInv, TypeOK, SessionsExclusive
  <2>4. ASSUME NEW r \in Req, Record(r) PROVE IInv'
    BY <2>0, <2>4 DEF Record, IInv, TypeOK, FreshRowsEmpty, SessionsExclusive
  <2>5. CASE UNCHANGED vars
    BY <2>0, <2>5 DEF vars, IInv, TypeOK, FreshRowsEmpty, SessionsExclusive
  <2>6. ASSUME NEW r \in Req, SaveFails(r) \/ RecordFails(r) PROVE IInv'
    <3>1. CASE SaveFails(r)
      BY <2>0, <3>1 DEF SaveFails, IInv, TypeOK, FreshRowsEmpty, SessionsExclusive
    <3>2. CASE RecordFails(r)
      BY <2>0, <3>2 DEF RecordFails, IInv, TypeOK, FreshRowsEmpty, SessionsExclusive
    <3>3. QED
      BY <2>6, <3>1, <3>2
  <2>7. QED
    BY <2>1, <2>2, <2>3, <2>4, <2>5, <2>6 DEF Next
<1>3. QED
  BY <1>1, <1>2, PTL DEF Spec

\* With sequential clients the handlers never share a session and never
\* save a stale history.
THEOREM SessionsExclusiveHolds == SequentialClients = TRUE => (Spec => []SessionsExclusive)
<1> SUFFICES ASSUME SequentialClients = TRUE PROVE Spec => []SessionsExclusive
  OBVIOUS
<1>1. IInv => SessionsExclusive
  BY DEF IInv
<1>2. QED
  BY <1>1, Exclusive, PTL

\* The history hardware_chat returns starts with the history passed in.
LEMMA ExtendedPrefix ==
  ASSUME NEW h \in Seq(Turn), NEW q \in Query, NEW a \in Reply
  PROVE  LET e == HardwareChatHistory(q, h, a)
         IN  Len(h) <= Len(e) /\ SubSeq(e, 1, Len(h)) = h
<1>1. CASE a = ErrorReply
  BY <1>1 DEF HardwareChatHistory, Abs!Extended
<1>2. CASE a # ErrorReply
  BY <1>2 DEF HardwareChatHistory, Abs!Extended
<1>3. QED
  BY <1>1, <1>2

\* With sequential clients a session's history is only ever extended, even
\* when database writes raise: chat_session.save() never writes back turns
\* older than the ones the row holds.
THEOREM AppendsOnly == SequentialClients = TRUE => (Spec => HistoryOnlyAppends)
<1> SUFFICES ASSUME SequentialClients = TRUE PROVE Spec => HistoryOnlyAppends
  OBVIOUS
<1>1. IInv /\ [Next]_vars => [HistoryGrows]_history
  <2> SUFFICES ASSUME IInv, [Next]_vars PROVE [HistoryGrows]_history
    OBVIOUS
  <2>1. ASSUME NEW r \in Req, Save(r) PROVE HistoryGrows
    <3>1. PICK a \in Reply :
            history' = [history EXCEPT ![sid[r]] =
                          HardwareChatHistory(question[r], snapshot[r], a)]
      BY <2>1 DEF Save
    <3>2. sid[r] \in Sid /\ snapshot[r] = history[sid[r]]
      BY <2>1 DEF Save, IInv, SessionsExclusive, TypeOK
    <3>3. ASSUME NEW t \in Sid PROVE /\ Len(history[t]) <= Len(history'[t])
                                     /\ SubSeq(history'[t], 1, Len(history[t])) = history[t]
      <4>1. CASE t = sid[r]
        <5>1. history'[t] = HardwareChatHistory(question[r], history[t], a)
          BY <3>1, <3>2, <4>1 DEF IInv, TypeOK
        <5>2. QED
          BY <5>1, ExtendedPrefix DEF IInv, TypeOK
      <4>2. CASE t # sid[r]
        BY <3>1, <4>2 DEF IInv, TypeOK
      <4>3. QED
        BY <4>1, <4>2
    <3>4. QED
      BY <3>3 DEF HistoryGrows
  <2>2. CASE ~\E r \in Req : Save(r)
    BY <2>2 DEF Next, ReceiveExisting, ReceiveNew, Record, SaveFails, RecordFails, vars
  <2>3. QED
    BY <2>1, <2>2
<1>2. Spec => [][HistoryGrows]_history
  BY <1>1, Exclusive, PTL DEF Spec
<1>3. QED
  BY <1>2 DEF HistoryOnlyAppends

\* A step that leaves a session's HardwareQuery rows, the handlers about to
\* create a row for it and the rows they will create alone leaves the
\* session's abstract rows alone.
LEMMA BarUnchangedAt ==
  ASSUME NEW t \in Sid,
         queries'[t] = queries[t],
         Pending(t)' = Pending(t),
         \A x \in Pending(t) : PendingRow(x)' = PendingRow(x)
  PROVE  queriesBar'[t] = queriesBar[t]
<1>1. CASE Pending(t) = {}
  BY <1>1 DEF queriesBar
<1>2. CASE Pending(t) # {}
  <2>1. (CHOOSE x \in Pending(t) : TRUE) \in Pending(t)
    BY <1>2
  <2>2. PendingRow(CHOOSE x \in Pending(t) : TRUE)' = PendingRow(CHOOSE x \in Pending(t) : TRUE)
    BY <2>1
  <2>3. QED
    BY <1>2, <2>2 DEF queriesBar
<1>3. QED
  BY <1>1, <1>2

\* The same for every session at once.
LEMMA BarUnchanged ==
  ASSUME queries' = queries,
         \A s \in Sid : Pending(s)' = Pending(s),
         \A x \in Req : pc[x] = "record" => PendingRow(x)' = PendingRow(x)
  PROVE  queriesBar' = queriesBar
<1>1. \A s \in Sid : queriesBar'[s] = queriesBar[s]
  BY BarUnchangedAt DEF Pending
<1>2. QED
  BY <1>1 DEF queriesBar

\* With sequential clients and database writes that do not raise, the
\* mutation handlers implement the atomic chat session of ChatAbstract under
\* the mapping queriesBar: every message adds its row and, when answered,
\* its two turns, none lost and none reordered.
THEOREM Refinement ==
  SequentialClients = TRUE /\ DbFailures = FALSE => (Spec => ChatRefinement)
<1> SUFFICES ASSUME SequentialClients = TRUE, DbFailures = FALSE PROVE Spec => Chat!Spec
  BY DEF ChatRefinement
<1>1. Init => Chat!Init
  <2> SUFFICES ASSUME Init PROVE Chat!Init
    OBVIOUS
  <2>1. \A s \in Sid : Pending(s) = {}
    BY DEF Init, Pending
  <2>2. queriesBar = queries
    BY <2>1 DEF Init, queriesBar
  <2>3. QED
    BY <2>2 DEF Init, Chat!Init
<1>2. IInv /\ [Next]_vars => [Chat!Next]_Chat!vars
  <2> SUFFICES ASSUME IInv, [Next]_vars PROVE [Chat!Next]_Chat!vars
    OBVIOUS
  <2>1. ASSUME NEW r \in Req, ReceiveExisting(r) PROVE [Chat!Next]_Chat!vars
    <3>1. queriesBar' = queriesBar
      BY <2>1, BarUnchanged DEF ReceiveExisting, Pending, PendingRow, IInv, TypeOK
    <3>2. QED
      BY <2>1, <3>1 DEF ReceiveExisting, Chat!vars
  <2>2. ASSUME NEW r \in Req, ReceiveNew(r) PROVE [Chat!Next]_Chat!vars
    <3>1. queriesBar' = queriesBar
      BY <2>2, BarUnchanged DEF ReceiveNew, Pending, PendingRow, IInv, TypeOK
    <3>2. PICK s \in Sid \ chats : chats' = chats \cup {s}
      BY <2>2 DEF ReceiveNew
    <3>3. Chat!OpenSession(s)
      BY <2>2, <3>1, <3>2 DEF ReceiveNew, Chat!OpenSession
    <3>4. QED
      BY <3>3 DEF Chat!Next
  <2>3. ASSUME NEW r \in Req, Save(r) PROVE [Chat!Next]_Chat!vars
    <3> DEFINE s == sid[r]
               q == question[r]
    <3>1. PICK a \in Reply :
            /\ history' = [history EXCEPT ![s] = HardwareChatHistory(q, snapshot[r], a)]
            /\ reply' = [reply EXCEPT ![r] = a]
      BY <2>3 DEF Save
    <3>2. s \in chats /\ s \in Sid /\ snapshot[r] = history[s] /\ q \in Query
      BY <2>3 DEF Save, IInv, SessionsExclusive, TypeOK
    <3>3. Pending(s) = {} /\ Pending(s)' = {r}
      <4>1. ASSUME NEW o \in Req, pc[o] = "record", sid[o] = s PROVE FALSE
        BY <2>3, <4>1 DEF Save, IInv, SessionsExclusive
      <4>2. Pending(s) = {}
        BY <4>1 DEF Pending
      <4>3. ASSUME NEW o \in Req PROVE o \in Pending(s)' <=> o = r
        BY <2>3, <4>1 DEF Save, IInv, TypeOK, Pending
      <4>4. QED
        BY <4>2, <4>3 DEF Pending
    <3>4. \A t \in Sid \ {s} : Pending(t)' = Pending(t)
      BY <2>3 DEF Save, Pending
    <3>5. \A x \in Req \ {r} : PendingRow(x)' = PendingRow(x)
      BY <2>3, <3>1 DEF Save, PendingRow, IInv, TypeOK
    <3>6. queriesBar'[s] = Append(queriesBar[s], [question |-> q, answer |-> a])
      <4>1. queriesBar[s] = queries[s]
        BY <3>2, <3>3 DEF queriesBar
      <4>2. PendingRow(r)' = [question |-> q, answer |-> a]
        BY <2>3, <3>1 DEF Save, PendingRow, IInv, TypeOK
      <4>3. QED
        BY <2>3, <3>2, <3>3, <4>1, <4>2 DEF Save, queriesBar
    <3>7. ASSUME NEW t \in Sid \ {s} PROVE queriesBar'[t] = queriesBar[t]
      <4>1. Pending(t) \subseteq Req \ {r}
        BY DEF Pending
      <4>2. QED
        BY <2>3, <3>4, <3>5, <4>1, BarUnchangedAt DEF Save
    <3>8. queriesBar' = [queriesBar EXCEPT ![s] = Append(@, [question |-> q, answer |-> a])]
      BY <3>2, <3>6, <3>7 DEF queriesBar
    <3>9. history' = [history EXCEPT ![s] = Chat!Extended(@, q, a)]
      BY <3>1, <3>2 DEF HardwareChatHistory, Abs!Extended, Chat!Extended, Abs!UserTurn,
         Abs!ModelTurn, Chat!UserTurn, Chat!ModelTurn
    <3>10. Chat!Message(s, q, a)
      BY <2>3, <3>2, <3>8, <3>9 DEF Save, Chat!Message
    <3>11. QED
      BY <3>2, <3>10 DEF Chat!Next, Reply
  <2>4. ASSUME NEW r \in Req, Record(r) PROVE [Chat!Next]_Chat!vars
    <3>1. PICK s \in Sid : s = sid[r]
      BY <2>4 DEF Record, IInv, SessionsExclusive, TypeOK
    <3>2. Pending(s) = {r} /\ Pending(s)' = {}
      <4>1. ASSUME NEW o \in Req \ {r} PROVE ~(pc[o] # "idle" /\ sid[o] = s)
        BY <2>4, <3>1 DEF Record, IInv, SessionsExclusive
      <4>2. ASSUME NEW o \in Req PROVE o \in Pending(s) <=> o = r
        BY <2>4, <3>1, <4>1 DEF Record, Pending
      <4>3. ASSUME NEW o \in Req PROVE o \notin Pending(s)'
        BY <2>4, <4>1 DEF Record, IInv, TypeOK, Pending
      <4>4. QED
        BY <4>2, <4>3 DEF Pending
    <3>3. queriesBar'[s] = queriesBar[s]
      <4>1. (CHOOSE x \in Pending(s) : TRUE) = r
        BY <3>2
      <4>2. queriesBar[s] = Append(queries[s], PendingRow(r))
        BY <3>2, <4>1 DEF queriesBar
      <4>3. queriesBar'[s] = queries'[s]
        BY <3>2 DEF queriesBar
      <4>4. QED
        BY <2>4, <3>1, <4>2, <4>3 DEF Record, PendingRow, IInv, TypeOK
    <3>4. ASSUME NEW t \in Sid \ {s} PROVE queriesBar'[t] = queriesBar[t]
      <4>1. Pending(t)' = Pending(t)
        BY <2>4, <3>1 DEF Record, Pending
      <4>2. \A x \in Pending(t) : PendingRow(x)' = PendingRow(x)
        BY <2>4 DEF Record, Pending, PendingRow
      <4>3. queries'[t] = queries[t]
        BY <2>4, <3>1 DEF Record, IInv, TypeOK
      <4>4. QED
        BY <4>1, <4>2, <4>3, BarUnchangedAt
    <3>5. queriesBar' = queriesBar
      BY <3>3, <3>4 DEF queriesBar
    <3>6. QED
      BY <2>4, <3>5 DEF Record, Chat!vars
  <2>5. CASE UNCHANGED vars
    BY <2>5 DEF vars, Chat!vars, queriesBar, Pending, PendingRow
  <2>6. ASSUME NEW r \in Req, SaveFails(r) \/ RecordFails(r) PROVE [Chat!Next]_Chat!vars
    <3>1. SaveFails(r)
      BY <2>6 DEF RecordFails
    <3>2. queriesBar' = queriesBar
      BY <3>1, BarUnchanged DEF SaveFails, Pending, PendingRow, IInv, TypeOK
    <3>3. QED
      BY <3>1, <3>2 DEF SaveFails, Chat!vars
  <2>7. QED
    BY <2>1, <2>2, <2>3, <2>4, <2>5, <2>6 DEF Next
<1>3. QED
  BY <1>1, <1>2, Exclusive, PTL DEF Spec, Chat!Spec

-----------------------------------------------------------------------------
(***************************************************************************)
(* Turns and HardwareQuery rows agree when no database write raises.       *)
(***************************************************************************)

\* The rows of a session whose answer is not the error reply.
Answered(rows) == {i \in 1..Len(rows) : rows[i].answer # ErrorReply}

\* Handler o has saved two turns on session t and not yet created the row.
OwedBy(o, t) == pc[o] = "record" /\ sid[o] = t /\ reply[o] # ErrorReply

\* The turns session t holds beyond those its rows account for.
Owed(t) == IF \E o \in Req : OwedBy(o, t) THEN 2 ELSE 0

\* TurnsHaveRows while a message is in flight: the turns saved but not yet
\* matched by a row are counted.
RowsInv ==
  \A t \in chats : Len(history[t]) = 2 * Cardinality(Answered(queries[t])) + Owed(t)

\* hardware_chat adds two turns when the call succeeds and none when it fails.
LEMMA ExtendedLen ==
  ASSUME NEW h \in Seq(Turn), NEW q \in Query, NEW a \in Reply
  PROVE  Len(HardwareChatHistory(q, h, a)) = Len(h) + (IF a # ErrorReply THEN 2 ELSE 0)
<1>1. CASE a = ErrorReply
  BY <1>1 DEF HardwareChatHistory, Abs!Extended
<1>2. CASE a # ErrorReply
  BY <1>2 DEF HardwareChatHistory, Abs!Extended
<1>3. QED
  BY <1>1, <1>2

\* The answered rows of a session form a finite set.
LEMMA AnsweredFinite ==
  ASSUME NEW rows \in Seq(Row)
  PROVE  IsFiniteSet(Answered(rows))
<1>1. IsFiniteSet(1..Len(rows))
  BY FS_Interval
<1>2. QED
  BY <1>1, FS_Subset DEF Answered

\* Creating a HardwareQuery row adds one answered row unless its answer is
\* the error reply.
LEMMA AnsweredAppend ==
  ASSUME NEW rows \in Seq(Row), NEW x \in Row
  PROVE  Cardinality(Answered(Append(rows, x))) =
           Cardinality(Answered(rows)) + (IF x.answer # ErrorReply THEN 1 ELSE 0)
<1>1. IsFiniteSet(Answered(rows))
  BY AnsweredFinite
<1>2. CASE x.answer # ErrorReply
  <2>1. Answered(Append(rows, x)) = Answered(rows) \cup {Len(rows) + 1}
    BY <1>2 DEF Answered
  <2>2. Len(rows) + 1 \notin Answered(rows)
    BY DEF Answered
  <2>3. QED
    BY <1>1, <1>2, <2>1, <2>2, FS_AddElement
<1>3. CASE x.answer = ErrorReply
  <2>1. Answered(Append(rows, x)) = Answered(rows)
    BY <1>3 DEF Answered
  <2>2. Cardinality(Answered(rows)) \in Nat
    BY <1>1, FS_CardinalityType
  <2>3. QED
    BY <1>3, <2>1, <2>2
<1>4. QED
  BY <1>2, <1>3

\* A step that changes no handler's debt to session t leaves Owed(t) alone.
LEMMA OwedSame ==
  ASSUME NEW t, \A o \in Req : OwedBy(o, t)' <=> OwedBy(o, t)
  PROVE  Owed(t)' = Owed(t)
BY DEF Owed

\* With sequential clients and database writes that do not raise, a session
\* no message is in flight on has two turns for each answered HardwareQuery
\* row: chat_session.save() and HardwareQuery.objects.create() both happen.
THEOREM RowsAgree ==
  SequentialClients = TRUE /\ DbFailures = FALSE => (Spec => []TurnsHaveRows)
<1> SUFFICES ASSUME SequentialClients = TRUE, DbFailures = FALSE
             PROVE  Spec => []TurnsHaveRows
  OBVIOUS
<1>1. Init => RowsInv
  BY DEF Init, RowsInv
<1>2. IInv /\ IInv' /\ RowsInv /\ [Next]_vars => RowsInv'
  <2> SUFFICES ASSUME IInv, IInv', RowsInv, [Next]_vars PROVE RowsInv'
    OBVIOUS
  <2>1. ASSUME NEW r \in Req, ReceiveExisting(r) PROVE RowsInv'
    <3>1. ASSUME NEW t PROVE Owed(t)' = Owed(t)
      BY <2>1, OwedSame DEF ReceiveExisting, OwedBy, IInv, TypeOK
    <3>2. QED
      BY <2>1, <3>1 DEF ReceiveExisting, RowsInv
  <2>2. ASSUME NEW r \in Req, ReceiveNew(r) PROVE RowsInv'
    <3>1. PICK s \in Sid \ chats : chats' = chats \cup {s}
      BY <2>2 DEF ReceiveNew
    <3>2. ASSUME NEW t PROVE Owed(t)' = Owed(t)
      BY <2>2, OwedSame DEF ReceiveNew, OwedBy, IInv, TypeOK
    <3>3. Owed(s) = 0
      <4>1. ASSUME NEW o \in Req PROVE ~OwedBy(o, s)
        BY DEF OwedBy, IInv, SessionsExclusive
      <4>2. QED
        BY <4>1 DEF Owed
    <3>4. history[s] = <<>> /\ queries[s] = <<>>
      BY DEF IInv, FreshRowsEmpty
    <3>5. Cardinality(Answered(queries[s])) = 0
      <4>1. Answered(queries[s]) = {}
        BY <3>4 DEF Answered
      <4>2. QED
        BY <4>1, FS_EmptySet
    <3>6. QED
      BY <2>2, <3>1, <3>2, <3>3, <3>4, <3>5 DEF ReceiveNew, RowsInv
  <2>3. ASSUME NEW r \in Req, Save(r) PROVE RowsInv'
    <3>1. PICK s \in Sid : s = sid[r]
      BY <2>3 DEF Save, IInv, SessionsExclusive, TypeOK
    <3>2. PICK a \in Reply :
            /\ history' = [history EXCEPT ![s] = HardwareChatHistory(question[r], snapshot[r], a)]
            /\ reply' = [reply EXCEPT ![r] = a]
      BY <2>3, <3>1 DEF Save
    <3>3. s \in chats /\ snapshot[r] = history[s]
      BY <2>3, <3>1 DEF Save, IInv, SessionsExclusive
    <3>4. \A o \in Req \ {r} : pc[o] # "idle" => sid[o] # s
      BY <2>3, <3>1 DEF Save, IInv, SessionsExclusive
    <3>5. Owed(s) = 0
      BY <2>3, <3>1, <3>4 DEF Save, Owed, OwedBy
    <3>6. Owed(s)' = IF a # ErrorReply THEN 2 ELSE 0
      <4>1. \A o \in Req : OwedBy(o, s)' <=> (o = r /\ a # ErrorReply)
        BY <2>3, <3>1, <3>2, <3>4 DEF Save, OwedBy, IInv, TypeOK
      <4>2. QED
        BY <4>1 DEF Owed
    <3>7. Len(history'[s]) = Len(history[s]) + (IF a # ErrorReply THEN 2 ELSE 0)
      <4>1. history'[s] = HardwareChatHistory(question[r], history[s], a)
        BY <3>2, <3>3 DEF IInv, TypeOK
      <4>2. QED
        BY <4>1, ExtendedLen DEF IInv, TypeOK
    <3>8. ASSUME NEW t \in chats \ {s} PROVE Owed(t)' = Owed(t) /\ history'[t] = history[t]
      <4>1. \A o \in Req : OwedBy(o, t)' <=> OwedBy(o, t)
        BY <2>3, <3>1, <3>2 DEF Save, OwedBy, IInv, TypeOK
      <4>2. Owed(t)' = Owed(t)
        BY <4>1, OwedSame
      <4>3. QED
        BY <3>2, <4>2 DEF IInv, TypeOK
    <3>9. Cardinality(Answered(queries[s])) \in Nat
      BY AnsweredFinite, FS_CardinalityType DEF IInv, TypeOK
    <3>10. ASSUME NEW t \in chats'
           PROVE  Len(history'[t]) = 2 * Cardinality(Answered(queries'[t])) + Owed(t)'
      <4>1. t \in chats /\ queries' = queries
        BY <2>3, <3>10 DEF Save
      <4>2. CASE t = s
        <5>1. Len(history[s]) = 2 * Cardinality(Answered(queries[s])) + 0
          BY <3>3, <3>5 DEF RowsInv
        <5>2. QED
          BY <4>1, <4>2, <5>1, <3>6, <3>7, <3>9
      <4>3. CASE t # s
        BY <4>1, <4>3, <3>8 DEF RowsInv
      <4>4. QED
        BY <4>2, <4>3
    <3>11. QED
      BY <3>10 DEF RowsInv
  <2>4. ASSUME NEW r \in Req, Record(r) PROVE RowsInv'
    <3>1. PICK s \in Sid : s = sid[r]
      BY <2>4 DEF Record, IInv, SessionsExclusive, TypeOK
    <3>2. \A o \in Req \ {r} : pc[o] # "idle" => sid[o] # s
      BY <2>4, <3>1 DEF Record, IInv, SessionsExclusive
    <3>3. Owed(s) = IF reply[r] # ErrorReply THEN 2 ELSE 0
      <4>1. \A o \in Req : OwedBy(o, s) <=> (o = r /\ reply[r] # ErrorReply)
        BY <2>4, <3>1, <3>2 DEF Record, OwedBy
      <4>2. QED
        BY <4>1 DEF Owed
    <3>4. Owed(s)' = 0
      <4>1. \A o \in Req : ~OwedBy(o, s)'
        BY <2>4, <3>1, <3>2 DEF Record, OwedBy, IInv, TypeOK
      <4>2. QED
        BY <4>1 DEF Owed
    <3>5. Cardinality(Answered(queries'[s])) =
            Cardinality(Answered(queries[s])) + (IF reply[r] # ErrorReply THEN 1 ELSE 0)
      <4>1. queries'[s] = Append(queries[s], [question |-> question[r], answer |-> reply[r]])
        BY <2>4, <3>1 DEF Record, IInv, TypeOK
      <4>2. [question |-> question[r], answer |-> reply[r]] \in Row
        BY DEF IInv, TypeOK, Row
      <4>3. queries[s] \in Seq(Row)
        BY DEF IInv, TypeOK
      <4>4. QED
        BY <4>1, <4>2, <4>3, AnsweredAppend
    <3>6. ASSUME NEW t \in chats \ {s} PROVE Owed(t)' = Owed(t) /\ queries'[t] = queries[t]
      <4>1. \A o \in Req : OwedBy(o, t)' <=> OwedBy(o, t)
        BY <2>4, <3>1 DEF Record, OwedBy, IInv, TypeOK
      <4>2. Owed(t)' = Owed(t)
        BY <4>1, OwedSame
      <4>3. QED
        BY <2>4, <3>1, <4>2 DEF Record, IInv, TypeOK
    <3>7. s \in chats
      BY <2>4, <3>1 DEF Record, IInv, SessionsExclusive
    <3>8. IsFiniteSet(Answered(queries[s]))
      BY AnsweredFinite DEF IInv, TypeOK
    <3>9. Cardinality(Answered(queries[s])) \in Nat
      BY <3>8, FS_CardinalityType
    <3>10. QED
      BY <2>4, <3>3, <3>4, <3>5, <3>6, <3>7, <3>9 DEF Record, RowsInv
  <2>5. ASSUME NEW r \in Req, SaveFails(r) PROVE RowsInv'
    <3>1. ASSUME NEW t PROVE Owed(t)' = Owed(t)
      BY <2>5, OwedSame DEF SaveFails, OwedBy, IInv, TypeOK
    <3>2. QED
      BY <2>5, <3>1 DEF SaveFails, RowsInv
  <2>6. ASSUME NEW r \in Req, RecordFails(r) PROVE FALSE
    BY <2>6 DEF RecordFails
  <2>7. CASE UNCHANGED vars
    BY <2>7 DEF vars, RowsInv, Owed, OwedBy
  <2>8. QED
    BY <2>1, <2>2, <2>3, <2>4, <2>5, <2>6, <2>7 DEF Next
<1>3. IInv /\ RowsInv => TurnsHaveRows
  <2> SUFFICES ASSUME IInv, RowsInv, NEW s \in chats, \A r \in Req : ~Busy(r, s)
               PROVE  Len(history[s]) =
                        2 * Cardinality({i \in 1..Len(queries[s]) : queries[s][i].answer # ErrorReply})
    BY DEF TurnsHaveRows
  <2>1. Owed(s) = 0
    BY DEF Owed, OwedBy, Busy
  <2>2. Cardinality(Answered(queries[s])) \in Nat
    BY AnsweredFinite, FS_CardinalityType DEF IInv, TypeOK
  <2>3. QED
    BY <2>1, <2>2 DEF RowsInv, Answered
<1>4. QED
  BY <1>1, <1>2, <1>3, Exclusive, PTL DEF Spec
-----------------------------------------------------------------------------
(***************************************************************************)
(* Rows never run ahead of turns, whichever database write raises.         *)
(***************************************************************************)

\* RowsBehindTurns while a message is in flight: the turns a handler has
\* saved and not yet matched by a row are counted on the rows' side.
RowsLeInv ==
  \A t \in chats : 2 * Cardinality(Answered(queries[t])) + Owed(t) <= Len(history[t])

\* With sequential clients, whether or not save() or create() raise, a
\* session's history holds at least two turns per answered HardwareQuery
\* row: save() commits before create() runs, so no failure leaves a row
\* whose turns are missing.
THEOREM RowsBehind == SequentialClients = TRUE => (Spec => []RowsBehindTurns)
<1> SUFFICES ASSUME SequentialClients = TRUE PROVE Spec => []RowsBehindTurns
  OBVIOUS
<1>1. Init => RowsLeInv
  BY DEF Init, RowsLeInv
<1>2. IInv /\ IInv' /\ RowsLeInv /\ [Next]_vars => RowsLeInv'
  <2> SUFFICES ASSUME IInv, IInv', RowsLeInv, [Next]_vars PROVE RowsLeInv'
    OBVIOUS
  <2>1. ASSUME NEW r \in Req, ReceiveExisting(r) PROVE RowsLeInv'
    <3>1. ASSUME NEW t PROVE Owed(t)' = Owed(t)
      BY <2>1, OwedSame DEF ReceiveExisting, OwedBy, IInv, TypeOK
    <3>2. QED
      BY <2>1, <3>1 DEF ReceiveExisting, RowsLeInv
  <2>2. ASSUME NEW r \in Req, ReceiveNew(r) PROVE RowsLeInv'
    <3>1. PICK s \in Sid \ chats : chats' = chats \cup {s}
      BY <2>2 DEF ReceiveNew
    <3>2. ASSUME NEW t PROVE Owed(t)' = Owed(t)
      BY <2>2, OwedSame DEF ReceiveNew, OwedBy, IInv, TypeOK
    <3>3. Owed(s) = 0
      <4>1. ASSUME NEW o \in Req PROVE ~OwedBy(o, s)
        BY DEF OwedBy, IInv, SessionsExclusive
      <4>2. QED
        BY <4>1 DEF Owed
    <3>4. history[s] = <<>> /\ queries[s] = <<>>
      BY DEF IInv, FreshRowsEmpty
    <3>5. Cardinality(Answered(queries[s])) = 0
      <4>1. Answered(queries[s]) = {}
        BY <3>4 DEF Answered
      <4>2. QED
        BY <4>1, FS_EmptySet
    <3>6. QED
      BY <2>2, <3>1, <3>2, <3>3, <3>4, <3>5 DEF ReceiveNew, RowsLeInv
  <2>3. ASSUME NEW r \in Req, Save(r) PROVE RowsLeInv'
    <3>1. PICK s \in Sid : s = sid[r]
      BY <2>3 DEF Save, IInv, SessionsExclusive, TypeOK
    <3>2. PICK a \in Reply :
            /\ history' = [history EXCEPT ![s] = HardwareChatHistory(question[r], snapshot[r], a)]
            /\ reply' = [reply EXCEPT ![r] = a]
      BY <2>3, <3>1 DEF Save
    <3>3. s \in chats /\ snapshot[r] = history[s]
      BY <2>3, <3>1 DEF Save, IInv, SessionsExclusive
    <3>4. \A o \in Req \ {r} : pc[o] # "idle" => sid[o] # s
      BY <2>3, <3>1 DEF Save, IInv, SessionsExclusive
    <3>5. Owed(s) = 0
      BY <2>3, <3>1, <3>4 DEF Save, Owed, OwedBy
    <3>6. Owed(s)' = IF a # ErrorReply THEN 2 ELSE 0
      <4>1. \A o \in Req : OwedBy(o, s)' <=> (o = r /\ a # ErrorReply)
        BY <2>3, <3>1, <3>2, <3>4 DEF Save, OwedBy, IInv, TypeOK
      <4>2. QED
        BY <4>1 DEF Owed
    <3>7. Len(history'[s]) = Len(history[s]) + (IF a # ErrorReply THEN 2 ELSE 0)
      <4>1. history'[s] = HardwareChatHistory(question[r], history[s], a)
        BY <3>2, <3>3 DEF IInv, TypeOK
      <4>2. QED
        BY <4>1, ExtendedLen DEF IInv, TypeOK
    <3>8. ASSUME NEW t \in chats \ {s} PROVE Owed(t)' = Owed(t) /\ history'[t] = history[t]
      <4>1. \A o \in Req : OwedBy(o, t)' <=> OwedBy(o, t)
        BY <2>3, <3>1, <3>2 DEF Save, OwedBy, IInv, TypeOK
      <4>2. Owed(t)' = Owed(t)
        BY <4>1, OwedSame
      <4>3. QED
        BY <3>2, <4>2 DEF IInv, TypeOK
    <3>9. Cardinality(Answered(queries[s])) \in Nat /\ Len(history[s]) \in Nat
      BY AnsweredFinite, FS_CardinalityType DEF IInv, TypeOK
    <3>10. ASSUME NEW t \in chats'
           PROVE  2 * Cardinality(Answered(queries'[t])) + Owed(t)' <= Len(history'[t])
      <4>1. t \in chats /\ queries' = queries
        BY <2>3, <3>10 DEF Save
      <4>2. CASE t = s
        <5>1. 2 * Cardinality(Answered(queries[s])) + 0 <= Len(history[s])
          BY <3>3, <3>5 DEF RowsLeInv
        <5>2. Cardinality(Answered(queries'[s])) = Cardinality(Answered(queries[s]))
          BY <4>1
        <5>3. CASE a # ErrorReply
          <6>1. Owed(s)' = 2 /\ Len(history'[s]) = Len(history[s]) + 2
            BY <5>3, <3>6, <3>7
          <6>2. QED
            BY <4>2, <5>1, <5>2, <6>1, <3>9
        <5>4. CASE a = ErrorReply
          <6>1. Owed(s)' = 0 /\ Len(history'[s]) = Len(history[s])
            BY <5>4, <3>6, <3>7
          <6>2. QED
            BY <4>2, <5>1, <5>2, <6>1, <3>9
        <5>5. QED
          BY <5>3, <5>4
      <4>3. CASE t # s
        BY <4>1, <4>3, <3>8 DEF RowsLeInv
      <4>4. QED
        BY <4>2, <4>3
    <3>11. QED
      BY <3>10 DEF RowsLeInv
  <2>4. ASSUME NEW r \in Req, Record(r) PROVE RowsLeInv'
    <3>1. PICK s \in Sid : s = sid[r]
      BY <2>4 DEF Record, IInv, SessionsExclusive, TypeOK
    <3>2. \A o \in Req \ {r} : pc[o] # "idle" => sid[o] # s
      BY <2>4, <3>1 DEF Record, IInv, SessionsExclusive
    <3>3. Owed(s) = IF reply[r] # ErrorReply THEN 2 ELSE 0
      <4>1. \A o \in Req : OwedBy(o, s) <=> (o = r /\ reply[r] # ErrorReply)
        BY <2>4, <3>1, <3>2 DEF Record, OwedBy
      <4>2. QED
        BY <4>1 DEF Owed
    <3>4. Owed(s)' = 0
      <4>1. \A o \in Req : ~OwedBy(o, s)'
        BY <2>4, <3>1, <3>2 DEF Record, OwedBy, IInv, TypeOK
      <4>2. QED
        BY <4>1 DEF Owed
    <3>5. Cardinality(Answered(queries'[s])) =
            Cardinality(Answered(queries[s])) + (IF reply[r] # ErrorReply THEN 1 ELSE 0)
      <4>1. queries'[s] = Append(queries[s], [question |-> question[r], answer |-> reply[r]])
        BY <2>4, <3>1 DEF Record, IInv, TypeOK
      <4>2. [question |-> question[r], answer |-> reply[r]] \in Row
        BY DEF IInv, TypeOK, Row
      <4>3. queries[s] \in Seq(Row)
        BY DEF IInv, TypeOK
      <4>4. QED
        BY <4>1, <4>2, <4>3, AnsweredAppend
    <3>6. ASSUME NEW t \in chats \ {s} PROVE Owed(t)' = Owed(t) /\ queries'[t] = queries[t]
      <4>1. \A o \in Req : OwedBy(o, t)' <=> OwedBy(o, t)
        BY <2>4, <3>1 DEF Record, OwedBy, IInv, TypeOK
      <4>2. Owed(t)' = Owed(t)
        BY <4>1, OwedSame
      <4>3. QED
        BY <2>4, <3>1, <4>2 DEF Record, IInv, TypeOK
    <3>7. s \in chats
      BY <2>4, <3>1 DEF Record, IInv, SessionsExclusive
    <3>8. Cardinality(Answered(queries[s])) \in Nat
      BY AnsweredFinite, FS_CardinalityType DEF IInv, TypeOK
    <3>9. QED
      BY <2>4, <3>3, <3>4, <3>5, <3>6, <3>7, <3>8 DEF Record, RowsLeInv
  <2>5. ASSUME NEW r \in Req, SaveFails(r) PROVE RowsLeInv'
    <3>1. ASSUME NEW t PROVE Owed(t)' = Owed(t)
      BY <2>5, OwedSame DEF SaveFails, OwedBy, IInv, TypeOK
    <3>2. QED
      BY <2>5, <3>1 DEF SaveFails, RowsLeInv
  <2>6. ASSUME NEW r \in Req, RecordFails(r) PROVE RowsLeInv'
    <3>1. PICK s \in Sid : s = sid[r]
      BY <2>6 DEF RecordFails, IInv, SessionsExclusive, TypeOK
    <3>2. Owed(s)' = 0
      <4>1. \A o \in Req \ {r} : pc[o] # "idle" => sid[o] # s
        BY <2>6, <3>1 DEF RecordFails, IInv, SessionsExclusive
      <4>2. \A o \in Req : ~OwedBy(o, s)'
        BY <2>6, <3>1, <4>1 DEF RecordFails, OwedBy, IInv, TypeOK
      <4>3. QED
        BY <4>2 DEF Owed
    <3>3. Owed(s) \in {0, 2}
      BY DEF Owed
    <3>4. ASSUME NEW t \in chats \ {s} PROVE Owed(t)' = Owed(t)
      <4>1. \A o \in Req : OwedBy(o, t)' <=> OwedBy(o, t)
        BY <2>6, <3>1 DEF RecordFails, OwedBy, IInv, TypeOK
      <4>2. QED
        BY <4>1, OwedSame
    <3>5. Cardinality(Answered(queries[s])) \in Nat
      BY AnsweredFinite, FS_CardinalityType DEF IInv, TypeOK
    <3>6. ASSUME NEW t \in chats'
          PROVE  2 * Cardinality(Answered(queries'[t])) + Owed(t)' <= Len(history'[t])
      <4>1. t \in chats /\ queries' = queries /\ history' = history
        BY <2>6, <3>6 DEF RecordFails
      <4>2. CASE t = s
        BY <4>1, <4>2, <3>2, <3>3, <3>5 DEF RowsLeInv
      <4>3. CASE t # s
        BY <4>1, <4>3, <3>4 DEF RowsLeInv
      <4>4. QED
        BY <4>2, <4>3
    <3>7. QED
      BY <3>6 DEF RowsLeInv
  <2>7. CASE UNCHANGED vars
    BY <2>7 DEF vars, RowsLeInv, Owed, OwedBy
  <2>8. QED
    BY <2>1, <2>2, <2>3, <2>4, <2>5, <2>6, <2>7 DEF Next
<1>3. IInv /\ RowsLeInv => RowsBehindTurns
  <2> SUFFICES ASSUME IInv, RowsLeInv, NEW s \in chats
               PROVE  2 * Cardinality({i \in 1..Len(queries[s]) : queries[s][i].answer # ErrorReply})
                        <= Len(history[s])
    BY DEF RowsBehindTurns
  <2>1. Owed(s) \in {0, 2}
    BY DEF Owed
  <2>2. Cardinality(Answered(queries[s])) \in Nat
    BY AnsweredFinite, FS_CardinalityType DEF IInv, TypeOK
  <2>3. QED
    BY <2>1, <2>2 DEF RowsLeInv, Answered
<1>4. QED
  BY <1>1, <1>2, <1>3, Exclusive, PTL DEF Spec
=============================================================================
