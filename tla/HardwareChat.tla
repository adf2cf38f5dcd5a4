---------------------------- MODULE HardwareChat ----------------------------
(***************************************************************************)
(* The hardwareChatMessage mutation (HardwareChatMessage.perform_mutation  *)
(* in saleor/graphql/hardware/schema.py) together with the part of         *)
(* GeminiClient.hardware_chat it relies on and the HardwareChat and        *)
(* HardwareQuery rows it writes.                                           *)
(*                                                                         *)
(* Several request handlers run the mutation at once.  Each one goes       *)
(* through three steps that touch the database:                            *)
(*   Receive  resolve the session id: load the HardwareChat row and its   *)
(*            history, or create a fresh row with an empty history;       *)
(*   Save     call the remote model and save the resulting history onto   *)
(*            the row read in Receive (chat_session.save());              *)
(*   Record   create the HardwareQuery row and return.                    *)
(* The remote call has no effect on the database, so it is folded into    *)
(* Save.  Texts are model values: the data the properties tell apart.     *)
(***************************************************************************)
EXTENDS Naturals, Sequences, FiniteSets

CONSTANTS
  Sid,               \* values uuid.uuid4() gives a new session
  Query,             \* question texts a client sends
  Answer,            \* texts the remote model answers with
  ErrorReply,        \* "Error processing query: ..." of hardware_chat
  NoSid,             \* a handler that holds no session
  Req,               \* request handlers running the mutation concurrently
  MaxRequests,       \* bound on the number of chat messages handled
  SequentialClients, \* TRUE: a session gets its next message only once the
                     \* previous one on it has returned
  DbFailures         \* TRUE: a database write of the mutation may raise

ASSUME ConstantsAssumption ==
  /\ Query # {}
  /\ ErrorReply \notin Answer
  /\ NoSid \notin Sid
  /\ MaxRequests \in Nat
  /\ SequentialClients \in BOOLEAN
  /\ DbFailures \in BOOLEAN

VARIABLES
  chats,     \* session ids of the HardwareChat rows
  history,   \* history[s]: the HardwareChat.history column of session s
  queries,   \* queries[s]: HardwareQuery rows of s in created_at order
  pc,        \* pc[r]: where handler r is in perform_mutation
  sid,       \* sid[r]: session id of handler r's chat_session
  snapshot,  \* snapshot[r]: chat_session.history as handler r read it
  question,  \* question[r]: the query handler r is answering
  reply,     \* reply[r]: result["response"] of handler r
  handled    \* number of messages received so far

vars == <<chats, history, queries, pc, sid, snapshot, question, reply, handled>>

Reply == Answer \cup {ErrorReply}
Turn  == [role : {"user", "model"}, part : Query \cup Answer]
Row   == [question : Query, answer : Reply]

Abs == INSTANCE ChatAbstract

\* Mutant: the except branch appends the error text as the model's turn.
HistoryWithErrorTurn(q, h, a) == h \o <<Abs!UserTurn(q), Abs!ModelTurn(a)>>

\* Mutant: the two turns appended in the wrong order.
HistorySwappedTurns(q, h, a) ==
  IF a = ErrorReply THEN h ELSE h \o <<Abs!ModelTurn(a), Abs!UserTurn(q)>>

\* Mutant: the except branch returns an empty history ("history": []).
HistoryResetOnError(q, h, a) == IF a = ErrorReply THEN <<>> ELSE Abs!Extended(h, q, a)

\* hardware_chat(query, history)["history"]: on success the history plus the
\* user turn and the model turn (the empty-history branch gives the same
\* list); on an exception the history passed in, unchanged.
HardwareChatHistory(q, h, a) == Abs!Extended(h, q, a)

\* Handler r is inside perform_mutation for session s.
Busy(r, s) == pc[r] # "idle" /\ sid[r] = s

Init ==
  /\ chats = {}
  /\ history = [s \in Sid |-> <<>>]
  /\ queries = [s \in Sid |-> <<>>]
  /\ pc = [r \in Req |-> "idle"]
  /\ sid = [r \in Req |-> NoSid]
  /\ snapshot = [r \in Req |-> <<>>]
  /\ question = [r \in Req |-> CHOOSE q \in Query : TRUE]
  /\ reply = [r \in Req |-> ErrorReply]
  /\ handled = 0

\* Mutant: the new row may take a session id already in use (a
\* get_or_create on a supplied or colliding id).
ReceiveNewReuse(r) ==
  /\ pc[r] = "idle"
  /\ handled < MaxRequests
  /\ \E s \in Sid, q \in Query :
       /\ chats' = chats \cup {s}
       /\ sid' = [sid EXCEPT ![r] = s]
       /\ question' = [question EXCEPT ![r] = q]
  /\ snapshot' = [snapshot EXCEPT ![r] = <<>>]
  /\ pc' = [pc EXCEPT ![r] = "save"]
  /\ handled' = handled + 1
  /\ UNCHANGED <<history, queries, reply>>

\* A session id that resolves: HardwareChat.objects.get(session_id=...)
\* succeeds and the handler keeps the row's history.
ReceiveExisting(r) ==
  /\ pc[r] = "idle"
  /\ handled < MaxRequests
  /\ \E s \in chats, q \in Query :
       /\ SequentialClients => \A o \in Req : ~Busy(o, s)
       /\ sid' = [sid EXCEPT ![r] = s]
       /\ snapshot' = [snapshot EXCEPT ![r] = history[s]]
       /\ question' = [question EXCEPT ![r] = q]
  /\ pc' = [pc EXCEPT ![r] = "save"]
  /\ handled' = handled + 1
  /\ UNCHANGED <<chats, history, queries, reply>>

\* No session id, or one that does not resolve: a HardwareChat row is
\* created under a fresh uuid4 with an empty history.
ReceiveNew(r) ==
  /\ pc[r] = "idle"
  /\ handled < MaxRequests
  /\ \E s \in Sid \ chats, q \in Query :
       /\ chats' = chats \cup {s}
       /\ sid' = [sid EXCEPT ![r] = s]
       /\ question' = [question EXCEPT ![r] = q]
  /\ snapshot' = [snapshot EXCEPT ![r] = <<>>]
  /\ pc' = [pc EXCEPT ![r] = "save"]
  /\ handled' = handled + 1
  /\ UNCHANGED <<history, queries, reply>>

\* result = client.hardware_chat(query, history); chat_session.history =
\* result["history"]; chat_session.save().  The row is written from the
\* history this handler read, whatever the column holds by now.
Save(r) ==
  /\ pc[r] = "save"
  /\ \E a \in Reply :
       /\ history' = [history EXCEPT ![sid[r]] =
                        HardwareChatHistory(question[r], snapshot[r], a)]
       /\ reply' = [reply EXCEPT ![r] = a]
  /\ pc' = [pc EXCEPT ![r] = "record"]
  /\ UNCHANGED <<chats, queries, sid, snapshot, question, handled>>

\* Mutant: an error of chat_session.save() is caught and logged, and the
\* handler goes on to create the HardwareQuery row with the answer it got.
SaveErrorIgnored(r) ==
  /\ DbFailures
  /\ pc[r] = "save"
  /\ \E a \in Reply : reply' = [reply EXCEPT ![r] = a]
  /\ pc' = [pc EXCEPT ![r] = "record"]
  /\ UNCHANGED <<chats, history, queries, sid, snapshot, question, handled>>

\* chat_session.save() raises (a database error, or the worker is killed
\* while the remote call blocks): the exception leaves perform_mutation and
\* nothing of this message is written.
SaveFails(r) ==
  /\ DbFailures
  /\ pc[r] = "save"
  /\ pc' = [pc EXCEPT ![r] = "idle"]
  /\ sid' = [sid EXCEPT ![r] = NoSid]
  /\ UNCHANGED <<chats, history, queries, snapshot, question, reply, handled>>

\* HardwareQuery.objects.create(chat=..., question=query,
\* answer=result["response"]), then the mutation returns.
Record(r) ==
  /\ pc[r] = "record"
  /\ queries' = [queries EXCEPT ![sid[r]] =
                   Append(@, [question |-> question[r], answer |-> reply[r]])]
  /\ pc' = [pc EXCEPT ![r] = "idle"]
  /\ sid' = [sid EXCEPT ![r] = NoSid]
  /\ UNCHANGED <<chats, history, snapshot, question, reply, handled>>

\* HardwareQuery.objects.create raises after chat_session.save() has
\* committed: the turns stay in the history and no row is created.
RecordFails(r) ==
  /\ DbFailures
  /\ pc[r] = "record"
  /\ pc' = [pc EXCEPT ![r] = "idle"]
  /\ sid' = [sid EXCEPT ![r] = NoSid]
  /\ UNCHANGED <<chats, history, queries, snapshot, question, reply, handled>>

Next ==
  \E r \in Req :
    \/ ReceiveExisting(r)
    \/ ReceiveNew(r)
    \/ Save(r)
    \/ Record(r)
    \/ SaveFails(r)
    \/ RecordFails(r)

Spec == Init /\ [][Next]_vars

-----------------------------------------------------------------------------
(***************************************************************************)
(* Properties.                                                             *)
(***************************************************************************)

\* Every variable holds a value of its type.
TypeOK ==
  /\ chats \subseteq Sid
  /\ history \in [Sid -> Seq(Turn)]
  /\ queries \in [Sid -> Seq(Row)]
  /\ pc \in [Req -> {"idle", "save", "record"}]
  /\ sid \in [Req -> Sid \cup {NoSid}]
  /\ snapshot \in [Req -> Seq(Turn)]
  /\ question \in [Req -> Query]
  /\ reply \in [Req -> Reply]
  /\ handled \in 0..MaxRequests

\* A session's history is only ever extended: no chat_session.save() of a
\* chat message replaces turns an earlier message stored (the HardwareChat
\* history is "appended to, never rewritten").
HistoryGrows ==
  \A s \in Sid : /\ Len(history[s]) <= Len(history'[s])
                /\ SubSeq(history'[s], 1, Len(history[s])) = history[s]
HistoryOnlyAppends == [][HistoryGrows]_history

\* Sessions are not shared between handlers: a handler inside the mutation
\* works on a HardwareChat row that exists, no two handlers work on the
\* same row, and a handler about to save holds the history the row has now
\* (the history it read in Receive is not stale).  Holds when clients are
\* sequential; it is what keeps chat_session.save() from losing turns.
SessionsExclusive ==
  /\ \A r \in Req : pc[r] # "idle" => sid[r] \in chats
  /\ \A r, o \in Req : r # o /\ pc[r] # "idle" /\ pc[o] # "idle" => sid[r] # sid[o]
  /\ \A r \in Req : pc[r] = "save" => snapshot[r] = history[sid[r]]

\* The abstract session as clients see it: the HardwareQuery row of a
\* handler that has saved the history but not yet created the row counts
\* as created already.
Pending(s) == {r \in Req : pc[r] = "record" /\ sid[r] = s}
PendingRow(r) == [question |-> question[r], answer |-> reply[r]]
queriesBar ==
  [s \in Sid |-> IF Pending(s) = {} THEN queries[s]
                 ELSE Append(queries[s], PendingRow(CHOOSE r \in Pending(s) : TRUE))]

Chat == INSTANCE ChatAbstract WITH queries <- queriesBar

\* Every run of the mutation handlers is a run of the atomic chat session:
\* each message adds its HardwareQuery row and, when answered, exactly its
\* two turns to the history of its session, none lost and none reordered.
ChatRefinement == Chat!Spec

\* Testable property 3 of the specification: once no message is in flight
\* on a session, its history has two turns per HardwareQuery row.
HistoryTwiceQueries ==
  \A s \in chats :
    (\A r \in Req : ~Busy(r, s)) => Len(history[s]) = 2 * Len(queries[s])

\* Answered turns and HardwareQuery rows agree: once no message is in
\* flight on a session, its history holds two turns for each row whose
\* answer is not the error reply (save() and the row's create() both
\* happened, or neither did).
TurnsHaveRows ==
  \A s \in chats :
    (\A r \in Req : ~Busy(r, s)) =>
      Len(history[s]) =
        2 * Cardinality({i \in 1..Len(queries[s]) : queries[s][i].answer # ErrorReply})

\* A failure between the two writes never leaves a HardwareQuery row without
\* its turns: chat_session.save() commits before HardwareQuery.objects.create()
\* runs, so whichever of the two raises, and at any point of a message, a
\* session's history holds at least two turns per row answered with a real
\* answer.  (The converse, turns without a row, is what RecordFails leaves.)
RowsBehindTurns ==
  \A s \in chats :
    2 * Cardinality({i \in 1..Len(queries[s]) : queries[s][i].answer # ErrorReply})
      <= Len(history[s])
=============================================================================
