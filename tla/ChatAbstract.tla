---------------------------- MODULE ChatAbstract ----------------------------
(***************************************************************************)
(* What a hardware chat session promises its clients: a session is opened *)
(* with an empty history, and every chat message is one atomic step that  *)
(* records a HardwareQuery row for the question and, when the remote model *)
(* answered, appends exactly the user turn and the model turn of that     *)
(* question to the session's history.  A failed remote call records its   *)
(* error text as the row's answer and leaves the history as it was.       *)
(***************************************************************************)
EXTENDS Naturals, Sequences

CONSTANTS Sid, Query, Answer, ErrorReply

VARIABLES chats, history, queries

vars == <<chats, history, queries>>

UserTurn(q)  == [role |-> "user", part |-> q]
ModelTurn(a) == [role |-> "model", part |-> a]

\* The history a message leaves behind: h, extended by the two turns when
\* the remote model answered.
Extended(h, q, a) ==
  IF a = ErrorReply THEN h ELSE h \o <<UserTurn(q), ModelTurn(a)>>

Init ==
  /\ chats = {}
  /\ history = [s \in Sid |-> <<>>]
  /\ queries = [s \in Sid |-> <<>>]

OpenSession(s) ==
  /\ s \notin chats
  /\ chats' = chats \cup {s}
  /\ UNCHANGED <<history, queries>>

Message(s, q, a) ==
  /\ s \in chats
  /\ history' = [history EXCEPT ![s] = Extended(@, q, a)]
  /\ queries' = [queries EXCEPT ![s] = Append(@, [question |-> q, answer |-> a])]
  /\ UNCHANGED chats

Next ==
  \/ \E s \in Sid : OpenSession(s)
  \/ \E s \in Sid, q \in Query, a \in Answer \cup {ErrorReply} : Message(s, q, a)

Spec == Init /\ [][Next]_vars
=============================================================================
