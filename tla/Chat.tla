-------------------------------- MODULE Chat --------------------------------
(***************************************************************************)
(* The chat service over KCP sessions: kcp_server.cc with chat_server.cc,  *)
(* what chat_client.cc sends, and the keep-alive and timeout of            *)
(* kcp_session.cc.  What a client does with the answers is in ChatClient.  *)
(*                                                                         *)
(* The receive thread and the update thread of the server hold the         *)
(* server's mutex while they handle a datagram or walk over the sessions,  *)
(* so each is one action.  KCP is seen from its interface: messages are    *)
(* numbered from 1 by the control block that sends them, a datagram may be *)
(* lost, repeated or arrive late, and a control block hands messages over  *)
(* in the order of their numbers.  A session made again for a conversation *)
(* starts at 0 on the server's side while its client goes on.              *)
(***************************************************************************)
EXTENDS Integers, FiniteSets, SequencesExt

CONSTANTS Client,          \* the clients, each with its conversation and address
          None,            \* no session
          Timeout,         \* keep_alive_timeout of the server, in ticks
          KeepAlive,       \* keep_alive_timeout of a client, in ticks
          SendLimit,       \* bound: messages a client sends, keep-alives included
          MaxSessions      \* bound: sessions made for one conversation

VARIABLES up,              \* messages passed to ikcp_send by a client's session
          idle,            \* ticks since send_latest_time
          session,         \* sessions_ of the server
          joins,           \* sessions made so far
          users,           \* users_ of the chat server
          out,             \* messages passed to ikcp_send by a server's session
          swallowed        \* a user's message was taken for a keep-alive

clientVars == <<up, idle>>
serverVars == <<session, joins, users, out, swallowed>>
vars == <<clientVars, serverVars>>

\* What a client sends: the keep-alive command, a text that begins it, any other
\* text, or an empty line.
Typed == {"prefix", "text", "empty"}
Message == Typed \cup {"alive"}

\* recv_latest_time is unset until the first update of a session.
Unset == -1
Session == [nxt : Nat, buf : SUBSET Nat, age : {Unset} \cup 0..(Timeout + 1)]

ASSUME ChatAssumption ==
  /\ IsFiniteSet(Client) /\ None \notin Session
  /\ Timeout \in Nat /\ KeepAlive \in Nat
  /\ MaxSessions \in Nat /\ SendLimit \in [Client -> Nat]

\* What the server sends to its users.
Notice == [kind : {"join", "left", "said"}, who : Client, text : Message]
Join(c) == [kind |-> "join", who |-> c, text |-> "empty"]
Left(c) == [kind |-> "left", who |-> c, text |-> "empty"]
Said(c, m) == [kind |-> "said", who |-> c, text |-> m]

Init ==
  /\ up = [c \in Client |-> <<>>]
  /\ idle = [c \in Client |-> KeepAlive + 1]       \* send_latest_time = 0
  /\ session = [c \in Client |-> None]
  /\ joins = [c \in Client |-> 0]
  /\ users = {}
  /\ out = [c \in Client |-> <<>>]
  /\ swallowed = FALSE

-----------------------------------------------------------------------------
(* The clients *)

\* ChatClient::Start: the main thread sends what was typed.
Type(c) ==
  /\ Len(up[c]) < SendLimit[c]
  /\ \E m \in Typed : up' = [up EXCEPT ![c] = Append(@, m)]
  /\ UNCHANGED <<idle, serverVars>>

\* KcpSession::Update of a client
SendKeepAlive(c) ==
  /\ idle[c] > KeepAlive
  /\ Len(up[c]) < SendLimit[c]
  /\ up' = [up EXCEPT ![c] = Append(@, "alive")]
  /\ idle' = [idle EXCEPT ![c] = 0]
  /\ UNCHANGED serverVars

-----------------------------------------------------------------------------
(* The server *)

\* The received numbers from nxt + 1 on without a gap.
InOrder(nxt, received) == {k \in received : (nxt + 1)..k \subseteq received}

\* Notify: the streams after notices ns were sent to the clients in to.
Notify(s, to, ns) == [u \in Client |-> IF u \in to THEN s[u] \o ns ELSE s[u]]

\* Mutant of JoinStreams: the users are notified before the new one is among them.
JoinStreamsOthers(c) ==
  IF session[c] = None THEN Notify(out, users, <<Join(c)>>) ELSE out

\* GetSession, NewSession and HandleConnection: a conversation without a session
\* gets a new one, whose user joins the room first and is told so as well.
JoinStreams(c) ==
  IF session[c] = None THEN Notify(out, users \cup {c}, <<Join(c)>>) ELSE out

GetSession(c) ==
  IF session[c] = None THEN [nxt |-> 0, buf |-> {}, age |-> Unset] ELSE session[c]

\* Mutant of ReadUpTo: the loop ends at a keep-alive as well.
ReadUpToAlive(ready, n) ==
  /\ n = Len(ready) \/ ready[n] \in {"empty", "alive"}
  /\ \A i \in 1..(n - 1) : ready[i] \notin {"empty", "alive"}

\* HandleSession's loop reads from the ready messages up to the first empty one,
\* for which Recv returns 0.
ReadUpTo(ready, n) ==
  /\ n = Len(ready) \/ ready[n] = "empty"
  /\ \A i \in 1..(n - 1) : ready[i] # "empty"

\* memcmp looks at 19 bytes of the shared buffer whatever the message's length, so
\* a text that begins the command is taken for it while the buffer still holds it.
TakenAsAlive(batch, i) ==
  \E j \in 1..i : batch[j] = "alive" /\ \A k \in (j + 1)..i : batch[k] = "prefix"

\* The messages of the batch that go to HandleMessage, as they come.
Texts(batch) == {i \in 1..Len(batch) : batch[i] # "empty" /\ ~TakenAsAlive(batch, i)}
Handled(c, batch) ==
  LET texts == CHOOSE f \in SetToSeqs(Texts(batch)) : \A i, j \in DOMAIN f : i < j => f[i] < f[j]
  IN  [i \in 1..Len(texts) |-> Said(c, batch[texts[i]])]

\* Mutant of Refreshed: any datagram counts as a sign of life.
RefreshedByAny(age, batch) == 0

\* Mutant of Refreshed: stores the time at which the session ends.
RefreshedDeadline(age, batch) ==
  IF \E i \in 1..Len(batch) : TakenAsAlive(batch, i) THEN -(Timeout + 1) ELSE age

\* SetKeepAlive, if the batch holds a keep-alive
Refreshed(age, batch) ==
  IF \E i \in 1..Len(batch) : TakenAsAlive(batch, i) THEN 0 ELSE age

\* One round of KcpServer::Run, for a datagram of client c with message k, or
\* with acknowledgements only when k = 0.  One with several messages has the effect
\* of their coming one by one, the first last.
Receive(c) ==
  \E k \in 0..Len(up[c]) :
     LET s     == GetSession(c)
         buf   == IF k > s.nxt THEN s.buf \cup {k} ELSE s.buf
         ready == [i \in 1..Cardinality(InOrder(s.nxt, buf)) |-> up[c][s.nxt + i]]
     IN /\ up[c] # <<>>
        /\ session[c] = None => joins[c] < MaxSessions
        /\ joins' = [joins EXCEPT ![c] = IF session[c] = None THEN @ + 1 ELSE @]
        /\ users' = users \cup {c}
        /\ \E n \in 0..Len(ready) :
             LET batch == SubSeq(ready, 1, n) IN
             /\ ready # <<>> => n > 0 /\ ReadUpTo(ready, n)
             /\ session' = [session EXCEPT ![c] =
                              [nxt |-> s.nxt + n,
                               buf |-> {i \in buf : i > s.nxt + n},
                               age |-> Refreshed(s.age, batch)]]
             /\ out' = Notify(JoinStreams(c), users', Handled(c, batch))
             /\ swallowed' = (swallowed \/ \E i \in 1..n :
                                             batch[i] = "prefix" /\ TakenAsAlive(batch, i))
        /\ UNCHANGED clientVars

\* KcpSession::Update of the server returns true.
Expired == {c \in Client : session[c] # None /\ session[c].age > Timeout}

\* Mutant of Remaining: a closed session stays among the users.
RemainingAll == users

\* HandleClose
Remaining == users \ Expired

\* KcpServer::Update, one walk over the sessions in any order.
Update ==
  \E order \in SetToSeqs(Expired) :
     /\ session' = [c \in Client |->
                      IF session[c] = None \/ c \in Expired THEN None
                      ELSE IF session[c].age = Unset THEN [session[c] EXCEPT !.age = 0]
                      ELSE session[c]]
     /\ users' = Remaining
     /\ out' = Notify([c \in Client |-> IF c \in Expired THEN <<>> ELSE out[c]],
                      Remaining, [i \in 1..Len(order) |-> Left(order[i])])
     /\ UNCHANGED <<joins, swallowed, clientVars>>

-----------------------------------------------------------------------------
\* Time passes; nobody tells ages above the limits apart.
Tick ==
  /\ session' = [c \in Client |->
                   IF session[c] = None \/ session[c].age \in {Unset, Timeout + 1}
                     THEN session[c] ELSE [session[c] EXCEPT !.age = @ + 1]]
  /\ idle' = [c \in Client |-> IF idle[c] > KeepAlive THEN idle[c] ELSE idle[c] + 1]
  /\ UNCHANGED <<up, joins, users, out, swallowed>>

Next ==
  \/ \E c \in Client : Type(c) \/ SendKeepAlive(c) \/ Receive(c)
  \/ Update \/ Tick

Spec == Init /\ [][Next]_vars

\* The update thread never stops, and neither does time.
FairSpec == Spec /\ WF_vars(Update) /\ WF_vars(Tick)

-----------------------------------------------------------------------------
(* Properties *)

\* Sessions, streams and counters keep their types; the age that Update compares
\* with the timeout is unset or never in the future.
TypeOK ==
  /\ up \in [Client -> Seq(Message)] /\ out \in [Client -> Seq(Notice)]
  /\ idle \in [Client -> 0..(KeepAlive + 1)]
  /\ session \in [Client -> Session \cup {None}]
  /\ joins \in [Client -> 0..MaxSessions]
  /\ users \subseteq Client /\ swallowed \in BOOLEAN

(***************************************************************************)
(* The room is one conversation: of any two users, the one who came later  *)
(* is sent exactly what the other was sent since, in the same order, though *)
(* messages, joins and timeouts come from two threads.  The users are those *)
(* that have a session.                                                    *)
(***************************************************************************)
SameRoom ==
  /\ users = {c \in Client : session[c] # None}
  /\ \A u, v \in users : IsSuffix(out[u], out[v]) \/ IsSuffix(out[v], out[u])

(***************************************************************************)
(* Every user knows who is in the room: it is told of its own join first,  *)
(* and the last it was told of anybody is that he left exactly when he is  *)
(* not in the room, also when several sessions time out in one update.     *)
(***************************************************************************)
LastAbout(s, c) == {i \in 1..Len(s) : s[i].who = c /\ \A j \in (i + 1)..Len(s) : s[j].who # c}
RoomView ==
  \A u \in users :
     /\ out[u] # <<>> /\ out[u][1] = Join(u)
     /\ \A c \in Client : \A i \in LastAbout(out[u], c) :
          out[u][i].kind = "left" <=> c \notin users

(***************************************************************************)
(* HandleSession leaves no message ready in KCP, whatever order the        *)
(* datagrams came in, except behind an empty line, at which its loop ends. *)
(***************************************************************************)
ReadsAll ==
  \A c \in Client : session[c] # None =>
     LET s == session[c] IN
     s.nxt + 1 \in s.buf => s.nxt > 0 /\ up[c][s.nxt] = "empty"

(***************************************************************************)
(* A session ends some time after its client has stopped sending, although *)
(* repeated and late datagrams of the client go on arriving.               *)
(***************************************************************************)
SessionExpires == \A c \in Client : session[c] # None ~> session[c] = None

(***************************************************************************)
(* Only the keep-alive command is taken for one by HandleSession.          *)
(***************************************************************************)
OnlyCommandsSwallowed == ~swallowed
=============================================================================
