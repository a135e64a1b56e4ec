---------------------------- MODULE NetworkProofs ----------------------------
(***************************************************************************)
(* The DNS client, the web server, the TCP servers and the round-trip      *)
(* client, for any number of queries, descriptors, lengths and bounds.     *)
(* NetworkSpec runs one of them at a time, so each part of the invariant   *)
(* is kept by the steps of its own program and untouched by the others.    *)
(***************************************************************************)
EXTENDS MCNetwork, SequenceTheorems, FiniteSetTheorems, WellFoundedInduction, TLAPS

-----------------------------------------------------------------------------
(* The DNS client: since nothing in an answer is compared with the query,   *)
(* the argument is about ports.  Whatever is under way to a port or waits   *)
(* in its buffer is about a query that has or had the port; as long as the  *)
(* network has repeated nothing, about the one that has it now.             *)

DnsTypes ==
  /\ TypeOK
  /\ asked \subseteq Query
  /\ answers \subseteq [to : Port, about : Query]
  /\ called \in [Query -> SUBSET (Query \cup {Failure})]
  /\ repeats \in Nat

\* A port has one owner.
PortsApart == \A q, r \in Query : q # r /\ port[q] # NoPort => port[q] # port[r]

\* A query has a port from its commit to its callback.
OpenInv ==
  /\ \A q \in Query : q > committed => called[q] = {}
  /\ \A q \in Query : port[q] # NoPort <=> q <= committed /\ called[q] = {}
  /\ \A q \in registered : port[q] # NoPort

\* Of the queries that had a port, its owner is the last.
SourceInv ==
  /\ \A q \in Query : port[q] # NoPort => source[q] = port[q]
  /\ \A q \in Query : source[q] # NoPort <=> q <= committed
  /\ \A q, r \in Query : port[q] # NoPort /\ source[r] = port[q] => r <= q

\* Datagrams are about a query that was sent, and addressed to the port that it named.
BoundInv ==
  /\ \A q \in asked : q <= committed
  /\ \A a \in answers : source[a.about] = a.to
  /\ \A p \in Port : \A a \in inbox[p] : a # Failure => source[a] = p
  /\ \A p \in Port : inbox[p] # {} => \E q \in Query : port[q] = p

\* What a callback of q may have been called with.
Callable(q, a) ==
  \/ a \in {q, Failure}
  \/ repeats > 0 /\ a \in Query /\ a < q /\ source[a] = source[q]

CallInv ==
  \A q \in Query : called[q] = {} \/ \E a \in Query \cup {Failure} : called[q] = {a} /\ Callable(q, a)

\* With nothing repeated, what is under way, and what has arrived, is for the owner of
\* its port, and a query is in one place only.
WayInv ==
  /\ \A q \in asked : port[q] # NoPort
  /\ \A a \in answers : port[a.about] = a.to /\ a.about \notin asked

InboxInv ==
  /\ \A p \in Port : \A a \in inbox[p] : a # Failure => port[a] = p
  /\ \A q \in Query : port[q] # NoPort /\ inbox[port[q]] # {} =>
        q \notin asked /\ \A a \in answers : a.about # q

StrictInv == repeats = 0 => WayInv /\ InboxInv

DnsInv ==
  DnsTypes /\ PortsApart /\ OpenInv /\ SourceInv /\ BoundInv /\ CallInv /\ StrictInv

LEMMA DnsInitInv == ASSUME DnsAssumption, Init PROVE DnsInv
BY DEF DnsAssumption, Init, DnsInv, DnsTypes, TypeOK, PortsApart, OpenInv, SourceInv, BoundInv,
       CallInv, StrictInv, WayInv, InboxInv, Failure

\* Callbacks keep what they were called with when no source changes.
LEMMA CallKept ==
  ASSUME DnsInv, called' = called, source' = source, repeats' \in Nat, repeats' >= repeats
  PROVE  CallInv'
BY DEF DnsInv, DnsTypes, CallInv, Callable

-----------------------------------------------------------------------------
(* The steps of main *)

LEMMA CommitInv == ASSUME DnsAssumption, DnsInv, Commit PROVE DnsInv'
<1> DEFINE n == committed + 1
<1>0. DnsTypes /\ PortsApart /\ OpenInv /\ SourceInv /\ BoundInv /\ CallInv /\ StrictInv BY DEF DnsInv
<1>1. /\ n \in Query /\ committed' = n /\ asked' = asked \cup {n}
      /\ UNCHANGED <<registered, answers, inbox, events, called, repeats>>
  BY DEF Commit, Ready
<1>2. PICK p \in FreePorts : port' = [port EXCEPT ![n] = p] /\ source' = [source EXCEPT ![n] = p]
  BY DEF Commit
<1>3. p \in Port /\ p # NoPort /\ \A r \in Query : port[r] # p
  BY <1>2 DEF FreePorts, DnsAssumption
<1>4. committed \in Nat /\ n \in Nat /\ \A r \in Query : r \in Nat
  BY <1>0 DEF DnsAssumption, DnsTypes, TypeOK, Failure
<1>5. port[n] = NoPort /\ called[n] = {} /\ source[n] = NoPort
  <2>1. n > committed /\ ~(n <= committed) BY <1>4
  <2> QED BY <2>1, <1>0, <1>1 DEF OpenInv, SourceInv
<1>6. /\ port' \in [Query -> Port \cup {NoPort}] /\ port'[n] = p
      /\ \A r \in Query : r # n => port'[r] = port[r]
  BY <1>0, <1>1, <1>2, <1>3 DEF DnsTypes, TypeOK
<1>7. /\ source' \in [Query -> Port \cup {NoPort}] /\ source'[n] = p
      /\ \A r \in Query : r # n => source'[r] = source[r]
  BY <1>0, <1>1, <1>2, <1>3 DEF DnsTypes, TypeOK
<1>8. \A r \in Query : r # n => (r <= n <=> r <= committed) BY <1>4
<1>9. n <= n /\ \A r \in Query : r > n => r > committed BY <1>4
<1> HIDE DEF n
<1>10. DnsTypes' BY <1>0, <1>1, <1>6, <1>7 DEF DnsTypes, TypeOK
<1>11. PortsApart' BY <1>0, <1>1, <1>3, <1>6 DEF PortsApart
<1>12. OpenInv'
  <2>1. \A r \in Query : r > n => called[r] = {} BY <1>0, <1>9 DEF OpenInv
  <2>2. ASSUME NEW r \in Query PROVE port'[r] # NoPort <=> r <= n /\ called[r] = {}
    <3>1. CASE r = n BY <3>1, <1>1, <1>3, <1>5, <1>6, <1>9
    <3>2. CASE r # n BY <3>2, <1>0, <1>6, <1>8 DEF OpenInv
    <3> QED BY <3>1, <3>2
  <2>3. \A r \in registered : port'[r] # NoPort BY <1>0, <1>3, <1>6 DEF OpenInv, DnsTypes, TypeOK
  <2> QED BY <2>1, <2>2, <2>3, <1>1 DEF OpenInv
<1>13. SourceInv'
  <2>1. \A r \in Query : port'[r] # NoPort => source'[r] = port'[r] BY <1>0, <1>6, <1>7 DEF SourceInv
  <2>2. \A r \in Query : source'[r] # NoPort <=> r <= n
    BY <1>0, <1>3, <1>7, <1>8, <1>9 DEF SourceInv
  <2>3. ASSUME NEW q \in Query, NEW r \in Query, port'[q] # NoPort, source'[r] = port'[q]
        PROVE  r <= q
    <3>1. CASE q = n BY <3>1, <2>2, <2>3
    <3>2. CASE q # n BY <3>2, <2>3, <1>0, <1>3, <1>6, <1>7 DEF SourceInv
    <3> QED BY <3>1, <3>2
  <2> QED BY <2>1, <2>2, <2>3, <1>1 DEF SourceInv
<1>14. BoundInv'
  <2>1. \A q \in asked' : q <= n
    BY <1>0, <1>1, <1>8, <1>9 DEF BoundInv, DnsTypes
  <2>2. \A a \in answers : source'[a.about] = a.to
    <3> TAKE a \in answers
    <3>1. a.about \in Query /\ a.to \in Port /\ source[a.about] = a.to
      BY <1>0 DEF BoundInv, DnsTypes
    <3> QED BY <3>1, <1>5, <1>7 DEF DnsAssumption
  <2>3. \A r \in Port : \A a \in inbox[r] : a # Failure => source'[a] = r
    BY <1>0, <1>5, <1>7 DEF BoundInv, DnsTypes, TypeOK, DnsAssumption
  <2>4. \A r \in Port : inbox[r] # {} => \E s \in Query : port'[s] = r
    BY <1>0, <1>5, <1>6 DEF BoundInv, DnsAssumption
  <2> QED BY <2>1, <2>2, <2>3, <2>4, <1>1 DEF BoundInv
<1>15. CallInv'
  <2>1. ASSUME NEW q \in Query, called[q] # {}
        PROVE  \E a \in Query \cup {Failure} : called[q] = {a} /\ Callable(q, a)'
    <3>1. PICK a \in Query \cup {Failure} : called[q] = {a} /\ Callable(q, a)
      BY <2>1, <1>0 DEF CallInv
    <3>2. q # n BY <2>1, <1>5
    <3>3. a \in Query /\ a < q => a # n
      <4>1. ~(q > committed) BY <2>1, <1>0 DEF OpenInv
      <4> QED BY <4>1, <1>4 DEF n
    <3> QED BY <3>1, <3>2, <3>3, <1>1, <1>7 DEF Callable
  <2> QED BY <2>1, <1>1 DEF CallInv
<1>16. ASSUME repeats = 0 PROVE WayInv' /\ InboxInv'
  <2>0. WayInv /\ InboxInv BY <1>0, <1>16 DEF StrictInv
  <2>1. \A a \in answers : a.about \in Query /\ a.to \in Port BY <1>0 DEF DnsTypes
  <2>2. \A a \in answers : a.about # n
    BY <2>0, <2>1, <1>5 DEF WayInv, DnsAssumption
  <2>3. WayInv' BY <2>0, <2>1, <2>2, <1>0, <1>1, <1>3, <1>6 DEF WayInv, DnsTypes
  <2>4. inbox[p] = {} BY <1>0, <1>3 DEF BoundInv
  <2>5. \A r \in Port : \A a \in inbox[r] : a # Failure => a \in Query /\ a # n
    BY <2>0, <1>0, <1>5 DEF InboxInv, DnsTypes, TypeOK, DnsAssumption
  <2>6. \A r \in Port : \A a \in inbox[r] : a # Failure => port'[a] = r
    BY <2>0, <2>5, <1>6 DEF InboxInv
  <2>7. \A r \in Query : port'[r] # NoPort /\ inbox[port'[r]] # {} =>
           r # n /\ r \notin asked /\ \A a \in answers : a.about # r
    BY <2>0, <2>4, <1>6 DEF InboxInv
  <2> QED BY <2>3, <2>6, <2>7, <1>1 DEF InboxInv
<1>17. StrictInv' BY <1>16, <1>1 DEF StrictInv
<1> QED BY <1>10, <1>11, <1>12, <1>13, <1>14, <1>15, <1>17 DEF DnsInv

LEMMA RegisterInv == ASSUME DnsAssumption, DnsInv, Register PROVE DnsInv'
<1>1. /\ committed \in Query /\ registered' = registered \cup {committed}
      /\ committed \notin registered /\ called[committed] = {}
      /\ UNCHANGED <<committed, port, source, asked, answers, inbox, events, called, repeats>>
  BY DEF Register
<1>2. port[committed] # NoPort
  <2>1. committed <= committed BY <1>1 DEF DnsAssumption
  <2> QED BY <2>1, <1>1 DEF DnsInv, OpenInv
<1>3. DnsTypes' /\ OpenInv' BY <1>1, <1>2 DEF DnsInv, DnsTypes, TypeOK, OpenInv
<1>4. PortsApart' /\ SourceInv' /\ BoundInv' /\ StrictInv'
  BY <1>1 DEF DnsInv, PortsApart, SourceInv, BoundInv, StrictInv, WayInv, InboxInv
<1>5. CallInv' BY <1>1, CallKept DEF DnsInv, DnsTypes
<1> QED BY <1>3, <1>4, <1>5 DEF DnsInv

-----------------------------------------------------------------------------
(* The server and the network *)

LEMMA AnswerInv == ASSUME DnsAssumption, DnsInv, NEW q \in Query, Answer(q) PROVE DnsInv'
<1> DEFINE new == [to |-> source[q], about |-> q]
<1>0. DnsTypes /\ PortsApart /\ OpenInv /\ SourceInv /\ BoundInv /\ CallInv /\ StrictInv BY DEF DnsInv
<1>1. /\ q \in asked /\ answers' = answers \cup {new}
      /\ UNCHANGED <<committed, port, source, registered, inbox, events, called>>
  BY DEF Answer
<1>2. /\ asked' \subseteq asked /\ repeats' \in Nat /\ repeats' >= repeats
      /\ repeats' = 0 => repeats = 0 /\ asked' = asked \ {q}
  BY <1>0 DEF Answer, Arrives, DnsTypes
<1>3. source[q] \in Port
  BY <1>0, <1>1 DEF SourceInv, BoundInv, DnsTypes, TypeOK
<1>4. new \in [to : Port, about : Query] /\ new.to = source[q] /\ new.about = q BY <1>3
<1> HIDE DEF new
<1>5. DnsTypes' BY <1>0, <1>1, <1>2, <1>4 DEF DnsTypes, TypeOK
<1>6. PortsApart' /\ OpenInv' /\ SourceInv' BY <1>0, <1>1 DEF PortsApart, OpenInv, SourceInv
<1>7. BoundInv' BY <1>0, <1>1, <1>2, <1>4 DEF BoundInv
<1>8. CallInv' BY <1>1, <1>2, CallKept
<1>9. ASSUME repeats' = 0 PROVE WayInv' /\ InboxInv'
  <2>0. WayInv /\ InboxInv /\ asked' = asked \ {q} BY <1>0, <1>2, <1>9 DEF StrictInv
  <2>1. port[q] # NoPort /\ new.to = port[q] BY <2>0, <1>0, <1>1, <1>4 DEF WayInv, SourceInv
  <2>2. WayInv' BY <2>0, <2>1, <1>1, <1>4 DEF WayInv
  <2>3. InboxInv' BY <2>0, <2>1, <1>1, <1>4 DEF InboxInv
  <2> QED BY <2>2, <2>3
<1>10. StrictInv' BY <1>9 DEF StrictInv
<1> QED BY <1>5, <1>6, <1>7, <1>8, <1>10 DEF DnsInv

LEMMA LoseInv == ASSUME DnsAssumption, DnsInv, Lose PROVE DnsInv'
<1>1. /\ asked' \subseteq asked /\ answers' \subseteq answers
      /\ UNCHANGED <<committed, port, source, registered, inbox, events, called, repeats>>
  BY DEF Lose
<1>2. DnsTypes' /\ PortsApart' /\ OpenInv' /\ SourceInv'
  BY <1>1 DEF DnsInv, DnsTypes, TypeOK, PortsApart, OpenInv, SourceInv
<1>3. BoundInv' /\ StrictInv' BY <1>1 DEF DnsInv, BoundInv, StrictInv, WayInv, InboxInv
<1>4. CallInv' BY <1>1, CallKept DEF DnsInv, DnsTypes
<1> QED BY <1>2, <1>3, <1>4 DEF DnsInv

LEMMA DeliverInv == ASSUME DnsAssumption, DnsInv, Deliver PROVE DnsInv'
<1>0. DnsTypes /\ PortsApart /\ OpenInv /\ SourceInv /\ BoundInv /\ CallInv /\ StrictInv BY DEF DnsInv
<1>1. PICK a \in answers :
        /\ \/ answers' = answers \ {a} /\ repeats' = repeats
           \/ answers' = answers /\ repeats' = repeats + 1
        /\ inbox' = IF a.to \in FreePorts THEN inbox
                    ELSE [inbox EXCEPT ![a.to] = @ \cup {a.about}]
  BY DEF Deliver, Arrives, Received
<1>2. UNCHANGED <<committed, port, source, registered, asked, events, called>> BY DEF Deliver
<1>3. /\ a.to \in Port /\ a.about \in Query /\ source[a.about] = a.to
      /\ a = [to |-> a.to, about |-> a.about]
  BY <1>0 DEF DnsTypes, BoundInv
<1>4. /\ inbox' \in [Port -> SUBSET (Query \cup {Failure})]
      /\ \A p \in Port : p # a.to => inbox'[p] = inbox[p]
      /\ inbox'[a.to] \subseteq inbox[a.to] \cup {a.about}
      /\ inbox'[a.to] = inbox[a.to] \/ \E r \in Query : port[r] = a.to
  BY <1>0, <1>1, <1>3 DEF DnsTypes, TypeOK, FreePorts
<1>5. /\ answers' \subseteq answers /\ repeats' \in Nat /\ repeats' >= repeats
      /\ repeats' = 0 => repeats = 0 /\ answers' = answers \ {a}
  BY <1>0, <1>1 DEF DnsTypes
<1>6. DnsTypes' BY <1>0, <1>2, <1>4, <1>5 DEF DnsTypes, TypeOK
<1>7. PortsApart' /\ OpenInv' /\ SourceInv'
  BY <1>0, <1>2 DEF PortsApart, OpenInv, SourceInv
<1>8. BoundInv' BY <1>0, <1>2, <1>3, <1>4, <1>5 DEF BoundInv
<1>9. CallInv' BY <1>2, <1>5, CallKept
<1>10. ASSUME repeats' = 0 PROVE WayInv' /\ InboxInv'
  <2>0. WayInv /\ InboxInv /\ answers' = answers \ {a} BY <1>0, <1>5, <1>10 DEF StrictInv
  <2>1. port[a.about] = a.to /\ a.about \notin asked BY <2>0 DEF WayInv
  <2>2. \A b \in answers' : b.about # a.about
    <3> SUFFICES ASSUME NEW b \in answers, b.about = a.about PROVE b = a
      BY <2>0
    <3>1. b = [to |-> b.to, about |-> b.about] /\ port[b.about] = b.to
      BY <2>0, <1>0 DEF DnsTypes, WayInv
    <3> QED BY <3>1, <2>1, <1>3
  <2>3. \A p \in Port : \A c \in inbox'[p] : c # Failure => port[c] = p
    BY <2>0, <2>1, <1>3, <1>4 DEF InboxInv
  <2>4. ASSUME NEW q \in Query, port[q] # NoPort, inbox'[port[q]] # {}
        PROVE  q \notin asked /\ \A b \in answers' : b.about # q
    <3>1. CASE port[q] = a.to
      <4>1. q = a.about BY <3>1, <2>1, <2>4, <1>0, <1>3 DEF PortsApart
      <4> QED BY <4>1, <2>1, <2>2
    <3>2. CASE port[q] # a.to
      <4>1. port[q] \in Port BY <2>4, <1>0 DEF DnsTypes, TypeOK
      <4> QED BY <4>1, <3>2, <2>0, <2>4, <1>4, <1>5 DEF InboxInv
    <3> QED BY <3>1, <3>2
  <2> QED BY <2>0, <2>3, <2>4, <1>2, <1>5 DEF WayInv, InboxInv
<1>11. StrictInv' BY <1>10 DEF StrictInv
<1> QED BY <1>6, <1>7, <1>8, <1>9, <1>11 DEF DnsInv

LEMMA RefuseInv == ASSUME DnsAssumption, DnsInv, NEW q \in Query, Refuse(q) PROVE DnsInv'
<1>0. DnsTypes /\ PortsApart /\ OpenInv /\ SourceInv /\ BoundInv /\ CallInv /\ StrictInv BY DEF DnsInv
<1> DEFINE p == source[q]
<1>1. /\ q \in asked
      /\ inbox' = IF p \in FreePorts THEN inbox ELSE [inbox EXCEPT ![p] = @ \cup {Failure}]
      /\ UNCHANGED <<committed, port, source, registered, answers, events, called>>
  BY DEF Refuse, Received
<1>2. /\ asked' \subseteq asked /\ repeats' \in Nat /\ repeats' >= repeats
      /\ repeats' = 0 => repeats = 0 /\ asked' = asked \ {q}
  BY <1>0 DEF Refuse, Arrives, DnsTypes
<1>3. p \in Port BY <1>0, <1>1 DEF SourceInv, BoundInv, DnsTypes, TypeOK
<1>4. /\ inbox' \in [Port -> SUBSET (Query \cup {Failure})]
      /\ \A r \in Port : r # p => inbox'[r] = inbox[r]
      /\ inbox'[p] \subseteq inbox[p] \cup {Failure}
      /\ inbox'[p] = inbox[p] \/ \E r \in Query : port[r] = p
  BY <1>0, <1>1, <1>3 DEF DnsTypes, TypeOK, FreePorts
<1> HIDE DEF p
<1>5. DnsTypes' BY <1>0, <1>1, <1>2, <1>4 DEF DnsTypes, TypeOK
<1>6. PortsApart' /\ OpenInv' /\ SourceInv' BY <1>0, <1>1 DEF PortsApart, OpenInv, SourceInv
<1>7. BoundInv' BY <1>0, <1>1, <1>2, <1>4 DEF BoundInv
<1>8. CallInv' BY <1>1, <1>2, CallKept
<1>9. ASSUME repeats' = 0 PROVE WayInv' /\ InboxInv'
  <2>0. WayInv /\ InboxInv /\ asked' = asked \ {q} BY <1>0, <1>2, <1>9 DEF StrictInv
  <2>1. port[q] = p /\ port[q] # NoPort BY <2>0, <1>0, <1>1 DEF WayInv, SourceInv, p
  <2>2. \A r \in Port : \A c \in inbox'[r] : c # Failure => port[c] = r
    BY <2>0, <1>4 DEF InboxInv
  <2>3. ASSUME NEW r \in Query, port[r] # NoPort, inbox'[port[r]] # {}
        PROVE  r \notin asked' /\ \A a \in answers : a.about # r
    <3>1. CASE r = q BY <3>1, <2>0, <1>1 DEF WayInv
    <3>2. CASE r # q
      <4>1. port[r] # port[q] BY <3>2, <2>3, <1>0 DEF PortsApart
      <4>2. port[r] \in Port BY <2>3, <1>0 DEF DnsTypes, TypeOK
      <4> QED BY <4>1, <4>2, <2>0, <2>1, <2>3, <1>4 DEF InboxInv
    <3> QED BY <3>1, <3>2
  <2> QED BY <2>0, <2>2, <2>3, <1>1 DEF WayInv, InboxInv
<1>10. StrictInv' BY <1>9 DEF StrictInv
<1> QED BY <1>5, <1>6, <1>7, <1>8, <1>10 DEF DnsInv

-----------------------------------------------------------------------------
(* The callback thread *)

LEMMA EpollWaitInv == ASSUME DnsAssumption, DnsInv, EpollWait PROVE DnsInv'
<1>1. /\ events' \subseteq registered
      /\ UNCHANGED <<committed, port, source, registered, asked, answers, inbox, called, repeats>>
  BY DEF EpollWait, Reported
<1>2. DnsTypes' /\ PortsApart' /\ OpenInv' /\ SourceInv' /\ BoundInv' /\ StrictInv'
  BY <1>1 DEF DnsInv, DnsTypes, TypeOK, PortsApart, OpenInv, SourceInv, BoundInv, StrictInv, WayInv,
     InboxInv
<1>3. CallInv' BY <1>1, CallKept DEF DnsInv, DnsTypes
<1> QED BY <1>2, <1>3 DEF DnsInv

\* The only step that calls back: what it reads is the query's own answer, or a repeated
\* one to an earlier query that had the port.
LEMMA HandleInv == ASSUME DnsAssumption, DnsInv, NEW q \in Query, Handle(q) PROVE DnsInv'
<1>0. DnsTypes /\ PortsApart /\ OpenInv /\ SourceInv /\ BoundInv /\ CallInv /\ StrictInv BY DEF DnsInv
<1>1. /\ q \in events /\ registered' = registered \ {q} /\ events' = events \ {q}
      /\ port' = [port EXCEPT ![q] = NoPort]
      /\ inbox' = [inbox EXCEPT ![port[q]] = {}]
      /\ UNCHANGED <<committed, source, asked, answers, repeats>>
  BY DEF Handle, ClosePort
<1>2. PICK a \in inbox[port[q]] : called' = [called EXCEPT ![q] = @ \cup {a}]
  BY DEF Handle
<1>3. q \in registered /\ port[q] # NoPort /\ port[q] \in Port
  BY <1>0, <1>1 DEF OpenInv, DnsTypes, TypeOK
<1>4. called[q] = {} /\ q <= committed BY <1>0, <1>3 DEF OpenInv
<1>5. a \in Query \cup {Failure} BY <1>0, <1>2, <1>3 DEF DnsTypes, TypeOK
<1>6. Callable(q, a)
  <2> SUFFICES ASSUME a # Failure, a # q PROVE repeats > 0 /\ a < q /\ source[a] = source[q]
    BY <1>5 DEF Callable
  <2>1. a \in Query /\ source[a] = port[q] /\ source[q] = port[q]
    BY <1>0, <1>2, <1>3, <1>5 DEF BoundInv, SourceInv
  <2>2. a <= q BY <2>1, <1>0, <1>3 DEF SourceInv
  <2>3. a < q BY <2>1, <2>2 DEF DnsAssumption
  <2>4. repeats # 0
    <3> SUFFICES ASSUME repeats = 0 PROVE FALSE
      OBVIOUS
    <3>1. port[a] = port[q] BY <2>1, <1>0, <1>2, <1>3 DEF StrictInv, InboxInv
    <3> QED BY <3>1, <2>1, <1>0, <1>3 DEF PortsApart
  <2> QED BY <2>1, <2>3, <2>4, <1>0 DEF DnsTypes
<1>7. /\ port' \in [Query -> Port \cup {NoPort}] /\ port'[q] = NoPort
      /\ \A r \in Query : r # q => port'[r] = port[r] /\ port[r] # port[q]
      /\ inbox' \in [Port -> SUBSET (Query \cup {Failure})] /\ inbox'[port[q]] = {}
      /\ \A p \in Port : p # port[q] => inbox'[p] = inbox[p]
  BY <1>0, <1>1, <1>3 DEF DnsTypes, TypeOK, PortsApart
<1>8. DnsTypes'
  <2>1. called' \in [Query -> SUBSET (Query \cup {Failure})]
    BY <1>0, <1>2, <1>5 DEF DnsTypes
  <2> QED BY <2>1, <1>0, <1>1, <1>7 DEF DnsTypes, TypeOK
<1>9. PortsApart' BY <1>0, <1>7 DEF PortsApart
<1>10. called'[q] = {a} /\ \A r \in Query : r # q => called'[r] = called[r]
  BY <1>0, <1>2, <1>4 DEF DnsTypes, TypeOK
<1>11. OpenInv' BY <1>0, <1>1, <1>4, <1>7, <1>10 DEF OpenInv, DnsTypes, TypeOK, DnsAssumption
<1>12. SourceInv' BY <1>0, <1>1, <1>7 DEF SourceInv
<1>13. BoundInv'
  <2>1. \A r \in Port : \A c \in inbox'[r] : c # Failure => source[c] = r
    BY <1>0, <1>3, <1>7 DEF BoundInv
  <2>2. \A p \in Port : inbox'[p] # {} => \E r \in Query : port'[r] = p
    BY <1>0, <1>7 DEF BoundInv
  <2> QED BY <2>1, <2>2, <1>0, <1>1 DEF BoundInv
<1>14. CallInv' BY <1>0, <1>1, <1>5, <1>6, <1>10 DEF CallInv, Callable
<1>15. ASSUME repeats = 0 PROVE WayInv' /\ InboxInv'
  <2>0. WayInv /\ InboxInv BY <1>0, <1>15 DEF StrictInv
  <2>1. q \notin asked /\ \A b \in answers : b.about # q BY <2>0, <1>2, <1>3 DEF InboxInv
  <2>2. WayInv' BY <2>0, <2>1, <1>0, <1>1, <1>7 DEF WayInv, DnsTypes
  <2>3. \A p \in Port : \A c \in inbox'[p] : c # Failure => port'[c] = p
    BY <2>0, <1>0, <1>3, <1>7 DEF InboxInv, DnsTypes, TypeOK
  <2>4. \A r \in Query : port'[r] # NoPort /\ inbox'[port'[r]] # {} =>
           r \notin asked /\ \A b \in answers : b.about # r
    BY <2>0, <1>0, <1>7 DEF InboxInv, DnsTypes, TypeOK
  <2> QED BY <2>2, <2>3, <2>4, <1>1 DEF InboxInv
<1>16. StrictInv' BY <1>15, <1>1 DEF StrictInv
<1> QED BY <1>8, <1>9, <1>11, <1>12, <1>13, <1>14, <1>16 DEF DnsInv

-----------------------------------------------------------------------------
(* Theorems *)

LEMMA InvStep == ASSUME DnsInv, [Next]_vars PROVE DnsInv'
<1> USE DnsConstants
<1>1. CASE Commit BY <1>1, CommitInv
<1>2. CASE Register BY <1>2, RegisterInv
<1>3. CASE Lose BY <1>3, LoseInv
<1>4. CASE Deliver BY <1>4, DeliverInv
<1>5. CASE EpollWait BY <1>5, EpollWaitInv
<1>6. ASSUME NEW q \in Query, Answer(q) PROVE DnsInv' BY <1>6, AnswerInv
<1>7. ASSUME NEW q \in Query, Refuse(q) PROVE DnsInv' BY <1>7, RefuseInv
<1>8. ASSUME NEW q \in Query, Handle(q) PROVE DnsInv' BY <1>8, HandleInv
<1>9. CASE UNCHANGED vars
  BY <1>9 DEF vars, DnsInv, DnsTypes, TypeOK, PortsApart, OpenInv, SourceInv, BoundInv, CallInv,
     Callable, StrictInv, WayInv, InboxInv
<1> QED BY <1>1, <1>2, <1>3, <1>4, <1>5, <1>6, <1>7, <1>8, <1>9 DEF Next

\* The types of DnsClient with the facts on ports, datagrams and callbacks above are an
\* invariant of dns_async_client_commit and dns_async_client_proc.
THEOREM Invariance == Spec => []DnsInv
<1>1. Init => DnsInv BY DnsInitInv, DnsConstants
<1>2. DnsInv /\ [Next]_vars => DnsInv' BY InvStep
<1> QED BY <1>1, <1>2, PTL DEF Spec

\* A callback is called once, with a failure or the answer to its own query, however
\* answers are lost and delayed and ports used again; when the network repeats datagrams,
\* it may be a repeated answer to an earlier query that had the same port, and no other.
THEOREM AnswersReachOwners == Spec => []AnswerToOwner
<1>1. DnsInv => AnswerToOwner
  <2> SUFFICES ASSUME DnsInv PROVE AnswerToOwner
    OBVIOUS
  <2>1. ASSUME NEW q \in Query
        PROVE  /\ Cardinality(called[q]) <= 1
               /\ \A a \in called[q] \ {q, Failure} : repeats > 0 /\ a < q /\ source[a] = source[q]
    <3>1. CASE called[q] = {} BY <3>1, FS_EmptySet
    <3>2. CASE called[q] # {}
      <4>1. PICK a \in Query \cup {Failure} : called[q] = {a} /\ Callable(q, a)
        BY <3>2 DEF DnsInv, CallInv
      <4>2. Cardinality({a}) = 1 BY FS_Singleton
      <4> QED BY <4>1, <4>2 DEF Callable
    <3> QED BY <3>1, <3>2
  <2> QED BY <2>1 DEF AnswerToOwner
<1> QED BY <1>1, Invariance, PTL

-----------------------------------------------------------------------------
(* The round-trip client *)

RttTypes ==
  /\ main \in {"awake", "locked", "waiting"} /\ joined \in BOOLEAN
  /\ start_time \in Nat /\ now \in Nat /\ echoed \in Nat /\ spoken \in Nat /\ taken \in Nat
  /\ startTimes \in Seq(Nat) /\ told \in Seq(SUBSET Nat)
  /\ recvThread \in [at : {"idle", "measure", "notify"}, notice : Nat, time : Nat, rtt : Int]
  /\ rtt_vec \in Seq(Int) /\ Len(rtt_vec) < g_loop_num

\* Of the messages that main took the time for, the answered ones were sent; notices are
\* numbered without a gap.
SentInv ==
  /\ Len(startTimes) <= MaxSends
  /\ main = "locked" => Len(startTimes) > 0
  /\ echoed <= Len(startTimes) - (IF main = "locked" THEN 1 ELSE 0)
  /\ spoken <= Len(told) /\ taken <= Len(told)

\* start_time is the latest of the times, which never run back.
TimesInv ==
  /\ \A i, j \in 1..Len(startTimes) : i <= j => startTimes[i] <= startTimes[j]
  /\ \A i \in 1..Len(startTimes) : startTimes[i] <= now
  /\ start_time = IF Len(startTimes) = 0 THEN 0 ELSE startTimes[Len(startTimes)]

\* Every session answers only messages of the client.
NoticeInv ==
  /\ \A i \in 1..Len(told) : \A n \in told[i] : n <= Len(startTimes)
  /\ recvThread.notice <= Len(startTimes)

RttInv == RttTypes /\ SentInv /\ TimesInv /\ NoticeInv /\ Rtt!NewestExact

LEMMA RttInitInv == Rtt!Init => RttInv
<1> SUFFICES ASSUME Rtt!Init PROVE RttInv
  OBVIOUS
<1> USE RttAssumption DEF Rtt!Init, Rtt!Idle, Rtt!Others
<1>1. RttTypes
  <2>1. joined \in BOOLEAN BY Zenon
  <2> QED BY <2>1 DEF RttTypes
<1>2. SentInv /\ TimesInv /\ NoticeInv BY DEF SentInv, TimesInv, NoticeInv
<1>3. Rtt!NewestExact BY DEF Rtt!NewestExact, Rtt!Measured
<1> QED BY <1>1, <1>2, <1>3 DEF RttInv

LEMMA RttLockInv == ASSUME RttInv, Rtt!Lock PROVE RttInv'
<1> DEFINE n == Len(startTimes)
<1>0. RttTypes /\ SentInv /\ TimesInv /\ NoticeInv /\ Rtt!NewestExact BY DEF RttInv
<1>1. /\ main = "awake" /\ n < MaxSends /\ main' = "locked" /\ start_time' = now
      /\ startTimes' = Append(startTimes, now)
      /\ UNCHANGED <<joined, echoed, spoken, told, taken, recvThread, now, rtt_vec>>
  BY DEF Rtt!Lock, Rtt!serverVars
<1>2. /\ startTimes' \in Seq(Nat) /\ Len(startTimes') = n + 1 /\ n \in Nat
      /\ startTimes'[n + 1] = now /\ \A i \in 1..n : startTimes'[i] = startTimes[i]
  BY <1>0, <1>1 DEF RttTypes
<1>3. RttTypes' BY <1>0, <1>1, <1>2 DEF RttTypes
<1>4. SentInv' BY <1>0, <1>1, <1>2, RttAssumption DEF SentInv, RttTypes
<1>5. \A i \in 1..n : startTimes[i] \in Nat /\ startTimes[i] <= now BY <1>0 DEF TimesInv, RttTypes
<1>6. TimesInv'
  <2>0. \A i \in 1..(n + 1) : startTimes'[i] <= now
    <3> TAKE i \in 1..(n + 1)
    <3>1. CASE i = n + 1 BY <3>1, <1>0, <1>2 DEF RttTypes
    <3>2. CASE i # n + 1
      <4>1. i \in 1..n BY <3>2, <1>2
      <4> QED BY <4>1, <1>2, <1>5
    <3> QED BY <3>1, <3>2
  <2>1. ASSUME NEW i \in 1..(n + 1), NEW j \in 1..(n + 1), i <= j
        PROVE  startTimes'[i] <= startTimes'[j]
    <3>1. CASE j = n + 1 BY <3>1, <2>0, <1>2
    <3>2. CASE j # n + 1
      <4>1. i \in 1..n /\ j \in 1..n BY <3>2, <2>1, <1>2
      <4> QED BY <4>1, <2>1, <1>0, <1>2 DEF TimesInv
    <3> QED BY <3>1, <3>2
  <2>2. \A i \in 1..(n + 1) : startTimes'[i] <= now' BY <2>0, <1>1
  <2> QED BY <2>1, <2>2, <1>1, <1>2 DEF TimesInv
<1>7. recvThread.notice \in Nat /\ recvThread.notice <= n BY <1>0 DEF RttTypes, NoticeInv
<1>8. recvThread.notice # 0 => startTimes'[recvThread.notice] = startTimes[recvThread.notice]
  BY <1>2, <1>7
<1>9. NoticeInv'
  <2>1. \A i \in 1..Len(told) : \A a \in told[i] : a \in Nat /\ a <= n
    BY <1>0 DEF NoticeInv, RttTypes
  <2> HIDE DEF n
  <2>2. \A i \in 1..Len(told) : \A a \in told[i] : a <= n + 1 BY <2>1, <1>2
  <2> QED BY <2>2, <1>1, <1>2, <1>7 DEF NoticeInv
<1>10. Rtt!NewestExact'
  BY <1>0, <1>1, <1>2, <1>7, <1>8 DEF Rtt!NewestExact, Rtt!Measured, Rtt!RoundTripTime, Rtt!Others
<1> QED BY <1>3, <1>4, <1>6, <1>9, <1>10 DEF RttInv

\* Steps of main that send nothing and take no time.
LEMMA RttMainInv == ASSUME RttInv, Rtt!SendAndWait \/ Rtt!SpuriousWakeup PROVE RttInv'
<1>0. RttTypes /\ SentInv /\ TimesInv /\ NoticeInv /\ Rtt!NewestExact BY DEF RttInv
<1>1. /\ main' \in {"awake", "waiting"}
      /\ UNCHANGED <<start_time, startTimes, joined, echoed, spoken, told, taken, recvThread, now,
                     rtt_vec>>
  BY DEF Rtt!SendAndWait, Rtt!SpuriousWakeup, Rtt!serverVars
<1>2. RttTypes' BY <1>0, <1>1 DEF RttTypes
<1>3. Len(startTimes) \in Nat /\ echoed \in Nat BY <1>0 DEF RttTypes
<1>4. SentInv' BY <1>0, <1>1, <1>3 DEF SentInv
<1>5. TimesInv' /\ NoticeInv' BY <1>0, <1>1 DEF TimesInv, NoticeInv
<1>6. Rtt!NewestExact' BY <1>0, <1>1 DEF Rtt!NewestExact, Rtt!Measured, Rtt!RoundTripTime
<1> QED BY <1>2, <1>4, <1>5, <1>6 DEF RttInv

\* What Tell leaves: the notices before, and one more under the number i.
LEMMA RttTold ==
  ASSUME RttTypes, NoticeInv, NEW i \in 1..(Len(told) + 1), NEW a \in Nat,
         a <= Len(startTimes), Rtt!Tell(i, a)
  PROVE  /\ spoken' = i /\ told' \in Seq(SUBSET Nat)
         /\ Len(told') >= Len(told) /\ i <= Len(told')
         /\ \A j \in 1..Len(told') : \A b \in told'[j] : b <= Len(startTimes)
<1>0. told \in Seq(SUBSET Nat) /\ Len(told) \in Nat BY DEF RttTypes
<1>1. spoken' = i BY DEF Rtt!Tell
<1>2. CASE i > Len(told)
  <2>1. told' = Append(told, {a}) BY <1>2 DEF Rtt!Tell
  <2>2. /\ told' \in Seq(SUBSET Nat) /\ Len(told') = Len(told) + 1 /\ told'[Len(told) + 1] = {a}
        /\ \A j \in 1..Len(told) : told'[j] = told[j]
    BY <2>1, <1>0
  <2>3. ASSUME NEW j \in 1..Len(told'), NEW b \in told'[j] PROVE b <= Len(startTimes)
    <3>1. CASE j \in 1..Len(told) BY <3>1, <2>2, <2>3 DEF NoticeInv
    <3>2. CASE j = Len(told) + 1 BY <3>2, <2>2, <2>3
    <3> QED BY <3>1, <3>2, <2>2, <1>0
  <2> QED BY <2>2, <2>3, <1>0, <1>1
<1>3. CASE ~(i > Len(told))
  <2>1. i \in 1..Len(told) /\ told' = [told EXCEPT ![i] = @ \cup {a}] BY <1>0, <1>3 DEF Rtt!Tell
  <2>2. /\ told' \in Seq(SUBSET Nat) /\ Len(told') = Len(told) /\ told'[i] = told[i] \cup {a}
        /\ \A j \in 1..Len(told) : j # i => told'[j] = told[j]
    BY <2>1, <1>0
  <2>3. ASSUME NEW j \in 1..Len(told'), NEW b \in told'[j] PROVE b <= Len(startTimes)
    BY <2>1, <2>2, <2>3 DEF NoticeInv
  <2> QED BY <2>1, <2>2, <2>3, <1>0, <1>1
<1> QED BY <1>2, <1>3

\* The server sends a notice, of an answer or of something else.
LEMMA RttServerInv ==
  ASSUME RttInv, Rtt!HandleConnection \/ Rtt!ServerHandleMessage \/ Rtt!OtherUsers
  PROVE  RttInv'
<1>0. RttTypes /\ SentInv /\ TimesInv /\ NoticeInv /\ Rtt!NewestExact BY DEF RttInv
<1>1. UNCHANGED <<main, start_time, startTimes, taken, recvThread, now, rtt_vec>>
  BY DEF Rtt!HandleConnection, Rtt!ServerHandleMessage, Rtt!OtherUsers, Rtt!clientVars
<1>2. joined' \in BOOLEAN
  BY <1>0, Zenon DEF Rtt!HandleConnection, Rtt!ServerHandleMessage, Rtt!OtherUsers, RttTypes
<1>3. /\ echoed \in Nat /\ Len(startTimes) \in Nat /\ Len(told) \in Nat /\ spoken \in Nat
      /\ taken \in Nat /\ spoken <= Len(told) /\ taken <= Len(told)
      /\ echoed <= Len(startTimes) - (IF main = "locked" THEN 1 ELSE 0)
      /\ main = "locked" => Len(startTimes) > 0
  BY <1>0 DEF RttTypes, SentInv
<1>4. /\ echoed' \in Nat /\ echoed' <= Len(startTimes) - (IF main = "locked" THEN 1 ELSE 0)
      /\ \E i \in 1..(Len(told) + 1) : \E a \in Nat : a <= Len(startTimes) /\ Rtt!Tell(i, a)
  <2>1. CASE Rtt!HandleConnection
    <3>1. echoed' = 0 /\ Rtt!Tell(1, 0) BY <2>1 DEF Rtt!HandleConnection, Rtt!Others
    <3>2. 1 \in 1..(Len(told) + 1) /\ 0 \in Nat /\ 0 <= Len(startTimes) BY <1>3
    <3> QED BY <3>1, <3>2, <1>3
  <2>2. CASE Rtt!OtherUsers
    <3>1. echoed' = echoed /\ Rtt!Tell(spoken + 1, 0) BY <2>2 DEF Rtt!OtherUsers, Rtt!Others
    <3>2. spoken + 1 \in 1..(Len(told) + 1) /\ 0 \in Nat /\ 0 <= Len(startTimes) BY <1>3
    <3> QED BY <3>1, <3>2, <1>3
  <2>3. CASE Rtt!ServerHandleMessage
    <3>1. /\ echoed' = echoed + 1 /\ Rtt!Tell(spoken + 1, echoed')
          /\ echoed < Len(startTimes) - (IF main = "locked" THEN 1 ELSE 0)
      BY <2>3 DEF Rtt!ServerHandleMessage, Rtt!Sent
    <3>2. /\ spoken + 1 \in 1..(Len(told) + 1) /\ echoed' \in Nat
          /\ echoed' <= Len(startTimes) - (IF main = "locked" THEN 1 ELSE 0)
      BY <3>1, <1>3
    <3>3. echoed' <= Len(startTimes) BY <3>2, <1>3
    <3> QED BY <3>1, <3>2, <3>3
  <2> QED BY <2>1, <2>2, <2>3
<1>5. /\ spoken' \in Nat /\ told' \in Seq(SUBSET Nat) /\ Len(told') \in Nat
      /\ Len(told') >= Len(told) /\ spoken' <= Len(told')
      /\ \A j \in 1..Len(told') : \A b \in told'[j] : b <= Len(startTimes)
  <2>1. PICK i \in 1..(Len(told) + 1), a \in Nat : a <= Len(startTimes) /\ Rtt!Tell(i, a) BY <1>4
  <2>2. /\ spoken' = i /\ told' \in Seq(SUBSET Nat) /\ Len(told') >= Len(told) /\ i <= Len(told')
        /\ \A j \in 1..Len(told') : \A b \in told'[j] : b <= Len(startTimes)
    BY <2>1, <1>0, RttTold
  <2>3. i \in Nat /\ Len(told') \in Nat BY <2>2, <1>3
  <2> QED BY <2>2, <2>3
<1>6. RttTypes' BY <1>0, <1>1, <1>2, <1>4, <1>5 DEF RttTypes
<1>7. SentInv'
  <2>1. taken <= Len(told') BY <1>3, <1>5
  <2> QED BY <2>1, <1>0, <1>1, <1>4, <1>5 DEF SentInv
<1>8. TimesInv' BY <1>0, <1>1 DEF TimesInv
<1>9. NoticeInv' BY <1>0, <1>1, <1>5 DEF NoticeInv
<1>10. Rtt!NewestExact' BY <1>0, <1>1 DEF Rtt!NewestExact, Rtt!Measured, Rtt!RoundTripTime
<1> QED BY <1>6, <1>7, <1>8, <1>9, <1>10 DEF RttInv

\* The server drops the session; what it has sent may still come.
LEMMA RttCloseInv == ASSUME RttInv, Rtt!HandleClose PROVE RttInv'
<1>0. RttTypes /\ SentInv /\ TimesInv /\ NoticeInv /\ Rtt!NewestExact BY DEF RttInv
<1>1. UNCHANGED <<main, start_time, startTimes, echoed, spoken, told, taken, recvThread, now,
                  rtt_vec>>
  BY DEF Rtt!HandleClose, Rtt!clientVars
<1>2. joined' \in BOOLEAN BY Zenon DEF Rtt!HandleClose
<1>3. RttTypes' BY <1>0, <1>1, <1>2 DEF RttTypes
<1>4. SentInv' /\ TimesInv' /\ NoticeInv' BY <1>0, <1>1 DEF SentInv, TimesInv, NoticeInv
<1>5. Rtt!NewestExact' BY <1>0, <1>1 DEF Rtt!NewestExact, Rtt!Measured, Rtt!RoundTripTime
<1> QED BY <1>3, <1>4, <1>5 DEF RttInv

LEMMA RttReadClockInv == ASSUME RttInv, Rtt!ReadClock PROVE RttInv'
<1>0. RttTypes /\ SentInv /\ TimesInv /\ NoticeInv /\ Rtt!NewestExact BY DEF RttInv
<1>1. /\ UNCHANGED <<main, start_time, startTimes, joined, echoed, spoken, told, now, rtt_vec>>
      /\ taken < Len(told) /\ taken' = taken + 1
  BY DEF Rtt!ReadClock, Rtt!serverVars
<1>2. PICK a \in told[taken + 1] :
        recvThread' = [at |-> "measure", notice |-> a, time |-> now, rtt |-> 0]
  BY DEF Rtt!ReadClock
<1>3. /\ taken \in Nat /\ Len(told) \in Nat /\ taken' \in Nat /\ taken' <= Len(told)
      /\ taken + 1 \in 1..Len(told)
  BY <1>0, <1>1 DEF RttTypes
<1>4. a \in Nat /\ a <= Len(startTimes) BY <1>0, <1>2, <1>3 DEF RttTypes, NoticeInv
<1>5. RttTypes' BY <1>0, <1>1, <1>2, <1>3, <1>4 DEF RttTypes
<1>6. SentInv' /\ TimesInv' BY <1>0, <1>1, <1>3 DEF SentInv, TimesInv
<1>7. NoticeInv' BY <1>0, <1>1, <1>2, <1>4 DEF NoticeInv
<1>8. Rtt!NewestExact' BY <1>2 DEF Rtt!NewestExact, Rtt!Measured
<1> QED BY <1>5, <1>6, <1>7, <1>8 DEF RttInv

\* The time is taken from the latest start_time, which is that of the newest message and
\* not before that of any other.
LEMMA RttMeasureInv == ASSUME RttInv, Rtt!Measure PROVE RttInv'
<1> DEFINE n == Len(startTimes)
           a == recvThread.notice
           r == recvThread.time - start_time
<1>0. RttTypes /\ SentInv /\ TimesInv /\ NoticeInv /\ Rtt!NewestExact BY DEF RttInv
<1>1. /\ UNCHANGED <<main, start_time, startTimes, joined, echoed, spoken, told, taken, now>>
      /\ recvThread.at = "measure"
      /\ recvThread' = [recvThread EXCEPT !.at = "notify", !.rtt = r]
      /\ rtt_vec' = IF Len(rtt_vec) + 1 >= g_loop_num THEN << >> ELSE Append(rtt_vec, r)
  BY DEF Rtt!Measure, Rtt!serverVars
<1>2. /\ recvThread.time \in Nat /\ a \in Nat /\ start_time \in Nat /\ n \in Nat
      /\ a <= n
  BY <1>0 DEF RttTypes, NoticeInv
<1>3. /\ recvThread' \in [at : {"idle", "measure", "notify"}, notice : Nat, time : Nat, rtt : Int]
      /\ recvThread'.at = "notify" /\ recvThread'.notice = a
      /\ recvThread'.time = recvThread.time /\ recvThread'.rtt = r
  <2>1. r \in Int BY <1>2
  <2> QED BY <2>1, <1>0, <1>1 DEF RttTypes
<1>4. rtt_vec' \in Seq(Int) /\ Len(rtt_vec') < g_loop_num
  <2>1. r \in Int /\ rtt_vec \in Seq(Int) /\ Len(rtt_vec) \in Nat BY <1>0, <1>2 DEF RttTypes
  <2> HIDE DEF r
  <2> QED BY <2>1, <1>1, RttAssumption
<1>5. RttTypes' BY <1>0, <1>1, <1>3, <1>4 DEF RttTypes
<1>6. SentInv' /\ TimesInv' BY <1>0, <1>1 DEF SentInv, TimesInv
<1>7. NoticeInv' BY <1>0, <1>1, <1>3 DEF NoticeInv
<1>8. Rtt!NewestExact'
  <2>1. ASSUME a # 0
        PROVE  /\ r <= recvThread.time - startTimes[a]
               /\ a = n => r = recvThread.time - startTimes[a]
    <3>1. a \in 1..n /\ n \in 1..n BY <2>1, <1>2
    <3>2. startTimes[a] <= startTimes[n] /\ start_time = startTimes[n]
      BY <3>1, <1>0, <1>2 DEF TimesInv
    <3>3. startTimes[a] \in Nat BY <3>1, <1>0 DEF RttTypes
    <3> QED BY <3>2, <3>3, <1>2
  <2> HIDE DEF r, a, n
  <2> QED BY <2>1, <1>1, <1>3
      DEF Rtt!NewestExact, Rtt!Measured, Rtt!RoundTripTime, Rtt!Others, n
<1> QED BY <1>5, <1>6, <1>7, <1>8 DEF RttInv

LEMMA RttNotifyOneInv == ASSUME RttInv, Rtt!NotifyOne PROVE RttInv'
<1>0. RttTypes /\ SentInv /\ TimesInv /\ NoticeInv /\ Rtt!NewestExact BY DEF RttInv
<1>1. /\ UNCHANGED <<start_time, startTimes, joined, echoed, spoken, told, taken, now, rtt_vec>>
      /\ main # "locked" /\ main' = IF main = "waiting" THEN "awake" ELSE main
      /\ recvThread' = [at |-> "idle", notice |-> 0, time |-> 0, rtt |-> 0]
  BY DEF Rtt!NotifyOne, Rtt!Idle, Rtt!Others, Rtt!serverVars
<1>2. RttTypes' BY <1>0, <1>1 DEF RttTypes
<1>3. SentInv' BY <1>0, <1>1 DEF SentInv
<1>4. TimesInv' /\ NoticeInv' BY <1>0, <1>1 DEF TimesInv, NoticeInv, RttTypes
<1>5. Rtt!NewestExact' BY <1>1 DEF Rtt!NewestExact, Rtt!Measured
<1> QED BY <1>2, <1>3, <1>4, <1>5 DEF RttInv

LEMMA RttTickInv == ASSUME RttInv, Rtt!Tick PROVE RttInv'
<1>0. RttTypes /\ SentInv /\ TimesInv /\ NoticeInv /\ Rtt!NewestExact BY DEF RttInv
<1>1. /\ UNCHANGED <<main, start_time, startTimes, joined, echoed, spoken, told, taken, recvThread,
                     rtt_vec>>
      /\ now' = now + 1
  BY DEF Rtt!Tick, Rtt!serverVars, Rtt!clientVars
<1>2. RttTypes' BY <1>0, <1>1 DEF RttTypes
<1>3. SentInv' /\ NoticeInv' BY <1>0, <1>1 DEF SentInv, NoticeInv
<1>4. TimesInv'
  <2>1. \A i \in 1..Len(startTimes) : startTimes[i] \in Nat BY <1>0 DEF RttTypes
  <2> QED BY <2>1, <1>0, <1>1 DEF TimesInv, RttTypes
<1>5. Rtt!NewestExact' BY <1>0, <1>1 DEF Rtt!NewestExact, Rtt!Measured, Rtt!RoundTripTime
<1> QED BY <1>2, <1>3, <1>4, <1>5 DEF RttInv

LEMMA RttKept == ASSUME RttInv, UNCHANGED rttVars PROVE RttInv'
BY DEF rttVars, RttInv, RttTypes, SentInv, TimesInv, NoticeInv, Rtt!NewestExact, Rtt!Measured,
       Rtt!RoundTripTime

LEMMA RttStep == ASSUME RttInv, Rtt!Next PROVE RttInv'
BY RttLockInv, RttMainInv, RttServerInv, RttCloseInv, RttReadClockInv, RttMeasureInv,
   RttNotifyOneInv, RttTickInv DEF Rtt!Next

LEMMA RttIsTyped == ASSUME RttInv PROVE Rtt!TypeOK
<1>1. echoed \in Nat /\ Len(startTimes) \in Nat BY DEF RttInv, RttTypes
<1>2. echoed \in 0..Rtt!Sent BY <1>1 DEF RttInv, SentInv, Rtt!Sent
<1>3. recvThread.at \in {"idle", "measure", "notify"} BY DEF RttInv, RttTypes
<1> QED BY <1>2, <1>3 DEF RttInv, RttTypes, SentInv, Rtt!TypeOK

-----------------------------------------------------------------------------
(* The web server *)

T == HeaderLen + fileLen

SlotSet == [wbuffer : Seq(Nat), wlength : Nat, wstatus : {0, 1}, woffset : 0..T,
            wtotallength : {0, T}, fileOpen : BOOLEAN, wfile_offset : 0..fileLen]

\* A slot between two steps, whoever's it is: while the file is open, both offsets
\* stand at one byte; while it is not, what is left of the buffer fits in the response.
SlotOK(x) ==
  /\ x \in SlotSet
  /\ x.wtotallength = 0 => x.woffset = 0 /\ ~x.fileOpen
  /\ x.fileOpen => x.woffset = HeaderLen + x.wfile_offset
  /\ ~x.fileOpen => /\ x.wfile_offset = 0 /\ x.wlength <= BUFFER_LENGTH
                    /\ x.wlength <= Len(x.wbuffer)

WebTypes ==
  /\ fileLen \in FileLens
  /\ conns = [fd \in WebFd |-> conns[fd]] /\ \A fd \in WebFd : SlotOK(conns[fd])
  /\ mode \in [WebFd -> {"closed", "recv", "send"}]
  /\ peer \in [WebFd -> {"open", "shut", "reset", "broken"}]
  /\ wire \in [WebFd -> Seq(Nat)] /\ tainted \in [WebFd -> BOOLEAN]

\* The bytes are those of whole responses and of the part that woffset tells.
Exact(fd) ==
  /\ \A i \in 1..Len(wire[fd]) : wire[fd][i] = ((i - 1) % T) + 1
  /\ Len(wire[fd]) % T = conns[fd].woffset % T
  /\ mode[fd] = "recv" => conns[fd].woffset = 0

WebInv == WebTypes /\ \A fd \in WebFd : mode[fd] # "closed" /\ ~tainted[fd] => Exact(fd)

LEMMA LengthFacts ==
  ASSUME fileLen \in FileLens
  PROVE  /\ fileLen \in Nat /\ HeaderLen \in Nat \ {0} /\ BUFFER_LENGTH \in Nat
         /\ HeaderLen <= BUFFER_LENGTH /\ T \in Nat \ {0} /\ T = Web!Total
BY WebAssumption DEF T, Web!Total

\* Counting on within one response
LEMMA ModStep ==
  ASSUME NEW t \in Nat \ {0}, NEW a \in Nat, NEW o \in Nat, NEW d \in Nat,
         a % t = o % t, o + d < t
  PROVE  (a + d) % t = o + d
<1>1. o < t /\ 0 <= o OBVIOUS
<1>2. o % t = o BY <1>1
<1> DEFINE q == a \div t
<1>3. q \in Int /\ a = t * q + o BY <1>2
<1>4. a + d = t * q + (o + d) BY <1>3
<1>5. o + d \in 0..(t - 1) OBVIOUS
<1> HIDE DEF q
<1> QED BY <1>3, <1>4, <1>5

LEMMA BegunFacts ==
  ASSUME fileLen \in FileLens, NEW x, SlotOK(x)
  PROVE  LET b == Web!Begun(x) IN
         /\ SlotOK(b) /\ b.wtotallength = T /\ b.woffset = x.woffset /\ b.wstatus = x.wstatus
<1>1. T \in Nat \ {0} /\ T = Web!Total BY LengthFacts
<1>2. CASE x.wtotallength = 0
  <2>1. Web!Begun(x) = [x EXCEPT !.wtotallength = T, !.woffset = 0]
    BY <1>1, <1>2 DEF Web!Begun
  <2>2. x \in SlotSet /\ x.woffset = 0 /\ ~x.fileOpen BY <1>2 DEF SlotOK
  <2>3. /\ Web!Begun(x) \in SlotSet /\ Web!Begun(x).wtotallength = T
        /\ Web!Begun(x).woffset = x.woffset /\ Web!Begun(x).wstatus = x.wstatus
        /\ Web!Begun(x).fileOpen = x.fileOpen /\ Web!Begun(x).wfile_offset = x.wfile_offset
        /\ Web!Begun(x).wlength = x.wlength /\ Web!Begun(x).wbuffer = x.wbuffer
    <3>1. 0 \in 0..T BY <1>1
    <3> QED BY <2>1, <2>2, <3>1 DEF SlotSet
  <2> QED BY <2>2, <2>3, <1>1 DEF SlotOK
<1>3. CASE x.wtotallength # 0
  <2>1. Web!Begun(x) = x BY <1>3 DEF Web!Begun
  <2> QED BY <2>1, <1>3 DEF SlotOK, SlotSet
<1> QED BY <1>2, <1>3

LEMMA ChunkFacts ==
  ASSUME NEW off \in Nat, NEW n \in Nat
  PROVE  /\ Web!Chunk(off, n) \in Seq(Nat) /\ Len(Web!Chunk(off, n)) = n
         /\ \A i \in 1..n : Web!Chunk(off, n)[i] = off + i
BY DEF Web!Chunk

\* What http_response prepares: what is offered continues the response where it stands
\* and does not go beyond it, except that a file that could not be opened leaves the
\* buffer as it was.
LEMMA ResponseFacts ==
  ASSUME fileLen \in FileLens, NEW x, SlotOK(x), NEW opened \in BOOLEAN,
         ~Web!CopyOverrun(x)
  PROVE  LET s == Web!HttpResponse(x, opened) IN
         /\ SlotOK(s) /\ s.woffset = x.woffset /\ s.wtotallength = T
         /\ Web!Offer(s) \in Seq(Nat) /\ s.woffset + Len(Web!Offer(s)) <= T
         /\ ~(Web!ByFile(Web!Begun(x)) /\ ~opened) =>
              \A i \in 1..Len(Web!Offer(s)) : Web!Offer(s)[i] = s.woffset + i
<1> DEFINE b == Web!Begun(x)
           s == Web!HttpResponse(x, opened)
           status == IF b.woffset = HeaderLen THEN 1 ELSE b.wstatus
           n == Web!ChunkLen(b, status)
<1>1. /\ fileLen \in Nat /\ HeaderLen \in Nat \ {0} /\ BUFFER_LENGTH \in Nat
      /\ HeaderLen <= BUFFER_LENGTH /\ T \in Nat \ {0} /\ T = Web!Total /\ T = HeaderLen + fileLen
  BY LengthFacts DEF T
<1>2. SlotOK(b) /\ b.wtotallength = T /\ b.woffset = x.woffset /\ b.wstatus = x.wstatus
  BY BegunFacts
<1>3. b \in SlotSet /\ b.woffset \in 0..T /\ b.wstatus \in {0, 1} /\ b.wfile_offset \in 0..fileLen
  BY <1>2 DEF SlotOK, SlotSet
<1>4. ~(b.wstatus = 0 /\ b.woffset > HeaderLen) BY DEF Web!CopyOverrun
<1>5. /\ s.woffset = b.woffset /\ s.wtotallength = T /\ s.wfile_offset = b.wfile_offset
      /\ s.wstatus \in {0, 1} /\ s.fileOpen \in BOOLEAN
      /\ s.fileOpen <=> b.fileOpen \/ (Web!ByFile(b) /\ opened)
      /\ s.wlength \in Nat /\ s.wbuffer \in Seq(Nat) /\ s \in SlotSet
      /\ ~s.fileOpen => s.wlength <= BUFFER_LENGTH /\ s.wlength <= Len(s.wbuffer)
      /\ ~s.fileOpen => s.woffset + s.wlength <= T
      /\ ~s.fileOpen /\ ~Web!ByFile(b) => \A i \in 1..s.wlength : s.wbuffer[i] = b.woffset + i
  <2>1. CASE Web!ByFile(b)
    <3>1. s = [b EXCEPT !.wstatus = 1, !.fileOpen = b.fileOpen \/ opened,
                        !.wlength = IF opened THEN fileLen ELSE b.wlength]
      BY <2>1 DEF Web!HttpResponse
    <3>2. b.fileOpen \/ opened \in BOOLEAN OBVIOUS
    <3>3. (IF opened THEN fileLen ELSE b.wlength) \in Nat BY <1>1, <1>3 DEF SlotSet
    <3>4. /\ s \in SlotSet /\ s.wstatus = 1 /\ s.fileOpen = (b.fileOpen \/ opened)
          /\ s.wlength = (IF opened THEN fileLen ELSE b.wlength)
          /\ s.woffset = b.woffset /\ s.wtotallength = b.wtotallength
          /\ s.wfile_offset = b.wfile_offset /\ s.wbuffer = b.wbuffer
      <4> HIDE DEF s, b
      <4> QED BY <3>1, <3>2, <3>3, <1>3 DEF SlotSet
    <3> HIDE DEF s, b
    <3>5. b.woffset = HeaderLen /\ T > 3 * BUFFER_LENGTH BY <2>1, <1>2 DEF Web!ByFile
    <3>6. ASSUME ~s.fileOpen
          PROVE  /\ s.wlength <= BUFFER_LENGTH /\ s.wlength <= Len(s.wbuffer)
                 /\ s.woffset + s.wlength <= T
      <4>1. ~opened /\ ~b.fileOpen BY <3>4, <3>6
      <4>2. /\ s.wlength = b.wlength /\ b.wlength \in Nat /\ b.wlength <= BUFFER_LENGTH
            /\ b.wlength <= Len(b.wbuffer)
        BY <4>1, <3>4, <1>2, <1>3 DEF SlotOK, SlotSet
      <4> QED BY <4>2, <3>4, <3>5, <1>1
    <3> QED BY <2>1, <3>4, <3>6, <1>2 DEF SlotSet
  <2>2. CASE ~Web!ByFile(b)
    <3>1. s = [b EXCEPT !.wstatus = status, !.wlength = n, !.wbuffer = Web!Chunk(b.woffset, n)]
      BY <2>2 DEF Web!HttpResponse
    <3>2. n \in Nat /\ n <= BUFFER_LENGTH /\ b.woffset + n <= T
      <4> HIDE DEF b
      <4>1. CASE status = 0 BY <4>1, <1>1, <1>3, <1>4 DEF Web!ChunkLen
      <4>2. CASE status # 0 BY <4>2, <1>1, <1>3 DEF Web!ChunkLen
      <4> QED BY <4>1, <4>2
    <3>3. status \in {0, 1} BY <1>3
    <3> HIDE DEF s, n, status
    <3> HIDE DEF b
    <3>4. /\ Web!Chunk(b.woffset, n) \in Seq(Nat) /\ Len(Web!Chunk(b.woffset, n)) = n
          /\ \A i \in 1..n : Web!Chunk(b.woffset, n)[i] = b.woffset + i
      <4>1. b.woffset \in Nat BY <1>1, <1>3
      <4> QED BY <4>1, <3>2, ChunkFacts
    <3>5. /\ s \in SlotSet /\ s.wstatus = status /\ s.fileOpen = b.fileOpen /\ s.wlength = n
          /\ s.woffset = b.woffset /\ s.wtotallength = b.wtotallength
          /\ s.wfile_offset = b.wfile_offset /\ s.wbuffer = Web!Chunk(b.woffset, n)
      BY <3>1, <3>2, <3>3, <3>4, <1>3 DEF SlotSet
    <3> QED BY <2>2, <3>2, <3>3, <3>4, <3>5, <1>2 DEF SlotSet
  <2> QED BY <2>1, <2>2
<1> HIDE DEF s, b
<1>6. ASSUME s.fileOpen PROVE s.woffset = HeaderLen + s.wfile_offset
  <2>1. CASE b.fileOpen BY <2>1, <1>2, <1>5 DEF SlotOK
  <2>2. CASE ~b.fileOpen
    <3>1. b.woffset = HeaderLen BY <2>2, <1>5, <1>6 DEF Web!ByFile
    <3>2. b.wfile_offset = 0 BY <2>2, <1>2 DEF SlotOK
    <3> QED BY <3>1, <3>2, <1>5, <1>1
  <2> QED BY <2>1, <2>2
<1>7. SlotOK(s)
  <2>1. ~s.fileOpen => s.wfile_offset = 0 BY <1>2, <1>5 DEF SlotOK
  <2> QED BY <2>1, <1>1, <1>5, <1>6 DEF SlotOK
<1>8. /\ Web!Offer(s) \in Seq(Nat) /\ s.woffset + Len(Web!Offer(s)) <= T
      /\ s.fileOpen \/ ~Web!ByFile(b) =>
           \A i \in 1..Len(Web!Offer(s)) : Web!Offer(s)[i] = s.woffset + i
  <2>1. s.woffset \in 0..T /\ s.wfile_offset \in 0..fileLen BY <1>3, <1>5
  <2>2. CASE s.fileOpen
    <3>1. Web!Offer(s) = Web!Chunk(s.woffset, T - s.woffset)
      BY <2>2, <1>5, <1>6 DEF Web!Offer
    <3>2. T - s.woffset \in Nat /\ s.woffset \in Nat BY <2>1, <1>1
    <3>3. /\ Web!Offer(s) \in Seq(Nat) /\ Len(Web!Offer(s)) = T - s.woffset
          /\ \A i \in 1..(T - s.woffset) : Web!Offer(s)[i] = s.woffset + i
      <4> DEFINE o == s.woffset
                 m == T - s.woffset
      <4>1. o \in Nat /\ m \in Nat BY <3>2
      <4>2. Web!Offer(s) = Web!Chunk(o, m) BY <3>1
      <4> HIDE DEF o, m
      <4>3. /\ Web!Offer(s) \in Seq(Nat) /\ Len(Web!Offer(s)) = m
            /\ \A i \in 1..m : Web!Offer(s)[i] = o + i
        BY <4>1, <4>2, ChunkFacts
      <4> QED BY <4>3 DEF o, m
    <3> QED BY <3>2, <3>3, <1>1
  <2>3. CASE ~s.fileOpen
    <3>1. Web!Offer(s) = SubSeq(s.wbuffer, 1, s.wlength) BY <2>3 DEF Web!Offer
    <3>2. /\ s.wlength \in Nat /\ s.wlength <= Len(s.wbuffer) /\ s.wbuffer \in Seq(Nat)
          /\ s.woffset + s.wlength <= T
      BY <2>3, <1>5
    <3>3. /\ Web!Offer(s) \in Seq(Nat) /\ Len(Web!Offer(s)) = s.wlength
          /\ \A i \in 1..s.wlength : Web!Offer(s)[i] = s.wbuffer[i]
      BY <3>1, <3>2
    <3> QED BY <2>3, <3>2, <3>3, <1>5
  <2> QED BY <2>2, <2>3
<1>9. s.woffset = x.woffset /\ s.wtotallength = T BY <1>2, <1>5
<1>10. ~(Web!ByFile(b) /\ ~opened) => s.fileOpen \/ ~Web!ByFile(b) BY <1>5
<1> QED BY <1>7, <1>8, <1>9, <1>10 DEF s, b

LEMMA SentFacts ==
  ASSUME fileLen \in FileLens, NEW x, SlotOK(x), x.wtotallength = T,
         NEW n \in Nat, x.woffset + n <= T
  PROVE  /\ SlotOK(Web!Sent(x, n)) /\ Web!Sent(x, n).woffset = x.woffset + n
         /\ Web!Sent(x, n).wtotallength = T
<1> DEFINE t == Web!Sent(x, n)
           f == IF x.fileOpen THEN x.wfile_offset + n ELSE x.wfile_offset
<1>1. fileLen \in Nat /\ HeaderLen \in Nat \ {0} /\ T \in Nat \ {0} /\ T = HeaderLen + fileLen
  BY LengthFacts DEF T
<1>2. x \in SlotSet /\ x.woffset \in 0..T /\ x.wfile_offset \in 0..fileLen BY DEF SlotOK, SlotSet
<1>3. x.woffset + n \in 0..T BY <1>1, <1>2
<1>4. f \in 0..fileLen /\ (x.fileOpen => x.woffset + n = HeaderLen + f) /\ (~x.fileOpen => f = 0)
  <2>1. CASE x.fileOpen
    <3>1. x.woffset = HeaderLen + x.wfile_offset BY <2>1 DEF SlotOK
    <3> QED BY <2>1, <3>1, <1>1, <1>2
  <2>2. CASE ~x.fileOpen
    <3>1. x.wfile_offset = 0 BY <2>2 DEF SlotOK
    <3> QED BY <2>2, <3>1, <1>1
  <2> QED BY <2>1, <2>2
<1>5. t = [x EXCEPT !.woffset = x.woffset + n, !.wfile_offset = f] BY DEF Web!Sent
<1> HIDE DEF t, f
<1>6. /\ t \in SlotSet /\ t.woffset = x.woffset + n /\ t.wfile_offset = f /\ t.wtotallength = T
      /\ t.fileOpen = x.fileOpen /\ t.wlength = x.wlength /\ t.wbuffer = x.wbuffer
  BY <1>2, <1>3, <1>4, <1>5 DEF SlotSet
<1>7. SlotOK(t) BY <1>1, <1>4, <1>6 DEF SlotOK
<1> QED BY <1>6, <1>7 DEF t

LEMMA ResetFacts ==
  ASSUME fileLen \in FileLens, NEW x, SlotOK(x)
  PROVE  SlotOK(Web!ResetW(x)) /\ Web!ResetW(x).woffset = 0
<1> DEFINE r == Web!ResetW(x)
<1>1. fileLen \in Nat /\ T \in Nat \ {0} BY LengthFacts
<1>2. (IF x.fileOpen THEN 0 ELSE x.wfile_offset) = 0 BY DEF SlotOK
<1>3. r = [wbuffer |-> x.wbuffer, wlength |-> 0, wstatus |-> 0, woffset |-> 0,
           wtotallength |-> 0, fileOpen |-> FALSE, wfile_offset |-> 0]
  <2>1. r = [Web!FreshSlot EXCEPT !.wbuffer = x.wbuffer, !.wfile_offset = 0]
    BY <1>2 DEF Web!ResetW
  <2> QED BY ONLY <2>1, Zenon DEF Web!FreshSlot
<1>4. x.wbuffer \in Seq(Nat) /\ Len(x.wbuffer) \in Nat BY DEF SlotOK, SlotSet
<1> HIDE DEF r
<1>5. 0 \in 0..T /\ 0 \in 0..fileLen /\ 0 <= BUFFER_LENGTH BY <1>1, LengthFacts
<1>6. r \in SlotSet BY <1>3, <1>4, <1>5 DEF SlotSet
<1>7. SlotOK(r) BY <1>3, <1>4, <1>5, <1>6 DEF SlotOK
<1> QED BY <1>3, <1>7 DEF r

LEMMA FreshFacts == ASSUME fileLen \in FileLens PROVE SlotOK(Web!FreshSlot)
<1>1. fileLen \in Nat /\ T \in Nat \ {0} /\ BUFFER_LENGTH \in Nat BY LengthFacts
<1>2. << >> \in Seq(Nat) /\ Len(<< >>) = 0 OBVIOUS
<1>3. Web!FreshSlot \in SlotSet BY <1>1, <1>2 DEF SlotSet, Web!FreshSlot
<1> QED BY <1>1, <1>2, <1>3 DEF SlotOK, Web!FreshSlot

LEMMA WebInitInv == ASSUME Web!Init PROVE WebInv
<1>1. fileLen \in FileLens BY DEF Web!Init
<1>2. \A fd \in WebFd : SlotOK(conns[fd]) BY <1>1, FreshFacts DEF Web!Init
<1>3. << >> \in Seq(Nat) OBVIOUS
<1>4. WebTypes BY <1>1, <1>2, <1>3 DEF WebTypes, Web!Init
<1> QED BY <1>4 DEF WebInv, Web!Init

LEMMA WebRequestInv ==
  ASSUME WebInv, NEW fd \in WebFd, Web!Request(fd) \/ Web!Hangup(fd)
  PROVE  WebInv'
<1>1. /\ UNCHANGED <<fileLen, conns, mode, wire, tainted>>
      /\ peer' \in [WebFd -> {"open", "shut", "reset", "broken"}]
  BY DEF Web!Request, Web!Hangup, WebInv, WebTypes
<1>2. WebTypes' BY <1>1 DEF WebInv, WebTypes, SlotOK, SlotSet, T
<1> QED BY <1>1, <1>2 DEF WebInv, Exact, T

LEMMA WebListenInv == ASSUME WebInv, NEW fd \in WebFd, Web!Listen(fd) PROVE WebInv'
<1>1. UNCHANGED <<fileLen, conns>> BY DEF Web!Listen
<1>2. T' = T /\ T \in Nat \ {0} BY <1>1, LengthFacts DEF T, WebInv, WebTypes
<1>3. << >> \in Seq(Nat) OBVIOUS
<1>4. WebTypes'
  <2>1. (\A g \in WebFd : SlotOK(conns[g]))' BY <1>1, <1>2 DEF WebInv, WebTypes, SlotOK, SlotSet
  <2>2. (~Web!Clean(conns[fd])) \in BOOLEAN OBVIOUS
  <2> QED BY <1>1, <2>1, <2>2, <1>3 DEF WebInv, WebTypes, Web!Listen
<1>5. ASSUME NEW g \in WebFd, mode'[g] # "closed", ~tainted'[g] PROVE Exact(g)'
  <2>1. CASE g # fd
    <3>1. mode'[g] = mode[g] /\ wire'[g] = wire[g] /\ tainted'[g] = tainted[g]
      BY <2>1 DEF Web!Listen, WebInv, WebTypes
    <3> QED BY <1>1, <1>2, <1>5, <3>1 DEF WebInv, Exact
  <2>2. CASE g = fd
    <3>1. wire'[g] = << >> /\ tainted'[g] = ~Web!Clean(conns[g])
      BY <2>2 DEF Web!Listen, WebInv, WebTypes
    <3>2. Web!Clean(conns[g]) BY <1>5, <3>1
    <3>3. conns'[g].woffset = 0
      <4>1. conns[g] \in SlotSet BY DEF WebInv, WebTypes, SlotOK
      <4>2. [conns[g] EXCEPT !.wbuffer = << >>].woffset = conns[g].woffset BY <4>1 DEF SlotSet
      <4> QED BY <1>1, <3>2, <4>2 DEF Web!Clean, Web!FreshSlot
    <3>4. Len(wire'[g]) = 0 BY <3>1
    <3> QED BY <3>3, <3>4, <1>2 DEF Exact
  <2> QED BY <2>1, <2>2
<1> QED BY <1>4, <1>5 DEF WebInv

LEMMA WebReadInv == ASSUME WebInv, NEW fd \in WebFd, Web!Read(fd) PROVE WebInv'
<1>1. UNCHANGED <<fileLen, peer, wire, tainted>> BY DEF Web!Read
<1>2. T' = T /\ fileLen \in FileLens BY <1>1 DEF T, WebInv, WebTypes
<1>3. mode' \in [WebFd -> {"closed", "recv", "send"}] BY DEF Web!Read, WebInv, WebTypes
<1>4. SlotOK(conns[fd]) BY DEF WebInv, WebTypes
<1> DEFINE q == Web!Requested(conns[fd])
<1>5. SlotOK(q) /\ q.woffset = conns[fd].woffset
  <2>1. BUFFER_LENGTH \in Nat BY <1>2, LengthFacts
  <2>2. conns[fd] \in SlotSet BY <1>4 DEF SlotOK
  <2>3. /\ q \in SlotSet /\ q.wlength = 0 /\ q.woffset = conns[fd].woffset
        /\ q.wtotallength = conns[fd].wtotallength /\ q.fileOpen = conns[fd].fileOpen
        /\ q.wfile_offset = conns[fd].wfile_offset /\ q.wbuffer = conns[fd].wbuffer
    BY <2>2 DEF Web!Requested, SlotSet
  <2> HIDE DEF q
  <2>4. Len(q.wbuffer) \in Nat BY <2>3 DEF SlotSet
  <2> QED BY <1>4, <2>1, <2>3, <2>4 DEF SlotOK
<1> HIDE DEF q
<1>6. \/ UNCHANGED conns /\ mode' = [mode EXCEPT ![fd] = "closed"]
      \/ conns' = [conns EXCEPT ![fd] = q] /\ mode[fd] = "recv" /\ mode' = [mode EXCEPT ![fd] = "send"]
  BY DEF Web!Read, q
<1>7. /\ conns' = [g \in WebFd |-> conns'[g]]
      /\ \A g \in WebFd : SlotOK(conns'[g]) /\ conns'[g].woffset = conns[g].woffset
      /\ \A g \in WebFd : mode'[g] # "closed" => mode[g] # "closed" /\ mode'[g] \in {mode[g], "send"}
  BY <1>5, <1>6 DEF WebInv, WebTypes
<1>8. WebTypes' BY <1>1, <1>2, <1>3, <1>7 DEF WebInv, WebTypes, SlotOK, SlotSet
<1> QED BY <1>1, <1>2, <1>7, <1>8 DEF WebInv, Exact

LEMMA ModSelf == ASSUME NEW t \in Nat \ {0} PROVE t % t = 0 /\ 0 % t = 0
OBVIOUS

LEMMA ModSmall == ASSUME NEW t \in Nat \ {0}, NEW o \in Nat, o < t PROVE o % t = o
OBVIOUS

LEMMA DivMod ==
  ASSUME NEW t \in Nat \ {0}, NEW q \in Int, NEW r \in 0..(t - 1)
  PROVE  (t * q + r) % t = r
OBVIOUS

\* Counting to the end of a response
LEMMA ModWhole ==
  ASSUME NEW a \in Nat, NEW t \in Nat \ {0}, NEW o \in Nat, NEW d \in Nat, d > 0,
         a % t = o % t, o + d = t
  PROVE  (a + d) % t = 0
<1>1. o < t /\ 0 <= o OBVIOUS
<1>2. o % t = o BY <1>1
<1> DEFINE q == a \div t
<1>3. q \in Int /\ a = t * q + o BY <1>2
<1>4. a + d = t * q + t BY <1>3
<1> HIDE DEF q
<1>5. a + d = t * (q + 1) + 0 BY <1>3, <1>4
<1>6. q + 1 \in Int /\ 0 \in 0..(t - 1) BY <1>3
<1>7. (t * (q + 1) + 0) % t = 0 BY <1>6, DivMod, Zenon
<1> QED BY <1>5, <1>7

\* The bytes that were there stay, the new ones continue the count.
LEMMA WireGrows ==
  ASSUME NEW t \in Nat \ {0}, NEW w \in Seq(Nat), NEW o \in Nat, NEW c \in Seq(Nat),
         \A i \in 1..Len(w) : w[i] = ((i - 1) % t) + 1,
         Len(w) % t = o % t, o + Len(c) <= t, Len(c) > 0,
         \A i \in 1..Len(c) : c[i] = o + i
  PROVE  /\ \A i \in 1..Len(w \o c) : (w \o c)[i] = ((i - 1) % t) + 1
         /\ Len(w \o c) % t = (o + Len(c)) % t
<1> DEFINE z == w \o c
           lw == Len(w)
           lc == Len(c)
<1>0. t \in Nat \ {0} /\ o \in Nat OBVIOUS
<1>1. lw \in Nat /\ lc \in Nat OBVIOUS
<1>2. /\ z \in Seq(Nat) /\ Len(z) = lw + lc
      /\ \A i \in 1..(lw + lc) : z[i] = IF i <= lw THEN w[i] ELSE c[i - lw]
  OBVIOUS
<1> HIDE DEF z, lw, lc
<1>3. lw % t = o % t /\ o + lc <= t /\ lc > 0 BY DEF lw, lc
<1>4. ASSUME NEW i \in 1..(lw + lc) PROVE z[i] = ((i - 1) % t) + 1
  <2>1. CASE i <= lw
    <3>1. i \in 1..lw BY <1>1, <2>1
    <3> QED BY <1>2, <2>1, <3>1 DEF lw
  <2>2. CASE i > lw
    <3> DEFINE d == i - lw - 1
    <3>1. d \in Nat /\ o + d < t /\ i - lw \in 1..lc /\ i - lw = d + 1 /\ lw + d = i - 1
      BY <1>1, <1>3, <2>2
    <3>2. z[i] = c[i - lw] BY <1>2, <2>2, <1>1
    <3>3. c[i - lw] = o + (d + 1) BY <3>1 DEF lc
    <3> HIDE DEF d
    <3>4. (lw + d) % t = o + d BY ModStep, <1>0, <1>1, <1>3, <3>1
    <3>5. o + (d + 1) = (o + d) + 1 BY <3>1
    <3> QED BY ONLY <3>1, <3>2, <3>3, <3>4, <3>5
  <2> QED BY <1>1, <2>1, <2>2
<1>5. (lw + lc) % t = (o + lc) % t
  <2>1. CASE o + lc < t
    <3>1. (lw + lc) % t = o + lc BY ModStep, <1>0, <1>1, <1>3, <2>1
    <3>2. o + lc \in Nat BY <1>1
    <3>3. (o + lc) % t = o + lc BY ONLY ModSmall, <1>0, <3>2, <2>1
    <3> QED BY <3>1, <3>3
  <2>2. CASE o + lc = t
    <3>1. (lw + lc) % t = 0 BY ONLY ModWhole, <1>0, <1>1, <1>3, <2>2
    <3>2. t % t = 0 BY ModSelf
    <3> QED BY <3>1, <3>2, <2>2
  <2> QED BY <2>1, <2>2, <1>1, <1>3
<1> QED BY <1>2, <1>4, <1>5 DEF z, lw, lc

LEMMA WebProgressInv == ASSUME WebInv, NEW fd \in WebFd, Web!Progress(fd) PROVE WebInv'
<1>1. PICK opened \in BOOLEAN :
        LET s == Web!HttpResponse(conns[fd], opened) IN
        /\ mode[fd] = "send" /\ ~Web!CopyOverrun(conns[fd])
        /\ \E n \in 1..Len(Web!Offer(s)) :
             LET t == Web!Sent(s, n) IN
             /\ wire' = [wire EXCEPT ![fd] = wire[fd] \o SubSeq(Web!Offer(s), 1, n)]
             /\ conns' = [conns EXCEPT ![fd] = IF Web!Finished(t) THEN Web!ResetW(t) ELSE t]
             /\ mode' = [mode EXCEPT ![fd] = IF Web!Finished(t) THEN "recv" ELSE mode[fd]]
        /\ tainted' = [tainted EXCEPT ![fd] =
                         tainted[fd] \/ (Web!ByFile(Web!Begun(conns[fd])) /\ ~opened)]
        /\ UNCHANGED <<fileLen, peer, requests, accepts, killed>>
  BY DEF Web!Progress
<1> DEFINE s == Web!HttpResponse(conns[fd], opened)
           spoils == Web!ByFile(Web!Begun(conns[fd])) /\ ~opened
<1>2. PICK n \in 1..Len(Web!Offer(s)) :
        LET t == Web!Sent(s, n) IN
        /\ wire' = [wire EXCEPT ![fd] = wire[fd] \o SubSeq(Web!Offer(s), 1, n)]
        /\ conns' = [conns EXCEPT ![fd] = IF Web!Finished(t) THEN Web!ResetW(t) ELSE t]
        /\ mode' = [mode EXCEPT ![fd] = IF Web!Finished(t) THEN "recv" ELSE mode[fd]]
  BY <1>1
<1> DEFINE t == Web!Sent(s, n)
           c == SubSeq(Web!Offer(s), 1, n)
           after == IF Web!Finished(t) THEN Web!ResetW(t) ELSE t
<1>3. fileLen \in FileLens /\ fileLen' = fileLen /\ SlotOK(conns[fd])
  BY <1>1 DEF WebInv, WebTypes
<1>4. T' = T /\ T \in Nat \ {0} BY <1>3, LengthFacts DEF T
<1>5. /\ SlotOK(s) /\ s.woffset = conns[fd].woffset /\ s.wtotallength = T
      /\ Web!Offer(s) \in Seq(Nat) /\ s.woffset + Len(Web!Offer(s)) <= T
      /\ ~spoils => \A i \in 1..Len(Web!Offer(s)) : Web!Offer(s)[i] = s.woffset + i
  BY <1>1, <1>3, ResponseFacts
<1>6. /\ wire' = [wire EXCEPT ![fd] = wire[fd] \o c] /\ conns' = [conns EXCEPT ![fd] = after]
      /\ mode' = [mode EXCEPT ![fd] = IF Web!Finished(t) THEN "recv" ELSE "send"]
      /\ tainted' = [tainted EXCEPT ![fd] = tainted[fd] \/ spoils]
      /\ mode[fd] = "send"
  BY <1>1, <1>2
<1> HIDE DEF s, spoils
<1>7. /\ s.woffset \in Nat /\ n \in Nat /\ n > 0 /\ n <= Len(Web!Offer(s)) /\ s.woffset + n <= T
  <2>1. s.woffset \in Nat BY <1>4, <1>5 DEF SlotOK, SlotSet
  <2> DEFINE m == Len(Web!Offer(s))
  <2>2. m \in Nat /\ n \in 1..m /\ s.woffset + m <= T BY <1>2, <1>5
  <2> HIDE DEF m
  <2>3. n \in Nat /\ n > 0 /\ n <= m /\ s.woffset + n <= T BY <2>1, <2>2, <1>4
  <2> QED BY <2>1, <2>3 DEF m
<1>8. SlotOK(t) /\ t.woffset = s.woffset + n /\ t.wtotallength = T
  BY <1>3, <1>5, <1>7, SentFacts
<1>9. /\ c \in Seq(Nat) /\ Len(c) = n /\ \A i \in 1..n : c[i] = Web!Offer(s)[i]
  BY <1>5, <1>7
<1> HIDE DEF t, c
<1>10. /\ SlotOK(after)
       /\ Web!Finished(t) => after.woffset = 0 /\ t.woffset = T
       /\ ~Web!Finished(t) => after.woffset = t.woffset
  BY <1>3, <1>8, ResetFacts DEF Web!Finished
<1> HIDE DEF after
<1>11. WebTypes'
  <2>1. wire[fd] \o c \in Seq(Nat) BY <1>9, ConcatProperties DEF WebInv, WebTypes
  <2>2. wire' \in [WebFd -> Seq(Nat)] BY <2>1, <1>6 DEF WebInv, WebTypes
  <2>3. tainted' \in [WebFd -> BOOLEAN] BY <1>6, Zenon DEF WebInv, WebTypes, spoils
  <2>4. mode' \in [WebFd -> {"closed", "recv", "send"}] BY <1>6 DEF WebInv, WebTypes
  <2>5. conns' = [g \in WebFd |-> conns'[g]] /\ \A g \in WebFd : SlotOK(conns'[g])
    BY <1>6, <1>10 DEF WebInv, WebTypes
  <2>6. (\A g \in WebFd : SlotOK(conns[g]))' BY <2>5, <1>3, <1>4 DEF SlotOK, SlotSet
  <2>7. peer' = peer BY <1>1
  <2> QED BY <2>2, <2>3, <2>4, <2>5, <2>6, <2>7, <1>3 DEF WebInv, WebTypes
<1>12. ASSUME NEW g \in WebFd, mode'[g] # "closed", ~tainted'[g] PROVE Exact(g)'
  <2>1. CASE g # fd
    <3>1. /\ mode'[g] = mode[g] /\ wire'[g] = wire[g] /\ tainted'[g] = tainted[g]
          /\ conns'[g] = conns[g]
      BY <2>1, <1>6 DEF WebInv, WebTypes
    <3> QED BY <1>4, <1>12, <3>1 DEF WebInv, Exact
  <2>2. CASE g = fd
    <3>1. tainted'[g] = (tainted[g] \/ spoils) BY <2>2, <1>6, Zenon DEF WebInv, WebTypes
    <3>2. ~tainted[g] /\ ~spoils BY <3>1, <1>12
    <3>3. /\ \A i \in 1..Len(wire[g]) : wire[g][i] = ((i - 1) % T) + 1
          /\ Len(wire[g]) % T = s.woffset % T /\ wire[g] \in Seq(Nat)
      BY <2>2, <3>2, <1>5, <1>6 DEF WebInv, WebTypes, Exact
    <3>4. \A i \in 1..Len(c) : c[i] = s.woffset + i
      <4>1. \A i \in 1..n : i \in 1..Len(Web!Offer(s))
        <5> DEFINE m == Len(Web!Offer(s))
        <5>1. m \in Nat /\ n <= m BY <1>5, <1>7
        <5> HIDE DEF m
        <5>2. \A i \in 1..n : i \in 1..m BY <5>1, <1>7
        <5> QED BY <5>2 DEF m
      <4> QED BY <4>1, <3>2, <1>5, <1>9
    <3>5. /\ wire'[g] = wire[g] \o c /\ conns'[g] = after
          /\ mode'[g] = IF Web!Finished(t) THEN "recv" ELSE "send"
      BY <2>2, <1>6 DEF WebInv, WebTypes
    <3>6. /\ \A i \in 1..Len(wire'[g]) : wire'[g][i] = ((i - 1) % T) + 1
          /\ Len(wire'[g]) % T = (s.woffset + n) % T
      <4> DEFINE o == s.woffset
                 w == wire[g]
                 tt == T
      <4>1. /\ tt \in Nat \ {0} /\ w \in Seq(Nat) /\ o \in Nat /\ o + Len(c) <= tt /\ Len(c) > 0
            /\ Len(w) % tt = o % tt /\ \A i \in 1..Len(w) : w[i] = ((i - 1) % tt) + 1
            /\ \A i \in 1..Len(c) : c[i] = o + i
        BY <1>4, <3>3, <3>4, <1>7, <1>9
      <4> HIDE DEF o, w, tt
      <4>2. /\ \A i \in 1..Len(w \o c) : (w \o c)[i] = ((i - 1) % tt) + 1
            /\ Len(w \o c) % tt = (o + Len(c)) % tt
        BY <4>1, <1>9, WireGrows
      <4> QED BY <4>2, <3>5, <1>9 DEF o, w, tt
    <3>7. CASE Web!Finished(t)
      <4>1. s.woffset + n = T /\ after.woffset = 0 BY <3>7, <1>8, <1>10
      <4>2. T % T = 0 % T BY <1>4, ModSelf
      <4> QED BY <4>1, <4>2, <3>5, <3>6, <1>4 DEF Exact
    <3>8. CASE ~Web!Finished(t)
      BY <3>8, <3>5, <3>6, <1>4, <1>8, <1>10 DEF Exact
    <3> QED BY <3>7, <3>8
  <2> QED BY <2>1, <2>2
<1> QED BY <1>11, <1>12 DEF WebInv

LEMMA WebNoProgressInv == ASSUME WebInv, NEW fd \in WebFd, Web!NoProgress(fd) PROVE WebInv'
<1>1. CASE UNCHANGED <<conns, mode, tainted>>
  <2>1. UNCHANGED <<fileLen, peer, wire>> BY DEF Web!NoProgress
  <2>2. WebTypes' BY <1>1, <2>1 DEF WebInv, WebTypes, SlotOK, SlotSet, T
  <2> QED BY <1>1, <2>1, <2>2 DEF WebInv, Exact, T
<1>2. ASSUME NEW opened \in BOOLEAN, ~Web!CopyOverrun(conns[fd]),
             conns' = [conns EXCEPT ![fd] = Web!HttpResponse(conns[fd], opened)],
             tainted' = [tainted EXCEPT ![fd] =
                           tainted[fd] \/ (Web!ByFile(Web!Begun(conns[fd])) /\ ~opened)],
             mode' \in {mode, [mode EXCEPT ![fd] = "closed"]}
      PROVE  WebInv'
  <2> DEFINE s == Web!HttpResponse(conns[fd], opened)
             spoils == Web!ByFile(Web!Begun(conns[fd])) /\ ~opened
  <2>1. UNCHANGED <<fileLen, peer, wire>> /\ mode[fd] = "send" BY DEF Web!NoProgress
  <2>2. fileLen \in FileLens /\ SlotOK(conns[fd]) BY DEF WebInv, WebTypes
  <2>3. T' = T BY <2>1 DEF T
  <2>4. SlotOK(s) /\ s.woffset = conns[fd].woffset BY <1>2, <2>2, ResponseFacts
  <2>5. conns' = [conns EXCEPT ![fd] = s] BY <1>2
  <2>6. tainted' = [tainted EXCEPT ![fd] = tainted[fd] \/ spoils] BY <1>2
  <2> HIDE DEF s, spoils
  <2>7. /\ conns' = [g \in WebFd |-> conns'[g]]
        /\ \A g \in WebFd : SlotOK(conns'[g]) /\ conns'[g].woffset = conns[g].woffset
    BY <2>4, <2>5 DEF WebInv, WebTypes
  <2>8. tainted' \in [WebFd -> BOOLEAN] /\ \A g \in WebFd : tainted[g] => tainted'[g]
    <3>1. tainted \in [WebFd -> BOOLEAN] BY DEF WebInv, WebTypes
    <3>2. (tainted[fd] \/ spoils) \in BOOLEAN OBVIOUS
    <3> QED BY <3>1, <3>2, <2>6, Zenon
  <2>9. /\ mode' \in [WebFd -> {"closed", "recv", "send"}]
        /\ \A g \in WebFd : mode'[g] # "closed" => mode'[g] = mode[g]
    BY <1>2 DEF WebInv, WebTypes
  <2>10. WebTypes' BY <2>1, <2>2, <2>3, <2>7, <2>8, <2>9 DEF WebInv, WebTypes, SlotOK, SlotSet
  <2> QED BY <2>1, <2>3, <2>7, <2>8, <2>9, <2>10 DEF WebInv, Exact
<1> QED BY <1>1, <1>2 DEF Web!NoProgress

LEMMA WebKept == ASSUME WebInv, UNCHANGED webVars PROVE WebInv'
BY DEF webVars, WebInv, WebTypes, SlotOK, SlotSet, Exact, T

LEMMA WebStep == ASSUME WebInv, Web!Next PROVE WebInv'
BY WebRequestInv, WebListenInv, WebReadInv, WebProgressInv, WebNoProgressInv DEF Web!Next

LEMMA WebIsTyped == ASSUME WebInv PROVE Web!TypeOK
<1>1. fileLen \in FileLens /\ T = Web!Total BY LengthFacts DEF WebInv, WebTypes
<1>2. \A fd \in WebFd : conns[fd] \in SlotSet BY DEF WebInv, WebTypes, SlotOK
<1> QED BY <1>1, <1>2 DEF Web!TypeOK, WebInv, WebTypes, SlotSet

LEMMA WebIsExact == ASSUME WebInv PROVE Web!ResponseExact
<1>1. T \in Nat \ {0} /\ T = Web!Total BY LengthFacts DEF WebInv, WebTypes
<1>2. 0 % T = 0 BY <1>1
<1> QED BY <1>1, <1>2 DEF Web!ResponseExact, WebInv, Exact

-----------------------------------------------------------------------------
(* The TCP servers *)

SockSet == [open : BOOLEAN, unread : 0..MaxPieces, sent : 0..MaxPieces, fin : BOOLEAN]

\* A descriptor in use, or one that is free again.
SockOK(r) == r \in SockSet /\ r.unread <= r.sent /\ (r.open \/ r = Tcp!Closed)

\* The backlog and the open descriptors together never outgrow the descriptors there are.
SockInv ==
  /\ sock = [fd \in TcpFd |-> sock[fd]] /\ \A fd \in TcpFd : SockOK(sock[fd])
  /\ backlog \in Nat /\ clients \in 0..MaxClients /\ backlog <= clients
  /\ backlog + Cardinality(Tcp!Open) <= Cardinality(TcpFd)

TcpTypes ==
  /\ server \in {"select", "poll", "epoll", "epoll_et"} /\ slipped \in BOOLEAN
  /\ watched \subseteq TcpFd /\ edges \subseteq watched
  /\ pfds \in [TcpFd -> [fd : TcpFd \cup {0}, revents : BOOLEAN]]
  /\ nfds \in Nat /\ 1..nfds \subseteq TcpFd

\* select and epoll: what was reported is still open when its turn comes, and what a
\* blocking server was told to read is still there.
LoopInv == server # "poll" =>
  /\ nfds = 0 /\ watched = Tcp!Open /\ ready \subseteq Tcp!Open \cup {0}
  /\ 0 \in ready => backlog > 0
  /\ server # "epoll_et" => \A fd \in ready \ {0} : Tcp!Readable(fd)

\* The array while it is intact: it lists the open descriptors, each one once.
ArrayInv ==
  /\ {pfds[i].fd : i \in 1..nfds} = Tcp!Open /\ Cardinality(Tcp!Open) = nfds
  /\ \A i, j \in 1..nfds : i # j => pfds[i].fd # pfds[j].fd
  /\ \A i \in ready : pfds[i].revents => Tcp!Readable(pfds[i].fd)

PollInv == server = "poll" =>
  /\ ready \subseteq 1..nfds /\ \A i \in 1..nfds : pfds[i].fd \in TcpFd
  /\ ~slipped => ArrayInv

TcpInv == SockInv /\ TcpTypes /\ LoopInv /\ PollInv

LEMMA LeastNat == ASSUME NEW S \in SUBSET Nat, S # {} PROVE \E x \in S : \A y \in S : x <= y
<1>1. PICK x \in S : \A y \in S : ~(<<y, x>> \in OpToRel(<, Nat))
  BY WFMin, NatLessThanWellFounded
<1>2. ASSUME NEW y \in S PROVE x <= y
  <2>1. ~(<<y, x>> \in OpToRel(<, Nat)) BY <1>1
  <2>2. y \in Nat /\ x \in Nat OBVIOUS
  <2>3. ~(y < x) BY <2>1, <2>2 DEF OpToRel
  <2> QED BY <2>3, <2>2
<1> QED BY <1>2

LEMMA MinType == ASSUME NEW S \in SUBSET Nat, S # {} PROVE Tcp!Min(S) \in S
BY LeastNat DEF Tcp!Min

LEMMA SameCardinality == ASSUME NEW S PROVE Tcp!Cardinality(S) = Cardinality(S)
BY DEF Tcp!Cardinality, Cardinality

LEMMA FdFacts ==
  /\ IsFiniteSet(TcpFd) /\ Cardinality(TcpFd) \in Nat /\ 0 \notin TcpFd /\ TcpFd \subseteq Nat
  /\ MaxPieces \in Nat /\ MaxPieces > 0 /\ MaxClients \in Nat
BY TcpAssumption, FS_CardinalityType

LEMMA OpenFacts ==
  /\ Tcp!Open \subseteq TcpFd /\ IsFiniteSet(Tcp!Open) /\ Cardinality(Tcp!Open) \in Nat
  /\ \A fd : /\ Cardinality(Tcp!Open \cup {fd}) =
                  IF fd \in Tcp!Open THEN Cardinality(Tcp!Open) ELSE Cardinality(Tcp!Open) + 1
             /\ Cardinality(Tcp!Open \ {fd}) =
                  IF fd \in Tcp!Open THEN Cardinality(Tcp!Open) - 1 ELSE Cardinality(Tcp!Open)
<1>1. Tcp!Open \subseteq TcpFd BY DEF Tcp!Open
<1>2. IsFiniteSet(Tcp!Open) BY <1>1, FdFacts, FS_Subset
<1>3. Cardinality(Tcp!Open) \in Nat BY <1>2, FS_CardinalityType
<1> QED BY <1>1, <1>2, <1>3, FS_AddElement, FS_RemoveElement

\* There is a descriptor for every connection in the backlog.
LEMMA FreeFd ==
  ASSUME SockInv, backlog > 0
  PROVE  Tcp!Min(TcpFd \ Tcp!Open) \in TcpFd \ Tcp!Open
<1> DEFINE m == Cardinality(Tcp!Open)
           n == Cardinality(TcpFd)
<1>1. m \in Nat /\ n \in Nat /\ backlog \in Nat /\ backlog + m <= n
  BY FdFacts, OpenFacts DEF SockInv
<1> HIDE DEF m, n
<1>2. m # n BY <1>1
<1>3. Tcp!Open # TcpFd BY <1>2 DEF m, n
<1>4. TcpFd \ Tcp!Open # {} BY <1>3, OpenFacts
<1>5. TcpFd \ Tcp!Open \in SUBSET Nat BY FdFacts
<1> QED BY <1>4, <1>5, MinType

\* One descriptor changes.
LEMMA SockChanges ==
  ASSUME SockInv, NEW fd \in TcpFd, NEW r, SockOK(r), sock' = [sock EXCEPT ![fd] = r]
  PROVE  /\ sock' = [g \in TcpFd |-> sock'[g]] /\ \A g \in TcpFd : SockOK(sock'[g])
         /\ sock'[fd] = r /\ \A g \in TcpFd : g # fd => sock'[g] = sock[g]
         /\ r.open => Tcp!Open' = Tcp!Open \cup {fd}
         /\ ~r.open => Tcp!Open' = Tcp!Open \ {fd}
<1>1. /\ sock' = [g \in TcpFd |-> sock'[g]] /\ \A g \in TcpFd : SockOK(sock'[g])
      /\ sock'[fd] = r /\ \A g \in TcpFd : g # fd => sock'[g] = sock[g]
  BY DEF SockInv
<1>2. /\ r.open => Tcp!Open' = Tcp!Open \cup {fd}
      /\ ~r.open => Tcp!Open' = Tcp!Open \ {fd}
  BY <1>1 DEF Tcp!Open
<1> QED BY <1>1, <1>2

LEMMA ClosedFacts ==
  /\ SockOK(Tcp!Closed) /\ ~Tcp!Closed.open /\ ~Tcp!Closed.fin /\ Tcp!Closed.unread = 0
<1>1. 0 \in 0..MaxPieces BY FdFacts
<1> QED BY <1>1 DEF SockOK, SockSet, Tcp!Closed

LEMMA SockKept ==
  ASSUME SockInv, UNCHANGED <<backlog, clients>>, Tcp!Open' \subseteq Tcp!Open,
         sock' = [g \in TcpFd |-> sock'[g]], \A g \in TcpFd : SockOK(sock'[g])
  PROVE  SockInv'
<1>1. (\A g \in TcpFd : SockOK(sock[g]))' BY DEF SockOK, SockSet, Tcp!Closed
<1> DEFINE m == Cardinality(Tcp!Open)
           k == Cardinality(Tcp!Open')
<1>2. m \in Nat /\ IsFiniteSet(Tcp!Open) BY OpenFacts
<1>3. k \in Nat /\ k <= m BY <1>2, FS_Subset, FS_CardinalityType
<1>4. backlog + m <= Cardinality(TcpFd) /\ backlog \in Nat /\ Cardinality(TcpFd) \in Nat
  BY FdFacts DEF SockInv
<1> HIDE DEF m, k
<1>5. backlog + k <= Cardinality(TcpFd) BY <1>2, <1>3, <1>4
<1> QED BY <1>1, <1>5 DEF SockInv, k

LEMMA TcpInitInv == ASSUME Tcp!Init PROVE TcpInv
<1>1. \A fd \in TcpFd : SockOK(sock[fd]) /\ ~sock[fd].open BY ClosedFacts DEF Tcp!Init
<1>2. Tcp!Open = {} BY <1>1 DEF Tcp!Open
<1>3. Cardinality(Tcp!Open) = 0 BY <1>2, FS_EmptySet
<1>4. SockInv
  <2>1. sock = [fd \in TcpFd |-> sock[fd]] BY DEF Tcp!Init
  <2>2. backlog = 0 /\ clients = 0 BY DEF Tcp!Init
  <2> QED BY <1>1, <1>3, <2>1, <2>2, FdFacts DEF SockInv
<1>5. 1..nfds = {} /\ nfds = 0 BY DEF Tcp!Init
<1>6. TcpTypes
  <2>1. pfds \in [TcpFd -> [fd : TcpFd \cup {0}, revents : BOOLEAN]]
    BY DEF Tcp!Init, Tcp!Unused, Tcp!Listener
  <2>2. slipped \in BOOLEAN BY Zenon DEF Tcp!Init
  <2>3. watched = {} /\ edges = {} /\ server \in {"select", "poll", "epoll", "epoll_et"}
    BY DEF Tcp!Init
  <2> QED BY <1>5, <2>1, <2>2, <2>3 DEF TcpTypes
<1>7. LoopInv BY <1>2, <1>5 DEF LoopInv, Tcp!Init
<1>8. PollInv BY <1>2, <1>3, <1>5 DEF PollInv, ArrayInv, Tcp!Init
<1> QED BY <1>4, <1>6, <1>7, <1>8 DEF TcpInv

LEMMA TcpKept == ASSUME TcpInv, UNCHANGED tcpVars PROVE TcpInv'
<1>1. /\ UNCHANGED <<server, backlog, clients, sock, watched, pfds, nfds, ready, edges, slipped>>
      /\ Tcp!Open' = Tcp!Open
  BY DEF tcpVars, Tcp!Open
<1>2. SockInv' BY <1>1 DEF TcpInv, SockInv, SockOK, SockSet, Tcp!Closed
<1>3. TcpTypes' BY <1>1 DEF TcpInv, TcpTypes
<1>4. LoopInv' BY <1>1 DEF TcpInv, LoopInv, Tcp!Readable
<1>5. PollInv' BY <1>1 DEF TcpInv, PollInv, ArrayInv, Tcp!Readable
<1> QED BY <1>2, <1>3, <1>4, <1>5 DEF TcpInv

LEMMA TcpConnectInv == ASSUME TcpInv, Tcp!Connect PROVE TcpInv'
<1>1. /\ UNCHANGED <<server, sock, watched, pfds, nfds, ready, edges, slipped>>
      /\ Tcp!Open' = Tcp!Open
  BY DEF Tcp!Connect, Tcp!Open
<1>2. SockInv'
  <2> DEFINE m == Cardinality(Tcp!Open)
             n == Cardinality(TcpFd)
  <2>1. /\ backlog + m < n /\ backlog' = backlog + 1 /\ clients' = clients + 1
        /\ clients < MaxClients
    BY SameCardinality DEF Tcp!Connect
  <2>2. /\ m \in Nat /\ n \in Nat /\ MaxClients \in Nat /\ backlog \in Nat
        /\ clients \in 0..MaxClients /\ backlog <= clients
    BY FdFacts, OpenFacts DEF TcpInv, SockInv
  <2> HIDE DEF m, n
  <2>3. /\ backlog' \in Nat /\ clients' \in 0..MaxClients /\ backlog' <= clients'
        /\ backlog' + m <= n
    BY <2>1, <2>2
  <2> QED BY <1>1, <2>3 DEF TcpInv, SockInv, SockOK, SockSet, Tcp!Closed, m, n
<1>3. TcpTypes' BY <1>1 DEF TcpInv, TcpTypes
<1>4. LoopInv'
  <2>1. backlog' > 0 BY DEF Tcp!Connect, TcpInv, SockInv
  <2> QED BY <1>1, <2>1 DEF TcpInv, LoopInv, Tcp!Readable
<1>5. PollInv' BY <1>1 DEF TcpInv, PollInv, ArrayInv, Tcp!Readable
<1> QED BY <1>2, <1>3, <1>4, <1>5 DEF TcpInv

\* What the clients do: nothing is closed and nothing becomes unreadable.
LEMMA TcpFullerInv ==
  ASSUME TcpInv, NEW fd \in TcpFd, NEW r, SockOK(r), r.open, r.unread > 0 \/ r.fin,
         sock[fd].open, sock' = [sock EXCEPT ![fd] = r],
         edges' = IF fd \in watched THEN edges \cup {fd} ELSE edges,
         UNCHANGED <<server, backlog, clients, watched, pfds, nfds, ready, slipped>>
  PROVE  TcpInv'
<1>1. /\ sock' = [g \in TcpFd |-> sock'[g]] /\ \A g \in TcpFd : SockOK(sock'[g])
      /\ sock'[fd] = r /\ \A g \in TcpFd : g # fd => sock'[g] = sock[g]
      /\ Tcp!Open' = Tcp!Open \cup {fd}
  BY SockChanges DEF TcpInv
<1>2. Tcp!Open' = Tcp!Open /\ Tcp!Open \subseteq TcpFd BY <1>1 DEF Tcp!Open
<1>3. \A g \in TcpFd : Tcp!Readable(g) => Tcp!Readable(g)' BY <1>1 DEF Tcp!Readable
<1>4. SockInv' BY <1>1, <1>2, SockKept DEF TcpInv
<1>5. TcpTypes' BY DEF TcpInv, TcpTypes
<1>6. LoopInv' BY <1>2, <1>3 DEF TcpInv, LoopInv
<1>7. PollInv'
  <2>1. ASSUME server = "poll", ~slipped, ArrayInv PROVE ArrayInv'
    <3>1. \A i \in ready : pfds[i].fd \in TcpFd BY <2>1 DEF TcpInv, PollInv
    <3>2. \A i \in ready : pfds[i].revents => Tcp!Readable(pfds[i].fd)' BY <3>1, <2>1, <1>3 DEF ArrayInv
    <3>3. \A i \in ready : pfds'[i].revents => Tcp!Readable(pfds[i].fd)' BY <3>2
    <3> QED BY <3>3, <2>1, <1>2 DEF ArrayInv, Tcp!Readable
  <2> QED BY <2>1 DEF TcpInv, PollInv
<1> QED BY <1>4, <1>5, <1>6, <1>7 DEF TcpInv

LEMMA TcpSendInv == ASSUME TcpInv, NEW fd \in TcpFd, Tcp!Send(fd) PROVE TcpInv'
<1> DEFINE x == sock[fd]
           r == [x EXCEPT !.unread = x.unread + 1, !.sent = x.sent + 1]
<1>1. SockOK(x) /\ x.open /\ x.sent < MaxPieces BY DEF TcpInv, SockInv, Tcp!Send
<1>2. /\ x \in SockSet /\ x.unread \in Nat /\ x.sent \in Nat /\ x.unread <= x.sent
      /\ x.sent + 1 \in 0..MaxPieces /\ x.unread + 1 \in 0..MaxPieces
  <2>1. x \in SockSet /\ x.unread \in 0..MaxPieces /\ x.sent \in 0..MaxPieces /\ x.unread <= x.sent
    BY <1>1 DEF SockOK, SockSet
  <2> QED BY <2>1, <1>1, FdFacts
<1>3. sock' = [sock EXCEPT ![fd] = r]
  <2>1. sock' = [sock EXCEPT ![fd].unread = @ + 1, ![fd].sent = @ + 1] BY DEF Tcp!Send
  <2>2. sock = [g \in TcpFd |-> sock[g]] BY DEF TcpInv, SockInv
  <2> QED BY <1>2, <2>1, <2>2 DEF SockSet
<1> HIDE DEF x
<1>4. /\ r \in SockSet /\ r.open = x.open /\ r.unread = x.unread + 1 /\ r.sent = x.sent + 1
  BY <1>2 DEF SockSet
<1> HIDE DEF r
<1>5. SockOK(r) /\ r.open /\ r.unread > 0 BY <1>1, <1>2, <1>4 DEF SockOK
<1> QED BY <1>1, <1>3, <1>5, TcpFullerInv DEF Tcp!Send, x

LEMMA TcpLeaveInv == ASSUME TcpInv, NEW fd \in TcpFd, Tcp!Leave(fd) PROVE TcpInv'
<1> DEFINE x == sock[fd]
           r == [x EXCEPT !.fin = TRUE]
<1>1. SockOK(x) /\ x.open BY DEF TcpInv, SockInv, Tcp!Leave
<1>2. x \in SockSet BY <1>1 DEF SockOK
<1>3. sock' = [sock EXCEPT ![fd] = r] BY DEF Tcp!Leave
<1> HIDE DEF x
<1>4. /\ r \in SockSet /\ r.open = x.open /\ r.unread = x.unread /\ r.sent = x.sent
      /\ r.fin = TRUE
  BY <1>2 DEF SockSet
<1> HIDE DEF r
<1>5. SockOK(r) /\ r.open /\ r.fin BY <1>1, <1>4 DEF SockOK
<1> QED BY <1>1, <1>3, <1>5, TcpFullerInv DEF Tcp!Leave, x

LEMMA TcpWaitInv == ASSUME TcpInv, Tcp!Wait PROVE TcpInv'
<1>1. /\ UNCHANGED <<server, backlog, clients, sock, watched, pfds, nfds, slipped>>
      /\ Tcp!Open' = Tcp!Open /\ server # "poll" /\ edges' = {}
      /\ ready' = Tcp!ListenerReady \cup Tcp!Reported
  BY DEF Tcp!Wait, Tcp!Open
<1>2. SockInv' BY <1>1 DEF TcpInv, SockInv, SockOK, SockSet, Tcp!Closed
<1>3. TcpTypes' BY <1>1 DEF TcpInv, TcpTypes
<1>4. watched = Tcp!Open /\ edges \subseteq watched /\ 0 \notin watched
  BY <1>1, FdFacts DEF TcpInv, LoopInv, TcpTypes
<1>5. /\ ready' \subseteq Tcp!Open \cup {0} /\ (0 \in ready' => backlog > 0)
      /\ server # "epoll_et" => \A fd \in ready' \ {0} : Tcp!Readable(fd)
  <2>1. Tcp!Reported \subseteq watched BY <1>4 DEF Tcp!Reported
  <2>2. server # "epoll_et" => \A fd \in Tcp!Reported : Tcp!Readable(fd) BY DEF Tcp!Reported
  <2>3. Tcp!ListenerReady \subseteq {0} /\ (0 \in Tcp!ListenerReady => backlog > 0)
    BY DEF Tcp!ListenerReady, Tcp!Listener
  <2> QED BY <1>1, <1>4, <2>1, <2>2, <2>3
<1>6. LoopInv' BY <1>1, <1>5 DEF TcpInv, LoopInv, Tcp!Readable
<1>7. PollInv' BY <1>1 DEF PollInv
<1> QED BY <1>2, <1>3, <1>6, <1>7 DEF TcpInv

LEMMA TcpHandleClientInv ==
  ASSUME TcpInv, NEW fd \in TcpFd, Tcp!HandleClient(fd) PROVE TcpInv'
<1> DEFINE x == sock[fd]
<1>1. /\ server # "poll" /\ fd \in ready /\ ready' = ready \ {fd}
      /\ UNCHANGED <<server, backlog, clients, pfds, nfds, slipped>>
  BY DEF Tcp!HandleClient, Tcp!Handles
<1>2. fd \in Tcp!Open /\ x.open /\ SockOK(x)
  BY <1>1, FdFacts DEF TcpInv, LoopInv, SockInv, Tcp!Open
<1>3. PICK r : /\ SockOK(r) /\ sock' = [sock EXCEPT ![fd] = r]
               /\ \/ r.open /\ UNCHANGED <<watched, edges>>
                  \/ ~r.open /\ watched' = watched \ {fd} /\ edges' = edges \ {fd}
  <2>1. CASE Tcp!Ends(fd)
    BY <2>1, ClosedFacts DEF Tcp!HandleClient, Tcp!Unwatch
  <2>2. CASE ~Tcp!Ends(fd)
    <3> DEFINE r == [x EXCEPT !.unread = Tcp!Left(fd)]
    <3>1. /\ x \in SockSet /\ x.unread \in 0..MaxPieces /\ x.sent \in 0..MaxPieces
          /\ x.unread <= x.sent
      BY <1>2 DEF SockOK, SockSet
    <3>2. Tcp!Left(fd) \in 0..MaxPieces /\ Tcp!Left(fd) <= x.unread
      BY <3>1, FdFacts DEF Tcp!Left
    <3>3. sock' = [sock EXCEPT ![fd] = r] /\ UNCHANGED <<watched, edges>>
      BY <2>2 DEF Tcp!HandleClient
    <3> HIDE DEF x
    <3>4. r \in SockSet /\ r.open = x.open /\ r.unread = Tcp!Left(fd) /\ r.sent = x.sent
      BY <3>1, <3>2 DEF SockSet
    <3>5. Tcp!Left(fd) <= x.sent BY <3>1, <3>2, FdFacts
    <3> HIDE DEF r
    <3>6. SockOK(r) /\ r.open BY <3>4, <3>5, <1>2 DEF SockOK
    <3> QED BY <3>3, <3>6
  <2> QED BY <2>1, <2>2
<1>4. /\ sock' = [g \in TcpFd |-> sock'[g]] /\ \A g \in TcpFd : SockOK(sock'[g])
      /\ \A g \in TcpFd : g # fd => sock'[g] = sock[g]
      /\ r.open => Tcp!Open' = Tcp!Open \cup {fd}
      /\ ~r.open => Tcp!Open' = Tcp!Open \ {fd}
  BY <1>3, SockChanges DEF TcpInv
<1>5. SockInv' BY <1>1, <1>2, <1>4, SockKept DEF TcpInv
<1>6. TcpTypes' BY <1>1, <1>3 DEF TcpInv, TcpTypes
<1>7. LoopInv'
  <2>1. watched' = Tcp!Open' BY <1>1, <1>2, <1>3, <1>4 DEF TcpInv, LoopInv
  <2>2. ready' \subseteq Tcp!Open' \cup {0} BY <1>1, <1>2, <1>4 DEF TcpInv, LoopInv
  <2>3. ready' \ {0} \subseteq TcpFd \ {fd} /\ ready' \subseteq ready
    BY <1>1, OpenFacts DEF TcpInv, LoopInv
  <2>4. \A g \in ready' \ {0} : sock'[g] = sock[g] BY <2>3, <1>4
  <2> QED BY <1>1, <2>1, <2>2, <2>3, <2>4 DEF TcpInv, LoopInv, Tcp!Readable
<1>8. PollInv' BY <1>1 DEF PollInv
<1> QED BY <1>5, <1>6, <1>7, <1>8 DEF TcpInv

\* A new descriptor: what one connection leaves in the backlog it takes of the free ones.
LEMMA SockAccepted ==
  ASSUME SockInv, backlog > 0, NEW fd \in TcpFd \ Tcp!Open, NEW r, SockOK(r), r.open,
         sock' = [sock EXCEPT ![fd] = r], backlog' = backlog - 1, clients' = clients
  PROVE  /\ SockInv' /\ Tcp!Open' = Tcp!Open \cup {fd}
         /\ \A g \in TcpFd : g # fd => sock'[g] = sock[g]
<1>3. /\ sock' = [g \in TcpFd |-> sock'[g]] /\ \A g \in TcpFd : SockOK(sock'[g])
      /\ \A g \in TcpFd : g # fd => sock'[g] = sock[g]
      /\ Tcp!Open' = Tcp!Open \cup {fd}
  BY SockChanges
<1> DEFINE m == Cardinality(Tcp!Open)
           k == Cardinality(TcpFd)
<1>4. Cardinality(Tcp!Open') = m + 1 BY <1>3, OpenFacts
<1>5. /\ m \in Nat /\ k \in Nat /\ backlog \in Nat /\ clients \in 0..MaxClients
      /\ backlog <= clients /\ backlog + m <= k
  BY FdFacts, OpenFacts DEF SockInv
<1> HIDE DEF m, k
<1>6. backlog' \in Nat /\ backlog' <= clients /\ backlog' + (m + 1) <= k BY <1>5, FdFacts
<1>7. (\A g \in TcpFd : SockOK(sock[g]))' BY <1>3 DEF SockOK, SockSet, Tcp!Closed
<1>8. SockInv' BY <1>3, <1>4, <1>5, <1>6, <1>7 DEF SockInv, k
<1> QED BY <1>3, <1>8

LEMMA NewSock ==
  ASSUME NEW n \in 0..1
  PROVE  /\ SockOK([Tcp!Closed EXCEPT !.open = TRUE, !.unread = n, !.sent = n])
         /\ [Tcp!Closed EXCEPT !.open = TRUE, !.unread = n, !.sent = n].open
         /\ SockOK([Tcp!Closed EXCEPT !.open = TRUE]) /\ [Tcp!Closed EXCEPT !.open = TRUE].open
<1>1. n \in 0..MaxPieces /\ n <= n /\ 0 \in 0..MaxPieces BY FdFacts
<1>2. Tcp!Closed \in SockSet /\ Tcp!Closed.unread = 0 /\ Tcp!Closed.sent = 0
  BY <1>1 DEF SockSet, Tcp!Closed
<1> DEFINE r == [Tcp!Closed EXCEPT !.open = TRUE, !.unread = n, !.sent = n]
           z == [Tcp!Closed EXCEPT !.open = TRUE]
<1>3. r \in SockSet /\ r.open = TRUE /\ r.unread = n /\ r.sent = n BY <1>1, <1>2 DEF SockSet
<1>4. z \in SockSet /\ z.open = TRUE /\ z.unread = 0 /\ z.sent = 0 BY <1>2 DEF SockSet
<1> HIDE DEF r, z
<1>5. SockOK(r) /\ r.open BY <1>1, <1>3 DEF SockOK
<1>6. SockOK(z) /\ z.open BY <1>4 DEF SockOK
<1> QED BY <1>5, <1>6 DEF r, z

LEMMA TcpAcceptInv == ASSUME TcpInv, Tcp!Accept PROVE TcpInv'
<1>1. /\ server # "poll" /\ backlog > 0 /\ backlog' = backlog - 1 /\ ready' = ready \ {0}
      /\ UNCHANGED <<server, clients, pfds, nfds, slipped>>
  BY DEF Tcp!Accept, Tcp!Handles, Tcp!Listener
<1>2. PICK fd \in TcpFd, n \in 0..1 :
        /\ fd = Tcp!Min(TcpFd \ Tcp!Open)
        /\ sock' = [sock EXCEPT ![fd] = [Tcp!Closed EXCEPT !.open = TRUE, !.unread = n, !.sent = n]]
        /\ watched' = watched \cup {fd}
        /\ edges' = IF n > 0 THEN edges \cup {fd} ELSE edges
  BY DEF Tcp!Accept
<1>3. fd \in TcpFd \ Tcp!Open BY <1>1, <1>2, FreeFd DEF TcpInv
<1>4. /\ SockInv' /\ Tcp!Open' = Tcp!Open \cup {fd}
      /\ \A g \in TcpFd : g # fd => sock'[g] = sock[g]
  <2> DEFINE r == [Tcp!Closed EXCEPT !.open = TRUE, !.unread = n, !.sent = n]
  <2>1. SockOK(r) /\ r.open BY NewSock
  <2>2. sock' = [sock EXCEPT ![fd] = r] BY <1>2
  <2> HIDE DEF r
  <2> QED BY <1>1, <1>3, <2>1, <2>2, SockAccepted DEF TcpInv
<1>5. TcpTypes' BY <1>1, <1>2 DEF TcpInv, TcpTypes
<1>6. LoopInv'
  <2>1. ASSUME NEW g \in ready \ {0} PROVE g \in Tcp!Open /\ g # fd /\ sock'[g] = sock[g]
    BY <1>1, <1>3, <1>4, OpenFacts DEF TcpInv, LoopInv
  <2> QED BY <1>1, <1>2, <1>4, <2>1 DEF TcpInv, LoopInv, Tcp!Readable
<1>7. PollInv' BY <1>1 DEF PollInv
<1> QED BY <1>4, <1>5, <1>6, <1>7 DEF TcpInv

Polled == [i \in TcpFd |-> [pfds[i] EXCEPT !.revents = Tcp!Revents(i)]]

EntrySet == [fd : TcpFd \cup {0}, revents : BOOLEAN]

LEMMA PolledFacts ==
  ASSUME TcpInv
  PROVE  /\ Polled \in [TcpFd -> EntrySet]
         /\ \A i \in TcpFd : Polled[i].fd = pfds[i].fd
         /\ \A i \in 1..nfds : Polled[i].revents => Tcp!Readable(pfds[i].fd)
<1>1. pfds \in [TcpFd -> EntrySet] /\ 1..nfds \subseteq TcpFd BY DEF TcpInv, TcpTypes, EntrySet
<1>2. ASSUME NEW i \in TcpFd PROVE Tcp!Revents(i) \in BOOLEAN
  <2>1. CASE i \in Tcp!InUse BY <2>1, Zenon DEF Tcp!Revents
  <2>2. CASE i \notin Tcp!InUse
    <3>1. pfds[i].revents \in BOOLEAN BY <1>1 DEF EntrySet
    <3> QED BY <2>2, <3>1, Zenon DEF Tcp!Revents
  <2> QED BY <2>1, <2>2
<1>3. ASSUME NEW i \in TcpFd
      PROVE  /\ Polled[i] \in EntrySet /\ Polled[i].fd = pfds[i].fd
             /\ Polled[i].revents = Tcp!Revents(i)
  <2>1. Polled[i] = [pfds[i] EXCEPT !.revents = Tcp!Revents(i)] BY DEF Polled
  <2>2. pfds[i] \in EntrySet BY <1>1
  <2> QED BY <2>1, <2>2, <1>2 DEF EntrySet
<1>4. Polled \in [TcpFd -> EntrySet] BY <1>3 DEF Polled
<1>5. ASSUME NEW i \in 1..nfds, Polled[i].revents PROVE Tcp!Readable(pfds[i].fd)
  <2>1. i \in TcpFd /\ i \in Tcp!InUse BY <1>1 DEF Tcp!InUse
  <2>2. Tcp!Revents(i) BY <1>3, <1>5, <2>1
  <2> QED BY <2>1, <2>2 DEF Tcp!Revents
<1> QED BY <1>3, <1>4, <1>5

LEMMA TcpPollWaitInv == ASSUME TcpInv, Tcp!PollWait PROVE TcpInv'
<1>1. /\ server = "poll" /\ ready = {} /\ ready' = 1..nfds'
      /\ UNCHANGED <<server, clients, watched, edges>>
  BY DEF Tcp!PollWait
<1>2. /\ Polled \in [TcpFd -> EntrySet] /\ \A i \in TcpFd : Polled[i].fd = pfds[i].fd
      /\ \A i \in 1..nfds : Polled[i].revents => Tcp!Readable(pfds[i].fd)
  BY PolledFacts
<1>3. /\ nfds \in Nat /\ 1..nfds \subseteq TcpFd /\ \A i \in 1..nfds : pfds[i].fd \in TcpFd
      /\ slipped \in BOOLEAN
  BY <1>1 DEF TcpInv, TcpTypes, PollInv
<1>4. LoopInv' BY <1>1 DEF LoopInv
<1>5. CASE backlog = 0 /\ pfds' = Polled /\ UNCHANGED <<sock, nfds, backlog, slipped>>
  <2>1. Tcp!Open' = Tcp!Open BY <1>5 DEF Tcp!Open
  <2>2. SockInv' BY <1>1, <1>5, <2>1 DEF TcpInv, SockInv, SockOK, SockSet, Tcp!Closed
  <2>3. TcpTypes' BY <1>1, <1>2, <1>5 DEF TcpInv, TcpTypes, EntrySet
  <2>4. ASSUME ~slipped PROVE ArrayInv'
    <3>1. ArrayInv BY <1>1, <2>4 DEF TcpInv, PollInv
    <3>2. \A i \in 1..nfds : pfds'[i].fd = pfds[i].fd BY <1>2, <1>3, <1>5
    <3>3. {pfds'[i].fd : i \in 1..nfds} = {pfds[i].fd : i \in 1..nfds} BY <3>2
    <3>4. \A i \in ready' : pfds'[i].revents => Tcp!Readable(pfds'[i].fd)
      BY <1>1, <1>2, <1>5, <3>2
    <3> QED BY <3>1, <3>2, <3>3, <3>4, <1>5, <2>1 DEF ArrayInv, Tcp!Readable
  <2>5. PollInv'
    <3>1. \A i \in 1..nfds' : pfds'[i].fd \in TcpFd BY <1>2, <1>3, <1>5
    <3>2. ready' \subseteq 1..nfds' BY <1>1
    <3>3. slipped' = slipped BY <1>5
    <3> QED BY <3>1, <3>2, <3>3, <2>4 DEF PollInv
  <2> QED BY <1>4, <2>2, <2>3, <2>5 DEF TcpInv
<1>6. CASE /\ backlog > 0 /\ nfds + 1 \in TcpFd
           /\ LET fd == Tcp!Min(TcpFd \ Tcp!Open) IN
              /\ sock' = [sock EXCEPT ![fd] = [Tcp!Closed EXCEPT !.open = TRUE]]
              /\ pfds' = [Polled EXCEPT ![nfds + 1].fd = fd]
              /\ slipped' = (slipped \/ Polled[nfds + 1].revents)
           /\ nfds' = nfds + 1 /\ backlog' = backlog - 1
  <2> DEFINE fd == Tcp!Min(TcpFd \ Tcp!Open)
             n == nfds + 1
  <2>1. fd \in TcpFd \ Tcp!Open BY <1>6, FreeFd DEF TcpInv
  <2>2. /\ sock' = [sock EXCEPT ![fd] = [Tcp!Closed EXCEPT !.open = TRUE]]
        /\ pfds' = [Polled EXCEPT ![n].fd = fd] /\ slipped' = (slipped \/ Polled[n].revents)
        /\ nfds' = n /\ backlog' = backlog - 1 /\ backlog > 0 /\ n \in TcpFd
    BY <1>6
  <2>3. n \in Nat /\ 1..n = (1..nfds) \cup {n} /\ n \notin 1..nfds BY <1>3
  <2> HIDE DEF fd, n
  <2>4. /\ SockInv' /\ Tcp!Open' = Tcp!Open \cup {fd}
        /\ \A g \in TcpFd : g # fd => sock'[g] = sock[g]
    <3> DEFINE r == [Tcp!Closed EXCEPT !.open = TRUE]
    <3>1. 0 \in 0..1 OBVIOUS
    <3>2. SockOK(r) /\ r.open BY <3>1, NewSock
    <3>3. clients' = clients /\ sock' = [sock EXCEPT ![fd] = r] BY <1>1, <2>2
    <3> HIDE DEF r
    <3> QED BY <2>1, <2>2, <3>2, <3>3, SockAccepted DEF TcpInv
  <2>5. /\ pfds' \in [TcpFd -> EntrySet] /\ pfds'[n].fd = fd /\ pfds'[n].revents = Polled[n].revents
        /\ \A i \in TcpFd : i # n => pfds'[i] = Polled[i]
    BY <1>2, <2>1, <2>2 DEF EntrySet
  <2>6. slipped' \in BOOLEAN
    <3>1. Polled[n].revents \in BOOLEAN BY <1>2, <2>2 DEF EntrySet
    <3> QED BY <1>3, <2>2, <3>1, Zenon
  <2>7. TcpTypes'
    <3>1. nfds' \in Nat /\ 1..nfds' \subseteq TcpFd BY <1>3, <2>2, <2>3
    <3>2. pfds' \in [TcpFd -> [fd : TcpFd \cup {0}, revents : BOOLEAN]] BY <2>5 DEF EntrySet
    <3> QED BY <1>1, <2>6, <3>1, <3>2 DEF TcpInv, TcpTypes
  <2>8. \A i \in 1..nfds : pfds'[i].fd = pfds[i].fd /\ pfds'[i].revents = Polled[i].revents
    BY <1>2, <1>3, <2>3, <2>5
  <2>9. ASSUME ~slipped' PROVE ArrayInv'
    <3>1. ~slipped /\ ~Polled[n].revents BY <2>2, <2>9
    <3>2. ArrayInv BY <1>1, <3>1 DEF TcpInv, PollInv
    <3>3. \A i \in 1..nfds : pfds[i].fd \in Tcp!Open /\ pfds[i].fd # fd
      BY <3>2, <2>1 DEF ArrayInv
    <3>4. {pfds'[i].fd : i \in 1..nfds'} = Tcp!Open'
      <4>1. {pfds[i].fd : i \in 1..nfds} = Tcp!Open BY <3>2 DEF ArrayInv
      <4>2. \A g : (\E i \in 1..n : pfds'[i].fd = g) <=> (\E i \in 1..nfds : pfds[i].fd = g) \/ g = fd
        BY <2>3, <2>5, <2>8
      <4>3. \A g : g \in {pfds'[i].fd : i \in 1..n} <=> g \in Tcp!Open \/ g = fd BY <4>1, <4>2
      <4> QED BY <4>3, <2>2, <2>4
    <3>5. Cardinality(Tcp!Open') = nfds'
      BY <3>2, <2>1, <2>2, <2>4, OpenFacts DEF ArrayInv, n
    <3>6. \A i, j \in 1..nfds' : i # j => pfds'[i].fd # pfds'[j].fd
      BY <3>2, <3>3, <2>2, <2>3, <2>5, <2>8 DEF ArrayInv
    <3>7. \A i \in ready' : pfds'[i].revents => sock'[pfds'[i].fd].unread > 0 \/ sock'[pfds'[i].fd].fin
      <4>1. ASSUME NEW i \in 1..n, pfds'[i].revents PROVE i \in 1..nfds BY <4>1, <3>1, <2>3, <2>5
      <4>2. ASSUME NEW i \in 1..nfds, pfds'[i].revents
            PROVE  sock'[pfds'[i].fd].unread > 0 \/ sock'[pfds'[i].fd].fin
        <5>1. Tcp!Readable(pfds[i].fd) BY <4>2, <2>8, <1>2
        <5>2. sock'[pfds[i].fd] = sock[pfds[i].fd] BY <3>3, <2>4, OpenFacts
        <5> QED BY <5>1, <5>2, <2>8 DEF Tcp!Readable
      <4> QED BY <4>1, <4>2, <1>1, <2>2
    <3> QED BY <3>4, <3>5, <3>6, <3>7 DEF ArrayInv, Tcp!Readable
  <2>10. PollInv'
    <3>1. \A i \in 1..nfds' : pfds'[i].fd \in TcpFd BY <1>3, <2>1, <2>2, <2>3, <2>5, <2>8
    <3> QED BY <1>1, <3>1, <2>9 DEF PollInv
  <2> QED BY <1>4, <2>4, <2>7, <2>10 DEF TcpInv
<1> QED BY <1>5, <1>6 DEF Tcp!PollWait, Polled

LEMMA TcpPollEntryInv == ASSUME TcpInv, Tcp!PollEntry PROVE TcpInv'
<1> DEFINE i == Tcp!Min(ready)
           fd == pfds[i].fd
           moved == pfds[nfds].fd
<1>1. server = "poll" /\ ready # {} /\ UNCHANGED <<server, backlog, clients, watched, edges>>
  BY DEF Tcp!PollEntry
<1>2. /\ nfds \in Nat /\ 1..nfds \subseteq TcpFd /\ \A j \in 1..nfds : pfds[j].fd \in TcpFd
      /\ slipped \in BOOLEAN /\ pfds \in [TcpFd -> EntrySet] /\ ready \subseteq 1..nfds
  BY <1>1 DEF TcpInv, TcpTypes, PollInv, EntrySet
<1>3. i \in ready
  <2>1. ready \in SUBSET Nat BY <1>2
  <2> QED BY <1>1, <2>1, MinType
<1>4. LoopInv' BY <1>1 DEF LoopInv
<1>5. CASE ~pfds[i].revents /\ ready' = ready \ {i} /\ UNCHANGED <<sock, pfds, nfds, slipped>>
  <2>1. Tcp!Open' = Tcp!Open BY <1>5 DEF Tcp!Open
  <2>2. SockInv' BY <1>1, <1>5, <2>1 DEF TcpInv, SockInv, SockOK, SockSet, Tcp!Closed
  <2>3. TcpTypes' BY <1>1, <1>5 DEF TcpInv, TcpTypes
  <2>4. PollInv' BY <1>1, <1>5, <2>1 DEF TcpInv, PollInv, ArrayInv, Tcp!Readable
  <2> QED BY <1>4, <2>2, <2>3, <2>4 DEF TcpInv
<1>6. CASE /\ sock[fd].unread > 0 /\ sock' = [sock EXCEPT ![fd].unread = @ - 1]
           /\ ready' = ready \ {i} /\ UNCHANGED <<pfds, nfds, slipped>>
  <2> DEFINE x == sock[fd]
             r == [x EXCEPT !.unread = x.unread - 1]
  <2>1. fd \in TcpFd BY <1>2, <1>3
  <2>2. SockOK(x) /\ x.unread > 0 BY <1>6, <2>1 DEF TcpInv, SockInv
  <2>3. sock' = [sock EXCEPT ![fd] = r] BY <1>6
  <2> HIDE DEF x, fd, i
  <2>4. x.open BY <2>2, ClosedFacts DEF SockOK
  <2>5. /\ x \in SockSet /\ x.unread \in 0..MaxPieces /\ x.sent \in 0..MaxPieces
        /\ x.unread <= x.sent
    BY <2>2 DEF SockOK, SockSet
  <2>6. x.unread - 1 \in 0..MaxPieces /\ x.unread - 1 <= x.sent BY <2>2, <2>5, FdFacts
  <2>7. r \in SockSet /\ r.open = x.open /\ r.unread = x.unread - 1 /\ r.sent = x.sent
    BY <2>5, <2>6 DEF SockSet
  <2> HIDE DEF r
  <2>8. SockOK(r) /\ r.open BY <2>4, <2>6, <2>7 DEF SockOK
  <2>9. /\ sock' = [g \in TcpFd |-> sock'[g]] /\ \A g \in TcpFd : SockOK(sock'[g])
        /\ \A g \in TcpFd : g # fd => sock'[g] = sock[g]
        /\ Tcp!Open' = Tcp!Open \cup {fd}
    BY <2>1, <2>3, <2>8, SockChanges DEF TcpInv
  <2>10. Tcp!Open' = Tcp!Open BY <2>1, <2>4, <2>9 DEF Tcp!Open, x
  <2>11. SockInv' BY <1>1, <2>9, <2>10, SockKept DEF TcpInv
  <2>12. TcpTypes' BY <1>1, <1>6 DEF TcpInv, TcpTypes
  <2>13. ASSUME ~slipped PROVE ArrayInv'
    <3>1. ArrayInv BY <1>1, <2>13 DEF TcpInv, PollInv
    <3>2. \A j \in ready \ {i} : pfds[j].fd # fd /\ pfds[j].fd \in TcpFd
      BY <1>2, <1>3, <3>1 DEF ArrayInv, fd
    <3>3. \A j \in ready \ {i} : sock'[pfds[j].fd] = sock[pfds[j].fd] BY <3>2, <2>9
    <3>4. \A j \in ready' : pfds'[j].revents => sock'[pfds'[j].fd].unread > 0 \/ sock'[pfds'[j].fd].fin
      BY <1>6, <3>1, <3>3 DEF ArrayInv, Tcp!Readable
    <3> QED BY <1>6, <3>1, <3>4, <2>10 DEF ArrayInv, Tcp!Readable
  <2>14. PollInv' BY <1>1, <1>2, <1>6, <2>13 DEF PollInv
  <2> QED BY <1>4, <2>11, <2>12, <2>14 DEF TcpInv
<1>7. CASE /\ pfds' = [pfds EXCEPT ![i] = pfds[nfds]] /\ sock' = [sock EXCEPT ![moved] = Tcp!Closed]
           /\ slipped' = (slipped \/ i # nfds) /\ nfds' = nfds - 1 /\ ready' = ready \ {i, nfds}
  <2> HIDE DEF i
  <2>1. nfds \in 1..nfds /\ i \in 1..nfds BY <1>2, <1>3
  <2>2. moved \in TcpFd BY <1>2, <2>1
  <2> HIDE DEF moved
  <2>3. /\ nfds' \in Nat /\ nfds' = nfds - 1 /\ 1..nfds' \subseteq 1..nfds
        /\ 1..nfds' = (1..nfds) \ {nfds}
    BY <1>2, <1>7, <2>1
  <2>4. /\ sock' = [g \in TcpFd |-> sock'[g]] /\ \A g \in TcpFd : SockOK(sock'[g])
        /\ \A g \in TcpFd : g # moved => sock'[g] = sock[g]
        /\ Tcp!Open' = Tcp!Open \ {moved}
    BY <1>7, <2>2, ClosedFacts, SockChanges DEF TcpInv
  <2>5. SockInv' BY <1>1, <2>4, SockKept DEF TcpInv
  <2>6. pfds' \in [TcpFd -> EntrySet] /\ \A j \in 1..nfds : pfds'[j].fd \in TcpFd
    BY <1>2, <1>7, <2>1
  <2>7. slipped' \in BOOLEAN
    <3>1. (i # nfds) \in BOOLEAN OBVIOUS
    <3> QED BY <1>2, <1>7, <3>1, Zenon
  <2>8. TcpTypes' BY <1>1, <1>2, <2>3, <2>6, <2>7 DEF TcpInv, TcpTypes, EntrySet
  <2>9. ready' \subseteq 1..nfds' /\ ready' \subseteq ready BY <1>2, <1>7, <2>3
  <2>10. ASSUME ~slipped' PROVE ArrayInv'
    <3>1. ~slipped /\ i = nfds BY <1>7, <2>10
    <3>2. ArrayInv BY <1>1, <3>1 DEF TcpInv, PollInv
    <3>3. \A j \in TcpFd : pfds'[j] = pfds[j] BY <1>2, <1>7, <3>1
    <3>4. \A j \in 1..nfds' : pfds'[j] = pfds[j] /\ pfds[j].fd # moved
      BY <3>2, <3>3, <1>2, <2>1, <2>3 DEF ArrayInv, moved
    <3>5. moved \in Tcp!Open BY <3>2, <2>1 DEF ArrayInv, moved
    <3>6. {pfds'[j].fd : j \in 1..nfds'} = Tcp!Open'
      <4>1. {pfds[j].fd : j \in 1..nfds} = Tcp!Open BY <3>2 DEF ArrayInv
      <4>2. \A g : (\E j \in 1..nfds' : pfds'[j].fd = g)
                      <=> (\E j \in 1..nfds : pfds[j].fd = g) /\ g # moved
        BY <2>3, <3>4 DEF moved
      <4>3. \A g : g \in {pfds'[j].fd : j \in 1..nfds'} <=> g \in Tcp!Open /\ g # moved
        BY <4>1, <4>2
      <4> QED BY <4>3, <2>4
    <3>7. Cardinality(Tcp!Open') = nfds' BY <3>2, <3>5, <2>3, <2>4, OpenFacts DEF ArrayInv
    <3>8. \A j, k \in 1..nfds' : j # k => pfds'[j].fd # pfds'[k].fd
      BY <3>2, <3>4, <2>3 DEF ArrayInv
    <3>9. \A j \in ready' : pfds'[j].revents => sock'[pfds'[j].fd].unread > 0 \/ sock'[pfds'[j].fd].fin
      <4>1. ASSUME NEW j \in ready', pfds'[j].revents
            PROVE  sock'[pfds'[j].fd].unread > 0 \/ sock'[pfds'[j].fd].fin
        <5>1. j \in 1..nfds' /\ j \in ready /\ j \in 1..nfds BY <2>9, <2>3
        <5>2. pfds'[j] = pfds[j] /\ pfds[j].fd # moved /\ pfds[j].fd \in TcpFd BY <5>1, <3>4, <1>2
        <5>3. Tcp!Readable(pfds[j].fd) BY <3>2, <4>1, <5>1, <5>2 DEF ArrayInv
        <5> QED BY <5>2, <5>3, <2>4 DEF Tcp!Readable
      <4> QED BY <4>1
    <3> QED BY <3>6, <3>7, <3>8, <3>9 DEF ArrayInv, Tcp!Readable
  <2>11. PollInv' BY <1>1, <2>3, <2>6, <2>9, <2>10 DEF PollInv
  <2> QED BY <1>4, <2>5, <2>8, <2>11 DEF TcpInv
<1> QED BY <1>5, <1>6, <1>7 DEF Tcp!PollEntry

LEMMA TcpStep == ASSUME TcpInv, Tcp!Next PROVE TcpInv'
BY TcpConnectInv, TcpSendInv, TcpLeaveInv, TcpHandleClientInv, TcpWaitInv, TcpAcceptInv,
   TcpPollWaitInv, TcpPollEntryInv DEF Tcp!Next

LEMMA TcpIsTyped == ASSUME TcpInv PROVE Tcp!TypeOK
<1>1. \A fd \in TcpFd : sock[fd].unread \in 0..MaxPieces /\ (sock[fd].open \/ sock[fd] = Tcp!Closed)
  BY DEF TcpInv, SockInv, SockOK, SockSet
<1>2. nfds \in 0..Tcp!Cardinality(TcpFd)
  <2>1. nfds \in Nat /\ 1..nfds \subseteq TcpFd BY DEF TcpInv, TcpTypes
  <2>2. Cardinality(1..nfds) = nfds BY <2>1, FS_Interval
  <2>3. Cardinality(1..nfds) <= Cardinality(TcpFd) BY <2>1, FdFacts, FS_Subset
  <2>4. nfds \in 0..Cardinality(TcpFd) BY <2>1, <2>2, <2>3, FdFacts
  <2> QED BY <2>4, SameCardinality
<1>3. backlog \in 0..MaxClients BY FdFacts DEF TcpInv, SockInv
<1>4. ready \subseteq TcpFd \cup {0}
  <2>1. CASE server = "poll" BY <2>1 DEF TcpInv, PollInv, TcpTypes
  <2>2. CASE server # "poll" BY <2>2, OpenFacts DEF TcpInv, LoopInv
  <2> QED BY <2>1, <2>2
<1> QED BY <1>1, <1>2, <1>3, <1>4 DEF Tcp!TypeOK, Tcp!Listener, TcpInv, TcpTypes

LEMMA TcpIsExact == ASSUME TcpInv PROVE Tcp!WatchedExact
<1>1. CASE server = "poll"
  BY <1>1, SameCardinality DEF TcpInv, PollInv, ArrayInv, Tcp!WatchedExact, Tcp!InUse
<1>2. CASE server # "poll"
  BY <1>2 DEF TcpInv, LoopInv, Tcp!WatchedExact, Tcp!Listener
<1> QED BY <1>1, <1>2

-----------------------------------------------------------------------------
(* All of them *)

NetInv == /\ active \in {"web", "tcp", "dns", "rtt"}
          /\ WebInv /\ TcpInv /\ DnsInv /\ RttInv

\* The invariants of the four programs hold in every behaviour that runs one of them.
THEOREM NetworkInvariance == NetworkSpec => []NetInv
<1>1. NetworkInit => NetInv
  BY WebInitInv, TcpInitInv, DnsInitInv, RttInitInv, DnsConstants DEF NetworkInit, NetInv
<1>2. NetInv /\ [NetworkNext]_networkVars => NetInv'
  <2> SUFFICES ASSUME NetInv, [NetworkNext]_networkVars PROVE NetInv'
    OBVIOUS
  <2>1. CASE active = "web" /\ Web!Next /\ UNCHANGED <<active, tcpVars, vars, rttVars>>
    BY <2>1, WebStep, TcpKept, InvStep, RttKept DEF NetInv
  <2>2. CASE active = "tcp" /\ Tcp!Next /\ UNCHANGED <<active, webVars, vars, rttVars>>
    BY <2>2, WebKept, TcpStep, InvStep, RttKept DEF NetInv
  <2>3. CASE active = "dns" /\ Next /\ UNCHANGED <<active, webVars, tcpVars, rttVars>>
    BY <2>3, WebKept, TcpKept, InvStep, RttKept DEF NetInv
  <2>4. CASE active = "rtt" /\ Rtt!Next /\ UNCHANGED <<active, webVars, tcpVars, vars>>
    BY <2>4, WebKept, TcpKept, InvStep, RttStep DEF NetInv
  <2>5. CASE UNCHANGED networkVars
    <3>1. UNCHANGED <<active, webVars, tcpVars, vars, rttVars>> BY <2>5 DEF networkVars
    <3> QED BY <3>1, WebKept, TcpKept, InvStep, RttKept DEF NetInv
  <2> QED BY <2>1, <2>2, <2>3, <2>4, <2>5 DEF NetworkNext
<1> QED BY <1>1, <1>2, PTL DEF NetworkSpec

\* The variables of whichever program runs keep their types.
THEOREM NetworkTyped == NetworkSpec => []NetworkTypeOK
<1>1. NetInv => NetworkTypeOK
  <2> SUFFICES ASSUME NetInv PROVE NetworkTypeOK
    OBVIOUS
  <2>1. Web!TypeOK /\ Tcp!TypeOK BY WebIsTyped, TcpIsTyped DEF NetInv
  <2>2. TypeOK BY DEF NetInv, DnsInv, DnsTypes
  <2>3. Rtt!TypeOK BY RttIsTyped DEF NetInv
  <2> QED BY <2>1, <2>2, <2>3 DEF NetworkTypeOK, NetInv
<1> QED BY <1>1, NetworkInvariance, PTL

\* write_callback sends the clients of the web server their responses byte for byte,
\* whatever send and sendfile take at a time and whatever the lengths of the file, of
\* the header and of the buffer.
THEOREM ResponsesExact == NetworkSpec => []ResponseExact
<1>1. NetInv => ResponseExact BY WebIsExact DEF NetInv, ResponseExact
<1> QED BY <1>1, NetworkInvariance, PTL

\* selectio, epollio and epoll_server watch exactly the open descriptors and find what
\* the kernel reported; pollio does so until its array slips.
THEOREM WatchExactly == NetworkSpec => []WatchedExact
<1>1. NetInv => WatchedExact BY TcpIsExact DEF NetInv, WatchedExact
<1> QED BY <1>1, NetworkInvariance, PTL

\* HandleMessage of the round-trip client records the true time for the answer to the
\* newest message and never too long a one for another, whatever start_time main sets
\* meanwhile and however often the server begins a new session.
THEOREM NewestTimeExact == NetworkSpec => []NewestExact
<1>1. NetInv => NewestExact BY DEF NetInv, RttInv, NewestExact
<1> QED BY <1>1, NetworkInvariance, PTL
=============================================================================
