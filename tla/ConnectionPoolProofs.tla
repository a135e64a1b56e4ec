------------------------ MODULE ConnectionPoolProofs ------------------------
(***************************************************************************)
(* Safety of the connection pool for any set of threads and connections.   *)
(* The four parts of IInv are inductive together: what a step does to the  *)
(* queue needs the queue to have no repetition, and what it does to the    *)
(* waiting threads needs the flag.  That the idle open connections are as  *)
(* many as available() says follows: the queue numbers them.               *)
(***************************************************************************)
EXTENDS ConnectionPool, TLAPS, SequenceTheorems, FiniteSetTheorems

\* The count is kept together with the queue.
CountInv == available_connection = Len(connections)

IInv == TypeOK /\ ConnInOnePlace /\ CountInv /\ NoIdleConnection

LEMMA InitInv == Init => IInv
<1> SUFFICES ASSUME Init PROVE IInv
  OBVIOUS
<1>1. TypeOK
  <2>1. pool_active_flag \in BOOLEAN BY Zenon DEF Init
  <2>2. connections \in Seq(Conn) BY EmptySeq DEF Init
  <2>3. /\ client \in [Client -> {"outside", "asleep", "awake"}]
        /\ held \in [Client -> Conn \cup {NoConn}]
        /\ status \in [Conn -> {"unopened", "open", "closed"}]
    BY DEF Init
  <2>4. total_connection \in Nat /\ available_connection \in Nat BY DEF Init
  <2> QED BY <2>1, <2>2, <2>3, <2>4 DEF TypeOK
<1>2. InQueue = {} /\ Asleep = {} BY DEF Init, InQueue, Asleep
<1>3. ConnInOnePlace BY <1>2, NoConnAssumption DEF Init, ConnInOnePlace
<1> QED BY <1>1, <1>2, <1>3 DEF Init, IInv, CountInv, NoIdleConnection

-----------------------------------------------------------------------------
(* The threads that sleep and those that were woken *)

LEMMA AwakeFinite == IsFiniteSet(Awake) /\ Cardinality(Awake) \in Nat
<1>1. IsFiniteSet(Awake) BY ClientAssumption, FS_Subset DEF Awake
<1> QED BY <1>1, FS_CardinalityType

LEMMA NotifyAllFacts ==
  ASSUME TypeOK, NotifyAll
  PROVE  Asleep' = {} /\ client' \in [Client -> {"outside", "asleep", "awake"}]
BY DEF NotifyAll, Asleep, TypeOK

LEMMA WakeFacts ==
  ASSUME TypeOK, NEW t \in Asleep, client' = [client EXCEPT ![t] = "awake"]
  PROVE  /\ Cardinality(Awake') = Cardinality(Awake) + 1
         /\ Asleep # {}
         /\ client' \in [Client -> {"outside", "asleep", "awake"}]
<1>1. t \in Client /\ client[t] = "asleep" BY DEF Asleep
<1>2. Awake' = Awake \cup {t} BY <1>1 DEF Awake, TypeOK
<1>3. t \notin Awake BY <1>1 DEF Awake
<1>4. Cardinality(Awake \cup {t}) = Cardinality(Awake) + 1
  BY <1>3, AwakeFinite, FS_AddElement
<1> QED BY <1>1, <1>2, <1>4 DEF TypeOK

-----------------------------------------------------------------------------
(* init *)

LEMMA InitPoolInv == ASSUME IInv, InitPool PROVE IInv'
<1>1. PICK created \in [1..max_conn_num -> Unopened] :
        /\ \A i, j \in 1..max_conn_num : created[i] = created[j] => i = j
        /\ connections' = connections \o created
        /\ status' = [c \in Conn |-> IF \E i \in 1..max_conn_num : created[i] = c
                                       THEN "open" ELSE status[c]]
  BY DEF InitPool
<1>2. /\ pool_active_flag' = TRUE
      /\ total_connection' = total_connection + max_conn_num
      /\ available_connection' = available_connection + max_conn_num
      /\ NotifyAll /\ UNCHANGED held
  BY DEF InitPool
<1>3. TypeOK /\ ConnInOnePlace /\ available_connection = Len(connections)
  BY DEF IInv, CountInv
<1>4. connections \in Seq(Conn) /\ Len(connections) \in Nat /\ max_conn_num \in Nat
  BY <1>3, LenProperties, MaxConnAssumption DEF TypeOK
<1>5. created \in Seq(Conn) /\ Len(created) = max_conn_num
  <2>1. created \in [1..max_conn_num -> Conn] BY DEF Unopened
  <2> QED BY <2>1, <1>4, IsASeq, LenProperties
<1>6. /\ connections' \in Seq(Conn)
      /\ Len(connections') = Len(connections) + max_conn_num
      /\ \A i \in 1..Len(connections') :
           connections'[i] = IF i <= Len(connections) THEN connections[i]
                                                      ELSE created[i - Len(connections)]
  <2>1. /\ connections \o created \in Seq(Conn)
        /\ Len(connections \o created) = Len(connections) + Len(created)
        /\ \A i \in 1..(Len(connections) + Len(created)) :
             (connections \o created)[i] = IF i <= Len(connections) THEN connections[i]
                                           ELSE created[i - Len(connections)]
    BY <1>4, <1>5, ConcatProperties, Zenon
  <2> QED BY <2>1, <1>1, <1>5, Zenon
<1> DEFINE new == {created[i] : i \in 1..max_conn_num}
<1>7. \A i \in 1..Len(connections') :
         \/ i \in 1..Len(connections) /\ connections'[i] = connections[i]
         \/ /\ i - Len(connections) \in 1..max_conn_num
            /\ connections'[i] = created[i - Len(connections)]
  BY <1>4, <1>6
<1>8. /\ \A i \in 1..Len(connections) : i \in 1..Len(connections') /\ connections'[i] = connections[i]
      /\ \A i \in 1..max_conn_num : /\ Len(connections) + i \in 1..Len(connections')
                                    /\ connections'[Len(connections) + i] = created[i]
  <2>1. \A i \in 1..Len(connections) : i \in 1..Len(connections') /\ i <= Len(connections)
    BY <1>4, <1>6
  <2>2. ASSUME NEW i \in 1..max_conn_num
        PROVE /\ Len(connections) + i \in 1..Len(connections')
              /\ ~(Len(connections) + i <= Len(connections))
              /\ (Len(connections) + i) - Len(connections) = i
    BY <1>4, <1>6
  <2>3. ASSUME NEW i \in 1..max_conn_num
        PROVE connections'[Len(connections) + i] = created[i]
    BY <2>2, <1>6
  <2> QED BY <2>1, <2>2, <2>3, <1>6
<1>9. InQueue' = InQueue \cup new
  <2>1. InQueue' \subseteq InQueue \cup new BY <1>7 DEF InQueue
  <2>2. InQueue \cup new \subseteq InQueue' BY <1>8 DEF InQueue
  <2> QED BY <2>1, <2>2
<1>10. \A c \in new : c \in Conn /\ status[c] = "unopened" BY DEF Unopened
<1>11. \A c \in new : c \notin InQueue /\ \A t \in Client : held[t] # c
  BY <1>3, <1>10 DEF ConnInOnePlace
<1>12. \A i, j \in 1..Len(connections') : connections'[i] = connections'[j] => i = j
  <2> SUFFICES ASSUME NEW i \in 1..Len(connections'), NEW j \in 1..Len(connections'),
                      connections'[i] = connections'[j]
               PROVE  i = j
    OBVIOUS
  <2>1. \A k \in 1..Len(connections) : \A m \in 1..max_conn_num : connections[k] # created[m]
    BY <1>11 DEF InQueue
  <2>2. CASE i \in 1..Len(connections) /\ j \in 1..Len(connections)
    BY <2>2, <1>3, <1>8 DEF ConnInOnePlace
  <2>3. CASE i \notin 1..Len(connections) /\ j \notin 1..Len(connections)
    <3>1. i - Len(connections) = j - Len(connections) BY <2>3, <1>1, <1>7
    <3> QED BY <3>1, <1>4
  <2>4. CASE (i \in 1..Len(connections)) # (j \in 1..Len(connections))
    BY <2>1, <2>4, <1>7, <1>8
  <2> QED BY <2>2, <2>3, <2>4
<1>13. TypeOK'
  <2>1. client' \in [Client -> {"outside", "asleep", "awake"}] BY <1>2, <1>3, NotifyAllFacts
  <2> QED BY <2>1, <1>1, <1>2, <1>3, <1>4, <1>6 DEF TypeOK
<1>14. ConnInOnePlace'
  <2>1. \A c \in Conn : status'[c] = IF c \in new THEN "open" ELSE status[c] BY <1>1
  <2>2. held' = held BY <1>2
  <2> HIDE DEF new
  <2>3. \A t \in Client : held'[t] # NoConn =>
          /\ held'[t] \notin InQueue'
          /\ \A u \in Client : held'[u] = held'[t] => u = t
    BY <2>2, <1>3, <1>9, <1>11 DEF ConnInOnePlace
  <2>4. \A c \in Conn : status'[c] = "open" <=>
          c \in InQueue' \/ \E t \in Client : held'[t] = c
    BY <2>1, <2>2, <1>3, <1>9 DEF ConnInOnePlace
  <2> QED BY <1>12, <2>3, <2>4 DEF ConnInOnePlace
<1>15. NoIdleConnection' BY <1>2, <1>3, NotifyAllFacts DEF NoIdleConnection
<1> QED BY <1>2, <1>3, <1>6, <1>13, <1>14, <1>15 DEF IInv, CountInv

LEMMA InitFailsInv == ASSUME IInv, InitFails PROVE IInv'
<1>1. TypeOK' BY DEF IInv, InitFails, TypeOK
<1>2. ConnInOnePlace' BY DEF IInv, InitFails, ConnInOnePlace, InQueue, Unopened, TypeOK
<1>3. CountInv' /\ NoIdleConnection'
  BY DEF IInv, InitFails, CountInv, NoIdleConnection, Asleep, Awake
<1> QED BY <1>1, <1>2, <1>3 DEF IInv

-----------------------------------------------------------------------------
(* acquire *)

LEMMA PopFacts ==
  ASSUME TypeOK, connections # <<>>, connections' = Tail(connections),
         \A i, j \in 1..Len(connections) : connections[i] = connections[j] => i = j
  PROVE  /\ connections' \in Seq(Conn)
         /\ Len(connections) \in Nat /\ Len(connections) > 0
         /\ Len(connections') = Len(connections) - 1
         /\ Head(connections) \in Conn /\ Head(connections) \in InQueue
         /\ InQueue' = InQueue \ {Head(connections)}
         /\ \A i, j \in 1..Len(connections') : connections'[i] = connections'[j] => i = j
<1>1. /\ Len(connections) \in Nat /\ Len(connections) > 0
      /\ Len(connections') = Len(connections) - 1
      /\ connections' \in Seq(Conn)
      /\ Head(connections) = connections[1] /\ connections[1] \in Conn
  BY HeadTailProperties, LenProperties, EmptySeq, ElementOfSeq DEF TypeOK
<1>2. \A i \in 1..Len(connections') :
        connections'[i] = connections[i + 1] /\ i + 1 \in 1..Len(connections)
  BY <1>1, HeadTailProperties DEF TypeOK
<1>3. \A i \in 1..Len(connections) : i = 1 \/ i - 1 \in 1..Len(connections') BY <1>1
<1>4. 1 \in 1..Len(connections) BY <1>1
<1>5. InQueue' = InQueue \ {connections[1]}
  <2>1. InQueue' \subseteq InQueue \ {connections[1]} BY <1>2, <1>4 DEF InQueue
  <2>2. ASSUME NEW x \in InQueue, x # connections[1] PROVE x \in InQueue'
    <3>1. PICK i \in 1..Len(connections) : x = connections[i] BY DEF InQueue
    <3>2. i - 1 \in 1..Len(connections') /\ (i - 1) + 1 = i BY <2>2, <3>1, <1>3
    <3> QED BY <3>1, <3>2, <1>2 DEF InQueue
  <2> QED BY <2>1, <2>2
<1>6. \A i, j \in 1..Len(connections') : connections'[i] = connections'[j] => i = j BY <1>2
<1> QED BY <1>1, <1>4, <1>5, <1>6 DEF InQueue

LEMMA AcquireInv == ASSUME IInv, NEW t \in Client, Acquire(t) PROVE IInv'
<1>1. TypeOK /\ ConnInOnePlace /\ available_connection = Len(connections) /\ NoIdleConnection
  BY DEF IInv, CountInv
<1>2. /\ client[t] \in {"outside", "awake"} /\ held[t] = NoConn
      /\ UNCHANGED <<pool_active_flag, total_connection, status>>
  BY DEF Acquire
<1>3. CASE /\ ~pool_active_flag /\ client' = [client EXCEPT ![t] = "outside"]
           /\ UNCHANGED <<connections, available_connection, held>>
  <2>1. Asleep = {} BY <1>1, <1>3 DEF NoIdleConnection
  <2>2. Asleep' = {} BY <2>1, <1>1, <1>3 DEF Asleep, TypeOK
  <2>3. TypeOK' BY <1>1, <1>2, <1>3 DEF TypeOK
  <2>4. ConnInOnePlace' BY <1>1, <1>2, <1>3 DEF ConnInOnePlace, InQueue
  <2> QED BY <2>2, <2>3, <2>4, <1>1, <1>3 DEF IInv, CountInv, NoIdleConnection
<1>4. CASE /\ pool_active_flag /\ connections # <<>>
           /\ held' = [held EXCEPT ![t] = Head(connections)]
           /\ connections' = Tail(connections)
           /\ available_connection' = available_connection - 1
           /\ client' = [client EXCEPT ![t] = "outside"]
  <2> DEFINE c == Head(connections)
  <2>1. /\ connections' \in Seq(Conn)
        /\ Len(connections) \in Nat /\ Len(connections) > 0
        /\ Len(connections') = Len(connections) - 1
        /\ c \in Conn /\ c \in InQueue /\ InQueue' = InQueue \ {c}
        /\ \A i, j \in 1..Len(connections') : connections'[i] = connections'[j] => i = j
    BY <1>1, <1>4, PopFacts DEF ConnInOnePlace
  <2>2. \A u \in Client : held'[u] = IF u = t THEN c ELSE held[u] BY <1>1, <1>4 DEF TypeOK
  <2>3. TypeOK'
    <3>1. held' \in [Client -> Conn \cup {NoConn}] BY <1>1, <1>4, <2>1 DEF TypeOK
    <3>2. available_connection' \in Nat BY <1>1, <1>4, <2>1
    <3> QED BY <3>1, <3>2, <2>1, <1>1, <1>2, <1>4 DEF TypeOK
  <2> HIDE DEF c
  <2>4. ConnInOnePlace'
    <3>1. \A u \in Client : held'[u] # NoConn =>
            /\ held'[u] \notin InQueue'
            /\ \A v \in Client : held'[v] = held'[u] => v = u
      BY <2>1, <2>2, <1>1 DEF ConnInOnePlace
    <3>2. ASSUME NEW d \in Conn
          PROVE  (d \in InQueue' \/ \E u \in Client : held'[u] = d)
                 <=> (d \in InQueue \/ \E u \in Client : held[u] = d)
      <4>1. d # NoConn BY NoConnAssumption
      <4>2. CASE d = c BY <4>2, <2>1, <2>2
      <4>3. CASE d # c BY <4>1, <4>3, <2>1, <2>2, <1>2
      <4> QED BY <4>2, <4>3
    <3> QED BY <3>1, <3>2, <2>1, <1>1, <1>2 DEF ConnInOnePlace
  <2>5. NoIdleConnection'
    <3>1. Asleep' = Asleep BY <1>1, <1>2, <1>4 DEF Asleep, TypeOK
    <3>2. Awake' = Awake \ {t} BY <1>1, <1>2, <1>4 DEF Awake, TypeOK
    <3>3. Cardinality(Awake \ {t}) >= Cardinality(Awake) - 1 /\ Cardinality(Awake \ {t}) \in Nat
      <4>1. CASE t \in Awake
        <5>1. IsFiniteSet(Awake \ {t}) /\ Cardinality(Awake \ {t}) = Cardinality(Awake) - 1
          BY <4>1, AwakeFinite, FS_RemoveElement
        <5>2. Cardinality(Awake \ {t}) \in Nat BY <5>1, FS_CardinalityType
        <5> QED BY <5>1, <5>2, AwakeFinite
      <4>2. CASE t \notin Awake
        <5>1. Awake \ {t} = Awake BY <4>2
        <5> QED BY <5>1, AwakeFinite
      <4> QED BY <4>1, <4>2
    <3>4. Asleep # {} => Len(connections) <= Cardinality(Awake) BY <1>1 DEF NoIdleConnection
    <3>5. Asleep # {} => Len(connections') <= Cardinality(Awake')
      BY <3>2, <3>3, <3>4, <2>1, AwakeFinite
    <3> QED BY <3>1, <3>5, <1>2, <1>4 DEF NoIdleConnection
  <2> QED BY <2>1, <2>3, <2>4, <2>5, <1>1, <1>4 DEF IInv, CountInv
<1>5. CASE /\ pool_active_flag /\ connections = <<>> /\ client' = [client EXCEPT ![t] = "asleep"]
           /\ UNCHANGED <<connections, available_connection, held>>
  <2>1. TypeOK' BY <1>1, <1>2, <1>5 DEF TypeOK
  <2>2. ConnInOnePlace' BY <1>1, <1>2, <1>5 DEF ConnInOnePlace, InQueue
  <2>3. IsFiniteSet(Awake') BY ClientAssumption, FS_Subset DEF Awake
  <2>4. Cardinality(Awake') \in Nat BY <2>3, FS_CardinalityType
  <2>5. Len(connections') = 0 BY <1>5
  <2> QED BY <2>1, <2>2, <2>4, <2>5, <1>1, <1>2, <1>5
          DEF IInv, CountInv, NoIdleConnection
<1> QED BY <1>3, <1>4, <1>5 DEF Acquire

LEMMA SpuriousInv == ASSUME IInv, NEW t \in Client, Spurious(t) PROVE IInv'
<1>1. t \in Asleep /\ client' = [client EXCEPT ![t] = "awake"] /\ TypeOK
  BY DEF Spurious, Asleep, IInv
<1>2. /\ Cardinality(Awake') = Cardinality(Awake) + 1 /\ Asleep # {}
      /\ client' \in [Client -> {"outside", "asleep", "awake"}]
  BY <1>1, WakeFacts
<1>3. UNCHANGED <<connections, pool_active_flag, total_connection, available_connection, status, held>>
  BY DEF Spurious
<1>4. TypeOK' BY <1>1, <1>2, <1>3 DEF TypeOK
<1>5. ConnInOnePlace' BY <1>3 DEF IInv, ConnInOnePlace, InQueue
<1>6. Len(connections) \in Nat BY <1>1, LenProperties DEF TypeOK
<1>7. NoIdleConnection' BY <1>2, <1>3, <1>6, AwakeFinite DEF IInv, NoIdleConnection
<1> QED BY <1>3, <1>4, <1>5, <1>7 DEF IInv, CountInv

-----------------------------------------------------------------------------
(* release and shutdown *)

LEMMA ReleaseInv == ASSUME IInv, NEW t \in Client, Release(t) PROVE IInv'
<1> DEFINE c == held[t]
<1>1. TypeOK /\ ConnInOnePlace /\ available_connection = Len(connections) /\ NoIdleConnection
  BY DEF IInv, CountInv
<1>2. /\ c # NoConn /\ connections' = Append(connections, c)
      /\ available_connection' = available_connection + 1
      /\ held' = [held EXCEPT ![t] = NoConn] /\ NotifyOne
      /\ UNCHANGED <<pool_active_flag, total_connection, status>>
  BY DEF Release
<1>3. c \in Conn /\ c \notin InQueue BY <1>1, <1>2 DEF TypeOK, ConnInOnePlace
<1>4. \A u \in Client : held'[u] = IF u = t THEN NoConn ELSE held[u] BY <1>1, <1>2 DEF TypeOK
<1>5. \A u \in Client : held[u] = c => u = t BY <1>1, <1>2 DEF ConnInOnePlace
<1>6. held[t] = c OBVIOUS
<1> HIDE DEF c
<1>7. connections \in Seq(Conn) /\ Len(connections) \in Nat
  BY <1>1, LenProperties DEF TypeOK
<1>8. connections' \in Seq(Conn) /\ Len(connections') = Len(connections) + 1
  BY <1>2, <1>3, <1>7, AppendProperties
<1>9. /\ \A i \in 1..Len(connections) : connections'[i] = connections[i]
      /\ connections'[Len(connections) + 1] = c
  BY <1>2, <1>3, <1>7, AppendProperties
<1>10. \A i \in 1..Len(connections') : i \in 1..Len(connections) \/ i = Len(connections) + 1
  BY <1>7, <1>8
<1>11. InQueue' = InQueue \cup {c}
  <2>1. InQueue \cup {c} \subseteq InQueue' BY <1>7, <1>8, <1>9 DEF InQueue
  <2>2. InQueue' \subseteq InQueue \cup {c} BY <1>9, <1>10 DEF InQueue
  <2> QED BY <2>1, <2>2
<1>12. \A i, j \in 1..Len(connections') : connections'[i] = connections'[j] => i = j
  <2>1. \A i \in 1..Len(connections) : connections[i] # c BY <1>3 DEF InQueue
  <2> QED BY <2>1, <1>1, <1>9, <1>10 DEF ConnInOnePlace
<1>13. ConnInOnePlace'
  <2>1. \A u \in Client : held'[u] # NoConn =>
          /\ held'[u] \notin InQueue'
          /\ \A v \in Client : held'[v] = held'[u] => v = u
    BY <1>1, <1>4, <1>5, <1>11 DEF ConnInOnePlace
  <2>2. ASSUME NEW d \in Conn
        PROVE  (d \in InQueue' \/ \E u \in Client : held'[u] = d)
               <=> (d \in InQueue \/ \E u \in Client : held[u] = d)
    <3>1. d # NoConn BY NoConnAssumption
    <3>2. CASE d = c BY <3>2, <1>6, <1>11
    <3>3. CASE d # c BY <3>1, <3>3, <1>4, <1>6, <1>11
    <3> QED BY <3>2, <3>3
  <2> QED BY <2>1, <2>2, <1>1, <1>2, <1>12 DEF ConnInOnePlace
<1>14. client' \in [Client -> {"outside", "asleep", "awake"}] /\ NoIdleConnection'
  <2>1. CASE Asleep = {} /\ UNCHANGED client
    BY <2>1, <1>1 DEF TypeOK, NoIdleConnection, Asleep
  <2>2. CASE \E u \in Asleep : client' = [client EXCEPT ![u] = "awake"]
    <3>1. PICK u \in Asleep : client' = [client EXCEPT ![u] = "awake"] BY <2>2
    <3>2. /\ Cardinality(Awake') = Cardinality(Awake) + 1 /\ Asleep # {}
          /\ client' \in [Client -> {"outside", "asleep", "awake"}]
      BY <3>1, <1>1, WakeFacts
    <3>3. pool_active_flag' /\ Len(connections) <= Cardinality(Awake)
      BY <3>2, <1>1, <1>2 DEF NoIdleConnection
    <3>4. Len(connections') <= Cardinality(Awake') BY <3>2, <3>3, <1>7, <1>8, AwakeFinite
    <3> QED BY <3>2, <3>3, <3>4 DEF NoIdleConnection
  <2> QED BY <2>1, <2>2, <1>2 DEF NotifyOne
<1>15. TypeOK'
  <2>1. held' \in [Client -> Conn \cup {NoConn}] BY <1>1, <1>2 DEF TypeOK
  <2>2. pool_active_flag' \in BOOLEAN BY <1>1, <1>2, Zenon DEF TypeOK
  <2>3. total_connection' \in Nat /\ available_connection' \in Nat BY <1>1, <1>2 DEF TypeOK
  <2> QED BY <2>1, <2>2, <2>3, <1>1, <1>2, <1>8, <1>14 DEF TypeOK
<1> QED BY <1>1, <1>2, <1>8, <1>13, <1>14, <1>15 DEF IInv, CountInv

LEMMA ShutdownInv == ASSUME IInv, Shutdown PROVE IInv'
<1>1. TypeOK /\ ConnInOnePlace BY DEF IInv
<1>2. Asleep' = {} /\ client' \in [Client -> {"outside", "asleep", "awake"}]
  BY <1>1, NotifyAllFacts DEF Shutdown
<1>3. connections' = <<>> /\ Len(connections') = 0 /\ InQueue' = {}
  BY DEF Shutdown, InQueue
<1>4. TypeOK'
  <2>1. pool_active_flag' \in BOOLEAN BY Zenon DEF Shutdown
  <2>2. connections' \in Seq(Conn) BY <1>3, EmptySeq
  <2>3. total_connection' \in Nat /\ available_connection' \in Nat BY DEF Shutdown
  <2>4. status' \in [Conn -> {"unopened", "open", "closed"}] BY <1>1 DEF Shutdown, TypeOK
  <2>5. held' \in [Client -> Conn \cup {NoConn}] BY <1>1 DEF Shutdown, TypeOK
  <2> QED BY <2>1, <2>2, <2>3, <2>4, <2>5, <1>2 DEF TypeOK
<1>5. ConnInOnePlace'
  <2>1. held' = held BY DEF Shutdown
  <2>2. \A c \in Conn : status'[c] = IF c \in InQueue THEN "closed" ELSE status[c]
    BY DEF Shutdown
  <2>3. \A c \in Conn : status'[c] = "open" <=>
          c \in InQueue' \/ \E t \in Client : held'[t] = c
    <3> SUFFICES ASSUME NEW c \in Conn
                 PROVE  status'[c] = "open" <=> \E t \in Client : held[t] = c
      BY <2>1, <1>3
    <3>1. c # NoConn BY NoConnAssumption
    <3> QED BY <3>1, <2>2, <1>1 DEF ConnInOnePlace
  <2> QED BY <2>1, <2>3, <1>1, <1>3 DEF ConnInOnePlace
<1> QED BY <1>2, <1>3, <1>4, <1>5 DEF Shutdown, IInv, CountInv, NoIdleConnection

LEMMA InvStep == IInv /\ [Next]_vars => IInv'
<1> SUFFICES ASSUME IInv, [Next]_vars PROVE IInv'
  OBVIOUS
<1>1. CASE UNCHANGED vars
  BY <1>1 DEF vars, IInv, TypeOK, ConnInOnePlace, InQueue, CountInv,
              NoIdleConnection, Asleep, Awake
<1> QED BY <1>1, InitPoolInv, InitFailsInv, AcquireInv, SpuriousInv, ReleaseInv,
           ShutdownInv DEF Next

\* The inductive invariant holds throughout.
THEOREM Invariance == Spec => []IInv
BY InitInv, InvStep, PTL DEF Spec

(***************************************************************************)
(* acquire, release, init and shutdown neither share, lose nor reuse a     *)
(* closed connection, whatever the order of the calls.                     *)
(***************************************************************************)
THEOREM ConnectionsKept == Spec => []ConnInOnePlace
<1>1. IInv => ConnInOnePlace BY DEF IInv
<1> QED BY <1>1, Invariance, PTL

(***************************************************************************)
(* One notify_one for each release is enough for every number of waiting   *)
(* threads and connections.                                                *)
(***************************************************************************)
THEOREM NoWaitBesideIdle == Spec => []NoIdleConnection
<1>1. IInv => NoIdleConnection BY DEF IInv
<1> QED BY <1>1, Invariance, PTL

\* The queue numbers the open connections that nobody uses.
LEMMA IdleCounted == ASSUME IInv PROVE AvailableExact
<1> DEFINE Idle == {c \in Conn : status[c] = "open" /\ \A t \in Client : held[t] # c}
           n == Len(connections)
<1>1. TypeOK /\ ConnInOnePlace /\ available_connection = n BY DEF IInv, CountInv
<1>2. connections \in Seq(Conn) /\ n \in Nat /\ connections \in [1..n -> Conn]
  BY <1>1, LenProperties DEF TypeOK
<1>3. \A i \in 1..n : connections[i] \in Conn BY <1>2
<1>4. InQueue = Idle
  <2>1. ASSUME NEW c \in InQueue PROVE c \in Idle
    <3>1. c \in Conn BY <1>3 DEF InQueue
    <3>2. \A t \in Client : held[t] # c
      <4>1. c # NoConn BY <3>1, NoConnAssumption
      <4> QED BY <4>1, <1>1 DEF ConnInOnePlace
    <3> QED BY <3>1, <3>2, <1>1 DEF ConnInOnePlace
  <2>2. ASSUME NEW c \in Idle PROVE c \in InQueue BY <1>1 DEF ConnInOnePlace
  <2> QED BY <2>1, <2>2
<1> HIDE DEF Idle
<1>5. connections \in Bijection(1..n, Idle)
  <2>1. connections \in [1..n -> Idle] BY <1>2, <1>4 DEF InQueue
  <2>2. \A i, j \in 1..n : connections[i] = connections[j] => i = j BY <1>1 DEF ConnInOnePlace
  <2>3. \A c \in Idle : \E i \in 1..n : connections[i] = c BY <1>4 DEF InQueue
  <2> QED BY <2>1, <2>2, <2>3 DEF Bijection, Injection, Surjection, IsInjective
<1>6. ExistsBijection(1..n, Idle) BY <1>5 DEF ExistsBijection
<1>7. Cardinality(Idle) = n BY <1>2, <1>6, FS_CountingElements
<1> QED BY <1>1, <1>7 DEF AvailableExact, Idle

(***************************************************************************)
(* available() always answers how many open connections no thread uses,    *)
(* however init, acquire, release and shutdown alternate.                  *)
(***************************************************************************)
THEOREM CountExact == Spec => []AvailableExact
<1> QED BY IdleCounted, Invariance, PTL

\* The state keeps its type: whatever init, acquire, release and shutdown do, the queue holds
\* connections and the counts stay natural numbers.
THEOREM TypeCorrect == Spec => []TypeOK
<1>1. IInv => TypeOK BY DEF IInv
<1> QED BY <1>1, Invariance, PTL
=============================================================================
