------------------------------ MODULE ChatProofs ------------------------------
(***************************************************************************)
(* The chat server, for any number of clients and any timeouts: its users  *)
(* share one conversation and know who is in the room, and no message is   *)
(* left ready in KCP.                                                      *)
(***************************************************************************)
EXTENDS Chat, SequenceTheorems, FiniteSetTheorems, WellFoundedInduction, TLAPS

\* t ends with s.
Ends(s, t) == \E p \in Seq(Notice) : t = p \o s

\* The last that s says of anybody is that he left exactly when he is not among us.
Knows(s, us) ==
  \A c \in Client : \A i \in LastAbout(s, c) : s[i].kind = "left" <=> c \notin us

\* The room: who has no session has been told nothing that is still to be sent.
RoomInv ==
  /\ users = {c \in Client : session[c] # None}
  /\ \A c \in Client \ users : out[c] = << >>
  /\ \A u, v \in users : Ends(out[u], out[v]) \/ Ends(out[v], out[u])
  /\ \A u \in users : /\ out[u] # << >> /\ out[u][1] = Join(u)
                      /\ Knows(out[u], users)

\* What a session has received is what its client has sent.
ReceivedInv ==
  \A c \in Client : session[c] # None =>
     /\ session[c].nxt <= Len(up[c])
     /\ session[c].buf \subseteq (session[c].nxt + 1)..Len(up[c])

IInv == TypeOK /\ RoomInv /\ ReceivedInv /\ ReadsAll

-----------------------------------------------------------------------------
(* Numbers and orders *)

LEMMA LeastNat == ASSUME NEW S \in SUBSET Nat, S # {} PROVE \E x \in S : \A y \in S : x <= y
<1>1. PICK x \in S : \A y \in S : ~(<<y, x>> \in OpToRel(<, Nat))
  BY WFMin, NatLessThanWellFounded
<1>2. ASSUME NEW y \in S PROVE x <= y
  <2>1. ~(<<y, x>> \in OpToRel(<, Nat)) BY <1>1
  <2>2. y \in Nat /\ x \in Nat OBVIOUS
  <2>3. ~(y < x) BY <2>1, <2>2 DEF OpToRel
  <2> QED BY <2>3, <2>2
<1> QED BY <1>2

LEMMA UpToFinite ==
  ASSUME NEW L \in Nat, NEW S \in SUBSET (1..L)
  PROVE  IsFiniteSet(S) /\ Cardinality(S) \in Nat
<1>1. IsFiniteSet(1..L) BY FS_Interval
<1>2. IsFiniteSet(S) BY <1>1, FS_Subset
<1> QED BY <1>2, FS_CardinalityType

LEMMA OrderFacts ==
  ASSUME NEW S, IsFiniteSet(S), NEW f \in SetToSeqs(S)
  PROVE  /\ Cardinality(S) \in Nat /\ f \in Seq(S) /\ Len(f) = Cardinality(S)
         /\ DOMAIN f = 1..Len(f)
         /\ \A x \in S : \E i \in 1..Len(f) : f[i] = x
<1> DEFINE n == Cardinality(S)
<1>1. n \in Nat BY FS_CardinalityType
<1>2. f \in [1..n -> S] /\ \A i, j \in 1..n : i # j => f[i] # f[j] BY DEF SetToSeqs
<1>3. f \in Seq(S) /\ Len(f) = n BY <1>1, <1>2
<1>4. Cardinality(1..n) = n /\ IsFiniteSet(1..n) BY <1>1, FS_Interval
<1>5. f \in Injection(1..n, S) BY <1>2 DEF Injection, IsInjective
<1>6. f \in Surjection(1..n, S) BY <1>4, <1>5, FS_Injection
<1> QED BY <1>1, <1>2, <1>3, <1>6 DEF Surjection

\* The numbers of a set in increasing order
Sorted(S) == {f \in SetToSeqs(S) : \A i, j \in DOMAIN f : i < j => f[i] < f[j]}

\* A set of numbers up to L can be put in order: its largest goes last.
LEMMA SortedExists == ASSUME NEW L \in Nat, NEW S \in SUBSET (1..L) PROVE Sorted(S) # {}
<1> DEFINE Bad == {n \in Nat : \E R \in SUBSET (1..L) : Cardinality(R) = n /\ Sorted(R) = {}}
<1>0. \A R \in SUBSET (1..L) : IsFiniteSet(R) /\ Cardinality(R) \in Nat
  BY UpToFinite
<1>1. SUFFICES ASSUME Sorted(S) = {} PROVE FALSE
  OBVIOUS
<1>2. Cardinality(S) \in Bad BY <1>0, <1>1
<1>3. PICK n \in Bad : \A m \in Bad : n <= m BY <1>2, LeastNat
<1>4. PICK R \in SUBSET (1..L) : Cardinality(R) = n /\ Sorted(R) = {} BY <1>3
<1>5. R # {}
  <2>1. << >> \in Sorted({}) BY FS_EmptySet DEF Sorted, SetToSeqs
  <2> QED BY <2>1, <1>4
<1>6. PICK x \in R : \A y \in R : y <= x
  <2> DEFINE D == {L - y : y \in R}
  <2>0. \A y \in R : y \in Int /\ L - y \in Nat OBVIOUS
  <2>1. D \in SUBSET Nat /\ D # {} BY <2>0, <1>5
  <2>2. PICK d \in D : \A e \in D : d <= e BY <2>1, LeastNat
  <2>3. PICK x \in R : d = L - x BY <2>2
  <2>4. ASSUME NEW y \in R PROVE y <= x
    <3>1. L - x <= L - y BY <2>2, <2>3
    <3> QED BY <3>1
  <2> QED BY <2>4
<1>7. /\ IsFiniteSet(R) /\ R \ {x} \in SUBSET (1..L) /\ n \in Nat
      /\ Cardinality(R \ {x}) = n - 1
  BY <1>0, <1>4, <1>6, FS_RemoveElement
<1>8. n - 1 \in Nat BY <1>0, <1>7
<1>9. PICK f \in Sorted(R \ {x}) : TRUE
  <2>1. n - 1 \notin Bad BY <1>3, <1>7, <1>8
  <2> QED BY <2>1, <1>7, <1>8
<1>10. /\ f \in [1..n - 1 -> R \ {x}]
       /\ \A i, j \in 1..n - 1 : i < j => f[i] < f[j]
  BY <1>7, <1>9 DEF Sorted, SetToSeqs
<1> DEFINE g == [i \in 1..n |-> IF i = n THEN x ELSE f[i]]
<1>11. g \in [1..n -> R] BY <1>6, <1>7, <1>8, <1>10
<1>12. ASSUME NEW i \in 1..n, NEW j \in 1..n, i < j PROVE g[i] < g[j]
  <2>0. i \in 1..n - 1 /\ g[i] = f[i] BY <1>12, <1>7, <1>8
  <2>1. f[i] \in R \ {x} /\ f[i] \in Nat /\ x \in Nat /\ i \in 1..n - 1 /\ g[i] = f[i]
    <3> HIDE DEF g
    <3>1. f[i] \in R \ {x} BY <2>0, <1>10
    <3>2. \A y \in R : y \in Nat OBVIOUS
    <3> QED BY <3>1, <3>2, <2>0
  <2>2. CASE j = n
    <3>1. g[j] = x /\ f[i] <= x /\ f[i] # x BY <2>1, <2>2, <1>6
    <3> QED BY <2>1, <3>1
  <2>3. CASE j # n
    <3>1. j \in 1..n - 1 /\ g[j] = f[j] BY <2>3, <1>12, <1>7, <1>8
    <3> QED BY <2>1, <3>1, <1>10, <1>12
  <2> QED BY <2>2, <2>3
<1>13. ASSUME NEW i \in 1..n, NEW j \in 1..n, i # j PROVE g[i] # g[j]
  <2>0. \A y \in R : y \in Nat OBVIOUS
  <2>1. g[i] \in Nat /\ g[j] \in Nat BY <2>0, <1>11
  <2>2. i < j \/ j < i BY <1>13
  <2> HIDE DEF g
  <2>3. g[i] < g[j] \/ g[j] < g[i] BY <2>2, <1>12
  <2> QED BY <2>1, <2>3
<1>14. g \in Sorted(R)
  <2> HIDE DEF g
  <2>1. DOMAIN g = 1..n BY <1>11
  <2>2. g \in SetToSeqs(R) BY <1>4, <1>11, <1>13 DEF SetToSeqs
  <2> QED BY <2>1, <2>2, <1>12 DEF Sorted
<1> QED BY <1>14, <1>4

\* HandleMessage is called with messages of the batch, and for its own client.
LEMMA HandledFacts ==
  ASSUME NEW c \in Client, NEW batch \in Seq(Message)
  PROVE  /\ Handled(c, batch) \in Seq(Notice)
         /\ \A k \in 1..Len(Handled(c, batch)) :
              Handled(c, batch)[k].who = c /\ Handled(c, batch)[k].kind = "said"
<1> DEFINE T == Texts(batch)
           f == CHOOSE g \in SetToSeqs(T) : \A i, j \in DOMAIN g : i < j => g[i] < g[j]
           h == [i \in 1..Len(f) |-> Said(c, batch[f[i]])]
<1>1. Len(batch) \in Nat /\ T \in SUBSET (1..Len(batch)) BY DEF Texts
<1>2. \E g \in SetToSeqs(T) : \A i, j \in DOMAIN g : i < j => g[i] < g[j]
  BY <1>1, SortedExists DEF Sorted
<1>3. f \in SetToSeqs(T) BY <1>2
<1>4. Handled(c, batch) = h BY DEF Handled
<1>5. IsFiniteSet(T) BY <1>1, UpToFinite
<1> HIDE DEF f, T
<1>6. f \in Seq(T) /\ Len(f) \in Nat BY <1>3, <1>5, OrderFacts
<1>7. ASSUME NEW i \in 1..Len(f) PROVE batch[f[i]] \in Message
  <2>1. f[i] \in T BY <1>6
  <2>2. f[i] \in 1..Len(batch) BY <2>1, <1>1
  <2> QED BY <2>2
<1>8. \A m \in Message : /\ Said(c, m) \in Notice /\ Said(c, m).who = c
                         /\ Said(c, m).kind = "said"
  BY DEF Said, Notice
<1>9. h \in Seq(Notice) /\ Len(h) = Len(f) BY <1>6, <1>7, <1>8
<1>10. \A k \in 1..Len(f) : h[k].who = c /\ h[k].kind = "said" BY <1>7, <1>8
<1> QED BY <1>4, <1>9, <1>10

\* What HandleSession finds ready is the numbers behind nxt up to the first gap.
LEMMA InOrderFacts ==
  ASSUME NEW nxt \in Nat, NEW L \in Nat, nxt <= L, NEW buf \in SUBSET ((nxt + 1)..L)
  PROVE  LET m == Cardinality(InOrder(nxt, buf)) IN
         m \in Nat /\ nxt + m <= L /\ nxt + m + 1 \notin buf
<1> DEFINE missing == {k \in Nat : k > nxt /\ k \notin buf}
<1>1. L + 1 \in missing OBVIOUS
<1>2. PICK x \in missing : \A y \in missing : x <= y
  BY <1>1, LeastNat
<1>3. x \in Nat /\ x > nxt /\ x \notin buf /\ x <= L + 1 BY <1>1, <1>2
<1>4. \A k \in (nxt + 1)..(x - 1) : k \in buf
  <2> TAKE k \in (nxt + 1)..(x - 1)
  <2>1. k \in Nat /\ k > nxt /\ k < x BY <1>3
  <2>2. k \notin missing BY <2>1, <1>2, <1>3
  <2> QED BY <2>1, <2>2
<1>5. InOrder(nxt, buf) = (nxt + 1)..(x - 1)
  <2>1. ASSUME NEW k \in InOrder(nxt, buf) PROVE k \in (nxt + 1)..(x - 1)
    <3>1. k \in buf /\ (nxt + 1)..k \subseteq buf BY DEF InOrder
    <3>2. k \in Nat /\ k > nxt BY <3>1
    <3>3. ~(x <= k)
      <4>1. x <= k => x \in (nxt + 1)..k BY <1>3, <3>2
      <4> QED BY <4>1, <3>1, <1>3
    <3> QED BY <3>2, <3>3, <1>3
  <2>2. ASSUME NEW k \in (nxt + 1)..(x - 1) PROVE k \in InOrder(nxt, buf)
    <3>1. (nxt + 1)..k \subseteq (nxt + 1)..(x - 1) BY <1>3
    <3> QED BY <3>1, <1>4 DEF InOrder
  <2> QED BY <2>1, <2>2
<1>6. Cardinality((nxt + 1)..(x - 1)) = x - 1 - nxt
  <2>1. nxt + 1 \in Int /\ x - 1 \in Int BY <1>3
  <2>2. Cardinality((nxt + 1)..(x - 1)) =
          IF nxt + 1 > x - 1 THEN 0 ELSE (x - 1) - (nxt + 1) + 1
    BY <2>1, FS_Interval
  <2> QED BY <2>2, <1>3
<1> QED BY <1>3, <1>5, <1>6

-----------------------------------------------------------------------------
(* The streams *)

LEMMA EndsIsSuffix ==
  ASSUME NEW s \in Seq(Notice), NEW t \in Seq(Notice), Ends(s, t)
  PROVE  IsSuffix(s, t)
<1> DEFINE rs == Reverse(s)
           rt == Reverse(t)
<1>1. PICK p \in Seq(Notice) : t = p \o s BY DEF Ends
<1>2. /\ Len(t) = Len(p) + Len(s) /\ Len(p) \in Nat /\ Len(s) \in Nat
      /\ \A i \in 1..(Len(p) + Len(s)) : t[i] = IF i <= Len(p) THEN p[i] ELSE s[i - Len(p)]
  BY <1>1, ConcatProperties
<1>3. /\ rs \in Seq(Notice) /\ Len(rs) = Len(s)
      /\ \A i \in 1..Len(s) : rs[i] = s[(Len(s) - i) + 1]
  BY DEF Reverse
<1>4. /\ rt \in Seq(Notice) /\ Len(rt) = Len(t)
      /\ \A i \in 1..Len(t) : rt[i] = t[(Len(t) - i) + 1]
  BY DEF Reverse
<1> HIDE DEF rs, rt
<1>5. ASSUME NEW i \in 1..Len(s) PROVE rs[i] = rt[i]
  <2>1. /\ i \in 1..Len(t) /\ (Len(t) - i) + 1 \in 1..(Len(p) + Len(s))
        /\ ~((Len(t) - i) + 1 <= Len(p)) /\ ((Len(t) - i) + 1) - Len(p) = (Len(s) - i) + 1
    BY <1>2
  <2>2. t[(Len(t) - i) + 1] = s[((Len(t) - i) + 1) - Len(p)] BY <2>1, <1>2
  <2> QED BY <2>1, <2>2, <1>3, <1>4
<1>6. SubSeq(rs, 1, Len(rs)) = SubSeq(rt, 1, Len(rs))
  <2>1. \A i \in 1..Len(s) : rs[i] \in Notice /\ rt[i] \in Notice BY <1>3, <1>5
  <2>2. /\ SubSeq(rs, 1, Len(s)) \in Seq(Notice) /\ SubSeq(rt, 1, Len(s)) \in Seq(Notice)
        /\ Len(SubSeq(rs, 1, Len(s))) = Len(s) /\ Len(SubSeq(rt, 1, Len(s))) = Len(s)
        /\ \A i \in 1..Len(s) : /\ SubSeq(rs, 1, Len(s))[i] = rs[i]
                                /\ SubSeq(rt, 1, Len(s))[i] = rt[i]
    BY <2>1, <1>2, <1>3, <1>4
  <2>3. SubSeq(rs, 1, Len(s)) = SubSeq(rt, 1, Len(s))
    BY <2>2, <1>5, SeqEqual
  <2> QED BY <2>3, <1>3
<1> QED BY <1>2, <1>3, <1>4, <1>6 DEF IsSuffix, IsPrefix, rs, rt

LEMMA EndsAppend ==
  ASSUME NEW s \in Seq(Notice), NEW t \in Seq(Notice), NEW ns \in Seq(Notice), Ends(s, t)
  PROVE  Ends(s \o ns, t \o ns)
<1>1. PICK p \in Seq(Notice) : t = p \o s BY DEF Ends
<1>2. t \o ns = p \o (s \o ns) BY <1>1, ConcatAssociative
<1> QED BY <1>2 DEF Ends

\* Of who comes or goes between us and vs, the notices tell.
LEMMA KnowsAppend ==
  ASSUME NEW s \in Seq(Notice), NEW ns \in Seq(Notice), NEW us, NEW vs, Knows(s, us),
         \A k \in 1..Len(ns) : ns[k].kind = "left" <=> ns[k].who \notin vs,
         \A c \in Client : ~(c \in us <=> c \in vs) => \E k \in 1..Len(ns) : ns[k].who = c
  PROVE  Knows(s \o ns, vs)
<1> DEFINE t == s \o ns
<1>1. /\ t \in Seq(Notice) /\ Len(t) = Len(s) + Len(ns) /\ Len(s) \in Nat /\ Len(ns) \in Nat
      /\ \A i \in 1..(Len(s) + Len(ns)) : t[i] = IF i <= Len(s) THEN s[i] ELSE ns[i - Len(s)]
  BY ConcatProperties
<1> HIDE DEF t
<1>2. SUFFICES ASSUME NEW c \in Client, NEW i \in LastAbout(t, c)
               PROVE  t[i].kind = "left" <=> c \notin vs
  BY DEF Knows, t
<1>3. i \in 1..Len(t) /\ t[i].who = c /\ \A j \in (i + 1)..Len(t) : t[j].who # c
  BY DEF LastAbout
<1>4. CASE i <= Len(s)
  <2>1. t[i] = s[i] /\ i \in 1..Len(s) BY <1>1, <1>3, <1>4
  <2>2. ASSUME NEW j \in (i + 1)..Len(s) PROVE s[j].who # c
    <3>1. j \in (i + 1)..Len(t) /\ j \in 1..(Len(s) + Len(ns)) /\ j <= Len(s) BY <1>1, <1>3
    <3>2. t[j] = s[j] BY <3>1, <1>1
    <3> QED BY <3>1, <3>2, <1>3
  <2>3. i \in LastAbout(s, c) BY <2>1, <2>2, <1>3 DEF LastAbout
  <2>4. s[i].kind = "left" <=> c \notin us BY <2>3 DEF Knows
  <2>5. ASSUME NEW k \in 1..Len(ns) PROVE ns[k].who # c
    <3>1. /\ Len(s) + k \in (i + 1)..Len(t) /\ Len(s) + k \in 1..(Len(s) + Len(ns))
          /\ ~(Len(s) + k <= Len(s)) /\ (Len(s) + k) - Len(s) = k
      BY <1>1, <1>3, <1>4
    <3>2. t[Len(s) + k] = ns[k] BY <3>1, <1>1
    <3> QED BY <3>1, <3>2, <1>3
  <2> QED BY <2>1, <2>4, <2>5
<1>5. CASE ~(i <= Len(s))
  <2>1. i - Len(s) \in 1..Len(ns) /\ t[i] = ns[i - Len(s)] BY <1>1, <1>3, <1>5
  <2> QED BY <2>1, <1>3
<1> QED BY <1>4, <1>5

\* A step that sends the same notices to all who are users then.
LEMMA RoomStep ==
  ASSUME TypeOK, RoomInv, NEW ns \in Seq(Notice),
         users' = {c \in Client : session'[c] # None},
         \A u \in Client : out'[u] = IF u \in users' THEN out[u] \o ns ELSE << >>,
         \A u \in users' \ users : ns # << >> /\ ns[1] = Join(u),
         \A k \in 1..Len(ns) : ns[k].kind = "left" <=> ns[k].who \notin users',
         \A c \in Client : ~(c \in users <=> c \in users') => \E k \in 1..Len(ns) : ns[k].who = c
  PROVE  RoomInv'
<1>1. \A u \in Client : out[u] \in Seq(Notice) BY DEF TypeOK
<1>2. users \subseteq Client /\ users' \subseteq Client BY DEF TypeOK
<1>3. \A u \in users' : out'[u] = out[u] \o ns BY <1>2
<1>4. \A u \in users' \ users : out'[u] = ns
  BY <1>1, <1>2, <1>3, ConcatEmptySeq DEF RoomInv
<1>5. ASSUME NEW u \in users', NEW v \in users'
      PROVE  Ends(out'[u], out'[v]) \/ Ends(out'[v], out'[u])
  <2>1. out[u] \in Seq(Notice) /\ out[v] \in Seq(Notice) BY <1>1, <1>2
  <2>2. \A x, y \in users' : x \notin users => Ends(out'[x], out'[y])
    BY <1>1, <1>2, <1>3, <1>4 DEF Ends
  <2>3. CASE u \in users /\ v \in users
    <3>1. Ends(out[u], out[v]) \/ Ends(out[v], out[u]) BY <2>3 DEF RoomInv
    <3>2. Ends(out[u] \o ns, out[v] \o ns) \/ Ends(out[v] \o ns, out[u] \o ns)
      BY <2>1, <3>1, EndsAppend
    <3> QED BY <3>2, <1>3
  <2> QED BY <2>2, <2>3
<1>6. ASSUME NEW u \in users' PROVE out'[u] # << >> /\ out'[u][1] = Join(u)
  <2>1. CASE u \in users
    <3>1. out[u] \in Seq(Notice) /\ out[u] # << >> /\ out[u][1] = Join(u)
      BY <2>1, <1>1, <1>2 DEF RoomInv
    <3>2. Len(out[u]) \in Nat /\ Len(out[u]) # 0 BY <3>1
    <3>3. /\ Len(out[u] \o ns) = Len(out[u]) + Len(ns) /\ Len(ns) \in Nat
          /\ \A i \in 1..(Len(out[u]) + Len(ns)) :
               (out[u] \o ns)[i] = IF i <= Len(out[u]) THEN out[u][i] ELSE ns[i - Len(out[u])]
      BY <3>1, ConcatProperties
    <3>4. 1 \in 1..(Len(out[u]) + Len(ns)) /\ 1 <= Len(out[u]) BY <3>2, <3>3
    <3>5. (out[u] \o ns)[1] = Join(u) BY <3>1, <3>3, <3>4
    <3>6. out[u] \o ns # << >> BY <3>2, <3>3
    <3> QED BY <3>5, <3>6, <1>3
  <2>2. CASE u \notin users BY <2>2, <1>4
  <2> QED BY <2>1, <2>2
<1>7. ASSUME NEW u \in users' PROVE Knows(out'[u], users')
  <2>1. Knows(out[u], users)
    <3>1. CASE u \in users BY <3>1 DEF RoomInv
    <3>2. CASE u \notin users
      <4>1. out[u] = << >> BY <3>2, <1>2 DEF RoomInv
      <4>2. \A c \in Client : LastAbout(<< >>, c) = {} BY DEF LastAbout
      <4> QED BY <4>1, <4>2 DEF Knows
    <3> QED BY <3>1, <3>2
  <2>2. out[u] \in Seq(Notice) BY <1>1, <1>2
  <2>3. Knows(out[u] \o ns, users') BY <2>1, <2>2, KnowsAppend
  <2> QED BY <2>3, <1>3
<1>8. \A c \in Client \ users' : out'[c] = << >> OBVIOUS
<1> QED BY <1>5, <1>6, <1>7, <1>8 DEF RoomInv, Knows, Ends, Join, LastAbout

\* A step in which nobody comes, goes or is told anything.
LEMMA RoomKept ==
  ASSUME TypeOK, RoomInv, UNCHANGED <<users, out>>,
         \A c \in Client : session'[c] = None <=> session[c] = None
  PROVE  RoomInv'
<1>1. << >> \in Seq(Notice) /\ Len(<< >>) = 0 OBVIOUS
<1>2. users' = {c \in Client : session'[c] # None} BY DEF RoomInv
<1>3. ASSUME NEW u \in Client PROVE out'[u] = IF u \in users' THEN out[u] \o << >> ELSE << >>
  <2>1. out[u] \o << >> = out[u] BY ConcatEmptySeq DEF TypeOK
  <2> QED BY <2>1 DEF RoomInv
<1>4. \A k \in 1..Len(<< >>) : FALSE BY <1>1
<1> QED BY <1>1, <1>2, <1>3, <1>4, RoomStep

-----------------------------------------------------------------------------
(* The actions *)

LEMMA InitInv == Init => IInv
<1> SUFFICES ASSUME Init PROVE IInv
  OBVIOUS
<1> USE ChatAssumption DEF Init
<1>1. TypeOK
  <2>1. /\ up \in [Client -> Seq(Message)] /\ out \in [Client -> Seq(Notice)]
        /\ idle \in [Client -> 0..(KeepAlive + 1)]
        /\ session \in [Client -> Session \cup {None}]
        /\ joins \in [Client -> 0..MaxSessions] /\ users \subseteq Client
    OBVIOUS
  <2>2. swallowed \in BOOLEAN BY Zenon
  <2> QED BY <2>1, <2>2 DEF TypeOK
<1>2. RoomInv BY DEF RoomInv
<1>3. ReceivedInv /\ ReadsAll BY DEF ReceivedInv, ReadsAll
<1> QED BY <1>1, <1>2, <1>3 DEF IInv

\* A client sends: the server is not concerned, and keeps seeing what was sent before.
LEMMA SendInv ==
  ASSUME IInv, NEW c \in Client, NEW m \in Message,
         up' = [up EXCEPT ![c] = Append(@, m)], UNCHANGED serverVars,
         idle' \in [Client -> 0..(KeepAlive + 1)]
  PROVE  IInv'
<1>0. TypeOK /\ RoomInv /\ ReceivedInv /\ ReadsAll BY DEF IInv
<1>1. UNCHANGED <<session, joins, users, out, swallowed>> BY DEF serverVars
<1>2. up[c] \in Seq(Message) BY <1>0 DEF TypeOK
<1>3. \A d \in Client : up'[d] = IF d = c THEN Append(up[c], m) ELSE up[d]
  BY <1>0 DEF TypeOK
<1>4. up' \in [Client -> Seq(Message)]
  <2>1. Append(up[c], m) \in Seq(Message) BY <1>2
  <2> QED BY <2>1, <1>0 DEF TypeOK
<1>5. TypeOK' BY <1>0, <1>1, <1>4 DEF TypeOK
<1>6. RoomInv' BY <1>0, <1>1, RoomKept
<1>7. ASSUME NEW d \in Client
      PROVE  /\ Len(up[d]) \in Nat /\ Len(up'[d]) \in Nat /\ Len(up[d]) <= Len(up'[d])
             /\ \A i \in 1..Len(up[d]) : up'[d][i] = up[d][i]
  <2>1. up[d] \in Seq(Message) BY <1>0 DEF TypeOK
  <2> QED BY <2>1, <1>2, <1>3
<1>8. \A d \in Client : session[d] # None => session[d] \in Session BY <1>0 DEF TypeOK
<1>9. ReceivedInv'
  <2>1. ASSUME NEW d \in Client, session[d] # None
        PROVE  /\ session[d].nxt <= Len(up'[d])
               /\ session[d].buf \subseteq (session[d].nxt + 1)..Len(up'[d])
    <3>1. /\ session[d].nxt \in Nat /\ session[d].nxt <= Len(up[d])
          /\ session[d].buf \subseteq (session[d].nxt + 1)..Len(up[d])
      BY <2>1, <1>0, <1>8 DEF ReceivedInv, Session
    <3> QED BY <3>1, <1>7
  <2> QED BY <2>1, <1>1 DEF ReceivedInv
<1>10. ReadsAll'
  <2>1. ASSUME NEW d \in Client, session[d] # None, session[d].nxt + 1 \in session[d].buf
        PROVE  session[d].nxt > 0 /\ up'[d][session[d].nxt] = "empty"
    <3>1. session[d].nxt \in Nat /\ session[d].nxt <= Len(up[d])
      BY <2>1, <1>0, <1>8 DEF ReceivedInv, Session
    <3>2. session[d].nxt > 0 /\ up[d][session[d].nxt] = "empty" BY <2>1, <1>0 DEF ReadsAll
    <3>3. session[d].nxt \in 1..Len(up[d]) BY <3>1, <3>2, <1>7
    <3> QED BY <3>2, <3>3, <1>7
  <2> QED BY <2>1, <1>1 DEF ReadsAll
<1> QED BY <1>5, <1>6, <1>9, <1>10 DEF IInv

LEMMA TypeInv == ASSUME IInv, NEW c \in Client, Type(c) PROVE IInv'
<1>1. PICK m \in Typed : up' = [up EXCEPT ![c] = Append(@, m)] BY DEF Type
<1>2. m \in Message BY DEF Message
<1>3. UNCHANGED serverVars /\ UNCHANGED idle BY DEF Type
<1>4. idle' \in [Client -> 0..(KeepAlive + 1)] BY <1>3 DEF IInv, TypeOK
<1> QED BY <1>1, <1>2, <1>3, <1>4, SendInv

LEMMA SendKeepAliveInv == ASSUME IInv, NEW c \in Client, SendKeepAlive(c) PROVE IInv'
<1>1. /\ up' = [up EXCEPT ![c] = Append(@, "alive")] /\ idle' = [idle EXCEPT ![c] = 0]
      /\ UNCHANGED serverVars
  BY DEF SendKeepAlive
<1>2. "alive" \in Message BY DEF Message
<1>3. idle' \in [Client -> 0..(KeepAlive + 1)] BY <1>1, ChatAssumption DEF IInv, TypeOK
<1> QED BY <1>1, <1>2, <1>3, SendInv

\* A step that changes nothing of a session but its age.
LEMMA AgeInv ==
  ASSUME IInv, session' \in [Client -> Session \cup {None}],
         idle' \in [Client -> 0..(KeepAlive + 1)],
         \A c \in Client : /\ session'[c] = None <=> session[c] = None
                           /\ session[c] # None => /\ session'[c].nxt = session[c].nxt
                                                   /\ session'[c].buf = session[c].buf,
         UNCHANGED <<up, joins, users, out, swallowed>>
  PROVE  IInv'
<1>0. TypeOK /\ RoomInv /\ ReceivedInv /\ ReadsAll BY DEF IInv
<1>1. TypeOK' BY <1>0 DEF TypeOK
<1>3. RoomInv' BY <1>0, RoomKept
<1>4. ReceivedInv' BY <1>0 DEF ReceivedInv
<1>5. ReadsAll' BY <1>0 DEF ReadsAll
<1> QED BY <1>1, <1>3, <1>4, <1>5 DEF IInv

LEMMA TickInv == ASSUME IInv, Tick PROVE IInv'
<1>0. TypeOK BY DEF IInv
<1>1. UNCHANGED <<up, joins, users, out, swallowed>> BY DEF Tick
<1>2. idle' \in [Client -> 0..(KeepAlive + 1)]
  <2>1. \A c \in Client : idle[c] \in 0..(KeepAlive + 1) BY <1>0 DEF TypeOK
  <2>2. idle' = [c \in Client |-> IF idle[c] > KeepAlive THEN idle[c] ELSE idle[c] + 1]
    BY DEF Tick
  <2> QED BY <2>1, <2>2, ChatAssumption
<1>3. ASSUME NEW c \in Client
      PROVE  /\ session'[c] \in Session \cup {None}
             /\ session'[c] = None <=> session[c] = None
             /\ session[c] # None => /\ session'[c].nxt = session[c].nxt
                                     /\ session'[c].buf = session[c].buf
  <2>1. session'[c] = IF session[c] = None \/ session[c].age \in {Unset, Timeout + 1}
                        THEN session[c] ELSE [session[c] EXCEPT !.age = session[c].age + 1]
    BY DEF Tick
  <2>2. CASE session[c] = None \/ session[c].age \in {Unset, Timeout + 1}
    BY <2>1, <2>2, <1>0 DEF TypeOK
  <2>3. CASE ~(session[c] = None \/ session[c].age \in {Unset, Timeout + 1})
    <3>1. session[c] \in Session BY <2>3, <1>0 DEF TypeOK
    <3>2. session[c].age + 1 \in 0..(Timeout + 1) BY <2>3, <3>1, ChatAssumption DEF Session
    <3>3. /\ session'[c] \in Session /\ session'[c].nxt = session[c].nxt
          /\ session'[c].buf = session[c].buf
      BY <2>1, <2>3, <3>1, <3>2 DEF Session
    <3> QED BY <2>3, <3>3, ChatAssumption
  <2> QED BY <2>2, <2>3
<1>4. session' \in [Client -> Session \cup {None}]
  <2>1. session' = [c \in Client |-> session'[c]] BY DEF Tick
  <2> QED BY <2>1, <1>3
<1> QED BY <1>1, <1>2, <1>3, <1>4, AgeInv

\* The sessions that have expired are closed in one walk; who stays is told of each.
LEMMA UpdateInv == ASSUME IInv, Update PROVE IInv'
<1>0. TypeOK /\ RoomInv /\ ReceivedInv /\ ReadsAll BY DEF IInv
<1>1. UNCHANGED <<up, idle, joins, swallowed>> BY DEF Update, clientVars
<1>2. PICK order \in SetToSeqs(Expired) :
         /\ session' = [c \in Client |->
                          IF session[c] = None \/ c \in Expired THEN None
                          ELSE IF session[c].age = Unset THEN [session[c] EXCEPT !.age = 0]
                          ELSE session[c]]
         /\ users' = users \ Expired
         /\ out' = Notify([c \in Client |-> IF c \in Expired THEN << >> ELSE out[c]],
                          users \ Expired, [i \in 1..Len(order) |-> Left(order[i])])
  BY DEF Update, Remaining
<1> DEFINE ns == [i \in 1..Len(order) |-> Left(order[i])]
<1>3. Expired \subseteq Client /\ IsFiniteSet(Expired)
  BY ChatAssumption, FS_Subset DEF Expired
<1>4. /\ order \in Seq(Expired) /\ Len(order) \in Nat
      /\ \A c \in Expired : \E i \in 1..Len(order) : order[i] = c
  BY <1>3, OrderFacts
<1>5. /\ ns \in Seq(Notice) /\ Len(ns) = Len(order)
      /\ \A i \in 1..Len(order) : ns[i].kind = "left" /\ ns[i].who = order[i]
  <2>1. \A i \in 1..Len(order) : order[i] \in Client BY <1>3, <1>4
  <2>2. \A c \in Client : Left(c) \in Notice /\ Left(c).kind = "left" /\ Left(c).who = c
    BY DEF Left, Notice, Message, Typed
  <2>3. \A i \in 1..Len(order) : Left(order[i]) \in Notice BY <2>1, <2>2
  <2>4. ns \in Seq(Notice) /\ Len(ns) = Len(order) BY <2>3, <1>4
  <2>5. \A i \in 1..Len(order) : ns[i] = Left(order[i]) OBVIOUS
  <2> QED BY <2>1, <2>2, <2>4, <2>5
<1> HIDE DEF ns
<1>6. ASSUME NEW c \in Client
      PROVE  /\ session'[c] \in Session \cup {None}
             /\ session'[c] = None <=> session[c] = None \/ c \in Expired
             /\ session'[c] # None => /\ session'[c].nxt = session[c].nxt
                                      /\ session'[c].buf = session[c].buf
  <2>1. session'[c] = IF session[c] = None \/ c \in Expired THEN None
                      ELSE IF session[c].age = Unset THEN [session[c] EXCEPT !.age = 0]
                      ELSE session[c]
    BY <1>2
  <2>2. CASE session[c] = None \/ c \in Expired BY <2>1, <2>2
  <2>3. CASE ~(session[c] = None \/ c \in Expired)
    <3>1. session[c] \in Session BY <2>3, <1>0 DEF TypeOK
    <3>2. 0 \in {Unset} \cup 0..(Timeout + 1) BY ChatAssumption
    <3>3. /\ session'[c] \in Session /\ session'[c].nxt = session[c].nxt
          /\ session'[c].buf = session[c].buf
      BY <2>1, <2>3, <3>1, <3>2 DEF Session
    <3> QED BY <2>3, <3>3, ChatAssumption
  <2> QED BY <2>2, <2>3
<1>7. session' \in [Client -> Session \cup {None}]
  <2>1. session' = [c \in Client |-> session'[c]] BY <1>2
  <2> QED BY <2>1, <1>6
<1>8. users' = {c \in Client : session'[c] # None} BY <1>0, <1>2, <1>6 DEF RoomInv
<1>9. ASSUME NEW u \in Client PROVE out'[u] = IF u \in users' THEN out[u] \o ns ELSE << >>
  <2>1. out'[u] = IF u \in users \ Expired
                    THEN (IF u \in Expired THEN << >> ELSE out[u]) \o ns
                    ELSE IF u \in Expired THEN << >> ELSE out[u]
    BY <1>2 DEF Notify, ns
  <2> QED BY <2>1, <1>0, <1>2 DEF RoomInv
<1>10. out' \in [Client -> Seq(Notice)]
  <2>1. ASSUME NEW u \in Client PROVE out'[u] \in Seq(Notice)
    <3>1. out[u] \o ns \in Seq(Notice) BY <1>0, <1>5, ConcatProperties DEF TypeOK
    <3>2. << >> \in Seq(Notice) OBVIOUS
    <3>3. out'[u] = out[u] \o ns \/ out'[u] = << >> BY <1>9
    <3> QED BY <3>1, <3>2, <3>3, Zenon
  <2>2. out' = [u \in Client |-> out'[u]] BY <1>2 DEF Notify
  <2> QED BY <2>1, <2>2
<1>11. TypeOK' BY <1>0, <1>1, <1>2, <1>7, <1>10 DEF TypeOK
<1>12. RoomInv'
  <2>1. users' \ users = {} BY <1>2
  <2>2. \A k \in 1..Len(ns) : ns[k].kind = "left" <=> ns[k].who \notin users'
    <3>1. \A k \in 1..Len(ns) : ns[k].who \in Expired BY <1>4, <1>5
    <3> QED BY <3>1, <1>2, <1>5
  <2>3. ASSUME NEW c \in Client, ~(c \in users <=> c \in users')
        PROVE  \E k \in 1..Len(ns) : ns[k].who = c
    <3>1. c \in Expired BY <2>3, <1>2
    <3> QED BY <3>1, <1>4, <1>5
  <2> QED BY <2>1, <2>2, <2>3, <1>0, <1>5, <1>8, <1>9, RoomStep
<1>13. ReceivedInv' BY <1>0, <1>1, <1>6 DEF ReceivedInv
<1>14. ReadsAll' BY <1>0, <1>1, <1>6 DEF ReadsAll
<1> QED BY <1>11, <1>12, <1>13, <1>14 DEF IInv

LEMMA Associative ==
  ASSUME NEW x \in Seq(Notice), NEW y \in Seq(Notice), NEW z \in Seq(Notice)
  PROVE  (x \o y) \o z = x \o (y \o z)
BY ConcatAssociative

LEMMA BatchFacts ==
  ASSUME NEW ready \in Seq(Message), NEW n \in 0..Len(ready)
  PROVE  /\ SubSeq(ready, 1, n) \in Seq(Message) /\ Len(SubSeq(ready, 1, n)) = n
OBVIOUS

\* A datagram: the new user joins first, then all hear what was read.
LEMMA ReceiveInv == ASSUME IInv, NEW c \in Client, Receive(c) PROVE IInv'
<1>0. TypeOK /\ RoomInv /\ ReceivedInv /\ ReadsAll BY DEF IInv
<1> DEFINE s == GetSession(c)
           L == Len(up[c])
           got(k) == IF k > s.nxt THEN s.buf \cup {k} ELSE s.buf
           m(k) == Cardinality(InOrder(s.nxt, got(k)))
           rd(k) == [i \in 1..m(k) |-> up[c][s.nxt + i]]
<1>1. PICK k \in 0..L :
         /\ session[c] = None => joins[c] < MaxSessions
         /\ joins' = [joins EXCEPT ![c] = IF session[c] = None THEN @ + 1 ELSE @]
         /\ users' = users \cup {c}
         /\ UNCHANGED clientVars
         /\ \E n \in 0..Len(rd(k)) :
              LET batch == SubSeq(rd(k), 1, n) IN
              /\ rd(k) # << >> => n > 0 /\ ReadUpTo(rd(k), n)
              /\ session' = [session EXCEPT ![c] =
                               [nxt |-> s.nxt + n,
                                buf |-> {i \in got(k) : i > s.nxt + n},
                                age |-> Refreshed(s.age, batch)]]
              /\ out' = Notify(JoinStreams(c), users', Handled(c, batch))
              /\ swallowed' = (swallowed \/ \E i \in 1..n :
                                              batch[i] = "prefix" /\ TakenAsAlive(batch, i))
  BY DEF Receive
<1> DEFINE buf == got(k)
           ready == rd(k)
<1>2. PICK n \in 0..Len(ready) :
         /\ ready # << >> => n > 0 /\ ReadUpTo(ready, n)
         /\ session' = [session EXCEPT ![c] =
                          [nxt |-> s.nxt + n,
                           buf |-> {i \in buf : i > s.nxt + n},
                           age |-> Refreshed(s.age, SubSeq(ready, 1, n))]]
         /\ out' = Notify(JoinStreams(c), users', Handled(c, SubSeq(ready, 1, n)))
         /\ swallowed' = (swallowed \/ \E i \in 1..n : /\ SubSeq(ready, 1, n)[i] = "prefix"
                                                       /\ TakenAsAlive(SubSeq(ready, 1, n), i))
  BY <1>1
<1> DEFINE batch == SubSeq(ready, 1, n)
           said == Handled(c, batch)
<1>3. up[c] \in Seq(Message) /\ L \in Nat BY <1>0 DEF TypeOK
<1>4. /\ s \in Session /\ s.nxt \in Nat /\ s.nxt <= L /\ s.buf \subseteq (s.nxt + 1)..L
      /\ s.age \in {Unset} \cup 0..(Timeout + 1)
  <2>1. CASE session[c] = None
    <3>1. s = [nxt |-> 0, buf |-> {}, age |-> Unset] BY <2>1 DEF GetSession
    <3> QED BY <3>1, <1>3 DEF Session
  <2>2. CASE session[c] # None
    <3>1. s = session[c] /\ session[c] \in Session BY <2>2, <1>0 DEF GetSession, TypeOK
    <3> QED BY <3>1, <2>2, <1>0 DEF Session, ReceivedInv
  <2> QED BY <2>1, <2>2
<1> HIDE DEF s, L
<1>5. buf \in SUBSET ((s.nxt + 1)..L)
  BY <1>3, <1>4
<1> HIDE DEF got
<1>6. m(k) \in Nat /\ s.nxt + m(k) <= L /\ s.nxt + m(k) + 1 \notin buf
  BY <1>3, <1>4, <1>5, InOrderFacts
<1> HIDE DEF m
<1>7. /\ ready \in Seq(Message) /\ Len(ready) = m(k)
      /\ \A i \in 1..m(k) : ready[i] = up[c][s.nxt + i]
  <2>1. ASSUME NEW i \in 1..m(k) PROVE up[c][s.nxt + i] \in Message
    <3>1. s.nxt + i \in 1..L BY <1>3, <1>4, <1>6
    <3> QED BY <3>1, <1>3 DEF L
  <2> QED BY <2>1, <1>6
<1> HIDE DEF rd
<1>8. batch \in Seq(Message) /\ Len(batch) = n /\ n \in Nat /\ n <= m(k)
  BY <1>6, <1>7, BatchFacts
<1> HIDE DEF batch
<1>9. /\ said \in Seq(Notice)
      /\ \A i \in 1..Len(said) : said[i].who = c /\ said[i].kind = "said"
  BY <1>8, HandledFacts
<1> DEFINE made == [nxt |-> s.nxt + n, buf |-> {i \in buf : i > s.nxt + n},
                    age |-> Refreshed(s.age, batch)]
<1>10. /\ made \in Session /\ made # None /\ made.nxt = s.nxt + n
       /\ made.buf = {i \in buf : i > s.nxt + n}
  <2>1. Refreshed(s.age, batch) \in {Unset} \cup 0..(Timeout + 1)
    BY <1>4, ChatAssumption DEF Refreshed
  <2>2. s.nxt + n \in Nat BY <1>4, <1>8
  <2>3. {i \in buf : i > s.nxt + n} \in SUBSET Nat BY <1>4, <1>5
  <2>4. made \in Session BY <2>1, <2>2, <2>3 DEF Session
  <2> QED BY <2>4, ChatAssumption
<1>11. session' = [session EXCEPT ![c] = made] BY <1>2 DEF batch
<1> HIDE DEF made
<1>12. /\ session' \in [Client -> Session \cup {None}]
       /\ \A d \in Client : session'[d] = IF d = c THEN made ELSE session[d]
  BY <1>0, <1>10, <1>11 DEF TypeOK
<1>13. users' = {d \in Client : session'[d] # None} BY <1>0, <1>1, <1>10, <1>12 DEF RoomInv
<1> DEFINE first == IF session[c] = None THEN <<Join(c)>> ELSE << >>
           ns == first \o said
<1>14. /\ first \in Seq(Notice)
       /\ session[c] = None => Len(first) = 1 /\ first[1] = Join(c)
       /\ session[c] # None => Len(first) = 0
  <2>1. Join(c) \in Notice BY DEF Join, Notice, Message, Typed
  <2> QED BY <2>1
<1>15. ASSUME NEW u \in Client PROVE out'[u] = IF u \in users' THEN out[u] \o ns ELSE << >>
  <2>1. out'[u] = IF u \in users' THEN JoinStreams(c)[u] \o said ELSE JoinStreams(c)[u]
    BY <1>2 DEF Notify, batch
  <2>2. out[u] \in Seq(Notice) /\ out[u] \o << >> = out[u]
    BY <1>0, ConcatEmptySeq DEF TypeOK
  <2>3. CASE u \in users'
    <3>1. JoinStreams(c)[u] = out[u] \o first
      BY <2>2, <2>3, <1>1 DEF JoinStreams, Notify
    <3>2. (out[u] \o first) \o said = out[u] \o ns
      <4> HIDE DEF first, said
      <4>1. out[u] \in Seq(Notice) /\ first \in Seq(Notice) /\ said \in Seq(Notice)
        BY <2>2, <1>9, <1>14
      <4> QED BY <4>1, Associative
    <3> QED BY <2>1, <2>3, <3>1, <3>2
  <2>4. CASE u \notin users'
    <3>1. u \notin users /\ u # c BY <2>4, <1>1
    <3>2. out[u] = << >> BY <3>1, <1>0 DEF RoomInv
    <3>3. JoinStreams(c)[u] = out[u] BY <3>1 DEF JoinStreams, Notify
    <3> QED BY <2>1, <2>4, <3>2, <3>3
  <2> QED BY <2>3, <2>4
<1> HIDE DEF first, said
<1>16. /\ ns \in Seq(Notice) /\ Len(ns) = Len(first) + Len(said)
       /\ Len(first) \in Nat /\ Len(said) \in Nat
       /\ \A i \in 1..(Len(first) + Len(said)) :
            ns[i] = IF i <= Len(first) THEN first[i] ELSE said[i - Len(first)]
  BY <1>9, <1>14, ConcatProperties
<1> HIDE DEF ns
<1>17. out' \in [Client -> Seq(Notice)]
  <2>1. ASSUME NEW u \in Client PROVE out'[u] \in Seq(Notice)
    <3>1. out[u] \o ns \in Seq(Notice) BY <1>0, <1>16, ConcatProperties DEF TypeOK
    <3>2. << >> \in Seq(Notice) OBVIOUS
    <3>3. out'[u] = out[u] \o ns \/ out'[u] = << >> BY <1>15
    <3> QED BY <3>1, <3>2, <3>3, Zenon
  <2>2. out' = [u \in Client |-> out'[u]] BY <1>2 DEF Notify
  <2> QED BY <2>1, <2>2
<1>18. TypeOK'
  <2>1. joins' \in [Client -> 0..MaxSessions]
    <3>1. joins[c] \in 0..MaxSessions BY <1>0 DEF TypeOK
    <3>2. (IF session[c] = None THEN joins[c] + 1 ELSE joins[c]) \in 0..MaxSessions
      BY <3>1, <1>1, ChatAssumption
    <3> QED BY <3>2, <1>0, <1>1 DEF TypeOK
  <2>2. swallowed' \in BOOLEAN BY <1>2, Zenon
  <2>3. up' = up /\ idle' = idle BY <1>1 DEF clientVars
  <2> QED BY <2>1, <2>2, <2>3, <1>0, <1>1, <1>12, <1>17 DEF TypeOK
<1>19. RoomInv'
  <2>0. c \in users <=> session[c] # None BY <1>0 DEF RoomInv
  <2>1. ASSUME NEW i \in 1..Len(ns) PROVE ns[i].who = c /\ ns[i].kind # "left"
    <3>1. CASE i <= Len(first)
      <4>1. session[c] = None /\ i = 1 BY <3>1, <2>1, <1>14, <1>16
      <4>2. ns[i] = Join(c) BY <4>1, <3>1, <1>14, <1>16
      <4> QED BY <4>2 DEF Join
    <3>2. CASE ~(i <= Len(first))
      <4>1. i - Len(first) \in 1..Len(said) /\ ns[i] = said[i - Len(first)]
        BY <3>2, <1>16
      <4>2. ns[i].who = c /\ ns[i].kind = "said" BY <4>1, <1>9
      <4> QED BY <4>2
    <3> QED BY <3>1, <3>2
  <2>2. ASSUME session[c] = None PROVE ns # << >> /\ 1 \in 1..Len(ns) /\ ns[1] = Join(c)
    <3>1. Len(first) = 1 /\ first[1] = Join(c) BY <2>2, <1>14
    <3>2. 1 \in 1..Len(ns) /\ ns[1] = first[1] BY <3>1, <1>16
    <3>3. ns # << >> BY <3>1, <1>16
    <3> QED BY <3>1, <3>2, <3>3
  <2>3. \A u \in users' \ users : ns # << >> /\ ns[1] = Join(u) BY <2>0, <2>2, <1>1
  <2>4. \A i \in 1..Len(ns) : ns[i].kind = "left" <=> ns[i].who \notin users'
    BY <2>1, <1>1
  <2>5. ASSUME NEW d \in Client, ~(d \in users <=> d \in users')
        PROVE  \E i \in 1..Len(ns) : ns[i].who = d
    <3>1. d = c /\ session[c] = None BY <2>0, <2>5, <1>1
    <3> QED BY <3>1, <2>1, <2>2
  <2> QED BY <2>3, <2>4, <2>5, <1>0, <1>13, <1>15, <1>16, RoomStep
<1>20. up' = up BY <1>1 DEF clientVars
<1>21. ReceivedInv'
  <2>1. s.nxt + n <= L /\ s.nxt + n \in Nat BY <1>3, <1>4, <1>6, <1>8
  <2>2. made.buf \subseteq (made.nxt + 1)..L BY <2>1, <1>3, <1>4, <1>5, <1>10
  <2> QED BY <2>1, <2>2, <1>0, <1>10, <1>12, <1>20 DEF ReceivedInv, L
<1>22. ReadsAll'
  <2>1. ASSUME made.nxt + 1 \in made.buf PROVE made.nxt > 0 /\ up[c][made.nxt] = "empty"
    <3>1. s.nxt + n + 1 \in buf BY <2>1, <1>10
    <3>2. n # m(k) BY <3>1, <1>6
    <3>3. ready # << >>
      <4>1. m(k) # 0 BY <3>2, <1>6, <1>8
      <4> QED BY <4>1, <1>7
    <3>4. n > 0 /\ ready[n] = "empty" BY <3>2, <3>3, <1>2, <1>7 DEF ReadUpTo
    <3>5. n \in 1..m(k) BY <3>4, <1>6, <1>8
    <3> QED BY <3>4, <3>5, <1>4, <1>7, <1>10
  <2> QED BY <2>1, <1>0, <1>12, <1>20 DEF ReadsAll
<1> QED BY <1>18, <1>19, <1>21, <1>22 DEF IInv

-----------------------------------------------------------------------------
(* The theorems *)

(***************************************************************************)
(* The chat server stays within IInv: TypeOK, RoomInv (the room),          *)
(* ReceivedInv and ReadsAll.                                               *)
(***************************************************************************)
THEOREM Invariance == Spec => []IInv
<1>1. Init => IInv BY InitInv
<1>2. IInv /\ [Next]_vars => IInv'
  <2> SUFFICES ASSUME IInv, [Next]_vars PROVE IInv'
    OBVIOUS
  <2>1. ASSUME NEW c \in Client, Type(c) \/ SendKeepAlive(c) \/ Receive(c) PROVE IInv'
    BY <2>1, TypeInv, SendKeepAliveInv, ReceiveInv
  <2>2. CASE Update BY <2>2, UpdateInv
  <2>3. CASE Tick BY <2>3, TickInv
  <2>4. CASE UNCHANGED vars
    <3>1. UNCHANGED <<up, idle, session, joins, users, out, swallowed>>
      BY <2>4 DEF vars, clientVars, serverVars
    <3> QED BY <3>1, AgeInv DEF IInv, TypeOK
  <2> QED BY <2>1, <2>2, <2>3, <2>4 DEF Next
<1> QED BY <1>1, <1>2, PTL DEF Spec

(***************************************************************************)
(* Types, and with them that the age KcpSession::Update compares with the  *)
(* timeout is unset or not in the future.                                  *)
(***************************************************************************)
THEOREM TypeCorrect == Spec => []TypeOK
<1>1. IInv => TypeOK BY DEF IInv
<1> QED BY <1>1, Invariance, PTL

(***************************************************************************)
(* The room is one conversation: every step sends the same notices to all  *)
(* who are users then, and a session made again starts with nothing.       *)
(***************************************************************************)
THEOREM OneConversation == Spec => []SameRoom
<1>1. ASSUME IInv PROVE SameRoom
  <2>1. users \subseteq Client /\ \A u \in Client : out[u] \in Seq(Notice)
    BY <1>1 DEF IInv, TypeOK
  <2>2. ASSUME NEW u \in users, NEW v \in users
        PROVE  IsSuffix(out[u], out[v]) \/ IsSuffix(out[v], out[u])
    <3>1. Ends(out[u], out[v]) \/ Ends(out[v], out[u]) BY <1>1 DEF IInv, RoomInv
    <3> QED BY <3>1, <2>1, EndsIsSuffix
  <2>3. users = {c \in Client : session[c] # None} BY <1>1 DEF IInv, RoomInv
  <2> QED BY <2>2, <2>3 DEF SameRoom
<1> QED BY <1>1, Invariance, PTL

(***************************************************************************)
(* Every user knows who is in the room, also after an update that closes   *)
(* any number of sessions.                                                 *)
(***************************************************************************)
THEOREM EveryoneKnowsTheRoom == Spec => []RoomView
<1>1. IInv => RoomView BY DEF IInv, RoomInv, Knows, RoomView
<1> QED BY <1>1, Invariance, PTL

(***************************************************************************)
(* HandleSession's loop leaves nothing ready, except behind an empty line. *)
(***************************************************************************)
THEOREM AllRead == Spec => []ReadsAll
<1>1. IInv => ReadsAll BY DEF IInv
<1> QED BY <1>1, Invariance, PTL
=============================================================================
