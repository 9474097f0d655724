-------------------------- MODULE ActivityStoreProofs --------------------------
(* What the Activity store promises of any turns and requests, however their    *)
(* events come: the invariants of ActivityStore, proved.                       *)
EXTENDS ActivityStore, TLAPS, FiniteSetTheorems, WellFoundedInduction

-----------------------------------------------------------------------------
(* Induction over the naturals, stated of a set, and what Only leaves of a      *)
(* sequence by it.                                                           *)

(* A set of naturals has a least one.                                          *)
LEMMA Least ==
  ASSUME NEW T, T \subseteq Nat, T # {}
  PROVE  \E m \in T : \A n \in T : m <= n
<1>1. PICK x \in T : \A y \in T : ~(<<y, x>> \in OpToRel(<, Nat))
  BY NatLessThanWellFounded, WFMin
<1>2. \A y \in T : ~(y < x)
  BY <1>1 DEF OpToRel
<1>3. \A y \in T : y \in Nat
  OBVIOUS
<1>4. \A y \in T : x <= y
  BY <1>2, <1>3
<1> QED BY <1>4

(* A set that holds 0, and with a number below n the next, holds all up to n.   *)
LEMMA UpTo ==
  ASSUME NEW n \in Nat, NEW T, 0 \in T, \A m \in 0..n : m \in T /\ m < n => m + 1 \in T
  PROVE  \A m \in 0..n : m \in T
<1> DEFINE Out == {m \in 0..n : m \notin T}
<1>1. SUFFICES ASSUME Out # {} PROVE FALSE
  OBVIOUS
<1>a. Out \subseteq Nat
  OBVIOUS
<1>2. PICK m \in Out : \A k \in Out : m <= k
  <2> HIDE DEF Out
  <2> QED BY <1>1, <1>a, Least
<1>3. m \in 1..n /\ m - 1 \notin Out
  BY <1>2
<1>4. m - 1 \in T /\ m - 1 < n /\ m - 1 \in 0..n
  BY <1>3
<1>5. (m - 1) + 1 \in T
  BY <1>4
<1> QED BY <1>3, <1>5

(* The recursion Only is defined by.                                          *)
Picks(F, s, S, n) ==
  F = [i \in 0..n |->
        IF i = 0 THEN <<>>
        ELSE IF s[i] \in S THEN Append(F[i - 1], s[i]) ELSE F[i - 1]]


FromZero(F, n) == F = [i \in 0..n |-> F[i]]
Pick(o, x, S) == IF x \in S THEN Append(o, x) ELSE o

(* It is what each step takes up from the one before.                          *)
LEMMA PicksAt ==
  ASSUME NEW s, NEW S, NEW n \in Nat, NEW F
  PROVE  Picks(F, s, S, n) <=>
           /\ FromZero(F, n) /\ F[0] = <<>>
           /\ \A i \in 1..n : F[i] = Pick(F[i - 1], s[i], S)
<1> DEFINE V(i) == IF i = 0 THEN <<>>
                   ELSE IF s[i] \in S THEN Append(F[i - 1], s[i]) ELSE F[i - 1]
<1>1. /\ V(0) = <<>> /\ \A i \in 1..n : V(i) = Pick(F[i - 1], s[i], S)
      /\ 0 \in 0..n /\ \A i \in 1..n : i \in 0..n
      /\ \A i \in 0..n : i = 0 \/ i \in 1..n
  BY DEF Pick
<1>2. Picks(F, s, S, n) <=> F = [i \in 0..n |-> V(i)]
  BY DEF Picks
<1> HIDE DEF V
<1>3. ASSUME F = [i \in 0..n |-> V(i)]
      PROVE  F = [i \in 0..n |-> F[i]] /\ \A i \in 0..n : F[i] = V(i)
  BY <1>3
<1>4. ASSUME F = [i \in 0..n |-> F[i]], \A i \in 0..n : F[i] = V(i)
      PROVE  F = [i \in 0..n |-> V(i)]
  BY <1>4
<1>5. ASSUME F[0] = <<>>, \A i \in 1..n : F[i] = Pick(F[i - 1], s[i], S)
      PROVE  \A i \in 0..n : F[i] = V(i)
  BY <1>1, <1>5
<1> QED BY <1>1, <1>2, <1>3, <1>4, <1>5 DEF FromZero

(* Such a picking exists up to every n, by induction over n.                  *)
LEMMA PicksExist ==
  ASSUME NEW s, NEW S, NEW n \in Nat
  PROVE  \E F : Picks(F, s, S, n)
<1> DEFINE T == {m \in Nat : \E F : Picks(F, s, S, m)}
<1>1. 0 \in T
  <2> DEFINE G == [i \in 0..0 |-> <<>>]
  <2>1. FromZero(G, 0) /\ G[0] = <<>> /\ 1..0 = {} /\ 0 \in Nat
    BY DEF FromZero
  <2> HIDE DEF G
  <2>2. Picks(G, s, S, 0)
    BY <2>1, PicksAt
  <2> QED BY <2>2
<1>2. ASSUME NEW m \in 0..n, m \in T PROVE m + 1 \in T
  <2>1. PICK F : Picks(F, s, S, m)
    BY <1>2
  <2> DEFINE G == [i \in 0..m + 1 |-> IF i = m + 1 THEN Pick(F[m], s[m + 1], S) ELSE F[i]]
  <2>2. m \in Nat /\ m + 1 \in Nat /\ F[0] = <<>>
          /\ \A i \in 1..m : F[i] = Pick(F[i - 1], s[i], S)
    BY <2>1, PicksAt
  <2>3. /\ FromZero(G, m + 1) /\ G[m + 1] = Pick(F[m], s[m + 1], S)
        /\ \A i \in 0..m : G[i] = F[i]
    BY <2>2 DEF FromZero
  <2> HIDE DEF G
  <2>4. G[0] = <<>>
    BY <2>2, <2>3
  <2>5. ASSUME NEW i \in 1..m + 1 PROVE G[i] = Pick(G[i - 1], s[i], S)
    <3>1. CASE i = m + 1
      BY <2>2, <2>3, <3>1
    <3>2. CASE i # m + 1
      <4>1. i \in 1..m /\ i \in 0..m /\ i - 1 \in 0..m
        BY <2>2, <3>2
      <4> QED BY <2>2, <2>3, <4>1
    <3> QED BY <3>1, <3>2
  <2>6. Picks(G, s, S, m + 1)
    BY <2>2, <2>3, <2>4, <2>5, PicksAt
  <2> QED BY <2>2, <2>6
<1> HIDE DEF T
<1>3. n \in T
  BY <1>1, <1>2, UpTo
<1> QED BY <1>3 DEF T

(* What `o` has of the first n of `s`: those in S.                             *)
OnlyThose(o, s, S, n) ==
  /\ \A j \in DOMAIN o : o[j] \in S /\ \E i \in 1..n : o[j] = s[i]
  /\ \A i \in 1..n : s[i] \in S => \E j \in DOMAIN o : o[j] = s[i]

(* Only leaves of a sequence those elements that are in the set.              *)
LEMMA OnlyIsOnly ==
  ASSUME NEW U, NEW s \in Seq(U), NEW S
  PROVE  Only(s, S) \in Seq(U) /\ OnlyThose(Only(s, S), s, S, Len(s))
<1> DEFINE n == Len(s)
           F == CHOOSE G : Picks(G, s, S, n)
           T == {m \in 0..n : F[m] \in Seq(U) /\ OnlyThose(F[m], s, S, m)}
<1>1. n \in Nat /\ n = Len(s) /\ \A i \in 1..n : s[i] \in U
  OBVIOUS
<1>2. Only(s, S) = F[n]
  BY DEF Only, Picks
<1>3. Picks(F, s, S, n)
  BY <1>1, PicksExist
<1> HIDE DEF F, n
<1>4. 0 \in T
  <2>1. F[0] = <<>>
    BY <1>1, <1>3, PicksAt
  <2>2. <<>> \in Seq(U) /\ DOMAIN <<>> = {} /\ 1..0 = {}
    OBVIOUS
  <2>3. OnlyThose(<<>>, s, S, 0)
    BY <2>2 DEF OnlyThose
  <2>4. F[0] \in Seq(U) /\ OnlyThose(F[0], s, S, 0) /\ 0 \in 0..n
    BY <1>1, <2>1, <2>2, <2>3
  <2> QED BY <2>4
<1>5. ASSUME NEW m \in 0..n, m \in T, m < n PROVE m + 1 \in T
  <2> DEFINE o == F[m]
             x == s[m + 1]
  <2>1. F[m + 1] = IF x \in S THEN Append(o, x) ELSE o
    <3>1. F[m + 1] = Pick(F[m + 1 - 1], s[m + 1], S) /\ m + 1 - 1 = m
      BY <1>1, <1>3, <1>5, PicksAt
    <3> QED BY <3>1 DEF Pick
  <2>2. o \in Seq(U) /\ OnlyThose(o, s, S, m) /\ x \in U /\ m + 1 \in 1..n
    BY <1>1, <1>5
  <2>3. ASSUME x \in S PROVE OnlyThose(Append(o, x), s, S, m + 1)
    <3> HIDE DEF o, x
    <3> DEFINE p == Append(o, x)
    <3>1. /\ Len(p) = Len(o) + 1 /\ DOMAIN p = 1..Len(o) + 1 /\ DOMAIN o = 1..Len(o)
          /\ p[Len(o) + 1] = x /\ \A j \in 1..Len(o) : p[j] = o[j]
      BY <2>2
    <3> HIDE DEF p
    <3>2. \A j \in DOMAIN p : p[j] \in S /\ \E i \in 1..m + 1 : p[j] = s[i]
      BY <2>2, <2>3, <3>1 DEF OnlyThose, x
    <3>3. \A i \in 1..m + 1 : s[i] \in S => \E j \in DOMAIN p : p[j] = s[i]
      <4>1. ASSUME NEW i \in 1..m, s[i] \in S PROVE \E j \in DOMAIN p : p[j] = s[i]
        BY <2>2, <4>1, <3>1 DEF OnlyThose
      <4>2. \E j \in DOMAIN p : p[j] = s[m + 1]
        BY <2>2, <3>1 DEF x
      <4> QED BY <1>1, <4>1, <4>2
    <3> QED BY <3>2, <3>3 DEF OnlyThose, p
  <2>4. ASSUME x \notin S PROVE OnlyThose(o, s, S, m + 1)
    BY <2>2, <2>4 DEF OnlyThose
  <2>5. Append(o, x) \in Seq(U) /\ m + 1 \in 0..n
    BY <1>1, <2>2, <1>5
  <2> HIDE DEF o, x
  <2>6. F[m + 1] \in Seq(U) /\ OnlyThose(F[m + 1], s, S, m + 1)
    BY <2>1, <2>2, <2>3, <2>4, <2>5
  <2> QED BY <2>5, <2>6
<1> HIDE DEF T
<1>6. n \in T
  <2>1. \A m \in 0..n : m \in T
    BY <1>1, <1>4, <1>5, UpTo
  <2> QED BY <1>1, <2>1
<1> QED BY <1>1, <1>2, <1>6 DEF T

-----------------------------------------------------------------------------
(* What the store rests on.                                                   *)

(* An identity is that of its id's event.                                      *)
HeardAs(st, i) ==
  LET h == st.identities[i] IN
  h # None =>
    /\ h.type = "start" => i = <<"start", h.key>> /\ h.key \in Turns
    /\ h.type = "resolved" => i = <<"resolved", h.key>> /\ h.key \in Requests
    /\ h.type = "ask" => i = <<"entry", h.key>> /\ h.key \in Requests
    /\ h.type = "end" => (\E n \in EndIds : i = <<"entry", n>>) /\ h.key \in Turns
Knows(st, e) ==
  /\ st.identities[e.id] # None
  /\ st.identities[e.id].type = e.type /\ st.identities[e.id].key = e.key

(* A record is known for what it is, and no two have one id; the turn it ends is *)
(* closed, the request it waits for not resolved.                              *)
RecordsStand(st) ==
  /\ \A r \in st.records : /\ Knows(st, r)
                           /\ r.type = "end" => r.key \in st.closed
                           /\ NeedsAttention(r) => r.key \notin st.resolved
  /\ \A r, s \in st.records : r.id = s.id => r = s

(* An end that waits for its turn's start is known, and came before a start that *)
(* is; nothing of a closed turn waits.                                         *)
TurnsStand(st) ==
  /\ \A k \in Turns : st.starts[k] # None => st.identities[<<"start", k>>] # None
  /\ \A k \in Turns : \A j \in DOMAIN st.pending[k] :
       /\ st.pending[k][j].key = k /\ Knows(st, st.pending[k][j])
       /\ st.starts[k] # None => st.pending[k][j].at < st.starts[k]
  /\ \A k \in st.closed : st.starts[k] = None /\ st.pending[k] = <<>>

Sound(st) ==
  /\ st \in Store /\ \A i \in Ids : HeardAs(st, i)
  /\ RecordsStand(st) /\ TurnsStand(st)

(* What #prune leaves has not expired.                                         *)
Alive(st, time) ==
  \A i \in Ids : st.identities[i] # None =>
    st.identities[i].expiresAt > time \/ \E r \in st.records : r.id = i

(* What events are.                                                           *)
LEMMA EventTypes ==
  ASSUME NEW e \in Events
  PROVE  /\ e.type \in {"start", "end", "ask", "resolved"} /\ e.id \in Ids /\ e.at \in Times
         /\ e.key \in Turns \cup Requests
         /\ e.type = "start" => e.id = <<"start", e.key>> /\ e.key \in Turns
         /\ e.type = "resolved" => e.id = <<"resolved", e.key>> /\ e.key \in Requests
         /\ e.type = "ask" => e.id = <<"entry", e.key>> /\ e.key \in Requests
         /\ e.type = "end" => (\E n \in EndIds : e.id = <<"entry", n>>) /\ e.key \in Turns
<1>1. e.id \in Ids
  BY DEF Ids
<1>2. e \in Event /\ (e.type # "end" => e.id[2] = e.key)
  BY DEF Events
<1>3. CASE e \in [type : {"start"}, id : {"start"} \X Turns, key : Turns, at : StartTimes]
  BY <1>1, <1>2, <1>3, StoreAssumption DEF Times
<1>4. CASE e \in [type : {"end"}, id : {"entry"} \X EndIds, key : Turns, at : Times]
  BY <1>1, <1>2, <1>4
<1>5. CASE e \in [type : {"ask"}, id : {"entry"} \X Requests, key : Requests, at : RequestTimes]
  BY <1>1, <1>2, <1>5, StoreAssumption DEF Times
<1>6. CASE e \in [type : {"resolved"}, id : {"resolved"} \X Requests, key : Requests, at : {0}]
  BY <1>1, <1>2, <1>6, StoreAssumption DEF Times
<1> QED BY <1>2, <1>3, <1>4, <1>5, <1>6 DEF Event

(* What the fields of a store are.                                            *)
LEMMA Fields ==
  ASSUME NEW st \in Store
  PROVE  /\ st.records \subseteq Entry /\ st.closed \subseteq Turns /\ st.resolved \subseteq Requests
         /\ st.starts \in [Turns -> Maybe(Times)] /\ st.pending \in [Turns -> Seq(Ends)]
         /\ st.identities \in [Ids -> Maybe(Heard)]
         /\ \A i \in Ids : st.identities[i] # None => st.identities[i] \in Heard
BY DEF Store, Maybe

(* What of a store #prune keeps.                                              *)
PrunedTo(st, p, time) ==
  /\ p \in Store /\ p.records \subseteq st.records
  /\ \A i \in Ids : /\ p.identities[i] # None => p.identities[i] = st.identities[i]
                    /\ /\ st.identities[i] # None
                       /\ \/ st.identities[i].expiresAt > time
                          \/ \E r \in p.records : r.id = i
                       => p.identities[i] = st.identities[i]
  /\ \A k \in Turns :
       p.starts[k] = IF p.identities[<<"start", k>>] # None THEN st.starts[k] ELSE None
  /\ \A k \in Turns :
       /\ \A j \in DOMAIN p.pending[k] :
            /\ p.identities[p.pending[k][j].id] # None
            /\ \E i \in DOMAIN st.pending[k] : p.pending[k][j] = st.pending[k][i]
       /\ \A i \in DOMAIN st.pending[k] : p.identities[st.pending[k][i].id] # None =>
            \E j \in DOMAIN p.pending[k] : p.pending[k][j] = st.pending[k][i]
       /\ st.pending[k] = <<>> => p.pending[k] = <<>>
  /\ p.closed = {k \in st.closed : \E i \in Ids : /\ p.identities[i] # None
                                                 /\ p.identities[i].type = "end"
                                                 /\ p.identities[i].key = k}
  /\ p.resolved \subseteq st.resolved
  /\ \A q \in st.resolved : p.identities[<<"resolved", q>>] # None => q \in p.resolved
  /\ Alive(p, time)

(* The ids of starts and of resolutions are theirs alone.                      *)
LEMMA OwnIds ==
  /\ \A k \in Turns : <<"start", k>> \in Ids
  /\ \A q \in Requests : <<"resolved", q>> \in Ids
<1>1. ASSUME NEW k \in Turns PROVE <<"start", k>> \in Ids
  <2>1. PICK at \in StartTimes : TRUE
    BY StoreAssumption
  <2> DEFINE e == [type |-> "start", id |-> <<"start", k>>, key |-> k, at |-> at]
  <2>2. e \in Event /\ e.type = "start" /\ e.id = <<"start", k>> /\ e.id[2] = e.key
    BY DEF Event
  <2> QED BY <2>2 DEF Events, Ids
<1>2. ASSUME NEW q \in Requests PROVE <<"resolved", q>> \in Ids
  <2> DEFINE e == [type |-> "resolved", id |-> <<"resolved", q>>, key |-> q, at |-> 0]
  <2>1. e \in Event /\ e.type = "resolved" /\ e.id = <<"resolved", q>> /\ e.id[2] = e.key
    BY DEF Event
  <2> QED BY <2>1 DEF Events, Ids
<1> QED BY <1>1, <1>2

(* #prune keeps that, and drops the rest.                                     *)
LEMMA Prunes ==
  ASSUME NEW st, NEW time \in Nat, Sound(st)
  PROVE  PrunedTo(st, Pruned(st, time), time)
<1> DEFINE records == Retained(st.records, time)
           ids == {i \in Ids : /\ st.identities[i] # None
                               /\ \/ st.identities[i].expiresAt > time
                                  \/ \E r \in records : r.id = i}
           keys(type) ==
             {st.identities[i].key : i \in {j \in ids : st.identities[j].type = type}}
           p == Pruned(st, time)
<1>1. st \in Store /\ \A i \in Ids : HeardAs(st, i)
  BY DEF Sound
<1>2. /\ p.records = records
      /\ p.starts = [k \in Turns |-> IF k \in keys("start") THEN st.starts[k] ELSE None]
      /\ p.pending = [k \in Turns |-> Only(st.pending[k], {e \in Ends : e.id \in ids})]
      /\ p.closed = st.closed \cap keys("end")
      /\ p.resolved = st.resolved \cap
                     (keys("resolved") \cup
                        {r.key : r \in {s \in records : s.type = "ask" /\ s.resolved}})
      /\ p.identities = [i \in Ids |-> IF i \in ids THEN st.identities[i] ELSE None]
  BY DEF Pruned
<1>3. p = [records |-> p.records, starts |-> p.starts, pending |-> p.pending,
           closed |-> p.closed, resolved |-> p.resolved, identities |-> p.identities]
  BY DEF Pruned
<1>4. records \subseteq st.records
  BY DEF Retained
<1> HIDE DEF p, records
<1>5. \A i \in Ids : p.identities[i] = IF i \in ids THEN st.identities[i] ELSE None
  BY <1>2
<1>6. \A i \in ids : i \in Ids /\ st.identities[i] # None /\ p.identities[i] # None
  BY <1>5
<1>7. ASSUME NEW k \in Turns PROVE k \in keys("start") <=> p.identities[<<"start", k>>] # None
  <2>1. <<"start", k>> \in Ids
    BY OwnIds
  <2>2. ASSUME NEW i \in ids, st.identities[i].type = "start", st.identities[i].key = k
        PROVE  i = <<"start", k>>
    BY <1>1, <1>6, <2>2 DEF HeardAs
  <2>3. ASSUME <<"start", k>> \in ids
        PROVE  st.identities[<<"start", k>>].type = "start" /\ st.identities[<<"start", k>>].key = k
    <3>1. st.identities[<<"start", k>>] \in Heard
      BY <1>1, <1>6, <2>3, Fields
    <3>2. st.identities[<<"start", k>>].type \in {"start", "end", "ask", "resolved"}
      BY <3>1 DEF Heard
    <3> QED BY <1>1, <1>6, <2>1, <2>3, <3>2 DEF HeardAs
  <2> QED BY <1>5, <1>6, <2>1, <2>2, <2>3
<1>8. ASSUME NEW q \in Requests, p.identities[<<"resolved", q>>] # None
      PROVE  q \in keys("resolved")
  <2>1. <<"resolved", q>> \in Ids
    BY OwnIds
  <2>2. <<"resolved", q>> \in ids
    BY <1>5, <1>8, <2>1
  <2>3. st.identities[<<"resolved", q>>] \in Heard
    BY <1>1, <1>6, <2>2, Fields
  <2>4. st.identities[<<"resolved", q>>].type \in {"start", "end", "ask", "resolved"}
    BY <2>3 DEF Heard
  <2>5. st.identities[<<"resolved", q>>].type = "resolved" /\ st.identities[<<"resolved", q>>].key = q
    BY <1>1, <1>6, <2>1, <2>2, <2>4 DEF HeardAs
  <2> QED BY <2>2, <2>5
<1>9. ASSUME NEW k \in Turns
      PROVE  /\ p.pending[k] \in Seq(Ends)
             /\ \A j \in DOMAIN p.pending[k] :
                  /\ p.identities[p.pending[k][j].id] # None
                  /\ \E i \in DOMAIN st.pending[k] : p.pending[k][j] = st.pending[k][i]
             /\ \A i \in DOMAIN st.pending[k] : p.identities[st.pending[k][i].id] # None =>
                  \E j \in DOMAIN p.pending[k] : p.pending[k][j] = st.pending[k][i]
             /\ st.pending[k] = <<>> => p.pending[k] = <<>>
  <2> DEFINE s == st.pending[k]
             S == {e \in Ends : e.id \in ids}
             o == Only(s, S)
  <2>1. s \in Seq(Ends) /\ p.pending[k] = o
    BY <1>1, <1>2, Fields
  <2>2. o \in Seq(Ends) /\ OnlyThose(o, s, S, Len(s))
    BY <2>1, OnlyIsOnly
  <2>3. \A e \in Ends : e \in S <=> p.identities[e.id] # None
    BY <1>5, <1>6 DEF Ends, Ids
  <2>4. DOMAIN s = 1..Len(s) /\ DOMAIN o = 1..Len(o) /\ \A i \in DOMAIN s : s[i] \in Ends
    BY <2>1, <2>2
  <2>5. ASSUME s = <<>> PROVE o = <<>>
    <3> HIDE DEF o
    <3>1. 1..Len(s) = {} /\ DOMAIN o = 1..Len(o) /\ Len(o) \in Nat
      BY <2>2, <2>5
    <3>2. Len(o) = 0
      BY <2>2, <3>1 DEF OnlyThose
    <3> QED BY <2>2, <3>2
  <2>6. \A e \in S : e \in Ends
    OBVIOUS
  <2> HIDE DEF o, s, S
  <2> QED BY <2>1, <2>2, <2>3, <2>4, <2>5, <2>6 DEF OnlyThose, s
<1>10. p \in Store
  <2>1. p.records \subseteq Entry /\ p.closed \subseteq Turns /\ p.resolved \subseteq Requests
    BY <1>1, <1>2, <1>4, Fields
  <2>2. p.starts \in [Turns -> Maybe(Times)]
    BY <1>1, <1>2, Fields DEF Maybe
  <2>3. p.identities \in [Ids -> Maybe(Heard)]
    BY <1>1, <1>2, Fields DEF Maybe
  <2>4. p.pending \in [Turns -> Seq(Ends)]
    BY <1>2, <1>9
  <2> QED BY <1>3, <2>1, <2>2, <2>3, <2>4 DEF Store
<1>11. /\ p.closed = {k \in st.closed : \E i \in Ids : /\ p.identities[i] # None
                                                      /\ p.identities[i].type = "end"
                                                      /\ p.identities[i].key = k}
  BY <1>2, <1>5, <1>6
<1>12. /\ \A i \in Ids : /\ p.identities[i] # None => p.identities[i] = st.identities[i]
                         /\ /\ st.identities[i] # None
                            /\ \/ st.identities[i].expiresAt > time
                               \/ \E r \in p.records : r.id = i
                            => p.identities[i] = st.identities[i]
       /\ Alive(p, time)
  BY <1>2, <1>5 DEF Alive
<1>13. /\ p.resolved \subseteq st.resolved
       /\ \A q \in st.resolved : p.identities[<<"resolved", q>>] # None => q \in p.resolved
  BY <1>1, <1>2, <1>8, Fields
<1>14. \A k \in Turns :
         p.starts[k] = IF p.identities[<<"start", k>>] # None THEN st.starts[k] ELSE None
  <2> HIDE DEF ids, keys
  <2>1. \A k \in Turns : p.starts[k] = IF k \in keys("start") THEN st.starts[k] ELSE None
    BY <1>2
  <2> QED BY <1>7, <2>1
<1> HIDE DEF ids, keys
<1> QED BY <1>2, <1>4, <1>9, <1>10, <1>11, <1>12, <1>13, <1>14 DEF PrunedTo, p

(* What was pruned still stands.                                              *)
LEMMA PrunedSound ==
  ASSUME NEW st, NEW p, NEW time, Sound(st), PrunedTo(st, p, time)
  PROVE  Sound(p)
<1>1. st \in Store /\ p \in Store /\ RecordsStand(st) /\ TurnsStand(st)
        /\ \A i \in Ids : HeardAs(st, i)
  BY DEF Sound, PrunedTo
<1>2. \A i \in Ids : p.identities[i] # None => p.identities[i] = st.identities[i]
  BY DEF PrunedTo
<1>3. \A i \in Ids : HeardAs(p, i)
  BY <1>1, <1>2 DEF HeardAs
<1>4. RecordsStand(p)
  <2>1. ASSUME NEW r \in p.records
        PROVE  /\ Knows(p, r) /\ (r.type = "end" => r.key \in p.closed)
               /\ NeedsAttention(r) => r.key \notin p.resolved
    <3>1. r \in st.records /\ r.id \in Ids
      BY <1>1, Fields DEF PrunedTo, Entry
    <3>2. Knows(st, r) /\ p.identities[r.id] = st.identities[r.id]
      BY <1>1, <3>1 DEF RecordsStand, Knows, PrunedTo
    <3>3. Knows(p, r)
      BY <3>2 DEF Knows
    <3>4. ASSUME r.type = "end" PROVE r.key \in p.closed
      BY <1>1, <3>1, <3>3, <3>4 DEF PrunedTo, RecordsStand, Knows
    <3>5. ASSUME NeedsAttention(r) PROVE r.key \notin p.resolved
      BY <1>1, <3>1, <3>5 DEF PrunedTo, RecordsStand
    <3> QED BY <3>3, <3>4, <3>5
  <2>2. \A r, s \in p.records : r.id = s.id => r = s
    BY <1>1 DEF RecordsStand, PrunedTo
  <2> QED BY <2>1, <2>2 DEF RecordsStand
<1>5. TurnsStand(p)
  <2>1. ASSUME NEW k \in Turns
        PROVE  /\ p.starts[k] # None =>
                    p.starts[k] = st.starts[k] /\ p.identities[<<"start", k>>] # None
               /\ st.starts[k] = None => p.starts[k] = None
    BY DEF PrunedTo
  <2>2. ASSUME NEW k \in Turns, NEW j \in DOMAIN p.pending[k]
        PROVE  /\ p.pending[k][j].key = k /\ Knows(p, p.pending[k][j])
               /\ p.starts[k] # None => p.pending[k][j].at < p.starts[k]
    <3>1. PICK i \in DOMAIN st.pending[k] : p.pending[k][j] = st.pending[k][i]
      BY DEF PrunedTo
    <3>2. p.identities[p.pending[k][j].id] # None
      BY DEF PrunedTo
    <3>3. /\ st.pending[k][i].key = k /\ Knows(st, st.pending[k][i])
          /\ st.starts[k] # None => st.pending[k][i].at < st.starts[k]
      BY <1>1 DEF TurnsStand
    <3>4. st.pending[k][i].id \in Ids
      <4>1. st.pending[k] \in Seq(Ends)
        BY <1>1, Fields
      <4>2. st.pending[k][i] \in Ends
        BY <4>1
      <4> QED BY <4>2 DEF Ends, Ids
    <3>5. Knows(p, p.pending[k][j])
      BY <1>2, <3>1, <3>2, <3>3, <3>4 DEF Knows
    <3> QED BY <2>1, <3>1, <3>3, <3>5
  <2>3. ASSUME NEW k \in p.closed PROVE p.starts[k] = None /\ p.pending[k] = <<>>
    <3>1. k \in st.closed /\ k \in Turns
      BY <1>1, Fields DEF PrunedTo
    <3>2. st.starts[k] = None /\ st.pending[k] = <<>>
      BY <1>1, <3>1 DEF TurnsStand
    <3> QED BY <2>1, <3>1, <3>2 DEF PrunedTo
  <2> QED BY <2>1, <2>2, <2>3 DEF TurnsStand
<1> QED BY <1>1, <1>3, <1>4, <1>5 DEF Sound

(* An event that is not refused is one the store knows, and stands.             *)
Remembers(st, r, e, time) ==
  /\ r \in Store /\ r.records = st.records /\ r.starts = st.starts /\ r.pending = st.pending
  /\ r.closed = st.closed /\ r.resolved = st.resolved
  /\ \A i \in Ids : i # e.id => r.identities[i] = st.identities[i]
  /\ IF st.identities[e.id] # None THEN r.identities[e.id] = st.identities[e.id]
     ELSE r.identities[e.id] = Identity(e, time)
  /\ Knows(r, e)

(* What is remembered of an event is something heard, never None.             *)
LEMMA Heards ==
  ASSUME NEW e \in Events, NEW time \in Times
  PROVE  Identity(e, time) \in Heard /\ Identity(e, time) # None
<1>1. time + Age \in Nat
  BY StoreAssumption DEF Times
<1>2. Identity(e, time) \in Heard
  BY <1>1, EventTypes DEF Identity, Heard
<1> QED BY <1>2, StoreAssumption

(* #remember, of an event it does not refuse, is just that.                   *)
LEMMA RememberedIs ==
  ASSUME NEW st \in Store, NEW e \in Events, NEW time \in Times, ~Refused(st, e)
  PROVE  Remembers(st, Remembered(st, e, time), e, time)
<1>1. CASE st.identities[e.id] # None
  BY <1>1 DEF Remembered, Remembers, Refused, Knows
<1>2. CASE st.identities[e.id] = None
  <2> DEFINE r == Remembered(st, e, time)
  <2>1. r = [st EXCEPT !.identities[e.id] = Identity(e, time)]
    BY <1>2 DEF Remembered
  <2>2. e.id \in Ids /\ Identity(e, time) \in Heard /\ Identity(e, time) # None
    BY EventTypes, Heards
  <2>3. /\ r.records = st.records /\ r.starts = st.starts /\ r.pending = st.pending
        /\ r.closed = st.closed /\ r.resolved = st.resolved
        /\ r.identities = [st.identities EXCEPT ![e.id] = Identity(e, time)]
    BY <2>1 DEF Store
  <2>4. r.identities \in [Ids -> Maybe(Heard)]
    BY <2>2, <2>3, Fields DEF Maybe
  <2>5. r \in Store
    BY <2>1, <2>3, <2>4 DEF Store
  <2>6. /\ r.identities[e.id] = Identity(e, time)
        /\ \A i \in Ids : i # e.id => r.identities[i] = st.identities[i]
    BY <2>2, <2>3, Fields
  <2>7. Knows(r, e)
    BY <2>2, <2>6 DEF Knows, Identity
  <2> QED BY <1>2, <2>3, <2>5, <2>6, <2>7 DEF Remembers
<1> QED BY <1>1, <1>2

(* A store that remembers one event more stands.                              *)
LEMMA RemembersSound ==
  ASSUME NEW st, NEW r, NEW e \in Events, NEW time \in Times,
         Sound(st), Remembers(st, r, e, time)
  PROVE  Sound(r) /\ (Alive(st, time) => Alive(r, time))
<1>1. /\ st \in Store /\ r \in Store /\ RecordsStand(st) /\ TurnsStand(st)
      /\ \A i \in Ids : HeardAs(st, i)
      /\ r.records = st.records /\ r.starts = st.starts /\ r.pending = st.pending
      /\ r.closed = st.closed /\ r.resolved = st.resolved /\ Knows(r, e)
  BY DEF Sound, Remembers
<1>2. \A i \in Ids : st.identities[i] # None => r.identities[i] = st.identities[i]
  BY DEF Remembers
<1>3. ASSUME NEW i \in Ids PROVE HeardAs(r, i)
  <2>1. CASE i = e.id
    BY <1>1, <2>1, EventTypes DEF HeardAs, Knows
  <2>2. CASE i # e.id
    BY <1>1, <2>2 DEF HeardAs, Remembers
  <2> QED BY <2>1, <2>2
<1>4. ASSUME NEW x, x.id \in Ids, Knows(st, x) PROVE Knows(r, x)
  BY <1>2, <1>4 DEF Knows
<1>5. RecordsStand(r)
  <2>1. \A x \in st.records : x.id \in Ids
    BY <1>1, Fields DEF Entry
  <2> QED BY <1>1, <1>4, <2>1 DEF RecordsStand
<1>6. TurnsStand(r)
  <2>1. ASSUME NEW k \in Turns, NEW j \in DOMAIN st.pending[k]
        PROVE  st.pending[k][j].id \in Ids
    <3>1. st.pending[k] \in Seq(Ends)
      BY <1>1, Fields
    <3>2. st.pending[k][j] \in Ends
      BY <3>1
    <3> QED BY <3>2 DEF Ends, Ids
  <2>2. \A k \in Turns : st.starts[k] # None => r.identities[<<"start", k>>] # None
    BY <1>1, <1>2, OwnIds DEF TurnsStand
  <2> QED BY <1>1, <1>4, <2>1, <2>2 DEF TurnsStand
<1>7. ASSUME Alive(st, time), NEW i \in Ids, r.identities[i] # None
      PROVE  r.identities[i].expiresAt > time \/ \E x \in r.records : x.id = i
  <2>1. CASE st.identities[i] # None
    BY <1>1, <1>2, <1>7, <2>1 DEF Alive
  <2>2. CASE st.identities[i] = None
    <3>1. i = e.id /\ r.identities[i] = Identity(e, time)
      BY <1>7, <2>2 DEF Remembers
    <3> QED BY <3>1, StoreAssumption DEF Identity, Times
  <2> QED BY <2>1, <2>2
<1> QED BY <1>1, <1>3, <1>5, <1>6, <1>7 DEF Sound, Alive

(* A new record of an event the store knows stands.                            *)
NewRecord(st, e) ==
  [type |-> e.type, id |-> e.id, key |-> e.key, at |-> e.at,
   resolved |-> e.type = "ask" /\ e.key \in st.resolved]
WithRecord(st, e) == [st EXCEPT !.records = @ \cup {NewRecord(st, e)}]

(* So does one with a record more, of an event it knows.                      *)
LEMMA AddsSound ==
  ASSUME NEW st, Sound(st), NEW e \in Events, e.type \in {"end", "ask"}, Knows(st, e),
         \A r \in st.records : r.id # e.id, e.type = "end" => e.key \in st.closed
  PROVE  /\ Sound(WithRecord(st, e))
         /\ WithRecord(st, e).records = st.records \cup {NewRecord(st, e)}
         /\ WithRecord(st, e).starts = st.starts /\ WithRecord(st, e).pending = st.pending
         /\ WithRecord(st, e).closed = st.closed /\ WithRecord(st, e).resolved = st.resolved
         /\ WithRecord(st, e).identities = st.identities
<1> DEFINE s == WithRecord(st, e)
           x == NewRecord(st, e)
<1>a. st \in Store
  BY DEF Sound
<1>1. st \in Store /\ RecordsStand(st) /\ TurnsStand(st) /\ \A i \in Ids : HeardAs(st, i)
  BY DEF Sound
<1>2. /\ s.records = st.records \cup {x} /\ s.starts = st.starts /\ s.pending = st.pending
      /\ s.closed = st.closed /\ s.resolved = st.resolved /\ s.identities = st.identities
  BY <1>a DEF WithRecord, Store
<1>3. x \in Entry
  BY EventTypes DEF NewRecord, Entry
<1>4. /\ x.type = e.type /\ x.id = e.id /\ x.key = e.key
      /\ x.resolved <=> e.type = "ask" /\ e.key \in st.resolved
  BY DEF NewRecord
<1> HIDE DEF s, x
<1>5. s.records \subseteq Entry
  BY <1>1, <1>2, <1>3, Fields
<1>6. s \in Store
  BY <1>a, <1>1, <1>2, <1>5, Fields DEF Store, s, WithRecord
<1>7. RecordsStand(s)
  <2>1. ASSUME NEW r \in st.records
        PROVE  /\ Knows(s, r) /\ (r.type = "end" => r.key \in s.closed)
               /\ NeedsAttention(r) => r.key \notin s.resolved
    BY <1>1, <1>2 DEF RecordsStand, Knows
  <2>2. /\ Knows(s, x) /\ (x.type = "end" => x.key \in s.closed)
        /\ NeedsAttention(x) => x.key \notin s.resolved
    BY <1>2, <1>4 DEF Knows, NeedsAttention
  <2>3. \A r, q \in s.records : r.id = q.id => r = q
    BY <1>1, <1>2, <1>4 DEF RecordsStand
  <2> QED BY <1>2, <2>1, <2>2, <2>3 DEF RecordsStand
<1>8. TurnsStand(s)
  BY <1>1, <1>2 DEF TurnsStand, Knows
<1>9. \A i \in Ids : HeardAs(s, i)
  BY <1>1, <1>2 DEF HeardAs
<1> QED BY <1>2, <1>6, <1>7, <1>8, <1>9 DEF Sound, s, x

(* A turn that is closed stands, and so does one that is only started.          *)
LEMMA ClosesSound ==
  ASSUME NEW st, Sound(st), NEW k \in Turns
  PROVE  /\ Sound(Closed(st, k)) /\ Closed(st, k).records = st.records
         /\ Closed(st, k).starts = [st.starts EXCEPT ![k] = None]
         /\ Closed(st, k).pending = [st.pending EXCEPT ![k] = <<>>]
         /\ Closed(st, k).closed = st.closed \cup {k} /\ Closed(st, k).resolved = st.resolved
         /\ Closed(st, k).identities = st.identities
<1> DEFINE s == Closed(st, k)
<1>a. st \in Store
  BY DEF Sound
<1>1. st \in Store /\ RecordsStand(st) /\ TurnsStand(st) /\ \A i \in Ids : HeardAs(st, i)
  BY DEF Sound
<1>2. /\ s.records = st.records /\ s.starts = [st.starts EXCEPT ![k] = None]
      /\ s.pending = [st.pending EXCEPT ![k] = <<>>]
      /\ s.closed = st.closed \cup {k} /\ s.resolved = st.resolved /\ s.identities = st.identities
  BY <1>a DEF Closed, Store
<1> HIDE DEF s
<1>3. s.starts \in [Turns -> Maybe(Times)] /\ s.closed \subseteq Turns
  BY <1>1, <1>2, Fields DEF Maybe
<1>4. s.pending \in [Turns -> Seq(Ends)]
  <2>1. <<>> \in Seq(Ends)
    OBVIOUS
  <2> QED BY <1>1, <1>2, <2>1, Fields
<1>5. s \in Store
  BY <1>a, <1>1, <1>2, <1>3, <1>4, Fields DEF Store, s, Closed
<1>6. \A j \in Turns : /\ j = k => s.starts[j] = None /\ s.pending[j] = <<>>
                       /\ j # k => s.starts[j] = st.starts[j] /\ s.pending[j] = st.pending[j]
  BY <1>1, <1>2, Fields
<1>7. TurnsStand(s)
  <2>1. DOMAIN <<>> = {}
    OBVIOUS
  <2>2. \A j \in Turns : s.starts[j] # None => s.identities[<<"start", j>>] # None
    BY <1>1, <1>2, <1>6 DEF TurnsStand
  <2>3. \A x : Knows(st, x) => Knows(s, x)
    BY <1>2 DEF Knows
  <2>4. \A j \in Turns : \A i \in DOMAIN s.pending[j] :
          /\ s.pending[j][i].key = j /\ Knows(s, s.pending[j][i])
          /\ s.starts[j] # None => s.pending[j][i].at < s.starts[j]
    BY <1>1, <1>6, <2>1, <2>3 DEF TurnsStand
  <2>5. \A j \in s.closed : s.starts[j] = None /\ s.pending[j] = <<>>
    BY <1>1, <1>2, <1>3, <1>6 DEF TurnsStand
  <2> QED BY <2>2, <2>4, <2>5 DEF TurnsStand
<1>8. RecordsStand(s)
  BY <1>1, <1>2 DEF RecordsStand, Knows
<1>9. \A i \in Ids : HeardAs(s, i)
  BY <1>1, <1>2 DEF HeardAs
<1> QED BY <1>2, <1>5, <1>7, <1>8, <1>9 DEF Sound, s

Start(st, k, at) == [st EXCEPT !.starts[k] = at]

(* A turn that starts after the ends it has heard of stands.                  *)
LEMMA StartSound ==
  ASSUME NEW st, Sound(st), NEW k \in Turns, k \notin st.closed, NEW at \in Times,
         st.identities[<<"start", k>>] # None,
         \A j \in DOMAIN st.pending[k] : st.pending[k][j].at < at
  PROVE  /\ Sound(Start(st, k, at)) /\ Start(st, k, at).records = st.records
         /\ Start(st, k, at).starts = [st.starts EXCEPT ![k] = at]
         /\ Start(st, k, at).pending = st.pending
         /\ Start(st, k, at).closed = st.closed /\ Start(st, k, at).resolved = st.resolved
         /\ Start(st, k, at).identities = st.identities
<1> DEFINE s == Start(st, k, at)
<1>a. st \in Store
  BY DEF Sound
<1>1. st \in Store /\ RecordsStand(st) /\ TurnsStand(st) /\ \A i \in Ids : HeardAs(st, i)
  BY DEF Sound
<1>2. /\ s.records = st.records /\ s.starts = [st.starts EXCEPT ![k] = at]
      /\ s.pending = st.pending
      /\ s.closed = st.closed /\ s.resolved = st.resolved /\ s.identities = st.identities
  BY <1>a DEF Start, Store
<1> HIDE DEF s
<1>3. s.starts \in [Turns -> Maybe(Times)]
  BY <1>1, <1>2, Fields DEF Maybe
<1>4. s \in Store
  BY <1>a, <1>a, <1>1, <1>2, <1>3, Fields DEF Store, s, Start, s, Closed
<1>5. s.starts[k] = at /\ \A j \in Turns : j # k => s.starts[j] = st.starts[j]
  BY <1>1, <1>2, Fields
<1>6. TurnsStand(s)
  <2>1. \A x : Knows(st, x) => Knows(s, x)
    BY <1>2 DEF Knows
  <2>2. \A j \in Turns : s.starts[j] # None => s.identities[<<"start", j>>] # None
    BY <1>1, <1>2, <1>5 DEF TurnsStand
  <2>3. ASSUME NEW j \in Turns, NEW i \in DOMAIN s.pending[j]
        PROVE  /\ s.pending[j][i].key = j /\ Knows(s, s.pending[j][i])
               /\ s.starts[j] # None => s.pending[j][i].at < s.starts[j]
    BY <1>1, <1>2, <1>5, <2>1 DEF TurnsStand
  <2>4. \A j \in s.closed : s.starts[j] = None /\ s.pending[j] = <<>>
    BY <1>1, <1>2, <1>5, Fields DEF TurnsStand
  <2> QED BY <2>2, <2>3, <2>4 DEF TurnsStand
<1>7. RecordsStand(s)
  BY <1>1, <1>2 DEF RecordsStand, Knows
<1>8. \A i \in Ids : HeardAs(s, i)
  BY <1>1, <1>2 DEF HeardAs
<1> QED BY <1>2, <1>4, <1>6, <1>7, <1>8 DEF Sound, s

(* A corrected end keeps its place, and the later of its times.                *)
LEMMA CorrectedIs ==
  ASSUME NEW ends \in Seq(Ends), NEW e \in Ends
  PROVE  /\ Corrected(ends, e) \in Seq(Ends)
         /\ \A j \in DOMAIN Corrected(ends, e) :
              Corrected(ends, e)[j] = e \/ \E i \in DOMAIN ends : Corrected(ends, e)[j] = ends[i]
         /\ \E j \in DOMAIN Corrected(ends, e) :
              Corrected(ends, e)[j].id = e.id /\ Corrected(ends, e)[j].at >= e.at
         /\ \A i \in DOMAIN ends : \E j \in DOMAIN Corrected(ends, e) :
              Corrected(ends, e)[j].id = ends[i].id /\ Corrected(ends, e)[j].at >= ends[i].at
<1> DEFINE c == Corrected(ends, e)
<1>1. /\ DOMAIN ends = 1..Len(ends) /\ Len(ends) \in Nat /\ \A i \in DOMAIN ends : ends[i] \in Ends
  OBVIOUS
<1>2. \A x \in Ends : x.at \in Nat
  BY EventTypes DEF Ends, Times
<1>3. CASE \E i \in DOMAIN ends : ends[i].id = e.id
  <2>1. c = [i \in DOMAIN ends |->
               IF ends[i].id = e.id /\ e.at > ends[i].at THEN e ELSE ends[i]]
    BY <1>3 DEF Corrected
  <2>2. c \in Seq(Ends) /\ DOMAIN c = DOMAIN ends
    BY <1>1, <2>1
  <2>3. \A i \in DOMAIN ends :
          c[i] = IF ends[i].id = e.id /\ e.at > ends[i].at THEN e ELSE ends[i]
    BY <2>1
  <2> HIDE DEF c
  <2>4. \A i \in DOMAIN ends : c[i].id = ends[i].id /\ c[i].at >= ends[i].at
    BY <1>1, <1>2, <2>3
  <2>5. \E j \in DOMAIN c : c[j].id = e.id /\ c[j].at >= e.at
    <3>1. PICK i \in DOMAIN ends : ends[i].id = e.id
      BY <1>3
    <3>2. c[i].id = e.id /\ c[i].at >= e.at
      BY <1>1, <1>2, <2>3, <3>1
    <3> QED BY <2>2, <3>2
  <2> QED BY <2>2, <2>3, <2>4, <2>5 DEF c
<1>4. CASE ~\E i \in DOMAIN ends : ends[i].id = e.id
  <2>1. c = Append(ends, e)
    BY <1>4 DEF Corrected
  <2>2. /\ c \in Seq(Ends) /\ DOMAIN c = 1..Len(ends) + 1 /\ c[Len(ends) + 1] = e
        /\ \A i \in DOMAIN ends : c[i] = ends[i] /\ i \in DOMAIN c
    BY <1>1, <2>1
  <2> HIDE DEF c
  <2>3. \A j \in DOMAIN c : c[j] = e \/ \E i \in DOMAIN ends : c[j] = ends[i]
    BY <1>1, <2>2
  <2>4. \E j \in DOMAIN c : c[j].id = e.id /\ c[j].at >= e.at
    BY <1>1, <1>2, <2>2
  <2>5. \A i \in DOMAIN ends : \E j \in DOMAIN c : c[j].id = ends[i].id /\ c[j].at >= ends[i].at
    BY <1>1, <1>2, <2>2
  <2> QED BY <2>2, <2>3, <2>4, <2>5 DEF c
<1> QED BY <1>3, <1>4

Wait(st, e) == [st EXCEPT !.pending[e.key] = Corrected(@, e)]

(* An end that waits for its turn's start stands.                              *)
LEMMA WaitSound ==
  ASSUME NEW st, Sound(st), NEW e \in Ends, e.key \notin st.closed, st.starts[e.key] = None,
         Knows(st, e)
  PROVE  /\ Sound(Wait(st, e)) /\ Wait(st, e).records = st.records
         /\ Wait(st, e).starts = st.starts
         /\ Wait(st, e).pending = [st.pending EXCEPT ![e.key] = Corrected(st.pending[e.key], e)]
         /\ Wait(st, e).closed = st.closed /\ Wait(st, e).resolved = st.resolved
         /\ Wait(st, e).identities = st.identities
<1> DEFINE s == Wait(st, e)
           k == e.key
           c == Corrected(st.pending[k], e)
<1>a. st \in Store
  BY DEF Sound
<1>1. RecordsStand(st) /\ TurnsStand(st) /\ \A i \in Ids : HeardAs(st, i)
  BY DEF Sound
<1>2. /\ s.records = st.records /\ s.starts = st.starts
      /\ s.pending = [st.pending EXCEPT ![k] = c]
      /\ s.closed = st.closed /\ s.resolved = st.resolved /\ s.identities = st.identities
  BY <1>a DEF Wait, Store
<1>3. k \in Turns /\ st.pending \in [Turns -> Seq(Ends)] /\ st.pending[k] \in Seq(Ends)
  BY <1>a, Fields, EventTypes DEF Ends
<1>4. /\ c \in Seq(Ends)
      /\ \A j \in DOMAIN c : c[j] = e \/ \E i \in DOMAIN st.pending[k] : c[j] = st.pending[k][i]
  BY <1>3, CorrectedIs
<1>5. s \in Store
  <2>1. s.pending \in [Turns -> Seq(Ends)]
    BY <1>2, <1>3, <1>4
  <2> HIDE DEF c
  <2> QED BY <1>a, <1>2, <2>1 DEF Store, s, Wait
<1> HIDE DEF s, c
<1>6. s.pending[k] = c /\ \A j \in Turns : j # k => s.pending[j] = st.pending[j]
  BY <1>2, <1>3
<1>7. TurnsStand(s)
  <2>1. \A x : Knows(st, x) => Knows(s, x)
    BY <1>2 DEF Knows
  <2>2. \A j \in Turns : s.starts[j] # None => s.identities[<<"start", j>>] # None
    BY <1>1, <1>2 DEF TurnsStand
  <2>3. ASSUME NEW j \in Turns, NEW i \in DOMAIN s.pending[j]
        PROVE  /\ s.pending[j][i].key = j /\ Knows(s, s.pending[j][i])
               /\ s.starts[j] # None => s.pending[j][i].at < s.starts[j]
    <3>1. CASE j # k
      BY <1>1, <1>2, <1>6, <2>1, <3>1 DEF TurnsStand
    <3>2. CASE j = k
      BY <1>1, <1>2, <1>3, <1>4, <1>6, <2>1, <3>2 DEF TurnsStand
    <3> QED BY <3>1, <3>2
  <2>4. \A j \in s.closed : s.starts[j] = None /\ s.pending[j] = <<>>
    BY <1>a, <1>1, <1>2, <1>6, Fields DEF TurnsStand
  <2> QED BY <2>2, <2>3, <2>4 DEF TurnsStand
<1>8. RecordsStand(s)
  BY <1>1, <1>2 DEF RecordsStand, Knows
<1>9. \A i \in Ids : HeardAs(s, i)
  BY <1>1, <1>2 DEF HeardAs
<1> QED BY <1>2, <1>5, <1>7, <1>8, <1>9 DEF Sound, s, c

(* The requests that wait, and those of them that go before a record.            *)
Unanswered(st) == {r \in st.records : NeedsAttention(r)}
Before(st, r) == {s \in Unanswered(st) : AheadByTime(s, r)}

(* Records that are the same but resolved, as every request among them is that  *)
(* the store takes as resolved from now on.                                    *)
Settles(st, rs, Q) ==
  /\ rs \subseteq Entry /\ Q \subseteq Requests
  /\ \A x \in rs : \E r \in st.records :
       /\ x.id = r.id /\ x.type = r.type /\ x.key = r.key
       /\ NeedsAttention(x) => x = r /\ x.key \notin Q
  /\ \A r \in Unanswered(st) : r.key \notin Q => r \in rs
  /\ \A x, y \in rs : x.id = y.id => x = y
Settle(st, rs, Q) == [st EXCEPT !.resolved = @ \cup Q, !.records = rs]

(* A store whose records are settled stands, its turns untouched.             *)
LEMMA SettleSound ==
  ASSUME NEW st, Sound(st), NEW rs, NEW Q, Settles(st, rs, Q)
  PROVE  /\ Sound(Settle(st, rs, Q)) /\ Settle(st, rs, Q).records = rs
         /\ Settle(st, rs, Q).starts = st.starts /\ Settle(st, rs, Q).pending = st.pending
         /\ Settle(st, rs, Q).closed = st.closed
         /\ Settle(st, rs, Q).resolved = st.resolved \cup Q
         /\ Settle(st, rs, Q).identities = st.identities
<1> DEFINE s == Settle(st, rs, Q)
<1>a. st \in Store
  BY DEF Sound
<1>1. RecordsStand(st) /\ TurnsStand(st) /\ \A i \in Ids : HeardAs(st, i)
  BY DEF Sound
<1>2. /\ s.records = rs /\ s.starts = st.starts /\ s.pending = st.pending
      /\ s.closed = st.closed /\ s.resolved = st.resolved \cup Q /\ s.identities = st.identities
  BY <1>a DEF Settle, Store
<1>3. s \in Store
  <2>1. s.records \subseteq Entry /\ s.resolved \subseteq Requests
    BY <1>a, <1>2, Fields DEF Settles
  <2> QED BY <1>a, <1>2, <2>1 DEF Store, s, Settle
<1> HIDE DEF s
<1>4. RecordsStand(s)
  <2>1. ASSUME NEW x \in s.records
        PROVE  /\ Knows(s, x) /\ (x.type = "end" => x.key \in s.closed)
               /\ NeedsAttention(x) => x.key \notin s.resolved
    <3>1. PICK r \in st.records :
            /\ x.id = r.id /\ x.type = r.type /\ x.key = r.key
            /\ NeedsAttention(x) => x = r /\ x.key \notin Q
      BY <1>2 DEF Settles
    <3>2. /\ Knows(st, r) /\ (r.type = "end" => r.key \in st.closed)
          /\ NeedsAttention(r) => r.key \notin st.resolved
      BY <1>1 DEF RecordsStand
    <3> QED BY <1>2, <3>1, <3>2 DEF Knows
  <2>2. \A x, y \in s.records : x.id = y.id => x = y
    BY <1>2 DEF Settles
  <2> QED BY <2>1, <2>2 DEF RecordsStand
<1>5. TurnsStand(s)
  BY <1>1, <1>2 DEF TurnsStand, Knows
<1>6. \A i \in Ids : HeardAs(s, i)
  BY <1>1, <1>2 DEF HeardAs
<1> QED BY <1>2, <1>3, <1>4, <1>5, <1>6 DEF Sound, s

-----------------------------------------------------------------------------
(* What becomes of an event, before what it leaves is pruned.                  *)

CloseWith(st, p) == WithRecord(Closed(st, p.key), p)
Began(st, e) == IF st.starts[e.key] = None THEN e.at ELSE st.starts[e.key]

ResolvesRequest(r, e, s) ==
  /\ e.type = "resolved" /\ \E rs : Settles(r, rs, {e.key}) /\ s = Settle(r, rs, {e.key})
MakesRequest(r, e, s) == e.type = "ask" /\ s = WithRecord(r, e)
ClosesTurn(r, e, s) ==
  /\ e.type \in {"start", "end"} /\ e.key \notin r.closed
  /\ \E p \in Ends : /\ p.key = e.key /\ Knows(r, p) /\ (\A x \in r.records : x.id # p.id)
                     /\ s = CloseWith(r, p)
LeavesClosed(r, e, s) == e.type \in {"start", "end"} /\ e.key \in r.closed /\ s = r
StartsTurn(r, e, s) ==
  /\ e.type = "start" /\ e.key \notin r.closed /\ s = Start(r, e.key, Began(r, e))
  /\ \A j \in DOMAIN r.pending[e.key] : r.pending[e.key][j].at < Began(r, e)
EndsAhead(r, e, s) ==
  e.type = "end" /\ e.key \notin r.closed /\ r.starts[e.key] = None /\ s = Wait(r, e)
EndsBefore(r, e, s) ==
  /\ e.type = "end" /\ e.key \notin r.closed /\ s = r
  /\ r.starts[e.key] # None /\ e.at < r.starts[e.key]

(* #complete, of an end that fits, closes the turn and records the end.       *)
LEMMA Completes ==
  ASSUME NEW st, Sound(st), NEW p \in Ends, NEW time, p.key \notin st.closed, Knows(st, p),
         st.starts[p.key] # None, p.at >= st.starts[p.key]
  PROVE  /\ \A x \in st.records : x.id # p.id
         /\ Completed(st, p, time) = Pruned(CloseWith(st, p), time)
<1>1. \A x \in st.records : x.id # p.id
  BY DEF Sound, RecordsStand, Knows, Ends
<1>2. ~(p.at < st.starts[p.key])
  <2>1. p.at \in Times /\ p.key \in Turns
    BY EventTypes DEF Ends
  <2>2. st.starts[p.key] \in Times
    BY <2>1, Fields DEF Sound, Maybe
  <2> QED BY <2>1, <2>2 DEF Times
<1>3. Completed(st, p, time) = Inserted(Closed(st, p.key), p, time)
  BY <1>1, <1>2 DEF Completed
<1> QED BY <1>1, <1>3 DEF Inserted, CloseWith, WithRecord, NewRecord

(* What ingest makes of a resolution settles its request.                     *)
LEMMA IngestedResolved ==
  ASSUME NEW r, Sound(r), NEW e \in Events, e.type = "resolved", NEW time
  PROVE  \E s : ResolvesRequest(r, e, s) /\ Ingested(r, e, time) = Pruned(s, time)
<1> DEFINE M(x) == IF x.type = "ask" /\ x.key = e.key THEN [x EXCEPT !.resolved = TRUE] ELSE x
           rs == {M(x) : x \in r.records}
<1>1. Ingested(r, e, time) = Pruned(Settle(r, rs, {e.key}), time)
  BY DEF Ingested, Resolved, Settle
<1>2. r.records \subseteq Entry /\ RecordsStand(r)
  BY Fields DEF Sound
<1>3. ASSUME NEW x \in r.records
      PROVE  /\ M(x) \in Entry /\ M(x).id = x.id /\ M(x).type = x.type /\ M(x).key = x.key
             /\ NeedsAttention(M(x)) => M(x) = x /\ M(x).key \notin {e.key}
             /\ NeedsAttention(x) /\ x.key \notin {e.key} => M(x) = x
  <2>1. x \in Entry
    BY <1>2
  <2>2. CASE x.type = "ask" /\ x.key = e.key
    <3>1. M(x) = [x EXCEPT !.resolved = TRUE]
      BY <2>2
    <3> QED BY <2>1, <3>1 DEF Entry, NeedsAttention
  <2>3. CASE ~(x.type = "ask" /\ x.key = e.key)
    <3>1. M(x) = x
      BY <2>3
    <3> HIDE DEF M
    <3> QED BY <2>1, <2>3, <3>1 DEF NeedsAttention
  <2> QED BY <2>2, <2>3
<1> HIDE DEF M
<1>4. {e.key} \subseteq Requests
  BY EventTypes
<1>5. Settles(r, rs, {e.key})
  <2>1. \A x \in Unanswered(r) : x.key \notin {e.key} => x \in rs
    BY <1>3 DEF Unanswered
  <2> QED BY <1>2, <1>3, <1>4, <2>1 DEF Settles, RecordsStand
<1> QED BY <1>1, <1>5 DEF ResolvesRequest

(* What ingest makes of a start or an end of a turn.                          *)
LEMMA IngestedTurn ==
  ASSUME NEW r, Sound(r), NEW e \in Events, e.type \in {"start", "end"}, Knows(r, e), NEW time
  PROVE  \E s : \/ ClosesTurn(r, e, s) /\ Ingested(r, e, time) = Pruned(s, time)
                \/ /\ Ingested(r, e, time) = s
                   /\ \/ LeavesClosed(r, e, s) \/ StartsTurn(r, e, s)
                      \/ EndsAhead(r, e, s) \/ EndsBefore(r, e, s)
<1> DEFINE k == e.key
           now1 == Ingested(r, e, time)
<1>0. k \in Turns /\ e.at \in Times /\ r \in Store /\ r.starts \in [Turns -> Maybe(Times)]
        /\ r.pending[k] \in Seq(Ends) /\ TurnsStand(r)
  BY EventTypes, Fields DEF Sound
<1>1. CASE k \in r.closed
  BY <1>1 DEF Ingested, LeavesClosed
<1>2. CASE e.type = "start" /\ k \notin r.closed
  <2> DEFINE at == Began(r, e)
             next == Start(r, k, at)
             good == {p \in Ends : p.at >= at}
             fitting == Only(r.pending[k], good)
  <2>1. now1 = IF fitting = <<>> THEN next ELSE Completed(next, fitting[1], time)
    <3>1. now1 = Started(r, e, time)
      BY <1>2 DEF Ingested
    <3>2. next.pending = r.pending
      BY <1>0 DEF Start, Store
    <3> QED BY <3>1 DEF Started, Began, Start
  <2>2. at \in Times
    BY <1>0 DEF Began, Maybe
  <2>3. fitting \in Seq(Ends) /\ OnlyThose(fitting, r.pending[k], good, Len(r.pending[k]))
    BY <1>0, OnlyIsOnly
  <2>4. /\ DOMAIN r.pending[k] = 1..Len(r.pending[k])
        /\ \A j \in DOMAIN r.pending[k] : r.pending[k][j] \in Ends
    BY <1>0
  <2>5. \A p \in Ends : p.at \in Times
    BY EventTypes DEF Ends
  <2>6. CASE fitting = <<>>
    <3>1. \A j \in DOMAIN r.pending[k] : r.pending[k][j] \notin good
      BY <2>3, <2>4, <2>6 DEF OnlyThose
    <3>2. \A j \in DOMAIN r.pending[k] : r.pending[k][j].at < at
      BY <2>2, <2>4, <2>5, <3>1 DEF Times
    <3> QED BY <1>2, <2>1, <2>6, <3>2 DEF StartsTurn
  <2>7. CASE fitting # <<>>
    <3> DEFINE p == fitting[1]
    <3>1. 1 \in DOMAIN fitting
      BY <2>3, <2>7
    <3>2. p \in good /\ \E i \in DOMAIN r.pending[k] : p = r.pending[k][i]
      BY <2>3, <2>4, <3>1 DEF OnlyThose
    <3>3. p \in Ends /\ p.at >= at
      BY <3>2
    <3> HIDE DEF p, fitting
    <3>4. p.key = k /\ Knows(r, p)
      BY <1>0, <3>2 DEF TurnsStand
    <3>5. now1 = Completed(next, p, time)
      BY <2>1, <2>7 DEF p
    <3>6. /\ next.records = r.records /\ next.starts = [r.starts EXCEPT ![k] = at]
          /\ Closed(next, k) = Closed(r, k)
      BY <1>0 DEF Start, Closed, Store
    <3>7. next.starts[k] = at
      BY <1>0, <3>6
    <3>8. \A x \in r.records : x.id # p.id
      BY <1>2, <3>3, <3>4 DEF Sound, RecordsStand, Knows, Ends
    <3>9. Completed(next, p, time) = Inserted(Closed(next, k), p, time)
      BY <2>2, <2>5, <3>3, <3>4, <3>6, <3>7, <3>8 DEF Completed, Times
    <3>10. Inserted(Closed(next, k), p, time) = Pruned(CloseWith(r, p), time)
      BY <3>4, <3>6 DEF Inserted, CloseWith, WithRecord, NewRecord
    <3> QED BY <1>2, <3>3, <3>4, <3>5, <3>8, <3>9, <3>10 DEF ClosesTurn
  <2> QED BY <2>6, <2>7
<1>3. CASE e.type = "end" /\ k \notin r.closed /\ r.starts[k] = None
  <2>1. now1 = Wait(r, e)
    BY <1>3 DEF Ingested, Wait
  <2> QED BY <1>3, <2>1 DEF EndsAhead
<1>4. CASE e.type = "end" /\ k \notin r.closed /\ r.starts[k] # None
  <2>1. now1 = Completed(r, e, time)
    BY <1>4 DEF Ingested
  <2>2. e \in Ends /\ r.starts[k] \in Times
    BY <1>0, <1>4 DEF Ends, Maybe
  <2>3. CASE e.at >= r.starts[k]
    BY <1>4, <2>1, <2>2, <2>3, Completes DEF ClosesTurn
  <2>4. CASE e.at < r.starts[k]
    BY <1>4, <2>1, <2>4 DEF Completed, EndsBefore
  <2> QED BY <1>0, <2>2, <2>3, <2>4 DEF Times
<1> QED BY <1>1, <1>2, <1>3, <1>4

Outcome(r, e, s) ==
  \/ ResolvesRequest(r, e, s) \/ MakesRequest(r, e, s) \/ ClosesTurn(r, e, s)
  \/ LeavesClosed(r, e, s) \/ StartsTurn(r, e, s) \/ EndsAhead(r, e, s) \/ EndsBefore(r, e, s)

(* What the cap leaves of the requests that wait: those that few enough of them   *)
(* go before.                                                                 *)
Capped(s, p) == Unanswered(p) = {r \in Unanswered(s) : Cardinality(Before(s, r)) < Limit}

(* Pruning caps the requests that wait by themselves alone: neither ends of turns*)
(* nor age push one out.                                                      *)
LEMMA Caps ==
  ASSUME NEW st, NEW time
  PROVE  Capped(st, Pruned(st, time))
<1> DEFINE eligible == {r \in st.records : NeedsAttention(r) \/ r.at > time - Age}
<1>1. Pruned(st, time).records = Retained(st.records, time)
  BY DEF Pruned
<1>2. Retained(st.records, time) =
        {r \in eligible : Cardinality({s \in eligible : Ahead(s, r)}) < Limit}
  BY DEF Retained
<1>3. ASSUME NEW r, NeedsAttention(r) PROVE {s \in eligible : Ahead(s, r)} = Before(st, r)
  BY <1>3 DEF Ahead, Before, Unanswered
<1>4. Unanswered(Pruned(st, time)) =
        {r \in st.records : NeedsAttention(r) /\ Cardinality({s \in eligible : Ahead(s, r)}) < Limit}
  BY <1>1, <1>2 DEF Unanswered
<1> HIDE DEF eligible
<1> QED BY <1>3, <1>4 DEF Capped, Unanswered

(* Nothing of a store is left that should have been pruned.                    *)
Leaves(s, p, time) ==
  (PrunedTo(s, p, time) /\ Capped(s, p)) \/ (p = s /\ Alive(s, time))

(* Each outcome stands, keeps the identities and re-opens no turn.             *)
LEMMA OutcomeSound ==
  ASSUME NEW r, Sound(r), NEW e \in Events, Knows(r, e), \A x \in r.records : x.id # e.id,
         NEW s, Outcome(r, e, s)
  PROVE  Sound(s) /\ s.identities = r.identities /\ r.closed \subseteq s.closed
<1>0. TurnsStand(r) /\ r \in Store
  BY DEF Sound
<1>1. CASE ResolvesRequest(r, e, s)
  <2>1. PICK rs : Settles(r, rs, {e.key}) /\ s = Settle(r, rs, {e.key})
    BY <1>1 DEF ResolvesRequest
  <2> QED BY <2>1, SettleSound
<1>2. CASE MakesRequest(r, e, s)
  BY <1>2, AddsSound DEF MakesRequest
<1>3. CASE ClosesTurn(r, e, s)
  <2>1. PICK p \in Ends : /\ p.key = e.key /\ Knows(r, p) /\ (\A x \in r.records : x.id # p.id)
                          /\ s = CloseWith(r, p)
    BY <1>3 DEF ClosesTurn
  <2>2. p \in Events /\ p.type = "end" /\ p.key \in Turns
    BY EventTypes DEF Ends
  <2> DEFINE c == Closed(r, p.key)
  <2>3. /\ Sound(c) /\ c.records = r.records /\ c.closed = r.closed \cup {p.key}
        /\ c.identities = r.identities
    BY <2>2, ClosesSound
  <2> HIDE DEF c
  <2>4. Knows(c, p)
    BY <2>1, <2>3 DEF Knows
  <2>5. /\ Sound(WithRecord(c, p)) /\ WithRecord(c, p).closed = c.closed
        /\ WithRecord(c, p).identities = c.identities
    BY <2>1, <2>2, <2>3, <2>4, AddsSound
  <2> QED BY <2>1, <2>3, <2>5 DEF CloseWith, c
<1>4. CASE LeavesClosed(r, e, s) \/ EndsBefore(r, e, s)
  BY <1>4 DEF LeavesClosed, EndsBefore
<1>5. CASE StartsTurn(r, e, s)
  <2>1. e.key \in Turns /\ r.identities[<<"start", e.key>>] # None /\ e.at \in Times
    BY <1>5, EventTypes DEF StartsTurn, Knows
  <2>2. Began(r, e) \in Times
    BY <1>0, <2>1, Fields DEF Began, Maybe
  <2> QED BY <1>5, <2>1, <2>2, StartSound DEF StartsTurn
<1>6. CASE EndsAhead(r, e, s)
  BY <1>6, WaitSound DEF EndsAhead, Ends
<1> QED BY <1>1, <1>2, <1>3, <1>4, <1>5, <1>6 DEF Outcome

(* A turn that is closed is not forgotten at once.                             *)
LEMMA CloseLasts ==
  ASSUME NEW r, Sound(r), NEW e \in Events, Knows(r, e), \A x \in r.records : x.id # e.id,
         NEW s, Outcome(r, e, s), NEW time, Alive(r, time), NEW p, Leaves(s, p, time),
         NEW k \in s.closed, k \notin r.closed
  PROVE  k \in p.closed
<1>1. CASE p = s
  BY <1>1
<1>2. CASE PrunedTo(s, p, time) /\ ClosesTurn(r, e, s)
  <2>1. PICK c \in Ends : /\ c.key = e.key /\ Knows(r, c) /\ (\A x \in r.records : x.id # c.id)
                          /\ s = CloseWith(r, c)
    BY <1>2 DEF ClosesTurn
  <2>2. c \in Events /\ c.type = "end" /\ c.key \in Turns /\ c.id \in Ids
    BY EventTypes DEF Ends
  <2>3. Closed(r, c.key).closed = r.closed \cup {c.key} /\ Sound(Closed(r, c.key))
    BY <2>2, ClosesSound
  <2>4. s.closed = Closed(r, c.key).closed
    BY <2>1, <2>3 DEF CloseWith, WithRecord, Sound, Store
  <2>5. k = c.key
    BY <2>3, <2>4
  <2>6. s.identities = r.identities
    BY OutcomeSound
  <2>7. r.identities[c.id] # None /\ r.identities[c.id].expiresAt > time
    BY <2>1, <2>2 DEF Alive, Knows
  <2>8. p.identities[c.id] = s.identities[c.id]
    BY <1>2, <2>2, <2>6, <2>7 DEF PrunedTo
  <2>9. \E i \in Ids : p.identities[i] # None /\ p.identities[i].type = "end" /\ p.identities[i].key = k
    BY <2>1, <2>2, <2>5, <2>6, <2>8 DEF Knows
  <2> QED BY <1>2, <2>9 DEF PrunedTo
<1>3. CASE ~ClosesTurn(r, e, s)
  <2>0. r \in Store
    BY DEF Sound
  <2>1. ASSUME ResolvesRequest(r, e, s) PROVE s.closed = r.closed
    BY <2>0, <2>1, SettleSound DEF ResolvesRequest
  <2>2. ASSUME MakesRequest(r, e, s) PROVE s.closed = r.closed
    BY <2>0, <2>2 DEF MakesRequest, WithRecord, Store
  <2>3. ASSUME StartsTurn(r, e, s) PROVE s.closed = r.closed
    BY <2>0, <2>3 DEF StartsTurn, Start, Store
  <2>4. ASSUME EndsAhead(r, e, s) PROVE s.closed = r.closed
    BY <2>0, <2>4 DEF EndsAhead, Wait, Store
  <2>5. ASSUME LeavesClosed(r, e, s) \/ EndsBefore(r, e, s) PROVE s.closed = r.closed
    BY <2>5 DEF LeavesClosed, EndsBefore
  <2> QED BY <1>3, <2>1, <2>2, <2>3, <2>4, <2>5 DEF Outcome
<1> QED BY <1>1, <1>2, <1>3 DEF Leaves

(* What an event makes of the store.                                          *)
LEMMA Ingests ==
  ASSUME Sound(store), Alive(store, now), now \in Times, NEW e \in Events, Ingest(e)
  PROVE  \E r, s : /\ Sound(r) /\ Alive(r, now) /\ Remembers(store, r, e, now)
                   /\ \A x \in r.records : x.id # e.id
                   /\ Outcome(r, e, s) /\ Leaves(s, store', now)
                   /\ MakesRequest(r, e, s) => Capped(s, store')
<1> DEFINE r == Remembered(store, e, now)
<1>1. /\ ~Refused(store, e) /\ \A x \in store.records : x.id # e.id
      /\ store' = Ingested(r, e, now)
  BY DEF Ingest
<1>2. Remembers(store, r, e, now)
  BY <1>1, RememberedIs DEF Sound
<1> HIDE DEF r
<1>3. Sound(r) /\ Alive(r, now) /\ Knows(r, e) /\ \A x \in r.records : x.id # e.id
  BY <1>1, <1>2, RemembersSound DEF Remembers
<1>n. now \in Nat
  BY DEF Times
<1>4. CASE e.type = "resolved"
  <2>1. PICK s : ResolvesRequest(r, e, s) /\ store' = Pruned(s, now)
    BY <1>1, <1>3, <1>4, IngestedResolved
  <2>2. Outcome(r, e, s)
    BY <2>1 DEF Outcome
  <2>3. PrunedTo(s, store', now)
    BY <1>3, <1>n, <2>1, <2>2, OutcomeSound, Prunes
  <2>4. Capped(s, store')
    BY <2>1, Caps
  <2> QED BY <1>2, <1>3, <2>2, <2>3, <2>4 DEF Leaves
<1>5. CASE e.type = "ask"
  <2> DEFINE s == WithRecord(r, e)
  <2>1. store' = Pruned(s, now)
    BY <1>1, <1>5 DEF Ingested, Inserted, WithRecord, NewRecord
  <2>2. Outcome(r, e, s)
    BY <1>5 DEF Outcome, MakesRequest
  <2> HIDE DEF s
  <2>3. PrunedTo(s, store', now)
    BY <1>3, <1>n, <2>1, <2>2, OutcomeSound, Prunes
  <2>4. Capped(s, store')
    BY <2>1, Caps
  <2> QED BY <1>2, <1>3, <2>2, <2>3, <2>4 DEF Leaves
<1>6. CASE e.type \in {"start", "end"}
  <2>1. PICK s : \/ ClosesTurn(r, e, s) /\ store' = Pruned(s, now)
                 \/ /\ store' = s
                    /\ \/ LeavesClosed(r, e, s) \/ StartsTurn(r, e, s)
                       \/ EndsAhead(r, e, s) \/ EndsBefore(r, e, s)
    BY <1>1, <1>3, <1>6, IngestedTurn
  <2>2. Outcome(r, e, s)
    BY <2>1 DEF Outcome
  <2>m. ~MakesRequest(r, e, s)
    BY <1>6 DEF MakesRequest
  <2>3. CASE store' = Pruned(s, now)
    <3>1. PrunedTo(s, store', now)
      BY <1>3, <1>n, <2>2, <2>3, OutcomeSound, Prunes
    <3>2. Capped(s, store')
      BY <2>3, Caps
    <3> QED BY <1>2, <1>3, <2>2, <2>m, <3>1, <3>2 DEF Leaves
  <2>4. CASE /\ store' = s
             /\ \/ LeavesClosed(r, e, s) \/ StartsTurn(r, e, s)
                \/ EndsAhead(r, e, s) \/ EndsBefore(r, e, s)
    <3>1. s.records = r.records /\ s.identities = r.identities
      <4>1. r \in Store
        BY <1>3 DEF Sound
      <4> QED BY <2>4, <4>1 DEF LeavesClosed, StartsTurn, EndsAhead, EndsBefore,
                 Start, Wait, Store
    <3>2. Alive(s, now)
      BY <1>3, <3>1 DEF Alive
    <3> QED BY <1>2, <1>3, <2>2, <2>m, <2>4, <3>2 DEF Leaves
  <2> QED BY <2>1, <2>3, <2>4
<1> QED BY <1>4, <1>5, <1>6, EventTypes

-----------------------------------------------------------------------------
(* What was heard of the turns and what the store knows of them agree: `b` is    *)
(* when each began and `n` when each end was, as far as either is remembered.   *)
BeginsAgree(st, b) == \A k \in Turns : k \notin st.closed => b[k] = st.starts[k]
Waits(st, k, i, at) ==
  \E j \in DOMAIN st.pending[k] : st.pending[k][j].id = i /\ st.pending[k][j].at >= at
EndsAgree(st, n) ==
  \A i \in Ids : n[i] # None =>
    /\ st.identities[i] # None
    /\ \A k \in Turns : st.identities[i].key = k /\ k \notin st.closed => Waits(st, k, i, n[i])
Agree(st, b, n) == BeginsAgree(st, b) /\ EndsAgree(st, n)

(* What lasts of the history when `old` becomes p.                             *)
Lasting(old, p, i) ==
  /\ p.identities[i] # None
  /\ p.identities[i].key \notin old.closed \ p.closed

(* Pruning forgets of the turns what was heard of them with what it rests on. *)
LEMMA AgreeLasts ==
  ASSUME NEW old, NEW s, NEW p, NEW time, NEW b, NEW n, Sound(s), Leaves(s, p, time),
         Agree(s, b, n), old.closed \subseteq s.closed,
         \A k \in s.closed : k \notin old.closed => k \in p.closed
  PROVE  Agree(p, [k \in Turns |-> IF Lasting(old, p, <<"start", k>>) THEN b[k] ELSE None],
                  [i \in Ids |-> IF Lasting(old, p, i) THEN n[i] ELSE None])
<1> DEFINE c == [k \in Turns |-> IF Lasting(old, p, <<"start", k>>) THEN b[k] ELSE None]
           m == [i \in Ids |-> IF Lasting(old, p, i) THEN n[i] ELSE None]
<1>1. /\ TurnsStand(s) /\ Sound(p) /\ p.closed \subseteq s.closed
      /\ \A i \in Ids : HeardAs(p, i) /\ (p.identities[i] # None => p.identities[i] = s.identities[i])
  <2>1. Sound(p)
    BY PrunedSound DEF Leaves
  <2> QED BY <2>1 DEF Leaves, PrunedTo, Sound
<1>2. ASSUME NEW k \in Turns, k \notin p.closed PROVE c[k] = p.starts[k]
  <2>1. <<"start", k>> \in Ids
    BY OwnIds
  <2>2. p.starts[k] = IF p.identities[<<"start", k>>] # None THEN s.starts[k] ELSE None
    BY <1>1 DEF Leaves, PrunedTo, TurnsStand
  <2>3. CASE p.identities[<<"start", k>>] = None
    BY <2>2, <2>3 DEF Lasting
  <2>4. CASE p.identities[<<"start", k>>] # None
    <3>1. p.identities[<<"start", k>>].key = k
      <4>1. p.identities[<<"start", k>>] \in Heard
        BY <1>1, <2>1, <2>4, Fields DEF Sound
      <4>2. p.identities[<<"start", k>>].type \in {"start", "end", "ask", "resolved"}
        BY <4>1 DEF Heard
      <4> QED BY <1>1, <2>1, <2>4, <4>2 DEF HeardAs
    <3>2. CASE k \in s.closed
      <4>1. k \in old.closed
        BY <1>2, <3>2
      <4>2. s.starts[k] = None
        BY <1>1, <3>2 DEF TurnsStand
      <4> QED BY <1>2, <2>2, <3>1, <4>1, <4>2 DEF Lasting
    <3>3. CASE k \notin s.closed
      <4>1. b[k] = s.starts[k] /\ k \notin old.closed
        BY <3>3 DEF Agree, BeginsAgree
      <4> QED BY <2>2, <2>4, <3>1, <4>1 DEF Lasting
    <3> QED BY <3>2, <3>3
  <2> QED BY <2>3, <2>4
<1>3. ASSUME NEW i \in Ids, m[i] # None
      PROVE  /\ p.identities[i] # None
             /\ \A k \in Turns : p.identities[i].key = k /\ k \notin p.closed => Waits(p, k, i, m[i])
  <2>1. Lasting(old, p, i) /\ m[i] = n[i] /\ n[i] # None
    BY <1>3
  <2>2. p.identities[i] # None /\ p.identities[i] = s.identities[i]
    BY <1>1, <2>1 DEF Lasting
  <2>3. ASSUME NEW k \in Turns, p.identities[i].key = k, k \notin p.closed
        PROVE  Waits(p, k, i, n[i])
    <3>1. k \notin s.closed
      BY <2>1, <2>3 DEF Lasting
    <3>2. Waits(s, k, i, n[i])
      BY <2>1, <2>2, <2>3, <3>1 DEF Agree, EndsAgree
    <3>3. PICK j \in DOMAIN s.pending[k] : s.pending[k][j].id = i /\ s.pending[k][j].at >= n[i]
      BY <3>2 DEF Waits
    <3>4. CASE p = s
      BY <3>2, <3>4
    <3>5. CASE PrunedTo(s, p, time)
      BY <2>2, <3>3, <3>5 DEF PrunedTo, Waits
    <3> QED BY <3>4, <3>5 DEF Leaves
  <2> QED BY <2>1, <2>2, <2>3
<1> QED BY <1>2, <1>3 DEF Agree, BeginsAgree, EndsAgree

(* An event that is remembered is news of nothing known.                       *)
LEMMA AgreeRemembers ==
  ASSUME NEW st, NEW r, NEW e \in Events, NEW time, NEW b, NEW n, Remembers(st, r, e, time),
         Agree(st, b, n)
  PROVE  Agree(r, b, n)
<1>1. BeginsAgree(r, b)
  BY DEF Remembers, Agree, BeginsAgree
<1>2. ASSUME NEW i \in Ids, n[i] # None PROVE r.identities[i] = st.identities[i]
  BY <1>2 DEF Remembers, Agree, EndsAgree
<1>3. EndsAgree(r, n)
  BY <1>2 DEF Remembers, Agree, EndsAgree, Waits
<1> QED BY <1>1, <1>3 DEF Agree

BegunWith(b, e) ==
  IF e.type = "start" /\ b[e.key] = None THEN [b EXCEPT ![e.key] = e.at] ELSE b
EndedWith(b, n, e) ==
  IF e.type = "end" /\ (b[e.key] # None => e.at >= b[e.key])
                    /\ (n[e.id] # None => e.at > n[e.id])
  THEN [n EXCEPT ![e.id] = e.at] ELSE n

(* What an event tells agrees with what the store makes of it.                  *)
LEMMA AgreeIngests ==
  ASSUME NEW r, Sound(r), NEW e \in Events, Knows(r, e), NEW s, Outcome(r, e, s),
         \A x \in r.records : x.id # e.id,
         NEW b, NEW n, b \in [Turns -> Maybe(Times)], n \in [Ids -> Maybe(Times)], Agree(r, b, n)
  PROVE  Agree(s, BegunWith(b, e), EndedWith(b, n, e))
<1> DEFINE k == e.key
           c == BegunWith(b, e)
           m == EndedWith(b, n, e)
<1>0. /\ r \in Store /\ TurnsStand(r) /\ e.at \in Times /\ e.id \in Ids
      /\ s.identities = r.identities /\ r.closed \subseteq s.closed
      /\ r.identities[e.id] # None /\ r.identities[e.id].key = k
  BY OutcomeSound, EventTypes DEF Sound, Knows
<1>1. /\ e.type # "start" => c = b
      /\ e.type = "start" => /\ k \in Turns /\ \A j \in Turns : j # k => c[j] = b[j]
                             /\ c[k] = IF b[k] = None THEN e.at ELSE b[k]
  BY EventTypes DEF BegunWith
<1>2. /\ e.type # "end" => m = n
      /\ \A i \in Ids : i # e.id => m[i] = n[i]
      /\ m[e.id] = n[e.id] \/ /\ m[e.id] = e.at /\ (b[k] # None => e.at >= b[k])
                              /\ e.type = "end" /\ (n[e.id] # None => e.at > n[e.id])
  BY <1>0 DEF EndedWith
<1>3. \A i \in Ids : m[i] # None => s.identities[i] # None
  BY <1>0, <1>2 DEF Agree, EndsAgree
<1> SUFFICES Agree(s, c, m)
  OBVIOUS
<1> HIDE DEF c, m
<1>4. ASSUME s.starts = r.starts, s.pending = r.pending, s.closed = r.closed, c = b, m = n
      PROVE  Agree(s, c, m)
  BY <1>0, <1>4 DEF Agree, BeginsAgree, EndsAgree, Waits
<1>5. ASSUME \A j \in Turns : j # k /\ j \notin s.closed =>
                 s.starts[j] = r.starts[j] /\ s.pending[j] = r.pending[j] /\ j \notin r.closed,
             k \in s.closed
      PROVE  Agree(s, c, m)
  <2>1. \A j \in Turns : j \notin s.closed => c[j] = s.starts[j]
    BY <1>1, <1>5 DEF Agree, BeginsAgree
  <2>2. ASSUME NEW i \in Ids, m[i] # None, NEW j \in Turns, s.identities[i].key = j, j \notin s.closed
        PROVE  Waits(s, j, i, m[i])
    <3>1. j # k
      BY <1>5, <2>2
    <3>2. i # e.id
      BY <1>0, <2>2, <3>1
    <3>3. m[i] = n[i] /\ j \notin r.closed /\ s.pending[j] = r.pending[j] /\ r.identities[i].key = j
      BY <1>0, <1>2, <1>5, <2>2, <3>1, <3>2
    <3>4. Waits(r, j, i, n[i])
      BY <2>2, <3>3 DEF Agree, EndsAgree
    <3> QED BY <3>3, <3>4 DEF Waits
  <2> QED BY <1>3, <2>1, <2>2 DEF Agree, BeginsAgree, EndsAgree
<1>6. CASE ResolvesRequest(r, e, s)
  <2>1. PICK rs : Settles(r, rs, {e.key}) /\ s = Settle(r, rs, {e.key})
    BY <1>6 DEF ResolvesRequest
  <2>2. s.starts = r.starts /\ s.pending = r.pending /\ s.closed = r.closed
    BY <2>1, SettleSound
  <2> QED BY <1>1, <1>2, <1>4, <1>6, <2>2 DEF ResolvesRequest, c, m
<1>7. CASE MakesRequest(r, e, s)
  <2>1. s.starts = r.starts /\ s.pending = r.pending /\ s.closed = r.closed
    BY <1>0, <1>7 DEF MakesRequest, WithRecord, Store
  <2> QED BY <1>1, <1>2, <1>4, <1>7, <2>1 DEF MakesRequest
<1>8. CASE ClosesTurn(r, e, s)
  <2>1. PICK p \in Ends : p.key = k /\ s = CloseWith(r, p)
    BY <1>8 DEF ClosesTurn
  <2>2. k \in Turns
    BY <2>1, EventTypes DEF Ends
  <2> DEFINE d == Closed(r, k)
  <2>a. Sound(d)
    BY <2>2, ClosesSound
  <2>b. d \in Store
    BY <2>a DEF Sound
  <2>3. /\ d \in Store /\ d.starts = [r.starts EXCEPT ![k] = None]
        /\ d.pending = [r.pending EXCEPT ![k] = <<>>] /\ d.closed = r.closed \cup {k}
    <3>1. d.starts = [r.starts EXCEPT ![k] = None]
      BY <2>2, ClosesSound
    <3>2. d.pending = [r.pending EXCEPT ![k] = <<>>]
      BY <2>2, ClosesSound
    <3>3. d.closed = r.closed \cup {k}
      BY <1>0 DEF Closed, Store
    <3> QED BY <2>b, <3>1, <3>2, <3>3
  <2> HIDE DEF d
  <2>4. s.starts = d.starts /\ s.pending = d.pending /\ s.closed = d.closed
    BY <2>1, <2>3 DEF CloseWith, WithRecord, Store, d
  <2>5. \A j \in Turns : j # k => s.starts[j] = r.starts[j] /\ s.pending[j] = r.pending[j]
    BY <1>0, <2>3, <2>4, Fields
  <2> QED BY <1>0, <1>5, <2>3, <2>4, <2>5
<1>9. CASE LeavesClosed(r, e, s)
  BY <1>5, <1>9 DEF LeavesClosed
<1>10. CASE StartsTurn(r, e, s)
  <2>1. k \in Turns /\ k \notin r.closed /\ e.type = "start" /\ s = Start(r, k, Began(r, e))
    BY <1>10, EventTypes DEF StartsTurn
  <2>2. /\ s.starts = [r.starts EXCEPT ![k] = Began(r, e)] /\ s.pending = r.pending
        /\ s.closed = r.closed
    BY <1>0, <2>1 DEF Start, Store
  <2>3. s.starts[k] = Began(r, e) /\ \A j \in Turns : j # k => s.starts[j] = r.starts[j]
    BY <1>0, <2>1, <2>2, Fields
  <2>4. c[k] = Began(r, e)
    BY <1>1, <2>1 DEF Began, Agree, BeginsAgree
  <2>5. BeginsAgree(s, c)
    BY <1>1, <2>1, <2>2, <2>3, <2>4 DEF Agree, BeginsAgree
  <2>6. m = n
    BY <1>2, <2>1
  <2>7. EndsAgree(s, m)
    BY <1>0, <2>2, <2>6 DEF Agree, EndsAgree, Waits
  <2> QED BY <2>5, <2>7 DEF Agree
<1>11. CASE EndsAhead(r, e, s)
  <2>1. /\ e \in Ends /\ k \in Turns /\ k \notin r.closed /\ r.starts[k] = None /\ s = Wait(r, e)
        /\ b[k] = None /\ c = b
    BY <1>1, <1>11, EventTypes DEF EndsAhead, Ends, Agree, BeginsAgree
  <2>2. /\ s.starts = r.starts /\ s.closed = r.closed
        /\ s.pending = [r.pending EXCEPT ![k] = Corrected(r.pending[k], e)]
    BY <2>1, WaitSound
  <2>3. /\ r.pending \in [Turns -> Seq(Ends)] /\ r.pending[k] \in Seq(Ends)
        /\ s.pending[k] = Corrected(r.pending[k], e)
        /\ \A j \in Turns : j # k => s.pending[j] = r.pending[j]
    BY <1>0, <2>1, <2>2, Fields
  <2>4. /\ s.pending[k] \in Seq(Ends) /\ Waits(s, k, e.id, e.at)
        /\ \A i \in DOMAIN r.pending[k] : Waits(s, k, r.pending[k][i].id, r.pending[k][i].at)
    <3> DEFINE ends == r.pending[k]
               d == Corrected(ends, e)
    <3>1. /\ d \in Seq(Ends) /\ \E j \in DOMAIN d : d[j].id = e.id /\ d[j].at >= e.at
          /\ \A i \in DOMAIN ends : \E j \in DOMAIN d : d[j].id = ends[i].id /\ d[j].at >= ends[i].at
      BY <2>1, <2>3, CorrectedIs
    <3>2. s.pending[k] = d
      BY <2>3
    <3> HIDE DEF d
    <3> QED BY <3>1, <3>2 DEF Waits
  <2>5. ASSUME NEW i \in Ids, n[i] # None, Waits(r, k, i, n[i]) PROVE Waits(s, k, i, n[i])
    <3>1. PICK j \in DOMAIN r.pending[k] : r.pending[k][j].id = i /\ r.pending[k][j].at >= n[i]
      BY <2>5 DEF Waits
    <3>2. PICK l \in DOMAIN s.pending[k] :
            s.pending[k][l].id = i /\ s.pending[k][l].at >= r.pending[k][j].at
      BY <2>4, <3>1 DEF Waits
    <3>3. r.pending[k][j] \in Ends /\ s.pending[k][l] \in Ends
      BY <2>3, <2>4, <3>1, <3>2
    <3>4. /\ r.pending[k][j].at \in Nat /\ s.pending[k][l].at \in Nat /\ n[i] \in Nat
      BY <2>5, <3>3, EventTypes DEF Ends, Times, Maybe
    <3> QED BY <3>1, <3>2, <3>4 DEF Waits
  <2>6. ASSUME NEW i \in Ids, m[i] # None, NEW j \in Turns, s.identities[i].key = j, j \notin s.closed
        PROVE  Waits(s, j, i, m[i])
    <3>1. CASE m[i] = n[i]
      <4>1. Waits(r, j, i, n[i]) /\ n[i] # None
        BY <1>0, <2>2, <2>6, <3>1 DEF Agree, EndsAgree
      <4>2. CASE j = k
        BY <2>5, <3>1, <4>1, <4>2
      <4>3. CASE j # k
        BY <2>3, <3>1, <4>1, <4>3 DEF Waits
      <4> QED BY <4>2, <4>3
    <3>2. CASE m[i] # n[i]
      <4>1. i = e.id /\ m[i] = e.at /\ j = k
        BY <1>0, <1>2, <2>6, <3>2
      <4> QED BY <2>4, <4>1
    <3> QED BY <3>1, <3>2
  <2>7. BeginsAgree(s, c)
    BY <2>1, <2>2 DEF Agree, BeginsAgree
  <2> QED BY <1>3, <2>6, <2>7 DEF Agree, EndsAgree
<1>12. CASE EndsBefore(r, e, s)
  <2>1. /\ e.type = "end" /\ k \in Turns /\ k \notin r.closed /\ s = r /\ r.starts[k] # None
        /\ e.at < r.starts[k] /\ b[k] = r.starts[k]
    BY <1>12, EventTypes DEF EndsBefore, Agree, BeginsAgree
  <2>2. e.at \in Nat /\ b[k] \in Nat
    BY <1>0, <2>1 DEF Maybe, Times
  <2>3. m = n
    BY <1>0, <2>1, <2>2 DEF m, EndedWith
  <2>4. c = b
    BY <1>1, <2>1
  <2> QED BY <1>4, <2>1, <2>3, <2>4
<1> QED BY <1>6, <1>7, <1>8, <1>9, <1>10, <1>11, <1>12 DEF Outcome, c, m

-----------------------------------------------------------------------------
(* A resolution is known for as long as it was said to be, and its request is    *)
(* taken as resolved.                                                         *)
Stays(st, q) == st.identities[<<"resolved", q>>] # None
Answered(st, a, time) ==
  \A q \in Requests :
    /\ a[q] # None => a[q] <= time
    /\ Stays(st, q) => a[q] # None /\ st.identities[<<"resolved", q>>].expiresAt >= a[q] + Age
    /\ a[q] # None /\ time < a[q] + Age => Stays(st, q) /\ q \in st.resolved

(* A resolution that was heard is known until it is old, pruned or not.       *)
LEMMA AnsweredLasts ==
  ASSUME NEW s, NEW p, NEW a \in [Requests -> Maybe(Times)], NEW t \in Nat, NEW u \in Nat, t <= u,
         Sound(s), Leaves(s, p, u), Answered(s, a, t)
  PROVE  Answered(p, a, u)
<1> SUFFICES ASSUME NEW q \in Requests
             PROVE  /\ a[q] # None => a[q] <= u
                    /\ Stays(p, q) =>
                         a[q] # None /\ p.identities[<<"resolved", q>>].expiresAt >= a[q] + Age
                    /\ a[q] # None /\ u < a[q] + Age => Stays(p, q) /\ q \in p.resolved
  BY DEF Answered
<1> DEFINE i == <<"resolved", q>>
<1>1. /\ a[q] # None => a[q] <= t
      /\ Stays(s, q) => a[q] # None /\ s.identities[i].expiresAt >= a[q] + Age
      /\ a[q] # None /\ t < a[q] + Age => Stays(s, q) /\ q \in s.resolved
  BY DEF Answered
<1>2. i \in Ids /\ (a[q] # None => a[q] \in Nat) /\ Age \in Nat
        /\ (s.identities[i] # None => s.identities[i].expiresAt \in Nat)
  <2>1. i \in Ids
    BY OwnIds
  <2>2. s.identities[i] # None => s.identities[i] \in Heard
    BY <2>1, Fields DEF Sound
  <2> QED BY <2>1, <2>2, StoreAssumption DEF Maybe, Times, Heard
<1> HIDE DEF i
<1>3. CASE p = s
  <2>1. (Stays(p, q) <=> Stays(s, q)) /\ p.identities[i] = s.identities[i] /\ p.resolved = s.resolved
    BY <1>3
  <2>2. a[q] # None => a[q] <= u
    BY <1>1, <1>2
  <2>3. Stays(p, q) => a[q] # None /\ p.identities[i].expiresAt >= a[q] + Age
    BY <1>1, <2>1
  <2>4. a[q] # None /\ u < a[q] + Age => t < a[q] + Age
    BY <1>2
  <2>5. a[q] # None /\ u < a[q] + Age => Stays(p, q) /\ q \in p.resolved
    BY <1>1, <2>1, <2>4
  <2> QED BY <2>2, <2>3, <2>5 DEF i
<1>4. CASE PrunedTo(s, p, u)
  <2>1. /\ p.identities[i] # None => p.identities[i] = s.identities[i]
        /\ s.identities[i] # None /\ s.identities[i].expiresAt > u =>
             p.identities[i] = s.identities[i]
    BY <1>2, <1>4 DEF PrunedTo
  <2>2. Stays(s, q) <=> s.identities[i] # None
    BY DEF Stays, i
  <2>3. Stays(p, q) <=> p.identities[i] # None
    BY DEF Stays, i
  <2>4. q \in s.resolved /\ p.identities[i] # None => q \in p.resolved
    BY <1>4 DEF PrunedTo, i
  <2>5. a[q] # None => a[q] <= u
    BY <1>1, <1>2
  <2>6. Stays(p, q) => a[q] # None /\ p.identities[i].expiresAt >= a[q] + Age
    BY <1>1, <1>2, <2>1, <2>2, <2>3
  <2>7. ASSUME a[q] # None, u < a[q] + Age PROVE Stays(p, q) /\ q \in p.resolved
    <3>1. t < a[q] + Age
      BY <1>2, <2>7
    <3>2. Stays(s, q) /\ q \in s.resolved
      BY <1>1, <2>7, <3>1
    <3>3. s.identities[i] # None /\ s.identities[i].expiresAt >= a[q] + Age
      BY <1>1, <2>2, <3>2
    <3>4. s.identities[i].expiresAt > u
      BY <1>2, <2>7, <3>3
    <3> QED BY <2>1, <2>2, <2>3, <2>4, <3>2, <3>3, <3>4
  <2> QED BY <2>5, <2>6, <2>7 DEF i
<1> QED BY <1>3, <1>4 DEF Leaves

(* What is taken as resolved stays so, and a resolution's request becomes so.    *)
LEMMA OutcomeResolves ==
  ASSUME NEW r, Sound(r), NEW e \in Events, NEW s, Outcome(r, e, s)
  PROVE  /\ r.resolved \subseteq s.resolved
         /\ e.type = "resolved" => e.key \in s.resolved
<1>0. r \in Store
  BY DEF Sound
<1>1. CASE ResolvesRequest(r, e, s)
  <2>1. PICK rs : Settles(r, rs, {e.key}) /\ s = Settle(r, rs, {e.key})
    BY <1>1 DEF ResolvesRequest
  <2>2. s.resolved = r.resolved \cup {e.key}
    BY <2>1, SettleSound
  <2> QED BY <2>2
<1>2. CASE MakesRequest(r, e, s)
  <2>1. s.resolved = r.resolved /\ e.type # "resolved"
    BY <1>0, <1>2 DEF MakesRequest, WithRecord, Store
  <2> QED BY <2>1
<1>3. CASE ClosesTurn(r, e, s)
  <2>1. s.resolved = r.resolved /\ e.type # "resolved"
    BY <1>0, <1>3 DEF ClosesTurn, CloseWith, WithRecord, Closed, Store
  <2> QED BY <2>1
<1>4. CASE StartsTurn(r, e, s) \/ EndsAhead(r, e, s)
  <2>1. s.resolved = r.resolved /\ e.type # "resolved"
    BY <1>0, <1>4 DEF StartsTurn, EndsAhead, Start, Wait, Store
  <2> QED BY <2>1
<1>5. CASE LeavesClosed(r, e, s) \/ EndsBefore(r, e, s)
  BY <1>5 DEF LeavesClosed, EndsBefore
<1> QED BY <1>1, <1>2, <1>3, <1>4, <1>5 DEF Outcome

AnsweredWith(a, e, time) ==
  IF e.type = "resolved" /\ a[e.key] = None THEN [a EXCEPT ![e.key] = time] ELSE a

(* A resolution that is heard is known from then on.                          *)
LEMMA AnsweredIngests ==
  ASSUME NEW st, NEW r, NEW s, NEW e \in Events, NEW time \in Times, Sound(r), Knows(r, e),
         \A x \in r.records : x.id # e.id, Remembers(st, r, e, time), Outcome(r, e, s),
         NEW a \in [Requests -> Maybe(Times)], Answered(st, a, time)
  PROVE  Answered(s, AnsweredWith(a, e, time), time)
<1> DEFINE b == AnsweredWith(a, e, time)
<1>0. time \in Nat /\ Age \in Nat \ {0} /\ r \in Store /\ s.identities = r.identities
  BY OutcomeSound, StoreAssumption DEF Times, Sound
<1> SUFFICES ASSUME NEW q \in Requests
             PROVE  /\ b[q] # None => b[q] <= time
                    /\ Stays(s, q) =>
                         b[q] # None /\ s.identities[<<"resolved", q>>].expiresAt >= b[q] + Age
                    /\ b[q] # None /\ time < b[q] + Age => Stays(s, q) /\ q \in s.resolved
  BY DEF Answered
<1> DEFINE i == <<"resolved", q>>
<1>1. /\ a[q] # None => a[q] <= time /\ a[q] \in Nat
      /\ Stays(st, q) => a[q] # None /\ st.identities[i].expiresAt >= a[q] + Age
      /\ a[q] # None /\ time < a[q] + Age => Stays(st, q) /\ q \in st.resolved
  BY DEF Answered, Maybe, Times
<1>2. i \in Ids /\ time # None
  BY <1>0, OwnIds, StoreAssumption
<1>3. CASE e.type = "resolved" /\ e.key = q
  <2>1. e.id = i
    BY <1>3, EventTypes
  <2>2. q \in s.resolved
    BY <1>3, OutcomeResolves
  <2>3. Stays(s, q) /\ q \in s.resolved
    BY <1>0, <2>1, <2>2 DEF Stays, Knows
  <2>4. b[q] = IF a[q] = None THEN time ELSE a[q]
    BY <1>3 DEF AnsweredWith
  <2>5. CASE st.identities[i] # None
    <3>1. s.identities[i] = st.identities[i] /\ Stays(st, q)
      BY <1>0, <2>1, <2>5 DEF Remembers, Stays
    <3>2. b[q] = a[q]
      BY <1>1, <2>4, <3>1
    <3> HIDE DEF b, i
    <3> QED BY <1>1, <2>3, <3>1, <3>2 DEF i
  <2>6. CASE st.identities[i] = None
    <3>1. s.identities[i] = Identity(e, time)
      BY <1>0, <2>1, <2>6 DEF Remembers
    <3>2. s.identities[i].expiresAt = time + Age
      BY <3>1 DEF Identity
    <3>3. b[q] \in Nat /\ b[q] <= time /\ b[q] # None
      BY <1>0, <1>1, <1>2, <2>4
    <3> HIDE DEF b
    <3> QED BY <1>0, <2>3, <3>2, <3>3
  <2> QED BY <2>5, <2>6
<1>4. CASE ~(e.type = "resolved" /\ e.key = q)
  <2>1. e.id # i
    <3>1. \A x, y : <<"start", x>> # <<"resolved", y>> /\ <<"entry", x>> # <<"resolved", y>>
      OBVIOUS
    <3>2. e.type = "resolved" => e.id = <<"resolved", e.key>>
      BY EventTypes
    <3>3. e.type = "resolved" => e.id # <<"resolved", q>>
      BY <1>4, <3>2
    <3> QED BY <3>1, <3>3, EventTypes
  <2>2. s.identities[i] = st.identities[i]
    BY <1>0, <1>2, <2>1 DEF Remembers
  <2>3. b[q] = a[q]
    BY <1>4, EventTypes DEF AnsweredWith
  <2>4. q \in st.resolved => q \in s.resolved
    <3>1. r.resolved = st.resolved
      BY DEF Remembers
    <3> QED BY <3>1, OutcomeResolves
  <2> HIDE DEF b, i
  <2> QED BY <1>1, <2>2, <2>3, <2>4 DEF Stays, i
<1> QED BY <1>3, <1>4

(* A record marked unavailable is settled, with its request when it is one.     *)
LEMMA Unavailable ==
  ASSUME Sound(store), NEW r \in store.records, MarkUnavailable(r)
  PROVE  \E rs, Q : /\ Settles(store, rs, Q) /\ Q \subseteq {r.key}
                    /\ store' = Pruned(Settle(store, rs, Q), now)
<1> DEFINE M(x) == IF x = r THEN [x EXCEPT !.resolved = TRUE] ELSE x
           rs == {M(x) : x \in store.records}
           Q == IF r.type = "ask" THEN {r.key} ELSE {}
<1>1. /\ store \in Store /\ store.records \subseteq Entry /\ store.resolved \subseteq Requests
      /\ RecordsStand(store) /\ \A i \in Ids : HeardAs(store, i)
  BY Fields DEF Sound
<1>2. store' = Pruned(Settle(store, rs, Q), now)
  <2>1. CASE r.type = "ask"
    BY <2>1 DEF MarkUnavailable, Settle
  <2>2. CASE r.type # "ask"
    <3>1. store.resolved \cup Q = store.resolved
      BY <2>2
    <3> QED BY <2>2, <3>1 DEF MarkUnavailable, Settle
  <2> QED BY <2>1, <2>2
<1>3. ASSUME NEW x \in store.records, x.type = "ask"
      PROVE  x.id = <<"entry", x.key>> /\ x.key \in Requests
  <2>1. x.id \in Ids /\ Knows(store, x)
    BY <1>1 DEF Entry, RecordsStand
  <2> QED BY <1>1, <1>3, <2>1 DEF HeardAs, Knows
<1>4. ASSUME NEW x \in store.records
      PROVE  /\ M(x) \in Entry /\ M(x).id = x.id /\ M(x).type = x.type /\ M(x).key = x.key
             /\ NeedsAttention(M(x)) => M(x) = x /\ M(x).key \notin Q
             /\ NeedsAttention(x) /\ x.key \notin Q => M(x) = x
  <2>1. x \in Entry
    BY <1>1
  <2>2. CASE x = r
    <3>1. M(x) = [x EXCEPT !.resolved = TRUE]
      BY <2>2
    <3> QED BY <2>1, <3>1 DEF Entry, NeedsAttention
  <2>3. CASE x # r
    <3>1. M(x) = x
      BY <2>3
    <3> HIDE DEF M
    <3>2. NeedsAttention(x) => x.key \notin Q
      BY <1>1, <1>3, <2>3 DEF NeedsAttention, RecordsStand
    <3> QED BY <2>1, <3>1, <3>2
  <2> QED BY <2>2, <2>3
<1>5. Q \subseteq Requests /\ Q \subseteq {r.key}
  BY <1>3
<1> HIDE DEF M, Q
<1>6. Settles(store, rs, Q)
  <2>1. \A x \in Unanswered(store) : x.key \notin Q => x \in rs
    BY <1>4 DEF Unanswered
  <2> QED BY <1>1, <1>4, <1>5, <2>1 DEF Settles, RecordsStand
<1> QED BY <1>2, <1>5, <1>6

-----------------------------------------------------------------------------
(* The inductive invariant: the store stands, rests on nothing that expired,    *)
(* and agrees with what was heard.                                           *)
Inv ==
  /\ TypeOK /\ Sound(store) /\ Alive(store, now)
  /\ Agree(store, begun, ended) /\ Answered(store, answered, now)

(* It holds at first.                                                         *)
LEMMA InvInit == Init => Inv
<1> SUFFICES ASSUME Init PROVE Inv
  OBVIOUS
<1>1. /\ now = 0 /\ store = Empty /\ begun = [k \in Turns |-> None]
      /\ ended = [i \in Ids |-> None] /\ answered = [q \in Requests |-> None]
  BY DEF Init
<1>2. now \in Times
  BY <1>1, StoreAssumption DEF Times
<1>3. /\ Empty.records = {} /\ Empty.starts = [k \in Turns |-> None]
      /\ Empty.pending = [k \in Turns |-> <<>>] /\ Empty.closed = {} /\ Empty.resolved = {}
      /\ Empty.identities = [i \in Ids |-> None]
  BY DEF Empty
<1>4. Empty \in Store
  BY DEF Empty, Store, Maybe
<1>5. TypeOK
  BY <1>1, <1>2, <1>3, <1>4 DEF TypeOK, Maybe
<1>6. Sound(store) /\ Alive(store, now)
  BY <1>1, <1>3, <1>4 DEF Sound, HeardAs, RecordsStand, TurnsStand, Alive
<1>7. Agree(store, begun, ended)
  BY <1>1, <1>3 DEF Agree, BeginsAgree, EndsAgree
<1>8. Answered(store, answered, now)
  BY <1>1, <1>3, OwnIds DEF Answered, Stays
<1> QED BY <1>5, <1>6, <1>7, <1>8 DEF Inv

(* What was pruned of a store that stands, after a step from one that does.      *)
LEMMA InvFrom ==
  ASSUME NEW s, Sound(s), Leaves(s, store', now'), now' \in Times,
         NEW b \in [Turns -> Maybe(Times)], NEW n \in [Ids -> Maybe(Times)], Agree(s, b, n),
         store.closed \subseteq s.closed,
         \A k \in s.closed : k \notin store.closed => k \in store'.closed, History(b, n),
         NEW t \in Times, t <= now', answered' \in [Requests -> Maybe(Times)],
         Answered(s, answered', t)
  PROVE  Inv'
<1>1. Sound(store') /\ Alive(store', now')
  BY PrunedSound DEF Leaves, PrunedTo
<1>2. /\ begun' = [k \in Turns |-> IF Lasting(store, store', <<"start", k>>) THEN b[k] ELSE None]
      /\ ended' = [i \in Ids |-> IF Lasting(store, store', i) THEN n[i] ELSE None]
  BY DEF History, Lasts, Lasting
<1>3. begun' \in [Turns -> Maybe(Times)] /\ ended' \in [Ids -> Maybe(Times)]
  BY <1>2 DEF Maybe
<1>4. Agree(store', begun', ended')
  BY <1>2, AgreeLasts
<1>5. Answered(store', answered', now')
  BY AnsweredLasts DEF Times
<1>6. TypeOK'
  BY <1>1, <1>3 DEF TypeOK, Sound, TurnsStand
<1> QED BY <1>1, <1>4, <1>5, <1>6 DEF Inv

(* Every step keeps it.                                                       *)
LEMMA InvInductive == Inv /\ [Next]_vars => Inv'
<1> SUFFICES ASSUME Inv, [Next]_vars PROVE Inv'
  OBVIOUS
<1>1. /\ TypeOK /\ Sound(store) /\ Alive(store, now) /\ Agree(store, begun, ended)
      /\ Answered(store, answered, now)
  BY DEF Inv
<1>2. /\ now \in Times /\ begun \in [Turns -> Maybe(Times)] /\ ended \in [Ids -> Maybe(Times)]
      /\ answered \in [Requests -> Maybe(Times)]
  BY <1>1 DEF TypeOK
<1>n. now \in Nat /\ now <= now
  BY <1>2 DEF Times
<1>3. CASE Tick
  <2>1. /\ now' \in Times /\ now' \in Nat /\ now <= now' /\ store' = Pruned(store, now')
        /\ History(begun, ended) /\ answered' = answered
    BY <1>2, <1>3, StoreAssumption DEF Tick, Times
  <2>2. Leaves(store, store', now')
    BY <1>1, <2>1, Prunes, Caps DEF Leaves
  <2> QED BY <1>1, <1>2, <2>1, <2>2, InvFrom
<1>4. ASSUME NEW e \in Events, Ingest(e) PROVE Inv'
  <2>1. PICK r, s : /\ Sound(r) /\ Alive(r, now) /\ Remembers(store, r, e, now)
                    /\ \A x \in r.records : x.id # e.id
                    /\ Outcome(r, e, s) /\ Leaves(s, store', now)
                    /\ MakesRequest(r, e, s) => Capped(s, store')
    BY <1>1, <1>2, <1>4, Ingests
  <2>2. Knows(r, e) /\ r.closed = store.closed
    BY <2>1 DEF Remembers
  <2>3. Sound(s) /\ r.closed \subseteq s.closed
    BY <2>1, <2>2, OutcomeSound
  <2>4. \A k \in s.closed : k \notin r.closed => k \in store'.closed
    BY <2>1, <2>2, CloseLasts
  <2> DEFINE b == BegunWith(begun, e)
             n == EndedWith(begun, ended, e)
             a == AnsweredWith(answered, e, now)
  <2>5. Agree(s, b, n)
    <3>1. Agree(r, begun, ended)
      BY <1>1, <2>1, AgreeRemembers
    <3> QED BY <1>2, <2>1, <2>2, <3>1, AgreeIngests
  <2>6. /\ b \in [Turns -> Maybe(Times)] /\ n \in [Ids -> Maybe(Times)]
        /\ a \in [Requests -> Maybe(Times)]
    BY <1>2, EventTypes DEF BegunWith, EndedWith, AnsweredWith, Maybe
  <2>7. Answered(s, a, now)
    BY <1>1, <1>2, <2>1, <2>2, AnsweredIngests
  <2>8. History(b, n) /\ answered' = a /\ now' = now
    BY <1>4 DEF Ingest, BegunWith, EndedWith, AnsweredWith
  <2> HIDE DEF a, b, n
  <2> QED BY <1>2, <1>n, <2>1, <2>2, <2>3, <2>4, <2>5, <2>6, <2>7, <2>8, InvFrom
<1>5. ASSUME NEW r \in store.records, MarkUnavailable(r) PROVE Inv'
  <2>1. PICK rs, Q : Settles(store, rs, Q) /\ store' = Pruned(Settle(store, rs, Q), now)
    BY <1>1, <1>5, Unavailable
  <2> DEFINE s == Settle(store, rs, Q)
  <2>2. /\ Sound(s) /\ s.starts = store.starts /\ s.pending = store.pending
        /\ s.closed = store.closed /\ s.resolved = store.resolved \cup Q
        /\ s.identities = store.identities
    BY <1>1, <2>1, SettleSound
  <2> HIDE DEF s
  <2>3. History(begun, ended) /\ answered' = answered /\ now' = now
    BY <1>5 DEF MarkUnavailable
  <2>4. Leaves(s, store', now)
    BY <1>n, <2>1, <2>2, Prunes, Caps DEF Leaves, s
  <2>5. Agree(s, begun, ended)
    BY <1>1, <2>2 DEF Agree, BeginsAgree, EndsAgree, Waits
  <2>6. Answered(s, answered, now)
    BY <1>1, <2>2 DEF Answered, Stays
  <2> QED BY <1>2, <1>n, <2>2, <2>3, <2>4, <2>5, <2>6, InvFrom
<1>6. CASE UNCHANGED vars
  BY <1>1, <1>6 DEF vars, Inv, TypeOK
<1> QED BY <1>3, <1>4, <1>5, <1>6 DEF Next

(* The invariant holds of every behaviour.                                    *)
LEMMA InvHolds == Spec => []Inv
  BY InvInit, InvInductive, PTL DEF Spec

(* Every variable keeps its type, and a turn is under way, ended ahead of its    *)
(* start, or closed.                                                          *)
THEOREM TypeCorrect == Spec => []TypeOK
<1>1. Inv => TypeOK
  BY DEF Inv
<1> QED BY <1>1, InvHolds, PTL

(* A turn whose start and fitting end both arrived is closed, in whatever order  *)
(* and under whatever ids and corrections they came.                           *)
THEOREM BothCloseTheTurn == Spec => []EndIsTold
<1>1. ASSUME Inv PROVE EndIsTold
  <2> SUFFICES ASSUME NEW k \in Turns, NEW i \in Ids, begun[k] # None, ended[i]
             # None,
                      store.identities[i].key = k, ended[i] >= begun[k], k \notin store.closed
               PROVE  FALSE
    BY DEF EndIsTold
  <2>1. begun[k] = store.starts[k] /\ store.starts[k] # None /\ Waits(store, k, i, ended[i])
    BY <1>1 DEF Inv, Agree, BeginsAgree, EndsAgree
  <2>2. PICK j \in DOMAIN store.pending[k] : store.pending[k][j].at >= ended[i]
    BY <2>1 DEF Waits
  <2>3. store.pending[k][j].at < begun[k]
    BY <1>1, <2>1 DEF Inv, Sound, TurnsStand
  <2>4. begun[k] \in Nat /\ ended[i] \in Nat /\ store.pending[k][j].at \in Nat
    <3>1. begun[k] \in Times /\ ended[i] \in Times
      BY <1>1 DEF Inv, TypeOK, Maybe
    <3>2. store.pending[k] \in Seq(Ends)
      BY <1>1, Fields DEF Inv, Sound
    <3>3. store.pending[k][j] \in Ends
      BY <3>2
    <3> QED BY <3>1, <3>3, EventTypes DEF Ends, Times
  <2> QED BY <2>2, <2>3, <2>4
<1> QED BY <1>1, InvHolds, PTL

(* A request that was resolved does not wait, even one that comes after it.      *)
THEOREM ResolvedStaysQuiet == Spec => []AnsweredIsQuiet
<1>1. ASSUME Inv PROVE AnsweredIsQuiet
  <2> SUFFICES ASSUME NEW r \in store.records, NeedsAttention(r),
             answered[r.key] # None,
                      ~(now >= answered[r.key] + Age)
               PROVE  FALSE
    BY DEF AnsweredIsQuiet
  <2>1. r.key \in Requests
    <3>1. Knows(store, r) /\ r.id \in Ids /\ HeardAs(store, r.id)
      BY <1>1, Fields DEF Inv, Sound, RecordsStand, Entry
    <3> QED BY <3>1 DEF NeedsAttention, Knows, HeardAs
  <2>2. now < answered[r.key] + Age
    <3>1. now \in Times /\ answered[r.key] \in Times
      BY <1>1, <2>1 DEF Inv, TypeOK, Maybe
    <3> QED BY <3>1, StoreAssumption DEF Times
  <2>3. r.key \in store.resolved
    BY <1>1, <2>1, <2>2 DEF Inv, Answered
  <2> QED BY <1>1, <2>3 DEF Inv, Sound, RecordsStand
<1> QED BY <1>1, InvHolds, PTL

-----------------------------------------------------------------------------
(* What lasts of what was told, and of the requests that wait.                 *)

(* Few enough go before each request that waits.                               *)
Fits(st) ==
  /\ IsFiniteSet(Unanswered(st))
  /\ \A r \in Unanswered(st) : Cardinality(Before(st, r)) < Limit

(* With fewer that wait, fewer go before each.                                 *)
LEMMA FewerFit ==
  ASSUME NEW st, NEW s, Fits(st), Unanswered(s) \subseteq Unanswered(st)
  PROVE  Fits(s)
<1>1. IsFiniteSet(Unanswered(st)) /\ IsFiniteSet(Unanswered(s))
  BY FS_Subset DEF Fits
<1>2. ASSUME NEW r \in Unanswered(s) PROVE Cardinality(Before(s, r)) < Limit
  <2>1. Before(s, r) \subseteq Before(st, r) /\ Before(st, r) \subseteq Unanswered(st)
    BY DEF Before
  <2>2. IsFiniteSet(Before(st, r))
    BY <1>1, <2>1, FS_Subset
  <2>3. IsFiniteSet(Before(s, r))
    BY <2>1, <2>2, FS_Subset
  <2>4. /\ Cardinality(Before(s, r)) <= Cardinality(Before(st, r))
        /\ Cardinality(Before(s, r)) \in Nat /\ Cardinality(Before(st, r)) \in Nat
    BY <2>1, <2>2, <2>3, FS_Subset, FS_CardinalityType
  <2>5. Cardinality(Before(st, r)) < Limit /\ Limit \in Nat
    BY <1>2, StoreAssumption DEF Fits
  <2> QED BY <2>4, <2>5
<1> QED BY <1>1, <1>2 DEF Fits

(* What is capped fits, and nothing that fits already is lost.                  *)
LEMMA CapFits ==
  ASSUME NEW s, NEW p, IsFiniteSet(Unanswered(s)), Capped(s, p)
  PROVE  Fits(p) /\ Unanswered(p) \subseteq Unanswered(s)
         /\ (Fits(s) => Unanswered(p) = Unanswered(s))
<1>1. Unanswered(p) \subseteq Unanswered(s) /\ IsFiniteSet(Unanswered(p))
  BY FS_Subset DEF Capped
<1>2. ASSUME NEW r \in Unanswered(p) PROVE Cardinality(Before(p, r)) < Limit
  <2>1. Before(p, r) \subseteq Before(s, r) /\ Before(s, r) \subseteq Unanswered(s)
    BY <1>1 DEF Before
  <2>2. IsFiniteSet(Before(s, r))
    BY <2>1, FS_Subset
  <2>3. IsFiniteSet(Before(p, r))
    BY <2>1, <2>2, FS_Subset
  <2>4. /\ Cardinality(Before(p, r)) <= Cardinality(Before(s, r))
        /\ Cardinality(Before(p, r)) \in Nat /\ Cardinality(Before(s, r)) \in Nat
    BY <2>1, <2>2, <2>3, FS_Subset, FS_CardinalityType
  <2>5. Cardinality(Before(s, r)) < Limit /\ Limit \in Nat
    BY <1>2, StoreAssumption DEF Capped
  <2> QED BY <2>4, <2>5
<1> QED BY <1>1, <1>2 DEF Fits, Capped

(* A record of a request, or of an end, is of that.                            *)
LEMMA RecordIds ==
  ASSUME NEW st, Sound(st), NEW r \in st.records
  PROVE  /\ r \in Entry /\ r.id \in Ids /\ r.type \in {"end", "ask"} /\ Knows(st, r)
         /\ r.type = "ask" => r.id = <<"entry", r.key>> /\ r.key \in Requests
         /\ r.type = "end" => r.key \in Turns
<1>1. r \in Entry
  BY Fields DEF Sound
<1>2. r.id \in Ids /\ r.type \in {"end", "ask"}
  BY <1>1 DEF Entry
<1>3. HeardAs(st, r.id) /\ Knows(st, r)
  BY <1>2 DEF Sound, RecordsStand
<1> QED BY <1>1, <1>2, <1>3 DEF Knows, HeardAs

(* Requests that wait go one before the other: the newer one, or by their ids.   *)
LEMMA OneBefore ==
  ASSUME NEW st, Sound(st), NEW x \in Unanswered(st), NEW y \in Unanswered(st),
         NEW z \in Unanswered(st)
  PROVE  /\ ~AheadByTime(x, x)
         /\ AheadByTime(x, y) /\ AheadByTime(y, z) => AheadByTime(x, z)
         /\ x = y \/ AheadByTime(x, y) \/ AheadByTime(y, x)
<1>1. ASSUME NEW r \in Unanswered(st)
      PROVE  r.at \in Nat /\ r.id = <<"entry", r.key>> /\ r.key \in Nat /\ r.id[2] = r.key
  <2>1. r \in st.records /\ r.type = "ask"
    BY DEF Unanswered, NeedsAttention
  <2>2. r \in Entry /\ r.id = <<"entry", r.key>> /\ r.key \in Requests
    BY <2>1, RecordIds
  <2>3. r.at \in Nat
    BY <2>2 DEF Entry, Times
  <2> QED BY <2>2, <2>3, StoreAssumption
<1>2. \A r, q \in Unanswered(st) : AheadByTime(r, q) <=> (r.at > q.at \/ (r.at = q.at /\ r.key < q.key))
  BY <1>1 DEF AheadByTime
<1>3. x.key = y.key => x = y
  BY <1>1 DEF Sound, RecordsStand, Unanswered
<1>4. /\ x.at \in Nat /\ x.key \in Nat /\ y.at \in Nat /\ y.key \in Nat
      /\ z.at \in Nat /\ z.key \in Nat
  BY <1>1
<1>5. ~AheadByTime(x, x)
  BY <1>2, <1>4
<1>6. AheadByTime(x, y) /\ AheadByTime(y, z) => AheadByTime(x, z)
  BY <1>2, <1>4
<1>7. x = y \/ AheadByTime(x, y) \/ AheadByTime(y, x)
  BY <1>2, <1>3, <1>4
<1> QED BY <1>5, <1>6, <1>7

(* A request that one more crowds out leaves as many that wait as are kept.      *)
LEMMA Crowds ==
  ASSUME NEW st, NEW s, NEW p, NEW n, Sound(s), Fits(st), Capped(s, p),
         Unanswered(st) \subseteq Unanswered(s),
         Unanswered(s) \subseteq Unanswered(st) \cup {n},
         NEW r \in Unanswered(st), r \notin Unanswered(p)
  PROVE  Cardinality(Unanswered(p)) = Limit
<1> DEFINE A == Before(s, r)
<1>1. IsFiniteSet(Unanswered(s))
  <2>1. IsFiniteSet(Unanswered(st) \cup {n})
    BY FS_AddElement DEF Fits
  <2> QED BY <2>1, FS_Subset
<1>2. /\ Limit \in Nat \ {0}
      /\ \A y : IsFiniteSet(Before(s, y)) /\ Cardinality(Before(s, y)) \in Nat
  <2>1. \A y : Before(s, y) \in SUBSET Unanswered(s)
    BY DEF Before
  <2>2. \A y : IsFiniteSet(Before(s, y))
    BY <1>1, <2>1, FS_Subset
  <2> QED BY <2>2, FS_CardinalityType, StoreAssumption
<1>3. Cardinality(A) = Limit
  <2>1. A \subseteq Before(st, r) \cup {n} /\ Before(st, r) \in SUBSET Unanswered(st)
    BY DEF Before
  <2>2. IsFiniteSet(Before(st, r)) /\ Cardinality(Before(st, r)) \in Nat
    BY <2>1, FS_Subset, FS_CardinalityType DEF Fits
  <2>3. /\ IsFiniteSet(Before(st, r) \cup {n})
        /\ Cardinality(Before(st, r) \cup {n}) <= Cardinality(Before(st, r)) + 1
        /\ Cardinality(Before(st, r) \cup {n}) \in Nat
    <3>1. /\ IsFiniteSet(Before(st, r) \cup {n})
          /\ Cardinality(Before(st, r) \cup {n}) =
               IF n \in Before(st, r) THEN Cardinality(Before(st, r))
               ELSE Cardinality(Before(st, r)) + 1
      BY <2>2, FS_AddElement
    <3> QED BY <2>2, <3>1
  <2>4. Cardinality(A) <= Cardinality(Before(st, r) \cup {n})
    BY <2>1, <2>3, FS_Subset
  <2>5. Cardinality(Before(st, r)) < Limit
    BY DEF Fits
  <2>6. ~(Cardinality(A) < Limit)
    BY DEF Capped
  <2> QED BY <1>2, <2>2, <2>3, <2>4, <2>5, <2>6
<1>4. ASSUME NEW y \in A PROVE y \in Unanswered(p)
  <2>1. y \in Unanswered(s) /\ r \in Unanswered(s) /\ AheadByTime(y, r)
    BY <1>4 DEF Before
  <2>2. \A z \in Before(s, y) : z \in Unanswered(s) /\ AheadByTime(z, y)
    BY DEF Before
  <2>3. Before(s, y) \in SUBSET (A \ {y})
    BY <2>1, <2>2, OneBefore DEF Before
  <2>4. IsFiniteSet(A \ {y}) /\ Cardinality(A \ {y}) = Limit - 1
    BY <1>2, <1>3, <1>4, FS_RemoveElement
  <2>5. Cardinality(Before(s, y)) <= Limit - 1
    BY <2>3, <2>4, FS_Subset
  <2>6. Cardinality(Before(s, y)) < Limit
    BY <1>2, <2>5
  <2> QED BY <2>1, <2>6 DEF Capped
<1>5. ASSUME NEW y \in Unanswered(p), y \notin A PROVE FALSE
  <2>1. y \in Unanswered(s) /\ r \in Unanswered(s) /\ Cardinality(Before(s, y)) < Limit
    BY <1>5 DEF Capped
  <2>2. y # r /\ ~AheadByTime(y, r)
    BY <1>5, <2>1 DEF Before
  <2>3. AheadByTime(r, y)
    BY <2>1, <2>2, OneBefore
  <2>4. \A z \in A : z \in Unanswered(s) /\ AheadByTime(z, r)
    BY DEF Before
  <2>5. A \in SUBSET Before(s, y)
    BY <2>1, <2>3, <2>4, OneBefore DEF Before
  <2>6. Limit <= Cardinality(Before(s, y))
    BY <1>2, <1>3, <2>5, FS_Subset
  <2> QED BY <1>2, <2>1, <2>6
<1>6. Unanswered(p) = A
  BY <1>4, <1>5
<1> HIDE DEF A
<1> QED BY <1>3, <1>6

(* What an event makes of the requests that wait.                              *)
LEMMA OutcomeWaits ==
  ASSUME NEW r, Sound(r), NEW e \in Events, NEW s, Outcome(r, e, s)
  PROVE  /\ ~MakesRequest(r, e, s) => Unanswered(s) \subseteq Unanswered(r)
         /\ MakesRequest(r, e, s) => Unanswered(s) \subseteq Unanswered(r) \cup {NewRecord(r, e)}
         /\ e.type # "resolved" => Unanswered(r) \subseteq Unanswered(s)
         /\ e.type = "resolved" =>
              \A x \in Unanswered(r) : x.key # e.key => x \in Unanswered(s)
<1>1. r \in Store
  BY DEF Sound
<1>2. CASE ResolvesRequest(r, e, s)
  <2>1. PICK rs : Settles(r, rs, {e.key}) /\ s = Settle(r, rs, {e.key})
    BY <1>2 DEF ResolvesRequest
  <2>2. s.records = rs
    BY <2>1, SettleSound
  <2>3. Unanswered(s) \subseteq Unanswered(r)
    BY <2>1, <2>2 DEF Settles, Unanswered
  <2>4. \A x \in Unanswered(r) : x.key # e.key => x \in Unanswered(s)
    BY <2>1, <2>2 DEF Settles, Unanswered
  <2>5. e.type = "resolved"
    BY <1>2 DEF ResolvesRequest
  <2> QED BY <2>3, <2>4, <2>5 DEF MakesRequest
<1>3. CASE MakesRequest(r, e, s)
  <2>1. e.type = "ask" /\ s.records = r.records \cup {NewRecord(r, e)}
    BY <1>1, <1>3 DEF MakesRequest, WithRecord, Store
  <2> QED BY <1>3, <2>1 DEF Unanswered
<1>4. CASE ClosesTurn(r, e, s)
  <2>1. PICK p \in Ends : s = CloseWith(r, p)
    BY <1>4 DEF ClosesTurn
  <2>2. s.records = r.records \cup {NewRecord(Closed(r, p.key), p)}
    BY <1>1, <2>1 DEF CloseWith, WithRecord, Closed, Store
  <2>3. ~NeedsAttention(NewRecord(Closed(r, p.key), p))
    BY DEF NeedsAttention, NewRecord, Ends
  <2>4. Unanswered(s) = Unanswered(r)
    BY <2>2, <2>3 DEF Unanswered
  <2>5. e.type # "resolved" /\ e.type # "ask"
    BY <1>4 DEF ClosesTurn
  <2> QED BY <2>4, <2>5 DEF MakesRequest
<1>5. CASE LeavesClosed(r, e, s) \/ StartsTurn(r, e, s) \/ EndsAhead(r, e, s) \/ EndsBefore(r, e, s)
  <2>1. s.records = r.records
    BY <1>1, <1>5 DEF LeavesClosed, StartsTurn, EndsAhead, EndsBefore, Start,
       Wait, Store
  <2>2. e.type # "resolved" /\ e.type # "ask"
    BY <1>5 DEF LeavesClosed, StartsTurn, EndsAhead, EndsBefore
  <2> QED BY <2>1, <2>2 DEF Unanswered, MakesRequest
<1> QED BY <1>2, <1>3, <1>4, <1>5 DEF Outcome

(* A record that is new is the event's own, or the end the event waited for.     *)
LEMMA OutcomeNews ==
  ASSUME NEW r, Sound(r), NEW e \in Events, NEW s, Outcome(r, e, s),
         NEW x \in s.records, \A y \in r.records : y.id # x.id
  PROVE  \/ MakesRequest(r, e, s) /\ x = NewRecord(r, e)
         \/ ClosesTurn(r, e, s) /\ x.key = e.key
<1>1. r \in Store
  BY DEF Sound
<1>2. CASE ResolvesRequest(r, e, s)
  <2>1. PICK rs : Settles(r, rs, {e.key}) /\ s = Settle(r, rs, {e.key})
    BY <1>2 DEF ResolvesRequest
  <2>2. s.records = rs
    BY <2>1, SettleSound
  <2> QED BY <2>1, <2>2 DEF Settles
<1>3. CASE MakesRequest(r, e, s)
  <2>1. s.records = r.records \cup {NewRecord(r, e)}
    BY <1>1, <1>3 DEF MakesRequest, WithRecord, Store
  <2> QED BY <1>3, <2>1
<1>4. CASE ClosesTurn(r, e, s)
  <2>1. PICK p \in Ends : p.key = e.key /\ s = CloseWith(r, p)
    BY <1>4 DEF ClosesTurn
  <2>2. s.records = r.records \cup {NewRecord(Closed(r, p.key), p)}
    BY <1>1, <2>1 DEF CloseWith, WithRecord, Closed, Store
  <2>3. x = NewRecord(Closed(r, p.key), p)
    BY <2>2
  <2>4. x.key = p.key
    BY <2>3 DEF NewRecord
  <2> QED BY <1>4, <2>1, <2>4
<1>5. CASE LeavesClosed(r, e, s) \/ StartsTurn(r, e, s) \/ EndsAhead(r, e, s) \/ EndsBefore(r, e, s)
  <2>1. s.records = r.records
    BY <1>1, <1>5 DEF LeavesClosed, StartsTurn, EndsAhead, EndsBefore, Start,
       Wait, Store
  <2> QED BY <2>1
<1> QED BY <1>2, <1>3, <1>4, <1>5 DEF Outcome

(* Nothing is remembered for longer than Age from now, and what resolved a        *)
(* request is remembered as long as it itself is.                              *)
Fresh(st, time) ==
  \A i \in Ids : st.identities[i] # None => st.identities[i].expiresAt <= time + Age
Settled(st) == \A q \in Requests : Stays(st, q) => q \in st.resolved

(* What was told of a turn is told by its close and an end that is remembered    *)
(* long enough; what was told of a request by the record that waits or by its   *)
(* resolution, unless the request is gone.                                     *)
EndKnown(st, t) ==
  /\ t.key \in st.closed
  /\ \E i \in Ids : /\ st.identities[i] # None /\ st.identities[i].type = "end"
                    /\ st.identities[i].key = t.key
                    /\ st.identities[i].expiresAt >= t.since + Age
ResolutionKnown(st, t) ==
  Stays(st, t.key) /\ st.identities[<<"resolved", t.key>>].expiresAt >= t.since + Age
RequestKnown(st, t) == (\E r \in Unanswered(st) : r.key = t.key) \/ ResolutionKnown(st, t)
Remains(st, g, t, time) ==
  /\ t.key \in Turns \cup Requests /\ t.since \in Int /\ t.since <= time
  /\ time < t.since + Age =>
       /\ t.key \in Turns => EndKnown(st, t)
       /\ t.key \in Requests /\ t.key \notin g => RequestKnown(st, t)

(* What keeps identities and closes keeps what they tell.                       *)
LEMMA KnownKept ==
  ASSUME NEW st, NEW s, NEW t, st.closed \subseteq s.closed,
         \A i \in Ids : st.identities[i] # None => s.identities[i] = st.identities[i]
  PROVE  /\ EndKnown(st, t) => EndKnown(s, t)
         /\ t.key \in Requests /\ ResolutionKnown(st, t) => ResolutionKnown(s, t)
<1>1. EndKnown(st, t) => EndKnown(s, t)
  BY DEF EndKnown
<1>2. t.key \in Requests /\ ResolutionKnown(st, t) => ResolutionKnown(s, t)
  <2>1. t.key \in Requests => <<"resolved", t.key>> \in Ids
    BY OwnIds
  <2> QED BY <2>1 DEF ResolutionKnown, Stays
<1> QED BY <1>1, <1>2

(* So does pruning, until it is old.                                           *)
LEMMA KnownLasts ==
  ASSUME NEW s, NEW p, NEW t, NEW u \in Nat, Sound(s), Leaves(s, p, u),
         t.since \in Int, u < t.since + Age
  PROVE  /\ EndKnown(s, t) => EndKnown(p, t)
         /\ t.key \in Requests /\ ResolutionKnown(s, t) => ResolutionKnown(p, t)
<1>1. CASE p = s
  BY <1>1
<1>2. CASE PrunedTo(s, p, u)
  <2>1. ASSUME NEW i \in Ids, s.identities[i] # None, s.identities[i].expiresAt >= t.since + Age
        PROVE  p.identities[i] = s.identities[i]
    <3>1. s.identities[i] \in Heard
      BY <2>1, Fields DEF Sound
    <3>2. s.identities[i].expiresAt \in Nat /\ Age \in Nat
      BY <3>1, StoreAssumption DEF Heard
    <3>3. s.identities[i].expiresAt > u
      BY <2>1, <3>2
    <3> QED BY <1>2, <2>1, <3>3 DEF PrunedTo
  <2>2. ASSUME EndKnown(s, t) PROVE EndKnown(p, t)
    <3>1. PICK i \in Ids : /\ s.identities[i] # None /\ s.identities[i].type = "end"
                           /\ s.identities[i].key = t.key
                           /\ s.identities[i].expiresAt >= t.since + Age
      BY <2>2 DEF EndKnown
    <3>2. p.identities[i] = s.identities[i]
      BY <2>1, <3>1
    <3>3. t.key \in p.closed
      BY <1>2, <2>2, <3>1, <3>2 DEF EndKnown, PrunedTo
    <3> QED BY <3>1, <3>2, <3>3 DEF EndKnown
  <2>3. ASSUME t.key \in Requests, ResolutionKnown(s, t) PROVE ResolutionKnown(p, t)
    <3>1. <<"resolved", t.key>> \in Ids
      BY <2>3, OwnIds
    <3>2. p.identities[<<"resolved", t.key>>] = s.identities[<<"resolved", t.key>>]
      BY <2>1, <2>3, <3>1 DEF ResolutionKnown, Stays
    <3> QED BY <2>3, <3>2 DEF ResolutionKnown, Stays
  <2> QED BY <2>2, <2>3
<1> QED BY <1>1, <1>2 DEF Leaves

(* Pruning leaves nothing newer, and no resolution without its request's.       *)
LEMMA FreshLasts ==
  ASSUME NEW s, NEW p, NEW t \in Nat, NEW u \in Nat, t <= u, Sound(s), Leaves(s, p, u)
  PROVE  /\ Fresh(s, t) => Fresh(p, u)
         /\ Settled(s) => Settled(p)
<1>1. \A i \in Ids : p.identities[i] # None => p.identities[i] = s.identities[i]
  BY DEF Leaves, PrunedTo
<1>2. ASSUME Fresh(s, t), NEW i \in Ids, p.identities[i] # None
      PROVE  p.identities[i].expiresAt <= u + Age
  <2>1. s.identities[i] # None /\ p.identities[i] = s.identities[i]
    BY <1>1, <1>2
  <2>2. s.identities[i].expiresAt <= t + Age
    BY <1>2, <2>1 DEF Fresh
  <2>3. s.identities[i] \in Heard
    BY <2>1, Fields DEF Sound
  <2>4. s.identities[i].expiresAt \in Nat /\ Age \in Nat
    BY <2>3, StoreAssumption DEF Heard
  <2>5. s.identities[i].expiresAt <= u + Age
    BY <2>2, <2>4
  <2> QED BY <2>1, <2>5
<1>3. ASSUME Settled(s), NEW q \in Requests, Stays(p, q) PROVE q \in p.resolved
  <2>1. <<"resolved", q>> \in Ids /\ p.identities[<<"resolved", q>>] # None
    BY <1>3, OwnIds DEF Stays
  <2>2. q \in s.resolved
    BY <1>1, <1>3, <2>1 DEF Settled, Stays
  <2> QED BY <2>1, <2>2 DEF Leaves, PrunedTo
<1> QED BY <1>2, <1>3 DEF Fresh, Settled

(* A resolution's id is of no other event.                                     *)
LEMMA ResolutionIds ==
  ASSUME NEW e \in Events, NEW q, e.id = <<"resolved", q>>
  PROVE  e.type = "resolved" /\ e.key = q
<1>1. \A x, y : <<"start", x>> # <<"resolved", y>> /\ <<"entry", x>> # <<"resolved", y>>
  OBVIOUS
<1>2. e.type = "resolved"
  BY <1>1, EventTypes
<1>3. e.id = <<"resolved", e.key>>
  BY <1>2, EventTypes
<1> QED BY <1>2, <1>3

-----------------------------------------------------------------------------
(* The second part of the inductive invariant: everything told is remembered.    *)
AllTold ==
  /\ Fits(store) /\ Fresh(store, now) /\ Settled(store)
  /\ \A t \in told : Remains(store, gone, t, now)

(* At first nothing is told.                                                  *)
LEMMA ToldInit == Init => AllTold
<1> SUFFICES ASSUME Init PROVE AllTold
  OBVIOUS
<1>1. store = Empty /\ told = {}
  BY DEF Init
<1>2. store.records = {} /\ store.identities = [i \in Ids |-> None]
  BY <1>1 DEF Empty
<1>3. Unanswered(store) = {}
  BY <1>2 DEF Unanswered
<1>4. Fits(store)
  BY <1>3, FS_EmptySet DEF Fits
<1>5. Fresh(store, now) /\ Settled(store)
  BY <1>2, OwnIds DEF Fresh, Settled, Stays
<1> QED BY <1>1, <1>4, <1>5 DEF AllTold

(* Time does not make anything told unknown before it is old.                    *)
LEMMA ToldTick == Inv /\ AllTold /\ Tick => AllTold'
<1> SUFFICES ASSUME Inv, AllTold, Tick PROVE AllTold'
  OBVIOUS
<1>1. Sound(store) /\ now \in Nat /\ now' \in Nat /\ now <= now' /\ told' = told /\ gone' = gone
  BY DEF Inv, TypeOK, Times, Tick
<1>2. store' = Pruned(store, now')
  BY DEF Tick
<1>3. Leaves(store, store', now') /\ Capped(store, store')
  BY <1>1, <1>2, Prunes, Caps DEF Leaves
<1>4. Fits(store') /\ Unanswered(store') = Unanswered(store)
  BY <1>3, CapFits DEF AllTold, Fits
<1>5. Fresh(store', now') /\ Settled(store')
  BY <1>1, <1>3, FreshLasts DEF AllTold
<1>6. ASSUME NEW t \in told PROVE Remains(store', gone, t, now')
  <2>1. Remains(store, gone, t, now)
    BY DEF AllTold
  <2>2. t.key \in Turns \cup Requests /\ t.since \in Int /\ t.since <= now'
    BY <1>1, <2>1 DEF Remains
  <2>3. ASSUME now' < t.since + Age
        PROVE  /\ t.key \in Turns => EndKnown(store', t)
               /\ t.key \in Requests /\ t.key \notin gone => RequestKnown(store', t)
    <3>1. now < t.since + Age
      BY <1>1, <2>2, <2>3, StoreAssumption
    <3>2. /\ t.key \in Turns => EndKnown(store, t)
          /\ t.key \in Requests /\ t.key \notin gone => RequestKnown(store, t)
      BY <2>1, <3>1 DEF Remains
    <3>3. /\ EndKnown(store, t) => EndKnown(store', t)
          /\ t.key \in Requests /\ ResolutionKnown(store, t) => ResolutionKnown(store', t)
      BY <1>1, <1>3, <2>2, <2>3, KnownLasts
    <3> QED BY <1>4, <3>2, <3>3 DEF RequestKnown
  <2> QED BY <2>2, <2>3 DEF Remains
<1> QED BY <1>1, <1>4, <1>5, <1>6 DEF AllTold

(* What is marked unavailable is gone; nothing else is forgotten by it.           *)
LEMMA ToldUnavailable ==
  ASSUME Inv, AllTold, NEW r \in store.records, MarkUnavailable(r)
  PROVE  AllTold'
<1>1. /\ Sound(store) /\ now \in Nat /\ now <= now /\ now' = now /\ told' = told
      /\ gone' = gone \cup {r.key}
  BY DEF Inv, TypeOK, Times, MarkUnavailable
<1>2. PICK rs, Q : /\ Settles(store, rs, Q) /\ Q \subseteq {r.key}
                   /\ store' = Pruned(Settle(store, rs, Q), now)
  BY <1>1, Unavailable
<1> DEFINE s == Settle(store, rs, Q)
<1>3. /\ Sound(s) /\ s.records = rs /\ s.closed = store.closed
      /\ s.resolved = store.resolved \cup Q /\ s.identities = store.identities
  BY <1>1, <1>2, SettleSound
<1> HIDE DEF s
<1>4. Leaves(s, store', now) /\ Capped(s, store')
  BY <1>1, <1>2, <1>3, Prunes, Caps DEF Leaves, s
<1>5. /\ Unanswered(s) \subseteq Unanswered(store)
      /\ \A x \in Unanswered(store) : x.key # r.key => x \in Unanswered(s)
  BY <1>2, <1>3 DEF Settles, Unanswered
<1>6. Fits(s)
  BY <1>5, FewerFit DEF AllTold
<1>7. Fits(store') /\ Unanswered(store') = Unanswered(s)
  BY <1>4, <1>6, CapFits DEF Fits
<1>8. Fresh(s, now) /\ Settled(s)
  BY <1>3 DEF AllTold, Fresh, Settled, Stays
<1>9. Fresh(store', now') /\ Settled(store')
  BY <1>1, <1>3, <1>4, <1>8, FreshLasts
<1>10. ASSUME NEW t \in told PROVE Remains(store', gone', t, now')
  <2>1. Remains(store, gone, t, now)
    BY DEF AllTold
  <2>2. t.key \in Turns \cup Requests /\ t.since \in Int /\ t.since <= now'
    BY <1>1, <2>1 DEF Remains
  <2>3. ASSUME now < t.since + Age
        PROVE  /\ t.key \in Turns => EndKnown(store', t)
               /\ t.key \in Requests /\ t.key \notin gone' => RequestKnown(store', t)
    <3>1. /\ t.key \in Turns => EndKnown(store, t)
          /\ t.key \in Requests /\ t.key \notin gone => RequestKnown(store, t)
      BY <2>1, <2>3 DEF Remains
    <3>2. /\ EndKnown(store, t) => EndKnown(s, t)
          /\ t.key \in Requests /\ ResolutionKnown(store, t) => ResolutionKnown(s, t)
      BY <1>3, KnownKept
    <3>3. /\ EndKnown(s, t) => EndKnown(store', t)
          /\ t.key \in Requests /\ ResolutionKnown(s, t) => ResolutionKnown(store', t)
      BY <1>1, <1>3, <1>4, <2>2, <2>3, KnownLasts
    <3>4. ASSUME NEW x \in Unanswered(store), x.key = t.key, t.key \notin gone'
          PROVE  x \in Unanswered(store')
      BY <1>1, <1>5, <1>7, <3>4
    <3> QED BY <1>1, <3>1, <3>2, <3>3, <3>4 DEF RequestKnown
  <2> QED BY <1>1, <2>2, <2>3 DEF Remains
<1> QED BY <1>1, <1>7, <1>9, <1>10 DEF AllTold

(* What an event makes of the store, and of what is known of what was told.      *)
Heeds(e, r, s) ==
  /\ Sound(r) /\ Sound(s) /\ Remembers(store, r, e, now) /\ Outcome(r, e, s)
  /\ Leaves(s, store', now) /\ (MakesRequest(r, e, s) => Capped(s, store'))
  /\ \A x \in r.records : x.id # e.id
  /\ store.closed \subseteq s.closed
  /\ \A i \in Ids : store.identities[i] # None => s.identities[i] = store.identities[i]
  /\ Unanswered(r) = Unanswered(store) /\ r.records = store.records
  /\ s.identities = r.identities

(* An event that is ingested is remembered, has an outcome and is pruned.     *)
LEMMA Heeded ==
  ASSUME Inv, NEW e \in Events, Ingest(e)
  PROVE  \E r, s : Heeds(e, r, s)
<1>1. Sound(store) /\ Alive(store, now) /\ now \in Times
  BY DEF Inv, TypeOK
<1>2. PICK r, s : /\ Sound(r) /\ Alive(r, now) /\ Remembers(store, r, e, now)
                  /\ \A x \in r.records : x.id # e.id
                  /\ Outcome(r, e, s) /\ Leaves(s, store', now)
                  /\ MakesRequest(r, e, s) => Capped(s, store')
  BY <1>1, Ingests
<1>3. /\ Knows(r, e) /\ r.closed = store.closed /\ r.records = store.records
      /\ \A i \in Ids : store.identities[i] # None => r.identities[i] = store.identities[i]
  BY <1>2 DEF Remembers
<1>4. Sound(s) /\ s.identities = r.identities /\ r.closed \subseteq s.closed
  BY <1>2, <1>3, OutcomeSound
<1>5. Unanswered(r) = Unanswered(store)
  BY <1>3 DEF Unanswered
<1> QED BY <1>2, <1>3, <1>4, <1>5 DEF Heeds

(* An event leaves few enough that wait, nothing too new, and what it resolves    *)
(* resolved.                                                                  *)
LEMMA HeedsFit ==
  ASSUME Inv, AllTold, NEW e \in Events, NEW r, NEW s, Heeds(e, r, s)
  PROVE  Fits(store') /\ Fresh(store', now) /\ Settled(store') /\ Fresh(s, now) /\ Settled(s)
<1>1. /\ Sound(r) /\ Sound(s) /\ Remembers(store, r, e, now) /\ Outcome(r, e, s)
      /\ Leaves(s, store', now) /\ Unanswered(r) = Unanswered(store)
      /\ s.identities = r.identities
  BY DEF Heeds
<1>2. now \in Nat /\ now <= now
  BY DEF Inv, TypeOK, Times
<1>3. Fits(r)
  BY <1>1, FewerFit DEF AllTold
<1>4. IsFiniteSet(Unanswered(s))
  <2>1. Unanswered(s) \subseteq Unanswered(r) \cup {NewRecord(r, e)}
    BY <1>1, OutcomeWaits
  <2>2. IsFiniteSet(Unanswered(r) \cup {NewRecord(r, e)})
    BY <1>3, FS_AddElement DEF Fits
  <2> QED BY <2>1, <2>2, FS_Subset
<1>5. Fits(store')
  <2>1. CASE Capped(s, store')
    BY <1>4, <2>1, CapFits
  <2>2. CASE store' = s /\ ~Capped(s, store')
    <3>1. Unanswered(s) \subseteq Unanswered(r)
      BY <1>1, <2>2, OutcomeWaits DEF Heeds
    <3> QED BY <1>3, <2>2, <3>1, FewerFit
  <2> QED BY <1>1, <2>1, <2>2 DEF Leaves
<1>6. Fresh(s, now)
  <2>1. ASSUME NEW i \in Ids, r.identities[i] # None PROVE r.identities[i].expiresAt <= now + Age
    <3>1. CASE r.identities[i] = store.identities[i]
      BY <2>1, <3>1 DEF AllTold, Fresh
    <3>2. CASE r.identities[i] = Identity(e, now)
      <4>1. r.identities[i].expiresAt = now + Age
        BY <3>2 DEF Identity
      <4> QED BY <1>2, <4>1, StoreAssumption
    <3> QED BY <1>1, <3>1, <3>2 DEF Remembers
  <2> QED BY <1>1, <2>1 DEF Fresh
<1>7. Settled(s)
  <2>1. ASSUME NEW q \in Requests, Stays(s, q) PROVE q \in s.resolved
    <3>1. CASE e.id = <<"resolved", q>>
      <4>1. e.type = "resolved" /\ e.key = q
        BY <3>1, ResolutionIds
      <4> QED BY <1>1, <4>1, OutcomeResolves
    <3>2. CASE e.id # <<"resolved", q>>
      <4>1. <<"resolved", q>> \in Ids
        BY OwnIds
      <4>2. r.identities[<<"resolved", q>>] = store.identities[<<"resolved", q>>]
        BY <1>1, <3>2, <4>1 DEF Remembers
      <4>3. Stays(store, q)
        BY <1>1, <2>1, <4>2 DEF Stays
      <4>4. q \in store.resolved /\ r.resolved = store.resolved
        BY <1>1, <4>3 DEF AllTold, Settled, Remembers
      <4> QED BY <1>1, <4>4, OutcomeResolves
    <3> QED BY <3>1, <3>2
  <2> QED BY <2>1 DEF Settled
<1>8. Fresh(store', now) /\ Settled(store')
  BY <1>1, <1>2, <1>6, <1>7, FreshLasts
<1> QED BY <1>5, <1>6, <1>7, <1>8

(* A request that waits still does, is resolved by the event, or is crowded out.  *)
LEMMA WaitsOn ==
  ASSUME Inv, AllTold, NEW e \in Events, NEW r, NEW s, Heeds(e, r, s), NEW t,
         t.key \in Requests, t.since \in Int, t.since <= now, now < t.since + Age,
         NEW x \in Unanswered(store), x.key = t.key, ~Lost(x)
  PROVE  RequestKnown(store', t)
<1>1. /\ Sound(store) /\ Sound(r) /\ Sound(s) /\ Remembers(store, r, e, now) /\ Outcome(r, e, s)
      /\ Leaves(s, store', now) /\ Unanswered(r) = Unanswered(store)
      /\ s.identities = r.identities
  BY DEF Heeds, Inv
<1>2. now \in Nat /\ Age \in Nat
  BY StoreAssumption DEF Inv, TypeOK, Times
<1>3. CASE e.type = "resolved" /\ e.key = x.key
  <2>1. e.id = <<"resolved", t.key>> /\ e.id \in Ids
    BY <1>3, EventTypes
  <2>2. x.key \notin store.resolved
    BY <1>1 DEF Sound, RecordsStand, Unanswered
  <2>3. store.identities[e.id] = None
    BY <2>1, <2>2 DEF AllTold, Settled, Stays
  <2>4. r.identities[e.id] = Identity(e, now) /\ r.identities[e.id] # None
    BY <1>1, <2>3 DEF Remembers, Knows
  <2>5. r.identities[e.id].expiresAt = now + Age
    BY <2>4 DEF Identity
  <2>6. now + Age >= t.since + Age
    BY <1>2
  <2>7. ResolutionKnown(s, t)
    BY <1>1, <2>1, <2>4, <2>5, <2>6 DEF ResolutionKnown, Stays
  <2>8. ResolutionKnown(store', t)
    BY <1>1, <1>2, <2>7, KnownLasts
  <2> QED BY <2>8 DEF RequestKnown
<1>4. CASE ~(e.type = "resolved" /\ e.key = x.key)
  <2>1. x \in Unanswered(s)
    BY <1>1, <1>4, OutcomeWaits
  <2>2. PICK y \in store'.records : y.id = x.id
    BY DEF Lost
  <2>3. y \in s.records /\ x \in s.records /\ NeedsAttention(x)
    BY <1>1, <2>1, <2>2 DEF Leaves, PrunedTo, Unanswered
  <2>4. y = x
    BY <1>1, <2>2, <2>3 DEF Sound, RecordsStand
  <2> QED BY <2>2, <2>3, <2>4 DEF RequestKnown, Unanswered
<1> QED BY <1>3, <1>4

(* What an event tells is known by it, and what was told stays known.            *)
LEMMA ToldIngest ==
  ASSUME Inv, AllTold, NEW e \in Events, Ingest(e), Inv'
  PROVE  AllTold'
<1>1. PICK r, s : Heeds(e, r, s)
  BY Heeded
<1>2. /\ Sound(s) /\ Leaves(s, store', now) /\ store.closed \subseteq s.closed
      /\ \A i \in Ids : store.identities[i] # None => s.identities[i] = store.identities[i]
  BY <1>1 DEF Heeds
<1>3. /\ now \in Nat /\ now' = now /\ Sound(store) /\ Sound(store') /\ Age \in Nat
      /\ gone \subseteq gone'
      /\ \A x \in Unanswered(store) : Lost(x) => x.key \in gone'
  BY StoreAssumption DEF Inv, TypeOK, Times, Ingest, Unanswered
<1>4. Fits(store') /\ Fresh(store', now) /\ Settled(store')
  BY <1>1, HeedsFit
<1>5. ASSUME NEW t \in told PROVE Remains(store', gone', t, now)
  <2>1. Remains(store, gone, t, now)
    BY DEF AllTold
  <2>2. t.key \in Turns \cup Requests /\ t.since \in Int /\ t.since <= now
    BY <2>1 DEF Remains
  <2>3. ASSUME now < t.since + Age
        PROVE  /\ t.key \in Turns => EndKnown(store', t)
               /\ t.key \in Requests /\ t.key \notin gone' => RequestKnown(store', t)
    <3>1. /\ t.key \in Turns => EndKnown(store, t)
          /\ t.key \in Requests /\ t.key \notin gone => RequestKnown(store, t)
      BY <2>1, <2>3 DEF Remains
    <3>2. /\ EndKnown(store, t) => EndKnown(s, t)
          /\ t.key \in Requests /\ ResolutionKnown(store, t) => ResolutionKnown(s, t)
      BY <1>2, KnownKept
    <3>3. /\ EndKnown(s, t) => EndKnown(store', t)
          /\ t.key \in Requests /\ ResolutionKnown(s, t) => ResolutionKnown(store', t)
      BY <1>2, <1>3, <2>2, <2>3, KnownLasts
    <3>4. ASSUME NEW x \in Unanswered(store), x.key = t.key, t.key \in Requests, t.key \notin gone'
          PROVE  RequestKnown(store', t)
      <4>1. ~Lost(x)
        BY <1>3, <3>4
      <4> QED BY <1>1, <2>2, <2>3, <3>4, <4>1, WaitsOn
    <3> QED BY <1>3, <3>1, <3>2, <3>3, <3>4 DEF RequestKnown
  <2> QED BY <2>2, <2>3 DEF Remains
<1>6. ASSUME NEW t \in told' \ told PROVE Remains(store', gone', t, now)
  <2>1. PICK x \in store'.records :
          ~x.resolved /\ t = [key |-> x.key, at |-> x.at, since |-> Since(x)]
    BY <1>6 DEF Ingest
  <2>2. /\ x.id \in Ids /\ x.type \in {"end", "ask"} /\ Knows(store', x)
        /\ (x.type = "ask" => x.key \in Requests) /\ (x.type = "end" => x.key \in Turns)
    BY <1>3, RecordIds
  <2>3. /\ store'.identities[x.id] # None /\ store'.identities[x.id].type = x.type
        /\ store'.identities[x.id].key = x.key
    BY <2>2 DEF Knows
  <2>4. store'.identities[x.id].expiresAt \in Nat
    <3>1. store'.identities[x.id] \in Heard
      BY <1>3, <2>2, <2>3, Fields DEF Sound
    <3> QED BY <3>1 DEF Heard
  <2>5. store'.identities[x.id].expiresAt <= now + Age
    BY <1>4, <2>2, <2>3 DEF Fresh
  <2>6. t.key = x.key /\ t.since = store'.identities[x.id].expiresAt - Age
    BY <2>1 DEF Since
  <2>7. t.since \in Int /\ t.since <= now /\ store'.identities[x.id].expiresAt >= t.since + Age
    BY <1>3, <2>4, <2>5, <2>6
  <2>8. CASE x.type = "end"
    <3>1. x.key \in store'.closed
      BY <1>3, <2>8 DEF Sound, RecordsStand
    <3>2. EndKnown(store', t)
      BY <2>2, <2>3, <2>6, <2>7, <2>8, <3>1 DEF EndKnown
    <3>3. t.key \in Turns /\ t.key \notin Requests
      BY <2>2, <2>6, <2>8, StoreAssumption
    <3> QED BY <2>7, <3>2, <3>3 DEF Remains
  <2>9. CASE x.type = "ask"
    <3>1. x \in Unanswered(store')
      BY <2>1, <2>9 DEF Unanswered, NeedsAttention
    <3>2. RequestKnown(store', t)
      BY <2>6, <3>1 DEF RequestKnown
    <3>3. t.key \in Requests /\ t.key \notin Turns
      BY <2>2, <2>6, <2>9, StoreAssumption
    <3> QED BY <2>7, <3>2, <3>3 DEF Remains
  <2> QED BY <2>2, <2>8, <2>9
<1> QED BY <1>3, <1>4, <1>5, <1>6 DEF AllTold

(* Both parts hold of every behaviour.                                        *)
LEMMA ToldHolds == Spec => [](Inv /\ AllTold)
<1>1. Init => Inv /\ AllTold
  BY InvInit, ToldInit
<1>2. Inv /\ AllTold /\ [Next]_vars => (Inv /\ AllTold)'
  <2> SUFFICES ASSUME Inv, AllTold, [Next]_vars PROVE Inv' /\ AllTold'
    OBVIOUS
  <2>1. Inv'
    BY InvInductive
  <2>2. CASE Tick
    BY <2>1, <2>2, ToldTick
  <2>3. ASSUME NEW e \in Events, Ingest(e) PROVE AllTold'
    BY <2>1, <2>3, ToldIngest
  <2>4. ASSUME NEW r \in store.records, MarkUnavailable(r) PROVE AllTold'
    BY <2>4, ToldUnavailable
  <2>5. CASE UNCHANGED vars
    <3>1. now' = now /\ store' = store /\ told' = told /\ gone' = gone
      BY <2>5 DEF vars
    <3>2. Fits(store') /\ Fresh(store', now') /\ Settled(store')
      BY <3>1 DEF AllTold
    <3>3. \A t \in told' : Remains(store', gone', t, now')
      BY <3>1 DEF AllTold
    <3> QED BY <2>1, <3>2, <3>3 DEF AllTold
  <2> QED BY <2>1, <2>2, <2>3, <2>4, <2>5 DEF Next
<1> QED BY <1>1, <1>2, PTL DEF Spec

(* An end or a request is told again only once what was first heard of it is as    *)
(* old as the store remembers, unless it was marked unavailable or crowded out.   *)
LEMMA TellsAnew ==
  ASSUME Inv, AllTold, NEW e \in Events, Ingest(e), NEW n \in told' \ told, NEW t \in told,
         n.key = t.key, n.key \notin gone
  PROVE  now >= t.since + Age
<1>1. PICK r, s : Heeds(e, r, s)
  BY Heeded
<1>2. /\ Sound(store) /\ Sound(r) /\ Sound(s) /\ Remembers(store, r, e, now) /\ Outcome(r, e, s)
      /\ Leaves(s, store', now) /\ r.records = store.records
  BY <1>1 DEF Heeds, Inv
<1>3. PICK x \in store'.records : /\ IsNew(x) /\ ~x.resolved
                                  /\ n = [key |-> x.key, at |-> x.at, since |-> Since(x)]
  BY DEF Ingest
<1>4. n.key = x.key
  BY <1>3
<1>5. x \in s.records /\ \A y \in r.records : y.id # x.id
  BY <1>2, <1>3 DEF Leaves, PrunedTo, IsNew
<1> SUFFICES ASSUME ~(now >= t.since + Age) PROVE FALSE
  OBVIOUS
<1>6. Remains(store, gone, t, now)
  BY DEF AllTold
<1>7. now < t.since + Age
  BY <1>6, StoreAssumption DEF Remains, Inv, TypeOK, Times
<1>8. CASE ClosesTurn(r, e, s) /\ x.key = e.key
  <2>1. PICK p \in Ends : p.key = e.key
    BY <1>8 DEF ClosesTurn
  <2>2. e.key \in Turns
    BY <2>1, EventTypes DEF Ends
  <2>3. e.key \notin store.closed
    BY <1>2, <1>8 DEF ClosesTurn, Remembers
  <2> QED BY <1>4, <1>6, <1>7, <1>8, <2>2, <2>3 DEF Remains, EndKnown
<1>9. CASE MakesRequest(r, e, s) /\ x = NewRecord(r, e)
  <2>1. e.type = "ask" /\ e.key \in Requests /\ e.id = <<"entry", e.key>>
    BY <1>9, EventTypes DEF MakesRequest
  <2>2. x.key = e.key /\ x.id = e.id /\ x.resolved = (e.type = "ask" /\ e.key \in r.resolved)
    BY <1>9 DEF NewRecord
  <2>3. e.key \notin store.resolved
    BY <1>2, <1>3, <2>1, <2>2 DEF Remembers
  <2>4. RequestKnown(store, t)
    BY <1>4, <1>6, <1>7, <2>1, <2>2 DEF Remains
  <2>5. ~ResolutionKnown(store, t)
    BY <1>4, <2>1, <2>2, <2>3 DEF ResolutionKnown, AllTold, Settled
  <2>6. PICK y \in Unanswered(store) : y.key = t.key
    BY <2>4, <2>5 DEF RequestKnown
  <2>7. y \in store.records /\ y.type = "ask"
    BY DEF Unanswered, NeedsAttention
  <2>8. y.id = <<"entry", y.key>>
    BY <1>2, <2>7, RecordIds
  <2> QED BY <1>3, <1>4, <2>1, <2>2, <2>6, <2>7, <2>8 DEF IsNew
<1> QED BY <1>2, <1>5, <1>8, <1>9, OutcomeNews

(* A turn's end is told once and a request is, until what was first heard of it is *)
(* as old as the store remembers, its record marked unavailable or crowded out.    *)
THEOREM TellsOnce == Spec => ToldOnce
<1>1. ASSUME Inv, AllTold, [Next]_vars
      PROVE  [\A r \in told' \ told, t \in told :
                r.key = t.key /\ r.key \notin gone => now >= t.since + Age]_vars
  <2>1. CASE told' = told
    BY <2>1
  <2>2. ASSUME NEW e \in Events, Ingest(e)
        PROVE  \A r \in told' \ told, t \in told :
                 r.key = t.key /\ r.key \notin gone => now >= t.since + Age
    BY <1>1, <2>2, TellsAnew
  <2> QED BY <1>1, <2>1, <2>2 DEF Next, Tick, MarkUnavailable, vars
<1> QED BY <1>1, ToldHolds, PTL DEF Spec, ToldOnce

(* A request that waits is lost to nothing but others that wait, as many as are    *)
(* kept: neither time nor what is told of turns pushes it out, however old it is.   *)
THEOREM OnlyOthersCrowdOut == Spec => UnansweredStays
<1>1. ASSUME Inv, AllTold, Tick, NEW r \in store.records, NeedsAttention(r) PROVE ~Lost(r)
  <2>1. Sound(store) /\ store' = Pruned(store, now + 1)
    BY <1>1 DEF Inv, Tick
  <2>2. Unanswered(store') = Unanswered(store)
    BY <1>1, <2>1, Caps, CapFits DEF AllTold, Fits
  <2> QED BY <1>1, <2>2 DEF Unanswered, Lost
<1>2. ASSUME Inv, AllTold, NEW e \in Events, Ingest(e), told' # told,
             NEW r \in store.records, NeedsAttention(r), Lost(r)
      PROVE  Cardinality(Unanswered(store')) = Limit
  <2>1. PICK q, s : Heeds(e, q, s)
    BY <1>2, Heeded
  <2>2. /\ Sound(q) /\ Sound(s) /\ Outcome(q, e, s) /\ Leaves(s, store', now)
        /\ Unanswered(q) = Unanswered(store) /\ q.records = store.records
        /\ MakesRequest(q, e, s) => Capped(s, store')
    BY <2>1 DEF Heeds
  <2>3. PICK x \in store'.records : IsNew(x)
    BY <1>2 DEF Ingest
  <2>4. x \in s.records /\ \A y \in q.records : y.id # x.id
    BY <2>2, <2>3 DEF Leaves, PrunedTo, IsNew
  <2>5. r \in Unanswered(store) /\ r \notin Unanswered(store')
    BY <1>2 DEF Unanswered, Lost
  <2>6. CASE MakesRequest(q, e, s)
    <3>1. /\ Unanswered(store) \subseteq Unanswered(s)
          /\ Unanswered(s) \subseteq Unanswered(store) \cup {NewRecord(q, e)}
      BY <2>2, <2>6, OutcomeWaits DEF MakesRequest
    <3> QED BY <1>2, <2>2, <2>5, <2>6, <3>1, Crowds DEF AllTold
  <2>7. CASE ClosesTurn(q, e, s) /\ ~MakesRequest(q, e, s)
    <3>1. Unanswered(s) = Unanswered(store)
      <4>1. e.type # "resolved"
        BY <2>7 DEF ClosesTurn
      <4>2. Unanswered(s) \subseteq Unanswered(q) /\ Unanswered(q) \subseteq Unanswered(s)
        BY <2>2, <2>7, <4>1, OutcomeWaits
      <4> QED BY <2>2, <4>2
    <3>2. Fits(s)
      BY <1>2, <3>1, FewerFit DEF AllTold
    <3>3. Unanswered(store') = Unanswered(s)
      BY <2>2, <3>2, CapFits DEF Leaves, Fits
    <3> QED BY <2>5, <3>1, <3>3
  <2> QED BY <2>2, <2>4, <2>6, <2>7, OutcomeNews
<1>3. ASSUME Inv, AllTold, [Next]_vars
      PROVE  [\A r \in store.records :
                (now' # now \/ told' # told) /\ NeedsAttention(r) /\ Lost(r) =>
                  Cardinality({s \in store'.records : NeedsAttention(s)}) = Limit]_vars
  <2> SUFFICES ASSUME NEW r \in store.records, now' # now \/ told' # told,
             NeedsAttention(r), Lost(r)
               PROVE  Cardinality({s \in store'.records : NeedsAttention(s)}) = Limit
    OBVIOUS
  <2>1. Unanswered(store') = {s \in store'.records : NeedsAttention(s)}
    BY DEF Unanswered
  <2>2. CASE Tick
    BY <1>1, <1>3, <2>2
  <2>3. ASSUME NEW e \in Events, Ingest(e)
        PROVE  Cardinality(Unanswered(store')) = Limit
    <3>1. told' # told
      BY <2>3 DEF Ingest
    <3> QED BY <1>2, <1>3, <2>3, <3>1
  <2>4. ASSUME NEW x \in store.records, MarkUnavailable(x) PROVE FALSE
    BY <2>4 DEF MarkUnavailable
  <2>5. CASE UNCHANGED vars
    BY <2>5 DEF vars
  <2> QED BY <1>3, <2>1, <2>2, <2>3, <2>4, <2>5 DEF Next
<1> QED BY <1>3, ToldHolds, PTL DEF Spec, UnansweredStays
=============================================================================
