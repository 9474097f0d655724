------------------------- MODULE SessionThreadProofs -------------------------
(***************************************************************************)
(* Proofs about the transcript a thread shows, for every length of the     *)
(* Session's history, of a page and of a reply, and every number of        *)
(* prompts, page reads and breaks.                                         *)
(***************************************************************************)
EXTENDS SessionThread, TLAPS, FiniteSetTheorems, WellFoundedInduction

(* A set of naturals has a least one.                                      *)
LEMMA Least ==
  ASSUME NEW T, T \subseteq Nat, T # {}
  PROVE  \E m \in T : \A n \in T : m <= n
<1>1. PICK x \in T : \A y \in T : ~(<<y, x>> \in OpToRel(<, Nat))
  BY NatLessThanWellFounded, WFMin
<1>2. \A y \in T : ~(y < x)
  BY <1>1 DEF OpToRel
<1>3. \A y \in T : y \in Nat
  OBVIOUS
<1>. QED BY <1>2, <1>3

(* A set that holds 0, and with a number below n the next, holds all to n. *)
LEMMA UpTo ==
  ASSUME NEW n \in Nat, NEW T, 0 \in T,
         \A m \in 0..n : m \in T /\ m < n => m + 1 \in T
  PROVE  \A m \in 0..n : m \in T
<1> DEFINE Out == {m \in 0..n : m \notin T}
<1>1. SUFFICES ASSUME Out # {} PROVE FALSE
  OBVIOUS
<1>2. PICK m \in Out : \A k \in Out : m <= k
  <2>1. Out \subseteq Nat
    OBVIOUS
  <2> HIDE DEF Out
  <2>. QED BY <1>1, <2>1, Least
<1>3. m \in 1..n /\ m - 1 \notin Out
  BY <1>2
<1>4. m - 1 \in T /\ m - 1 < n /\ m - 1 \in 0..n
  BY <1>3
<1>5. (m - 1) + 1 \in T
  BY <1>4
<1>. QED BY <1>3, <1>5

Follows(F, b, G, n) ==
  /\ DOMAIN F = 0..n /\ F[0] = b
  /\ \A i \in 1..n : F[i] = G[<<i, F[i - 1]>>]

(* What a step determines from the one before is determined up to every n. *)
LEMMA Recursion ==
  ASSUME NEW n \in Nat, NEW D, NEW b \in D, NEW G \in [(1..n) \X D -> D]
  PROVE  \E F \in [0..n -> D] : Follows(F, b, G, n)
<1> DEFINE T == {m \in Nat : \E F \in [0..m -> D] : Follows(F, b, G, m)}
<1>1. 0 \in T
  <2>1. [i \in 0..0 |-> b] \in [0..0 -> D] /\ Follows([i \in 0..0 |-> b], b, G, 0)
    BY DEF Follows
  <2>. QED BY <2>1
<1>2. ASSUME NEW m \in 0..n, m \in T, m < n PROVE m + 1 \in T
  <2>1. PICK F \in [0..m -> D] : Follows(F, b, G, m)
    BY <1>2
  <2> DEFINE H == [i \in 0..m + 1 |-> IF i = m + 1 THEN G[<<m + 1, F[m]>>] ELSE F[i]]
  <2>2. m \in 0..m /\ F[m] \in D /\ m + 1 \in 1..n
    BY <1>2
  <2>3. G[<<m + 1, F[m]>>] \in D
    BY <2>2
  <2>4. H \in [0..m + 1 -> D]
    BY <2>3
  <2>5. H[m + 1] = G[<<m + 1, F[m]>>] /\ \A i \in 0..m : H[i] = F[i]
    OBVIOUS
  <2> HIDE DEF H
  <2>6. ASSUME NEW i \in 1..m + 1 PROVE H[i] = G[<<i, H[i - 1]>>]
    <3>1. i - 1 \in 0..m /\ (i = m + 1 \/ (i \in 1..m /\ i \in 0..m))
      BY <2>2
    <3>2. CASE i = m + 1
      BY <2>2, <2>5, <3>1, <3>2
    <3>3. CASE i \in 1..m
      <4>1. F[i] = G[<<i, F[i - 1]>>]
        BY <2>1, <3>3 DEF Follows
      <4>2. i \in 0..m /\ H[i] = F[i] /\ H[i - 1] = F[i - 1]
        BY <2>2, <2>5, <3>1, <3>3
      <4>. QED BY <4>1, <4>2
    <3>. QED BY <3>1, <3>2, <3>3
  <2>7. H[0] = b
    BY <2>1, <2>2, <2>5 DEF Follows
  <2>. QED BY <2>2, <2>4, <2>6, <2>7 DEF Follows
<1> HIDE DEF T
<1>3. n \in T
  BY <1>1, <1>2, UpTo
<1>. QED BY <1>3 DEF T
-----------------------------------------------------------------------------
(* Sequences of things with an id.                                         *)

(* None is there twice.                                                    *)
Once(s) == \A i, j \in DOMAIN s : s[i].id = s[j].id => i = j

Holds(s, x) == \E i \in DOMAIN s : s[i] = x

(* What `o` has of the first n of `s`: those with an id in `ids`.          *)
OnlyThose(o, s, ids, n) ==
  /\ \A j \in DOMAIN o : o[j].id \in ids /\ \E i \in 1..n : o[j] = s[i]
  /\ \A i \in 1..n : s[i].id \in ids => Holds(o, s[i])
  /\ Once(s) => Once(o)

(* Appending one keeps both ends in sight.                                 *)
LEMMA Appended ==
  ASSUME NEW U, NEW s \in Seq(U), NEW x \in U
  PROVE  /\ Append(s, x) \in Seq(U)
         /\ DOMAIN s = 1..Len(s) /\ Len(s) \in Nat
         /\ DOMAIN Append(s, x) = 1..(Len(s) + 1)
         /\ Append(s, x)[Len(s) + 1] = x
         /\ \A j \in 1..Len(s) : Append(s, x)[j] = s[j]
OBVIOUS

(* One more row is kept.                                                   *)
LEMMA OneMore ==
  ASSUME NEW U, NEW o \in Seq(U), NEW s \in Seq(U), NEW ids,
         NEW m \in Nat, m + 1 \in 1..Len(s),
         OnlyThose(o, s, ids, m), s[m + 1].id \in ids
  PROVE  OnlyThose(Append(o, s[m + 1]), s, ids, m + 1)
<1> DEFINE x == s[m + 1]
           p == Append(o, x)
<1>1. x \in U /\ m \in 0..Len(s) /\ DOMAIN s = 1..Len(s)
  OBVIOUS
<1>2. /\ DOMAIN o = 1..Len(o) /\ Len(o) \in Nat
      /\ DOMAIN p = 1..(Len(o) + 1) /\ p[Len(o) + 1] = x
      /\ \A j \in 1..Len(o) : p[j] = o[j]
  BY <1>1, Appended
<1>x. x = s[m + 1]
  OBVIOUS
<1> HIDE DEF p, x
<1>3. ASSUME NEW j \in DOMAIN p
      PROVE  p[j].id \in ids /\ \E i \in 1..m + 1 : p[j] = s[i]
  <2>1. CASE j = Len(o) + 1
    BY <1>x, <1>2, <2>1
  <2>2. CASE j # Len(o) + 1
    <3>1. j \in 1..Len(o)
      BY <1>2, <2>2
    <3>. QED BY <1>2, <3>1 DEF OnlyThose
  <2>. QED BY <2>1, <2>2
<1>4. ASSUME NEW i \in 1..m + 1, s[i].id \in ids PROVE Holds(p, s[i])
  <2>1. CASE i = m + 1
    BY <1>x, <1>2, <2>1 DEF Holds
  <2>2. CASE i # m + 1
    <3>1. PICK k \in DOMAIN o : o[k] = s[i]
      BY <1>4, <2>2 DEF OnlyThose, Holds
    <3>. QED BY <1>2, <3>1 DEF Holds
  <2>. QED BY <2>1, <2>2
<1>5. ASSUME Once(s) PROVE Once(p)
  <2>1. ASSUME NEW j \in 1..Len(o) PROVE p[j].id # x.id
    <3>1. PICK i \in 1..m : o[j] = s[i]
      BY <1>2, <2>1 DEF OnlyThose
    <3>2. i \in DOMAIN s /\ m + 1 \in DOMAIN s /\ i # m + 1
      BY <1>1
    <3>. QED BY <1>2, <1>5, <1>x, <2>1, <3>1, <3>2 DEF Once
  <2>2. Once(o)
    BY <1>5 DEF OnlyThose
  <2>3. ASSUME NEW i \in DOMAIN p, NEW j \in DOMAIN p, p[i].id = p[j].id PROVE i = j
    <3>1. /\ i = Len(o) + 1 \/ (i \in 1..Len(o) /\ p[i] = o[i])
          /\ j = Len(o) + 1 \/ (j \in 1..Len(o) /\ p[j] = o[j])
      BY <1>2
    <3>. QED BY <1>2, <2>1, <2>2, <2>3, <3>1 DEF Once
  <2>. QED BY <2>3 DEF Once
<1>. QED BY <1>3, <1>4, <1>5 DEF OnlyThose, p, x

(* Only leaves the rows that have one of the ids, and no others.           *)
LEMMA OnlyIsOnly ==
  ASSUME NEW U, NEW s \in Seq(U), NEW ids
  PROVE  Only(s, ids) \in Seq(U) /\ OnlyThose(Only(s, ids), s, ids, Len(s))
<1> DEFINE n == Len(s)
           Step(i, o) == IF s[i].id \in ids THEN Append(o, s[i]) ELSE o
           Picks(H) == H = [i \in 0..n |-> IF i = 0 THEN <<>> ELSE
                              IF s[i].id \in ids THEN Append(H[i - 1], s[i]) ELSE H[i - 1]]
           F == CHOOSE G : Picks(G)
           G == [p \in (1..n) \X Seq(U) |-> Step(p[1], p[2])]
<1>1. n \in Nat /\ n = Len(s) /\ \A i \in 1..n : s[i] \in U
  OBVIOUS
<1>2. Only(s, ids) = F[n]
  BY DEF Only
<1>3. G \in [(1..n) \X Seq(U) -> Seq(U)] /\ <<>> \in Seq(U)
  BY <1>1
<1>4. \A i \in 1..n, o \in Seq(U) : G[<<i, o>>] = Step(i, o)
  OBVIOUS
<1>5. \E H : Picks(H)
  <2>1. PICK H \in [0..n -> Seq(U)] : Follows(H, <<>>, G, n)
    <3> HIDE DEF n, G
    <3>. QED BY <1>1, <1>3, Recursion
  <2>2. H[0] = <<>> /\ \A i \in 1..n : H[i] = G[<<i, H[i - 1]>>]
    BY <2>1 DEF Follows
  <2>3. \A i \in 1..n : H[i - 1] \in Seq(U)
    BY <1>1, <2>1
  <2> HIDE DEF G
  <2>4. \A i \in 1..n : H[i] = Step(i, H[i - 1])
    BY <1>4, <2>2, <2>3
  <2> HIDE DEF Step
  <2>5. \A i \in 0..n : H[i] = IF i = 0 THEN <<>> ELSE Step(i, H[i - 1])
    BY <1>1, <2>2, <2>4
  <2>6. H = [i \in 0..n |-> IF i = 0 THEN <<>> ELSE Step(i, H[i - 1])]
    BY <2>1, <2>5
  <2>. QED BY <2>6 DEF Step
<1>6. Picks(F)
  BY <1>5
<1> HIDE DEF F, G, n
<1>p. F = [i \in 0..n |-> IF i = 0 THEN <<>> ELSE Step(i, F[i - 1])]
  BY <1>6
<1> HIDE DEF Picks, Step
<1>s. F[0] = <<>> /\ \A i \in 1..n : F[i] = Step(i, F[i - 1])
  <2>1. 0 \in 0..n /\ \A i \in 1..n : i \in 0..n /\ i # 0
    BY <1>1
  <2>2. \A i \in 0..n : F[i] = IF i = 0 THEN <<>> ELSE Step(i, F[i - 1])
    BY <1>p
  <2>. QED BY <2>1, <2>2
<1> DEFINE T == {m \in 0..n : F[m] \in Seq(U) /\ OnlyThose(F[m], s, ids, m)}
<1>7. 0 \in T
  <2>1. F[0] = <<>>
    BY <1>s
  <2>2. <<>> \in Seq(U) /\ DOMAIN <<>> = {} /\ 1..0 = {}
    OBVIOUS
  <2>3. OnlyThose(<<>>, s, ids, 0)
    BY <2>2 DEF OnlyThose, Once
  <2>4. 0 \in 0..n /\ F[0] \in Seq(U) /\ OnlyThose(F[0], s, ids, 0)
    BY <1>1, <2>1, <2>2, <2>3
  <2>. QED BY <2>4
<1>8. ASSUME NEW m \in 0..n, m \in T, m < n PROVE m + 1 \in T
  <2>1. /\ m \in Nat /\ m + 1 \in 0..n /\ m + 1 \in 1..n /\ m + 1 - 1 = m /\ m + 1 # 0
        /\ F[m] \in Seq(U) /\ OnlyThose(F[m], s, ids, m) /\ s[m + 1] \in U
    BY <1>1, <1>8
  <2>2. F[m + 1] = Step(m + 1, F[m])
    <3>1. F[m + 1] = Step(m + 1, F[m + 1 - 1])
      BY <1>s, <2>1
    <3>. QED BY <2>1, <3>1
  <2>3. CASE s[m + 1].id \in ids
    <3>1. OnlyThose(Append(F[m], s[m + 1]), s, ids, m + 1)
      BY <1>1, <2>1, <2>3, OneMore
    <3>2. Append(F[m], s[m + 1]) \in Seq(U)
      BY <2>1
    <3>. QED BY <2>1, <2>2, <2>3, <3>1, <3>2 DEF Step
  <2>4. CASE s[m + 1].id \notin ids
    <3>1. OnlyThose(F[m], s, ids, m + 1)
      BY <2>1, <2>4 DEF OnlyThose
    <3>. QED BY <2>1, <2>2, <2>4, <3>1 DEF Step
  <2>. QED BY <2>3, <2>4
<1>9. n \in T
  <2> HIDE DEF T
  <2>1. \A m \in 0..n : m \in T
    BY <1>1, <1>7, <1>8, UpTo
  <2>. QED BY <1>1, <2>1
<1>. QED BY <1>1, <1>2, <1>9

(* What two sequences hold, so does the one made of both.                  *)
LEMMA Joined ==
  ASSUME NEW U, NEW s \in Seq(U), NEW t \in Seq(U)
  PROVE  /\ s \o t \in Seq(U)
         /\ \A x : Holds(s \o t, x) <=> Holds(s, x) \/ Holds(t, x)
         /\ /\ Once(s) /\ Once(t)
            /\ \A i \in DOMAIN s, j \in DOMAIN t : s[i].id # t[j].id
            => Once(s \o t)
<1> DEFINE o == s \o t
           m == Len(s)
           k == Len(t)
<1>1. /\ o \in Seq(U) /\ m \in Nat /\ k \in Nat
      /\ DOMAIN s = 1..m /\ DOMAIN t = 1..k /\ DOMAIN o = 1..(m + k)
      /\ \A i \in 1..m : o[i] = s[i]
      /\ \A i \in 1..k : o[m + i] = t[i]
  OBVIOUS
<1> HIDE DEF o, m, k
<1>2. ASSUME NEW i \in 1..(m + k)
      PROVE  (i \in 1..m /\ o[i] = s[i])
               \/ (i - m \in 1..k /\ i = m + (i - m) /\ o[i] = t[i - m])
  <2>1. CASE i <= m
    BY <1>1, <2>1
  <2>2. CASE i > m
    <3>1. i - m \in 1..k /\ i = m + (i - m)
      BY <1>1, <2>2
    <3>2. o[m + (i - m)] = t[i - m]
      BY <1>1, <3>1
    <3>. QED BY <3>1, <3>2
  <2>. QED BY <1>1, <2>1, <2>2
<1>3. ASSUME NEW x PROVE Holds(o, x) <=> Holds(s, x) \/ Holds(t, x)
  <2>1. \A i \in 1..m : i \in 1..(m + k)
    BY <1>1
  <2>2. \A i \in 1..k : m + i \in 1..(m + k)
    BY <1>1
  <2>3. Holds(s, x) => Holds(o, x)
    BY <1>1, <2>1 DEF Holds
  <2>4. Holds(t, x) => Holds(o, x)
    BY <1>1, <2>2 DEF Holds
  <2>5. ASSUME NEW i \in 1..(m + k), o[i] = x PROVE Holds(s, x) \/ Holds(t, x)
    BY <1>1, <1>2, <2>5 DEF Holds
  <2>6. Holds(o, x) => Holds(s, x) \/ Holds(t, x)
    BY <1>1, <2>5 DEF Holds
  <2>. QED BY <2>3, <2>4, <2>6
<1>4. ASSUME Once(s), Once(t),
             \A i \in DOMAIN s, j \in DOMAIN t : s[i].id # t[j].id
      PROVE  Once(o)
  <2>1. ASSUME NEW i \in 1..(m + k), NEW j \in 1..(m + k), o[i].id = o[j].id
        PROVE  i = j
    <3>1. CASE i \in 1..m /\ o[i] = s[i] /\ j \in 1..m /\ o[j] = s[j]
      BY <1>1, <1>4, <2>1, <3>1 DEF Once
    <3>2. CASE i - m \in 1..k /\ o[i] = t[i - m] /\ j - m \in 1..k /\ o[j] = t[j - m]
      <4>1. i - m = j - m
        BY <1>1, <1>4, <2>1, <3>2 DEF Once
      <4>. QED BY <1>1, <4>1
    <3>3. CASE i \in 1..m /\ o[i] = s[i] /\ j - m \in 1..k /\ o[j] = t[j - m]
      BY <1>1, <1>4, <2>1, <3>3
    <3>4. CASE i - m \in 1..k /\ o[i] = t[i - m] /\ j \in 1..m /\ o[j] = s[j]
      BY <1>1, <1>4, <2>1, <3>4
    <3>. QED BY <1>2, <3>1, <3>2, <3>3, <3>4
  <2>. QED BY <1>1, <2>1 DEF Once
<1>. QED BY <1>1, <1>3, <1>4 DEF o

(* Sequences without an id in common, or twice.                            *)
Apart(ss) ==
  /\ \A i \in DOMAIN ss : Once(ss[i])
  /\ \A i, j \in DOMAIN ss : \A k \in DOMAIN ss[i], l \in DOMAIN ss[j] :
       ss[i][k].id = ss[j][l].id => i = j

(* `o` holds what the first n of the sequences do.                         *)
Gathers(o, ss, n) ==
  /\ \A x : Holds(o, x) <=> \E i \in 1..n : Holds(ss[i], x)
  /\ Apart(ss) => Once(o)

(* One more sequence is gathered.                                          *)
LEMMA OneMoreGathered ==
  ASSUME NEW U, NEW ss \in Seq(Seq(U)), NEW m \in Nat, m + 1 \in 1..Len(ss),
         NEW o \in Seq(U), Gathers(o, ss, m)
  PROVE  o \o ss[m + 1] \in Seq(U) /\ Gathers(o \o ss[m + 1], ss, m + 1)
<1> DEFINE t == ss[m + 1]
           p == o \o t
<1>1. /\ t \in Seq(U) /\ DOMAIN ss = 1..Len(ss) /\ m + 1 \in 1..m + 1
      /\ \A i \in 1..m + 1 : (i \in 1..m \/ i = m + 1)
      /\ \A i \in 1..m : i \in 1..m + 1 /\ i \in DOMAIN ss /\ i # m + 1
  OBVIOUS
<1>t. t = ss[m + 1]
  OBVIOUS
<1> HIDE DEF t
<1>2. /\ p \in Seq(U)
      /\ \A x : Holds(p, x) <=> Holds(o, x) \/ Holds(t, x)
      /\ /\ Once(o) /\ Once(t)
         /\ \A i \in DOMAIN o, j \in DOMAIN t : o[i].id # t[j].id
         => Once(p)
  BY <1>1, Joined
<1> HIDE DEF p
<1>3. ASSUME NEW x PROVE Holds(p, x) <=> \E i \in 1..m + 1 : Holds(ss[i], x)
  <2>1. Holds(o, x) <=> \E i \in 1..m : Holds(ss[i], x)
    BY DEF Gathers
  <2>. QED BY <1>1, <1>2, <1>t, <2>1
<1>4. ASSUME Apart(ss) PROVE Once(p)
  <2>1. Once(o) /\ Once(t)
    BY <1>1, <1>4, <1>t DEF Gathers, Apart
  <2>2. ASSUME NEW i \in DOMAIN o, NEW j \in DOMAIN t PROVE o[i].id # t[j].id
    <3>1. Holds(o, o[i])
      BY DEF Holds
    <3>2. PICK k \in 1..m : Holds(ss[k], o[i])
      BY <3>1 DEF Gathers
    <3>3. PICK l \in DOMAIN ss[k] : ss[k][l] = o[i]
      BY <3>2 DEF Holds
    <3>. QED BY <1>1, <1>4, <1>t, <3>3 DEF Apart
  <2>. QED BY <1>2, <2>1, <2>2
<1>. QED BY <1>2, <1>3, <1>4 DEF Gathers, p, t

(* What a step makes of the one before, named for the provers.             *)
Plus(s, t) == s \o t

(* FlattenSeq gathers what its sequences hold.                             *)
LEMMA FlattenGathers ==
  ASSUME NEW U, NEW ss \in Seq(Seq(U))
  PROVE  FlattenSeq(ss) \in Seq(U) /\ Gathers(FlattenSeq(ss), ss, Len(ss))
<1> DEFINE n == Len(ss)
           Flats(H) == H = [i \in 1..n |-> IF i = 1 THEN ss[i] ELSE H[i - 1] \o ss[i]]
           F == CHOOSE H : Flats(H)
           G == [p \in (1..n) \X Seq(U) |-> p[2] \o ss[p[1]]]
<1>1. n \in Nat /\ n = Len(ss) /\ \A i \in 1..n : ss[i] \in Seq(U)
  OBVIOUS
<1>2. CASE n = 0
  <2>1. FlattenSeq(ss) = <<>> /\ ss = <<>>
    BY <1>2 DEF FlattenSeq
  <2>2. Gathers(<<>>, <<>>, 0)
    <3>1. DOMAIN <<>> = {} /\ 1..0 = {}
      OBVIOUS
    <3>. QED BY <3>1 DEF Gathers, Holds, Once
  <2>3. <<>> \in Seq(U) /\ Len(ss) = 0
    BY <1>2
  <2>. QED BY <2>1, <2>2, <2>3
<1>3. CASE n # 0
  <2>1. FlattenSeq(ss) = F[n]
    BY <1>3 DEF FlattenSeq
  <2>2. G \in [(1..n) \X Seq(U) -> Seq(U)] /\ <<>> \in Seq(U)
    BY <1>1
  <2>3. \A i \in 1..n, o \in Seq(U) : G[<<i, o>>] = o \o ss[i]
    OBVIOUS
  <2>4. \E H : Flats(H)
    <3>1. PICK H \in [0..n -> Seq(U)] : Follows(H, <<>>, G, n)
      <4> HIDE DEF n, G
      <4>. QED BY <1>1, <2>2, Recursion
    <3>2. H[0] = <<>> /\ \A i \in 1..n : H[i] = G[<<i, H[i - 1]>>]
      BY <3>1 DEF Follows
    <3>3. \A i \in 1..n : H[i - 1] \in Seq(U)
      <4>1. \A i \in 1..n : i - 1 \in 0..n
        BY <1>1
      <4>. QED BY <3>1, <4>1
    <3> HIDE DEF G
    <3>4. \A i \in 1..n : H[i] = Plus(H[i - 1], ss[i])
      BY <2>3, <3>2, <3>3 DEF Plus
    <3> DEFINE K == [i \in 1..n |-> H[i]]
    <3>5. 1 \in 1..n /\ K[1] = ss[1]
      <4>1. 1 \in 1..n
        BY <1>1, <1>3
      <4>2. H[1] = H[0] \o ss[1] /\ ss[1] \in Seq(U)
        <5>1. 1 - 1 = 0 /\ H[1] = Plus(H[1 - 1], ss[1])
          BY <3>4, <4>1
        <5>. QED BY <1>1, <4>1, <5>1 DEF Plus
      <4>3. H[0] \o ss[1] = ss[1]
        BY <3>2, <4>2
      <4>4. H[1] = ss[1]
        BY <4>2, <4>3
      <4>. QED BY <4>1, <4>4
    <3>6. ASSUME NEW i \in 1..n, i # 1 PROVE K[i] = K[i - 1] \o ss[i]
      <4>1. i - 1 \in 1..n
        BY <1>1, <3>6
      <4>. QED BY <3>4, <4>1 DEF Plus
    <3>k. K = [i \in 1..n |-> K[i]]
      OBVIOUS
    <3> HIDE DEF K
    <3>7. \A i \in 1..n : K[i] = IF i = 1 THEN ss[i] ELSE K[i - 1] \o ss[i]
      BY <3>5, <3>6
    <3>8. K = [i \in 1..n |-> IF i = 1 THEN ss[i] ELSE K[i - 1] \o ss[i]]
      BY <3>k, <3>7
    <3>. QED BY <3>8
  <2>5. F = [i \in 1..n |-> IF i = 1 THEN ss[i] ELSE F[i - 1] \o ss[i]]
    <3>1. Flats(F)
      BY <2>4
    <3> HIDE DEF F
    <3>. QED BY <3>1
  <2> HIDE DEF F, G, n, Flats
  <2>6. F[1] = ss[1] /\ \A i \in 1..n : i # 1 => F[i] = Plus(F[i - 1], ss[i])
    <3>1. 1 \in 1..n
      BY <1>1, <1>3
    <3>2. \A i \in 1..n : F[i] = IF i = 1 THEN ss[i] ELSE F[i - 1] \o ss[i]
      BY <2>5
    <3>. QED BY <3>1, <3>2 DEF Plus
  <2> DEFINE T == {m \in 0..n : m = 0 \/ (F[m] \in Seq(U) /\ Gathers(F[m], ss, m))}
  <2>7. 0 \in T
    BY <1>1
  <2>8. ASSUME NEW m \in 0..n, m \in T, m < n PROVE m + 1 \in T
    <3>1. m + 1 \in 0..n /\ m + 1 \in 1..n /\ m \in Nat /\ m + 1 - 1 = m
      BY <1>1, <2>8
    <3>2. CASE m = 0
      <4>1. F[1] = ss[1] /\ ss[1] \in Seq(U) /\ 1..1 = {1} /\ 1 \in DOMAIN ss
        BY <1>1, <2>6, <3>1, <3>2
      <4>2. Gathers(ss[1], ss, 1)
        BY <4>1 DEF Gathers, Apart
      <4>. QED BY <3>1, <3>2, <4>1, <4>2
    <3>3. CASE m # 0
      <4>1. F[m] \in Seq(U) /\ Gathers(F[m], ss, m)
        BY <2>8, <3>3
      <4>2. F[m + 1] = F[m] \o ss[m + 1]
        <5>1. m + 1 # 1
          BY <3>1, <3>3
        <5>2. F[m + 1] = Plus(F[m + 1 - 1], ss[m + 1])
          BY <2>6, <3>1, <5>1
        <5>. QED BY <3>1, <5>2 DEF Plus
      <4>3. F[m] \o ss[m + 1] \in Seq(U) /\ Gathers(F[m] \o ss[m + 1], ss, m + 1)
        BY <1>1, <3>1, <4>1, OneMoreGathered
      <4>. QED BY <3>1, <4>2, <4>3
    <3>. QED BY <3>2, <3>3
  <2>9. n \in T
    <3> HIDE DEF T
    <3>1. \A m \in 0..n : m \in T
      BY <1>1, <2>7, <2>8, UpTo
    <3>. QED BY <1>1, <3>1
  <2>. QED BY <1>1, <1>3, <2>1, <2>9
<1>. QED BY <1>2, <1>3

-----------------------------------------------------------------------------
(* The projector's row operations: each leaves rows of their types, none   *)
(* twice, and none but those that say so touches the run.                  *)

Clean(t) == t \in Thread /\ Once(t.rows)

(* A thread is its rows, its run and the row that run writes.              *)
LEMMA Fields ==
  ASSUME NEW t \in Thread
  PROVE  /\ t.rows \in Seq(Row) /\ t.exec \in Status /\ t.active \in RowId \cup {None}
         /\ DOMAIN t.rows = 1..Len(t.rows) /\ Len(t.rows) \in Nat
         /\ \A r : [t EXCEPT !.rows = r] = [rows |-> r, exec |-> t.exec, active |-> t.active]
         /\ \A x : [t EXCEPT !.exec = x] = [rows |-> t.rows, exec |-> x, active |-> t.active]
         /\ \A a : [t EXCEPT !.active = a] = [rows |-> t.rows, exec |-> t.exec, active |-> a]
<1> HIDE DEF RowId
<1>1. t = [rows |-> t.rows, exec |-> t.exec, active |-> t.active]
      /\ t.rows \in Seq(Row) /\ t.exec \in Status /\ t.active \in RowId \cup {None}
  BY DEF Thread
<1>. QED BY <1>1

(* And of those three a thread is made.                                    *)
LEMMA Makes ==
  ASSUME NEW rows \in Seq(Row), Once(rows), NEW exec \in Status,
         NEW active \in RowId \cup {None}
  PROVE  Clean([rows |-> rows, exec |-> exec, active |-> active])
BY DEF Clean, Thread

(* So is it with other rows.                                               *)
LEMMA OtherRows ==
  ASSUME NEW t, Clean(t), NEW rows \in Seq(Row), Once(rows)
  PROVE  /\ Clean([t EXCEPT !.rows = rows])
         /\ [t EXCEPT !.rows = rows].exec = t.exec
         /\ [t EXCEPT !.rows = rows].rows = rows
<1>1. t \in Thread
  BY DEF Clean
<1>2. [t EXCEPT !.rows = rows] = [rows |-> rows, exec |-> t.exec, active |-> t.active]
      /\ t.exec \in Status /\ t.active \in RowId \cup {None}
  BY <1>1, Fields
<1>3. Clean([rows |-> rows, exec |-> t.exec, active |-> t.active])
  BY <1>2, Makes
<1>. QED BY <1>2, <1>3

(* What a row is.                                                          *)
LEMMA Rows ==
  /\ \A r \in Row : r.id \in RowId /\ r.parts \in Nat
  /\ \A id \in RowId, k \in Nat : [id |-> id, parts |-> k] \in Row
  /\ \A n \in Turn : User(n) \in RowId /\ Reply(n) \in RowId
  /\ \A p \in Prompt : Local(p) \in RowId
  /\ Host \in RowId
BY DEF Row, RowId, User, Reply, Local, Host

(* What rows are replaced by, place for place, are rows again.             *)
LEMMA InPlace ==
  ASSUME NEW s \in Seq(Row), NEW f \in [DOMAIN s -> Row]
  PROVE  f \in Seq(Row) /\ DOMAIN f = DOMAIN s
OBVIOUS

(* A row more, of an id that is not there.                                 *)
LEMMA RowMore ==
  ASSUME NEW s \in Seq(Row), Once(s), NEW r \in Row,
         \A i \in DOMAIN s : s[i].id # r.id
  PROVE  Append(s, r) \in Seq(Row) /\ Once(Append(s, r))
<1> DEFINE p == Append(s, r)
<1>1. /\ p \in Seq(Row) /\ DOMAIN s = 1..Len(s) /\ Len(s) \in Nat
      /\ DOMAIN p = 1..(Len(s) + 1) /\ p[Len(s) + 1] = r
      /\ \A j \in 1..Len(s) : p[j] = s[j]
  BY Appended
<1> HIDE DEF p
<1>2. ASSUME NEW i \in DOMAIN p, NEW j \in DOMAIN p, p[i].id = p[j].id PROVE i = j
  <2>1. /\ i = Len(s) + 1 \/ (i \in 1..Len(s) /\ p[i] = s[i])
        /\ j = Len(s) + 1 \/ (j \in 1..Len(s) /\ p[j] = s[j])
    BY <1>1
  <2>. QED BY <1>1, <1>2, <2>1 DEF Once
<1>3. p \in Seq(Row) /\ Once(p)
  BY <1>1, <1>2 DEF Once
<1>. QED BY <1>3 DEF p

(* onMessage for a reply.                                                  *)
LEMMA Grows ==
  ASSUME NEW t, Clean(t), NEW id \in RowId, NEW k \in Nat
  PROVE  Clean(Grow(t, id, k)) /\ Grow(t, id, k).exec = t.exec
<1>1. /\ t \in Thread /\ Once(t.rows) /\ t.rows \in Seq(Row) /\ t.exec \in Status
      /\ t.active \in RowId \cup {None}
      /\ DOMAIN t.rows = 1..Len(t.rows) /\ \A i \in DOMAIN t.rows : t.rows[i] \in Row
  BY Fields DEF Clean
<1> DEFINE s == t.rows
           grown == [i \in DOMAIN s |->
                       IF s[i].id = id THEN [id |-> id, parts |-> s[i].parts + k] ELSE s[i]]
           over == [i \in DOMAIN s |->
                      IF s[i].id = Host THEN [id |-> id, parts |-> k] ELSE s[i]]
           more == Append(s, [id |-> id, parts |-> k])
           active == IF t.exec = "running" \/ (TakesHost(t) /\ t.active = Host)
                     THEN id ELSE t.active
<1>s. s = t.rows
  OBVIOUS
<1>2. CASE id \in Ids(t)
  <2>1. Grow(t, id, k) = [t EXCEPT !.rows = grown]
    BY <1>2 DEF Grow
  <2>2. ASSUME NEW i \in DOMAIN s PROVE grown[i] \in Row /\ grown[i].id = s[i].id
    <3>1. s[i] \in Row /\ s[i].parts + k \in Nat
      BY <1>1, Rows
    <3>. QED BY <3>1, Rows
  <2>3. grown \in [DOMAIN s -> Row]
    BY <2>2
  <2> HIDE DEF grown, s
  <2>4. grown \in Seq(Row) /\ DOMAIN grown = DOMAIN s
    BY <1>1, <1>s, <2>3, InPlace
  <2>5. Once(grown)
    BY <1>1, <1>s, <2>2, <2>4 DEF Once
  <2>. QED BY <2>1, <2>4, <2>5, OtherRows
<1>3. CASE id \notin Ids(t)
  <2>1. Grow(t, id, k) = [rows |-> IF TakesHost(t) THEN over ELSE more,
                          exec |-> t.exec, active |-> active]
    BY <1>3 DEF Grow
  <2>2. [id |-> id, parts |-> k] \in Row /\ active \in RowId \cup {None}
    BY <1>1, Rows
  <2>3. \A i \in DOMAIN s : s[i].id # id
    BY <1>3 DEF Ids
  <2>4. more \in Seq(Row) /\ Once(more)
    BY <1>1, <2>2, <2>3, RowMore
  <2>5. ASSUME NEW i \in DOMAIN s
        PROVE  over[i] \in Row /\ over[i].id = IF s[i].id = Host THEN id ELSE s[i].id
    BY <1>1, <2>2
  <2>6. over \in [DOMAIN s -> Row]
    BY <2>5
  <2> HIDE DEF over, more, s, active
  <2>7. over \in Seq(Row) /\ DOMAIN over = DOMAIN s
    BY <1>1, <1>s, <2>6, InPlace
  <2>8. Once(over)
    <3>1. ASSUME NEW i \in DOMAIN s, NEW j \in DOMAIN s, over[i].id = over[j].id
          PROVE  i = j
      <4>1. s[i].id = s[j].id
        BY <2>3, <2>5, <3>1
      <4>. QED BY <1>1, <1>s, <4>1 DEF Once
    <3>. QED BY <2>7, <3>1 DEF Once
  <2>9. CASE TakesHost(t)
    <3>1. Clean([rows |-> over, exec |-> t.exec, active |-> active])
      BY <1>1, <2>2, <2>7, <2>8, Makes
    <3>. QED BY <2>1, <2>9, <3>1
  <2>10. CASE ~TakesHost(t)
    <3>1. Clean([rows |-> more, exec |-> t.exec, active |-> active])
      BY <1>1, <2>2, <2>4, Makes
    <3>. QED BY <2>1, <2>10, <3>1
  <2>. QED BY <2>9, <2>10
<1>. QED BY <1>2, <1>3

(* onMessage for a prompt.                                                 *)
LEMMA Echoes ==
  ASSUME NEW t, Clean(t), NEW id \in RowId
  PROVE  Clean(Echo(t, id)) /\ Echo(t, id).exec = t.exec
<1>1. t \in Thread /\ Once(t.rows) /\ t.rows \in Seq(Row)
  BY Fields DEF Clean
<1>2. [id |-> id, parts |-> 1] \in Row
  BY Rows
<1>3. CASE id \in Ids(t)
  BY <1>3 DEF Echo
<1>4. CASE id \notin Ids(t)
  <2> DEFINE more == Append(t.rows, [id |-> id, parts |-> 1])
  <2>1. \A i \in DOMAIN t.rows : t.rows[i].id # id
    BY <1>4 DEF Ids
  <2>2. more \in Seq(Row) /\ Once(more)
    BY <1>1, <1>2, <2>1, RowMore
  <2>3. Echo(t, id) = [t EXCEPT !.rows = more]
    BY <1>4 DEF Echo
  <2> HIDE DEF more
  <2>. QED BY <2>2, <2>3, OtherRows
<1>. QED BY <1>3, <1>4

(* applyState: resumed and applyIdle.                                      *)
LEMMA Settles ==
  ASSUME NEW t, Clean(t)
  PROVE  /\ Clean(Resumed(t))
         /\ \A x \in Status : Clean(Idle(t, x)) /\ Idle(t, x).exec = x
         /\ Clean([t EXCEPT !.exec = "running"])
         /\ Clean([t EXCEPT !.active = None]) /\ [t EXCEPT !.active = None].exec = t.exec
<1>1. /\ t \in Thread /\ Once(t.rows) /\ t.rows \in Seq(Row) /\ t.exec \in Status
      /\ t.active \in RowId \cup {None} /\ None \in RowId \cup {None}
  BY Fields DEF Clean
<1>2. "running" \in Status
  BY DEF Status
<1>3. Clean(Resumed(t))
  <2> DEFINE active == IF /\ t.exec # "running" /\ LiveRow(t) = None
                          /\ t.rows # <<>> /\ IsReply(Last(t.rows))
                       THEN Last(t.rows).id ELSE t.active
  <2>1. active \in RowId \cup {None}
    <3>1. CASE t.rows # <<>>
      <4>1. t.rows[Len(t.rows)] \in Row
        BY <1>1, <3>1
      <4>. QED BY <1>1, <4>1, Rows DEF Last
    <3>2. CASE t.rows = <<>>
      BY <1>1, <3>2
    <3>. QED BY <3>1, <3>2
  <2>2. Resumed(t) = [rows |-> t.rows, exec |-> "running", active |-> active]
    BY DEF Resumed
  <2> HIDE DEF active
  <2>3. Clean([rows |-> t.rows, exec |-> "running", active |-> active])
    BY <1>1, <1>2, <2>1, Makes
  <2>. QED BY <2>2, <2>3
<1>4. ASSUME NEW x \in Status PROVE Clean(Idle(t, x)) /\ Idle(t, x).exec = x
  <2>1. Clean([rows |-> t.rows, exec |-> x, active |-> None])
    BY <1>1, Makes
  <2>. QED BY <2>1 DEF Idle
<1>5. Clean([t EXCEPT !.exec = "running"])
  <2>1. [t EXCEPT !.exec = "running"]
          = [rows |-> t.rows, exec |-> "running", active |-> t.active]
    BY <1>1, Fields
  <2>2. Clean([rows |-> t.rows, exec |-> "running", active |-> t.active])
    BY <1>1, <1>2, Makes
  <2>. QED BY <2>1, <2>2
<1>6. Clean([t EXCEPT !.active = None]) /\ [t EXCEPT !.active = None].exec = t.exec
  <2>1. [t EXCEPT !.active = None] = [rows |-> t.rows, exec |-> t.exec, active |-> None]
    BY <1>1, Fields
  <2>2. Clean([rows |-> t.rows, exec |-> t.exec, active |-> None])
    BY <1>1, Makes
  <2>. QED BY <2>1, <2>2
<1>. QED BY <1>3, <1>4, <1>5, <1>6

(* applyState and onMessage.                                               *)
LEMMA Applies ==
  ASSUME NEW t, Clean(t), NEW e \in Event, e.kind \in Updates
  PROVE  Clean(Applied(t, e))
<1>1. e.kind \in {"user", "part"} => e.n \in Turn
  BY DEF Event
<1>2. CASE e.kind = "user"
  <2>1. User(e.n) \in RowId
    BY <1>1, <1>2, Rows
  <2>. QED BY <1>2, <2>1, Echoes DEF Applied
<1>3. CASE e.kind = "part"
  <2>1. Reply(e.n) \in RowId /\ 1 \in Nat
    BY <1>1, <1>3, Rows
  <2>2. Clean(Grow(t, Reply(e.n), 1))
    BY <2>1, Grows
  <2>. QED BY <1>3, <2>2 DEF Applied
<1>4. CASE e.kind = "running"
  <2>1. Clean([t EXCEPT !.exec = "running"])
    BY Settles
  <2>. QED BY <1>4, <2>1 DEF Applied
<1>5. CASE e.kind = "restated"
  <2>1. Clean(Resumed(t))
    BY Settles
  <2>. QED BY <1>5, <2>1 DEF Applied
<1>6. CASE e.kind \in {"idle", "failed"}
  <2>1. Clean(Idle(t, e.kind))
    BY <1>6, Settles DEF Status
  <2>. QED BY <1>6, <2>1 DEF Applied
<1>. QED BY <1>2, <1>3, <1>4, <1>5, <1>6 DEF Updates

(* retainMessages and clearTranscript.                                     *)
LEMMA Drops ==
  ASSUME NEW t, Clean(t), NEW ids
  PROVE  /\ Clean(Without(t, ids)) /\ Without(t, ids).exec = t.exec
         /\ Clean(Cleared(t, ids)) /\ Cleared(t, ids).exec = t.exec
<1>1. t \in Thread /\ Once(t.rows) /\ t.rows \in Seq(Row)
  BY Fields DEF Clean
<1>2. Only(t.rows, RowId \ ids) \in Seq(Row) /\ Once(Only(t.rows, RowId \ ids))
  <2> DEFINE S == RowId \ ids
  <2> HIDE DEF S
  <2>1. Only(t.rows, S) \in Seq(Row)
        /\ OnlyThose(Only(t.rows, S), t.rows, S, Len(t.rows))
    BY <1>1, OnlyIsOnly
  <2>2. Once(Only(t.rows, S))
    BY <1>1, <2>1 DEF OnlyThose
  <2>. QED BY <2>1, <2>2 DEF S
<1>3. Clean(Without(t, ids)) /\ Without(t, ids).exec = t.exec
  BY <1>2, OtherRows DEF Without
<1>4. Clean([Without(t, ids) EXCEPT !.active = None])
      /\ [Without(t, ids) EXCEPT !.active = None].exec = t.exec
  BY <1>3, Settles
<1>. QED BY <1>3, <1>4 DEF Cleared

(* failLatestTurn and failSession.                                         *)
LEMMA Fails ==
  ASSUME NEW t, Clean(t)
  PROVE  /\ Clean(FailLatest(t)) /\ FailLatest(t).exec = t.exec
         /\ Clean(FailSession(t)) /\ FailSession(t).exec = "failed"
<1>1. ASSUME NEW u, Clean(u) PROVE Clean(FailLatest(u)) /\ FailLatest(u).exec = u.exec
  <2>1. Clean(Grow(u, Host, 0)) /\ Grow(u, Host, 0).exec = u.exec
    BY <1>1, Rows, Grows
  <2>. QED BY <1>1, <2>1 DEF FailLatest
<1>2. Clean(Idle(t, "failed")) /\ Idle(t, "failed").exec = "failed"
  BY Settles DEF Status
<1>. QED BY <1>1, <1>2 DEF FailSession

(* Part of a sequence of rows.                                             *)
LEMMA PartOf ==
  ASSUME NEW U, NEW s \in Seq(U), NEW a \in 1..(Len(s) + 1), NEW b \in 0..Len(s)
  PROVE  /\ SubSeq(s, a, b) \in Seq(U)
         /\ \A i \in DOMAIN SubSeq(s, a, b) :
              a + i - 1 \in a..b /\ SubSeq(s, a, b)[i] = s[a + i - 1]
         /\ Once(s) => Once(SubSeq(s, a, b))
<1> DEFINE o == SubSeq(s, a, b)
<1>1. /\ o \in Seq(U) /\ DOMAIN s = 1..Len(s) /\ Len(s) \in Nat
      /\ \A i \in DOMAIN o :
           /\ i \in Nat /\ i >= 1 /\ a + i - 1 \in a..b
           /\ o[i] = s[a + i - 1]
  OBVIOUS
<1>2. ASSUME Once(s) PROVE Once(o)
  <2> HIDE DEF o
  <2>1. ASSUME NEW i \in DOMAIN o, NEW j \in DOMAIN o, o[i].id = o[j].id PROVE i = j
    <3>1. a + i - 1 \in DOMAIN s /\ a + j - 1 \in DOMAIN s
      BY <1>1
    <3>2. a + i - 1 = a + j - 1
      BY <1>1, <1>2, <2>1, <3>1 DEF Once
    <3>. QED BY <1>1, <3>2
  <2>. QED BY <2>1 DEF Once
<1>. QED BY <1>1, <1>2

(* rewound: what comes before the replaced turn, and the prompt.           *)
LEMMA Rewinds ==
  ASSUME NEW t, Clean(t), NEW from \in {0} \cup Turn, NEW p \in Prompt
  PROVE  Clean(Rewound(t, from, p)) /\ Rewound(t, from, p).exec = t.exec
<1>1. t \in Thread /\ Once(t.rows) /\ t.rows \in Seq(Row)
      /\ DOMAIN t.rows = 1..Len(t.rows) /\ Len(t.rows) \in Nat
  BY Fields DEF Clean
<1>2. CASE from = 0 \/ User(from) \notin Ids(t)
  BY <1>2 DEF Rewound
<1>3. CASE ~(from = 0 \/ User(from) \notin Ids(t))
  <2> DEFINE at == CHOOSE i \in DOMAIN t.rows : t.rows[i].id = User(from)
             s == t.rows
             before == SubSeq(s, 1, at - 1)
             after == SubSeq(s, at, Len(s))
             kept == Only(after, {Local(p)})
  <2>s. s = t.rows
    OBVIOUS
  <2>1. at \in 1..Len(s)
    BY <1>1, <1>3 DEF Ids
  <2>2. Rewound(t, from, p) = [t EXCEPT !.rows = before \o kept]
    BY <1>3 DEF Rewound
  <2> HIDE DEF at, s
  <2>3. /\ at \in 1..(Len(s) + 1) /\ at - 1 \in 0..Len(s)
        /\ 1 \in 1..(Len(s) + 1) /\ Len(s) \in 0..Len(s)
    BY <1>1, <2>1, <2>s
  <2>4. /\ before \in Seq(Row) /\ Once(before)
        /\ \A i \in DOMAIN before : \E k \in 1..at - 1 : before[i] = s[k]
    <3>1. /\ before \in Seq(Row) /\ Once(before)
          /\ \A i \in DOMAIN before :
               1 + i - 1 \in 1..at - 1 /\ before[i] = s[1 + i - 1]
      BY <1>1, <2>s, <2>3, PartOf
    <3>. QED BY <3>1
  <2>5. /\ after \in Seq(Row) /\ Once(after)
        /\ \A i \in DOMAIN after : \E k \in at..Len(s) : after[i] = s[k]
    <3>1. /\ after \in Seq(Row) /\ Once(after)
          /\ \A i \in DOMAIN after :
               at + i - 1 \in at..Len(s) /\ after[i] = s[at + i - 1]
      BY <1>1, <2>s, <2>3, PartOf
    <3>. QED BY <3>1
  <2> HIDE DEF before, after
  <2>6. kept \in Seq(Row) /\ OnlyThose(kept, after, {Local(p)}, Len(after))
    BY <2>5, OnlyIsOnly
  <2> HIDE DEF kept
  <2>7. Once(kept) /\ \A j \in DOMAIN kept : \E k \in at..Len(s) : kept[j] = s[k]
    <3>1. ASSUME NEW j \in DOMAIN kept PROVE \E k \in at..Len(s) : kept[j] = s[k]
      <4>1. PICK i \in 1..Len(after) : kept[j] = after[i]
        BY <2>6 DEF OnlyThose
      <4>2. i \in DOMAIN after
        BY <2>5
      <4>. QED BY <2>5, <4>1, <4>2
    <3>. QED BY <2>5, <2>6, <3>1 DEF OnlyThose
  <2>8. ASSUME NEW i \in DOMAIN before, NEW j \in DOMAIN kept
        PROVE  before[i].id # kept[j].id
    <3>1. PICK k \in 1..at - 1 : before[i] = s[k]
      BY <2>4
    <3>2. PICK l \in at..Len(s) : kept[j] = s[l]
      BY <2>7
    <3>3. k \in DOMAIN s /\ l \in DOMAIN s /\ k # l
      BY <1>1, <2>s, <2>1
    <3>. QED BY <1>1, <2>s, <3>1, <3>2, <3>3 DEF Once
  <2>9. before \o kept \in Seq(Row) /\ Once(before \o kept)
    BY <2>4, <2>6, <2>7, <2>8, Joined
  <2> DEFINE rows == before \o kept
  <2>10. rows \in Seq(Row) /\ Once(rows) /\ Rewound(t, from, p) = [t EXCEPT !.rows = rows]
    BY <2>2, <2>9
  <2> HIDE DEF rows
  <2>. QED BY <2>10, OtherRows
<1>. QED BY <1>2, <1>3

(* renameMessage.                                                          *)
LEMMA Renames ==
  ASSUME NEW t, Clean(t), NEW p \in Prompt, NEW n \in Turn
  PROVE  Clean(Renamed(t, p, n)) /\ Renamed(t, p, n).exec = t.exec
<1>1. /\ t \in Thread /\ Once(t.rows) /\ t.rows \in Seq(Row)
      /\ DOMAIN t.rows = 1..Len(t.rows) /\ \A i \in DOMAIN t.rows : t.rows[i] \in Row
  BY Fields DEF Clean
<1>2. CASE User(n) \in Ids(t)
  BY <1>2, Drops DEF Renamed
<1>3. CASE User(n) \notin Ids(t)
  <2> DEFINE s == t.rows
             over == [i \in DOMAIN s |->
                        IF s[i].id = Local(p) THEN [id |-> User(n), parts |-> 1] ELSE s[i]]
  <2>s. s = t.rows
    OBVIOUS
  <2>1. Renamed(t, p, n) = [t EXCEPT !.rows = over]
    BY <1>3 DEF Renamed
  <2>2. [id |-> User(n), parts |-> 1] \in Row
    BY Rows
  <2>3. \A i \in DOMAIN s : s[i].id # User(n)
    BY <1>3 DEF Ids
  <2>4. ASSUME NEW i \in DOMAIN s
        PROVE  /\ over[i] \in Row
               /\ over[i].id = IF s[i].id = Local(p) THEN User(n) ELSE s[i].id
    BY <1>1, <2>2
  <2>5. over \in [DOMAIN s -> Row]
    BY <2>4
  <2> HIDE DEF over, s
  <2>6. over \in Seq(Row) /\ DOMAIN over = DOMAIN s
    BY <1>1, <2>s, <2>5, InPlace
  <2>7. ASSUME NEW i \in DOMAIN s, NEW j \in DOMAIN s, over[i].id = over[j].id
        PROVE  i = j
    <3>1. s[i].id = s[j].id
      BY <2>3, <2>4, <2>7
    <3>. QED BY <1>1, <2>s, <3>1 DEF Once
  <2>8. Once(over)
    BY <2>6, <2>7 DEF Once
  <2>. QED BY <2>1, <2>6, <2>8, OtherRows
<1>. QED BY <1>2, <1>3

(* A turn's rows are its prompt's and, once it has parts, its reply's.     *)
LEMMA TurnRowsAre ==
  ASSUME NEW x \in Held
  PROVE  /\ TurnRows(x) \in Seq(Row) /\ Once(TurnRows(x))
         /\ \A i \in DOMAIN TurnRows(x) : TurnRows(x)[i].id \in {User(x.id), Reply(x.id)}
<1> DEFINE a == [id |-> User(x.id), parts |-> 1]
           b == [id |-> Reply(x.id), parts |-> x.parts]
<1>1. x.id \in Turn /\ x.parts \in Nat
  BY DEF Held
<1>2. a \in Row /\ b \in Row /\ a.id = User(x.id) /\ b.id = Reply(x.id)
  BY <1>1, Rows
<1>3. User(x.id) # Reply(x.id)
  BY DEF User, Reply
<1>4. TurnRows(x) = <<a>> \o IF x.parts = 0 THEN <<>> ELSE <<b>>
  BY DEF TurnRows
<1> DEFINE rest == IF x.parts = 0 THEN <<>> ELSE <<b>>
<1>5. rest \in Seq(Row) /\ \A i, j \in DOMAIN rest : rest[i].id = Reply(x.id) /\ i = j
  BY <1>2
<1>6. <<a>> \in Seq(Row) /\ \A i, j \in DOMAIN <<a>> : <<a>>[i].id = User(x.id) /\ i = j
  BY <1>2
<1> HIDE DEF a, b, rest
<1>7. /\ <<a>> \o rest \in Seq(Row) /\ Once(<<a>> \o rest)
      /\ \A y : Holds(<<a>> \o rest, y) <=> Holds(<<a>>, y) \/ Holds(rest, y)
  <2>1. Once(<<a>>) /\ Once(rest)
    BY <1>5, <1>6 DEF Once
  <2>2. \A i \in DOMAIN <<a>>, j \in DOMAIN rest : <<a>>[i].id # rest[j].id
    BY <1>3, <1>5, <1>6
  <2>. QED BY <1>5, <1>6, <2>1, <2>2, Joined
<1>8. TurnRows(x) = <<a>> \o rest
  BY <1>4 DEF rest
<1>9. ASSUME NEW i \in DOMAIN TurnRows(x)
      PROVE  TurnRows(x)[i].id \in {User(x.id), Reply(x.id)}
  <2>1. Holds(TurnRows(x), TurnRows(x)[i])
    BY DEF Holds
  <2>2. Holds(<<a>>, TurnRows(x)[i]) \/ Holds(rest, TurnRows(x)[i])
    BY <1>7, <1>8, <2>1
  <2>. QED BY <1>5, <1>6, <2>2 DEF Holds
<1>. QED BY <1>7, <1>8, <1>9

(* Turns that are not there twice make no row twice.                       *)
LEMMA RowsOfTurns ==
  ASSUME NEW ss \in Seq(Held)
  PROVE  RowsOf(ss) \in Seq(Row) /\ (Once(ss) => Once(RowsOf(ss)))
<1> DEFINE tt == [i \in DOMAIN ss |-> TurnRows(ss[i])]
<1>1. \A i \in DOMAIN ss : ss[i] \in Held
  OBVIOUS
<1>2. \A i \in DOMAIN ss :
        /\ TurnRows(ss[i]) \in Seq(Row) /\ Once(TurnRows(ss[i]))
        /\ \A k \in DOMAIN TurnRows(ss[i]) :
             TurnRows(ss[i])[k].id \in {User(ss[i].id), Reply(ss[i].id)}
  BY <1>1, TurnRowsAre
<1>3. tt \in Seq(Seq(Row)) /\ DOMAIN tt = DOMAIN ss
      /\ \A i \in DOMAIN ss : tt[i] = TurnRows(ss[i])
  BY <1>2
<1>4. RowsOf(ss) = FlattenSeq(tt)
  BY DEF RowsOf
<1> HIDE DEF tt
<1>5. FlattenSeq(tt) \in Seq(Row) /\ (Apart(tt) => Once(FlattenSeq(tt)))
  BY <1>3, FlattenGathers DEF Gathers
<1>6. ASSUME Once(ss) PROVE Apart(tt)
  <2>1. ASSUME NEW i \in DOMAIN tt, NEW j \in DOMAIN tt,
               NEW k \in DOMAIN tt[i], NEW l \in DOMAIN tt[j], tt[i][k].id = tt[j][l].id
        PROVE  i = j
    <3>1. /\ tt[i][k].id \in {User(ss[i].id), Reply(ss[i].id)}
          /\ tt[j][l].id \in {User(ss[j].id), Reply(ss[j].id)}
      BY <1>2, <1>3
    <3>2. ss[i].id = ss[j].id
      BY <2>1, <3>1 DEF User, Reply
    <3>. QED BY <1>3, <1>6, <3>2 DEF Once
  <2>. QED BY <1>2, <1>3, <2>1 DEF Apart
<1>. QED BY <1>4, <1>5, <1>6

(* prependMessages.                                                        *)
LEMMA Prepends ==
  ASSUME NEW t, Clean(t), NEW page \in Seq(Held), Once(page)
  PROVE  Clean(Prepended(t, page)) /\ Prepended(t, page).exec = t.exec
<1> DEFINE new == RowsOf(page)
           ids == RowId \ Ids(t)
           kept == Only(new, ids)
           rows == kept \o t.rows
<1>1. t \in Thread /\ Once(t.rows) /\ t.rows \in Seq(Row)
  BY Fields DEF Clean
<1>2. new \in Seq(Row) /\ Once(new)
  BY RowsOfTurns
<1>i. \A i \in DOMAIN t.rows : t.rows[i].id \notin ids
  BY DEF Ids
<1>3. Prepended(t, page) = [t EXCEPT !.rows = rows]
  BY DEF Prepended
<1> HIDE DEF new, ids
<1>4. kept \in Seq(Row) /\ OnlyThose(kept, new, ids, Len(new))
  BY <1>2, OnlyIsOnly
<1> HIDE DEF kept
<1>5. Once(kept) /\ \A j \in DOMAIN kept : kept[j].id \in ids
  BY <1>2, <1>4 DEF OnlyThose
<1>6. \A i \in DOMAIN kept, j \in DOMAIN t.rows : kept[i].id # t.rows[j].id
  BY <1>5, <1>i
<1>7. rows \in Seq(Row) /\ Once(rows)
  BY <1>1, <1>4, <1>5, <1>6, Joined
<1> HIDE DEF rows
<1>. QED BY <1>3, <1>7, OtherRows

-----------------------------------------------------------------------------
(* The provider's turns.                                                   *)

(* Turns are numbered as they begin, the one under way comes last, and no  *)
(* turn is held twice.                                                     *)
TurnsStand ==
  /\ Once(store) /\ \A i \in DOMAIN store : store[i].id <= turns
  /\ Once(undo) /\ \A i \in DOMAIN undo : undo[i].id <= turns
  /\ live # 0 => store # <<>> /\ Last(store).id = live /\ live = turns
  /\ running => live # 0

(* As many turns began as prompts were taken.                              *)
Began == {"accepted", "kept", "lost", "doubt"}
Taken == {p \in Prompt : prompts[p].turn # 0}
Counted ==
  /\ turns = History + Cardinality(Taken)
  /\ \A p \in Prompt : /\ prompts[p].phase \in {"none", "sent"} => prompts[p].turn = 0
                       /\ prompts[p].phase \in Began => prompts[p].turn # 0

ProviderInv == ProviderTypes /\ TurnsStand /\ Counted

Phase == Over \cup {"sent", "accepted", "refused", "lost"}
PromptState == [phase : Phase, turn : {0} \cup Turn, from : {0} \cup Turn]

(* The phase of a prompt moves on, and no turn begins.                     *)
MovesOn(p) ==
  /\ prompts'[p].turn = prompts[p].turn
  /\ prompts'[p].phase \in {"none", "sent"} => prompts[p].phase \in {"none", "sent"}
  /\ prompts'[p].phase \in Began => prompts[p].phase \in Began

(* No turn begins where prompts only move on.                              *)
LEMMA PromptMoves ==
  ASSUME ProviderTypes, Counted, prompts' \in [Prompt -> PromptState],
         \A p \in Prompt : MovesOn(p), turns' = turns
  PROVE  Counted'
<1>1. Taken' = Taken
  BY DEF Taken, MovesOn
<1>. QED BY <1>1 DEF Counted, MovesOn

(* A prompt's phase alone.                                                 *)
LEMMA PhaseMoves ==
  ASSUME prompts \in [Prompt -> PromptState], NEW p \in Prompt, NEW x \in Phase
  PROVE  LET moved == [prompts EXCEPT ![p].phase = x] IN
         /\ moved \in [Prompt -> PromptState]
         /\ moved[p] = [phase |-> x, turn |-> prompts[p].turn, from |-> prompts[p].from]
         /\ \A q \in Prompt : q # p => moved[q] = prompts[q]
BY DEF PromptState

(* What a prompt taken begins.                                             *)
LEMMA TakeTurns ==
  ASSUME ProviderTypes, Counted, NEW p \in Prompt, prompts[p].phase = "sent"
  PROVE  /\ turns + 1 \in Turn /\ p \notin Taken
         /\ Cardinality(Taken \cup {p}) = Cardinality(Taken) + 1
<1>1. History \in Nat /\ MaxPrompts \in Nat
  BY ThreadAssumption
<1>2. p \notin Taken
  BY DEF Counted, Taken
<1>3. IsFiniteSet(Prompt) /\ Cardinality(Prompt) = MaxPrompts
  BY <1>1, FS_Interval DEF Prompt
<1>4. IsFiniteSet(Taken)
  <2>1. Taken \in SUBSET Prompt
    BY DEF Taken
  <2>. QED BY <1>3, <2>1, FS_Subset
<1>5. Cardinality(Taken) \in Nat
  BY <1>4, FS_CardinalityType
<1>6. /\ IsFiniteSet(Taken \cup {p})
      /\ Cardinality(Taken \cup {p})
           = IF p \in Taken THEN Cardinality(Taken) ELSE Cardinality(Taken) + 1
  BY <1>4, FS_AddElement
<1>7. Cardinality(Taken \cup {p}) <= Cardinality(Prompt)
  <2>1. Taken \cup {p} \in SUBSET Prompt
    BY DEF Taken
  <2>. QED BY <1>3, <2>1, FS_Subset
<1>8. Cardinality(Taken) + 1 <= MaxPrompts
  BY <1>2, <1>3, <1>6, <1>7
<1>9. turns + 1 \in 1..(History + MaxPrompts)
  BY <1>1, <1>5, <1>8 DEF Counted
<1>. QED BY <1>2, <1>6, <1>9 DEF Turn

(* A turn taken stands last, after those it does not replace.              *)
LEMMA TakeHolds ==
  ASSUME ProviderInv, NEW p \in Prompt, prompts[p].phase = "sent", Take(p),
         UNCHANGED <<running, settled, gone, unkept>>
  PROVE  ProviderInv'
<1> DEFINE from == prompts[p].from
           at == IF from = 0 THEN Len(store) + 1
                 ELSE CHOOSE i \in DOMAIN store : store[i].id = from
           before == SubSeq(store, 1, at - 1)
           new == [id |-> turns + 1, parts |-> 0]
<1>1. /\ turns + 1 \in Turn /\ p \notin Taken /\ turns \in Nat
      /\ Cardinality(Taken \cup {p}) = Cardinality(Taken) + 1
  BY TakeTurns, ThreadAssumption DEF ProviderInv, ProviderTypes, Turn
<1>2. /\ store \in Seq(Held) /\ Once(store) /\ \A i \in DOMAIN store : store[i].id <= turns
      /\ DOMAIN store = 1..Len(store) /\ Len(store) \in Nat
      /\ \A i \in DOMAIN store : store[i] \in Held /\ store[i].id \in Nat
  <2>1. store \in Seq(Held) /\ Once(store) /\ \A i \in DOMAIN store : store[i].id <= turns
    BY DEF ProviderInv, ProviderTypes, TurnsStand
  <2>2. /\ DOMAIN store = 1..Len(store) /\ Len(store) \in Nat
        /\ \A i \in DOMAIN store : store[i] \in Held
    BY <2>1
  <2>3. \A x \in Held : x.id \in Nat
    BY ThreadAssumption DEF Held, Turn
  <2>. QED BY <2>1, <2>2, <2>3
<1>3. at \in 1..(Len(store) + 1)
  BY <1>2 DEF Take
<1>4. /\ live = 0 /\ turns' = turns + 1 /\ live' = turns + 1
      /\ store' = Append(before, new) /\ undo' = store
      /\ epoch' \in {epoch, epoch + 1}
      /\ prompts' = [prompts EXCEPT ![p].phase = "accepted", ![p].turn = turns + 1]
  BY DEF Take
<1>5. before \in Seq(Held) /\ Once(before)
      /\ \A i \in DOMAIN before : before[i].id <= turns /\ before[i].id \in Nat
  <2> HIDE DEF at
  <2>1. at - 1 \in 0..Len(store) /\ 1 \in 1..(Len(store) + 1)
    BY <1>2, <1>3
  <2>2. /\ before \in Seq(Held) /\ Once(before)
        /\ \A i \in DOMAIN before :
             1 + i - 1 \in 1..at - 1 /\ before[i] = store[1 + i - 1]
    BY <1>2, <2>1, PartOf
  <2> HIDE DEF before
  <2>3. \A i \in DOMAIN before : \E j \in DOMAIN store : before[i] = store[j]
    BY <1>2, <2>1, <2>2
  <2>. QED BY <1>2, <2>2, <2>3
<1>6. new \in Held /\ new.id = turns + 1
  BY <1>1 DEF Held
<1>7. /\ store' \in Seq(Held) /\ store' # <<>> /\ Last(store').id = turns + 1
      /\ Once(store') /\ \A i \in DOMAIN store' : store'[i].id <= turns + 1
  <2> HIDE DEF before, new
  <2> DEFINE o == Append(before, new)
  <2>1. /\ o \in Seq(Held) /\ DOMAIN before = 1..Len(before) /\ Len(before) \in Nat
        /\ DOMAIN o = 1..(Len(before) + 1) /\ o[Len(before) + 1] = new
        /\ \A j \in 1..Len(before) : o[j] = before[j]
    BY <1>5, <1>6, Appended
  <2>2. o # <<>> /\ Len(o) = Len(before) + 1
    BY <1>5, <1>6
  <2> HIDE DEF o
  <2>3. \A i \in DOMAIN o : i = Len(before) + 1 \/ (i \in DOMAIN before /\ o[i] = before[i])
    BY <2>1
  <2>4. \A i \in DOMAIN o : o[i].id <= turns + 1
    BY <1>1, <1>5, <1>6, <2>1, <2>3
  <2>5. ASSUME NEW i \in DOMAIN o, NEW j \in DOMAIN o, o[i].id = o[j].id PROVE i = j
    BY <1>1, <1>5, <1>6, <2>1, <2>3, <2>5 DEF Once
  <2>6. Last(o).id = turns + 1
    BY <1>6, <2>1, <2>2 DEF Last
  <2>7. store' = o
    BY <1>4 DEF o
  <2>8. Once(o)
    BY <2>5 DEF Once
  <2>. QED BY <2>1, <2>2, <2>4, <2>6, <2>7, <2>8
<1>8. prompts \in [Prompt -> PromptState]
  BY DEF ProviderInv, ProviderTypes, PromptState, Phase
<1>9. /\ prompts' \in [Prompt -> PromptState]
      /\ prompts'[p].turn = turns + 1 /\ prompts'[p].phase = "accepted"
      /\ \A q \in Prompt : q # p => prompts'[q] = prompts[q]
  BY <1>1, <1>4, <1>8 DEF PromptState, Phase
<1>10. ProviderTypes'
  <2>1. live' \in {0} \cup Turn /\ turns' \in {0} \cup Turn /\ epoch' \in Nat
    BY <1>1, <1>4 DEF ProviderInv, ProviderTypes
  <2>2. UNCHANGED <<running, settled, gone, unkept>> /\ undo' = store
    BY <1>4
  <2> HIDE DEF before, new, at
  <2>. QED BY <1>2, <1>7, <1>9, <2>1, <2>2
       DEF ProviderInv, ProviderTypes, PromptState, Phase
<1>11. TurnsStand'
  <2>1. ~running /\ ~running'
    BY <1>4 DEF ProviderInv, TurnsStand
  <2>2. \A i \in DOMAIN store : store[i].id <= turns + 1
    BY <1>1, <1>2
  <2>. QED BY <1>2, <1>4, <1>7, <2>1, <2>2 DEF TurnsStand
<1>12. Counted'
  <2>1. Taken' = Taken \cup {p}
    BY <1>1, <1>9 DEF Taken
  <2>2. turns' = History + Cardinality(Taken)  + 1
    BY <1>4 DEF ProviderInv, Counted
  <2>3. Cardinality(Taken) \in Nat /\ History \in Nat
    <3>1. IsFiniteSet(Prompt)
      BY ThreadAssumption, FS_Interval DEF Prompt
    <3>2. Taken \in SUBSET Prompt
      BY DEF Taken
    <3>3. IsFiniteSet(Taken)
      BY <3>1, <3>2, FS_Subset
    <3>. QED BY <3>3, FS_CardinalityType, ThreadAssumption
  <2>4. turns' = History + Cardinality(Taken')
    BY <1>1, <2>1, <2>2, <2>3
  <2>5. \A q \in Prompt : /\ prompts'[q].phase \in {"none", "sent"} => prompts'[q].turn = 0
                          /\ prompts'[q].phase \in Began => prompts'[q].turn # 0
    <3>1. turns + 1 # 0
      BY <1>1
    <3>. QED BY <1>9, <3>1 DEF ProviderInv, Counted
  <2>. QED BY <2>4, <2>5 DEF Counted
<1>. QED BY <1>10, <1>11, <1>12 DEF ProviderInv

(* Nothing of the provider's changes but the phases of prompts.            *)
LEMMA OnlyPhases ==
  ASSUME ProviderInv, UNCHANGED provider, prompts' \in [Prompt -> PromptState],
         \A q \in Prompt : MovesOn(q)
  PROVE  ProviderInv'
<1>1. ProviderTypes'
  BY DEF ProviderInv, ProviderTypes, provider, PromptState, Phase
<1>2. TurnsStand'
  BY DEF ProviderInv, TurnsStand, provider
<1>3. Counted'
  BY PromptMoves DEF ProviderInv, provider
<1>. QED BY <1>1, <1>2, <1>3 DEF ProviderInv

(* What the operator, replies and the link do to the prompts.              *)
LEMMA PromptsHold ==
  ASSUME ProviderInv, NEW p \in Prompt,
         \/ \E from \in {0} \cup Turn : Send(p, from)
         \/ Accepted(p) \/ Refused(p) \/ Drop
  PROVE  ProviderInv'
<1>1. prompts \in [Prompt -> PromptState]
  BY DEF ProviderInv, ProviderTypes, PromptState, Phase
<1>2. ASSUME NEW from \in {0} \cup Turn, Send(p, from) PROVE ProviderInv'
  <2>1. /\ UNCHANGED provider /\ prompts[p].phase = "none"
        /\ prompts' = [prompts EXCEPT ![p] = [phase |-> "sent", turn |-> 0, from |-> from]]
    BY <1>2 DEF Send
  <2>2. prompts[p].turn = 0
    BY <2>1 DEF ProviderInv, Counted
  <2>3. [phase |-> "sent", turn |-> 0, from |-> from] \in PromptState
    BY DEF PromptState, Phase
  <2>4. /\ prompts' \in [Prompt -> PromptState]
        /\ prompts'[p] = [phase |-> "sent", turn |-> 0, from |-> from]
        /\ \A q \in Prompt : q # p => prompts'[q] = prompts[q]
    BY <1>1, <2>1, <2>3
  <2>5. ASSUME NEW q \in Prompt
        PROVE  MovesOn(q)
    BY <2>1, <2>2, <2>4 DEF MovesOn, Began
  <2>. QED BY <2>1, <2>4, <2>5, OnlyPhases
<1>3. ASSUME NEW x \in Phase \ {"none", "sent"}, Ends(p, x), UNCHANGED provider,
             x \in Began => prompts[p].phase \in Began
      PROVE  ProviderInv'
  <2>1. /\ prompts' \in [Prompt -> PromptState]
        /\ prompts'[p] = [phase |-> x, turn |-> prompts[p].turn, from |-> prompts[p].from]
        /\ \A q \in Prompt : q # p => prompts'[q] = prompts[q]
    BY <1>1, <1>3, PhaseMoves DEF Ends
  <2>2. ASSUME NEW q \in Prompt
        PROVE  MovesOn(q)
    BY <1>3, <2>1 DEF MovesOn
  <2>. QED BY <1>3, <2>1, <2>2, OnlyPhases
<1>4. CASE Accepted(p)
  <2>1. Ends(p, "kept") /\ UNCHANGED provider /\ prompts[p].phase \in Began
    BY <1>4 DEF Accepted, Began
  <2>2. "kept" \in Phase \ {"none", "sent"}
    BY DEF Phase, Over
  <2>. QED BY <1>3, <2>1, <2>2
<1>5. CASE Refused(p)
  <2> DEFINE x == IF prompts[p].phase = "lost" THEN "doubt" ELSE "back"
  <2>1. Ends(p, x) /\ UNCHANGED provider
    BY <1>5 DEF Refused
  <2>2. x \in Phase \ {"none", "sent"}
    BY DEF Phase, Over
  <2>3. x \in Began => prompts[p].phase \in Began
    BY DEF Began
  <2> HIDE DEF x
  <2>. QED BY <1>3, <2>1, <2>2, <2>3
<1>6. CASE Drop
  <2>1. PICK ps \in SUBSET {q \in Prompt : prompts[q].phase = "accepted"} :
          prompts' = [q \in Prompt |->
            [prompts[q] EXCEPT !.phase = IF q \in ps THEN "lost" ELSE prompts[q].phase]]
    BY <1>6 DEF Drop
  <2>2. UNCHANGED provider
    BY <1>6 DEF Drop
  <2>3. ASSUME NEW q \in Prompt
        PROVE  prompts'[q] \in PromptState /\ MovesOn(q)
    <3>1. prompts[q] \in PromptState
      BY <1>1
    <3>2. prompts'[q] = [prompts[q] EXCEPT !.phase =
                           IF q \in ps THEN "lost" ELSE prompts[q].phase]
      BY <2>1
    <3>. QED BY <3>1, <3>2 DEF PromptState, Phase, MovesOn, Began
  <2>4. prompts' \in [Prompt -> PromptState]
    <3>1. prompts' = [q \in Prompt |-> prompts'[q]]
      BY <2>1
    <3>. QED BY <2>3, <3>1
  <2>. QED BY <2>2, <2>3, <2>4, OnlyPhases
<1>. QED BY <1>2, <1>4, <1>5, <1>6

(* What a turn under way does.                                             *)
LEMMA TurnMoves ==
  ASSUME ProviderInv,
         \/ Run \/ Part \/ Vanish
         \/ \E status \in {"idle", "failed"}, kept \in BOOLEAN : Finish(status, kept)
  PROVE  ProviderInv'
<1>1. /\ store \in Seq(Held) /\ undo \in Seq(Held) /\ turns \in {0} \cup Turn
      /\ live \in {0} \cup Turn /\ UNCHANGED <<prompts, turns>>
  BY DEF ProviderInv, ProviderTypes, Run, Part, Vanish, Finish
<1>2. Counted'
  BY <1>1 DEF ProviderInv, Counted, Taken
<1>3. CASE Run
  <2>1. /\ UNCHANGED <<store, undo, live, settled, epoch, gone, unkept>>
        /\ running' = TRUE /\ live # 0
    BY <1>3 DEF Run
  <2>2. ProviderTypes'
    BY <1>1, <2>1 DEF ProviderInv, ProviderTypes
  <2>3. TurnsStand'
    BY <1>1, <2>1 DEF ProviderInv, TurnsStand
  <2>. QED BY <1>2, <2>2, <2>3 DEF ProviderInv
<1>4. CASE Part
  <2>1. /\ UNCHANGED <<undo, live, running, settled, epoch, gone, unkept>>
        /\ running
        /\ store' = [store EXCEPT ![Len(store)].parts = Written + 1]
    BY <1>4 DEF Part
  <2>2. store # <<>>
    BY <2>1 DEF ProviderInv, TurnsStand
  <2>3. /\ DOMAIN store = 1..Len(store) /\ Len(store) \in 1..Len(store) /\ Len(store) \in Nat
        /\ store[Len(store)] \in Held
    BY <1>1, <2>2
  <2> DEFINE new == [store[Len(store)] EXCEPT !.parts = Written + 1]
  <2>4. new \in Held /\ new.id = store[Len(store)].id
    BY <2>3 DEF Held, Written
  <2>5. store' = [store EXCEPT ![Len(store)] = new]
    BY <2>1
  <2> HIDE DEF new
  <2>6. /\ store' \in Seq(Held) /\ DOMAIN store' = DOMAIN store /\ Len(store') = Len(store)
        /\ \A i \in DOMAIN store : store'[i].id = store[i].id
    BY <1>1, <2>3, <2>4, <2>5
  <2>7. store' # <<>> /\ Last(store').id = Last(store).id
    BY <2>2, <2>3, <2>6 DEF Last
  <2>8. ProviderTypes'
    BY <1>1, <2>1, <2>6 DEF ProviderInv, ProviderTypes
  <2>9. Once(store') /\ \A i \in DOMAIN store' : store'[i].id <= turns'
    BY <1>1, <2>6 DEF ProviderInv, TurnsStand, Once
  <2>10. TurnsStand'
    BY <1>1, <2>1, <2>7, <2>9 DEF ProviderInv, TurnsStand
  <2>. QED BY <1>2, <2>8, <2>10 DEF ProviderInv
<1>5. CASE Vanish
  <2>1. /\ UNCHANGED <<store, undo, settled, epoch, unkept>>
        /\ running' = FALSE /\ live' = 0 /\ gone' = TRUE
    BY <1>5 DEF Vanish
  <2>2. ProviderTypes'
    BY <1>1, <2>1 DEF ProviderInv, ProviderTypes
  <2>3. TurnsStand'
    BY <1>1, <2>1 DEF ProviderInv, TurnsStand
  <2>. QED BY <1>2, <2>2, <2>3 DEF ProviderInv
<1>6. ASSUME NEW status \in {"idle", "failed"}, NEW kept \in BOOLEAN, Finish(status, kept)
      PROVE  ProviderInv'
  <2>1. /\ UNCHANGED <<undo, gone>> /\ running' = FALSE /\ live' = 0 /\ settled' = status
        /\ store' = (IF kept THEN store ELSE undo) /\ epoch' \in {epoch, epoch + 1}
    BY <1>6 DEF Finish
  <2>2. unkept' \subseteq Prompt
    BY <1>6 DEF Finish, ProviderInv, ProviderTypes
  <2>3. ProviderTypes'
    <3>1. store' \in Seq(Held) /\ undo' \in Seq(Held)
      BY <1>1, <2>1
    <3>2. epoch' \in Nat /\ settled' \in {"idle", "failed"}
      BY <2>1 DEF ProviderInv, ProviderTypes
    <3>3. UNCHANGED <<gone, turns, prompts>> /\ live' = 0 /\ running' = FALSE
      BY <1>1, <2>1
    <3>. QED BY <2>2, <3>1, <3>2, <3>3 DEF ProviderInv, ProviderTypes
  <2>4. TurnsStand'
    BY <1>1, <2>1 DEF ProviderInv, TurnsStand
  <2>. QED BY <1>2, <2>3, <2>4 DEF ProviderInv
<1>. QED BY <1>3, <1>4, <1>5, <1>6

(* No step disturbs the provider's account of its turns.                   *)
LEMMA ProviderStep ==
  ASSUME ProviderInv, [Next]_vars
  PROVE  ProviderInv'
<1>1. CASE UNCHANGED <<provider, prompts>>
  <2>1. UNCHANGED <<store, undo, live, running, settled, turns, epoch, gone, unkept, prompts>>
    BY <1>1 DEF provider
  <2>. QED BY <2>1 DEF ProviderInv, ProviderTypes, TurnsStand, Counted, Taken
<1>2. CASE Bind \/ Unbind \/ Announce \/ ReplayEnd \/ Cut \/ Refuse \/ Update
             \/ ReportGone \/ LoadOlder \/ Join
  <2>1. UNCHANGED <<provider, prompts>>
    BY <1>2 DEF Bind, Unbind, Announce, ReplayEnd, Cut, Refuse, Update, ReportGone,
                LoadOlder, Join
  <2>. QED BY <1>1, <2>1
<1>3. ASSUME NEW l \in Load, Land(l) \/ Serve(l) \/ Deny(l) PROVE ProviderInv'
  <2>1. UNCHANGED <<provider, prompts>>
    BY <1>3 DEF Land, Serve, Deny
  <2>. QED BY <1>1, <2>1
<1>4. CASE Drop
  <2>1. CASE Prompt = {}
    <3>1. UNCHANGED provider
      BY <1>4 DEF Drop
    <3>2. prompts' \in [Prompt -> PromptState]
      <4>1. PICK ps \in SUBSET {q \in Prompt : prompts[q].phase = "accepted"} :
          prompts' = [q \in Prompt |->
            [prompts[q] EXCEPT !.phase = IF q \in ps THEN "lost" ELSE prompts[q].phase]]
        BY <1>4 DEF Drop
      <4>. QED BY <2>1, <4>1
    <3>. QED BY <2>1, <3>1, <3>2, OnlyPhases
  <2>2. CASE Prompt # {}
    <3>1. PICK p \in Prompt : TRUE
      BY <2>2
    <3>. QED BY <1>4, PromptsHold
  <2>. QED BY <2>1, <2>2
<1>5. ASSUME NEW p \in Prompt, NEW from \in {0} \cup Turn, Send(p, from)
      PROVE  ProviderInv'
  BY <1>5, PromptsHold
<1>6. ASSUME NEW p \in Prompt, Accepted(p) \/ Refused(p) PROVE ProviderInv'
  BY <1>6, PromptsHold
<1>7. ASSUME NEW p \in Prompt, Answer(p) PROVE ProviderInv'
  <2>1. prompts[p].phase = "sent" /\ UNCHANGED <<running, settled, gone, unkept>>
    BY <1>7 DEF Answer
  <2>2. CASE Take(p)
    BY <2>1, <2>2, TakeHolds
  <2>3. CASE ~Take(p)
    <3>1. /\ prompts' = [prompts EXCEPT ![p].phase = "refused"]
          /\ UNCHANGED <<store, undo, live, turns, epoch>>
      BY <1>7, <2>3 DEF Answer
    <3>2. UNCHANGED provider
      BY <2>1, <3>1 DEF provider
    <3>3. prompts \in [Prompt -> PromptState] /\ "refused" \in Phase
      BY DEF ProviderInv, ProviderTypes, PromptState, Phase
    <3>4. /\ prompts' \in [Prompt -> PromptState]
          /\ prompts'[p] = [phase |-> "refused", turn |-> prompts[p].turn,
                            from |-> prompts[p].from]
          /\ \A q \in Prompt : q # p => prompts'[q] = prompts[q]
      BY <3>1, <3>3, PhaseMoves
    <3>5. ASSUME NEW q \in Prompt
          PROVE  MovesOn(q)
      BY <3>4 DEF MovesOn, Began
    <3>. QED BY <3>2, <3>4, <3>5, OnlyPhases
  <2>. QED BY <2>2, <2>3
<1>8. CASE Run \/ Part \/ Vanish
             \/ \E status \in {"idle", "failed"}, kept \in BOOLEAN : Finish(status, kept)
  BY <1>8, TurnMoves
<1>9. CASE UNCHANGED vars
  BY <1>1, <1>9 DEF vars
<1>. QED BY <1>2, <1>3, <1>4, <1>5, <1>6, <1>7, <1>8, <1>9 DEF Next

-----------------------------------------------------------------------------
(* What is on its way.                                                     *)

Ordinary == {e \in Event : e.kind \notin {"gone", "cut"}}

(* Behind the report that the Session is gone comes at most the end of a   *)
(* replay cut short.                                                       *)
OnlyCuts(w)  == \A i \in DOMAIN w : w[i].kind = "cut"
CutsAfter(w) == \A i, j \in DOMAIN w : i < j /\ w[i].kind = "gone" => w[j].kind = "cut"

WireStands ==
  /\ wire \in Seq(Event) /\ CutsAfter(wire)
  /\ ~gone => wire \in Seq(Ordinary)
  /\ gone => live = 0
  /\ seenGone => gone /\ OnlyCuts(wire)

Flags ==
  /\ {bound, seenGone, joined} \subseteq BOOLEAN /\ breaks \in 0..MaxBreaks
  /\ revived \subseteq RowId

(* What an update off the wire leaves.                                     *)
LEMMA TailOf ==
  ASSUME NEW U, NEW w \in Seq(U), w # <<>>
  PROVE  /\ Tail(w) \in Seq(U) /\ Head(w) \in U /\ Head(w) = w[1] /\ 1 \in DOMAIN w
         /\ \A i \in DOMAIN Tail(w) : i + 1 \in DOMAIN w /\ i + 1 > 1 /\ Tail(w)[i] = w[i + 1]
<1>1. /\ Tail(w) \in Seq(U) /\ DOMAIN w = 1..Len(w) /\ Len(w) \in Nat /\ Len(w) > 0
      /\ DOMAIN Tail(w) = 1..(Len(w) - 1)
      /\ \A i \in 1..(Len(w) - 1) : Tail(w)[i] = w[i + 1]
      /\ Head(w) = w[1]
  OBVIOUS
<1>. QED BY <1>1

(* What is left on the wire once an update is off it.                      *)
LEMMA TailStands ==
  ASSUME WireStands, wire # <<>>, wire' = Tail(wire), UNCHANGED <<gone, live, seenGone>>
  PROVE  WireStands'
<1>1. /\ Tail(wire) \in Seq(Event)
      /\ \A i \in DOMAIN Tail(wire) :
           i \in Nat /\ i + 1 \in DOMAIN wire /\ Tail(wire)[i] = wire[i + 1]
  BY TailOf DEF WireStands
<1>2. CutsAfter(Tail(wire))
  BY <1>1 DEF WireStands, CutsAfter
<1>3. ~gone => Tail(wire) \in Seq(Ordinary)
  BY TailOf DEF WireStands
<1>4. OnlyCuts(wire) => OnlyCuts(Tail(wire))
  BY <1>1 DEF OnlyCuts
<1>. QED BY <1>1, <1>2, <1>3, <1>4 DEF WireStands

(* Ordinary updates make an ordinary stream, cut at nothing.               *)
LEMMA OrdinaryStands ==
  ASSUME NEW w \in Seq(Ordinary)
  PROVE  w \in Seq(Event) /\ CutsAfter(w)
<1>1. \A i \in DOMAIN w : w[i] \in Ordinary
  OBVIOUS
<1>2. w \in Seq(Event)
  BY DEF Ordinary
<1>. QED BY <1>1, <1>2 DEF CutsAfter, Ordinary

(* An update more from a Session that is not gone.                         *)
LEMMA EmitStands ==
  ASSUME WireStands, ~gone, NEW es \in Seq(Ordinary), Emit(es), gone' = gone,
         seenGone' = seenGone
  PROVE  WireStands'
<1>1. wire \in Seq(Ordinary) /\ ~seenGone
  BY DEF WireStands
<1>2. wire' \in Seq(Ordinary)
  BY <1>1 DEF Emit
<1>3. wire' \in Seq(Event) /\ CutsAfter(wire')
  BY <1>2, OrdinaryStands
<1>. QED BY <1>1, <1>2, <1>3 DEF WireStands

(* The updates there are.                                                  *)
LEMMA Events ==
  /\ \A n \in Turn : /\ Ev("user", n) \in Ordinary /\ Ev("part", n) \in Ordinary
                     /\ Ev("running", n) \in Ordinary
  /\ \A n \in {0} \cup Turn : /\ Ev("restated", n) \in Ordinary
                              /\ Ev("idle", n) \in Ordinary /\ Ev("failed", n) \in Ordinary
  /\ Ev("announce", 0) \in Ordinary
  /\ \A n, e \in Nat : [kind |-> "end", n |-> n, epoch |-> e] \in Ordinary
  /\ Ev("gone", 0) \in Event /\ Ev("cut", 0) \in Event
BY DEF Ev, Ordinary, Event

(* A stored turn is replayed in ordinary updates.                          *)
LEMMA StoredIs ==
  ASSUME NEW x \in Held
  PROVE  Stored(x) \in Seq(Ordinary)
<1>1. x.id \in Turn /\ x.parts \in Nat
  BY DEF Held
<1> DEFINE parts == [i \in 1..x.parts |-> Ev("part", x.id)]
           u == Ev("user", x.id)
           r == Ev("running", x.id)
           e == Ev("idle", x.id)
<1>2. u \in Ordinary /\ r \in Ordinary /\ e \in Ordinary /\ parts \in Seq(Ordinary)
  <2>1. u \in Ordinary /\ r \in Ordinary /\ e \in Ordinary /\ Ev("part", x.id) \in Ordinary
    BY <1>1, Events
  <2>. QED BY <1>1, <2>1
<1>3. Stored(x) = <<u>> \o IF x.parts = 0 THEN <<>> ELSE <<r>> \o parts \o <<e>>
  BY DEF Stored
<1> HIDE DEF parts, u, r, e
<1>4. <<r>> \o parts \o <<e>> \in Seq(Ordinary) /\ <<u>> \in Seq(Ordinary)
      /\ <<>> \in Seq(Ordinary)
  BY <1>2
<1>. QED BY <1>3, <1>4

(* A join of a Session that is not gone.                                   *)
LEMMA JoinStands ==
  ASSUME ProviderInv, WireStands, Join
  PROVE  WireStands'
<1> DEFINE older == IF Len(store) > PageSize THEN Len(store) - PageSize ELSE 0
           page == SubSeq(store, older + 1, Len(store))
           stored == [i \in DOMAIN page |-> Stored(page[i])]
           state == Ev(IF running THEN "restated" ELSE settled, live)
           end == [kind |-> "end", n |-> older, epoch |-> epoch]
<1>1. /\ ~gone /\ UNCHANGED <<gone, seenGone, live>>
      /\ wire' = wire \o <<Ev("announce", 0)>> \o FlattenSeq(stored) \o <<state>> \o <<end>>
  BY DEF Join, browser, provider
<1>2. /\ store \in Seq(Held) /\ live \in {0} \cup Turn /\ settled \in {"idle", "failed"}
      /\ epoch \in Nat /\ Len(store) \in Nat /\ PageSize \in Nat
  BY ThreadAssumption DEF ProviderInv, ProviderTypes
<1>3. older \in Nat /\ older + 1 \in 1..(Len(store) + 1)
  BY <1>2
<1> HIDE DEF older
<1>4. page \in Seq(Held)
  BY <1>2, <1>3, PartOf
<1> HIDE DEF page
<1>5. stored \in Seq(Seq(Ordinary))
  <2>1. \A i \in DOMAIN page : Stored(page[i]) \in Seq(Ordinary)
    BY <1>4, StoredIs
  <2>. QED BY <1>4, <2>1
<1> HIDE DEF stored
<1>6. FlattenSeq(stored) \in Seq(Ordinary)
  BY <1>5, FlattenGathers
<1>7. Ev("announce", 0) \in Ordinary /\ state \in Ordinary /\ end \in Ordinary
  <2>1. Ev("announce", 0) \in Ordinary /\ end \in Ordinary
    BY <1>2, <1>3, Events
  <2>2. /\ Ev("restated", live) \in Ordinary /\ Ev("idle", live) \in Ordinary
        /\ Ev("failed", live) \in Ordinary
    BY <1>2, Events
  <2>. QED BY <1>2, <2>1, <2>2
<1>8. wire \in Seq(Ordinary) /\ ~seenGone
  BY <1>1 DEF WireStands
<1>9. wire' \in Seq(Ordinary)
  <2> HIDE DEF state, end
  <2>1. wire \o <<Ev("announce", 0)>> \in Seq(Ordinary)
    BY <1>7, <1>8
  <2>2. wire \o <<Ev("announce", 0)>> \o FlattenSeq(stored) \in Seq(Ordinary)
    BY <1>6, <2>1
  <2>3. wire \o <<Ev("announce", 0)>> \o FlattenSeq(stored) \o <<state>> \in Seq(Ordinary)
    BY <1>7, <2>2
  <2>. QED BY <1>1, <1>7, <2>3
<1>10. wire' \in Seq(Event) /\ CutsAfter(wire')
  BY <1>9, OrdinaryStands
<1>. QED BY <1>1, <1>8, <1>9, <1>10 DEF WireStands

(* The provider loses the Session: what was on its way may be, up to some  *)
(* update.                                                                 *)
LEMMA VanishStands ==
  ASSUME WireStands, Vanish
  PROVE  WireStands'
<1>1. ~gone /\ gone' = TRUE /\ live' = 0 /\ UNCHANGED seenGone
  BY DEF Vanish, browser
<1>2. wire \in Seq(Ordinary) /\ ~seenGone
  BY <1>1 DEF WireStands
<1>3. CASE ~joined
  <2>1. wire' = wire
    BY <1>3 DEF Vanish
  <2>. QED BY <1>1, <1>2, <2>1 DEF WireStands
<1>4. CASE joined
  <2>1. PICK k \in 0..Len(wire) :
          wire' = SubSeq(wire, 1, k)
                    \o (IF Quiet THEN <<Ev("gone", 0)>> ELSE <<Ev("gone", 0), Ev("cut", 0)>>)
    BY <1>4 DEF Vanish
  <2> DEFINE w == SubSeq(wire, 1, k)
             g == IF Quiet THEN <<Ev("gone", 0)>> ELSE <<Ev("gone", 0), Ev("cut", 0)>>
  <2>2. w \in Seq(Ordinary)
    <3>1. 1 \in 1..(Len(wire) + 1) /\ k \in 0..Len(wire)
      BY <1>2
    <3>. QED BY <1>2, <3>1, PartOf
  <2>3. /\ Ev("gone", 0) \in Event /\ Ev("cut", 0) \in Event /\ Ev("cut", 0).kind = "cut"
    BY Events DEF Ev
  <2>4. /\ g \in Seq(Event) /\ DOMAIN g \subseteq {1, 2}
        /\ 2 \in DOMAIN g => g[2].kind = "cut"
    BY <2>3
  <2>5. w \in Seq(Event) /\ \A i \in DOMAIN w : w[i].kind # "gone"
    BY <2>2, OrdinaryStands DEF Ordinary
  <2> HIDE DEF w, g
  <2> DEFINE o == w \o g
  <2>6. /\ o \in Seq(Event) /\ Len(w) \in Nat
        /\ \A i \in DOMAIN o : /\ i \in Nat
                               /\ \/ i \in DOMAIN w /\ i <= Len(w) /\ o[i] = w[i]
                                  \/ i - Len(w) \in DOMAIN g /\ o[i] = g[i - Len(w)]
    BY <2>4, <2>5
  <2> HIDE DEF o
  <2>7. ASSUME NEW i \in DOMAIN o, NEW j \in DOMAIN o, i < j, o[i].kind = "gone"
        PROVE  o[j].kind = "cut"
    <3>1. i - Len(w) \in DOMAIN g
      BY <2>5, <2>6, <2>7
    <3>2. i - Len(w) >= 1 /\ ~(j <= Len(w)) /\ i \in Nat /\ j \in Nat
      <4>1. i \in Nat /\ j \in Nat /\ Len(w) \in Nat
        BY <2>6
      <4>2. i - Len(w) \in {1, 2}
        BY <2>4, <3>1
      <4>. QED BY <2>7, <4>1, <4>2
    <3>3. j - Len(w) \in DOMAIN g /\ o[j] = g[j - Len(w)]
      BY <2>6, <3>2
    <3>4. j - Len(w) = 2
      BY <2>4, <2>6, <2>7, <3>2, <3>3
    <3>. QED BY <2>4, <3>3, <3>4
  <2>8. CutsAfter(o)
    BY <2>7 DEF CutsAfter
  <2>9. wire' = o
    BY <2>1 DEF o, w, g
  <2>. QED BY <1>1, <1>2, <2>6, <2>8, <2>9 DEF WireStands
<1>. QED BY <1>3, <1>4

(* The browser reports the Session gone once the provider lost it.         *)
LEMMA GoneStands ==
  ASSUME WireStands, ReportGone
  PROVE  WireStands'
<1>1. /\ wire # <<>> /\ Head(wire).kind = "gone" /\ wire' = Tail(wire)
      /\ UNCHANGED <<gone, live>> /\ (seenGone' = TRUE \/ seenGone' = seenGone)
  BY DEF ReportGone, provider
<1>2. /\ Head(wire) = wire[1] /\ 1 \in DOMAIN wire
      /\ \A i \in DOMAIN Tail(wire) :
           i + 1 \in DOMAIN wire /\ i + 1 > 1 /\ Tail(wire)[i] = wire[i + 1]
  BY <1>1, TailOf DEF WireStands
<1>3. gone
  <2>1. ASSUME ~gone PROVE FALSE
    <3>1. wire \in Seq(Ordinary)
      BY <2>1 DEF WireStands
    <3>2. Head(wire) \in Ordinary
      BY <1>1, <3>1, TailOf
    <3>. QED BY <1>1, <3>2 DEF Ordinary
  <2>. QED BY <2>1
<1>4. OnlyCuts(Tail(wire))
  <2>1. ASSUME NEW i \in DOMAIN Tail(wire) PROVE Tail(wire)[i].kind = "cut"
    <3>1. i + 1 \in DOMAIN wire /\ 1 < i + 1 /\ Tail(wire)[i] = wire[i + 1]
      BY <1>2
    <3>. QED BY <1>1, <1>2, <3>1 DEF WireStands, CutsAfter
  <2>. QED BY <2>1 DEF OnlyCuts
<1>5. Tail(wire) \in Seq(Event) /\ CutsAfter(Tail(wire))
  <2>1. /\ Tail(wire) \in Seq(Event)
        /\ \A i \in DOMAIN Tail(wire) :
             i \in Nat /\ i + 1 \in DOMAIN wire /\ Tail(wire)[i] = wire[i + 1]
    BY <1>1, TailOf DEF WireStands
  <2>. QED BY <2>1 DEF WireStands, CutsAfter
<1>. QED BY <1>1, <1>3, <1>4, <1>5 DEF WireStands

(* What a turn under way streams.                                          *)
LEMMA StreamStands ==
  ASSUME ProviderInv, WireStands,
         \/ Run \/ Part
         \/ \E status \in {"idle", "failed"}, kept \in BOOLEAN : Finish(status, kept)
  PROVE  WireStands'
<1>1. live # 0 /\ UNCHANGED <<gone, seenGone>>
  BY DEF Run, Part, Finish, browser, ProviderInv, TurnsStand
<1>2. ~gone
  BY <1>1 DEF WireStands
<1>3. live \in Turn
  BY <1>1 DEF ProviderInv, ProviderTypes
<1>4. \E e \in Ordinary : Emit(<<e>>)
  <2>1. /\ Ev("running", live) \in Ordinary /\ Ev("part", live) \in Ordinary
        /\ \A x \in {"idle", "failed"} : Ev(x, live) \in Ordinary
    BY <1>3, Events
  <2>. QED BY <2>1 DEF Run, Part, Finish
<1>5. PICK e \in Ordinary : Emit(<<e>>)
  BY <1>4
<1>6. <<e>> \in Seq(Ordinary)
  OBVIOUS
<1>. QED BY <1>1, <1>2, <1>5, <1>6, EmitStands

(* No step disturbs what is on its way.                                    *)
LEMMA WireStep ==
  ASSUME ProviderInv, ProviderInv', WireStands, [Next]_vars
  PROVE  WireStands'
<1>1. ASSUME UNCHANGED <<wire, gone, live, seenGone>> PROVE WireStands'
  BY <1>1 DEF WireStands
<1>2. CASE Bind
  <2>1. UNCHANGED <<wire, gone, live>> /\ seenGone' = FALSE
    BY <1>2 DEF Bind, provider
  <2>. QED BY <2>1 DEF WireStands
<1>3. CASE Unbind \/ Refuse \/ LoadOlder
  <2>1. UNCHANGED <<wire, gone, live, seenGone>>
    BY <1>3 DEF Unbind, Refuse, LoadOlder, provider
  <2>. QED BY <1>1, <2>1
<1>4. CASE Announce \/ ReplayEnd \/ Cut \/ Update
  <2>1. wire # <<>> /\ wire' = Tail(wire) /\ UNCHANGED <<gone, live, seenGone>>
    BY <1>4 DEF Announce, ReplayEnd, Cut, Update, provider
  <2>. QED BY <2>1, TailStands
<1>5. CASE Drop
  <2>1. wire' = <<>> /\ UNCHANGED <<gone, live, seenGone>>
    BY <1>5 DEF Drop, provider
  <2>2. <<>> \in Seq(Event) /\ <<>> \in Seq(Ordinary) /\ CutsAfter(<<>>) /\ OnlyCuts(<<>>)
    BY DEF CutsAfter, OnlyCuts
  <2>. QED BY <2>1, <2>2 DEF WireStands
<1>6. CASE ReportGone
  BY <1>6, GoneStands
<1>7. ASSUME NEW p \in Prompt, NEW from \in {0} \cup Turn, Send(p, from)
      PROVE  WireStands'
  <2>1. UNCHANGED <<wire, gone, live, seenGone>>
    BY <1>7 DEF Send, provider
  <2>. QED BY <1>1, <2>1
<1>8. ASSUME NEW p \in Prompt, Accepted(p) \/ Refused(p)
      PROVE  WireStands'
  <2>1. UNCHANGED <<wire, gone, live, seenGone>>
    BY <1>8 DEF Accepted, Refused, provider
  <2>. QED BY <1>1, <2>1
<1>9. ASSUME NEW l \in Load, Land(l) \/ Serve(l) \/ Deny(l) PROVE WireStands'
  <2>1. UNCHANGED <<wire, gone, live, seenGone>>
    BY <1>9 DEF Land, Serve, Deny, provider, browser
  <2>. QED BY <1>1, <2>1
<1>10. ASSUME NEW p \in Prompt, Answer(p) PROVE WireStands'
  <2>1. UNCHANGED <<gone, seenGone>>
    BY <1>10 DEF Answer, browser
  <2>2. CASE ~gone /\ Take(p)
    <3>1. Emit(<<Ev("user", turns')>>) /\ live' = turns' /\ turns' = turns + 1
      BY <2>2 DEF Take
    <3>2. turns' \in Turn
      <4>1. turns \in {0} \cup Turn /\ turns' \in {0} \cup Turn
        BY DEF ProviderInv, ProviderTypes
      <4>2. turns' # 0
        BY <3>1, <4>1, ThreadAssumption DEF Turn
      <4>. QED BY <4>1, <4>2
    <3>3. <<Ev("user", turns')>> \in Seq(Ordinary)
      <4>1. Ev("user", turns') \in Ordinary
        BY <3>2, Events
      <4>. QED BY <4>1
    <3>. QED BY <2>1, <2>2, <3>1, <3>3, EmitStands
  <2>3. CASE ~(~gone /\ Take(p))
    <3>1. UNCHANGED <<wire, live>>
      BY <1>10, <2>3 DEF Answer
    <3>. QED BY <1>1, <2>1, <3>1
  <2>. QED BY <2>2, <2>3
<1>11. CASE Join
  BY <1>11, JoinStands
<1>12. CASE Run \/ Part
              \/ \E status \in {"idle", "failed"}, kept \in BOOLEAN : Finish(status, kept)
  BY <1>12, StreamStands
<1>13. CASE Vanish
  BY <1>13, VanishStands
<1>14. CASE UNCHANGED vars
  BY <1>1, <1>14 DEF vars, provider
<1>. QED BY <1>2, <1>3, <1>4, <1>5, <1>6, <1>7, <1>8, <1>9, <1>10, <1>11, <1>12, <1>13,
            <1>14
     DEF Next

-----------------------------------------------------------------------------
(* The reader's pages.                                                     *)

LoadPhase == {"none", "rebuild", "reading", "served", "failed"}
LoadState ==
  [phase : LoadPhase, fresh : BOOLEAN, from : Cursor, page : Seq(Held)]

(* A page holds no turn twice.                                             *)
PageState == {x \in LoadState : Once(x.page)}

PagingInv ==
  /\ cursor \in Cursor /\ {stale, olderLoading, olderFailed} \subseteq BOOLEAN
  /\ loads \in 0..MaxLoads /\ load \in [Load -> PageState]

(* Page reads are told apart by their fields.                              *)
LEMMA PageMakes ==
  ASSUME NEW ph \in LoadPhase, NEW b \in BOOLEAN, NEW c \in Cursor,
         NEW p \in Seq(Held), Once(p)
  PROVE  [phase |-> ph, fresh |-> b, from |-> c, page |-> p] \in PageState
BY DEF PageState, LoadState

(* What every page read is made of.                                        *)
LEMMA PageFields ==
  ASSUME NEW x \in PageState
  PROVE  /\ x.phase \in LoadPhase /\ x.fresh \in BOOLEAN /\ x.from \in Cursor
         /\ x.page \in Seq(Held) /\ Once(x.page)
         /\ x = [phase |-> x.phase, fresh |-> x.fresh, from |-> x.from, page |-> x.page]
BY DEF PageState, LoadState

(* A page read with a new age and a new phase.                             *)
LEMMA PageMoves ==
  ASSUME NEW x \in PageState, NEW b \in BOOLEAN, NEW ph \in LoadPhase
  PROVE  /\ [x EXCEPT !.fresh = b] \in PageState
         /\ [x EXCEPT !.phase = ph] \in PageState
         /\ [x EXCEPT !.fresh = b, !.phase = ph] \in PageState
<1>1. /\ x.phase \in LoadPhase /\ x.fresh \in BOOLEAN /\ x.from \in Cursor
      /\ x.page \in Seq(Held) /\ Once(x.page)
      /\ x = [phase |-> x.phase, fresh |-> x.fresh, from |-> x.from, page |-> x.page]
  BY PageFields
<1>2. [x EXCEPT !.fresh = b]
        = [phase |-> x.phase, fresh |-> b, from |-> x.from, page |-> x.page]
  BY <1>1
<1>3. [x EXCEPT !.phase = ph]
        = [phase |-> ph, fresh |-> x.fresh, from |-> x.from, page |-> x.page]
  BY <1>1
<1>4. [x EXCEPT !.fresh = b, !.phase = ph]
        = [phase |-> ph, fresh |-> b, from |-> x.from, page |-> x.page]
  <2> DEFINE y == [x EXCEPT !.fresh = b, !.phase = ph]
  <2>1. DOMAIN x = {"phase", "fresh", "from", "page"}
    BY <1>1
  <2>2. DOMAIN y = {"phase", "fresh", "from", "page"} /\ y = [k \in DOMAIN y |-> y[k]]
    BY <2>1
  <2>3. y.phase = ph /\ y.fresh = b /\ y.from = x.from /\ y.page = x.page
    BY <2>1
  <2> HIDE DEF y
  <2>4. y = [phase |-> ph, fresh |-> b, from |-> x.from, page |-> x.page]
    BY <2>2, <2>3
  <2>. QED BY <2>4 DEF y
<1>5. [phase |-> x.phase, fresh |-> b, from |-> x.from, page |-> x.page] \in PageState
  BY <1>1, PageMakes
<1>6. [phase |-> ph, fresh |-> x.fresh, from |-> x.from, page |-> x.page] \in PageState
  BY <1>1, PageMakes
<1>7. [phase |-> ph, fresh |-> b, from |-> x.from, page |-> x.page] \in PageState
  BY <1>1, PageMakes
<1>. QED BY <1>2, <1>3, <1>4, <1>5, <1>6, <1>7

(* The page reads the controller starts with.                              *)
LEMMA PageStates ==
  /\ NoCursor \in Cursor /\ NoLoad \in PageState
  /\ [NoLoad EXCEPT !.phase = "rebuild"] \in PageState
  /\ \A c \in Cursor : Read(c) \in PageState
<1>1. NoCursor \in Cursor
  BY DEF NoCursor, Cursor
<1>2. <<>> \in Seq(Held) /\ Once(<<>>)
  BY DEF Once
<1>3. "none" \in LoadPhase /\ "rebuild" \in LoadPhase /\ "reading" \in LoadPhase
  BY DEF LoadPhase
<1>4. NoLoad \in PageState
  <2>1. [phase |-> "none", fresh |-> FALSE, from |-> NoCursor, page |-> <<>>] \in PageState
    BY <1>1, <1>2, <1>3, PageMakes
  <2>. QED BY <2>1 DEF NoLoad
<1>5. [NoLoad EXCEPT !.phase = "rebuild"] \in PageState
  BY <1>3, <1>4, PageMoves
<1>6. ASSUME NEW c \in Cursor PROVE Read(c) \in PageState
  <2>1. [phase |-> "reading", fresh |-> TRUE, from |-> c, page |-> <<>>] \in PageState
    BY <1>2, <1>3, PageMakes
  <2>. QED BY <2>1 DEF Read
<1>. QED BY <1>1, <1>4, <1>5, <1>6

(* The pages asked for are all of an age.                                  *)
LEMMA AgedHolds ==
  ASSUME load \in [Load -> PageState]
  PROVE  Aged \in [Load -> PageState]
<1>1. ASSUME NEW l \in Load PROVE [load[l] EXCEPT !.fresh = FALSE] \in PageState
  <2>1. load[l] \in PageState /\ FALSE \in BOOLEAN
    OBVIOUS
  <2>2. \A x \in PageState, b \in BOOLEAN : [x EXCEPT !.fresh = b] \in PageState
    <3>1. "none" \in LoadPhase
      BY DEF LoadPhase
    <3>. QED BY <3>1, PageMoves
  <2>. QED BY <2>1, <2>2
<1>. QED BY <1>1 DEF Aged

(* The end of a replay brings the cursor, and loads go on from it.         *)
LEMMA ReplayEndPages ==
  ASSUME PagingInv, WireStands, ReplayEnd
  PROVE  PagingInv'
<1> DEFINE end == Head(wire)
           c == IF bound /\ replay.on
                THEN [older |-> end.n, epoch |-> end.epoch] ELSE cursor
           st == stale /\ ~(bound /\ replay.on /\ ~replay.rewound)
           mine == {w.n : w \in {v \in riders : v.kind = "load"}}
           next == [l \in Load |->
             IF l \notin mine
             THEN IF replay.on THEN [load[l] EXCEPT !.fresh = FALSE] ELSE load[l]
             ELSE IF Reads(c, st) THEN Read(c) ELSE NoLoad]
           wait == olderLoading /\ ~\E l \in mine : Releases(l) /\ ~Reads(c, st)
<1>1. /\ wire # <<>> /\ end.kind = "end" /\ cursor' = c /\ stale' = st
      /\ load' = next /\ olderLoading' = wait /\ UNCHANGED <<olderFailed, loads>>
  BY DEF ReplayEnd
<1>2. end \in Event
  BY <1>1, TailOf DEF WireStands
<1>3. end.n \in Nat /\ end.epoch \in Nat
  BY <1>1, <1>2 DEF Event
<1>4. c \in Cursor
  BY <1>3 DEF Cursor, PagingInv
<1>5. st \in BOOLEAN /\ wait \in BOOLEAN
  BY DEF PagingInv
<1> HIDE DEF c, st, wait, mine
<1>6. ASSUME NEW l \in Load PROVE next[l] \in PageState
  <2>1. load[l] \in PageState /\ Aged[l] \in PageState
    BY AgedHolds DEF PagingInv
  <2>2. Aged[l] = [load[l] EXCEPT !.fresh = FALSE]
    BY DEF Aged
  <2>. QED BY <1>4, <2>1, <2>2, PageStates
<1>7. next \in [Load -> PageState]
  BY <1>6
<1> HIDE DEF next, end
<1>. QED BY <1>1, <1>4, <1>5, <1>7 DEF PagingInv

(* A page is part of what the provider holds.                              *)
LEMMA ServePages ==
  ASSUME ProviderInv, PagingInv, NEW l \in Load, Serve(l)
  PROVE  PagingInv'
<1>1. PICK c \in 0..Len(store) :
        LET older == IF c > PageSize THEN c - PageSize ELSE 0 IN
        load' = [load EXCEPT ![l] =
          [phase |-> "served", fresh |-> load[l].fresh,
           from |-> [older |-> older, epoch |-> epoch],
           page |-> SubSeq(store, older + 1, c)]]
  BY DEF Serve
<1> DEFINE older == IF c > PageSize THEN c - PageSize ELSE 0
           page == SubSeq(store, older + 1, c)
           from == [older |-> older, epoch |-> epoch]
           x == [phase |-> "served", fresh |-> load[l].fresh, from |-> from, page |-> page]
<1>2. load' = [load EXCEPT ![l] = x] /\ UNCHANGED <<cursor, stale, olderLoading, olderFailed, loads>>
  BY <1>1 DEF Serve
<1>3. /\ store \in Seq(Held) /\ Once(store) /\ Len(store) \in Nat /\ epoch \in Nat
      /\ PageSize \in Nat
  BY ThreadAssumption DEF ProviderInv, ProviderTypes, TurnsStand
<1>4. older \in Nat /\ older + 1 \in 1..(Len(store) + 1) /\ c \in 0..Len(store)
  BY <1>3
<1> HIDE DEF older
<1>5. page \in Seq(Held) /\ Once(page)
  BY <1>3, <1>4, PartOf
<1>6. from \in Cursor
  BY <1>3, <1>4 DEF Cursor
<1>7. load \in [Load -> PageState] /\ load[l].fresh \in BOOLEAN
  BY DEF PagingInv, PageState, LoadState
<1> HIDE DEF page, from
<1>8. x \in PageState
  BY <1>5, <1>6, <1>7 DEF PageState, LoadState, LoadPhase
<1> HIDE DEF x
<1>9. load' \in [Load -> PageState]
  BY <1>2, <1>7, <1>8
<1>. QED BY <1>2, <1>9 DEF PagingInv

(* What the reader asks for, and what is refused.                          *)
LEMMA LoadPages ==
  ASSUME PagingInv,
         \/ LoadOlder \/ Refuse \/ Drop
         \/ \E l \in Load : Land(l) \/ Deny(l)
  PROVE  PagingInv'
<1>1. load \in [Load -> PageState] /\ cursor \in Cursor
  BY DEF PagingInv
<1>2. CASE LoadOlder
  <2>1. /\ UNCHANGED <<cursor, stale>> /\ loads' = loads + 1 /\ loads < MaxLoads
        /\ olderLoading' = TRUE /\ olderFailed' = FALSE
        /\ \/ load' = [load EXCEPT ![loads'] = [NoLoad EXCEPT !.phase = "rebuild"]]
           \/ load' = [load EXCEPT ![loads'] = Read(cursor)]
    BY <1>2 DEF LoadOlder
  <2>2. loads' \in 0..MaxLoads
    BY <2>1, ThreadAssumption DEF PagingInv
  <2>3. load' \in [Load -> PageState]
    <3>1. [NoLoad EXCEPT !.phase = "rebuild"] \in PageState /\ Read(cursor) \in PageState
      BY <1>1, PageStates
    <3>. QED BY <1>1, <2>1, <3>1
  <2>. QED BY <2>1, <2>2, <2>3 DEF PagingInv
<1>3. CASE Refuse
  <2> DEFINE failed == {w \in asks : w.kind = "load"}
             next == [l \in Load |->
               IF \E w \in failed : w.n = l THEN NoLoad
               ELSE [load[l] EXCEPT !.fresh = load[l].fresh /\ ~bound]]
             wait == olderLoading /\ ~\E w \in failed : Releases(w.n)
             unread == olderFailed \/ \E w \in failed : w.owned
  <2>1. /\ UNCHANGED <<cursor, stale, loads>> /\ olderFailed' = unread
        /\ load' = next /\ olderLoading' = wait
    BY <1>3 DEF Refuse
  <2>2. unread \in BOOLEAN /\ wait \in BOOLEAN
    BY DEF PagingInv
  <2> HIDE DEF failed, wait, unread
  <2>3. ASSUME NEW l \in Load PROVE next[l] \in PageState
    <3> DEFINE b == load[l].fresh /\ ~bound
    <3>1. b \in BOOLEAN /\ load[l] \in PageState /\ "none" \in LoadPhase
      BY <1>1 DEF LoadPhase
    <3> HIDE DEF b
    <3>2. [load[l] EXCEPT !.fresh = b] \in PageState
      BY <3>1, PageMoves
    <3>. QED BY <3>2, PageStates DEF b
  <2>4. next \in [Load -> PageState]
    BY <2>3
  <2> HIDE DEF next
  <2>. QED BY <2>1, <2>2, <2>4 DEF PagingInv
<1>4. CASE Drop
  <2>1. PICK ls \in SUBSET {l \in Load : load[l].phase \in {"reading", "served"}} :
          load' = [l \in Load |->
            [load[l] EXCEPT !.fresh = load[l].fresh /\ ~replay.on,
                            !.phase = IF l \in ls THEN "failed" ELSE load[l].phase]]
    BY <1>4 DEF Drop
  <2>2. UNCHANGED <<cursor, stale, olderLoading, olderFailed, loads>>
    BY <1>4 DEF Drop
  <2>3. ASSUME NEW l \in Load
        PROVE  [load[l] EXCEPT !.fresh = load[l].fresh /\ ~replay.on,
                               !.phase = IF l \in ls THEN "failed" ELSE load[l].phase]
                 \in PageState
    <3> DEFINE ph == IF l \in ls THEN "failed" ELSE load[l].phase
               b == load[l].fresh /\ ~replay.on
    <3>1. b \in BOOLEAN /\ load[l] \in PageState
      BY <1>1
    <3>2. ph \in LoadPhase
      BY <3>1 DEF PageState, LoadState, LoadPhase
    <3> HIDE DEF ph, b
    <3>3. [load[l] EXCEPT !.fresh = b, !.phase = ph] \in PageState
      BY <3>1, <3>2, PageMoves
    <3>. QED BY <3>3 DEF ph, b
  <2>4. load' \in [Load -> PageState]
    BY <2>1, <2>3
  <2>. QED BY <2>2, <2>4 DEF PagingInv
<1>5. ASSUME NEW l \in Load, Land(l) PROVE PagingInv'
  <2>1. load[l] \in PageState /\ load[l].from \in Cursor
    BY <1>1 DEF PageState, LoadState
  <2>2. load' = [load EXCEPT ![l] = NoLoad] /\ UNCHANGED <<stale, loads>>
        /\ cursor' \in {cursor, load[l].from}
    BY <1>5 DEF Land
  <2>3. load' \in [Load -> PageState]
    BY <1>1, <2>2, PageStates
  <2>4. olderFailed' \in BOOLEAN /\ olderLoading' \in BOOLEAN
    BY <1>5 DEF Land, PagingInv
  <2>. QED BY <1>1, <2>1, <2>2, <2>3, <2>4 DEF PagingInv
<1>6. ASSUME NEW l \in Load, Deny(l) PROVE PagingInv'
  <2>1. /\ load' = [load EXCEPT ![l].phase = "failed"]
        /\ UNCHANGED <<cursor, stale, olderLoading, olderFailed, loads>>
    BY <1>6 DEF Deny
  <2>2. load[l] \in PageState /\ "failed" \in LoadPhase
    BY <1>1 DEF LoadPhase
  <2>3. [load[l] EXCEPT !.phase = "failed"] \in PageState
    BY <2>2, PageMoves
  <2>4. load' \in [Load -> PageState]
    BY <1>1, <2>1, <2>3
  <2>. QED BY <2>1, <2>4 DEF PagingInv
<1>. QED BY <1>2, <1>3, <1>4, <1>5, <1>6

(* No step disturbs the reader's pages.                                    *)
LEMMA PagingStep ==
  ASSUME ProviderInv, WireStands, PagingInv, [Next]_vars
  PROVE  PagingInv'
<1>1. ASSUME UNCHANGED paging PROVE PagingInv'
  BY <1>1 DEF PagingInv, paging
<1>2. CASE Bind
  <2>1. /\ load' = Aged /\ cursor' = NoCursor /\ stale' = FALSE /\ olderLoading' = FALSE
        /\ olderFailed' = FALSE /\ loads' = loads
    BY <1>2 DEF Bind
  <2>. QED BY <2>1, AgedHolds, PageStates DEF PagingInv
<1>3. CASE Announce \/ Cut
  <2>1. /\ UNCHANGED <<cursor, stale, olderLoading, olderFailed, loads>>
        /\ load' = Aged \/ load' = load
    BY <1>3 DEF Announce, Cut
  <2>2. Aged \in [Load -> PageState] /\ load \in [Load -> PageState]
    BY AgedHolds DEF PagingInv
  <2>. QED BY <2>1, <2>2 DEF PagingInv
<1>4. CASE ReplayEnd
  BY <1>4, ReplayEndPages
<1>5. ASSUME NEW p \in Prompt, Accepted(p) PROVE PagingInv'
  <2>1. /\ UNCHANGED <<cursor, olderLoading, olderFailed, loads>>
        /\ load' = Aged \/ load' = load
        /\ stale' = TRUE \/ stale' = stale
    BY <1>5 DEF Accepted
  <2>2. Aged \in [Load -> PageState] /\ load \in [Load -> PageState]
    BY AgedHolds DEF PagingInv
  <2>. QED BY <2>1, <2>2 DEF PagingInv
<1>6. ASSUME NEW l \in Load, Serve(l) PROVE PagingInv'
  BY <1>6, ServePages
<1>7. CASE LoadOlder \/ Refuse \/ Drop \/ \E l \in Load : Land(l) \/ Deny(l)
  BY <1>7, LoadPages
<1>8. CASE Unbind \/ Update \/ ReportGone \/ Join \/ Run \/ Part \/ Vanish
  <2>1. UNCHANGED paging
    BY <1>8 DEF Unbind, Update, ReportGone, Join, Run, Part, Vanish
  <2>. QED BY <1>1, <2>1
<1>9. ASSUME NEW p \in Prompt,
             Refused(p) \/ Answer(p) \/ \E from \in {0} \cup Turn : Send(p, from)
      PROVE  PagingInv'
  <2>1. UNCHANGED paging
    BY <1>9 DEF Refused, Answer, Send
  <2>. QED BY <1>1, <2>1
<1>10. CASE \E status \in {"idle", "failed"}, kept \in BOOLEAN : Finish(status, kept)
  <2>1. UNCHANGED paging
    BY <1>10 DEF Finish
  <2>. QED BY <1>1, <2>1
<1>11. CASE UNCHANGED vars
  BY <1>1, <1>11 DEF vars
<1>. QED BY <1>2, <1>3, <1>4, <1>5, <1>6, <1>7, <1>8, <1>9, <1>10, <1>11 DEF Next

-----------------------------------------------------------------------------
(* Who waits for a replay.                                                 *)

(* Those that ask for a replay.                                            *)
LEMMA WaitersAre ==
  /\ Waiter("bind", 0) \in Waiters
  /\ \A n \in {0} \cup Prompt : Waiter("fail", n) \in Waiters
  /\ \A l \in Load : Waiter("load", l) \in Waiters
BY DEF Waiter, Waiters

(* Those an unmount left asking.                                           *)
LEMMA LeftAre ==
  ASSUME NEW ws \in SUBSET Waiters
  PROVE  Left(ws) \subseteq Waiters
<1>1. ASSUME NEW w \in Waiters PROVE [w EXCEPT !.owned = FALSE] \in Waiters
  BY DEF Waiters
<1>. QED BY <1>1 DEF Left

(* A prompt handed back is one sent.                                       *)
LEMMA LostAre ==
  ASSUME NEW ws \in SUBSET Waiters, NEW t
  PROVE  Lost(ws, t) \subseteq Prompt
<1>1. ASSUME NEW w \in ws, w.kind = "fail", w.n # 0 PROVE w.n \in Prompt
  <2>1. w \in Waiters
    OBVIOUS
  <2>. QED BY <1>1, <2>1 DEF Waiters
<1>. QED BY <1>1 DEF Lost

(* No step disturbs who waits.                                             *)
LEMMA CallerStep ==
  ASSUME CallerTypes, PagingInv, [Next]_vars
  PROVE  CallerTypes'
<1>1. ASSUME UNCHANGED <<asks, riders, sent, returned>> PROVE CallerTypes'
  BY <1>1 DEF CallerTypes
<1>2. CASE Bind
  <2>1. asks' = asks \cup {Waiter("bind", 0)} /\ UNCHANGED <<riders, sent, returned>>
    BY <1>2 DEF Bind
  <2>. QED BY <2>1, WaitersAre DEF CallerTypes
<1>3. CASE Unbind
  <2>1. asks' = Left(asks) /\ riders' = Left(riders) /\ UNCHANGED <<sent, returned>>
    BY <1>3 DEF Unbind
  <2>. QED BY <2>1, LeftAre DEF CallerTypes
<1>4. CASE ReplayEnd
  <2>1. /\ riders' = {} /\ UNCHANGED <<asks, sent>>
        /\ \E t : returned' = returned \cup Lost(riders, t)
    BY <1>4 DEF ReplayEnd
  <2>. QED BY <2>1, LostAre DEF CallerTypes
<1>5. CASE Drop \/ Cut
  <2>1. asks' = asks \cup riders /\ riders' = {} /\ UNCHANGED <<sent, returned>>
    BY <1>5 DEF Drop, Cut, ReplayFails
  <2>. QED BY <2>1 DEF CallerTypes
<1>6. CASE Refuse
  <2>1. asks' = {} /\ UNCHANGED <<riders, sent, returned>>
    BY <1>6 DEF Refuse
  <2>. QED BY <2>1 DEF CallerTypes
<1>7. CASE Update
  <2>1. /\ UNCHANGED <<riders, returned>>
        /\ \/ UNCHANGED <<asks, sent>>
           \/ sent' = 0 /\ \E n \in {0, sent} : asks' = asks \cup {Waiter("fail", n)}
    BY <1>7 DEF Update, FailsUnanswered
  <2>2. \A n \in {0, sent} : Waiter("fail", n) \in Waiters
    BY WaitersAre DEF CallerTypes
  <2>. QED BY <2>1, <2>2 DEF CallerTypes
<1>8. ASSUME NEW p \in Prompt, NEW from \in {0} \cup Turn, Send(p, from)
      PROVE  CallerTypes'
  <2>1. sent' = 0 /\ UNCHANGED <<asks, riders, returned>>
    BY <1>8 DEF Send
  <2>. QED BY <2>1 DEF CallerTypes
<1>9. ASSUME NEW p \in Prompt, Accepted(p) PROVE CallerTypes'
  <2>1. sent' = p /\ UNCHANGED <<asks, riders, returned>>
    BY <1>9 DEF Accepted
  <2>. QED BY <2>1 DEF CallerTypes
<1>10. ASSUME NEW p \in Prompt, Refused(p) PROVE CallerTypes'
  <2>1. returned' = returned \cup {p} /\ UNCHANGED <<asks, riders, sent>>
    BY <1>10 DEF Refused
  <2>. QED BY <2>1 DEF CallerTypes
<1>11. CASE LoadOlder
  <2>1. /\ UNCHANGED <<riders, sent, returned>> /\ loads' = loads + 1 /\ loads < MaxLoads
        /\ asks' = asks \cup {Waiter("load", loads')} \/ asks' = asks
    BY <1>11 DEF LoadOlder
  <2>2. loads' \in Load
    BY <2>1, ThreadAssumption DEF PagingInv, Load
  <2>3. Waiter("load", loads') \in Waiters
    BY <2>2, WaitersAre
  <2>. QED BY <2>1, <2>3 DEF CallerTypes
<1>12. CASE Join
  <2>1. riders' = asks /\ asks' = {} /\ UNCHANGED <<sent, returned>>
    BY <1>12 DEF Join, browser
  <2>. QED BY <2>1 DEF CallerTypes
<1>13. CASE Announce \/ ReportGone \/ Run \/ Part \/ Vanish
  <2>1. UNCHANGED <<asks, riders, sent, returned>>
    BY <1>13 DEF Announce, ReportGone, Run, Part, Vanish, browser
  <2>. QED BY <1>1, <2>1
<1>14. ASSUME NEW l \in Load, Land(l) \/ Serve(l) \/ Deny(l) PROVE CallerTypes'
  <2>1. UNCHANGED <<asks, riders, sent, returned>>
    BY <1>14 DEF Land, Serve, Deny, browser
  <2>. QED BY <1>1, <2>1
<1>15. ASSUME NEW p \in Prompt, Answer(p) PROVE CallerTypes'
  <2>1. UNCHANGED <<asks, riders, sent, returned>>
    BY <1>15 DEF Answer, browser
  <2>. QED BY <1>1, <2>1
<1>16. CASE \E status \in {"idle", "failed"}, kept \in BOOLEAN : Finish(status, kept)
  <2>1. UNCHANGED <<asks, riders, sent, returned>>
    BY <1>16 DEF Finish, browser
  <2>. QED BY <1>1, <2>1
<1>17. CASE UNCHANGED vars
  BY <1>1, <1>17 DEF vars
<1>. QED BY <1>2, <1>3, <1>4, <1>5, <1>6, <1>7, <1>8, <1>9, <1>10, <1>11, <1>12, <1>13,
            <1>14, <1>15, <1>16, <1>17
     DEF Next

-----------------------------------------------------------------------------
(* What the thread shows.                                                  *)

ReplaySet ==
  [on : BOOLEAN, owned : BOOLEAN, rewound : BOOLEAN, prior : Thread]
ReplaceSet == [on : BOOLEAN, ids : SUBSET RowId]

(* Rows are there once; what is shown lags behind only during a replay;    *)
(* and nothing runs in a Session reported gone.                            *)
RowsStand ==
  /\ Clean(thread) /\ Clean(shown) /\ Clean(replay.prior)
  /\ replay \in ReplaySet /\ replacing \in ReplaceSet
  /\ replay.on \/ shown = thread
  /\ seenGone => thread.exec # "running"

(* A replay with a new flag has the state it began from.                   *)
LEMMA ReplayFlags ==
  ASSUME NEW r \in ReplaySet, NEW b \in BOOLEAN
  PROVE  /\ [r EXCEPT !.owned = b] \in ReplaySet /\ [r EXCEPT !.owned = b].on = r.on
         /\ [r EXCEPT !.owned = b].prior = r.prior
         /\ [r EXCEPT !.rewound = b] \in ReplaySet /\ [r EXCEPT !.rewound = b].on = r.on
         /\ [r EXCEPT !.rewound = b].prior = r.prior
BY DEF ReplaySet

(* The transcript a thread starts with.                                    *)
LEMMA EmptyIsClean == Clean(Empty)
BY DEF Clean, Once, Empty, Thread, Status

(* The state between replays.                                              *)
LEMMA NoReplayIs ==
  NoReplay \in ReplaySet /\ NoReplay.prior = Empty /\ NoReplay.on = FALSE
  /\ NoReplace \in ReplaceSet
<1>1. Empty \in Thread
  BY EmptyIsClean DEF Clean
<1>. QED BY <1>1 DEF NoReplay, NoReplace, ReplaySet, ReplaceSet

(* A state of the thread is told to its listeners.                         *)
LEMMA CommitStands ==
  ASSUME RowsStand, NEW t, Clean(t), Commit(t), seenGone' => t.exec # "running",
         replay' \in ReplaySet, replay'.on = replay.on, Clean(replay'.prior),
         replacing' \in ReplaceSet
  PROVE  RowsStand'
BY DEF RowsStand, Commit

(* What a replay that settles leaves.                                      *)
LEMMA Outcomes ==
  ASSUME RowsStand, NEW done \in BOOLEAN
  PROVE  /\ Clean(Outcome(done))
         /\ ~done /\ seenGone => Outcome(done).exec # "running"
<1>1. Clean(Cleared(thread, replacing.ids))
  BY Drops DEF RowsStand
<1>2. Clean(FailSession(replay.prior)) /\ FailSession(replay.prior).exec = "failed"
  BY Fails DEF RowsStand
<1>. QED BY <1>1, <1>2 DEF RowsStand, Outcome

(* A replay that ends or fails is over.                                    *)
LEMMA EndsStand ==
  ASSUME RowsStand, WireStands, ReplayEnd
  PROVE  RowsStand'
<1> DEFINE after == IF replay.on THEN Outcome(TRUE) ELSE thread
           told == IF Failing(riders) THEN FailLatest(after) ELSE after
<1>1. /\ wire # <<>> /\ Head(wire).kind = "end" /\ replay' = NoReplay
      /\ thread' = told /\ shown' = told /\ seenGone' = seenGone
      /\ replacing' = IF replay.on THEN NoReplace ELSE replacing
  BY DEF ReplayEnd
<1>2. ~seenGone
  <2>1. wire \in Seq(Event)
    BY DEF WireStands
  <2>2. Head(wire) = wire[1] /\ 1 \in DOMAIN wire
    BY <1>1, <2>1, TailOf
  <2>. QED BY <1>1, <2>2 DEF WireStands, OnlyCuts
<1>3. Clean(after)
  BY Outcomes DEF RowsStand
<1>4. Clean(told)
  BY <1>3, Fails
<1> HIDE DEF told
<1>. QED BY <1>1, <1>2, <1>4, NoReplayIs, EmptyIsClean DEF RowsStand

(* A replay that fails is discarded.                                       *)
LEMMA FailsStand ==
  ASSUME RowsStand, ReplayFails, seenGone' = seenGone
  PROVE  RowsStand'
<1> DEFINE t == IF replay.on THEN Outcome(FALSE) ELSE thread
<1>1. /\ thread' = t /\ shown' = t /\ replay' = NoReplay
      /\ replacing' = IF replay.on THEN NoReplace ELSE replacing
  BY DEF ReplayFails
<1>2. Clean(t) /\ (seenGone => t.exec # "running")
  BY Outcomes DEF RowsStand
<1> HIDE DEF t
<1>. QED BY <1>1, <1>2, NoReplayIs, EmptyIsClean DEF RowsStand

(* An update is shown, and a failure that finds no reply.                  *)
LEMMA UpdateStands ==
  ASSUME RowsStand, WireStands, Update
  PROVE  RowsStand'
<1> DEFINE e == Head(wire)
           base == IF replacing.on THEN Cleared(thread, replacing.ids) ELSE thread
           next == Applied(base, e)
<1>1. wire # <<>> /\ e.kind \in Updates /\ UNCHANGED <<replay, seenGone>>
  BY DEF Update
<1>2. ~seenGone /\ e \in Event
  <2>1. wire \in Seq(Event)
    BY DEF WireStands
  <2>2. e \in Event /\ e = wire[1] /\ 1 \in DOMAIN wire
    BY <1>1, <2>1, TailOf
  <2>. QED BY <1>1, <2>2 DEF WireStands, OnlyCuts, Updates
<1>3. CASE ~bound
  <2>1. UNCHANGED <<thread, shown, replacing>>
    BY <1>3 DEF Update
  <2>. QED BY <1>1, <2>1 DEF RowsStand
<1>4. CASE bound
  <2>1. replacing' = NoReplace /\ (Commit(next) \/ Commit(FailLatest(next)))
    BY <1>4 DEF Update, FailsUnanswered
  <2>2. Clean(base)
    BY Drops DEF RowsStand
  <2> HIDE DEF base, e
  <2>3. Clean(next)
    BY <1>1, <1>2, <2>2, Applies
  <2> HIDE DEF next
  <2>4. Clean(FailLatest(next))
    BY <2>3, Fails
  <2>5. replay' \in ReplaySet /\ replay'.on = replay.on /\ Clean(replay'.prior)
        /\ NoReplace \in ReplaceSet
    BY <1>1, NoReplayIs DEF RowsStand
  <2>6. CASE Commit(next)
    BY <1>1, <1>2, <2>1, <2>3, <2>5, <2>6, CommitStands
  <2>7. CASE Commit(FailLatest(next))
    BY <1>1, <1>2, <2>1, <2>4, <2>5, <2>7, CommitStands
  <2>. QED BY <2>1, <2>6, <2>7
<1>. QED BY <1>3, <1>4

(* What the operator does with prompts is shown.                           *)
LEMMA PromptsShown ==
  ASSUME RowsStand, ProviderInv, NEW p \in Prompt,
         \/ \E from \in {0} \cup Turn : Send(p, from)
         \/ Accepted(p) \/ Refused(p)
  PROVE  RowsStand'
<1>1. Clean(thread) /\ replay \in ReplaySet /\ Clean(replay.prior)
      /\ (seenGone => thread.exec # "running") /\ replacing \in ReplaceSet
  BY DEF RowsStand
<1>2. ASSUME NEW from \in {0} \cup Turn, Send(p, from) PROVE RowsStand'
  <2>1. Commit(Echo(thread, Local(p))) /\ UNCHANGED <<replacing, replay, seenGone>>
    BY <1>2 DEF Send
  <2>2. Clean(Echo(thread, Local(p))) /\ Echo(thread, Local(p)).exec = thread.exec
    BY <1>1, Rows, Echoes
  <2>. QED BY <1>1, <2>1, <2>2, CommitStands
<1>3. CASE Accepted(p)
  <2> DEFINE from == prompts[p].from
             turn == prompts[p].turn
             back == Rewound(thread, from, p)
             t == Renamed(back, p, turn)
  <2>1. /\ prompts[p].phase = "accepted" /\ Commit(t) /\ UNCHANGED <<replacing, seenGone>>
        /\ replay' = replay \/ replay' = [replay EXCEPT !.rewound = replay.on]
    BY <1>3 DEF Accepted
  <2>2. from \in {0} \cup Turn /\ turn \in Turn
    BY <2>1 DEF ProviderInv, ProviderTypes, Counted, Began
  <2> HIDE DEF from, turn
  <2>3. Clean(back) /\ back.exec = thread.exec
    BY <1>1, <2>2, Rewinds
  <2> HIDE DEF back
  <2>4. Clean(t) /\ t.exec = thread.exec
    BY <2>2, <2>3, Renames
  <2> HIDE DEF t
  <2>5. replay' \in ReplaySet /\ replay'.on = replay.on /\ Clean(replay'.prior)
    <3>1. replay.on \in BOOLEAN
      BY <1>1 DEF ReplaySet
    <3>. QED BY <1>1, <2>1, <3>1, ReplayFlags
  <2>. QED BY <1>1, <2>1, <2>4, <2>5, CommitStands
<1>4. CASE Refused(p)
  <2> DEFINE less == Without(thread, {Local(p)})
  <2>1. Commit(FailLatest(less)) /\ UNCHANGED <<replacing, replay, seenGone>>
    BY <1>4 DEF Refused
  <2>2. Clean(less) /\ less.exec = thread.exec
    BY <1>1, Drops
  <2> HIDE DEF less
  <2>3. Clean(FailLatest(less)) /\ FailLatest(less).exec = thread.exec
    BY <2>2, Fails
  <2>. QED BY <1>1, <2>1, <2>3, CommitStands
<1>. QED BY <1>2, <1>3, <1>4

(* No step leaves a row twice, or a run in a Session reported gone.        *)
LEMMA RowsStep ==
  ASSUME RowsStand, WireStands, ProviderInv, PagingInv, [Next]_vars
  PROVE  RowsStand'
<1>0. /\ Clean(thread) /\ Clean(shown) /\ Clean(replay.prior)
      /\ replay \in ReplaySet /\ replacing \in ReplaceSet
      /\ (seenGone => thread.exec # "running")
  BY DEF RowsStand
<1>1. ASSUME UNCHANGED <<thread, shown, replay, replacing>>, seenGone' => seenGone
      PROVE  RowsStand'
  BY <1>1 DEF RowsStand
<1>2. CASE Bind
  <2>1. UNCHANGED <<thread, shown, replay, replacing>> /\ seenGone' = FALSE
    BY <1>2 DEF Bind
  <2>. QED BY <1>1, <2>1
<1>3. CASE Unbind
  <2>1. /\ UNCHANGED <<thread, shown, replacing, seenGone>>
        /\ replay' = [replay EXCEPT !.owned = FALSE]
    BY <1>3 DEF Unbind
  <2>. QED BY <1>0, <2>1, ReplayFlags DEF RowsStand
<1>4. CASE Announce
  <2>1. UNCHANGED <<thread, shown, seenGone>>
    BY <1>4 DEF Announce
  <2>2. CASE bound
    <3>1. /\ replacing' = [on |-> TRUE, ids |-> Replaced(thread)]
          /\ replay' = [on |-> TRUE, owned |-> TRUE, rewound |-> FALSE, prior |-> thread]
      BY <1>4, <2>2 DEF Announce
    <3>2. replay' \in ReplaySet /\ replay'.prior = thread /\ replay'.on
      BY <1>0, <3>1 DEF ReplaySet, Clean
    <3>3. Replaced(thread) \subseteq RowId
      <4>1. \A i \in DOMAIN thread.rows : thread.rows[i] \in Row
        BY <1>0, Fields DEF Clean
      <4>. QED BY <4>1, Rows DEF Replaced, Ids
    <3>4. replacing' \in ReplaceSet
      BY <3>1, <3>3 DEF ReplaceSet
    <3>. QED BY <1>0, <2>1, <3>2, <3>4 DEF RowsStand
  <2>3. CASE ~bound
    <3>1. UNCHANGED <<replacing, replay>>
      BY <1>4, <2>3 DEF Announce
    <3>. QED BY <1>1, <2>1, <3>1
  <2>. QED BY <2>2, <2>3
<1>5. CASE ReplayEnd
  BY <1>5, EndsStand
<1>6. CASE Drop \/ Cut
  <2>1. ReplayFails /\ seenGone' = seenGone
    BY <1>6 DEF Drop, Cut
  <2>. QED BY <2>1, FailsStand
<1>7. CASE Refuse
  <2>1. /\ Commit(FailLatest(thread)) \/ Commit(thread)
        /\ UNCHANGED <<replay, replacing, seenGone>>
    BY <1>7 DEF Refuse
  <2>2. Clean(FailLatest(thread)) /\ FailLatest(thread).exec = thread.exec
    BY <1>0, Fails
  <2>3. CASE Commit(thread)
    BY <1>0, <2>1, <2>3, CommitStands
  <2>4. CASE Commit(FailLatest(thread))
    BY <1>0, <2>1, <2>2, <2>4, CommitStands
  <2>. QED BY <2>1, <2>3, <2>4
<1>8. CASE Update
  BY <1>8, UpdateStands
<1>9. CASE ReportGone
  <2>1. UNCHANGED <<replay, replacing>>
    BY <1>9 DEF ReportGone
  <2>2. CASE bound
    <3>1. Commit(FailSession(thread))
      BY <1>9, <2>2 DEF ReportGone
    <3>2. Clean(FailSession(thread)) /\ FailSession(thread).exec = "failed"
      BY <1>0, Fails
    <3>. QED BY <1>0, <2>1, <3>1, <3>2, CommitStands
  <2>3. CASE ~bound
    <3>1. UNCHANGED <<thread, shown, seenGone>>
      BY <1>9, <2>3 DEF ReportGone
    <3>. QED BY <1>1, <2>1, <3>1
  <2>. QED BY <2>2, <2>3
<1>10. ASSUME NEW p \in Prompt,
              Accepted(p) \/ Refused(p) \/ \E from \in {0} \cup Turn : Send(p, from)
       PROVE  RowsStand'
  BY <1>10, PromptsShown
<1>11. ASSUME NEW l \in Load, Land(l) PROVE RowsStand'
  <2>1. UNCHANGED <<replay, replacing, seenGone>>
        /\ (Commit(Prepended(thread, load[l].page)) \/ UNCHANGED <<thread, shown>>)
    BY <1>11 DEF Land
  <2>2. load[l].page \in Seq(Held) /\ Once(load[l].page)
    BY PageFields DEF PagingInv
  <2>3. /\ Clean(Prepended(thread, load[l].page))
        /\ Prepended(thread, load[l].page).exec = thread.exec
    BY <1>0, <2>2, Prepends
  <2>4. CASE Commit(Prepended(thread, load[l].page))
    BY <1>0, <2>1, <2>3, <2>4, CommitStands
  <2>5. CASE UNCHANGED <<thread, shown>>
    BY <1>1, <2>1, <2>5
  <2>. QED BY <2>1, <2>4, <2>5
<1>12. ASSUME NEW l \in Load, Serve(l) \/ Deny(l) PROVE RowsStand'
  <2>1. UNCHANGED <<thread, shown, replay, replacing, seenGone>>
    BY <1>12 DEF Serve, Deny, browser
  <2>. QED BY <1>1, <2>1
<1>13. ASSUME NEW p \in Prompt, Answer(p) PROVE RowsStand'
  <2>1. UNCHANGED <<thread, shown, replay, replacing, seenGone>>
    BY <1>13 DEF Answer, browser
  <2>. QED BY <1>1, <2>1
<1>14. CASE LoadOlder \/ Join \/ Run \/ Part \/ Vanish
  <2>1. UNCHANGED <<thread, shown, replay, replacing, seenGone>>
    BY <1>14 DEF LoadOlder, Join, Run, Part, Vanish, browser
  <2>. QED BY <1>1, <2>1
<1>15. CASE \E status \in {"idle", "failed"}, kept \in BOOLEAN : Finish(status, kept)
  <2>1. UNCHANGED <<thread, shown, replay, replacing, seenGone>>
    BY <1>15 DEF Finish, browser
  <2>. QED BY <1>1, <2>1
<1>16. CASE UNCHANGED vars
  BY <1>1, <1>16 DEF vars
<1>. QED BY <1>2, <1>3, <1>4, <1>5, <1>6, <1>7, <1>8, <1>9, <1>10, <1>11, <1>12, <1>13,
            <1>14, <1>15, <1>16
     DEF Next

-----------------------------------------------------------------------------
(* The thread as a whole.                                                  *)

Inv ==
  /\ Flags /\ ProviderInv /\ WireStands /\ PagingInv /\ CallerTypes /\ RowsStand

(* The turns the Session opens with.                                       *)
LEMMA Opens ==
  LET s == [n \in 1..History |-> [id |-> n, parts |-> 1]] IN
  /\ s \in Seq(Held) /\ Once(s) /\ \A i \in DOMAIN s : s[i].id <= History
<1> DEFINE s == [n \in 1..History |-> [id |-> n, parts |-> 1]]
<1>1. History \in Nat /\ MaxPrompts \in Nat
  BY ThreadAssumption
<1>2. ASSUME NEW n \in 1..History PROVE [id |-> n, parts |-> 1] \in Held
  <2>1. n \in 1..(History + MaxPrompts)
    BY <1>1
  <2>. QED BY <2>1 DEF Held, Turn
<1>3. s \in [1..History -> Held]
  BY <1>2
<1>4. s \in Seq(Held)
  BY <1>1, <1>3
<1>. QED BY <1>1, <1>4 DEF Once

(* The first state.                                                        *)
LEMMA Starts == Init => Inv
<1> SUFFICES ASSUME Init PROVE Inv
  OBVIOUS
<1>1. Flags
  <2>1. MaxBreaks \in Nat
    BY ThreadAssumption
  <2>2. breaks \in 0..MaxBreaks
    BY <2>1 DEF Init
  <2>3. bound = FALSE /\ seenGone = FALSE /\ joined = FALSE
    BY DEF Init
  <2>4. revived = {}
    BY DEF Init
  <2>. QED BY <2>2, <2>3, <2>4 DEF Flags
<1>2. ProviderInv
  <2>1. /\ store = [n \in 1..History |-> [id |-> n, parts |-> 1]] /\ undo = store
        /\ live = 0 /\ running = FALSE /\ settled = "idle" /\ gone = FALSE
        /\ turns = History /\ epoch = 0 /\ unkept = {}
        /\ prompts = [p \in Prompt |-> [phase |-> "none", turn |-> 0, from |-> 0]]
    BY DEF Init
  <2>2. /\ store \in Seq(Held) /\ Once(store)
        /\ \A i \in DOMAIN store : store[i].id <= turns
    BY <2>1, Opens
  <2>3. turns \in {0} \cup Turn
    BY <2>1, ThreadAssumption DEF Turn
  <2>4. prompts \in [Prompt -> [phase : Over \cup {"sent", "accepted", "refused", "lost"},
                                turn : {0} \cup Turn, from : {0} \cup Turn]]
    BY <2>1 DEF Over
  <2>5. ProviderTypes
    BY <2>1, <2>2, <2>3, <2>4 DEF ProviderTypes
  <2>6. TurnsStand
    BY <2>1, <2>2 DEF TurnsStand
  <2>7. Counted
    <3>1. Taken = {}
      BY <2>1 DEF Taken
    <3>2. Cardinality(Taken) = 0
      BY <3>1, FS_EmptySet
    <3>3. turns = History + Cardinality(Taken)
      BY <2>1, <3>2, ThreadAssumption
    <3>. QED BY <2>1, <3>3 DEF Counted, Began
  <2>. QED BY <2>5, <2>6, <2>7 DEF ProviderInv
<1>3. WireStands
  BY DEF Init, WireStands, CutsAfter
<1>4. PagingInv
  <2>1. /\ cursor = NoCursor /\ stale = FALSE /\ olderLoading = FALSE
        /\ olderFailed = FALSE /\ load = [l \in Load |-> NoLoad] /\ loads = 0
    BY DEF Init
  <2>2. MaxLoads \in Nat
    BY ThreadAssumption
  <2>3. load \in [Load -> PageState] /\ cursor \in Cursor
    BY <2>1, PageStates
  <2>4. loads \in 0..MaxLoads
    BY <2>1, <2>2
  <2>5. {stale, olderLoading, olderFailed} \subseteq BOOLEAN
    BY <2>1
  <2>. QED BY <2>3, <2>4, <2>5 DEF PagingInv
<1>5. CallerTypes
  BY DEF Init, CallerTypes
<1>6. RowsStand
  BY EmptyIsClean, NoReplayIs DEF Init, RowsStand
<1>. QED BY <1>1, <1>2, <1>3, <1>4, <1>5, <1>6 DEF Inv

(* What a failed replay brings back are rows.                              *)
LEMMA RevivedAreRows ==
  ASSUME ReplayFails, revived \subseteq RowId
  PROVE  revived' \subseteq RowId
<1>1. {Local(p) : p \in Prompt} \subseteq RowId
  BY DEF Local, RowId
<1>2. revived' = revived \cup
        ({Local(p) : p \in Prompt} \cap (Ids(thread') \ Ids(thread)))
  BY DEF ReplayFails
<1>. QED BY <1>1, <1>2

(* The flags, and the breaks MaxBreaks bounds.                             *)
LEMMA FlagsStep ==
  ASSUME Flags, [Next]_vars
  PROVE  Flags'
<1>1. ASSUME bound' \in BOOLEAN, seenGone' \in BOOLEAN, joined' \in BOOLEAN,
             breaks' \in 0..MaxBreaks, revived' \subseteq RowId
      PROVE  Flags'
  BY <1>1 DEF Flags
<1>2. /\ bound \in BOOLEAN /\ seenGone \in BOOLEAN /\ joined \in BOOLEAN
      /\ breaks \in 0..MaxBreaks /\ MaxBreaks \in Nat /\ revived \subseteq RowId
  BY ThreadAssumption DEF Flags
<1>3. CASE Bind \/ Announce \/ ReplayEnd \/ Refuse \/ Update \/ LoadOlder
  <2>1. bound' \in {bound, TRUE} /\ seenGone' \in {seenGone, FALSE}
        /\ UNCHANGED <<joined, breaks, revived>>
    BY <1>3 DEF Bind, Announce, ReplayEnd, Refuse, Update, LoadOlder
  <2>. QED BY <1>1, <1>2, <2>1
<1>4. CASE Unbind
  <2>1. /\ breaks < MaxBreaks /\ breaks' = breaks + 1 /\ bound' = FALSE
        /\ UNCHANGED <<joined, seenGone, revived>>
    BY <1>4 DEF Unbind
  <2>2. breaks' \in 0..MaxBreaks
    BY <1>2, <2>1
  <2>. QED BY <1>1, <1>2, <2>1, <2>2
<1>5. CASE Drop
  <2>1. /\ breaks < MaxBreaks /\ breaks' = breaks + 1 /\ joined' = FALSE
        /\ UNCHANGED <<bound, seenGone>>
    BY <1>5 DEF Drop
  <2>2. breaks' \in 0..MaxBreaks
    BY <1>2, <2>1
  <2>3. revived' \subseteq RowId
    BY <1>2, <1>5, RevivedAreRows DEF Drop
  <2>. QED BY <1>1, <1>2, <2>1, <2>2, <2>3
<1>6. CASE ReportGone
  <2>1. seenGone' \in {seenGone, TRUE} /\ UNCHANGED <<bound, joined, breaks, revived>>
    BY <1>6 DEF ReportGone
  <2>. QED BY <1>1, <1>2, <2>1
<1>7. ASSUME NEW p \in Prompt,
             Accepted(p) \/ Refused(p) \/ Answer(p) \/ \E from \in {0} \cup Turn : Send(p, from)
      PROVE  Flags'
  <2>1. UNCHANGED <<bound, seenGone, joined, breaks, revived>>
    BY <1>7 DEF Accepted, Refused, Answer, Send, browser
  <2>. QED BY <1>1, <1>2, <2>1
<1>8. ASSUME NEW l \in Load, Land(l) \/ Serve(l) \/ Deny(l) PROVE Flags'
  <2>1. UNCHANGED <<bound, seenGone, joined, breaks, revived>>
    BY <1>8 DEF Land, Serve, Deny, browser
  <2>. QED BY <1>1, <1>2, <2>1
<1>9. CASE Join
  <2>1. joined' = TRUE /\ UNCHANGED <<bound, seenGone, breaks, revived>>
    BY <1>9 DEF Join, browser
  <2>. QED BY <1>1, <1>2, <2>1
<1>10. CASE Run \/ Part \/ Vanish
              \/ \E status \in {"idle", "failed"}, kept \in BOOLEAN : Finish(status, kept)
  <2>1. UNCHANGED <<bound, seenGone, joined, breaks, revived>>
    BY <1>10 DEF Run, Part, Vanish, Finish, browser
  <2>. QED BY <1>1, <1>2, <2>1
<1>11. CASE Cut
  <2>1. UNCHANGED <<bound, seenGone, joined, breaks>>
    BY <1>11 DEF Cut
  <2>2. revived' \subseteq RowId
    BY <1>2, <1>11, RevivedAreRows DEF Cut
  <2>. QED BY <1>1, <1>2, <2>1, <2>2
<1>12. CASE UNCHANGED vars
  <2>1. UNCHANGED <<bound, seenGone, joined, breaks, revived>>
    BY <1>12 DEF vars
  <2>. QED BY <1>1, <1>2, <2>1
<1>. QED BY <1>3, <1>4, <1>5, <1>6, <1>7, <1>8, <1>9, <1>10, <1>11, <1>12 DEF Next

(* The invariant is inductive.                                             *)
LEMMA Steps == Inv /\ [Next]_vars => Inv'
<1> SUFFICES ASSUME Inv, [Next]_vars PROVE Inv'
  OBVIOUS
<1>1. /\ Flags /\ ProviderInv /\ WireStands /\ PagingInv /\ CallerTypes /\ RowsStand
  BY DEF Inv
<1>2. Flags'
  BY <1>1, FlagsStep
<1>3. ProviderInv'
  BY <1>1, ProviderStep
<1>4. WireStands'
  BY <1>1, <1>3, WireStep
<1>5. PagingInv'
  BY <1>1, PagingStep
<1>6. CallerTypes'
  BY <1>1, CallerStep
<1>7. RowsStand'
  BY <1>1, RowsStep
<1>. QED BY <1>2, <1>3, <1>4, <1>5, <1>6, <1>7 DEF Inv

(* Every reachable state satisfies the invariant.                          *)
LEMMA Invariant == Spec => []Inv
BY Starts, Steps, PTL DEF Spec

(* Every variable has its type: what the provider holds and asks, every    *)
(* update on its way, and what the thread holds, shows and waits for.      *)
THEOREM TypeCorrect == Spec => []TypeOK
<1>1. Inv => TypeOK
  <2> SUFFICES ASSUME Inv PROVE TypeOK
    OBVIOUS
  <2>1. PagingTypes
    <3>1. PagingInv
      BY DEF Inv
    <3>2. PageState \subseteq
            [phase : {"none", "rebuild", "reading", "served", "failed"},
             fresh : BOOLEAN, from : Cursor, page : Seq(Held)]
      BY DEF PageState, LoadState, LoadPhase
    <3>. QED BY <3>1, <3>2 DEF PagingInv, PagingTypes
  <2>2. RowTypes
    BY DEF Inv, RowsStand, RowTypes, Clean, ReplaySet, ReplaceSet
  <2>. QED BY <2>1, <2>2 DEF Inv, Flags, ProviderInv, WireStands, TypeOK
<1>. QED BY <1>1, Invariant, PTL

(* Once the binding was told the Session is gone, no update, failed replay *)
(* or put-back transcript makes it run again, nor read as running once the *)
(* replay is over: onGone and the replay's settle in use-acp-runtime.ts.   *)
THEOREM GoneStops == Spec => []GoneEndsTheRun
<1>1. Inv => GoneEndsTheRun
  BY DEF Inv, RowsStand, GoneEndsTheRun
<1>. QED BY <1>1, Invariant, PTL

(* Whatever replays, echoes, renames, rewinds and older pages race, no row *)
(* is in the transcript twice: the projector's upserts and prependMessages.*)
THEOREM NeverTwice == Spec => []RowsOnce
<1>1. Inv => RowsOnce
  BY DEF Inv, RowsStand, Clean, Once, RowsOnce
<1>. QED BY <1>1, Invariant, PTL
-----------------------------------------------------------------------------
(* Messages handed back.                                                   *)

HoldsTurn == \E i \in DOMAIN store : store[i].id = turns

(* The latest turn stands last, and undoing the live one removes it.       *)
LatestIsLast ==
  /\ \A i \in DOMAIN store : store[i].id = turns => i = Len(store)
  /\ live # 0 => \A i \in DOMAIN undo : undo[i].id # turns

(* Every turn since the thread opened is one prompt's; and while a prompt  *)
(* accepted waits for its reply no other turn begins.                      *)
PromptsTell ==
  /\ turns = History \/ \E p \in Prompt : prompts[p].turn = turns
  /\ \A p, q \in Prompt :
       prompts[p].turn # 0 /\ prompts[p].turn = prompts[q].turn => p = q
  /\ \A p \in Prompt :
       /\ prompts[p].turn # 0 => prompts[p].turn \in (History + 1)..turns
       /\ prompts[p].phase \in {"refused", "back"} => prompts[p].turn = 0
       /\ prompts[p].phase = "accepted" =>
            prompts[p].turn = turns /\ ~running /\ (live # 0 \/ gone)

(* A prompt that is over stays as it ended.                                *)
LEMMA OverStays ==
  ASSUME ProviderInv, NEW p \in Prompt, prompts[p].phase \in {"kept", "back", "doubt"},
         [Next]_vars
  PROVE  prompts'[p] = prompts[p]
<1>1. prompts \in [Prompt -> PromptState]
  BY DEF ProviderInv, ProviderTypes, PromptState, Phase
<1>2. CASE UNCHANGED prompts
  BY <1>2
<1>3. CASE Bind \/ Unbind \/ Announce \/ ReplayEnd \/ Cut \/ Refuse \/ Update
             \/ ReportGone \/ LoadOlder \/ Join \/ Run \/ Part \/ Vanish
             \/ \E status \in {"idle", "failed"}, kept \in BOOLEAN : Finish(status, kept)
  <2>1. UNCHANGED prompts
    BY <1>3 DEF Bind, Unbind, Announce, ReplayEnd, Cut, Refuse, Update, ReportGone,
                LoadOlder, Join, Run, Part, Vanish, Finish
  <2>. QED BY <2>1
<1>4. ASSUME NEW l \in Load, Land(l) \/ Serve(l) \/ Deny(l)
      PROVE  prompts'[p] = prompts[p]
  BY <1>4 DEF Land, Serve, Deny
<1>5. CASE Drop
  <2>1. PICK ps \in SUBSET {q \in Prompt : prompts[q].phase = "accepted"} :
          prompts' = [q \in Prompt |->
            [prompts[q] EXCEPT !.phase = IF q \in ps THEN "lost" ELSE prompts[q].phase]]
    BY <1>5 DEF Drop
  <2>2. p \notin ps /\ prompts[p] \in PromptState
    BY <1>1, <2>1
  <2>3. prompts'[p] = [prompts[p] EXCEPT !.phase = prompts[p].phase]
    BY <2>1, <2>2
  <2>. QED BY <2>2, <2>3 DEF PromptState
<1>6. ASSUME NEW q \in Prompt, NEW from \in {0} \cup Turn, Send(q, from)
      PROVE  prompts'[p] = prompts[p]
  <2>1. q # p
    BY <1>6 DEF Send
  <2>. QED BY <1>1, <1>6, <2>1 DEF Send
<1>7. ASSUME NEW q \in Prompt, Accepted(q) \/ Refused(q)
      PROVE  prompts'[p] = prompts[p]
  <2>1. q # p /\ \E x : Ends(q, x)
    BY <1>7 DEF Accepted, Refused
  <2>. QED BY <1>1, <2>1 DEF Ends
<1>8. ASSUME NEW q \in Prompt, Answer(q)
      PROVE  prompts'[p] = prompts[p]
  <2>1. q # p
    BY <1>8 DEF Answer
  <2>2. \/ \E n : prompts' = [prompts EXCEPT ![q].phase = "accepted", ![q].turn = n]
        \/ prompts' = [prompts EXCEPT ![q].phase = "refused"]
    BY <1>8 DEF Answer, Take
  <2>. QED BY <1>1, <2>1, <2>2
<1>9. CASE UNCHANGED vars
  BY <1>9 DEF vars
<1>. QED BY <1>3, <1>4, <1>5, <1>6, <1>7, <1>8, <1>9 DEF Next

(* Turns begin and end in the store's order.                               *)
LEMMA LatestStep ==
  ASSUME ProviderInv, ProviderInv', LatestIsLast, [Next]_vars
  PROVE  LatestIsLast'
<1>1. /\ store' \in Seq(Held) /\ turns \in Nat
      /\ \A i \in DOMAIN store : store[i].id \in Nat /\ store[i].id <= turns
  <2>1. \A x \in Held : x.id \in Nat
    BY ThreadAssumption DEF Held, Turn
  <2>2. turns \in Nat
    BY ThreadAssumption DEF ProviderInv, ProviderTypes, Turn
  <2>3. store \in Seq(Held) /\ store' \in Seq(Held)
    BY DEF ProviderInv, ProviderTypes
  <2>. QED BY <2>1, <2>2, <2>3 DEF ProviderInv, TurnsStand
<1>2. live' # 0 => \A i \in DOMAIN store' : store'[i].id = turns' => i = Len(store')
  <2>1. ASSUME live' # 0 PROVE store' # <<>> /\ Last(store').id = turns' /\ Once(store')
    BY <2>1 DEF ProviderInv, TurnsStand
  <2>2. ASSUME live' # 0
        PROVE  Len(store') \in DOMAIN store' /\ Last(store') = store'[Len(store')]
    BY <1>1, <2>1, <2>2 DEF Last
  <2>. QED BY <2>1, <2>2 DEF Once
<1>3. ASSUME UNCHANGED <<store, undo, live, turns>> PROVE LatestIsLast'
  BY <1>3 DEF LatestIsLast
<1>4. CASE UNCHANGED provider
  BY <1>3, <1>4 DEF provider
<1>5. CASE Bind \/ Unbind \/ Announce \/ ReplayEnd \/ Drop \/ Cut \/ Refuse \/ Update
             \/ ReportGone \/ LoadOlder \/ Join
  <2>1. UNCHANGED provider
    BY <1>5 DEF Bind, Unbind, Announce, ReplayEnd, Drop, Cut, Refuse, Update, ReportGone,
                LoadOlder, Join
  <2>. QED BY <1>4, <2>1
<1>6. ASSUME NEW l \in Load, Land(l) \/ Serve(l) \/ Deny(l) PROVE LatestIsLast'
  <2>1. UNCHANGED provider
    BY <1>6 DEF Land, Serve, Deny
  <2>. QED BY <1>4, <2>1
<1>7. ASSUME NEW p \in Prompt,
             Accepted(p) \/ Refused(p) \/ \E from \in {0} \cup Turn : Send(p, from)
      PROVE  LatestIsLast'
  <2>1. UNCHANGED provider
    BY <1>7 DEF Accepted, Refused, Send
  <2>. QED BY <1>4, <2>1
<1>8. CASE Run
  <2>1. UNCHANGED <<store, undo, live, turns>>
    BY <1>8 DEF Run
  <2>. QED BY <1>3, <2>1
<1>9. CASE Part
  <2>1. running /\ UNCHANGED <<undo, live, turns>>
    BY <1>9 DEF Part
  <2>2. live' # 0
    BY <2>1 DEF ProviderInv, TurnsStand
  <2>. QED BY <1>2, <2>1, <2>2 DEF LatestIsLast
<1>10. CASE Vanish
  <2>1. live' = 0 /\ UNCHANGED <<store, undo, turns>>
    BY <1>10 DEF Vanish
  <2>. QED BY <2>1 DEF LatestIsLast
<1>11. ASSUME NEW status \in {"idle", "failed"}, NEW kept \in BOOLEAN, Finish(status, kept)
       PROVE  LatestIsLast'
  <2>1. running /\ live' = 0 /\ store' \in {store, undo} /\ turns' = turns
    BY <1>11 DEF Finish
  <2>2. live # 0
    BY <2>1 DEF ProviderInv, TurnsStand
  <2>. QED BY <2>1, <2>2 DEF LatestIsLast
<1>12. ASSUME NEW p \in Prompt, Answer(p) PROVE LatestIsLast'
  <2>1. CASE Take(p)
    <3>1. turns' = turns + 1 /\ live' = turns' /\ undo' = store
      BY <2>1 DEF Take
    <3>2. live' # 0 /\ \A i \in DOMAIN undo' : undo'[i].id # turns'
      BY <1>1, <3>1
    <3>. QED BY <1>2, <3>2 DEF LatestIsLast
  <2>2. CASE ~Take(p)
    <3>1. UNCHANGED <<store, undo, live, turns>>
      BY <1>12, <2>2 DEF Answer
    <3>. QED BY <1>3, <3>1
  <2>. QED BY <2>1, <2>2
<1>13. CASE UNCHANGED vars
  BY <1>4, <1>13 DEF vars
<1>. QED BY <1>5, <1>6, <1>7, <1>8, <1>9, <1>10, <1>11, <1>12, <1>13 DEF Next

(* Prompts move on while no turn begins.                                   *)
LEMMA TellingMoves ==
  ASSUME ProviderInv, PromptsTell, turns' = turns,
         \A p \in Prompt :
           /\ prompts'[p].turn = prompts[p].turn
           /\ prompts'[p].phase \in {"refused", "back"} =>
                prompts[p].phase \in {"sent", "refused", "back"}
           /\ prompts'[p].phase = "accepted" =>
                prompts[p].phase = "accepted" /\ ~running' /\ (live' # 0 \/ gone')
  PROVE  PromptsTell'
<1>1. \A p \in Prompt : prompts[p].phase = "sent" => prompts[p].turn = 0
  BY DEF ProviderInv, Counted
<1>. QED BY <1>1 DEF PromptsTell

(* A prompt taken has the latest turn, and waits alone for its reply.      *)
LEMMA TellingTakes ==
  ASSUME ProviderInv, ProviderInv', PromptsTell, NEW p \in Prompt,
         prompts[p].phase = "sent", ~gone, Take(p), UNCHANGED <<running, gone>>
  PROVE  PromptsTell'
<1>1. /\ live = 0 /\ turns' = turns + 1 /\ live' = turns'
      /\ prompts' = [prompts EXCEPT ![p].phase = "accepted", ![p].turn = turns']
  BY DEF Take
<1>2. prompts \in [Prompt -> PromptState]
  BY DEF ProviderInv, ProviderTypes, PromptState, Phase
<1>3. /\ prompts'[p].turn = turns' /\ prompts'[p].phase = "accepted"
      /\ \A q \in Prompt : q # p => prompts'[q] = prompts[q]
  BY <1>1, <1>2 DEF PromptState
<1>4. turns \in Nat /\ History \in Nat /\ turns >= History
  <2>1. Cardinality(Taken) \in Nat
    <3>1. IsFiniteSet(Prompt)
      <4>1. 1 \in Int /\ MaxPrompts \in Int
        BY ThreadAssumption
      <4>. QED BY <4>1, FS_Interval DEF Prompt
    <3>2. Taken \in SUBSET Prompt
      BY DEF Taken
    <3>3. IsFiniteSet(Taken)
      BY <3>1, <3>2, FS_Subset
    <3>. QED BY <3>3, FS_CardinalityType
  <2>2. History \in Nat
    BY ThreadAssumption
  <2>. QED BY <2>1, <2>2 DEF ProviderInv, Counted
<1>5. ~running' /\ live' # 0
  BY <1>1, <1>4 DEF ProviderInv, TurnsStand
<1>6. \A q \in Prompt : prompts[q].phase # "accepted"
  BY <1>1 DEF PromptsTell
<1>7. \A q \in Prompt : prompts[q].turn # 0 => prompts[q].turn \in (History + 1)..turns
  BY DEF PromptsTell
<1>8. ASSUME NEW q \in Prompt
      PROVE  /\ prompts'[q].turn # 0 => prompts'[q].turn \in (History + 1)..turns'
             /\ prompts'[q].phase \in {"refused", "back"} => prompts'[q].turn = 0
             /\ prompts'[q].phase = "accepted" =>
                  prompts'[q].turn = turns' /\ ~running' /\ (live' # 0 \/ gone')
  <2>1. CASE q = p
    <3>1. turns' \in (History + 1)..turns'
      BY <1>1, <1>4
    <3>. QED BY <1>3, <1>5, <2>1, <3>1
  <2>2. CASE q # p
    <3>1. prompts'[q] = prompts[q]
      BY <1>3, <2>2
    <3>2. prompts[q].turn # 0 => prompts[q].turn \in (History + 1)..turns'
      BY <1>1, <1>4, <1>7
    <3>. QED BY <1>6, <3>1, <3>2 DEF PromptsTell
  <2>. QED BY <2>1, <2>2
<1>9. ASSUME NEW q \in Prompt, NEW r \in Prompt, prompts'[q].turn # 0,
             prompts'[q].turn = prompts'[r].turn
      PROVE  q = r
  <2>1. \A x \in Prompt : x # p => prompts'[x].turn # turns'
    <3>1. ASSUME NEW x \in Prompt, x # p PROVE prompts'[x].turn # turns'
      <4>1. prompts'[x].turn = prompts[x].turn
        BY <1>3, <3>1
      <4>2. prompts[x].turn = 0 \/ prompts[x].turn \in (History + 1)..turns
        BY <1>7
      <4>. QED BY <1>1, <1>4, <4>1, <4>2
    <3>. QED BY <3>1
  <2>2. CASE q = p \/ r = p
    BY <1>3, <1>9, <2>1, <2>2
  <2>3. CASE q # p /\ r # p
    BY <1>3, <1>9, <2>3 DEF PromptsTell
  <2>. QED BY <2>2, <2>3
<1>10. \E q \in Prompt : prompts'[q].turn = turns'
  BY <1>3
<1>. QED BY <1>8, <1>9, <1>10 DEF PromptsTell

(* No step mixes the prompts' turns up.                                    *)
LEMMA PromptsStep ==
  ASSUME InOrder, ProviderInv, ProviderInv', PromptsTell, [Next]_vars
  PROVE  PromptsTell'
<1>1. prompts \in [Prompt -> PromptState]
  BY DEF ProviderInv, ProviderTypes, PromptState, Phase
<1>2. ASSUME UNCHANGED <<prompts, live, running, turns, gone>> PROVE PromptsTell'
  BY <1>2 DEF PromptsTell
<1>3. CASE UNCHANGED <<provider, prompts>>
  BY <1>2, <1>3 DEF provider
<1>4. CASE Bind \/ Unbind \/ Announce \/ ReplayEnd \/ Cut \/ Refuse \/ Update
             \/ ReportGone \/ LoadOlder \/ Join
  <2>1. UNCHANGED <<provider, prompts>>
    BY <1>4 DEF Bind, Unbind, Announce, ReplayEnd, Cut, Refuse, Update, ReportGone,
                LoadOlder, Join
  <2>. QED BY <1>3, <2>1
<1>5. ASSUME NEW l \in Load, Land(l) \/ Serve(l) \/ Deny(l) PROVE PromptsTell'
  <2>1. UNCHANGED <<provider, prompts>>
    BY <1>5 DEF Land, Serve, Deny
  <2>. QED BY <1>3, <2>1
<1>6. CASE Drop
  <2>1. PICK ps \in SUBSET {q \in Prompt : prompts[q].phase = "accepted"} :
          prompts' = [q \in Prompt |->
            [prompts[q] EXCEPT !.phase = IF q \in ps THEN "lost" ELSE prompts[q].phase]]
    BY <1>6 DEF Drop
  <2>2. UNCHANGED <<live, running, turns, gone>>
    BY <1>6 DEF Drop, provider
  <2>3. ASSUME NEW q \in Prompt
        PROVE  /\ prompts'[q].turn = prompts[q].turn
               /\ prompts'[q].phase \in {"lost", prompts[q].phase}
    <3>1. prompts[q] \in PromptState
      BY <1>1
    <3>2. prompts'[q] = [prompts[q] EXCEPT !.phase =
                           IF q \in ps THEN "lost" ELSE prompts[q].phase]
      BY <2>1
    <3>. QED BY <3>1, <3>2 DEF PromptState
  <2>4. \A q \in Prompt : prompts[q].phase = "accepted" => ~running /\ (live # 0 \/ gone)
    BY DEF PromptsTell
  <2>. QED BY <2>2, <2>3, <2>4, TellingMoves
<1>7. ASSUME NEW p \in Prompt, NEW x \in Phase \ {"accepted"}, Ends(p, x),
             UNCHANGED <<live, running, turns, gone>>,
             x \in {"refused", "back"} => prompts[p].phase \in {"sent", "refused", "back"}
      PROVE  PromptsTell'
  <2>1. /\ prompts'[p] = [phase |-> x, turn |-> prompts[p].turn, from |-> prompts[p].from]
        /\ \A q \in Prompt : q # p => prompts'[q] = prompts[q]
    BY <1>1, <1>7, PhaseMoves DEF Ends
  <2>2. \A q \in Prompt : prompts[q].phase = "accepted" => ~running /\ (live # 0 \/ gone)
    BY DEF PromptsTell
  <2>3. ASSUME NEW q \in Prompt
        PROVE  /\ prompts'[q].turn = prompts[q].turn
               /\ prompts'[q].phase \in {"refused", "back"} =>
                    prompts[q].phase \in {"sent", "refused", "back"}
               /\ prompts'[q].phase = "accepted" =>
                    prompts[q].phase = "accepted" /\ ~running' /\ (live' # 0 \/ gone')
    BY <1>7, <2>1, <2>2
  <2>. QED BY <1>7, <2>3, TellingMoves
<1>8. ASSUME NEW p \in Prompt, NEW from \in {0} \cup Turn, Send(p, from)
      PROVE  PromptsTell'
  <2>1. /\ UNCHANGED <<live, running, turns, gone>> /\ prompts[p].phase = "none"
        /\ prompts' = [prompts EXCEPT ![p] = [phase |-> "sent", turn |-> 0, from |-> from]]
    BY <1>8 DEF Send, provider
  <2>2. prompts[p].turn = 0
    BY <2>1 DEF ProviderInv, Counted
  <2>3. /\ prompts'[p] = [phase |-> "sent", turn |-> 0, from |-> from]
        /\ \A q \in Prompt : q # p => prompts'[q] = prompts[q]
    BY <1>1, <2>1
  <2>4. \A q \in Prompt : prompts[q].phase = "accepted" => ~running /\ (live # 0 \/ gone)
    BY DEF PromptsTell
  <2>5. ASSUME NEW q \in Prompt
        PROVE  /\ prompts'[q].turn = prompts[q].turn
               /\ prompts'[q].phase \in {"refused", "back"} =>
                    prompts[q].phase \in {"sent", "refused", "back"}
               /\ prompts'[q].phase = "accepted" =>
                    prompts[q].phase = "accepted" /\ ~running' /\ (live' # 0 \/ gone')
    BY <2>1, <2>2, <2>3, <2>4
  <2>. QED BY <2>1, <2>5, TellingMoves
<1>9. ASSUME NEW p \in Prompt, Accepted(p) PROVE PromptsTell'
  <2>1. Ends(p, "kept") /\ UNCHANGED <<live, running, turns, gone>>
    BY <1>9 DEF Accepted, provider
  <2>2. "kept" \in Phase \ {"accepted"}
    BY DEF Phase, Over
  <2>. QED BY <1>7, <2>1, <2>2
<1>10. ASSUME NEW p \in Prompt, Refused(p) PROVE PromptsTell'
  <2>1. /\ \/ prompts[p].phase = "lost" /\ Ends(p, "doubt")
           \/ prompts[p].phase = "refused" /\ Ends(p, "back")
        /\ UNCHANGED <<live, running, turns, gone>>
    BY <1>10 DEF Refused, provider
  <2>2. "doubt" \in Phase \ {"accepted"} /\ "back" \in Phase \ {"accepted"}
    BY DEF Phase, Over
  <2>. QED BY <1>7, <2>1, <2>2
<1>11. ASSUME NEW p \in Prompt, Answer(p) PROVE PromptsTell'
  <2>1. prompts[p].phase = "sent" /\ UNCHANGED <<running, gone>>
    BY <1>11 DEF Answer
  <2>2. CASE ~gone /\ Take(p)
    BY <2>1, <2>2, TellingTakes
  <2>3. CASE ~(~gone /\ Take(p))
    <3>1. Ends(p, "refused") /\ UNCHANGED <<live, running, turns, gone>>
      BY <1>11, <2>1, <2>3 DEF Answer, Ends
    <3>2. "refused" \in Phase \ {"accepted"}
      BY DEF Phase
    <3>. QED BY <1>7, <2>1, <3>1, <3>2
  <2>. QED BY <2>2, <2>3
<1>12. CASE Run
  <2>1. UNCHANGED <<prompts, turns>> /\ \A q \in Prompt : prompts[q].phase # "accepted"
    BY <1>12 DEF Run
  <2>. QED BY <2>1 DEF PromptsTell
<1>13. CASE Part \/ \E status \in {"idle", "failed"}, kept \in BOOLEAN : Finish(status, kept)
  <2>1. running /\ UNCHANGED <<prompts, turns>>
    BY <1>13 DEF Part, Finish
  <2>. QED BY <2>1 DEF PromptsTell
<1>14. CASE Vanish
  <2>1. UNCHANGED <<prompts, turns>> /\ gone' = TRUE /\ running' = FALSE
    BY <1>14 DEF Vanish
  <2>. QED BY <2>1 DEF PromptsTell
<1>15. CASE UNCHANGED vars
  BY <1>3, <1>15 DEF vars
<1>. QED BY <1>4, <1>5, <1>6, <1>8, <1>9, <1>10, <1>11, <1>12, <1>13, <1>14, <1>15 DEF Next

(* A waiter counts only while the thread it came from is bound, and a      *)
(* prompt it may hand back was accepted.                                   *)
Fits(w) ==
  /\ w.owned => bound
  /\ w.kind = "fail" /\ w.n # 0 => prompts[w.n].phase = "kept"

Asked ==
  /\ sent # 0 => prompts[sent].phase = "kept"
  /\ \A w \in asks \cup riders : Fits(w)

(* No step leaves a waiter of a thread no longer bound.                    *)
LEMMA AskedStep ==
  ASSUME ProviderInv, CallerTypes, PagingInv, Asked, [Next]_vars
  PROVE  Asked'
<1>1. \A p \in Prompt : prompts[p].phase = "kept" => prompts'[p].phase = "kept"
  BY OverStays
<1>2. ASSUME NEW w \in asks \cup riders, w.kind = "fail", w.n # 0
      PROVE  prompts'[w.n].phase = "kept"
  <2>1. w \in Waiters
    BY DEF CallerTypes
  <2>2. w.n \in Prompt
    BY <1>2, <2>1 DEF Waiters
  <2>. QED BY <1>1, <1>2, <2>2 DEF Asked, Fits
<1>3. sent \in Prompt => (sent # 0 => prompts'[sent].phase = "kept")
  BY <1>1 DEF Asked
<1>4. sent \in {0} \cup Prompt
  BY DEF CallerTypes
<1>5. ASSUME bound' = bound \/ bound', sent' \in {0, sent},
             asks' \cup riders' \subseteq asks \cup riders
      PROVE  Asked'
  <2>1. ASSUME NEW w \in asks' \cup riders' PROVE Fits(w)'
    <3>1. w \in asks \cup riders /\ (w.owned => bound)
      BY <1>5 DEF Asked, Fits
    <3>. QED BY <1>2, <1>5, <3>1 DEF Fits
  <2>. QED BY <1>3, <1>4, <1>5, <2>1 DEF Asked
<1>6. ASSUME bound', sent' \in {0, sent}, NEW v, Fits(v)',
             asks' \cup riders' \subseteq asks \cup riders \cup {v}
      PROVE  Asked'
  <2>1. ASSUME NEW w \in asks \cup riders PROVE Fits(w)'
    BY <1>2, <1>6, <2>1 DEF Fits
  <2>. QED BY <1>3, <1>4, <1>6, <2>1 DEF Asked
<1>7. CASE Bind
  <2>1. /\ bound' = TRUE /\ sent' = sent
        /\ asks' \cup riders' \subseteq asks \cup riders \cup {Waiter("bind", 0)}
    BY <1>7 DEF Bind
  <2>2. Fits(Waiter("bind", 0))'
    BY <2>1 DEF Fits, Waiter
  <2>. QED BY <1>6, <2>1, <2>2
<1>8. CASE Unbind
  <2>1. asks' = Left(asks) /\ riders' = Left(riders) /\ sent' = sent
    BY <1>8 DEF Unbind
  <2>2. ASSUME NEW w \in asks \cup riders
        PROVE  Fits([w EXCEPT !.owned = FALSE])'
    <3>1. w \in Waiters
      BY DEF CallerTypes
    <3> DEFINE v == [w EXCEPT !.owned = FALSE]
    <3>2. v.owned = FALSE /\ v.kind = w.kind /\ v.n = w.n
      BY <3>1 DEF Waiters
    <3> HIDE DEF v
    <3>3. Fits(v)'
      BY <1>2, <3>2 DEF Fits
    <3>. QED BY <3>3 DEF v
  <2>3. \A w \in asks' \cup riders' : Fits(w)'
    BY <2>1, <2>2 DEF Left
  <2>. QED BY <1>3, <1>4, <2>1, <2>3 DEF Asked
<1>9. CASE Announce \/ ReplayEnd \/ Drop \/ Cut \/ Refuse \/ ReportGone \/ Join \/ Run
             \/ Part \/ Vanish
             \/ \E status \in {"idle", "failed"}, kept \in BOOLEAN : Finish(status, kept)
  <2>1. /\ bound' = bound /\ sent' = sent
        /\ asks' \cup riders' \subseteq asks \cup riders
    BY <1>9 DEF Announce, ReplayEnd, Drop, Cut, Refuse, ReportGone, Join, Run, Part, Vanish,
                Finish, ReplayFails, browser
  <2>. QED BY <1>5, <2>1
<1>10. CASE Update
  <2>1. /\ riders' = riders /\ bound' = bound
        /\ \/ asks' = asks /\ sent' = sent
           \/ /\ bound /\ sent' = 0
              /\ \E n \in {0, sent} : asks' = asks \cup {Waiter("fail", n)}
    BY <1>10 DEF Update, FailsUnanswered
  <2>2. CASE asks' = asks /\ sent' = sent
    BY <1>5, <2>1, <2>2
  <2>3. ASSUME NEW n \in {0, sent}, bound, sent' = 0, asks' = asks \cup {Waiter("fail", n)}
        PROVE  Asked'
    <3>1. n # 0 => prompts'[n].phase = "kept"
      BY <1>3, <1>4
    <3>2. Fits(Waiter("fail", n))'
      BY <2>1, <2>3, <3>1 DEF Fits, Waiter
    <3>. QED BY <1>6, <2>1, <2>3, <3>2
  <2>. QED BY <2>1, <2>2, <2>3
<1>11. ASSUME NEW p \in Prompt,
              Refused(p) \/ Answer(p) \/ \E from \in {0} \cup Turn : Send(p, from)
       PROVE  Asked'
  <2>1. bound' = bound /\ sent' \in {0, sent} /\ asks' = asks /\ riders' = riders
    BY <1>11 DEF Refused, Answer, Send, browser
  <2>. QED BY <1>5, <2>1
<1>12. ASSUME NEW p \in Prompt, Accepted(p) PROVE Asked'
  <2>1. /\ bound' = bound /\ sent' = p /\ asks' = asks /\ riders' = riders
        /\ Ends(p, "kept")
    BY <1>12 DEF Accepted
  <2>2. prompts'[p].phase = "kept"
    <3>1. prompts \in [Prompt -> PromptState] /\ "kept" \in Phase
      BY DEF ProviderInv, ProviderTypes, PromptState, Phase, Over
    <3>2. prompts'[p] = [phase |-> "kept", turn |-> prompts[p].turn, from |-> prompts[p].from]
      BY <2>1, <3>1, PhaseMoves DEF Ends
    <3>. QED BY <3>2
  <2>3. ASSUME NEW w \in asks \cup riders PROVE Fits(w)'
    <3>1. w.owned => bound
      BY DEF Asked, Fits
    <3>. QED BY <1>2, <2>1, <3>1 DEF Fits
  <2>. QED BY <2>1, <2>2, <2>3 DEF Asked
<1>13. CASE LoadOlder
  <2>1. bound /\ bound' = bound /\ sent' = sent
    BY <1>13 DEF LoadOlder
  <2>2. \E n : asks' \cup riders' \subseteq asks \cup riders \cup {Waiter("load", n)}
    BY <1>13 DEF LoadOlder
  <2>3. PICK n : asks' \cup riders' \subseteq asks \cup riders \cup {Waiter("load", n)}
    BY <2>2
  <2>4. Fits(Waiter("load", n))'
    BY <2>1 DEF Fits, Waiter
  <2>. QED BY <1>6, <2>1, <2>3, <2>4
<1>14. ASSUME NEW l \in Load, Land(l) \/ Serve(l) \/ Deny(l) PROVE Asked'
  <2>1. UNCHANGED <<bound, sent, asks, riders>>
    BY <1>14 DEF Land, Serve, Deny, browser
  <2>. QED BY <1>5, <2>1
<1>15. CASE UNCHANGED vars
  <2>1. UNCHANGED <<bound, sent, asks, riders>>
    BY <1>15 DEF vars
  <2>. QED BY <1>5, <2>1
<1>. QED BY <1>7, <1>8, <1>9, <1>10, <1>11, <1>12, <1>13, <1>14, <1>15 DEF Next

(* A prompt kept, whose turn the provider holds as its latest after a      *)
(* step, had that turn before.                                             *)
LEMMA KeptTurn ==
  ASSUME ProviderInv, LatestIsLast, PromptsTell, NEW p \in Prompt,
         prompts[p].phase = "kept", [Next]_vars, prompts'[p].turn = turns', HoldsTurn'
  PROVE  /\ turns' = turns /\ prompts[p].turn = turns /\ HoldsTurn
         /\ prompts'[p] = prompts[p]
<1>1. prompts'[p] = prompts[p]
  BY OverStays
<1>2. turns \in Nat /\ prompts[p].turn \in Nat /\ prompts[p].turn <= turns
  <2>1. turns \in Nat /\ prompts[p].turn \in Nat
    BY ThreadAssumption DEF ProviderInv, ProviderTypes, Turn
  <2>. QED BY <2>1, ThreadAssumption DEF PromptsTell
<1>3. turns' = turns \/ turns' = turns + 1
  <2>1. CASE UNCHANGED provider
    BY <2>1 DEF provider
  <2>2. CASE Bind \/ Unbind \/ Announce \/ ReplayEnd \/ Drop \/ Cut \/ Refuse \/ Update
               \/ ReportGone \/ LoadOlder \/ Join
    <3>1. UNCHANGED provider
      BY <2>2 DEF Bind, Unbind, Announce, ReplayEnd, Drop, Cut, Refuse, Update, ReportGone,
                  LoadOlder, Join
    <3>. QED BY <2>1, <3>1
  <2>3. CASE Run \/ Part \/ Vanish
               \/ \E status \in {"idle", "failed"}, kept \in BOOLEAN : Finish(status, kept)
    BY <2>3 DEF Run, Part, Vanish, Finish
  <2>4. ASSUME NEW q \in Prompt,
               Accepted(q) \/ Refused(q) \/ \E from \in {0} \cup Turn : Send(q, from)
        PROVE  turns' = turns
    BY <2>4 DEF Accepted, Refused, Send, provider
  <2>5. ASSUME NEW q \in Prompt, Answer(q) PROVE turns' = turns \/ turns' = turns + 1
    BY <2>5 DEF Answer, Take
  <2>6. ASSUME NEW l \in Load, Land(l) \/ Serve(l) \/ Deny(l) PROVE turns' = turns
    BY <2>6 DEF Land, Serve, Deny, provider
  <2>7. CASE UNCHANGED vars
    BY <2>7 DEF vars, provider
  <2>. QED BY <2>2, <2>3, <2>4, <2>5, <2>6, <2>7 DEF Next
<1>4. turns' = turns /\ prompts[p].turn = turns
  BY <1>1, <1>2, <1>3
<1>5. HoldsTurn
  <2>1. CASE store' = store
    BY <1>4, <2>1 DEF HoldsTurn
  <2>2. CASE UNCHANGED provider
    BY <2>1, <2>2 DEF provider
  <2>3. CASE Bind \/ Unbind \/ Announce \/ ReplayEnd \/ Drop \/ Cut \/ Refuse \/ Update
               \/ ReportGone \/ LoadOlder \/ Join
    <3>1. UNCHANGED provider
      BY <2>3 DEF Bind, Unbind, Announce, ReplayEnd, Drop, Cut, Refuse, Update, ReportGone,
                  LoadOlder, Join
    <3>. QED BY <2>2, <3>1
  <2>4. CASE Run \/ Vanish
    <3>1. store' = store
      BY <2>4 DEF Run, Vanish
    <3>. QED BY <2>1, <3>1
  <2>5. CASE Part
    <3>1. store' = [store EXCEPT ![Len(store)].parts = Written + 1]
      BY <2>5 DEF Part
    <3>2. store \in Seq(Held)
      BY DEF ProviderInv, ProviderTypes
    <3>3. /\ DOMAIN store' = DOMAIN store
          /\ \A i \in DOMAIN store : store'[i].id = store[i].id
      BY <3>1, <3>2 DEF Held
    <3>. QED BY <1>4, <3>3 DEF HoldsTurn
  <2>6. ASSUME NEW status \in {"idle", "failed"}, NEW kept \in BOOLEAN, Finish(status, kept)
        PROVE  HoldsTurn
    <3>1. running /\ store' \in {store, undo}
      BY <2>6 DEF Finish
    <3>2. live # 0
      BY <3>1 DEF ProviderInv, TurnsStand
    <3>3. store' # undo
      BY <1>4, <3>2 DEF LatestIsLast, HoldsTurn
    <3>. QED BY <2>1, <3>1, <3>3
  <2>7. ASSUME NEW q \in Prompt,
               Accepted(q) \/ Refused(q) \/ \E from \in {0} \cup Turn : Send(q, from)
        PROVE  HoldsTurn
    <3>1. UNCHANGED provider
      BY <2>7 DEF Accepted, Refused, Send
    <3>. QED BY <2>2, <3>1
  <2>8. ASSUME NEW q \in Prompt, Answer(q) PROVE HoldsTurn
    <3>1. ~Take(q)
      <4>1. ASSUME Take(q) PROVE turns' = turns + 1
        BY <4>1 DEF Take
      <4>. QED BY <1>2, <1>4, <4>1
    <3>2. store' = store
      BY <2>8, <3>1 DEF Answer
    <3>. QED BY <2>1, <3>2
  <2>9. ASSUME NEW l \in Load, Land(l) \/ Serve(l) \/ Deny(l) PROVE HoldsTurn
    <3>1. UNCHANGED provider
      BY <2>9 DEF Land, Serve, Deny
    <3>. QED BY <2>2, <3>1
  <2>10. CASE UNCHANGED vars
    BY <2>2, <2>10 DEF vars
  <2>. QED BY <2>3, <2>4, <2>5, <2>6, <2>7, <2>8, <2>9, <2>10 DEF Next
<1>. QED BY <1>1, <1>4, <1>5

(* The row of a prompt the provider echoed outlives what is written after. *)
LEMMA GrowKeeps ==
  ASSUME NEW t, Clean(t), NEW n \in Turn, User(n) \in Ids(t), NEW id \in RowId, NEW k \in Nat
  PROVE  User(n) \in Ids(Grow(t, id, k))
<1> DEFINE s == t.rows
           grown == [i \in DOMAIN s |->
                       IF s[i].id = id THEN [id |-> id, parts |-> s[i].parts + k] ELSE s[i]]
           over == [i \in DOMAIN s |->
                      IF s[i].id = Host THEN [id |-> id, parts |-> k] ELSE s[i]]
           more == Append(s, [id |-> id, parts |-> k])
<1>1. t \in Thread /\ s \in Seq(Row)
  BY Fields DEF Clean
<1>2. PICK i \in DOMAIN s : s[i].id = User(n)
  BY DEF Ids
<1>3. User(n) # Host
  BY DEF User, Host
<1>4. CASE id \in Ids(t)
  <2>1. Grow(t, id, k) = [t EXCEPT !.rows = grown]
    BY <1>4 DEF Grow
  <2>2. i \in DOMAIN grown /\ grown[i].id = User(n)
    BY <1>2
  <2> HIDE DEF grown
  <2>3. Grow(t, id, k).rows = grown
    BY <1>1, <2>1, Fields
  <2>. QED BY <2>2, <2>3 DEF Ids
<1>5. CASE id \notin Ids(t)
  <2>1. Grow(t, id, k).rows = IF TakesHost(t) THEN over ELSE more
    BY <1>5 DEF Grow
  <2>2. i \in DOMAIN over /\ over[i].id = User(n)
    BY <1>2, <1>3
  <2>3. i \in DOMAIN more /\ more[i].id = User(n)
    <3>1. [id |-> id, parts |-> k] \in Row
      BY Rows
    <3> DEFINE x == [id |-> id, parts |-> k]
    <3> HIDE DEF x, s
    <3>2. /\ DOMAIN s = 1..Len(s) /\ Len(s) \in Nat
          /\ DOMAIN Append(s, x) = 1..(Len(s) + 1)
          /\ \A j \in 1..Len(s) : Append(s, x)[j] = s[j]
      BY <1>1, <3>1, Appended DEF x
    <3>3. i \in DOMAIN Append(s, x) /\ Append(s, x)[i] = s[i]
      BY <1>2, <3>2
    <3>. QED BY <1>2, <3>3 DEF x
  <2> HIDE DEF over, more
  <2>. QED BY <2>1, <2>2, <2>3 DEF Ids
<1>. QED BY <1>4, <1>5

(* An echo is shown, and keeps the rows before it.                         *)
LEMMA EchoShows ==
  ASSUME NEW t, Clean(t), NEW id \in RowId
  PROVE  id \in Ids(Echo(t, id)) /\ Ids(t) \subseteq Ids(Echo(t, id))
<1>1. t \in Thread /\ t.rows \in Seq(Row)
  BY Fields DEF Clean
<1>2. CASE id \in Ids(t)
  BY <1>2 DEF Echo
<1>3. CASE id \notin Ids(t)
  <2> DEFINE x == [id |-> id, parts |-> 1]
             more == Append(t.rows, x)
  <2>1. x \in Row /\ x.id = id
    BY Rows
  <2> HIDE DEF x
  <2>2. /\ DOMAIN t.rows = 1..Len(t.rows) /\ Len(t.rows) \in Nat
        /\ DOMAIN more = 1..(Len(t.rows) + 1) /\ more[Len(t.rows) + 1] = x
        /\ \A j \in 1..Len(t.rows) : more[j] = t.rows[j]
    BY <1>1, <2>1, Appended
  <2>3. Echo(t, id) = [t EXCEPT !.rows = more]
    BY <1>3 DEF Echo, x
  <2> HIDE DEF more
  <2>4. Echo(t, id).rows = more
    BY <1>1, <2>3, Fields
  <2>5. Len(t.rows) + 1 \in DOMAIN more /\ \A j \in DOMAIN t.rows : j \in DOMAIN more
    BY <2>2
  <2>6. id \in Ids(Echo(t, id))
    BY <2>1, <2>2, <2>4, <2>5 DEF Ids
  <2>7. ASSUME NEW j \in DOMAIN t.rows PROVE t.rows[j].id \in Ids(Echo(t, id))
    BY <2>2, <2>4, <2>5 DEF Ids
  <2>. QED BY <2>6, <2>7 DEF Ids
<1>. QED BY <1>2, <1>3

(* No update but one that replaces the transcript takes a prompt's row.    *)
LEMMA AppliedKeeps ==
  ASSUME NEW t, Clean(t), NEW n \in Turn, NEW e \in Event, e.kind \in Updates,
         User(n) \in Ids(t) \/ e = Ev("user", n)
  PROVE  User(n) \in Ids(Applied(t, e))
<1>1. e.kind \in {"user", "part"} => e.n \in Turn
  BY DEF Event
<1>2. CASE e.kind = "user"
  <2>1. User(e.n) \in RowId /\ Applied(t, e) = Echo(t, User(e.n))
    BY <1>1, <1>2, Rows DEF Applied
  <2>2. User(e.n) \in Ids(Echo(t, User(e.n))) /\ Ids(t) \subseteq Ids(Echo(t, User(e.n)))
    BY <2>1, EchoShows
  <2>3. e = Ev("user", n) => e.n = n
    BY DEF Ev
  <2>. QED BY <2>1, <2>2, <2>3
<1>3. ASSUME e.kind # "user" PROVE User(n) \in Ids(t)
  BY <1>3 DEF Ev
<1>4. CASE e.kind = "part"
  <2>1. Reply(e.n) \in RowId /\ Applied(t, e) = Grow(t, Reply(e.n), 1)
    BY <1>1, <1>4, Rows DEF Applied
  <2>. QED BY <1>3, <1>4, <2>1, GrowKeeps
<1>5. CASE e.kind \in {"running", "restated", "idle", "failed"}
  <2>1. Applied(t, e) \in {[t EXCEPT !.exec = "running"], Resumed(t), Idle(t, e.kind)}
    BY <1>5 DEF Applied
  <2>2. t \in Thread
    BY DEF Clean
  <2>3. [t EXCEPT !.exec = "running"].rows = t.rows
    BY <2>2, Fields
  <2>4. Resumed(t).rows = t.rows /\ Idle(t, e.kind).rows = t.rows
    BY DEF Resumed, Idle
  <2>5. Applied(t, e).rows = t.rows
    BY <2>1, <2>3, <2>4
  <2>. QED BY <1>3, <1>5, <2>5 DEF Ids
<1>. QED BY <1>2, <1>4, <1>5 DEF Updates

(* Nor does a failure, nor a prompt's own row taken out.                   *)
LEMMA FailKeeps ==
  ASSUME NEW t, Clean(t), NEW n \in Turn, User(n) \in Ids(t)
  PROVE  /\ User(n) \in Ids(FailLatest(t)) /\ User(n) \in Ids(FailSession(t))
         /\ \A p : User(n) \in Ids(Without(t, {Local(p)}))
<1>1. ASSUME NEW u, Clean(u), User(n) \in Ids(u) PROVE User(n) \in Ids(FailLatest(u))
  <2>1. User(n) \in Ids(Grow(u, Host, 0))
    BY <1>1, Rows, GrowKeeps
  <2>. QED BY <1>1, <2>1 DEF FailLatest
<1>2. Clean(Idle(t, "failed")) /\ User(n) \in Ids(Idle(t, "failed"))
  <2>1. Idle(t, "failed").rows = t.rows
    BY DEF Idle
  <2>2. User(n) \in Ids(Idle(t, "failed"))
    BY <2>1 DEF Ids
  <2>3. Clean(Idle(t, "failed"))
    BY Settles DEF Status
  <2>. QED BY <2>2, <2>3
<1>3. User(n) \in Ids(FailSession(t))
  BY <1>1, <1>2 DEF FailSession
<1>4. ASSUME NEW p PROVE User(n) \in Ids(Without(t, {Local(p)}))
  <2> DEFINE S == RowId \ {Local(p)}
             o == Only(t.rows, S)
  <2>1. User(n) \in S
    <3>1. User(n) # Local(p)
      BY DEF User, Local
    <3>. QED BY <3>1, Rows
  <2>2. Without(t, {Local(p)}) = [t EXCEPT !.rows = o]
    BY DEF Without
  <2>3. t \in Thread /\ t.rows \in Seq(Row) /\ DOMAIN t.rows = 1..Len(t.rows)
    BY Fields DEF Clean
  <2> HIDE DEF S
  <2>4. OnlyThose(o, t.rows, S, Len(t.rows))
    BY <2>3, OnlyIsOnly
  <2> HIDE DEF o
  <2>5. PICK i \in DOMAIN t.rows : t.rows[i].id = User(n)
    BY DEF Ids
  <2>6. Holds(o, t.rows[i])
    BY <2>1, <2>3, <2>4, <2>5 DEF OnlyThose
  <2>7. Without(t, {Local(p)}).rows = o
    BY <2>2, <2>3, Fields
  <2>. QED BY <2>5, <2>6, <2>7 DEF Holds, Ids
<1>. QED BY <1>1, <1>3, <1>4

(* Nor does an older page.                                                 *)
LEMMA PrependKeeps ==
  ASSUME NEW t, Clean(t), NEW n \in Turn, User(n) \in Ids(t),
         NEW page \in Seq(Held), Once(page)
  PROVE  User(n) \in Ids(Prepended(t, page))
<1> DEFINE new == RowsOf(page)
           ids == RowId \ Ids(t)
           kept == Only(new, ids)
           rows == kept \o t.rows
<1>1. t \in Thread /\ t.rows \in Seq(Row)
  BY Fields DEF Clean
<1>2. new \in Seq(Row)
  BY RowsOfTurns
<1>3. Prepended(t, page) = [t EXCEPT !.rows = rows]
  BY DEF Prepended
<1> HIDE DEF new, ids
<1>4. kept \in Seq(Row)
  BY <1>2, OnlyIsOnly
<1> HIDE DEF kept
<1>5. PICK i \in DOMAIN t.rows : t.rows[i].id = User(n)
  BY DEF Ids
<1>6. Holds(rows, t.rows[i])
  <2>1. Holds(t.rows, t.rows[i])
    BY <1>5 DEF Holds
  <2>. QED BY <1>1, <1>4, <2>1, Joined
<1> HIDE DEF rows
<1>7. Prepended(t, page).rows = rows
  BY <1>1, <1>3, Fields
<1>. QED BY <1>5, <1>6, <1>7 DEF Holds, Ids

(* Every end of a replay on its way finds the prompt of turn n shown: it   *)
(* is there already, or comes first, and nothing replaces it after.        *)
Comes(w, n, there) ==
  \A i \in DOMAIN w : w[i].kind = "end" =>
    \/ there /\ \A k \in 1..i : w[k].kind # "announce"
    \/ \E j \in 1..i : w[j] = Ev("user", n) /\ \A k \in j..i : w[k].kind # "announce"

(* An update off the wire.                                                 *)
LEMMA ComesTail ==
  ASSUME NEW w \in Seq(Event), w # <<>>, NEW n, NEW before \in BOOLEAN, NEW after \in BOOLEAN,
         Comes(w, n, before),
         Head(w) = Ev("user", n) \/ (before /\ Head(w).kind # "announce") => after
  PROVE  Comes(Tail(w), n, after)
<1>1. /\ Head(w) = w[1] /\ DOMAIN w = 1..Len(w) /\ Len(w) \in Nat
      /\ DOMAIN Tail(w) = 1..(Len(w) - 1)
      /\ \A i \in 1..(Len(w) - 1) : Tail(w)[i] = w[i + 1]
  OBVIOUS
<1> DEFINE v == Tail(w)
           h == Head(w)
<1>2. h = w[1] /\ DOMAIN v = 1..(Len(w) - 1) /\ \A i \in 1..(Len(w) - 1) : v[i] = w[i + 1]
  BY <1>1
<1>3. h = Ev("user", n) \/ (before /\ h.kind # "announce") => after
  OBVIOUS
<1> HIDE DEF v, h
<1>4. ASSUME NEW i \in DOMAIN v, v[i].kind = "end"
      PROVE  \/ after /\ \A k \in 1..i : v[k].kind # "announce"
             \/ \E j \in 1..i : v[j] = Ev("user", n) /\ \A k \in j..i : v[k].kind # "announce"
  <2>1. i \in Nat /\ i + 1 \in DOMAIN w /\ w[i + 1].kind = "end" /\ i + 1 <= Len(w)
    BY <1>1, <1>2, <1>4
  <2>2. \A k \in 1..i : v[k] = w[k + 1] /\ k + 1 \in 1..(i + 1)
    BY <1>1, <1>2, <2>1
  <2>3. CASE before /\ \A k \in 1..(i + 1) : w[k].kind # "announce"
    <3>1. 1 \in 1..(i + 1)
      BY <2>1
    <3>2. h.kind # "announce"
      BY <1>2, <2>3, <3>1
    <3>. QED BY <1>3, <2>2, <2>3, <3>2
  <2>4. ASSUME NEW j \in 1..(i + 1), w[j] = Ev("user", n),
               \A k \in j..(i + 1) : w[k].kind # "announce"
        PROVE  \/ after /\ \A k \in 1..i : v[k].kind # "announce"
               \/ \E m \in 1..i :
                    v[m] = Ev("user", n) /\ \A k \in m..i : v[k].kind # "announce"
    <3>1. CASE j = 1
      <4>1. after
        BY <1>2, <1>3, <2>4, <3>1
      <4>2. ASSUME NEW k \in 1..i PROVE v[k].kind # "announce"
        <5>1. k + 1 \in j..(i + 1)
          BY <2>1, <3>1
        <5>. QED BY <2>2, <2>4, <5>1
      <4>. QED BY <4>1, <4>2
    <3>2. CASE j # 1
      <4>1. j - 1 \in 1..i /\ j - 1 + 1 = j
        BY <2>1, <3>2
      <4>2. v[j - 1] = Ev("user", n)
        BY <2>2, <2>4, <4>1
      <4>3. ASSUME NEW k \in (j - 1)..i PROVE v[k].kind # "announce"
        <5>1. k + 1 \in j..(i + 1) /\ k \in 1..i
          BY <2>1, <4>1
        <5>. QED BY <2>2, <2>4, <5>1
      <4>. QED BY <4>1, <4>2, <4>3
    <3>. QED BY <3>1, <3>2
  <2>. QED BY <2>1, <2>3, <2>4 DEF Comes
<1>5. Comes(v, n, after)
  BY <1>4 DEF Comes
<1>. QED BY <1>5 DEF v

(* The beginning of what was on its way, and updates that end no replay.   *)
LEMMA ComesMore ==
  ASSUME NEW w \in Seq(Event), NEW m \in 0..Len(w), NEW o \in Seq(Event), NEW n,
         NEW there \in BOOLEAN, Comes(w, n, there),
         \A i \in DOMAIN o : IF i <= m THEN o[i] = w[i] ELSE o[i].kind # "end"
  PROVE  Comes(o, n, there)
<1>1. DOMAIN w = 1..Len(w) /\ Len(w) \in Nat /\ DOMAIN o = 1..Len(o) /\ Len(o) \in Nat
  OBVIOUS
<1>2. ASSUME NEW i \in DOMAIN o, o[i].kind = "end"
      PROVE  \/ there /\ \A k \in 1..i : o[k].kind # "announce"
             \/ \E j \in 1..i : o[j] = Ev("user", n) /\ \A k \in j..i : o[k].kind # "announce"
  <2>1. i <= m /\ o[i] = w[i] /\ i \in DOMAIN w /\ i \in Nat
    BY <1>1, <1>2
  <2>2. \A k \in 1..i : o[k] = w[k]
    <3>1. ASSUME NEW k \in 1..i PROVE o[k] = w[k]
      <4>1. k \in DOMAIN o /\ k <= m
        BY <1>1, <2>1
      <4>. QED BY <4>1
    <3>. QED BY <3>1
  <2>3. CASE there /\ \A k \in 1..i : w[k].kind # "announce"
    BY <2>2, <2>3
  <2>4. ASSUME NEW j \in 1..i, w[j] = Ev("user", n), \A k \in j..i : w[k].kind # "announce"
        PROVE  \E x \in 1..i : o[x] = Ev("user", n) /\ \A k \in x..i : o[k].kind # "announce"
    <3>1. \A k \in j..i : k \in 1..i
      BY <2>1
    <3>. QED BY <2>2, <2>4, <3>1
  <2>. QED BY <1>2, <2>1, <2>3, <2>4 DEF Comes
<1>. QED BY <1>2 DEF Comes

(* What a stored turn is replayed in, its prompt among it.                 *)
Said == {e \in Event : e.kind \in {"user", "part", "running", "idle"}}

(* What the gateway stores is only what it may say.                          *)
LEMMA StoredSays ==
  ASSUME NEW x \in Held
  PROVE  Stored(x) \in Seq(Said) /\ Holds(Stored(x), Ev("user", x.id))
<1>1. x.id \in Turn /\ x.parts \in Nat
  BY DEF Held
<1> DEFINE parts == [i \in 1..x.parts |-> Ev("part", x.id)]
           u == Ev("user", x.id)
           r == Ev("running", x.id)
           e == Ev("idle", x.id)
           rest == IF x.parts = 0 THEN <<>> ELSE <<r>> \o parts \o <<e>>
<1>2. u \in Said /\ r \in Said /\ e \in Said /\ parts \in Seq(Said)
  <2>1. u \in Said /\ r \in Said /\ e \in Said /\ Ev("part", x.id) \in Said
    BY <1>1 DEF Ev, Event, Said
  <2>. QED BY <1>1, <2>1
<1>3. Stored(x) = <<u>> \o rest
  BY DEF Stored
<1> HIDE DEF parts, u, r, e
<1>4. rest \in Seq(Said) /\ <<u>> \in Seq(Said)
  <2>1. <<r>> \o parts \o <<e>> \in Seq(Said) /\ <<>> \in Seq(Said)
    BY <1>2
  <2>. QED BY <1>2, <2>1
<1>5. Holds(<<u>>, u)
  BY DEF Holds
<1> HIDE DEF rest
<1>6. <<u>> \o rest \in Seq(Said) /\ Holds(<<u>> \o rest, u)
  BY <1>4, <1>5, Joined
<1>. QED BY <1>3, <1>6 DEF u

(* A replay that begins with the prompt in the page it brings.             *)
LEMMA ComesAgain ==
  ASSUME NEW a \in Seq(Event), NEW f \in Seq(Event), NEW s \in Event, NEW e \in Event, NEW n,
         \A i \in DOMAIN a : a[i].kind # "end",
         \A i \in DOMAIN f : f[i].kind \notin {"end", "announce"},
         s.kind \notin {"end", "announce"}, e.kind # "announce", Holds(f, Ev("user", n)),
         NEW there \in BOOLEAN
  PROVE  Comes(a \o f \o <<s>> \o <<e>>, n, there)
<1> DEFINE o == a \o f \o <<s>> \o <<e>>
           A == Len(a)
           F == Len(f)
<1>1. /\ A \in Nat /\ F \in Nat /\ DOMAIN a = 1..A /\ DOMAIN f = 1..F
      /\ DOMAIN o = 1..(A + F + 2)
      /\ \A i \in 1..A : o[i] = a[i]
      /\ \A i \in 1..F : o[A + i] = f[i]
      /\ o[A + F + 1] = s /\ o[A + F + 2] = e
  OBVIOUS
<1> HIDE DEF o, A, F
<1>2. ASSUME NEW i \in (A + 1)..(A + F) PROVE o[i].kind \notin {"end", "announce"}
  <2>1. i - A \in 1..F /\ A + (i - A) = i
    BY <1>1
  <2>. QED BY <1>1, <2>1
<1>3. ASSUME NEW i \in DOMAIN o, o[i].kind = "end" PROVE i = A + F + 2
  <2>1. i \in 1..A \/ i \in (A + 1)..(A + F) \/ i = A + F + 1 \/ i = A + F + 2
    BY <1>1
  <2>2. i \notin 1..A
    BY <1>1, <1>3
  <2>3. i \notin (A + 1)..(A + F)
    BY <1>2, <1>3
  <2>4. i # A + F + 1
    BY <1>1, <1>3
  <2>. QED BY <2>1, <2>2, <2>3, <2>4
<1>4. PICK j \in 1..F : f[j] = Ev("user", n)
  BY <1>1 DEF Holds
<1>5. A + j \in 1..(A + F + 2) /\ o[A + j] = Ev("user", n)
  BY <1>1, <1>4
<1>6. ASSUME NEW k \in (A + j)..(A + F + 2) PROVE o[k].kind # "announce"
  <2>1. k \in (A + 1)..(A + F) \/ k = A + F + 1 \/ k = A + F + 2
    BY <1>1
  <2>. QED BY <1>1, <1>2, <2>1
<1>7. Comes(o, n, there)
  BY <1>3, <1>5, <1>6 DEF Comes
<1>. QED BY <1>7 DEF o

(* A prompt is shown, and not about to be replaced.                        *)
Shows == User(turns) \in Ids(thread) /\ ~replacing.on

(* A failed run's reload is on its way to find the latest prompt where the *)
(* provider holds it.                                                      *)
Rides ==
  \A w \in riders :
    w.kind = "fail" /\ w.owned /\ w.n # 0 /\ prompts[w.n].turn = turns /\ HoldsTurn
      => Comes(wire, turns, Shows)

(* A join's replay brings the latest turn the provider holds.              *)
LEMMA JoinBrings ==
  ASSUME ProviderInv, WireStands, LatestIsLast, HoldsTurn, Join
  PROVE  Comes(wire', turns, Shows')
<1> DEFINE older == IF Len(store) > PageSize THEN Len(store) - PageSize ELSE 0
           page == SubSeq(store, older + 1, Len(store))
           stored == [i \in DOMAIN page |-> Stored(page[i])]
           state == Ev(IF running THEN "restated" ELSE settled, live)
           end == [kind |-> "end", n |-> older, epoch |-> epoch]
           f == FlattenSeq(stored)
<1>1. /\ Quiet
      /\ wire' = wire \o <<Ev("announce", 0)>> \o f \o <<state>> \o <<end>>
  BY DEF Join
<1>2. /\ store \in Seq(Held) /\ live \in {0} \cup Turn /\ settled \in {"idle", "failed"}
      /\ epoch \in Nat /\ Len(store) \in Nat /\ PageSize \in Nat /\ PageSize >= 1
      /\ DOMAIN store = 1..Len(store) /\ wire \in Seq(Event)
  BY ThreadAssumption DEF ProviderInv, ProviderTypes, WireStands
<1>3. PICK l \in DOMAIN store : store[l].id = turns
  BY DEF HoldsTurn
<1>4. l = Len(store)
  BY <1>3 DEF LatestIsLast
<1>5. older \in Nat /\ older + 1 \in 1..Len(store)
  BY <1>2, <1>3, <1>4
<1>6. end \in Event /\ end.kind = "end"
  BY <1>2, <1>5 DEF Event
<1>7. state \in Event /\ state.kind \in {"restated", "idle", "failed"}
  BY <1>2 DEF Ev, Event
<1>s. end.kind = "end" /\ state.kind \in {"restated", "idle", "failed"}
  BY <1>6, <1>7
<1> HIDE DEF older
<1>8. /\ page \in Seq(Held)
      /\ \A i \in DOMAIN page : older + 1 + i - 1 \in older + 1..Len(store)
                                /\ page[i] = store[older + 1 + i - 1]
  <2>1. older + 1 \in 1..(Len(store) + 1) /\ Len(store) \in 0..Len(store)
    BY <1>2, <1>5
  <2>. QED BY <1>2, <2>1, PartOf
<1>9. /\ Len(store) - older \in DOMAIN page
      /\ older + 1 + (Len(store) - older) - 1 = Len(store)
  <2>1. DOMAIN page = 1..(Len(store) - older)
    BY <1>2, <1>5
  <2>. QED BY <1>2, <1>5, <2>1
<1>10. \E i \in DOMAIN page : page[i].id = turns
  BY <1>3, <1>4, <1>8, <1>9
<1> HIDE DEF page
<1>11. PICK m \in DOMAIN page : page[m].id = turns
  BY <1>10
<1>12. stored \in Seq(Seq(Said)) /\ DOMAIN stored = 1..Len(stored) /\ m \in 1..Len(stored)
       /\ Holds(stored[m], Ev("user", turns))
  <2>1. \A i \in DOMAIN page : Stored(page[i]) \in Seq(Said)
    BY <1>8, StoredSays
  <2>2. page[m] \in Held
    BY <1>8, <1>11
  <2>3. Holds(Stored(page[m]), Ev("user", turns))
    BY <1>11, <2>2, StoredSays
  <2>4. DOMAIN page = 1..Len(page) /\ Len(page) \in Nat
    BY <1>8
  <2>5. stored \in Seq(Seq(Said)) /\ DOMAIN stored = DOMAIN page
    <3>1. stored \in [DOMAIN page -> Seq(Said)]
      BY <2>1
    <3>. QED BY <2>4, <3>1
  <2>6. stored[m] = Stored(page[m])
    BY <1>11
  <2> HIDE DEF stored
  <2>7. DOMAIN stored = 1..Len(stored)
    BY <2>5
  <2>. QED BY <1>11, <2>3, <2>5, <2>6, <2>7
<1> HIDE DEF stored
<1>13. f \in Seq(Said) /\ Gathers(f, stored, Len(stored))
  BY <1>12, FlattenGathers
<1>14. Holds(f, Ev("user", turns))
  BY <1>12, <1>13 DEF Gathers
<1> HIDE DEF f, state, end
<1>15. f \in Seq(Event) /\ \A i \in DOMAIN f : f[i].kind \notin {"end", "announce"}
  <2>1. \A x \in Said : x \in Event /\ x.kind \notin {"end", "announce"}
    BY DEF Said
  <2>. QED BY <1>13, <2>1
<1> DEFINE a == wire \o <<Ev("announce", 0)>>
<1>16. a \in Seq(Event) /\ \A i \in DOMAIN a : a[i].kind # "end"
  <2>1. Ev("announce", 0) \in Event /\ Ev("announce", 0).kind # "end"
    BY DEF Ev, Event
  <2> DEFINE x == Ev("announce", 0)
  <2> HIDE DEF x
  <2>2. /\ wire \o <<x>> \in Seq(Event)
        /\ \A i \in DOMAIN (wire \o <<x>>) :
             (i \in DOMAIN wire /\ (wire \o <<x>>)[i] = wire[i]) \/ (wire \o <<x>>)[i] = x
    BY <1>2, <2>1 DEF x
  <2>3. \A i \in DOMAIN wire : wire[i].kind # "end"
    BY <1>1 DEF Quiet
  <2>. QED BY <2>1, <2>2, <2>3 DEF x
<1> HIDE DEF a
<1>17. Shows' \in BOOLEAN
  BY DEF Shows
<1>18. Comes(a \o f \o <<state>> \o <<end>>, turns, Shows')
  BY <1>6, <1>7, <1>s, <1>14, <1>15, <1>16, <1>17, ComesAgain
<1>. QED BY <1>1, <1>18 DEF a

(* What rides after a step rode, or asked to, before it.                   *)
LEMMA RiderBefore ==
  ASSUME ProviderInv, CallerTypes, LatestIsLast, PromptsTell, Asked, Rides, [Next]_vars,
         NEW w \in asks \cup riders, w.kind = "fail", w.owned, w.n # 0,
         prompts'[w.n].turn = turns', HoldsTurn'
  PROVE  /\ bound /\ w.n \in Prompt /\ prompts[w.n].phase = "kept"
         /\ turns' = turns /\ prompts[w.n].turn = turns /\ turns \in Turn /\ HoldsTurn
         /\ w \in riders => Comes(wire, turns, Shows)
<1>1. bound /\ prompts[w.n].phase = "kept"
  BY DEF Asked, Fits
<1>2. w.n \in Prompt
  <2>1. w \in Waiters
    BY DEF CallerTypes
  <2>. QED BY <2>1 DEF Waiters
<1>3. turns' = turns /\ prompts[w.n].turn = turns /\ HoldsTurn
  BY <1>1, <1>2, KeptTurn
<1>4. turns \in Turn
  <2>1. prompts[w.n].turn # 0
    BY <1>1, <1>2 DEF ProviderInv, Counted, Began
  <2>. QED BY <1>2, <1>3, <2>1 DEF ProviderInv, ProviderTypes
<1>. QED BY <1>1, <1>2, <1>3, <1>4 DEF Rides

(* What is on its way counts for what the thread shows next.               *)
LEMMA ComesAs ==
  ASSUME NEW w, NEW n, NEW before \in BOOLEAN, NEW after \in BOOLEAN,
         Comes(w, n, before), before => after
  PROVE  Comes(w, n, after)
BY DEF Comes

(* What the provider sends ends no replay but by losing the Session.       *)
LEMMA ComesOn ==
  ASSUME WireStands, NEW n, NEW there \in BOOLEAN, Comes(wire, n, there),
         \/ \E x \in Ordinary : x.kind # "end" /\ Emit(<<x>>)
         \/ Vanish
  PROVE  Comes(wire', n, there)
<1>1. wire \in Seq(Event) /\ Len(wire) \in Nat
  BY DEF WireStands
<1>2. ASSUME NEW x \in Ordinary, x.kind # "end", Emit(<<x>>)
      PROVE  Comes(wire', n, there)
  <2> DEFINE o == wire \o <<x>>
  <2>1. x \in Event
    BY DEF Ordinary
  <2>2. /\ o \in Seq(Event) /\ Len(wire) \in 0..Len(wire)
        /\ \A i \in DOMAIN o : IF i <= Len(wire) THEN o[i] = wire[i] ELSE o[i] = x
    BY <1>1, <2>1
  <2>3. \A i \in DOMAIN o : IF i <= Len(wire) THEN o[i] = wire[i] ELSE o[i].kind # "end"
    BY <1>2, <2>2
  <2>4. wire' = o \/ wire' = wire
    BY <1>2 DEF Emit
  <2> HIDE DEF o
  <2>5. Comes(o, n, there)
    BY <1>1, <2>2, <2>3, ComesMore
  <2>. QED BY <2>4, <2>5
<1>3. CASE Vanish
  <2>1. CASE ~joined
    <3>1. wire' = wire
      BY <1>3, <2>1 DEF Vanish
    <3>. QED BY <3>1
  <2>2. CASE joined
    <3>1. PICK k \in 0..Len(wire) :
            wire' = SubSeq(wire, 1, k)
                      \o (IF Quiet THEN <<Ev("gone", 0)>> ELSE <<Ev("gone", 0), Ev("cut", 0)>>)
      BY <1>3, <2>2 DEF Vanish
    <3> DEFINE b == SubSeq(wire, 1, k)
               g == IF Quiet THEN <<Ev("gone", 0)>> ELSE <<Ev("gone", 0), Ev("cut", 0)>>
               o == b \o g
    <3>2. b \in Seq(Event) /\ Len(b) = k /\ \A i \in DOMAIN b : b[i] = wire[i]
      BY <1>1
    <3>3. g \in Seq(Event) /\ \A i \in DOMAIN g : g[i].kind # "end"
      <4>1. Ev("gone", 0) \in Event /\ Ev("cut", 0) \in Event
        BY Events
      <4>2. Ev("gone", 0).kind # "end" /\ Ev("cut", 0).kind # "end"
        BY DEF Ev
      <4>. QED BY <4>1, <4>2
    <3>4. wire' = o
      BY <3>1
    <3> HIDE DEF b, g
    <3>5. /\ o \in Seq(Event) /\ Len(b) \in Nat
          /\ \A i \in DOMAIN o : IF i <= Len(b) THEN i \in DOMAIN b /\ o[i] = b[i]
                                 ELSE i - Len(b) \in DOMAIN g /\ o[i] = g[i - Len(b)]
      BY <3>2, <3>3
    <3> HIDE DEF o
    <3>6. \A i \in DOMAIN o : IF i <= k THEN o[i] = wire[i] ELSE o[i].kind # "end"
      BY <3>2, <3>3, <3>5
    <3>. QED BY <1>1, <3>4, <3>5, <3>6, ComesMore
  <2>. QED BY <2>1, <2>2
<1>. QED BY <1>2, <1>3

(* An update of a bound thread brings the prompt, or keeps it.             *)
LEMMA UpdateShows ==
  ASSUME RowsStand, WireStands, Update, bound, turns' = turns, turns \in Turn,
         Head(wire) = Ev("user", turns) \/ Shows
  PROVE  Shows'
<1> DEFINE e == Head(wire)
           base == IF replacing.on THEN Cleared(thread, replacing.ids) ELSE thread
           next == Applied(base, e)
<1>1. /\ e.kind \in Updates /\ replacing' = NoReplace
      /\ thread' = next \/ thread' = FailLatest(next)
  BY DEF Update, FailsUnanswered, Commit
<1>2. e \in Event
  BY TailOf DEF WireStands, Update
<1>3. Clean(base)
  BY Drops DEF RowsStand
<1>4. User(turns) \in Ids(base) \/ e = Ev("user", turns)
  BY DEF Shows
<1> HIDE DEF base, e
<1>5. Clean(next) /\ User(turns) \in Ids(next)
  BY <1>1, <1>2, <1>3, <1>4, Applies, AppliedKeeps
<1> HIDE DEF next
<1>6. User(turns) \in Ids(FailLatest(next))
  BY <1>5, FailKeeps
<1>7. User(turns) \in Ids(thread')
  BY <1>1, <1>5, <1>6
<1>. QED BY <1>1, <1>7 DEF Shows, NoReplace, Ids

(* The reload of a failed run stays on its way to its prompt.              *)
LEMMA RidesStep ==
  ASSUME InOrder, Inv, LatestIsLast, PromptsTell, Asked, Rides, [Next]_vars
  PROVE  Rides'
<1>0. /\ ProviderInv /\ WireStands /\ PagingInv /\ CallerTypes /\ RowsStand
      /\ Clean(thread) /\ wire \in Seq(Event)
  BY DEF Inv, RowsStand, WireStands
<1>. SUFFICES ASSUME NEW w \in riders', w.kind = "fail", w.owned, w.n # 0,
                     prompts'[w.n].turn = turns', HoldsTurn'
              PROVE  Comes(wire', turns', Shows')
  BY DEF Rides
<1>1. ASSUME w \in asks \cup riders
      PROVE  /\ bound /\ w.n \in Prompt /\ prompts[w.n].phase = "kept"
             /\ turns' = turns /\ prompts[w.n].turn = turns /\ turns \in Turn /\ HoldsTurn
             /\ w \in riders => Comes(wire, turns, Shows)
  BY <1>0, <1>1, RiderBefore
<1>2. Shows \in BOOLEAN /\ Shows' \in BOOLEAN
  BY DEF Shows
<1>3. ASSUME turns' = turns, replacing' = replacing,
             User(turns) \in Ids(thread) => User(turns) \in Ids(thread')
      PROVE  Shows => Shows'
  BY <1>3 DEF Shows, Ids
<1>4. ASSUME w \in riders, wire' = wire, replacing' = replacing,
             User(turns) \in Ids(thread) => User(turns) \in Ids(thread')
      PROVE  Comes(wire', turns', Shows')
  <2>1. turns' = turns /\ Comes(wire, turns, Shows)
    BY <1>1, <1>4
  <2>2. Shows => Shows'
    BY <1>3, <1>4, <2>1
  <2> HIDE DEF Shows
  <2>3. Comes(wire, turns, Shows')
    BY <1>2, <2>1, <2>2, ComesAs
  <2>. QED BY <1>4, <2>1, <2>3
<1>5. ASSUME w \in riders, UNCHANGED <<thread, replacing>>,
             \/ \E x \in Ordinary : x.kind # "end" /\ Emit(<<x>>)
             \/ Vanish
      PROVE  Comes(wire', turns', Shows')
  <2>1. turns' = turns /\ Comes(wire, turns, Shows)
    BY <1>1, <1>5
  <2>2. Shows => Shows'
    BY <1>3, <1>5, <2>1
  <2>3. Comes(wire', turns, Shows)
    BY <1>0, <1>2, <1>5, <2>1, ComesOn
  <2>4. Comes(wire', turns, Shows')
    BY <1>2, <2>2, <2>3, ComesAs
  <2>. QED BY <2>1, <2>4
<1>6. ASSUME w \in riders, wire # <<>>, wire' = Tail(wire),
             Head(wire) = Ev("user", turns) \/ (Shows /\ Head(wire).kind # "announce")
               => Shows'
      PROVE  Comes(wire', turns', Shows')
  <2>1. turns' = turns /\ Comes(wire, turns, Shows)
    BY <1>1, <1>6
  <2>2. Comes(Tail(wire), turns, Shows')
    BY <1>0, <1>2, <1>6, <2>1, ComesTail
  <2>. QED BY <1>6, <2>1, <2>2
<1>7. CASE Bind
  <2>1. ~bound /\ riders' = riders
    BY <1>7 DEF Bind
  <2>. QED BY <1>1, <2>1
<1>8. CASE Unbind
  <2>1. riders' = Left(riders)
    BY <1>8 DEF Unbind
  <2>2. PICK v \in riders : w = [v EXCEPT !.owned = FALSE]
    BY <2>1 DEF Left
  <2>3. v \in Waiters
    BY <1>0 DEF CallerTypes
  <2>4. w.owned = FALSE
    BY <2>2, <2>3 DEF Waiters
  <2>. QED BY <2>4
<1>9. CASE Announce
  <2>1. /\ wire # <<>> /\ wire' = Tail(wire) /\ Head(wire).kind = "announce"
        /\ riders' = riders
    BY <1>9 DEF Announce
  <2>2. Head(wire) # Ev("user", turns)
    BY <2>1 DEF Ev
  <2>. QED BY <1>6, <2>1, <2>2
<1>10. CASE ReplayEnd \/ Drop \/ Cut
  <2>1. riders' = {}
    BY <1>10 DEF ReplayEnd, Drop, Cut, ReplayFails
  <2>. QED BY <2>1
<1>11. CASE Refuse
  <2>1. riders' = riders /\ riders = {}
    BY <1>11 DEF Refuse, Quiet
  <2>. QED BY <2>1
<1>12. CASE Update
  <2>1. wire # <<>> /\ wire' = Tail(wire) /\ riders' = riders
    BY <1>12 DEF Update
  <2>2. bound /\ turns' = turns /\ turns \in Turn
    BY <1>1, <2>1
  <2>3. Head(wire) = Ev("user", turns) \/ Shows => Shows'
    BY <1>0, <1>12, <2>2, UpdateShows
  <2>. QED BY <1>6, <2>1, <2>3
<1>13. CASE ReportGone
  <2>1. /\ wire # <<>> /\ wire' = Tail(wire) /\ riders' = riders /\ replacing' = replacing
        /\ Head(wire).kind = "gone"
    BY <1>13 DEF ReportGone
  <2>2. bound /\ turns' = turns /\ turns \in Turn
    BY <1>1, <2>1
  <2>3. thread' = FailSession(thread)
    BY <1>13, <2>2 DEF ReportGone, Commit
  <2>4. User(turns) \in Ids(thread) => User(turns) \in Ids(thread')
    BY <1>0, <2>2, <2>3, FailKeeps
  <2>5. Shows => Shows'
    BY <1>3, <2>1, <2>2, <2>4
  <2>6. Head(wire) # Ev("user", turns)
    BY <2>1 DEF Ev
  <2>. QED BY <1>6, <2>1, <2>5, <2>6
<1>14. ASSUME NEW p \in Prompt, NEW from \in {0} \cup Turn, Send(p, from)
       PROVE  Comes(wire', turns', Shows')
  <2>1. /\ riders' = riders /\ wire' = wire /\ replacing' = replacing
        /\ thread' = Echo(thread, Local(p))
    BY <1>14 DEF Send, Commit
  <2>2. Ids(thread) \subseteq Ids(thread')
    BY <1>0, <2>1, Rows, EchoShows
  <2>. QED BY <1>4, <2>1, <2>2
<1>15. ASSUME NEW p \in Prompt, Accepted(p)
       PROVE  Comes(wire', turns', Shows')
  <2>1. riders' = riders /\ prompts[p].phase = "accepted"
    BY <1>15 DEF Accepted
  <2>2. prompts[p].turn = prompts[w.n].turn /\ prompts[w.n].phase = "kept"
        /\ w.n \in Prompt
    BY <1>1, <2>1 DEF PromptsTell
  <2>3. prompts[p].turn # 0
    BY <1>0, <2>1 DEF ProviderInv, Counted, Began
  <2>4. p = w.n
    BY <2>2, <2>3 DEF PromptsTell
  <2>. QED BY <2>1, <2>2, <2>4
<1>16. ASSUME NEW p \in Prompt, Refused(p)
       PROVE  Comes(wire', turns', Shows')
  <2>1. /\ riders' = riders /\ wire' = wire /\ replacing' = replacing
        /\ thread' = FailLatest(Without(thread, {Local(p)}))
    BY <1>16 DEF Refused, Commit
  <2>2. turns \in Turn
    BY <1>1, <2>1
  <2>3. Clean(Without(thread, {Local(p)}))
    BY <1>0, Drops
  <2>4. User(turns) \in Ids(thread) => User(turns) \in Ids(Without(thread, {Local(p)}))
    BY <1>0, <2>2, FailKeeps
  <2>5. User(turns) \in Ids(thread) => User(turns) \in Ids(thread')
    BY <2>1, <2>2, <2>3, <2>4, FailKeeps
  <2>. QED BY <1>4, <2>1, <2>5
<1>17. ASSUME NEW p \in Prompt, Answer(p)
       PROVE  Comes(wire', turns', Shows')
  <2>1. riders' = riders /\ UNCHANGED <<thread, replacing>>
    BY <1>17 DEF Answer, browser
  <2>2. turns' = turns /\ turns \in Turn
    BY <1>1, <2>1
  <2>3. ~Take(p)
    <3>1. ASSUME Take(p) PROVE turns' = turns + 1
      BY <3>1 DEF Take
    <3>. QED BY <2>2, <3>1, ThreadAssumption DEF Turn
  <2>4. wire' = wire
    BY <1>17, <2>3 DEF Answer
  <2>. QED BY <1>4, <2>1, <2>4
<1>18. ASSUME NEW l \in Load, Land(l)
       PROVE  Comes(wire', turns', Shows')
  <2>1. /\ riders' = riders /\ wire' = wire /\ replacing' = replacing
        /\ thread' = Prepended(thread, load[l].page) \/ thread' = thread
    BY <1>18 DEF Land, Commit
  <2>2. load[l].page \in Seq(Held) /\ Once(load[l].page)
    BY <1>0, PageFields DEF PagingInv
  <2>3. User(turns) \in Ids(thread) => User(turns) \in Ids(thread')
    BY <1>0, <1>1, <2>1, <2>2, PrependKeeps
  <2>. QED BY <1>4, <2>1, <2>3
<1>19. CASE LoadOlder \/ \E l \in Load : Serve(l) \/ Deny(l)
  <2>1. riders' = riders /\ UNCHANGED <<thread, replacing, wire>>
    BY <1>19 DEF LoadOlder, Serve, Deny, browser
  <2>. QED BY <1>4, <2>1
<1>20. CASE Join
  <2>1. riders' = asks
    BY <1>20 DEF Join
  <2>2. turns' = turns /\ HoldsTurn
    BY <1>1, <2>1
  <2>3. Comes(wire', turns, Shows')
    BY <1>0, <1>20, <2>2, JoinBrings
  <2>. QED BY <2>2, <2>3
<1>21. CASE Run \/ Part
              \/ \E status \in {"idle", "failed"}, kept \in BOOLEAN : Finish(status, kept)
  <2>1. riders' = riders /\ UNCHANGED <<thread, replacing>> /\ live # 0
    BY <1>0, <1>21 DEF Run, Part, Finish, browser, ProviderInv, TurnsStand
  <2>2. live \in Turn
    BY <1>0, <2>1 DEF ProviderInv, ProviderTypes
  <2>3. \A x \in {"running", "part", "idle", "failed"} :
          Ev(x, live) \in Ordinary /\ Ev(x, live).kind # "end"
    BY <2>2, Events DEF Ev
  <2>4. \E x \in {"running", "part", "idle", "failed"} : Emit(<<Ev(x, live)>>)
    BY <1>21 DEF Run, Part, Finish
  <2>5. \E x \in Ordinary : x.kind # "end" /\ Emit(<<x>>)
    BY <2>3, <2>4
  <2>. QED BY <1>5, <2>1, <2>5
<1>22. CASE Vanish
  <2>1. riders' = riders /\ UNCHANGED <<thread, replacing>>
    BY <1>22 DEF Vanish, browser
  <2>. QED BY <1>5, <1>22, <2>1
<1>23. CASE UNCHANGED vars
  <2>1. riders' = riders /\ UNCHANGED <<thread, replacing, wire>>
    BY <1>23 DEF vars
  <2>. QED BY <1>4, <2>1
<1>. QED BY <1>7, <1>8, <1>9, <1>10, <1>11, <1>12, <1>13, <1>14, <1>15, <1>16, <1>17, <1>18,
            <1>19, <1>20, <1>21, <1>22, <1>23
     DEF Next

(* A message was handed back because its prompt was refused, an error hid  *)
(* its acceptance, or the provider no longer holds it as its latest.       *)
HandedBack ==
  \A p \in returned :
    \/ prompts[p].phase \in {"doubt", "back"}
    \/ prompts[p].phase = "kept" /\ (prompts[p].turn = turns => ~HoldsTurn)

(* A replay that ended without a prompt's row tells of a turn not kept.    *)
LEMMA EndHandsBack ==
  ASSUME Inv, Asked, Rides, ReplayEnd, NEW p \in returned' \ returned
  PROVE  /\ p \in Prompt /\ prompts[p].phase = "kept"
         /\ prompts[p].turn = turns => ~HoldsTurn
<1> DEFINE after == IF replay.on THEN Outcome(TRUE) ELSE thread
<1>1. /\ wire # <<>> /\ Head(wire).kind = "end"
      /\ returned' = returned \cup Lost(riders, after)
  BY DEF ReplayEnd
<1> HIDE DEF after
<1>2. PICK w \in riders : /\ w.kind = "fail" /\ w.owned /\ w.n = p /\ p # 0
                          /\ User(prompts[p].turn) \notin Ids(after)
  BY <1>1 DEF Lost
<1>3. p \in Prompt /\ prompts[p].phase = "kept"
  <2>1. w \in Waiters
    BY DEF Inv, CallerTypes
  <2>. QED BY <1>2, <2>1 DEF Waiters, Asked, Fits
<1>4. ASSUME prompts[p].turn = turns, HoldsTurn PROVE FALSE
  <2>1. Comes(wire, turns, Shows)
    BY <1>2, <1>4 DEF Rides
  <2>2. Head(wire) = wire[1] /\ 1 \in DOMAIN wire
    BY <1>1, TailOf DEF Inv, WireStands
  <2>3. \/ Shows
        \/ \E j \in 1..1 : wire[j] = Ev("user", turns)
    BY <1>1, <2>1, <2>2 DEF Comes
  <2>4. wire[1] # Ev("user", turns)
    BY <1>1, <2>2 DEF Ev
  <2>5. Shows
    BY <2>3, <2>4
  <2>6. after = thread
    BY <2>5 DEF Shows, Outcome, after
  <2>. QED BY <1>2, <1>4, <2>5, <2>6 DEF Shows
<1>. QED BY <1>3, <1>4

(* A message handed back stays so for the same reason.                     *)
LEMMA HandedStep ==
  ASSUME Inv, LatestIsLast, PromptsTell, Asked, Rides, HandedBack, [Next]_vars
  PROVE  HandedBack'
<1>0. ProviderInv /\ returned \subseteq Prompt
  BY DEF Inv, CallerTypes
<1>1. ASSUME NEW p \in Prompt,
             prompts[p].phase \in {"doubt", "back"}
               \/ (prompts[p].phase = "kept" /\ (prompts[p].turn = turns => ~HoldsTurn))
      PROVE  \/ prompts'[p].phase \in {"doubt", "back"}
             \/ prompts'[p].phase = "kept" /\ (prompts'[p].turn = turns' => ~HoldsTurn')
  <2>1. prompts'[p] = prompts[p]
    BY <1>0, <1>1, OverStays
  <2>2. CASE prompts[p].phase = "kept"
    <3>1. ASSUME prompts'[p].turn = turns', HoldsTurn' PROVE FALSE
      <4>1. prompts[p].turn = turns /\ HoldsTurn
        BY <1>0, <2>2, <3>1, KeptTurn
      <4>. QED BY <1>1, <2>2, <4>1
    <3>. QED BY <2>1, <2>2, <3>1
  <2>. QED BY <1>1, <2>1, <2>2
<1>2. ASSUME NEW p \in returned
      PROVE  \/ prompts'[p].phase \in {"doubt", "back"}
             \/ prompts'[p].phase = "kept" /\ (prompts'[p].turn = turns' => ~HoldsTurn')
  BY <1>0, <1>1 DEF HandedBack
<1>3. ASSUME returned' = returned PROVE HandedBack'
  BY <1>2, <1>3 DEF HandedBack
<1>4. CASE ReplayEnd
  <2>1. ASSUME NEW p \in returned' \ returned
        PROVE  \/ prompts'[p].phase \in {"doubt", "back"}
               \/ prompts'[p].phase = "kept" /\ (prompts'[p].turn = turns' => ~HoldsTurn')
    <3>1. /\ p \in Prompt /\ prompts[p].phase = "kept"
          /\ prompts[p].turn = turns => ~HoldsTurn
      BY <1>4, EndHandsBack
    <3>. QED BY <1>1, <3>1
  <2>. QED BY <1>2, <2>1 DEF HandedBack
<1>5. ASSUME NEW q \in Prompt, Refused(q) PROVE HandedBack'
  <2>1. returned' = returned \cup {q} /\ Ends(q, IF prompts[q].phase = "lost" THEN "doubt" ELSE "back")
    BY <1>5 DEF Refused
  <2>2. prompts'[q].phase \in {"doubt", "back"}
    <3>1. prompts \in [Prompt -> PromptState]
      BY <1>0 DEF ProviderInv, ProviderTypes, PromptState, Phase
    <3>2. PICK x \in {"doubt", "back"} : prompts' = [prompts EXCEPT ![q].phase = x]
      BY <2>1 DEF Ends
    <3>. QED BY <3>1, <3>2 DEF PromptState
  <2>. QED BY <1>2, <2>1, <2>2 DEF HandedBack
<1>6. CASE Bind \/ Unbind \/ Announce \/ Drop \/ Cut \/ Refuse \/ Update \/ ReportGone
             \/ LoadOlder \/ Join \/ Run \/ Part \/ Vanish
             \/ \E status \in {"idle", "failed"}, kept \in BOOLEAN : Finish(status, kept)
  <2>1. returned' = returned
    BY <1>6 DEF Bind, Unbind, Announce, Drop, Cut, Refuse, Update, ReportGone, LoadOlder,
                Join, Run, Part, Vanish, Finish, browser
  <2>. QED BY <1>3, <2>1
<1>7. ASSUME NEW p \in Prompt,
             Accepted(p) \/ Answer(p) \/ \E from \in {0} \cup Turn : Send(p, from)
      PROVE  HandedBack'
  <2>1. returned' = returned
    BY <1>7 DEF Accepted, Answer, Send, browser
  <2>. QED BY <1>3, <2>1
<1>8. ASSUME NEW l \in Load, Land(l) \/ Serve(l) \/ Deny(l) PROVE HandedBack'
  <2>1. returned' = returned
    BY <1>8 DEF Land, Serve, Deny, browser
  <2>. QED BY <1>3, <2>1
<1>9. CASE UNCHANGED vars
  BY <1>3, <1>9 DEF vars
<1>. QED BY <1>4, <1>5, <1>6, <1>7, <1>8, <1>9 DEF Next

ReturnInv == Inv /\ LatestIsLast /\ PromptsTell /\ Asked /\ Rides /\ HandedBack

(* Where a prompt's echo, its reply and its run come in order, no message  *)
(* is both with the operator and kept by the provider, but for an error    *)
(* that hid its acceptance or a later prompt: failUnanswered's reload in   *)
(* use-acp-runtime.ts.                                                     *)
THEOREM HandedBackOnce ==
  ASSUME InOrder
  PROVE  Spec => []NotBoth
<1>1. Init => ReturnInv
  <2> SUFFICES ASSUME Init PROVE ReturnInv
    OBVIOUS
  <2>1. Inv
    BY Starts
  <2>2. LatestIsLast
    <3>1. /\ store = [n \in 1..History |-> [id |-> n, parts |-> 1]] /\ live = 0
          /\ turns = History
      BY DEF Init
    <3>2. Len(store) = History /\ \A i \in DOMAIN store : store[i].id = i
      BY <3>1, ThreadAssumption
    <3>. QED BY <3>1, <3>2 DEF LatestIsLast
  <2>3. PromptsTell /\ Asked /\ Rides /\ HandedBack
    BY DEF Init, PromptsTell, Asked, Rides, HandedBack
  <2>. QED BY <2>1, <2>2, <2>3 DEF ReturnInv
<1>2. ReturnInv /\ [Next]_vars => ReturnInv'
  <2> SUFFICES ASSUME ReturnInv, [Next]_vars PROVE ReturnInv'
    OBVIOUS
  <2>1. /\ Inv /\ LatestIsLast /\ PromptsTell /\ Asked /\ Rides /\ HandedBack
        /\ ProviderInv /\ CallerTypes /\ PagingInv
    BY DEF ReturnInv, Inv
  <2>2. Inv' /\ ProviderInv'
    BY <2>1, Steps DEF Inv
  <2>3. LatestIsLast'
    BY <2>1, <2>2, LatestStep
  <2>4. PromptsTell'
    BY <2>1, <2>2, PromptsStep
  <2>5. Asked'
    BY <2>1, AskedStep
  <2>6. Rides'
    BY <2>1, RidesStep
  <2>7. HandedBack'
    BY <2>1, HandedStep
  <2>. QED BY <2>2, <2>3, <2>4, <2>5, <2>6, <2>7 DEF ReturnInv
<1>3. ReturnInv => NotBoth
  <2> SUFFICES ASSUME ReturnInv, NEW p \in returned, NEW i \in DOMAIN store,
                      store[i].id = prompts[p].turn, prompts[p].phase # "doubt"
               PROVE  \E q \in Prompt : prompts[q].turn > prompts[p].turn
    BY DEF NotBoth
  <2>1. ProviderInv /\ PromptsTell /\ HandedBack /\ p \in Prompt
    BY DEF ReturnInv, Inv, CallerTypes
  <2>2. turns \in Nat /\ History \in Nat /\ prompts[p].turn \in Nat /\ store[i].id \in Nat
        /\ store[i].id # 0 /\ store[i].id <= turns
    <3>1. store[i] \in Held
      BY <2>1 DEF ProviderInv, ProviderTypes
    <3>2. store[i].id \in Turn
      BY <3>1 DEF Held
    <3>. QED BY <2>1, <3>2, ThreadAssumption DEF ProviderInv, ProviderTypes, TurnsStand, Turn
  <2>3. prompts[p].turn \in (History + 1)..turns /\ prompts[p].phase # "back"
    BY <2>1, <2>2 DEF PromptsTell
  <2>4. prompts[p].turn # turns
    BY <2>1, <2>3 DEF HandedBack, HoldsTurn
  <2>5. prompts[p].turn < turns /\ turns # History
    BY <2>2, <2>3, <2>4
  <2>6. PICK q \in Prompt : prompts[q].turn = turns
    BY <2>1, <2>5 DEF PromptsTell
  <2>. QED BY <2>5, <2>6
<1>. QED BY <1>1, <1>2, <1>3, PTL DEF Spec
=============================================================================
