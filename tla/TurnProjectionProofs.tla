------------------------ MODULE TurnProjectionProofs -------------------------
(* What TurnProjection promises of the turns a view shows, for every number of *)
(* turns, of replies and of asides, as long as no replay finds a run that wrote *)
(* nothing yet.                                                               *)
EXTENDS TurnProjection, TLAPS, WellFoundedInduction

-----------------------------------------------------------------------------
(* The messages.                                                              *)

Tags == {"user", "reply", "host", "divider", "notice"}
Id == Tags \X Nat \X Nat
Part == {"divider", "notice", "text"} \X Nat \X Nat
Row == [id : Id, role : {"user", "reply"}, status : Statuses, opens : BOOLEAN, parts : SUBSET Part]

Hosted(parts) == \A part \in parts : part[1] \in {"divider", "notice"}
Present(s, id) == \E i \in DOMAIN s : s[i].id = id
Joins(s, i) == i > 1 /\ s[i].role = "reply" /\ s[i - 1].role = "reply" /\ ~s[i].opens
Strays == {Notice, Refused}  \* a notice or a failure that came before any reply
NextReply(a, b) == Stored(a) /\ Stored(b) /\ a[2] = b[2] /\ b[3] = a[3] + 1

(* The replies a view was told of: of the turns before n all, of turn n k.     *)
WroteIn(ts, n, k, t) == IF t = n THEN k ELSE ts[t].wrote
Replies(ts, n, k) == UNION {{Reply(t, j) : j \in 1..WroteIn(ts, n, k, t)} : t \in 1..n}

(* Each message is there once; a reply joins the one before it only in its own  *)
(* turn (or a stray, which no reply is before); and one turn's replies are not  *)
(* parted.                                                                    *)
RowsOK(s, S, n) ==
  /\ s \in Seq(Row)
  /\ \A i, j \in DOMAIN s : s[i].id = s[j].id => i = j
  /\ \A i \in DOMAIN s : s[i].role = "user" <=> s[i].id[1] = "user"
  /\ \A i \in DOMAIN s : Stored(s[i].id) => s[i].id \in S
  /\ \A id \in S : Present(s, id)
  /\ \A i \in DOMAIN s : s[i].id[1] \in {"user", "host", "divider"} => s[i].id[2] <= n
  /\ \A i \in DOMAIN s : IsHost(s[i].id) => Hosted(s[i].parts)
  /\ \A i \in DOMAIN s : Joins(s, i) => s[i - 1].id \in Strays \/ NextReply(s[i - 1].id, s[i].id)
  /\ \A i \in DOMAIN s : Stored(s[i].id) /\ s[i].id[3] > 1
                           => Joins(s, i) /\ NextReply(s[i - 1].id, s[i].id)
  /\ \A i, j \in DOMAIN s : s[i].id \in Strays /\ j < i => s[j].role = "user"

(* A message that is not the active one reads neither running nor waiting, and  *)
(* a stored one as no other turn's end, but for a failure laid on it.          *)
Rests(ts, id, status) ==
  /\ status \notin {"running", "waiting"}
  /\ Stored(id) => status \in {"none", "complete", "laid", ts[id[2]].how}
Quiet(ts, m) == Rests(ts, m.id, m.status)

View == [msgs : Seq(Row), exec : {"idle", "running", "waiting", "failed"}, run : 0..MaxTurns,
         reported : BOOLEAN, active : Id \cup {None}, streamed : 0..MaxTurns]
Base(ts, p, n, k) ==
  /\ p \in View /\ RowsOK(p.msgs, Replies(ts, n, k), n)
  /\ p.active # None => Present(p.msgs, p.active)
  /\ \A i \in DOMAIN p.msgs : p.msgs[i].id # p.active => Quiet(ts, p.msgs[i])

(* One message has another status, and parts were added.                       *)
Repaints(s, r, id, status) ==
  /\ r \in Seq(Row) /\ Len(r) = Len(s)
  /\ \A i \in DOMAIN s :
       /\ r[i].id = s[i].id /\ r[i].role = s[i].role /\ r[i].opens = s[i].opens
       /\ IsHost(s[i].id) => Hosted(r[i].parts)
       /\ r[i].status = IF s[i].id = id THEN status ELSE s[i].status

(* All but the messages named keep their status.                              *)
Same(s, r, ids) == \A i \in DOMAIN r : r[i].id \in ids \/
  \E j \in DOMAIN s : s[j].id = r[i].id /\ s[j].status = r[i].status

SameRun(p, q) ==
  q.exec = p.exec /\ q.run = p.run /\ q.reported = p.reported /\ q.streamed = p.streamed

-----------------------------------------------------------------------------
(* The Session.                                                               *)

SessionOK(ts) ==
  /\ ts \in Seq(Turn) /\ Len(ts) <= MaxTurns
  /\ \A t \in DOMAIN ts :
       /\ t < Len(ts) => ts[t].phase = "ended"
       /\ ts[t].phase = "asked" => ts[t].wrote = 0 /\ ts[t].compacted = NoCompaction /\ ~ts[t].own
       /\ ts[t].phase \in {"asked", "waiting"} => ~ts[t].reported
       /\ ts[t].phase = "waiting" /\ ts[t].own => ts[t].wrote > 0
       /\ ts[t].phase # "ended" /\ ~ts[t].reported => ts[t].how = "complete"
       /\ ts[t].reported => ts[t].how = "failed"

Written(ts) == IF ts = <<>> THEN 0 ELSE ts[Len(ts)].wrote

(* A view that is told of every update, as the Session's last turn is.          *)
PhaseOf(ts) == IF ts = <<>> THEN "none" ELSE ts[Len(ts)].phase
OwnOf(ts) == ts # <<>> /\ ts[Len(ts)].own
ReportedOf(ts) == ts # <<>> /\ ts[Len(ts)].reported
Holds(p, n, phase, w, own, reported) ==
  LET open == phase \in {"running", "waiting"} IN
  /\ Ongoing(p) <=> open
  /\ open => p.run = n /\ p.exec = phase /\ p.reported = reported
  /\ ~open => ~p.reported
  /\ p.active # None => /\ open /\ p.msgs # <<>> /\ p.active = Last(p.msgs).id
                        /\ \/ p.active = Host(n) /\ (w = 0 \/ reported)
                           \/ p.active \in Strays /\ w = 0
                           \/ p.active = Reply(n, w) /\ w > 0
  /\ open /\ w > 0 => /\ p.active # None
                      /\ Last(p.msgs).status \in {"laid", IF reported THEN "failed" ELSE phase}
  /\ phase = "waiting" => p.active # None
  /\ phase = "asked" \/ (open /\ w = 0 /\ ~own /\ p.active = None)
       => p.msgs # <<>> /\ Last(p.msgs).id \in Strays \cup {User(n)}
  /\ (open \/ phase = "asked") /\ Present(p.msgs, Host(n)) => p.active = Host(n)
Shows(p, n, phase, w, own, reported) ==
  /\ Holds(p, n, phase, w, own, reported)
  /\ p.streamed # 0 => phase = "asked" /\ p.streamed = n
Told(ts, p) ==
  /\ Base(ts, p, Len(ts), Written(ts))
  /\ Shows(p, Len(ts), PhaseOf(ts), Written(ts), OwnOf(ts), ReportedOf(ts))

(* What `live` knows besides: how every turn ended.                            *)
EndsKnown(ts, p) ==
  \A i \in DOMAIN p.msgs :
    Stored(p.msgs[i].id) /\ ts[p.msgs[i].id[2]].phase = "ended"
      /\ p.msgs[i].id[3] = ts[p.msgs[i].id[2]].wrote
    => p.msgs[i].status \in {"laid", ts[p.msgs[i].id[2]].how}
Watched(ts, p) ==
  /\ PhaseOf(ts) \in {"running", "waiting"} /\ Written(ts) > 0 => p.active = Reply(Len(ts), Written(ts))
  /\ EndsKnown(ts, p)

(* A view that is gone.                                                       *)
Gone(ts, p) ==
  /\ p \in View /\ p.msgs = <<>> /\ p.active = None
  /\ p.reported => p.run \in DOMAIN ts /\ ts[p.run].reported
  /\ Ongoing(p) => p.run \in DOMAIN ts /\ ts[p.run].phase # "asked"
  /\ p.streamed # 0 => ~Ongoing(p) /\ p.streamed \in DOMAIN ts /\ ~ts[p.streamed].own

-----------------------------------------------------------------------------
(* A replay, after k replies of turn t. While a run reads as under way each    *)
(* reply is its active one; without one nothing is, and a compaction stands on  *)
(* a divider which the reply after it takes over.                             *)

InRun(ts, p, t, k) ==
  /\ Base(ts, p, t, k) /\ p.exec = "running"
  /\ Present(p.msgs, Host(t)) => p.active = Host(t)
  /\ k > 0 => /\ p.active = Reply(t, k) /\ p.msgs # <<>>
              /\ Last(p.msgs).id = Reply(t, k) /\ Last(p.msgs).status = "running"
  /\ k = 0 => \/ p.active = None
              \/ p.active = Host(t) /\ p.msgs # <<>> /\ Last(p.msgs).id = Host(t)
              \/ Stored(p.active) /\ (ts[t].own \/ (p.msgs # <<>> /\ Last(p.msgs).id = User(t)))
RestHosts(s) == \A i \in DOMAIN s : IsHost(s[i].id) =>
  /\ s[i].id[1] = "divider" /\ s[i].status = "none"
  /\ \A part \in s[i].parts : part[1] = "divider"
InRest(ts, p, t, k) ==
  /\ Base(ts, p, t, k) /\ p.exec # "running" /\ p.active = None /\ RestHosts(p.msgs)
  /\ k > 0 => p.msgs # <<>> /\ Last(p.msgs).id = Reply(t, k)
  /\ k = 0 /\ ~ts[t].own => p.msgs # <<>> /\ Last(p.msgs).id \in {User(t), Divider(t)}

(* The Session's turns are in order, the view that watched was told of them    *)
(* and knows every end, and the other one was told too while it is linked, and *)
(* otherwise fits what the Session had become when it was last.                *)
IInv ==
  /\ SessionOK(turns) /\ linked \in BOOLEAN /\ asides \in 0..MaxAsides
  /\ Told(turns, live) /\ Watched(turns, live)
  /\ IF linked THEN Told(turns, view) ELSE Gone(turns, view)

-----------------------------------------------------------------------------
(* Names, and the rows of a transcript.                                        *)

LEMMA Names ==
  /\ None \notin Id /\ Notice \in Id /\ Text \in Part /\ Notice \in Part
  /\ Notice[1] = "notice" /\ Notice[2] = 0 /\ Notice[3] = 0 /\ Text[1] = "text"
  /\ Refused \in Id /\ Refused[1] = "host" /\ Refused[2] = 0
  /\ \A id \in Strays : id \in Id /\ id[1] \in {"notice", "host"} /\ id[2] = 0
  /\ \A t, k \in Nat :
       /\ User(t) \in Id /\ Reply(t, k) \in Id /\ Host(t) \in Id /\ Divider(t) \in Id
       /\ Divider(t) \in Part /\ Divider(t)[1] = "divider" /\ Divider(t)[2] = t
       /\ User(t)[1] = "user" /\ User(t)[2] = t /\ Host(t)[1] = "host" /\ Host(t)[2] = t
       /\ Reply(t, k)[1] = "reply" /\ Reply(t, k)[2] = t /\ Reply(t, k)[3] = k
  /\ \A id \in Id : /\ id[1] \in Tags /\ id[2] \in Nat /\ id[3] \in Nat
                    /\ id[1] = "reply" => id = Reply(id[2], id[3])
BY DEF None, Id, Notice, Text, Part, User, Reply, Host, Divider, Tags, Strays, Refused

(* The replies of the first turns, up to the k-th of the last.               *)
LEMMA RepliesAre ==
  ASSUME NEW ts, NEW n \in Nat, NEW k \in Nat, \A t \in 1..n : ts[t].wrote \in Nat
  PROVE  /\ Replies(ts, n, k) \subseteq Id
         /\ \A t, j \in Nat : Reply(t, j) \in Replies(ts, n, k)
                                <=> t \in 1..n /\ j \in 1..WroteIn(ts, n, k, t)
         /\ \A id \in Replies(ts, n, k) :
              Stored(id) /\ id[2] \in 1..n /\ id[3] \in 1..WroteIn(ts, n, k, id[2])
<1>1. \A t \in 1..n : WroteIn(ts, n, k, t) \in Nat
  BY DEF WroteIn
<1>2. \A id : id \in Replies(ts, n, k) <=> \E t \in 1..n : \E j \in 1..WroteIn(ts, n, k, t) : id = Reply(t, j)
  BY DEF Replies
<1>3. ASSUME NEW id \in Replies(ts, n, k)
      PROVE  /\ id \in Id /\ Stored(id)
             /\ id[2] \in 1..n /\ id[3] \in 1..WroteIn(ts, n, k, id[2])
  <2>0. PICK t \in 1..n : \E j \in 1..WroteIn(ts, n, k, t) : id = Reply(t, j)
    BY <1>2
  <2>1. PICK j \in 1..WroteIn(ts, n, k, t) : id = Reply(t, j)
    BY <2>0
  <2>2. t \in Nat /\ j \in Nat
    BY <1>1, <2>1
  <2> QED BY <2>1, <2>2, Names DEF Stored
<1>4. ASSUME NEW t \in Nat, NEW j \in Nat
      PROVE  Reply(t, j) \in Replies(ts, n, k) <=> t \in 1..n /\ j \in 1..WroteIn(ts, n, k, t)
  <2>1. Reply(t, j)[2] = t /\ Reply(t, j)[3] = j
    BY Names
  <2> QED BY <1>2, <1>3, <2>1
<1> QED BY <1>3, <1>4

(* A function on 1..n is a sequence.                                           *)
LEMMA IsSeq ==
  ASSUME NEW T, NEW n \in Nat, NEW f \in [1..n -> T]
  PROVE  f \in Seq(T) /\ Len(f) = n /\ DOMAIN f = 1..n
OBVIOUS

(* The last of some messages.                                                 *)
LEMMA Greatest ==
  ASSUME NEW n \in Nat, NEW T, T \subseteq 1..n, T # {}
  PROVE  Max(T) \in T /\ \A i \in T : i <= Max(T)
<1> DEFINE Bound == {m \in Nat : \A i \in T : i <= m}
<1>1. n \in Bound /\ Bound \subseteq Nat
  OBVIOUS
<1>2. PICK m \in Bound : \A y \in Bound : ~(<<y, m>> \in OpToRel(<, Nat))
  <2> HIDE DEF Bound
  <2> QED BY <1>1, NatLessThanWellFounded, WFMin
<1>3. m \in Nat /\ \A i \in T : i <= m
  OBVIOUS
<1>4. \A y \in Bound : ~(y < m)
  <2>1. \A y \in Bound : y \in Nat
    OBVIOUS
  <2> QED BY <1>2, <1>3, <2>1 DEF OpToRel
<1>5. m \in T
  <2>1. ASSUME m \notin T PROVE FALSE
    <3>1. PICK i \in T : TRUE
      OBVIOUS
    <3>2. i \in Nat /\ i >= 1 /\ i <= m /\ i # m
      BY <1>3, <2>1, <3>1
    <3>3. m - 1 \in Nat
      BY <1>3, <3>2
    <3>4. \A y \in T : y <= m - 1
      BY <1>3, <2>1
    <3>5. m - 1 \in Bound
      BY <3>3, <3>4
    <3> QED BY <1>3, <1>4, <3>5
  <2> QED BY <2>1
<1>6. \E x \in T : \A y \in T : x >= y
  BY <1>3, <1>5
<1>7. Max(T) \in T /\ \A y \in T : Max(T) >= y
  BY <1>6 DEF Max
<1> QED BY <1>7

(* Nothing but the statuses and the parts of messages change.                  *)
LEMMA Repaint ==
  ASSUME NEW s, NEW S, NEW n, RowsOK(s, S, n), NEW r \in Seq(Row), Len(r) = Len(s),
         \A i \in DOMAIN s :
           /\ r[i].id = s[i].id /\ r[i].role = s[i].role /\ r[i].opens = s[i].opens
           /\ IsHost(s[i].id) => Hosted(r[i].parts)
  PROVE  RowsOK(r, S, n)
<1>1. DOMAIN r = DOMAIN s /\ \A i \in DOMAIN s : i \in Nat /\ (i > 1 => i - 1 \in DOMAIN s)
  BY DEF RowsOK
<1>2. \A i \in DOMAIN s : Joins(r, i) <=> Joins(s, i)
  BY <1>1 DEF Joins
<1>3. \A id : Present(r, id) <=> Present(s, id)
  BY <1>1 DEF Present
<1>4. \A i \in DOMAIN s : Joins(r, i) => r[i - 1].id \in Strays \/ NextReply(r[i - 1].id, r[i].id)
  BY <1>1, <1>2 DEF RowsOK, Joins
<1>5. \A i \in DOMAIN s : Stored(r[i].id) /\ r[i].id[3] > 1 => Joins(r, i) /\ NextReply(r[i - 1].id, r[i].id)
  BY <1>1, <1>2 DEF RowsOK, Joins
<1>6. \A i, j \in DOMAIN r : r[i].id = r[j].id => i = j
  BY <1>1 DEF RowsOK
<1>7. \A i \in DOMAIN r : r[i].role = "user" <=> r[i].id[1] = "user"
  BY <1>1 DEF RowsOK
<1>8. \A i \in DOMAIN r : /\ Stored(r[i].id) => r[i].id \in S
                          /\ r[i].id[1] \in {"user", "host", "divider"} => r[i].id[2] <= n
  BY <1>1 DEF RowsOK
<1>9. \A i, j \in DOMAIN r : r[i].id \in Strays /\ j < i => r[j].role = "user"
  BY <1>1 DEF RowsOK
<1>10. \A id \in S : Present(r, id)
  BY <1>3 DEF RowsOK
<1> QED BY <1>1, <1>4, <1>5, <1>6, <1>7, <1>8, <1>9, <1>10 DEF RowsOK

(* A message is appended.                                                     *)
LEMMA AppendRow ==
  ASSUME NEW s, NEW S, NEW n \in Nat, RowsOK(s, S, n), NEW x \in Row, ~Present(s, x.id),
         NEW m \in Nat, n <= m, x.role = "user" <=> x.id[1] = "user",
         x.id[1] \in {"user", "host", "divider"} => x.id[2] <= m,
         IsHost(x.id) => Hosted(x.parts),
         s # <<>> /\ x.role = "reply" /\ Last(s).role = "reply" /\ ~x.opens
           => Last(s).id \in Strays \/ NextReply(Last(s).id, x.id),
         Stored(x.id) /\ x.id[3] > 1
           => s # <<>> /\ x.role = "reply" /\ Last(s).role = "reply" /\ ~x.opens /\ NextReply(Last(s).id, x.id),
         x.id \in Strays => \A i \in DOMAIN s : s[i].role = "user",
         NEW T, \A id : id \in T <=> id \in S \/ (id = x.id /\ Stored(id))
  PROVE  RowsOK(Append(s, x), T, m)
<1> DEFINE r == Append(s, x)
           k == Len(s)
<1>1. /\ s \in Seq(Row) /\ k \in Nat /\ DOMAIN s = 1..k
      /\ r \in Seq(Row) /\ Len(r) = k + 1 /\ DOMAIN r = 1..k + 1
      /\ r[k + 1] = x /\ \A i \in 1..k : r[i] = s[i]
  BY DEF RowsOK
<1>2. \A i \in DOMAIN r : i = k + 1 \/ (i \in DOMAIN s /\ i \in 1..k)
  BY <1>1
<1>3. k = 0 <=> s = <<>>
  BY <1>1
<1> HIDE DEF r
<1>4. \A i \in 1..k : /\ Joins(r, i) <=> Joins(s, i)
                      /\ i > 1 => r[i - 1] = s[i - 1]
  BY <1>1 DEF Joins
<1>5. Joins(r, k + 1) <=> k > 0 /\ x.role = "reply" /\ s[k].role = "reply" /\ ~x.opens
  <2>1. k > 0 => (k + 1) - 1 = k /\ k \in 1..k /\ r[k] = s[k]
    BY <1>1
  <2> QED BY <1>1, <2>1 DEF Joins
<1>6. \A i, j \in DOMAIN r : r[i].id = r[j].id => i = j
  <2>1. \A i \in 1..k : s[i].id # x.id
    BY <1>1 DEF Present
  <2>2. \A i, j \in 1..k : s[i].id = s[j].id => i = j
    BY <1>1 DEF RowsOK
  <2> QED BY <1>1, <1>2, <2>1, <2>2
<1>7. \A i \in DOMAIN r : /\ r[i].role = "user" <=> r[i].id[1] = "user"
                          /\ Stored(r[i].id) => r[i].id \in T
  BY <1>1, <1>2 DEF RowsOK
<1>8. \A id \in T : Present(r, id)
  <2>1. \A id \in S : Present(r, id)
    <3>1. \A id \in S : \E i \in 1..k : s[i].id = id
      BY <1>1 DEF RowsOK, Present
    <3> QED BY <1>1, <3>1 DEF Present
  <2>2. Present(r, x.id)
    BY <1>1 DEF Present
  <2> QED BY <2>1, <2>2
<1>9. \A i \in DOMAIN r : r[i].id[1] \in {"user", "host", "divider"} => r[i].id[2] <= m
  <2>r. \A i \in 1..k : s[i] \in Row
    BY <1>1
  <2>0. \A i \in 1..k : s[i].id \in Id
    BY <2>r DEF Row
  <2>1. \A i \in 1..k : s[i].id[1] \in {"user", "host", "divider"} => s[i].id[2] <= n /\ s[i].id[2] \in Nat
    BY <1>1, <2>0, Names DEF RowsOK
  <2> QED BY <1>1, <1>2, <2>1
<1>10. \A i \in DOMAIN r : IsHost(r[i].id) => Hosted(r[i].parts)
  BY <1>1, <1>2 DEF RowsOK
<1>11. \A i \in DOMAIN r : Joins(r, i) => r[i - 1].id \in Strays \/ NextReply(r[i - 1].id, r[i].id)
  <2>1. ASSUME Joins(r, k + 1) PROVE r[(k + 1) - 1].id \in Strays \/ NextReply(r[(k + 1) - 1].id, x.id)
    <3>1. k > 0 /\ (k + 1) - 1 = k /\ r[k] = s[k] /\ s # <<>>
      BY <1>1, <1>3, <1>5, <2>1
    <3> QED BY <1>5, <2>1, <3>1 DEF Last
  <2>2. ASSUME NEW i \in 1..k, Joins(r, i) PROVE r[i - 1].id \in Strays \/ NextReply(r[i - 1].id, r[i].id)
    BY <1>1, <1>4, <2>2 DEF RowsOK, Joins
  <2> QED BY <1>1, <1>2, <2>1, <2>2
<1>12. \A i \in DOMAIN r : Stored(r[i].id) /\ r[i].id[3] > 1 => Joins(r, i) /\ NextReply(r[i - 1].id, r[i].id)
  <2>1. ASSUME Stored(x.id), x.id[3] > 1 PROVE Joins(r, k + 1) /\ NextReply(r[(k + 1) - 1].id, x.id)
    <3>1. k > 0 /\ (k + 1) - 1 = k /\ k \in 1..k /\ r[k] = s[k] /\ s # <<>>
      BY <1>1, <1>3, <2>1
    <3> QED BY <1>5, <2>1, <3>1 DEF Last
  <2>2. ASSUME NEW i \in 1..k, Stored(s[i].id), s[i].id[3] > 1 PROVE Joins(r, i) /\ NextReply(r[i - 1].id, r[i].id)
    <3>1. Joins(s, i) /\ NextReply(s[i - 1].id, s[i].id)
      BY <1>1, <2>2 DEF RowsOK
    <3> QED BY <1>1, <1>4, <3>1 DEF Joins
  <2> QED BY <1>1, <1>2, <2>1, <2>2
<1>13. \A i, j \in DOMAIN r : r[i].id \in Strays /\ j < i => r[j].role = "user"
  <2>1. \A i, j \in DOMAIN r : j < i => j \in 1..k /\ r[j] = s[j]
    BY <1>1
  <2>2. \A i, j \in 1..k : s[i].id \in Strays /\ j < i => s[j].role = "user"
    BY <1>1 DEF RowsOK
  <2> QED BY <1>1, <1>2, <2>1, <2>2
<1>14. RowsOK(r, T, m)
  BY <1>1, <1>6, <1>7, <1>8, <1>9, <1>10, <1>11, <1>12, <1>13 DEF RowsOK
<1> QED BY <1>14 DEF r

(* The host at the end is taken over by the first reply of a turn or its host.  *)
LEMMA ReplaceRow ==
  ASSUME NEW s, NEW S, NEW T, NEW n \in Nat, RowsOK(s, S, n), NEW h \in DOMAIN s, h = Len(s),
         IsHost(s[h].id), NEW x \in Row, NEW t \in Nat,
         x.id = Reply(t, 1) \/ (x.id = Host(t) /\ t > 0 /\ t <= n /\ Hosted(x.parts)),
         ~Present(s, x.id), x.role = "reply", s[h].opens => x.opens, \A id \in S : Stored(id),
         \A id : id \in T <=> id \in S \/ (id = x.id /\ Stored(id))
  PROVE  RowsOK([s EXCEPT ![h] = x], T, n)
<1> DEFINE r == [s EXCEPT ![h] = x]
           k == Len(s)
<1>1. /\ s \in Seq(Row) /\ k \in Nat /\ DOMAIN s = 1..k /\ h = k
      /\ r \in Seq(Row) /\ Len(r) = k /\ DOMAIN r = 1..k
      /\ r[h] = x /\ \A i \in 1..k : i # h => r[i] = s[i]
  BY DEF RowsOK
<1> HIDE DEF r
<1>x. /\ x.id[1] \in {"reply", "host"} /\ (Stored(x.id) => x.id[3] = 1) /\ x.id \notin Strays
      /\ IsHost(x.id) => Hosted(x.parts)
      /\ x.id[1] \in {"user", "host", "divider"} => x.id[2] <= n
  <2>1. /\ Reply(t, 1)[1] = "reply" /\ Reply(t, 1)[3] = 1 /\ Reply(t, 1) \notin Strays
        /\ Host(t)[1] = "host" /\ Host(t)[2] = t /\ (t > 0 => Host(t) \notin Strays)
    <3>1. /\ Reply(t, 1)[1] = "reply" /\ Reply(t, 1)[3] = 1
          /\ Host(t)[1] = "host" /\ Host(t)[2] = t
      BY Names
    <3>2. \A id \in Strays : id[1] \in {"notice", "host"} /\ id[2] = 0
      BY Names
    <3> QED BY <3>1, <3>2
  <2>2. CASE x.id = Reply(t, 1)
    BY <2>1, <2>2 DEF IsHost
  <2>3. CASE x.id = Host(t) /\ t > 0 /\ t <= n /\ Hosted(x.parts)
    BY <2>1, <2>3 DEF Stored
  <2> QED BY <2>2, <2>3
<1>2. ~Stored(s[h].id) /\ s[h].role = "reply"
  <2>0. s[h] \in Row
    BY <1>1
  <2>2. s[h].id[1] \in {"host", "divider"} /\ s[h].role \in {"user", "reply"}
    BY <2>0 DEF IsHost, Row
  <2>3. s[h].role = "reply"
    BY <2>2 DEF RowsOK
  <2> QED BY <2>2, <2>3 DEF Stored
<1>3. \A i, j \in DOMAIN r : r[i].id = r[j].id => i = j
  <2>1. \A i \in 1..k : s[i].id # x.id
    BY <1>1 DEF Present
  <2> QED BY <1>1, <2>1 DEF RowsOK
<1>4. \A i \in DOMAIN r : /\ r[i].role = "user" <=> r[i].id[1] = "user"
                          /\ Stored(r[i].id) => r[i].id \in T
                          /\ IsHost(r[i].id) => Hosted(r[i].parts)
                          /\ r[i].id[1] \in {"user", "host", "divider"} => r[i].id[2] <= n
  <2> SUFFICES ASSUME NEW i \in 1..k
               PROVE  /\ r[i].role = "user" <=> r[i].id[1] = "user"
                      /\ Stored(r[i].id) => r[i].id \in T
                      /\ IsHost(r[i].id) => Hosted(r[i].parts)
                      /\ r[i].id[1] \in {"user", "host", "divider"} => r[i].id[2] <= n
    BY <1>1
  <2>1. CASE i = h
    BY <1>1, <1>x, <2>1
  <2>2. CASE i # h
    BY <1>1, <2>2 DEF RowsOK
  <2> QED BY <2>1, <2>2
<1>5. \A id \in T : Present(r, id)
  <2>1. Present(r, x.id)
    BY <1>1 DEF Present
  <2>2. ASSUME NEW id \in S, Stored(id) PROVE Present(r, id)
    <3>1. PICK i \in 1..k : s[i].id = id
      BY <1>1 DEF RowsOK, Present
    <3>2. i # h
      BY <1>2, <2>2, <3>1
    <3> QED BY <1>1, <3>1, <3>2 DEF Present
  <2> QED BY <2>1, <2>2
<1>6. \A i \in 1..k : Joins(r, i) => Joins(s, i)
  BY <1>1, <1>2 DEF Joins
<1>7. \A i \in DOMAIN r : Joins(r, i) => r[i - 1].id \in Strays \/ NextReply(r[i - 1].id, r[i].id)
  <2> SUFFICES ASSUME NEW i \in 1..k, Joins(r, i)
               PROVE  r[i - 1].id \in Strays \/ NextReply(r[i - 1].id, r[i].id)
    BY <1>1
  <2>1. i > 1 /\ i - 1 \in 1..k /\ (s[i - 1].id \in Strays \/ NextReply(s[i - 1].id, s[i].id))
    <3>1. i > 1 /\ i - 1 \in 1..k /\ Joins(s, i) /\ i \in DOMAIN s
      BY <1>1, <1>6 DEF Joins
    <3>2. \A j \in DOMAIN s : Joins(s, j) => s[j - 1].id \in Strays \/ NextReply(s[j - 1].id, s[j].id)
      BY DEF RowsOK
    <3> QED BY <3>1, <3>2
  <2>2. i - 1 # h
    BY <1>1
  <2>3. s[i - 1].id \in Strays \/ i # h
    BY <1>2, <2>1 DEF NextReply
  <2> QED BY <1>1, <2>1, <2>2, <2>3
<1>8. \A i \in DOMAIN r : Stored(r[i].id) /\ r[i].id[3] > 1 => Joins(r, i) /\ NextReply(r[i - 1].id, r[i].id)
  <2> SUFFICES ASSUME NEW i \in 1..k, Stored(r[i].id), r[i].id[3] > 1
               PROVE  Joins(r, i) /\ NextReply(r[i - 1].id, r[i].id)
    BY <1>1
  <2>1. i # h /\ r[i] = s[i]
    BY <1>1, <1>x
  <2>2. Joins(s, i) /\ NextReply(s[i - 1].id, s[i].id)
    BY <1>1, <2>1 DEF RowsOK
  <2>3. i > 1 /\ i - 1 \in 1..k /\ i - 1 # h
    BY <1>1, <2>2 DEF Joins
  <2> QED BY <1>1, <2>1, <2>2, <2>3 DEF Joins
<1>9. \A i, j \in DOMAIN r : r[i].id \in Strays /\ j < i => r[j].role = "user"
  <2> SUFFICES ASSUME NEW i \in 1..k, NEW j \in 1..k, r[i].id \in Strays, j < i
               PROVE  r[j].role = "user"
    BY <1>1
  <2>1. i # h /\ s[i].id \in Strays
    BY <1>1, <1>x
  <2>2. s[j].role = "user"
    BY <1>1, <2>1 DEF RowsOK
  <2>3. j # h
    BY <1>1
  <2> QED BY <1>1, <2>2, <2>3
<1>10. RowsOK(r, T, n)
  BY <1>1, <1>3, <1>4, <1>5, <1>7, <1>8, <1>9 DEF RowsOK
<1> QED BY <1>10 DEF r

-----------------------------------------------------------------------------
(* onMessage.                                                                  *)

Patch == [parts : SUBSET Part, opens : BOOLEAN, status : Statuses \cup {"same"}]
StatusOf(patch, else) == IF patch.status = "same" THEN else ELSE patch.status

(* What a view consists of.                                                    *)
LEMMA Viewed ==
  ASSUME NEW p \in View
  PROVE  /\ p.msgs \in Seq(Row) /\ p.exec \in {"idle", "running", "waiting", "failed"}
         /\ p.run \in 0..MaxTurns /\ p.reported \in BOOLEAN
         /\ p.active \in Id \cup {None} /\ p.streamed \in 0..MaxTurns
         /\ \A s \in Seq(Row) : /\ [p EXCEPT !.msgs = s] \in View
                                /\ [p EXCEPT !.msgs = s].msgs = s
                                /\ [p EXCEPT !.msgs = s].active = p.active
                                /\ SameRun(p, [p EXCEPT !.msgs = s])
         /\ \A id \in Id \cup {None} :
              /\ [p EXCEPT !.active = id] \in View /\ [p EXCEPT !.active = id].active = id
              /\ [p EXCEPT !.active = id].msgs = p.msgs /\ SameRun(p, [p EXCEPT !.active = id])
BY DEF View, SameRun

(* The rows of a transcript are changed, each in its place.                    *)
LEMMA Mapped ==
  ASSUME NEW p \in View, NEW f \in [DOMAIN p.msgs -> Row], NEW q, q = [p EXCEPT !.msgs = f]
  PROVE  /\ q \in View /\ SameRun(p, q) /\ q.active = p.active /\ q.msgs = f
         /\ Len(q.msgs) = Len(p.msgs) /\ DOMAIN q.msgs = DOMAIN p.msgs
<1>1. p.msgs \in Seq(Row) /\ Len(p.msgs) \in Nat /\ DOMAIN p.msgs = 1..Len(p.msgs)
  BY Viewed
<1>3. f \in Seq(Row) /\ Len(f) = Len(p.msgs) /\ DOMAIN f = DOMAIN p.msgs
  BY <1>1, IsSeq
<1>6. q \in View /\ SameRun(p, q) /\ q.active = p.active /\ q.msgs = f
  BY <1>3, Viewed
<1> QED BY <1>3, <1>6

(* A patched message is a message.                                            *)
LEMMA PatchedRow ==
  ASSUME NEW m \in Row, NEW patch \in Patch, NEW x, x = Patched(m, patch)
  PROVE  /\ x \in Row /\ x.id = m.id /\ x.role = m.role
         /\ x.parts = m.parts \cup patch.parts /\ x.opens = (m.opens \/ patch.opens)
         /\ x.status = StatusOf(patch, m.status)
<1>1. /\ m.parts \in SUBSET Part /\ m.opens \in BOOLEAN /\ m.status \in Statuses
      /\ patch.parts \in SUBSET Part /\ patch.opens \in BOOLEAN /\ patch.status \in Statuses \cup {"same"}
  BY DEF Row, Patch
<1>2. /\ x = [m EXCEPT !.parts = m.parts \cup patch.parts, !.opens = (m.opens \/ patch.opens),
                       !.status = StatusOf(patch, m.status)]
  BY DEF Patched, StatusOf
<1>3. StatusOf(patch, m.status) \in Statuses /\ m.parts \cup patch.parts \in SUBSET Part
      /\ (m.opens \/ patch.opens) \in BOOLEAN
  BY <1>1 DEF StatusOf
<1> QED BY <1>2, <1>3 DEF Row

(* A message that is there: its parts grow or its status is set, in its place.  *)
Set(p, q, id, patch) ==
  /\ q \in View /\ SameRun(p, q) /\ q.active = p.active
  /\ \A st : patch.status = "same" => Repaints(p.msgs, q.msgs, None, st)
  /\ patch.status # "same" => Repaints(p.msgs, q.msgs, id, patch.status)
  /\ \A i \in DOMAIN p.msgs : q.msgs[i].parts \subseteq p.msgs[i].parts \cup patch.parts

(* A message that is there only grows or gets its status, where it stands.   *)
LEMMA OnRow ==
  ASSUME NEW p \in View, NEW id \in Id, Present(p.msgs, id), NEW role, NEW patch \in Patch,
         ~patch.opens, \A i \in DOMAIN p.msgs : IsHost(p.msgs[i].id) => Hosted(p.msgs[i].parts),
         IsHost(id) => Hosted(patch.parts), NEW q, q = OnMessage(p, id, role, patch)
  PROVE  Set(p, q, id, patch)
<1> DEFINE Altered(m) == IF m.id = id THEN Patched(m, patch) ELSE m
<1> DEFINE f == [i \in DOMAIN p.msgs |-> Altered(p.msgs[i])]
<1>1. q = [p EXCEPT !.msgs = f]
  <2>1. Has(p, id)
    BY DEF Has, Present
  <2>2. Renamed(p, None, id) = p /\ MovedOn(p, None) = p /\ Created(p, id, role) = p
    BY <2>1 DEF Renamed, MovedOn, Created
  <2>3. q = Placed(p, p, None, FALSE, id, role, patch)
    BY <2>1, <2>2 DEF OnMessage, Activated
  <2> QED BY <2>2, <2>3 DEF Placed, Opening, Each
<1>2. p.msgs \in Seq(Row) /\ \A i \in DOMAIN p.msgs : p.msgs[i] \in Row
  BY Viewed
<1>3. \A i \in DOMAIN p.msgs : /\ Altered(p.msgs[i]) \in Row /\ Altered(p.msgs[i]).id = p.msgs[i].id
                               /\ Altered(p.msgs[i]).role = p.msgs[i].role
                               /\ Altered(p.msgs[i]).opens = p.msgs[i].opens
                               /\ IsHost(p.msgs[i].id) => Hosted(Altered(p.msgs[i]).parts)
                               /\ Altered(p.msgs[i]).parts \subseteq p.msgs[i].parts \cup patch.parts
                               /\ Altered(p.msgs[i]).status = IF p.msgs[i].id = id THEN StatusOf(patch, p.msgs[i].status)
                                                             ELSE p.msgs[i].status
  <2> SUFFICES ASSUME NEW i \in DOMAIN p.msgs
               PROVE  /\ Altered(p.msgs[i]) \in Row /\ Altered(p.msgs[i]).id = p.msgs[i].id
                      /\ Altered(p.msgs[i]).role = p.msgs[i].role
                      /\ Altered(p.msgs[i]).opens = p.msgs[i].opens
                      /\ IsHost(p.msgs[i].id) => Hosted(Altered(p.msgs[i]).parts)
                      /\ Altered(p.msgs[i]).parts \subseteq p.msgs[i].parts \cup patch.parts
                      /\ Altered(p.msgs[i]).status = IF p.msgs[i].id = id THEN StatusOf(patch, p.msgs[i].status)
                                                    ELSE p.msgs[i].status
    OBVIOUS
  <2>1. CASE p.msgs[i].id # id
    BY <1>2, <2>1
  <2>2. CASE p.msgs[i].id = id
    <3> DEFINE x == Patched(p.msgs[i], patch)
    <3>1. Altered(p.msgs[i]) = x
      BY <2>2
    <3>2. p.msgs[i].opens \in BOOLEAN
      BY <1>2 DEF Row
    <3>3. /\ x \in Row /\ x.id = p.msgs[i].id /\ x.role = p.msgs[i].role
          /\ x.parts = p.msgs[i].parts \cup patch.parts /\ x.opens = (p.msgs[i].opens \/ patch.opens)
          /\ x.status = StatusOf(patch, p.msgs[i].status)
      BY <1>2, PatchedRow
    <3>4. IsHost(p.msgs[i].id) => Hosted(x.parts)
      BY <2>2, <3>3 DEF Hosted
    <3> HIDE DEF x
    <3> QED BY <2>2, <3>1, <3>2, <3>3, <3>4
  <2> QED BY <2>1, <2>2
<1>f. f \in [DOMAIN p.msgs -> Row] /\ \A i \in DOMAIN p.msgs : f[i] = Altered(p.msgs[i])
  BY <1>3
<1> HIDE DEF Altered, f
<1>4. /\ q \in View /\ SameRun(p, q) /\ q.active = p.active
      /\ Len(q.msgs) = Len(p.msgs) /\ DOMAIN q.msgs = DOMAIN p.msgs
      /\ \A i \in DOMAIN p.msgs : q.msgs[i] = Altered(p.msgs[i])
  BY <1>1, <1>f, Mapped
<1>5. q.msgs \in Seq(Row)
  BY <1>4, Viewed
<1>6. \A i \in DOMAIN p.msgs : p.msgs[i].id # None
  BY <1>2, Names DEF Row
<1>7. /\ \A st : patch.status = "same" => Repaints(p.msgs, q.msgs, None, st)
      /\ patch.status # "same" => Repaints(p.msgs, q.msgs, id, patch.status)
      /\ \A i \in DOMAIN p.msgs : q.msgs[i].parts \subseteq p.msgs[i].parts \cup patch.parts
  BY <1>3, <1>4, <1>5, <1>6 DEF Repaints, StatusOf
<1> QED BY <1>4, <1>7 DEF Set

(* A message is put at the end, and changed there.                            *)
LEMMA Grown ==
  ASSUME NEW p \in View, NEW m \in Row, NEW x \in Row, ~Present(p.msgs, m.id), x.id = m.id,
         NEW f, f = [i \in DOMAIN Append(p.msgs, m) |->
                       IF Append(p.msgs, m)[i].id = m.id THEN x ELSE Append(p.msgs, m)[i]]
  PROVE  f = Append(p.msgs, x)
<1>1. /\ p.msgs \in Seq(Row) /\ Len(p.msgs) \in Nat
      /\ \A y \in Row : /\ DOMAIN Append(p.msgs, y) = 1..Len(p.msgs) + 1
                        /\ Append(p.msgs, y)[Len(p.msgs) + 1] = y
                        /\ \A i \in 1..Len(p.msgs) : Append(p.msgs, y)[i] = p.msgs[i]
  BY Viewed
<1>2. \A i \in 1..Len(p.msgs) : p.msgs[i].id # m.id
  BY <1>1 DEF Present
<1>3. \A i \in 1..Len(p.msgs) + 1 : i \in 1..Len(p.msgs) \/ i = Len(p.msgs) + 1
  BY <1>1
<1>4. \A i \in 1..Len(p.msgs) + 1 : f[i] = Append(p.msgs, x)[i]
  BY <1>1, <1>2, <1>3
<1>5. Append(p.msgs, x) = [i \in 1..Len(p.msgs) + 1 |-> Append(p.msgs, x)[i]]
  BY <1>1
<1>6. f = [i \in 1..Len(p.msgs) + 1 |-> f[i]]
  BY <1>1
<1> QED BY <1>4, <1>5, <1>6

(* What a message that is put at the end of some rows becomes.                 *)
LEMMA Placing ==
  ASSUME NEW p \in View, NEW s \in View, NEW id \in Id, ~Present(s.msgs, id),
         NEW role \in {"user", "reply"},
         NEW opened \in BOOLEAN, NEW prior, MovedOn(s, prior) \in View,
         ~Present(MovedOn(s, prior).msgs, id), NEW patch \in Patch,
         NEW q, q = Placed(p, s, prior, opened, id, role, patch)
  PROVE  /\ q \in View /\ SameRun(MovedOn(s, prior), q) /\ q.active = MovedOn(s, prior).active
         /\ \E x \in Row :
              /\ x.id = id /\ x.role = role /\ x.parts = patch.parts
              /\ x.status = StatusOf(patch, IF opened THEN "running" ELSE "none")
              /\ x.opens = (patch.opens \/ (opened /\ Unprompted(p, prior, s.msgs, id)))
              /\ q.msgs = Append(MovedOn(s, prior).msgs, x)
<1> DEFINE b == MovedOn(s, prior)
           m == [id |-> id, role |-> role, status |-> "none", opens |-> FALSE, parts |-> {}]
           y == Opening(m, opened, Unprompted(p, prior, s.msgs, id))
           x == Patched(y, patch)
           c == Append(b.msgs, m)
           f == [i \in DOMAIN c |-> IF c[i].id = id THEN Patched(Opening(c[i], opened, Unprompted(p, prior, s.msgs, id)), patch) ELSE c[i]]
           g == [i \in DOMAIN c |-> IF c[i].id = m.id THEN x ELSE c[i]]
<1>1. m \in Row /\ m.id = id /\ m.role = role /\ m.status = "none" /\ m.opens = FALSE /\ m.parts = {}
  BY DEF Row, Statuses
<1>2. b \in View /\ b.msgs \in Seq(Row) /\ ~Has(b, id)
  BY Viewed DEF Has, Present
<1>u. Unprompted(p, prior, s.msgs, id) \in BOOLEAN
  BY DEF Unprompted
<1>3. /\ y \in Row /\ y.id = id /\ y.role = role /\ y.parts = {}
      /\ y.status = (IF opened THEN "running" ELSE "none")
      /\ y.opens = (opened /\ Unprompted(p, prior, s.msgs, id))
  <2> HIDE DEF m
  <2>1. CASE ~opened
    BY <1>1, <2>1 DEF Opening
  <2>2. CASE opened
    <3>1. y = [m EXCEPT !.status = "running", !.opens = m.opens \/ Unprompted(p, prior, s.msgs, id)]
      BY <2>2 DEF Opening
    <3>2. "running" \in Statuses /\ (m.opens \/ Unprompted(p, prior, s.msgs, id)) \in BOOLEAN
      BY <1>1, <1>u DEF Statuses
    <3> HIDE DEF y
    <3> QED BY <1>1, <1>u, <2>2, <3>1, <3>2 DEF Row
  <2> QED BY <2>1, <2>2
<1>4. /\ x \in Row /\ x.id = id /\ x.role = role /\ x.parts = patch.parts
      /\ x.status = StatusOf(patch, IF opened THEN "running" ELSE "none")
      /\ x.opens = (patch.opens \/ (opened /\ Unprompted(p, prior, s.msgs, id)))
  <2>y. y \in Row /\ x = Patched(y, patch)
    BY <1>3
  <2> HIDE DEF y, m, x
  <2>1. /\ x \in Row /\ x.id = y.id /\ x.role = y.role
        /\ x.parts = y.parts \cup patch.parts /\ x.opens = (y.opens \/ patch.opens)
        /\ x.status = StatusOf(patch, y.status)
    BY <2>y, PatchedRow
  <2> QED BY <1>3, <2>1
<1>5. g = Append(b.msgs, x)
  <2> HIDE DEF b, m, x
  <2> QED BY <1>1, <1>2, <1>4, Grown DEF Has, Present
<1>6. f = g
  <2>1. \A i \in DOMAIN c : c[i].id = id => c[i] = m
    <3>1. c \in Seq(Row) /\ DOMAIN c = 1..Len(b.msgs) + 1 /\ c[Len(b.msgs) + 1] = m /\ Len(b.msgs) \in Nat
          /\ \A i \in 1..Len(b.msgs) : c[i] = b.msgs[i]
      BY <1>1, <1>2
    <3>2. \A i \in 1..Len(b.msgs) : b.msgs[i].id # id
      BY <1>2 DEF Has
    <3>3. \A i \in 1..Len(b.msgs) + 1 : i \in 1..Len(b.msgs) \/ i = Len(b.msgs) + 1
      BY <1>2
    <3> HIDE DEF c, m
    <3> QED BY <3>1, <3>2, <3>3
  <2>2. \A i \in DOMAIN c : f[i] = g[i]
    <3> HIDE DEF c
    <3> QED BY <1>1, <2>1
  <2> QED BY <2>2
<1>7. Created(b, id, role) = [b EXCEPT !.msgs = c]
  BY <1>2 DEF Created
<1>8. q = [[b EXCEPT !.msgs = c] EXCEPT !.msgs = f]
  <2>1. [b EXCEPT !.msgs = c].msgs = c
    <3>1. c \in Seq(Row)
      BY <1>1, <1>2
    <3> HIDE DEF c, b
    <3> QED BY <1>2, <3>1, Viewed
  <2> HIDE DEF c
  <2> QED BY <1>7, <2>1 DEF Placed, Each
<1>9. q = [b EXCEPT !.msgs = Append(b.msgs, x)]
  <2>1. f = Append(b.msgs, x)
    BY <1>5, <1>6
  <2> HIDE DEF f, x, c, b
  <2> QED BY <1>2, <1>8, <2>1 DEF View
<1>10. Append(b.msgs, x) \in Seq(Row)
  <2> HIDE DEF x, b
  <2> QED BY <1>2, <1>4
<1>11. q \in View /\ SameRun(b, q) /\ q.active = b.active /\ q.msgs = Append(b.msgs, x)
  <2> DEFINE a == Append(b.msgs, x)
  <2>1. a \in Seq(Row) /\ q = [b EXCEPT !.msgs = a]
    BY <1>9, <1>10
  <2> HIDE DEF a, b
  <2>2. q \in View /\ SameRun(b, q) /\ q.active = b.active /\ q.msgs = a
    BY <1>2, <2>1, Viewed
  <2> QED BY <2>2 DEF a
<1> QED BY <1>4, <1>11

(* One message is given a status.                                             *)
LEMMA Recolored ==
  ASSUME NEW p \in View,
         \A i \in DOMAIN p.msgs : IsHost(p.msgs[i].id) => Hosted(p.msgs[i].parts),
         NEW id, NEW status \in Statuses, NEW q, q = WithStatus(p, id, status)
  PROVE  /\ q \in View /\ SameRun(p, q) /\ q.active = p.active
         /\ Repaints(p.msgs, q.msgs, id, status)
<1> DEFINE Altered(m) == IF m.id = id THEN [m EXCEPT !.status = status] ELSE m
           f == [i \in DOMAIN p.msgs |-> Altered(p.msgs[i])]
<1>1. q = [p EXCEPT !.msgs = f]
  BY DEF WithStatus, Each
<1>2. p.msgs \in Seq(Row) /\ \A i \in DOMAIN p.msgs : p.msgs[i] \in Row
  BY Viewed
<1>3. \A m \in Row : /\ Altered(m) \in Row /\ Altered(m).id = m.id /\ Altered(m).role = m.role
                     /\ Altered(m).opens = m.opens /\ Altered(m).parts = m.parts
                     /\ Altered(m).status = IF m.id = id THEN status ELSE m.status
  BY DEF Row
<1>f. f \in [DOMAIN p.msgs -> Row] /\ \A i \in DOMAIN p.msgs : f[i] = Altered(p.msgs[i])
  BY <1>2, <1>3
<1> HIDE DEF Altered, f
<1>4. /\ q \in View /\ SameRun(p, q) /\ q.active = p.active /\ q.msgs = f
      /\ Len(q.msgs) = Len(p.msgs) /\ DOMAIN q.msgs = DOMAIN p.msgs
  BY <1>1, <1>f, Mapped
<1>5. q.msgs \in Seq(Row)
  BY <1>4, Viewed
<1> QED BY <1>2, <1>3, <1>f, <1>4, <1>5 DEF Repaints

(* Nothing is given a status when no message is meant.                         *)
LEMMA NoneRecolored ==
  ASSUME NEW p \in View, NEW status, NEW q, q = WithStatus(p, None, status)
  PROVE  q = p
<1> DEFINE f == [i \in DOMAIN p.msgs |-> IF p.msgs[i].id = None THEN [p.msgs[i] EXCEPT !.status = status] ELSE p.msgs[i]]
<1>1. q = [p EXCEPT !.msgs = f]
  BY DEF WithStatus, Each
<1>2. p.msgs \in Seq(Row) /\ \A i \in DOMAIN p.msgs : p.msgs[i] \in Row
  BY Viewed
<1>3. \A i \in DOMAIN p.msgs : p.msgs[i].id # None
  BY <1>2, Names DEF Row
<1>4. f = [i \in DOMAIN p.msgs |-> p.msgs[i]]
  BY <1>3
<1>5. p.msgs = [i \in DOMAIN p.msgs |-> p.msgs[i]]
  BY <1>2
<1>6. f = p.msgs
  BY <1>4, <1>5
<1> HIDE DEF f
<1> QED BY <1>1, <1>6 DEF View

(* A prompt is put at the end.                                                *)
Prompted(p, q, id) ==
  /\ q \in View /\ SameRun(p, q) /\ q.active = p.active
  /\ \E x \in Row : /\ x.id = id /\ x.role = "user" /\ x.status = "none" /\ ~x.opens
                    /\ x.parts = {} /\ q.msgs = Append(p.msgs, x)

(* A prompt that is not there is put at the end, and nothing else changes.   *)
LEMMA OnUser ==
  ASSUME NEW p \in View, NEW t \in Nat, ~Present(p.msgs, User(t)),
         NEW q, q = OnMessage(p, User(t), "user", NoPatch)
  PROVE  Prompted(p, q, User(t))
<1>1. NoPatch \in Patch /\ NoPatch.parts = {} /\ NoPatch.opens = FALSE /\ NoPatch.status = "same"
  BY DEF NoPatch, Patch
<1>2. User(t) \in Id
  BY Names
<1>3. Renamed(p, None, User(t)) = p /\ MovedOn(p, None) = p
  BY DEF Renamed, MovedOn
<1>4. q = Placed(p, p, None, FALSE, User(t), "user", NoPatch)
  BY <1>3 DEF OnMessage, Activated
<1> DEFINE o == FALSE
           b == MovedOn(p, None)
           patch == NoPatch
           d == Placed(p, p, None, o, User(t), "user", patch)
<1>5. b \in View /\ ~Present(b.msgs, User(t)) /\ o \in BOOLEAN /\ patch \in Patch /\ User(t) \in Id
  BY <1>1, <1>2, <1>3
<1>e. b = p /\ d = q
  BY <1>3, <1>4
<1>6. StatusOf(patch, IF o THEN "running" ELSE "none") = "none" /\ ~o
      /\ patch.parts = {} /\ patch.opens = FALSE
  BY <1>1 DEF StatusOf
<1>u. Unprompted(p, None, p.msgs, User(t)) \in BOOLEAN
  BY DEF Unprompted
<1>7. /\ d \in View /\ SameRun(b, d) /\ d.active = b.active
      /\ \E x \in Row :
           /\ x.id = User(t) /\ x.role = "user" /\ x.parts = patch.parts
           /\ x.status = StatusOf(patch, IF o THEN "running" ELSE "none")
           /\ x.opens = (patch.opens \/ (o /\ Unprompted(p, None, p.msgs, User(t))))
           /\ d.msgs = Append(b.msgs, x)
  <2> HIDE DEF o, patch
  <2> QED BY <1>5, <1>u, Placing
<1> HIDE DEF o, b, patch, d
<1>8. PICK x \in Row :
           /\ x.id = User(t) /\ x.role = "user" /\ x.parts = patch.parts
           /\ x.status = StatusOf(patch, IF o THEN "running" ELSE "none")
           /\ x.opens = (patch.opens \/ (o /\ Unprompted(p, None, p.msgs, User(t))))
           /\ d.msgs = Append(b.msgs, x)
  BY <1>7
<1>9. ~x.opens
  BY <1>6, <1>8
<1>10. q \in View /\ SameRun(p, q) /\ q.active = p.active /\ q.msgs = Append(p.msgs, x)
  BY <1>e, <1>7, <1>8
<1> QED BY <1>6, <1>8, <1>9, <1>10 DEF Prompted

(* What stands before a message that comes next.                               *)
LEMMA NextRole ==
  ASSUME NEW s \in Seq(Row), NEW id, ~Present(s, id)
  PROVE  RoleBefore(s, id) = "reply" <=> s # <<>> /\ Last(s).role = "reply"
<1>1. {i \in DOMAIN s : s[i].id = id} = {}
  BY DEF Present
<1>2. RoleBefore(s, id) = IF Len(s) = 0 THEN "none" ELSE s[Len(s)].role
  BY <1>1 DEF RoleBefore
<1> QED BY <1>2 DEF Last

(* A fresh reply that takes over no host is put at the end; a run that goes on   *)
(* moves on from the one it had open.                                         *)
Prior(p) == IF p.exec = "running" THEN Active(p) ELSE None
Added(p, q, id, patch) ==
  /\ q \in View /\ SameRun(p, q)
  /\ q.active = IF p.exec = "running" THEN id ELSE p.active
  /\ \E s \in Seq(Row), x \in Row :
       /\ Repaints(p.msgs, s, Prior(p), "complete") /\ (Prior(p) = None => s = p.msgs)
       /\ x.id = id /\ x.role = "reply" /\ x.parts = patch.parts
       /\ x.status = StatusOf(patch, IF p.exec = "running" THEN "running" ELSE "none")
       /\ x.opens = (patch.opens \/ (/\ p.exec = "running" /\ Prior(p) = None
                                     /\ p.msgs # <<>> /\ Last(p.msgs).role = "reply"))
       /\ q.msgs = Append(s, x)

(* A reply that is not there and takes over no host is put at the end.       *)
LEMMA OnFresh ==
  ASSUME NEW p \in View,
         \A i \in DOMAIN p.msgs : IsHost(p.msgs[i].id) => Hosted(p.msgs[i].parts),
         NEW id \in Id, ~Present(p.msgs, id), EmptyHost(p) = None, NEW patch \in Patch,
         NEW q, q = OnMessage(p, id, "reply", patch)
  PROVE  Added(p, q, id, patch)
<1> DEFINE opened == p.exec = "running"
           b == MovedOn(p, Prior(p))
<1>1. ~Has(p, id)
  BY DEF Has, Present
<1>2. Renamed(p, None, id) = p
  BY DEF Renamed
<1>3. q = Activated(Placed(p, p, Prior(p), opened, id, "reply", patch), id, opened)
  BY <1>1, <1>2 DEF OnMessage, Prior
<1>4. /\ b \in View /\ SameRun(p, b) /\ b.active = p.active
      /\ Repaints(p.msgs, b.msgs, Prior(p), "complete") /\ (Prior(p) = None => b.msgs = p.msgs)
  <2>1. CASE Prior(p) = None
    <3>1. b = p
      BY <2>1 DEF MovedOn
    <3>2. p.msgs \in Seq(Row) /\ \A i \in DOMAIN p.msgs : p.msgs[i] \in Row
      BY Viewed
    <3>3. \A i \in DOMAIN p.msgs : p.msgs[i].id # None
      BY <3>2, Names DEF Row
    <3> QED BY <2>1, <3>1, <3>2, <3>3 DEF Repaints, SameRun
  <2>2. CASE Prior(p) # None
    <3>1. b = WithStatus(p, Prior(p), "complete")
      BY <2>2 DEF MovedOn
    <3>2. "complete" \in Statuses
      BY DEF Statuses
    <3> HIDE DEF b
    <3> QED BY <2>2, <3>1, <3>2, Recolored
  <2> QED BY <2>1, <2>2
<1>5. ~Present(b.msgs, id)
  BY <1>4 DEF Present, Repaints
<1>6. p.msgs \in Seq(Row) /\ b.msgs \in Seq(Row)
  BY <1>4, Viewed
<1>7. Unprompted(p, Prior(p), p.msgs, id) <=> Prior(p) = None /\ p.msgs # <<>> /\ Last(p.msgs).role = "reply"
  BY <1>6, NextRole DEF Unprompted
<1>u. opened \in BOOLEAN /\ Unprompted(p, Prior(p), p.msgs, id) \in BOOLEAN
  BY DEF Unprompted
<1> DEFINE d == Placed(p, p, Prior(p), opened, id, "reply", patch)
<1>8. /\ d \in View /\ SameRun(b, d) /\ d.active = b.active
      /\ \E x \in Row :
           /\ x.id = id /\ x.role = "reply" /\ x.parts = patch.parts
           /\ x.status = StatusOf(patch, IF opened THEN "running" ELSE "none")
           /\ x.opens = (patch.opens \/ (opened /\ Unprompted(p, Prior(p), p.msgs, id)))
           /\ d.msgs = Append(b.msgs, x)
  <2> HIDE DEF opened
  <2> QED BY <1>4, <1>5, <1>u, Placing
<1> HIDE DEF d, b
<1>9. q = IF opened THEN [d EXCEPT !.active = id] ELSE d
  BY <1>3 DEF Activated, d
<1>10. /\ q \in View /\ SameRun(d, q) /\ q.active = (IF opened THEN id ELSE d.active) /\ q.msgs = d.msgs
  <2> HIDE DEF opened
  <2>1. CASE opened
    <3>1. q = [d EXCEPT !.active = id] /\ id \in Id \cup {None} /\ d \in View
      BY <1>8, <1>9, <2>1
    <3>2. q \in View
      BY <3>1, Viewed
    <3>3. q.active = id /\ q.msgs = d.msgs
      BY <3>1 DEF View
    <3>4. SameRun(d, q)
      BY <3>1, Viewed
    <3> QED BY <2>1, <3>2, <3>3, <3>4
  <2>2. CASE ~opened
    BY <1>8, <1>9, <2>2 DEF SameRun
  <2> QED BY <2>1, <2>2
<1>11. SameRun(p, q)
  BY <1>4, <1>8, <1>10 DEF SameRun
<1>12. PICK x \in Row :
           /\ x.id = id /\ x.role = "reply" /\ x.parts = patch.parts
           /\ x.status = StatusOf(patch, IF opened THEN "running" ELSE "none")
           /\ x.opens = (patch.opens \/ (opened /\ Unprompted(p, Prior(p), p.msgs, id)))
           /\ d.msgs = Append(b.msgs, x)
  BY <1>8
<1>13. x.opens = (patch.opens \/ (/\ p.exec = "running" /\ Prior(p) = None
                                  /\ p.msgs # <<>> /\ Last(p.msgs).role = "reply"))
  BY <1>7, <1>12
<1>14. /\ Repaints(p.msgs, b.msgs, Prior(p), "complete") /\ (Prior(p) = None => b.msgs = p.msgs)
       /\ x.id = id /\ x.role = "reply" /\ x.parts = patch.parts
       /\ x.status = StatusOf(patch, IF p.exec = "running" THEN "running" ELSE "none")
       /\ q.msgs = Append(b.msgs, x)
  BY <1>4, <1>10, <1>12
<1>15. q.active = IF p.exec = "running" THEN id ELSE p.active
  BY <1>4, <1>8, <1>10
<1> HIDE DEF opened
<1>16. \E t \in Seq(Row), y \in Row :
         /\ Repaints(p.msgs, t, Prior(p), "complete") /\ (Prior(p) = None => t = p.msgs)
         /\ y.id = id /\ y.role = "reply" /\ y.parts = patch.parts
         /\ y.status = StatusOf(patch, IF p.exec = "running" THEN "running" ELSE "none")
         /\ y.opens = (patch.opens \/ (/\ p.exec = "running" /\ Prior(p) = None
                                       /\ p.msgs # <<>> /\ Last(p.msgs).role = "reply"))
         /\ q.msgs = Append(t, y)
  BY <1>6, <1>13, <1>14
<1> QED BY <1>10, <1>11, <1>15, <1>16 DEF Added

(* A reply takes over an empty host: it stands where the host stood.            *)
Replaced(p, q, h, id, patch) ==
  /\ q \in View /\ SameRun(p, q)
  /\ q.active = IF p.active = p.msgs[h].id THEN id ELSE p.active
  /\ \E x \in Row :
       /\ x.id = id /\ x.role = p.msgs[h].role /\ x.parts = p.msgs[h].parts \cup patch.parts
       /\ x.status = StatusOf(patch, IF p.exec = "running" THEN "running" ELSE p.msgs[h].status)
       /\ p.msgs[h].opens => x.opens
       /\ q.msgs = [p.msgs EXCEPT ![h] = x]

(* A reply that is not there takes the empty host's place.                   *)
LEMMA OnHost ==
  ASSUME NEW p \in View, NEW h \in DOMAIN p.msgs, EmptyHost(p) = p.msgs[h].id,
         \A i, j \in DOMAIN p.msgs : p.msgs[i].id = p.msgs[j].id => i = j,
         p.exec = "running" => p.active = p.msgs[h].id,
         NEW id \in Id, ~Present(p.msgs, id), NEW patch \in Patch,
         NEW q, q = OnMessage(p, id, "reply", patch)
  PROVE  Replaced(p, q, h, id, patch)
<1> DEFINE s == p.msgs
           host == s[h].id
           Moved(m) == IF m.id = host THEN [m EXCEPT !.id = id] ELSE m
           g == [i \in DOMAIN s |-> Moved(s[i])]
           r == Renamed(p, host, id)
           opened == p.exec = "running"
           un == Unprompted(p, None, r.msgs, id)
           Laid(m) == IF m.id = id THEN Patched(Opening(m, opened, un), patch) ELSE m
           f == [i \in DOMAIN r.msgs |-> Laid(r.msgs[i])]
<1>1. s \in Seq(Row) /\ \A i \in DOMAIN s : s[i] \in Row
  BY Viewed
<1>2. host \in Id /\ host # None /\ \A i \in DOMAIN s : s[i].id = host <=> i = h
  <2>1. s[h] \in Row
    BY <1>1
  <2>2. host \in Id
    BY <2>1 DEF Row
  <2> QED BY <2>2, Names
<1>3. r = [p EXCEPT !.msgs = g]
  BY <1>2 DEF Renamed, Each
<1>4. \A m \in Row : /\ [m EXCEPT !.id = id] \in Row /\ [m EXCEPT !.id = id].id = id
                     /\ [m EXCEPT !.id = id].role = m.role /\ [m EXCEPT !.id = id].opens = m.opens
                     /\ [m EXCEPT !.id = id].status = m.status /\ [m EXCEPT !.id = id].parts = m.parts
  BY DEF Row
<1>5. g \in [DOMAIN s -> Row] /\ g[h] = [s[h] EXCEPT !.id = id] /\ \A i \in DOMAIN s : i # h => g[i] = s[i]
  BY <1>1, <1>2, <1>4
<1>6. /\ r \in View /\ SameRun(p, r) /\ r.active = p.active /\ r.msgs = g /\ DOMAIN r.msgs = DOMAIN s
  <2> HIDE DEF g, r
  <2> QED BY <1>3, <1>5, Mapped
<1>7. r.msgs[h].id = id /\ \A i \in DOMAIN r.msgs : r.msgs[i].id = id <=> i = h
  <2> HIDE DEF r, g
  <2>1. \A i \in DOMAIN s : s[i].id # id
    BY DEF Present
  <2>2. g[h].id = id
    BY <1>1, <1>4, <1>5
  <2> QED BY <1>5, <1>6, <2>1, <2>2
<1>8. Has(r, id)
  <2> HIDE DEF r
  <2> QED BY <1>6, <1>7 DEF Has
<1>9. opened => Active(r) = None
  <2> HIDE DEF r, g
  <2>1. host # id
    BY DEF Present
  <2>2. \A i \in DOMAIN s : g[i].id # host
    BY <1>2, <1>5, <1>6, <1>7, <2>1
  <2> QED BY <1>6, <2>2 DEF Active, Has
<1>10. ~Has(p, id)
  BY DEF Has, Present
<1> DEFINE d == Placed(p, r, None, opened, id, "reply", patch)
<1>11. q = Activated(d, id, opened \/ host = p.active)
  <2> HIDE DEF r, host
  <2>1. EmptyHost(p) = host /\ host # None /\ r = Renamed(p, host, id)
    BY <1>2 DEF host, r
  <2>2. (IF opened THEN Active(r) ELSE None) = None
    BY <1>9
  <2> QED BY <1>2, <1>10, <2>1, <2>2 DEF OnMessage
<1>12. d = [r EXCEPT !.msgs = f]
  <2> HIDE DEF r
  <2> QED BY <1>8 DEF Placed, MovedOn, Created, Each
<1>13. un \in BOOLEAN /\ opened \in BOOLEAN
  BY DEF Unprompted
<1> HIDE DEF r, g, un, opened, d
<1> DEFINE y == r.msgs[h]
           o == Opening(y, opened, un)
           x == Patched(o, patch)
<1>14. y \in Row /\ y.id = id /\ y.role = s[h].role /\ y.opens = s[h].opens /\ y.status = s[h].status
      /\ y.parts = s[h].parts
  <2>1. y = [s[h] EXCEPT !.id = id]
    BY <1>5, <1>6
  <2>2. s[h] \in Row
    BY <1>1
  <2> HIDE DEF y
  <2> QED BY <1>4, <2>1, <2>2
<1>15. o \in Row /\ o.id = id /\ o.role = y.role /\ o.parts = y.parts /\ (y.opens => o.opens)
       /\ o.status = IF opened THEN "running" ELSE y.status
  <2> HIDE DEF y
  <2>1. "running" \in Statuses
    BY DEF Statuses
  <2>2. (y.opens \/ un) \in BOOLEAN
    OBVIOUS
  <2>3. CASE opened
    <3>1. o = [y EXCEPT !.status = "running", !.opens = y.opens \/ un]
      BY <2>3 DEF Opening
    <3> HIDE DEF o
    <3> QED BY <1>14, <2>1, <2>2, <2>3, <3>1 DEF Row
  <2>4. CASE ~opened
    BY <1>14, <2>4 DEF Opening
  <2> QED BY <2>3, <2>4
<1>16. x \in Row /\ x.id = id /\ x.role = o.role /\ x.opens = (o.opens \/ patch.opens)
       /\ x.parts = o.parts \cup patch.parts
       /\ x.status = StatusOf(patch, o.status)
  <2> HIDE DEF o
  <2> QED BY <1>15, PatchedRow
<1>17. f \in [DOMAIN r.msgs -> Row] /\ f[h] = x /\ \A i \in DOMAIN s : i # h => f[i] = s[i]
  <2> HIDE DEF x
  <2>1. f[h] = x
    BY <1>6, <1>7 DEF x
  <2>2. \A i \in DOMAIN s : i # h => f[i] = s[i]
    BY <1>5, <1>6, <1>7
  <2>3. \A i \in DOMAIN s : f[i] \in Row
    BY <1>1, <1>16, <2>1, <2>2
  <2> QED BY <1>6, <2>1, <2>2, <2>3
<1> HIDE DEF f, x, o, y
<1>18. d \in View /\ SameRun(r, d) /\ d.active = r.active /\ d.msgs = f
  BY <1>6, <1>12, <1>17, Mapped
<1>19. f = [s EXCEPT ![h] = x]
  BY <1>6, <1>17
<1>20. /\ q \in View /\ SameRun(d, q) /\ q.msgs = d.msgs
       /\ q.active = (IF opened \/ host = p.active THEN id ELSE d.active)
  <2>1. CASE opened \/ host = p.active
    <3>1. q = [d EXCEPT !.active = id]
      BY <1>11, <2>1 DEF Activated
    <3>2. q \in View
      BY <1>18, <3>1, Viewed
    <3>3. q.active = id /\ q.msgs = d.msgs
      BY <1>18, <3>1 DEF View
    <3>4. SameRun(d, q)
      BY <1>18, <3>1 DEF SameRun, View
    <3> QED BY <2>1, <3>2, <3>3, <3>4
  <2>2. CASE ~(opened \/ host = p.active)
    BY <1>11, <1>18, <2>2 DEF Activated, SameRun
  <2> QED BY <2>1, <2>2
<1>21. SameRun(p, q)
  BY <1>6, <1>18, <1>20 DEF SameRun
<1>22. q.active = IF p.active = p.msgs[h].id THEN id ELSE p.active
  BY <1>6, <1>18, <1>20 DEF opened
<1>23. x.role = p.msgs[h].role /\ (p.msgs[h].opens => x.opens)
       /\ x.parts = p.msgs[h].parts \cup patch.parts
       /\ x.status = StatusOf(patch, IF opened THEN "running" ELSE p.msgs[h].status)
  BY <1>14, <1>15, <1>16
<1>24. q.msgs = [p.msgs EXCEPT ![h] = x] /\ q \in View /\ x \in Row /\ x.id = id
  BY <1>16, <1>18, <1>19, <1>20
<1> QED BY <1>21, <1>22, <1>23, <1>24 DEF opened, Replaced

-----------------------------------------------------------------------------
(* What a view shows, message by message.                                     *)

(* A row's fields.                                                            *)
LEMMA RowIs ==
  ASSUME NEW m \in Row
  PROVE  /\ m.id \in Id /\ m.role \in {"user", "reply"} /\ m.status \in Statuses
         /\ m.opens \in BOOLEAN /\ m.parts \in SUBSET Part /\ m.id # None
<1>1. m.id \in Id /\ m.role \in {"user", "reply"} /\ m.status \in Statuses
      /\ m.opens \in BOOLEAN /\ m.parts \in SUBSET Part
  BY DEF Row
<1> QED BY <1>1, Names

(* Repainting moves nothing.                                                  *)
LEMMA Repainted ==
  ASSUME NEW s \in Seq(Row), NEW r, NEW id, NEW status, Repaints(s, r, id, status)
  PROVE  /\ r \in Seq(Row) /\ Len(r) = Len(s) /\ DOMAIN r = DOMAIN s
         /\ r = <<>> <=> s = <<>>
         /\ \A jd : Present(r, jd) <=> Present(s, jd)
         /\ s # <<>> => /\ Last(r).id = Last(s).id /\ Last(r).role = Last(s).role
                        /\ Last(r).opens = Last(s).opens
                        /\ Last(r).status = IF Last(s).id = id THEN status ELSE Last(s).status
<1>1. r \in Seq(Row) /\ Len(r) = Len(s) /\ DOMAIN r = DOMAIN s
  BY DEF Repaints
<1>2. \A jd : Present(r, jd) <=> Present(s, jd)
  BY <1>1 DEF Present, Repaints
<1>3. r = <<>> <=> s = <<>>
  BY <1>1
<1>4. ASSUME s # <<>> PROVE Len(s) \in DOMAIN s
  BY <1>4
<1>5. s # <<>> => /\ Last(r).id = Last(s).id /\ Last(r).role = Last(s).role
                  /\ Last(r).opens = Last(s).opens
                  /\ Last(r).status = IF Last(s).id = id THEN status ELSE Last(s).status
  BY <1>1, <1>4 DEF Repaints, Last
<1> QED BY <1>1, <1>2, <1>3, <1>5

(* What is at the end of some messages to which one was added.                 *)
Ends(s, x) == s # <<>> /\ Last(s) = x
Adds(s, r, id) == \A jd : Present(r, jd) <=> Present(s, jd) \/ jd = id
Swaps(s, r, old, id) == \A jd : Present(r, jd) <=> (Present(s, jd) /\ jd # old) \/ jd = id

(* What an append leaves, and what it adds.                                  *)
LEMMA Appended ==
  ASSUME NEW s \in Seq(Row), NEW x \in Row, NEW r, r = Append(s, x)
  PROVE  /\ r \in Seq(Row) /\ Ends(r, x) /\ Adds(s, r, x.id)
         /\ \A i \in DOMAIN s : i \in DOMAIN r /\ r[i] = s[i]
         /\ \A i \in DOMAIN r : i \in DOMAIN s \/ r[i] = x
<1>1. r \in Seq(Row) /\ r # <<>> /\ Len(r) = Len(s) + 1 /\ DOMAIN r = 1..Len(s) + 1 /\ r[Len(s) + 1] = x
  OBVIOUS
<1>2. \A i \in DOMAIN s : i \in DOMAIN r /\ r[i] = s[i]
  OBVIOUS
<1>3. \A i \in DOMAIN r : i \in DOMAIN s \/ i = Len(s) + 1
  OBVIOUS
<1>4. Last(r) = x
  BY <1>1 DEF Last
<1>5. \A i \in DOMAIN r : i \in DOMAIN s \/ r[i] = x
  BY <1>1, <1>3
<1>6. Len(s) + 1 \in DOMAIN r
  BY <1>1
<1>7. \A jd : Present(r, jd) <=> Present(s, jd) \/ jd = x.id
  BY <1>1, <1>2, <1>5, <1>6 DEF Present
<1> QED BY <1>1, <1>2, <1>4, <1>5, <1>7 DEF Ends, Adds

(* The same messages, of a Session that went on.                               *)
LEMMA BaseMoves ==
  ASSUME NEW ts, NEW us, NEW p, NEW n \in Nat, NEW k, NEW m \in Nat, NEW j,
         Base(ts, p, n, k), n <= m,
         Replies(us, m, j) = Replies(ts, n, k), \A id \in Replies(ts, n, k) : id[2] \in 1..n,
         \A t \in 1..n : us[t].how = ts[t].how \/ ts[t].how = "complete"
  PROVE  Base(us, p, m, j)
<1> DEFINE S == Replies(ts, n, k)
<1>1. p \in View /\ p.msgs \in Seq(Row) /\ \A i \in DOMAIN p.msgs : p.msgs[i] \in Row
  BY Viewed DEF Base
<1>2. RowsOK(p.msgs, S, n)
  BY DEF Base
<1>3. \A i \in DOMAIN p.msgs : p.msgs[i].id[1] \in {"user", "host", "divider"} => p.msgs[i].id[2] <= m
  <2> SUFFICES ASSUME NEW i \in DOMAIN p.msgs, p.msgs[i].id[1] \in {"user",
             "host", "divider"}
               PROVE  p.msgs[i].id[2] <= m
    OBVIOUS
  <2>1. p.msgs[i].id[2] <= n
    BY <1>2 DEF RowsOK
  <2>2. p.msgs[i] \in Row
    BY <1>1
  <2>3. p.msgs[i].id[2] \in Nat
    BY <2>2, RowIs, Names
  <2> QED BY <2>1, <2>3
<1>4. RowsOK(p.msgs, Replies(us, m, j), m)
  <2> HIDE DEF S
  <2>1. Replies(us, m, j) = S
    BY DEF S
  <2> QED BY <1>2, <1>3, <2>1 DEF RowsOK
<1>5. ASSUME NEW i \in DOMAIN p.msgs, p.msgs[i].id # p.active PROVE Quiet(us, p.msgs[i])
  <2>1. Quiet(ts, p.msgs[i])
    BY <1>5 DEF Base
  <2>2. ASSUME Stored(p.msgs[i].id) PROVE p.msgs[i].id[2] \in 1..n
    BY <1>2, <2>2 DEF RowsOK
  <2> QED BY <2>1, <2>2 DEF Quiet, Rests
<1> QED BY <1>1, <1>4, <1>5 DEF Base

(* Messages repainted.                                                        *)
LEMMA BaseRow ==
  ASSUME NEW ts, NEW p, NEW n, NEW k, Base(ts, p, n, k), NEW q \in View, NEW id, NEW status,
         Repaints(p.msgs, q.msgs, id, status), q.active # None => Present(p.msgs, q.active),
         \A i \in DOMAIN p.msgs : p.msgs[i].id # q.active =>
           IF p.msgs[i].id = id THEN Rests(ts, id, status) ELSE p.msgs[i].id # p.active
  PROVE  Base(ts, q, n, k)
<1>1. p \in View /\ p.msgs \in Seq(Row)
  BY Viewed DEF Base
<1>2. /\ q.msgs \in Seq(Row) /\ Len(q.msgs) = Len(p.msgs) /\ DOMAIN q.msgs = DOMAIN p.msgs
      /\ \A jd : Present(q.msgs, jd) <=> Present(p.msgs, jd)
  BY <1>1, Repainted
<1>3. RowsOK(q.msgs, Replies(ts, n, k), n)
  <2>1. RowsOK(p.msgs, Replies(ts, n, k), n)
    BY DEF Base
  <2>2. \A i \in DOMAIN p.msgs :
           /\ q.msgs[i].id = p.msgs[i].id /\ q.msgs[i].role = p.msgs[i].role /\ q.msgs[i].opens = p.msgs[i].opens
           /\ IsHost(p.msgs[i].id) => Hosted(q.msgs[i].parts)
    BY DEF Repaints
  <2> QED BY <1>2, <2>1, <2>2, Repaint
<1>4. ASSUME NEW i \in DOMAIN q.msgs, q.msgs[i].id # q.active PROVE Quiet(ts, q.msgs[i])
  <2>1. i \in DOMAIN p.msgs /\ q.msgs[i].id = p.msgs[i].id
        /\ q.msgs[i].status = IF p.msgs[i].id = id THEN status ELSE p.msgs[i].status
    BY <1>2 DEF Repaints
  <2>2. p.msgs[i].id # p.active => Quiet(ts, p.msgs[i])
    BY <2>1 DEF Base
  <2>3. p.msgs[i].id # q.active
    BY <1>4, <2>1
  <2> QED BY <2>1, <2>2, <2>3 DEF Quiet
<1> QED BY <1>2, <1>3, <1>4 DEF Base

(* A message comes at the end, and the run may move on to it.                   *)
Comes(ts, p, n, k, m, j, s, x) ==
  /\ n \in Nat /\ m \in Nat /\ n <= m /\ Base(ts, p, n, k) /\ x \in Row /\ ~Present(s, x.id)
  /\ x.role = "user" <=> x.id[1] = "user"
  /\ x.id[1] \in {"user", "host", "divider"} => x.id[2] <= m
  /\ IsHost(x.id) => Hosted(x.parts)
  /\ s # <<>> /\ x.role = "reply" /\ Last(s).role = "reply" /\ ~x.opens
       => Last(s).id \in Strays \/ NextReply(Last(s).id, x.id)
  /\ Stored(x.id) /\ x.id[3] > 1
       => /\ s # <<>> /\ x.role = "reply" /\ Last(s).role = "reply" /\ ~x.opens
          /\ NextReply(Last(s).id, x.id)
  /\ x.id \in Strays => \A i \in DOMAIN s : s[i].role = "user"
  /\ \A id : id \in Replies(ts, m, j) <=> id \in Replies(ts, n, k) \/ (id = x.id /\ Stored(id))
Moved(ts, p, q, r, x, prior) ==
  /\ q \in View /\ Repaints(p.msgs, r, prior, "complete") /\ q.msgs = Append(r, x)
  /\ q.active # None => q.active = x.id \/ Present(p.msgs, q.active)
  /\ \A i \in DOMAIN p.msgs :
       p.msgs[i].id # q.active => p.msgs[i].id = prior \/ p.msgs[i].id # p.active
  /\ x.id # q.active => Rests(ts, x.id, x.status)

(* A view stays sound when a message that may come there is put at its end.  *)
LEMMA BaseFresh ==
  ASSUME NEW ts, NEW p, NEW n, NEW k, NEW q, NEW s, NEW x, NEW prior, NEW m, NEW j,
         Comes(ts, p, n, k, m, j, p.msgs, x), Moved(ts, p, q, s, x, prior)
  PROVE  /\ Base(ts, q, m, j) /\ Ends(q.msgs, x) /\ Adds(p.msgs, q.msgs, x.id)
         /\ Same(p.msgs, q.msgs, {x.id, prior})
<1> DEFINE S == Replies(ts, n, k)
           T == Replies(ts, m, j)
<1>a. /\ n \in Nat /\ m \in Nat /\ n <= m /\ x \in Row /\ ~Present(p.msgs, x.id)
      /\ x.role = "user" <=> x.id[1] = "user"
      /\ x.id[1] \in {"user", "host", "divider"} => x.id[2] <= m
      /\ IsHost(x.id) => Hosted(x.parts)
      /\ p.msgs # <<>> /\ x.role = "reply" /\ Last(p.msgs).role = "reply" /\ ~x.opens
           => Last(p.msgs).id \in Strays \/ NextReply(Last(p.msgs).id, x.id)
      /\ Stored(x.id) /\ x.id[3] > 1
           => /\ p.msgs # <<>> /\ x.role = "reply" /\ Last(p.msgs).role = "reply" /\ ~x.opens
              /\ NextReply(Last(p.msgs).id, x.id)
      /\ x.id \in Strays => \A i \in DOMAIN p.msgs : p.msgs[i].role = "user"
      /\ \A id : id \in Replies(ts, m, j) <=> id \in Replies(ts, n, k) \/ (id = x.id /\ Stored(id))
  BY DEF Comes
<1>b. /\ q \in View /\ Repaints(p.msgs, s, prior, "complete") /\ q.msgs = Append(s, x)
      /\ q.active # None => q.active = x.id \/ Present(p.msgs, q.active)
      /\ \A i \in DOMAIN p.msgs :
           p.msgs[i].id # q.active => p.msgs[i].id = prior \/ p.msgs[i].id # p.active
      /\ x.id # q.active => Rests(ts, x.id, x.status)
  BY DEF Moved
<1>c. Base(ts, p, n, k)
  BY DEF Comes
<1>1. p \in View /\ p.msgs \in Seq(Row) /\ RowsOK(p.msgs, S, n)
  BY <1>c, Viewed DEF Base
<1>2. /\ s \in Seq(Row) /\ Len(s) = Len(p.msgs) /\ DOMAIN s = DOMAIN p.msgs
      /\ s = <<>> <=> p.msgs = <<>>
      /\ \A id : Present(s, id) <=> Present(p.msgs, id)
      /\ p.msgs # <<>> => Last(s).id = Last(p.msgs).id /\ Last(s).role = Last(p.msgs).role
  BY <1>1, <1>b, Repainted
<1>3. \A i \in DOMAIN s : /\ s[i].id = p.msgs[i].id /\ s[i].role = p.msgs[i].role /\ s[i].opens = p.msgs[i].opens
                          /\ IsHost(p.msgs[i].id) => Hosted(s[i].parts)
                          /\ s[i].status = IF p.msgs[i].id = prior THEN "complete" ELSE p.msgs[i].status
  BY <1>2, <1>b DEF Repaints
<1>4. RowsOK(s, S, n)
  <2> HIDE DEF S
  <2> QED BY <1>1, <1>2, <1>3, Repaint
<1>5. RowsOK(q.msgs, T, m)
  <2> HIDE DEF S, T
  <2>1. \A id : id \in T <=> id \in S \/ (id = x.id /\ Stored(id))
    BY <1>a DEF S, T
  <2>2. ~Present(s, x.id)
    BY <1>2, <1>a
  <2>3. s # <<>> /\ x.role = "reply" /\ Last(s).role = "reply" /\ ~x.opens
           => Last(s).id \in Strays \/ NextReply(Last(s).id, x.id)
    BY <1>2, <1>a
  <2>4. Stored(x.id) /\ x.id[3] > 1
           => s # <<>> /\ x.role = "reply" /\ Last(s).role = "reply" /\ ~x.opens /\ NextReply(Last(s).id, x.id)
    BY <1>2, <1>a
  <2>5. x.id \in Strays => \A i \in DOMAIN s : s[i].role = "user"
    BY <1>2, <1>3, <1>a
  <2>6. RowsOK(Append(s, x), T, m)
    BY <1>4, <1>a, <2>1, <2>2, <2>3, <2>4, <2>5, AppendRow
  <2> QED BY <1>b, <2>6
<1>6. /\ q.msgs \in Seq(Row) /\ q.msgs # <<>> /\ Last(q.msgs) = x
      /\ \A i \in DOMAIN s : i \in DOMAIN q.msgs /\ q.msgs[i] = s[i]
      /\ \A i \in DOMAIN q.msgs : i \in DOMAIN s \/ q.msgs[i] = x
      /\ \A id : Present(q.msgs, id) <=> Present(s, id) \/ id = x.id
  <2> DEFINE r == q.msgs
  <2>1. s \in Seq(Row) /\ x \in Row /\ r = Append(s, x)
    BY <1>2, <1>a, <1>b
  <2> HIDE DEF r
  <2>a. r \in Seq(Row)
    BY <2>1, Appended
  <2>2. Ends(r, x)
    BY <2>1, Appended
  <2>3. \A i \in DOMAIN s : i \in DOMAIN r /\ r[i] = s[i]
    BY <2>1, Appended
  <2>4. \A i \in DOMAIN r : i \in DOMAIN s \/ r[i] = x
    BY <2>1, Appended
  <2>5. Adds(s, r, x.id)
    BY <2>1, Appended
  <2> QED BY <2>a, <2>2, <2>3, <2>4, <2>5 DEF r, Ends, Adds
<1>7. \A id : Rests(ts, id, "complete")
  BY DEF Rests
<1>8. ASSUME NEW i \in DOMAIN q.msgs, q.msgs[i].id # q.active PROVE Quiet(ts, q.msgs[i])
  <2>1. CASE q.msgs[i] = x
    BY <1>8, <1>b, <2>1 DEF Quiet
  <2>2. CASE i \in DOMAIN s
    <3>1. q.msgs[i] = s[i] /\ i \in DOMAIN p.msgs
      BY <1>2, <1>6, <2>2
    <3>2. p.msgs[i].id # q.active
      BY <1>3, <1>8, <2>2, <3>1
    <3>3. CASE p.msgs[i].id = prior
      BY <1>3, <1>7, <2>2, <3>1, <3>3 DEF Quiet
    <3>4. CASE p.msgs[i].id # prior
      <4>1. Quiet(ts, p.msgs[i])
        BY <1>b, <1>c, <3>1, <3>2, <3>4 DEF Base
      <4> QED BY <1>3, <2>2, <3>1, <3>4, <4>1 DEF Quiet
    <3> QED BY <3>3, <3>4
  <2> QED BY <1>6, <2>1, <2>2
<1>9. q.active # None => Present(q.msgs, q.active)
  BY <1>2, <1>6, <1>b
<1>10. Same(p.msgs, q.msgs, {x.id, prior})
  <2> SUFFICES ASSUME NEW i \in DOMAIN q.msgs, q.msgs[i].id \notin {x.id, prior}
               PROVE  \E y \in DOMAIN p.msgs : p.msgs[y].id = q.msgs[i].id /\ p.msgs[y].status = q.msgs[i].status
    BY DEF Same
  <2>1. i \in DOMAIN s /\ q.msgs[i] = s[i]
    BY <1>6
  <2> QED BY <1>2, <1>3, <2>1
<1>11. Ends(q.msgs, x) /\ Adds(p.msgs, q.msgs, x.id)
  BY <1>2, <1>6 DEF Ends, Adds
<1>12. Base(ts, q, m, j)
  BY <1>b, <1>5, <1>8, <1>9 DEF Base
<1> QED BY <1>10, <1>11, <1>12

(* A reply, or a turn's host, takes the last message's place, an empty host's.   *)
Takes(ts, p, n, k, j, s, x, t) ==
  /\ n \in Nat /\ Base(ts, p, n, k) /\ s # <<>> /\ IsHost(Last(s).id) /\ x \in Row
  /\ t \in Nat /\ ~Present(s, x.id) /\ x.role = "reply"
  /\ x.id = Reply(t, 1) \/ (x.id = Host(t) /\ t > 0 /\ t <= n /\ Hosted(x.parts))
  /\ Last(s).opens => x.opens
  /\ \A id \in Replies(ts, n, k) : Stored(id)
  /\ \A id : id \in Replies(ts, n, j) <=> id \in Replies(ts, n, k) \/ (id = x.id /\ Stored(id))
Taken(ts, p, q, x) ==
  /\ q \in View /\ q.msgs = [p.msgs EXCEPT ![Len(p.msgs)] = x]
  /\ q.active # None => q.active = x.id
  /\ p.active # None => p.active = Last(p.msgs).id
  /\ x.id # q.active => Rests(ts, x.id, x.status)

(* A view stays sound when a reply takes the place of the host at its end.   *)
LEMMA BaseHost ==
  ASSUME NEW ts, NEW p, NEW n, NEW k, NEW q, NEW x, NEW t, NEW j,
         Takes(ts, p, n, k, j, p.msgs, x, t), Taken(ts, p, q, x)
  PROVE  /\ Base(ts, q, n, j) /\ Ends(q.msgs, x) /\ Swaps(p.msgs, q.msgs, Last(p.msgs).id, x.id)
         /\ Same(p.msgs, q.msgs, {x.id})
<1> DEFINE S == Replies(ts, n, k)
           T == Replies(ts, n, j)
           s == p.msgs
           h == Len(s)
           r == q.msgs
<1>a. /\ n \in Nat /\ Base(ts, p, n, k) /\ p.msgs # <<>> /\ IsHost(Last(p.msgs).id) /\ x \in Row
      /\ t \in Nat /\ ~Present(p.msgs, x.id) /\ x.role = "reply"
      /\ x.id = Reply(t, 1) \/ (x.id = Host(t) /\ t > 0 /\ t <= n /\ Hosted(x.parts))
      /\ Last(p.msgs).opens => x.opens
      /\ \A id \in Replies(ts, n, k) : Stored(id)
      /\ \A id : id \in Replies(ts, n, j) <=> id \in Replies(ts, n, k) \/ (id = x.id /\ Stored(id))
  BY DEF Takes
<1>b. /\ q \in View /\ q.msgs = [p.msgs EXCEPT ![Len(p.msgs)] = x]
      /\ q.active # None => q.active = x.id
      /\ p.active # None => p.active = Last(p.msgs).id
      /\ x.id # q.active => Rests(ts, x.id, x.status)
  BY DEF Taken
<1>1. p \in View /\ s \in Seq(Row) /\ RowsOK(s, S, n)
  BY <1>a, Viewed DEF Base
<1>2. h \in DOMAIN s /\ Last(s) = s[h]
  BY <1>1, <1>a DEF Last
<1>3. /\ r \in Seq(Row) /\ Len(r) = Len(s) /\ DOMAIN r = DOMAIN s /\ r # <<>> /\ r[h] = x
      /\ \A i \in DOMAIN s : i # h => r[i] = s[i]
  BY <1>1, <1>2, <1>a, <1>b
<1>4. \A id : id \in T <=> id \in S \/ (id = x.id /\ Stored(id))
  BY <1>a
<1>5. RowsOK(r, T, n)
  <2>1. \A id \in S : Stored(id)
    BY <1>a
  <2>2. s[h].opens => x.opens
    BY <1>2, <1>a
  <2>3. IsHost(s[h].id)
    BY <1>2, <1>a
  <2>6. h = Len(s)
    OBVIOUS
  <2> HIDE DEF S, T, h
  <2>4. RowsOK([s EXCEPT ![h] = x], T, n)
    BY <1>1, <1>2, <1>4, <1>a, <2>1, <2>2, <2>3, <2>6, ReplaceRow
  <2>5. r = [s EXCEPT ![h] = x]
    BY <1>b DEF h
  <2> QED BY <1>4, <2>4, <2>5
<1>6. Last(r) = x
  BY <1>3 DEF Last
<1> HIDE DEF S, T, h, r
<1>u. \A i \in DOMAIN s : s[i].id = s[h].id => i = h
  BY <1>1, <1>2 DEF RowsOK
<1>7. \A id : Present(r, id) <=> (Present(s, id) /\ id # s[h].id) \/ id = x.id
  <2> TAKE id
  <2>1. ASSUME Present(r, id) PROVE (Present(s, id) /\ id # s[h].id) \/ id = x.id
    <3>1. PICK i \in DOMAIN r : r[i].id = id
      BY <2>1 DEF Present
    <3>2. CASE i = h
      BY <1>3, <3>1, <3>2
    <3>3. CASE i # h
      <4>1. i \in DOMAIN s /\ s[i].id = id
        BY <1>3, <3>1, <3>3
      <4> QED BY <1>u, <3>3, <4>1 DEF Present
    <3> QED BY <3>2, <3>3
  <2>2. ASSUME Present(s, id), id # s[h].id PROVE Present(r, id)
    <3>1. PICK i \in DOMAIN s : s[i].id = id
      BY <2>2 DEF Present
    <3>2. i # h /\ r[i] = s[i] /\ i \in DOMAIN r
      BY <1>3, <2>2, <3>1
    <3> QED BY <3>1, <3>2 DEF Present
  <2>3. ASSUME id = x.id PROVE Present(r, id)
    <3>1. h \in DOMAIN r /\ r[h].id = x.id
      BY <1>2, <1>3
    <3> QED BY <2>3, <3>1 DEF Present
  <2> QED BY <2>1, <2>2, <2>3
<1>8. ASSUME NEW i \in DOMAIN r, r[i].id # q.active PROVE Quiet(ts, r[i])
  <2>1. CASE i = h
    BY <1>3, <1>8, <1>b, <2>1 DEF Quiet
  <2>2. CASE i # h
    <3>1. i \in DOMAIN s /\ r[i] = s[i] /\ s[i].id # s[h].id
      BY <1>3, <1>u, <2>2
    <3>2. s[i] \in Row
      BY <1>1, <3>1
    <3>3. s[i].id # p.active
      BY <1>2, <1>b, <3>1, <3>2, RowIs
    <3> QED BY <1>a, <3>1, <3>3 DEF Base
  <2> QED BY <2>1, <2>2
<1>9. q.active # None => Present(r, q.active)
  BY <1>7, <1>b
<1>10. Same(s, r, {x.id})
  <2> SUFFICES ASSUME NEW i \in DOMAIN r, r[i].id \notin {x.id}
               PROVE  \E y \in DOMAIN s : s[y].id = r[i].id /\ s[y].status = r[i].status
    BY DEF Same
  <2>1. i \in DOMAIN s /\ i # h /\ r[i] = s[i]
    BY <1>3
  <2> QED BY <2>1
<1>11. Ends(r, x) /\ Swaps(s, r, Last(s).id, x.id)
  BY <1>2, <1>3, <1>6, <1>7 DEF Ends, Swaps
<1>12. Base(ts, q, n, j)
  BY <1>b, <1>5, <1>8, <1>9 DEF Base, T, r
<1> QED BY <1>10, <1>11, <1>12 DEF r

-----------------------------------------------------------------------------
(* What an update does to a view.                                             *)

(* The host a fresh reply takes over.                                         *)
LEMMA EmptyHostIs ==
  ASSUME NEW p \in View, p.active # None => Present(p.msgs, p.active),
         \A i \in DOMAIN p.msgs : IsHost(p.msgs[i].id) => Hosted(p.msgs[i].parts)
  PROVE  /\ p.active # None /\ IsHost(p.active) => EmptyHost(p) = p.active
         /\ p.active # None /\ ~IsHost(p.active) => EmptyHost(p) = None
         /\ p.active = None /\ p.exec = "running" => EmptyHost(p) = None
         /\ p.active = None /\ (p.msgs # <<>> => ~IsHost(Last(p.msgs).id)) => EmptyHost(p) = None
         /\ p.active = None /\ p.exec # "running" /\ p.msgs # <<>> /\ IsHost(Last(p.msgs).id)
              /\ RestHosts(p.msgs) => EmptyHost(p) = Last(p.msgs).id
         /\ p.active = None /\ p.msgs # <<>> => EmptyHost(p) \in {None, Last(p.msgs).id}
<1> DEFINE Held(id, hosted) ==
             IF IsHost(id) /\ \E i \in DOMAIN p.msgs :
                  p.msgs[i].id = id /\ \A part \in p.msgs[i].parts : part[1] \in hosted
             THEN id ELSE None
<1>1. EmptyHost(p) = IF p.active # None THEN Held(p.active, {"divider", "notice"})
                     ELSE IF p.exec = "running" \/ p.msgs = <<>> THEN None
                     ELSE Held(Last(p.msgs).id, {"divider"})
  BY DEF EmptyHost
<1>2. ASSUME p.active # None, IsHost(p.active) PROVE Held(p.active, {"divider", "notice"}) = p.active
  <2>1. PICK i \in DOMAIN p.msgs : p.msgs[i].id = p.active
    BY <1>2 DEF Present
  <2>2. Hosted(p.msgs[i].parts)
    BY <1>2, <2>1
  <2>3. \A part \in p.msgs[i].parts : part[1] \in {"divider", "notice"}
    BY <2>2 DEF Hosted
  <2> QED BY <1>2, <2>1, <2>3
<1>3. ASSUME p.msgs # <<>>, IsHost(Last(p.msgs).id), RestHosts(p.msgs)
      PROVE  Held(Last(p.msgs).id, {"divider"}) = Last(p.msgs).id
  <2>1. p.msgs \in Seq(Row)
    BY Viewed
  <2>2. Len(p.msgs) \in DOMAIN p.msgs
    BY <1>3, <2>1
  <2>3. p.msgs[Len(p.msgs)].id = Last(p.msgs).id
    BY DEF Last
  <2>4. \A part \in p.msgs[Len(p.msgs)].parts : part[1] \in {"divider"}
    BY <1>3, <2>2, <2>3 DEF RestHosts
  <2> QED BY <1>3, <2>2, <2>3, <2>4
<1>4. \A id, hosted : ~IsHost(id) => Held(id, hosted) = None
  OBVIOUS
<1>5. \A id, hosted : Held(id, hosted) \in {None, id}
  OBVIOUS
<1> HIDE DEF Held
<1> QED BY <1>1, <1>2, <1>3, <1>4, <1>5

(* What holds of the rows of a view.                                          *)
LEMMA Based ==
  ASSUME NEW ts, NEW p, NEW n, NEW k, Base(ts, p, n, k)
  PROVE  /\ p \in View /\ p.msgs \in Seq(Row) /\ (p.active # None => Present(p.msgs, p.active))
         /\ \A i \in DOMAIN p.msgs : p.msgs[i] \in Row
         /\ \A i \in DOMAIN p.msgs : IsHost(p.msgs[i].id) => Hosted(p.msgs[i].parts)
         /\ \A i, j \in DOMAIN p.msgs : p.msgs[i].id = p.msgs[j].id => i = j
         /\ \A i \in DOMAIN p.msgs : p.msgs[i].role = "user" <=> p.msgs[i].id[1] = "user"
         /\ \A i \in DOMAIN p.msgs : Stored(p.msgs[i].id) => p.msgs[i].id \in Replies(ts, n, k)
         /\ \A id \in Replies(ts, n, k) : Present(p.msgs, id)
         /\ p.msgs # <<>> => Len(p.msgs) \in DOMAIN p.msgs /\ Last(p.msgs) = p.msgs[Len(p.msgs)]
                             /\ Last(p.msgs) \in Row
<1>1. p \in View /\ p.msgs \in Seq(Row) /\ (p.active # None => Present(p.msgs, p.active))
  BY Viewed DEF Base
<1>2. p.msgs # <<>> => Len(p.msgs) \in DOMAIN p.msgs /\ Last(p.msgs) = p.msgs[Len(p.msgs)]
                       /\ Last(p.msgs) \in Row
  <2>1. ASSUME p.msgs # <<>> PROVE Len(p.msgs) \in DOMAIN p.msgs
    BY <1>1, <2>1
  <2> QED BY <1>1, <2>1 DEF Last
<1> QED BY <1>1, <1>2 DEF Base, RowsOK

(* What a view is called by.                                                  *)
LEMMA Activity ==
  ASSUME NEW p, p.active # None => Present(p.msgs, p.active)
  PROVE  Active(p) = p.active /\ \A id : Has(p, id) <=> Present(p.msgs, id)
BY DEF Active, Has, Present

(* The turns and their replies.                                               *)
Counted(ts, t) == t \in Nat /\ \A i \in 1..t : ts[i].wrote \in Nat

(* The replies up to one more are those up to here, and that one.            *)
LEMMA OneMore ==
  ASSUME NEW ts, NEW t, Counted(ts, t), t > 0, NEW k \in Nat
  PROVE  /\ \A id : id \in Replies(ts, t, k + 1) <=> id \in Replies(ts, t, k) \/ id = Reply(t, k + 1)
         /\ Reply(t, k + 1) \notin Replies(ts, t, k)
         /\ \A id \in Replies(ts, t, k) : Stored(id) /\ id[2] \in 1..t
         /\ k > 0 => Reply(t, k) \in Replies(ts, t, k)
<1>1. /\ t \in Nat /\ t \in 1..t /\ k + 1 \in Nat /\ \A i \in 1..t : ts[i].wrote \in Nat
  BY DEF Counted
<1>2. /\ Replies(ts, t, k) \subseteq Id
      /\ \A i, j \in Nat : Reply(i, j) \in Replies(ts, t, k) <=> i \in 1..t /\ j \in 1..WroteIn(ts, t, k, i)
      /\ \A id \in Replies(ts, t, k) : Stored(id) /\ id[2] \in 1..t /\ id[3] \in 1..WroteIn(ts, t, k, id[2])
  BY <1>1, RepliesAre
<1>3. /\ Replies(ts, t, k + 1) \subseteq Id
      /\ \A i, j \in Nat : Reply(i, j) \in Replies(ts, t, k + 1) <=> i \in 1..t /\ j \in 1..WroteIn(ts, t, k + 1, i)
      /\ \A id \in Replies(ts, t, k + 1) : Stored(id) /\ id[2] \in 1..t /\ id[3] \in 1..WroteIn(ts, t, k + 1, id[2])
  BY <1>1, RepliesAre
<1>4. \A i, j \in Nat : Reply(i, j) \in Replies(ts, t, k + 1) <=>
                          Reply(i, j) \in Replies(ts, t, k) \/ (i = t /\ j = k + 1)
  <2> SUFFICES ASSUME NEW i \in Nat, NEW j \in Nat
               PROVE  Reply(i, j) \in Replies(ts, t, k + 1) <=>
                          Reply(i, j) \in Replies(ts, t, k) \/ (i = t /\ j = k + 1)
    OBVIOUS
  <2>1. Reply(i, j) \in Replies(ts, t, k) <=> i \in 1..t /\ j \in 1..WroteIn(ts, t, k, i)
    BY <1>2
  <2>2. Reply(i, j) \in Replies(ts, t, k + 1) <=> i \in 1..t /\ j \in 1..WroteIn(ts, t, k + 1, i)
    BY <1>3
  <2>3. CASE i = t
    <3>1. WroteIn(ts, t, k, i) = k /\ WroteIn(ts, t, k + 1, i) = k + 1
      BY <2>3 DEF WroteIn
    <3>2. j \in 1..k + 1 <=> j \in 1..k \/ j = k + 1
      OBVIOUS
    <3> QED BY <1>1, <2>1, <2>2, <2>3, <3>1, <3>2
  <2>4. CASE i # t
    BY <2>1, <2>2, <2>4 DEF WroteIn
  <2> QED BY <2>3, <2>4
<1>5. \A id \in Id : Stored(id) => id = Reply(id[2], id[3]) /\ id[2] \in Nat /\ id[3] \in Nat
  BY Names DEF Stored
<1>6. \A i, j \in Nat : Reply(i, j) = Reply(t, k + 1) => i = t /\ j = k + 1
  BY <1>1, Names
<1>7. \A id : id \in Replies(ts, t, k + 1) <=> id \in Replies(ts, t, k) \/ id = Reply(t, k + 1)
  <2> TAKE id
  <2>1. Reply(t, k + 1) \in Replies(ts, t, k + 1)
    BY <1>1, <1>4
  <2>2. ASSUME id \in Replies(ts, t, k) PROVE id \in Replies(ts, t, k + 1)
    <3>1. id = Reply(id[2], id[3]) /\ id[2] \in Nat /\ id[3] \in Nat
      BY <1>2, <1>5, <2>2
    <3> QED BY <1>4, <2>2, <3>1
  <2>3. ASSUME id \in Replies(ts, t, k + 1) PROVE id \in Replies(ts, t, k) \/ id = Reply(t, k + 1)
    <3>1. id = Reply(id[2], id[3]) /\ id[2] \in Nat /\ id[3] \in Nat
      BY <1>3, <1>5, <2>3
    <3>2. Reply(id[2], id[3]) \in Replies(ts, t, k) \/ (id[2] = t /\ id[3] = k + 1)
      BY <1>4, <2>3, <3>1
    <3> QED BY <3>1, <3>2
  <2> QED BY <2>1, <2>2, <2>3
<1>8. Reply(t, k + 1) \notin Replies(ts, t, k)
  <2>1. ~(k + 1 \in 1..WroteIn(ts, t, k, t))
    BY DEF WroteIn
  <2> QED BY <1>1, <1>2, <2>1
<1>9. ASSUME k > 0 PROVE Reply(t, k) \in Replies(ts, t, k)
  <2>1. k \in 1..WroteIn(ts, t, k, t)
    BY <1>9 DEF WroteIn
  <2> QED BY <1>1, <1>2, <2>1
<1> QED BY <1>2, <1>7, <1>8, <1>9

(* A reply of the turn a run is in: it joins what the run has open, or takes   *)
(* over its host, or opens a turn of its own.                                 *)
Telling(opens) == [NoPatch EXCEPT !.parts = {Text}, !.opens = opens]

(* A reply's patch brings its text and no status.                            *)
LEMMA TellingIs ==
  ASSUME NEW opens \in BOOLEAN
  PROVE  /\ Telling(opens) \in Patch /\ Telling(opens).parts = {Text} /\ Telling(opens).opens = opens
         /\ Telling(opens).status = "same"
         /\ \A status : StatusOf(Telling(opens), status) = status
<1>1. Telling(opens).parts = {Text} /\ Telling(opens).status = "same"
  BY DEF Telling, NoPatch
<1>2. Telling(opens).opens = opens
  BY DEF Telling, NoPatch
<1>3. {Text} \in SUBSET Part
  BY Names
<1>4. NoPatch \in [parts : SUBSET Part, opens : BOOLEAN, status : Statuses \cup {"same"}]
  BY DEF NoPatch
<1>5. Telling(opens) \in Patch
  BY <1>3, <1>4 DEF Patch, Telling
<1> QED BY <1>1, <1>2, <1>5 DEF StatusOf

Saying(ts, t, k, j, p, opens) ==
  /\ Counted(ts, t) /\ t > 0 /\ k \in Nat /\ j = k + 1 /\ Base(ts, p, t, k) /\ p.exec = "running"
  /\ opens \in BOOLEAN
  /\ k > 0 => ~opens /\ p.active = Reply(t, k) /\ p.msgs # <<>> /\ Last(p.msgs).id = Reply(t, k)
  /\ k = 0 => \/ p.active = None
              \/ IsHost(p.active) /\ p.msgs # <<>> /\ Last(p.msgs).id = p.active
              \/ p.active \in Strays /\ p.msgs # <<>> /\ Last(p.msgs).id = p.active
              \/ /\ p.active # None /\ ~IsHost(p.active)
                 /\ (opens \/ (p.msgs # <<>> /\ Last(p.msgs).role = "user"))
RunSays(ts, p, q, t, j) ==
  /\ Base(ts, q, t, j) /\ SameRun(p, q) /\ q.active = Reply(t, j) /\ q.msgs # <<>>
  /\ Last(q.msgs).id = Reply(t, j) /\ Last(q.msgs).status = "running"
  /\ Same(p.msgs, q.msgs, {Reply(t, j), p.active})
  /\ \A id : IsHost(id) /\ Present(q.msgs, id) => Present(p.msgs, id) /\ id # p.active

(* A reply written into the run under way is shown last, running, and open.  *)
LEMMA SaidRunning ==
  ASSUME NEW ts, NEW t, NEW k, NEW j, NEW p, NEW opens, Saying(ts, t, k, j, p, opens),
         NEW q, q = OnMessage(p, Reply(t, j), "reply", Telling(opens))
  PROVE  RunSays(ts, p, q, t, j)
<1> SUFFICES /\ Base(ts, q, t, j) /\ SameRun(p, q) /\ q.active = Reply(t, j) /\ q.msgs # <<>>
             /\ Last(q.msgs).id = Reply(t, j) /\ Last(q.msgs).status = "running"
             /\ Same(p.msgs, q.msgs, {Reply(t, j), p.active})
             /\ \A id : IsHost(id) /\ Present(q.msgs, id) => Present(p.msgs, id) /\ id # p.active
  BY DEF RunSays
<1> DEFINE id == Reply(t, j)
           patch == Telling(opens)
<1>0. /\ Counted(ts, t) /\ t > 0 /\ k \in Nat /\ j = k + 1 /\ Base(ts, p, t, k) /\ p.exec = "running"
      /\ opens \in BOOLEAN
  BY DEF Saying
<1>h. k > 0 => ~opens /\ p.active = Reply(t, k) /\ p.msgs # <<>> /\ Last(p.msgs).id = Reply(t, k)
  BY DEF Saying
<1>z. k = 0 => \/ p.active = None
               \/ IsHost(p.active) /\ p.msgs # <<>> /\ Last(p.msgs).id = p.active
               \/ p.active \in Strays /\ p.msgs # <<>> /\ Last(p.msgs).id = p.active
               \/ /\ p.active # None /\ ~IsHost(p.active)
                  /\ (opens \/ (p.msgs # <<>> /\ Last(p.msgs).role = "user"))
  BY DEF Saying
<1>1. /\ p \in View /\ p.msgs \in Seq(Row) /\ (p.active # None => Present(p.msgs, p.active))
      /\ \A i \in DOMAIN p.msgs : IsHost(p.msgs[i].id) => Hosted(p.msgs[i].parts)
      /\ \A i, l \in DOMAIN p.msgs : p.msgs[i].id = p.msgs[l].id => i = l
      /\ \A i \in DOMAIN p.msgs : p.msgs[i].role = "user" <=> p.msgs[i].id[1] = "user"
      /\ \A i \in DOMAIN p.msgs : Stored(p.msgs[i].id) => p.msgs[i].id \in Replies(ts, t, k)
  BY <1>0, Based
<1>l. p.msgs # <<>> => Len(p.msgs) \in DOMAIN p.msgs /\ Last(p.msgs) = p.msgs[Len(p.msgs)] /\ Last(p.msgs) \in Row
  BY <1>0, Based
<1>2. /\ \A jd : jd \in Replies(ts, t, j) <=> jd \in Replies(ts, t, k) \/ jd = id
      /\ id \notin Replies(ts, t, k)
      /\ \A jd \in Replies(ts, t, k) : Stored(jd) /\ jd[2] \in 1..t
  BY <1>0, OneMore
<1>3. t \in Nat /\ j \in Nat /\ id \in Id /\ id[1] = "reply" /\ id[2] = t /\ id[3] = j /\ Stored(id)
  BY <1>0, Names DEF Counted, Stored
<1>4. ~Present(p.msgs, id)
  BY <1>1, <1>2, <1>3 DEF Present
<1>5. /\ patch \in Patch /\ patch.parts = {Text} /\ patch.opens = opens /\ \A status : StatusOf(patch, status) = status
  BY <1>0, TellingIs
<1>6. ~IsHost(id) /\ id \notin Strays
  BY <1>3, Names DEF IsHost
<1> HIDE DEF id, patch
<1>7. CASE p.active # None /\ IsHost(p.active)
  <2>1. k = 0
    <3>1. Reply(t, k)[1] = "reply"
      BY <1>0, <1>3, Names
    <3> QED BY <1>0, <1>h, <1>7, <3>1 DEF IsHost
  <2>2. p.msgs # <<>> /\ Last(p.msgs).id = p.active
    BY <1>7, <1>z, <2>1, Names DEF IsHost
  <2> DEFINE h == Len(p.msgs)
  <2>3. h \in DOMAIN p.msgs /\ Last(p.msgs) = p.msgs[h] /\ p.msgs[h].id = p.active
    BY <1>l, <2>2
  <2>4. EmptyHost(p) = p.msgs[h].id
    BY <1>1, <1>7, <2>3, EmptyHostIs
  <2>5. q = OnMessage(p, id, "reply", patch) /\ id \in Id
    BY <1>3 DEF id, patch
  <2> HIDE DEF h
  <2>r. Replaced(p, q, h, id, patch)
    <3>1. \A i, l \in DOMAIN p.msgs : p.msgs[i].id = p.msgs[l].id => i = l
      BY <1>1
    <3>2. p \in View /\ patch \in Patch /\ h \in DOMAIN p.msgs /\ p.active = p.msgs[h].id
      BY <1>1, <1>5, <2>3
    <3> QED BY <1>4, <2>4, <2>5, <3>1, <3>2, OnHost
  <2>6. /\ q \in View /\ SameRun(p, q)
        /\ q.active = IF p.active = p.msgs[h].id THEN id ELSE p.active
    BY <2>r DEF Replaced
  <2>7. PICK x \in Row :
              /\ x.id = id /\ x.role = p.msgs[h].role
              /\ x.status = StatusOf(patch, IF p.exec = "running" THEN "running" ELSE p.msgs[h].status)
              /\ p.msgs[h].opens => x.opens
              /\ q.msgs = [p.msgs EXCEPT ![h] = x]
    BY <2>r DEF Replaced
  <2>8. p.msgs[h] \in Row /\ x.role = "reply"
    <3>1. p.msgs[h] \in Row
      BY <1>l, <2>2, <2>3
    <3>2. p.msgs[h].role # "user"
      BY <1>1, <1>7, <2>3 DEF IsHost
    <3> QED BY <2>7, <3>1, <3>2, RowIs
  <2>9. q.active = id /\ x.status = "running" /\ x.id = id
    BY <1>0, <1>5, <2>3, <2>6, <2>7
  <2>10. id = Reply(t, 1)
    BY <1>0, <2>1 DEF id
  <2>11. /\ Base(ts, q, t, j) /\ Ends(q.msgs, x) /\ Swaps(p.msgs, q.msgs, Last(p.msgs).id, x.id)
         /\ Same(p.msgs, q.msgs, {x.id})
    <3>1. q.msgs = [p.msgs EXCEPT ![Len(p.msgs)] = x] /\ (Last(p.msgs).opens => x.opens)
      BY <2>3, <2>7 DEF h
    <3>2. IsHost(Last(p.msgs).id) /\ x.id = Reply(t, 1) /\ ~Present(p.msgs, x.id)
      BY <1>4, <1>7, <2>2, <2>7, <2>10
    <3>3. \A jd \in Replies(ts, t, k) : Stored(jd)
      BY <1>2
    <3>4. \A jd : jd \in Replies(ts, t, j) <=> jd \in Replies(ts, t, k) \/ (jd = x.id /\ Stored(jd))
      BY <1>2, <1>3, <2>7
    <3>5. t \in Nat /\ q \in View /\ x.role = "reply"
      BY <1>3, <2>6, <2>8
    <3>6. Takes(ts, p, t, k, j, p.msgs, x, t)
      BY <1>0, <2>2, <3>1, <3>2, <3>3, <3>4, <3>5 DEF Takes
    <3>7. Taken(ts, p, q, x)
      BY <2>2, <2>9, <3>1, <3>5 DEF Taken
    <3> QED BY <3>6, <3>7, BaseHost
  <2>12. Same(p.msgs, q.msgs, {id, p.active})
    BY <2>7, <2>11 DEF Same
  <2> QED BY <1>6, <2>2, <2>6, <2>7, <2>9, <2>11, <2>12 DEF id, Ends, Swaps
<1>8. CASE p.active = None \/ ~IsHost(p.active)
  <2>1. EmptyHost(p) = None
    BY <1>0, <1>1, <1>8, EmptyHostIs
  <2>2. Prior(p) = p.active
    BY <1>0, <1>1, Activity DEF Prior
  <2>3. q = OnMessage(p, id, "reply", patch) /\ id \in Id
    BY <1>3 DEF id, patch
  <2>r. Added(p, q, id, patch)
    BY <1>1, <1>4, <1>5, <2>1, <2>3, OnFresh
  <2>4. /\ q \in View /\ SameRun(p, q)
        /\ q.active = IF p.exec = "running" THEN id ELSE p.active
    BY <2>r DEF Added
  <2>5. PICK s \in Seq(Row), x \in Row :
              /\ Repaints(p.msgs, s, Prior(p), "complete") /\ (Prior(p) = None => s = p.msgs)
              /\ x.id = id /\ x.role = "reply" /\ x.parts = patch.parts
              /\ x.status = StatusOf(patch, IF p.exec = "running" THEN "running" ELSE "none")
              /\ x.opens = (patch.opens \/ (/\ p.exec = "running" /\ Prior(p) = None
                                            /\ p.msgs # <<>> /\ Last(p.msgs).role = "reply"))
              /\ q.msgs = Append(s, x)
    BY <2>r DEF Added
  <2>6. q.active = id /\ x.status = "running" /\ x.id = id /\ x.role = "reply"
    BY <1>0, <1>5, <2>4, <2>5
  <2>7. x.opens = (opens \/ (p.active = None /\ p.msgs # <<>> /\ Last(p.msgs).role = "reply"))
    BY <1>0, <1>5, <2>2, <2>5
  <2>8. p.msgs # <<>> /\ Last(p.msgs).role = "reply" /\ ~x.opens
           => Last(p.msgs).id \in Strays \/ NextReply(Last(p.msgs).id, id)
    <3> SUFFICES ASSUME p.msgs # <<>>, Last(p.msgs).role = "reply", ~x.opens
                 PROVE  Last(p.msgs).id \in Strays \/ NextReply(Last(p.msgs).id, id)
      OBVIOUS
    <3>1. p.active # None /\ ~opens /\ ~IsHost(p.active)
      BY <1>8, <2>7
    <3>2. CASE k > 0
      <4>1. Last(p.msgs).id = Reply(t, k) /\ Stored(Reply(t, k)) /\ Reply(t, k)[2] = t /\ Reply(t, k)[3] = k
        BY <1>0, <1>3, <1>h, <3>2, Names DEF Stored
      <4> QED BY <1>0, <1>3, <4>1 DEF NextReply
    <3>3. CASE k = 0
      BY <1>z, <3>1, <3>3
    <3> QED BY <1>0, <3>2, <3>3
  <2>9. id[3] > 1 => /\ p.msgs # <<>> /\ x.role = "reply" /\ Last(p.msgs).role = "reply" /\ ~x.opens
                     /\ NextReply(Last(p.msgs).id, id)
    <3> SUFFICES ASSUME k > 0
                 PROVE  /\ p.msgs # <<>> /\ Last(p.msgs).role = "reply" /\ ~x.opens
                        /\ NextReply(Last(p.msgs).id, id)
      BY <1>0, <1>3, <2>6
    <3>1. p.msgs # <<>> /\ ~opens /\ p.active = Reply(t, k) /\ Last(p.msgs).id = Reply(t, k)
      BY <1>h
    <3>2. Stored(Reply(t, k)) /\ Reply(t, k)[2] = t /\ Reply(t, k)[3] = k /\ Reply(t, k) # None /\ Reply(t, k)[1] = "reply"
      BY <1>0, <1>3, Names DEF Stored
    <3>3. NextReply(Last(p.msgs).id, id)
      BY <1>0, <1>3, <3>1, <3>2 DEF NextReply
    <3>4. Last(p.msgs).role # "user"
      BY <1>1, <1>l, <3>1, <3>2
    <3>5. Last(p.msgs).role = "reply"
      BY <1>l, <3>1, <3>4, RowIs
    <3>6. ~x.opens
      BY <2>7, <3>1, <3>2
    <3> QED BY <3>1, <3>3, <3>5, <3>6
  <2>10. /\ Base(ts, q, t, j) /\ Ends(q.msgs, x) /\ Adds(p.msgs, q.msgs, x.id)
         /\ Same(p.msgs, q.msgs, {x.id, Prior(p)})
    <3>1. ~Present(p.msgs, x.id) /\ (x.role = "user" <=> x.id[1] = "user") /\ ~IsHost(x.id) /\ x.id \notin Strays
          /\ x.id[1] \notin {"user", "host", "divider"}
      BY <1>3, <1>4, <1>6, <2>6
    <3>2. p.msgs # <<>> /\ x.role = "reply" /\ Last(p.msgs).role = "reply" /\ ~x.opens
           => Last(p.msgs).id \in Strays \/ NextReply(Last(p.msgs).id, x.id)
      BY <2>6, <2>8
    <3>3. Stored(x.id) /\ x.id[3] > 1
           => /\ p.msgs # <<>> /\ x.role = "reply" /\ Last(p.msgs).role = "reply" /\ ~x.opens
              /\ NextReply(Last(p.msgs).id, x.id)
      BY <2>6, <2>9
    <3>4. \A jd : jd \in Replies(ts, t, j) <=> jd \in Replies(ts, t, k) \/ (jd = x.id /\ Stored(jd))
      BY <1>2, <1>3, <2>6
    <3>5. q.active = x.id /\ t \in Nat /\ t <= t /\ q \in View
      BY <1>3, <2>4, <2>6
    <3>6. \A i \in DOMAIN p.msgs : p.msgs[i].id = Prior(p) \/ p.msgs[i].id # p.active
      BY <2>2
    <3>7. Repaints(p.msgs, s, Prior(p), "complete") /\ q.msgs = Append(s, x)
      BY <2>5
    <3>8. Comes(ts, p, t, k, t, j, p.msgs, x)
      BY <1>0, <3>1, <3>2, <3>3, <3>4, <3>5 DEF Comes
    <3>9. Moved(ts, p, q, s, x, Prior(p))
      BY <3>5, <3>6, <3>7 DEF Moved
    <3> QED BY <3>8, <3>9, BaseFresh
  <2>11. Same(p.msgs, q.msgs, {id, p.active})
    BY <2>2, <2>6, <2>10
  <2>12. \A jd : IsHost(jd) /\ Present(q.msgs, jd) => Present(p.msgs, jd) /\ jd # p.active
    <3> SUFFICES ASSUME NEW jd, IsHost(jd), Present(q.msgs, jd)
                 PROVE  Present(p.msgs, jd) /\ jd # p.active
      OBVIOUS
    <3>1. Present(p.msgs, jd)
      BY <1>6, <2>6, <2>10 DEF Adds
    <3>2. jd # None
      <4>1. PICK i \in DOMAIN p.msgs : p.msgs[i].id = jd
        BY <3>1 DEF Present
      <4>2. p.msgs[i] \in Row
        BY <1>1
      <4> QED BY <4>1, <4>2, RowIs
    <3> QED BY <1>8, <3>1, <3>2
  <2> QED BY <2>4, <2>6, <2>10, <2>11, <2>12 DEF id, Ends
<1> QED BY <1>7, <1>8

(* A reply of a turn no run is known for: it joins its own turn, or takes over  *)
(* the divider the transcript ends on.                                        *)
SayingAtRest(ts, t, k, j, p, opens) ==
  /\ Counted(ts, t) /\ t > 0 /\ k \in Nat /\ j = k + 1 /\ Base(ts, p, t, k) /\ p.exec # "running"
  /\ p.active = None /\ RestHosts(p.msgs) /\ opens \in BOOLEAN
  /\ k > 0 => ~opens /\ p.msgs # <<>> /\ Last(p.msgs).id = Reply(t, k)
  /\ k = 0 => opens \/ (p.msgs # <<>> /\ Last(p.msgs).id \in {User(t), Divider(t)})
RestSays(ts, p, q, t, j) ==
  /\ Base(ts, q, t, j) /\ SameRun(p, q) /\ q.active = None /\ q.msgs # <<>>
  /\ Last(q.msgs).id = Reply(t, j) /\ RestHosts(q.msgs) /\ q.msgs # p.msgs

(* A reply outside any run is shown last, and no run is opened by it.        *)
LEMMA SaidResting ==
  ASSUME NEW ts, NEW t, NEW k, NEW j, NEW p, NEW opens, SayingAtRest(ts, t, k, j, p, opens),
         NEW q, q = OnMessage(p, Reply(t, j), "reply", Telling(opens))
  PROVE  RestSays(ts, p, q, t, j)
<1> SUFFICES /\ Base(ts, q, t, j) /\ SameRun(p, q) /\ q.active = None /\ q.msgs # <<>>
             /\ Last(q.msgs).id = Reply(t, j) /\ RestHosts(q.msgs) /\ q.msgs # p.msgs
  BY DEF RestSays
<1> DEFINE id == Reply(t, j)
           patch == Telling(opens)
<1>0. /\ Counted(ts, t) /\ t > 0 /\ k \in Nat /\ j = k + 1 /\ Base(ts, p, t, k) /\ p.exec # "running"
      /\ p.active = None /\ RestHosts(p.msgs) /\ opens \in BOOLEAN
  BY DEF SayingAtRest
<1>h. k > 0 => ~opens /\ p.msgs # <<>> /\ Last(p.msgs).id = Reply(t, k)
  BY DEF SayingAtRest
<1>z. k = 0 => opens \/ (p.msgs # <<>> /\ Last(p.msgs).id \in {User(t), Divider(t)})
  BY DEF SayingAtRest
<1>1. /\ p \in View /\ p.msgs \in Seq(Row)
      /\ \A i \in DOMAIN p.msgs : IsHost(p.msgs[i].id) => Hosted(p.msgs[i].parts)
      /\ \A i, l \in DOMAIN p.msgs : p.msgs[i].id = p.msgs[l].id => i = l
      /\ \A i \in DOMAIN p.msgs : p.msgs[i].role = "user" <=> p.msgs[i].id[1] = "user"
      /\ \A i \in DOMAIN p.msgs : Stored(p.msgs[i].id) => p.msgs[i].id \in Replies(ts, t, k)
  BY <1>0, Based
<1>l. p.msgs # <<>> => Len(p.msgs) \in DOMAIN p.msgs /\ Last(p.msgs) = p.msgs[Len(p.msgs)] /\ Last(p.msgs) \in Row
  BY <1>0, Based
<1>2. /\ \A jd : jd \in Replies(ts, t, j) <=> jd \in Replies(ts, t, k) \/ jd = id
      /\ id \notin Replies(ts, t, k)
      /\ \A jd \in Replies(ts, t, k) : Stored(jd) /\ jd[2] \in 1..t
  BY <1>0, OneMore
<1>3. t \in Nat /\ j \in Nat /\ id \in Id /\ id[1] = "reply" /\ id[2] = t /\ id[3] = j /\ Stored(id)
  BY <1>0, Names DEF Counted, Stored
<1>4. ~Present(p.msgs, id)
  BY <1>1, <1>2, <1>3 DEF Present
<1>5. /\ patch \in Patch /\ patch.parts = {Text} /\ patch.opens = opens /\ \A status : StatusOf(patch, status) = status
  BY <1>0, TellingIs
<1>6. ~IsHost(id) /\ id \notin Strays /\ id # None
  BY <1>3, Names DEF IsHost
<1>7. Rests(ts, id, "none")
  BY DEF Rests
<1> HIDE DEF id, patch
<1>8. CASE p.msgs # <<>> /\ IsHost(Last(p.msgs).id)
  <2> DEFINE h == Len(p.msgs)
  <2>1. k = 0
    <3>1. Reply(t, k)[1] = "reply"
      BY <1>0, <1>3, Names
    <3> QED BY <1>0, <1>h, <1>8, <3>1 DEF IsHost
  <2>3. h \in DOMAIN p.msgs /\ Last(p.msgs) = p.msgs[h] /\ p.msgs[h] \in Row
    BY <1>l, <1>8
  <2>4. EmptyHost(p) = p.msgs[h].id
    BY <1>0, <1>1, <1>8, <2>3, EmptyHostIs
  <2>5. q = OnMessage(p, id, "reply", patch) /\ id \in Id
    BY <1>3 DEF id, patch
  <2> HIDE DEF h
  <2>6. Replaced(p, q, h, id, patch)
    <3>1. \A i, l \in DOMAIN p.msgs : p.msgs[i].id = p.msgs[l].id => i = l
      BY <1>1
    <3>2. p \in View /\ patch \in Patch /\ h \in DOMAIN p.msgs /\ p.exec # "running"
      BY <1>0, <1>1, <1>5, <2>3
    <3> QED BY <1>4, <2>4, <2>5, <3>1, <3>2, OnHost
  <2>7. q \in View /\ SameRun(p, q) /\ q.active = None
    <3>1. None # p.msgs[h].id
      BY <2>3, RowIs
    <3> QED BY <1>0, <2>6, <3>1 DEF Replaced
  <2>8. PICK x \in Row :
           /\ x.id = id /\ x.role = p.msgs[h].role
           /\ x.status = StatusOf(patch, IF p.exec = "running" THEN "running" ELSE p.msgs[h].status)
           /\ p.msgs[h].opens => x.opens
           /\ q.msgs = [p.msgs EXCEPT ![h] = x]
    BY <2>6 DEF Replaced
  <2>9. x.role = "reply"
    <3>1. p.msgs[h].role # "user"
      BY <1>1, <1>8, <2>3 DEF IsHost
    <3> QED BY <2>3, <2>8, <3>1, RowIs
  <2>10. x.status = "none"
    BY <1>0, <1>5, <1>8, <2>3, <2>8 DEF RestHosts
  <2>11. Takes(ts, p, t, k, j, p.msgs, x, t)
    <3>1. id = Reply(t, 1)
      BY <1>0, <2>1 DEF id
    <3>2. Last(p.msgs).opens => x.opens
      BY <2>3, <2>8
    <3>3. x.id = id /\ ~Present(p.msgs, x.id)
      BY <1>4, <2>8
    <3>4. \A jd : jd \in Replies(ts, t, j) <=> jd \in Replies(ts, t, k) \/ (jd = x.id /\ Stored(jd))
      BY <1>2, <1>3, <3>3
    <3>5. x.id = Reply(t, 1) /\ \A jd \in Replies(ts, t, k) : Stored(jd)
      BY <1>2, <3>1, <3>3
    <3> QED BY <1>0, <1>3, <1>8, <2>9, <3>2, <3>3, <3>4, <3>5 DEF Takes
  <2>12. Taken(ts, p, q, x)
    BY <1>0, <1>7, <2>7, <2>8, <2>10 DEF Taken, h
  <2>13. Base(ts, q, t, j) /\ Ends(q.msgs, x) /\ Swaps(p.msgs, q.msgs, Last(p.msgs).id, x.id)
    BY <2>11, <2>12, BaseHost
  <2>14. RestHosts(q.msgs)
    <3>1. DOMAIN q.msgs = DOMAIN p.msgs /\ q.msgs[h] = x /\ \A i \in DOMAIN p.msgs : i # h => q.msgs[i] = p.msgs[i]
      BY <1>1, <2>3, <2>8
    <3>2. ~IsHost(x.id)
      BY <1>6, <2>8
    <3> QED BY <1>0, <3>1, <3>2 DEF RestHosts
  <2>15. q.msgs # p.msgs
    <3>1. Present(q.msgs, id)
      BY <2>8, <2>13 DEF Swaps
    <3> QED BY <1>4, <3>1
  <2> QED BY <2>7, <2>8, <2>13, <2>14, <2>15 DEF id, Ends
<1>9. CASE p.msgs = <<>> \/ ~IsHost(Last(p.msgs).id)
  <2>1. EmptyHost(p) = None
    BY <1>0, <1>1, <1>9, EmptyHostIs
  <2>2. Prior(p) = None
    BY <1>0 DEF Prior
  <2>3. q = OnMessage(p, id, "reply", patch) /\ id \in Id
    BY <1>3 DEF id, patch
  <2>4. Added(p, q, id, patch)
    BY <1>1, <1>4, <1>5, <2>1, <2>3, OnFresh
  <2>5. q \in View /\ SameRun(p, q) /\ q.active = None
    BY <1>0, <2>4 DEF Added
  <2>6. PICK s \in Seq(Row), x \in Row :
          /\ Repaints(p.msgs, s, Prior(p), "complete") /\ (Prior(p) = None => s = p.msgs)
          /\ x.id = id /\ x.role = "reply" /\ x.parts = patch.parts
          /\ x.status = StatusOf(patch, IF p.exec = "running" THEN "running" ELSE "none")
          /\ x.opens = (patch.opens \/ (/\ p.exec = "running" /\ Prior(p) = None
                                        /\ p.msgs # <<>> /\ Last(p.msgs).role = "reply"))
          /\ q.msgs = Append(s, x)
    BY <2>4 DEF Added
  <2>7. x.id = id /\ x.role = "reply" /\ x.status = "none" /\ (x.opens <=> opens) /\ q.msgs = Append(p.msgs, x)
        /\ Repaints(p.msgs, p.msgs, None, "complete")
    BY <1>0, <1>5, <2>2, <2>6
  <2>8. p.msgs # <<>> /\ Last(p.msgs).role = "reply" /\ ~x.opens
           => Last(p.msgs).id \in Strays \/ NextReply(Last(p.msgs).id, id)
    <3> SUFFICES ASSUME p.msgs # <<>>, Last(p.msgs).role = "reply", ~x.opens
                 PROVE  NextReply(Last(p.msgs).id, id)
      OBVIOUS
    <3>1. CASE k > 0
      <4>1. Last(p.msgs).id = Reply(t, k) /\ Stored(Reply(t, k)) /\ Reply(t, k)[2] = t /\ Reply(t, k)[3] = k
        BY <1>0, <1>3, <1>h, <3>1, Names DEF Stored
      <4> QED BY <1>0, <1>3, <4>1 DEF NextReply
    <3>2. CASE k = 0
      <4>1. Last(p.msgs).id \in {User(t), Divider(t)}
        BY <1>z, <2>7, <3>2
      <4>2. Last(p.msgs).id[1] # "user"
        BY <1>1, <1>l
      <4>3. User(t)[1] = "user" /\ Divider(t)[1] = "divider"
        BY <1>3, Names DEF Divider
      <4> QED BY <1>9, <4>1, <4>2, <4>3 DEF IsHost
    <3> QED BY <1>0, <3>1, <3>2
  <2>9. id[3] > 1 => /\ p.msgs # <<>> /\ x.role = "reply" /\ Last(p.msgs).role = "reply" /\ ~x.opens
                     /\ NextReply(Last(p.msgs).id, id)
    <3> SUFFICES ASSUME k > 0
                 PROVE  /\ p.msgs # <<>> /\ Last(p.msgs).role = "reply" /\ ~x.opens
                        /\ NextReply(Last(p.msgs).id, id)
      BY <1>0, <1>3, <2>7
    <3>1. p.msgs # <<>> /\ ~opens /\ Last(p.msgs).id = Reply(t, k)
      BY <1>h
    <3>2. Stored(Reply(t, k)) /\ Reply(t, k)[2] = t /\ Reply(t, k)[3] = k /\ Reply(t, k)[1] = "reply"
      BY <1>0, <1>3, Names DEF Stored
    <3>3. NextReply(Last(p.msgs).id, id)
      BY <1>0, <1>3, <3>1, <3>2 DEF NextReply
    <3>4. Last(p.msgs).role # "user"
      BY <1>1, <1>l, <3>1, <3>2
    <3>5. Last(p.msgs).role = "reply"
      BY <1>l, <3>1, <3>4, RowIs
    <3> QED BY <2>7, <3>1, <3>3, <3>5
  <2>10. Base(ts, q, t, j) /\ Ends(q.msgs, x) /\ Adds(p.msgs, q.msgs, x.id)
    <3>1. ~Present(p.msgs, x.id) /\ (x.role = "user" <=> x.id[1] = "user") /\ ~IsHost(x.id) /\ x.id \notin Strays
          /\ x.id[1] \notin {"user", "host", "divider"}
      BY <1>3, <1>4, <1>6, <2>7
    <3>2. p.msgs # <<>> /\ x.role = "reply" /\ Last(p.msgs).role = "reply" /\ ~x.opens
           => Last(p.msgs).id \in Strays \/ NextReply(Last(p.msgs).id, x.id)
      BY <2>7, <2>8
    <3>3. Stored(x.id) /\ x.id[3] > 1
           => /\ p.msgs # <<>> /\ x.role = "reply" /\ Last(p.msgs).role = "reply" /\ ~x.opens
              /\ NextReply(Last(p.msgs).id, x.id)
      BY <2>7, <2>9
    <3>4. \A jd : jd \in Replies(ts, t, j) <=> jd \in Replies(ts, t, k) \/ (jd = x.id /\ Stored(jd))
      BY <1>2, <1>3, <2>7
    <3>5. t \in Nat /\ t <= t /\ q \in View
      BY <1>3, <2>5
    <3>6. Comes(ts, p, t, k, t, j, p.msgs, x)
      BY <1>0, <3>1, <3>2, <3>3, <3>4, <3>5 DEF Comes
    <3>7. Moved(ts, p, q, p.msgs, x, None)
      BY <1>0, <1>7, <2>5, <2>7, <3>5 DEF Moved
    <3> QED BY <3>6, <3>7, BaseFresh
  <2>11. RestHosts(q.msgs)
    <3>1. \A i \in DOMAIN q.msgs : q.msgs[i] = x \/ (i \in DOMAIN p.msgs /\ q.msgs[i] = p.msgs[i])
      <4> DEFINE r == q.msgs
                 v == p.msgs
      <4>1. v \in Seq(Row) /\ r = Append(v, x)
        BY <1>1, <2>7
      <4> HIDE DEF r, v
      <4>2. \A i \in DOMAIN v : i \in DOMAIN r /\ r[i] = v[i]
        BY <4>1, Appended
      <4>3. \A i \in DOMAIN r : i \in DOMAIN v \/ r[i] = x
        BY <4>1, Appended
      <4> QED BY <4>2, <4>3 DEF r, v
    <3>2. ~IsHost(x.id)
      BY <1>6, <2>7
    <3> QED BY <1>0, <3>1, <3>2 DEF RestHosts
  <2>12. q.msgs # p.msgs
    <3>1. Present(q.msgs, id)
      BY <2>7, <2>10 DEF Adds
    <3> QED BY <1>4, <3>1
  <2> QED BY <2>5, <2>7, <2>10, <2>11, <2>12 DEF id, Ends
<1> QED BY <1>8, <1>9

(* The state of the run is no part of what a view shows.                       *)
Run(p, e, t, b) == [p EXCEPT !.exec = e, !.run = t, !.reported = b]

(* Setting the run's state changes nothing else of a view.                   *)
LEMMA RunIs ==
  ASSUME NEW p \in View, NEW e \in {"idle", "running", "waiting", "failed"},
         NEW t \in 0..MaxTurns,
         NEW b \in BOOLEAN, NEW q, q = Run(p, e, t, b)
  PROVE  /\ q \in View /\ q.msgs = p.msgs /\ q.active = p.active /\ q.streamed = p.streamed
         /\ q.exec = e /\ q.run = t /\ q.reported = b
<1>1. q \in View
  BY DEF Run, View
<1> QED BY <1>1 DEF Run, View

(* Soundness does not depend on the run's state.                             *)
LEMMA BaseRun ==
  ASSUME NEW ts, NEW p, NEW n, NEW k, Base(ts, p, n, k), NEW q \in View, q.msgs = p.msgs,
         q.active = p.active
  PROVE  Base(ts, q, n, k)
BY DEF Base

(* A message that is there gets a part.                                        *)
Parting(part) == [NoPatch EXCEPT !.parts = {part}]

(* A part's patch brings the part and no status.                             *)
LEMMA PartingIs ==
  ASSUME NEW part \in Part
  PROVE  /\ Parting(part) \in Patch /\ Parting(part).parts = {part} /\ ~Parting(part).opens
         /\ Parting(part).status = "same" /\ \A status : StatusOf(Parting(part), status) = status
<1>1. Parting(part).parts = {part} /\ Parting(part).status = "same" /\ Parting(part).opens = FALSE
  BY DEF Parting, NoPatch
<1>2. {part} \in SUBSET Part
  OBVIOUS
<1>3. NoPatch \in [parts : SUBSET Part, opens : BOOLEAN, status : Statuses \cup {"same"}]
  BY DEF NoPatch
<1>4. Parting(part) \in Patch
  BY <1>2, <1>3 DEF Patch, Parting
<1> QED BY <1>1, <1>4 DEF StatusOf

(* A message that gets a divider's or a notice's part stays where it is and  *)
(* keeps its status.                                                         *)
LEMMA RowGrown ==
  ASSUME NEW ts, NEW p, NEW n, NEW k, Base(ts, p, n, k), NEW id, Present(p.msgs, id),
         NEW part \in Part,
         part[1] \in {"divider", "notice"}, NEW q, q = OnMessage(p, id, "reply", Parting(part))
  PROVE  /\ Base(ts, q, n, k) /\ SameRun(p, q) /\ q.active = p.active
         /\ Repaints(p.msgs, q.msgs, None, "none")
         /\ \A i \in DOMAIN p.msgs : q.msgs[i].parts \subseteq p.msgs[i].parts \cup {part}
<1> DEFINE patch == Parting(part)
<1>1. /\ p \in View /\ p.msgs \in Seq(Row) /\ (p.active # None => Present(p.msgs, p.active))
      /\ \A i \in DOMAIN p.msgs : IsHost(p.msgs[i].id) => Hosted(p.msgs[i].parts)
      /\ \A i \in DOMAIN p.msgs : p.msgs[i] \in Row
  BY Based
<1>2. patch \in Patch /\ patch.parts = {part} /\ ~patch.opens /\ patch.status = "same"
  BY PartingIs
<1>3. Hosted({part})
  BY DEF Hosted
<1>4. id \in Id
  <2>1. PICK i \in DOMAIN p.msgs : p.msgs[i].id = id
    BY DEF Present
  <2>2. p.msgs[i] \in Row
    BY <1>1
  <2> QED BY <2>1, <2>2, RowIs
<1> HIDE DEF patch
<1>s. Set(p, q, id, patch)
  <2>1. q = OnMessage(p, id, "reply", patch)
    BY DEF patch
  <2>2. \A i \in DOMAIN p.msgs : IsHost(p.msgs[i].id) => Hosted(p.msgs[i].parts)
    BY <1>1
  <2>3. p \in View /\ Hosted(patch.parts)
    BY <1>1, <1>2, <1>3
  <2> QED BY <1>2, <1>4, <2>1, <2>2, <2>3, OnRow
<1>5. /\ q \in View /\ SameRun(p, q) /\ q.active = p.active
      /\ \A st : patch.status = "same" => Repaints(p.msgs, q.msgs, None, st)
      /\ \A i \in DOMAIN p.msgs : q.msgs[i].parts \subseteq p.msgs[i].parts \cup patch.parts
  BY <1>s DEF Set
<1>6. Repaints(p.msgs, q.msgs, None, "none")
  BY <1>2, <1>5
<1>7. \A i \in DOMAIN p.msgs : p.msgs[i].id # None
  BY <1>1, RowIs
<1>8. Base(ts, q, n, k)
  BY <1>1, <1>5, <1>6, <1>7, BaseRow
<1> QED BY <1>2, <1>5, <1>6, <1>8

(* A message that is there gets a status, and becomes the one the run has open.  *)
Marking(status) == [NoPatch EXCEPT !.status = status]

(* A status's patch brings the status and no part.                           *)
LEMMA MarkingIs ==
  ASSUME NEW status \in Statuses
  PROVE  /\ Marking(status) \in Patch /\ Marking(status).parts = {} /\ ~Marking(status).opens
         /\ Marking(status).status = status /\ status # "same"
         /\ \A st : StatusOf(Marking(status), st) = status
<1>1. Marking(status).parts = {} /\ Marking(status).status = status /\ Marking(status).opens = FALSE
  BY DEF Marking, NoPatch
<1>2. status # "same"
  BY DEF Statuses
<1>3. NoPatch \in [parts : SUBSET Part, opens : BOOLEAN, status : Statuses \cup {"same"}]
  BY DEF NoPatch
<1>4. Marking(status) \in Patch
  BY <1>3 DEF Patch, Marking
<1> QED BY <1>1, <1>2, <1>4 DEF StatusOf

IsMarked(ts, p, q, n, k, id, status) ==
  /\ Base(ts, q, n, k) /\ SameRun(p, q) /\ q.active = id
  /\ Repaints(p.msgs, q.msgs, id, status)

(* A message that is marked gets the status, and is the one that is open.    *)
LEMMA RowMarked ==
  ASSUME NEW ts, NEW p, NEW n, NEW k, Base(ts, p, n, k), NEW id, Present(p.msgs, id),
         p.active \in {None, id}, NEW status \in Statuses,
         NEW q, q = [OnMessage(p, id, "reply", Marking(status)) EXCEPT !.active = id]
  PROVE  IsMarked(ts, p, q, n, k, id, status)
<1> DEFINE patch == Marking(status)
           d == OnMessage(p, id, "reply", patch)
<1>1. /\ p \in View /\ p.msgs \in Seq(Row)
      /\ \A i \in DOMAIN p.msgs : IsHost(p.msgs[i].id) => Hosted(p.msgs[i].parts)
      /\ \A i \in DOMAIN p.msgs : p.msgs[i] \in Row
  BY Based
<1>2. patch \in Patch /\ patch.parts = {} /\ ~patch.opens /\ patch.status = status /\ status # "same"
  BY MarkingIs
<1>3. Hosted({})
  BY DEF Hosted
<1>4. id \in Id
  <2>1. PICK i \in DOMAIN p.msgs : p.msgs[i].id = id
    BY DEF Present
  <2>2. p.msgs[i] \in Row
    BY <1>1
  <2> QED BY <2>1, <2>2, RowIs
<1> HIDE DEF patch
<1>5. /\ d \in View /\ SameRun(p, d) /\ d.active = p.active
      /\ patch.status # "same" => Repaints(p.msgs, d.msgs, id, patch.status)
  <2>1. \A i \in DOMAIN p.msgs : IsHost(p.msgs[i].id) => Hosted(p.msgs[i].parts)
    BY <1>1
  <2>2. p \in View /\ Hosted(patch.parts)
    BY <1>1, <1>2, <1>3
  <2>3. Set(p, d, id, patch)
    BY <1>2, <1>4, <2>1, <2>2, OnRow
  <2> QED BY <2>3 DEF Set
<1>6. q = [d EXCEPT !.active = id]
  BY DEF patch
<1> HIDE DEF d
<1>7. q \in View
  BY <1>4, <1>5, <1>6, Viewed
<1>8. q.active = id /\ q.msgs = d.msgs /\ SameRun(p, q)
  BY <1>5, <1>6 DEF View, SameRun
<1>9. Repaints(p.msgs, q.msgs, id, status)
  BY <1>2, <1>5, <1>8
<1>10. \A i \in DOMAIN p.msgs : p.msgs[i].id # None
  BY <1>1, RowIs
<1>11. \A i \in DOMAIN p.msgs : p.msgs[i].id # q.active =>
        IF p.msgs[i].id = id THEN Rests(ts, id, status) ELSE p.msgs[i].id # p.active
  BY <1>8, <1>10
<1>12. q.active # None => Present(p.msgs, q.active)
  BY <1>8
<1>13. Base(ts, q, n, k)
  BY <1>7, <1>9, <1>11, <1>12, BaseRow
<1>z. /\ Base(ts, q, n, k) /\ SameRun(p, q) /\ q.active = id
      /\ Repaints(p.msgs, q.msgs, id, status)
  BY <1>8, <1>9, <1>13
<1> QED BY <1>z DEF IsMarked


(* The run opens a turn of its own, which nothing was written into.             *)
Hosting(ts, p, n, k, t, patch) ==
  /\ Base(ts, p, n, k) /\ n \in Nat /\ t \in Nat /\ t > 0 /\ t <= n
  /\ ~Present(p.msgs, Host(t)) /\ p.active = None
  /\ patch \in Patch /\ ~patch.opens /\ Hosted(patch.parts)
  /\ p.exec # "running" /\ p.msgs # <<>>
       => EmptyHost(p) = None /\ (Last(p.msgs).id \in Strays \/ Last(p.msgs).role = "user")
HasHost(ts, p, q, n, k, t, patch) ==
  /\ Base(ts, q, n, k) /\ SameRun(p, q) /\ q.active = Host(t) /\ q.msgs # <<>>
  /\ Last(q.msgs).id = Host(t)
  /\ Last(q.msgs).status = StatusOf(patch, IF p.exec = "running" THEN "running" ELSE "none")
  /\ Adds(p.msgs, q.msgs, Host(t)) /\ Same(p.msgs, q.msgs, {Host(t)})
  /\ p.exec = "running" => q = OnMessage(p, Host(t), "reply", patch)

(* A host that is opened for a part or a status is the last message and      *)
(* open.                                                                     *)
LEMMA HostFresh ==
  ASSUME NEW ts, NEW p, NEW n, NEW k, NEW t, NEW patch, Hosting(ts, p, n, k, t, patch),
         NEW q, q = [OnMessage(p, Host(t), "reply", patch) EXCEPT !.active = Host(t)]
  PROVE  HasHost(ts, p, q, n, k, t, patch)
<1> DEFINE id == Host(t)
           d == OnMessage(p, id, "reply", patch)
<1>0. /\ Base(ts, p, n, k) /\ n \in Nat /\ t \in Nat /\ t <= n /\ ~Present(p.msgs, id) /\ p.active = None
      /\ patch \in Patch /\ ~patch.opens /\ Hosted(patch.parts) /\ t > 0
  BY DEF Hosting
<1>z. p.exec # "running" /\ p.msgs # <<>>
        => EmptyHost(p) = None /\ (Last(p.msgs).id \in Strays \/ Last(p.msgs).role = "user")
  BY DEF Hosting
<1>1. /\ p \in View /\ p.msgs \in Seq(Row)
      /\ \A i \in DOMAIN p.msgs : IsHost(p.msgs[i].id) => Hosted(p.msgs[i].parts)
      /\ \A i \in DOMAIN p.msgs : p.msgs[i].role = "user" <=> p.msgs[i].id[1] = "user"
  BY <1>0, Based
<1>l. p.msgs # <<>> => Len(p.msgs) \in DOMAIN p.msgs /\ Last(p.msgs) = p.msgs[Len(p.msgs)] /\ Last(p.msgs) \in Row
  BY <1>0, Based
<1>2. id \in Id /\ id[1] = "host" /\ id[2] = t /\ id # None /\ ~Stored(id) /\ id \notin Strays
  <2>1. id \in Id /\ id[1] = "host" /\ id[2] = t /\ id # None
    BY <1>0, Names
  <2>2. \A st \in Strays : st[2] = 0
    BY Names
  <2> QED BY <1>0, <2>1, <2>2 DEF Stored
<1> HIDE DEF id
<1>3. EmptyHost(p) = None
  <2>1. CASE p.exec = "running" \/ p.msgs = <<>>
    BY <1>0, <1>1, <2>1, EmptyHostIs
  <2>2. CASE ~(p.exec = "running" \/ p.msgs = <<>>)
    BY <1>z, <2>2
  <2> QED BY <2>1, <2>2
<1>4. Prior(p) = None
  BY <1>0 DEF Prior, Active
<1>5. Added(p, d, id, patch)
  BY <1>0, <1>1, <1>2, <1>3, OnFresh
<1>q. q = [d EXCEPT !.active = id]
  BY DEF id
<1> HIDE DEF d
<1>6. d \in View /\ SameRun(p, d) /\ d.active = (IF p.exec = "running" THEN id ELSE None)
  BY <1>0, <1>5 DEF Added
<1>7. q \in View
  BY <1>2, <1>6, <1>q, Viewed
<1>8. q.active = id /\ q.msgs = d.msgs /\ SameRun(p, q)
  BY <1>6, <1>q DEF View, SameRun
<1>9. p.exec = "running" => q = d
  BY <1>6, <1>q DEF View
<1>10. PICK s \in Seq(Row), x \in Row :
         /\ Repaints(p.msgs, s, Prior(p), "complete") /\ (Prior(p) = None => s = p.msgs)
         /\ x.id = id /\ x.role = "reply" /\ x.parts = patch.parts
         /\ x.status = StatusOf(patch, IF p.exec = "running" THEN "running" ELSE "none")
         /\ x.opens = (patch.opens \/ (/\ p.exec = "running" /\ Prior(p) = None
                                       /\ p.msgs # <<>> /\ Last(p.msgs).role = "reply"))
         /\ d.msgs = Append(s, x)
  BY <1>5 DEF Added
<1>11. /\ x.id = id /\ x.role = "reply" /\ x.parts = patch.parts /\ q.msgs = Append(p.msgs, x)
       /\ x.status = StatusOf(patch, IF p.exec = "running" THEN "running" ELSE "none")
       /\ Repaints(p.msgs, p.msgs, None, "complete")
  BY <1>4, <1>8, <1>10
<1>12. p.exec = "running" /\ p.msgs # <<>> /\ Last(p.msgs).role = "reply" => x.opens
  BY <1>4, <1>10
<1>13. Base(ts, q, n, k) /\ Ends(q.msgs, x) /\ Adds(p.msgs, q.msgs, x.id) /\ Same(p.msgs, q.msgs, {x.id, None})
  <2>1. ~Present(p.msgs, x.id) /\ (x.role = "user" <=> x.id[1] = "user") /\ x.id \notin Strays /\ ~Stored(x.id)
        /\ x.id[2] <= n /\ Hosted(x.parts)
    BY <1>0, <1>2, <1>11
  <2>2. p.msgs # <<>> /\ x.role = "reply" /\ Last(p.msgs).role = "reply" /\ ~x.opens
           => Last(p.msgs).id \in Strays \/ NextReply(Last(p.msgs).id, x.id)
    BY <1>z, <1>12
  <2>3. n <= n
    BY <1>0
  <2>4. Comes(ts, p, n, k, n, k, p.msgs, x)
    BY <1>0, <2>1, <2>2, <2>3 DEF Comes
  <2>5. Moved(ts, p, q, p.msgs, x, None)
    BY <1>0, <1>7, <1>8, <1>11 DEF Moved
  <2> QED BY <2>4, <2>5, BaseFresh
<1>14. Same(p.msgs, q.msgs, {id})
  <2>1. \A i \in DOMAIN q.msgs : q.msgs[i].id # None
    <3>1. q.msgs \in Seq(Row)
      BY <1>7, Viewed
    <3>2. \A i \in DOMAIN q.msgs : q.msgs[i] \in Row
      BY <3>1
    <3> QED BY <3>2, RowIs
  <2> QED BY <1>11, <1>13, <2>1 DEF Same
<1>y. /\ Base(ts, q, n, k) /\ SameRun(p, q) /\ q.active = Host(t) /\ q.msgs # <<>>
      /\ Last(q.msgs).id = Host(t)
      /\ Last(q.msgs).status = StatusOf(patch, IF p.exec = "running" THEN "running" ELSE "none")
      /\ Adds(p.msgs, q.msgs, Host(t)) /\ Same(p.msgs, q.msgs, {Host(t)})
      /\ p.exec = "running" => q = OnMessage(p, Host(t), "reply", patch)
  BY <1>8, <1>9, <1>11, <1>13, <1>14 DEF id, d, Ends
<1> QED BY <1>y DEF HasHost

(* Or it takes the place of a failure that came before any reply.              *)
HostingOver(ts, p, n, k, t, patch) ==
  /\ Base(ts, p, n, k) /\ n \in Nat /\ t \in Nat /\ t > 0 /\ t <= n
  /\ ~Present(p.msgs, Host(t)) /\ p.active = None
  /\ patch \in Patch /\ patch.parts = {} /\ patch.status # "same"
  /\ p.exec # "running" /\ p.msgs # <<>> /\ EmptyHost(p) = Last(p.msgs).id
  /\ \A id \in Replies(ts, n, k) : Stored(id)
TookHost(ts, p, q, n, k, t, patch) ==
  /\ Base(ts, q, n, k) /\ SameRun(p, q) /\ q.active = Host(t) /\ q.msgs # <<>>
  /\ Last(q.msgs).id = Host(t) /\ Last(q.msgs).status = patch.status
  /\ Same(p.msgs, q.msgs, {Host(t)})

(* A host that takes over the empty one at the end is the last message and open. *)
LEMMA HostOver ==
  ASSUME NEW ts, NEW p, NEW n, NEW k, NEW t, NEW patch, HostingOver(ts, p, n, k, t, patch),
         NEW q, q = [OnMessage(p, Host(t), "reply", patch) EXCEPT !.active = Host(t)]
  PROVE  TookHost(ts, p, q, n, k, t, patch)
<1> DEFINE id == Host(t)
           d == OnMessage(p, id, "reply", patch)
           h == Len(p.msgs)
<1>0. /\ Base(ts, p, n, k) /\ n \in Nat /\ t \in Nat /\ t > 0 /\ t <= n
      /\ ~Present(p.msgs, id) /\ p.active = None
      /\ patch \in Patch /\ patch.parts = {} /\ patch.status # "same"
      /\ p.exec # "running" /\ p.msgs # <<>> /\ EmptyHost(p) = Last(p.msgs).id
      /\ \A jd \in Replies(ts, n, k) : Stored(jd)
  BY DEF HostingOver
<1>1. /\ p \in View /\ p.msgs \in Seq(Row)
      /\ \A i \in DOMAIN p.msgs : IsHost(p.msgs[i].id) => Hosted(p.msgs[i].parts)
      /\ \A i, l \in DOMAIN p.msgs : p.msgs[i].id = p.msgs[l].id => i = l
      /\ \A i \in DOMAIN p.msgs : p.msgs[i].role = "user" <=> p.msgs[i].id[1] = "user"
  BY <1>0, Based
<1>l. h \in DOMAIN p.msgs /\ Last(p.msgs) = p.msgs[h] /\ p.msgs[h] \in Row
  BY <1>0, Based
<1>2. id \in Id /\ id # None /\ ~Stored(id)
  BY <1>0, Names DEF Stored
<1>3. p.msgs[h].id # None
  BY <1>l, RowIs
<1>4. IsHost(p.msgs[h].id)
  <2>1. ~IsHost(Last(p.msgs).id) => EmptyHost(p) = None
    BY <1>0, <1>1, EmptyHostIs
  <2> QED BY <1>0, <1>l, <1>3, <2>1
<1>q. q = [d EXCEPT !.active = id]
  OBVIOUS
<1> HIDE DEF id, h
<1>5. Replaced(p, d, h, id, patch)
  <2>1. EmptyHost(p) = p.msgs[h].id
    BY <1>0, <1>l
  <2>2. ~Present(p.msgs, id) /\ patch \in Patch /\ p.exec # "running"
    BY <1>0
  <2> HIDE DEF d
  <2>3. d = OnMessage(p, id, "reply", patch)
    BY DEF d
  <2> QED BY <1>1, <1>2, <1>l, <2>1, <2>2, <2>3, OnHost
<1> HIDE DEF d
<1>6. d \in View /\ SameRun(p, d)
  BY <1>5 DEF Replaced
<1>7. PICK x \in Row :
         /\ x.id = id /\ x.role = p.msgs[h].role /\ x.parts = p.msgs[h].parts \cup patch.parts
         /\ x.status = StatusOf(patch, IF p.exec = "running" THEN "running" ELSE p.msgs[h].status)
         /\ p.msgs[h].opens => x.opens
         /\ d.msgs = [p.msgs EXCEPT ![h] = x]
  BY <1>5 DEF Replaced
<1>8. /\ q \in View /\ SameRun(p, q) /\ q.active = id /\ q.msgs = d.msgs
  <2>1. q \in View
    BY <1>2, <1>6, <1>q, Viewed
  <2> QED BY <1>6, <1>q, <2>1 DEF View, SameRun
<1>9. x.role = "reply" /\ x.status = patch.status /\ Hosted(x.parts)
  <2>1. p.msgs[h].role # "user"
    BY <1>1, <1>l, <1>4 DEF IsHost
  <2>2. p.msgs[h].role = "reply"
    BY <1>l, <2>1, RowIs
  <2>3. Hosted(p.msgs[h].parts)
    BY <1>1, <1>l, <1>4
  <2>4. x.parts = p.msgs[h].parts
    BY <1>0, <1>7
  <2>5. x.status = patch.status
    BY <1>0, <1>7 DEF StatusOf
  <2> QED BY <1>7, <2>2, <2>3, <2>4, <2>5
<1>10. Takes(ts, p, n, k, k, p.msgs, x, t)
  <2>1. x.id = Host(t) /\ ~Present(p.msgs, x.id) /\ ~Stored(x.id)
    BY <1>0, <1>2, <1>7 DEF id
  <2>2. IsHost(Last(p.msgs).id) /\ (Last(p.msgs).opens => x.opens)
    BY <1>l, <1>4, <1>7
  <2> QED BY <1>0, <1>9, <2>1, <2>2 DEF Takes
<1>11. Taken(ts, p, q, x)
  BY <1>0, <1>7, <1>8 DEF Taken, h
<1>12. Base(ts, q, n, k) /\ Ends(q.msgs, x) /\ Same(p.msgs, q.msgs, {x.id})
  BY <1>10, <1>11, BaseHost
<1> QED BY <1>7, <1>8, <1>9, <1>12 DEF TookHost, Ends, id

(* Out of a run, a compaction or a notice stands on its own where no reply is    *)
(* before it.                                                                 *)
Standing(ts, p, n, k, t, id, part) ==
  /\ Base(ts, p, n, k) /\ n \in Nat /\ t \in Nat /\ t <= n /\ id \in {Divider(t), Notice}
  /\ ~Present(p.msgs, id) /\ p.active = None /\ p.exec # "running"
  /\ part \in Part /\ part[1] \in {"divider", "notice"}
  /\ p.msgs # <<>> => Last(p.msgs).role = "user"
  /\ id = Notice => \A i \in DOMAIN p.msgs : p.msgs[i].role = "user"
StandsOn(ts, p, q, n, k, t, id, part) ==
  /\ Base(ts, q, n, k) /\ SameRun(p, q) /\ q.active = None /\ q.msgs # <<>>
  /\ Last(q.msgs).id = id /\ Adds(p.msgs, q.msgs, id) /\ Same(p.msgs, q.msgs, {id})
  /\ id = Divider(t) /\ part[1] = "divider" /\ RestHosts(p.msgs) => RestHosts(q.msgs)

(* What stands on its own is put at the end and opens no run.                *)
LEMMA StandsAlone ==
  ASSUME NEW ts, NEW p, NEW n, NEW k, NEW t, NEW id, NEW part,
         Standing(ts, p, n, k, t, id, part),
         NEW q, q = OnMessage(p, id, "reply", Parting(part))
  PROVE  StandsOn(ts, p, q, n, k, t, id, part)
<1> DEFINE patch == Parting(part)
<1>0. /\ Base(ts, p, n, k) /\ n \in Nat /\ t \in Nat /\ t <= n /\ id \in {Divider(t), Notice}
      /\ ~Present(p.msgs, id) /\ p.active = None /\ p.exec # "running"
      /\ part \in Part /\ part[1] \in {"divider", "notice"}
      /\ p.msgs # <<>> => Last(p.msgs).role = "user"
      /\ id = Notice => \A i \in DOMAIN p.msgs : p.msgs[i].role = "user"
  BY DEF Standing
<1>1. /\ p \in View /\ p.msgs \in Seq(Row)
      /\ \A i \in DOMAIN p.msgs : IsHost(p.msgs[i].id) => Hosted(p.msgs[i].parts)
      /\ \A i \in DOMAIN p.msgs : p.msgs[i].role = "user" <=> p.msgs[i].id[1] = "user"
  BY <1>0, Based
<1>l. p.msgs # <<>> => Len(p.msgs) \in DOMAIN p.msgs /\ Last(p.msgs) = p.msgs[Len(p.msgs)] /\ Last(p.msgs) \in Row
  BY <1>0, Based
<1>2. id \in Id /\ id # None /\ id[1] \in {"divider", "notice"} /\ ~Stored(id) /\ id[2] \in Nat /\ id[2] <= n
  <2>1. CASE id = Divider(t)
    BY <1>0, <2>1, Names DEF Stored, Divider
  <2>2. CASE id = Notice
    BY <1>0, <2>2, Names DEF Stored
  <2> QED BY <1>0, <2>1, <2>2
<1>3. EmptyHost(p) = None
  <2>1. ASSUME p.msgs # <<>> PROVE ~IsHost(Last(p.msgs).id)
    BY <1>0, <1>1, <1>l, <2>1 DEF IsHost
  <2> QED BY <1>0, <1>1, <2>1, EmptyHostIs
<1>4. Prior(p) = None
  BY <1>0 DEF Prior
<1>5. patch \in Patch /\ patch.parts = {part} /\ ~patch.opens /\ \A status : StatusOf(patch, status) = status
  BY <1>0, PartingIs
<1>q. q = OnMessage(p, id, "reply", patch)
  OBVIOUS
<1> HIDE DEF patch
<1>6. Added(p, q, id, patch)
  BY <1>0, <1>1, <1>2, <1>3, <1>5, <1>q, OnFresh
<1>7. q \in View /\ SameRun(p, q) /\ q.active = None
  BY <1>0, <1>6 DEF Added
<1>8. PICK s \in Seq(Row), x \in Row :
         /\ Repaints(p.msgs, s, Prior(p), "complete") /\ (Prior(p) = None => s = p.msgs)
         /\ x.id = id /\ x.role = "reply" /\ x.parts = patch.parts
         /\ x.status = StatusOf(patch, IF p.exec = "running" THEN "running" ELSE "none")
         /\ x.opens = (patch.opens \/ (/\ p.exec = "running" /\ Prior(p) = None
                                       /\ p.msgs # <<>> /\ Last(p.msgs).role = "reply"))
         /\ q.msgs = Append(s, x)
  BY <1>6 DEF Added
<1>9. /\ x.id = id /\ x.role = "reply" /\ x.parts = {part} /\ q.msgs = Append(p.msgs, x)
      /\ x.status = "none" /\ Repaints(p.msgs, p.msgs, None, "complete")
  BY <1>0, <1>4, <1>5, <1>8
<1>10. Base(ts, q, n, k) /\ Ends(q.msgs, x) /\ Adds(p.msgs, q.msgs, x.id) /\ Same(p.msgs, q.msgs, {x.id, None})
  <2>1. ~Present(p.msgs, x.id) /\ (x.role = "user" <=> x.id[1] = "user") /\ ~Stored(x.id) /\ x.id[2] <= n
        /\ Hosted(x.parts)
    BY <1>0, <1>2, <1>9 DEF Hosted
  <2>2. ~(p.msgs # <<>> /\ Last(p.msgs).role = "reply")
    BY <1>0
  <2>3. n <= n
    BY <1>0
  <2>4. x.id \in Strays => \A i \in DOMAIN p.msgs : p.msgs[i].role = "user"
    <3>1. Divider(t)[1] = "divider" /\ \A st \in Strays : st[1] \in {"notice", "host"}
      BY <1>0, Names
    <3>2. Divider(t) \notin Strays
      BY <3>1
    <3> QED BY <1>0, <1>9, <3>2
  <2>5. Comes(ts, p, n, k, n, k, p.msgs, x)
    BY <1>0, <2>1, <2>2, <2>3, <2>4 DEF Comes
  <2>6. Rests(ts, x.id, x.status)
    BY <1>9 DEF Rests
  <2>7. Moved(ts, p, q, p.msgs, x, None)
    BY <1>0, <1>7, <1>9, <2>6 DEF Moved
  <2> QED BY <2>5, <2>7, BaseFresh
<1>11. DOMAIN q.msgs \subseteq Nat /\ \A i \in DOMAIN q.msgs : q.msgs[i] = x \/ (i \in DOMAIN p.msgs /\ q.msgs[i] = p.msgs[i])
  <2> DEFINE r == q.msgs
             v == p.msgs
  <2>1. v \in Seq(Row) /\ r = Append(v, x)
    BY <1>1, <1>9
  <2> HIDE DEF r, v
  <2>2. \A i \in DOMAIN v : i \in DOMAIN r /\ r[i] = v[i]
    BY <2>1, Appended
  <2>3. \A i \in DOMAIN r : i \in DOMAIN v \/ r[i] = x
    BY <2>1, Appended
  <2>4. DOMAIN r \subseteq Nat
    BY <2>1
  <2> QED BY <2>2, <2>3, <2>4 DEF r, v
<1>12. ASSUME id = Divider(t), part[1] = "divider", RestHosts(p.msgs) PROVE RestHosts(q.msgs)
  <2>1. x.id[1] = "divider" /\ x.status = "none" /\ \A y \in x.parts : y[1] = "divider"
    BY <1>0, <1>9, <1>12, Names DEF Divider
  <2> QED BY <1>11, <1>12, <2>1 DEF RestHosts
<1>13. Same(p.msgs, q.msgs, {id})
  <2>1. \A i \in DOMAIN q.msgs : q.msgs[i].id # None
    <3>1. q.msgs \in Seq(Row)
      BY <1>7, Viewed
    <3>2. \A i \in DOMAIN q.msgs : q.msgs[i] \in Row
      BY <3>1
    <3> QED BY <3>2, RowIs
  <2> QED BY <1>9, <1>10, <2>1 DEF Same
<1>z. /\ Base(ts, q, n, k) /\ SameRun(p, q) /\ q.active = None /\ q.msgs # <<>>
      /\ Last(q.msgs).id = id /\ Adds(p.msgs, q.msgs, id) /\ Same(p.msgs, q.msgs, {id})
      /\ id = Divider(t) /\ part[1] = "divider" /\ RestHosts(p.msgs) => RestHosts(q.msgs)
  BY <1>7, <1>9, <1>10, <1>12, <1>13 DEF Ends
<1> QED BY <1>z DEF StandsOn

(* A prompt comes.                                                            *)
Asked(ts, p, n, k, q) ==
  /\ Base(ts, q, n, k) /\ SameRun(p, q) /\ q.active = p.active /\ q.msgs # <<>> /\ q.msgs # p.msgs
  /\ Last(q.msgs).id = User(n) /\ Last(q.msgs).role = "user" /\ Adds(p.msgs, q.msgs, User(n))
  /\ Same(p.msgs, q.msgs, {User(n)}) /\ (RestHosts(p.msgs) => RestHosts(q.msgs))

(* A view stays sound when the prompt of its last turn is shown.             *)
LEMMA BaseUser ==
  ASSUME NEW ts, NEW p, NEW n \in Nat, NEW k, Base(ts, p, n, k), ~Present(p.msgs, User(n)),
         NEW q, q = OnMessage(p, User(n), "user", NoPatch)
  PROVE  Asked(ts, p, n, k, q)
<1> DEFINE id == User(n)
<1>1. /\ p \in View /\ p.msgs \in Seq(Row) /\ (p.active # None => Present(p.msgs, p.active))
  BY Based
<1>2. id \in Id /\ id[1] = "user" /\ id[2] = n /\ id # None /\ ~Stored(id) /\ ~IsHost(id) /\ id \notin Strays
  BY Names DEF Stored, IsHost
<1>p. Prompted(p, q, User(n))
  BY <1>1, OnUser
<1>3. /\ q \in View /\ SameRun(p, q) /\ q.active = p.active
      /\ \E x \in Row : /\ x.id = User(n) /\ x.role = "user" /\ x.status = "none" /\ ~x.opens
                        /\ x.parts = {} /\ q.msgs = Append(p.msgs, x)
  BY <1>p DEF Prompted
<1>4. PICK x \in Row : /\ x.id = id /\ x.role = "user" /\ x.status = "none" /\ ~x.opens
                       /\ x.parts = {} /\ q.msgs = Append(p.msgs, x)
  BY <1>3
<1>n. ~Present(p.msgs, id)
  OBVIOUS
<1> HIDE DEF id
<1>r. \A i \in DOMAIN p.msgs : p.msgs[i].id # None
  <2>1. \A i \in DOMAIN p.msgs : p.msgs[i] \in Row
    BY <1>1
  <2> QED BY <2>1, RowIs
<1>5. Base(ts, q, n, k) /\ Ends(q.msgs, x) /\ Adds(p.msgs, q.msgs, x.id) /\ Same(p.msgs, q.msgs, {x.id, None})
  <2>1. ~Present(p.msgs, x.id) /\ (x.role = "user" <=> x.id[1] = "user") /\ ~Stored(x.id) /\ x.id[2] <= n
        /\ ~IsHost(x.id) /\ x.id \notin Strays /\ x.role # "reply"
    BY <1>2, <1>4, <1>n
  <2>2. Comes(ts, p, n, k, n, k, p.msgs, x)
    BY <2>1 DEF Comes
  <2>3. Rests(ts, x.id, x.status)
    BY <1>4 DEF Rests
  <2>4. Repaints(p.msgs, p.msgs, None, "complete")
    <3>1. \A i \in DOMAIN p.msgs : IsHost(p.msgs[i].id) => Hosted(p.msgs[i].parts)
      BY Based
    <3> QED BY <1>1, <1>r, <3>1 DEF Repaints
  <2>5. Moved(ts, p, q, p.msgs, x, None)
    BY <1>1, <1>3, <1>4, <2>3, <2>4 DEF Moved
  <2> QED BY <2>2, <2>5, BaseFresh
<1>6. \A i \in DOMAIN q.msgs : q.msgs[i] = x \/ (i \in DOMAIN p.msgs /\ q.msgs[i] = p.msgs[i])
  <2> DEFINE r == q.msgs
             v == p.msgs
  <2>1. v \in Seq(Row) /\ r = Append(v, x)
    BY <1>1, <1>4
  <2> HIDE DEF r, v
  <2>2. \A i \in DOMAIN v : i \in DOMAIN r /\ r[i] = v[i]
    BY <2>1, Appended
  <2>3. \A i \in DOMAIN r : i \in DOMAIN v \/ r[i] = x
    BY <2>1, Appended
  <2> QED BY <2>2, <2>3 DEF r, v
<1>7. RestHosts(p.msgs) => RestHosts(q.msgs)
  <2>1. ~IsHost(x.id)
    BY <1>2, <1>4
  <2> QED BY <1>6, <2>1 DEF RestHosts
<1>8. q.msgs # p.msgs
  <2>1. Present(q.msgs, id)
    BY <1>4, <1>5 DEF Adds
  <2> QED BY <1>n, <2>1
<1>9. Same(p.msgs, q.msgs, {id})
  <2>1. \A i \in DOMAIN q.msgs : q.msgs[i].id # None
    BY <1>2, <1>4, <1>6, <1>r
  <2> QED BY <1>4, <1>5, <2>1 DEF Same
<1>10. Last(q.msgs) = x
  BY <1>5 DEF Ends
<1>11. q.msgs # <<>>
  BY <1>5 DEF Ends
<1>12. Last(q.msgs).id = id /\ Last(q.msgs).role = "user" /\ Adds(p.msgs, q.msgs, id) /\ Base(ts, q, n, k)
  BY <1>4, <1>5, <1>10
<1> QED BY <1>3, <1>7, <1>8, <1>9, <1>11, <1>12 DEF Asked, id

-----------------------------------------------------------------------------
(* The Session's turns.                                                       *)

LEMMA SessionIs ==
  ASSUME NEW ts, SessionOK(ts)
  PROVE  /\ ts \in Seq(Turn) /\ Len(ts) \in Nat /\ Len(ts) <= MaxTurns /\ DOMAIN ts = 1..Len(ts)
         /\ \A t \in 1..Len(ts) :
              /\ ts[t] \in Turn /\ ts[t].own \in BOOLEAN /\ ts[t].reported \in BOOLEAN
              /\ ts[t].phase \in {"asked", "running", "waiting", "ended"}
              /\ ts[t].how \in {"complete", "stopped", "failed"}
              /\ ts[t].wrote \in 0..MaxReplies /\ ts[t].wrote \in Nat
              /\ ts[t].compacted \in 0..MaxReplies + 1
         /\ Counted(ts, Len(ts)) /\ Written(ts) \in Nat /\ (ts # <<>> <=> Len(ts) > 0)
         /\ OwnOf(ts) \in BOOLEAN /\ ReportedOf(ts) \in BOOLEAN
<1>1. ts \in Seq(Turn) /\ Len(ts) \in Nat /\ Len(ts) <= MaxTurns /\ DOMAIN ts = 1..Len(ts)
  BY DEF SessionOK
<1>2. ASSUME NEW t \in 1..Len(ts)
      PROVE  /\ ts[t] \in Turn /\ ts[t].own \in BOOLEAN /\ ts[t].reported \in BOOLEAN
             /\ ts[t].phase \in {"asked", "running", "waiting", "ended"}
             /\ ts[t].how \in {"complete", "stopped", "failed"}
             /\ ts[t].wrote \in 0..MaxReplies /\ ts[t].compacted \in 0..MaxReplies + 1
  <2>1. ts[t] \in Turn
    BY <1>1
  <2> QED BY <2>1 DEF Turn
<1>3. \A t \in 1..Len(ts) : ts[t].wrote \in Nat
  BY <1>2, TurnAssumption
<1>4. ts # <<>> <=> Len(ts) > 0
  BY <1>1
<1>5. Counted(ts, Len(ts))
  BY <1>1, <1>3 DEF Counted
<1>6. Written(ts) \in Nat
  BY <1>1, <1>3, <1>4 DEF Written
<1>7. OwnOf(ts) \in BOOLEAN /\ ReportedOf(ts) \in BOOLEAN
  BY DEF OwnOf, ReportedOf
<1> QED BY <1>1, <1>2, <1>3, <1>4, <1>5, <1>6, <1>7

(* The last turn is another, or there is one more.                            *)
Turned(ts, us, turn) ==
  /\ us \in Seq(Turn) /\ Len(us) = Len(ts) /\ Len(ts) > 0 /\ us[Len(ts)] = turn
  /\ \A t \in 1..Len(ts) : t # Len(ts) => us[t] = ts[t]
Lengthened(ts, us, turn) ==
  /\ us \in Seq(Turn) /\ Len(us) = Len(ts) + 1 /\ us[Len(ts) + 1] = turn
  /\ \A t \in 1..Len(ts) : us[t] = ts[t]

(* The last turn of the Session is replaced, and no other changes.           *)
LEMMA TurnedIs ==
  ASSUME NEW ts, SessionOK(ts), ts # <<>>, NEW turn \in Turn, NEW us,
         us = [ts EXCEPT ![Len(ts)] = turn]
  PROVE  Turned(ts, us, turn)
<1>1. ts \in Seq(Turn) /\ Len(ts) \in Nat /\ Len(ts) > 0
  BY SessionIs
<1> QED BY <1>1 DEF Turned

(* A turn is added to the Session, and no other changes.                     *)
LEMMA AddedIs ==
  ASSUME NEW ts, SessionOK(ts), NEW turn \in Turn, NEW us, us = Append(ts, turn)
  PROVE  Lengthened(ts, us, turn)
<1>1. ts \in Seq(Turn) /\ Len(ts) \in Nat
  BY SessionIs
<1>2. us \in Seq(Turn) /\ Len(us) = Len(ts) + 1 /\ us[Len(ts) + 1] = turn
      /\ \A t \in 1..Len(ts) : us[t] = ts[t]
  BY <1>1
<1> QED BY <1>2 DEF Lengthened

(* A view shows as before while the Session goes on.                           *)
LEMMA BaseTurned ==
  ASSUME NEW ts, SessionOK(ts), NEW p, NEW k \in Nat, Base(ts, p, Len(ts), k), NEW us,
         NEW turn, Turned(ts, us, turn),
         turn.how = ts[Len(ts)].how \/ ts[Len(ts)].how = "complete"
  PROVE  Base(us, p, Len(us), k) /\ Len(us) = Len(ts)
<1> DEFINE n == Len(ts)
<1>1. n \in Nat /\ \A t \in 1..n : ts[t].wrote \in Nat
  BY SessionIs
<1>2. Len(us) = n /\ n > 0 /\ us[n] = turn /\ \A t \in 1..n : t # n => us[t] = ts[t]
  BY DEF Turned
<1>3. Replies(us, n, k) = Replies(ts, n, k)
  <2>1. \A t \in 1..n : WroteIn(us, n, k, t) = WroteIn(ts, n, k, t)
    BY <1>2 DEF WroteIn
  <2> QED BY <2>1 DEF Replies
<1>4. \A id \in Replies(ts, n, k) : id[2] \in 1..n
  BY <1>1, RepliesAre
<1>5. \A t \in 1..n : us[t].how = ts[t].how \/ ts[t].how = "complete"
  BY <1>2
<1> HIDE DEF n
<1>6. Base(ts, p, n, k) /\ n <= n
  BY <1>1 DEF n
<1>7. Base(us, p, n, k)
  BY <1>1, <1>3, <1>4, <1>5, <1>6, BaseMoves
<1> QED BY <1>2, <1>7 DEF n

(* A view stays sound when a turn is added that wrote nothing yet.           *)
LEMMA BaseAdded ==
  ASSUME NEW ts, SessionOK(ts), NEW p, Base(ts, p, Len(ts), Written(ts)), NEW us, NEW turn,
         Lengthened(ts, us, turn)
  PROVE  Base(us, p, Len(us), 0) /\ Len(us) = Len(ts) + 1
<1> DEFINE n == Len(ts)
           m == n + 1
           k == Written(ts)
<1>1. n \in Nat /\ m \in Nat /\ k \in Nat /\ \A t \in 1..n : ts[t].wrote \in Nat
  BY SessionIs
<1>2. Len(us) = m /\ \A t \in 1..n : us[t] = ts[t]
  BY DEF Lengthened
<1>3. n > 0 => ts[n].wrote = k
  <2>1. ts # <<>> <=> n > 0
    BY SessionIs
  <2> QED BY <2>1 DEF Written
<1>4. Replies(us, m, 0) = Replies(ts, n, k)
  <2>1. \A t \in 1..n : t # m /\ WroteIn(us, m, 0, t) = WroteIn(ts, n, k, t)
    BY <1>1, <1>2, <1>3 DEF WroteIn
  <2>2. WroteIn(us, m, 0, m) = 0
    BY DEF WroteIn
  <2>3. 1..m = 1..n \cup {m}
    BY <1>1
  <2> DEFINE R(t) == {Reply(t, j) : j \in 1..WroteIn(us, m, 0, t)}
             Q(t) == {Reply(t, j) : j \in 1..WroteIn(ts, n, k, t)}
  <2>4. \A t \in 1..n : R(t) = Q(t)
    BY <2>1
  <2>5. R(m) = {}
    BY <2>2
  <2> HIDE DEF R, Q, m
  <2>6. UNION {R(t) : t \in 1..m} = UNION {Q(t) : t \in 1..n}
    BY <2>3, <2>4, <2>5
  <2> QED BY <2>6 DEF Replies, R, Q
<1>5. \A id \in Replies(ts, n, k) : id[2] \in 1..n
  BY <1>1, RepliesAre
<1>6. \A t \in 1..n : us[t].how = ts[t].how \/ ts[t].how = "complete"
  BY <1>2
<1>7. n <= m
  BY <1>1
<1> HIDE DEF n, m, k
<1>8. Base(ts, p, n, k)
  BY DEF n, k
<1> DEFINE z == 0
<1>z. Replies(us, m, z) = Replies(ts, n, k)
  BY <1>4
<1> HIDE DEF z
<1>9. Base(us, p, m, z)
  BY <1>1, <1>5, <1>6, <1>7, <1>8, <1>z, BaseMoves
<1> QED BY <1>2, <1>9 DEF m, n, z

-----------------------------------------------------------------------------
(* The updates.                                                               *)

From(u, from) == [u EXCEPT !.from = from]

(* What the fields of an update are.                                         *)
LEMMA UpdateIs ==
  ASSUME NEW kind, NEW t, NEW from
  PROVE  /\ Update(kind, t).kind = kind /\ Update(kind, t).turn = t /\ Update(kind, t).from = t
         /\ From(Update(kind, t), from).kind = kind /\ From(Update(kind, t), from).turn = t
         /\ From(Update(kind, t), from).from = from
BY DEF Update, From

(* What the fields of a reply's update are.                                  *)
LEMMA SaidIs ==
  ASSUME NEW id, NEW opens, NEW from
  PROVE  /\ Said(id, opens, from).kind = "said" /\ Said(id, opens, from).id = id
         /\ Said(id, opens, from).opens = opens /\ Said(id, opens, from).from = from
BY DEF Said

(* What an update does, kind by kind.                                        *)
LEMMA KindIs ==
  ASSUME NEW p, NEW u
  PROVE  /\ u.kind = "asked" => Kind(p, u) = OnMessage(p, User(u.turn), "user", NoPatch)
         /\ u.kind = "said" => Kind(p, u) = OnMessage(p, u.id, "reply", Telling(u.opens))
         /\ u.kind = "compaction" => Kind(p, u) = ApplyCompaction(p, u.turn)
         /\ u.kind = "notice" => Kind(p, u) = ApplyNotice(p)
         /\ u.kind = "answered" => Kind(p, u) = ResumeWait(p)
         /\ u.kind = "running" => Kind(p, u) = ApplyRunning(p, u.turn, TRUE)
         /\ u.kind = "restated" => Kind(p, u) = ApplyRunning(p, u.turn, FALSE)
         /\ u.kind = "failing" => Kind(p, u) = ApplyRunningFailure(p, u.turn)
         /\ u.kind = "waiting" => Kind(p, u) = ApplyWait(p, u.turn)
         /\ u.kind \in {"complete", "stopped", "failed"} => Kind(p, u) = ApplyIdle(p, u.turn, u.kind)
BY DEF Kind, Telling

(* An update may note the turn it streamed; that is all it adds.                *)
Steady(q, r) ==
  /\ r \in View /\ r.msgs = q.msgs /\ r.active = q.active
  /\ r.exec = q.exec /\ r.run = q.run /\ r.reported = q.reported

(* What is noted of the turn that was streamed.                              *)
LEMMA NotedIs ==
  ASSUME NEW p, NEW u, NEW q \in View, u.from \in 0..MaxTurns, NEW r, r = Noted(p, q, u)
  PROVE  /\ Steady(q, r)
         /\ u.kind \in States => r.streamed = 0
         /\ u.kind \notin States /\ (q.msgs = p.msgs \/ Ongoing(q) \/ u.from = 0) => r.streamed = q.streamed
         /\ u.kind \notin States /\ ~(q.msgs = p.msgs \/ Ongoing(q) \/ u.from = 0) => r.streamed = u.from
<1>0. 0 \in 0..MaxTurns
  BY TurnAssumption
<1>1. CASE u.kind \in States
  <2>1. r = [q EXCEPT !.streamed = 0]
    BY <1>1 DEF Noted
  <2>2. r \in View
    BY <1>0, <2>1 DEF View
  <2> QED BY <1>1, <2>1, <2>2 DEF View, Steady
<1>2. CASE u.kind \notin States /\ (q.msgs = p.msgs \/ Ongoing(q) \/ u.from = 0)
  <2>1. r = q
    BY <1>2 DEF Noted
  <2> QED BY <1>2, <2>1 DEF Steady
<1>3. CASE u.kind \notin States /\ ~(q.msgs = p.msgs \/ Ongoing(q) \/ u.from = 0)
  <2>1. r = [q EXCEPT !.streamed = u.from]
    BY <1>3 DEF Noted
  <2>2. r \in View
    BY <2>1 DEF View
  <2> QED BY <1>3, <2>1, <2>2 DEF View, Steady
<1> QED BY <1>1, <1>2, <1>3

(* Soundness does not depend on the turn that was streamed.                  *)
LEMMA BaseSteady ==
  ASSUME NEW ts, NEW p, NEW n, NEW k, Base(ts, p, n, k), NEW q, Steady(p, q)
  PROVE  Base(ts, q, n, k)
BY BaseRun DEF Steady

(* What repainting leaves as it was.                                          *)
LEMMA RepaintsSame ==
  ASSUME NEW s \in Seq(Row), NEW r, NEW id, NEW status, Repaints(s, r, id, status)
  PROVE  Same(s, r, {id})
<1>1. DOMAIN r = DOMAIN s
  BY Repainted
<1> QED BY <1>1 DEF Repaints, Same

(* The view that watched knows how the turns before the last ended, and the last *)
(* one's end is in no message it was not told to change.                      *)
LEMMA EndsKept ==
  ASSUME NEW ts, NEW us, NEW p, NEW q, NEW ids, NEW n, EndsKnown(ts, p),
         Same(p.msgs, q.msgs, ids),
         \A id \in ids : Stored(id) => us[id[2]].phase # "ended",
         \A i \in DOMAIN p.msgs : Stored(p.msgs[i].id) => p.msgs[i].id[2] \in 1..n,
         \A t \in 1..n : us[t].phase = "ended" => us[t] = ts[t]
  PROVE  EndsKnown(us, q)
<1> SUFFICES ASSUME NEW i \in DOMAIN q.msgs, Stored(q.msgs[i].id),
           us[q.msgs[i].id[2]].phase = "ended",
                    q.msgs[i].id[3] = us[q.msgs[i].id[2]].wrote
             PROVE  q.msgs[i].status \in {"laid", us[q.msgs[i].id[2]].how}
  BY DEF EndsKnown
<1>1. q.msgs[i].id \notin ids
  OBVIOUS
<1>2. PICK j \in DOMAIN p.msgs : p.msgs[j].id = q.msgs[i].id /\ p.msgs[j].status = q.msgs[i].status
  BY <1>1 DEF Same
<1>3. us[q.msgs[i].id[2]] = ts[q.msgs[i].id[2]]
  BY <1>2
<1> QED BY <1>2, <1>3 DEF EndsKnown

-----------------------------------------------------------------------------
(* A view that is told of what the Session does.                               *)

LEMMA LastIs ==
  ASSUME NEW ts, SessionOK(ts), NEW us, NEW turn \in Turn,
         Turned(ts, us, turn) \/ Lengthened(ts, us, turn)
  PROVE  /\ PhaseOf(us) = turn.phase /\ Written(us) = turn.wrote /\ (OwnOf(us) <=> turn.own)
         /\ (ReportedOf(us) <=> turn.reported) /\ us # <<>> /\ us[Len(us)] = turn
         /\ Len(us) \in Nat /\ Len(us) > 0
<1>1. Len(ts) \in Nat
  BY SessionIs
<1>2. us \in Seq(Turn) /\ Len(us) > 0 /\ Len(us) \in Nat /\ us[Len(us)] = turn
  BY <1>1 DEF Turned, Lengthened
<1>3. us # <<>>
  BY <1>2
<1> QED BY <1>2, <1>3 DEF PhaseOf, Written, OwnOf, ReportedOf

(* What a view that is told tells its readers, spelled out.                  *)
LEMMA ToldIs ==
  ASSUME NEW ts, SessionOK(ts), NEW p, Told(ts, p)
  PROVE  /\ Base(ts, p, Len(ts), Written(ts)) /\ p \in View /\ p.msgs \in Seq(Row)
         /\ Shows(p, Len(ts), PhaseOf(ts), Written(ts), OwnOf(ts), ReportedOf(ts))
         /\ p.active # None => Present(p.msgs, p.active)
         /\ Active(p) = p.active /\ \A id : Has(p, id) <=> Present(p.msgs, id)
         /\ \A i \in DOMAIN p.msgs : p.msgs[i] \in Row
         /\ \A i \in DOMAIN p.msgs : Stored(p.msgs[i].id) => p.msgs[i].id[2] \in 1..Len(ts)
         /\ \A i \in DOMAIN p.msgs : p.msgs[i].id[1] \in {"user", "host", "divider"} => p.msgs[i].id[2] <= Len(ts)
<1> DEFINE n == Len(ts)
           k == Written(ts)
<1>1. Base(ts, p, n, k) /\ Shows(p, n, PhaseOf(ts), k, OwnOf(ts), ReportedOf(ts))
  BY DEF Told
<1>2. n \in Nat /\ k \in Nat /\ \A t \in 1..n : ts[t].wrote \in Nat
  BY SessionIs
<1> HIDE DEF n, k
<1>3. /\ p \in View /\ p.msgs \in Seq(Row) /\ (p.active # None => Present(p.msgs, p.active))
      /\ \A i \in DOMAIN p.msgs : p.msgs[i] \in Row
      /\ \A i \in DOMAIN p.msgs : Stored(p.msgs[i].id) => p.msgs[i].id \in Replies(ts, n, k)
  BY <1>1, Based
<1>4. \A id \in Replies(ts, n, k) : id[2] \in 1..n
  BY <1>2, RepliesAre
<1>5. \A i \in DOMAIN p.msgs : p.msgs[i].id[1] \in {"user", "host", "divider"} => p.msgs[i].id[2] <= n
  BY <1>1 DEF Base, RowsOK
<1>6. Active(p) = p.active /\ \A id : Has(p, id) <=> Present(p.msgs, id)
  BY <1>3, Activity
<1> QED BY <1>1, <1>3, <1>4, <1>5, <1>6 DEF n, k

(* Nothing of a turn that is to come is there.                                 *)
LEMMA Unknown ==
  ASSUME NEW ts, SessionOK(ts), NEW p, Told(ts, p), NEW m \in Nat, Len(ts) < m
  PROVE  ~Present(p.msgs, User(m)) /\ ~Present(p.msgs, Host(m)) /\ ~Present(p.msgs, Divider(m))
<1>1. Len(ts) \in Nat
  BY SessionIs
<1>2. \A i \in DOMAIN p.msgs : p.msgs[i].id[1] \in {"user", "host", "divider"} => p.msgs[i].id[2] <= Len(ts)
  BY ToldIs
<1>3. /\ User(m)[1] = "user" /\ Host(m)[1] = "host" /\ User(m)[2] = m /\ Host(m)[2] = m
      /\ Divider(m)[1] = "divider" /\ Divider(m)[2] = m
  BY Names DEF Divider
<1> QED BY <1>1, <1>2, <1>3 DEF Present

(* A prompt: both views show it, and keep the ends they watched.             *)
LEMMA ToldAsk ==
  ASSUME NEW ts, SessionOK(ts), NEW p, Told(ts, p),
         PhaseOf(ts) \notin {"running", "waiting"},
         NEW us, SessionOK(us), Lengthened(ts, us, NewTurn(FALSE, "asked")),
         NEW q, q = Apply(p, Update("asked", Len(us)))
  PROVE  Told(us, q) /\ (Watched(ts, p) => Watched(us, q))
<1> DEFINE m == Len(us)
           u == Update("asked", m)
           d == OnMessage(p, User(m), "user", NoPatch)
<1>1. Len(ts) \in Nat /\ m \in Nat /\ m > 0 /\ m = Len(ts) + 1 /\ m \in 0..MaxTurns
      /\ Base(us, p, m, 0) /\ \A t \in 1..Len(ts) : us[t] = ts[t]
  <2>1. Len(ts) \in Nat /\ m \in Nat /\ m <= MaxTurns /\ Base(ts, p, Len(ts), Written(ts))
    BY SessionIs, ToldIs
  <2>2. Base(us, p, m, 0) /\ m = Len(ts) + 1
    BY <2>1, BaseAdded
  <2> QED BY <2>1, <2>2, TurnAssumption DEF Lengthened
<1>2. PhaseOf(us) = "asked" /\ Written(us) = 0 /\ us[m].phase = "asked"
  <2>1. NewTurn(FALSE, "asked") \in Turn
    BY TurnAssumption DEF NewTurn, Turn, NoCompaction
  <2>2. NewTurn(FALSE, "asked").phase = "asked" /\ NewTurn(FALSE, "asked").wrote = 0
    BY DEF NewTurn
  <2>3. PhaseOf(us) = NewTurn(FALSE, "asked").phase /\ Written(us) = NewTurn(FALSE, "asked").wrote
        /\ us[m] = NewTurn(FALSE, "asked")
    BY <2>1, LastIs
  <2> QED BY <2>2, <2>3
<1>3. ~Ongoing(p) /\ ~p.reported /\ p.active = None
  BY ToldIs DEF Shows, Holds
<1>4. ~Present(p.msgs, User(m)) /\ ~Present(p.msgs, Host(m))
  BY <1>1, Unknown
<1> HIDE DEF m
<1>5. /\ Base(us, d, m, 0) /\ SameRun(p, d) /\ d.active = p.active /\ d.msgs # <<>> /\ d.msgs # p.msgs
      /\ Last(d.msgs).id = User(m) /\ Same(p.msgs, d.msgs, {User(m)}) /\ Adds(p.msgs, d.msgs, User(m))
  <2> DEFINE z == 0
  <2>1. Base(us, p, m, z)
    BY <1>1
  <2> HIDE DEF z, d
  <2>2. d = OnMessage(p, User(m), "user", NoPatch)
    BY DEF d
  <2>3. Asked(us, p, m, z, d)
    BY <1>1, <1>4, <2>1, <2>2, BaseUser
  <2> QED BY <2>3 DEF Asked, z
<1>6. u.kind = "asked" /\ u.turn = m /\ u.from = m
  BY UpdateIs
<1>7. Kind(p, u) = d
  <2> HIDE DEF u
  <2> QED BY <1>6, KindIs
<1>8. q = Noted(p, d, u)
  BY <1>7 DEF Apply, m
<1> HIDE DEF u, d
<1>9. Steady(d, q) /\ q.streamed = m
  <2>1. d \in View /\ u.kind \notin States /\ u.from \in 0..MaxTurns
    BY <1>1, <1>5, <1>6 DEF Base, States
  <2>2. Steady(d, q)
    BY <1>8, <2>1, NotedIs
  <2>3. ~(d.msgs = p.msgs \/ Ongoing(d) \/ u.from = 0)
    BY <1>1, <1>3, <1>5, <1>6 DEF Ongoing, SameRun
  <2>4. q.streamed = u.from
    BY <1>8, <2>1, <2>3, NotedIs
  <2> QED BY <1>6, <2>2, <2>4
<1>10. Base(us, q, m, 0)
  BY <1>5, <1>9, BaseSteady
<1>11. Shows(q, m, "asked", 0, OwnOf(us), ReportedOf(us))
  <2>1. ~Present(q.msgs, Host(m))
    <3>1. Host(m) # User(m) /\ q.msgs = d.msgs
      BY <1>9 DEF Host, User, Steady
    <3> QED BY <1>4, <1>5, <3>1 DEF Adds
  <2>2. Holds(q, m, "asked", 0, OwnOf(us), ReportedOf(us))
    BY <1>3, <1>5, <1>9, <2>1 DEF Holds, Steady, SameRun, Ongoing
  <2> QED BY <1>9, <2>2 DEF Shows
<1>12. Told(us, q)
  BY <1>2, <1>10, <1>11 DEF Told, m
<1>13. ASSUME Watched(ts, p) PROVE Watched(us, q)
  <2>1. EndsKnown(ts, p)
    BY <1>13 DEF Watched
  <2>2. ~Stored(User(m))
    BY <1>1, Names DEF Stored
  <2> DEFINE ids == {User(m)}
             n == Len(ts)
  <2>3. Same(p.msgs, q.msgs, ids)
    BY <1>5, <1>9 DEF Steady
  <2>4. \A id \in ids : Stored(id) => us[id[2]].phase # "ended"
    BY <2>2
  <2>5. \A i \in DOMAIN p.msgs : Stored(p.msgs[i].id) => p.msgs[i].id[2] \in 1..n
    BY ToldIs
  <2>6. \A t \in 1..n : us[t].phase = "ended" => us[t] = ts[t]
    BY <1>1
  <2> HIDE DEF ids, n
  <2>7. EndsKnown(us, q)
    BY <2>1, <2>3, <2>4, <2>5, <2>6, EndsKept
  <2> QED BY <1>2, <2>7 DEF Watched
<1> QED BY <1>12, <1>13

(* What a view shows of the Session as it is now, an update having been applied. *)
Goes(ts, us, p, d, u) ==
  /\ SessionOK(ts) /\ Told(ts, p) /\ SessionOK(us) /\ u.from \in 0..MaxTurns
  /\ Base(us, d, Len(us), Written(us))
  /\ Holds(d, Len(us), PhaseOf(us), Written(us), OwnOf(us), ReportedOf(us))
  /\ \/ u.kind \in States
     \/ /\ u.kind \notin States /\ (Ongoing(d) \/ u.from = 0)
        /\ d.streamed # 0 => PhaseOf(us) = "asked" /\ d.streamed = Len(us)
  /\ Watched(ts, p) => Watched(us, d)
Keeps(ts, us, p, q) == Told(us, q) /\ (Watched(ts, p) => Watched(us, q))

(* Noting the turn that streamed changes nothing a view shows.                 *)
LEMMA Onward ==
  ASSUME NEW ts, NEW us, NEW p, NEW d, NEW u, Goes(ts, us, p, d, u), NEW q,
         q = Noted(p, d, u)
  PROVE  Keeps(ts, us, p, q)
<1> DEFINE n == Len(us)
           k == Written(us)
           phase == PhaseOf(us)
<1>1. /\ u.from \in 0..MaxTurns /\ Base(us, d, n, k) /\ (Watched(ts, p) => Watched(us, d))
      /\ Holds(d, n, phase, k, OwnOf(us), ReportedOf(us))
  BY DEF Goes
<1>2. d \in View
  BY <1>1 DEF Base
<1>3. Steady(d, q)
  BY <1>1, <1>2, NotedIs
<1>4. q.streamed # 0 => phase = "asked" /\ q.streamed = n
  <2>1. CASE u.kind \in States
    <3>1. q.streamed = 0
      BY <1>1, <1>2, <2>1, NotedIs
    <3> QED BY <3>1
  <2>2. CASE u.kind \notin States /\ (Ongoing(d) \/ u.from = 0) /\ (d.streamed # 0 => phase = "asked" /\ d.streamed = n)
    <3>1. q.streamed = d.streamed
      BY <1>1, <1>2, <2>2, NotedIs
    <3> QED BY <2>2, <3>1
  <2> QED BY <2>1, <2>2 DEF Goes
<1>5. Base(us, q, n, k)
  BY <1>1, <1>3, BaseSteady
<1>6. q.msgs = d.msgs /\ q.active = d.active /\ q.exec = d.exec /\ q.run = d.run /\ q.reported = d.reported
  BY <1>3 DEF Steady
<1>7. Holds(q, n, phase, k, OwnOf(us), ReportedOf(us))
  <2> HIDE DEF n, k, phase
  <2> QED BY <1>1, <1>6 DEF Holds, Ongoing
<1>8. Told(us, q)
  BY <1>4, <1>5, <1>7 DEF Told, Shows
<1>9. Watched(us, d) => Watched(us, q)
  BY <1>6 DEF Watched, EndsKnown
<1> QED BY <1>1, <1>8, <1>9 DEF Keeps

(* The view that watched still knows every end, while no turn ends.            *)
Watching(ts, us, p, d, ids) ==
  /\ SessionOK(ts) /\ Told(ts, p) /\ Same(p.msgs, d.msgs, ids)
  /\ \A id \in ids : Stored(id) => us[id[2]].phase # "ended"
  /\ \A t \in 1..Len(ts) : us[t].phase = "ended" => us[t] = ts[t]
  /\ PhaseOf(us) \in {"running", "waiting"} /\ Written(us) > 0 /\ Watched(ts, p) => d.active = Reply(Len(us), Written(us))

(* A watching view goes on watching while no turn ends.                      *)
LEMMA WatchedOn ==
  ASSUME NEW ts, NEW us, NEW p, NEW d, NEW ids, Watching(ts, us, p, d, ids)
  PROVE  Watched(ts, p) => Watched(us, d)
<1> SUFFICES ASSUME Watched(ts, p) PROVE Watched(us, d)
  OBVIOUS
<1> DEFINE n == Len(ts)
<1>1. EndsKnown(ts, p)
  BY DEF Watched
<1>2. \A i \in DOMAIN p.msgs : Stored(p.msgs[i].id) => p.msgs[i].id[2] \in 1..n
  BY ToldIs DEF Watching
<1>3. /\ Same(p.msgs, d.msgs, ids) /\ \A id \in ids : Stored(id) => us[id[2]].phase # "ended"
  BY DEF Watching
<1>4. \A t \in 1..n : us[t].phase = "ended" => us[t] = ts[t]
  BY DEF Watching
<1> HIDE DEF n
<1>5. EndsKnown(us, d)
  BY <1>1, <1>2, <1>3, <1>4, EndsKept
<1>6. PhaseOf(us) \in {"running", "waiting"} /\ Written(us) > 0 => d.active = Reply(Len(us), Written(us))
  BY DEF Watching
<1> QED BY <1>5, <1>6 DEF Watched

(* A turn before the last ended as it is; the last one is still to end.         *)
LEMMA StillOn ==
  ASSUME NEW ts, SessionOK(ts), NEW us, NEW turn,
         \/ us = ts /\ turn = ts[Len(ts)]
         \/ Turned(ts, us, turn) /\ turn.phase # "ended"
         \/ Lengthened(ts, us, turn)
  PROVE  \A t \in 1..Len(ts) : us[t].phase = "ended" => us[t] = ts[t]
<1>1. CASE us = ts
  BY <1>1
<1>2. CASE Turned(ts, us, turn) /\ turn.phase # "ended"
  BY <1>2 DEF Turned
<1>3. CASE Lengthened(ts, us, turn)
  BY <1>3 DEF Lengthened
<1> QED BY <1>1, <1>2, <1>3

(* The last reply of a view.                                                   *)
LEMMA LastReplyIs ==
  ASSUME NEW p \in View
  PROVE  /\ LastReply(p) # None => Present(p.msgs, LastReply(p))
         /\ LastReply(p) = None => \A i \in DOMAIN p.msgs : p.msgs[i].role = "user"
         /\ p.msgs # <<>> /\ Last(p.msgs).role = "reply" => LastReply(p) = Last(p.msgs).id
<1> DEFINE s == p.msgs
           replies == {i \in DOMAIN s : s[i].role = "reply"}
<1>1. s \in Seq(Row) /\ Len(s) \in Nat /\ DOMAIN s = 1..Len(s)
  BY DEF View
<1>2. LastReply(p) = IF replies = {} THEN None ELSE s[Max(replies)].id
  BY DEF LastReply
<1>3. \A i \in DOMAIN s : s[i].role \in {"user", "reply"} /\ s[i].id # None
  <2>1. \A i \in DOMAIN s : s[i] \in Row
    BY <1>1
  <2> QED BY <2>1, RowIs
<1>4. replies # {} => Max(replies) \in replies /\ \A i \in replies : i <= Max(replies)
  <2>1. replies \subseteq 1..Len(s)
    BY <1>1
  <2> HIDE DEF replies, s
  <2> QED BY <1>1, <2>1, Greatest
<1>5. CASE replies = {}
  <2>1. LastReply(p) = None
    BY <1>2, <1>5
  <2>2. \A i \in DOMAIN s : s[i].role # "reply"
    BY <1>5
  <2>3. s # <<>> => Len(s) \in DOMAIN s
    BY <1>1
  <2> QED BY <1>3, <2>1, <2>2, <2>3 DEF Last
<1>6. CASE replies # {}
  <2>1. Max(replies) \in DOMAIN s /\ LastReply(p) = s[Max(replies)].id
    BY <1>2, <1>4, <1>6
  <2>2. Present(s, LastReply(p)) /\ LastReply(p) # None
    BY <1>3, <2>1 DEF Present
  <2>3. ASSUME s # <<>>, Last(s).role = "reply" PROVE LastReply(p) = Last(s).id
    <3>1. Len(s) \in replies
      BY <1>1, <2>3 DEF Last
    <3>2. Len(s) <= Max(replies) /\ Max(replies) <= Len(s)
      BY <1>1, <1>4, <1>6, <2>1, <3>1
    <3>3. Max(replies) = Len(s)
      BY <1>1, <2>1, <3>2
    <3> QED BY <2>1, <3>3 DEF Last
  <2> QED BY <2>2, <2>3
<1> QED BY <1>5, <1>6

(* A message that got a part shows as it did.                                  *)
LEMMA GrownHolds ==
  ASSUME NEW p \in View, NEW d, SameRun(p, d), d.active = p.active, NEW st,
         Repaints(p.msgs, d.msgs, None, st),
         NEW n, NEW phase, NEW w, NEW own, NEW reported, Holds(p, n, phase, w, own, reported)
  PROVE  Holds(d, n, phase, w, own, reported)
<1> DEFINE s == p.msgs
           r == d.msgs
<1>1. s \in Seq(Row)
  BY DEF View
<1>2. Repaints(s, r, None, st)
  OBVIOUS
<1>3. s # <<>> => Last(s).id # None
  <2>1. s # <<>> => Last(s) \in Row
    BY <1>1 DEF Last
  <2> QED BY <2>1, RowIs
<1>4. /\ r = <<>> <=> s = <<>>
      /\ \A jd : Present(r, jd) <=> Present(s, jd)
      /\ s # <<>> => Last(r).id = Last(s).id
  <2> HIDE DEF s, r
  <2> QED BY <1>1, <1>2, Repainted
<1>5. s # <<>> => Last(r).status = Last(s).status
  <2> HIDE DEF s, r
  <2>1. s # <<>> => Last(r).status = IF Last(s).id = None THEN st ELSE Last(s).status
    BY <1>1, <1>2, Repainted
  <2> QED BY <1>3, <2>1
<1>6. Ongoing(d) <=> Ongoing(p)
  BY DEF Ongoing, SameRun
<1>7. d.exec = p.exec /\ d.run = p.run /\ d.reported = p.reported
  BY DEF SameRun
<1> HIDE DEF s, r
<1>8. /\ p.active # None => s # <<>>
      /\ phase \in {"running", "waiting"} /\ w > 0 => s # <<>>
  BY DEF Holds, s
<1> QED BY <1>4, <1>5, <1>6, <1>7, <1>8 DEF Holds, s, r

(* The run under way has a part put in its turn, or opens one for it.           *)
InTurn(ts, p, n, w, own, reported, part) ==
  /\ Base(ts, p, n, w) /\ n \in Nat /\ n > 0 /\ w \in Nat
  /\ Holds(p, n, "running", w, own, reported)
  /\ part \in Part /\ part[1] \in {"divider", "notice"}
TurnHas(ts, p, d, n, w, own, reported) ==
  /\ Base(ts, d, n, w) /\ Holds(d, n, "running", w, own, reported) /\ SameRun(p, d)
  /\ Same(p.msgs, d.msgs, {None, Host(n)}) /\ (w > 0 => d.active = p.active)

(* A part put into the run under way leaves the run as it was.               *)
LEMMA PartHolds ==
  ASSUME NEW ts, NEW p, NEW n, NEW w, NEW own, NEW reported, NEW part,
         InTurn(ts, p, n, w, own, reported, part),
         NEW d, d = OnMessage(p, IF p.active = None THEN Host(n) ELSE p.active, "reply", Parting(part))
  PROVE  TurnHas(ts, p, d, n, w, own, reported)
<1>1. /\ Base(ts, p, n, w) /\ n \in Nat /\ w \in Nat /\ Holds(p, n, "running", w, own, reported)
      /\ part \in Part /\ part[1] \in {"divider", "notice"} /\ n > 0
  BY DEF InTurn
<1>2. p \in View /\ p.msgs \in Seq(Row) /\ (p.active # None => Present(p.msgs, p.active))
  BY <1>1, Based
<1>3. CASE p.active # None
  <2>1. /\ Base(ts, d, n, w) /\ SameRun(p, d) /\ d.active = p.active
        /\ Repaints(p.msgs, d.msgs, None, "none")
    <3> DEFINE id == p.active
    <3>1. Present(p.msgs, id) /\ d = OnMessage(p, id, "reply", Parting(part))
      BY <1>2, <1>3
    <3> HIDE DEF id
    <3> QED BY <1>1, <3>1, RowGrown
  <2>2. Holds(d, n, "running", w, own, reported)
    BY <1>1, <1>2, <2>1, GrownHolds
  <2>3. Same(p.msgs, d.msgs, {None})
    BY <1>2, <2>1, RepaintsSame
  <2> QED BY <2>1, <2>2, <2>3 DEF Same, TurnHas
<1>4. CASE p.active = None
  <2>1. p.exec = "running" /\ ~Present(p.msgs, Host(n)) /\ ~(w > 0)
    <3>1. Host(n) # None
      BY DEF Host, None
    <3> QED BY <1>1, <1>4, <3>1 DEF Holds
  <2> DEFINE patch == Parting(part)
             e == OnMessage(p, Host(n), "reply", patch)
             q == [e EXCEPT !.active = Host(n)]
  <2>2. patch \in Patch /\ patch.parts = {part} /\ ~patch.opens /\ \A status : StatusOf(patch, status) = status
    BY <1>1, PartingIs
  <2>3. d = e
    BY <1>4
  <2> HIDE DEF patch
  <2>4. Hosting(ts, p, n, w, n, patch)
    <3>1. n <= n /\ Hosted(patch.parts)
      BY <1>1, <2>2 DEF Hosted
    <3> QED BY <1>1, <1>4, <2>1, <2>2, <3>1 DEF Hosting
  <2> HIDE DEF e
  <2>5. q = [OnMessage(p, Host(n), "reply", patch) EXCEPT !.active = Host(n)]
    BY DEF e
  <2> HIDE DEF q
  <2>6. /\ Base(ts, q, n, w) /\ SameRun(p, q) /\ q.active = Host(n) /\ q.msgs # <<>>
        /\ Last(q.msgs).id = Host(n) /\ Same(p.msgs, q.msgs, {Host(n)})
        /\ p.exec = "running" => q = OnMessage(p, Host(n), "reply", patch)
    <3>1. HasHost(ts, p, q, n, w, n, patch)
      BY <2>4, <2>5, HostFresh
    <3> QED BY <3>1 DEF HasHost
  <2>8. q = d
    BY <2>1, <2>3, <2>6 DEF e
  <2>9. Holds(q, n, "running", w, own, reported)
    <3>1. q.active # None /\ Ongoing(q)
      BY <2>1, <2>6 DEF Host, None, Ongoing, SameRun
    <3>2. w = 0
      BY <1>1, <2>1
    <3> QED BY <1>1, <2>1, <2>6, <3>1, <3>2 DEF Holds, SameRun
  <2> QED BY <2>1, <2>6, <2>8, <2>9 DEF Same, TurnHas
<1> QED BY <1>3, <1>4

(* The run under way writes a reply.                                           *)
Writing(ts, p, n, w, j, own) ==
  /\ Counted(ts, n) /\ n > 0 /\ w \in Nat /\ j = w + 1
  /\ Base(ts, p, n, w) /\ Holds(p, n, "running", w, own, FALSE)
Wrote(ts, p, d, n, j, own) ==
  /\ Base(ts, d, n, j) /\ Holds(d, n, "running", j, own, FALSE) /\ SameRun(p, d)
  /\ d.active = Reply(n, j) /\ Same(p.msgs, d.msgs, {Reply(n, j), p.active})

(* A reply written by the run under way leaves the run as it was, with one   *)
(* reply more.                                                               *)
LEMMA WriteHolds ==
  ASSUME NEW ts, NEW p, NEW n, NEW w, NEW j, NEW own, Writing(ts, p, n, w, j, own),
         NEW d, d = OnMessage(p, Reply(n, j), "reply", Telling(FALSE))
  PROVE  Wrote(ts, p, d, n, j, own)
<1>1. /\ Counted(ts, n) /\ n > 0 /\ n \in Nat /\ w \in Nat /\ j = w + 1 /\ j \in Nat /\ j > 0
      /\ Base(ts, p, n, w) /\ Holds(p, n, "running", w, own, FALSE)
  <2>1. /\ Counted(ts, n) /\ n > 0 /\ w \in Nat /\ j = w + 1
        /\ Base(ts, p, n, w) /\ Holds(p, n, "running", w, own, FALSE)
    BY DEF Writing
  <2>2. n \in Nat
    BY <2>1 DEF Counted
  <2>3. j \in Nat /\ j > 0
    BY <2>1
  <2> QED BY <2>1, <2>2, <2>3
<1>2. p.exec = "running" /\ p.run = n /\ p.reported = FALSE
  BY <1>1 DEF Holds
<1>3. Saying(ts, n, w, j, p, FALSE)
  <2>1. w > 0 => p.active = Reply(n, w) /\ p.msgs # <<>> /\ Last(p.msgs).id = Reply(n, w)
    BY <1>1 DEF Holds
  <2>2. w = 0 => p.active = None \/ ((p.active = Host(n) \/ p.active \in Strays) /\ p.msgs # <<>> /\ Last(p.msgs).id = p.active)
    BY <1>1 DEF Holds
  <2>3. IsHost(Host(n))
    BY <1>1, Names DEF IsHost
  <2> QED BY <1>1, <1>2, <2>1, <2>2, <2>3 DEF Saying
<1> DEFINE no == FALSE
<1>4. Saying(ts, n, w, j, p, no) /\ d = OnMessage(p, Reply(n, j), "reply", Telling(no))
  BY <1>3
<1> HIDE DEF no
<1>5. /\ Base(ts, d, n, j) /\ SameRun(p, d) /\ d.active = Reply(n, j) /\ d.msgs # <<>>
      /\ Last(d.msgs).id = Reply(n, j) /\ Last(d.msgs).status = "running"
      /\ Same(p.msgs, d.msgs, {Reply(n, j), p.active})
      /\ \A id : IsHost(id) /\ Present(d.msgs, id) => Present(p.msgs, id) /\ id # p.active
  <2>1. RunSays(ts, p, d, n, j)
    BY <1>4, SaidRunning
  <2> QED BY <2>1 DEF RunSays
<1>6. ~Present(d.msgs, Host(n))
  <2>1. IsHost(Host(n))
    BY <1>1, Names DEF IsHost
  <2>2. Present(p.msgs, Host(n)) => p.active = Host(n)
    BY <1>1 DEF Holds
  <2> QED BY <1>5, <2>1, <2>2
<1>7. Reply(n, j) # None
  BY DEF Reply, None
<1>8. Holds(d, n, "running", j, own, FALSE)
  BY <1>1, <1>2, <1>5, <1>6, <1>7 DEF Holds, Ongoing, SameRun
<1> QED BY <1>5, <1>8 DEF Wrote

(* The run under way waits, or reports that it failed: the turn it has open     *)
(* shows it, or one it opens for it.                                          *)
Marks(ts, p, n, w, own, e, b, status) ==
  /\ Base(ts, p, n, w) /\ n \in 0..MaxTurns /\ n > 0 /\ w \in Nat /\ own \in BOOLEAN
  /\ Holds(p, n, "running", w, own, FALSE) /\ \A id \in Replies(ts, n, w) : Stored(id)
  /\ \/ e = "running" /\ b = TRUE /\ status = "failed"
     \/ e = "waiting" /\ b = FALSE /\ status = "waiting" /\ (own => w > 0)
HasMark(ts, p, d, n, w, own, e, b) ==
  /\ Base(ts, d, n, w) /\ Holds(d, n, e, w, own, b)
  /\ Same(p.msgs, d.msgs, {p.active, Host(n)}) /\ (w > 0 => d.active = p.active)

(* A wait or a failure that the run reports is held by the view.             *)
LEMMA MarkHolds ==
  ASSUME NEW ts, NEW p, NEW n, NEW w, NEW own, NEW e, NEW b, NEW status,
         Marks(ts, p, n, w, own, e, b, status),
         NEW r, r = Run(p, e, n, b), NEW id, id = IF p.active = None THEN Host(n) ELSE p.active,
         NEW d, d = [OnMessage(r, id, "reply", Marking(status)) EXCEPT !.active = id]
  PROVE  HasMark(ts, p, d, n, w, own, e, b)
<1>1. /\ Base(ts, p, n, w) /\ n \in 0..MaxTurns /\ w \in Nat /\ Holds(p, n, "running", w, own, FALSE)
      /\ own \in BOOLEAN /\ n > 0 /\ \A jd \in Replies(ts, n, w) : Stored(jd)
  BY DEF Marks
<1>2. /\ e \in {"running", "waiting"} /\ b \in BOOLEAN /\ status = (IF b THEN "failed" ELSE e)
      /\ (e = "waiting" => (own => w > 0)) /\ status \in Statuses /\ status # "same"
  BY DEF Marks, Statuses
<1>n. n \in Nat
  BY <1>1, TurnAssumption
<1>3. p \in View /\ p.msgs \in Seq(Row) /\ (p.active # None => Present(p.msgs, p.active))
  BY <1>1, Based
<1>4. r \in View /\ r.msgs = p.msgs /\ r.active = p.active /\ r.exec = e /\ r.run = n /\ r.reported = b
  <2>1. e \in {"idle", "running", "waiting", "failed"}
    BY <1>2
  <2> QED BY <1>1, <1>2, <1>3, <2>1 DEF Run, View
<1>5. Base(ts, r, n, w)
  BY <1>1, <1>4, BaseRun
<1>6. Host(n) # None /\ (Present(p.msgs, Host(n)) => p.active = Host(n))
  BY <1>1 DEF Host, None, Holds
<1>7. CASE p.active # None
  <2>1. id = p.active /\ Present(r.msgs, id) /\ r.active \in {None, id}
    BY <1>3, <1>4, <1>7
  <2>2. IsMarked(ts, r, d, n, w, id, status)
    BY <1>2, <1>5, <2>1, RowMarked
  <2>3. /\ Base(ts, d, n, w) /\ SameRun(r, d) /\ d.active = id /\ Repaints(p.msgs, d.msgs, id, status)
    BY <1>4, <2>2 DEF IsMarked
  <2>4. Same(p.msgs, d.msgs, {id})
    BY <1>3, <2>3, RepaintsSame
  <2>5. p.msgs # <<>> /\ p.active = Last(p.msgs).id
    BY <1>1, <1>7 DEF Holds
  <2>6. /\ d.msgs # <<>> /\ Last(d.msgs).id = Last(p.msgs).id /\ Last(d.msgs).status = status
        /\ \A jd : Present(d.msgs, jd) <=> Present(p.msgs, jd)
    <3> DEFINE s == p.msgs
               z == d.msgs
    <3>1. s \in Seq(Row) /\ Repaints(s, z, id, status) /\ s # <<>> /\ Last(s).id = id
      BY <1>3, <2>1, <2>3, <2>5
    <3> HIDE DEF s, z
    <3>2. (z = <<>> <=> s = <<>>) /\ \A jd : Present(z, jd) <=> Present(s, jd)
      BY <3>1, Repainted
    <3>3. Last(z).id = Last(s).id
      BY <3>1, Repainted
    <3>4. Last(z).status = IF Last(s).id = id THEN status ELSE Last(s).status
      BY <3>1, Repainted
    <3> QED BY <3>1, <3>2, <3>3, <3>4 DEF s, z
  <2>7. Holds(d, n, e, w, own, b)
    <3>1. d.exec = e /\ d.run = n /\ d.reported = b
      BY <1>4, <2>3 DEF SameRun
    <3>2. \/ p.active = Host(n) /\ w = 0
          \/ p.active \in Strays /\ w = 0
          \/ p.active = Reply(n, w) /\ w > 0
      BY <1>1, <1>7 DEF Holds
    <3> QED BY <1>2, <1>7, <2>1, <2>3, <2>5, <2>6, <3>1, <3>2, <1>6 DEF Holds,
               Ongoing
  <2> QED BY <2>1, <2>3, <2>4, <2>7 DEF HasMark, Same
<1>8. CASE p.active = None
  <2>1. id = Host(n) /\ ~Present(p.msgs, Host(n)) /\ w = 0
    BY <1>1, <1>6, <1>8 DEF Holds
  <2> DEFINE patch == Marking(status)
  <2>2. patch \in Patch /\ patch.parts = {} /\ ~patch.opens
    BY <1>2, MarkingIs
  <2>3. \A st : StatusOf(patch, st) = status
    BY <1>2, MarkingIs
  <2>4. d = [OnMessage(r, Host(n), "reply", patch) EXCEPT !.active = Host(n)]
    BY <2>1
  <2> HIDE DEF patch
  <2>5. r.exec # "running" /\ r.msgs # <<>> => Last(r.msgs).id \in Strays \/ Last(r.msgs).role = "user"
    <3>1. ASSUME r.exec # "running", p.msgs # <<>> PROVE Last(p.msgs).id \in Strays \/ Last(p.msgs).role = "user"
      <4>1. ~own
        BY <1>1, <1>2, <1>4, <2>1, <3>1
      <4>2. Last(p.msgs).id \in {User(n)} \cup Strays
        BY <1>1, <1>8, <2>1, <4>1 DEF Holds
      <4>3. User(n)[1] = "user"
        BY <1>n, Names
      <4>4. \A i \in DOMAIN p.msgs : p.msgs[i].role = "user" <=> p.msgs[i].id[1] = "user"
        BY <1>1, Based
      <4>5. Len(p.msgs) \in DOMAIN p.msgs
        BY <1>3, <3>1
      <4> QED BY <4>2, <4>3, <4>4, <4>5 DEF Last
    <3> QED BY <1>4, <3>1
  <2>t. n <= n /\ ~Present(r.msgs, Host(n)) /\ r.active = None /\ Hosted(patch.parts)
    BY <1>4, <1>8, <1>n, <2>1, <2>2 DEF Hosted
  <2>8. /\ Base(ts, d, n, w) /\ SameRun(r, d) /\ d.active = Host(n) /\ d.msgs # <<>>
        /\ Last(d.msgs).id = Host(n) /\ Last(d.msgs).status = status
        /\ Same(p.msgs, d.msgs, {Host(n)})
    <3>1. CASE r.exec # "running" /\ r.msgs # <<>> /\ EmptyHost(r) # None
      <4>1. EmptyHost(r) = Last(r.msgs).id
        <5>1. \A i \in DOMAIN r.msgs : IsHost(r.msgs[i].id) => Hosted(r.msgs[i].parts)
          BY <1>5, Based
        <5> QED BY <1>4, <2>t, <3>1, <5>1, EmptyHostIs
      <4>2. patch.status = status
        BY <1>2, <2>3 DEF StatusOf, patch, Marking, NoPatch
      <4>3. HostingOver(ts, r, n, w, n, patch)
        BY <1>1, <1>2, <1>5, <1>n, <2>t, <2>2, <3>1, <4>1, <4>2 DEF HostingOver
      <4>4. TookHost(ts, r, d, n, w, n, patch)
        BY <2>4, <4>3, HostOver
      <4> QED BY <1>4, <4>2, <4>4 DEF TookHost
    <3>2. CASE ~(r.exec # "running" /\ r.msgs # <<>> /\ EmptyHost(r) # None)
      <4>1. Hosting(ts, r, n, w, n, patch)
        BY <1>1, <1>5, <1>n, <2>t, <2>2, <2>5, <3>2 DEF Hosting
      <4>2. HasHost(ts, r, d, n, w, n, patch)
        BY <2>4, <4>1, HostFresh
      <4> QED BY <1>4, <2>3, <4>2 DEF HasHost
    <3> QED BY <3>1, <3>2
  <2>9. Holds(d, n, e, w, own, b)
    <3>1. d.exec = e /\ d.run = n /\ d.reported = b
      BY <1>4, <2>8 DEF SameRun
    <3> QED BY <1>2, <1>6, <2>1, <2>8, <3>1 DEF Holds, Ongoing
  <2> QED BY <2>1, <2>8, <2>9 DEF HasMark, Same
<1> QED BY <1>7, <1>8

(* The reply the transcript ends on is the run's again.                         *)
Reopened(ts, p, d, n, w) ==
  /\ Base(ts, d, n, w) /\ SameRun(p, d) /\ p.msgs # <<>> /\ d.active = Last(p.msgs).id
  /\ d.active # None /\ Repaints(p.msgs, d.msgs, Last(p.msgs).id, "running")
Reopening(ts, p, n, w) == Base(ts, p, n, w) /\ (p.msgs # <<>> => p.active \in {None, Last(p.msgs).id})
IsReopened(ts, p, d, n, w) ==
  IF p.msgs # <<>> /\ Last(p.msgs).role = "reply" THEN Reopened(ts, p, d, n, w) ELSE d = p

(* Reopening finds the last reply, and changes nothing where there is none.  *)
LEMMA ReopenIs ==
  ASSUME NEW ts, NEW p, NEW n, NEW w, Reopening(ts, p, n, w), NEW d, d = Reopen(p)
  PROVE  IsReopened(ts, p, d, n, w)
<1>b. Base(ts, p, n, w) /\ (p.msgs # <<>> => p.active \in {None, Last(p.msgs).id})
  BY DEF Reopening
<1>1. /\ p \in View /\ p.msgs \in Seq(Row) /\ (p.active # None => Present(p.msgs, p.active))
      /\ \A i \in DOMAIN p.msgs : p.msgs[i] \in Row
      /\ \A i \in DOMAIN p.msgs : IsHost(p.msgs[i].id) => Hosted(p.msgs[i].parts)
      /\ p.msgs # <<>> => Len(p.msgs) \in DOMAIN p.msgs /\ Last(p.msgs) = p.msgs[Len(p.msgs)] /\ Last(p.msgs) \in Row
  BY <1>b, Based
<1>2. CASE ~(p.msgs # <<>> /\ Last(p.msgs).role = "reply")
  <2>1. ~Reopens(p)
    BY <1>2 DEF Reopens
  <2> QED BY <1>2, <2>1 DEF Reopen, IsReopened
<1>3. CASE p.msgs # <<>> /\ Last(p.msgs).role = "reply"
  <2> DEFINE id == Last(p.msgs).id
             c == WithStatus(p, id, "running")
  <2>1. id \in Id /\ id # None /\ Present(p.msgs, id)
    <3>1. Last(p.msgs) \in Row
      BY <1>1, <1>3
    <3>2. id \in Id /\ id # None
      BY <3>1, RowIs
    <3> QED BY <1>1, <1>3, <3>2 DEF Present
  <2>2. Reopens(p)
    BY <1>3 DEF Reopens
  <2>3. d = [c EXCEPT !.active = id]
    BY <2>2 DEF Reopen
  <2>4. c \in View /\ SameRun(p, c) /\ c.active = p.active /\ Repaints(p.msgs, c.msgs, id, "running")
    <3>1. c = WithStatus(p, id, "running") /\ "running" \in Statuses
      BY DEF Statuses
    <3> HIDE DEF c, id
    <3> QED BY <1>1, <3>1, Recolored
  <2>p. p.active \in {None, id}
    BY <1>b, <1>3
  <2> HIDE DEF c, id
  <2>5. d \in View /\ SameRun(p, d) /\ d.active = id /\ d.msgs = c.msgs
    BY <2>1, <2>3, <2>4 DEF View, SameRun
  <2>6. Present(d.msgs, d.active)
    <3> DEFINE s == p.msgs
               r == c.msgs
               st == "running"
    <3>1. s \in Seq(Row) /\ Repaints(s, r, id, st)
      BY <1>1, <2>4
    <3> HIDE DEF s, r, st
    <3>2. \A jd : Present(r, jd) <=> Present(s, jd)
      BY <3>1, Repainted
    <3> QED BY <2>1, <2>5, <3>2 DEF s, r
  <2>7. \A i \in DOMAIN p.msgs : p.msgs[i].id # d.active =>
          IF p.msgs[i].id = id THEN Rests(ts, id, "running") ELSE p.msgs[i].id # p.active
    <3>1. \A i \in DOMAIN p.msgs : p.msgs[i].id # None
      BY <1>1, RowIs
    <3> QED BY <2>5, <2>p, <3>1
  <2> DEFINE st == "running"
  <2>8. /\ Repaints(p.msgs, d.msgs, id, st)
        /\ \A i \in DOMAIN p.msgs : p.msgs[i].id # d.active =>
             IF p.msgs[i].id = id THEN Rests(ts, id, st) ELSE p.msgs[i].id # p.active
    BY <2>4, <2>5, <2>7
  <2>10. d.active # None => Present(d.msgs, d.active)
    BY <2>6
  <2>11. d.active # None => Present(p.msgs, d.active)
    BY <2>1, <2>5
  <2> HIDE DEF st
  <2>9. Base(ts, d, n, w)
    BY <1>b, <2>5, <2>8, <2>11, BaseRow
  <2> QED BY <1>3, <2>1, <2>4, <2>5, <2>9 DEF Reopened, IsReopened, id
<1> QED BY <1>2, <1>3

(* A run that wrote nothing yet.                                               *)
LEMMA NewHolds ==
  ASSUME NEW d, NEW n, NEW own \in BOOLEAN, d.exec = "running", d.run = n,
         d.reported = FALSE,
         ~Present(d.msgs, Host(n)),
         d.active = None \/ (d.active \in Strays /\ d.msgs # <<>> /\ Last(d.msgs).id = d.active),
         ~own => d.msgs # <<>> /\ Last(d.msgs).id \in Strays \cup {User(n)}
  PROVE  Holds(d, n, "running", 0, own, FALSE)
<1>1. Ongoing(d)
  BY DEF Ongoing
<1> DEFINE phase == "running"
           w == 0
<1>2. phase \in {"running", "waiting"} /\ phase # "waiting" /\ phase # "asked" /\ ~(w > 0) /\ w = 0
      /\ d.exec = phase
  OBVIOUS
<1> HIDE DEF phase, w
<1>3. Holds(d, n, phase, w, own, FALSE)
  BY <1>1, <1>2 DEF Holds
<1> QED BY <1>3 DEF phase, w

(* The run of a prompted turn starts.                                          *)
HasBegun(ts, p, d, n, own) ==
  /\ Base(ts, d, n, 0) /\ Holds(d, n, "running", 0, own, FALSE) /\ Same(p.msgs, d.msgs, Strays)

(* The run of a prompted turn that starts is held by the view.               *)
LEMMA BeginHolds ==
  ASSUME NEW ts, NEW p, NEW n, Base(ts, p, n, 0), n \in 0..MaxTurns, n > 0, NEW a, NEW b,
         Holds(p, n, "asked", 0, a, b), NEW d, d = ApplyRunning(p, n, TRUE), NEW own \in BOOLEAN
  PROVE  HasBegun(ts, p, d, n, own)
<1> DEFINE r == Run(p, "running", n, FALSE)
           z == 0
<1>1. /\ p \in View /\ p.msgs \in Seq(Row)
      /\ \A i \in DOMAIN p.msgs : p.msgs[i].role = "user" <=> p.msgs[i].id[1] = "user"
      /\ \A i \in DOMAIN p.msgs : p.msgs[i].role \in {"user", "reply"}
  <2>1. /\ p \in View /\ p.msgs \in Seq(Row) /\ \A i \in DOMAIN p.msgs : p.msgs[i] \in Row
        /\ \A i \in DOMAIN p.msgs : p.msgs[i].role = "user" <=> p.msgs[i].id[1] = "user"
    BY Based
  <2> QED BY <2>1, RowIs
<1>2. /\ ~Ongoing(p) /\ p.active = None /\ p.msgs # <<>> /\ Last(p.msgs).id \in Strays \cup {User(n)}
      /\ Host(n) # None /\ ~Present(p.msgs, Host(n))
  <2>1. Host(n) # None
    BY DEF Host, None
  <2> DEFINE w == 0
  <2>2. Holds(p, n, "asked", w, a, b)
    OBVIOUS
  <2> HIDE DEF w
  <2> QED BY <2>1, <2>2 DEF Holds
<1>3. n \in Nat
  BY TurnAssumption
<1>4. Reported(p, n) = FALSE /\ p.exec # "waiting" /\ p.exec # "running"
  BY <1>2 DEF Reported, Ongoing
<1>5. d = IF p.streamed = n THEN Reopen(r) ELSE r
  BY <1>4 DEF ApplyRunning, Announced, Run
<1>6. r \in View /\ r.msgs = p.msgs /\ r.active = None /\ r.exec = "running" /\ r.run = n /\ r.reported = FALSE
  BY <1>1, <1>2 DEF Run, View
<1>7. Base(ts, r, n, z) /\ Base(ts, r, n, 0)
  <2>1. Base(ts, p, n, z)
    OBVIOUS
  <2>2. r.active = p.active
    BY <1>2, <1>6
  <2> HIDE DEF r, z
  <2>3. Base(ts, r, n, z)
    BY <1>6, <2>1, <2>2, BaseRun
  <2> QED BY <2>3 DEF z
<1> HIDE DEF r, z
<1>8. CASE d = r
  <2>1. Holds(d, n, "running", 0, own, FALSE)
    BY <1>2, <1>6, <1>8, NewHolds
  <2>2. Same(p.msgs, d.msgs, Strays)
    BY <1>6, <1>8 DEF Same
  <2> QED BY <1>7, <1>8, <2>1, <2>2 DEF HasBegun
<1>9. CASE d = Reopen(r) /\ d # r
  <2>0. d = Reopen(r) /\ r.active \in {None, Last(r.msgs).id}
    BY <1>6, <1>9
  <2>1. IsReopened(ts, r, d, n, z)
    <3>1. Reopening(ts, r, n, z)
      BY <1>7, <2>0 DEF Reopening
    <3> QED BY <2>0, <3>1, ReopenIs
  <2>2. Reopened(ts, r, d, n, z) /\ Last(p.msgs).role = "reply"
    BY <1>6, <1>9, <2>1 DEF IsReopened
  <2> DEFINE id == Last(p.msgs).id
  <2>3. id \in Strays
    <3>1. User(n)[1] = "user"
      BY <1>3, Names
    <3>2. Len(p.msgs) \in DOMAIN p.msgs
      BY <1>1, <1>2
    <3> QED BY <1>1, <1>2, <2>2, <3>1, <3>2 DEF Last
  <2>4. /\ Base(ts, d, n, z) /\ SameRun(r, d) /\ d.active = id /\ d.active # None
        /\ Repaints(p.msgs, d.msgs, id, "running")
    BY <1>6, <2>2, <2>3 DEF Reopened
  <2>5. Same(p.msgs, d.msgs, Strays)
    <3> HIDE DEF id
    <3>1. Same(p.msgs, d.msgs, {id})
      BY <1>1, <2>4, RepaintsSame
    <3> QED BY <2>3, <3>1 DEF Same
  <2>6. d.msgs # <<>> /\ Last(d.msgs).id = id /\ \A jd : Present(d.msgs, jd) <=> Present(p.msgs, jd)
    <3> DEFINE s == p.msgs
               x == d.msgs
               st == "running"
    <3>1. s \in Seq(Row) /\ Repaints(s, x, id, st) /\ s # <<>> /\ Last(s).id = id
      BY <1>1, <1>2, <2>3, <2>4
    <3> HIDE DEF s, x, id, st
    <3>2. (x = <<>> <=> s = <<>>) /\ \A jd : Present(x, jd) <=> Present(s, jd)
      BY <3>1, Repainted
    <3>3. Last(x).id = Last(s).id
      BY <3>1, Repainted
    <3> QED BY <3>1, <3>2, <3>3 DEF s, x
  <2>7. Holds(d, n, "running", 0, own, FALSE)
    <3>1. d.exec = "running" /\ d.run = n /\ d.reported = FALSE
      BY <1>6, <2>4 DEF SameRun
    <3>2. d.active \in Strays /\ d.msgs # <<>> /\ Last(d.msgs).id = d.active
      BY <2>3, <2>4, <2>6
    <3>3. ~Present(d.msgs, Host(n))
      BY <1>2, <2>6
    <3> QED BY <3>1, <3>2, <3>3, NewHolds
  <2> QED BY <2>4, <2>5, <2>7 DEF HasBegun, z
<1> QED BY <1>5, <1>8, <1>9

(* A run that nobody prompted starts.                                          *)
LEMMA OwnHolds ==
  ASSUME NEW ts, NEW p, NEW n, Base(ts, p, n, 0), n \in 0..MaxTurns, NEW m, NEW phase,
         NEW w, NEW a, NEW b,
         Holds(p, m, phase, w, a, b), phase \notin {"running", "waiting"}, p.streamed # n,
         ~Present(p.msgs, Host(n)), NEW d, d = ApplyRunning(p, n, TRUE)
  PROVE  HasBegun(ts, p, d, n, TRUE)
<1> DEFINE z == 0
<1>1. /\ p \in View /\ p.msgs \in Seq(Row)
  BY Based
<1>2. ~Ongoing(p) /\ p.active = None
  BY DEF Holds
<1>4. Reported(p, n) = FALSE /\ p.exec # "waiting" /\ p.exec # "running"
  BY <1>2 DEF Reported, Ongoing
<1>5. d = Run(p, "running", n, FALSE)
  BY <1>4 DEF ApplyRunning, Announced, Run
<1>6. d \in View /\ d.msgs = p.msgs /\ d.active = None /\ d.exec = "running" /\ d.run = n /\ d.reported = FALSE
  BY <1>1, <1>2, <1>5 DEF Run, View
<1>7. Base(ts, d, n, 0)
  <2>1. Base(ts, p, n, z) /\ d.active = p.active
    BY <1>2, <1>6
  <2> HIDE DEF z
  <2>3. Base(ts, d, n, z)
    BY <1>6, <2>1, BaseRun
  <2> QED BY <2>3 DEF z
<1>8. Holds(d, n, "running", 0, TRUE, FALSE)
  <2> DEFINE own == TRUE
  <2>1. own \in BOOLEAN /\ own /\ ~Present(d.msgs, Host(n))
    BY <1>6
  <2> HIDE DEF own
  <2>2. Holds(d, n, "running", 0, own, FALSE)
    BY <1>6, <2>1, NewHolds
  <2> QED BY <2>2 DEF own
<1> QED BY <1>6, <1>7, <1>8 DEF HasBegun, Same

(* A run that waited goes on: the turn that waited is live again.               *)
HasAnswer(ts, p, d, n, w) ==
  /\ Base(ts, d, n, w) /\ SameRun(p, d) /\ d.active = p.active
  /\ \E st : /\ Repaints(p.msgs, d.msgs, p.active, st)
             /\ p.msgs # <<>> /\ Last(p.msgs).id = p.active
                  => st = IF Last(p.msgs).status = "waiting" THEN "running" ELSE Last(p.msgs).status

(* An answer turns the message that waited into a running one, and no other. *)
LEMMA AnsweredIs ==
  ASSUME NEW ts, NEW p, NEW n, NEW w, Base(ts, p, n, w), NEW d, d = Answered(p)
  PROVE  HasAnswer(ts, p, d, n, w)
<1> DEFINE id == p.active
           Altered(m) == IF m.id = id /\ m.status = "waiting" THEN [m EXCEPT !.status = "running"] ELSE m
           f == [i \in DOMAIN p.msgs |-> Altered(p.msgs[i])]
<1>1. /\ p \in View /\ p.msgs \in Seq(Row) /\ (p.active # None => Present(p.msgs, p.active))
      /\ \A i \in DOMAIN p.msgs : p.msgs[i] \in Row
      /\ \A i \in DOMAIN p.msgs : IsHost(p.msgs[i].id) => Hosted(p.msgs[i].parts)
      /\ \A i, j \in DOMAIN p.msgs : p.msgs[i].id = p.msgs[j].id => i = j
      /\ p.msgs # <<>> => Len(p.msgs) \in DOMAIN p.msgs /\ Last(p.msgs) = p.msgs[Len(p.msgs)]
  BY Based
<1>2. \A i \in DOMAIN p.msgs : p.msgs[i].id # None
  BY <1>1, RowIs
<1>3. Active(p) = id
  BY <1>1, Activity
<1>4. d = [p EXCEPT !.msgs = f]
  BY <1>3 DEF Answered, Each
<1>5. \A m \in Row : /\ Altered(m) \in Row /\ Altered(m).id = m.id /\ Altered(m).role = m.role
                     /\ Altered(m).opens = m.opens /\ Altered(m).parts = m.parts
                     /\ Altered(m).status = IF m.id = id /\ m.status = "waiting" THEN "running" ELSE m.status
  BY DEF Row, Statuses
<1>f. f \in [DOMAIN p.msgs -> Row] /\ \A i \in DOMAIN p.msgs : f[i] = Altered(p.msgs[i])
  BY <1>1, <1>5
<1> HIDE DEF Altered, f
<1>6. /\ d \in View /\ SameRun(p, d) /\ d.active = p.active /\ d.msgs = f
      /\ Len(d.msgs) = Len(p.msgs) /\ DOMAIN d.msgs = DOMAIN p.msgs
  BY <1>1, <1>4, <1>f, Mapped
<1>7. d.msgs \in Seq(Row)
  BY <1>6, Viewed
<1>8. \E st : \A i \in DOMAIN p.msgs : p.msgs[i].id = id =>
        st = IF p.msgs[i].status = "waiting" THEN "running" ELSE p.msgs[i].status
  <2>1. CASE \E i \in DOMAIN p.msgs : p.msgs[i].id = id
    <3>1. PICK i \in DOMAIN p.msgs : p.msgs[i].id = id
      BY <2>1
    <3>2. \A j \in DOMAIN p.msgs : p.msgs[j].id = id => j = i
      BY <1>1, <3>1
    <3> QED BY <3>1, <3>2
  <2>2. CASE ~\E i \in DOMAIN p.msgs : p.msgs[i].id = id
    BY <2>2
  <2> QED BY <2>1, <2>2
<1>9. PICK st : \A i \in DOMAIN p.msgs : p.msgs[i].id = id =>
        st = IF p.msgs[i].status = "waiting" THEN "running" ELSE p.msgs[i].status
  BY <1>8
<1>10. Repaints(p.msgs, d.msgs, id, st)
  BY <1>1, <1>5, <1>f, <1>6, <1>7, <1>9 DEF Repaints
<1>11. p.msgs # <<>> /\ Last(p.msgs).id = id
         => st = IF Last(p.msgs).status = "waiting" THEN "running" ELSE Last(p.msgs).status
  BY <1>1, <1>9
<1>12. \A i \in DOMAIN p.msgs : p.msgs[i].id # d.active =>
         IF p.msgs[i].id = id THEN Rests(ts, id, st) ELSE p.msgs[i].id # p.active
  BY <1>6
<1>13. d.active # None => Present(p.msgs, d.active)
  BY <1>1, <1>6
<1> HIDE DEF id
<1>r. d.active # None => Present(d.msgs, d.active)
  <2>1. \A jd : Present(d.msgs, jd) <=> Present(p.msgs, jd)
    <3> DEFINE s == p.msgs
               r == d.msgs
    <3>1. s \in Seq(Row) /\ Repaints(s, r, id, st)
      BY <1>1, <1>10
    <3> HIDE DEF s, r
    <3>2. \A jd : Present(r, jd) <=> Present(s, jd)
      BY <3>1, Repainted
    <3> QED BY <3>2 DEF s, r
  <2> QED BY <1>13, <2>1
<1>14. Base(ts, d, n, w)
  BY <1>6, <1>10, <1>12, <1>13, BaseRow
<1> QED BY <1>6, <1>10, <1>11, <1>14 DEF HasAnswer, id

(* A run that waited goes on.                                                  *)
HasResumed(ts, p, d, n, w, own) ==
  /\ Base(ts, d, n, w) /\ Holds(d, n, "running", w, own, FALSE) /\ d.active = p.active
  /\ d.streamed = p.streamed /\ Same(p.msgs, d.msgs, {p.active})

(* The run that waited is held as running by the view.                       *)
LEMMA ResumeHolds ==
  ASSUME NEW ts, NEW p, NEW n, NEW w, NEW own, Base(ts, p, n, w),
         Holds(p, n, "waiting", w, own, FALSE),
         NEW d, d = ResumeWait(p)
  PROVE  HasResumed(ts, p, d, n, w, own)
<1> DEFINE r == [p EXCEPT !.exec = "running"]
<1>1. /\ p \in View /\ p.msgs \in Seq(Row)
  BY Based
<1>2. /\ p.exec = "waiting" /\ p.run = n /\ p.reported = FALSE /\ p.active # None /\ p.msgs # <<>>
      /\ p.active = Last(p.msgs).id /\ (w > 0 => Last(p.msgs).status \in {"laid", "waiting"})
      /\ Present(p.msgs, Host(n)) => p.active = Host(n)
      /\ \/ p.active = Host(n) /\ w = 0
         \/ p.active \in Strays /\ w = 0
         \/ p.active = Reply(n, w) /\ w > 0
  BY DEF Holds
<1>3. d = Answered(r)
  BY <1>2 DEF ResumeWait
<1>4. /\ r \in View /\ r.msgs = p.msgs /\ r.active = p.active /\ r.exec = "running" /\ r.run = n
      /\ r.reported = FALSE /\ r.streamed = p.streamed
  BY <1>1, <1>2 DEF View
<1> HIDE DEF r
<1>5. Base(ts, r, n, w)
  BY <1>4, BaseRun
<1>6. HasAnswer(ts, r, d, n, w)
  BY <1>3, <1>5, AnsweredIs
<1>7. PICK st : /\ Repaints(p.msgs, d.msgs, p.active, st)
                /\ st = IF Last(p.msgs).status = "waiting" THEN "running" ELSE Last(p.msgs).status
  BY <1>2, <1>4, <1>6 DEF HasAnswer
<1>8. Base(ts, d, n, w) /\ d.exec = "running" /\ d.run = n /\ d.reported = FALSE /\ d.active = p.active /\ d.streamed = p.streamed
  BY <1>4, <1>6 DEF HasAnswer, SameRun
<1> DEFINE s == p.msgs
           z == d.msgs
           id == p.active
<1>9. s \in Seq(Row) /\ Repaints(s, z, id, st) /\ s # <<>> /\ Last(s).id = id
  BY <1>1, <1>2, <1>7
<1>10. z # <<>> /\ Last(z).id = id /\ Last(z).status = st /\ (\A jd : Present(z, jd) <=> Present(s, jd))
       /\ Same(s, z, {id})
  <2> HIDE DEF s, z, id
  <2>2. (z = <<>> <=> s = <<>>) /\ \A jd : Present(z, jd) <=> Present(s, jd)
    BY <1>9, Repainted
  <2>3. Last(z).id = Last(s).id
    BY <1>9, Repainted
  <2>4. Last(z).status = IF Last(s).id = id THEN st ELSE Last(s).status
    BY <1>9, Repainted
  <2>5. Same(s, z, {id})
    BY <1>9, RepaintsSame
  <2> QED BY <1>9, <2>2, <2>3, <2>4, <2>5
<1>11. Holds(d, n, "running", w, own, FALSE)
  BY <1>2, <1>7, <1>8, <1>10 DEF Holds, Ongoing
<1> QED BY <1>8, <1>10, <1>11 DEF HasResumed

(* A run settles, and the turn it has open as the run did.                      *)
Idling(ts, p, n, w, t, status) ==
  /\ Base(ts, p, n, w) /\ t \in 0..MaxTurns /\ status \in {"complete", "stopped", "failed"}
  /\ p.active # None => Rests(ts, p.active, status)
Idled(ts, p, d, n, w, t, status) ==
  /\ Base(ts, d, n, w) /\ d.exec = (IF status = "failed" THEN "failed" ELSE "idle") /\ d.run = t
  /\ d.reported = FALSE /\ d.active = None /\ d.streamed = p.streamed
  /\ Repaints(p.msgs, d.msgs, p.active, status)

(* A run that settles closes the message it had open, and opens none.        *)
LEMMA IdleIs ==
  ASSUME NEW ts, NEW p, NEW n, NEW w, NEW t, NEW status, Idling(ts, p, n, w, t, status),
         NEW how, SettledAs(p, t, how) = status, NEW d, d = ApplyIdle(p, t, how)
  PROVE  Idled(ts, p, d, n, w, t, status)
<1> DEFINE id == p.active
           c == WithStatus(p, id, status)
<1>1. /\ Base(ts, p, n, w) /\ t \in 0..MaxTurns /\ status \in {"complete", "stopped", "failed"}
      /\ p.active # None => Rests(ts, p.active, status)
  BY DEF Idling
<1>2. /\ p \in View /\ p.msgs \in Seq(Row) /\ (p.active # None => Present(p.msgs, p.active))
      /\ \A i \in DOMAIN p.msgs : p.msgs[i] \in Row
      /\ \A i \in DOMAIN p.msgs : IsHost(p.msgs[i].id) => Hosted(p.msgs[i].parts)
  BY <1>1, Based
<1>3. Active(p) = id
  BY <1>2, Activity
<1>4. d = [c EXCEPT !.exec = IF status = "failed" THEN "failed" ELSE "idle", !.run = t, !.reported = FALSE, !.active = None]
  BY <1>3 DEF ApplyIdle
<1>5. c \in View /\ SameRun(p, c) /\ c.active = p.active /\ Repaints(p.msgs, c.msgs, id, status)
  <2>1. c = WithStatus(p, id, status) /\ status \in Statuses
    BY <1>1 DEF Statuses
  <2> HIDE DEF c, id
  <2> QED BY <1>2, <2>1, Recolored
<1> HIDE DEF c
<1>6. /\ d \in View /\ d.exec = (IF status = "failed" THEN "failed" ELSE "idle") /\ d.run = t
      /\ d.reported = FALSE /\ d.active = None /\ d.streamed = p.streamed /\ d.msgs = c.msgs
  BY <1>1, <1>4, <1>5 DEF View, SameRun
<1>7. Repaints(p.msgs, d.msgs, id, status)
  BY <1>5, <1>6
<1>8. \A i \in DOMAIN p.msgs : p.msgs[i].id # d.active =>
        IF p.msgs[i].id = id THEN Rests(ts, id, status) ELSE p.msgs[i].id # p.active
  <2>1. \A i \in DOMAIN p.msgs : p.msgs[i].id # None
    BY <1>2, RowIs
  <2> QED BY <1>1, <2>1
<1>9. d.active # None => Present(p.msgs, d.active)
  BY <1>6
<1>r. d.active # None => Present(d.msgs, d.active)
  BY <1>6
<1> HIDE DEF id
<1>10. Base(ts, d, n, w)
  BY <1>1, <1>6, <1>7, <1>8, <1>r, BaseRow
<1> QED BY <1>6, <1>7, <1>10 DEF Idled, id

(* The run under way ends.                                                    *)
Ending(ts, p, n, phase, w, own, reported, status) ==
  /\ Base(ts, p, n, w) /\ Holds(p, n, phase, w, own, reported) /\ phase \in {"running", "waiting"}
  /\ n \in 0..MaxTurns /\ n > 0 /\ w \in Nat
  /\ (phase = "waiting" => ~reported) /\ ts[n].how = status /\ reported \in BOOLEAN
  /\ status \in {"complete", "stopped", "failed"}
HasEnded(ts, p, d, n, w, status) ==
  /\ Base(ts, d, n, w) /\ d.streamed = p.streamed /\ Repaints(p.msgs, d.msgs, p.active, status)
  /\ \A own, reported : Holds(d, n, "ended", w, own, reported)

(* The end of the run under way is held by the view.                         *)
LEMMA EndHolds ==
  ASSUME NEW ts, NEW p, NEW n, NEW phase, NEW w, NEW own, NEW reported, NEW status,
         Ending(ts, p, n, phase, w, own, reported, status),
         NEW how, status = IF reported THEN "failed" ELSE how, NEW d, d = ApplyIdle(p, n, how)
  PROVE  HasEnded(ts, p, d, n, w, status)
<1>1. /\ Base(ts, p, n, w) /\ Holds(p, n, phase, w, own, reported) /\ phase \in {"running", "waiting"}
      /\ n \in 0..MaxTurns /\ w \in Nat /\ n \in Nat
      /\ (phase = "waiting" => ~reported) /\ ts[n].how = status /\ reported \in BOOLEAN
      /\ status \in {"complete", "stopped", "failed"}
  BY TurnAssumption DEF Ending
<1>2. p.exec = phase /\ p.run = n /\ p.reported = reported
  BY <1>1 DEF Holds
<1>3. SettledAs(p, n, how) = status
  BY <1>1, <1>2 DEF SettledAs, Reported
<1>4. p.active # None => Rests(ts, p.active, status)
  <2>1. p.active # None => p.active = Host(n) \/ p.active \in Strays \/ p.active = Reply(n, w)
    BY <1>1 DEF Holds
  <2>2. ~Stored(Host(n)) /\ (\A st \in Strays : ~Stored(st)) /\ Reply(n, w)[2] = n
    BY <1>1, Names DEF Stored
  <2> QED BY <1>1, <2>1, <2>2 DEF Rests
<1>5. Idling(ts, p, n, w, n, status)
  BY <1>1, <1>4 DEF Idling
<1>6. Idled(ts, p, d, n, w, n, status)
  BY <1>3, <1>5, IdleIs
<1>7. d.active = None /\ d.exec \notin {"running", "waiting"} /\ d.reported = FALSE
  BY <1>6 DEF Idled
<1>8. \A o, b : Holds(d, n, "ended", w, o, b)
  <2> DEFINE ended == "ended"
  <2>1. ended \notin {"running", "waiting", "asked"}
    OBVIOUS
  <2> HIDE DEF ended
  <2>2. \A o, b : Holds(d, n, ended, w, o, b)
    BY <1>7, <2>1 DEF Holds, Ongoing
  <2> QED BY <2>2 DEF ended
<1> QED BY <1>6, <1>8 DEF Idled, HasEnded

(* A notice comes.                                                            *)
Noticing(ts, p, n, phase, w, own, reported) ==
  /\ Base(ts, p, n, w) /\ Holds(p, n, phase, w, own, reported) /\ n \in Nat /\ w \in Nat
  /\ phase \in {"none", "asked", "running", "waiting", "ended"} /\ (n > 0 \/ phase = "none")
HasNotice(ts, p, d, n, phase, w, own, reported) ==
  /\ Base(ts, d, n, w) /\ Holds(d, n, phase, w, own, reported) /\ SameRun(p, d)
  /\ Same(p.msgs, d.msgs, {None, Host(n), Notice}) /\ (w > 0 => d.active = p.active)

(* A notice leaves the view's run as it was.                                 *)
LEMMA NoticeHolds ==
  ASSUME NEW ts, NEW p, NEW n, NEW phase, NEW w, NEW own, NEW reported,
         Noticing(ts, p, n, phase, w, own, reported),
         NEW d, d = ApplyNotice(p)
  PROVE  HasNotice(ts, p, d, n, phase, w, own, reported)
<1>1. /\ Base(ts, p, n, w) /\ Holds(p, n, phase, w, own, reported) /\ n \in Nat /\ w \in Nat
      /\ phase \in {"none", "asked", "running", "waiting", "ended"} /\ (n > 0 \/ phase = "none")
  BY DEF Noticing
<1>2. /\ p \in View /\ p.msgs \in Seq(Row) /\ (p.active # None => Present(p.msgs, p.active))
      /\ \A i \in DOMAIN p.msgs : p.msgs[i] \in Row
      /\ \A i \in DOMAIN p.msgs : p.msgs[i].role = "user" <=> p.msgs[i].id[1] = "user"
      /\ p.msgs # <<>> => Len(p.msgs) \in DOMAIN p.msgs /\ Last(p.msgs) = p.msgs[Len(p.msgs)]
  BY <1>1, Based
<1>3. Active(p) = p.active
  BY <1>2, Activity
<1>4. Notice \in Part /\ Notice[1] = "notice" /\ Notice \in Id
  BY Names
<1>5. d = OnMessage(p, IF p.exec = "running" THEN (IF p.active # None THEN p.active ELSE Host(p.run))
                       ELSE IF LastReply(p) # None THEN LastReply(p) ELSE Notice, "reply", Parting(Notice))
  BY <1>3 DEF ApplyNotice, Put, Parting
<1>6. CASE p.exec = "running"
  <2>1. phase = "running" /\ p.run = n
    BY <1>1, <1>6 DEF Holds, Ongoing
  <2> DEFINE part == Notice
  <2>2. d = OnMessage(p, IF p.active = None THEN Host(n) ELSE p.active, "reply", Parting(part))
    BY <1>5, <1>6, <2>1
  <2>3. InTurn(ts, p, n, w, own, reported, part)
    BY <1>1, <1>4, <2>1 DEF InTurn
  <2> HIDE DEF part
  <2>4. TurnHas(ts, p, d, n, w, own, reported)
    BY <2>2, <2>3, PartHolds
  <2> QED BY <2>1, <2>4 DEF TurnHas, HasNotice, Same
<1>7. CASE p.exec # "running" /\ LastReply(p) # None
  <2> DEFINE id == LastReply(p)
             part == Notice
  <2>1. Present(p.msgs, id) /\ d = OnMessage(p, id, "reply", Parting(part))
    BY <1>2, <1>5, <1>7, LastReplyIs
  <2>2. part \in Part /\ part[1] \in {"divider", "notice"}
    BY <1>4
  <2> HIDE DEF id, part
  <2>3. /\ Base(ts, d, n, w) /\ SameRun(p, d) /\ d.active = p.active
        /\ Repaints(p.msgs, d.msgs, None, "none")
    BY <1>1, <2>1, <2>2, RowGrown
  <2>4. Holds(d, n, phase, w, own, reported)
    BY <1>1, <1>2, <2>3, GrownHolds
  <2>5. Same(p.msgs, d.msgs, {None})
    BY <1>2, <2>3, RepaintsSame
  <2> QED BY <2>3, <2>4, <2>5 DEF Same, HasNotice
<1>8. CASE p.exec # "running" /\ LastReply(p) = None
  <2>1. \A i \in DOMAIN p.msgs : p.msgs[i].role = "user"
    BY <1>2, <1>8, LastReplyIs
  <2>2. ~Present(p.msgs, Notice)
    BY <1>2, <1>4, <2>1 DEF Present
  <2>3. p.active = None
    <3> SUFFICES ASSUME p.active # None PROVE FALSE
      OBVIOUS
    <3>1. PICK i \in DOMAIN p.msgs : p.msgs[i].id = p.active
      BY <1>2 DEF Present
    <3>2. p.active[1] = "user"
      BY <1>2, <2>1, <3>1
    <3>3. p.active = Host(n) \/ p.active \in Strays \/ p.active = Reply(n, w)
      BY <1>1 DEF Holds
    <3> QED BY <1>1, <1>4, <3>2, <3>3, Names
  <2>4. phase \notin {"running", "waiting"}
    BY <1>1, <1>8, <2>3 DEF Holds, Ongoing
  <2> DEFINE id == Notice
             part == Notice
  <2>5. Standing(ts, p, n, w, n, id, part)
    <3>1. p.msgs # <<>> => Last(p.msgs).role = "user"
      BY <1>2, <2>1
    <3> QED BY <1>1, <1>4, <1>8, <2>1, <2>2, <2>3, <3>1 DEF Standing
  <2>6. d = OnMessage(p, id, "reply", Parting(part))
    BY <1>5, <1>8
  <2> HIDE DEF id, part
  <2>7. StandsOn(ts, p, d, n, w, n, id, part)
    BY <2>5, <2>6, StandsAlone
  <2>8. /\ Base(ts, d, n, w) /\ SameRun(p, d) /\ d.active = None /\ d.msgs # <<>>
        /\ Last(d.msgs).id = Notice /\ Adds(p.msgs, d.msgs, Notice) /\ Same(p.msgs, d.msgs, {Notice})
    BY <2>7 DEF StandsOn, id
  <2>9. phase = "asked" => ~Present(d.msgs, Host(n))
    <3>1. Host(n) # Notice /\ Host(n) # None
      BY DEF Host, Notice, None
    <3> QED BY <1>1, <2>3, <2>8, <3>1 DEF Adds, Holds
  <2>11. Last(d.msgs).id \in Strays
    BY <2>8 DEF Strays
  <2>10. Holds(d, n, phase, w, own, reported)
    BY <1>1, <2>3, <2>4, <2>8, <2>9, <2>11 DEF Holds, Ongoing, SameRun
  <2> QED BY <2>3, <2>8, <2>10 DEF Same, HasNotice
<1> QED BY <1>6, <1>7, <1>8

(* The last turn goes on.                                                      *)
Stage(ts, us, turn, p) ==
  /\ SessionOK(ts) /\ Told(ts, p) /\ SessionOK(us) /\ turn \in Turn /\ Turned(ts, us, turn)
  /\ (turn.own <=> OwnOf(ts)) /\ (turn.how = ts[Len(ts)].how \/ ts[Len(ts)].how = "complete")
Staged(ts, us, turn, p, n, w) ==
  /\ n \in Nat /\ n > 0 /\ n \in 0..MaxTurns /\ w \in Nat /\ Len(us) = n /\ Len(ts) = n
  /\ Base(us, p, n, w) /\ Holds(p, n, PhaseOf(ts), w, turn.own, ReportedOf(ts)) /\ Counted(us, n)
  /\ (p.streamed # 0 => PhaseOf(ts) = "asked" /\ p.streamed = n) /\ turn.own \in BOOLEAN
  /\ PhaseOf(us) = turn.phase /\ Written(us) = turn.wrote /\ OwnOf(us) = turn.own
  /\ ReportedOf(us) = turn.reported /\ us[n] = turn /\ ts[n] \in Turn /\ w = ts[n].wrote
  /\ PhaseOf(ts) = ts[n].phase /\ ReportedOf(ts) = ts[n].reported /\ OwnOf(ts) = ts[n].own

(* The facts that a step of the last turn starts from.                       *)
LEMMA StageIs ==
  ASSUME NEW ts, NEW us, NEW turn, NEW p, Stage(ts, us, turn, p)
  PROVE  Staged(ts, us, turn, p, Len(us), Written(ts))
<1> DEFINE n == Len(us)
           w == Written(ts)
<1>1. /\ SessionOK(ts) /\ Told(ts, p) /\ SessionOK(us) /\ turn \in Turn /\ Turned(ts, us, turn)
      /\ (turn.own <=> OwnOf(ts)) /\ (turn.how = ts[Len(ts)].how \/ ts[Len(ts)].how = "complete")
  BY DEF Stage
<1>2. n \in Nat /\ n <= MaxTurns /\ Counted(us, n) /\ OwnOf(us) \in BOOLEAN /\ ReportedOf(us) \in BOOLEAN
  BY <1>1, SessionIs
<1>3. w \in Nat /\ OwnOf(ts) \in BOOLEAN /\ ReportedOf(ts) \in BOOLEAN /\ Len(ts) \in Nat
      /\ \A t \in 1..Len(ts) : ts[t] \in Turn
  BY <1>1, SessionIs
<1>4. Len(ts) = n /\ n > 0 /\ us[n] = turn
  BY <1>1, <1>2 DEF Turned
<1>5. Base(ts, p, n, w) /\ Shows(p, n, PhaseOf(ts), w, OwnOf(ts), ReportedOf(ts))
  BY <1>1, <1>4, ToldIs
<1>6. Base(us, p, n, w)
  <2>1. Base(ts, p, Len(ts), w)
    BY <1>4, <1>5
  <2> HIDE DEF w
  <2> QED BY <1>1, <1>3, <2>1, BaseTurned
<1>7. turn.own \in BOOLEAN /\ turn.reported \in BOOLEAN
  BY <1>1 DEF Turn
<1>8. OwnOf(ts) = turn.own
  BY <1>1, <1>3, <1>7
<1>9. Holds(p, n, PhaseOf(ts), w, turn.own, ReportedOf(ts)) /\ (p.streamed # 0 => PhaseOf(ts) = "asked" /\ p.streamed = n)
  BY <1>5, <1>8 DEF Shows
<1>10. /\ PhaseOf(us) = turn.phase /\ Written(us) = turn.wrote /\ (OwnOf(us) <=> turn.own)
       /\ (ReportedOf(us) <=> turn.reported)
  <2>1. Turned(ts, us, turn) \/ Lengthened(ts, us, turn)
    BY <1>1
  <2> QED BY <1>1, <2>1, LastIs
<1>11. OwnOf(us) = turn.own /\ ReportedOf(us) = turn.reported
  BY <1>2, <1>7, <1>10
<1>12. n \in 0..MaxTurns
  BY <1>2, TurnAssumption
<1>13. /\ ts[n] \in Turn /\ w = ts[n].wrote /\ PhaseOf(ts) = ts[n].phase /\ ReportedOf(ts) = ts[n].reported
       /\ OwnOf(ts) = ts[n].own
  <2>1. ts # <<>> /\ n \in 1..Len(ts)
    BY <1>2, <1>3, <1>4
  <2>2. ts[n] \in Turn
    BY <1>3, <2>1
  <2>3. ts[n].own \in BOOLEAN /\ ts[n].reported \in BOOLEAN
    BY <2>2 DEF Turn
  <2>4. (ReportedOf(ts) <=> ts[n].reported) /\ (OwnOf(ts) <=> ts[n].own)
    BY <1>4, <2>1 DEF ReportedOf, OwnOf
  <2> QED BY <1>3, <1>4, <2>1, <2>2, <2>3, <2>4 DEF Written, PhaseOf
<1> QED BY <1>2, <1>3, <1>4, <1>6, <1>7, <1>9, <1>10, <1>11, <1>12, <1>13 DEF
           Staged

(* What it takes to show an update of the last turn.                           *)
Step(ts, us, turn, p, d, u, ids) ==
  /\ Stage(ts, us, turn, p) /\ turn.phase # "ended" /\ u.from \in 0..MaxTurns
  /\ Base(us, d, Len(us), turn.wrote)
  /\ Holds(d, Len(us), turn.phase, turn.wrote, turn.own, turn.reported)
  /\ \/ u.kind \in States
     \/ /\ u.kind \notin States /\ (Ongoing(d) \/ u.from = 0)
        /\ d.streamed # 0 => turn.phase = "asked" /\ d.streamed = Len(us)
  /\ Same(p.msgs, d.msgs, ids) /\ \A id \in ids : id # None /\ Stored(id) => id[2] = Len(us)
  /\ turn.phase \in {"running", "waiting"} /\ turn.wrote > 0 /\ Watched(ts, p) => d.active = Reply(Len(us), turn.wrote)

(* A step whose update shows the turn as it has become keeps both views'     *)
(* invariants.                                                               *)
LEMMA Stepped ==
  ASSUME NEW ts, NEW us, NEW turn, NEW p, NEW d, NEW u, NEW ids,
         Step(ts, us, turn, p, d, u, ids),
         NEW q, q = Noted(p, d, u)
  PROVE  Keeps(ts, us, p, q)
<1> DEFINE n == Len(us)
           w == Written(ts)
<1>1. /\ Stage(ts, us, turn, p) /\ turn.phase # "ended" /\ u.from \in 0..MaxTurns
      /\ Base(us, d, n, turn.wrote) /\ Holds(d, n, turn.phase, turn.wrote, turn.own, turn.reported)
      /\ Same(p.msgs, d.msgs, ids) /\ \A id \in ids : id # None /\ Stored(id) => id[2] = n
      /\ turn.phase \in {"running", "waiting"} /\ turn.wrote > 0 /\ Watched(ts, p) => d.active = Reply(n, turn.wrote)
  BY DEF Step
<1>2. Staged(ts, us, turn, p, n, w)
  BY <1>1, StageIs
<1>3. /\ SessionOK(ts) /\ Told(ts, p) /\ SessionOK(us) /\ Turned(ts, us, turn)
  BY <1>1 DEF Stage
<1>4. /\ PhaseOf(us) = turn.phase /\ Written(us) = turn.wrote /\ OwnOf(us) = turn.own
      /\ ReportedOf(us) = turn.reported /\ us[n] = turn
  BY <1>2 DEF Staged
<1> DEFINE jds == ids \ {None}
<1>s. Same(p.msgs, d.msgs, jds)
  <2>1. \A i \in DOMAIN d.msgs : d.msgs[i] \in Row
    BY <1>1, Based
  <2>2. \A i \in DOMAIN d.msgs : d.msgs[i].id # None
    BY <2>1, RowIs
  <2> QED BY <1>1, <2>2 DEF Same
<1>5. Watching(ts, us, p, d, jds)
  <2>1. \A t \in 1..Len(ts) : us[t].phase = "ended" => us[t] = ts[t]
    BY <1>1, <1>3, StillOn
  <2>2. \A id \in jds : Stored(id) => us[id[2]].phase # "ended"
    BY <1>1, <1>4
  <2> HIDE DEF jds
  <2> QED BY <1>s, <1>1, <1>3, <1>4, <2>1, <2>2 DEF Watching
<1> HIDE DEF jds
<1>6. Watched(ts, p) => Watched(us, d)
  BY <1>5, WatchedOn
<1>7. \/ u.kind \in States
      \/ /\ u.kind \notin States /\ (Ongoing(d) \/ u.from = 0)
         /\ d.streamed # 0 => PhaseOf(us) = "asked" /\ d.streamed = Len(us)
  BY <1>4 DEF Step
<1>8. Goes(ts, us, p, d, u)
  BY <1>1, <1>3, <1>4, <1>6, <1>7 DEF Goes
<1> QED BY <1>8, Onward

(* Every update of the last turn is shown.                                     *)
LEMMA ToldBegin ==
  ASSUME NEW ts, NEW us, NEW turn, NEW p, Stage(ts, us, turn, p), PhaseOf(ts) = "asked",
         Written(ts) = 0,
         turn.phase = "running", turn.wrote = 0, turn.reported = FALSE,
         NEW q, q = Apply(p, Update("running", Len(us)))
  PROVE  Keeps(ts, us, p, q)
<1> DEFINE n == Len(us)
           u == Update("running", n)
           d == ApplyRunning(p, n, TRUE)
           ids == Strays
<1>1. Staged(ts, us, turn, p, n, 0)
  <2>1. Staged(ts, us, turn, p, Len(us), Written(ts))
    BY StageIs
  <2> QED BY <2>1
<1>2. u.kind = "running" /\ u.turn = n /\ u.from = n
  BY UpdateIs
<1> HIDE DEF u
<1>3. q = Noted(p, d, u)
  <2>1. Kind(p, u) = d
    BY <1>2, KindIs
  <2> QED BY <2>1 DEF Apply, u
<1> HIDE DEF n, d, ids
<1>4. HasBegun(us, p, d, n, turn.own)
  <2> DEFINE own == turn.own
             a == ReportedOf(ts)
  <2>1. Base(us, p, n, 0) /\ n \in 0..MaxTurns /\ n > 0 /\ Holds(p, n, "asked", 0, own, a) /\ own \in BOOLEAN
    BY <1>1 DEF Staged
  <2>2. d = ApplyRunning(p, n, TRUE)
    BY DEF d
  <2> HIDE DEF own, a
  <2>3. HasBegun(us, p, d, n, own)
    BY <2>1, <2>2, BeginHolds
  <2> QED BY <2>3 DEF own
<1>5. Step(ts, us, turn, p, d, u, ids)
  <2>1. (\A st \in Strays : ~Stored(st))
    BY Names DEF Stored
  <2>2. u.kind \in States /\ u.from \in 0..MaxTurns
    BY <1>1, <1>2 DEF States, Staged
  <2>3. Base(us, d, n, turn.wrote) /\ Holds(d, n, turn.phase, turn.wrote, turn.own, turn.reported) /\ Same(p.msgs, d.msgs, ids)
    BY <1>4 DEF HasBegun, ids
  <2>4. \A st \in Strays : st # None
    BY Names
  <2> QED BY <2>1, <2>2, <2>3, <2>4 DEF Step, n, ids
<1> QED BY <1>3, <1>5, Stepped

(* A reply is shown.                                                         *)
LEMMA ToldWrite ==
  ASSUME NEW ts, NEW us, NEW turn, NEW p, Stage(ts, us, turn, p), PhaseOf(ts) = "running",
         ReportedOf(ts) = FALSE,
         turn.phase = "running", turn.wrote = Written(ts) + 1, turn.reported = FALSE,
         NEW q, q = Apply(p, Said(Reply(Len(us), turn.wrote), FALSE, Len(us)))
  PROVE  Keeps(ts, us, p, q)
<1> DEFINE n == Len(us)
           w == Written(ts)
           j == turn.wrote
           u == Said(Reply(n, j), FALSE, n)
           d == OnMessage(p, Reply(n, j), "reply", Telling(FALSE))
           ids == {Reply(n, j), p.active}
<1>1. Staged(ts, us, turn, p, n, w)
  BY StageIs
<1>2. u.kind = "said" /\ u.id = Reply(n, j) /\ u.opens = FALSE /\ u.from = n
  BY DEF Said
<1> HIDE DEF u
<1>3. q = Noted(p, d, u)
  <2>1. Kind(p, u) = d
    <3>1. Kind(p, u) = OnMessage(p, u.id, "reply", Telling(u.opens))
      BY <1>2, KindIs
    <3> QED BY <1>2, <3>1
  <2> QED BY <2>1 DEF Apply, u
<1>j. j = w + 1
  OBVIOUS
<1> HIDE DEF n, w, j, d, ids
<1>4. Wrote(us, p, d, n, j, turn.own)
  <2> DEFINE own == turn.own
  <2>1. Writing(us, p, n, w, j, own)
    BY <1>1, <1>j DEF Staged, Writing
  <2>2. d = OnMessage(p, Reply(n, j), "reply", Telling(FALSE))
    BY DEF d
  <2> HIDE DEF own
  <2>3. Wrote(us, p, d, n, j, own)
    BY <2>1, <2>2, WriteHolds
  <2> QED BY <2>3 DEF own
<1>5. Step(ts, us, turn, p, d, u, ids)
  <2>1. u.kind \notin States /\ u.from \in 0..MaxTurns
    BY <1>1, <1>2 DEF States, Staged
  <2>2. Base(us, d, n, turn.wrote) /\ Holds(d, n, turn.phase, turn.wrote, turn.own, turn.reported)
        /\ Same(p.msgs, d.msgs, ids) /\ d.active = Reply(n, turn.wrote) /\ SameRun(p, d)
    BY <1>4 DEF Wrote, ids, j
  <2>3. Ongoing(d) /\ ~(d.streamed # 0)
    BY <1>1, <2>2 DEF Staged, Holds, Ongoing, SameRun
  <2>4. \A id \in ids : id # None /\ Stored(id) => id[2] = n
    <3>1. p.active = None \/ p.active = Host(n) \/ p.active \in Strays \/ p.active = Reply(n, w)
      BY <1>1 DEF Staged, Holds
    <3>2. n \in Nat /\ w \in Nat /\ j \in Nat
      BY <1>1, <1>j DEF Staged
    <3>3. ~Stored(Host(n)) /\ (\A st \in Strays : ~Stored(st)) /\ Reply(n, w)[2] = n /\ Reply(n, j)[2] = n
      BY <3>2, Names DEF Stored
    <3> QED BY <3>1, <3>3 DEF ids
  <2> QED BY <2>1, <2>2, <2>3, <2>4 DEF Step, n
<1> QED BY <1>3, <1>5, Stepped

(* A compaction is shown.                                                    *)
LEMMA ToldCompact ==
  ASSUME NEW ts, NEW us, NEW turn, NEW p, Stage(ts, us, turn, p), PhaseOf(ts) = "running",
         ReportedOf(ts) = FALSE,
         turn.phase = "running", turn.wrote = Written(ts), turn.reported = FALSE,
         NEW q, q = Apply(p, Update("compaction", Len(us)))
  PROVE  Keeps(ts, us, p, q)
<1> DEFINE n == Len(us)
           w == Written(ts)
           u == Update("compaction", n)
           d == ApplyCompaction(p, n)
           ids == {None, Host(n)}
<1>1. Staged(ts, us, turn, p, n, w)
  BY StageIs
<1>2. u.kind = "compaction" /\ u.turn = n /\ u.from = n
  BY UpdateIs
<1> HIDE DEF u
<1>3. q = Noted(p, d, u)
  <2>1. Kind(p, u) = d
    BY <1>2, KindIs
  <2> QED BY <2>1 DEF Apply, u
<1>w. turn.wrote = w
  OBVIOUS
<1> HIDE DEF n, w, ids
<1>4. TurnHas(us, p, d, n, w, turn.own, FALSE)
  <2>1. /\ Base(us, p, n, w) /\ n \in Nat /\ n > 0 /\ w \in Nat /\ Holds(p, n, "running", w, turn.own, FALSE)
        /\ p.exec = "running"
    BY <1>1 DEF Staged, Holds
  <2>2. p \in View /\ p.msgs \in Seq(Row) /\ (p.active # None => Present(p.msgs, p.active))
    BY <2>1, Based
  <2>3. Active(p) = p.active
    BY <2>2, Activity
  <2>4. CASE HasPart(p, n)
    <3>1. d = p
      BY <2>4 DEF ApplyCompaction
    <3> QED BY <2>1, <3>1 DEF TurnHas, SameRun, Same
  <2>5. CASE ~HasPart(p, n)
    <3> DEFINE part == Divider(n)
               own == turn.own
               no == FALSE
    <3>1. d = OnMessage(p, IF p.active = None THEN Host(n) ELSE p.active, "reply", Parting(part))
      BY <2>1, <2>3, <2>5 DEF ApplyCompaction, Put, Parting
    <3>2. part \in Part /\ part[1] \in {"divider", "notice"}
      BY <2>1, Names
    <3>3. InTurn(us, p, n, w, own, no, part)
      BY <2>1, <3>2 DEF InTurn
    <3> HIDE DEF part, own, no, d
    <3>4. TurnHas(us, p, d, n, w, own, no)
      BY <3>1, <3>3, PartHolds
    <3> QED BY <3>4 DEF own, no
  <2> QED BY <2>4, <2>5
<1> HIDE DEF d
<1>5. Step(ts, us, turn, p, d, u, ids)
  <2>1. u.kind \notin States /\ u.from \in 0..MaxTurns
    BY <1>1, <1>2 DEF States, Staged
  <2>2. Base(us, d, n, turn.wrote) /\ Holds(d, n, turn.phase, turn.wrote, turn.own, turn.reported)
        /\ Same(p.msgs, d.msgs, ids) /\ SameRun(p, d) /\ (w > 0 => d.active = p.active)
    BY <1>4, <1>w DEF TurnHas, ids
  <2>3. Ongoing(d) /\ ~(d.streamed # 0)
    BY <1>1, <2>2 DEF Staged, Holds, Ongoing, SameRun
  <2>4. \A id \in ids : id # None /\ Stored(id) => id[2] = n
    BY <1>1, Names DEF ids, Stored, Staged
  <2>5. w > 0 /\ Watched(ts, p) => d.active = Reply(n, w)
    <3>1. Len(ts) = n
      BY <1>1 DEF Staged
    <3> QED BY <2>2, <3>1 DEF Watched, w
  <2> QED BY <1>w, <2>1, <2>2, <2>3, <2>4, <2>5 DEF Step, n
<1> QED BY <1>3, <1>5, Stepped

(* A notice is shown.                                                        *)
LEMMA ToldNotice ==
  ASSUME NEW ts, SessionOK(ts), NEW p, Told(ts, p), NEW q,
         q = Apply(p, From(Update("notice", Len(ts)), 0))
  PROVE  Keeps(ts, ts, p, q)
<1> DEFINE n == Len(ts)
           w == Written(ts)
           u == From(Update("notice", n), 0)
           d == ApplyNotice(p)
           phase == PhaseOf(ts)
           own == OwnOf(ts)
           reported == ReportedOf(ts)
           ids == {Host(n), Notice}
<1>1. /\ Base(ts, p, n, w) /\ Holds(p, n, phase, w, own, reported)
      /\ (p.streamed # 0 => phase = "asked" /\ p.streamed = n)
  BY ToldIs DEF Shows
<1>2. u.kind = "notice" /\ u.from = 0
  BY UpdateIs
<1> HIDE DEF u
<1>3. q = Noted(p, d, u)
  <2>1. Kind(p, u) = d
    BY <1>2, KindIs
  <2> QED BY <2>1 DEF Apply, u
<1>4. n \in Nat /\ w \in Nat /\ phase \in {"none", "asked", "running", "waiting", "ended"}
      /\ (n > 0 \/ phase = "none")
  <2>1. /\ n \in Nat /\ w \in Nat /\ (ts # <<>> <=> n > 0)
        /\ \A t \in 1..n : ts[t].phase \in {"asked", "running", "waiting", "ended"}
    BY SessionIs
  <2> QED BY <2>1 DEF PhaseOf
<1>5. Noticing(ts, p, n, phase, w, own, reported)
  BY <1>1, <1>4 DEF Noticing
<1>6. HasNotice(ts, p, d, n, phase, w, own, reported)
  <2>1. d = ApplyNotice(p)
    OBVIOUS
  <2> HIDE DEF n, w, d, phase, own, reported
  <2> QED BY <1>5, <2>1, NoticeHolds
<1> HIDE DEF d
<1>7. /\ Base(ts, d, n, w) /\ Holds(d, n, phase, w, own, reported) /\ SameRun(p, d)
      /\ Same(p.msgs, d.msgs, {None, Host(n), Notice}) /\ (w > 0 => d.active = p.active)
  BY <1>6 DEF HasNotice
<1>8. Watching(ts, ts, p, d, ids)
  <2>1. Same(p.msgs, d.msgs, ids)
    <3>1. \A i \in DOMAIN d.msgs : d.msgs[i] \in Row
      BY <1>7, Based
    <3>2. \A i \in DOMAIN d.msgs : d.msgs[i].id # None
      BY <3>1, RowIs
    <3> QED BY <1>7, <3>2 DEF Same
  <2>2. \A id \in ids : Stored(id) => ts[id[2]].phase # "ended"
    BY <1>4, Names DEF Stored
  <2>3. phase \in {"running", "waiting"} /\ w > 0 /\ Watched(ts, p) => d.active = Reply(n, w)
    BY <1>7 DEF Watched
  <2> QED BY <2>1, <2>2, <2>3 DEF Watching
<1>9. Watched(ts, p) => Watched(ts, d)
  <2> HIDE DEF ids
  <2> QED BY <1>8, WatchedOn
<1>10. u.kind \notin States /\ u.from = 0 /\ (d.streamed # 0 => phase = "asked" /\ d.streamed = n) /\ 0 \in 0..MaxTurns
  BY <1>1, <1>2, <1>7, TurnAssumption DEF States, SameRun
<1>11. Goes(ts, ts, p, d, u)
  BY <1>7, <1>9, <1>10 DEF Goes
<1> QED BY <1>3, <1>11, Onward

(* A wait, or a failure that is reported, is shown.                          *)
LEMMA ToldMark ==
  ASSUME NEW ts, NEW us, NEW turn, NEW p, Stage(ts, us, turn, p), PhaseOf(ts) = "running",
         ReportedOf(ts) = FALSE,
         turn.wrote = Written(ts), NEW kind, NEW q, q = Apply(p, Update(kind, Len(us))),
         \/ /\ kind = "waiting" /\ turn.phase = "waiting" /\ turn.reported = FALSE
            /\ (turn.own => turn.wrote > 0)
         \/ kind = "failing" /\ turn.phase = "running" /\ turn.reported = TRUE
  PROVE  Keeps(ts, us, p, q)
<1> DEFINE n == Len(us)
           w == Written(ts)
           u == Update(kind, n)
           e == turn.phase
           b == turn.reported
           status == IF b THEN "failed" ELSE "waiting"
           id == IF p.active = None THEN Host(n) ELSE p.active
           r == Run(p, e, n, b)
           d == [OnMessage(r, id, "reply", Marking(status)) EXCEPT !.active = id]
           ids == {p.active, Host(n)}
<1>1. Staged(ts, us, turn, p, n, w)
  BY StageIs
<1>2. u.kind = kind /\ u.turn = n /\ u.from = n
  BY UpdateIs
<1>a. p \in View /\ Active(p) = p.active /\ p.exec = "running" /\ Ongoing(p)
  <2>1. Base(us, p, n, w) /\ Holds(p, n, "running", w, turn.own, FALSE)
    BY <1>1 DEF Staged
  <2>2. p \in View /\ p.msgs \in Seq(Row) /\ (p.active # None => Present(p.msgs, p.active))
    BY <2>1, Based
  <2> QED BY <2>1, <2>2, Activity DEF Holds, Ongoing
<1> HIDE DEF u
<1>3. q = Noted(p, d, u)
  <2>1. Kind(p, u) = d
    <3>1. CASE kind = "waiting"
      <4>1. Kind(p, u) = ApplyWait(p, n)
        BY <1>2, <3>1, KindIs
      <4>2. WaitHost(p, n) = id
        BY <1>a DEF WaitHost
      <4> HIDE DEF id
      <4>3. b = FALSE /\ e = "waiting" /\ status = "waiting"
        BY <3>1
      <4> QED BY <4>1, <4>2, <4>3 DEF ApplyWait, Run, Marking
    <3>2. CASE kind = "failing"
      <4>1. Kind(p, u) = ApplyRunningFailure(p, n)
        BY <1>2, <3>2, KindIs
      <4>2. id = IF Active(p) = None THEN Host(n) ELSE Active(p)
        BY <1>a
      <4> HIDE DEF id
      <4>3. b = TRUE /\ e = "running" /\ status = "failed"
        BY <3>2
      <4> QED BY <4>1, <4>2, <4>3 DEF ApplyRunningFailure, Run, Marking
    <3> QED BY <3>1, <3>2
  <2> QED BY <2>1 DEF Apply, u
<1>w. turn.wrote = w
  OBVIOUS
<1>m. Marks(us, p, n, w, turn.own, e, b, status)
  <2>1. \A jd \in Replies(us, n, w) : Stored(jd)
    <3>1. n \in Nat /\ w \in Nat /\ \A i \in 1..n : us[i].wrote \in Nat
      BY <1>1 DEF Staged, Counted
    <3> HIDE DEF n, w
    <3> QED BY <3>1, RepliesAre
  <2> QED BY <1>1, <2>1 DEF Staged, Marks
<1> HIDE DEF n, w, e, b, status, ids
<1>4. HasMark(us, p, d, n, w, turn.own, e, b)
  <2> DEFINE own == turn.own
  <2>1. Marks(us, p, n, w, own, e, b, status)
    BY <1>m
  <2>2. r = Run(p, e, n, b) /\ id = (IF p.active = None THEN Host(n) ELSE p.active)
        /\ d = [OnMessage(r, id, "reply", Marking(status)) EXCEPT !.active = id]
    OBVIOUS
  <2> HIDE DEF own, r, id, d
  <2>3. HasMark(us, p, d, n, w, own, e, b)
    BY <2>1, <2>2, MarkHolds
  <2> QED BY <2>3 DEF own
<1> HIDE DEF d, id, r
<1>5. Step(ts, us, turn, p, d, u, ids)
  <2>1. u.kind \in States /\ u.from \in 0..MaxTurns
    BY <1>1, <1>2 DEF States, Staged
  <2>2. Base(us, d, n, turn.wrote) /\ Holds(d, n, turn.phase, turn.wrote, turn.own, turn.reported)
        /\ Same(p.msgs, d.msgs, ids) /\ (w > 0 => d.active = p.active)
    BY <1>4, <1>w DEF HasMark, ids, e, b
  <2>4. \A jd \in ids : jd # None /\ Stored(jd) => jd[2] = n
    <3>1. p.active = None \/ p.active = Host(n) \/ p.active \in Strays \/ p.active = Reply(n, w)
      BY <1>1 DEF Staged, Holds
    <3>2. n \in Nat /\ w \in Nat
      BY <1>1 DEF Staged
    <3>3. ~Stored(Host(n)) /\ (\A st \in Strays : ~Stored(st)) /\ Reply(n, w)[2] = n
      BY <3>2, Names DEF Stored
    <3> QED BY <3>1, <3>3 DEF ids
  <2>5. w > 0 /\ Watched(ts, p) => d.active = Reply(n, w)
    <3>1. Len(ts) = n
      BY <1>1 DEF Staged
    <3> QED BY <2>2, <3>1 DEF Watched, w
  <2>6. turn.phase # "ended"
    OBVIOUS
  <2> QED BY <1>w, <2>1, <2>2, <2>4, <2>5, <2>6 DEF Step, n
<1> QED BY <1>3, <1>5, Stepped

(* An answer is shown.                                                       *)
LEMMA ToldResume ==
  ASSUME NEW ts, NEW us, NEW turn, NEW p, Stage(ts, us, turn, p), PhaseOf(ts) = "waiting",
         ReportedOf(ts) = FALSE,
         turn.phase = "running", turn.wrote = Written(ts), turn.reported = FALSE,
         NEW q, q = Apply(p, From(Update("answered", Len(us)), 0))
  PROVE  Keeps(ts, us, p, q)
<1> DEFINE n == Len(us)
           w == Written(ts)
           u == From(Update("answered", n), 0)
           d == ResumeWait(p)
           ids == {p.active}
<1>1. Staged(ts, us, turn, p, n, w)
  BY StageIs
<1>2. u.kind = "answered" /\ u.from = 0
  BY UpdateIs
<1> HIDE DEF u
<1>3. q = Noted(p, d, u)
  <2>1. Kind(p, u) = d
    BY <1>2, KindIs
  <2> QED BY <2>1 DEF Apply, u
<1>w. turn.wrote = w
  OBVIOUS
<1> HIDE DEF n, w, ids
<1>4. HasResumed(us, p, d, n, w, turn.own)
  <2> DEFINE own == turn.own
  <2>1. Base(us, p, n, w) /\ Holds(p, n, "waiting", w, own, FALSE) /\ d = ResumeWait(p)
    BY <1>1 DEF Staged
  <2> HIDE DEF own, d
  <2>3. HasResumed(us, p, d, n, w, own)
    BY <2>1, ResumeHolds
  <2> QED BY <2>3 DEF own
<1> HIDE DEF d
<1>5. Step(ts, us, turn, p, d, u, ids)
  <2>1. u.kind \notin States /\ u.from \in 0..MaxTurns /\ u.from = 0
    BY <1>2, TurnAssumption DEF States
  <2>2. Base(us, d, n, turn.wrote) /\ Holds(d, n, turn.phase, turn.wrote, turn.own, turn.reported)
        /\ Same(p.msgs, d.msgs, ids) /\ d.active = p.active /\ d.streamed = p.streamed
    BY <1>4, <1>w DEF HasResumed, ids
  <2>3. ~(d.streamed # 0)
    BY <1>1, <2>2 DEF Staged
  <2>4. \A jd \in ids : jd # None /\ Stored(jd) => jd[2] = n
    <3>1. p.active = None \/ p.active = Host(n) \/ p.active \in Strays \/ p.active = Reply(n, w)
      BY <1>1 DEF Staged, Holds
    <3>2. n \in Nat /\ w \in Nat
      BY <1>1 DEF Staged
    <3>3. ~Stored(Host(n)) /\ (\A st \in Strays : ~Stored(st)) /\ Reply(n, w)[2] = n
      BY <3>2, Names DEF Stored
    <3> QED BY <3>1, <3>3 DEF ids
  <2>5. w > 0 /\ Watched(ts, p) => d.active = Reply(n, w)
    <3>1. Len(ts) = n
      BY <1>1 DEF Staged
    <3> QED BY <2>2, <3>1 DEF Watched, w
  <2> QED BY <1>w, <2>1, <2>2, <2>3, <2>4, <2>5 DEF Step, n
<1> QED BY <1>3, <1>5, Stepped

(* A run that is told again stays shown.                                     *)
LEMMA ToldRestate ==
  ASSUME NEW ts, NEW us, NEW turn, NEW p, Stage(ts, us, turn, p), PhaseOf(ts) = "running",
         ReportedOf(ts) = FALSE,
         turn.phase = "running", turn.wrote = Written(ts), turn.reported = FALSE,
         NEW q, q = Apply(p, Update("running", Len(us)))
  PROVE  Keeps(ts, us, p, q)
<1> DEFINE n == Len(us)
           w == Written(ts)
           u == Update("running", n)
           d == Run(p, "running", n, FALSE)
           ids == {None}
<1>1. Staged(ts, us, turn, p, n, w)
  BY StageIs
<1>2. u.kind = "running" /\ u.turn = n /\ u.from = n
  BY UpdateIs
<1>a. /\ p \in View /\ p.exec = "running" /\ p.run = n /\ p.reported = FALSE /\ p.streamed # n
      /\ Base(us, p, n, w) /\ Holds(p, n, "running", w, turn.own, FALSE) /\ n \in 0..MaxTurns
  <2>1. Base(us, p, n, w) /\ Holds(p, n, "running", w, turn.own, FALSE) /\ n \in 0..MaxTurns /\ n > 0
        /\ ~(p.streamed # 0)
    BY <1>1 DEF Staged
  <2>2. p \in View
    BY <2>1, Based
  <2> QED BY <2>1, <2>2 DEF Holds
<1> HIDE DEF u
<1>3. q = Noted(p, d, u)
  <2>1. Kind(p, u) = d
    <3>1. Kind(p, u) = ApplyRunning(p, n, TRUE)
      BY <1>2, KindIs
    <3>2. Reported(p, n) = FALSE
      BY <1>a DEF Reported
    <3> QED BY <1>a, <3>1, <3>2 DEF ApplyRunning, Announced, Run
  <2> QED BY <2>1 DEF Apply, u
<1>w. turn.wrote = w
  OBVIOUS
<1>d. d.msgs = p.msgs /\ d.active = p.active /\ d.exec = "running" /\ d.run = n /\ d.reported = FALSE /\ d \in View
  BY <1>a DEF Run, View
<1> HIDE DEF n, w, ids, d
<1>4. Base(us, d, n, w) /\ Holds(d, n, "running", w, turn.own, FALSE) /\ Same(p.msgs, d.msgs, ids)
  <2>1. Base(us, d, n, w)
    BY <1>a, <1>d, BaseRun
  <2>2. Holds(d, n, "running", w, turn.own, FALSE)
    BY <1>a, <1>d DEF Holds, Ongoing
  <2> QED BY <1>d, <2>1, <2>2 DEF Same
<1>5. Step(ts, us, turn, p, d, u, ids)
  <2>1. u.kind \in States /\ u.from \in 0..MaxTurns
    BY <1>1, <1>2 DEF States, Staged
  <2>4. \A jd \in ids : jd # None /\ Stored(jd) => jd[2] = n
    BY DEF ids
  <2>5. w > 0 /\ Watched(ts, p) => d.active = Reply(n, w)
    <3>1. Len(ts) = n
      BY <1>1 DEF Staged
    <3> QED BY <1>d, <3>1 DEF Watched, w
  <2> QED BY <1>w, <1>4, <2>1, <2>4, <2>5 DEF Step, n
<1> QED BY <1>3, <1>5, Stepped

(* A run that no prompt started is shown.                                    *)
LEMMA ToldOwn ==
  ASSUME NEW ts, SessionOK(ts), NEW p, Told(ts, p),
         PhaseOf(ts) \notin {"asked", "running", "waiting"},
         NEW us, SessionOK(us), Lengthened(ts, us, NewTurn(TRUE, "running")),
         NEW q, q = Apply(p, Update("running", Len(us)))
  PROVE  Keeps(ts, us, p, q)
<1> DEFINE m == Len(us)
           n == Len(ts)
           u == Update("running", m)
           d == ApplyRunning(p, m, TRUE)
           ids == Strays
           turn == NewTurn(TRUE, "running")
<1>1. n \in Nat /\ m \in Nat /\ m > 0 /\ m = n + 1 /\ m \in 0..MaxTurns
      /\ Base(us, p, m, 0) /\ \A t \in 1..n : us[t] = ts[t]
  <2>1. n \in Nat /\ m \in Nat /\ m <= MaxTurns /\ Base(ts, p, n, Written(ts))
    BY SessionIs, ToldIs
  <2>2. Base(us, p, m, 0) /\ m = n + 1
    BY <2>1, BaseAdded
  <2> QED BY <2>1, <2>2, TurnAssumption DEF Lengthened
<1>2. /\ turn \in Turn /\ turn.phase = "running" /\ turn.wrote = 0 /\ turn.own = TRUE /\ turn.reported = FALSE
  BY TurnAssumption DEF NewTurn, Turn, NoCompaction
<1>3. PhaseOf(us) = "running" /\ Written(us) = 0 /\ OwnOf(us) = TRUE /\ ReportedOf(us) = FALSE /\ us[m] = turn
  <2> HIDE DEF turn
  <2>0. Lengthened(ts, us, turn)
    BY DEF turn
  <2>1. /\ PhaseOf(us) = turn.phase /\ Written(us) = turn.wrote /\ (OwnOf(us) <=> turn.own)
        /\ (ReportedOf(us) <=> turn.reported) /\ us[Len(us)] = turn
    BY <1>2, <2>0, LastIs
  <2>2. OwnOf(us) \in BOOLEAN /\ ReportedOf(us) \in BOOLEAN
    BY SessionIs
  <2> QED BY <1>2, <2>1, <2>2
<1>4. /\ Holds(p, n, PhaseOf(ts), Written(ts), OwnOf(ts), ReportedOf(ts)) /\ p.streamed # m
  <2>1. Shows(p, n, PhaseOf(ts), Written(ts), OwnOf(ts), ReportedOf(ts))
    BY ToldIs
  <2> QED BY <1>1, <2>1 DEF Shows
<1>5. ~Present(p.msgs, Host(m))
  BY <1>1, Unknown
<1>6. u.kind = "running" /\ u.turn = m /\ u.from = m
  BY UpdateIs
<1> HIDE DEF u
<1>7. q = Noted(p, d, u)
  <2>1. Kind(p, u) = d
    BY <1>6, KindIs
  <2> QED BY <2>1 DEF Apply, u
<1>8. HasBegun(us, p, d, m, TRUE)
  <2> DEFINE phase == PhaseOf(ts)
             w == Written(ts)
             a == OwnOf(ts)
             b == ReportedOf(ts)
  <2>1. Holds(p, n, phase, w, a, b) /\ phase \notin {"running", "waiting"} /\ p.streamed # m
        /\ d = ApplyRunning(p, m, TRUE)
    BY <1>4
  <2> HIDE DEF phase, w, a, b, n, m, d
  <2> QED BY <1>1, <1>5, <2>1, OwnHolds
<1> HIDE DEF d
<1>9. Base(us, d, m, 0) /\ Holds(d, m, "running", 0, TRUE, FALSE) /\ Same(p.msgs, d.msgs, ids)
  BY <1>8 DEF HasBegun
<1>10. Watching(ts, us, p, d, ids)
  <2>1. \A t \in 1..n : us[t].phase = "ended" => us[t] = ts[t]
    BY <1>1
  <2>2. \A id \in ids : Stored(id) => us[id[2]].phase # "ended"
    BY Names DEF Stored
  <2> QED BY <1>3, <1>9, <2>1, <2>2 DEF Watching
<1>11. Watched(ts, p) => Watched(us, d)
  <2> HIDE DEF ids
  <2> QED BY <1>10, WatchedOn
<1>12. Goes(ts, us, p, d, u)
  <2>1. u.kind \in States /\ u.from \in 0..MaxTurns
    BY <1>1, <1>6 DEF States
  <2> QED BY <1>3, <1>9, <1>11, <2>1 DEF Goes
<1> QED BY <1>7, <1>12, Onward

(* The end of a turn is shown.                                               *)
LEMMA ToldEnd ==
  ASSUME NEW ts, NEW us, NEW turn, NEW p, Stage(ts, us, turn, p),
         PhaseOf(ts) \in {"running", "waiting"},
         PhaseOf(ts) = "waiting" => ~ReportedOf(ts),
         turn.phase = "ended", turn.wrote = Written(ts), NEW how \in {"complete", "stopped", "failed"},
         turn.how = IF ReportedOf(ts) THEN "failed" ELSE how,
         NEW q, q = Apply(p, Update(how, Len(us)))
  PROVE  Keeps(ts, us, p, q)
<1> DEFINE n == Len(us)
           w == Written(ts)
           u == Update(how, n)
           d == ApplyIdle(p, n, how)
           status == turn.how
           phase == PhaseOf(ts)
           reported == ReportedOf(ts)
<1>1. Staged(ts, us, turn, p, n, w)
  BY StageIs
<1>2. u.kind = how /\ u.turn = n /\ u.from = n
  BY UpdateIs
<1> HIDE DEF u
<1>3. q = Noted(p, d, u)
  <2>1. Kind(p, u) = d
    BY <1>2, KindIs
  <2> QED BY <2>1 DEF Apply, u
<1>w. turn.wrote = w /\ status = (IF reported THEN "failed" ELSE how) /\ turn.phase = "ended"
  OBVIOUS
<1>4. Ending(us, p, n, phase, w, turn.own, reported, status)
  <2>1. reported \in BOOLEAN
    BY <1>1 DEF Staged, Turn
  <2>2. us[n].how = status
    BY <1>1 DEF Staged
  <2> QED BY <1>1, <2>1, <2>2 DEF Staged, Ending
<1>5. HasEnded(us, p, d, n, w, status)
  <2> DEFINE own == turn.own
  <2>1. Ending(us, p, n, phase, w, own, reported, status) /\ status = (IF reported THEN "failed" ELSE how)
        /\ d = ApplyIdle(p, n, how)
    BY <1>4
  <2> HIDE DEF own, n, w, d, status, phase, reported
  <2> QED BY <2>1, EndHolds
<1> HIDE DEF d, status, reported
<1>6. /\ Base(us, d, n, w) /\ Repaints(p.msgs, d.msgs, p.active, status) /\ d.streamed = p.streamed
      /\ Holds(d, n, "ended", w, turn.own, turn.reported)
  BY <1>5 DEF HasEnded
<1>7. SessionOK(ts) /\ Told(ts, p) /\ SessionOK(us) /\ Turned(ts, us, turn)
  BY DEF Stage
<1>8. u.kind \in States /\ u.from \in 0..MaxTurns
  BY <1>1, <1>2 DEF States, Staged
<1>9. /\ PhaseOf(us) = "ended" /\ Written(us) = w /\ OwnOf(us) = turn.own /\ ReportedOf(us) = turn.reported
      /\ us[n] = turn /\ Len(ts) = n /\ n \in Nat /\ w \in Nat /\ us[n].how = status /\ us[n].wrote = w
  BY <1>1, <1>w DEF Staged, status
<1>10. ASSUME Watched(ts, p) PROVE Watched(us, d)
  <2>1. EndsKnown(ts, p) /\ (w > 0 => p.active = Reply(n, w))
    BY <1>9, <1>10 DEF Watched
  <2>2. /\ p.msgs \in Seq(Row) /\ DOMAIN d.msgs = DOMAIN p.msgs
        /\ \A i \in DOMAIN p.msgs : Stored(p.msgs[i].id) => p.msgs[i].id[2] \in 1..n
        /\ \A i \in DOMAIN p.msgs : p.msgs[i] \in Row
    <3>1. p.msgs \in Seq(Row) /\ \A i \in DOMAIN p.msgs : p.msgs[i] \in Row
      BY <1>7, ToldIs
    <3>2. \A i \in DOMAIN p.msgs : Stored(p.msgs[i].id) => p.msgs[i].id[2] \in 1..Len(ts)
      BY <1>7, ToldIs
    <3> QED BY <1>6, <1>9, <3>1, <3>2 DEF Repaints
  <2>3. \A i \in DOMAIN p.msgs : d.msgs[i].id = p.msgs[i].id
          /\ d.msgs[i].status = IF p.msgs[i].id = p.active THEN status ELSE p.msgs[i].status
    BY <1>6 DEF Repaints
  <2>4. ASSUME NEW i \in DOMAIN p.msgs, Stored(p.msgs[i].id),
               us[p.msgs[i].id[2]].phase = "ended",
               p.msgs[i].id[3] = us[p.msgs[i].id[2]].wrote
        PROVE  d.msgs[i].status \in {"laid", us[p.msgs[i].id[2]].how}
    <3> DEFINE id == p.msgs[i].id
               t == id[2]
    <3>1. t \in 1..n /\ id = Reply(t, id[3]) /\ id[3] \in Nat /\ id[3] > 0
      <4>1. id \in Id
        BY <2>2, RowIs
      <4>2. Base(us, p, n, w) /\ \A j \in 1..n : us[j].wrote \in Nat
        BY <1>1 DEF Staged, Counted
      <4>3. id \in Replies(us, n, w)
        BY <4>2, <2>4, Based
      <4>4. id[3] \in 1..WroteIn(us, n, w, id[2]) /\ id[2] \in 1..n
        BY <1>9, <4>2, <4>3, RepliesAre
      <4>5. id = Reply(t, id[3]) /\ id[3] \in Nat
        BY <2>4, <4>1, Names DEF Stored
      <4>6. WroteIn(us, n, w, id[2]) \in Nat
        BY <1>9, <4>2, <4>4 DEF WroteIn
      <4> QED BY <4>4, <4>5, <4>6
    <3>2. CASE t = n
      <4>1. id = Reply(n, w) /\ w > 0
        BY <1>9, <2>4, <3>1, <3>2
      <4>2. id = p.active
        BY <2>1, <4>1
      <4> QED BY <1>9, <2>3, <3>2, <4>2
    <3>3. CASE t # n
      <4>1. us[t] = ts[t]
        BY <1>7, <1>9, <3>1, <3>3 DEF Turned
      <4>2. p.active # id
        <5>1. p.active = None \/ p.active = Host(n) \/ p.active \in Strays \/ p.active = Reply(n, w)
          BY <1>1 DEF Staged, Holds
        <5>2. Reply(n, w)[2] = n /\ ~Stored(Host(n)) /\ (\A st \in Strays : ~Stored(st))
          BY <1>9, Names DEF Stored
        <5>3. id # None
          BY <2>2, RowIs
        <5> QED BY <2>4, <3>3, <5>1, <5>2, <5>3
      <4>3. p.msgs[i].status \in {"laid", ts[t].how}
        BY <2>1, <2>4, <4>1 DEF EndsKnown
      <4> QED BY <2>3, <4>1, <4>2, <4>3
    <3> QED BY <3>2, <3>3
  <2>5. EndsKnown(us, d)
    BY <2>2, <2>3, <2>4 DEF EndsKnown
  <2> QED BY <1>9, <2>5 DEF Watched
<1>11. Goes(ts, us, p, d, u)
  BY <1>6, <1>7, <1>8, <1>9, <1>10 DEF Goes
<1> QED BY <1>3, <1>11, Onward

-----------------------------------------------------------------------------
(* A failure is laid on the latest reply, or stands alone where there is none.  *)

HasLaid(ts, p, d, n, phase, w, own, reported) ==
  /\ Base(ts, d, n, w) /\ Holds(d, n, phase, w, own, reported) /\ SameRun(p, d)
  /\ w > 0 => d.active = p.active
  /\ \/ \E id : Repaints(p.msgs, d.msgs, id, "laid")
     \/ Same(p.msgs, d.msgs, {Refused})

(* The latest reply reads as failed, and keeps its place in the run.          *)
LEMMA LaidOnRow ==
  ASSUME NEW ts, NEW p, NEW n, NEW phase, NEW w, NEW own, NEW reported,
         Noticing(ts, p, n, phase, w, own, reported), NEW id, Present(p.msgs, id),
         NEW d, d = OnMessage(p, id, "reply", Marking("laid"))
  PROVE  HasLaid(ts, p, d, n, phase, w, own, reported)
<1> DEFINE patch == Marking("laid")
<1>1. Base(ts, p, n, w) /\ Holds(p, n, phase, w, own, reported)
  BY DEF Noticing
<1>2. /\ p \in View /\ p.msgs \in Seq(Row) /\ (p.active # None => Present(p.msgs, p.active))
      /\ \A i \in DOMAIN p.msgs : p.msgs[i] \in Row
      /\ \A i \in DOMAIN p.msgs : IsHost(p.msgs[i].id) => Hosted(p.msgs[i].parts)
  BY <1>1, Based
<1>3. "laid" \in Statuses
  BY DEF Statuses
<1>4. patch \in Patch /\ patch.parts = {} /\ ~patch.opens /\ patch.status = "laid" /\ "laid" # "same"
  BY <1>3, MarkingIs
<1>5. id \in Id
  <2>1. PICK i \in DOMAIN p.msgs : p.msgs[i].id = id
    BY DEF Present
  <2> QED BY <1>2, <2>1, RowIs
<1>6. d = OnMessage(p, id, "reply", patch)
  OBVIOUS
<1> HIDE DEF patch
<1>7. Set(p, d, id, patch)
  <2>1. Hosted(patch.parts)
    BY <1>4 DEF Hosted
  <2> QED BY <1>2, <1>4, <1>5, <1>6, <2>1, OnRow
<1>8. d \in View /\ SameRun(p, d) /\ d.active = p.active /\ Repaints(p.msgs, d.msgs, id, "laid")
  BY <1>4, <1>7 DEF Set
<1>9. Base(ts, d, n, w)
  <2>1. Rests(ts, id, "laid")
    BY DEF Rests
  <2>2. \A i \in DOMAIN p.msgs : p.msgs[i].id # d.active =>
          IF p.msgs[i].id = id THEN Rests(ts, id, "laid") ELSE p.msgs[i].id # p.active
    BY <1>8, <2>1
  <2>3. d.active # None => Present(p.msgs, d.active)
    BY <1>2, <1>8
  <2> QED BY <1>1, <1>8, <2>2, <2>3, BaseRow
<1>10. /\ d.msgs = <<>> <=> p.msgs = <<>>
       /\ \A jd : Present(d.msgs, jd) <=> Present(p.msgs, jd)
       /\ p.msgs # <<>> => /\ Last(d.msgs).id = Last(p.msgs).id
                           /\ Last(d.msgs).status \in {"laid", Last(p.msgs).status}
  <2> DEFINE s == p.msgs
             r == d.msgs
  <2>1. s \in Seq(Row) /\ Repaints(s, r, id, "laid")
    BY <1>2, <1>8
  <2> HIDE DEF s, r
  <2>2. /\ r = <<>> <=> s = <<>>
        /\ \A jd : Present(r, jd) <=> Present(s, jd)
        /\ s # <<>> => /\ Last(r).id = Last(s).id
                       /\ Last(r).status = IF Last(s).id = id THEN "laid" ELSE Last(s).status
    BY <2>1, Repainted
  <2> QED BY <2>2 DEF s, r
<1>11. Ongoing(d) <=> Ongoing(p)
  BY <1>8 DEF Ongoing, SameRun
<1>12. d.exec = p.exec /\ d.run = p.run /\ d.reported = p.reported
  BY <1>8 DEF SameRun
<1>13. phase \in {"running", "waiting"} /\ w > 0 => p.msgs # <<>>
  BY <1>1 DEF Holds
<1>14. Holds(d, n, phase, w, own, reported)
  BY <1>1, <1>8, <1>10, <1>11, <1>12, <1>13 DEF Holds
<1> QED BY <1>8, <1>9, <1>14 DEF HasLaid

(* With no reply to read on, the failure is a message of its own.              *)
LEMMA LaidAlone ==
  ASSUME NEW ts, NEW p, NEW n, NEW phase, NEW w, NEW own, NEW reported,
         Noticing(ts, p, n, phase, w, own, reported), LastReply(p) = None,
         NEW d, d = OnMessage(p, Refused, "reply", Marking("laid"))
  PROVE  HasLaid(ts, p, d, n, phase, w, own, reported)
<1> DEFINE patch == Marking("laid")
           id == Refused
<1>1. /\ Base(ts, p, n, w) /\ Holds(p, n, phase, w, own, reported) /\ n \in Nat /\ w \in Nat
      /\ phase \in {"none", "asked", "running", "waiting", "ended"} /\ (n > 0 \/ phase = "none")
  BY DEF Noticing
<1>2. /\ p \in View /\ p.msgs \in Seq(Row) /\ (p.active # None => Present(p.msgs, p.active))
      /\ \A i \in DOMAIN p.msgs : p.msgs[i] \in Row
      /\ \A i \in DOMAIN p.msgs : IsHost(p.msgs[i].id) => Hosted(p.msgs[i].parts)
      /\ \A i \in DOMAIN p.msgs : p.msgs[i].role = "user" <=> p.msgs[i].id[1] = "user"
      /\ p.msgs # <<>> => Len(p.msgs) \in DOMAIN p.msgs /\ Last(p.msgs) = p.msgs[Len(p.msgs)]
  BY <1>1, Based
<1>3. \A i \in DOMAIN p.msgs : p.msgs[i].role = "user"
  BY <1>2, LastReplyIs
<1>4. /\ id \in Id /\ id # None /\ id[1] = "host" /\ id[2] = 0 /\ ~Stored(id) /\ id \in Strays
      /\ IsHost(id) /\ (n > 0 => Host(n) # id)
  <2>1. id \in Id /\ id # None /\ id[1] = "host" /\ id[2] = 0
    BY Names DEF Refused
  <2>2. Host(n)[2] = n
    BY DEF Host
  <2> QED BY <1>1, <2>1, <2>2 DEF Stored, IsHost, Strays
<1>5. "laid" \in Statuses
  BY DEF Statuses
<1>6. /\ patch \in Patch /\ patch.parts = {} /\ ~patch.opens
      /\ \A st : StatusOf(patch, st) = "laid"
  BY <1>5, MarkingIs
<1>7. d = OnMessage(p, id, "reply", patch)
  OBVIOUS
<1> HIDE DEF patch
<1>8. ~Present(p.msgs, id)
  BY <1>2, <1>3, <1>4 DEF Present
<1>9. p.active = None
  <2> SUFFICES ASSUME p.active # None PROVE FALSE
    OBVIOUS
  <2>1. PICK i \in DOMAIN p.msgs : p.msgs[i].id = p.active
    BY <1>2 DEF Present
  <2>2. p.active[1] = "user"
    BY <1>2, <1>3, <2>1
  <2>3. p.active = Host(n) \/ p.active \in Strays \/ p.active = Reply(n, w)
    BY <1>1 DEF Holds
  <2> QED BY <1>1, <2>2, <2>3, Names
<1>10. EmptyHost(p) = None
  <2>1. p.msgs # <<>> => ~IsHost(Last(p.msgs).id)
    <3>1. p.msgs # <<>> => Last(p.msgs).id[1] = "user"
      BY <1>2, <1>3
    <3> QED BY <3>1 DEF IsHost
  <2> QED BY <1>2, <1>9, <2>1, EmptyHostIs
<1> HIDE DEF id
<1>11. Added(p, d, id, patch)
  BY <1>2, <1>4, <1>6, <1>7, <1>8, <1>10, OnFresh
<1>12. Prior(p) = None
  BY <1>9 DEF Prior, Active
<1>13. d \in View /\ SameRun(p, d) /\ d.active = (IF p.exec = "running" THEN id ELSE None)
  BY <1>9, <1>11 DEF Added
<1>14. PICK s \in Seq(Row), x \in Row :
         /\ Prior(p) = None => s = p.msgs
         /\ x.id = id /\ x.role = "reply" /\ x.parts = patch.parts
         /\ x.status = StatusOf(patch, IF p.exec = "running" THEN "running" ELSE "none")
         /\ x.opens = (patch.opens \/ (/\ p.exec = "running" /\ Prior(p) = None
                                       /\ p.msgs # <<>> /\ Last(p.msgs).role = "reply"))
         /\ d.msgs = Append(s, x)
  BY <1>11 DEF Added
<1>15. /\ x.id = id /\ x.role = "reply" /\ x.parts = {} /\ x.status = "laid"
       /\ d.msgs = Append(p.msgs, x)
  BY <1>6, <1>12, <1>14
<1>16. p.msgs # <<>> => Last(p.msgs).role = "user"
  BY <1>2, <1>3
<1>17. /\ Base(ts, d, n, w) /\ Ends(d.msgs, x) /\ Adds(p.msgs, d.msgs, x.id)
       /\ Same(p.msgs, d.msgs, {x.id, id})
  <2>1. Hosted(x.parts)
    BY <1>15 DEF Hosted
  <2>2. n <= n /\ 0 <= n
    BY <1>1
  <2>3. Comes(ts, p, n, w, n, w, p.msgs, x)
    BY <1>1, <1>3, <1>4, <1>8, <1>14, <1>15, <1>16, <2>1, <2>2 DEF Comes
  <2>4. Repaints(p.msgs, p.msgs, id, "complete")
    BY <1>2, <1>8 DEF Repaints, Present
  <2>5. \A i \in DOMAIN p.msgs : p.msgs[i].id # None
    BY <1>2, RowIs
  <2>6. Rests(ts, x.id, x.status)
    BY <1>4, <1>15 DEF Rests
  <2>7. Moved(ts, p, d, p.msgs, x, id)
    BY <1>9, <1>13, <1>15, <2>4, <2>5, <2>6 DEF Moved
  <2> QED BY <2>3, <2>7, BaseFresh
<1>18. d.msgs # <<>> /\ Last(d.msgs).id = id /\ Adds(p.msgs, d.msgs, id) /\ Same(p.msgs, d.msgs, {id})
  BY <1>15, <1>17 DEF Ends
<1>19. /\ phase # "waiting" /\ ~(phase = "running" /\ w > 0)
       /\ (p.exec = "running" => phase = "running")
  BY <1>1, <1>9 DEF Holds, Ongoing
<1>20. Ongoing(d) <=> Ongoing(p)
  BY <1>13 DEF Ongoing, SameRun
<1>21. d.exec = p.exec /\ d.run = p.run /\ d.reported = p.reported
  BY <1>13 DEF SameRun
<1>22. phase \in {"running", "asked"} => ~Present(d.msgs, Host(n))
  <2> SUFFICES ASSUME phase \in {"running", "asked"} PROVE ~Present(d.msgs, Host(n))
    OBVIOUS
  <2>1. n > 0 /\ Host(n) # id
    BY <1>1, <1>4
  <2>2. Host(n) # None
    BY <1>1, Names
  <2>3. ~Present(p.msgs, Host(n))
    BY <1>1, <1>9, <2>2 DEF Holds
  <2> QED BY <1>18, <2>1, <2>3 DEF Adds
<1>23. d.active # None => d.active = id /\ phase = "running" /\ w = 0
  BY <1>1, <1>13, <1>19
<1>24. Holds(d, n, phase, w, own, reported)
  BY <1>1, <1>4, <1>18, <1>19, <1>20, <1>21, <1>22, <1>23 DEF Holds
<1>25. w > 0 => d.active = p.active
  BY <1>9, <1>23
<1> QED BY <1>13, <1>17, <1>18, <1>24, <1>25 DEF HasLaid, id

(* A refusal keeps a view told, and watching: a turn reads as it ended or as   *)
(* failed.                                                                    *)
LEMMA FailKeeps ==
  ASSUME NEW ts, SessionOK(ts), NEW p, Told(ts, p), NEW d, d = FailLatest(p)
  PROVE  Keeps(ts, ts, p, d)
<1> DEFINE n == Len(ts)
           w == Written(ts)
           phase == PhaseOf(ts)
           own == OwnOf(ts)
           reported == ReportedOf(ts)
<1>1. /\ Base(ts, p, n, w) /\ Holds(p, n, phase, w, own, reported) /\ p \in View /\ p.msgs \in Seq(Row)
      /\ (p.streamed # 0 => phase = "asked" /\ p.streamed = n)
      /\ \A i \in DOMAIN p.msgs : Stored(p.msgs[i].id) => p.msgs[i].id[2] \in 1..n
  BY ToldIs DEF Shows
<1>2. n \in Nat /\ w \in Nat /\ phase \in {"none", "asked", "running", "waiting", "ended"}
      /\ (n > 0 \/ phase = "none")
  <2>1. /\ n \in Nat /\ w \in Nat /\ (ts # <<>> <=> n > 0)
        /\ \A t \in 1..n : ts[t].phase \in {"asked", "running", "waiting", "ended"}
    BY SessionIs
  <2> QED BY <2>1 DEF PhaseOf
<1>3. Noticing(ts, p, n, phase, w, own, reported)
  BY <1>1, <1>2 DEF Noticing
<1>4. d = p \/ d = OnMessage(p, ReadsOn(p), "reply", Marking("laid"))
  BY DEF FailLatest, Marking
<1> HIDE DEF n, w, phase, own, reported
<1>5. CASE d = p
  BY <1>5 DEF Keeps
<1>6. CASE d = OnMessage(p, ReadsOn(p), "reply", Marking("laid"))
  <2>1. HasLaid(ts, p, d, n, phase, w, own, reported)
    <3>1. CASE LastReply(p) = None
      <4>1. d = OnMessage(p, Refused, "reply", Marking("laid"))
        BY <1>6, <3>1 DEF ReadsOn
      <4> QED BY <1>3, <3>1, <4>1, LaidAlone
    <3>2. CASE LastReply(p) # None
      <4> DEFINE id == LastReply(p)
      <4>1. Present(p.msgs, id) /\ d = OnMessage(p, id, "reply", Marking("laid"))
        BY <1>1, <1>6, <3>2, LastReplyIs DEF ReadsOn
      <4> HIDE DEF id
      <4> QED BY <1>3, <4>1, LaidOnRow
    <3> QED BY <3>1, <3>2
  <2>2. /\ Base(ts, d, n, w) /\ Holds(d, n, phase, w, own, reported) /\ SameRun(p, d)
        /\ w > 0 => d.active = p.active
    BY <2>1 DEF HasLaid
  <2>3. d.streamed # 0 => phase = "asked" /\ d.streamed = n
    BY <1>1, <2>2 DEF SameRun
  <2>4. Told(ts, d)
    BY <2>2, <2>3 DEF Told, Shows, n, w, phase, own, reported
  <2>5. ASSUME EndsKnown(ts, p) PROVE EndsKnown(ts, d)
    <3>1. CASE \E id : Repaints(p.msgs, d.msgs, id, "laid")
      <4>1. PICK id : Repaints(p.msgs, d.msgs, id, "laid")
        BY <3>1
      <4>2. DOMAIN d.msgs = DOMAIN p.msgs
        BY <1>1, <4>1, Repainted
      <4>3. \A i \in DOMAIN p.msgs : d.msgs[i].id = p.msgs[i].id /\ d.msgs[i].status \in {"laid", p.msgs[i].status}
        BY <4>1 DEF Repaints
      <4> QED BY <2>5, <4>2, <4>3 DEF EndsKnown
    <3>2. CASE Same(p.msgs, d.msgs, {Refused})
      <4>1. ~Stored(Refused)
        BY Names DEF Stored, Refused
      <4> DEFINE ids == {Refused}
      <4>2. \A id \in ids : Stored(id) => ts[id[2]].phase # "ended"
        BY <4>1
      <4>3. \A t \in 1..n : ts[t].phase = "ended" => ts[t] = ts[t]
        OBVIOUS
      <4>4. Same(p.msgs, d.msgs, ids)
        BY <3>2
      <4> HIDE DEF ids
      <4> QED BY <1>1, <2>5, <4>2, <4>3, <4>4, EndsKept
    <3> QED BY <2>1, <3>1, <3>2 DEF HasLaid
  <2>6. Watched(ts, p) => Watched(ts, d)
    BY <2>2, <2>5 DEF Watched, w
  <2> QED BY <2>4, <2>6 DEF Keeps
<1> QED BY <1>4, <1>5, <1>6

(* So does what a thread makes of an update its view is kept by.               *)
LEMMA HeardKeeps ==
  ASSUME NEW ts, NEW us, SessionOK(us), NEW p, NEW u, Keeps(ts, us, p, Apply(p, u))
  PROVE  Keeps(ts, us, p, Heard(p, u))
<1> DEFINE next == Apply(p, u)
<1>1. Told(us, next) /\ (Watched(ts, p) => Watched(us, next))
  BY DEF Keeps
<1>2. Heard(p, u) = IF FailedWithoutReply(p, next) THEN FailLatest(next) ELSE next
  BY DEF Heard
<1> HIDE DEF next
<1>3. Keeps(us, us, next, FailLatest(next))
  BY <1>1, FailKeeps
<1> QED BY <1>1, <1>2, <1>3 DEF Keeps

-----------------------------------------------------------------------------
(* The Session goes on.                                                       *)
TurnIs(turn) ==
  /\ turn.phase = "asked" => turn.wrote = 0 /\ turn.compacted = NoCompaction /\ ~turn.own
  /\ turn.phase \in {"asked", "waiting"} => ~turn.reported
  /\ turn.phase = "waiting" /\ turn.own => turn.wrote > 0
  /\ turn.phase # "ended" /\ ~turn.reported => turn.how = "complete"
  /\ turn.reported => turn.how = "failed"

(* Its last turn is another, or there is one more after one that ended.         *)
LEMMA Follows ==
  ASSUME NEW ts, SessionOK(ts), NEW turn \in Turn, TurnIs(turn), NEW us,
         \/ Turned(ts, us, turn)
         \/ Lengthened(ts, us, turn) /\ Len(ts) < MaxTurns /\ PhaseOf(ts) \in {"none", "ended"}
  PROVE  SessionOK(us)
<1>1. /\ ts \in Seq(Turn) /\ Len(ts) \in Nat /\ Len(ts) <= MaxTurns
      /\ \A t \in 1..Len(ts) : (t < Len(ts) => ts[t].phase = "ended") /\ TurnIs(ts[t])
  BY SessionIs DEF SessionOK, TurnIs
<1>2. /\ us \in Seq(Turn) /\ Len(us) \in Nat /\ Len(us) <= MaxTurns
      /\ \A t \in 1..Len(us) : (t < Len(us) => us[t].phase = "ended") /\ TurnIs(us[t])
  <2>1. CASE Turned(ts, us, turn)
    BY <1>1, <2>1, TurnAssumption DEF Turned
  <2>2. CASE Lengthened(ts, us, turn) /\ Len(ts) < MaxTurns /\ PhaseOf(ts) \in {"none", "ended"}
    <3>1. Len(ts) > 0 => ts[Len(ts)].phase = "ended"
      <4>1. Len(ts) > 0 => ts # <<>> /\ ts[Len(ts)].phase # "none"
        BY <1>1, SessionIs
      <4>. QED
        BY <2>2, <4>1 DEF PhaseOf
    <3>2. \A t \in 1..Len(ts) : us[t].phase = "ended" /\ TurnIs(us[t])
      BY <1>1, <2>2, <3>1 DEF Lengthened
    <3>3. Len(us) = Len(ts) + 1 /\ us[Len(ts) + 1] = turn /\ us \in Seq(Turn)
      BY <2>2 DEF Lengthened
    <3>. QED
      BY <1>1, <2>2, <3>2, <3>3, TurnAssumption
  <2>. QED
    BY <2>1, <2>2
<1>. HIDE DEF TurnIs
<1>3. \A t \in DOMAIN us : (t < Len(us) => us[t].phase = "ended") /\ TurnIs(us[t])
  BY <1>2
<1>. QED
  BY <1>2, <1>3 DEF SessionOK, TurnIs

(* A view that is gone still fits a Session in which turns only go on.          *)
GoesOn(ts, us) ==
  /\ Len(ts) <= Len(us)
  /\ \A t \in 1..Len(ts) : /\ us[t].own = ts[t].own /\ (ts[t].reported => us[t].reported)
                           /\ (us[t].phase = "asked" => ts[t].phase = "asked")

(* A view that is gone stays so while the Session's turns go on.             *)
LEMMA GoneStays ==
  ASSUME NEW ts, SessionOK(ts), NEW us, SessionOK(us), GoesOn(ts, us), NEW p, Gone(ts, p)
  PROVE  Gone(us, p)
<1>1. /\ DOMAIN ts = 1..Len(ts) /\ DOMAIN us = 1..Len(us) /\ Len(ts) \in Nat /\ Len(us) \in Nat
  BY SessionIs
<1>2. \A t \in DOMAIN ts : t \in DOMAIN us
  BY <1>1 DEF GoesOn
<1>. QED
  BY <1>1, <1>2 DEF Gone, GoesOn

(* An update of the Session is shown by every view that is told of it.          *)
Going(ts, us, u) ==
  /\ SessionOK(us) /\ \A p : Told(ts, p) => Keeps(ts, us, p, Apply(p, u))
  /\ \A p : Gone(ts, p) => Gone(us, p)

(* Its last turn goes on.                                                      *)
Turning(ts, us, turn) ==
  /\ SessionOK(ts) /\ ts # <<>> /\ turn \in Turn /\ TurnIs(turn) /\ us = [ts EXCEPT ![Len(ts)] = turn]
  /\ turn.own = ts[Len(ts)].own /\ (ts[Len(ts)].reported => turn.reported)
  /\ (turn.how = ts[Len(ts)].how \/ ts[Len(ts)].how = "complete")
  /\ (turn.phase = "asked" => ts[Len(ts)].phase = "asked")
HasTurned(ts, us, turn) ==
  /\ SessionOK(us) /\ Len(us) = Len(ts) /\ \A p : Told(ts, p) => Stage(ts, us, turn, p)
  /\ \A p : Gone(ts, p) => Gone(us, p)

(* A last turn that goes on is a stage of a view that is told, and no less   *)
(* of one that is gone.                                                      *)
LEMMA TurnGoes ==
  ASSUME NEW ts, NEW us, NEW turn, Turning(ts, us, turn)
  PROVE  HasTurned(ts, us, turn)
<1>1. Turned(ts, us, turn)
  BY TurnedIs DEF Turning
<1>2. SessionOK(us)
  BY <1>1, Follows DEF Turning
<1>3. Len(us) = Len(ts)
  BY <1>1 DEF Turned
<1>4. \A p : Told(ts, p) => Stage(ts, us, turn, p)
  <2>1. turn.own <=> OwnOf(ts)
    BY DEF Turning, OwnOf
  <2>. QED
    BY <1>1, <1>2, <2>1 DEF Stage, Turning
<1>5. GoesOn(ts, us)
  <2>1. Len(ts) \in Nat
    BY SessionIs DEF Turning
  <2>2. \A t \in 1..Len(ts) : t # Len(ts) => us[t] = ts[t]
    BY <1>1 DEF Turned
  <2>3. us[Len(ts)] = turn
    BY <1>1 DEF Turned
  <2>4. ASSUME NEW t \in 1..Len(ts)
        PROVE  /\ us[t].own = ts[t].own /\ (ts[t].reported => us[t].reported)
               /\ (us[t].phase = "asked" => ts[t].phase = "asked")
    <3>1. CASE t = Len(ts)
      BY <3>1, <2>3 DEF Turning
    <3>2. CASE t # Len(ts)
      BY <3>2, <2>2, <2>4
    <3>. QED
      BY <3>1, <3>2
  <2>. QED
    BY <1>3, <2>1, <2>4 DEF GoesOn
<1>6. \A p : Gone(ts, p) => Gone(us, p)
  BY <1>2, <1>5, GoneStays DEF Turning
<1>. QED
  BY <1>2, <1>3, <1>4, <1>6 DEF HasTurned

(* It has one more turn.                                                       *)
LEMMA AddGoes ==
  ASSUME NEW ts, SessionOK(ts), Len(ts) < MaxTurns, PhaseOf(ts) \in {"none", "ended"},
         NEW turn \in Turn, TurnIs(turn), NEW us, us = Append(ts, turn)
  PROVE  /\ SessionOK(us) /\ Lengthened(ts, us, turn) /\ Len(us) = Len(ts) + 1
         /\ \A p : Gone(ts, p) => Gone(us, p)
<1>1. Lengthened(ts, us, turn)
  BY AddedIs
<1>2. SessionOK(us)
  BY <1>1, Follows
<1>3. GoesOn(ts, us)
  BY <1>1, SessionIs DEF GoesOn, Lengthened
<1>. QED
  BY <1>1, <1>2, <1>3, GoneStays DEF Lengthened

(* Every step of the Session is told.                                          *)
LEMMA AskGoes ==
  ASSUME SessionOK(turns), Ask
  PROVE  \E u : Tell(u) /\ Going(turns, turns', u)
<1>. DEFINE u == Update("asked", Len(turns) + 1)
             us == turns'
             turn == NewTurn(FALSE, "asked")
<1>1. Tell(u) /\ us = Append(turns, turn) /\ Len(turns) < MaxTurns
  BY DEF Ask
<1>2. PhaseOf(turns) \in {"none", "ended"}
  BY DEF Ask, AtRest, PhaseOf, Latest
<1>3. turn \in Turn /\ TurnIs(turn)
  BY TurnAssumption DEF NewTurn, Turn, TurnIs, NoCompaction
<1>. HIDE DEF turn, us
<1>4. /\ SessionOK(us) /\ Lengthened(turns, us, turn) /\ Len(us) = Len(turns) + 1
      /\ \A p : Gone(turns, p) => Gone(us, p)
  BY <1>1, <1>2, <1>3, AddGoes
<1>5. ASSUME NEW p, Told(turns, p)
      PROVE  Keeps(turns, us, p, Apply(p, u))
  <2>1. u = Update("asked", Len(us))
    BY <1>4
  <2>2. PhaseOf(turns) \notin {"running", "waiting"}
    BY <1>2
  <2>. QED
    BY <1>4, <1>5, <2>1, <2>2, ToldAsk DEF turn, Keeps
<1>6. Going(turns, us, u)
  BY <1>4, <1>5 DEF Going
<1>. QED
  BY <1>1, <1>6 DEF us

(* What a turn under way is.                                                   *)
LEMMA LatestIs ==
  ASSUME SessionOK(turns), turns # <<>>
  PROVE  /\ Latest \in Turn /\ TurnIs(Latest) /\ Latest = turns[Len(turns)] /\ PhaseOf(turns) = Latest.phase
         /\ (OwnOf(turns) <=> Latest.own) /\ (ReportedOf(turns) <=> Latest.reported)
         /\ Written(turns) = Latest.wrote /\ Latest.reported \in BOOLEAN /\ Latest.own \in BOOLEAN
         /\ ReportedOf(turns) = Latest.reported
         /\ Len(turns) \in Nat /\ Len(turns) > 0
<1>1. Len(turns) \in 1..Len(turns) /\ Len(turns) \in DOMAIN turns
  BY SessionIs
<1>2. TurnIs(turns[Len(turns)])
  BY <1>1 DEF SessionOK, TurnIs
<1>3. turns[Len(turns)] \in Turn /\ Len(turns) \in Nat
  BY <1>1, SessionIs
<1>4. turns[Len(turns)].reported \in BOOLEAN /\ turns[Len(turns)].own \in BOOLEAN
  BY <1>1, SessionIs
<1>. QED
  BY <1>1, <1>2, <1>3, <1>4 DEF Latest, PhaseOf, OwnOf, ReportedOf, Written

(* A turn with other fields is a turn.                                         *)
LEMMA TurnFields ==
  ASSUME NEW turn \in Turn
  PROVE  /\ \A phase \in {"asked", "running", "waiting", "ended"} :
              /\ [turn EXCEPT !.phase = phase] \in Turn
              /\ \A how \in {"complete", "stopped", "failed"} :
                   [turn EXCEPT !.phase = phase, !.how = how] \in Turn
         /\ \A j \in 0..MaxReplies : [turn EXCEPT !.wrote = j] \in Turn
         /\ [turn EXCEPT !.compacted = turn.wrote] \in Turn
         /\ [turn EXCEPT !.reported = TRUE, !.how = "failed"] \in Turn
         /\ turn.wrote \in 0..MaxReplies /\ turn.wrote \in Nat
<1>1. turn.wrote \in 0..MaxReplies /\ turn.wrote \in Nat /\ turn.wrote \in 0..MaxReplies + 1
  BY TurnAssumption DEF Turn
<1>. QED
  BY <1>1 DEF Turn

(* A run starts.                                                              *)
LEMMA BeginGoes ==
  ASSUME SessionOK(turns), Begin
  PROVE  \E u : Tell(u) /\ Going(turns, turns', u)
<1>. DEFINE us == turns'
             u == Update("running", Len(us))
<1>1. Tell(u)
  BY DEF Begin
<1>2. CASE Now("asked") /\ Change([Latest EXCEPT !.phase = "running"])
  <2>. DEFINE turn == [Latest EXCEPT !.phase = "running"]
  <2>1. turns # <<>> /\ Latest.phase = "asked" /\ us = [turns EXCEPT ![Len(turns)] = turn]
    BY <1>2 DEF Now, Change
  <2>2. Latest \in Turn /\ TurnIs(Latest) /\ Latest.wrote = 0 /\ Latest.reported = FALSE /\ ~Latest.own
    BY <2>1, LatestIs DEF TurnIs
  <2>3. /\ turn \in Turn /\ turn.phase = "running" /\ turn.wrote = 0 /\ turn.reported = FALSE
        /\ turn.own = Latest.own /\ turn.how = Latest.how
    <3>1. turn \in Turn
      BY <2>2, TurnFields
    <3>. QED
      BY <2>2, <3>1 DEF Turn
  <2>4. TurnIs(turn)
    BY <2>1, <2>2, <2>3 DEF TurnIs
  <2>. HIDE DEF turn, us
  <2>5. Turning(turns, us, turn)
    BY <2>1, <2>2, <2>3, <2>4, LatestIs DEF Turning
  <2>6. HasTurned(turns, us, turn)
    BY <2>5, TurnGoes
  <2>7. PhaseOf(turns) = "asked" /\ Written(turns) = 0
    BY <2>1, <2>2, LatestIs
  <2>8. \A p : Told(turns, p) => Keeps(turns, us, p, Apply(p, u))
    BY <2>3, <2>6, <2>7, ToldBegin DEF HasTurned
  <2>. QED
    BY <1>1, <2>6, <2>8 DEF Going, HasTurned, us
<1>3. CASE AtRest /\ Len(turns) < MaxTurns /\ turns' = Append(turns, NewTurn(TRUE, "running"))
  <2>. DEFINE turn == NewTurn(TRUE, "running")
  <2>1. us = Append(turns, turn) /\ Len(turns) < MaxTurns
    BY <1>3
  <2>2. PhaseOf(turns) \in {"none", "ended"}
    BY <1>3 DEF AtRest, PhaseOf, Latest
  <2>3. turn \in Turn /\ TurnIs(turn)
    BY TurnAssumption DEF NewTurn, Turn, TurnIs, NoCompaction
  <2>. HIDE DEF turn, us
  <2>4. /\ SessionOK(us) /\ Lengthened(turns, us, turn) /\ Len(us) = Len(turns) + 1
        /\ \A p : Gone(turns, p) => Gone(us, p)
    BY <2>1, <2>2, <2>3, AddGoes
  <2>5. PhaseOf(turns) \notin {"asked", "running", "waiting"}
    BY <2>2
  <2>6. \A p : Told(turns, p) => Keeps(turns, us, p, Apply(p, u))
    BY <2>4, <2>5, ToldOwn DEF turn
  <2>. QED
    BY <1>1, <2>4, <2>6 DEF Going, us
<1>. QED
  BY <1>2, <1>3 DEF Begin

(* A run writes.                                                              *)
LEMMA WriteGoes ==
  ASSUME SessionOK(turns), Write
  PROVE  \E u : Tell(u) /\ Going(turns, turns', u)
<1>. DEFINE turn == [Latest EXCEPT !.wrote = @ + 1]
            us == turns'
            u == Said(Reply(Len(turns), Latest.wrote + 1), FALSE, Len(turns))
<1>1. /\ turns # <<>> /\ Latest.phase = "running" /\ ~Latest.reported /\ Latest.wrote < MaxReplies
      /\ us = [turns EXCEPT ![Len(turns)] = turn] /\ Tell(u)
  BY DEF Write, Now, Change
<1>2. Latest \in Turn /\ TurnIs(Latest) /\ Latest.wrote \in Nat /\ Latest.reported \in BOOLEAN
  BY <1>1, LatestIs, TurnFields
<1>3. turn \in Turn
  <2>1. Latest.wrote + 1 \in 0..MaxReplies
    BY <1>1, <1>2, TurnAssumption
  <2>. QED
    BY <1>2, <2>1 DEF Turn
<1>4. /\ turn.phase = "running" /\ turn.wrote = Latest.wrote + 1 /\ turn.reported = FALSE
      /\ turn.own = Latest.own /\ turn.how = Latest.how
  BY <1>1, <1>2 DEF Turn
<1>5. TurnIs(turn)
  BY <1>1, <1>2, <1>4 DEF TurnIs
<1>. HIDE DEF turn, us
<1>6. HasTurned(turns, us, turn)
  <2>1. Turning(turns, us, turn)
    BY <1>1, <1>2, <1>3, <1>4, <1>5, LatestIs DEF Turning
  <2>. QED
    BY <2>1, TurnGoes
<1>7. PhaseOf(turns) = "running" /\ Written(turns) = Latest.wrote /\ ReportedOf(turns) = FALSE
  BY <1>1, <1>2, LatestIs
<1>8. u = Said(Reply(Len(us), turn.wrote), FALSE, Len(us))
  BY <1>4, <1>6 DEF HasTurned
<1>9. \A p : Told(turns, p) => Keeps(turns, us, p, Apply(p, u))
  BY <1>4, <1>6, <1>7, <1>8, ToldWrite DEF HasTurned
<1>. QED
  BY <1>1, <1>6, <1>9 DEF Going, HasTurned, us

(* A compaction comes.                                                        *)
LEMMA CompactGoes ==
  ASSUME SessionOK(turns), Compact
  PROVE  \E u : Tell(u) /\ Going(turns, turns', u)
<1>. DEFINE turn == [Latest EXCEPT !.compacted = Latest.wrote]
            us == turns'
            u == Update("compaction", Len(turns))
<1>1. /\ turns # <<>> /\ Latest.phase = "running" /\ ~Latest.reported
      /\ us = [turns EXCEPT ![Len(turns)] = turn] /\ Tell(u)
  BY DEF Compact, Now, Change
<1>2. Latest \in Turn /\ TurnIs(Latest) /\ Latest.reported \in BOOLEAN
  BY <1>1, LatestIs
<1>3. turn \in Turn
  BY <1>2, TurnFields
<1>4. /\ turn.phase = "running" /\ turn.wrote = Latest.wrote /\ turn.reported = FALSE
      /\ turn.own = Latest.own /\ turn.how = Latest.how
  BY <1>1, <1>2 DEF Turn
<1>5. TurnIs(turn)
  BY <1>1, <1>2, <1>4 DEF TurnIs
<1>. HIDE DEF turn, us
<1>6. HasTurned(turns, us, turn)
  <2>1. Turning(turns, us, turn)
    BY <1>1, <1>2, <1>3, <1>4, <1>5, LatestIs DEF Turning
  <2>. QED
    BY <2>1, TurnGoes
<1>7. PhaseOf(turns) = "running" /\ Written(turns) = Latest.wrote /\ ReportedOf(turns) = FALSE
  BY <1>1, <1>2, LatestIs
<1>8. u = Update("compaction", Len(us))
  BY <1>6 DEF HasTurned
<1>9. \A p : Told(turns, p) => Keeps(turns, us, p, Apply(p, u))
  BY <1>4, <1>6, <1>7, <1>8, ToldCompact DEF HasTurned
<1>. QED
  BY <1>1, <1>6, <1>9 DEF Going, HasTurned, us

(* A notice comes.                                                            *)
LEMMA NotifyGoes ==
  ASSUME SessionOK(turns), Notify
  PROVE  \E u : Tell(u) /\ Going(turns, turns', u)
<1>. DEFINE u == From(Update("notice", Len(turns)), 0)
<1>1. Tell(u) /\ turns' = turns
  BY DEF Notify, From
<1>2. \A p : Told(turns, p) => Keeps(turns, turns, p, Apply(p, u))
  BY ToldNotice
<1>. QED
  BY <1>1, <1>2 DEF Going

(* A run waits, or says that it failed.                                        *)
LEMMA WaitGoes ==
  ASSUME SessionOK(turns), Wait
  PROVE  \E u : Tell(u) /\ Going(turns, turns', u)
<1>. DEFINE turn == [Latest EXCEPT !.phase = "waiting"]
            us == turns'
            u == Update("waiting", Len(turns))
<1>1. /\ turns # <<>> /\ Latest.phase = "running" /\ ~Latest.reported /\ (Latest.own => Latest.wrote > 0)
      /\ us = [turns EXCEPT ![Len(turns)] = turn] /\ Tell(u)
  BY DEF Wait, Now, Change
<1>2. Latest \in Turn /\ TurnIs(Latest) /\ Latest.reported \in BOOLEAN
  BY <1>1, LatestIs
<1>3. turn \in Turn
  BY <1>2, TurnFields
<1>4. /\ turn.phase = "waiting" /\ turn.wrote = Latest.wrote /\ turn.reported = FALSE
      /\ turn.own = Latest.own /\ turn.how = Latest.how
  BY <1>1, <1>2, <1>3 DEF Turn
<1>5. TurnIs(turn)
  BY <1>1, <1>2, <1>4 DEF TurnIs
<1>. HIDE DEF turn, us
<1>6. HasTurned(turns, us, turn)
  <2>1. Turning(turns, us, turn)
    BY <1>1, <1>2, <1>3, <1>4, <1>5, LatestIs DEF Turning
  <2>. QED
    BY <2>1, TurnGoes
<1>7. PhaseOf(turns) = "running" /\ Written(turns) = Latest.wrote /\ ReportedOf(turns) = FALSE
  BY <1>1, <1>2, LatestIs
<1>8. u = Update("waiting", Len(us))
  BY <1>6 DEF HasTurned
<1>9. \A p : Told(turns, p) => Keeps(turns, us, p, Apply(p, u))
  BY <1>1, <1>4, <1>6, <1>7, <1>8, ToldMark DEF HasTurned
<1>. QED
  BY <1>1, <1>6, <1>9 DEF Going, HasTurned, us

(* A failure that the run reports reaches both views.                        *)
LEMMA ReportGoes ==
  ASSUME SessionOK(turns), Report
  PROVE  \E u : Tell(u) /\ Going(turns, turns', u)
<1>. DEFINE turn == [Latest EXCEPT !.reported = TRUE, !.how = "failed"]
            us == turns'
            u == Update("failing", Len(turns))
<1>1. /\ turns # <<>> /\ Latest.phase = "running" /\ ~Latest.reported
      /\ us = [turns EXCEPT ![Len(turns)] = turn] /\ Tell(u)
  BY DEF Report, Now, Change
<1>2. Latest \in Turn /\ TurnIs(Latest) /\ Latest.reported \in BOOLEAN
  BY <1>1, LatestIs
<1>3. turn \in Turn
  BY <1>2, TurnFields
<1>4. /\ turn.phase = "running" /\ turn.wrote = Latest.wrote /\ turn.reported = TRUE
      /\ turn.own = Latest.own /\ turn.how = "failed" /\ Latest.how = "complete"
  BY <1>1, <1>2 DEF Turn, TurnIs
<1>5. TurnIs(turn)
  BY <1>1, <1>2, <1>4 DEF TurnIs
<1>. HIDE DEF turn, us
<1>6. HasTurned(turns, us, turn)
  <2>1. Turning(turns, us, turn)
    BY <1>1, <1>2, <1>3, <1>4, <1>5, LatestIs DEF Turning
  <2>. QED
    BY <2>1, TurnGoes
<1>7. PhaseOf(turns) = "running" /\ Written(turns) = Latest.wrote /\ ReportedOf(turns) = FALSE
  BY <1>1, <1>2, LatestIs
<1>8. u = Update("failing", Len(us))
  BY <1>6 DEF HasTurned
<1>9. \A p : Told(turns, p) => Keeps(turns, us, p, Apply(p, u))
  BY <1>1, <1>4, <1>6, <1>7, <1>8, ToldMark DEF HasTurned
<1>. QED
  BY <1>1, <1>6, <1>9 DEF Going, HasTurned, us

(* What waits goes on.                                                        *)
LEMMA ResumeGoes ==
  ASSUME SessionOK(turns), Resume
  PROVE  \E u : Tell(u) /\ Going(turns, turns', u)
<1>. DEFINE turn == [Latest EXCEPT !.phase = "running"]
            us == turns'
            u == From(Update("answered", Len(turns)), 0)
<1>1. /\ turns # <<>> /\ Latest.phase = "waiting"
      /\ us = [turns EXCEPT ![Len(turns)] = turn] /\ Tell(u)
  BY DEF Resume, Now, Change, From
<1>2. Latest \in Turn /\ TurnIs(Latest) /\ Latest.reported = FALSE
  BY <1>1, LatestIs DEF TurnIs
<1>3. turn \in Turn
  BY <1>2, TurnFields
<1>4. /\ turn.phase = "running" /\ turn.wrote = Latest.wrote /\ turn.reported = FALSE
      /\ turn.own = Latest.own /\ turn.how = Latest.how
  BY <1>1, <1>2, <1>3 DEF Turn
<1>5. TurnIs(turn)
  BY <1>1, <1>2, <1>4 DEF TurnIs
<1>. HIDE DEF turn, us
<1>6. HasTurned(turns, us, turn)
  <2>1. Turning(turns, us, turn)
    BY <1>1, <1>2, <1>3, <1>4, <1>5, LatestIs DEF Turning
  <2>. QED
    BY <2>1, TurnGoes
<1>7. PhaseOf(turns) = "waiting" /\ Written(turns) = Latest.wrote /\ ReportedOf(turns) = FALSE
  BY <1>1, <1>2, LatestIs
<1>8. u = From(Update("answered", Len(us)), 0)
  BY <1>6 DEF HasTurned
<1>9. \A p : Told(turns, p) => Keeps(turns, us, p, Apply(p, u))
  BY <1>4, <1>6, <1>7, <1>8, ToldResume DEF HasTurned
<1>. QED
  BY <1>1, <1>6, <1>9 DEF Going, HasTurned, us

(* The run under way is announced again.                                       *)
LEMMA RestateGoes ==
  ASSUME SessionOK(turns), Restate
  PROVE  \E u : Tell(u) /\ Going(turns, turns', u)
<1>. DEFINE turn == Latest
            us == turns
            u == Update("running", Len(turns))
<1>1. turns # <<>> /\ Latest.phase = "running" /\ ~Latest.reported /\ turns' = turns /\ Tell(u)
  BY DEF Restate, Now
<1>2. Latest \in Turn /\ TurnIs(Latest) /\ Latest.reported = FALSE
  BY <1>1, LatestIs
<1>3. us = [turns EXCEPT ![Len(turns)] = turn]
  BY <1>1, LatestIs, SessionIs
<1>. HIDE DEF turn, us
<1>6. HasTurned(turns, us, turn)
  <2>1. Turning(turns, us, turn)
    BY <1>1, <1>2, <1>3, LatestIs DEF Turning, turn
  <2>. QED
    BY <2>1, TurnGoes
<1>7. /\ PhaseOf(turns) = "running" /\ Written(turns) = turn.wrote /\ ReportedOf(turns) = FALSE
      /\ turn.phase = "running" /\ turn.reported = FALSE
  BY <1>1, <1>2, LatestIs DEF turn
<1>8. u = Update("running", Len(us))
  BY <1>6 DEF HasTurned
<1>9. \A p : Told(turns, p) => Keeps(turns, us, p, Apply(p, u))
  BY <1>6, <1>7, <1>8, ToldRestate DEF HasTurned
<1>. QED
  BY <1>1, <1>6, <1>9 DEF Going, HasTurned, us

(* A run ends.                                                                *)
LEMMA EndGoes ==
  ASSUME SessionOK(turns), End
  PROVE  \E u : Tell(u) /\ Going(turns, turns', u)
<1>1. PICK how \in {"complete", "stopped", "failed"} :
        /\ Change([Latest EXCEPT !.phase = "ended", !.how = IF Latest.reported THEN "failed" ELSE how])
        /\ Tell(Update(how, Len(turns)))
  BY DEF End
<1>. DEFINE end == IF Latest.reported THEN "failed" ELSE how
            turn == [Latest EXCEPT !.phase = "ended", !.how = end]
            us == turns'
            u == Update(how, Len(turns))
<1>2. /\ turns # <<>> /\ Latest.phase \in {"running", "waiting"}
      /\ us = [turns EXCEPT ![Len(turns)] = turn] /\ Tell(u)
  BY <1>1 DEF End, Under, UnderWay, Latest, Change
<1>3. Latest \in Turn /\ TurnIs(Latest) /\ end \in {"complete", "stopped", "failed"}
  BY <1>2, LatestIs
<1>4. (~Latest.reported => Latest.how = "complete") /\ (Latest.reported => Latest.how = "failed" /\ end = "failed")
  BY <1>2, <1>3 DEF TurnIs
<1>. HIDE DEF end
<1>5. turn \in Turn
  BY <1>3, TurnFields
<1>6. /\ turn.phase = "ended" /\ turn.wrote = Latest.wrote /\ turn.reported = Latest.reported
      /\ turn.own = Latest.own /\ turn.how = end
  BY <1>3, <1>5 DEF Turn
<1>7. TurnIs(turn) /\ (turn.how = Latest.how \/ Latest.how = "complete")
  BY <1>3, <1>4, <1>6, LatestIs, <1>2 DEF TurnIs
<1>. HIDE DEF turn, us
<1>8. HasTurned(turns, us, turn)
  <2>1. Turning(turns, us, turn)
    BY <1>2, <1>3, <1>5, <1>6, <1>7, LatestIs DEF Turning
  <2>. QED
    BY <2>1, TurnGoes
<1>9. /\ PhaseOf(turns) \in {"running", "waiting"} /\ Written(turns) = Latest.wrote
      /\ ReportedOf(turns) = Latest.reported
      /\ (PhaseOf(turns) = "waiting" => ~ReportedOf(turns))
  BY <1>2, <1>3, LatestIs DEF TurnIs
<1>10. turn.how = IF ReportedOf(turns) THEN "failed" ELSE how
  BY <1>6, <1>9 DEF end
<1>11. u = Update(how, Len(us))
  BY <1>8 DEF HasTurned
<1>12. \A p : Told(turns, p) => Keeps(turns, us, p, Apply(p, u))
  BY <1>6, <1>8, <1>9, <1>10, <1>11, ToldEnd DEF HasTurned
<1>. QED
  BY <1>2, <1>8, <1>12 DEF Going, HasTurned, us

(* What both views show, whatever the Session does.                            *)
SessionGoes == Ask \/ Begin \/ Write \/ Compact \/ Notify \/ Wait \/ Resume \/ Restate \/ Report \/ End

(* Every step of the Session is told by an update that keeps a view that is  *)
(* told.                                                                     *)
LEMMA StepGoes ==
  ASSUME SessionOK(turns), SessionGoes
  PROVE  \E u : Tell(u) /\ Going(turns, turns', u)
BY AskGoes, BeginGoes, WriteGoes, CompactGoes, NotifyGoes, WaitGoes, ResumeGoes,
   RestateGoes, ReportGoes,
   EndGoes DEF SessionGoes

(* What is told reaches the live view, and the other one as long as it is    *)
(* linked.                                                                   *)
LEMMA TellShown ==
  ASSUME NEW u, Tell(u), Going(turns, turns', u), Told(turns, live), Watched(turns, live)
  PROVE  /\ SessionOK(turns') /\ linked' = linked /\ Told(turns', live') /\ Watched(turns', live')
         /\ linked /\ Told(turns, view) => Told(turns', view')
         /\ ~linked /\ Gone(turns, view) => Gone(turns', view')
<1>1. linked' = linked /\ live' = Heard(live, u) /\ view' = IF linked THEN Heard(view, u) ELSE view
  BY DEF Tell
<1>2. /\ SessionOK(turns')
      /\ \A p : Told(turns, p) => Keeps(turns, turns', p, Heard(p, u))
  BY HeardKeeps DEF Going
<1>3. Told(turns', live') /\ Watched(turns', live') /\ (linked /\ Told(turns, view) => Told(turns', view'))
  BY <1>1, <1>2 DEF Keeps
<1>4. ~linked /\ Gone(turns, view) => Gone(turns', view')
  BY <1>1 DEF Going
<1>. QED
  BY <1>1, <1>2, <1>3, <1>4

(* A view that is gone keeps what it knows of the run.                         *)
LEMMA DropGone ==
  ASSUME NEW ts, SessionOK(ts), NEW p, Told(ts, p), NEW q, q = Cleared(p)
  PROVE  Gone(ts, q)
<1>. DEFINE n == Len(ts)
<1>1. p \in View /\ Shows(p, n, PhaseOf(ts), Written(ts), OwnOf(ts), ReportedOf(ts))
  BY ToldIs
<1>2. /\ q \in View /\ q.msgs = <<>> /\ q.active = None /\ q.exec = p.exec /\ q.run = p.run
      /\ q.reported = p.reported /\ q.streamed = p.streamed
  <2>. DEFINE r == [p EXCEPT !.msgs = <<>>]
  <2>1. q = [r EXCEPT !.active = None]
    BY DEF Cleared
  <2>2. <<>> \in Seq(Row) /\ None \in Id \cup {None}
    OBVIOUS
  <2>3. r \in View /\ r.msgs = <<>> /\ SameRun(p, r)
    BY <1>1, <2>2, Viewed
  <2>. HIDE DEF r
  <2>4. q \in View /\ q.active = None /\ q.msgs = r.msgs /\ SameRun(r, q)
    BY <2>1, <2>2, <2>3, Viewed
  <2>. QED
    BY <2>3, <2>4 DEF SameRun
<1>3. ts # <<>> => n \in DOMAIN ts
  BY SessionIs
<1>4. PhaseOf(ts) = "asked" => ts # <<>> /\ ~ts[n].own
  BY <1>3 DEF PhaseOf, SessionOK
<1>5. p.streamed # 0 => PhaseOf(ts) = "asked" /\ p.streamed = n
  BY <1>1 DEF Shows
<1>6. (Ongoing(p) <=> PhaseOf(ts) \in {"running", "waiting"}) /\ (~Ongoing(p) => ~p.reported)
  BY <1>1 DEF Shows, Holds
<1>7. PhaseOf(ts) \in {"running", "waiting"} => p.run = n /\ p.reported = ReportedOf(ts)
  BY <1>1 DEF Shows, Holds
<1>8. Ongoing(q) <=> Ongoing(p)
  BY <1>2 DEF Ongoing
<1>9. PhaseOf(ts) \in {"running", "waiting"} => ts # <<>> /\ ts[n].phase # "asked"
  BY DEF PhaseOf
<1>10. q.reported => q.run \in DOMAIN ts /\ ts[q.run].reported
  BY <1>2, <1>3, <1>6, <1>7, <1>9 DEF ReportedOf
<1>11. Ongoing(q) => q.run \in DOMAIN ts /\ ts[q.run].phase # "asked"
  BY <1>2, <1>3, <1>6, <1>7, <1>8, <1>9
<1>12. q.streamed # 0 => ~Ongoing(q) /\ q.streamed \in DOMAIN ts /\ ~ts[q.streamed].own
  BY <1>2, <1>3, <1>4, <1>5, <1>6, <1>8
<1>. QED
  BY <1>2, <1>10, <1>11, <1>12 DEF Gone

(* Nothing was said yet.                                                       *)
LEMMA FirstIs ==
  /\ SessionOK(<<>>) /\ Told(<<>>, Initial) /\ Watched(<<>>, Initial)
  /\ \A ts : Gone(ts, Initial)
<1>1. Initial \in View
  BY TurnAssumption DEF Initial, View
<1>2. SessionOK(<<>>)
  BY TurnAssumption DEF SessionOK
<1>3. /\ Initial.msgs = <<>> /\ Initial.active = None /\ Initial.exec = "idle" /\ Initial.reported = FALSE
      /\ Initial.streamed = 0 /\ Initial.run = 0
  BY DEF Initial
<1>4. \A i : i \notin DOMAIN Initial.msgs
  BY <1>3
<1>5. Replies(<<>>, 0, 0) = {}
  <2>1. 1..0 = {}
    OBVIOUS
  <2>. QED
    BY <2>1 DEF Replies
<1>. HIDE DEF Initial
<1>6. RowsOK(Initial.msgs, {}, 0)
  <2>1. <<>> \in Seq(Row)
    OBVIOUS
  <2>. QED
    BY <1>3, <1>4, <2>1 DEF RowsOK
<1>7. Base(<<>>, Initial, 0, 0)
  BY <1>1, <1>3, <1>4, <1>5, <1>6 DEF Base
<1>8. Written(<<>>) = 0 /\ PhaseOf(<<>>) = "none" /\ Len(<<>>) = 0
  BY DEF Written, PhaseOf
<1>9. \A a, b : Shows(Initial, 0, "none", 0, a, b)
  BY <1>3, <1>4 DEF Shows, Holds, Ongoing
<1>10. Told(<<>>, Initial)
  BY <1>7, <1>8, <1>9 DEF Told
<1>11. Watched(<<>>, Initial)
  BY <1>4, <1>8 DEF Watched, EndsKnown
<1>12. \A ts : Gone(ts, Initial)
  BY <1>1, <1>3 DEF Gone, Ongoing
<1>. QED
  BY <1>2, <1>10, <1>11, <1>12

-----------------------------------------------------------------------------
(* The turns a view shows.                                                    *)
Chained(s) ==
  /\ s \in Seq(Row) /\ \A i, j \in DOMAIN s : s[i].id = s[j].id => i = j
  /\ \A i \in DOMAIN s : Joins(s, i) => s[i - 1].id \in Strays \/ NextReply(s[i - 1].id, s[i].id)
  /\ \A i \in DOMAIN s : Stored(s[i].id) /\ s[i].id[3] > 1
                           => Joins(s, i) /\ NextReply(s[i - 1].id, s[i].id)
  /\ \A i, j \in DOMAIN s : s[i].id \in Strays /\ j < i => s[j].role = "user"
Span(s, a, b) ==
  /\ a \in 1..Len(s) /\ b \in 1..Len(s) /\ a <= b /\ ~Joins(s, a)
  /\ \A k \in a + 1..b : Joins(s, k)
  /\ b < Len(s) => ~Joins(s, b + 1)

(* A message starts a turn unless it joins the one before it.                   *)
LEMMA StartsIs ==
  ASSUME NEW p \in View, NEW i \in DOMAIN p.msgs
  PROVE  Starts(p, i) <=> ~Joins(p.msgs, i)
<1>1. p.msgs \in Seq(Row)
  BY Viewed
<1>. DEFINE s == p.msgs
<1>. HIDE DEF s
<1>2. s \in Seq(Row) /\ i \in DOMAIN s /\ i \in Nat /\ i > 0 /\ DOMAIN s = 1..Len(s)
  BY <1>1 DEF s
<1>3. s[i].role \in {"user", "reply"} /\ s[i].opens \in BOOLEAN
  BY <1>2, RowIs
<1>4. i > 1 => i - 1 \in DOMAIN s
  BY <1>2
<1>5. i > 1 => s[i - 1].role \in {"user", "reply"}
  BY <1>2, <1>4, RowIs
<1>. QED
  BY <1>2, <1>3, <1>5 DEF Starts, Joins, s

(* A turn is a span of messages that join one another.                         *)
LEMMA TurnSpan ==
  ASSUME NEW p \in View, NEW a, NEW b
  PROVE  <<a, b>> \in TurnsOf(p) <=> Span(p.msgs, a, b)
<1>. DEFINE s == p.msgs
<1>1. s \in Seq(Row)
  BY Viewed
<1>. HIDE DEF s
<1>2. DOMAIN s = 1..Len(s) /\ Len(s) \in Nat
  BY <1>1
<1>3. \A i \in DOMAIN s : Starts(p, i) <=> ~Joins(s, i)
  BY StartsIs DEF s
<1>4. <<a, b>> \in TurnsOf(p) <=>
        /\ a \in DOMAIN s /\ b \in DOMAIN s /\ a <= b /\ Starts(p, a)
        /\ \A k \in a + 1..b : ~Starts(p, k)
        /\ b < Len(s) => Starts(p, b + 1)
  BY DEF TurnsOf, s
<1>. SUFFICES ASSUME a \in 1..Len(s), b \in 1..Len(s), a <= b
              PROVE  <<a, b>> \in TurnsOf(p) <=> Span(s, a, b)
  BY <1>2, <1>4 DEF Span, s
<1>5. (\A k \in a + 1..b : k \in DOMAIN s) /\ (b < Len(s) => b + 1 \in DOMAIN s)
  BY <1>2
<1>. QED
  BY <1>2, <1>3, <1>4, <1>5 DEF Span

(* Every turn is one, and every message is in one.                              *)
LEMMA TurnPair ==
  ASSUME NEW p \in View, NEW turn \in TurnsOf(p)
  PROVE  turn = <<turn[1], turn[2]>> /\ Span(p.msgs, turn[1], turn[2])
<1>1. turn \in (DOMAIN p.msgs) \X (DOMAIN p.msgs)
  BY DEF TurnsOf
<1>2. turn = <<turn[1], turn[2]>>
  BY <1>1
<1>. QED
  BY <1>2, TurnSpan

(* Every message is in some turn of the transcript.                          *)
LEMMA SpanAt ==
  ASSUME NEW s \in Seq(Row), NEW i \in DOMAIN s
  PROVE  \E a, b : Span(s, a, b) /\ a <= i /\ i <= b
<1>. DEFINE n == Len(s)
            A == {k \in 1..i : ~Joins(s, k)}
            B == {e \in i..n : \A k \in i + 1..e : Joins(s, k)}
<1>1. n \in Nat /\ i \in 1..n /\ i \in Nat
  OBVIOUS
<1>2. 1 \in A
  BY <1>1 DEF Joins
<1>3. i \in B
  BY <1>1
<1>. DEFINE a == Max(A)
            b == Max(B)
<1>4. a \in A /\ \A k \in A : k <= a
  BY <1>1, <1>2, Greatest
<1>5. b \in B /\ \A k \in B : k <= b
  <2>1. B \subseteq 1..n /\ B # {}
    BY <1>1, <1>3
  <2>. HIDE DEF B
  <2>. QED
    BY <1>1, <2>1, Greatest
<1>. HIDE DEF a, b
<1>6. a \in 1..i /\ ~Joins(s, a) /\ b \in i..n /\ \A k \in i + 1..b : Joins(s, k)
  BY <1>4, <1>5
<1>7. \A k \in a + 1..i : Joins(s, k)
  <2>1. SUFFICES ASSUME NEW k \in a + 1..i, ~Joins(s, k)
                 PROVE  FALSE
    OBVIOUS
  <2>2. k \in A
    BY <1>1, <1>6, <2>1
  <2>. QED
    BY <1>1, <1>4, <1>6, <2>2
<1>8. \A k \in a + 1..b : Joins(s, k)
  <2>1. ASSUME NEW k \in a + 1..b
        PROVE  k \in a + 1..i \/ k \in i + 1..b
    BY <1>1, <1>6
  <2>. QED
    BY <1>6, <1>7, <2>1
<1>9. b < n => ~Joins(s, b + 1)
  <2>1. SUFFICES ASSUME b < n, Joins(s, b + 1)
                 PROVE  FALSE
    OBVIOUS
  <2>2. b + 1 \in i..n /\ \A k \in i + 1..b + 1 : k \in i + 1..b \/ k = b + 1
    BY <1>1, <1>6, <2>1
  <2>3. b + 1 \in B
    BY <1>6, <2>1, <2>2
  <2>. QED
    BY <1>1, <1>5, <1>6, <2>3
<1>10. a \in 1..n /\ b \in 1..n /\ a <= b /\ a <= i /\ i <= b
  BY <1>1, <1>6
<1>11. Span(s, a, b)
  BY <1>6, <1>8, <1>9, <1>10 DEF Span
<1>. QED
  BY <1>10, <1>11

(* From a stored reply on, a turn is that turn's replies.                       *)
LEMMA SpanUp ==
  ASSUME NEW s, Chained(s), NEW a, NEW b, Span(s, a, b), NEW k \in a..b, Stored(s[k].id),
         NEW i \in k..b
  PROVE  Stored(s[i].id) /\ s[i].id[2] = s[k].id[2]
<1>. DEFINE n == Len(s)
            t == s[k].id[2]
            P(j) == Stored(s[j].id) /\ s[j].id[2] = t
            A == {m \in k..b : \A j \in k..m : P(j)}
<1>1. /\ s \in Seq(Row) /\ n \in Nat /\ DOMAIN s = 1..n /\ a \in 1..n /\ b \in 1..n /\ a <= b
      /\ k \in 1..n /\ k <= b /\ a <= k
  BY DEF Chained, Span
<1>2. k \in A
  <2>1. \A j \in k..k : j = k
    BY <1>1
  <2>. QED
    BY <1>1, <2>1
<1>3. A \subseteq 1..n
  BY <1>1
<1>. DEFINE m == Max(A)
<1>4. m \in A /\ \A j \in A : j <= m
  <2>. HIDE DEF A
  <2>. QED
    BY <1>1, <1>2, <1>3, Greatest
<1>. HIDE DEF m
<1>5. m \in k..b /\ \A j \in k..m : P(j)
  BY <1>4
<1>6. ~(m < b)
  <2>1. SUFFICES ASSUME m < b
                 PROVE  FALSE
    OBVIOUS
  <2>. DEFINE e == m + 1
  <2>2. e \in a + 1..b /\ e \in 1..n /\ e \in k..b /\ e - 1 = m /\ m \in DOMAIN s /\ m \in k..m /\ e > m
    BY <1>1, <1>5, <2>1
  <2>3. \A j \in k..e : j \in k..m \/ j = e
    BY <1>1, <1>5
  <2>. HIDE DEF e
  <2>4. P(m) /\ s[m].id \notin Strays
    BY <1>5, <2>2, Names DEF Stored
  <2>5. Joins(s, e)
    BY <2>2 DEF Span
  <2>6. NextReply(s[m].id, s[e].id)
    BY <1>1, <2>2, <2>4, <2>5 DEF Chained
  <2>7. P(e)
    BY <2>4, <2>6 DEF NextReply
  <2>8. e \in A
    BY <1>5, <2>2, <2>3, <2>7
  <2>. QED
    BY <1>1, <1>4, <1>5, <2>2, <2>8
<1>7. i \in k..m
  BY <1>1, <1>5, <1>6
<1>. QED
  BY <1>5, <1>7

(* So the replies in one turn are of one turn.                                  *)
LEMMA SpanOne ==
  ASSUME NEW s, Chained(s), NEW a, NEW b, Span(s, a, b), NEW k \in a..b, Stored(s[k].id),
         NEW i \in a..b, Stored(s[i].id)
  PROVE  s[i].id[2] = s[k].id[2]
<1>1. a \in Nat /\ b \in Nat
  BY DEF Chained, Span
<1>2. CASE i \in k..b
  BY <1>2, SpanUp
<1>3. CASE k \in i..b
  BY <1>3, SpanUp
<1>. QED
  BY <1>1, <1>2, <1>3

(* The reply after one in a turn is in that turn, next to it, and so is the one  *)
(* before.                                                                    *)
LEMMA SpanNext ==
  ASSUME NEW s, Chained(s), NEW a, NEW b, Span(s, a, b), NEW k \in a..b, NEW t \in Nat,
         NEW j \in Nat, j > 0,
         s[k].id = Reply(t, j), Present(s, Reply(t, j + 1))
  PROVE  \E i \in a..b : i = k + 1 /\ s[i].id = Reply(t, j + 1)
<1>1. PICK i \in DOMAIN s : s[i].id = Reply(t, j + 1)
  BY DEF Present
<1>2. s \in Seq(Row) /\ Len(s) \in Nat /\ DOMAIN s = 1..Len(s) /\ a \in 1..Len(s) /\ b \in 1..Len(s) /\ k \in 1..Len(s)
  BY DEF Chained, Span
<1>3. Stored(s[i].id) /\ s[i].id[3] > 1 /\ s[i].id[2] = t /\ s[i].id[3] = j + 1
  BY <1>1, Names DEF Stored
<1>4. Joins(s, i) /\ NextReply(s[i - 1].id, s[i].id)
  BY <1>2, <1>3 DEF Chained
<1>5. i > 1 /\ i - 1 \in DOMAIN s
  BY <1>2, <1>4 DEF Joins
<1>6. s[i - 1].id = Reply(t, j)
  <2>1. s[i - 1].id \in Id
    BY <1>2, <1>5, RowIs
  <2>2. Stored(s[i - 1].id) /\ s[i - 1].id[2] = t /\ s[i - 1].id[3] + 1 = j + 1
    BY <1>3, <1>4 DEF NextReply
  <2>3. s[i - 1].id[3] = j
    <3>. DEFINE x == s[i - 1].id[3]
    <3>1. x \in Nat
      BY <2>1, Names
    <3>2. x + 1 = j + 1
      BY <2>2
    <3>. HIDE DEF x
    <3>3. x = j
      BY <3>1, <3>2
    <3>. QED
      BY <3>3 DEF x
  <2>. QED
    BY <2>1, <2>2, <2>3, Names DEF Stored
<1>7. i - 1 = k
  BY <1>2, <1>5, <1>6 DEF Chained
<1>8. i = k + 1
  BY <1>2, <1>7
<1>9. i <= b
  <2>1. SUFFICES ASSUME ~(i <= b)
                 PROVE  FALSE
    OBVIOUS
  <2>2. i = b + 1 /\ b < Len(s)
    BY <1>2, <1>8, <2>1
  <2>. QED
    BY <1>4, <2>2 DEF Span
<1>10. i \in a..b
  BY <1>2, <1>8, <1>9
<1>. QED
  BY <1>1, <1>8, <1>10

(* A turn that has a reply has the one before it.                            *)
LEMMA SpanBack ==
  ASSUME NEW s, Chained(s), NEW a, NEW b, Span(s, a, b), NEW k \in a..b, NEW t \in Nat,
         NEW j \in Nat, j > 0,
         s[k].id = Reply(t, j + 1)
  PROVE  \E i \in a..b : s[i].id = Reply(t, j)
<1>2. s \in Seq(Row) /\ Len(s) \in Nat /\ DOMAIN s = 1..Len(s) /\ a \in 1..Len(s) /\ b \in 1..Len(s) /\ k \in 1..Len(s)
  BY DEF Chained, Span
<1>3. Stored(s[k].id) /\ s[k].id[3] > 1 /\ s[k].id[2] = t /\ s[k].id[3] = j + 1
  BY Names DEF Stored
<1>4. Joins(s, k) /\ NextReply(s[k - 1].id, s[k].id)
  BY <1>2, <1>3 DEF Chained
<1>5. k > 1 /\ k - 1 \in DOMAIN s
  BY <1>2, <1>4 DEF Joins
<1>6. s[k - 1].id = Reply(t, j)
  <2>1. s[k - 1].id \in Id
    BY <1>2, <1>5, RowIs
  <2>2. Stored(s[k - 1].id) /\ s[k - 1].id[2] = t /\ s[k - 1].id[3] + 1 = j + 1
    BY <1>3, <1>4 DEF NextReply
  <2>3. s[k - 1].id[3] = j
    <3>. DEFINE x == s[k - 1].id[3]
    <3>1. x \in Nat
      BY <2>1, Names
    <3>2. x + 1 = j + 1
      BY <2>2
    <3>. HIDE DEF x
    <3>3. x = j
      BY <3>1, <3>2
    <3>. QED
      BY <3>3 DEF x
  <2>. QED
    BY <2>1, <2>2, <2>3, Names DEF Stored
<1>7. k # a
  BY <1>4 DEF Span
<1>8. k - 1 \in a..b
  BY <1>2, <1>7
<1>. QED
  BY <1>6, <1>8

(* A turn that has one of some replies has them all.                           *)
Within(s, a, b, id) == \E i \in a..b : s[i].id = id
Showing(s, a, b, t, w, o) ==
  /\ Chained(s) /\ Span(s, a, b) /\ t \in Nat /\ w \in Nat /\ o \in 1..w /\ Within(s, a, b, Reply(t, o))
  /\ \A j \in 1..w : Present(s, Reply(t, j))

(* A turn that has one reply of the Session's turn has each of them.         *)
LEMMA SpanAll ==
  ASSUME NEW s, NEW a, NEW b, NEW t, NEW w, NEW o, Showing(s, a, b, t, w, o), NEW j \in 1..w
  PROVE  Within(s, a, b, Reply(t, j))
<1>. USE DEF Showing, Within
<1>. DEFINE In(e) == \E i \in a..b : s[i].id = Reply(t, e)
<1>1. \A e \in 1..w : In(e) /\ e + 1 \in 1..w => In(e + 1)
  <2>1. SUFFICES ASSUME NEW e \in 1..w, In(e), e + 1 \in 1..w
                 PROVE  In(e + 1)
    OBVIOUS
  <2>2. PICK i \in a..b : s[i].id = Reply(t, e)
    BY <2>1
  <2>3. e \in Nat /\ e > 0 /\ Present(s, Reply(t, e + 1))
    BY <2>1
  <2>4. \E h \in a..b : h = i + 1 /\ s[h].id = Reply(t, e + 1)
    BY <2>2, <2>3, SpanNext
  <2>. QED
    BY <2>4
<1>2. \A e \in Nat : e > 0 /\ In(e + 1) => In(e)
  BY SpanBack
<1>3. In(o)
  OBVIOUS
<1>. HIDE DEF In
<1>4. SUFFICES ASSUME ~In(j)
               PROVE  FALSE
  BY DEF In
<1>5. CASE o < j
  <2>. DEFINE A == {e \in 1..j : In(e)}
  <2>1. A \subseteq 1..j /\ o \in A /\ j \in Nat
    BY <1>3, <1>5
  <2>. DEFINE m == Max(A)
  <2>2. m \in A /\ \A e \in A : e <= m
    <3>. HIDE DEF A
    <3>. QED
      BY <2>1, Greatest
  <2>. HIDE DEF m
  <2>3. m \in 1..j /\ In(m) /\ m # j /\ m \in 1..w /\ m + 1 \in 1..w /\ m + 1 \in 1..j
    BY <1>4, <2>1, <2>2
  <2>4. m + 1 \in A
    BY <1>1, <2>3
  <2>. QED
    BY <2>2, <2>3, <2>4
<1>6. CASE j < o
  <2>. DEFINE A == {e \in 1..o : ~In(e)}
  <2>1. A \subseteq 1..o /\ j \in A /\ o \in Nat
    BY <1>4, <1>6
  <2>. DEFINE m == Max(A)
  <2>2. m \in A /\ \A e \in A : e <= m
    <3>. HIDE DEF A
    <3>. QED
      BY <2>1, Greatest
  <2>. HIDE DEF m
  <2>3. m \in 1..o /\ ~In(m) /\ m # o /\ m \in Nat /\ m > 0 /\ m + 1 \in 1..o
    BY <1>3, <2>1, <2>2
  <2>4. ~In(m + 1)
    BY <1>2, <2>3
  <2>5. m + 1 \in A
    BY <2>3, <2>4
  <2>. QED
    BY <2>2, <2>3, <2>5
<1>7. CASE o = j
  BY <1>3, <1>4, <1>7
<1>. QED
  BY <1>5, <1>6, <1>7

(* What a view that is told shows of its messages.                             *)
Spans(ts, s) ==
  /\ Chained(s)
  /\ \A i \in DOMAIN s : Stored(s[i].id) =>
       \E t \in 1..Len(ts) : \E j \in 1..ts[t].wrote : s[i].id = Reply(t, j)
  /\ \A t \in 1..Len(ts) : \A j \in 1..ts[t].wrote : Present(s, Reply(t, j))

(* A view that is told has every reply of the Session, and no other.         *)
LEMMA ToldSpans ==
  ASSUME NEW ts, SessionOK(ts), NEW p, Told(ts, p)
  PROVE  Spans(ts, p.msgs)
<1>. DEFINE n == Len(ts)
            w == Written(ts)
            s == p.msgs
<1>1. Counted(ts, n) /\ n \in Nat /\ w \in Nat /\ (n > 0 => w = ts[n].wrote) /\ \A t \in 1..n : ts[t].wrote \in Nat
  <2>1. n > 0 => ts # <<>>
    BY SessionIs
  <2>. QED
    BY <2>1, SessionIs DEF Written
<1>2. RowsOK(s, Replies(ts, n, w), n)
  BY ToldIs DEF Base
<1>. HIDE DEF n, w, s
<1>3. Chained(s)
  BY <1>2 DEF RowsOK, Chained
<1>4. \A t \in 1..n : WroteIn(ts, n, w, t) = ts[t].wrote
  BY <1>1 DEF WroteIn
<1>5. \A t, j \in Nat : Reply(t, j) \in Replies(ts, n, w) <=> t \in 1..n /\ j \in 1..WroteIn(ts, n, w, t)
  BY <1>1, RepliesAre
<1>6. \A id \in Replies(ts, n, w) : Stored(id) /\ id[2] \in 1..n /\ id[3] \in 1..WroteIn(ts, n, w, id[2])
  BY <1>1, RepliesAre
<1>7. ASSUME NEW i \in DOMAIN s, Stored(s[i].id)
      PROVE  \E t \in 1..n : \E j \in 1..ts[t].wrote : s[i].id = Reply(t, j)
  <2>1. s[i].id \in Replies(ts, n, w)
    BY <1>2, <1>7 DEF RowsOK
  <2>2. s[i].id[2] \in 1..n /\ s[i].id[3] \in 1..ts[s[i].id[2]].wrote
    BY <1>4, <1>6, <2>1
  <2>3. s[i].id \in Id
    BY <1>3, RowIs DEF Chained
  <2>4. s[i].id = Reply(s[i].id[2], s[i].id[3])
    BY <1>7, <2>3, Names DEF Stored
  <2>. QED
    BY <2>2, <2>4
<1>8. ASSUME NEW t \in 1..n, NEW j \in 1..ts[t].wrote
      PROVE  Present(s, Reply(t, j))
  <2>1. t \in Nat /\ j \in Nat
    BY <1>1
  <2>2. Reply(t, j) \in Replies(ts, n, w)
    BY <1>4, <1>5, <1>8, <2>1
  <2>. QED
    BY <1>2, <2>2 DEF RowsOK
<1>. QED
  BY <1>3, <1>7, <1>8 DEF Spans, n, s

(* A turn that shows a reply shows those of the Session's turn, all of them and   *)
(* no other.                                                                  *)
RepliesOf(ts, t) == {Reply(t, j) : j \in 1..ts[t].wrote}

(* A turn of the view that has one reply of the Session's turn has all of    *)
(* them and no other.                                                        *)
LEMMA TurnShows ==
  ASSUME NEW ts, SessionOK(ts), NEW p, Told(ts, p), NEW turn \in TurnsOf(p),
         NEW t \in 1..Len(ts), NEW o \in 1..ts[t].wrote, Reply(t, o) \in IdsOf(p, turn)
  PROVE  StoredOf(p, turn) = RepliesOf(ts, t)
<1>. DEFINE s == p.msgs
            a == turn[1]
            b == turn[2]
            w == ts[t].wrote
<1>1. p \in View /\ Spans(ts, s)
  BY ToldIs, ToldSpans
<1>2. Span(s, a, b)
  BY <1>1, TurnPair
<1>3. IdsOf(p, turn) = {s[k].id : k \in a..b}
  BY DEF IdsOf
<1>4. t \in Nat /\ w \in Nat /\ Len(ts) \in Nat
  BY SessionIs
<1>. HIDE DEF s, a, b, w
<1>5. Chained(s) /\ s \in Seq(Row) /\ DOMAIN s = 1..Len(s) /\ a \in 1..Len(s) /\ b \in 1..Len(s)
  BY <1>1, <1>2 DEF Spans, Chained, Span
<1>6. a..b \subseteq DOMAIN s
  BY <1>5
<1>7. \A j \in 1..w : Present(s, Reply(t, j))
  BY <1>1 DEF Spans, w
<1>8. PICK k \in a..b : s[k].id = Reply(t, o)
  BY <1>3
<1>9. o \in 1..w
  BY DEF w
<1>10. ASSUME NEW j \in 1..w
       PROVE  Reply(t, j) \in StoredOf(p, turn)
  <2>1. \E i \in a..b : s[i].id = Reply(t, j)
    <3>1. Showing(s, a, b, t, w, o)
      BY <1>2, <1>4, <1>5, <1>7, <1>8, <1>9 DEF Showing, Within
    <3>. QED
      BY <3>1, SpanAll DEF Within
  <2>2. Stored(Reply(t, j))
    BY <1>4, Names DEF Stored
  <2>. QED
    BY <1>3, <2>1, <2>2 DEF StoredOf
<1>11. ASSUME NEW id \in StoredOf(p, turn)
       PROVE  id \in RepliesOf(ts, t)
  <2>1. Stored(id) /\ id \in IdsOf(p, turn)
    BY DEF StoredOf
  <2>2. PICK i \in a..b : s[i].id = id
    BY <1>3, <2>1
  <2>3. PICK u \in 1..Len(ts) : \E j \in 1..ts[u].wrote : s[i].id = Reply(u, j)
    BY <1>1, <1>6, <2>1, <2>2 DEF Spans
  <2>4. PICK j \in 1..ts[u].wrote : s[i].id = Reply(u, j)
    BY <2>3
  <2>5. Stored(s[k].id) /\ s[k].id[2] = t
    <3>1. o \in Nat
      BY <1>4, <1>9
    <3>. QED
      BY <1>4, <1>8, <3>1, Names DEF Stored
  <2>6. s[i].id[2] = t
    <3>1. Stored(s[i].id)
      BY <2>1, <2>2
    <3>. QED
      BY <1>2, <1>5, <2>5, <3>1, SpanOne
  <2>7. s[i].id[2] = u
    <3>1. u \in Nat /\ j \in Nat
      BY <1>4, <2>4, SessionIs
    <3>. QED
      BY <2>4, <3>1, Names
  <2>8. id = Reply(t, j) /\ j \in 1..ts[t].wrote
    BY <2>2, <2>4, <2>6, <2>7
  <2>. QED
    BY <2>8 DEF RepliesOf
<1>12. \A id \in RepliesOf(ts, t) : id \in StoredOf(p, turn)
  BY <1>10 DEF RepliesOf, w
<1>. QED
  BY <1>11, <1>12

(* The turns that show replies are the Session's turns that wrote.              *)
SplitOf(ts) == {RepliesOf(ts, t) : t \in {u \in 1..Len(ts) : ts[u].wrote > 0}}

(* The replies of a told view are grouped as the Session groups them.        *)
LEMMA SplitIs ==
  ASSUME NEW ts, SessionOK(ts), NEW p, Told(ts, p)
  PROVE  Split(p) = SplitOf(ts)
<1>. DEFINE s == p.msgs
<1>1. p \in View /\ Spans(ts, s) /\ s \in Seq(Row)
  BY ToldIs, ToldSpans
<1>2. ASSUME NEW turn \in TurnsOf(p), StoredOf(p, turn) # {}
      PROVE  StoredOf(p, turn) \in SplitOf(ts)
  <2>1. PICK id \in IdsOf(p, turn) : Stored(id)
    BY <1>2 DEF StoredOf
  <2>2. Span(s, turn[1], turn[2])
    BY <1>1, TurnPair
  <2>3. PICK k \in turn[1]..turn[2] : s[k].id = id
    BY DEF IdsOf
  <2>4. k \in DOMAIN s
    BY <1>1, <2>2 DEF Span
  <2>5. PICK t \in 1..Len(ts) : \E j \in 1..ts[t].wrote : s[k].id = Reply(t, j)
    BY <1>1, <2>1, <2>3, <2>4 DEF Spans
  <2>6. PICK j \in 1..ts[t].wrote : id = Reply(t, j)
    BY <2>3, <2>5
  <2>7. ts[t].wrote > 0
    BY <2>6, SessionIs
  <2>8. StoredOf(p, turn) = RepliesOf(ts, t)
    BY <2>1, <2>6, TurnShows
  <2>. QED
    BY <2>7, <2>8 DEF SplitOf
<1>3. ASSUME NEW t \in 1..Len(ts), ts[t].wrote > 0
      PROVE  \E turn \in TurnsOf(p) : StoredOf(p, turn) = RepliesOf(ts, t) /\ StoredOf(p, turn) # {}
  <2>1. 1 \in 1..ts[t].wrote
    BY <1>3, SessionIs
  <2>2. PICK i \in DOMAIN s : s[i].id = Reply(t, 1)
    BY <1>1, <2>1 DEF Spans, Present
  <2>3. PICK a, b : Span(s, a, b) /\ a <= i /\ i <= b
    BY <1>1, <2>2, SpanAt
  <2>. DEFINE turn == <<a, b>>
  <2>4. turn \in TurnsOf(p)
    BY <1>1, <2>3, TurnSpan
  <2>5. i \in a..b
    BY <1>1, <2>3 DEF Span
  <2>6. Reply(t, 1) \in IdsOf(p, turn)
    BY <2>2, <2>5 DEF IdsOf
  <2>. HIDE DEF turn
  <2>7. StoredOf(p, turn) = RepliesOf(ts, t)
    BY <2>1, <2>4, <2>6, TurnShows
  <2>8. Reply(t, 1) \in RepliesOf(ts, t)
    BY <2>1 DEF RepliesOf
  <2>. QED
    BY <2>4, <2>7, <2>8
<1>4. \A x \in Split(p) : x \in SplitOf(ts)
  BY <1>2 DEF Split
<1>5. ASSUME NEW x \in SplitOf(ts)
      PROVE  x \in Split(p)
  <2>1. PICK t \in 1..Len(ts) : ts[t].wrote > 0 /\ x = RepliesOf(ts, t)
    BY DEF SplitOf
  <2>. QED
    BY <1>3, <2>1 DEF Split
<1>. QED
  BY <1>4, <1>5

(* What a view that is told reads as open is the run's.                         *)
LEMMA ToldOpen ==
  ASSUME NEW ts, SessionOK(ts), NEW p, Told(ts, p)
  PROVE  OpenFor(p)
<1>. DEFINE n == Len(ts)
            s == p.msgs
<1>1. SUFFICES ASSUME NEW turn \in TurnsOf(p), Reads(p, turn) \in {"running",
           "waiting"}
               PROVE  /\ Ongoing(p) /\ Active(p) \in IdsOf(p, turn)
                      /\ \A id \in StoredOf(p, turn) : id[2] = p.run
  BY DEF OpenFor
<1>. DEFINE a == turn[1]
            b == turn[2]
<1>2. /\ p \in View /\ Spans(ts, s) /\ s \in Seq(Row) /\ Active(p) = p.active
      /\ Shows(p, n, PhaseOf(ts), Written(ts), OwnOf(ts), ReportedOf(ts))
      /\ Base(ts, p, n, Written(ts)) /\ n \in Nat /\ Written(ts) \in Nat
  BY ToldIs, ToldSpans, SessionIs
<1>3. Span(s, a, b)
  BY <1>2, TurnPair
<1>4. IdsOf(p, turn) = {s[k].id : k \in a..b}
  BY DEF IdsOf
<1>5. s[b].status \in {"running", "waiting"}
  BY <1>1 DEF Reads
<1>6. /\ b \in DOMAIN s /\ DOMAIN s = 1..Len(s) /\ a \in 1..Len(s) /\ b \in a..b /\ Chained(s)
      /\ a \in Nat /\ b \in Nat /\ Len(s) \in Nat /\ a <= b /\ a..b \subseteq DOMAIN s
  BY <1>2, <1>3 DEF Span, Spans
<1>7. s[b].id = p.active
  BY <1>2, <1>5, <1>6 DEF Base, Quiet, Rests
<1>8. p.active # None
  BY <1>2, <1>6, <1>7, RowIs
<1>9. /\ Ongoing(p) /\ p.run = n
      /\ p.active = Host(n) \/ p.active \in Strays \/ p.active = Reply(n, Written(ts))
  <2>1. Holds(p, n, PhaseOf(ts), Written(ts), OwnOf(ts), ReportedOf(ts))
    BY <1>2 DEF Shows
  <2>. QED
    BY <1>8, <2>1 DEF Holds
<1>10. p.active \in IdsOf(p, turn)
  BY <1>4, <1>6, <1>7
<1>11. ASSUME NEW id \in StoredOf(p, turn)
       PROVE  id[2] = n
  <2>1. Stored(id) /\ id \in IdsOf(p, turn)
    BY DEF StoredOf
  <2>2. PICK k \in a..b : s[k].id = id
    BY <1>4, <2>1
  <2>3. b \in k..b
    BY <1>6
  <2>4. Stored(s[b].id) /\ s[b].id[2] = id[2]
    BY <1>3, <1>6, <2>1, <2>2, <2>3, SpanUp
  <2>5. p.active = Reply(n, Written(ts))
    BY <1>2, <1>7, <1>9, <2>4, Names DEF Stored
  <2>. QED
    BY <1>2, <1>7, <2>4, <2>5, Names
<1>. QED
  BY <1>2, <1>9, <1>10, <1>11

(* The turn of a run that wrote reads as under way.                             *)
LEMMA ToldReads ==
  ASSUME SessionOK(turns), NEW p, Told(turns, p)
  PROVE  RunReads(p)
<1>. DEFINE n == Len(turns)
            w == Latest.wrote
            s == p.msgs
            reads == IF Latest.reported THEN "failed" ELSE Latest.phase
<1>1. SUFFICES ASSUME Under, w > 0
               PROVE  /\ p.run = n /\ Ongoing(p)
                      /\ \E turn \in TurnsOf(p) : {Reply(n, w), Host(n)} \cap IdsOf(p, turn) # {}
                                                /\ Reads(p, turn) \in {"laid", reads}
  BY DEF RunReads
<1>2. turns # <<>> /\ Latest.phase \in {"running", "waiting"}
  BY <1>1 DEF Under, UnderWay, Latest
<1>3. /\ PhaseOf(turns) \in {"running", "waiting"} /\ PhaseOf(turns) = Latest.phase /\ Written(turns) = w
      /\ ReportedOf(turns) = Latest.reported /\ n \in Nat
  BY <1>2, LatestIs
<1>4. /\ p \in View /\ s \in Seq(Row) /\ Holds(p, n, PhaseOf(turns), w, OwnOf(turns), ReportedOf(turns))
  BY <1>3, ToldIs DEF Shows
<1>5. /\ p.run = n /\ Ongoing(p) /\ p.active # None /\ s # <<>> /\ p.active = Last(s).id
      /\ p.active = Host(n) \/ p.active = Reply(n, w) \/ w = 0
      /\ Last(s).status \in {"laid", reads}
  BY <1>1, <1>3, <1>4 DEF Holds
<1>. HIDE DEF n, w, s, reads
<1>6. w # 0
  BY <1>1
<1>7. Len(s) \in DOMAIN s /\ Len(s) \in Nat
  BY <1>4, <1>5
<1>8. PICK a, b : Span(s, a, b) /\ a <= Len(s) /\ Len(s) <= b
  BY <1>4, <1>7, SpanAt
<1>9. b = Len(s) /\ Len(s) \in a..b
  BY <1>7, <1>8 DEF Span
<1>. DEFINE turn == <<a, b>>
<1>10. turn \in TurnsOf(p)
  BY <1>4, <1>8, TurnSpan DEF s
<1>11. Last(s).id \in IdsOf(p, turn) /\ Reads(p, turn) \in {"laid", reads}
  BY <1>5, <1>9 DEF IdsOf, Reads, Last, s
<1>12. Last(s).id \in {Reply(n, w), Host(n)}
  BY <1>5, <1>6
<1>13. {Reply(n, w), Host(n)} \cap IdsOf(p, turn) # {}
  BY <1>11, <1>12
<1>. QED
  BY <1>5, <1>10, <1>11, <1>13

(* The last reply of a turn is the last message of the turn that shows it.      *)
LEMMA EndIsLast ==
  ASSUME NEW ts, SessionOK(ts), NEW p, Told(ts, p), NEW t \in 1..Len(ts), ts[t].wrote > 0,
         NEW turn \in TurnsOf(p), Reply(t, ts[t].wrote) \in IdsOf(p, turn)
  PROVE  turn[2] \in DOMAIN p.msgs /\ p.msgs[turn[2]].id = Reply(t, ts[t].wrote)
<1>. DEFINE s == p.msgs
            a == turn[1]
            b == turn[2]
            w == ts[t].wrote
<1>1. p \in View /\ Spans(ts, s)
  BY ToldIs, ToldSpans
<1>2. Span(s, a, b)
  BY <1>1, TurnPair
<1>3. IdsOf(p, turn) = {s[k].id : k \in a..b}
  BY DEF IdsOf
<1>4. t \in Nat /\ w \in Nat /\ w > 0
  BY SessionIs
<1>5. PICK k \in a..b : s[k].id = Reply(t, w)
  BY <1>3
<1>6. \A u \in 1..Len(ts) : ts[u].wrote \in Nat /\ u \in Nat
  BY SessionIs
<1>. HIDE DEF s, a, b
<1>7. /\ Chained(s) /\ DOMAIN s = 1..Len(s) /\ Len(s) \in Nat /\ a \in 1..Len(s) /\ b \in 1..Len(s) /\ a <= b
      /\ k \in 1..Len(s) /\ k <= b /\ a <= k
  BY <1>1, <1>2 DEF Spans, Chained, Span
<1>8. Stored(s[k].id) /\ s[k].id[2] = t /\ s[k].id[3] = w /\ s[k].id \notin Strays
  BY <1>4, <1>5, Names DEF Stored
<1>9. ~(k < b)
  <2>1. SUFFICES ASSUME k < b
                 PROVE  FALSE
    OBVIOUS
  <2>. DEFINE e == k + 1
  <2>2. e \in a + 1..b /\ e \in 1..Len(s) /\ e - 1 = k
    BY <1>7, <2>1
  <2>. HIDE DEF e
  <2>3. Joins(s, e)
    BY <1>2, <2>2 DEF Span
  <2>4. NextReply(s[k].id, s[e].id)
    BY <1>7, <1>8, <2>2, <2>3 DEF Chained
  <2>5. Stored(s[e].id) /\ s[e].id[2] = t /\ s[e].id[3] = w + 1
    BY <1>8, <2>4 DEF NextReply
  <2>6. PICK u \in 1..Len(ts) : \E j \in 1..ts[u].wrote : s[e].id = Reply(u, j)
    BY <1>1, <1>7, <2>2, <2>5 DEF Spans
  <2>7. PICK j \in 1..ts[u].wrote : s[e].id = Reply(u, j)
    BY <2>6
  <2>8. j \in Nat /\ u \in Nat
    BY <1>6
  <2>9. u = t /\ j = w + 1
    BY <2>5, <2>7, <2>8, Names
  <2>. QED
    BY <1>4, <2>7, <2>9
<1>10. k = b
  BY <1>7, <1>9
<1>. QED
  BY <1>5, <1>7, <1>10 DEF s, b

(* A turn that ended reads as it did where that was watched, elsewhere at least  *)
(* not as another turn's end.                                                 *)
LEMMA ToldEnds ==
  ASSUME NEW ts, SessionOK(ts), NEW p, Told(ts, p), NEW t \in DOMAIN ts,
         ts[t].phase = "ended", ts[t].wrote > 0,
         NEW turn \in TurnsOf(p), Reply(t, ts[t].wrote) \in IdsOf(p, turn)
  PROVE  /\ EndsKnown(ts, p) => Reads(p, turn) \in {"laid", ts[t].how}
         /\ Reads(p, turn) \in {"none", "complete", "laid", ts[t].how}
<1>. DEFINE n == Len(ts)
            s == p.msgs
            b == turn[2]
            w == ts[t].wrote
<1>1. t \in 1..n /\ n \in Nat /\ t \in Nat /\ w \in Nat /\ n > 0 /\ ts # <<>> /\ Written(ts) \in Nat
  BY SessionIs
<1>2. b \in DOMAIN s /\ s[b].id = Reply(t, w)
  BY <1>1, EndIsLast
<1>3. Stored(s[b].id) /\ s[b].id[2] = t /\ s[b].id[3] = w
  BY <1>1, <1>2, Names DEF Stored
<1>4. Reads(p, turn) = s[b].status
  BY DEF Reads
<1>5. EndsKnown(ts, p) => s[b].status \in {"laid", ts[t].how}
  BY <1>2, <1>3 DEF EndsKnown
<1>6. s[b].id # p.active
  <2>1. SUFFICES ASSUME s[b].id = p.active
                 PROVE  FALSE
    OBVIOUS
  <2>2. s \in Seq(Row) /\ Shows(p, n, PhaseOf(ts), Written(ts), OwnOf(ts), ReportedOf(ts))
    BY ToldIs
  <2>3. p.active # None
    BY <1>2, <2>1, <2>2, RowIs
  <2>4. /\ PhaseOf(ts) \in {"running", "waiting"}
        /\ p.active = Host(n) \/ p.active \in Strays \/ p.active = Reply(n, Written(ts))
    <3>1. Holds(p, n, PhaseOf(ts), Written(ts), OwnOf(ts), ReportedOf(ts))
      BY <2>2 DEF Shows
    <3>. QED
      BY <2>3, <3>1 DEF Holds
  <2>5. p.active = Reply(n, Written(ts))
    BY <1>1, <1>3, <2>1, <2>4, Names DEF Stored
  <2>6. t = n
    BY <1>1, <1>3, <2>1, <2>5, Names
  <2>. QED
    BY <1>1, <2>4, <2>6 DEF PhaseOf
<1>7. s[b].status \in {"none", "complete", "laid", ts[t].how}
  <2>1. Rests(ts, s[b].id, s[b].status)
    BY <1>2, <1>6, ToldIs DEF Base, Quiet
  <2>. QED
    BY <1>3, <2>1 DEF Rests
<1>. QED
  BY <1>4, <1>5, <1>7

(* A view is one, and shows no message twice.                                  *)
LEMMA IsProjection ==
  ASSUME NEW p \in View, \A i, j \in DOMAIN p.msgs : p.msgs[i].id = p.msgs[j].id => i = j,
         p.active # None => Present(p.msgs, p.active)
  PROVE  Projection(p)
<1>1. /\ p.exec \in {"idle", "running", "waiting", "failed"} /\ p.reported \in BOOLEAN
      /\ p.run \in 0..MaxTurns /\ p.streamed \in 0..MaxTurns /\ p.msgs \in Seq(Row)
  BY Viewed
<1>2. \A i \in DOMAIN p.msgs : p.msgs[i] \in Row
  BY <1>1
<1>3. \A i \in DOMAIN p.msgs :
        /\ p.msgs[i].role \in {"user", "reply"} /\ p.msgs[i].status \in Statuses
        /\ p.msgs[i].opens \in BOOLEAN
  BY <1>2, RowIs
<1>4. p.active = None \/ Has(p, p.active)
  BY DEF Has, Present
<1>. QED
  BY <1>1, <1>3, <1>4 DEF Projection

(* A view that is told is of the projection's type.                          *)
LEMMA ToldProjection ==
  ASSUME NEW ts, SessionOK(ts), NEW p, Told(ts, p)
  PROVE  Projection(p)
<1>1. p \in View /\ Base(ts, p, Len(ts), Written(ts))
  BY ToldIs
<1>2. \A i, j \in DOMAIN p.msgs : p.msgs[i].id = p.msgs[j].id => i = j
  BY <1>1 DEF Base, RowsOK
<1>3. p.active # None => Present(p.msgs, p.active)
  BY <1>1 DEF Base
<1>. QED
  BY <1>1, <1>2, <1>3, IsProjection

(* So is a view that is gone.                                                *)
LEMMA GoneProjection ==
  ASSUME NEW ts, NEW p, Gone(ts, p)
  PROVE  Projection(p)
<1>1. p \in View /\ p.msgs = <<>> /\ p.active = None
  BY DEF Gone
<1>2. \A i, j \in DOMAIN p.msgs : p.msgs[i].id = p.msgs[j].id => i = j
  BY <1>1
<1>. QED
  BY <1>1, <1>2, IsProjection

(* What the invariant says of what is shown.                                   *)
LEMMA InvShows ==
  ASSUME IInv
  PROVE  TypeOK /\ OnlyTheRunIsOpen /\ RunReadsOpen /\ TurnKeepsItsEnd /\ GroupsAgree
<1>1. /\ SessionOK(turns) /\ linked \in BOOLEAN /\ asides \in 0..MaxAsides
      /\ Told(turns, live) /\ Watched(turns, live)
      /\ (linked => Told(turns, view)) /\ (~linked => Gone(turns, view))
  BY DEF IInv
<1>2. TypeOK
  <2>1. turns \in Seq(Turn) /\ Len(turns) <= MaxTurns
    BY <1>1 DEF SessionOK
  <2>2. Projection(live)
    BY <1>1, ToldProjection
  <2>3. Projection(view)
    BY <1>1, ToldProjection, GoneProjection
  <2>. QED
    BY <1>1, <2>1, <2>2, <2>3 DEF TypeOK
<1>3. OnlyTheRunIsOpen
  BY <1>1, ToldOpen DEF OnlyTheRunIsOpen
<1>4. RunReadsOpen
  BY <1>1, ToldReads DEF RunReadsOpen
<1>5. TurnKeepsItsEnd
  <2>1. EndsKnown(turns, live)
    BY <1>1 DEF Watched
  <2>. QED
    BY <1>1, <2>1, ToldEnds DEF TurnKeepsItsEnd
<1>6. GroupsAgree
  BY <1>1, SplitIs DEF GroupsAgree
<1>. QED
  BY <1>2, <1>3, <1>4, <1>5, <1>6

-----------------------------------------------------------------------------
(* Recursion.                                                                 *)

(* A set of naturals has a least one.                                         *)
LEMMA Smallest ==
  ASSUME NEW T, T \subseteq Nat, T # {}
  PROVE  \E m \in T : \A n \in T : m <= n
<1>1. PICK x \in T : \A y \in T : ~(<<y, x>> \in OpToRel(<, Nat))
  BY NatLessThanWellFounded, WFMin
<1>2. \A y \in T : ~(y < x)
  BY <1>1 DEF OpToRel
<1>3. \A y \in T : y \in Nat
  OBVIOUS
<1>. QED
  BY <1>2, <1>3

(* A set that holds 0, and with a number below n the next, holds all to n.      *)
LEMMA Upward ==
  ASSUME NEW n \in Nat, NEW T, 0 \in T, \A m \in 0..n : m \in T /\ m < n => m + 1 \in T
  PROVE  \A m \in 0..n : m \in T
<1>. DEFINE Out == {m \in 0..n : m \notin T}
<1>1. SUFFICES ASSUME Out # {}
               PROVE  FALSE
  OBVIOUS
<1>2. PICK m \in Out : \A k \in Out : m <= k
  <2>1. Out \subseteq Nat
    OBVIOUS
  <2>. HIDE DEF Out
  <2>. QED
    BY <1>1, <2>1, Smallest
<1>3. m \in 1..n /\ m - 1 \notin Out
  BY <1>2
<1>4. m - 1 \in T /\ m - 1 < n /\ m - 1 \in 0..n
  BY <1>3
<1>5. (m - 1) + 1 \in T
  BY <1>4
<1>. QED
  BY <1>3, <1>5

(* Steps that lead from each stage to the next lead from the first to the last,  *)
(* and are a function of the stages.                                          *)
Leads(F, n, I, b, G) ==
  /\ F = [i \in 0..n |-> F[i]] /\ F[0] = b
  /\ \A i \in 1..n : F[i] = G[<<i, F[i - 1]>>]
  /\ \A i \in 0..n : F[i] \in I[i]

(* Such a function exists, built from the stages.                            *)
LEMMA Stages ==
  ASSUME NEW n \in Nat, NEW I, NEW b \in I[0], NEW G,
         \A i \in 1..n : \A x \in I[i - 1] : G[<<i, x>>] \in I[i]
  PROVE  \E F : Leads(F, n, I, b, G)
<1>. DEFINE T == {m \in Nat : \E F : Leads(F, m, I, b, G)}
<1>1. 0 \in T
  <2>. DEFINE F == [i \in 0..0 |-> b]
  <2>1. F = [i \in 0..0 |-> F[i]] /\ F[0] = b
    OBVIOUS
  <2>2. (\A i \in 0..0 : i = 0) /\ (\A i \in 1..0 : FALSE)
    OBVIOUS
  <2>. HIDE DEF F
  <2>3. Leads(F, 0, I, b, G)
    BY <2>1, <2>2 DEF Leads
  <2>. QED
    BY <2>3
<1>2. ASSUME NEW m \in 0..n, m \in T, m < n
      PROVE  m + 1 \in T
  <2>1. PICK F : Leads(F, m, I, b, G)
    BY <1>2
  <2>. DEFINE o == m + 1
              H == [i \in 0..o |-> IF i = o THEN G[<<o, F[m]>>] ELSE F[i]]
  <2>2. m \in 0..m /\ m \in Nat /\ o \in Nat /\ o \in 1..n /\ o - 1 = m /\ o \in 0..o /\ 0 \in 0..m /\ o \notin 0..m
    BY <1>2
  <2>3. \A i \in 0..o : i \in 0..m \/ i = o
    BY <1>2
  <2>4. \A i \in 1..o : (i \in 1..m /\ i - 1 \in 0..m /\ i \in 0..m) \/ i = o
    BY <1>2
  <2>5. \A i \in 0..m : i \in 0..o
    BY <1>2
  <2>. HIDE DEF o
  <2>6. H[o] = G[<<o, F[m]>>] /\ (\A i \in 0..m : H[i] = F[i]) /\ H = [i \in 0..o |-> H[i]]
    BY <2>2, <2>5
  <2>. HIDE DEF H
  <2>7. F[m] \in I[m] /\ F[0] = b /\ \A i \in 0..m : F[i] \in I[i]
    BY <2>1, <2>2 DEF Leads
  <2>8. G[<<o, F[m]>>] \in I[o]
    BY <2>2, <2>7
  <2>9. \A i \in 0..o : H[i] \in I[i]
    BY <2>3, <2>6, <2>7, <2>8
  <2>10. ASSUME NEW i \in 1..o
         PROVE  H[i] = G[<<i, H[i - 1]>>]
    <3>1. CASE i = o
      BY <2>2, <2>6, <3>1
    <3>2. CASE i \in 1..m /\ i - 1 \in 0..m /\ i \in 0..m
      <4>1. F[i] = G[<<i, F[i - 1]>>]
        BY <2>1, <3>2 DEF Leads
      <4>2. H[i] = F[i] /\ H[i - 1] = F[i - 1]
        BY <2>6, <3>2
      <4>. QED
        BY <4>1, <4>2
    <3>. QED
      BY <2>4, <3>1, <3>2
  <2>11. H[0] = b
    BY <2>2, <2>6, <2>7
  <2>12. Leads(H, o, I, b, G)
    BY <2>6, <2>9, <2>10, <2>11 DEF Leads
  <2>13. o \in T
    BY <2>2, <2>12
  <2>. QED
    BY <2>13 DEF o
<1>. HIDE DEF T
<1>3. n \in T
  BY <1>1, <1>2, Upward
<1>. QED
  BY <1>3 DEF T

(* What a turn's content leads to, a reply after another.                       *)
Replied(p, t, k, from) == Apply(p, Said(Reply(t, k), turns[t].own /\ k = 1, from))
Contents(p, t, from, w, I) ==
  /\ w \in Nat /\ w = turns[t].wrote /\ Compacted(p, t, 0, from) \in I[0]
  /\ \A k \in 1..w : \A x \in I[k - 1] : Compacted(Replied(x, t, k, from), t, k, from) \in I[k]

(* A stage that every reply leads on to is reached by the turn's whole       *)
(* content.                                                                  *)
LEMMA ContentIs ==
  ASSUME NEW p, NEW t, NEW from, NEW w, NEW I, Contents(p, t, from, w, I)
  PROVE  Content(p, t, from) \in I[w]
<1>. DEFINE More(k, x) == Compacted(Replied(x, t, k, from), t, k, from)
            first == Compacted(p, t, 0, from)
            Is(H) == H = [k \in 0..w |-> Compacted(IF k = 0 THEN p
                        ELSE Apply(H[k - 1], Said(Reply(t, k), turns[t].own /\ k = 1, from)), t, k, from)]
            F == CHOOSE H : Is(H)
            D == UNION {I[k] : k \in 0..w}
            G == [q \in (1..w) \X D |-> More(q[1], q[2])]
<1>1. Content(p, t, from) = F[w]
  BY DEF Contents, Content
<1>2. w \in Nat /\ first \in I[0] /\ \A k \in 1..w : \A x \in I[k - 1] : More(k, x) \in I[k]
  BY DEF Contents
<1>3. \A k \in 1..w : \A x \in I[k - 1] : x \in D
  BY <1>2
<1>4. \A k \in 1..w : \A x \in I[k - 1] : G[<<k, x>>] = More(k, x)
  <2>. HIDE DEF D, More
  <2>. QED
    BY <1>3
<1>. HIDE DEF G, D
<1>5. PICK H : Leads(H, w, I, first, G)
  <2>1. \A k \in 1..w : \A x \in I[k - 1] : G[<<k, x>>] \in I[k]
    BY <1>2, <1>4
  <2>. HIDE DEF first, More
  <2>. QED
    BY <1>2, <2>1, Stages
<1>6. /\ H = [i \in 0..w |-> H[i]] /\ H[0] = first /\ \A i \in 0..w : H[i] \in I[i]
  BY <1>5 DEF Leads
<1>7. \A i \in 1..w : H[i] = More(i, H[i - 1])
  <2>1. \A i \in 1..w : i - 1 \in 0..w /\ H[i] = G[<<i, H[i - 1]>>]
    BY <1>2, <1>5 DEF Leads
  <2>2. \A i \in 1..w : H[i - 1] \in I[i - 1]
    BY <1>6, <2>1
  <2>. HIDE DEF More
  <2>. QED
    BY <1>4, <2>1, <2>2
<1>8. \A k \in 0..w : H[k] = Compacted(IF k = 0 THEN p
                        ELSE Apply(H[k - 1], Said(Reply(t, k), turns[t].own /\ k = 1, from)), t, k, from)
  <2>1. SUFFICES ASSUME NEW k \in 0..w
                 PROVE  H[k] = Compacted(IF k = 0 THEN p
                          ELSE Apply(H[k - 1], Said(Reply(t, k), turns[t].own /\ k = 1, from)), t, k, from)
    OBVIOUS
  <2>2. CASE k = 0
    BY <1>6, <2>2
  <2>3. CASE k # 0
    <3>1. k \in 1..w
      BY <1>2, <2>3
    <3>. QED
      BY <1>7, <2>3, <3>1 DEF Replied
  <2>. QED
    BY <2>2, <2>3
<1>9. Is(H)
  BY <1>6, <1>8
<1>10. Is(F)
  <2>. HIDE DEF Is
  <2>. QED
    BY <1>9
<1>11. \A k \in 0..w : F[k] \in I[k]
  <2>. DEFINE T == {k \in Nat : F[k] = H[k]}
  <2>1. \A k \in 0..w : F[k] = Compacted(IF k = 0 THEN p
                        ELSE Apply(F[k - 1], Said(Reply(t, k), turns[t].own /\ k = 1, from)), t, k, from)
    <3>1. F = [k \in 0..w |-> Compacted(IF k = 0 THEN p
                        ELSE Apply(F[k - 1], Said(Reply(t, k), turns[t].own /\ k = 1, from)), t, k, from)]
      BY <1>10
    <3>. HIDE DEF F
    <3>. QED
      BY <3>1
  <2>. HIDE DEF F
  <2>2. 0 \in T
    BY <1>2, <1>8, <2>1
  <2>3. ASSUME NEW m \in 0..w, m \in T, m < w
        PROVE  m + 1 \in T
    <3>. DEFINE o == m + 1
    <3>1. o \in 0..w /\ o # 0 /\ o - 1 = m /\ o \in Nat /\ F[m] = H[m]
      BY <1>2, <2>3
    <3>. HIDE DEF o
    <3>2. F[o] = H[o]
      BY <1>8, <2>1, <3>1
    <3>. QED
      BY <3>1, <3>2 DEF o
  <2>. HIDE DEF T
  <2>4. \A m \in 0..w : m \in T
    BY <1>2, <2>2, <2>3, Upward
  <2>. QED
    BY <1>6, <2>4 DEF T
<1>. QED
  BY <1>1, <1>2, <1>11

(* What a replay leads to, a turn after another.                               *)
TurnOf(x, t, bracketed) == IF bracketed THEN Bracketed(x, t) ELSE Plain(x, t)

(* A stage that every turn leads on to is reached by the whole replay.       *)
LEMMA ReplayedIs ==
  ASSUME NEW p, NEW bracketed, NEW n \in Nat, n = Len(turns), NEW I, p \in I[0],
         \A t \in 1..n : \A x \in I[t - 1] : TurnOf(x, t, bracketed) \in I[t]
  PROVE  \E q \in I[n] : Replayed(p, bracketed) = Restated(q, ~bracketed)
<1>. DEFINE Is(H) == H = [t \in 0..n |-> IF t = 0 THEN p
                            ELSE IF bracketed THEN Bracketed(H[t - 1], t) ELSE Plain(H[t - 1], t)]
            F == CHOOSE H : Is(H)
            D == UNION {I[k] : k \in 0..n}
            G == [q \in (1..n) \X D |-> TurnOf(q[2], q[1], bracketed)]
<1>1. Replayed(p, bracketed) = Restated(F[n], ~bracketed)
  BY DEF Replayed
<1>3. \A t \in 1..n : \A x \in I[t - 1] : x \in D
  OBVIOUS
<1>4. \A t \in 1..n : \A x \in I[t - 1] : G[<<t, x>>] = TurnOf(x, t, bracketed)
  <2>. HIDE DEF D
  <2>. QED
    BY <1>3
<1>. HIDE DEF G, D
<1>5. PICK H : Leads(H, n, I, p, G)
  <2>1. \A t \in 1..n : \A x \in I[t - 1] : G[<<t, x>>] \in I[t]
    BY <1>4
  <2>. QED
    BY <2>1, Stages
<1>6. /\ H = [i \in 0..n |-> H[i]] /\ H[0] = p /\ \A i \in 0..n : H[i] \in I[i]
  BY <1>5 DEF Leads
<1>7. \A i \in 1..n : H[i] = TurnOf(H[i - 1], i, bracketed)
  <2>1. \A i \in 1..n : i - 1 \in 0..n /\ H[i] = G[<<i, H[i - 1]>>]
    <3>1. \A i \in 1..n : H[i] = G[<<i, H[i - 1]>>]
      BY <1>5, Zenon DEF Leads
    <3>. QED
      BY <3>1
  <2>2. \A i \in 1..n : H[i - 1] \in I[i - 1]
    BY <1>6, <2>1
  <2>. QED
    BY <1>4, <2>1, <2>2
<1>8. \A t \in 0..n : H[t] = IF t = 0 THEN p
                            ELSE IF bracketed THEN Bracketed(H[t - 1], t) ELSE Plain(H[t - 1], t)
  <2>1. SUFFICES ASSUME NEW t \in 0..n
                 PROVE  H[t] = IF t = 0 THEN p
                            ELSE IF bracketed THEN Bracketed(H[t - 1], t) ELSE Plain(H[t - 1], t)
    OBVIOUS
  <2>2. CASE t = 0
    BY <1>6, <2>2
  <2>3. CASE t # 0
    <3>1. t \in 1..n
      BY <2>3
    <3>. QED
      BY <1>7, <2>3, <3>1 DEF TurnOf
  <2>. QED
    BY <2>2, <2>3
<1>9. Is(H)
  BY <1>6, <1>8
<1>10. Is(F)
  <2>. HIDE DEF Is
  <2>. QED
    BY <1>9
<1>11. \A t \in 0..n : F[t] \in I[t]
  <2>. DEFINE T == {k \in Nat : F[k] = H[k]}
  <2>1. \A t \in 0..n : F[t] = IF t = 0 THEN p
                            ELSE IF bracketed THEN Bracketed(F[t - 1], t) ELSE Plain(F[t - 1], t)
    <3>1. F = [t \in 0..n |-> IF t = 0 THEN p
                            ELSE IF bracketed THEN Bracketed(F[t - 1], t) ELSE Plain(F[t - 1], t)]
      BY <1>10
    <3>. HIDE DEF F
    <3>. QED
      BY <3>1
  <2>. HIDE DEF F
  <2>2. 0 \in T
    BY <1>8, <2>1
  <2>3. ASSUME NEW m \in 0..n, m \in T, m < n
        PROVE  m + 1 \in T
    <3>. DEFINE o == m + 1
    <3>1. o \in 0..n /\ o # 0 /\ o - 1 = m /\ o \in Nat /\ F[m] = H[m]
      BY <2>3
    <3>. HIDE DEF o
    <3>2. F[o] = H[o]
      BY <1>8, <2>1, <3>1
    <3>. QED
      BY <3>1, <3>2 DEF o
  <2>. HIDE DEF T
  <2>4. \A m \in 0..n : m \in T
    BY <2>2, <2>3, Upward
  <2>. QED
    BY <1>6, <2>4 DEF T
<1>12. F[n] \in I[n]
  BY <1>11
<1>. HIDE DEF F
<1>. QED
  BY <1>1, <1>12

-----------------------------------------------------------------------------
(* A replay while a run reads as under way. `o`: its turn is the only one that is *)
(* open.                                                                      *)
AtRun(ts, v, t, k, o, p) ==
  /\ InRun(ts, p, t, k) /\ SameRun(v, p)
  /\ o /\ p.active # None /\ Stored(p.active) => p.active[2] = t

(* Noting the streamed turn leaves a replay in a run where it was.           *)
LEMMA AtRunSteady ==
  ASSUME NEW ts, NEW v, NEW t, NEW k, NEW o, NEW p, AtRun(ts, v, t, k, o, p), NEW q,
         Steady(p, q), q.streamed = p.streamed
  PROVE  AtRun(ts, v, t, k, o, q)
<1>1. InRun(ts, p, t, k) /\ SameRun(v, p) /\ (o /\ p.active # None /\ Stored(p.active) => p.active[2] = t)
  BY DEF AtRun
<1>2. /\ q \in View /\ q.msgs = p.msgs /\ q.active = p.active
      /\ q.exec = p.exec /\ q.run = p.run /\ q.reported = p.reported
  BY DEF Steady
<1>3. Base(ts, q, t, k)
  BY <1>1, BaseSteady DEF InRun
<1>4. InRun(ts, q, t, k)
  BY <1>1, <1>2, <1>3 DEF InRun
<1>5. SameRun(v, q)
  BY <1>1, <1>2 DEF SameRun
<1>. QED
  BY <1>1, <1>2, <1>4, <1>5 DEF AtRun

(* A compaction comes.                                                        *)
LEMMA RunCompact ==
  ASSUME NEW ts, NEW v, NEW t \in Nat, t > 0, NEW k \in Nat, NEW o, NEW p,
         AtRun(ts, v, t, k, o, p),
         NEW d, d = ApplyCompaction(p, t)
  PROVE  AtRun(ts, v, t, k, o, d)
<1>1. /\ InRun(ts, p, t, k) /\ SameRun(v, p) /\ (o /\ p.active # None /\ Stored(p.active) => p.active[2] = t)
      /\ Base(ts, p, t, k) /\ p.exec = "running"
  BY DEF AtRun, InRun
<1>2. p \in View /\ p.msgs \in Seq(Row) /\ (p.active # None => Present(p.msgs, p.active))
  BY <1>1, Based
<1>3. Active(p) = p.active
  BY <1>2, Activity
<1>. DEFINE part == Divider(t)
<1>4. part \in Part /\ part[1] \in {"divider", "notice"}
  BY Names
<1>5. CASE HasPart(p, t)
  <2>1. d = p
    BY <1>5 DEF ApplyCompaction
  <2>. QED
    BY <2>1
<1>6. CASE ~HasPart(p, t) /\ p.active # None
  <2>. DEFINE id == p.active
  <2>1. Present(p.msgs, id) /\ d = OnMessage(p, id, "reply", Parting(part))
    BY <1>2, <1>3, <1>6 DEF ApplyCompaction, Put, Parting
  <2>. HIDE DEF id, part
  <2>2. /\ Base(ts, d, t, k) /\ SameRun(p, d) /\ d.active = p.active
        /\ Repaints(p.msgs, d.msgs, None, "none")
    BY <1>1, <1>4, <2>1, RowGrown
  <2>3. /\ d.msgs = <<>> <=> p.msgs = <<>>
        /\ \A jd : Present(d.msgs, jd) <=> Present(p.msgs, jd)
        /\ p.msgs # <<>> => /\ Last(d.msgs).id = Last(p.msgs).id
                            /\ Last(d.msgs).status = IF Last(p.msgs).id = None THEN "none" ELSE Last(p.msgs).status
    <3>. DEFINE none == "none"
    <3>. HIDE DEF none
    <3>1. Repaints(p.msgs, d.msgs, None, none)
      BY <2>2 DEF none
    <3>. QED
      BY <1>2, <3>1, Repainted DEF none
  <2>4. p.msgs # <<>> => Last(p.msgs).id # None
    <3>1. p.msgs # <<>> => Last(p.msgs) \in Row
      BY <1>2 DEF Last
    <3>. QED
      BY <3>1, RowIs
  <2>5. InRun(ts, d, t, k)
    BY <1>1, <2>2, <2>3, <2>4 DEF InRun, SameRun
  <2>6. SameRun(v, d)
    BY <1>1, <2>2 DEF SameRun
  <2>. QED
    BY <1>1, <2>2, <2>5, <2>6 DEF AtRun
<1>7. CASE ~HasPart(p, t) /\ p.active = None
  <2>1. ~Present(p.msgs, Host(t)) /\ k = 0
    <3>1. Host(t) # None /\ Reply(t, k) # None
      BY DEF Host, Reply, None
    <3>. QED
      BY <1>1, <1>7, <3>1 DEF InRun
  <2>. DEFINE patch == Parting(part)
              e == OnMessage(p, Host(t), "reply", patch)
              q == [e EXCEPT !.active = Host(t)]
  <2>2. patch \in Patch /\ patch.parts = {part} /\ ~patch.opens
    BY <1>4, PartingIs
  <2>3. d = e
    BY <1>1, <1>3, <1>7 DEF ApplyCompaction, Put, Parting
  <2>. HIDE DEF patch, part
  <2>4. Hosting(ts, p, t, k, t, patch)
    <3>1. t <= t /\ Hosted(patch.parts)
      BY <1>4, <2>2 DEF Hosted
    <3>. QED
      BY <1>1, <1>7, <2>1, <2>2, <3>1 DEF Hosting
  <2>. HIDE DEF e
  <2>5. q = [OnMessage(p, Host(t), "reply", patch) EXCEPT !.active = Host(t)]
    BY DEF e
  <2>. HIDE DEF q
  <2>6. /\ Base(ts, q, t, k) /\ SameRun(p, q) /\ q.active = Host(t) /\ q.msgs # <<>>
        /\ Last(q.msgs).id = Host(t) /\ q = OnMessage(p, Host(t), "reply", patch)
    <3>1. HasHost(ts, p, q, t, k, t, patch)
      BY <2>4, <2>5, HostFresh
    <3>. QED
      BY <1>1, <3>1 DEF HasHost
  <2>7. q = d
    BY <2>3, <2>6 DEF e
  <2>8. InRun(ts, q, t, k)
    BY <1>1, <2>1, <2>6 DEF InRun, SameRun
  <2>9. SameRun(v, q)
    BY <1>1, <2>6 DEF SameRun
  <2>10. ~Stored(q.active)
    BY <2>6, Names DEF Stored
  <2>. QED
    BY <2>7, <2>8, <2>9, <2>10 DEF AtRun
<1>. QED
  BY <1>5, <1>6, <1>7

(* A reply comes.                                                             *)
LEMMA RunSaid ==
  ASSUME NEW ts, NEW v, NEW t, Counted(ts, t), t > 0, NEW k \in Nat, NEW j, j = k + 1,
         NEW o, NEW p,
         AtRun(ts, v, t, k, o, p), NEW opens \in BOOLEAN, opens <=> ts[t].own /\ j = 1,
         NEW d, d = OnMessage(p, Reply(t, j), "reply", Telling(opens))
  PROVE  AtRun(ts, v, t, j, o, d)
<1>1. /\ InRun(ts, p, t, k) /\ SameRun(v, p) /\ Base(ts, p, t, k) /\ p.exec = "running" /\ t \in Nat
  BY DEF AtRun, InRun, Counted
<1>2. p \in View /\ p.msgs \in Seq(Row) /\ RowsOK(p.msgs, Replies(ts, t, k), t)
  BY <1>1, Based DEF Base
<1>3. j \in Nat /\ j > 0 /\ (k > 0 => j # 1) /\ (k = 0 => j = 1)
  OBVIOUS
<1>4. k > 0 => ~opens /\ p.active = Reply(t, k) /\ p.msgs # <<>> /\ Last(p.msgs).id = Reply(t, k)
  BY <1>1, <1>3 DEF InRun
<1>5. k = 0 => \/ p.active = None
               \/ IsHost(p.active) /\ p.msgs # <<>> /\ Last(p.msgs).id = p.active
               \/ /\ p.active # None /\ ~IsHost(p.active)
                  /\ (opens \/ (p.msgs # <<>> /\ Last(p.msgs).role = "user"))
  <2>1. SUFFICES ASSUME k = 0, p.active # None
                 PROVE  \/ IsHost(p.active) /\ p.msgs # <<>> /\ Last(p.msgs).id = p.active
                        \/ ~IsHost(p.active) /\ (opens \/ (p.msgs # <<>> /\ Last(p.msgs).role = "user"))
    OBVIOUS
  <2>2. CASE p.active = Host(t) /\ p.msgs # <<>> /\ Last(p.msgs).id = Host(t)
    BY <1>1, <2>2, Names DEF IsHost
  <2>3. CASE Stored(p.active) /\ (ts[t].own \/ (p.msgs # <<>> /\ Last(p.msgs).id = User(t)))
    <3>1. ~IsHost(p.active)
      BY <2>3 DEF IsHost, Stored
    <3>2. p.msgs # <<>> /\ Last(p.msgs).id = User(t) => Last(p.msgs).role = "user"
      <4>1. p.msgs # <<>> => Len(p.msgs) \in DOMAIN p.msgs
        BY <1>2
      <4>2. \A i \in DOMAIN p.msgs : p.msgs[i].role = "user" <=> p.msgs[i].id[1] = "user"
        BY <1>2 DEF RowsOK
      <4>3. User(t)[1] = "user"
        BY <1>1, Names
      <4>. QED
        BY <4>1, <4>2, <4>3 DEF Last
    <3>. QED
      BY <1>3, <2>1, <2>3, <3>1, <3>2
  <2>. QED
    BY <1>1, <2>1, <2>2, <2>3 DEF InRun
<1>6. Saying(ts, t, k, j, p, opens)
  BY <1>1, <1>4, <1>5 DEF Saying
<1>7. RunSays(ts, p, d, t, j)
  BY <1>6, SaidRunning
<1>8. /\ Base(ts, d, t, j) /\ SameRun(p, d) /\ d.active = Reply(t, j) /\ d.msgs # <<>>
      /\ Last(d.msgs).id = Reply(t, j) /\ Last(d.msgs).status = "running"
      /\ \A id : IsHost(id) /\ Present(d.msgs, id) => Present(p.msgs, id) /\ id # p.active
  BY <1>7 DEF RunSays
<1>9. ~Present(d.msgs, Host(t))
  <2>1. IsHost(Host(t))
    BY <1>1, Names DEF IsHost
  <2>. QED
    BY <1>1, <1>8, <2>1 DEF InRun
<1>10. InRun(ts, d, t, j)
  BY <1>1, <1>3, <1>8, <1>9 DEF InRun, SameRun
<1>11. SameRun(v, d)
  BY <1>1, <1>8 DEF SameRun
<1>12. d.active[2] = t
  BY <1>1, <1>3, <1>8, Names
<1>. QED
  BY <1>10, <1>11, <1>12 DEF AtRun

(* A turn's content comes.                                                     *)
LEMMA RunContent ==
  ASSUME SessionOK(turns), NEW t \in 1..Len(turns), NEW w, w = turns[t].wrote, NEW v, NEW o,
         NEW p,
         NEW zero, zero = 0, AtRun(turns, v, t, zero, o, p), NEW from \in 0..MaxTurns
  PROVE  AtRun(turns, v, t, w, o, Content(p, t, from))
<1>. DEFINE I == [k \in 0..w |-> {x \in View : AtRun(turns, v, t, k, o, x)}]
            A(k, x) == AtRun(turns, v, t, k, o, x)
<1>1. t \in Nat /\ t > 0 /\ w \in Nat /\ Counted(turns, t) /\ turns[t].own \in BOOLEAN
  <2>1. \A i \in 1..t : i \in 1..Len(turns)
    OBVIOUS
  <2>. QED
    BY <2>1, SessionIs DEF Counted
<1>2. \A k, x : A(k, x) => x \in View /\ Ongoing(x)
  BY Based DEF AtRun, InRun, Ongoing
<1>3. ASSUME NEW k \in 0..w, NEW x, A(k, x)
      PROVE  A(k, Compacted(x, t, k, from))
  <2>1. CASE turns[t].compacted # k
    BY <1>3, <2>1 DEF Compacted
  <2>2. CASE turns[t].compacted = k
    <3>. DEFINE u == From(Update("compaction", t), from)
                d == ApplyCompaction(x, t)
                r == Noted(x, d, u)
    <3>1. u.kind = "compaction" /\ u.turn = t /\ u.from = from
      BY UpdateIs
    <3>2. Compacted(x, t, k, from) = Apply(x, u)
      BY <2>2 DEF Compacted, From
    <3>. HIDE DEF u
    <3>3. Kind(x, u) = d
      BY <3>1, KindIs
    <3>4. Compacted(x, t, k, from) = r
      BY <3>2, <3>3 DEF Apply
    <3>5. A(k, d)
      <4>. HIDE DEF d
      <4>1. d = ApplyCompaction(x, t)
        BY DEF d
      <4>2. k \in Nat
        BY <1>1
      <4>. QED
        BY <1>1, <1>3, <4>1, <4>2, RunCompact
    <3>. HIDE DEF d
    <3>6. d \in View /\ Ongoing(d)
      BY <1>2, <3>5
    <3>7. Steady(d, r) /\ r.streamed = d.streamed
      <4>1. u.kind \notin States
        BY <3>1 DEF States
      <4>. QED
        BY <3>1, <3>6, <4>1, NotedIs
    <3>. HIDE DEF r
    <3>8. A(k, r)
      BY <3>5, <3>7, AtRunSteady
    <3>. QED
      BY <3>4, <3>8
  <2>. QED
    BY <2>1, <2>2
<1>4. ASSUME NEW k \in 1..w, NEW x, A(k - 1, x)
      PROVE  A(k, Replied(x, t, k, from))
  <2>. DEFINE opens == turns[t].own /\ k = 1
              j == k - 1
              u == Said(Reply(t, k), opens, from)
              d == OnMessage(x, Reply(t, k), "reply", Telling(opens))
              r == Noted(x, d, u)
  <2>1. u.kind = "said" /\ u.id = Reply(t, k) /\ u.opens = opens /\ u.from = from
    BY SaidIs
  <2>2. Replied(x, t, k, from) = Apply(x, u)
    BY DEF Replied
  <2>3. opens \in BOOLEAN /\ (opens <=> turns[t].own /\ k = 1)
    BY <1>1
  <2>4. j \in Nat /\ k = j + 1 /\ A(j, x)
    BY <1>4
  <2>. HIDE DEF u, opens, j
  <2>5. Kind(x, u) = d
    BY <2>1, KindIs
  <2>6. Replied(x, t, k, from) = r
    BY <2>2, <2>5 DEF Apply
  <2>7. A(k, d)
    <3>. HIDE DEF d
    <3>1. d = OnMessage(x, Reply(t, k), "reply", Telling(opens))
      BY DEF d
    <3>. QED
      BY <1>1, <2>3, <2>4, <3>1, RunSaid
  <2>. HIDE DEF d
  <2>8. d \in View /\ Ongoing(d)
    BY <1>2, <2>7
  <2>9. Steady(d, r) /\ r.streamed = d.streamed
    <3>1. u.kind \notin States
      BY <2>1 DEF States
    <3>. QED
      BY <2>1, <2>8, <3>1, NotedIs
  <2>. HIDE DEF r
  <2>10. A(k, r)
    BY <2>7, <2>9, AtRunSteady
  <2>. QED
    BY <2>6, <2>10
<1>. HIDE DEF A
<1>5. \A k \in 0..w : \A x : x \in I[k] <=> A(k, x)
  BY <1>2 DEF A
<1>. HIDE DEF I
<1>6. 0 \in 0..w /\ w \in 0..w /\ \A k \in 1..w : k \in 0..w /\ k - 1 \in 0..w
  BY <1>1
<1>7. A(0, p)
  BY DEF A
<1>8. Contents(p, t, from, w, I)
  BY <1>1, <1>3, <1>4, <1>5, <1>6, <1>7 DEF Contents
<1>9. Content(p, t, from) \in I[w]
  BY <1>8, ContentIs
<1>. QED
  BY <1>5, <1>6, <1>9 DEF A

(* A replay while no run is known. A compaction that nothing follows is last; what *)
(* streamed is noted.                                                         *)
Resting(ts, v, t, k, from, p) ==
  /\ InRest(ts, p, t, k)
  /\ k = 0 /\ Present(p.msgs, Divider(t)) => p.msgs # <<>> /\ Last(p.msgs).id = Divider(t)
  /\ p.exec = v.exec /\ p.run = v.run /\ p.reported = v.reported
  /\ p.streamed \in {v.streamed, from}
  /\ Ongoing(v) \/ from = 0 => p.streamed = v.streamed
  /\ k > 0 /\ from # 0 /\ ~Ongoing(v) => p.streamed = from

(* An update is noted.                                                        *)
LEMMA RestNoted ==
  ASSUME NEW ts, NEW v, NEW t, NEW k, NEW from \in 0..MaxTurns, NEW p, NEW d, NEW u,
         u.from = from, u.kind \notin States,
         InRest(ts, d, t, k), d.exec = v.exec, d.run = v.run, d.reported = v.reported, d.streamed \in {v.streamed, from},
         Ongoing(v) \/ from = 0 => d.streamed = v.streamed,
         k = 0 /\ Present(d.msgs, Divider(t)) => d.msgs # <<>> /\ Last(d.msgs).id = Divider(t),
         k > 0 /\ from # 0 /\ ~Ongoing(v) => d.streamed = from \/ d.msgs # p.msgs,
         NEW r, r = Noted(p, d, u)
  PROVE  Resting(ts, v, t, k, from, r)
<1>1. d \in View /\ Base(ts, d, t, k)
  BY Based DEF InRest
<1>2. Steady(d, r) /\ (Ongoing(d) \/ from = 0 => r.streamed = d.streamed)
      /\ (d.msgs = p.msgs => r.streamed = d.streamed)
      /\ (~(d.msgs = p.msgs \/ Ongoing(d) \/ from = 0) => r.streamed = from)
  BY <1>1, NotedIs
<1>3. /\ r \in View /\ r.msgs = d.msgs /\ r.active = d.active
      /\ r.exec = d.exec /\ r.run = d.run /\ r.reported = d.reported
  BY <1>2 DEF Steady
<1>4. Base(ts, r, t, k)
  BY <1>1, <1>2, BaseSteady
<1>5. InRest(ts, r, t, k)
  BY <1>3, <1>4 DEF InRest
<1>6. Ongoing(d) <=> Ongoing(v)
  BY DEF Ongoing
<1>7. /\ r.streamed \in {v.streamed, from}
      /\ Ongoing(v) \/ from = 0 => r.streamed = v.streamed
      /\ k > 0 /\ from # 0 /\ ~Ongoing(v) => r.streamed = from
  BY <1>2, <1>6
<1>. QED
  BY <1>3, <1>5, <1>7 DEF Resting

(* A compaction comes.                                                        *)
RestsOn(ts, p, d, t, k) ==
  /\ InRest(ts, d, t, k) /\ SameRun(p, d)
  /\ k = 0 /\ Present(d.msgs, Divider(t)) => d.msgs # <<>> /\ Last(d.msgs).id = Divider(t)

(* A compaction that is replayed while no run is known leaves none.          *)
LEMMA RestCompact ==
  ASSUME NEW ts, NEW t \in Nat, NEW k \in Nat, NEW p, InRest(ts, p, t, k),
         k = 0 /\ Present(p.msgs, Divider(t)) => p.msgs # <<>> /\ Last(p.msgs).id = Divider(t),
         NEW d, d = ApplyCompaction(p, t)
  PROVE  RestsOn(ts, p, d, t, k)
<1>. DEFINE part == Divider(t)
            s == p.msgs
<1>1. /\ Base(ts, p, t, k) /\ p.exec # "running" /\ p.active = None /\ RestHosts(s)
      /\ k > 0 => s # <<>> /\ Last(s).id = Reply(t, k)
      /\ k = 0 /\ ~ts[t].own => s # <<>> /\ Last(s).id \in {User(t), Divider(t)}
  BY DEF InRest
<1>2. p \in View /\ s \in Seq(Row) /\ Active(p) = None
  BY <1>1, Based, Activity
<1>3. part \in Part /\ part[1] \in {"divider", "notice"} /\ part[1] = "divider"
  BY Names
<1>4. /\ \A i \in DOMAIN s : s[i].role = "user" <=> s[i].id[1] = "user"
      /\ \A i \in DOMAIN s : s[i].role \in {"user", "reply"} /\ s[i].id # None
  <2>1. \A i \in DOMAIN s : s[i] \in Row
    BY <1>2
  <2>. QED
    BY <1>1, <2>1, RowIs DEF Base, RowsOK
<1>5. s # <<>> => Len(s) \in DOMAIN s
  BY <1>2
<1>6. CASE HasPart(p, t)
  <2>1. d = p
    BY <1>6 DEF ApplyCompaction
  <2>. QED
    BY <2>1 DEF RestsOn, SameRun
<1>7. CASE ~HasPart(p, t) /\ Reopens(p)
  <2>. DEFINE id == Last(s).id
  <2>1. s # <<>>
    BY <1>7 DEF Reopens
  <2>2. Present(s, id)
    BY <1>5, <2>1 DEF Present, Last
  <2>3. d = OnMessage(p, id, "reply", Parting(part))
    BY <1>1, <1>2, <1>7 DEF ApplyCompaction, Put, Parting
  <2>4. id # None
    BY <1>4, <1>5, <2>1 DEF Last
  <2>. HIDE DEF id, part
  <2>5. /\ Base(ts, d, t, k) /\ SameRun(p, d) /\ d.active = p.active
        /\ Repaints(s, d.msgs, None, "none")
        /\ \A i \in DOMAIN s : d.msgs[i].parts \subseteq s[i].parts \cup {part}
    BY <1>1, <1>3, <2>2, <2>3, RowGrown
  <2>. DEFINE none == "none"
  <2>6. Repaints(s, d.msgs, None, none)
    BY <2>5
  <2>. HIDE DEF none, s
  <2>7. /\ DOMAIN d.msgs = DOMAIN s /\ (d.msgs = <<>> <=> s = <<>>)
        /\ \A jd : Present(d.msgs, jd) <=> Present(s, jd)
        /\ s # <<>> => Last(d.msgs).id = Last(s).id
    BY <1>2, <2>6, Repainted
  <2>8. RestHosts(d.msgs)
    <3>1. SUFFICES ASSUME NEW i \in DOMAIN d.msgs, IsHost(d.msgs[i].id)
                   PROVE  /\ d.msgs[i].id[1] = "divider" /\ d.msgs[i].status = "none"
                          /\ \A a \in d.msgs[i].parts : a[1] = "divider"
      BY DEF RestHosts
    <3>2. i \in DOMAIN s /\ d.msgs[i].id = s[i].id /\ s[i].id # None
          /\ d.msgs[i].status = IF s[i].id = None THEN none ELSE s[i].status
      BY <1>4, <2>6, <2>7 DEF Repaints
    <3>3. s[i].id[1] = "divider" /\ s[i].status = "none" /\ \A a \in s[i].parts : a[1] = "divider"
      BY <1>1, <3>1, <3>2 DEF RestHosts
    <3>4. d.msgs[i].parts \subseteq s[i].parts \cup {part}
      BY <2>5, <3>2
    <3>. QED
      BY <1>3, <3>2, <3>3, <3>4
  <2>9. InRest(ts, d, t, k)
    BY <1>1, <2>1, <2>5, <2>7, <2>8 DEF InRest, SameRun
  <2>10. k = 0 /\ Present(d.msgs, Divider(t)) => d.msgs # <<>> /\ Last(d.msgs).id = Divider(t)
    BY <2>7 DEF s
  <2>. QED
    BY <2>5, <2>9, <2>10 DEF RestsOn
<1>8. CASE ~HasPart(p, t) /\ ~Reopens(p)
  <2>1. s # <<>> => Last(s).role = "user"
    BY <1>4, <1>5, <1>8 DEF Reopens, Last
  <2>2. d = OnMessage(p, part, "reply", Parting(part))
    BY <1>1, <1>2, <1>8 DEF ApplyCompaction, Put, Parting
  <2>3. k = 0
    <3>1. k > 0 => Reply(t, k)[1] # "user"
      BY Names
    <3>. QED
      BY <1>1, <1>4, <1>5, <2>1, <3>1 DEF Last
  <2>4. ~Present(s, part)
    <3>1. Present(s, part) => s # <<>> /\ Last(s).id = part
      BY <2>3
    <3>2. part[1] # "user"
      BY <1>3
    <3>. QED
      BY <1>4, <1>5, <2>1, <3>1, <3>2 DEF Last
  <2>5. part # Notice
    BY <1>3, Names
  <2>6. Standing(ts, p, t, k, t, part, part)
    <3>1. part \in {Divider(t), Notice}
      OBVIOUS
    <3>. HIDE DEF part
    <3>. QED
      BY <1>1, <1>3, <2>1, <2>4, <2>5, <3>1 DEF Standing
  <2>7. StandsOn(ts, p, d, t, k, t, part, part)
    <3>. HIDE DEF part
    <3>. QED
      BY <2>2, <2>6, StandsAlone
  <2>8. /\ Base(ts, d, t, k) /\ SameRun(p, d) /\ d.active = None /\ d.msgs # <<>>
        /\ Last(d.msgs).id = Divider(t) /\ RestHosts(d.msgs)
    BY <1>1, <1>3, <2>7 DEF StandsOn
  <2>9. InRest(ts, d, t, k)
    BY <1>1, <2>3, <2>8 DEF InRest, SameRun
  <2>. QED
    BY <2>8, <2>9 DEF RestsOn
<1>. QED
  BY <1>6, <1>7, <1>8

(* A turn's content comes.                                                     *)
LEMMA RestContent ==
  ASSUME SessionOK(turns), NEW t \in 1..Len(turns), NEW w, w = turns[t].wrote, NEW v, NEW p,
         NEW from \in 0..MaxTurns, NEW zero, zero = 0, Resting(turns, v, t, zero, from, p)
  PROVE  Resting(turns, v, t, w, from, Content(p, t, from))
<1>. DEFINE A(k, x) == Resting(turns, v, t, k, from, x)
            I == [k \in 0..w |-> {x \in View : A(k, x)}]
<1>1. t \in Nat /\ t > 0 /\ w \in Nat /\ Counted(turns, t) /\ turns[t].own \in BOOLEAN
  <2>1. \A i \in 1..t : i \in 1..Len(turns)
    OBVIOUS
  <2>. QED
    BY <2>1, SessionIs DEF Counted
<1>2. \A k, x : A(k, x) => x \in View
  BY Based DEF Resting, InRest
<1>3. ASSUME NEW k \in 0..w, NEW x, A(k, x)
      PROVE  A(k, Compacted(x, t, k, from))
  <2>1. CASE turns[t].compacted # k
    BY <1>3, <2>1 DEF Compacted
  <2>2. CASE turns[t].compacted = k
    <3>. DEFINE u == From(Update("compaction", t), from)
                d == ApplyCompaction(x, t)
                r == Noted(x, d, u)
    <3>1. u.kind = "compaction" /\ u.turn = t /\ u.from = from
      BY UpdateIs
    <3>2. Compacted(x, t, k, from) = Apply(x, u)
      BY <2>2 DEF Compacted, From
    <3>. HIDE DEF u
    <3>3. Kind(x, u) = d
      BY <3>1, KindIs
    <3>4. Compacted(x, t, k, from) = r
      BY <3>2, <3>3 DEF Apply
    <3>5. /\ InRest(turns, x, t, k) /\ x.exec = v.exec /\ x.run = v.run /\ x.reported = v.reported
          /\ (k = 0 /\ Present(x.msgs, Divider(t)) => x.msgs # <<>> /\ Last(x.msgs).id = Divider(t))
          /\ x.streamed \in {v.streamed, from}
          /\ (Ongoing(v) \/ from = 0 => x.streamed = v.streamed)
          /\ (k > 0 /\ from # 0 /\ ~Ongoing(v) => x.streamed = from)
      BY <1>3 DEF Resting
    <3>6. RestsOn(turns, x, d, t, k)
      <4>. HIDE DEF d
      <4>1. d = ApplyCompaction(x, t)
        BY DEF d
      <4>2. k \in Nat
        BY <1>1
      <4>. QED
        BY <1>1, <3>5, <4>1, <4>2, RestCompact
    <3>. HIDE DEF d
    <3>7. /\ InRest(turns, d, t, k) /\ d.exec = v.exec /\ d.run = v.run /\ d.reported = v.reported
          /\ d.streamed = x.streamed
          /\ (k = 0 /\ Present(d.msgs, Divider(t)) => d.msgs # <<>> /\ Last(d.msgs).id = Divider(t))
      BY <3>5, <3>6 DEF RestsOn, SameRun
    <3>8. u.kind \notin States
      BY <3>1 DEF States
    <3>. HIDE DEF r
    <3>9. r = Noted(x, d, u)
      BY DEF r
    <3>10. A(k, r)
      BY <3>1, <3>5, <3>7, <3>8, <3>9, RestNoted
    <3>. QED
      BY <3>4, <3>10
  <2>. QED
    BY <2>1, <2>2
<1>4. ASSUME NEW k \in 1..w, NEW x, A(k - 1, x)
      PROVE  A(k, Replied(x, t, k, from))
  <2>. DEFINE opens == turns[t].own /\ k = 1
              j == k - 1
              u == Said(Reply(t, k), opens, from)
              d == OnMessage(x, Reply(t, k), "reply", Telling(opens))
              r == Noted(x, d, u)
  <2>1. u.kind = "said" /\ u.id = Reply(t, k) /\ u.opens = opens /\ u.from = from
    BY SaidIs
  <2>2. Replied(x, t, k, from) = Apply(x, u)
    BY DEF Replied
  <2>3. opens \in BOOLEAN /\ (opens <=> turns[t].own /\ k = 1) /\ (k > 1 => ~opens)
    BY <1>1
  <2>4. j \in Nat /\ k = j + 1 /\ A(j, x) /\ k > 0 /\ (j > 0 => k > 1) /\ (j = 0 => k = 1)
    BY <1>4
  <2>. HIDE DEF u, opens, j
  <2>5. Kind(x, u) = d
    BY <2>1, KindIs
  <2>6. Replied(x, t, k, from) = r
    BY <2>2, <2>5 DEF Apply
  <2>7. /\ InRest(turns, x, t, j) /\ x.exec = v.exec /\ x.run = v.run /\ x.reported = v.reported
        /\ x.streamed \in {v.streamed, from}
        /\ (Ongoing(v) \/ from = 0 => x.streamed = v.streamed)
    BY <2>4 DEF Resting
  <2>8. SayingAtRest(turns, t, j, k, x, opens)
    <3>1. /\ Base(turns, x, t, j) /\ x.exec # "running" /\ x.active = None /\ RestHosts(x.msgs)
          /\ j > 0 => x.msgs # <<>> /\ Last(x.msgs).id = Reply(t, j)
          /\ j = 0 /\ ~turns[t].own => x.msgs # <<>> /\ Last(x.msgs).id \in {User(t), Divider(t)}
      BY <2>7 DEF InRest
    <3>. QED
      BY <1>1, <2>3, <2>4, <3>1 DEF SayingAtRest
  <2>9. RestSays(turns, x, d, t, k)
    <3>. HIDE DEF d
    <3>1. d = OnMessage(x, Reply(t, k), "reply", Telling(opens))
      BY DEF d
    <3>. QED
      BY <2>8, <3>1, SaidResting
  <2>. HIDE DEF d
  <2>10. /\ Base(turns, d, t, k) /\ SameRun(x, d) /\ d.active = None /\ d.msgs # <<>>
         /\ Last(d.msgs).id = Reply(t, k) /\ RestHosts(d.msgs) /\ d.msgs # x.msgs
    BY <2>9 DEF RestSays
  <2>11. InRest(turns, d, t, k)
    <3>1. d.exec # "running"
      BY <2>7, <2>10 DEF InRest, SameRun
    <3>2. ~(k = 0)
      BY <2>4
    <3>. QED
      BY <2>10, <3>1, <3>2 DEF InRest
  <2>12. /\ d.exec = v.exec /\ d.run = v.run /\ d.reported = v.reported
         /\ d.streamed \in {v.streamed, from}
         /\ (Ongoing(v) \/ from = 0 => d.streamed = v.streamed)
    BY <2>7, <2>10 DEF SameRun
  <2>13. u.kind \notin States /\ ~(k = 0)
    BY <2>1, <2>4 DEF States
  <2>. HIDE DEF r
  <2>14. r = Noted(x, d, u)
    BY DEF r
  <2>15. A(k, r)
    BY <2>1, <2>10, <2>11, <2>12, <2>13, <2>14, RestNoted
  <2>. QED
    BY <2>6, <2>15
<1>. HIDE DEF A
<1>5. \A k \in 0..w : \A x : x \in I[k] <=> A(k, x)
  BY <1>2
<1>. HIDE DEF I
<1>6. 0 \in 0..w /\ w \in 0..w /\ \A k \in 1..w : k \in 0..w /\ k - 1 \in 0..w
  BY <1>1
<1>7. A(0, p)
  BY DEF A
<1>8. Contents(p, t, from, w, I)
  BY <1>1, <1>3, <1>4, <1>5, <1>6, <1>7 DEF Contents
<1>9. Content(p, t, from) \in I[w]
  BY <1>8, ContentIs
<1>. QED
  BY <1>5, <1>6, <1>9 DEF A

(* The next turn comes, its prompt first.                                      *)
WroteBefore(t) == IF t = 0 THEN 0 ELSE turns[t].wrote

(* Nothing of the next turn is there yet.                                    *)
LEMMA NextTurn ==
  ASSUME SessionOK(turns), NEW t \in 0..Len(turns), NEW m, m = t + 1, m <= Len(turns),
         NEW p,
         Base(turns, p, t, WroteBefore(t)), NEW z, z = 0
  PROVE  /\ Base(turns, p, m, z) /\ ~Present(p.msgs, Host(m)) /\ ~Present(p.msgs, Divider(m))
         /\ ~Present(p.msgs, User(m))
<1>. DEFINE k == WroteBefore(t)
            ts == turns
<1>1. t \in Nat /\ m \in Nat /\ k \in Nat /\ (t > 0 => ts[t].wrote = k) /\ \A i \in 1..t : ts[i].wrote \in Nat
  <2>1. \A i \in 1..t : i \in 1..Len(turns)
    BY SessionIs
  <2>2. t \in Nat /\ \A i \in 1..t : ts[i].wrote \in Nat
    BY <2>1, SessionIs
  <2>. QED
    BY <2>2 DEF WroteBefore
<1>2. Replies(ts, m, z) = Replies(ts, t, k)
  <2>1. \A i \in 1..t : i # m /\ WroteIn(ts, m, z, i) = WroteIn(ts, t, k, i)
    BY <1>1 DEF WroteIn
  <2>2. WroteIn(ts, m, z, m) = 0
    BY DEF WroteIn
  <2>3. 1..m = 1..t \cup {m}
    BY <1>1
  <2>. DEFINE R(i) == {Reply(i, j) : j \in 1..WroteIn(ts, m, z, i)}
              Q(i) == {Reply(i, j) : j \in 1..WroteIn(ts, t, k, i)}
  <2>4. \A i \in 1..t : R(i) = Q(i)
    BY <2>1
  <2>5. R(m) = {}
    BY <2>2
  <2>. HIDE DEF R, Q
  <2>6. UNION {R(i) : i \in 1..m} = UNION {Q(i) : i \in 1..t}
    BY <2>3, <2>4, <2>5
  <2>. QED
    BY <2>6 DEF Replies, R, Q
<1>3. \A id \in Replies(ts, t, k) : id[2] \in 1..t
  BY <1>1, RepliesAre
<1>4. t <= m
  BY <1>1
<1>. HIDE DEF k
<1>5. Base(ts, p, t, k)
  BY DEF k
<1>6. Base(ts, p, m, z)
  <2>1. \A i \in 1..t : ts[i].how = ts[i].how \/ ts[i].how = "complete"
    OBVIOUS
  <2>. QED
    BY <1>1, <1>2, <1>3, <1>4, <1>5, <2>1, BaseMoves
<1>7. ASSUME NEW id, id[1] \in {"user", "host", "divider"}, id[2] = m
      PROVE  ~Present(p.msgs, id)
  <2>1. \A i \in DOMAIN p.msgs : p.msgs[i].id[1] \in {"user", "host", "divider"} => p.msgs[i].id[2] <= t
    BY <1>5 DEF Base, RowsOK
  <2>2. ~(m <= t)
    BY <1>1
  <2>. QED
    BY <1>7, <2>1, <2>2 DEF Present
<1>8. /\ User(m)[1] = "user" /\ User(m)[2] = m /\ Host(m)[1] = "host" /\ Host(m)[2] = m
      /\ Divider(m)[1] = "divider" /\ Divider(m)[2] = m
  BY <1>1, Names
<1>. QED
  BY <1>6, <1>7, <1>8

Opens(t, p, q) ==
  /\ Base(turns, q, t, 0) /\ SameRun(p, q) /\ q.active = p.active
  /\ ~Present(q.msgs, Host(t)) /\ ~Present(q.msgs, Divider(t))
  /\ ~turns[t].own => q.msgs # <<>> /\ Last(q.msgs).id = User(t) /\ Last(q.msgs).role = "user"
  /\ RestHosts(p.msgs) => RestHosts(q.msgs)

(* A turn's prompt, if it had one, is shown before anything else of it.      *)
LEMMA PromptIs ==
  ASSUME SessionOK(turns), NEW t \in 1..Len(turns), NEW p,
         Base(turns, p, t - 1, WroteBefore(t - 1)),
         NEW q, q = Prompt(p, t)
  PROVE  Opens(t, p, q)
<1>. DEFINE z == 0
            b == t - 1
<1>1. t \in Nat /\ b \in 0..Len(turns) /\ t = b + 1 /\ t <= Len(turns) /\ Base(turns, p, b, WroteBefore(b))
      /\ turns[t].own \in BOOLEAN /\ Len(turns) \in Nat /\ Len(turns) <= MaxTurns
  BY SessionIs
<1>. HIDE DEF z, b
<1>2. /\ Base(turns, p, t, z) /\ ~Present(p.msgs, Host(t)) /\ ~Present(p.msgs, Divider(t))
      /\ ~Present(p.msgs, User(t))
  <2>1. z = 0
    BY DEF z
  <2>. QED
    BY <1>1, <2>1, NextTurn
<1>3. CASE turns[t].own
  <2>1. q = p
    BY <1>3 DEF Prompt
  <2>. QED
    BY <1>2, <1>3, <2>1 DEF Opens, SameRun, z
<1>4. CASE ~turns[t].own
  <2>. DEFINE u == From(Update("asked", t), 0)
              d == OnMessage(p, User(t), "user", NoPatch)
  <2>1. u.kind = "asked" /\ u.turn = t /\ u.from = 0
    BY UpdateIs
  <2>2. q = Apply(p, u)
    BY <1>4 DEF Prompt, From
  <2>. HIDE DEF u
  <2>3. Kind(p, u) = d
    BY <2>1, KindIs
  <2>4. q = Noted(p, d, u)
    BY <2>2, <2>3 DEF Apply
  <2>. HIDE DEF d
  <2>5. Asked(turns, p, t, z, d)
    <3>1. d = OnMessage(p, User(t), "user", NoPatch)
      BY DEF d
    <3>. QED
      BY <1>1, <1>2, <3>1, BaseUser
  <2>6. /\ Base(turns, d, t, z) /\ SameRun(p, d) /\ d.active = p.active /\ d.msgs # <<>>
        /\ Last(d.msgs).id = User(t) /\ Last(d.msgs).role = "user" /\ Adds(p.msgs, d.msgs, User(t))
        /\ (RestHosts(p.msgs) => RestHosts(d.msgs))
    BY <2>5 DEF Asked
  <2>7. d \in View
    BY <2>6, Based
  <2>8. Steady(d, q) /\ q.streamed = d.streamed
    <3>1. u.kind \notin States /\ u.from \in 0..MaxTurns
      BY <2>1, TurnAssumption DEF States
    <3>. QED
      BY <2>1, <2>4, <2>7, <3>1, NotedIs
  <2>9. Base(turns, q, t, z)
    BY <2>6, <2>8, BaseSteady
  <2>10. q.msgs = d.msgs /\ q.active = d.active /\ q.exec = d.exec /\ q.run = d.run /\ q.reported = d.reported
    BY <2>8 DEF Steady
  <2>11. ~Present(q.msgs, Host(t)) /\ ~Present(q.msgs, Divider(t))
    <3>1. Host(t) # User(t) /\ Divider(t) # User(t)
      BY DEF Host, User, Divider
    <3>. QED
      BY <1>2, <2>6, <2>10, <3>1 DEF Adds
  <2>12. SameRun(p, q)
    BY <2>6, <2>8, <2>10 DEF SameRun
  <2>. QED
    BY <1>4, <2>6, <2>9, <2>10, <2>11, <2>12 DEF Opens, z
<1>. QED
  BY <1>1, <1>3, <1>4

-----------------------------------------------------------------------------
(* A replay, turn by turn.                                                    *)

(* It starts from nothing.                                                     *)
LEMMA GoneBase ==
  ASSUME NEW ts, NEW p, Gone(ts, p), NEW z, z = 0
  PROVE  Base(ts, p, z, z) /\ RestHosts(p.msgs)
<1>1. p \in View /\ p.msgs = <<>> /\ p.active = None
  BY DEF Gone
<1>2. Replies(ts, z, z) = {}
  <2>1. 1..z = {}
    OBVIOUS
  <2>. QED
    BY <2>1 DEF Replies
<1>3. (\A i : i \notin DOMAIN p.msgs) /\ p.msgs \in Seq(Row)
  BY <1>1
<1>4. RowsOK(p.msgs, {}, z)
  BY <1>3 DEF RowsOK
<1>. QED
  BY <1>1, <1>2, <1>3, <1>4 DEF Base, RestHosts

(* A turn that was only asked for has no content.                              *)
LEMMA NoContent ==
  ASSUME NEW t, turns[t].wrote = 0, turns[t].compacted = NoCompaction, NEW p, NEW from
  PROVE  Content(p, t, from) = p
<1>. DEFINE w == 0
            I == [k \in 0..0 |-> {p}]
<1>1. Compacted(p, t, w, from) = p
  <2>1. NoCompaction # 0
    BY TurnAssumption DEF NoCompaction
  <2>. QED
    BY <2>1 DEF Compacted
<1>2. I[w] = {p} /\ w \in Nat /\ ~(\E k \in 1..w : TRUE)
  OBVIOUS
<1>3. Contents(p, t, from, w, I)
  <2>. HIDE DEF I
  <2>. QED
    BY <1>1, <1>2 DEF Contents
<1>. HIDE DEF I, w
<1>4. Content(p, t, from) \in I[w]
  BY <1>3, ContentIs
<1>. QED
  BY <1>2, <1>4

(* While a run reads as under way.                                             *)
RunTo(v, t, p) ==
  IF t = 0 THEN p = v
  ELSE IF turns[t].phase = "asked"
  THEN /\ Base(turns, p, t, 0) /\ SameRun(v, p) /\ ~Present(p.msgs, Host(t))
       /\ p.msgs # <<>> /\ Last(p.msgs).id = User(t)
       /\ p.active # None => Stored(p.active) /\ p.active[2] = t - 1 /\ t > 1
  ELSE AtRun(turns, v, t, turns[t].wrote, FALSE, p)
RunFrom(v) ==
  /\ SessionOK(turns) /\ Gone(turns, v) /\ v.exec = "running"
  /\ \A t \in 1..Len(turns) : turns[t].phase # "asked" => turns[t].wrote > 0

(* One turn more is replayed without its states, while a run reads as under  *)
(* way.                                                                      *)
LEMMA RunTurn ==
  ASSUME NEW v, RunFrom(v), NEW t \in 1..Len(turns), NEW p, RunTo(v, t - 1, p)
  PROVE  RunTo(v, t, Plain(p, t))
<1>. DEFINE b == t - 1
            y == Prompt(p, t)
            z == 0
            from == IF UnderWay(t) THEN t ELSE 0
            no == FALSE
<1>1. /\ SessionOK(turns) /\ Gone(turns, v) /\ v.exec = "running"
      /\ \A i \in 1..Len(turns) : turns[i].phase # "asked" => turns[i].wrote > 0
  BY DEF RunFrom
<1>2. /\ t \in Nat /\ t > 0 /\ b \in 0..Len(turns) /\ t = b + 1 /\ Len(turns) <= MaxTurns /\ Len(turns) \in Nat
      /\ t \in DOMAIN turns /\ b < Len(turns) /\ b \in Nat /\ turns[t].own \in BOOLEAN /\ turns[t].wrote \in Nat
  BY <1>1, SessionIs
<1>3. b # 0 => turns[b].phase = "ended" /\ turns[b].phase # "asked" /\ turns[b].wrote > 0 /\ b \in 1..Len(turns)
  <2>1. b # 0 => b \in DOMAIN turns /\ b \in 1..Len(turns)
    BY <1>1, <1>2, SessionIs
  <2>. QED
    BY <1>1, <1>2, <2>1 DEF SessionOK
<1>4. /\ Base(turns, p, b, WroteBefore(b)) /\ SameRun(v, p)
      /\ p.active # None => Stored(p.active) /\ p.active[2] = b /\ t > 1
  <2>1. CASE b = 0
    <3>1. p = v
      BY <2>1 DEF RunTo
    <3>2. Base(turns, p, b, WroteBefore(b))
      BY <1>1, <2>1, <3>1, GoneBase DEF WroteBefore
    <3>. QED
      BY <1>1, <3>1, <3>2 DEF SameRun, Gone
  <2>2. CASE b # 0
    <3>1. AtRun(turns, v, b, turns[b].wrote, FALSE, p)
      BY <1>3, <2>2 DEF RunTo
    <3>2. InRun(turns, p, b, turns[b].wrote) /\ SameRun(v, p)
      BY <3>1 DEF AtRun
    <3>3. Base(turns, p, b, turns[b].wrote) /\ p.active = Reply(b, turns[b].wrote)
      BY <1>3, <2>2, <3>2 DEF InRun
    <3>4. Stored(p.active) /\ p.active[2] = b
      <4>1. turns[b].wrote \in Nat
        BY <1>1, <1>3, <2>2, SessionIs
      <4>. QED
        BY <1>2, <3>3, <4>1, Names DEF Stored
    <3>5. t > 1
      BY <1>2, <2>2
    <3>. QED
      BY <2>2, <3>2, <3>3, <3>4, <3>5 DEF WroteBefore
  <2>. QED
    BY <2>1, <2>2
<1>5. Opens(t, p, y)
  BY <1>1, <1>4, PromptIs
<1>6. /\ Base(turns, y, t, 0) /\ SameRun(p, y) /\ y.active = p.active
      /\ ~Present(y.msgs, Host(t))
      /\ ~turns[t].own => y.msgs # <<>> /\ Last(y.msgs).id = User(t)
  BY <1>5 DEF Opens
<1>7. SameRun(v, y)
  BY <1>4, <1>6 DEF SameRun
<1>8. Plain(p, t) = Content(y, t, from)
  BY DEF Plain
<1>. HIDE DEF y, from
<1>9. CASE turns[t].phase = "asked"
  <2>1. turns[t].wrote = 0 /\ turns[t].compacted = NoCompaction /\ ~turns[t].own
    BY <1>1, <1>2, <1>9 DEF SessionOK
  <2>2. Plain(p, t) = y
    BY <1>8, <2>1, NoContent
  <2>. QED
    BY <1>2, <1>4, <1>6, <1>7, <1>9, <2>1, <2>2 DEF RunTo
<1>10. CASE turns[t].phase # "asked"
  <2>1. InRun(turns, y, t, z)
    <3>1. y.exec = "running"
      BY <1>1, <1>7 DEF SameRun
    <3>2. ~(z > 0) /\ z = 0
      OBVIOUS
    <3>3. Base(turns, y, t, z)
      BY <1>6
    <3>. HIDE DEF z
    <3>. QED
      BY <1>2, <1>4, <1>6, <3>1, <3>2, <3>3 DEF InRun
  <2>2. AtRun(turns, v, t, z, no, y)
    BY <1>7, <2>1 DEF AtRun
  <2>3. z = 0
    OBVIOUS
  <2>5. from \in 0..MaxTurns
    <3>1. t \in 0..MaxTurns /\ 0 \in 0..MaxTurns
      BY <1>2, TurnAssumption
    <3>. QED
      BY <3>1 DEF from
  <2>. DEFINE w == turns[t].wrote
  <2>. HIDE DEF z, no, w
  <2>4. AtRun(turns, v, t, w, no, Content(y, t, from))
    BY <1>1, <2>2, <2>3, <2>5, RunContent DEF w
  <2>6. AtRun(turns, v, t, turns[t].wrote, FALSE, Plain(p, t))
    BY <1>8, <2>4 DEF w, no
  <2>7. t # 0
    BY <1>2
  <2>. QED
    BY <1>10, <2>6, <2>7 DEF RunTo
<1>. QED
  BY <1>9, <1>10

(* While none is known: what was said of the run under way is noted.            *)
FromOf(t) == IF UnderWay(t) THEN t ELSE 0
RestTo(v, t, p) ==
  IF t = 0 THEN p = v
  ELSE /\ Resting(turns, v, t, turns[t].wrote, FromOf(t), p)
       /\ turns[t].phase = "asked" => p.msgs # <<>> /\ Last(p.msgs).id = User(t)
RestFrom(v) == SessionOK(turns) /\ Gone(turns, v) /\ v.exec # "running"

(* A turn more was replayed.                                                   *)
LEMMA RestTurn ==
  ASSUME NEW v, RestFrom(v), NEW t \in 1..Len(turns), NEW p, RestTo(v, t - 1, p)
  PROVE  RestTo(v, t, Plain(p, t))
<1>. DEFINE b == t - 1
            y == Prompt(p, t)
            z == 0
            from == FromOf(t)
            w == turns[t].wrote
<1>1. SessionOK(turns) /\ Gone(turns, v) /\ v.exec # "running"
  BY DEF RestFrom
<1>2. /\ t \in Nat /\ t > 0 /\ b \in 0..Len(turns) /\ t = b + 1 /\ Len(turns) <= MaxTurns /\ Len(turns) \in Nat
      /\ t \in DOMAIN turns /\ b < Len(turns) /\ b \in Nat /\ turns[t].own \in BOOLEAN /\ turns[t].wrote \in Nat
  BY <1>1, SessionIs
<1>3. b # 0 => turns[b].phase = "ended" /\ turns[b].phase # "asked" /\ b \in 1..Len(turns)
  <2>1. b # 0 => b \in DOMAIN turns /\ b \in 1..Len(turns)
    BY <1>1, <1>2, SessionIs
  <2>. QED
    BY <1>1, <1>2, <2>1 DEF SessionOK
<1>4. Base(turns, p, b, WroteBefore(b)) /\ SameRun(v, p) /\ p.active = None /\ RestHosts(p.msgs)
  <2>1. CASE b = 0
    <3>1. p = v
      BY <2>1 DEF RestTo
    <3>2. Base(turns, p, b, WroteBefore(b)) /\ RestHosts(p.msgs)
      BY <1>1, <2>1, <3>1, GoneBase DEF WroteBefore
    <3>. QED
      BY <1>1, <3>1, <3>2 DEF SameRun, Gone
  <2>2. CASE b # 0
    <3>1. FromOf(b) = 0
      BY <1>3, <2>2 DEF FromOf, UnderWay
    <3>2. Resting(turns, v, b, turns[b].wrote, FromOf(b), p)
      BY <2>2 DEF RestTo
    <3>3. InRest(turns, p, b, turns[b].wrote) /\ SameRun(v, p)
      BY <3>1, <3>2 DEF Resting, SameRun
    <3>4. Base(turns, p, b, turns[b].wrote) /\ p.active = None /\ RestHosts(p.msgs)
      BY <3>3 DEF InRest
    <3>. QED
      BY <2>2, <3>3, <3>4 DEF WroteBefore
  <2>. QED
    BY <2>1, <2>2
<1>5. Opens(t, p, y)
  BY <1>1, <1>4, PromptIs
<1>6. /\ Base(turns, y, t, 0) /\ SameRun(p, y) /\ y.active = None
      /\ ~Present(y.msgs, Divider(t)) /\ RestHosts(y.msgs)
      /\ ~turns[t].own => y.msgs # <<>> /\ Last(y.msgs).id = User(t)
  BY <1>4, <1>5 DEF Opens
<1>7. SameRun(v, y)
  BY <1>4, <1>6 DEF SameRun
<1>8. Plain(p, t) = Content(y, t, from)
  BY DEF Plain, FromOf
<1>9. from \in 0..MaxTurns
  <2>1. t \in 0..MaxTurns /\ 0 \in 0..MaxTurns
    BY <1>2, TurnAssumption
  <2>. QED
    BY <2>1 DEF FromOf
<1>10. InRest(turns, y, t, z)
  <2>1. y.exec # "running"
    BY <1>1, <1>7 DEF SameRun
  <2>2. ~(z > 0) /\ z = 0
    OBVIOUS
  <2>3. Base(turns, y, t, z)
    BY <1>6
  <2>. HIDE DEF z, y
  <2>. QED
    BY <1>6, <2>1, <2>2, <2>3 DEF InRest
<1>11. Resting(turns, v, t, z, from, y)
  <2>2. ~(z > 0)
    OBVIOUS
  <2>. HIDE DEF z, y, from
  <2>. QED
    BY <1>6, <1>7, <1>10, <2>2 DEF Resting, SameRun
<1>12. Resting(turns, v, t, w, from, Content(y, t, from))
  <2>1. z = 0
    OBVIOUS
  <2>. HIDE DEF z, y, from
  <2>2. w = turns[t].wrote
    OBVIOUS
  <2>. HIDE DEF w
  <2>. QED
    BY <1>1, <1>9, <1>11, <2>1, <2>2, RestContent
<1>13. turns[t].phase = "asked" => Plain(p, t) = y /\ ~turns[t].own
  <2>. HIDE DEF y, from
  <2>1. turns[t].phase = "asked" => turns[t].wrote = 0 /\ turns[t].compacted = NoCompaction /\ ~turns[t].own
    BY <1>1, <1>2 DEF SessionOK
  <2>. QED
    BY <1>8, <2>1, NoContent
<1>14. t # 0
  BY <1>2
<1>. HIDE DEF y
<1>. QED
  BY <1>6, <1>8, <1>12, <1>13, <1>14 DEF RestTo

-----------------------------------------------------------------------------
(* A replay in which every turn is bracketed by its states. What the view knew  *)
(* of the run lasts until the first of them.                                   *)
Known(v, t, p) ==
  /\ t = 1 => SameRun(v, p)
  /\ t > 1 => p.exec \in {"idle", "failed"} /\ p.reported = FALSE /\ p.streamed = 0
Entering(v, t, y) ==
  /\ Base(turns, y, t, 0) /\ y.active = None /\ ~Present(y.msgs, Host(t)) /\ Known(v, t, y)
  /\ ~turns[t].own => y.msgs # <<>> /\ Last(y.msgs).id = User(t) /\ Last(y.msgs).role = "user"
Started(t, z) == AtRun(turns, z, t, 0, TRUE, z) /\ (z.reported => turns[t].how = "failed")

(* A turn's run starts.                                                       *)
LEMMA EntersRun ==
  ASSUME SessionOK(turns), NEW v, Gone(turns, v), NEW t \in 1..Len(turns), NEW y,
         Entering(v, t, y),
         NEW q, q = Apply(y, Update("running", t))
  PROVE  Started(t, q)
<1>. DEFINE b == Reported(y, t)
            run == "running"
            r == Run(y, run, t, b)
            d == ApplyRunning(y, t, TRUE)
            u == Update(run, t)
            z == 0
<1>1. /\ t \in Nat /\ t > 0 /\ t \in 0..MaxTurns /\ t \in DOMAIN turns
  BY SessionIs, TurnAssumption
<1>2. /\ Base(turns, y, t, z) /\ y.active = None /\ ~Present(y.msgs, Host(t)) /\ Known(v, t, y)
      /\ ~turns[t].own => y.msgs # <<>> /\ Last(y.msgs).role = "user"
  BY DEF Entering
<1>3. y \in View /\ y.msgs \in Seq(Row) /\ y.reported \in BOOLEAN
  BY <1>2, Based, Viewed
<1>4. b \in BOOLEAN /\ (b => turns[t].how = "failed")
  <2>1. b <=> y.exec = "running" /\ y.run = t /\ y.reported
    BY DEF Reported
  <2>2. b => t = 1 /\ v.reported /\ v.run = t
    BY <1>1, <1>2, <2>1 DEF Known, SameRun
  <2>3. b => turns[t].reported
    BY <2>2 DEF Gone
  <2>. QED
    BY <1>1, <1>3, <2>1, <2>3 DEF SessionOK, Reported
<1>5. r \in View /\ r.msgs = y.msgs /\ r.active = None /\ r.exec = run /\ r.run = t /\ r.reported = b
  <2>1. b \in BOOLEAN /\ t \in 0..MaxTurns /\ y \in View /\ y.active = None
    BY <1>1, <1>2, <1>3, <1>4
  <2>. HIDE DEF b
  <2>. QED
    BY <2>1 DEF Run, View
<1>6. d = IF y.exec = "waiting" THEN Answered(r) ELSE IF y.streamed = t THEN Reopen(r) ELSE r
  BY DEF ApplyRunning, Announced, Run
<1>7. y.streamed = t => Reopen(r) = r
  <2>1. y.streamed = t => t = 1 /\ v.streamed = t
    BY <1>1, <1>2 DEF Known, SameRun
  <2>2. y.streamed = t => ~turns[t].own
    <3>1. v.streamed # 0 => ~turns[v.streamed].own
      BY DEF Gone
    <3>. QED
      BY <1>1, <2>1, <3>1
  <2>3. y.streamed = t => ~Reopens(r)
    BY <1>2, <1>5, <2>2 DEF Reopens
  <2>. HIDE DEF r
  <2>. QED
    BY <2>3 DEF Reopen
<1>8. Base(turns, r, t, z)
  <2>. HIDE DEF r, z
  <2>1. r.active = y.active
    BY <1>2, <1>5
  <2>. QED
    BY <1>2, <1>5, <2>1, BaseRun
<1>. HIDE DEF r, b, run, z, d
<1>9. /\ Base(turns, d, t, z) /\ d.active = None /\ d.exec = run /\ d.reported = b
      /\ ~Present(d.msgs, Host(t))
  <2>1. CASE d = r
    BY <1>2, <1>5, <1>8, <2>1
  <2>2. CASE d = Answered(r)
    <3>1. HasAnswer(turns, r, d, t, z)
      BY <1>8, <2>2, AnsweredIs
    <3>2. /\ Base(turns, d, t, z) /\ SameRun(r, d) /\ d.active = None
          /\ \E st : Repaints(r.msgs, d.msgs, None, st)
      BY <1>5, <3>1 DEF HasAnswer
    <3>3. PICK st : Repaints(r.msgs, d.msgs, None, st)
      BY <3>2
    <3>4. \A jd : Present(d.msgs, jd) <=> Present(r.msgs, jd)
      BY <1>3, <1>5, <3>3, Repainted
    <3>. QED
      BY <1>2, <1>5, <3>2, <3>4 DEF SameRun
  <2>. QED
    BY <1>6, <1>7, <2>1, <2>2
<1>10. u.kind = run /\ u.turn = t /\ u.from = t
  BY UpdateIs
<1>11. q = Noted(y, d, u)
  <2>1. Kind(y, u) = d
    BY <1>10, KindIs DEF run, d
  <2>. QED
    BY <2>1 DEF Apply, u, run
<1>. HIDE DEF u
<1>12. Steady(d, q)
  <2>1. d \in View
    BY <1>9, Based
  <2>. QED
    BY <1>1, <1>10, <1>11, <2>1, NotedIs
<1>13. Base(turns, q, t, z)
  BY <1>9, <1>12, BaseSteady
<1>14. /\ q.active = None /\ q.exec = "running" /\ q.reported = b /\ ~Present(q.msgs, Host(t))
  BY <1>9, <1>12 DEF Steady, run
<1>15. InRun(turns, q, t, z)
  <2>1. ~(z > 0)
    BY DEF z
  <2>. QED
    BY <1>13, <1>14, <2>1 DEF InRun
<1>16. AtRun(turns, q, t, z, TRUE, q)
  BY <1>14, <1>15 DEF AtRun, SameRun
<1>. QED
  BY <1>4, <1>14, <1>16 DEF Started, z

(* A turn's run settles: as the turn did, or "complete" when it is under way.   *)
EndOf(t) == IF UnderWay(t) THEN "complete" ELSE turns[t].how
Left(t, d) ==
  /\ Base(turns, d, t, turns[t].wrote) /\ d.active = None
  /\ d.exec \in {"idle", "failed"} /\ d.reported = FALSE /\ d.streamed = 0
  /\ turns[t].wrote > 0 => /\ d.msgs # <<>> /\ Last(d.msgs).id = Reply(t, turns[t].wrote)
                           /\ ~Present(d.msgs, Host(t))

(* The end that is replayed closes the turn, and no run is known any more.   *)
LEMMA LeavesRun ==
  ASSUME SessionOK(turns), NEW t \in 1..Len(turns), NEW z, NEW c,
         AtRun(turns, z, t, turns[t].wrote, TRUE, c),
         z.reported => turns[t].how = "failed", NEW q, q = Apply(c, Update(EndOf(t), t))
  PROVE  Left(t, q)
<1>. DEFINE w == turns[t].wrote
            how == EndOf(t)
            u == Update(how, t)
            d == ApplyIdle(c, t, how)
            status == SettledAs(c, t, how)
<1>1. /\ t \in 0..MaxTurns /\ t \in DOMAIN turns /\ w \in Nat
      /\ turns[t].how \in {"complete", "stopped", "failed"}
  BY SessionIs, TurnAssumption
<1>2. how \in {"complete", "stopped", "failed"} /\ how \in {"complete", turns[t].how}
  BY <1>1 DEF EndOf
<1>3. /\ InRun(turns, c, t, w) /\ SameRun(z, c)
      /\ c.active # None /\ Stored(c.active) => c.active[2] = t
  BY DEF AtRun
<1>4. /\ Base(turns, c, t, w) /\ (Present(c.msgs, Host(t)) => c.active = Host(t))
      /\ w > 0 => c.active = Reply(t, w) /\ c.msgs # <<>> /\ Last(c.msgs).id = Reply(t, w)
  BY <1>3 DEF InRun
<1>5. status \in {"complete", "stopped", "failed"} /\ status \in {"complete", turns[t].how}
  <2>1. Reported(c, t) => turns[t].how = "failed"
    BY <1>3 DEF Reported, SameRun
  <2>. QED
    BY <1>2, <2>1 DEF SettledAs
<1>6. Idling(turns, c, t, w, t, status)
  <2>1. c.active # None => Rests(turns, c.active, status)
    BY <1>3, <1>5 DEF Rests
  <2>. QED
    BY <1>1, <1>4, <1>5, <2>1 DEF Idling
<1>7. Idled(turns, c, d, t, w, t, status)
  <2>1. SettledAs(c, t, how) = status /\ d = ApplyIdle(c, t, how)
    OBVIOUS
  <2>. HIDE DEF w, how, d, status
  <2>. QED
    BY <1>6, <2>1, IdleIs
<1>8. u.kind = how /\ u.turn = t /\ u.from = t
  BY UpdateIs
<1>9. q = Noted(c, d, u)
  <2>1. Kind(c, u) = d
    BY <1>2, <1>8, KindIs
  <2>. QED
    BY <2>1 DEF Apply
<1>. HIDE DEF u, d, how, status, w
<1>10. /\ Base(turns, d, t, w) /\ d.active = None /\ d.exec \in {"idle", "failed"}
       /\ d.reported = FALSE /\ Repaints(c.msgs, d.msgs, c.active, status)
  BY <1>7 DEF Idled
<1>11. Steady(d, q) /\ q.streamed = 0
  <2>1. d \in View
    BY <1>10, Based
  <2>2. u.kind \in States
    BY <1>2, <1>8 DEF States
  <2>. QED
    BY <1>1, <1>8, <1>9, <2>1, <2>2, NotedIs
<1>12. Base(turns, q, t, w)
  BY <1>10, <1>11, BaseSteady
<1>13. /\ q.active = None /\ q.exec \in {"idle", "failed"} /\ q.reported = FALSE /\ q.msgs = d.msgs
  BY <1>10, <1>11 DEF Steady
<1>14. ASSUME w > 0
       PROVE  q.msgs # <<>> /\ Last(q.msgs).id = Reply(t, w) /\ ~Present(q.msgs, Host(t))
  <2>1. c.active = Reply(t, w) /\ c.msgs # <<>> /\ Last(c.msgs).id = Reply(t, w) /\ c.msgs \in Seq(Row)
    BY <1>4, <1>14, Based
  <2>2. ~Present(c.msgs, Host(t))
    <3>1. Host(t) # Reply(t, w)
      BY DEF Host, Reply
    <3>. QED
      BY <1>4, <2>1, <3>1
  <2>3. /\ d.msgs = <<>> <=> c.msgs = <<>>
        /\ \A jd : Present(d.msgs, jd) <=> Present(c.msgs, jd)
        /\ Last(d.msgs).id = Last(c.msgs).id
    BY <1>10, <2>1, Repainted
  <2>. QED
    BY <1>13, <2>1, <2>2, <2>3
<1>. QED
  BY <1>11, <1>12, <1>13, <1>14 DEF Left, w

(* A turn more was replayed, with its states.                                  *)
BetweenTo(v, t, p) ==
  IF t = 0 THEN p = v
  ELSE IF turns[t].phase = "asked" THEN Entering(v, t, p)
  ELSE Left(t, p)
BetweenFrom(v) ==
  /\ SessionOK(turns) /\ Gone(turns, v)
  /\ \A t \in 1..Len(turns) : UnderWay(t) => turns[t].wrote > 0

(* One turn more is replayed with its states.                                *)
LEMMA BracketedTurn ==
  ASSUME NEW v, BetweenFrom(v), NEW t \in 1..Len(turns), NEW p, BetweenTo(v, t - 1, p)
  PROVE  BetweenTo(v, t, Bracketed(p, t))
<1>. DEFINE b == t - 1
            y == Prompt(p, t)
            x == Apply(y, Update("running", t))
            c == Content(x, t, 0)
            w == turns[t].wrote
            z == 0
<1>1. /\ SessionOK(turns) /\ Gone(turns, v)
      /\ UnderWay(t) => turns[t].wrote > 0
  BY DEF BetweenFrom
<1>2. /\ t \in Nat /\ t > 0 /\ b \in 0..Len(turns) /\ t = b + 1 /\ Len(turns) <= MaxTurns /\ Len(turns) \in Nat
      /\ t \in DOMAIN turns /\ b < Len(turns) /\ b \in Nat /\ turns[t].own \in BOOLEAN /\ w \in Nat
  BY <1>1, SessionIs
<1>3. b # 0 => turns[b].phase = "ended" /\ turns[b].phase # "asked" /\ b \in 1..Len(turns)
  <2>1. b # 0 => b \in DOMAIN turns /\ b \in 1..Len(turns)
    BY <1>1, <1>2, SessionIs
  <2>. QED
    BY <1>1, <1>2, <2>1 DEF SessionOK
<1>4. Base(turns, p, b, WroteBefore(b)) /\ p.active = None /\ Known(v, t, p)
  <2>1. CASE b = 0
    <3>1. p = v
      BY <2>1 DEF BetweenTo
    <3>2. Base(turns, p, b, WroteBefore(b)) /\ p.active = None
      BY <1>1, <2>1, <3>1, GoneBase DEF WroteBefore, Gone
    <3>3. ~(t > 1)
      BY <1>2, <2>1
    <3>. QED
      BY <3>1, <3>2, <3>3 DEF Known, SameRun
  <2>2. CASE b # 0
    <3>1. Left(b, p)
      BY <1>3, <2>2 DEF BetweenTo
    <3>2. t # 1
      BY <1>2, <2>2
    <3>. QED
      BY <2>2, <3>1, <3>2 DEF Left, Known, WroteBefore
  <2>. QED
    BY <2>1, <2>2
<1>5. Opens(t, p, y)
  BY <1>1, <1>4, PromptIs
<1>6. Entering(v, t, y)
  <2>. HIDE DEF y
  <2>1. Known(v, t, y)
    BY <1>4, <1>5 DEF Known, Opens, SameRun
  <2>. QED
    BY <1>4, <1>5, <2>1 DEF Opens, Entering
<1>7. CASE turns[t].phase = "asked"
  <2>1. Bracketed(p, t) = y
    BY <1>7 DEF Bracketed
  <2>2. t # 0
    BY <1>2
  <2>. QED
    BY <1>6, <1>7, <2>1, <2>2 DEF BetweenTo
<1>8. CASE turns[t].phase # "asked"
  <2>1. Started(t, x)
    <3>1. x = Apply(y, Update("running", t))
      OBVIOUS
    <3>. HIDE DEF x, y
    <3>. QED
      BY <1>1, <1>6, <3>1, EntersRun
  <2>2. Bracketed(p, t) = Apply(c, Update(EndOf(t), t))
    <3>1. ~(turns[t].phase = "asked" \/ (UnderWay(t) /\ turns[t].wrote = 0))
      BY <1>1, <1>2, <1>8
    <3>. QED
      BY <3>1 DEF Bracketed, EndOf
  <2>3. AtRun(turns, x, t, w, TRUE, c)
    <3>. DEFINE from == 0
                o == TRUE
    <3>1. z = 0 /\ from \in 0..MaxTurns /\ c = Content(x, t, from) /\ w = turns[t].wrote
      BY TurnAssumption
    <3>2. AtRun(turns, x, t, z, o, x)
      BY <2>1 DEF Started
    <3>. HIDE DEF z, x, c, from, w, o
    <3>3. AtRun(turns, x, t, w, o, c)
      BY <1>1, <3>1, <3>2, RunContent
    <3>. QED
      BY <3>3 DEF o
  <2>4. Left(t, Bracketed(p, t))
    <3>1. x.reported => turns[t].how = "failed"
      BY <2>1 DEF Started
    <3>. HIDE DEF x, c
    <3>. QED
      BY <1>1, <2>2, <2>3, <3>1, LeavesRun
  <2>5. t # 0
    BY <1>2
  <2>. QED
    BY <1>8, <2>4, <2>5 DEF BetweenTo
<1>. QED
  BY <1>7, <1>8

-----------------------------------------------------------------------------
(* A replay ends with the state the Session is in.                             *)
Replays(v, bracketed, n, q) ==
  IF bracketed THEN BetweenFrom(v) /\ BetweenTo(v, n, q)
  ELSE IF v.exec = "running" THEN RunFrom(v) /\ RunTo(v, n, q)
  ELSE RestFrom(v) /\ RestTo(v, n, q)

(* The run under way wrote the last message, which is the one it has open or    *)
(* will have.                                                                 *)
Arrived(n, w, dated, q) ==
  /\ Base(turns, q, n, w) /\ q.msgs # <<>> /\ Last(q.msgs).id = Reply(n, w) /\ ~Present(q.msgs, Host(n))
  /\ \/ /\ q.active = Reply(n, w) /\ q.exec = "running" /\ Last(q.msgs).status = "running"
        /\ q.streamed = 0 /\ dated /\ (q.reported /\ q.run = n => turns[n].reported)
     \/ /\ q.active = None /\ q.exec # "running"
        /\ turns[n].phase = "running" => q.exec # "waiting" /\ (dated => q.streamed = n)

(* A replay of a Session whose run is under way and wrote arrives at its     *)
(* last reply.                                                               *)
LEMMA Arrives ==
  ASSUME SessionOK(turns), NEW v, Gone(turns, v), NEW bracketed \in BOOLEAN, NEW n,
         n = Len(turns), n > 0,
         NEW q, Replays(v, bracketed, n, q), UnderWay(n), NEW w, w = turns[n].wrote, w > 0,
         v.exec = "waiting" => turns[n].phase # "running"
  PROVE  Arrived(n, w, ~bracketed, q)
<1>1. /\ n \in 1..Len(turns) /\ n # 0 /\ n \in Nat /\ turns[n].phase # "asked" /\ w \in Nat
      /\ Host(n) # Reply(n, w) /\ None # Reply(n, w)
  <2>1. n \in 1..Len(turns)
    BY SessionIs
  <2>2. Host(n) # Reply(n, w) /\ None # Reply(n, w)
    BY DEF Host, Reply, None
  <2>. QED
    BY <2>1, <2>2, SessionIs DEF UnderWay
<1>2. CASE bracketed
  <2>1. BetweenTo(v, n, q)
    BY <1>2 DEF Replays
  <2>2. Left(n, q)
    BY <1>1, <2>1 DEF BetweenTo
  <2>. QED
    BY <1>2, <2>2 DEF Left, Arrived
<1>3. CASE ~bracketed /\ v.exec = "running"
  <2>1. RunTo(v, n, q)
    BY <1>3 DEF Replays
  <2>2. AtRun(turns, v, n, w, FALSE, q)
    BY <1>1, <2>1 DEF RunTo
  <2>3. InRun(turns, q, n, w) /\ SameRun(v, q)
    BY <2>2 DEF AtRun
  <2>4. /\ Base(turns, q, n, w) /\ q.active = Reply(n, w) /\ q.exec = "running" /\ q.msgs # <<>>
        /\ Last(q.msgs).id = Reply(n, w) /\ Last(q.msgs).status = "running" /\ ~Present(q.msgs, Host(n))
    BY <1>1, <2>3 DEF InRun
  <2>5. q.streamed = 0
    BY <1>3, <2>3 DEF SameRun, Gone, Ongoing
  <2>6. q.reported /\ q.run = n => turns[n].reported
    BY <2>3 DEF SameRun, Gone
  <2>. QED
    BY <1>3, <2>4, <2>5, <2>6 DEF Arrived
<1>4. CASE ~bracketed /\ v.exec # "running"
  <2>1. RestTo(v, n, q)
    BY <1>4 DEF Replays
  <2>2. Resting(turns, v, n, w, n, q)
    BY <1>1, <2>1 DEF RestTo, FromOf
  <2>3. InRest(turns, q, n, w) /\ q.exec = v.exec /\ (~Ongoing(v) => q.streamed = n)
    BY <1>1, <2>2 DEF Resting
  <2>4. /\ Base(turns, q, n, w) /\ q.active = None /\ q.exec # "running" /\ q.msgs # <<>>
        /\ Last(q.msgs).id = Reply(n, w) /\ RestHosts(q.msgs)
    BY <2>3 DEF InRest
  <2>5. ~Present(q.msgs, Host(n))
    <3>1. ASSUME NEW i \in DOMAIN q.msgs, q.msgs[i].id = Host(n)
          PROVE  FALSE
      <4>1. q.msgs[i].id[1] = "host"
        BY <1>1, <3>1, Names
      <4>2. IsHost(q.msgs[i].id)
        BY <4>1 DEF IsHost
      <4>. QED
        BY <2>4, <4>1, <4>2 DEF RestHosts
    <3>. QED
      BY <3>1 DEF Present
  <2>6. turns[n].phase = "running" => ~Ongoing(v)
    BY <1>4 DEF Ongoing
  <2>. QED
    BY <1>4, <2>3, <2>4, <2>5, <2>6 DEF Arrived
<1>. QED
  BY <1>2, <1>3, <1>4

(* What shows a run that wrote, and which is noted as a state.                  *)
Final(n, w, d) ==
  /\ Base(turns, d, n, w) /\ d.exec = turns[n].phase /\ d.run = n /\ d.reported = turns[n].reported
  /\ d.msgs # <<>> /\ d.active = Last(d.msgs).id /\ d.active # None
  /\ d.active = Reply(n, w) \/ (d.active = Host(n) /\ turns[n].reported)
  /\ Last(d.msgs).status = IF turns[n].reported THEN "failed" ELSE turns[n].phase
  /\ Present(d.msgs, Host(n)) => d.active = Host(n)
RunsOn(n, w) ==
  /\ SessionOK(turns) /\ n = Len(turns) /\ n > 0 /\ UnderWay(n) /\ w = turns[n].wrote /\ w > 0

(* A run that wrote, so shown and then noted, is told.                       *)
LEMMA Settles ==
  ASSUME NEW n, NEW w, RunsOn(n, w), NEW d, Final(n, w, d), NEW p, NEW u, u.kind \in States,
         u.from \in 0..MaxTurns, NEW r, r = Noted(p, d, u)
  PROVE  Told(turns, r)
<1>1. /\ SessionOK(turns) /\ n = Len(turns) /\ n > 0 /\ w = turns[n].wrote /\ w > 0
      /\ turns[n].phase \in {"running", "waiting"} /\ turns # <<>>
  <2>1. SessionOK(turns) /\ n = Len(turns) /\ n > 0
    BY DEF RunsOn
  <2>2. turns # <<>>
    BY <2>1, SessionIs
  <2>. QED
    BY <2>2 DEF RunsOn, UnderWay
<1>2. /\ PhaseOf(turns) = turns[n].phase /\ Written(turns) = w /\ OwnOf(turns) = turns[n].own
      /\ ReportedOf(turns) = turns[n].reported
  <2>1. turns[n].own \in BOOLEAN /\ turns[n].reported \in BOOLEAN
    BY <1>1, SessionIs
  <2>. QED
    BY <1>1, <2>1 DEF PhaseOf, Written, OwnOf, ReportedOf
<1>3. Steady(d, r) /\ r.streamed = 0
  <2>1. d \in View
    BY Based DEF Final
  <2>. QED
    BY <2>1, NotedIs
<1>4. Base(turns, r, n, w)
  BY <1>3, BaseSteady DEF Final
<1>5. /\ r.exec = turns[n].phase /\ r.run = n /\ r.reported = turns[n].reported
      /\ r.msgs # <<>> /\ r.active = Last(r.msgs).id /\ r.active # None
      /\ r.active = Reply(n, w) \/ (r.active = Host(n) /\ turns[n].reported)
      /\ Last(r.msgs).status = IF turns[n].reported THEN "failed" ELSE turns[n].phase
      /\ Present(r.msgs, Host(n)) => r.active = Host(n)
  BY <1>3 DEF Final, Steady
<1>6. Holds(r, n, turns[n].phase, w, turns[n].own, turns[n].reported)
  <2>. DEFINE phase == turns[n].phase
              reported == turns[n].reported
              own == turns[n].own
  <2>1. /\ Ongoing(r) /\ phase \in {"running", "waiting"} /\ phase # "asked" /\ w # 0 /\ reported \in BOOLEAN
    <3>1. reported \in BOOLEAN
      BY <1>1, SessionIs
    <3>. QED
      BY <1>1, <1>5, <3>1 DEF Ongoing
  <2>2. /\ r.exec = phase /\ r.run = n /\ r.reported = reported
        /\ r.msgs # <<>> /\ r.active = Last(r.msgs).id /\ r.active # None
        /\ r.active = Reply(n, w) \/ (r.active = Host(n) /\ reported)
        /\ Last(r.msgs).status = (IF reported THEN "failed" ELSE phase)
        /\ Present(r.msgs, Host(n)) => r.active = Host(n)
    BY <1>5
  <2>. HIDE DEF phase, reported, own
  <2>3. Holds(r, n, phase, w, own, reported)
    BY <1>1, <2>1, <2>2 DEF Holds
  <2>. QED
    BY <2>3 DEF phase, reported, own
<1>7. Shows(r, n, PhaseOf(turns), Written(turns), OwnOf(turns), ReportedOf(turns))
  BY <1>2, <1>3, <1>6 DEF Shows
<1>. QED
  BY <1>1, <1>2, <1>4, <1>7 DEF Told

(* A message is marked, and it is the one the run has open.                    *)
LEMMA MarkedFinal ==
  ASSUME NEW n, NEW w, RunsOn(n, w), NEW r, Base(turns, r, n, w), NEW d, NEW status, NEW id,
         id = Reply(n, w),
         IsMarked(turns, r, d, n, w, id, status), r.msgs # <<>>, Last(r.msgs).id = id,
         ~Present(r.msgs, Host(n)), r.exec = turns[n].phase, r.run = n, r.reported = turns[n].reported,
         status = IF turns[n].reported THEN "failed" ELSE turns[n].phase
  PROVE  Final(n, w, d)
<1>1. Base(turns, d, n, w) /\ SameRun(r, d) /\ d.active = id /\ Repaints(r.msgs, d.msgs, id, status)
  BY DEF IsMarked
<1>2. r.msgs \in Seq(Row)
  BY Based
<1>3. /\ d.msgs = <<>> <=> r.msgs = <<>>
      /\ \A jd : Present(d.msgs, jd) <=> Present(r.msgs, jd)
      /\ Last(d.msgs).id = Last(r.msgs).id /\ Last(d.msgs).status = status
  BY <1>1, <1>2, Repainted
<1>4. id # None
  BY DEF Reply, None
<1>. HIDE DEF IsMarked
<1>. QED
  BY <1>1, <1>3, <1>4 DEF Final, SameRun

(* The message a replay ended on.                                              *)
LEMMA ArrivedIs ==
  ASSUME NEW n, NEW w, RunsOn(n, w), NEW dated, NEW q, Arrived(n, w, dated, q), NEW id,
         id = Reply(n, w)
  PROVE  /\ Base(turns, q, n, w) /\ q \in View /\ Present(q.msgs, id) /\ q.msgs # <<>> /\ Last(q.msgs).id = id
         /\ Last(q.msgs).role = "reply" /\ id # None /\ q.active \in {None, id} /\ Active(q) = q.active
         /\ LastReply(q) = id /\ n \in 0..MaxTurns /\ n \in Nat /\ w \in Nat /\ ~Present(q.msgs, Host(n))
<1>1. /\ n \in 0..MaxTurns /\ n \in Nat /\ w \in Nat
  BY SessionIs, TurnAssumption DEF RunsOn
<1>2. /\ Base(turns, q, n, w) /\ q.msgs # <<>> /\ Last(q.msgs).id = id /\ ~Present(q.msgs, Host(n))
      /\ q.active \in {None, id}
  BY DEF Arrived
<1>3. /\ q \in View /\ (q.active # None => Present(q.msgs, q.active))
      /\ Len(q.msgs) \in DOMAIN q.msgs /\ Last(q.msgs) = q.msgs[Len(q.msgs)] /\ Last(q.msgs) \in Row
      /\ \A i \in DOMAIN q.msgs : q.msgs[i].role = "user" <=> q.msgs[i].id[1] = "user"
  BY <1>2, Based
<1>4. Last(q.msgs).role = "reply"
  <2>1. Last(q.msgs).id[1] = "reply"
    BY <1>1, <1>2, Names
  <2>2. Last(q.msgs).role \in {"user", "reply"}
    BY <1>3, RowIs
  <2>. QED
    BY <1>3, <2>1, <2>2
<1>5. Present(q.msgs, id)
  BY <1>2, <1>3 DEF Present
<1>6. Active(q) = q.active
  BY <1>3, Activity
<1>7. LastReply(q) = id
  BY <1>2, <1>3, <1>4, LastReplyIs
<1>8. id # None
  BY DEF Reply, None
<1>. QED
  BY <1>1, <1>2, <1>3, <1>4, <1>5, <1>6, <1>7, <1>8

(* It waits.                                                                  *)
LEMMA WaitShown ==
  ASSUME NEW n, NEW w, RunsOn(n, w), NEW dated, NEW q, Arrived(n, w, dated, q),
         turns[n].phase = "waiting", NEW r, r = Apply(q, Update("waiting", n))
  PROVE  Told(turns, r)
<1>. DEFINE id == Reply(n, w)
            wait == "waiting"
            no == FALSE
            b == Run(q, wait, n, no)
            d == ApplyWait(q, n)
            u == Update(wait, n)
<1>1. /\ Base(turns, q, n, w) /\ q \in View /\ Present(q.msgs, id) /\ q.msgs # <<>> /\ Last(q.msgs).id = id
      /\ id # None /\ q.active \in {None, id} /\ Active(q) = q.active
      /\ LastReply(q) = id /\ n \in 0..MaxTurns /\ ~Present(q.msgs, Host(n))
  BY ArrivedIs
<1>2. WaitHost(q, n) = id
  <2>1. q.active = None => q.exec # "running"
    BY <1>1 DEF Arrived
  <2>. HIDE DEF id
  <2>. QED
    BY <1>1, <2>1 DEF WaitHost
<1>3. d = [OnMessage(b, id, "reply", Marking(wait)) EXCEPT !.active = id]
  <2>. HIDE DEF id
  <2>. QED
    BY <1>2 DEF ApplyWait, Run, Marking
<1>4. /\ b \in View /\ b.msgs = q.msgs /\ b.active = q.active /\ b.exec = wait /\ b.run = n /\ b.reported = no
  BY <1>1 DEF Run, View
<1>. HIDE DEF b
<1>5. Base(turns, b, n, w)
  BY <1>1, <1>4, BaseRun
<1>6. turns[n].reported = no /\ no = FALSE
  <2>1. SessionOK(turns) /\ n \in DOMAIN turns /\ turns[n].reported \in BOOLEAN
    BY SessionIs DEF RunsOn
  <2>. QED
    BY <2>1 DEF SessionOK
<1>7. wait \in Statuses /\ wait = turns[n].phase
  BY DEF Statuses
<1>. HIDE DEF id, wait, d, no
<1>8. IsMarked(turns, b, d, n, w, id, wait)
  BY <1>1, <1>3, <1>4, <1>5, <1>7, RowMarked
<1>9. Final(n, w, d)
  <2>1. id = Reply(n, w)
    BY DEF id
  <2>2. wait = IF turns[n].reported THEN "failed" ELSE turns[n].phase
    BY <1>6, <1>7
  <2>3. b.exec = turns[n].phase /\ b.run = n /\ b.reported = turns[n].reported /\ Last(b.msgs).id = id
        /\ b.msgs # <<>> /\ ~Present(b.msgs, Host(n))
    BY <1>1, <1>4, <1>6, <1>7
  <2>. QED
    BY <1>5, <1>8, <2>1, <2>2, <2>3, MarkedFinal
<1>10. u.kind = wait /\ u.turn = n /\ u.from = n
  BY UpdateIs
<1>11. u.kind \in States
  BY <1>10 DEF States, wait
<1>12. r = Noted(q, d, u)
  <2>1. Kind(q, u) = d
    BY <1>10, KindIs DEF wait, d
  <2>. QED
    BY <2>1 DEF Apply, u, wait
<1>. QED
  BY <1>1, <1>9, <1>10, <1>11, <1>12, Settles

(* It said that it failed.                                                    *)
LEMMA FailShown ==
  ASSUME NEW n, NEW w, RunsOn(n, w), NEW dated, NEW q, Arrived(n, w, dated, q),
         turns[n].phase = "running", turns[n].reported, NEW r, r = Apply(q, Update("failing", n))
  PROVE  Told(turns, r)
<1>. DEFINE id == Reply(n, w)
            host == Host(n)
            fail == "failed"
            run == "running"
            yes == TRUE
            b == Run(q, run, n, yes)
            d == ApplyRunningFailure(q, n)
            u == Update("failing", n)
<1>1. /\ Base(turns, q, n, w) /\ q \in View /\ Present(q.msgs, id) /\ q.msgs # <<>> /\ Last(q.msgs).id = id
      /\ id # None /\ q.active \in {None, id} /\ Active(q) = q.active
      /\ n \in 0..MaxTurns /\ n \in Nat /\ ~Present(q.msgs, host)
  BY ArrivedIs
<1>2. /\ q.active = id => d = [OnMessage(b, id, "reply", Marking(fail)) EXCEPT !.active = id]
      /\ q.active = None => d = [OnMessage(b, host, "reply", Marking(fail)) EXCEPT !.active = host]
  <2>. DEFINE got == IF Active(q) = None THEN host ELSE Active(q)
  <2>1. d = [OnMessage(b, got, "reply", Marking(fail)) EXCEPT !.active = got]
    BY DEF ApplyRunningFailure, Run, Marking
  <2>2. (q.active = id => got = id) /\ (q.active = None => got = host)
    <3>. HIDE DEF id, host
    <3>. QED
      BY <1>1
  <2>. HIDE DEF got, d, b, id, host, fail
  <2>. QED
    BY <2>1, <2>2
<1>4. /\ b \in View /\ b.msgs = q.msgs /\ b.active = q.active /\ b.exec = run /\ b.run = n /\ b.reported = yes
  BY <1>1 DEF Run, View
<1>. HIDE DEF b
<1>5. Base(turns, b, n, w)
  BY <1>1, <1>4, BaseRun
<1>6. turns[n].reported = yes /\ run = turns[n].phase /\ fail = IF turns[n].reported THEN "failed" ELSE turns[n].phase
  <2>1. turns[n].reported \in BOOLEAN
    BY SessionIs DEF RunsOn
  <2>. QED
    BY <2>1
<1>7. fail \in Statuses
  BY DEF Statuses
<1>8. run = "running" /\ u.kind \in States /\ u.from = n /\ r = Noted(q, d, u)
  <2>1. u.kind = "failing" /\ u.turn = n /\ u.from = n
    BY UpdateIs
  <2>2. Kind(q, u) = d
    BY <2>1, KindIs
  <2>. QED
    BY <2>1, <2>2 DEF States, Apply
<1>. HIDE DEF id, fail, d, yes, run, u, host
<1>9. CASE q.active = id
  <2>1. IsMarked(turns, b, d, n, w, id, fail)
    BY <1>1, <1>2, <1>4, <1>5, <1>7, <1>9, RowMarked
  <2>2. Final(n, w, d)
    <3>1. id = Reply(n, w) /\ ~Present(b.msgs, Host(n))
      BY <1>1, <1>4 DEF id, host
    <3>2. b.exec = turns[n].phase /\ b.run = n /\ b.reported = turns[n].reported /\ Last(b.msgs).id = id
          /\ b.msgs # <<>>
      BY <1>1, <1>4, <1>6
    <3>. QED
      BY <1>5, <1>6, <2>1, <3>1, <3>2, MarkedFinal
  <2>. QED
    BY <1>1, <1>8, <2>2, Settles
<1>10. CASE q.active = None
  <2>. DEFINE patch == Marking(fail)
  <2>1. /\ patch \in Patch /\ patch.parts = {} /\ ~patch.opens /\ \A st : StatusOf(patch, st) = fail
    BY <1>7, MarkingIs
  <2>2. Hosting(turns, b, n, w, n, patch)
    <3>1. Hosted(patch.parts)
      BY <2>1 DEF Hosted
    <3>2. ~Present(b.msgs, Host(n)) /\ b.active = None /\ n <= n /\ b.exec = "running"
      BY <1>1, <1>4, <1>8, <1>10 DEF host
    <3>3. n > 0
      BY DEF RunsOn
    <3>. HIDE DEF patch
    <3>. QED
      BY <1>1, <1>5, <2>1, <3>1, <3>2, <3>3 DEF Hosting
  <2>3. d = [OnMessage(b, Host(n), "reply", patch) EXCEPT !.active = Host(n)]
    BY <1>2, <1>10 DEF host
  <2>. HIDE DEF patch
  <2>4. HasHost(turns, b, d, n, w, n, patch)
    BY <2>2, <2>3, HostFresh
  <2>5. /\ Base(turns, d, n, w) /\ SameRun(b, d) /\ d.active = Host(n) /\ d.msgs # <<>>
        /\ Last(d.msgs).id = Host(n) /\ Last(d.msgs).status = fail
    BY <2>1, <2>4 DEF HasHost
  <2>6. Host(n) # None
    BY DEF Host, None
  <2>7. Final(n, w, d)
    BY <1>4, <1>6, <2>5, <2>6 DEF Final, SameRun
  <2>. QED
    BY <1>1, <1>8, <2>7, Settles
<1>. QED
  BY <1>1, <1>9, <1>10

(* It goes on. `dated` as the update was, it is known by the moment it carries,  *)
(* or not.                                                                    *)
LEMMA RunShown ==
  ASSUME NEW n, NEW w, RunsOn(n, w), NEW dated \in BOOLEAN, NEW q, Arrived(n, w, dated, q),
         turns[n].phase = "running", ~turns[n].reported,
         NEW kind, kind = IF dated THEN "running" ELSE "restated", NEW r, r = Apply(q, Update(kind, n))
  PROVE  Told(turns, r)
<1>. DEFINE id == Reply(n, w)
            run == "running"
            no == FALSE
            b == Run(q, run, n, no)
            d == ApplyRunning(q, n, dated)
            u == Update(kind, n)
<1>1. /\ Base(turns, q, n, w) /\ q \in View /\ q.msgs # <<>> /\ Last(q.msgs).id = id
      /\ id # None /\ q.active \in {None, id} /\ Active(q) = q.active /\ Last(q.msgs).role = "reply"
      /\ n \in 0..MaxTurns /\ n \in Nat /\ ~Present(q.msgs, Host(n))
  BY ArrivedIs
<1>2. /\ q.active = id => q.exec = "running" /\ Last(q.msgs).status = "running" /\ q.streamed = 0 /\ dated
                          /\ (q.reported /\ q.run = n => turns[n].reported)
      /\ q.active = None => q.exec # "running" /\ q.exec # "waiting" /\ (dated => q.streamed = n)
  BY <1>1 DEF Arrived
<1>3. n > 0
  BY DEF RunsOn
<1>4. Reported(q, n) = no
  BY <1>1, <1>2 DEF Reported
<1>5. d = IF q.active = id THEN b ELSE Reopen(b)
  <2>1. CASE q.active = id
    <3>1. q.exec = "running" /\ dated /\ q.streamed # n
      BY <1>2, <1>3, <2>1
    <3>. QED
      BY <1>4, <2>1, <3>1 DEF ApplyRunning, Announced, Run
  <2>2. CASE q.active = None
    <3>1. q.exec # "waiting" /\ ~Ongoing(q) /\ Active(q) = None /\ q.active # id /\ (dated => q.streamed = n)
      BY <1>1, <1>2, <2>2 DEF Ongoing
    <3>2. CASE dated
      <4>1. Announced(q, n)
        BY <3>1, <3>2 DEF Announced
      <4>. QED
        BY <1>4, <3>1, <3>2, <4>1 DEF ApplyRunning, Run
    <3>3. CASE ~dated
      BY <1>4, <3>1, <3>3 DEF ApplyRunning, Run
    <3>. QED
      BY <3>2, <3>3
  <2>. QED
    BY <1>1, <2>1, <2>2
<1>6. /\ b \in View /\ b.msgs = q.msgs /\ b.active = q.active /\ b.exec = run /\ b.run = n /\ b.reported = no
  BY <1>1 DEF Run, View
<1>. HIDE DEF b
<1>7. Base(turns, b, n, w)
  BY <1>1, <1>6, BaseRun
<1>8. turns[n].reported = no /\ run = turns[n].phase /\ run = IF turns[n].reported THEN "failed" ELSE turns[n].phase
  <2>1. turns[n].reported \in BOOLEAN
    BY SessionIs DEF RunsOn
  <2>. QED
    BY <2>1
<1>9. u.kind \in States /\ u.from = n /\ r = Noted(q, d, u)
  <2>1. u.kind = (IF dated THEN "running" ELSE "restated") /\ u.turn = n /\ u.from = n
    BY UpdateIs
  <2>2. Kind(q, u) = d
    <3>1. CASE dated
      <4>1. u.kind = "running" /\ dated = TRUE
        BY <2>1, <3>1
      <4>. QED
        BY <2>1, <4>1, KindIs
    <3>2. CASE ~dated
      <4>1. u.kind = "restated" /\ dated = FALSE
        BY <2>1, <3>2
      <4>. QED
        BY <2>1, <4>1, KindIs
    <3>. QED
      BY <3>1, <3>2
  <2>. QED
    BY <2>1, <2>2 DEF States, Apply
<1>10. CASE q.active = id
  <2>1. d = b
    BY <1>5, <1>10
  <2>2. Final(n, w, d)
    <3>1. /\ b.exec = turns[n].phase /\ b.run = n /\ b.reported = turns[n].reported
          /\ b.msgs # <<>> /\ b.active = Last(b.msgs).id /\ b.active # None /\ b.active = Reply(n, w)
          /\ ~Present(b.msgs, Host(n)) /\ Last(b.msgs).status = run
      BY <1>1, <1>2, <1>6, <1>8, <1>10
    <3>. QED
      BY <1>7, <1>8, <2>1, <3>1 DEF Final
  <2>. QED
    BY <1>1, <1>9, <2>2, Settles
<1>11. CASE q.active # id
  <2>1. d = Reopen(b) /\ q.active = None
    BY <1>1, <1>5, <1>11
  <2>. HIDE DEF d, u
  <2>2. Reopening(turns, b, n, w)
    BY <1>6, <1>7, <2>1 DEF Reopening
  <2>3. IsReopened(turns, b, d, n, w)
    BY <2>1, <2>2, ReopenIs
  <2>4. Reopened(turns, b, d, n, w)
    BY <1>1, <1>6, <2>3 DEF IsReopened
  <2>5. /\ Base(turns, d, n, w) /\ SameRun(b, d) /\ d.active = Last(b.msgs).id
        /\ Repaints(b.msgs, d.msgs, id, run)
    BY <1>1, <1>6, <2>4 DEF Reopened
  <2>. HIDE DEF id, run, no
  <2>6. IsMarked(turns, b, d, n, w, id, run)
    BY <1>1, <1>6, <2>5 DEF IsMarked
  <2>7. Final(n, w, d)
    <3>1. id = Reply(n, w) /\ ~Present(b.msgs, Host(n))
      BY <1>1, <1>6 DEF id
    <3>2. b.exec = turns[n].phase /\ b.run = n /\ b.reported = turns[n].reported /\ Last(b.msgs).id = id
          /\ b.msgs # <<>>
      BY <1>1, <1>6, <1>8
    <3>. QED
      BY <1>7, <1>8, <2>6, <3>1, <3>2, MarkedFinal
  <2>. QED
    BY <1>1, <1>9, <2>7, Settles
<1>. QED
  BY <1>10, <1>11

(* No run is under way: the last turn that ended is `m`.                       *)
Landed(v, n, w, m, q) ==
  /\ Base(turns, q, n, w)
  /\ turns[n].phase = "asked" => q.msgs # <<>> /\ Last(q.msgs).id = User(n) /\ ~Present(q.msgs, Host(n))
  /\ q.active # None => Stored(q.active) /\ q.active[2] = m /\ m > 0
  /\ m > 0 /\ Reported(q, m) => turns[m].how = "failed"
  /\ m = 0 => SameRun(v, q)
Settled(n) == IF turns[n].phase = "ended" THEN n ELSE n - 1

(* A view that knows a run that failed knows which.                            *)
LEMMA FailedIs ==
  ASSUME SessionOK(turns), NEW v, Gone(turns, v), NEW q, SameRun(v, q), NEW m,
         Reported(q, m)
  PROVE  turns[m].how = "failed"
<1>1. v.reported /\ v.run = m
  BY DEF Reported, SameRun
<1>2. m \in DOMAIN turns /\ turns[m].reported
  BY <1>1 DEF Gone
<1>. QED
  BY <1>2 DEF SessionOK

(* A compaction's host is no run's.                                           *)
LEMMA NoHost ==
  ASSUME NEW s, RestHosts(s), NEW n \in Nat
  PROVE  ~Present(s, Host(n))
<1>1. ASSUME NEW i \in DOMAIN s, s[i].id = Host(n)
      PROVE  FALSE
  <2>1. s[i].id[1] = "host"
    BY <1>1, Names
  <2>2. IsHost(s[i].id)
    BY <2>1 DEF IsHost
  <2>. QED
    BY <2>1, <2>2 DEF RestHosts
<1>. QED
  BY <1>1 DEF Present

(* A replay of a Session whose last turn is not under way lands at rest.     *)
LEMMA Lands ==
  ASSUME SessionOK(turns), NEW v, Gone(turns, v), NEW bracketed \in BOOLEAN, NEW n,
         n = Len(turns), n > 0,
         NEW q, Replays(v, bracketed, n, q), ~UnderWay(n), NEW w, w = turns[n].wrote, NEW m, m = Settled(n)
  PROVE  Landed(v, n, w, m, q)
<1>1. /\ n \in 1..Len(turns) /\ n # 0 /\ n \in Nat /\ n \in DOMAIN turns
      /\ turns[n].phase \in {"asked", "ended"}
      /\ turns[n].phase = "asked" => turns[n].wrote = 0 /\ ~turns[n].own
  <2>1. n \in 1..Len(turns) /\ n # 0 /\ n \in Nat /\ n \in DOMAIN turns
        /\ turns[n].phase \in {"asked", "running", "waiting", "ended"}
    BY SessionIs
  <2>. QED
    BY <2>1 DEF UnderWay, SessionOK
<1>2. m \in Nat /\ (turns[n].phase = "ended" => m = n) /\ (turns[n].phase = "asked" => m = n - 1)
      /\ (n = 1 \/ n > 1)
  BY <1>1 DEF Settled
<1>3. CASE bracketed
  <2>1. BetweenTo(v, n, q)
    BY <1>3 DEF Replays
  <2>2. CASE turns[n].phase = "asked"
    <3>1. Entering(v, n, q)
      BY <1>1, <2>1, <2>2 DEF BetweenTo
    <3>2. /\ Base(turns, q, n, w) /\ q.active = None /\ q.msgs # <<>> /\ Last(q.msgs).id = User(n)
          /\ ~Present(q.msgs, Host(n)) /\ Known(v, n, q)
      BY <1>1, <2>2, <3>1 DEF Entering
    <3>3. m > 0 /\ Reported(q, m) => FALSE
      BY <1>1, <1>2, <2>2, <3>2 DEF Known, Reported
    <3>4. m = 0 => SameRun(v, q)
      BY <1>1, <1>2, <2>2, <3>2 DEF Known
    <3>. QED
      BY <3>2, <3>3, <3>4 DEF Landed
  <2>3. CASE turns[n].phase = "ended"
    <3>1. Left(n, q)
      BY <1>1, <2>1, <2>3 DEF BetweenTo
    <3>2. Base(turns, q, n, w) /\ q.active = None /\ q.reported = FALSE
      BY <3>1 DEF Left
    <3>3. ~Reported(q, m) /\ m # 0
      BY <1>1, <1>2, <2>3, <3>2 DEF Reported
    <3>. QED
      BY <2>3, <3>2, <3>3 DEF Landed
  <2>. QED
    BY <1>1, <2>2, <2>3
<1>4. CASE ~bracketed /\ v.exec = "running"
  <2>1. RunTo(v, n, q) /\ RunFrom(v)
    BY <1>4 DEF Replays
  <2>2. CASE turns[n].phase = "asked"
    <3>1. /\ Base(turns, q, n, w) /\ SameRun(v, q) /\ ~Present(q.msgs, Host(n))
          /\ q.msgs # <<>> /\ Last(q.msgs).id = User(n)
          /\ q.active # None => Stored(q.active) /\ q.active[2] = n - 1 /\ n > 1
      BY <1>1, <2>1, <2>2 DEF RunTo
    <3>2. q.active # None => Stored(q.active) /\ q.active[2] = m /\ m > 0
      BY <1>1, <1>2, <2>2, <3>1
    <3>3. Reported(q, m) => turns[m].how = "failed"
      BY <3>1, FailedIs
    <3>. QED
      BY <3>1, <3>2, <3>3 DEF Landed
  <2>3. CASE turns[n].phase = "ended"
    <3>1. AtRun(turns, v, n, w, FALSE, q)
      BY <1>1, <2>1, <2>3 DEF RunTo
    <3>2. w > 0 /\ w \in Nat
      BY <1>1, <2>1, <2>3, SessionIs DEF RunFrom
    <3>3. Base(turns, q, n, w) /\ q.active = Reply(n, w) /\ SameRun(v, q)
      BY <3>1, <3>2 DEF AtRun, InRun
    <3>4. Stored(q.active) /\ q.active[2] = n
      BY <1>1, <3>2, <3>3, Names DEF Stored
    <3>5. Reported(q, m) => turns[m].how = "failed"
      BY <3>3, FailedIs
    <3>6. m = n /\ m > 0
      BY <1>1, <1>2, <2>3
    <3>. QED
      BY <2>3, <3>3, <3>4, <3>5, <3>6 DEF Landed
  <2>. QED
    BY <1>1, <2>2, <2>3
<1>5. CASE ~bracketed /\ v.exec # "running"
  <2>1. RestTo(v, n, q)
    BY <1>5 DEF Replays
  <2>2. Resting(turns, v, n, w, 0, q) /\ (turns[n].phase = "asked" => q.msgs # <<>> /\ Last(q.msgs).id = User(n))
    BY <1>1, <2>1 DEF RestTo, FromOf
  <2>3. InRest(turns, q, n, w) /\ SameRun(v, q)
    BY <2>2 DEF Resting, SameRun
  <2>4. Base(turns, q, n, w) /\ q.active = None /\ q.exec # "running" /\ RestHosts(q.msgs)
    BY <2>3 DEF InRest
  <2>5. ~Present(q.msgs, Host(n)) /\ ~Reported(q, m)
    BY <1>1, <2>4, NoHost DEF Reported
  <2>. QED
    BY <2>2, <2>3, <2>4, <2>5 DEF Landed
<1>. QED
  BY <1>3, <1>4, <1>5

(* What shows that no run is under way.                                        *)
LEMMA RestShown ==
  ASSUME SessionOK(turns), NEW n, n = Len(turns),
         PhaseOf(turns) \in {"none", "asked", "ended"},
         NEW w, w = Written(turns), NEW p, Base(turns, p, n, w), ~Ongoing(p), p.reported = FALSE, p.active = None,
         PhaseOf(turns) = "asked" => p.msgs # <<>> /\ Last(p.msgs).id = User(n) /\ ~Present(p.msgs, Host(n)),
         p.streamed # 0 => PhaseOf(turns) = "asked" /\ p.streamed = n
  PROVE  Told(turns, p)
<1>. DEFINE phase == PhaseOf(turns)
            own == OwnOf(turns)
            reported == ReportedOf(turns)
<1>1. /\ phase \in {"none", "asked", "ended"} /\ phase \notin {"running", "waiting"}
      /\ phase = "asked" => p.msgs # <<>> /\ Last(p.msgs).id = User(n) /\ ~Present(p.msgs, Host(n))
      /\ own \in BOOLEAN /\ reported \in BOOLEAN
  BY SessionIs
<1>. HIDE DEF phase, own, reported
<1>2. Holds(p, n, phase, w, own, reported)
  BY <1>1 DEF Holds
<1>3. Shows(p, n, phase, w, own, reported)
  BY <1>2 DEF Shows, phase
<1>. QED
  BY <1>3 DEF Told, phase, own, reported

(* The last run that ended is the state the replay ends with.                  *)
LEMMA EndShown ==
  ASSUME SessionOK(turns), NEW v, NEW n, n = Len(turns), n > 0, ~UnderWay(n), NEW w,
         w = turns[n].wrote,
         NEW m \in 1..n, m = Settled(n), NEW q, Landed(v, n, w, m, q),
         NEW r, r = Apply(q, Update(turns[m].how, m))
  PROVE  Told(turns, r)
<1>. DEFINE how == turns[m].how
            status == SettledAs(q, m, how)
            d == ApplyIdle(q, m, how)
            u == Update(how, m)
<1>1. /\ n \in Nat /\ n \in 1..Len(turns) /\ turns[n].phase \in {"asked", "ended"} /\ m \in 0..MaxTurns /\ m > 0
      /\ how \in {"complete", "stopped", "failed"} /\ turns # <<>>
  <2>1. n \in Nat /\ n \in 1..Len(turns) /\ n <= MaxTurns /\ turns # <<>>
    BY SessionIs
  <2>2. turns[n].phase \in {"asked", "running", "waiting", "ended"}
    BY <2>1, SessionIs
  <2>3. how \in {"complete", "stopped", "failed"}
    BY <2>1, SessionIs
  <2>. QED
    BY <2>1, <2>2, <2>3, TurnAssumption DEF UnderWay
<1>2. /\ PhaseOf(turns) = turns[n].phase /\ Written(turns) = w
  BY <1>1 DEF PhaseOf, Written
<1>3. /\ Base(turns, q, n, w)
      /\ turns[n].phase = "asked" => q.msgs # <<>> /\ Last(q.msgs).id = User(n) /\ ~Present(q.msgs, Host(n))
      /\ q.active # None => Stored(q.active) /\ q.active[2] = m
      /\ Reported(q, m) => how = "failed"
  BY <1>1 DEF Landed
<1>4. status = how
  BY <1>3 DEF SettledAs
<1>5. Idling(turns, q, n, w, m, status)
  <2>1. q.active # None => Rests(turns, q.active, status)
    BY <1>1, <1>3, <1>4 DEF Rests
  <2>. QED
    BY <1>1, <1>3, <1>4, <2>1 DEF Idling
<1>6. Idled(turns, q, d, n, w, m, status)
  <2>1. SettledAs(q, m, how) = status /\ d = ApplyIdle(q, m, how)
    OBVIOUS
  <2>. HIDE DEF how, status, d
  <2>. QED
    BY <1>5, <2>1, IdleIs
<1>7. u.kind = how /\ u.turn = m /\ u.from = m
  BY UpdateIs
<1>8. r = Noted(q, d, u)
  <2>1. Kind(q, u) = d
    <3>. HIDE DEF u, how
    <3>1. u.kind \in {"complete", "stopped", "failed"}
      BY <1>1, <1>7
    <3>2. Kind(q, u) = ApplyIdle(q, u.turn, u.kind)
      BY <3>1, KindIs
    <3>. QED
      BY <1>7, <3>2
  <2>. QED
    BY <2>1 DEF Apply
<1>. HIDE DEF how, status, d, u
<1>9. /\ Base(turns, d, n, w) /\ d.exec \in {"idle", "failed"} /\ d.reported = FALSE /\ d.active = None
      /\ Repaints(q.msgs, d.msgs, q.active, status)
  BY <1>6 DEF Idled
<1>10. Steady(d, r) /\ r.streamed = 0
  <2>1. d \in View
    BY <1>9, Based
  <2>2. u.kind \in States
    BY <1>1, <1>7 DEF States
  <2>. QED
    BY <1>1, <1>7, <1>8, <2>1, <2>2, NotedIs
<1>11. Base(turns, r, n, w)
  BY <1>9, <1>10, BaseSteady
<1>12. ~Ongoing(r) /\ r.reported = FALSE /\ r.active = None /\ r.msgs = d.msgs
  BY <1>9, <1>10 DEF Steady, Ongoing
<1>13. turns[n].phase = "asked" => r.msgs # <<>> /\ Last(r.msgs).id = User(n) /\ ~Present(r.msgs, Host(n))
  <2>1. q.msgs \in Seq(Row)
    BY <1>3, Based
  <2>2. /\ d.msgs = <<>> <=> q.msgs = <<>>
        /\ \A jd : Present(d.msgs, jd) <=> Present(q.msgs, jd)
        /\ q.msgs # <<>> => Last(d.msgs).id = Last(q.msgs).id
    BY <1>9, <2>1, Repainted
  <2>. QED
    BY <1>3, <1>12, <2>2
<1>. QED
  BY <1>1, <1>2, <1>10, <1>11, <1>12, <1>13, RestShown

(* No run has ended, and the view shows no more than a first prompt.           *)
LEMMA NothingShown ==
  ASSUME SessionOK(turns), NEW v, Gone(turns, v), NEW n, n = Len(turns),
         PhaseOf(turns) \in {"none", "asked"},
         n <= 1, NEW w, w = Written(turns), NEW q, SameRun(v, q), Base(turns, q, n, w), q.active = None,
         PhaseOf(turns) = "asked" => q.msgs # <<>> /\ Last(q.msgs).id = User(n) /\ ~Present(q.msgs, Host(n))
  PROVE  Told(turns, q)
<1>1. /\ n \in Nat /\ DOMAIN turns = 1..n /\ q \in View
  BY SessionIs, Based
<1>2. \A t \in DOMAIN turns : t = 1 /\ turns[t].phase = "asked" /\ ~turns[t].reported /\ PhaseOf(turns) = "asked" /\ n = 1
  <2>1. ASSUME NEW t \in DOMAIN turns
        PROVE  t = 1 /\ n = 1 /\ turns # <<>>
    BY <1>1, SessionIs
  <2>2. ASSUME NEW t \in DOMAIN turns
        PROVE  turns[t].phase = "asked" /\ PhaseOf(turns) = "asked"
    <3>1. turns # <<>> /\ t = Len(turns)
      BY <2>1
    <3>2. PhaseOf(turns) = turns[t].phase
      BY <3>1 DEF PhaseOf
    <3>3. turns[t].phase \in {"asked", "running", "waiting", "ended"}
      BY <1>1, SessionIs
    <3>. QED
      BY <3>2, <3>3
  <2>. QED
    BY <2>1, <2>2 DEF SessionOK
<1>3. ~Ongoing(v) /\ (v.reported => FALSE) /\ (v.streamed # 0 => PhaseOf(turns) = "asked" /\ v.streamed = n)
  BY <1>2 DEF Gone
<1>4. ~Ongoing(q) /\ q.reported = FALSE /\ (q.streamed # 0 => PhaseOf(turns) = "asked" /\ q.streamed = n)
  <2>1. q.reported \in BOOLEAN
    BY <1>1, Viewed
  <2>. QED
    BY <1>3, <2>1 DEF SameRun, Ongoing
<1>. QED
  BY <1>4, RestShown

(* What the last state of a replay is.                                        *)
Ended == {i \in 1..Len(turns) : turns[i].phase = "ended"}

(* What is restated, as the Session's last turn is.                          *)
LEMMA RestatedIs ==
  ASSUME NEW q, NEW dated \in BOOLEAN, NEW n, n = Len(turns), n \in Nat, NEW r,
         r = Restated(q, dated),
         NEW kind, kind = IF dated THEN "running" ELSE "restated"
  PROVE  /\ n > 0 /\ turns[n].phase = "waiting" => r = Apply(q, Update("waiting", n))
         /\ n > 0 /\ turns[n].phase = "running" /\ turns[n].reported => r = Apply(q, Update("failing", n))
         /\ n > 0 /\ turns[n].phase = "running" /\ ~turns[n].reported => r = Apply(q, Update(kind, n))
         /\ (n > 0 => ~UnderWay(n)) /\ Ended = {} => r = q
         /\ (n > 0 => ~UnderWay(n)) /\ Ended # {} => r = Apply(q, Update(turns[Max(Ended)].how, Max(Ended)))
<1>. DEFINE to(what, t) == Apply(q, Update(what, t))
<1>1. r = IF n > 0 /\ turns[n].phase = "waiting" THEN to("waiting", n)
          ELSE IF n > 0 /\ turns[n].phase = "running"
               THEN to(IF turns[n].reported THEN "failing" ELSE kind, n)
          ELSE IF Ended = {} THEN q
          ELSE to(turns[Max(Ended)].how, Max(Ended))
  BY DEF Restated, Ended
<1>2. (n > 0 => ~UnderWay(n)) => ~(n > 0 /\ turns[n].phase = "waiting") /\ ~(n > 0 /\ turns[n].phase = "running")
  BY DEF UnderWay
<1>3. turns[n].phase = "running" => turns[n].phase # "waiting"
  OBVIOUS
<1>. HIDE DEF to
<1>4. /\ n > 0 /\ turns[n].phase = "waiting" => r = to("waiting", n)
      /\ n > 0 /\ turns[n].phase = "running" /\ turns[n].reported => r = to("failing", n)
      /\ n > 0 /\ turns[n].phase = "running" /\ ~turns[n].reported => r = to(kind, n)
      /\ (n > 0 => ~UnderWay(n)) /\ Ended = {} => r = q
      /\ (n > 0 => ~UnderWay(n)) /\ Ended # {} => r = to(turns[Max(Ended)].how, Max(Ended))
  BY <1>1, <1>2, <1>3
<1>. QED
  BY <1>4 DEF to

(* The turn whose end is restated is the last one that has ended.            *)
LEMMA LastEnded ==
  ASSUME SessionOK(turns), NEW n, n = Len(turns), n > 0, ~UnderWay(n), NEW m, m = Settled(n)
  PROVE  /\ m = 0 \/ m \in 1..n
         /\ m = 0 => Ended = {} /\ n = 1 /\ turns[n].phase = "asked"
         /\ m # 0 => Ended # {} /\ Max(Ended) = m
<1>1. /\ n \in 1..Len(turns) /\ n \in Nat /\ turns[n].phase \in {"asked", "ended"} /\ DOMAIN turns = 1..n
  <2>1. n \in 1..Len(turns) /\ n \in Nat /\ turns[n].phase \in {"asked", "running", "waiting", "ended"}
    BY SessionIs
  <2>. QED
    BY <2>1, SessionIs DEF UnderWay
<1>2. \A i \in 1..n : i < n => turns[i].phase = "ended"
  BY <1>1 DEF SessionOK
<1>3. Ended = {i \in 1..n : turns[i].phase = "ended"}
  BY DEF Ended
<1>4. CASE turns[n].phase = "ended"
  <2>1. m = n
    BY <1>4 DEF Settled
  <2>2. m \in Ended /\ Ended \subseteq 1..n
    BY <1>1, <1>3, <1>4, <2>1
  <2>. HIDE DEF Ended
  <2>3. Max(Ended) \in Ended /\ \A i \in Ended : i <= Max(Ended)
    BY <1>1, <2>2, Greatest
  <2>. DEFINE g == Max(Ended)
  <2>4. g \in 1..n /\ m <= g
    BY <2>2, <2>3
  <2>. HIDE DEF g
  <2>5. g = m
    BY <1>1, <2>1, <2>4
  <2>. QED
    BY <1>1, <2>1, <2>2, <2>5 DEF g
<1>5. CASE turns[n].phase = "asked" /\ n = 1
  <2>1. m = 0 /\ Ended = {}
    BY <1>1, <1>3, <1>5 DEF Settled
  <2>. QED
    BY <1>5, <2>1
<1>6. CASE turns[n].phase = "asked" /\ n > 1
  <2>1. m = n - 1 /\ m \in 1..n /\ m # 0 /\ m < n
    BY <1>1, <1>6 DEF Settled
  <2>2. m \in Ended /\ Ended \subseteq 1..n /\ n \notin Ended
    BY <1>1, <1>2, <1>3, <1>6, <2>1
  <2>3. Max(Ended) \in Ended /\ \A i \in Ended : i <= Max(Ended)
    BY <1>1, <2>2, Greatest
  <2>. DEFINE g == Max(Ended)
  <2>4. g \in 1..n /\ g # n /\ m <= g
    BY <2>2, <2>3
  <2>. HIDE DEF g
  <2>5. g = m
    BY <1>1, <2>1, <2>4
  <2>. QED
    BY <2>1, <2>2, <2>5 DEF g
<1>7. n = 1 \/ n > 1
  BY <1>1
<1>. QED
  BY <1>1, <1>4, <1>5, <1>6, <1>7

(* A replay shows the Session as it is.                                        *)
LEMMA AtEnd ==
  ASSUME SessionOK(turns), NEW v, Gone(turns, v), NEW bracketed \in BOOLEAN, NEW n,
         n = Len(turns),
         NEW q, Replays(v, bracketed, n, q), n > 0 /\ UnderWay(n) => turns[n].wrote > 0,
         n > 0 /\ v.exec = "waiting" => turns[n].phase # "running",
         NEW r, r = Restated(q, ~bracketed)
  PROVE  Told(turns, r)
<1>. DEFINE dated == ~bracketed
            w == turns[n].wrote
            m == Settled(n)
<1>1. n \in Nat /\ (n > 0 <=> turns # <<>>) /\ (n > 0 => turns[n].reported \in BOOLEAN)
  BY SessionIs
<1>2. CASE n > 0 /\ UnderWay(n)
  <2>1. RunsOn(n, w)
    BY <1>2 DEF RunsOn
  <2>2. Arrived(n, w, dated, q)
    <3>. HIDE DEF dated
    <3>1. w = turns[n].wrote /\ w > 0 /\ dated = ~bracketed
      BY <1>2 DEF dated
    <3>. HIDE DEF w
    <3>2. Arrived(n, w, ~bracketed, q)
      BY <1>2, <3>1, Arrives
    <3>. QED
      BY <3>1, <3>2
  <2>3. dated \in BOOLEAN
    OBVIOUS
  <2>4. r = Restated(q, dated)
    OBVIOUS
  <2>. DEFINE kind == IF dated THEN "running" ELSE "restated"
  <2>8. kind = IF dated THEN "running" ELSE "restated"
    OBVIOUS
  <2>. HIDE DEF dated, w, kind
  <2>5. CASE turns[n].phase = "waiting"
    <3>1. r = Apply(q, Update("waiting", n))
      BY <1>1, <1>2, <2>3, <2>4, <2>5, RestatedIs
    <3>. QED
      BY <2>1, <2>2, <2>5, <3>1, WaitShown
  <2>6. CASE turns[n].phase = "running" /\ turns[n].reported
    <3>1. r = Apply(q, Update("failing", n))
      BY <1>1, <1>2, <2>3, <2>4, <2>6, RestatedIs
    <3>. QED
      BY <2>1, <2>2, <2>6, <3>1, FailShown
  <2>7. CASE turns[n].phase = "running" /\ ~turns[n].reported
    <3>1. r = Apply(q, Update(kind, n))
      BY <1>1, <1>2, <2>3, <2>4, <2>7, <2>8, RestatedIs
    <3>. QED
      BY <2>1, <2>2, <2>3, <2>7, <2>8, <3>1, RunShown
  <2>. QED
    BY <1>1, <1>2, <2>5, <2>6, <2>7 DEF UnderWay
<1>3. CASE n > 0 /\ ~UnderWay(n)
  <2>1. Landed(v, n, w, m, q)
    <3>1. w = turns[n].wrote /\ m = Settled(n)
      OBVIOUS
    <3>. HIDE DEF w, m
    <3>. QED
      BY <1>3, <3>1, Lands
  <2>2. /\ m = 0 \/ m \in 1..n
        /\ m = 0 => Ended = {} /\ n = 1 /\ turns[n].phase = "asked"
        /\ m # 0 => Ended # {} /\ Max(Ended) = m
    BY <1>3, LastEnded
  <2>3. CASE m = 0
    <3>1. r = q
      BY <1>1, <1>3, <2>2, <2>3, RestatedIs
    <3>2. /\ PhaseOf(turns) = "asked" /\ Written(turns) = w /\ n <= 1
      <4>. HIDE DEF m
      <4>1. n = 1 /\ turns # <<>> /\ turns[n].phase = "asked"
        BY <1>1, <1>3, <2>2, <2>3
      <4>2. PhaseOf(turns) = turns[n].phase /\ Written(turns) = w
        BY <4>1 DEF PhaseOf, Written
      <4>. QED
        BY <4>1, <4>2
    <3>3. /\ SameRun(v, q) /\ Base(turns, q, n, w)
          /\ q.msgs # <<>> /\ Last(q.msgs).id = User(n) /\ ~Present(q.msgs, Host(n))
          /\ q.active = None
      <4>. HIDE DEF m, w
      <4>. QED
        BY <2>1, <2>2, <2>3 DEF Landed
    <3>. HIDE DEF w
    <3>. QED
      BY <3>1, <3>2, <3>3, NothingShown
  <2>4. CASE m # 0
    <3>1. r = Apply(q, Update(turns[m].how, m))
      BY <1>1, <1>3, <2>2, <2>4, RestatedIs
    <3>2. w = turns[n].wrote /\ m = Settled(n) /\ m \in 1..n
      BY <2>2, <2>4
    <3>. HIDE DEF w, m
    <3>. QED
      BY <1>3, <2>1, <3>1, <3>2, EndShown
  <2>. QED
    BY <2>3, <2>4
<1>4. CASE n = 0
  <2>1. q = v
    BY <1>4 DEF Replays, BetweenTo, RunTo, RestTo
  <2>2. Ended = {} /\ turns = <<>>
    BY <1>1, <1>4 DEF Ended
  <2>3. r = q
    BY <1>1, <1>4, <2>2, RestatedIs
  <2>4. PhaseOf(turns) = "none" /\ Written(turns) = 0 /\ n <= 1 /\ SameRun(v, q) /\ q.active = None
    BY <1>4, <2>1, <2>2 DEF PhaseOf, Written, SameRun, Gone
  <2>. DEFINE z == 0
  <2>5. z = 0 /\ z = n /\ z = Written(turns)
    BY <1>4, <2>4
  <2>. HIDE DEF z
  <2>6. Base(turns, q, z, z)
    BY <2>1, <2>5, GoneBase
  <2>7. Base(turns, q, n, Written(turns))
    BY <2>5, <2>6
  <2>. QED
    BY <2>3, <2>4, <2>7, NothingShown
<1>. QED
  BY <1>1, <1>2, <1>3, <1>4

-----------------------------------------------------------------------------
(* A view that rejoins.                                                       *)
Rejoining(v) ==
  /\ SessionOK(turns) /\ Gone(turns, v)
  /\ turns # <<>> /\ UnderWay(Len(turns)) => turns[Len(turns)].wrote > 0
  /\ Ongoing(v) => \A t \in DOMAIN turns : turns[t].phase # "asked" => turns[t].wrote > 0
  /\ v.exec = "waiting" /\ turns # <<>> => turns[Len(turns)].phase # "running"

(* It starts as the view was left.                                            *)
LEMMA ReplaysFirst ==
  ASSUME NEW v, Rejoining(v), NEW bracketed \in BOOLEAN
  PROVE  Replays(v, bracketed, 0, v)
<1>1. /\ SessionOK(turns) /\ Gone(turns, v) /\ DOMAIN turns = 1..Len(turns) /\ Len(turns) \in Nat
      /\ turns # <<>> <=> Len(turns) > 0
  BY SessionIs DEF Rejoining
<1>2. BetweenFrom(v)
  <2>1. ASSUME NEW t \in 1..Len(turns), UnderWay(t)
        PROVE  turns[t].wrote > 0
    <3>1. turns[t].phase # "ended"
      BY <2>1 DEF UnderWay
    <3>2. ~(t < Len(turns))
      BY <1>1, <3>1 DEF SessionOK
    <3>3. t = Len(turns) /\ turns # <<>>
      <4>. DEFINE n == Len(turns)
      <4>1. t \in 1..n /\ n \in Nat /\ ~(t < n) /\ (n > 0 => turns # <<>>)
        BY <1>1, <3>2
      <4>. HIDE DEF n
      <4>2. t = n /\ n > 0
        BY <4>1
      <4>. QED
        BY <4>1, <4>2 DEF n
    <3>. QED
      BY <2>1, <3>3 DEF Rejoining
  <2>. QED
    BY <1>1, <2>1 DEF BetweenFrom
<1>3. v.exec = "running" => RunFrom(v)
  <2>1. v.exec = "running" => \A t \in 1..Len(turns) : turns[t].phase # "asked" => turns[t].wrote > 0
    BY <1>1 DEF Rejoining, Ongoing
  <2>. QED
    BY <1>1, <2>1 DEF RunFrom
<1>4. v.exec # "running" => RestFrom(v)
  BY <1>1 DEF RestFrom
<1>5. BetweenTo(v, 0, v) /\ RunTo(v, 0, v) /\ RestTo(v, 0, v)
  BY DEF BetweenTo, RunTo, RestTo
<1>. QED
  BY <1>2, <1>3, <1>4, <1>5 DEF Replays

(* A turn more is replayed.                                                    *)
LEMMA ReplaysOn ==
  ASSUME NEW v, NEW bracketed \in BOOLEAN, NEW t \in 1..Len(turns), NEW p,
         Replays(v, bracketed, t - 1, p)
  PROVE  Replays(v, bracketed, t, TurnOf(p, t, bracketed))
<1>1. CASE bracketed
  <2>1. BetweenFrom(v) /\ BetweenTo(v, t - 1, p)
    BY <1>1 DEF Replays
  <2>2. BetweenTo(v, t, Bracketed(p, t))
    BY <2>1, BracketedTurn
  <2>3. TurnOf(p, t, bracketed) = Bracketed(p, t)
    BY <1>1 DEF TurnOf
  <2>. QED
    BY <1>1, <2>1, <2>2, <2>3 DEF Replays
<1>2. CASE ~bracketed /\ v.exec = "running"
  <2>1. RunFrom(v) /\ RunTo(v, t - 1, p)
    BY <1>2 DEF Replays
  <2>2. RunTo(v, t, Plain(p, t))
    BY <2>1, RunTurn
  <2>3. TurnOf(p, t, bracketed) = Plain(p, t)
    BY <1>2 DEF TurnOf
  <2>. QED
    BY <1>2, <2>1, <2>2, <2>3 DEF Replays
<1>3. CASE ~bracketed /\ v.exec # "running"
  <2>1. RestFrom(v) /\ RestTo(v, t - 1, p)
    BY <1>3 DEF Replays
  <2>2. RestTo(v, t, Plain(p, t))
    BY <2>1, RestTurn
  <2>3. TurnOf(p, t, bracketed) = Plain(p, t)
    BY <1>3 DEF TurnOf
  <2>. QED
    BY <1>3, <2>1, <2>2, <2>3 DEF Replays
<1>. QED
  BY <1>1, <1>2, <1>3

(* It is a view all along.                                                    *)
LEMMA ReplaysView ==
  ASSUME NEW v \in View, NEW bracketed, NEW t, NEW p, Replays(v, bracketed, t, p)
  PROVE  p \in View
<1>1. BetweenTo(v, t, p) => p \in View
  BY DEF BetweenTo, Entering, Left, Base
<1>2. RunTo(v, t, p) => p \in View
  BY DEF RunTo, AtRun, InRun, Base
<1>3. RestTo(v, t, p) => p \in View
  BY DEF RestTo, Resting, InRest, Base
<1>. QED
  BY <1>1, <1>2, <1>3 DEF Replays

(* It shows the Session as it is.                                             *)
LEMMA Rejoined ==
  ASSUME NEW v, Rejoining(v), NEW bracketed \in BOOLEAN, NEW q, q = Replayed(v, bracketed)
  PROVE  Told(turns, q)
<1>. DEFINE n == Len(turns)
            I == [t \in 0..n |-> {p \in View : Replays(v, bracketed, t, p)}]
<1>1. /\ SessionOK(turns) /\ Gone(turns, v) /\ n \in Nat /\ v \in View
      /\ turns # <<>> <=> n > 0
  BY SessionIs DEF Rejoining, Gone
<1>2. v \in I[0]
  BY <1>1, ReplaysFirst
<1>3. \A t \in 1..n : \A x \in I[t - 1] : TurnOf(x, t, bracketed) \in I[t]
  <2>1. ASSUME NEW t \in 1..n, NEW x \in I[t - 1]
        PROVE  TurnOf(x, t, bracketed) \in I[t]
    <3>1. t \in 0..n /\ t - 1 \in 0..n
      BY <1>1
    <3>2. Replays(v, bracketed, t - 1, x)
      BY <3>1
    <3>3. Replays(v, bracketed, t, TurnOf(x, t, bracketed))
      BY <3>2, ReplaysOn
    <3>4. TurnOf(x, t, bracketed) \in View
      BY <1>1, <3>3, ReplaysView
    <3>. QED
      BY <3>1, <3>3, <3>4
  <2>. QED
    BY <2>1
<1>4. \A x \in I[n] : Replays(v, bracketed, n, x)
  BY <1>1
<1>5. n = Len(turns)
  OBVIOUS
<1>. HIDE DEF I, n
<1>6. PICK x \in I[n] : Replayed(v, bracketed) = Restated(x, ~bracketed)
  BY <1>1, <1>2, <1>3, <1>5, ReplayedIs
<1>7. Replays(v, bracketed, n, x)
  BY <1>4, <1>6
<1>8. /\ n > 0 /\ UnderWay(n) => turns[n].wrote > 0
      /\ n > 0 /\ v.exec = "waiting" => turns[n].phase # "running"
  BY <1>1, <1>5 DEF Rejoining
<1>. QED
  BY <1>1, <1>5, <1>6, <1>7, <1>8, AtEnd

-----------------------------------------------------------------------------
(* Every step keeps what both views show.                                      *)
LEMMA AsidesStay ==
  ASSUME asides \in 0..MaxAsides, [Next]_vars
  PROVE  asides' \in 0..MaxAsides
<1>1. asides' = asides \/ (asides < MaxAsides /\ asides' = asides + 1)
  BY DEF Next, vars, Ask, Begin, Write, Compact, Notify, Wait, Resume, Restate,
     Report, End, Drop, Rejoin, Refuse
<1>. QED
  BY <1>1, TurnAssumption

(* A view that drops is gone, and shows the Session once it is back.            *)
LEMMA DropKeeps ==
  ASSUME IInv, Drop
  PROVE  Gone(turns', view') /\ linked' = FALSE /\ turns' = turns /\ live' = live
<1>1. SessionOK(turns) /\ Told(turns, view)
  BY DEF IInv, Drop
<1>2. view' = Cleared(view) /\ linked' = FALSE /\ turns' = turns /\ live' = live
  BY DEF Drop
<1>3. Gone(turns, view')
  BY <1>1, <1>2, DropGone
<1>. QED
  BY <1>2, <1>3

(* A view that rejoins is told all it had missed.                            *)
LEMMA RejoinKeeps ==
  ASSUME ShownFirst, IInv, Rejoin
  PROVE  Told(turns', view') /\ linked' = TRUE /\ turns' = turns /\ live' = live
<1>1. SessionOK(turns) /\ Gone(turns, view) /\ Shown
  BY DEF IInv, Rejoin
<1>2. PICK from \in {Initial, view}, bracketed \in BOOLEAN : view' = Replayed(from, bracketed)
  BY DEF Rejoin
<1>3. linked' = TRUE /\ turns' = turns /\ live' = live
  BY DEF Rejoin
<1>4. Rejoining(from)
  <2>1. turns # <<>> /\ UnderWay(Len(turns)) => turns[Len(turns)].wrote > 0
    BY <1>1 DEF Shown, Under, Latest
  <2>2. CASE from = view
    BY <1>1, <2>1, <2>2 DEF Rejoining, Shown, Now, Latest
  <2>3. CASE from = Initial
    <3>1. Gone(turns, from)
      BY <2>3, FirstIs
    <3>2. ~Ongoing(from) /\ from.exec # "waiting"
      BY <2>3 DEF Initial, Ongoing
    <3>. QED
      BY <1>1, <2>1, <3>1, <3>2 DEF Rejoining
  <2>. QED
    BY <1>2, <2>2, <2>3
<1>5. Told(turns, view')
  BY <1>2, <1>4, Rejoined
<1>. QED
  BY <1>3, <1>5

(* A refusal keeps both views told.                                          *)
LEMMA RefuseKeeps ==
  ASSUME SessionOK(turns), Told(turns, live), Watched(turns, live),
         linked => Told(turns, view), Refuse
  PROVE  /\ turns' = turns /\ linked' = linked /\ Told(turns, live') /\ Watched(turns, live')
         /\ linked => Told(turns, view')
         /\ ~linked => view' = view
<1>1. turns' = turns /\ linked' = linked
  BY DEF Refuse
<1>2. CASE live' = FailLatest(live) /\ view' = view
  <2>1. Keeps(turns, turns, live, live')
    BY <1>2, FailKeeps
  <2>. QED
    BY <1>1, <1>2, <2>1 DEF Keeps
<1>3. CASE linked /\ view' = FailLatest(view) /\ live' = live
  <2>1. Keeps(turns, turns, view, view')
    BY <1>3, FailKeeps
  <2>. QED
    BY <1>1, <1>3, <2>1 DEF Keeps
<1>. QED
  BY <1>2, <1>3 DEF Refuse

(* Every step keeps the inductive invariant.                                 *)
LEMMA InvNext ==
  ASSUME ShownFirst, IInv, [Next]_vars
  PROVE  IInv'
<1>1. asides' \in 0..MaxAsides
  BY AsidesStay DEF IInv
<1>2. /\ SessionOK(turns) /\ linked \in BOOLEAN /\ Told(turns, live) /\ Watched(turns, live)
      /\ linked => Told(turns, view)
      /\ ~linked => Gone(turns, view)
  BY DEF IInv
<1>3. CASE SessionGoes
  <2>1. PICK u : Tell(u) /\ Going(turns, turns', u)
    BY <1>2, <1>3, StepGoes
  <2>2. /\ SessionOK(turns') /\ linked' = linked /\ Told(turns', live') /\ Watched(turns', live')
        /\ linked /\ Told(turns, view) => Told(turns', view')
        /\ ~linked /\ Gone(turns, view) => Gone(turns', view')
    BY <1>2, <2>1, TellShown
  <2>. QED
    BY <1>1, <1>2, <2>2 DEF IInv
<1>4. CASE Drop
  <2>1. Gone(turns', view') /\ linked' = FALSE /\ turns' = turns /\ live' = live
    BY <1>4, DropKeeps
  <2>. QED
    BY <1>1, <1>2, <2>1 DEF IInv
<1>5. CASE Rejoin
  <2>1. Told(turns', view') /\ linked' = TRUE /\ turns' = turns /\ live' = live
    BY <1>5, RejoinKeeps
  <2>. QED
    BY <1>1, <1>2, <2>1 DEF IInv
<1>6. CASE UNCHANGED vars
  BY <1>1, <1>2, <1>6 DEF IInv, vars
<1>7. CASE Refuse
  <2>1. /\ turns' = turns /\ linked' = linked /\ Told(turns, live') /\ Watched(turns, live')
        /\ linked => Told(turns, view')
        /\ ~linked => view' = view
    BY <1>2, <1>7, RefuseKeeps
  <2>. QED
    BY <1>1, <1>2, <2>1 DEF IInv
<1>. QED
  BY <1>3, <1>4, <1>5, <1>6, <1>7 DEF Next, SessionGoes

(* The invariant holds at first.                                             *)
LEMMA InvInit ==
  ASSUME Init
  PROVE  IInv
<1>1. turns = <<>> /\ live = Initial /\ view = Initial /\ linked = TRUE /\ asides = 0
  BY DEF Init
<1>2. asides \in 0..MaxAsides
  BY <1>1, TurnAssumption
<1>. QED
  BY <1>1, <1>2, FirstIs DEF IInv

-----------------------------------------------------------------------------
(* The theorems.                                                              *)
(* The turns, both views and what is counted of them keep their types: no view   *)
(* shows a message twice, and the turn a run has open is one it shows.          *)
THEOREM TypeCorrect ==
  ASSUME ShownFirst
  PROVE  Spec => []TypeOK
<1>1. Init => IInv
  BY InvInit
<1>2. IInv /\ [Next]_vars => IInv'
  BY InvNext
<1>3. IInv => TypeOK
  BY InvShows
<1>. QED
  BY <1>1, <1>2, <1>3, PTL DEF Spec

(* A turn reads running or waiting only while the run does, in the view that      *)
(* watched and in one rebuilt from a replay: a run that starts never re-opens the  *)
(* finished turn behind it.                                                   *)
THEOREM NoFinishedTurnReopens ==
  ASSUME ShownFirst
  PROVE  Spec => []OnlyTheRunIsOpen
<1>1. Init => IInv
  BY InvInit
<1>2. IInv /\ [Next]_vars => IInv'
  BY InvNext
<1>3. IInv => OnlyTheRunIsOpen
  BY InvShows
<1>. QED
  BY <1>1, <1>2, <1>3, PTL DEF Spec

(* The turn of a run that wrote reads as the run does, in both views, but for a  *)
(* turn a prompt refused meanwhile laid its failure on ("laid").               *)
THEOREM TheRunIsShown ==
  ASSUME ShownFirst
  PROVE  Spec => []RunReadsOpen
<1>1. Init => IInv
  BY InvInit
<1>2. IInv /\ [Next]_vars => IInv'
  BY InvNext
<1>3. IInv => RunReadsOpen
  BY InvShows
<1>. QED
  BY <1>1, <1>2, <1>3, PTL DEF Spec

(* A turn that ended reads as it ended, and in a view rebuilt from history as no  *)
(* other turn did, but for a turn on which a refused prompt, or a later run that  *)
(* failed before it wrote, laid its failure ("laid", failLatestTurn).           *)
THEOREM EndsAreKept ==
  ASSUME ShownFirst
  PROVE  Spec => []TurnKeepsItsEnd
<1>1. Init => IInv
  BY InvInit
<1>2. IInv /\ [Next]_vars => IInv'
  BY InvNext
<1>3. IInv => TurnKeepsItsEnd
  BY InvShows
<1>. QED
  BY <1>1, <1>2, <1>3, PTL DEF Spec

(* A view rebuilt from a replay groups the replies as the one that watched them.  *)
THEOREM ReplayGroupsAlike ==
  ASSUME ShownFirst
  PROVE  Spec => []GroupsAgree
<1>1. Init => IInv
  BY InvInit
<1>2. IInv /\ [Next]_vars => IInv'
  BY InvNext
<1>3. IInv => GroupsAgree
  BY InvShows
<1>. QED
  BY <1>1, <1>2, <1>3, PTL DEF Spec
=============================================================================
