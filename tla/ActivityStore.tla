---------------------------- MODULE ActivityStore ----------------------------
(* What a tab records of its Agents' work (store.ts, activity.ts): ends of      *)
(* turns, paired with their starts in whatever order both arrive, and requests *)
(* with their resolutions. Events come late, twice, with a corrected time, or  *)
(* with an id that stands for another event already. The records are capped;   *)
(* what the store remembers to tell duplicates apart expires. One Session,     *)
(* which keeps its Agent: the scope of a turn or a request is its id alone.    *)
EXTENDS Integers, FiniteSets, Sequences

CONSTANTS
  Turns, Requests,
  EndIds,       \* ids of events that end turns; one may be that of a request's event
  None,
  Limit,        \* ACTIVITY_LIMIT
  Age,          \* ACTIVITY_MAX_AGE_MS
  MaxTime,      \* when the clock stops (a bound)
  StartTimes, RequestTimes   \* when turns began and requests were made (bounds)

(* What is remembered of an event heard.                                       *)
Heard == [type : {"start", "end", "ask", "resolved"}, key : Turns \cup Requests, expiresAt : Nat]

ASSUME StoreAssumption ==
  /\ Limit \in Nat \ {0} /\ Age \in Nat \ {0} /\ MaxTime \in Nat
  /\ StartTimes \cup RequestTimes \subseteq 0..MaxTime
  /\ StartTimes # {} /\ RequestTimes # {}
  /\ EndIds \cup Requests \subseteq Nat /\ Turns \cap Requests = {}
  /\ None \notin Nat /\ None \notin Heard

Times == 0..MaxTime
Maybe(S) == S \cup {None}
Event ==
  [type : {"start"}, id : {"start"} \X Turns, key : Turns, at : StartTimes]
    \cup [type : {"end"}, id : {"entry"} \X EndIds, key : Turns, at : Times]
    \cup [type : {"ask"}, id : {"entry"} \X Requests, key : Requests, at : RequestTimes]
    \cup [type : {"resolved"}, id : {"resolved"} \X Requests, key : Requests, at : {0}]
Events == {e \in Event : e.type # "end" => e.id[2] = e.key}
Ids == {e.id : e \in Events}
Ends == {e \in Events : e.type = "end"}

VARIABLES
  now,
  store,      \* the ActivityStore
  told,       \* history: the entries ingest returned that may alert, and since when known
  begun,      \* history: when a turn began by the first start accepted, and
  ended,      \* per end, its latest time not before that, while either is known
  answered,   \* history: when a request's resolution was first heard, None before
  gone        \* history: what was marked unavailable, and requests crowded out by others
vars == <<now, store, told, begun, ended, answered, gone>>

Empty ==
  [records |-> {}, starts |-> [k \in Turns |-> None], pending |-> [k \in Turns |-> <<>>],
   closed |-> {}, resolved |-> {}, identities |-> [i \in Ids |-> None]]

Init ==
  /\ now = 0 /\ store = Empty /\ told = {}
  /\ begun = [k \in Turns |-> None] /\ ended = [i \in Ids |-> None]
  /\ answered = [q \in Requests |-> None] /\ gone = {}

-----------------------------------------------------------------------------
NeedsAttention(r) == r.type = "ask" /\ ~r.resolved

(* sortActivity and retainActivity: requests that wait come first, then the     *)
(* newest; a record is kept while fewer than Limit are ahead of it.            *)
AheadByTime(r, s) == r.at > s.at \/ (r.at = s.at /\ r.id[2] < s.id[2])
Ahead(r, s) ==
  IF NeedsAttention(r) # NeedsAttention(s) THEN NeedsAttention(r)
  ELSE AheadByTime(r, s)
Retained(records, time) ==
  LET eligible == {r \in records : NeedsAttention(r) \/ r.at > time - Age} IN
  {r \in eligible : Cardinality({s \in eligible : Ahead(s, r)}) < Limit}

(* Those of a sequence that are in a set, in their order.                      *)
Only(s, S) ==
  LET Upto[n \in 0..Len(s)] ==
        IF n = 0 THEN <<>>
        ELSE IF s[n] \in S THEN Append(Upto[n - 1], s[n]) ELSE Upto[n - 1]
  IN Upto[Len(s)]

(* #prune: an identity lasts Age from when it was first heard, and as long as   *)
(* its record; the rest lasts as long as an identity it rests on.             *)
Pruned(st, time) ==
  LET records == Retained(st.records, time)
      ids == {i \in Ids : /\ st.identities[i] # None
                          /\ \/ st.identities[i].expiresAt > time
                             \/ \E r \in records : r.id = i}
      keys(type) == {st.identities[i].key : i \in {j \in ids : st.identities[j].type = type}}
  IN [records |-> records,
      starts |-> [k \in Turns |-> IF k \in keys("start") THEN st.starts[k] ELSE None],
      pending |-> [k \in Turns |-> Only(st.pending[k], {e \in Ends : e.id \in ids})],
      closed |-> st.closed \cap keys("end"),
      resolved |-> st.resolved \cap
                     (keys("resolved") \cup
                        {r.key : r \in {s \in records : s.type = "ask" /\ s.resolved}}),
      identities |-> [i \in Ids |-> IF i \in ids THEN st.identities[i] ELSE None]]

Identity(e, time) == [type |-> e.type, key |-> e.key, expiresAt |-> time + Age]
(* #remember: an id known for another event is refused.                       *)
Refused(st, e) ==
  /\ st.identities[e.id] # None
  /\ <<st.identities[e.id].type, st.identities[e.id].key>> # <<e.type, e.key>>
Remembered(st, e, time) ==
  IF st.identities[e.id] # None THEN st
  ELSE [st EXCEPT !.identities[e.id] = Identity(e, time)]

(* #insert *)
InsertedUnresolved(st, e, time) ==
  Pruned([st EXCEPT !.records = @ \cup
            {[type |-> e.type, id |-> e.id, key |-> e.key, at |-> e.at, resolved |-> FALSE]}], time)
Inserted(st, e, time) ==
  Pruned([st EXCEPT !.records = @ \cup
            {[type |-> e.type, id |-> e.id, key |-> e.key, at |-> e.at,
              resolved |-> e.type = "ask" /\ e.key \in st.resolved]}], time)

(* #complete *)
ClosedUnmarked(st, k) == [st EXCEPT !.starts[k] = None, !.pending[k] = <<>>]
Closed(st, k) == [st EXCEPT !.starts[k] = None, !.pending[k] = <<>>, !.closed = @ \cup {k}]
Completed(st, e, time) ==
  IF e.at < st.starts[e.key] \/ \E r \in st.records : r.id = e.id THEN st
  ELSE Inserted(Closed(st, e.key), e, time)

Started(st, e, time) ==
  LET at == IF st.starts[e.key] = None THEN e.at ELSE st.starts[e.key]
      next == [st EXCEPT !.starts[e.key] = at]
      fitting == Only(st.pending[e.key], {p \in Ends : p.at >= at})
  IN IF fitting = <<>> THEN next ELSE Completed(next, fitting[1], time)

(* The first end observed keeps its place; a correction only moves its time.   *)
CorrectedNever(ends, e) ==
  IF \E i \in DOMAIN ends : ends[i].id = e.id THEN ends ELSE Append(ends, e)
Corrected(ends, e) ==
  IF \E i \in DOMAIN ends : ends[i].id = e.id
  THEN [i \in DOMAIN ends |-> IF ends[i].id = e.id /\ e.at > ends[i].at THEN e ELSE ends[i]]
  ELSE Append(ends, e)

Resolved(st, e, time) ==
  Pruned([st EXCEPT !.resolved = @ \cup {e.key},
                    !.records = {IF r.type = "ask" /\ r.key = e.key
                                 THEN [r EXCEPT !.resolved = TRUE] ELSE r : r \in @}], time)

(* ingest, after its prune and its first checks.                              *)
Ingested(st, e, time) ==
  CASE e.type = "resolved" -> Resolved(st, e, time)
    [] e.type = "ask" -> Inserted(st, e, time)
    [] e.type \in {"start", "end"} /\ e.key \in st.closed -> st
    [] e.type = "start" /\ e.key \notin st.closed -> Started(st, e, time)
    [] e.type = "end" /\ e.key \notin st.closed /\ st.starts[e.key] = None ->
         [st EXCEPT !.pending[e.key] = Corrected(@, e)]
    [] OTHER -> Completed(st, e, time)

-----------------------------------------------------------------------------
IsNew(r) == \A s \in store.records : s.id # r.id
Lost(r) == ~(\E s \in store'.records : s.id = r.id)
Since(r) == store'.identities[r.id].expiresAt - Age

(* History lasts as long as the store may rest on it: an identity, or a close.   *)
Lasts(i) ==
  /\ store'.identities[i] # None
  /\ store'.identities[i].key \notin store.closed \ store'.closed
History(starts, ends) ==
  /\ begun' = [k \in Turns |-> IF Lasts(<<"start", k>>) THEN starts[k] ELSE None]
  /\ ended' = [i \in Ids |-> IF Lasts(i) THEN ends[i] ELSE None]

(* An event arrives, as often as the provider sends it, once it happened.      *)
Ingest(e) ==
  /\ e.at <= now /\ ~(\E r \in store.records : r.id = e.id) /\ ~Refused(store, e)
  /\ store' = Ingested(Remembered(store, e, now), e, now)
  /\ told' = told \cup {[key |-> r.key, at |-> r.at, since |-> Since(r)] :
                         r \in {s \in store'.records : IsNew(s) /\ ~s.resolved}}
  /\ History(IF e.type = "start" /\ begun[e.key] = None
             THEN [begun EXCEPT ![e.key] = e.at] ELSE begun,
             IF e.type = "end" /\ (begun[e.key] # None => e.at >= begun[e.key])
                               /\ (ended[e.id] # None => e.at > ended[e.id])
             THEN [ended EXCEPT ![e.id] = e.at] ELSE ended)
  /\ answered' = IF e.type = "resolved" /\ answered[e.key] = None
                 THEN [answered EXCEPT ![e.key] = now] ELSE answered
  /\ gone' = gone \cup {r.key : r \in {s \in store.records : NeedsAttention(s) /\ Lost(s)}}
  /\ UNCHANGED now

(* markUnavailable: the Session is gone, or the record leads nowhere.          *)
MarkUnavailable(r) ==
  /\ r \in store.records /\ ~r.resolved
  /\ store' = Pruned([store EXCEPT
                !.records = {IF s = r THEN [s EXCEPT !.resolved = TRUE] ELSE s : s \in @},
                !.resolved = IF r.type = "ask" THEN @ \cup {r.key} ELSE @], now)
  /\ gone' = gone \cup {r.key}
  /\ History(begun, ended)
  /\ UNCHANGED <<now, told, answered>>

(* Time passes; what is read of the store next prunes it.                     *)
Tick ==
  /\ now < MaxTime /\ now' = now + 1
  /\ store' = Pruned(store, now + 1)
  /\ History(begun, ended)
  /\ UNCHANGED <<told, answered, gone>>

Next == Tick \/ (\E e \in Events : Ingest(e)) \/ (\E r \in store.records : MarkUnavailable(r))
Spec == Init /\ [][Next]_vars

-----------------------------------------------------------------------------
(* Properties.                                                               *)

Entry == [type : {"end", "ask"}, id : Ids, key : Turns \cup Requests, at : Times,
          resolved : BOOLEAN]
Store == [records : SUBSET Entry, starts : [Turns -> Maybe(Times)], pending : [Turns -> Seq(Ends)],
          closed : SUBSET Turns, resolved : SUBSET Requests, identities : [Ids -> Maybe(Heard)]]
(* The types; a turn is either under way, ended ahead of its start, or closed.  *)
TypeOK ==
  /\ now \in Times /\ store \in Store
  /\ begun \in [Turns -> Maybe(Times)] /\ ended \in [Ids -> Maybe(Times)]
  /\ answered \in [Requests -> Maybe(Times)]
  /\ \A k \in store.closed : store.starts[k] = None /\ store.pending[k] = <<>>

(* A turn's end is told once and a request is, however often and in whatever     *)
(* order its events come: again only once what was first heard of it is as old  *)
(* as the store remembers. What was marked unavailable or crowded out is forgotten *)
(* with its record, and excepted.                                             *)
ToldOnce ==
  [][\A r \in told' \ told, t \in told :
       r.key = t.key /\ r.key \notin gone => now >= t.since + Age]_vars

(* A turn whose start and fitting end both arrived, in whatever order, under    *)
(* whatever ids and corrections, is closed.                                    *)
EndIsTold ==
  \A k \in Turns, i \in Ids :
    begun[k] # None /\ ended[i] # None /\ store.identities[i].key = k /\ ended[i] >= begun[k] =>
      k \in store.closed

(* A request that was resolved does not wait, even one that comes after it.     *)
AnsweredIsQuiet ==
  \A r \in store.records :
    NeedsAttention(r) => answered[r.key] = None \/ now >= answered[r.key] + Age

(* However old it is, neither time nor what is told later pushes out a request    *)
(* that waits, but other requests that do.                                     *)
UnansweredStays ==
  [][\A r \in store.records :
       (now' # now \/ told' # told) /\ NeedsAttention(r) /\ Lost(r) =>
         Cardinality({s \in store'.records : NeedsAttention(s)}) = Limit]_vars
=============================================================================
