--------------------------- MODULE DeliveryLeader ---------------------------
(***************************************************************************)
(* The lease by which the tabs of one browser elect the one that raises OS *)
(* alerts, where Web Locks are missing (delivery-leader.ts).  The lease is *)
(* one item of local storage; a tab reads it and writes it back in two     *)
(* steps, and the steps of another tab may come between them.              *)
(*                                                                         *)
(* Time is counted in heartbeats, of which a lease lasts Lease.  A tab     *)
(* looks at the lease at most once in each, and a read and the write it    *)
(* decides on, as the delivery that follows a yes, fit in one.  A tab in   *)
(* Throttled may miss heartbeats at the browser's will.                    *)
(***************************************************************************)
EXTENDS Integers

CONSTANTS
  Id,         \* one for each start of a tab's candidacy
  None,       \* the id in no lease
  Lease,      \* heartbeats a lease lasts
  Throttled,  \* the tabs whose timers the browser delays
  MaxRefusals \* bounds the reads and writes the storage refuses

ASSUME LeaderAssumption ==
  /\ Lease \in Nat \ {0}
  /\ MaxRefusals \in Nat
  /\ Throttled \subseteq Id /\ None \notin Id

Doing == {"rest", "renew", "claim", "keep", "yield"}
Life  == {"new", "active", "gone"}

VARIABLES
  lease,    \* the stored item: whose it is, and the heartbeats it has left
  life,     \* whether the candidacy has started, and ended
  leads,    \* #leader
  missed,   \* heartbeats since a tab last looked
  doing,    \* what a tab read the lease for and has not written yet
  acting,   \* isLeader() said yes, and what was asked for it is under way
  refusals  \* reads and writes the storage refused

leaseVars == <<lease, life, leads, missed, doing, acting, refusals>>

NoLease == [id |-> None, left |-> 0]

Own(i) == [id |-> i, left |-> Lease]

LeaseInit ==
  /\ lease = NoLease
  /\ life = [i \in Id |-> "new"]
  /\ leads = [i \in Id |-> FALSE]
  /\ missed = [i \in Id |-> 0]
  /\ doing = [i \in Id |-> "rest"]
  /\ acting = [i \in Id |-> FALSE]
  /\ refusals = 0
-----------------------------------------------------------------------------
Free(i) == doing[i] = "rest" /\ ~acting[i]

(* A lease that is missing or ran out is anyone's to claim.                *)
LapsedByName(l) == l.id = None
Lapsed(l) == l.left = 0

(* tick, up to its write: the lease is one's own, or another's that ran    *)
(* out, or another's that holds.                                           *)
Look(i) ==
  /\ missed' = [missed EXCEPT ![i] = 0]
  /\ \/ /\ lease.id = i
        /\ doing' = [doing EXCEPT ![i] = "renew"]
        /\ UNCHANGED leads
     \/ /\ lease.id # i
        /\ leads' = [leads EXCEPT ![i] = FALSE]
        /\ doing' = [doing EXCEPT ![i] = IF Lapsed(lease) THEN "claim" ELSE "rest"]
  /\ UNCHANGED <<lease, acting, refusals>>

Start(i) ==
  /\ life[i] = "new"
  /\ life' = [life EXCEPT ![i] = "active"]
  /\ Look(i)

Tick(i) ==
  /\ life[i] = "active" /\ Free(i) /\ missed[i] > 0
  /\ Look(i)
  /\ UNCHANGED life

(* Only a lease found to be one's own makes a leader.                      *)
SettlesAtOnce(what) == what \in {"renew", "claim"}
Settles(what) == what = "renew"

Write(i) ==
  /\ doing[i] \in {"renew", "claim"}
  /\ lease' = Own(i)
  /\ leads' = [leads EXCEPT ![i] = leads[i] \/ Settles(doing[i])]
  /\ doing' = [doing EXCEPT ![i] = "rest"]
  /\ UNCHANGED <<life, missed, acting, refusals>>

(* A successor's identity in the lease fences a leader that slept.         *)
TrustsItself(i) == leads[i]
Fenced(i) == leads[i] /\ lease.id = i

(* isLeader: a leader keeps a lease of its own that ran out.               *)
Ask(i) ==
  /\ life[i] = "active" /\ Free(i) /\ Fenced(i)
  /\ IF Lapsed(lease)
     THEN doing' = [doing EXCEPT ![i] = "keep"] /\ UNCHANGED acting
     ELSE acting' = [acting EXCEPT ![i] = TRUE] /\ UNCHANGED doing
  /\ UNCHANGED <<lease, life, leads, missed, refusals>>

Keep(i) ==
  /\ doing[i] = "keep"
  /\ lease' = Own(i)
  /\ doing' = [doing EXCEPT ![i] = "rest"]
  /\ acting' = [acting EXCEPT ![i] = TRUE]
  /\ UNCHANGED <<life, leads, missed, refusals>>

Acted(i) ==
  /\ acting[i]
  /\ acting' = [acting EXCEPT ![i] = FALSE]
  /\ UNCHANGED <<lease, life, leads, missed, doing, refusals>>

(* The storage may refuse any read or write.                               *)
Blocked(i) ==
  /\ refusals < MaxRefusals
  /\ refusals' = refusals + 1
  /\ life[i] = "active" /\ ~acting[i] /\ (doing[i] # "rest" \/ missed[i] > 0)
  /\ doing' = [doing EXCEPT ![i] = "rest"]
  /\ leads' = [leads EXCEPT ![i] = leads[i] /\ doing[i] = "keep"]
  /\ missed' = [missed EXCEPT ![i] = IF doing[i] = "keep" THEN missed[i] ELSE 0]
  /\ UNCHANGED <<lease, life, acting>>

Stop(i) ==
  /\ life[i] = "active" /\ Free(i)
  /\ life' = [life EXCEPT ![i] = "gone"]
  /\ leads' = [leads EXCEPT ![i] = FALSE]
  /\ doing' = [doing EXCEPT ![i] = IF lease.id = i THEN "yield" ELSE "rest"]
  /\ UNCHANGED <<lease, missed, acting, refusals>>

Yield(i) ==
  /\ doing[i] = "yield"
  /\ lease' = NoLease
  /\ doing' = [doing EXCEPT ![i] = "rest"]
  /\ UNCHANGED <<life, leads, missed, acting, refusals>>

(* A tab killed at any point leaves its lease behind.                      *)
Crash(i) ==
  /\ life[i] # "new"
  /\ life' = [life EXCEPT ![i] = "gone"]
  /\ leads' = [leads EXCEPT ![i] = FALSE]
  /\ doing' = [doing EXCEPT ![i] = "rest"]
  /\ acting' = [acting EXCEPT ![i] = FALSE]
  /\ UNCHANGED <<lease, missed, refusals>>

Beat ==
  /\ \A i \in Id : Free(i)
  /\ \A i \in Id \ Throttled : life[i] = "active" => missed[i] = 0
  /\ lease' = [lease EXCEPT !.left = IF lease.left = 0 THEN 0 ELSE lease.left - 1]
  /\ missed' = [i \in Id |-> IF life[i] = "active" THEN 1 ELSE missed[i]]
  /\ UNCHANGED <<life, leads, doing, acting, refusals>>
-----------------------------------------------------------------------------
LeaseNext ==
  \/ \E i \in Id : Start(i) \/ Tick(i) \/ Write(i) \/ Ask(i) \/ Keep(i)
                     \/ Acted(i) \/ Blocked(i) \/ Stop(i) \/ Yield(i) \/ Crash(i)
  \/ Beat

LeaseSpec == LeaseInit /\ [][LeaseNext]_leaseVars

(* The event loop runs a due timer, and what it began, to its end.         *)
LeaseFairness ==
  /\ \A i \in Id : /\ WF_leaseVars(Tick(i)) /\ WF_leaseVars(Write(i)) /\ WF_leaseVars(Keep(i))
                   /\ WF_leaseVars(Acted(i)) /\ WF_leaseVars(Yield(i))
  /\ WF_leaseVars(Beat)

LeaseFairSpec == LeaseSpec /\ LeaseFairness
-----------------------------------------------------------------------------
(* Every variable keeps its type.                                          *)
LeaseTypeOK ==
  /\ lease \in [id : Id \cup {None}, left : 0..Lease]
  /\ life \in [Id -> Life]
  /\ leads \in [Id -> BOOLEAN]
  /\ missed \in [Id -> 0..1]
  /\ doing \in [Id -> Doing]
  /\ acting \in [Id -> BOOLEAN]
  /\ refusals \in 0..MaxRefusals

(* No two tabs deliver at once, though a leader may sleep past its lease   *)
(* and a claim may cross a renewal: contenders settle for a heartbeat      *)
(* (delivery-leader.ts:63) and a successor's identity fences (:94).        *)
OneActs == \A i, j \in Id : acting[i] /\ acting[j] => i = j

(* The candidacies implement a leadership that one tab holds at a time and *)
(* that passes to another only through nobody.                             *)
Elected == INSTANCE Leadership WITH held <- {i \in Id : Fenced(i)}
HoldsOneByOne == Elected!Spec

(* While a tab is up, a tab comes to lead: a crash, a lost race or a       *)
(* throttled owner delays the delivery of alerts but never ends it.        *)
LeaderComes ==
  (\E i \in Id : life[i] = "active")
    ~> ((\E i \in Id : Fenced(i)) \/ (\A i \in Id : life[i] # "active"))
=============================================================================
