------------------------- MODULE MCPushSubscription -------------------------
(* Two tabs of one device, alike, on a small instance: two clicks or faults, or *)
(* three clicks with nothing failing, the third once every tab is registered.  *)
EXTENDS PushSubscription, TLC
Alike == Permutations(Tab)
Few == \/ clicks + faults <= 2
       \/ faults = 0 /\ \A t \in Tab : tabs[t].ready = "registered"
=============================================================================
