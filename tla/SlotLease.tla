----------------------------- MODULE SlotLease -----------------------------
(***************************************************************************)
(* What the server promises about the slots of its tunnels, without saying *)
(* how: a name has one owner at a time, a port is leased under one name,   *)
(* of which it is the only port, and both change hands only by what their  *)
(* owner does.  A name with a port is not given up, and whoever is gone    *)
(* changes nothing any more.                                               *)
(***************************************************************************)
CONSTANTS Holders, SlotNames, Ports, Nobody, NoLease

VARIABLES
    owner,   \* owner[n]: who has the name
    lease,   \* lease[k]: the name that port k is leased under
    here     \* here[h]: h is not gone

state == <<owner, lease, here>>

Start ==
    /\ owner = [n \in SlotNames |-> Nobody]
    /\ lease = [k \in Ports |-> NoLease]
    /\ here = [h \in Holders |-> TRUE]

Unleased(n) == \A k \in Ports : lease[k] # n

Claim(h, n) ==
    /\ owner[n] = Nobody
    /\ owner' = [owner EXCEPT ![n] = h]
    /\ UNCHANGED <<lease, here>>

Assign(h, n, k) ==
    /\ owner[n] = h
    /\ lease[k] = NoLease /\ Unleased(n)
    /\ lease' = [lease EXCEPT ![k] = n]
    /\ UNCHANGED <<owner, here>>

Free(h, n, k) ==
    /\ owner[n] = h
    /\ lease[k] = n
    /\ lease' = [lease EXCEPT ![k] = NoLease]
    /\ UNCHANGED <<owner, here>>

Yield(h, n) ==
    /\ owner[n] = h
    /\ Unleased(n)
    /\ owner' = [owner EXCEPT ![n] = Nobody]
    /\ UNCHANGED <<lease, here>>

\* h may leave names and ports behind: nobody will give them up.
Leave(h) ==
    /\ here' = [here EXCEPT ![h] = FALSE]
    /\ UNCHANGED <<owner, lease>>

Act(h) ==
    /\ here[h]
    /\ \/ Leave(h)
       \/ \E n \in SlotNames : Claim(h, n) \/ Yield(h, n)
       \/ \E n \in SlotNames, k \in Ports : Assign(h, n, k) \/ Free(h, n, k)

Step == \E h \in Holders : Act(h)

Spec == Start /\ [][Step]_state
=============================================================================
