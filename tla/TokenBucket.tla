---------------------------- MODULE TokenBucket ----------------------------
(***************************************************************************)
(* What a bandwidth limiter promises: a bucket of Burst tokens that gains  *)
(* one token with every unit of time, never holds more than Burst and is   *)
(* never overdrawn.  Tokens are spent, or borrowed: a borrower settles     *)
(* its loan once, and only what it did not use comes back.  So in any      *)
(* stretch of t units at most Burst + t tokens are used beyond the loans   *)
(* that were open when it began.                                           *)
(***************************************************************************)
EXTENDS Naturals

CONSTANTS Burst, Borrowers

VARIABLES
    level,  \* the tokens in the bucket
    loan    \* loan[u]: the tokens that borrower u has yet to account for

Refill(n) == IF level + n < Burst THEN level + n ELSE Burst

Tick ==
    /\ level' = Refill(1)
    /\ UNCHANGED loan

Spend ==
    /\ \E n \in 1..Burst : level >= n /\ level' = level - n
    /\ UNCHANGED loan

Borrow(u) ==
    /\ loan[u] = 0
    /\ \E n \in 1..Burst : /\ level >= n
                           /\ level' = level - n
                           /\ loan' = [loan EXCEPT ![u] = n]

\* n tokens of the loan were not used.
Settle(u) ==
    /\ loan[u] > 0
    /\ \E n \in 0..loan[u] : level' = Refill(n)
    /\ loan' = [loan EXCEPT ![u] = 0]

Start == level = Burst /\ loan = [u \in Borrowers |-> 0]
Step == Tick \/ Spend \/ \E u \in Borrowers : Borrow(u) \/ Settle(u)

Spec == Start /\ [][Step]_<<level, loan>>
=============================================================================
