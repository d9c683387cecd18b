-------------------------- MODULE OrderedDelivery --------------------------
(***************************************************************************)
(* What a reorder queue promises its owner, with positions that never wrap *)
(* and no ring.                                                            *)
(*                                                                         *)
(* Elements are offered at positions in any order and delivered by rising  *)
(* position without a gap.  An element is kept when its position is free   *)
(* and less than Window ahead of the next delivery; otherwise it is handed *)
(* back.  A queue that may skip answers an offer too far ahead by moving on *)
(* and handing back what it gave up; one that may not hands the offer back.*)
(***************************************************************************)
EXTENDS Integers, Sequences

CONSTANTS
    Window,     \* how far ahead of the next delivery an element may be kept
    Elements

VARIABLES
    maySkip,    \* TRUE or FALSE, from the start
    next,       \* position of the next delivery
    at,         \* the position of every element offered so far
    kept,       \* the elements kept for later
    delivered,  \* the elements delivered, in order
    closed

vars == <<maySkip, next, at, kept, delivered, closed>>

Taken == {at[e] : e \in kept}

(* e comes for the first time, at the position at'[e], which may be any. *)
Offer(e) ==
    /\ ~closed
    /\ e \notin DOMAIN at
    /\ at' \in [DOMAIN at \cup {e} -> Int]
    /\ \A x \in DOMAIN at : at'[x] = at[x]

Init ==
    /\ maySkip \in BOOLEAN
    /\ next = 0
    /\ at = [e \in {} |-> 0]
    /\ kept = {}
    /\ delivered = <<>>
    /\ closed = FALSE

Keep(e) ==
    /\ Offer(e)
    /\ at'[e] \in next .. next + Window - 1
    /\ at'[e] \notin Taken
    /\ kept' = kept \cup {e}
    /\ UNCHANGED <<maySkip, next, delivered, closed>>

Refuse(e) ==
    /\ Offer(e)
    /\ \/ at'[e] < next
       \/ at'[e] \in Taken
       \/ at'[e] >= next + Window /\ ~maySkip
    /\ UNCHANGED <<maySkip, next, kept, delivered, closed>>

(* Move on, far enough for e to be kept and no further than its position. *)
Skip(e) ==
    /\ Offer(e)
    /\ maySkip
    /\ at'[e] >= next + Window
    /\ next' \in at'[e] + 1 - Window .. at'[e]
    /\ kept' = {x \in kept : at[x] >= next'} \cup {e}
    /\ UNCHANGED <<maySkip, delivered, closed>>

Deliver(e) ==
    /\ ~closed
    /\ e \in kept
    /\ at[e] = next
    /\ delivered' = Append(delivered, e)
    /\ kept' = kept \ {e}
    /\ next' = next + 1
    /\ UNCHANGED <<maySkip, at, closed>>

Close ==
    /\ ~closed
    /\ closed' = TRUE
    /\ kept' = {}
    /\ UNCHANGED <<maySkip, next, at, delivered>>

Next == Close \/ \E e \in Elements : Keep(e) \/ Refuse(e) \/ Skip(e) \/ Deliver(e)

Spec == Init /\ [][Next]_vars
=============================================================================
