---------------------------- MODULE ReorderQueue ----------------------------
(***************************************************************************)
(* The reorder queue of lib/src/reorderqueue.c.                            *)
(*                                                                         *)
(* A ring of Size entries holds the elements that arrived ahead of order.  *)
(* begin is the serial number of the next element to hand out, count the   *)
(* length of the window behind it; the entry of serial number s is slot    *)
(* s mod Size.  The owner pushes elements with serial numbers in any       *)
(* order, pulls them in order, and is given an element back through the    *)
(* drop callback when the queue will not keep it.                          *)
(*                                                                         *)
(* The variables after status are history: they record what the owner saw. *)
(***************************************************************************)
EXTENDS SeqNum, Sequences

CONSTANTS
    Size,           \* QUEUE_SIZE, 1 << size_exp
    SeqStarts,      \* the values seq_num_start may have at init
    DropStrategies, \* the drop strategies the owner may set: "BEGIN", "END"
    Elements,       \* the elements the owner may push, each at most once
    NoElem,         \* the user pointer of an entry never written
    DropIndices,    \* indices the owner may pass to chiaki_reorder_queue_drop
    MaxGiven        \* bound on how often one element is dropped again

ASSUME SizeAssumption ==
    /\ Size \in Nat \ {0, 1}
    /\ Size < SeqHalf
    /\ SeqHalf % Size = 0     \* both are powers of two
    /\ SeqStarts \subseteq SeqNums
    /\ DropStrategies \subseteq {"BEGIN", "END"}
    /\ NoElem \notin Elements
    /\ DropIndices \subseteq Nat
    /\ MaxGiven \in Nat

VARIABLES
    slots,      \* queue->queue
    begin,      \* queue->begin
    count,      \* queue->count
    drop_strategy,
    status,     \* "open", "closed" after fini, "aborted" after a failed assert
    pos,        \* begin without wrapping: how far begin has moved since init
    place,      \* where each element pushed belongs, on the scale of pos
    given,      \* how often the queue gave each element back to its owner
    pulled,     \* what pull returned, in order
    dropped     \* the elements given back by chiaki_reorder_queue_drop

queueVars == <<slots, begin, count, drop_strategy, status>>
history   == <<pos, place, given, pulled, dropped>>
vars      == <<slots, begin, count, drop_strategy, status, pos, place, given, pulled, dropped>>

Indices == 0 .. Size - 1

Entry == [set : BOOLEAN, user : Elements \cup {NoElem}]

(* The idx macro. *)
Idx(s) == s % Size

(* end, total_end: one past the window, one past the largest window. *)
End      == SeqAdd(begin, count)
TotalEnd == SeqAdd(begin, Size)

(* The entry at an index of the window. *)
At(i) == slots[Idx(SeqAdd(begin, i))]

Held(i) == i < count /\ At(i).set

(* What the owner holds when the drop callback or pull hands over users. *)
GiveBack(users) ==
    given' = [e \in Elements |-> IF e \in users THEN given[e] + 1 ELSE given[e]]

-----------------------------------------------------------------------------

Init ==
    /\ slots = [i \in Indices |-> [set |-> FALSE, user |-> NoElem]]
    /\ begin \in SeqStarts
    /\ count = 0
    /\ drop_strategy \in DropStrategies
    /\ status = "open"
    /\ pos = 0
    /\ place = [e \in {} |-> 0]
    /\ given = [e \in Elements |-> 0]
    /\ pulled = <<>>
    /\ dropped = {}

-----------------------------------------------------------------------------
(* chiaki_reorder_queue_push, one action per way through it.               *)

InWindow(s) == SeqGe(s, begin) /\ SeqLt(s, End)

Behind(s) == ~InWindow(s) /\ SeqLt(s, begin)

(* No branch took s and the assertion on what is left holds. *)
Ahead(s) == ~InWindow(s) /\ ~SeqLt(s, begin) /\ SeqGe(s, End)

(* Mutant: the last entry of the ring is never used. *)
Overflows_OneTooFew(s) == SeqLe(TotalEnd, SeqAdd(s, 1))

Overflows(s) == SeqLt(TotalEnd, SeqAdd(s, 1))

(* The loop that moves end to just past s clears each entry it takes in. *)
GrownBy(b, c, s) ==
    LET e == SeqAdd(b, c)
    IN  IF SeqLt(e, SeqAdd(s, 1)) THEN SeqDist(e, SeqAdd(s, 1)) ELSE 0

(* Mutant: an entry taken in keeps the set flag of its former element. *)
Grow_KeepsStale(b, c, s, elem) ==
    /\ begin' = b
    /\ count' = c + GrownBy(b, c, s)
    /\ slots' = [slots EXCEPT ![Idx(s)] = [set |-> TRUE, user |-> elem]]

Grow(b, c, s, elem) ==
    LET n     == GrownBy(b, c, s)
        fresh == {Idx(SeqAdd(b, c + k)) : k \in 0 .. n - 1}
    IN  /\ begin' = b
        /\ count' = c + n
        /\ slots' = [i \in Indices |->
                        IF i = Idx(s) THEN [set |-> TRUE, user |-> elem]
                        ELSE IF i \in fresh THEN [slots[i] EXCEPT !.set = FALSE]
                        ELSE slots[i]]

(* The number s means the one of its occurrences that is nearest to begin. *)
PlaceOf(s) == IF SeqLt(s, begin) THEN pos - SeqDist(s, begin) ELSE pos + SeqDist(begin, s)

Pushing(s, elem) ==
    /\ status = "open"
    /\ elem \notin DOMAIN place
    /\ place' = [e \in DOMAIN place \cup {elem} |-> IF e = elem THEN PlaceOf(s) ELSE place[e]]

(* s is inside the window and its entry is free. *)
PushFill(s, elem) ==
    /\ Pushing(s, elem)
    /\ InWindow(s)
    /\ ~slots[Idx(s)].set
    /\ slots' = [slots EXCEPT ![Idx(s)] = [set |-> TRUE, user |-> elem]]
    /\ UNCHANGED <<begin, count, drop_strategy, status, pos, given, pulled, dropped>>

(* Received twice, too late, or (strategy END) too far ahead: drop_it. *)
PushRefuse(s, elem) ==
    /\ Pushing(s, elem)
    /\ \/ InWindow(s) /\ slots[Idx(s)].set
       \/ Behind(s)
       \/ Ahead(s) /\ Overflows(s) /\ drop_strategy = "END"
    /\ GiveBack({elem})
    /\ UNCHANGED <<queueVars, pos, pulled, dropped>>

(* s lies behind the window and the ring has room up to it. *)
PushExtend(s, elem) ==
    /\ Pushing(s, elem)
    /\ Ahead(s)
    /\ ~Overflows(s)
    /\ Grow(begin, count, s, elem)
    /\ UNCHANGED <<drop_strategy, status, pos, given, pulled, dropped>>

(* Mutant: the elements given up are forgotten without the drop callback. *)
PushSlide_LeaksLost(s, elem) ==
    /\ Pushing(s, elem)
    /\ Ahead(s)
    /\ Overflows(s)
    /\ drop_strategy = "BEGIN"
    /\ LET excess == SeqDist(TotalEnd, SeqAdd(s, 1))
           empty  == excess >= count
           shift  == IF empty THEN SeqDist(begin, s) ELSE excess
       IN  /\ Grow(SeqAdd(begin, shift), IF empty THEN 0 ELSE count - excess, s, elem)
           /\ pos' = pos + shift
    /\ UNCHANGED <<drop_strategy, status, given, pulled, dropped>>

(* Strategy BEGIN: give up the lowest numbers until s fits; an emptied      *)
(* window moves straight to s.                                             *)
PushSlide(s, elem) ==
    /\ Pushing(s, elem)
    /\ Ahead(s)
    /\ Overflows(s)
    /\ drop_strategy = "BEGIN"
    /\ LET excess == SeqDist(TotalEnd, SeqAdd(s, 1))
           empty  == excess >= count
           shift  == IF empty THEN SeqDist(begin, s) ELSE excess
           lost   == {At(i).user : i \in {j \in 0 .. count - 1 : j < excess /\ At(j).set}}
       IN  /\ Grow(SeqAdd(begin, shift), IF empty THEN 0 ELSE count - excess, s, elem)
           /\ GiveBack(lost)
           /\ pos' = pos + shift
    /\ UNCHANGED <<drop_strategy, status, pulled, dropped>>

(* None of the comparisons holds: assert(ge(seq_num, end)) fails. *)
PushAbort(s, elem) ==
    /\ status = "open"
    /\ elem \notin DOMAIN place
    /\ ~InWindow(s)
    /\ ~SeqLt(s, begin)
    /\ ~SeqGe(s, End)
    /\ status' = "aborted"
    /\ UNCHANGED <<slots, begin, count, drop_strategy, history>>

Push(s, elem) ==
    \/ PushFill(s, elem)
    \/ PushRefuse(s, elem)
    \/ PushExtend(s, elem)
    \/ PushSlide(s, elem)
    \/ PushAbort(s, elem)

-----------------------------------------------------------------------------

(* chiaki_reorder_queue_pull, when it returns true. *)
Pull ==
    /\ status = "open"
    /\ count > 0
    /\ At(0).set
    /\ pulled' = Append(pulled, [seq |-> begin, user |-> At(0).user])
    /\ GiveBack({At(0).user})
    /\ begin' = SeqAdd(begin, 1)
    /\ count' = count - 1
    /\ pos' = pos + 1
    /\ UNCHANGED <<slots, drop_strategy, status, place, dropped>>

(* chiaki_reorder_queue_drop: the callback gets the element, and the window *)
(* is cut back over the free entries at its end.  The entry is not cleared, *)
(* so the cut finds the dropped entry still set and removes nothing.       *)
Drop(index) ==
    /\ status = "open"
    /\ index < count
    /\ At(index).set
    /\ given[At(index).user] < MaxGiven
    /\ GiveBack({At(index).user})
    /\ count' = IF index = count - 1
                THEN CHOOSE n \in 0 .. count :
                        /\ n = 0 \/ At(n - 1).set
                        /\ \A m \in n + 1 .. count : ~At(m - 1).set
                ELSE count
    /\ dropped' = dropped \cup {At(index).user}
    /\ UNCHANGED <<slots, begin, drop_strategy, status, pos, place, pulled>>

(* chiaki_reorder_queue_fini: the callback gets every element still held. *)
Fini ==
    /\ status = "open"
    /\ status' = "closed"
    /\ GiveBack({At(i).user : i \in {j \in Indices : Held(j)}})
    /\ UNCHANGED <<slots, begin, count, drop_strategy, pos, place, pulled, dropped>>

Next ==
    \/ \E s \in SeqNums, elem \in Elements : Push(s, elem)
    \/ Pull
    \/ \E index \in DropIndices : Drop(index)
    \/ Fini

Spec == Init /\ [][Next]_vars

-----------------------------------------------------------------------------
(* The state is well typed; the window never exceeds the ring, which the   *)
(* asserts at the top of push and pull and in the loop of push say.        *)
TypeOK ==
    /\ slots \in [Indices -> Entry]
    /\ begin \in SeqNums
    /\ count \in 0 .. Size
    /\ drop_strategy \in {"BEGIN", "END"}
    /\ status \in {"open", "closed", "aborted"}
    /\ pos \in Nat
    /\ DOMAIN place \subseteq Elements
    /\ place \in [DOMAIN place -> Int]
    /\ given \in [Elements -> Nat]
    /\ pulled \in Seq([seq : SeqNums, user : Elements \cup {NoElem}])
    /\ dropped \subseteq Elements

HeldElements ==
    IF status = "closed" THEN {} ELSE {At(i).user : i \in {j \in Indices : Held(j)}}

(* An element pushed is at any time either held at one place or has been   *)
(* given back exactly once, through pull, the drop callback or fini: none  *)
(* is lost in the ring, which would leak its packet, and none comes back   *)
(* twice, which would free it twice.  It says nothing of those that were   *)
(* dropped by index (chiaki_reorder_queue_drop), which do come back again, *)
(* and that they do does the others no harm.                               *)
EachElementOnce ==
    /\ \A e \in Elements \ dropped :
        given[e] = IF e \notin DOMAIN place \/ e \in HeldElements THEN 0 ELSE 1
    /\ \A i, j \in Indices : Held(i) /\ Held(j) /\ i # j => At(i).user # At(j).user

(* An entry set inside the window holds the element pushed with the serial *)
(* number the entry stands for, whatever older entries the ring held.      *)
EntriesMatchSerials ==
    \A i \in Indices : Held(i) =>
        At(i).user \in DOMAIN place /\ place[At(i).user] = pos + i

(* The queue implements OrderedDelivery: with the wrapped numbers unfolded *)
(* around begin, nothing deliverable is refused, skipped or reordered.     *)
OD == INSTANCE OrderedDelivery WITH
        Window <- Size,
        maySkip <- drop_strategy = "BEGIN",
        next <- pos,
        at <- place,
        kept <- HeldElements,
        delivered <- [k \in 1 .. Len(pulled) |-> pulled[k].user],
        closed <- status = "closed"

ImplementsOrderedDelivery == OD!Spec
=============================================================================
