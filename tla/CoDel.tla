------------------------------- MODULE CoDel -------------------------------
(***************************************************************************)
(* llarp::util::CoDelQueue (llarp/util/codel.hpp): a fixed array m_Queue   *)
(* of MaxSize slots filled from index 0 by Emplace and EmplaceIf under     *)
(* m_QueueMutex, and drained by Process, which hands the items to a        *)
(* visitor in slot order until a filter holds one back, and may drop the   *)
(* last one when the smallest delay it saw exceeds dropMs.                 *)
(*                                                                         *)
(* An item is its id and the time _putTime stamped on it. A slot keeps the *)
(* object last constructed in it; live is the set of slots whose object    *)
(* has not been destroyed. llarp_time_t is unsigned: differences and sums  *)
(* of times are taken modulo TimeMod. The owner's visitor and filter are   *)
(* given by Held, the items the filter returns true for ({} for            *)
(* Process(v), whose filter always returns false).                         *)
(***************************************************************************)
EXTENDS Integers, Sequences, FiniteSets

CONSTANTS
    MaxSize,          \* MaxSize, the array's length
    DropMs,           \* dropMs
    InitialInterval,  \* initialIntervalMs
    TimeMod,          \* 2^64, the range of llarp_time_t
    MaxTime,          \* bound on the clock
    MaxItems,         \* bound on the items the owner makes
    Held              \* the items the filter holds back

VARIABLES
    slots,             \* m_Queue: index -> the item last constructed there
    live,              \* indices of slots holding an undestroyed item
    idx,               \* m_QueueIdx
    firstPut,          \* firstPut
    dropNum,           \* dropNum
    nextTickInterval,  \* nextTickInterval
    nextTickAt,        \* nextTickAt
    now,               \* _getNow()
    made,              \* the items the owner has made
    emplaced,          \* history: the items put in the queue, in order
    visited,           \* history: the items handed to the visitor, in order
    dropped            \* history: the items Process dropped

vars == <<slots, live, idx, firstPut, dropNum, nextTickInterval, nextTickAt,
          now, made, emplaced, visited, dropped>>

Slots == 0 .. MaxSize - 1

\* A default-constructed element of the std::array.
NoItem == [id |-> 0, put |-> 0]

\* llarp_time_t subtraction.
Minus(a, b) == (a - b) % TimeMod

\* std::min.
Lesser(a, b) == IF a < b THEN a ELSE b

\* initialIntervalMs / std::sqrt(n), truncated when added to the interval.
IntervalStep(n) ==
    CHOOSE q \in 0 .. InitialInterval :
        /\ q * q * n <= InitialInterval * InitialInterval
        /\ (q + 1) * (q + 1) * n > InitialInterval * InitialInterval

-----------------------------------------------------------------------------

\* The lines Emplace and EmplaceIf share once the item is constructed at
\* m_Queue[m_QueueIdx]: _putTime stamps it, the first put since the queue
\* was drained sets firstPut, and m_QueueIdx grows.
Put(item) ==
    /\ slots' = [slots EXCEPT ![idx] = item]
    /\ live' = live \cup {idx}
    /\ firstPut' = IF firstPut = 0 THEN item.put ELSE firstPut
    /\ idx' = idx + 1
    /\ emplaced' = Append(emplaced, item.id)

\* The owner makes items while the clock bound leaves room for the tick
\* that drains them.
NewItem ==
    /\ made < MaxItems
    /\ now + InitialInterval <= MaxTime
    /\ made' = made + 1

\* Variant: Emplace without the check for a full queue.
EmplaceNoFullCheck ==
    /\ NewItem
    /\ Put([id |-> made + 1, put |-> now])
    /\ UNCHANGED <<dropNum, nextTickInterval, nextTickAt, now, visited, dropped>>

\* Emplace: a full queue ignores the item.
Emplace ==
    /\ NewItem
    /\ IF idx = MaxSize THEN UNCHANGED <<slots, live, firstPut, idx, emplaced>>
       ELSE Put([id |-> made + 1, put |-> now])
    /\ UNCHANGED <<dropNum, nextTickInterval, nextTickAt, now, visited, dropped>>

\* EmplaceIf: a full queue refuses the item; otherwise it is constructed in
\* the slot and, when pred refuses it, destroyed there unstamped.
EmplaceIf ==
    /\ NewItem
    /\ IF idx = MaxSize THEN UNCHANGED <<slots, live, firstPut, idx, emplaced>>
       ELSE \/ Put([id |-> made + 1, put |-> now])
            \/ /\ slots' = [slots EXCEPT ![idx] = [id |-> made + 1, put |-> 0]]
               /\ live' = live \ {idx}
               /\ UNCHANGED <<firstPut, idx, emplaced>>
    /\ UNCHANGED <<dropNum, nextTickInterval, nextTickAt, now, visited, dropped>>

\* The while loop of Process over its state st: the next index i, the
\* remaining m_QueueIdx n, lowest, the items visited, the slots destroyed,
\* the item dropped, dropNum, nextTickInterval, and whether it returned or
\* broke out (stop). Each pass reads m_Queue[i] (live or not), stops when
\* the filter holds it, else takes its delay from start; on the last item
\* it drops it and backs the interval off when lowest exceeds dropMs, and
\* otherwise resets the interval; a visited item is destroyed.
RECURSIVE Drain(_, _)
Drain(st, start) ==
    IF st.n = 0 \/ st.stop THEN st
    ELSE LET item == slots[st.i]
             n == st.n - 1
             low == Lesser(Minus(start, item.put), st.lowest)
         IN IF item.id \in Held THEN [st EXCEPT !.stop = TRUE]
            ELSE IF n = 0 /\ low > DropMs
            THEN [st EXCEPT !.n = 0, !.dead = @ \cup {st.i}, !.drop = {item.id},
                            !.dropNum = @ + 1,
                            !.nti = @ + IntervalStep(st.dropNum + 1),
                            !.stop = TRUE]
            ELSE Drain([st EXCEPT !.i = @ + 1, !.n = n, !.lowest = low,
                                  !.vis = Append(@, item.id),
                                  !.dead = @ \cup {st.i},
                                  !.nti = IF n = 0 THEN InitialInterval ELSE @,
                                  !.dropNum = IF n = 0 THEN 0 ELSE @], start)

\* Variant: the single-item path leaves m_QueueIdx at 1.
ProcessSingleKeepsIdx ==
    /\ idx = 1
    /\ visited' = Append(visited, slots[0].id)
    /\ live' = live \ {0}
    /\ firstPut' = 0
    /\ UNCHANGED <<idx, dropNum, nextTickInterval, nextTickAt, dropped>>

\* Process with one item queued: visit m_Queue[0], without asking the
\* filter, and empty the queue; nextTickAt is left as it was.
ProcessSingle ==
    /\ idx = 1
    /\ visited' = Append(visited, slots[0].id)
    /\ live' = live \ {0}
    /\ idx' = 0
    /\ firstPut' = 0
    /\ UNCHANGED <<dropNum, nextTickInterval, nextTickAt, dropped>>

\* Process otherwise: run the loop from index 0 with start = firstPut,
\* then reset firstPut and schedule the next tick at start plus the
\* interval (after a break or a drop alike).
ProcessLoop ==
    /\ idx # 1
    /\ LET r == Drain([i |-> 0, n |-> idx, lowest |-> TimeMod - 1,
                       vis |-> <<>>, dead |-> {}, drop |-> {},
                       dropNum |-> dropNum, nti |-> nextTickInterval,
                       stop |-> FALSE], firstPut)
       IN /\ visited' = visited \o r.vis
          /\ dropped' = dropped \cup r.drop
          /\ live' = live \ r.dead
          /\ idx' = r.n
          /\ dropNum' = r.dropNum
          /\ nextTickInterval' = r.nti
          /\ firstPut' = 0
          /\ nextTickAt' = (firstPut + r.nti) % TimeMod

\* Process returns at once before nextTickAt, and otherwise holds the lock
\* for the whole drain.
Process ==
    /\ now >= nextTickAt
    /\ ProcessSingle \/ ProcessLoop
    /\ UNCHANGED <<slots, now, made, emplaced>>

AdvanceClock ==
    /\ now < MaxTime
    /\ now' = now + 1
    /\ UNCHANGED <<slots, live, idx, firstPut, dropNum, nextTickInterval,
                   nextTickAt, made, emplaced, visited, dropped>>

Init ==
    /\ slots = [i \in Slots |-> NoItem]
    /\ live = {}
    /\ idx = 0
    /\ firstPut = 0
    /\ dropNum = 0
    /\ nextTickInterval = InitialInterval
    /\ nextTickAt = 0
    /\ now = 0
    /\ made = 0
    /\ emplaced = <<>>
    /\ visited = <<>>
    /\ dropped = {}

Next == Emplace \/ EmplaceIf \/ Process \/ AdvanceClock

Spec == Init /\ [][Next]_vars

-----------------------------------------------------------------------------

TypeOK ==
    /\ idx \in 0 .. MaxSize
    /\ live \subseteq Slots
    /\ firstPut \in 0 .. TimeMod - 1
    /\ nextTickAt \in 0 .. TimeMod - 1
    /\ dropNum \in 0 .. MaxItems
    /\ made \in 0 .. MaxItems

\* The items in the queue, in slot order.
Queued == [j \in 1 .. idx |-> slots[j - 1].id]

\* Under Process(v), whose filter holds nothing back, the queue is a FIFO
\* that hands every item to the visitor exactly once: at every point, the
\* items visited followed by the items still in slots 0 .. m_QueueIdx-1
\* are exactly the items emplaced and not dropped, in the order Emplace
\* put them, through the single-item path, the loop and the reuse of the
\* slots. (With a filter that breaks the loop it fails: see CoDelFilter.cfg.)
FifoExactlyOnce ==
    visited \o Queued = SelectSeq(emplaced, LAMBDA x : x \notin dropped)

=============================================================================
