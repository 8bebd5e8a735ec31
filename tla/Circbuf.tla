------------------------------ MODULE Circbuf ------------------------------
(* The lock-free ring of circbuf.h that carries log buffers between a core *)
(* and its logger: enqueuers race for a slot at head_, one dequeuer owns   *)
(* tail_, and other threads peek.  One action per access to shared memory. *)
EXTENDS Integers, Sequences, SequencesExt

CONSTANTS
    Capacity,
    Enqueuers,
    MaxItems      \* bound: the items an enqueuer enqueues

ASSUME CircbufAssumption == Capacity \in Nat \ {0} /\ MaxItems \in Nat

VARIABLES
    buf,          \* the slots
    head, tail,
    epc,          \* where an enqueuer is in enq
    icur,         \* the slot it is after
    sent,         \* how many items it has enqueued
    dpc,          \* where the dequeuer is in deq or peekall
    ps,           \* what peekall has found
    out,          \* what deq has returned so far
    ppc,          \* where another thread is in peek
    ptail,        \* the tail_ it has loaded
    pval,         \* the pointer it has found there
    pout, pfirst  \* when it began: how many deq had returned, what was next

enqueuer == <<epc, icur, sent>>
dequeuer == <<dpc, ps, out>>
peeker == <<ppc, ptail, pval, pout, pfirst>>
vars == <<buf, head, tail, enqueuer, dequeuer, peeker>>

Slots == 0..(Capacity - 1)
Items == Enqueuers \X (1..MaxItems)
Null == <<>>
postincr(i) == (i + 1) % Capacity
Item(e) == <<e, sent[e] + 1>>

(* The items from tail_ on, without the one that deq has already taken.    *)
Filled(n) == \A i \in 0..(n - 1) : buf[(tail + i) % Capacity] # Null
Length == Max({n \in 0..Capacity : Filled(n) /\ (dpc = "clear" => n < Capacity)})
Content == [i \in 1..Length |-> buf[(tail + i - 1) % Capacity]]
First == IF Content = <<>> THEN Null ELSE Content[1]

Init ==
    /\ buf = [i \in Slots |-> Null] /\ head = 0 /\ tail = 0
    /\ epc = [e \in Enqueuers |-> "idle"]
    /\ icur = [e \in Enqueuers |-> 0] /\ sent = [e \in Enqueuers |-> 0]
    /\ dpc = "idle" /\ ps = <<>> /\ out = <<>>
    /\ ppc = "idle" /\ ptail = 0 /\ pval = Null /\ pout = 0 /\ pfirst = Null

-----------------------------------------------------------------------------
(* enq: the slot at head_ must be empty; then head_ is moved, then the slot*)
(* is filled.                                                              *)

EnqLoadHead(e) ==
    /\ epc[e] = "idle" /\ sent[e] < MaxItems
    /\ icur' = [icur EXCEPT ![e] = head]
    /\ epc' = [epc EXCEPT ![e] = "check"]
    /\ UNCHANGED <<buf, head, tail, sent, dequeuer, peeker>>

(* Mutant: the slot is taken to be empty.                                  *)
EnqUnchecked(e) ==
    /\ epc[e] = "check"
    /\ epc' = [epc EXCEPT ![e] = "cas"]
    /\ UNCHANGED <<buf, head, tail, icur, sent, dequeuer, peeker>>

EnqCheck(e) ==
    /\ epc[e] = "check"
    /\ epc' = [epc EXCEPT ![e] = IF buf[icur[e]] = Null THEN "cas" ELSE "idle"]
    /\ UNCHANGED <<buf, head, tail, icur, sent, dequeuer, peeker>>

EnqCas(e) ==
    /\ epc[e] = "cas"
    /\ IF head = icur[e]
       THEN head' = postincr(head) /\ epc' = [epc EXCEPT ![e] = "store"]
       ELSE UNCHANGED head /\ epc' = [epc EXCEPT ![e] = "idle"]
    /\ UNCHANGED <<buf, tail, icur, sent, dequeuer, peeker>>

EnqStore(e) ==
    /\ epc[e] = "store"
    /\ buf' = [buf EXCEPT ![icur[e]] = Item(e)]
    /\ sent' = [sent EXCEPT ![e] = @ + 1]
    /\ epc' = [epc EXCEPT ![e] = "idle"]
    /\ UNCHANGED <<head, tail, icur, dequeuer, peeker>>

-----------------------------------------------------------------------------
(* deq: the item is read, tail_ moves on, and only then the slot is cleared*)

DeqMoveTail ==
    /\ dpc = "idle" /\ buf[tail] # Null
    /\ out' = Append(out, buf[tail])
    /\ tail' = postincr(tail)
    /\ dpc' = "clear" /\ ps' = <<>>
    /\ UNCHANGED <<buf, head, enqueuer, peeker>>

(* Mutant: the slot at the new tail_ is cleared.                           *)
DeqClearNext ==
    /\ dpc = "clear"
    /\ buf' = [buf EXCEPT ![tail] = Null]
    /\ dpc' = "idle"
    /\ UNCHANGED <<head, tail, ps, out, enqueuer, peeker>>

DeqClear ==
    /\ dpc = "clear"
    /\ buf' = [buf EXCEPT ![(tail + Capacity - 1) % Capacity] = Null]
    /\ dpc' = "idle"
    /\ UNCHANGED <<head, tail, ps, out, enqueuer, peeker>>

(* peekall, by the dequeuer: slot after slot until one is empty or it has  *)
(* gone all the way round.                                                 *)
PeekAllBegin ==
    /\ dpc = "idle"
    /\ dpc' = "peekall" /\ ps' = <<>>
    /\ UNCHANGED <<buf, head, tail, out, enqueuer, peeker>>

(* Mutant: an empty slot is stepped over.                                  *)
PeekAllSkip ==
    /\ dpc = "peekall"
    /\ LET p == buf[(tail + Len(ps)) % Capacity]
           p1 == buf[(tail + Len(ps) + 1) % Capacity] IN
       IF p # Null /\ Len(ps) < Capacity
       THEN ps' = Append(ps, p) /\ UNCHANGED dpc
       ELSE IF p1 # Null /\ Len(ps) < Capacity
       THEN ps' = Append(ps, p1) /\ UNCHANGED dpc
       ELSE dpc' = "idle" /\ UNCHANGED ps
    /\ UNCHANGED <<buf, head, tail, out, enqueuer, peeker>>

PeekAllNext ==
    /\ dpc = "peekall"
    /\ LET p == buf[(tail + Len(ps)) % Capacity] IN
       IF p # Null /\ Len(ps) < Capacity
       THEN ps' = Append(ps, p) /\ UNCHANGED dpc
       ELSE dpc' = "idle" /\ UNCHANGED ps
    /\ UNCHANGED <<buf, head, tail, out, enqueuer, peeker>>

-----------------------------------------------------------------------------
(* peek by a thread that is not the dequeuer: the persister looks whether a*)
(* core has anything queued.  tail_ is loaded, then the slot.              *)

PeekLoadTail ==
    /\ ppc = "idle"
    /\ ptail' = tail /\ pout' = Len(out) /\ pfirst' = First
    /\ ppc' = "load"
    /\ UNCHANGED <<buf, head, tail, enqueuer, dequeuer, pval>>

PeekLoadSlot ==
    /\ ppc = "load"
    /\ pval' = buf[ptail]
    /\ ppc' = "found"
    /\ UNCHANGED <<buf, head, tail, enqueuer, dequeuer, ptail, pout, pfirst>>

PeekReturn ==
    /\ ppc = "found"
    /\ ppc' = "idle" /\ ptail' = 0 /\ pval' = Null /\ pout' = 0 /\ pfirst' = Null
    /\ UNCHANGED <<buf, head, tail, enqueuer, dequeuer>>

Enq(e) == EnqLoadHead(e) \/ EnqCheck(e) \/ EnqCas(e) \/ EnqStore(e)
Deq == DeqMoveTail \/ DeqClear \/ PeekAllBegin \/ PeekAllNext
Peek == PeekLoadTail \/ PeekLoadSlot \/ PeekReturn

Next == Deq \/ Peek \/ \E e \in Enqueuers : Enq(e)

Spec == Init /\ [][Next]_vars

-----------------------------------------------------------------------------
(* Properties.                                                             *)

(* With one enqueuer the ring is a bounded queue: nothing is lost, doubled *)
(* or reordered, whatever the dequeuer is in the middle of.                *)
F == INSTANCE Fifo WITH q <- Content
ImplementsFifo == F!Spec

(* What peekall returns to the logger is the front of the queue.           *)
PeekAllIsPrefix == IsPrefix(ps, Content)

(* A peek from outside returns an item that was in the queue at some time *)
(* of the call: not one that was returned by deq before.  If it returns    *)
(* none, the queue was empty when it began, or deq has by now returned the *)
(* item that was next then; it may still miss the items behind, which the  *)
(* persister takes for an idle core (txn_ic3_impl.cc:168).                 *)
Returned(x, n) == \E i \in 1..n : out[i] = x
PeekIsTimely ==
    ppc = "found" =>
        IF pval = Null THEN pfirst = Null \/ Returned(pfirst, Len(out))
        ELSE ~Returned(pval, pout)
=============================================================================
