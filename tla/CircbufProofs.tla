--------------------------- MODULE CircbufProofs ---------------------------
(* Proofs about Circbuf, for every capacity and number of items: with one  *)
(* enqueuer the ring is a bounded queue, peekall reads its front, and what *)
(* a peek from outside returns is not out of date.                         *)
EXTENDS Circbuf, TLAPS

-----------------------------------------------------------------------------
(* Indices: the slot i places after a, going round at most once.           *)

Slot(a, i) == IF a + i < Capacity THEN a + i ELSE a + i - Capacity

LEMMA ModSlot ==
    ASSUME NEW a \in Slots, NEW i \in 0..Capacity
    PROVE  /\ (a + i) % Capacity = Slot(a, i)
           /\ Slot(a, i) \in Slots
<1> USE CircbufAssumption
<1>1. CASE a + i < Capacity
  <2>1. (a + i) % Capacity = a + i
    BY <1>1, SMTT(30) DEF Slots
  <2> QED
    BY <1>1, <2>1 DEF Slots, Slot
<1>2. CASE a + i >= Capacity
  <2>1. a + i - Capacity \in 0..Capacity
    BY <1>2 DEF Slots
  <2>2. (a + i) % Capacity = a + i - Capacity
    BY <1>2, SMTT(30) DEF Slots
  <2> QED
    BY <1>2, <2>1, <2>2 DEF Slots, Slot
<1> QED
  BY <1>1, <1>2 DEF Slots

(* The slots b of a ring with n items from tail t on: these are filled, and*)
(* behind them only the slot that deq, if d says so, has yet to clear.     *)
RingOf(b, t, d, n) ==
    /\ d = "clear" => n < Capacity
    /\ \A i \in Slots : b[Slot(t, i)] # Null <=> i < n \/ (d = "clear" /\ i = Capacity - 1)
QueueOf(b, t, n) == [i \in 1..n |-> b[Slot(t, i - 1)]]

(* Then n is the length of the content, and QueueOf the content.           *)
LEMMA LengthOf ==
    ASSUME NEW b, NEW t \in Slots, NEW d, NEW n \in 0..Capacity, RingOf(b, t, d, n)
    PROVE  Max({m \in 0..Capacity : /\ \A i \in 0..(m - 1) : b[(t + i) % Capacity] # Null
                                    /\ d = "clear" => m < Capacity}) = n
<1> USE CircbufAssumption
<1> DEFINE S == {m \in 0..Capacity : /\ \A i \in 0..(m - 1) : b[(t + i) % Capacity] # Null
                                     /\ d = "clear" => m < Capacity}
<1>1. n \in S
  <2>1. ASSUME NEW i \in 0..(n - 1) PROVE b[(t + i) % Capacity] # Null
    <3>1. i \in Slots /\ i \in 0..Capacity /\ i < n
      BY DEF Slots
    <3> QED
      BY <3>1, ModSlot DEF RingOf
  <2> QED
    BY <2>1 DEF RingOf
<1>2. ASSUME NEW m \in S PROVE n >= m
  <2> SUFFICES ASSUME m > n PROVE FALSE
    BY <1>2
  <2>1. n \in Slots /\ n \in 0..(m - 1) /\ n \in 0..Capacity
    BY <1>2 DEF Slots
  <2>2. b[Slot(t, n)] # Null
    BY <1>2, <2>1, ModSlot
  <2>3. d = "clear" /\ n = Capacity - 1
    BY <2>1, <2>2 DEF RingOf
  <2> QED
    BY <1>2, <2>3
<1>3. S \subseteq Nat
  OBVIOUS
<1>4. \A x \in S : (\A y \in S : x >= y) => x = n
  BY <1>1, <1>2, <1>3
<1>5. Max(S) = n
  BY <1>1, <1>2, <1>4 DEF Max
<1> QED
  BY <1>5

LEMMA QueueAt ==
    ASSUME NEW b, NEW t \in Slots, NEW n \in 0..Capacity
    PROVE  [i \in 1..n |-> b[(t + i - 1) % Capacity]] = QueueOf(b, t, n)
<1> SUFFICES ASSUME NEW i \in 1..n
             PROVE  b[(t + i - 1) % Capacity] = b[Slot(t, i - 1)]
  BY DEF QueueOf
<1>1. i - 1 \in 0..Capacity /\ t + i - 1 = t + (i - 1)
  BY CircbufAssumption DEF Slots
<1> QED
  BY <1>1, ModSlot

LEMMA ContentNow ==
    ASSUME tail \in Slots, NEW n \in 0..Capacity, RingOf(buf, tail, dpc, n)
    PROVE  Content = QueueOf(buf, tail, n)
<1>1. Length = n
  BY LengthOf DEF Length, Filled
<1> QED
  BY <1>1, QueueAt DEF Content

LEMMA ContentNext ==
    ASSUME tail' \in Slots, NEW n \in 0..Capacity, RingOf(buf', tail', dpc', n)
    PROVE  Content' = QueueOf(buf', tail', n)
<1>1. Length' = n
  BY LengthOf DEF Length, Filled
<1> QED
  BY <1>1, QueueAt DEF Content

LEMMA ContentFrame ==
    ASSUME UNCHANGED <<buf, tail>>, (dpc' = "clear") <=> (dpc = "clear")
    PROVE  Content' = Content
<1> DEFINE S(d) == {m \in 0..Capacity : /\ \A i \in 0..(m - 1) : buf[(tail + i) % Capacity] # Null
                                        /\ d => m < Capacity}
<1>1. Length = Max(S(dpc = "clear"))
  BY DEF Length, Filled
<1>2. Length' = Max(S(dpc' = "clear"))
  BY DEF Length, Filled
<1>3. S(dpc = "clear") = S(dpc' = "clear")
  OBVIOUS
<1>4. Length' = Length
  BY <1>1, <1>2, <1>3
<1> QED
  BY <1>4 DEF Content

(* An empty slot at tail_ means an empty ring.                             *)
LEMMA EmptyAtNull ==
    ASSUME tail \in Slots, buf[tail] = Null
    PROVE  Content = <<>>
<1> USE CircbufAssumption
<1> DEFINE S == {m \in 0..Capacity : Filled(m) /\ (dpc = "clear" => m < Capacity)}
<1>1. 0 \in S
  BY DEF Filled
<1>2. ASSUME NEW m \in S PROVE m = 0
  <2> SUFFICES ASSUME m > 0 PROVE FALSE
    BY <1>2
  <2>1. 0 \in 0..(m - 1) /\ 0 \in 0..Capacity
    BY <1>2
  <2>2. (tail + 0) % Capacity = tail
    <3>1. (tail + 0) % Capacity = Slot(tail, 0)
      BY ModSlot, <2>1
    <3>2. Slot(tail, 0) = tail
      BY DEF Slots, Slot
    <3> QED
      BY <3>1, <3>2
  <2> QED
    BY <1>2, <2>1, <2>2 DEF Filled
<1>3. S = {0}
  BY <1>1, <1>2
<1>4. Max({0}) = 0
  BY DEF Max
<1>5. Length = 0
  BY <1>3, <1>4 DEF Length
<1> QED
  BY <1>5 DEF Content

-----------------------------------------------------------------------------
(* Types: what each variable holds, and that an enqueuer that is in enq has*)
(* an item left to enqueue.                                                *)
EnqWhere == {"idle", "check", "cas", "store"}
CircTypeOK ==
    /\ buf \in [Slots -> Items \cup {Null}]
    /\ head \in Slots /\ tail \in Slots
    /\ epc \in [Enqueuers -> EnqWhere]
    /\ icur \in [Enqueuers -> Slots] /\ sent \in [Enqueuers -> 0..MaxItems]
    /\ \A e \in Enqueuers : epc[e] # "idle" => sent[e] < MaxItems
    /\ dpc \in {"idle", "clear", "peekall"}
    /\ ps \in Seq(Items) /\ out \in Seq(Items)
    /\ ppc \in {"idle", "load", "found"}
    /\ ptail \in Slots /\ pval \in Items \cup {Null} /\ pout \in Nat

LEMMA ItemNotNull ==
    ASSUME NEW x \in Items PROVE x # Null
BY DEF Items, Null

LEMMA ItemOf ==
    ASSUME CircTypeOK, NEW e \in Enqueuers, epc[e] # "idle"
    PROVE  Item(e) \in Items
<1>1. sent[e] + 1 \in 1..MaxItems
  BY CircbufAssumption DEF CircTypeOK
<1> QED
  BY <1>1 DEF Item, Items

LEMMA PostIncr ==
    ASSUME NEW a \in Slots
    PROVE  postincr(a) = Slot(a, 1) /\ Slot(a, 1) \in Slots
<1>1. 1 \in 0..Capacity
  BY CircbufAssumption
<1> QED
  BY <1>1, ModSlot DEF postincr

LEMMA BeforeTail ==
    ASSUME NEW a \in Slots
    PROVE  (a + Capacity - 1) % Capacity = Slot(a, Capacity - 1) /\ Slot(a, Capacity - 1) \in Slots
<1>1. Capacity - 1 \in 0..Capacity /\ a + Capacity - 1 = a + (Capacity - 1)
  BY CircbufAssumption DEF Slots
<1> QED
  BY <1>1, ModSlot

LEMMA TypeInit == Init => CircTypeOK
<1> SUFFICES ASSUME Init PROVE CircTypeOK
  OBVIOUS
<1>1. 0 \in Slots /\ 0 \in 0..MaxItems
  BY CircbufAssumption DEF Slots
<1>2. buf \in [Slots -> Items \cup {Null}]
  BY DEF Init
<1>3. ps \in Seq(Items) /\ out \in Seq(Items)
  BY DEF Init
<1>4. /\ epc \in [Enqueuers -> EnqWhere]
      /\ \A e \in Enqueuers : epc[e] = "idle"
  BY DEF Init, EnqWhere
<1>5. icur \in [Enqueuers -> Slots] /\ sent \in [Enqueuers -> 0..MaxItems]
  BY <1>1 DEF Init
<1> QED
  BY <1>1, <1>2, <1>3, <1>4, <1>5 DEF Init, CircTypeOK

LEMMA TypeNext == CircTypeOK /\ [Next]_vars => CircTypeOK'
<1> SUFFICES ASSUME CircTypeOK, [Next]_vars PROVE CircTypeOK'
  OBVIOUS
<1> USE DEF CircTypeOK
<1>1. ASSUME NEW e \in Enqueuers, EnqLoadHead(e) PROVE CircTypeOK'
  BY <1>1 DEF EnqLoadHead, EnqWhere, dequeuer, peeker
<1>2. ASSUME NEW e \in Enqueuers, EnqCheck(e) PROVE CircTypeOK'
  BY <1>2 DEF EnqCheck, EnqWhere, dequeuer, peeker
<1>3. ASSUME NEW e \in Enqueuers, EnqCas(e) PROVE CircTypeOK'
  BY <1>3, PostIncr DEF EnqCas, EnqWhere, dequeuer, peeker
<1>4. ASSUME NEW e \in Enqueuers, EnqStore(e) PROVE CircTypeOK'
  <2>1. Item(e) \in Items
    BY <1>4, ItemOf DEF EnqStore
  <2>2. buf' \in [Slots -> Items \cup {Null}]
    BY <1>4, <2>1 DEF EnqStore
  <2>3. sent' \in [Enqueuers -> 0..MaxItems]
    <3>1. sent[e] + 1 \in 0..MaxItems
      BY <1>4, CircbufAssumption DEF EnqStore
    <3> QED
      BY <1>4, <3>1 DEF EnqStore
  <2>4. epc' \in [Enqueuers -> EnqWhere]
        /\ \A f \in Enqueuers : epc'[f] # "idle" => sent'[f] < MaxItems
    BY <1>4 DEF EnqStore, EnqWhere
  <2> QED
    BY <1>4, <2>2, <2>3, <2>4 DEF EnqStore, dequeuer, peeker
<1>5. CASE DeqMoveTail
  <2>1. buf[tail] \in Items
    BY <1>5 DEF DeqMoveTail
  <2>2. out' \in Seq(Items)
    BY <1>5, <2>1 DEF DeqMoveTail
  <2> QED
    BY <1>5, <2>2, PostIncr DEF DeqMoveTail, enqueuer, peeker
<1>6. CASE DeqClear
  <2>1. buf' \in [Slots -> Items \cup {Null}]
    BY <1>6 DEF DeqClear
  <2> QED
    BY <1>6, <2>1 DEF DeqClear, enqueuer, peeker
<1>7. CASE PeekAllBegin
  BY <1>7 DEF PeekAllBegin, enqueuer, peeker
<1>8. CASE PeekAllNext
  <2> DEFINE p == buf[(tail + Len(ps)) % Capacity]
  <2>1. ps' \in Seq(Items) /\ dpc' \in {"idle", "peekall"}
    <3>1. CASE p # Null /\ Len(ps) < Capacity
      <4>1. Len(ps) \in 0..Capacity
        BY <3>1, CircbufAssumption
      <4>2. p \in Items
        BY <3>1, <4>1, ModSlot
      <4>3. Append(ps, p) \in Seq(Items)
        BY <4>2
      <4>4. ps' = Append(ps, p) /\ dpc' = dpc /\ dpc = "peekall"
        BY <1>8, <3>1 DEF PeekAllNext
      <4> QED
        BY <4>3, <4>4
    <3> QED
      BY <1>8, <3>1 DEF PeekAllNext
  <2> QED
    BY <1>8, <2>1 DEF PeekAllNext, enqueuer, peeker
<1>9. CASE PeekLoadTail
  BY <1>9 DEF PeekLoadTail, enqueuer, dequeuer
<1>10. CASE PeekLoadSlot
  BY <1>10 DEF PeekLoadSlot, enqueuer, dequeuer
<1>11. CASE PeekReturn
  <2>1. 0 \in Slots
    BY CircbufAssumption DEF Slots
  <2> QED
    BY <1>11, <2>1 DEF PeekReturn, enqueuer, dequeuer
<1>12. CASE UNCHANGED vars
  BY <1>12 DEF vars, enqueuer, dequeuer, peeker
<1> QED
  BY <1>1, <1>2, <1>3, <1>4, <1>5, <1>6, <1>7, <1>8, <1>9, <1>10, <1>11, <1>12
     DEF Next, Enq, Deq, Peek

(* Indices stay in the ring, and only items go through it.                 *)
THEOREM CircTypeCorrect == Spec => []CircTypeOK
<1> QED
  BY TypeInit, TypeNext, PTL DEF Spec

-----------------------------------------------------------------------------
(* One enqueuer, as the logger uses the ring: a core fills its own.  The   *)
(* inductive invariant says where head_ is: right behind the items, or one *)
(* further between the cas and the store, and that the slot the enqueuer   *)
(* found empty is still empty when it fills it; and it numbers the items,  *)
(* in the order in which they go through the ring.                         *)
OneEnqueuer == \E e : Enqueuers = {e}

EnqOf(e, n) ==
    /\ head = IF epc[e] = "store" THEN Slot(tail, n + 1) ELSE Slot(tail, n)
    /\ epc[e] \in {"check", "cas"} => icur[e] = head
    /\ epc[e] = "cas" => buf[icur[e]] = Null
    /\ epc[e] = "store" => icur[e] = Slot(tail, n) /\ buf[icur[e]] = Null
(* Of the slots b from tail t on, n are queued behind k that were returned.*)
NumberedOf(b, t, n, k) ==
    \A i \in Slots : b[Slot(t, i)] # Null =>
        b[Slot(t, i)][2] = IF i < n THEN k + i + 1 ELSE k
Numbered(n) ==
    /\ \A e \in Enqueuers : sent[e] = Len(out) + n
    /\ \A i \in 1..Len(out) : out[i][2] = i
    /\ NumberedOf(buf, tail, n, Len(out))
RingInv ==
    \E n \in 0..Capacity :
        /\ RingOf(buf, tail, dpc, n) /\ Numbered(n)
        /\ \A e \in Enqueuers : EnqOf(e, n)
(* What peekall has found is still there: the dequeuer itself moves tail_. *)
Found ==
    /\ Len(ps) <= Capacity
    /\ dpc = "clear" => ps = <<>>
    /\ \A i \in 1..Len(ps) : ps[i] = buf[Slot(tail, i - 1)] /\ ps[i] # Null

(* How the slots change: the slot behind the items is empty only if there  *)
(* is room; an item is stored; tail_ moves; the slot behind it is cleared. *)
LEMMA RoomFor ==
    ASSUME NEW b, NEW t \in Slots, NEW d, NEW n \in 0..Capacity, RingOf(b, t, d, n),
           b[Slot(t, n)] = Null
    PROVE  n < Capacity /\ (d = "clear" => n + 1 < Capacity)
<1> USE CircbufAssumption
<1>1. n < Capacity
  <2> SUFFICES ASSUME n = Capacity PROVE FALSE
    OBVIOUS
  <2>1. Slot(t, n) = Slot(t, 0) /\ 0 \in Slots /\ 0 < n
    BY DEF Slot, Slots
  <2> QED
    BY <2>1 DEF RingOf
<1>2. n \in Slots
  BY <1>1 DEF Slots
<1> QED
  BY <1>1, <1>2 DEF RingOf

LEMMA SameRing ==
    ASSUME NEW b, NEW t \in Slots, NEW d, NEW f, NEW n \in 0..Capacity,
           RingOf(b, t, d, n), (d = "clear") <=> (f = "clear")
    PROVE  RingOf(b, t, f, n)
BY DEF RingOf

Store(b, j, x, c) == \A k \in Slots : c[k] = IF k = j THEN x ELSE b[k]

LEMMA StoredRing ==
    ASSUME NEW b, NEW t \in Slots, NEW d, NEW n \in 0..Capacity,
           RingOf(b, t, d, n), b[Slot(t, n)] = Null, NEW x, x # Null,
           NEW c, Store(b, Slot(t, n), x, c)
    PROVE  /\ RingOf(c, t, d, n + 1)
           /\ QueueOf(c, t, n + 1) = Append(QueueOf(b, t, n), x)
<1> USE CircbufAssumption
<1>1. n < Capacity /\ (d = "clear" => n + 1 < Capacity)
  BY RoomFor
<1>2. ASSUME NEW i \in Slots
      PROVE  c[Slot(t, i)] = IF i = n THEN x ELSE b[Slot(t, i)]
  <2>1. Slot(t, i) \in Slots /\ (Slot(t, i) = Slot(t, n) <=> i = n)
    BY <1>1 DEF Slot, Slots
  <2> QED
    BY <2>1 DEF Store
<1>3. RingOf(c, t, d, n + 1)
  BY <1>1, <1>2 DEF RingOf, Slots
<1>4. ASSUME NEW i \in 1..(n + 1)
      PROVE  c[Slot(t, i - 1)] = IF i = n + 1 THEN x ELSE b[Slot(t, i - 1)]
  <2>1. i - 1 \in Slots
    BY <1>1 DEF Slots
  <2> QED
    BY <1>2, <2>1
<1>5. QueueOf(c, t, n + 1) = [i \in 1..(n + 1) |-> IF i = n + 1 THEN x ELSE b[Slot(t, i - 1)]]
  BY <1>4 DEF QueueOf
<1>6. Append(QueueOf(b, t, n), x)
          = [i \in 1..(n + 1) |-> IF i = n + 1 THEN x ELSE b[Slot(t, i - 1)]]
  <2>1. Len(QueueOf(b, t, n)) = n
    BY DEF QueueOf
  <2> QED
    BY <2>1 DEF QueueOf
<1> QED
  BY <1>3, <1>5, <1>6

LEMMA MovedRing ==
    ASSUME NEW b, NEW t \in Slots, NEW d, d # "clear", NEW n \in 0..Capacity,
           RingOf(b, t, d, n), b[t] # Null
    PROVE  /\ n >= 1
           /\ RingOf(b, Slot(t, 1), "clear", n - 1)
           /\ QueueOf(b, t, n) # <<>>
           /\ b[t] = Head(QueueOf(b, t, n))
           /\ QueueOf(b, Slot(t, 1), n - 1) = Tail(QueueOf(b, t, n))
<1> USE CircbufAssumption
<1>1. Slot(t, 0) = t /\ 0 \in Slots
  BY DEF Slot, Slots
<1>2. n >= 1
  BY <1>1 DEF RingOf
<1>3. ASSUME NEW i \in Slots PROVE Slot(Slot(t, 1), i) = IF i = Capacity - 1 THEN t ELSE Slot(t, i + 1)
  BY DEF Slot, Slots
<1>4. ASSUME NEW i \in Slots
      PROVE  b[Slot(Slot(t, 1), i)] # Null <=> i < n - 1 \/ i = Capacity - 1
  <2>1. CASE i = Capacity - 1
    BY <1>3, <2>1
  <2>2. CASE i # Capacity - 1
    <3>1. i + 1 \in Slots
      BY <2>2 DEF Slots
    <3>2. b[Slot(t, i + 1)] # Null <=> i + 1 < n
      BY <3>1 DEF RingOf
    <3> QED
      BY <1>3, <2>2, <3>2 DEF Slots
  <2> QED
    BY <2>1, <2>2
<1>5. RingOf(b, Slot(t, 1), "clear", n - 1)
  BY <1>2, <1>4 DEF RingOf
<1> DEFINE q == QueueOf(b, t, n)
<1>6. /\ Len(q) = n /\ q # <<>> /\ Head(q) = b[t]
  BY <1>1, <1>2 DEF QueueOf
<1>7. ASSUME NEW i \in 1..(n - 1) PROVE b[Slot(Slot(t, 1), i - 1)] = b[Slot(t, i)]
  <2>1. i - 1 \in Slots /\ i - 1 # Capacity - 1
    BY DEF Slots
  <2> QED
    BY <1>3, <2>1
<1>8. Tail(q) = [i \in 1..(n - 1) |-> b[Slot(t, i)]]
  BY <1>2 DEF QueueOf
<1>9. QueueOf(b, Slot(t, 1), n - 1) = [i \in 1..(n - 1) |-> b[Slot(t, i)]]
  BY <1>7 DEF QueueOf
<1> QED
  BY <1>2, <1>5, <1>6, <1>8, <1>9

LEMMA ClearedRing ==
    ASSUME NEW b, NEW t \in Slots, NEW n \in 0..Capacity, RingOf(b, t, "clear", n),
           NEW c, Store(b, Slot(t, Capacity - 1), Null, c)
    PROVE  /\ n < Capacity
           /\ RingOf(c, t, "idle", n)
           /\ QueueOf(c, t, n) = QueueOf(b, t, n)
<1> USE CircbufAssumption
<1>1. n < Capacity
  BY DEF RingOf
<1>2. ASSUME NEW i \in Slots
      PROVE  c[Slot(t, i)] = IF i = Capacity - 1 THEN Null ELSE b[Slot(t, i)]
  <2>1. Slot(t, i) \in Slots /\ (Slot(t, i) = Slot(t, Capacity - 1) <=> i = Capacity - 1)
    BY DEF Slot, Slots
  <2> QED
    BY <2>1 DEF Store
<1>3. RingOf(c, t, "idle", n)
  BY <1>1, <1>2 DEF RingOf, Slots
<1>4. ASSUME NEW i \in 1..n PROVE c[Slot(t, i - 1)] = b[Slot(t, i - 1)]
  <2>1. i - 1 \in Slots /\ i - 1 # Capacity - 1
    BY <1>1 DEF Slots
  <2> QED
    BY <1>2, <2>1
<1>5. QueueOf(c, t, n) = QueueOf(b, t, n)
  BY <1>4 DEF QueueOf
<1> QED
  BY <1>1, <1>3, <1>5

(* Storing, returning and clearing keep the numbers.                       *)
LEMMA StoredNumber ==
    ASSUME NEW b, NEW t \in Slots, NEW n \in 0..Capacity, NEW k \in Nat, NumberedOf(b, t, n, k),
           NEW x, x[2] = k + n + 1, n < Capacity, NEW d, RingOf(b, t, d, n), d = "clear" => n + 1 < Capacity,
           NEW c, Store(b, Slot(t, n), x, c)
    PROVE  NumberedOf(c, t, n + 1, k)
<1> USE CircbufAssumption
<1> SUFFICES ASSUME NEW i \in Slots, c[Slot(t, i)] # Null
             PROVE  c[Slot(t, i)][2] = IF i < n + 1 THEN k + i + 1 ELSE k
  BY DEF NumberedOf
<1>1. Slot(t, i) \in Slots /\ (Slot(t, i) = Slot(t, n) <=> i = n)
  BY DEF Slot, Slots
<1>2. CASE i = n
  <2>1. c[Slot(t, i)] = x
    BY <1>1, <1>2 DEF Store
  <2>2. i < n + 1
    BY <1>2
  <2> QED
    BY <1>2, <2>1, <2>2
<1>3. CASE i # n
  <2>1. c[Slot(t, i)] = b[Slot(t, i)] /\ (i < n + 1 <=> i < n)
    BY <1>1, <1>3 DEF Store, Slots
  <2> QED
    BY <2>1 DEF NumberedOf
<1> QED
  BY <1>2, <1>3

LEMMA MovedNumber ==
    ASSUME NEW b, NEW t \in Slots, NEW d, d # "clear", NEW n \in 0..Capacity, NEW k \in Nat,
           RingOf(b, t, d, n), NumberedOf(b, t, n, k), b[t] # Null
    PROVE  b[t][2] = k + 1 /\ NumberedOf(b, Slot(t, 1), n - 1, k + 1)
<1> USE CircbufAssumption
<1>1. Slot(t, 0) = t /\ 0 \in Slots
  BY DEF Slot, Slots
<1>2. 0 < n /\ b[t][2] = k + 1
  BY <1>1 DEF RingOf, NumberedOf
<1>3. ASSUME NEW i \in Slots PROVE Slot(Slot(t, 1), i) = IF i = Capacity - 1 THEN t ELSE Slot(t, i + 1)
  BY DEF Slot, Slots
<1>4. ASSUME NEW i \in Slots, b[Slot(Slot(t, 1), i)] # Null
      PROVE  b[Slot(Slot(t, 1), i)][2] = IF i < n - 1 THEN k + 1 + i + 1 ELSE k + 1
  <2>1. CASE i = Capacity - 1
    <3>1. ~(i < n - 1)
      BY <2>1
    <3> QED
      BY <1>2, <1>3, <2>1, <3>1
  <2>2. CASE i # Capacity - 1
    <3>1. i + 1 \in Slots /\ Slot(Slot(t, 1), i) = Slot(t, i + 1)
      BY <1>3, <2>2 DEF Slots
    <3>2. i + 1 < n
      BY <1>4, <3>1 DEF RingOf
    <3>3. b[Slot(t, i + 1)][2] = k + (i + 1) + 1
      BY <1>4, <3>1, <3>2 DEF NumberedOf
    <3>4. i < n - 1 /\ k + (i + 1) + 1 = k + 1 + i + 1
      BY <3>2 DEF Slots
    <3> QED
      BY <3>1, <3>3, <3>4
  <2> QED
    BY <2>1, <2>2
<1> QED
  BY <1>2, <1>4 DEF NumberedOf

LEMMA ClearedNumber ==
    ASSUME NEW b, NEW t \in Slots, NEW n \in 0..Capacity, NEW k, NumberedOf(b, t, n, k),
           NEW j, NEW c, Store(b, j, Null, c)
    PROVE  NumberedOf(c, t, n, k)
<1> SUFFICES ASSUME NEW i \in Slots, c[Slot(t, i)] # Null
             PROVE  c[Slot(t, i)] = b[Slot(t, i)]
  BY DEF NumberedOf
<1>1. Slot(t, i) \in Slots
  BY CircbufAssumption DEF Slot, Slots
<1> QED
  BY <1>1 DEF Store

LEMMA RingInit == Init => RingInv /\ Found
<1> SUFFICES ASSUME Init PROVE RingInv /\ Found
  OBVIOUS
<1> USE CircbufAssumption
<1>1. 0 \in Slots /\ Slot(0, 0) = 0
  BY DEF Slots, Slot
<1>2. RingOf(buf, tail, dpc, 0)
  <2>1. ASSUME NEW i \in Slots PROVE buf[Slot(tail, i)] = Null
    <3>1. Slot(tail, i) \in Slots
      BY <1>1, ModSlot DEF Init, Slots
    <3> QED
      BY <3>1 DEF Init
  <2> QED
    BY <2>1 DEF Init, RingOf, Slots
<1>3. \A e \in Enqueuers : EnqOf(e, 0)
  BY <1>1 DEF Init, EnqOf
<1>4. Numbered(0)
  <2>1. \A i \in Slots : buf[Slot(tail, i)] = Null
    BY <1>2 DEF Init, RingOf
  <2> QED
    BY <2>1 DEF Init, Numbered, NumberedOf
<1>5. RingInv
  BY <1>2, <1>3, <1>4 DEF RingInv
<1>6. Found
  BY DEF Init, Found
<1> QED
  BY <1>5, <1>6

(* Each step keeps the invariant and is a step of the queue or a stutter.  *)
AbstractStep == [F!Next]_<<Content, out>>

LEMMA EnqStoreStep ==
    ASSUME CircTypeOK, OneEnqueuer, RingInv, Found, NEW e \in Enqueuers, EnqStore(e)
    PROVE  RingInv' /\ Found' /\ AbstractStep
<1> USE CircbufAssumption DEF CircTypeOK
<1>1. PICK n \in 0..Capacity :
          RingOf(buf, tail, dpc, n) /\ Numbered(n) /\ \A f \in Enqueuers : EnqOf(f, n)
  BY DEF RingInv
<1>2. epc[e] = "store" /\ icur[e] = Slot(tail, n) /\ buf[icur[e]] = Null /\ head = Slot(tail, n + 1)
  BY <1>1 DEF EnqStore, EnqOf
<1>3. Item(e) \in Items /\ Item(e) # Null
  BY <1>2, ItemOf, ItemNotNull
<1>4. n < Capacity
  BY <1>1, <1>2, RoomFor
<1>5. /\ buf' = [buf EXCEPT ![Slot(tail, n)] = Item(e)]
      /\ UNCHANGED <<head, tail, icur, dpc, ps, out>>
      /\ epc' = [epc EXCEPT ![e] = "idle"]
  BY <1>2 DEF EnqStore, dequeuer
<1>6. /\ RingOf(buf', tail, dpc, n + 1)
      /\ QueueOf(buf', tail, n + 1) = Append(QueueOf(buf, tail, n), Item(e))
  <2>1. Store(buf, Slot(tail, n), Item(e), buf')
    BY <1>3, <1>5 DEF Store
  <2>2. RingOf(buf, tail, dpc, n) /\ buf[Slot(tail, n)] = Null /\ tail \in Slots
    BY <1>1, <1>2
  <2> HIDE DEF CircTypeOK
  <2> QED
    BY <1>3, <2>1, <2>2, StoredRing
<1>7. \A f \in Enqueuers : EnqOf(f, n + 1)'
  <2>1. \A f \in Enqueuers : f = e
    BY DEF OneEnqueuer
  <2>2. epc'[e] = "idle"
    BY <1>5
  <2> QED
    BY <1>2, <1>5, <2>1, <2>2 DEF EnqOf
<1>8. n + 1 \in 0..Capacity
  BY <1>4
<1>9. RingInv'
  <2>1. RingOf(buf', tail', dpc', n + 1)
    BY <1>5, <1>6
  <2>2. sent[e] = Len(out) + n /\ sent[e] \in Nat /\ sent'[e] = sent[e] + 1 /\ Len(out) \in Nat
    BY <1>1 DEF EnqStore, Numbered
  <2>3. NumberedOf(buf', tail, n + 1, Len(out))
    <3>1. Item(e)[2] = Len(out) + n + 1
      BY <2>2 DEF Item
    <3>2. Store(buf, Slot(tail, n), Item(e), buf')
      BY <1>3, <1>5 DEF Store
    <3>3. dpc = "clear" => n + 1 < Capacity
      BY <1>1, <1>2, RoomFor
    <3> QED
      BY <1>1, <1>4, <2>2, <3>1, <3>2, <3>3, StoredNumber DEF Numbered
  <2>4. \A f \in Enqueuers : f = e
    BY DEF OneEnqueuer
  <2>5. Numbered(n + 1)'
    BY <1>1, <1>5, <2>2, <2>3, <2>4 DEF Numbered
  <2> QED
    BY <1>7, <1>8, <2>1, <2>5 DEF RingInv
<1>10. Found'
  <2>1. ASSUME NEW i \in 1..Len(ps) PROVE ps[i] = buf'[Slot(tail, i - 1)] /\ ps[i] # Null
    <3>1. ps[i] = buf[Slot(tail, i - 1)] /\ ps[i] # Null
      BY DEF Found
    <3> QED
      BY <1>2, <1>5, <3>1
  <2> QED
    BY <1>5, <2>1 DEF Found
<1>11. Content = QueueOf(buf, tail, n) /\ Content' = QueueOf(buf', tail, n + 1)
  BY <1>1, <1>5, <1>6, <1>8, ContentNow, ContentNext
<1>12. F!Put(Item(e))
  <2>1. Len(Content) = n
    BY <1>11 DEF QueueOf
  <2> QED
    BY <1>4, <1>5, <1>6, <1>11, <2>1 DEF F!Put
<1> QED
  BY <1>3, <1>9, <1>10, <1>12 DEF F!Next, AbstractStep

LEMMA DeqMoveTailStep ==
    ASSUME CircTypeOK, RingInv, DeqMoveTail
    PROVE  RingInv' /\ Found' /\ AbstractStep
<1> USE CircbufAssumption DEF CircTypeOK
<1>1. PICK n \in 0..Capacity :
          RingOf(buf, tail, dpc, n) /\ Numbered(n) /\ \A f \in Enqueuers : EnqOf(f, n)
  BY DEF RingInv
<1>2. /\ dpc # "clear" /\ buf[tail] # Null
      /\ tail' = Slot(tail, 1) /\ dpc' = "clear" /\ ps' = <<>>
      /\ out' = Append(out, buf[tail])
      /\ UNCHANGED <<buf, head, epc, icur, sent>>
  BY PostIncr DEF DeqMoveTail, enqueuer
<1>3. /\ n >= 1
      /\ RingOf(buf, Slot(tail, 1), "clear", n - 1)
      /\ QueueOf(buf, tail, n) # <<>>
      /\ buf[tail] = Head(QueueOf(buf, tail, n))
      /\ QueueOf(buf, Slot(tail, 1), n - 1) = Tail(QueueOf(buf, tail, n))
  BY <1>1, <1>2, MovedRing
<1>4. ASSUME NEW f \in Enqueuers PROVE EnqOf(f, n - 1)'
  <2>1. EnqOf(f, n)
    BY <1>1
  <2>2. epc[f] = "store" => n < Capacity
    BY <1>1, <2>1, RoomFor DEF EnqOf
  <2>3. Slot(Slot(tail, 1), n - 1) = Slot(tail, n)
    BY <1>3 DEF Slot, Slots
  <2>4. n < Capacity => Slot(Slot(tail, 1), n - 1 + 1) = Slot(tail, n + 1)
    BY <1>3 DEF Slot, Slots
  <2> QED
    BY <1>2, <2>1, <2>2, <2>3, <2>4 DEF EnqOf
<1>5. n - 1 \in 0..Capacity
  BY <1>3
<1>6. RingOf(buf', tail', dpc', n - 1)
  BY <1>2, <1>3
<1>7. RingInv'
  <2>1. out \in Seq(Items) /\ buf[tail] \in Items /\ Len(out) \in Nat
    BY <1>2
  <2>2. buf[tail][2] = Len(out) + 1 /\ NumberedOf(buf, Slot(tail, 1), n - 1, Len(out) + 1)
    BY <1>1, <1>2, <2>1, MovedNumber DEF Numbered
  <2>3. Len(out') = Len(out) + 1 /\ \A i \in 1..Len(out') : out'[i] = IF i <= Len(out) THEN out[i] ELSE buf[tail]
    BY <1>2, <2>1
  <2>4. \A i \in 1..Len(out') : out'[i][2] = i
    BY <1>1, <2>1, <2>2, <2>3 DEF Numbered
  <2>5. Numbered(n - 1)'
    BY <1>1, <1>2, <2>1, <2>2, <2>3, <2>4 DEF Numbered
  <2> QED
    BY <1>4, <1>5, <1>6, <2>5 DEF RingInv
<1>8. Found'
  BY <1>2 DEF Found
<1>9. tail' \in Slots
  BY <1>2, PostIncr
<1>10. Content = QueueOf(buf, tail, n) /\ Content' = QueueOf(buf, Slot(tail, 1), n - 1)
  BY <1>1, <1>2, <1>5, <1>6, <1>9, ContentNow, ContentNext
<1>11. F!Get
  BY <1>2, <1>3, <1>10 DEF F!Get
<1> QED
  BY <1>7, <1>8, <1>11 DEF F!Next, AbstractStep

LEMMA DeqClearStep ==
    ASSUME CircTypeOK, RingInv, Found, DeqClear
    PROVE  RingInv' /\ Found' /\ AbstractStep
<1> USE CircbufAssumption DEF CircTypeOK
<1>1. PICK n \in 0..Capacity :
          RingOf(buf, tail, dpc, n) /\ Numbered(n) /\ \A f \in Enqueuers : EnqOf(f, n)
  BY DEF RingInv
<1>2. /\ dpc = "clear" /\ dpc' = "idle" /\ ps = <<>>
      /\ buf' = [buf EXCEPT ![Slot(tail, Capacity - 1)] = Null]
      /\ UNCHANGED <<head, tail, ps, out, epc, icur, sent>>
  BY BeforeTail DEF DeqClear, enqueuer, Found
<1>3. /\ n < Capacity
      /\ RingOf(buf', tail, "idle", n)
      /\ QueueOf(buf', tail, n) = QueueOf(buf, tail, n)
  <2>1. Store(buf, Slot(tail, Capacity - 1), Null, buf')
    BY <1>2 DEF Store
  <2> QED
    BY <1>1, <1>2, <2>1, ClearedRing
<1>4. ASSUME NEW f \in Enqueuers PROVE EnqOf(f, n)'
  <2>1. EnqOf(f, n)
    BY <1>1
  <2>2. buf[icur[f]] = Null => buf'[icur[f]] = Null
    BY <1>2
  <2> QED
    BY <1>2, <2>1, <2>2 DEF EnqOf
<1>5. RingOf(buf', tail', dpc', n)
  BY <1>2, <1>3
<1>6. RingInv'
  <2>1. Store(buf, Slot(tail, Capacity - 1), Null, buf')
    BY <1>2 DEF Store
  <2>2. NumberedOf(buf', tail, n, Len(out))
    BY <1>1, <2>1, ClearedNumber DEF Numbered
  <2>3. Numbered(n)'
    BY <1>1, <1>2, <2>2 DEF Numbered
  <2> QED
    BY <1>4, <1>5, <2>3 DEF RingInv
<1>7. Found'
  BY <1>2 DEF Found
<1>8. Content = QueueOf(buf, tail, n) /\ Content' = QueueOf(buf', tail, n)
  BY <1>1, <1>2, <1>5, ContentNow, ContentNext
<1> QED
  BY <1>2, <1>3, <1>6, <1>7, <1>8 DEF AbstractStep

(* A step that leaves the slots and tail_ alone.                           *)
LEMMA QuietStep ==
    ASSUME CircTypeOK, RingInv,
           UNCHANGED <<buf, tail, out, sent>>, (dpc' = "clear") <=> (dpc = "clear"),
           \A n \in 0..Capacity : \A e \in Enqueuers :
               RingOf(buf, tail, dpc, n) /\ EnqOf(e, n) => EnqOf(e, n)'
    PROVE  RingInv' /\ AbstractStep
<1> USE DEF CircTypeOK
<1>1. PICK n \in 0..Capacity :
          RingOf(buf, tail, dpc, n) /\ Numbered(n) /\ \A f \in Enqueuers : EnqOf(f, n)
  BY DEF RingInv
<1>2. RingOf(buf', tail', dpc', n)
  <2>1. RingOf(buf, tail, dpc', n)
    BY <1>1, SameRing
  <2> QED
    BY <2>1
<1>3. \A f \in Enqueuers : EnqOf(f, n)'
  BY <1>1
<1>4. RingInv'
  <2>1. Numbered(n)'
    BY <1>1 DEF Numbered
  <2> QED
    BY <1>2, <1>3, <2>1 DEF RingInv
<1>5. Content' = Content
  BY ContentFrame
<1> QED
  BY <1>4, <1>5 DEF AbstractStep

LEMMA EnqBeginStep ==
    ASSUME CircTypeOK, OneEnqueuer, RingInv, Found, NEW e \in Enqueuers,
           EnqLoadHead(e) \/ EnqCheck(e) \/ EnqCas(e)
    PROVE  RingInv' /\ Found' /\ AbstractStep
<1> USE CircbufAssumption DEF CircTypeOK
<1>1. UNCHANGED <<buf, tail, dpc, ps, out, sent>>
  BY DEF EnqLoadHead, EnqCheck, EnqCas, dequeuer
<1>2. \A f \in Enqueuers : f = e
  BY DEF OneEnqueuer
<1>3. ASSUME NEW n \in 0..Capacity, RingOf(buf, tail, dpc, n), EnqOf(e, n)
      PROVE  EnqOf(e, n)'
  <2>1. CASE EnqLoadHead(e)
    BY <1>3, <2>1 DEF EnqLoadHead, EnqOf
  <2>2. CASE EnqCheck(e)
    BY <1>3, <2>2 DEF EnqCheck, EnqOf
  <2>3. CASE EnqCas(e)
    <3>1. /\ icur[e] = head /\ buf[icur[e]] = Null /\ head = Slot(tail, n)
          /\ epc' = [epc EXCEPT ![e] = "store"] /\ head' = Slot(head, 1)
          /\ UNCHANGED <<buf, tail, icur>>
      BY <1>3, <2>3, PostIncr DEF EnqCas, EnqOf
    <3>2. n < Capacity
      BY <1>3, <3>1, RoomFor
    <3>3. Slot(Slot(tail, n), 1) = Slot(tail, n + 1)
      BY <3>2 DEF Slot, Slots
    <3> QED
      BY <3>1, <3>3 DEF EnqOf
  <2> QED
    BY <2>1, <2>2, <2>3
<1>4. RingInv' /\ AbstractStep
  BY <1>1, <1>2, <1>3, QuietStep
<1>5. Found'
  BY <1>1 DEF Found
<1> QED
  BY <1>4, <1>5

LEMMA OtherStep ==
    ASSUME CircTypeOK, RingInv, Found,
           PeekAllBegin \/ PeekAllNext \/ Peek \/ UNCHANGED vars
    PROVE  RingInv' /\ Found' /\ AbstractStep
<1> USE CircbufAssumption DEF CircTypeOK
<1>1. /\ UNCHANGED <<buf, head, tail, out, epc, icur, sent>>
      /\ (dpc' = "clear") <=> (dpc = "clear")
  BY DEF PeekAllBegin, PeekAllNext, Peek, PeekLoadTail, PeekLoadSlot, PeekReturn, vars,
         enqueuer, dequeuer, peeker
<1>2. RingInv' /\ AbstractStep
  <2>1. \A n \in 0..Capacity : \A e \in Enqueuers : EnqOf(e, n) => EnqOf(e, n)'
    BY <1>1 DEF EnqOf
  <2> QED
    BY <1>1, <2>1, QuietStep
<1>3. Found'
  <2>1. CASE PeekAllBegin
    BY <2>1 DEF PeekAllBegin, Found
  <2>2. CASE PeekAllNext
    <3> DEFINE p == buf[(tail + Len(ps)) % Capacity]
    <3>1. CASE p # Null /\ Len(ps) < Capacity
      <4>1. Len(ps) \in 0..Capacity
        BY <3>1
      <4>2. p = buf[Slot(tail, Len(ps))] /\ p \in Items
        BY <3>1, <4>1, ModSlot
      <4>3. ps' = Append(ps, p) /\ dpc' = "peekall"
        BY <2>2, <3>1 DEF PeekAllNext
      <4>4. Len(ps') = Len(ps) + 1
        BY <4>2, <4>3
      <4>5. ASSUME NEW i \in 1..Len(ps')
            PROVE  ps'[i] = buf[Slot(tail, i - 1)] /\ ps'[i] # Null
        <5>1. CASE i = Len(ps) + 1
          <6>1. ps'[i] = p /\ i - 1 = Len(ps)
            BY <4>2, <4>3, <5>1
          <6> QED
            BY <3>1, <4>2, <6>1
        <5>2. CASE i # Len(ps) + 1
          <6>1. i \in 1..Len(ps) /\ ps'[i] = ps[i]
            BY <4>2, <4>3, <4>4, <5>2
          <6> QED
            BY <6>1 DEF Found
        <5> QED
          BY <5>1, <5>2
      <4> QED
        BY <1>1, <3>1, <4>1, <4>3, <4>4, <4>5 DEF Found
    <3>2. CASE ~(p # Null /\ Len(ps) < Capacity)
      BY <1>1, <2>2, <3>2 DEF PeekAllNext, Found
    <3> QED
      BY <3>1, <3>2
  <2>3. CASE Peek \/ UNCHANGED vars
    BY <1>1, <2>3 DEF Peek, PeekLoadTail, PeekLoadSlot, PeekReturn, vars, dequeuer, Found
  <2> QED
    BY <2>1, <2>2, <2>3
<1> QED
  BY <1>2, <1>3

LEMMA RingNext ==
    ASSUME OneEnqueuer, CircTypeOK, RingInv, Found, [Next]_vars
    PROVE  RingInv' /\ Found' /\ AbstractStep
<1>1. CASE UNCHANGED vars
  BY <1>1, OtherStep
<1>2. CASE Deq
  BY <1>2, DeqMoveTailStep, DeqClearStep, OtherStep DEF Deq
<1>3. CASE Peek
  BY <1>3, OtherStep
<1>4. ASSUME NEW e \in Enqueuers, Enq(e) PROVE RingInv' /\ Found' /\ AbstractStep
  BY <1>4, EnqBeginStep, EnqStoreStep DEF Enq
<1> QED
  BY <1>1, <1>2, <1>3, <1>4 DEF Next

LEMMA Ring ==
    ASSUME OneEnqueuer
    PROVE  Spec => [](CircTypeOK /\ RingInv /\ Found)
<1>1. CircTypeOK /\ RingInv /\ Found /\ [Next]_vars => RingInv' /\ Found'
  BY RingNext
<1> QED
  BY <1>1, TypeInit, TypeNext, RingInit, PTL DEF Spec

(* peekall returns the front of the queue, in its order and without a gap, *)
(* while the core goes on enqueueing.                                      *)
THEOREM PeekAll ==
    ASSUME OneEnqueuer
    PROVE  Spec => []PeekAllIsPrefix
<1>1. CircTypeOK /\ RingInv /\ Found => PeekAllIsPrefix
  <2> SUFFICES ASSUME CircTypeOK, RingInv, Found PROVE PeekAllIsPrefix
    OBVIOUS
  <2> USE CircbufAssumption DEF CircTypeOK
  <2>1. PICK n \in 0..Capacity : RingOf(buf, tail, dpc, n)
    BY DEF RingInv
  <2>2. Content = QueueOf(buf, tail, n)
    BY <2>1, ContentNow
  <2>3. Len(ps) <= n
    <3> SUFFICES ASSUME n < Len(ps) PROVE FALSE
      OBVIOUS
    <3>1. n + 1 \in 1..Len(ps) /\ n \in Slots
      BY DEF Found, Slots
    <3>2. buf[Slot(tail, n)] # Null
      <4>1. ps[n + 1] = buf[Slot(tail, n + 1 - 1)] /\ ps[n + 1] # Null
        BY <3>1 DEF Found
      <4>2. n + 1 - 1 = n
        OBVIOUS
      <4> QED
        BY <4>1, <4>2
    <3> QED
      BY <2>1, <3>1, <3>2 DEF RingOf, Found
  <2>4. Len(Content) = n /\ \A i \in 1..Len(ps) : ps[i] = Content[i]
    BY <2>2, <2>3 DEF QueueOf, Found
  <2>5. SubSeq(ps, 1, Len(ps)) = SubSeq(Content, 1, Len(ps))
    BY <2>3, <2>4
  <2> QED
    BY <2>3, <2>4, <2>5 DEF PeekAllIsPrefix, IsPrefix
<1> QED
  BY <1>1, Ring, PTL

-----------------------------------------------------------------------------
(* Peeks from outside, step by step: while tail_ has not moved since, the  *)
(* slot to look at is the first one, and what was next then has the number *)
(* after those returned.                                                   *)
Next1(x, k) == x = Null \/ (x \in Items /\ x[2] = k + 1 /\ \A e \in Enqueuers : k < sent[e])
PeekInv ==
    ppc # "idle" =>
        /\ pout <= Len(out) /\ Next1(pfirst, pout)
        /\ ppc = "load" /\ Len(out) = pout => ptail = tail
        /\ PeekIsTimely

LEMMA SlotFrom ==
    ASSUME NEW a \in Slots, NEW b \in Slots
    PROVE  \E i \in Slots : Slot(a, i) = b /\ (a = b => i = 0)
<1> DEFINE i == IF a <= b THEN b - a ELSE b - a + Capacity
<1>1. i \in Slots /\ Slot(a, i) = b /\ (a = b => i = 0)
  BY CircbufAssumption DEF Slots, Slot
<1> QED
  BY <1>1

(* What is next has the number after those returned.                       *)
LEMMA FirstIs ==
    ASSUME CircTypeOK, OneEnqueuer, RingInv
    PROVE  Next1(First, Len(out))
<1> USE CircbufAssumption DEF CircTypeOK
<1>1. PICK n \in 0..Capacity : RingOf(buf, tail, dpc, n) /\ Numbered(n)
  BY DEF RingInv
<1>2. Content = QueueOf(buf, tail, n)
  BY <1>1, ContentNow
<1>3. CASE n = 0
  BY <1>2, <1>3 DEF QueueOf, First, Next1
<1>4. CASE n > 0
  <2>1. Slot(tail, 0) \in Slots /\ 0 \in Slots
    BY DEF Slot, Slots
  <2>2. First = buf[Slot(tail, 0)]
    <3>1. Content # <<>> /\ Content[1] = buf[Slot(tail, 1 - 1)]
      <4>1. Len(Content) = n /\ 1 \in 1..n
        BY <1>2, <1>4 DEF QueueOf
      <4>2. Content[1] = buf[Slot(tail, 1 - 1)]
        BY <1>2, <4>1 DEF QueueOf
      <4>3. Len(<<>>) = 0
        OBVIOUS
      <4> QED
        BY <1>4, <4>1, <4>2, <4>3
    <3> QED
      BY <3>1 DEF First
  <2>3. First # Null /\ First[2] = Len(out) + 1
    <3>1. buf[Slot(tail, 0)] # Null
      BY <1>1, <1>4, <2>1 DEF RingOf
    <3>2. buf[Slot(tail, 0)][2] = Len(out) + 0 + 1
      BY <1>1, <1>4, <2>1, <3>1 DEF Numbered, NumberedOf
    <3> QED
      BY <2>2, <3>1, <3>2
  <2>4. First \in Items
    BY <2>1, <2>2, <2>3
  <2>5. \A e \in Enqueuers : Len(out) < sent[e]
    BY <1>1, <1>4 DEF Numbered
  <2> QED
    BY <2>3, <2>4, <2>5 DEF Next1
<1> QED
  BY <1>3, <1>4

LEMMA LoadSlotStep ==
    ASSUME CircTypeOK, OneEnqueuer, Capacity > 1, RingInv, PeekInv, PeekLoadSlot
    PROVE  PeekIsTimely'
<1> USE CircbufAssumption DEF CircTypeOK
<1>1. PICK n \in 0..Capacity : RingOf(buf, tail, dpc, n) /\ Numbered(n)
  BY DEF RingInv
<1>2. /\ pval' = buf[ptail] /\ UNCHANGED <<out, pout, pfirst>> /\ pout <= Len(out)
      /\ Next1(pfirst, pout) /\ (Len(out) = pout => ptail = tail)
  BY DEF PeekLoadSlot, PeekInv, dequeuer
<1>3. PICK e : Enqueuers = {e}
  BY DEF OneEnqueuer
<1>4. out \in Seq(Items) /\ Len(out) \in Nat /\ pout \in Nat
  OBVIOUS
<1>5. ASSUME buf[ptail] = Null, pfirst # Null PROVE Returned(pfirst, Len(out))
  <2>1. pfirst \in Items /\ pfirst[2] = pout + 1 /\ pout < sent[e]
    BY <1>2, <1>3, <1>5 DEF Next1
  <2>2. Len(out) # pout
    <3> SUFFICES ASSUME Len(out) = pout PROVE FALSE
      OBVIOUS
    <3>1. Slot(tail, 0) = tail /\ 0 \in Slots /\ buf[tail] = Null
      BY <1>2, <1>5 DEF Slot, Slots
    <3>2. n = 0
      BY <1>1, <3>1 DEF RingOf
    <3> QED
      BY <1>1, <1>3, <1>4, <2>1, <3>2 DEF Numbered
  <2>3. pout + 1 \in 1..Len(out)
    BY <1>2, <1>4, <2>2
  <2>4. out[pout + 1] \in Items /\ out[pout + 1][2] = pout + 1
    BY <1>1, <1>4, <2>3 DEF Numbered
  <2>5. \A x, y \in Items : x[2] = y[2] => x = y
    BY <1>3 DEF Items
  <2>6. out[pout + 1] = pfirst
    BY <2>1, <2>4, <2>5
  <2> QED
    BY <2>3, <2>6 DEF Returned
<1>6. ASSUME buf[ptail] # Null, Returned(buf[ptail], pout) PROVE FALSE
  <2>1. PICK j \in 1..pout : out[j] = buf[ptail]
    BY <1>6 DEF Returned
  <2>2. buf[ptail][2] = j /\ j <= pout
    <3>1. j \in 1..Len(out)
      BY <1>2, <1>4
    <3> QED
      BY <1>1, <1>4, <2>1, <3>1 DEF Numbered
  <2>3. PICK i \in Slots : Slot(tail, i) = ptail /\ (tail = ptail => i = 0)
    BY SlotFrom
  <2>4. buf[ptail][2] = IF i < n THEN Len(out) + i + 1 ELSE Len(out)
    BY <1>1, <1>6, <2>3 DEF Numbered, NumberedOf
  <2>5. ~(i < n) /\ Len(out) = pout
    BY <1>2, <1>4, <2>2, <2>4 DEF Slots
  <2>6. i = Capacity - 1
    BY <1>1, <1>6, <2>3, <2>5 DEF RingOf
  <2> QED
    BY <1>2, <2>3, <2>5, <2>6
<1> QED
  BY <1>2, <1>5, <1>6 DEF PeekIsTimely, Returned

(* What was true of a peek in progress stays true: deq only goes on.       *)
LEMMA PeekStays ==
    ASSUME CircTypeOK, CircTypeOK', PeekInv, UNCHANGED peeker,
           \A e \in Enqueuers : sent[e] <= sent'[e],
           \/ UNCHANGED <<tail, out>>
           \/ \E x \in Items : out' = Append(out, x)
    PROVE  PeekInv'
<1> USE DEF CircTypeOK
<1>1. UNCHANGED <<ppc, ptail, pval, pout, pfirst>>
  BY DEF peeker
<1>2. out \in Seq(Items) /\ Len(out) \in Nat /\ pout \in Nat
  OBVIOUS
<1>3. /\ Len(out') \in Nat /\ Len(out) <= Len(out')
      /\ Len(out') = Len(out) => UNCHANGED tail
      /\ \A i \in 1..Len(out) : out'[i] = out[i]
  <2>1. CASE UNCHANGED <<tail, out>>
    BY <1>2, <2>1
  <2>2. ASSUME NEW x \in Items, out' = Append(out, x)
        PROVE  Len(out') = Len(out) + 1 /\ \A i \in 1..Len(out) : out'[i] = out[i]
    BY <1>2, <2>2
  <2> QED
    BY <1>2, <2>1, <2>2
<1>4. SUFFICES ASSUME ppc # "idle" PROVE PeekInv'
  BY <1>1 DEF PeekInv
<1>5. pout <= Len(out) /\ Next1(pfirst, pout) /\ (ppc = "load" /\ Len(out) = pout => ptail = tail)
      /\ PeekIsTimely
  BY <1>4 DEF PeekInv
<1>6. Next1(pfirst, pout)'
  <2>1. ASSUME NEW e \in Enqueuers, pout < sent[e] PROVE pout < sent'[e]
    <3>1. sent[e] \in Nat /\ sent'[e] \in Nat
      OBVIOUS
    <3> QED
      BY <1>2, <2>1, <3>1
  <2> QED
    BY <1>1, <1>5, <2>1 DEF Next1
<1>7. ppc' = "load" /\ Len(out') = pout => ptail' = tail'
  BY <1>1, <1>2, <1>3, <1>5
<1>8. PeekIsTimely'
  <2>1. ASSUME NEW x, Returned(x, Len(out)) PROVE Returned(x, Len(out))'
    <3>1. PICK i \in 1..Len(out) : out[i] = x
      BY <2>1 DEF Returned
    <3>2. i \in 1..Len(out') /\ out'[i] = x
      BY <1>2, <1>3, <3>1
    <3> QED
      BY <3>2 DEF Returned
  <2>2. ASSUME NEW x, Returned(x, pout)' PROVE Returned(x, pout)
    <3>1. PICK i \in 1..pout : out'[i] = x
      BY <1>1, <2>2 DEF Returned
    <3>2. i \in 1..Len(out)
      BY <1>2, <1>5
    <3> QED
      BY <1>3, <3>1, <3>2 DEF Returned
  <2>3. PICK a, b : a = pfirst /\ b = pval
    OBVIOUS
  <2>4. CASE ppc = "found" /\ b = Null /\ a # Null
    <3>1. Returned(a, Len(out))'
      BY <1>5, <2>1, <2>3, <2>4 DEF PeekIsTimely
    <3> QED
      BY <1>1, <2>3, <2>4, <3>1 DEF PeekIsTimely, Returned
  <2>5. CASE ppc = "found" /\ b # Null
    <3>1. ~Returned(b, pout)'
      BY <1>5, <2>2, <2>3, <2>5 DEF PeekIsTimely
    <3> QED
      BY <1>1, <2>3, <2>5, <3>1 DEF PeekIsTimely, Returned
  <2> QED
    BY <1>1, <2>3, <2>4, <2>5 DEF PeekIsTimely
<1> QED
  BY <1>1, <1>3, <1>5, <1>6, <1>7, <1>8, <1>2 DEF PeekInv

LEMMA PeekNext ==
    ASSUME OneEnqueuer, Capacity > 1, CircTypeOK, CircTypeOK', RingInv, PeekInv, [Next]_vars
    PROVE  PeekInv'
<1> USE DEF CircTypeOK
<1>0. out \in Seq(Items) /\ \A e \in Enqueuers : sent[e] \in Nat
  OBVIOUS
<1>1. ASSUME NEW e \in Enqueuers, Enq(e) PROVE PeekInv'
  <2>1. UNCHANGED <<peeker, tail, out>> /\ \A f \in Enqueuers : sent[f] <= sent'[f]
    BY <1>0, <1>1 DEF Enq, EnqLoadHead, EnqCheck, EnqCas, EnqStore, dequeuer
  <2> QED
    BY <2>1, PeekStays
<1>2. CASE DeqMoveTail
  <2>1. buf[tail] \in Items /\ out' = Append(out, buf[tail]) /\ UNCHANGED <<peeker, sent>>
    BY <1>2 DEF DeqMoveTail, enqueuer
  <2> QED
    BY <1>0, <2>1, PeekStays
<1>3. CASE DeqClear \/ PeekAllBegin \/ PeekAllNext \/ UNCHANGED vars
  <2>1. UNCHANGED <<peeker, tail, out, sent>>
    BY <1>3 DEF DeqClear, PeekAllBegin, PeekAllNext, vars, enqueuer, dequeuer
  <2> QED
    BY <1>0, <2>1, PeekStays
<1>4. CASE PeekLoadTail
  <2>1. /\ ppc' = "load" /\ ptail' = tail /\ pout' = Len(out) /\ pfirst' = First
        /\ UNCHANGED <<tail, out, sent>>
    BY <1>4 DEF PeekLoadTail, enqueuer, dequeuer
  <2>2. Next1(pfirst, pout)'
    BY <2>1, FirstIs DEF Next1
  <2> QED
    BY <1>0, <2>1, <2>2 DEF PeekInv, PeekIsTimely
<1>5. CASE PeekLoadSlot
  <2>1. PeekIsTimely'
    BY <1>5, LoadSlotStep
  <2>2. /\ ppc = "load" /\ ppc' = "found" /\ UNCHANGED <<pout, pfirst, out, sent>>
    BY <1>5 DEF PeekLoadSlot, enqueuer, dequeuer
  <2> QED
    BY <2>1, <2>2 DEF PeekInv, Next1
<1>6. CASE PeekReturn
  BY <1>6 DEF PeekReturn, PeekInv
<1> QED
  BY <1>1, <1>2, <1>3, <1>4, <1>5, <1>6 DEF Next, Deq, Peek

(* peek by the persister, in a ring of at least two slots: it returns      *)
(* nothing that deq had returned before the call, and it returns nothing   *)
(* at all only if the queue was empty then or its first item is gone.      *)
THEOREM TimelyPeek ==
    ASSUME OneEnqueuer, Capacity > 1
    PROVE  Spec => []PeekIsTimely
<1>1. Init => PeekInv
  BY DEF Init, PeekInv
<1>2. CircTypeOK /\ CircTypeOK' /\ RingInv /\ PeekInv /\ [Next]_vars => PeekInv'
  BY PeekNext
<1>3. PeekInv => PeekIsTimely
  BY DEF PeekInv, PeekIsTimely
<1> QED
  BY <1>1, <1>2, <1>3, Ring, PTL DEF Spec

(* The ring implements the bounded queue: enq puts at its store, deq takes *)
(* when it moves tail_, and clearing the slot later changes nothing.       *)
THEOREM Refinement ==
    ASSUME OneEnqueuer
    PROVE  Spec => ImplementsFifo
<1>1. Init => F!Init
  <2> SUFFICES ASSUME Init PROVE Content = <<>>
    BY DEF F!Init, Init
  <2>1. 0 \in Slots
    BY CircbufAssumption DEF Slots
  <2>2. tail \in Slots /\ buf[tail] = Null
    BY <2>1 DEF Init
  <2> QED
    BY <2>2, EmptyAtNull
<1>2. CircTypeOK /\ RingInv /\ Found /\ [Next]_vars => [F!Next]_<<Content, out>>
  BY RingNext DEF AbstractStep
<1> QED
  BY <1>1, <1>2, Ring, PTL DEF Spec, ImplementsFifo, F!Spec
=============================================================================
