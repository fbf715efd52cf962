---------------------------- MODULE KeyboardProofs ----------------------------
(***************************************************************************)
(* For every number of processes, ring size and number of keys: what the   *)
(* rings keep whatever happens (KeysAccounted), and that they implement    *)
(* KeyQueue.tla.                                                           *)
(***************************************************************************)
EXTENDS Keyboard, SequenceTheorems, TLAPS

\* The slot the n-th key typed for a process goes to.
Slot(n) == (n - 1) % Size

\* tail has counted the keys pushed, which came in the order of their numbers.
SentInOrder(p) ==
    /\ sent[p] \in Seq(Key)
    /\ tail[p] = Len(sent[p])
    /\ \A n \in 1 .. Len(sent[p]) : sent[p][n] <= typed
    /\ \A m, n \in 1 .. Len(sent[p]) : m < n => sent[p][m] < sent[p][n]

\* What was read was sent, once, and is in no slot any more.
ReadAndGone(p) ==
    /\ delivered[p] \in Seq(Key)
    /\ \A i \in 1 .. Len(delivered[p]) : \E n \in 1 .. Len(sent[p]) : sent[p][n] = delivered[p][i]
    /\ \A i, j \in 1 .. Len(delivered[p]) : i # j => delivered[p][i] # delivered[p][j]
    /\ \A i \in 1 .. Len(delivered[p]), s \in Slots : buffer[p][s] # delivered[p][i]

\* A slot holds a key that was sent to it.
SlotsHoldSent(p) ==
    \A s \in Slots : buffer[p][s] # NoKey =>
        \E n \in 1 .. Len(sent[p]) : Slot(n) = s /\ sent[p][n] = buffer[p][s]

\* A key is in the slot it was sent to, or read, or a ring of newer ones was sent.
NoneForgotten(p) ==
    \A n \in 1 .. Len(sent[p]) :
        \/ buffer[p][Slot(n)] = sent[p][n]
        \/ \E i \in 1 .. Len(delivered[p]) : delivered[p][i] = sent[p][n]
        \/ n + Size <= Len(sent[p])

\* A ring that was never lapped holds the keys from head up to tail and no others.
FirstInFirstOut(p) ==
    p \notin lapped =>
        /\ head[p] <= tail[p]
        /\ \A n \in head[p] + 1 .. tail[p] : buffer[p][Slot(n)] = sent[p][n]
        /\ \A s \in Slots : buffer[p][s] # NoKey => \E n \in head[p] + 1 .. tail[p] : Slot(n) = s

RingInv(p) ==
    /\ SentInOrder(p) /\ ReadAndGone(p) /\ SlotsHoldSent(p)
    /\ NoneForgotten(p) /\ FirstInFirstOut(p)

\* The inductive invariant.
IInv ==
    /\ KeyboardTypeOK
    /\ sent \in [Proc -> Seq(Key)] /\ delivered \in [Proc -> Seq(Key)]
    /\ current_task = NULL => processes = {}
    /\ \A p \in Proc : RingInv(p)
-----------------------------------------------------------------------------
LEMMA SlotInRing == ASSUME NEW n \in Nat \ {0} PROVE Slot(n) \in Slots
BY KeyboardAssumption DEF Slot, Slots

LEMMA NextSlot == ASSUME NEW n \in Nat PROVE Slot(n + 1) = n % Size /\ Slot(n + 1) \in Slots
<1>1. n + 1 \in Nat \ {0} /\ (n + 1) - 1 = n
    OBVIOUS
<1>2. QED
    BY <1>1, SlotInRing DEF Slot

\* Two keys of one slot are a ring apart: what head and tail rest on, which grow
\* without being compared.
LEMMA SameSlot ==
    ASSUME NEW m \in Nat \ {0}, NEW n \in Nat \ {0}, m < n, Slot(m) = Slot(n)
    PROVE  m + Size <= n
<1> DEFINE a == m - 1  b == n - 1  qa == a \div Size  qb == b \div Size
<1>1. Size \in Nat \ {0} /\ a \in Nat /\ b \in Nat /\ a < b /\ a % Size = b % Size
    BY KeyboardAssumption DEF Slot
<1>2. qa \in Int /\ qb \in Int /\ a = Size * qa + (a % Size) /\ b = Size * qb + (b % Size)
    BY <1>1
<1>3. b - a = Size * (qb - qa)
    BY <1>1, <1>2
<1>4. qb - qa > 0
    BY <1>1, <1>2, <1>3
<1>5. Size * (qb - qa) >= Size
    BY <1>1, <1>2, <1>4
<1>6. QED
    BY <1>1, <1>3, <1>5

-----------------------------------------------------------------------------
\* What a ring's invariant is about; a step that leaves it alone keeps the ring.
LEMMA RingUntouched ==
    ASSUME NEW p \in Proc, RingInv(p), typed \in Nat, typed' \in Nat, typed <= typed',
           sent'[p] = sent[p], delivered'[p] = delivered[p], buffer'[p] = buffer[p],
           head'[p] = head[p], tail'[p] = tail[p], p \in lapped <=> p \in lapped'
    PROVE  RingInv(p)'
<1>1. SentInOrder(p)'
    <2>1. \A n \in 1 .. Len(sent[p]) : sent[p][n] \in Nat
        BY ElementOfSeq, KeyboardAssumption DEF RingInv, SentInOrder, Key
    <2>2. QED
        BY <2>1 DEF RingInv, SentInOrder
<1>2. ReadAndGone(p)'
    BY DEF RingInv, ReadAndGone
<1>3. SlotsHoldSent(p)'
    BY DEF RingInv, SlotsHoldSent
<1>4. NoneForgotten(p)'
    BY DEF RingInv, NoneForgotten
<1>5. FirstInFirstOut(p)'
    BY DEF RingInv, FirstInFirstOut
<1>6. QED
    BY <1>1, <1>2, <1>3, <1>4, <1>5 DEF RingInv

LEMMA FreshKeeps ==
    ASSUME IInv, NEW q \in Proc, Fresh(q), NEW p \in Proc
    PROVE  RingInv(p)'
<1>1. CASE p = q
    <2>1. /\ sent'[p] = <<>> /\ delivered'[p] = <<>> /\ head'[p] = 0 /\ tail'[p] = 0
          /\ \A s \in Slots : buffer'[p][s] = NoKey
        BY <1>1 DEF IInv, KeyboardTypeOK, RingInv, SentInOrder, ReadAndGone, Fresh
    <2>2. SentInOrder(p)' /\ ReadAndGone(p)' /\ SlotsHoldSent(p)' /\ NoneForgotten(p)'
        BY <2>1 DEF SentInOrder, ReadAndGone, SlotsHoldSent, NoneForgotten
    <2>3. FirstInFirstOut(p)'
        BY <2>1 DEF FirstInFirstOut
    <2>4. QED
        BY <2>2, <2>3 DEF RingInv
<1>2. CASE p # q
    <2>1. /\ sent'[p] = sent[p] /\ delivered'[p] = delivered[p] /\ buffer'[p] = buffer[p]
          /\ head'[p] = head[p] /\ tail'[p] = tail[p] /\ typed' = typed
          /\ p \in lapped <=> p \in lapped'
        BY <1>2 DEF Fresh
    <2>2. RingInv(p) /\ typed \in Nat
        BY KeyboardAssumption DEF IInv, KeyboardTypeOK, Key
    <2>3. typed <= typed'
        BY <2>1, <2>2
    <2>4. QED
        BY <2>1, <2>2, <2>3, RingUntouched
<1>3. QED
    BY <1>1, <1>2

\* A push appends to what was sent and fills the slot of that key.
LEMMA PushKeeps ==
    ASSUME IInv, KeyboardPush, NEW p \in Proc
    PROVE  RingInv(p)'
<1> DEFINE q == current_process  k == typed + 1  t == tail[p]
<1>1. q \in Proc /\ k \in Key /\ k \in Nat /\ typed \in Nat /\ typed' = k /\ typed < k
    BY KeyboardAssumption DEF IInv, KeyboardTypeOK, KeyboardPush, Key
<1>2. RingInv(p) /\ KeyboardTypeOK
    BY DEF IInv
<1>3. CASE p # q
    <2>1. /\ sent'[p] = sent[p] /\ delivered'[p] = delivered[p] /\ buffer'[p] = buffer[p]
          /\ head'[p] = head[p] /\ tail'[p] = tail[p] /\ (p \in lapped <=> p \in lapped')
        BY <1>1, <1>3 DEF IInv, KeyboardTypeOK, KeyboardPush, Stored
    <2>2. QED
        <3>1. typed' \in Nat /\ typed <= typed'
            BY <1>1
        <3>2. QED
            BY <1>1, <1>2, <2>1, <3>1, RingUntouched
<1>4. CASE p = q
    <2>1. /\ t \in Nat /\ t = Len(sent[p]) /\ head[p] \in Nat /\ sent[p] \in Seq(Key)
          /\ delivered[p] \in Seq(Key) /\ buffer[p] \in [Slots -> Key \cup {NoKey}]
        BY <1>2 DEF IInv, KeyboardTypeOK, RingInv, SentInOrder
    <2>2. Slot(t + 1) = TailSlot(p) /\ Slot(t + 1) \in Slots
        BY <2>1, NextSlot DEF TailSlot
    <2>3. /\ sent'[p] = Append(sent[p], k) /\ delivered'[p] = delivered[p]
          /\ tail'[p] = t + 1 /\ head'[p] = head[p]
          /\ \A s \in Slots : buffer'[p][s] = IF s = Slot(t + 1) THEN k ELSE buffer[p][s]
          /\ p \notin lapped' => p \notin lapped /\ buffer[p][Slot(t + 1)] = NoKey
        BY <1>1, <1>4, <2>2 DEF IInv, KeyboardTypeOK, KeyboardPush, Stored
    <2>4. /\ sent'[p] \in Seq(Key) /\ Len(sent'[p]) = t + 1 /\ sent'[p][t + 1] = k
          /\ \A n \in 1 .. t : sent'[p][n] = sent[p][n] /\ sent[p][n] \in Key
        BY <1>1, <2>1, <2>3, AppendProperties, ElementOfSeq
    <2>5. \A n \in 1 .. t : Slot(n) \in Slots /\ (Slot(n) = Slot(t + 1) => n + Size <= t + 1)
        BY <2>1, SlotInRing, SameSlot
    <2>6. \A n \in 1 .. t : sent[p][n] <= typed /\ sent[p][n] < k /\ sent[p][n] # k
        <3>1. \A n \in 1 .. t : sent[p][n] <= typed /\ sent[p][n] \in Nat
            BY <1>2, <2>1, <2>4, KeyboardAssumption DEF RingInv, SentInOrder, Key
        <3>2. QED
            BY <1>1, <3>1
    <2> HIDE DEF q, k, t
    <2>7. SentInOrder(p)'
        <3>1. \A n \in 1 .. t + 1 : sent'[p][n] <= typed'
            <4>1. \A n \in 1 .. t : sent'[p][n] <= typed'
                BY <1>1, <2>4, <2>6, KeyboardAssumption DEF Key
            <4>2. \A n \in 1 .. t + 1 : n \in 1 .. t \/ n = t + 1
                BY <2>1
            <4>3. k <= k
                BY <1>1
            <4>4. QED
                BY <1>1, <2>4, <4>1, <4>2, <4>3
        <3>2. \A m, n \in 1 .. t + 1 : m < n => sent'[p][m] < sent'[p][n]
            BY <1>2, <2>1, <2>4, <2>6 DEF RingInv, SentInOrder
        <3>3. QED
            BY <2>3, <2>4, <3>1, <3>2 DEF SentInOrder
    <2>8. ReadAndGone(p)'
        <3>1. \A i \in 1 .. Len(delivered[p]) : \E n \in 1 .. t : sent[p][n] = delivered[p][i]
            BY <1>2, <2>1 DEF RingInv, ReadAndGone
        <3>2. \A i \in 1 .. Len(delivered[p]) : delivered[p][i] # k
            BY <2>6, <3>1
        <3>3. \A i \in 1 .. Len(delivered[p]), s \in Slots : buffer'[p][s] # delivered[p][i]
            BY <1>2, <2>3, <3>2 DEF RingInv, ReadAndGone
        <3>4. \A i \in 1 .. Len(delivered[p]) : \E n \in 1 .. t + 1 : sent'[p][n] = delivered[p][i]
            BY <2>1, <2>4, <3>1
        <3>5. QED
            BY <1>2, <2>3, <2>4, <3>3, <3>4 DEF RingInv, ReadAndGone
    <2>9. SlotsHoldSent(p)'
        <3>1. ASSUME NEW s \in Slots, buffer'[p][s] # NoKey
              PROVE  \E n \in 1 .. t + 1 : Slot(n) = s /\ sent'[p][n] = buffer'[p][s]
            <4>1. CASE s = Slot(t + 1)
                BY <2>1, <2>3, <2>4, <4>1
            <4>2. CASE s # Slot(t + 1)
                <5>1. PICK n \in 1 .. t : Slot(n) = s /\ sent[p][n] = buffer[p][s]
                    BY <1>2, <2>1, <2>3, <3>1, <4>2 DEF RingInv, SlotsHoldSent
                <5>2. QED
                    BY <2>1, <2>3, <2>4, <4>2, <5>1
            <4>3. QED
                BY <4>1, <4>2
        <3>2. QED
            BY <2>4, <3>1 DEF SlotsHoldSent
    <2>10. NoneForgotten(p)'
        <3>1. ASSUME NEW n \in 1 .. t + 1
              PROVE  \/ buffer'[p][Slot(n)] = sent'[p][n]
                     \/ \E i \in 1 .. Len(delivered[p]) : delivered[p][i] = sent'[p][n]
                     \/ n + Size <= t + 1
            <4>1. CASE n = t + 1
                BY <2>2, <2>3, <2>4, <4>1
            <4>2. CASE n \in 1 .. t
                <5>1. \/ buffer[p][Slot(n)] = sent[p][n]
                      \/ \E i \in 1 .. Len(delivered[p]) : delivered[p][i] = sent[p][n]
                      \/ n + Size <= t
                    BY <1>2, <2>1, <4>2 DEF RingInv, NoneForgotten
                <5>2. QED
                    BY <2>1, <2>3, <2>4, <2>5, <4>2, <5>1, KeyboardAssumption
            <4>3. n = t + 1 \/ n \in 1 .. t
                BY <2>1, <3>1
            <4>4. QED
                BY <4>1, <4>2, <4>3
        <3>2. QED
            BY <2>3, <2>4, <3>1 DEF NoneForgotten
    <2>11. FirstInFirstOut(p)'
        <3>1. SUFFICES ASSUME p \notin lapped'
              PROVE  /\ head[p] <= t + 1
                     /\ \A n \in head[p] + 1 .. t + 1 : buffer'[p][Slot(n)] = sent'[p][n]
                     /\ \A s \in Slots : buffer'[p][s] # NoKey =>
                            \E n \in head[p] + 1 .. t + 1 : Slot(n) = s
            BY <2>3 DEF FirstInFirstOut
        <3>2. /\ head[p] <= t
              /\ \A n \in head[p] + 1 .. t : buffer[p][Slot(n)] = sent[p][n]
              /\ \A s \in Slots : buffer[p][s] # NoKey => \E n \in head[p] + 1 .. t : Slot(n) = s
            BY <1>2, <2>3, <3>1 DEF RingInv, FirstInFirstOut, t
        <3>3. ASSUME NEW n \in head[p] + 1 .. t + 1 PROVE buffer'[p][Slot(n)] = sent'[p][n]
            <4>1. CASE n = t + 1
                BY <2>2, <2>3, <2>4, <4>1
            <4>2. CASE n # t + 1
                <5>1. n \in 1 .. t /\ n \in head[p] + 1 .. t /\ sent[p][n] # NoKey
                    BY <2>1, <2>4, <3>3, <4>2 DEF Key, NoKey
                <5>2. Slot(n) # Slot(t + 1)
                    BY <2>3, <3>1, <3>2, <5>1
                <5>3. QED
                    BY <2>3, <2>4, <2>5, <3>2, <5>1, <5>2
            <4>3. QED
                BY <4>1, <4>2
        <3>4. ASSUME NEW s \in Slots, buffer'[p][s] # NoKey
              PROVE  \E n \in head[p] + 1 .. t + 1 : Slot(n) = s
            BY <2>1, <2>3, <3>2, <3>4
        <3>5. QED
            BY <2>1, <3>2, <3>3, <3>4
    <2>12. QED
        BY <2>7, <2>8, <2>9, <2>10, <2>11 DEF RingInv
<1>5. QED
    BY <1>3, <1>4

\* A pop clears the slot at head and moves its key to those read.
LEMMA PopKeeps ==
    ASSUME IInv, KeyboardPop, NEW p \in Proc
    PROVE  RingInv(p)'
<1> DEFINE q == current_task  h == head[p]  s0 == HeadSlot(p)  k == buffer[p][s0]
<1>1. q \in Proc /\ typed \in Nat /\ typed' = typed /\ lapped' = lapped /\ sent' = sent /\ tail' = tail
    BY KeyboardAssumption DEF IInv, KeyboardTypeOK, KeyboardPop, Key, ring
<1>2. RingInv(p) /\ KeyboardTypeOK
    BY DEF IInv
<1>3. CASE p # q \/ k = NoKey
    <2>1. delivered'[p] = delivered[p] /\ buffer'[p] = buffer[p] /\ head'[p] = head[p]
        BY <1>1, <1>3 DEF IInv, KeyboardTypeOK, KeyboardPop, Cleared, ring
    <2>2. QED
        BY <1>1, <1>2, <2>1, RingUntouched
<1>4. CASE p = q /\ k # NoKey
    <2>1. /\ h \in Nat /\ tail[p] \in Nat /\ tail[p] = Len(sent[p]) /\ sent[p] \in Seq(Key)
          /\ delivered[p] \in Seq(Key) /\ buffer[p] \in [Slots -> Key \cup {NoKey}]
        BY <1>2 DEF IInv, KeyboardTypeOK, RingInv, SentInOrder
    <2>2. s0 = Slot(h + 1) /\ s0 \in Slots /\ k \in Key
        <3>1. s0 = Slot(h + 1) /\ s0 \in Slots
            BY <2>1, NextSlot DEF HeadSlot
        <3>2. QED
            BY <1>4, <2>1, <3>1
    <2>3. /\ delivered'[p] = Append(delivered[p], k) /\ head'[p] = h + 1
          /\ \A s \in Slots : buffer'[p][s] = IF s = s0 THEN NoKey ELSE buffer[p][s]
        BY <1>1, <1>4, <2>2 DEF IInv, KeyboardTypeOK, KeyboardPop, Cleared
    <2> DEFINE d == Len(delivered[p])
    <2>4. /\ d \in Nat /\ delivered'[p] \in Seq(Key) /\ Len(delivered'[p]) = d + 1
          /\ delivered'[p][d + 1] = k /\ \A i \in 1 .. d : delivered'[p][i] = delivered[p][i]
          /\ \A i \in 1 .. d : delivered[p][i] \in Key
        BY <2>1, <2>2, <2>3, AppendProperties, ElementOfSeq, LenProperties
    <2>5. PICK m \in 1 .. Len(sent[p]) : Slot(m) = s0 /\ sent[p][m] = k
        BY <1>2, <1>4, <2>2 DEF RingInv, SlotsHoldSent
    <2>6. \A n \in 1 .. Len(sent[p]) : Slot(n) \in Slots /\ sent[p][n] \in Key
        BY <2>1, SlotInRing, ElementOfSeq
    \* No other slot holds this key: it would have been sent twice.
    <2>7. ASSUME NEW s \in Slots, s # s0 PROVE buffer[p][s] # k
        <3>1. SUFFICES ASSUME buffer[p][s] = k PROVE FALSE
            OBVIOUS
        <3>2. PICK n \in 1 .. Len(sent[p]) : Slot(n) = s /\ sent[p][n] = k
            BY <1>2, <1>4, <2>7, <3>1 DEF RingInv, SlotsHoldSent
        <3>3. m # n /\ m \in Nat /\ n \in Nat
            BY <2>1, <2>5, <2>7, <3>2
        <3>4. sent[p][m] # sent[p][n]
            BY <1>2, <2>6, <3>3, KeyboardAssumption DEF RingInv, SentInOrder, Key
        <3>5. QED
            BY <2>5, <3>2, <3>4
    <2> HIDE DEF q, h, s0, k, d
    <2>8. SentInOrder(p)'
        BY <1>1, <1>2 DEF RingInv, SentInOrder
    <2>9. ReadAndGone(p)'
        <3>1. \A i \in 1 .. d + 1 : \E n \in 1 .. Len(sent[p]) : sent[p][n] = delivered'[p][i]
            BY <1>2, <2>4, <2>5 DEF RingInv, ReadAndGone, d
        <3>2. \A i \in 1 .. d : delivered[p][i] # k
            BY <1>2, <2>2 DEF RingInv, ReadAndGone, d, k
        <3>3. \A i, j \in 1 .. d + 1 : i # j => delivered'[p][i] # delivered'[p][j]
            <4>1. \A i, j \in 1 .. d : i # j => delivered[p][i] # delivered[p][j]
                BY <1>2 DEF RingInv, ReadAndGone, d
            <4>2. \A i \in 1 .. d + 1 : i \in 1 .. d \/ i = d + 1
                BY <2>4
            <4>3. \A i \in 1 .. d : delivered'[p][i] = delivered[p][i] /\ delivered'[p][i] # k
                BY <2>4, <3>2
            <4>4. delivered'[p][d + 1] = k
                BY <2>4
            <4>5. QED
                BY <4>1, <4>2, <4>3, <4>4
        <3>4. \A i \in 1 .. d + 1, s \in Slots : buffer'[p][s] # delivered'[p][i]
            <4>1. \A i \in 1 .. d, s \in Slots : buffer[p][s] # delivered[p][i]
                BY <1>2 DEF RingInv, ReadAndGone, d
            <4>2. \A i \in 1 .. d + 1 : delivered'[p][i] # NoKey
                BY <2>2, <2>4 DEF Key, NoKey
            <4>3. \A i \in 1 .. d + 1 : i \in 1 .. d \/ i = d + 1
                BY <2>4
            <4>4. \A s \in Slots : buffer'[p][s] # k
                BY <2>2, <2>3, <2>7 DEF Key, NoKey
            <4>5. \A i \in 1 .. d, s \in Slots : buffer'[p][s] # delivered'[p][i]
                BY <2>3, <2>4, <4>1, <4>2
            <4>6. QED
                BY <2>4, <4>3, <4>4, <4>5
        <3>5. QED
            BY <1>1, <2>4, <3>1, <3>3, <3>4 DEF ReadAndGone
    <2>10. SlotsHoldSent(p)'
        BY <1>1, <1>2, <2>3 DEF RingInv, SlotsHoldSent
    <2>11. NoneForgotten(p)'
        <3>1. ASSUME NEW n \in 1 .. Len(sent[p])
              PROVE  \/ buffer'[p][Slot(n)] = sent[p][n]
                     \/ \E i \in 1 .. d + 1 : delivered'[p][i] = sent[p][n]
                     \/ n + Size <= Len(sent[p])
            <4>1. CASE Slot(n) = s0 /\ buffer[p][Slot(n)] = sent[p][n]
                BY <2>4, <4>1 DEF k
            <4>2. CASE Slot(n) # s0 /\ buffer[p][Slot(n)] = sent[p][n]
                BY <2>3, <2>6, <4>2
            <4>3. CASE \E i \in 1 .. d : delivered[p][i] = sent[p][n]
                BY <2>4, <4>3
            <4>4. QED
                BY <1>2, <4>1, <4>2, <4>3 DEF RingInv, NoneForgotten, d
        <3>2. QED
            BY <1>1, <2>4, <3>1 DEF NoneForgotten
    <2>12. FirstInFirstOut(p)'
        <3>1. SUFFICES ASSUME p \notin lapped
              PROVE  /\ h + 1 <= tail[p]
                     /\ \A n \in h + 2 .. tail[p] : buffer'[p][Slot(n)] = sent[p][n]
                     /\ \A s \in Slots : buffer'[p][s] # NoKey => \E n \in h + 2 .. tail[p] : Slot(n) = s
            BY <1>1, <2>1, <2>3 DEF FirstInFirstOut
        <3>2. /\ \A n \in h + 1 .. tail[p] : buffer[p][Slot(n)] = sent[p][n]
              /\ \A s \in Slots : buffer[p][s] # NoKey => \E n \in h + 1 .. tail[p] : Slot(n) = s
            BY <1>2, <3>1 DEF RingInv, FirstInFirstOut, h
        <3>3. h + 1 <= tail[p]
            BY <1>4, <2>1, <2>2, <3>2 DEF k
        <3>4. ASSUME NEW n \in h + 2 .. tail[p] PROVE buffer'[p][Slot(n)] = sent[p][n]
            <4>1. n \in 1 .. Len(sent[p]) /\ h + 1 \in 1 .. Len(sent[p]) /\ h + 1 < n
                BY <2>1, <3>4
            <4>2. sent[p][h + 1] # sent[p][n]
                BY <1>2, <2>6, <4>1, KeyboardAssumption DEF RingInv, SentInOrder, Key
            <4>3. buffer[p][Slot(n)] = sent[p][n] /\ buffer[p][Slot(h + 1)] = sent[p][h + 1]
                BY <2>1, <3>2, <4>1, <3>4
            <4>4. QED
                BY <2>2, <2>3, <2>6, <4>1, <4>2, <4>3
        <3>5. ASSUME NEW s \in Slots, buffer'[p][s] # NoKey
              PROVE  \E n \in h + 2 .. tail[p] : Slot(n) = s
            <4>1. s # s0 /\ buffer[p][s] # NoKey
                BY <2>3, <3>5
            <4>2. PICK n \in h + 1 .. tail[p] : Slot(n) = s
                BY <3>2, <4>1
            <4>3. n \in h + 2 .. tail[p]
                BY <2>1, <2>2, <4>1, <4>2
            <4>4. QED
                BY <4>2, <4>3
        <3>6. QED
            BY <3>3, <3>4, <3>5
    <2>13. QED
        BY <2>8, <2>9, <2>10, <2>11, <2>12 DEF RingInv
<1>5. QED
    BY <1>3, <1>4

-----------------------------------------------------------------------------
LEMMA RingsInit == Init => IInv
<1> SUFFICES ASSUME Init PROVE IInv
    OBVIOUS
<1>1. KeyboardTypeOK
    BY DEF Init, KeyboardTypeOK, NoKey
<1>2. <<>> \in Seq(Key) /\ Len(<<>>) = 0
    OBVIOUS
<1>3. sent \in [Proc -> Seq(Key)] /\ delivered \in [Proc -> Seq(Key)]
    BY <1>2 DEF Init
<1>4. ASSUME NEW p \in Proc PROVE RingInv(p)
    <2>1. /\ sent[p] = <<>> /\ delivered[p] = <<>> /\ head[p] = 0 /\ tail[p] = 0
          /\ \A s \in Slots : buffer[p][s] = NoKey
        BY DEF Init
    <2>2. SentInOrder(p) /\ ReadAndGone(p) /\ SlotsHoldSent(p) /\ NoneForgotten(p)
        BY <1>2, <2>1 DEF SentInOrder, ReadAndGone, SlotsHoldSent, NoneForgotten
    <2>3. FirstInFirstOut(p)
        BY <2>1 DEF FirstInFirstOut
    <2>4. QED
        BY <2>2, <2>3 DEF RingInv
<1>5. QED
    BY <1>1, <1>3, <1>4 DEF IInv, Init

\* A new object's ring has its types.
LEMMA FreshTypes ==
    ASSUME IInv, NEW q \in Proc, Fresh(q)
    PROVE  /\ processes' \subseteq Proc /\ q \in processes' /\ processes \subseteq processes'
           /\ buffer' \in [Proc -> [Slots -> Key \cup {NoKey}]]
           /\ head' \in [Proc -> Nat] /\ tail' \in [Proc -> Nat]
           /\ got' \in Key \cup {NoKey} /\ typed' \in Key \cup {0} /\ lapped' \subseteq Proc
           /\ sent' \in [Proc -> Seq(Key)] /\ delivered' \in [Proc -> Seq(Key)]
<1>1. <<>> \in Seq(Key) /\ [i \in Slots |-> NoKey] \in [Slots -> Key \cup {NoKey}]
    OBVIOUS
<1>2. QED
    BY <1>1 DEF IInv, KeyboardTypeOK, Fresh

\* A slot that is filled or cleared leaves buffers.
LEMMA SlotAssigned ==
    ASSUME NEW b \in [Proc -> [Slots -> Key \cup {NoKey}]], NEW p \in Proc, NEW s \in Slots,
           NEW v \in Key \cup {NoKey}
    PROVE  [b EXCEPT ![p][s] = v] \in [Proc -> [Slots -> Key \cup {NoKey}]]
<1>1. [b[p] EXCEPT ![s] = v] \in [Slots -> Key \cup {NoKey}]
    OBVIOUS
<1>2. QED
    BY <1>1

\* Whoever runs, a step keeps the types.
LEMMA TypesKept ==
    ASSUME IInv, Next
    PROVE  /\ KeyboardTypeOK' /\ (current_task = NULL => processes = {})'
           /\ (sent \in [Proc -> Seq(Key)] /\ delivered \in [Proc -> Seq(Key)])'
<1>1. CASE \E q \in Proc : Start(q)
    BY <1>1, FreshTypes, KeyboardAssumption DEF Start, KeyboardTypeOK
<1>2. CASE \E q \in Proc : StartWithoutArguments(q)
    <2>1. PICK q \in Proc : StartWithoutArguments(q)
        BY <1>2
    <2>2. Fresh(q) /\ current_process' = q /\ current_task' = current_task
          /\ current_task \in processes /\ current_task # NULL
        BY <2>1, KeyboardAssumption DEF StartWithoutArguments, IInv, KeyboardTypeOK
    <2>3. QED
        BY <2>2, FreshTypes, KeyboardAssumption DEF KeyboardTypeOK
<1>3. CASE \E q \in Proc : Exit(q)
    BY <1>3, KeyboardAssumption DEF Exit, IInv, KeyboardTypeOK
<1>4. CASE KeyboardPush
    <2>1. /\ current_process \in Proc /\ tail[current_process] \in Nat /\ typed + 1 \in Key
          /\ Append(sent[current_process], typed + 1) \in Seq(Key)
        BY <1>4, KeyboardAssumption DEF KeyboardPush, IInv, KeyboardTypeOK
    <2>2. /\ tail' \in [Proc -> Nat]
          /\ lapped' \subseteq Proc /\ sent' \in [Proc -> Seq(Key)] /\ typed' \in Key
        BY <1>4, <2>1 DEF KeyboardPush, IInv, KeyboardTypeOK
    <2>3. buffer' = Stored(current_process, typed + 1) /\ TailSlot(current_process) \in Slots
        BY <1>4, <2>1, NextSlot DEF KeyboardPush, TailSlot
    <2>4. buffer' \in [Proc -> [Slots -> Key \cup {NoKey}]]
        BY <2>1, <2>3, SlotAssigned DEF Stored, IInv, KeyboardTypeOK
    <2>5. QED
        BY <1>4, <2>2, <2>4 DEF KeyboardPush, who, IInv, KeyboardTypeOK
<1>5. CASE KeyboardPushDropped
    BY <1>5 DEF KeyboardPushDropped, who, ring, IInv, KeyboardTypeOK
<1>6. CASE KeyboardPop
    <2> DEFINE q == current_task  k == buffer[q][HeadSlot(q)]
    <2>1. q \in Proc /\ head[q] \in Nat
        BY <1>6, KeyboardAssumption DEF KeyboardPop, IInv, KeyboardTypeOK
    <2>2. HeadSlot(q) \in Slots
        BY <2>1, NextSlot DEF HeadSlot
    <2>3. k \in Key \cup {NoKey} /\ (k # NoKey => Append(delivered[q], k) \in Seq(Key))
        BY <2>1, <2>2 DEF IInv, KeyboardTypeOK
    <2>4. head' \in [Proc -> Nat] /\ delivered' \in [Proc -> Seq(Key)] /\ tail' = tail
        <3>1. CASE k = NoKey
            BY <1>6, <3>1 DEF KeyboardPop, ring, IInv, KeyboardTypeOK
        <3>2. CASE k # NoKey
            <4>1. /\ head' = [head EXCEPT ![q] = @ + 1] /\ tail' = tail
                  /\ delivered' = [delivered EXCEPT ![q] = Append(@, k)]
                BY <1>6, <3>2 DEF KeyboardPop
            <4> HIDE DEF q, k
            <4>2. QED
                BY <2>1, <2>3, <3>2, <4>1 DEF IInv, KeyboardTypeOK
        <3>3. QED
            BY <3>1, <3>2
    <2>5. Cleared(q) \in [Proc -> [Slots -> Key \cup {NoKey}]]
        BY <2>1, <2>2, SlotAssigned DEF Cleared, IInv, KeyboardTypeOK
    <2>6. buffer' = buffer \/ buffer' = Cleared(q)
        BY <1>6 DEF KeyboardPop, ring
    <2>7. QED
        BY <1>6, <2>3, <2>4, <2>5, <2>6 DEF KeyboardPop, who, IInv, KeyboardTypeOK
<1>7. QED
    BY <1>1, <1>2, <1>3, <1>4, <1>5, <1>6 DEF Next

LEMMA RingsNext == IInv /\ [Next]_vars => IInv'
<1> SUFFICES ASSUME IInv, [Next]_vars PROVE IInv'
    OBVIOUS
<1>1. CASE UNCHANGED vars
    BY <1>1 DEF vars, IInv, KeyboardTypeOK, RingInv, SentInOrder, ReadAndGone, SlotsHoldSent,
                NoneForgotten, FirstInFirstOut
<1>2. CASE Next
    <2>1. ASSUME NEW p \in Proc PROVE RingInv(p)'
        <3>1. CASE \E q \in Proc : Fresh(q)
            BY <3>1, FreshKeeps
        <3>2. CASE KeyboardPush
            BY <3>2, PushKeeps
        <3>3. CASE KeyboardPop
            BY <3>3, PopKeeps
        <3>4. CASE (\E q \in Proc : Exit(q)) \/ KeyboardPushDropped
            <4>1. RingInv(p) /\ typed \in Nat
                BY KeyboardAssumption DEF IInv, KeyboardTypeOK, Key
            <4>2. /\ sent' = sent /\ delivered' = delivered /\ buffer' = buffer /\ head' = head
                  /\ tail' = tail /\ lapped' = lapped /\ typed' \in Nat /\ typed <= typed'
                BY <3>4, <4>1 DEF Exit, KeyboardPushDropped, ring
            <4>3. QED
                BY <4>1, <4>2, RingUntouched
        <3>5. QED
            BY <1>2, <3>1, <3>2, <3>3, <3>4 DEF Next, Start, StartWithoutArguments
    <2>2. QED
        BY <1>2, <2>1, TypesKept DEF IInv
<1>3. QED
    BY <1>1, <1>2

LEMMA RingsAlways == Spec => []IInv
BY RingsInit, RingsNext, PTL DEF Spec

-----------------------------------------------------------------------------
LEMMA IInvAccounts == IInv => KeysAccounted
<1> SUFFICES ASSUME IInv PROVE KeysAccounted
    OBVIOUS
<1>1. ASSUME NEW p \in Proc
      PROVE  /\ RingInv(p) /\ DOMAIN sent[p] = 1 .. Len(sent[p]) /\ sent[p] \in Seq(Key)
             /\ DOMAIN delivered[p] = 1 .. Len(delivered[p])
    BY LenProperties DEF IInv
<1>2. KeyReadOnce
    BY <1>1 DEF KeyReadOnce, RingInv, ReadAndGone
<1>3. ASSUME NEW p \in Proc, NEW n \in 1 .. Len(sent[p]), buffer[p][Slot(n)] = sent[p][n]
      PROVE  sent[p][n] \in Unread(p)
    <2>1. n \in Nat \ {0} /\ sent[p][n] \in Key
        BY <1>1, LenProperties, ElementOfSeq
    <2>2. Slot(n) \in Slots
        BY <2>1, SlotInRing
    <2>3. QED
        BY <1>3, <2>1, <2>2 DEF Unread, Key, NoKey
<1>4. LostOnlyToNewerKeys
    BY <1>1, <1>3 DEF LostOnlyToNewerKeys, RingInv, NoneForgotten
<1>5. QED
    BY <1>2, <1>4 DEF KeysAccounted, IInv

\* Whatever is typed, read, started and stopped, and however often rings are
\* lapped: no key is read twice or by a process it was not typed for, and none is
\* lost but to a whole ring of newer ones (keyboard.c:63-100).
THEOREM KeyboardAccounts == Spec => []KeysAccounted
BY RingsAlways, IInvAccounts, PTL

-----------------------------------------------------------------------------
\* The queue of KeyQueue.tla that the rings stand for.
Unlapped == [p \in Proc |-> IF p \in lapped THEN <<>> ELSE Contents(p)]

LEMMA FunctionIsSeq ==
    ASSUME NEW n \in Nat, NEW S, NEW f \in [1 .. n -> S]
    PROVE  f \in Seq(S) /\ Len(f) = n
<1>1. f \in Seq(S)
    BY SeqDef
<1>2. Len(f) \in Nat /\ 1 .. n = 1 .. Len(f)
    BY <1>1, LenProperties
<1>3. QED
    BY <1>1, <1>2

\* A ring further on, the slots come round again.
LEMMA SlotComesRound == ASSUME NEW n \in Nat \ {0} PROVE Slot(n + Size) = Slot(n)
<1> DEFINE a == n - 1  b == (n + Size) - 1  qa == a \div Size  qb == b \div Size
<1>1. Size \in Nat \ {0} /\ a \in Nat /\ b \in Nat /\ b = a + Size
    BY KeyboardAssumption
<1>2. /\ qa \in Int /\ a = Size * qa + (a % Size) /\ a % Size \in 0 .. Size - 1
      /\ qb \in Int /\ b = Size * qb + (b % Size) /\ b % Size \in 0 .. Size - 1
    BY <1>1
<1> DEFINE d == qb - qa - 1
<1>3. d \in Int /\ Size * d = (a % Size) - (b % Size)
    BY <1>1, <1>2
<1>4. d < 1
    <2>1. d >= 1 => Size * d >= Size
        BY <1>1, <1>3
    <2>2. QED
        BY <1>1, <1>2, <1>3, <2>1
<1>5. d > -1
    <2>1. d <= -1 => Size * d <= -Size
        BY <1>1, <1>3
    <2>2. QED
        BY <1>1, <1>2, <1>3, <2>1
<1>6. Size * d = 0
    BY <1>1, <1>3, <1>4, <1>5
<1>7. QED
    BY <1>1, <1>2, <1>3, <1>6 DEF Slot

\* What is unread of a ring that was not lapped is what was sent last.
ContentsSent ==
    \A p \in Proc : p \notin lapped =>
        /\ head[p] \in Nat /\ tail[p] \in Nat /\ head[p] <= tail[p] /\ tail[p] - head[p] <= Size
        /\ Contents(p) \in Seq(Key) /\ Len(Contents(p)) = tail[p] - head[p]
        /\ \A i \in 1 .. tail[p] - head[p] :
               Contents(p)[i] = sent[p][head[p] + i] /\ Contents(p)[i] \in Key

LEMMA ContentsAreSent == IInv => ContentsSent
<1> SUFFICES ASSUME IInv, NEW p \in Proc, p \notin lapped
    PROVE  /\ head[p] \in Nat /\ tail[p] \in Nat /\ head[p] <= tail[p] /\ tail[p] - head[p] <= Size
           /\ Contents(p) \in Seq(Key) /\ Len(Contents(p)) = tail[p] - head[p]
           /\ \A i \in 1 .. tail[p] - head[p] :
                  Contents(p)[i] = sent[p][head[p] + i] /\ Contents(p)[i] \in Key
    BY DEF ContentsSent
<1> DEFINE h == head[p]  t == tail[p]
<1>1. /\ h \in Nat /\ t \in Nat /\ h <= t /\ t = Len(sent[p]) /\ sent[p] \in Seq(Key)
      /\ \A n \in h + 1 .. t : buffer[p][Slot(n)] = sent[p][n]
    BY DEF IInv, KeyboardTypeOK, RingInv, SentInOrder, FirstInFirstOut
<1>2. \A n \in 1 .. t : sent[p][n] \in Key
    BY <1>1, ElementOfSeq
<1>3. ASSUME NEW i \in 1 .. t - h
      PROVE  Contents(p)[i] = sent[p][h + i] /\ Contents(p)[i] \in Key
    <2>1. h + i \in h + 1 .. t /\ h + i \in 1 .. t
        BY <1>1
    <2>2. Contents(p)[i] = buffer[p][Slot(h + i)]
        BY <1>1, <2>1 DEF Contents, Slot
    <2>3. QED
        BY <1>1, <1>2, <2>1, <2>2
<1>4. Contents(p) \in [1 .. t - h -> Key] /\ t - h \in Nat
    BY <1>1, <1>3 DEF Contents
<1>5. t - h <= Size
    <2>1. SUFFICES ASSUME h + 1 + Size <= t PROVE FALSE
        BY <1>1, KeyboardAssumption
    <2> DEFINE m == h + 1  n == m + Size
    <2>2. m \in Nat \ {0} /\ m \in h + 1 .. t /\ n \in h + 1 .. t /\ m < n /\ m \in 1 .. t /\ n \in 1 .. t
        BY <1>1, <2>1, KeyboardAssumption
    <2>3. Slot(n) = Slot(m)
        BY <2>2, SlotComesRound
    <2> HIDE DEF m, n
    <2>4. sent[p][m] = sent[p][n]
        BY <1>1, <2>2, <2>3
    <2>5. sent[p][m] < sent[p][n] /\ sent[p][m] \in Key
        BY <1>1, <1>2, <2>2 DEF IInv, RingInv, SentInOrder
    <2>6. QED
        BY <2>4, <2>5, KeyboardAssumption DEF Key
<1>6. QED
    BY <1>1, <1>3, <1>4, <1>5, FunctionIsSeq

\* A ring that no character was put into or taken from stands for the same queue.
LEMMA SameContents ==
    ASSUME NEW p \in Proc, head'[p] = head[p], tail'[p] = tail[p], buffer'[p] = buffer[p],
           p \in lapped <=> p \in lapped'
    PROVE  Unlapped'[p] = Unlapped[p]
<1>1. Contents(p)' = Contents(p)
    BY DEF Contents
<1>2. QED
    BY <1>1 DEF Unlapped

LEMMA FreshOpens ==
    ASSUME IInv, IInv', NEW q \in Proc, Fresh(q)
    PROVE  Queue!Open(q)
<1>0. ContentsSent'
    BY ContentsAreSent, PTL
<1>1. ASSUME NEW p \in Proc, p # q PROVE Unlapped'[p] = Unlapped[p]
    <2>1. /\ head'[p] = head[p] /\ tail'[p] = tail[p] /\ buffer'[p] = buffer[p]
          /\ p \in lapped <=> p \in lapped'
        BY <1>1 DEF Fresh
    <2>2. QED
        BY <2>1, SameContents
<1>2. Unlapped'[q] = <<>>
    <2>1. q \notin lapped' /\ head'[q] = 0 /\ tail'[q] = 0
        BY DEF Fresh, IInv, KeyboardTypeOK
    <2>2. Contents(q)' \in Seq(Key) /\ Len(Contents(q)') = 0
        BY <1>0, <2>1 DEF ContentsSent
    <2>3. Contents(q)' = <<>>
        BY <2>2, EmptySeq
    <2>4. QED
        BY <2>1, <2>3 DEF Unlapped
<1>3. Unlapped' = [Unlapped EXCEPT ![q] = <<>>]
    BY <1>1, <1>2 DEF Unlapped
<1>4. lapped' = lapped \ {q} /\ got' = got
    BY DEF Fresh
<1>5. QED
    BY <1>3, <1>4 DEF Queue!Open, Unlapped

\* A push is a key of the queue, the overflow of one that is full, or, into a ring
\* that was lapped, nothing the queue promises anything about.
LEMMA PushTypes ==
    ASSUME IInv, IInv', KeyboardPush
    PROVE  [Queue!Next]_<<Unlapped, lapped, got>>
<1>1. PICK q \in Proc, k \in Key :
          q = current_process /\ k = typed + 1 /\ got' = got /\ head' = head
    BY KeyboardAssumption DEF IInv, KeyboardTypeOK, KeyboardPush
<1> DEFINE h == head[q]  t == tail[q]
<1>2. h \in Nat /\ t \in Nat /\ TailSlot(q) = Slot(t + 1) /\ TailSlot(q) \in Slots
    <2>1. h \in Nat /\ t \in Nat
        BY DEF IInv, KeyboardTypeOK
    <2>2. QED
        BY <2>1, NextSlot DEF TailSlot
<1>3. tail'[q] = t + 1 /\ sent'[q] = Append(sent[q], k)
    BY <1>1 DEF IInv, KeyboardTypeOK, KeyboardPush
<1>4. ASSUME NEW p \in Proc, p # q PROVE Unlapped'[p] = Unlapped[p]
    <2>1. /\ head'[p] = head[p] /\ tail'[p] = tail[p] /\ buffer'[p] = buffer[p]
          /\ p \in lapped <=> p \in lapped'
        BY <1>1, <1>4 DEF IInv, KeyboardTypeOK, KeyboardPush, Stored
    <2>2. QED
        BY <2>1, SameContents
<1>5. ContentsSent /\ ContentsSent'
    BY ContentsAreSent, PTL
<1>6. CASE q \in lapped
    <2>1. lapped' = lapped
        BY <1>1, <1>6 DEF KeyboardPush
    <2>2. Unlapped' = Unlapped
        BY <1>1, <1>4, <1>6, <2>1 DEF Unlapped
    <2>3. QED
        BY <1>1, <2>1, <2>2
<1>7. CASE q \notin lapped
    <2>1. /\ h <= t /\ t - h <= Size /\ t = Len(sent[q]) /\ sent[q] \in Seq(Key)
          /\ Contents(q) \in Seq(Key) /\ Len(Contents(q)) = t - h
          /\ \A i \in 1 .. t - h : Contents(q)[i] = sent[q][h + i]
          /\ Unlapped[q] = Contents(q)
        BY <1>1, <1>5, <1>7 DEF ContentsSent, Unlapped, IInv, RingInv, SentInOrder
    <2>2. CASE buffer[q][TailSlot(q)] = NoKey
        <3>1. lapped' = lapped
            BY <1>1, <2>2 DEF KeyboardPush
        \* A full ring has its oldest key in the slot tail points at.
        <3>2. t - h # Size
            <4>1. SUFFICES ASSUME t = h + Size PROVE FALSE
                BY <1>2, KeyboardAssumption
            <4>2. h + 1 \in Nat \ {0} /\ h + 1 \in h + 1 .. t /\ h + 1 \in 1 .. t /\ t + 1 = (h + 1) + Size
                BY <1>2, <4>1, KeyboardAssumption
            <4>3. Slot(t + 1) = Slot(h + 1)
                BY <4>2, SlotComesRound
            <4>4. buffer[q][Slot(h + 1)] = sent[q][h + 1] /\ sent[q][h + 1] \in Key
                BY <1>1, <1>7, <2>1, <4>2, ElementOfSeq DEF IInv, RingInv, FirstInFirstOut
            <4>5. QED
                BY <1>2, <2>2, <4>3, <4>4 DEF Key, NoKey
        <3>3. /\ Contents(q)' \in Seq(Key) /\ Len(Contents(q)') = t + 1 - h
              /\ \A i \in 1 .. t + 1 - h : Contents(q)'[i] = sent'[q][h + i]
            <4>1. tail'[q] - head'[q] = t + 1 - h /\ head'[q] = h
                BY <1>1, <1>2, <1>3
            <4>2. /\ Contents(q)' \in Seq(Key) /\ Len(Contents(q)') = tail'[q] - head'[q]
                  /\ \A i \in 1 .. tail'[q] - head'[q] : Contents(q)'[i] = sent'[q][head'[q] + i]
                BY <1>5, <1>7, <3>1 DEF ContentsSent
            <4>3. QED
                BY <4>1, <4>2
        <3>4. /\ Append(Contents(q), k) \in Seq(Key) /\ Len(Append(Contents(q), k)) = t - h + 1
              /\ \A i \in 1 .. t - h : Append(Contents(q), k)[i] = Contents(q)[i]
              /\ Append(Contents(q), k)[t - h + 1] = k
            BY <1>1, <2>1, AppendProperties
        <3>5. sent'[q][t + 1] = k /\ \A n \in 1 .. t : sent'[q][n] = sent[q][n]
            BY <1>1, <1>2, <1>3, <2>1, AppendProperties
        <3>6. ASSUME NEW i \in 1 .. t + 1 - h PROVE Contents(q)'[i] = Append(Contents(q), k)[i]
            <4>1. (i \in 1 .. t - h /\ h + i \in 1 .. t) \/ (i = t - h + 1 /\ h + i = t + 1)
                <5>1. h \in Nat /\ t \in Nat /\ h <= t
                    BY <1>2, <2>1
                <5> HIDE DEF h, t
                <5>2. QED
                    BY <5>1
            <4>2. QED
                BY <2>1, <3>3, <3>4, <3>5, <4>1
        <3>7. t + 1 - h = t - h + 1
            BY <1>2
        <3>8. Contents(q)' = Append(Contents(q), k)
            BY <3>3, <3>4, <3>6, <3>7, SeqEqual
        <3>9. Unlapped' = [Unlapped EXCEPT ![q] = Append(@, k)]
            BY <1>1, <1>4, <1>7, <2>1, <3>1, <3>8 DEF Unlapped
        <3>10. Len(Unlapped[q]) < Size
            BY <1>2, <2>1, <3>2, KeyboardAssumption
        <3>11. Queue!Type(q, k)
            BY <1>1, <1>7, <3>1, <3>9, <3>10 DEF Queue!Type, Unlapped
        <3>12. QED
            BY <1>1, <3>11 DEF Queue!Next
    <2>3. CASE buffer[q][TailSlot(q)] # NoKey
        <3>1. lapped' = lapped \cup {q}
            BY <1>1, <2>3 DEF KeyboardPush
        <3>2. PICK n \in h + 1 .. t : Slot(n) = Slot(t + 1)
            BY <1>1, <1>2, <1>7, <2>3 DEF IInv, RingInv, FirstInFirstOut
        <3>3. n + Size <= t + 1
            BY <1>2, <3>2, SameSlot
        <3>4. Len(Unlapped[q]) = Size
            BY <1>2, <2>1, <3>2, <3>3, KeyboardAssumption
        <3>5. Unlapped' = [Unlapped EXCEPT ![q] = <<>>]
            BY <1>1, <1>4, <3>1 DEF Unlapped
        <3>6. Queue!Overflow(q)
            BY <1>1, <1>7, <3>1, <3>4, <3>5 DEF Queue!Overflow, Unlapped
        <3>7. QED
            BY <1>1, <3>6 DEF Queue!Next
    <2>4. QED
        BY <2>2, <2>3
<1>8. QED
    BY <1>6, <1>7

\* A pop reads the queue of a ring that was not lapped, and is not told apart from
\* any answer by one that was.
LEMMA PopReads ==
    ASSUME IInv, IInv', KeyboardPop
    PROVE  [Queue!Next]_<<Unlapped, lapped, got>>
<1>1. PICK q \in Proc : q = current_task /\ lapped' = lapped /\ sent' = sent
    BY KeyboardAssumption DEF IInv, KeyboardTypeOK, KeyboardPop
<1> DEFINE h == head[q]  t == tail[q]  k == buffer[q][HeadSlot(q)]
<1>2. h \in Nat /\ t \in Nat /\ HeadSlot(q) = Slot(h + 1) /\ k \in Key \cup {NoKey} /\ got' = k
    <2>1. h \in Nat /\ t \in Nat
        BY DEF IInv, KeyboardTypeOK
    <2>2. HeadSlot(q) = Slot(h + 1) /\ HeadSlot(q) \in Slots
        BY <2>1, NextSlot DEF HeadSlot
    <2>3. QED
        BY <1>1, <2>1, <2>2 DEF KeyboardPop, IInv, KeyboardTypeOK
<1>3. ASSUME NEW p \in Proc, p # q PROVE Unlapped'[p] = Unlapped[p]
    <2>1. head'[p] = head[p] /\ tail'[p] = tail[p] /\ buffer'[p] = buffer[p]
        BY <1>1, <1>3 DEF IInv, KeyboardTypeOK, KeyboardPop, Cleared, ring
    <2>2. QED
        BY <1>1, <2>1, SameContents
<1>4. ContentsSent /\ ContentsSent'
    BY ContentsAreSent, PTL
<1>5. CASE q \in lapped
    <2>1. Unlapped' = Unlapped
        BY <1>1, <1>3, <1>5 DEF Unlapped
    <2>2. Queue!ReadLapped(q)
        BY <1>1, <1>2, <1>5, <2>1 DEF Queue!ReadLapped, Unlapped
    <2>3. QED
        BY <2>2 DEF Queue!Next
<1>6. CASE q \notin lapped
    <2>1. /\ h <= t /\ Contents(q) \in Seq(Key) /\ Len(Contents(q)) = t - h
          /\ \A i \in 1 .. t - h : Contents(q)[i] = sent[q][h + i] /\ Contents(q)[i] \in Key
          /\ \A n \in h + 1 .. t : buffer[q][Slot(n)] = sent[q][n]
          /\ \A s \in Slots : buffer[q][s] # NoKey => \E n \in h + 1 .. t : Slot(n) = s
          /\ Unlapped[q] = Contents(q)
        BY <1>4, <1>6 DEF ContentsSent, Unlapped, IInv, RingInv, FirstInFirstOut
    <2>2. CASE k = NoKey
        <3>1. h = t
            <4>1. SUFFICES ASSUME h < t PROVE FALSE
                BY <1>2, <2>1
            <4>2. h + 1 \in h + 1 .. t /\ 1 \in 1 .. t - h
                BY <1>2, <4>1
            <4>3. k \in Key
                BY <1>2, <2>1, <4>2
            <4>4. QED
                BY <2>2, <4>3 DEF Key, NoKey
        <3>2. Unlapped[q] = <<>>
            BY <1>2, <2>1, <3>1, EmptySeq
        <3>3. head' = head /\ tail' = tail /\ buffer' = buffer
            BY <1>1, <2>2 DEF KeyboardPop, ring
        <3>4. Unlapped' = Unlapped
            BY <1>1, <3>3, SameContents DEF Unlapped
        <3>5. Queue!Read(q)
            BY <1>1, <1>2, <1>6, <2>2, <3>2, <3>4 DEF Queue!Read, Unlapped
        <3>6. QED
            BY <3>5 DEF Queue!Next
    <2>3. CASE k # NoKey
        <3>1. head'[q] = h + 1 /\ tail'[q] = t
            BY <1>1, <2>3 DEF KeyboardPop, IInv, KeyboardTypeOK
        <3>2. tail'[q] - head'[q] = t - h - 1 /\ h < t /\ Contents(q) # <<>>
            <4>1. head'[q] <= tail'[q]
                BY <1>1, <1>4, <1>6 DEF ContentsSent
            <4>2. QED
                BY <1>2, <2>1, <3>1, <4>1, EmptySeq
        <3>3. /\ Contents(q)' \in Seq(Key) /\ Len(Contents(q)') = t - h - 1
              /\ \A i \in 1 .. t - h - 1 : Contents(q)'[i] = sent[q][h + 1 + i]
            <4>1. /\ Contents(q)' \in Seq(Key) /\ Len(Contents(q)') = tail'[q] - head'[q]
                  /\ \A i \in 1 .. tail'[q] - head'[q] : Contents(q)'[i] = sent'[q][head'[q] + i]
                BY <1>1, <1>4, <1>6 DEF ContentsSent
            <4>2. QED
                BY <1>1, <3>1, <3>2, <4>1
        <3>4. /\ Tail(Contents(q)) \in Seq(Key) /\ Len(Tail(Contents(q))) = t - h - 1
              /\ \A i \in 1 .. t - h - 1 : Tail(Contents(q))[i] = Contents(q)[i + 1]
            BY <2>1, <3>2, HeadTailProperties
        <3>5. ASSUME NEW i \in 1 .. t - h - 1 PROVE Contents(q)'[i] = Tail(Contents(q))[i]
            <4>1. i + 1 \in 1 .. t - h /\ h + 1 + i = h + (i + 1)
                BY <1>2
            <4>2. QED
                BY <2>1, <3>3, <3>4, <4>1
        <3>6. Contents(q)' = Tail(Contents(q))
            BY <3>3, <3>4, <3>5, SeqEqual
        <3>7. Head(Contents(q)) = k
            <4>1. 1 \in 1 .. t - h /\ h + 1 \in h + 1 .. t
                BY <1>2, <3>2
            <4>2. QED
                BY <1>2, <2>1, <4>1
        <3>8. Unlapped' = [Unlapped EXCEPT ![q] = Tail(@)]
            BY <1>1, <1>3, <1>6, <2>1, <3>6 DEF Unlapped
        <3>9. Queue!Read(q)
            BY <1>1, <1>2, <1>6, <2>1, <3>2, <3>7, <3>8 DEF Queue!Read, Unlapped
        <3>10. QED
            BY <3>9 DEF Queue!Next
    <2>4. QED
        BY <2>2, <2>3
<1>7. QED
    BY <1>5, <1>6

LEMMA QueueInit == Init => Queue!Init
<1> SUFFICES ASSUME Init PROVE Queue!Init
    OBVIOUS
<1>1. ASSUME NEW p \in Proc PROVE Unlapped[p] = <<>>
    <2>1. p \notin lapped /\ head[p] = 0 /\ tail[p] = 0 /\ ContentsSent
        BY RingsInit, ContentsAreSent DEF Init
    <2>2. Contents(p) \in Seq(Key) /\ Len(Contents(p)) = 0
        BY <2>1 DEF ContentsSent
    <2>3. QED
        BY <2>1, <2>2, EmptySeq DEF Unlapped
<1>2. Unlapped = [p \in Proc |-> <<>>]
    BY <1>1 DEF Unlapped
<1>3. QED
    BY <1>2 DEF Queue!Init, Init, Unlapped

LEMMA QueueNext == IInv /\ IInv' /\ [Next]_vars => [Queue!Next]_<<Unlapped, lapped, got>>
<1> SUFFICES ASSUME IInv, IInv', [Next]_vars
    PROVE  [Queue!Next]_<<Unlapped, lapped, got>>
    OBVIOUS
<1>1. CASE \E q \in Proc : Fresh(q)
    BY <1>1, FreshOpens DEF Queue!Next
<1>2. CASE KeyboardPush
    BY <1>2, PushTypes
<1>3. CASE KeyboardPop
    BY <1>3, PopReads
<1>4. CASE (\E q \in Proc : Exit(q)) \/ KeyboardPushDropped \/ UNCHANGED vars
    <2>1. head' = head /\ tail' = tail /\ buffer' = buffer /\ lapped' = lapped /\ got' = got
        BY <1>4 DEF Exit, KeyboardPushDropped, ring, vars
    <2>2. Unlapped' = Unlapped
        BY <2>1, SameContents DEF Unlapped
    <2>3. QED
        BY <2>1, <2>2
<1>5. QED
    BY <1>1, <1>2, <1>3, <1>4 DEF Next, Start, StartWithoutArguments

\* However starts, exits, keys and reads of several processes interleave, the
\* rings implement KeyQueue.tla: until a ring is lapped its process reads its keys
\* once each and in order, and a ring is lapped only by more than Size unread keys,
\* although keyboard_push and keyboard_pop never compare head with tail.
THEOREM KeyboardImplementsQueue == Spec => QueueSpec
<1>1. Spec => []IInv /\ Init /\ [][Next]_vars
    BY RingsAlways, PTL DEF Spec
<1>2. []IInv /\ [][Next]_vars => [][Queue!Next]_<<Unlapped, lapped, got>>
    BY QueueNext, PTL
<1>3. QED
    BY <1>1, <1>2, QueueInit, PTL DEF QueueSpec, Queue!Spec, Unlapped
=============================================================================
