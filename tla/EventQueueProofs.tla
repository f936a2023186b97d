-------------------------- MODULE EventQueueProofs --------------------------
(* What holds of the event queue for every value of its constants.         *)
(*                                                                         *)
(* The first part is about lists: inserting by upper_bound, remove_if and  *)
(* taking the head.  Without is a recursive function; what it returns is   *)
(* shown by induction, as a least counterexample in a set of indices.      *)
(* QueueInv is the inductive invariant: the lists are sorted and keep the  *)
(* posting order, a thread about to insert holds its latest event, the     *)
(* runner's thread wakes in time for every queued event, the turns used    *)
(* pay for the overtakings.  Each action that takes events out leaves some *)
(* of each list in its order (Fewer); only Insert adds.                    *)
EXTENDS EventQueueCorrect, TLAPS, FiniteSetTheorems, SequenceTheorems

Sorted(q) == \A i, j \in DOMAIN q : i < j => q[i].handle <= q[j].handle
Fifo(q) ==
    \A i, j \in DOMAIN q :
        i < j /\ q[i].from = q[j].from /\ q[i].handle - q[i].send = q[j].handle - q[j].send
            => q[i].id < q[j].id

(* What is left of list q when events are taken out.                       *)
Thinned(r, q) ==
    /\ r \in Seq(Event)
    /\ \E f \in [DOMAIN r -> DOMAIN q] :
          /\ \A i, j \in DOMAIN r : i < j => f[i] < f[j]
          /\ \A i \in DOMAIN r : r[i] = q[f[i]]

LEMMA Smallest ==
    ASSUME NEW S \in SUBSET Nat, S # {}
    PROVE  \E n \in S : \A m \in S : n <= m
<1>1. PICK n \in S : \A m \in S : ~(<<m, n>> \in OpToRel(<, Nat))
    BY NatLessThanWellFounded, WFMin
<1>2. \A m \in S : ~(m < n)
    BY <1>1 DEF OpToRel
<1>. QED BY <1>2

LEMMA UpTo ==
    ASSUME NEW n \in Nat, NEW S, 0 \in S, \A i \in 1..n : i - 1 \in S => i \in S
    PROVE  \A i \in 0..n : i \in S
<1>. DEFINE bad == {i \in 0..n : i \notin S}
<1>. SUFFICES ASSUME bad # {} PROVE FALSE
    OBVIOUS
<1>1. bad \in SUBSET Nat
    OBVIOUS
<1>2. PICK m \in bad : \A i \in bad : m <= i
    <2>. HIDE DEF bad
    <2>. QED BY <1>1, Smallest
<1>3. m \in 1..n /\ m - 1 \notin bad
    <2>1. m \in 0..n /\ m # 0
        OBVIOUS
    <2>. HIDE DEF bad
    <2>. QED BY <2>1, <1>1, <1>2
<1>. QED BY <1>3

LEMMA EventTypes ==
    ASSUME NEW e \in Event
    PROVE  /\ e.id \in 1..MaxSent /\ e.id \in Nat /\ e.owner \in Handlers
           /\ e.from \in Senders \cup {Runner} /\ e.priority \in Priorities
           /\ e.send \in 0..MaxTime /\ e.send \in Nat
           /\ e.handle \in 0..MaxTime /\ e.handle \in Nat
BY EventAssumption DEF Event

LEMMA ThinnedKeeps ==
    ASSUME NEW q \in Seq(Event), NEW r, Thinned(r, q)
    PROVE  /\ r \in Seq(Event)
           /\ \A i \in DOMAIN r : \E j \in DOMAIN q : r[i] = q[j]
           /\ Sorted(q) => Sorted(r)
           /\ Fifo(q) => Fifo(r)
<1>1. PICK f \in [DOMAIN r -> DOMAIN q] :
        /\ \A i, j \in DOMAIN r : i < j => f[i] < f[j]
        /\ \A i \in DOMAIN r : r[i] = q[f[i]]
    BY DEF Thinned
<1>2. \A i \in DOMAIN r : f[i] \in DOMAIN q /\ r[i] = q[f[i]]
    BY <1>1
<1>3. Sorted(q) => Sorted(r)
    BY <1>1, <1>2 DEF Sorted
<1>4. Fifo(q) => Fifo(r)
    BY <1>1, <1>2 DEF Fifo
<1>. QED BY <1>2, <1>3, <1>4 DEF Thinned

LEMMA SameThinned ==
    ASSUME NEW q \in Seq(Event)
    PROVE  Thinned(q, q)
<1>. DEFINE f == [i \in DOMAIN q |-> i]
<1>1. f \in [DOMAIN q -> DOMAIN q] /\ \A i \in DOMAIN q : f[i] = i
    OBVIOUS
<1>. HIDE DEF f
<1>2. \A i \in DOMAIN q : q[i] = q[f[i]]
    BY <1>1
<1>. QED BY <1>1, <1>2 DEF Thinned

LEMMA TailThinned ==
    ASSUME NEW q \in Seq(Event), q # <<>>
    PROVE  Thinned(Tail(q), q) /\ Head(q) \in Event /\ 1 \in DOMAIN q /\ Head(q) = q[1]
<1>1. /\ Tail(q) \in Seq(Event) /\ DOMAIN Tail(q) = 1..Len(q) - 1 /\ DOMAIN q = 1..Len(q)
      /\ Len(q) \in Nat /\ Len(q) > 0
      /\ \A i \in 1..Len(q) - 1 : Tail(q)[i] = q[i + 1]
    OBVIOUS
<1>2. Head(q) \in Event /\ Head(q) = q[1] /\ 1 \in DOMAIN q
    BY <1>1
<1>. DEFINE r == Tail(q)
            f == [i \in 1..Len(q) - 1 |-> i + 1]
<1>. HIDE DEF r
<1>3. f \in [DOMAIN r -> DOMAIN q] /\ \A i \in DOMAIN r : f[i] = i + 1
    BY <1>1 DEF r
<1>. HIDE DEF f
<1>4. \A i \in DOMAIN r : r[i] = q[f[i]]
    BY <1>1, <1>3 DEF r
<1>5. \A i, j \in DOMAIN r : i < j => f[i] < f[j]
    BY <1>1, <1>3 DEF r
<1>. QED BY <1>1, <1>2, <1>3, <1>4, <1>5 DEF Thinned, r

(* What is kept of the first i events of a list.                           *)
KeptOver(q, gone, n, f) ==
    [i \in 0..n |-> IF i = 0 THEN <<>>
                    ELSE IF q[i] \in gone THEN f[i - 1] ELSE Append(f[i - 1], q[i])]

LEMMA KeptExists ==
    ASSUME NEW q, NEW gone, NEW n \in Nat
    PROVE  \E f : f = KeptOver(q, gone, n, f)
<1>. DEFINE S == {k \in 0..n : \E f : f = KeptOver(q, gone, k, f)}
            Next1(f, i) == IF q[i] \in gone THEN f[i - 1] ELSE Append(f[i - 1], q[i])
<1>1. 0 \in S
    <2>. DEFINE g == [i \in 0..0 |-> <<>>]
    <2>1. g = KeptOver(q, gone, 0, g)
        BY DEF KeptOver
    <2>. QED BY <2>1
<1>2. ASSUME NEW k \in 1..n, k - 1 \in S
      PROVE  k \in S
    <2>1. PICK f : f = KeptOver(q, gone, k - 1, f)
        BY <1>2
    <2>. DEFINE g == [i \in 0..k |-> IF i = k THEN Next1(f, k) ELSE f[i]]
    <2>2. \A i \in 0..k - 1 : f[i] = IF i = 0 THEN <<>> ELSE Next1(f, i)
        BY <2>1 DEF KeptOver
    <2>3. \A i \in 0..k : g[i] = IF i = 0 THEN <<>> ELSE Next1(g, i)
        BY <2>2
    <2>4. g = KeptOver(q, gone, k, g)
        BY <2>3 DEF KeptOver
    <2>. QED BY <2>4
<1>3. \A i \in 0..n : i \in S
    <2>. HIDE DEF S
    <2>. QED BY <1>1, <1>2, UpTo
<1>. QED BY <1>3

LEMMA WithoutSteps ==
    ASSUME NEW q, NEW gone, Len(q) \in Nat
    PROVE  \E f : /\ f[0] = <<>>
                  /\ \A i \in 1..Len(q) :
                        f[i] = IF q[i] \in gone THEN f[i - 1] ELSE Append(f[i - 1], q[i])
                  /\ Without(q, gone) = f[Len(q)]
<1>. DEFINE f == CHOOSE f : f = KeptOver(q, gone, Len(q), f)
<1>1. f = KeptOver(q, gone, Len(q), f)
    BY KeptExists
<1>2. Without(q, gone) = f[Len(q)]
    BY DEF Without, KeptOver
<1>. HIDE DEF f
<1>3. \A i \in 0..Len(q) : f[i] = IF i = 0 THEN <<>> ELSE IF q[i] \in gone THEN f[i - 1] ELSE Append(f[i - 1], q[i])
    BY <1>1 DEF KeptOver
<1>. QED BY <1>2, <1>3

(* r keeps, in their order, some of the first n events of q.               *)
Keeps(r, q, n, gone) ==
    /\ r \in Seq(Event)
    /\ \A i \in DOMAIN r : r[i] \notin gone
    /\ \E f \in [DOMAIN r -> 1..n] :
          /\ \A i, j \in DOMAIN r : i < j => f[i] < f[j]
          /\ \A i \in DOMAIN r : r[i] = q[f[i]]

LEMMA KeepsStep ==
    ASSUME NEW q \in Seq(Event), NEW gone, NEW n \in 1..Len(q), NEW r, Keeps(r, q, n - 1, gone)
    PROVE  Keeps(IF q[n] \in gone THEN r ELSE Append(r, q[n]), q, n, gone)
<1>0. Len(q) \in Nat /\ n \in Nat /\ n - 1 \in Nat /\ q[n] \in Event
    OBVIOUS
<1>1. PICK f \in [DOMAIN r -> 1..n - 1] :
        /\ \A i, j \in DOMAIN r : i < j => f[i] < f[j]
        /\ \A i \in DOMAIN r : r[i] = q[f[i]]
    BY DEF Keeps
<1>2. CASE q[n] \in gone
    <2>1. f \in [DOMAIN r -> 1..n]
        BY <1>0, <1>1
    <2>. QED BY <1>1, <1>2, <2>1 DEF Keeps
<1>3. CASE q[n] \notin gone
    <2>. DEFINE s == Append(r, q[n])
                m == Len(r) + 1
                g == [i \in 1..m |-> IF i = m THEN n ELSE f[i]]
    <2>1. r \in Seq(Event) /\ \A i \in DOMAIN r : r[i] \notin gone
        BY DEF Keeps
    <2>2. /\ s \in Seq(Event) /\ DOMAIN s = 1..m /\ m \in Nat /\ DOMAIN r = 1..m - 1
          /\ \A i \in 1..m - 1 : s[i] = r[i]
          /\ s[m] = q[n]
        BY <1>0, <2>1
    <2>. HIDE DEF s, m
    <2>3. /\ \A i \in 1..m : i # m => i \in 1..m - 1
          /\ \A i \in 1..m - 1 : i # m /\ i \in 1..m
        BY <2>2
    <2>4. \A i \in 1..m - 1 : g[i] = f[i] /\ f[i] \in 1..n - 1 /\ f[i] \in 1..n /\ f[i] < n
        BY <1>0, <1>1, <2>2, <2>3
    <2>5. g[m] = n /\ n \in 1..n /\ m \in 1..m
        <3>1. m \in 1..m
            BY <2>1, <2>2 DEF m
        <3>. QED BY <1>0, <3>1
    <2>6. g \in [1..m -> 1..n]
        BY <2>3, <2>4, <2>5
    <2>. HIDE DEF g
    <2>7. ASSUME NEW i \in 1..m, NEW j \in 1..m, i < j
          PROVE  g[i] < g[j]
        <3>1. i # m /\ i \in 1..m - 1
            BY <2>2, <2>3, <2>7
        <3>2. CASE j = m
            BY <2>4, <2>5, <3>1, <3>2
        <3>3. CASE j # m
            BY <1>1, <2>2, <2>3, <2>4, <2>7, <3>1, <3>3
        <3>. QED BY <3>2, <3>3
    <2>8. \A i \in 1..m : s[i] = q[g[i]] /\ s[i] \notin gone
        <3>. TAKE i \in 1..m
        <3>1. CASE i = m
            BY <1>3, <2>2, <2>5, <3>1
        <3>2. CASE i # m
            BY <1>1, <2>1, <2>2, <2>3, <2>4, <3>2
        <3>. QED BY <3>1, <3>2
    <2>9. Keeps(s, q, n, gone)
        BY <2>2, <2>6, <2>7, <2>8 DEF Keeps
    <2>. QED BY <1>3, <2>9 DEF s
<1>. QED BY <1>2, <1>3

(* std::list::remove_if leaves the others, in their order.                 *)
LEMMA WithoutThinned ==
    ASSUME NEW q \in Seq(Event), NEW gone
    PROVE  /\ Thinned(Without(q, gone), q)
           /\ \A i \in DOMAIN Without(q, gone) :
                 /\ Without(q, gone)[i] \notin gone
                 /\ \E j \in DOMAIN q : Without(q, gone)[i] = q[j]
<1>0. Len(q) \in Nat /\ DOMAIN q = 1..Len(q)
    OBVIOUS
<1>1. PICK f : /\ f[0] = <<>>
               /\ \A i \in 1..Len(q) :
                     f[i] = IF q[i] \in gone THEN f[i - 1] ELSE Append(f[i - 1], q[i])
               /\ Without(q, gone) = f[Len(q)]
    BY <1>0, WithoutSteps
<1>. DEFINE S == {i \in 0..Len(q) : Keeps(f[i], q, i, gone)}
<1>2. 0 \in S
    <2>1. <<>> \in Seq(Event) /\ DOMAIN <<>> = {}
        OBVIOUS
    <2>2. [i \in {} |-> 1] \in [{} -> 1..0]
        OBVIOUS
    <2>3. Keeps(<<>>, q, 0, gone)
        BY <2>1, <2>2 DEF Keeps
    <2>. QED BY <1>0, <1>1, <2>3
<1>3. \A i \in 1..Len(q) : i - 1 \in S => i \in S
    <2>. SUFFICES ASSUME NEW i \in 1..Len(q), i - 1 \in S PROVE i \in S
        OBVIOUS
    <2>1. Keeps(f[i - 1], q, i - 1, gone)
        OBVIOUS
    <2>2. Keeps(f[i], q, i, gone)
        BY <1>1, <2>1, KeepsStep
    <2>. QED BY <2>2
<1>4. Keeps(Without(q, gone), q, Len(q), gone)
    <2>1. \A i \in 0..Len(q) : i \in S
        <3>. HIDE DEF S
        <3>. QED BY <1>0, <1>2, <1>3, UpTo
    <2>. QED BY <1>0, <1>1, <2>1
<1>. DEFINE r == Without(q, gone)
<1>. HIDE DEF r
<1>5. PICK g \in [DOMAIN r -> DOMAIN q] :
        /\ \A i, j \in DOMAIN r : i < j => g[i] < g[j]
        /\ \A i \in DOMAIN r : r[i] = q[g[i]]
    BY <1>0, <1>4 DEF Keeps, r
<1>6. r \in Seq(Event) /\ \A i \in DOMAIN r : r[i] \notin gone
    BY <1>4 DEF Keeps, r
<1>7. Thinned(r, q)
    BY <1>5, <1>6 DEF Thinned
<1>. QED BY <1>5, <1>6, <1>7 DEF r

LEMMA Joined ==
    ASSUME NEW a \in Seq(Event), NEW e \in Event, NEW b \in Seq(Event), NEW r, r = a \o <<e>> \o b
    PROVE  /\ r \in Seq(Event) /\ Len(r) = Len(a) + 1 + Len(b)
           /\ \A i \in 1..Len(a) : r[i] = a[i]
           /\ r[Len(a) + 1] = e
           /\ \A i \in 1..Len(b) : r[Len(a) + 1 + i] = b[i]
<1>. DEFINE c == a \o <<e>>
<1>1. Len(a) \in Nat /\ Len(b) \in Nat
    OBVIOUS
<1>2. /\ c \in Seq(Event) /\ Len(c) = Len(a) + 1
      /\ \A i \in 1..Len(a) : c[i] = a[i]
      /\ c[Len(a) + 1] = e
    OBVIOUS
<1>. HIDE DEF c
<1>3. r = c \o b
    BY DEF c
<1>4. r \in Seq(Event) /\ Len(r) = Len(c) + Len(b)
    BY <1>2, <1>3
<1>5. \A i \in 1..Len(c) : r[i] = c[i]
    BY <1>2, <1>3
<1>6. \A i \in 1..Len(b) : r[Len(c) + i] = b[i]
    BY <1>2, <1>3
<1>7. \A i \in 1..Len(a) : i \in 1..Len(c)
    BY <1>1, <1>2
<1>8. Len(a) + 1 \in 1..Len(c)
    BY <1>1, <1>2
<1>. QED BY <1>2, <1>4, <1>5, <1>6, <1>7, <1>8

LEMMA InsertedAt ==
    ASSUME NEW q \in Seq(Event), NEW e \in Event, NEW m \in 0..Len(q)
    PROVE  LET r == InsertAt(q, m + 1, e)
           IN  /\ r \in Seq(Event) /\ Len(r) = Len(q) + 1
               /\ \A i \in 1..m : r[i] = q[i]
               /\ r[m + 1] = e
               /\ \A i \in m + 1..Len(q) : r[i + 1] = q[i]
<1>. DEFINE N == Len(q)
<1>1. /\ N \in Nat /\ m \in Nat /\ m <= N /\ m \in Int /\ m + 1 \in Int /\ N \in Int /\ 1 \in Int
      /\ \A i \in 1..N : q[i] \in Event
    OBVIOUS
<1>. HIDE DEF N
<1>2. /\ SubSeq(q, 1, m) \in Seq(Event) /\ Len(SubSeq(q, 1, m)) = m
      /\ \A i \in 1..m : SubSeq(q, 1, m)[i] = q[i]
    <2>1. \A i \in 1..m : q[i] \in Event
        BY <1>1
    <2>2. /\ SubSeq(q, 1, m) \in Seq(Event)
          /\ Len(SubSeq(q, 1, m)) = IF 1 <= m THEN m - 1 + 1 ELSE 0
          /\ \A i \in 1..m - 1 + 1 : SubSeq(q, 1, m)[i] = q[1 + i - 1]
        BY <1>1, <2>1, SubSeqProperties
    <2>3. m - 1 + 1 = m /\ (1 <= m \/ m = 0) /\ \A i \in 1..m : 1 + i - 1 = i
        BY <1>1
    <2>. QED BY <2>2, <2>3
<1>3. /\ SubSeq(q, m + 1, N) \in Seq(Event) /\ Len(SubSeq(q, m + 1, N)) = N - m
      /\ \A i \in 1..N - m : SubSeq(q, m + 1, N)[i] = q[m + i]
    <2>1. \A i \in m + 1..N : q[i] \in Event
        BY <1>1
    <2>2. /\ SubSeq(q, m + 1, N) \in Seq(Event)
          /\ Len(SubSeq(q, m + 1, N)) = IF m + 1 <= N THEN N - (m + 1) + 1 ELSE 0
          /\ \A i \in 1..N - (m + 1) + 1 : SubSeq(q, m + 1, N)[i] = q[m + 1 + i - 1]
        BY <1>1, <2>1, SubSeqProperties
    <2>3. /\ N - (m + 1) + 1 = N - m /\ (m + 1 <= N \/ N - m = 0)
          /\ \A i \in 1..N - m : m + 1 + i - 1 = m + i
        BY <1>1
    <2>. QED BY <2>2, <2>3
<1>4. PICK a \in Seq(Event) : a = SubSeq(q, 1, m)
    BY <1>2
<1>5. PICK b \in Seq(Event) : b = SubSeq(q, m + 1, N)
    BY <1>3
<1>6. PICK r : r = InsertAt(q, m + 1, e)
    OBVIOUS
<1>7. r = SubSeq(q, 1, (m + 1) - 1) \o <<e>> \o SubSeq(q, m + 1, N)
    BY <1>6 DEF InsertAt, N
<1>8. r = a \o <<e>> \o b
    <2>1. (m + 1) - 1 = m
        BY <1>1
    <2>. QED BY <1>4, <1>5, <1>7, <2>1
<1>9. /\ r \in Seq(Event) /\ Len(r) = Len(a) + 1 + Len(b)
      /\ \A i \in 1..Len(a) : r[i] = a[i]
      /\ r[Len(a) + 1] = e
      /\ \A i \in 1..Len(b) : r[Len(a) + 1 + i] = b[i]
    BY <1>8, Joined
<1>10. Len(a) = m /\ Len(b) = N - m /\ (\A i \in 1..m : a[i] = q[i]) /\ \A i \in 1..N - m : b[i] = q[m + i]
    BY <1>2, <1>3, <1>4, <1>5
<1>11. Len(r) = N + 1 /\ (\A i \in 1..m : r[i] = q[i]) /\ r[m + 1] = e
    BY <1>1, <1>9, <1>10
<1>12. \A i \in m + 1..N : r[i + 1] = q[i]
    <2>. TAKE i \in m + 1..N
    <2>1. i - m \in 1..N - m /\ m + 1 + (i - m) = i + 1 /\ m + (i - m) = i
        BY <1>1
    <2>. QED BY <1>9, <1>10, <2>1
<1>. QED BY <1>6, <1>9, <1>11, <1>12 DEF N

(* InsertEventsLocked: after the events that are not later.                *)
LEMMA InsertedSorted ==
    ASSUME NEW q \in Seq(Event), Sorted(q), NEW e \in Event
    PROVE  \E m \in 0..Len(q) :
              LET r == InsertSorted(q, e)
              IN  /\ r \in Seq(Event) /\ Len(r) = Len(q) + 1
                  /\ r[m + 1] = e
                  /\ \A i \in 1..m : r[i] = q[i] /\ q[i].handle <= e.handle
                  /\ \A i \in m + 1..Len(q) : r[i + 1] = q[i] /\ q[i].handle > e.handle
<1>. DEFINE N == Len(q)
            before == {i \in DOMAIN q : q[i].handle <= e.handle}
            after == {i \in 1..N + 1 : i = N + 1 \/ q[i].handle > e.handle}
<1>1. N \in Nat /\ DOMAIN q = 1..N /\ \A i \in 1..N : q[i] \in Event
    OBVIOUS
<1>. HIDE DEF N
<1>2. \A i \in 1..N : q[i].handle \in Nat /\ e.handle \in Nat
    BY <1>1, EventTypes
<1>3. after \in SUBSET Nat /\ after # {}
    BY <1>1
<1>4. PICK k \in after : \A i \in after : k <= i
    <2>. HIDE DEF after
    <2>. QED BY <1>3, Smallest
<1>5. PICK m \in 0..N : k = m + 1 /\ k \in 1..N + 1
    <2>1. k - 1 \in 0..N /\ k = (k - 1) + 1 /\ k \in 1..N + 1
        BY <1>1
    <2>. QED BY <2>1
<1>6. \A i \in 1..m : i \in 1..N /\ q[i].handle <= e.handle
    <2>. TAKE i \in 1..m
    <2>1. i \in 1..N /\ i \in 1..N + 1 /\ i < k /\ i # N + 1
        BY <1>1, <1>5
    <2>2. i \notin after
        <3>. HIDE DEF after
        <3>. QED BY <1>3, <1>4, <2>1
    <2>3. ~(q[i].handle > e.handle)
        BY <2>1, <2>2
    <2>. QED BY <1>2, <2>1, <2>3
<1>7. \A i \in m + 1..N : i \in 1..N /\ q[i].handle > e.handle
    <2>. TAKE i \in m + 1..N
    <2>1. i \in 1..N /\ k \in 1..N /\ k <= i
        BY <1>1, <1>5
    <2>2. q[k].handle > e.handle
        BY <1>4, <1>1, <2>1
    <2>3. k = i \/ q[k].handle <= q[i].handle
        BY <1>1, <2>1 DEF Sorted
    <2>. QED BY <1>2, <2>1, <2>2, <2>3
<1>. HIDE DEF after
<1>8. before = 1..m
    <2>1. \A i \in 1..N : i \in 1..m \/ i \in m + 1..N
        BY <1>1, <1>5
    <2>2. \A i \in 1..N : q[i].handle > e.handle => ~(q[i].handle <= e.handle)
        BY <1>2
    <2>. QED BY <1>1, <1>6, <1>7, <2>1, <2>2
<1>9. Cardinality(before) = m
    <2>. HIDE DEF before
    <2>1. m \in Nat /\ 1 \in Nat
        BY <1>1, <1>5
    <2>2. Cardinality(1..m) = IF 1 > m THEN 0 ELSE m - 1 + 1
        BY <2>1, FS_Interval
    <2>. QED BY <1>8, <2>1, <2>2
<1>10. InsertSorted(q, e) = InsertAt(q, m + 1, e)
    BY <1>9 DEF InsertSorted
<1>11. m \in 0..Len(q)
    BY <1>5 DEF N
<1>. DEFINE r == InsertSorted(q, e)
<1>12. /\ r \in Seq(Event) /\ Len(r) = Len(q) + 1
       /\ \A i \in 1..m : r[i] = q[i]
       /\ r[m + 1] = e
       /\ \A i \in m + 1..Len(q) : r[i + 1] = q[i]
    <2>. DEFINE s == InsertAt(q, m + 1, e)
    <2>1. /\ s \in Seq(Event) /\ Len(s) = Len(q) + 1
          /\ \A i \in 1..m : s[i] = q[i]
          /\ s[m + 1] = e
          /\ \A i \in m + 1..Len(q) : s[i + 1] = q[i]
        BY <1>11, InsertedAt
    <2>. HIDE DEF s
    <2>2. r = s
        BY <1>10 DEF s
    <2>. QED BY <2>1, <2>2
<1>. HIDE DEF r
<1>13. /\ r \in Seq(Event) /\ Len(r) = Len(q) + 1
       /\ r[m + 1] = e
       /\ \A i \in 1..m : r[i] = q[i] /\ q[i].handle <= e.handle
       /\ \A i \in m + 1..Len(q) : r[i + 1] = q[i] /\ q[i].handle > e.handle
    BY <1>6, <1>7, <1>12 DEF N
<1>. QED BY <1>11, <1>13 DEF r

Lists == SubQueues \cup {IDLE}

(* The lists q at time n, when s events have been posted.                  *)
ListsOK(q, n, s) ==
    /\ q \in [Lists -> Seq(Event)]
    /\ \A p \in Lists :
          /\ Sorted(q[p]) /\ Fifo(q[p])
          /\ \A i \in DOMAIN q[p] :
                q[p][i].priority = p /\ q[p][i].send <= n /\ q[p][i].id <= s

(* The turns h that the sub event queues have used pay for o.              *)
TurnsUsed(h, o) ==
    /\ o \in Nat /\ o <= h[IMMEDIATE] + Turns(IMMEDIATE) * h[HIGH]
    /\ \A p \in SubQueues : p \notin Priorities => h[p] = 0

Scalars ==
    /\ handled \in [SubQueues -> 0..MaxHandled] /\ TurnsUsed(handled, overtaken)
    /\ wakeUpTime \in 0..Never /\ idleTimeStamp \in 0..now
    /\ isIdle \in BOOLEAN /\ finished \in BOOLEAN /\ pred \in BOOLEAN
    /\ now \in 0..MaxTime /\ sent \in 0..MaxSent
    /\ held \in [Handlers -> SUBSET (Senders \cup {Runner})]
    /\ runnerRefs \subseteq Handlers \cup {Creator}

(* Where the threads can stand.                                            *)
RunnerAt == {"start", "prepared", "get", "waiting", "dispatch", "running",
             "insert", "removeOrphan", "finish", "ended"}
SenderAt == {"idle", "insert", "insertSync", "awaited", "removeOrphan", "finish"}

Standing ==
    /\ pc \in [Threads -> Pcs] /\ DOMAIN arg = Threads
    /\ pc[Creator] \in {"idle", "finish"}
    /\ pc[Runner] \in RunnerAt
    /\ \A t \in Senders : pc[t] \in SenderAt
    /\ current \in Event \cup {None}
    /\ pc[Runner] \in {"dispatch", "running", "insert"} => current \in Event
    /\ pc[Runner] \in {"running", "insert"} => Runner \in held[current.owner]

(* Thread t may insert e into lists q: e is its latest event.              *)
Latest(e, t, q, s) ==
    /\ e \in Event /\ e.from = t /\ t \in s[e.owner]
    /\ \A p \in Lists : \A i \in DOMAIN q[p] :
          q[p][i].from = t => q[p][i].id < e.id /\ q[p][i].send <= e.send

Posting ==
    \A t \in Threads :
        pc[t] \in {"insert", "insertSync"} =>
            /\ Latest(arg[t], t, queue, held)
            /\ arg[t].id <= sent /\ arg[t].send <= now

WakesInTime ==
    pc[Runner] = "waiting" /\ ~pred =>
        /\ ~finished
        /\ \A p \in SubQueues : \A i \in DOMAIN queue[p] : wakeUpTime <= queue[p][i].handle

QueueInv ==
    /\ ListsOK(queue, now, sent) /\ Scalars /\ Standing /\ Posting /\ WakesInTime
    /\ NoOrphanLeft

Fewer(r, q) == r \in [Lists -> Seq(Event)] /\ \A p \in Lists : Thinned(r[p], q[p])

LEMMA Threads3 ==
    /\ Runner \in Threads /\ Creator \in Threads /\ Senders \subseteq Threads
    /\ Runner # Creator /\ Runner \notin Senders /\ Creator \notin Senders
    /\ \A t \in Threads : t \in Senders \/ t = Runner \/ t = Creator
    /\ RunnerAt \subseteq Pcs /\ SenderAt \subseteq Pcs
BY EventThreadAssumption DEF Threads, RunnerAt, SenderAt, Pcs

LEMMA FewerIn ==
    ASSUME NEW q \in [Lists -> Seq(Event)], NEW r, Fewer(r, q)
    PROVE  \A p \in Lists : \A i \in DOMAIN r[p] :
              /\ r[p][i] \in Event
              /\ \E j \in DOMAIN q[p] : q[p][j] \in Event /\ r[p][i] = q[p][j]
<1>. TAKE p \in Lists
<1>1. q[p] \in Seq(Event) /\ Thinned(r[p], q[p])
    BY DEF Fewer
<1>. QED BY <1>1, ThinnedKeeps

LEMMA SameFewer ==
    ASSUME NEW q \in [Lists -> Seq(Event)]
    PROVE  Fewer(q, q)
BY SameThinned DEF Fewer

LEMMA FewerOK ==
    ASSUME NEW q, NEW r, NEW n \in Nat, NEW m \in Nat, NEW s \in Nat, NEW k \in Nat,
           ListsOK(q, n, s), Fewer(r, q), n <= m, s <= k
    PROVE  ListsOK(r, m, k)
<1>1. q \in [Lists -> Seq(Event)]
    BY DEF ListsOK
<1>2. ASSUME NEW p \in Lists
      PROVE  Sorted(r[p]) /\ Fifo(r[p])
    BY <1>1, ThinnedKeeps DEF ListsOK, Fewer
<1>3. ASSUME NEW p \in Lists, NEW i \in DOMAIN r[p]
      PROVE  r[p][i].priority = p /\ r[p][i].send <= m /\ r[p][i].id <= k
    <2>1. PICK j \in DOMAIN q[p] : q[p][j] \in Event /\ r[p][i] = q[p][j]
        BY <1>1, FewerIn
    <2>2. q[p][j].priority = p /\ q[p][j].send <= n /\ q[p][j].id <= s
        BY DEF ListsOK
    <2>3. q[p][j].send \in Nat /\ q[p][j].id \in Nat
        BY <2>1, EventTypes
    <2>. QED BY <2>1, <2>2, <2>3
<1>. QED BY <1>2, <1>3 DEF ListsOK, Fewer

(* The two lists agree on the types of the model.                          *)
LEMMA ListsTyped ==
    ASSUME ListsOK(queue, now, sent)
    PROVE  /\ queue \in [SubQueues \cup {IDLE} -> Seq(Event)]
           /\ \A p \in DOMAIN queue : \A i \in DOMAIN queue[p] :
                 /\ queue[p][i].priority = p /\ queue[p][i].send <= now
                 /\ \A j \in 1..i - 1 : queue[p][j].handle <= queue[p][i].handle
           /\ PostedInOrder
<1>1. queue \in [Lists -> Seq(Event)] /\ DOMAIN queue = Lists
    BY DEF ListsOK
<1>2. ASSUME NEW p \in Lists, NEW i \in DOMAIN queue[p], NEW j \in 1..i - 1
      PROVE  queue[p][j].handle <= queue[p][i].handle
    <2>1. Sorted(queue[p]) /\ queue[p] \in Seq(Event)
        BY <1>1 DEF ListsOK
    <2>2. DOMAIN queue[p] = 1..Len(queue[p]) /\ Len(queue[p]) \in Nat
        BY <2>1
    <2>3. j \in DOMAIN queue[p] /\ j < i
        BY <2>2
    <2>. QED BY <2>1, <2>3 DEF Sorted
<1>3. PostedInOrder
    BY <1>1 DEF PostedInOrder, ListsOK, Fifo
<1>. QED BY <1>1, <1>2, <1>3 DEF ListsOK, Lists

LEMMA Went ==
    ASSUME pc \in [Threads -> Pcs], DOMAIN arg = Threads,
           NEW t \in Threads, NEW l \in Pcs, NEW a, Goto(t, l, a)
    PROVE  /\ pc' \in [Threads -> Pcs] /\ DOMAIN arg' = Threads
           /\ pc'[t] = l /\ arg'[t] = a
           /\ \A u \in Threads : u # t => pc'[u] = pc[u] /\ arg'[u] = arg[u]
BY DEF Goto

LEMMA StandingKept ==
    ASSUME Standing, NEW t \in Threads, NEW l, NEW a, Goto(t, l, a),
           t = Runner => l \in RunnerAt, t = Creator => l \in {"idle", "finish"},
           t \in Senders => l \in SenderAt,
           current' \in Event \cup {None},
           pc'[Runner] \in {"dispatch", "running", "insert"} => current' \in Event,
           pc'[Runner] \in {"running", "insert"} => Runner \in held'[current'.owner]
    PROVE  Standing'
<1>1. l \in Pcs
    BY Threads3 DEF Pcs
<1>2. /\ pc' \in [Threads -> Pcs] /\ DOMAIN arg' = Threads
      /\ pc'[t] = l
      /\ \A u \in Threads : u # t => pc'[u] = pc[u]
    BY <1>1, Went DEF Standing
<1>3. pc'[Creator] \in {"idle", "finish"}
    BY <1>2, Threads3 DEF Standing
<1>4. pc'[Runner] \in RunnerAt
    BY <1>2, Threads3 DEF Standing
<1>5. \A u \in Senders : pc'[u] \in SenderAt
    BY <1>2, Threads3 DEF Standing
<1>. QED BY <1>2, <1>3, <1>4, <1>5 DEF Standing

LEMMA PostingKept ==
    ASSUME Posting, ListsOK(queue, now, sent), Fewer(queue', queue),
           now \in Nat, now' \in Nat, sent \in Nat, sent' \in Nat, now <= now', sent <= sent',
           \A t \in Threads : pc'[t] \in {"insert", "insertSync"} =>
              \/ /\ pc[t] = pc'[t] /\ arg'[t] = arg[t]
                 /\ \A h \in Handlers : t \in held[h] => t \in held'[h]
              \/ Latest(arg'[t], t, queue', held') /\ arg'[t].id <= sent' /\ arg'[t].send <= now'
    PROVE  Posting'
<1>. SUFFICES ASSUME NEW t \in Threads, pc'[t] \in {"insert", "insertSync"}
              PROVE  /\ Latest(arg'[t], t, queue', held')
                     /\ arg'[t].id <= sent' /\ arg'[t].send <= now'
    BY DEF Posting
<1>1. CASE Latest(arg'[t], t, queue', held') /\ arg'[t].id <= sent' /\ arg'[t].send <= now'
    BY <1>1
<1>2. CASE /\ pc[t] = pc'[t] /\ arg'[t] = arg[t]
           /\ \A h \in Handlers : t \in held[h] => t \in held'[h]
    <2>. DEFINE e == arg[t]
    <2>1. Latest(e, t, queue, held) /\ e.id <= sent /\ e.send <= now /\ arg'[t] = e
        BY <1>2 DEF Posting
    <2>. HIDE DEF e
    <2>2. e \in Event /\ e.from = t /\ t \in held[e.owner] /\ e.owner \in Handlers
          /\ e.id \in Nat /\ e.send \in Nat
        BY <2>1, EventTypes DEF Latest
    <2>3. e.id <= sent' /\ e.send <= now'
        BY <2>1, <2>2
    <2>4. ASSUME NEW p \in Lists, NEW i \in DOMAIN queue'[p], queue'[p][i].from = t
          PROVE  queue'[p][i].id < e.id /\ queue'[p][i].send <= e.send
        <3>1. PICK j \in DOMAIN queue[p] : queue[p][j] \in Event /\ queue'[p][i] = queue[p][j]
            BY FewerIn DEF ListsOK
        <3>. QED BY <2>1, <2>4, <3>1 DEF Latest
    <2>5. t \in held'[e.owner]
        BY <1>2, <2>2
    <2>6. Latest(e, t, queue', held')
        BY <2>2, <2>4, <2>5 DEF Latest
    <2>. QED BY <2>1, <2>3, <2>6
<1>. QED BY <1>1, <1>2

LEMMA WakesKept ==
    ASSUME WakesInTime, ListsOK(queue, now, sent), Fewer(queue', queue),
           pc'[Runner] = "waiting" /\ ~pred' =>
              /\ pc[Runner] = "waiting" /\ ~pred /\ (finished' => finished)
              /\ wakeUpTime' = wakeUpTime
    PROVE  WakesInTime'
<1>. SUFFICES ASSUME pc'[Runner] = "waiting" /\ ~pred'
              PROVE  /\ ~finished'
                     /\ \A p \in SubQueues : \A i \in DOMAIN queue'[p] :
                           wakeUpTime' <= queue'[p][i].handle
    BY DEF WakesInTime
<1>1. /\ ~finished' /\ wakeUpTime' = wakeUpTime
      /\ \A p \in SubQueues : \A i \in DOMAIN queue[p] : wakeUpTime <= queue[p][i].handle
    BY DEF WakesInTime
<1>2. ASSUME NEW p \in SubQueues, NEW i \in DOMAIN queue'[p]
      PROVE  wakeUpTime' <= queue'[p][i].handle
    <2>1. PICK j \in DOMAIN queue[p] : queue[p][j] \in Event /\ queue'[p][i] = queue[p][j]
        <3>1. p \in Lists /\ queue \in [Lists -> Seq(Event)]
            BY DEF ListsOK, Lists
        <3>. QED BY <3>1, FewerIn
    <2>. QED BY <1>1, <2>1
<1>. QED BY <1>1, <1>2

LEMMA OrphansKept ==
    ASSUME NoOrphanLeft, ListsOK(queue, now, sent), Fewer(queue', queue),
           \A h \in Handlers : held'[h] = {} =>
              \/ /\ held[h] = {}
                 /\ \A t \in Threads : pc[t] = "removeOrphan" /\ arg[t] = h =>
                       pc'[t] = "removeOrphan" /\ arg'[t] = h
              \/ \E t \in Threads : pc'[t] = "removeOrphan" /\ arg'[t] = h
    PROVE  NoOrphanLeft'
<1>1. DOMAIN queue = Lists /\ DOMAIN queue' = Lists /\ queue \in [Lists -> Seq(Event)]
    BY DEF ListsOK, Fewer
<1>. SUFFICES ASSUME NEW p \in Lists, NEW i \in DOMAIN queue'[p], held'[queue'[p][i].owner] = {}
              PROVE  \E t \in Threads : pc'[t] = "removeOrphan" /\ arg'[t] = queue'[p][i].owner
    BY <1>1 DEF NoOrphanLeft
<1>2. PICK j \in DOMAIN queue[p] : queue[p][j] \in Event /\ queue'[p][i] = queue[p][j]
    BY <1>1, FewerIn
<1>3. PICK h \in Handlers : h = queue'[p][i].owner /\ h = queue[p][j].owner
    BY <1>2, EventTypes
<1>4. held[h] = {} => \E t \in Threads : pc[t] = "removeOrphan" /\ arg[t] = h
    BY <1>1, <1>3 DEF NoOrphanLeft
<1>. QED BY <1>3, <1>4

PostingMoves ==
    \A t \in Threads : pc'[t] \in {"insert", "insertSync"} =>
       \/ /\ pc[t] = pc'[t] /\ arg'[t] = arg[t]
          /\ \A h \in Handlers : t \in held[h] => t \in held'[h]
       \/ Latest(arg'[t], t, queue', held') /\ arg'[t].id <= sent' /\ arg'[t].send <= now'

SleepMoves ==
    pc'[Runner] = "waiting" /\ ~pred' =>
       /\ pc[Runner] = "waiting" /\ ~pred /\ (finished' => finished)
       /\ wakeUpTime' = wakeUpTime

OrphanMoves ==
    \A h \in Handlers : held'[h] = {} =>
       \/ /\ held[h] = {}
          /\ \A t \in Threads : pc[t] = "removeOrphan" /\ arg[t] = h =>
                pc'[t] = "removeOrphan" /\ arg'[t] = h
       \/ \E t \in Threads : pc'[t] = "removeOrphan" /\ arg'[t] = h

LEMMA ScalarTypes ==
    ASSUME Scalars
    PROVE  now \in Nat /\ sent \in Nat /\ MaxTime \in Nat /\ MaxSent \in Nat /\ MaxHandled \in Nat
BY EventAssumption DEF Scalars

LEMMA QueueKept ==
    ASSUME QueueInv, Fewer(queue', queue), Scalars', Standing', now <= now', sent <= sent',
           PostingMoves, SleepMoves, OrphanMoves
    PROVE  QueueInv'
<1>1. now \in Nat /\ now' \in Nat /\ sent \in Nat /\ sent' \in Nat
    BY EventAssumption DEF QueueInv, Scalars
<1>2. ListsOK(queue, now, sent) /\ Posting /\ WakesInTime /\ NoOrphanLeft
    BY DEF QueueInv
<1>3. ListsOK(queue', now', sent')
    BY <1>1, <1>2, FewerOK
<1>4. Posting'
    BY <1>1, <1>2, PostingKept DEF PostingMoves
<1>5. WakesInTime'
    BY <1>2, WakesKept DEF SleepMoves
<1>6. NoOrphanLeft'
    BY <1>2, OrphansKept DEF OrphanMoves
<1>. QED BY <1>3, <1>4, <1>5, <1>6 DEF QueueInv

(* The list part of a step that leaves the lists alone.                    *)
LEMMA ListsStay ==
    ASSUME QueueInv, queue' = queue
    PROVE  Fewer(queue', queue)
BY SameFewer DEF QueueInv, ListsOK

LEMMA TickKeeps ==
    ASSUME QueueInv, Tick
    PROVE  QueueInv'
<1>1. now \in Nat /\ now' = now + 1 /\ now' \in 0..MaxTime /\ now <= now' /\ sent' = sent
    BY EventAssumption DEF Tick, QueueInv, Scalars
<1>2. /\ queue' = queue /\ pc' = pc /\ arg' = arg /\ held' = held /\ pred' = pred
      /\ finished' = finished /\ wakeUpTime' = wakeUpTime /\ current' = current
      /\ handled' = handled /\ overtaken' = overtaken /\ isIdle' = isIdle /\ idleTimeStamp' = idleTimeStamp
      /\ runnerRefs' = runnerRefs
    BY DEF Tick, listVars, sleepVars, threadVars, refVars
<1>3. Scalars'
    BY <1>1, <1>2 DEF QueueInv, Scalars
<1>4. Standing'
    BY <1>2 DEF QueueInv, Standing
<1>5. PostingMoves /\ SleepMoves /\ OrphanMoves
    BY <1>2 DEF PostingMoves, SleepMoves, OrphanMoves
<1>6. sent <= sent'
    BY <1>1, EventAssumption DEF QueueInv, Scalars
<1>. QED BY <1>1, <1>2, <1>3, <1>4, <1>5, <1>6, ListsStay, QueueKept

LEMMA StutterKeeps ==
    ASSUME QueueInv, UNCHANGED vars
    PROVE  QueueInv'
<1>1. /\ queue' = queue /\ pc' = pc /\ arg' = arg /\ held' = held /\ pred' = pred
      /\ finished' = finished /\ wakeUpTime' = wakeUpTime /\ current' = current
      /\ handled' = handled /\ overtaken' = overtaken /\ isIdle' = isIdle /\ idleTimeStamp' = idleTimeStamp
      /\ runnerRefs' = runnerRefs /\ now' = now /\ sent' = sent
    BY DEF vars, listVars, sleepVars, threadVars, refVars
<1>2. ListsOK(queue', now', sent') /\ Scalars' /\ Standing'
    BY <1>1 DEF QueueInv, Scalars, Standing
<1>3. Posting' /\ WakesInTime'
    BY <1>1 DEF QueueInv, Posting, WakesInTime
<1>4. NoOrphanLeft'
    BY <1>1 DEF QueueInv, NoOrphanLeft
<1>. QED BY <1>2, <1>3, <1>4 DEF QueueInv

LEMMA SendKeeps ==
    ASSUME QueueInv, NEW t \in Threads, NEW h \in Handlers, NEW p \in Priorities,
           NEW d \in Nat, now + d <= MaxTime, t \in held[h], sent < MaxSent,
           NEW l \in {"insert", "insertSync"}, t # Runner => pc[t] = "idle" /\ t \in Senders,
           t = Runner => pc[t] = "running" /\ l = "insert",
           sent' = sent + 1,
           Goto(t, l, [id |-> sent + 1, owner |-> h, from |-> t, priority |-> p,
                       send |-> now, handle |-> now + d]),
           UNCHANGED <<listVars, sleepVars, now, current, refVars>>
    PROVE  QueueInv'
<1>. DEFINE e == [id |-> sent + 1, owner |-> h, from |-> t, priority |-> p,
                  send |-> now, handle |-> now + d]
<1>0. /\ queue' = queue /\ held' = held /\ pred' = pred /\ now' = now
      /\ finished' = finished /\ wakeUpTime' = wakeUpTime /\ current' = current
      /\ handled' = handled /\ overtaken' = overtaken /\ isIdle' = isIdle /\ idleTimeStamp' = idleTimeStamp
      /\ runnerRefs' = runnerRefs
    BY DEF listVars, sleepVars, refVars
<1>1. now \in Nat /\ sent \in Nat /\ sent' \in 0..MaxSent /\ sent <= sent' /\ now <= now'
      /\ sent + 1 \in 1..MaxSent /\ now \in 0..MaxTime /\ now + d \in 0..MaxTime
    BY <1>0, EventAssumption DEF QueueInv, Scalars
<1>2. t \in Senders \cup {Runner}
    BY DEF QueueInv, Scalars
<1>3. e \in Event /\ e.from = t /\ e.owner = h /\ e.id = sent + 1 /\ e.send = now
    BY <1>1, <1>2 DEF Event
<1>4. Goto(t, l, e)
    OBVIOUS
<1>. HIDE DEF e
<1>5. l \in Pcs /\ pc \in [Threads -> Pcs] /\ DOMAIN arg = Threads
    BY DEF Pcs, QueueInv, Standing
<1>6. /\ pc'[t] = l /\ arg'[t] = e
      /\ \A u \in Threads : u # t => pc'[u] = pc[u] /\ arg'[u] = arg[u]
    BY <1>4, <1>5, Went
<1>7. Latest(e, t, queue, held)
    <2>1. ASSUME NEW x \in Lists, NEW i \in DOMAIN queue[x]
          PROVE  queue[x][i].id < e.id /\ queue[x][i].send <= e.send
        <3>1. queue[x][i].send <= now /\ queue[x][i].id <= sent /\ queue[x][i] \in Event
            BY DEF QueueInv, ListsOK
        <3>2. queue[x][i].id \in Nat /\ queue[x][i].send \in Nat
            BY <3>1, EventTypes
        <3>. QED BY <1>1, <1>3, <3>1, <3>2
    <2>. QED BY <1>3, <2>1 DEF Latest
<1>8. Scalars'
    BY <1>0, <1>1 DEF QueueInv, Scalars
<1>9. Standing'
    <2>1. t = Runner => l \in RunnerAt
        BY DEF RunnerAt
    <2>2. t # Creator
        BY <1>2, Threads3
    <2>3. t \in Senders => l \in SenderAt
        BY DEF SenderAt
    <2>4. Standing /\ current' \in Event \cup {None}
        BY <1>0 DEF QueueInv, Standing
    <2>5. pc'[Runner] \in {"dispatch", "running", "insert"} => pc[Runner] \in {"dispatch", "running", "insert"}
        BY <1>6, Threads3
    <2>6. pc'[Runner] \in {"running", "insert"} => pc[Runner] \in {"running", "insert"}
        BY <1>6, Threads3
    <2>7. pc'[Runner] \in {"dispatch", "running", "insert"} => current' \in Event
        BY <1>0, <2>4, <2>5 DEF Standing
    <2>8. pc'[Runner] \in {"running", "insert"} => Runner \in held'[current'.owner]
        BY <1>0, <2>4, <2>6 DEF Standing
    <2>. QED BY <1>4, <2>1, <2>2, <2>3, <2>4, <2>7, <2>8, StandingKept
<1>10. PostingMoves
    BY <1>0, <1>1, <1>3, <1>6, <1>7 DEF PostingMoves
<1>11. SleepMoves
    BY <1>0, <1>6, Threads3 DEF SleepMoves
<1>12. OrphanMoves
    BY <1>0, <1>6, Threads3 DEF OrphanMoves
<1>. QED BY <1>0, <1>1, <1>8, <1>9, <1>10, <1>11, <1>12, ListsStay, QueueKept

LEMMA SendEventKeeps ==
    ASSUME QueueInv, NEW t \in Threads, NEW h \in Handlers, NEW p \in Priorities, NEW d \in Delays,
           SendEvent(t, h, p, d)
    PROVE  QueueInv'
<1>1. d \in Nat
    BY EventAssumption
<1>2. t \in Senders \cup {Runner}
    BY DEF SendEvent, QueueInv, Scalars
<1>. QED BY <1>1, <1>2, SendKeeps, Threads3 DEF SendEvent

LEMMA SendSyncEventKeeps ==
    ASSUME QueueInv, NEW t \in Threads, NEW h \in Handlers, NEW p \in Priorities,
           SendSyncEvent(t, h, p)
    PROVE  QueueInv'
<1>1. now \in Nat /\ now + 0 = now /\ now + 0 <= MaxTime /\ t # Runner
    BY EventAssumption, Threads3 DEF SendSyncEvent, QueueInv, Scalars
<1>2. 0 \in Nat /\ "insertSync" \in {"insert", "insertSync"}
    OBVIOUS
<1>3. Goto(t, "insertSync",
            [id |-> sent + 1, owner |-> h, from |-> t, priority |-> p,
             send |-> now, handle |-> now + 0])
    BY <1>1 DEF SendSyncEvent
<1>. QED BY <1>1, <1>2, <1>3, SendKeeps, Threads3 DEF SendSyncEvent

(* A step that takes thread t to l, neither to post nor to sleep.          *)
LEMMA MoveKeeps ==
    ASSUME QueueInv, NEW t \in Threads, NEW l, NEW a, Goto(t, l, a),
           l \notin {"insert", "insertSync", "waiting"},
           t = Runner => l \in RunnerAt, t = Creator => l \in {"idle", "finish"},
           t \in Senders => l \in SenderAt,
           Fewer(queue', queue), Scalars', now' = now, sent' = sent,
           t # Runner => current' = current, current' \in Event \cup {None},
           l \in {"dispatch", "running"} => current' \in Event,
           l = "running" => Runner \in held'[current'.owner],
           \A u \in Threads, h \in Handlers : u # t /\ u \in held[h] => u \in held'[h],
           t # Runner /\ pc[Runner] = "waiting" /\ ~pred' =>
              ~pred /\ (finished' => finished) /\ wakeUpTime' = wakeUpTime,
           pc[t] # "removeOrphan",
           \A h \in Handlers : held'[h] = {} => held[h] = {} \/ (l = "removeOrphan" /\ a = h)
    PROVE  QueueInv'
<1>1. /\ l \in Pcs /\ Standing /\ pc \in [Threads -> Pcs] /\ DOMAIN arg = Threads
    BY Threads3 DEF QueueInv, Standing, Pcs
<1>2. /\ pc'[t] = l /\ arg'[t] = a
      /\ \A u \in Threads : u # t => pc'[u] = pc[u] /\ arg'[u] = arg[u]
    BY <1>1, Went
<1>3. now \in Nat /\ sent \in Nat /\ now <= now' /\ sent <= sent'
    BY EventAssumption DEF QueueInv, Scalars
<1>4. Standing'
    <2>1. CASE t = Runner
        <3>1. pc'[Runner] = l
            BY <1>2, <2>1
        <3>. QED BY <1>1, <2>1, <3>1, StandingKept
    <2>2. CASE t # Runner
        <3>1. pc'[Runner] = pc[Runner] /\ current' = current
            BY <1>2, <2>2, Threads3
        <3>2. pc[Runner] \in {"dispatch", "running", "insert"} => current \in Event
            BY <1>1 DEF Standing
        <3>3. pc[Runner] \in {"running", "insert"} => Runner \in held[current.owner] /\ current.owner \in Handlers
            BY <1>1, <3>2, EventTypes DEF Standing
        <3>4. pc[Runner] \in {"running", "insert"} => Runner \in held'[current.owner]
            BY <2>2, <3>3, Threads3
        <3>. QED BY <1>1, <3>1, <3>2, <3>4, StandingKept
    <2>. QED BY <2>1, <2>2
<1>5. PostingMoves
    BY <1>2 DEF PostingMoves
<1>6. SleepMoves
    <2>1. CASE t = Runner
        BY <1>2, <2>1 DEF SleepMoves
    <2>2. CASE t # Runner
        <3>1. pc'[Runner] = pc[Runner]
            BY <1>2, <2>2, Threads3
        <3>. QED BY <2>2, <3>1 DEF SleepMoves
    <2>. QED BY <2>1, <2>2
<1>7. OrphanMoves
    <2>. SUFFICES ASSUME NEW h \in Handlers, held'[h] = {}
                  PROVE  \/ /\ held[h] = {}
                            /\ \A u \in Threads : pc[u] = "removeOrphan" /\ arg[u] = h =>
                                  pc'[u] = "removeOrphan" /\ arg'[u] = h
                         \/ \E u \in Threads : pc'[u] = "removeOrphan" /\ arg'[u] = h
        BY DEF OrphanMoves
    <2>1. CASE held[h] = {}
        BY <1>2, <2>1
    <2>2. CASE l = "removeOrphan" /\ a = h
        BY <1>2, <2>2
    <2>. QED BY <2>1, <2>2
<1>. QED BY <1>3, <1>4, <1>5, <1>6, <1>7, QueueKept

LEMMA ResumeAt ==
    ASSUME NEW t \in Threads
    PROVE  /\ Resume(t) \notin {"insert", "insertSync", "waiting", "dispatch", "running", "removeOrphan"}
           /\ t = Runner => Resume(t) \in RunnerAt
           /\ t # Runner => Resume(t) = "idle"
           /\ t \in Senders => Resume(t) \in SenderAt
BY Threads3 DEF Resume, RunnerAt, SenderAt

LEMMA SyncReturnKeeps ==
    ASSUME QueueInv, NEW t \in Threads, SyncReturn(t)
    PROVE  QueueInv'
<1>1. /\ pc[t] = "awaited" /\ Goto(t, "idle", None)
      /\ queue' = queue /\ held' = held /\ pred' = pred /\ now' = now /\ sent' = sent
      /\ finished' = finished /\ wakeUpTime' = wakeUpTime /\ current' = current
      /\ handled' = handled /\ overtaken' = overtaken /\ isIdle' = isIdle /\ idleTimeStamp' = idleTimeStamp
      /\ runnerRefs' = runnerRefs
    BY DEF SyncReturn, listVars, sleepVars, refVars
<1>2. t # Runner
    BY <1>1 DEF QueueInv, Standing, RunnerAt
<1>3. Scalars' /\ current' \in Event \cup {None}
    BY <1>1 DEF QueueInv, Scalars, Standing
<1>4. "idle" \in SenderAt
    BY DEF SenderAt
<1>. QED BY <1>1, <1>2, <1>3, <1>4, ListsStay, MoveKeeps

(* Where giving up a handler takes thread t, with a in its hand.           *)
ReleasedTo(t, l, a) ==
    /\ Goto(t, l, a)
    /\ l \notin {"insert", "insertSync", "waiting", "dispatch", "running"}
    /\ t = Runner => l \in RunnerAt
    /\ t \in Senders => l \in SenderAt
    /\ \A g \in Handlers : held'[g] = {} => held[g] = {} \/ (l = "removeOrphan" /\ a = g)

(* The last reference to a handler takes its owner to the destructor.      *)
LEMMA Released ==
    ASSUME QueueInv, NEW t \in Threads, NEW h \in Handlers, Release(t, h),
           t \in Senders \/ t = Runner
    PROVE  /\ held' \in [Handlers -> SUBSET (Senders \cup {Runner})]
           /\ \A u \in Threads, g \in Handlers : u # t /\ u \in held[g] => u \in held'[g]
           /\ \E l, a : ReleasedTo(t, l, a)
<1>1. held \in [Handlers -> SUBSET (Senders \cup {Runner})]
    BY DEF QueueInv, Scalars
<1>2. /\ held' \in [Handlers -> SUBSET (Senders \cup {Runner})]
      /\ \A u \in Threads, g \in Handlers : u # t /\ u \in held[g] => u \in held'[g]
    BY <1>1 DEF Release
<1>3. CASE held[h] = {t}
    <2>1. Goto(t, "removeOrphan", h)
        BY <1>3 DEF Release
    <2>2. \A g \in Handlers : held'[g] = {} => held[g] = {} \/ g = h
        BY <1>1 DEF Release
    <2>3. "removeOrphan" \in RunnerAt /\ "removeOrphan" \in SenderAt
        BY DEF RunnerAt, SenderAt
    <2>4. ReleasedTo(t, "removeOrphan", h)
        BY <2>1, <2>2, <2>3 DEF ReleasedTo
    <2>. QED BY <1>2, <2>4
<1>4. CASE held[h] # {t}
    <2>1. Goto(t, Resume(t), None)
        BY <1>4 DEF Release
    <2>2. \A g \in Handlers : held'[g] = {} => held[g] = {}
        BY <1>1, <1>4 DEF Release
    <2>3. ReleasedTo(t, Resume(t), None)
        BY <2>1, <2>2, ResumeAt DEF ReleasedTo
    <2>. QED BY <1>2, <2>3
<1>. QED BY <1>3, <1>4

LEMMA DropHandlerKeeps ==
    ASSUME QueueInv, NEW t \in Threads, NEW h \in Handlers, DropHandler(t, h)
    PROVE  QueueInv'
<1>1. /\ pc[t] = "idle" /\ t \in Senders /\ t # Runner /\ t # Creator /\ Release(t, h)
      /\ queue' = queue /\ pred' = pred /\ now' = now /\ sent' = sent
      /\ finished' = finished /\ wakeUpTime' = wakeUpTime /\ current' = current
      /\ handled' = handled /\ overtaken' = overtaken /\ isIdle' = isIdle /\ idleTimeStamp' = idleTimeStamp
      /\ runnerRefs' = runnerRefs
    BY Threads3 DEF DropHandler, listVars, sleepVars
<1>2. /\ held' \in [Handlers -> SUBSET (Senders \cup {Runner})]
      /\ \A u \in Threads, g \in Handlers : u # t /\ u \in held[g] => u \in held'[g]
    BY <1>1, Released
<1>3. PICK l, a : ReleasedTo(t, l, a)
    BY <1>1, Threads3, Released
<1>4. Scalars' /\ current' \in Event \cup {None}
    BY <1>1, <1>2 DEF QueueInv, Scalars, Standing
<1>. QED BY <1>1, <1>2, <1>3, <1>4, ListsStay, MoveKeeps DEF ReleasedTo

LEMMA DistributedKeeps ==
    ASSUME QueueInv, Distributed
    PROVE  QueueInv'
<1>1. /\ pc[Runner] = "running" /\ current \in Event /\ current.owner \in Handlers
      /\ Release(Runner, current.owner) /\ current' = None
      /\ queue' = queue /\ pred' = pred /\ now' = now /\ sent' = sent
      /\ finished' = finished /\ wakeUpTime' = wakeUpTime
      /\ handled' = handled /\ overtaken' = overtaken /\ isIdle' = isIdle /\ idleTimeStamp' = idleTimeStamp
      /\ runnerRefs' = runnerRefs
    BY EventTypes DEF Distributed, listVars, sleepVars, QueueInv, Standing
<1>2. /\ held' \in [Handlers -> SUBSET (Senders \cup {Runner})]
      /\ \A u \in Threads, g \in Handlers : u # Runner /\ u \in held[g] => u \in held'[g]
    BY <1>1, Threads3, Released
<1>3. PICK l, a : ReleasedTo(Runner, l, a)
    BY <1>1, Threads3, Released
<1>4. Scalars' /\ current' \in Event \cup {None}
    BY <1>1, <1>2 DEF QueueInv, Scalars
<1>. QED BY <1>1, <1>2, <1>3, <1>4, Threads3, ListsStay, MoveKeeps DEF ReleasedTo

LEMMA DispatchKeeps ==
    ASSUME QueueInv, Dispatch
    PROVE  QueueInv'
<1>1. /\ pc[Runner] = "dispatch" /\ current \in Event /\ current.owner \in Handlers
      /\ queue' = queue /\ pred' = pred /\ now' = now /\ sent' = sent
      /\ finished' = finished /\ wakeUpTime' = wakeUpTime
      /\ handled' = handled /\ overtaken' = overtaken /\ isIdle' = isIdle /\ idleTimeStamp' = idleTimeStamp
      /\ runnerRefs' = runnerRefs
    BY EventTypes DEF Dispatch, listVars, sleepVars, QueueInv, Standing
<1>2. held \in [Handlers -> SUBSET (Senders \cup {Runner})]
    BY DEF QueueInv, Scalars
<1>3. "running" \in RunnerAt /\ "get" \in RunnerAt
    BY DEF RunnerAt
<1>4. CASE held[current.owner] # {}
    <2>1. /\ held' = [held EXCEPT ![current.owner] = @ \cup {Runner}]
          /\ Goto(Runner, "running", None) /\ current' = current
        BY <1>4 DEF Dispatch
    <2>2. /\ held' \in [Handlers -> SUBSET (Senders \cup {Runner})]
          /\ Runner \in held'[current'.owner]
          /\ \A g \in Handlers : held[g] \subseteq held'[g]
        BY <1>1, <1>2, <2>1
    <2>3. Scalars'
        BY <1>1, <2>2 DEF QueueInv, Scalars
    <2>. QED BY <1>1, <1>3, <2>1, <2>2, <2>3, Threads3, ListsStay, MoveKeeps
<1>5. CASE held[current.owner] = {}
    <2>1. held' = held /\ Goto(Runner, "get", None) /\ current' = None
        BY <1>5 DEF Dispatch
    <2>2. Scalars'
        BY <1>1, <2>1 DEF QueueInv, Scalars
    <2>. QED BY <1>1, <1>3, <2>1, <2>2, Threads3, ListsStay, MoveKeeps
<1>. QED BY <1>4, <1>5

LEMMA PrepareKeeps ==
    ASSUME QueueInv, Prepare
    PROVE  QueueInv'
<1>1. /\ pc[Runner] = "start" /\ Goto(Runner, "prepared", None) /\ finished' = FALSE
      /\ queue' = queue /\ held' = held /\ pred' = pred /\ now' = now /\ sent' = sent
      /\ wakeUpTime' = wakeUpTime /\ current' = current
      /\ handled' = handled /\ overtaken' = overtaken /\ isIdle' = isIdle /\ idleTimeStamp' = idleTimeStamp
      /\ runnerRefs' = runnerRefs
    BY DEF Prepare, listVars, refVars
<1>2. Scalars' /\ current' \in Event \cup {None}
    BY <1>1 DEF QueueInv, Scalars, Standing
<1>3. "prepared" \in RunnerAt
    BY DEF RunnerAt
<1>. QED BY <1>1, <1>2, <1>3, Threads3, ListsStay, MoveKeeps

LEMMA CheckOwnerKeeps ==
    ASSUME QueueInv, CheckOwner
    PROVE  QueueInv'
<1>1. /\ pc[Runner] = "prepared" /\ Goto(Runner, AfterOwnerCheck, None)
      /\ queue' = queue /\ held' = held /\ pred' = pred /\ now' = now /\ sent' = sent
      /\ wakeUpTime' = wakeUpTime /\ current' = current /\ finished' = finished
      /\ handled' = handled /\ overtaken' = overtaken /\ isIdle' = isIdle /\ idleTimeStamp' = idleTimeStamp
      /\ runnerRefs' = runnerRefs
    BY DEF CheckOwner, listVars, sleepVars, refVars
<1>2. Scalars' /\ current' \in Event \cup {None}
    BY <1>1 DEF QueueInv, Scalars, Standing
<1>3. AfterOwnerCheck \in {"ended", "get"}
    BY DEF AfterOwnerCheck
<1>4. "ended" \in RunnerAt /\ "get" \in RunnerAt
    BY DEF RunnerAt
<1>. QED BY <1>1, <1>2, <1>3, <1>4, Threads3, ListsStay, MoveKeeps

LEMMA FinishKeeps ==
    ASSUME QueueInv, NEW t \in Threads, Finish(t)
    PROVE  QueueInv'
<1>1. /\ pc[t] = "finish" /\ Goto(t, Resume(t), None) /\ Notify
      /\ queue' = queue /\ held' = held /\ now' = now /\ sent' = sent
      /\ wakeUpTime' = wakeUpTime /\ current' = current /\ finished' = TRUE
      /\ handled' = handled /\ overtaken' = overtaken /\ isIdle' = isIdle /\ idleTimeStamp' = idleTimeStamp
      /\ runnerRefs' = runnerRefs
    BY DEF Finish, listVars, refVars
<1>2. pred' = (pred \/ pc[Runner] = "waiting")
    BY <1>1 DEF Notify
<1>3. pred' \in BOOLEAN
    BY <1>2, Zenon
<1>4. Scalars' /\ current' \in Event \cup {None}
    BY <1>1, <1>3 DEF QueueInv, Scalars, Standing
<1>5. pc[Runner] = "waiting" => pred'
    BY <1>2, Zenon
<1>. QED BY <1>1, <1>4, <1>5, Threads3, ResumeAt, ListsStay, MoveKeeps

LEMMA RunnerReleased ==
    ASSUME NEW t \in Threads, NEW ref, ReleaseRunner(t, ref)
    PROVE  \E l : /\ Goto(t, l, None)
                  /\ l \notin {"insert", "insertSync", "waiting", "dispatch", "running", "removeOrphan"}
                  /\ t = Runner => l \in RunnerAt
                  /\ t # Runner => l \in {"idle", "finish"}
                  /\ t \in Senders => l \in SenderAt
<1>1. Goto(t, "finish", None) \/ Goto(t, Resume(t), None)
    BY DEF ReleaseRunner
<1>2. "finish" \in RunnerAt /\ "finish" \in SenderAt
    BY DEF RunnerAt, SenderAt
<1>. QED BY <1>1, <1>2, ResumeAt

LEMMA DropRunnerKeeps ==
    ASSUME QueueInv, DropRunner
    PROVE  QueueInv'
<1>1. /\ queue' = queue /\ held' = held /\ pred' = pred /\ now' = now /\ sent' = sent
      /\ wakeUpTime' = wakeUpTime /\ current' = current /\ finished' = finished
      /\ handled' = handled /\ overtaken' = overtaken /\ isIdle' = isIdle /\ idleTimeStamp' = idleTimeStamp
      /\ runnerRefs' \subseteq runnerRefs
      /\ ReleaseRunner(Creator, Creator)
    BY DEF DropRunner, ReleaseRunner, listVars, sleepVars
<1>2. Scalars' /\ current' \in Event \cup {None}
    BY <1>1 DEF QueueInv, Scalars, Standing
<1>3. PICK l : /\ Goto(Creator, l, None)
               /\ l \notin {"insert", "insertSync", "waiting", "dispatch", "running", "removeOrphan"}
               /\ l \in {"idle", "finish"}
    BY <1>1, Threads3, RunnerReleased
<1>4. pc[Creator] # "removeOrphan"
    BY DEF QueueInv, Standing
<1>. QED BY <1>1, <1>2, <1>3, <1>4, Threads3, ListsStay, MoveKeeps

LEMMA RemovedFewer ==
    ASSUME NEW q \in [Lists -> Seq(Event)], NEW gone, NEW r, r = [p \in DOMAIN q |-> Without(q[p], gone)]
    PROVE  /\ Fewer(r, q)
           /\ \A p \in Lists : \A i \in DOMAIN r[p] :
                 r[p][i] \notin gone /\ \E j \in DOMAIN q[p] : r[p][i] = q[p][j]
<1>1. \A p \in Lists : r[p] = Without(q[p], gone) /\ q[p] \in Seq(Event)
    OBVIOUS
<1>2. DOMAIN r = Lists /\ r = [p \in Lists |-> r[p]]
    OBVIOUS
<1>3. ASSUME NEW p \in Lists
      PROVE  /\ Thinned(r[p], q[p]) /\ r[p] \in Seq(Event)
             /\ \A i \in DOMAIN r[p] :
                 r[p][i] \notin gone /\ \E j \in DOMAIN q[p] : r[p][i] = q[p][j]
    <2>1. Thinned(r[p], q[p])
        BY <1>1, WithoutThinned
    <2>2. \A i \in DOMAIN r[p] :
                 r[p][i] \notin gone /\ \E j \in DOMAIN q[p] : r[p][i] = q[p][j]
        BY <1>1, WithoutThinned
    <2>. QED BY <2>1, <2>2 DEF Thinned
<1>4. r \in [Lists -> Seq(Event)]
    BY <1>2, <1>3
<1>. QED BY <1>3, <1>4 DEF Fewer

LEMMA AllEventsRemoved ==
    ASSUME QueueInv, NEW t \in Threads, NEW h \in Handlers,
           RemoveAllEvents(t, h) \/ RemoveEvent(t, h)
    PROVE  Fewer(queue', queue)
<1>1. queue \in [Lists -> Seq(Event)]
    BY DEF QueueInv, ListsOK
<1>2. CASE RemoveAllEvents(t, h)
    <2>1. \E gone : queue' = [p \in DOMAIN queue |-> Without(queue[p], gone)]
        BY <1>2 DEF RemoveAllEvents, RemoveEvents
    <2>. QED BY <1>1, <2>1, RemovedFewer
<1>3. CASE RemoveEvent(t, h)
    <2>1. \E gone : queue' = [p \in DOMAIN queue |-> Without(queue[p], gone)]
        BY <1>3 DEF RemoveEvent, RemoveEvents
    <2>. QED BY <1>1, <2>1, RemovedFewer
<1>. QED BY <1>2, <1>3

LEMMA RemoveKeeps ==
    ASSUME QueueInv, NEW t \in Threads, NEW h \in Handlers,
           RemoveAllEvents(t, h) \/ RemoveEvent(t, h)
    PROVE  QueueInv'
<1>1. /\ pc' = pc /\ arg' = arg /\ held' = held /\ pred' = pred
      /\ finished' = finished /\ wakeUpTime' = wakeUpTime /\ current' = current
      /\ handled' = handled /\ overtaken' = overtaken /\ isIdle' = isIdle /\ idleTimeStamp' = idleTimeStamp
      /\ runnerRefs' = runnerRefs /\ now' = now /\ sent' = sent
    BY DEF RemoveAllEvents, RemoveEvent, sleepVars, threadVars, refVars
<1>2. Scalars' /\ Standing'
    BY <1>1 DEF QueueInv, Scalars, Standing
<1>3. PostingMoves /\ SleepMoves /\ OrphanMoves
    BY <1>1 DEF PostingMoves, SleepMoves, OrphanMoves
<1>4. now <= now' /\ sent <= sent'
    BY <1>1, EventAssumption DEF QueueInv, Scalars
<1>. QED BY <1>2, <1>3, <1>4, AllEventsRemoved, QueueKept

LEMMA RemoveOrphanKeeps ==
    ASSUME QueueInv, NEW t \in Threads, RemoveOrphan(t)
    PROVE  QueueInv'
<1>1. /\ held' = held /\ pred' = pred /\ now' = now /\ sent' = sent
      /\ wakeUpTime' = wakeUpTime /\ current' = current /\ finished' = finished
      /\ handled' = handled /\ overtaken' = overtaken /\ isIdle' = isIdle /\ idleTimeStamp' = idleTimeStamp
      /\ runnerRefs' \subseteq runnerRefs
      /\ pc[t] = "removeOrphan" /\ RemoveEvents(Orphans) /\ ReleaseRunner(t, arg[t])
    BY DEF RemoveOrphan, ReleaseRunner, sleepVars
<1>. DEFINE gone == Orphans
<1>2. queue' = [p \in DOMAIN queue |-> Without(queue[p], gone)]
    BY <1>1 DEF RemoveEvents
<1>3. queue \in [Lists -> Seq(Event)] /\ DOMAIN queue = Lists
    BY DEF QueueInv, ListsOK
<1>4. \A p \in Lists : \A j \in DOMAIN queue[p] : held[queue[p][j].owner] = {} => queue[p][j] \in gone
    BY <1>3 DEF ToSet, Orphans, Enqueued
<1>5. PICK away : away = gone
    OBVIOUS
<1>6. /\ queue' = [p \in DOMAIN queue |-> Without(queue[p], away)]
      /\ \A p \in Lists : \A j \in DOMAIN queue[p] : held[queue[p][j].owner] = {} => queue[p][j] \in away
    BY <1>2, <1>4, <1>5
<1>. HIDE DEF gone
<1>7. /\ Fewer(queue', queue)
      /\ \A p \in Lists : \A i \in DOMAIN queue'[p] :
           queue'[p][i] \notin away /\ \E j \in DOMAIN queue[p] : queue'[p][i] = queue[p][j]
    <2>1. Fewer(queue', queue)
        BY <1>3, <1>6, RemovedFewer
    <2>2. \A p \in Lists : \A i \in DOMAIN queue'[p] : queue'[p][i] \notin away
        BY <1>3, <1>6, RemovedFewer
    <2>3. \A p \in Lists : \A i \in DOMAIN queue'[p] : \E j \in DOMAIN queue[p] : queue'[p][i] = queue[p][j]
        <3>. TAKE p \in Lists
        <3>1. queue'[p] = Without(queue[p], away) /\ queue[p] \in Seq(Event)
            BY <1>3, <1>6
        <3>. QED BY <3>1, WithoutThinned
    <2>. QED BY <2>1, <2>2, <2>3
<1>8. \A p \in Lists : \A i \in DOMAIN queue'[p] : held'[queue'[p][i].owner] # {}
    BY <1>1, <1>6, <1>7
<1>9. NoOrphanLeft'
    <2>1. DOMAIN queue' = Lists
        BY <1>7 DEF Fewer
    <2>. QED BY <1>8, <2>1 DEF NoOrphanLeft
<1>10. PICK l : /\ Goto(t, l, None)
                /\ l \notin {"insert", "insertSync", "waiting", "dispatch", "running", "removeOrphan"}
                /\ t = Runner => l \in RunnerAt
                /\ t # Runner => l \in {"idle", "finish"}
                /\ t \in Senders => l \in SenderAt
    BY <1>1, RunnerReleased
<1>11. l \in Pcs /\ Standing /\ pc \in [Threads -> Pcs] /\ DOMAIN arg = Threads
    BY <1>10, Threads3 DEF QueueInv, Standing, Pcs
<1>12. /\ pc'[t] = l
       /\ \A u \in Threads : u # t => pc'[u] = pc[u] /\ arg'[u] = arg[u]
    BY <1>10, <1>11, Went
<1>13. Scalars' /\ current' \in Event \cup {None}
    BY <1>1 DEF QueueInv, Scalars, Standing
<1>14. Standing'
    <2>1. pc'[Runner] \in {"dispatch", "running", "insert"} => pc[Runner] = pc'[Runner]
        BY <1>10, <1>12, Threads3
    <2>2. pc'[Runner] \in {"dispatch", "running", "insert"} => current' \in Event
        BY <1>1, <1>11, <2>1 DEF Standing
    <2>3. pc'[Runner] \in {"running", "insert"} => Runner \in held'[current'.owner]
        BY <1>1, <1>11, <2>1 DEF Standing
    <2>. QED BY <1>10, <1>11, <1>13, <2>2, <2>3, Threads3, StandingKept
<1>15. now \in Nat /\ now' \in Nat /\ sent \in Nat /\ sent' \in Nat /\ now <= now' /\ sent <= sent'
    BY <1>1, EventAssumption DEF QueueInv, Scalars
<1>16. ListsOK(queue, now, sent) /\ Posting /\ WakesInTime
    BY DEF QueueInv
<1>17. ListsOK(queue', now', sent')
    BY <1>7, <1>15, <1>16, FewerOK
<1>18. Posting'
    <2>1. PostingMoves
        BY <1>1, <1>10, <1>12 DEF PostingMoves
    <2>. QED BY <1>7, <1>15, <1>16, <2>1, PostingKept DEF PostingMoves
<1>19. WakesInTime'
    <2>1. pc'[Runner] = "waiting" => pc[Runner] = "waiting"
        BY <1>10, <1>12, Threads3
    <2>2. SleepMoves
        BY <1>1, <2>1 DEF SleepMoves
    <2>. QED BY <1>7, <1>16, <2>2, WakesKept DEF SleepMoves
<1>. QED BY <1>9, <1>13, <1>14, <1>17, <1>18, <1>19 DEF QueueInv

-----------------------------------------------------------------------------
(* An event that its thread posts last stays behind those it posted with   *)
(* the same delay.                                                         *)
LEMMA InsertedList ==
    ASSUME NEW q \in Seq(Event), Sorted(q), Fifo(q), NEW e \in Event,
           \A i \in DOMAIN q : q[i].from = e.from => q[i].id < e.id /\ q[i].send <= e.send
    PROVE  LET r == InsertSorted(q, e)
           IN  /\ r \in Seq(Event) /\ Sorted(r) /\ Fifo(r)
               /\ \A i \in DOMAIN r : r[i] = e \/ \E j \in DOMAIN q : r[i] = q[j]
<1>. DEFINE r == InsertSorted(q, e)
<1>1. PICK m \in 0..Len(q) :
        /\ r \in Seq(Event) /\ Len(r) = Len(q) + 1
        /\ r[m + 1] = e
        /\ \A i \in 1..m : r[i] = q[i] /\ q[i].handle <= e.handle
        /\ \A i \in m + 1..Len(q) : r[i + 1] = q[i] /\ q[i].handle > e.handle
    BY InsertedSorted
<1>. HIDE DEF r
<1>. DEFINE N == Len(q)
<1>2. N \in Nat /\ DOMAIN q = 1..N /\ DOMAIN r = 1..N + 1 /\ m \in Nat /\ m <= N
      /\ \A i \in 1..N : q[i] \in Event
    BY <1>1
<1>. HIDE DEF N
<1>3. \A i \in 1..N + 1 : i \in 1..m \/ i = m + 1 \/ (i - 1 \in m + 1..N /\ (i - 1) + 1 = i /\ i - 1 \in 1..N)
    BY <1>2
<1>4. \A i \in 1..m : i \in 1..N /\ r[i] = q[i] /\ q[i].handle <= e.handle
    BY <1>1, <1>2
<1>5. \A i \in m + 2..N + 1 : /\ i - 1 \in m + 1..N /\ i - 1 \in 1..N
                              /\ r[i] = q[i - 1] /\ q[i - 1].handle > e.handle
    <2>. TAKE i \in m + 2..N + 1
    <2>1. i - 1 \in m + 1..N /\ i - 1 \in 1..N /\ (i - 1) + 1 = i
        BY <1>2
    <2>. QED BY <1>1, <2>1 DEF N
<1>6. \A i \in 1..N + 1 : i \in 1..m \/ i = m + 1 \/ i \in m + 2..N + 1
    BY <1>2
<1>7. \A i \in DOMAIN r : r[i] = e \/ \E j \in DOMAIN q : r[i] = q[j]
    BY <1>1, <1>2, <1>4, <1>5, <1>6
<1>8. e.handle \in Nat /\ e.send \in Nat /\ e.id \in Nat /\ \A i \in 1..N : q[i].handle \in Nat /\ q[i].send \in Nat /\ q[i].id \in Nat
    BY <1>2, EventTypes
<1>9. Sorted(r)
    <2>. SUFFICES ASSUME NEW i \in 1..N + 1, NEW j \in 1..N + 1, i < j
                  PROVE  r[i].handle <= r[j].handle
        BY <1>2 DEF Sorted
    <2>1. CASE i \in 1..m /\ j \in 1..m
        BY <1>2, <1>4, <2>1 DEF Sorted
    <2>2. CASE i \in 1..m /\ j = m + 1
        BY <1>1, <1>4, <2>2
    <2>3. CASE i \in 1..m /\ j \in m + 2..N + 1
        <3>1. r[i] = q[i] /\ q[i].handle <= e.handle /\ i \in 1..N
            BY <1>4, <2>3
        <3>2. r[j] = q[j - 1] /\ q[j - 1].handle > e.handle /\ j - 1 \in 1..N
            BY <1>5, <2>3
        <3>. QED BY <1>8, <3>1, <3>2
    <2>4. CASE i = m + 1 /\ j \in m + 2..N + 1
        BY <1>1, <1>5, <1>8, <2>4
    <2>5. CASE i \in m + 2..N + 1 /\ j \in m + 2..N + 1
        <3>1. i - 1 < j - 1 /\ i - 1 \in 1..N /\ j - 1 \in 1..N
            BY <1>5, <2>5
        <3>. QED BY <1>2, <1>5, <2>5, <3>1 DEF Sorted
    <2>6. ~(i = m + 1 /\ j \in 1..m + 1) /\ ~(i \in m + 2..N + 1 /\ j \in 1..m + 1)
        BY <1>2
    <2>. QED BY <1>2, <1>6, <2>1, <2>2, <2>3, <2>4, <2>5, <2>6
<1>10. Fifo(r)
    <2>. SUFFICES ASSUME NEW i \in 1..N + 1, NEW j \in 1..N + 1, i < j, r[i].from = r[j].from,
                         r[i].handle - r[i].send = r[j].handle - r[j].send
                  PROVE  r[i].id < r[j].id
        BY <1>2 DEF Fifo
    <2>1. CASE i \in 1..m /\ j \in 1..m
        BY <1>2, <1>4, <2>1 DEF Fifo
    <2>2. CASE i \in 1..m /\ j = m + 1
        BY <1>1, <1>2, <1>4, <2>2
    <2>3. CASE i \in 1..m /\ j \in m + 2..N + 1
        <3>1. i < j - 1 /\ i \in 1..N /\ j - 1 \in 1..N
            BY <1>4, <1>5, <1>2, <2>3
        <3>2. r[i] = q[i]
            BY <1>4, <2>3
        <3>3. r[j] = q[j - 1]
            BY <1>5, <2>3
        <3>4. q[i].from = q[j - 1].from /\ q[i].handle - q[i].send = q[j - 1].handle - q[j - 1].send
            BY <3>2, <3>3
        <3>. QED BY <1>2, <3>1, <3>2, <3>3, <3>4 DEF Fifo
    <2>4. CASE i = m + 1 /\ j \in m + 2..N + 1
        <3>1. r[i] = e /\ r[j] = q[j - 1] /\ j - 1 \in 1..N /\ q[j - 1].handle > e.handle
            BY <1>1, <1>5, <2>4
        <3>2. q[j - 1].from = e.from
            BY <3>1
        <3>3. q[j - 1].send <= e.send
            BY <1>2, <3>1, <3>2
        <3>4. e.handle - e.send = q[j - 1].handle - q[j - 1].send
            BY <3>1
        <3>. QED BY <1>8, <3>1, <3>3, <3>4
    <2>5. CASE i \in m + 2..N + 1 /\ j \in m + 2..N + 1
        <3>1. i - 1 < j - 1 /\ i - 1 \in 1..N /\ j - 1 \in 1..N
            BY <1>5, <2>5
        <3>. QED BY <1>2, <1>5, <2>5, <3>1 DEF Fifo
    <2>6. ~(i = m + 1 /\ j \in 1..m + 1) /\ ~(i \in m + 2..N + 1 /\ j \in 1..m + 1)
        BY <1>2
    <2>. QED BY <1>2, <1>6, <2>1, <2>2, <2>3, <2>4, <2>5, <2>6
<1>. QED BY <1>1, <1>7, <1>9, <1>10 DEF r

LEMMA InsertKeeps ==
    ASSUME QueueInv, NEW t \in Threads, Insert(t)
    PROVE  QueueInv'
<1>1. /\ pc[t] \in {"insert", "insertSync"} /\ Latest(arg[t], t, queue, held)
      /\ arg[t].id <= sent /\ arg[t].send <= now
    BY DEF Insert, QueueInv, Posting
<1>2. PICK e \in Event : e = arg[t] /\ e.from = t /\ t \in held[e.owner]
    BY <1>1 DEF Latest
<1>3. PICK k \in Lists : k = e.priority
    BY EventTypes, EventAssumption DEF Lists
<1>4. /\ queue' = [queue EXCEPT ![k] = InsertSorted(queue[k], e)]
      /\ held' = held /\ now' = now /\ sent' = sent
      /\ wakeUpTime' = wakeUpTime /\ current' = current /\ finished' = finished
      /\ handled' = handled /\ overtaken' = overtaken /\ isIdle' = isIdle /\ idleTimeStamp' = idleTimeStamp
      /\ runnerRefs' = runnerRefs
    BY <1>2, <1>3 DEF Insert, refVars
<1>5. /\ NeedNotify(e) => Notify
      /\ ~NeedNotify(e) => pred' = pred
    BY <1>2 DEF Insert
<1>6. PICK l, a : /\ Goto(t, l, a) /\ l \in {"awaited", "running", "idle"}
                  /\ l = "awaited" => pc[t] = "insertSync"
                  /\ l = "running" <=> t = Runner
    <2>1. CASE pc[t] = "insertSync"
        <3>1. t # Runner
            BY <2>1 DEF QueueInv, Standing, RunnerAt
        <3>2. Goto(t, "awaited", arg[t])
            BY <2>1 DEF Insert
        <3>. QED BY <2>1, <3>1, <3>2
    <2>2. CASE pc[t] # "insertSync" /\ t = Runner
        <3>1. Goto(t, "running", None)
            BY <2>2 DEF Insert
        <3>. QED BY <2>2, <3>1
    <2>3. CASE pc[t] # "insertSync" /\ t # Runner
        <3>1. Goto(t, "idle", None)
            BY <2>3 DEF Insert
        <3>. QED BY <2>3, <3>1
    <2>. QED BY <2>1, <2>2, <2>3
<1>7. l \in Pcs /\ Standing /\ pc \in [Threads -> Pcs] /\ DOMAIN arg = Threads
    BY <1>6 DEF QueueInv, Standing, Pcs
<1>8. /\ pc'[t] = l /\ arg'[t] = a
      /\ \A u \in Threads : u # t => pc'[u] = pc[u] /\ arg'[u] = arg[u]
    BY <1>6, <1>7, Went
<1>9. pred' = pred \/ pred' = (pred \/ pc[Runner] = "waiting")
    BY <1>5 DEF Notify
<1>10. pred' \in BOOLEAN
    <2>1. pred \in BOOLEAN
        BY DEF QueueInv, Scalars
    <2>2. (pred \/ pc[Runner] = "waiting") \in BOOLEAN
        BY Zenon
    <2>. QED BY <1>9, <2>1, <2>2, Zenon
<1>11. Scalars' /\ current' \in Event \cup {None}
    BY <1>4, <1>10 DEF QueueInv, Scalars, Standing
<1>12. now \in Nat /\ sent \in Nat /\ MaxTime \in Nat
    BY EventAssumption DEF QueueInv, Scalars
<1>13. ListsOK(queue, now, sent)
    BY DEF QueueInv
<1>14. queue \in [Lists -> Seq(Event)] /\ queue[k] \in Seq(Event) /\ Sorted(queue[k]) /\ Fifo(queue[k])
    BY <1>13 DEF ListsOK
<1>15. \A i \in DOMAIN queue[k] :
          queue[k][i].from = e.from => queue[k][i].id < e.id /\ queue[k][i].send <= e.send
    BY <1>1, <1>2 DEF Latest
<1>16. PICK r : r = InsertSorted(queue[k], e)
    OBVIOUS
<1>17. /\ r \in Seq(Event) /\ Sorted(r) /\ Fifo(r)
       /\ \A i \in DOMAIN r : r[i] = e \/ \E j \in DOMAIN queue[k] : r[i] = queue[k][j]
    BY <1>14, <1>15, <1>16, InsertedList
<1>18. /\ queue'[k] = r /\ queue' \in [Lists -> Seq(Event)]
       /\ \A p \in Lists : p # k => queue'[p] = queue[p]
    BY <1>4, <1>14, <1>16, <1>17
(* Every event in a list was there before or is the new one.               *)
<1>19. ASSUME NEW p \in Lists, NEW i \in DOMAIN queue'[p]
       PROVE  \/ queue'[p][i] = e /\ p = k
              \/ \E j \in DOMAIN queue[p] : queue'[p][i] = queue[p][j]
    BY <1>17, <1>18
<1>20. ListsOK(queue', now', sent')
    <2>1. ASSUME NEW p \in Lists
          PROVE  Sorted(queue'[p]) /\ Fifo(queue'[p])
        BY <1>13, <1>17, <1>18 DEF ListsOK
    <2>2. ASSUME NEW p \in Lists, NEW i \in DOMAIN queue'[p]
          PROVE  queue'[p][i].priority = p /\ queue'[p][i].send <= now /\ queue'[p][i].id <= sent
        <3>1. CASE queue'[p][i] = e /\ p = k
            BY <1>1, <1>2, <1>3, <3>1
        <3>2. CASE \E j \in DOMAIN queue[p] : queue'[p][i] = queue[p][j]
            BY <1>13, <3>2 DEF ListsOK
        <3>. QED BY <1>19, <3>1, <3>2
    <2>. QED BY <1>4, <1>18, <2>1, <2>2 DEF ListsOK
<1>21. Standing'
    <2>1. t # Creator
        BY <1>1, <1>7 DEF Standing
    <2>2. t \in Senders => l \in SenderAt
        BY <1>6, Threads3 DEF SenderAt
    <2>3. t = Runner => l \in RunnerAt /\ pc[Runner] = "insert"
        BY <1>1, <1>6, <1>7 DEF RunnerAt, Standing
    <2>4. pc'[Runner] \in {"dispatch", "running", "insert"} => pc[Runner] \in {"dispatch", "running", "insert"}
        BY <1>8, <2>3, Threads3
    <2>5. pc'[Runner] \in {"running", "insert"} => pc[Runner] \in {"running", "insert"}
        BY <1>8, <2>3, Threads3
    <2>6. pc'[Runner] \in {"dispatch", "running", "insert"} => current' \in Event
        BY <1>4, <1>7, <2>4 DEF Standing
    <2>7. pc'[Runner] \in {"running", "insert"} => Runner \in held'[current'.owner]
        BY <1>4, <1>7, <2>5 DEF Standing
    <2>. QED BY <1>6, <1>7, <1>11, <2>1, <2>2, <2>3, <2>6, <2>7, StandingKept
<1>22. Posting'
    <2>. SUFFICES ASSUME NEW u \in Threads, pc'[u] \in {"insert", "insertSync"}
                  PROVE  /\ Latest(arg'[u], u, queue', held')
                         /\ arg'[u].id <= sent' /\ arg'[u].send <= now'
        BY DEF Posting
    <2>1. u # t /\ pc[u] = pc'[u] /\ arg'[u] = arg[u]
        BY <1>6, <1>8
    <2>2. PICK f : f = arg[u]
        OBVIOUS
    <2>3. Latest(f, u, queue, held) /\ f.id <= sent /\ f.send <= now
        BY <2>1, <2>2 DEF QueueInv, Posting
    <2>4. ASSUME NEW p \in Lists, NEW i \in DOMAIN queue'[p], queue'[p][i].from = u
          PROVE  queue'[p][i].id < f.id /\ queue'[p][i].send <= f.send
        <3>1. queue'[p][i] # e
            BY <1>2, <2>1, <2>4
        <3>2. PICK j \in DOMAIN queue[p] : queue'[p][i] = queue[p][j]
            BY <1>19, <3>1
        <3>. QED BY <2>3, <2>4, <3>2 DEF Latest
    <2>5. Latest(f, u, queue', held')
        BY <1>4, <2>3, <2>4 DEF Latest
    <2>. QED BY <1>4, <2>1, <2>2, <2>3, <2>5
<1>23. WakesInTime'
    <2>. SUFFICES ASSUME pc'[Runner] = "waiting", ~pred'
                  PROVE  /\ ~finished'
                         /\ \A p \in SubQueues : \A i \in DOMAIN queue'[p] :
                               wakeUpTime' <= queue'[p][i].handle
        BY DEF WakesInTime
    <2>1. t # Runner /\ pc[Runner] = "waiting"
        BY <1>6, <1>8, Threads3
    <2>2. ~NeedNotify(e)
        BY <1>5, <2>1 DEF Notify
    <2>3. ~pred
        BY <1>5, <2>2
    <2>4. /\ ~finished
          /\ \A p \in SubQueues : \A i \in DOMAIN queue[p] : wakeUpTime <= queue[p][i].handle
        BY <2>1, <2>3 DEF QueueInv, WakesInTime
    <2>5. ASSUME NEW p \in SubQueues, NEW i \in DOMAIN queue'[p]
          PROVE  wakeUpTime <= queue'[p][i].handle
        <3>1. p \in Lists
            BY DEF Lists
        <3>2. CASE queue'[p][i] = e /\ p = k
            <4>1. e.priority # IDLE
                BY <1>3, <3>2 DEF SubQueues, IMMEDIATE, HIGH, LOW, IDLE
            <4>2. ~(e.handle < wakeUpTime)
                BY <2>2, <4>1 DEF NeedNotify
            <4>3. e.handle \in Nat /\ wakeUpTime \in Nat
                BY <1>12, EventTypes DEF QueueInv, Scalars, Never
            <4>. QED BY <3>2, <4>2, <4>3
        <3>3. CASE \E j \in DOMAIN queue[p] : queue'[p][i] = queue[p][j]
            BY <2>4, <3>3
        <3>. QED BY <1>19, <3>1, <3>2, <3>3
    <2>. QED BY <1>4, <2>4, <2>5
<1>24. NoOrphanLeft'
    <2>1. DOMAIN queue = Lists /\ DOMAIN queue' = Lists
        BY <1>14, <1>18
    <2>. SUFFICES ASSUME NEW p \in Lists, NEW i \in DOMAIN queue'[p], held[queue'[p][i].owner] = {}
                  PROVE  \E u \in Threads : pc'[u] = "removeOrphan" /\ arg'[u] = queue'[p][i].owner
        BY <1>4, <2>1 DEF NoOrphanLeft
    <2>2. queue'[p][i] # e
        BY <1>2
    <2>3. PICK j \in DOMAIN queue[p] : queue'[p][i] = queue[p][j]
        BY <1>19, <2>2
    <2>4. PICK u \in Threads : pc[u] = "removeOrphan" /\ arg[u] = queue[p][j].owner
        BY <2>1, <2>3 DEF QueueInv, NoOrphanLeft
    <2>5. u # t
        BY <1>1, <2>4
    <2>. QED BY <1>8, <2>3, <2>4, <2>5
<1>. QED BY <1>11, <1>20, <1>21, <1>22, <1>23, <1>24 DEF QueueInv

LEMMA SubQueueFacts ==
    /\ SubQueues = {0, 1, 2} /\ IMMEDIATE = 0 /\ HIGH = 1 /\ LOW = 2 /\ IDLE = 3
    /\ SubQueues \subseteq Lists /\ IDLE \in Lists /\ IDLE \notin SubQueues /\ SubQueues \subseteq Nat
BY DEF SubQueues, Lists, IMMEDIATE, HIGH, LOW, IDLE

LEMMA MinIs ==
    ASSUME NEW S \in SUBSET Nat, S # {}
    PROVE  Min(S) \in S /\ \A x \in S : Min(S) <= x
<1>1. \E n \in S : \A m \in S : n <= m
    BY Smallest
<1>. QED BY <1>1 DEF Min

LEMMA MaxIs ==
    ASSUME NEW S \in SUBSET SubQueues, S # {}
    PROVE  Max(S) \in S
<1>1. S \subseteq {0, 1, 2}
    BY SubQueueFacts
<1>2. \E x \in S : \A y \in S : x >= y
    <2>1. CASE 2 \in S
        BY <1>1, <2>1
    <2>2. CASE 2 \notin S /\ 1 \in S
        BY <1>1, <2>2
    <2>3. CASE 2 \notin S /\ 1 \notin S
        <3>1. \A x \in S : x = 0
            BY <1>1, <2>3
        <3>. QED BY <3>1
    <2>. QED BY <2>1, <2>2, <2>3
<1>. QED BY <1>2 DEF Max

LEMMA LowIsMax ==
    ASSUME LOW \in Ready
    PROVE  Max(Ready) = LOW
<1>1. Ready \subseteq {0, 1, 2} /\ LOW = 2
    BY SubQueueFacts DEF Ready
<1>2. \A y \in Ready : LOW >= y
    BY <1>1
<1>3. \A x \in Ready : (\A y \in Ready : x >= y) => x = LOW
    BY <1>1
<1>. QED BY <1>2, <1>3 DEF Max

LEMMA PickIs ==
    ASSUME Ready # {}
    PROVE  /\ Pick \in Ready /\ Pick \in SubQueues /\ HeadTime(Pick) <= now
           /\ handled[Pick] < MaxHandled \/ Pick = Max(Ready)
<1>. DEFINE S == {p \in Ready : handled[p] < MaxHandled \/ p = Max(Ready)}
<1>1. Ready \in SUBSET SubQueues
    BY DEF Ready
<1>2. Max(Ready) \in Ready
    BY <1>1, MaxIs
<1>3. S # {} /\ S \in SUBSET Nat
    BY <1>1, <1>2, SubQueueFacts
<1>4. Pick = Min(S)
    BY DEF Pick
<1>5. Pick \in S
    <2>. HIDE DEF S
    <2>. QED BY <1>3, <1>4, MinIs
<1>6. HeadTime(Pick) <= now
    BY <1>5 DEF Ready
<1>. QED BY <1>1, <1>5, <1>6

(* The handle time of a list's head bounds those of the events behind it.  *)
LEMMA HeadTimes ==
    ASSUME QueueInv, NEW p \in SubQueues
    PROVE  /\ HeadTime(p) \in 0..Never /\ HeadTime(p) \in Nat
           /\ \A i \in DOMAIN queue[p] : HeadTime(p) <= queue[p][i].handle
           /\ HeadTime(p) <= now => queue[p] # <<>>
<1>1. queue[p] \in Seq(Event) /\ Sorted(queue[p])
    BY SubQueueFacts DEF QueueInv, ListsOK
<1>2. MaxTime \in Nat /\ now \in 0..MaxTime /\ Never = MaxTime + 1
    BY EventAssumption DEF QueueInv, Scalars, Never
<1>3. CASE queue[p] = <<>>
    <2>1. HeadTime(p) = Never /\ DOMAIN queue[p] = {}
        BY <1>3 DEF HeadTime
    <2>. QED BY <1>2, <2>1
<1>4. CASE queue[p] # <<>>
    <2>1. /\ Head(queue[p]) \in Event /\ 1 \in DOMAIN queue[p] /\ Head(queue[p]) = queue[p][1]
          /\ DOMAIN queue[p] = 1..Len(queue[p]) /\ Len(queue[p]) \in Nat
        BY <1>1, <1>4
    <2>2. HeadTime(p) = queue[p][1].handle /\ queue[p][1] \in Event
        BY <1>4, <2>1 DEF HeadTime
    <2>3. HeadTime(p) \in 0..MaxTime /\ HeadTime(p) \in Nat
        BY <2>2, EventTypes
    <2>4. ASSUME NEW i \in DOMAIN queue[p]
          PROVE  HeadTime(p) <= queue[p][i].handle
        <3>1. CASE i = 1
            BY <2>2, <2>3, <3>1
        <3>2. CASE i # 1
            <4>1. 1 < i
                BY <2>1, <3>2
            <4>. QED BY <1>1, <2>1, <2>2, <4>1 DEF Sorted
        <3>. QED BY <3>1, <3>2
    <2>. QED BY <1>2, <1>4, <2>3, <2>4
<1>. QED BY <1>3, <1>4

LEMMA EarliestIs ==
    ASSUME QueueInv, NEW w, w = Min({HeadTime(p) : p \in SubQueues})
    PROVE  /\ w \in 0..Never
           /\ \A p \in SubQueues : \A i \in DOMAIN queue[p] : w <= queue[p][i].handle
<1>. DEFINE S == {HeadTime(p) : p \in SubQueues}
<1>1. S \in SUBSET Nat /\ S # {} /\ S \in SUBSET (0..Never)
    BY HeadTimes, SubQueueFacts
<1>2. w \in S /\ \A x \in S : w <= x
    <2>1. w = Min(S)
        OBVIOUS
    <2>. HIDE DEF S
    <2>2. S \in SUBSET Nat /\ S # {}
        BY <1>1
    <2>3. Min(S) \in S /\ \A x \in S : Min(S) <= x
        BY ONLY <2>2, MinIs
    <2>. QED BY <2>1, <2>3
<1>3. ASSUME NEW p \in SubQueues, NEW i \in DOMAIN queue[p]
      PROVE  w <= queue[p][i].handle
    <2>1. w <= HeadTime(p)
        BY <1>2
    <2>2. HeadTime(p) <= queue[p][i].handle /\ HeadTime(p) \in Nat /\ w \in Nat
        BY <1>1, <1>2, HeadTimes
    <2>3. queue[p][i].handle \in Nat
        BY SubQueueFacts, EventTypes DEF QueueInv, ListsOK
    <2>. QED BY <2>1, <2>2, <2>3
<1>. QED BY <1>1, <1>2, <1>3

LEMMA TailFewer ==
    ASSUME NEW q \in [Lists -> Seq(Event)], NEW k \in Lists, q[k] # <<>>,
           NEW r, r = [q EXCEPT ![k] = Tail(@)]
    PROVE  Fewer(r, q)
<1>1. Thinned(Tail(q[k]), q[k])
    BY TailThinned
<1>2. DOMAIN r = Lists /\ r = [p \in Lists |-> r[p]] /\ r[k] = Tail(q[k])
      /\ \A p \in Lists : p # k => r[p] = q[p]
    OBVIOUS
<1>3. \A p \in Lists : Thinned(r[p], q[p])
    BY <1>1, <1>2, SameThinned
<1>4. \A p \in Lists : r[p] \in Seq(Event)
    BY <1>3 DEF Thinned
<1>. QED BY <1>2, <1>3, <1>4 DEF Fewer

(* Taking the head of list k to the runner's thread.                       *)
LEMMA TakeKeeps ==
    ASSUME QueueInv, NEW k \in Lists, queue[k] # <<>>, Take(k), Fewer(queue', queue), Scalars',
           now' = now, sent' = sent, held' = held, pc[Runner] # "removeOrphan"
    PROVE  QueueInv'
<1>1. current' = Head(queue[k]) /\ Goto(Runner, "dispatch", None)
    BY DEF Take
<1>2. queue[k] \in Seq(Event)
    BY DEF QueueInv, ListsOK
<1>3. current' \in Event
    BY <1>1, <1>2
<1>4. "dispatch" \in RunnerAt
    BY DEF RunnerAt
<1>. QED BY <1>1, <1>3, <1>4, Threads3, MoveKeeps

(* A pick past a LOW event that is the oldest of all uses up a turn.       *)
LEMMA PickedTurns ==
    ASSUME QueueInv, Ready # {}, handled' = Handled(Pick), overtaken' = Overtaken(Pick)
    PROVE  handled' \in [SubQueues -> 0..MaxHandled] /\ TurnsUsed(handled', overtaken')
<1>1. /\ handled \in [SubQueues -> 0..MaxHandled] /\ MaxHandled \in Nat
      /\ TurnsUsed(handled, overtaken) /\ now \in Nat
    BY EventAssumption DEF QueueInv, Scalars
<1>2. PICK k \in SubQueues :
        /\ k = Pick /\ k \in Ready /\ HeadTime(k) <= now
        /\ handled[k] < MaxHandled \/ k = Max(Ready)
    BY PickIs
<1>3. PICK m : m = Max(Ready)
    OBVIOUS
<1>4. handled' = [p \in SubQueues |->
                     IF p < k THEN 0 ELSE IF p = k /\ p # m THEN handled[p] + 1 ELSE handled[p]]
    BY <1>2, <1>3 DEF Handled
<1>5. handled[k] < MaxHandled \/ k = m
    BY <1>2, <1>3
<1>6. handled' \in [SubQueues -> 0..MaxHandled]
    BY <1>1, <1>4, <1>5
<1>7. k \in Priorities
    <2>1. queue[k] # <<>> /\ queue[k] \in Seq(Event)
        BY <1>2, HeadTimes, SubQueueFacts DEF QueueInv, ListsOK
    <2>2. 1 \in DOMAIN queue[k] /\ queue[k][1] \in Event
        BY <2>1
    <2>3. queue[k][1].priority = k
        BY <2>2, SubQueueFacts DEF QueueInv, ListsOK
    <2>. QED BY <2>2, <2>3, EventTypes
<1>8. \A p \in SubQueues : p \notin Priorities => handled'[p] = 0
    BY <1>1, <1>4, <1>7 DEF TurnsUsed
<1>9. overtaken' \in Nat /\ overtaken' <= handled'[IMMEDIATE] + Turns(IMMEDIATE) * handled'[HIGH]
    <2>. DEFINE T == Turns(IMMEDIATE)
                h0 == handled[0]
                h1 == handled[1]
    <2>1. T \in Nat /\ h0 \in Nat /\ h1 \in Nat /\ h0 + 1 <= T
        BY <1>1, SubQueueFacts DEF Turns, TurnsUsed
    <2>2. overtaken \in Nat /\ overtaken <= h0 + T * h1
        BY <1>1, SubQueueFacts DEF TurnsUsed
    <2>3. handled'[0] \in Nat /\ handled'[1] \in Nat
        BY <1>1, <1>6, SubQueueFacts
    <2>4. CASE k # LOW /\ \A p \in {IMMEDIATE, HIGH} : HeadTime(LOW) < HeadTime(p)
        <3>1. overtaken' = overtaken + 1 /\ k \in {0, 1}
            BY <1>2, <2>4, SubQueueFacts DEF Overtaken
        <3>2. LOW \in Ready
            <4>1. HeadTime(LOW) < HeadTime(k) /\ HeadTime(LOW) \in Nat /\ HeadTime(k) \in Nat
                BY <2>4, <3>1, SubQueueFacts, HeadTimes
            <4>2. HeadTime(LOW) <= now
                BY <1>1, <1>2, <4>1
            <4>3. \A i \in 0..LOW - 1 : i \in {IMMEDIATE, HIGH}
                BY SubQueueFacts
            <4>. QED BY <2>4, <4>2, <4>3, SubQueueFacts DEF Ready
        <3>3. k # m
            BY <1>3, <2>4, <3>2, LowIsMax
        <3>4. CASE k = 0
            <4>1. handled'[0] = h0 + 1 /\ handled'[1] = h1
                BY <1>4, <3>3, <3>4, SubQueueFacts
            <4>. QED BY <2>1, <2>2, <3>1, <4>1, SubQueueFacts
        <3>5. CASE k = 1
            <4>1. handled'[0] = 0 /\ handled'[1] = h1 + 1
                BY <1>4, <3>3, <3>5, SubQueueFacts
            <4>2. T * (h1 + 1) = T * h1 + T
                BY <2>1
            <4>. QED BY <2>1, <2>2, <3>1, <4>1, <4>2, SubQueueFacts
        <3>. QED BY <3>1, <3>4, <3>5
    <2>5. CASE ~(k # LOW /\ \A p \in {IMMEDIATE, HIGH} : HeadTime(LOW) < HeadTime(p))
        <3>1. overtaken' = 0
            BY <1>2, <2>5 DEF Overtaken
        <3>2. T * handled'[1] \in Nat
            BY <2>1, <2>3
        <3>. QED BY <2>3, <3>1, <3>2, SubQueueFacts
    <2>. QED BY <2>4, <2>5
<1>. QED BY <1>6, <1>8, <1>9 DEF TurnsUsed

LEMMA GetEventKeeps ==
    ASSUME QueueInv, GetEvent
    PROVE  QueueInv'
<1>1. /\ pc[Runner] \in {"get", "waiting"} /\ pred' = FALSE /\ finished' = finished
      /\ now' = now /\ sent' = sent /\ held' = held /\ runnerRefs' = runnerRefs
    BY DEF GetEvent, refVars
<1>2. now \in Nat /\ now \in 0..now /\ Scalars /\ queue \in [Lists -> Seq(Event)]
      /\ now <= now' /\ sent <= sent'
    BY <1>1, EventAssumption DEF QueueInv, Scalars, ListsOK
<1>3. CASE /\ finished /\ Goto(Runner, "ended", None)
           /\ UNCHANGED <<listVars, wakeUpTime, isIdle, idleTimeStamp, current>>
    <2>1. Scalars' /\ current' \in Event \cup {None} /\ queue' = queue
        BY <1>1, <1>3 DEF QueueInv, Scalars, Standing, listVars
    <2>2. "ended" \in RunnerAt
        BY DEF RunnerAt
    <2>. QED BY <1>1, <1>3, <2>1, <2>2, Threads3, ListsStay, MoveKeeps
<1>4. CASE /\ ~finished /\ Ready # {}
           /\ Take(Pick)
           /\ queue' = [queue EXCEPT ![Pick] = Tail(@)]
           /\ handled' = Handled(Pick) /\ overtaken' = Overtaken(Pick)
           /\ wakeUpTime' = Min({HeadTime(p) : p \in SubQueues})
           /\ isIdle' = FALSE /\ UNCHANGED idleTimeStamp
    <2>1. /\ Pick \in SubQueues /\ HeadTime(Pick) <= now
          /\ handled[Pick] < MaxHandled \/ Pick = Max(Ready)
        BY <1>4, PickIs
    <2>2. queue[Pick] # <<>> /\ Pick \in Lists
        BY <2>1, HeadTimes, SubQueueFacts
    <2>3. Fewer(queue', queue)
        <3>1. PICK k \in SubQueues : k = Pick
            BY <2>1
        <3>2. queue' = [queue EXCEPT ![k] = Tail(@)] /\ queue[k] # <<>> /\ k \in Lists
            BY <1>4, <2>2, <3>1
        <3>. QED BY <1>2, <3>2, TailFewer
    <2>4. handled' \in [SubQueues -> 0..MaxHandled] /\ TurnsUsed(handled', overtaken')
        BY <1>4, PickedTurns
    <2>5. wakeUpTime' \in 0..Never
        BY <1>4, EarliestIs
    <2>6. Scalars'
        BY <1>1, <1>2, <1>4, <2>4, <2>5 DEF Scalars
    <2>. QED BY <1>1, <1>4, <2>2, <2>3, <2>6, TakeKeeps
<1>5. CASE /\ ~finished /\ Ready = {}
           /\ wakeUpTime' = Min({HeadTime(p) : p \in SubQueues})
           /\ isIdle' = TRUE
           /\ idleTimeStamp' = IF isIdle THEN idleTimeStamp ELSE now
           /\ UNCHANGED <<handled, overtaken>>
           /\ IF IdleReady(idleTimeStamp')
              THEN Take(IDLE) /\ queue' = [queue EXCEPT ![IDLE] = Tail(@)]
              ELSE Goto(Runner, "waiting", None) /\ UNCHANGED <<queue, current>>
    <2>1. /\ wakeUpTime' \in 0..Never
          /\ \A p \in SubQueues : \A i \in DOMAIN queue[p] : wakeUpTime' <= queue[p][i].handle
        BY <1>5, EarliestIs
    <2>2. idleTimeStamp' \in 0..now
        BY <1>2, <1>5 DEF Scalars
    <2>3. Scalars'
        BY <1>1, <1>2, <1>5, <2>1, <2>2 DEF Scalars
    <2>4. CASE IdleReady(idleTimeStamp')
        <3>1. Take(IDLE) /\ queue' = [queue EXCEPT ![IDLE] = Tail(queue[IDLE])]
            BY <1>5, <2>4
        <3>2. queue[IDLE] # <<>> /\ IDLE \in Lists
            BY <2>4, SubQueueFacts DEF IdleReady
        <3>3. Fewer(queue', queue)
            BY <1>2, <3>1, <3>2, TailFewer
        <3>. QED BY <1>1, <2>3, <3>1, <3>2, <3>3, TakeKeeps
    <2>5. CASE ~IdleReady(idleTimeStamp')
        <3>1. Goto(Runner, "waiting", None) /\ queue' = queue /\ current' = current
            BY <1>5, <2>5
        <3>2. "waiting" \in RunnerAt /\ "waiting" \in Pcs /\ Standing
              /\ pc \in [Threads -> Pcs] /\ DOMAIN arg = Threads
            BY DEF RunnerAt, Pcs, QueueInv, Standing
        <3>3. /\ pc'[Runner] = "waiting"
              /\ \A u \in Threads : u # Runner => pc'[u] = pc[u] /\ arg'[u] = arg[u]
            BY <3>1, <3>2, Threads3, Went
        <3>4. Standing'
            <4>1. current' \in Event \cup {None}
                BY <3>1, <3>2 DEF Standing
            <4>2. pc'[Runner] \notin {"dispatch", "running", "insert"} /\ pc'[Runner] \notin {"running", "insert"}
                BY <3>3
            <4>. QED BY <3>1, <3>2, <4>1, <4>2, Threads3, StandingKept
        <3>5. ListsOK(queue', now', sent')
            BY <1>1, <3>1 DEF QueueInv
        <3>6. Posting'
            BY <1>1, <3>1, <3>3, Threads3 DEF QueueInv, Posting
        <3>7. WakesInTime'
            BY <1>1, <1>5, <2>1, <3>1 DEF WakesInTime
        <3>8. NoOrphanLeft'
            <4>1. \A u \in Threads : pc[u] = "removeOrphan" => pc'[u] = "removeOrphan" /\ arg'[u] = arg[u]
                BY <1>1, <3>3
            <4>. QED BY <1>1, <3>1, <4>1 DEF QueueInv, NoOrphanLeft
        <3>. QED BY <2>3, <3>4, <3>5, <3>6, <3>7, <3>8 DEF QueueInv
    <2>. QED BY <2>4, <2>5
<1>. QED BY <1>3, <1>4, <1>5 DEF GetEvent

-----------------------------------------------------------------------------
LEMMA InitQueueInv ==
    ASSUME Init
    PROVE  QueueInv
<1>1. /\ pc = [t \in Threads |-> IF t = Runner THEN "start" ELSE "idle"]
      /\ arg = [t \in Threads |-> None] /\ current = None
      /\ held = [h \in Handlers |-> Senders] /\ runnerRefs = Handlers \cup {Creator}
      /\ now = 0 /\ sent = 0 /\ handled = [p \in SubQueues |-> 0] /\ overtaken = 0
      /\ wakeUpTime = Never /\ isIdle = TRUE /\ idleTimeStamp = 0
      /\ finished = TRUE /\ pred = FALSE
    BY DEF Init
<1>2. /\ DOMAIN queue = Lists /\ queue \in [Lists -> Seq(Event)]
      /\ \A p \in Lists : queue[p] = <<>> /\ DOMAIN queue[p] = {}
    BY DEF Init, Lists
<1>3. ListsOK(queue, now, sent)
    BY <1>2 DEF ListsOK, Sorted, Fifo
<1>4. TurnsUsed(handled, overtaken)
    <2>1. handled[0] = 0 /\ handled[1] = 0 /\ Turns(IMMEDIATE) \in Nat
        BY <1>1, SubQueueFacts, EventAssumption DEF Turns
    <2>2. Turns(IMMEDIATE) * handled[1] = 0
        BY <2>1
    <2>. QED BY <1>1, <2>1, <2>2, SubQueueFacts DEF TurnsUsed
<1>5. Scalars
    <2>1. MaxTime \in Nat /\ MaxSent \in Nat /\ MaxHandled \in Nat /\ Never \in 0..Never
        BY EventAssumption DEF Never
    <2>2. handled \in [SubQueues -> 0..MaxHandled] /\ now \in 0..MaxTime /\ sent \in 0..MaxSent
          /\ wakeUpTime \in 0..Never /\ idleTimeStamp \in 0..now
        BY <1>1, <2>1
    <2>3. held \in [Handlers -> SUBSET (Senders \cup {Runner})]
        BY <1>1
    <2>. QED BY <1>1, <1>4, <2>2, <2>3 DEF Scalars
<1>6. /\ pc[Runner] = "start" /\ \A t \in Threads : t # Runner => pc[t] = "idle"
      /\ \A t \in Threads : pc[t] \in {"start", "idle"}
    BY <1>1, Threads3
<1>7. Standing
    BY <1>1, <1>6, Threads3 DEF Standing, Pcs, RunnerAt, SenderAt
<1>8. Posting /\ WakesInTime
    BY <1>6 DEF Posting, WakesInTime
<1>9. NoOrphanLeft
    BY <1>2 DEF NoOrphanLeft
<1>. QED BY <1>3, <1>5, <1>7, <1>8, <1>9 DEF QueueInv

LEMMA NextKeepsQueueInv ==
    ASSUME QueueInv, [Next]_vars
    PROVE  QueueInv'
<1>1. CASE UNCHANGED vars
    BY <1>1, StutterKeeps
<1>2. CASE Tick
    BY <1>2, TickKeeps
<1>3. CASE DropRunner
    BY <1>3, DropRunnerKeeps
<1>4. CASE Prepare
    BY <1>4, PrepareKeeps
<1>5. CASE CheckOwner
    BY <1>5, CheckOwnerKeeps
<1>6. CASE GetEvent
    BY <1>6, GetEventKeeps
<1>7. CASE Dispatch
    BY <1>7, DispatchKeeps
<1>8. CASE Distributed
    BY <1>8, DistributedKeeps
<1>9. ASSUME NEW t \in Threads, Insert(t)
      PROVE  QueueInv'
    BY <1>9, InsertKeeps
<1>10. ASSUME NEW t \in Threads, SyncReturn(t)
       PROVE  QueueInv'
    BY <1>10, SyncReturnKeeps
<1>11. ASSUME NEW t \in Threads, RemoveOrphan(t)
       PROVE  QueueInv'
    BY <1>11, RemoveOrphanKeeps
<1>12. ASSUME NEW t \in Threads, Finish(t)
       PROVE  QueueInv'
    BY <1>12, FinishKeeps
<1>13. ASSUME NEW t \in Threads, NEW h \in Handlers, RemoveAllEvents(t, h) \/ RemoveEvent(t, h)
       PROVE  QueueInv'
    BY <1>13, RemoveKeeps
<1>14. ASSUME NEW t \in Threads, NEW h \in Handlers, DropHandler(t, h)
       PROVE  QueueInv'
    BY <1>14, DropHandlerKeeps
<1>15. ASSUME NEW t \in Threads, NEW h \in Handlers, NEW p \in Priorities, SendSyncEvent(t, h, p)
       PROVE  QueueInv'
    BY <1>15, SendSyncEventKeeps
<1>16. ASSUME NEW t \in Threads, NEW h \in Handlers, NEW p \in Priorities, NEW d \in Delays,
              SendEvent(t, h, p, d)
       PROVE  QueueInv'
    BY <1>16, SendEventKeeps
<1>. QED BY <1>1, <1>2, <1>3, <1>4, <1>5, <1>6, <1>7, <1>8, <1>9, <1>10, <1>11,
            <1>12, <1>13, <1>14, <1>15, <1>16 DEF Next

LEMMA QueueInvTyped ==
    ASSUME QueueInv
    PROVE  TypeOK
<1>1. /\ queue \in [SubQueues \cup {IDLE} -> Seq(Event)]
      /\ \A p \in DOMAIN queue : \A i \in DOMAIN queue[p] :
            /\ queue[p][i].priority = p /\ queue[p][i].send <= now
            /\ \A j \in 1..i - 1 : queue[p][j].handle <= queue[p][i].handle
    BY ListsTyped DEF QueueInv
<1>. QED BY <1>1 DEF QueueInv, Scalars, TurnsUsed, Standing, TypeOK

LEMMA QueueInvSleeps ==
    ASSUME QueueInv
    PROVE  NeverOversleeps
<1>. SUFFICES ASSUME pc[Runner] = "waiting", ~pred
              PROVE  ~finished /\ \A p \in SubQueues : wakeUpTime <= HeadTime(p)
    BY DEF NeverOversleeps
<1>1. /\ ~finished
      /\ \A p \in SubQueues : \A i \in DOMAIN queue[p] : wakeUpTime <= queue[p][i].handle
    BY DEF QueueInv, WakesInTime
<1>2. ASSUME NEW p \in SubQueues
      PROVE  wakeUpTime <= HeadTime(p)
    <2>1. queue[p] \in Seq(Event)
        BY SubQueueFacts DEF QueueInv, ListsOK
    <2>2. CASE queue[p] = <<>>
        <3>1. HeadTime(p) = Never /\ wakeUpTime \in 0..Never
            BY <2>2 DEF HeadTime, QueueInv, Scalars
        <3>. QED BY <3>1
    <2>3. CASE queue[p] # <<>>
        <3>1. HeadTime(p) = queue[p][1].handle /\ 1 \in DOMAIN queue[p]
            BY <2>1, <2>3 DEF HeadTime
        <3>. QED BY <1>1, <3>1
    <2>. QED BY <2>2, <2>3
<1>. QED BY <1>1, <1>2

LEMMA QueueInvServes ==
    ASSUME QueueInv
    PROVE  LowIsServed
<1>. DEFINE T0 == Turns(IMMEDIATE)
            T1 == Turns(HIGH)
            h0 == handled[0]
            h1 == handled[1]
<1>1. /\ handled \in [SubQueues -> 0..MaxHandled] /\ MaxHandled \in Nat /\ TurnsUsed(handled, overtaken)
    BY EventAssumption DEF QueueInv, Scalars
<1>2. T0 \in Nat /\ h0 \in Nat /\ h0 + 1 <= T0
    BY <1>1, SubQueueFacts DEF Turns, TurnsUsed
<1>3. T1 \in Nat /\ h1 \in Nat /\ h1 + 1 <= T1
    BY <1>1, SubQueueFacts DEF Turns, TurnsUsed
<1>4. overtaken \in Nat /\ overtaken <= h0 + T0 * h1
    BY <1>1, SubQueueFacts DEF TurnsUsed
<1>. HIDE DEF T0, T1, h0, h1
<1>5. PICK d \in Nat : T1 = (h1 + 1) + d
    <2>1. T1 - (h1 + 1) \in Nat /\ T1 = (h1 + 1) + (T1 - (h1 + 1))
        BY <1>3
    <2>. QED BY <2>1
<1>6. T0 * T1 = T0 * h1 + T0 + T0 * d /\ T0 * d \in Nat /\ T0 * h1 \in Nat
    BY <1>2, <1>3, <1>5
<1>7. overtaken < T0 * T1
    BY <1>2, <1>4, <1>6
<1>. QED BY <1>7 DEF LowIsServed, T0, T1

LEMMA QueueInvHolds == Spec => []QueueInv
<1>1. Init => QueueInv
    BY InitQueueInv
<1>2. QueueInv /\ [Next]_vars => QueueInv'
    BY NextKeepsQueueInv
<1>. QED BY <1>1, <1>2, PTL DEF Spec

(* The types of the event queue's state, whatever its users post, remove   *)
(* and let go: every list keeps its events sorted by handle time, and the  *)
(* runner's thread holds the handler it runs.                              *)
THEOREM TypeCorrect == Spec => []TypeOK
<1>1. QueueInv => TypeOK
    BY QueueInvTyped
<1>. QED BY <1>1, QueueInvHolds, PTL

(* GetEvent never sleeps past an event: Insert and Finish wake the thread  *)
(* whenever its wakeUpTime_ is too late, and removals never make it so.    *)
THEOREM SleepsInTime == Spec => []NeverOversleeps
<1>1. QueueInv => NeverOversleeps
    BY QueueInvSleeps
<1>. QED BY <1>1, QueueInvHolds, PTL

(* InsertEventsLocked keeps the order in which a thread posts tasks of one *)
(* priority and one delay.                                                 *)
THEOREM OrderKept == Spec => []PostedInOrder
<1>1. QueueInv => PostedInOrder
    BY ListsTyped DEF QueueInv
<1>. QED BY <1>1, QueueInvHolds, PTL

(* PickEventLocked's handledEventsCount bounds how long LOW events wait.   *)
THEOREM LowServed == Spec => []LowIsServed
<1>1. QueueInv => LowIsServed
    BY QueueInvServes
<1>. QED BY <1>1, QueueInvHolds, PTL

(* ~EventHandler's RemoveOrphan leaves no event of a handler that is gone. *)
THEOREM OrphansLeave == Spec => []NoOrphanLeft
<1>1. QueueInv => NoOrphanLeft
    BY DEF QueueInv
<1>. QED BY <1>1, QueueInvHolds, PTL
=============================================================================
