-------------------------- MODULE TrackerHeapProofs --------------------------
(***************************************************************************)
(* Proofs about TrackerHeap, for every number of addresses and tables,     *)
(* every TTL and batch size, and a heap of any size.                       *)
(***************************************************************************)
EXTENDS TrackerHeap, FiniteSetTheorems, SequenceTheorems, WellFoundedInduction, TLAPS

(***************************************************************************)
(* The inductive invariant                                                 *)
(***************************************************************************)
\* The method at work has put this entry last, to be cut off.
Removing == op # "AddOrRenew" /\ pc \in {"down", "up", "cut"}

Victim == IF Removing THEN {pq[Len(pq)]} ELSE {}

\* Which loop belongs to which method, and where a sift can be.
Places ==
    /\ pc = "idle" <=> op = "none"
    /\ op = "AddOrRenew" => pc \in {"down", "up"}
    /\ pc \in {"down", "up"} =>
         /\ from \in 1..Len(pq) /\ at \in 1..Len(pq)
         /\ at > 1 => at <= Sifted
    /\ pc = "cut" => Len(pq) > 0

\* The back pointers name the positions, also while the heap is out of order.
Pointers ==
    /\ \A k \in 1..Len(pq) : index[pq[k]] = k
    /\ \A a \in Entries : index[a] # NoIndex => index[a] \in 1..Len(pq) /\ pq[index[a]] = a

InHeap == {a \in Entries : index[a] # NoIndex}

\* The heap holds what the maps hold but for what the method at work has taken out.
Contents ==
    /\ InHeap = Present \ gone
    /\ \A t \in Tables : \A a \in tables[t] : TableOf[a] = t

times == [k \in 1..Len(pq) |-> Time(k)]

\* No position up to n is earlier than its parent, but for those of S.
OrderedBut(x, n, S) == \A m \in 2..n : m \notin S => x[m \div 2] <= x[m]

Children(i) == {2 * i, 2 * i + 1}

\* The children of position i are no earlier than its parent.
Grandparent(x, n, i) == i > 1 => \A m \in Children(i) : m <= n => x[i \div 2] <= x[m]

Ordered ==
    /\ pc \in {"idle", "loop"} => OrderedBut(times, Len(pq), {})
    /\ pc = "cut" => OrderedBut(times, Len(pq) - 1, {})
    /\ pc = "down" =>
         /\ OrderedBut(times, Sifted, Children(at) \cup IF at = from THEN {at} ELSE {})
         /\ Grandparent(times, Sifted, at)
    /\ pc = "up" => OrderedBut(times, Sifted, {at}) /\ Grandparent(times, Sifted, at)

\* What Delete and Flush have promised to remove.
Removals ==
    op \in Removes =>
        /\ gone \subseteq Present /\ todo \subseteq Present \ gone
        /\ Victim \cap todo = {}
        /\ op = "Delete" => \E a \in Entries : todo \cup gone \cup Victim = {a}
        /\ op = "Flush" => \E t \in Tables : todo \cup gone \cup Victim = tables[t]

\* What PopExpired takes has expired and is the oldest.
Collects ==
    op = "PopExpired" =>
        /\ now <= clock
        /\ \A a \in gone : a \notin Present /\ expireAt[a] = 0
        /\ IsFiniteSet(gone) /\ Cardinality(gone) <= MaxBatch
        /\ pc # "loop" =>
             /\ Cardinality(gone) < MaxBatch
             /\ Time(Len(pq)) <= now
             /\ \A k \in 1..Len(pq) : Time(Len(pq)) <= Time(k)

Quiet ==
    /\ op \notin Removes => todo = {}
    /\ op \in {"none", "AddOrRenew"} => gone = {}

HeapInv ==
    /\ HeapTypeOK /\ Places /\ Pointers /\ Contents /\ Ordered /\ Removals /\ Collects /\ Quiet
    /\ MetricsConserved

-----------------------------------------------------------------------------
(***************************************************************************)
(* Arithmetic and order                                                    *)
(***************************************************************************)
LessThan == {mn \in Nat \X Nat : mn[1] < mn[2]}

\* A set of numbers that is not empty has a least element.
LEMMA LeastNumber ==
    ASSUME NEW S \in SUBSET Nat, S # {}
    PROVE  \E m \in S : \A k \in S : m <= k
<1>1. IsWellFoundedOn(LessThan, Nat)
  BY NatLessThanWellFounded DEF OpToRel, LessThan
<1>2. PICK m \in S : \A k \in S : <<k, m>> \notin LessThan
  BY <1>1, WFMin
<1>3. ASSUME NEW k \in S, ~(m <= k) PROVE FALSE
  <2>1. <<k, m>> \in Nat \X Nat /\ k < m
    BY <1>3
  <2>2. QED
    BY <1>2, <2>1 DEF LessThan
<1>4. QED
  BY <1>3

\* The parent of a position.
LEMMA Parents ==
    \A m \in Nat : m >= 2 => /\ m \div 2 \in Nat /\ m \div 2 >= 1 /\ m \div 2 < m
                             /\ \A i \in Nat : m \div 2 = i <=> m = 2 * i \/ m = 2 * i + 1
OBVIOUS

\* In an ordered heap nothing is earlier than the top.
LEMMA TopFirst ==
    ASSUME NEW n \in Nat, NEW x, \A k \in 1..n : x[k] \in Nat, OrderedBut(x, n, {})
    PROVE  \A k \in 1..n : x[1] <= x[k]
<1> DEFINE Early == {k \in 1..n : x[k] < x[1]}
<1> SUFFICES ASSUME Early # {} PROVE FALSE
  OBVIOUS
<1>1. PICK m \in Early : \A k \in Early : m <= k
  <2>1. Early \in SUBSET Nat
    OBVIOUS
  <2> HIDE DEF Early
  <2>2. QED
    BY <2>1, LeastNumber
<1>2. m \in 2..n
  OBVIOUS
<1>3. m \div 2 \in 1..n /\ m \div 2 < m
  BY <1>2, Parents
<1>4. x[m \div 2] <= x[m]
  BY <1>2 DEF OrderedBut
<1>5. m \div 2 \in Early
  BY <1>3, <1>4
<1>6. QED
  BY <1>1, <1>3, <1>5

\* The children of a position are the positions whose half it is.
LEMMA Positions ==
    ASSUME NEW i \in Nat, i >= 1, NEW m \in Nat, m >= 2
    PROVE  m \in Children(i) <=> m \div 2 = i
BY Parents DEF Children

\* down: the entry at i is swapped with its earlier child j.
LEMMA Sinking ==
    ASSUME NEW n \in Nat, NEW x, NEW y, NEW i \in 1..n, NEW j \in 1..n,
           \A k \in 1..n : x[k] \in Nat,
           y[i] = x[j], y[j] = x[i], \A k \in 1..n : k # i /\ k # j => y[k] = x[k],
           j \in Children(i), x[j] < x[i],
           \A m \in Children(i) : m <= n => x[j] <= x[m],
           OrderedBut(x, n, Children(i) \cup {i}), Grandparent(x, n, i)
    PROVE  OrderedBut(y, n, Children(j)) /\ Grandparent(y, n, j)
<1>1. j > i /\ j \div 2 = i
  BY Positions DEF Children
<1>2. ASSUME NEW m \in 2..n, m \notin Children(j) PROVE y[m \div 2] <= y[m]
  <2>1. /\ m \div 2 \in 1..n /\ m \div 2 < m /\ m \div 2 # j
        /\ m \in Children(i) <=> m \div 2 = i
    BY <1>2, Parents, Positions
  <2>2. CASE m = i
    BY <1>1, <2>1, <2>2 DEF Grandparent
  <2>3. CASE m = j
    BY <1>1, <2>3
  <2>4. CASE m # i /\ m # j /\ m \div 2 = i
    BY <2>1, <2>4
  <2>5. CASE m # i /\ m # j /\ m \div 2 # i
    BY <2>1, <2>5 DEF OrderedBut
  <2>6. QED
    BY <2>2, <2>3, <2>4, <2>5
<1>3. ASSUME NEW m \in Children(j), m <= n PROVE y[j \div 2] <= y[m]
  <2>1. m \in 2..n /\ m \div 2 = j /\ m > j
    BY <1>3, Positions DEF Children
  <2>2. m \notin Children(i) \cup {i}
    BY <1>1, <2>1, Positions
  <2>3. x[j] <= x[m]
    BY <2>1, <2>2 DEF OrderedBut
  <2>4. QED
    BY <1>1, <2>1, <2>3
<1>4. QED
  BY <1>2, <1>3 DEF OrderedBut, Grandparent

\* up: the entry at i is swapped with its parent p.
LEMMA Rising ==
    ASSUME NEW n \in Nat, NEW x, NEW y, NEW i \in 1..n, NEW p \in 1..n, i \in Children(p),
           \A k \in 1..n : x[k] \in Nat,
           y[i] = x[p], y[p] = x[i], \A k \in 1..n : k # i /\ k # p => y[k] = x[k],
           x[i] < x[p], OrderedBut(x, n, {i}), Grandparent(x, n, i)
    PROVE  OrderedBut(y, n, {p}) /\ Grandparent(y, n, p)
<1>0. i > 1 /\ p = i \div 2 /\ p < i
  BY Positions, Parents DEF Children
<1>1. p < i /\ \A m \in Children(i) : m <= n => x[p] <= x[m]
  BY <1>0 DEF Grandparent
<1>2. ASSUME NEW m \in 2..n, m # p PROVE y[m \div 2] <= y[m]
  <2>1. /\ m \div 2 \in 1..n /\ m \div 2 < m
        /\ m \in Children(i) <=> m \div 2 = i
    BY <1>0, Parents, Positions
  <2>2. CASE m = i
    BY <1>0, <2>2
  <2>3. CASE m # i /\ m \div 2 = i
    BY <1>1, <1>2, <2>1, <2>3
  <2>4. CASE m # i /\ m \div 2 = p
    BY <1>1, <1>2, <2>1, <2>4 DEF OrderedBut
  <2>5. CASE m # i /\ m \div 2 # i /\ m \div 2 # p
    BY <1>2, <2>1, <2>5 DEF OrderedBut
  <2>6. QED
    BY <2>2, <2>3, <2>4, <2>5
<1>3. ASSUME p > 1, NEW m \in Children(p), m <= n PROVE y[p \div 2] <= y[m]
  <2>1. m \in 2..n /\ m \div 2 = p /\ m # p /\ p \div 2 \in 1..n /\ p \div 2 < p
    BY <1>3, Positions, Parents DEF Children
  <2>2. x[p \div 2] <= x[p] /\ (m # i => x[p] <= x[m])
    BY <1>1, <1>3, <2>1 DEF OrderedBut
  <2>3. QED
    BY <1>1, <2>1, <2>2
<1>4. QED
  BY <1>2, <1>3 DEF OrderedBut, Grandparent

-----------------------------------------------------------------------------
(***************************************************************************)
(* What the steps on the heap do                                           *)
(***************************************************************************)
LEMMA Swaps ==
    ASSUME HeapTypeOK, NEW i \in 1..Len(pq), NEW j \in 1..Len(pq), Swap(i, j)
    PROVE  /\ pq' \in Seq(Entries) /\ Len(pq') = Len(pq)
           /\ pq'[i] = pq[j] /\ pq'[j] = pq[i]
           /\ \A k \in 1..Len(pq) : k # i /\ k # j => pq'[k] = pq[k]
           /\ \A k \in 1..Len(pq) : pq[k] \in Entries
<1>1. pq \in Seq(Entries) /\ pq' = [pq EXCEPT ![i] = pq[j], ![j] = pq[i]]
  BY DEF HeapTypeOK, Swap
<1>2. pq[i] \in Entries /\ pq[j] \in Entries /\ \A k \in 1..Len(pq) : pq[k] \in Entries
  BY <1>1
<1>3. pq' \in Seq(Entries) /\ Len(pq') = Len(pq)
  BY <1>1, <1>2
<1>4. /\ pq'[i] = pq[j] /\ pq'[j] = pq[i]
      /\ \A k \in 1..Len(pq) : k # i /\ k # j => pq'[k] = pq[k]
  BY <1>1
<1>5. QED
  BY <1>2, <1>3, <1>4

\* A swap keeps the back pointers right, and the heap the same entries.
LEMMA SwapPointers ==
    ASSUME HeapTypeOK, Pointers, NEW i \in 1..Len(pq), NEW j \in 1..Len(pq), Swap(i, j)
    PROVE  /\ Pointers' /\ InHeap' = InHeap
           /\ index' \in [Entries -> Nat \cup {NoIndex}]
<1>1. /\ Len(pq) \in Nat /\ index \in [Entries -> Nat \cup {NoIndex}]
      /\ index' = [index EXCEPT ![pq[j]] = i, ![pq[i]] = j]
  BY DEF HeapTypeOK, Swap
<1>2. index' \in [Entries -> Nat \cup {NoIndex}]
  BY <1>1, Swaps
<1>3. /\ index'[pq[i]] = j
      /\ pq[i] # pq[j] => index'[pq[j]] = i
      /\ \A a \in Entries : a # pq[i] /\ a # pq[j] => index'[a] = index[a]
  BY <1>1, Swaps
<1>4. \A k, l \in 1..Len(pq) : pq[k] = pq[l] => k = l
  BY DEF Pointers
<1>5. \A k \in 1..Len(pq') : index'[pq'[k]] = k
  BY <1>3, <1>4, Swaps DEF Pointers
<1>6. \A a \in Entries :
        index'[a] # NoIndex => index'[a] \in 1..Len(pq') /\ pq'[index'[a]] = a
  BY <1>3, <1>4, Swaps DEF Pointers
<1>7. InHeap' = InHeap
  BY <1>1, <1>3, Swaps DEF Pointers, InHeap, NoIndex
<1>8. QED
  BY <1>2, <1>5, <1>6, <1>7 DEF Pointers

\* The beginning of a sequence.
LEMMA PrefixFacts ==
    ASSUME NEW T, NEW s \in Seq(T), NEW n \in 0..Len(s)
    PROVE  /\ SubSeq(s, 1, n) \in Seq(T) /\ Len(SubSeq(s, 1, n)) = n
           /\ \A k \in 1..n : SubSeq(s, 1, n)[k] = s[k]
<1>1. n \in Nat /\ (\A k \in 1..n : s[k] \in T) /\ n - 1 + 1 = n
  OBVIOUS
<1>2. /\ SubSeq(s, 1, n) \in Seq(T)
      /\ Len(SubSeq(s, 1, n)) = IF 1 <= n THEN n - 1 + 1 ELSE 0
      /\ \A k \in 1..(n - 1 + 1) : SubSeq(s, 1, n)[k] = s[1 + k - 1]
  BY <1>1, SubSeqProperties
<1>3. ASSUME NEW k \in 1..n PROVE SubSeq(s, 1, n)[k] = s[k]
  <2>1. SubSeq(s, 1, n)[k] = s[1 + k - 1] /\ 1 + k - 1 = k
    BY <1>1, <1>2
  <2>2. QED
    BY <2>1
<1>4. QED
  BY <1>1, <1>2, <1>3

\* A sequence without its last position.
LEMMA FrontFacts ==
    ASSUME NEW T, NEW s \in Seq(T), Len(s) > 0
    PROVE  /\ Front(s) \in Seq(T) /\ Len(Front(s)) = Len(s) - 1
           /\ \A k \in 1..(Len(s) - 1) : Front(s)[k] = s[k]
<1>1. Len(s) \in Nat /\ Len(s) - 1 \in 0..Len(s)
  OBVIOUS
<1>2. QED
  BY <1>1, PrefixFacts DEF Front

\* A cut takes exactly the last entry out of the heap.
LEMMA CutFacts ==
    ASSUME HeapTypeOK, Pointers, pc = "cut" => Len(pq) > 0, Cut
    PROVE  /\ Len(pq) > 0 /\ pq[Len(pq)] \in Entries /\ Last(pq) = pq[Len(pq)]
           /\ pq' \in Seq(Entries) /\ Len(pq') = Len(pq) - 1
           /\ \A k \in 1..Len(pq') : pq'[k] = pq[k]
           /\ index' \in [Entries -> Nat \cup {NoIndex}]
           /\ Pointers' /\ InHeap' = InHeap \ {pq[Len(pq)]}
<1>1. /\ Len(pq) \in Nat /\ Len(pq) > 0 /\ pq \in Seq(Entries)
      /\ index \in [Entries -> Nat \cup {NoIndex}]
  BY DEF HeapTypeOK, Cut
<1>2. Last(pq) = pq[Len(pq)] /\ pq[Len(pq)] \in Entries
  BY <1>1 DEF Last
<1>3. /\ pq' \in Seq(Entries) /\ Len(pq') = Len(pq) - 1
      /\ \A k \in 1..Len(pq') : pq'[k] = pq[k]
  BY <1>1, FrontFacts DEF Cut
<1>4. index' = [index EXCEPT ![pq[Len(pq)]] = NoIndex]
  BY <1>2 DEF Cut
<1>5. index' \in [Entries -> Nat \cup {NoIndex}] /\ InHeap' = InHeap \ {pq[Len(pq)]}
  BY <1>1, <1>2, <1>4 DEF InHeap
<1>6. Pointers'
  BY <1>1, <1>2, <1>3, <1>4 DEF Pointers, NoIndex
<1>7. QED
  BY <1>1, <1>2, <1>3, <1>5, <1>6

\* An append puts the new entry last and moves no other.
LEMMA AddFacts ==
    ASSUME HeapTypeOK, Pointers, Contents, gone = {},
           NEW a \in Entries, NEW ttl \in TTLs, Add(a, ttl)
    PROVE  /\ pq' \in Seq(Entries) /\ Len(pq') = Len(pq) + 1 /\ pq'[Len(pq) + 1] = a
           /\ \A k \in 1..Len(pq) : pq'[k] = pq[k]
           /\ index' \in [Entries -> Nat \cup {NoIndex}]
           /\ a \notin InHeap /\ Pointers' /\ InHeap' = InHeap \cup {a}
<1>1. /\ Len(pq) \in Nat /\ pq \in Seq(Entries) /\ pq' = Append(pq, a)
      /\ index \in [Entries -> Nat \cup {NoIndex}]
      /\ index' = [index EXCEPT ![a] = Len(pq) + 1]
  BY DEF HeapTypeOK, Add, NewIndex
<1>2. /\ pq' \in Seq(Entries) /\ Len(pq') = Len(pq) + 1 /\ pq'[Len(pq) + 1] = a
      /\ \A k \in 1..Len(pq) : pq'[k] = pq[k] /\ pq[k] \in Entries
  BY <1>1
<1>3. a \notin InHeap
  BY HeapAssumption DEF Contents, Present, Add, HeapTypeOK
<1>4. index' \in [Entries -> Nat \cup {NoIndex}] /\ InHeap' = InHeap \cup {a}
  BY <1>1 DEF InHeap, NoIndex
<1>5. \A k \in 1..Len(pq) : pq[k] # a
  BY <1>1, <1>2, <1>3 DEF Pointers, InHeap, NoIndex
<1>6. Pointers'
  BY <1>1, <1>2, <1>3, <1>5 DEF Pointers, InHeap, NoIndex
<1>7. QED
  BY <1>2, <1>3, <1>4, <1>6

-----------------------------------------------------------------------------
(***************************************************************************)
(* A sift, up or down, moves the entry, turns round or ends.               *)
(***************************************************************************)
Still == UNCHANGED <<clock, maps, totals>>

MoveTo(j) == /\ pc \in {"down", "up"} /\ at \in 1..Sifted /\ j \in 1..Sifted
             /\ SiftStep(j) /\ Still

Turn == /\ pc = "down" /\ pc' = "up" /\ at = from
        /\ UNCHANGED <<pq, index, op, from, at, args>> /\ Still

Settle == /\ pc \in {"down", "up"}
          /\ UNCHANGED <<pq, index>> /\ EndSift /\ Still

\* A sift never reaches beyond the heap.
LEMMA SiftedType ==
    ASSUME HeapTypeOK PROVE Sifted \in Int /\ Len(pq) \in Nat /\ Sifted <= Len(pq)
BY DEF HeapTypeOK, Sifted

\* down goes on to the earlier child, turns to up where it began, or is over.
LEMMA DownForms ==
    ASSUME HeapTypeOK, Places, Down
    PROVE  \/ Sinks /\ MoveTo(EarlierChild(at))
           \/ ~Sinks /\ Turn
           \/ ~Sinks /\ at # from /\ Settle
<1>1. /\ pc = "down" /\ at \in 1..Len(pq) /\ Sifted \in Int /\ Sifted <= Len(pq)
      /\ Len(pq) \in Nat
  BY SiftedType DEF Down, Places
<1>2. CASE Sinks
  <2>1. EarlierChild(at) \in 1..Sifted /\ at \in 1..Sifted
    BY <1>1, <1>2 DEF Sinks, EarlierChild
  <2>2. QED
    BY <1>1, <1>2, <2>1 DEF Down, MoveTo, Still
<1>3. CASE ~Sinks
  BY <1>1, <1>3 DEF Down, Turn, Settle, Still
<1>4. QED
  BY <1>2, <1>3

\* up goes on to the parent or is over.
LEMMA UpForms ==
    ASSUME HeapTypeOK, Places, Up
    PROVE  (Rises /\ MoveTo(at \div 2)) \/ (~Rises /\ Settle)
<1>1. /\ pc = "up" /\ at \in 1..Len(pq) /\ (at > 1 => at <= Sifted) /\ Sifted \in Int
      /\ Sifted <= Len(pq) /\ Len(pq) \in Nat
  BY SiftedType DEF Up, Places
<1>2. CASE Rises
  <2>1. at \div 2 \in 1..Sifted /\ at \in 1..Sifted
    BY <1>1, <1>2, Parents DEF Rises
  <2>2. QED
    BY <1>1, <1>2, <2>1 DEF Up, MoveTo, Still
<1>3. CASE ~Rises
  BY <1>1, <1>3 DEF Up, Settle, Still
<1>4. QED
  BY <1>2, <1>3

\* All of the invariant but the order.
Shape ==
    /\ HeapTypeOK /\ Places /\ Pointers /\ Contents /\ Removals /\ Collects /\ Quiet
    /\ MetricsConserved

\* A step of a sift moves two entries and changes nothing else of the tracker.
LEMMA MoveShape ==
    ASSUME Shape, NEW j, MoveTo(j)
    PROVE  Shape'
<1> USE DEF Shape
<1>1. /\ HeapTypeOK /\ Places /\ Pointers /\ Sifted \in Int /\ Sifted <= Len(pq)
      /\ Len(pq) \in Nat /\ at \in 1..Len(pq) /\ j \in 1..Len(pq) /\ Swap(at, j)
  BY SiftedType DEF MoveTo, SiftStep
<1>2. /\ pq' \in Seq(Entries) /\ Len(pq') = Len(pq) /\ Sifted' = Sifted
      /\ pq'[at] = pq[j] /\ pq'[j] = pq[at]
      /\ \A k \in 1..Len(pq) : k # at /\ k # j => pq'[k] = pq[k]
  BY <1>1, Swaps DEF MoveTo, SiftStep, Sifted
<1>3. Pointers' /\ InHeap' = InHeap /\ index' \in [Entries -> Nat \cup {NoIndex}]
  BY <1>1, SwapPointers
<1>4. /\ at' = j /\ j \in 1..Sifted /\ at \in 1..Sifted /\ pc \in {"down", "up"}
      /\ UNCHANGED <<clock, tables, expireAt, op, pc, from, now, todo, gone, totals>>
      /\ Present' = Present
  BY DEF MoveTo, SiftStep, Still, maps, args, Present
<1>5. HeapTypeOK'
  <2>1. at' \in Nat
    BY <1>1, <1>4
  <2>2. QED
    BY <1>2, <1>3, <1>4, <2>1 DEF HeapTypeOK, totals, Removes
<1>6. Places'
  BY <1>1, <1>2, <1>4 DEF Places
<1>7. Contents' /\ Quiet' /\ MetricsConserved'
  BY <1>2, <1>3, <1>4 DEF Contents, Quiet, MetricsConserved, totals
<1>8. op # "AddOrRenew" => Victim' = Victim /\ pq'[Len(pq)] = pq[Len(pq)]
  <2>1. ASSUME op # "AddOrRenew" PROVE pq'[Len(pq)] = pq[Len(pq)]
    <3>1. Len(pq) # at /\ Len(pq) # j /\ Len(pq) \in 1..Len(pq)
      BY <1>1, <1>4, <2>1 DEF Sifted
    <3>2. QED
      BY <1>2, <3>1
  <2>2. QED
    BY <1>2, <1>4, <2>1 DEF Victim, Removing
<1>9. Removals'
  BY <1>4, <1>8 DEF Removals, Removes
<1>10. Collects'
  <2>1. \A k \in 1..Len(pq) : \E l \in 1..Len(pq) : pq'[k] = pq[l]
    BY <1>1, <1>2
  <2>2. QED
    BY <1>2, <1>4, <1>8, <2>1 DEF Collects, Time
<1>11. QED
  BY <1>3, <1>5, <1>6, <1>7, <1>9, <1>10

\* Turning to up changes nothing but the loop.
LEMMA TurnShape ==
    ASSUME Shape, Turn
    PROVE  Shape'
<1> USE DEF Shape
<1>1. /\ UNCHANGED <<clock, tables, expireAt, pq, index, op, from, at, now, todo, gone>>
      /\ UNCHANGED <<totalAdded, totalRenewed, totalExpired, totalDeleted>>
      /\ pc = "down" /\ pc' = "up" /\ Present' = Present /\ InHeap' = InHeap
  BY DEF Turn, Still, maps, args, totals, Present, InHeap
<1>2. HeapTypeOK' /\ Places' /\ Pointers'
  BY <1>1 DEF HeapTypeOK, Places, Pointers, Sifted
<1>3. Contents' /\ Quiet' /\ MetricsConserved'
  BY <1>1 DEF Contents, Quiet, MetricsConserved
<1>4. Victim' = Victim
  BY <1>1 DEF Victim, Removing
<1>5. Removals' /\ Collects'
  BY <1>1, <1>4 DEF Removals, Collects, Time
<1>6. QED
  BY <1>2, <1>3, <1>5

\* A sift that is over lets the method go on.
LEMMA SettleShape ==
    ASSUME Shape, Settle
    PROVE  Shape'
<1> USE DEF Shape
<1>1. /\ UNCHANGED <<clock, tables, expireAt, pq, index>>
      /\ UNCHANGED <<totalAdded, totalRenewed, totalExpired, totalDeleted>>
      /\ pc \in {"down", "up"} /\ Present' = Present /\ InHeap' = InHeap
      /\ Pointers'
  BY DEF Settle, Still, maps, totals, Present, InHeap, Pointers
<1>2. CASE op = "AddOrRenew"
  <2>1. /\ op' = "none" /\ pc' = "idle" /\ from' = 0 /\ at' = 0
        /\ now' = 0 /\ todo' = {} /\ gone' = {} /\ gone = {}
    BY <1>2 DEF Settle, EndSift, Return, Quiet
  <2>2. HeapTypeOK' /\ Places'
    BY <1>1, <2>1 DEF HeapTypeOK, Places, Removes
  <2>3. Contents' /\ Quiet' /\ MetricsConserved'
    BY <1>1, <2>1 DEF Contents, Quiet, MetricsConserved
  <2>4. Removals' /\ Collects'
    BY <2>1 DEF Removals, Collects, Removes
  <2>5. QED
    BY <1>1, <2>2, <2>3, <2>4
<1>3. CASE op # "AddOrRenew"
  <2>1. /\ pc' = "cut" /\ from' = 0 /\ at' = 0 /\ UNCHANGED <<op, now, todo, gone>>
    BY <1>3 DEF Settle, EndSift, args
  <2>2. HeapTypeOK'
    BY <1>1, <2>1 DEF HeapTypeOK
  <2>3. Places'
    BY <1>1, <1>3, <2>1 DEF Places, HeapTypeOK
  <2>4. Contents' /\ Quiet' /\ MetricsConserved'
    BY <1>1, <2>1 DEF Contents, Quiet, MetricsConserved
  <2>5. Victim' = Victim
    BY <1>1, <1>3, <2>1 DEF Victim, Removing
  <2>6. Removals' /\ Collects'
    BY <1>1, <2>1, <2>5 DEF Removals, Collects, Time
  <2>7. QED
    BY <1>1, <2>2, <2>3, <2>4, <2>6
<1>4. QED
  BY <1>2, <1>3

-----------------------------------------------------------------------------
(***************************************************************************)
(* The methods, from their first step to their last                        *)
(***************************************************************************)
LEMMA AddShape ==
    ASSUME Shape, NEW a \in Entries, NEW ttl \in TTLs, op = "none", Add(a, ttl)
    PROVE  Shape'
<1> USE DEF Shape
<1>1. /\ gone = {} /\ todo = {} /\ pc = "idle" /\ Len(pq) \in Nat /\ ttl \in Nat
      /\ clock \in Nat
  BY HeapAssumption DEF Quiet, Places, Removes, HeapTypeOK
<1>2. /\ pq' \in Seq(Entries) /\ Len(pq') = Len(pq) + 1
      /\ index' \in [Entries -> Nat \cup {NoIndex}]
      /\ a \notin InHeap /\ Pointers' /\ InHeap' = InHeap \cup {a}
  BY <1>1, AddFacts
<1>3. /\ op' = "AddOrRenew" /\ pc' = "up" /\ at' = Len(pq) + 1 /\ from' = Len(pq) + 1
      /\ UNCHANGED <<clock, now, todo, gone, totalRenewed, totalExpired, totalDeleted>>
      /\ totalAdded' = totalAdded + 1
      /\ expireAt' = [expireAt EXCEPT ![a] = clock + ttl]
      /\ tables' = [tables EXCEPT ![TableOf[a]] = @ \cup {a}]
  BY DEF Add, StartSift, NewIndex, args
<1>4. TableOf[a] \in Tables /\ tables \in [Tables -> SUBSET Entries]
  BY HeapAssumption DEF HeapTypeOK
<1>5. HeapTypeOK'
  BY <1>1, <1>2, <1>3, <1>4 DEF HeapTypeOK
<1>6. Places'
  BY <1>1, <1>2, <1>3 DEF Places, Sifted
<1>7. Contents'
  <2>1. Present' = Present \cup {a}
    BY <1>3, <1>4 DEF Present
  <2>2. \A t \in Tables : \A b \in tables'[t] : TableOf[b] = t
    BY <1>3, <1>4 DEF Contents
  <2>3. QED
    BY <1>1, <1>2, <1>3, <2>1, <2>2 DEF Contents
<1>8. MetricsConserved'
  BY <1>1, <1>2, <1>3 DEF MetricsConserved, HeapTypeOK
<1>9. Removals' /\ Collects' /\ Quiet'
  BY <1>1, <1>3 DEF Removals, Collects, Quiet, Removes
<1>10. QED
  BY <1>2, <1>5, <1>6, <1>7, <1>8, <1>9

\* A renewal leaves the entry in its place, with a later time.
LEMMA RenewShape ==
    ASSUME Shape, NEW a \in Entries, NEW ttl \in TTLs, op = "none", Renew(a, ttl)
    PROVE  Shape'
<1> USE DEF Shape
<1>1. /\ gone = {} /\ todo = {} /\ pc = "idle" /\ Len(pq) \in Nat /\ ttl \in Nat
      /\ clock \in Nat
  BY HeapAssumption DEF Quiet, Places, Removes, HeapTypeOK
<1>2. /\ UNCHANGED <<clock, tables, pq, index, now, todo, gone>>
      /\ UNCHANGED <<totalAdded, totalExpired, totalDeleted>>
      /\ totalRenewed' = totalRenewed + 1 /\ Present' = Present /\ InHeap' = InHeap
      /\ Pointers'
  BY DEF Renew, args, Present, InHeap, Pointers
<1>3. index[a] \in 1..Len(pq)
  <2>1. a \in Present
    BY HeapAssumption DEF Renew, Present
  <2>2. QED
    BY <1>1, <2>1 DEF Contents, InHeap, Pointers
<1>4. /\ expireAt' \in [Entries -> Nat]
      /\ \/ op' = "AddOrRenew" /\ pc' = "down" /\ at' = index[a] /\ from' = index[a]
         \/ UNCHANGED <<op, pc, at, from>>
  BY <1>1 DEF Renew, Extend, SetAndFix, StartSift, HeapTypeOK
<1>5. HeapTypeOK'
  <2>1. at' \in Nat /\ from' \in Nat /\ totalRenewed' \in Nat
    <3>1. at \in Nat /\ from \in Nat /\ totalRenewed \in Nat /\ index[a] \in Nat
      BY <1>1, <1>3 DEF HeapTypeOK
    <3>2. QED
      BY <1>2, <1>4, <3>1
  <2>2. QED
    BY <1>2, <1>4, <2>1 DEF HeapTypeOK, Removes
<1>6. Places'
  BY <1>1, <1>2, <1>3, <1>4 DEF Places, Sifted
<1>7. Contents' /\ MetricsConserved'
  BY <1>2 DEF Contents, MetricsConserved
<1>8. Removals' /\ Collects' /\ Quiet'
  BY <1>1, <1>2, <1>4 DEF Removals, Collects, Quiet, Removes
<1>9. QED
  BY <1>2, <1>5, <1>6, <1>7, <1>8

\* A method that begins knows what it is to remove.
LEMMA BeginShape ==
    ASSUME Shape, NEW method \in {"PopExpired"} \cup Removes, Begin(method),
           \/ method = "PopExpired" /\ now' \in 0..clock /\ todo' = todo
           \/ /\ method = "Delete" /\ now' = now
              /\ \E a \in Entries : a \in tables[TableOf[a]] /\ todo' = {a}
           \/ /\ method = "Flush" /\ now' = now
              /\ \E t \in Tables : todo' = tables[t]
    PROVE  Shape'
<1> USE DEF Shape
<1>1. /\ gone = {} /\ todo = {} /\ pc = "idle" /\ Len(pq) \in Nat /\ op = "none"
      /\ clock \in Nat
  BY DEF Quiet, Places, Removes, HeapTypeOK, Begin
<1>2. /\ UNCHANGED <<clock, tables, expireAt, pq, index, from, at, gone>>
      /\ UNCHANGED <<totalAdded, totalRenewed, totalExpired, totalDeleted>>
      /\ Present' = Present /\ InHeap' = InHeap /\ Pointers'
      /\ op' = method /\ pc' = "loop"
  BY DEF Begin, maps, totals, Present, InHeap, Pointers
<1>3. todo' \subseteq Present /\ now' \in Nat
  BY <1>1, HeapAssumption DEF Present, HeapTypeOK
<1>4. HeapTypeOK'
  BY <1>2, <1>3 DEF HeapTypeOK, Present
<1>5. Places' /\ Contents' /\ MetricsConserved'
  BY <1>1, <1>2 DEF Places, Contents, MetricsConserved, Removes
<1>6. Victim' = {}
  BY <1>2 DEF Victim, Removing
<1>7. Removals'
  BY <1>1, <1>2, <1>3, <1>6 DEF Removals, Removes
<1>8. Collects'
  BY <1>1, <1>2, FS_EmptySet, HeapAssumption DEF Collects, Removes
<1>9. Quiet'
  BY <1>1, <1>2 DEF Quiet, Removes
<1>10. QED
  BY <1>2, <1>4, <1>5, <1>7, <1>8, <1>9

\* heap.Pop takes the top, which is the oldest entry and has expired.
LEMMA PopShape ==
    ASSUME Shape, Ordered, Pop
    PROVE  Shape'
<1> USE DEF Shape
<1>1. /\ Len(pq) \in Nat /\ Len(pq) >= 1 /\ op = "PopExpired" /\ pc = "loop"
      /\ Swap(1, Len(pq)) /\ pq \in Seq(Entries) /\ expireAt \in [Entries -> Nat]
  BY DEF Pop, Due, HeapTypeOK
<1>2. /\ 1 \in 1..Len(pq) /\ Len(pq) \in 1..Len(pq)
  BY <1>1
<1>3. /\ pq' \in Seq(Entries) /\ Len(pq') = Len(pq)
      /\ pq'[1] = pq[Len(pq)] /\ pq'[Len(pq)] = pq[1]
      /\ \A k \in 1..Len(pq) : k # 1 /\ k # Len(pq) => pq'[k] = pq[k]
  BY <1>1, <1>2, Swaps
<1>4. Pointers' /\ InHeap' = InHeap /\ index' \in [Entries -> Nat \cup {NoIndex}]
  BY <1>1, <1>2, SwapPointers
<1>5. /\ UNCHANGED <<clock, tables, expireAt, op, now, todo, gone>>
      /\ UNCHANGED <<totalAdded, totalRenewed, totalExpired, totalDeleted>>
      /\ Present' = Present /\ pc' = "down" /\ from' = 1 /\ at' = 1
  BY DEF Pop, StartSift, maps, args, totals, Present
<1>6. HeapTypeOK' /\ Places'
  BY <1>1, <1>2, <1>3, <1>4, <1>5 DEF HeapTypeOK, Places, Sifted, Removes
<1>7. Contents' /\ MetricsConserved' /\ Quiet'
  BY <1>3, <1>4, <1>5 DEF Contents, MetricsConserved, Quiet
<1>8. Removals'
  BY <1>1, <1>5 DEF Removals, Removes
<1>9. \A k \in 1..Len(pq) : Time(1) <= Time(k)
  <2>1. \A k \in 1..Len(pq) : times[k] = Time(k) /\ Time(k) \in Nat
    BY <1>1 DEF Time, times
  <2>2. OrderedBut(times, Len(pq), {})
    BY <1>1 DEF Ordered
  <2>3. \A k \in 1..Len(pq) : times[1] <= times[k]
    BY <1>1, <2>1, <2>2, TopFirst
  <2>4. QED
    BY <1>2, <2>1, <2>3
<1>10. Collects'
  <2>1. \A k \in 1..Len(pq) : \E l \in 1..Len(pq) : pq'[k] = pq[l]
    BY <1>2, <1>3
  <2>2. Cardinality(gone) < MaxBatch /\ Time(1) <= now
    BY DEF Pop, Room, Due
  <2>3. QED
    BY <1>1, <1>3, <1>5, <1>9, <2>1, <2>2 DEF Collects, Time
<1>11. QED
  BY <1>4, <1>6, <1>7, <1>8, <1>10

\* heap.Remove takes an entry the method was called for.
LEMMA HeapRemoveShape ==
    ASSUME Shape, NEW a \in Entries, HeapRemove(a)
    PROVE  Shape'
<1> USE DEF Shape
<1>1. /\ pc = "loop" /\ a \in todo /\ op \in Removes /\ Len(pq) \in Nat
      /\ todo \subseteq Present \ gone /\ gone \subseteq Present
  BY DEF HeapRemove, Quiet, Removals, HeapTypeOK
<1>2. /\ index[a] \in 1..Len(pq) /\ pq[index[a]] = a /\ Len(pq) \in 1..Len(pq)
  BY <1>1 DEF Contents, InHeap, Pointers
<1>3. /\ UNCHANGED <<clock, tables, expireAt, op, now, gone>>
      /\ UNCHANGED <<totalAdded, totalRenewed, totalExpired, totalDeleted>>
      /\ Present' = Present /\ todo' = todo \ {a}
  BY DEF HeapRemove, maps, totals, Present
<1>4. /\ \/ /\ pc' = "down" /\ from' = index[a] /\ at' = index[a] /\ index[a] # Len(pq)
         \/ pc' = "cut" /\ UNCHANGED <<from, at>>
      /\ pq' \in Seq(Entries) /\ Len(pq') = Len(pq) /\ pq'[Len(pq)] = a
      /\ index' \in [Entries -> Nat \cup {NoIndex}] /\ Pointers' /\ InHeap' = InHeap
  <2>1. CASE index[a] = Len(pq)
    BY <1>2, <2>1 DEF HeapRemove, HeapTypeOK, Pointers, InHeap
  <2>2. CASE index[a] # Len(pq)
    <3>1. Swap(index[a], Len(pq)) /\ StartSift("down", index[a])
      BY <2>2 DEF HeapRemove
    <3>2. QED
      BY <1>2, <2>2, <3>1, Swaps, SwapPointers DEF StartSift
  <2>3. QED
    BY <2>1, <2>2
<1>5. HeapTypeOK' /\ Places'
  <2>1. /\ pc' \in {"down", "cut"} /\ Len(pq') > 0 /\ op' \in Removes
        /\ at' \in Nat /\ from' \in Nat
        /\ pc' = "down" => /\ from' \in 1..Len(pq') /\ at' \in 1..Len(pq')
                            /\ at' <= Sifted'
    BY <1>1, <1>2, <1>3, <1>4 DEF HeapTypeOK, Sifted, Removes
  <2>2. HeapTypeOK'
    BY <1>1, <1>3, <1>4, <2>1 DEF HeapTypeOK
  <2>3. Places'
    BY <2>1 DEF Places, Removes
  <2>4. QED
    BY <2>2, <2>3
<1>6. Contents' /\ MetricsConserved' /\ Quiet'
  BY <1>1, <1>3, <1>4 DEF Contents, MetricsConserved, Quiet, Removes
<1>7. Victim = {} /\ Victim' = {a}
  BY <1>1, <1>3, <1>4 DEF Victim, Removing, Removes
<1>8. Removals'
  BY <1>1, <1>3, <1>7 DEF Removals
<1>9. Collects'
  BY <1>1, <1>3 DEF Collects, Removes
<1>10. QED
  BY <1>4, <1>5, <1>6, <1>8, <1>9

\* What is cut off is counted and in the hands of the method.
LEMMA CutShape ==
    ASSUME Shape, Cut
    PROVE  Shape'
<1> USE DEF Shape
<1> DEFINE v == pq[Len(pq)]
<1>1. /\ Len(pq) > 0 /\ v \in Entries /\ Last(pq) = v
      /\ pq' \in Seq(Entries) /\ Len(pq') = Len(pq) - 1
      /\ index' \in [Entries -> Nat \cup {NoIndex}]
      /\ Pointers' /\ InHeap' = InHeap \ {v}
  BY CutFacts DEF Places
<1>2. /\ pc = "cut" /\ pc' = "loop" /\ gone' = gone \cup {v}
      /\ UNCHANGED <<clock, op, from, at, now, todo, totalAdded, totalRenewed>>
      /\ op \in {"PopExpired"} \cup Removes /\ Len(pq) \in Nat
  BY <1>1 DEF Cut, Places, HeapTypeOK
<1>3. v \in InHeap /\ v \in Present /\ v \notin gone
  BY <1>1, <1>2 DEF Pointers, InHeap, Contents, NoIndex
<1>4. Victim = {v} /\ Victim' = {}
  BY <1>2 DEF Victim, Removing, Removes
<1>5. CASE op = "PopExpired"
  <2>1. /\ tables' = [t \in Tables |-> tables[t] \ {v}]
        /\ expireAt' = [b \in Entries |-> IF b = v THEN 0 ELSE expireAt[b]]
        /\ totalExpired' = totalExpired + 1 /\ totalDeleted' = totalDeleted
    <3>1. totalDeleted \in Nat
      BY DEF HeapTypeOK
    <3>2. QED
      BY <1>1, <1>5, <3>1 DEF Cut, Unmap, CountRemoved, Removes
  <2>2. Present' = Present \ {v}
    BY <2>1 DEF Present
  <2>3. HeapTypeOK'
    BY <1>1, <1>2, <2>1 DEF HeapTypeOK, Removes
  <2>4. Contents'
    BY <1>1, <1>2, <1>3, <2>1, <2>2 DEF Contents
  <2>5. Places' /\ MetricsConserved' /\ Quiet'
    <3>1. Places' /\ Quiet'
      BY <1>2, <1>5, <2>1 DEF Places, Quiet, HeapTypeOK
    <3>2. MetricsConserved'
      BY <1>1, <1>2, <2>1 DEF MetricsConserved, HeapTypeOK
    <3>3. QED
      BY <3>1, <3>2
  <2>6. Removals'
    BY <1>2, <1>5 DEF Removals, Removes
  <2>7. Collects'
    <3>1. IsFiniteSet(gone') /\ Cardinality(gone') = Cardinality(gone) + 1
      BY <1>2, <1>3, <1>5, FS_AddElement DEF Collects
    <3>2. Cardinality(gone) < MaxBatch /\ Cardinality(gone) \in Nat
      BY <1>2, <1>5, FS_CardinalityType DEF Collects
    <3>3. Cardinality(gone') <= MaxBatch
      BY <3>1, <3>2, HeapAssumption
    <3>4. \A b \in gone' : b \notin Present' /\ expireAt'[b] = 0
      BY <1>1, <1>2, <1>5, <2>1, <2>2 DEF Collects, HeapTypeOK
    <3>5. QED
      BY <1>2, <1>5, <3>1, <3>3, <3>4 DEF Collects
  <2>8. QED
    BY <1>1, <2>3, <2>4, <2>5, <2>6, <2>7
<1>6. CASE op \in Removes
  <2>1. /\ UNCHANGED <<tables, expireAt, totalExpired>> /\ totalDeleted' = totalDeleted + 1
        /\ Present' = Present
    BY <1>6 DEF Cut, CountRemoved, Removes, maps, Present
  <2>2. HeapTypeOK'
    BY <1>1, <1>2, <2>1 DEF HeapTypeOK, Removes
  <2>3. Places' /\ Contents' /\ MetricsConserved' /\ Quiet'
    <3>1. Places' /\ Quiet'
      BY <1>2, <1>6, <2>1 DEF Places, Quiet, HeapTypeOK, Removes
    <3>2. MetricsConserved'
      BY <1>1, <1>2, <2>1 DEF MetricsConserved, HeapTypeOK
    <3>3. Contents'
      BY <1>1, <1>2, <1>3, <2>1 DEF Contents
    <3>4. QED
      BY <3>1, <3>2, <3>3
  <2>4. Removals'
    BY <1>2, <1>3, <1>4, <1>6, <2>1 DEF Removals, Removes
  <2>5. Collects'
    BY <1>2, <1>6 DEF Collects, Removes
  <2>6. QED
    BY <1>1, <2>2, <2>3, <2>4, <2>5
<1>7. QED
  BY <1>2, <1>5, <1>6

\* A collection that returns leaves nothing half removed.
LEMMA PopReturnShape ==
    ASSUME Shape, PopReturn
    PROVE  Shape'
<1> USE DEF Shape
<1>1. /\ UNCHANGED <<clock, tables, expireAt, pq, index>>
      /\ UNCHANGED <<totalAdded, totalRenewed, totalExpired, totalDeleted>>
      /\ op = "PopExpired" /\ op' = "none" /\ pc' = "idle" /\ from' = 0 /\ at' = 0
      /\ now' = 0 /\ todo' = {} /\ gone' = {}
      /\ Present' = Present /\ InHeap' = InHeap /\ Pointers'
  BY DEF PopReturn, Return, maps, totals, Present, InHeap, Pointers
<1>2. HeapTypeOK' /\ Places' /\ MetricsConserved' /\ Quiet'
  BY <1>1 DEF HeapTypeOK, Places, MetricsConserved, Quiet
<1>3. Contents'
  BY <1>1 DEF Contents, Collects
<1>4. Removals' /\ Collects'
  BY <1>1 DEF Removals, Collects, Removes
<1>5. QED
  BY <1>1, <1>2, <1>3, <1>4

\* A Delete or Flush that returns has taken all its entries out of the maps.
LEMMA RemoveReturnShape ==
    ASSUME Shape, RemoveReturn
    PROVE  Shape'
<1> USE DEF Shape
<1>1. /\ UNCHANGED <<clock, pq, index>>
      /\ UNCHANGED <<totalAdded, totalRenewed, totalExpired, totalDeleted>>
      /\ op \in Removes /\ op' = "none" /\ pc' = "idle" /\ from' = 0 /\ at' = 0
      /\ now' = 0 /\ todo' = {} /\ gone' = {}
      /\ InHeap' = InHeap /\ Pointers'
      /\ tables' = [t \in Tables |-> tables[t] \ gone]
      /\ expireAt' = [b \in Entries |-> IF b \in gone THEN 0 ELSE expireAt[b]]
  BY DEF RemoveReturn, Return, Unmap, totals, InHeap, Pointers
<1>2. Present' = Present \ gone
  BY <1>1 DEF Present
<1>3. HeapTypeOK'
  BY <1>1 DEF HeapTypeOK
<1>4. Places' /\ MetricsConserved' /\ Quiet' /\ Contents'
  BY <1>1, <1>2 DEF Places, MetricsConserved, Quiet, Contents, HeapTypeOK
<1>5. Removals' /\ Collects'
  BY <1>1 DEF Removals, Collects, Removes
<1>6. QED
  BY <1>1, <1>3, <1>4, <1>5

\* Time touches nothing.
LEMMA ElapseShape ==
    ASSUME Shape, clock' \in clock..MaxTime,
           UNCHANGED <<maps, pq, index, op, pc, from, at, args, totals>>
    PROVE  Shape'
<1> USE DEF Shape
<1>1. /\ UNCHANGED <<tables, expireAt, pq, index, op, pc, from, at, now, todo, gone>>
      /\ UNCHANGED <<totalAdded, totalRenewed, totalExpired, totalDeleted>>
      /\ Present' = Present /\ InHeap' = InHeap /\ Victim' = Victim
  BY DEF maps, args, totals, Present, InHeap, Victim, Removing
<1>2. HeapTypeOK'
  BY <1>1, HeapAssumption DEF HeapTypeOK
<1>3. Places' /\ Pointers' /\ Contents' /\ MetricsConserved' /\ Quiet'
  BY <1>1 DEF Places, Pointers, Contents, MetricsConserved, Quiet, Sifted
<1>4. Removals'
  BY <1>1 DEF Removals
<1>5. Collects'
  BY <1>1, HeapAssumption DEF Collects, Time, HeapTypeOK
<1>6. QED
  BY <1>2, <1>3, <1>4, <1>5

-----------------------------------------------------------------------------
(***************************************************************************)
(* The order                                                               *)
(***************************************************************************)
LEMMA Times ==
    ASSUME HeapTypeOK
    PROVE  /\ Len(pq) \in Nat
           /\ \A k \in 1..Len(pq) : times[k] = Time(k) /\ times[k] \in Nat /\ pq[k] \in Entries
BY DEF HeapTypeOK, Time, times

\* A swap of two positions swaps their times.
LEMMA SwapTimes ==
    ASSUME HeapTypeOK, expireAt' = expireAt,
           NEW i \in 1..Len(pq), NEW j \in 1..Len(pq), Swap(i, j)
    PROVE  /\ times'[i] = times[j] /\ times'[j] = times[i]
           /\ \A k \in 1..Len(pq) : k # i /\ k # j => times'[k] = times[k]
<1>1. /\ Len(pq') = Len(pq) /\ pq'[i] = pq[j] /\ pq'[j] = pq[i] /\ Len(pq) \in Nat
      /\ \A k \in 1..Len(pq) : k # i /\ k # j => pq'[k] = pq[k]
  BY Swaps, SiftedType
<1>2. QED
  BY <1>1 DEF times, Time

\* A step of a sift exchanges two times.
LEMMA MoveTimes ==
    ASSUME HeapTypeOK, NEW j, MoveTo(j)
    PROVE  /\ Sifted \in Nat /\ Sifted' = Sifted /\ at \in 1..Sifted /\ j \in 1..Sifted
           /\ at' = j /\ UNCHANGED <<op, pc, from>>
           /\ times'[at] = times[j] /\ times'[j] = times[at]
           /\ \A k \in 1..Sifted : times[k] = Time(k) /\ times[k] \in Nat
           /\ \A k \in 1..Sifted : k # at /\ k # j => times'[k] = times[k]
<1>1. /\ Sifted \in Int /\ Sifted <= Len(pq) /\ Len(pq) \in Nat
      /\ at \in 1..Sifted /\ j \in 1..Sifted /\ Swap(at, j)
      /\ UNCHANGED <<op, pc, from, expireAt>> /\ at' = j
  BY SiftedType DEF MoveTo, SiftStep, Still, maps
<1>2. Len(pq') = Len(pq)
  BY <1>1, Swaps
<1>3. Sifted' = Sifted
  BY <1>1, <1>2 DEF Sifted
<1>4. QED
  BY <1>1, <1>3, Times, SwapTimes

\* A step down moves the gap in the order to the children of the child.
LEMMA SinkOrder ==
    ASSUME HeapTypeOK, Ordered, pc = "down", Sinks, MoveTo(EarlierChild(at))
    PROVE  Ordered'
<1> DEFINE j == EarlierChild(at)
<1>1. /\ Sifted \in Nat /\ Sifted' = Sifted /\ at \in 1..Sifted /\ j \in 1..Sifted
      /\ at' = j /\ pc' = "down"
      /\ times'[at] = times[j] /\ times'[j] = times[at]
      /\ \A k \in 1..Sifted : times[k] = Time(k) /\ times[k] \in Nat
      /\ \A k \in 1..Sifted : k # at /\ k # j => times'[k] = times[k]
  BY MoveTimes
<1>2. /\ j \in Children(at) /\ times[j] < times[at]
      /\ \A m \in Children(at) : m <= Sifted => times[j] <= times[m]
  BY <1>1 DEF Sinks, EarlierChild, Children, Less
<1>3. OrderedBut(times, Sifted, Children(at) \cup {at}) /\ Grandparent(times, Sifted, at)
  BY DEF Ordered, OrderedBut
<1> HIDE DEF j
<1>4. OrderedBut(times', Sifted, Children(j)) /\ Grandparent(times', Sifted, j)
  BY <1>1, <1>2, <1>3, Sinking
<1>5. QED
  BY <1>1, <1>4 DEF Ordered, OrderedBut, Grandparent, Children

\* A step up moves the gap in the order to the parent.
LEMMA RiseOrder ==
    ASSUME HeapTypeOK, Ordered, pc = "up", Rises, MoveTo(at \div 2)
    PROVE  Ordered'
<1> DEFINE p == at \div 2
<1>1. /\ Sifted \in Nat /\ Sifted' = Sifted /\ at \in 1..Sifted /\ p \in 1..Sifted
      /\ at' = p /\ pc' = "up"
      /\ times'[at] = times[p] /\ times'[p] = times[at]
      /\ \A k \in 1..Sifted : times[k] = Time(k) /\ times[k] \in Nat
      /\ \A k \in 1..Sifted : k # at /\ k # p => times'[k] = times[k]
  BY MoveTimes
<1>2. times[at] < times[p] /\ at \in Children(p)
  BY <1>1, Parents DEF Rises, Less, Children
<1>3. OrderedBut(times, Sifted, {at}) /\ Grandparent(times, Sifted, at)
  BY DEF Ordered
<1> HIDE DEF p
<1>4. OrderedBut(times', Sifted, {p}) /\ Grandparent(times', Sifted, p)
  BY <1>1, <1>2, <1>3, Rising
<1>5. QED
  BY <1>1, <1>4 DEF Ordered, OrderedBut, Grandparent, Children

\* An entry that does not sink is no later than its children.
LEMMA NoSink ==
    ASSUME HeapTypeOK, at \in 1..Len(pq), ~Sinks
    PROVE  \A m \in Children(at) : m <= Sifted => times[at] <= times[m]
<1>1. /\ Sifted \in Int /\ Sifted <= Len(pq) /\ Len(pq) \in Nat /\ at \in Nat /\ at >= 1
      /\ \A k \in 1..Len(pq) : times[k] = Time(k) /\ times[k] \in Nat
  BY SiftedType, Times
<1>2. SUFFICES ASSUME 2 * at <= Sifted
               PROVE  /\ Time(at) <= Time(2 * at)
                      /\ 2 * at + 1 <= Sifted => Time(at) <= Time(2 * at + 1)
  <2>1. ASSUME NEW m \in Children(at), m <= Sifted
        PROVE  2 * at <= Sifted /\ m \in 1..Len(pq)
    BY <1>1, <2>1 DEF Children
  <2>2. QED
    BY <1>1, <1>2, <2>1 DEF Children
<1>3. ~(Time(EarlierChild(at)) < Time(at))
  BY <1>2 DEF Sinks, Less
<1>4. Time(at) \in Nat /\ Time(2 * at) \in Nat
  BY <1>1, <1>2
<1>5. CASE 2 * at + 1 <= Sifted
  <2>1. Time(2 * at + 1) \in Nat
    BY <1>1, <1>5
  <2>2. QED
    BY <1>3, <1>4, <1>5, <2>1 DEF EarlierChild, Less
<1>6. CASE ~(2 * at + 1 <= Sifted)
  BY <1>3, <1>4, <1>6 DEF EarlierChild
<1>7. QED
  BY <1>5, <1>6

\* Where down never moved, only the order with the parent is open.
LEMMA TurnOrder ==
    ASSUME HeapTypeOK, Places, Ordered, ~Sinks, Turn
    PROVE  Ordered'
<1>1. /\ Sifted \in Int /\ Sifted <= Len(pq) /\ Len(pq) \in Nat /\ at \in 1..Len(pq)
      /\ pc = "down" /\ pc' = "up" /\ at = from /\ at' = at
      /\ times' = times /\ Sifted' = Sifted
  BY SiftedType DEF Turn, Still, maps, Places, Sifted, times, Time
<1>2. OrderedBut(times, Sifted, Children(at) \cup {at}) /\ Grandparent(times, Sifted, at)
  BY <1>1 DEF Ordered
<1>3. \A m \in Children(at) : m <= Sifted => times[at] <= times[m]
  BY <1>1, NoSink
<1>4. OrderedBut(times, Sifted, {at})
  BY <1>1, <1>2, <1>3, Positions DEF OrderedBut
<1>5. QED
  BY <1>1, <1>2, <1>4 DEF Ordered, OrderedBut, Grandparent, Children

\* Where a sift is over, the order is whole.
LEMMA SettleOrder ==
    ASSUME HeapTypeOK, Places, Ordered, Settle,
           \/ pc = "down" /\ ~Sinks /\ at # from
           \/ pc = "up" /\ ~Rises
    PROVE  Ordered'
<1>1. /\ Sifted \in Int /\ Sifted <= Len(pq) /\ Len(pq) \in Nat /\ at \in 1..Len(pq)
      /\ times' = times /\ Len(pq') = Len(pq)
      /\ \/ op = "AddOrRenew" /\ pc' = "idle" /\ Sifted = Len(pq)
         \/ pc' = "cut" /\ Sifted = Len(pq) - 1
  BY SiftedType DEF Settle, EndSift, Return, Still, maps, Places, Sifted, times, Time
<1>2. OrderedBut(times, Sifted, {})
  <2>1. CASE pc = "down" /\ ~Sinks /\ at # from
    <3>1. OrderedBut(times, Sifted, Children(at))
      BY <2>1 DEF Ordered
    <3>2. \A m \in Children(at) : m <= Sifted => times[at] <= times[m]
      BY <1>1, <2>1, NoSink
    <3>3. QED
      BY <1>1, <3>1, <3>2, Positions DEF OrderedBut
  <2>2. CASE pc = "up" /\ ~Rises
    <3>1. OrderedBut(times, Sifted, {at})
      BY <2>2 DEF Ordered
    <3>2. at \in 2..Sifted => times[at \div 2] <= times[at]
      BY <1>1, <2>2, Times, Parents DEF Rises, Less
    <3>3. QED
      BY <3>1, <3>2 DEF OrderedBut
  <2>3. QED
    BY <2>1, <2>2
<1>3. QED
  BY <1>1, <1>2 DEF Ordered, OrderedBut

\* The steps that leave the heap and the times alone.
LEMMA UnmovedOrder ==
    ASSUME HeapTypeOK, Ordered, UNCHANGED <<pq, expireAt>>,
           pc \in {"idle", "loop"} /\ pc' \in {"idle", "loop"}
    PROVE  Ordered'
<1>1. times' = times /\ Len(pq') = Len(pq)
  BY DEF times, Time
<1>2. OrderedBut(times', Len(pq'), {})
  BY <1>1 DEF Ordered
<1>3. QED
  BY <1>2 DEF Ordered

\* The entry appended is the only one that may be out of order.
LEMMA AddOrder ==
    ASSUME Shape, Ordered, NEW a \in Entries, NEW ttl \in TTLs, op = "none", Add(a, ttl)
    PROVE  Ordered'
<1> USE DEF Shape
<1>1. /\ Len(pq') = Len(pq) + 1 /\ \A k \in 1..Len(pq) : pq'[k] = pq[k]
      /\ a \notin InHeap /\ Len(pq) \in Nat
  BY AddFacts, SiftedType DEF Quiet
<1>2. /\ op' = "AddOrRenew" /\ pc' = "up" /\ at' = Len(pq) + 1
      /\ expireAt' = [expireAt EXCEPT ![a] = clock + ttl]
  BY DEF Add, StartSift, NewIndex
<1>3. Sifted' = Len(pq) + 1
  BY <1>1, <1>2 DEF Sifted
<1>4. \A k \in 1..Len(pq) : times'[k] = times[k]
  <2>1. ASSUME NEW k \in 1..Len(pq) PROVE pq[k] # a /\ pq[k] \in Entries
    BY <1>1, Times DEF Pointers, InHeap, NoIndex
  <2>2. \A k \in 1..Len(pq) : expireAt'[pq'[k]] = expireAt[pq[k]]
    BY <1>1, <1>2, <2>1 DEF HeapTypeOK
  <2>3. QED
    BY <1>1, <2>2 DEF times, Time
<1>5. OrderedBut(times, Len(pq), {})
  BY DEF Ordered, Places
<1>6. OrderedBut(times', Len(pq) + 1, {Len(pq) + 1})
  <2>1. ASSUME NEW m \in 2..Len(pq) PROVE times'[m \div 2] <= times'[m]
    <3>1. m \div 2 \in 1..Len(pq) /\ m \in 1..Len(pq) /\ times[m \div 2] <= times[m]
      BY <1>1, <1>5, Parents DEF OrderedBut
    <3>2. QED
      BY <1>4, <3>1
  <2>2. QED
    BY <1>1, <2>1 DEF OrderedBut
<1>7. Grandparent(times', Len(pq) + 1, Len(pq) + 1)
  BY <1>1 DEF Grandparent, Children
<1>8. QED
  BY <1>2, <1>3, <1>6, <1>7 DEF Ordered

\* A renewal only puts the time of its entry later.
LEMMA RenewOrder ==
    ASSUME Shape, Ordered, NEW a \in Entries, NEW ttl \in TTLs, op = "none", Renew(a, ttl)
    PROVE  Ordered'
<1> USE DEF Shape
<1>1. /\ pc = "idle" /\ pq' = pq /\ index' = index
  BY DEF Places, Renew
<1>2. CASE UNCHANGED <<expireAt, op, pc, from, at>>
  BY <1>1, <1>2, UnmovedOrder
<1>3. CASE clock + ttl > expireAt[a] /\ SetAndFix(a, ttl)
  <2> DEFINE i == index[a]
  <2>1. i \in 1..Len(pq) /\ pq[i] = a
    <3>1. a \in Present /\ gone = {}
      BY HeapAssumption DEF Renew, Present, Quiet
    <3>2. QED
      BY <3>1 DEF Contents, InHeap, Pointers
  <2>2. /\ op' = "AddOrRenew" /\ pc' = "down" /\ at' = i /\ from' = i
        /\ expireAt' = [expireAt EXCEPT ![a] = clock + ttl]
    BY <1>3 DEF SetAndFix, StartSift
  <2>3. Sifted' = Len(pq) /\ Len(pq) \in Nat
    BY <1>1, <2>2, Times DEF Sifted
  <2>4. /\ times[i] <= times'[i]
        /\ \A k \in 1..Len(pq) : k # i => times'[k] = times[k]
    <3>1. \A k \in 1..Len(pq) : times'[k] = expireAt'[pq[k]] /\ times[k] = expireAt[pq[k]]
      BY <1>1 DEF times, Time
    <3>2. \A k \in 1..Len(pq) : k # i => pq[k] # a
      BY <2>1 DEF Pointers
    <3>3. ttl \in Nat /\ clock \in Nat /\ expireAt[a] \in Nat
      BY HeapAssumption DEF HeapTypeOK
    <3>4. /\ expireAt'[a] = clock + ttl
          /\ \A k \in 1..Len(pq) : pq[k] # a => expireAt'[pq[k]] = expireAt[pq[k]]
      BY <2>2, Times DEF HeapTypeOK
    <3>5. times[i] <= times'[i]
      BY <1>3, <2>1, <3>1, <3>3, <3>4
    <3>6. QED
      BY <3>1, <3>2, <3>4, <3>5
  <2> HIDE DEF i
  <2>5. OrderedBut(times, Len(pq), {}) /\ \A k \in 1..Len(pq) : times[k] \in Nat
    BY <1>1, Times DEF Ordered
  <2>6. OrderedBut(times', Len(pq), Children(i) \cup {i})
    <3>1. ASSUME NEW m \in 2..Len(pq), m \notin Children(i) \cup {i}
          PROVE  times'[m \div 2] <= times'[m]
      <4>1. m \div 2 \in 1..Len(pq) /\ m \div 2 # i /\ m # i /\ m \in 1..Len(pq)
        BY <2>1, <2>3, <3>1, Parents, Positions
      <4>2. QED
        BY <2>4, <2>5, <4>1 DEF OrderedBut
    <3>2. QED
      BY <3>1 DEF OrderedBut
  <2>7. Grandparent(times', Len(pq), i)
    <3>1. ASSUME i > 1, NEW m \in Children(i), m <= Len(pq)
          PROVE  times'[i \div 2] <= times'[m]
      <4>1. /\ m \in 2..Len(pq) /\ m \div 2 = i /\ m # i /\ i \in 2..Len(pq)
            /\ i \div 2 \in 1..Len(pq) /\ i \div 2 # i
        BY <2>1, <2>3, <3>1, Parents, Positions DEF Children
      <4>2. times[i \div 2] <= times[i] /\ times[i] <= times[m]
        BY <2>5, <4>1 DEF OrderedBut
      <4>3. times[i \div 2] \in Nat /\ times[i] \in Nat /\ times[m] \in Nat
        BY <2>1, <2>5, <4>1
      <4>4. QED
        BY <2>4, <4>1, <4>2, <4>3
    <3>2. QED
      BY <3>1 DEF Grandparent
  <2>8. QED
    BY <2>2, <2>3, <2>6, <2>7 DEF Ordered
<1>4. QED
  BY <1>2, <1>3 DEF Renew, Extend

\* A removal: position i is given what was at the last one, which the sift leaves alone.
LEMMA Vacating ==
    ASSUME NEW n \in Nat, NEW x, NEW y, NEW i \in 1..n, \A k \in 1..n : x[k] \in Nat,
           \A k \in 1..n : k # i /\ k # n => y[k] = x[k], OrderedBut(x, n, {})
    PROVE  OrderedBut(y, n - 1, Children(i) \cup {i}) /\ Grandparent(y, n - 1, i)
<1>1. ASSUME NEW m \in 2..(n - 1), m \notin Children(i) \cup {i} PROVE y[m \div 2] <= y[m]
  <2>1. m \div 2 \in 1..n /\ m \div 2 # i /\ m \div 2 # n /\ m \in 2..n /\ m # i /\ m # n
    BY <1>1, Parents, Positions
  <2>2. QED
    BY <2>1 DEF OrderedBut
<1>2. ASSUME i > 1, NEW m \in Children(i), m <= n - 1 PROVE y[i \div 2] <= y[m]
  <2>1. /\ m \in 2..n /\ m \div 2 = i /\ m # i /\ m # n /\ i \in 2..n
        /\ i \div 2 \in 1..n /\ i \div 2 # i /\ i \div 2 # n
    BY <1>2, Parents, Positions DEF Children
  <2>2. x[i \div 2] <= x[i] /\ x[i] <= x[m]
    BY <2>1 DEF OrderedBut
  <2>3. x[i \div 2] \in Nat /\ x[i] \in Nat /\ x[m] \in Nat
    BY <2>1
  <2>4. QED
    BY <2>1, <2>2, <2>3
<1>3. QED
  BY <1>1, <1>2 DEF OrderedBut, Grandparent

\* After heap.Pop only the new top may be out of order.
LEMMA PopOrder ==
    ASSUME Shape, Ordered, Pop
    PROVE  Ordered'
<1> USE DEF Shape
<1>1. /\ Len(pq) \in Nat /\ 1 \in 1..Len(pq) /\ Len(pq) \in 1..Len(pq) /\ pc = "loop"
      /\ Swap(1, Len(pq)) /\ expireAt' = expireAt /\ op' = "PopExpired"
      /\ pc' = "down" /\ at' = 1 /\ from' = 1
  BY DEF Pop, Due, HeapTypeOK, StartSift, maps
<1>2. Sifted' = Len(pq) - 1
  BY <1>1, Swaps DEF Sifted
<1>3. \A k \in 1..Len(pq) : k # 1 /\ k # Len(pq) => times'[k] = times[k]
  BY <1>1, SwapTimes
<1>4. OrderedBut(times, Len(pq), {}) /\ \A k \in 1..Len(pq) : times[k] \in Nat
  BY <1>1, Times DEF Ordered
<1>5. OrderedBut(times', Len(pq) - 1, Children(1) \cup {1}) /\ Grandparent(times', Len(pq) - 1, 1)
  BY <1>1, <1>3, <1>4, Vacating
<1>6. QED
  BY <1>1, <1>2, <1>5 DEF Ordered

\* After heap.Remove only the entry put in the place may be out of order.
LEMMA HeapRemoveOrder ==
    ASSUME Shape, Ordered, NEW a \in Entries, HeapRemove(a)
    PROVE  Ordered'
<1> USE DEF Shape
<1> DEFINE i == index[a]
<1>1. /\ pc = "loop" /\ op \in Removes /\ Len(pq) \in Nat /\ expireAt' = expireAt /\ op' = op
  BY DEF HeapRemove, Quiet, HeapTypeOK, maps
<1>2. i \in 1..Len(pq) /\ Len(pq) \in 1..Len(pq)
  <2>1. a \in Present \ gone
    BY <1>1 DEF HeapRemove, Removals
  <2>2. QED
    BY <1>1, <2>1 DEF Contents, InHeap, Pointers
<1>3. OrderedBut(times, Len(pq), {}) /\ \A k \in 1..Len(pq) : times[k] \in Nat
  BY <1>1, Times DEF Ordered
<1>4. CASE i = Len(pq)
  <2>1. pc' = "cut" /\ times' = times /\ Len(pq') = Len(pq)
    BY <1>1, <1>4 DEF HeapRemove, times, Time
  <2>2. OrderedBut(times', Len(pq) - 1, {})
    BY <1>1, <1>3, <2>1 DEF OrderedBut
  <2>3. QED
    BY <2>1, <2>2 DEF Ordered
<1>5. CASE i # Len(pq)
  <2>1. Swap(i, Len(pq)) /\ pc' = "down" /\ at' = i /\ from' = i
    BY <1>5 DEF HeapRemove, StartSift
  <2> HIDE DEF i
  <2>2. Sifted' = Len(pq) - 1
    BY <1>1, <1>2, <2>1, Swaps DEF Sifted, Removes
  <2>3. \A k \in 1..Len(pq) : k # i /\ k # Len(pq) => times'[k] = times[k]
    BY <1>1, <1>2, <2>1, SwapTimes
  <2>4. /\ OrderedBut(times', Len(pq) - 1, Children(i) \cup {i})
        /\ Grandparent(times', Len(pq) - 1, i)
    BY <1>1, <1>2, <1>3, <2>3, Vacating
  <2>5. QED
    BY <2>1, <2>2, <2>4 DEF Ordered
<1>6. QED
  BY <1>4, <1>5

\* The order of the rest stands when the last position goes.
LEMMA CutOrder ==
    ASSUME Shape, Ordered, Cut
    PROVE  Ordered'
<1> USE DEF Shape
<1> DEFINE v == pq[Len(pq)]
<1>1. /\ Len(pq) > 0 /\ v \in Entries /\ Last(pq) = v /\ Len(pq') = Len(pq) - 1
      /\ \A k \in 1..Len(pq') : pq'[k] = pq[k]
      /\ pc = "cut" /\ pc' = "loop" /\ Len(pq) \in Nat
  BY CutFacts, SiftedType DEF Places, Cut
<1>2. ASSUME NEW k \in 1..Len(pq') PROVE times'[k] = times[k]
  <2>1. pq[k] \in Entries /\ pq[k] # v
    BY <1>1, Times DEF Pointers
  <2>2. expireAt'[pq[k]] = expireAt[pq[k]]
    BY <1>1, <2>1 DEF Cut, Unmap, maps
  <2>3. QED
    BY <1>1, <2>2 DEF times, Time
<1>3. OrderedBut(times, Len(pq) - 1, {})
  BY <1>1 DEF Ordered
<1>4. OrderedBut(times', Len(pq'), {})
  <2>1. ASSUME NEW m \in 2..Len(pq') PROVE times'[m \div 2] <= times'[m]
    <3>1. m \div 2 \in 1..Len(pq') /\ m \in 1..Len(pq')
      BY <1>1, Parents
    <3>2. QED
      BY <1>1, <1>2, <1>3, <3>1 DEF OrderedBut
  <2>2. QED
    BY <2>1 DEF OrderedBut
<1>5. QED
  BY <1>1, <1>4 DEF Ordered

\* Entries that are out of the heap take no part in its order.
LEMMA RemoveReturnOrder ==
    ASSUME Shape, Ordered, RemoveReturn
    PROVE  Ordered'
<1> USE DEF Shape
<1>1. /\ pc = "loop" /\ pc' = "idle" /\ pq' = pq /\ Len(pq) \in Nat
      /\ expireAt' = [b \in Entries |-> IF b \in gone THEN 0 ELSE expireAt[b]]
  BY SiftedType DEF RemoveReturn, Return, Unmap
<1>2. ASSUME NEW k \in 1..Len(pq) PROVE expireAt'[pq[k]] = expireAt[pq[k]]
  <2>1. pq[k] \in InHeap
    BY Times DEF InHeap, Pointers, NoIndex
  <2>2. pq[k] \in Entries /\ pq[k] \notin gone
    BY <2>1 DEF Contents, InHeap
  <2>3. QED
    BY <1>1, <2>2
<1>3. times' = times
  BY <1>1, <1>2 DEF times, Time
<1>4. OrderedBut(times', Len(pq'), {})
  BY <1>1, <1>3 DEF Ordered
<1>5. QED
  BY <1>1, <1>4 DEF Ordered

\* Nor does the clock.
LEMMA ElapseOrder ==
    ASSUME Ordered, UNCHANGED <<expireAt, pq, op, pc, from, at>>
    PROVE  Ordered'
<1>1. times' = times /\ Sifted' = Sifted
  BY DEF times, Time, Sifted
<1>2. QED
  BY <1>1 DEF Ordered

-----------------------------------------------------------------------------
(***************************************************************************)
(* The invariant                                                           *)
(***************************************************************************)
LEMMA HeapInitInv == HeapInit => HeapInv
<1> SUFFICES ASSUME HeapInit PROVE HeapInv
  OBVIOUS
<1> USE DEF HeapInit
<1>1. HeapTypeOK
  BY HeapAssumption DEF HeapTypeOK
<1>2. Present = {} /\ InHeap = {} /\ Len(pq) = 0
  BY DEF Present, InHeap
<1>3. Places /\ Pointers /\ Contents
  BY <1>2 DEF Places, Pointers, Contents
<1>4. Ordered
  BY <1>2 DEF Ordered, OrderedBut
<1>5. Removals /\ Collects /\ Quiet
  BY DEF Removals, Collects, Quiet, Removes
<1>6. MetricsConserved
  BY <1>2 DEF MetricsConserved
<1>7. QED
  BY <1>1, <1>3, <1>4, <1>5, <1>6 DEF HeapInv

\* HeapInv is kept by every step.
LEMMA HeapStepInv == HeapInv /\ [HeapNext]_heapVars => HeapInv'
<1> SUFFICES ASSUME HeapInv, [HeapNext]_heapVars PROVE Shape' /\ Ordered'
  BY DEF HeapInv, Shape
<1> Shape /\ Ordered
  BY DEF HeapInv, Shape
<1>0. HeapTypeOK /\ Places
  BY DEF Shape
<1>1. ASSUME NEW a \in Entries, NEW ttl \in TTLs, AddOrRenew(a, ttl) PROVE Shape' /\ Ordered'
  <2>1. op = "none" /\ (Renew(a, ttl) \/ Add(a, ttl))
    BY <1>1 DEF AddOrRenew
  <2>2. QED
    BY <2>1, AddShape, AddOrder, RenewShape, RenewOrder
<1>2. ASSUME NEW method \in {"PopExpired"} \cup Removes, Begin(method), Shape'
      PROVE  Ordered'
  <2>1. UNCHANGED <<pq, expireAt>> /\ pc = "idle" /\ pc' = "loop"
    BY <1>0, <1>2 DEF Begin, maps, Places
  <2>2. QED
    BY <1>0, <2>1, UnmovedOrder
<1>3. ASSUME NEW t \in 0..clock, PopExpired(t) PROVE Shape' /\ Ordered'
  <2>1. Begin("PopExpired") /\ now' \in 0..clock /\ todo' = todo
    BY <1>3 DEF PopExpired
  <2>2. QED
    BY <1>2, <2>1, BeginShape
<1>4. ASSUME NEW a \in Entries, Delete(a) PROVE Shape' /\ Ordered'
  <2>1. Begin("Delete") /\ now' = now /\ a \in tables[TableOf[a]] /\ todo' = {a}
    BY <1>4 DEF Delete
  <2>2. QED
    BY <1>2, <2>1, BeginShape DEF Removes
<1>5. ASSUME NEW t \in Tables, Flush(t) PROVE Shape' /\ Ordered'
  <2>1. Begin("Flush") /\ now' = now /\ todo' = tables[t]
    BY <1>5 DEF Flush
  <2>2. QED
    BY <1>2, <2>1, BeginShape DEF Removes
<1>6. ASSUME NEW a \in Entries, HeapRemove(a) PROVE Shape' /\ Ordered'
  BY <1>6, HeapRemoveShape, HeapRemoveOrder
<1>7. CASE Pop
  BY <1>7, PopShape, PopOrder
<1>8. CASE PopReturn
  <2>1. UNCHANGED <<pq, expireAt>> /\ pc = "loop" /\ pc' = "idle"
    BY <1>8 DEF PopReturn, Return, maps
  <2>2. QED
    BY <1>0, <1>8, <2>1, PopReturnShape, UnmovedOrder
<1>9. CASE RemoveReturn
  BY <1>9, RemoveReturnShape, RemoveReturnOrder
<1>10. CASE Down
  <2>1. CASE Sinks /\ MoveTo(EarlierChild(at))
    <3>1. pc = "down"
      BY <1>10 DEF Down
    <3>2. QED
      BY <1>0, <2>1, <3>1, MoveShape, SinkOrder
  <2>2. CASE ~Sinks /\ Turn
    BY <1>0, <2>2, TurnShape, TurnOrder
  <2>3. CASE ~Sinks /\ at # from /\ Settle
    <3>1. pc = "down"
      BY <1>10 DEF Down
    <3>2. QED
      BY <1>0, <2>3, <3>1, SettleShape, SettleOrder
  <2>4. QED
    BY <1>0, <1>10, <2>1, <2>2, <2>3, DownForms
<1>11. CASE Up
  <2>1. CASE Rises /\ MoveTo(at \div 2)
    <3>1. pc = "up"
      BY <1>11 DEF Up
    <3>2. QED
      BY <1>0, <2>1, <3>1, MoveShape, RiseOrder
  <2>2. CASE ~Rises /\ Settle
    <3>1. pc = "up"
      BY <1>11 DEF Up
    <3>2. QED
      BY <1>0, <2>2, <3>1, SettleShape, SettleOrder
  <2>3. QED
    BY <1>0, <1>11, <2>1, <2>2, UpForms
<1>12. CASE Cut
  BY <1>12, CutShape, CutOrder
<1>13. CASE Elapse \/ UNCHANGED heapVars
  <2>1. /\ UNCHANGED <<maps, pq, index, op, pc, from, at, args, totals>>
        /\ clock' \in clock..MaxTime
    BY <1>0, <1>13, HeapAssumption DEF Elapse, heapVars, HeapTypeOK
  <2>2. UNCHANGED <<expireAt, pq, op, pc, from, at>>
    BY <2>1 DEF maps
  <2>3. QED
    BY <2>1, <2>2, ElapseShape, ElapseOrder
<1>14. QED
  BY <1>1, <1>3, <1>4, <1>5, <1>6, <1>7, <1>8, <1>9, <1>10, <1>11, <1>12, <1>13 DEF HeapNext

\* HeapInv: the heap is in order but for the one place where a method works on it.
THEOREM HeapInvariant == HeapSpec => []HeapInv
<1>1. HeapInit => HeapInv
  BY HeapInitInv
<1>2. HeapInv /\ [HeapNext]_heapVars => HeapInv'
  BY HeapStepInv
<1>3. QED
  BY <1>1, <1>2, PTL DEF HeapSpec

-----------------------------------------------------------------------------
(***************************************************************************)
(* The heap and the maps, the counters, and what is taken                  *)
(***************************************************************************)
\* The heap has as many positions as there are entries in it.
LEMMA HeapSize ==
    ASSUME HeapTypeOK, Pointers
    PROVE  Len(pq) = Cardinality(InHeap)
<1> DEFINE f == [k \in 1..Len(pq) |-> pq[k]]
<1>1. Len(pq) \in Nat
  BY Times
<1>2. f \in [1..Len(pq) -> InHeap]
  BY Times DEF Pointers, InHeap, NoIndex
<1>3. \A k, l \in 1..Len(pq) : f[k] = f[l] => k = l
  BY DEF Pointers
<1>4. \A a \in InHeap : \E k \in 1..Len(pq) : f[k] = a
  BY DEF Pointers, InHeap
<1> HIDE DEF f
<1>5. ExistsBijection(1..Len(pq), InHeap)
  <2>1. f \in Injection(1..Len(pq), InHeap)
    BY <1>2, <1>3 DEF Injection, IsInjective
  <2>2. f \in Surjection(1..Len(pq), InHeap)
    BY <1>2, <1>4 DEF Surjection
  <2>3. QED
    BY <2>1, <2>2 DEF ExistsBijection, Bijection
<1>6. QED
  BY <1>1, <1>5, FS_CountingElements

\* With the mutex free HeapInv says HeapConsistent.
LEMMA ConsistentHeap == HeapInv => HeapConsistent
<1> SUFFICES ASSUME HeapInv PROVE HeapConsistent
  OBVIOUS
<1>1. HeapTypeOK /\ Places /\ Pointers /\ Contents /\ Ordered /\ Quiet
  BY DEF HeapInv
<1> SUFFICES ASSUME op = "none"
             PROVE  /\ Len(pq) = Cardinality(Present)
                    /\ \A a \in Entries :
                         IF a \in Present THEN index[a] \in 1..Len(pq) /\ pq[index[a]] = a
                                          ELSE index[a] = NoIndex
                    /\ \A i \in 2..Len(pq) : ~Less(i, i \div 2)
  BY <1>1 DEF HeapConsistent
<1>2. InHeap = Present
  BY <1>1 DEF Contents, Quiet
<1>3. Len(pq) = Cardinality(Present)
  BY <1>1, <1>2, HeapSize
<1>4. ASSUME NEW a \in Entries
      PROVE  IF a \in Present THEN index[a] \in 1..Len(pq) /\ pq[index[a]] = a
                              ELSE index[a] = NoIndex
  BY <1>1, <1>2 DEF InHeap, Pointers
<1>5. ASSUME NEW i \in 2..Len(pq) PROVE ~Less(i, i \div 2)
  <2>1. i \in 1..Len(pq) /\ i \div 2 \in 1..Len(pq)
    BY <1>1, Times, Parents
  <2>2. times[i \div 2] <= times[i]
    BY <1>1 DEF Places, Ordered, OrderedBut
  <2>3. /\ times[i] = Time(i) /\ times[i] \in Nat
        /\ times[i \div 2] = Time(i \div 2) /\ times[i \div 2] \in Nat
    BY <1>1, <2>1, Times
  <2>4. QED
    BY <2>2, <2>3 DEF Less
<1>6. QED
  BY <1>3, <1>4, <1>5

\* HeapConsistent: whenever the mutex is free, the heap holds exactly the entries of the
\* maps, each once and where its back pointer says, in heap order.
THEOREM HeapStaysConsistent == HeapSpec => []HeapConsistent
BY HeapInvariant, ConsistentHeap, PTL

\* MetricsConserved: no entry is lost to the counters, in the middle of a method either.
THEOREM MetricsStayConserved == HeapSpec => []MetricsConserved
<1>1. HeapInv => MetricsConserved
  BY DEF HeapInv
<1>2. QED
  BY <1>1, HeapInvariant, PTL

\* Only Cut counts an expiry.
LEMMA ExpiryIsCut ==
    ASSUME HeapTypeOK, Places, [HeapNext]_heapVars, totalExpired' > totalExpired
    PROVE  Cut /\ op = "PopExpired"
<1>1. totalExpired \in Nat /\ totalExpired' # totalExpired
  BY DEF HeapTypeOK
<1>2. Cut
  BY <1>1 DEF HeapNext, heapVars, totals, AddOrRenew, Renew, Add, Begin, PopExpired, Delete,
              Flush, Pop, PopReturn, HeapRemove, RemoveReturn, Down, Up, Elapse
<1>3. op = "PopExpired"
  BY <1>1, <1>2 DEF Cut
<1>4. QED
  BY <1>2, <1>3

\* Only a cut of PopExpired counts as expired, and it takes what Collects says.
LEMMA OldestStep ==
    ASSUME HeapInv, [HeapNext]_heapVars, totalExpired' > totalExpired,
           NEW a \in Present \ Present', NEW b \in Present'
    PROVE  expireAt[a] <= expireAt[b]
<1>1. HeapTypeOK /\ Places /\ Pointers /\ Contents /\ Collects
  BY DEF HeapInv
<1>2. Cut /\ op = "PopExpired"
  BY <1>1, ExpiryIsCut
<1>3. /\ Last(pq) = pq[Len(pq)] /\ Len(pq) > 0 /\ pc = "cut"
  BY <1>1, <1>2, CutFacts DEF Places, Cut
<1>4. tables' = [t \in Tables |-> tables[t] \ {pq[Len(pq)]}]
  BY <1>2, <1>3 DEF Cut, Unmap
<1>5. Present' = Present \ {pq[Len(pq)]}
  BY <1>4 DEF Present
<1>6. a = pq[Len(pq)] /\ b \in Present
  BY <1>5
<1>7. b \in InHeap
  BY <1>1, <1>2, <1>6 DEF Contents, Collects
<1>8. PICK k \in 1..Len(pq) : pq[k] = b
  BY <1>1, <1>7 DEF InHeap, Pointers
<1>9. Time(Len(pq)) <= Time(k)
  BY <1>1, <1>2, <1>3 DEF Collects
<1>10. QED
  BY <1>6, <1>8, <1>9 DEF Time

\* OldestFirst: what a collection takes is no younger than anything it leaves, however
\* large the backlog and whatever was added, renewed or removed before.
THEOREM OldestLeavesFirst == HeapSpec => OldestFirst
<1>1. HeapInv /\ [HeapNext]_heapVars =>
        [totalExpired' > totalExpired =>
           \A a \in Present \ Present', b \in Present' : expireAt[a] <= expireAt[b]]_heapVars
  BY OldestStep
<1>2. QED
  BY <1>1, HeapInvariant, PTL DEF HeapSpec, OldestFirst

-----------------------------------------------------------------------------
(***************************************************************************)
(* The heap implements the abstract tracker.                               *)
(***************************************************************************)
remaining == [a \in Entries |-> LeftOf(a)]

\* What an entry has left, case by case.
LEMMA Remains ==
    ASSUME HeapTypeOK, NEW a \in Entries
    PROVE  /\ remaining[a] = LeftOf(a)
           /\ LeftOf(a) \in Nat \cup {-1}
           /\ LeftOf(a) = -1 <=> a \notin Held
           /\ LeftOf(a) = 0 <=> a \in Held /\ expireAt[a] <= clock
           /\ a \in Held /\ expireAt[a] > clock => LeftOf(a) = expireAt[a] - clock
BY DEF HeapTypeOK, LeftOf, remaining

\* A step after which the same entries are held, with the time they had, changes nothing.
LEMMA SameLeft ==
    ASSUME HeapTypeOK, HeapTypeOK', clock' = clock, Held' = Held,
           \A a \in Held : \/ expireAt'[a] = expireAt[a]
                           \/ expireAt[a] <= clock /\ expireAt'[a] <= clock
    PROVE  remaining' = remaining
<1>1. ASSUME NEW a \in Entries PROVE LeftOf(a)' = LeftOf(a)
  <2>1. CASE a \notin Held
    BY <2>1 DEF LeftOf
  <2>2. CASE a \in Held /\ expireAt'[a] = expireAt[a]
    BY <2>2 DEF LeftOf
  <2>3. CASE a \in Held /\ expireAt[a] <= clock /\ expireAt'[a] <= clock
    <3>1. ~(expireAt[a] > clock) /\ ~(expireAt'[a] > clock)
      BY <2>3 DEF HeapTypeOK
    <3>2. QED
      BY <2>3, <3>1 DEF LeftOf
  <2>4. QED
    BY <2>1, <2>2, <2>3
<1>2. QED
  BY <1>1 DEF remaining

\* AddOrRenew has its effect at once.
LEMMA AddOrRenewImplements ==
    ASSUME HeapInv, HeapTypeOK', NEW a \in Entries, NEW ttl \in TTLs, AddOrRenew(a, ttl)
    PROVE  Abstract!AddOrRenew(a, ttl)
<1>1. /\ HeapTypeOK /\ gone = {} /\ op = "none" /\ Held = Present /\ ttl \in Nat
      /\ Renew(a, ttl) \/ Add(a, ttl)
  BY HeapAssumption DEF HeapInv, Quiet, AddOrRenew, Held
<1>2. /\ op' # "PopExpired" /\ Held' = Present' /\ clock' = clock /\ TableOf[a] \in Tables
      /\ expireAt[a] \in Nat /\ clock \in Nat /\ clock + ttl \in Nat
  BY <1>1, HeapAssumption
     DEF Renew, Add, Extend, SetAndFix, Held, HeapTypeOK
<1>3. a \in Present => a \in tables[TableOf[a]]
  BY DEF HeapInv, Contents, Present
<1>4. CASE Add(a, ttl)
  <2>1. /\ a \notin Present /\ expireAt' = [expireAt EXCEPT ![a] = clock + ttl]
        /\ tables' = [tables EXCEPT ![TableOf[a]] = @ \cup {a}]
    BY <1>3, <1>4 DEF Add
  <2>5. Present' = Present \cup {a}
    <3>1. tables \in [Tables -> SUBSET Entries]
      BY <1>1 DEF HeapTypeOK
    <3>2. QED
      BY <1>2, <2>1, <3>1 DEF Present
  <2>2. LeftOf(a) = -1 /\ LeftOf(a)' = ttl
    BY <1>1, <1>2, <2>1, <2>5 DEF LeftOf, HeapTypeOK
  <2>3. ASSUME NEW b \in Entries, b # a PROVE LeftOf(b)' = LeftOf(b)
    BY <1>1, <1>2, <2>1, <2>3, <2>5 DEF LeftOf, HeapTypeOK
  <2>4. LeftOf(a)' = IF LeftOf(a) < ttl THEN ttl ELSE LeftOf(a)
    BY <1>1, <2>2
  <2>6. QED
    BY <2>3, <2>4 DEF Abstract!AddOrRenew, Abstract!Larger
<1>5. CASE Renew(a, ttl)
  <2>1. /\ a \in Present /\ Present' = Present
        /\ expireAt' = [expireAt EXCEPT ![a] = IF clock + ttl > @ THEN clock + ttl ELSE @]
    <3>1. a \in tables[TableOf[a]] /\ tables' = tables
      BY <1>5 DEF Renew
    <3>2. a \in Present /\ Present' = Present
      BY <1>2, <3>1 DEF Present
    <3>3. expireAt' = [expireAt EXCEPT ![a] = IF clock + ttl > @ THEN clock + ttl ELSE @]
      BY <1>1, <1>5 DEF Renew, Extend, SetAndFix, HeapTypeOK
    <3>4. QED
      BY <3>2, <3>3
  <2>2. LeftOf(a)' = IF LeftOf(a) < ttl THEN ttl ELSE LeftOf(a)
    <3>1. expireAt'[a] = IF clock + ttl > expireAt[a] THEN clock + ttl ELSE expireAt[a]
      BY <1>1, <2>1 DEF HeapTypeOK
    <3>2. /\ LeftOf(a) = IF expireAt[a] > clock THEN expireAt[a] - clock ELSE 0
          /\ LeftOf(a)' = IF expireAt'[a] > clock THEN expireAt'[a] - clock ELSE 0
      BY <1>1, <1>2, <2>1 DEF LeftOf
    <3>3. QED
      BY <1>1, <1>2, <3>1, <3>2
  <2>3. ASSUME NEW b \in Entries, b # a PROVE LeftOf(b)' = LeftOf(b)
    BY <1>1, <1>2, <2>1, <2>3 DEF LeftOf, HeapTypeOK
  <2>4. QED
    BY <2>2, <2>3 DEF Abstract!AddOrRenew, Abstract!Larger
<1>6. QED
  BY <1>1, <1>4, <1>5

\* A cut is no step of the abstract tracker.
LEMMA CutImplements ==
    ASSUME HeapInv, HeapTypeOK', Cut
    PROVE  remaining' = remaining
<1>1. HeapTypeOK /\ Places /\ Pointers /\ Contents /\ Collects
  BY DEF HeapInv
<1> DEFINE v == pq[Len(pq)]
<1>2. /\ Last(pq) = v /\ v \in Entries /\ Len(pq) > 0 /\ Len(pq) \in Nat /\ pc = "cut"
      /\ gone' = gone \cup {v} /\ clock' = clock /\ op' = op
  BY <1>1, CutFacts, Times DEF Places, Cut
<1>3. v \in Present
  BY <1>1, <1>2 DEF Pointers, InHeap, Contents, NoIndex
<1>4. CASE op = "PopExpired"
  <2>1. /\ tables' = [t \in Tables |-> tables[t] \ {v}]
        /\ expireAt' = [a \in Entries |-> IF a \in {v} THEN 0 ELSE expireAt[a]]
    BY <1>2, <1>4 DEF Cut, Unmap
  <2>2. Present' = Present \ {v}
    BY <2>1 DEF Present
  <2>3. Held' = Held
    BY <1>2, <1>3, <1>4, <2>2 DEF Held
  <2>4. Held \subseteq Entries
    BY <1>1 DEF Held, Present, HeapTypeOK
  <2>5. expireAt[v] <= clock
    <3>1. expireAt[v] <= now /\ now <= clock
      BY <1>1, <1>2, <1>4 DEF Collects, Time
    <3>2. expireAt[v] \in Nat /\ now \in Nat /\ clock \in Nat
      BY <1>1, <1>2, HeapAssumption DEF HeapTypeOK
    <3>3. QED
      BY <3>1, <3>2
  <2>6. \A a \in Held : \/ expireAt'[a] = expireAt[a]
                        \/ expireAt[a] <= clock /\ expireAt'[a] <= clock
    BY <1>1, <2>1, <2>4, <2>5, HeapAssumption DEF HeapTypeOK
  <2>7. QED
    BY <1>1, <1>2, <2>3, <2>6, SameLeft
<1>5. CASE op # "PopExpired"
  <2>1. Held' = Held /\ expireAt' = expireAt
    BY <1>2, <1>5 DEF Cut, maps, Held, Present
  <2>2. QED
    BY <1>1, <1>2, <2>1, SameLeft
<1>6. QED
  BY <1>4, <1>5

\* The instance has a Cardinality of its own.
LEMMA SameCardinality == \A S : Abstract!Cardinality(S) = Cardinality(S)
BY Zenon DEF Cardinality, Abstract!Cardinality

\* PopExpired hands over what it has popped when it returns.
LEMMA PopReturnImplements ==
    ASSUME HeapInv, HeapTypeOK', PopReturn
    PROVE  Abstract!PopExpired(gone)
<1>1. /\ HeapTypeOK /\ gone \subseteq Entries /\ op = "PopExpired" /\ clock \in Nat
      /\ Cardinality(gone) <= MaxBatch
      /\ \A a \in gone : a \notin Present /\ expireAt[a] = 0
  BY DEF HeapInv, Collects, PopReturn, HeapTypeOK
<1>2. /\ Held = Present \cup gone /\ Held' = Present /\ clock' = clock /\ expireAt' = expireAt
  BY <1>1 DEF Held, Present, PopReturn, Return, maps
<1>3. \A a \in gone : LeftOf(a) = 0
  BY <1>1, <1>2 DEF LeftOf
<1>4. \A a \in Entries : LeftOf(a)' = IF a \in gone THEN -1 ELSE LeftOf(a)
  BY <1>1, <1>2 DEF LeftOf
<1>5. Abstract!Poppable(gone)
  <2>1. gone \subseteq Abstract!Expired
    BY <1>1, <1>3 DEF Abstract!Expired
  <2>2. Cardinality(gone) <= MaxBatch
    BY <1>1
  <2>3. QED
    BY <2>1, <2>2, SameCardinality DEF Abstract!Poppable
<1>6. Abstract!Drop(gone)
  BY <1>4 DEF Abstract!Drop, Abstract!Untracked
<1>7. QED
  BY <1>5, <1>6 DEF Abstract!PopExpired

\* Delete and Flush clear the maps when they return.
LEMMA RemoveReturnImplements ==
    ASSUME HeapInv, HeapTypeOK', RemoveReturn
    PROVE  (\E a \in Entries : Abstract!Delete(a)) \/ (\E t \in Tables : Abstract!Flush(t))
<1>1. /\ HeapTypeOK /\ Contents /\ op \in Removes /\ todo = {} /\ pc = "loop"
      /\ gone \subseteq Present /\ Present \subseteq Entries
  BY DEF HeapInv, Removals, RemoveReturn, HeapTypeOK, Present
<1>2. Victim = {}
  BY <1>1 DEF Victim, Removing
<1>3. /\ tables' = [t \in Tables |-> tables[t] \ gone] /\ clock' = clock
      /\ expireAt' = [b \in Entries |-> IF b \in gone THEN 0 ELSE expireAt[b]]
      /\ op' = "none"
  BY DEF RemoveReturn, Return, Unmap
<1>4. Held = Present /\ Held' = Present \ gone
  BY <1>1, <1>3 DEF Held, Removes, Present
<1>5. \A b \in Entries : LeftOf(b)' = IF b \in gone THEN -1 ELSE LeftOf(b)
  BY <1>1, <1>3, <1>4 DEF LeftOf
<1>6. CASE op = "Delete"
  <2>1. PICK a \in Entries : gone = {a}
    BY <1>1, <1>2, <1>6 DEF HeapInv, Removals
  <2>2. Abstract!Delete(a)
    BY <1>5, <2>1 DEF Abstract!Delete, Abstract!Untracked
  <2>3. QED
    BY <2>2
<1>7. CASE op = "Flush"
  <2>1. PICK t \in Tables : gone = tables[t]
    BY <1>1, <1>2, <1>7 DEF HeapInv, Removals
  <2>2. \A b \in Entries : b \in Abstract!FlushSet(t) <=> b \in gone
    <3>1. \A b \in Entries : b \in Present /\ TableOf[b] = t <=> b \in tables[t]
      BY <1>1, <2>1 DEF Contents, Present
    <3>2. \A b \in Entries : LeftOf(b) # -1 <=> b \in Present
      BY <1>1, <1>4, Remains
    <3>3. QED
      BY <2>1, <3>1, <3>2 DEF Abstract!FlushSet, Abstract!Tracked, Abstract!Untracked
  <2>3. Abstract!Flush(t)
    BY <1>5, <2>2 DEF Abstract!Flush, Abstract!Drop, Abstract!Untracked
  <2>4. QED
    BY <2>3
<1>8. QED
  BY <1>1, <1>6, <1>7 DEF Removes

\* Time passes for both.
LEMMA ElapseImplements ==
    ASSUME HeapInv, Elapse
    PROVE  Abstract!Elapse
<1>1. HeapTypeOK /\ clock' = clock + 1 /\ expireAt' = expireAt /\ Held' = Held
  BY DEF HeapInv, Elapse, maps, args, Held, Present
<1>2. \A a \in Entries : LeftOf(a)' = IF LeftOf(a) > 0 THEN LeftOf(a) - 1 ELSE LeftOf(a)
  BY <1>1 DEF LeftOf, HeapTypeOK
<1>3. QED
  BY <1>2 DEF Abstract!Elapse

\* The steps of a method between its effect and its end, which the caller does not see.
LEMMA HiddenImplements ==
    ASSUME HeapInv, HeapTypeOK', UNCHANGED <<clock, maps>>,
           \/ op' = op /\ gone' = gone
           \/ /\ op \in {"none", "AddOrRenew"} \cup Removes
              /\ op' \in {"none"} \cup Removes
           \/ op = "none" /\ gone' = gone
    PROVE  remaining' = remaining
<1>1. HeapTypeOK /\ Quiet /\ expireAt' = expireAt /\ Present' = Present
  BY DEF HeapInv, maps, Present
<1>2. Held' = Held
  BY <1>1 DEF Held, Removes, Quiet
<1>3. QED
  BY <1>1, <1>2, SameLeft

\* Each step is one of the abstract tracker or none.
LEMMA HeapStepImplements ==
    ASSUME HeapInv, HeapTypeOK', [HeapNext]_heapVars
    PROVE  Abstract!Next \/ remaining' = remaining
<1>1. HeapTypeOK /\ Places /\ Quiet
  BY DEF HeapInv
<1>2. ASSUME NEW a \in Entries, NEW ttl \in TTLs, AddOrRenew(a, ttl) PROVE Abstract!Next
  BY <1>2, AddOrRenewImplements DEF Abstract!Next
<1>3. ASSUME NEW method, Begin(method) PROVE remaining' = remaining
  <2>1. UNCHANGED <<clock, maps>> /\ op = "none" /\ gone' = gone
    BY <1>3 DEF Begin
  <2>2. QED
    BY <2>1, HiddenImplements
<1>4. ASSUME NEW a \in Entries, HeapRemove(a) PROVE remaining' = remaining
  <2>1. UNCHANGED <<clock, maps>> /\ op' = op /\ gone' = gone
    BY <1>4 DEF HeapRemove
  <2>2. QED
    BY <2>1, HiddenImplements
<1>5. CASE Pop
  <2>1. UNCHANGED <<clock, maps>> /\ op' = op /\ gone' = gone
    BY <1>5 DEF Pop, args
  <2>2. QED
    BY <2>1, HiddenImplements
<1>6. CASE Down \/ Up
  <2>1. /\ UNCHANGED <<clock, maps>>
        /\ \/ op' = op /\ gone' = gone
           \/ op = "AddOrRenew" /\ op' = "none"
    BY <1>6 DEF Down, Up, SiftStep, EndSift, Return, args
  <2>2. QED
    BY <2>1, HiddenImplements
<1>7. CASE Cut
  BY <1>7, CutImplements
<1>8. CASE PopReturn
  <2>1. Abstract!PopExpired(gone) /\ gone \in SUBSET Entries
    BY <1>1, <1>8, PopReturnImplements DEF HeapTypeOK
  <2>2. QED
    BY <2>1 DEF Abstract!Next
<1>9. CASE RemoveReturn
  BY <1>9, RemoveReturnImplements DEF Abstract!Next
<1>10. CASE Elapse
  BY <1>10, ElapseImplements DEF Abstract!Next
<1>11. CASE UNCHANGED heapVars
  <2>1. UNCHANGED <<clock, maps>> /\ op' = op /\ gone' = gone
    BY <1>11 DEF heapVars, args
  <2>2. QED
    BY <2>1, HiddenImplements
<1>12. QED
  BY <1>2, <1>3, <1>4, <1>5, <1>6, <1>7, <1>8, <1>9, <1>10, <1>11
     DEF HeapNext, PopExpired, Delete, Flush

\* ImplementsTracker: whatever the heap does in between, each method has the effect, and
\* the result, that the abstract tracker of the daemon's model promises.
THEOREM HeapImplementsTracker == HeapSpec => ImplementsTracker
<1>1. HeapInit => Abstract!NewTracker
  <2>1. HeapInit => Held = {}
    BY DEF HeapInit, Held, Present
  <2>2. QED
    BY <2>1 DEF HeapInit, LeftOf, Abstract!NewTracker, Abstract!Untracked
<1>2. HeapInv /\ HeapInv' /\ [HeapNext]_heapVars =>
        [Abstract!Next]_[a \in Entries |-> LeftOf(a)]
  BY HeapStepImplements DEF HeapInv, remaining
<1>3. QED
  BY <1>1, <1>2, HeapInvariant, PTL DEF HeapSpec, ImplementsTracker, Abstract!TrackerSpec

===============================================================================
