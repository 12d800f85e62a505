----------------------------- MODULE ListProofs -----------------------------
(***************************************************************************)
(* Proofs about the lists of List.tla, for any number of lists and nodes.  *)
(* WellLinked is inductive for adding and deleting nodes once the pointers *)
(* are typed.  That each list has contents (Rings) is inductive beside it, *)
(* and the contents are unique, so that every operation can be followed on *)
(* sequences; LoopInv says where in the sequence a loop stands.            *)
(*                                                                         *)
(* Facts that hold all along a list are shown by the smallest position at  *)
(* which they would fail (LeastNatural).                                   *)
(***************************************************************************)
EXTENDS List, FiniteSetTheorems, SequenceTheorems, WellFoundedInduction, TLAPS

LinksInv == PointersOK /\ WellLinked

\* Every list has contents.
Rings == \A h \in Heads : \E s \in Seq(Nodes) : Holds(h, s)

\* In the round of a loop over s, position k is the next to be visited: the
\* element there, or that in front of it, is the one that the body keeps, what
\* is due lies ahead, and what has been visited does not.
Stands(s, k) ==
  /\ k \in 1..Len(s) + 1
  /\ IF safe THEN n = Entry(head, s, k)
             ELSE k > 1 /\ pos = Entry(head, s, k - 1)
  /\ \A e \in due : \E i \in k..Len(s) : s[i] = e
  /\ \A i \in k..Len(s) : s[i] \notin visited

LoopInv ==
  phase = "body" => \E s \in Seq(Nodes), k \in Nat : Holds(head, s) /\ Stands(s, k)

ListInv == TypeOK /\ WellLinked /\ Rings /\ LoopInv /\ NoNullWalk /\ WalkComplete

-----------------------------------------------------------------------------
(* The operations on well-linked lists *)

\* The neighbours of a linked element are linked elements.
LEMMA Neighbours ==
  ASSUME LinksInv, NEW e \in Elements, Linked(e)
  PROVE  /\ next[e] \in Elements /\ Linked(next[e]) /\ prev[next[e]] = e
         /\ prev[e] \in Elements /\ Linked(prev[e]) /\ next[prev[e]] = e
<1>1. next[e] \in Elements /\ prev[next[e]] = e
  BY DEF LinksInv, PointersOK, WellLinked, Linked
<1>2. prev[e] \in Elements /\ next[prev[e]] = e
  BY DEF LinksInv, PointersOK, WellLinked, Linked
<1>3. e # NULL
  BY ListAssumption
<1> QED
  BY <1>1, <1>2, <1>3 DEF LinksInv, WellLinked, Linked

\* INIT_LIST_HEAD on an element that is on no list with others keeps the lists
\* well linked and unlinks nothing.
LEMMA InitKeepsLinks ==
  ASSUME LinksInv, NEW x \in Nodes, Free(x), INIT_LIST_HEAD(x)
  PROVE  /\ LinksInv'
         /\ \A e \in Elements : Linked(e) => Linked(e)'
<1>1. x \in Elements /\ NULL \notin Elements
  BY ListAssumption DEF Elements
<1>2. PointersOK'
  BY <1>1 DEF LinksInv, PointersOK, INIT_LIST_HEAD
<1>3. (next[x] = x /\ prev[x] = x) \/ (next[x] = NULL /\ prev[x] = NULL)
  BY <1>1 DEF LinksInv, WellLinked, Free
<1>4. ASSUME NEW e \in Elements
      PROVE  /\ next'[e] = NULL <=> prev'[e] = NULL
             /\ next'[e] # NULL => prev'[next'[e]] = e
             /\ prev'[e] # NULL => next'[prev'[e]] = e
             /\ Linked(e) => next'[e] # NULL
  <2>1. /\ next'[x] = x /\ prev'[x] = x
        /\ \A f \in Elements \ {x} : next'[f] = next[f] /\ prev'[f] = prev[f]
    BY <1>1 DEF LinksInv, PointersOK, INIT_LIST_HEAD
  <2>2. e # x => next[e] # x /\ prev[e] # x
    BY <1>1, <1>3 DEF LinksInv, WellLinked
  <2> QED
    BY <1>1, <2>1, <2>2 DEF LinksInv, PointersOK, WellLinked, Linked
<1>5. WellLinked'
  BY <1>4 DEF WellLinked, LinksInv, Linked, Elements
<1> QED
  BY <1>2, <1>4, <1>5 DEF LinksInv, Linked

\* __list_add between two neighbours keeps the lists well linked, for an empty
\* list too, where both neighbours are the head, and unlinks nothing.
LEMMA AddKeepsLinks ==
  ASSUME LinksInv,
         NEW x \in Nodes, NEW a \in Elements, NEW b \in Elements,
         Free(x), Linked(a), next[a] = b, x # a, x # b,
         __list_add(x, a, b)
  PROVE  /\ LinksInv'
         /\ \A e \in Elements : Linked(e) => Linked(e)'
<1>1. x \in Elements /\ NULL \notin Elements
  BY ListAssumption DEF Elements
<1>2. PointersOK'
  BY <1>1 DEF LinksInv, PointersOK, __list_add
<1>3. /\ next'[x] = b /\ next'[a] = x
      /\ prev'[x] = a /\ prev'[b] = x
      /\ \A e \in Elements \ {x, a} : next'[e] = next[e]
      /\ \A e \in Elements \ {x, b} : prev'[e] = prev[e]
  BY <1>1 DEF LinksInv, PointersOK, __list_add
<1>4. prev[b] = a /\ Linked(b)
  BY Neighbours
<1>5. \A e \in Elements \ {x} : next[e] # x /\ prev[e] # x
  BY <1>1 DEF LinksInv, WellLinked, Free
<1>6. ASSUME NEW e \in Elements
      PROVE  /\ next'[e] = NULL <=> prev'[e] = NULL
             /\ next'[e] # NULL => prev'[next'[e]] = e
             /\ prev'[e] # NULL => next'[prev'[e]] = e
             /\ Linked(e) => next'[e] # NULL
  <2>1. CASE e = x
    BY <1>1, <1>3, <2>1
  <2>2. CASE e # x
    <3>1. e # a => next'[e] = next[e] /\ next[e] # b
      BY <1>1, <1>3, <1>4, <2>2 DEF LinksInv, WellLinked, Linked
    <3>2. e # b => prev'[e] = prev[e] /\ prev[e] # a
      BY <1>1, <1>3, <1>4, <2>2 DEF LinksInv, WellLinked, Linked
    <3>3. next[e] # NULL => next[e] \in Elements /\ prev[next[e]] = e
      BY DEF LinksInv, PointersOK, WellLinked
    <3>4. prev[e] # NULL => prev[e] \in Elements /\ next[prev[e]] = e
      BY DEF LinksInv, PointersOK, WellLinked
    <3>5. next[e] = NULL <=> prev[e] = NULL
      BY DEF LinksInv, WellLinked
    <3>6. next'[e] # NULL => prev'[next'[e]] = e
      BY <1>1, <1>3, <1>5, <2>2, <3>1, <3>3
    <3>7. prev'[e] # NULL => next'[prev'[e]] = e
      BY <1>1, <1>3, <1>5, <2>2, <3>2, <3>4
    <3>8. next'[e] = NULL <=> prev'[e] = NULL
      BY <1>1, <1>3, <1>4, <2>2, <3>1, <3>2, <3>5 DEF Linked
    <3> QED
      BY <1>1, <1>3, <3>1, <3>6, <3>7, <3>8 DEF Linked
  <2> QED
    BY <2>1, <2>2
<1>7. WellLinked'
  BY <1>6 DEF WellLinked, LinksInv, Linked, Elements
<1> QED
  BY <1>2, <1>6, <1>7 DEF LinksInv, Linked

\* list_del of a linked node keeps the lists well linked, also when it is the
\* last node or alone, and unlinks nothing but that node.
LEMMA DeleteKeepsLinks ==
  ASSUME LinksInv, NEW x \in Nodes, Linked(x), list_del(x)
  PROVE  /\ LinksInv'
         /\ \A e \in Elements \ {x} : Linked(e) => Linked(e)'
<1>1. x \in Elements /\ x \notin Heads /\ NULL \notin Elements
  BY ListAssumption DEF Elements
<1> DEFINE p == prev[x]
           q == next[x]
<1>2. /\ p \in Elements /\ next[p] = x
      /\ q \in Elements /\ prev[q] = x
  BY <1>1, Neighbours
<1>3. PointersOK'
  BY <1>1, <1>2 DEF LinksInv, PointersOK, list_del
<1>4. /\ next'[x] = NULL /\ prev'[x] = NULL
      /\ p # x => next'[p] = q
      /\ q # x => prev'[q] = p
      /\ \A e \in Elements \ {x, p} : next'[e] = next[e]
      /\ \A e \in Elements \ {x, q} : prev'[e] = prev[e]
  BY <1>1, <1>2 DEF LinksInv, PointersOK, list_del
<1>5. p = x <=> q = x
  BY <1>1, <1>2 DEF LinksInv, WellLinked
<1>6. ASSUME NEW e \in Elements
      PROVE  /\ next'[e] = NULL <=> prev'[e] = NULL
             /\ next'[e] # NULL => prev'[next'[e]] = e
             /\ prev'[e] # NULL => next'[prev'[e]] = e
             /\ e # x /\ Linked(e) => next'[e] # NULL
  <2>1. CASE e = x
    BY <1>4, <2>1
  <2>2. CASE e # x
    <3>1. next[e] = NULL <=> prev[e] = NULL
      BY DEF LinksInv, WellLinked
    <3>2. next[e] # NULL => next[e] \in Elements /\ prev[next[e]] = e
      BY DEF LinksInv, PointersOK, WellLinked
    <3>3. prev[e] # NULL => prev[e] \in Elements /\ next[prev[e]] = e
      BY DEF LinksInv, PointersOK, WellLinked
    <3>4. e # p => next'[e] = next[e] /\ next[e] # x /\ next[e] # q
      BY <1>1, <1>2, <1>4, <2>2, <3>2
    <3>5. e # q => prev'[e] = prev[e] /\ prev[e] # x /\ prev[e] # p
      BY <1>1, <1>2, <1>4, <2>2, <3>3
    <3>6. e = p => next'[e] = q /\ q # x /\ prev'[q] = e /\ next[e] # NULL
      BY <1>1, <1>2, <1>4, <1>5, <2>2
    <3>7. e = q => prev'[e] = p /\ p # x /\ next'[p] = e /\ prev[e] # NULL
      BY <1>1, <1>2, <1>4, <1>5, <2>2
    <3>8. next'[e] # NULL => prev'[next'[e]] = e
      BY <1>4, <3>2, <3>4, <3>6
    <3>9. prev'[e] # NULL => next'[prev'[e]] = e
      BY <1>4, <3>3, <3>5, <3>7
    <3>10. (next'[e] = NULL <=> next[e] = NULL) /\ (prev'[e] = NULL <=> prev[e] = NULL)
      BY <1>1, <1>2, <3>4, <3>5, <3>6, <3>7
    <3> QED
      BY <3>1, <3>8, <3>9, <3>10 DEF Linked
  <2> QED
    BY <2>1, <2>2
<1>7. WellLinked'
  BY <1>1, <1>6 DEF WellLinked, LinksInv, Linked, Elements
<1> QED
  BY <1>3, <1>6, <1>7 DEF LinksInv, Linked

-----------------------------------------------------------------------------
(* Rings: a head and the nodes that next leads through *)

LEMMA LeastNatural ==
  ASSUME NEW T \in SUBSET Nat, T # {}
  PROVE  \E m \in T : \A k \in T : m <= k
<1> DEFINE R == {p \in Nat \X Nat : p[1] < p[2]}
<1>1. IsWellFoundedOn(R, Nat)
  BY NatLessThanWellFounded DEF OpToRel
<1>2. \A i, j \in Nat : <<i, j>> \in R <=> i < j
  OBVIOUS
<1> HIDE DEF R
<1>3. PICK m \in T : \A k \in T : <<k, m>> \notin R
  BY <1>1, WFMin
<1>4. m \in Nat /\ \A k \in T : k \in Nat
  OBVIOUS
<1>5. \A k \in T : ~(k < m)
  BY <1>2, <1>3, <1>4
<1> QED
  BY <1>4, <1>5

LEMMA EntryFacts ==
  ASSUME NEW h \in Heads, NEW s \in Seq(Nodes)
  PROVE  /\ Len(s) \in Nat /\ DOMAIN s = 1..Len(s)
         /\ \A i \in 1..Len(s) : s[i] \in Nodes /\ s[i] # h /\ Entry(h, s, i) = s[i]
         /\ \A i \in Int : i \notin 1..Len(s) => Entry(h, s, i) = h
         /\ \A i \in Int : Entry(h, s, i) \in Elements /\ Entry(h, s, i) # NULL
<1>1. Len(s) \in Nat /\ DOMAIN s = 1..Len(s) /\ \A i \in 1..Len(s) : s[i] \in Nodes
  BY LenProperties, ElementOfSeq
<1>2. \A e \in Nodes : e # h /\ e \in Elements /\ e # NULL
  BY ListAssumption DEF Elements
<1>3. h \in Elements /\ h # NULL
  BY ListAssumption DEF Elements
<1> QED
  BY <1>1, <1>2, <1>3 DEF Entry

\* Along a ring the two pointers of neighbours agree.
LEMMA RingLinks ==
  ASSUME LinksInv, NEW h \in Heads, NEW s \in Seq(Nodes), Holds(h, s), NEW i \in 0..Len(s)
  PROVE  /\ next[Entry(h, s, i)] = Entry(h, s, i + 1)
         /\ prev[Entry(h, s, i + 1)] = Entry(h, s, i)
         /\ Linked(Entry(h, s, i))
<1>1. i \in Int /\ i + 1 \in Int
  BY EntryFacts
<1>2. /\ Entry(h, s, i) \in Elements
      /\ Entry(h, s, i + 1) \in Elements /\ Entry(h, s, i + 1) # NULL
  BY <1>1, EntryFacts
<1>3. next[Entry(h, s, i)] = Entry(h, s, i + 1)
  BY DEF Holds
<1> QED
  BY <1>2, <1>3 DEF LinksInv, WellLinked, Linked

\* No node is in a ring twice: the first that was would have two in front of it.
LEMMA RingDistinct ==
  ASSUME LinksInv, NEW h \in Heads, NEW s \in Seq(Nodes), Holds(h, s),
         NEW i \in 1..Len(s), NEW j \in 1..Len(s), s[i] = s[j]
  PROVE  i = j
<1> DEFINE Twice == {m \in Nat : \E l \in 1..Len(s) : m \in 1..Len(s) /\ m < l /\ s[m] = s[l]}
<1>1. Len(s) \in Nat
  BY EntryFacts
<1>2. ASSUME Twice # {} PROVE FALSE
  <2>0. Twice \in SUBSET Nat
    OBVIOUS
  <2>1. PICK m \in Twice : \A p \in Twice : m <= p
    <3> HIDE DEF Twice
    <3> QED
      BY <1>2, <2>0, LeastNatural
  <2>2. PICK l \in 1..Len(s) : m \in 1..Len(s) /\ m < l /\ s[m] = s[l]
    OBVIOUS
  <2>3. /\ prev[s[m]] = Entry(h, s, m - 1)
        /\ prev[s[l]] = Entry(h, s, l - 1)
    <3>1. m - 1 \in 0..Len(s) /\ l - 1 \in 0..Len(s) /\ (m - 1) + 1 = m /\ (l - 1) + 1 = l
      BY <1>1, <2>2
    <3>2. Entry(h, s, m) = s[m] /\ Entry(h, s, l) = s[l]
      BY <2>2, EntryFacts
    <3>3. prev[Entry(h, s, (m - 1) + 1)] = Entry(h, s, m - 1)
      BY <3>1, RingLinks
    <3>4. prev[Entry(h, s, (l - 1) + 1)] = Entry(h, s, l - 1)
      BY <3>1, RingLinks
    <3> QED
      BY <3>1, <3>2, <3>3, <3>4
  <2>4. l - 1 \in 1..Len(s) /\ Entry(h, s, l - 1) = s[l - 1] /\ s[l - 1] # h
    BY <1>1, <2>2, EntryFacts
  <2>5. CASE m = 1
    BY <2>2, <2>3, <2>4, <2>5, EntryFacts
  <2>6. CASE m # 1
    <3>1. m - 1 \in 1..Len(s) /\ m - 1 < l - 1 /\ m - 1 \in Nat
      BY <1>1, <2>2, <2>6
    <3>2. s[m - 1] = s[l - 1]
      BY <2>2, <2>3, <2>4, <3>1, EntryFacts
    <3>3. m - 1 \in Twice
      BY <2>4, <3>1, <3>2
    <3> QED
      BY <2>1, <2>2, <3>3
  <2> QED
    BY <2>5, <2>6
<1>3. i \in Nat /\ j \in Nat
  BY <1>1
<1>4. i < j => i \in Twice
  BY <1>3
<1>5. j < i => j \in Twice
  BY <1>3
<1> HIDE DEF Twice
<1> QED
  BY <1>2, <1>3, <1>4, <1>5

LEMMA EntryDistinct ==
  ASSUME LinksInv, NEW h \in Heads, NEW s \in Seq(Nodes), Holds(h, s),
         NEW i \in 0..Len(s), NEW j \in 0..Len(s), Entry(h, s, i) = Entry(h, s, j)
  PROVE  i = j
<1>1. Len(s) \in Nat
  BY EntryFacts
<1>2. i = 0 \/ i \in 1..Len(s)
  BY <1>1
<1>3. j = 0 \/ j \in 1..Len(s)
  BY <1>1
<1>4. Entry(h, s, 0) = h
  BY EntryFacts
<1> QED
  BY <1>2, <1>3, <1>4, EntryFacts, RingDistinct

\* Two sequences that a head's pointers lead through begin alike.
LEMMA RingPrefix ==
  ASSUME NEW h \in Heads, NEW s \in Seq(Nodes), NEW t \in Seq(Nodes),
         Holds(h, s), Holds(h, t)
  PROVE  Len(s) <= Len(t) /\ \A i \in 1..Len(s) : s[i] = t[i]
<1> DEFINE Agree(i) == i <= Len(t) /\ Entry(h, s, i) = Entry(h, t, i)
           Differ == {i \in Nat : i <= Len(s) /\ ~Agree(i)}
<1>1. Len(s) \in Nat /\ Len(t) \in Nat
  BY EntryFacts
<1>2. ASSUME Differ # {} PROVE FALSE
  <2>0. Differ \in SUBSET Nat
    OBVIOUS
  <2>1. PICK i \in Differ : \A j \in Differ : i <= j
    <3> HIDE DEF Differ
    <3> QED
      BY <1>2, <2>0, LeastNatural
  <2>2. i # 0
    BY <1>1, <2>1, EntryFacts
  <2>3. i \in 1..Len(s) /\ i - 1 \in 0..Len(s) /\ i - 1 \in Nat /\ (i - 1) + 1 = i
    BY <1>1, <2>1, <2>2
  <2>4. Agree(i - 1)
    BY <2>1, <2>3
  <2>5. i - 1 \in 0..Len(t)
    BY <1>1, <2>3, <2>4
  <2>6. Entry(h, s, i) = Entry(h, t, i)
    BY <2>3, <2>4, <2>5 DEF Holds
  <2>7. i \in 1..Len(t)
    BY <2>3, <2>6, EntryFacts
  <2> QED
    BY <1>1, <2>1, <2>6, <2>7
<1>3. \A i \in Nat : i <= Len(s) => Agree(i)
  BY <1>2
<1>4. Len(s) <= Len(t)
  BY <1>1, <1>3
<1>5. ASSUME NEW i \in 1..Len(s) PROVE s[i] = t[i]
  BY <1>1, <1>3, <1>4, EntryFacts
<1> QED
  BY <1>4, <1>5

LEMMA RingUnique ==
  ASSUME NEW h \in Heads, NEW s \in Seq(Nodes), NEW t \in Seq(Nodes),
         Holds(h, s), Holds(h, t)
  PROVE  s = t
<1>1. Len(s) <= Len(t) /\ Len(t) <= Len(s) /\ \A i \in 1..Len(s) : s[i] = t[i]
  BY RingPrefix
<1>2. Len(s) = Len(t)
  BY <1>1, EntryFacts
<1> QED
  BY <1>1, <1>2, SeqEqual

\* A ring is no longer than there are nodes, so Contents finds it.
LEMMA ContentsHeld ==
  ASSUME LinksInv, NEW h \in Heads, NEW s \in Seq(Nodes), Holds(h, s)
  PROVE  Contents(h) = s
<1>1. Len(s) \in Nat /\ s \in [1..Len(s) -> Nodes]
  BY LenProperties
<1>2. s \in Injection(1..Len(s), Nodes)
  BY <1>1, RingDistinct DEF Injection, IsInjective
<1>3. Cardinality(1..Len(s)) = Len(s)
  BY <1>1, FS_Interval
<1>4. Len(s) <= Cardinality(Nodes) /\ Cardinality(Nodes) \in Nat
  BY <1>2, <1>3, FS_Injection, FS_CardinalityType, ListAssumption
<1> DEFINE Bounded == BoundedSeq(Nodes, Cardinality(Nodes))
<1>5. s \in Bounded
  BY <1>1, <1>4 DEF BoundedSeq, SeqOf
<1>6. \A t \in Bounded : t \in Seq(Nodes)
  BY <1>4, SeqDef DEF BoundedSeq, SeqOf
<1> HIDE DEF Bounded
<1> DEFINE held == {t \in Bounded : Holds(h, t)}
<1>7. held = {s}
  BY <1>5, <1>6, RingUnique
<1>8. Contents(h) = IF held = {} THEN <<NULL>> ELSE CHOOSE t \in held : TRUE
  BY DEF Contents, Bounded
<1> HIDE DEF held
<1> QED
  BY <1>7, <1>8

ContentsExact ==
  \A h \in Heads : \A s \in Seq(Nodes) : LinksInv /\ Holds(h, s) => Contents(h) = s

LEMMA ContentsAreExact == ContentsExact
BY ContentsHeld DEF ContentsExact

-----------------------------------------------------------------------------
(* What the operations do to a ring *)

LEMMA ConcatFacts ==
  ASSUME NEW a \in Seq(Nodes), NEW b \in Seq(Nodes)
  PROVE  /\ a \o b \in Seq(Nodes) /\ Len(a \o b) = Len(a) + Len(b)
         /\ \A j \in 1..Len(a) : (a \o b)[j] = a[j]
         /\ \A j \in 1..Len(b) : (a \o b)[Len(a) + j] = b[j]
<1>1. Len(a) \in Nat /\ Len(b) \in Nat
  BY LenProperties
<1>2. /\ a \o b \in Seq(Nodes) /\ Len(a \o b) = Len(a) + Len(b)
      /\ \A j \in 1..Len(a) + Len(b) :
           (a \o b)[j] = IF j <= Len(a) THEN a[j] ELSE b[j - Len(a)]
  BY ConcatProperties
<1>3. ASSUME NEW j \in 1..Len(b) PROVE (a \o b)[Len(a) + j] = b[j]
  <2>1. /\ Len(a) + j \in 1..Len(a) + Len(b)
        /\ ~(Len(a) + j <= Len(a)) /\ (Len(a) + j) - Len(a) = j
    BY <1>1
  <2> QED
    BY <1>2, <2>1
<1>4. ASSUME NEW j \in 1..Len(a) PROVE (a \o b)[j] = a[j]
  <2>1. j \in 1..Len(a) + Len(b) /\ j <= Len(a)
    BY <1>1
  <2> QED
    BY <1>2, <2>1
<1> QED
  BY <1>2, <1>3, <1>4

LEMMA InsertFacts ==
  ASSUME NEW s \in Seq(Nodes), NEW i \in 0..Len(s), NEW x \in Nodes
  PROVE  /\ InsertAt(s, i + 1, x) \in Seq(Nodes)
         /\ Len(InsertAt(s, i + 1, x)) = Len(s) + 1
         /\ \A j \in 1..Len(s) + 1 :
              InsertAt(s, i + 1, x)[j] =
                IF j <= i THEN s[j] ELSE IF j = i + 1 THEN x ELSE s[j - 1]
<1>1. Len(s) \in Nat /\ \A j \in 1..Len(s) : s[j] \in Nodes
  BY LenProperties, ElementOfSeq
<1> DEFINE a == SubSeq(s, 1, i)
           b == <<x>>
           c == SubSeq(s, i + 1, Len(s))
<1>2. /\ a \in Seq(Nodes) /\ Len(a) = i
      /\ \A j \in 1..i : a[j] = s[j]
  BY <1>1, SubSeqProperties
<1>3. b \in Seq(Nodes) /\ Len(b) = 1 /\ b[1] = x
  OBVIOUS
<1>4. /\ c \in Seq(Nodes) /\ Len(c) = Len(s) - i
      /\ \A j \in 1..Len(s) - i : c[j] = s[i + j]
  <2>1. i + 1 \in Int /\ Len(s) \in Int /\ \A j \in i + 1..Len(s) : s[j] \in Nodes
    BY <1>1
  <2>2. /\ c \in Seq(Nodes)
        /\ Len(c) = IF i + 1 <= Len(s) THEN Len(s) - (i + 1) + 1 ELSE 0
        /\ \A j \in 1..Len(s) - (i + 1) + 1 : c[j] = s[i + 1 + j - 1]
    BY <2>1, SubSeqProperties
  <2> HIDE DEF c
  <2> QED
    BY <1>1, <2>2
<1>5. InsertAt(s, i + 1, x) = (a \o b) \o c
  <2>1. (i + 1) - 1 = i
    BY <1>1
  <2> QED
    BY <2>1 DEF InsertAt
<1> DEFINE ab == a \o b
           t == ab \o c
<1> HIDE DEF a, b, c
<1>6. /\ ab \in Seq(Nodes) /\ Len(ab) = i + 1
      /\ \A j \in 1..i : ab[j] = s[j]
      /\ ab[i + 1] = x
  <2>1. /\ ab \in Seq(Nodes) /\ Len(ab) = Len(a) + Len(b)
        /\ \A j \in 1..Len(a) : ab[j] = a[j]
        /\ \A j \in 1..Len(b) : ab[Len(a) + j] = b[j]
    BY <1>2, <1>3, ConcatFacts
  <2> HIDE DEF ab
  <2>2. 1 \in 1..Len(b) /\ Len(a) + 1 = i + 1
    BY <1>2, <1>3
  <2>3. ab[i + 1] = x
    BY <1>3, <2>1, <2>2
  <2> QED
    BY <1>2, <1>3, <2>1, <2>3
<1> HIDE DEF ab
<1>7. /\ t \in Seq(Nodes) /\ Len(t) = i + 1 + Len(c)
      /\ \A j \in 1..i + 1 : t[j] = ab[j]
      /\ \A j \in 1..Len(c) : t[i + 1 + j] = c[j]
  <2>1. /\ t \in Seq(Nodes) /\ Len(t) = Len(ab) + Len(c)
        /\ \A j \in 1..Len(ab) : t[j] = ab[j]
        /\ \A j \in 1..Len(c) : t[Len(ab) + j] = c[j]
    BY <1>4, <1>6, ConcatFacts
  <2> HIDE DEF t
  <2> QED
    BY <1>6, <2>1
<1> HIDE DEF t
<1>8. ASSUME NEW j \in 1..Len(s) + 1
      PROVE  t[j] = IF j <= i THEN s[j] ELSE IF j = i + 1 THEN x ELSE s[j - 1]
  <2>1. CASE j <= i
    BY <1>1, <1>6, <1>7, <2>1
  <2>2. CASE j = i + 1
    BY <1>1, <1>6, <1>7, <2>2
  <2>3. CASE j > i + 1
    <3>1. j - (i + 1) \in 1..Len(s) - i /\ i + 1 + (j - (i + 1)) = j /\ i + (j - (i + 1)) = j - 1
      BY <1>1, <2>3
    <3>2. t[i + 1 + (j - (i + 1))] = s[i + (j - (i + 1))]
      BY <1>4, <1>7, <3>1
    <3> QED
      BY <1>1, <2>3, <3>1, <3>2
  <2> QED
    BY <1>1, <2>1, <2>2, <2>3
<1>9. Len(t) = Len(s) + 1 /\ InsertAt(s, i + 1, x) = t
  BY <1>1, <1>4, <1>5, <1>7 DEF t, ab
<1> QED
  BY <1>7, <1>8, <1>9

LEMMA InsertedAt ==
  ASSUME NEW s \in Seq(Nodes), NEW i \in 0..Len(s), NEW x \in Nodes
  PROVE  \A j \in 1..Len(s) + 1 :
           InsertAt(s, i + 1, x)[j] =
             IF j <= i THEN s[j] ELSE IF j = i + 1 THEN x ELSE s[j - 1]
BY InsertFacts

LEMMA RemoveFacts ==
  ASSUME NEW s \in Seq(Nodes), NEW i \in 1..Len(s)
  PROVE  /\ RemoveAt(s, i) \in Seq(Nodes)
         /\ Len(RemoveAt(s, i)) = Len(s) - 1
         /\ \A j \in 1..Len(s) - 1 : RemoveAt(s, i)[j] = IF j < i THEN s[j] ELSE s[j + 1]
<1>1. Len(s) \in Nat /\ \A j \in 1..Len(s) : s[j] \in Nodes
  BY LenProperties, ElementOfSeq
<1> DEFINE a == SubSeq(s, 1, i - 1)
           b == SubSeq(s, i + 1, Len(s))
<1>2. /\ a \in Seq(Nodes) /\ Len(a) = i - 1
      /\ \A j \in 1..i - 1 : a[j] = s[j]
  <2>1. 1 \in Int /\ i - 1 \in Int /\ \A j \in 1..i - 1 : s[j] \in Nodes
    BY <1>1
  <2>2. /\ a \in Seq(Nodes)
        /\ Len(a) = IF 1 <= i - 1 THEN i - 1 - 1 + 1 ELSE 0
        /\ \A j \in 1..i - 1 - 1 + 1 : a[j] = s[1 + j - 1]
    BY <2>1, SubSeqProperties
  <2> HIDE DEF a
  <2> QED
    BY <1>1, <2>2
<1>3. /\ b \in Seq(Nodes) /\ Len(b) = Len(s) - i
      /\ \A j \in 1..Len(s) - i : b[j] = s[i + j]
  <2>1. i + 1 \in Int /\ Len(s) \in Int /\ \A j \in i + 1..Len(s) : s[j] \in Nodes
    BY <1>1
  <2>2. /\ b \in Seq(Nodes)
        /\ Len(b) = IF i + 1 <= Len(s) THEN Len(s) - (i + 1) + 1 ELSE 0
        /\ \A j \in 1..Len(s) - (i + 1) + 1 : b[j] = s[i + 1 + j - 1]
    BY <2>1, SubSeqProperties
  <2> HIDE DEF b
  <2> QED
    BY <1>1, <2>2
<1>4. RemoveAt(s, i) = a \o b
  BY DEF RemoveAt
<1> HIDE DEF a, b
<1> DEFINE t == a \o b
<1>5. /\ t \in Seq(Nodes) /\ Len(t) = Len(s) - 1
      /\ \A j \in 1..i - 1 : t[j] = s[j]
      /\ \A j \in 1..Len(s) - i : t[i - 1 + j] = s[i + j]
  <2>1. /\ t \in Seq(Nodes) /\ Len(t) = Len(a) + Len(b)
        /\ \A j \in 1..Len(a) : t[j] = a[j]
        /\ \A j \in 1..Len(b) : t[Len(a) + j] = b[j]
    BY <1>2, <1>3, ConcatFacts
  <2> HIDE DEF t
  <2> QED
    BY <1>1, <1>2, <1>3, <2>1
<1>6. RemoveAt(s, i) = t
  BY <1>4
<1> HIDE DEF t
<1>7. ASSUME NEW j \in 1..Len(s) - 1
      PROVE  t[j] = IF j < i THEN s[j] ELSE s[j + 1]
  <2>1. CASE j < i
    BY <1>1, <1>5, <2>1
  <2>2. CASE j >= i
    <3>1. j - (i - 1) \in 1..Len(s) - i /\ i - 1 + (j - (i - 1)) = j /\ i + (j - (i - 1)) = j + 1
      BY <1>1, <2>2
    <3>2. t[i - 1 + (j - (i - 1))] = s[i + (j - (i - 1))]
      BY <1>5, <3>1
    <3> QED
      BY <1>1, <2>2, <3>1, <3>2
  <2> QED
    BY <1>1, <2>1, <2>2
<1> QED
  BY <1>5, <1>6, <1>7

LEMMA InsertEntry ==
  ASSUME NEW h \in Heads, NEW s \in Seq(Nodes), NEW i \in 0..Len(s), NEW x \in Nodes,
         NEW j \in 0..Len(s) + 2
  PROVE  Entry(h, InsertAt(s, i + 1, x), j) =
           IF j <= i THEN Entry(h, s, j)
           ELSE IF j = i + 1 THEN x ELSE Entry(h, s, j - 1)
<1> DEFINE t == InsertAt(s, i + 1, x)
<1>1. Len(s) \in Nat /\ t \in Seq(Nodes) /\ Len(t) = Len(s) + 1
  BY InsertFacts, LenProperties
<1>2. \A m \in 1..Len(s) + 1 :
        t[m] = IF m <= i THEN s[m] ELSE IF m = i + 1 THEN x ELSE s[m - 1]
  BY InsertFacts
<1> HIDE DEF t
<1>3. CASE j = 0 \/ j = Len(s) + 2
  BY <1>1, <1>3, EntryFacts DEF t
<1>4. CASE j \in 1..Len(s) + 1
  <2>1. Entry(h, t, j) = t[j]
    BY <1>1, <1>4, EntryFacts
  <2>2. j <= i => j \in 1..Len(s) /\ Entry(h, s, j) = s[j]
    BY <1>1, <1>4, EntryFacts
  <2>3. j > i + 1 => j - 1 \in 1..Len(s) /\ Entry(h, s, j - 1) = s[j - 1]
    BY <1>1, <1>4, EntryFacts
  <2> QED
    BY <1>1, <1>2, <1>4, <2>1, <2>2, <2>3 DEF t
<1> QED
  BY <1>1, <1>3, <1>4

LEMMA RemoveEntry ==
  ASSUME NEW h \in Heads, NEW s \in Seq(Nodes), NEW i \in 1..Len(s),
         NEW j \in 0..Len(s)
  PROVE  Entry(h, RemoveAt(s, i), j) = IF j < i THEN Entry(h, s, j) ELSE Entry(h, s, j + 1)
<1> DEFINE t == RemoveAt(s, i)
<1>1. Len(s) \in Nat /\ t \in Seq(Nodes) /\ Len(t) = Len(s) - 1
  BY RemoveFacts, LenProperties
<1>2. \A m \in 1..Len(s) - 1 : t[m] = IF m < i THEN s[m] ELSE s[m + 1]
  BY RemoveFacts
<1> HIDE DEF t
<1>3. CASE j = 0 \/ j = Len(s)
  BY <1>1, <1>3, EntryFacts DEF t
<1>4. CASE j \in 1..Len(s) - 1
  <2>1. Entry(h, t, j) = t[j]
    BY <1>1, <1>4, EntryFacts
  <2>2. /\ Entry(h, s, j) = s[j]
        /\ j + 1 \in 1..Len(s) /\ Entry(h, s, j + 1) = s[j + 1]
    BY <1>1, <1>4, EntryFacts
  <2> QED
    BY <1>2, <1>4, <2>1, <2>2 DEF t
<1> QED
  BY <1>1, <1>3, <1>4

\* A node that may be added is on no list.
LEMMA FreeOutside ==
  ASSUME LinksInv, NEW h \in Heads, NEW s \in Seq(Nodes), Holds(h, s),
         NEW x \in Nodes, Free(x), NEW i \in 0..Len(s)
  PROVE  Entry(h, s, i) # x
<1>1. Len(s) \in Nat
  BY EntryFacts
<1>2. next[Entry(h, s, i)] = Entry(h, s, i + 1) /\ Linked(Entry(h, s, i))
  BY RingLinks
<1>3. SUFFICES ASSUME Entry(h, s, i) = x PROVE FALSE
  OBVIOUS
<1>4. Entry(h, s, i + 1) = x
  BY <1>2, <1>3 DEF Free, Linked
<1>5. x # h
  BY ListAssumption
<1>6. CASE i = Len(s)
  BY <1>1, <1>4, <1>5, <1>6, EntryFacts
<1>7. CASE i # Len(s)
  <2>1. i + 1 \in 0..Len(s)
    BY <1>1, <1>7
  <2> QED
    BY <1>1, <1>3, <1>4, <2>1, EntryDistinct
<1> QED
  BY <1>6, <1>7

LEMMA InitHolds ==
  ASSUME LinksInv, NEW h \in Heads, NEW s \in Seq(Nodes), Holds(h, s),
         NEW x \in Nodes, Free(x), INIT_LIST_HEAD(x)
  PROVE  Holds(h, s)'
<1>1. SUFFICES ASSUME NEW j \in 0..Len(s)
               PROVE  next'[Entry(h, s, j)] = Entry(h, s, j + 1)
  BY DEF Holds
<1>2. Entry(h, s, j) # x /\ Entry(h, s, j) \in Elements
  BY FreeOutside, EntryFacts
<1> QED
  BY <1>2 DEF LinksInv, PointersOK, INIT_LIST_HEAD, Holds

\* __list_add between two neighbours of a ring puts the node between them.
LEMMA AddHolds ==
  ASSUME LinksInv, NEW h \in Heads, NEW s \in Seq(Nodes), Holds(h, s),
         NEW x \in Nodes, Free(x), NEW i \in 0..Len(s),
         __list_add(x, Entry(h, s, i), Entry(h, s, i + 1))
  PROVE  Holds(h, InsertAt(s, i + 1, x))'
<1> DEFINE t == InsertAt(s, i + 1, x)
           a == Entry(h, s, i)
           b == Entry(h, s, i + 1)
<1>1. Len(s) \in Nat /\ Len(t) = Len(s) + 1
  BY InsertFacts, LenProperties
<1>2. /\ \A j \in 0..Len(s) + 2 :
           Entry(h, t, j) = IF j <= i THEN Entry(h, s, j)
                            ELSE IF j = i + 1 THEN x ELSE Entry(h, s, j - 1)
  BY InsertEntry
<1>3. x \in Elements /\ a \in Elements /\ b \in Elements /\ a # x
  BY <1>1, EntryFacts, FreeOutside DEF Elements
<1>4. next'[x] = b /\ next'[a] = x /\ \A e \in Elements \ {x, a} : next'[e] = next[e]
  <2> HIDE DEF a, b
  <2>1. __list_add(x, a, b)
    BY DEF a, b
  <2> QED
    BY <1>3, <2>1 DEF LinksInv, PointersOK, __list_add
<1> HIDE DEF t
<1>5. SUFFICES ASSUME NEW j \in 0..Len(s) + 1
               PROVE  next'[Entry(h, t, j)] = Entry(h, t, j + 1)
  BY <1>1 DEF Holds, t
<1>6. CASE j < i
  <2>1. Entry(h, t, j) = Entry(h, s, j) /\ Entry(h, t, j + 1) = Entry(h, s, j + 1)
    BY <1>1, <1>2, <1>6
  <2>2. j \in 0..Len(s) /\ Entry(h, s, j) \in Elements /\ Entry(h, s, j) # x
    BY <1>1, <1>6, EntryFacts, FreeOutside
  <2>3. Entry(h, s, j) # a
    BY <1>1, <1>6, <2>2, EntryDistinct
  <2> QED
    BY <1>4, <2>1, <2>2, <2>3 DEF Holds
<1>7. CASE j = i
  BY <1>1, <1>2, <1>4, <1>7
<1>8. CASE j = i + 1
  <2>1. Entry(h, t, j) = x
    BY <1>1, <1>2, <1>8
  <2>2. j + 1 \in 0..Len(s) + 2 /\ j + 1 # i + 1 /\ ~(j + 1 <= i) /\ (j + 1) - 1 = i + 1
    BY <1>1, <1>8
  <2>3. Entry(h, t, j + 1) = b
    BY <1>2, <2>2
  <2> QED
    BY <1>4, <2>1, <2>3
<1>9. CASE j > i + 1
  <2>1. /\ j - 1 \in 0..Len(s) /\ j - 1 # i
        /\ j + 1 \in 0..Len(s) + 2 /\ (j + 1) - 1 = (j - 1) + 1
    BY <1>1, <1>9
  <2>2. Entry(h, t, j) = Entry(h, s, j - 1) /\ Entry(h, t, j + 1) = Entry(h, s, (j - 1) + 1)
    BY <1>1, <1>2, <1>9, <2>1
  <2>3. Entry(h, s, j - 1) # x /\ Entry(h, s, j - 1) \in Elements
    BY <2>1, EntryFacts, FreeOutside
  <2>4. Entry(h, s, j - 1) # a
    BY <1>1, <2>1, EntryDistinct
  <2> QED
    BY <1>4, <2>1, <2>2, <2>3, <2>4 DEF Holds
<1> QED
  BY <1>1, <1>6, <1>7, <1>8, <1>9

LEMMA AddElsewhere ==
  ASSUME LinksInv, NEW h \in Heads, NEW s \in Seq(Nodes), Holds(h, s),
         NEW x \in Nodes, Free(x), NEW a \in Elements, NEW b \in Elements,
         \A i \in 0..Len(s) : Entry(h, s, i) # a,
         __list_add(x, a, b)
  PROVE  Holds(h, s)'
<1>1. SUFFICES ASSUME NEW j \in 0..Len(s)
               PROVE  next'[Entry(h, s, j)] = Entry(h, s, j + 1)
  BY DEF Holds
<1>2. Entry(h, s, j) # x /\ Entry(h, s, j) \in Elements
  BY FreeOutside, EntryFacts
<1> QED
  BY <1>2 DEF LinksInv, PointersOK, __list_add, Holds

\* list_del of a node of a ring takes it out of the ring.
LEMMA DeleteHolds ==
  ASSUME LinksInv, NEW h \in Heads, NEW s \in Seq(Nodes), Holds(h, s),
         NEW i \in 1..Len(s), list_del(s[i])
  PROVE  Holds(h, RemoveAt(s, i))'
<1> DEFINE t == RemoveAt(s, i)
           x == s[i]
           a == Entry(h, s, i - 1)
           b == Entry(h, s, i + 1)
<1>1. Len(s) \in Nat /\ Len(t) = Len(s) - 1
  BY RemoveFacts, LenProperties
<1>2. /\ \A j \in 0..Len(s) :
           Entry(h, t, j) = IF j < i THEN Entry(h, s, j) ELSE Entry(h, s, j + 1)
  BY RemoveEntry
<1>3. i \in 0..Len(s) /\ i - 1 \in 0..Len(s) /\ (i - 1) + 1 = i /\ Entry(h, s, i) = x
  BY <1>1, EntryFacts
<1>4. x \in Elements /\ a \in Elements /\ b \in Elements /\ a # x
  BY <1>1, <1>3, EntryFacts, EntryDistinct
<1>5. next[x] = b /\ prev[x] = a
  <2>1. prev[Entry(h, s, (i - 1) + 1)] = Entry(h, s, i - 1)
    BY <1>3, RingLinks
  <2>2. next[Entry(h, s, i)] = Entry(h, s, i + 1)
    BY <1>3, RingLinks
  <2> QED
    BY <1>3, <2>1, <2>2
<1>6. next'[a] = b /\ \A e \in Elements \ {x, a} : next'[e] = next[e]
  <2> HIDE DEF a, b, x
  <2>1. list_del(x)
    BY DEF x
  <2> QED
    BY <1>4, <1>5, <2>1 DEF LinksInv, PointersOK, list_del
<1> HIDE DEF t
<1>7. SUFFICES ASSUME NEW j \in 0..Len(s) - 1
               PROVE  next'[Entry(h, t, j)] = Entry(h, t, j + 1)
  BY <1>1 DEF Holds, t
<1>8. CASE j < i - 1
  <2>1. Entry(h, t, j) = Entry(h, s, j) /\ Entry(h, t, j + 1) = Entry(h, s, j + 1)
    BY <1>1, <1>2, <1>8
  <2>2. j \in 0..Len(s) /\ Entry(h, s, j) \in Elements /\ Entry(h, s, j) # x
    BY <1>1, <1>3, <1>8, EntryFacts, EntryDistinct
  <2>3. Entry(h, s, j) # a
    BY <1>1, <1>3, <1>8, <2>2, EntryDistinct
  <2> QED
    BY <1>6, <2>1, <2>2, <2>3 DEF Holds
<1>9. CASE j = i - 1
  <2>1. Entry(h, t, j) = a /\ j + 1 = i
    BY <1>1, <1>2, <1>9
  <2>2. Entry(h, t, i) = Entry(h, s, i + 1)
    BY <1>1, <1>2, <1>3
  <2> QED
    BY <1>6, <2>1, <2>2
<1>10. CASE j > i - 1
  <2>1. j \in 0..Len(s) /\ j + 1 \in 0..Len(s) /\ ~(j < i) /\ ~(j + 1 < i)
    BY <1>1, <1>10
  <2>2. Entry(h, t, j) = Entry(h, s, j + 1) /\ Entry(h, t, j + 1) = Entry(h, s, (j + 1) + 1)
    BY <1>2, <2>1
  <2>3. Entry(h, s, j + 1) # x /\ Entry(h, s, j + 1) # a /\ Entry(h, s, j + 1) \in Elements
    BY <1>1, <1>3, <1>10, <2>1, EntryFacts, EntryDistinct
  <2> QED
    BY <1>6, <2>1, <2>2, <2>3 DEF Holds
<1> QED
  BY <1>1, <1>8, <1>9, <1>10

LEMMA DeleteElsewhere ==
  ASSUME LinksInv, NEW h \in Heads, NEW s \in Seq(Nodes), Holds(h, s),
         NEW x \in Nodes, Linked(x), \A i \in 1..Len(s) : s[i] # x, list_del(x)
  PROVE  Holds(h, s)'
<1>1. SUFFICES ASSUME NEW j \in 0..Len(s)
               PROVE  next'[Entry(h, s, j)] = Entry(h, s, j + 1)
  BY DEF Holds
<1>2. Len(s) \in Nat /\ x # h /\ x \in Elements
  BY EntryFacts, ListAssumption DEF Elements
<1>3. /\ Entry(h, s, j) # x /\ Entry(h, s, j + 1) # x
      /\ Entry(h, s, j) \in Elements
  BY <1>2, EntryFacts
<1>4. prev[x] \in Elements /\ next[prev[x]] = x
  BY <1>2, Neighbours
<1>5. Entry(h, s, j) # prev[x] /\ next[Entry(h, s, j)] = Entry(h, s, j + 1)
  BY <1>3, <1>4 DEF Holds
<1> QED
  BY <1>2, <1>3, <1>4, <1>5 DEF LinksInv, PointersOK, list_del

-----------------------------------------------------------------------------
(* What the callers do to the contents of a list *)

LEMMA AddEffect ==
  ASSUME LinksInv, NEW h \in Heads, NEW s \in Seq(Nodes), Holds(h, s),
         NEW e \in Nodes, NEW at \in Elements, Add(e, at)
  PROVE  /\ \A i \in 0..Len(s) : at = Entry(h, s, i) => Holds(h, InsertAt(s, i + 1, e))'
         /\ (\A i \in 0..Len(s) : at # Entry(h, s, i)) => Holds(h, s)'
<1>1. Free(e) /\ Linked(at) /\ __list_add(e, at, next[at])
  BY DEF Add, MayAdd, list_add
<1>2. ASSUME NEW i \in 0..Len(s), at = Entry(h, s, i)
      PROVE  Holds(h, InsertAt(s, i + 1, e))'
  <2>1. __list_add(e, Entry(h, s, i), Entry(h, s, i + 1))
    BY <1>1, <1>2, RingLinks
  <2> QED
    BY <1>1, <2>1, AddHolds
<1>3. ASSUME \A i \in 0..Len(s) : at # Entry(h, s, i) PROVE Holds(h, s)'
  <2>1. next[at] \in Elements
    BY <1>1, Neighbours
  <2> QED
    BY <1>1, <1>3, <2>1, AddElsewhere
<1> QED
  BY <1>2, <1>3

LEMMA AddTailEffect ==
  ASSUME LinksInv, NEW h \in Heads, NEW s \in Seq(Nodes), Holds(h, s),
         NEW e \in Nodes, NEW at \in Elements, AddTail(e, at)
  PROVE  /\ \A i \in 0..Len(s) : at = Entry(h, s, i) =>
              Holds(h, InsertAt(s, IF i = 0 THEN Len(s) + 1 ELSE i, e))'
         /\ (\A i \in 0..Len(s) : at # Entry(h, s, i)) => Holds(h, s)'
<1>1. Free(e) /\ Linked(at) /\ __list_add(e, prev[at], at)
  BY DEF AddTail, MayAdd, list_add_tail
<1>2. Len(s) \in Nat /\ Entry(h, s, 0) = h /\ Entry(h, s, Len(s) + 1) = h
  BY EntryFacts
<1>3. ASSUME NEW i \in 0..Len(s), Entry(h, s, i + 1) = at
      PROVE  Holds(h, InsertAt(s, i + 1, e))'
  <2>1. __list_add(e, Entry(h, s, i), Entry(h, s, i + 1))
    BY <1>1, <1>3, RingLinks
  <2> QED
    BY <1>1, <2>1, AddHolds
<1>4. ASSUME NEW i \in 0..Len(s), at = Entry(h, s, i)
      PROVE  Holds(h, InsertAt(s, IF i = 0 THEN Len(s) + 1 ELSE i, e))'
  <2>1. CASE i = 0
    BY <1>2, <1>3, <1>4, <2>1
  <2>2. CASE i # 0
    <3>1. i - 1 \in 0..Len(s) /\ (i - 1) + 1 = i
      BY <1>2, <2>2
    <3>2. Holds(h, InsertAt(s, (i - 1) + 1, e))'
      BY <1>3, <1>4, <3>1
    <3> QED
      BY <2>2, <3>1, <3>2
  <2> QED
    BY <2>1, <2>2
<1>5. ASSUME \A i \in 0..Len(s) : at # Entry(h, s, i) PROVE Holds(h, s)'
  <2>1. prev[at] \in Elements /\ next[prev[at]] = at
    BY <1>1, Neighbours
  <2>2. ASSUME NEW j \in 0..Len(s), Entry(h, s, j) = prev[at] PROVE FALSE
    <3>1. Entry(h, s, j + 1) = at
      BY <2>1, <2>2 DEF Holds
    <3>2. CASE j = Len(s)
      BY <1>2, <1>5, <3>1, <3>2
    <3>3. CASE j # Len(s)
      <4>1. j + 1 \in 0..Len(s)
        BY <1>2, <3>3
      <4> QED
        BY <1>5, <3>1, <4>1
    <3> QED
      BY <3>2, <3>3
  <2> QED
    BY <1>1, <2>1, <2>2, AddElsewhere
<1> QED
  BY <1>4, <1>5

LEMMA DeleteEffect ==
  ASSUME LinksInv, NEW h \in Heads, NEW s \in Seq(Nodes), Holds(h, s),
         NEW e \in Nodes, Linked(e), list_del(e)
  PROVE  /\ \A i \in 1..Len(s) : e = s[i] => Holds(h, RemoveAt(s, i))'
         /\ (\A i \in 1..Len(s) : e # s[i]) => Holds(h, s)'
<1>1. ASSUME NEW i \in 1..Len(s), e = s[i] PROVE Holds(h, RemoveAt(s, i))'
  BY <1>1, DeleteHolds
<1>2. ASSUME \A i \in 1..Len(s) : e # s[i] PROVE Holds(h, s)'
  <2>1. \A i \in 1..Len(s) : s[i] # e
    BY <1>2
  <2> QED
    BY <2>1, DeleteElsewhere
<1> QED
  BY <1>1, <1>2, Zenon

\* Drain takes the first node from its own list and none from another.
LEMMA DrainEffect ==
  ASSUME LinksInv, NEW h \in Heads, NEW s \in Seq(Nodes), Holds(h, s),
         NEW g \in Heads, NEW t \in Seq(Nodes), Holds(g, t), Drain(g)
  PROVE  /\ 1 \in 1..Len(t) /\ list_first_entry(g) = t[1]
         /\ list_first_entry(g) \in Nodes /\ Linked(list_first_entry(g))
         /\ g = h => Holds(h, RemoveAt(s, 1))'
         /\ g # h => Holds(h, s)'
<1>1. /\ next[g] # g /\ list_del(next[g])
      /\ Len(s) \in Nat /\ Len(t) \in Nat
  BY EntryFacts DEF Drain, list_empty, list_first_entry
<1>2. 0 \in 0..Len(t) /\ 0 + 1 = 1
  BY <1>1
<1>3. next[g] = Entry(g, t, 1) /\ prev[next[g]] = g
  <2>1. Entry(g, t, 0) = g
    BY EntryFacts
  <2>2. /\ next[Entry(g, t, 0)] = Entry(g, t, 0 + 1)
        /\ prev[Entry(g, t, 0 + 1)] = Entry(g, t, 0)
    BY <1>2, RingLinks
  <2> QED
    BY <1>2, <2>1, <2>2
<1>4. Len(t) # 0
  BY <1>1, <1>3, EntryFacts
<1>5. 1 \in 1..Len(t) /\ 1 \in 0..Len(t)
  BY <1>1, <1>4
<1>6. next[g] = t[1] /\ next[g] \in Nodes /\ Linked(next[g])
  BY <1>3, <1>5, EntryFacts, RingLinks
<1>7. ASSUME g = h PROVE Holds(h, RemoveAt(s, 1))'
  <2>1. s = t
    BY <1>7, RingUnique
  <2> QED
    BY <1>1, <1>5, <1>6, <2>1, DeleteEffect
<1>8. ASSUME g # h PROVE Holds(h, s)'
  <2>1. ASSUME NEW i \in 1..Len(s), s[i] = next[g] PROVE FALSE
    <3>1. i - 1 \in 0..Len(s) /\ (i - 1) + 1 = i
      BY <1>1
    <3>2. prev[Entry(h, s, (i - 1) + 1)] = Entry(h, s, i - 1)
      BY <3>1, RingLinks
    <3>3. Entry(h, s, i - 1) = g
      BY <1>3, <2>1, <3>1, <3>2, EntryFacts
    <3>4. g \notin Nodes
      BY ListAssumption
    <3>5. i - 1 \in 1..Len(s) \/ i - 1 \notin 1..Len(s)
      OBVIOUS
    <3> QED
      BY <1>8, <3>1, <3>3, <3>4, <3>5, EntryFacts
  <2> QED
    BY <1>1, <1>6, <2>1, DeleteEffect
<1> QED
  BY <1>5, <1>6, <1>7, <1>8 DEF list_first_entry

-----------------------------------------------------------------------------
(* Where a loop stands *)

LEMMA InsertStands ==
  ASSUME head \in Heads, NEW s \in Seq(Nodes), NEW k \in Nat, Stands(s, k),
         NEW i \in 0..Len(s), NEW x \in Nodes, x \notin visited, UNCHANGED loopVars
  PROVE  \E m \in Nat : Stands(InsertAt(s, i + 1, x), m)'
<1> DEFINE t == InsertAt(s, i + 1, x)
<1>0. PICK m \in Nat : m = IF i + 1 < k \/ (i + 1 = k /\ safe) THEN k + 1 ELSE k
  OBVIOUS
<1>1. Len(s) \in Nat /\ Len(t) = Len(s) + 1 /\ k \in 1..Len(s) + 1
  BY InsertFacts, LenProperties DEF Stands
<1>2. \A j \in 0..Len(s) + 2 :
        Entry(head, t, j) = IF j <= i THEN Entry(head, s, j)
                            ELSE IF j = i + 1 THEN x ELSE Entry(head, s, j - 1)
  BY InsertEntry
<1>3. \A j \in 1..Len(s) + 1 :
        t[j] = IF j <= i THEN s[j] ELSE IF j = i + 1 THEN x ELSE s[j - 1]
  BY InsertedAt
<1> HIDE DEF t
<1>4. m \in 1..Len(t) + 1
  BY <1>0, <1>1
<1>5. IF safe THEN n = Entry(head, t, m) ELSE m > 1 /\ pos = Entry(head, t, m - 1)
  <2>1. CASE safe
    <3>1. n = Entry(head, s, k)
      BY <2>1 DEF Stands
    <3>2. i + 1 <= k => m = k + 1 /\ Entry(head, t, k + 1) = Entry(head, s, (k + 1) - 1)
      BY <1>0, <1>1, <1>2, <2>1
    <3>3. i + 1 > k => m = k /\ Entry(head, t, k) = Entry(head, s, k)
      BY <1>0, <1>1, <1>2
    <3>4. (k + 1) - 1 = k
      OBVIOUS
    <3> QED
      BY <1>1, <2>1, <3>1, <3>2, <3>3, <3>4
  <2>2. CASE ~safe
    <3>1. k > 1 /\ pos = Entry(head, s, k - 1)
      BY <2>2 DEF Stands
    <3>2. i + 1 < k => m = k + 1 /\ m - 1 = k /\ Entry(head, t, k) = Entry(head, s, k - 1)
      BY <1>0, <1>1, <1>2
    <3>3. i + 1 >= k => m = k /\ Entry(head, t, k - 1) = Entry(head, s, k - 1)
      BY <1>0, <1>1, <1>2, <2>2, <3>1
    <3> QED
      BY <1>1, <2>2, <3>1, <3>2, <3>3
  <2> QED
    BY <2>1, <2>2
<1>6. ASSUME NEW e \in due PROVE \E j \in m..Len(t) : t[j] = e
  <2>1. PICK j \in k..Len(s) : s[j] = e
    BY DEF Stands
  <2>2. CASE j <= i
    <3>1. j \in m..Len(t) /\ t[j] = s[j]
      BY <1>0, <1>1, <1>3, <2>2
    <3> QED
      BY <2>1, <3>1
  <2>3. CASE j > i
    <3>1. j + 1 \in m..Len(t) /\ j + 1 \in 1..Len(s) + 1 /\ (j + 1) - 1 = j /\ j + 1 # i + 1 /\ ~(j + 1 <= i)
      BY <1>0, <1>1, <2>3
    <3>2. t[j + 1] = s[j]
      BY <1>3, <3>1
    <3> QED
      BY <2>1, <3>1, <3>2
  <2> QED
    BY <1>1, <2>2, <2>3
<1>7. ASSUME NEW j \in m..Len(t) PROVE t[j] \notin visited
  <2>1. j \in 1..Len(s) + 1 /\ j >= k /\ (j > i + 1 => j - 1 \in k..Len(s))
    BY <1>0, <1>1, <1>4
  <2>2. t[j] = IF j <= i THEN s[j] ELSE IF j = i + 1 THEN x ELSE s[j - 1]
    BY <1>3, <2>1
  <2>3. CASE j <= i
    <3>1. j \in k..Len(s)
      BY <1>0, <1>1, <2>1, <2>3
    <3> QED
      BY <2>2, <2>3, <3>1 DEF Stands
  <2>4. CASE j = i + 1
    BY <1>1, <2>2, <2>4
  <2>5. CASE j > i + 1
    BY <1>1, <2>1, <2>2, <2>5 DEF Stands
  <2> QED
    BY <1>1, <2>3, <2>4, <2>5
<1>8. Stands(t, m)'
  BY <1>4, <1>5, <1>6, <1>7 DEF Stands, loopVars, Entry
<1> QED
  BY <1>8 DEF t

LEMMA RemoveStands ==
  ASSUME head \in Heads, NEW s \in Seq(Nodes), NEW k \in Nat, Stands(s, k),
         NEW i \in 1..Len(s), s[i] # (IF safe THEN n ELSE pos),
         due' = due \ {s[i]}, UNCHANGED <<phase, safe, head, pos, n, visited>>
  PROVE  \E m \in Nat : Stands(RemoveAt(s, i), m)'
<1> DEFINE t == RemoveAt(s, i)
           m == IF i < k THEN k - 1 ELSE k
<1>1. /\ Len(s) \in Nat /\ Len(t) = Len(s) - 1 /\ k \in 1..Len(s) + 1
      /\ Entry(head, s, i) = s[i]
  BY RemoveFacts, EntryFacts DEF Stands
<1>2. \A j \in 0..Len(s) :
        Entry(head, t, j) = IF j < i THEN Entry(head, s, j) ELSE Entry(head, s, j + 1)
  BY RemoveEntry
<1>3. \A j \in 1..Len(s) - 1 : t[j] = IF j < i THEN s[j] ELSE s[j + 1]
  BY RemoveFacts
<1> HIDE DEF t
<1>4. safe => n = Entry(head, s, k) /\ k # i
  BY <1>1 DEF Stands
<1>5. ~safe => k > 1 /\ pos = Entry(head, s, k - 1) /\ k - 1 # i
  BY <1>1 DEF Stands
<1>6. m \in 1..Len(t) + 1
  BY <1>1, <1>4, <1>5
<1>7. IF safe THEN n = Entry(head, t, m) ELSE m > 1 /\ pos = Entry(head, t, m - 1)
  <2>1. CASE safe
    <3>1. i < k => m = k - 1 /\ k - 1 \in 0..Len(s) /\ ~(k - 1 < i) /\ (k - 1) + 1 = k
      BY <1>1
    <3>2. ~(i < k) => m = k /\ k \in 0..Len(s) /\ k < i
      BY <1>1, <1>4, <2>1
    <3> QED
      BY <1>2, <1>4, <2>1, <3>1, <3>2
  <2>2. CASE ~safe
    <3>1. i < k => /\ m - 1 \in 0..Len(s) /\ ~(m - 1 < i) /\ (m - 1) + 1 = k - 1
                   /\ m > 1
      BY <1>1, <1>5, <2>2
    <3>2. ~(i < k) => m - 1 = k - 1 /\ k - 1 \in 0..Len(s) /\ k - 1 < i /\ m > 1
      BY <1>1, <1>5, <2>2
    <3> QED
      BY <1>2, <1>5, <2>2, <3>1, <3>2
  <2> QED
    BY <2>1, <2>2
<1>8. ASSUME NEW e \in due \ {s[i]} PROVE \E j \in m..Len(t) : t[j] = e
  <2>1. PICK j \in k..Len(s) : s[j] = e
    BY DEF Stands
  <2>2. CASE j < i
    <3>1. j \in m..Len(t) /\ t[j] = s[j]
      BY <1>1, <1>3, <2>2
    <3> QED
      BY <2>1, <3>1
  <2>3. CASE j > i
    <3>1. j - 1 \in m..Len(t) /\ j - 1 \in 1..Len(s) - 1 /\ ~(j - 1 < i) /\ (j - 1) + 1 = j
      BY <1>1, <2>3
    <3>2. t[j - 1] = s[j]
      BY <1>3, <3>1
    <3> QED
      BY <2>1, <3>1, <3>2
  <2> QED
    BY <1>1, <2>1, <2>2, <2>3
<1>9. ASSUME NEW j \in m..Len(t) PROVE t[j] \notin visited
  <2>1. j \in 1..Len(s) - 1 /\ (j < i => j \in k..Len(s)) /\ (~(j < i) => j + 1 \in k..Len(s))
    BY <1>1, <1>6
  <2> QED
    BY <1>3, <2>1 DEF Stands
<1> HIDE DEF m
<1>10. Stands(t, m)'
  BY <1>6, <1>7, <1>8, <1>9 DEF Stands, Entry
<1> QED
  BY <1>1, <1>6, <1>10 DEF t

\* A round begins, or the loop ends: what was due lies at or behind position k
\* and nothing visited does, so what was due is visited in its turn, and once.
LEMMA EnterStands ==
  ASSUME LinksInv, NEW h \in Heads, NEW s \in Seq(Nodes), Holds(h, s),
         NEW k \in 1..Len(s) + 1, NEW V, NEW D \in SUBSET Nodes,
         \A e \in D : \E i \in k..Len(s) : s[i] = e,
         \A i \in k..Len(s) : s[i] \notin V,
         UNCHANGED <<next, prev>>, head' = h, safe' \in BOOLEAN,
         Enter(h, Entry(h, s, k), safe'), visited' = V \cup Round, due' = D \ Round
  PROVE  LoopInv' /\ WalkComplete' /\ (phase' = "body" => pos' \notin V)
<1>1. /\ Len(s) \in Nat
      /\ pos' = Entry(h, s, k)
      /\ n' = IF safe' THEN next[Entry(h, s, k)] ELSE h
      /\ phase' = IF Entry(h, s, k) = h THEN "none" ELSE "body"
  BY EntryFacts DEF Enter
<1>2. CASE k = Len(s) + 1
  <2>1. phase' = "none" /\ D = {}
    BY <1>1, <1>2, EntryFacts
  <2> QED
    BY <2>1 DEF LoopInv, WalkComplete
<1>3. CASE k # Len(s) + 1
  <2>1. /\ k \in 1..Len(s) /\ k \in 0..Len(s) /\ k \in k..Len(s)
        /\ k + 1 \in 1..Len(s) + 1 /\ k + 1 \in Nat /\ (k + 1) - 1 = k
    BY <1>1, <1>3
  <2>2. Entry(h, s, k) = s[k] /\ s[k] \in Nodes /\ s[k] # h
    BY <2>1, EntryFacts
  <2>3. phase' = "body" /\ Round = {s[k]}
    BY <1>1, <2>2 DEF Round
  <2>4. next[Entry(h, s, k)] = Entry(h, s, k + 1)
    BY <2>1, RingLinks
  <2>5. ASSUME NEW e \in D \ {s[k]} PROVE \E i \in k + 1..Len(s) : s[i] = e
    <3>1. PICK i \in k..Len(s) : s[i] = e
      OBVIOUS
    <3>2. i \in k + 1..Len(s)
      BY <1>1, <3>1
    <3> QED
      BY <3>1, <3>2
  <2>6. ASSUME NEW i \in k + 1..Len(s) PROVE s[i] \notin V \cup {s[k]}
    <3>1. i \in k..Len(s) /\ i \in 1..Len(s) /\ i # k
      BY <1>1
    <3> QED
      BY <2>1, <3>1, RingDistinct
  <2>7. Stands(s, k + 1)'
    BY <1>1, <2>1, <2>2, <2>3, <2>4, <2>5, <2>6 DEF Stands, Entry
  <2>8. Holds(h, s)'
    BY DEF Holds
  <2>9. pos' \notin V
    BY <1>1, <2>1, <2>2
  <2> QED
    BY <2>1, <2>3, <2>7, <2>8, <2>9 DEF LoopInv, WalkComplete
<1> QED
  BY <1>2, <1>3

-----------------------------------------------------------------------------
(* The invariant *)

LEMMA InitEstablishes == Init => ListInv
<1> SUFFICES ASSUME Init PROVE ListInv
  OBVIOUS
<1>1. NULL \notin Elements /\ Heads \subseteq Elements
  BY ListAssumption DEF Elements
<1>2. TypeOK
  BY <1>1 DEF Init, TypeOK, PointersOK
<1>3. WellLinked
  BY <1>1 DEF Init, WellLinked, Linked
<1>4. Rings
  <2>1. <<>> \in Seq(Nodes) /\ Len(<<>>) = 0
    BY EmptySeq
  <2>2. ASSUME NEW h \in Heads, NEW s \in Seq(Nodes), Len(s) = 0 PROVE Holds(h, s)
    <3>1. 0..Len(s) = {0} /\ 0 \notin 1..Len(s) /\ 0 + 1 \notin 1..Len(s)
      BY <2>2
    <3>2. Entry(h, s, 0) = h /\ Entry(h, s, 0 + 1) = h
      BY <3>1, EntryFacts
    <3>3. next[h] = h
      BY <1>1 DEF Init
    <3> QED
      BY <3>1, <3>2, <3>3 DEF Holds
  <2> QED
    BY <2>1, <2>2 DEF Rings
<1> QED
  BY <1>2, <1>3, <1>4 DEF Init, ListInv, NoNullWalk, LoopInv, WalkComplete

\* An operation of a caller that keeps the lists well linked, and each a list,
\* keeps the invariant if the loop still stands on its own.
LEMMA CallerKeeps ==
  ASSUME ListInv, LinksInv', Rings', LoopInv',
         UNCHANGED <<phase, safe, head, pos, n, visited>>,
         due' \subseteq due
  PROVE  ListInv'
BY DEF ListInv, LinksInv, TypeOK, NoNullWalk, WalkComplete

\* As long as the pointers stay, each list keeps its contents.
LEMMA RingsStay ==
  ASSUME LinksInv, Rings, UNCHANGED <<next, prev>>
  PROVE  LinksInv' /\ Rings'
BY DEF LinksInv, PointersOK, WellLinked, Linked, Rings, Holds

LEMMA AddKeeps ==
  ASSUME ListInv, NEW e \in Nodes, NEW at \in Elements, Add(e, at) \/ AddTail(e, at)
  PROVE  ListInv'
<1>1. /\ LinksInv /\ Rings /\ head \in Heads
      /\ Nodes \subseteq Elements /\ Heads \subseteq Elements /\ NULL \notin Elements
  BY ListAssumption DEF ListInv, LinksInv, TypeOK, Elements
<1>2. /\ Free(e) /\ Linked(at) /\ e # at /\ UNCHANGED loopVars
      /\ NotRevisited(e, at)
  BY DEF Add, AddTail, MayAdd
<1>3. /\ next[at] \in Elements /\ Linked(next[at]) /\ prev[next[at]] = at
      /\ prev[at] \in Elements /\ Linked(prev[at]) /\ next[prev[at]] = at
  BY <1>1, <1>2, Neighbours
<1>4. next[at] # e /\ prev[at] # e
  BY <1>1, <1>2, <1>3 DEF LinksInv, WellLinked, Free, Linked
<1>5. LinksInv'
  <2>1. CASE list_add(e, at)
    BY <1>1, <1>2, <1>3, <1>4, <2>1, AddKeepsLinks DEF list_add
  <2>2. CASE list_add_tail(e, at)
    BY <1>1, <1>2, <1>3, <1>4, <2>2, AddKeepsLinks DEF list_add_tail
  <2> QED
    BY <2>1, <2>2 DEF Add, AddTail
\* The contents stay, or the node is inserted somewhere in them.
<1>6. ASSUME NEW h \in Heads, NEW s \in Seq(Nodes), Holds(h, s)
      PROVE  \/ Holds(h, s)'
             \/ /\ \E i \in 0..Len(s) : at = Entry(h, s, i)
                /\ \E i \in 0..Len(s) : Holds(h, InsertAt(s, i + 1, e))'
  <2>1. CASE \A i \in 0..Len(s) : at # Entry(h, s, i)
    BY <1>1, <1>6, <2>1, AddEffect, AddTailEffect
  <2>2. ASSUME NEW i \in 0..Len(s), at = Entry(h, s, i)
        PROVE  \E j \in 0..Len(s) : Holds(h, InsertAt(s, j + 1, e))'
    <3>1. CASE Add(e, at)
      BY <1>1, <1>6, <2>2, <3>1, AddEffect
    <3>2. CASE AddTail(e, at)
      <4>1. Holds(h, InsertAt(s, IF i = 0 THEN Len(s) + 1 ELSE i, e))'
        BY <1>1, <1>6, <2>2, <3>2, AddTailEffect
      <4>2. Len(s) \in Nat
        BY EntryFacts
      <4>3. CASE i = 0
        BY <4>1, <4>2, <4>3
      <4>4. CASE i # 0
        <5>1. i - 1 \in 0..Len(s) /\ (i - 1) + 1 = i
          BY <4>2, <4>4
        <5>2. Holds(h, InsertAt(s, (i - 1) + 1, e))'
          BY <4>1, <4>4, <5>1
        <5> QED
          BY <5>1, <5>2
      <4> QED
        BY <4>3, <4>4
    <3> QED
      BY <3>1, <3>2
  <2> QED
    BY <2>1, <2>2
<1>7. Rings'
  <2>1. SUFFICES ASSUME NEW h \in Heads PROVE \E t \in Seq(Nodes) : Holds(h, t)'
    BY DEF Rings
  <2>2. PICK s \in Seq(Nodes) : Holds(h, s)
    BY <1>1 DEF Rings
  <2> QED
    BY <1>6, <2>2, InsertFacts
<1>8. LoopInv'
  <2>1. SUFFICES ASSUME phase = "body"
                 PROVE  \E t \in Seq(Nodes), m \in Nat : Holds(head, t)' /\ Stands(t, m)'
    BY <1>2 DEF LoopInv, loopVars, Holds, Entry
  <2>2. PICK s \in Seq(Nodes), k \in Nat : Holds(head, s) /\ Stands(s, k)
    BY <2>1 DEF ListInv, LoopInv
  <2>3. CASE Holds(head, s)'
    <3>1. Stands(s, k)'
      BY <1>2, <2>2 DEF Stands, loopVars, Entry
    <3> QED
      BY <2>3, <3>1
  <2>4. CASE /\ \E i \in 0..Len(s) : at = Entry(head, s, i)
             /\ \E i \in 0..Len(s) : Holds(head, InsertAt(s, i + 1, e))'
    <3>1. e \notin visited
      <4>1. Contents(head) = s
        BY <1>1, <2>2, ContentsHeld
      <4>2. at = head \/ at \in Members(head)
        <5>1. PICK i \in 0..Len(s) : at = Entry(head, s, i)
          BY <2>4
        <5>2. DOMAIN s = 1..Len(s)
          BY EntryFacts
        <5> QED
          BY <1>1, <4>1, <5>1, <5>2, EntryFacts DEF Members, ToSet, Entry
      <4> QED
        BY <1>2, <2>1, <4>2 DEF NotRevisited
    <3>2. PICK i \in 0..Len(s) : Holds(head, InsertAt(s, i + 1, e))'
      BY <2>4
    <3>3. \E m \in Nat : Stands(InsertAt(s, i + 1, e), m)'
      BY <1>1, <1>2, <2>2, <3>1, InsertStands
    <3> QED
      BY <3>2, <3>3, InsertFacts
  <2> QED
    BY <1>1, <1>2, <1>6, <2>2, <2>3, <2>4 DEF loopVars
<1> QED
  BY <1>2, <1>5, <1>7, <1>8, CallerKeeps DEF loopVars

LEMMA DeleteKeeps ==
  ASSUME ListInv, NEW e \in Nodes, Delete(e)
  PROVE  ListInv'
<1>1. LinksInv /\ Rings /\ head \in Heads
  BY DEF ListInv, LinksInv, TypeOK
<1>2. /\ Linked(e) /\ Keeps(e) /\ list_del(e) /\ due' = due \ {e}
      /\ UNCHANGED <<phase, safe, head, pos, n, visited>>
  BY DEF Delete
<1>3. LinksInv'
  BY <1>1, <1>2, DeleteKeepsLinks
<1>4. Rings'
  <2>1. SUFFICES ASSUME NEW h \in Heads PROVE \E t \in Seq(Nodes) : Holds(h, t)'
    BY DEF Rings
  <2>2. PICK s \in Seq(Nodes) : Holds(h, s)
    BY <1>1 DEF Rings
  <2> QED
    BY <1>1, <1>2, <2>2, DeleteEffect, RemoveFacts
<1>5. LoopInv'
  <2>1. SUFFICES ASSUME phase = "body"
                 PROVE  \E t \in Seq(Nodes), m \in Nat : Holds(head, t)' /\ Stands(t, m)'
    BY <1>2 DEF LoopInv, Holds, Entry
  <2>2. PICK s \in Seq(Nodes), k \in Nat : Holds(head, s) /\ Stands(s, k)
    BY <2>1 DEF ListInv, LoopInv
  <2>3. CASE \A i \in 1..Len(s) : e # s[i]
    <3>1. Holds(head, s)'
      BY <1>1, <1>2, <2>2, <2>3, DeleteEffect
    <3>2. Stands(s, k)'
      BY <1>2, <2>2 DEF Stands, Entry
    <3> QED
      BY <3>1, <3>2
  <2>4. CASE \E i \in 1..Len(s) : e = s[i]
    <3>1. PICK i \in 1..Len(s) : e = s[i]
      BY <2>4
    <3>2. Holds(head, RemoveAt(s, i))'
      BY <1>1, <1>2, <2>2, <3>1, DeleteEffect
    <3>3. s[i] # (IF safe THEN n ELSE pos)
      BY <1>2, <2>1, <3>1 DEF Keeps
    <3>4. \E m \in Nat : Stands(RemoveAt(s, i), m)'
      BY <1>1, <1>2, <2>2, <3>1, <3>3, RemoveStands
    <3> QED
      BY <3>2, <3>4, RemoveFacts
  <2> QED
    BY <2>3, <2>4
<1> QED
  BY <1>2, <1>3, <1>4, <1>5, CallerKeeps

\* A loop that enters a round, or ends, keeps the invariant, and the round is
\* not for a node in V.
LEMMA EnterKeeps ==
  ASSUME LinksInv, Rings, NEW h \in Heads, NEW s \in Seq(Nodes), Holds(h, s),
         NEW k \in 1..Len(s) + 1, NEW V \in SUBSET Nodes, NEW D \in SUBSET Nodes,
         \A e \in D : \E i \in k..Len(s) : s[i] = e,
         \A i \in k..Len(s) : s[i] \notin V,
         UNCHANGED <<next, prev>>, head' = h, safe' \in BOOLEAN,
         Enter(h, Entry(h, s, k), safe'), visited' = V \cup Round, due' = D \ Round
  PROVE  ListInv' /\ (phase' = "body" => pos' \notin V)
<1>1. LoopInv' /\ WalkComplete' /\ (phase' = "body" => pos' \notin V)
  BY EnterStands
<1>2. LinksInv' /\ Rings'
  BY RingsStay
<1>3. Len(s) \in Nat /\ Entry(h, s, k) \in Elements /\ h \in Elements
  BY EntryFacts DEF Elements
<1>4. next[Entry(h, s, k)] \in Elements
  <2>1. CASE k \in 0..Len(s)
    BY <1>3, <2>1, RingLinks, EntryFacts
  <2>2. CASE k = Len(s) + 1
    <3>1. 0 \in 0..Len(s) /\ Entry(h, s, k) = Entry(h, s, 0) /\ 0 + 1 \in Int
      BY <1>3, <2>2, EntryFacts
    <3> QED
      BY <3>1, RingLinks, EntryFacts
  <2> QED
    BY <1>3, <2>1, <2>2
<1>5. TypeOK' /\ NoNullWalk'
  BY <1>2, <1>3, <1>4 DEF TypeOK, LinksInv, NoNullWalk, Enter, Round
<1> QED
  BY <1>1, <1>2, <1>5 DEF ListInv, LinksInv

LEMMA StartKeeps ==
  ASSUME ListInv, NEW h \in Heads, NEW isSafe \in BOOLEAN, list_for_each(h, isSafe)
  PROVE  ListInv'
<1>1. LinksInv /\ Rings
  BY DEF ListInv, LinksInv, TypeOK
<1>2. PICK s \in Seq(Nodes) : Holds(h, s)
  BY <1>1 DEF Rings
<1>3. Len(s) \in Nat /\ DOMAIN s = 1..Len(s) /\ 1 \in 1..Len(s) + 1 /\ 0 \in 0..Len(s)
  BY EntryFacts
<1>4. next[h] = Entry(h, s, 1)
  BY <1>1, <1>2, <1>3, RingLinks, EntryFacts
<1>5. \A e \in Members(h) : \E i \in 1..Len(s) : s[i] = e
  BY <1>1, <1>2, <1>3, ContentsHeld DEF Members, ToSet
<1>6. /\ UNCHANGED <<next, prev>> /\ head' = h /\ safe' = isSafe
      /\ Enter(h, Entry(h, s, 1), safe')
      /\ visited' = {} \cup Round /\ due' = Members(h) \ Round
  BY <1>4 DEF list_for_each
<1>7. Members(h) \in SUBSET Nodes
  BY DEF Members
<1> QED
  BY <1>1, <1>2, <1>3, <1>5, <1>6, <1>7, EnterKeeps

LEMMA NextRoundKeeps ==
  ASSUME ListInv, NextRound
  PROVE  /\ ListInv'
         /\ phase' = "body" => pos' \in Nodes \ visited /\ visited' = visited \cup {pos'}
<1>1. /\ LinksInv /\ Rings /\ head \in Heads /\ safe \in BOOLEAN
      /\ visited \in SUBSET Nodes /\ due \in SUBSET Nodes
  BY DEF ListInv, LinksInv, TypeOK
<1>2. phase = "body" /\ UNCHANGED <<next, prev, head, safe>>
  BY DEF NextRound
<1>3. PICK s \in Seq(Nodes), k \in Nat : Holds(head, s) /\ Stands(s, k)
  BY <1>2 DEF ListInv, LoopInv
<1>4. Len(s) \in Nat /\ k \in 1..Len(s) + 1
  BY <1>3, EntryFacts DEF Stands
<1>5. Following = Entry(head, s, k)
  <2>1. CASE safe
    BY <1>3, <2>1 DEF Stands, Following
  <2>2. CASE ~safe
    <3>1. k - 1 \in 0..Len(s) /\ (k - 1) + 1 = k /\ pos = Entry(head, s, k - 1)
      BY <1>3, <1>4, <2>2 DEF Stands
    <3>2. next[Entry(head, s, k - 1)] = Entry(head, s, (k - 1) + 1)
      BY <1>1, <1>3, <3>1, RingLinks
    <3> QED
      BY <2>2, <3>1, <3>2 DEF Following
  <2> QED
    BY <2>1, <2>2
<1>6. Following # NULL
  BY <1>1, <1>4, <1>5, EntryFacts
<1>7. /\ Enter(head, Entry(head, s, k), safe')
      /\ visited' = visited \cup Round /\ due' = due \ Round
  BY <1>2, <1>5, <1>6 DEF NextRound
<1>8. /\ \A e \in due : \E i \in k..Len(s) : s[i] = e
      /\ \A i \in k..Len(s) : s[i] \notin visited
  BY <1>3 DEF Stands
<1>9. ListInv' /\ (phase' = "body" => pos' \notin visited)
  BY <1>1, <1>2, <1>3, <1>4, <1>7, <1>8, EnterKeeps
<1>10. ASSUME phase' = "body" PROVE pos' \in Nodes
  <2>1. pos' = Entry(head, s, k) /\ pos' # head
    BY <1>7, <1>10 DEF Enter
  <2>2. k \in 1..Len(s)
    BY <1>4, <2>1 DEF Entry
  <2> QED
    BY <1>1, <1>3, <2>1, <2>2, EntryFacts
<1> QED
  BY <1>7, <1>9, <1>10 DEF Round

LEMMA StepPreserves == ListInv /\ [Next]_vars => ListInv'
<1> SUFFICES ASSUME ListInv, [Next]_vars PROVE ListInv'
  OBVIOUS
<1>1. LinksInv /\ Rings /\ head \in Heads
  BY DEF ListInv, LinksInv, TypeOK
<1>2. ASSUME NEW e \in Nodes, InitNode(e) PROVE ListInv'
  <2>1. Free(e) /\ INIT_LIST_HEAD(e) /\ UNCHANGED loopVars
    BY <1>2 DEF InitNode
  <2>2. LinksInv'
    BY <1>1, <2>1, InitKeepsLinks
  <2>3. \A h \in Heads, s \in Seq(Nodes) : Holds(h, s) => Holds(h, s)'
    BY <1>1, <2>1, InitHolds
  <2>4. Rings'
    BY <1>1, <2>3 DEF Rings
  <2>5. LoopInv'
    <3>1. SUFFICES ASSUME phase = "body"
                   PROVE  \E s \in Seq(Nodes), k \in Nat : Holds(head, s)' /\ Stands(s, k)'
      BY <2>1 DEF LoopInv, loopVars, Holds, Entry
    <3>2. PICK s \in Seq(Nodes), k \in Nat : Holds(head, s) /\ Stands(s, k)
      BY <3>1 DEF ListInv, LoopInv
    <3>3. Stands(s, k)'
      BY <2>1, <3>2 DEF Stands, loopVars, Entry
    <3> QED
      BY <1>1, <2>1, <2>3, <3>2, <3>3 DEF loopVars
  <2> QED
    BY <2>1, <2>2, <2>4, <2>5, CallerKeeps DEF loopVars
<1>3. ASSUME NEW h \in Heads, Drain(h) PROVE ListInv'
  <2> DEFINE e == list_first_entry(h)
  <2>1. phase = "none" /\ list_del(e) /\ UNCHANGED loopVars
    BY <1>3 DEF Drain
  <2>2. e \in Nodes /\ Linked(e)
    <3>1. PICK t \in Seq(Nodes) : Holds(h, t)
      BY <1>1 DEF Rings
    <3> QED
      BY <1>1, <1>3, <3>1, DrainEffect
  <2> HIDE DEF e
  <2>3. LinksInv'
    BY <1>1, <2>1, <2>2, DeleteKeepsLinks
  <2>4. Rings'
    <3>1. SUFFICES ASSUME NEW g \in Heads PROVE \E t \in Seq(Nodes) : Holds(g, t)'
      BY DEF Rings
    <3>2. PICK s \in Seq(Nodes) : Holds(g, s)
      BY <1>1 DEF Rings
    <3> QED
      BY <1>1, <2>1, <2>2, <3>2, DeleteEffect, RemoveFacts
  <2>5. LoopInv'
    BY <2>1 DEF LoopInv, loopVars
  <2> QED
    BY <2>1, <2>3, <2>4, <2>5, CallerKeeps DEF loopVars
<1>4. CASE UNCHANGED vars
  <2>1. LinksInv' /\ Rings'
    BY <1>1, <1>4, RingsStay DEF vars
  <2>2. LoopInv'
    BY <1>4 DEF ListInv, LoopInv, Holds, Stands, Entry, vars, loopVars
  <2> QED
    BY <1>4, <2>1, <2>2, CallerKeeps DEF vars, loopVars
<1> QED
  BY <1>2, <1>3, <1>4, AddKeeps, DeleteKeeps, StartKeeps, NextRoundKeeps DEF Next

-----------------------------------------------------------------------------
THEOREM Invariance == Spec => []ListInv
<1> QED
  BY InitEstablishes, StepPreserves, PTL DEF Spec

\* The loops' variables and the pointers of list.h stay in their types.
THEOREM TypeCorrect == Spec => []TypeOK
<1>1. ListInv => TypeOK
  BY DEF ListInv
<1> QED
  BY <1>1, Invariance, PTL

\* However many nodes and lists there are, adding and deleting keep next and
\* prev each other's inverse.
THEOREM LinksAgree == Spec => []WellLinked
<1>1. ListInv => WellLinked
  BY DEF ListInv
<1> QED
  BY <1>1, Invariance, PTL

\* No loop follows a NULL, whatever the body of list_for_each_safe deletes
\* except the element that n names, and that of list_for_each except pos.
THEOREM WalksStayOnList == Spec => []NoNullWalk
<1>1. ListInv => NoNullWalk
  BY DEF ListInv
<1> QED
  BY <1>1, Invariance, PTL

\* A loop of list_for_each or list_for_each_safe that has ended has visited all
\* that was on the list from its beginning, whatever its body added, deleted
\* and moved, on lists of any length.
THEOREM WalksVisitAll == Spec => []WalkComplete
<1>1. ListInv => WalkComplete
  BY DEF ListInv
<1> QED
  BY <1>1, Invariance, PTL

\* Neither loop runs its body a second time for a node.
THEOREM WalksVisitOnce == Spec => VisitsOnce
<1>1. ListInv /\ [Next]_vars => [NextRound /\ phase' = "body" => pos' \notin visited]_vars
  BY NextRoundKeeps
<1> QED
  BY <1>1, Invariance, PTL DEF Spec, VisitsOnce

\* Why a loop ends: each round that runs the body leaves fewer nodes for which
\* it can run, whatever the body has added meanwhile.
THEOREM RoundsRunOut ==
  Spec => [][NextRound /\ phase' = "body" =>
               Cardinality(Nodes \ visited') < Cardinality(Nodes \ visited)]_vars
<1>1. ASSUME ListInv, NextRound, phase' = "body"
      PROVE  Cardinality(Nodes \ visited') < Cardinality(Nodes \ visited)
  <2>1. /\ pos' \in Nodes \ visited
        /\ Nodes \ visited' = (Nodes \ visited) \ {pos'}
    BY <1>1, NextRoundKeeps
  <2>2. IsFiniteSet(Nodes \ visited)
    BY ListAssumption, FS_Subset
  <2>3. Cardinality(Nodes \ visited) \in Nat
    BY <2>2, FS_CardinalityType
  <2>4. Cardinality((Nodes \ visited) \ {pos'}) = Cardinality(Nodes \ visited) - 1
    BY <2>1, <2>2, FS_RemoveElement
  <2>5. Cardinality(Nodes \ visited') = Cardinality(Nodes \ visited) - 1
    BY <2>1, <2>4
  <2> QED
    BY <2>3, <2>5
<1> QED
  BY <1>1, Invariance, PTL DEF Spec

\* The contents of a list change as an operation's name promises, or not at all.
LEMMA StepKeepsContents ==
  ASSUME ListInv, LinksInv', [Next]_vars, ContentsExact', NEW h \in Heads
  PROVE  UNCHANGED vars \/ KeepsContents(h)
<1>1. LinksInv /\ Rings
  BY DEF ListInv, LinksInv, TypeOK
<1>2. PICK s \in Seq(Nodes) : Holds(h, s)
  BY <1>1 DEF Rings
<1>3. Contents(h) = s
  BY <1>1, <1>2, ContentsHeld
<1>4. /\ Len(s) \in Nat /\ 0 \in 0..Len(s)
      /\ \A i \in 1..Len(s) : Entry(h, s, i) = s[i] /\ s[i] \in Nodes
      /\ \A i \in 0..Len(s) : Entry(h, s, i) \in Elements
  BY EntryFacts
<1>5. ASSUME NEW t \in Seq(Nodes), Holds(h, t)' PROVE Contents(h)' = t
  BY <1>5 DEF ContentsExact
<1>6. ASSUME NEW i \in 0..Len(s) PROVE i > 0 => i \in 1..Len(s)
  BY <1>4
<1> QED
  <2>1. ASSUME NEW e \in Nodes, NEW i \in 0..Len(s), Add(e, Entry(h, s, i))
        PROVE  Contents(h)' = InsertAt(s, i + 1, e)
    BY <1>1, <1>2, <1>4, <1>5, <2>1, AddEffect, InsertFacts
  <2>2. ASSUME NEW e \in Nodes, NEW i \in 0..Len(s), AddTail(e, Entry(h, s, i))
        PROVE  Contents(h)' = InsertAt(s, IF i = 0 THEN Len(s) + 1 ELSE i, e)
    <3>1. Holds(h, InsertAt(s, IF i = 0 THEN Len(s) + 1 ELSE i, e))'
      BY <1>1, <1>2, <1>4, <2>2, AddTailEffect
    <3>2. CASE i = 0
      <4>1. Len(s) \in 0..Len(s)
        BY <1>4
      <4>2. InsertAt(s, Len(s) + 1, e) \in Seq(Nodes)
        BY <4>1, InsertFacts
      <4> QED
        BY <1>5, <3>1, <3>2, <4>2
    <3>3. CASE i # 0
      <4>1. i - 1 \in 0..Len(s) /\ (i - 1) + 1 = i
        BY <1>4, <3>3
      <4>2. InsertAt(s, (i - 1) + 1, e) \in Seq(Nodes)
        BY <4>1, InsertFacts
      <4> QED
        BY <1>5, <3>1, <3>3, <4>1, <4>2
    <3> QED
      BY <3>2, <3>3
  <2>3. ASSUME NEW i \in 0..Len(s), Removes(h, i)
        PROVE  Contents(h)' = RemoveAt(s, i)
    <3>1. CASE i > 0 /\ Delete(Entry(h, s, i))
      <4>1. i \in 1..Len(s) /\ Entry(h, s, i) = s[i] /\ s[i] \in Nodes
        BY <1>4, <1>6, <3>1
      <4>2. Linked(s[i]) /\ list_del(s[i])
        BY <3>1, <4>1 DEF Delete
      <4>3. Holds(h, RemoveAt(s, i))'
        BY <1>1, <1>2, <4>1, <4>2, DeleteEffect
      <4> QED
        BY <1>5, <4>1, <4>3, RemoveFacts
    <3>2. CASE i = 1 /\ Drain(h)
      <4>1. 1 \in 1..Len(s) /\ Holds(h, RemoveAt(s, 1))'
        BY <1>1, <1>2, <3>2, DrainEffect
      <4> QED
        BY <1>5, <3>2, <4>1, RemoveFacts
    <3> QED
      BY <1>3, <2>3, <3>1, <3>2 DEF Removes
  <2>4. \/ UNCHANGED vars
        \/ \E e \in Nodes, i \in 0..Len(s) : Inserts(h, i, e) \/ Removes(h, i)
        \/ Contents(h)' = s
    <3>1. ASSUME NEW e \in Nodes, InitNode(e) PROVE Contents(h)' = s
      <4>1. Free(e) /\ INIT_LIST_HEAD(e)
        BY <3>1 DEF InitNode
      <4> QED
        BY <1>1, <1>2, <1>5, <4>1, InitHolds
    <3>2. ASSUME NEW e \in Nodes, NEW at \in Elements, Add(e, at) \/ AddTail(e, at)
          PROVE  (\E i \in 0..Len(s) : Inserts(h, i, e)) \/ Contents(h)' = s
      <4>1. CASE \A i \in 0..Len(s) : at # Entry(h, s, i)
        BY <1>1, <1>2, <1>5, <3>2, <4>1, AddEffect, AddTailEffect
      <4>2. CASE \E i \in 0..Len(s) : at = Entry(h, s, i)
        BY <1>3, <3>2, <4>2 DEF Inserts
      <4> QED
        BY <4>1, <4>2
    <3>3. ASSUME NEW e \in Nodes, Delete(e)
          PROVE  (\E i \in 0..Len(s) : Removes(h, i)) \/ Contents(h)' = s
      <4>1. CASE \A i \in 1..Len(s) : e # s[i]
        BY <1>1, <1>2, <1>5, <3>3, <4>1, DeleteEffect DEF Delete
      <4>2. CASE \E i \in 1..Len(s) : e = s[i]
        <5>1. PICK i \in 1..Len(s) : e = s[i]
          BY <4>2
        <5>2. i \in 0..Len(s) /\ i > 0 /\ Entry(h, s, i) = e
          BY <1>4, <5>1
        <5> QED
          BY <1>3, <3>3, <5>2 DEF Removes
      <4> QED
        BY <4>1, <4>2
    <3>4. ASSUME NEW g \in Heads, Drain(g)
          PROVE  \/ \E e \in Nodes, i \in 0..Len(s) : Removes(h, i)
                 \/ Contents(h)' = s
      <4>1. PICK t \in Seq(Nodes) : Holds(g, t)
        BY <1>1 DEF Rings
      <4>2. list_first_entry(g) \in Nodes
        BY <1>1, <3>4, <4>1, DrainEffect
      <4>3. CASE g = h
        <5>1. 1 \in 1..Len(s)
          BY <1>1, <1>2, <3>4, <4>3, DrainEffect
        <5>2. 1 \in 0..Len(s) /\ Removes(h, 1)
          BY <1>4, <3>4, <4>3, <5>1 DEF Removes
        <5> QED
          BY <4>2, <5>2
      <4>4. CASE g # h
        BY <1>1, <1>2, <1>5, <3>4, <4>1, <4>4, DrainEffect
      <4> QED
        BY <4>3, <4>4
    <3>5. ASSUME UNCHANGED <<next, prev>> PROVE Contents(h)' = s
      <4>1. Holds(h, s)'
        BY <1>2, <3>5 DEF Holds
      <4> QED
        BY <1>5, <4>1
    <3>6. ASSUME NEW g \in Heads, NEW isSafe \in BOOLEAN, list_for_each(g, isSafe)
          PROVE  Contents(h)' = s
      BY <3>5, <3>6 DEF list_for_each
    <3>7. CASE NextRound
      BY <3>5, <3>7 DEF NextRound
    <3> QED
      <4>1. CASE UNCHANGED vars
        BY <4>1
      <4>2. CASE \E e \in Nodes : InitNode(e)
        BY <3>1, <4>2
      <4>3. CASE \E e \in Nodes : Delete(e)
        BY <3>3, <4>3
      <4>4. CASE \E e \in Nodes, at \in Elements : Add(e, at) \/ AddTail(e, at)
        BY <3>2, <4>4
      <4>5. CASE \E g \in Heads : Drain(g)
        BY <3>4, <4>5
      <4>6. CASE \E g \in Heads, isSafe \in BOOLEAN : list_for_each(g, isSafe)
        BY <3>6, <4>6
      <4> QED
        BY <3>7, <4>1, <4>2, <4>3, <4>4, <4>5, <4>6 DEF Next
  <2> QED
    BY <1>3, <2>1, <2>2, <2>3, <2>4 DEF KeepsContents

\* Each operation has on the contents of a list the effect that its name
\* promises, and none on any other list, for any number of lists and nodes.
THEOREM ContentsKept == Spec => OperationsKeepContents
<1>1. ContentsExact'
  BY ContentsAreExact, PTL
<1>2. ListInv => LinksInv
  BY DEF ListInv, LinksInv, TypeOK
<1>3. ListInv /\ LinksInv' /\ ContentsExact' /\ [Next]_vars =>
        [\A h \in Heads : KeepsContents(h)]_vars
  BY StepKeepsContents
<1> QED
  BY <1>1, <1>2, <1>3, Invariance, PTL DEF Spec, OperationsKeepContents
=============================================================================
