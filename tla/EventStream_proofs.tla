-------------------------- MODULE EventStream_proofs --------------------------
(***************************************************************************)
(* Proofs about EventStream, for any number of events, connections and     *)
(* troubles, and every batch limit: its inductive invariant, that nothing  *)
(* is lost in silence, and that it implements EventDelivery.               *)
(***************************************************************************)
EXTENDS EventStream, FiniteSetTheorems, SequenceTheorems, WellFoundedInduction,
        TLAPS

(***************************************************************************)
(* Numbers and finite sets of numbers.                                     *)
(***************************************************************************)
LEMMA LeastExists ==
  ASSUME NEW T \in SUBSET Nat, T # {}
  PROVE  \E x \in T : \A y \in T : x <= y
<1> DEFINE Less == {ss \in Nat \X Nat : ss[1] < ss[2]}
<1>1. IsWellFoundedOn(Less, Nat)
  BY NatLessThanWellFounded DEF OpToRel
<1>2. \E x \in T : \A y \in T : <<y, x>> \notin Less
  <2> HIDE DEF Less
  <2> QED
    BY <1>1, WFMin
<1>3. ASSUME NEW x \in T, NEW y \in T, <<y, x>> \notin Less
      PROVE  x <= y
  BY <1>3
<1> QED
  BY <1>2, <1>3

LEMMA GreatestExists ==
  ASSUME NEW n \in Nat, NEW T \in SUBSET (0 .. n), T # {}
  PROVE  \E x \in T : \A y \in T : y <= x
<1> DEFINE U == {n - y : y \in T}
<1>1. U \in SUBSET Nat /\ U # {}
  OBVIOUS
<1>2. PICK u \in U : \A v \in U : u <= v
  <2> HIDE DEF U
  <2> QED
    BY <1>1, LeastExists
<1>3. PICK x \in T : u = n - x
  BY <1>2
<1>4. ASSUME NEW y \in T PROVE y <= x
  <2>1. n - y \in U
    OBVIOUS
  <2>2. n - x <= n - y
    BY <1>2, <1>3, <2>1
  <2> QED
    BY <2>2
<1> QED
  BY <1>4

LEMMA Quotient ==
  ASSUME NEW x \in Nat, NEW m \in Nat \ {0}
  PROVE  /\ x \div m \in Nat
         /\ m * (x \div m) <= x
         /\ x < m * (x \div m) + m
OBVIOUS

LEMMA ProductsOrdered ==
  ASSUME NEW m \in Nat, NEW x \in Int, NEW y \in Int, x < y
  PROVE  m * x + m <= m * y
OBVIOUS

LEMMA QuotientsOrdered ==
  ASSUME NEW m \in Nat \ {0}, NEW x \in Nat, NEW y \in Nat, x <= y
  PROVE  x \div m <= y \div m
<1>1. CASE y \div m < x \div m
  <2>1. m * (y \div m) + m <= m * (x \div m)
    BY <1>1, ProductsOrdered, Quotient
  <2>2. /\ m * (y \div m) \in Int /\ m * (x \div m) \in Int
    BY Quotient
  <2> QED
    BY <2>1, <2>2, Quotient
<1> QED
  BY <1>1, Quotient

(***************************************************************************)
(* Batches: the place of an event in a set of events.                      *)
(***************************************************************************)
LEMMA BeforeFinite ==
  ASSUME NEW n \in Nat, NEW S \in SUBSET (1 .. n), NEW u \in S
  PROVE  /\ IsFiniteSet(S) /\ Cardinality(S) \in Nat
         /\ IsFiniteSet(Before(u, S)) /\ Cardinality(Before(u, S)) \in Nat
         /\ Cardinality(Before(u, S)) < Cardinality(S)
<1>1. IsFiniteSet(S)
  <2>1. IsFiniteSet(1 .. n)
    BY FS_Interval
  <2> QED
    BY <2>1, FS_Subset
<1>2. /\ IsFiniteSet(S \ {u}) /\ Cardinality(S \ {u}) = Cardinality(S) - 1
  BY <1>1, FS_RemoveElement
<1>3. Before(u, S) \in SUBSET (S \ {u})
  BY DEF Before
<1>4. /\ IsFiniteSet(Before(u, S)) /\ Cardinality(Before(u, S)) <= Cardinality(S \ {u})
  BY <1>2, <1>3, FS_Subset
<1> QED
  BY <1>1, <1>2, <1>4, FS_CardinalityType

LEMMA PlacesOrdered ==
  ASSUME NEW n \in Nat, NEW S \in SUBSET (1 .. n), NEW u \in S, NEW v \in S, u <= v
  PROVE  Cardinality(Before(u, S)) <= Cardinality(Before(v, S))
<1>1. ASSUME NEW x \in Before(u, S) PROVE x \in Before(v, S)
  <2>1. x \in S /\ x < u /\ x \in Nat /\ u \in Nat /\ v \in Nat
    BY DEF Before
  <2> QED
    BY <2>1 DEF Before
<1>2. Before(u, S) \in SUBSET Before(v, S)
  BY <1>1
<1>3. IsFiniteSet(Before(v, S))
  BY BeforeFinite
<1> QED
  BY <1>2, <1>3, FS_Subset

\* The event right before u has the place right before.
LEMMA PlaceBefore ==
  ASSUME NEW n \in Nat, NEW S \in SUBSET (1 .. n), NEW u \in S, Before(u, S) # {}
  PROVE  \E w \in S : w < u /\ Cardinality(Before(w, S)) = Cardinality(Before(u, S)) - 1
<1>1. Before(u, S) \in SUBSET (0 .. n)
  <2>1. ASSUME NEW x \in Before(u, S) PROVE x \in 0 .. n
    BY DEF Before
  <2> QED
    BY <2>1
<1>2. PICK w \in Before(u, S) : \A v \in Before(u, S) : v <= w
  BY <1>1, GreatestExists
<1>3. Before(w, S) = Before(u, S) \ {w}
  <2>1. /\ w \in S /\ w < u /\ w \in Nat /\ u \in Nat
        /\ \A x \in S : x \in Nat /\ (x < u => x <= w)
    BY <1>2 DEF Before
  <2>2. ASSUME NEW x \in S PROVE x < w <=> x < u /\ x # w
    BY <2>1
  <2> QED
    BY <2>2 DEF Before
<1>4. IsFiniteSet(Before(u, S))
  BY BeforeFinite
<1>5. Cardinality(Before(u, S) \ {w}) = Cardinality(Before(u, S)) - 1
  BY <1>4, FS_RemoveElement
<1>6. w \in S /\ w < u
  BY DEF Before
<1> QED
  BY <1>3, <1>5, <1>6

LEMMA PlacesTaken ==
  ASSUME NEW n \in Nat, NEW S \in SUBSET (1 .. n), NEW k \in Nat, k < Cardinality(S)
  PROVE  \E u \in S : Cardinality(Before(u, S)) = k
<1> DEFINE T == {u \in S : k <= Cardinality(Before(u, S))}
<1>1. IsFiniteSet(S) /\ Cardinality(S) \in Nat /\ S # {}
  <2>1. IsFiniteSet(1 .. n)
    BY FS_Interval
  <2>2. IsFiniteSet(S)
    BY <2>1, FS_Subset
  <2> QED
    BY <2>2, FS_CardinalityType, FS_EmptySet
<1>2. S \in SUBSET (0 .. n)
  <2>1. ASSUME NEW x \in S PROVE x \in 0 .. n
    OBVIOUS
  <2> QED
    BY <2>1
<1>3. PICK g \in S : \A y \in S : y <= g
  BY <1>1, <1>2, GreatestExists
<1>4. Before(g, S) = S \ {g}
  <2>1. g \in Nat /\ \A y \in S : y \in Nat /\ y <= g
    BY <1>3
  <2>2. ASSUME NEW y \in S PROVE y < g <=> y # g
    BY <2>1
  <2> QED
    BY <2>2 DEF Before
<1>5. Cardinality(Before(g, S)) = Cardinality(S) - 1
  BY <1>1, <1>4, FS_RemoveElement
<1>6. g \in T
  BY <1>1, <1>5
<1>7. T \in SUBSET Nat /\ T # {}
  <2>1. ASSUME NEW x \in T PROVE x \in Nat
    OBVIOUS
  <2> QED
    BY <1>6, <2>1
<1>8. PICK t \in T : \A y \in T : t <= y
  <2> HIDE DEF T
  <2> QED
    BY <1>7, LeastExists
<1>9. t \in S /\ k <= Cardinality(Before(t, S))
  BY <1>8
<1>10. CASE k < Cardinality(Before(t, S))
  <2>1. Before(t, S) # {}
    BY <1>10, FS_EmptySet
  <2>2. PICK w \in S : w < t /\ Cardinality(Before(w, S)) = Cardinality(Before(t, S)) - 1
    BY <1>9, <2>1, PlaceBefore
  <2>3. Cardinality(Before(t, S)) \in Nat
    BY <1>9, BeforeFinite
  <2>4. w \in T
    BY <1>10, <2>2, <2>3
  <2> QED
    BY <1>8, <2>2, <2>4
<1>11. Cardinality(Before(t, S)) \in Nat
  BY <1>9, BeforeFinite
<1> QED
  BY <1>9, <1>10, <1>11

\* sendCatchup(): the batches hold every event, in order, and none is empty.
LEMMA BatchesOfEvents ==
  ASSUME NEW n \in Nat, NEW S \in SUBSET (1 .. n)
  PROVE  /\ Batches(S) \in Seq((SUBSET S) \ {{}})
         /\ \A u \in S : \E i \in DOMAIN Batches(S) : u \in Batches(S)[i]
         /\ \A i, k \in DOMAIN Batches(S) : \A u \in Batches(S)[k], v \in Batches(S)[i] :
              u < v => k <= i
<1> DEFINE m == Limit
           total == Cardinality(S)
           count == (total + m - 1) \div m
           Place(u) == Cardinality(Before(u, S))
<1>1. m \in Nat \ {0}
  BY StreamAssumption
<1>2. IsFiniteSet(S) /\ total \in Nat
  <2>1. IsFiniteSet(1 .. n)
    BY FS_Interval
  <2>2. IsFiniteSet(S)
    BY <2>1, FS_Subset
  <2> QED
    BY <2>2, FS_CardinalityType
<1>3. count \in Nat /\ m * count <= total + m - 1 /\ total + m - 1 < m * count + m
  <2>1. total + m - 1 \in Nat
    BY <1>1, <1>2
  <2> QED
    BY <1>1, <2>1, Quotient
<1>4. /\ DOMAIN Batches(S) = 1 .. count
      /\ \A i \in 1 .. count : Batches(S)[i] = {u \in S : Place(u) \div m = i - 1}
  BY DEF Batches
<1>5. \A u \in S : Place(u) \in Nat /\ Place(u) < total
  BY BeforeFinite
<1>6. ASSUME NEW u \in S
      PROVE  Place(u) \div m + 1 \in 1 .. count
  <2> DEFINE q == Place(u) \div m
  <2>1. q \in Nat /\ m * q <= Place(u)
    BY <1>1, <1>5, Quotient
  <2>2. CASE count <= q
    <3>1. count = q \/ m * count + m <= m * q
      BY <1>1, <1>3, <2>1, <2>2, ProductsOrdered
    <3>2. m * count <= m * q
      BY <1>1, <1>3, <2>1, <3>1
    <3> HIDE DEF q, count, Place, total, m
    <3>3. m * count \in Int /\ m * q \in Int
      BY <1>1, <1>3, <2>1
    <3> QED
      BY <1>1, <1>2, <1>3, <1>5, <2>1, <3>2, <3>3
  <2> HIDE DEF q, count
  <2> QED
    BY <1>3, <2>1, <2>2 DEF q
<1>7. ASSUME NEW i \in 1 .. count
      PROVE  \E u \in S : Place(u) \div m = i - 1
  <2> DEFINE k == m * (i - 1)
  <2> HIDE DEF count, total, m
  <2>1. k \in Nat
    BY <1>1, <1>3
  <2>2. m * (i - 1) + m <= m * i
    BY <1>1, <1>3, ProductsOrdered
  <2>3. i = count \/ m * i + m <= m * count
    BY <1>1, <1>3, ProductsOrdered
  <2>4. m * i \in Int /\ m * count \in Int
    BY <1>1, <1>3
  <2>5. k < total
    <3> HIDE DEF k
    <3>1. k + m <= m * i
      BY <2>2 DEF k
    <3>2. m * i <= m * count
      BY <1>1, <2>3, <2>4
    <3> QED
      BY <1>1, <1>2, <1>3, <2>1, <2>4, <3>1, <3>2
  <2>6. PICK u \in S : Place(u) = k
    BY <2>1, <2>5, PlacesTaken DEF total
  <2>7. k \div m = i - 1
    <3> DEFINE q == k \div m
    <3>1. q \in Nat /\ m * q <= k /\ k < m * q + m
      BY <1>1, <2>1, Quotient
    <3>2. i - 1 \in Nat
      BY <1>3
    <3>3. q < i - 1 => m * q + m <= m * (i - 1)
      BY <1>1, <3>1, <3>2, ProductsOrdered
    <3>4. i - 1 < q => m * (i - 1) + m <= m * q
      BY <1>1, <3>1, <3>2, ProductsOrdered
    <3> HIDE DEF q
    <3>5. m * q \in Int
      BY <1>1, <3>1
    <3> QED
      BY <1>1, <2>1, <3>1, <3>2, <3>3, <3>4, <3>5 DEF q, k
  <2> QED
    BY <2>6, <2>7
<1>8. ASSUME NEW i \in 1 .. count PROVE Batches(S)[i] \in (SUBSET S) \ {{}}
  <2>1. Batches(S)[i] = {u \in S : Place(u) \div m = i - 1}
    BY <1>4
  <2>2. PICK u \in S : Place(u) \div m = i - 1
    BY <1>7
  <2>3. u \in Batches(S)[i]
    BY <2>1, <2>2
  <2>4. Batches(S)[i] \in SUBSET S
    BY <2>1
  <2> QED
    BY <2>3, <2>4
<1>9. Batches(S) \in Seq((SUBSET S) \ {{}})
  <2> HIDE DEF count
  <2>1. Batches(S) = [i \in 1 .. count |-> Batches(S)[i]]
    BY <1>4 DEF Batches, count, m, total
  <2>2. Batches(S) \in [1 .. count -> (SUBSET S) \ {{}}]
    BY <1>8, <2>1
  <2> QED
    BY <1>3, <2>2, SeqDef
<1>10. ASSUME NEW u \in S PROVE \E i \in DOMAIN Batches(S) : u \in Batches(S)[i]
  <2> DEFINE i == Place(u) \div m + 1
  <2>1. i \in 1 .. count /\ Place(u) \div m = i - 1
    BY <1>1, <1>5, <1>6, Quotient
  <2> HIDE DEF i
  <2> QED
    BY <1>4, <2>1
<1>11. ASSUME NEW i \in 1 .. count, NEW k \in 1 .. count,
              NEW u \in Batches(S)[k], NEW v \in Batches(S)[i], u < v
       PROVE  k <= i
  <2>1. u \in S /\ v \in S /\ Place(u) \div m = k - 1 /\ Place(v) \div m = i - 1
    BY <1>4
  <2>2. Place(u) <= Place(v)
    <3>1. u \in Nat /\ v \in Nat /\ u <= v
      BY <1>11, <2>1
    <3> QED
      BY <2>1, <3>1, PlacesOrdered
  <2>3. Place(u) \div m <= Place(v) \div m
    BY <1>1, <1>5, <2>1, <2>2, QuotientsOrdered
  <2> HIDE DEF count, Place, m
  <2> QED
    BY <1>3, <2>1, <2>3
<1> QED
  BY <1>4, <1>9, <1>10, <1>11

(***************************************************************************)
(* The history of events.                                                  *)
(***************************************************************************)
LEMMA UidsAre ==
  ASSUME LogTypeOK
  PROVE  /\ Len(hist) \in Nat /\ Uids = 1 .. Len(hist)
         /\ Agent \subseteq Uids
         /\ \A u \in Uids : Id(u) \in Nat
<1>1. hist \in Seq(Event)
  BY DEF LogTypeOK
<1>2. Len(hist) \in Nat /\ DOMAIN hist = 1 .. Len(hist)
  BY <1>1, LenProperties
<1>3. ASSUME NEW u \in Uids PROVE Id(u) \in Nat
  <2>1. hist[u] \in Event
    BY <1>1, <1>2, ElementOfSeq DEF Uids
  <2> QED
    BY <2>1 DEF Event, Id
<1> QED
  BY <1>2, <1>3 DEF Uids, Agent

\* A step that writes no event: what is owed can only become less.
LEMMA SameHistory ==
  ASSUME hist' = hist, aged \in Nat, aged' \in Nat, aged <= aged',
         handled \subseteq handled', unannounced \subseteq unannounced',
         dropped \subseteq dropped'
  PROVE  /\ Uids' = Uids /\ Agent' = Agent
         /\ \A u \in Uids : Id(u)' = Id(u)
         /\ Owed' \subseteq Owed
<1>1. /\ Uids' = Uids /\ Agent' = Agent /\ Reused' = Reused
      /\ \A u \in Uids : Id(u)' = Id(u)
  BY DEF Uids, Agent, Reused, Id
<1>2. \A u : u \in 1 .. aged => u \in 1 .. aged'
  OBVIOUS
<1>3. Excused \subseteq Excused'
  BY <1>1, <1>2 DEF Excused
<1> QED
  BY <1>1, <1>3 DEF Owed

\* A step that writes one: it is owed only if its id is larger than all earlier.
LEMMA NewEvent ==
  ASSUME LogTypeOK, NEW kind \in {"agent", "derived"}, Write(kind),
         UNCHANGED <<handled, unannounced, dropped, aged>>,
         NEW u, u = Len(hist) + 1
  PROVE  /\ hist' \in Seq(Event) /\ Uids' = Uids \union {u} /\ u \notin Uids
         /\ \A v \in Uids : v < u /\ v \in Nat /\ Id(v)' = Id(v)
         /\ Id(u)' = nextId
         /\ Agent' = IF kind = "agent" THEN Agent \union {u} ELSE Agent
         /\ Reused \subseteq Reused' /\ Reused' \subseteq Reused \union {u}
         /\ Owed' \subseteq Owed \union {u}
         /\ u \in Owed' => \A v \in Uids : Id(v) < nextId
<1>1. /\ hist \in Seq(Event) /\ Len(hist) \in Nat /\ Uids = 1 .. Len(hist)
      /\ nextId \in Nat /\ u \in Nat
  BY UidsAre DEF LogTypeOK
<1>2. [id |-> nextId, kind |-> kind] \in Event
  BY <1>1 DEF Event
<1>3. /\ hist' \in Seq(Event) /\ Len(hist') = u
      /\ \A v \in 1 .. Len(hist) : hist'[v] = hist[v]
      /\ hist'[u] = [id |-> nextId, kind |-> kind]
  BY <1>1, <1>2, AppendProperties DEF Write
<1>4. /\ Uids' = Uids \union {u} /\ u \notin Uids
      /\ \A v \in Uids : v < u /\ v \in Nat /\ Id(v)' = Id(v)
      /\ Id(u)' = nextId
  <2>1. DOMAIN hist' = 1 .. u
    BY <1>3, LenProperties
  <2>2. Uids' = 1 .. u
    BY <2>1 DEF Uids
  <2>3. ASSUME NEW v \in Uids PROVE v < u /\ v \in Nat /\ Id(v)' = Id(v)
    BY <1>1, <1>3 DEF Id
  <2>4. \A n \in Nat : 1 .. n + 1 = (1 .. n) \union {n + 1} /\ n + 1 \notin 1 .. n
    OBVIOUS
  <2>5. Uids' = Uids \union {u} /\ u \notin Uids
    BY <1>1, <2>2, <2>4
  <2>6. Id(u)' = nextId
    BY <1>3 DEF Id
  <2> QED
    BY <2>3, <2>5, <2>6
<1>5. Agent' = IF kind = "agent" THEN Agent \union {u} ELSE Agent
  <2>1. \A v \in Uids : hist'[v].kind = hist[v].kind
    BY <1>1, <1>3
  <2>2. hist'[u].kind = kind
    BY <1>3
  <2> QED
    BY <1>4, <2>1, <2>2 DEF Agent
<1>6. \A v \in Uids : v \in Reused' <=> v \in Reused
  <2>1. \A v \in Uids : 1 .. v - 1 \subseteq Uids
    BY <1>1
  <2> QED
    BY <1>4, <2>1 DEF Reused
<1>7. Reused \subseteq Reused' /\ Reused' \subseteq Reused \union {u}
  BY <1>4, <1>6 DEF Reused
<1>8. Owed' \subseteq Owed \union {u}
  BY <1>4, <1>5, <1>7 DEF Owed, Excused
<1>9. ASSUME u \in Owed', NEW v \in Uids PROVE Id(v) < nextId
  <2>1. u \notin Reused' /\ u \in Uids'
    BY <1>4, <1>9 DEF Owed, Excused
  <2>2. v \in 1 .. u - 1
    BY <1>1
  <2>3. Id(v)' = Id(v) /\ Id(v) \in Nat
    BY <1>4, UidsAre
  <2>4. ~(Id(v)' >= Id(u)')
    BY <2>1, <2>2 DEF Reused
  <2> QED
    BY <1>1, <1>4, <2>3, <2>4
<1> QED
  BY <1>3, <1>4, <1>5, <1>7, <1>8, <1>9

(***************************************************************************)
(* The queue of messages.                                                  *)
(***************************************************************************)
LEMMA HeadIs ==
  ASSUME NEW S, NEW q \in Seq(S), q # <<>>
  PROVE  /\ Len(q) \in Nat \ {0} /\ DOMAIN q = 1 .. Len(q)
         /\ Head(q) = q[1] /\ q[1] \in S
         /\ Tail(q) \in Seq(S) /\ Len(Tail(q)) = Len(q) - 1
         /\ DOMAIN Tail(q) = 1 .. Len(q) - 1
         /\ \A i \in 1 .. Len(q) - 1 : Tail(q)[i] = q[i + 1]
<1>1. Len(q) \in Nat \ {0} /\ DOMAIN q = 1 .. Len(q)
  BY EmptySeq, LenProperties
<1>2. /\ Tail(q) \in Seq(S) /\ Len(Tail(q)) = Len(q) - 1
      /\ \A i \in 1 .. Len(q) - 1 : Tail(q)[i] = q[i + 1]
  BY HeadTailProperties
<1>3. DOMAIN Tail(q) = 1 .. Len(q) - 1
  BY <1>2, LenProperties
<1>4. q[1] \in S
  BY <1>1, ElementOfSeq
<1>5. Head(q) = q[1]
  OBVIOUS
<1> QED
  BY <1>1, <1>2, <1>3, <1>4, <1>5

LEMMA AppendIs ==
  ASSUME NEW S, NEW q \in Seq(S), NEW m \in S
  PROVE  /\ Len(q) \in Nat /\ DOMAIN q = 1 .. Len(q)
         /\ Append(q, m) \in Seq(S) /\ DOMAIN Append(q, m) = 1 .. Len(q) + 1
         /\ Append(q, m)[Len(q) + 1] = m
         /\ \A i \in 1 .. Len(q) : Append(q, m)[i] = q[i]
<1>1. /\ Append(q, m) \in Seq(S) /\ Len(Append(q, m)) = Len(q) + 1
      /\ Append(q, m)[Len(q) + 1] = m
      /\ \A i \in 1 .. Len(q) : Append(q, m)[i] = q[i]
  BY AppendProperties
<1>2. DOMAIN Append(q, m) = 1 .. Len(q) + 1
  BY <1>1, LenProperties
<1> QED
  BY <1>1, <1>2, LenProperties

\* The event being handled is the first one of the first message.
LEMMA CurrentIs ==
  ASSUME LogTypeOK, queue \in Seq(Messages), queue # <<>>
  PROVE  /\ Head(queue) = queue[1] /\ queue[1] \in Messages
         /\ Current \in queue[1] /\ Current \in Agent
         /\ \A v \in queue[1] : Current <= v
<1>1. Head(queue) = queue[1] /\ queue[1] \in Messages
  BY HeadIs
<1>2. queue[1] \subseteq Agent /\ queue[1] # {}
  BY <1>1 DEF Messages
<1>3. queue[1] \in SUBSET Nat
  BY <1>2, UidsAre
<1>4. \E u \in queue[1] : \A v \in queue[1] : u <= v
  BY <1>2, <1>3, LeastExists
<1>5. Current \in queue[1] /\ \A v \in queue[1] : Current <= v
  BY <1>1, <1>4 DEF Current
<1> QED
  BY <1>1, <1>2, <1>5

LEMMA RestIs ==
  ASSUME LogTypeOK, queue \in Seq(Messages), queue # <<>>
  PROVE  /\ Rest \in Seq(Messages)
         /\ \/ /\ queue[1] = {Current}
               /\ DOMAIN Rest = 1 .. Len(queue) - 1
               /\ \A i \in 1 .. Len(queue) - 1 : Rest[i] = queue[i + 1]
            \/ /\ DOMAIN Rest = DOMAIN queue
               /\ Rest[1] = queue[1] \ {Current}
               /\ \A i \in DOMAIN queue \ {1} : Rest[i] = queue[i]
<1>1. /\ Head(queue) = queue[1] /\ queue[1] \in Messages /\ Current \in queue[1]
      /\ Len(queue) \in Nat \ {0} /\ DOMAIN queue = 1 .. Len(queue)
  BY CurrentIs, HeadIs
<1>2. CASE queue[1] = {Current}
  <2>1. Rest = Tail(queue)
    BY <1>1, <1>2 DEF Rest
  <2> QED
    BY <1>2, <2>1, HeadIs
<1>3. CASE queue[1] # {Current}
  <2>1. Rest = [queue EXCEPT ![1] = queue[1] \ {Current}]
    BY <1>1, <1>3 DEF Rest
  <2>2. queue[1] \ {Current} \in Messages
    BY <1>1, <1>3 DEF Messages
  <2>3. Rest \in Seq(Messages) /\ DOMAIN Rest = DOMAIN queue
    <3>1. 1 \in 1 .. Len(queue)
      BY <1>1
    <3> QED
      BY <2>1, <2>2, <3>1, ExceptSeq
  <2> QED
    BY <1>1, <2>1, <2>3
<1> QED
  BY <1>2, <1>3

(***************************************************************************)
(* What each step may do.                                                  *)
(***************************************************************************)
Writes == (AppendEvent \/ Derive) /\ UNCHANGED streamVars

\* A step writes an event and leaves the stream alone, or leaves the history as
\* it is and what is owed can only become less.
LEMMA HistorySteps ==
  ASSUME TypeOK, [Next]_vars
  PROVE  \/ Writes
         \/ /\ hist' = hist /\ aged \in Nat /\ aged' \in Nat /\ aged <= aged'
            /\ handled \subseteq handled' /\ unannounced \subseteq unannounced'
            /\ dropped \subseteq dropped'
            /\ Uids' = Uids /\ Agent' = Agent /\ \A u \in Uids : Id(u)' = Id(u)
            /\ Owed' \subseteq Owed
<1> DEFINE Quiet == /\ hist' = hist /\ aged \in Nat /\ aged' \in Nat /\ aged <= aged'
                    /\ handled \subseteq handled' /\ unannounced \subseteq unannounced'
                    /\ dropped \subseteq dropped'
<1>1. aged \in Nat
  BY DEF TypeOK, LogTypeOK
<1>3. CASE Recording
  <2>1. CASE AppendEvent
    BY <1>3, <2>1 DEF Recording, Writes
  <2>2. CASE Derive
    BY <1>3, <2>2 DEF Recording, Writes
  <2>3. CASE Prune \/ NoThreadChange \/ RecordFails \/ ServerStart \/ Age
    <3>1. Quiet
      BY <1>1, <1>3, <2>3 DEF Recording, Prune, NoThreadChange, RecordFails, ServerStart,
         Age, streamVars
    <3> QED
      BY <3>1, SameHistory
  <2> QED
    BY <1>3, <2>1, <2>2, <2>3 DEF Recording
<1>4. CASE ~Recording
  <2>1. Quiet
    BY <1>1, <1>4 DEF Next, Announce, Announced, CutAll, ServerCrash, Accept, Refuse, Cut,
       Receive, Closed, Errored, Start, TimerFires, Connect, Stop, Crash, HandleEvent,
       OpenCursor, WriteCursor, MessageFails, vars, streamVars, logVars, recordVars
  <2> QED
    BY <2>1, SameHistory
<1> QED
  BY <1>3, <1>4

LEMMA MoreMessages ==
  ASSUME Agent \subseteq Agent', NEW q \in Seq(Messages)
  PROVE  q \in Seq(Messages')
BY SeqMonotonic DEF Messages

LEMMA LogTypeKept ==
  ASSUME LogTypeOK, UNCHANGED recordVars, Trouble \/ UNCHANGED troubles
  PROVE  LogTypeOK'
<1>1. troubles' \in 0 .. MaxTroubles
  BY BoundsAssumption DEF LogTypeOK, Trouble
<1> QED
  BY <1>1 DEF LogTypeOK, recordVars, Uids

LEMMA TypeStep ==
  ASSUME TypeOK, LogKept, [Next]_vars
  PROVE  TypeOK'
<1> USE DEF TypeOK
<1>1. /\ Len(hist) \in Nat /\ Uids = 1 .. Len(hist) /\ Agent \subseteq Uids
      /\ \A u \in Uids : Id(u) \in Nat
  BY UidsAre
<1>2. CASE Writes
  <2>1. PICK kind \in {"agent", "derived"} :
          /\ Write(kind) /\ UNCHANGED <<serverUp, unannounced, aged, troubles, streamVars>>
          /\ AppendEvent \/ Derive
    BY <1>2 DEF Writes, AppendEvent, Derive
  <2>2. PICK u : u = Len(hist) + 1
    OBVIOUS
  <2>3. /\ hist' \in Seq(Event) /\ Uids' = Uids \union {u} /\ Agent \subseteq Agent'
        /\ Agent' \subseteq Uids'
    <3>1. UNCHANGED <<handled, unannounced, dropped, aged>>
      BY <2>1 DEF streamVars
    <3>2. /\ hist' \in Seq(Event) /\ Uids' = Uids \union {u}
          /\ Agent' = IF kind = "agent" THEN Agent \union {u} ELSE Agent
      BY <2>1, <2>2, <3>1, NewEvent
    <3> QED
      BY <1>1, <3>2
  <2>4. Len(hist') \in Nat /\ Len(hist) <= Len(hist')
    BY <1>1, <2>1, <2>3, AppendProperties DEF Write, LogTypeOK
  <2>5. LogTypeOK'
    <3>1. aged' \in 0 .. Len(hist')
      BY <1>1, <2>1, <2>4 DEF LogTypeOK
    <3>2. stage' \in Stages
      BY <2>1 DEF AppendEvent, Derive, Stages
    <3>3. /\ log' = log \union {u} /\ events' = events \union {u}
          /\ pending' = pending \union {u} /\ nextId' = nextId + 1
      BY <2>1, <2>2 DEF Write
    <3> QED
      BY <2>1, <2>3, <3>1, <3>2, <3>3 DEF LogTypeOK
  <2>6. chan' \in [Conns -> Seq(Messages')] /\ queue' \in Seq(Messages')
    BY <2>1, <2>3, MoreMessages DEF streamVars
  <2> QED
    BY <2>1, <2>3, <2>5, <2>6 DEF streamVars
<1>3. CASE ~Writes
  <2>1. hist' = hist /\ Agent' = Agent /\ Uids' = Uids /\ Messages' = Messages
    BY <1>3, HistorySteps DEF Messages
  <2>2. CASE Prune /\ UNCHANGED streamVars
    BY <2>1, <2>2 DEF Prune, LogTypeOK, Retained, Stages, streamVars
  <2>3. CASE NoThreadChange /\ UNCHANGED streamVars
    BY <2>1, <2>3 DEF NoThreadChange, LogTypeOK, Stages, streamVars
  <2>4. CASE RecordFails /\ UNCHANGED streamVars
    BY <2>1, <2>4, BoundsAssumption DEF RecordFails, Trouble, LogTypeOK, Stages, streamVars
  <2>5. CASE ServerStart /\ UNCHANGED streamVars
    <3>1. nextId' \in Nat \ {0}
      <4>1. nextId' \in NextEventId(log)
        BY <2>5 DEF ServerStart
      <4> DEFINE M == {m \in {0} \union {Id(u) : u \in log} : \A u \in log : Id(u) <= m}
      <4>2. PICK m \in {0} \union {Id(u) : u \in log} : nextId' = m + 1
        <5>1. nextId' \in {m + 1 : m \in M}
          BY <4>1 DEF NextEventId
        <5> HIDE DEF M
        <5>2. PICK m \in M : nextId' = m + 1
          BY <5>1
        <5>3. m \in {0} \union {Id(u) : u \in log}
          BY <5>2 DEF M
        <5> QED
          BY <5>2, <5>3
      <4>3. log \subseteq Uids
        BY DEF LogTypeOK
      <4>4. m \in Nat
        BY <1>1, <4>2, <4>3
      <4> QED
        BY <4>2, <4>4
    <3> QED
      BY <2>1, <2>5, <3>1 DEF ServerStart, LogTypeOK, Retained, streamVars
  <2>6. CASE Age /\ UNCHANGED streamVars
    BY <1>1, <2>1, <2>6, BoundsAssumption DEF Age, Trouble, LogTypeOK, streamVars
  <2>7. CASE Announce
    <3>1. LogTypeOK'
      BY <2>1, <2>7 DEF Announce, Announced, LogTypeOK, Stages
    <3>2. Wanted(pending) \in Messages
      BY <2>7 DEF Announce, Announced, LogKept, Messages, Wanted
    <3>3. \A c \in Conns : Append(chan[c], Wanted(pending)) \in Seq(Messages)
      BY <3>2, AppendIs
    <3>4. chan' \in [Conns -> Seq(Messages)]
      BY <2>7, <3>3 DEF Announce
    <3> QED
      BY <2>1, <2>7, <3>1, <3>4 DEF Announce
  <2>8. CASE CutAll
    <3>1. LogTypeOK'
      <4>1. troubles' \in 0 .. MaxTroubles
        BY <2>8, BoundsAssumption DEF CutAll, ServerCrash, Trouble, LogTypeOK
      <4>2. LogTypeOK
        OBVIOUS
      <4> HIDE DEF TypeOK
      <4>3. /\ UNCHANGED <<hist, log, unannounced, aged>> /\ serverUp' = FALSE
            /\ events' = {} /\ nextId' = 1 /\ stage' = "idle" /\ pending' = {}
        BY <2>8 DEF CutAll, ServerCrash
      <4>4. nextId' \in Nat \ {0} /\ stage' \in Stages
        BY <4>3 DEF Stages
      <4>7. serverUp' \in BOOLEAN
        BY <4>3, Zenon
      <4>5. /\ log' \subseteq Uids' /\ events' \subseteq log'
            /\ pending' \subseteq Uids' /\ unannounced' \subseteq Uids'
        BY <2>1, <4>2, <4>3 DEF LogTypeOK
      <4>6. hist' \in Seq(Event) /\ aged' \in 0 .. Len(hist')
        BY <4>2, <4>3 DEF LogTypeOK
      <4> QED
        BY <4>1, <4>4, <4>5, <4>6, <4>7 DEF LogTypeOK
    <3>2. conn' \in [Conns -> ConnStates]
      BY <2>8 DEF CutAll, ConnStates
    <3> QED
      BY <2>1, <2>8, <3>1, <3>2 DEF CutAll
  <2>9. ASSUME NEW c \in Conns, Accept(c) PROVE TypeOK'
    <3> DEFINE S == ListAfter(after[c])
    <3>1. S \in SUBSET (1 .. Len(hist)) /\ S \subseteq Agent
      BY <1>1 DEF ListAfter
    <3> HIDE DEF S
    <3>2. Batches(S) \in Seq((SUBSET S) \ {{}})
      BY <1>1, <3>1, BatchesOfEvents
    <3>3. Batches(S) \in Seq(Messages)
      BY <3>1, <3>2, SeqMonotonic DEF Messages
    <3>4. LogTypeOK'
      BY <2>9, LogTypeKept DEF Accept, logVars
    <3>5. chan' \in [Conns -> Seq(Messages)]
      BY <2>9, <3>3 DEF Accept, Catchup, S
    <3>6. conn' \in [Conns -> ConnStates]
      BY <2>9 DEF Accept, ConnStates
    <3> QED
      BY <2>1, <2>9, <3>4, <3>5, <3>6 DEF Accept
  <2>10. ASSUME NEW c \in Conns, Refuse(c) \/ Cut(c) PROVE TypeOK'
    <3>1. LogTypeOK'
      BY <2>10, LogTypeKept DEF Refuse, Cut, logVars
    <3>2. conn' \in [Conns -> ConnStates]
      BY <2>10 DEF Refuse, Cut, ConnStates
    <3> QED
      BY <2>1, <2>10, <3>1, <3>2 DEF Refuse, Cut
  <2>11. ASSUME NEW c \in Conns, Receive(c) PROVE TypeOK'
    <3>1. Head(chan[c]) \in Messages /\ Tail(chan[c]) \in Seq(Messages)
      BY <2>11, HeadIs DEF Receive
    <3>2. Append(queue, Head(chan[c])) \in Seq(Messages)
      BY <3>1, AppendIs
    <3>3. LogTypeOK'
      BY <2>11, LogTypeKept DEF Receive, logVars
    <3> QED
      BY <2>1, <2>11, <3>1, <3>2, <3>3 DEF Receive
  <2>12. ASSUME NEW c \in Conns, Closed(c) \/ Errored(c) PROVE TypeOK'
    <3>1. <<>> \in Seq(Messages)
      BY EmptySeq
    <3>2. LogTypeOK'
      BY <2>12, LogTypeKept DEF Closed, Errored, logVars
    <3>3. conn' \in [Conns -> ConnStates]
      <4>1. \A d \in Conns : conn'[d] \in {Free, "closed", conn[d]}
        BY <2>12 DEF Closed, Errored
      <4>2. conn' = [d \in Conns |-> conn'[d]]
        BY <2>12 DEF Closed, Errored
      <4> QED
        BY <4>1, <4>2 DEF ConnStates
    <3>4. chan' \in [Conns -> Seq(Messages)]
      <4>1. \A d \in Conns : chan'[d] \in {<<>>, chan[d]}
        BY <2>12 DEF Closed, Errored
      <4>2. chan' = [d \in Conns |-> chan'[d]]
        BY <2>12 DEF Closed, Errored
      <4>3. \A d \in Conns : chan'[d] \in Seq(Messages)
        <5>1. \A d \in Conns : chan[d] \in Seq(Messages)
          OBVIOUS
        <5> QED
          BY <3>1, <4>1, <5>1
      <4> QED
        BY <4>2, <4>3
    <3>5. after' \in [Conns -> Nat]
      <4>1. after' = [after EXCEPT ![c] = 0]
        BY <2>12 DEF Closed, Errored
      <4> QED
        BY <4>1
    <3>7. timer' \in BOOLEAN /\ sock' \in Conns \union {0}
      BY <2>12 DEF Closed, Errored
    <3>6. UNCHANGED <<consumer, reading, queue, phase, cursor, handled, dropped>>
      BY <2>12 DEF Closed, Errored
    <3> QED
      BY <2>1, <3>2, <3>3, <3>4, <3>5, <3>6, <3>7
  <2>13. CASE Start \/ TimerFires
    <3>1. <<cursor>> \in Seq(Nat) /\ Append(reading, cursor) \in Seq(Nat)
      BY AppendIs
    <3> QED
      BY <2>1, <2>13, <3>1 DEF Start, TimerFires, logVars, recordVars, LogTypeOK
  <2>14. CASE Connect
    <3>1. Head(reading) \in Nat /\ Tail(reading) \in Seq(Nat)
      BY <2>14, HeadIs DEF Connect
    <3> QED
      BY <2>1, <2>14, <3>1 DEF Connect, logVars, recordVars, LogTypeOK, ConnStates
  <2>15. CASE Stop \/ Crash
    <3>1. <<>> \in Seq(Messages) /\ <<>> \in Seq(Nat)
      BY EmptySeq
    <3>2. LogTypeOK'
      BY <2>15, LogTypeKept DEF Stop, Crash
    <3>3. conn' \in [Conns -> ConnStates] /\ after' \in [Conns -> Nat]
      BY <2>15 DEF Stop, Crash, Disconnected, ConnStates
    <3>4. chan' \in [Conns -> Seq(Messages)]
      BY <2>15, <3>1 DEF Stop, Crash, Disconnected
    <3>5. /\ consumer' \in {"running", "stopping", "down"} /\ queue' \in Seq(Messages)
          /\ phase' \in {"handle", "open", "write"} /\ reading' \in Seq(Nat)
          /\ sock' = 0 /\ timer' = FALSE
      BY <2>15, <3>1 DEF Stop, Crash, Disconnected
    <3>6. UNCHANGED <<cursor, handled, dropped>>
      BY <2>15 DEF Stop, Crash
    <3> QED
      BY <2>1, <3>2, <3>3, <3>4, <3>5, <3>6
  <2>16. CASE HandleEvent
    <3>1. Current \in Agent
      BY <2>16, CurrentIs DEF HandleEvent
    <3> QED
      BY <2>1, <2>16, <3>1 DEF HandleEvent, logVars, recordVars, LogTypeOK
  <2>17. CASE OpenCursor
    BY <2>1, <2>17 DEF OpenCursor, logVars, recordVars, LogTypeOK
  <2>18. CASE WriteCursor
    <3>1. Id(Current) \in Nat /\ Rest \in Seq(Messages)
      BY <1>1, <2>18, CurrentIs, RestIs DEF WriteCursor
    <3> QED
      BY <2>1, <2>18, <3>1 DEF WriteCursor, logVars, recordVars, LogTypeOK
  <2>19. CASE MessageFails
    <3>1. Head(queue) \subseteq Agent /\ Tail(queue) \in Seq(Messages)
      BY <2>19, HeadIs, CurrentIs DEF MessageFails, Messages
    <3> QED
      BY <2>1, <2>19, <3>1, BoundsAssumption DEF MessageFails, Trouble, recordVars, LogTypeOK
  <2>20. CASE UNCHANGED vars
    BY <2>1, <2>20 DEF vars, streamVars, logVars, recordVars, LogTypeOK
  <2> QED
    BY <1>3, <2>2, <2>3, <2>4, <2>5, <2>6, <2>7, <2>8, <2>9, <2>10, <2>11, <2>12, <2>13,
       <2>14, <2>15, <2>16, <2>17, <2>18, <2>19, <2>20, HistorySteps DEF Next, Recording, Writes, AppendEvent, Derive
<1> QED
  BY <1>2, <1>3

(***************************************************************************)
(* The log keeps what is not too old, and a request that is announced has  *)
(* one event of an agent.                                                  *)
(***************************************************************************)
LEMMA LogKeptStep ==
  ASSUME TypeOK, LogKept, [Next]_vars
  PROVE  LogKept'
<1> USE DEF TypeOK
<1>1. /\ Len(hist) \in Nat /\ Uids = 1 .. Len(hist) /\ Agent \subseteq Uids
      /\ aged \in Nat
  BY UidsAre DEF LogTypeOK
<1>2. CASE Writes
  <2>1. PICK kind \in {"agent", "derived"} :
          /\ Write(kind) /\ UNCHANGED <<serverUp, unannounced, aged, troubles, streamVars>>
          /\ \/ kind = "agent" /\ stage \in {"idle", "append"} /\ stage' = "project"
             \/ kind = "derived" /\ stage \in {"project", "derive"} /\ stage' = "announce"
          /\ serverUp
    BY <1>2 DEF Writes, AppendEvent, Derive
  <2>2. PICK u : u = Len(hist) + 1
    OBVIOUS
  <2>3. /\ Uids' = Uids \union {u} /\ u \notin Uids
        /\ Agent' = IF kind = "agent" THEN Agent \union {u} ELSE Agent
    <3>1. UNCHANGED <<handled, unannounced, dropped, aged>>
      BY <2>1 DEF streamVars
    <3> QED
      BY <2>1, <2>2, <3>1, NewEvent
  <2>4. /\ log' = log \union {u} /\ events' = events \union {u}
        /\ pending' = pending \union {u} /\ UNCHANGED <<serverUp, aged>>
    BY <2>1, <2>2 DEF Write
  <2>5. \A v \in Uids' : v > aged' => v \in log'
    BY <2>3, <2>4 DEF LogKept
  <2>6. events' = IF serverUp' THEN log' ELSE {}
    BY <2>1, <2>4 DEF LogKept
  <2>7. \E v \in Agent' : Wanted(pending)' = {v}
    <3>1. CASE kind = "agent"
      <4>1. pending' = {u} /\ u \in Agent'
        BY <2>1, <2>3, <2>4, <3>1 DEF LogKept
      <4>2. Wanted(pending)' = {u}
        BY <4>1 DEF Wanted
      <4> QED
        BY <4>1, <4>2
    <3>2. CASE kind = "derived"
      <4>1. \E v \in Agent : Wanted(pending) = {v}
        BY <2>1, <3>2 DEF LogKept
      <4>2. Agent' = Agent
        BY <2>3, <3>2
      <4>3. Wanted(pending)' = Wanted(pending)
        BY <1>1, <2>3, <2>4, <4>2 DEF Wanted
      <4> QED
        BY <4>1, <4>2, <4>3
    <3> QED
      BY <3>1, <3>2
  <2>8. stage' \notin {"idle", "append"}
    BY <2>1
  <2> QED
    BY <2>5, <2>6, <2>7, <2>8 DEF LogKept
<1>3. CASE ~Writes
  <2>1. hist' = hist /\ Agent' = Agent /\ Uids' = Uids
    BY <1>3, HistorySteps
  <2>2. ASSUME UNCHANGED <<log, events, serverUp, stage, pending>>, aged' \in Nat, aged <= aged'
        PROVE  LogKept'
    <3>1. \A u \in Uids' : u > aged' => u \in log'
      BY <1>1, <2>1, <2>2 DEF LogKept
    <3>2. Wanted(pending)' = Wanted(pending)
      BY <2>1, <2>2 DEF Wanted
    <3> QED
      BY <2>1, <2>2, <3>1, <3>2 DEF LogKept
  <2>3. CASE Prune
    <3>1. /\ events = log /\ UNCHANGED <<serverUp, pending, aged>> /\ serverUp
          /\ log' = Retained(log) /\ events' = Retained(log)
      BY <2>3 DEF Prune, LogKept
    <3>2. \A u \in Uids' : u > aged' => u \in log'
      BY <2>1, <3>1 DEF LogKept, Retained
    <3>3. Wanted(pending)' = Wanted(pending)
      BY <2>1, <3>1 DEF Wanted
    <3>4. \/ stage' = "append" /\ pending = {}
          \/ stage' = "derive" /\ \E u \in Agent : Wanted(pending) = {u}
      BY <2>3 DEF Prune, LogKept
    <3> QED
      BY <2>1, <3>1, <3>2, <3>3, <3>4 DEF LogKept
  <2>4. CASE NoThreadChange
    <3>1. /\ UNCHANGED <<log, events, serverUp, pending, aged>>
          /\ stage = "project" /\ stage' = "announce"
      BY <2>4 DEF NoThreadChange
    <3>2. Wanted(pending)' = Wanted(pending)
      BY <2>1, <3>1 DEF Wanted
    <3> QED
      BY <2>1, <3>1, <3>2 DEF LogKept
  <2>5. CASE RecordFails \/ Announce
    <3>1. /\ UNCHANGED <<log, events, serverUp, aged>> /\ pending' = {} /\ stage' = "idle"
      BY <2>5 DEF RecordFails, Announce, Announced
    <3> QED
      BY <2>1, <3>1 DEF LogKept
  <2>6. CASE ServerStart
    <3>1. /\ UNCHANGED <<stage, pending, aged>> /\ serverUp' = TRUE
          /\ log' = Retained(log) /\ events' = Retained(log)
      BY <2>6 DEF ServerStart
    <3>2. \A u \in Uids' : u > aged' => u \in log'
      BY <2>1, <3>1 DEF LogKept, Retained
    <3>3. Wanted(pending)' = Wanted(pending)
      BY <2>1, <3>1 DEF Wanted
    <3> QED
      BY <2>1, <3>1, <3>2, <3>3 DEF LogKept
  <2>7. CASE Age
    <3>1. aged' = aged + 1 /\ UNCHANGED <<log, events, serverUp, stage, pending>>
      BY <2>7 DEF Age
    <3>2. aged' \in Nat /\ aged <= aged'
      BY <1>1, <3>1
    <3> QED
      BY <2>2, <3>1, <3>2
  <2>8. CASE CutAll
    <3>1. /\ UNCHANGED <<log, aged>> /\ serverUp' = FALSE /\ events' = {}
          /\ pending' = {} /\ stage' = "idle"
      BY <2>8 DEF CutAll, ServerCrash
    <3> QED
      BY <2>1, <3>1 DEF LogKept
  <2>9. CASE UNCHANGED recordVars
    BY <1>1, <2>2, <2>9 DEF recordVars
  <2>10. \/ Prune \/ NoThreadChange \/ RecordFails \/ Announce \/ ServerStart \/ Age
         \/ CutAll \/ UNCHANGED recordVars
    BY <1>3 DEF Next, Recording, Writes, Accept, Refuse, Cut, Receive, Closed, Errored,
       Start, TimerFires, Connect, Stop, Crash, HandleEvent, OpenCursor, WriteCursor,
       MessageFails, vars, logVars
  <2> QED
    BY <2>3, <2>4, <2>5, <2>6, <2>7, <2>8, <2>9, <2>10
<1> QED
  BY <1>2, <1>3

(***************************************************************************)
(* The steps by what they do with the queue.                               *)
(***************************************************************************)
LEMMA QueueSteps ==
  ASSUME [Next]_vars
  PROVE  \/ UNCHANGED <<queue, phase, handled, dropped>>
         \/ \E c \in Conns : Receive(c)
         \/ HandleEvent \/ OpenCursor \/ WriteCursor \/ MessageFails \/ Crash
BY DEF Next, Recording, Announce, CutAll, Accept, Refuse, Cut, Closed, Errored, Start,
   TimerFires, Connect, Stop, vars, streamVars

LEMMA WorkOnHandStep ==
  ASSUME TypeOK, WorkOnHand, [Next]_vars
  PROVE  WorkOnHand'
<1>1. CASE UNCHANGED <<queue, phase, handled, dropped>>
  BY <1>1 DEF WorkOnHand, Current
<1>2. CASE \E c \in Conns : Receive(c)
  <2>1. PICK c \in Conns : Receive(c)
    BY <1>2
  <2>2. chan[c] \in Seq(Messages) /\ queue \in Seq(Messages)
    BY DEF TypeOK
  <2>3. Head(chan[c]) \in Messages
    BY <2>1, <2>2, HeadIs DEF Receive
  <2>4. ASSUME phase # "handle" PROVE queue' # <<>> /\ Current' = Current
    <3>1. /\ Len(queue) \in Nat \ {0} /\ Head(queue) = queue[1] /\ queue # <<>>
      BY <2>2, <2>4, HeadIs DEF WorkOnHand
    <3>2. queue' = Append(queue, Head(chan[c]))
      BY <2>1 DEF Receive
    <3>3. /\ queue' \in Seq(Messages) /\ DOMAIN queue' = 1 .. Len(queue) + 1
          /\ \A i \in 1 .. Len(queue) : queue'[i] = queue[i]
      BY <2>2, <2>3, <3>2, AppendIs
    <3>4. queue' # <<>>
      BY <3>1, <3>3
    <3>5. Head(queue') = queue'[1]
      BY <3>3, <3>4, HeadIs
    <3>6. Head(queue') = Head(queue)
      BY <3>1, <3>3, <3>5
    <3> QED
      BY <3>4, <3>6 DEF Current
  <2>5. UNCHANGED <<phase, handled>>
    BY <2>1 DEF Receive
  <2> QED
    BY <2>4, <2>5 DEF WorkOnHand
<1>3. CASE HandleEvent
  <2>1. queue # <<>> /\ queue' = queue /\ handled' = handled \union {Current}
    BY <1>3 DEF HandleEvent
  <2>2. Current' = Current
    BY <2>1 DEF Current
  <2> QED
    BY <2>1, <2>2 DEF WorkOnHand
<1>4. CASE OpenCursor
  BY <1>4 DEF OpenCursor, WorkOnHand, Current
<1>5. CASE WriteCursor \/ MessageFails \/ Crash
  <2>1. phase' = "handle"
    BY <1>5 DEF WriteCursor, MessageFails, Crash
  <2> QED
    BY <2>1 DEF WorkOnHand
<1> QED
  BY <1>1, <1>2, <1>3, <1>4, <1>5, QueueSteps

(***************************************************************************)
(* No cursor passes an event that is owed.                                 *)
(***************************************************************************)
StillPassed(a) ==
  /\ a \in {0} \union {Id(v)' : v \in Uids'}
  /\ \A u \in Owed' : a < Id(u)'

LEMMA PassedKept ==
  ASSUME TypeOK, [Next]_vars, NEW a, Passed(a)
  PROVE  StillPassed(a)
<1>1. a \in {0} \union {Id(v) : v \in Uids} /\ \A u \in Owed : a < Id(u)
  BY DEF Passed
<1>2. CASE Writes
  <2>1. PICK kind \in {"agent", "derived"} :
          Write(kind) /\ UNCHANGED <<handled, unannounced, dropped, aged>>
    BY <1>2 DEF Writes, AppendEvent, Derive, streamVars
  <2>2. PICK u : u = Len(hist) + 1
    OBVIOUS
  <2>3. /\ Uids' = Uids \union {u} /\ \A v \in Uids : Id(v)' = Id(v)
        /\ Id(u)' = nextId /\ Owed' \subseteq Owed \union {u}
        /\ u \in Owed' => \A v \in Uids : Id(v) < nextId
    BY <2>1, <2>2, NewEvent DEF TypeOK
  <2>4. a \in {0} \union {Id(v)' : v \in Uids'}
    BY <1>1, <2>3
  <2>5. Owed \subseteq Uids /\ nextId \in Nat \ {0}
    BY DEF Owed, Agent, TypeOK, LogTypeOK
  <2>6. ASSUME NEW w \in Owed' PROVE a < Id(w)'
    <3>1. CASE w \in Owed
      BY <1>1, <2>3, <2>5, <3>1
    <3>2. CASE w = u
      <4>1. \A v \in Uids : Id(v) < nextId
        BY <2>3, <2>6, <3>2
      <4>2. a < nextId
        BY <1>1, <2>5, <4>1
      <4> QED
        BY <2>3, <3>2, <4>2
    <3> QED
      BY <2>3, <3>1, <3>2
  <2> QED
    BY <2>4, <2>6 DEF StillPassed
<1>3. CASE ~Writes
  <2>1. /\ Uids' = Uids /\ \A u \in Uids : Id(u)' = Id(u)
        /\ Owed' \subseteq Owed
    BY <1>3, HistorySteps
  <2>2. Owed \subseteq Uids
    BY DEF Owed, Agent
  <2>3. a \in {0} \union {Id(v)' : v \in Uids'}
    BY <1>1, <2>1
  <2>4. \A u \in Owed' : a < Id(u)'
    BY <1>1, <2>1, <2>2
  <2> QED
    BY <2>3, <2>4 DEF StillPassed
<1> QED
  BY <1>2, <1>3

\* The cursor that is written: what is owed before the event is in the queue
\* before it, and what comes later has a larger id.
LEMMA WrittenPassed ==
  ASSUME TypeOK, QueueInOrder, WorkOnHand, WriteCursor
  PROVE  Passed(Id(Current))
<1>1. /\ Uids \subseteq Nat /\ Agent \subseteq Uids
      /\ \A u \in Uids : Id(u) \in Nat
  BY UidsAre DEF TypeOK
<1>2. /\ Current \in queue[1] /\ Current \in Agent
      /\ \A v \in queue[1] : Current <= v
  BY CurrentIs DEF TypeOK, WriteCursor
<1>3. Current \in handled
  BY DEF WriteCursor, WorkOnHand
<1>4. ASSUME NEW u \in Owed PROVE Id(Current) < Id(u)
  <2>1. u \in Agent /\ u \notin handled /\ u \notin Reused /\ u \in Uids /\ u \in Nat
    BY <1>1 DEF Owed, Excused
  <2>2. u # Current /\ Current \in Nat
    BY <1>1, <1>2, <1>3, <2>1
  <2>3. CASE u < Current
    <3>1. 1 \in DOMAIN queue
      BY HeadIs DEF TypeOK, WriteCursor
    <3>2. PICK k \in 1 .. 1 : u \in queue[k]
      BY <1>2, <2>3, <3>1 DEF QueueInOrder
    <3>3. u \in queue[1]
      BY <3>2
    <3> QED
      BY <1>2, <2>1, <2>2, <2>3, <3>3
  <2>4. CASE Current < u
    <3>1. Current \in 1 .. u - 1
      <4>1. Uids = 1 .. Len(hist)
        BY UidsAre DEF TypeOK
      <4> QED
        BY <1>1, <1>2, <2>1, <2>2, <2>4, <4>1
    <3>2. ~(Id(Current) >= Id(u))
      BY <2>1, <3>1 DEF Reused
    <3> QED
      BY <1>1, <1>2, <2>1, <3>2
  <2> QED
    BY <2>1, <2>2, <2>3, <2>4
<1> QED
  BY <1>1, <1>2, <1>4 DEF Passed

\* Where a cursor comes from.
LEMMA CursorSteps ==
  ASSUME TypeOK, [Next]_vars
  PROVE  /\ \/ cursor' \in {0, cursor}
            \/ WriteCursor /\ cursor' = Id(Current)
         /\ \A i \in DOMAIN reading' :
              reading'[i] = cursor \/ \E k \in DOMAIN reading : reading'[i] = reading[k]
         /\ \A c \in Conns :
              after'[c] \in {0, after[c]} \/ \E k \in DOMAIN reading : after'[c] = reading[k]
<1>1. CASE Start
  <2>1. <<cursor>> \in Seq(Nat) /\ DOMAIN <<cursor>> = {1}
    BY DEF TypeOK
  <2> QED
    BY <1>1, <2>1 DEF Start
<1>2. CASE TimerFires
  <2>1. reading \in Seq(Nat) /\ cursor \in Nat
    BY DEF TypeOK
  <2>2. /\ DOMAIN reading = 1 .. Len(reading) /\ Len(reading) \in Nat
        /\ DOMAIN Append(reading, cursor) = 1 .. Len(reading) + 1
        /\ Append(reading, cursor)[Len(reading) + 1] = cursor
        /\ \A i \in 1 .. Len(reading) : Append(reading, cursor)[i] = reading[i]
    BY <2>1, AppendIs
  <2>3. reading' = Append(reading, cursor) /\ UNCHANGED <<cursor, after>>
    BY <1>2 DEF TimerFires
  <2>4. ASSUME NEW i \in DOMAIN reading'
        PROVE  reading'[i] = cursor \/ \E k \in DOMAIN reading : reading'[i] = reading[k]
    <3>1. i = Len(reading) + 1 \/ i \in 1 .. Len(reading)
      BY <2>2, <2>3, <2>4
    <3> QED
      BY <2>2, <2>3, <3>1
  <2> QED
    BY <2>3, <2>4
<1>3. CASE Connect
  <2>1. reading \in Seq(Nat) /\ reading # <<>>
    BY <1>3 DEF TypeOK, Connect
  <2>2. /\ Len(reading) \in Nat \ {0} /\ DOMAIN reading = 1 .. Len(reading)
        /\ Head(reading) = reading[1] /\ DOMAIN Tail(reading) = 1 .. Len(reading) - 1
        /\ \A i \in 1 .. Len(reading) - 1 : Tail(reading)[i] = reading[i + 1]
    BY <2>1, HeadIs
  <2>3. /\ reading' = Tail(reading) /\ cursor' = cursor
        /\ \A c \in Conns : after'[c] \in {after[c], reading[1]}
    BY <1>3, <2>2 DEF Connect, TypeOK
  <2>4. ASSUME NEW i \in DOMAIN reading'
        PROVE  \E k \in DOMAIN reading : reading'[i] = reading[k]
    <3>1. i + 1 \in DOMAIN reading /\ reading'[i] = reading[i + 1]
      BY <2>2, <2>3, <2>4
    <3> QED
      BY <3>1
  <2>5. 1 \in DOMAIN reading
    BY <2>2
  <2> QED
    BY <2>3, <2>4, <2>5
<1>4. CASE Stop \/ Crash
  <2>1. reading' = <<>> /\ cursor' = cursor /\ after' = [c \in Conns |-> 0]
    BY <1>4 DEF Stop, Crash, Disconnected
  <2> QED
    BY <2>1
<1>5. CASE ~(Start \/ TimerFires \/ Connect \/ Stop \/ Crash)
  <2>1. reading' = reading
    BY <1>5 DEF Next, Recording, Announce, CutAll, Accept, Refuse, Cut, Receive, Closed,
       Errored, HandleEvent, OpenCursor, WriteCursor, MessageFails, vars, streamVars
  <2>2. \/ cursor' \in {0, cursor}
        \/ WriteCursor /\ cursor' = Id(Current)
    BY <1>5 DEF Next, Recording, Announce, CutAll, Accept, Refuse, Cut, Receive, Closed,
       Errored, HandleEvent, OpenCursor, WriteCursor, MessageFails, vars, streamVars
  <2>3. \A c \in Conns : after'[c] \in {0, after[c]}
    <3>1. after \in [Conns -> Nat]
      BY DEF TypeOK
    <3>2. after' = after \/ \E c \in Conns : after' = [after EXCEPT ![c] = 0]
      BY <1>5 DEF Next, Recording, Announce, CutAll, Accept, Refuse, Cut, Receive, Closed,
         Errored, HandleEvent, OpenCursor, WriteCursor, MessageFails, vars, streamVars
    <3> QED
      BY <3>1, <3>2
  <2> QED
    BY <2>1, <2>2, <2>3
<1> QED
  BY <1>1, <1>2, <1>3, <1>4, <1>5

LEMMA CursorsPassedStep ==
  ASSUME TypeOK, CursorsPassed, QueueInOrder, WorkOnHand, [Next]_vars
  PROVE  CursorsPassed'
<1>1. Passed(cursor) /\ Passed(0)
  <2>1. \A u \in Owed : cursor < Id(u) /\ Id(u) \in Nat
    BY UidsAre DEF CursorsPassed, Passed, Owed, TypeOK
  <2> QED
    BY <2>1 DEF CursorsPassed, Passed, TypeOK
<1>2. \A a : Passed(a) => StillPassed(a)
  BY PassedKept
<1>3. StillPassed(cursor')
  <2>1. CASE cursor' \in {0, cursor}
    <3>1. Passed(cursor')
      BY <1>1, <2>1
    <3> QED
      BY <1>2, <3>1
  <2>2. CASE WriteCursor /\ cursor' = Id(Current)
    <3>1. Passed(Id(Current))
      BY <2>2, WrittenPassed
    <3>2. StillPassed(Id(Current))
      BY <1>2, <3>1
    <3> QED
      BY <2>2, <3>2
  <2> QED
    BY <2>1, <2>2, CursorSteps
<1>4. \A k \in DOMAIN reading : Passed(reading[k])
  BY DEF CursorsPassed
<1>5. ASSUME NEW i \in DOMAIN reading' PROVE StillPassed(reading'[i])
  <2>1. Passed(reading'[i])
    <3>1. reading'[i] = cursor \/ \E k \in DOMAIN reading : reading'[i] = reading[k]
      BY CursorSteps
    <3> QED
      BY <1>1, <1>4, <3>1
  <2> QED
    BY <1>2, <2>1
<1>6. ASSUME NEW c \in Conns PROVE StillPassed(after'[c])
  <2>1. Passed(after'[c])
    <3>1. \/ after'[c] \in {0, after[c]}
          \/ \E k \in DOMAIN reading : after'[c] = reading[k]
      BY CursorSteps
    <3>2. Passed(after[c])
      BY DEF CursorsPassed
    <3> QED
      BY <1>1, <1>4, <3>1, <3>2
  <2> QED
    BY <1>2, <2>1
<1> QED
  BY <1>3, <1>5, <1>6 DEF CursorsPassed, Passed, StillPassed

(***************************************************************************)
(* The queue holds what is owed in order.                                  *)
(***************************************************************************)
\* What is owed after a step was owed before, or is the event the step wrote,
\* which is later than every other.
LEMMA OwedSteps ==
  ASSUME TypeOK, [Next]_vars, NEW u \in Owed'
  PROVE  /\ u \in Owed \/ (Writes /\ u \in pending' /\ \A v \in Uids : v < u /\ v \in Nat)
         /\ u \in Nat /\ u \notin handled' /\ u \notin dropped' /\ u \notin unannounced'
         /\ u \in Agent' /\ u > aged' /\ u \in Uids'
<1>2. /\ u \notin handled' /\ u \notin dropped' /\ u \notin unannounced'
      /\ u \in Agent' /\ u \notin 1 .. aged' /\ u \in Uids'
  BY DEF Owed, Excused, Agent
<1>3. Uids \subseteq Nat \ {0} /\ Uids = 1 .. Len(hist) /\ Len(hist) \in Nat
  BY UidsAre DEF TypeOK
<1>4. CASE Writes
  <2>1. PICK kind \in {"agent", "derived"} :
          Write(kind) /\ UNCHANGED <<handled, unannounced, dropped, aged>>
    BY <1>4 DEF Writes, AppendEvent, Derive, streamVars
  <2>2. PICK w : w = Len(hist) + 1
    OBVIOUS
  <2>3. /\ Uids' = Uids \union {w} /\ \A v \in Uids : v < w
        /\ Owed' \subseteq Owed \union {w}
    BY <2>1, <2>2, NewEvent DEF TypeOK
  <2>4. w \in pending' /\ w \in Nat \ {0}
    BY <1>3, <2>1, <2>2 DEF Write
  <2>5. u \in Nat \ {0} /\ aged' \in Nat
    BY <1>2, <1>3, <2>1, <2>3, <2>4 DEF TypeOK, LogTypeOK
  <2>6. u > aged'
    BY <1>2, <2>5
  <2> QED
    BY <1>2, <1>3, <1>4, <2>3, <2>4, <2>5, <2>6
<1>5. CASE ~Writes
  <2>1. Uids' = Uids /\ Owed' \subseteq Owed /\ aged' \in Nat
    BY <1>5, HistorySteps
  <2>2. u \in Nat \ {0}
    BY <1>2, <1>3, <2>1
  <2>3. u > aged'
    BY <1>2, <2>1, <2>2
  <2> QED
    BY <1>2, <2>1, <2>2, <2>3
<1> QED
  BY <1>4, <1>5

LEMMA QueueIs ==
  ASSUME TypeOK
  PROVE  /\ Len(queue) \in Nat /\ DOMAIN queue = 1 .. Len(queue)
         /\ \A i \in DOMAIN queue : queue[i] \subseteq Uids
         /\ \A c \in Conns : /\ Len(chan[c]) \in Nat /\ DOMAIN chan[c] = 1 .. Len(chan[c])
                             /\ \A i \in DOMAIN chan[c] : chan[c][i] \subseteq Uids
<1>1. queue \in Seq(Messages) /\ \A c \in Conns : chan[c] \in Seq(Messages)
  BY DEF TypeOK
<1>2. \A m \in Messages : m \subseteq Uids
  BY DEF Messages, Agent
<1>3. ASSUME NEW q \in Seq(Messages)
      PROVE  /\ Len(q) \in Nat /\ DOMAIN q = 1 .. Len(q)
             /\ \A i \in DOMAIN q : q[i] \subseteq Uids
  <2>1. Len(q) \in Nat /\ DOMAIN q = 1 .. Len(q)
    BY LenProperties
  <2>2. \A i \in DOMAIN q : q[i] \in Messages
    BY <2>1, ElementOfSeq
  <2> QED
    BY <1>2, <2>1, <2>2
<1> QED
  BY <1>1, <1>3

LEMMA QueueInOrderStep ==
  ASSUME TypeOK, QueueInOrder, ChannelsInOrder, WorkOnHand, [Next]_vars
  PROVE  QueueInOrder'
<1> SUFFICES ASSUME NEW i \in DOMAIN queue', NEW e \in queue'[i], NEW u \in Owed', u < e
             PROVE  \E k \in 1 .. i : u \in queue'[k]
  BY DEF QueueInOrder
<1>1. /\ Len(queue) \in Nat /\ DOMAIN queue = 1 .. Len(queue)
      /\ \A j \in DOMAIN queue : queue[j] \subseteq Uids
  BY QueueIs
<1>2. /\ u \in Owed \/ (Writes /\ \A v \in Uids : v < u /\ v \in Nat)
      /\ u \in Nat /\ u \notin handled' /\ u \notin dropped'
  BY OwedSteps
<1>3. CASE UNCHANGED <<queue, phase, handled, dropped>>
  <2>1. e \in queue[i] /\ i \in DOMAIN queue /\ queue' = queue
    BY <1>3
  <2>2. u \in Owed
    <3>1. e \in Uids
      BY <1>1, <2>1
    <3> QED
      BY <1>2, <3>1
  <2> QED
    BY <2>1, <2>2 DEF QueueInOrder
<1>5. ASSUME NEW c \in Conns, Receive(c) PROVE \E k \in 1 .. i : u \in queue'[k]
  <2>1. queue \in Seq(Messages) /\ chan[c] \in Seq(Messages) /\ chan[c] # <<>>
    BY <1>5 DEF TypeOK, Receive
  <2>2. /\ Head(chan[c]) = chan[c][1] /\ chan[c][1] \in Messages
        /\ 1 \in DOMAIN chan[c]
    BY <2>1, HeadIs
  <2>3. queue' = Append(queue, chan[c][1])
    BY <1>5, <2>2 DEF Receive
  <2>4. /\ DOMAIN queue' = 1 .. Len(queue) + 1
        /\ queue'[Len(queue) + 1] = chan[c][1]
        /\ \A j \in 1 .. Len(queue) : queue'[j] = queue[j]
    BY <2>1, <2>2, <2>3, AppendIs
  <2>5. u \in Owed
    BY <1>2, <1>5 DEF Writes, AppendEvent, Derive, Write, Receive, streamVars, logVars, recordVars,
       TypeOK, LogTypeOK
  <2>6. CASE i \in 1 .. Len(queue)
    <3>1. PICK k \in 1 .. i : u \in queue[k]
      BY <1>1, <2>4, <2>5, <2>6 DEF QueueInOrder
    <3> QED
      BY <1>1, <2>4, <2>6, <3>1
  <2>7. CASE i = Len(queue) + 1
    <3>1. u \in Queued \/ \E k \in 1 .. 1 : u \in chan[c][k]
      BY <2>2, <2>4, <2>5, <2>7 DEF ChannelsInOrder
    <3>2. CASE u \in Queued
      <4>1. PICK k \in DOMAIN queue : u \in queue[k]
        BY <3>2 DEF Queued
      <4>2. k \in 1 .. i /\ queue'[k] = queue[k]
        BY <1>1, <2>4, <2>7, <4>1
      <4> QED
        BY <4>1, <4>2
    <3>3. CASE u \in chan[c][1]
      BY <1>1, <2>4, <2>7, <3>3
    <3> QED
      BY <3>1, <3>2, <3>3
  <2> QED
    BY <1>1, <2>4, <2>6, <2>7
<1>6. CASE HandleEvent \/ OpenCursor
  <2>1. queue' = queue /\ hist' = hist
    BY <1>6 DEF HandleEvent, OpenCursor, logVars, recordVars
  <2>2. u \in Owed
    <3>1. e \in Uids
      BY <1>1, <2>1
    <3> QED
      BY <1>2, <3>1
  <2> QED
    BY <2>1, <2>2 DEF QueueInOrder
<1>7. CASE WriteCursor
  <2>1. queue \in Seq(Messages) /\ queue # <<>> /\ queue' = Rest /\ handled' = handled
    BY <1>7 DEF TypeOK, WriteCursor
  <2>2. Len(queue) \in Nat \ {0}
    BY <2>1, HeadIs
  <2>3. u # Current
    BY <1>2, <1>7, <2>1 DEF WriteCursor, WorkOnHand
  <2>4. \/ /\ queue[1] = {Current}
           /\ DOMAIN queue' = 1 .. Len(queue) - 1
           /\ \A j \in 1 .. Len(queue) - 1 : queue'[j] = queue[j + 1]
        \/ /\ DOMAIN queue' = DOMAIN queue
           /\ queue'[1] = queue[1] \ {Current}
           /\ \A j \in DOMAIN queue \ {1} : queue'[j] = queue[j]
    BY <2>1, RestIs DEF TypeOK
  <2>5. ASSUME NEW j \in DOMAIN queue, e \in queue[j]
        PROVE  \E k \in 1 .. j : u \in queue[k]
    <3>1. u \in Owed
      BY <1>1, <1>2, <2>5
    <3> QED
      BY <2>5, <3>1 DEF QueueInOrder
  <2>6. CASE /\ queue[1] = {Current} /\ DOMAIN queue' = 1 .. Len(queue) - 1
             /\ \A j \in 1 .. Len(queue) - 1 : queue'[j] = queue[j + 1]
    <3>1. i + 1 \in DOMAIN queue /\ e \in queue[i + 1] /\ i \in Nat
      BY <1>1, <2>6
    <3>2. PICK k \in 1 .. i + 1 : u \in queue[k]
      BY <2>5, <3>1
    <3>3. k # 1
      BY <2>3, <2>6, <3>2
    <3>4. k - 1 \in 1 .. i /\ queue'[k - 1] = queue[k]
      BY <1>1, <2>6, <3>1, <3>2, <3>3
    <3> QED
      BY <3>2, <3>4
  <2>7. CASE /\ DOMAIN queue' = DOMAIN queue /\ queue'[1] = queue[1] \ {Current}
             /\ \A j \in DOMAIN queue \ {1} : queue'[j] = queue[j]
    <3>1. e \in queue[i]
      BY <2>7
    <3>2. PICK k \in 1 .. i : u \in queue[k]
      BY <2>5, <2>7, <3>1
    <3>3. u \in queue'[k]
      BY <1>1, <2>3, <2>7, <3>2
    <3> QED
      BY <3>3
  <2> QED
    BY <2>4, <2>6, <2>7
<1>8. CASE MessageFails
  <2>1. /\ queue \in Seq(Messages) /\ queue # <<>> /\ queue' = Tail(queue)
        /\ dropped' = dropped \union Head(queue)
    BY <1>8 DEF TypeOK, MessageFails
  <2>2. /\ Len(queue) \in Nat \ {0} /\ Head(queue) = queue[1]
        /\ DOMAIN queue' = 1 .. Len(queue) - 1
        /\ \A j \in 1 .. Len(queue) - 1 : queue'[j] = queue[j + 1]
    BY <2>1, HeadIs
  <2>3. i + 1 \in DOMAIN queue /\ e \in queue[i + 1] /\ i \in Nat
    BY <1>1, <2>2
  <2>4. u \in Owed
    BY <1>1, <1>2, <2>3
  <2>5. PICK k \in 1 .. i + 1 : u \in queue[k]
    BY <2>3, <2>4 DEF QueueInOrder
  <2>6. k # 1
    BY <1>2, <2>1, <2>2, <2>5
  <2>7. k - 1 \in 1 .. i /\ queue'[k - 1] = queue[k]
    BY <1>1, <2>2, <2>3, <2>5, <2>6
  <2> QED
    BY <2>5, <2>7
<1>9. CASE Crash
  <2>1. queue' = <<>>
    BY <1>9 DEF Crash
  <2> QED
    BY <2>1
<1> QED
  BY <1>3, <1>5, <1>6, <1>7, <1>8, <1>9, QueueSteps

\* What is owed leaves the queue only with the process.
LEMMA QueuedKept ==
  ASSUME TypeOK, WorkOnHand, [Next]_vars, ~Crash, NEW u \in Owed', u \in Queued
  PROVE  u \in Queued'
<1>1. /\ Len(queue) \in Nat /\ DOMAIN queue = 1 .. Len(queue) /\ queue \in Seq(Messages)
      /\ u \notin handled' /\ u \notin dropped'
  BY QueueIs, OwedSteps DEF TypeOK
<1>2. PICK k \in DOMAIN queue : u \in queue[k]
  BY DEF Queued
<1> SUFFICES \E j \in DOMAIN queue' : u \in queue'[j]
  BY DEF Queued
<1>3. CASE queue' = queue
  BY <1>2, <1>3
<1>4. ASSUME NEW c \in Conns, Receive(c) PROVE \E j \in DOMAIN queue' : u \in queue'[j]
  <2>1. chan[c] \in Seq(Messages) /\ chan[c] # <<>> /\ queue' = Append(queue, Head(chan[c]))
    BY <1>4 DEF TypeOK, Receive
  <2>2. Head(chan[c]) \in Messages
    BY <2>1, HeadIs
  <2>3. k \in DOMAIN queue' /\ queue'[k] = queue[k]
    BY <1>1, <1>2, <2>1, <2>2, AppendIs
  <2> QED
    BY <1>2, <2>3
<1>5. CASE WriteCursor
  <2>1. queue # <<>> /\ queue' = Rest /\ handled' = handled /\ u # Current
    BY <1>1, <1>5 DEF WriteCursor, WorkOnHand
  <2>2. \/ /\ queue[1] = {Current}
           /\ DOMAIN queue' = 1 .. Len(queue) - 1
           /\ \A j \in 1 .. Len(queue) - 1 : queue'[j] = queue[j + 1]
        \/ /\ DOMAIN queue' = DOMAIN queue
           /\ queue'[1] = queue[1] \ {Current}
           /\ \A j \in DOMAIN queue \ {1} : queue'[j] = queue[j]
    BY <1>1, <2>1, RestIs DEF TypeOK
  <2>3. CASE /\ queue[1] = {Current} /\ DOMAIN queue' = 1 .. Len(queue) - 1
             /\ \A j \in 1 .. Len(queue) - 1 : queue'[j] = queue[j + 1]
    <3>1. k # 1
      BY <1>2, <2>1, <2>3
    <3>2. k - 1 \in DOMAIN queue' /\ queue'[k - 1] = queue[k]
      BY <1>1, <1>2, <2>3, <3>1
    <3> QED
      BY <1>2, <3>2
  <2>4. CASE /\ DOMAIN queue' = DOMAIN queue /\ queue'[1] = queue[1] \ {Current}
             /\ \A j \in DOMAIN queue \ {1} : queue'[j] = queue[j]
    BY <1>2, <2>1, <2>4
  <2> QED
    BY <2>2, <2>3, <2>4
<1>6. CASE MessageFails
  <2>1. /\ queue # <<>> /\ queue' = Tail(queue) /\ dropped' = dropped \union Head(queue)
    BY <1>6 DEF MessageFails
  <2>2. /\ Len(queue) \in Nat \ {0} /\ Head(queue) = queue[1]
        /\ DOMAIN queue' = 1 .. Len(queue) - 1
        /\ \A j \in 1 .. Len(queue) - 1 : queue'[j] = queue[j + 1]
    BY <1>1, <2>1, HeadIs
  <2>3. k # 1
    BY <1>1, <1>2, <2>1, <2>2
  <2>4. k - 1 \in DOMAIN queue' /\ queue'[k - 1] = queue[k]
    BY <1>1, <1>2, <2>2, <2>3
  <2> QED
    BY <1>2, <2>4
<1> QED
  BY <1>3, <1>4, <1>5, <1>6, QueueSteps DEF HandleEvent, OpenCursor

(***************************************************************************)
(* The connections carry what is owed in order.                            *)
(***************************************************************************)
\* The steps by what they do with the connections.
LEMMA ChannelSteps ==
  ASSUME TypeOK, [Next]_vars
  PROVE  \/ chan' = chan /\ \A d \in Conns : conn'[d] = "open" => conn[d] = "open"
         \/ \E c \in Conns : Accept(c) \/ Receive(c)
         \/ Announce
         \/ \A d \in Conns : /\ chan'[d] \in {chan[d], <<>>}
                             /\ conn'[d] = "open" => conn[d] = "open" /\ chan'[d] = chan[d]
<1>1. conn \in [Conns -> ConnStates] /\ chan \in [Conns -> Seq(Messages)]
  BY DEF TypeOK
<1>2. CASE Recording \/ Start \/ TimerFires \/ HandleEvent \/ OpenCursor \/ WriteCursor
           \/ MessageFails \/ UNCHANGED vars
  BY <1>2 DEF Recording, Start, TimerFires, HandleEvent, OpenCursor, WriteCursor,
     MessageFails, vars, streamVars
<1>3. CASE CutAll
  BY <1>1, <1>3 DEF CutAll
<1>4. ASSUME NEW c \in Conns, Refuse(c) \/ Cut(c) \/ Closed(c) \/ Errored(c)
      PROVE  \A d \in Conns : /\ chan'[d] \in {chan[d], <<>>}
                              /\ conn'[d] = "open" => conn[d] = "open" /\ chan'[d] = chan[d]
  <2>1. CASE Refuse(c) \/ Cut(c)
    BY <1>1, <2>1 DEF Refuse, Cut
  <2>2. CASE Closed(c)
    BY <1>1, <2>2 DEF Closed, Free
  <2>3. CASE Errored(c)
    BY <1>1, <2>3 DEF Errored, Free
  <2> QED
    BY <1>4, <2>1, <2>2, <2>3
<1>5. CASE Connect
  BY <1>1, <1>5 DEF Connect
<1>6. CASE Stop \/ Crash
  BY <1>6 DEF Stop, Crash, Disconnected, Free
<1>7. \/ Recording \/ Start \/ TimerFires \/ HandleEvent \/ OpenCursor \/ WriteCursor
      \/ MessageFails \/ UNCHANGED vars \/ CutAll \/ Connect \/ Stop \/ Crash \/ Announce
      \/ \E c \in Conns : Refuse(c) \/ Cut(c) \/ Closed(c) \/ Errored(c)
      \/ \E c \in Conns : Accept(c) \/ Receive(c)
  BY DEF Next
<1>8. CASE \E c \in Conns : Refuse(c) \/ Cut(c) \/ Closed(c) \/ Errored(c)
  BY <1>4, <1>8
<1> QED
  BY <1>2, <1>3, <1>5, <1>6, <1>7, <1>8

\* The same for one connection.
LEMMA ChannelStep ==
  ASSUME TypeOK, [Next]_vars, NEW c \in Conns
  PROVE  \/ /\ chan'[c] \in {chan[c], <<>>}
            /\ conn'[c] = "open" => conn[c] = "open" /\ chan'[c] = chan[c]
         \/ \E d \in Conns : Accept(d)
         \/ \E d \in Conns : Receive(d)
         \/ Announce
<1>1. CASE chan' = chan /\ \A d \in Conns : conn'[d] = "open" => conn[d] = "open"
  BY <1>1
<1>2. CASE \A d \in Conns : /\ chan'[d] \in {chan[d], <<>>}
                            /\ conn'[d] = "open" => conn[d] = "open" /\ chan'[d] = chan[d]
  BY <1>2
<1>3. CASE \E d \in Conns : Accept(d) \/ Receive(d)
  BY <1>3
<1> QED
  BY <1>1, <1>2, <1>3, ChannelSteps

LEMMA CatchupIs ==
  ASSUME TypeOK, LogKept, CursorsPassed, NEW c \in Conns, Accept(c), NEW u \in Owed
  PROVE  /\ chan'[c] = Batches(ListAfter(after[c]))
         /\ ListAfter(after[c]) \in SUBSET (1 .. Len(hist)) /\ Len(hist) \in Nat
         /\ u \in ListAfter(after[c])
<1>1. /\ Len(hist) \in Nat /\ Uids = 1 .. Len(hist) /\ Agent \subseteq Uids
  BY UidsAre DEF TypeOK
<1>2. chan'[c] = Batches(ListAfter(after[c])) /\ serverUp
  BY DEF Accept, Catchup, TypeOK
<1>3. u \in Agent /\ u > aged /\ after[c] < Id(u)
  <2>1. u \in Agent /\ u \notin 1 .. aged
    BY DEF Owed, Excused
  <2>2. aged \in Nat /\ u \in Nat \ {0}
    BY <1>1, <2>1 DEF TypeOK, LogTypeOK
  <2> QED
    BY <2>1, <2>2 DEF CursorsPassed, Passed
<1>4. u \in events
  BY <1>1, <1>2, <1>3 DEF LogKept
<1>5. after[c] \in Nat /\ Id(u) \in Nat
  BY <1>1, <1>3, UidsAre DEF TypeOK
<1>6. Id(u) > after[c]
  BY <1>3, <1>5
<1> QED
  BY <1>1, <1>2, <1>3, <1>4, <1>6 DEF ListAfter

LEMMA ChannelsInOrderStep ==
  ASSUME TypeOK, LogKept, CursorsPassed, ChannelsInOrder, OpenAreTold, WorkOnHand, [Next]_vars
  PROVE  ChannelsInOrder'
<1> SUFFICES ASSUME NEW c \in Conns, NEW i \in DOMAIN chan'[c], NEW e \in chan'[c][i],
                    NEW u \in Owed', u < e
             PROVE  u \in Queued' \/ \E k \in 1 .. i : u \in chan'[c][k]
  BY DEF ChannelsInOrder
<1>1. /\ Len(chan[c]) \in Nat /\ DOMAIN chan[c] = 1 .. Len(chan[c])
      /\ \A j \in DOMAIN chan[c] : chan[c][j] \subseteq Uids
      /\ chan \in [Conns -> Seq(Messages)]
  BY QueueIs DEF TypeOK
<1>2. /\ u \in Owed \/ (Writes /\ \A v \in Uids : v < u /\ v \in Nat)
      /\ u \in Nat
  BY OwedSteps
<1>3. u \in Queued /\ ~Crash => u \in Queued'
  BY QueuedKept
<1>4. ~Crash
  BY DEF Crash, Disconnected
\* It was on the connection before.
<1>5. ASSUME NEW j \in DOMAIN chan[c], e \in chan[c][j]
      PROVE  u \in Queued' \/ \E k \in 1 .. j : u \in chan[c][k]
  <2>1. u \in Owed
    BY <1>1, <1>2, <1>5
  <2> QED
    BY <1>3, <1>4, <1>5, <2>1 DEF ChannelsInOrder
<1>6. CASE chan'[c] \in {chan[c], <<>>}
  BY <1>5, <1>6
<1>7. ASSUME NEW d \in Conns, Accept(d), chan'[c] # chan[c]
      PROVE  \E k \in 1 .. i : u \in chan'[c][k]
  <2>1. c = d
    BY <1>1, <1>7 DEF Accept
  <2>2. u \in Owed
    <3>1. hist' = hist
      BY <1>7 DEF Accept, logVars, recordVars
    <3>2. ~Writes
      <4>1. chan' # chan
        BY <1>7
      <4> QED
        BY <4>1 DEF Writes, streamVars
    <3> QED
      BY <1>2, <3>2
  <2> DEFINE S == ListAfter(after[c])
  <2>3. /\ chan'[c] = Batches(S) /\ S \in SUBSET (1 .. Len(hist)) /\ Len(hist) \in Nat
        /\ u \in S
    BY <1>7, <2>1, <2>2, CatchupIs
  <2> HIDE DEF S
  <2>4. Batches(S) \in Seq((SUBSET S) \ {{}})
    BY <2>3, BatchesOfEvents
  <2>5. DOMAIN Batches(S) = 1 .. Len(Batches(S)) /\ Len(Batches(S)) \in Nat
    BY <2>4, LenProperties
  <2>6. PICK k \in DOMAIN Batches(S) : u \in Batches(S)[k]
    BY <2>3, BatchesOfEvents
  <2>7. k <= i
    BY <2>3, <2>6, BatchesOfEvents
  <2>8. k \in 1 .. i
    BY <2>3, <2>5, <2>6, <2>7
  <2> QED
    BY <2>3, <2>6, <2>8
<1>8. ASSUME NEW d \in Conns, Receive(d), chan'[c] # chan[c]
      PROVE  u \in Queued' \/ \E k \in 1 .. i : u \in chan'[c][k]
  <2>1. c = d /\ chan[c] # <<>> /\ chan'[c] = Tail(chan[c])
        /\ queue' = Append(queue, Head(chan[c]))
    BY <1>1, <1>8 DEF Receive
  <2>2. chan[c] \in Seq(Messages) /\ queue \in Seq(Messages)
    BY DEF TypeOK
  <2>3. /\ Head(chan[c]) = chan[c][1] /\ chan[c][1] \in Messages
        /\ DOMAIN chan'[c] = 1 .. Len(chan[c]) - 1
        /\ \A j \in 1 .. Len(chan[c]) - 1 : chan'[c][j] = chan[c][j + 1]
    BY <2>1, <2>2, HeadIs
  <2>4. i + 1 \in DOMAIN chan[c] /\ e \in chan[c][i + 1] /\ i \in Nat
    BY <1>1, <2>3
  <2>5. CASE u \in chan[c][1]
    <3>1. /\ Len(queue) + 1 \in DOMAIN queue' /\ queue'[Len(queue) + 1] = chan[c][1]
      BY <2>1, <2>2, <2>3, AppendIs
    <3> QED
      BY <2>5, <3>1 DEF Queued
  <2>6. CASE u \notin chan[c][1]
    <3>1. u \in Queued' \/ \E k \in 1 .. i + 1 : u \in chan[c][k]
      BY <1>5, <2>4
    <3>2. ASSUME NEW k \in 1 .. i + 1, u \in chan[c][k]
          PROVE  k - 1 \in 1 .. i /\ chan'[c][k - 1] = chan[c][k]
      BY <1>1, <2>3, <2>4, <2>6, <3>2
    <3> QED
      BY <3>1, <3>2
  <2> QED
    BY <2>5, <2>6
<1>9. ASSUME Announce, chan'[c] # chan[c]
      PROVE  u \in Queued' \/ \E k \in 1 .. i : u \in chan'[c][k]
  <2>1. conn[c] = "open" /\ chan'[c] = Append(chan[c], Wanted(pending)) /\ hist' = hist
    BY <1>1, <1>9 DEF Announce, Announced
  <2>2. PICK w \in Agent : Wanted(pending) = {w}
    BY <1>9 DEF Announce, Announced, LogKept
  <2>3. {w} \in Messages /\ chan[c] \in Seq(Messages)
    BY <2>2 DEF Messages, TypeOK
  <2>4. /\ DOMAIN chan'[c] = 1 .. Len(chan[c]) + 1
        /\ chan'[c][Len(chan[c]) + 1] = {w}
        /\ \A j \in 1 .. Len(chan[c]) : chan'[c][j] = chan[c][j]
    BY <2>1, <2>2, <2>3, AppendIs
  <2>5. CASE i \in 1 .. Len(chan[c])
    BY <1>1, <1>5, <2>4, <2>5
  <2>6. CASE i = Len(chan[c]) + 1
    <3>1. e = w
      BY <2>4, <2>6
    <3>2. u \in Owed /\ u \in Agent
      <4>1. ~Writes
        <5>1. chan' # chan
          BY <1>9
        <5> QED
          BY <5>1 DEF Writes, streamVars
      <4> QED
        BY <1>2, <4>1 DEF Owed
    <3>3. u \notin pending
      BY <1>1, <2>2, <3>1, <3>2, UidsAre DEF Wanted, TypeOK
    <3>4. u \in Queued \union Carried(c)
      BY <2>1, <3>2, <3>3 DEF OpenAreTold
    <3>5. CASE u \in Carried(c)
      <4>1. PICK k \in DOMAIN chan[c] : u \in chan[c][k]
        BY <3>5 DEF Carried
      <4>2. k \in 1 .. i /\ chan'[c][k] = chan[c][k]
        BY <1>1, <2>4, <2>6, <4>1
      <4> QED
        BY <4>1, <4>2
    <3> QED
      BY <1>3, <1>4, <3>4, <3>5
  <2> QED
    BY <1>1, <2>4, <2>5, <2>6
<1> QED
  BY <1>6, <1>7, <1>8, <1>9, ChannelStep

(***************************************************************************)
(* An open connection has carried what is owed, or will be told of it.     *)
(***************************************************************************)
\* What a step keeps from being announced is announced, or excused.
LEMMA PendingSteps ==
  ASSUME TypeOK, LogKept, [Next]_vars, ~Announce, ~CutAll, NEW u \in Owed', u \in pending
  PROVE  u \in pending'
<1>1. CASE Writes
  BY <1>1 DEF Writes, AppendEvent, Derive, Write
<1>2. CASE RecordFails
  BY <1>2, OwedSteps DEF RecordFails
<1>3. CASE ~Writes /\ ~RecordFails
  <2>1. pending' = pending
    BY <1>3 DEF Next, Recording, Writes, Prune, NoThreadChange, ServerStart, Age, Accept,
       Refuse, Cut, Receive, Closed, Errored, Start, TimerFires, Connect, Stop, Crash,
       HandleEvent, OpenCursor, WriteCursor, MessageFails, vars, logVars, recordVars
  <2> QED
    BY <2>1
<1> QED
  BY <1>1, <1>2, <1>3

LEMMA ServerSteps ==
  ASSUME [Next]_vars, ~CutAll
  PROVE  serverUp => serverUp'
BY DEF Next, Recording, Prune, AppendEvent, Derive, NoThreadChange, RecordFails,
   ServerStart, Age, Announce, Announced, Accept, Refuse, Cut, Receive, Closed, Errored,
   Start, TimerFires, Connect, Stop, Crash, HandleEvent, OpenCursor, WriteCursor,
   MessageFails, vars, logVars, recordVars

LEMMA OpenAreToldStep ==
  ASSUME TypeOK, LogKept, CursorsPassed, OpenAreTold, WorkOnHand, [Next]_vars
  PROVE  OpenAreTold'
<1> SUFFICES ASSUME NEW c \in Conns, conn'[c] = "open"
             PROVE  serverUp' /\ Owed' \ pending' \subseteq Queued' \union Carried(c)'
  BY DEF OpenAreTold
<1>1. /\ Len(chan[c]) \in Nat /\ DOMAIN chan[c] = 1 .. Len(chan[c])
      /\ \A j \in DOMAIN chan[c] : chan[c][j] \subseteq Uids
      /\ conn \in [Conns -> ConnStates] /\ chan \in [Conns -> Seq(Messages)]
  BY QueueIs DEF TypeOK
<1>2. ~CutAll /\ ~Crash
  BY <1>1 DEF CutAll, Crash, Disconnected, Free
<1>3. ASSUME NEW d \in Conns, Accept(d), conn[c] # "open"
      PROVE  serverUp' /\ Owed' \ pending' \subseteq Queued' \union Carried(c)'
  <2>1. c = d /\ serverUp'
    BY <1>1, <1>3 DEF Accept, logVars, recordVars
  <2>2. ASSUME NEW u \in Owed' PROVE u \in Carried(c)'
    <3>1. u \in Owed
      <4>1. ~Writes
        <5>1. conn' # conn
          BY <1>3
        <5> QED
          BY <5>1 DEF Writes, streamVars
      <4> QED
        BY <4>1, OwedSteps
    <3> DEFINE S == ListAfter(after[c])
    <3>2. /\ chan'[c] = Batches(S) /\ S \in SUBSET (1 .. Len(hist)) /\ Len(hist) \in Nat
          /\ u \in S
      BY <1>3, <2>1, <3>1, CatchupIs
    <3> HIDE DEF S
    <3>3. \E k \in DOMAIN Batches(S) : u \in Batches(S)[k]
      BY <3>2, BatchesOfEvents
    <3> QED
      BY <3>2, <3>3 DEF Carried
  <2> QED
    BY <2>1, <2>2
<1>4. ASSUME conn[c] = "open", NEW u \in Owed', u \notin pending'
      PROVE  u \in Queued' \union Carried(c)'
  <2>1. u \in Owed
    BY <1>4, OwedSteps
  <2>2. u \in Queued => u \in Queued'
    BY <1>2, QueuedKept
  <2>3. CASE Announce
    <3>1. chan'[c] = Append(chan[c], Wanted(pending))
      BY <1>4, <2>3 DEF Announce
    <3>2. PICK w \in Agent : Wanted(pending) = {w}
      BY <2>3 DEF Announce, Announced, LogKept
    <3>3. {w} \in Messages /\ chan[c] \in Seq(Messages)
      BY <3>2 DEF Messages, TypeOK
    <3>4. /\ DOMAIN chan'[c] = 1 .. Len(chan[c]) + 1
          /\ chan'[c][Len(chan[c]) + 1] = {w}
          /\ \A j \in 1 .. Len(chan[c]) : chan'[c][j] = chan[c][j]
      BY <3>1, <3>2, <3>3, AppendIs
    <3>5. CASE u \in pending
      <4>1. u = w
        BY <2>1, <3>2, <3>5 DEF Wanted, Owed
      <4>2. Len(chan[c]) + 1 \in DOMAIN chan'[c] /\ u \in chan'[c][Len(chan[c]) + 1]
        BY <1>1, <3>4, <4>1
      <4> QED
        BY <4>2 DEF Carried
    <3>6. CASE u \in Carried(c)
      <4>1. PICK k \in DOMAIN chan[c] : u \in chan[c][k]
        BY <3>6 DEF Carried
      <4>2. k \in DOMAIN chan'[c] /\ chan'[c][k] = chan[c][k]
        BY <1>1, <3>4, <4>1
      <4> QED
        BY <4>1, <4>2 DEF Carried
    <3> QED
      BY <1>4, <2>1, <2>2, <3>5, <3>6 DEF OpenAreTold
  <2>4. CASE ~Announce
    <3>1. u \notin pending
      BY <1>2, <1>4, <2>4, PendingSteps
    <3>2. u \in Queued \union Carried(c)
      BY <1>4, <2>1, <3>1 DEF OpenAreTold
    <3>3. CASE chan'[c] = chan[c]
      BY <2>2, <3>2, <3>3 DEF Carried
    <3>4. ASSUME NEW d \in Conns, Receive(d), chan'[c] # chan[c]
          PROVE  u \in Queued' \union Carried(c)'
      <4>1. chan[c] # <<>> /\ chan'[c] = Tail(chan[c]) /\ queue' = Append(queue, Head(chan[c]))
        BY <1>1, <3>4 DEF Receive
      <4>2. chan[c] \in Seq(Messages) /\ queue \in Seq(Messages)
        BY DEF TypeOK
      <4>3. /\ Head(chan[c]) = chan[c][1] /\ chan[c][1] \in Messages
            /\ DOMAIN chan'[c] = 1 .. Len(chan[c]) - 1
            /\ \A j \in 1 .. Len(chan[c]) - 1 : chan'[c][j] = chan[c][j + 1]
        BY <4>1, <4>2, HeadIs
      <4>4. CASE u \in Queued
        BY <2>2, <4>4
      <4>5. CASE u \in chan[c][1]
        <5>1. Len(queue) + 1 \in DOMAIN queue' /\ queue'[Len(queue) + 1] = chan[c][1]
          BY <4>1, <4>2, <4>3, AppendIs
        <5> QED
          BY <4>5, <5>1 DEF Queued
      <4>6. ASSUME NEW k \in DOMAIN chan[c], u \in chan[c][k], k # 1 PROVE u \in Carried(c)'
        <5>1. k - 1 \in DOMAIN chan'[c] /\ chan'[c][k - 1] = chan[c][k]
          BY <1>1, <4>3, <4>6
        <5> QED
          BY <4>6, <5>1 DEF Carried
      <4> QED
        BY <3>2, <4>4, <4>5, <4>6 DEF Carried
    <3>5. ASSUME NEW d \in Conns, Accept(d) PROVE chan'[c] = chan[c]
      <4>1. c # d
        BY <1>4, <3>5 DEF Accept
      <4> QED
        BY <1>1, <3>5, <4>1 DEF Accept
    <3> QED
      BY <1>4, <2>4, <3>3, <3>4, <3>5, ChannelStep
  <2> QED
    BY <2>3, <2>4
<1>5. CASE conn[c] = "open"
  <2>1. serverUp'
    BY <1>2, <1>5, ServerSteps DEF OpenAreTold
  <2> QED
    BY <1>4, <1>5, <2>1
<1>6. CASE conn[c] # "open"
  <2>1. ~Announce
    BY <1>6 DEF Announce
  <2>2. \A d \in Conns : ~Receive(d)
    BY <1>6 DEF Receive
  <2> QED
    BY <1>3, <1>6, <2>1, <2>2, ChannelStep
<1> QED
  BY <1>5, <1>6

(***************************************************************************)
(* The invariant.                                                          *)
(***************************************************************************)
LEMMA InitIInv == Init => IInv
<1> SUFFICES ASSUME Init PROVE IInv
  OBVIOUS
<1> USE DEF Init, LogInit
<1>1. /\ hist = <<>> /\ Len(hist) = 0 /\ Uids = {} /\ Agent = {} /\ Owed = {}
      /\ queue = <<>> /\ \A c \in Conns : chan[c] = <<>>
  <2>1. hist = <<>> /\ DOMAIN hist = {}
    OBVIOUS
  <2>2. Uids = {} /\ Agent = {} /\ Owed = {}
    BY <2>1 DEF Uids, Agent, Owed
  <2> QED
    BY <2>1, <2>2
<1>2. LogTypeOK
  <2>1. hist \in Seq(Event) /\ troubles \in 0 .. MaxTroubles
    BY BoundsAssumption
  <2>2. nextId \in Nat \ {0} /\ stage \in Stages /\ aged \in 0 .. Len(hist)
    BY <1>1 DEF Stages
  <2>3. serverUp \in BOOLEAN
    BY Zenon
  <2> QED
    BY <1>1, <2>1, <2>2, <2>3 DEF LogTypeOK
<1>3. TypeOK
  <2>1. conn \in [Conns -> ConnStates] /\ after \in [Conns -> Nat]
    BY DEF ConnStates
  <2>2. <<>> \in Seq(Messages) /\ <<>> \in Seq(Nat)
    OBVIOUS
  <2>3. chan \in [Conns -> Seq(Messages)] /\ queue \in Seq(Messages) /\ reading \in Seq(Nat)
    BY <2>2
  <2>4. timer \in BOOLEAN
    BY Zenon
  <2> QED
    BY <1>2, <2>1, <2>3, <2>4 DEF TypeOK
<1>4. CursorsPassed
  BY <1>1 DEF CursorsPassed, Passed
<1>5. QueueInOrder /\ ChannelsInOrder
  BY <1>1 DEF QueueInOrder, ChannelsInOrder
<1>6. OpenAreTold
  BY DEF OpenAreTold, Free
<1>7. LogKept /\ WorkOnHand
  BY <1>1 DEF LogKept, WorkOnHand
<1> QED
  BY <1>3, <1>4, <1>5, <1>6, <1>7 DEF IInv

LEMMA IInvStep == IInv /\ [Next]_vars => IInv'
<1> SUFFICES ASSUME IInv, [Next]_vars PROVE IInv'
  OBVIOUS
<1>1. /\ TypeOK /\ CursorsPassed /\ QueueInOrder /\ ChannelsInOrder /\ OpenAreTold
      /\ LogKept /\ WorkOnHand
  BY DEF IInv
<1>2. TypeOK'
  BY <1>1, TypeStep
<1>3. LogKept'
  BY <1>1, LogKeptStep
<1>4. WorkOnHand'
  BY <1>1, WorkOnHandStep
<1>5. CursorsPassed'
  BY <1>1, CursorsPassedStep
<1>6. QueueInOrder'
  BY <1>1, QueueInOrderStep
<1>7. ChannelsInOrder'
  BY <1>1, ChannelsInOrderStep
<1>8. OpenAreTold'
  BY <1>1, OpenAreToldStep
<1> QED
  BY <1>2, <1>3, <1>4, <1>5, <1>6, <1>7, <1>8 DEF IInv

(***************************************************************************)
(* The inductive invariant of the stream: where an event is that nobody    *)
(* has handled yet (EventStream, IInv).                                    *)
(***************************************************************************)
THEOREM StreamInvariant == Spec => []IInv
BY InitIInv, IInvStep, PTL DEF Spec

(***************************************************************************)
(* The types of the log, the connections and the consumer.                 *)
(***************************************************************************)
THEOREM StreamTypes == Spec => []TypeOK
<1>1. IInv => TypeOK
  BY DEF IInv
<1> QED
  BY <1>1, StreamInvariant, PTL

(***************************************************************************)
(* The stored cursor never passes an event that was not handled, unless a  *)
(* failure the module names explains it, however many events are written,  *)
(* connections overlap and processes crash (handleEvent(),                 *)
(* scheduleReconnect(), sendCatchup()).                                    *)
(***************************************************************************)
THEOREM CursorLosesNothing == Spec => []NoSilentLoss
<1>1. IInv => NoSilentLoss
  <2> SUFFICES ASSUME IInv, NEW u \in Agent, Id(u) <= cursor, u \notin handled \union Excused
               PROVE  FALSE
    BY DEF NoSilentLoss
  <2>1. u \in Owed
    BY DEF Owed
  <2>2. cursor < Id(u)
    BY <2>1 DEF IInv, CursorsPassed, Passed
  <2>3. cursor \in Nat /\ Id(u) \in Nat
    BY UidsAre DEF IInv, TypeOK
  <2> QED
    BY <2>2, <2>3
<1> QED
  BY <1>1, StreamInvariant, PTL

(***************************************************************************)
(* The refinement: each step publishes, delivers or loses an event, or     *)
(* changes nothing of the three.                                           *)
(***************************************************************************)
LEMMA DeliveryInit == Init => Delivery!Init
<1> SUFFICES ASSUME Init PROVE Delivery!Init
  OBVIOUS
<1>1. hist = <<>> /\ DOMAIN hist = {} /\ handled = {}
  BY DEF Init, LogInit
<1>2. Agent = {}
  BY <1>1 DEF Agent, Uids
<1> QED
  BY <1>1, <1>2 DEF Delivery!Init

Lost == Excused \intersect Agent

LEMMA WritePublishes ==
  ASSUME IInv, Writes
  PROVE  [Delivery!Next]_(Delivery!vars)
<1>1. PICK kind \in {"agent", "derived"} :
        Write(kind) /\ UNCHANGED <<handled, unannounced, dropped, aged>>
  BY DEF Writes, AppendEvent, Derive, streamVars
<1>2. PICK u : u = Len(hist) + 1
  OBVIOUS
<1>3. /\ Uids = 1 .. Len(hist) /\ Len(hist) \in Nat /\ Agent \subseteq Uids
      /\ unannounced \subseteq Uids /\ dropped \subseteq Uids /\ 1 .. aged \subseteq Uids
      /\ Reused \subseteq Uids
  BY UidsAre DEF IInv, TypeOK, LogTypeOK, Reused
<1>4. /\ u \notin Uids /\ \A v \in Uids : v < u
      /\ Agent' = IF kind = "agent" THEN Agent \union {u} ELSE Agent
      /\ Reused \subseteq Reused' /\ Reused' \subseteq Reused \union {u}
  BY <1>1, <1>2, NewEvent DEF IInv, TypeOK
<1>5. Lost' \in {Lost, Lost \union {u}} /\ (kind # "agent" => Lost' = Lost)
  <2>1. u \notin Excused /\ Excused \subseteq Excused' /\ Excused' \subseteq Excused \union {u}
    BY <1>1, <1>3, <1>4 DEF Excused
  <2>2. CASE kind = "agent"
    <3>1. Agent' = Agent \union {u} /\ u \notin Agent
      BY <1>3, <1>4, <2>2
    <3>2. Excused \intersect Agent' = Excused \intersect Agent
      BY <2>1, <3>1
    <3> QED
      BY <2>1, <2>2, <3>1, <3>2 DEF Lost
  <2>3. CASE kind # "agent"
    BY <1>3, <1>4, <2>1, <2>3 DEF Lost
  <2> QED
    BY <2>2, <2>3
<1>6. CASE kind = "agent"
  <2>1. Agent' = Agent \union {u} /\ u \in Agent' \ Agent /\ \A v \in Agent : v < u
    BY <1>3, <1>4, <1>6
  <2>2. Delivery!Publish
    BY <1>1, <1>5, <2>1 DEF Delivery!Publish, Lost
  <2> QED
    BY <2>2 DEF Delivery!Next
<1>7. CASE kind # "agent"
  <2>1. Agent' = Agent /\ handled' = handled /\ Lost' = Lost
    BY <1>1, <1>4, <1>5, <1>7
  <2> QED
    BY <2>1 DEF Delivery!vars, Lost
<1> QED
  BY <1>6, <1>7

LEMMA HandlingDelivers ==
  ASSUME IInv, HandleEvent
  PROVE  [Delivery!Next]_(Delivery!vars)
<1>1. /\ Current \in queue[1] /\ Current \in Agent
      /\ \A v \in queue[1] : Current <= v
      /\ 1 \in DOMAIN queue
  BY CurrentIs, HeadIs DEF IInv, TypeOK, HandleEvent
<1>2. /\ handled' = handled \union {Current}
      /\ UNCHANGED <<hist, unannounced, dropped, aged>>
  BY DEF HandleEvent, logVars, recordVars
<1>3. Agent' = Agent /\ Lost' = Lost
  BY <1>2 DEF Agent, Uids, Lost, Excused, Reused, Id
<1>4. CASE Current \in handled
  <2>1. handled' = handled
    BY <1>2, <1>4
  <2> QED
    BY <1>3, <2>1 DEF Delivery!vars, Lost
<1>5. CASE Current \notin handled
  <2>1. ASSUME NEW v \in Agent, v < Current PROVE v \in handled \union Lost
    <3>1. CASE v \in Owed
      <4>1. PICK k \in 1 .. 1 : v \in queue[k]
        BY <1>1, <2>1, <3>1 DEF IInv, QueueInOrder
      <4>2. Current <= v
        BY <1>1, <4>1
      <4>3. v \in Nat /\ Current \in Nat
        BY <1>1, <2>1, UidsAre DEF IInv, TypeOK
      <4> QED
        BY <2>1, <4>2, <4>3
    <3> QED
      BY <2>1, <3>1 DEF Owed, Lost
  <2>2. Delivery!Earlier(Current) \subseteq handled \union Lost
    BY <2>1 DEF Delivery!Earlier
  <2>3. Delivery!Deliver(Current)
    BY <1>1, <1>2, <1>3, <1>5, <2>2 DEF Delivery!Deliver, Lost
  <2> QED
    BY <1>1, <2>3 DEF Delivery!Next
<1> QED
  BY <1>4, <1>5

LEMMA DeliveryStep == IInv /\ [Next]_vars => [Delivery!Next]_(Delivery!vars)
<1> SUFFICES ASSUME IInv, [Next]_vars PROVE [Delivery!Next]_(Delivery!vars)
  OBVIOUS
<1>1. CASE Writes
  BY <1>1, WritePublishes
<1>2. CASE HandleEvent
  BY <1>2, HandlingDelivers
<1>3. CASE ~Writes /\ ~HandleEvent
  <2>1. /\ aged \in Nat /\ aged' \in Nat /\ aged <= aged'
        /\ unannounced \subseteq unannounced' /\ dropped \subseteq dropped'
        /\ Agent' = Agent /\ hist' = hist
    BY <1>3, HistorySteps DEF IInv
  <2>2. handled' = handled
    BY <1>3 DEF Next, Recording, Announce, CutAll, Accept, Refuse, Cut, Receive, Closed,
       Errored, Start, TimerFires, Connect, Stop, Crash, OpenCursor, WriteCursor,
       MessageFails, vars, streamVars
  <2>3. Reused' = Reused
    BY <2>1 DEF Reused, Uids, Id
  <2>4. 1 .. aged \subseteq 1 .. aged'
    BY <2>1
  <2>5. Lost \subseteq Lost' /\ Lost' \subseteq Agent
    BY <2>1, <2>3, <2>4 DEF Lost, Excused
  <2>6. CASE Lost' = Lost
    BY <2>1, <2>2, <2>6 DEF Delivery!vars, Lost
  <2>7. CASE Lost' # Lost
    BY <2>1, <2>2, <2>5, <2>7 DEF Delivery!Next, Delivery!Lose, Lost
  <2> QED
    BY <2>6, <2>7
<1> QED
  BY <1>1, <1>2, <1>3

(***************************************************************************)
(* The stream, the log and the consumer together implement the delivery    *)
(* they promise: the first completed handlings come in the order of the    *)
(* events, without a gap that no failure explains (EventDelivery).         *)
(***************************************************************************)
THEOREM StreamImplementsDelivery == Spec => ImplementsDelivery
BY DeliveryInit, DeliveryStep, StreamInvariant, PTL DEF Spec, ImplementsDelivery, Delivery!Spec
=============================================================================
