--------------------------- MODULE ReplayDataProofs ---------------------------
(***************************************************************************)
(* Proofs about ReplayData, for any channels, nodes, updates and any       *)
(* number of replays at a time on one connection: that no channel is       *)
(* skipped while the list changes under an iterator, and that a client     *)
(* ends up with what the cache holds.                                      *)
(***************************************************************************)
EXTENDS ReplayData, FiniteSetTheorems, SequenceTheorems, WellFoundedInduction,
        NaturalsInduction, TLAPS

(* The least of some natural numbers: what replaces an induction here.     *)
LEMMA Least ==
  ASSUME NEW T, T \subseteq Nat, T # {}
  PROVE  \E n \in T : \A m \in T : n <= m
<1> DEFINE less == OpToRel(<, Nat)
<1>1. \A x, y \in Nat : <<x, y>> \notin less => y <= x
  BY DEF OpToRel
<1>2. IsWellFoundedOn(less, Nat)
  BY NatLessThanWellFounded
<1> HIDE DEF less
<1>3. PICK n \in T : \A m \in T : <<m, n>> \notin less
  BY <1>2, WFMin
<1> QED BY <1>1, <1>3

-----------------------------------------------------------------------------
(* Lists in ascending order. *)

(* Items that can be put in order: those with an index of their own.       *)
Sortable(S) ==
  /\ IsFiniteSet(S)
  /\ \A x \in S : x.key[2] \in Nat
  /\ \A x, y \in S : x.key[2] = y.key[2] => x = y

Sorts(list, S) == list \in [1..Cardinality(S) -> S] /\ Ascending(list) /\ Items(list) = S

(* The first item, and the rest in order.                                  *)
LEMMA SortsCons ==
  ASSUME NEW S, Sortable(S), NEW x \in S, \A y \in S : x.key[2] <= y.key[2],
         NEW rest, Sorts(rest, S \ {x})
  PROVE  \E list : Sorts(list, S)
<1> DEFINE n == Cardinality(S)
           list == [i \in 1..n |-> IF i = 1 THEN x ELSE rest[i - 1]]
<1>1. n \in Nat \ {0} /\ Cardinality(S \ {x}) = n - 1
  <2>1. IsFiniteSet(S) /\ n \in Nat /\ n # 0
    BY FS_CardinalityType, FS_EmptySet DEF Sortable
  <2> QED BY <2>1, FS_RemoveElement
<1> HIDE DEF n
<1>2. \A i \in 1..n - 1 : rest[i] \in S /\ rest[i] # x
  BY <1>1 DEF Sorts
<1>3. \A i \in 1..n : i = 1 \/ i - 1 \in 1..n - 1
  BY <1>1
<1>4. 1 \in 1..n /\ list[1] = x /\ \A i \in 1..n : i # 1 => list[i] = rest[i - 1]
  BY <1>1
<1>5. list \in [1..n -> S]
  BY <1>2, <1>3
<1> HIDE DEF list
<1>6. Ascending(list)
  <2> SUFFICES ASSUME NEW i \in 1..n, NEW j \in 1..n, i < j PROVE list[i].key[2] < list[j].key[2]
    BY <1>5 DEF Ascending
  <2>1. j # 1 /\ j - 1 \in 1..n - 1 /\ list[j] = rest[j - 1]
    BY <1>1, <1>3, <1>4
  <2>2. CASE i = 1
    <3>1. rest[j - 1] \in S /\ rest[j - 1] # x
      BY <1>2, <2>1
    <3>2. x.key[2] \in Nat /\ rest[j - 1].key[2] \in Nat /\ x.key[2] # rest[j - 1].key[2]
      BY <3>1 DEF Sortable
    <3>3. x.key[2] <= rest[j - 1].key[2]
      BY <3>1
    <3> QED BY <1>4, <2>1, <2>2, <3>2, <3>3
  <2>3. CASE i # 1
    <3>1. i - 1 \in 1..n - 1 /\ i - 1 < j - 1 /\ list[i] = rest[i - 1]
      BY <1>1, <1>3, <1>4, <2>3
    <3>2. DOMAIN rest = 1..n - 1
      BY <1>1 DEF Sorts
    <3> QED BY <2>1, <3>1, <3>2 DEF Sorts, Ascending
  <2> QED BY <2>2, <2>3
<1>7. Items(list) = S
  <2>1. DOMAIN list = 1..n /\ DOMAIN rest = 1..n - 1
    BY <1>1, <1>5 DEF Sorts
  <2>2. Items(list) \subseteq S
    BY <1>5, <2>1 DEF Items
  <2>3. ASSUME NEW y \in S PROVE y \in Items(list)
    <3>1. CASE y = x
      BY <1>4, <2>1, <3>1 DEF Items
    <3>2. CASE y # x
      <4>1. PICK i \in 1..n - 1 : y = rest[i]
        BY <2>1, <3>2 DEF Sorts, Items
      <4>2. i + 1 \in 1..n /\ i + 1 # 1 /\ (i + 1) - 1 = i
        BY <1>1
      <4>3. list[i + 1] = y
        BY <1>4, <4>1, <4>2
      <4> QED BY <2>1, <4>2, <4>3 DEF Items
    <3> QED BY <3>1, <3>2
  <2> QED BY <2>2, <2>3
<1> QED BY <1>5, <1>6, <1>7 DEF Sorts, n

(* Every such set can be put in order: if not, take a least one that       *)
(* cannot, and remove its first item.                                      *)
LEMMA SortsExist ==
  ASSUME NEW S, Sortable(S)
  PROVE  \E list : Sorts(list, S)
<1> DEFINE Bad(T) == Sortable(T) /\ ~\E list : Sorts(list, T)
           sizes == {n \in Nat : \E T \in SUBSET S : Bad(T) /\ Cardinality(T) = n}
<1>1. \A T \in SUBSET S : Sortable(T) /\ Cardinality(T) \in Nat
  <2> SUFFICES ASSUME NEW T \in SUBSET S PROVE Sortable(T) /\ Cardinality(T) \in Nat
    OBVIOUS
  <2>1. IsFiniteSet(S)
    BY DEF Sortable
  <2>2. IsFiniteSet(T)
    BY <2>1, FS_Subset
  <2> QED BY <2>2, FS_CardinalityType DEF Sortable
<1> SUFFICES ASSUME Bad(S) PROVE FALSE
  OBVIOUS
<1>2. Cardinality(S) \in sizes
  BY <1>1
<1>3. PICK n \in sizes : \A m \in sizes : n <= m
  BY <1>2, Least
<1>4. PICK T \in SUBSET S : Bad(T) /\ Cardinality(T) = n
  OBVIOUS
<1>5. n \in Nat
  OBVIOUS
<1>6. CASE T = {}
  <2>1. Cardinality(T) = 0
    BY <1>6, FS_EmptySet
  <2>2. <<>> \in [1..Cardinality(T) -> T] /\ DOMAIN <<>> = {}
    BY <2>1
  <2>3. Sorts(<<>>, T)
    BY <1>6, <2>2 DEF Sorts, Ascending, Items
  <2> QED BY <1>4, <2>3
<1>7. CASE T # {}
  <2> DEFINE ks == {y.key[2] : y \in T}
  <2>1. Sortable(T) /\ ks \subseteq Nat /\ ks # {}
    BY <1>1, <1>7 DEF Sortable
  <2>2. PICK k \in ks : \A m \in ks : k <= m
    BY <2>1, Least
  <2>3. PICK x \in T : x.key[2] = k
    OBVIOUS
  <2>4. \A y \in T : x.key[2] <= y.key[2]
    BY <2>2, <2>3
  <2>5. T \ {x} \in SUBSET S /\ Cardinality(T \ {x}) = n - 1 /\ n - 1 < n
    <3>1. Cardinality(T \ {x}) = n - 1
      BY <1>4, <2>1, <2>3, FS_RemoveElement DEF Sortable
    <3> QED BY <1>5, <3>1
  <2>6. n - 1 \in Nat
    BY <1>1, <2>5
  <2>7. ~Bad(T \ {x})
    <3>1. n - 1 \notin sizes
      BY <1>3, <1>5, <2>6
    <3> QED BY <2>5, <2>6, <3>1
  <2>8. \E rest : Sorts(rest, T \ {x})
    BY <1>1, <2>5, <2>7
  <2> HIDE DEF sizes, ks
  <2> QED BY <1>4, <2>1, <2>3, <2>4, <2>8, SortsCons
<1> QED BY <1>6, <1>7

(* InOrder(S) is S, in ascending order and without repetition.             *)
LEMMA InOrderIs ==
  ASSUME NEW S, Sortable(S)
  PROVE  /\ InOrder(S) \in Seq(S) /\ Ascending(InOrder(S)) /\ Items(InOrder(S)) = S
         /\ (S # {} => InOrder(S) # <<>>)
<1>1. PICK list : Sorts(list, S)
  BY SortsExist
<1>2. Cardinality(S) \in Nat
  BY FS_CardinalityType DEF Sortable
<1>3. SetToSeqs(S) = {f \in [1..Cardinality(S) -> S] :
                        \A i, j \in 1..Cardinality(S) : i # j => f[i] # f[j]}
  BY DEF SetToSeqs
<1>4. list \in SetToSeqs(S)
  <2>1. \A i, j \in 1..Cardinality(S) : i < j => list[i].key[2] < list[j].key[2]
    BY <1>1 DEF Sorts, Ascending
  <2>2. \A i \in 1..Cardinality(S) : list[i].key[2] \in Nat
    BY <1>1 DEF Sorts, Sortable
  <2>3. \A i, j \in 1..Cardinality(S) : i # j => list[i] # list[j]
    <3> SUFFICES ASSUME NEW i \in 1..Cardinality(S), NEW j \in 1..Cardinality(S), i # j,
                        list[i] = list[j]
                 PROVE  FALSE
      OBVIOUS
    <3>1. i < j \/ j < i
      BY <1>2
    <3> QED BY <2>1, <2>2, <3>1
  <2> QED BY <1>1, <1>3, <2>3 DEF Sorts
<1>5. InOrder(S) \in SetToSeqs(S) /\ Ascending(InOrder(S))
  BY <1>1, <1>4 DEF Sorts, InOrder
<1>6. InOrder(S) \in [1..Cardinality(S) -> S]
  BY <1>3, <1>5
<1>7. InOrder(S) \in Seq(S)
  BY <1>2, <1>6, SeqDef
<1>8. Items(InOrder(S)) = S
  <2>1. IsFiniteSet(S) /\ IsFiniteSet(1..Cardinality(S)) /\ Cardinality(1..Cardinality(S)) = Cardinality(S)
    BY <1>2, FS_Interval DEF Sortable
  <2>2. \A i, j \in 1..Cardinality(S) : i # j => InOrder(S)[i] # InOrder(S)[j]
    BY <1>3, <1>5
  <2>3. Items(InOrder(S)) \subseteq S
    BY <1>6 DEF Items
  <2>4. ASSUME NEW y \in S, y \notin Items(InOrder(S)) PROVE FALSE
    <3>1. InOrder(S) \in [1..Cardinality(S) -> S \ {y}]
      BY <1>6, <2>4 DEF Items
    <3>2. IsFiniteSet(S \ {y}) /\ Cardinality(S \ {y}) < Cardinality(S)
      <4>1. IsFiniteSet(S \ {y}) /\ Cardinality(S \ {y}) = Cardinality(S) - 1
        BY <2>1, <2>4, FS_RemoveElement
      <4> QED BY <1>2, <4>1
    <3>3. Cardinality(S \ {y}) < Cardinality(1..Cardinality(S))
      BY <2>1, <3>2
    <3> DEFINE places == 1..Cardinality(S)
               others == S \ {y}
               list2 == InOrder(S)
    <3>4. \E i, j \in places : i # j /\ list2[i] = list2[j]
      <4>1. /\ IsFiniteSet(places) /\ IsFiniteSet(others)
            /\ Cardinality(others) < Cardinality(places) /\ list2 \in [places -> others]
        BY <2>1, <3>1, <3>2, <3>3
      <4> HIDE DEF places, others, list2
      <4> QED BY <4>1, FS_PigeonHole
    <3> QED BY <2>2, <3>4
  <2> QED BY <2>3, <2>4
<1>9. S # {} => InOrder(S) # <<>>
  BY <1>8 DEF Items
<1> QED BY <1>5, <1>7, <1>8, <1>9
-----------------------------------------------------------------------------
(* The invariant. *)

(* What the cache holds comes from the updates so far, and what an         *)
(* iterator has come to is a place of the list.                            *)
CacheInv ==
  /\ \A i \in DOMAIN channels : /\ channels[i].key[1] = "channel"
                               /\ channels[i].version \in 1..updates + 1
  /\ \A n \in Node : known[n] <= updates + 1

(* An iterator has sent each channel that was there at the beginning, or   *)
(* has yet to come to it.                                                  *)
IteratorOK(r) ==
  /\ pos[r] > 0 => stage[r] \in {"channels", "configs", "nodes"}
  /\ stage[r] = "channels" =>
       /\ pos[r] \in 1..Len(channels) /\ begun[r] \subseteq Indexes
       /\ \A i \in 1..pos[r] : channels[i].key[2] \in begun[r] => channels[i].key[2] \in sent[r]
  /\ stage[r] = "configs" /\ pos[r] > 0 => begun[r] \subseteq sent[r]

IteratorInv == \A r \in Runner : IteratorOK(r)

(* The last of a channel or node in the queue is what the cache holds.     *)
OutInv ==
  \A k \in Key : \A i \in DOMAIN out : out[i].key = k =>
    /\ out[i].version <= Cached(k)
    /\ out[i].version = Cached(k) \/ \E j \in DOMAIN out : i < j /\ out[j].key = k

Pending(k) == \E i \in DOMAIN out : out[i].key = k
Reached(k) == shown[k] # -1 \/ Pending(k)

(* What is written may be out of date, but then there is news to come, or  *)
(* it has been overtaken.                                                  *)
Current(item) == item.version = Cached(item.key) \/ Pending(item.key) \/ item.key \in overtaken

HeldInv ==
  \A r \in Runner : \A x \in Items(todo[r]) :
    /\ x.key[1] = "node" \/ x.version = 0
    /\ x.version <= Cached(x.key) /\ Current(x)

ShownInv ==
  \A k \in Key : shown[k] = -1 \/ shown[k] = Cached(k) \/ Pending(k) \/ k \in overtaken

DataInv == OutInv /\ HeldInv /\ ShownInv

(* The client has been shown, or is to be shown, all that a replay has     *)
(* gone over.                                                              *)
ReachedOrHeld(r, k) == Reached(k) \/ \E x \in Items(todo[r]) : x.key = k

CoverOK(r) ==
  /\ stage[r] = "channels" =>
       \A i \in 1..pos[r] : \A c \in Channel :
         channels[i].key[2] = c => Reached(<<"channel", c>>)
  /\ stage[r] = "defaults" => \A c \in Channel : ReachedOrHeld(r, <<"channel", c>>)
  /\ stage[r] \in {"configs", "nodes"} =>
       \A c \in Channel : c \in Indexes => Reached(<<"channel", c>>)
  /\ stage[r] = "nodes" => \A n \in Node : known[n] > 0 => ReachedOrHeld(r, <<"node", n>>)

CoverInv ==
  /\ \A r \in Runner : CoverOK(r)
  /\ completed => \A k \in Key : Cached(k) > 0 => Reached(k)

-----------------------------------------------------------------------------
(* The cache's list. *)

LEMMA KeyKinds ==
  ASSUME NEW k \in Key
  PROVE  /\ k[1] \in {"channel", "node"} /\ k[2] \in Nat /\ k = <<k[1], k[2]>>
         /\ k[1] = "channel" <=> k[2] \in Channel /\ k = <<"channel", k[2]>>
         /\ k[1] = "node" <=> k[2] \in Node /\ k = <<"node", k[2]>>
<1>1. CASE k \in {"channel"} \X Channel
  <2>1. PICK c \in Channel : k = <<"channel", c>>
    BY <1>1
  <2> QED BY <2>1, ReplayDataAssumption
<1>2. CASE k \in {"node"} \X Node
  <2>1. PICK n \in Node : k = <<"node", n>>
    BY <1>2
  <2> QED BY <2>1, ReplayDataAssumption
<1> QED BY <1>1, <1>2 DEF Key

LEMMA Ascends ==
  ASSUME NEW list, list \in Seq(Item), Ascending(list), NEW i \in DOMAIN list, NEW j \in DOMAIN list
  PROVE  /\ list[i].key[2] < list[j].key[2] => i < j
         /\ list[i].key[2] = list[j].key[2] => i = j
<1>1. i \in Nat /\ j \in Nat /\ list[i] \in Item /\ list[j] \in Item
  BY LenProperties
<1>2. list[i].key \in Key /\ list[j].key \in Key
  BY <1>1 DEF Item
<1>3. list[i].key[2] \in Nat /\ list[j].key[2] \in Nat
  BY <1>2, KeyKinds
<1>4. i < j \/ i = j \/ j < i
  BY <1>1
<1>5. (i < j => list[i].key[2] < list[j].key[2]) /\ (j < i => list[j].key[2] < list[i].key[2])
  BY DEF Ascending
<1> QED BY <1>3, <1>4, <1>5

(* In a list that holds all the indexes of another no item comes earlier.  *)
LEMMA Shift ==
  ASSUME NEW a, a \in Seq(Item), Ascending(a), NEW b, b \in Seq(Item), Ascending(b),
         \A j \in DOMAIN a : \E i \in DOMAIN b : b[i].key[2] = a[j].key[2],
         NEW j \in DOMAIN a, NEW i \in DOMAIN b, a[j].key[2] = b[i].key[2]
  PROVE  j <= i
<1> DEFINE early == {p \in DOMAIN a : \E q \in DOMAIN b : a[p].key[2] = b[q].key[2] /\ q < p}
<1>1. DOMAIN a = 1..Len(a) /\ DOMAIN b = 1..Len(b) /\ Len(a) \in Nat /\ Len(b) \in Nat
  BY LenProperties
<1> SUFFICES ASSUME i < j PROVE FALSE
  BY <1>1
<1>2. j \in early /\ early \subseteq Nat
  BY <1>1
<1>3. PICK p \in early : \A m \in early : p <= m
  BY <1>2, Least
<1>4. PICK q \in DOMAIN b : a[p].key[2] = b[q].key[2] /\ q < p
  OBVIOUS
<1>5. p - 1 \in DOMAIN a /\ p - 1 < p
  BY <1>1, <1>4
<1>6. PICK o \in DOMAIN b : b[o].key[2] = a[p - 1].key[2]
  BY <1>5
<1>7. b[o].key[2] < b[q].key[2]
  BY <1>4, <1>5, <1>6 DEF Ascending
<1>8. o < q
  BY <1>7, Ascends
<1>9. p - 1 \in early
  BY <1>1, <1>4, <1>5, <1>6, <1>8
<1>10. p \in Nat /\ p <= p - 1
  BY <1>2, <1>3, <1>9
<1> QED BY <1>10

(* The version that a list has of a key is that of the item it is found at. *)
LEMMA FoundAt ==
  ASSUME NEW list, list \in Seq(Item), Ascending(list), NEW i \in DOMAIN list
  PROVE  (CHOOSE x \in Items(list) : x.key = list[i].key) = list[i]
<1>1. list[i] \in Items(list)
  BY DEF Items
<1>2. \A x \in Items(list) : x.key = list[i].key => x = list[i]
  BY Ascends DEF Items
<1> QED BY <1>1, <1>2

LEMMA FiniteRange ==
  ASSUME NEW S, IsFiniteSet(S), NEW T, NEW f \in [S -> T], \A t \in T : \E s \in S : f[s] = t
  PROVE  IsFiniteSet(T)
<1>1. f \in Surjection(S, T)
  BY DEF Surjection
<1> QED BY <1>1, FS_Surjection

LEMMA ItemsOf ==
  ASSUME NEW S, NEW list, list \in Seq(S)
  PROVE  IsFiniteSet(Items(list)) /\ Items(list) \subseteq S
<1>1. DOMAIN list = 1..Len(list) /\ Len(list) \in Nat
  BY LenProperties
<1>2. IsFiniteSet(1..Len(list))
  BY <1>1, FS_Interval
<1>3. IsFiniteSet(Items(list))
  <2>1. list \in [1..Len(list) -> Items(list)] /\ \A x \in Items(list) : \E i \in 1..Len(list) : list[i] = x
    BY <1>1 DEF Items
  <2> QED BY <1>2, <2>1, FiniteRange
<1> QED BY <1>3 DEF Items

LEMMA HeadTail ==
  ASSUME NEW S, NEW list, list \in Seq(S), list # <<>>
  PROVE  /\ Head(list) \in S /\ Tail(list) \in Seq(S)
         /\ Items(list) = {Head(list)} \cup Items(Tail(list))
         /\ 1 \in DOMAIN list /\ Head(list) = list[1]
<1>1. Len(list) \in Nat \ {0} /\ DOMAIN list = 1..Len(list)
  BY EmptySeq, LenProperties
<1>2. Head(list) = list[1] /\ Tail(list) \in Seq(S) /\ DOMAIN Tail(list) = 1..Len(list) - 1
      /\ \A i \in 1..Len(list) - 1 : Tail(list)[i] = list[i + 1]
  BY <1>1
<1>3. Items(list) = {Head(list)} \cup Items(Tail(list))
  <2>1. ASSUME NEW i \in 1..Len(list) PROVE list[i] \in {Head(list)} \cup Items(Tail(list))
    <3>1. CASE i = 1
      BY <1>2, <3>1
    <3>2. CASE i # 1
      <4>1. i - 1 \in 1..Len(list) - 1 /\ Tail(list)[i - 1] = list[i]
        BY <1>1, <1>2, <3>2
      <4> QED BY <1>2, <4>1 DEF Items
    <3> QED BY <3>1, <3>2
  <2>2. ASSUME NEW i \in 1..Len(list) - 1 PROVE Tail(list)[i] \in Items(list)
    <3>1. i + 1 \in DOMAIN list
      BY <1>1
    <3> QED BY <1>2, <3>1 DEF Items
  <2>3. Head(list) \in Items(list)
    BY <1>1, <1>2 DEF Items
  <2> QED BY <1>1, <1>2, <2>1, <2>2, <2>3 DEF Items
<1> QED BY <1>1, <1>2, <1>3

(* The items of some channels, or of some nodes, can be put in order.      *)
LEMMA KindSortable ==
  ASSUME NEW kind \in {"channel", "node"}, NEW I, I \subseteq Nat, IsFiniteSet(I), NEW version
  PROVE  Sortable({ItemOf(kind, k, version[k]) : k \in I})
<1> DEFINE S == {ItemOf(kind, k, version[k]) : k \in I}
           f == [k \in I |-> ItemOf(kind, k, version[k])]
<1>1. f \in [I -> S] /\ \A x \in S : \E k \in I : f[k] = x
  OBVIOUS
<1>2. \A k \in I : ItemOf(kind, k, version[k]).key[2] = k
  BY DEF ItemOf
<1>3. IsFiniteSet(S)
  <2> HIDE DEF S, f
  <2> QED BY <1>1, FiniteRange
<1> QED BY <1>2, <1>3 DEF Sortable

LEMMA SomeChannels ==
  ASSUME NEW I, I \subseteq Channel, NEW v \in 0..MaxVersion
  PROVE  LET S == {ItemOf("channel", c, v) : c \in I} IN
           /\ Sortable(S) /\ S \subseteq Item
           /\ InOrder(S) \in Seq(Item) /\ Ascending(InOrder(S)) /\ Items(InOrder(S)) = S
           /\ I # {} => InOrder(S) # <<>>
<1> DEFINE S == {ItemOf("channel", c, v) : c \in I}
<1>1. I \subseteq Nat /\ IsFiniteSet(I)
  BY ReplayDataAssumption, FS_Subset
<1>2. Sortable(S)
  <2> DEFINE version == [c \in I |-> v]
  <2>1. \A c \in I : version[c] = v
    OBVIOUS
  <2>2. S = {ItemOf("channel", c, version[c]) : c \in I}
    BY <2>1
  <2> HIDE DEF S, version
  <2> QED BY <1>1, <2>2, KindSortable
<1>3. S \subseteq Item
  BY DEF ItemOf, Item, Key
<1>4. I # {} => S # {}
  OBVIOUS
<1> HIDE DEF S
<1>5. /\ InOrder(S) \in Seq(S) /\ Ascending(InOrder(S)) /\ Items(InOrder(S)) = S
      /\ (S # {} => InOrder(S) # <<>>)
  BY <1>2, InOrderIs
<1>6. InOrder(S) \in Seq(Item)
  BY <1>3, <1>5, SeqDef
<1> QED BY <1>2, <1>3, <1>4, <1>5, <1>6 DEF S

LEMMA DefaultsAre ==
  /\ Defaults \in Seq(Item) /\ Defaults # <<>>
  /\ Items(Defaults) = {ItemOf("channel", c, 0) : c \in Channel}
<1>1. 0 \in 0..MaxVersion
  BY ReplayDataAssumption DEF MaxVersion
<1> QED BY <1>1, SomeChannels, ReplayDataAssumption DEF Defaults

LEMMA SnapshotIs ==
  ASSUME TypeOK
  PROVE  /\ Snapshot \in Seq(Item)
         /\ Items(Snapshot) = {ItemOf("node", n, known[n]) : n \in {m \in Node : known[m] > 0}}
<1> DEFINE I == {m \in Node : known[m] > 0}
           S == {ItemOf("node", n, known[n]) : n \in I}
<1>1. I \subseteq Nat /\ IsFiniteSet(I)
  BY ReplayDataAssumption, FS_Subset
<1>2. Sortable(S)
  <2> HIDE DEF I
  <2> QED BY <1>1, KindSortable
<1>3. S \subseteq Item
  BY DEF ItemOf, Item, Key, TypeOK
<1>4. Snapshot = InOrder(S)
  BY DEF Snapshot
<1>5. S = {ItemOf("node", n, known[n]) : n \in {m \in Node : known[m] > 0}}
  OBVIOUS
<1> HIDE DEF S, I
<1>6. InOrder(S) \in Seq(S) /\ Items(InOrder(S)) = S
  BY <1>2, InOrderIs
<1>7. InOrder(S) \in Seq(Item)
  BY <1>3, <1>6, SeqDef
<1> QED BY <1>4, <1>5, <1>6, <1>7

-----------------------------------------------------------------------------
(* What the cache holds of a key. *)

LEMMA ChannelAt ==
  ASSUME TypeOK, CacheInv, NEW i \in DOMAIN channels
  PROVE  /\ channels[i] \in Item /\ channels[i].key \in Key
         /\ channels[i].key = <<"channel", channels[i].key[2]>>
         /\ channels[i].key[2] \in Channel /\ channels[i].key[2] \in Indexes
         /\ Cached(channels[i].key) = channels[i].version
<1>1. channels[i] \in Item
  BY DEF TypeOK
<1>2. channels[i].key \in Key /\ channels[i].key[1] = "channel"
  BY <1>1 DEF Item, CacheInv
<1>3. channels[i].key[2] \in Indexes
  BY DEF Indexes, Items
<1>4. (CHOOSE x \in Items(channels) : x.key = channels[i].key) = channels[i]
  BY FoundAt DEF TypeOK
<1>5. Cached(channels[i].key) = channels[i].version
  BY <1>2, <1>3, <1>4 DEF Cached
<1> QED BY <1>1, <1>2, <1>3, <1>5, KeyKinds

LEMMA CachedIs ==
  ASSUME TypeOK, CacheInv, NEW k \in Key
  PROVE  /\ Cached(k) \in 0..updates + 1
         /\ k[1] = "node" => Cached(k) = known[k[2]]
         /\ k[1] = "channel" /\ k[2] \notin Indexes => Cached(k) = 0
         /\ k[1] = "channel" /\ k[2] \in Indexes =>
              /\ Cached(k) > 0
              /\ \E i \in DOMAIN channels : channels[i].key = k /\ Cached(k) = channels[i].version
<1>1. updates \in Nat
  BY ReplayDataAssumption DEF TypeOK
<1>2. CASE k[1] = "node"
  <2>1. k[2] \in Node
    BY <1>2, KeyKinds
  <2>2. Cached(k) = known[k[2]] /\ known[k[2]] \in Nat /\ known[k[2]] <= updates + 1
    BY <1>2, <2>1 DEF Cached, TypeOK, CacheInv
  <2> QED BY <1>1, <1>2, <2>2
<1>3. CASE k[1] = "channel" /\ k[2] \notin Indexes
  <2>1. Cached(k) = 0
    BY <1>3 DEF Cached
  <2> QED BY <1>1, <1>3, <2>1
<1>4. CASE k[1] = "channel" /\ k[2] \in Indexes
  <2>1. PICK i \in DOMAIN channels : channels[i].key[2] = k[2]
    BY <1>4 DEF Indexes, Items
  <2>2. channels[i].key = k
    BY <1>4, <2>1, ChannelAt, KeyKinds
  <2>3. Cached(k) = channels[i].version
    BY <2>2, ChannelAt
  <2>4. channels[i].version \in 1..updates + 1
    BY DEF CacheInv
  <2> QED BY <1>1, <1>4, <2>2, <2>3, <2>4
<1> QED BY <1>2, <1>3, <1>4, KeyKinds

-----------------------------------------------------------------------------
(* A channel is updated: the list keeps its other items, in their order,   *)
(* and only this one's version changes.                                    *)
LEMMA ChannelUpdated ==
  ASSUME TypeOK, CacheInv, NEW c \in Channel, UpdateChannel(c)
  PROVE  LET new == ItemOf("channel", c, Cached(<<"channel", c>>) + 1) IN
           /\ new \in Item /\ new.key = <<"channel", c>> /\ new.key \in Key
           /\ new.version = Cached(new.key) + 1 /\ new.version \in 1..updates' + 1
           /\ channels' \in Seq(Item) /\ Ascending(channels')
           /\ Items(channels') = {x \in Items(channels) : x.key # new.key} \cup {new}
<1> DEFINE key == <<"channel", c>>
           new == ItemOf("channel", c, Cached(key) + 1)
           S == {x \in Items(channels) : x.key # new.key} \cup {new}
<1>1. key \in Key /\ new.key = key /\ new.version = Cached(key) + 1
  BY DEF Key, ItemOf
<1>2. updates \in Nat /\ updates < MaxUpdates /\ updates' = updates + 1 /\ MaxUpdates \in Nat
  BY ReplayDataAssumption DEF TypeOK, UpdateChannel
<1>3. Cached(key) \in 0..updates + 1
  BY <1>1, CachedIs
<1>4. new.version \in 1..updates' + 1 /\ new \in Item
  <2>1. Cached(key) + 1 \in 1..updates + 2 /\ updates + 2 <= MaxVersion
    BY <1>2, <1>3 DEF MaxVersion
  <2>2. Cached(key) + 1 \in 0..MaxVersion
    BY <1>2, <2>1 DEF MaxVersion
  <2> QED BY <1>1, <1>2, <2>1, <2>2 DEF ItemOf, Item
<1>5. Sortable(S) /\ S \subseteq Item
  <2>1. IsFiniteSet(Items(channels)) /\ Items(channels) \subseteq Item
    BY ItemsOf DEF TypeOK
  <2>2. IsFiniteSet({x \in Items(channels) : x.key # new.key})
    BY <2>1, FS_Subset
  <2>3. IsFiniteSet(S) /\ S \subseteq Item
    BY <1>4, <2>1, <2>2, FS_AddElement
  <2>4. \A x \in S : x.key = <<"channel", x.key[2]>> /\ x.key[2] \in Nat
    <3>1. \A x \in Items(channels) : x.key = <<"channel", x.key[2]>> /\ x.key[2] \in Channel
      BY ChannelAt DEF Items
    <3>2. new.key = <<"channel", new.key[2]>> /\ new.key[2] \in Channel
      BY <1>1
    <3> QED BY <3>1, <3>2, ReplayDataAssumption
  <2>5. \A x, y \in S : x.key[2] = y.key[2] => x = y
    <3> SUFFICES ASSUME NEW x \in S, NEW y \in S, x.key = y.key PROVE x = y
      BY <2>4
    <3>1. \A u, w \in Items(channels) : u.key = w.key => u = w
      <4> SUFFICES ASSUME NEW i \in DOMAIN channels, NEW j \in DOMAIN channels,
                          channels[i].key = channels[j].key
                   PROVE  i = j
        BY DEF Items
      <4>1. channels \in Seq(Item) /\ Ascending(channels) /\ channels[i].key[2] = channels[j].key[2]
        BY DEF TypeOK
      <4> QED BY <4>1, Ascends
    <3> QED BY <3>1
  <2> QED BY <2>3, <2>4, <2>5 DEF Sortable
<1>6. channels' = InOrder(S)
  BY DEF UpdateChannel
<1> HIDE DEF S
<1>7. InOrder(S) \in Seq(S) /\ Ascending(InOrder(S)) /\ Items(InOrder(S)) = S
  BY <1>5, InOrderIs
<1>8. InOrder(S) \in Seq(Item)
  BY <1>5, <1>7, SeqDef
<1> QED BY <1>1, <1>4, <1>6, <1>7, <1>8 DEF S

LEMMA ChannelUpdatedCache ==
  ASSUME TypeOK, CacheInv, NEW c \in Channel, UpdateChannel(c)
  PROVE  /\ CacheInv' /\ Indexes' = Indexes \cup {c}
         /\ \A k \in Key : Cached(k)' = IF k = <<"channel", c>> THEN Cached(k) + 1 ELSE Cached(k)
<1> DEFINE new == ItemOf("channel", c, Cached(<<"channel", c>>) + 1)
<1>1. /\ new.key = <<"channel", c>> /\ new.key \in Key /\ new.version = Cached(new.key) + 1
      /\ new.version \in 1..updates' + 1
      /\ channels' \in Seq(Item) /\ Ascending(channels')
      /\ Items(channels') = {x \in Items(channels) : x.key # new.key} \cup {new}
  BY ChannelUpdated
<1> HIDE DEF new
<1>2. updates \in Nat /\ updates' = updates + 1 /\ known' = known
  BY DEF TypeOK, UpdateChannel
<1>3. \A x \in Items(channels') : x.key[1] = "channel" /\ x.version \in 1..updates' + 1
  <2>1. \A x \in Items(channels) : x.key[1] = "channel" /\ x.version \in 1..updates + 1
    BY DEF Items, CacheInv
  <2> QED BY <1>1, <1>2, <2>1
<1>4. CacheInv'
  <2>1. \A i \in DOMAIN channels' : channels'[i] \in Items(channels')
    BY DEF Items
  <2>2. \A n \in Node : known'[n] <= updates' + 1
    BY <1>2 DEF CacheInv, TypeOK
  <2> QED BY <1>3, <2>1, <2>2 DEF CacheInv
<1>5. \A x \in Items(channels) : x.key = <<"channel", x.key[2]>>
  BY ChannelAt DEF Items
<1>6. Indexes' = Indexes \cup {c}
  <2>1. Indexes' = {x.key[2] : x \in Items(channels')} /\ new.key[2] = c
    BY <1>1 DEF Indexes
  <2> QED BY <1>1, <1>5, <2>1 DEF Indexes
<1>7. ASSUME NEW x \in Items(channels') PROVE (CHOOSE y \in Items(channels') : y.key = x.key) = x
  <2>1. PICK i \in DOMAIN channels' : channels'[i] = x
    BY DEF Items
  <2> QED BY <1>1, <2>1, FoundAt
<1>8. ASSUME NEW k \in Key
      PROVE  Cached(k)' = IF k = <<"channel", c>> THEN Cached(k) + 1 ELSE Cached(k)
  <2>1. Cached(k)' = IF k[1] = "node" THEN known'[k[2]]
                     ELSE IF k[2] \in Indexes' THEN (CHOOSE y \in Items(channels') : y.key = k).version
                     ELSE 0
    BY DEF Cached, Items
  <2>2. CASE k[1] = "node"
    BY <1>2, <2>1, <2>2, CachedIs
  <2>3. CASE k = <<"channel", c>>
    <3>1. new \in Items(channels') /\ new.key = k /\ k[1] # "node" /\ k[2] \in Indexes'
      BY <1>1, <1>6, <2>3
    <3>2. (CHOOSE y \in Items(channels') : y.key = k) = new
      BY <1>7, <3>1
    <3> QED BY <1>1, <2>1, <2>3, <3>1, <3>2
  <2>4. CASE k[1] = "channel" /\ k # <<"channel", c>>
    <3>1. k[2] # c /\ k[1] # "node"
      BY <2>4, KeyKinds
    <3>2. CASE k[2] \in Indexes
      <4>1. PICK i \in DOMAIN channels : channels[i].key = k /\ Cached(k) = channels[i].version
        BY <2>4, <3>2, CachedIs
      <4>2. channels[i] \in Items(channels')
        BY <1>1, <2>4, <4>1 DEF Items
      <4>3. (CHOOSE y \in Items(channels') : y.key = k) = channels[i]
        BY <1>7, <4>1, <4>2
      <4> QED BY <1>6, <2>1, <2>4, <3>1, <3>2, <4>1, <4>3
    <3>3. CASE k[2] \notin Indexes
      BY <1>6, <2>1, <2>4, <3>1, <3>3, CachedIs
    <3> QED BY <3>2, <3>3
  <2> QED BY <2>2, <2>3, <2>4, KeyKinds
<1> QED BY <1>4, <1>6, <1>8

(* A node is updated. *)
LEMMA NodeUpdated ==
  ASSUME TypeOK, CacheInv, NEW n \in Node, UpdateNode(n)
  PROVE  LET new == ItemOf("node", n, known[n] + 1) IN
           /\ new \in Item /\ new.key = <<"node", n>> /\ new.key \in Key
           /\ new.version = Cached(new.key) + 1 /\ known' \in [Node -> 0..MaxVersion]
           /\ CacheInv' /\ Indexes' = Indexes
           /\ \A k \in Key : Cached(k)' = IF k = <<"node", n>> THEN Cached(k) + 1 ELSE Cached(k)
<1> DEFINE key == <<"node", n>>
           new == ItemOf("node", n, known[n] + 1)
<1>1. key \in Key /\ new.key = key /\ new.version = known[n] + 1
  BY DEF Key, ItemOf
<1>2. /\ updates \in Nat /\ updates < MaxUpdates /\ updates' = updates + 1 /\ MaxUpdates \in Nat
      /\ channels' = channels /\ known' = [known EXCEPT ![n] = @ + 1]
  BY ReplayDataAssumption DEF TypeOK, UpdateNode
<1>3. Cached(key) = known[n]
  BY DEF Cached
<1>4. \A m \in Node : known[m] \in Nat /\ known[m] <= updates + 1
  BY DEF TypeOK, CacheInv
<1>5. known[n] + 1 \in 0..MaxVersion /\ known' \in [Node -> 0..MaxVersion]
  <2>1. known[n] + 1 \in 0..MaxVersion
    BY <1>2, <1>4 DEF MaxVersion
  <2> QED BY <1>2, <2>1 DEF TypeOK
<1>6. CacheInv'
  <2>1. \A m \in Node : known'[m] <= updates' + 1
    <3> SUFFICES ASSUME NEW m \in Node PROVE known'[m] <= updates + 2
      BY <1>2
    <3>1. known'[m] = IF m = n THEN known[m] + 1 ELSE known[m]
      BY <1>2 DEF TypeOK
    <3> QED BY <1>2, <1>4, <3>1
  <2>2. \A i \in DOMAIN channels : channels[i].version \in 1..updates' + 1
    BY <1>2 DEF CacheInv
  <2> QED BY <1>2, <2>1, <2>2 DEF CacheInv
<1>7. Items(channels') = Items(channels) /\ Indexes' = Indexes
  BY <1>2 DEF Items, Indexes
<1>8. \A k \in Key : Cached(k)' = IF k = <<"node", n>> THEN Cached(k) + 1 ELSE Cached(k)
  <2> SUFFICES ASSUME NEW k \in Key
               PROVE  Cached(k)' = IF k = <<"node", n>> THEN Cached(k) + 1 ELSE Cached(k)
    OBVIOUS
  <2>1. Cached(k)' = IF k[1] = "node" THEN known'[k[2]]
                     ELSE IF k[2] \in Indexes THEN (CHOOSE y \in Items(channels) : y.key = k).version
                     ELSE 0
    BY <1>7 DEF Cached
  <2>2. CASE k[1] = "node"
    <3>1. k[2] \in Node /\ k = <<"node", k[2]>> /\ Cached(k) = known[k[2]]
      BY <2>2, KeyKinds DEF Cached
    <3>2. known'[k[2]] = IF k[2] = n THEN known[k[2]] + 1 ELSE known[k[2]]
      BY <1>2, <3>1 DEF TypeOK
    <3> QED BY <2>1, <2>2, <3>1, <3>2
  <2>3. CASE k[1] # "node"
    BY <2>1, <2>3 DEF Cached
  <2> QED BY <2>2, <2>3
<1> QED BY <1>1, <1>3, <1>5, <1>6, <1>7, <1>8 DEF ItemOf, Item

-----------------------------------------------------------------------------
(* Types. *)

LEMMA InitTypes ==
  ASSUME Init
  PROVE  TypeOK /\ CacheInv
<1>1. PICK S \in SUBSET Channel : channels = InOrder({ItemOf("channel", c, 1) : c \in S})
  BY DEF Init
<1>2. 1 \in 0..MaxVersion /\ 0 \in 0..MaxUpdates /\ 0 \in 0..MaxVersion /\ -1 \in -1..MaxVersion
  BY ReplayDataAssumption DEF MaxVersion
<1>3. /\ channels \in Seq(Item) /\ Ascending(channels)
      /\ Items(channels) = {ItemOf("channel", c, 1) : c \in S}
  BY <1>1, <1>2, SomeChannels
<1>4. \A i \in DOMAIN channels : channels[i].key[1] = "channel" /\ channels[i].version = 1
  BY <1>3 DEF Items, ItemOf
<1>5. updates = 0 /\ known \in [Node -> 0..1]
  BY DEF Init
<1>6. CacheInv
  BY <1>4, <1>5 DEF CacheInv
<1>7. known \in [Node -> 0..MaxVersion]
  BY <1>2, <1>5
<1>8. "idle" \in Stages /\ <<>> \in Seq(Item) /\ out = <<>>
  BY DEF Stages, Init
<1>9. todo \in [Runner -> Seq(Item)]
  BY <1>8 DEF Init
<1>10. stage \in [Runner -> Stages]
  BY <1>8 DEF Init
<1> QED BY <1>2, <1>3, <1>6, <1>7, <1>8, <1>9, <1>10 DEF TypeOK, Init

(* What Write does to the client's picture. *)
LEMMA WriteTypes ==
  ASSUME TypeOK, NEW item \in Item, Write(item)
  PROVE  shown' \in [Key -> -1..MaxVersion] /\ overtaken' \in SUBSET Key
<1>1. item.key \in Key /\ item.version \in -1..MaxVersion
  BY ReplayDataAssumption DEF Item, MaxVersion
<1> QED BY <1>1 DEF TypeOK, Write

LEMMA TypesKept ==
  ASSUME TypeOK, CacheInv, [Next]_vars
  PROVE  TypeOK' /\ CacheInv'
<1>1. CASE UNCHANGED vars
  BY <1>1 DEF TypeOK, CacheInv, vars, cacheVars, replayVars, Ascending
<1>2. ASSUME NEW c \in Channel, UpdateChannel(c) PROVE TypeOK' /\ CacheInv'
  <2> DEFINE new == ItemOf("channel", c, Cached(<<"channel", c>>) + 1)
  <2>1. CacheInv'
    BY <1>2, ChannelUpdatedCache
  <2>2. channels' \in Seq(Item) /\ Ascending(channels') /\ new \in Item
    BY <1>2, ChannelUpdated
  <2>3. out' = Append(out, new) /\ updates' = updates + 1 /\ updates < MaxUpdates
        /\ UNCHANGED <<known, replayVars, shown, overtaken>>
    BY <1>2 DEF UpdateChannel
  <2> HIDE DEF new
  <2>4. out' \in Seq(Item) /\ updates' \in 0..MaxUpdates
    BY <2>2, <2>3, ReplayDataAssumption DEF TypeOK
  <2> QED BY <2>1, <2>2, <2>3, <2>4 DEF TypeOK, replayVars
<1>3. ASSUME NEW n \in Node, UpdateNode(n) PROVE TypeOK' /\ CacheInv'
  <2> DEFINE new == ItemOf("node", n, known[n] + 1)
  <2>1. CacheInv' /\ new \in Item /\ known' \in [Node -> 0..MaxVersion]
    BY <1>3, NodeUpdated
  <2>2. out' = Append(out, new) /\ updates' = updates + 1 /\ updates < MaxUpdates
        /\ UNCHANGED <<channels, replayVars, shown, overtaken>>
    BY <1>3 DEF UpdateNode
  <2> HIDE DEF new
  <2>3. out' \in Seq(Item) /\ updates' \in 0..MaxUpdates
    BY <2>1, <2>2, ReplayDataAssumption DEF TypeOK
  <2> QED BY <2>1, <2>2, <2>3 DEF TypeOK, replayVars, Ascending
<1>4. ASSUME UNCHANGED <<cacheVars, updates>>
      PROVE  /\ CacheInv' /\ channels' \in Seq(Item) /\ Ascending(channels')
             /\ known' \in [Node -> 0..MaxVersion] /\ updates' \in 0..MaxUpdates
  BY <1>4 DEF CacheInv, cacheVars, TypeOK, Ascending
<1>5. CASE Deliver
  <2>1. Head(out) \in Item /\ out' \in Seq(Item)
    BY <1>5, HeadTail DEF Deliver, TypeOK
  <2>2. shown' \in [Key -> -1..MaxVersion] /\ overtaken' \in SUBSET Key
    BY <1>5, <2>1, WriteTypes DEF Deliver
  <2> QED BY <1>4, <1>5, <2>1, <2>2 DEF Deliver, TypeOK, replayVars
<1>6. ASSUME NEW r \in Runner, StartChannels(r) PROVE TypeOK' /\ CacheInv'
  <2>1. Indexes \subseteq Channel
    BY ChannelAt DEF Indexes, Items
  <2>2. begun' \in [Runner -> SUBSET Channel]
    BY <1>6, <2>1 DEF StartChannels, TypeOK
  <2>3. CASE channels # <<>>
    <3>1. 1 \in DOMAIN channels
      BY <2>3, HeadTail DEF TypeOK
    <3>2. channels[1] \in Item /\ channels[1].key[2] \in Channel
      BY <3>1, ChannelAt
    <3>3. shown' \in [Key -> -1..MaxVersion] /\ overtaken' \in SUBSET Key
      BY <1>6, <2>3, <3>2, WriteTypes DEF StartChannels
    <3>4. /\ stage' = [stage EXCEPT ![r] = "channels"] /\ pos' = [pos EXCEPT ![r] = 1]
          /\ sent' = [sent EXCEPT ![r] = {channels[1].key[2]}]
          /\ UNCHANGED <<cacheVars, updates, completed, out, todo>>
      BY <1>6, <2>3 DEF StartChannels
    <3>5. stage' \in [Runner -> Stages] /\ pos' \in [Runner -> Nat] /\ sent' \in [Runner -> SUBSET Channel]
      BY <3>2, <3>4 DEF TypeOK, Stages
    <3> QED BY <1>4, <2>2, <3>3, <3>4, <3>5 DEF TypeOK
  <2>4. CASE channels = <<>>
    <3>1. Head(Defaults) \in Item /\ Tail(Defaults) \in Seq(Item)
      BY DefaultsAre, HeadTail
    <3>2. shown' \in [Key -> -1..MaxVersion] /\ overtaken' \in SUBSET Key
      BY <1>6, <2>4, <3>1, WriteTypes DEF StartChannels
    <3>3. todo' \in [Runner -> Seq(Item)] /\ stage' \in [Runner -> Stages]
      BY <1>6, <2>4, <3>1 DEF StartChannels, TypeOK, Stages
    <3> QED BY <1>4, <1>6, <2>2, <2>4, <3>2, <3>3 DEF StartChannels, TypeOK
  <2> QED BY <2>3, <2>4
<1>7. ASSUME NEW r \in Runner, NextChannel(r) PROVE TypeOK' /\ CacheInv'
  <2> DEFINE item == channels[pos[r] + 1]
  <2>1. pos[r] + 1 \in DOMAIN channels
    BY <1>7 DEF NextChannel, TypeOK
  <2>2. item \in Item /\ item.key[2] \in Channel
    BY <2>1, ChannelAt
  <2>3. shown' \in [Key -> -1..MaxVersion] /\ overtaken' \in SUBSET Key
    BY <1>7, <2>2, WriteTypes DEF NextChannel
  <2> QED BY <1>4, <1>7, <2>2, <2>3 DEF NextChannel, TypeOK
<1>8. ASSUME NEW r \in Runner, NextHeld(r) PROVE TypeOK' /\ CacheInv'
  <2>1. todo[r] \in Seq(Item) /\ todo[r] # <<>>
    BY <1>8 DEF NextHeld, TypeOK
  <2>2. Head(todo[r]) \in Item /\ Tail(todo[r]) \in Seq(Item)
    BY <2>1, HeadTail
  <2>3. shown' \in [Key -> -1..MaxVersion] /\ overtaken' \in SUBSET Key
    BY <1>8, <2>2, WriteTypes DEF NextHeld
  <2>4. todo' \in [Runner -> Seq(Item)]
    BY <1>8, <2>2 DEF NextHeld, TypeOK
  <2> QED BY <1>4, <1>8, <2>3, <2>4 DEF NextHeld, TypeOK
<1>9. ASSUME NEW r \in Runner, ChannelsEnd(r) PROVE TypeOK' /\ CacheInv'
  BY <1>4, <1>9 DEF ChannelsEnd, TypeOK, Stages
<1>10. ASSUME NEW r \in Runner, StartNodes(r) PROVE TypeOK' /\ CacheInv'
  <2>1. stage' \in [Runner -> Stages]
    BY <1>10 DEF StartNodes, TypeOK, Stages
  <2>2. CASE Snapshot # <<>>
    <3>1. Head(Snapshot) \in Item /\ Tail(Snapshot) \in Seq(Item)
      BY <2>2, SnapshotIs, HeadTail
    <3>2. shown' \in [Key -> -1..MaxVersion] /\ overtaken' \in SUBSET Key
      BY <1>10, <2>2, <3>1, WriteTypes DEF StartNodes
    <3>3. todo' \in [Runner -> Seq(Item)]
      BY <1>10, <2>2, <3>1 DEF StartNodes, TypeOK
    <3> QED BY <1>4, <1>10, <2>1, <3>2, <3>3 DEF StartNodes, TypeOK
  <2>3. CASE Snapshot = <<>>
    BY <1>4, <1>10, <2>1, <2>3 DEF StartNodes, TypeOK
  <2> QED BY <2>2, <2>3
<1>11. ASSUME NEW r \in Runner, Complete(r) PROVE TypeOK' /\ CacheInv'
  BY <1>4, <1>11 DEF Complete, TypeOK, Stages
<1> QED BY <1>1, <1>2, <1>3, <1>5, <1>6, <1>7, <1>8, <1>9, <1>10, <1>11 DEF Next

(* Every variable keeps its type, and the list its order.                  *)
THEOREM TypeCorrect == Spec => []TypeOK
<1>1. Init => TypeOK /\ CacheInv
  BY InitTypes
<1>2. TypeOK /\ CacheInv /\ [Next]_vars => TypeOK' /\ CacheInv'
  BY TypesKept
<1> QED BY <1>1, <1>2, PTL DEF Spec

-----------------------------------------------------------------------------
(* What the iterators of the list have gone over. *)

LEMMA ChannelShift ==
  ASSUME TypeOK, CacheInv, NEW c \in Channel, UpdateChannel(c)
  PROVE  /\ Len(channels) <= Len(channels') /\ Len(channels') \in Nat
         /\ \A i \in DOMAIN channels' :
              \/ channels'[i].key = <<"channel", c>>
              \/ \E j \in DOMAIN channels : j <= i /\ channels[j].key = channels'[i].key
         /\ \A i \in DOMAIN channels' : \A j \in DOMAIN channels :
              channels'[i].key[2] = channels[j].key[2] => j <= i
<1> DEFINE new == ItemOf("channel", c, Cached(<<"channel", c>>) + 1)
<1>1. /\ new.key = <<"channel", c>> /\ channels' \in Seq(Item) /\ Ascending(channels')
      /\ Items(channels') = {x \in Items(channels) : x.key # new.key} \cup {new}
  BY ChannelUpdated
<1> HIDE DEF new
<1>2. channels \in Seq(Item) /\ Ascending(channels)
  BY DEF TypeOK
<1>3. /\ Len(channels) \in Nat /\ DOMAIN channels = 1..Len(channels)
      /\ Len(channels') \in Nat /\ DOMAIN channels' = 1..Len(channels')
  BY <1>1, <1>2, LenProperties
<1>4. \A j \in DOMAIN channels : \E i \in DOMAIN channels' : channels'[i].key[2] = channels[j].key[2]
  <2> SUFFICES ASSUME NEW j \in DOMAIN channels
               PROVE  \E x \in Items(channels') : x.key[2] = channels[j].key[2]
    BY DEF Items
  <2>1. channels[j] \in Items(channels)
    BY DEF Items
  <2> QED BY <1>1, <2>1
<1>5. \A i \in DOMAIN channels' : \A j \in DOMAIN channels :
        channels'[i].key[2] = channels[j].key[2] => j <= i
  BY <1>1, <1>2, <1>4, Shift
<1>6. \A i \in DOMAIN channels' :
        \/ channels'[i].key = <<"channel", c>>
        \/ \E j \in DOMAIN channels : j <= i /\ channels[j].key = channels'[i].key
  <2> SUFFICES ASSUME NEW i \in DOMAIN channels', channels'[i].key # <<"channel", c>>
               PROVE  \E j \in DOMAIN channels : j <= i /\ channels[j].key = channels'[i].key
    OBVIOUS
  <2>1. channels'[i] \in Items(channels')
    BY DEF Items
  <2>2. channels'[i] \in Items(channels)
    BY <1>1, <2>1
  <2>3. PICK j \in DOMAIN channels : channels[j] = channels'[i]
    BY <2>2 DEF Items
  <2> QED BY <1>5, <2>3
<1>7. Len(channels) <= Len(channels')
  <2>1. CASE Len(channels) = 0
    BY <1>3, <2>1
  <2>2. CASE Len(channels) # 0
    <3>1. Len(channels) \in DOMAIN channels
      BY <1>3, <2>2
    <3>2. PICK i \in DOMAIN channels' : channels'[i].key[2] = channels[Len(channels)].key[2]
      BY <1>4, <3>1
    <3>3. Len(channels) <= i
      BY <1>5, <3>1, <3>2
    <3> QED BY <1>3, <3>3
  <2> QED BY <2>1, <2>2
<1> QED BY <1>3, <1>5, <1>6, <1>7

LEMMA IteratorKept ==
  ASSUME TypeOK, CacheInv, IteratorInv, [Next]_vars
  PROVE  IteratorInv'
<1>1. ASSUME NEW q \in Runner, channels' = channels, stage'[q] = stage[q], pos'[q] = pos[q],
             begun'[q] = begun[q], sent'[q] = sent[q]
      PROVE  IteratorOK(q)'
  BY <1>1 DEF IteratorInv, IteratorOK, Indexes, Items
<1>2. CASE UNCHANGED <<stage, pos, begun, sent, channels>>
  BY <1>1, <1>2 DEF IteratorInv
<1>3. ASSUME NEW c \in Channel, UpdateChannel(c), NEW q \in Runner PROVE IteratorOK(q)'
  <2>1. UNCHANGED <<stage, pos, begun, sent>>
    BY <1>3 DEF UpdateChannel, replayVars
  <2>2. IteratorOK(q)
    BY DEF IteratorInv
  <2>3. ASSUME stage[q] = "channels"
        PROVE  /\ pos[q] \in 1..Len(channels') /\ begun[q] \subseteq Indexes'
               /\ \A i \in 1..pos[q] :
                    channels'[i].key[2] \in begun[q] => channels'[i].key[2] \in sent[q]
    <3>1. /\ pos[q] \in 1..Len(channels) /\ begun[q] \subseteq Indexes
          /\ \A i \in 1..pos[q] : channels[i].key[2] \in begun[q] => channels[i].key[2] \in sent[q]
      BY <2>2, <2>3 DEF IteratorOK
    <3>2. /\ Len(channels) <= Len(channels') /\ Len(channels') \in Nat /\ Len(channels) \in Nat
          /\ \A i \in DOMAIN channels' : \A j \in DOMAIN channels :
               channels'[i].key[2] = channels[j].key[2] => j <= i
      BY <1>3, ChannelShift, LenProperties DEF TypeOK
    <3>3. DOMAIN channels' = 1..Len(channels') /\ DOMAIN channels = 1..Len(channels)
      BY <1>3, ChannelUpdated, LenProperties DEF TypeOK
    <3>4. ASSUME NEW i \in 1..pos[q], channels'[i].key[2] \in begun[q]
          PROVE  channels'[i].key[2] \in sent[q]
      <4>1. PICK j \in DOMAIN channels : channels[j].key[2] = channels'[i].key[2]
        BY <3>1, <3>4 DEF Indexes, Items
      <4>2. i \in DOMAIN channels'
        BY <3>1, <3>2, <3>3
      <4>3. j <= i
        BY <3>2, <4>1, <4>2
      <4>4. j \in 1..pos[q]
        BY <3>1, <3>3, <4>3
      <4> QED BY <3>1, <3>4, <4>1, <4>4
    <3>5. Indexes' = Indexes \cup {c}
      BY <1>3, ChannelUpdatedCache
    <3> QED BY <3>1, <3>2, <3>4, <3>5
  <2> QED BY <2>1, <2>2, <2>3 DEF IteratorOK
<1>4. ASSUME NEW r \in Runner, StartChannels(r), NEW q \in Runner PROVE IteratorOK(q)'
  <2>1. CASE q # r
    BY <1>1, <1>4, <2>1 DEF StartChannels, cacheVars, TypeOK
  <2>2. CASE q = r /\ channels = <<>>
    <3>1. pos'[r] = 0 /\ stage'[r] = "defaults"
      <4>1. stage[r] = "idle" /\ pos' = pos /\ stage' = [stage EXCEPT ![r] = "defaults"]
        BY <1>4, <2>2 DEF StartChannels
      <4>2. ~(pos[r] > 0) /\ pos[r] \in Nat
        BY <4>1 DEF TypeOK, IteratorInv, IteratorOK
      <4> QED BY <4>1, <4>2 DEF TypeOK
    <3> QED BY <2>2, <3>1 DEF IteratorOK
  <2>3. CASE q = r /\ channels # <<>>
    <3>1. /\ pos'[r] = 1 /\ stage'[r] = "channels" /\ sent'[r] = {channels[1].key[2]}
          /\ begun'[r] = Indexes /\ channels' = channels
      BY <1>4, <2>3 DEF StartChannels, TypeOK, cacheVars
    <3>2. 1 \in 1..Len(channels)
      BY <2>3, HeadTail, LenProperties DEF TypeOK
    <3>3. Indexes' = Indexes
      BY <3>1 DEF Indexes, Items
    <3> QED BY <2>3, <3>1, <3>2, <3>3 DEF IteratorOK
  <2> QED BY <2>1, <2>2, <2>3
<1>5. ASSUME NEW r \in Runner, NextChannel(r), NEW q \in Runner PROVE IteratorOK(q)'
  <2>1. CASE q # r
    BY <1>1, <1>5, <2>1 DEF NextChannel, cacheVars, TypeOK
  <2>2. CASE q = r
    <3>1. /\ pos'[r] = pos[r] + 1 /\ stage'[r] = "channels" /\ stage[r] = "channels"
          /\ sent'[r] = sent[r] \cup {channels[pos[r] + 1].key[2]}
          /\ begun'[r] = begun[r] /\ channels' = channels /\ pos[r] < Len(channels)
      BY <1>5 DEF NextChannel, TypeOK, cacheVars
    <3>2. /\ pos[r] \in 1..Len(channels) /\ begun[r] \subseteq Indexes
          /\ \A i \in 1..pos[r] : channels[i].key[2] \in begun[r] => channels[i].key[2] \in sent[r]
      BY <3>1 DEF IteratorInv, IteratorOK
    <3>3. Indexes' = Indexes /\ Len(channels) \in Nat
      BY <3>1, LenProperties DEF Indexes, Items, TypeOK
    <3>4. \A i \in 1..pos[r] + 1 : i \in 1..pos[r] \/ i = pos[r] + 1
      BY <3>2
    <3>5. pos[r] + 1 \in 1..Len(channels)
      BY <3>1, <3>2, <3>3
    <3>6. \A i \in 1..pos'[r] : channels'[i].key[2] \in begun'[r] => channels'[i].key[2] \in sent'[r]
      BY <3>1, <3>2, <3>4
    <3> QED BY <2>2, <3>1, <3>2, <3>3, <3>5, <3>6 DEF IteratorOK
  <2> QED BY <2>1, <2>2
<1>6. ASSUME NEW r \in Runner, ChannelsEnd(r), NEW q \in Runner PROVE IteratorOK(q)'
  <2>1. CASE q # r
    BY <1>1, <1>6, <2>1 DEF ChannelsEnd, cacheVars, TypeOK
  <2>2. CASE q = r
    <3>1. /\ stage'[r] = "configs" /\ pos'[r] = pos[r] /\ begun'[r] = begun[r] /\ sent'[r] = sent[r]
      BY <1>6 DEF ChannelsEnd, TypeOK
    <3>2. ASSUME pos[r] > 0 PROVE begun[r] \subseteq sent[r]
      <4>1. stage[r] = "channels" /\ pos[r] >= Len(channels)
        BY <1>6, <3>2 DEF ChannelsEnd, IteratorInv, IteratorOK
      <4>2. /\ pos[r] \in 1..Len(channels) /\ begun[r] \subseteq Indexes
            /\ \A i \in 1..pos[r] : channels[i].key[2] \in begun[r] => channels[i].key[2] \in sent[r]
        BY <4>1 DEF IteratorInv, IteratorOK
      <4>3. DOMAIN channels = 1..pos[r]
        BY <4>1, <4>2, LenProperties DEF TypeOK
      <4> QED BY <4>2, <4>3 DEF Indexes, Items
    <3> QED BY <2>2, <3>1, <3>2 DEF IteratorOK
  <2> QED BY <2>1, <2>2
<1>7. ASSUME NEW r \in Runner, StartNodes(r), NEW q \in Runner PROVE IteratorOK(q)'
  <2>1. CASE q # r
    BY <1>1, <1>7, <2>1 DEF StartNodes, cacheVars, TypeOK
  <2>2. CASE q = r
    BY <1>7, <2>2 DEF StartNodes, TypeOK, IteratorOK
  <2> QED BY <2>1, <2>2
<1>8. ASSUME NEW r \in Runner, Complete(r), NEW q \in Runner PROVE IteratorOK(q)'
  <2>1. CASE q # r
    BY <1>1, <1>8, <2>1 DEF Complete, cacheVars, TypeOK
  <2>2. CASE q = r
    BY <1>8, <2>2 DEF Complete, TypeOK, IteratorOK
  <2> QED BY <2>1, <2>2
<1>9. (UNCHANGED vars \/ (\E n \in Node : UpdateNode(n)) \/ Deliver \/ \E r \in Runner : NextHeld(r))
        => UNCHANGED <<stage, pos, begun, sent, channels>>
  BY DEF vars, cacheVars, replayVars, UpdateNode, Deliver, NextHeld
<1> QED BY <1>2, <1>3, <1>4, <1>5, <1>6, <1>7, <1>8, <1>9 DEF Next, IteratorInv

(* A replay skips no channel that was in the cache when it began.          *)
THEOREM NoChannelSkipped == Spec => []NoneSkipped
<1>1. Init => TypeOK /\ CacheInv /\ IteratorInv
  <2>1. Init => IteratorInv
    BY DEF Init, IteratorInv, IteratorOK
  <2> QED BY <2>1, InitTypes
<1>2. TypeOK /\ CacheInv /\ IteratorInv /\ [Next]_vars => TypeOK' /\ CacheInv' /\ IteratorInv'
  BY TypesKept, IteratorKept
<1>3. IteratorInv => NoneSkipped
  BY DEF IteratorInv, IteratorOK, NoneSkipped
<1> QED BY <1>1, <1>2, <1>3, PTL DEF Spec

-----------------------------------------------------------------------------
(* What the client is shown, against what the cache holds. *)

(* News of a channel or node is put in the queue as it gets in the cache.  *)
LEMMA NewsKeeps ==
  ASSUME TypeOK, CacheInv, DataInv, NEW new \in Item, new.version = Cached(new.key) + 1,
         \A k \in Key : Cached(k)' = IF k = new.key THEN Cached(k) + 1 ELSE Cached(k),
         out' = Append(out, new), UNCHANGED <<todo, shown, overtaken>>
  PROVE  DataInv' /\ Pending(new.key)' /\ \A k \in Key : Pending(k) => Pending(k)'
<1> DEFINE last == Len(out) + 1
<1>1. /\ Len(out) \in Nat /\ DOMAIN out = 1..Len(out) /\ DOMAIN out' = 1..last
      /\ out'[last] = new /\ \A i \in DOMAIN out : out'[i] = out[i] /\ i < last
      /\ last \in DOMAIN out' /\ \A i \in DOMAIN out' : i = last \/ i \in DOMAIN out
      /\ DOMAIN out \subseteq DOMAIN out'
  <2>1. out \in Seq(Item)
    BY DEF TypeOK
  <2> QED BY <2>1, AppendProperties, LenProperties
<1> HIDE DEF last
<1>2. /\ new.key \in Key /\ \A i \in DOMAIN out : out[i].key \in Key /\ out[i].version \in Nat
      /\ \A k \in Key : Cached(k) \in Nat
  <2>1. \A i \in DOMAIN out : out[i] \in Item
    BY DEF TypeOK
  <2>2. updates + 1 \in Nat
    BY DEF TypeOK
  <2> QED BY <2>1, <2>2, CachedIs DEF Item
<1>3. Pending(new.key)'
  BY <1>1 DEF Pending
<1>4. \A k \in Key : Pending(k) => Pending(k)'
  BY <1>1 DEF Pending
<1>5. OutInv'
  <2> SUFFICES ASSUME NEW k \in Key, NEW i \in DOMAIN out', out'[i].key = k
               PROVE  /\ out'[i].version <= Cached(k)'
                      /\ \/ out'[i].version = Cached(k)'
                         \/ \E j \in DOMAIN out' : i < j /\ out'[j].key = k
    BY DEF OutInv
  <2>1. CASE i = last
    BY <1>1, <1>2, <2>1
  <2>2. CASE i \in DOMAIN out
    <3>1. /\ out'[i] = out[i] /\ i < last /\ out[i].version <= Cached(k)
          /\ out[i].version = Cached(k) \/ \E j \in DOMAIN out : i < j /\ out[j].key = k
      BY <1>1, <2>2 DEF DataInv, OutInv
    <3>2. CASE k = new.key
      <4>1. Cached(k)' = Cached(k) + 1 /\ out[i].version <= Cached(k) + 1
        BY <1>2, <2>2, <3>1, <3>2
      <4> QED BY <1>1, <3>1, <3>2, <4>1
    <3>3. CASE k # new.key
      BY <1>1, <3>1, <3>3
    <3> QED BY <3>2, <3>3
  <2> QED BY <1>1, <2>1, <2>2
<1>6. HeldInv'
  <2> SUFFICES ASSUME NEW r \in Runner, NEW x \in Items(todo[r])
               PROVE  /\ x.key[1] = "node" \/ x.version = 0
                      /\ x.version <= Cached(x.key)'
                      /\ \/ x.version = Cached(x.key)' \/ Pending(x.key)' \/ x.key \in overtaken
    BY DEF HeldInv, Current, Items
  <2>1. x.key \in Key /\ x.version \in Nat
    <3>1. x \in Item
      BY ItemsOf DEF TypeOK
    <3> QED BY <3>1 DEF Item
  <2>2. /\ x.key[1] = "node" \/ x.version = 0
        /\ x.version <= Cached(x.key)
        /\ x.version = Cached(x.key) \/ Pending(x.key) \/ x.key \in overtaken
    BY DEF DataInv, HeldInv, Current
  <2>3. CASE x.key = new.key
    BY <1>2, <1>3, <2>1, <2>2, <2>3
  <2>4. CASE x.key # new.key
    BY <1>4, <2>1, <2>2, <2>4
  <2> QED BY <2>3, <2>4
<1>7. ShownInv'
  <2> SUFFICES ASSUME NEW k \in Key
               PROVE  shown[k] = -1 \/ shown[k] = Cached(k)' \/ Pending(k)' \/ k \in overtaken
    BY DEF ShownInv
  <2>1. shown[k] = -1 \/ shown[k] = Cached(k) \/ Pending(k) \/ k \in overtaken
    BY DEF DataInv, ShownInv
  <2>2. CASE k = new.key
    BY <1>3, <2>2
  <2>3. CASE k # new.key
    BY <1>4, <2>1, <2>3
  <2> QED BY <2>2, <2>3
<1> QED BY <1>3, <1>4, <1>5, <1>6, <1>7 DEF DataInv

(* A frame is written.  When it is out of date there is news to come, or   *)
(* the news has been written already, and Write keeps account of what is   *)
(* held from before it.                                                    *)
LEMMA WriteKeeps ==
  ASSUME TypeOK, CacheInv, DataInv, NEW item \in Item, Write(item), UNCHANGED cacheVars,
         OutInv', \A k \in Key : Pending(k) => Pending(k)' \/ k = item.key,
         item.version = Cached(item.key) \/ Pending(item.key)' \/ item.key \in overtaken,
         \A r \in Runner : \A x \in Items(todo'[r]) :
           \/ x \in Items(todo[r])
           \/ x \in Item /\ (x.key[1] = "node" \/ x.version = 0) /\ x.version = Cached(x.key)
  PROVE  DataInv' /\ \A k \in Key : Reached(k) => Reached(k)'
<1>1. \A k \in Key : Cached(k)' = Cached(k) /\ Cached(k) \in Nat
  <2>1. \A k \in Key : Cached(k)' = Cached(k)
    BY DEF cacheVars, Cached, Indexes, Items
  <2>2. updates + 1 \in Nat
    BY DEF TypeOK
  <2> QED BY <2>1, <2>2, CachedIs
<1>2. item.key \in Key /\ item.version \in Nat
  BY DEF Item
<1>3. /\ shown'[item.key] = item.version /\ item.version # -1
      /\ \A k \in Key : k # item.key => shown'[k] = shown[k]
  BY <1>2 DEF Write, TypeOK
<1>4. /\ \A k \in Key : k # item.key => (k \in overtaken' <=> k \in overtaken)
      /\ HeldOlder(item) => item.key \in overtaken'
      /\ item.version # Cached(item.key) /\ item.key \in overtaken => item.key \in overtaken'
  BY DEF Write
<1>5. HeldInv'
  <2> SUFFICES ASSUME NEW r \in Runner, NEW x \in Items(todo'[r])
               PROVE  /\ x.key[1] = "node" \/ x.version = 0
                      /\ x.version <= Cached(x.key)'
                      /\ x.version = Cached(x.key)' \/ Pending(x.key)' \/ x.key \in overtaken'
    BY DEF HeldInv, Current, Items
  <2>1. CASE x \in Items(todo[r])
    <3>1. x.key \in Key /\ x.version \in Nat
      <4>1. x \in Item
        BY <2>1, ItemsOf DEF TypeOK
      <4> QED BY <4>1 DEF Item
    <3>2. /\ x.key[1] = "node" \/ x.version = 0
          /\ x.version <= Cached(x.key)
          /\ x.version = Cached(x.key) \/ Pending(x.key) \/ x.key \in overtaken
      BY <2>1 DEF DataInv, HeldInv, Current
    <3>3. CASE x.key # item.key
      BY <1>1, <1>4, <3>1, <3>2, <3>3
    <3>4. CASE x.key = item.key /\ item.version # Cached(item.key)
      BY <1>1, <1>4, <3>1, <3>2, <3>4
    <3>5. CASE x.key = item.key /\ item.version = Cached(item.key)
      <4>1. CASE x.version < item.version
        BY <1>1, <1>4, <2>1, <3>1, <3>2, <3>5, <4>1 DEF HeldOlder
      <4>2. CASE ~(x.version < item.version)
        BY <1>1, <1>2, <3>1, <3>2, <3>5, <4>2
      <4> QED BY <4>1, <4>2
    <3> QED BY <3>3, <3>4, <3>5
  <2>2. CASE x \in Item /\ (x.key[1] = "node" \/ x.version = 0) /\ x.version = Cached(x.key)
    <3>1. x.key \in Key
      BY <2>2 DEF Item
    <3> QED BY <1>1, <2>2, <3>1
  <2> QED BY <2>1, <2>2
<1>6. ShownInv'
  <2> SUFFICES ASSUME NEW k \in Key
               PROVE  shown'[k] = -1 \/ shown'[k] = Cached(k)' \/ Pending(k)' \/ k \in overtaken'
    BY DEF ShownInv
  <2>1. shown[k] = -1 \/ shown[k] = Cached(k) \/ Pending(k) \/ k \in overtaken
    BY DEF DataInv, ShownInv
  <2>2. CASE k = item.key
    BY <1>1, <1>3, <1>4, <2>2
  <2>3. CASE k # item.key
    BY <1>1, <1>3, <1>4, <2>1, <2>3
  <2> QED BY <2>2, <2>3
<1>7. \A k \in Key : Reached(k) => Reached(k)'
  BY <1>3 DEF Reached
<1> QED BY <1>5, <1>6, <1>7 DEF DataInv

(* The queue is the client's: what is taken from it is what was put in     *)
(* first, and when it is out of date there is newer behind it.             *)
LEMMA DeliverKeeps ==
  ASSUME TypeOK, CacheInv, DataInv, Deliver
  PROVE  DataInv' /\ \A k \in Key : Reached(k) => Reached(k)'
<1> SUFFICES ASSUME NEW item, item = Head(out)
             PROVE  DataInv' /\ \A k \in Key : Reached(k) => Reached(k)'
  OBVIOUS
<1>1. /\ out \in Seq(Item) /\ out # <<>> /\ out' = Tail(out) /\ Write(item)
      /\ UNCHANGED <<cacheVars, updates, replayVars>>
  BY DEF Deliver, TypeOK
<1>2. /\ Len(out) \in Nat \ {0} /\ DOMAIN out = 1..Len(out) /\ item = out[1] /\ item \in Item
      /\ DOMAIN out' = 1..Len(out) - 1 /\ \A i \in 1..Len(out) - 1 : out'[i] = out[i + 1]
  BY <1>1, EmptySeq, LenProperties
<1>3. \A i \in DOMAIN out : i = 1 \/ (i - 1 \in DOMAIN out' /\ out'[i - 1] = out[i])
  <2> SUFFICES ASSUME NEW i \in DOMAIN out, i # 1 PROVE i - 1 \in DOMAIN out' /\ out'[i - 1] = out[i]
    OBVIOUS
  <2>1. i - 1 \in 1..Len(out) - 1 /\ (i - 1) + 1 = i
    BY <1>2
  <2> QED BY <1>2, <2>1
<1>4. \A i \in DOMAIN out' : i + 1 \in DOMAIN out /\ out'[i] = out[i + 1] /\ i \in Nat
  BY <1>2
<1>5. \A k \in Key : Cached(k)' = Cached(k)
  BY <1>1 DEF cacheVars, Cached, Indexes, Items
<1>6. OutInv'
  <2> SUFFICES ASSUME NEW k \in Key, NEW i \in DOMAIN out', out'[i].key = k
               PROVE  /\ out'[i].version <= Cached(k)'
                      /\ \/ out'[i].version = Cached(k)'
                         \/ \E j \in DOMAIN out' : i < j /\ out'[j].key = k
    BY DEF OutInv
  <2>1. i + 1 \in DOMAIN out /\ out'[i] = out[i + 1] /\ i \in Nat
    BY <1>4
  <2>2. /\ out[i + 1].version <= Cached(k)
        /\ out[i + 1].version = Cached(k) \/ \E j \in DOMAIN out : i + 1 < j /\ out[j].key = k
    BY <2>1 DEF DataInv, OutInv
  <2>3. ASSUME NEW j \in DOMAIN out, i + 1 < j, out[j].key = k
        PROVE  j - 1 \in DOMAIN out' /\ i < j - 1 /\ out'[j - 1].key = k
    <3>1. j # 1 /\ i < j - 1
      BY <1>2, <2>1, <2>3
    <3> QED BY <1>3, <2>3, <3>1
  <2> QED BY <1>5, <2>1, <2>2, <2>3
<1>7. \A k \in Key : Pending(k) => Pending(k)' \/ k = item.key
  BY <1>2, <1>3 DEF Pending
<1>8. item.version = Cached(item.key) \/ Pending(item.key)' \/ item.key \in overtaken
  <2>1. 1 \in DOMAIN out
    BY <1>2
  <2>2. item.key \in Key
    BY <1>2 DEF Item
  <2>3. item.version = Cached(item.key) \/ \E j \in DOMAIN out : 1 < j /\ out[j].key = item.key
    BY <1>2, <2>1, <2>2 DEF DataInv, OutInv
  <2>4. ASSUME NEW j \in DOMAIN out, 1 < j, out[j].key = item.key
        PROVE  \E i \in DOMAIN out' : out'[i].key = item.key
    <3>1. j # 1
      BY <2>4
    <3>2. j - 1 \in DOMAIN out' /\ out'[j - 1] = out[j]
      BY <1>3, <3>1
    <3> QED BY <2>4, <3>2
  <2>5. Pending(item.key)' <=> \E i \in DOMAIN out' : out'[i].key = item.key
    BY DEF Pending
  <2> QED BY <2>3, <2>4, <2>5
<1>9. todo' = todo /\ UNCHANGED cacheVars
  BY <1>1 DEF replayVars
<1> QED BY <1>1, <1>2, <1>6, <1>7, <1>8, <1>9, WriteKeeps

(* A replay writes what is current, or is known to be out of date.         *)
LEMMA ReplayWriteKeeps ==
  ASSUME TypeOK, CacheInv, DataInv, NEW item \in Item, Write(item), UNCHANGED <<cacheVars, out>>,
         Current(item),
         \A r \in Runner : \A x \in Items(todo'[r]) :
           \/ x \in Items(todo[r])
           \/ x \in Item /\ (x.key[1] = "node" \/ x.version = 0) /\ x.version = Cached(x.key)
  PROVE  DataInv' /\ \A k \in Key : Reached(k) => Reached(k)'
<1>1. \A k \in Key : Cached(k)' = Cached(k)
  BY DEF cacheVars, Cached, Indexes, Items
<1>2. OutInv'
  BY <1>1 DEF DataInv, OutInv
<1>3. \A k \in Key : Pending(k)' <=> Pending(k)
  BY DEF Pending
<1>4. item.key \in Key
  BY DEF Item
<1>5. item.version = Cached(item.key) \/ Pending(item.key)' \/ item.key \in overtaken
  BY <1>3, <1>4 DEF Current
<1>6. \A k \in Key : Pending(k) => Pending(k)' \/ k = item.key
  BY <1>3
<1> QED BY <1>2, <1>5, <1>6, WriteKeeps

LEMMA DefaultsHeld ==
  ASSUME TypeOK, CacheInv, channels = <<>>, NEW x \in Items(Defaults)
  PROVE  x \in Item /\ x.version = 0 /\ x.version = Cached(x.key)
<1>1. PICK c \in Channel : x = ItemOf("channel", c, 0)
  BY DefaultsAre
<1>2. x.key = <<"channel", c>> /\ x.key \in Key /\ x.version = 0
  BY <1>1 DEF ItemOf, Key
<1>3. Indexes = {}
  BY DEF Indexes, Items
<1>4. Cached(x.key) = 0
  BY <1>2, <1>3, CachedIs
<1>5. x \in Item
  BY DefaultsAre, ItemsOf
<1> QED BY <1>2, <1>4, <1>5

LEMMA SnapshotHeld ==
  ASSUME TypeOK, CacheInv, NEW x \in Items(Snapshot)
  PROVE  x \in Item /\ x.key[1] = "node" /\ x.version = Cached(x.key)
<1>1. PICK n \in Node : x = ItemOf("node", n, known[n])
  BY SnapshotIs
<1>2. x.key = <<"node", n>> /\ x.key \in Key /\ x.version = known[n]
  BY <1>1 DEF ItemOf, Key
<1>3. Cached(x.key) = known[n]
  BY <1>2, CachedIs
<1>4. x \in Item
  BY SnapshotIs, ItemsOf
<1> QED BY <1>2, <1>3, <1>4

LEMMA DataKept ==
  ASSUME TypeOK, CacheInv, DataInv, [Next]_vars
  PROVE  DataInv' /\ \A k \in Key : Reached(k) => Reached(k)'
<1> DEFINE Kept == DataInv' /\ \A k \in Key : Reached(k) => Reached(k)'
<1>1. ASSUME UNCHANGED <<cacheVars, todo, out, shown, overtaken>> PROVE Kept
  <2>1. \A k \in Key : Cached(k)' = Cached(k) /\ (Pending(k)' <=> Pending(k))
    BY <1>1 DEF cacheVars, Cached, Indexes, Items, Pending
  <2>2. OutInv' /\ ShownInv'
    BY <1>1, <2>1 DEF DataInv, OutInv, ShownInv
  <2>3. HeldInv'
    <3>1. \A r \in Runner : \A x \in Items(todo[r]) : x.key \in Key
      <4>1. \A r \in Runner : Items(todo[r]) \subseteq Item
        BY ItemsOf DEF TypeOK
      <4> QED BY <4>1 DEF Item
    <3> QED BY <1>1, <2>1, <3>1 DEF DataInv, HeldInv, Current, Items
  <2>4. \A k \in Key : Reached(k) => Reached(k)'
    BY <1>1, <2>1 DEF Reached
  <2> QED BY <2>2, <2>3, <2>4 DEF DataInv
<1>2. ASSUME NEW c \in Channel, UpdateChannel(c) PROVE Kept
  <2>1. PICK new : new = ItemOf("channel", c, Cached(<<"channel", c>>) + 1)
    OBVIOUS
  <2>2. new \in Item /\ new.key = <<"channel", c>> /\ new.version = Cached(new.key) + 1
    BY <1>2, <2>1, ChannelUpdated
  <2>3. out' = Append(out, new) /\ UNCHANGED <<todo, shown, overtaken>>
    BY <1>2, <2>1 DEF UpdateChannel, replayVars
  <2>4. \A k \in Key : Cached(k)' = IF k = new.key THEN Cached(k) + 1 ELSE Cached(k)
    BY <1>2, <2>2, ChannelUpdatedCache
  <2>5. DataInv' /\ \A k \in Key : Pending(k) => Pending(k)'
    BY <2>2, <2>3, <2>4, NewsKeeps
  <2> QED BY <2>3, <2>5 DEF Reached
<1>3. ASSUME NEW n \in Node, UpdateNode(n) PROVE Kept
  <2>1. PICK new : new = ItemOf("node", n, known[n] + 1)
    OBVIOUS
  <2>2. /\ new \in Item /\ new.version = Cached(new.key) + 1
        /\ \A k \in Key : Cached(k)' = IF k = new.key THEN Cached(k) + 1 ELSE Cached(k)
    BY <1>3, <2>1, NodeUpdated
  <2>3. out' = Append(out, new) /\ UNCHANGED <<todo, shown, overtaken>>
    BY <1>3, <2>1 DEF UpdateNode, replayVars
  <2>4. DataInv' /\ \A k \in Key : Pending(k) => Pending(k)'
    BY <2>2, <2>3, NewsKeeps
  <2> QED BY <2>3, <2>4 DEF Reached
<1>4. CASE Deliver
  BY <1>4, DeliverKeeps
<1>5. ASSUME NEW r \in Runner, StartChannels(r), channels # <<>> PROVE Kept
  <2>1. PICK item : item = channels[1]
    OBVIOUS
  <2>2. 1 \in DOMAIN channels
    BY <1>5, HeadTail DEF TypeOK
  <2>3. item \in Item /\ Current(item)
    BY <2>1, <2>2, ChannelAt DEF Current
  <2>4. Write(item) /\ UNCHANGED <<cacheVars, out, todo>>
    BY <1>5, <2>1 DEF StartChannels
  <2> QED BY <2>3, <2>4, ReplayWriteKeeps
<1>6. ASSUME NEW r \in Runner, StartChannels(r), channels = <<>> PROVE Kept
  <2>1. PICK item : item = Head(Defaults)
    OBVIOUS
  <2>2. Items(Defaults) = {item} \cup Items(Tail(Defaults))
    BY <2>1, DefaultsAre, HeadTail
  <2>3. item \in Item /\ Current(item)
    BY <1>6, <2>2, DefaultsHeld DEF Current
  <2>4. Write(item) /\ UNCHANGED <<cacheVars, out>> /\ todo' = [todo EXCEPT ![r] = Tail(Defaults)]
    BY <1>6, <2>1 DEF StartChannels
  <2>5. \A q \in Runner : todo'[q] = todo[q] \/ todo'[q] = Tail(Defaults)
    BY <2>4 DEF TypeOK
  <2>6. \A x \in Items(Tail(Defaults)) : x \in Item /\ x.version = 0 /\ x.version = Cached(x.key)
    BY <1>6, <2>2, DefaultsHeld
  <2> QED BY <2>3, <2>4, <2>5, <2>6, ReplayWriteKeeps
<1>7. ASSUME NEW r \in Runner, NextChannel(r) PROVE Kept
  <2>1. PICK item : item = channels[pos[r] + 1]
    OBVIOUS
  <2>2. pos[r] + 1 \in DOMAIN channels
    BY <1>7 DEF NextChannel, TypeOK
  <2>3. item \in Item /\ Current(item)
    BY <2>1, <2>2, ChannelAt DEF Current
  <2>4. Write(item) /\ UNCHANGED <<cacheVars, out, todo>>
    BY <1>7, <2>1 DEF NextChannel
  <2> QED BY <2>3, <2>4, ReplayWriteKeeps
<1>8. ASSUME NEW r \in Runner, NextHeld(r) PROVE Kept
  <2>1. PICK item : item = Head(todo[r])
    OBVIOUS
  <2>2. /\ todo[r] # <<>> /\ Write(item) /\ todo' = [todo EXCEPT ![r] = Tail(todo[r])]
        /\ UNCHANGED <<cacheVars, out>>
    BY <1>8, <2>1 DEF NextHeld
  <2>3. item \in Item /\ Items(todo[r]) = {item} \cup Items(Tail(todo[r]))
    BY <2>1, <2>2, HeadTail DEF TypeOK
  <2>4. Current(item)
    BY <2>3 DEF DataInv, HeldInv
  <2>5. \A q \in Runner : todo'[q] = todo[q] \/ (q = r /\ todo'[q] = Tail(todo[r]))
    BY <2>2 DEF TypeOK
  <2>6. \A q \in Runner : \A x \in Items(todo'[q]) : x \in Items(todo[q])
    BY <2>3, <2>5
  <2> QED BY <2>2, <2>3, <2>4, <2>6, ReplayWriteKeeps
<1>9. ASSUME NEW r \in Runner, StartNodes(r), Snapshot # <<>> PROVE Kept
  <2>1. PICK item : item = Head(Snapshot)
    OBVIOUS
  <2>2. Items(Snapshot) = {item} \cup Items(Tail(Snapshot))
    BY <1>9, <2>1, SnapshotIs, HeadTail
  <2>3. item \in Item /\ Current(item)
    BY <2>2, SnapshotHeld DEF Current
  <2>4. Write(item) /\ UNCHANGED <<cacheVars, out>> /\ todo' = [todo EXCEPT ![r] = Tail(Snapshot)]
    BY <1>9, <2>1 DEF StartNodes
  <2>5. \A q \in Runner : todo'[q] = todo[q] \/ todo'[q] = Tail(Snapshot)
    BY <2>4 DEF TypeOK
  <2>6. \A x \in Items(Tail(Snapshot)) : x \in Item /\ x.key[1] = "node" /\ x.version = Cached(x.key)
    BY <2>2, SnapshotHeld
  <2> QED BY <2>3, <2>4, <2>5, <2>6, ReplayWriteKeeps
<1>10. ASSUME NEW r \in Runner,
              ChannelsEnd(r) \/ Complete(r) \/ (StartNodes(r) /\ Snapshot = <<>>)
       PROVE  Kept
  BY <1>1, <1>10 DEF ChannelsEnd, Complete, StartNodes
<1>11. CASE UNCHANGED vars
  BY <1>1, <1>11 DEF vars, replayVars
<1> QED BY <1>2, <1>3, <1>4, <1>5, <1>6, <1>7, <1>8, <1>9, <1>10, <1>11 DEF Next

-----------------------------------------------------------------------------
(* What a replay has gone over. *)

LEMMA Shows ==
  ASSUME TypeOK, NEW item \in Item, Write(item)
  PROVE  Reached(item.key)'
<1>1. item.key \in Key /\ item.version # -1 /\ shown'[item.key] = item.version
  BY DEF Item, Write, TypeOK
<1> QED BY <1>1 DEF Reached

LEMMA CoverKept ==
  ASSUME TypeOK, CacheInv, IteratorInv, CoverInv, [Next]_vars,
         \A k \in Key : Reached(k) => Reached(k)'
  PROVE  CoverInv'
<1>1. /\ \A c \in Channel : <<"channel", c>> \in Key
      /\ \A n \in Node : <<"node", n>> \in Key
  BY DEF Key
<1>2. ASSUME NEW q \in Runner, stage'[q] = stage[q], pos'[q] = pos[q], todo'[q] = todo[q],
             UNCHANGED cacheVars
      PROVE  CoverOK(q)'
  <2>1. CoverOK(q) /\ channels' = channels /\ known' = known
    BY <1>2 DEF CoverInv, cacheVars
  <2>2. Indexes' = Indexes
    BY <2>1 DEF Indexes, Items
  <2>3. \A k \in Key : ReachedOrHeld(q, k) => ReachedOrHeld(q, k)'
    BY <1>2 DEF ReachedOrHeld, Items
  <2> QED BY <1>1, <1>2, <2>1, <2>2, <2>3 DEF CoverOK
<1>3. ASSUME UNCHANGED <<cacheVars, completed>>
      PROVE  completed' => \A k \in Key : Cached(k)' > 0 => Reached(k)'
  <2>1. \A k \in Key : Cached(k)' = Cached(k)
    BY <1>3 DEF cacheVars, Cached, Indexes, Items
  <2> QED BY <1>3, <2>1 DEF CoverInv
<1>4. ASSUME UNCHANGED <<cacheVars, stage, pos, todo, completed>> PROVE CoverInv'
  BY <1>2, <1>3, <1>4 DEF CoverInv
<1>5. ASSUME NEW c \in Channel, UpdateChannel(c) PROVE CoverInv'
  <2>1. UNCHANGED <<known, stage, pos, todo, completed>>
    BY <1>5 DEF UpdateChannel, replayVars
  <2>2. Reached(<<"channel", c>>)'
    <3>1. PICK new : new = ItemOf("channel", c, Cached(<<"channel", c>>) + 1)
      OBVIOUS
    <3>2. out' = Append(out, new) /\ out \in Seq(Item) /\ new \in Item /\ new.key = <<"channel", c>>
      BY <1>5, <3>1, ChannelUpdated DEF UpdateChannel, TypeOK
    <3>3. Len(out) + 1 \in DOMAIN out' /\ out'[Len(out) + 1] = new
      BY <3>2, AppendProperties, LenProperties
    <3> QED BY <3>2, <3>3 DEF Reached, Pending
  <2>3. Indexes' = Indexes \cup {c}
    BY <1>5, ChannelUpdatedCache
  <2>4. ASSUME NEW q \in Runner PROVE CoverOK(q)'
    <3>1. CoverOK(q)
      BY DEF CoverInv
    <3>2. ASSUME stage[q] = "channels", NEW i \in 1..pos[q], NEW d \in Channel,
                 channels'[i].key[2] = d
          PROVE  Reached(<<"channel", d>>)'
      <4>1. pos[q] \in 1..Len(channels) /\ Len(channels) <= Len(channels') /\ Len(channels') \in Nat
        BY <1>5, <3>2, ChannelShift DEF IteratorInv, IteratorOK
      <4>2. /\ DOMAIN channels' = 1..Len(channels') /\ DOMAIN channels = 1..Len(channels)
            /\ Len(channels) \in Nat
        BY <1>5, ChannelUpdated, LenProperties DEF TypeOK
      <4>3. i \in DOMAIN channels'
        BY <4>1, <4>2
      <4>4. CASE channels'[i].key = <<"channel", c>>
        BY <2>2, <3>2, <4>4
      <4>5. ASSUME NEW j \in DOMAIN channels, j <= i, channels[j].key = channels'[i].key
            PROVE  Reached(<<"channel", d>>)'
        <5>1. j \in 1..pos[q]
          BY <4>1, <4>2, <4>5
        <5>2. Reached(<<"channel", d>>)
          BY <3>1, <3>2, <4>5, <5>1 DEF CoverOK
        <5> QED BY <1>1, <5>2
      <4> QED BY <1>5, <4>3, <4>4, <4>5, ChannelShift
    <3>3. \A k \in Key : ReachedOrHeld(q, k) => ReachedOrHeld(q, k)'
      BY <2>1 DEF ReachedOrHeld, Items
    <3> QED BY <1>1, <2>1, <2>2, <2>3, <3>1, <3>2, <3>3 DEF CoverOK
  <2>5. \A k \in Key : Cached(k)' > 0 => Cached(k) > 0 \/ k = <<"channel", c>>
    BY <1>5, ChannelUpdatedCache
  <2> QED BY <2>1, <2>2, <2>4, <2>5 DEF CoverInv
<1>6. ASSUME NEW n \in Node, UpdateNode(n) PROVE CoverInv'
  <2>1. UNCHANGED <<channels, stage, pos, todo, completed>> /\ known' = [known EXCEPT ![n] = @ + 1]
    BY <1>6 DEF UpdateNode, replayVars
  <2>2. Reached(<<"node", n>>)'
    <3>1. PICK new : new = ItemOf("node", n, known[n] + 1)
      OBVIOUS
    <3>2. out' = Append(out, new) /\ out \in Seq(Item) /\ new \in Item /\ new.key = <<"node", n>>
      BY <1>6, <3>1, NodeUpdated DEF UpdateNode, TypeOK
    <3>3. Len(out) + 1 \in DOMAIN out' /\ out'[Len(out) + 1] = new
      BY <3>2, AppendProperties, LenProperties
    <3> QED BY <3>2, <3>3 DEF Reached, Pending
  <2>3. \A m \in Node : m # n => known'[m] = known[m]
    BY <2>1 DEF TypeOK
  <2>4. ASSUME NEW q \in Runner PROVE CoverOK(q)'
    <3>1. CoverOK(q)
      BY DEF CoverInv
    <3>2. Indexes' = Indexes /\ \A k \in Key : ReachedOrHeld(q, k) => ReachedOrHeld(q, k)'
      BY <2>1 DEF ReachedOrHeld, Items, Indexes
    <3>3. ReachedOrHeld(q, <<"node", n>>)'
      BY <2>2 DEF ReachedOrHeld
    <3> QED BY <1>1, <2>1, <2>3, <3>1, <3>2, <3>3 DEF CoverOK
  <2>5. \A k \in Key : Cached(k)' > 0 => Cached(k) > 0 \/ k = <<"node", n>>
    BY <1>6, NodeUpdated
  <2> QED BY <2>1, <2>2, <2>4, <2>5 DEF CoverInv
<1>7. ASSUME NEW r \in Runner, StartChannels(r) PROVE CoverInv'
  <2>1. UNCHANGED <<cacheVars, completed>> /\ stage[r] = "idle"
    BY <1>7 DEF StartChannels
  <2>2. CASE channels # <<>>
    <3>1. PICK item : item = channels[1]
      OBVIOUS
    <3>2. item \in Item /\ item.key = <<"channel", item.key[2]>>
      <4>1. 1 \in DOMAIN channels
        BY <2>2, HeadTail DEF TypeOK
      <4> QED BY <3>1, <4>1, ChannelAt
    <3>3. /\ Write(item) /\ stage' = [stage EXCEPT ![r] = "channels"]
          /\ pos' = [pos EXCEPT ![r] = 1] /\ todo' = todo
      BY <1>7, <2>2, <3>1 DEF StartChannels
    <3>4. Reached(item.key)'
      BY <3>2, <3>3, Shows
    <3>5. stage'[r] = "channels" /\ pos'[r] = 1 /\ channels' = channels
      BY <2>1, <3>3 DEF TypeOK, cacheVars
    <3>6. CoverOK(r)'
      BY <3>1, <3>2, <3>4, <3>5 DEF CoverOK
    <3>7. ASSUME NEW q \in Runner, q # r PROVE CoverOK(q)'
      BY <1>2, <2>1, <3>3, <3>7 DEF TypeOK
    <3> QED BY <1>3, <2>1, <3>6, <3>7 DEF CoverInv
  <2>3. CASE channels = <<>>
    <3>1. PICK item : item = Head(Defaults)
      OBVIOUS
    <3>2. Items(Defaults) = {item} \cup Items(Tail(Defaults)) /\ item \in Item
      BY <3>1, DefaultsAre, HeadTail
    <3>3. /\ Write(item) /\ stage' = [stage EXCEPT ![r] = "defaults"]
          /\ todo' = [todo EXCEPT ![r] = Tail(Defaults)] /\ pos' = pos
      BY <1>7, <2>3, <3>1 DEF StartChannels
    <3>4. Reached(item.key)'
      BY <3>2, <3>3, Shows
    <3>5. stage'[r] = "defaults" /\ todo'[r] = Tail(Defaults)
      BY <3>3 DEF TypeOK
    <3>6. ASSUME NEW c \in Channel PROVE ReachedOrHeld(r, <<"channel", c>>)'
      <4>1. PICK x \in Items(Defaults) : x.key = <<"channel", c>>
        <5>1. ItemOf("channel", c, 0) \in Items(Defaults)
          BY DefaultsAre
        <5> QED BY <5>1 DEF ItemOf
      <4>2. CASE x = item
        BY <3>4, <4>1, <4>2 DEF ReachedOrHeld
      <4>3. CASE x \in Items(todo'[r])
        BY <4>1, <4>3 DEF ReachedOrHeld, Items
      <4> QED BY <3>2, <3>5, <4>2, <4>3
    <3>7. CoverOK(r)'
      BY <3>5, <3>6 DEF CoverOK
    <3>8. ASSUME NEW q \in Runner, q # r PROVE CoverOK(q)'
      BY <1>2, <2>1, <3>3, <3>8 DEF TypeOK
    <3> QED BY <1>3, <2>1, <3>7, <3>8 DEF CoverInv
  <2> QED BY <2>2, <2>3
<1>8. ASSUME NEW r \in Runner, NextChannel(r) PROVE CoverInv'
  <2>1. PICK item : item = channels[pos[r] + 1]
    OBVIOUS
  <2>2. /\ Write(item) /\ UNCHANGED <<cacheVars, completed, stage, todo>> /\ stage[r] = "channels"
        /\ pos' = [pos EXCEPT ![r] = @ + 1] /\ pos[r] + 1 \in DOMAIN channels
    BY <1>8, <2>1 DEF NextChannel, TypeOK
  <2>3. item \in Item /\ item.key = <<"channel", item.key[2]>>
    BY <2>1, <2>2, ChannelAt
  <2>4. Reached(item.key)'
    BY <2>2, <2>3, Shows
  <2>5. stage'[r] = "channels" /\ pos'[r] = pos[r] + 1 /\ channels' = channels /\ pos[r] \in Nat
    BY <2>2 DEF TypeOK, cacheVars
  <2>6. \A i \in 1..pos'[r] : i \in 1..pos[r] \/ i = pos[r] + 1
    BY <2>5
  <2>7. \A i \in 1..pos[r] : \A c \in Channel : channels[i].key[2] = c => Reached(<<"channel", c>>)'
    BY <1>1, <2>2 DEF CoverInv, CoverOK
  <2>8. ASSUME NEW i \in 1..pos'[r], NEW c \in Channel, channels'[i].key[2] = c
        PROVE  Reached(<<"channel", c>>)'
    <3>1. CASE i \in 1..pos[r]
      BY <2>5, <2>7, <2>8, <3>1
    <3>2. CASE i = pos[r] + 1
      BY <2>1, <2>3, <2>4, <2>5, <2>8, <3>2
    <3> QED BY <2>6, <3>1, <3>2
  <2>9. CoverOK(r)'
    BY <2>5, <2>8 DEF CoverOK
  <2>10. ASSUME NEW q \in Runner, q # r PROVE CoverOK(q)'
    BY <1>2, <2>2, <2>10 DEF TypeOK
  <2> QED BY <1>3, <2>2, <2>9, <2>10 DEF CoverInv
<1>9. ASSUME NEW r \in Runner, NextHeld(r) PROVE CoverInv'
  <2>1. PICK item : item = Head(todo[r])
    OBVIOUS
  <2>2. /\ todo[r] # <<>> /\ Write(item) /\ todo' = [todo EXCEPT ![r] = Tail(todo[r])]
        /\ UNCHANGED <<cacheVars, completed, stage, pos>> /\ stage[r] \in {"defaults", "nodes"}
    BY <1>9, <2>1 DEF NextHeld
  <2>3. item \in Item /\ Items(todo[r]) = {item} \cup Items(Tail(todo[r]))
    BY <2>1, <2>2, HeadTail DEF TypeOK
  <2>4. Reached(item.key)'
    BY <2>2, <2>3, Shows
  <2>5. todo'[r] = Tail(todo[r]) /\ stage'[r] = stage[r]
    BY <2>2 DEF TypeOK
  <2>6. ASSUME NEW k \in Key, ReachedOrHeld(r, k) PROVE ReachedOrHeld(r, k)'
    <3>1. CASE Reached(k)
      BY <3>1 DEF ReachedOrHeld
    <3>2. ASSUME NEW x \in Items(todo[r]), x.key = k PROVE ReachedOrHeld(r, k)'
      <4>1. CASE x = item
        BY <2>4, <3>2, <4>1 DEF ReachedOrHeld
      <4>2. CASE x \in Items(todo'[r])
        BY <3>2, <4>2 DEF ReachedOrHeld, Items
      <4> QED BY <2>3, <2>5, <4>1, <4>2
    <3> QED BY <2>6, <3>1, <3>2 DEF ReachedOrHeld
  <2>7. Indexes' = Indexes /\ known' = known
    BY <2>2 DEF cacheVars, Indexes, Items
  <2>8. CoverOK(r)'
    BY <1>1, <2>2, <2>5, <2>6, <2>7 DEF CoverInv, CoverOK
  <2>9. ASSUME NEW q \in Runner, q # r PROVE CoverOK(q)'
    BY <1>2, <2>2, <2>9 DEF TypeOK
  <2> QED BY <1>3, <2>2, <2>8, <2>9 DEF CoverInv
<1>10. ASSUME NEW r \in Runner, ChannelsEnd(r) PROVE CoverInv'
  <2>1. /\ UNCHANGED <<cacheVars, completed, pos, todo>> /\ stage' = [stage EXCEPT ![r] = "configs"]
        /\ \/ stage[r] = "channels" /\ pos[r] >= Len(channels)
           \/ stage[r] = "defaults" /\ todo[r] = <<>>
    BY <1>10 DEF ChannelsEnd
  <2>2. ASSUME NEW c \in Channel, c \in Indexes PROVE Reached(<<"channel", c>>)
    <3>1. CASE stage[r] = "channels" /\ pos[r] >= Len(channels)
      <4>1. PICK i \in DOMAIN channels : channels[i].key[2] = c
        BY <2>2 DEF Indexes, Items
      <4>2. i \in 1..pos[r]
        BY <3>1, <4>1, LenProperties DEF TypeOK
      <4> QED BY <3>1, <4>1, <4>2 DEF CoverInv, CoverOK
    <3>2. CASE stage[r] = "defaults" /\ todo[r] = <<>>
      BY <3>2 DEF CoverInv, CoverOK, ReachedOrHeld, Items
    <3> QED BY <2>1, <3>1, <3>2
  <2>3. stage'[r] = "configs" /\ Indexes' = Indexes
    BY <2>1 DEF TypeOK, cacheVars, Indexes, Items
  <2>4. CoverOK(r)'
    BY <1>1, <2>2, <2>3 DEF CoverOK
  <2>5. ASSUME NEW q \in Runner, q # r PROVE CoverOK(q)'
    BY <1>2, <2>1, <2>5 DEF TypeOK
  <2> QED BY <1>3, <2>1, <2>4, <2>5 DEF CoverInv
<1>11. ASSUME NEW r \in Runner, StartNodes(r) PROVE CoverInv'
  <2>1. /\ UNCHANGED <<cacheVars, completed, pos>> /\ stage' = [stage EXCEPT ![r] = "nodes"]
        /\ stage[r] = "configs"
    BY <1>11 DEF StartNodes
  <2>2. stage'[r] = "nodes" /\ Indexes' = Indexes /\ known' = known
    BY <2>1 DEF TypeOK, cacheVars, Indexes, Items
  <2>3. \A q \in Runner : q # r => todo'[q] = todo[q] /\ stage'[q] = stage[q]
    BY <1>11, <2>1 DEF StartNodes, TypeOK
  <2>4. ASSUME NEW n \in Node, known[n] > 0 PROVE ReachedOrHeld(r, <<"node", n>>)'
    <3>1. PICK x \in Items(Snapshot) : x.key = <<"node", n>>
      <4>1. ItemOf("node", n, known[n]) \in Items(Snapshot)
        BY <2>4, SnapshotIs
      <4> QED BY <4>1 DEF ItemOf
    <3>2. Snapshot # <<>>
      BY <3>1 DEF Items
    <3>3. PICK item : item = Head(Snapshot)
      OBVIOUS
    <3>4. item \in Item /\ Items(Snapshot) = {item} \cup Items(Tail(Snapshot))
      BY <3>2, <3>3, SnapshotIs, HeadTail
    <3>5. Write(item) /\ todo'[r] = Tail(Snapshot)
      BY <1>11, <3>2, <3>3 DEF StartNodes, TypeOK
    <3>6. CASE x = item
      <4>1. Reached(item.key)'
        BY <3>4, <3>5, Shows
      <4> QED BY <3>1, <3>6, <4>1 DEF ReachedOrHeld
    <3>7. CASE x \in Items(todo'[r])
      BY <3>1, <3>7 DEF ReachedOrHeld, Items
    <3> QED BY <3>4, <3>5, <3>6, <3>7
  <2>5. CoverOK(r)'
    BY <1>1, <2>1, <2>2, <2>4 DEF CoverInv, CoverOK
  <2>6. ASSUME NEW q \in Runner, q # r PROVE CoverOK(q)'
    BY <1>2, <2>1, <2>3, <2>6
  <2> QED BY <1>3, <2>1, <2>5, <2>6 DEF CoverInv
<1>12. ASSUME NEW r \in Runner, Complete(r) PROVE CoverInv'
  <2>1. /\ UNCHANGED <<cacheVars, todo>> /\ stage' = [stage EXCEPT ![r] = "idle"]
        /\ pos' = [pos EXCEPT ![r] = 0] /\ stage[r] = "nodes" /\ todo[r] = <<>>
    BY <1>12 DEF Complete
  <2>2. stage'[r] = "idle"
    BY <2>1 DEF TypeOK
  <2>3. CoverOK(r)'
    BY <2>2 DEF CoverOK
  <2>4. ASSUME NEW q \in Runner, q # r PROVE CoverOK(q)'
    BY <1>2, <2>1, <2>4 DEF TypeOK
  <2>5. ASSUME NEW k \in Key, Cached(k) > 0 PROVE Reached(k)
    <3>1. CASE k[1] = "channel"
      <4>1. k = <<"channel", k[2]>> /\ k[2] \in Channel /\ k[2] \in Indexes
        BY <2>5, <3>1, KeyKinds, CachedIs
      <4> QED BY <2>1, <4>1 DEF CoverInv, CoverOK
    <3>2. CASE k[1] = "node"
      <4>1. k = <<"node", k[2]>> /\ k[2] \in Node /\ known[k[2]] > 0
        BY <2>5, <3>2, KeyKinds, CachedIs
      <4>2. ReachedOrHeld(r, k)
        BY <2>1, <4>1 DEF CoverInv, CoverOK
      <4> QED BY <2>1, <4>2 DEF ReachedOrHeld, Items
    <3> QED BY <3>1, <3>2, KeyKinds
  <2>6. \A k \in Key : Cached(k)' = Cached(k)
    BY <2>1 DEF cacheVars, Cached, Indexes, Items
  <2> QED BY <2>3, <2>4, <2>5, <2>6 DEF CoverInv
<1>13. UNCHANGED vars \/ Deliver => UNCHANGED <<cacheVars, stage, pos, todo, completed>>
  BY DEF vars, replayVars, Deliver
<1> QED
  BY <1>4, <1>5, <1>6, <1>7, <1>8, <1>9, <1>10, <1>11, <1>12, <1>13 DEF Next

(* After a replay, and with nothing on the way, the client has been shown  *)
(* what the cache holds, but for what was overtaken.                       *)
THEOREM EndsUpToDate == Spec => []UpToDate
<1> DEFINE Inv == TypeOK /\ CacheInv /\ IteratorInv /\ DataInv /\ CoverInv
<1>1. Init => Inv
  <2> SUFFICES ASSUME Init PROVE Inv
    OBVIOUS
  <2>1. TypeOK /\ CacheInv
    BY InitTypes
  <2>2. IteratorInv /\ CoverInv
    BY DEF Init, IteratorInv, IteratorOK, CoverInv, CoverOK
  <2>3. DataInv
    BY DEF Init, DataInv, OutInv, HeldInv, ShownInv, Items
  <2> QED BY <2>1, <2>2, <2>3
<1>2. Inv /\ [Next]_vars => Inv'
  <2> SUFFICES ASSUME Inv, [Next]_vars PROVE Inv'
    OBVIOUS
  <2>1. TypeOK' /\ CacheInv' /\ IteratorInv'
    BY TypesKept, IteratorKept
  <2>2. DataInv' /\ \A k \in Key : Reached(k) => Reached(k)'
    BY DataKept
  <2>3. CoverInv'
    BY <2>2, CoverKept
  <2> QED BY <2>1, <2>2, <2>3
<1>3. Inv => UpToDate
  <2> SUFFICES ASSUME Inv, completed, out = <<>>, NEW k \in Key \ overtaken, Cached(k) > 0
               PROVE  shown[k] = Cached(k)
    BY DEF UpToDate
  <2>1. ~Pending(k)
    BY DEF Pending
  <2>2. shown[k] # -1
    BY <2>1 DEF CoverInv, Reached
  <2> QED BY <2>1, <2>2 DEF DataInv, ShownInv
<1> QED BY <1>1, <1>2, <1>3, PTL DEF Spec

==============================================================================
