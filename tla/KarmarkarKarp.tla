---------------------------- MODULE KarmarkarKarp -----------------------------
(***************************************************************************)
(* karmarkar_karp: largest differencing of items into k partitions.  A Set   *)
(* is its items in the order they were added, and their sum; a State is k    *)
(* Sets in decreasing order; the heap is a set of States, in which no item   *)
(* is twice.  An item stands for its index; idx comes before val when Sets   *)
(* are compared, so val never decides.                                       *)
(***************************************************************************)
EXTENDS Integers, Sequences, FiniteSets

EmptySet == [sum |-> 0, items |-> <<>>]
Single(x, load) == [sum |-> load, items |-> <<x>>]

\* Set.__lt__
SetLess(a, b) ==
    \/ a.sum < b.sum
    \/ /\ a.sum = b.sum
       /\ Len(a.items) < Len(b.items)
    \/ /\ a.sum = b.sum
       /\ Len(a.items) = Len(b.items)
       /\ \E i \in DOMAIN a.items :
             /\ a.items[i] < b.items[i]
             /\ \A j \in 1 .. i - 1 : a.items[j] = b.items[j]

Decreasing(st) == \A i, j \in DOMAIN st : i < j => ~SetLess(st[i], st[j])

\* 1 .. n in the order R: i comes before j when <<i, j>> \in R.
Ranked(n, R) ==
    [m \in 1 .. n |->
        CHOOSE i \in 1 .. n : Cardinality({j \in 1 .. n : <<j, i>> \in R}) = m - 1]

\* The sequence s, sorted: R orders its positions.
Arranged(s, R) == [m \in DOMAIN s |-> s[Ranked(Len(s), R)[m]]]

\* Mutant: a merged State is not sorted again.
AsMerged(st) == st

\* The Sets of st in decreasing order, equal ones as they were.
Sorted(st) ==
    Arranged(st, {p \in (DOMAIN st) \X (DOMAIN st) :
                     \/ SetLess(st[p[2]], st[p[1]])
                     \/ ~SetLess(st[p[1]], st[p[2]]) /\ p[1] < p[2]})

\* Set.merge
MergeSets(a, b) == [sum |-> a.sum + b.sum, items |-> a.items \o b.items]

\* Mutant: the largest set is merged with the largest.
MergeAligned(st, other) == [i \in DOMAIN st |-> MergeSets(st[i], other[i])]

\* State.merge, before it sorts: the largest set with the smallest.
MergeStates(st, other) ==
    [i \in DOMAIN st |-> MergeSets(st[i], other[Len(st) + 1 - i])]

Spread(st) == st[1].sum - st[Len(st)].sum

\* State.__lt__: what the heap pops earlier.
StateLess(a, b) ==
    \/ Spread(a) > Spread(b)
    \/ Spread(a) = Spread(b) /\ SetLess(b[1], a[1])

Pops(heap, st) == st \in heap /\ \A other \in heap \ {st} : StateLess(st, other)
=============================================================================
