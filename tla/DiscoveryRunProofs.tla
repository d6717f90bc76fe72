------------------------- MODULE DiscoveryRunProofs -------------------------
(***************************************************************************)
(* Listings and discoveries for any number of names, pages, endpoints,     *)
(* changes and failures: what a listing promises (PagedListing), and that  *)
(* DiscoveryRun implements Discovery.                                      *)
(***************************************************************************)
EXTENDS DiscoveryRun, FiniteSetTheorems, SequenceTheorems, TLAPS

-----------------------------------------------------------------------------
(* Numbers.                                                                *)

LEMMA Quotient ==
    ASSUME NEW a \in Nat, NEW b \in Nat \ {0}
    PROVE  /\ a \div b \in Nat
           /\ a < b * ((a \div b) + 1)
BY Z3

LEMMA Monotone ==
    ASSUME NEW a \in Nat, NEW b \in Nat, NEW c \in Nat, a <= b
    PROVE  c * a <= c * b
BY Z3

\* The number of positions on the pages before page p, and after it.
LEMMA PageBorders ==
    ASSUME NEW p \in Nat \ {0}
    PROVE  /\ (p - 1) * PageSize \in Nat
           /\ p * PageSize = (p - 1) * PageSize + PageSize
           /\ (p + 1 - 1) * PageSize = p * PageSize
BY PageSizeAssumption, Z3

-----------------------------------------------------------------------------
(* The broker's list.                                                      *)

Existing == exchanges \subseteq Names

\* A name further behind has a higher position, and positions count from one.
LEMMA PositionGrows ==
    ASSUME NEW S \in SUBSET Nat, IsFiniteSet(S), NEW x \in S, NEW y \in S
    PROVE  /\ Cardinality({m \in S : m <= x}) \in 1..Cardinality(S)
           /\ x < y => Cardinality({m \in S : m <= x}) < Cardinality({m \in S : m <= y})
<1> DEFINE upTo(n) == {m \in S : m <= n}
<1>1. \A n \in S : IsFiniteSet(upTo(n)) /\ Cardinality(upTo(n)) <= Cardinality(S)
  BY FS_Subset
<1>2. \A n \in S : Cardinality(upTo(n)) \in Nat
  BY <1>1, FS_CardinalityType
<1>3. Cardinality(upTo(x)) # 0
  <2>1. x \in upTo(x)
    OBVIOUS
  <2> HIDE DEF upTo
  <2> QED
    BY <1>1, <2>1, FS_EmptySet
<1>4. ASSUME x < y PROVE Cardinality(upTo(x)) < Cardinality(upTo(y))
  <2>1. upTo(x) \subseteq upTo(y) /\ y \in upTo(y) /\ y \notin upTo(x)
    <3>1. x \in Nat /\ y \in Nat /\ ~(y <= x) /\ y <= y
      BY <1>4
    <3>2. \A m \in S : m <= x => m <= y
      BY <1>4
    <3> QED
      BY <3>1, <3>2
  <2> HIDE DEF upTo
  <2>2. Cardinality(upTo(x)) <= Cardinality(upTo(y)) /\ Cardinality(upTo(x)) # Cardinality(upTo(y))
    BY <1>1, <2>1, FS_Subset
  <2> QED
    BY <1>2, <2>2
<1>5. Cardinality(S) \in Nat
  BY FS_CardinalityType
<1> HIDE DEF upTo
<1>6. Cardinality(upTo(x)) \in 1..Cardinality(S)
  BY <1>1, <1>2, <1>3, <1>5
<1> QED
  BY <1>4, <1>6 DEF upTo

LEMMA ExistingFinite ==
    ASSUME Existing
    PROVE  exchanges \in SUBSET Nat /\ IsFiniteSet(exchanges) /\ Cardinality(exchanges) \in Nat
BY NamesAssumption, FS_Subset, FS_CardinalityType DEF Existing

\* Each position is taken once: the list has every name in its place.
LEMMA SortedList ==
    ASSUME Existing
    PROVE  /\ Sorted \in [1..Cardinality(exchanges) -> exchanges]
           /\ Sorted \in Seq(exchanges)
           /\ TotalCount = Cardinality(exchanges)
           /\ \A i \in 1..Cardinality(exchanges) : Position(Sorted[i]) = i
           /\ \A x \in exchanges : /\ Position(x) \in 1..Cardinality(exchanges)
                                   /\ Sorted[Position(x)] = x
<1> DEFINE N == Cardinality(exchanges)
           place == [x \in exchanges |-> Position(x)]
<1>1. exchanges \in SUBSET Nat /\ IsFiniteSet(exchanges) /\ N \in Nat
  BY ExistingFinite
<1>2. \A x \in exchanges : Position(x) \in 1..N
  BY <1>1, PositionGrows DEF Position
<1>3. \A x, y \in exchanges : x < y => Position(x) < Position(y)
  BY <1>1, PositionGrows DEF Position
<1>4. \A x, y \in exchanges : Position(x) = Position(y) => x = y
  <2> SUFFICES ASSUME NEW x \in exchanges, NEW y \in exchanges, x # y
               PROVE  Position(x) # Position(y)
    OBVIOUS
  <2>1. x \in Nat /\ y \in Nat /\ Position(x) \in Nat /\ Position(y) \in Nat
    BY <1>1, <1>2
  <2>2. x < y \/ y < x
    BY <2>1
  <2> QED
    BY <1>3, <2>1, <2>2
<1>5. place \in Injection(exchanges, 1..N)
  BY <1>2, <1>4 DEF Injection, IsInjective
<1>6. IsFiniteSet(1..N) /\ Cardinality(1..N) = N
  BY <1>1, FS_Interval
<1>7. place \in Surjection(exchanges, 1..N)
  BY <1>5, <1>6, FS_Injection
<1>8. \A i \in 1..N : \E x \in exchanges : Position(x) = i
  BY <1>7 DEF Surjection
<1>9. \A i \in 1..N : Sorted[i] \in exchanges /\ Position(Sorted[i]) = i
  BY <1>8 DEF Sorted
<1>10. Sorted \in [1..N -> exchanges]
  BY <1>9 DEF Sorted
<1>11. Sorted \in Seq(exchanges) /\ Len(Sorted) = N
  BY <1>1, <1>10
<1>12. \A x \in exchanges : Sorted[Position(x)] = x
  BY <1>2, <1>4, <1>9
<1> QED
  BY <1>2, <1>9, <1>10, <1>11, <1>12 DEF TotalCount

\* The names of page p are those at its positions, each once and at most PageSize.
LEMMA PageItems ==
    ASSUME Existing, NEW p \in Nat \ {0}
    PROVE  /\ Items(p) \in Seq(exchanges)
           /\ Len(Items(p)) <= PageSize
           /\ IsInjective(Items(p))
           /\ \A x \in exchanges : x \in ToSet(Items(p)) <=>
                  (p - 1) * PageSize < Position(x) /\ Position(x) <= p * PageSize
           /\ Items(p) = <<>> => TotalCount <= (p - 1) * PageSize
<1> DEFINE first == (p - 1) * PageSize
           last == LastOnPage(p)
           N == Cardinality(exchanges)
<1>1. /\ first \in Nat /\ p * PageSize = first + PageSize
      /\ PageSize \in Nat /\ PageSize >= 1
  BY PageBorders, PageSizeAssumption
<1>2. N \in Nat /\ TotalCount = N
  BY ExistingFinite, SortedList
<1>3. last \in Nat /\ last <= N /\ last <= first + PageSize /\ (last = first + PageSize \/ last = N)
  BY <1>1, <1>2 DEF LastOnPage
<1> HIDE DEF first, last, N
<1>4. \A i \in first + 1..last : Sorted[i] \in exchanges /\ Position(Sorted[i]) = i
  BY <1>1, <1>2, <1>3, SortedList DEF N
<1>5. Items(p) = SubSeq(Sorted, first + 1, last)
  BY DEF Items, first, last
<1>6. /\ Items(p) \in Seq(exchanges)
      /\ Len(Items(p)) = IF first + 1 <= last THEN last - first ELSE 0
      /\ \A i \in 1..last - first : Items(p)[i] = Sorted[first + i]
  <2>1. first + 1 \in Int /\ last \in Int /\ last - (first + 1) + 1 = last - first
    BY <1>1, <1>3
  <2>2. \A i \in 1..last - first : first + 1 + i - 1 = first + i
    BY <1>1, <1>3
  <2>3. /\ SubSeq(Sorted, first + 1, last) \in Seq(exchanges)
        /\ Len(SubSeq(Sorted, first + 1, last)) =
             IF first + 1 <= last THEN last - (first + 1) + 1 ELSE 0
        /\ \A i \in 1..last - (first + 1) + 1 :
             SubSeq(Sorted, first + 1, last)[i] = Sorted[first + 1 + i - 1]
    BY <1>4, <2>1, SubSeqProperties
  <2> QED
    BY <1>5, <2>1, <2>2, <2>3
<1>7. /\ DOMAIN Items(p) = 1..Len(Items(p))
      /\ \A i \in DOMAIN Items(p) : /\ i \in 1..last - first
                                    /\ Items(p)[i] \in exchanges
                                    /\ Position(Items(p)[i]) = first + i
  <2>1. DOMAIN Items(p) = 1..Len(Items(p))
    BY <1>6
  <2>2. ASSUME NEW i \in 1..Len(Items(p))
        PROVE  i \in 1..last - first /\ first + i \in first + 1..last
    BY <1>1, <1>3, <1>6
  <2> QED
    BY <1>4, <1>6, <2>1, <2>2
<1>8. IsInjective(Items(p))
  BY <1>1, <1>3, <1>7 DEF IsInjective
<1>9. ASSUME NEW x \in exchanges, x \in ToSet(Items(p))
      PROVE  first < Position(x) /\ Position(x) <= p * PageSize
  <2>1. PICK i \in DOMAIN Items(p) : x = Items(p)[i]
    BY <1>9 DEF ToSet
  <2> QED
    BY <1>1, <1>3, <1>7, <2>1
<1>10. ASSUME NEW x \in exchanges, first < Position(x), Position(x) <= p * PageSize
       PROVE  x \in ToSet(Items(p))
  <2>1. Position(x) \in 1..N /\ Sorted[Position(x)] = x
    BY SortedList DEF N
  <2>2. Position(x) - first \in 1..last - first /\ first + (Position(x) - first) = Position(x)
    BY <1>1, <1>2, <1>3, <1>10, <2>1
  <2>3. Position(x) - first \in 1..Len(Items(p))
    BY <1>1, <1>3, <1>6, <2>2
  <2>4. Items(p)[Position(x) - first] = x
    BY <1>6, <2>1, <2>2
  <2> QED
    BY <1>7, <2>3, <2>4 DEF ToSet
<1>11. Len(Items(p)) <= PageSize
  BY <1>1, <1>3, <1>6
<1>12. ASSUME Items(p) = <<>> PROVE TotalCount <= first
  <2>1. Len(Items(p)) = 0
    BY <1>12
  <2> QED
    BY <1>1, <1>2, <1>3, <1>6, <2>1
<1> QED
  BY <1>6, <1>8, <1>9, <1>10, <1>11, <1>12 DEF first

\* When the listing ends no name has a position behind the page that was read.
LEMMA EndIsReached ==
    ASSUME Existing, NEW p \in Nat \ {0}, page = p, NEW n \in Nat,
           n <= p * PageSize,
           Items(p) = <<>> \/ n >= TotalCount \/ p >= PageCount
    PROVE  TotalCount <= p * PageSize
<1>1. /\ (p - 1) * PageSize \in Nat /\ p * PageSize = (p - 1) * PageSize + PageSize
      /\ PageSize \in Nat \ {0}
  BY PageBorders, PageSizeAssumption
<1>2. TotalCount \in Nat
  BY ExistingFinite, SortedList
<1>3. CASE Items(p) = <<>>
  BY <1>1, <1>2, <1>3, PageItems
<1>4. CASE n >= TotalCount
  BY <1>1, <1>2, <1>4
<1>5. CASE p >= PageCount
  <2>1. TotalCount + PageSize - 1 \in Nat
    BY <1>1, <1>2
  <2>2. /\ PageCount \in Nat
        /\ TotalCount + PageSize - 1 < PageSize * (PageCount + 1)
    BY <1>1, <2>1, Quotient DEF PageCount
  <2>3. PageSize * (PageCount + 1) = PageSize * PageCount + PageSize
    BY <1>1, <2>2, Z3
  <2>4. PageSize * PageCount <= PageSize * p
    BY <1>1, <1>5, <2>2, Monotone
  <2>5. PageSize * p = p * PageSize
    BY <1>1, Z3
  <2> QED
    BY <1>1, <1>2, <2>2, <2>3, <2>4, <2>5
<1> QED
  BY <1>3, <1>4, <1>5

\* Sequences that are joined.
LEMMA Joined ==
    ASSUME NEW S, NEW s \in Seq(S), NEW t \in Seq(S)
    PROVE  /\ s \o t \in Seq(S)
           /\ Len(s \o t) = Len(s) + Len(t)
           /\ ToSet(s \o t) = ToSet(s) \cup ToSet(t)
           /\ IsInjective(s) /\ IsInjective(t) /\ ToSet(s) \cap ToSet(t) = {} =>
                  IsInjective(s \o t)
<1> DEFINE st == s \o t
<1>1. /\ st \in Seq(S) /\ Len(st) = Len(s) + Len(t)
      /\ Len(s) \in Nat /\ Len(t) \in Nat
      /\ DOMAIN s = 1..Len(s) /\ DOMAIN t = 1..Len(t) /\ DOMAIN st = 1..(Len(s) + Len(t))
      /\ \A i \in 1..(Len(s) + Len(t)) :
             st[i] = IF i <= Len(s) THEN s[i] ELSE t[i - Len(s)]
  BY ConcatProperties, LenProperties
<1> HIDE DEF st
<1>2. \A i \in DOMAIN s : i \in DOMAIN st /\ st[i] = s[i]
  BY <1>1
<1>3. \A i \in DOMAIN t : Len(s) + i \in DOMAIN st /\ st[Len(s) + i] = t[i]
  BY <1>1
<1>4. \A i \in DOMAIN st :
         \/ i \in DOMAIN s /\ st[i] = s[i]
         \/ i - Len(s) \in DOMAIN t /\ st[i] = t[i - Len(s)]
  BY <1>1
<1>5. ToSet(st) = ToSet(s) \cup ToSet(t)
  <2>1. ASSUME NEW x PROVE x \in ToSet(st) <=> x \in ToSet(s) \/ x \in ToSet(t)
    <3>1. ASSUME x \in ToSet(st) PROVE x \in ToSet(s) \/ x \in ToSet(t)
      BY <1>4, <3>1, Zenon DEF ToSet
    <3>2. ASSUME x \in ToSet(s) PROVE x \in ToSet(st)
      BY <1>2, <3>2, Zenon DEF ToSet
    <3>3. ASSUME x \in ToSet(t) PROVE x \in ToSet(st)
      BY <1>3, <3>3, Zenon DEF ToSet
    <3> QED
      BY <3>1, <3>2, <3>3
  <2> QED
    BY <2>1
<1>6. ASSUME IsInjective(s), IsInjective(t), ToSet(s) \cap ToSet(t) = {}
      PROVE  IsInjective(st)
  <2> SUFFICES ASSUME NEW i \in DOMAIN st, NEW j \in DOMAIN st,
                      st[i] = st[j]
               PROVE  i = j
    BY DEF IsInjective
  <2>1. i \in Nat /\ j \in Nat
    BY <1>1
  <2>2. CASE i \in DOMAIN s /\ st[i] = s[i] /\ j \in DOMAIN s /\ st[j] = s[j]
    BY <1>6, <2>2 DEF IsInjective
  <2>3. CASE /\ i - Len(s) \in DOMAIN t /\ st[i] = t[i - Len(s)]
             /\ j - Len(s) \in DOMAIN t /\ st[j] = t[j - Len(s)]
    <3>1. i - Len(s) = j - Len(s)
      BY <1>6, <2>3, Zenon DEF IsInjective
    <3> QED
      BY <1>1, <2>1, <3>1
  <2>4. CASE /\ i \in DOMAIN s /\ st[i] = s[i]
             /\ j - Len(s) \in DOMAIN t /\ st[j] = t[j - Len(s)]
    BY <1>6, <2>4 DEF ToSet
  <2>5. CASE /\ j \in DOMAIN s /\ st[j] = s[j]
             /\ i - Len(s) \in DOMAIN t /\ st[i] = t[i - Len(s)]
    BY <1>6, <2>5 DEF ToSet
  <2> QED
    BY <1>4, <2>2, <2>3, <2>4, <2>5
<1> QED
  BY <1>1, <1>5, <1>6 DEF st

-----------------------------------------------------------------------------
(* One listing.                                                            *)

\* The number of positions on the pages that were read.
Before == (page - 1) * PageSize

\* Deletions move names forward, to positions that were read: what was collected is
\* never read again.
NoneTwice ==
    ~created =>
        /\ IsInjective(all)
        /\ phase = "listing" =>
             \A x \in exchanges : x \in ToSet(all) => Position(x) <= Before

\* Creations move names backward: what was there from the beginning is collected, or
\* among the positions that are still to be read.
NoneMissed ==
    ~deleted =>
        /\ initial \subseteq exchanges
        /\ phase = "listing" => \A x \in initial : x \in ToSet(all) \/ Position(x) > Before
        /\ phase = "done" => initial \subseteq ToSet(all)

\* A listing that goes on has failed at its page as often as the loop has counted, and
\* has not collected more than there is on the pages before.
Progress ==
    phase = "listing" => attempt = failures /\ Len(all) <= Before

ListingInv == TypeOK /\ NoneTwice /\ NoneMissed /\ Progress /\ FailuresAreRetried

LEMMA BeforeType == TypeOK => Before \in Nat
BY PageBorders DEF TypeOK, Before

\* A name more at the broker: no other moves forward.
LEMMA CreateStep ==
    ASSUME ListingInv, NEW n \in Names, Create(n)
    PROVE  ListingInv'
<1>1. /\ UNCHANGED <<phase, page, attempt, all, failures, refused, initial, deleted>>
      /\ exchanges' = exchanges \cup {n} /\ created' /\ changes' = changes + 1
      /\ changes < MaxChanges /\ phase = "listing"
  BY DEF Create
<1>2. TypeOK'
  BY <1>1, BoundsAssumption DEF ListingInv, TypeOK
<1>3. ASSUME NEW x \in exchanges PROVE Position(x)' >= Position(x)
  <2> DEFINE old == {m \in exchanges : m <= x}
             new == {m \in exchanges \cup {n} : m <= x}
  <2>1. IsFiniteSet(exchanges) /\ IsFiniteSet(exchanges \cup {n})
    BY ExistingFinite, FS_AddElement DEF ListingInv, TypeOK, Existing
  <2>2. IsFiniteSet(old) /\ IsFiniteSet(new) /\ old \subseteq new
    BY <2>1, FS_Subset
  <2>3. Position(x)' = Cardinality(new) /\ Position(x) = Cardinality(old)
    BY <1>1 DEF Position
  <2> HIDE DEF old, new
  <2> QED
    BY <2>2, <2>3, FS_Subset
<1>4. ASSUME NEW x \in exchanges PROVE Position(x) \in Nat /\ Position(x)' \in Nat
  <2>1. x \in exchanges' /\ exchanges' \subseteq Names
    BY <1>1, <1>2 DEF TypeOK
  <2>2. /\ exchanges \in SUBSET Nat /\ IsFiniteSet(exchanges)
        /\ exchanges' \in SUBSET Nat /\ IsFiniteSet(exchanges')
    BY <2>1, NamesAssumption, FS_Subset DEF ListingInv, TypeOK
  <2>3. IsFiniteSet({m \in exchanges : m <= x}) /\ IsFiniteSet({m \in exchanges' : m <= x})
    BY <2>2, FS_Subset
  <2> QED
    BY <2>3, FS_CardinalityType DEF Position
<1>5. NoneMissed'
  <2>1. Before \in Nat /\ Before' = Before
    BY <1>1, BeforeType DEF ListingInv, Before
  <2>2. ASSUME ~deleted, NEW x \in initial, x \notin ToSet(all) PROVE Position(x)' > Before
    <3>1. x \in exchanges /\ Position(x) > Before
      BY <1>1, <2>2 DEF ListingInv, NoneMissed
    <3> QED
      BY <1>3, <1>4, <2>1, <3>1
  <2> QED
    BY <1>1, <2>1, <2>2 DEF ListingInv, NoneMissed
<1>6. NoneTwice' /\ Progress' /\ FailuresAreRetried'
  BY <1>1 DEF ListingInv, NoneTwice, Progress, FailuresAreRetried, Before
<1> QED
  BY <1>2, <1>5, <1>6 DEF ListingInv

\* A name less: no other moves backward.
LEMMA DeleteStep ==
    ASSUME ListingInv, NEW n \in Names, Delete(n)
    PROVE  ListingInv'
<1>1. /\ UNCHANGED <<phase, page, attempt, all, failures, refused, initial, created>>
      /\ exchanges' = exchanges \ {n} /\ deleted' /\ changes' = changes + 1
      /\ changes < MaxChanges /\ phase = "listing"
  BY DEF Delete
<1>2. TypeOK'
  BY <1>1, BoundsAssumption DEF ListingInv, TypeOK
<1>3. ASSUME NEW x \in exchanges'
      PROVE  x \in exchanges /\ Position(x)' <= Position(x)
             /\ Position(x) \in Nat /\ Position(x)' \in Nat
  <2> DEFINE old == {m \in exchanges : m <= x}
             new == {m \in exchanges \ {n} : m <= x}
  <2>1. IsFiniteSet(exchanges)
    BY ExistingFinite DEF ListingInv, TypeOK, Existing
  <2>2. IsFiniteSet(old) /\ new \subseteq old
    BY <2>1, FS_Subset
  <2>3. Position(x)' = Cardinality(new) /\ Position(x) = Cardinality(old) /\ x \in exchanges
    BY <1>1 DEF Position
  <2> HIDE DEF old, new
  <2> QED
    BY <2>2, <2>3, FS_Subset, FS_CardinalityType
<1>4. NoneTwice'
  <2>1. Before \in Nat /\ Before' = Before
    BY <1>1, BeforeType DEF ListingInv, Before
  <2>2. ASSUME ~created, NEW x \in exchanges', x \in ToSet(all) PROVE Position(x)' <= Before
    <3>1. Position(x) <= Before
      BY <1>1, <1>3, <2>2 DEF ListingInv, NoneTwice
    <3> QED
      BY <1>3, <2>1, <3>1
  <2> QED
    BY <1>1, <2>1, <2>2 DEF ListingInv, NoneTwice
<1>5. NoneMissed' /\ Progress' /\ FailuresAreRetried'
  BY <1>1 DEF ListingInv, NoneMissed, Progress, FailuresAreRetried, Before
<1> QED
  BY <1>2, <1>4, <1>5 DEF ListingInv

\* A failed attempt is counted, and the last one ends the listing.
LEMMA FailStep ==
    ASSUME ListingInv, RequestFails \/ RequestRefused
    PROVE  ListingInv'
<1>1. /\ UNCHANGED <<page, all, exchanges, initial, created, deleted, changes>>
      /\ phase = "listing"
  BY DEF RequestFails, RequestRefused, broker
<1>2. attempt \in Nat /\ failures \in Nat /\ MaxRetries \in Nat /\ attempt = failures
  BY <1>1, BoundsAssumption DEF ListingInv, TypeOK, Progress
<1>3. TypeOK'
  <2>1. TypeOK /\ attempt \in 0..MaxRetries /\ failures \in 0..MaxRetries + 1
    BY BoundsAssumption DEF ListingInv, TypeOK
  <2>2. CASE RequestFails
    <3>1. failures' \in 0..MaxRetries + 1 /\ UNCHANGED refused
      BY <1>2, <2>1, <2>2 DEF RequestFails
    <3>2. attempt' \in 0..MaxRetries /\ phase' \in {"listing", "failed"}
      BY <1>1, <1>2, <2>1, <2>2 DEF RequestFails, LastAttempt
    <3> QED
      BY <1>1, <2>1, <3>1, <3>2 DEF TypeOK
  <2>3. CASE RequestRefused
    BY <1>1, <2>1, <2>3 DEF RequestRefused, TypeOK
  <2> QED
    BY <2>2, <2>3
<1>4. phase' \in {"listing", "failed"}
  BY <1>1 DEF RequestFails, RequestRefused
<1>5. NoneTwice' /\ NoneMissed'
  BY <1>1, <1>4 DEF ListingInv, NoneTwice, NoneMissed, Before, Position
<1>6. Progress'
  BY <1>1, <1>2 DEF RequestFails, RequestRefused, ListingInv, Progress, Before
<1>7. FailuresAreRetried'
  BY <1>1, <1>2 DEF RequestFails, RequestRefused, LastAttempt, FailuresAreRetried
<1> QED
  BY <1>3, <1>5, <1>6, <1>7 DEF ListingInv

\* A page joins the pages before: nothing on it was collected, and when it was the last
\* one nothing is left.
LEMMA AnswerStep ==
    ASSUME ListingInv, RequestAnswered
    PROVE  ListingInv'
<1> DEFINE items == Items(page)
           next == page * PageSize
<1>1. /\ UNCHANGED <<exchanges, initial, created, deleted, changes, refused>>
      /\ phase = "listing" /\ all' = all \o items /\ failures' = 0
      /\ \/ /\ phase' = "done" /\ UNCHANGED <<page, attempt>>
            /\ items = <<>> \/ Len(all') >= TotalCount \/ page >= PageCount
         \/ phase' = "listing" /\ page' = page + 1 /\ attempt' = 0
  BY DEF RequestAnswered, ListingEnds, broker
<1>2. /\ Existing /\ page \in Nat \ {0} /\ all \in Seq(Names) /\ TypeOK
      /\ exchanges \subseteq Names
  BY DEF ListingInv, TypeOK, Existing
<1>3. /\ Before \in Nat /\ next = Before + PageSize /\ PageSize \in Nat
      /\ next \in Nat
      /\ page' = page + 1 => Before' = next
  BY <1>2, PageBorders, PageSizeAssumption DEF Before
<1>4. /\ items \in Seq(exchanges) /\ Len(items) <= PageSize /\ IsInjective(items)
      /\ \A x \in exchanges :
            x \in ToSet(items) <=> Before < Position(x) /\ Position(x) <= next
  BY <1>2, PageItems DEF Before
<1>5. items \in Seq(Names) /\ ToSet(items) \subseteq exchanges
  <2>1. items \in Seq(Names)
    BY <1>2, <1>4, SeqMonotonic
  <2>2. \A i \in DOMAIN items : items[i] \in exchanges
    <3> HIDE DEF items
    <3> QED
      BY <1>4
  <2> QED
    BY <2>1, <2>2 DEF ToSet
<1> HIDE DEF items, next
<1>6. /\ all' \in Seq(Names) /\ Len(all') = Len(all) + Len(items)
      /\ ToSet(all') = ToSet(all) \cup ToSet(items)
      /\ IsInjective(all) /\ ToSet(all) \cap ToSet(items) = {} => IsInjective(all')
  BY <1>1, <1>2, <1>4, <1>5, Joined
<1>7. Len(all') \in Nat /\ Len(all') <= next
  <2>1. Len(all) <= Before
    BY <1>1 DEF ListingInv, Progress
  <2>2. Len(all) \in Nat /\ Len(items) \in Nat
    BY <1>2, <1>5, LenProperties
  <2> QED
    BY <1>3, <1>4, <1>6, <2>1, <2>2
<1>8. \A x \in exchanges : Position(x) \in Nat /\ Position(x) <= TotalCount
  BY <1>2, SortedList, ExistingFinite
<1>9. phase' = "done" => \A x \in exchanges : Position(x) <= next
  <2>1. phase' = "done" => TotalCount <= next
    BY <1>1, <1>2, <1>7, EndIsReached DEF next, items
  <2>2. TotalCount \in Nat
    BY <1>2, SortedList, ExistingFinite
  <2> QED
    BY <1>3, <1>8, <2>1, <2>2
<1>10. TypeOK'
  <2>1. page' \in Nat \ {0} /\ attempt' \in 0..MaxRetries /\ phase' \in {"listing", "done"}
    BY <1>1, <1>2, BoundsAssumption DEF TypeOK
  <2>2. failures' \in 0..MaxRetries + 1
    BY <1>1, BoundsAssumption
  <2> QED
    BY <1>1, <1>2, <1>6, <2>1, <2>2 DEF TypeOK
<1>11. \A x \in exchanges : Position(x)' = Position(x)
  BY <1>1 DEF Position
<1>12. NoneTwice'
  <2> SUFFICES ASSUME ~created
               PROVE  /\ IsInjective(all')
                      /\ phase' = "listing" =>
                           \A x \in exchanges : x \in ToSet(all') => Position(x) <= Before'
    BY <1>1, <1>11 DEF NoneTwice
  <2>1. IsInjective(all) /\ \A x \in exchanges : x \in ToSet(all) => Position(x) <= Before
    BY <1>1 DEF ListingInv, NoneTwice
  <2>2. ToSet(all) \cap ToSet(items) = {}
    BY <1>3, <1>4, <1>5, <1>8, <2>1
  <2>3. ASSUME NEW x \in exchanges, x \in ToSet(all') PROVE Position(x) <= next
    <3>1. CASE x \in ToSet(all)
      BY <1>3, <1>8, <2>1, <3>1
    <3>2. CASE x \in ToSet(items)
      BY <1>4, <3>2
    <3> QED
      BY <1>6, <2>3, <3>1, <3>2
  <2> QED
    BY <1>1, <1>3, <1>6, <2>1, <2>2, <2>3
<1>13. NoneMissed'
  <2> SUFFICES ASSUME ~deleted
               PROVE  /\ initial \subseteq exchanges
                      /\ phase' = "listing" =>
                           \A x \in initial : x \in ToSet(all') \/ Position(x) > Before'
                      /\ phase' = "done" => initial \subseteq ToSet(all')
    BY <1>1, <1>11 DEF NoneMissed
  <2>1. /\ initial \subseteq exchanges
        /\ \A x \in initial : x \in ToSet(all) \/ Position(x) > Before
    BY <1>1 DEF ListingInv, NoneMissed
  <2>2. ASSUME NEW x \in initial, Position(x) <= next PROVE x \in ToSet(all')
    BY <1>4, <1>6, <2>1, <2>2
  <2>3. phase' = "done" => initial \subseteq ToSet(all')
    BY <1>9, <2>1, <2>2
  <2>4. ASSUME phase' = "listing", NEW x \in initial
        PROVE  x \in ToSet(all') \/ Position(x) > Before'
    <3>1. Before' = next /\ Position(x) \in Nat
      BY <1>1, <1>3, <1>8, <2>1, <2>4
    <3> QED
      BY <1>3, <2>2, <3>1
  <2> QED
    BY <2>1, <2>3, <2>4
<1>14. Progress' /\ FailuresAreRetried'
  BY <1>1, <1>3, <1>7 DEF Progress, FailuresAreRetried
<1> QED
  BY <1>10, <1>12, <1>13, <1>14 DEF ListingInv

\* One reply with everything has each name once.
LEMMA WholeStepKeeps ==
    ASSUME ListingInv, RequestAnsweredWhole
    PROVE  ListingInv'
<1>1. /\ UNCHANGED <<page, attempt, exchanges, initial, created, deleted, changes,
                     refused>>
      /\ failures' = 0 /\ all' = Sorted /\ phase' = "done" /\ phase = "listing"
  BY DEF RequestAnsweredWhole, broker
<1>2. Existing /\ TypeOK
  BY DEF ListingInv, TypeOK, Existing
<1>3. /\ Sorted \in Seq(exchanges) /\ DOMAIN Sorted = 1..Cardinality(exchanges)
      /\ \A i \in DOMAIN Sorted : Position(Sorted[i]) = i
      /\ \A x \in exchanges : Position(x) \in DOMAIN Sorted /\ Sorted[Position(x)] = x
  BY <1>2, SortedList
<1>4. Sorted \in Seq(Names)
  BY <1>2, <1>3, SeqMonotonic DEF Existing
<1>5. IsInjective(Sorted)
  BY <1>3 DEF IsInjective
<1>6. exchanges \subseteq ToSet(Sorted)
  BY <1>3 DEF ToSet
<1>7. failures' \in 0..MaxRetries + 1
  BY <1>1, BoundsAssumption
<1>8. TypeOK'
  BY <1>1, <1>2, <1>4, <1>7 DEF TypeOK
<1> QED
  BY <1>1, <1>5, <1>6, <1>8
     DEF ListingInv, NoneTwice, NoneMissed, Progress, FailuresAreRetried

\* A listing that begins.
Fresh ==
    /\ phase = "listing" /\ exchanges \subseteq Names /\ initial = exchanges
    /\ page = 1 /\ attempt = 0 /\ all = <<>>
    /\ created = FALSE /\ deleted = FALSE /\ refused = FALSE
    /\ failures = 0 /\ changes = 0

LEMMA FreshListing == Fresh => ListingInv
<1> SUFFICES ASSUME Fresh PROVE ListingInv
  OBVIOUS
<1>1. all \in Seq(Names) /\ Len(all) = 0 /\ DOMAIN all = {} /\ ToSet(all) = {}
  BY DEF Fresh, ToSet
<1>2. 0 \in 0..MaxRetries /\ 0 \in 0..MaxRetries + 1 /\ 0 \in 0..MaxChanges
  BY BoundsAssumption
<1>3. TypeOK
  <2>1. phase \in {"listing", "done", "failed"} /\ exchanges \subseteq Names /\ initial \subseteq Names
    BY DEF Fresh
  <2>2. page \in Nat \ {0}
    BY DEF Fresh
  <2>3. attempt \in 0..MaxRetries /\ failures \in 0..MaxRetries + 1 /\ changes \in 0..MaxChanges
    BY <1>2 DEF Fresh
  <2>4. created \in BOOLEAN /\ deleted \in BOOLEAN /\ refused \in BOOLEAN
    BY DEF Fresh
  <2> QED
    BY <1>1, <2>1, <2>2, <2>3, <2>4 DEF TypeOK
<1>4. Before = 0
  BY PageSizeAssumption DEF Before, Fresh
<1>5. ASSUME NEW x \in exchanges PROVE Position(x) > 0
  <2>1. Existing
    BY DEF Fresh, Existing
  <2>2. Position(x) \in 1..Cardinality(exchanges)
    BY <2>1, SortedList
  <2> QED
    BY <2>1, <2>2, ExistingFinite
<1>6. IsInjective(all)
  BY <1>1 DEF IsInjective
<1>7. NoneTwice /\ NoneMissed
  BY <1>1, <1>4, <1>5, <1>6 DEF Fresh, NoneTwice, NoneMissed
<1>8. FailuresAreRetried
  BY DEF Fresh, FailuresAreRetried
<1>9. Progress
  BY <1>1, <1>4 DEF Fresh, Progress
<1> QED
  BY <1>3, <1>7, <1>8, <1>9 DEF ListingInv

-----------------------------------------------------------------------------
(* The endpoints in turn.                                                  *)

\* What is known of the visits: no more endpoints than there are, and the error that is
\* remembered is one of theirs.
VisitsInv ==
    /\ kind \in Handlers
    /\ answers \in Seq([ok : BOOLEAN, targets : SUBSET (Nat \X Names)])
    /\ Len(answers) <= Endpoints
    /\ lastErr <=> \E i \in DOMAIN answers : ~answers[i].ok

DiscoveryInv == ListingInv /\ VisitsInv

LEMMA FirstListing == DiscoveryInit => DiscoveryInv
<1> SUFFICES ASSUME DiscoveryInit PROVE DiscoveryInv
  OBVIOUS
<1>1. Fresh
  BY DEF DiscoveryInit, Init, Fresh
<1>2. VisitsInv
  BY EndpointsAssumption DEF DiscoveryInit, VisitsInv
<1> QED
  BY <1>1, <1>2, FreshListing DEF DiscoveryInv

\* The listing of the next endpoint begins with nothing.
LEMMA NextIsFresh == NextListing => ListingInv'
<1>1. NextListing => Fresh'
  BY DEF NextListing, Fresh
<1>2. Fresh' => ListingInv'
  BY FreshListing, PTL
<1> QED
  BY <1>1, <1>2

\* Whatever the endpoint has brought, its answer is one more.
LEMMA AnswerJoins ==
    ASSUME VisitsInv, More, NEW a \in [ok : BOOLEAN, targets : SUBSET (Nat \X Names)]
    PROVE  LET now == Append(answers, a) IN
           /\ now \in Seq([ok : BOOLEAN, targets : SUBSET (Nat \X Names)])
           /\ Len(now) <= Endpoints
           /\ (\E i \in DOMAIN now : ~now[i].ok) <=> lastErr \/ ~a.ok
<1> DEFINE A == [ok : BOOLEAN, targets : SUBSET (Nat \X Names)]
           now == Append(answers, a)
<1> HIDE DEF A
<1>1. answers \in Seq(A) /\ a \in A /\ Len(answers) \in Nat
  BY DEF VisitsInv, A
<1>2. /\ now \in Seq(A) /\ Len(now) = Len(answers) + 1
      /\ now[Len(answers) + 1] = a
      /\ \A i \in 1..Len(answers) : now[i] = answers[i]
      /\ DOMAIN now = 1..(Len(answers) + 1) /\ DOMAIN answers = 1..Len(answers)
  BY <1>1
<1>3. Len(now) <= Endpoints
  BY <1>1, <1>2, EndpointsAssumption DEF More, Visited
<1>4. DOMAIN now = DOMAIN answers \cup {Len(answers) + 1}
  BY <1>1, <1>2
<1>5. (\E i \in DOMAIN now : ~now[i].ok) <=> (\E i \in DOMAIN answers : ~answers[i].ok) \/ ~a.ok
  BY <1>2, <1>4
<1> QED
  BY <1>2, <1>3, <1>5 DEF VisitsInv, A

LEMMA ReportedType == VisitsInv /\ TypeOK => Reported \in SUBSET (Nat \X Names)
<1> SUFFICES ASSUME VisitsInv, TypeOK PROVE Reported \in SUBSET (Nat \X Names)
  OBVIOUS
<1>1. Visited \in Nat
  BY DEF VisitsInv, Visited
<1>2. \A n \in ToSet(all) : n \in Names
  BY DEF TypeOK, ToSet
<1> QED
  BY <1>1, <1>2 DEF Reported

LEMMA ListingKeeps == DiscoveryInv /\ Listing => DiscoveryInv'
<1> SUFFICES ASSUME DiscoveryInv, Listing PROVE DiscoveryInv'
  OBVIOUS
<1>1. VisitsInv'
  BY DEF DiscoveryInv, Listing, discovery, VisitsInv
<1>2. ListingInv
  BY DEF DiscoveryInv
<1>3. CASE RequestFails \/ RequestRefused
  BY <1>1, <1>2, <1>3, FailStep DEF DiscoveryInv
<1>4. CASE RequestAnswered
  BY <1>1, <1>2, <1>4, AnswerStep DEF DiscoveryInv
<1>5. CASE RequestAnsweredWhole
  BY <1>1, <1>2, <1>5, WholeStepKeeps DEF DiscoveryInv
<1>6. CASE Broker
  BY <1>1, <1>2, <1>6, CreateStep, DeleteStep DEF DiscoveryInv, Broker
<1> QED
  BY <1>3, <1>4, <1>5, <1>6 DEF Listing, PagedStep, WholeStep, Client

LEMMA EndpointFailsKeeps == DiscoveryInv /\ EndpointFails => DiscoveryInv'
<1> SUFFICES ASSUME DiscoveryInv, EndpointFails PROVE DiscoveryInv'
  OBVIOUS
<1> DEFINE a == [ok |-> FALSE, targets |-> {}]
<1>1. /\ answers' = Append(answers, a) /\ lastErr' = TRUE /\ kind' = kind
      /\ More /\ NextListing /\ VisitsInv
  BY DEF EndpointFails, DiscoveryInv
<1>2. a \in [ok : BOOLEAN, targets : SUBSET (Nat \X Names)] /\ ~a.ok
  OBVIOUS
<1> HIDE DEF a
<1>3. VisitsInv'
  BY <1>1, <1>2, AnswerJoins DEF VisitsInv
<1> QED
  BY <1>1, <1>3, NextIsFresh DEF DiscoveryInv

LEMMA EndpointAnswersKeeps == DiscoveryInv /\ EndpointAnswers => DiscoveryInv'
<1> SUFFICES ASSUME DiscoveryInv, EndpointAnswers PROVE DiscoveryInv'
  OBVIOUS
<1> DEFINE a == [ok |-> TRUE, targets |-> Reported]
<1>1. /\ answers' = Append(answers, a) /\ lastErr' = lastErr /\ kind' = kind
      /\ More /\ NextListing /\ VisitsInv
  BY DEF EndpointAnswers, DiscoveryInv
<1>2. a \in [ok : BOOLEAN, targets : SUBSET (Nat \X Names)] /\ a.ok
  BY ReportedType DEF DiscoveryInv, ListingInv
<1> HIDE DEF a
<1>3. VisitsInv'
  BY <1>1, <1>2, AnswerJoins DEF VisitsInv
<1> QED
  BY <1>1, <1>3, NextIsFresh DEF DiscoveryInv

LEMMA NothingMoves == DiscoveryInv /\ UNCHANGED vars /\ UNCHANGED <<kind, answers, lastErr>> => DiscoveryInv'
BY DEF DiscoveryInv, ListingInv, VisitsInv, vars, broker, TypeOK, NoneTwice, NoneMissed,
       Progress, FailuresAreRetried, Before, Position

THEOREM DiscoveryInvHolds == DiscoverySpec => []DiscoveryInv
<1>1. DiscoveryInv /\ [DiscoveryNext]_<<vars, discovery>> => DiscoveryInv'
  BY ListingKeeps, EndpointFailsKeeps, EndpointAnswersKeeps, NothingMoves
     DEF DiscoveryNext, Conclude, Concluded, discovery
<1> QED
  BY <1>1, FirstListing, PTL DEF DiscoverySpec

-----------------------------------------------------------------------------
(* Theorems.                                                               *)

\* A listing keeps its types, at every endpoint of every discovery.
THEOREM TypeCorrect == DiscoverySpec => []TypeOK
BY DiscoveryInvHolds, PTL DEF DiscoveryInv, ListingInv

\* ListAllExchanges and the loop over the queues find whatever exists throughout, when
\* nothing is deleted meanwhile: a new name moves others back, never to a page behind.
THEOREM NothingMissed == DiscoverySpec => []NothingMissedWithoutDeletes
<1>1. DiscoveryInv => NothingMissedWithoutDeletes
  BY DEF DiscoveryInv, ListingInv, NoneMissed, NothingMissedWithoutDeletes
<1> QED
  BY <1>1, DiscoveryInvHolds, PTL

\* They find nothing twice when nothing is created meanwhile, through all retries.
THEOREM NothingTwice == DiscoverySpec => []NothingTwiceWithoutCreates
<1>1. DiscoveryInv => NothingTwiceWithoutCreates
  BY DEF DiscoveryInv, ListingInv, NoneTwice, NothingTwiceWithoutCreates
<1> QED
  BY <1>1, DiscoveryInvHolds, PTL

\* retryTransport hides up to MaxRetries failures of each page.
THEOREM RetriesHideFailures == DiscoverySpec => []FailuresAreRetried
BY DiscoveryInvHolds, PTL DEF DiscoveryInv, ListingInv

-----------------------------------------------------------------------------
(* DiscoveryRun implements Discovery.                                      *)

LEMMA PromiseInit == DiscoveryInit => Promise!Init
BY DEF DiscoveryInit, Promise!Init

LEMMA OwnershipType ==
    /\ Len(Ownership(kind)) = Endpoints
    /\ Ownership(kind) = <<>> <=> Endpoints = 0
    /\ \A i \in 1..Endpoints : Ownership(kind)[i] = {i} \X Reportable(kind)
<1>1. Ownership(kind) \in Seq({{i} \X Reportable(kind) : i \in 1..Endpoints})
  BY EndpointsAssumption DEF Ownership
<1>2. Len(Ownership(kind)) = Endpoints
  BY EndpointsAssumption DEF Ownership
<1> QED
  BY <1>1, <1>2, EndpointsAssumption DEF Ownership

\* Pages, retries and changes at the broker are nothing that the caller sees.
LEMMA ListingStutters == UNCHANGED discovery => UNCHANGED Promise!vars
BY DEF discovery, Promise!vars, Ownership, Reportable

LEMMA FailureIsPromised == DiscoveryInv /\ EndpointFails => Promise!EndpointFails
<1> SUFFICES ASSUME DiscoveryInv, EndpointFails PROVE Promise!EndpointFails
  OBVIOUS
<1>1. Len(answers) \in Nat /\ Len(answers) < Endpoints
  BY EndpointsAssumption DEF DiscoveryInv, VisitsInv, EndpointFails, More, Visited
<1> QED
  BY <1>1, OwnershipType
     DEF EndpointFails, Promise!EndpointFails, Promise!Failed, Ownership, Reportable

\* What a handler reports belongs to the endpoint that it asked.
LEMMA AnswerIsPromised == DiscoveryInv /\ EndpointAnswers => Promise!EndpointAnswers
<1> SUFFICES ASSUME DiscoveryInv, EndpointAnswers PROVE Promise!EndpointAnswers
  OBVIOUS
<1>1. Len(answers) \in Nat /\ Len(answers) < Endpoints /\ Len(answers) + 1 \in 1..Endpoints
  BY EndpointsAssumption DEF DiscoveryInv, VisitsInv, EndpointAnswers, More, Visited
<1>2. Reported \in SUBSET Ownership(kind)[Len(answers) + 1]
  BY <1>1, OwnershipType DEF Reported, Visited
<1>3. /\ answers' = Append(answers, Promise!Brought(Reported))
      /\ targets' = targets \cup Reported
      /\ UNCHANGED <<Ownership(kind), result>>
  BY DEF EndpointAnswers, Promise!Brought, Ownership, Reportable
<1> QED
  BY <1>1, <1>2, <1>3, OwnershipType DEF Promise!EndpointAnswers

LEMMA ConclusionIsPromised == DiscoveryInv /\ Conclude => Promise!Conclude
<1> SUFFICES ASSUME DiscoveryInv, Conclude PROVE Promise!Conclude
  OBVIOUS
<1>1. Len(answers) \in Nat /\ Len(answers) = Endpoints
  BY EndpointsAssumption DEF DiscoveryInv, VisitsInv, Conclude, More, Visited
<1>2. lastErr <=> Promise!SomeFailed
  BY DEF DiscoveryInv, VisitsInv, Promise!SomeFailed
<1> QED
  BY <1>1, <1>2, OwnershipType DEF Conclude, Promise!Conclude, Ownership, Reportable

\* FetchTargetPerClient with its listings does what Discovery promises: each endpoint is
\* asked in order, what any of them has brought is reported, whichever fail, and only
\* a discovery with nothing to report and a failure is an error.
THEOREM Implementation == DiscoverySpec => ImplementsDiscovery
<1>1. DiscoveryInv /\ [DiscoveryNext]_<<vars, discovery>> => [Promise!Next]_(Promise!vars)
  <2> SUFFICES ASSUME DiscoveryInv, [DiscoveryNext]_<<vars, discovery>>
               PROVE  [Promise!Next]_(Promise!vars)
    OBVIOUS
  <2>1. CASE Listing
    BY <2>1, ListingStutters DEF Listing
  <2>2. CASE EndpointFails
    BY <2>2, FailureIsPromised DEF Promise!Next
  <2>3. CASE EndpointAnswers
    BY <2>3, AnswerIsPromised DEF Promise!Next
  <2>4. CASE Conclude
    BY <2>4, ConclusionIsPromised DEF Promise!Next
  <2>5. CASE Concluded
    BY <2>5, ListingStutters DEF Concluded
  <2>6. CASE UNCHANGED <<vars, discovery>>
    BY <2>6, ListingStutters
  <2> QED
    BY <2>1, <2>2, <2>3, <2>4, <2>5, <2>6 DEF DiscoveryNext
<1> QED
  BY <1>1, PromiseInit, DiscoveryInvHolds, PTL
     DEF DiscoverySpec, ImplementsDiscovery, Promise!Spec
=============================================================================
