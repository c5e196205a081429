------------------------ MODULE EntityManagerProofs ------------------------
(***************************************************************************)
(* The tables that blocks of ManageEntity transactions leave, for any      *)
(* transactions, users, tracks and lengths of a block: one current version *)
(* of each key, one route for each slug of an owner, remixes as the tracks *)
(* say, wallets of one user, and each item under its slug.                 *)
(*                                                                         *)
(* A batch is seen by what it would leave if it ended now: the rows of the *)
(* tables, of which those of a key made in the block give way to the last  *)
(* of that key (View).  Each handler keeps what the theorems say of the    *)
(* view and of the session, and saving makes the view the table.           *)
(***************************************************************************)
EXTENDS EntityManager, FiniteSetTheorems, WellFoundedInduction, NaturalsInduction, TLAPS

-----------------------------------------------------------------------------
(* Numbers and sequences                                                   *)
LEMMA LowestIn ==
  ASSUME NEW T \in SUBSET Nat, T # {}
  PROVE  \E n \in T : \A m \in T : n <= m
  <1>1. PICK n \in T : \A m \in T : ~(<<m, n>> \in OpToRel(<, Nat))
    BY NatLessThanWellFounded, WFMin
  <1>2. \A m \in T : n <= m
    <2> SUFFICES ASSUME NEW m \in T, m < n PROVE FALSE
      OBVIOUS
    <2>1. <<m, n>> \in OpToRel(<, Nat)
      BY DEF OpToRel
    <2> QED
      BY <1>1, <2>1
  <1> QED
    BY <1>2

LEMMA HighestIn ==
  ASSUME NEW T \in SUBSET Nat, T # {}, IsFiniteSet(T)
  PROVE  \E n \in T : \A m \in T : m <= n
  <1> DEFINE above(n) == {m \in T : n < m}
             sizes == {Cardinality(above(n)) : n \in T}
  <1>1. \A n \in T : IsFiniteSet(above(n)) /\ Cardinality(above(n)) \in Nat
    BY FS_Subset, FS_CardinalityType
  <1>2. sizes \in SUBSET Nat /\ sizes # {}
    BY <1>1
  <1>3. PICK k \in sizes : \A m \in sizes : k <= m
    BY <1>2, LowestIn
  <1>4. PICK n \in T : k = Cardinality(above(n))
    OBVIOUS
  <1>5. ASSUME NEW m \in T, n < m PROVE FALSE
    <2>1. above(m) \subseteq above(n) \ {m} /\ m \in above(n)
      <3>1. m \in Nat /\ n \in Nat
        BY <1>4
      <3>2. ASSUME NEW x \in T, m < x PROVE n < x /\ x # m
        BY <1>5, <3>1, <3>2
      <3> QED
        BY <1>5, <3>2
    <2>2. Cardinality(above(m)) <= Cardinality(above(n) \ {m})
      BY <1>1, <2>1, FS_Subset, FS_RemoveElement
    <2>3. Cardinality(above(n) \ {m}) = Cardinality(above(n)) - 1
      BY <1>1, <2>1, FS_RemoveElement
    <2>4. k <= Cardinality(above(m))
      BY <1>3
    <2> QED
      BY <1>1, <1>4, <2>2, <2>3, <2>4
  <1> QED
    BY <1>5

Elements(s) == {s[i] : i \in DOMAIN s}
IsSeq(s) == s \in Seq(Elements(s))
LEMMA SeqFacts ==
  ASSUME NEW s, IsSeq(s)
  PROVE  Len(s) \in Nat /\ DOMAIN s = 1..Len(s)
  BY DEF IsSeq

LEMMA Appended ==
  ASSUME NEW s, IsSeq(s), NEW r
  PROVE  /\ IsSeq(Append(s, r))
         /\ Len(Append(s, r)) = Len(s) + 1 /\ DOMAIN Append(s, r) = 1..(Len(s) + 1)
         /\ \A i \in 1..Len(s) : Append(s, r)[i] = s[i]
         /\ Append(s, r)[Len(s) + 1] = r
  <1> DEFINE T == Elements(s) \cup {r}
             a == Append(s, r)
  <1>1. s \in Seq(T)
    <2>1. Len(s) \in Nat /\ DOMAIN s = 1..Len(s)
      BY SeqFacts
    <2>2. s \in [1..Len(s) -> Elements(s)]
      BY DEF IsSeq
    <2> QED
      BY <2>1, <2>2 DEF IsSeq
  <1>2. a \in Seq(T) /\ Len(a) = Len(s) + 1 /\ DOMAIN a = 1..(Len(s) + 1)
    BY <1>1
  <1>3. \A i \in 1..Len(s) : a[i] = s[i]
    BY <1>1
  <1>4. a[Len(s) + 1] = r
    BY <1>1
  <1>5. Len(s) \in Nat
    BY <1>1
  <1>6. T \subseteq Elements(a)
    <2>1. \A i \in DOMAIN s : s[i] \in Elements(a)
      BY <1>1, <1>2, <1>3, <1>5 DEF Elements
    <2>2. r \in Elements(a)
      BY <1>2, <1>4, <1>5 DEF Elements
    <2> QED
      BY <2>1, <2>2 DEF Elements
  <1>7. IsSeq(a)
    BY <1>2, <1>6 DEF IsSeq, Elements
  <1> QED
    BY <1>2, <1>3, <1>4, <1>7

-----------------------------------------------------------------------------
(* The view of a batch: what its rows would leave as current versions.     *)
KeyOf(r) == <<r.type, r.key>>
MadeKeys(new) == {KeyOf(new[i]) : i \in DOMAIN new}
LastRows(new) ==
  {new[i] : i \in {i \in DOMAIN new : \A j \in DOMAIN new : j > i => KeyOf(new[j]) # KeyOf(new[i])}}
View(recs, new) == {r \in recs : KeyOf(r) \notin MadeKeys(new)} \cup LastRows(new)

LEMMA ViewOfNone ==
  ASSUME NEW recs
  PROVE  View(recs, <<>>) = recs
  BY DEF View, MadeKeys, LastRows

\* Each key keeps a row.
LEMMA KeysStay ==
  ASSUME NEW recs, NEW new, IsSeq(new), NEW x \in recs
  PROVE  \E y \in View(recs, new) : KeyOf(y) = KeyOf(x)
  <1> DEFINE T == {j \in DOMAIN new : KeyOf(new[j]) = KeyOf(x)}
  <1>1. Len(new) \in Nat /\ DOMAIN new = 1..Len(new)
    BY SeqFacts
  <1>2. CASE T = {}
    BY <1>2 DEF View, MadeKeys
  <1>3. CASE T # {}
    <2>0. IsFiniteSet(1..Len(new))
      BY <1>1, FS_Interval
    <2>1. IsFiniteSet(1..Len(new)) /\ T \subseteq 1..Len(new) /\ T \in SUBSET Nat
      BY <1>1, <2>0
    <2>2. IsFiniteSet(T)
      BY <2>1, FS_Subset
    <2>3. PICK j \in T : \A k \in T : k <= j
      BY <1>3, <2>1, <2>2, HighestIn
    <2>4. \A k \in DOMAIN new : k > j => KeyOf(new[k]) # KeyOf(new[j])
      BY <1>1, <2>3
    <2>5. new[j] \in LastRows(new)
      BY <2>3, <2>4 DEF LastRows
    <2> QED
      BY <2>3, <2>5 DEF View
  <1> QED
    BY <1>2, <1>3

LEMMA ViewUnique ==
  ASSUME NEW recs, \A r, s \in recs : KeyOf(r) = KeyOf(s) => r = s,
         NEW new, IsSeq(new)
  PROVE  \A r, s \in View(recs, new) : KeyOf(r) = KeyOf(s) => r = s
  <1>1. DOMAIN new \subseteq Int
    BY SeqFacts
  <1>2. \A r, s \in LastRows(new) : KeyOf(r) = KeyOf(s) => r = s
    <2> SUFFICES ASSUME NEW r \in LastRows(new), NEW s \in LastRows(new), KeyOf(r) = KeyOf(s)
        PROVE r = s
      OBVIOUS
    <2>1. PICK i \in DOMAIN new : r = new[i] /\ \A j \in DOMAIN new : j > i => KeyOf(new[j]) # KeyOf(new[i])
      BY DEF LastRows
    <2>2. PICK k \in DOMAIN new : s = new[k] /\ \A j \in DOMAIN new : j > k => KeyOf(new[j]) # KeyOf(new[k])
      BY DEF LastRows
    <2> QED
      BY <1>1, <2>1, <2>2
  <1>3. \A r \in LastRows(new) : KeyOf(r) \in MadeKeys(new)
    BY DEF LastRows, MadeKeys
  <1> QED
    BY <1>2, <1>3 DEF View

Replaced(W, r) == {x \in W : KeyOf(x) # KeyOf(r)} \cup {r}
\* A row that is made takes the place of those of its key.
LEMMA ViewAppend ==
  ASSUME NEW recs, NEW new, IsSeq(new), NEW r
  PROVE  View(recs, Append(new, r)) = Replaced(View(recs, new), r)
  <1> DEFINE a == Append(new, r)
             n == Len(new)
  <1>1. /\ n \in Nat /\ DOMAIN new = 1..n
        /\ IsSeq(a) /\ DOMAIN a = 1..(n + 1) /\ \A i \in 1..n : a[i] = new[i]
        /\ a[n + 1] = r
    BY SeqFacts, Appended
  <1> HIDE DEF a, n
  <1>2. MadeKeys(a) = MadeKeys(new) \cup {KeyOf(r)}
    <2>1. \A i \in DOMAIN a : KeyOf(a[i]) \in MadeKeys(new) \cup {KeyOf(r)}
      BY <1>1 DEF MadeKeys
    <2>2. \A i \in DOMAIN new : KeyOf(new[i]) \in MadeKeys(a)
      BY <1>1 DEF MadeKeys
    <2>3. KeyOf(r) \in MadeKeys(a)
      BY <1>1 DEF MadeKeys
    <2> QED
      BY <2>1, <2>2, <2>3 DEF MadeKeys
  <1>3. LastRows(a) = {x \in LastRows(new) : KeyOf(x) # KeyOf(r)} \cup {r}
    <2>1. ASSUME NEW i \in DOMAIN a, \A j \in DOMAIN a : j > i => KeyOf(a[j]) # KeyOf(a[i])
          PROVE  a[i] = r \/ (a[i] \in LastRows(new) /\ KeyOf(a[i]) # KeyOf(r))
      <3>1. CASE i = n + 1
        BY <1>1, <3>1
      <3>2. CASE i # n + 1
        <4>1. i \in 1..n /\ n + 1 > i /\ n + 1 \in DOMAIN a
          BY <1>1, <3>2
        <4>2. KeyOf(r) # KeyOf(a[i])
          BY <1>1, <2>1, <4>1
        <4>3. \A j \in DOMAIN new : j > i => KeyOf(new[j]) # KeyOf(new[i])
          BY <1>1, <2>1, <4>1
        <4> QED
          BY <1>1, <4>1, <4>2, <4>3 DEF LastRows
      <3> QED
        BY <3>1, <3>2
    <2>2. ASSUME NEW i \in DOMAIN new, \A j \in DOMAIN new : j > i => KeyOf(new[j]) # KeyOf(new[i]),
                 KeyOf(new[i]) # KeyOf(r)
          PROVE  new[i] \in LastRows(a)
      <3>1. i \in DOMAIN a /\ a[i] = new[i]
        BY <1>1
      <3>2. \A j \in DOMAIN a : j > i => KeyOf(a[j]) # KeyOf(a[i])
        BY <1>1, <2>2, <3>1
      <3> QED
        BY <3>1, <3>2 DEF LastRows
    <2>3. r \in LastRows(a)
      <3>1. n + 1 \in DOMAIN a /\ \A j \in DOMAIN a : ~(j > n + 1)
        BY <1>1
      <3> QED
        BY <1>1, <3>1 DEF LastRows
    <2>4. \A x \in LastRows(a) : x = r \/ (x \in LastRows(new) /\ KeyOf(x) # KeyOf(r))
      BY <2>1 DEF LastRows
    <2>5. \A x \in LastRows(new) : KeyOf(x) # KeyOf(r) => x \in LastRows(a)
      BY <2>2 DEF LastRows
    <2> QED
      BY <2>3, <2>4, <2>5
  <1> QED
    BY <1>2, <1>3 DEF View, Replaced, a

CONSTANT Words  \* what titles are made of
Titles == Seq(Words) \ {<<>>}

-----------------------------------------------------------------------------
(* The rows of a batch.  K are the keys whose rows were fetched.           *)
Tracked == {"Track", "Playlist"}
IsRow(r) ==
  /\ DOMAIN r = {"type", "key", "del", "a"} /\ r.del \in BOOLEAN
  /\ DOMAIN r.a = DOMAIN Blank
  /\ r.type \in Tracked => r.key = <<r.key[1]>>
FetchedRows(S, d, K) ==
  /\ \A x \in S.ex : IsRow(x) /\ KeyOf(x) \in K /\ (x \in d.recs \/ KeyOf(x) \in MadeKeys(S.new))
  /\ \A x \in d.recs : IsRow(x) /\ (KeyOf(x) \in K => \E y \in S.ex : KeyOf(y) = KeyOf(x))
MadeRows(S, K) ==
  /\ IsSeq(S.new)
  /\ \A r \in Elements(S.new) :
       IsRow(r) /\ KeyOf(r) \in K /\ \E x \in S.ex : KeyOf(x) = KeyOf(r)
BatchTyped(S, d, K) ==
  /\ DOMAIN S = {"ex", "new", "pending", "d"}
  /\ DOMAIN S.d = {"recs", "routes", "remixes", "wallets", "referrals"} /\ S.d.recs = d.recs
  /\ FetchedRows(S, d, K) /\ MadeRows(S, K)
CurrentRows(S) == View(S.d.recs, S.new)

LEMMA LastIsMade ==
  ASSUME NEW new, NEW x \in LastRows(new)
  PROVE  x \in Elements(new)
  BY DEF LastRows, Elements

LEMMA CurrentAreRows ==
  ASSUME NEW S, NEW d, NEW K, BatchTyped(S, d, K)
  PROVE  \A x \in CurrentRows(S) : IsRow(x)
  BY LastIsMade DEF BatchTyped, FetchedRows, MadeRows, CurrentRows, View

LEMMA ExistingIs ==
  ASSUME NEW S, NEW d, NEW K, BatchTyped(S, d, K), NEW t, NEW k, Exists(S, t, k)
  PROVE  /\ Existing(S, t, k) \in S.ex /\ IsRow(Existing(S, t, k))
         /\ Existing(S, t, k).type = t /\ Existing(S, t, k).key = k
         /\ KeyOf(Existing(S, t, k)) \in K
  <1>1. \E r \in S.ex : r.type = t /\ r.key = k
    BY DEF Exists
  <1>2. Existing(S, t, k) \in S.ex /\ Existing(S, t, k).type = t /\ Existing(S, t, k).key = k
    BY <1>1 DEF Existing
  <1> QED
    BY <1>2 DEF BatchTyped, FetchedRows, KeyOf

\* The version that is copied is the one that will be current.
LEMMA LatestIsCurrent ==
  ASSUME NEW S, NEW d, NEW K, BatchTyped(S, d, K), NEW t, NEW k, Exists(S, t, k)
  PROVE  /\ LatestCopy(S, t, k) \in CurrentRows(S) /\ IsRow(LatestCopy(S, t, k))
         /\ LatestCopy(S, t, k).type = t /\ LatestCopy(S, t, k).key = k
  <1> DEFINE made == {i \in DOMAIN S.new : S.new[i].type = t /\ S.new[i].key = k}
             r == LatestCopy(S, t, k)
  <1>1. CASE made = {}
    <2>1. r = Existing(S, t, k)
      BY <1>1 DEF LatestCopy
    <2> HIDE DEF r, made
    <2>2. r \in S.ex /\ r.type = t /\ r.key = k
      <3>1. /\ Existing(S, t, k) \in S.ex
            /\ Existing(S, t, k).type = t /\ Existing(S, t, k).key = k
        BY ExistingIs
      <3> QED
        BY <2>1, <3>1
    <2> USE DEF r, made
    <2>3. KeyOf(r) \notin MadeKeys(S.new)
      BY <1>1, <2>2 DEF MadeKeys, KeyOf
    <2>4. r \in S.d.recs
      BY <2>2, <2>3 DEF BatchTyped, FetchedRows
    <2>5. r \in CurrentRows(S)
      BY <2>3, <2>4 DEF CurrentRows, View
    <2> QED
      BY <2>2, <2>5, CurrentAreRows
  <1>2. CASE made # {}
    <2>1. IsSeq(S.new) /\ Len(S.new) \in Nat /\ DOMAIN S.new = 1..Len(S.new)
      BY SeqFacts DEF BatchTyped, MadeRows
    <2>2. \E i \in made : \A j \in made : j <= i
      <3>1. made \in SUBSET Nat /\ IsFiniteSet(1..Len(S.new)) /\ made \subseteq 1..Len(S.new)
        BY <2>1, FS_Interval
      <3>2. IsFiniteSet(made)
        BY <3>1, FS_Subset
      <3> QED
        BY <1>2, <3>1, <3>2, HighestIn
    <2>3. r = S.new[CHOOSE i \in made : \A j \in made : j <= i]
      BY <1>2 DEF LatestCopy
    <2> HIDE DEF r
    <2>4. PICK i \in made : r = S.new[i] /\ \A j \in made : j <= i
      BY <2>2, <2>3
    <2>5. i \in DOMAIN S.new /\ r.type = t /\ r.key = k
      BY <2>4
    <2>6. \A j \in DOMAIN S.new : j > i => KeyOf(S.new[j]) # KeyOf(S.new[i])
      BY <2>1, <2>4 DEF KeyOf
    <2>7. r \in CurrentRows(S)
      BY <2>4, <2>5, <2>6 DEF CurrentRows, View, LastRows
    <2> QED
      BY <2>5, <2>7, CurrentAreRows DEF r
  <1> QED
    BY <1>1, <1>2

LEMMA NotThere ==
  ASSUME NEW S, NEW d, NEW K, BatchTyped(S, d, K), NEW t, NEW k, <<t, k>> \in K, ~Exists(S, t, k)
  PROVE  \A x \in CurrentRows(S) : ~(x.type = t /\ x.key = k)
  <1>1. \A y \in S.ex : KeyOf(y) # <<t, k>>
    BY DEF Exists, KeyOf
  <1> SUFFICES ASSUME NEW x \in CurrentRows(S), x.type = t, x.key = k PROVE FALSE
    OBVIOUS
  <1>2. KeyOf(x) = <<t, k>>
    BY DEF KeyOf
  <1>3. x \in d.recs \/ x \in Elements(S.new)
    BY LastIsMade DEF CurrentRows, View, BatchTyped
  <1>4. \E y \in S.ex : KeyOf(y) = KeyOf(x)
    BY <1>2, <1>3 DEF BatchTyped, FetchedRows, MadeRows
  <1> QED
    BY <1>1, <1>2, <1>4

\* Steps on the other tables leave the rows alone.
LEMMA SameRows ==
  ASSUME NEW S, NEW d, NEW K, BatchTyped(S, d, K), NEW T,
         DOMAIN T = DOMAIN S, T.ex = S.ex, T.new = S.new,
         DOMAIN T.d = DOMAIN S.d, T.d.recs = S.d.recs
  PROVE  BatchTyped(T, d, K) /\ CurrentRows(T) = CurrentRows(S)
  BY DEF BatchTyped, FetchedRows, MadeRows, CurrentRows

LEMMA RowMade ==
  ASSUME NEW S, NEW d, NEW K, BatchTyped(S, d, K), NEW r, IsRow(r), KeyOf(r) \in K,
         NEW T, DOMAIN T = DOMAIN S, T.d = S.d, T.new = Append(S.new, r),
         \A y \in T.ex : y \in S.ex \/ y = r,
         \A y \in S.ex : y \in T.ex \/ KeyOf(y) = KeyOf(r),
         \E y \in T.ex : KeyOf(y) = KeyOf(r)
  PROVE  BatchTyped(T, d, K) /\ CurrentRows(T) = Replaced(CurrentRows(S), r)
  <1>1. IsSeq(S.new) /\ DOMAIN S.new = 1..Len(S.new) /\ Len(S.new) \in Nat
    BY SeqFacts DEF BatchTyped, MadeRows
  <1>2. /\ IsSeq(T.new) /\ DOMAIN T.new = 1..(Len(S.new) + 1)
        /\ \A i \in 1..Len(S.new) : T.new[i] = S.new[i]
        /\ T.new[Len(S.new) + 1] = r
    BY <1>1, Appended
  <1>3. \A x \in Elements(T.new) : x \in Elements(S.new) \/ x = r
    BY <1>1, <1>2 DEF Elements
  <1>4. MadeKeys(T.new) = MadeKeys(S.new) \cup {KeyOf(r)}
    <2>1. \A i \in DOMAIN S.new : i \in DOMAIN T.new /\ T.new[i] = S.new[i]
      BY <1>1, <1>2
    <2>2. \A i \in DOMAIN T.new : (i \in DOMAIN S.new /\ T.new[i] = S.new[i]) \/ T.new[i] = r
      BY <1>1, <1>2
    <2>3. Len(S.new) + 1 \in DOMAIN T.new
      BY <1>1, <1>2
    <2> QED
      BY <1>2, <2>1, <2>2, <2>3 DEF MadeKeys
  <1>5. CurrentRows(T) = Replaced(CurrentRows(S), r)
    <2>1. View(S.d.recs, Append(S.new, r)) = Replaced(View(S.d.recs, S.new), r)
      BY <1>1, ViewAppend
    <2> QED
      BY <2>1 DEF CurrentRows
  <1>6. \A y \in S.ex : \E z \in T.ex : KeyOf(z) = KeyOf(y)
    OBVIOUS
  <1>7. MadeRows(T, K)
    <2> SUFFICES ASSUME NEW x \in Elements(T.new)
        PROVE IsRow(x) /\ KeyOf(x) \in K /\ \E y \in T.ex : KeyOf(y) = KeyOf(x)
      BY <1>2 DEF MadeRows
    <2>1. CASE x = r
      BY <2>1
    <2>2. CASE x \in Elements(S.new)
      <3>1. IsRow(x) /\ KeyOf(x) \in K /\ \E y \in S.ex : KeyOf(y) = KeyOf(x)
        BY <2>2 DEF BatchTyped, MadeRows
      <3> QED
        BY <1>6, <3>1
    <2> QED
      BY <1>3, <2>1, <2>2
  <1>8. FetchedRows(T, d, K)
    <2>1. ASSUME NEW x \in T.ex
          PROVE  IsRow(x) /\ KeyOf(x) \in K /\ (x \in d.recs \/ KeyOf(x) \in MadeKeys(T.new))
      BY <1>4 DEF BatchTyped, FetchedRows
    <2>2. ASSUME NEW x \in d.recs
          PROVE  IsRow(x) /\ (KeyOf(x) \in K => \E y \in T.ex : KeyOf(y) = KeyOf(x))
      <3>1. IsRow(x) /\ (KeyOf(x) \in K => \E y \in S.ex : KeyOf(y) = KeyOf(x))
        BY DEF BatchTyped, FetchedRows
      <3> QED
        BY <1>6, <3>1
    <2> QED
      BY <2>1, <2>2 DEF FetchedRows
  <1> QED
    BY <1>5, <1>7, <1>8 DEF BatchTyped

LEMMA RecordAdded ==
  ASSUME NEW S, NEW d, NEW K, BatchTyped(S, d, K), NEW r, IsRow(r), KeyOf(r) \in K
  PROVE  /\ BatchTyped(AddRecord(S, r), d, K)
         /\ AddRecord(S, r).d = S.d
         /\ CurrentRows(AddRecord(S, r)) = Replaced(CurrentRows(S), r)
  <1> DEFINE T == AddRecord(S, r)
             U == AddOnlyNew(S, r)
  <1>1. DOMAIN S = {"ex", "new", "pending", "d"}
    BY DEF BatchTyped
  <1>2. DOMAIN U = DOMAIN S /\ U.d = S.d /\ U.ex = S.ex /\ U.new = Append(S.new, r)
    BY <1>1 DEF AddOnlyNew
  <1>3. T = [U EXCEPT !.ex = {x \in U.ex : x.type # r.type \/ x.key # r.key} \cup {r}]
    BY DEF AddRecord
  <1> HIDE DEF T, U
  <1>4. DOMAIN T = DOMAIN S /\ T.d = S.d /\ T.new = Append(S.new, r)
    BY <1>1, <1>2, <1>3
  <1>5. T.ex = {x \in S.ex : x.type # r.type \/ x.key # r.key} \cup {r}
    BY <1>1, <1>2, <1>3
  <1>6. \A y \in S.ex : y \in T.ex \/ KeyOf(y) = KeyOf(r)
    BY <1>5 DEF KeyOf
  <1>7. /\ \A y \in T.ex : y \in S.ex \/ y = r
        /\ \E y \in T.ex : KeyOf(y) = KeyOf(r)
    BY <1>5
  <1>8. BatchTyped(T, d, K) /\ CurrentRows(T) = Replaced(CurrentRows(S), r)
    BY <1>4, <1>6, <1>7, RowMade
  <1> QED
    BY <1>4, <1>8 DEF T

LEMMA OnlyNewAdded ==
  ASSUME NEW S, NEW d, NEW K, BatchTyped(S, d, K), NEW r, IsRow(r), Exists(S, r.type, r.key)
  PROVE  /\ BatchTyped(AddOnlyNew(S, r), d, K)
         /\ AddOnlyNew(S, r).d = S.d
         /\ CurrentRows(AddOnlyNew(S, r)) = Replaced(CurrentRows(S), r)
  <1> DEFINE U == AddOnlyNew(S, r)
  <1>1. DOMAIN S = {"ex", "new", "pending", "d"}
    BY DEF BatchTyped
  <1>2. DOMAIN U = DOMAIN S /\ U.d = S.d /\ U.ex = S.ex /\ U.new = Append(S.new, r)
    BY <1>1 DEF AddOnlyNew
  <1>3. \E y \in U.ex : KeyOf(y) = KeyOf(r)
    BY <1>2 DEF Exists, KeyOf
  <1>4. KeyOf(r) \in K
    <2> DEFINE x == Existing(S, r.type, r.key)
    <2>1. x.type = r.type /\ x.key = r.key /\ KeyOf(x) \in K
      BY ExistingIs
    <2> QED
      BY <2>1 DEF KeyOf
  <1> HIDE DEF U
  <1>5. BatchTyped(U, d, K) /\ CurrentRows(U) = Replaced(CurrentRows(S), r)
    BY <1>2, <1>3, <1>4, RowMade
  <1> QED
    BY <1>2, <1>5 DEF U

-----------------------------------------------------------------------------
(* Routes                                                                  *)
IsRoute(x) ==
  /\ DOMAIN x = {"model", "owner", "id", "title", "cid", "current"}
  /\ x.title \in Titles /\ x.cid \in Nat /\ x.current \in BOOLEAN
RoutesTyped(R) == IsFiniteSet(R) /\ \A x \in R : IsRoute(x)
Slugs(R) == \A r, s \in R :
  r.model = s.model /\ r.owner = s.owner /\ RouteSlug(r) = RouteSlug(s) => r = s
\* Routes R of which those of one owner and model are mine.
Mine(R, model, owner) == {r \in R : r.model = model /\ r.owner = owner}

LEMMA SlugLengths ==
  ASSUME NEW title \in Titles, NEW n \in Nat
  PROVE  /\ Slug(title, n) \in Seq(Words \cup Nat)
         /\ Len(Slug(title, n)) = IF n = 0 THEN Len(title) ELSE Len(title) + 1
         /\ Len(title) \in Nat \ {0}
  <1>1. title \in Seq(Words \cup Nat) /\ Len(title) \in Nat
    BY DEF Titles
  <1>2. Len(title) # 0
    BY DEF Titles
  <1>3. CASE n = 0
    BY <1>1, <1>2, <1>3 DEF Slug
  <1>4. CASE n # 0
    BY <1>1, <1>2, <1>4 DEF Slug
  <1> QED
    BY <1>3, <1>4

LEMMA SlugsDiffer ==
  ASSUME NEW title \in Titles, NEW m \in Nat \ {0}, NEW n \in Nat \ {0}, Slug(title, m) = Slug(title, n)
  PROVE  m = n
  <1>1. title \in Seq(Words \cup Nat)
    BY DEF Titles
  <1>2. Slug(title, m)[Len(title) + 1] = m
    BY <1>1 DEF Slug
  <1>3. Slug(title, n)[Len(title) + 1] = n
    BY <1>1 DEF Slug
  <1> QED
    BY <1>2, <1>3

LEMMA MaxCidIs ==
  ASSUME NEW R, IsFiniteSet(R), R # {}, \A r \in R : r.cid \in Nat
  PROVE  MaxCid(R) \in Nat
  <1> DEFINE N == {r.cid : r \in R}
  <1>1. N \in SUBSET Nat /\ N # {}
    OBVIOUS
  <1>2. IsFiniteSet(N)
    <2> DEFINE f == [r \in R |-> r.cid]
    <2>1. f \in Surjection(R, N)
      BY DEF Surjection
    <2> QED
      BY <2>1, FS_Surjection
  <1>4. PICK k \in N : \A n \in N : n <= k
    BY <1>1, <1>2, HighestIn
  <1>5. k \in {r.cid : r \in R} /\ \A r \in R : r.cid <= k
    BY <1>4
  <1> QED
    BY <1>5 DEF MaxCid

\* Among more numbers than there are routes, one is free.
LEMMA SomeNumberIsFree ==
  ASSUME NEW R, IsFiniteSet(R), NEW title \in Titles, NEW b \in Nat
  PROVE  \E n \in (b + 1)..(b + Cardinality(R) + 1) :
           /\ \A r \in R : RouteSlug(r) # Slug(title, n)
           /\ \A m \in (b + 1)..(n - 1) : \E r \in R : RouteSlug(r) = Slug(title, m)
  <1> DEFINE c == Cardinality(R)
             I == (b + 1)..(b + c + 1)
             Free == {n \in I : \A r \in R : RouteSlug(r) # Slug(title, n)}
  <1>1. c \in Nat
    BY FS_CardinalityType
  <1> HIDE DEF c
  <1>2. Free # {}
    <2> SUFFICES ASSUME Free = {} PROVE FALSE
      OBVIOUS
    <2> DEFINE f == [n \in I |-> CHOOSE r \in R : RouteSlug(r) = Slug(title, n)]
    <2>1. \A n \in I : \E r \in R : RouteSlug(r) = Slug(title, n)
      OBVIOUS
    <2>2. \A n \in I : f[n] \in R /\ RouteSlug(f[n]) = Slug(title, n)
      BY <2>1
    <2>3. \A n \in I : n \in Nat \ {0}
      BY <1>1
    <2>4. \A m, n \in I : f[m] = f[n] => m = n
      BY <2>2, <2>3, SlugsDiffer
    <2>5. f \in Injection(I, R)
      <3>1. f \in [I -> R]
        BY <2>2
      <3> QED
        BY <2>4, <3>1 DEF Injection, IsInjective
    <2>6. Cardinality(I) <= c
      BY <2>5, FS_Injection DEF c
    <2>7. Cardinality(I) = c + 1
      BY <1>1, FS_Interval
    <2> QED
      BY <1>1, <2>6, <2>7
  <1>3. Free \in SUBSET Nat
    BY <1>1
  <1>4. PICK n \in Free : \A m \in Free : n <= m
    BY <1>2, <1>3, LowestIn
  <1>5. \A m \in (b + 1)..(n - 1) : \E r \in R : RouteSlug(r) = Slug(title, m)
    <2> SUFFICES ASSUME NEW m \in (b + 1)..(n - 1),
                        ~ \E r \in R : RouteSlug(r) = Slug(title, m)
        PROVE FALSE
      OBVIOUS
    <2>1. m \in I /\ m < n
      BY <1>1
    <2>2. m \in Free
      BY <2>1
    <2> QED
      BY <1>3, <1>4, <2>1, <2>2
  <1> QED
    BY <1>4, <1>5 DEF c

\* generate_slug_and_collision_id: no route of the owner has the slug.
LEMMA CollisionFree ==
  ASSUME NEW S, RoutesTyped(S.d.routes), NEW model, NEW owner, NEW title \in Titles
  PROVE  LET n == GenerateCollisionId(S, model, owner, title)
         IN  /\ n \in Nat
             /\ \A r \in Mine(S.d.routes, model, owner) : RouteSlug(r) # Slug(title, n)
  <1> DEFINE mine == {r \in S.d.routes : r.model = model /\ r.owner = owner}
             same(R) == {r \in R : r.title = title}
             known == IF same(mine \cap S.pending) # {}
                      THEN same(mine \cap S.pending) ELSE same(mine)
             base == IF known = {} THEN 0 ELSE MaxCid(known)
             taken(n) == \E r \in mine : RouteSlug(r) = Slug(title, n)
             zero == known = {} /\ ~(EndsInDigit(title) /\ taken(0))
             found == CHOOSE n \in (base + 1)..(base + Cardinality(mine) + 1) :
                        ~taken(n) /\ \A m \in (base + 1)..(n - 1) : taken(m)
             n0 == GenerateCollisionId(S, model, owner, title)
  <1>1. n0 = IF zero THEN 0 ELSE found
    BY DEF GenerateCollisionId
  <1>2. mine = Mine(S.d.routes, model, owner)
    BY DEF Mine
  <1>3. IsFiniteSet(mine) /\ \A r \in mine : IsRoute(r)
    BY FS_Subset DEF RoutesTyped
  <1>4. CASE zero
    <2>1. n0 = 0
      BY <1>1, <1>4
    <2>2. ASSUME NEW r \in mine, RouteSlug(r) = Slug(title, 0) PROVE FALSE
      <3>1. ~EndsInDigit(title)
        BY <1>4, <2>2
      <3>2. Len(title) \in Nat \ {0} /\ Len(Slug(title, 0)) = Len(title)
        BY SlugLengths
      <3>3. Len(title) = 1
        BY <3>1, <3>2 DEF EndsInDigit
      <3>4. r.title \in Titles /\ r.cid \in Nat
        BY <1>3 DEF IsRoute
      <3>5. CASE r.cid = 0
        <4>1. r.title = title
          BY <2>2, <3>5 DEF RouteSlug, Slug
        <4>2. r \in same(mine)
          BY <4>1
        <4> QED
          BY <1>4, <4>2
      <3>6. CASE r.cid # 0
        <4>1. Len(Slug(r.title, r.cid)) = Len(r.title) + 1 /\ Len(r.title) \in Nat \ {0}
          BY <3>4, <3>6, SlugLengths
        <4>2. Len(RouteSlug(r)) = Len(Slug(title, 0))
          BY <2>2
        <4>3. Len(RouteSlug(r)) = Len(r.title) + 1
          BY <4>1 DEF RouteSlug
        <4> DEFINE a == Len(Slug(title, 0))
                   b == Len(r.title)
                   c == Len(RouteSlug(r))
        <4>4. a = 1 /\ b \in Nat \ {0} /\ c = a /\ c = b + 1
          BY <3>2, <3>3, <4>1, <4>2, <4>3
        <4> HIDE DEF a, b, c
        <4> QED
          BY <4>4
      <3> QED
        BY <3>5, <3>6
    <2> QED
      BY <1>2, <2>1, <2>2
  <1>5. CASE ~zero
    <2>1. n0 = found
      BY <1>1, <1>5
    <2>2. base \in Nat
      <3>1. CASE known = {}
        BY <3>1
      <3>2. CASE known # {}
        <4>1. known \subseteq mine
          OBVIOUS
        <4>2. IsFiniteSet(known)
          BY <1>3, <4>1, FS_Subset
        <4>3. \A r \in known : r.cid \in Nat
          BY <1>3, <4>1 DEF IsRoute
        <4>4. MaxCid(known) \in Nat
          BY <3>2, <4>2, <4>3, MaxCidIs
        <4> QED
          BY <3>2, <4>4
      <3> QED
        BY <3>1, <3>2
    <2> HIDE DEF mine, base
    <2>3. \E n \in (base + 1)..(base + Cardinality(mine) + 1) :
            /\ \A r \in mine : RouteSlug(r) # Slug(title, n)
            /\ \A m \in (base + 1)..(n - 1) : \E r \in mine : RouteSlug(r) = Slug(title, m)
      BY <1>3, <2>2, SomeNumberIsFree
    <2>4. \E n \in (base + 1)..(base + Cardinality(mine) + 1) :
            ~taken(n) /\ \A m \in (base + 1)..(n - 1) : taken(m)
      BY <2>3
    <2>5. found \in (base + 1)..(base + Cardinality(mine) + 1) /\ ~taken(found)
      BY <2>4
    <2>6. Cardinality(mine) \in Nat
      BY <1>3, FS_CardinalityType
    <2>7. found \in Nat
      BY <2>2, <2>5, <2>6
    <2> QED
      BY <1>2, <2>1, <2>5, <2>7
  <1> QED
    BY <1>4, <1>5

-----------------------------------------------------------------------------
(* A new route of an item                                                  *)
Routes(R, t, id) == {x \in R : x.model = t /\ x.id = id}
\* Q is R with one current route of the item, of that title.
Moved(R, Q, t, id, title) ==
  /\ \A x \in R : ~(x.model = t /\ x.id = id) => x \in Q
  /\ \A x \in Q : ~(x.model = t /\ x.id = id) => x \in R
  /\ \E x \in Q :
       /\ x.model = t /\ x.id = id /\ x.current /\ x.title = title
       /\ \A y \in Q : y.model = t /\ y.id = id /\ y.current => y = x

OldRoute(r) == [r EXCEPT !.current = FALSE]
LEMMA OldRouteIs ==
  ASSUME NEW r, IsRoute(r)
  PROVE  /\ IsRoute(OldRoute(r)) /\ OldRoute(r).model = r.model /\ OldRoute(r).owner = r.owner
         /\ OldRoute(r).id = r.id /\ OldRoute(r).title = r.title /\ OldRoute(r).cid = r.cid
         /\ OldRoute(r).current = FALSE
  BY DEF IsRoute, OldRoute

NewRoute(S, model, id, owner, title) ==
  [model |-> model, owner |-> owner, id |-> id, title |-> title,
   cid |-> GenerateCollisionId(S, model, owner, title), current |-> TRUE]
CurrentRoutes(R, t, id) == {r \in R : r.model = t /\ r.id = id /\ r.current}

\* What UpdateRoute does to the routes.
RoutesAfter(S, model, id, owner, title) ==
  LET R == S.d.routes
      prev == CurrentRoutes(R, model, id)
  IN IF \E r \in prev : r.title = title THEN R
     ELSE (R \ prev) \cup {OldRoute(r) : r \in prev} \cup {NewRoute(S, model, id, owner, title)}

LEMMA RouteUpdated ==
  ASSUME NEW S, NEW d, NEW K, BatchTyped(S, d, K), NEW model, NEW id, NEW owner, NEW title
  PROVE  LET T == UpdateRoute(S, model, id, owner, title)
         IN  /\ BatchTyped(T, d, K) /\ CurrentRows(T) = CurrentRows(S)
             /\ DOMAIN T.d = DOMAIN S.d /\ T.d.remixes = S.d.remixes /\ T.d.wallets = S.d.wallets
             /\ T.d.routes = RoutesAfter(S, model, id, owner, title)
             /\ T.ex = S.ex /\ T.new = S.new
  <1> DEFINE T == UpdateRoute(S, model, id, owner, title)
             prev == {r \in S.d.routes : r.model = model /\ r.id = id /\ r.current}
             old(r) == [r EXCEPT !.current = FALSE]
             new == NewRoute(S, model, id, owner, title)
             Q == (S.d.routes \ prev) \cup {old(r) : r \in prev} \cup {new}
             P == (S.pending \ prev) \cup {old(r) : r \in prev \cap S.pending} \cup {new}
  <1>1. T = IF \E r \in prev : r.title = title THEN S
            ELSE [S EXCEPT
                   !.d.routes = (@ \ prev) \cup {old(r) : r \in prev} \cup {new},
                   !.pending = (@ \ prev) \cup {old(r) : r \in prev \cap @} \cup {new}]
    BY DEF UpdateRoute, NewRoute
  <1>2. /\ DOMAIN S = {"ex", "new", "pending", "d"}
        /\ DOMAIN S.d = {"recs", "routes", "remixes", "wallets", "referrals"}
    BY DEF BatchTyped
  <1>3. prev = CurrentRoutes(S.d.routes, model, id)
    BY DEF CurrentRoutes
  <1>4. {old(r) : r \in prev} = {OldRoute(r) : r \in prev}
    BY DEF OldRoute
  <1>5. CASE \E r \in prev : r.title = title
    <2>1. T = S /\ RoutesAfter(S, model, id, owner, title) = S.d.routes
      BY <1>1, <1>3, <1>5 DEF RoutesAfter
    <2> QED
      BY <2>1
  <1>6. CASE ~ \E r \in prev : r.title = title
    <2>1. RoutesAfter(S, model, id, owner, title) = Q
      BY <1>3, <1>4, <1>6 DEF RoutesAfter
    <2>2. T = [S EXCEPT
                !.d.routes = (@ \ prev) \cup {old(r) : r \in prev} \cup {new},
                !.pending = (@ \ prev) \cup {old(r) : r \in prev \cap @} \cup {new}]
      BY <1>1, <1>6
    <2>3. T = [S EXCEPT !.d = [S.d EXCEPT !.routes = Q], !.pending = P]
      BY <2>2
    <2> HIDE DEF T, Q, P, prev
    <2>4. DOMAIN T = DOMAIN S /\ T.ex = S.ex /\ T.new = S.new /\ T.d = [S.d EXCEPT !.routes = Q]
      BY <1>2, <2>3
    <2>5. /\ DOMAIN T.d = DOMAIN S.d /\ T.d.recs = S.d.recs /\ T.d.routes = Q
          /\ T.d.remixes = S.d.remixes /\ T.d.wallets = S.d.wallets
      BY <1>2, <2>4
    <2>6. BatchTyped(T, d, K) /\ CurrentRows(T) = CurrentRows(S)
      BY <2>4, <2>5, SameRows
    <2> QED
      BY <2>1, <2>4, <2>5, <2>6 DEF T
  <1> QED
    BY <1>5, <1>6

LEMMA RoutesAfterTyped ==
  ASSUME NEW S, RoutesTyped(S.d.routes), Slugs(S.d.routes),
         NEW model, NEW id, NEW owner, NEW title \in Titles
  PROVE  LET Q == RoutesAfter(S, model, id, owner, title)
         IN  RoutesTyped(Q) /\ Slugs(Q)
  <1> DEFINE R == S.d.routes
             prev == CurrentRoutes(R, model, id)
             olds == {OldRoute(r) : r \in prev}
             new == NewRoute(S, model, id, owner, title)
             Q == RoutesAfter(S, model, id, owner, title)
  <1>1. CASE Q = R
    BY <1>1
  <1>2. CASE Q = (R \ prev) \cup olds \cup {new}
    <2>1. new.cid \in Nat /\ \A r \in Mine(R, model, owner) : RouteSlug(r) # Slug(title, new.cid)
      BY CollisionFree DEF NewRoute
    <2>2. IsRoute(new) /\ new.model = model /\ new.owner = owner /\ RouteSlug(new) = Slug(title, new.cid)
      BY <2>1 DEF NewRoute, IsRoute, RouteSlug
    <2>3. prev \subseteq R /\ IsFiniteSet(prev)
      BY FS_Subset DEF RoutesTyped, CurrentRoutes
    <2> HIDE DEF new, prev
    <2>4. IsFiniteSet(olds)
      <3> DEFINE f == [r \in prev |-> OldRoute(r)]
      <3>1. f \in Surjection(prev, olds)
        BY DEF Surjection
      <3> QED
        BY <2>3, <3>1, FS_Surjection
    <2>5. \A x \in olds : IsRoute(x)
      BY <2>3, OldRouteIs DEF RoutesTyped
    <2> HIDE DEF olds
    <2>6. RoutesTyped(Q)
      <3>1. IsFiniteSet(R \ prev)
        BY FS_Subset DEF RoutesTyped
      <3>2. IsFiniteSet((R \ prev) \cup olds)
        BY <2>4, <3>1, FS_Union
      <3>3. IsFiniteSet(((R \ prev) \cup olds) \cup {new})
        BY <3>2, FS_AddElement
      <3>4. \A x \in Q : IsRoute(x)
        BY <1>2, <2>2, <2>5 DEF RoutesTyped
      <3> QED
        BY <1>2, <3>3, <3>4 DEF RoutesTyped
    \* The route of R that a route other than the new one was.
    <2>7. ASSUME NEW x \in Q, x # new
          PROVE  \E r \in R : /\ r.model = x.model /\ r.owner = x.owner /\ RouteSlug(r) = RouteSlug(x)
                              /\ (x = r /\ r \notin prev) \/ (r \in prev /\ x = OldRoute(r))
      <3>1. CASE x \in R \ prev
        BY <3>1
      <3>2. CASE x \in olds
        <4>1. PICK r \in prev : x = OldRoute(r)
          BY <3>2 DEF olds
        <4>2. IsRoute(r) /\ r \in R
          BY <2>3 DEF RoutesTyped
        <4>3. r.model = x.model /\ r.owner = x.owner /\ r.title = x.title /\ r.cid = x.cid
          BY <4>1, <4>2, OldRouteIs
        <4> QED
          BY <4>1, <4>2, <4>3 DEF RouteSlug
      <3> QED
        BY <1>2, <2>7, <3>1, <3>2
    <2>8. ASSUME NEW x \in Q, x.model = new.model, x.owner = new.owner, RouteSlug(x) = RouteSlug(new)
          PROVE  x = new
      <3> SUFFICES ASSUME x # new PROVE FALSE
        OBVIOUS
      <3>1. PICK r \in R : r.model = x.model /\ r.owner = x.owner /\ RouteSlug(r) = RouteSlug(x)
        BY <2>7
      <3>2. r \in Mine(R, model, owner)
        BY <2>2, <2>8, <3>1 DEF Mine
      <3> QED
        BY <2>1, <2>2, <2>8, <3>1, <3>2
    <2>9. Slugs(Q)
      <3> SUFFICES ASSUME NEW x \in Q, NEW y \in Q,
                          x.model = y.model, x.owner = y.owner, RouteSlug(x) = RouteSlug(y)
          PROVE x = y
        BY DEF Slugs
      <3>1. CASE x = new \/ y = new
        BY <2>8, <3>1
      <3>2. CASE x # new /\ y # new
        <4>1. PICK r \in R : /\ r.model = x.model /\ r.owner = x.owner /\ RouteSlug(r) = RouteSlug(x)
                             /\ (x = r /\ r \notin prev) \/ (r \in prev /\ x = OldRoute(r))
          BY <2>7, <3>2
        <4>2. PICK s \in R : /\ s.model = y.model /\ s.owner = y.owner /\ RouteSlug(s) = RouteSlug(y)
                             /\ (y = s /\ s \notin prev) \/ (s \in prev /\ y = OldRoute(s))
          BY <2>7, <3>2
        <4>3. r = s
          BY <4>1, <4>2 DEF Slugs
        <4> QED
          BY <4>1, <4>2, <4>3
      <3> QED
        BY <3>1, <3>2
    <2> QED
      BY <2>6, <2>9
  <1> QED
    BY <1>1, <1>2 DEF RoutesAfter

\* One route of the item is current before, unless it has none.
AtMostOne(R, t, id) == \A x, y \in CurrentRoutes(R, t, id) : x = y
LEMMA RoutesAfterMoved ==
  ASSUME NEW S, RoutesTyped(S.d.routes), NEW model, NEW id, NEW owner, NEW title,
         AtMostOne(S.d.routes, model, id)
  PROVE  Moved(S.d.routes, RoutesAfter(S, model, id, owner, title), model, id, title)
  <1> DEFINE R == S.d.routes
             prev == CurrentRoutes(R, model, id)
             olds == {OldRoute(r) : r \in prev}
             new == NewRoute(S, model, id, owner, title)
             Q == RoutesAfter(S, model, id, owner, title)
  <1>1. CASE \E r \in prev : r.title = title
    <2>1. Q = R
      BY <1>1 DEF RoutesAfter
    <2>2. PICK x \in prev : x.title = title
      BY <1>1
    <2>3. x \in R /\ x.model = model /\ x.id = id /\ x.current
      BY <2>2 DEF CurrentRoutes
    <2>4. ASSUME NEW y \in R, y.model = model, y.id = id, y.current PROVE y = x
      <3>1. y \in prev
        BY <2>4 DEF CurrentRoutes
      <3> QED
        BY <2>2, <3>1 DEF AtMostOne
    <2> QED
      BY <2>1, <2>2, <2>3, <2>4 DEF Moved
  <1>2. CASE ~ \E r \in prev : r.title = title
    <2>1. Q = (R \ prev) \cup olds \cup {new}
      BY <1>2 DEF RoutesAfter
    <2>2. new.model = model /\ new.id = id /\ new.current /\ new.title = title
      BY DEF NewRoute
    <2>3. \A x \in olds : x.model = model /\ x.id = id /\ x.current = FALSE
      <3> SUFFICES ASSUME NEW r \in prev
          PROVE OldRoute(r).model = model /\ OldRoute(r).id = id /\ OldRoute(r).current = FALSE
        OBVIOUS
      <3>1. IsRoute(r) /\ r.model = model /\ r.id = id
        BY DEF CurrentRoutes, RoutesTyped
      <3> QED
        BY <3>1, OldRouteIs
    <2>4. \A x \in prev : x.model = model /\ x.id = id
      BY DEF CurrentRoutes
    <2> HIDE DEF new, olds
    <2>5. ASSUME NEW y \in Q, y.model = model, y.id = id, y.current PROVE y = new
      <3>1. CASE y \in R \ prev
        BY <2>5, <3>1 DEF CurrentRoutes
      <3>2. CASE y \in olds
        BY <2>3, <2>5, <3>2
      <3> QED
        BY <2>1, <3>1, <3>2
    <2>6. /\ \A x \in R : ~(x.model = model /\ x.id = id) => x \in Q
          /\ \A x \in Q : ~(x.model = model /\ x.id = id) => x \in R
      BY <2>1, <2>2, <2>3, <2>4
    <2>7. new \in Q
      BY <2>1
    <2> QED
      BY <2>2, <2>5, <2>6, <2>7 DEF Moved
  <1> QED
    BY <1>1, <1>2

-----------------------------------------------------------------------------
(* What rows W, remixes M, wallets P and routes R say of each other.       *)
Remixed(W, M) == \A r \in W : r.type = "Track" /\ ~r.del =>
  {x \in M : x[2] = r.key[1]} = (IF r.a.remix = None THEN {} ELSE {<<r.a.remix, r.key[1]>>})
WalletsOwned(P) == \A x, y \in P : x[2] = y[2] => x = y
HasRoute(r, R) == \E x \in R :
  /\ x.model = r.type /\ x.id = r.key[1] /\ x.current /\ x.title = r.a.title
  /\ \A y \in R : y.model = r.type /\ y.id = r.key[1] /\ y.current => y = x
Located(W, R) ==
  /\ \A r \in W : r.type \in Tracked => HasRoute(r, R)
  /\ \A x \in R : x.model \in Tracked => \E r \in W : r.type = x.model /\ r.key = <<x.id>>

LEMMA SameTrack ==
  ASSUME NEW r, IsRow(r), NEW s, IsRow(s), r.type \in Tracked, r.type = s.type, r.key[1] = s.key[1]
  PROVE  KeyOf(r) = KeyOf(s)
  BY DEF IsRow, KeyOf

LEMMA RemixedOther ==
  ASSUME NEW W, NEW M, Remixed(W, M), NEW r, r.type # "Track" \/ r.del
  PROVE  Remixed(Replaced(W, r), M)
  BY Zenon DEF Remixed, Replaced

ParentsOf(M, id, parent) ==
  {x \in M : x[2] # id} \cup (IF parent = None THEN {} ELSE {<<parent, id>>})
LEMMA RemixedAnew ==
  ASSUME NEW W, NEW M, Remixed(W, M), \A x \in W : IsRow(x),
         NEW r, IsRow(r), r.type = "Track", NEW id, r.key = <<id>>
  PROVE  Remixed(Replaced(W, r), ParentsOf(M, id, r.a.remix))
  <1> DEFINE M2 == ParentsOf(M, id, r.a.remix)
             Of(N, i, p) == {x \in N : x[2] = i} = (IF p = None THEN {} ELSE {<<p, i>>})
  <1>1. Of(M2, id, r.a.remix)
    <2>1. ASSUME NEW p PROVE <<p, id>>[2] = id
      OBVIOUS
    <2>2. CASE r.a.remix = None
      BY <2>2 DEF ParentsOf
    <2>3. CASE r.a.remix # None
      BY <2>1, <2>3 DEF ParentsOf
    <2> QED
      BY <2>2, <2>3
  <1>2. ASSUME NEW i, i # id, NEW p, Of(M, i, p) PROVE Of(M2, i, p)
    <2>1. {x \in M2 : x[2] = i} = {x \in M : x[2] = i}
      <3>1. \A x \in M2 : x[2] = i => x \in M
        BY <1>2 DEF ParentsOf
      <3>2. \A x \in M : x[2] = i => x \in M2
        BY <1>2 DEF ParentsOf
      <3> QED
        BY <3>1, <3>2
    <2> QED
      BY <1>2, <2>1
  <1> HIDE DEF M2, Of
  <1>3. ASSUME NEW s \in Replaced(W, r), s.type = "Track", ~s.del
        PROVE  Of(M2, s.key[1], s.a.remix)
    <2>1. CASE s = r
      BY <1>1, <2>1
    <2>2. CASE s # r
      <3>1. s \in W /\ KeyOf(s) # KeyOf(r)
        BY <2>2 DEF Replaced
      <3>2. s.key[1] # id
        BY <1>3, <3>1, SameTrack DEF Tracked
      <3>3. Of(M, s.key[1], s.a.remix)
        BY <1>3, <3>1, Zenon DEF Remixed, Of
      <3> QED
        BY <1>2, <3>2, <3>3
    <2> QED
      BY <2>1, <2>2
  <1> QED
    BY <1>3, Zenon DEF Remixed, Of, M2

LEMMA LocatedOther ==
  ASSUME NEW W, NEW R, Located(W, R), NEW r, r.type \notin Tracked
  PROVE  Located(Replaced(W, r), R)
  <1>1. \A s \in Replaced(W, r) : s.type \in Tracked => HasRoute(s, R)
    BY DEF Located, Replaced
  <1>2. ASSUME NEW x \in R, x.model \in Tracked
        PROVE  \E s \in Replaced(W, r) : s.type = x.model /\ s.key = <<x.id>>
    <2>1. PICK s \in W : s.type = x.model /\ s.key = <<x.id>>
      BY <1>2 DEF Located
    <2>2. KeyOf(s) # KeyOf(r)
      BY <1>2, <2>1 DEF KeyOf
    <2> QED
      BY <2>1, <2>2 DEF Replaced
  <1> QED
    BY <1>1, <1>2 DEF Located

LEMMA LocatedSame ==
  ASSUME NEW W, NEW R, Located(W, R), NEW old \in W, NEW r, KeyOf(r) = KeyOf(old), r.a.title = old.a.title
  PROVE  Located(Replaced(W, r), R)
  <1>1. r.type = old.type /\ r.key = old.key
    BY DEF KeyOf
  <1>2. r.type \in Tracked => HasRoute(r, R)
    BY <1>1 DEF Located, HasRoute
  <1>3. \A s \in Replaced(W, r) : s.type \in Tracked => HasRoute(s, R)
    BY <1>2 DEF Located, Replaced
  <1>4. ASSUME NEW x \in R, x.model \in Tracked
        PROVE  \E s \in Replaced(W, r) : s.type = x.model /\ s.key = <<x.id>>
    <2>1. PICK s \in W : s.type = x.model /\ s.key = <<x.id>>
      BY <1>4 DEF Located
    <2>2. CASE KeyOf(s) = KeyOf(r)
      BY <2>1, <2>2 DEF Replaced, KeyOf
    <2>3. CASE KeyOf(s) # KeyOf(r)
      BY <2>1, <2>3 DEF Replaced
    <2> QED
      BY <2>2, <2>3
  <1> QED
    BY <1>3, <1>4 DEF Located

LEMMA LocatedAnew ==
  ASSUME NEW W, NEW R, Located(W, R), \A x \in W : IsRow(x),
         NEW t \in Tracked, NEW id, NEW title, NEW Q, Moved(R, Q, t, id, title),
         NEW r, IsRow(r), r.type = t, r.key = <<id>>, r.a.title = title
  PROVE  Located(Replaced(W, r), Q)
  <1>0. r.key[1] = id
    OBVIOUS
  <1>1. HasRoute(r, Q)
    BY <1>0 DEF HasRoute, Moved
  <1>2. ASSUME NEW s \in W, KeyOf(s) # KeyOf(r), s.type \in Tracked PROVE HasRoute(s, Q)
    <2>1. ~(s.type = t /\ s.key[1] = id)
      BY <1>0, <1>2, SameTrack
    <2>2. PICK x \in R : /\ x.model = s.type /\ x.id = s.key[1] /\ x.current /\ x.title = s.a.title
                         /\ \A y \in R : y.model = s.type /\ y.id = s.key[1] /\ y.current => y = x
      BY <1>2 DEF Located, HasRoute
    <2>3. x \in Q
      BY <2>1, <2>2 DEF Moved
    <2>4. \A y \in Q : y.model = s.type /\ y.id = s.key[1] /\ y.current => y = x
      BY <2>1, <2>2 DEF Moved
    <2> QED
      BY <2>2, <2>3, <2>4 DEF HasRoute
  <1>3. ASSUME NEW x \in Q, x.model \in Tracked
        PROVE  \E s \in Replaced(W, r) : s.type = x.model /\ s.key = <<x.id>>
    <2>1. CASE x.model = t /\ x.id = id
      BY <2>1 DEF Replaced
    <2>2. CASE ~(x.model = t /\ x.id = id)
      <3>1. x \in R
        BY <2>2 DEF Moved
      <3>2. PICK s \in W : s.type = x.model /\ s.key = <<x.id>>
        BY <1>3, <3>1 DEF Located
      <3>3. KeyOf(s) # KeyOf(r)
        <4> SUFFICES ASSUME s.type = t, s.key = <<id>> PROVE FALSE
          BY DEF KeyOf
        <4>1. x.model = t /\ <<x.id>> = <<id>>
          BY <3>2
        <4>2. x.id = id
          BY <4>1
        <4> QED
          BY <2>2, <4>1, <4>2
      <3> QED
        BY <3>2, <3>3 DEF Replaced
    <2> QED
      BY <2>1, <2>2
  <1> QED
    BY <1>1, <1>2, <1>3 DEF Located, Replaced

-----------------------------------------------------------------------------
(* The batch invariant                                                     *)
TablesOK(W, T) ==
  /\ RoutesTyped(T.routes) /\ Slugs(T.routes)
  /\ Remixed(W, T.remixes) /\ WalletsOwned(T.wallets)
Good(S, d, K) == BatchTyped(S, d, K) /\ TablesOK(CurrentRows(S), S.d)
Found(S) == Located(CurrentRows(S), S.d.routes)

\* An item whose row is there, or that has none, has at most one current route.
LEMMA LocatedOnce ==
  ASSUME NEW W, NEW R, Located(W, R), \A x \in W : IsRow(x), NEW t \in Tracked, NEW id,
         (\E r \in W : r.type = t /\ r.key = <<id>>) \/ (\A r \in W : ~(r.type = t /\ r.key = <<id>>))
  PROVE  AtMostOne(R, t, id)
  <1>1. CASE \E r \in W : r.type = t /\ r.key = <<id>>
    <2>1. PICK r \in W : r.type = t /\ r.key = <<id>>
      BY <1>1
    <2>2. r.key[1] = id /\ HasRoute(r, R)
      BY <2>1 DEF Located
    <2> QED
      BY <2>1, <2>2 DEF HasRoute, AtMostOne, CurrentRoutes
  <1>2. CASE \A r \in W : ~(r.type = t /\ r.key = <<id>>)
    <2>1. \A x \in R : ~(x.model = t /\ x.id = id)
      BY <1>2 DEF Located
    <2> QED
      BY <2>1 DEF AtMostOne, CurrentRoutes
  <1> QED
    BY <1>1, <1>2

LEMMA AtOneOfRow ==
  ASSUME NEW S, NEW d, NEW K, BatchTyped(S, d, K), NEW t \in Tracked, NEW id, <<t, <<id>>>> \in K, Found(S)
  PROVE  AtMostOne(S.d.routes, t, id)
  <1>1. CASE Exists(S, t, <<id>>)
    <2>1. \E r \in CurrentRows(S) : r.type = t /\ r.key = <<id>>
      BY <1>1, LatestIsCurrent
    <2> QED
      BY <2>1, LocatedOnce, CurrentAreRows DEF Found
  <1>2. CASE ~Exists(S, t, <<id>>)
    <2>1. \A r \in CurrentRows(S) : ~(r.type = t /\ r.key = <<id>>)
      BY <1>2, NotThere
    <2> QED
      BY <2>1, LocatedOnce, CurrentAreRows DEF Found
  <1> QED
    BY <1>1, <1>2

\* A row of another table.
LEMMA OtherRowAdded ==
  ASSUME NEW S, NEW d, NEW K, Good(S, d, K),
         NEW r, IsRow(r), KeyOf(r) \in K, r.type \notin Tracked
  PROVE  /\ Good(AddRecord(S, r), d, K)
         /\ Found(S) => Found(AddRecord(S, r))
  <1>1. /\ BatchTyped(AddRecord(S, r), d, K) /\ AddRecord(S, r).d = S.d
        /\ CurrentRows(AddRecord(S, r)) = Replaced(CurrentRows(S), r)
    BY RecordAdded DEF Good
  <1>2. Remixed(Replaced(CurrentRows(S), r), S.d.remixes)
    BY RemixedOther DEF Good, TablesOK, Tracked
  <1>3. Found(S) => Located(Replaced(CurrentRows(S), r), S.d.routes)
    BY LocatedOther DEF Found
  <1> QED
    BY <1>1, <1>2, <1>3 DEF Good, TablesOK, Found

\* A version of a row that differs in what nothing else depends on.
LEMMA RowChanged ==
  ASSUME NEW S, NEW d, NEW K, Good(S, d, K), NEW T, BatchTyped(T, d, K), T.d = S.d,
         NEW old \in CurrentRows(S), NEW r, KeyOf(r) = KeyOf(old),
         r.type # "Track" \/ r.del, r.a.title = old.a.title,
         CurrentRows(T) = Replaced(CurrentRows(S), r)
  PROVE  Good(T, d, K) /\ (Found(S) => Found(T))
  <1>1. Remixed(Replaced(CurrentRows(S), r), S.d.remixes)
    BY RemixedOther DEF Good, TablesOK
  <1>2. Found(S) => Located(Replaced(CurrentRows(S), r), S.d.routes)
    BY LocatedSame DEF Found
  <1> QED
    BY <1>1, <1>2 DEF Good, TablesOK, Found

-----------------------------------------------------------------------------
(* The handlers.  A transaction of the batch has its keys fetched, and one *)
(* that names an item gives it a title.                                    *)
IsTx(e) == e.act \in {"Create", "Update"} /\ e.type \in Tracked => e.md.title \in Titles
InBatch(e, K) == IsTx(e) /\ Fetched(e) \subseteq K
Keeps(S, T, d, K) == Good(T, d, K) /\ (Found(S) => Found(T))

LEMMA SocialTables ==
  ASSUME NEW act, NEW i \in DOMAIN RecordTypes(act)
  PROVE  RecordTypes(act)[i] \in {"Follow", "Subscription", "Save", "Repost"}
  <1>1. RecordTypes(act) \in Seq({"Follow", "Subscription", "Save", "Repost"})
    BY DEF RecordTypes
  <1> QED
    BY <1>1

LEMMA SocialAdded ==
  ASSUME NEW S, NEW d, NEW K, Good(S, d, K), NEW e, InBatch(e, K), NEW i
  PROVE  Keeps(S, AddSocial(S, e, i), d, K)
  <1>1. CASE i \in DOMAIN RecordTypes(e.act)
    <2> DEFINE t == RecordTypes(e.act)[i]
               r == Rec(t, <<e.user, e.id>>, e.act \in DeleteActs, Blank)
    <2>1. t \in {"Follow", "Subscription", "Save", "Repost"}
      BY <1>1, SocialTables
    <2>2. <<t, <<e.user, e.id>>>> \in K
      BY <1>1 DEF InBatch, Fetched
    <2>3. (e.act \in DeleteActs) \in BOOLEAN
      OBVIOUS
    <2>4. t \notin Tracked
      BY <2>1 DEF Tracked
    <2>5. AddSocial(S, e, i) = AddRecord(S, r)
      BY <1>1 DEF AddSocial
    <2> HIDE DEF t
    <2>6. IsRow(r) /\ r.key = <<e.user, e.id>> /\ r.type = t
      BY <2>3, <2>4 DEF Rec, IsRow
    <2>7. KeyOf(r) = <<t, <<e.user, e.id>>>>
      BY <2>6 DEF KeyOf
    <2> QED
      BY <2>2, <2>4, <2>5, <2>6, <2>7, OtherRowAdded DEF Keeps
  <1>2. CASE i \notin DOMAIN RecordTypes(e.act)
    BY <1>2 DEF AddSocial, Keeps
  <1> QED
    BY <1>1, <1>2

LEMMA SocialKeeps ==
  ASSUME NEW S, NEW d, NEW K, Good(S, d, K), NEW e, InBatch(e, K)
  PROVE  Keeps(S, SocialRecord(S, e), d, K)
  <1> DEFINE T == AddSocial(S, e, 1)
  <1>1. Keeps(S, T, d, K)
    BY SocialAdded
  <1>2. Keeps(T, AddSocial(T, e, 2), d, K)
    BY <1>1, SocialAdded DEF Keeps
  <1> HIDE DEF T
  <1>3. Keeps(S, AddSocial(T, e, 2), d, K)
    BY <1>1, <1>2 DEF Keeps
  <1> QED
    BY <1>3 DEF SocialRecord, Keeps, T

LEMMA ViewKeeps ==
  ASSUME NEW S, NEW d, NEW K, Good(S, d, K), NEW e, InBatch(e, K), e.act = "ViewPlaylist"
  PROVE  Keeps(S, ViewPlaylist(S, e), d, K)
  <1> DEFINE r == Rec("PlaylistSeen", <<e.user, e.id>>, FALSE, Blank)
  <1>1. ViewPlaylist(S, e) \in {S, AddRecord(S, r)}
    BY DEF ViewPlaylist
  <1>2. <<"PlaylistSeen", <<e.user, e.id>>>> \in K
    BY DEF InBatch, Fetched
  <1>3. IsRow(r) /\ r.type = "PlaylistSeen" /\ r.key = <<e.user, e.id>> /\ r.type \notin Tracked
    BY DEF Rec, IsRow, Tracked
  <1>5. KeyOf(r) = <<"PlaylistSeen", <<e.user, e.id>>>>
    BY <1>3 DEF KeyOf
  <1>4. Keeps(S, AddRecord(S, r), d, K)
    BY <1>2, <1>3, <1>5, OtherRowAdded DEF Keeps
  <1> QED
    BY <1>1, <1>4 DEF Keeps

-----------------------------------------------------------------------------
(* Playlists and tracks                                                    *)
\* A route and a row of one title, and for a track its remixes.
LEMMA ItemRouted ==
  ASSUME NEW S, NEW d, NEW K, Good(S, d, K), NEW t \in Tracked, NEW id, <<t, <<id>>>> \in K,
         NEW owner, NEW title \in Titles
  PROVE  LET T == UpdateRoute(S, t, id, owner, title)
         IN  /\ Good(T, d, K) /\ CurrentRows(T) = CurrentRows(S)
             /\ Found(S) => Moved(S.d.routes, T.d.routes, t, id, title)
  <1> DEFINE T == UpdateRoute(S, t, id, owner, title)
             Q == RoutesAfter(S, t, id, owner, title)
  <1>1. BatchTyped(T, d, K) /\ CurrentRows(T) = CurrentRows(S)
    BY RouteUpdated DEF Good
  <1>2. RoutesTyped(Q) /\ Slugs(Q)
    BY RoutesAfterTyped DEF Good, TablesOK
  <1>3. Found(S) => Moved(S.d.routes, Q, t, id, title)
    BY AtOneOfRow, RoutesAfterMoved DEF Good, TablesOK
  <1>5. T.d.routes = Q /\ T.d.remixes = S.d.remixes /\ T.d.wallets = S.d.wallets
    BY RouteUpdated DEF Good
  <1> HIDE DEF T, Q
  <1>6. Good(T, d, K)
    BY <1>1, <1>2, <1>5 DEF Good, TablesOK
  <1> QED
    BY <1>1, <1>3, <1>5, <1>6 DEF T

LEMMA PlaylistRouted ==
  ASSUME NEW S, NEW d, NEW K, Good(S, d, K), NEW id, <<"Playlist", <<id>>>> \in K,
         NEW owner, NEW title \in Titles,
         NEW r, IsRow(r), r.type = "Playlist", r.key = <<id>>, r.a.title = title
  PROVE  Keeps(S, AddRecord(UpdateRoute(S, "Playlist", id, owner, title), r), d, K)
  <1> DEFINE T == UpdateRoute(S, "Playlist", id, owner, title)
             U == AddRecord(T, r)
  <1>1. "Playlist" \in Tracked
    BY DEF Tracked
  <1>2. /\ Good(T, d, K) /\ CurrentRows(T) = CurrentRows(S)
        /\ Found(S) => Moved(S.d.routes, T.d.routes, "Playlist", id, title)
    BY <1>1, ItemRouted
  <1>3. KeyOf(r) \in K
    BY DEF KeyOf
  <1> HIDE DEF T
  <1>4. BatchTyped(U, d, K) /\ U.d = T.d /\ CurrentRows(U) = Replaced(CurrentRows(S), r)
    BY <1>2, <1>3, RecordAdded DEF Good
  <1> HIDE DEF U
  <1>5. Remixed(CurrentRows(U), U.d.remixes)
    BY <1>2, <1>4, RemixedOther DEF Good, TablesOK
  <1>6. Good(U, d, K)
    BY <1>2, <1>4, <1>5 DEF Good, TablesOK
  <1>7. Found(S) => Found(U)
    <2> SUFFICES ASSUME Found(S) PROVE Located(CurrentRows(U), U.d.routes)
      BY DEF Found
    <2>1. Located(CurrentRows(S), S.d.routes) /\ Moved(S.d.routes, T.d.routes, "Playlist", id, title)
      BY <1>2 DEF Found
    <2>2. \A x \in CurrentRows(S) : IsRow(x)
      BY CurrentAreRows DEF Good
    <2> QED
      BY <1>1, <1>4, <2>1, <2>2, LocatedAnew
  <1> QED
    BY <1>6, <1>7 DEF Keeps, T, U

LEMMA PlaylistKey ==
  ASSUME NEW e, NEW K, InBatch(e, K), e.type \in Tracked
  PROVE  <<e.type, <<e.id>>>> \in K
  BY DEF InBatch, Fetched, Tracked

LEMMA CreatePlaylistKeeps ==
  ASSUME NEW S, NEW d, NEW K, Good(S, d, K), NEW e, InBatch(e, K),
         e.act = "Create", e.type = "Playlist"
  PROVE  Keeps(S, CreatePlaylist(S, e), d, K)
  <1> DEFINE a == [Blank EXCEPT !.owner = e.user, !.title = e.md.title, !.tracks = e.md.tracks]
             r == Rec("Playlist", <<e.id>>, FALSE, a)
  <1>1. DOMAIN a = DOMAIN Blank /\ a.title = e.md.title
    BY DEF Blank
  <1>2. <<"Playlist", <<e.id>>>> \in K /\ e.md.title \in Titles
    BY PlaylistKey DEF InBatch, IsTx, Tracked
  <1>3. CreatePlaylist(S, e) \in {S, AddRecord(UpdateRoute(S, "Playlist", e.id, e.user, e.md.title), r)}
    BY DEF CreatePlaylist
  <1> HIDE DEF a
  <1>4. IsRow(r) /\ r.type = "Playlist" /\ r.key = <<e.id>> /\ r.a.title = e.md.title
    BY <1>1 DEF Rec, IsRow
  <1> HIDE DEF r
  <1>5. Keeps(S, AddRecord(UpdateRoute(S, "Playlist", e.id, e.user, e.md.title), r), d, K)
    BY <1>2, <1>4, PlaylistRouted
  <1> QED
    BY <1>3, <1>5 DEF Keeps

LEMMA UpdatePlaylistKeeps ==
  ASSUME NEW S, NEW d, NEW K, Good(S, d, K), NEW e, InBatch(e, K),
         e.act = "Update", e.type = "Playlist"
  PROVE  Keeps(S, UpdatePlaylist(S, e), d, K)
  <1> DEFINE old == LatestCopy(S, "Playlist", <<e.id>>)
             r == [old EXCEPT !.a.title = e.md.title, !.a.tracks = e.md.tracks]
  <1>1. CASE ~ValidPlaylist(S, e)
    BY <1>1 DEF UpdatePlaylist, Keeps
  <1>2. CASE ValidPlaylist(S, e)
    <2>1. Exists(S, "Playlist", <<e.id>>)
      BY <1>2 DEF ValidPlaylist
    <2>2. IsRow(old) /\ old.type = "Playlist" /\ old.key = <<e.id>>
      BY <2>1, LatestIsCurrent DEF Good
    <2>3. <<"Playlist", <<e.id>>>> \in K /\ e.md.title \in Titles
      BY PlaylistKey DEF InBatch, IsTx, Tracked
    <2>4. UpdatePlaylist(S, e) = AddRecord(UpdateRoute(S, "Playlist", e.id, old.a.owner, e.md.title), r)
      BY <1>2 DEF UpdatePlaylist
    <2> HIDE DEF old
    <2>5. IsRow(r) /\ r.type = "Playlist" /\ r.key = <<e.id>> /\ r.a.title = e.md.title
      BY <2>2 DEF IsRow, Blank
    <2> HIDE DEF r
    <2> QED
      BY <2>3, <2>4, <2>5, PlaylistRouted
  <1> QED
    BY <1>1, <1>2

LEMMA DeletePlaylistKeeps ==
  ASSUME NEW S, NEW d, NEW K, Good(S, d, K), NEW e, e.act = "Delete"
  PROVE  Keeps(S, DeletePlaylist(S, e), d, K)
  <1> DEFINE old == LatestCopy(S, "Playlist", <<e.id>>)
             r == [old EXCEPT !.del = TRUE]
             T == AddOnlyNew(S, r)
  <1>1. CASE ~ValidPlaylist(S, e)
    BY <1>1 DEF DeletePlaylist, Keeps
  <1>2. CASE ValidPlaylist(S, e)
    <2>0. Exists(S, "Playlist", <<e.id>>)
      BY <1>2 DEF ValidPlaylist
    <2>1. old \in CurrentRows(S) /\ IsRow(old) /\ old.type = "Playlist" /\ old.key = <<e.id>>
      BY <2>0, LatestIsCurrent DEF Good
    <2>2. DeletePlaylist(S, e) = T
      BY <1>2 DEF DeletePlaylist
    <2> HIDE DEF old
    <2>3. IsRow(r) /\ r.type = "Playlist" /\ r.key = <<e.id>> /\ r.a.title = old.a.title
      BY <2>1 DEF IsRow
    <2>4. KeyOf(r) = KeyOf(old)
      BY <2>1, <2>3 DEF KeyOf
    <2> HIDE DEF r
    <2>5. BatchTyped(T, d, K) /\ T.d = S.d /\ CurrentRows(T) = Replaced(CurrentRows(S), r)
      BY <2>0, <2>3, OnlyNewAdded DEF Good
    <2> HIDE DEF T
    <2> QED
      BY <2>1, <2>2, <2>3, <2>4, <2>5, RowChanged DEF Keeps
  <1> QED
    BY <1>1, <1>2

Creates(e) == e.type = "Track" /\ e.act \in {"Create", "Update"}
\* The same of a track, whose handler needs the user's handle.
KeepsTrack(S, T, d, K, e) == Good(T, d, K) /\ (Found(S) /\ HandleFound(S, e) => Found(T))

LEMMA RemixesUpdated ==
  ASSUME NEW S, NEW d, NEW K, BatchTyped(S, d, K), NEW id, NEW parent
  PROVE  LET T == UpdateRemixes(S, id, parent)
         IN  /\ BatchTyped(T, d, K) /\ CurrentRows(T) = CurrentRows(S)
             /\ T.d.routes = S.d.routes /\ T.d.wallets = S.d.wallets
             /\ T.d.remixes = ParentsOf(S.d.remixes, id, parent)
  <1> DEFINE T == UpdateRemixes(S, id, parent)
  <1>1. /\ DOMAIN S = {"ex", "new", "pending", "d"}
        /\ DOMAIN S.d = {"recs", "routes", "remixes", "wallets", "referrals"}
    BY DEF BatchTyped
  <1>2. T = [S EXCEPT !.d = [S.d EXCEPT !.remixes = ParentsOf(S.d.remixes, id, parent)]]
    BY DEF UpdateRemixes, ParentsOf
  <1> HIDE DEF T
  <1>3. /\ DOMAIN T = DOMAIN S /\ T.ex = S.ex /\ T.new = S.new
        /\ T.d = [S.d EXCEPT !.remixes = ParentsOf(S.d.remixes, id, parent)]
    BY <1>1, <1>2
  <1>4. /\ DOMAIN T.d = DOMAIN S.d /\ T.d.recs = S.d.recs
        /\ T.d.routes = S.d.routes /\ T.d.wallets = S.d.wallets
        /\ T.d.remixes = ParentsOf(S.d.remixes, id, parent)
    BY <1>1, <1>3
  <1>5. BatchTyped(T, d, K) /\ CurrentRows(T) = CurrentRows(S)
    BY <1>3, <1>4, SameRows
  <1> QED
    BY <1>4, <1>5 DEF T

LEMMA TrackSaved ==
  ASSUME NEW S, NEW d, NEW K, Good(S, d, K),
         NEW T, Good(T, d, K), CurrentRows(T) = CurrentRows(S),
         NEW id, <<"Track", <<id>>>> \in K, NEW parent,
         NEW r, IsRow(r), r.type = "Track", r.key = <<id>>, r.a.remix = parent,
         Found(S) => Located(Replaced(CurrentRows(S), r), T.d.routes)
  PROVE  Keeps(S, AddRecord(UpdateRemixes(T, id, parent), r), d, K)
  <1> DEFINE U == UpdateRemixes(T, id, parent)
             V == AddRecord(U, r)
  <1>1. /\ BatchTyped(U, d, K) /\ CurrentRows(U) = CurrentRows(S)
        /\ U.d.routes = T.d.routes /\ U.d.wallets = T.d.wallets
        /\ U.d.remixes = ParentsOf(T.d.remixes, id, parent)
    BY RemixesUpdated DEF Good
  <1> HIDE DEF U
  <1>2. KeyOf(r) \in K
    BY DEF KeyOf
  <1>3. BatchTyped(V, d, K) /\ V.d = U.d /\ CurrentRows(V) = Replaced(CurrentRows(S), r)
    BY <1>1, <1>2, RecordAdded
  <1> HIDE DEF V
  <1>4. Remixed(CurrentRows(V), V.d.remixes)
    <2>1. Remixed(CurrentRows(S), T.d.remixes) /\ \A x \in CurrentRows(S) : IsRow(x)
      BY CurrentAreRows DEF Good, TablesOK
    <2> QED
      BY <1>1, <1>3, <2>1, RemixedAnew
  <1>5. Good(V, d, K)
    BY <1>1, <1>3, <1>4 DEF Good, TablesOK
  <1>6. Found(S) => Found(V)
    BY <1>1, <1>3 DEF Found
  <1> QED
    BY <1>5, <1>6 DEF Keeps, U, V

LEMMA WithMetadataIs ==
  ASSUME NEW r, IsRow(r), NEW md
  PROVE  LET s == WithMetadata(r, md)
         IN  /\ IsRow(s) /\ s.type = r.type /\ s.key = r.key
             /\ s.a.title = md.title /\ s.a.remix = md.remix
  BY DEF WithMetadata, IsRow, Blank

LEMMA CreateTrackKeeps ==
  ASSUME NEW S, NEW d, NEW K, Good(S, d, K), NEW e, InBatch(e, K),
         e.act = "Create", e.type = "Track"
  PROVE  KeepsTrack(S, CreateTrack(S, e), d, K, e)
  <1> DEFINE routed == UpdateRoute(S, "Track", e.id, e.user, e.md.title)
             a == [Blank EXCEPT !.owner = e.user]
             r == Rec("Track", <<e.id>>, FALSE, a)
             s == WithMetadata(r, e.md)
  <1>0. "Track" \in Tracked
    BY DEF Tracked
  <1>1. <<"Track", <<e.id>>>> \in K /\ e.md.title \in Titles
    BY PlaylistKey DEF InBatch, IsTx, Tracked
  <1>2. /\ Good(routed, d, K) /\ CurrentRows(routed) = CurrentRows(S)
        /\ Found(S) => Moved(S.d.routes, routed.d.routes, "Track", e.id, e.md.title)
    BY <1>0, <1>1, ItemRouted
  <1>3. DOMAIN a = DOMAIN Blank
    OBVIOUS
  <1>4. \/ CreateTrack(S, e) = S
        \/ ~HandleFound(S, e) /\ CreateTrack(S, e) = routed
        \/ CreateTrack(S, e) = AddRecord(UpdateRemixes(routed, e.id, e.md.remix), s)
    BY DEF CreateTrack
  <1> HIDE DEF routed, a
  <1>5. IsRow(r) /\ r.type = "Track" /\ r.key = <<e.id>>
    BY <1>3 DEF Rec, IsRow
  <1> HIDE DEF r
  <1>6. IsRow(s) /\ s.type = "Track" /\ s.key = <<e.id>> /\ s.a.title = e.md.title /\ s.a.remix = e.md.remix
    BY <1>5, WithMetadataIs
  <1> HIDE DEF s
  <1>7. Found(S) => Located(Replaced(CurrentRows(S), s), routed.d.routes)
    <2>1. \A x \in CurrentRows(S) : IsRow(x)
      BY CurrentAreRows DEF Good
    <2> QED
      BY <1>0, <1>2, <1>6, <2>1, LocatedAnew DEF Found
  <1>8. Keeps(S, AddRecord(UpdateRemixes(routed, e.id, e.md.remix), s), d, K)
    BY <1>1, <1>2, <1>6, <1>7, TrackSaved
  <1> QED
    BY <1>2, <1>4, <1>8 DEF Keeps, KeepsTrack

LEMMA UpdateTrackKeeps ==
  ASSUME NEW S, NEW d, NEW K, Good(S, d, K), NEW e, InBatch(e, K),
         e.act = "Update", e.type = "Track"
  PROVE  KeepsTrack(S, UpdateTrack(S, e), d, K, e)
  <1> DEFINE old == LatestCopy(S, "Track", <<e.id>>)
             routed == IF old.a.title = e.md.title THEN S
                       ELSE UpdateRoute(S, "Track", e.id, old.a.owner, e.md.title)
             s == WithMetadata(old, e.md)
  <1>0. "Track" \in Tracked
    BY DEF Tracked
  <1>1. CASE ~ValidTrack(S, e)
    BY <1>1 DEF UpdateTrack, KeepsTrack
  <1>2. CASE ValidTrack(S, e)
    <2>1. Exists(S, "Track", <<e.id>>)
      BY <1>2 DEF ValidTrack
    <2>2. old \in CurrentRows(S) /\ IsRow(old) /\ old.type = "Track" /\ old.key = <<e.id>>
      BY <2>1, LatestIsCurrent DEF Good
    <2>3. <<"Track", <<e.id>>>> \in K /\ e.md.title \in Titles
      BY PlaylistKey DEF InBatch, IsTx, Tracked
    <2>4. UpdateTrack(S, e) = IF HandleFound(S, e)
                              THEN AddRecord(UpdateRemixes(routed, e.id, e.md.remix), s)
                              ELSE routed
      BY <1>2 DEF UpdateTrack
    <2>5. IsRow(s) /\ s.type = "Track" /\ s.key = <<e.id>> /\ s.a.title = e.md.title /\ s.a.remix = e.md.remix
      BY <2>2, WithMetadataIs
    <2> HIDE DEF s, old
    <2>6. /\ Good(routed, d, K) /\ CurrentRows(routed) = CurrentRows(S)
          /\ Found(S) => Located(Replaced(CurrentRows(S), s), routed.d.routes)
      <3>1. CASE old.a.title = e.md.title
        <4>1. routed = S
          BY <3>1
        <4>2. KeyOf(s) = KeyOf(old)
          BY <2>2, <2>5 DEF KeyOf
        <4>3. Found(S) => Located(Replaced(CurrentRows(S), s), S.d.routes)
          BY <2>2, <2>5, <3>1, <4>2, LocatedSame DEF Found
        <4> QED
          BY <4>1, <4>3
      <3>2. CASE old.a.title # e.md.title
        <4> DEFINE T == UpdateRoute(S, "Track", e.id, old.a.owner, e.md.title)
        <4>1. routed = T
          BY <3>2
        <4>2. /\ Good(T, d, K) /\ CurrentRows(T) = CurrentRows(S)
              /\ Found(S) => Moved(S.d.routes, T.d.routes, "Track", e.id, e.md.title)
          BY <1>0, <2>3, ItemRouted
        <4> HIDE DEF T
        <4>3. \A x \in CurrentRows(S) : IsRow(x)
          BY CurrentAreRows DEF Good
        <4>4. Found(S) => Located(Replaced(CurrentRows(S), s), T.d.routes)
          BY <1>0, <2>5, <4>2, <4>3, LocatedAnew DEF Found
        <4> QED
          BY <4>1, <4>2, <4>4
      <3> QED
        BY <3>1, <3>2
    <2> HIDE DEF routed
    <2>7. Keeps(S, AddRecord(UpdateRemixes(routed, e.id, e.md.remix), s), d, K)
      BY <2>3, <2>5, <2>6, TrackSaved
    <2> QED
      BY <2>4, <2>6, <2>7 DEF Keeps, KeepsTrack
  <1> QED
    BY <1>1, <1>2

LEMMA DeleteTrackKeeps ==
  ASSUME NEW S, NEW d, NEW K, Good(S, d, K), NEW e, InBatch(e, K), e.act = "Delete", e.type = "Track"
  PROVE  Keeps(S, DeleteTrack(S, e), d, K)
  <1> DEFINE old == LatestCopy(S, "Track", <<e.id>>)
             r == [old EXCEPT !.del = TRUE, !.a.remix = None]
             T == AddRecord(S, r)
  <1>1. CASE ~ValidTrack(S, e)
    BY <1>1 DEF DeleteTrack, Keeps
  <1>2. CASE ValidTrack(S, e)
    <2>1. Exists(S, "Track", <<e.id>>)
      BY <1>2 DEF ValidTrack
    <2>2. old \in CurrentRows(S) /\ IsRow(old) /\ old.type = "Track" /\ old.key = <<e.id>>
      BY <2>1, LatestIsCurrent DEF Good
    <2>3. DeleteTrack(S, e) = T
      BY <1>2 DEF DeleteTrack
    <2> HIDE DEF old
    <2>4. IsRow(r) /\ r.type = "Track" /\ r.key = <<e.id>> /\ r.a.title = old.a.title /\ r.del
      BY <2>2 DEF IsRow, Blank
    <2>5. KeyOf(r) = KeyOf(old) /\ KeyOf(r) \in K
      BY <2>2, <2>4, PlaylistKey DEF KeyOf, Tracked
    <2> HIDE DEF r
    <2>6. BatchTyped(T, d, K) /\ T.d = S.d /\ CurrentRows(T) = Replaced(CurrentRows(S), r)
      BY <2>4, <2>5, RecordAdded DEF Good
    <2> HIDE DEF T
    <2> QED
      BY <2>2, <2>3, <2>4, <2>5, <2>6, RowChanged DEF Keeps
  <1> QED
    BY <1>1, <1>2

-----------------------------------------------------------------------------
(* Users                                                                   *)
UserRow(r) == IsRow(r) /\ r.type = "User"

LEMMA UserRowAdded ==
  ASSUME NEW S, NEW d, NEW K, Good(S, d, K), NEW u, <<"User", <<u>>>> \in K,
         NEW r, IsRow(r), r.type = "User", r.key = <<u>>
  PROVE  Keeps(S, AddRecord(S, r), d, K)
  <1>1. KeyOf(r) \in K /\ r.type \notin Tracked
    BY DEF KeyOf, Tracked
  <1> QED
    BY <1>1, OtherRowAdded DEF Keeps

LEMMA UserKey ==
  ASSUME NEW e, NEW K, InBatch(e, K)
  PROVE  <<"User", <<e.user>>>> \in K
  BY DEF InBatch, Fetched

LEMMA CreateUserKeeps ==
  ASSUME NEW S, NEW d, NEW K, Good(S, d, K), NEW e, InBatch(e, K)
  PROVE  Keeps(S, CreateUser(S, e), d, K)
  <1> DEFINE a == [Blank EXCEPT !.replicas = e.md.replicas]
             r == Rec("User", <<e.user>>, FALSE, a)
  <1>1. DOMAIN a = DOMAIN Blank
    OBVIOUS
  <1>2. CreateUser(S, e) \in {S, AddRecord(S, r)}
    BY DEF CreateUser
  <1> HIDE DEF a
  <1>3. IsRow(r) /\ r.type = "User" /\ r.key = <<e.user>>
    BY <1>1 DEF Rec, IsRow, Tracked
  <1> HIDE DEF r
  <1>4. Keeps(S, AddRecord(S, r), d, K)
    BY <1>3, UserKey, UserRowAdded
  <1> QED
    BY <1>2, <1>4 DEF Keeps

LEMMA WalletsUpdated ==
  ASSUME NEW S, NEW d, NEW K, Good(S, d, K), NEW u, NEW W
  PROVE  Keeps(S, UpdateWallets(S, u, W), d, K)
  <1> DEFINE mine == {w \in S.d.wallets : w[1] = u}
             others == S.d.wallets \ mine
             added == {w \in W : \A x \in others : x[2] # w}
             P == others \cup {<<u, w>> : w \in added}
             T == UpdateWallets(S, u, W)
  <1>1. /\ DOMAIN S = {"ex", "new", "pending", "d"}
        /\ DOMAIN S.d = {"recs", "routes", "remixes", "wallets", "referrals"}
    BY DEF Good, BatchTyped
  <1>2. T = [S EXCEPT !.d = [S.d EXCEPT !.wallets = P]]
    BY DEF UpdateWallets
  <1>3. WalletsOwned(P)
    <2>1. WalletsOwned(S.d.wallets)
      BY DEF Good, TablesOK
    <2>2. \A x \in P : x \in others \/ \E w \in added : x = <<u, w>>
      OBVIOUS
    <2>3. ASSUME NEW x \in P, NEW y \in P, x[2] = y[2] PROVE x = y
      <3>1. CASE x \in others /\ y \in others
        BY <2>1, <2>3, <3>1 DEF WalletsOwned
      <3>2. CASE x \in others /\ y \notin others
        <4>1. PICK w \in added : y = <<u, w>>
          BY <2>2, <3>2
        <4> QED
          BY <2>3, <3>2, <4>1
      <3>3. CASE x \notin others /\ y \in others
        <4>1. PICK w \in added : x = <<u, w>>
          BY <2>2, <3>3
        <4> QED
          BY <2>3, <3>3, <4>1
      <3>4. CASE x \notin others /\ y \notin others
        <4>1. PICK v \in added : x = <<u, v>>
          BY <2>2, <3>4
        <4>2. PICK w \in added : y = <<u, w>>
          BY <2>2, <3>4
        <4> QED
          BY <2>3, <4>1, <4>2
      <3> QED
        BY <3>1, <3>2, <3>3, <3>4
    <2> QED
      BY <2>3 DEF WalletsOwned
  <1> HIDE DEF T, P
  <1>4. DOMAIN T = DOMAIN S /\ T.ex = S.ex /\ T.new = S.new /\ T.d = [S.d EXCEPT !.wallets = P]
    BY <1>1, <1>2
  <1>5. /\ DOMAIN T.d = DOMAIN S.d /\ T.d.recs = S.d.recs /\ T.d.routes = S.d.routes
        /\ T.d.remixes = S.d.remixes /\ T.d.wallets = P
    BY <1>1, <1>4
  <1>6. BatchTyped(T, d, K) /\ CurrentRows(T) = CurrentRows(S)
    BY <1>4, <1>5, SameRows DEF Good
  <1>7. Keeps(S, T, d, K)
    BY <1>3, <1>5, <1>6 DEF Good, TablesOK, Keeps, Found
  <1> QED
    BY <1>7 DEF T

LEMMA ReferrerUpdated ==
  ASSUME NEW S, NEW d, NEW K, Good(S, d, K), NEW u, NEW by
  PROVE  Keeps(S, UpdateReferrer(S, u, by), d, K)
  <1> DEFINE T == [S EXCEPT !.d = [S.d EXCEPT !.referrals = @ \cup {<<u, by>>}]]
  <1>1. /\ DOMAIN S = {"ex", "new", "pending", "d"}
        /\ DOMAIN S.d = {"recs", "routes", "remixes", "wallets", "referrals"}
    BY DEF Good, BatchTyped
  <1>2. UpdateReferrer(S, u, by) \in {S, T}
    BY DEF UpdateReferrer
  <1>3. /\ DOMAIN T = DOMAIN S /\ T.ex = S.ex /\ T.new = S.new
        /\ T.d = [S.d EXCEPT !.referrals = @ \cup {<<u, by>>}]
    BY <1>1
  <1> HIDE DEF T
  <1>4. /\ DOMAIN T.d = DOMAIN S.d /\ T.d.recs = S.d.recs /\ T.d.routes = S.d.routes
        /\ T.d.remixes = S.d.remixes /\ T.d.wallets = S.d.wallets
    BY <1>1, <1>3
  <1>5. BatchTyped(T, d, K) /\ CurrentRows(T) = CurrentRows(S)
    BY <1>3, <1>4, SameRows DEF Good
  <1>6. Keeps(S, T, d, K)
    BY <1>4, <1>5 DEF Good, TablesOK, Keeps, Found
  <1> QED
    BY <1>2, <1>6 DEF Keeps

LEMMA UpdateUserKeeps ==
  ASSUME NEW S, NEW d, NEW K, Good(S, d, K), NEW e, InBatch(e, K)
  PROVE  Keeps(S, UpdateUser(S, e), d, K)
  <1> DEFINE old == LatestCopy(S, "User", <<e.user>>)
             h == IF old.a.handle = None THEN e.md.handle ELSE old.a.handle
             w == UpdateWallets(S, e.user, e.wallets)
             s == UpdateReferrer(w, e.user, e.referrer)
             r == [old EXCEPT !.a.handle = h]
  <1>1. CASE ~SignedByUser(S, e) \/ ~ValidHandle(S, old, e)
    BY <1>1 DEF UpdateUser, Keeps
  <1>2. CASE SignedByUser(S, e) /\ ValidHandle(S, old, e)
    <2>1. UpdateUser(S, e) = AddRecord(s, r)
      BY <1>2 DEF UpdateUser
    <2>2. IsRow(old) /\ old.type = "User" /\ old.key = <<e.user>>
      BY <1>2, LatestIsCurrent DEF Good, SignedByUser
    <2> HIDE DEF old, h
    <2>3. IsRow(r) /\ r.type = "User" /\ r.key = <<e.user>>
      BY <2>2 DEF IsRow, Tracked
    <2> HIDE DEF r
    <2>4. Keeps(S, w, d, K)
      BY WalletsUpdated
    <2> HIDE DEF w
    <2>5. Keeps(w, s, d, K)
      BY <2>4, ReferrerUpdated DEF Keeps
    <2> HIDE DEF s
    <2>6. Keeps(s, AddRecord(s, r), d, K)
      BY <2>3, <2>5, UserKey, UserRowAdded DEF Keeps
    <2> QED
      BY <2>1, <2>4, <2>5, <2>6 DEF Keeps
  <1> QED
    BY <1>1, <1>2

LEMMA VerifyUserKeeps ==
  ASSUME NEW S, NEW d, NEW K, Good(S, d, K), NEW e, InBatch(e, K)
  PROVE  Keeps(S, VerifyUser(S, e), d, K)
  <1> DEFINE old == Existing(S, "User", <<e.user>>)
             r == [old EXCEPT !.a.verified = TRUE]
  <1>1. CASE ~(e.signer = "verifier" /\ Exists(S, "User", <<e.user>>))
    BY <1>1 DEF VerifyUser, Keeps
  <1>2. CASE e.signer = "verifier" /\ Exists(S, "User", <<e.user>>)
    <2>1. VerifyUser(S, e) = AddRecord(S, r)
      BY <1>2 DEF VerifyUser
    <2>2. IsRow(old) /\ old.type = "User" /\ old.key = <<e.user>>
      BY <1>2, ExistingIs DEF Good
    <2> HIDE DEF old
    <2>3. IsRow(r) /\ r.type = "User" /\ r.key = <<e.user>>
      BY <2>2 DEF IsRow, Tracked
    <2> HIDE DEF r
    <2> QED
      BY <2>1, <2>3, UserKey, UserRowAdded
  <1> QED
    BY <1>1, <1>2

LEMMA UpdateReplicaSetKeeps ==
  ASSUME NEW S, NEW d, NEW K, Good(S, d, K), NEW e, InBatch(e, K)
  PROVE  Keeps(S, UpdateReplicaSet(S, e), d, K)
  <1> DEFINE old == LatestCopy(S, "User", <<e.user>>)
             r == [old EXCEPT !.a.replicas = e.md.replicas]
  <1>1. \/ UpdateReplicaSet(S, e) = S
        \/ Exists(S, "User", <<e.user>>) /\ UpdateReplicaSet(S, e) = AddRecord(S, r)
    BY DEF UpdateReplicaSet
  <1>2. CASE UpdateReplicaSet(S, e) = S
    BY <1>2 DEF Keeps
  <1>3. CASE Exists(S, "User", <<e.user>>) /\ UpdateReplicaSet(S, e) = AddRecord(S, r)
    <2>1. IsRow(old) /\ old.type = "User" /\ old.key = <<e.user>>
      BY <1>3, LatestIsCurrent DEF Good
    <2> HIDE DEF old
    <2>2. IsRow(r) /\ r.type = "User" /\ r.key = <<e.user>>
      BY <2>1 DEF IsRow, Tracked
    <2> HIDE DEF r
    <2> QED
      BY <1>3, <2>2, UserKey, UserRowAdded
  <1> QED
    BY <1>1, <1>2, <1>3

-----------------------------------------------------------------------------
(* One transaction, and a block of them                                    *)
LEMMA ProcessIs ==
  ASSUME NEW S, NEW e
  PROVE  \/ e.act = "Create" /\ e.type = "Playlist" /\ Process(S, e) = CreatePlaylist(S, e)
         \/ e.act = "Update" /\ e.type = "Playlist" /\ Process(S, e) = UpdatePlaylist(S, e)
         \/ e.act = "Delete" /\ e.type = "Playlist" /\ Process(S, e) = DeletePlaylist(S, e)
         \/ e.act = "Create" /\ e.type = "Track" /\ Process(S, e) = CreateTrack(S, e)
         \/ e.act = "Update" /\ e.type = "Track" /\ Process(S, e) = UpdateTrack(S, e)
         \/ e.act = "Delete" /\ e.type = "Track" /\ Process(S, e) = DeleteTrack(S, e)
         \/ Process(S, e) = SocialRecord(S, e)
         \/ Process(S, e) = CreateUser(S, e)
         \/ Process(S, e) = UpdateUser(S, e)
         \/ Process(S, e) = VerifyUser(S, e)
         \/ Process(S, e) = UpdateReplicaSet(S, e)
         \/ e.act = "ViewPlaylist" /\ Process(S, e) = ViewPlaylist(S, e)
         \/ Process(S, e) = S
  <1> USE DEF SocialActs, CreateActs, DeleteActs
  <1>1. CASE e.act = "Create" /\ e.type = "Playlist"
    BY <1>1 DEF Process
  <1>2. CASE e.act = "Update" /\ e.type = "Playlist"
    BY <1>2 DEF Process
  <1>3. CASE e.act = "Delete" /\ e.type = "Playlist"
    BY <1>3 DEF Process
  <1>4. CASE e.act = "Create" /\ e.type = "Track"
    BY <1>4 DEF Process
  <1>5. CASE e.act = "Update" /\ e.type = "Track"
    BY <1>5 DEF Process
  <1>6. CASE e.act = "Delete" /\ e.type = "Track"
    BY <1>6 DEF Process
  <1>7. CASE e.act = "Create" /\ e.type = "User"
    BY <1>7 DEF Process
  <1>8. CASE e.act = "Update" /\ e.type = "User"
    BY <1>8 DEF Process
  <1>9. CASE e.act = "Verify" /\ e.type = "User"
    BY <1>9 DEF Process
  <1>10. CASE e.act = "Update" /\ e.type = "UserReplicaSet"
    BY <1>10 DEF Process
  <1>11. CASE e.act \in SocialActs
    BY <1>11 DEF Process
  <1>12. CASE e.act = "ViewPlaylist"
    BY <1>12 DEF Process
  <1>13. CASE e.act = "Create" /\ e.type \notin {"Playlist", "Track", "User"}
    BY <1>13 DEF Process
  <1>14. CASE e.act = "Update" /\ e.type \notin {"Playlist", "Track", "User", "UserReplicaSet"}
    BY <1>14 DEF Process
  <1>15. CASE e.act = "Delete" /\ e.type \notin {"Playlist", "Track"}
    BY <1>15 DEF Process
  <1>16. CASE e.act = "Verify" /\ e.type \notin {"User"}
    BY <1>16 DEF Process
  <1>17. CASE e.act \notin {"Create", "Update", "Delete", "Verify", "ViewPlaylist"} \cup SocialActs
    BY <1>17 DEF Process
  <1> QED
    BY <1>1, <1>2, <1>3, <1>4, <1>5, <1>6, <1>7, <1>8, <1>9, <1>10,
       <1>11, <1>12, <1>13, <1>14, <1>15, <1>16, <1>17

LEMMA ProcessKeeps ==
  ASSUME NEW S, NEW d, NEW K, Good(S, d, K), NEW e, InBatch(e, K)
  PROVE  /\ Good(Process(S, e), d, K)
         /\ Found(S) /\ (Creates(e) => HandleFound(S, e)) => Found(Process(S, e))
  <1>1. CASE Keeps(S, Process(S, e), d, K)
    BY <1>1 DEF Keeps
  <1>2. CASE Creates(e) /\ KeepsTrack(S, Process(S, e), d, K, e)
    BY <1>2 DEF KeepsTrack
  <1>3. CASE e.act = "Create" /\ e.type = "Track" /\ Process(S, e) = CreateTrack(S, e)
    BY <1>2, <1>3, CreateTrackKeeps DEF Creates
  <1>4. CASE e.act = "Update" /\ e.type = "Track" /\ Process(S, e) = UpdateTrack(S, e)
    BY <1>2, <1>4, UpdateTrackKeeps DEF Creates
  <1>5. CASE e.act = "Create" /\ e.type = "Playlist" /\ Process(S, e) = CreatePlaylist(S, e)
    BY <1>1, <1>5, CreatePlaylistKeeps
  <1>6. CASE e.act = "Update" /\ e.type = "Playlist" /\ Process(S, e) = UpdatePlaylist(S, e)
    BY <1>1, <1>6, UpdatePlaylistKeeps
  <1>7. CASE e.act = "Delete" /\ e.type = "Playlist" /\ Process(S, e) = DeletePlaylist(S, e)
    BY <1>1, <1>7, DeletePlaylistKeeps
  <1>8. CASE e.act = "Delete" /\ e.type = "Track" /\ Process(S, e) = DeleteTrack(S, e)
    BY <1>1, <1>8, DeleteTrackKeeps
  <1>9. CASE Process(S, e) = SocialRecord(S, e)
    BY <1>1, <1>9, SocialKeeps
  <1>10. CASE Process(S, e) = CreateUser(S, e)
    BY <1>1, <1>10, CreateUserKeeps
  <1>11. CASE Process(S, e) = UpdateUser(S, e)
    BY <1>1, <1>11, UpdateUserKeeps
  <1>12. CASE Process(S, e) = VerifyUser(S, e)
    BY <1>1, <1>12, VerifyUserKeeps
  <1>13. CASE Process(S, e) = UpdateReplicaSet(S, e)
    BY <1>1, <1>13, UpdateReplicaSetKeeps
  <1>14. CASE e.act = "ViewPlaylist" /\ Process(S, e) = ViewPlaylist(S, e)
    BY <1>1, <1>14, ViewKeeps
  <1>15. CASE Process(S, e) = S
    BY <1>15
  <1> QED
    BY <1>3, <1>4, <1>5, <1>6, <1>7, <1>8, <1>9, <1>10, <1>11, <1>12, <1>13, <1>14, <1>15, ProcessIs

\* The states of a batch follow each other.
Follows(f, d, B, m) ==
  f = [n \in 0..m |-> IF n = 0 THEN Begin(d, B) ELSE Process(f[n - 1], B[n])]
LEMMA BatchRuns ==
  ASSUME NEW d, NEW B, NEW k \in Nat
  PROVE  \E f : Follows(f, d, B, k)
  <1> DEFINE Bad == {m \in Nat : ~ \E f : Follows(f, d, B, m)}
  <1> SUFFICES ASSUME Bad # {} PROVE FALSE
    OBVIOUS
  <1>1. PICK m \in Bad : \A n \in Bad : m <= n
    BY LowestIn
  <1>2. CASE m = 0
    <2> DEFINE f == [n \in 0..0 |-> Begin(d, B)]
    <2>1. f = [n \in 0..0 |-> IF n = 0 THEN Begin(d, B) ELSE Process(f[n - 1], B[n])]
      OBVIOUS
    <2>2. Follows(f, d, B, 0)
      BY <2>1 DEF Follows
    <2> QED
      BY <1>2, <2>2
  <1>3. CASE m # 0
    <2>1. m \in Nat \ {0} /\ m - 1 \in Nat /\ m - 1 \notin Bad
      BY <1>1, <1>3
    <2>2. PICK f : Follows(f, d, B, m - 1)
      BY <2>1
    <2> DEFINE g == [n \in 0..m |-> IF n = m THEN Process(f[m - 1], B[m]) ELSE f[n]]
    <2>3. f = [n \in 0..(m - 1) |-> IF n = 0 THEN Begin(d, B) ELSE Process(f[n - 1], B[n])]
      BY <2>2 DEF Follows
    <2>4. ASSUME NEW n \in 0..m
          PROVE  g[n] = IF n = 0 THEN Begin(d, B) ELSE Process(g[n - 1], B[n])
      <3>1. CASE n = m
        <4>1. m - 1 \in 0..m /\ m - 1 # m
          BY <2>1
        <4>2. g[m - 1] = f[m - 1] /\ g[m] = Process(f[m - 1], B[m])
          BY <2>1, <4>1
        <4> QED
          BY <2>1, <3>1, <4>2
      <3>2. CASE n # m
        <4>1. n \in 0..(m - 1) /\ g[n] = f[n]
          BY <2>1, <3>2
        <4>2. f[n] = IF n = 0 THEN Begin(d, B) ELSE Process(f[n - 1], B[n])
          BY <2>3, <4>1
        <4>3. n # 0 => g[n - 1] = f[n - 1]
          BY <2>1, <3>2, <4>1
        <4> QED
          BY <4>1, <4>2, <4>3
      <3> QED
        BY <3>1, <3>2
    <2>5. g = [n \in 0..m |-> g[n]]
      OBVIOUS
    <2> HIDE DEF g
    <2>6. g = [n \in 0..m |-> IF n = 0 THEN Begin(d, B) ELSE Process(g[n - 1], B[n])]
      BY <2>4, <2>5
    <2>7. Follows(g, d, B, m)
      BY <2>6 DEF Follows
    <2> QED
      BY <1>1, <2>7
  <1> QED
    BY <1>2, <1>3

LEMMA StatesAre ==
  ASSUME NEW d, NEW B, Len(B) \in Nat
  PROVE  /\ BatchStates(d, B)[0] = Begin(d, B)
         /\ \A n \in 1..Len(B) : BatchStates(d, B)[n] = Process(BatchStates(d, B)[n - 1], B[n])
  <1> DEFINE f == BatchStates(d, B)
  <1>1. \E g : Follows(g, d, B, Len(B))
    BY BatchRuns
  <1>2. \E g : g = [n \in 0..Len(B) |-> IF n = 0 THEN Begin(d, B) ELSE Process(g[n - 1], B[n])]
    BY <1>1 DEF Follows
  <1>3. f = [n \in 0..Len(B) |-> IF n = 0 THEN Begin(d, B) ELSE Process(f[n - 1], B[n])]
    BY <1>2 DEF BatchStates
  <1> HIDE DEF f
  <1>4. f[0] = Begin(d, B)
    BY <1>3
  <1>5. \A n \in 1..Len(B) : f[n] = Process(f[n - 1], B[n])
    BY <1>3
  <1> QED
    BY <1>4, <1>5 DEF f

-----------------------------------------------------------------------------
(* A block from the tables it finds to those it leaves                     *)
UniqueRows(W) == \A r, s \in W : KeyOf(r) = KeyOf(s) => r = s
DbOK(d) ==
  /\ DOMAIN d = {"recs", "routes", "remixes", "wallets", "referrals"}
  /\ \A r \in d.recs : IsRow(r)
  /\ UniqueRows(d.recs) /\ TablesOK(d.recs, d)
KeysOf(B) == UNION {Fetched(B[i]) : i \in DOMAIN B}
\* Who creates or updates a track has been indexed.
Indexed(d, e) == Creates(e) => \E r \in d.recs : r.type = "User" /\ r.key = <<e.user>>

LEMMA BatchBegins ==
  ASSUME NEW d, DbOK(d), NEW B
  PROVE  LET S == Begin(d, B)
         IN  Good(S, d, KeysOf(B)) /\ S.d = d /\ CurrentRows(S) = d.recs
             /\ S.ex = {r \in d.recs : KeyOf(r) \in KeysOf(B)}
  <1> DEFINE S == Begin(d, B)
             K == KeysOf(B)
  <1>1. S.d = d /\ S.new = <<>> /\ DOMAIN S = {"ex", "new", "pending", "d"}
        /\ S.ex = {r \in d.recs : \E i \in DOMAIN B : <<r.type, r.key>> \in Fetched(B[i])}
    BY DEF Begin
  <1>2. S.ex = {r \in d.recs : KeyOf(r) \in K}
    BY <1>1 DEF KeyOf, KeysOf
  <1> HIDE DEF S, K
  <1>3. CurrentRows(S) = d.recs
    BY <1>1, ViewOfNone DEF CurrentRows
  <1>4. MadeRows(S, K)
    <2>1. IsSeq(<<>>) /\ Elements(<<>>) = {}
      BY DEF IsSeq, Elements
    <2> QED
      BY <1>1, <2>1 DEF MadeRows
  <1>5. FetchedRows(S, d, K)
    BY <1>2 DEF FetchedRows, DbOK
  <1>6. BatchTyped(S, d, K)
    BY <1>1, <1>4, <1>5 DEF BatchTyped, DbOK
  <1> QED
    BY <1>1, <1>2, <1>3, <1>6 DEF Good, DbOK, S, K

LEMMA BatchKeeps ==
  ASSUME NEW d, DbOK(d), NEW B, Len(B) \in Nat, DOMAIN B = 1..Len(B),
         \A i \in DOMAIN B : IsTx(B[i])
  PROVE  LET S == BatchStates(d, B)[Len(B)]
         IN  /\ Good(S, d, KeysOf(B))
             /\ Located(d.recs, d.routes) /\ (\A i \in DOMAIN B : Indexed(d, B[i])) => Found(S)
  <1> DEFINE S == BatchStates(d, B)
             K == KeysOf(B)
             Loc == Located(d.recs, d.routes) /\ \A i \in DOMAIN B : Indexed(d, B[i])
             Holds(n) == Good(S[n], d, K) /\ (Loc => Found(S[n]))
             Bad == {n \in 0..Len(B) : ~Holds(n)}
  <1>1. S[0] = Begin(d, B) /\ \A n \in 1..Len(B) : S[n] = Process(S[n - 1], B[n])
    BY StatesAre
  <1> HIDE DEF S
  <1>2. Holds(0)
    BY <1>1, BatchBegins DEF Found
  <1>3. ASSUME NEW n \in 1..Len(B), Holds(n - 1) PROVE Holds(n)
    <2>1. InBatch(B[n], K)
      BY DEF InBatch, KeysOf
    <2>2. S[n] = Process(S[n - 1], B[n])
      BY <1>1
    <2>3. Loc /\ Creates(B[n]) => HandleFound(S[n - 1], B[n])
      BY <1>3 DEF Indexed, HandleFound, Good, BatchTyped
    <2>4. Good(S[n - 1], d, K) /\ (Loc => Found(S[n - 1]))
      BY <1>3
    <2> HIDE DEF Loc, K
    <2> QED
      BY <2>1, <2>2, <2>3, <2>4, ProcessKeeps
  <1> HIDE DEF Holds
  <1>4. Bad = {}
    <2> SUFFICES ASSUME Bad # {} PROVE FALSE
      OBVIOUS
    <2>1. Bad \in SUBSET Nat
      OBVIOUS
    <2>2. PICK m \in Bad : \A n \in Bad : m <= n
      BY <2>1, LowestIn
    <2>3. m # 0
      BY <1>2
    <2>4. m \in 1..Len(B) /\ m - 1 \in 0..Len(B) /\ m - 1 \notin Bad
      BY <2>2, <2>3
    <2>5. Holds(m - 1)
      BY <2>4
    <2>6. Holds(m)
      BY <1>3, <2>4, <2>5
    <2> QED
      BY <2>2, <2>6
  <1>5. Holds(Len(B))
    BY <1>4
  <1> QED
    BY <1>5 DEF Holds, S

LEMMA SavedAre ==
  ASSUME NEW S, NEW d, NEW K, BatchTyped(S, d, K), NEW ex, ex = {r \in d.recs : KeyOf(r) \in K}
  PROVE  SaveRecords(S, ex) = [S.d EXCEPT !.recs = CurrentRows(S)]
  <1> DEFINE made == {<<S.new[i].type, S.new[i].key>> : i \in DOMAIN S.new}
             superseded == {r \in ex : <<r.type, r.key>> \in made}
             last == {S.new[i] : i \in {i \in DOMAIN S.new :
                        \A j \in DOMAIN S.new : j > i =>
                          <<S.new[j].type, S.new[j].key>> # <<S.new[i].type, S.new[i].key>>}}
  <1>1. SaveRecords(S, ex) = [S.d EXCEPT !.recs = (S.d.recs \ superseded) \cup last]
    BY DEF SaveRecords
  <1>2. made = MadeKeys(S.new) /\ last = LastRows(S.new)
    BY DEF MadeKeys, LastRows, KeyOf
  <1>3. MadeKeys(S.new) \subseteq K
    BY DEF MadeKeys, BatchTyped, MadeRows, Elements
  <1>4. superseded = {r \in d.recs : KeyOf(r) \in MadeKeys(S.new)}
    BY <1>2, <1>3 DEF KeyOf
  <1> HIDE DEF superseded, last, made
  <1>5. (S.d.recs \ superseded) \cup last = CurrentRows(S)
    BY <1>2, <1>4 DEF CurrentRows, View, BatchTyped
  <1> QED
    BY <1>1, <1>5

LEMMA BlockKeeps ==
  ASSUME NEW d, DbOK(d), NEW B, Len(B) \in Nat, DOMAIN B = 1..Len(B),
         \A i \in DOMAIN B : IsTx(B[i])
  PROVE  LET c == IndexEvents(d, B)
         IN  /\ DbOK(c)
             /\ Located(d.recs, d.routes) /\ (\A i \in DOMAIN B : Indexed(d, B[i])) => Located(c.recs, c.routes)
             /\ \A r \in d.recs : \E s \in c.recs : KeyOf(s) = KeyOf(r)
  <1> DEFINE S == BatchStates(d, B)[Len(B)]
             K == KeysOf(B)
             c == IndexEvents(d, B)
  <1>1. /\ Good(S, d, K)
        /\ Located(d.recs, d.routes) /\ (\A i \in DOMAIN B : Indexed(d, B[i])) => Found(S)
    BY BatchKeeps
  <1>2. Begin(d, B).ex = {r \in d.recs : KeyOf(r) \in K}
    BY BatchBegins
  <1>3. c = SaveRecords(S, Begin(d, B).ex)
    BY DEF IndexEvents
  <1> HIDE DEF S, K
  <1>4. c = [S.d EXCEPT !.recs = CurrentRows(S)]
    BY <1>1, <1>2, <1>3, SavedAre DEF Good
  <1> HIDE DEF c
  <1>5. /\ DOMAIN S.d = {"recs", "routes", "remixes", "wallets", "referrals"} /\ S.d.recs = d.recs
        /\ IsSeq(S.new)
    BY <1>1 DEF Good, BatchTyped, MadeRows
  <1>6. /\ DOMAIN c = {"recs", "routes", "remixes", "wallets", "referrals"}
        /\ c.recs = CurrentRows(S) /\ c.routes = S.d.routes /\ c.remixes = S.d.remixes /\ c.wallets = S.d.wallets
    BY <1>4, <1>5
  <1>7. UniqueRows(c.recs)
    BY <1>5, <1>6, ViewUnique DEF CurrentRows, UniqueRows, DbOK
  <1>8. \A r \in c.recs : IsRow(r)
    BY <1>1, <1>6, CurrentAreRows DEF Good
  <1>9. DbOK(c)
    BY <1>1, <1>6, <1>7, <1>8 DEF DbOK, Good, TablesOK
  <1>10. \A r \in d.recs : \E s \in c.recs : KeyOf(s) = KeyOf(r)
    BY <1>5, <1>6, KeysStay DEF CurrentRows
  <1> QED
    BY <1>1, <1>6, <1>9, <1>10 DEF Found, c

-----------------------------------------------------------------------------
(* The node                                                                *)
(* Tracks indexed before have one row each, and their owners gave each a   *)
(* title of its own; users send transactions with titles.                  *)
TrackRow(r) == IsRow(r) /\ r.type = "Track" /\ r.a.title \in Titles /\ r.a.remix = None
Setting ==
  /\ MaxBlockTxs \in Nat
  /\ \A E \in EventSets : \A e \in E : IsTx(e)
  /\ IsFiniteSet(InitialTracks) /\ \A r \in InitialTracks : TrackRow(r)
  /\ \A r, s \in InitialTracks : r.key = s.key => r = s
  /\ \A r, s \in InitialTracks : r.a.owner = s.a.owner /\ r.a.title = s.a.title => r = s
(* Tracks are created and updated by users whose row is indexed.           *)
CreatorsIndexed == \A E \in EventSets : \A e \in E : Creates(e) => e.user \in InitialUsers
UsersKept == \A u \in InitialUsers : \E r \in db.recs : KeyOf(r) = <<"User", <<u>>>>

DbInv == events \in EventSets /\ DbOK(db) /\ UsersKept
LocatedInv == DbInv /\ Located(db.recs, db.routes)

FirstUser(u) == Rec("User", <<u>>, FALSE, [Blank EXCEPT !.handle = u, !.replicas = "r1"])
FirstRoute(r) == [model |-> "Track", owner |-> r.a.owner, id |-> r.key[1],
                  title |-> r.a.title, cid |-> 0, current |-> TRUE]
LEMMA FirstUserIs ==
  ASSUME NEW u
  PROVE  IsRow(FirstUser(u)) /\ FirstUser(u).type = "User" /\ FirstUser(u).key = <<u>>
  <1> DEFINE a == [Blank EXCEPT !.handle = u, !.replicas = "r1"]
  <1>1. DOMAIN a = DOMAIN Blank
    OBVIOUS
  <1> HIDE DEF a
  <1>2. IsRow(Rec("User", <<u>>, FALSE, a)) /\ Rec("User", <<u>>, FALSE, a).type = "User"
        /\ Rec("User", <<u>>, FALSE, a).key = <<u>>
    BY <1>1 DEF Rec, IsRow, Tracked
  <1> QED
    BY <1>2 DEF FirstUser, a

LEMMA FirstRouteIs ==
  ASSUME NEW r, TrackRow(r)
  PROVE  /\ IsRoute(FirstRoute(r)) /\ RouteSlug(FirstRoute(r)) = r.a.title
         /\ FirstRoute(r).model = "Track" /\ FirstRoute(r).owner = r.a.owner
         /\ FirstRoute(r).id = r.key[1] /\ FirstRoute(r).title = r.a.title /\ FirstRoute(r).current
  BY DEF TrackRow, FirstRoute, IsRoute, RouteSlug, Slug

LEMMA InitHolds ==
  ASSUME Setting, Init
  PROVE  LocatedInv
  <1> DEFINE U == {FirstUser(u) : u \in InitialUsers}
             R == {FirstRoute(r) : r \in InitialTracks}
  <1>1. /\ events \in EventSets
        /\ DOMAIN db = {"recs", "routes", "remixes", "wallets", "referrals"}
        /\ db.recs = U \cup InitialTracks /\ db.routes = R /\ db.remixes = {} /\ db.wallets = {}
    BY DEF Init, FirstUser, FirstRoute
  <1>2. \A r \in InitialTracks : TrackRow(r)
    BY DEF Setting
  <1>3. \A r \in db.recs : IsRow(r)
    BY <1>1, <1>2, FirstUserIs DEF TrackRow
  <1>4. UniqueRows(db.recs)
    <2> SUFFICES ASSUME NEW r \in db.recs, NEW s \in db.recs, KeyOf(r) = KeyOf(s) PROVE r = s
      BY DEF UniqueRows
    <2>0. r.type = s.type /\ r.key = s.key
      BY DEF KeyOf
    <2>1. CASE r \in InitialTracks /\ s \in InitialTracks
      BY <2>0, <2>1 DEF Setting
    <2>2. CASE r \in U /\ s \in U
      <3>1. PICK u \in InitialUsers : r = FirstUser(u)
        BY <2>2
      <3>2. PICK v \in InitialUsers : s = FirstUser(v)
        BY <2>2
      <3>3. <<u>> = <<v>>
        BY <2>0, <3>1, <3>2, FirstUserIs
      <3>4. u = v
        BY <3>3
      <3> QED
        BY <3>1, <3>2, <3>4
    <2>3. CASE r \in U /\ s \in InitialTracks
      BY <1>2, <2>0, <2>3, FirstUserIs DEF TrackRow
    <2>4. CASE r \in InitialTracks /\ s \in U
      BY <1>2, <2>0, <2>4, FirstUserIs DEF TrackRow
    <2> QED
      BY <1>1, <2>1, <2>2, <2>3, <2>4
  <1>5. RoutesTyped(R)
    <2> DEFINE f == [r \in InitialTracks |-> FirstRoute(r)]
    <2>1. f \in Surjection(InitialTracks, R)
      BY DEF Surjection
    <2>2. IsFiniteSet(R)
      BY <2>1, FS_Surjection DEF Setting
    <2> QED
      BY <1>2, <2>2, FirstRouteIs DEF RoutesTyped
  <1>6. Slugs(R)
    <2> SUFFICES ASSUME NEW r \in InitialTracks, NEW s \in InitialTracks,
                        FirstRoute(r).owner = FirstRoute(s).owner,
                        RouteSlug(FirstRoute(r)) = RouteSlug(FirstRoute(s))
        PROVE FirstRoute(r) = FirstRoute(s)
      BY DEF Slugs
    <2>1. r.a.owner = s.a.owner /\ r.a.title = s.a.title
      BY <1>2, FirstRouteIs
    <2> QED
      BY <2>1 DEF Setting
  <1>7. Remixed(db.recs, {})
    <2> SUFFICES ASSUME NEW r \in db.recs, r.type = "Track"
        PROVE {x \in {} : x[2] = r.key[1]} = (IF r.a.remix = None THEN {} ELSE {<<r.a.remix, r.key[1]>>})
      BY Zenon DEF Remixed
    <2>1. r \in InitialTracks
      BY <1>1, FirstUserIs
    <2>2. r.a.remix = None
      BY <1>2, <2>1 DEF TrackRow
    <2> QED
      BY <2>2
  <1>8. DbOK(db)
    BY <1>1, <1>3, <1>4, <1>5, <1>6, <1>7 DEF DbOK, TablesOK, WalletsOwned
  <1>9. UsersKept
    <2> SUFFICES ASSUME NEW u \in InitialUsers PROVE \E r \in db.recs : KeyOf(r) = <<"User", <<u>>>>
      BY DEF UsersKept
    <2>1. FirstUser(u) \in db.recs
      BY <1>1
    <2> QED
      BY <2>1, FirstUserIs DEF KeyOf
  <1>10. Located(db.recs, R)
    <2>1. ASSUME NEW r \in db.recs, r.type \in Tracked PROVE HasRoute(r, R)
      <3>1. r \in InitialTracks
        BY <1>1, <2>1, FirstUserIs DEF Tracked
      <3>2. r.type = "Track" /\ IsRow(r)
        BY <1>2, <3>1 DEF TrackRow
      <3>3. ASSUME NEW s \in InitialTracks, FirstRoute(s).id = r.key[1] PROVE s = r
        <4>1. s.key[1] = r.key[1] /\ s.type = "Track" /\ IsRow(s)
          BY <1>2, <3>3, FirstRouteIs DEF TrackRow
        <4>2. KeyOf(s) = KeyOf(r)
          BY <3>2, <4>1, SameTrack DEF Tracked
        <4> QED
          BY <3>1, <4>2 DEF Setting, KeyOf
      <3>4. FirstRoute(r) \in R /\ FirstRoute(r).model = "Track" /\ FirstRoute(r).id = r.key[1]
            /\ FirstRoute(r).current /\ FirstRoute(r).title = r.a.title
        BY <1>2, <3>1, FirstRouteIs
      <3>5. \A y \in R : y.id = r.key[1] => y = FirstRoute(r)
        BY <3>3
      <3> QED
        BY <3>2, <3>4, <3>5 DEF HasRoute
    <2>2. ASSUME NEW x \in R
          PROVE  \E r \in db.recs : r.type = x.model /\ r.key = <<x.id>>
      <3>1. PICK r \in InitialTracks : x = FirstRoute(r)
        OBVIOUS
      <3>2. r.type = "Track" /\ r.key = <<r.key[1]>> /\ x.model = "Track" /\ x.id = r.key[1]
        BY <1>2, <3>1, FirstRouteIs DEF TrackRow, IsRow, Tracked
      <3> QED
        BY <1>1, <3>1, <3>2
    <2> QED
      BY <2>1, <2>2 DEF Located
  <1> QED
    BY <1>1, <1>8, <1>9, <1>10 DEF LocatedInv, DbInv

LEMMA NextKeeps ==
  ASSUME Setting, DbInv, [Next]_vars
  PROVE  DbInv' /\ (CreatorsIndexed /\ LocatedInv => LocatedInv')
  <1>1. CASE UNCHANGED vars
    BY <1>1 DEF vars, DbInv, LocatedInv, UsersKept
  <1>2. CASE IndexBlock
    <2>1. PICK B \in Blocks : db' = IndexEvents(db, B) /\ events' = events
      BY <1>2 DEF IndexBlock
    <2>2. PICK n \in 1..MaxBlockTxs : B \in [1..n -> events]
      BY <2>1 DEF Blocks
    <2>3. Len(B) \in Nat /\ DOMAIN B = 1..Len(B) /\ \A i \in DOMAIN B : B[i] \in events
      <3>1. n \in Nat /\ B \in Seq(events)
        BY <2>2 DEF Setting
      <3> QED
        BY <3>1
    <2>4. events \in EventSets /\ DbOK(db)
      BY DEF DbInv
    <2>5. \A i \in DOMAIN B : IsTx(B[i])
      BY <2>3, <2>4 DEF Setting
    <2>6. CreatorsIndexed => \A i \in DOMAIN B : Indexed(db, B[i])
      <3> SUFFICES ASSUME CreatorsIndexed, NEW i \in DOMAIN B, Creates(B[i])
          PROVE \E r \in db.recs : r.type = "User" /\ r.key = <<B[i].user>>
        BY DEF Indexed
      <3>1. B[i].user \in InitialUsers
        BY <2>3, <2>4 DEF CreatorsIndexed
      <3>2. PICK r \in db.recs : KeyOf(r) = <<"User", <<B[i].user>>>>
        BY <3>1 DEF DbInv, UsersKept
      <3> QED
        BY <3>2 DEF KeyOf
    <2>7. /\ DbOK(db')
          /\ Located(db.recs, db.routes) /\ (\A i \in DOMAIN B : Indexed(db, B[i])) => Located(db'.recs, db'.routes)
          /\ \A r \in db.recs : \E s \in db'.recs : KeyOf(s) = KeyOf(r)
      BY <2>1, <2>3, <2>4, <2>5, BlockKeeps
    <2>8. UsersKept'
      BY <2>7 DEF DbInv, UsersKept
    <2> QED
      BY <2>1, <2>4, <2>6, <2>7, <2>8 DEF DbInv, LocatedInv
  <1> QED
    BY <1>1, <1>2 DEF Next

-----------------------------------------------------------------------------
(* What it says                                                            *)

(* The tables keep to their types.                                         *)
THEOREM TablesTyped ==
  ASSUME Setting
  PROVE  Spec => []TypeOK
  <1>1. Init => DbInv
    BY InitHolds DEF LocatedInv
  <1>2. DbInv /\ [Next]_vars => DbInv'
    BY NextKeeps
  <1>3. DbInv => TypeOK
    BY DEF DbInv, DbOK, TablesOK, RoutesTyped, IsRow, IsRoute, TypeOK
  <1> QED
    BY <1>1, <1>2, <1>3, PTL DEF Spec

(* entity_manager_update leaves one current version of a key, a slug of an *)
(* owner to one route, the remixes of each live track as its row says and  *)
(* no wallet with two users, for blocks of any transactions and any length.*)
THEOREM TablesAgree ==
  ASSUME Setting
  PROVE  Spec => [](OneCurrentVersion /\ SlugsUnique /\ RemixesMatch /\ WalletOwnedOnce)
  <1>1. Init => DbInv
    BY InitHolds DEF LocatedInv
  <1>2. DbInv /\ [Next]_vars => DbInv'
    BY NextKeeps
  <1>3. DbInv => OneCurrentVersion /\ SlugsUnique /\ RemixesMatch /\ WalletOwnedOnce
    <2> SUFFICES ASSUME DbInv PROVE OneCurrentVersion /\ SlugsUnique /\ RemixesMatch /\ WalletOwnedOnce
      OBVIOUS
    <2>1. OneCurrentVersion
      BY DEF DbInv, DbOK, UniqueRows, KeyOf, OneCurrentVersion
    <2>2. SlugsUnique /\ WalletOwnedOnce
      BY DEF DbInv, DbOK, TablesOK, Slugs, WalletsOwned, SlugsUnique, WalletOwnedOnce
    <2>3. RemixesMatch
      BY Zenon DEF DbInv, DbOK, TablesOK, Remixed, RemixesMatch, Current
    <2> QED
      BY <2>1, <2>2, <2>3
  <1> QED
    BY <1>1, <1>2, <1>3, PTL DEF Spec

(* Where tracks are created and updated by users indexed before, each      *)
(* track and playlist has exactly one current route, of its current title, *)
(* and every route belongs to one: a route that is added before its        *)
(* transaction fails would stay in the session.                            *)
THEOREM ItemsAreFound ==
  ASSUME Setting, CreatorsIndexed
  PROVE  Spec => []OneCurrentRoute
  <1>1. Init => LocatedInv
    BY InitHolds
  <1>2. LocatedInv /\ [Next]_vars => LocatedInv'
    BY NextKeeps DEF LocatedInv
  <1>3. LocatedInv => OneCurrentRoute
    <2> SUFFICES ASSUME LocatedInv, NEW t \in {"Track", "Playlist"}
        PROVE /\ \A r \in Current(t) :
                   \E x \in db.routes :
                     /\ x.model = t /\ x.id = r.key[1] /\ x.current /\ x.title = r.a.title
                     /\ \A y \in db.routes :
                          y.model = t /\ y.id = x.id /\ y.current => y = x
              /\ \A x \in db.routes : x.model = t => \E r \in Current(t) : r.key = <<x.id>>
      BY DEF OneCurrentRoute
    <2>1. ASSUME NEW r \in Current(t)
          PROVE  \E x \in db.routes :
                   /\ x.model = t /\ x.id = r.key[1] /\ x.current /\ x.title = r.a.title
                   /\ \A y \in db.routes : y.model = t /\ y.id = x.id /\ y.current => y = x
      <3>1. r \in db.recs /\ r.type = t
        BY DEF Current
      <3>2. HasRoute(r, db.routes)
        BY <3>1 DEF LocatedInv, Located, Tracked
      <3> QED
        BY <3>1, <3>2 DEF HasRoute
    <2>2. ASSUME NEW x \in db.routes, x.model = t PROVE \E r \in Current(t) : r.key = <<x.id>>
      <3>1. PICK r \in db.recs : r.type = x.model /\ r.key = <<x.id>>
        BY <2>2 DEF LocatedInv, Located, Tracked
      <3> QED
        BY <2>2, <3>1 DEF Current
    <2> QED
      BY <2>1, <2>2
  <1> QED
    BY <1>1, <1>2, <1>3, PTL DEF Spec
=============================================================================
