------------------------ MODULE SolanaIndexingProofs ------------------------
(***************************************************************************)
(* Proofs about SolanaIndexing for every history of transactions, sizes of *)
(* pages and chunks, bounds on the pages kept, and number of failures.     *)
(*                                                                         *)
(* Pages are numbered from the newest one, transactions from the oldest.   *)
(*                                                                         *)
(* Then of the services that poll: by slots (SlotNotifications), over the  *)
(* rows that these tasks commit, and by blocks (Notifications).  Both are  *)
(* instances; variables of the same name are shared, as no theorem is      *)
(* about two of the three at a time.                                       *)
(***************************************************************************)
EXTENDS SolanaIndexing, FiniteSetTheorems, SequenceTheorems, WellFoundedInduction, TLAPS

CONSTANTS MaxSlotDiff, KeysAtStart
VARIABLES now, rows, keys, agg, tipsUpTo, ranks, from, window, got
Polled == INSTANCE SlotNotifications

CONSTANTS EventSets, MaxBlockDiff, FinalPOA, MaxHead
VARIABLES events, head, tracks, playlists, marks, balance, milestones
Asked == INSTANCE Notifications

\* The tasks, and sizes as the code has them.
Sizes ==
  /\ Indexers \subseteq {"rewards", "user_bank", "plays", "spl"}
  /\ Passes \subseteq Nat \ {NoPass}
  /\ FirstPage \in Nat \ {0} /\ PageSize \in Nat \ {0} /\ ChunkSize \in Nat \ {0}
  /\ MaxBatches \in Nat /\ Resize \in 1..MaxBatches
  /\ MinSlot \in Nat /\ MaxSlot \in Nat

Place == DOMAIN chain
Transaction == [slot : 1..MaxSlot, kind : {"error", "transfer", "account"}]
PassOf(S) == [pc : {"idle", "walk", "work"}, before : Nat, first : BOOLEAN, latest : Int,
              batches : Seq((SUBSET S) \ {{}}), known : BOOLEAN]
Started(r) ==
  /\ r.pc = "idle" => r.batches = <<>>
  /\ r.pc = "walk" => r.before <= Len(chain) /\ (r.before = Newest => r.batches = <<>>)
\* Until its lock expires under it, a pass that is under way holds it.
Alone == expiries = 0 => \A p \in Passes : job[p].pc # "idle" => lock = p
Types ==
  /\ indexer \in {"rewards", "user_bank", "plays", "spl"}
  /\ chain \in Seq(Transaction)
  /\ table \in SUBSET Place /\ tips \in SUBSET table
  /\ scanned \in {NoSlot} \cup 1..MaxSlot
  /\ cache \in Seq(Place)
  /\ job \in [Passes -> PassOf(Place)] /\ \A p \in Passes : Started(job[p])
  /\ lock \in Passes \cup {NoPass} /\ expiries \in Nat
  /\ Alone
SlotsGrow == \A i, j \in Place : i <= j => Slot(i) <= Slot(j)

(***************************************************************************)
(* The invariant of the tasks that commit pages.  Below a place that a     *)
(* pass keeps, as far as it has walked, every relevant transaction is in   *)
(* the table or in a page it will commit no later.  Tables only grow, so   *)
(* this holds whatever another pass commits meanwhile.  What is kept is    *)
(* new only as long as no other pass runs.                                 *)
(***************************************************************************)
Closed == \A e \in table : \A i \in 1..e : Relevant(i) => i \in table
Covers(r) ==
  \A k \in DOMAIN r.batches : \A e \in r.batches[k] : \A i \in 1..e :
    Relevant(i) /\ (r.pc = "walk" => r.before <= i) =>
      i \in table \/ \E l \in DOMAIN r.batches : k <= l /\ i \in r.batches[l]
Descends(r) ==
  /\ \A j, k \in DOMAIN r.batches : j < k => \A x \in r.batches[j], y \in r.batches[k] : y < x
  /\ r.pc = "walk" => \A k \in DOMAIN r.batches : \A e \in r.batches[k] : r.before <= e
Unseen(r) ==
  /\ \A k \in DOMAIN r.batches : r.batches[k] \cap table = {}
  /\ r.pc = "walk" => \A t \in table : Slot(t) <= r.latest
PagesInv ==
  /\ Closed
  /\ \A p \in Passes : Covers(job[p]) /\ Descends(job[p])
  /\ expiries = 0 => \A p \in Passes : job[p].pc # "idle" => Unseen(job[p])

SolInv == Types /\ SlotsGrow /\ (Pages => PagesInv)

-----------------------------------------------------------------------------
(* Maxima and minima of places.                                            *)
LEMMA Least ==
  ASSUME NEW T \in SUBSET Nat, T # {}
  PROVE  \E n \in T : \A m \in T : n <= m
  <1>1. PICK n \in T : \A m \in T : ~(<<m, n>> \in OpToRel(<, Nat))
    BY NatLessThanWellFounded, WFMin
  <1>2. ASSUME NEW m \in T PROVE n <= m
    <2> SUFFICES ASSUME m < n PROVE FALSE
      OBVIOUS
    <2>1. <<m, n>> \in OpToRel(<, Nat)
      BY DEF OpToRel
    <2> QED
      BY <1>1, <2>1
  <1> QED
    BY <1>2

LEMMA Extremes ==
  ASSUME NEW n \in Nat, NEW S \in SUBSET (1..n), S # {}
  PROVE  /\ MaxOf(S) \in S /\ \A y \in S : y <= MaxOf(S)
         /\ MinOf(S) \in S /\ \A y \in S : MinOf(S) <= y
  <1>1. \E x \in S : \A y \in S : x <= y
    BY Least
  <1>2. \E x \in S : \A y \in S : y <= x
    <2> DEFINE T == {n - x : x \in S}
    <2>1. T \in SUBSET Nat
      OBVIOUS
    <2>2. T # {}
      OBVIOUS
    <2>3. PICK z \in T : \A y \in T : z <= y
      <3> HIDE DEF T
      <3> QED
        BY <2>1, <2>2, Least
    <2>4. PICK x \in S : z = n - x
      OBVIOUS
    <2>5. ASSUME NEW y \in S PROVE y <= x
      <3>1. n - y \in T
        OBVIOUS
      <3>2. n - x <= n - y
        BY <2>3, <2>4, <3>1
      <3> QED
        BY <3>2
    <2> QED
      BY <2>5
  <1> QED
    BY <1>1, <1>2 DEF MaxOf, MinOf

LEMMA SlotTypes ==
  ASSUME Types
  PROVE  /\ Place = 1..Len(chain) /\ Len(chain) \in Nat
         /\ \A i \in Place : chain[i] \in Transaction /\ Slot(i) \in 1..MaxSlot
         /\ DOMAIN cache = 1..Len(cache) /\ Len(cache) \in Nat
         /\ \A k \in DOMAIN cache : cache[k] \in Place
  <1>1. /\ Place = 1..Len(chain) /\ Len(chain) \in Nat
        /\ \A i \in Place : chain[i] \in Transaction
    BY DEF Types, Place
  <1>2. /\ DOMAIN cache = 1..Len(cache) /\ Len(cache) \in Nat
        /\ \A k \in DOMAIN cache : cache[k] \in Place
    BY DEF Types
  <1>3. \A i \in Place : Slot(i) \in 1..MaxSlot
    BY <1>1 DEF Slot, Transaction
  <1> QED
    BY <1>1, <1>2, <1>3

LEMMA BatchTypes ==
  ASSUME NEW S, NEW r \in PassOf(S)
  PROVE  /\ r.batches \in Seq((SUBSET S) \ {{}})
         /\ DOMAIN r.batches = 1..Len(r.batches) /\ Len(r.batches) \in Nat
         /\ \A k \in DOMAIN r.batches : r.batches[k] \in SUBSET S /\ r.batches[k] # {}
  <1>1. r.batches \in Seq((SUBSET S) \ {{}})
    BY DEF PassOf
  <1>2. DOMAIN r.batches = 1..Len(r.batches) /\ Len(r.batches) \in Nat
    BY <1>1, LenProperties
  <1>3. \A k \in DOMAIN r.batches : r.batches[k] \in (SUBSET S) \ {{}}
    BY <1>1
  <1> QED
    BY <1>1, <1>2, <1>3

LEMMA PassTypes ==
  ASSUME Types, NEW p \in Passes
  PROVE  /\ job[p] \in PassOf(Place) /\ Started(job[p])
         /\ job[p].batches \in Seq((SUBSET Place) \ {{}})
         /\ DOMAIN job[p].batches = 1..Len(job[p].batches) /\ Len(job[p].batches) \in Nat
         /\ \A k \in DOMAIN job[p].batches : job[p].batches[k] \in SUBSET Place /\ job[p].batches[k] # {}
  <1>1. job[p] \in PassOf(Place) /\ Started(job[p])
    BY DEF Types
  <1> QED
    BY <1>1, BatchTypes

-----------------------------------------------------------------------------
(* What a pass covers it covers while the table and the chain grow.        *)
LEMMA CoverKept ==
  ASSUME Types, Pages, NEW p \in Passes, Covers(job[p]), Descends(job[p]), job'[p] = job[p],
         table \subseteq table', indexer' = indexer,
         Place \subseteq Place', \A i \in Place : chain'[i] = chain[i]
  PROVE  Covers(job[p])' /\ Descends(job[p])'
  <1>1. \A i \in Place : Relevant(i)' = Relevant(i)
    BY DEF Relevant, Slot, Pages
  <1>2. \A k \in DOMAIN job[p].batches : \A e \in job[p].batches[k] : 1..e \subseteq Place
    BY PassTypes, SlotTypes
  <1>3. Descends(job[p])'
    BY DEF Descends
  <1>4. Covers(job[p])'
    BY <1>1, <1>2 DEF Covers
  <1> QED
    BY <1>3, <1>4

LEMMA UnseenKept ==
  ASSUME Types, NEW p \in Passes, Unseen(job[p]), job'[p] = job[p], table' = table,
         \A i \in Place : chain'[i] = chain[i]
  PROVE  Unseen(job[p])'
  <1>1. \A t \in table : Slot(t)' = Slot(t)
    BY DEF Types, Slot
  <1> QED
    BY <1>1 DEF Unseen

LEMMA ClosedKept ==
  ASSUME Types, Closed, table' = table, indexer' = indexer,
         \A i \in Place : chain'[i] = chain[i]
  PROVE  Closed'
  <1>1. \A i \in Place : Relevant(i)' = Relevant(i)
    BY DEF Relevant, Slot, Pages
  <1>2. \A e \in table : 1..e \subseteq Place
    BY SlotTypes DEF Types
  <1> QED
    BY <1>1, <1>2 DEF Closed

-----------------------------------------------------------------------------
(* The chain grows at its end, and no transaction changes.                 *)
LEMMA ChainGrows ==
  ASSUME Sizes, SolInv, NewTx
  PROVE  SolInv'
  <1> USE SlotTypes DEF SolInv
  <1>1. PICK s \in (IF chain = <<>> THEN 1 ELSE Last(chain).slot)..MaxSlot, k \in Kinds :
          chain' = Append(chain, [slot |-> s, kind |-> k])
    BY DEF NewTx
  <1>2. UNCHANGED <<indexer, table, tips, scanned, cache, job, lock, expiries>>
    BY DEF NewTx
  <1>3. \A i \in Place : Slot(i) <= s
    <2>1. CASE chain = <<>>
      BY <2>1
    <2>2. CASE chain # <<>>
      <3>1. Len(chain) \in Place /\ s >= Slot(Len(chain))
        BY <1>1, <2>2 DEF Types, Last, Slot
      <3> QED
        BY <1>1, <3>1 DEF SlotsGrow
    <2> QED
      BY <2>1, <2>2
  <1>4. [slot |-> s, kind |-> k] \in Transaction
    <2>1. s \in 1..MaxSlot
      <3>1. CASE chain = <<>>
        BY <1>1, <3>1
      <3>2. CASE chain # <<>>
        <4>1. Len(chain) \in Place /\ s >= Slot(Len(chain)) /\ s \in Int /\ s <= MaxSlot
          BY <1>1, <3>2 DEF Types, Last, Slot, Sizes
        <4> QED
          BY <4>1
      <3> QED
        BY <3>1, <3>2
    <2>2. k \in {"error", "transfer", "account"}
      BY <1>1 DEF Kinds
    <2> QED
      BY <2>1, <2>2 DEF Transaction
  <1>5. /\ chain' \in Seq(Transaction) /\ Len(chain') = Len(chain) + 1
        /\ Place' = 1..(Len(chain) + 1)
        /\ \A i \in Place : chain'[i] = chain[i]
        /\ chain'[Len(chain) + 1] = [slot |-> s, kind |-> k]
    <2>1. chain \in Seq(Transaction)
      BY DEF Types
    <2> DEFINE tx == [slot |-> s, kind |-> k]
    <2>2. tx \in Transaction /\ chain' = Append(chain, tx)
      BY <1>1, <1>4
    <2> HIDE DEF tx
    <2>3. /\ chain' \in Seq(Transaction) /\ Len(chain') = Len(chain) + 1
          /\ \A i \in 1..Len(chain) : chain'[i] = chain[i]
          /\ chain'[Len(chain) + 1] = tx
      BY <2>1, <2>2, AppendProperties
    <2>4. Place' = 1..Len(chain')
      BY <2>3 DEF Place
    <2> QED
      BY <2>3, <2>4 DEF tx
  <1>6. Place \subseteq Place'
    BY <1>5
  <1>7. Types'
    <2>1. cache \in Seq(Place')
      BY <1>6, SeqMonotonic DEF Types
    <2>2. job' \in [Passes -> PassOf(Place')]
      <3> DEFINE S == (SUBSET Place) \ {{}}
                 R == (SUBSET Place') \ {{}}
      <3>1. S \subseteq R
        BY <1>6
      <3> HIDE DEF S, R
      <3>2. Seq(S) \subseteq Seq(R)
        BY <3>1, SeqMonotonic
      <3>3. PassOf(Place) \subseteq PassOf(Place')
        BY <3>2 DEF PassOf, S, R
      <3> QED
        BY <1>2, <3>3 DEF Types
    <2>3. \A p \in Passes : Started(job[p])'
      <3> SUFFICES ASSUME NEW p \in Passes PROVE Started(job[p])'
        OBVIOUS
      <3>1. job[p].before \in Nat /\ Started(job[p])
        BY PassTypes DEF PassOf
      <3> QED
        BY <1>2, <1>5, <3>1 DEF Started
    <2>4. Alone'
      BY <1>2 DEF Types, Alone
    <2> QED
      BY <1>2, <1>5, <1>6, <2>1, <2>2, <2>3, <2>4 DEF Types
  <1>8. SlotsGrow'
    <2> SUFFICES ASSUME NEW i \in Place', NEW j \in Place', i <= j PROVE Slot(i)' <= Slot(j)'
      BY DEF SlotsGrow
    <2>1. CASE j \in Place
      <3>1. i \in Place
        BY <1>5, <2>1
      <3> QED
        BY <1>5, <2>1, <3>1 DEF SlotsGrow, Slot
    <2>2. CASE j = Len(chain) + 1
      BY <1>1, <1>3, <1>5, <2>2 DEF Slot
    <2> QED
      BY <1>5, <2>1, <2>2
  <1>9. Pages => PagesInv'
    <2> SUFFICES ASSUME Pages PROVE PagesInv'
      OBVIOUS
    <2>1. Closed'
      BY <1>2, <1>5, ClosedKept DEF PagesInv
    <2>2. ASSUME NEW p \in Passes PROVE (Covers(job[p]) /\ Descends(job[p]))'
      BY <1>2, <1>5, <1>6, CoverKept DEF PagesInv
    <2>3. ASSUME expiries' = 0, NEW p \in Passes, job'[p].pc # "idle" PROVE Unseen(job[p])'
      BY <1>2, <1>5, <2>3, UnseenKept DEF PagesInv
    <2> QED
      BY <2>1, <2>2, <2>3 DEF PagesInv
  <1> QED
    BY <1>2, <1>7, <1>8, <1>9 DEF Pages

-----------------------------------------------------------------------------
(* A pass that ends, whatever it leaves, leaves no gap.                    *)
LEMMA PassEnds ==
  ASSUME Sizes, SolInv, NEW p \in Passes, job' = [job EXCEPT ![p] = Idle],
         lock' \in {lock, LockFreedBy(p)},
         UNCHANGED <<indexer, chain, table, tips, scanned, cache, expiries>>
  PROVE  SolInv'
  <1> USE DEF SolInv
  <1>1. /\ job'[p] = Idle /\ \A q \in Passes : q # p => job'[q] = job[q]
        /\ Idle \in PassOf(Place) /\ Idle.pc = "idle" /\ Idle.batches = <<>>
    <2>1. <<>> \in Seq((SUBSET Place) \ {{}})
      BY EmptySeq
    <2> QED
      BY <2>1 DEF Types, Idle, PassOf, Newest
  <1>2. Types'
    <2>1. job' \in [Passes -> PassOf(Place)]
      BY <1>1 DEF Types
    <2>2. \A q \in Passes : Started(job[q])'
      BY <1>1 DEF Types, Started
    <2>3. lock' \in Passes \cup {NoPass} /\ Alone'
      BY <1>1 DEF Types, Alone, LockFreedBy
    <2> QED
      BY <2>1, <2>2, <2>3 DEF Types, Place
  <1>3. SlotsGrow' /\ Pages' = Pages
    BY DEF SlotsGrow, Slot, Place, Pages
  <1>4. ASSUME Pages PROVE PagesInv'
    <2>1. Closed'
      BY <1>4, ClosedKept DEF PagesInv
    <2>2. ASSUME NEW q \in Passes PROVE (Covers(job[q]) /\ Descends(job[q]))'
      <3>1. CASE q = p
        BY <1>1, <3>1 DEF Covers, Descends
      <3>2. CASE q # p
        BY <1>1, <1>4, <3>2, CoverKept DEF PagesInv, Place
      <3> QED
        BY <3>1, <3>2
    <2>3. ASSUME expiries' = 0, NEW q \in Passes, job'[q].pc # "idle" PROVE Unseen(job[q])'
      BY <1>1, <1>4, <2>3, UnseenKept DEF PagesInv
    <2> QED
      BY <2>1, <2>2, <2>3 DEF PagesInv
  <1> QED
    BY <1>2, <1>3, <1>4

(* So does a lock that goes, whoever held it.                              *)
LEMMA LockGoes ==
  ASSUME Sizes, SolInv, LockLapses \/ LockExpires
  PROVE  SolInv'
  <1> USE DEF SolInv
  <1>1. /\ lock # NoPass /\ lock' = NoPass /\ lock \in Passes /\ expiries' \in Nat
        /\ expiries' = 0 => expiries = 0 /\ job[lock].pc = "idle"
        /\ UNCHANGED <<indexer, chain, table, tips, scanned, cache, job>>
    BY DEF LockLapses, LockExpires, Types
  <1>2. Types'
    <2>1. Alone'
      BY <1>1 DEF Types, Alone
    <2>2. \A q \in Passes : Started(job[q])'
      BY <1>1 DEF Types, Started
    <2> QED
      BY <1>1, <2>1, <2>2 DEF Types, Place
  <1>3. SlotsGrow' /\ Pages' = Pages
    BY <1>1 DEF SlotsGrow, Slot, Place, Pages
  <1>4. ASSUME Pages PROVE PagesInv'
    <2>1. Closed'
      BY <1>1, <1>4, ClosedKept DEF PagesInv
    <2>2. ASSUME NEW q \in Passes PROVE (Covers(job[q]) /\ Descends(job[q]))'
      BY <1>1, <1>4, CoverKept DEF PagesInv, Place
    <2>3. ASSUME expiries' = 0, NEW q \in Passes, job'[q].pc # "idle" PROVE Unseen(job[q])'
      BY <1>1, <1>4, <2>3, UnseenKept DEF PagesInv
    <2> QED
      BY <2>1, <2>2, <2>3 DEF PagesInv
  <1> QED
    BY <1>2, <1>3, <1>4

-----------------------------------------------------------------------------
(* A walk starts above the chain, at the newest slot of the table.         *)
LEMMA LatestIsNewest ==
  ASSUME Sizes, Types
  PROVE  LatestSlot \in Int /\ (Pages => \A t \in table : Slot(t) <= LatestSlot)
  <1> USE SlotTypes
  <1>1. Slots \in SUBSET (1..MaxSlot)
    BY DEF Slots, Types
  <1>2. CASE table # {}
    <2>1. Slots # {}
      BY <1>2 DEF Slots
    <2>2. MaxOf(Slots) \in Slots /\ \A y \in Slots : y <= MaxOf(Slots)
      BY <1>1, <2>1, Extremes DEF Sizes
    <2>3. \A t \in table : Slot(t) \in Slots
      BY DEF Slots
    <2>4. scanned \in Int
      BY DEF Types, NoSlot, Sizes
    <2>5. LatestSlot = IF indexer = "spl" THEN scanned ELSE MaxOf(Slots)
      BY <1>2 DEF LatestSlot
    <2>6. MaxOf(Slots) \in Int
      <3>1. MaxOf(Slots) \in 1..MaxSlot
        BY <1>1, <2>2
      <3> QED
        BY <3>1
    <2> QED
      BY <2>2, <2>3, <2>4, <2>5, <2>6 DEF Pages
  <1>3. CASE table = {}
    BY <1>3 DEF LatestSlot, Types, NoSlot, Sizes
  <1> QED
    BY <1>2, <1>3

LEMMA PassStarts ==
  ASSUME Sizes, SolInv, NEW p \in Passes, Start(p)
  PROVE  SolInv'
  <1> USE SlotTypes DEF SolInv
  <1> DEFINE l == LatestSlot
             cached == ~Pages /\ l # NoSlot /\ CacheHit(cache, l) # {}
             start == IF cached THEN cache[FirstHit(cache, l)] ELSE Newest
             begun == [Idle EXCEPT !.pc = "walk", !.latest = l, !.before = start]
  <1>1. /\ job' = [job EXCEPT ![p] = begun]
        /\ cache' = IF Pages \/ l = NoSlot THEN cache
                    ELSE IF cached THEN CacheLeft(cache, FirstHit(cache, l)) ELSE <<>>
        /\ lock = NoPass /\ lock' = p
        /\ UNCHANGED <<indexer, chain, table, tips, scanned, expiries>>
    BY DEF Start
  <1>2. l \in Int
    BY LatestIsNewest
  <1>3. ASSUME cached PROVE FirstHit(cache, l) \in DOMAIN cache
    <2>1. CacheHit(cache, l) \in SUBSET (1..Len(cache)) /\ CacheHit(cache, l) # {}
      BY <1>3 DEF CacheHit
    <2>2. FirstHit(cache, l) \in CacheHit(cache, l)
      BY <2>1, Extremes DEF FirstHit
    <2> QED
      BY <2>1, <2>2
  <1>4. start \in 0..Len(chain)
    BY <1>3 DEF Newest
  <1>5. cache' \in Seq(Place)
    <2>1. CASE cached
      <3> DEFINE k == FirstHit(cache, l)
      <3>1. k \in 1..Len(cache)
        BY <1>3, <2>1
      <3>2. SubSeq(cache, k + 1, Len(cache)) \in Seq(Place)
        <4>1. k + 1 \in Int /\ Len(cache) \in Int /\ \A i \in (k + 1)..Len(cache) : cache[i] \in Place
          BY <3>1
        <4> HIDE DEF k
        <4> QED
          BY <4>1, SubSeqProperties
      <3> QED
        BY <1>1, <2>1, <3>2, EmptySeq DEF CacheLeft
    <2>2. CASE ~cached
      BY <1>1, <2>2, EmptySeq DEF Types
    <2> QED
      BY <2>1, <2>2
  <1> HIDE DEF l, cached, start
  <1>6. /\ begun \in PassOf(Place) /\ begun.pc = "walk" /\ begun.batches = <<>> /\ begun.latest = l
        /\ begun.before = start
    <2>1. <<>> \in Seq((SUBSET Place) \ {{}})
      BY EmptySeq
    <2>2. Idle \in PassOf(Place) /\ Idle.batches = <<>>
      BY <2>1 DEF Idle, PassOf, Newest
    <2>3. start \in Nat
      BY <1>4
    <2> QED
      BY <1>2, <2>2, <2>3 DEF PassOf
  <1> HIDE DEF begun
  <1>7. job'[p] = begun /\ \A q \in Passes : q # p => job'[q] = job[q]
    BY <1>1 DEF Types
  <1>8. Types'
    <2>1. job' \in [Passes -> PassOf(Place)]
      BY <1>1, <1>6 DEF Types
    <2>2. \A q \in Passes : Started(job[q])'
      <3> SUFFICES ASSUME NEW q \in Passes PROVE Started(job[q])'
        OBVIOUS
      <3>1. CASE q = p
        BY <1>1, <1>4, <1>6, <1>7, <3>1 DEF Started
      <3>2. CASE q # p
        BY <1>1, <1>7, <3>2 DEF Types, Started
      <3> QED
        BY <3>1, <3>2
    <2>3. lock' \in Passes \cup {NoPass} /\ Alone'
      BY <1>1, <1>7 DEF Types, Alone, Sizes
    <2> QED
      BY <1>1, <1>5, <2>1, <2>2, <2>3 DEF Types, Place
  <1>9. SlotsGrow' /\ Pages' = Pages
    BY <1>1 DEF SlotsGrow, Slot, Place, Pages
  <1>10. ASSUME Pages PROVE PagesInv'
    <2>1. Closed'
      BY <1>1, <1>10, ClosedKept DEF PagesInv
    <2>2. ASSUME NEW q \in Passes PROVE (Covers(job[q]) /\ Descends(job[q]))'
      <3>1. CASE q = p
        BY <1>6, <1>7, <3>1 DEF Covers, Descends
      <3>2. CASE q # p
        BY <1>1, <1>7, <1>10, <3>2, CoverKept DEF PagesInv, Place
      <3> QED
        BY <3>1, <3>2
    <2>3. ASSUME expiries' = 0, NEW q \in Passes, job'[q].pc # "idle" PROVE Unseen(job[q])'
      <3>1. CASE q = p
        <4>1. \A t \in table : Slot(t) <= l
          BY <1>10, LatestIsNewest DEF l
        <4> QED
          BY <1>1, <1>6, <1>7, <3>1, <4>1 DEF Unseen, Slot
      <3>2. CASE q # p
        BY <1>1, <1>7, <1>10, <2>3, <3>2, UnseenKept DEF PagesInv
      <3> QED
        BY <3>1, <3>2
    <2> QED
      BY <2>1, <2>2, <2>3 DEF PagesInv
  <1> QED
    BY <1>8, <1>9, <1>10

-----------------------------------------------------------------------------
(* A page is the places below the one reached, down to its lowest.         *)
Reached(p) == IF job[p].before = Newest THEN Len(chain) + 1 ELSE job[p].before
LEMMA PageIsInterval ==
  ASSUME Sizes, Types, NEW p \in Passes, job[p].pc = "walk"
  PROVE  /\ Page(p) \in SUBSET Place
         /\ Reached(p) \in 1..(Len(chain) + 1)
         /\ \A i \in Page(p) : i < Reached(p) /\ \A j \in i..(Reached(p) - 1) : j \in Page(p)
         /\ Page(p) = {} => Reached(p) = 1
  <1> USE SlotTypes
  <1>1. Reached(p) \in 1..(Len(chain) + 1)
    BY PassTypes DEF Reached, Started, PassOf, Newest
  <1>2. PICK n \in Nat \ {0} : Page(p) = {i \in 1..(Reached(p) - 1) : i >= Reached(p) - n}
    BY DEF Page, Reached, Sizes
  <1>3. Reached(p) > 1 => Reached(p) - 1 \in Page(p)
    BY <1>1, <1>2
  <1> QED
    BY <1>1, <1>2, <1>3

LEMMA HistoryEnds ==
  ASSUME Sizes, SolInv, NEW p \in Passes, EndOfHistory(p)
  PROVE  SolInv'
  <1> USE DEF SolInv
  <1>1. /\ job' = [job EXCEPT ![p].pc = "work", ![p].known = Accounts(table) # {}]
        /\ job[p].pc = "walk" /\ Page(p) = {}
        /\ UNCHANGED <<indexer, chain, table, tips, scanned, cache, lock, expiries>>
    BY DEF EndOfHistory
  <1>2. /\ job'[p].pc = "work" /\ job'[p].batches = job[p].batches /\ job'[p] \in PassOf(Place)
        /\ \A q \in Passes : q # p => job'[q] = job[q]
    BY <1>1 DEF Types, PassOf
  <1>3. \A k \in DOMAIN job[p].batches : job[p].before <= 1
    <2>1. Reached(p) = 1
      BY <1>1, PageIsInterval
    <2>2. job[p].before = Newest => job[p].batches = <<>>
      BY <1>1, PassTypes DEF Started
    <2> QED
      BY <2>1, <2>2 DEF Reached
  <1>4. Types'
    <2>1. job' \in [Passes -> PassOf(Place)]
      BY <1>1, <1>2 DEF Types
    <2>2. \A q \in Passes : Started(job[q])'
      BY <1>1, <1>2 DEF Types, Started
    <2>3. Alone'
      BY <1>1, <1>2 DEF Types, Alone
    <2> QED
      BY <1>1, <2>1, <2>2, <2>3 DEF Types, Place
  <1>5. SlotsGrow' /\ Pages' = Pages /\ \A i : Slot(i)' = Slot(i) /\ Relevant(i)' = Relevant(i)
    BY <1>1 DEF SlotsGrow, Slot, Place, Pages, Relevant
  <1>6. ASSUME Pages PROVE PagesInv'
    <2>1. Closed'
      BY <1>1, <1>6, ClosedKept DEF PagesInv
    <2>2. ASSUME NEW q \in Passes PROVE (Covers(job[q]) /\ Descends(job[q]))'
      <3>1. CASE q = p
        <4>1. Covers(job[p]) /\ Descends(job[p])
          BY <1>6 DEF PagesInv
        <4>2. Descends(job[p])'
          BY <1>2, <4>1 DEF Descends
        <4>3. \A k \in DOMAIN job[p].batches : \A e \in job[p].batches[k] : \A i \in 1..e : job[p].before <= i
          BY <1>3, PassTypes, SlotTypes DEF PassOf
        <4>4. Covers(job[p])'
          BY <1>1, <1>2, <1>5, <4>1, <4>3 DEF Covers
        <4> QED
          BY <3>1, <4>2, <4>4
      <3>2. CASE q # p
        BY <1>1, <1>2, <1>6, <3>2, CoverKept DEF PagesInv, Place
      <3> QED
        BY <3>1, <3>2
    <2>3. ASSUME expiries' = 0, NEW q \in Passes, job'[q].pc # "idle" PROVE Unseen(job[q])'
      <3>1. CASE q = p
        BY <1>1, <1>2, <1>6, <2>3, <3>1 DEF PagesInv, Unseen
      <3>2. CASE q # p
        BY <1>1, <1>2, <1>6, <2>3, <3>2, UnseenKept DEF PagesInv
      <3> QED
        BY <3>1, <3>2
    <2> QED
      BY <2>1, <2>2, <2>3 DEF PagesInv
  <1> QED
    BY <1>4, <1>5, <1>6

-----------------------------------------------------------------------------
(* What is kept of the pages are the oldest ones, all of them unless there *)
(* are too many.                                                           *)
LEMMA KeepsOldest ==
  ASSUME Sizes, NEW S, NEW B \in Seq(S)
  PROVE  /\ Bounded(B) \in Seq(S)
         /\ \E d \in Nat : /\ Len(Bounded(B)) = Len(B) - d
                           /\ \A k \in 1..Len(Bounded(B)) : Bounded(B)[k] = B[k + d]
  <1>1. CASE indexer # "plays" /\ Len(B) > MaxBatches
    <2> DEFINE d == Len(B) - Resize
    <2>1. d \in Nat /\ Resize \in Nat /\ d + Resize = Len(B)
      BY <1>1 DEF Sizes
    <2>2. Bounded(B) = SubSeq(B, d + 1, Len(B))
      BY <1>1 DEF Bounded
    <2>3. /\ SubSeq(B, d + 1, Len(B)) \in Seq(S) /\ Len(SubSeq(B, d + 1, Len(B))) = Len(B) - d
          /\ \A k \in 1..(Len(B) - d) : SubSeq(B, d + 1, Len(B))[k] = B[k + d]
      BY <2>1
    <2> QED
      BY <2>1, <2>2, <2>3
  <1>2. CASE ~(indexer # "plays" /\ Len(B) > MaxBatches)
    <2>1. Bounded(B) = B
      BY <1>2 DEF Bounded
    <2>2. Len(B) \in Nat /\ 0 \in Nat /\ Len(B) = Len(B) - 0 /\ \A k \in 1..Len(B) : B[k] = B[k + 0]
      OBVIOUS
    <2> QED
      BY <2>1, <2>2
  <1> QED
    BY <1>1, <1>2

LEMMA PageFetched ==
  ASSUME Sizes, SolInv, NEW p \in Passes, FetchPage(p)
  PROVE  SolInv'
  <1> USE SlotTypes DEF SolInv
  <1> DEFINE all == indexer = "spl" /\ job[p].latest = NoSlot
             met == {i \in Page(p) : IsIntersection(p, i)}
             batch == IF all THEN Page(p) ELSE {i \in Page(p) : IsTaken(p, i) /\ \A m \in met : m < i}
             old == job[p].batches
             more == IF batch = {} THEN old ELSE Append(old, batch)
             low == MinOf(Page(p))
             known == Accounts(table) # {}
  <1>1. /\ job[p].pc = "walk" /\ Page(p) # {}
        /\ job' = [job EXCEPT ![p].pc = IF all \/ met # {} THEN "work" ELSE "walk",
                              ![p].before = low, ![p].first = FALSE, ![p].batches = Bounded(more),
                              ![p].known = known]
        /\ cache' = IF Pages THEN cache ELSE <<low>> \o cache
        /\ UNCHANGED <<indexer, chain, table, tips, scanned, lock, expiries>>
    BY DEF FetchPage
  <1>2. /\ Page(p) \in SUBSET Place /\ Reached(p) \in 1..(Len(chain) + 1)
        /\ \A i \in Page(p) : i < Reached(p) /\ \A j \in i..(Reached(p) - 1) : j \in Page(p)
    BY <1>1, PageIsInterval
  <1>3. low \in Page(p) /\ low \in Place /\ \A i \in Page(p) : low <= i
    BY <1>1, <1>2, Extremes
  <1>4. batch \in SUBSET Page(p)
    OBVIOUS
  <1>5. /\ old \in Seq((SUBSET Place) \ {{}}) /\ job[p] \in PassOf(Place)
        /\ DOMAIN old = 1..Len(old) /\ Len(old) \in Nat
        /\ \A k \in DOMAIN old : old[k] \subseteq Place
        /\ DOMAIN old # {} => Reached(p) = job[p].before
    <2>1. /\ old \in Seq((SUBSET Place) \ {{}}) /\ job[p] \in PassOf(Place)
          /\ DOMAIN old = 1..Len(old) /\ Len(old) \in Nat
          /\ \A k \in DOMAIN old : old[k] \subseteq Place
      BY PassTypes
    <2>2. job[p].before = Newest => old = <<>>
      BY <1>1, PassTypes DEF Started
    <2>3. old = <<>> => DOMAIN old = {}
      OBVIOUS
    <2> QED
      BY <2>1, <2>2, <2>3 DEF Reached
  <1>6. more \in Seq((SUBSET Place) \ {{}}) /\ Len(more) \in Nat
    <2>1. batch # {} => batch \in (SUBSET Place) \ {{}}
      BY <1>2, <1>4
    <2> HIDE DEF batch, old
    <2>2. more \in Seq((SUBSET Place) \ {{}})
      BY <1>5, <2>1, AppendProperties
    <2> QED
      BY <2>2, LenProperties
  <1>7. PICK d \in Nat : /\ Bounded(more) \in Seq((SUBSET Place) \ {{}})
                         /\ Len(Bounded(more)) = Len(more) - d
                         /\ \A k \in 1..Len(Bounded(more)) : Bounded(more)[k] = more[k + d]
    <2> HIDE DEF more
    <2> QED
      BY <1>6, KeepsOldest
  <1> DEFINE r == job'[p]
  <1>8. /\ r.pc = (IF all \/ met # {} THEN "work" ELSE "walk") /\ r.before = low
        /\ r.latest = job[p].latest /\ r.batches = Bounded(more) /\ r \in PassOf(Place)
        /\ job' \in [Passes -> PassOf(Place)]
        /\ \A q \in Passes : q # p => job'[q] = job[q]
    <2> DEFINE made == [job[p] EXCEPT !.pc = IF all \/ met # {} THEN "work" ELSE "walk", !.before = low,
                                      !.first = FALSE, !.batches = Bounded(more), !.known = known]
    <2> HIDE DEF more, batch, met, all, low, old, known
    <2>1. low \in Nat /\ known \in BOOLEAN
      BY <1>3 DEF known
    <2>2. made \in PassOf(Place)
      BY <1>5, <1>7, <2>1 DEF PassOf
    <2>3. /\ made.pc = (IF all \/ met # {} THEN "work" ELSE "walk") /\ made.before = low
          /\ made.latest = job[p].latest /\ made.batches = Bounded(more)
      BY <1>5 DEF PassOf
    <2>4. job' = [job EXCEPT ![p] = made]
      BY <1>1
    <2> HIDE DEF made
    <2>5. job'[p] = made /\ \A q \in Passes : q # p => job'[q] = job[q]
      BY <2>4 DEF Types
    <2>6. job' \in [Passes -> PassOf(Place)]
      BY <2>2, <2>4 DEF Types
    <2> QED
      BY <2>2, <2>3, <2>5, <2>6
  <1>9. Types'
    <2> HIDE DEF more, batch, met, all, low, old, known
    <2>1. cache' \in Seq(Place)
      <3>1. cache \in Seq(Place) /\ <<low>> \in Seq(Place)
        BY <1>3 DEF Types
      <3>2. <<low>> \o cache \in Seq(Place)
        BY <3>1, ConcatProperties
      <3> QED
        BY <1>1, <3>1, <3>2
    <2>2. \A q \in Passes : Started(job[q])'
      <3> SUFFICES ASSUME NEW q \in Passes PROVE Started(job[q])'
        OBVIOUS
      <3>1. CASE q = p
        <4>1. job'[p].pc # "idle" /\ job'[p].before = low
          BY <1>8
        <4>2. low \in 1..Len(chain) /\ chain' = chain
          BY <1>1, <1>3
        <4>3. low <= Len(chain) /\ low # 0
          BY <4>2
        <4> QED
          BY <3>1, <4>1, <4>2, <4>3 DEF Started, Newest
      <3>2. CASE q # p
        BY <1>1, <1>8, <3>2 DEF Types, Started
      <3> QED
        BY <3>1, <3>2
    <2>3. Alone'
      BY <1>1, <1>8 DEF Types, Alone
    <2> QED
      BY <1>1, <1>8, <2>1, <2>2, <2>3 DEF Types, Place
  <1>10. SlotsGrow' /\ Pages' = Pages /\ \A i : Slot(i)' = Slot(i) /\ Relevant(i)' = Relevant(i)
    BY <1>1 DEF SlotsGrow, Slot, Place, Pages, Relevant
  <1>11. ASSUME Pages PROVE PagesInv'
    <2>1. PagesInv /\ Closed /\ Covers(job[p]) /\ Descends(job[p]) /\ table \subseteq Place
      BY <1>11 DEF PagesInv, Types
    <2>2. ~all /\ batch = {i \in Page(p) : IsTaken(p, i) /\ \A m \in met : m < i}
      BY <1>11 DEF Pages
    <2>3. \A i \in Page(p) : i \in met <=> Slot(i) <= job[p].latest /\ i \in table /\ Slot(i) > MinSlot
      BY <1>11 DEF Pages, IsIntersection
    <2>4. \A i \in Page(p) : IsTaken(p, i) <=> Slot(i) > job[p].latest \/ Slot(i) > MinSlot
      BY <1>11 DEF Pages, IsTaken
    <2>5. /\ DOMAIN r.batches = 1..(Len(more) - d) /\ Len(more) - d \in Nat
          /\ \A k \in 1..(Len(more) - d) : r.batches[k] = more[k + d] /\ k + d \in 1..Len(more)
      <3>1. Len(Bounded(more)) \in Nat /\ DOMAIN r.batches = 1..Len(Bounded(more))
        BY <1>7, <1>8, LenProperties
      <3> HIDE DEF more, r
      <3>2. DOMAIN r.batches = 1..(Len(more) - d) /\ Len(more) - d \in Nat
        BY <1>7, <3>1
      <3>3. \A k \in 1..(Len(more) - d) : r.batches[k] = more[k + d]
        BY <1>7, <1>8, <3>1
      <3>4. \A k \in 1..(Len(more) - d) : k + d \in 1..Len(more)
        BY <1>6, <1>7, <3>2
      <3> QED
        BY <3>2, <3>3, <3>4
    <2>6. /\ \A k \in 1..Len(more) : \/ k \in DOMAIN old /\ more[k] = old[k]
                                     \/ k = Len(old) + 1 /\ more[k] = batch
          /\ \A k \in DOMAIN old : k \in 1..Len(more) /\ more[k] = old[k]
          /\ batch # {} => Len(more) = Len(old) + 1 /\ more[Len(more)] = batch
      <3>1. CASE batch = {}
        BY <1>5, <3>1
      <3>2. CASE batch # {}
        <4>1. more = Append(old, batch) /\ batch \in (SUBSET Place) \ {{}}
          BY <1>2, <1>4, <3>2
        <4> HIDE DEF batch, more, old
        <4>2. /\ Len(more) = Len(old) + 1 /\ more[Len(old) + 1] = batch
              /\ \A k \in DOMAIN old : more[k] = old[k]
          BY <1>5, <4>1, AppendProperties
        <4> QED
          BY <1>5, <4>2
      <3> QED
        BY <3>1, <3>2
    <2> HIDE DEF batch, more, low, all, old, r, met, known
    \* The pages so far, before some are dropped.
    <2>7. \A j, k \in 1..Len(more) : j < k => \A x \in more[j], y \in more[k] : y < x
      <3> SUFFICES ASSUME NEW j \in 1..Len(more), NEW k \in 1..Len(more), j < k,
                          NEW x \in more[j], NEW y \in more[k]
                   PROVE  y < x
        OBVIOUS
      <3>1. j \in DOMAIN old /\ x \in old[j]
        <4>1. j < Len(more)
          BY <1>6
        <4>2. batch # {} => ~(j = Len(old) + 1)
          BY <2>6, <4>1
        <4> QED
          BY <2>6, <4>2
      <3>2. CASE k \in DOMAIN old /\ more[k] = old[k]
        BY <2>1, <3>1, <3>2 DEF Descends, old
      <3>3. CASE more[k] = batch
        <4>1. y \in Place /\ y < Reached(p) /\ x \in Place
          BY <1>2, <1>4, <1>5, <3>1, <3>3
        <4>2. Reached(p) <= x
          BY <1>1, <1>5, <2>1, <3>1 DEF Descends, old
        <4> QED
          BY <1>2, <4>1, <4>2
      <3> QED
        BY <2>6, <3>2, <3>3
    <2>8. ASSUME NEW k \in 1..Len(more), NEW e \in more[k] PROVE e \in Place /\ low <= e
      <3>1. CASE k \in DOMAIN old /\ more[k] = old[k]
        <4>1. e \in Place /\ Reached(p) <= e
          BY <1>1, <1>5, <2>1, <2>8, <3>1 DEF Descends, old
        <4> QED
          BY <1>2, <1>3, <4>1
      <3>2. CASE more[k] = batch
        BY <1>2, <1>3, <1>4, <2>8, <3>2
      <3> QED
        BY <2>6, <3>1, <3>2
    <2>9. ASSUME NEW k \in 1..Len(more), NEW e \in more[k], NEW i \in 1..e, Relevant(i),
                 low <= i \/ met # {}, i \notin table
          PROVE  \E l \in 1..Len(more) : k <= l /\ i \in more[l]
      <3>1. i \in Place /\ e \in Place
        BY <2>8
      <3>2. \A m \in met : m \in table /\ m \in Page(p) /\ m \in Place /\ low <= m /\ m < i
        <4> SUFFICES ASSUME NEW m \in met PROVE m \in table /\ m \in Page(p) /\ m \in Place /\ low <= m /\ m < i
          OBVIOUS
        <4>1. m \in Page(p)
          BY DEF met
        <4>2. m \in table /\ m \in Place /\ low <= m
          BY <1>2, <1>3, <2>3, <4>1
        <4>3. ~(i <= m)
          BY <2>1, <2>9, <3>1, <4>2 DEF Closed
        <4> QED
          BY <3>1, <4>1, <4>2, <4>3
      <3>3. low <= i
        BY <1>3, <2>9, <3>1, <3>2
      <3>4. CASE i < Reached(p)
        <4>1. i \in Page(p)
          <5>1. i \in low..(Reached(p) - 1)
            BY <1>2, <1>3, <3>1, <3>3, <3>4
          <5> QED
            BY <1>2, <1>3, <5>1
        <4>2. Slot(i) > MinSlot
          BY <1>11, <2>9 DEF Relevant
        <4>3. i \in batch
          BY <2>2, <2>4, <3>2, <4>1, <4>2
        <4>4. Len(more) \in 1..Len(more) /\ k <= Len(more) /\ more[Len(more)] = batch
          BY <1>5, <1>6, <2>6, <4>3
        <4> QED
          BY <4>3, <4>4
      <3>5. CASE ~(i < Reached(p))
        <4>1. e \notin batch
          BY <1>2, <1>4, <3>1, <3>5
        <4>2. k \in DOMAIN old /\ e \in old[k]
          BY <2>6, <2>9, <4>1
        <4>3. job[p].before <= i
          BY <1>2, <1>5, <3>1, <3>5, <4>2
        <4>4. \E l \in DOMAIN old : k <= l /\ i \in old[l]
          BY <2>1, <2>9, <4>2, <4>3 DEF Covers, old
        <4> QED
          BY <2>6, <4>4
      <3> QED
        BY <3>4, <3>5
    <2>10. Descends(job[p])'
      <3>1. ASSUME NEW j \in DOMAIN r.batches, NEW k \in DOMAIN r.batches, j < k,
                   NEW x \in r.batches[j], NEW y \in r.batches[k]
            PROVE  y < x
        <4>1. j + d \in 1..Len(more) /\ k + d \in 1..Len(more) /\ j + d < k + d
          <5>1. j \in 1..(Len(more) - d) /\ k \in 1..(Len(more) - d)
            BY <2>5
          <5>2. j \in Int /\ k \in Int
            BY <5>1
          <5>3. j + d < k + d
            BY <3>1, <5>2
          <5> QED
            BY <2>5, <5>1, <5>3
        <4> QED
          BY <2>5, <2>7, <3>1, <4>1
      <3>2. ASSUME NEW k \in DOMAIN r.batches, NEW e \in r.batches[k] PROVE low <= e
        BY <2>5, <2>8, <3>2
      <3> QED
        BY <1>8, <3>1, <3>2 DEF Descends, r
    <2>11. Covers(job[p])'
      <3> SUFFICES ASSUME NEW k \in DOMAIN r.batches, NEW e \in r.batches[k], NEW i \in 1..e,
                          Relevant(i), r.pc = "walk" => low <= i, i \notin table
                   PROVE  \E l \in DOMAIN r.batches : k <= l /\ i \in r.batches[l]
        <4>1. table' = table /\ r.before = low
          BY <1>1, <1>8
        <4> QED
          BY <1>10, <4>1 DEF Covers, r
      <3>1. k \in 1..(Len(more) - d) /\ e \in more[k + d] /\ k + d \in 1..Len(more)
        BY <2>5
      <3>2. low <= i \/ met # {}
        BY <1>8, <2>2
      <3>3. PICK l \in 1..Len(more) : k + d <= l /\ i \in more[l]
        BY <2>9, <3>1, <3>2
      <3>4. l - d \in 1..(Len(more) - d) /\ (l - d) + d = l /\ k <= l - d
        <4>1. k \in Nat \ {0} /\ l \in Nat /\ k + d <= l /\ l <= Len(more)
          BY <3>1, <3>3
        <4>2. Len(more) \in Nat
          BY <1>6
        <4> QED
          BY <4>1, <4>2
      <3> QED
        BY <2>5, <3>3, <3>4
    <2>12. ASSUME expiries = 0 PROVE Unseen(job[p])'
      <3>1. Unseen(job[p])
        BY <1>1, <2>1, <2>12 DEF PagesInv
      <3>2. ASSUME NEW e \in batch PROVE e \notin table
        <4> SUFFICES ASSUME e \in table PROVE FALSE
          OBVIOUS
        <4>1. e \in Page(p) /\ IsTaken(p, e) /\ (\A m \in met : m < e) /\ e \in Place
          BY <1>2, <2>2
        <4>2. Slot(e) <= job[p].latest /\ Slot(e) \in Int /\ job[p].latest \in Int
          <5>1. Slot(e) <= job[p].latest
            BY <1>1, <3>1 DEF Unseen
          <5>2. job[p].latest \in Int
            BY <1>5 DEF PassOf
          <5> QED
            BY <4>1, <5>1, <5>2
        <4>3. Slot(e) > MinSlot
          BY <2>4, <4>1, <4>2
        <4>4. e \in met
          BY <2>3, <4>1, <4>2, <4>3
        <4> QED
          BY <4>1, <4>4
      <3>3. \A k \in 1..Len(more) : more[k] \cap table = {}
        BY <2>6, <3>1, <3>2 DEF Unseen, old
      <3>4. \A k \in DOMAIN r.batches : r.batches[k] \cap table = {}
        BY <2>5, <3>3
      <3>5. \A t \in table : Slot(t) <= r.latest
        BY <1>1, <1>8, <3>1 DEF Unseen
      <3> QED
        BY <1>1, <1>10, <3>4, <3>5 DEF Unseen, r
    <2>13. Closed'
      BY <1>1, <2>1, ClosedKept
    <2>14. ASSUME NEW q \in Passes, q # p
           PROVE  /\ (Covers(job[q]) /\ Descends(job[q]))'
                  /\ expiries = 0 /\ job'[q].pc # "idle" => Unseen(job[q])'
      <3>1. job'[q] = job[q]
        BY <1>8, <2>14
      <3>2. (Covers(job[q]) /\ Descends(job[q]))'
        BY <1>1, <1>11, <2>1, <3>1, CoverKept DEF PagesInv, Place
      <3>3. expiries = 0 /\ job'[q].pc # "idle" => Unseen(job[q])'
        BY <1>1, <2>1, <3>1, UnseenKept DEF PagesInv
      <3> QED
        BY <3>2, <3>3
    <2> QED
      BY <1>1, <2>10, <2>11, <2>12, <2>13, <2>14 DEF PagesInv
  <1> QED
    BY <1>9, <1>10, <1>11

-----------------------------------------------------------------------------
(* The work on the oldest page leaves the others, and a rest of it if the  *)
(* pages are cut into chunks.                                              *)
LEMMA ChunkTaken ==
  ASSUME Sizes, Types, NEW p \in Passes, job[p].batches # <<>>
  PROVE  /\ Len(job[p].batches) \in Nat \ {0}
         /\ Last(job[p].batches) = job[p].batches[Len(job[p].batches)]
         /\ Chunk(p) \subseteq Last(job[p].batches) /\ Chunk(p) # {} /\ Chunk(p) \subseteq Place
         /\ BatchesLeft(p) \in Seq((SUBSET Place) \ {{}})
         /\ Pages => Chunk(p) = Last(job[p].batches) /\ BatchesLeft(p) = Front(job[p].batches)
  <1> USE SlotTypes
  <1> DEFINE B == job[p].batches
             n == Len(B)
             b == B[n]
             rest == b \ Chunk(p)
             S == (SUBSET Place) \ {{}}
  <1>1. B \in Seq(S) /\ DOMAIN B = 1..Len(B) /\ \A k \in DOMAIN B : B[k] \in SUBSET Place /\ B[k] # {}
    BY PassTypes
  <1>2. n \in Nat \ {0}
    <2> HIDE DEF S, B
    <2>1. B # <<>>
      BY DEF B
    <2> QED
      BY <1>1, <2>1, EmptySeq
  <1>3. Last(B) = b /\ b \in SUBSET Place /\ b # {}
    BY <1>1, <1>2 DEF Last
  <1>4. Chunk(p) = IF Pages THEN b ELSE {i \in b : Cardinality({j \in b : j > i}) < ChunkSize}
    BY <1>3 DEF Chunk
  <1>5. Chunk(p) # {}
    <2> HIDE DEF B, n, b
    <2>1. MaxOf(b) \in b /\ {j \in b : j > MaxOf(b)} = {}
      <3>1. MaxOf(b) \in b /\ \A y \in b : y <= MaxOf(b)
        BY <1>3, Extremes
      <3>2. \A y \in b : y \in Nat
        BY <1>3
      <3> QED
        BY <3>1, <3>2
    <2>2. Cardinality({j \in b : j > MaxOf(b)}) < ChunkSize
      <3> DEFINE D == {j \in b : j > MaxOf(b)}
      <3>1. Cardinality(D) = 0
        <4> HIDE DEF D
        <4>1. D = {}
          BY <2>1 DEF D
        <4> QED
          BY <4>1, FS_EmptySet
      <3> HIDE DEF D
      <3>2. Cardinality(D) < ChunkSize
        BY <3>1 DEF Sizes
      <3> QED
        BY <3>2 DEF D
    <2> QED
      BY <1>3, <1>4, <2>1, <2>2
  <1>6. Front(B) \in Seq(S)
    <2>1. \A k \in 1..n : B[k] \in SUBSET Place /\ B[k] # {}
      BY <1>1
    <2>2. \A k \in 1..n : B[k] \in S
      BY <2>1
    <2> HIDE DEF S, n, B
    <2>3. 1 \in Int /\ n - 1 \in Int /\ 1..(n - 1) \subseteq 1..n
      BY <1>2
    <2>4. \A i \in 1..(n - 1) : B[i] \in S
      BY <2>2, <2>3
    <2>5. SubSeq(B, 1, n - 1) \in Seq(S)
      BY <2>3, <2>4, SubSeqProperties
    <2> QED
      BY <2>5 DEF Front, n
  <1>7. BatchesLeft(p) = Front(B) \o (IF rest = {} THEN <<>> ELSE <<rest>>)
    BY <1>3 DEF BatchesLeft
  <1>8. (IF rest = {} THEN <<>> ELSE <<rest>>) \in Seq(S)
    <2>1. rest # {} => rest \in S
      BY <1>3
    <2> HIDE DEF rest, S
    <2> QED
      BY <2>1, EmptySeq
  <1>9. BatchesLeft(p) \in Seq(S)
    <2> HIDE DEF rest, S, B
    <2> QED
      BY <1>6, <1>7, <1>8, ConcatProperties
  <1>10. Pages => Chunk(p) = b /\ BatchesLeft(p) = Front(B)
    <2> SUFFICES ASSUME Pages PROVE Chunk(p) = b /\ BatchesLeft(p) = Front(B)
      OBVIOUS
    <2>1. Chunk(p) = b /\ rest = {}
      BY <1>4
    <2> HIDE DEF rest, S, B
    <2> QED
      BY <1>6, <1>7, <2>1, ConcatEmptySeq
  <1> QED
    BY <1>2, <1>3, <1>4, <1>5, <1>9, <1>10

LEMMA TipsAreRecorded ==
  ASSUME NEW p, NEW C, NEW T \in TipSets(p, C)
  PROVE  T \subseteq Recorded(C)
  BY DEF TipSets, Transfers, Recorded, Pages

LEMMA ChunkSaved ==
  ASSUME Sizes, SolInv, NEW p \in Passes, ProcessChunk(p)
  PROVE  SolInv'
  <1> USE SlotTypes DEF SolInv
  <1>1. /\ job[p].pc = "work" /\ job[p].batches # <<>>
        /\ table' = table \cup Recorded(Chunk(p))
        /\ scanned' = IF indexer = "spl" THEN Slot(MaxOf(Chunk(p))) ELSE scanned
        /\ cache' = IF indexer = "plays" /\ Recorded(Chunk(p)) = {} THEN <<>> ELSE cache
        /\ job' = [job EXCEPT ![p].batches = BatchesLeft(p),
                              ![p].known = Accounts(table \cup Chunk(p)) # {}]
        /\ UNCHANGED <<indexer, chain, lock, expiries>>
    BY DEF ProcessChunk
  <1>2. PICK T \in TipSets(p, Chunk(p)) : tips' = tips \cup T
    BY DEF ProcessChunk
  <1>3. /\ Len(job[p].batches) \in Nat \ {0}
        /\ Last(job[p].batches) = job[p].batches[Len(job[p].batches)]
        /\ Chunk(p) \subseteq Last(job[p].batches) /\ Chunk(p) # {} /\ Chunk(p) \subseteq Place
        /\ BatchesLeft(p) \in Seq((SUBSET Place) \ {{}})
        /\ Pages => Chunk(p) = Last(job[p].batches) /\ BatchesLeft(p) = Front(job[p].batches)
    BY <1>1, ChunkTaken
  <1>4. /\ job'[p].pc = "work" /\ job'[p].batches = BatchesLeft(p) /\ job'[p] \in PassOf(Place)
        /\ \A q \in Passes : q # p => job'[q] = job[q]
    BY <1>1, <1>3 DEF Types, PassOf
  <1>5. Types'
    <2>1. table' \in SUBSET Place /\ tips' \in SUBSET table'
      <3>1. T \subseteq Recorded(Chunk(p)) /\ Recorded(Chunk(p)) \subseteq Chunk(p)
        BY TipsAreRecorded DEF Recorded
      <3> QED
        BY <1>1, <1>2, <1>3, <3>1 DEF Types
    <2>2. scanned' \in {NoSlot} \cup 1..MaxSlot
      <3>1. Chunk(p) \in SUBSET (1..Len(chain))
        BY <1>3
      <3>2. MaxOf(Chunk(p)) \in Chunk(p)
        BY <1>3, <3>1, Extremes
      <3>3. Slot(MaxOf(Chunk(p))) \in 1..MaxSlot
        BY <1>3, <3>2
      <3> QED
        BY <1>1, <3>3 DEF Types
    <2>3. cache' \in Seq(Place)
      BY <1>1, EmptySeq DEF Types
    <2>4. job' \in [Passes -> PassOf(Place)]
      BY <1>1, <1>4 DEF Types
    <2>5. \A q \in Passes : Started(job[q])'
      BY <1>1, <1>4 DEF Types, Started
    <2>6. Alone'
      BY <1>1, <1>4 DEF Types, Alone
    <2> QED
      BY <1>1, <2>1, <2>2, <2>3, <2>4, <2>5, <2>6 DEF Types, Place
  <1>6. SlotsGrow' /\ Pages' = Pages /\ \A i : Slot(i)' = Slot(i) /\ Relevant(i)' = Relevant(i)
    BY <1>1 DEF SlotsGrow, Slot, Place, Pages, Relevant
  <1>7. ASSUME Pages PROVE PagesInv'
    <2> DEFINE B == job[p].batches
               n == Len(B)
               b == B[n]
    <2>1. /\ Chunk(p) = b /\ Recorded(Chunk(p)) = b /\ table' = table \cup b
          /\ job'[p].batches = SubSeq(B, 1, n - 1)
      BY <1>1, <1>3, <1>4, <1>7 DEF Recorded, Front
    <2>2. B \in Seq((SUBSET Place) \ {{}}) /\ DOMAIN B = 1..n /\ n \in DOMAIN B
          /\ \A k \in DOMAIN B : B[k] \subseteq Place
      <3>1. B \in Seq((SUBSET Place) \ {{}}) /\ DOMAIN B = 1..n /\ \A k \in DOMAIN B : B[k] \subseteq Place
        BY PassTypes
      <3>2. n \in Nat \ {0}
        BY <1>3
      <3> HIDE DEF n, B
      <3>3. n \in 1..n
        BY <3>2
      <3> QED
        BY <3>1, <3>3
    <2>3. /\ DOMAIN job'[p].batches = 1..(n - 1)
          /\ \A k \in 1..(n - 1) : job'[p].batches[k] = B[k] /\ k \in DOMAIN B /\ k < n
      <3> HIDE DEF B
      <3>1. n \in Nat \ {0} /\ n = Len(B)
        BY <1>3 DEF B
      <3> HIDE DEF n
      <3>2. /\ Len(SubSeq(B, 1, n - 1)) = n - 1
            /\ \A k \in 1..(n - 1) : SubSeq(B, 1, n - 1)[k] = B[k]
        BY <2>2, <3>1
      <3>3. DOMAIN job'[p].batches = 1..(n - 1)
        BY <1>3, <1>4, <2>1, <3>2, LenProperties
      <3> QED
        BY <2>1, <2>2, <3>1, <3>2, <3>3
    <2>4. \A k \in DOMAIN B : k = n \/ k \in 1..(n - 1)
      BY <1>3, <2>2
    <2>5. PagesInv /\ Closed /\ Covers(job[p]) /\ Descends(job[p]) /\ table \subseteq Place
      BY <1>7 DEF PagesInv, Types
    <2> HIDE DEF n, B
    <2>6. Closed'
      <3> SUFFICES ASSUME NEW e \in table', NEW i \in 1..e, Relevant(i) PROVE i \in table'
        BY <1>6 DEF Closed
      <3>1. CASE e \in table
        BY <2>1, <2>5, <3>1 DEF Closed
      <3>2. CASE e \in b
        <4>1. i \in table \/ \E l \in DOMAIN B : n <= l /\ i \in B[l]
          BY <1>1, <2>2, <2>5, <3>2 DEF Covers, B
        <4>2. \A l \in DOMAIN B : n <= l => l = n
          BY <1>3, <2>2 DEF n, B
        <4> QED
          BY <2>1, <4>1, <4>2
      <3> QED
        BY <2>1, <3>1, <3>2
    <2>7. Descends(job[p])'
      BY <1>4, <2>3, <2>5 DEF Descends, B
    <2>8. Covers(job[p])'
      <3> SUFFICES ASSUME NEW k \in 1..(n - 1), NEW e \in B[k], NEW i \in 1..e, Relevant(i), i \notin table'
                   PROVE  \E l \in 1..(n - 1) : k <= l /\ i \in B[l]
        BY <1>4, <1>6, <2>3 DEF Covers
      <3>1. PICK l \in DOMAIN B : k <= l /\ i \in B[l]
        BY <1>1, <2>1, <2>3, <2>5 DEF Covers, B
      <3> QED
        BY <2>1, <2>4, <3>1
    <2>9. ASSUME expiries = 0 PROVE Unseen(job[p])'
      <3>1. \A k \in DOMAIN B : B[k] \cap table = {}
        BY <1>1, <2>5, <2>9 DEF PagesInv, Unseen, B
      <3>2. \A k \in 1..(n - 1) : B[k] \cap b = {}
        <4> SUFFICES ASSUME NEW k \in 1..(n - 1), NEW x \in B[k], x \in b PROVE FALSE
          OBVIOUS
        <4>1. x < x /\ x \in Place
          BY <2>2, <2>3, <2>5 DEF Descends, B
        <4> QED
          BY <4>1
      <3> QED
        BY <1>4, <2>1, <2>3, <3>1, <3>2 DEF Unseen
    <2>10. ASSUME NEW q \in Passes, q # p
           PROVE  /\ (Covers(job[q]) /\ Descends(job[q]))'
                  /\ expiries = 0 => job'[q].pc = "idle"
      <3>1. job'[q] = job[q]
        BY <1>4, <2>10
      <3>2. (Covers(job[q]) /\ Descends(job[q]))'
        BY <1>1, <1>7, <2>1, <2>5, <3>1, CoverKept DEF PagesInv, Place
      <3>3. expiries = 0 => job[q].pc = "idle"
        BY <1>1, <2>10 DEF Types, Alone
      <3> QED
        BY <3>1, <3>2, <3>3
    <2> QED
      BY <1>1, <2>6, <2>7, <2>8, <2>9, <2>10 DEF PagesInv
  <1> QED
    BY <1>5, <1>6, <1>7

-----------------------------------------------------------------------------
LEMMA InvInit ==
  ASSUME Sizes, Init
  PROVE  SolInv
  <1>1. \A S : <<>> \in Seq(S)
    BY EmptySeq
  <1>2. Idle \in PassOf({}) /\ Idle.pc = "idle" /\ Idle.batches = <<>>
    BY <1>1 DEF Idle, PassOf, Newest
  <1>3. Place = {} /\ \A p \in Passes : job[p] = Idle
    BY DEF Init, Place
  <1>4. Types
    <2>1. job \in [Passes -> PassOf(Place)]
      BY <1>2, <1>3 DEF Init
    <2>2. Alone /\ \A p \in Passes : Started(job[p])
      BY <1>2, <1>3 DEF Alone, Started
    <2>3. chain \in Seq(Transaction) /\ cache \in Seq(Place)
      BY <1>1 DEF Init
    <2> QED
      BY <2>1, <2>2, <2>3 DEF Init, Types, Sizes
  <1>5. SlotsGrow
    BY <1>3 DEF SlotsGrow
  <1>6. PagesInv
    BY <1>2, <1>3 DEF Init, PagesInv, Covers, Descends, Unseen, Closed
  <1> QED
    BY <1>4, <1>5, <1>6 DEF SolInv

LEMMA InvStep ==
  ASSUME Sizes, SolInv, [Next]_vars
  PROVE  SolInv'
  <1>1. CASE NewTx
    BY <1>1, ChainGrows
  <1>2. ASSUME NEW p \in Passes, Pass(p) PROVE SolInv'
    <2>1. CASE Start(p)
      BY <2>1, PassStarts
    <2>2. CASE FetchPage(p)
      BY <2>2, PageFetched
    <2>3. CASE EndOfHistory(p)
      BY <2>3, HistoryEnds
    <2>4. CASE ProcessChunk(p)
      BY <2>4, ChunkSaved
    <2>5. CASE SaveFails(p)
      BY <2>5, PassEnds DEF SaveFails
    <2>6. CASE Finish(p)
      BY <2>6, PassEnds DEF Finish
    <2> QED
      BY <1>2, <2>1, <2>2, <2>3, <2>4, <2>5, <2>6 DEF Pass
  <1>3. CASE LockLapses \/ LockExpires
    BY <1>3, LockGoes
  <1>4. ASSUME NEW p \in Passes, Fail(p) PROVE SolInv'
    BY <1>4, PassEnds DEF Fail
  <1>5. CASE UNCHANGED vars
    <2>1. UNCHANGED <<indexer, chain, table, tips, scanned, cache, job, lock, expiries>>
      BY <1>5 DEF vars
    <2>2. Types' /\ SlotsGrow' /\ Pages' = Pages
      BY <2>1 DEF SolInv, Types, Alone, Started, Place, SlotsGrow, Slot, Pages
    <2>3. Pages => PagesInv'
      <3> SUFFICES ASSUME Pages PROVE PagesInv'
        OBVIOUS
      <3>1. Closed'
        BY <2>1, ClosedKept DEF SolInv, PagesInv
      <3>2. ASSUME NEW p \in Passes PROVE (Covers(job[p]) /\ Descends(job[p]))'
        BY <2>1, CoverKept DEF SolInv, PagesInv, Place
      <3>3. ASSUME expiries' = 0, NEW p \in Passes, job'[p].pc # "idle" PROVE Unseen(job[p])'
        BY <2>1, <3>3, UnseenKept DEF SolInv, PagesInv
      <3> QED
        BY <3>1, <3>2, <3>3 DEF PagesInv
    <2> QED
      BY <2>2, <2>3 DEF SolInv
  <1> QED
    BY <1>1, <1>2, <1>3, <1>4, <1>5 DEF Next, GoOn

LEMMA InvHolds ==
  ASSUME Sizes
  PROVE  Spec => []SolInv
  <1>1. Init => SolInv
    BY InvInit
  <1>2. SolInv /\ [Next]_vars => SolInv'
    BY InvStep
  <1> QED
    BY <1>1, <1>2, PTL DEF Spec

(* The type invariant of every task: rows, tips, cached places and pages   *)
(* are of transactions of the history, a tip has its row, and a lock is a  *)
(* pass's.                                                                 *)
THEOREM PassesTyped ==
  ASSUME Sizes
  PROVE  Spec => []TypeOK
  <1>1. SolInv => TypeOK
    <2> SUFFICES ASSUME SolInv PROVE TypeOK
      OBVIOUS
    <2>1. \A p \in Passes : \A k \in DOMAIN job[p].batches : job[p].batches[k] \subseteq DOMAIN chain
      BY PassTypes DEF SolInv, Place
    <2> QED
      BY <2>1, SlotTypes DEF SolInv, Types, TypeOK, Place
  <1> QED
    BY <1>1, InvHolds, PTL

(* The tasks that commit a page at once (rewards and user banks): whatever *)
(* fails, however many pages are dropped, wherever MIN_SLOT lies and       *)
(* however many passes overlap because their locks expire under them, no   *)
(* relevant transaction older than an indexed one is ever missing; and     *)
(* until a lock expires under a running pass, what a pass has still to     *)
(* commit is new.                                                          *)
THEOREM PagesLeaveNoGap ==
  ASSUME Sizes
  PROVE  Spec => []IndexedOnce
  <1>1. SolInv => IndexedOnce
    <2> SUFFICES ASSUME SolInv, Pages PROVE NoGap /\ NothingTwice
      BY DEF IndexedOnce
    <2>1. NoGap
      BY DEF SolInv, PagesInv, Closed, NoGap
    <2>2. NothingTwice
      BY DEF SolInv, PagesInv, Unseen, NothingTwice
    <2> QED
      BY <2>1, <2>2
  <1> QED
    BY <1>1, InvHolds, PTL

-----------------------------------------------------------------------------
(* Notifications of slots: GET /solana_notifications.                      *)
(* No slot of a program up to k is still to be committed.                  *)
CommittedUpTo(p, k) == \A s \in chain[p] : s <= k => s \in rows[p]
(* What a pass found, and the slots it cannot have seen.                   *)
Fetched(p) == \A s \in chain[p] :
  \/ s \in rows[p] \cup job[p].found
  \/ s > job[p].global /\ \A f \in job[p].found : s > f
PolledTypes ==
  /\ now \in Nat /\ from \in Int /\ from <= now
  /\ DOMAIN chain = Polled!Programs /\ DOMAIN rows = Polled!Programs
  /\ \A p \in Polled!Programs : rows[p] \subseteq chain[p] /\ chain[p] \subseteq 1..now
  /\ keys \in [Polled!Programs \cup {"tips"} -> Nat] /\ \A k \in Polled!Programs \cup {"tips"} : keys[k] <= now
  /\ job \in [Polled!Programs -> [pc : {"idle", "fetch", "work"}, global : Nat, found : SUBSET Nat]]
  /\ \A p \in Polled!Programs : job[p].global <= now /\ job[p].found \subseteq chain[p]
  /\ agg \in [pc : {"idle", "read", "pass", "commit"}, key : Int, top : Nat]
SlotInv ==
  /\ PolledTypes
  /\ \A p \in Polled!Programs : CommittedUpTo(p, keys[p]) /\ (job[p].pc = "work" => Fetched(p))
  /\ CommittedUpTo("bank", keys["tips"])
  /\ agg.pc # "idle" => agg.key \in 0..now /\ CommittedUpTo("bank", agg.key)
  /\ window # Polled!NoWindow =>
       /\ window.min = from /\ window.max \in Int /\ window.max <= now
       /\ \A p \in Polled!Programs : CommittedUpTo(p, window.max)
  /\ Polled!SlotEventsDelivered

LEMMA LeastOfTwo ==
  ASSUME NEW a \in Int, NEW b \in Int
  PROVE  Polled!LeastOf({a, b}) \in {a, b} /\ Polled!LeastOf({a, b}) <= a /\ Polled!LeastOf({a, b}) <= b
  <1>1. \E x \in {a, b} : \A y \in {a, b} : x <= y
    <2>1. CASE a <= b
      BY <2>1
    <2>2. CASE ~(a <= b)
      BY <2>2
    <2> QED
      BY <2>1, <2>2
  <1>2. Polled!LeastOf({a, b}) \in {a, b} /\ \A y \in {a, b} : Polled!LeastOf({a, b}) <= y
    BY <1>1 DEF Polled!LeastOf
  <1> QED
    BY <1>2

LEMMA LeastOfIn ==
  ASSUME NEW T \in SUBSET Nat, T # {}
  PROVE  Polled!LeastOf(T) \in T /\ \A x \in T : Polled!LeastOf(T) <= x
  BY Least DEF Polled!LeastOf

LEMMA MostOfIn ==
  ASSUME NEW T \in SUBSET Nat, T # {}, NEW n \in Nat, \A x \in T : x <= n
  PROVE  Polled!MostOf(T) \in T /\ \A x \in T : x <= Polled!MostOf(T)
  <1> DEFINE above == {n - x : x \in T}
  <1>1. above \in SUBSET Nat /\ above # {}
    <2>1. ASSUME NEW d \in above PROVE d \in Nat
      <3>1. PICK x \in T : d = n - x
        OBVIOUS
      <3>2. x \in Nat /\ x <= n
        OBVIOUS
      <3> QED
        BY <3>1, <3>2
    <2> QED
      BY <2>1
  <1>2. PICK d \in above : \A e \in above : d <= e
    BY <1>1, Least
  <1>3. PICK x \in T : d = n - x
    OBVIOUS
  <1>4. ASSUME NEW y \in T PROVE y <= x
    <2>1. n - y \in above /\ y \in Nat /\ x \in Nat
      OBVIOUS
    <2>2. n - x <= n - y
      BY <1>2, <1>3, <2>1
    <2> QED
      BY <2>1, <2>2
  <1> QED
    BY <1>4 DEF Polled!MostOf

\* The key a pass leaves: everything up to it is committed.
LEMMA KeyIsCommitted ==
  ASSUME SlotInv, NEW p \in Polled!Programs, Polled!Finish(p)
  PROVE  Polled!Key(p) \in 0..now /\ CommittedUpTo(p, Polled!Key(p))
  <1>1. /\ job[p].found \subseteq Nat /\ job[p].global \in Nat /\ job[p].global <= now
        /\ job[p].found \subseteq chain[p] /\ chain[p] \subseteq 1..now /\ now \in Nat
        /\ Fetched(p) /\ job[p].found \subseteq rows[p]
    BY DEF SlotInv, PolledTypes, Polled!Finish
  <1>2. CASE job[p].found = {}
    BY <1>1, <1>2 DEF Polled!Key, CommittedUpTo, Fetched
  <1>3. CASE job[p].found # {}
    <2>1. Polled!MostOf(job[p].found) \in job[p].found /\ \A x \in job[p].found : x <= Polled!MostOf(job[p].found)
      <3>1. job[p].found \in SUBSET Nat /\ \A x \in job[p].found : x <= now
        BY <1>1
      <3> HIDE DEF SlotInv
      <3> QED
        BY <1>1, <1>3, <3>1, MostOfIn
    <2> QED
      BY <1>1, <1>3, <2>1 DEF Polled!Key, CommittedUpTo, Fetched
  <1> QED
    BY <1>2, <1>3

LEMMA FinaliseKeeps == ASSUME SlotInv, Polled!Finalise PROVE SlotInv'
  <1>1. /\ now' = now + 1 /\ now \in Nat
        /\ UNCHANGED <<rows, keys, job, agg, from, window, got>>
        /\ DOMAIN chain = Polled!Programs
    BY DEF Polled!Finalise, SlotInv, PolledTypes, Polled!poll
  <1>2. DOMAIN chain' = Polled!Programs /\ \A p \in Polled!Programs : chain'[p] \in {chain[p], chain[p] \cup {now + 1}}
    BY <1>1 DEF Polled!Finalise
  <1>3. PolledTypes'
    <2>1. \A p \in Polled!Programs : chain[p] \subseteq chain'[p] /\ chain'[p] \subseteq 1..(now + 1)
      <3>1. \A p \in Polled!Programs : chain[p] \subseteq 1..now
        BY DEF SlotInv, PolledTypes
      <3> QED
        BY <1>1, <1>2, <3>1
    <2>2. \A p \in Polled!Programs : rows'[p] \subseteq chain'[p] /\ job'[p].found \subseteq chain'[p]
      BY <1>1, <2>1 DEF SlotInv, PolledTypes
    <2>3. \A p \in Polled!Programs : job'[p].global <= now'
      BY <1>1 DEF SlotInv, PolledTypes
    <2>4. \A k \in Polled!Programs \cup {"tips"} : keys'[k] <= now'
      BY <1>1 DEF SlotInv, PolledTypes
    <2>5. from' \in Int /\ from' <= now' /\ now' \in Nat
      BY <1>1 DEF SlotInv, PolledTypes
    <2> QED
      BY <1>1, <1>2, <2>1, <2>2, <2>3, <2>4, <2>5 DEF SlotInv, PolledTypes
  <1>4. ASSUME NEW p \in Polled!Programs, NEW k \in Int, k <= now, CommittedUpTo(p, k)
        PROVE  CommittedUpTo(p, k)'
    BY <1>1, <1>2, <1>4 DEF CommittedUpTo
  <1>5. ASSUME NEW p \in Polled!Programs, job[p].pc = "work" PROVE Fetched(p)'
    <2>1. Fetched(p) /\ job[p].global <= now /\ job[p].global \in Nat
      BY <1>5 DEF SlotInv, PolledTypes
    <2>2. \A f \in job[p].found : f \in Nat /\ f <= now
      BY DEF SlotInv, PolledTypes
    <2> QED
      BY <1>1, <1>2, <2>1, <2>2 DEF Fetched
  <1>6. Polled!SlotEventsDelivered'
    BY <1>1, <1>2 DEF SlotInv, PolledTypes, Polled!SlotEventsDelivered
  <1>a. /\ \A k \in Polled!Programs \cup {"tips"} : keys[k] \in Nat /\ keys[k] <= now
        /\ \A p \in Polled!Programs : CommittedUpTo(p, keys[p])
        /\ CommittedUpTo("bank", keys["tips"]) /\ "bank" \in Polled!Programs
    BY DEF SlotInv, PolledTypes, Polled!Programs
  <1>7. ASSUME NEW p \in Polled!Programs PROVE CommittedUpTo(p, keys[p])'
    <2>1. keys[p] \in Int /\ keys[p] <= now /\ CommittedUpTo(p, keys[p])
      BY <1>a
    <2>2. \A s \in chain'[p] : s <= keys[p] => s \in rows'[p]
      BY <1>4, <2>1 DEF CommittedUpTo
    <2> QED
      BY <1>1, <2>2 DEF CommittedUpTo
  <1>8. CommittedUpTo("bank", keys["tips"])'
    <2>1. keys["tips"] \in Int /\ keys["tips"] <= now
      BY <1>a
    <2>2. \A s \in chain'["bank"] : s <= keys["tips"] => s \in rows'["bank"]
      BY <1>4, <1>a, <2>1 DEF CommittedUpTo
    <2> QED
      BY <1>1, <2>2 DEF CommittedUpTo
  <1> QED
    BY <1>1, <1>3, <1>4, <1>5, <1>6, <1>7, <1>8 DEF SlotInv, Polled!Programs, Polled!NoWindow

LEMMA PassStartKeeps == ASSUME SlotInv, NEW p \in Polled!Programs, Polled!Start(p) PROVE SlotInv'
  <1>1. /\ UNCHANGED <<chain, now, rows, keys, agg, from, window, got>>
        /\ now \in Nat /\ p \in DOMAIN job
    BY DEF SlotInv, PolledTypes, Polled!Start, Polled!poll
  <1>2. job' = [job EXCEPT ![p] = [pc |-> "fetch", global |-> now, found |-> {}]]
    <2>1. [Polled!IdleJob EXCEPT !.pc = "fetch", !.global = now] = [pc |-> "fetch", global |-> now, found |-> {}]
      <3>1. [Polled!IdleJob EXCEPT !.pc = "fetch"] = [pc |-> "fetch", global |-> 0, found |-> {}]
        BY DEF Polled!IdleJob
      <3>2. [[pc |-> "fetch", global |-> 0, found |-> {}] EXCEPT !.global = now]
              = [pc |-> "fetch", global |-> now, found |-> {}]
        OBVIOUS
      <3> QED
        BY <3>1, <3>2
    <2> QED
      BY <2>1 DEF Polled!Start
  <1>3. PolledTypes'
    BY <1>1, <1>2 DEF SlotInv, PolledTypes
  <1>4. ASSUME NEW q \in Polled!Programs, job'[q].pc = "work" PROVE Fetched(q)'
    <2>1. q # p /\ job'[q] = job[q]
      BY <1>1, <1>2, <1>4 DEF SlotInv, PolledTypes
    <2> QED
      BY <1>1, <1>4, <2>1 DEF SlotInv, Fetched
  <1>5. Polled!SlotEventsDelivered'
    BY <1>1 DEF SlotInv, Polled!SlotEventsDelivered
  <1> QED
    BY <1>1, <1>3, <1>4, <1>5 DEF SlotInv, CommittedUpTo

LEMMA FetchKeeps == ASSUME SlotInv, NEW p \in Polled!Programs, Polled!Fetch(p) PROVE SlotInv'
  <1>1. /\ UNCHANGED <<chain, now, rows, keys, agg, from, window, got>>
        /\ now \in Nat /\ p \in DOMAIN job
        /\ chain[p] \subseteq 1..now
    BY DEF SlotInv, PolledTypes, Polled!Fetch, Polled!poll
  <1>2. job' = [job EXCEPT ![p] = [pc |-> "work", global |-> job[p].global, found |-> chain[p] \ rows[p]]]
    <2> DEFINE new == [pc |-> "work", global |-> job[p].global, found |-> chain[p] \ rows[p]]
    <2>1. job \in [Polled!Programs -> [pc : {"idle", "fetch", "work"}, global : Nat, found : SUBSET Nat]]
      BY DEF SlotInv, PolledTypes
    <2>2. job' = [job EXCEPT ![p].pc = "work", ![p].found = chain[p] \ rows[p]]
      BY DEF Polled!Fetch
    <2>3. job'[p] = [[job[p] EXCEPT !.pc = "work"] EXCEPT !.found = chain[p] \ rows[p]]
      BY <2>1, <2>2
    <2>4. job'[p] = new
      BY <2>1, <2>3
    <2>5. DOMAIN job' = DOMAIN job /\ \A q \in DOMAIN job \ {p} : job'[q] = job[q]
      BY <2>1, <2>2
    <2>6. job' = [q \in DOMAIN job |-> job'[q]]
      BY <2>1, <2>2
    <2> QED
      BY <2>1, <2>4, <2>5, <2>6
  <1>3. PolledTypes'
    <2>1. chain[p] \ rows[p] \in SUBSET Nat
      BY <1>1
    <2> QED
      BY <1>1, <1>2, <2>1 DEF SlotInv, PolledTypes
  <1>4. ASSUME NEW q \in Polled!Programs, job'[q].pc = "work" PROVE Fetched(q)'
    <2>1. CASE q = p
      BY <1>1, <1>2, <2>1 DEF Fetched
    <2>2. CASE q # p
      <3>1. job'[q] = job[q]
        BY <1>1, <1>2, <2>2
      <3> QED
        BY <1>1, <1>4, <3>1 DEF SlotInv, Fetched
    <2> QED
      BY <2>1, <2>2
  <1>5. Polled!SlotEventsDelivered'
    BY <1>1 DEF SlotInv, Polled!SlotEventsDelivered
  <1> QED
    BY <1>1, <1>3, <1>4, <1>5 DEF SlotInv, CommittedUpTo

LEMMA CommitKeeps == ASSUME SlotInv, NEW p \in Polled!Programs, Polled!Commit(p) PROVE SlotInv'
  <1> DEFINE s == Polled!LeastOf(job[p].found \ rows[p])
  <1>1. /\ UNCHANGED <<chain, now, keys, job, agg, from, window, got>>
        /\ p \in DOMAIN rows /\ rows' = [rows EXCEPT ![p] = @ \cup {s}]
        /\ job[p].found \in SUBSET Nat /\ job[p].found \subseteq chain[p]
        /\ job[p].found \ rows[p] # {}
    BY DEF SlotInv, PolledTypes, Polled!Commit, Polled!poll
  <1>2. s \in job[p].found \ rows[p]
    <2>1. job[p].found \ rows[p] \in SUBSET Nat
      BY <1>1
    <2> HIDE DEF SlotInv
    <2> QED
      BY <1>1, <2>1, LeastOfIn
  <1> HIDE DEF s
  <1>3. \A q \in Polled!Programs : rows[q] \subseteq rows'[q] /\ rows'[q] \subseteq rows[q] \cup chain[q]
    BY <1>1, <1>2 DEF SlotInv, PolledTypes
  <1>4. PolledTypes'
    BY <1>1, <1>3 DEF SlotInv, PolledTypes
  <1>5. \A q \in Polled!Programs : job'[q].pc = "work" => Fetched(q)'
    BY <1>1, <1>3 DEF SlotInv, Fetched
  <1>6. Polled!SlotEventsDelivered'
    BY <1>1 DEF SlotInv, Polled!SlotEventsDelivered
  <1>7. "bank" \in Polled!Programs
    BY DEF Polled!Programs
  <1> QED
    BY <1>1, <1>3, <1>4, <1>5, <1>6, <1>7 DEF SlotInv, CommittedUpTo

LEMMA FinishKeeps == ASSUME SlotInv, NEW p \in Polled!Programs, Polled!Finish(p) PROVE SlotInv'
  <1>1. /\ UNCHANGED <<chain, now, rows, agg, from, window, got>>
        /\ p \in DOMAIN job /\ p \in DOMAIN keys /\ p # "tips" /\ now \in Nat
    BY DEF SlotInv, PolledTypes, Polled!Finish, Polled!poll, Polled!Programs
  <1>2. job' = [job EXCEPT ![p] = [pc |-> "idle", global |-> 0, found |-> {}]]
    BY DEF Polled!Finish, Polled!IdleJob
  <1>3. PICK k \in 0..now : keys' = [keys EXCEPT ![p] = k] /\ CommittedUpTo(p, k)
    BY KeyIsCommitted DEF Polled!Finish
  <1>4. PolledTypes'
    BY <1>1, <1>2, <1>3 DEF SlotInv, PolledTypes
  <1>5. \A q \in Polled!Programs : job'[q].pc = "work" => Fetched(q)'
    <2>1. ASSUME NEW q \in Polled!Programs, job'[q].pc = "work" PROVE Fetched(q)'
      <3>1. q # p /\ job'[q] = job[q]
        BY <1>1, <1>2, <2>1 DEF SlotInv, PolledTypes
      <3> QED
        BY <1>1, <2>1, <3>1 DEF SlotInv, Fetched
    <2> QED
      BY <2>1
  <1>6. Polled!SlotEventsDelivered'
    BY <1>1 DEF SlotInv, Polled!SlotEventsDelivered
  <1>7. \A q \in Polled!Programs : CommittedUpTo(q, keys[q])'
    BY <1>1, <1>3 DEF SlotInv, PolledTypes, CommittedUpTo
  <1>8. keys'["tips"] = keys["tips"]
    BY <1>1, <1>3 DEF SlotInv, PolledTypes
  <1> QED
    BY <1>1, <1>4, <1>5, <1>6, <1>7, <1>8 DEF SlotInv, CommittedUpTo

LEMMA FailJobKeeps == ASSUME SlotInv, NEW p \in Polled!Programs, Polled!FailJob(p) PROVE SlotInv'
  <1>1. /\ UNCHANGED <<chain, now, rows, keys, agg, from, window, got>>
        /\ p \in DOMAIN job
    BY DEF SlotInv, PolledTypes, Polled!FailJob, Polled!poll
  <1>2. job' = [job EXCEPT ![p] = [pc |-> "idle", global |-> 0, found |-> {}]]
    BY DEF Polled!FailJob, Polled!IdleJob
  <1>3. PolledTypes'
    BY <1>1, <1>2 DEF SlotInv, PolledTypes
  <1>4. ASSUME NEW q \in Polled!Programs, job'[q].pc = "work" PROVE Fetched(q)'
    <2>1. q # p /\ job'[q] = job[q]
      BY <1>1, <1>2, <1>4 DEF SlotInv, PolledTypes
    <2> QED
      BY <1>1, <1>4, <2>1 DEF SlotInv, Fetched
  <1>5. Polled!SlotEventsDelivered'
    BY <1>1 DEF SlotInv, Polled!SlotEventsDelivered
  <1> QED
    BY <1>1, <1>3, <1>4, <1>5 DEF SlotInv, CommittedUpTo

\* The passes of index_aggregate_tips touch neither the programs nor polling.
LEMMA ReadBankSlotKeeps == ASSUME SlotInv, Polled!ReadBankSlot PROVE SlotInv'
  <1>1. /\ UNCHANGED <<chain, now, rows, keys, job, from, window, got>>
        /\ keys["bank"] \in 0..now /\ CommittedUpTo("bank", keys["bank"])
    BY DEF SlotInv, PolledTypes, Polled!ReadBankSlot, Polled!poll, Polled!Programs
  <1>2. agg' = [pc |-> "read", key |-> keys["bank"], top |-> 0]
    <2>1. [Polled!IdleAgg EXCEPT !.pc = "read", !.key = keys["bank"]] = [pc |-> "read", key |-> keys["bank"], top |-> 0]
      <3>1. [Polled!IdleAgg EXCEPT !.pc = "read"] = [pc |-> "read", key |-> -1, top |-> 0]
        BY DEF Polled!IdleAgg, Polled!NoKey
      <3>2. [[pc |-> "read", key |-> -1, top |-> 0] EXCEPT !.key = keys["bank"]]
              = [pc |-> "read", key |-> keys["bank"], top |-> 0]
        OBVIOUS
      <3> QED
        BY <3>1, <3>2
    <2> QED
      BY <2>1 DEF Polled!ReadBankSlot
  <1>3. PolledTypes'
    BY <1>1, <1>2 DEF SlotInv, PolledTypes
  <1>4. Polled!SlotEventsDelivered'
    BY <1>1 DEF SlotInv, Polled!SlotEventsDelivered
  <1> QED
    BY <1>1, <1>2, <1>3, <1>4 DEF SlotInv, CommittedUpTo, Fetched

LEMMA ReadTipsKeeps == ASSUME SlotInv, Polled!ReadTips PROVE SlotInv'
  <1>1. /\ UNCHANGED <<chain, now, rows, keys, job, from, window, got>>
        /\ agg \in [pc : {"idle", "read", "pass", "commit"}, key : Int, top : Nat]
        /\ agg.pc = "read" /\ now \in Nat
        /\ agg' = [agg EXCEPT !.pc = "pass", !.top = Polled!MostOf(rows["bank"] \cup {0})]
    BY DEF SlotInv, PolledTypes, Polled!ReadTips, Polled!poll
  <1>2. Polled!MostOf(rows["bank"] \cup {0}) \in Nat
    <2>1. rows["bank"] \cup {0} \in SUBSET Nat /\ \A x \in rows["bank"] \cup {0} : x <= now
      BY <1>1 DEF SlotInv, PolledTypes, Polled!Programs
    <2> HIDE DEF SlotInv
    <2>2. Polled!MostOf(rows["bank"] \cup {0}) \in rows["bank"] \cup {0}
      BY <1>1, <2>1, MostOfIn
    <2> QED
      BY <2>1, <2>2
  <1>3. agg' \in [pc : {"idle", "read", "pass", "commit"}, key : Int, top : Nat] /\ agg'.key = agg.key
    BY <1>1, <1>2
  <1>4. PolledTypes'
    BY <1>1, <1>3 DEF SlotInv, PolledTypes
  <1>5. Polled!SlotEventsDelivered'
    BY <1>1 DEF SlotInv, Polled!SlotEventsDelivered
  <1> QED
    BY <1>1, <1>3, <1>4, <1>5 DEF SlotInv, CommittedUpTo, Fetched

LEMMA PassOnKeeps == ASSUME SlotInv, Polled!PassOn PROVE SlotInv'
  <1>1. /\ UNCHANGED <<chain, now, rows, job, from, window, got>>
        /\ agg \in [pc : {"idle", "read", "pass", "commit"}, key : Int, top : Nat]
        /\ agg.pc = "pass" /\ now \in Nat
        /\ agg.key \in 0..now /\ CommittedUpTo("bank", agg.key)
        /\ "tips" \notin Polled!Programs /\ "bank" \in Polled!Programs
    BY DEF SlotInv, PolledTypes, Polled!PassOn, Polled!poll, Polled!Programs
  <1>2. keys' = [keys EXCEPT !["tips"] = agg.key]
    <2>1. agg.key # Polled!NoKey
      BY <1>1 DEF Polled!NoKey
    <2> HIDE DEF Polled!NoKey
    <2>2. keys' = [keys EXCEPT !["tips"] = IF agg.key = Polled!NoKey THEN keys["tips"] ELSE agg.key]
      BY DEF Polled!PassOn
    <2> QED
      BY <2>1, <2>2
  <1>3. \/ agg' = [pc |-> "idle", key |-> -1, top |-> 0]
        \/ agg' = [agg EXCEPT !.pc = "commit"]
    BY DEF Polled!PassOn, Polled!IdleAgg, Polled!NoKey
  <1>4. agg' \in [pc : {"idle", "read", "pass", "commit"}, key : Int, top : Nat]
        /\ (agg'.pc # "idle" => agg'.key = agg.key)
    BY <1>1, <1>3
  <1>5. PolledTypes'
    BY <1>1, <1>2, <1>4 DEF SlotInv, PolledTypes
  <1>6. Polled!SlotEventsDelivered'
    BY <1>1 DEF SlotInv, Polled!SlotEventsDelivered
  <1>7. keys'["tips"] = agg.key /\ \A q \in Polled!Programs : keys'[q] = keys[q]
    BY <1>1, <1>2 DEF SlotInv, PolledTypes
  <1> QED
    BY <1>1, <1>4, <1>5, <1>6, <1>7 DEF SlotInv, CommittedUpTo, Fetched

LEMMA AggEndsKeeps == ASSUME SlotInv, Polled!CommitRanks \/ Polled!FailAgg PROVE SlotInv'
  <1>1. /\ UNCHANGED <<chain, now, rows, keys, job, from, window, got>>
        /\ agg' = [pc |-> "idle", key |-> -1, top |-> 0]
    BY DEF Polled!CommitRanks, Polled!FailAgg, Polled!poll, Polled!IdleAgg, Polled!NoKey
  <1>2. PolledTypes'
    BY <1>1 DEF SlotInv, PolledTypes
  <1>3. Polled!SlotEventsDelivered'
    BY <1>1 DEF SlotInv, Polled!SlotEventsDelivered
  <1> QED
    BY <1>1, <1>2, <1>3 DEF SlotInv, CommittedUpTo, Fetched

\* The answer of get_max_slot: a slot up to which both programs are done.
LEMMA MaxSlotIsCommitted ==
  ASSUME SlotInv
  PROVE  Polled!MaxValidSlot \in 0..now /\ \A p \in Polled!Programs : CommittedUpTo(p, Polled!MaxValidSlot)
  <1>1. /\ keys["rewards"] \in Nat /\ keys["rewards"] <= now
        /\ keys["tips"] \in Nat /\ keys["tips"] <= now
        /\ CommittedUpTo("rewards", keys["rewards"]) /\ CommittedUpTo("bank", keys["tips"])
        /\ \A p \in Polled!Programs : chain[p] \subseteq 1..now
        /\ now \in Nat
    BY DEF SlotInv, PolledTypes, Polled!Programs
  <1>2. Polled!Known = {keys["rewards"], keys["tips"]}
    BY <1>1 DEF Polled!Known, Polled!NoKey
  <1>3. /\ Polled!MaxValidSlot \in {keys["rewards"], keys["tips"]}
        /\ Polled!MaxValidSlot <= keys["rewards"] /\ Polled!MaxValidSlot <= keys["tips"]
    <2>1. Polled!MaxValidSlot = Polled!LeastOf({keys["rewards"], keys["tips"]})
      BY <1>2 DEF Polled!MaxValidSlot
    <2>2. PICK a \in Int, b \in Int : a = keys["rewards"] /\ b = keys["tips"]
      BY <1>1
    <2>3. Polled!LeastOf({a, b}) \in {a, b} /\ Polled!LeastOf({a, b}) <= a /\ Polled!LeastOf({a, b}) <= b
      BY LeastOfTwo
    <2> QED
      BY <2>1, <2>2, <2>3
  <1>4. \A p \in Polled!Programs : p = "rewards" \/ p = "bank"
    BY DEF Polled!Programs
  <1> QED
    BY <1>1, <1>3, <1>4 DEF CommittedUpTo

LEMMA SlotAskKeeps ==
  ASSUME SlotInv, Polled!Ask, MaxSlotDiff \in Nat
  PROVE  SlotInv'
  <1> DEFINE top == Polled!LeastOf({from + MaxSlotDiff, Polled!MaxValidSlot})
  <1>1. /\ UNCHANGED <<chain, now, rows, keys, job, agg, from, got>>
        /\ window' = [min |-> from, max |-> top]
        /\ from \in Int /\ now \in Nat /\ \A p \in Polled!Programs : chain[p] \subseteq 1..now
    BY DEF SlotInv, PolledTypes, Polled!Ask
  <1>2. Polled!MaxValidSlot \in 0..now /\ \A p \in Polled!Programs : CommittedUpTo(p, Polled!MaxValidSlot)
    BY MaxSlotIsCommitted
  <1>3. top \in Int /\ top <= Polled!MaxValidSlot
    <2>1. PICK a \in Int, b \in Int : a = from + MaxSlotDiff /\ b = Polled!MaxValidSlot
      BY <1>1, <1>2
    <2>2. Polled!LeastOf({a, b}) \in {a, b} /\ Polled!LeastOf({a, b}) <= b
      BY LeastOfTwo
    <2> QED
      BY <2>1, <2>2
  <1> HIDE DEF top
  <1>4. \A p \in Polled!Programs : CommittedUpTo(p, top)
    BY <1>1, <1>2, <1>3 DEF CommittedUpTo
  <1>5. PolledTypes'
    BY <1>1 DEF SlotInv, PolledTypes
  <1>6. Polled!SlotEventsDelivered'
    BY <1>1 DEF SlotInv, Polled!SlotEventsDelivered
  <1>7. /\ window'.min = from' /\ window'.max \in Int /\ window'.max <= now'
        /\ \A p \in Polled!Programs : CommittedUpTo(p, window.max)'
    BY <1>1, <1>2, <1>3, <1>4 DEF CommittedUpTo
  <1> QED
    BY <1>1, <1>5, <1>6, <1>7 DEF SlotInv, CommittedUpTo, Fetched

LEMMA SlotAnswerKeeps == ASSUME SlotInv, Polled!Answer PROVE SlotInv'
  <1>1. /\ UNCHANGED <<chain, now, rows, keys, job, agg>>
        /\ from' = window.max /\ window' = Polled!NoWindow
        /\ window.min = from /\ window.max \in Int /\ window.max <= now
        /\ \A p \in Polled!Programs : CommittedUpTo(p, window.max)
        /\ \A p \in Polled!Programs : chain[p] \subseteq 1..now
        /\ from \in Int /\ now \in Nat
    BY DEF SlotInv, PolledTypes, Polled!Answer
  <1>2. PolledTypes'
    BY <1>1 DEF SlotInv, PolledTypes
  <1>3. got \subseteq got' /\ \A p \in Polled!Programs : \A s \in Polled!Within(rows[p]) : <<p, s>> \in got'
    <2>1. got \subseteq got'
      BY DEF Polled!Answer
    <2>2. ASSUME NEW p \in Polled!Programs, NEW s \in Polled!Within(rows[p]) PROVE <<p, s>> \in got'
      <3>1. <<p, s>> \in {<<p, x>> : x \in Polled!Within(rows[p])}
        OBVIOUS
      <3>2. <<p, s>> \in UNION {{<<q, x>> : x \in Polled!Within(rows[q])} : q \in Polled!Programs}
        BY <3>1
      <3> QED
        BY <3>2 DEF Polled!Answer
    <2> QED
      BY <2>1, <2>2
  <1>4. Polled!SlotEventsDelivered'
    <2>1. ASSUME NEW p \in Polled!Programs, NEW s \in chain[p], s <= window.max PROVE <<p, s>> \in got'
      <3>1. CASE s <= from
        BY <1>3, <3>1 DEF SlotInv, Polled!SlotEventsDelivered
      <3>2. CASE ~(s <= from)
        <4>1. s \in Int
          BY <1>1
        <4>2. s \in rows[p] /\ window.min < s
          BY <1>1, <2>1, <3>2, <4>1 DEF CommittedUpTo
        <4>3. s \in Polled!Within(rows[p])
          BY <2>1, <4>2 DEF Polled!Within
        <4> QED
          BY <1>3, <4>3
      <3> QED
        BY <3>1, <3>2
    <2> QED
      BY <1>1, <2>1 DEF Polled!SlotEventsDelivered
  <1> QED
    BY <1>1, <1>2, <1>4 DEF SlotInv, CommittedUpTo, Fetched

(* Once every task has told its slot, a client that polls GET              *)
(* /solana_notifications from the slot it was given gets every             *)
(* disbursement and every tip: nothing at or below the slot it asks from   *)
(* is still to be committed.  (While a key is unset, Known passes over it.)*)
THEOREM SlotEventsReachAll ==
  ASSUME KeysAtStart, MaxSlotDiff \in Nat
  PROVE  Polled!Spec => []Polled!SlotEventsDelivered
  <1>1. Polled!Init => SlotInv
    <2>1. SUFFICES ASSUME Polled!Init PROVE SlotInv
      OBVIOUS
    <2>2. /\ now = 0 /\ from = 0 /\ window = Polled!NoWindow
          /\ chain = [p \in Polled!Programs |-> {}] /\ rows = [p \in Polled!Programs |-> {}]
          /\ keys = [k \in Polled!Programs \cup {"tips"} |-> 0]
          /\ job = [p \in Polled!Programs |-> [pc |-> "idle", global |-> 0, found |-> {}]]
          /\ agg = [pc |-> "idle", key |-> -1, top |-> 0]
      BY <2>1, Zenon DEF Polled!Init, Polled!IdleJob, Polled!IdleAgg, Polled!NoKey
    <2>3. "bank" \in Polled!Programs
      BY DEF Polled!Programs
    <2> HIDE DEF Polled!Init
    <2>4. PolledTypes
      BY <2>2 DEF PolledTypes
    <2> QED
      BY <2>2, <2>3, <2>4 DEF SlotInv, CommittedUpTo, Polled!SlotEventsDelivered
  <1>2. SlotInv /\ [Polled!Next]_Polled!vars => SlotInv'
    <2>1. SUFFICES ASSUME SlotInv, [Polled!Next]_Polled!vars PROVE SlotInv'
      OBVIOUS
    <2>2. CASE Polled!Finalise
      BY <2>1, <2>2, FinaliseKeeps
    <2>3. CASE Polled!Ask
      BY <2>1, <2>3, SlotAskKeeps
    <2>4. CASE Polled!Answer
      BY <2>1, <2>4, SlotAnswerKeeps
    <2>5. ASSUME NEW p \in Polled!Programs, Polled!Start(p) \/ Polled!Fetch(p) \/ Polled!Commit(p) \/ Polled!Finish(p) \/ Polled!FailJob(p)
          PROVE  SlotInv'
      BY <2>1, <2>5, PassStartKeeps, FetchKeeps, CommitKeeps, FinishKeeps, FailJobKeeps
    <2>6. CASE Polled!ReadBankSlot \/ Polled!ReadTips \/ Polled!PassOn \/ Polled!CommitRanks \/ Polled!FailAgg
      BY <2>1, <2>6, ReadBankSlotKeeps, ReadTipsKeeps, PassOnKeeps, AggEndsKeeps
    <2>7. CASE UNCHANGED Polled!vars
      BY <2>1, <2>7 DEF Polled!vars, SlotInv, PolledTypes, CommittedUpTo, Fetched, Polled!SlotEventsDelivered
    <2> QED
      BY <2>1, <2>2, <2>3, <2>4, <2>5, <2>6, <2>7 DEF Polled!Next
  <1>3. SlotInv => Polled!SlotEventsDelivered
    BY DEF SlotInv
  <1> QED
    BY <1>1, <1>2, <1>3, PTL DEF Polled!Spec

-----------------------------------------------------------------------------
(* Notifications of blocks: GET /notifications.                            *)
TrackRow == [id : {"t1", "t2"}, block : Nat, unlisted : BOOLEAN, deleted : BOOLEAN,
             remix : BOOLEAN, created : BOOLEAN, current : BOOLEAN]
PlaylistRow == [id : {"p1", "p2"}, block : Nat, private : BOOLEAN, added : SUBSET Nat,
                created : BOOLEAN, current : BOOLEAN]
MarkRow == [id : Asked!MarkKinds, block : Nat, deleted : BOOLEAN, current : BOOLEAN]

(* A table is written at most once a block; an id has one current row.     *)
Versioned(T, h) ==
  /\ \A r \in T : r.block \in 1..h
  /\ \A r, s \in T : r.block = s.block => r = s
  /\ \A r, s \in T : r.id = s.id /\ r.current /\ s.current => r = s
  /\ \A r \in T : \E c \in T : c.id = r.id /\ c.current
NoteTypes ==
  /\ head \in Nat /\ from \in 0..head
  /\ tracks \in SUBSET TrackRow /\ playlists \in SUBSET PlaylistRow /\ marks \in SUBSET MarkRow
  /\ milestones \in SUBSET (1..head)
  /\ window = Asked!NoWindow \/ (window.min = from /\ window.max \in from..head)
(* What is marked has been there.                                          *)
MarksHaveItems ==
  \A m \in marks :
    /\ m.id \in {"save", "repost"} => Asked!Known(tracks, "t1")
    /\ m.id = "saveList" => Asked!Known(playlists, "p1")
EditsFollow ==
  \A r \in playlists : ~r.created => \E p \in playlists : p.id = r.id /\ p.block < r.block
(* EventsDelivered, row by row.                                            *)
Ended(b) == FinalPOA < b /\ b <= from
Delivered ==
  /\ \A r \in marks : r.current /\ ~r.deleted /\ Ended(r.block) /\ Asked!HasOwner(r.id) =>
       Asked!Notif("mark", r.id, r.block) \in got
  /\ \A r \in tracks : r.created /\ ~r.unlisted /\ ~r.deleted /\ Ended(r.block) =>
       Asked!Notif("create", r.id, r.block) \in got
  /\ \A r \in playlists : ~r.private /\ Ended(r.block) /\ (r.created \/ Asked!PrevList(r).private) =>
       Asked!Notif("create", r.id, r.block) \in got
  /\ \A b \in milestones : Ended(b) => Asked!Notif("milestone", "t1", b) \in got
NoteInv ==
  /\ NoteTypes
  /\ Versioned(tracks, head) /\ Versioned(playlists, head) /\ Versioned(marks, head)
  /\ MarksHaveItems /\ EditsFollow
  /\ Delivered

LEMMA CurrentRow ==
  ASSUME NEW T, NEW h, Versioned(T, h), NEW id, Asked!Known(T, id)
  PROVE  Asked!Current(T, id) \in T /\ Asked!Current(T, id).id = id /\ Asked!Current(T, id).current
  <1>1. \E r \in T : r.id = id /\ r.current
    BY DEF Versioned, Asked!Known
  <1> QED
    BY <1>1, Zenon DEF Asked!Current

(* A row when a new version of an item replaces it.                        *)
Retired(y, id) == [y EXCEPT !.current = y.current /\ y.id # id]
LEMMA NewRows ==
  ASSUME NEW T, NEW r
  PROVE  Asked!NewVersion(T, r) = {Retired(y, r.id) : y \in T} \cup {r}
  BY Zenon DEF Asked!NewVersion, Retired

LEMMA RetiredTrack ==
  ASSUME NEW y \in TrackRow, NEW id
  PROVE  /\ Retired(y, id) \in TrackRow
         /\ Retired(y, id).id = y.id /\ Retired(y, id).block = y.block
         /\ Retired(y, id).unlisted = y.unlisted /\ Retired(y, id).deleted = y.deleted
         /\ Retired(y, id).created = y.created
         /\ (Retired(y, id).current <=> (y.current /\ y.id # id))
  <1> DEFINE b == y.current /\ y.id # id
  <1>1. b \in BOOLEAN /\ Retired(y, id) = [y EXCEPT !.current = b]
    BY Zenon DEF Retired
  <1>2. (b <=> (y.current /\ y.id # id))
    OBVIOUS
  <1> HIDE DEF b
  <1>3. /\ [y EXCEPT !.current = b] \in TrackRow
        /\ [y EXCEPT !.current = b].id = y.id /\ [y EXCEPT !.current = b].block = y.block
        /\ [y EXCEPT !.current = b].unlisted = y.unlisted /\ [y EXCEPT !.current = b].deleted = y.deleted
        /\ [y EXCEPT !.current = b].created = y.created
        /\ [y EXCEPT !.current = b].current = b
    BY <1>1 DEF TrackRow
  <1> QED
    BY <1>1, <1>2, <1>3, Zenon

LEMMA RetiredPlaylist ==
  ASSUME NEW y \in PlaylistRow, NEW id
  PROVE  /\ Retired(y, id) \in PlaylistRow
         /\ Retired(y, id).id = y.id /\ Retired(y, id).block = y.block
         /\ Retired(y, id).private = y.private /\ Retired(y, id).created = y.created
         /\ (Retired(y, id).current <=> (y.current /\ y.id # id))
  <1> DEFINE b == y.current /\ y.id # id
  <1>1. b \in BOOLEAN /\ Retired(y, id) = [y EXCEPT !.current = b]
    BY Zenon DEF Retired
  <1>2. (b <=> (y.current /\ y.id # id))
    OBVIOUS
  <1> HIDE DEF b
  <1>3. /\ [y EXCEPT !.current = b] \in PlaylistRow
        /\ [y EXCEPT !.current = b].id = y.id /\ [y EXCEPT !.current = b].block = y.block
        /\ [y EXCEPT !.current = b].private = y.private
        /\ [y EXCEPT !.current = b].created = y.created
        /\ [y EXCEPT !.current = b].current = b
    BY <1>1 DEF PlaylistRow
  <1> QED
    BY <1>1, <1>2, <1>3, Zenon

LEMMA RetiredMark ==
  ASSUME NEW y \in MarkRow, NEW id
  PROVE  /\ Retired(y, id) \in MarkRow
         /\ Retired(y, id).id = y.id /\ Retired(y, id).block = y.block
         /\ Retired(y, id).deleted = y.deleted
         /\ (Retired(y, id).current <=> (y.current /\ y.id # id))
  <1> DEFINE b == y.current /\ y.id # id
  <1>1. b \in BOOLEAN /\ Retired(y, id) = [y EXCEPT !.current = b]
    BY Zenon DEF Retired
  <1>2. (b <=> (y.current /\ y.id # id))
    OBVIOUS
  <1> HIDE DEF b
  <1>3. /\ [y EXCEPT !.current = b] \in MarkRow
        /\ [y EXCEPT !.current = b].id = y.id /\ [y EXCEPT !.current = b].block = y.block
        /\ [y EXCEPT !.current = b].deleted = y.deleted
        /\ [y EXCEPT !.current = b].current = b
    BY <1>1 DEF MarkRow
  <1> QED
    BY <1>1, <1>2, <1>3, Zenon

(* A block writes a row: the table stays versioned.                        *)
LEMMA StaysVersioned ==
  ASSUME NEW T, NEW h \in Nat, NEW r, Versioned(T, h), r.block = h + 1, r.current,
         \A y \in T : /\ Retired(y, r.id).id = y.id /\ Retired(y, r.id).block = y.block
                      /\ (Retired(y, r.id).current <=> (y.current /\ y.id # r.id))
  PROVE  Versioned(Asked!NewVersion(T, r), h + 1)
  <1> DEFINE U == Asked!NewVersion(T, r)
  <1>1. r \in U /\ \A y \in T : Retired(y, r.id) \in U
    BY NewRows
  <1>2. \A x \in U : x = r \/ \E y \in T : x = Retired(y, r.id)
    BY NewRows
  <1> HIDE DEF U
  <1>3. ASSUME NEW x \in U PROVE x.block \in 1..(h + 1) /\ \E c \in U : c.id = x.id /\ c.current
    <2>1. CASE x = r
      BY <1>1, <2>1
    <2>2. ASSUME NEW y \in T, x = Retired(y, r.id) 
          PROVE  x.block \in 1..(h + 1) /\ \E c \in U : c.id = x.id /\ c.current
      <3>1. x.id = y.id /\ x.block = y.block /\ y.block \in 1..h
        BY <2>2 DEF Versioned
      <3>2. CASE y.id = r.id
        BY <1>1, <3>1, <3>2
      <3>3. CASE y.id # r.id
        <4>1. PICK c \in T : c.id = y.id /\ c.current
          BY DEF Versioned
        <4>2. Retired(c, r.id) \in U /\ Retired(c, r.id).id = x.id /\ Retired(c, r.id).current
          BY <1>1, <3>1, <3>3, <4>1
        <4> QED
          BY <3>1, <4>2
      <3> QED
        BY <3>2, <3>3
    <2> QED
      BY <1>2, <2>1, <2>2
  <1>4. ASSUME NEW x \in U, NEW z \in U,
               x.block = z.block \/ (x.id = z.id /\ x.current /\ z.current)
        PROVE  x = z
    <2>1. CASE x = r /\ z = r
      BY <2>1
    <2>2. ASSUME NEW y \in T, x = Retired(y, r.id), z = r PROVE FALSE
      BY <1>4, <2>2 DEF Versioned
    <2>3. ASSUME NEW y \in T, z = Retired(y, r.id), x = r PROVE FALSE
      BY <1>4, <2>3 DEF Versioned
    <2>4. ASSUME NEW y \in T, NEW v \in T, x = Retired(y, r.id), z = Retired(v, r.id) PROVE x = z
      <3>1. y = v
        BY <1>4, <2>4 DEF Versioned
      <3> QED
        BY <2>4, <3>1
    <2> QED
      BY <1>2, <2>1, <2>2, <2>3, <2>4
  <1> QED
    BY <1>3, <1>4 DEF Versioned, U

(* The version before: PrevList is one, and there is no other.             *)
IsPrev(T, y, p) ==
  /\ p \in T /\ p.id = y.id /\ p.block < y.block
  /\ \A q \in T : q.id = y.id /\ q.block < y.block => q.block <= p.block
Prev(T, y) ==
  CHOOSE p \in T : /\ p.id = y.id /\ p.block < y.block
                   /\ \A q \in T : q.id = y.id /\ q.block < y.block => q.block <= p.block

LEMMA PrevOf ==
  ASSUME NEW T \in SUBSET PlaylistRow, NEW y \in PlaylistRow,
         \E p \in T : p.id = y.id /\ p.block < y.block
  PROVE  IsPrev(T, y, Prev(T, y))
  <1> DEFINE earlier == {p \in T : p.id = y.id /\ p.block < y.block}
             gaps == {y.block - p.block : p \in earlier}
  <1>1. gaps \in SUBSET Nat /\ gaps # {}
    <2>1. ASSUME NEW g \in gaps PROVE g \in Nat
      <3>1. PICK p \in earlier : g = y.block - p.block
        OBVIOUS
      <3>2. p.block \in Nat /\ y.block \in Nat /\ p.block < y.block
        BY DEF PlaylistRow
      <3> QED
        BY <3>1, <3>2
    <2> QED
      BY <2>1
  <1>2. PICK g \in gaps : \A k \in gaps : g <= k
    <2> HIDE DEF gaps
    <2> QED
      BY <1>1, Least
  <1>3. PICK p \in earlier : g = y.block - p.block
    OBVIOUS
  <1>4. ASSUME NEW q \in earlier PROVE q.block <= p.block
    <2>1. y.block - q.block \in gaps /\ q.block \in Nat /\ p.block \in Nat /\ y.block \in Nat
      BY DEF PlaylistRow
    <2>2. y.block - p.block <= y.block - q.block
      BY <1>2, <1>3, <2>1
    <2> QED
      BY <2>1, <2>2
  <1>5. /\ p \in T /\ p.id = y.id /\ p.block < y.block
        /\ \A q \in T : q.id = y.id /\ q.block < y.block => q.block <= p.block
    BY <1>4
  <1> HIDE DEF earlier, gaps
  <1> QED
    BY <1>5, Zenon DEF IsPrev, Prev

LEMMA FiniteTable ==
  ASSUME NEW T, NEW h \in Nat, Versioned(T, h)
  PROVE  IsFiniteSet(T)
  <1> DEFINE f == [r \in T |-> r.block]
  <1>1. f \in Injection(T, 1..h)
    BY DEF Versioned, Injection, IsInjective
  <1>2. IsFiniteSet(1..h)
    BY FS_Interval
  <1> QED
    BY <1>1, <1>2, FS_Injection

LEMMA AskKeeps ==
  ASSUME NoteInv, Asked!Ask, MaxBlockDiff \in Nat
  PROVE  NoteInv'
  <1>1. /\ UNCHANGED <<events, head, tracks, playlists, marks, balance, milestones, from, got>>
        /\ window' = Asked!Clamp(from) /\ from \in 0..head /\ head \in Nat
    BY DEF Asked!Ask, Asked!tables, NoteInv, NoteTypes
  <1>2. window'.min = from /\ window'.max \in from..head
    BY <1>1 DEF Asked!Clamp
  <1>3. NoteTypes'
    BY <1>1, <1>2 DEF NoteInv, NoteTypes
  <1>4. Delivered'
    BY <1>1 DEF NoteInv, Delivered, Ended, Asked!HasOwner, Asked!PrevList
  <1> QED
    BY <1>1, <1>3, <1>4 DEF NoteInv, MarksHaveItems, EditsFollow, Asked!Known

LEMMA AnswerFailsKeeps == ASSUME NoteInv, Asked!AnswerFails PROVE NoteInv'
  <1>1. /\ UNCHANGED <<events, head, tracks, playlists, marks, balance, milestones, from, got>>
        /\ window' = Asked!NoWindow
    BY DEF Asked!AnswerFails, Asked!tables
  <1>2. NoteTypes'
    BY <1>1 DEF NoteInv, NoteTypes
  <1>3. Delivered'
    BY <1>1 DEF NoteInv, Delivered, Ended, Asked!HasOwner, Asked!PrevList
  <1> QED
    BY <1>1, <1>2, <1>3 DEF NoteInv, MarksHaveItems, EditsFollow, Asked!Known

LEMMA AnswerKeeps ==
  ASSUME NoteInv, Asked!Answer, FinalPOA = 0
  PROVE  NoteInv'
  <1>1. /\ UNCHANGED <<events, head, tracks, playlists, marks, balance, milestones>>
        /\ window' = Asked!NoWindow /\ from' = window.max
        /\ window.min = from /\ window.max \in from..head /\ from \in 0..head /\ head \in Nat
    BY DEF Asked!Answer, Asked!tables, NoteInv, NoteTypes
  <1>2. /\ got \subseteq got' /\ Asked!Marked(window) \subseteq got' /\ Asked!NewTracks(window) \subseteq got'
        /\ Asked!NewLists(window) \subseteq got' /\ Asked!Milestones(window) \subseteq got'
    BY DEF Asked!Answer
  <1>3. Cardinality(Asked!Touched(window)) \in Nat
    <2>1. IsFiniteSet(playlists)
      BY FiniteTable DEF NoteInv, NoteTypes
    <2>2. Asked!Touched(window) \subseteq playlists
      BY DEF Asked!Touched
    <2> QED
      BY <2>1, <2>2, FS_Subset, FS_CardinalityType
  <1>4. Asked!AfterLoop(window).min = from /\ Asked!AfterLoop(window).max = window.max
    <2>1. Asked!Cardinality(Asked!Touched(window)) = Cardinality(Asked!Touched(window))
      BY DEF Asked!Cardinality, Cardinality
    <2> QED
      BY <1>1, <1>3, <2>1 DEF Asked!AfterLoop, Asked!Shifted
  <1>5. \A b : Ended(b)' /\ ~Ended(b) /\ b \in Nat => Asked!In(window, b) /\ Asked!In(Asked!AfterLoop(window), b)
    BY <1>1, <1>4 DEF Ended, Asked!In
  <1>6. NoteTypes'
    BY <1>1 DEF NoteInv, NoteTypes
  <1>7. /\ \A k : Asked!HasOwner(k)' = Asked!HasOwner(k)
        /\ \A r : Asked!PrevList(r)' = Asked!PrevList(r)
    BY <1>1 DEF Asked!HasOwner, Asked!PrevList
  <1>a. ASSUME NEW r \in marks, r.current, ~r.deleted, Ended(r.block)', Asked!HasOwner(r.id)
        PROVE  Asked!Notif("mark", r.id, r.block) \in got'
    <2>1. CASE Ended(r.block)
      BY <1>2, <1>a, <2>1 DEF NoteInv, Delivered
    <2>2. CASE ~Ended(r.block)
      <3>1. r.block \in Nat
        BY DEF NoteInv, NoteTypes, MarkRow
      <3>2. Asked!In(window, r.block)
        BY <1>5, <1>a, <2>2, <3>1
      <3>3. Asked!Notif("mark", r.id, r.block) \in Asked!Marked(window)
        BY <1>a, <3>2 DEF Asked!Marked
      <3> QED
        BY <1>2, <3>3
    <2> QED
      BY <2>1, <2>2
  <1>b. ASSUME NEW r \in tracks, r.created, ~r.unlisted, ~r.deleted, Ended(r.block)'
        PROVE  Asked!Notif("create", r.id, r.block) \in got'
    <2>1. CASE Ended(r.block)
      BY <1>2, <1>b, <2>1 DEF NoteInv, Delivered
    <2>2. CASE ~Ended(r.block)
      <3>1. r.block \in Nat
        BY DEF NoteInv, NoteTypes, TrackRow
      <3>2. Asked!In(window, r.block)
        BY <1>5, <1>b, <2>2, <3>1
      <3>3. r \in Asked!CreatedTracks(window)
        BY <1>b, <3>2 DEF Asked!CreatedTracks
      <3>4. Asked!Notif("create", r.id, r.block) \in Asked!NewTracks(window)
        BY <3>3 DEF Asked!NewTracks
      <3> QED
        BY <1>2, <3>4
    <2> QED
      BY <2>1, <2>2
  <1>c. ASSUME NEW r \in playlists, ~r.private, Ended(r.block)', r.created \/ Asked!PrevList(r).private
        PROVE  Asked!Notif("create", r.id, r.block) \in got'
    <2>1. CASE Ended(r.block)
      BY <1>2, <1>c, <2>1 DEF NoteInv, Delivered
    <2>2. CASE ~Ended(r.block)
      <3>1. r.block \in Nat
        BY DEF NoteInv, NoteTypes, PlaylistRow
      <3>2. Asked!In(window, r.block)
        BY <1>5, <1>c, <2>2, <3>1
      <3>3. Asked!Notif("create", r.id, r.block) \in Asked!NewLists(window)
        BY <1>c, <3>2 DEF Asked!NewLists
      <3> QED
        BY <1>2, <3>3
    <2> QED
      BY <2>1, <2>2
  <1>d. ASSUME NEW b \in milestones, Ended(b)' PROVE Asked!Notif("milestone", "t1", b) \in got'
    <2>1. CASE Ended(b)
      BY <1>2, <2>1 DEF NoteInv, Delivered
    <2>2. CASE ~Ended(b)
      <3>1. b \in Nat
        BY <1>1 DEF NoteInv, NoteTypes
      <3>2. Asked!In(Asked!AfterLoop(window), b)
        BY <1>5, <1>d, <2>2, <3>1
      <3>3. Asked!Notif("milestone", "t1", b) \in Asked!Milestones(window)
        BY <3>2 DEF Asked!Milestones
      <3> QED
        BY <1>2, <3>3
    <2> QED
      BY <2>1, <2>2
  <1>8. Delivered'
    BY <1>1, <1>7, <1>a, <1>b, <1>c, <1>d DEF Delivered, Asked!Notif
  <1> QED
    BY <1>1, <1>6, <1>8 DEF NoteInv, MarksHaveItems, EditsFollow, Asked!Known

-----------------------------------------------------------------------------
(* A block is indexed. *)

LEMMA TrackEvent ==
  ASSUME NoteInv, NEW e, NEW r \in Asked!TrackEvents(e)
  PROVE  /\ r \in TrackRow /\ r.block = head + 1 /\ r.current
         /\ Asked!Known(tracks, r.id) => r.deleted \/ ~Asked!Current(tracks, r.id).deleted
  <1>1. head + 1 \in Nat /\ tracks \in SUBSET TrackRow /\ Versioned(tracks, head)
    BY DEF NoteInv, NoteTypes
  <1>2. CASE e = "upload"
    <2>1. Asked!TrackEvents(e) = UNION {{Asked!Track(t, u, t = "t2", TRUE) : u \in BOOLEAN} :
                                 t \in {x \in {"t1", "t2"} : ~Asked!Known(tracks, x)}}
      BY <1>2, Zenon DEF Asked!TrackEvents
    <2>2. PICK t \in {x \in {"t1", "t2"} : ~Asked!Known(tracks, x)} :
            r \in {Asked!Track(t, u, t = "t2", TRUE) : u \in BOOLEAN}
      BY <2>1, Zenon
    <2>3. PICK u \in BOOLEAN, m \in BOOLEAN :
            r = [id |-> t, block |-> head + 1, unlisted |-> u, deleted |-> FALSE,
                 remix |-> m, created |-> TRUE, current |-> TRUE]
      BY <2>2, Zenon DEF Asked!Track
    <2>4. r \in TrackRow /\ r.block = head + 1 /\ r.current /\ r.id = t
      BY <1>1, <2>3 DEF TrackRow
    <2> QED
      BY <2>2, <2>4, Zenon
  <1>3. CASE e = "edit"
    <2>1. Asked!TrackEvents(e) = UNION {{[Asked!Current(tracks, t) EXCEPT !.block = head + 1, !.created = FALSE,
                                  !.unlisted = u] : u \in BOOLEAN} :
                                 t \in {x \in {"t1", "t2"} : Asked!Known(tracks, x)}}
      BY <1>3, Zenon DEF Asked!TrackEvents
    <2>2. PICK t \in {x \in {"t1", "t2"} : Asked!Known(tracks, x)} :
            r \in {[Asked!Current(tracks, t) EXCEPT !.block = head + 1, !.created = FALSE,
                                  !.unlisted = u] : u \in BOOLEAN}
      BY <2>1, Zenon
    <2>3. PICK u \in BOOLEAN : r = [Asked!Current(tracks, t) EXCEPT !.block = head + 1, !.created = FALSE,
                                      !.unlisted = u]
      BY <2>2, Zenon
    <2>4. Asked!Known(tracks, t)
      OBVIOUS
    <2>5. Asked!Current(tracks, t) \in TrackRow /\ Asked!Current(tracks, t).id = t /\ Asked!Current(tracks, t).current
      BY <1>1, <2>4, CurrentRow, Zenon
    <2>6. /\ r \in TrackRow /\ r.block = head + 1 /\ r.id = Asked!Current(tracks, t).id /\ r.current
          /\ Asked!Current(tracks, t).deleted => r.deleted
      <3>1. PICK c \in TrackRow, d \in BOOLEAN, b \in Nat :
              /\ c = Asked!Current(tracks, t) /\ c.current /\ b = head + 1
              /\ r = [c EXCEPT !.block = b, !.created = d, !.unlisted = u]
        BY <1>1, <2>3, <2>5, Zenon
      <3>2. r \in TrackRow /\ r.block = b /\ r.id = c.id /\ r.current /\ (c.deleted => r.deleted)
        <4>1. r \in TrackRow /\ r.block = b /\ r.id = c.id /\ r.current = c.current /\ r.deleted = c.deleted
          BY <3>1 DEF TrackRow
        <4> QED
          BY <3>1, <4>1, Zenon
      <3> QED
        BY <3>1, <3>2, Zenon
    <2> QED
      BY <2>5, <2>6, Zenon
  <1>4. CASE e = "remove"
    <2>1. Asked!TrackEvents(e) = {[Asked!Current(tracks, t) EXCEPT !.block = head + 1, !.created = FALSE,
                           !.deleted = TRUE] :
                           t \in {x \in {"t1", "t2"} : Asked!Known(tracks, x) /\ ~Asked!Current(tracks, x).deleted}}
      BY <1>4, Zenon DEF Asked!TrackEvents
    <2>2. PICK t \in {x \in {"t1", "t2"} : Asked!Known(tracks, x) /\ ~Asked!Current(tracks, x).deleted} :
            r = [Asked!Current(tracks, t) EXCEPT !.block = head + 1, !.created = FALSE, !.deleted = TRUE]
      BY <2>1, Zenon
    <2>3. Asked!Known(tracks, t)
      OBVIOUS
    <2>4. Asked!Current(tracks, t) \in TrackRow /\ Asked!Current(tracks, t).id = t /\ Asked!Current(tracks, t).current
      BY <1>1, <2>3, CurrentRow, Zenon
    <2>5. /\ r \in TrackRow /\ r.block = head + 1 /\ r.id = Asked!Current(tracks, t).id /\ r.current
          /\ r.deleted
      <3>1. PICK c \in TrackRow, d \in BOOLEAN, b \in Nat, g \in BOOLEAN :
              /\ c = Asked!Current(tracks, t) /\ c.current /\ b = head + 1 /\ g
              /\ r = [c EXCEPT !.block = b, !.created = d, !.deleted = g]
        BY <1>1, <2>2, <2>4, Zenon
      <3>2. r \in TrackRow /\ r.block = b /\ r.id = c.id /\ r.current /\ r.deleted
        <4>1. r \in TrackRow /\ r.block = b /\ r.id = c.id /\ r.current = c.current /\ r.deleted = g
          BY <3>1 DEF TrackRow
        <4> QED
          BY <3>1, <4>1, Zenon
      <3> QED
        BY <3>1, <3>2, Zenon
    <2> QED
      BY <2>5, Zenon
  <1>5. CASE e \notin {"upload", "edit", "remove"}
    <2>1. Asked!TrackEvents(e) = {}
      BY <1>5, Zenon DEF Asked!TrackEvents
    <2> QED
      BY <2>1
  <1> QED
    BY <1>2, <1>3, <1>4, <1>5

LEMMA PlaylistEvent ==
  ASSUME NoteInv, NEW e, NEW r \in Asked!PlaylistEvents(e)
  PROVE  /\ r \in PlaylistRow /\ r.block = head + 1 /\ r.current
         /\ ~r.created => \E p \in playlists : p.id = r.id
  <1>1. head + 1 \in Nat /\ playlists \in SUBSET PlaylistRow /\ Versioned(playlists, head)
    BY DEF NoteInv, NoteTypes
  <1>2. CASE e = "newList"
    <2>1. Asked!PlaylistEvents(e) = UNION {{Asked!Playlist(p, v, {}, TRUE) : v \in BOOLEAN} :
                                 p \in {x \in {"p1", "p2"} : ~Asked!Known(playlists, x)}}
      BY <1>2, Zenon DEF Asked!PlaylistEvents
    <2>2. PICK p \in {"p1", "p2"} : r \in {Asked!Playlist(p, v, {}, TRUE) : v \in BOOLEAN}
      BY <2>1, Zenon
    <2>3. PICK v \in BOOLEAN :
            r = [id |-> p, block |-> head + 1, private |-> v, added |-> {}, created |-> TRUE, current |-> TRUE]
      BY <2>2, Zenon DEF Asked!Playlist
    <2> QED
      BY <1>1, <2>3 DEF PlaylistRow
  <1>3. ASSUME NEW p \in {x \in {"p1", "p2"} : Asked!Known(playlists, x)}, NEW d \in BOOLEAN,
               LET c == Asked!Current(playlists, p) IN
                 \/ \E v \in BOOLEAN : r = [c EXCEPT !.block = head + 1, !.created = d, !.private = v]
                 \/ \E a \in SUBSET Nat : r = [c EXCEPT !.block = head + 1, !.created = d, !.added = a]
        PROVE  /\ r \in PlaylistRow /\ r.block = head + 1 /\ r.current
               /\ ~r.created => \E q \in playlists : q.id = r.id
    <2>1. Asked!Known(playlists, p)
      OBVIOUS
    <2>2. /\ Asked!Current(playlists, p) \in PlaylistRow /\ Asked!Current(playlists, p) \in playlists
          /\ Asked!Current(playlists, p).id = p /\ Asked!Current(playlists, p).current
      BY <1>1, <2>1, CurrentRow, Zenon
    <2>3. r \in PlaylistRow /\ r.block = head + 1 /\ r.id = Asked!Current(playlists, p).id /\ r.current
      <3>1. PICK c \in PlaylistRow, b \in Nat :
              /\ c = Asked!Current(playlists, p) /\ c.current /\ b = head + 1
              /\ \/ \E v \in BOOLEAN : r = [c EXCEPT !.block = b, !.created = d, !.private = v]
                 \/ \E a \in SUBSET Nat : r = [c EXCEPT !.block = b, !.created = d, !.added = a]
        BY <1>1, <1>3, <2>2, Zenon
      <3>2. r \in PlaylistRow /\ r.block = b /\ r.id = c.id /\ r.current
        <4>1. ASSUME NEW v \in BOOLEAN, r = [c EXCEPT !.block = b, !.created = d, !.private = v]
              PROVE  r \in PlaylistRow /\ r.block = b /\ r.id = c.id /\ r.current = c.current
          BY <4>1 DEF PlaylistRow
        <4>2. ASSUME NEW a \in SUBSET Nat, r = [c EXCEPT !.block = b, !.created = d, !.added = a]
              PROVE  r \in PlaylistRow /\ r.block = b /\ r.id = c.id /\ r.current = c.current
          BY <4>2 DEF PlaylistRow
        <4> QED
          BY <3>1, <4>1, <4>2, Zenon
      <3> QED
        BY <3>1, <3>2, Zenon
    <2> QED
      BY <2>2, <2>3, Zenon
  <1>4. CASE e = "publish"
    <2>1. Asked!PlaylistEvents(e) = {[Asked!Current(playlists, p) EXCEPT !.block = head + 1, !.created = FALSE,
                           !.private = FALSE] : p \in {x \in {"p1", "p2"} : Asked!Known(playlists, x)}}
      BY <1>4, Zenon DEF Asked!PlaylistEvents
    <2>2. PICK p \in {x \in {"p1", "p2"} : Asked!Known(playlists, x)} :
            r = [Asked!Current(playlists, p) EXCEPT !.block = head + 1, !.created = FALSE, !.private = FALSE]
      BY <2>1, Zenon
    <2> QED
      BY <1>3, <2>2, Zenon
  <1>5. CASE e = "add"
    <2>1. Asked!PlaylistEvents(e) = {[Asked!Current(playlists, p) EXCEPT !.block = head + 1, !.created = FALSE,
                           !.added = @ \cup {head + 1}] :
                           p \in {x \in {"p1", "p2"} : Asked!Known(playlists, x)}}
      BY <1>5, Zenon DEF Asked!PlaylistEvents
    <2>2. PICK p \in {x \in {"p1", "p2"} : Asked!Known(playlists, x)} :
            r = [Asked!Current(playlists, p) EXCEPT !.block = head + 1, !.created = FALSE,
                   !.added = Asked!Current(playlists, p).added \cup {head + 1}]
      BY <2>1, Zenon
    <2>3. Asked!Known(playlists, p)
      OBVIOUS
    <2>4. Asked!Current(playlists, p) \in PlaylistRow
      BY <1>1, <2>3, CurrentRow, Zenon
    <2>5. Asked!Current(playlists, p).added \cup {head + 1} \in SUBSET Nat
      <3>1. Asked!Current(playlists, p).added \in SUBSET Nat
        BY <2>4 DEF PlaylistRow
      <3> QED
        BY <1>1, <3>1
    <2> QED
      BY <1>3, <2>2, <2>5, Zenon
  <1>6. CASE e \notin {"newList", "publish", "add"}
    <2>1. Asked!PlaylistEvents(e) = {}
      BY <1>6, Zenon DEF Asked!PlaylistEvents
    <2> QED
      BY <2>1
  <1> QED
    BY <1>2, <1>4, <1>5, <1>6

LEMMA MarkEvent ==
  ASSUME NoteInv, NEW e, NEW r \in Asked!MarkEvents(e)
  PROVE  /\ r \in MarkRow /\ r.block = head + 1 /\ r.current
         /\ Asked!HasOwner(r.id) \/ Asked!Known(marks, r.id)
  <1>1. head \in Nat
    BY DEF NoteInv, NoteTypes
  <1>2. CASE e = "mark"
    <2>1. Asked!MarkEvents(e) = {Asked!Mark(k, FALSE) : k \in {x \in Asked!MarkKinds : Asked!HasOwner(x) /\ ~Asked!Marking(x)}}
      BY <1>2, Zenon DEF Asked!MarkEvents
    <2>2. PICK k \in {x \in Asked!MarkKinds : Asked!HasOwner(x) /\ ~Asked!Marking(x)} : r = Asked!Mark(k, FALSE)
      BY <2>1
    <2>3. r = [id |-> k, block |-> head + 1, deleted |-> FALSE, current |-> TRUE]
      BY <2>2, Zenon DEF Asked!Mark
    <2>4. r \in MarkRow /\ r.block = head + 1 /\ r.current /\ r.id = k
      BY <1>1, <2>3 DEF MarkRow
    <2> QED
      BY <2>2, <2>4, Zenon
  <1>3. CASE e = "unmark"
    <2>1. Asked!MarkEvents(e) = {Asked!Mark(k, TRUE) : k \in {x \in Asked!MarkKinds : Asked!Marking(x)}}
      BY <1>3, Zenon DEF Asked!MarkEvents
    <2>2. PICK k \in {x \in Asked!MarkKinds : Asked!Marking(x)} : r = Asked!Mark(k, TRUE)
      BY <2>1
    <2>3. r = [id |-> k, block |-> head + 1, deleted |-> TRUE, current |-> TRUE]
      BY <2>2, Zenon DEF Asked!Mark
    <2>4. r \in MarkRow /\ r.block = head + 1 /\ r.current /\ r.id = k
      BY <1>1, <2>3 DEF MarkRow
    <2> QED
      BY <2>2, <2>4, Zenon DEF Asked!Marking
  <1>4. CASE e \notin {"mark", "unmark"}
    <2>1. Asked!MarkEvents(e) = {}
      BY <1>4, Zenon DEF Asked!MarkEvents
    <2> QED
      BY <2>1
  <1> QED
    BY <1>2, <1>3, <1>4

LEMMA TrackWritten ==
  ASSUME NoteInv, NEW r \in TrackRow, r.block = head + 1, r.current,
         Asked!Known(tracks, r.id) => r.deleted \/ ~Asked!Current(tracks, r.id).deleted,
         tracks' = Asked!NewVersion(tracks, r), head' = head + 1,
         UNCHANGED <<playlists, marks, milestones, from, window, got>>
  PROVE  NoteInv'
  <1>1. head \in Nat /\ tracks \in SUBSET TrackRow /\ Versioned(tracks, head)
    BY DEF NoteInv, NoteTypes
  <1>2. \A y \in tracks :
          /\ Retired(y, r.id) \in TrackRow
          /\ Retired(y, r.id).id = y.id /\ Retired(y, r.id).block = y.block
          /\ Retired(y, r.id).unlisted = y.unlisted /\ Retired(y, r.id).deleted = y.deleted
          /\ Retired(y, r.id).created = y.created
          /\ (Retired(y, r.id).current <=> (y.current /\ y.id # r.id))
    BY <1>1, RetiredTrack, Zenon
  <1>3. Versioned(tracks', head')
    BY <1>1, <1>2, StaysVersioned
  <1>4. tracks' = {Retired(y, r.id) : y \in tracks} \cup {r}
    BY NewRows
  <1>5. \A x \in tracks' : x = r \/ \E y \in tracks : x = Retired(y, r.id)
    BY <1>4
  <1>6. tracks' \in SUBSET TrackRow
    BY <1>2, <1>5
  <1>7. NoteTypes'
    BY <1>1, <1>6 DEF NoteInv, NoteTypes
  <1>8. Versioned(playlists', head') /\ Versioned(marks', head')
    BY <1>1 DEF NoteInv, Versioned
  <1>9. \A i : Asked!Known(tracks, i) => Asked!Known(tracks, i)'
    BY <1>2, <1>4 DEF Asked!Known
  <1>10. MarksHaveItems' /\ EditsFollow'
    BY <1>9 DEF NoteInv, MarksHaveItems, EditsFollow, Asked!Known
  <1>11. ASSUME NEW m \in marks, Asked!HasOwner(m.id)' PROVE Asked!HasOwner(m.id)
    <2>1. m.id \in {"follow", "save", "repost", "saveList"}
      BY DEF NoteInv, NoteTypes, MarkRow, Asked!MarkKinds
    <2>2. CASE m.id = "follow"
      BY <2>2, Zenon DEF Asked!HasOwner
    <2>3. CASE m.id = "saveList"
      <3>1. (\E p \in playlists : p.id = "p1" /\ p.current)
        BY <1>11, <2>3, Zenon DEF Asked!HasOwner
      <3> QED
        BY <2>3, <3>1, Zenon DEF Asked!HasOwner
    <2>4. CASE m.id \in {"save", "repost"}
      <3>1. PICK t \in tracks' : t.id = "t1" /\ t.current /\ ~t.deleted
        BY <1>11, <2>4, Zenon DEF Asked!HasOwner
      <3>2. Asked!Known(tracks, "t1")
        BY <2>4 DEF NoteInv, MarksHaveItems
      <3>3. \E y \in tracks : y.id = "t1" /\ y.current /\ ~y.deleted
        <4>1. CASE t = r
          <5>1. r.id = "t1" /\ ~Asked!Current(tracks, "t1").deleted
            BY <3>1, <3>2, <4>1
          <5>2. /\ Asked!Current(tracks, "t1") \in tracks /\ Asked!Current(tracks, "t1").id = "t1"
                /\ Asked!Current(tracks, "t1").current
            BY <1>1, <3>2, CurrentRow, Zenon
          <5> QED
            BY <5>1, <5>2
        <4>2. ASSUME NEW y \in tracks, t = Retired(y, r.id)
              PROVE  y.id = "t1" /\ y.current /\ ~y.deleted
          BY <1>2, <3>1, <4>2
        <4> QED
          BY <1>5, <4>1, <4>2
      <3> QED
        BY <2>4, <3>3, Zenon DEF Asked!HasOwner
    <2> QED
      BY <2>1, <2>2, <2>3, <2>4
  <1>12. Delivered'
    <2>1. ASSUME NEW m \in marks, m.current, ~m.deleted, Ended(m.block), Asked!HasOwner(m.id)'
          PROVE  Asked!Notif("mark", m.id, m.block) \in got
      BY <1>11, <2>1 DEF NoteInv, Delivered
    <2>2. ASSUME NEW x \in tracks', x.created, ~x.unlisted, ~x.deleted, Ended(x.block)
          PROVE  Asked!Notif("create", x.id, x.block) \in got
      <3>1. x # r
        BY <1>1, <2>2 DEF Ended, NoteInv, NoteTypes
      <3>2. PICK y \in tracks : x = Retired(y, r.id)
        BY <1>5, <3>1
      <3>3. y.created /\ ~y.unlisted /\ ~y.deleted /\ Ended(y.block) /\ x.id = y.id /\ x.block = y.block
        BY <1>2, <2>2, <3>2
      <3> QED
        BY <3>3 DEF NoteInv, Delivered
    <2>3. \A p : Asked!PrevList(p)' = Asked!PrevList(p)
      BY DEF Asked!PrevList
    <2> QED
      BY <2>1, <2>2, <2>3 DEF NoteInv, Delivered, Ended, Asked!Notif
  <1> QED
    BY <1>3, <1>7, <1>8, <1>10, <1>12 DEF NoteInv

LEMMA PlaylistWritten ==
  ASSUME NoteInv, NEW r \in PlaylistRow, r.block = head + 1, r.current,
         ~r.created => \E p \in playlists : p.id = r.id,
         playlists' = Asked!NewVersion(playlists, r), head' = head + 1,
         UNCHANGED <<tracks, marks, milestones, from, window, got>>
  PROVE  NoteInv'
  <1>1. head \in Nat /\ playlists \in SUBSET PlaylistRow /\ Versioned(playlists, head)
        /\ from \in 0..head
    BY DEF NoteInv, NoteTypes
  <1>2. \A y \in playlists :
          /\ Retired(y, r.id) \in PlaylistRow
          /\ Retired(y, r.id).id = y.id /\ Retired(y, r.id).block = y.block
          /\ Retired(y, r.id).private = y.private /\ Retired(y, r.id).created = y.created
          /\ (Retired(y, r.id).current <=> (y.current /\ y.id # r.id))
    BY <1>1, RetiredPlaylist, Zenon
  <1>3. Versioned(playlists', head')
    BY <1>1, <1>2, StaysVersioned
  <1>4. playlists' = {Retired(y, r.id) : y \in playlists} \cup {r}
    BY NewRows
  <1>5. \A x \in playlists' : x = r \/ \E y \in playlists : x = Retired(y, r.id)
    BY <1>4
  <1>a. \A y \in playlists : Retired(y, r.id) \in playlists' /\ y.block <= head /\ y.block \in Nat
    BY <1>1, <1>4 DEF Versioned
  <1>6. playlists' \in SUBSET PlaylistRow
    BY <1>2, <1>5
  <1>7. NoteTypes'
    BY <1>1, <1>6 DEF NoteInv, NoteTypes
  <1>8. Versioned(tracks', head') /\ Versioned(marks', head')
    BY <1>1 DEF NoteInv, Versioned
  <1>9. \A i : Asked!Known(playlists, i) => Asked!Known(playlists, i)'
    BY <1>2, <1>4 DEF Asked!Known
  <1>10. MarksHaveItems'
    BY <1>9 DEF NoteInv, MarksHaveItems, Asked!Known
  <1>b. EditsFollow'
    <2>1. ASSUME NEW x \in playlists', ~x.created
          PROVE  \E p \in playlists' : p.id = x.id /\ p.block < x.block
      <3>1. CASE x = r
        <4>1. PICK p \in playlists : p.id = r.id
          BY <2>1, <3>1
        <4>2. Retired(p, r.id) \in playlists' /\ Retired(p, r.id).id = r.id /\ Retired(p, r.id).block < r.block
          BY <1>1, <1>2, <1>a, <4>1
        <4> QED
          BY <3>1, <4>2
      <3>2. ASSUME NEW y \in playlists, x = Retired(y, r.id)
            PROVE  \E p \in playlists' : p.id = x.id /\ p.block < x.block
        <4>1. PICK p \in playlists : p.id = y.id /\ p.block < y.block
          BY <1>2, <2>1, <3>2 DEF NoteInv, EditsFollow
        <4>2. Retired(p, r.id) \in playlists' /\ Retired(p, r.id).id = x.id /\ Retired(p, r.id).block < x.block
          BY <1>2, <1>a, <3>2, <4>1
        <4> QED
          BY <4>2
      <3> QED
        BY <1>5, <3>1, <3>2
    <2> QED
      BY <2>1 DEF EditsFollow
  <1>11. ASSUME NEW m \in marks, Asked!HasOwner(m.id)' PROVE Asked!HasOwner(m.id)
    <2>1. m.id \in {"follow", "save", "repost", "saveList"}
      BY DEF NoteInv, NoteTypes, MarkRow, Asked!MarkKinds
    <2>2. CASE m.id = "follow"
      BY <2>2, Zenon DEF Asked!HasOwner
    <2>3. CASE m.id = "saveList"
      <3>1. Asked!Known(playlists, "p1")
        BY <2>3 DEF NoteInv, MarksHaveItems
      <3>2. \E p \in playlists : p.id = "p1" /\ p.current
        BY <1>1, <3>1, CurrentRow, Zenon
      <3> QED
        BY <2>3, <3>2, Zenon DEF Asked!HasOwner
    <2>4. CASE m.id \in {"save", "repost"}
      <3>1. (\E t \in tracks : t.id = "t1" /\ t.current /\ ~t.deleted)
        BY <1>11, <2>4, Zenon DEF Asked!HasOwner
      <3> QED
        BY <2>4, <3>1, Zenon DEF Asked!HasOwner
    <2> QED
      BY <2>1, <2>2, <2>3, <2>4
  <1>12. Delivered'
    <2>1. ASSUME NEW m \in marks, m.current, ~m.deleted, Ended(m.block), Asked!HasOwner(m.id)'
          PROVE  Asked!Notif("mark", m.id, m.block) \in got
      BY <1>11, <2>1 DEF NoteInv, Delivered
    <2>2. ASSUME NEW x \in playlists', ~x.private, Ended(x.block), x.created \/ Prev(playlists', x).private
          PROVE  Asked!Notif("create", x.id, x.block) \in got
      <3>1. x # r
        BY <1>1, <2>2 DEF Ended
      <3>2. PICK y \in playlists : x = Retired(y, r.id)
        BY <1>5, <3>1
      <3>3. ~y.private /\ Ended(y.block) /\ x.id = y.id /\ x.block = y.block
        BY <1>2, <2>2, <3>2
      <3>4. CASE x.created
        <4>1. y.created
          BY <1>2, <3>2, <3>4
        <4> QED
          BY <3>3, <4>1 DEF NoteInv, Delivered
      <3>5. CASE ~x.created
        <4>1. \E p \in playlists : p.id = y.id /\ p.block < y.block
          BY <1>2, <3>2, <3>5 DEF NoteInv, EditsFollow
        <4>2. IsPrev(playlists, y, Prev(playlists, y))
          BY <1>1, <4>1, PrevOf
        <4>3. \E p \in playlists' : p.id = x.id /\ p.block < x.block
          BY <1>b, <3>5 DEF EditsFollow
        <4>4. IsPrev(playlists', x, Prev(playlists', x))
          BY <1>6, <4>3, PrevOf
        <4> DEFINE p == Prev(playlists', x)
                   q == Prev(playlists, y)
        <4>5. p \in playlists' /\ p.id = x.id /\ p.block < x.block
              /\ \A z \in playlists' : z.id = x.id /\ z.block < x.block => z.block <= p.block
          BY <4>4 DEF IsPrev
        <4>6. q \in playlists /\ q.id = y.id /\ q.block < y.block
              /\ \A z \in playlists : z.id = y.id /\ z.block < y.block => z.block <= q.block
          BY <4>2 DEF IsPrev
        <4> HIDE DEF p, q
        <4>7. p # r
          BY <1>1, <1>a, <3>3, <4>5
        <4>8. PICK z \in playlists : p = Retired(z, r.id)
          BY <1>5, <4>5, <4>7
        <4>9. z.id = y.id /\ z.block < y.block /\ p.block = z.block /\ p.private = z.private
          BY <1>2, <3>3, <4>5, <4>8
        <4>10. z.block <= q.block
          BY <4>6, <4>9
        <4>11. q.block <= z.block
          <5>1. Retired(q, r.id) \in playlists' /\ Retired(q, r.id).id = x.id /\ Retired(q, r.id).block = q.block
            BY <1>2, <1>a, <3>3, <4>6
          <5> QED
            BY <3>3, <4>5, <4>6, <4>9, <5>1
        <4>12. z = q
          <5>1. z.block = q.block
            BY <1>a, <4>6, <4>10, <4>11
          <5> QED
            BY <1>1, <4>6, <5>1 DEF Versioned
        <4>13. q.private
          BY <2>2, <3>5, <4>9, <4>12 DEF p
        <4>14. q = Asked!PrevList(y)
          BY Zenon DEF q, Prev, Asked!PrevList
        <4> QED
          BY <3>3, <4>13, <4>14 DEF NoteInv, Delivered
      <3> QED
        BY <3>4, <3>5
    <2>3. \A x : Asked!PrevList(x)' = Prev(playlists', x)
      BY Zenon DEF Asked!PrevList, Prev
    <2> QED
      BY <2>1, <2>2, <2>3 DEF NoteInv, Delivered, Ended, Asked!Notif
  <1> QED
    BY <1>3, <1>7, <1>8, <1>10, <1>b, <1>12 DEF NoteInv

LEMMA MarkWritten ==
  ASSUME NoteInv, NEW r \in MarkRow, r.block = head + 1, r.current,
         Asked!HasOwner(r.id) \/ Asked!Known(marks, r.id),
         marks' = Asked!NewVersion(marks, r), head' = head + 1,
         UNCHANGED <<tracks, playlists, milestones, from, window, got>>
  PROVE  NoteInv'
  <1>1. head \in Nat /\ marks \in SUBSET MarkRow /\ Versioned(marks, head) /\ from \in 0..head
    BY DEF NoteInv, NoteTypes
  <1>2. \A y \in marks :
          /\ Retired(y, r.id) \in MarkRow
          /\ Retired(y, r.id).id = y.id /\ Retired(y, r.id).block = y.block
          /\ Retired(y, r.id).deleted = y.deleted
          /\ (Retired(y, r.id).current <=> (y.current /\ y.id # r.id))
    BY <1>1, RetiredMark, Zenon
  <1>3. Versioned(marks', head')
    BY <1>1, <1>2, StaysVersioned
  <1>4. marks' = {Retired(y, r.id) : y \in marks} \cup {r}
    BY NewRows
  <1>5. \A x \in marks' : x = r \/ \E y \in marks : x = Retired(y, r.id)
    BY <1>4
  <1>6. marks' \in SUBSET MarkRow
    BY <1>2, <1>5
  <1>7. NoteTypes'
    BY <1>1, <1>6 DEF NoteInv, NoteTypes
  <1>8. Versioned(tracks', head') /\ Versioned(playlists', head')
    BY <1>1 DEF NoteInv, Versioned
  <1>9. ASSUME NEW m \in marks'
        PROVE  /\ m.id \in {"save", "repost"} => Asked!Known(tracks, "t1")
               /\ m.id = "saveList" => Asked!Known(playlists, "p1")
    <2>1. ASSUME NEW y \in marks, y.id = m.id
          PROVE  /\ m.id \in {"save", "repost"} => Asked!Known(tracks, "t1")
                 /\ m.id = "saveList" => Asked!Known(playlists, "p1")
      BY <2>1 DEF NoteInv, MarksHaveItems
    <2>2. CASE Asked!HasOwner(r.id) /\ m = r
      <3>1. r.id \in {"save", "repost"} => \E t \in tracks : t.id = "t1" /\ t.current /\ ~t.deleted
        BY <2>2, Zenon DEF Asked!HasOwner
      <3>2. (r.id = "saveList") => \E p \in playlists : p.id = "p1" /\ p.current
        BY <2>2, Zenon DEF Asked!HasOwner
      <3> QED
        BY <2>2, <3>1, <3>2 DEF Asked!Known
    <2> QED
      BY <1>2, <1>5, <2>1, <2>2 DEF Asked!Known
  <1>10. MarksHaveItems' /\ EditsFollow'
    BY <1>9 DEF NoteInv, MarksHaveItems, EditsFollow, Asked!Known
  <1>11. \A k : Asked!HasOwner(k)' = Asked!HasOwner(k)
    BY DEF Asked!HasOwner
  <1>12. Delivered'
    <2>1. ASSUME NEW x \in marks', x.current, ~x.deleted, Ended(x.block), Asked!HasOwner(x.id)
          PROVE  Asked!Notif("mark", x.id, x.block) \in got
      <3>1. x # r
        BY <1>1, <2>1 DEF Ended
      <3>2. PICK y \in marks : x = Retired(y, r.id)
        BY <1>5, <3>1
      <3>3. y.current /\ ~y.deleted /\ x.id = y.id /\ x.block = y.block
        BY <1>2, <2>1, <3>2
      <3> QED
        BY <2>1, <3>3 DEF NoteInv, Delivered
    <2>2. \A x : Asked!PrevList(x)' = Asked!PrevList(x)
      BY DEF Asked!PrevList
    <2> QED
      BY <1>11, <2>1, <2>2 DEF NoteInv, Delivered, Ended, Asked!Notif
  <1> QED
    BY <1>3, <1>7, <1>8, <1>10, <1>12 DEF NoteInv

LEMMA NothingVersioned ==
  ASSUME NoteInv, head' = head + 1, milestones' \in {milestones, milestones \cup {head + 1}},
         UNCHANGED <<tracks, playlists, marks, from, window, got>>
  PROVE  NoteInv'
  <1>1. head \in Nat /\ from \in 0..head /\ milestones \subseteq 1..head
    BY DEF NoteInv, NoteTypes
  <1>2. NoteTypes'
    BY <1>1 DEF NoteInv, NoteTypes
  <1>3. Versioned(tracks', head') /\ Versioned(playlists', head') /\ Versioned(marks', head')
    BY <1>1 DEF NoteInv, Versioned
  <1>4. \A b \in milestones' : Ended(b) => b \in milestones
    BY <1>1 DEF Ended
  <1>5. (\A k : Asked!HasOwner(k)' = Asked!HasOwner(k)) /\ \A r : Asked!PrevList(r)' = Asked!PrevList(r)
    BY DEF Asked!HasOwner, Asked!PrevList
  <1>6. Delivered'
    BY <1>4, <1>5 DEF NoteInv, Delivered, Ended, Asked!Notif
  <1> QED
    BY <1>2, <1>3, <1>6 DEF NoteInv, MarksHaveItems, EditsFollow, Asked!Known

LEMMA IndexBlockKeeps == ASSUME NoteInv, Asked!IndexBlock PROVE NoteInv'
  <1>1. head' = head + 1 /\ UNCHANGED <<events, from, window, got>>
    BY DEF Asked!IndexBlock
  <1>2. CASE UNCHANGED Asked!tables
    BY <1>1, <1>2, NothingVersioned DEF Asked!tables
  <1>3. ASSUME NEW e \in events, NEW r \in Asked!TrackEvents(e), tracks' = Asked!NewVersion(tracks, r),
               UNCHANGED <<playlists, marks, balance, milestones>>
        PROVE  NoteInv'
    <2>1. /\ r \in TrackRow /\ r.block = head + 1 /\ r.current
          /\ Asked!Known(tracks, r.id) => r.deleted \/ ~Asked!Current(tracks, r.id).deleted
      BY TrackEvent
    <2> QED
      BY <1>1, <1>3, <2>1, TrackWritten
  <1>4. ASSUME NEW e \in events, NEW r \in Asked!PlaylistEvents(e), playlists' = Asked!NewVersion(playlists, r),
               UNCHANGED <<tracks, marks, balance, milestones>>
        PROVE  NoteInv'
    <2>1. /\ r \in PlaylistRow /\ r.block = head + 1 /\ r.current
          /\ ~r.created => \E p \in playlists : p.id = r.id
      BY PlaylistEvent
    <2> QED
      BY <1>1, <1>4, <2>1, PlaylistWritten
  <1>5. ASSUME NEW e \in events, NEW r \in Asked!MarkEvents(e), marks' = Asked!NewVersion(marks, r),
               UNCHANGED <<tracks, playlists, balance, milestones>>
        PROVE  NoteInv'
    <2>1. /\ r \in MarkRow /\ r.block = head + 1 /\ r.current
          /\ Asked!HasOwner(r.id) \/ Asked!Known(marks, r.id)
      BY MarkEvent
    <2> QED
      BY <1>1, <1>5, <2>1, MarkWritten
  <1>6. CASE milestones' \in {milestones, milestones \cup {head + 1}} /\ UNCHANGED <<tracks, playlists, marks>>
    BY <1>1, <1>6, NothingVersioned
  <1>7. \/ UNCHANGED Asked!tables
        \/ \E e \in events :
             \/ /\ \E r \in Asked!TrackEvents(e) : tracks' = Asked!NewVersion(tracks, r)
                /\ UNCHANGED <<playlists, marks, balance, milestones>>
             \/ /\ \E r \in Asked!PlaylistEvents(e) : playlists' = Asked!NewVersion(playlists, r)
                /\ UNCHANGED <<tracks, marks, balance, milestones>>
             \/ /\ \E r \in Asked!MarkEvents(e) : marks' = Asked!NewVersion(marks, r)
                /\ UNCHANGED <<tracks, playlists, balance, milestones>>
             \/ UNCHANGED <<tracks, playlists, marks, milestones>>
             \/ /\ milestones' = milestones \cup {head + 1}
                /\ UNCHANGED <<tracks, playlists, marks, balance>>
    BY DEF Asked!IndexBlock
  <1> QED
    BY <1>2, <1>3, <1>4, <1>5, <1>6, <1>7

(* On a chain whose numbers are not shifted, consecutive windows of GET    *)
(* /notifications deliver together what one window over all their blocks   *)
(* would: whatever was replaced, deleted or published while the service    *)
(* polled.  With a final_poa_block MCNotificationsCutover refutes it.      *)
THEOREM NotificationsReachAll ==
  ASSUME FinalPOA = 0, MaxBlockDiff \in Nat
  PROVE  Asked!Spec => []Asked!EventsDelivered
  <1>1. Asked!Init => NoteInv
    BY DEF Asked!Init, NoteInv, NoteTypes, Versioned, MarksHaveItems, EditsFollow, Delivered
  <1>2. NoteInv /\ [Asked!Next]_Asked!vars => NoteInv'
    <2>1. SUFFICES ASSUME NoteInv, [Asked!Next]_Asked!vars PROVE NoteInv'
      OBVIOUS
    <2>2. CASE UNCHANGED Asked!vars
      <3>1. UNCHANGED <<head, tracks, playlists, marks, milestones, from, window, got>>
        BY <2>2 DEF Asked!vars
      <3>2. NoteTypes'
        BY <2>1, <3>1 DEF NoteInv, NoteTypes
      <3>3. Delivered'
        BY <2>1, <3>1 DEF NoteInv, Delivered, Ended, Asked!HasOwner, Asked!PrevList
      <3> QED
        BY <2>1, <3>1, <3>2, <3>3 DEF NoteInv, MarksHaveItems, EditsFollow, Asked!Known
    <2> QED
      BY <2>1, <2>2, IndexBlockKeeps, AskKeeps, AnswerKeeps, AnswerFailsKeeps DEF Asked!Next
  <1>3. NoteInv => Asked!EventsDelivered
    <2>1. SUFFICES ASSUME NoteInv, NEW w, w = [min |-> FinalPOA, max |-> from]
                   PROVE  Asked!Due(w) \subseteq got
      BY DEF Asked!EventsDelivered
    <2>2. \A b : Asked!In(w, b) <=> Ended(b)
      BY <2>1 DEF Asked!In, Ended
    <2>3. Delivered
      BY <2>1 DEF NoteInv
    <2>4. Asked!Marked(w) \subseteq got
      BY <2>2, <2>3 DEF Asked!Marked, Delivered
    <2>5. \A r \in Asked!CreatedTracks(w) : Asked!Notif("create", r.id, r.block) \in got
      BY <2>2, <2>3 DEF Asked!CreatedTracks, Delivered
    <2>6. Asked!NewLists(w) \subseteq got
      BY <2>2, <2>3 DEF Asked!NewLists, Delivered
    <2>7. \A b \in milestones : Asked!In(w, b) => Asked!Notif("milestone", "t1", b) \in got
      BY <2>2, <2>3 DEF Delivered
    <2> QED
      BY <2>4, <2>5, <2>6, <2>7 DEF Asked!Due
  <1> QED
    BY <1>1, <1>2, <1>3, PTL DEF Asked!Spec
=============================================================================
