------------------------- MODULE ContentSyncProofs -------------------------
(***************************************************************************)
(* Proofs about ContentSync for any nodes, job slots, entries, replica     *)
(* sets, page size and bounds on faults and updates, with locks that may   *)
(* expire under their holders: first what each operation of ClockRecords   *)
(* does to the numbering of a user's records, then the rows of all nodes,  *)
(* what outlives the primaries, and what holds while one of them stays.    *)
(***************************************************************************)
EXTENDS ContentSync, FiniteSetTheorems, SequenceTheorems, TLAPS

(***************************************************************************)
(* The numbering.  Maxima are taken by CHOOSE, so sets of clocks are kept  *)
(* as explicit intervals: the records of a sound user are numbered 1 .. k  *)
(* and those of an export page a .. b.                                     *)
(***************************************************************************)
Unique(R) == \A r, q \in R : r.clock = q.clock => r = q

\* The user's records are numbered 1 .. k and its clock is the last of them
\* or has been set back.
Numbered(u, k) ==
    /\ Clocks(u.records) = 1 .. k
    /\ Unique(u.records)
    /\ u.clock \in {-1, 0, k}

Sound(u) ==
    /\ u \in User
    /\ u.clock = -1 => u = NoUser
    /\ \E k \in Nat : Numbered(u, k)

\* A page with rows is an interval that ends at its clock; one without rows
\* is a new user's, with clock 0.
SoundPage(x) ==
    /\ x \in ExportPage
    /\ x.clock \in Nat
    /\ x.records \in SUBSET Record
    /\ Unique(x.records)
    /\ \/ x.records = {} /\ x.clock = 0
       \/ \E a \in Nat \ {0} :
             /\ a <= x.clock
             /\ Clocks(x.records) = a .. x.clock

\* The maximum of an interval of naturals from 1, and of any interval.
LEMMA MaxOfInterval ==
    ASSUME NEW a \in Int, NEW b \in Int, a <= b
    PROVE  Max(a .. b) = b
  <1> DEFINE P(x) == x \in a .. b /\ \A y \in a .. b : x >= y
  <1>1. P(b)
    OBVIOUS
  <1>2. \A x : P(x) => x = b
    OBVIOUS
  <1> QED
    BY <1>1, <1>2 DEF Max

LEMMA ClocksOfEmpty == Clocks({}) = {}
  BY DEF Clocks

LEMMA ClocksOfUnion ==
    ASSUME NEW R, NEW S
    PROVE  Clocks(R \cup S) = Clocks(R) \cup Clocks(S)
  BY Zenon DEF Clocks

LEMMA ClocksOfOne ==
    ASSUME NEW c, NEW e
    PROVE  Clocks({[clock |-> c, entry |-> e]}) = {c}
  BY DEF Clocks

LEMMA MaxClockOfNumbered ==
    ASSUME NEW R, NEW k \in Nat, Clocks(R) = 1 .. k
    PROVE  MaxClock(R) = k
  <1>1. CASE R = {}
    <2>1. 1 .. k = {}
      BY <1>1, ClocksOfEmpty
    <2>2. k = 0
      BY <2>1
    <2> QED
      BY <1>1, <2>2 DEF MaxClock
  <1>2. CASE R # {}
    <2>1. PICK r \in R : TRUE
      BY <1>2
    <2>2. r.clock \in 1 .. k
      BY <2>1 DEF Clocks
    <2>3. Max(1 .. k) = k
      BY <2>2, MaxOfInterval
    <2> QED
      BY <1>2, <2>3 DEF MaxClock
  <1> QED
    BY <1>1, <1>2

\* Records with distinct clocks out of a finite interval are finitely many.
LEMMA NumberedIsFinite ==
    ASSUME NEW R \in SUBSET Record, NEW a \in Int, NEW b \in Int,
           Clocks(R) \subseteq a .. b, Unique(R)
    PROVE  IsFiniteSet(R)
  <1> DEFINE g == [r \in R |-> r.clock]
  <1>1. g \in [R -> a .. b]
    BY DEF Clocks
  <1>2. IsInjective(g)
    BY DEF Unique, IsInjective
  <1>3. g \in Injection(R, a .. b)
    BY <1>1, <1>2 DEF Injection
  <1>4. IsFiniteSet(a .. b)
    BY FS_Interval
  <1> QED
    BY <1>3, <1>4, FS_Injection

LEMMA NewUsersSound == Sound(NoUser) /\ Sound(FreshUser)
  <1>1. 1 .. 0 = {}
    OBVIOUS
  <1>2. Numbered(NoUser, 0) /\ Numbered(FreshUser, 0)
    BY <1>1, ClocksOfEmpty DEF Numbered, NoUser, FreshUser, Unique
  <1>3. NoUser \in User /\ FreshUser \in User
    BY DEF NoUser, FreshUser, User
  <1>4. FreshUser.clock # -1
    BY DEF FreshUser
  <1> QED
    BY <1>2, <1>3, <1>4 DEF Sound

(***************************************************************************)
(* createNewDataRecord extends the numbering by one: the primary key that  *)
(* rejects a taken clock makes the incremented clock the next one.         *)
(***************************************************************************)
LEMMA AppendKeepsSound ==
    ASSUME NEW u, Sound(u), CanAppend(u), NEW e \in Entry
    PROVE  Sound(Append1(u, e))
  <1>1. PICK k \in Nat : Numbered(u, k)
    BY DEF Sound
  <1>2. u.clock \in Nat /\ u.records \in SUBSET Record
    BY DEF Sound, User, CanAppend
  <1>3. u.clock + 1 \notin 1 .. k /\ u.clock <= k
    BY <1>1 DEF CanAppend, Numbered
  <1>4. u.clock = k
    BY <1>2, <1>3
  <1> DEFINE new == [clock |-> k + 1, entry |-> e]
             R == u.records \cup {new}
  <1>5. Append1(u, e) = [clock |-> k + 1, records |-> R]
    BY <1>4 DEF Append1
  <1>6. new \in Record
    BY DEF Record
  <1>7. Clocks(R) = Clocks(u.records) \cup {k + 1}
    <2>1. Clocks(R) = Clocks(u.records) \cup Clocks({new})
      BY ClocksOfUnion, Zenon
    <2> QED
      BY <2>1, ClocksOfOne, Zenon
  <1>8. Clocks(R) = 1 .. k + 1
    <2>1. (1 .. k) \cup {k + 1} = 1 .. k + 1
      OBVIOUS
    <2> QED
      BY <1>1, <1>7, <2>1 DEF Numbered
  <1>9. Unique(R)
    <2>1. \A r \in u.records : r.clock \in 1 .. k
      BY <1>1 DEF Numbered, Clocks
    <2> QED
      BY <1>1, <2>1 DEF Numbered, Unique
  <1>10. Numbered(Append1(u, e), k + 1)
    BY <1>5, <1>8, <1>9 DEF Numbered
  <1>11. Append1(u, e) \in User
    BY <1>2, <1>5, <1>6 DEF User
  <1>12. Append1(u, e).clock # -1
    BY <1>5
  <1> QED
    BY <1>10, <1>11, <1>12 DEF Sound

(***************************************************************************)
(* An import the hook accepts continues the numbering where it is, however *)
(* old the clock is for which the page was asked.                          *)
(***************************************************************************)
LEMMA ImportKeepsSound ==
    ASSUME NEW u, Sound(u), NEW x, SoundPage(x),
           HookAccepts(u.records, x.records)
    PROVE  Sound(Import(u, x))
  <1>1. PICK k \in Nat : Numbered(u, k)
    BY DEF Sound
  <1>2. u.records \in SUBSET Record
    BY DEF Sound, User
  <1> DEFINE R == u.records \cup x.records
  <1>3. Import(u, x) = [clock |-> x.clock, records |-> R]
    BY DEF Import
  <1>4. Import(u, x) \in User /\ Import(u, x).clock # -1
    BY <1>2, <1>3 DEF SoundPage, User
  <1>5. CASE x.records = {}
    <2>1. x.clock <= 0
      <3>1. ASSUME NEW a \in Nat \ {0}, a <= x.clock,
                   Clocks(x.records) = a .. x.clock
            PROVE  FALSE
        <4>1. a .. x.clock = {}
          BY <1>5, <3>1, ClocksOfEmpty
        <4>2. a \in a .. x.clock
          BY <3>1 DEF SoundPage
        <4> QED
          BY <4>1, <4>2
      <3> QED
        BY <3>1 DEF SoundPage
    <2>2. x.clock = 0
      BY <2>1 DEF SoundPage
    <2>3. Numbered(Import(u, x), k)
      BY <1>1, <1>3, <1>5, <2>2 DEF Numbered
    <2> QED
      BY <1>4, <2>3 DEF Sound
  <1>6. CASE x.records # {}
    <2>1. PICK a \in Nat \ {0} :
              a <= x.clock /\ Clocks(x.records) = a .. x.clock
      BY <1>6 DEF SoundPage
    <2>2. x.clock \in Nat
      BY <2>1 DEF SoundPage
    <2>3. MaxClock(u.records) = k
      BY <1>1, MaxClockOfNumbered DEF Numbered
    <2>4. Max(Clocks(x.records)) = x.clock
      BY <2>1, <2>2, MaxOfInterval
    <2>5. Clocks(x.records) = k + 1 .. x.clock
      BY <1>6, <2>3, <2>4 DEF HookAccepts
    <2>6. k + 1 <= x.clock
      BY <2>1, <2>2, <2>5
    <2>7. Clocks(R) = (1 .. k) \cup (k + 1 .. x.clock)
      <3>1. Clocks(R) = Clocks(u.records) \cup Clocks(x.records)
        BY ClocksOfUnion, Zenon
      <3> QED
        BY <1>1, <2>5, <3>1, Zenon DEF Numbered
    <2>8. Clocks(R) = 1 .. x.clock
      <3>1. (1 .. k) \cup (k + 1 .. x.clock) = 1 .. x.clock
        BY <2>2, <2>6
      <3> QED
        BY <2>7, <3>1, Zenon
    <2>9. Unique(R)
      <3>1. \A r \in u.records : r.clock \in 1 .. k
        BY <1>1 DEF Numbered, Clocks
      <3>2. \A r \in x.records : r.clock \in k + 1 .. x.clock
        BY <2>5 DEF Clocks
      <3>3. \A r \in u.records, q \in x.records : r.clock # q.clock
        BY <2>2, <3>1, <3>2
      <3> QED
        BY <1>1, <3>3 DEF Numbered, Unique, SoundPage
    <2>10. Numbered(Import(u, x), x.clock)
      BY <1>3, <2>2, <2>8, <2>9 DEF Numbered
    <2> QED
      BY <1>4, <2>2, <2>10 DEF Sound
  <1> QED
    BY <1>5, <1>6

(***************************************************************************)
(* What a node with sound records exports and a secondary finds valid is a *)
(* sound page. Only a user with clock 0 gives a valid page without rows.   *)
(***************************************************************************)
LEMMA ExportIsSound ==
    ASSUME NEW u, Sound(u), NEW local \in Nat \cup {-1},
           ValidImport(Export(u, local + 1), local)
    PROVE  SoundPage(Export(u, local + 1))
  <1> DEFINE x == Export(u, local + 1)
             last == RangeMax(local + 1)
  <1>1. PICK k \in Nat : Numbered(u, k)
    BY DEF Sound
  <1>2. u.clock \in Nat \cup {-1} /\ u.records \in SUBSET Record
    BY DEF Sound, User
  <1>3. last \in Nat /\ local + 1 <= last
    BY MaxExportRangeAssumption DEF RangeMax
  <1>4. x.clock = IF u.clock <= last THEN u.clock ELSE last
    <2>1. Min({u.clock, last}) = IF u.clock <= last THEN u.clock ELSE last
      BY <1>2, <1>3 DEF Min
    <2> QED
      BY <2>1 DEF Export
  <1>5. x.records = {r \in u.records : r.clock \in local + 1 .. last}
    BY DEF Export
  <1>6. /\ x.clock \in Nat \cup {-1} /\ x.records \in SUBSET Record
        /\ x \in ExportPage
    <2>1. x.clock \in Nat \cup {-1} /\ x.records \in SUBSET Record
      BY <1>2, <1>3, <1>4, <1>5
    <2>2. x = [clock |-> x.clock, records |-> x.records]
      BY DEF Export
    <2> HIDE DEF x
    <2> QED
      BY <2>1, <2>2, Zenon DEF ExportPage
  <1>7. Unique(x.records)
    BY <1>1, <1>5 DEF Numbered, Unique
  <1>8. x.clock \in Nat /\ x.clock > local /\ x.clock <= last /\ x.clock <= k
    BY <1>1, <1>2, <1>3, <1>4, <1>6 DEF ValidImport, ImportIsNewer, Numbered
  <1>9. Clocks(x.records) = (local + 1 .. last) \cap (1 .. k)
    BY <1>1, <1>5, Zenon DEF Clocks, Numbered
  <1>10. CASE x.records = {}
    <2>1. (local + 1 .. last) \cap (1 .. k) = {}
      BY <1>9, <1>10, ClocksOfEmpty
    <2>2. x.clock = 0
      BY <1>3, <1>8, <2>1
    <2> QED
      BY <1>7, <1>6, <1>8, <1>10, <2>2 DEF SoundPage
  <1>11. CASE x.records # {}
    <2>1. PICK c : c \in (local + 1 .. last) \cap (1 .. k)
      BY <1>9, <1>11 DEF Clocks
    <2> DEFINE lo == IF local = -1 THEN 1 ELSE local + 1
               hi == IF last <= k THEN last ELSE k
    <2>2. lo \in Nat \ {0} /\ hi \in Nat /\ lo <= hi
      BY <1>3, <2>1
    <2>3. (local + 1 .. last) \cap (1 .. k) = lo .. hi
      BY <1>3
    <2>4. Max(Clocks(x.records)) = hi
      <3>1. Max(lo .. hi) = hi
        <4> HIDE DEF lo, hi
        <4> QED
          BY <2>2, MaxOfInterval
      <3> QED
        BY <1>9, <2>3, <3>1, Zenon
    <2>5. hi = x.clock
      BY <1>11, <2>4 DEF ValidImport, ImportIsConsistent
    <2> QED
      BY <1>6, <1>7, <1>8, <1>9, <2>2, <2>3, <2>5 DEF SoundPage
  <1> QED
    BY <1>10, <1>11

(***************************************************************************)
(* A merge numbers the rows it copies from the row's clock on: when none   *)
(* of these clocks is taken, they continue the numbering.                  *)
(***************************************************************************)
LEMMA MergeKeepsSound ==
    ASSUME NEW u, Sound(u), u.clock >= 0,
           NEW new \in SUBSET Record, IsFiniteSet(new),
           Clocks(u.records) \cap
               (u.clock + 1 .. u.clock + 1 + Cardinality(new) - 1) = {},
           NEW f \in Renumbering(new, u.clock + 1)
    PROVE  Sound(Merge(u, f))
  <1>1. PICK k \in Nat : Numbered(u, k)
    BY DEF Sound
  <1>2. u.clock \in Nat /\ u.clock <= k /\ u.records \in SUBSET Record
    BY <1>1 DEF Sound, User, Numbered
  <1> DEFINE n == Cardinality(new)
             copied == {[clock |-> f[r], entry |-> r.entry] : r \in DOMAIN f}
             R == u.records \cup copied
  <1>3. n \in Nat
    BY FS_CardinalityType
  <1>4. f \in Bijection(new, u.clock + 1 .. u.clock + 1 + n - 1)
    BY DEF Renumbering
  <1>5. f \in [new -> u.clock + 1 .. u.clock + n] /\ DOMAIN f = new
    BY <1>2, <1>3, <1>4 DEF Bijection, Injection
  <1>6. Merge(u, f) = [clock |-> u.clock + n, records |-> R]
    BY <1>5 DEF Merge
  <1>7. copied \in SUBSET Record
    BY <1>2, <1>3, <1>5 DEF Record
  <1>8. Merge(u, f) \in User /\ Merge(u, f).clock # -1
    BY <1>2, <1>3, <1>6, <1>7 DEF User
  <1>9. Clocks(copied) = u.clock + 1 .. u.clock + n
    <2>1. Clocks(copied) \subseteq u.clock + 1 .. u.clock + n
      BY <1>5 DEF Clocks
    <2>2. ASSUME NEW c \in u.clock + 1 .. u.clock + n
          PROVE  c \in Clocks(copied)
      <3>1. PICK r \in new : f[r] = c
        <4>1. u.clock + 1 + n - 1 = u.clock + n
          BY <1>2, <1>3
        <4>2. f \in Surjection(new, u.clock + 1 .. u.clock + n)
          BY <1>4, <4>1 DEF Bijection
        <4> QED
          BY <2>2, <4>2 DEF Surjection
      <3> DEFINE row == [clock |-> f[r], entry |-> r.entry]
      <3>2. row \in copied /\ row.clock = c
        BY <1>5, <3>1
      <3> HIDE DEF row, copied
      <3> QED
        BY <3>2, Zenon DEF Clocks
    <2> QED
      BY <2>1, <2>2
  <1>10. Unique(copied)
    <2>1. \A r, q \in new : f[r] = f[q] => r = q
      BY <1>4, <1>5 DEF Bijection, Injection, IsInjective
    <2> QED
      BY <1>5, <2>1 DEF Unique
  <1>11. CASE n = 0
    <2>1. copied = {}
      BY <1>2, <1>3, <1>5, <1>11
    <2>2. Merge(u, f) = [clock |-> u.clock, records |-> u.records]
      <3>1. u.clock + n = u.clock /\ R = u.records
        BY <1>2, <1>11, <2>1
      <3> QED
        BY <1>6, <3>1
    <2>3. Numbered(Merge(u, f), k)
      BY <1>1, <2>2 DEF Numbered
    <2> QED
      BY <1>8, <2>3 DEF Sound
  <1>12. CASE n > 0
    <2>1. u.clock + 1 \notin 1 .. k
      BY <1>1, <1>2, <1>3, <1>12 DEF Numbered
    <2>2. u.clock = k
      BY <1>2, <2>1
    <2>3. Clocks(R) = (1 .. k) \cup (k + 1 .. k + n)
      <3>1. Clocks(R) = Clocks(u.records) \cup Clocks(copied)
        BY ClocksOfUnion, Zenon
      <3> QED
        BY <1>1, <1>9, <2>2, <3>1, Zenon DEF Numbered
    <2>4. Clocks(R) = 1 .. k + n
      <3>1. (1 .. k) \cup (k + 1 .. k + n) = 1 .. k + n
        BY <1>3
      <3> QED
        BY <2>3, <3>1, Zenon
    <2>5. Unique(R)
      <3>1. \A r \in u.records : r.clock \in 1 .. k
        BY <1>1 DEF Numbered, Clocks
      <3>2. \A r \in copied : r.clock \in k + 1 .. k + n
        BY <1>5, <2>2
      <3>3. \A r \in u.records, q \in copied : r.clock # q.clock
        BY <1>3, <3>1, <3>2
      <3> QED
        BY <1>1, <1>10, <3>3 DEF Numbered, Unique
    <2>6. Numbered(Merge(u, f), k + n)
      <3>1. /\ Merge(u, f).clock = k + n
            /\ Merge(u, f).records = R
        BY <1>6, <2>2
      <3>2. k + n <= k + n
        BY <1>3
      <3> QED
        BY <2>4, <2>5, <3>1, <3>2, Zenon DEF Numbered
    <2> QED
      BY <1>3, <1>8, <2>6 DEF Sound
  <1> QED
    BY <1>3, <1>11, <1>12

-----------------------------------------------------------------------------
(***************************************************************************)
(* The inductive invariant. Besides the rows themselves, the data that is  *)
(* on its way must be sound: a page fetched before others changed the      *)
(* node's rows is imported after, and the hook that looks at the rows then *)
(* is all that stands between.                                             *)
(***************************************************************************)
DbSound == \A n \in Node : Sound(db[n])

SyncSound ==
    \A j \in SyncJob : sync[j].pc = "importing" =>
        SoundPage(sync[j].page) /\ sync[j].page.clock > sync[j].localMax

MergeSound ==
    \A m \in MergeJob :
        merge[m].pc \in {"filtering", "saving"} =>
            IsFiniteSet(merge[m].page.records)

IInv == TypeOK /\ DbSound /\ SyncSound /\ MergeSound

RunningSync ==
    [pc : {"locked", "checking", "wiping", "fetching", "importing"},
     node : Node, source : Node, mode : Mode, secondaries : SUBSET Node,
     localMax : Nat \cup {-1}, page : ExportPage]

RunningMerge ==
    [pc : {"locked", "fetching", "filtering", "saving", "merged",
           "requesting"},
     node : Node, secondary : Node, mode : Mode \ {"default"},
     secondaries : SUBSET Node, min : Nat, page : ExportPage,
     fresh : BOOLEAN]

LEMMA SyncTypes ==
    ASSUME NEW job \in SyncState
    PROVE  /\ job.pc \in {"locked", "checking", "wiping", "fetching",
                          "importing"} => job \in RunningSync
           /\ job.pc # "idle" => job.node \in Node
  BY DEF SyncState, RunningSync, Idle

LEMMA MergeTypes ==
    ASSUME NEW job \in MergeState
    PROVE  /\ job.pc \in {"locked", "fetching", "filtering", "saving",
                          "merged", "requesting"} => job \in RunningMerge
           /\ job.pc # "idle" => job.node \in Node
  BY DEF MergeState, RunningMerge, Idle

LEMMA StateTypes ==
    /\ Idle \in SyncState
    /\ \A n \in Node : Releasing(n) \in SyncState
    /\ RunningSync \subseteq SyncState
    /\ Idle \in MergeState
    /\ \A n \in Node : Failed(n) \in MergeState
    /\ RunningMerge \subseteq MergeState
  BY DEF SyncState, MergeState, RunningSync, RunningMerge, Releasing, Failed

LEMMA EmptyPageType == EmptyPage \in ExportPage
  BY DEF EmptyPage, ExportPage

LEMMA ExportType ==
    ASSUME NEW u \in User, NEW min \in Nat
    PROVE  Export(u, min) \in ExportPage
  <1>1. u.clock \in Nat \cup {-1} /\ u.records \in SUBSET Record
    BY DEF User
  <1>2. RangeMax(min) \in Nat
    BY MaxExportRangeAssumption DEF RangeMax
  <1>3. Min({u.clock, RangeMax(min)}) \in Nat \cup {-1}
    BY <1>1, <1>2 DEF Min
  <1> QED
    BY <1>1, <1>3 DEF Export, ExportPage

LEMMA SoundIsFinite ==
    ASSUME NEW u, Sound(u)
    PROVE  IsFiniteSet(u.records) /\ u.records \in SUBSET Record
  <1>1. PICK k \in Nat : Numbered(u, k)
    BY DEF Sound
  <1>2. u.records \in SUBSET Record
    BY DEF Sound, User
  <1>3. Clocks(u.records) \subseteq 1 .. k /\ Unique(u.records)
    BY <1>1 DEF Numbered
  <1>4. 1 \in Int /\ k \in Int
    OBVIOUS
  <1>5. IsFiniteSet(u.records)
    BY <1>2, <1>3, <1>4, NumberedIsFinite, Zenon
  <1> QED
    BY <1>2, <1>5

-----------------------------------------------------------------------------

LEMMA InitSound == Init => IInv
  <1> SUFFICES ASSUME Init PROVE IInv
    OBVIOUS
  <1>1. TypeOK
    BY ContentSyncAssumption, NobodyAssumption, NewUsersSound, StateTypes
       DEF Init, TypeOK, Sound, LockHolder
  <1>2. DbSound
    BY NewUsersSound DEF Init, DbSound
  <1>3. SyncSound
    BY DEF Init, SyncSound, Idle
  <1>4. MergeSound
    BY DEF Init, MergeSound, Idle
  <1> QED
    BY <1>1, <1>2, <1>3, <1>4 DEF IInv

-----------------------------------------------------------------------------
(***************************************************************************)
(* Each step preserves the invariant, action by action.                    *)
(***************************************************************************)

\* Only CommitWrite changes rows that exist, by createNewDataRecord.
LEMMA ClientsKeepSound ==
    ASSUME IInv, NEW n \in Node, ClientStep(n)
    PROVE  IInv'
  <1> USE DEF IInv
  <1>1. CASE CreateUser(n)
    <2>1. TypeOK'
      BY <1>1, NewUsersSound DEF CreateUser, TypeOK, Sound
    <2>2. DbSound'
      BY <1>1, NewUsersSound DEF CreateUser, TypeOK, DbSound
    <2> QED
      BY <1>1, <2>1, <2>2 DEF CreateUser, SyncSound, MergeSound
  <1>2. CASE AuthorizeWrite(n)
    <2>1. TypeOK'
      BY <1>2 DEF AuthorizeWrite, TypeOK
    <2> QED
      BY <1>2, <2>1 DEF AuthorizeWrite, DbSound, SyncSound, MergeSound
  <1>3. ASSUME NEW e \in Entry, CommitWrite(n, e) PROVE IInv'
    <2>1. Sound(Append1(db[n], e))
      BY <1>3, AppendKeepsSound DEF CommitWrite, DbSound
    <2>2. TypeOK'
      BY <1>3, <2>1 DEF CommitWrite, TypeOK, Sound
    <2>3. DbSound'
      BY <1>3, <2>1 DEF CommitWrite, TypeOK, DbSound
    <2> QED
      BY <1>3, <2>2, <2>3 DEF CommitWrite, SyncSound, MergeSound
  <1>4. CASE EndWrites(n)
    <2>1. TypeOK'
      BY <1>4 DEF EndWrites, TypeOK
    <2> QED
      BY <1>4, <2>1 DEF EndWrites, DbSound, SyncSound, MergeSound
  <1> QED
    BY <1>1, <1>2, <1>3, <1>4 DEF ClientStep

\* A sync job changes rows when it wipes and when it imports; what it
\* imports it has checked after the fetch.
LEMMA SyncsKeepSound ==
    ASSUME IInv, NEW j \in SyncJob, SyncStep(j)
    PROVE  IInv'
  <1> USE DEF IInv
  <1> DEFINE job == sync[j]
  <1>1. /\ job \in SyncState
        /\ job.pc \in {"locked", "checking", "wiping", "fetching",
                       "importing"} => job \in RunningSync
        /\ job.pc # "idle" => job.node \in Node
    BY SyncTypes DEF TypeOK
  <1>2. \A v \in SyncState :
          [sync EXCEPT ![j] = v] \in [SyncJob -> SyncState]
    BY DEF TypeOK
  <1>3. \A v : v.pc # "importing" /\ sync' = [sync EXCEPT ![j] = v]
                  => SyncSound'
    BY DEF TypeOK, SyncSound
  <1>4. ASSUME job.pc # "idle", SyncFinish(j)
        PROVE  sync' \in [SyncJob -> SyncState] /\ SyncSound'
    <2>1. Releasing(job.node) \in SyncState
      BY <1>1, <1>4, StateTypes
    <2>2. Releasing(job.node).pc # "importing"
      BY DEF Releasing
    <2>3. sync' = [sync EXCEPT ![j] = Releasing(job.node)]
      BY <1>4 DEF SyncFinish, TypeOK
    <2> QED
      BY <1>2, <1>3, <2>1, <2>2, <2>3
  <1>5. ASSUME NEW r \in requests, SyncStart(j, r) PROVE IInv'
    <2>1. r \in Request
      BY DEF TypeOK
    <2>2. sync' \in [SyncJob -> SyncState] /\ SyncSound'
      <3> DEFINE started ==
               [pc |-> "locked", node |-> r.node, source |-> r.source,
                mode |-> r.mode, secondaries |-> {}, localMax |-> -1,
                page |-> EmptyPage]
      <3>1. started \in SyncState
        BY <2>1, EmptyPageType DEF SyncState, Request
      <3>2. Releasing(r.node) \in SyncState
        BY <2>1, StateTypes DEF Request
      <3>3. started.pc # "importing" /\ Releasing(r.node).pc # "importing"
        BY DEF Releasing
      <3>4. \/ sync' = [sync EXCEPT ![j] = started]
            \/ sync' = [sync EXCEPT ![j] = Releasing(r.node)]
        BY <1>5 DEF SyncStart
      <3> QED
        BY <1>2, <1>3, <3>1, <3>2, <3>3, <3>4
    <2>3. TypeOK'
      BY <1>5, <2>1, <2>2 DEF SyncStart, TypeOK, Request, LockHolder
    <2> QED
      BY <1>5, <2>2, <2>3 DEF SyncStart, DbSound, MergeSound
  <1>6. CASE SyncCheckDefault(j)
    <2> DEFINE next == [job EXCEPT !.pc = "fetching",
                                   !.secondaries = replicaSet.secondaries,
                                   !.localMax = db[job.node].clock]
    <2>1. job \in RunningSync
      BY <1>1, <1>6 DEF SyncCheckDefault, SyncFromPrimary, SyncAt
    <2>2. next \in RunningSync /\ next.pc # "importing"
      BY <2>1, ContentSyncAssumption DEF RunningSync, TypeOK, User
    <2>3. sync' = [sync EXCEPT ![j] = next]
      BY <1>6 DEF SyncCheckDefault, TypeOK
    <2>4. sync' \in [SyncJob -> SyncState] /\ SyncSound'
      BY <1>2, <1>3, <2>2, <2>3, StateTypes
    <2> QED
      BY <1>6, <2>4 DEF SyncCheckDefault, TypeOK, DbSound, MergeSound
  <1>7. CASE SyncCheckForced(j)
    <2> DEFINE next == [job EXCEPT !.pc = "checking",
                                   !.secondaries = replicaSet.secondaries]
    <2>1. job \in RunningSync
      BY <1>1, <1>7 DEF SyncCheckForced, SyncFromPrimary, SyncAt
    <2>2. next \in RunningSync /\ next.pc # "importing"
      BY <2>1, ContentSyncAssumption DEF RunningSync, TypeOK
    <2>3. sync' = [sync EXCEPT ![j] = next]
      BY <1>7 DEF SyncCheckForced, TypeOK
    <2>4. sync' \in [SyncJob -> SyncState] /\ SyncSound'
      BY <1>2, <1>3, <2>2, <2>3, StateTypes
    <2> QED
      BY <1>7, <2>4 DEF SyncCheckForced, TypeOK, DbSound, MergeSound
  <1>8. CASE SyncCheckHistory(j)
    <2> DEFINE next == [job EXCEPT !.pc = "wiping"]
    <2>1. job \in RunningSync
      BY <1>1, <1>8 DEF SyncCheckHistory, SyncAt
    <2>2. next \in RunningSync /\ next.pc # "importing"
      BY <2>1 DEF RunningSync
    <2>3. sync' = [sync EXCEPT ![j] = next]
      BY <1>8 DEF SyncCheckHistory, TypeOK
    <2>4. sync' \in [SyncJob -> SyncState] /\ SyncSound'
      BY <1>2, <1>3, <2>2, <2>3, StateTypes
    <2> QED
      BY <1>8, <2>4 DEF SyncCheckHistory, TypeOK, DbSound, MergeSound
  <1>9. CASE SyncWipe(j)
    <2> DEFINE next == [job EXCEPT !.pc = "fetching", !.localMax = -1]
    <2>1. job \in RunningSync /\ job.pc # "idle"
      BY <1>1, <1>9 DEF SyncWipe, SyncAt
    <2>2. next \in RunningSync /\ next.pc # "importing"
      BY <2>1 DEF RunningSync
    <2>3. sync' = [sync EXCEPT ![j] = next] \/ SyncFinish(j)
      BY <1>9 DEF SyncWipe, TypeOK
    <2>4. sync' \in [SyncJob -> SyncState] /\ SyncSound'
      BY <1>2, <1>3, <1>4, <2>1, <2>2, <2>3, StateTypes
    <2>5. DbSound' /\ db' \in [Node -> User]
      BY <1>1, <1>9, <2>1, NewUsersSound
         DEF SyncWipe, TypeOK, DbSound, Sound
    <2> QED
      BY <1>9, <2>4, <2>5 DEF SyncWipe, TypeOK, MergeSound
  <1>10. CASE SyncFetchExport(j)
    <2> DEFINE x == Export(db[job.source], job.localMax + 1)
               next == [job EXCEPT !.pc = "importing", !.page = x]
    <2>1. job \in RunningSync
      BY <1>1, <1>10 DEF SyncFetchExport, SyncAt
    <2>2. /\ job.source \in Node
          /\ job.localMax \in Nat \cup {-1}
          /\ job.localMax + 1 \in Nat
      BY <2>1 DEF RunningSync
    <2>3. SoundPage(x)
      BY <1>10, <2>2, ExportIsSound DEF SyncFetchExport, DbSound
    <2>4. x \in ExportPage
      BY <2>2, ExportType DEF TypeOK
    <2>5. next \in RunningSync
      BY <2>1, <2>4 DEF RunningSync
    <2>6. sync' = [sync EXCEPT ![j] = next]
      BY <1>10 DEF SyncFetchExport, TypeOK
    <2>7. sync' \in [SyncJob -> SyncState]
      BY <1>2, <2>5, <2>6, StateTypes
    <2>8. SyncSound'
      <3>1. next.page = x /\ next.localMax = job.localMax
        BY <2>1 DEF RunningSync
      <3>2. x.clock > job.localMax
        BY <1>10 DEF SyncFetchExport, ValidImport, ImportIsNewer
      <3> HIDE DEF next, x
      <3> QED
        BY <2>3, <2>6, <3>1, <3>2 DEF SyncSound, TypeOK
    <2> QED
      BY <1>10, <2>7, <2>8 DEF SyncFetchExport, TypeOK, DbSound, MergeSound
  <1>11. CASE SyncImport(j)
    <2>1. job \in RunningSync /\ job.pc = "importing" /\ job.node \in Node
      BY <1>1, <1>11 DEF SyncImport, SyncAt
    <2>2. SoundPage(job.page)
      BY <2>1 DEF SyncSound
    <2>3. Sound(Import(db[job.node], job.page))
      BY <1>11, <2>1, <2>2, ImportKeepsSound DEF SyncImport, DbSound
    <2>4. DbSound' /\ db' \in [Node -> User]
      BY <1>11, <2>1, <2>3 DEF SyncImport, TypeOK, DbSound, Sound
    <2>5. sync' \in [SyncJob -> SyncState] /\ SyncSound'
      BY <1>4, <1>11, <2>1 DEF SyncImport
    <2> QED
      BY <1>11, <2>4, <2>5 DEF SyncImport, TypeOK, MergeSound
  <1>12. CASE SyncAbort(j)
    <2>1. job.pc # "idle"
      BY <1>12 DEF SyncAbort, SyncRefused
    <2> QED
      BY <1>4, <1>12, <2>1 DEF SyncAbort, TypeOK, DbSound, MergeSound
  <1>13. CASE SyncFail(j)
    <2>1. sync' \in [SyncJob -> SyncState] /\ SyncSound'
      BY <1>4, <1>13 DEF SyncFail
    <2>2. faults' \in 0 .. MaxFaults
      BY <1>13, ContentSyncAssumption DEF SyncFail, Fault, TypeOK
    <2> QED
      BY <1>13, <2>1, <2>2 DEF SyncFail, TypeOK, DbSound, MergeSound
  <1>14. CASE SyncRelease(j)
    <2>1. sync' \in [SyncJob -> SyncState] /\ SyncSound'
      BY <1>2, <1>3, <1>14, StateTypes DEF SyncRelease, Idle
    <2> QED
      BY <1>14, <2>1
         DEF SyncRelease, TypeOK, DbSound, MergeSound, LockHolder
  <1> QED
    BY <1>5, <1>6, <1>7, <1>8, <1>9, <1>10, <1>11, <1>12, <1>13, <1>14
       DEF SyncStep, SyncProgress

\* A merge appends, under the clocks its transaction increments to, a finite
\* set of rows that it fetched and filtered before.
LEMMA MergesKeepSound ==
    ASSUME IInv, NEW m \in MergeJob, MergeStep(m)
    PROVE  IInv'
  <1> USE DEF IInv
  <1> DEFINE job == merge[m]
  <1>1. /\ job \in MergeState
        /\ job.pc \in {"locked", "fetching", "filtering", "saving",
                       "merged", "requesting"} => job \in RunningMerge
        /\ job.pc # "idle" => job.node \in Node
    BY MergeTypes DEF TypeOK
  <1>2. \A v \in MergeState :
          [merge EXCEPT ![m] = v] \in [MergeJob -> MergeState]
    BY DEF TypeOK
  <1>3. ASSUME NEW v,
               v.pc \in {"filtering", "saving"} =>
                   IsFiniteSet(v.page.records),
               merge' = [merge EXCEPT ![m] = v]
        PROVE  MergeSound'
    BY <1>3 DEF TypeOK, MergeSound
  <1>4. ASSUME job.pc # "idle", merge' = [merge EXCEPT ![m] = Failed(@.node)]
        PROVE  merge' \in [MergeJob -> MergeState] /\ MergeSound'
    <2>1. Failed(job.node) \in MergeState
      BY <1>1, <1>4, StateTypes
    <2>2. Failed(job.node).pc \notin {"filtering", "saving"}
      BY DEF Failed
    <2>3. merge' = [merge EXCEPT ![m] = Failed(job.node)]
      BY <1>4 DEF TypeOK
    <2> QED
      BY <1>2, <1>3, <2>1, <2>2, <2>3
  <1>5. ASSUME NEW s \in Node, NEW mode \in Mode \ {"default"},
               MergeStart(m, s, mode)
        PROVE  IInv'
    <2> DEFINE n == replicaSet.primary
               started == [pc |-> "locked", node |-> n, secondary |-> s,
                           mode |-> mode,
                           secondaries |-> replicaSet.secondaries, min |-> 0,
                           page |-> EmptyPage, fresh |-> FALSE]
    <2>1. n \in Node /\ replicaSet.secondaries \in SUBSET Node
      BY ContentSyncAssumption DEF TypeOK
    <2>2. merge' \in [MergeJob -> MergeState] /\ MergeSound'
      <3>1. started \in MergeState
        BY <2>1, EmptyPageType DEF MergeState
      <3>2. Failed(n) \in MergeState
        BY <2>1, StateTypes
      <3>3. /\ started.pc \notin {"filtering", "saving"}
            /\ Failed(n).pc \notin {"filtering", "saving"}
        BY DEF Failed
      <3>4. \/ merge' = [merge EXCEPT ![m] = started]
            \/ merge' = [merge EXCEPT ![m] = Failed(n)]
        BY <1>5 DEF MergeStart
      <3> QED
        BY <1>2, <1>3, <3>1, <3>2, <3>3, <3>4
    <2>3. TypeOK'
      BY <1>5, <2>1, <2>2 DEF MergeStart, TypeOK, LockHolder
    <2> QED
      BY <1>5, <2>2, <2>3 DEF MergeStart, DbSound, SyncSound
  <1>6. CASE MergeCheck(m)
    <2> DEFINE next == [job EXCEPT !.pc = "fetching"]
    <2>1. job \in RunningMerge
      BY <1>1, <1>6 DEF MergeCheck, MergeAt
    <2>2. next \in RunningMerge /\ next.pc = "fetching"
      BY <2>1 DEF RunningMerge
    <2>3. merge' = [merge EXCEPT ![m] = next]
      BY <1>6 DEF MergeCheck, TypeOK
    <2>4. merge' \in [MergeJob -> MergeState] /\ MergeSound'
      BY <1>2, <1>3, <2>2, <2>3, StateTypes
    <2> QED
      BY <1>6, <2>4 DEF MergeCheck, TypeOK, DbSound, SyncSound
  <1>7. CASE MergeFetchExport(m)
    <2> DEFINE u == db[job.secondary]
               x == Export(u, job.min)
               next == [job EXCEPT !.pc = "filtering", !.page = x]
    <2>1. job \in RunningMerge
      BY <1>1, <1>7 DEF MergeFetchExport, MergeAt
    <2>2. job.secondary \in Node /\ job.min \in Nat
      BY <2>1 DEF RunningMerge
    <2>3. x \in ExportPage
      BY <2>2, ExportType DEF TypeOK
    <2>4. IsFiniteSet(x.records)
      <3>1. IsFiniteSet(u.records)
        BY <2>2, SoundIsFinite DEF DbSound
      <3>2. x.records \subseteq u.records
        BY DEF Export
      <3> QED
        BY <3>1, <3>2, FS_Subset
    <2>5. next \in RunningMerge /\ next.page = x
      BY <2>1, <2>3 DEF RunningMerge
    <2>6. merge' = [merge EXCEPT ![m] = next]
      BY <1>7 DEF MergeFetchExport, TypeOK
    <2>7. merge' \in [MergeJob -> MergeState] /\ MergeSound'
      <3> HIDE DEF next, x
      <3> QED
        BY <1>2, <1>3, <2>4, <2>5, <2>6, StateTypes
    <2> QED
      BY <1>7, <2>7 DEF MergeFetchExport, TypeOK, DbSound, SyncSound
  <1>8. CASE MergeFilter(m)
    <2> DEFINE u == db[job.node]
               new == Missing(u, job.page.records)
               next == [job EXCEPT !.pc = "saving", !.fresh = (u = NoUser),
                                   !.page.records = new]
    <2>1. job \in RunningMerge /\ job.pc = "filtering"
      BY <1>1, <1>8 DEF MergeFilter, MergeAt
    <2>2. new \subseteq job.page.records
      BY DEF Missing
    <2>3. IsFiniteSet(new)
      BY <2>1, <2>2, FS_Subset DEF MergeSound
    <2>4. [job.page EXCEPT !.records = new] \in ExportPage
      BY <2>1, <2>2 DEF RunningMerge, ExportPage
    <2>5. next = [job EXCEPT !.pc = "saving", !.fresh = (u = NoUser),
                             !.page = [job.page EXCEPT !.records = new]]
      BY <2>1 DEF RunningMerge
    <2>6. next \in RunningMerge
      BY <2>1, <2>4, <2>5 DEF RunningMerge
    <2>7. next.page.records = new
      BY <2>1 DEF RunningMerge, ExportPage
    <2>8. merge' = [merge EXCEPT ![m] = next]
      <3> DEFINE isNew == u = NoUser
      <3>1. merge' = [merge EXCEPT ![m].pc = "saving", ![m].fresh = isNew,
                                   ![m].page.records = new]
        BY <1>8 DEF MergeFilter
      <3>2. merge \in [MergeJob -> MergeState]
        BY DEF TypeOK
      <3> HIDE DEF isNew, new
      <3>3. merge' = [merge EXCEPT ![m] = [job EXCEPT !.pc = "saving", !.fresh = isNew,
                                                      !.page.records = new]]
        BY <3>1, <3>2
      <3> QED
        BY <3>3 DEF isNew
    <2>9. merge' \in [MergeJob -> MergeState] /\ MergeSound'
      <3> HIDE DEF next, new
      <3> QED
        BY <1>2, <1>3, <2>3, <2>6, <2>7, <2>8, StateTypes
    <2> QED
      BY <1>8, <2>9 DEF MergeFilter, TypeOK, DbSound, SyncSound
  <1>9. CASE MergeSave(m)
    <2> DEFINE n == job.node
               base == MergeBase(db[n])
               new == job.page.records
    <2>1. job \in RunningMerge /\ job.pc = "saving" /\ n \in Node
      BY <1>1, <1>9 DEF MergeSave, MergeAt
    <2>2. Sound(base) /\ base.clock >= 0 /\ base.records = db[n].records
      BY <2>1, NewUsersSound
         DEF DbSound, MergeBase, Sound, User, NoUser, FreshUser
    <2>3. new \in SUBSET Record /\ IsFiniteSet(new)
      BY <2>1 DEF RunningMerge, ExportPage, MergeSound
    <2>4. Clocks(base.records) \cap
              (base.clock + 1 .. base.clock + 1 + Cardinality(new) - 1) = {}
      BY <1>9, <2>2 DEF MergeSave, MergeCanSave
    <2>5. PICK f \in Renumbering(new, base.clock + 1) :
              db' = [db EXCEPT ![n] = Merge(base, f)]
      BY <1>9 DEF MergeSave
    <2>6. Sound(Merge(base, f))
      <3> HIDE DEF base, new
      <3> QED
        BY <2>2, <2>3, <2>4, MergeKeepsSound
    <2>7. DbSound' /\ db' \in [Node -> User]
      <3> HIDE DEF base
      <3> QED
        BY <2>1, <2>5, <2>6 DEF DbSound, TypeOK, Sound
    <2>8. merge' \in [MergeJob -> MergeState] /\ MergeSound'
      <3> DEFINE last == RangeMax(job.min)
                 done == [job EXCEPT !.pc = "merged", !.page = EmptyPage]
                 next == [job EXCEPT !.pc = "fetching", !.page = EmptyPage,
                                     !.min = last + 1]
      <3>1. last + 1 \in Nat
        BY <2>1, MaxExportRangeAssumption DEF RunningMerge, RangeMax
      <3>2. done \in RunningMerge /\ next \in RunningMerge
        BY <2>1, <3>1, EmptyPageType DEF RunningMerge
      <3>3. done.pc = "merged" /\ next.pc = "fetching"
        BY <2>1 DEF RunningMerge
      <3>4. \/ merge' = [merge EXCEPT ![m] = done]
            \/ merge' = [merge EXCEPT ![m] = next]
        BY <1>9 DEF MergeSave, TypeOK
      <3> HIDE DEF done, next
      <3> QED
        BY <1>2, <1>3, <3>2, <3>3, <3>4, StateTypes
    <2> QED
      BY <1>9, <2>7, <2>8 DEF MergeSave, TypeOK, SyncSound
  <1>10. CASE MergeAbort(m)
    <2>1. job.pc # "idle"
      BY <1>10 DEF MergeAbort, MergeRefused, MergeAt
    <2> QED
      BY <1>4, <1>10, <2>1 DEF MergeAbort, TypeOK, DbSound, SyncSound
  <1>11. CASE MergeFail(m)
    <2>1. merge' \in [MergeJob -> MergeState] /\ MergeSound'
      BY <1>4, <1>11 DEF MergeFail
    <2>2. faults' \in 0 .. MaxFaults
      BY <1>11, ContentSyncAssumption DEF MergeFail, Fault, TypeOK
    <2> QED
      BY <1>11, <2>1, <2>2 DEF MergeFail, TypeOK, DbSound, SyncSound
  <1>12. CASE MergeRelease(m)
    <2> DEFINE next == [job EXCEPT !.pc = "requesting"]
    <2>1. merge' \in [MergeJob -> MergeState] /\ MergeSound'
      <3>1. CASE job.pc = "merged"
        <4>1. job \in RunningMerge
          BY <1>1, <3>1
        <4>2. next \in RunningMerge /\ next.pc = "requesting"
          BY <4>1 DEF RunningMerge
        <4>3. merge' = [merge EXCEPT ![m] = next]
          BY <1>12, <3>1 DEF MergeRelease, MergeAt, TypeOK
        <4> HIDE DEF next
        <4> QED
          BY <1>2, <1>3, <4>2, <4>3, StateTypes
      <3>2. CASE job.pc # "merged"
        <4>1. merge' = [merge EXCEPT ![m] = Idle]
          BY <1>12, <3>2 DEF MergeRelease, MergeAt
        <4> QED
          BY <1>2, <1>3, <4>1, StateTypes DEF Idle
      <3> QED
        BY <3>1, <3>2
    <2> QED
      BY <1>12, <2>1
         DEF MergeRelease, TypeOK, DbSound, SyncSound, LockHolder
  <1>13. CASE MergeRequest(m)
    <2>1. job \in RunningMerge
      BY <1>1, <1>13 DEF MergeRequest, MergeAt
    <2>2. merge' \in [MergeJob -> MergeState] /\ MergeSound'
      BY <1>2, <1>3, <1>13, StateTypes DEF MergeRequest, Idle
    <2>3. requests' \in SUBSET Request
      BY <1>13, <2>1
         DEF MergeRequest, RunningMerge, Request, Mode, TypeOK
    <2> QED
      BY <1>13, <2>2, <2>3 DEF MergeRequest, TypeOK, DbSound, SyncSound
  <1> QED
    BY <1>5, <1>6, <1>7, <1>8, <1>9, <1>10, <1>11, <1>12, <1>13
       DEF MergeStep, MergeProgress

\* The environment changes no rows; a crash drops jobs, it starts none.
LEMMA EnvironmentKeepsSound ==
    ASSUME IInv, Environment
    PROVE  IInv'
  <1> USE DEF IInv
  <1>1. ASSUME NEW s \in Node, IssueSync(s) PROVE IInv'
    <2>1. requests' \in SUBSET Request
      BY <1>1, ContentSyncAssumption DEF IssueSync, TypeOK, Request, Mode
    <2> QED
      BY <1>1, <2>1 DEF IssueSync, TypeOK, DbSound, SyncSound, MergeSound
  <1>2. ASSUME NEW r \in requests, LoseRequest(r) PROVE IInv'
    <2>1. faults' \in 0 .. MaxFaults
      BY <1>2, ContentSyncAssumption DEF LoseRequest, Fault, TypeOK
    <2> QED
      BY <1>2, <2>1 DEF LoseRequest, TypeOK, DbSound, SyncSound, MergeSound
  <1>3. ASSUME NEW rs \in ReplicaSet, UpdateReplicaSet(rs) PROVE IInv'
    <2>1. rs.primary \in Node
      BY ContentSyncAssumption
    <2>2. updates' \in 0 .. MaxReplicaSetUpdates
      BY <1>3, ContentSyncAssumption DEF UpdateReplicaSet, TypeOK
    <2> QED
      BY <1>3, <2>1, <2>2
         DEF UpdateReplicaSet, TypeOK, DbSound, SyncSound, MergeSound
  <1>4. ASSUME NEW n \in Node, LockExpires(n) PROVE IInv'
    BY <1>4
       DEF LockExpires, TypeOK, LockHolder, DbSound, SyncSound, MergeSound
  <1>5. ASSUME NEW n \in Node, CrashRestart(n) PROVE IInv'
    <2>1. /\ sync' \in [SyncJob -> SyncState]
          /\ \A j \in SyncJob : sync'[j] = Idle \/ sync'[j] = sync[j]
      BY <1>5, StateTypes DEF CrashRestart, TypeOK
    <2>2. /\ merge' \in [MergeJob -> MergeState]
          /\ \A m \in MergeJob : merge'[m] = Idle \/ merge'[m] = merge[m]
      BY <1>5, StateTypes DEF CrashRestart, TypeOK
    <2>3. SyncSound' /\ MergeSound'
      BY <2>1, <2>2 DEF SyncSound, MergeSound, Idle
    <2>4. faults' \in 0 .. MaxFaults
      BY <1>5, ContentSyncAssumption DEF CrashRestart, Fault, TypeOK
    <2>5. TypeOK'
      BY <1>5, <2>1, <2>2, <2>4 DEF CrashRestart, TypeOK, LockHolder
    <2> QED
      BY <1>5, <2>3, <2>5 DEF CrashRestart, DbSound
  <1> QED
    BY <1>1, <1>2, <1>3, <1>4, <1>5 DEF Environment

LEMMA NextKeepsSound == IInv /\ [Next]_vars => IInv'
  <1> SUFFICES ASSUME IInv, [Next]_vars PROVE IInv'
    OBVIOUS
  <1>1. CASE Next
    BY <1>1, ClientsKeepSound, SyncsKeepSound, MergesKeepSound,
       EnvironmentKeepsSound
       DEF Next
  <1>2. CASE UNCHANGED vars
    BY <1>2
       DEF vars, IInv, TypeOK, DbSound, SyncSound, MergeSound
  <1> QED
    BY <1>1, <1>2

-----------------------------------------------------------------------------
\* Nodes, jobs and requests keep to their types in every run of the system.
THEOREM TypeCorrect == Spec => []TypeOK
  <1>1. IInv => TypeOK
    BY DEF IInv
  <1> QED
    BY <1>1, InitSound, NextKeepsSound, PTL DEF Spec

(***************************************************************************)
(* ClockRecords stay numbered 1, 2, ... on every node, however many jobs   *)
(* run on it and whatever becomes of their locks: the hook on imports and  *)
(* the primary key of the table suffice.                                   *)
(***************************************************************************)
THEOREM AlwaysContiguous == Spec => []RecordsContiguous
  <1>1. IInv => RecordsContiguous
    <2> SUFFICES ASSUME IInv, NEW n \in Node
                 PROVE  /\ Contiguous(db[n].records)
                        /\ db[n] # NoUser =>
                             db[n].clock \in {0, MaxClock(db[n].records)}
      BY DEF RecordsContiguous
    <2>1. PICK k \in Nat : Numbered(db[n], k)
      BY DEF IInv, DbSound, Sound
    <2>2. MaxClock(db[n].records) = k
      BY <2>1, MaxClockOfNumbered DEF Numbered
    <2>3. db[n] # NoUser => db[n].clock # -1
      BY DEF IInv, DbSound, Sound
    <2> QED
      BY <2>1, <2>2, <2>3 DEF Numbered, Unique, Contiguous
  <1> QED
    BY <1>1, InitSound, NextKeepsSound, PTL DEF Spec

-----------------------------------------------------------------------------
\* The transactions that change a node's rows.
LEMMA RowsChange ==
    ASSUME [Next]_vars
    PROVE  \/ UNCHANGED db
           \/ \E n \in Node : CreateUser(n) \/ \E e \in Entry : CommitWrite(n, e)
           \/ \E j \in SyncJob : SyncWipe(j) \/ SyncImport(j)
           \/ \E m \in MergeJob : MergeSave(m)
  BY DEF Next, ClientStep, AuthorizeWrite, EndWrites, SyncStep, SyncProgress, SyncStart,
         SyncCheckDefault, SyncCheckForced, SyncCheckHistory, SyncFetchExport, SyncAbort,
         SyncRelease, SyncFail, MergeStep, MergeProgress, MergeStart, MergeCheck,
         MergeFetchExport, MergeFilter, MergeAbort, MergeRelease, MergeRequest, MergeFail,
         Environment, IssueSync, LoseRequest, UpdateReplicaSet, LockExpires, CrashRestart,
         vars

\* All but a wipe and a stale import leave a node's clock where it is or
\* take it forward.
Forward(n) ==
    /\ db[n].records \subseteq db'[n].records
    /\ db'[n].clock >= db[n].clock

LEMMA SameIsForward ==
    ASSUME TypeOK, NEW n \in Node, db'[n] = db[n]
    PROVE  Forward(n)
  BY DEF TypeOK, User, Forward

\* A page without records is a new user's.
LEMMA EmptyPageIsFresh ==
    ASSUME NEW x, SoundPage(x), x.records = {}
    PROVE  x = FreshUser
  <1>1. ASSUME NEW a \in Nat, a <= x.clock, Clocks(x.records) = a .. x.clock
        PROVE  FALSE
    <2>1. a \in a .. x.clock
      BY <1>1 DEF SoundPage
    <2> QED
      BY <1>1, <2>1, ClocksOfEmpty
  <1> QED
    BY <1>1 DEF SoundPage, ExportPage, FreshUser

\* An import the hook accepts goes beyond every record, if it has records.
LEMMA ImportIsForward ==
    ASSUME NEW u, Sound(u), NEW x, SoundPage(x), HookAccepts(u.records, x.records),
           x.records # {}
    PROVE  x.clock >= u.clock
  <1>1. PICK k \in Nat : Numbered(u, k)
    BY DEF Sound
  <1>2. u.clock <= k /\ u.clock \in Int /\ MaxClock(u.records) = k
    BY <1>1, MaxClockOfNumbered DEF Numbered
  <1>3. PICK a \in Nat \ {0} : a <= x.clock /\ Clocks(x.records) = a .. x.clock
    BY DEF SoundPage
  <1>4. x.clock \in Nat /\ Max(Clocks(x.records)) = x.clock
    BY <1>3, MaxOfInterval DEF SoundPage
  <1>5. a .. x.clock = k + 1 .. x.clock
    BY <1>2, <1>3, <1>4 DEF HookAccepts
  <1>6. k + 1 <= x.clock
    BY <1>3, <1>4, <1>5
  <1> QED
    BY <1>2, <1>4, <1>6

LEMMA ImportsGoForward ==
    ASSUME IInv, NEW j \in SyncJob, SyncImport(j), NEW n \in Node
    PROVE  Forward(n) \/ StaleImport(j, n)
  <1> DEFINE job == sync[j]
  <1>1. /\ job \in RunningSync
        /\ SoundPage(job.page) /\ job.page.clock > job.localMax
    BY SyncTypes DEF IInv, TypeOK, SyncSound, SyncImport, SyncAt
  <1>2. /\ HookAccepts(db[job.node].records, job.page.records)
        /\ db' = [db EXCEPT ![job.node] = Import(db[job.node], job.page)]
    BY DEF SyncImport
  <1>3. Sound(db[n]) /\ db \in [Node -> User]
    BY DEF IInv, TypeOK, DbSound
  <1>4. CASE n # job.node
    BY <1>2, <1>3, <1>4, SameIsForward DEF IInv
  <1>5. CASE n = job.node /\ job.page.records # {}
    BY <1>1, <1>2, <1>3, <1>5, ImportIsForward DEF Import, Forward
  <1>6. CASE n = job.node /\ job.page.records = {}
    <2>1. job.page = FreshUser
      BY <1>1, <1>6, EmptyPageIsFresh
    <2>2. job.localMax = -1
      BY <1>1, <2>1 DEF RunningSync, FreshUser
    <2> QED
      BY <1>6, <2>1, <2>2 DEF StaleImport
  <1> QED
    BY <1>4, <1>5, <1>6

LEMMA MergesGoForward ==
    ASSUME IInv, NEW m \in MergeJob, MergeSave(m), NEW n \in Node
    PROVE  Forward(n)
  <1> DEFINE at == merge[m].node
             base == MergeBase(db[at])
             new == merge[m].page.records
  <1>1. PICK f \in Renumbering(new, base.clock + 1) : db' = [db EXCEPT ![at] = Merge(base, f)]
    BY DEF MergeSave
  <1>2. DOMAIN f = new
    BY <1>1 DEF Renumbering, Bijection, Injection, Surjection, IsInjective
  <1>3. IsFiniteSet(new)
    BY DEF IInv, MergeSound, MergeSave, MergeAt
  <1>4. Cardinality(DOMAIN f) \in Nat
    BY <1>2, <1>3, FS_CardinalityType
  <1>5. db \in [Node -> User] /\ db[n].clock \in Int
    BY DEF IInv, TypeOK, User
  <1>6. CASE n # at
    BY <1>1, <1>5, <1>6, SameIsForward DEF IInv
  <1>7. CASE n = at
    <2>1. /\ base.clock \in Int /\ base.clock >= db[n].clock
          /\ db[n].records \subseteq base.records
      BY <1>5, <1>7 DEF MergeBase, NoUser, FreshUser
    <2>2. db'[n] = Merge(base, f)
      BY <1>1, <1>5, <1>7
    <2> HIDE DEF base
    <2> QED
      BY <1>4, <1>5, <2>1, <2>2 DEF Merge, Forward
  <1> QED
    BY <1>6, <1>7

LEMMA StepsGoForward ==
    ASSUME IInv, [Next]_vars, NEW n \in Node
    PROVE  \/ Forward(n)
           \/ \E j \in SyncJob : StaleImport(j, n)
           \/ \E j \in SyncJob : SyncWipe(j) /\ sync[j].node = n
  <1>1. db \in [Node -> User]
    BY DEF IInv, TypeOK
  <1>2. CASE UNCHANGED db
    BY <1>2, SameIsForward DEF IInv
  <1>3. ASSUME NEW k \in Node, CreateUser(k) PROVE Forward(n)
    <2>1. CASE n = k
      BY <1>1, <1>3, <2>1 DEF CreateUser, NoUser, FreshUser, Forward
    <2>2. CASE n # k
      BY <1>1, <1>3, <2>2, SameIsForward DEF CreateUser, IInv
    <2> QED
      BY <2>1, <2>2
  <1>4. ASSUME NEW k \in Node, NEW e \in Entry, CommitWrite(k, e) PROVE Forward(n)
    <2>1. CASE n = k
      <3>1. db'[n] = Append1(db[n], e) /\ db[n].clock \in Int
        BY <1>1, <1>4, <2>1 DEF CommitWrite, User
      <3> QED
        BY <3>1 DEF Append1, Forward
    <2>2. CASE n # k
      BY <1>1, <1>4, <2>2, SameIsForward DEF CommitWrite, IInv
    <2> QED
      BY <2>1, <2>2
  <1>5. ASSUME NEW j \in SyncJob, SyncWipe(j) PROVE Forward(n) \/ sync[j].node = n
    <2>1. db' = [db EXCEPT ![sync[j].node] = NoUser]
      BY <1>5 DEF SyncWipe
    <2> QED
      BY <1>1, <2>1, SameIsForward DEF IInv
  <1> QED
    BY <1>2, <1>3, <1>4, <1>5, RowsChange, ImportsGoForward, MergesGoForward

(***************************************************************************)
(* A clock goes back in a wipe or to 0, by the import of a job that found  *)
(* node and user new; every other page goes beyond all records of its node *)
(* or the hook refuses it, whatever has become of locks and replica sets   *)
(* since it was asked for.                                                 *)
(***************************************************************************)
THEOREM ClocksAdvance == Spec => ClockNeverRewinds
  <1> DEFINE Advances ==
               \A n \in Node : db'[n] # NoUser /\ db'[n].clock < db[n].clock =>
                                 \E j \in SyncJob : StaleImport(j, n)
  <1>1. ASSUME IInv, [Next]_vars PROVE Advances
    <2> SUFFICES ASSUME NEW n \in Node, db'[n] # NoUser, db'[n].clock < db[n].clock
                 PROVE  \E j \in SyncJob : StaleImport(j, n)
      OBVIOUS
    <2>1. db \in [Node -> User] /\ db' \in [Node -> User]
      BY <1>1, NextKeepsSound DEF IInv, TypeOK
    <2>2. ~Forward(n)
      BY <2>1 DEF Forward, User
    <2>3. ASSUME NEW j \in SyncJob, SyncWipe(j), sync[j].node = n PROVE FALSE
      BY <2>1, <2>3 DEF SyncWipe
    <2> QED
      BY <1>1, <2>2, <2>3, StepsGoForward
  <1>2. IInv /\ [Next]_vars => [Advances]_vars
    BY <1>1
  <1> QED
    BY <1>2, InitSound, NextKeepsSound, PTL DEF Spec, ClockNeverRewinds

-----------------------------------------------------------------------------
(***************************************************************************)
(* What outlives the primaries.  A node that once was primary keeps its    *)
(* rows from then on unless a job that checked its history before is still *)
(* to wipe it. So acknowledged writes outlive every forced resync and wipe *)
(* provided that no replica set update makes a node primary between the    *)
(* two (StableDuringWipe): without that the guardrail is false already.    *)
(***************************************************************************)
(***************************************************************************)
(* Discovery's history of primaries is what protects a node: it grows, the *)
(* nodes that acknowledge writes are in it, and those about to wipe are    *)
(* not.                                                                    *)
(***************************************************************************)
WritersWerePrimary ==
    /\ replicaSet.primary \in everPrimary
    /\ \A n \in Node : writing[n] => n \in everPrimary
    /\ \A e \in Entry : writtenAt[e] # Nobody => writtenAt[e] \in everPrimary

WipesSparePrimaries ==
    \A j \in SyncJob : SyncAt(j, "wiping") => sync[j].node \notin everPrimary

DInv == TypeOK /\ WritersWerePrimary /\ WipesSparePrimaries /\ Durable

LEMMA EntriesGrow ==
    ASSUME NEW R, NEW S, R \subseteq S
    PROVE  Entries(R) \subseteq Entries(S)
  BY DEF Entries

\* Durable survives a step that acknowledges nothing and lets rows of every
\* node that was primary grow only.
LEMMA GrowthKeepsDurable ==
    ASSUME Durable, WritersWerePrimary, UNCHANGED writtenAt,
           \A n \in everPrimary : db[n].records \subseteq db'[n].records
    PROVE  Durable'
  <1> SUFFICES ASSUME NEW e \in Entry, writtenAt[e] # Nobody
               PROVE  e \in Entries(db'[writtenAt[e]].records)
    BY DEF Durable
  <1> DEFINE n == writtenAt[e]
  <1>1. n \in everPrimary /\ e \in Entries(db[n].records)
    BY DEF Durable, WritersWerePrimary
  <1>2. db[n].records \subseteq db'[n].records
    BY <1>1
  <1> QED
    BY <1>1, <1>2, EntriesGrow

LEMMA InitDurable == Init => DInv
  <1> SUFFICES ASSUME Init PROVE DInv
    OBVIOUS
  <1>1. TypeOK
    BY InitSound DEF IInv
  <1>2. WritersWerePrimary
    BY DEF Init, WritersWerePrimary
  <1>3. WipesSparePrimaries
    BY DEF Init, WipesSparePrimaries, SyncAt, Idle
  <1>4. Durable
    BY DEF Init, Durable
  <1> QED
    BY <1>1, <1>2, <1>3, <1>4 DEF DInv

LEMMA ClientsKeepDurable ==
    ASSUME DInv, NEW n \in Node, ClientStep(n)
    PROVE  (WritersWerePrimary /\ WipesSparePrimaries /\ Durable)'
  <1> USE DEF DInv
  <1>1. CASE CreateUser(n)
    <2>1. \A k \in everPrimary : db[k].records \subseteq db'[k].records
      BY <1>1 DEF CreateUser, TypeOK, NoUser, FreshUser
    <2> QED
      BY <1>1, <2>1, GrowthKeepsDurable
         DEF CreateUser, WritersWerePrimary, WipesSparePrimaries, SyncAt
  <1>2. CASE AuthorizeWrite(n)
    <2>1. WritersWerePrimary'
      BY <1>2 DEF AuthorizeWrite, WritersWerePrimary, TypeOK
    <2> QED
      BY <1>2, <2>1
         DEF AuthorizeWrite, WipesSparePrimaries, SyncAt, Durable
  <1>3. ASSUME NEW e \in Entry, CommitWrite(n, e)
        PROVE  (WritersWerePrimary /\ WipesSparePrimaries /\ Durable)'
    <2>1. WritersWerePrimary'
      BY <1>3 DEF CommitWrite, WritersWerePrimary, TypeOK
    <2>2. WipesSparePrimaries'
      BY <1>3 DEF CommitWrite, WipesSparePrimaries, SyncAt
    <2> DEFINE new == [clock |-> db[n].clock + 1, entry |-> e]
    <2>3. db'[n].records = db[n].records \cup {new}
      BY <1>3 DEF CommitWrite, Append1, TypeOK
    <2>4. e \in Entries(db'[n].records)
      BY <2>3 DEF Entries
    <2>5. \A k \in Node : db[k].records \subseteq db'[k].records
      BY <1>3, <2>3 DEF CommitWrite, TypeOK
    <2>6. Durable'
      <3> SUFFICES ASSUME NEW w \in Entry, writtenAt'[w] # Nobody
                   PROVE  w \in Entries(db'[writtenAt'[w]].records)
        BY DEF Durable
      <3>1. CASE w = e
        BY <1>3, <2>4, <3>1 DEF CommitWrite, TypeOK
      <3>2. CASE w # e
        <4>1. writtenAt'[w] = writtenAt[w] /\ writtenAt[w] \in Node
          BY <1>3, <3>2 DEF CommitWrite, TypeOK
        <4>2. w \in Entries(db[writtenAt[w]].records)
          BY <4>1 DEF Durable
        <4> QED
          BY <2>5, <4>1, <4>2, EntriesGrow
      <3> QED
        BY <3>1, <3>2
    <2> QED
      BY <2>1, <2>2, <2>6
  <1>4. CASE EndWrites(n)
    <2>1. WritersWerePrimary'
      BY <1>4 DEF EndWrites, WritersWerePrimary, TypeOK
    <2> QED
      BY <1>4, <2>1 DEF EndWrites, WipesSparePrimaries, SyncAt, Durable
  <1> QED
    BY <1>1, <1>2, <1>3, <1>4 DEF ClientStep

\* Only a job that has passed the history check comes to wipe.
LEMMA WipesAreChecked ==
    ASSUME TypeOK, NEW j \in SyncJob, SyncStep(j), sync'[j].pc = "wiping"
    PROVE  SyncCheckHistory(j)
  <1>1. ASSUME NEW r \in requests, SyncStart(j, r) PROVE FALSE
    BY <1>1 DEF SyncStart, Releasing, TypeOK
  <1>2. ASSUME SyncFinish(j) PROVE FALSE
    BY <1>2 DEF SyncFinish, Releasing, TypeOK
  <1>3. ASSUME sync[j] \in RunningSync,
               \/ SyncCheckDefault(j)
               \/ SyncCheckForced(j)
               \/ SyncFetchExport(j)
               \/ SyncWipe(j) /\ ~SyncFinish(j)
        PROVE  FALSE
    BY <1>3
       DEF SyncCheckDefault, SyncCheckForced, SyncFetchExport, SyncWipe,
           RunningSync, TypeOK
  <1>4. CASE SyncCheckDefault(j) \/ SyncCheckForced(j)
                \/ SyncFetchExport(j) \/ SyncWipe(j)
    <2>1. sync[j].pc \in {"locked", "checking", "wiping", "fetching",
                         "importing"}
      BY <1>4 DEF SyncCheckDefault, SyncCheckForced, SyncFetchExport,
                  SyncWipe, SyncFromPrimary, SyncAt
    <2>2. sync[j] \in RunningSync
      BY <2>1, SyncTypes DEF TypeOK
    <2> QED
      BY <1>2, <1>3, <1>4, <2>2
  <1>5. ASSUME SyncRelease(j) PROVE FALSE
    BY <1>5 DEF SyncRelease, Idle, TypeOK
  <1>6. CASE SyncImport(j) \/ SyncAbort(j) \/ SyncFail(j)
    BY <1>2, <1>6 DEF SyncImport, SyncAbort, SyncFail
  <1> QED
    BY <1>1, <1>4, <1>5, <1>6 DEF SyncStep, SyncProgress

LEMMA SyncsKeepDurable ==
    ASSUME DInv, NEW j \in SyncJob, SyncStep(j)
    PROVE  (WritersWerePrimary /\ WipesSparePrimaries /\ Durable)'
  <1> USE DEF DInv
  <1>1. sync[j] \in SyncState /\ (sync[j].pc # "idle" => sync[j].node \in Node)
    BY SyncTypes DEF TypeOK
  <1>2. /\ everPrimary' = everPrimary
        /\ replicaSet' = replicaSet
        /\ writtenAt' = writtenAt
    BY DEF SyncStep, SyncProgress, SyncStart, SyncCheckDefault,
           SyncCheckForced, SyncCheckHistory, SyncWipe, SyncFetchExport,
           SyncImport, SyncAbort, SyncFail, SyncRelease
  <1>3. \A i \in SyncJob \ {j} : sync'[i] = sync[i]
    BY DEF SyncStep, SyncProgress, SyncStart, SyncCheckDefault,
           SyncCheckForced, SyncCheckHistory, SyncWipe, SyncFetchExport,
           SyncImport, SyncAbort, SyncFail, SyncRelease, SyncFinish, TypeOK
  <1>4. sync'[j].pc = "wiping" => SyncCheckHistory(j)
    BY WipesAreChecked
  <1>5. WritersWerePrimary'
    <2>1. \A n \in Node : writing'[n] => writing[n]
      BY <1>1
         DEF SyncStep, SyncProgress, SyncStart, SyncCheckDefault,
             SyncCheckForced, SyncCheckHistory, SyncWipe, SyncFetchExport,
             SyncImport, SyncAbort, SyncFail, SyncRelease, SyncAt, TypeOK
    <2> QED
      BY <1>2, <2>1 DEF WritersWerePrimary
  <1>6. WipesSparePrimaries'
    <2>1. ASSUME sync'[j].pc = "wiping" PROVE sync'[j].node \notin everPrimary
      <3>1. SyncCheckHistory(j)
        BY <1>4, <2>1
      <3>2. sync[j].pc = "checking" /\ sync[j].node \notin everPrimary
        BY <3>1 DEF SyncCheckHistory, SyncAt
      <3>3. sync[j] \in RunningSync
        BY <3>2, SyncTypes DEF TypeOK
      <3>4. sync'[j].node = sync[j].node
        BY <3>1, <3>3 DEF SyncCheckHistory, RunningSync, TypeOK
      <3> QED
        BY <3>2, <3>4
    <2> QED
      BY <1>2, <1>3, <2>1 DEF WipesSparePrimaries, SyncAt
  <1>7. Durable'
    <2>1. ASSUME NEW n \in everPrimary
          PROVE  db[n].records \subseteq db'[n].records
      <3>1. CASE SyncWipe(j)
        <4>1. sync[j].node # n /\ db' = [db EXCEPT ![sync[j].node] = NoUser]
          BY <3>1 DEF SyncWipe, WipesSparePrimaries
        <4> QED
          BY <4>1 DEF TypeOK
      <3>2. CASE SyncImport(j)
        <4>1. db' = [db EXCEPT ![sync[j].node] =
                        Import(db[sync[j].node], sync[j].page)]
          BY <3>2 DEF SyncImport, TypeOK
        <4> QED
          BY <4>1 DEF Import, TypeOK
      <3>3. CASE ~SyncWipe(j) /\ ~SyncImport(j)
        BY <3>3
           DEF SyncStep, SyncProgress, SyncStart, SyncCheckDefault,
               SyncCheckForced, SyncCheckHistory, SyncFetchExport,
               SyncAbort, SyncFail, SyncRelease
      <3> QED
        BY <3>1, <3>2, <3>3
    <2> QED
      BY <1>2, <2>1, GrowthKeepsDurable
  <1> QED
    BY <1>5, <1>6, <1>7

\* A merge adds rows.
LEMMA MergesKeepDurable ==
    ASSUME DInv, NEW m \in MergeJob, MergeStep(m)
    PROVE  (WritersWerePrimary /\ WipesSparePrimaries /\ Durable)'
  <1> USE DEF DInv
  <1>1. UNCHANGED <<replicaSet, everPrimary, writing, writtenAt, sync>>
    BY DEF MergeStep, MergeProgress, MergeStart, MergeCheck,
           MergeFetchExport, MergeFilter, MergeSave, MergeAbort, MergeFail,
           MergeRelease, MergeRequest
  <1>2. \A n \in Node : db[n].records \subseteq db'[n].records
    <2>1. CASE MergeSave(m)
      <3>1. PICK f : db' = [db EXCEPT ![merge[m].node] =
                               Merge(MergeBase(db[merge[m].node]), f)]
        BY <2>1 DEF MergeSave
      <3>2. \A u \in User : u.records \subseteq Merge(MergeBase(u), f).records
        BY DEF Merge, MergeBase, NoUser, FreshUser
      <3> QED
        BY <3>1, <3>2 DEF TypeOK
    <2>2. CASE ~MergeSave(m)
      BY <2>2
         DEF MergeStep, MergeProgress, MergeStart, MergeCheck,
             MergeFetchExport, MergeFilter, MergeAbort, MergeFail,
             MergeRelease, MergeRequest
    <2> QED
      BY <2>1, <2>2
  <1>3. everPrimary \subseteq Node
    BY DEF TypeOK
  <1> QED
    BY <1>1, <1>2, <1>3, GrowthKeepsDurable
       DEF WritersWerePrimary, WipesSparePrimaries, SyncAt

\* A replica set update may not make a node primary that is about to wipe.
LEMMA EnvironmentKeepsDurable ==
    ASSUME StableDuringWipe, DInv, Environment
    PROVE  (WritersWerePrimary /\ WipesSparePrimaries /\ Durable)'
  <1> USE DEF DInv
  <1>1. UNCHANGED <<db, writtenAt>>
    BY DEF Environment, IssueSync, LoseRequest, UpdateReplicaSet,
           LockExpires, CrashRestart
  <1>2. Durable'
    BY <1>1 DEF Durable
  <1>3. ASSUME NEW rs \in ReplicaSet, UpdateReplicaSet(rs)
        PROVE  (WritersWerePrimary /\ WipesSparePrimaries)'
    BY <1>3 DEF UpdateReplicaSet, WritersWerePrimary, WipesSparePrimaries,
                SyncAt
  <1>4. ASSUME NEW n \in Node, CrashRestart(n)
        PROVE  (WritersWerePrimary /\ WipesSparePrimaries)'
    <2>1. WritersWerePrimary'
      BY <1>4 DEF CrashRestart, WritersWerePrimary, TypeOK
    <2>2. \A j \in SyncJob : sync'[j] = Idle \/ sync'[j] = sync[j]
      BY <1>4 DEF CrashRestart
    <2> QED
      BY <1>4, <2>1, <2>2
         DEF CrashRestart, WipesSparePrimaries, SyncAt, Idle
  <1>5. ASSUME NEW n \in Node, LockExpires(n)
        PROVE  (WritersWerePrimary /\ WipesSparePrimaries)'
    BY <1>5 DEF LockExpires, WritersWerePrimary, WipesSparePrimaries, SyncAt
  <1>6. ASSUME UNCHANGED <<replicaSet, everPrimary, writing, writtenAt, sync>>
        PROVE  (WritersWerePrimary /\ WipesSparePrimaries)'
    BY <1>6 DEF WritersWerePrimary, WipesSparePrimaries, SyncAt
  <1>7. ASSUME NEW s, IssueSync(s) \/ LoseRequest(s)
        PROVE  (WritersWerePrimary /\ WipesSparePrimaries)'
    BY <1>6, <1>7 DEF IssueSync, LoseRequest
  <1> QED
    BY <1>2, <1>3, <1>4, <1>5, <1>7 DEF Environment

LEMMA NextKeepsDurable ==
    ASSUME StableDuringWipe
    PROVE  DInv /\ TypeOK' /\ [Next]_vars => DInv'
  <1> SUFFICES ASSUME DInv, TypeOK', [Next]_vars PROVE DInv'
    OBVIOUS
  <1>1. CASE Next
    BY <1>1, ClientsKeepDurable, SyncsKeepDurable, MergesKeepDurable,
       EnvironmentKeepsDurable
       DEF Next, DInv
  <1>2. CASE UNCHANGED vars
    BY <1>2 DEF vars, DInv, WritersWerePrimary, WipesSparePrimaries, SyncAt,
                Durable
  <1> QED
    BY <1>1, <1>2

-----------------------------------------------------------------------------
(***************************************************************************)
(* A write that a node acknowledged as primary stays in its database,      *)
(* whatever jobs, faults, lock expiries and replica set updates follow,    *)
(* if updates spare nodes about to wipe.                                   *)
(***************************************************************************)
THEOREM AcknowledgedWritesLast ==
    ASSUME StableDuringWipe
    PROVE  Spec => []Durable
  <1>1. DInv => Durable
    BY DEF DInv
  <1>2. DInv /\ TypeOK' /\ [Next]_vars => DInv'
    BY NextKeepsDurable
  <1> QED
    BY <1>1, <1>2, InitDurable, TypeCorrect, PTL DEF Spec

(***************************************************************************)
(* A node that once was primary and that no job past its history check is  *)
(* still to wipe: nothing deletes its user or a record of it from then on, *)
(* whatever updates, merges, crashes and expired locks come.  (Between the *)
(* check and the wipe it is not safe, as a run shows.)                     *)
(***************************************************************************)
Spared(n) ==
    /\ n \in everPrimary
    /\ \A j \in SyncJob : SyncAt(j, "wiping") => sync[j].node # n

KeepsData(n) ==
    /\ db[n].records \subseteq db'[n].records
    /\ db[n] # NoUser => db'[n] # NoUser

LEMMA StaysSpared ==
    ASSUME TypeOK, [Next]_vars, NEW n \in Node, Spared(n)
    PROVE  Spared(n)'
  <1>1. everPrimary \subseteq everPrimary'
    BY DEF Next, ClientStep, CreateUser, AuthorizeWrite, CommitWrite, EndWrites, SyncStep,
           SyncProgress, SyncStart, SyncCheckDefault, SyncCheckForced, SyncCheckHistory,
           SyncWipe, SyncFetchExport, SyncImport, SyncAbort, SyncRelease, SyncFail, MergeStep,
           MergeProgress, MergeStart, MergeCheck, MergeFetchExport, MergeFilter, MergeSave,
           MergeAbort, MergeRelease, MergeRequest, MergeFail, Environment, IssueSync,
           LoseRequest, UpdateReplicaSet, LockExpires, CrashRestart, vars
  <1>2. ASSUME NEW i \in SyncJob, SyncAt(i, "wiping")', sync'[i].node = n PROVE FALSE
    <2>1. CASE sync'[i] = sync[i]
      BY <1>2, <2>1 DEF Spared, SyncAt
    <2>2. CASE sync'[i] # sync[i]
      <3>1. SyncStep(i)
        <4>1. ASSUME NEW j \in SyncJob, SyncStep(j), j # i PROVE FALSE
          BY <2>2, <4>1
             DEF SyncStep, SyncProgress, SyncStart, SyncCheckDefault,
                 SyncCheckForced, SyncCheckHistory, SyncWipe, SyncFetchExport,
                 SyncImport, SyncAbort, SyncFail, SyncRelease, SyncFinish, TypeOK
        <4>2. ASSUME NEW k \in Node, CrashRestart(k) PROVE FALSE
          BY <1>2, <2>2, <4>2 DEF CrashRestart, SyncAt, Idle
        <4>3. ASSUME UNCHANGED sync PROVE FALSE
          BY <2>2, <4>3
        <4> QED
          BY <4>1, <4>2, <4>3
             DEF Next, ClientStep, CreateUser, AuthorizeWrite, CommitWrite, EndWrites, MergeStep,
                 MergeProgress, MergeStart, MergeCheck, MergeFetchExport, MergeFilter, MergeSave,
                 MergeAbort, MergeRelease, MergeRequest, MergeFail, Environment, IssueSync,
                 LoseRequest, UpdateReplicaSet, LockExpires, vars
      <3>2. SyncCheckHistory(i)
        BY <1>2, <3>1, WipesAreChecked DEF SyncAt
      <3>3. sync[i].pc = "checking" /\ sync[i].node \notin everPrimary
        BY <3>2 DEF SyncCheckHistory, SyncAt
      <3>4. sync[i] \in RunningSync
        BY <3>3, SyncTypes DEF TypeOK
      <3>5. sync'[i].node = sync[i].node
        BY <3>2, <3>4 DEF SyncCheckHistory, RunningSync, TypeOK
      <3> QED
        BY <1>2, <3>3, <3>5 DEF Spared
    <2> QED
      BY <2>1, <2>2
  <1> QED
    BY <1>1, <1>2 DEF Spared, SyncAt

THEOREM PrimariesAreSpared ==
    Spec => [][\A n \in Node : Spared(n) => Spared(n)' /\ KeepsData(n)]_vars
  <1> DEFINE Safe == \A n \in Node : Spared(n) => Spared(n)' /\ KeepsData(n)
  <1>1. ASSUME IInv, [Next]_vars, NEW n \in Node, Spared(n) PROVE KeepsData(n)
    <2>1. db \in [Node -> User] /\ db' \in [Node -> User]
      BY <1>1, NextKeepsSound DEF IInv, TypeOK
    <2>2. db[n] # NoUser => db[n].clock > -1
      BY <1>1, <2>1 DEF IInv, DbSound, Sound, User
    <2>3. CASE Forward(n)
      BY <2>1, <2>2, <2>3 DEF Forward, KeepsData, NoUser, User
    <2>4. ASSUME NEW j \in SyncJob, StaleImport(j, n) PROVE KeepsData(n)
      <3>1. db'[n] = Import(db[n], FreshUser)
        BY <2>1, <2>4 DEF StaleImport, SyncImport
      <3> QED
        BY <3>1 DEF Import, FreshUser, NoUser, KeepsData
    <2>5. ASSUME NEW j \in SyncJob, SyncWipe(j), sync[j].node = n PROVE FALSE
      BY <1>1, <2>5 DEF SyncWipe, Spared
    <2> QED
      BY <1>1, <2>3, <2>4, <2>5, StepsGoForward
  <1>2. IInv /\ [Next]_vars => [Safe]_vars
    BY <1>1, StaysSpared DEF IInv
  <1> QED
    BY <1>2, InitSound, NextKeepsSound, PTL DEF Spec

-----------------------------------------------------------------------------
(***************************************************************************)
(* While the primary stays the same every node has a prefix of its         *)
(* records, whatever happens to the secondaries: they may be replaced,     *)
(* merged, wiped and resynced, crash, and lose their locks.  Hence         *)
(* ContentSync implements PrefixReplication and no entry is numbered       *)
(* twice.                                                                  *)
(***************************************************************************)

StablePrimary ==
    \A rs, other \in ReplicaSet : rs.primary = other.primary

Primary == replicaSet.primary

(***************************************************************************)
(* Who does what: only the primary takes writes and merges, only other     *)
(* nodes sync, and they do from the primary.                               *)
(***************************************************************************)
SyncRoles ==
    \A j \in SyncJob :
        sync[j].pc \in {"checking", "wiping", "fetching", "importing"} =>
            sync[j].node # Primary /\ sync[j].source = Primary

MergeRoles ==
    \A m \in MergeJob :
        merge[m].pc # "idle" => merge[m].node = Primary

WriteRoles == \A n \in Node : writing[n] => n = Primary

(***************************************************************************)
(* Records are the primary's wherever they are: on a node, or on their way *)
(* to one. With records numbered 1, 2, ... a part of the primary's is a    *)
(* prefix. So there is nothing a merge could find missing.                 *)
(***************************************************************************)
NodesCopy == \A n \in Node : db[n].records \subseteq db[Primary].records

PagesCopy ==
    /\ \A j \in SyncJob : sync[j].pc = "importing" =>
          sync[j].page.records \subseteq db[Primary].records
    /\ \A m \in MergeJob : merge[m].pc = "filtering" =>
          merge[m].page.records \subseteq db[Primary].records
    /\ \A m \in MergeJob : merge[m].pc = "saving" =>
          merge[m].page.records = {}

\* The primary's clock covers its records.
ClockCovers ==
    \A r \in db[Primary].records : r.clock <= db[Primary].clock

RInv ==
    /\ SyncRoles
    /\ MergeRoles
    /\ WriteRoles
    /\ NodesCopy
    /\ PagesCopy
    /\ ClockCovers

-----------------------------------------------------------------------------
\* Records numbered 1 .. k among numbered ones are those up to k.
LEMMA CopyIsPrefix ==
    ASSUME NEW u, Sound(u), NEW v, Sound(v), u.records \subseteq v.records
    PROVE  u.records = {r \in v.records : r.clock <= MaxClock(u.records)}
  <1>1. PICK k \in Nat : Numbered(u, k)
    BY DEF Sound
  <1>2. MaxClock(u.records) = k
    BY <1>1, MaxClockOfNumbered DEF Numbered
  <1>3. Unique(v.records) /\ v.records \in SUBSET Record
    BY DEF Sound, Numbered, User
  <1>4. \A r \in u.records : r.clock <= k
    BY <1>1 DEF Numbered, Clocks
  <1>5. ASSUME NEW r \in v.records, r.clock <= k
        PROVE  r \in u.records
    <2>1. r.clock \in Nat \ {0}
      BY <1>3 DEF Record
    <2>2. r.clock \in 1 .. k
      BY <1>5, <2>1
    <2>3. PICK q \in u.records : q.clock = r.clock
      BY <1>1, <2>2 DEF Numbered, Clocks
    <2> QED
      BY <1>3, <2>3 DEF Unique
  <1> QED
    BY <1>2, <1>4, <1>5

\* What the records say survives growth of the primary and any change of the
\* other nodes that copies or drops.
LEMMA GrowthKeepsCopies ==
    ASSUME PagesCopy, UNCHANGED <<replicaSet, sync, merge>>,
           db[Primary].records \subseteq db'[Primary].records
    PROVE  PagesCopy'
  BY DEF PagesCopy, Primary

LEMMA InitReplicates == Init => RInv
  <1> SUFFICES ASSUME Init PROVE RInv
    OBVIOUS
  <1>1. Primary \in Node
    BY ContentSyncAssumption DEF Init, Primary
  <1>2. \A n \in Node : db[n].records = {}
    BY DEF Init, NoUser
  <1>3. NodesCopy /\ ClockCovers
    BY <1>1, <1>2 DEF NodesCopy, ClockCovers
  <1> QED
    BY <1>3
       DEF Init, RInv, SyncRoles, MergeRoles, WriteRoles, PagesCopy, Idle

LEMMA PrimaryIsNode == TypeOK => Primary \in Node
  BY ContentSyncAssumption DEF TypeOK, Primary

-----------------------------------------------------------------------------
LEMMA ClientsReplicate ==
    ASSUME IInv, RInv, NEW n \in Node, ClientStep(n)
    PROVE  RInv'
  <1> USE DEF RInv
  <1>1. Primary \in Node
    BY PrimaryIsNode DEF IInv
  <1>2. db \in [Node -> User]
    BY DEF IInv, TypeOK
  <1>3. CASE CreateUser(n)
    <2>1. UNCHANGED <<replicaSet, writing, sync, merge>>
      BY <1>3 DEF CreateUser
    <2>2. \A k \in Node : db'[k].records = db[k].records
      BY <1>2, <1>3 DEF CreateUser, NoUser, FreshUser
    <2>3. NodesCopy'
      BY <1>1, <2>1, <2>2 DEF NodesCopy, Primary
    <2>4. PagesCopy'
      BY <1>1, <2>1, <2>2, GrowthKeepsCopies
    <2>5. ClockCovers'
      <3>1. CASE n = Primary
        <4>1. db'[Primary].records = {}
          BY <1>2, <1>3, <3>1 DEF CreateUser, FreshUser
        <4> QED
          BY <2>1, <4>1 DEF ClockCovers, Primary
      <3>2. CASE n # Primary
        BY <1>2, <1>3, <2>1, <3>2 DEF CreateUser, ClockCovers, Primary
      <3> QED
        BY <3>1, <3>2
    <2> QED
      BY <2>1, <2>3, <2>4, <2>5
         DEF SyncRoles, MergeRoles, WriteRoles, Primary
  <1>4. CASE AuthorizeWrite(n)
    <2>1. WriteRoles'
      BY <1>4 DEF AuthorizeWrite, WriteRoles, Primary, IInv, TypeOK
    <2> QED
      BY <1>4, <2>1
         DEF AuthorizeWrite, SyncRoles, MergeRoles, NodesCopy, PagesCopy,
             ClockCovers, Primary
  <1>5. ASSUME NEW e \in Entry, CommitWrite(n, e) PROVE RInv'
    <2> DEFINE new == [clock |-> db[n].clock + 1, entry |-> e]
    <2>1. UNCHANGED <<replicaSet, writing, sync, merge>>
      BY <1>5 DEF CommitWrite
    <2>2. n = Primary
      BY <1>5 DEF CommitWrite, WriteRoles
    <2>3. /\ db'[n].records = db[n].records \cup {new}
          /\ db'[n].clock = db[n].clock + 1
          /\ \A k \in Node \ {n} : db'[k] = db[k]
      BY <1>2, <1>5 DEF CommitWrite, Append1
    <2>4. NodesCopy'
      BY <1>1, <2>1, <2>2, <2>3 DEF NodesCopy, Primary
    <2>5. PagesCopy'
      BY <2>1, <2>2, <2>3, GrowthKeepsCopies
    <2>6. ClockCovers'
      <3>1. db[n].clock \in Int /\ db[n].records \in SUBSET Record
        BY <1>2 DEF User
      <3>2. \A r \in db[n].records : r.clock \in Int /\ r.clock <= db[n].clock
        BY <2>2, <3>1 DEF ClockCovers, Record
      <3>3. \A r \in db'[n].records : r.clock <= db'[n].clock
        BY <2>3, <3>1, <3>2
      <3> QED
        BY <2>1, <2>2, <3>3 DEF ClockCovers, Primary
    <2> QED
      BY <2>1, <2>4, <2>5, <2>6
         DEF SyncRoles, MergeRoles, WriteRoles, Primary
  <1>6. CASE EndWrites(n)
    <2>1. WriteRoles'
      BY <1>6 DEF EndWrites, WriteRoles, Primary, IInv, TypeOK
    <2> QED
      BY <1>6, <2>1
         DEF EndWrites, SyncRoles, MergeRoles, NodesCopy, PagesCopy,
             ClockCovers, Primary
  <1> QED
    BY <1>3, <1>4, <1>5, <1>6 DEF ClientStep

\* A sync job copies from the primary and drops rows of other nodes only.
LEMMA SyncsReplicate ==
    ASSUME IInv, RInv, NEW j \in SyncJob, SyncStep(j)
    PROVE  RInv'
  <1> USE DEF RInv
  <1> DEFINE job == sync[j]
             Quiet(v) == v.pc \notin {"checking", "wiping", "fetching",
                                      "importing"}
             Copying(v) == /\ v.node # Primary
                           /\ v.source = Primary
                           /\ v.pc = "importing" =>
                                v.page.records \subseteq db[Primary].records
  <1>1. /\ Primary \in Node
        /\ replicaSet.primary \notin replicaSet.secondaries
    BY PrimaryIsNode, ContentSyncAssumption DEF IInv, TypeOK
  <1>2. db \in [Node -> User] /\ sync \in [SyncJob -> SyncState]
    BY DEF IInv, TypeOK
  <1>3. job.pc \in {"locked", "checking", "wiping", "fetching", "importing"}
          => job \in RunningSync
    BY <1>2, SyncTypes
  \* Steps that change the job alone.
  <1>4. ASSUME NEW v, Quiet(v) \/ Copying(v),
               sync' = [sync EXCEPT ![j] = v],
               UNCHANGED <<replicaSet, db, writing, merge>>
        PROVE  RInv'
    <2>1. SyncRoles' /\ PagesCopy'
      BY <1>2, <1>4 DEF SyncRoles, PagesCopy, Primary
    <2> QED
      BY <1>4, <2>1
         DEF MergeRoles, WriteRoles, NodesCopy, ClockCovers, Primary
  <1>5. SyncFinish(j) => \E v : Quiet(v) /\ sync' = [sync EXCEPT ![j] = v]
    <2>1. Quiet(Releasing(job.node))
      BY DEF Releasing
    <2> QED
      BY <1>2, <2>1 DEF SyncFinish
  <1>6. ASSUME NEW r \in requests, SyncStart(j, r) PROVE RInv'
    <2> DEFINE started ==
             [pc |-> "locked", node |-> r.node, source |-> r.source,
              mode |-> r.mode, secondaries |-> {}, localMax |-> -1,
              page |-> EmptyPage]
    <2>1. Quiet(started) /\ Quiet(Releasing(r.node))
      BY DEF Releasing
    <2>2. \/ sync' = [sync EXCEPT ![j] = started]
          \/ sync' = [sync EXCEPT ![j] = Releasing(r.node)]
      BY <1>6 DEF SyncStart
    <2>3. UNCHANGED <<replicaSet, db, writing, merge>>
      BY <1>6 DEF SyncStart
    <2> HIDE DEF started, Quiet, Copying
    <2> QED
      BY <1>4, <2>1, <2>2, <2>3
  <1>7. CASE SyncCheckDefault(j)
    <2> DEFINE next == [job EXCEPT !.pc = "fetching",
                                   !.secondaries = replicaSet.secondaries,
                                   !.localMax = db[job.node].clock]
    <2>1. job \in RunningSync
      BY <1>3, <1>7 DEF SyncCheckDefault, SyncFromPrimary, SyncAt
    <2>2. next.pc = "fetching" /\ next.node = job.node
          /\ next.source = job.source
      BY <2>1 DEF RunningSync
    <2>3. Copying(next)
      BY <1>1, <1>7, <2>2 DEF SyncCheckDefault, SyncFromPrimary, Primary
    <2>4. /\ sync' = [sync EXCEPT ![j] = next]
          /\ UNCHANGED <<replicaSet, db, writing, merge>>
      BY <1>2, <1>7 DEF SyncCheckDefault
    <2> HIDE DEF next, Quiet, Copying
    <2> QED
      BY <1>4, <2>3, <2>4
  <1>8. CASE SyncCheckForced(j)
    <2> DEFINE next == [job EXCEPT !.pc = "checking",
                                   !.secondaries = replicaSet.secondaries]
    <2>1. job \in RunningSync
      BY <1>3, <1>8 DEF SyncCheckForced, SyncFromPrimary, SyncAt
    <2>2. next.pc = "checking" /\ next.node = job.node
          /\ next.source = job.source
      BY <2>1 DEF RunningSync
    <2>3. Copying(next)
      BY <1>8, <2>2 DEF SyncCheckForced, SyncFromPrimary, Primary
    <2>4. /\ sync' = [sync EXCEPT ![j] = next]
          /\ UNCHANGED <<replicaSet, db, writing, merge>>
      BY <1>2, <1>8 DEF SyncCheckForced
    <2> HIDE DEF next, Quiet, Copying
    <2> QED
      BY <1>4, <2>3, <2>4
  <1>9. CASE SyncCheckHistory(j)
    <2> DEFINE next == [job EXCEPT !.pc = "wiping"]
    <2>1. job \in RunningSync /\ job.pc = "checking"
      BY <1>3, <1>9 DEF SyncCheckHistory, SyncAt
    <2>2. next.pc = "wiping" /\ next.node = job.node
          /\ next.source = job.source
      BY <2>1 DEF RunningSync
    <2>3. Copying(next)
      BY <2>1, <2>2 DEF SyncRoles
    <2>4. /\ sync' = [sync EXCEPT ![j] = next]
          /\ UNCHANGED <<replicaSet, db, writing, merge>>
      BY <1>2, <1>9 DEF SyncCheckHistory
    <2> HIDE DEF next, Quiet, Copying
    <2> QED
      BY <1>4, <2>3, <2>4
  <1>10. CASE SyncWipe(j)
    <2> DEFINE next == [job EXCEPT !.pc = "fetching", !.localMax = -1]
    <2>1. job \in RunningSync /\ job.pc = "wiping"
      BY <1>3, <1>10 DEF SyncWipe, SyncAt
    <2>2. job.node \in Node \ {Primary} /\ job.source = Primary
      BY <2>1 DEF SyncRoles, RunningSync
    <2>3. next.pc = "fetching" /\ next.node # Primary
          /\ next.source = Primary
      BY <2>1, <2>2 DEF RunningSync
    <2>4. \E v : /\ Quiet(v) \/ Copying(v)
                /\ sync' = [sync EXCEPT ![j] = v]
                /\ v.pc # "importing"
      <3>1. CASE sync' = [sync EXCEPT ![j] = next]
        BY <2>3, <3>1
      <3>2. CASE SyncFinish(j)
        <4> QED
          BY <1>5, <3>2
      <3> QED
        BY <1>2, <1>10, <3>1, <3>2 DEF SyncWipe
    <2>5. UNCHANGED <<replicaSet, merge>>
      BY <1>10 DEF SyncWipe
    <2>6. /\ db'[Primary] = db[Primary]
          /\ \A n \in Node : db'[n].records \subseteq db[n].records
      BY <1>1, <1>2, <1>10, <2>2 DEF SyncWipe, NoUser
    <2>7. SyncRoles' /\ PagesCopy'
      BY <1>2, <2>4, <2>5, <2>6 DEF SyncRoles, PagesCopy, Primary
    <2>8. NodesCopy' /\ ClockCovers'
      BY <2>5, <2>6 DEF NodesCopy, ClockCovers, Primary
    <2>9. WriteRoles'
      BY <1>10, <2>5 DEF SyncWipe, WriteRoles, Primary, IInv, TypeOK
    <2> QED
      BY <2>5, <2>7, <2>8, <2>9 DEF MergeRoles, Primary
  <1>11. CASE SyncFetchExport(j)
    <2> DEFINE x == Export(db[job.source], job.localMax + 1)
               next == [job EXCEPT !.pc = "importing", !.page = x]
    <2>1. job \in RunningSync /\ job.pc = "fetching"
      BY <1>3, <1>11 DEF SyncFetchExport, SyncAt
    <2>2. job.node # Primary /\ job.source = Primary
      BY <2>1 DEF SyncRoles
    <2>3. x.records \subseteq db[Primary].records
      BY <2>2 DEF Export
    <2>4. next.node = job.node /\ next.source = job.source
          /\ next.page = x
      BY <2>1 DEF RunningSync
    <2>5. Copying(next)
      BY <2>2, <2>3, <2>4
    <2>6. /\ sync' = [sync EXCEPT ![j] = next]
          /\ UNCHANGED <<replicaSet, db, writing, merge>>
      BY <1>2, <1>11 DEF SyncFetchExport
    <2> HIDE DEF next, Quiet, Copying
    <2> QED
      BY <1>4, <2>5, <2>6
  <1>12. CASE SyncImport(j)
    <2>1. job \in RunningSync /\ job.pc = "importing"
      BY <1>3, <1>12 DEF SyncImport, SyncAt
    <2>2. job.node \in Node \ {Primary}
      BY <2>1 DEF SyncRoles, RunningSync
    <2>3. job.page.records \subseteq db[Primary].records
      BY <2>1 DEF PagesCopy
    <2>4. PICK v : Quiet(v) /\ sync' = [sync EXCEPT ![j] = v]
      BY <1>5, <1>12 DEF SyncImport
    <2>5. UNCHANGED <<replicaSet, writing, merge>>
      BY <1>12 DEF SyncImport
    <2>6. /\ db'[Primary] = db[Primary]
          /\ \A n \in Node :
                db'[n].records \subseteq
                    db[n].records \cup db[Primary].records
      BY <1>1, <1>2, <1>12, <2>2, <2>3 DEF SyncImport, Import
    <2>7. SyncRoles' /\ PagesCopy'
      BY <1>2, <2>4, <2>5, <2>6 DEF SyncRoles, PagesCopy, Primary
    <2>8. NodesCopy' /\ ClockCovers'
      BY <2>5, <2>6 DEF NodesCopy, ClockCovers, Primary
    <2> QED
      BY <2>5, <2>7, <2>8 DEF MergeRoles, WriteRoles, Primary
  <1>13. CASE SyncAbort(j)
    BY <1>4, <1>5, <1>13 DEF SyncAbort
  <1>14. CASE SyncFail(j)
    BY <1>4, <1>5, <1>14 DEF SyncFail
  <1>15. CASE SyncRelease(j)
    <2>1. Quiet(Idle)
      BY DEF Idle
    <2> QED
      BY <1>4, <1>15, <2>1 DEF SyncRelease
  <1> QED
    BY <1>6, <1>7, <1>8, <1>9, <1>10, <1>11, <1>12, <1>13, <1>14, <1>15
       DEF SyncStep, SyncProgress

\* Merging nothing changes no records.
LEMMA EmptyMerge ==
    ASSUME NEW u \in User, NEW f \in Renumbering({}, u.clock + 1)
    PROVE  Merge(u, f) = u
  <1>1. DOMAIN f = {}
    BY DEF Renumbering, Bijection, Injection, Surjection, IsInjective
  <1>2. Cardinality(DOMAIN f) = 0
    BY <1>1, FS_EmptySet
  <1>3. {[clock |-> f[r], entry |-> r.entry] : r \in DOMAIN f} = {}
    BY <1>1
  <1> QED
    BY <1>2, <1>3 DEF Merge, User

\* A merge finds nothing on other nodes that the primary lacks.
LEMMA MergesReplicate ==
    ASSUME IInv, RInv, NEW m \in MergeJob, MergeStep(m)
    PROVE  RInv'
  <1> USE DEF RInv
  <1> DEFINE job == merge[m]
             Fitting(v) ==
               /\ v.pc # "idle" => v.node = Primary
               /\ v.pc = "filtering" =>
                    v.page.records \subseteq db[Primary].records
               /\ v.pc = "saving" => v.page.records = {}
  <1>1. Primary \in Node
    BY PrimaryIsNode DEF IInv
  <1>2. db \in [Node -> User] /\ merge \in [MergeJob -> MergeState]
    BY DEF IInv, TypeOK
  <1>3. /\ job.pc \in {"locked", "fetching", "filtering", "saving", "merged",
                       "requesting"} => job \in RunningMerge
        /\ job.pc # "idle" => job.node = Primary
    BY <1>2, MergeTypes DEF MergeRoles
  \* Steps that change the job alone.
  <1>4. ASSUME NEW v, Fitting(v), merge' = [merge EXCEPT ![m] = v],
               UNCHANGED <<replicaSet, db, writing, sync>>
        PROVE  RInv'
    <2>1. MergeRoles' /\ PagesCopy'
      BY <1>2, <1>4 DEF MergeRoles, PagesCopy, Primary
    <2> QED
      BY <1>4, <2>1
         DEF SyncRoles, WriteRoles, NodesCopy, ClockCovers, Primary
  <1>5. ASSUME job.pc # "idle", merge' = [merge EXCEPT ![m] = Failed(@.node)],
               UNCHANGED <<replicaSet, db, writing, sync>>
        PROVE  RInv'
    <2>1. Fitting(Failed(job.node))
      BY <1>3, <1>5 DEF Failed
    <2>2. merge' = [merge EXCEPT ![m] = Failed(job.node)]
      BY <1>2, <1>5
    <2> HIDE DEF Fitting
    <2> QED
      BY <1>4, <1>5, <2>1, <2>2
  <1>6. ASSUME NEW s \in Node, NEW mode \in Mode \ {"default"},
               MergeStart(m, s, mode)
        PROVE  RInv'
    <2> DEFINE started ==
             [pc |-> "locked", node |-> Primary, secondary |-> s,
              mode |-> mode, secondaries |-> replicaSet.secondaries,
              min |-> 0, page |-> EmptyPage, fresh |-> FALSE]
    <2>1. Fitting(started) /\ Fitting(Failed(Primary))
      BY DEF Failed
    <2>2. \/ merge' = [merge EXCEPT ![m] = started]
          \/ merge' = [merge EXCEPT ![m] = Failed(Primary)]
      BY <1>6 DEF MergeStart, Primary
    <2>3. UNCHANGED <<replicaSet, db, writing, sync>>
      BY <1>6 DEF MergeStart
    <2> HIDE DEF started, Fitting
    <2> QED
      BY <1>4, <2>1, <2>2, <2>3
  <1>7. CASE MergeCheck(m)
    <2> DEFINE next == [job EXCEPT !.pc = "fetching"]
    <2>1. job \in RunningMerge /\ job.pc = "locked"
      BY <1>3, <1>7 DEF MergeCheck, MergeAt
    <2>2. Fitting(next)
      BY <1>3, <2>1 DEF RunningMerge
    <2>3. /\ merge' = [merge EXCEPT ![m] = next]
          /\ UNCHANGED <<replicaSet, db, writing, sync>>
      BY <1>2, <1>7 DEF MergeCheck
    <2> HIDE DEF next, Fitting
    <2> QED
      BY <1>4, <2>2, <2>3
  <1>8. CASE MergeFetchExport(m)
    <2> DEFINE x == Export(db[job.secondary], job.min)
               next == [job EXCEPT !.pc = "filtering", !.page = x]
    <2>1. job \in RunningMerge /\ job.pc = "fetching"
      BY <1>3, <1>8 DEF MergeFetchExport, MergeAt
    <2>2. job.secondary \in Node
      BY <2>1 DEF RunningMerge
    <2>3. x.records \subseteq db[Primary].records
      BY <2>2 DEF Export, NodesCopy
    <2>4. next.pc = "filtering" /\ next.node = Primary /\ next.page = x
      BY <1>3, <2>1 DEF RunningMerge
    <2>5. Fitting(next)
      BY <2>3, <2>4
    <2>6. /\ merge' = [merge EXCEPT ![m] = next]
          /\ UNCHANGED <<replicaSet, db, writing, sync>>
      BY <1>2, <1>8 DEF MergeFetchExport
    <2> HIDE DEF next, Fitting
    <2> QED
      BY <1>4, <2>5, <2>6
  <1>9. CASE MergeFilter(m)
    <2> DEFINE u == db[job.node]
               new == Missing(u, job.page.records)
               next == [job EXCEPT !.pc = "saving", !.fresh = (u = NoUser),
                                   !.page.records = new]
    <2>1. job \in RunningMerge /\ job.pc = "filtering"
      BY <1>3, <1>9 DEF MergeFilter, MergeAt
    <2>2. job.page.records \subseteq u.records
      BY <1>3, <2>1 DEF PagesCopy
    <2>3. new = {}
      BY <2>2 DEF Missing, Entries
    <2>4. /\ next.pc = "saving"
          /\ next.node = Primary
          /\ next.page.records = new
      BY <1>3, <2>1 DEF RunningMerge, ExportPage
    <2>5. Fitting(next)
      BY <2>3, <2>4
    <2>6. /\ merge' = [merge EXCEPT ![m] = next]
          /\ UNCHANGED <<replicaSet, db, writing, sync>>
      BY <1>2, <1>9 DEF MergeFilter
    <2> HIDE DEF next, Fitting
    <2> QED
      BY <1>4, <2>5, <2>6
  <1>10. CASE MergeSave(m)
    <2> DEFINE base == MergeBase(db[Primary])
    <2>1. job \in RunningMerge /\ job.pc = "saving"
      BY <1>3, <1>10 DEF MergeSave, MergeAt
    <2>2. job.node = Primary /\ job.page.records = {}
      BY <1>3, <2>1 DEF PagesCopy
    <2>3. base \in User /\ base.records = db[Primary].records
      BY <1>1, <1>2, NewUsersSound DEF MergeBase, Sound, NoUser, FreshUser
    <2>4. PICK f \in Renumbering({}, base.clock + 1) :
              db' = [db EXCEPT ![Primary] = Merge(base, f)]
      BY <1>10, <2>2 DEF MergeSave
    <2>5. db' = [db EXCEPT ![Primary] = base]
      <3> HIDE DEF base
      <3> QED
        BY <2>3, <2>4, EmptyMerge
    <2>6. \A n \in Node : db'[n].records = db[n].records
      <3> HIDE DEF base
      <3> QED
        BY <1>1, <1>2, <2>3, <2>5
    <2>7. UNCHANGED <<replicaSet, writing, sync>>
      BY <1>10 DEF MergeSave
    <2>8. \E v : /\ merge' = [merge EXCEPT ![m] = v]
                /\ v.pc \in {"merged", "fetching"}
                /\ v.node = Primary
      <3> DEFINE last == RangeMax(job.min)
                 done == [job EXCEPT !.pc = "merged", !.page = EmptyPage]
                 next == [job EXCEPT !.pc = "fetching", !.page = EmptyPage,
                                     !.min = last + 1]
      <3>1. done.pc = "merged" /\ next.pc = "fetching"
            /\ done.node = Primary /\ next.node = Primary
        BY <2>1, <2>2 DEF RunningMerge
      <3>2. \/ merge' = [merge EXCEPT ![m] = done]
            \/ merge' = [merge EXCEPT ![m] = next]
        BY <1>2, <1>10 DEF MergeSave
      <3> HIDE DEF done, next
      <3> QED
        BY <3>1, <3>2
    <2>9. MergeRoles' /\ PagesCopy'
      BY <1>1, <1>2, <2>6, <2>7, <2>8 DEF MergeRoles, PagesCopy, Primary
    <2>10. NodesCopy'
      BY <1>1, <2>6, <2>7 DEF NodesCopy, Primary
    <2>11. ClockCovers'
      <3>1. db'[Primary] = base
        BY <1>1, <1>2, <2>5
      <3>2. db[Primary].clock <= base.clock
        BY <1>1, <1>2 DEF MergeBase, NoUser, FreshUser, User
      <3>3. \A r \in base.records : r.clock <= base.clock
        <4>1. CASE db[Primary] = NoUser
          BY <2>3, <4>1 DEF NoUser
        <4>2. CASE db[Primary] # NoUser
          BY <4>2 DEF MergeBase, ClockCovers
        <4> QED
          BY <4>1, <4>2
      <3> QED
        BY <2>7, <3>1, <3>3 DEF ClockCovers, Primary
    <2> QED
      BY <2>7, <2>9, <2>10, <2>11 DEF SyncRoles, WriteRoles, Primary
  <1>11. CASE MergeAbort(m)
    BY <1>5, <1>11 DEF MergeAbort, MergeRefused, MergeAt
  <1>12. CASE MergeFail(m)
    BY <1>5, <1>12 DEF MergeFail
  <1>13. CASE MergeRelease(m)
    <2> DEFINE next == [job EXCEPT !.pc = "requesting"]
    <2>1. UNCHANGED <<replicaSet, db, writing, sync>>
      BY <1>13 DEF MergeRelease
    <2>2. CASE job.pc = "merged"
      <3>1. job \in RunningMerge /\ job.node = Primary
        BY <1>3, <2>2
      <3>2. Fitting(next)
        BY <3>1 DEF RunningMerge
      <3>3. merge' = [merge EXCEPT ![m] = next]
        BY <1>2, <1>13, <2>2 DEF MergeRelease, MergeAt
      <3> HIDE DEF next, Fitting
      <3> QED
        BY <1>4, <2>1, <3>2, <3>3
    <2>3. CASE job.pc # "merged"
      <3>1. Fitting(Idle)
        BY DEF Idle
      <3>2. merge' = [merge EXCEPT ![m] = Idle]
        BY <1>13, <2>3 DEF MergeRelease, MergeAt
      <3> HIDE DEF Fitting
      <3> QED
        BY <1>4, <2>1, <3>1, <3>2
    <2> QED
      BY <2>2, <2>3
  <1>14. CASE MergeRequest(m)
    <2>1. Fitting(Idle)
      BY DEF Idle
    <2> HIDE DEF Fitting
    <2> QED
      BY <1>4, <1>14, <2>1 DEF MergeRequest
  <1> QED
    BY <1>6, <1>7, <1>8, <1>9, <1>10, <1>11, <1>12, <1>13, <1>14
       DEF MergeStep, MergeProgress

\* Updates that spare the primary change no one's role in a running job.
LEMMA EnvironmentReplicates ==
    ASSUME StablePrimary, IInv, RInv, Environment
    PROVE  RInv'
  <1> USE DEF RInv
  <1>1. UNCHANGED db
    BY DEF Environment, IssueSync, LoseRequest, UpdateReplicaSet,
           LockExpires, CrashRestart
  <1>2. UNCHANGED Primary
    <2>1. ASSUME NEW rs \in ReplicaSet, UpdateReplicaSet(rs)
          PROVE  UNCHANGED Primary
      BY <2>1 DEF StablePrimary, UpdateReplicaSet, Primary, IInv, TypeOK
    <2>2. CASE UNCHANGED replicaSet
      BY <2>2 DEF Primary
    <2> QED
      BY <2>1, <2>2
         DEF Environment, IssueSync, LoseRequest, LockExpires, CrashRestart
  <1>3. NodesCopy' /\ ClockCovers'
    BY <1>1, <1>2 DEF NodesCopy, ClockCovers
  <1>4. CASE UNCHANGED <<writing, sync, merge>>
    BY <1>1, <1>2, <1>3, <1>4
       DEF SyncRoles, MergeRoles, WriteRoles, PagesCopy
  <1>5. ASSUME NEW n \in Node, CrashRestart(n) PROVE RInv'
    <2>1. /\ \A j \in SyncJob : sync'[j] = Idle \/ sync'[j] = sync[j]
          /\ \A m \in MergeJob : merge'[m] = Idle \/ merge'[m] = merge[m]
          /\ \A k \in Node : writing'[k] => writing[k]
      BY <1>5 DEF CrashRestart, IInv, TypeOK
    <2>2. SyncRoles'
      BY <1>2, <2>1 DEF SyncRoles, Idle
    <2>3. MergeRoles' /\ WriteRoles'
      BY <1>2, <2>1 DEF MergeRoles, WriteRoles, Idle
    <2>4. PagesCopy'
      BY <1>1, <1>2, <2>1 DEF PagesCopy, Idle
    <2> QED
      BY <1>3, <2>2, <2>3, <2>4
  <1> QED
    BY <1>4, <1>5
       DEF Environment, IssueSync, LoseRequest, UpdateReplicaSet, LockExpires

LEMMA NextReplicates ==
    ASSUME StablePrimary
    PROVE  IInv /\ RInv /\ [Next]_vars => RInv'
  <1> SUFFICES ASSUME IInv, RInv, [Next]_vars PROVE RInv'
    OBVIOUS
  <1>1. CASE Next
    BY <1>1, ClientsReplicate, SyncsReplicate, MergesReplicate,
       EnvironmentReplicates
       DEF Next
  <1>2. CASE UNCHANGED vars
    BY <1>2 DEF vars, RInv, SyncRoles, MergeRoles, WriteRoles, NodesCopy,
                PagesCopy, ClockCovers, Primary
  <1> QED
    BY <1>1, <1>2

-----------------------------------------------------------------------------
LEMMA CopiesArePrefixes == IInv /\ RInv => PrefixOfPrimary
  <1> SUFFICES ASSUME IInv, RInv, NEW n \in Node
               PROVE  db[n].records =
                        {r \in db[Primary].records :
                            r.clock <= MaxClock(db[n].records)}
    BY DEF PrefixOfPrimary, Primary
  <1>1. Primary \in Node
    BY PrimaryIsNode DEF IInv
  <1>2. Sound(db[n]) /\ Sound(db[Primary])
    BY <1>1 DEF IInv, DbSound
  <1>3. db[n].records \subseteq db[Primary].records
    BY DEF RInv, NodesCopy
  <1> QED
    BY <1>2, <1>3, CopyIsPrefix

(***************************************************************************)
(* As long as the primary is the same, every node's records are a prefix   *)
(* of the primary's: comparing clocks compares data.                       *)
(***************************************************************************)
THEOREM PrimaryLeads ==
    ASSUME StablePrimary
    PROVE  Spec => []PrefixOfPrimary
  <1>1. IInv /\ RInv /\ [Next]_vars => IInv' /\ RInv'
    BY NextKeepsSound, NextReplicates
  <1> QED
    BY <1>1, InitSound, InitReplicates, CopiesArePrefixes, PTL DEF Spec

-----------------------------------------------------------------------------
(***************************************************************************)
(* The log a node holds, as PrefixReplication sees it.                     *)
(***************************************************************************)
LEMMA LogOfNumbered ==
    ASSUME NEW R \in SUBSET Record, NEW k \in Nat, Clocks(R) = 1 .. k, Unique(R)
    PROVE  /\ LogOf(R) \in [1 .. k -> Entry]
           /\ LogOf(R) \in Seq(Entry) /\ Len(LogOf(R)) = k
           /\ \A r \in R : r.clock \in 1 .. k /\ LogOf(R)[r.clock] = r.entry
  <1>1. MaxClock(R) = k
    BY MaxClockOfNumbered
  <1>2. LogOf(R) = [c \in 1 .. k |-> (CHOOSE r \in R : r.clock = c).entry]
    BY <1>1 DEF LogOf
  <1>3. ASSUME NEW r \in R
        PROVE  r.clock \in 1 .. k /\ (CHOOSE q \in R : q.clock = r.clock) = r
    BY DEF Clocks, Unique
  <1>4. ASSUME NEW c \in 1 .. k
        PROVE  (CHOOSE r \in R : r.clock = c).entry \in Entry
    <2>1. \E r \in R : r.clock = c
      BY DEF Clocks
    <2> QED
      BY <2>1 DEF Record
  <1>5. LogOf(R) \in [1 .. k -> Entry]
    BY <1>2, <1>4
  <1>6. LogOf(R) \in Seq(Entry)
    BY <1>5, SeqDef
  <1>7. Len(LogOf(R)) = k
    BY <1>5, <1>6, LenProperties
  <1> QED
    BY <1>2, <1>3, <1>5, <1>6, <1>7

LEMMA LogOfSound ==
    ASSUME NEW u, Sound(u)
    PROVE  /\ LogOf(u.records) \in Seq(Entry)
           /\ Len(LogOf(u.records)) \in Nat
           /\ Numbered(u, Len(LogOf(u.records)))
           /\ MaxClock(u.records) = Len(LogOf(u.records))
  <1>1. PICK k \in Nat : Numbered(u, k)
    BY DEF Sound
  <1>2. u.records \in SUBSET Record
    BY DEF Sound, User
  <1> QED
    BY <1>1, <1>2, LogOfNumbered, MaxClockOfNumbered DEF Numbered

\* Some of the records, themselves numbered 1, 2, ..., make a prefix.
LEMMA PartIsPrefix ==
    ASSUME NEW u, Sound(u), NEW v, Sound(v), u.records \subseteq v.records
    PROVE  /\ Len(LogOf(u.records)) <= Len(LogOf(v.records))
           /\ LogOf(u.records)
                = SubSeq(LogOf(v.records), 1, Len(LogOf(u.records)))
  <1> DEFINE lu == LogOf(u.records)
             lv == LogOf(v.records)
  <1>1. PICK k \in Nat : Numbered(u, k)
    BY DEF Sound
  <1>2. PICK m \in Nat : Numbered(v, m)
    BY DEF Sound
  <1>3. /\ lu \in Seq(Entry) /\ Len(lu) = k
        /\ \A r \in u.records : r.clock \in 1 .. k /\ lu[r.clock] = r.entry
    BY <1>1, LogOfNumbered DEF Sound, User, Numbered
  <1>4. /\ lv \in Seq(Entry) /\ Len(lv) = m
        /\ \A r \in v.records : r.clock \in 1 .. m /\ lv[r.clock] = r.entry
    BY <1>2, LogOfNumbered DEF Sound, User, Numbered
  <1>5. \A c \in 1 .. k : \E r \in u.records : r.clock = c
    BY <1>1 DEF Numbered, Clocks
  <1>6. \A c \in 1 .. k : c \in 1 .. m /\ lu[c] = lv[c]
    BY <1>3, <1>4, <1>5
  <1>7. k <= m
    <2>1. CASE k = 0
      BY <2>1
    <2>2. CASE k # 0
      BY <1>6, <2>2
    <2> QED
      BY <2>1, <2>2
  <1>8. \A c \in 1 .. k : lv[c] \in Entry
    BY <1>4, <1>6, ElementOfSeq
  <1>9. /\ SubSeq(lv, 1, k) \in Seq(Entry) /\ Len(SubSeq(lv, 1, k)) = k
        /\ \A c \in 1 .. k : SubSeq(lv, 1, k)[c] = lv[c]
    BY <1>8, SubSeqProperties
  <1> HIDE DEF lu, lv
  <1>10. lu = SubSeq(lv, 1, k)
    BY <1>3, <1>6, <1>9, SeqEqual
  <1> QED
    BY <1>3, <1>4, <1>7, <1>10 DEF lu, lv

\* createNewDataRecord appends to the log.
LEMMA AppendToLog ==
    ASSUME NEW u, Sound(u), CanAppend(u), NEW e \in Entry
    PROVE  LogOf(Append1(u, e).records) = Append(LogOf(u.records), e)
  <1> DEFINE new == [clock |-> u.clock + 1, entry |-> e]
             v == Append1(u, e)
             lu == LogOf(u.records)
             lv == LogOf(v.records)
  <1>1. PICK k \in Nat : Numbered(u, k)
    BY DEF Sound
  <1>2. u.clock = k /\ u.records \in SUBSET Record
    BY <1>1 DEF Sound, Numbered, CanAppend, User
  <1>3. v.records = u.records \cup {new} /\ new.clock = k + 1 /\ new.entry = e
    BY <1>2 DEF Append1
  <1>4. /\ lu \in Seq(Entry) /\ Len(lu) = k
        /\ \A r \in u.records : r.clock \in 1 .. k /\ lu[r.clock] = r.entry
    BY <1>1, LogOfNumbered DEF Sound, User, Numbered
  <1>5. /\ v.records \in SUBSET Record /\ Unique(v.records)
        /\ Clocks(v.records) = 1 .. (k + 1)
    <2>1. v.records \in SUBSET Record
      BY <1>2, <1>3 DEF Record
    <2>2. Unique(v.records)
      BY <1>1, <1>3, <1>4 DEF Unique, Numbered
    <2>3. Clocks(v.records) = Clocks(u.records) \cup {k + 1}
      BY <1>3 DEF Clocks
    <2> QED
      BY <1>1, <2>1, <2>2, <2>3 DEF Numbered
  <1>6. /\ lv \in Seq(Entry) /\ Len(lv) = k + 1
        /\ \A r \in v.records : lv[r.clock] = r.entry
    BY <1>5, LogOfNumbered
  <1>7. ASSUME NEW c \in 1 .. k PROVE lv[c] = lu[c]
    <2>1. PICK r \in u.records : r.clock = c
      BY <1>1 DEF Numbered, Clocks
    <2>2. r \in v.records
      BY <1>3
    <2> HIDE DEF lu, lv, v
    <2> QED
      BY <1>4, <1>6, <2>1, <2>2
  <1>8. lv[k + 1] = e
    BY <1>3, <1>6
  <1>9. /\ Append(lu, e) \in Seq(Entry) /\ Len(Append(lu, e)) = k + 1
        /\ \A c \in 1 .. k : Append(lu, e)[c] = lu[c]
        /\ Append(lu, e)[k + 1] = e
    BY <1>4, AppendProperties
  <1> HIDE DEF lu, lv
  <1>10. \A c \in 1 .. k + 1 : lv[c] = Append(lu, e)[c]
    <2>1. \A c \in 1 .. k + 1 : c \in 1 .. k \/ c = k + 1
      OBVIOUS
    <2> QED
      BY <1>7, <1>8, <1>9, <2>1
  <1>11. lv = Append(lu, e)
    BY <1>6, <1>9, <1>10, SeqEqual
  <1> QED
    BY <1>11 DEF lu, lv

LEMMA EmptyLog == LogOf({}) = << >>
  <1>1. Clocks({}) = 1 .. 0 /\ Unique({})
    BY ClocksOfEmpty DEF Unique
  <1>2. LogOf({}) \in Seq(Entry) /\ Len(LogOf({})) = 0
    BY <1>1, LogOfNumbered
  <1> QED
    BY <1>2, EmptySeq

\* What a step does to the rows while the primary stays: it writes to the
\* primary, extends or wipes another node, or leaves all records alone.
Grows(n) ==
    /\ n \in Node \ {Primary}
    /\ db[n].records \subseteq db'[n].records
    /\ Len(LogOf(db[n].records)) < Len(LogOf(db'[n].records))
    /\ \A k \in Node \ {n} : db'[k].records = db[k].records

Drops(n) ==
    /\ n \in Node \ {Primary}
    /\ db'[n].records = {}
    /\ \A k \in Node \ {n} : db'[k].records = db[k].records

Takes(e) ==
    /\ e \in Entry /\ CanAppend(db[Primary])
    /\ writtenAt[e] = Nobody
    /\ writtenAt' = [writtenAt EXCEPT ![e] = Primary]
    /\ db'[Primary].records = Append1(db[Primary], e).records
    /\ \A k \in Node \ {Primary} : db'[k].records = db[k].records

Keeps == \A n \in Node : db'[n].records = db[n].records

Allowed ==
    \/ \E e \in Entry : Takes(e)
    \/ /\ UNCHANGED writtenAt
       /\ Keeps \/ \E n \in Node : Grows(n) \/ Drops(n)

LEMMA ImportGrows ==
    ASSUME IInv, RInv, NEW j \in SyncJob, SyncImport(j)
    PROVE  Keeps \/ \E n \in Node : Grows(n)
  <1> DEFINE n == sync[j].node
             u == db[n]
             x == sync[j].page
  <1>1. sync[j] \in RunningSync /\ sync[j].pc = "importing"
    BY SyncTypes DEF SyncImport, SyncAt, IInv, TypeOK
  <1>2. n \in Node \ {Primary} /\ db \in [Node -> User] /\ Sound(u) /\ SoundPage(x)
    BY <1>1 DEF RInv, SyncRoles, RunningSync, IInv, TypeOK, DbSound, SyncSound
  <1>3. /\ HookAccepts(u.records, x.records)
        /\ db' = [db EXCEPT ![n] = Import(u, x)]
    BY <1>2 DEF SyncImport
  <1>4. /\ db'[n].records = u.records \cup x.records
        /\ \A k \in Node \ {n} : db'[k].records = db[k].records
    BY <1>2, <1>3 DEF Import
  <1>5. CASE x.records = {}
    BY <1>4, <1>5 DEF Keeps
  <1>6. CASE x.records # {}
    <2> DEFINE lu == LogOf(u.records)
               lv == LogOf(db'[n].records)
    <2>1. Len(lu) \in Nat /\ Clocks(u.records) = 1 .. Len(lu) /\ MaxClock(u.records) = Len(lu)
      BY <1>2, LogOfSound DEF Numbered
    <2>2. Sound(Import(u, x))
      BY <1>2, <1>3, ImportKeepsSound
    <2>3. Len(lv) \in Nat /\ Clocks(db'[n].records) = 1 .. Len(lv)
      <3>1. db'[n] = Import(u, x)
        BY <1>2, <1>3
      <3> QED
        BY <2>2, <3>1, LogOfSound DEF Numbered
    <2>4. PICK r \in x.records : TRUE
      BY <1>6
    <2>5. r.clock \in Len(lu) + 1 .. Max(Clocks(x.records))
      BY <1>3, <1>6, <2>1 DEF HookAccepts, Clocks
    <2>6. r.clock \in 1 .. Len(lv)
      BY <1>4, <2>3 DEF Clocks
    <2> HIDE DEF lu, lv
    <2>7. Len(lu) < Len(lv)
      <3>1. ASSUME NEW a \in Nat, NEW b \in Nat, NEW c, NEW k, k \in a + 1 .. c, k \in 1 .. b
            PROVE  a < b
        BY <3>1
      <3> QED
        BY <2>1, <2>3, <2>5, <2>6, <3>1
    <2> QED
      BY <1>2, <1>4, <2>7 DEF Grows, lu, lv
  <1> QED
    BY <1>5, <1>6

LEMMA StepsAllowed ==
    ASSUME StablePrimary, IInv, RInv, [Next]_vars
    PROVE  Allowed /\ UNCHANGED Primary
  <1>1. Primary \in Node /\ db \in [Node -> User]
    BY PrimaryIsNode DEF IInv, TypeOK
  <1>2. UNCHANGED Primary
    <2>1. ASSUME NEW rs \in ReplicaSet, UpdateReplicaSet(rs)
          PROVE  UNCHANGED Primary
      BY <2>1 DEF StablePrimary, UpdateReplicaSet, Primary, IInv, TypeOK
    <2>2. UNCHANGED replicaSet \/ \E rs \in ReplicaSet : UpdateReplicaSet(rs)
      BY DEF Next, ClientStep, CreateUser, AuthorizeWrite, CommitWrite, EndWrites,
             SyncStep, SyncProgress, SyncStart, SyncCheckDefault, SyncCheckForced,
             SyncCheckHistory, SyncWipe, SyncFetchExport, SyncImport, SyncAbort,
             SyncRelease, SyncFail, MergeStep, MergeProgress, MergeStart, MergeCheck,
             MergeFetchExport, MergeFilter, MergeSave, MergeAbort, MergeRelease,
             MergeRequest, MergeFail, Environment, IssueSync, LoseRequest, LockExpires,
             CrashRestart, vars
    <2> QED
      BY <2>1, <2>2 DEF Primary
  <1>3. ASSUME UNCHANGED <<db, writtenAt>> PROVE Allowed
    BY <1>3 DEF Allowed, Keeps
  <1>4. ASSUME NEW n \in Node, CreateUser(n) PROVE Keeps
    BY <1>1, <1>4 DEF CreateUser, NoUser, FreshUser, Keeps
  <1>5. ASSUME NEW n \in Node, NEW e \in Entry, CommitWrite(n, e) PROVE Takes(e)
    <2>1. n = Primary
      BY <1>5 DEF CommitWrite, RInv, WriteRoles
    <2> QED
      BY <1>1, <1>5, <2>1 DEF CommitWrite, Takes
  <1>6. ASSUME NEW j \in SyncJob, SyncWipe(j) PROVE Drops(sync[j].node)
    <2>1. sync[j] \in RunningSync /\ sync[j].pc = "wiping"
      BY <1>6, SyncTypes DEF SyncWipe, SyncAt, IInv, TypeOK
    <2>2. sync[j].node \in Node \ {Primary}
      BY <2>1 DEF RInv, SyncRoles, RunningSync
    <2> QED
      BY <1>1, <1>6, <2>2 DEF SyncWipe, Drops, NoUser
  <1>7. ASSUME NEW m \in MergeJob, MergeSave(m) PROVE Keeps
    <2> DEFINE base == MergeBase(db[Primary])
    <2>1. merge[m].node = Primary /\ merge[m].page.records = {}
      BY <1>7 DEF MergeSave, MergeAt, RInv, MergeRoles, PagesCopy
    <2>2. base \in User /\ base.records = db[Primary].records
      BY <1>1, NewUsersSound DEF MergeBase, Sound, NoUser, FreshUser
    <2>3. PICK f \in Renumbering({}, base.clock + 1) :
              db' = [db EXCEPT ![Primary] = Merge(base, f)]
      BY <1>7, <2>1 DEF MergeSave
    <2> HIDE DEF base
    <2>4. db' = [db EXCEPT ![Primary] = base]
      BY <2>2, <2>3, EmptyMerge
    <2> QED
      BY <1>1, <2>2, <2>4 DEF Keeps
  <1>8. \/ UNCHANGED <<db, writtenAt>>
        \/ \E n \in Node, e \in Entry : CommitWrite(n, e)
        \/ /\ UNCHANGED writtenAt
           /\ \/ \E n \in Node : CreateUser(n)
              \/ \E j \in SyncJob : SyncWipe(j) \/ SyncImport(j)
              \/ \E m \in MergeJob : MergeSave(m)
    <2>1. ASSUME NEW n \in Node, ClientStep(n)
          PROVE  \/ UNCHANGED <<db, writtenAt>>
                 \/ \E e \in Entry : CommitWrite(n, e)
                 \/ CreateUser(n) /\ UNCHANGED writtenAt
      BY <2>1 DEF ClientStep, CreateUser, AuthorizeWrite, EndWrites
    <2>2. ASSUME NEW j \in SyncJob, SyncStep(j)
          PROVE  \/ UNCHANGED <<db, writtenAt>>
                 \/ (SyncWipe(j) \/ SyncImport(j)) /\ UNCHANGED writtenAt
      BY <2>2 DEF SyncStep, SyncProgress, SyncWipe, SyncImport, SyncStart, SyncCheckDefault,
                  SyncCheckForced, SyncCheckHistory, SyncFetchExport, SyncAbort, SyncRelease,
                  SyncFail
    <2>3. ASSUME NEW m \in MergeJob, MergeStep(m)
          PROVE  \/ UNCHANGED <<db, writtenAt>>
                 \/ MergeSave(m) /\ UNCHANGED writtenAt
      BY <2>3 DEF MergeStep, MergeProgress, MergeSave, MergeStart, MergeCheck, MergeFetchExport,
                  MergeFilter, MergeAbort, MergeRelease, MergeRequest, MergeFail
    <2>4. Environment \/ UNCHANGED vars => UNCHANGED <<db, writtenAt>>
      BY DEF Environment, IssueSync, LoseRequest, UpdateReplicaSet, LockExpires, CrashRestart, vars
    <2> QED
      BY <2>1, <2>2, <2>3, <2>4 DEF Next
  <1>9. ASSUME NEW j \in SyncJob, SyncWipe(j) PROVE Allowed
    <2>1. sync[j].node \in Node
      BY <1>6, <1>9 DEF Drops
    <2>2. UNCHANGED writtenAt
      BY <1>9 DEF SyncWipe
    <2> QED
      BY <1>6, <1>9, <2>1, <2>2 DEF Allowed
  <1>10. Allowed
    BY <1>3, <1>4, <1>5, <1>7, <1>8, <1>9, ImportGrows DEF Allowed, Takes
  <1> QED
    BY <1>2, <1>10

Logs == [n \in Node |-> LogOf(db[n].records)]

LEMMA StepRefines ==
    ASSUME StablePrimary, IInv, RInv, IInv', RInv', [Next]_vars
    PROVE  [Abstract!Next]_(Abstract!vars)
  <1>1. Primary \in Node /\ UNCHANGED Primary /\ Allowed /\ Primary = replicaSet.primary
    BY PrimaryIsNode, StepsAllowed DEF IInv, Primary
  <1>2. ASSUME NEW n \in Node PROVE Sound(db[n]) /\ Sound(db'[n])
    BY DEF IInv, DbSound
  <1>3. UNCHANGED replicaSet.primary
    BY <1>1 DEF Primary
  <1>4. CASE Keeps
    <2>1. Logs' = Logs
      BY <1>4 DEF Keeps, Logs
    <2> QED
      BY <1>3, <2>1 DEF Logs, Abstract!vars
  <1>5. ASSUME NEW e \in Entry, Takes(e) PROVE Abstract!Write(e)
    <2>1. LogOf(db'[Primary].records) = Append(LogOf(db[Primary].records), e)
      BY <1>1, <1>2, <1>5, AppendToLog DEF Takes
    <2>2. Logs' = [Logs EXCEPT ![Primary] = Append(@, e)]
      BY <1>1, <1>5, <2>1 DEF Takes, Logs
    <2> QED
      BY <1>1, <1>3, <2>2 DEF Logs, Abstract!Write
  <1>6. ASSUME NEW n \in Node, Grows(n) PROVE Abstract!Copy(n)
    <2> DEFINE len == Len(LogOf(db'[n].records))
    <2>1. n # Primary /\ db'[Primary].records = db[Primary].records
      BY <1>1, <1>6 DEF Grows
    <2>2. db'[n].records \subseteq db'[Primary].records
      BY <1>1 DEF RInv, NodesCopy
    <2>3. /\ len <= Len(LogOf(db[Primary].records))
          /\ LogOf(db'[n].records) = SubSeq(LogOf(db[Primary].records), 1, len)
      BY <1>1, <1>2, <2>1, <2>2, PartIsPrefix
    <2>4. /\ Len(LogOf(db[n].records)) \in Nat /\ len \in Nat
          /\ Len(LogOf(db[Primary].records)) \in Nat
      BY <1>1, <1>2, LogOfSound
    <2>5. Logs' = [Logs EXCEPT ![n] = LogOf(db'[n].records)]
      BY <1>6 DEF Grows, Logs
    <2>6. Logs[n] = LogOf(db[n].records) /\ Logs[Primary] = LogOf(db[Primary].records)
      BY <1>1 DEF Logs
    <2>7. len \in Len(Logs[n]) + 1 .. Len(Logs[Primary])
      BY <1>6, <2>3, <2>4, <2>6 DEF Grows
    <2>8. Logs' = [Logs EXCEPT ![n] = SubSeq(Logs[Primary], 1, len)]
      BY <2>3, <2>5, <2>6
    <2> HIDE DEF len
    <2> QED
      BY <1>1, <1>3, <2>1, <2>7, <2>8 DEF Logs, Abstract!Copy
  <1>7. ASSUME NEW n \in Node, Drops(n) PROVE Abstract!Wipe(n)
    <2>1. Logs' = [Logs EXCEPT ![n] = << >>]
      BY <1>7, EmptyLog DEF Drops, Logs
    <2> QED
      BY <1>1, <1>3, <1>7, <2>1 DEF Logs, Abstract!Wipe, Drops
  <1> QED
    BY <1>1, <1>4, <1>5, <1>6, <1>7 DEF Allowed, Abstract!Next

LEMMA InitRefines ==
    ASSUME Init
    PROVE  Abstract!Init
  <1>1. replicaSet.primary \in Node
    BY ContentSyncAssumption DEF Init
  <1>2. Logs = [n \in Node |-> << >>]
    BY EmptyLog DEF Init, Logs, NoUser
  <1> QED
    BY <1>1, <1>2 DEF Logs, Abstract!Init

(***************************************************************************)
(* As long as the primary is the same, replication is what                 *)
(* PrefixReplication says: the primary's log grows at its end, and the     *)
(* other nodes jump to a longer prefix of it or are wiped.  Merges, the    *)
(* only other writers, write nothing.                                      *)
(***************************************************************************)
THEOREM ReplicatesPrefixes ==
    ASSUME StablePrimary
    PROVE  Spec => ImplementsPrefixReplication
  <1>1. Init => IInv /\ RInv /\ Abstract!Init
    BY InitSound, InitReplicates, InitRefines
  <1>2. IInv /\ RInv /\ [Next]_vars => IInv' /\ RInv'
    BY NextKeepsSound, NextReplicates
  <1>3. IInv /\ RInv /\ IInv' /\ RInv' /\ [Next]_vars => [Abstract!Next]_(Abstract!vars)
    BY StepRefines
  <1> QED
    BY <1>1, <1>2, <1>3, PTL DEF Spec, ImplementsPrefixReplication, Abstract!Spec

-----------------------------------------------------------------------------
\* The primary's entries are acknowledged ones, each in one record.
NInv ==
    /\ \A r \in db[Primary].records : writtenAt[r.entry] # Nobody
    /\ \A r, q \in db[Primary].records : r.entry = q.entry => r = q

LEMMA TakingIsNew ==
    ASSUME IInv, NInv, UNCHANGED Primary, NEW e \in Entry, Takes(e)
    PROVE  NInv'
  <1> DEFINE R == db[Primary].records
             new == [clock |-> db[Primary].clock + 1, entry |-> e]
  <1>1. db'[Primary].records = R \cup {new}
    BY DEF Takes, Append1
  <1>2. Primary \in Node /\ R \in SUBSET Record
    BY PrimaryIsNode DEF IInv, TypeOK, User
  <1>3. \A r \in R : r.entry \in Entry /\ r.entry # e
    BY <1>2 DEF Takes, NInv, Record
  <1>4. \A f \in Entry : writtenAt'[f] = IF f = e THEN Primary ELSE writtenAt[f]
    BY DEF Takes, IInv, TypeOK
  <1>5. Primary # Nobody
    BY <1>2, NobodyAssumption
  <1>6. ASSUME NEW r \in db'[Primary].records PROVE writtenAt'[r.entry] # Nobody
    BY <1>1, <1>3, <1>4, <1>5, <1>6 DEF NInv
  <1>7. ASSUME NEW r \in db'[Primary].records, NEW q \in db'[Primary].records,
               r.entry = q.entry
        PROVE  r = q
    BY <1>1, <1>3, <1>7 DEF NInv
  <1> QED
    BY <1>6, <1>7 DEF NInv

LEMMA NextIsUnique ==
    ASSUME StablePrimary, IInv, RInv, NInv, [Next]_vars
    PROVE  NInv'
  <1>1. UNCHANGED Primary /\ Allowed /\ Primary \in Node
    BY StepsAllowed, PrimaryIsNode DEF IInv
  <1>2. ASSUME UNCHANGED writtenAt, Keeps \/ \E n \in Node : Grows(n) \/ Drops(n)
        PROVE  NInv'
    <2>1. db'[Primary].records = db[Primary].records
      BY <1>1, <1>2 DEF Keeps, Grows, Drops
    <2> QED
      BY <1>1, <1>2, <2>1 DEF NInv
  <1> QED
    BY <1>1, <1>2, TakingIsNew DEF Allowed

(***************************************************************************)
(* As long as the primary is the same, no node ever has an entry twice:    *)
(* each is numbered once, by the primary's transaction, and copied with    *)
(* that number, whatever jobs overlap.                                     *)
(***************************************************************************)
THEOREM NumberedOnce ==
    ASSUME StablePrimary
    PROVE  Spec => []NoDuplicates
  <1>1. Init => IInv /\ RInv /\ NInv
    <2>1. Init => NInv
      BY PrimaryIsNode, InitSound DEF Init, NInv, NoUser, IInv
    <2> QED
      BY <2>1, InitSound, InitReplicates
  <1>2. IInv /\ RInv /\ NInv /\ [Next]_vars => IInv' /\ RInv' /\ NInv'
    BY NextKeepsSound, NextReplicates, NextIsUnique
  <1>3. IInv /\ RInv /\ NInv => NoDuplicates
    BY DEF NoDuplicates, RInv, NodesCopy, NInv
  <1> QED
    BY <1>1, <1>2, <1>3, PTL DEF Spec
=============================================================================
