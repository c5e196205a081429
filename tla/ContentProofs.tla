---------------------------- MODULE ContentProofs ----------------------------
(***************************************************************************)
(* What the discovery node takes from content nodes and what it gives out: *)
(*                                                                         *)
(* - of the content nodes and the replica sets (ContentNodes): types, and  *)
(*   a walk through the pages of get_users_cnode misses no user;           *)
(* - of the metadata of blocks (CidMetadata): a block is applied with all  *)
(*   of its files, a fetch fails for a cause, rows hold what files say;    *)
(* - of tracks that are not served (Availability): which are taken down,   *)
(*   and that an undisturbed pass takes down all of them;                  *)
(* - of access to premium tracks (Premium): signatures and streams are     *)
(*   earned.                                                               *)
(*                                                                         *)
(* The last two are instances; variables of the same name are shared, as   *)
(* no theorem is about two components at a time.                           *)
(***************************************************************************)
EXTENDS CidMetadata, FiniteSetTheorems, SequenceTheorems, WellFoundedInduction, TLAPS

CONSTANTS Owner, InitialBlacklist, BatchSize, MaxPasses, MaxExpiries
VARIABLES blacklist, tracks, unavailable, all, lock, passes, expiries, answers, told
Served == INSTANCE Availability

CONSTANTS Users, WalletOf, Wallets, Nfts, Holders, InitialTracks, Edits
VARIABLES follows, tips, associated, holder, stream, met
Gated == INSTANCE Premium

-----------------------------------------------------------------------------
(* Sets of numbers have a lowest element, finite ones a highest.           *)
LEMMA LowestIn ==
  ASSUME NEW T \in SUBSET Nat, T # {}
  PROVE  \E n \in T : \A m \in T : n <= m
  <1>1. PICK n \in T : \A m \in T : ~(<<m, n>> \in OpToRel(<, Nat))
    BY NatLessThanWellFounded, WFMin
  <1>2. ASSUME NEW m \in T PROVE n <= m
    <2>1. CASE m < n
      BY <1>1, <2>1 DEF OpToRel
    <2>2. CASE ~(m < n)
      BY <2>2
    <2> QED
      BY <2>1, <2>2
  <1> QED
    BY <1>2

LEMMA HighestIn ==
  ASSUME NEW T \in SUBSET Nat, T # {}, IsFiniteSet(T)
  PROVE  \E n \in T : \A m \in T : m <= n
  <1> DEFINE above(n) == {m \in T : n < m}
             sizes == {Cardinality(above(n)) : n \in T}
  <1>1. \A n \in T : IsFiniteSet(above(n)) /\ Cardinality(above(n)) \in Nat
    BY FS_Subset, FS_CardinalityType
  <1>2. sizes \in SUBSET Nat /\ sizes # {}
    BY <1>1
  <1>3. PICK k \in sizes : \A m \in sizes : k <= m
    BY <1>2, LowestIn
  <1>4. PICK n \in T : k = Cardinality(above(n))
    OBVIOUS
  <1>5. ASSUME NEW m \in T, n < m PROVE FALSE
    <2>1. above(m) \subseteq above(n) \ {m} /\ m \in above(n)
      <3>1. m \in Nat /\ n \in Nat
        BY <1>4
      <3>2. ASSUME NEW x \in T, m < x PROVE n < x /\ x # m
        BY <1>5, <3>1, <3>2
      <3> QED
        BY <1>5, <3>2
    <2>2. Cardinality(above(m)) <= Cardinality(above(n) \ {m})
      BY <1>1, <2>1, FS_Subset, FS_RemoveElement
    <2>3. Cardinality(above(n) \ {m}) = Cardinality(above(n)) - 1
      BY <1>1, <2>1, FS_RemoveElement
    <2>4. k <= Cardinality(above(m))
      BY <1>3
    <2> QED
      BY <1>1, <1>4, <2>2, <2>3, <2>4
  <1> QED
    BY <1>5

\* The first n of a set of ids are at most n, are all of it when they are
\* fewer, and leave out none before the last of them.
LEMMA FirstOfIds ==
  ASSUME NEW U \in SUBSET Nat, IsFiniteSet(U), NEW n \in Nat
  PROVE  /\ FirstOf(U, n) \subseteq U /\ IsFiniteSet(FirstOf(U, n))
         /\ Cardinality(FirstOf(U, n)) \in Nat /\ Cardinality(FirstOf(U, n)) <= n
         /\ Cardinality(FirstOf(U, n)) < n => FirstOf(U, n) = U
         /\ \A u \in U, v \in FirstOf(U, n) : u <= v => u \in FirstOf(U, n)
  <1> DEFINE F == FirstOf(U, n)
             below(u) == {v \in U : v < u}
  <1>1. \A u : IsFiniteSet(below(u)) /\ Cardinality(below(u)) \in Nat
    BY FS_Subset, FS_CardinalityType
  <1>2. F \subseteq U /\ IsFiniteSet(F) /\ Cardinality(F) \in Nat
    BY FS_Subset, FS_CardinalityType DEF FirstOf
  <1>3. \A u \in U : u \in F <=> Cardinality(below(u)) < n
    BY DEF FirstOf
  <1> HIDE DEF F
  <1>4. ASSUME NEW u \in U, NEW v \in F, u <= v PROVE u \in F
    <2>1. below(u) \subseteq below(v)
      <3>1. u \in Nat /\ v \in Nat
        BY <1>2
      <3>2. ASSUME NEW x \in U, x < u PROVE x < v
        BY <1>4, <3>1, <3>2
      <3> QED
        BY <3>2
    <2>2. Cardinality(below(u)) <= Cardinality(below(v))
      BY <1>1, <2>1, FS_Subset
    <2> QED
      BY <1>1, <1>2, <1>3, <2>2
  <1>5. Cardinality(F) <= n
    <2>1. CASE F = {}
      BY <2>1, FS_EmptySet
    <2>2. CASE F # {}
      <3>1. PICK m \in F : \A x \in F : x <= m
        BY <1>2, <2>2, HighestIn
      <3>2. F \subseteq below(m) \cup {m}
        BY <1>2, <3>1
      <3>3. Cardinality(F) <= Cardinality(below(m) \cup {m}) /\ IsFiniteSet(below(m) \cup {m})
        BY <1>1, <3>2, FS_AddElement, FS_Subset
      <3>4. Cardinality(below(m) \cup {m}) = Cardinality(below(m)) + 1
        <4>1. m \notin below(m)
          BY <1>2
        <4> QED
          BY <1>1, <4>1, FS_AddElement
      <3>5. Cardinality(below(m)) < n
        BY <1>2, <1>3
      <3> QED
        BY <1>1, <1>2, <3>3, <3>4, <3>5
    <2> QED
      BY <2>1, <2>2
  <1>6. ASSUME Cardinality(F) < n, F # U PROVE FALSE
    <2>1. U \ F \in SUBSET Nat /\ U \ F # {}
      BY <1>2, <1>6
    <2>2. PICK m \in U \ F : \A x \in U \ F : m <= x
      BY <2>1, LowestIn
    <2>3. below(m) \subseteq F
      <3>1. ASSUME NEW x \in U, x < m PROVE x \in F
        BY <2>2, <3>1
      <3> QED
        BY <3>1
    <2>4. Cardinality(below(m)) <= Cardinality(F)
      BY <1>2, <2>3, FS_Subset
    <2> QED
      BY <1>1, <1>2, <1>3, <1>6, <2>2, <2>4
  <1> QED
    BY <1>2, <1>4, <1>5, <1>6 DEF F

-----------------------------------------------------------------------------
(* Ids of users are positive, as the walk begins above 0.                  *)
PageSizes ==
  /\ UserIds \subseteq Nat \ {0} /\ IsFiniteSet(UserIds)
  /\ MaxUsers \in Nat \ {0}

Now == Listed(Asking, "all")
\* A page has every user listed since before it that its range covers.
Covers(page, prev) ==
  /\ page \subseteq {u \in UserIds : u > prev} /\ Cardinality(page) <= MaxUsers
  /\ \A u \in steady : u > prev =>
       u \in page \/ (Cardinality(page) = MaxUsers /\ \A v \in page : v < u)
PagesInv ==
  /\ kept \subseteq steady /\ steady \subseteq Now
  /\ walk = [cursor |-> walk.cursor, seen |-> walk.seen, done |-> walk.done]
  /\ walk.cursor \in Int /\ walk.done \in BOOLEAN
  /\ \A prev \in DOMAIN pages : prev \in Int /\ Covers(pages[prev], prev)
  /\ \A u \in kept : u <= walk.cursor \/ walk.done => u \in walk.seen

LEMMA BeginsAtZero ==
  ASSUME NEW w, w = [IdleWalk EXCEPT !.cursor = 0]
  PROVE  w = [cursor |-> 0, seen |-> {}, done |-> FALSE]
  <1>1. IdleWalk \in [cursor : Int, seen : {{}}, done : BOOLEAN]
    BY DEF IdleWalk
  <1>2. w.cursor = 0 /\ w.seen = {} /\ w.done = FALSE
    BY DEF IdleWalk
  <1> QED
    BY <1>1, <1>2

LEMMA NowIsUsers == Now \subseteq UserIds
  BY DEF Now, Listed

LEMMA FreshCovers ==
  ASSUME PageSizes, PagesInv, NEW prev \in Int
  PROVE  LET page == GetUsersCnode(Asking, "all", prev, MaxUsers) IN Covers(page, prev)
  <1> DEFINE U == {u \in Now : u > prev}
             page == FirstOf(U, MaxUsers)
  <1>1. U \in SUBSET Nat /\ IsFiniteSet(U) /\ U \subseteq UserIds
    BY NowIsUsers, FS_Subset DEF PageSizes
  <1> HIDE DEF U
  <1>2. /\ page \subseteq U /\ Cardinality(page) \in Nat /\ Cardinality(page) <= MaxUsers
        /\ Cardinality(page) < MaxUsers => page = U
        /\ \A u \in U, v \in page : u <= v => u \in page
    BY <1>1, FirstOfIds DEF PageSizes
  <1> HIDE DEF page
  <1>3. page \subseteq {u \in UserIds : u > prev}
    BY <1>1, <1>2 DEF U
  <1>4. ASSUME NEW u \in steady, u > prev, u \notin page
        PROVE  Cardinality(page) = MaxUsers /\ \A v \in page : v < u
    <2>1. u \in U
      BY <1>4 DEF U, PagesInv
    <2>2. ~(Cardinality(page) < MaxUsers)
      BY <1>2, <1>4, <2>1
    <2>3. ASSUME NEW v \in page PROVE v < u
      BY <1>1, <1>2, <1>4, <2>1
    <2> QED
      BY <1>2, <2>2, <2>3 DEF PageSizes
  <1>5. page = GetUsersCnode(Asking, "all", prev, MaxUsers)
    BY DEF page, U, GetUsersCnode, Now
  <1> QED
    BY <1>2, <1>3, <1>4, <1>5 DEF Covers

\* What is listed shrinks what a page must cover, until no page is cached.
LEMMA RememberKeeps ==
  ASSUME PageSizes, PagesInv, Remember,
         walk' = walk \/ walk' = [IdleWalk EXCEPT !.cursor = 0],
         DOMAIN pages' \subseteq DOMAIN pages, \A x \in DOMAIN pages' : pages'[x] = pages[x]
  PROVE  PagesInv'
  <1>1. kept' \subseteq steady' /\ steady' \subseteq Now'
    BY DEF Remember, PagesInv, Now
  <1>2. DOMAIN pages' # {} => steady' \subseteq steady
    BY DEF Remember
  <1>3. ASSUME NEW prev \in DOMAIN pages' PROVE prev \in Int /\ Covers(pages[prev], prev)'
    <2>1. prev \in Int /\ Covers(pages[prev], prev)
      BY DEF PagesInv
    <2>2. steady' \subseteq steady /\ pages'[prev] = pages[prev]
      BY <1>2
    <2> QED
      BY <2>1, <2>2 DEF Covers, UserIds
  <1>4. walk'.cursor \in Int /\ walk'.done \in BOOLEAN
        /\ walk' = [cursor |-> walk'.cursor, seen |-> walk'.seen, done |-> walk'.done]
    <2>1. CASE walk' = walk
      BY <2>1 DEF PagesInv
    <2>2. CASE walk' = [IdleWalk EXCEPT !.cursor = 0]
      <3>1. walk' = [cursor |-> 0, seen |-> {}, done |-> FALSE]
        BY <2>2, BeginsAtZero
      <3> QED
        BY <3>1
    <2> QED
      BY <2>1, <2>2
  <1>5. ASSUME NEW u \in kept', u <= walk'.cursor \/ walk'.done PROVE u \in walk'.seen
    <2>1. u > 0 /\ u \in Int
      BY <1>1, NowIsUsers DEF PageSizes, Now, Listed, UserIds
    <2>2. walk' # [IdleWalk EXCEPT !.cursor = 0]
      BY <1>5, <2>1 DEF IdleWalk
    <2>3. walk' = walk
      BY <2>2
    <2>4. ~(walk'.cursor = 0 /\ walk'.seen = {} /\ ~walk'.done)
      <3> SUFFICES ASSUME walk'.cursor = 0, walk'.seen = {}, walk'.done = FALSE PROVE FALSE
        BY <1>4
      <3>1. walk' = [cursor |-> 0, seen |-> {}, done |-> FALSE]
        BY <1>4
      <3> QED
        BY <2>2, <3>1, BeginsAtZero
    <2>5. u \in kept
      BY <2>4 DEF Remember
    <2> QED
      BY <1>5, <2>3, <2>5 DEF PagesInv
  <1> QED
    BY <1>1, <1>3, <1>4, <1>5 DEF PagesInv

LEMMA NextPageKeeps ==
  ASSUME PageSizes, PagesInv, NextPage, Remember, UNCHANGED nodeVars
  PROVE  PagesInv'
  <1> DEFINE page == UsersByContentNode(walk.cursor)
             full == Cardinality(page) = MaxUsers
             last == CHOOSE u \in page : \A v \in page : v <= u
  <1>1. walk.cursor \in Int /\ walk.cursor >= 0 /\ ~walk.done
    BY DEF NextPage, PagesInv
  <1>2. Covers(page, walk.cursor)
    BY <1>1, FreshCovers DEF UsersByContentNode, PagesInv
  <1>3. /\ pages' = [x \in DOMAIN pages \cup {walk.cursor} |-> IF x = walk.cursor THEN page ELSE pages[x]]
        /\ walk' = [walk EXCEPT !.seen = @ \cup page, !.done = ~full,
                                !.cursor = IF full THEN last ELSE @]
    BY DEF NextPage
  <1>4. page \subseteq UserIds /\ page \subseteq Nat /\ IsFiniteSet(page) /\ Cardinality(page) \in Nat
    BY <1>2, FS_Subset, FS_CardinalityType DEF Covers, PageSizes
  <1>5. full => last \in page /\ \A v \in page : v <= last
    <2> SUFFICES ASSUME full PROVE last \in page /\ \A v \in page : v <= last
      OBVIOUS
    <2>1. page # {}
      BY FS_EmptySet DEF PageSizes
    <2>2. \E u \in page : \A v \in page : v <= u
      BY <1>4, <2>1, HighestIn
    <2> QED
      BY <2>2
  <1> HIDE DEF page, last
  <1>6. /\ walk'.seen = walk.seen \cup page /\ walk'.done = ~full
        /\ walk'.cursor = IF full THEN last ELSE walk.cursor
        /\ walk' = [cursor |-> walk'.cursor, seen |-> walk'.seen, done |-> walk'.done]
    BY <1>3 DEF PagesInv
  <1>7. walk'.cursor \in Int /\ walk'.done \in BOOLEAN
    BY <1>1, <1>4, <1>5, <1>6
  <1>8. DOMAIN pages' = DOMAIN pages \cup {walk.cursor}
    BY <1>3
  <1>9. steady' = steady \cap Now' /\ Now' = Now
    BY <1>8 DEF Remember, Now, Listed, UserIds, InReplicaSet, nodeVars
  <1>10. kept' \subseteq kept
    <2>1. ~(walk'.cursor = 0 /\ walk'.seen = {} /\ ~walk'.done)
      BY <1>4, <1>5, <1>6
    <2> QED
      BY <2>1 DEF Remember
  <1>11. kept' \subseteq steady' /\ steady' \subseteq Now' /\ steady' \subseteq steady
    BY <1>9, <1>10 DEF PagesInv, Remember, Now
  <1>12. ASSUME NEW prev \in DOMAIN pages' PROVE prev \in Int /\ Covers(pages[prev], prev)'
    <2>1. prev \in Int /\ Covers(pages'[prev], prev)
      BY <1>1, <1>2, <1>3, <1>8 DEF PagesInv
    <2> QED
      BY <2>1, <1>11 DEF Covers, UserIds
  <1>13. ASSUME NEW u \in kept', u <= walk'.cursor \/ walk'.done PROVE u \in walk'.seen
    <2>1. u \in kept /\ u \in steady /\ u \in Nat
      BY <1>10, NowIsUsers DEF PagesInv, PageSizes
    <2>2. CASE u <= walk.cursor
      BY <1>6, <2>1, <2>2 DEF PagesInv
    <2>3. CASE u > walk.cursor
      <3>1. u \in page \/ (full /\ \A v \in page : v < u)
        BY <1>2, <2>1, <2>3 DEF Covers
      <3>2. full => u <= last
        BY <1>6, <1>13
      <3> QED
        BY <1>4, <1>5, <1>6, <2>1, <3>1, <3>2
    <2> QED
      BY <1>1, <2>1, <2>2, <2>3
  <1> QED
    BY <1>6, <1>7, <1>11, <1>12, <1>13 DEF PagesInv

LEMMA PagesNext == PageSizes /\ PagesInv /\ [NodesNext]_contentVars => PagesInv'
  <1> SUFFICES ASSUME PageSizes, PagesInv, [NodesNext]_contentVars PROVE PagesInv'
    OBVIOUS
  <1>1. CASE Remember /\ UNCHANGED <<pages, walk>>
    BY <1>1, RememberKeeps
  <1>2. CASE StartWalk /\ Remember
    BY <1>2, RememberKeeps DEF StartWalk
  <1>3. CASE NextPage /\ Remember /\ UNCHANGED nodeVars
    BY <1>3, NextPageKeeps
  <1>4. CASE (\E prev \in DOMAIN pages : ExpirePage(prev)) /\ Remember
    <2>1. PICK prev \in DOMAIN pages : ExpirePage(prev)
      BY <1>4
    <2>2. /\ DOMAIN pages' = DOMAIN pages \ {prev} /\ walk' = walk
          /\ \A x \in DOMAIN pages' : pages'[x] = pages[x]
      BY <2>1 DEF ExpirePage
    <2> QED
      BY <1>4, <2>2, RememberKeeps
  <1>5. CASE UNCHANGED contentVars
    BY <1>5 DEF contentVars, nodeVars, walkVars, PagesInv, Now, Listed, UserIds, InReplicaSet, Covers
  <1> QED
    BY <1>1, <1>2, <1>3, <1>4, <1>5 DEF NodesNext, Walks

(* get_users_cnode and the walk through its pages: a content node has seen *)
(* every user whose replica set it was in all the time, for any users,     *)
(* size of pages, changes of replica sets and ages of the cached answers.  *)
THEOREM PagesAreComplete == ASSUME PageSizes PROVE NodesSpec => []PagesComplete
  <1>1. NodesInit => PagesInv
    <2> SUFFICES ASSUME NodesInit PROVE PagesInv
      OBVIOUS
    <2>1. /\ steady = Now /\ kept = {} /\ walk = IdleWalk /\ DOMAIN pages = {}
      BY DEF NodesInit, Now
    <2> QED
      BY <2>1 DEF PagesInv, IdleWalk
  <1>2. PagesInv => PagesComplete
    BY DEF PagesInv, PagesComplete
  <1>3. PagesInv /\ [NodesNext]_contentVars => PagesInv'
    BY PagesNext
  <1> QED
    BY <1>1, <1>2, <1>3, PTL DEF NodesSpec

-----------------------------------------------------------------------------
(* Types: ids of replica sets are numbers, those at the start registered.  *)
NodesSetting ==
  /\ InitialRegistry \in Seq(AllEndpoints) /\ MaxChanges \in Nat
  /\ \A u \in UserIds : InitialReplicas[u] \in Seq(DOMAIN InitialRegistry)
  /\ \A ids \in NewReplicas : ids \in Seq(Nat)
TypedRegistry == registry \in Seq(AllEndpoints \cup {""})
TypedKnown == \A id \in DOMAIN known : known[id] \in AllEndpoints \cup {""}
TypedUsers == DOMAIN users = UserIds /\ \A u \in UserIds :
  /\ users[u].ids \in Seq(Nat) /\ users[u].endpoints \in Seq(AllEndpoints \cup {""})
  /\ Len(users[u].ids) = Len(users[u].endpoints)
TypedPeers == DOMAIN peers = Workers /\ \A w \in Workers : peers[w] \subseteq AllEndpoints
TypedNodes == TypedRegistry /\ TypedKnown /\ TypedUsers /\ TypedPeers /\ changes \in 0..MaxChanges

\* Infos are endpoints, or "" for ids that have none.
LEMMA InfoType ==
  ASSUME TypedRegistry, TypedKnown, NEW id
  PROVE  FetchNodeInfo(id) \in AllEndpoints \cup {""}
  <1>1. id \in SpIds => registry[id] \in AllEndpoints \cup {""}
    BY ElementOfSeq, LenProperties DEF TypedRegistry, SpIds
  <1> QED
    BY <1>1 DEF FetchNodeInfo, OnChain, TypedKnown

LEMMA RememberedType ==
  ASSUME TypedRegistry, TypedKnown, NEW ids, known' = Remembered(ids)
  PROVE  TypedKnown'
  BY InfoType DEF Remembered, TypedKnown, AllEndpoints

LEMMA FetchedType ==
  ASSUME TypedRegistry, TypedKnown, NEW failing
  PROVE  EndpointsOf(FetchAllRegistered(failing)) \subseteq AllEndpoints
  BY InfoType DEF EndpointsOf, FetchAllRegistered

LEMMA SameLength == ASSUME NEW m \in Nat, NEW n \in Nat, 1..m = 1..n PROVE m = n
  <1>1. m > 0 => m \in 1..n
    BY m > 0 => m \in 1..m
  <1>2. n > 0 => n \in 1..m
    BY n > 0 => n \in 1..n
  <1> QED
    BY <1>1, <1>2

LEMMA FunctionIsSeq ==
  ASSUME NEW T, NEW n \in Nat, NEW f \in [1..n -> T]
  PROVE  f \in Seq(T) /\ Len(f) = n
  <1>1. f \in Seq(T)
    <2>1. Seq(T) = UNION {[1..k -> T] : k \in Nat}
      BY SeqDef
    <2> QED
      BY <2>1
  <1>2. Len(f) \in Nat /\ 1..Len(f) = 1..n
    BY <1>1, LenProperties
  <1> QED
    BY <1>1, <1>2, SameLength

LEMMA InfosOfSeq ==
  ASSUME TypedRegistry, TypedKnown, NEW S, NEW ids \in Seq(S)
  PROVE  /\ CreatorNodeEndpoint(ids) \in Seq(AllEndpoints \cup {""})
         /\ Len(CreatorNodeEndpoint(ids)) = Len(ids)
  <1>1. Len(ids) \in Nat /\ DOMAIN ids = 1..Len(ids)
    BY LenProperties
  <1>2. CreatorNodeEndpoint(ids) \in [1..Len(ids) -> AllEndpoints \cup {""}]
    BY <1>1, InfoType DEF CreatorNodeEndpoint
  <1> QED
    BY <1>1, <1>2, FunctionIsSeq

LEMMA ReplicasType ==
  ASSUME TypedRegistry, TypedKnown, TypedUsers, NEW u \in UserIds, NEW ids \in Seq(Nat),
         users' = [users EXCEPT ![u] = [ids |-> ids, endpoints |-> CreatorNodeEndpoint(ids)]]
  PROVE  TypedUsers'
  <1>1. DOMAIN users' = UserIds /\ UserIds' = UserIds /\ AllEndpoints' = AllEndpoints
    BY DEF TypedUsers, UserIds, AllEndpoints
  <1>2. users'[u].ids = ids /\ users'[u].endpoints = CreatorNodeEndpoint(ids)
    BY DEF TypedUsers
  <1>3. \A v \in UserIds : v # u => users'[v] = users[v]
    BY DEF TypedUsers
  <1>4. /\ CreatorNodeEndpoint(ids) \in Seq(AllEndpoints \cup {""})
        /\ Len(CreatorNodeEndpoint(ids)) = Len(ids)
    BY InfosOfSeq
  <1> QED
    BY <1>1, <1>2, <1>3, <1>4 DEF TypedUsers

LEMMA ChangesTyped ==
  ASSUME NodesSetting, TypedNodes, NodesChange \/ PeersChange
  PROVE  TypedNodes'
  <1> USE DEF TypedNodes, NodesSetting
  <1>1. Change => changes' \in 0..MaxChanges
    BY DEF Change
  <1>2. CASE \E e \in Endpoints : Register(e)
    <2>1. PICK e \in Endpoints : Register(e)
      BY <1>2
    <2>2. TypedRegistry'
      BY <2>1, AppendProperties DEF Register, TypedRegistry, AllEndpoints
    <2> QED
      BY <1>1, <2>1, <2>2 DEF Register, TypedKnown, TypedUsers, TypedPeers, UserIds, AllEndpoints
  <1>3. CASE \E id \in SpIds : Deregister(id)
    <2>1. PICK id \in SpIds : Deregister(id)
      BY <1>3
    <2>2. TypedRegistry'
      <3>1. id \in 1..Len(registry) /\ "" \in AllEndpoints \cup {""}
        BY LenProperties DEF TypedRegistry, SpIds, AllEndpoints
      <3>2. [registry EXCEPT ![id] = ""] \in Seq(AllEndpoints \cup {""})
        BY <3>1, ExceptSeq DEF TypedRegistry
      <3> QED
        BY <2>1, <3>2 DEF Deregister, TypedRegistry, AllEndpoints
    <2> QED
      BY <1>1, <2>1, <2>2 DEF Deregister, TypedKnown, TypedUsers, TypedPeers, UserIds, AllEndpoints
  <1>4. CASE \E id \in SpIds, e \in Endpoints : UpdateEndpoint(id, e)
    <2>1. PICK id \in SpIds, e \in Endpoints : UpdateEndpoint(id, e)
      BY <1>4
    <2>2. TypedRegistry'
      <3>1. id \in 1..Len(registry) /\ e \in AllEndpoints \cup {""}
        BY LenProperties DEF TypedRegistry, SpIds, AllEndpoints
      <3>2. [registry EXCEPT ![id] = e] \in Seq(AllEndpoints \cup {""})
        BY <3>1, ExceptSeq DEF TypedRegistry
      <3> QED
        BY <2>1, <3>2 DEF UpdateEndpoint, TypedRegistry, AllEndpoints
    <2> QED
      BY <1>1, <2>1, <2>2 DEF UpdateEndpoint, TypedKnown, TypedUsers, TypedPeers, UserIds, AllEndpoints
  <1>5. CASE \E id \in DOMAIN known : ExpireInfo(id)
    BY <1>5 DEF ExpireInfo, TypedRegistry, TypedKnown, TypedUsers, TypedPeers, UserIds, AllEndpoints
  <1>6. CASE \E u \in UserIds, ids \in NewReplicas : UpdateUserReplicaSet(u, ids)
    <2>1. PICK u \in UserIds, ids \in NewReplicas : UpdateUserReplicaSet(u, ids)
      BY <1>6
    <2>2. ids \in Seq(Nat)
      OBVIOUS
    <2>3. TypedUsers'
      <3>1. CASE IsValidUserReplicaSet(ids)
        BY <2>1, <2>2, <3>1, ReplicasType DEF UpdateUserReplicaSet
      <3>2. CASE ~IsValidUserReplicaSet(ids)
        BY <2>1, <3>2 DEF UpdateUserReplicaSet, TypedUsers, UserIds
      <3> QED
        BY <3>1, <3>2
    <2>4. TypedKnown'
      BY <2>1, RememberedType DEF UpdateUserReplicaSet
    <2> QED
      BY <1>1, <2>1, <2>3, <2>4 DEF UpdateUserReplicaSet, TypedRegistry, TypedPeers, AllEndpoints
  <1>7. CASE PeersChange
    <2>1. PICK w \in Workers, failing \in Failing :
            IndexContentNodePeers(w, failing) \/ RestartWorker(w, failing)
      BY <1>7 DEF PeersChange
    <2>2. TypedPeers'
      BY <2>1, FetchedType DEF IndexContentNodePeers, RestartWorker, UpdateCnodeUrls, TypedPeers,
         AllEndpoints
    <2>3. TypedKnown'
      BY <2>1, RememberedType DEF IndexContentNodePeers, RestartWorker
    <2>4. UNCHANGED <<registry, users>> /\ (UNCHANGED changes \/ Change)
      BY <2>1 DEF IndexContentNodePeers, RestartWorker
    <2> QED
      BY <1>1, <2>2, <2>3, <2>4 DEF TypedRegistry, TypedUsers, UserIds, AllEndpoints
  <1> QED
    BY <1>2, <1>3, <1>4, <1>5, <1>6, <1>7 DEF NodesChange

LEMMA InitTyped == NodesSetting /\ NodesInit => TypedNodes
  <1> SUFFICES ASSUME NodesSetting, NodesInit PROVE TypedNodes
    OBVIOUS
  <1>1. TypedRegistry
    BY SeqMonotonic DEF NodesSetting, NodesInit, TypedRegistry
  <1>2. TypedKnown /\ TypedPeers
    BY DEF NodesInit, TypedKnown, TypedPeers
  <1>3. TypedUsers
    <2>1. DOMAIN users = UserIds
      BY DEF NodesInit
    <2>2. ASSUME NEW u \in UserIds
          PROVE  /\ users[u].ids \in Seq(Nat) /\ users[u].endpoints \in Seq(AllEndpoints \cup {""})
                 /\ Len(users[u].ids) = Len(users[u].endpoints)
      <3>1. /\ DOMAIN InitialRegistry = 1..Len(InitialRegistry)
            /\ InitialRegistry \in [1..Len(InitialRegistry) -> AllEndpoints]
        BY LenProperties DEF NodesSetting
      <3>2. InitialReplicas[u] \in Seq(Nat)
        BY <3>1, SeqMonotonic DEF NodesSetting
      <3>3. DEFINE n == Len(InitialReplicas[u])
      <3>4. n \in Nat /\ InitialReplicas[u] \in [1..n -> DOMAIN InitialRegistry]
        BY LenProperties DEF NodesSetting
      <3>5. users[u] = [ids |-> InitialReplicas[u],
                        endpoints |-> [i \in DOMAIN InitialReplicas[u] |->
                                         InitialRegistry[InitialReplicas[u][i]]]]
        BY DEF NodesInit
      <3>6. users[u].endpoints \in [1..n -> AllEndpoints \cup {""}]
        <4>1. \A i \in 1..n : InitialReplicas[u][i] \in DOMAIN InitialRegistry
          BY <3>4
        <4>2. \A i \in 1..n : InitialRegistry[InitialReplicas[u][i]] \in AllEndpoints
          BY <3>1, <4>1
        <4>3. DOMAIN InitialReplicas[u] = 1..n
          BY <3>4
        <4>4. users[u].endpoints = [i \in 1..n |-> InitialRegistry[InitialReplicas[u][i]]]
          BY <3>5, <4>3
        <4> QED
          BY <4>2, <4>4
      <3>7. users[u].endpoints \in Seq(AllEndpoints \cup {""}) /\ Len(users[u].endpoints) = n
        BY <3>4, <3>6, FunctionIsSeq
      <3>8. users[u].ids = InitialReplicas[u]
        BY DEF NodesInit
      <3> QED
        BY <3>2, <3>7, <3>8
    <2> QED
      BY <2>1, <2>2 DEF TypedUsers
  <1> QED
    BY <1>1, <1>2, <1>3 DEF TypedNodes, NodesInit, NodesSetting

TypedWalk ==
  /\ \A prev \in DOMAIN pages : pages[prev] \subseteq UserIds
  /\ walk.seen \cup kept \cup steady \subseteq UserIds
NodesTypes == TypedNodes /\ TypedWalk /\ DOMAIN walk = {"cursor", "seen", "done"}

LEMMA TypedIsTypeOK == TypedNodes /\ TypedWalk => NodesTypeOK
  <1> SUFFICES ASSUME TypedNodes, TypedWalk PROVE NodesTypeOK
    OBVIOUS
  <1> QED
    BY DEF NodesTypeOK, TypedNodes, TypedUsers, TypedWalk, TypedRegistry, TypedKnown, TypedPeers

LEMMA NodesTypesKept == ASSUME NodesSetting, NodesTypes, [NodesNext]_contentVars PROVE NodesTypes'
  <1>1. TypedNodes'
    <2>1. CASE NodesChange \/ PeersChange
      BY <2>1, ChangesTyped DEF NodesTypes
    <2>2. CASE UNCHANGED nodeVars
      BY <2>2 DEF NodesTypes, nodeVars, TypedNodes, TypedRegistry, TypedKnown, TypedUsers, TypedPeers,
         UserIds, AllEndpoints
    <2> QED
      BY <2>1, <2>2 DEF NodesNext, contentVars
  <1>2. Listed(Asking, "all")' \subseteq UserIds /\ UserIds' = UserIds
    BY DEF Listed, UserIds
  <1>3. NodesNext => (kept \cup steady \subseteq UserIds)'
    BY <1>2 DEF NodesNext, Remember, NodesTypes, TypedWalk
  <1>4. ASSUME NextPage
        PROVE  /\ (walk.seen \subseteq UserIds)' /\ DOMAIN walk' = DOMAIN walk
               /\ \A prev \in DOMAIN pages' : pages'[prev] \subseteq UserIds
    <2>1. UsersByContentNode(walk.cursor) \subseteq UserIds
      BY DEF UsersByContentNode, GetUsersCnode, FirstOf, Listed, NodesTypes, TypedWalk
    <2> HIDE DEF UsersByContentNode
    <2> QED
      BY <1>2, <1>4, <2>1 DEF NextPage, NodesTypes, TypedWalk
  <1>5. ASSUME StartWalk
        PROVE  /\ (walk.seen \subseteq UserIds)' /\ DOMAIN walk' = {"cursor", "seen", "done"}
               /\ pages' = pages
    BY <1>5 DEF StartWalk, IdleWalk
  <1>6. ASSUME NEW prev \in DOMAIN pages, ExpirePage(prev)
        PROVE  walk' = walk /\ \A x \in DOMAIN pages' : pages'[x] \subseteq UserIds
    BY <1>6 DEF ExpirePage, NodesTypes, TypedWalk
  <1>7. TypedWalk' /\ DOMAIN walk' = {"cursor", "seen", "done"}
    <2>1. CASE NextPage /\ NodesNext
      BY <1>2, <1>3, <1>4, <2>1 DEF NodesTypes, TypedWalk
    <2>2. CASE StartWalk /\ NodesNext
      BY <1>2, <1>3, <1>5, <2>2 DEF NodesTypes, TypedWalk
    <2>3. CASE (\E prev \in DOMAIN pages : ExpirePage(prev)) /\ NodesNext
      BY <1>2, <1>3, <1>6, <2>3 DEF NodesTypes, TypedWalk
    <2>4. CASE UNCHANGED <<pages, walk>> /\ (NodesNext \/ UNCHANGED walkVars)
      BY <1>2, <1>3, <2>4 DEF NodesTypes, TypedWalk, walkVars
    <2> QED
      BY <2>1, <2>2, <2>3, <2>4 DEF NodesNext, Walks, contentVars, walkVars
  <1> QED
    BY <1>1, <1>7 DEF NodesTypes

(* Registry, cached infos, replica sets, peers, pages and walks keep to    *)
(* their types under any changes of the nodes and users.                   *)
THEOREM NodesTyped == ASSUME NodesSetting PROVE NodesSpec => []NodesTypeOK
  <1>1. NodesInit => NodesTypes
    <2>1. NodesInit => TypedWalk /\ DOMAIN walk = {"cursor", "seen", "done"}
      BY DEF NodesInit, TypedWalk, IdleWalk, Listed
    <2> QED
      BY <2>1, InitTyped DEF NodesTypes
  <1>2. NodesTypes /\ [NodesNext]_contentVars => NodesTypes'
    BY NodesTypesKept
  <1>3. NodesTypes => NodesTypeOK
    BY TypedIsTypeOK DEF NodesTypes
  <1> QED
    BY <1>1, <1>2, <1>3, PTL DEF NodesSpec

-----------------------------------------------------------------------------
(* Metadata of a block: transactions are finitely many, files are known.   *)
FilesSetting ==
  /\ \A b \in Blocks : \E n \in Nat : DOMAIN b.txs = 1..n
  /\ DOMAIN InitialFiles = AllEndpoints
  /\ \A e \in AllEndpoints : InitialFiles[e] \subseteq DOMAIN Content
  /\ MaxFetches \in Nat

Useful == {c \in DOMAIN CidType : c \in DOMAIN Content /\ GetMetadataFromJson(CidType[c], c) # {}}
FetchInv ==
  /\ block \in Blocks
  /\ DOMAIN files = AllEndpoints /\ \A e \in AllEndpoints : files[e] \subseteq DOMAIN Content
  /\ job.fetched \cup job.new \cup heard \subseteq Useful
  /\ job.requests \subseteq Cids \X AllEndpoints
  /\ applied # <<>> => job = NoJob
  /\ job.step = "idle" => job = NoJob
  /\ job.step \in {"first", "second", "decide"} => heard = job.fetched \cup job.new
  /\ job.step = "first" => job.fetched = {}
  /\ job.step = "decide" => job.new = {}
  /\ job.step \in {"idle", "first", "second", "decide", "failed"}
  /\ DOMAIN job = {"step", "worker", "fetched", "new", "requests"}
FilesInv == FetchInv /\ AppliedWithFiles /\ FailsForCause /\ RowsHold

\* The transaction that sets the type of a file is one that names it.
LEMMA LastNames ==
  ASSUME FilesSetting, block \in Blocks, NEW c \in DOMAIN CidType
  PROVE  LastNaming(Typed, c) \in Typed /\ block.txs[LastNaming(Typed, c)].cid = c
  <1> DEFINE T == {i \in Typed : block.txs[i].cid = c}
  <1>1. PICK n \in Nat : DOMAIN block.txs = 1..n
    BY DEF FilesSetting
  <1>2. Typed \subseteq 1..n
    BY <1>1 DEF Typed, Naming
  <1>3. T \in SUBSET Nat /\ IsFiniteSet(T)
    <2>1. IsFiniteSet(1..n)
      BY FS_Interval
    <2>2. T \subseteq Typed
      OBVIOUS
    <2>3. 1..n \subseteq Nat
      OBVIOUS
    <2> HIDE DEF T
    <2>4. T \subseteq 1..n
      BY <1>2, <2>2
    <2>5. IsFiniteSet(T)
      BY <2>1, <2>4, FS_Subset
    <2> QED
      BY <2>3, <2>4, <2>5
  <1>4. T # {}
    BY DEF CidType
  <1>5. PICK i \in T : \A j \in T : j <= i
    BY <1>3, <1>4, HighestIn
  <1>6. i \in Typed /\ block.txs[i].cid = c /\ \A j \in Typed : block.txs[j].cid = c => j <= i
    BY <1>5
  <1> QED
    BY <1>6 DEF LastNaming

LEMMA TypesFinite ==
  ASSUME FilesSetting, block \in Blocks
  PROVE  IsFiniteSet(DOMAIN CidType)
  <1>1. PICK n \in Nat : DOMAIN block.txs = 1..n
    BY DEF FilesSetting
  <1>2. IsFiniteSet(Typed)
    BY <1>1, FS_Interval, FS_Subset DEF Typed, Naming
  <1> DEFINE cid == [i \in Typed |-> block.txs[i].cid]
  <1>3. cid \in Surjection(Typed, {block.txs[i].cid : i \in Typed})
    BY DEF Surjection
  <1>4. IsFiniteSet({block.txs[i].cid : i \in Typed})
    BY <1>2, <1>3, FS_Surjection
  <1> QED
    BY <1>4 DEF CidType

\* Nothing misses: all files with types were fetched.
LEMMA NothingMisses ==
  ASSUME FilesSetting, FetchInv, ~Misses
  PROVE  job.fetched = DOMAIN CidType
  <1>1. job.fetched \subseteq DOMAIN CidType
    BY DEF FetchInv, Useful
  <1>2. CASE DOMAIN CidType = {}
    BY <1>1, <1>2
  <1>3. CASE Cardinality(job.fetched) = Cardinality(DOMAIN CidType)
    BY <1>1, <1>3, TypesFinite, FS_Subset DEF FetchInv
  <1> QED
    BY <1>2, <1>3 DEF Misses

LEMMA MetadataHolds ==
  ASSUME FilesSetting, FetchInv, NEW c \in job.fetched
  PROVE  /\ Metadata[c].type = CidType[c] /\ Metadata[c].type \in NamedTypes(c)
         /\ Metadata[c].data = Content[c] \cap Format[Metadata[c].type] /\ Metadata[c].data # {}
  <1>1. /\ Metadata[c].type = CidType[c]
        /\ Metadata[c].data = GetMetadataFromJson(CidType[c], c)
    BY DEF Metadata
  <1>2. c \in Useful
    BY DEF FetchInv
  <1>3. CidType[c] \in NamedTypes(c)
    BY <1>2, LastNames DEF NamedTypes, CidType, FetchInv, Useful
  <1> QED
    BY <1>1, <1>2, <1>3 DEF GetMetadataFromJson, Useful

LEMMA SameBlock ==
  ASSUME UNCHANGED block
  PROVE  /\ Useful' = Useful /\ Cids' = Cids /\ (DOMAIN CidType)' = DOMAIN CidType
         /\ Typed' = Typed
  BY DEF Useful, Cids, CidType, Typed, Naming, NamesFile, NamesFilePoa, LastNaming,
     GetMetadataFromJson

LEMMA RequestsTyped ==
  ASSUME NEW w, NEW fromReplicaSet, NEW fetched
  PROVE  Requests(w, fromReplicaSet, fetched) \subseteq Cids \X AllEndpoints
  BY DEF Requests

LEMMA BusyUnapplied == FetchInv /\ job.step # "idle" => applied = <<>>
  <1>1. NoJob.step = "idle"
    BY DEF NoJob
  <1> QED
    BY <1>1 DEF FetchInv

LEMMA NamesKept ==
  ASSUME UNCHANGED <<block, applied, heard, job>>, FilesInv
  PROVE  AppliedWithFiles' /\ FailsForCause'
  BY SameBlock DEF FilesInv, AppliedWithFiles, FailsForCause, NamedTypes, CidType

LEMMA AnsweredKeeps ==
  ASSUME FilesSetting, FilesInv, NEW c, NEW e, Answered(c, e)
  PROVE  FilesInv'
  <1>1. /\ UNCHANGED <<files, block, cid_data, applied>> /\ applied = <<>>
        /\ c \in Cids /\ e \in AllEndpoints /\ c \in DOMAIN Content
    BY BusyUnapplied DEF Answered, Attempting, FilesInv, FetchInv
  <1>2. CASE c \notin DOMAIN CidType
    <2>1. job' = [job EXCEPT !.step = "failed", !.requests = {}] /\ heard' = heard
      BY <1>2 DEF Answered
    <2>2. FailsForCause'
      BY <1>1, <1>2, SameBlock DEF FailsForCause
    <2> QED
      BY <1>1, <2>1, <2>2, SameBlock DEF FilesInv, FetchInv, AppliedWithFiles, RowsHold
  <1>3. CASE c \in Useful
    <2>1. /\ job'.step = job.step /\ job'.fetched = job.fetched /\ job'.new = job.new \cup {c}
          /\ job'.requests \subseteq job.requests /\ DOMAIN job' = DOMAIN job
          /\ heard' = heard \cup {c}
      BY <1>3 DEF Answered, Useful, FilesInv, FetchInv
    <2> QED
      BY <1>1, <1>3, <2>1, SameBlock DEF FilesInv, FetchInv, AppliedWithFiles, RowsHold,
         FailsForCause, Answered, Attempting
  <1>4. CASE c \in DOMAIN CidType /\ c \notin Useful
    <2>1. job' = [job EXCEPT !.requests = @ \ {<<c, e>>}] /\ heard' = heard
      BY <1>1, <1>4 DEF Answered, Useful
    <2> QED
      BY <1>1, <2>1, SameBlock DEF FilesInv, FetchInv, AppliedWithFiles, RowsHold,
         FailsForCause, Answered, Attempting
  <1> QED
    BY <1>2, <1>3, <1>4 DEF Useful

LEMMA AttemptsKeep ==
  ASSUME FilesSetting, FilesInv,
         \/ \E w \in Workers : FetchCidMetadata(w)
         \/ \E r \in job.requests : NotAnswered(r[1], r[2])
         \/ FirstAttemptEnds \/ SecondAttemptEnds
  PROVE  FilesInv'
  <1>1. UNCHANGED <<files, block, cid_data, applied>> /\ applied = <<>>
    BY BusyUnapplied DEF FetchCidMetadata, NotAnswered, FirstAttemptEnds, SecondAttemptEnds,
       Attempting, FilesInv
  <1>2. AppliedWithFiles' /\ RowsHold'
    BY <1>1 DEF FilesInv, AppliedWithFiles, RowsHold
  <1>3. ASSUME NEW w \in Workers, FetchCidMetadata(w) PROVE FetchInv' /\ FailsForCause'
    <2>1. /\ job' = [step |-> "first", worker |-> w, fetched |-> {}, new |-> {},
                     requests |-> Requests(w, TRUE, {})]
          /\ heard' = {}
      BY <1>3 DEF FetchCidMetadata
    <2> QED
      BY <1>1, <2>1, SameBlock, RequestsTyped DEF FilesInv, FetchInv, FailsForCause
  <1>4. ASSUME NEW r \in job.requests, NotAnswered(r[1], r[2]) PROVE FetchInv' /\ FailsForCause'
    <2>1. job' = [job EXCEPT !.requests = @ \ {<<r[1], r[2]>>}] /\ heard' = heard
      BY <1>4 DEF NotAnswered
    <2> QED
      BY <1>1, <1>4, <2>1, SameBlock DEF FilesInv, FetchInv, FailsForCause, NotAnswered, Attempting
  <1>5. ASSUME FirstAttemptEnds PROVE FetchInv' /\ FailsForCause'
    <2>1. /\ job'.fetched = job.new /\ job'.new = {} /\ job'.step \in {"second", "decide"}
          /\ job'.requests \subseteq Cids \X AllEndpoints /\ DOMAIN job' = DOMAIN job
          /\ heard' = heard
      BY <1>5, RequestsTyped DEF FirstAttemptEnds, FilesInv, FetchInv
    <2> QED
      BY <1>1, <1>5, <2>1, SameBlock DEF FilesInv, FetchInv, FailsForCause, FirstAttemptEnds
  <1>6. ASSUME SecondAttemptEnds PROVE FetchInv' /\ FailsForCause'
    <2>1. /\ job' = [job EXCEPT !.fetched = @ \cup job.new, !.new = {}, !.requests = {},
                                !.step = "decide"]
          /\ heard' = heard
      BY <1>6 DEF SecondAttemptEnds
    <2> QED
      BY <1>1, <1>6, <2>1, SameBlock DEF FilesInv, FetchInv, FailsForCause, SecondAttemptEnds
  <1> QED
    BY <1>2, <1>3, <1>4, <1>5, <1>6 DEF FilesInv

\* The fetch that failed misses a file that no answer of it held.
LEMMA MissingKeeps == ASSUME FilesSetting, FilesInv, MissingCids PROVE FilesInv'
  <1>1. /\ UNCHANGED <<files, block, cid_data, applied, heard>> /\ applied = <<>>
        /\ job' = [job EXCEPT !.step = "failed"] /\ heard = job.fetched
    BY BusyUnapplied DEF MissingCids, FilesInv, FetchInv
  <1>2. \E c \in DOMAIN CidType : c \notin heard
    BY <1>1 DEF MissingCids, Misses, FilesInv, FetchInv, Useful
  <1>3. \E i \in Typed : block.txs[i].cid \notin heard
    BY <1>2 DEF CidType
  <1>4. FailsForCause'
    BY <1>1, <1>3, SameBlock DEF FailsForCause
  <1> QED
    BY <1>1, <1>4, SameBlock DEF FilesInv, FetchInv, AppliedWithFiles, RowsHold

LEMMA ApplyKeeps == ASSUME FilesSetting, FilesInv, ApplyBlock PROVE FilesInv'
  <1>1. /\ UNCHANGED <<files, block, heard>> /\ applied' = <<Metadata>> /\ job' = NoJob
        /\ SaveCidMetadata /\ FetchInv
    BY DEF ApplyBlock, FilesInv
  <1>2. FetchInv' /\ FailsForCause'
    BY <1>1, SameBlock DEF FetchInv, NoJob, FailsForCause
  <1>3. DOMAIN Metadata = {block.txs[i].cid : i \in Typed}
    BY <1>1, NothingMisses DEF ApplyBlock, Metadata, CidType
  <1>4. AppliedWithFiles'
    <2>1. applied'[1] = Metadata
      BY <1>1
    <2>2. Metadata = [c \in job.fetched |-> Metadata[c]]
      BY DEF Metadata
    <2>3. \A c \in job.fetched : NamedTypes(c)' = NamedTypes(c)
      BY <1>1, SameBlock DEF NamedTypes
    <2>4. (\A i \in Typed' : block'.txs[i].cid = block.txs[i].cid) /\ Typed' = Typed
      BY <1>1, SameBlock
    <2>5. ASSUME NEW c \in DOMAIN Metadata
          PROVE  /\ Metadata[c].type \in NamedTypes(c)' /\ Metadata[c].data # {}
                 /\ Metadata[c].data = Content[c] \cap Format[Metadata[c].type]
      BY <1>1, <2>2, <2>3, MetadataHolds
    <2> QED
      BY <1>1, <1>3, <2>1, <2>4, <2>5 DEF AppliedWithFiles
  <1>5. RowsHold'
    BY <1>1, MetadataHolds DEF SaveCidMetadata, RowsHold, FilesInv
  <1> QED
    BY <1>2, <1>4, <1>5 DEF FilesInv

LEMMA NextBlockKeeps == ASSUME FilesInv, NextBlock PROVE FilesInv'
  <1>1. /\ UNCHANGED <<files, job, cid_data>> /\ job = NoJob /\ block' \in Blocks
        /\ applied' = <<>> /\ heard' = {}
    BY DEF NextBlock, FilesInv, FetchInv
  <1> QED
    BY <1>1 DEF FilesInv, FetchInv, NoJob, AppliedWithFiles, FailsForCause, RowsHold

LEMMA PeersKeep ==
  ASSUME FilesInv, UNCHANGED cidVars
  PROVE  FilesInv'
  <1>1. UNCHANGED <<files, block, job, cid_data, applied, heard>>
    BY DEF cidVars
  <1>2. AppliedWithFiles' /\ FailsForCause'
    BY <1>1, NamesKept
  <1> QED
    BY <1>1, <1>2, SameBlock DEF FilesInv, FetchInv, RowsHold, AllEndpoints

LEMMA ReplicateKeeps ==
  ASSUME FilesInv, NEW e \in AllEndpoints, NEW c \in DOMAIN Content, Replicate(e, c)
  PROVE  FilesInv'
  <1>1. UNCHANGED <<block, job, cid_data, applied, heard>>
    BY DEF Replicate
  <1>2. AppliedWithFiles' /\ FailsForCause'
    BY <1>1, NamesKept
  <1>3. DOMAIN files' = AllEndpoints /\ \A x \in AllEndpoints : files'[x] \subseteq DOMAIN Content
    BY DEF Replicate, FilesInv, FetchInv
  <1> QED
    BY <1>1, <1>2, <1>3, SameBlock DEF FilesInv, FetchInv, RowsHold, AllEndpoints

LEMMA FilesNext == ASSUME FilesSetting, FilesInv, [Next]_vars PROVE FilesInv'
  <1>1. CASE Fetch
    <2>1. CASE \E r \in job.requests : Answered(r[1], r[2])
      BY <2>1, AnsweredKeeps
    <2>2. CASE ApplyBlock \/ MissingCids \/ NextBlock
      BY <2>2, ApplyKeeps, MissingKeeps, NextBlockKeeps
    <2>3. CASE \/ \E w \in Workers : FetchCidMetadata(w)
               \/ \E r \in job.requests : NotAnswered(r[1], r[2])
               \/ FirstAttemptEnds \/ SecondAttemptEnds
      BY <2>3, AttemptsKeep
    <2> QED
      BY <1>1, <2>1, <2>2, <2>3 DEF Fetch
  <1>2. CASE \E e \in AllEndpoints, c \in DOMAIN Content : Replicate(e, c)
    BY <1>2, ReplicateKeeps
  <1>3. CASE UNCHANGED cidVars
    BY <1>3, PeersKeep
  <1> QED
    BY <1>1, <1>2, <1>3 DEF Next, vars

LEMMA FilesInit == FilesSetting /\ Init => FilesInv
  <1> SUFFICES ASSUME FilesSetting, Init PROVE FilesInv
    OBVIOUS
  <1>1. /\ block \in Blocks /\ files = InitialFiles /\ job = NoJob /\ applied = <<>> /\ heard = {}
        /\ DOMAIN cid_data = {}
    BY DEF Init
  <1> QED
    BY <1>1 DEF FilesInv, FetchInv, NoJob, AppliedWithFiles, FailsForCause, RowsHold, FilesSetting

(* A block is applied with the metadata of every file its entities name,   *)
(* whichever requests are answered, lost or repeated on other workers, for *)
(* any blocks, files and replica sets.                                     *)
THEOREM BlocksHaveTheirFiles == ASSUME FilesSetting PROVE Spec => []AppliedWithFiles
  <1>1. Init => FilesInv
    BY FilesInit
  <1>2. FilesInv /\ [Next]_vars => FilesInv'
    BY FilesNext
  <1>3. FilesInv => AppliedWithFiles
    BY DEF FilesInv
  <1> QED
    BY <1>1, <1>2, <1>3, PTL DEF Spec

(* A fetch fails only if a file of the block was not obtained in it, or is *)
(* of no type; rows of cid_data hold what their files say.                 *)
THEOREM FetchesFailForCause == ASSUME FilesSetting PROVE Spec => [](FailsForCause /\ RowsHold)
  <1>1. Init => FilesInv
    BY FilesInit
  <1>2. FilesInv /\ [Next]_vars => FilesInv'
    BY FilesNext
  <1>3. FilesInv => FailsForCause /\ RowsHold
    BY DEF FilesInv
  <1> QED
    BY <1>1, <1>2, <1>3, PTL DEF Spec

-----------------------------------------------------------------------------
FilesTypes == NodesTypes /\ FilesInv /\ DOMAIN cid_data \subseteq DOMAIN Content
              /\ fetches \in 0..MaxFetches

LEMMA FilesTypesKept ==
  ASSUME NodesSetting, FilesSetting, FilesTypes, [Next]_vars
  PROVE  FilesTypes'
  <1>1. FilesInv'
    BY FilesNext DEF FilesTypes
  <1>2. (fetches \in 0..MaxFetches)'
    <2>1. fetches' = fetches \/ (fetches < MaxFetches /\ fetches' = fetches + 1)
      BY DEF Next, vars, cidVars, Fetch, FetchCidMetadata, Answered,
       NotAnswered, FirstAttemptEnds, SecondAttemptEnds, MissingCids, ApplyBlock, NextBlock, Replicate
    <2> QED
      BY <2>1 DEF FilesTypes, FilesSetting
  <1>3. (DOMAIN cid_data \subseteq DOMAIN Content)'
    <2>1. SaveCidMetadata => DOMAIN cid_data' \subseteq DOMAIN Content
      BY DEF SaveCidMetadata, FilesTypes, FilesInv, FetchInv, Useful
    <2> QED
      BY <2>1 DEF FilesTypes, Next, vars, cidVars, Fetch, FetchCidMetadata, Answered,
       NotAnswered, FirstAttemptEnds, SecondAttemptEnds, MissingCids, ApplyBlock, NextBlock, Replicate
  <1>4. TypedNodes'
    <2>1. CASE PeersChange
      BY <2>1, ChangesTyped DEF FilesTypes, NodesTypes
    <2>2. CASE UNCHANGED <<registry, known, users, peers>> /\ (UNCHANGED changes \/ Change)
      <3>1. (changes \in 0..MaxChanges)'
        BY <2>2 DEF FilesTypes, NodesTypes, TypedNodes, Change, NodesSetting
      <3> QED
        BY <2>2, <3>1 DEF FilesTypes, NodesTypes, TypedNodes, TypedRegistry, TypedKnown, TypedUsers,
           TypedPeers, UserIds, AllEndpoints
    <2> QED
      BY <2>1, <2>2 DEF Next, vars, contentVars, nodeVars, Replicate
  <1>5. TypedWalk' /\ DOMAIN walk' = DOMAIN walk
    BY DEF Next, vars, contentVars, walkVars, FilesTypes, NodesTypes, TypedWalk, UserIds
  <1> QED
    BY <1>1, <1>2, <1>3, <1>4, <1>5 DEF FilesTypes, NodesTypes

(* Requests go to endpoints, for files the block names, and all that is    *)
(* fetched, heard of or saved is such a file.                              *)
THEOREM FetchesTyped == ASSUME NodesSetting, FilesSetting PROVE Spec => []TypeOK
  <1>1. Init => FilesTypes
    <2>1. NodesInit => TypedWalk /\ DOMAIN walk = {"cursor", "seen", "done"}
      BY DEF NodesInit, TypedWalk, IdleWalk, Listed
    <2> QED
      BY <2>1, InitTyped, FilesInit DEF FilesTypes, NodesTypes, Init, FilesSetting
  <1>2. FilesTypes /\ [Next]_vars => FilesTypes'
    BY FilesTypesKept
  <1>3. FilesTypes => TypeOK
    <2>1. DOMAIN CidType \subseteq Cids
      BY DEF CidType, Cids, Typed
    <2> QED
      BY <2>1, TypedIsTypeOK DEF FilesTypes, NodesTypes, TypeOK, FilesInv, FetchInv, Useful
  <1> QED
    BY <1>1, <1>2, <1>3, PTL DEF Spec

-----------------------------------------------------------------------------
(* Users have no replica set, or one of three nodes, and own the tracks.   *)
TracksSetting ==
  /\ InitialRegistry \in Seq(Served!AllEndpoints) /\ MaxPasses \in Nat
  /\ \A t \in Served!TrackIds : Owner[t] \in Served!UserIds
  /\ \A u \in Served!UserIds : InitialReplicas[u] \in Seq(DOMAIN InitialRegistry) /\ Len(InitialReplicas[u]) \in {0, 3}
  /\ \A ids \in NewReplicas : ids \in Seq(Nat) /\ Len(ids) = 3

IsReplicaSet(ids) == ids # <<>> =>
  Len(ids) = 3 /\ DOMAIN ids = 1..3 /\ \A i \in 1..3 : ids[i] \in Served!SpIds
ReplicasKnown ==
  /\ DOMAIN users = Served!UserIds /\ \A u \in Served!UserIds : IsReplicaSet(users[u].ids)
  /\ DOMAIN registry = DOMAIN InitialRegistry
  /\ \A id \in DOMAIN known : known[id] # "" => id \in Served!SpIds

Passes == [nodes : SUBSET Served!SpIds, asked : Served!SpIds \cup {0}, answer : SUBSET Served!TrackIds,
           step : {"idle", "next", "store", "update", "over"}, batches : SUBSET SUBSET Served!TrackIds,
           missed : SUBSET Served!TrackIds, calm : BOOLEAN]
PassesTyped ==
  /\ passes \in [Served!PassIds -> Passes]
  /\ DOMAIN unavailable = Served!SpIds /\ DOMAIN answers = Served!SpIds /\ DOMAIN tracks = Served!TrackIds
  /\ all \subseteq Served!TrackIds
(* What redis holds of a node, some answer of it held.                     *)
AnswersHeld ==
  /\ \A id \in Served!SpIds : unavailable[id] \subseteq answers[id]
  /\ \A p \in Served!PassIds : Served!At(p, "store") =>
       passes[p].asked \in Served!SpIds /\ passes[p].answer \subseteq answers[passes[p].asked]

(* Of the answer a pass just got, what it has still to store.              *)
ToStore(p, x) == IF Served!At(p, "store") /\ passes[p].asked = x THEN passes[p].answer ELSE {}
ToldOfAll(t) ==
  /\ Served!ReplicaSet(t) # <<>>
  /\ \A i \in 1..3 : Served!ReplicaSet(t)[i] \in DOMAIN told /\ t \in told[Served!ReplicaSet(t)[i]]
Undisturbed(p) ==
  /\ Served!Running = {p} /\ DOMAIN told \subseteq Served!SpIds
  /\ \A x \in DOMAIN told :
       /\ told[x] = unavailable[x] \cup ToStore(p, x)
       /\ told[x] \subseteq all \cup ToStore(p, x)
  /\ Served!At(p, "store") => passes[p].asked \in DOMAIN told
  /\ Served!At(p, "update") => \A t \in Served!TrackIds :
       ToldOfAll(t) => t \in passes[p].missed \cup (UNION passes[p].batches) \/ ~tracks[t].is_available
CalmInv == \A p \in Served!Running : passes[p].calm => Undisturbed(p)
TracksInv == ReplicasKnown /\ PassesTyped /\ AnswersHeld /\ CalmInv

LEMMA KnownKept ==
  ASSUME ReplicasKnown, NEW ids, UNCHANGED <<registry, users>>, known' = Served!Remembered(ids)
  PROVE  ReplicasKnown'
  BY DEF ReplicasKnown, Served!Remembered, Served!FetchNodeInfo, Served!OnChain, Served!SpIds, Served!UserIds, IsReplicaSet

LEMMA NodesKept ==
  ASSUME ReplicasKnown, UNCHANGED <<registry, users, known>>
  PROVE  ReplicasKnown' /\ Served!SpIds' = Served!SpIds /\ Served!UserIds' = Served!UserIds
         /\ \A t : Served!ReplicaSet(t)' = Served!ReplicaSet(t)
  BY DEF ReplicasKnown, Served!SpIds, Served!UserIds, IsReplicaSet, Served!ReplicaSet

LEMMA MoveKeepsKnown ==
  ASSUME TracksSetting, ReplicasKnown, NEW u \in Served!UserIds, NEW ids \in NewReplicas,
         Served!UpdateUserReplicaSet(u, ids)
  PROVE  ReplicasKnown' /\ Served!SpIds' = Served!SpIds
  <1>1. Served!SpIds' = Served!SpIds /\ Served!UserIds' = Served!UserIds /\ registry' = registry
    BY DEF Served!UpdateUserReplicaSet, Served!SpIds, Served!UserIds
  <1>2. \A id : Served!FetchNodeInfo(id) # "" => id \in Served!SpIds
    BY DEF Served!FetchNodeInfo, Served!OnChain, ReplicasKnown
  <1>3. \A id \in DOMAIN known' : known'[id] # "" => id \in Served!SpIds
    BY <1>2 DEF Served!UpdateUserReplicaSet, Served!Remembered
  <1>4. DOMAIN users' = Served!UserIds /\ \A v \in Served!UserIds : IsReplicaSet(users'[v].ids)
    <2>1. CASE Served!IsValidUserReplicaSet(ids)
      <3>1. Len(ids) = 3 /\ DOMAIN ids = 1..3
        BY LenProperties DEF TracksSetting
      <3>2. IsReplicaSet(ids)
        BY <1>2, <2>1, <3>1 DEF IsReplicaSet, Served!IsValidUserReplicaSet
      <3>3. users' = [users EXCEPT ![u] = [ids |-> ids, endpoints |-> Served!CreatorNodeEndpoint(ids)]]
        BY <2>1 DEF Served!UpdateUserReplicaSet
      <3> QED
        BY <3>2, <3>3 DEF ReplicasKnown
    <2>2. CASE ~Served!IsValidUserReplicaSet(ids)
      BY <2>2 DEF Served!UpdateUserReplicaSet, ReplicasKnown
    <2> QED
      BY <2>1, <2>2
  <1>5. \A v \in Served!UserIds : IsReplicaSet(users[v].ids)' <=> IsReplicaSet(users'[v].ids)
    BY <1>1 DEF IsReplicaSet
  <1> QED
    BY <1>1, <1>3, <1>4, <1>5 DEF ReplicasKnown

\* A step of one pass: no other one is undisturbed.
LEMMA OnlyOneCalm ==
  ASSUME CalmInv, NEW p \in Served!Running, Served!Running' \subseteq Served!Running, passes'[p].calm = passes[p].calm,
         \A q \in Served!PassIds : q # p => passes'[q] = passes[q],
         passes[p].calm /\ Undisturbed(p) => Undisturbed(p)' \/ p \notin Served!Running'
  PROVE  CalmInv'
  <1>1. ASSUME NEW q \in Served!Running', passes'[q].calm PROVE Undisturbed(q)'
    <2>1. CASE q = p
      BY <1>1, <2>1 DEF CalmInv
    <2>2. CASE q # p
      <3>1. q \in Served!PassIds /\ q \in Served!Running /\ passes[q].calm
        BY <1>1, <2>2 DEF Served!Running
      <3> QED
        BY <2>2, <3>1 DEF CalmInv, Undisturbed
    <2> QED
      BY <2>1, <2>2
  <1> QED
    BY <1>1 DEF CalmInv

LEMMA FirstOfPart == ASSUME NEW U, NEW n PROVE Served!FirstOf(U, n) \subseteq U
  BY DEF Served!FirstOf

LEMMA AskKeeps ==
  ASSUME TracksInv, NEW p \in Served!PassIds, NEW id \in passes[p].nodes, NEW answer \in SUBSET Served!TrackIds,
         Served!Ask(p, id, answer), UNCHANGED Served!nodeVars
  PROVE  TracksInv'
  <1>1. UNCHANGED <<registry, users, known>> /\ id \in Served!SpIds /\ Served!PassIds' = Served!PassIds
    BY DEF Served!nodeVars, TracksInv, PassesTyped, Passes, Served!PassIds
  <1>2. ReplicasKnown' /\ Served!SpIds' = Served!SpIds /\ \A t : Served!ReplicaSet(t)' = Served!ReplicaSet(t)
    BY <1>1, NodesKept DEF TracksInv
  <1>3. /\ passes[p].step = "next" /\ passes \in [Served!PassIds -> Passes] /\ passes[p] \in Passes
    BY DEF Served!Ask, TracksInv, PassesTyped, Served!At
  <1>4. /\ passes'[p] = [passes[p] EXCEPT !.nodes = passes[p].nodes \ {id}, !.asked = id,
                          !.answer = answer, !.step = IF answer = {} THEN "next" ELSE "store"]
        /\ passes' \in [Served!PassIds -> Passes]
        /\ passes'[p].nodes = passes[p].nodes \ {id} /\ passes'[p].asked = id
        /\ passes'[p].answer = answer
        /\ passes'[p].step = (IF answer = {} THEN "next" ELSE "store")
        /\ passes'[p].batches = passes[p].batches /\ passes'[p].calm = passes[p].calm
        /\ \A q \in Served!PassIds : q # p => passes'[q] = passes[q]
    <2>1. passes' = [passes EXCEPT ![p].nodes = @ \ {id}, ![p].asked = id, ![p].answer = answer,
                                   ![p].step = IF answer = {} THEN "next" ELSE "store"]
      BY DEF Served!Ask
    <2>2. passes[p].nodes \ {id} \in SUBSET Served!SpIds
      BY <1>3 DEF Passes
    <2> QED
      BY <1>1, <1>3, <2>1, <2>2 DEF Passes
  <1>5. PassesTyped'
    BY <1>1, <1>2, <1>4 DEF PassesTyped, Served!Ask, TracksInv, Passes
  <1>6. AnswersHeld'
    <2>1. /\ unavailable'[id] = {} /\ answers'[id] = answers[id] \cup answer
          /\ \A x \in Served!SpIds : x # id => unavailable'[x] = unavailable[x] /\ answers'[x] = answers[x]
      BY <1>1 DEF Served!Ask, TracksInv, PassesTyped
    <2>2. \A x \in Served!SpIds : answers[x] \subseteq answers'[x] /\ unavailable'[x] \subseteq answers'[x]
      BY <2>1 DEF AnswersHeld, TracksInv
    <2>3. ASSUME NEW q \in Served!PassIds, passes'[q].step = "store"
          PROVE  passes'[q].asked \in Served!SpIds /\ passes'[q].answer \subseteq answers'[passes'[q].asked]
      <3>1. CASE q = p
        BY <1>1, <1>4, <2>1, <3>1
      <3>2. CASE q # p
        BY <1>4, <2>2, <2>3, <3>2 DEF AnswersHeld, Served!At, TracksInv
      <3> QED
        BY <3>1, <3>2
    <2> QED
      BY <1>1, <1>2, <2>2, <2>3 DEF AnswersHeld, Served!At
  <1>7. Served!Running' = Served!Running
    BY <1>1, <1>3, <1>4 DEF Served!Running
  <1>8. p \in Served!Running
    BY <1>3 DEF Served!Running
  <1>9. ASSUME passes[p].calm, Undisturbed(p) PROVE Undisturbed(p)'
    <2>1. /\ DOMAIN told' = DOMAIN told \cup {id} /\ told'[id] = answer
          /\ \A x \in DOMAIN told : x # id => told'[x] = told[x]
      BY DEF Served!Ask
    <2>2. \A x : ToStore(p, x) = {}
      BY <1>3 DEF ToStore, Served!At
    <2>3. ToStore(p, id)' = answer /\ \A x : x # id => ToStore(p, x)' = {}
      BY <1>4 DEF ToStore, Served!At
    <2>4. unavailable'[id] = {} /\ \A x \in Served!SpIds : x # id => unavailable'[x] = unavailable[x]
      BY <1>1 DEF Served!Ask, TracksInv, PassesTyped
    <2>5. ~Served!At(p, "update")' /\ (Served!At(p, "store")' => passes'[p].asked \in DOMAIN told')
      BY <1>4, <2>1 DEF Served!At
    <2>6. all' = all
      BY DEF Served!Ask
    <2> QED
      BY <1>1, <1>2, <1>7, <1>9, <2>1, <2>2, <2>3, <2>4, <2>5, <2>6 DEF Undisturbed
  <1>10. CalmInv'
    BY <1>4, <1>7, <1>8, <1>9, OnlyOneCalm DEF TracksInv
  <1> QED
    BY <1>2, <1>5, <1>6, <1>10 DEF TracksInv

LEMMA StoreKeeps ==
  ASSUME TracksInv, NEW p \in Served!PassIds, Served!StoreBatch(p), UNCHANGED Served!nodeVars
  PROVE  TracksInv'
  <1>0. PICK id, batch, rest : /\ id = passes[p].asked /\ batch = Served!FirstOf(passes[p].answer, BatchSize)
                               /\ rest = passes[p].answer \ batch
    OBVIOUS
  <1>1. /\ UNCHANGED <<registry, users, known>> /\ UNCHANGED <<tracks, answers, told>>
        /\ passes \in [Served!PassIds -> Passes] /\ passes[p] \in Passes /\ passes[p].step = "store"
        /\ id \in Served!SpIds /\ batch \subseteq passes[p].answer /\ passes[p].answer \subseteq answers[id]
        /\ passes[p].answer \subseteq Served!TrackIds
    BY <1>0, FirstOfPart DEF Served!nodeVars, Served!StoreBatch, TracksInv, PassesTyped, AnswersHeld, Served!At, Passes
  <1>2. ReplicasKnown' /\ Served!SpIds' = Served!SpIds /\ \A t : Served!ReplicaSet(t)' = Served!ReplicaSet(t)
    BY <1>1, NodesKept DEF TracksInv
  <1>3. /\ unavailable'[id] = unavailable[id] \cup batch /\ DOMAIN unavailable' = Served!SpIds
        /\ \A x \in Served!SpIds : x # id => unavailable'[x] = unavailable[x]
        /\ all' = all \cup batch
    BY <1>0, <1>1 DEF Served!StoreBatch, TracksInv, PassesTyped
  <1>4. /\ passes' \in [Served!PassIds -> Passes]
        /\ passes'[p].answer = rest /\ passes'[p].step = IF rest = {} THEN "next" ELSE "store"
        /\ passes'[p].asked = id /\ passes'[p].calm = passes[p].calm
        /\ \A q \in Served!PassIds : q # p => passes'[q] = passes[q]
    <2>1. passes' = [passes EXCEPT ![p].answer = rest, ![p].step = IF rest = {} THEN "next" ELSE @]
      BY <1>0 DEF Served!StoreBatch
    <2>2. rest \in SUBSET Served!TrackIds
      BY <1>0, <1>1
    <2> QED
      BY <1>0, <1>1, <2>1, <2>2 DEF Passes
  <1>5. PassesTyped'
    BY <1>1, <1>2, <1>3, <1>4 DEF PassesTyped, TracksInv, Passes
  <1>6. AnswersHeld'
    <2>1. \A x \in Served!SpIds : unavailable'[x] \subseteq answers'[x]
      BY <1>1, <1>3 DEF AnswersHeld, TracksInv
    <2>2. ASSUME NEW q \in Served!PassIds, passes'[q].step = "store"
          PROVE  passes'[q].asked \in Served!SpIds /\ passes'[q].answer \subseteq answers'[passes'[q].asked]
      <3>1. CASE q = p
        BY <1>0, <1>1, <1>4, <3>1
      <3>2. CASE q # p
        BY <1>1, <1>4, <2>2, <3>2 DEF AnswersHeld, Served!At, TracksInv
      <3> QED
        BY <3>1, <3>2
    <2> QED
      BY <1>2, <2>1, <2>2 DEF AnswersHeld, Served!At
  <1>7. Served!Running' = Served!Running /\ p \in Served!Running
    BY <1>1, <1>4 DEF Served!Running
  <1>8. ASSUME Undisturbed(p) PROVE Undisturbed(p)'
    <2>1. ToStore(p, id) = passes[p].answer /\ \A x : x # id => ToStore(p, x) = {}
      BY <1>0, <1>1 DEF ToStore, Served!At
    <2>2. ToStore(p, id)' = rest /\ \A x : x # id => ToStore(p, x)' = {}
      BY <1>4 DEF ToStore, Served!At
    <2>3. passes[p].answer = batch \cup rest
      BY <1>0, <1>1
    <2>4. /\ told'[id] = unavailable'[id] \cup rest /\ told'[id] \subseteq all' \cup rest
          /\ id \in DOMAIN told
      <3>1. id \in DOMAIN told
        BY <1>0, <1>1, <1>8 DEF Undisturbed, Served!At
      <3>2. /\ told[id] = unavailable[id] \cup passes[p].answer
            /\ told[id] \subseteq all \cup passes[p].answer
        BY <1>8, <2>1, <3>1 DEF Undisturbed
      <3> QED
        BY <1>1, <1>3, <2>3, <3>1, <3>2
    <2>5. ASSUME NEW x \in DOMAIN told, x # id
          PROVE  told'[x] = unavailable'[x] /\ told'[x] \subseteq all'
      <3>1. /\ x \in Served!SpIds
            /\ told[x] = unavailable[x] \cup {} /\ told[x] \subseteq all \cup {}
        BY <1>8, <2>1, <2>5 DEF Undisturbed
      <3>2. told'[x] = told[x] /\ unavailable'[x] = unavailable[x] /\ all \subseteq all'
        BY <1>1, <1>3, <2>5, <3>1
      <3> QED
        BY <3>1, <3>2
    <2>6. ~Served!At(p, "update")' /\ passes'[p].asked \in DOMAIN told'
      BY <1>1, <1>4, <2>4 DEF Served!At
    <2> QED
      BY <1>1, <1>2, <1>7, <1>8, <2>2, <2>4, <2>5, <2>6 DEF Undisturbed
  <1>9. CalmInv'
    BY <1>4, <1>7, <1>8, OnlyOneCalm DEF TracksInv
  <1> QED
    BY <1>2, <1>5, <1>6, <1>9 DEF TracksInv

LEMMA ReadAllKeeps ==
  ASSUME TracksInv, NEW p \in Served!PassIds, Served!ReadAll(p), UNCHANGED Served!nodeVars
  PROVE  TracksInv'
  <1>1. /\ UNCHANGED <<registry, users, known>> /\ UNCHANGED <<tracks, answers, told, unavailable, all>>
        /\ passes \in [Served!PassIds -> Passes] /\ passes[p] \in Passes /\ passes[p].step = "next"
    BY DEF Served!nodeVars, Served!ReadAll, TracksInv, PassesTyped, Served!At
  <1>2. ReplicasKnown' /\ Served!SpIds' = Served!SpIds /\ \A t : Served!ReplicaSet(t)' = Served!ReplicaSet(t)
    BY <1>1, NodesKept DEF TracksInv
  <1>3. PICK batches \in Served!Batches(all) :
          passes' = [passes EXCEPT ![p].step = "update", ![p].batches = batches]
    BY DEF Served!ReadAll
  <1>4. batches \in SUBSET SUBSET Served!TrackIds /\ UNION batches = all
    BY <1>3 DEF Served!Batches, TracksInv, PassesTyped
  <1>5. /\ passes' \in [Served!PassIds -> Passes]
        /\ passes'[p].step = "update" /\ passes'[p].batches = batches
        /\ passes'[p].calm = passes[p].calm
        /\ \A q \in Served!PassIds : q # p => passes'[q] = passes[q]
    BY <1>1, <1>3, <1>4 DEF Passes
  <1>6. PassesTyped'
    BY <1>1, <1>2, <1>5 DEF PassesTyped, TracksInv, Passes
  <1>7. AnswersHeld'
    BY <1>1, <1>2, <1>5 DEF AnswersHeld, Served!At, TracksInv
  <1>8. Served!Running' = Served!Running /\ p \in Served!Running
    BY <1>1, <1>5 DEF Served!Running
  <1>9. ASSUME Undisturbed(p) PROVE Undisturbed(p)'
    <2>1. \A x : ToStore(p, x) = {} /\ ToStore(p, x)' = {}
      BY <1>1, <1>5 DEF ToStore, Served!At
    <2>2. \A t \in Served!TrackIds : ToldOfAll(t)' => t \in UNION passes'[p].batches
      BY <1>1, <1>2, <1>4, <1>5, <1>9, <2>1 DEF ToldOfAll, Undisturbed
    <2> QED
      BY <1>1, <1>2, <1>5, <1>8, <1>9, <2>1, <2>2 DEF Undisturbed, Served!At
  <1>10. CalmInv'
    BY <1>5, <1>8, <1>9, OnlyOneCalm DEF TracksInv
  <1> QED
    BY <1>2, <1>6, <1>7, <1>10 DEF TracksInv

\* Of a track that all of its replica set told a calm pass, no node serves.
LEMMA ToldIsUnavailable ==
  ASSUME TracksSetting, TracksInv, NEW p \in Served!PassIds, Undisturbed(p), Served!At(p, "update"),
         NEW t \in Served!TrackIds, ToldOfAll(t)
  PROVE  ~Served!CheckTrackIsAvailable(t)
  <1>1. DOMAIN Served!ReplicaSet(t) = 1..3
    BY DEF TracksSetting, TracksInv, ReplicasKnown, IsReplicaSet, Served!ReplicaSet, ToldOfAll
  <1>2. \A x : ToStore(p, x) = {}
    BY DEF ToStore, Served!At
  <1> QED
    BY <1>1, <1>2 DEF Served!CheckTrackIsAvailable, ToldOfAll, Undisturbed

LEMMA UpdateKeeps ==
  ASSUME TracksSetting, TracksInv, NEW p \in Served!PassIds, Served!UpdateBatch(p), UNCHANGED Served!nodeVars
  PROVE  TracksInv'
  <1>1. /\ UNCHANGED <<registry, users, known>> /\ UNCHANGED <<answers, told, unavailable, all>>
        /\ passes \in [Served!PassIds -> Passes] /\ passes[p] \in Passes /\ passes[p].step = "update"
        /\ DOMAIN tracks' = Served!TrackIds
    BY DEF Served!nodeVars, Served!UpdateBatch, TracksInv, PassesTyped, Served!At
  <1>2. ReplicasKnown' /\ Served!SpIds' = Served!SpIds /\ \A t : Served!ReplicaSet(t)' = Served!ReplicaSet(t)
    BY <1>1, NodesKept DEF TracksInv
  <1>3. PICK batch \in passes[p].batches :
          /\ tracks' = [t \in Served!TrackIds |->
               IF t \in batch /\ ~Served!CheckTrackIsAvailable(t)
               THEN [is_available |-> FALSE, is_delete |-> TRUE] ELSE tracks[t]]
          /\ passes' = [passes EXCEPT ![p].batches = @ \ {batch}]
    BY DEF Served!UpdateBatch
  <1>4. /\ passes' \in [Served!PassIds -> Passes]
        /\ passes'[p].step = "update" /\ passes'[p].batches = passes[p].batches \ {batch}
        /\ passes'[p].calm = passes[p].calm /\ passes'[p].missed = passes[p].missed
        /\ \A q \in Served!PassIds : q # p => passes'[q] = passes[q]
    <2>1. passes[p].batches \ {batch} \in SUBSET SUBSET Served!TrackIds
      BY <1>1 DEF Passes
    <2> QED
      BY <1>1, <1>3, <2>1 DEF Passes
  <1>5. PassesTyped'
    BY <1>1, <1>2, <1>4 DEF PassesTyped, TracksInv, Passes
  <1>6. AnswersHeld'
    BY <1>1, <1>2, <1>4 DEF AnswersHeld, Served!At, TracksInv
  <1>7. Served!Running' = Served!Running /\ p \in Served!Running
    BY <1>1, <1>4 DEF Served!Running
  <1>8. ASSUME Undisturbed(p) PROVE Undisturbed(p)'
    <2>1. \A x : ToStore(p, x) = {} /\ ToStore(p, x)' = {}
      BY <1>1, <1>4 DEF ToStore, Served!At
    <2>2. ASSUME NEW t \in Served!TrackIds, ToldOfAll(t)'
          PROVE  t \in passes'[p].missed \cup (UNION passes'[p].batches) \/ ~tracks'[t].is_available
      <3>1. ToldOfAll(t)
        BY <1>1, <1>2, <2>2 DEF ToldOfAll
      <3>2. t \in passes[p].missed \cup (UNION passes[p].batches) \/ ~tracks[t].is_available
        BY <1>1, <1>8, <3>1 DEF Undisturbed, Served!At
      <3>3. ~Served!CheckTrackIsAvailable(t)
        BY <1>1, <1>8, <3>1, ToldIsUnavailable DEF Served!At
      <3>4. t \in batch => ~tracks'[t].is_available
        BY <1>3, <3>3
      <3>5. ~tracks[t].is_available => ~tracks'[t].is_available
        BY <1>3
      <3> QED
        BY <1>4, <3>2, <3>4, <3>5
    <2> QED
      BY <1>1, <1>2, <1>4, <1>7, <1>8, <2>1, <2>2 DEF Undisturbed, Served!At
  <1>9. CalmInv'
    BY <1>4, <1>7, <1>8, OnlyOneCalm DEF TracksInv
  <1> QED
    BY <1>2, <1>5, <1>6, <1>9 DEF TracksInv

LEMMA FailBatchKeeps ==
  ASSUME TracksInv, NEW p \in Served!PassIds, Served!FailBatch(p), UNCHANGED Served!nodeVars
  PROVE  TracksInv'
  <1>1. /\ UNCHANGED <<registry, users, known>> /\ UNCHANGED <<tracks, answers, told, unavailable, all>>
        /\ passes \in [Served!PassIds -> Passes] /\ passes[p] \in Passes /\ passes[p].step = "update"
    BY DEF Served!nodeVars, Served!FailBatch, TracksInv, PassesTyped, Served!At
  <1>2. ReplicasKnown' /\ Served!SpIds' = Served!SpIds /\ \A t : Served!ReplicaSet(t)' = Served!ReplicaSet(t)
    BY <1>1, NodesKept DEF TracksInv
  <1>3. PICK batch \in passes[p].batches :
          passes' = [passes EXCEPT ![p].batches = @ \ {batch}, ![p].missed = @ \cup batch]
    BY DEF Served!FailBatch
  <1>4. /\ passes' \in [Served!PassIds -> Passes]
        /\ passes'[p].step = "update" /\ passes'[p].batches = passes[p].batches \ {batch}
        /\ passes'[p].calm = passes[p].calm /\ passes'[p].missed = passes[p].missed \cup batch
        /\ \A q \in Served!PassIds : q # p => passes'[q] = passes[q]
    <2>1. /\ passes[p].batches \ {batch} \in SUBSET SUBSET Served!TrackIds
          /\ passes[p].missed \cup batch \in SUBSET Served!TrackIds
      BY <1>1 DEF Passes
    <2> QED
      BY <1>1, <1>3, <2>1 DEF Passes
  <1>5. PassesTyped'
    BY <1>1, <1>2, <1>4 DEF PassesTyped, TracksInv, Passes
  <1>6. AnswersHeld'
    BY <1>1, <1>2, <1>4 DEF AnswersHeld, Served!At, TracksInv
  <1>7. Served!Running' = Served!Running /\ p \in Served!Running
    BY <1>1, <1>4 DEF Served!Running
  <1>8. ASSUME Undisturbed(p) PROVE Undisturbed(p)'
    <2>1. \A x : ToStore(p, x) = {} /\ ToStore(p, x)' = {}
      BY <1>1, <1>4 DEF ToStore, Served!At
    <2>2. ASSUME NEW t \in Served!TrackIds, ToldOfAll(t)'
          PROVE  t \in passes'[p].missed \cup (UNION passes'[p].batches) \/ ~tracks'[t].is_available
      <3>1. ToldOfAll(t)
        BY <1>1, <1>2, <2>2 DEF ToldOfAll
      <3>2. t \in passes[p].missed \cup (UNION passes[p].batches) \/ ~tracks[t].is_available
        BY <1>1, <1>8, <3>1 DEF Undisturbed, Served!At
      <3> QED
        BY <1>1, <1>4, <3>2
    <2> QED
      BY <1>1, <1>2, <1>4, <1>7, <1>8, <2>1, <2>2 DEF Undisturbed, Served!At
  <1>9. CalmInv'
    BY <1>4, <1>7, <1>8, OnlyOneCalm DEF TracksInv
  <1> QED
    BY <1>2, <1>5, <1>6, <1>9 DEF TracksInv

LEMMA EndKeeps ==
  ASSUME TracksInv, NEW p \in Served!PassIds, Served!Finish(p) \/ Served!Fail(p), UNCHANGED Served!nodeVars
  PROVE  TracksInv'
  <1>1. /\ UNCHANGED <<registry, users, known>> /\ UNCHANGED <<tracks, answers, told, unavailable, all>>
        /\ passes \in [Served!PassIds -> Passes] /\ p \in Served!Running
        /\ passes' = [passes EXCEPT ![p].step = "over"]
    BY DEF Served!nodeVars, Served!Finish, Served!Fail, Served!Running, TracksInv, PassesTyped, Served!At
  <1>2. ReplicasKnown' /\ Served!SpIds' = Served!SpIds /\ \A t : Served!ReplicaSet(t)' = Served!ReplicaSet(t)
    BY <1>1, NodesKept DEF TracksInv
  <1>3. /\ passes' \in [Served!PassIds -> Passes]
        /\ passes'[p].step = "over" /\ passes'[p].calm = passes[p].calm
        /\ \A q \in Served!PassIds : q # p => passes'[q] = passes[q]
    BY <1>1 DEF Passes
  <1>4. PassesTyped' /\ AnswersHeld'
    BY <1>1, <1>2, <1>3 DEF PassesTyped, AnswersHeld, Served!At, TracksInv, Passes
  <1>5. Served!Running' = Served!Running \ {p} /\ p \in Served!Running
    BY <1>1, <1>3 DEF Served!Running
  <1>6. CalmInv'
    BY <1>3, <1>5, OnlyOneCalm DEF TracksInv
  <1> QED
    BY <1>2, <1>4, <1>6 DEF TracksInv

LEMMA CalmSet ==
  ASSUME NEW r \in Passes, NEW calm \in BOOLEAN, NEW s, s = [r EXCEPT !.calm = calm]
  PROVE  /\ s \in Passes /\ s.calm = calm
         /\ s.step = r.step /\ s.asked = r.asked /\ s.answer = r.answer /\ s.nodes = r.nodes
         /\ s.batches = r.batches /\ s.missed = r.missed
  BY DEF Passes

LEMMA StartKeeps ==
  ASSUME TracksSetting, TracksInv, NEW p \in Served!PassIds, NEW failing, Served!Start(p, failing)
  PROVE  TracksInv'
  <1>1. /\ UNCHANGED <<registry, users>> /\ known' = Served!Remembered(Served!SpIds \ failing)
        /\ UNCHANGED <<tracks, answers, unavailable>> /\ all' = {} /\ DOMAIN told' = {}
        /\ passes \in [Served!PassIds -> Passes] /\ passes[p].step = "idle" /\ Served!PassIds' = Served!PassIds
        /\ passes' = [q \in Served!PassIds |->
             IF q = p THEN [Served!NotAsked EXCEPT !.nodes = Served!FetchAllRegistered(failing), !.step = "next",
                                            !.calm = Served!Running = {}]
             ELSE [passes[q] EXCEPT !.calm = @ /\ q \notin Served!Running]]
    BY DEF Served!Start, TracksInv, PassesTyped, Served!At, Served!PassIds
  <1>2. ReplicasKnown'
    BY <1>1, KnownKept DEF TracksInv
  <1>3. Served!SpIds' = Served!SpIds
    BY <1>1 DEF Served!SpIds
  <1>4. Served!FetchAllRegistered(failing) \subseteq Served!SpIds
    BY DEF Served!FetchAllRegistered
  <1>5. /\ passes'[p].nodes = Served!FetchAllRegistered(failing) /\ passes'[p].step = "next"
        /\ passes'[p].calm = (Served!Running = {}) /\ passes'[p] \in Passes
    BY <1>1, <1>4 DEF Served!NotAsked, Passes
  <1>6. ASSUME NEW q \in Served!PassIds, q # p
        PROVE  /\ passes'[q].step = passes[q].step /\ passes'[q].asked = passes[q].asked
               /\ passes'[q].answer = passes[q].answer /\ passes'[q].nodes = passes[q].nodes
               /\ (passes'[q].calm => q \notin Served!Running) /\ passes'[q] \in Passes
    <2>1. passes[q] \in Passes
      BY <1>1
    <2>2. PICK calm \in BOOLEAN : calm = (passes[q].calm /\ q \notin Served!Running)
      OBVIOUS
    <2>3. passes'[q] = [passes[q] EXCEPT !.calm = calm]
      BY <1>1, <1>6, <2>2
    <2>4. passes'[q].calm = calm
      BY <2>1, <2>3, CalmSet
    <2>5. calm => q \notin Served!Running
      BY <2>2, Zenon
    <2> QED
      BY <2>1, <2>3, <2>4, <2>5, CalmSet
  <1>7. passes' \in [Served!PassIds -> Passes]
    BY <1>1, <1>5, <1>6
  <1>8. PassesTyped'
    BY <1>1, <1>3, <1>7 DEF PassesTyped, TracksInv, Passes
  <1>9. AnswersHeld'
    <2>1. ASSUME NEW q \in Served!PassIds, passes'[q].step = "store"
          PROVE  passes'[q].asked \in Served!SpIds /\ passes'[q].answer \subseteq answers[passes'[q].asked]
      <3>1. q # p
        BY <1>5, <2>1
      <3> QED
        BY <1>6, <2>1, <3>1 DEF AnswersHeld, Served!At, TracksInv
    <2> QED
      BY <1>1, <1>3, <2>1 DEF AnswersHeld, Served!At, TracksInv
  <1>10. Served!Running' = Served!Running \cup {p} /\ p \notin Served!Running
    BY <1>1, <1>5, <1>6 DEF Served!Running
  <1>11. CalmInv'
    <2>1. ASSUME NEW q \in Served!Running', passes'[q].calm PROVE q = p /\ Served!Running = {}
      BY <1>5, <1>6, <1>10, <2>1 DEF Served!Running
    <2>2. Served!Running = {} => Undisturbed(p)'
      BY <1>1, <1>5, <1>10 DEF Undisturbed, Served!At
    <2> QED
      BY <2>1, <2>2 DEF CalmInv
  <1> QED
    BY <1>2, <1>8, <1>9, <1>11 DEF TracksInv

\* Passes and what they read are the same.
LEMMA OthersKeep ==
  ASSUME TracksInv, ReplicasKnown', UNCHANGED <<tracks, unavailable, all, answers, told>>,
         \/ passes' = passes /\ users' = users
         \/ passes' = [p \in Served!PassIds |-> [passes[p] EXCEPT !.calm = @ /\ p \notin Served!Running]],
         Served!SpIds' = Served!SpIds
  PROVE  TracksInv'
  <1>1. passes \in [Served!PassIds -> Passes] /\ Served!PassIds' = Served!PassIds
    BY DEF TracksInv, PassesTyped, Served!PassIds
  <1>3. ASSUME NEW q \in Served!PassIds
        PROVE  /\ passes'[q].step = passes[q].step /\ passes'[q].asked = passes[q].asked
               /\ passes'[q].answer = passes[q].answer /\ passes'[q].batches = passes[q].batches
               /\ passes'[q] \in Passes
    <2>1. CASE passes' = passes
      BY <1>1, <2>1
    <2>2. CASE passes' = [p \in Served!PassIds |-> [passes[p] EXCEPT !.calm = @ /\ p \notin Served!Running]]
      <3>1. PICK calm \in BOOLEAN : calm = (passes[q].calm /\ q \notin Served!Running)
        OBVIOUS
      <3>2. passes'[q] = [passes[q] EXCEPT !.calm = calm]
        BY <2>2, <3>1
      <3> QED
        BY <1>1, <3>2, CalmSet
    <2> QED
      BY <2>1, <2>2
  <1>2. passes' \in [Served!PassIds -> Passes]
    <2>1. DOMAIN passes' = Served!PassIds /\ passes' = [q \in Served!PassIds |-> passes'[q]]
      BY <1>1
    <2> QED
      BY <1>3, <2>1
  <1>4. PassesTyped' /\ AnswersHeld'
    BY <1>1, <1>2, <1>3 DEF PassesTyped, AnswersHeld, Served!At, TracksInv, Passes
  <1>5. Served!Running' = Served!Running
    BY <1>1, <1>3 DEF Served!Running
  <1>6. CalmInv'
    <2>1. CASE passes' = passes /\ users' = users
      BY <1>1, <1>5, <2>1 DEF CalmInv, Undisturbed, ToStore, ToldOfAll, Served!ReplicaSet, Served!At, TracksInv, Served!Running
    <2>2. CASE passes' = [p \in Served!PassIds |-> [passes[p] EXCEPT !.calm = @ /\ p \notin Served!Running]]
      <3>1. \A q \in Served!Running : q \in Served!PassIds /\ ~passes'[q].calm
        BY <1>1, <2>2 DEF Passes, Served!Running
      <3> QED
        BY <1>5, <3>1 DEF CalmInv
    <2> QED
      BY <2>1, <2>2
  <1> QED
    BY <1>4, <1>6 DEF TracksInv

LEMMA TracksNext == ASSUME TracksSetting, TracksInv, [Served!Next]_Served!vars PROVE TracksInv'
  <1>1. CASE \E p \in Served!PassIds, failing \in Served!Failing : Served!Start(p, failing)
    BY <1>1, StartKeeps
  <1>2. CASE \E p \in Served!PassIds : Served!Pass(p) /\ UNCHANGED Served!nodeVars
    BY <1>2, AskKeeps, StoreKeeps, ReadAllKeeps, UpdateKeeps, FailBatchKeeps, EndKeeps DEF Served!Pass
  <1>3. CASE UNCHANGED <<tracks, unavailable, all, answers, told, passes, users, registry, known>>
    <2>1. ReplicasKnown' /\ Served!SpIds' = Served!SpIds
      BY <1>3, NodesKept DEF TracksInv
    <2> QED
      BY <1>3, <2>1, OthersKeep
  <1>4. CASE \E id \in Served!SpIds : Served!Deregister(id) /\ UNCHANGED Served!availVars
    <2>1. UNCHANGED <<tracks, unavailable, all, answers, told, passes, users, known>>
          /\ Served!SpIds' = Served!SpIds
      BY <1>4 DEF Served!Deregister, Served!availVars, Served!SpIds
    <2>2. ReplicasKnown'
      BY <2>1 DEF ReplicasKnown, Served!SpIds, Served!UserIds, IsReplicaSet, TracksInv
    <2> QED
      BY <2>1, <2>2, OthersKeep
  <1>5. CASE (\E id \in DOMAIN known : Served!ExpireInfo(id)) /\ UNCHANGED Served!availVars
    <2>1. UNCHANGED <<tracks, unavailable, all, answers, told, passes, users>> /\ Served!SpIds' = Served!SpIds
          /\ registry' = registry
      BY <1>5 DEF Served!ExpireInfo, Served!availVars, Served!SpIds
    <2>2. ReplicasKnown'
      BY <1>5, <2>1 DEF ReplicasKnown, Served!SpIds, Served!UserIds, IsReplicaSet, TracksInv, Served!ExpireInfo
    <2> QED
      BY <2>1, <2>2, OthersKeep
  <1>6. CASE Served!UsersMove
    <2>1. ReplicasKnown' /\ Served!SpIds' = Served!SpIds
      BY <1>6, MoveKeepsKnown DEF Served!UsersMove, TracksInv
    <2> QED
      BY <1>6, <2>1, OthersKeep DEF Served!UsersMove
  <1>7. CASE Served!LockExpires /\ UNCHANGED Served!nodeVars
    BY <1>3, <1>7 DEF Served!LockExpires, Served!nodeVars
  <1>8. CASE \E id \in Served!SpIds, T \in SUBSET Served!TrackIds :
               Served!SetBlacklist(id, T) /\ UNCHANGED <<registry, known, users, peers>>
    BY <1>3, <1>8 DEF Served!SetBlacklist
  <1>9. CASE UNCHANGED Served!vars
    BY <1>3, <1>9 DEF Served!vars, Served!contentVars, Served!nodeVars, Served!availVars
  <1> QED
    BY <1>1, <1>2, <1>4, <1>5, <1>6, <1>7, <1>8, <1>9 DEF Served!Next

LEMMA TracksInit == TracksSetting /\ Served!Init => TracksInv
  <1> SUFFICES ASSUME TracksSetting, Served!Init PROVE TracksInv
    OBVIOUS
  <1>1. ReplicasKnown
    <2>1. DOMAIN users = Served!UserIds /\ registry = InitialRegistry /\ DOMAIN known = {}
      BY DEF Served!Init, Served!NodesInit
    <2>2. ASSUME NEW u \in Served!UserIds PROVE IsReplicaSet(users[u].ids)
      <3>1. users[u].ids = InitialReplicas[u]
        BY DEF Served!Init, Served!NodesInit
      <3>2. InitialReplicas[u] \in [1..Len(InitialReplicas[u]) -> DOMAIN InitialRegistry]
        BY LenProperties DEF TracksSetting
      <3>3. InitialReplicas[u] # <<>> => Len(InitialReplicas[u]) = 3
        BY EmptySeq DEF TracksSetting
      <3> QED
        BY <2>1, <3>1, <3>2, <3>3 DEF IsReplicaSet, Served!SpIds
    <2> QED
      BY <2>1, <2>2 DEF ReplicasKnown
  <1>2. /\ passes = [p \in Served!PassIds |-> Served!NotAsked] /\ all = {}
        /\ unavailable = [id \in Served!SpIds |-> {}] /\ answers = [id \in Served!SpIds |-> {}]
        /\ DOMAIN tracks = Served!TrackIds
    BY DEF Served!Init
  <1>3. PassesTyped
    BY <1>2 DEF PassesTyped, Passes, Served!NotAsked
  <1>4. AnswersHeld /\ Served!Running = {}
    BY <1>2 DEF AnswersHeld, Served!At, Served!NotAsked, Served!Running
  <1> QED
    BY <1>1, <1>3, <1>4 DEF TracksInv, CalmInv

\* Only the check of a batch takes tracks down.
LEMMA OnlyUpdateTakesDown ==
  ASSUME [Served!Next]_Served!vars, tracks' # tracks
  PROVE  \E p \in Served!PassIds : Served!UpdateBatch(p)
  <1>1. ASSUME NEW p \in Served!PassIds, Served!Pass(p), ~Served!UpdateBatch(p) PROVE tracks' = tracks
    BY <1>1 DEF Served!Pass, Served!Ask, Served!StoreBatch, Served!ReadAll, Served!FailBatch, Served!Finish, Served!Fail
  <1>2. ASSUME NEW p \in Served!PassIds, NEW failing, Served!Start(p, failing) PROVE tracks' = tracks
    BY <1>2 DEF Served!Start
  <1>3. Served!LockExpires \/ Served!UsersMove \/ UNCHANGED Served!vars \/ UNCHANGED Served!availVars => tracks' = tracks
    BY DEF Served!LockExpires, Served!UsersMove, Served!vars, Served!availVars
  <1>4. ASSUME NEW id, NEW T, Served!SetBlacklist(id, T) PROVE tracks' = tracks
    BY <1>4 DEF Served!SetBlacklist
  <1> QED
    BY <1>1, <1>2, <1>3, <1>4 DEF Served!Next

LEMMA TakenForCause ==
  ASSUME TracksSetting, TracksInv, [Served!Next]_Served!vars
  PROVE  Served!TakenDownForCause
  <1> SUFFICES ASSUME NEW t \in Served!TrackIds, tracks[t].is_available, ~tracks'[t].is_available
               PROVE  /\ Len(Served!ReplicaSet(t)) = 3
                      /\ \A i \in 1..3 : t \in answers[Served!ReplicaSet(t)[i]]
                      /\ \A p \in Served!Running : passes'[p] # passes[p] /\ passes[p].calm =>
                           \A i \in 1..3 : Served!ReplicaSet(t)[i] \in DOMAIN told => t \in told[Served!ReplicaSet(t)[i]]
    BY DEF Served!TakenDownForCause
  <1>1. PICK p \in Served!PassIds : Served!UpdateBatch(p)
    BY OnlyUpdateTakesDown
  <1>2. ~Served!CheckTrackIsAvailable(t) /\ Served!At(p, "update") /\ \A q \in Served!PassIds : q # p => passes'[q] = passes[q]
    BY <1>1 DEF Served!UpdateBatch, TracksInv, PassesTyped
  <1>3. IsReplicaSet(Served!ReplicaSet(t)) /\ Served!ReplicaSet(t) # <<>>
    BY <1>2 DEF TracksSetting, TracksInv, ReplicasKnown, Served!ReplicaSet, Served!CheckTrackIsAvailable
  <1>4. \A i \in 1..3 : t \in unavailable[Served!ReplicaSet(t)[i]] /\ Served!ReplicaSet(t)[i] \in Served!SpIds
    BY <1>2, <1>3 DEF IsReplicaSet, Served!CheckTrackIsAvailable
  <1>5. \A i \in 1..3 : t \in answers[Served!ReplicaSet(t)[i]]
    BY <1>4 DEF TracksInv, AnswersHeld
  <1>6. ASSUME NEW q \in Served!Running, passes'[q] # passes[q], passes[q].calm, NEW i \in 1..3,
               Served!ReplicaSet(t)[i] \in DOMAIN told
        PROVE  t \in told[Served!ReplicaSet(t)[i]]
    <2>1. q = p
      BY <1>2, <1>6 DEF Served!Running
    <2>2. Undisturbed(p)
      BY <1>6, <2>1 DEF TracksInv, CalmInv
    <2> QED
      BY <1>4, <1>6, <2>2 DEF Undisturbed
  <1> QED
    BY <1>3, <1>5, <1>6 DEF IsReplicaSet

LEMMA TakenByTheEnd ==
  ASSUME TracksInv
  PROVE  Served!AllTakenDown
  <1> SUFFICES ASSUME NEW p \in Served!PassIds, Served!At(p, "update"), passes[p].batches = {}, passes[p].calm,
                      NEW t \in Served!TrackIds \ passes[p].missed, ToldOfAll(t)
               PROVE  ~tracks[t].is_available
    BY DEF Served!AllTakenDown, ToldOfAll
  <1>1. Undisturbed(p)
    BY DEF TracksInv, CalmInv, Served!Running, Served!At
  <1> QED
    BY <1>1 DEF Undisturbed

(* A track is taken down only if every node of its owner's replica set has *)
(* said that it does not serve it, and a node that an undisturbed pass     *)
(* asked, in its answer to that pass: for any number of passes, nodes and  *)
(* tracks, batches of any size, batches and tasks that fail, locks that    *)
(* expire at any time.                                                     *)
THEOREM TracksTakenDownForCause == ASSUME TracksSetting PROVE Served!Spec => [][Served!TakenDownForCause]_Served!vars
  <1>1. Served!Init => TracksInv
    BY TracksInit
  <1>2. TracksInv /\ [Served!Next]_Served!vars => TracksInv'
    BY TracksNext
  <1>3. TracksInv /\ [Served!Next]_Served!vars => Served!TakenDownForCause
    BY TakenForCause
  <1> QED
    BY <1>1, <1>2, <1>3, PTL DEF Served!Spec

(* When an undisturbed pass has done its batches, every track that the     *)
(* whole replica set of its owner told it does not serve is down, but for  *)
(* those of batches that failed.                                           *)
THEOREM PassesTakeDownAll == ASSUME TracksSetting PROVE Served!Spec => [][Served!AllTakenDown]_Served!vars
  <1>1. Served!Init => TracksInv
    BY TracksInit
  <1>2. TracksInv /\ [Served!Next]_Served!vars => TracksInv'
    BY TracksNext
  <1>3. TracksInv => Served!AllTakenDown
    BY TakenByTheEnd
  <1> QED
    BY <1>1, <1>2, <1>3, PTL DEF Served!Spec

-----------------------------------------------------------------------------
\* Whoever meets the conditions of a track now is on record.
EarnedInv == Gated!MetNow \subseteq met /\ Gated!StreamsAreEarned

\* The conditions of a track as the node checks them when a user asks.
LEMMA CheckedMeansMet ==
  ASSUME NEW u \in Users, NEW t \in Gated!TrackIds, ~Gated!Track(t).is_delete, Gated!CheckAccess(u, Gated!Track(t))
  PROVE  Gated!MeetsConditions(u, t)
  <1>1. CASE Gated!EvaluateConditions(u, Gated!Track(t).premium_conditions)
    <2>1. PICK c \in Gated!Track(t).premium_conditions :
            \/ c.name = "follow_user_id" /\ <<u, c.value>> \in follows
            \/ c.name = "tip_user_id" /\ <<u, c.value>> \in tips
      BY <1>1 DEF Gated!EvaluateConditions, Gated!DoesUserHaveNftCollection, Gated!DoesUserFollowArtist,
                  Gated!DoesUserSupportArtist
    <2> QED
      BY <2>1 DEF Gated!MeetsConditions
  <1> QED
    BY <1>1 DEF Gated!CheckAccess, Gated!MeetsConditions

LEMMA MetIsRecorded ==
  ASSUME EarnedInv, NEW u \in Users, NEW t \in Gated!TrackIds, Gated!MeetsConditions(u, t)
  PROVE  <<WalletOf[u], Gated!Track(t).track_cid>> \in met
  <1>1. <<WalletOf[u], Gated!Track(t).track_cid>> \in Gated!MetNow
    <2>1. <<u, t>> \in {p \in Users \X Gated!TrackIds : Gated!MeetsConditions(p[1], p[2])}
      OBVIOUS
    <2> QED
      BY <2>1 DEF Gated!MetNow
  <1> QED
    BY <1>1 DEF EarnedInv

\* A signature that comes with a track shown.
LEMMA ShownIsEarned ==
  ASSUME EarnedInv, NEW u \in Users, NEW s \in Gated!PopulatePremiumTrackMetadata(u, Gated!TrackIds)
  PROVE  <<s.user_wallet, s.cid>> \in met
  <1>1. PICK t \in Gated!TrackIds : /\ ~Gated!Track(t).is_delete /\ Gated!CheckAccess(u, Gated!Track(t))
                              /\ s = Gated!Signed(t, WalletOf[u], TRUE)
    BY DEF Gated!PopulatePremiumTrackMetadata, Gated!CheckAccessForBatch, Gated!GetTracks, Gated!IsThere
  <1> QED
    BY <1>1, CheckedMeansMet, MetIsRecorded DEF Gated!Signed

\* A signature for a track gated by an NFT: some wallet of the user holds one
\* of its collection, whatever token ids and failing wallets are named.
LEMMA NftIsOwned ==
  ASSUME EarnedInv, NEW u \in Users, NEW tokenIds, NEW failing,
         NEW s \in Gated!NftGatedSignatures(u, Gated!TrackIds, tokenIds, failing)
  PROVE  <<s.user_wallet, s.cid>> \in met
  <1> DEFINE on(chain) == {t \in Gated!GetTracks(Gated!TrackIds) : Gated!NftGated(t) /\ Gated!Collection(t).chain = chain}
             wallets(chain) == Gated!WalletsFor(u, chain) \ failing
  <1>1. PICK t \in Gated!EthTracks(u, on("eth"), tokenIds, wallets("eth"))
                     \cup Gated!SolTracks(u, on("sol"), wallets("sol")) :
          s = Gated!Signed(t, WalletOf[u], TRUE)
    BY DEF Gated!NftGatedSignatures
  <1>2. \E chain \in {"eth", "sol"} :
          /\ t \in on(chain)
          /\ \E n \in Nfts : Gated!InCollection(n, Gated!Collection(t)) /\ holder[n] \in wallets(chain)
    <2>1. CASE t \in Gated!EthTracks(u, on("eth"), tokenIds, wallets("eth"))
      <3>1. t \in on("eth") /\ \E ids : Gated!DoesUserOwnEthCollection(Gated!Collection(t), wallets("eth"), ids)
        BY <2>1 DEF Gated!EthTracks
      <3> QED
        BY <3>1 DEF Gated!DoesUserOwnEthCollection
    <2>2. CASE t \in Gated!SolTracks(u, on("sol"), wallets("sol"))
      BY <2>2 DEF Gated!SolTracks, Gated!DoesUserOwnSolCollection
    <2> QED
      BY <1>1, <2>1, <2>2
  <1>3. t \in Gated!TrackIds /\ ~Gated!Track(t).is_delete /\ Gated!NftGated(t)
    BY <1>2 DEF Gated!GetTracks, Gated!IsThere
  <1>4. \E n \in Nfts : Gated!InCollection(n, Gated!Collection(t))
                        /\ holder[n] \in Gated!WalletsFor(u, Gated!Collection(t).chain)
    BY <1>2
  <1>5. Gated!MeetsConditions(u, t)
    BY <1>3, <1>4 DEF Gated!OwnsNft, Gated!MeetsConditions
  <1> QED
    BY <1>1, <1>3, <1>5, MetIsRecorded DEF Gated!Signed

\* A stream of a premium track: by a signature that was earned, or by a check.
LEMMA StreamIsEarned ==
  ASSUME EarnedInv, NEW u \in Users, NEW t \in Gated!TrackIds, NEW with \in {{}, kept},
         ~Gated!Track(t).is_delete, Gated!Track(t).is_premium, Gated!GetTrackStreamSignature(u, t, with)
  PROVE  <<WalletOf[u], Gated!Track(t).track_cid>> \in met
  <1>1. CASE with = {}
    BY <1>1, CheckedMeansMet, MetIsRecorded DEF Gated!GetTrackStreamSignature
  <1>2. CASE with # {}
    <2>1. PICK s \in kept : Gated!IsAccepted(s, u, t)
      BY <1>2 DEF Gated!GetTrackStreamSignature
    <2> QED
      BY <2>1 DEF Gated!IsAccepted, EarnedInv, Gated!StreamsAreEarned
  <1> QED
    BY <1>1, <1>2

-----------------------------------------------------------------------------
\* What was met stays on record, and what is met after a change joins it.
LEMMA ChangeKeeps == EarnedInv /\ Gated!Change => EarnedInv'
  BY DEF EarnedInv, Gated!StreamsAreEarned, Gated!Change

\* What is met now depends on the tables alone.
LEMMA SameMet == UNCHANGED Gated!tables => Gated!MetNow' = Gated!MetNow
  BY DEF Gated!tables, Gated!MetNow, Gated!MeetsConditions, Gated!OwnsNft, Gated!NftGated, Gated!Collection, Gated!InCollection,
         Gated!WalletsFor, Gated!GetAssociatedUserWallet, Gated!Track, Gated!TrackIds

LEMMA KeepKeeps ==
  ASSUME EarnedInv, NEW given, Gated!Keep(given),
         \A s \in given : <<s.user_wallet, s.cid>> \in met
  PROVE  EarnedInv'
  <1>1. Gated!MetNow' = Gated!MetNow
    BY SameMet DEF Gated!Keep
  <1> QED
    BY <1>1 DEF EarnedInv, Gated!StreamsAreEarned, Gated!Keep

LEMMA StreamKeeps == EarnedInv /\ Gated!StreamTrack => EarnedInv'
  <1> SUFFICES ASSUME EarnedInv, Gated!StreamTrack PROVE EarnedInv'
    OBVIOUS
  <1>1. PICK u \in Users \cup {Gated!None}, t \in Gated!TrackIds, with \in {{}, kept} :
          /\ ~Gated!Track(t).is_delete /\ Gated!GetTrackStreamSignature(u, t, with)
          /\ stream' = {[user_wallet |-> IF u = Gated!None THEN Gated!None ELSE WalletOf[u],
                         cid |-> Gated!Track(t).track_cid, is_premium |-> Gated!Track(t).is_premium]}
          /\ UNCHANGED <<Gated!tables, kept, met, changes>>
    BY DEF Gated!StreamTrack
  <1>2. Gated!MetNow' = Gated!MetNow
    BY <1>1, SameMet
  <1>3. CASE Gated!Track(t).is_premium
    <2>1. u # Gated!None
      BY <1>1, <1>3 DEF Gated!GetTrackStreamSignature
    <2>2. <<WalletOf[u], Gated!Track(t).track_cid>> \in met
      BY <1>1, <1>3, <2>1, StreamIsEarned
    <2> QED
      BY <1>1, <1>2, <2>1, <2>2 DEF EarnedInv, Gated!StreamsAreEarned
  <1>4. CASE ~Gated!Track(t).is_premium
    BY <1>1, <1>2, <1>4 DEF EarnedInv, Gated!StreamsAreEarned
  <1> QED
    BY <1>3, <1>4

LEMMA EarnedNext == EarnedInv /\ [Gated!Next]_Gated!vars => EarnedInv'
  <1> SUFFICES ASSUME EarnedInv, [Gated!Next]_Gated!vars PROVE EarnedInv'
    OBVIOUS
  <1>1. CASE \/ Gated!ToggleFollow \/ Gated!SendTip \/ Gated!ToggleWallet \/ Gated!MoveNft \/ Gated!EditTrack \/ Gated!DeleteTrack
    BY <1>1, ChangeKeeps
       DEF Gated!ToggleFollow, Gated!SendTip, Gated!ToggleWallet, Gated!MoveNft, Gated!EditTrack, Gated!DeleteTrack
  <1>2. CASE Gated!ShowTracks
    BY <1>2, KeepKeeps, ShownIsEarned DEF Gated!ShowTracks
  <1>3. CASE Gated!AskForSignatures
    BY <1>3, KeepKeeps, NftIsOwned DEF Gated!AskForSignatures
  <1>4. CASE Gated!StreamTrack
    BY <1>4, StreamKeeps
  <1>5. CASE UNCHANGED Gated!vars
    BY <1>5, SameMet DEF Gated!vars, Gated!tables, EarnedInv, Gated!StreamsAreEarned
  <1> QED
    BY <1>1, <1>2, <1>3, <1>4, <1>5 DEF Gated!Next

(* check_access, get_nft_gated_premium_track_signatures and                *)
(* get_track_stream_signature give a signature or a stream only to users   *)
(* who met the conditions for the cid, at that time or before.             *)
THEOREM AccessHasBeenEarned == Gated!Spec => []Gated!StreamsAreEarned
  <1>1. Gated!Init => EarnedInv
    BY DEF Gated!Init, EarnedInv, Gated!StreamsAreEarned
  <1>2. EarnedInv => Gated!StreamsAreEarned
    BY DEF EarnedInv
  <1> QED
    BY <1>1, <1>2, EarnedNext, PTL DEF Gated!Spec

-----------------------------------------------------------------------------
(* What validation lets into the table: a row has one condition at most,   *)
(* and names a collection on one of the two chains.                        *)
IsRow(r) ==
  /\ DOMAIN r = {"owner_id", "is_premium", "premium_conditions", "track_cid", "is_delete"}
  /\ r.is_premium \in BOOLEAN
  /\ \A c, d \in r.premium_conditions : c = d
  /\ \A c \in r.premium_conditions :
       c.name = "nft_collection" => c.value.chain \in {"eth", "sol"}
ValidRows ==
  /\ \A t \in DOMAIN InitialTracks : IsRow(InitialTracks[t])
  /\ \A row \in Edits : IsRow(row)
  /\ Gated!None \notin Users
RowsInv == ValidRows /\ \A t \in Gated!TrackIds : IsRow(Gated!Track(t))

LEMMA RowsKept == RowsInv /\ [Gated!Next]_Gated!vars => RowsInv'
  <1> SUFFICES ASSUME RowsInv, [Gated!Next]_Gated!vars PROVE RowsInv'
    OBVIOUS
  <1>1. CASE Gated!EditTrack
    <2>1. PICK t \in Gated!TrackIds, row \in Edits : tracks' = [tracks EXCEPT ![t] = row]
      BY <1>1 DEF Gated!EditTrack
    <2> QED
      BY <2>1 DEF RowsInv, ValidRows, Gated!TrackIds, Gated!Track
  <1>2. CASE Gated!DeleteTrack
    <2>1. PICK t \in Gated!TrackIds :
            tracks' = [tracks EXCEPT ![t].is_delete = TRUE, ![t].premium_conditions = {}]
      BY <1>2 DEF Gated!DeleteTrack
    <2>2. DOMAIN tracks' = DOMAIN tracks
      BY <2>1
    <2>3. IsRow(tracks'[t])
      <3>1. IsRow(tracks[t])
        BY DEF RowsInv, Gated!Track, Gated!TrackIds
      <3>2. tracks'[t] = [tracks[t] EXCEPT !.is_delete = TRUE, !.premium_conditions = {}]
        BY <2>1 DEF Gated!TrackIds
      <3> QED
        BY <3>1, <3>2 DEF IsRow
    <2>4. \A x \in Gated!TrackIds : x # t => tracks'[x] = tracks[x]
      BY <2>1 DEF Gated!TrackIds
    <2> QED
      BY <2>2, <2>3, <2>4 DEF RowsInv, ValidRows, Gated!TrackIds, Gated!Track
  <1>3. CASE tracks' = tracks
    BY <1>3 DEF RowsInv, ValidRows, Gated!TrackIds, Gated!Track
  <1> QED
    BY <1>1, <1>2, <1>3 DEF Gated!Next, Gated!vars, Gated!tables, Gated!ToggleFollow, Gated!SendTip, Gated!ToggleWallet, Gated!MoveNft,
       Gated!ShowTracks, Gated!AskForSignatures, Gated!StreamTrack, Gated!Keep

\* Who meets conditions that need no NFT passes the check.
LEMMA MetMeansChecked ==
  ASSUME RowsInv, NEW u \in Users, NEW t \in Gated!TrackIds, Gated!MeetsConditions(u, t), ~Gated!OwnsNft(u, t)
  PROVE  Gated!CheckAccess(u, Gated!Track(t))
  <1>1. CASE \E c \in Gated!Track(t).premium_conditions : <<u, c.value>> \in
               CASE c.name = "follow_user_id" -> follows
                 [] c.name = "tip_user_id" -> tips
                 [] OTHER -> {}
    <2>1. PICK c \in Gated!Track(t).premium_conditions :
            \/ c.name = "follow_user_id" /\ <<u, c.value>> \in follows
            \/ c.name = "tip_user_id" /\ <<u, c.value>> \in tips
      BY <1>1
    <2>2. Gated!Track(t).premium_conditions = {c}
      BY <2>1 DEF RowsInv, IsRow
    <2>3. Cardinality(Gated!Track(t).premium_conditions) = 1
      BY <2>2, FS_Singleton
    <2>4. Gated!Cardinality(Gated!Track(t).premium_conditions) = Cardinality(Gated!Track(t).premium_conditions)
      BY DEF Gated!Cardinality, Cardinality
    <2>5. Gated!EvaluateConditions(u, Gated!Track(t).premium_conditions)
      BY <2>1, <2>3, <2>4 DEF Gated!EvaluateConditions, Gated!DoesUserFollowArtist, Gated!DoesUserSupportArtist
    <2> QED
      BY <2>5 DEF Gated!CheckAccess
  <1> QED
    BY <1>1 DEF Gated!MeetsConditions, Gated!CheckAccess

\* Asked for all tracks and tokens with all wallets answering, each collection
\* is found exactly when a wallet of the user holds one of it.
LEMMA NftsFound ==
  ASSUME RowsInv, NEW u \in Users, WalletOf[u] # Gated!None
  PROVE  Gated!NftGatedSignatures(u, Gated!TrackIds, [t \in Gated!TrackIds |-> {n.token : n \in Nfts}], {}) =
           {Gated!Signed(t, WalletOf[u], TRUE) : t \in {t \in Gated!TrackIds : Gated!OwnsNft(u, t)}}
  <1> DEFINE ids == [t \in Gated!TrackIds |-> {n.token : n \in Nfts}]
             on(chain) == {t \in Gated!GetTracks(Gated!TrackIds) : Gated!NftGated(t) /\ Gated!Collection(t).chain = chain}
             wallets(chain) == Gated!WalletsFor(u, chain) \ {}
             held(t, chain) == \E n \in Nfts : /\ Gated!InCollection(n, Gated!Collection(t))
                                               /\ holder[n] \in wallets(chain)
             ofCollection(c) == {t \in on("eth") : Gated!Collection(t) = c}
             tokens(c) == UNION {ids[t] : t \in ofCollection(c)}
  <1>1. \A t : t \in on("eth") => tokens(Gated!Collection(t)) = {n.token : n \in Nfts}
    <2> SUFFICES ASSUME NEW t \in on("eth") PROVE tokens(Gated!Collection(t)) = {n.token : n \in Nfts}
      OBVIOUS
    <2>1. t \in ofCollection(Gated!Collection(t)) /\ ofCollection(Gated!Collection(t)) \subseteq Gated!TrackIds
      BY DEF Gated!GetTracks
    <2>2. \A x \in ofCollection(Gated!Collection(t)) : ids[x] = {n.token : n \in Nfts}
      BY <2>1
    <2> HIDE DEF ids, ofCollection
    <2> QED
      BY <2>1, <2>2
  <1>2. Gated!EthTracks(u, on("eth"), ids, wallets("eth")) = {t \in on("eth") : held(t, "eth")}
    <2> DEFINE found(c) == Gated!DoesUserOwnEthCollection(c, wallets("eth"), tokens(c))
    <2>1. Gated!EthTracks(u, on("eth"), ids, wallets("eth")) =
            UNION {ofCollection(c) : c \in {c \in {Gated!Collection(t) : t \in on("eth")} : found(c)}}
      <3> DEFINE named == {Gated!Collection(t) : t \in on("eth")}
                 f == [c \in named |-> ofCollection(c)]
      <3>1. DOMAIN f = named /\ \A c \in named : f[c] = ofCollection(c)
        OBVIOUS
      <3>2. Gated!EthTracks(u, on("eth"), ids, wallets("eth")) =
              UNION {f[c] : c \in {c \in DOMAIN f :
                Gated!DoesUserOwnEthCollection(c, wallets("eth"), UNION {ids[t] : t \in f[c]})}}
        BY DEF Gated!EthTracks
      <3> HIDE DEF f, named, ofCollection
      <3>3. {c \in DOMAIN f :
               Gated!DoesUserOwnEthCollection(c, wallets("eth"), UNION {ids[t] : t \in f[c]})} =
            {c \in named : found(c)}
        BY <3>1
      <3>4. {c \in named : found(c)} \subseteq named
        OBVIOUS
      <3> HIDE DEF found
      <3> QED
        BY <3>1, <3>2, <3>3, <3>4 DEF named
    <2>2. \A t \in on("eth") : found(Gated!Collection(t)) <=> held(t, "eth")
      BY <1>1 DEF Gated!DoesUserOwnEthCollection
    <2> HIDE DEF found, on, held
    <2> QED
      BY <2>1, <2>2
  <1>3. Gated!SolTracks(u, on("sol"), wallets("sol")) = {t \in on("sol") : held(t, "sol")}
    BY DEF Gated!SolTracks, Gated!DoesUserOwnSolCollection
  <1>4. \A t \in Gated!TrackIds : Gated!NftGated(t) => Gated!Collection(t).chain \in {"eth", "sol"}
    BY DEF RowsInv, IsRow, Gated!NftGated, Gated!Collection
  <1>5. {t \in on("eth") : held(t, "eth")} \cup {t \in on("sol") : held(t, "sol")} =
          {t \in Gated!TrackIds : Gated!OwnsNft(u, t)}
    BY <1>4 DEF Gated!OwnsNft, Gated!GetTracks, Gated!IsThere
  <1> QED
    BY <1>2, <1>3, <1>5 DEF Gated!NftGatedSignatures

\* For one user: what is signed, and what the signatures open.
LEMMA EarnedIsSigned ==
  ASSUME RowsInv
  PROVE  Gated!SignedWhenEarned
  <1> SUFFICES ASSUME NEW u \in Users, WalletOf[u] # Gated!None
      PROVE  LET tokens == {n.token : n \in Nfts}
                 nfts == Gated!NftGatedSignatures(u, Gated!TrackIds, [t \in Gated!TrackIds |-> tokens], {})
                 others == Gated!GetPremiumTrackSignatures(u, Gated!TrackIds)
                 shown == Gated!PopulatePremiumTrackMetadata(u, Gated!TrackIds)
                 earned == {t \in Gated!TrackIds : Gated!MeetsConditions(u, t)}
             IN /\ {s.cid : s \in nfts} = {Gated!Track(t).track_cid : t \in {t \in Gated!TrackIds : Gated!OwnsNft(u, t)}}
                /\ {s.cid : s \in others \cup nfts} = {Gated!Track(t).track_cid : t \in earned}
                /\ shown \subseteq others
                /\ \A t \in earned : Gated!Track(t).is_premium =>
                     \E s \in shown \cup nfts : Gated!GetTrackStreamSignature(u, t, {s})
    BY DEF Gated!SignedWhenEarned
  <1> DEFINE nfts == Gated!NftGatedSignatures(u, Gated!TrackIds, [t \in Gated!TrackIds |-> {n.token : n \in Nfts}], {})
             others == Gated!GetPremiumTrackSignatures(u, Gated!TrackIds)
             shown == Gated!PopulatePremiumTrackMetadata(u, Gated!TrackIds)
             owned == {t \in Gated!TrackIds : Gated!OwnsNft(u, t)}
             passed == {t \in Gated!TrackIds : ~Gated!Track(t).is_delete /\ Gated!CheckAccess(u, Gated!Track(t))}
             earned == {t \in Gated!TrackIds : Gated!MeetsConditions(u, t)}
  <1>1. nfts = {Gated!Signed(t, WalletOf[u], TRUE) : t \in owned}
    BY NftsFound
  <1>2. others = {Gated!Signed(t, WalletOf[u], Gated!Track(t).is_premium) : t \in passed}
    BY DEF Gated!GetPremiumTrackSignatures, Gated!CheckAccessForBatch, Gated!GetTracks, Gated!IsThere
  <1>3. shown = {Gated!Signed(t, WalletOf[u], TRUE) : t \in {t \in passed : Gated!Track(t).is_premium}}
    BY DEF Gated!PopulatePremiumTrackMetadata, Gated!CheckAccessForBatch, Gated!GetTracks, Gated!IsThere
  <1>4. earned = passed \cup owned
    <2>1. \A t \in earned : t \in passed \/ t \in owned
      BY MetMeansChecked DEF Gated!MeetsConditions
    <2>2. \A t \in passed : t \in earned
      BY CheckedMeansMet
    <2>3. \A t \in owned : t \in earned
      BY DEF Gated!MeetsConditions, Gated!OwnsNft
    <2> QED
      BY <2>1, <2>2, <2>3
  <1>5. \A t, p : Gated!Signed(t, WalletOf[u], p).cid = Gated!Track(t).track_cid
    BY DEF Gated!Signed
  <1> HIDE DEF nfts, others, shown, owned, passed, earned
  <1>6. {s.cid : s \in nfts} = {Gated!Track(t).track_cid : t \in owned}
    <2>1. \A t \in owned : Gated!Track(t).track_cid \in {s.cid : s \in nfts}
      BY <1>1, <1>5
    <2>2. \A s \in nfts : s.cid \in {Gated!Track(t).track_cid : t \in owned}
      BY <1>1, <1>5
    <2> QED
      BY <2>1, <2>2
  <1>7. {s.cid : s \in others} = {Gated!Track(t).track_cid : t \in passed}
    <2>1. \A t \in passed : Gated!Track(t).track_cid \in {s.cid : s \in others}
      BY <1>2, <1>5
    <2>2. \A s \in others : s.cid \in {Gated!Track(t).track_cid : t \in passed}
      BY <1>2, <1>5
    <2> QED
      BY <2>1, <2>2
  <1>8. {s.cid : s \in others \cup nfts} = {Gated!Track(t).track_cid : t \in earned}
    <2>1. {s.cid : s \in others \cup nfts} = {s.cid : s \in others} \cup {s.cid : s \in nfts}
      OBVIOUS
    <2>2. {Gated!Track(t).track_cid : t \in earned} =
            {Gated!Track(t).track_cid : t \in passed} \cup {Gated!Track(t).track_cid : t \in owned}
      BY <1>4
    <2> QED
      BY <1>6, <1>7, <2>1, <2>2
  <1>9. shown \subseteq others
    <2> SUFFICES ASSUME NEW t \in passed, Gated!Track(t).is_premium
        PROVE  Gated!Signed(t, WalletOf[u], TRUE) \in others
      BY <1>3
    <2>1. Gated!Track(t).is_premium = TRUE
      BY DEF RowsInv, IsRow, passed
    <2> QED
      BY <1>2, <2>1
  <1>10. ASSUME NEW t \in earned, Gated!Track(t).is_premium
         PROVE  \E s \in shown \cup nfts : Gated!GetTrackStreamSignature(u, t, {s})
    <2>1. Gated!Signed(t, WalletOf[u], TRUE) \in shown \cup nfts
      BY <1>1, <1>3, <1>4, <1>10
    <2>2. Gated!IsAccepted(Gated!Signed(t, WalletOf[u], TRUE), u, t)
      BY DEF Gated!IsAccepted, Gated!Signed
    <2>3. u # Gated!None
      BY DEF RowsInv, ValidRows
    <2> QED
      BY <2>1, <2>2, <2>3 DEF Gated!GetTrackStreamSignature
  <1> QED
    BY <1>6, <1>8, <1>9, <1>10 DEF nfts, others, shown, owned, earned

(* check_access_for_batch, get_nft_gated_premium_track_signatures and      *)
(* get_track_stream_signature refuse nobody who meets the conditions: each *)
(* track is signed, and streamed with the signature, exactly for those who *)
(* meet its conditions, for any valid rows and edits.                      *)
THEOREM EarnedAccessIsGiven == ValidRows /\ Gated!Spec => []Gated!AccessIsEarned
  <1>1. ValidRows /\ Gated!Init => RowsInv
    BY DEF Gated!Init, RowsInv, ValidRows, Gated!TrackIds, Gated!Track
  <1>2. RowsInv => Gated!SignedWhenEarned
    BY EarnedIsSigned
  <1>3. Gated!StreamsAreEarned /\ Gated!SignedWhenEarned => Gated!AccessIsEarned
    BY DEF Gated!AccessIsEarned
  <1> QED
    BY <1>1, <1>2, <1>3, RowsKept, AccessHasBeenEarned, PTL DEF Gated!Spec
=============================================================================
