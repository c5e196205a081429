------------------------ MODULE BlockIndexingProofs ------------------------
(***************************************************************************)
(* One block is current and the blocks table is its history, whatever the  *)
(* length of the chain, of its reorganisations and of the slices they are  *)
(* reverted in, wherever passes fail or crash; and the indexed tables are  *)
(* what the blocks of that history, replayed, would have written.          *)
(*                                                                         *)
(* At the end: what discovery nodes list as skipped has failed on all of   *)
(* them (SkipConsensus), for any number of nodes and blocks.  This is an   *)
(* instance; variables of the same name are shared, as no theorem is about *)
(* both components.                                                        *)
(***************************************************************************)
EXTENDS BlockIndexing, FiniteSetTheorems, SequenceTheorems, WellFoundedInduction, TLAPS

CONSTANTS Nodes, MaxBlock, BadBlocks
VARIABLES height, pass, failed
Agreed == INSTANCE SkipConsensus

(* Workers exclude each other as long as the lock outlasts a pass, and no  *)
(* second one waits with a decision made before the cut-over.              *)
Setting ==
  /\ FinalPOA \in Nat /\ Window \in Nat /\ RevertSlice \in Nat
  /\ NoWorker \notin Workers
  /\ \A v, w \in Workers : v = w \/ (~LockMayExpire /\ FinalPOA = 0)

Hash == [net : Nets, path : Seq(Contents)]
Low(h) == IF h.net = "neth" THEN 1 ELSE 0
Below(a, c) ==
  a.net = c.net /\ Len(a.path) <= Len(c.path) /\ a = Ancestor(c, Len(a.path))

Active == {"target", "lists", "revert", "index", "redis"}
Tasks ==
  [pc : Active \cup {"idle", "acquire"}, net : Nets, target : Hash,
   index : Seq(Hash), revert : Seq(Hash), skip : BOOLEAN]

Types ==
  /\ chain \in [Nets -> Seq(Contents)]
  /\ rows \subseteq Hash /\ cur \subseteq rows
  /\ lock \in Workers \cup {NoWorker}
  /\ task \in [Workers -> Tasks]

\* What is current is one block; the table is its history, all of it, over
\* what the first network left.
History(c) ==
  /\ c \in rows /\ cur = {c} /\ Low(c) <= Len(c.path)
  /\ \A h \in rows : Below(h, c) \/ (h.net = "poa" /\ c.net = "neth")
  /\ \A i \in Low(c)..Len(c.path) : Ancestor(c, i) \in rows
ChainInv == \E c \in rows : History(c)

Exclusion ==
  /\ ~LockMayExpire => \A w \in Workers : task[w].pc \in Active => lock = w
  /\ FinalPOA = 0 => (\A w \in Workers : task[w].net = "poa") /\ \A c \in cur : c.net = "poa"
  /\ \A w \in Workers : task[w].pc # "idle" /\ task[w].net = "poa"
                         => \A c \in cur : c.net = "poa"

\* The blocks still to be indexed are those of the target above k.
ListedFrom(t, k) ==
  /\ k \in 0..Len(t.target.path) /\ Len(t.index) = Len(t.target.path) - k
  /\ \A i \in 1..Len(t.index) : t.index[i] = Ancestor(t.target, k + i)

\* Those to be reverted are the current one's above k, where it meets the
\* target, or none before the first block of the second network.
RevertReady(t, k, C) ==
  \/ \E c \in C :
       /\ c.net = t.target.net /\ k >= Low(c) /\ k <= Len(c.path)
       /\ Ancestor(c, k) = Ancestor(t.target, k)
       /\ Len(t.revert) = Len(c.path) - k
       /\ \A j \in 1..Len(t.revert) : t.revert[j] = Ancestor(c, Len(c.path) - j + 1)
  \/ k = 0 /\ t.target.net = "neth" /\ t.revert = <<>>

\* The next block follows the current one, or is the first of the second
\* network, or its number is taken by a block that is not reverted yet.
IndexReady(t, k, R, C) ==
  \/ C = {Ancestor(t.target, k)} /\ k >= Low(t.target)
  \/ k = 0 /\ t.target.net = "neth"
  \/ \E x \in R : x.net = t.target.net /\ Len(x.path) = k + 1

\* A pass, with the blocks R in the table and C of them current.
PassInv(t, R, C) ==
  /\ t.pc \in {"lists", "revert", "index", "redis"} =>
       t.target.net = t.net /\ Low(t.target) <= Len(t.target.path)
  /\ t.pc = "revert" => \E k \in Nat : ListedFrom(t, k) /\ RevertReady(t, k, C)
  /\ t.pc = "index" => \E k \in Nat : ListedFrom(t, k) /\ IndexReady(t, k, R, C)
  /\ t.pc = "redis" => \E k \in Nat :
       /\ ListedFrom(t, k) /\ k < Len(t.target.path)
       /\ C = {Ancestor(t.target, k + 1)}

BlockInv ==
  /\ Setting /\ Types /\ ChainInv /\ Exclusion
  /\ \A w \in Workers : PassInv(task[w], rows, cur)

-----------------------------------------------------------------------------
(* Histories of a block, as operations on paths.                           *)

LEMMA AncestorType ==
  ASSUME NEW h \in Hash, NEW i \in 0..Len(h.path)
  PROVE  /\ Ancestor(h, i) \in Hash
         /\ Ancestor(h, i).net = h.net
         /\ Len(Ancestor(h, i).path) = i
         /\ \A j \in 1..i : Ancestor(h, i).path[j] = h.path[j]
  <1>1. h.path \in Seq(Contents) /\ h.net \in Nets /\ Len(h.path) \in Nat
    BY LenProperties DEF Hash
  <1>2. \A j \in 1..i : h.path[j] \in Contents
    BY <1>1, ElementOfSeq
  <1>3. /\ SubSeq(h.path, 1, i) \in Seq(Contents)
        /\ Len(SubSeq(h.path, 1, i)) = i
        /\ \A j \in 1..i : SubSeq(h.path, 1, i)[j] = h.path[j]
    BY <1>1, <1>2, SubSeqProperties
  <1> QED
    BY <1>1, <1>3 DEF Ancestor, Hash

LEMMA SameHash ==
  ASSUME NEW g \in Hash, NEW h \in Hash, g.net = h.net, Len(g.path) = Len(h.path),
         \A i \in 1..Len(g.path) : g.path[i] = h.path[i]
  PROVE  g = h
  <1>1. g.path = h.path
    BY SeqEqual DEF Hash
  <1> QED
    BY <1>1 DEF Hash

LEMMA AncestorOfAncestor ==
  ASSUME NEW h \in Hash, NEW j \in 0..Len(h.path), NEW i \in 0..j
  PROVE  Ancestor(Ancestor(h, j), i) = Ancestor(h, i)
  <1>1. i \in 0..Len(h.path) /\ i \in 0..Len(Ancestor(h, j).path) /\ Ancestor(h, j) \in Hash
    BY AncestorType, LenProperties DEF Hash
  <1>2. /\ Ancestor(h, i) \in Hash /\ Ancestor(Ancestor(h, j), i) \in Hash
        /\ Ancestor(Ancestor(h, j), i).net = Ancestor(h, i).net
        /\ Len(Ancestor(Ancestor(h, j), i).path) = i /\ Len(Ancestor(h, i).path) = i
    BY <1>1, AncestorType
  <1>3. \A m \in 1..i : Ancestor(Ancestor(h, j), i).path[m] = Ancestor(h, i).path[m]
    BY <1>1, AncestorType
  <1> QED
    BY <1>2, <1>3, SameHash

LEMMA AncestorSelf ==
  ASSUME NEW h \in Hash
  PROVE  /\ Ancestor(h, Len(h.path)) = h
         /\ Len(h.path) \in Nat
  <1>1. Len(h.path) \in Nat
    BY LenProperties DEF Hash
  <1>2. Len(h.path) \in 0..Len(h.path)
    BY <1>1
  <1> QED
    BY <1>1, <1>2, AncestorType, SameHash

(* A block on the history of another shares its earlier blocks with it.    *)
LEMMA BelowShares ==
  ASSUME NEW a \in Hash, NEW c \in Hash, Below(a, c), NEW i \in 0..Len(a.path)
  PROVE  Ancestor(a, i) = Ancestor(c, i)
  <1>1. Len(a.path) \in 0..Len(c.path)
    BY AncestorSelf DEF Below
  <1> QED
    BY <1>1, AncestorOfAncestor DEF Below

LEMMA LesserOf ==
  ASSUME NEW a \in Int, NEW b \in Int
  PROVE  MinOf({a, b}) = IF a <= b THEN a ELSE b
  <1> DEFINE m == IF a <= b THEN a ELSE b
  <1>1. m \in {a, b} /\ \A y \in {a, b} : m <= y
    OBVIOUS
  <1>2. \A x \in {a, b} : (\A y \in {a, b} : x <= y) => x = m
    OBVIOUS
  <1> QED
    BY <1>1, <1>2 DEF MinOf

LEMMA LeastIs ==
  ASSUME NEW S \in SUBSET Int, NEW m \in S, \A y \in S : m <= y
  PROVE  MinOf(S) = m
  <1>1. \A x \in S : (\A y \in S : x <= y) => x = m
    OBVIOUS
  <1> QED
    BY <1>1 DEF MinOf

(* A set of lengths that holds with each all smaller ones down to low has  *)
(* a largest: as many as it has, from low on.                              *)
LEMMA LargestOf ==
  ASSUME NEW low \in Nat, NEW n \in Nat, NEW T \in SUBSET (low..n), T # {},
         \A i \in T : \A j \in low..i : j \in T
  PROVE  MaxOf(T) \in T
  <1>1. IsFiniteSet(T) /\ Cardinality(T) \in Nat
    <2>1. IsFiniteSet(low..n)
      BY FS_Interval
    <2>2. IsFiniteSet(T)
      BY <2>1, FS_Subset
    <2> QED
      BY <2>2, FS_CardinalityType
  <1> DEFINE m == low + Cardinality(T) - 1
  <1>2. \A i \in T : i <= m
    <2> SUFFICES ASSUME NEW i \in T PROVE i <= m
      OBVIOUS
    <2>1. low..i \in SUBSET T /\ i \in Int /\ low <= i
      OBVIOUS
    <2>2. Cardinality(low..i) = i - low + 1
      BY <2>1, FS_Interval
    <2>3. Cardinality(low..i) <= Cardinality(T)
      BY <2>1, <1>1, FS_Subset
    <2> QED
      BY <2>1, <2>2, <2>3, <1>1
  <1>3. low <= m
    <2>1. PICK i \in T : TRUE
      OBVIOUS
    <2> QED
      BY <2>1, <1>1, <1>2
  <1>4. T \in SUBSET (low..m) /\ m \in Int
    BY <1>1, <1>2
  <1>5. IsFiniteSet(low..m) /\ Cardinality(low..m) = Cardinality(T)
    BY <1>1, <1>3, <1>4, FS_Interval
  <1>6. low..m = T
    BY <1>4, <1>5, FS_Subset
  <1>7. m \in T /\ \A y \in T : y <= m
    BY <1>2, <1>3, <1>4, <1>6
  <1> QED
    BY <1>7 DEF MaxOf

(* Where a target meets the blocks table.                                  *)
LEMMA MeetsHistory ==
  ASSUME NEW c \in Hash, NEW t \in Hash, rows \subseteq Hash, History(c), t.net = c.net,
         Indexed(t) # {}
  PROVE  /\ Shared(t) \in Low(c)..Len(t.path) /\ Shared(t) <= Len(c.path)
         /\ Ancestor(t, Shared(t)) = Ancestor(c, Shared(t))
  <1>1. Len(t.path) \in Nat /\ Len(c.path) \in Nat /\ Low(c) \in Nat
    BY AncestorSelf DEF Low
  <1>2. Indexed(t) = {i \in Low(c)..Len(t.path) : Ancestor(t, i) \in rows}
    BY DEF Indexed, Low
  <1>3. \A i \in Indexed(t) :
          i <= Len(c.path) /\ \A j \in 0..i : Ancestor(t, j) = Ancestor(c, j)
    <2> SUFFICES ASSUME NEW i \in Indexed(t)
                 PROVE  i <= Len(c.path) /\ \A j \in 0..i : Ancestor(t, j) = Ancestor(c, j)
      OBVIOUS
    <2>1. i \in 0..Len(t.path) /\ Ancestor(t, i) \in rows
      BY <1>1, <1>2
    <2>2. Ancestor(t, i).net = c.net /\ Len(Ancestor(t, i).path) = i /\ Ancestor(t, i) \in Hash
      BY <2>1, AncestorType
    <2>3. Below(Ancestor(t, i), c)
      BY <2>1, <2>2 DEF History
    <2>4. \A j \in 0..i : Ancestor(Ancestor(t, i), j) = Ancestor(c, j)
      BY <2>2, <2>3, BelowShares
    <2>5. \A j \in 0..i : Ancestor(Ancestor(t, i), j) = Ancestor(t, j)
      BY <2>1, AncestorOfAncestor
    <2> QED
      BY <2>2, <2>3, <2>4, <2>5 DEF Below
  <1>4. \A i \in Indexed(t) : \A j \in Low(c)..i : j \in Indexed(t)
    <2> SUFFICES ASSUME NEW i \in Indexed(t), NEW j \in Low(c)..i PROVE j \in Indexed(t)
      OBVIOUS
    <2>1. j \in 0..i /\ j \in Low(c)..Len(t.path) /\ j \in Low(c)..Len(c.path)
      BY <1>1, <1>2, <1>3
    <2>2. Ancestor(t, j) = Ancestor(c, j) /\ Ancestor(c, j) \in rows
      BY <2>1, <1>3 DEF History
    <2> QED
      BY <2>1, <2>2, <1>2
  <1>5. Indexed(t) \in SUBSET (Low(c)..Len(t.path))
    BY <1>2
  <1>6. MaxOf(Indexed(t)) \in Indexed(t)
    BY <1>1, <1>4, <1>5, LargestOf
  <1>7. Shared(t) \in Indexed(t)
    BY <1>6 DEF Shared, ReachedInitial
  <1>8. Shared(t) \in Low(c)..Len(t.path) /\ Shared(t) \in 0..Shared(t)
    BY <1>1, <1>5, <1>7
  <1> QED
    BY <1>3, <1>7, <1>8

(* From the current block down to where it meets the target.               *)
LEMMA DepthToMeeting ==
  ASSUME NEW c \in Hash, History(c), NEW k \in Low(c)..Len(c.path)
  PROVE  RevertDepth(c, Ancestor(c, k)) = Len(c.path) - k
  <1>1. Len(c.path) \in Nat /\ k \in Nat /\ Low(c) \in Nat /\ k \in 0..Len(c.path)
    BY AncestorSelf DEF Low
  <1>2. CASE k = Len(c.path)
    BY <1>1, <1>2, AncestorSelf DEF RevertDepth
  <1>3. CASE k < Len(c.path)
    <2> DEFINE D == {d \in 1..(Len(c.path) + 1) :
                       \/ d > Len(c.path)
                       \/ Ancestor(c, Len(c.path) - d) = Ancestor(c, k)
                       \/ Ancestor(c, Len(c.path) - d) \notin rows}
    <2>1. c # Ancestor(c, k)
      BY <1>1, <1>3, AncestorType
    <2>2. RevertDepth(c, Ancestor(c, k)) = MinOf(D)
      BY <2>1 DEF RevertDepth
    <2>3. Len(c.path) - (Len(c.path) - k) = k
      BY <1>1
    <2>4. Len(c.path) - k \in D
      BY <1>1, <1>3, <2>3
    <2>5. \A d \in D : Len(c.path) - k <= d
      <3> SUFFICES ASSUME NEW d \in 1..(Len(c.path) + 1), d < Len(c.path) - k
                   PROVE  d \notin D
        BY <1>1
      <3>1. Len(c.path) - d \in Low(c)..Len(c.path) /\ Len(c.path) - d \in 0..Len(c.path)
        BY <1>1
      <3>2. Ancestor(c, Len(c.path) - d) \in rows
        BY <3>1 DEF History
      <3>3. Ancestor(c, Len(c.path) - d) # Ancestor(c, k)
        BY <1>1, <3>1, AncestorType
      <3> QED
        BY <1>1, <3>1, <3>2, <3>3
    <2>6. D \in SUBSET Int
      OBVIOUS
    <2> QED
      BY <2>2, <2>4, <2>5, <2>6, LeastIs
  <1> QED
    BY <1>1, <1>2, <1>3

-----------------------------------------------------------------------------
(* Steps that leave the tables alone.                                      *)

LEMMA IdleTask == Idle \in Tasks /\ Idle.pc = "idle" /\ Idle.net = "poa"
  <1>1. <<>> \in Seq(Hash) /\ <<>> \in Seq(Contents)
    BY EmptySeq
  <1> QED
    BY <1>1 DEF Idle, Tasks, StartHash, Hash, Nets, Active

(* Of the passes only one is at work. *)
LEMMA OneAtWork ==
  ASSUME BlockInv, NEW v \in Workers, NEW w \in Workers,
         task[v].pc \in Active, task[w].pc \in Active
  PROVE  v = w
  BY DEF BlockInv, Exclusion, Setting

LEMMA LeaveKeeps ==
  ASSUME BlockInv, NEW w \in Workers, Leave(w), UNCHANGED <<chain, rows, cur>>
  PROVE  BlockInv'
  <1>1. task' = [task EXCEPT ![w] = Idle] /\ task'[w] = Idle
        /\ \A v \in Workers : v # w => task'[v] = task[v]
    BY DEF Leave, Step, BlockInv, Types
  <1>2. Types'
    BY <1>1, IdleTask DEF BlockInv, Types, Leave
  <1>3. ChainInv'
    BY DEF BlockInv, ChainInv, History
  <1>4. Exclusion'
    BY <1>1, IdleTask DEF BlockInv, Types, Exclusion, Active, Leave
  <1>5. \A v \in Workers : PassInv(task'[v], rows', cur')
    BY <1>1, IdleTask DEF BlockInv, PassInv
  <1> QED
    BY <1>2, <1>3, <1>4, <1>5 DEF BlockInv, Setting

LEMMA ContinueKeeps ==
  ASSUME BlockInv, NEW w \in Workers, NEW t \in Tasks, Step(w, t),
         task[w].pc \in Active, t.net = task[w].net, PassInv(t, rows, cur),
         UNCHANGED <<chain, rows, cur, lock>>
  PROVE  BlockInv'
  <1>1. task' = [task EXCEPT ![w] = t] /\ task'[w] = t
        /\ \A v \in Workers : v # w => task'[v] = task[v]
    BY DEF Step, BlockInv, Types
  <1>2. Types'
    BY <1>1 DEF BlockInv, Types
  <1>3. ChainInv'
    BY DEF BlockInv, ChainInv, History
  <1>4. Exclusion'
    BY <1>1 DEF BlockInv, Types, Exclusion, Active
  <1>5. \A v \in Workers : PassInv(task'[v], rows', cur')
    BY <1>1 DEF BlockInv
  <1> QED
    BY <1>2, <1>3, <1>4, <1>5 DEF BlockInv, Setting

LEMMA EnvironmentKeeps ==
  ASSUME BlockInv, UNCHANGED <<rows, cur, lock, task>>, chain' \in [Nets -> Seq(Contents)]
  PROVE  BlockInv'
  <1>1. Types' /\ ChainInv' /\ Exclusion'
    BY DEF BlockInv, Types, ChainInv, History, Exclusion
  <1> QED
    BY <1>1 DEF BlockInv, Setting

LEMMA ChainGrows ==
  ASSUME BlockInv, NEW n \in Nets, NewBlock(n) \/ Reorg(n)
  PROVE  BlockInv'
  <1>1. chain \in [Nets -> Seq(Contents)] /\ chain[n] \in Seq(Contents) /\ Len(chain[n]) \in Nat
    BY LenProperties DEF BlockInv, Types
  <1>2. CASE NewBlock(n)
    <2>1. PICK c \in Contents : chain' = [chain EXCEPT ![n] = Append(@, c)]
      BY <1>2 DEF NewBlock
    <2>2. chain' \in [Nets -> Seq(Contents)]
      BY <1>1, <2>1
    <2> QED
      BY <1>2, <2>2, EnvironmentKeeps DEF NewBlock, db
  <1>3. CASE Reorg(n)
    <2>1. PICK k \in Settled[n]..(Len(chain[n]) - 1), c \in Contents \ {"bad"} :
            chain' = [chain EXCEPT ![n] = [i \in 1..Len(@) |->
              IF i <= k THEN @[i] ELSE IF i = k + 1 THEN c ELSE "none"]]
      BY <1>3 DEF Reorg
    <2> DEFINE fork == [i \in 1..Len(chain[n]) |->
                          IF i <= k THEN chain[n][i] ELSE IF i = k + 1 THEN c ELSE "none"]
    <2>2. \A i \in 1..Len(chain[n]) : chain[n][i] \in Contents
      BY <1>1, ElementOfSeq
    <2>3. "none" \in Contents
      BY DEF Contents
    <2>4. fork \in [1..Len(chain[n]) -> Contents]
      BY <2>2, <2>3
    <2>5. fork \in Seq(Contents)
      BY <1>1, <2>4, SeqDef
    <2>6. chain' = [chain EXCEPT ![n] = fork]
      BY <2>1
    <2>7. chain' \in [Nets -> Seq(Contents)]
      BY <1>1, <2>5, <2>6
    <2> QED
      BY <1>3, <2>7, EnvironmentKeeps DEF Reorg, db
  <1> QED
    BY <1>2, <1>3

LEMMA LockExpiresKeeps ==
  ASSUME BlockInv, LockExpires
  PROVE  BlockInv'
  <1>1. Types' /\ ChainInv' /\ UNCHANGED <<rows, cur, task>>
    BY DEF BlockInv, Types, ChainInv, History, LockExpires, db
  <1>2. ~LockMayExpire => \A w \in Workers : task[w].pc \notin Active
    BY DEF BlockInv, Types, Exclusion, LockExpires, Active
  <1>3. Exclusion'
    BY <1>1, <1>2 DEF BlockInv, Exclusion
  <1> QED
    BY <1>1, <1>3 DEF BlockInv, Setting

LEMMA StartKeeps ==
  ASSUME BlockInv, NEW w \in Workers, StartPoa(w) \/ StartNethermind(w) \/ Acquire(w) \/ Crash(w)
  PROVE  BlockInv'
  <1> USE DEF BlockInv
  <1>1. CASE StartPoa(w) \/ StartNethermind(w)
    <2>1. PICK n \in Nets : /\ task' = [task EXCEPT ![w] = [Idle EXCEPT !.pc = "acquire", !.net = n]]
                            /\ n = "poa" <=> ~PoaIsDone
      BY <1>1 DEF StartPoa, StartNethermind, Step, Nets
    <2> DEFINE t == [Idle EXCEPT !.pc = "acquire", !.net = n]
    <2>2. t \in Tasks /\ t.pc = "acquire" /\ t.net = n
      BY IdleTask DEF Idle, Tasks
    <2>3. task'[w] = t /\ \A v \in Workers : v # w => task'[v] = task[v]
      BY <2>1 DEF Types
    <2>4. UNCHANGED <<chain, rows, cur, lock>>
      BY <1>1 DEF StartPoa, StartNethermind, db
    <2>5. Types' /\ ChainInv'
      BY <2>1, <2>2, <2>4 DEF Types, ChainInv, History
    <2>6. n = "poa" => \A c \in cur : c.net = "poa"
      <3> SUFFICES ASSUME n = "poa", NEW c \in cur, c.net # "poa" PROVE FALSE
        OBVIOUS
      <3>1. c \in Hash /\ c.net = "neth" /\ Low(c) <= Len(c.path) /\ Len(c.path) \in Nat
        BY AncestorSelf DEF Types, ChainInv, History, Hash, Nets
      <3>2. Number(c) >= FinalPOA
        BY <3>1 DEF Number, Setting
      <3>3. FinalPOA # 0
        BY DEF Exclusion
      <3> QED
        BY <2>1, <3>2, <3>3 DEF PoaIsDone
    <2>7. FinalPOA = 0 => n = "poa"
      BY <2>1 DEF PoaIsDone
    <2>8. Exclusion'
      BY <2>2, <2>3, <2>4, <2>6, <2>7 DEF Exclusion, Active, Types
    <2>9. \A v \in Workers : PassInv(task'[v], rows', cur')
      BY <2>2, <2>3, <2>4 DEF PassInv
    <2> QED
      BY <2>5, <2>8, <2>9 DEF Setting
  <1>2. CASE Acquire(w) /\ lock = NoWorker
    <2> DEFINE t == [task[w] EXCEPT !.pc = "target"]
    <2>1. /\ task[w] \in Tasks /\ task[w].pc = "acquire" /\ lock' = w
          /\ task' = [task EXCEPT ![w] = t] /\ UNCHANGED <<chain, rows, cur>>
      BY <1>2 DEF Types, Acquire, Step, db
    <2>2. t \in Tasks /\ t.pc = "target" /\ t.net = task[w].net
      BY <2>1 DEF Tasks, Active
    <2>3. task'[w] = t /\ \A v \in Workers : v # w => task'[v] = task[v]
      BY <2>1 DEF Types
    <2>4. Types' /\ ChainInv'
      BY <2>1, <2>2 DEF Types, ChainInv, History
    <2>5. Exclusion'
      <3>1. ~LockMayExpire => \A v \in Workers : v # w => task[v].pc \notin Active
        BY <1>2 DEF Exclusion, Setting
      <3> QED
        BY <2>1, <2>2, <2>3, <3>1 DEF Exclusion
    <2>6. \A v \in Workers : PassInv(task'[v], rows', cur')
      BY <2>1, <2>2, <2>3 DEF PassInv
    <2> QED
      BY <2>4, <2>5, <2>6 DEF Setting
  <1>3. CASE (Acquire(w) /\ lock # NoWorker) \/ Crash(w)
    <2>1. /\ task' = [task EXCEPT ![w] = Idle] /\ UNCHANGED <<chain, rows, cur, lock>>
      BY <1>3 DEF Acquire, Crash, Step, db
    <2>2. task'[w] = Idle /\ \A v \in Workers : v # w => task'[v] = task[v]
      BY <2>1 DEF Types
    <2>3. Types' /\ ChainInv'
      BY <2>1, IdleTask DEF Types, ChainInv, History
    <2>4. Exclusion'
      BY <2>1, <2>2, IdleTask DEF Exclusion, Active
    <2>5. \A v \in Workers : PassInv(task'[v], rows', cur')
      BY <2>1, <2>2, IdleTask DEF PassInv
    <2> QED
      BY <2>3, <2>4, <2>5 DEF Setting
  <1> QED
    BY <1>1, <1>2, <1>3

(* The current block of a pass that expects one.                           *)
LEMMA TheCurrent ==
  ASSUME BlockInv
  PROVE  \E c \in Hash :
           /\ History(c) /\ cur = {c} /\ Cardinality(cur) = 1 /\ (CHOOSE h \in cur : TRUE) = c
           /\ Len(c.path) \in Nat
           /\ \A w \in Workers : task[w].pc \in Active /\ task[w].net = "poa" => c.net = "poa"
  <1>1. PICK c \in rows : History(c)
    BY DEF BlockInv, ChainInv
  <1>2. c \in Hash /\ cur = {c}
    BY <1>1 DEF BlockInv, Types, History
  <1>3. Cardinality(cur) = 1 /\ (CHOOSE h \in cur : TRUE) = c
    BY <1>2, FS_Singleton
  <1>4. \A w \in Workers : task[w].pc \in Active /\ task[w].net = "poa" => c.net = "poa"
    BY <1>2 DEF BlockInv, Exclusion, Active
  <1> QED
    BY <1>1, <1>2, <1>3, <1>4, AncestorSelf

LEMMA GetLatestBlockKeeps ==
  ASSUME BlockInv, NEW w \in Workers, GetLatestBlock(w)
  PROVE  BlockInv'
  <1>1. PICK c \in Hash : /\ cur = {c} /\ Cardinality(cur) = 1
                          /\ (CHOOSE h \in cur : TRUE) = c /\ Len(c.path) \in Nat
    BY TheCurrent
  <1> DEFINE n == task[w].net
             top == IF n = "poa" THEN PoaTargets(c) ELSE NethermindTargets(c)
             t == [task[w] EXCEPT !.pc = "lists",
                     !.target = [net |-> n, path |-> SubSeq(chain[n], 1, top)]]
  <1>2. /\ task[w].pc = "target" /\ UNCHANGED <<chain, rows, cur>>
        /\ IF n = "neth" /\ top < 1 THEN Leave(w) ELSE Step(w, t) /\ UNCHANGED lock
    BY <1>1 DEF GetLatestBlock, db
  <1>3. CASE n = "neth" /\ top < 1
    BY <1>2, <1>3, LeaveKeeps
  <1>4. CASE ~(n = "neth" /\ top < 1)
    <2>1. /\ task[w] \in Tasks /\ n \in Nets /\ chain \in [Nets -> Seq(Contents)]
          /\ chain[n] \in Seq(Contents) /\ Len(chain[n]) \in Nat
      BY LenProperties DEF BlockInv, Types, Tasks
    <2>2. Number(c) \in Nat /\ Window \in Nat /\ FinalPOA \in Nat
      <3>1. Window \in Nat /\ FinalPOA \in Nat
        BY DEF BlockInv, Setting
      <3>2. (IF c.net = "neth" THEN FinalPOA ELSE 0) \in Nat
        BY <3>1
      <3>3. Number(c) \in Nat
        BY <1>1, <3>2 DEF Number
      <3> QED
        BY <3>1, <3>3
    <2>3. n = "poa" => top \in 0..Len(chain[n])
      <3>1. SUFFICES ASSUME n = "poa" PROVE PoaTargets(c) \in 0..Len(chain["poa"])
        BY Zenon
      <3>2. Number(c) + Window \in Nat /\ Len(chain["poa"]) \in Nat
        BY <2>1, <2>2, <3>1
      <3>3. PoaTargets(c) = IF Number(c) + Window <= Len(chain["poa"])
                            THEN Number(c) + Window ELSE Len(chain["poa"])
        <4> HIDE DEF n, top, t
        <4> QED
          BY <3>2, LesserOf DEF PoaTargets
      <3> QED
        BY <3>2, <3>3
    <2>4. n = "neth" => top \in 1..Len(chain[n])
      <3>1. Number(c) + Window - FinalPOA \in Int /\ Len(chain["neth"]) - 1 \in Int
        BY <2>1, <2>2 DEF Nets
      <3> QED
        BY <1>4, <2>1, <3>1, LesserOf DEF NethermindTargets, Nets
    <2>5. top \in 0..Len(chain[n]) /\ (n = "neth" => top >= 1)
      BY <2>1, <2>3, <2>4 DEF Nets
    <2> HIDE DEF top
    <2>6. SubSeq(chain[n], 1, top) \in Seq(Contents) /\ Len(SubSeq(chain[n], 1, top)) = top
      <3>1. \A i \in 1..top : chain[n][i] \in Contents
        BY <2>1, <2>5, ElementOfSeq
      <3> QED
        BY <2>5, <3>1, SubSeqProperties
    <2>7. /\ t \in Tasks /\ t.pc = "lists" /\ t.net = n
          /\ t.target.net = n /\ Len(t.target.path) = top
      BY <2>1, <2>6 DEF Tasks, Hash, Active
    <2>8. PassInv(t, rows, cur)
      BY <2>5, <2>7 DEF PassInv, Low
    <2> QED
      BY <1>2, <1>4, <2>7, <2>8, ContinueKeeps DEF Active
  <1> QED
    BY <1>3, <1>4

(* Lists of blocks as sequences.                                           *)
LEMMA ListOf ==
  ASSUME NEW n \in Nat, NEW f \in [1..n -> Hash]
  PROVE  f \in Seq(Hash) /\ Len(f) = n
  <1>1. f \in Seq(Hash)
    BY SeqDef
  <1>2. DOMAIN f = 1..Len(f) /\ Len(f) \in Nat /\ DOMAIN f = 1..n
    BY <1>1, LenProperties
  <1> QED
    BY <1>1, <1>2

LEMMA ToBeIndexed ==
  ASSUME NEW h \in Hash, Shared(h) \in 0..Len(h.path)
  PROVE  /\ IndexList(h) \in Seq(Hash) /\ Len(IndexList(h)) = Len(h.path) - Shared(h)
         /\ \A i \in 1..Len(IndexList(h)) : IndexList(h)[i] = Ancestor(h, Shared(h) + i)
  <1>1. Len(h.path) \in Nat
    BY AncestorSelf
  <1> DEFINE n == Len(h.path) - Shared(h)
  <1>2. n \in Nat /\ \A i \in 1..n : Shared(h) + i \in 0..Len(h.path)
    BY <1>1
  <1>3. IndexList(h) \in [1..n -> Hash]
    BY <1>2, AncestorType DEF IndexList
  <1>4. \A i \in 1..n : IndexList(h)[i] = Ancestor(h, Shared(h) + i)
    BY DEF IndexList
  <1> HIDE DEF n
  <1> QED
    BY <1>2, <1>3, <1>4, ListOf DEF n

LEMMA ToBeReverted ==
  ASSUME NEW c \in Hash, NEW s, NEW k \in 0..Len(c.path),
         RevertDepth(c, s) = Len(c.path) - k
  PROVE  /\ RevertList(c, s) \in Seq(Hash) /\ Len(RevertList(c, s)) = Len(c.path) - k
         /\ \A j \in 1..Len(RevertList(c, s)) :
              RevertList(c, s)[j] = Ancestor(c, Len(c.path) - j + 1)
  <1>1. Len(c.path) \in Nat
    BY AncestorSelf
  <1> DEFINE n == Len(c.path) - k
  <1>2. n \in Nat /\ \A j \in 1..n : Len(c.path) - j + 1 \in 0..Len(c.path)
    BY <1>1
  <1>3. RevertList(c, s) \in [1..n -> Hash]
    BY <1>2, AncestorType DEF RevertList
  <1>4. \A j \in 1..n : RevertList(c, s)[j] = Ancestor(c, Len(c.path) - j + 1)
    BY DEF RevertList
  <1> HIDE DEF n
  <1> QED
    BY <1>2, <1>3, <1>4, ListOf DEF n

LEMMA FindBlocksKeeps ==
  ASSUME BlockInv, NEW w \in Workers, FindBlocks(w)
  PROVE  BlockInv'
  <1>1. PICK c \in Hash : /\ History(c) /\ cur = {c} /\ Cardinality(cur) = 1
                          /\ (CHOOSE x \in cur : TRUE) = c /\ Len(c.path) \in Nat
                          /\ task[w].pc \in Active /\ task[w].net = "poa" => c.net = "poa"
    BY TheCurrent
  <1> DEFINE h == task[w].target
             s == Ancestor(h, Shared(h))
             undo == ~(h.net = "neth" /\ ReachedInitial(h))
             revert == IF undo THEN RevertList(c, s) ELSE <<>>
             t == [task[w] EXCEPT !.pc = "revert", !.index = IndexList(h), !.revert = revert]
  <1>2. /\ task[w].pc = "lists" /\ UNCHANGED <<chain, rows, cur>>
        /\ Leave(w) \/ (Step(w, t) /\ UNCHANGED lock)
    BY <1>1 DEF FindBlocks, db
  <1>3. CASE Leave(w)
    BY <1>2, <1>3, LeaveKeeps
  <1>4. CASE Step(w, t) /\ UNCHANGED lock
    <2>1. /\ task[w] \in Tasks /\ h \in Hash /\ h.net = task[w].net /\ h.net \in Nets
          /\ Low(h) <= Len(h.path) /\ Len(h.path) \in Nat /\ rows \subseteq Hash
      BY <1>2, AncestorSelf DEF BlockInv, Types, Tasks, PassInv, Hash
    <2>2. CASE Indexed(h) # {} /\ h.net = c.net
      <3>1. /\ Shared(h) \in Low(c)..Len(h.path) /\ Shared(h) <= Len(c.path)
            /\ s = Ancestor(c, Shared(h))
        BY <1>1, <2>1, <2>2, MeetsHistory
      <3>2. Low(c) \in Nat /\ Shared(h) \in 0..Len(h.path) /\ Shared(h) \in 0..Len(c.path)
            /\ Shared(h) \in Low(c)..Len(c.path) /\ Shared(h) \in Nat
        BY <1>1, <2>1, <3>1 DEF Low
      <3>3. RevertDepth(c, s) = Len(c.path) - Shared(h)
        BY <1>1, <3>1, <3>2, DepthToMeeting
      <3>4. undo
        BY <2>2 DEF ReachedInitial
      <3>5. /\ revert \in Seq(Hash) /\ Len(revert) = Len(c.path) - Shared(h)
            /\ \A j \in 1..Len(revert) : revert[j] = Ancestor(c, Len(c.path) - j + 1)
        BY <3>2, <3>3, <3>4, ToBeReverted
      <3>6. /\ IndexList(h) \in Seq(Hash) /\ Len(IndexList(h)) = Len(h.path) - Shared(h)
            /\ \A i \in 1..Len(IndexList(h)) : IndexList(h)[i] = Ancestor(h, Shared(h) + i)
        BY <2>1, <3>2, ToBeIndexed
      <3> HIDE DEF revert
      <3>7. /\ t \in Tasks /\ t.pc = "revert" /\ t.net = task[w].net /\ t.target = h
            /\ t.index = IndexList(h) /\ t.revert = revert
        BY <2>1, <3>5, <3>6 DEF Tasks, Active
      <3> HIDE DEF t, s, h
      <3>8. ListedFrom(t, Shared(h))
        BY <3>2, <3>6, <3>7 DEF ListedFrom
      <3>9. RevertReady(t, Shared(h), cur)
        BY <1>1, <2>2, <3>1, <3>2, <3>5, <3>7 DEF RevertReady, s
      <3>10. PassInv(t, rows, cur)
        BY <2>1, <3>2, <3>7, <3>8, <3>9 DEF PassInv
      <3> QED
        BY <1>2, <1>4, <3>7, <3>10, ContinueKeeps DEF Active
    <2>3. CASE ~(Indexed(h) # {} /\ h.net = c.net)
      <3>1. h.net = "neth" /\ Indexed(h) = {}
        <4>1. CASE h.net # c.net
          <5>1. h.net = "neth" /\ c.net = "poa"
            BY <1>1, <1>2, <2>1, <4>1 DEF Active, Nets, Hash
          <5>2. \A x \in rows : x.net = "poa"
            BY <1>1, <5>1 DEF History, Below
          <5> QED
            BY <2>1, <5>1, <5>2 DEF Indexed, Ancestor
        <4>2. CASE h.net = c.net /\ Indexed(h) = {}
          <5>1. CASE h.net = "poa"
            <6>1. 0 \in 0..Len(h.path) /\ 0 \in 0..Len(c.path) /\ 0 \in Low(c)..Len(c.path)
              BY <1>1, <2>1, <4>2, <5>1 DEF Low
            <6>2. Ancestor(c, 0) \in rows
              BY <1>1, <6>1 DEF History
            <6>3. Ancestor(h, 0) = Ancestor(c, 0)
              BY <2>1, <4>2, <6>1, AncestorType, SameHash
            <6> QED
              BY <4>2, <5>1, <6>1, <6>2, <6>3 DEF Indexed
          <5> QED
            BY <2>1, <4>2, <5>1 DEF Nets
        <4> QED
          BY <2>3, <4>1, <4>2
      <3>2. Shared(h) = 0 /\ ~undo /\ revert = <<>>
        BY <3>1 DEF Shared, ReachedInitial
      <3>3. /\ IndexList(h) \in Seq(Hash) /\ Len(IndexList(h)) = Len(h.path) - Shared(h)
            /\ \A i \in 1..Len(IndexList(h)) : IndexList(h)[i] = Ancestor(h, Shared(h) + i)
        BY <2>1, <3>2, ToBeIndexed
      <3>4. revert \in Seq(Hash)
        BY <3>2, EmptySeq
      <3> HIDE DEF revert
      <3>5. /\ t \in Tasks /\ t.pc = "revert" /\ t.net = task[w].net /\ t.target = h
            /\ t.index = IndexList(h) /\ t.revert = revert
        BY <2>1, <3>3, <3>4 DEF Tasks, Active
      <3> HIDE DEF t, s, h
      <3>6. ListedFrom(t, 0)
        BY <2>1, <3>2, <3>3, <3>5 DEF ListedFrom
      <3>7. RevertReady(t, 0, cur)
        BY <3>1, <3>2, <3>5 DEF RevertReady
      <3>8. PassInv(t, rows, cur)
        BY <2>1, <3>5, <3>6, <3>7 DEF PassInv
      <3> QED
        BY <1>2, <1>4, <3>5, <3>8, ContinueKeeps DEF Active
    <2> QED
      BY <2>2, <2>3
  <1> QED
    BY <1>2, <1>3, <1>4

LEMMA EndKeeps ==
  ASSUME BlockInv, NEW w \in Workers, FailCommit(w) \/ FailFetch(w) \/ Finish(w)
  PROVE  BlockInv'
  BY LeaveKeeps DEF FailCommit, FailFetch, Finish, db

LEMMA AfterCommitKeeps ==
  ASSUME BlockInv, NEW w \in Workers, AfterCommit(w)
  PROVE  BlockInv'
  <1> DEFINE t == [task[w] EXCEPT !.pc = "index", !.index = Tail(@), !.skip = FALSE]
  <1>1. task[w].pc = "redis" /\ Step(w, t) /\ UNCHANGED <<chain, rows, cur, lock>>
    BY DEF AfterCommit, db
  <1>2. task[w] \in Tasks /\ task[w].target \in Hash /\ task[w].index \in Seq(Hash)
    BY DEF BlockInv, Types, Tasks
  <1>3. /\ task[w].target.net = task[w].net /\ Low(task[w].target) <= Len(task[w].target.path)
        /\ Len(task[w].target.path) \in Nat
    BY <1>1, <1>2, AncestorSelf DEF BlockInv, PassInv
  <1>4. PICK k \in Nat : /\ ListedFrom(task[w], k) /\ k < Len(task[w].target.path)
                         /\ cur = {Ancestor(task[w].target, k + 1)}
    BY <1>1 DEF BlockInv, PassInv
  <1>5. task[w].index # <<>>
    BY <1>3, <1>4, EmptySeq DEF ListedFrom
  <1>6. /\ Tail(task[w].index) \in Seq(Hash) /\ Len(Tail(task[w].index)) = Len(task[w].index) - 1
        /\ \A i \in 1..Len(Tail(task[w].index)) : Tail(task[w].index)[i] = task[w].index[i + 1]
    BY <1>2, <1>5, HeadTailProperties
  <1>7. /\ t \in Tasks /\ t.pc = "index" /\ t.net = task[w].net /\ t.target = task[w].target
        /\ t.index = Tail(task[w].index)
    BY <1>2, <1>6 DEF Tasks, Active
  <1> HIDE DEF t
  <1>8. ListedFrom(t, k + 1)
    <2>1. k + 1 \in 0..Len(t.target.path) /\ Len(t.index) = Len(t.target.path) - (k + 1)
      BY <1>3, <1>4, <1>6, <1>7 DEF ListedFrom
    <2>2. ASSUME NEW i \in 1..Len(t.index) PROVE t.index[i] = Ancestor(t.target, (k + 1) + i)
      <3>1. i + 1 \in 1..Len(task[w].index) /\ t.index[i] = task[w].index[i + 1]
        BY <1>3, <1>4, <1>6, <1>7 DEF ListedFrom
      <3>2. task[w].index[i + 1] = Ancestor(task[w].target, k + (i + 1))
        BY <1>4, <3>1 DEF ListedFrom
      <3>3. k + (i + 1) = (k + 1) + i
        BY <2>1, <1>4
      <3> QED
        BY <1>7, <3>1, <3>2, <3>3
    <2> QED
      BY <2>1, <2>2 DEF ListedFrom
  <1>9. IndexReady(t, k + 1, rows, cur)
    BY <1>4, <1>7 DEF IndexReady, Low
  <1>10. PassInv(t, rows, cur)
    BY <1>3, <1>4, <1>7, <1>8, <1>9 DEF PassInv
  <1> QED
    BY <1>1, <1>7, <1>10, ContinueKeeps DEF Active

(* When the pass of w changes the tables nobody else is at work.           *)
LEMMA AloneKeeps ==
  ASSUME BlockInv, NEW w \in Workers, NEW t \in Tasks, Step(w, t),
         task[w].pc \in Active, t.pc \in Active, t.net = task[w].net,
         UNCHANGED <<chain, lock>>, rows' \subseteq Hash, ChainInv',
         \A c \in cur' : c.net = t.net \/ cur' = cur,
         PassInv(t, rows', cur')
  PROVE  BlockInv'
  <1>1. task' = [task EXCEPT ![w] = t] /\ task'[w] = t
        /\ \A v \in Workers : v # w => task'[v] = task[v]
    BY DEF Step, BlockInv, Types
  <1>2. \A v \in Workers : v # w => task[v].pc \notin Active
    BY OneAtWork
  <1>3. Types'
    BY <1>1 DEF BlockInv, Types, ChainInv, History
  <1>4. Exclusion'
    <2>1. ~LockMayExpire => \A v \in Workers : task'[v].pc \in Active => lock' = v
      BY <1>1 DEF BlockInv, Exclusion
    <2>2. FinalPOA = 0 => (\A v \in Workers : task'[v].net = "poa") /\ \A c \in cur' : c.net = "poa"
      BY <1>1 DEF BlockInv, Exclusion
    <2>3. ASSUME NEW v \in Workers, task'[v].pc # "idle", task'[v].net = "poa", NEW c \in cur'
          PROVE  c.net = "poa"
      <3>1. CASE v = w
        BY <1>1, <2>3, <3>1 DEF BlockInv, Exclusion, Active
      <3>2. CASE v # w
        BY <2>2, <3>2 DEF BlockInv, Setting
      <3> QED
        BY <3>1, <3>2
    <2> QED
      BY <2>1, <2>2, <2>3 DEF Exclusion
  <1>5. \A v \in Workers : PassInv(task'[v], rows', cur')
    BY <1>1, <1>2 DEF PassInv, Active
  <1> QED
    BY <1>3, <1>4, <1>5 DEF BlockInv, Setting

(* A block that can be committed continues the blocks table.              *)
LEMMA NextBlock ==
  ASSUME BlockInv, NEW w \in Workers, task[w].pc = "index", task[w].index # <<>>,
         NEW h, h = Head(task[w].index), CanCommit(h)
  PROVE  \E k \in Nat :
           /\ ListedFrom(task[w], k) /\ k < Len(task[w].target.path)
           /\ h = Ancestor(task[w].target, k + 1)
           /\ h \in Hash /\ h.net = task[w].target.net /\ Len(h.path) = k + 1
           /\ \A x \in rows : Below(x, h) \/ (x.net = "poa" /\ h.net = "neth")
           /\ \A i \in Low(h)..k : Ancestor(h, i) \in rows
           /\ \A c \in cur : c.net = h.net \/ (k = 0 /\ h.net = "neth" /\ c.net = "poa")
  <1> DEFINE T == task[w].target
  <1>1. task[w].pc = "index" /\ task[w].index # <<>> /\ CanCommit(h)
    OBVIOUS
  <1>2. task[w] \in Tasks /\ T \in Hash /\ task[w].index \in Seq(Hash) /\ rows \subseteq Hash
    BY DEF BlockInv, Types, Tasks
  <1>3. T.net = task[w].net /\ Low(T) <= Len(T.path) /\ Len(T.path) \in Nat
    BY <1>1, <1>2, AncestorSelf DEF BlockInv, PassInv
  <1>4. PICK k \in Nat : ListedFrom(task[w], k) /\ IndexReady(task[w], k, rows, cur)
    BY <1>1 DEF BlockInv, PassInv
  <1>5. k < Len(T.path) /\ h = Ancestor(T, k + 1) /\ k + 1 \in 0..Len(T.path)
    <2>1. Len(task[w].index) \in Nat \ {0} /\ h = task[w].index[1]
      BY <1>1, <1>2, EmptySeq
    <2>2. 1 \in 1..Len(task[w].index)
      BY <2>1
    <2> QED
      BY <1>3, <1>4, <2>1, <2>2 DEF ListedFrom
  <1>6. h \in Hash /\ h.net = T.net /\ Len(h.path) = k + 1
    BY <1>2, <1>5, AncestorType
  <1>7. PICK c \in Hash : History(c) /\ cur = {c} /\ Len(c.path) \in Nat
    BY TheCurrent
  <1>8. \A x \in rows : ~(x.net = h.net /\ Len(x.path) = k + 1)
    <2> SUFFICES ASSUME NEW x \in rows, x.net = h.net, Len(x.path) = k + 1 PROVE FALSE
      OBVIOUS
    <2>1. Number(x) = Number(h)
      BY <1>6 DEF Number
    <2> QED
      BY <1>1, <2>1 DEF CanCommit
  <1> HIDE DEF T
  <1>9. /\ \A x \in rows : Below(x, h) \/ (x.net = "poa" /\ h.net = "neth")
        /\ \A i \in Low(h)..k : Ancestor(h, i) \in rows
        /\ c.net = h.net \/ (k = 0 /\ h.net = "neth" /\ c.net = "poa")
    <2>1. CASE c = Ancestor(T, k) /\ k >= Low(T)
      <3>1. k \in 0..Len(T.path) /\ k \in 0..(k + 1)
        BY <1>3, <1>4, <1>5
      <3>2. Ancestor(h, k) = c /\ c.net = h.net /\ Len(c.path) = k
        BY <1>2, <1>5, <1>6, <2>1, <3>1, AncestorOfAncestor, AncestorType
      <3>3. \A i \in 0..k : Ancestor(h, i) = Ancestor(c, i)
        BY <1>4, <1>6, <3>1, <3>2, AncestorOfAncestor
      <3>4. \A x \in rows : Below(x, h) \/ (x.net = "poa" /\ h.net = "neth")
        <4> SUFFICES ASSUME NEW x \in rows, ~(x.net = "poa" /\ h.net = "neth") PROVE Below(x, h)
          OBVIOUS
        <4>1. Below(x, c) /\ Len(x.path) \in Nat
          BY <1>2, <1>7, <3>2, AncestorSelf DEF History
        <4>2. Len(x.path) \in 0..k
          BY <3>2, <4>1 DEF Below
        <4> QED
          BY <1>6, <3>2, <3>3, <4>1, <4>2 DEF Below
      <3>5. \A i \in Low(h)..k : Ancestor(h, i) \in rows
        <4>1. \A i \in Low(h)..k : i \in 0..k /\ i \in Low(c)..Len(c.path)
          BY <3>2 DEF Low
        <4> QED
          BY <1>7, <3>3, <4>1 DEF History
      <3> QED
        BY <3>2, <3>4, <3>5
    <2>2. CASE k = 0 /\ T.net = "neth"
      <3>1. c.net = "poa"
        <4> SUFFICES ASSUME c.net # "poa" PROVE FALSE
          OBVIOUS
        <4>1. c.net = "neth" /\ 1 \in Low(c)..Len(c.path) /\ 1 \in 0..Len(c.path)
          BY <1>7 DEF Hash, Nets, History, Low
        <4>2. Ancestor(c, 1) \in rows /\ Ancestor(c, 1).net = "neth" /\ Len(Ancestor(c, 1).path) = 1
          BY <1>7, <4>1, AncestorType DEF History
        <4> QED
          BY <1>6, <1>8, <2>2, <4>2
      <3>2. \A x \in rows : x.net = "poa"
        BY <1>7, <3>1 DEF History, Below
      <3> QED
        BY <1>6, <2>2, <3>1, <3>2 DEF Low
    <2>3. CASE \E x \in rows : x.net = T.net /\ Len(x.path) = k + 1
      BY <1>6, <1>8, <2>3
    <2> QED
      BY <1>4, <1>7, <2>1, <2>2, <2>3 DEF IndexReady, T
  <1> QED
    BY <1>4, <1>5, <1>6, <1>7, <1>9 DEF T

LEMMA IndexBlockKeeps ==
  ASSUME BlockInv, NEW w \in Workers, IndexBlock(w)
  PROVE  BlockInv'
  <1> DEFINE T == task[w].target
             h == Head(task[w].index)
             t == [task[w] EXCEPT !.pc = "redis", !.skip = SkipWholeBlock]
  <1>1. /\ task[w].pc = "index" /\ task[w].index # <<>> /\ CanCommit(h)
        /\ rows' = rows \cup {h} /\ cur' = {h} /\ Step(w, t) /\ UNCHANGED <<chain, lock>>
    BY DEF IndexBlock
  <1>2. task[w] \in Tasks /\ T \in Hash /\ task[w].index \in Seq(Hash) /\ rows \subseteq Hash
    BY DEF BlockInv, Types, Tasks
  <1>3. T.net = task[w].net /\ Low(T) <= Len(T.path) /\ Len(T.path) \in Nat
    BY <1>1, <1>2, AncestorSelf DEF BlockInv, PassInv
  <1> HIDE DEF h, T
  <1>4. PICK k \in Nat :
          /\ ListedFrom(task[w], k) /\ k < Len(T.path) /\ h = Ancestor(T, k + 1)
          /\ h \in Hash /\ h.net = T.net /\ Len(h.path) = k + 1
          /\ \A x \in rows : Below(x, h) \/ (x.net = "poa" /\ h.net = "neth")
          /\ \A i \in Low(h)..k : Ancestor(h, i) \in rows
    BY <1>1, NextBlock DEF h, T
  <1>5. Ancestor(h, k + 1) = h /\ Low(h) <= k + 1
    BY <1>4, AncestorSelf DEF Low
  <1>6. Below(h, h)
    BY <1>4, <1>5 DEF Below
  <1>7. \A i \in Low(h)..(k + 1) : Ancestor(h, i) \in rows'
    <2>1. \A i \in Low(h)..(k + 1) : i = k + 1 \/ i \in Low(h)..k
      BY <1>4 DEF Low
    <2> QED
      BY <1>1, <1>4, <1>5, <2>1 DEF h
  <1>8. h \in rows' /\ cur' = {h} /\ \A x \in rows' : x \in rows \/ x = h
    BY <1>1 DEF h
  <1>9. PICK g \in Hash : g = h
    BY <1>4
  <1>10. History(g)'
    BY <1>4, <1>5, <1>6, <1>7, <1>8, <1>9 DEF History
  <1>11. ChainInv'
    BY <1>8, <1>9, <1>10 DEF ChainInv
  <1>12. SkipWholeBlock \in BOOLEAN
    BY DEF SkipWholeBlock
  <1>13. /\ t \in Tasks /\ t.pc = "redis" /\ t.net = task[w].net /\ t.target = T
         /\ t.index = task[w].index
    BY <1>2, <1>12 DEF Tasks, Active, T
  <1> HIDE DEF t
  <1>14. ListedFrom(t, k)
    BY <1>4, <1>13 DEF ListedFrom, T
  <1>15. PassInv(t, rows', cur')
    BY <1>3, <1>4, <1>8, <1>13, <1>14 DEF PassInv
  <1>16. rows' \subseteq Hash /\ \A x \in cur' : x.net = t.net
    BY <1>2, <1>3, <1>4, <1>8, <1>13
  <1> QED
    BY <1>1, <1>11, <1>13, <1>15, <1>16, AloneKeeps DEF Active

(* Undoing the topmost m blocks of a history.                              *)
LEMMA TopUndone ==
  ASSUME NEW c \in Hash, rows \subseteq Hash, History(c), NEW m \in Nat,
         Low(c) <= Len(c.path) - m, NEW R,
         R = {Ancestor(c, Len(c.path) - j + 1) : j \in 1..m},
         rows' = rows \ R, cur' = (cur \ R) \cup ({Parent(b) : b \in R} \cap (rows \ R)),
         NEW g, g = Ancestor(c, Len(c.path) - m)
  PROVE  /\ History(g)' /\ g \in rows' /\ cur' = {g}
         /\ \A i \in Low(c)..(Len(c.path) - m) : Ancestor(c, i) \in rows'
  <1> DEFINE n == Len(c.path)
             top == n - m
  <1>1. n \in Nat /\ Low(c) \in Nat /\ top \in Low(c)..n /\ top \in 0..n /\ top \in Nat
    BY AncestorSelf DEF Low
  <1>2. /\ \A x \in R : \E i \in (top + 1)..n : x = Ancestor(c, i)
        /\ \A i \in (top + 1)..n : Ancestor(c, i) \in R
    <2>1. ASSUME NEW j \in 1..m PROVE n - j + 1 \in (top + 1)..n
      BY <1>1
    <2>2. ASSUME NEW i \in (top + 1)..n PROVE Ancestor(c, i) \in R
      <3>1. n - i + 1 \in 1..m /\ n - (n - i + 1) + 1 = i
        BY <1>1
      <3> QED
        BY <3>1
    <2> QED
      BY <2>1, <2>2
  <1>3. \A i \in 0..top : Ancestor(c, i) \notin R
    <2> SUFFICES ASSUME NEW i \in 0..top, Ancestor(c, i) \in R PROVE FALSE
      OBVIOUS
    <2>1. PICK k \in (top + 1)..n : Ancestor(c, i) = Ancestor(c, k)
      BY <1>2
    <2>2. i \in 0..n /\ k \in 0..n /\ i # k
      BY <1>1
    <2> QED
      BY <2>1, <2>2, AncestorType
  <1>4. \A i \in Low(c)..top : Ancestor(c, i) \in rows'
    <2>1. \A i \in Low(c)..top : i \in 0..top /\ i \in Low(c)..n
      BY <1>1
    <2> QED
      BY <1>3, <2>1 DEF History
  <1>5. g \in Hash /\ g.net = c.net /\ Len(g.path) = top /\ g \in rows'
        /\ \A i \in 0..top : Ancestor(g, i) = Ancestor(c, i)
    BY <1>1, <1>4, AncestorType, AncestorOfAncestor
  <1>6. cur' = {g}
    <2>1. CASE m = 0
      <3>1. g = c /\ R = {}
        BY <1>1, <2>1, AncestorSelf
      <3> QED
        BY <3>1 DEF History
    <2>2. CASE m > 0
      <3>1. n \in (top + 1)..n /\ top + 1 \in (top + 1)..n
        BY <1>1, <2>2
      <3>2. c \in R
        BY <1>2, <3>1, AncestorSelf
      <3>3. \A i \in (top + 1)..n : Parent(Ancestor(c, i)) = Ancestor(c, i - 1)
        <4> SUFFICES ASSUME NEW i \in (top + 1)..n
                     PROVE  Parent(Ancestor(c, i)) = Ancestor(c, i - 1)
          OBVIOUS
        <4>1. i \in 0..n /\ i - 1 \in 0..i
          BY <1>1
        <4> QED
          BY <4>1, AncestorType, AncestorOfAncestor DEF Parent
      <3>4. ASSUME NEW b \in R, Parent(b) \notin R PROVE Parent(b) = g
        <4>1. PICK i \in (top + 1)..n : b = Ancestor(c, i)
          BY <1>2
        <4>2. Ancestor(c, i - 1) \notin R /\ Parent(b) = Ancestor(c, i - 1)
          BY <3>3, <3>4, <4>1
        <4>3. i - 1 \notin (top + 1)..n
          BY <1>2, <4>2
        <4>4. i - 1 = top
          BY <1>1, <4>3
        <4> QED
          BY <4>2, <4>4
      <3>5. \E b \in R : Parent(b) = g
        <4>1. Ancestor(c, top + 1) \in R /\ (top + 1) - 1 = top
          BY <1>1, <1>2, <3>1
        <4>2. Parent(Ancestor(c, top + 1)) = Ancestor(c, (top + 1) - 1)
          BY <3>1, <3>3
        <4> QED
          BY <4>1, <4>2
      <3>6. g \in rows \ R
        BY <1>5
      <3> QED
        BY <3>2, <3>4, <3>5, <3>6 DEF History
    <2> QED
      BY <2>1, <2>2
  <1>7. \A x \in rows' : Below(x, g) \/ (x.net = "poa" /\ g.net = "neth")
    <2> SUFFICES ASSUME NEW x \in rows', ~(x.net = "poa" /\ g.net = "neth") PROVE Below(x, g)
      OBVIOUS
    <2>1. x \in Hash /\ Below(x, c) /\ x \notin R /\ Len(x.path) \in Nat
      BY <1>5, AncestorSelf DEF History
    <2>2. x = Ancestor(c, Len(x.path)) /\ Len(x.path) <= n
      BY <2>1 DEF Below
    <2>3. Len(x.path) \notin (top + 1)..n
      BY <1>2, <2>1, <2>2
    <2>4. Len(x.path) \in 0..top
      BY <1>1, <2>1, <2>2, <2>3
    <2> QED
      BY <1>5, <2>1, <2>2, <2>4 DEF Below
  <1>8. Low(g) = Low(c) /\ \A i \in Low(c)..top : Ancestor(g, i) \in rows' /\ i \in 0..top
    BY <1>1, <1>4, <1>5 DEF Low
  <1>9. History(g)'
    BY <1>1, <1>5, <1>6, <1>7, <1>8 DEF History
  <1> QED
    BY <1>4, <1>5, <1>6, <1>9

LEMMA RevertBlocksKeeps ==
  ASSUME BlockInv, NEW w \in Workers, RevertBlocks(w)
  PROVE  BlockInv'
  <1> DEFINE T == task[w].target
             n == Len(task[w].revert)
             m == MinOf({n, RevertSlice})
             R == {task[w].revert[j] : j \in 1..m}
             t == [task[w] EXCEPT !.pc = "index"]
  <1>1. task[w].pc = "revert" /\ UNCHANGED chain
        /\ \/ Leave(w) /\ UNCHANGED <<rows, cur>>
           \/ /\ Step(w, t) /\ UNCHANGED lock
              /\ rows' = rows \ R
              /\ cur' = (cur \ R) \cup ({Parent(b) : b \in R} \cap (rows \ R))
    BY DEF RevertBlocks, db
  <1>2. CASE Leave(w) /\ UNCHANGED <<rows, cur>>
    BY <1>1, <1>2, LeaveKeeps
  <1>3. CASE /\ Step(w, t) /\ UNCHANGED lock /\ rows' = rows \ R
             /\ cur' = (cur \ R) \cup ({Parent(b) : b \in R} \cap (rows \ R))
    <2>1. task[w] \in Tasks /\ T \in Hash /\ task[w].revert \in Seq(Hash) /\ rows \subseteq Hash
          /\ RevertSlice \in Nat
      BY DEF BlockInv, Types, Tasks, Setting
    <2>2. T.net = task[w].net /\ Low(T) <= Len(T.path) /\ n \in Nat
      BY <1>1, <2>1, LenProperties DEF BlockInv, PassInv
    <2>3. PICK k \in Nat : ListedFrom(task[w], k) /\ RevertReady(task[w], k, cur)
      BY <1>1 DEF BlockInv, PassInv
    <2>4. m = IF n <= RevertSlice THEN n ELSE RevertSlice
      BY <2>1, <2>2, LesserOf
    <2>5. /\ t \in Tasks /\ t.pc = "index" /\ t.net = task[w].net /\ t.target = T
          /\ t.index = task[w].index
      BY <2>1 DEF Tasks, Active
    <2> HIDE DEF t, m
    <2>6. ListedFrom(t, k)
      BY <2>3, <2>5 DEF ListedFrom
    <2>7. PICK c \in Hash : History(c) /\ cur = {c} /\ Len(c.path) \in Nat
      BY TheCurrent
    <2>8. CASE k = 0 /\ T.net = "neth" /\ task[w].revert = <<>>
      <3>1. n = 0 /\ m = 0
        BY <2>1, <2>4, <2>8, EmptySeq
      <3>2. R = {}
        BY <3>1
      <3>3. UNCHANGED <<rows, cur>>
        BY <1>3, <3>2
      <3>4. PassInv(t, rows, cur)
        BY <2>2, <2>5, <2>6, <2>8 DEF PassInv, IndexReady
      <3> QED
        BY <1>1, <1>3, <2>5, <3>3, <3>4, ContinueKeeps DEF Active
    <2>9. CASE /\ c.net = T.net /\ k >= Low(c) /\ k <= Len(c.path)
               /\ Ancestor(c, k) = Ancestor(T, k) /\ n = Len(c.path) - k
               /\ \A j \in 1..n : task[w].revert[j] = Ancestor(c, Len(c.path) - j + 1)
      <3>1. m \in 0..n /\ Low(T) = Low(c) /\ Low(c) \in Nat
        BY <2>1, <2>2, <2>4, <2>9 DEF Low
      <3>2. Low(c) <= Len(c.path) - m /\ Len(c.path) - m \in 0..Len(c.path)
        BY <2>2, <2>3, <2>7, <2>9, <3>1
      <3>3. R = {Ancestor(c, Len(c.path) - j + 1) : j \in 1..m}
        <4>1. \A j \in 1..m : task[w].revert[j] = Ancestor(c, Len(c.path) - j + 1)
          <5>1. \A j \in 1..m : j \in 1..n
            BY <2>2, <3>1
          <5> HIDE DEF n
          <5> QED
            BY <2>9, <5>1
        <4> QED
          BY <4>1
      <3> HIDE DEF R, T, n
      <3>4. PICK top, undone : top \in Nat /\ top = m /\ undone = R
        BY <2>2, <3>1
      <3>5. PICK g \in Hash : g = Ancestor(c, Len(c.path) - top)
        BY <3>2, <3>4, AncestorType
      <3>6. /\ History(g)' /\ g \in rows' /\ cur' = {g}
            /\ \A i \in Low(c)..(Len(c.path) - top) : Ancestor(c, i) \in rows'
        <4>1. /\ rows' = rows \ undone
              /\ cur' = (cur \ undone) \cup ({Parent(b) : b \in undone} \cap (rows \ undone))
          BY <1>3, <3>4
        <4>2. /\ undone = {Ancestor(c, Len(c.path) - j + 1) : j \in 1..top}
              /\ Low(c) <= Len(c.path) - top
          BY <3>3, <3>2, <3>4
        <4> QED
          BY <2>1, <2>7, <3>4, <3>5, <4>1, <4>2, TopUndone
      <3>7. ChainInv'
        BY <3>6 DEF ChainInv
      <3>8. IndexReady(t, k, rows', cur')
        <4>1. CASE m = n
          <5>1. Len(c.path) - m = k
            BY <2>3, <2>7, <2>9, <4>1
          <5> QED
            BY <2>5, <2>9, <3>1, <3>4, <3>5, <3>6, <5>1 DEF IndexReady
        <4>2. CASE m # n
          <5>1. k + 1 \in Low(c)..(Len(c.path) - m) /\ k + 1 \in 0..Len(c.path)
            BY <2>2, <2>3, <2>7, <2>9, <3>1, <3>2, <4>2
          <5>2. Ancestor(c, k + 1) \in rows' /\ Ancestor(c, k + 1).net = c.net
                /\ Len(Ancestor(c, k + 1).path) = k + 1
            BY <3>6, <3>4, <5>1, AncestorType
          <5> QED
            BY <2>5, <2>9, <5>2 DEF IndexReady
        <4> QED
          BY <4>1, <4>2
      <3>9. PassInv(t, rows', cur')
        BY <2>2, <2>3, <2>5, <2>6, <3>8 DEF PassInv, T
      <3>10. rows' \subseteq Hash /\ \A x \in cur' : x.net = t.net
        <4>1. g.net = c.net
          BY <3>5, <3>2, <3>4, AncestorType
        <4>2. c.net = t.net
          BY <2>2, <2>5, <2>9
        <4> QED
          BY <1>3, <2>1, <3>6, <4>1, <4>2
      <3> QED
        BY <1>1, <1>3, <2>5, <3>7, <3>9, <3>10, AloneKeeps DEF Active
    <2> QED
      BY <2>3, <2>7, <2>8, <2>9 DEF RevertReady
  <1> QED
    BY <1>1, <1>2, <1>3

-----------------------------------------------------------------------------
LEMMA InitBlockInv ==
  ASSUME Setting, Init
  PROVE  BlockInv
  <1>1. <<>> \in Seq(Contents) /\ Len(<<>>) = 0
    BY EmptySeq
  <1>2. StartHash \in Hash /\ Low(StartHash) = 0 /\ Len(StartHash.path) = 0
        /\ StartHash.net = "poa"
    BY <1>1 DEF StartHash, Hash, Nets, Low
  <1>3. Types
    BY <1>1, <1>2, IdleTask DEF Init, Types
  <1>4. Ancestor(StartHash, 0) = StartHash
    BY <1>2, AncestorSelf
  <1>5. History(StartHash)
    BY <1>2, <1>4 DEF Init, History, Below
  <1>6. ChainInv
    BY <1>5 DEF ChainInv, Init
  <1>7. Exclusion
    BY <1>2, IdleTask DEF Init, Exclusion, Active
  <1>8. \A w \in Workers : PassInv(task[w], rows, cur)
    BY IdleTask DEF Init, PassInv
  <1> QED
    BY <1>3, <1>6, <1>7, <1>8 DEF BlockInv

LEMMA NextBlockInv ==
  ASSUME BlockInv, [Next]_vars
  PROVE  BlockInv'
  <1>1. CASE UNCHANGED vars
    BY <1>1, EnvironmentKeeps DEF vars, BlockInv, Types
  <1>2. ASSUME NEW w \in Workers, Pass(w) PROVE BlockInv'
    BY <1>2, StartKeeps, GetLatestBlockKeeps, FindBlocksKeeps, RevertBlocksKeeps,
       IndexBlockKeeps, AfterCommitKeeps, EndKeeps DEF Pass
  <1>3. CASE Environment
    BY <1>3, ChainGrows, StartKeeps, EndKeeps DEF Environment
  <1>4. CASE LockExpires
    BY <1>4, LockExpiresKeeps
  <1> QED
    BY <1>1, <1>2, <1>3, <1>4 DEF Next

LEMMA BlockInvOneHistory ==
  ASSUME BlockInv
  PROVE  OneHistory
  <1>1. PICK c \in rows : History(c)
    BY DEF BlockInv, ChainInv
  <1> QED
    BY <1>1 DEF OneHistory, History, Below

(* Exactly one block is current, and the blocks table is its history, over *)
(* what the first network left: whatever is reorganised, reverted in parts *)
(* and indexed again, and wherever a pass fails, is refused or crashes.    *)
THEOREM HistoryIsOne ==
  ASSUME Setting
  PROVE  Spec => []OneHistory
  <1>1. Init => BlockInv
    BY InitBlockInv
  <1>2. BlockInv /\ [Next]_vars => BlockInv'
    BY NextBlockInv
  <1>3. BlockInv => OneHistory
    BY BlockInvOneHistory
  <1> QED
    BY <1>1, <1>2, <1>3, PTL DEF Spec

-----------------------------------------------------------------------------
TablesInv ==
  /\ hollow \subseteq rows
  /\ \A r \in tbl : r.kind \in Kinds /\ r.current \in BOOLEAN

LEMMA NextTablesInv ==
  ASSUME TablesInv, [Next]_vars
  PROVE  TablesInv'
  <1>1. CASE UNCHANGED db
    BY <1>1 DEF TablesInv, db
  <1>2. ASSUME NEW w \in Workers, RevertBlocks(w) PROVE TablesInv'
    <2>1. ASSUME NEW R, hollow' = hollow \ R, rows' = rows \ R, tbl' = RevertedTable(tbl, R)
          PROVE  TablesInv'
      <3>1. ASSUME NEW r \in tbl' PROVE r.kind \in Kinds /\ r.current \in BOOLEAN
        <4>1. PICK x \in tbl : r = Row(x.kind, x.hash, x.current \/ x \in Restored(tbl, R))
          BY <2>1, <3>1 DEF RevertedTable
        <4>2. \A b : Row(x.kind, x.hash, b).kind = x.kind /\ Row(x.kind, x.hash, b).current = b
          BY DEF Row
        <4>3. (x.current \/ x \in Restored(tbl, R)) \in BOOLEAN
          OBVIOUS
        <4>4. x.kind \in Kinds
          BY DEF TablesInv
        <4> QED
          BY <4>1, <4>2, <4>3, <4>4, Zenon
      <3> QED
        BY <2>1, <3>1 DEF TablesInv
    <2> DEFINE R == {task[w].revert[j] : j \in 1..MinOf({Len(task[w].revert), RevertSlice})}
    <2>2. UNCHANGED db \/ (hollow' = hollow \ R /\ rows' = rows \ R /\ tbl' = RevertedTable(tbl, R))
      BY <1>2 DEF RevertBlocks
    <2>3. PICK undone : undone = R
      OBVIOUS
    <2> QED
      BY <1>1, <2>1, <2>2, <2>3
  <1>3. ASSUME NEW w \in Workers, IndexBlock(w) PROVE TablesInv'
    <2> DEFINE h == Head(task[w].index)
    <2>1. /\ rows' = rows \cup {h} /\ hollow' \in {hollow, hollow \cup {h}}
          /\ tbl' = tbl \/ tbl' = IndexedTable(tbl, h)
      BY <1>3 DEF IndexBlock
    <2>2. \A r \in IndexedTable(tbl, h) : r.kind \in Kinds /\ r.current \in BOOLEAN
      <3>1. CASE Content(h) \in Kinds
        <4>1. ASSUME NEW r \in IndexedTable(tbl, h)
              PROVE  \/ r \in tbl
                     \/ \E x \in tbl : r = Row(x.kind, x.hash, FALSE)
                     \/ r = Row(Content(h), h, TRUE)
          BY <3>1, <4>1 DEF IndexedTable
        <4>2. ASSUME NEW r \in tbl PROVE r.kind \in Kinds /\ r.current \in BOOLEAN
          BY DEF TablesInv
        <4>3. ASSUME NEW x \in tbl
              PROVE  Row(x.kind, x.hash, FALSE).kind \in Kinds
                     /\ Row(x.kind, x.hash, FALSE).current \in BOOLEAN
          BY DEF TablesInv, Row
        <4>4. Row(Content(h), h, TRUE).kind \in Kinds /\ Row(Content(h), h, TRUE).current \in BOOLEAN
          BY <3>1 DEF Row
        <4> QED
          BY <4>1, <4>2, <4>3, <4>4
      <3>2. CASE Content(h) \notin Kinds
        BY <3>2 DEF IndexedTable, TablesInv
      <3> QED
        BY <3>1, <3>2
    <2>3. \A r \in tbl' : r.kind \in Kinds /\ r.current \in BOOLEAN
      BY <2>1, <2>2 DEF TablesInv
    <2> QED
      BY <2>1, <2>3 DEF TablesInv
  <1>4. \/ UNCHANGED db
        \/ \E w \in Workers : RevertBlocks(w) \/ IndexBlock(w)
    BY DEF Next, Pass, Environment, vars, db, StartPoa, StartNethermind, Acquire, LockExpires,
       Crash, GetLatestBlock, FindBlocks, AfterCommit, FailCommit, FailFetch, Finish,
       NewBlock, Reorg
  <1> QED
    BY <1>1, <1>2, <1>3, <1>4

(* The blocks and the rows of the indexed tables keep to their types.      *)
THEOREM BlockTypes ==
  ASSUME Setting
  PROVE  Spec => []TypeOK
  <1>1. Init => BlockInv /\ TablesInv
    BY InitBlockInv DEF Init, TablesInv
  <1>2. BlockInv /\ TablesInv /\ [Next]_vars => BlockInv' /\ TablesInv'
    BY NextBlockInv, NextTablesInv
  <1>3. BlockInv /\ TablesInv => TypeOK
    BY DEF BlockInv, Types, TablesInv, TypeOK, Hash, Tasks, Active
  <1> QED
    BY <1>1, <1>2, <1>3, PTL DEF Spec

-----------------------------------------------------------------------------
(* What the indexed tables hold.  Saves, reposts and follows are left out: *)
(* their revert goes wrong (MCSocialRevert).                               *)
ReplayKinds == VersionedKinds \ (SocialKinds \cup KeptKinds)
Latest(k, h) == \A g \in Writers(k) : Number(g) <= Number(h)
Replayed(k) == OfKind(tbl, k) = {Row(k, h, Latest(k, h)) : h \in Writers(k)}

\* The second network starts above everything that the first one left.
FirstNetworkEnds ==
  \A x \in rows, c \in cur : x.net = "poa" /\ c.net = "neth" => Len(x.path) <= FinalPOA

ReplayInv == FirstNetworkEnds /\ \A k \in ReplayKinds : Replayed(k)

LEMMA NumberType ==
  ASSUME FinalPOA \in Nat, NEW h \in Hash
  PROVE  /\ Number(h) \in Nat /\ Len(h.path) \in Nat
         /\ h.net = "poa" => Number(h) = Len(h.path)
         /\ h.net = "neth" => Number(h) = Len(h.path) + FinalPOA
  <1>1. Len(h.path) \in Nat
    BY AncestorSelf
  <1> DEFINE before == IF h.net = "neth" THEN FinalPOA ELSE 0
  <1>2. /\ before \in Nat /\ Number(h) = Len(h.path) + before
        /\ h.net = "poa" => before = 0
        /\ h.net = "neth" => before = FinalPOA
    BY DEF Number
  <1> HIDE DEF before
  <1> QED
    BY <1>1, <1>2

LEMMA SameNetwork ==
  ASSUME FinalPOA \in Nat, NEW g \in Hash, NEW h \in Hash, g.net = h.net
  PROVE  Number(g) < Number(h) <=> Len(g.path) < Len(h.path)
  <1>1. g.net = "poa" \/ g.net = "neth"
    BY DEF Hash, Nets
  <1>2. Number(g) \in Nat /\ Number(h) \in Nat /\ Len(g.path) \in Nat /\ Len(h.path) \in Nat
    BY NumberType
  <1>3. CASE g.net = "poa"
    BY <1>3, NumberType
  <1>4. CASE g.net = "neth"
    <2>1. Number(g) = Len(g.path) + FinalPOA /\ Number(h) = Len(h.path) + FinalPOA
      BY <1>4, NumberType
    <2> QED
      BY <1>2, <2>1
  <1> QED
    BY <1>1, <1>3, <1>4

LEMMA LowestNumber ==
  ASSUME FinalPOA \in Nat, NEW S \in SUBSET Hash, S # {}
  PROVE  \E b \in S : \A x \in S : Number(b) <= Number(x)
  <1> DEFINE T == {Number(x) : x \in S}
  <1>1. T \in SUBSET Nat /\ T # {}
    BY NumberType
  <1>2. PICK n \in T : \A m \in T : ~(<<m, n>> \in OpToRel(<, Nat))
    BY <1>1, NatLessThanWellFounded, WFMin
  <1>3. \A m \in T : n <= m
    <2> SUFFICES ASSUME NEW m \in T, m < n PROVE FALSE
      BY <1>1
    <2>1. <<m, n>> \in OpToRel(<, Nat)
      BY <1>1 DEF OpToRel
    <2> QED
      BY <1>2, <2>1
  <1>4. PICK b \in S : n = Number(b)
    OBVIOUS
  <1> QED
    BY <1>3, <1>4

(* A row of a kind is restored when the versions above it are all undone.  *)
LEMMA RestoredIsLatest ==
  ASSUME FinalPOA \in Nat, rows \subseteq Hash, NEW k \in ReplayKinds, Replayed(k), NEW R,
         \A x \in rows \ R : \A b \in rows \cap R : Number(x) < Number(b),
         NEW h \in Writers(k) \ R
  PROVE  Latest(k, h) \/ Row(k, h, Latest(k, h)) \in Restored(tbl, R)
           <=> \A g \in Writers(k) \ R : Number(g) <= Number(h)
  <1> DEFINE r == Row(k, h, Latest(k, h))
  <1>1. /\ \A g \in Writers(k) : Number(g) \in Nat /\ g \in rows /\ g \in Hash
        /\ k \in VersionedKinds /\ k \notin SocialKinds
    BY NumberType DEF Writers, ReplayKinds
  <1>2. /\ \A x \in OfKind(tbl, k) : x.hash \in Writers(k)
        /\ \A g \in Writers(k) : \E x \in OfKind(tbl, k) : x.hash = g
    <2>1. \A g, b : Row(k, g, b).hash = g
      BY DEF Row
    <2>2. \A g \in Writers(k) : \E b : Row(k, g, b) \in OfKind(tbl, k)
      BY Zenon DEF Replayed
    <2>3. \A x \in OfKind(tbl, k) : \E g \in Writers(k) : \E b : x = Row(k, g, b)
      BY Zenon DEF Replayed
    <2> QED
      BY <2>1, <2>2, <2>3
  <1>3. r \in OfKind(tbl, k) /\ r \in tbl /\ r.kind = k /\ r.hash = h
    BY DEF Replayed, Row, OfKind
  <1>4. r \in Restored(tbl, R) <=>
          \E b \in OfKind(tbl, k) :
            /\ b.hash \in R
            /\ IsHighest(r, {x \in OfKind(tbl, k) : Number(x.hash) < Number(b.hash)})
    BY <1>1, <1>3 DEF Restored, RestoredVersions, RestoredSocial
  <1> HIDE DEF r
  <1>5. ASSUME r \in Restored(tbl, R), NEW g \in Writers(k) \ R PROVE Number(g) <= Number(h)
    <2>1. PICK b \in OfKind(tbl, k) :
            /\ b.hash \in R
            /\ IsHighest(r, {x \in OfKind(tbl, k) : Number(x.hash) < Number(b.hash)})
      BY <1>4, <1>5
    <2>2. PICK x \in OfKind(tbl, k) : x.hash = g
      BY <1>2, <1>5
    <2>3. Number(g) < Number(b.hash)
      BY <1>1, <1>2, <1>5, <2>1
    <2> QED
      BY <1>3, <2>1, <2>2, <2>3 DEF IsHighest
  <1>6. ASSUME \A g \in Writers(k) \ R : Number(g) <= Number(h), ~Latest(k, h)
        PROVE  r \in Restored(tbl, R)
    <2> DEFINE S == Writers(k) \cap R
    <2>1. S \in SUBSET Hash /\ S # {}
      BY <1>1, <1>6 DEF Latest
    <2>2. PICK b \in S : \A x \in S : Number(b) <= Number(x)
      BY <2>1, LowestNumber
    <2>3. PICK y \in OfKind(tbl, k) : y.hash = b
      BY <1>2, <2>2
    <2>4. Number(h) < Number(b)
      BY <1>1, <2>2
    <2>5. \A x \in OfKind(tbl, k) : Number(x.hash) < Number(b) => Number(x.hash) <= Number(h)
      BY <1>1, <1>2, <1>6, <2>2
    <2> QED
      BY <1>3, <1>4, <2>2, <2>3, <2>4, <2>5 DEF IsHighest
  <1>7. Latest(k, h) => \A g \in Writers(k) \ R : Number(g) <= Number(h)
    BY DEF Latest
  <1> QED
    BY <1>5, <1>6, <1>7 DEF r

LEMMA UndoReplays ==
  ASSUME FinalPOA \in Nat, rows \subseteq Hash, NEW k \in ReplayKinds, Replayed(k), NEW R,
         \A x \in rows \ R : \A b \in rows \cap R : Number(x) < Number(b),
         rows' = rows \ R, hollow' = hollow \ R, tbl' = RevertedTable(tbl, R)
  PROVE  Replayed(k)'
  <1> DEFINE again(h) == Latest(k, h) \/ Row(k, h, Latest(k, h)) \in Restored(tbl, R)
  <1>1. Writers(k)' = Writers(k) \ R
    BY DEF Writers
  <1>2. ASSUME NEW h \in Writers(k) \ R PROVE Row(k, h, again(h)) = Row(k, h, Latest(k, h)')
    <2>1. again(h) <=> Latest(k, h)'
      BY <1>1, RestoredIsLatest DEF Latest
    <2>2. again(h) = Latest(k, h)'
      BY <2>1, Zenon DEF Latest
    <2> QED
      BY <2>2, Zenon
  <1>3. OfKind(tbl, k)' = {Row(k, h, again(h)) : h \in Writers(k) \ R}
    <2> DEFINE row(x) == Row(x.kind, x.hash, x.current \/ x \in Restored(tbl, R))
    <2>1. k \notin KeptKinds
      BY DEF ReplayKinds
    <2>2. OfKind(tbl, k)' = {row(x) : x \in {y \in OfKind(tbl, k) : y.hash \notin R}}
      <3>1. \A x : row(x).kind = x.kind
        BY DEF Row
      <3> HIDE DEF row
      <3>2. tbl' = {row(x) : x \in {y \in tbl : y.kind \in KeptKinds \/ y.hash \notin R}}
        BY DEF RevertedTable, row
      <3> QED
        BY <2>1, <3>1, <3>2 DEF OfKind
    <2>3. ASSUME NEW h \in Writers(k)
          PROVE  /\ Row(k, h, Latest(k, h)).hash = h
                 /\ row(Row(k, h, Latest(k, h))) = Row(k, h, again(h))
      <3>1. /\ Row(k, h, Latest(k, h)).kind = k /\ Row(k, h, Latest(k, h)).hash = h
            /\ Row(k, h, Latest(k, h)).current = Latest(k, h)
        BY DEF Row
      <3> QED
        BY <3>1, Zenon
    <2> HIDE DEF row, again
    <2>4. OfKind(tbl, k) = {Row(k, h, Latest(k, h)) : h \in Writers(k)}
      BY DEF Replayed
    <2> QED
      BY <2>2, <2>3, <2>4
  <1> HIDE DEF again
  <1>4. OfKind(tbl, k)' = {Row(k, h, Latest(k, h)') : h \in Writers(k)'}
    BY <1>1, <1>2, <1>3
  <1> QED
    BY <1>4 DEF Replayed

(* What a revert undoes lies above all that it keeps.                      *)
Undone(t) == {t.revert[j] : j \in 1..MinOf({Len(t.revert), RevertSlice})}
Topmost(c, m) == {Ancestor(c, Len(c.path) - j + 1) : j \in 1..m}

LEMMA RevertedTop ==
  ASSUME BlockInv, NEW w \in Workers, task[w].pc = "revert"
  PROVE  \/ Undone(task[w]) = {}
         \/ \E c \in Hash, m \in Nat :
              /\ History(c) /\ Low(c) <= Len(c.path) - m
              /\ Undone(task[w]) = Topmost(c, m)
  <1> DEFINE t == task[w]
             n == Len(t.revert)
             m == MinOf({n, RevertSlice})
  <1>1. t.revert \in Seq(Hash) /\ n \in Nat /\ RevertSlice \in Nat
    BY LenProperties DEF BlockInv, Types, Tasks, Setting
  <1>2. m \in Nat /\ m <= n
    BY <1>1, LesserOf
  <1>3. PICK k \in Nat : RevertReady(t, k, cur)
    BY DEF BlockInv, PassInv
  <1>4. PICK c \in Hash : History(c) /\ cur = {c} /\ Len(c.path) \in Nat
    BY TheCurrent
  <1>5. CASE t.revert = <<>>
    <2>1. m = 0
      BY <1>2, <1>5, EmptySeq
    <2> QED
      BY <2>1 DEF Undone
  <1>6. CASE /\ k >= Low(c) /\ k <= Len(c.path) /\ n = Len(c.path) - k
             /\ \A j \in 1..n : t.revert[j] = Ancestor(c, Len(c.path) - j + 1)
    <2>1. \A j \in 1..m : j \in 1..n
      BY <1>1, <1>2
    <2>2. Low(c) <= Len(c.path) - m
      BY <1>1, <1>2, <1>3, <1>4, <1>6 DEF Low
    <2> HIDE DEF n, m
    <2>3. Undone(task[w]) = Topmost(c, m)
      <3>1. \A j \in 1..m : t.revert[j] = Ancestor(c, Len(c.path) - j + 1)
        BY <1>6, <2>1
      <3>2. Undone(task[w]) = {t.revert[j] : j \in 1..m}
        BY DEF m, n, Undone
      <3> QED
        BY <3>1, <3>2 DEF Topmost
    <2> QED
      BY <1>2, <1>4, <2>2, <2>3
  <1> QED
    BY <1>3, <1>4, <1>5, <1>6 DEF RevertReady

LEMMA UndoneAbove ==
  ASSUME BlockInv, FirstNetworkEnds, NEW c \in Hash, History(c), NEW m \in Nat,
         Low(c) <= Len(c.path) - m, NEW R, R = Topmost(c, m),
         NEW x \in rows \ R, NEW b \in R
  PROVE  Number(x) < Number(b)
  <1>1. x \in Hash /\ FinalPOA \in Nat /\ Len(c.path) \in Nat /\ c.net \in Nets
    BY AncestorSelf DEF BlockInv, Types, Setting, Hash
  <1>2. PICK j \in 1..m : b = Ancestor(c, Len(c.path) - j + 1)
    BY DEF Topmost
  <1> DEFINE i == Len(c.path) - j + 1
  <1>3. i \in 0..Len(c.path) /\ i > Len(c.path) - m /\ i > 0
    BY <1>1 DEF Low
  <1>4. b \in Hash /\ b.net = c.net /\ Len(b.path) = i
    BY <1>2, <1>3, AncestorType
  <1>5. CASE Below(x, c)
    <2>1. x.net = c.net /\ x = Ancestor(c, Len(x.path)) /\ Len(x.path) \in 0..Len(c.path)
      BY <1>1, <1>5, AncestorSelf DEF Below
    <2>2. Len(x.path) <= Len(c.path) - m
      <3> SUFFICES ASSUME Len(x.path) > Len(c.path) - m PROVE FALSE
        BY <1>1, <2>1
      <3>1. \A n \in Nat : \A y \in 0..n : y > n - m => \E l \in 1..m : y = n - l + 1
        <4> SUFFICES ASSUME NEW n \in Nat, NEW y \in 0..n, y > n - m
                     PROVE  \E l \in 1..m : y = n - l + 1
          OBVIOUS
        <4>1. n - y + 1 \in 1..m /\ y = n - (n - y + 1) + 1
          OBVIOUS
        <4> QED
          BY <4>1
      <3>2. \E l \in 1..m : Len(x.path) = Len(c.path) - l + 1
        BY <1>1, <2>1, <3>1
      <3>3. x \in R
        BY <2>1, <3>2 DEF Topmost
      <3> QED
        BY <3>3
    <2>3. Len(x.path) < Len(b.path)
      BY <1>1, <1>3, <1>4, <2>1, <2>2
    <2> QED
      BY <1>1, <1>4, <2>1, <2>3, SameNetwork
  <1>6. CASE x.net = "poa" /\ c.net = "neth"
    <2>1. Len(x.path) <= FinalPOA
      BY <1>6 DEF FirstNetworkEnds, History
    <2>2. Number(x) = Len(x.path) /\ Len(x.path) \in Nat
      BY <1>1, <1>6, NumberType
    <2>3. Number(b) = Len(b.path) + FinalPOA /\ Len(b.path) \in Nat
      BY <1>1, <1>4, <1>6, NumberType
    <2>4. Len(b.path) > 0
      BY <1>1, <1>3, <1>4
    <2> HIDE DEF i
    <2> QED
      BY <1>1, <2>1, <2>2, <2>3, <2>4
  <1> QED
    BY <1>5, <1>6 DEF History

LEMMA RevertReplays ==
  ASSUME BlockInv, ReplayInv, NEW w \in Workers, RevertBlocks(w)
  PROVE  ReplayInv'
  <1>1. FinalPOA \in Nat /\ rows \subseteq Hash
    BY DEF BlockInv, Types, Setting
  <1>2. PICK R : R = Undone(task[w])
    OBVIOUS
  <1>3. \/ UNCHANGED db
        \/ /\ rows' = rows \ R /\ hollow' = hollow \ R /\ tbl' = RevertedTable(tbl, R)
           /\ cur' = (cur \ R) \cup ({Parent(b) : b \in R} \cap (rows \ R))
    BY <1>2 DEF RevertBlocks, Undone
  <1>4. CASE UNCHANGED db
    BY <1>4 DEF db, ReplayInv, FirstNetworkEnds, Replayed, Latest, Writers
  <1>5. CASE /\ rows' = rows \ R /\ hollow' = hollow \ R /\ tbl' = RevertedTable(tbl, R)
             /\ cur' = (cur \ R) \cup ({Parent(b) : b \in R} \cap (rows \ R))
    <2>1. \/ R = {}
          \/ \E c \in Hash, m \in Nat :
               /\ History(c) /\ Low(c) <= Len(c.path) - m
               /\ R = Topmost(c, m)
      <3>1. task[w].pc = "revert"
        BY DEF RevertBlocks
      <3> QED
        BY <1>2, <3>1, RevertedTop
    <2>2. \A x \in rows \ R : \A b \in rows \cap R : Number(x) < Number(b)
      BY <2>1, UndoneAbove DEF ReplayInv
    <2>3. \A k \in ReplayKinds : Replayed(k)'
      BY <1>1, <1>5, <2>2, UndoReplays DEF ReplayInv
    <2>4. FirstNetworkEnds'
      <3>1. CASE R = {}
        BY <1>5, <3>1 DEF ReplayInv, FirstNetworkEnds
      <3>2. ASSUME NEW c \in Hash, NEW m \in Nat, History(c), Low(c) <= Len(c.path) - m,
                   R = Topmost(c, m)
            PROVE  FirstNetworkEnds'
        <4>1. Len(c.path) - m \in 0..Len(c.path)
          BY <3>2, AncestorSelf DEF Low
        <4>2. PICK g \in Hash : g = Ancestor(c, Len(c.path) - m) /\ g.net = c.net
          BY <4>1, AncestorType
        <4>3. cur' = {g}
          BY <1>1, <1>5, <3>2, <4>2, TopUndone DEF Topmost
        <4> QED
          BY <1>5, <3>2, <4>2, <4>3 DEF ReplayInv, FirstNetworkEnds, History
      <3> QED
        BY <2>1, <3>1, <3>2
    <2> QED
      BY <2>3, <2>4 DEF ReplayInv
  <1> QED
    BY <1>3, <1>4, <1>5

-----------------------------------------------------------------------------
(* A committed block is above all that is indexed.                         *)
LEMMA CommitAbove ==
  ASSUME BlockInv, FirstNetworkEnds, NEW w \in Workers, task[w].pc = "index",
         task[w].index # <<>>, NEW h, h = Head(task[w].index), CanCommit(h)
  PROVE  /\ h \in Hash /\ Len(h.path) > 0 /\ h \notin rows
         /\ \A x \in rows : Number(x) < Number(h)
         /\ h.net = "neth" => \A x \in rows : x.net = "poa" => Len(x.path) <= FinalPOA
  <1>1. PICK k \in Nat :
          /\ h \in Hash /\ Len(h.path) = k + 1
          /\ \A x \in rows : Below(x, h) \/ (x.net = "poa" /\ h.net = "neth")
          /\ \A c \in cur : c.net = h.net \/ (k = 0 /\ h.net = "neth" /\ c.net = "poa")
    BY NextBlock
  <1>2. PICK c \in Hash : History(c) /\ cur = {c} /\ Len(c.path) \in Nat
    BY TheCurrent
  <1>3. /\ FinalPOA \in Nat /\ rows \subseteq Hash
        /\ \A x \in rows : x # h /\ Number(x) # Number(h)
    BY DEF BlockInv, Types, Setting, CanCommit
  <1>4. ASSUME h.net = "neth", NEW x \in rows, x.net = "poa", Len(x.path) > FinalPOA
        PROVE  FALSE
    <2>1. c.net = "poa" /\ k = 0
      <3>1. ~(Len(x.path) <= FinalPOA)
        BY <1>3, <1>4, NumberType
      <3>2. c.net # "neth"
        BY <1>2, <1>4, <3>1 DEF FirstNetworkEnds
      <3> QED
        BY <1>1, <1>2, <1>4, <3>2
    <2>2. Len(x.path) <= Len(c.path) /\ Len(x.path) \in Nat
      BY <1>2, <1>3, <2>1, NumberType DEF History, Below
    <2>3. FinalPOA + 1 \in Low(c)..Len(c.path) /\ FinalPOA + 1 \in 0..Len(c.path)
      BY <1>2, <1>3, <1>4, <2>1, <2>2 DEF Low
    <2>4. /\ Ancestor(c, FinalPOA + 1) \in rows /\ Ancestor(c, FinalPOA + 1).net = "poa"
          /\ Len(Ancestor(c, FinalPOA + 1).path) = FinalPOA + 1
      BY <1>2, <2>1, <2>3, AncestorType DEF History
    <2>5. Number(Ancestor(c, FinalPOA + 1)) = FinalPOA + 1
      BY <1>3, <2>4, NumberType
    <2>6. h \in Hash /\ Len(h.path) = 1
      BY <1>1, <2>1
    <2>7. Number(h) = 1 + FinalPOA
      BY <1>3, <1>4, <2>6, NumberType
    <2> QED
      BY <1>3, <2>4, <2>5, <2>7
  <1>5. \A x \in rows : Len(x.path) \in Nat /\ x \in Hash
    BY <1>3, NumberType
  <1>6. h.net = "neth" => \A x \in rows : x.net = "poa" => Len(x.path) <= FinalPOA
    BY <1>3, <1>4, <1>5
  <1>7. ASSUME NEW x \in rows PROVE Number(x) < Number(h)
    <2>1. CASE Below(x, h)
      <3>1. x.net = h.net /\ Len(x.path) <= Len(h.path) /\ h.net \in Nets
        BY <1>1, <2>1 DEF Below, Hash
      <3>2. Len(x.path) # Len(h.path)
        BY <1>1, <1>3, <2>1, AncestorSelf DEF Below
      <3>3. Len(x.path) < Len(h.path)
        BY <1>1, <1>5, <3>1, <3>2
      <3> QED
        BY <1>1, <1>3, <1>5, <3>1, <3>3, SameNetwork
    <2>2. CASE x.net = "poa" /\ h.net = "neth"
      BY <1>1, <1>3, <1>5, <1>6, <2>2, NumberType
    <2> QED
      BY <1>1, <2>1, <2>2
  <1> QED
    BY <1>1, <1>3, <1>6, <1>7

LEMMA CommitReplays ==
  ASSUME BlockInv, TablesInv, ReplayInv, NEW w \in Workers, IndexBlock(w)
  PROVE  ReplayInv'
  <1>1. PICK h : h = Head(task[w].index)
    OBVIOUS
  <1>2. /\ task[w].pc = "index" /\ task[w].index # <<>> /\ CanCommit(h)
        /\ rows' = rows \cup {h} /\ cur' = {h}
        /\ \/ tbl' = tbl /\ hollow' = hollow \cup {h}
           \/ tbl' = IndexedTable(tbl, h) /\ hollow' = hollow
    BY <1>1 DEF IndexBlock
  <1>3. /\ h \in Hash /\ Len(h.path) > 0 /\ h \notin rows
        /\ \A x \in rows : Number(x) < Number(h)
        /\ h.net = "neth" => \A x \in rows : x.net = "poa" => Len(x.path) <= FinalPOA
    BY <1>1, <1>2, CommitAbove DEF ReplayInv
  <1>4. \A x \in rows \cup {h} : Number(x) \in Nat
    BY <1>3, NumberType DEF BlockInv, Types, Setting
  <1>5. FirstNetworkEnds'
    BY <1>2, <1>3 DEF FirstNetworkEnds
  <1>6. ASSUME NEW k \in ReplayKinds PROVE Replayed(k)'
    <2>1. k \in Kinds
      BY <1>6 DEF ReplayKinds, Kinds
    <2>2. CASE tbl' = tbl /\ hollow' = hollow \cup {h}
      <3>1. \A x : x \in rows' /\ x \notin hollow' <=> x \in rows /\ x \notin hollow
        BY <1>2, <1>3, <2>2
      <3>2. Writers(k)' = Writers(k)
        BY <3>1, Zenon DEF Writers
      <3>3. Replayed(k)
        BY <1>6 DEF ReplayInv
      <3> QED
        BY <2>2, <3>2, <3>3 DEF OfKind, Replayed, Latest
    <2>3. CASE tbl' = IndexedTable(tbl, h) /\ hollow' = hollow /\ Content(h) # k
      <3>1. Writers(k)' = Writers(k)
        <4>1. \A x : x \in rows' /\ x \notin hollow' /\ Content(x) = k
                     <=> x \in rows /\ x \notin hollow /\ Content(x) = k
          BY <1>2, <1>3, <2>3
        <4> QED
          BY <4>1, Zenon DEF Writers
      <3>2. OfKind(tbl, k)' = OfKind(tbl, k)
        BY <2>3 DEF OfKind, IndexedTable, Row
      <3>3. Replayed(k)
        BY <1>6 DEF ReplayInv
      <3> QED
        BY <3>1, <3>2, <3>3 DEF Replayed, Latest
    <2>4. CASE tbl' = IndexedTable(tbl, h) /\ hollow' = hollow /\ Content(h) = k
      <3>1. Writers(k)' = Writers(k) \cup {h} /\ Writers(k) \subseteq rows
        BY <1>2, <1>3, <2>4 DEF Writers, TablesInv
      <3>2. OfKind(tbl, k)' = {Row(k, x.hash, FALSE) : x \in OfKind(tbl, k)} \cup {Row(k, h, TRUE)}
        BY <2>1, <2>4 DEF OfKind, IndexedTable, Row
      <3>3. {Row(k, x.hash, FALSE) : x \in OfKind(tbl, k)} = {Row(k, g, FALSE) : g \in Writers(k)}
        <4>1. /\ \A g \in Writers(k) : \E b : Row(k, g, b) \in OfKind(tbl, k)
              /\ \A x \in OfKind(tbl, k) : \E g \in Writers(k) : \E b : x = Row(k, g, b)
          <5>1. Replayed(k)
            BY <1>6 DEF ReplayInv
          <5> QED
            BY <5>1, Zenon DEF Replayed
        <4>2. \A g, b : Row(k, g, b).hash = g
          BY DEF Row
        <4>3. \A x \in OfKind(tbl, k) : x.hash \in Writers(k)
          BY <4>1, <4>2
        <4>4. \A g \in Writers(k) : \E x \in OfKind(tbl, k) : x.hash = g
          BY <4>1, <4>2
        <4> QED
          BY <4>3, <4>4, Zenon
      <3>4. \A g \in Writers(k) : Latest(k, g)' = FALSE
        <4>1. \A g \in Writers(k) : ~(Number(h) <= Number(g))
          BY <1>3, <1>4, <3>1
        <4>2. h \in Writers(k)'
          BY <3>1
        <4> QED
          BY <4>1, <4>2, Zenon DEF Latest
      <3>5. Latest(k, h)' = TRUE
        <4>1. \A g \in Writers(k)' : Number(g) <= Number(h)
          BY <1>3, <1>4, <3>1
        <4> QED
          BY <4>1, Zenon DEF Latest
      <3>6. {Row(k, g, Latest(k, g)') : g \in Writers(k)'}
              = {Row(k, g, FALSE) : g \in Writers(k)} \cup {Row(k, h, TRUE)}
        <4>1. \A g \in Writers(k) : Row(k, g, Latest(k, g)') = Row(k, g, FALSE)
          BY <3>4, Zenon
        <4>2. Row(k, h, Latest(k, h)') = Row(k, h, TRUE)
          BY <3>5, Zenon
        <4> QED
          BY <3>1, <4>1, <4>2
      <3> QED
        BY <3>2, <3>3, <3>6 DEF Replayed
    <2> QED
      BY <1>2, <2>2, <2>3, <2>4
  <1> QED
    BY <1>5, <1>6 DEF ReplayInv

LEMMA NextReplays ==
  ASSUME BlockInv, TablesInv, ReplayInv, [Next]_vars
  PROVE  ReplayInv'
  <1>1. CASE UNCHANGED db
    BY <1>1 DEF db, ReplayInv, FirstNetworkEnds, Replayed, Latest, Writers
  <1>2. \/ UNCHANGED db
        \/ \E w \in Workers : RevertBlocks(w) \/ IndexBlock(w)
    BY DEF Next, Pass, Environment, vars, db, StartPoa, StartNethermind, Acquire, LockExpires,
       Crash, GetLatestBlock, FindBlocks, AfterCommit, FailCommit, FailFetch, Finish,
       NewBlock, Reorg
  <1> QED
    BY <1>1, <1>2, RevertReplays, CommitReplays

LEMMA InitReplays ==
  ASSUME Setting, Init
  PROVE  ReplayInv
  <1>1. FirstNetworkEnds
    BY DEF Init, FirstNetworkEnds, StartHash
  <1>2. ASSUME NEW k PROVE Writers(k) = {}
    <2>1. Len(StartHash.path) = 0
      BY EmptySeq DEF StartHash
    <2> QED
      BY <2>1 DEF Init, Writers
  <1>3. ASSUME NEW k PROVE OfKind(tbl, k) = {}
    BY DEF Init, OfKind
  <1> QED
    BY <1>1, <1>2, <1>3 DEF ReplayInv, Replayed

(* Whatever was reorganised, reverted in slices and indexed again, and     *)
(* wherever passes failed, were skipped or crashed: the versions of an     *)
(* entity are the ones that the indexed blocks wrote, and its current one  *)
(* is the latest.  For every table but those of saves, reposts and follows *)
(* (whose revert is the finding of MCSocialRevert).                        *)
THEOREM TablesAreReplayed ==
  ASSUME Setting
  PROVE  Spec => [](\A k \in ReplayKinds : Replayed(k))
  <1>1. Init => BlockInv /\ TablesInv /\ ReplayInv
    BY InitBlockInv, InitReplays DEF Init, TablesInv
  <1>2. BlockInv /\ TablesInv /\ ReplayInv /\ [Next]_vars
          => BlockInv' /\ TablesInv' /\ ReplayInv'
    BY NextBlockInv, NextTablesInv, NextReplays
  <1>3. ReplayInv => \A k \in ReplayKinds : Replayed(k)
    BY DEF ReplayInv
  <1> QED
    BY <1>1, <1>2, <1>3, PTL DEF Spec

(* The same in the words of the model, for a node without those tables.    *)
THEOREM VersionsAreReplayed ==
  ASSUME Setting, SocialKinds = {}, VersionedKinds \cap KeptKinds = {}
  PROVE  Spec => []TableIsReplay
  <1>1. (\A k \in ReplayKinds : Replayed(k)) => TableIsReplay
    BY Zenon DEF TableIsReplay, ReplayKinds, Replayed, Latest
  <1> QED
    BY <1>1, TablesAreReplayed, PTL

-----------------------------------------------------------------------------
(* Skipped blocks.  An answer FAILED may be about an error of long ago,    *)
(* from redis or from a row: the proof relates both to the blocks the node *)
(* ever failed to commit, and the count of answers to the nodes that gave  *)
(* them.                                                                   *)

\* Any finite set of nodes and any length of the chain.
Sizes == IsFiniteSet(Nodes) /\ MaxBlock \in Nat

NodeTypes ==
  /\ height \in [Nodes -> 0..MaxBlock]
  /\ hollow \in [Nodes -> SUBSET (1..MaxBlock)]
  /\ \A n \in Nodes : hollow[n] \subseteq 1..height[n]
  /\ skipped \in [Nodes -> [1..MaxBlock -> Nat]]
  /\ err \in [Nodes -> [block : 0..MaxBlock, consensus : BOOLEAN]]
  /\ pass \in [Nodes -> [pc : {"index", "ask", "clear"}, asked : SUBSET Nodes, failures : Nat]]
  /\ failed \in [Nodes -> SUBSET (1..MaxBlock)]

\* The error in redis is about a block that the node failed to commit.
ErrorIsOwn(n) == err[n].block \in failed[n] \cup {0}

\* Nodes asked so far that ever failed to commit the block in question, at
\* least as many as have said so.
Confirming(n) == {m \in pass[n].asked : err[n].block \in failed[m]}
AnswersCounted(n) ==
  /\ pass[n].asked \subseteq Agreed!Others(n)
  /\ pass[n].failures <= Cardinality(Confirming(n))
  /\ pass[n].pc = "ask" => err[n].block # 0
  /\ pass[n].pc # "ask" => pass[n].asked = {}

\* A node acts on an error only when the block has failed everywhere.
ConsensusEarned(n) ==
  err[n].consensus => \A m \in Nodes : err[n].block \in failed[m]

SkipInv ==
  /\ Sizes
  /\ NodeTypes
  /\ \A n \in Nodes : ErrorIsOwn(n) /\ AnswersCounted(n) /\ ConsensusEarned(n)
  /\ Agreed!SkippedFailedOnAll

-----------------------------------------------------------------------------
(* The instance counts as this module does.                                *)
LEMMA SameCount == \A S : Agreed!Cardinality(S) = Cardinality(S)
  BY DEF Agreed!Cardinality, Cardinality

(* Sets of nodes are finite, and a larger one has no fewer nodes.          *)
LEMMA Larger ==
  ASSUME Sizes, NEW T \in SUBSET Nodes, NEW S \in SUBSET T
  PROVE  /\ IsFiniteSet(S) /\ IsFiniteSet(T)
         /\ Cardinality(S) \in Nat /\ Cardinality(T) \in Nat
         /\ Cardinality(S) <= Cardinality(T)
         /\ Cardinality(S) = Cardinality(T) => S = T
  <1>1. IsFiniteSet(T)
    BY FS_Subset DEF Sizes
  <1> QED
    BY <1>1, FS_Subset, FS_CardinalityType

(* A node answers FAILED for a block that it failed to commit.             *)
LEMMA FailedMeansFailed ==
  ASSUME SkipInv, NEW m \in Nodes, NEW b \in 1..MaxBlock, Agreed!Status(m, b) = "FAILED"
  PROVE  b \in failed[m]
  <1>1. CASE err[m].block = b
    BY <1>1 DEF SkipInv, ErrorIsOwn, Sizes
  <1>2. CASE skipped[m][b] = 1
    BY <1>2 DEF SkipInv, Agreed!SkippedFailedOnAll, Agreed!RowsOf
  <1> QED
    BY <1>1, <1>2 DEF Agreed!Status

(* When as many nodes as there are others have answered FAILED, all have   *)
(* failed.                                                                 *)
LEMMA AllFailedMeansAll ==
  ASSUME SkipInv, NEW n \in Nodes, Agreed!AllFailed(n), pass[n].asked = Agreed!Others(n),
         NEW m \in Nodes, err[n].block # 0
  PROVE  err[n].block \in failed[m]
  <1>1. Agreed!Others(n) \in SUBSET Nodes /\ Confirming(n) \in SUBSET Agreed!Others(n)
    BY DEF Agreed!Others, Confirming
  <1>2. /\ Cardinality(Confirming(n)) \in Nat /\ Cardinality(Agreed!Others(n)) \in Nat
        /\ Cardinality(Confirming(n)) <= Cardinality(Agreed!Others(n))
        /\ Cardinality(Agreed!Others(n)) = Cardinality(Confirming(n)) => Confirming(n) = Agreed!Others(n)
    BY <1>1, Larger DEF SkipInv
  <1>4. Confirming(n) = Agreed!Others(n)
    BY <1>2, SameCount DEF SkipInv, NodeTypes, AnswersCounted, Agreed!AllFailed
  <1>5. CASE m = n
    BY <1>5 DEF SkipInv, ErrorIsOwn
  <1>6. CASE m # n
    BY <1>4, <1>6 DEF Agreed!Others, Confirming
  <1> QED
    BY <1>5, <1>6

-----------------------------------------------------------------------------
LEMMA SkipInit == Sizes /\ Agreed!Init => SkipInv
  <1> SUFFICES ASSUME Sizes, Agreed!Init PROVE SkipInv
    OBVIOUS
  <1>1. NodeTypes
    BY DEF Sizes, Agreed!Init, NodeTypes, Agreed!NoErr, Agreed!Idle
  <1>2. ASSUME NEW n \in Nodes PROVE ErrorIsOwn(n) /\ AnswersCounted(n) /\ ConsensusEarned(n)
    <2>1. Confirming(n) = {} /\ pass[n].asked = {} /\ pass[n].failures = 0
      BY DEF Agreed!Init, Confirming, Agreed!Idle
    <2> QED
      BY <2>1, FS_EmptySet DEF Agreed!Init, ErrorIsOwn, AnswersCounted, ConsensusEarned, Agreed!NoErr, Agreed!Idle
  <1>3. Agreed!SkippedFailedOnAll
    BY DEF Agreed!Init, Agreed!SkippedFailedOnAll, Agreed!RowsOf
  <1> QED
    BY <1>1, <1>2, <1>3 DEF SkipInv

-----------------------------------------------------------------------------
(* A step that leaves a node's error and answers alone keeps what is known *)
(* of them, as blocks never cease to have failed.                          *)
LEMMA Untouched ==
  ASSUME SkipInv, failed' \in [Nodes -> SUBSET (1..MaxBlock)],
         \A m \in Nodes : failed[m] \subseteq failed'[m],
         NEW n \in Nodes, err'[n] = err[n], pass'[n] = pass[n]
  PROVE  (ErrorIsOwn(n) /\ AnswersCounted(n) /\ ConsensusEarned(n))'
  <1>1. pass[n].asked \in SUBSET Nodes /\ pass[n].failures \in Nat
    BY DEF SkipInv, NodeTypes
  <1>2. Cardinality(Confirming(n)) <= Cardinality(Confirming(n)')
        /\ Cardinality(Confirming(n)) \in Nat /\ Cardinality(Confirming(n)') \in Nat
    <2>1. Confirming(n)' \in SUBSET Nodes /\ Confirming(n) \in SUBSET Confirming(n)'
      BY <1>1 DEF Confirming
    <2> QED
      BY <2>1, Larger DEF SkipInv
  <1>3. AnswersCounted(n)'
    BY <1>1, <1>2 DEF SkipInv, AnswersCounted, Agreed!Others
  <1>4. (ErrorIsOwn(n) /\ ConsensusEarned(n))'
    BY DEF SkipInv, ErrorIsOwn, ConsensusEarned
  <1> QED
    BY <1>3, <1>4

(* Rows stay as they are: so does what they say.                           *)
LEMMA RowsKept ==
  ASSUME SkipInv, skipped' = skipped, \A m \in Nodes : failed[m] \subseteq failed'[m]
  PROVE  Agreed!SkippedFailedOnAll'
  BY DEF SkipInv, Agreed!SkippedFailedOnAll, Agreed!RowsOf

\* A pass that is not asking has counted nothing.
LEMMA NothingCounted ==
  ASSUME NEW n \in Nodes, pass'[n].asked = {}, pass'[n].failures = 0, pass'[n].pc # "ask"
  PROVE  AnswersCounted(n)'
  <1>1. Confirming(n)' = {}
    BY DEF Confirming
  <1> QED
    BY <1>1, FS_EmptySet DEF AnswersCounted

LEMMA CommitKeeps == ASSUME SkipInv, NEW n \in Nodes, Agreed!Commit(n) PROVE SkipInv'
  <1>1. NodeTypes'
    <2>1. /\ NodeTypes /\ MaxBlock \in Nat /\ height[n] + 1 \in 1..MaxBlock
          /\ height' = [height EXCEPT ![n] = height[n] + 1]
          /\ UNCHANGED <<hollow, skipped, err, pass, failed>>
      BY DEF SkipInv, Sizes, Agreed!Commit, Agreed!Next1
    <2>2. height' \in [Nodes -> 0..MaxBlock] /\ \A m \in Nodes : height[m] <= height'[m]
      BY <2>1 DEF NodeTypes
    <2>3. \A m \in Nodes : hollow'[m] \subseteq 1..height'[m]
      BY <2>1, <2>2 DEF NodeTypes
    <2> QED
      BY <2>1, <2>2, <2>3 DEF NodeTypes
  <1>2. \A m \in Nodes : (ErrorIsOwn(m) /\ AnswersCounted(m) /\ ConsensusEarned(m))'
    <2>1. /\ err' = err /\ pass' = pass /\ failed' = failed
          /\ failed \in [Nodes -> SUBSET (1..MaxBlock)]
      BY DEF SkipInv, NodeTypes, Agreed!Commit
    <2> QED
      BY <2>1, Untouched
  <1>3. Agreed!SkippedFailedOnAll'
    BY RowsKept DEF Agreed!Commit
  <1> QED
    BY <1>1, <1>2, <1>3 DEF SkipInv, Sizes

LEMMA SkipKeeps == ASSUME SkipInv, NEW n \in Nodes, Agreed!Skip(n) PROVE SkipInv'
  <1>1. /\ err[n].block \in 1..MaxBlock
        /\ \A m \in Nodes : err[n].block \in failed[m]
    BY DEF SkipInv, NodeTypes, Agreed!Skip, ConsensusEarned
  <1>2. skipped' \in [Nodes -> [1..MaxBlock -> Nat]]
    <2> DEFINE b == err[n].block
    <2>1. \/ skipped' = skipped
          \/ skipped' = [skipped EXCEPT ![n] = [skipped[n] EXCEPT ![b] = skipped[n][b] + 1]]
      BY DEF Agreed!Skip, Agreed!SkippedRow
    <2>2. skipped[n] \in [1..MaxBlock -> Nat] /\ skipped \in [Nodes -> [1..MaxBlock -> Nat]]
      BY DEF SkipInv, NodeTypes
    <2>3. [skipped[n] EXCEPT ![b] = skipped[n][b] + 1] \in [1..MaxBlock -> Nat]
      BY <1>1, <2>2
    <2> QED
      BY <2>1, <2>2, <2>3
  <1>3. NodeTypes'
    <2>1. /\ height' = [height EXCEPT ![n] = @ + 1]
          /\ height[n] \in 0..MaxBlock /\ height[n] + 1 \in 1..MaxBlock
          /\ hollow' = [hollow EXCEPT ![n] = @ \cup {height[n] + 1}]
      BY DEF SkipInv, Sizes, NodeTypes, Agreed!Skip, Agreed!Next1
    <2>2. /\ height' \in [Nodes -> 0..MaxBlock]
          /\ hollow' \in [Nodes -> SUBSET (1..MaxBlock)]
      BY <2>1 DEF SkipInv, NodeTypes
    <2>3. \A m \in Nodes : hollow'[m] \subseteq 1..height'[m]
      BY <2>1 DEF SkipInv, Sizes, NodeTypes
    <2>4. pass' \in [Nodes -> [pc : {"index", "ask", "clear"}, asked : SUBSET Nodes, failures : Nat]]
      BY DEF SkipInv, NodeTypes, Agreed!Skip
    <2> QED
      BY <1>2, <2>2, <2>3, <2>4 DEF SkipInv, NodeTypes, Agreed!Skip
  <1>4. ASSUME NEW m \in Nodes
        PROVE  (ErrorIsOwn(m) /\ AnswersCounted(m) /\ ConsensusEarned(m))'
    <2>1. CASE m = n
      <3>1. pass[n].asked = {} /\ pass[n].failures = 0
        <4>1. pass[n].asked = {} /\ pass[n].failures \in Nat /\ Confirming(n) = {}
          BY DEF SkipInv, NodeTypes, AnswersCounted, Agreed!Skip, Confirming
        <4> QED
          BY <4>1, FS_EmptySet DEF SkipInv, AnswersCounted
      <3>2. AnswersCounted(n)'
        BY <3>1, NothingCounted DEF SkipInv, NodeTypes, Agreed!Skip
      <3> QED
        BY <2>1, <3>2 DEF SkipInv, Agreed!Skip, ErrorIsOwn, ConsensusEarned
    <2>2. CASE m # n
      BY <2>2, Untouched DEF SkipInv, NodeTypes, Agreed!Skip
    <2> QED
      BY <2>1, <2>2
  <1>5. Agreed!SkippedFailedOnAll'
    BY <1>1 DEF SkipInv, NodeTypes, Agreed!SkippedFailedOnAll, Agreed!RowsOf, Agreed!Skip, Agreed!SkippedRow
  <1> QED
    BY <1>3, <1>4, <1>5 DEF SkipInv, Sizes

LEMMA ClearKeeps == ASSUME SkipInv, NEW n \in Nodes, Agreed!Clear(n) PROVE SkipInv'
  <1>1. NodeTypes'
    BY DEF SkipInv, Sizes, NodeTypes, Agreed!Clear, Agreed!NoErr, Agreed!Idle
  <1>2. ASSUME NEW m \in Nodes
        PROVE  (ErrorIsOwn(m) /\ AnswersCounted(m) /\ ConsensusEarned(m))'
    <2>1. CASE m = n
      BY <2>1, NothingCounted DEF SkipInv, NodeTypes, Agreed!Clear, Agreed!NoErr, Agreed!Idle, ErrorIsOwn, ConsensusEarned
    <2>2. CASE m # n
      BY <2>2, Untouched DEF SkipInv, NodeTypes, Agreed!Clear
    <2> QED
      BY <2>1, <2>2
  <1>3. Agreed!SkippedFailedOnAll'
    BY RowsKept DEF Agreed!Clear
  <1> QED
    BY <1>1, <1>2, <1>3 DEF SkipInv, Sizes

LEMMA FailCommitKeeps == ASSUME SkipInv, NEW n \in Nodes, Agreed!FailCommit(n) PROVE SkipInv'
  <1>1. Agreed!Next1(n) \in 1..MaxBlock
    BY DEF SkipInv, Sizes, NodeTypes, Agreed!FailCommit, Agreed!Next1
  <1>2. NodeTypes'
    <2>1. /\ err' = [err EXCEPT ![n] = [block |-> Agreed!Next1(n), consensus |-> FALSE]]
          /\ failed' = [failed EXCEPT ![n] = @ \cup {Agreed!Next1(n)}]
          /\ pass' = [pass EXCEPT ![n] = [pc |-> "ask", asked |-> {}, failures |-> 0]]
          /\ UNCHANGED <<height, hollow, skipped>>
      <3>1. [Agreed!Idle EXCEPT !.pc = "ask"] = [pc |-> "ask", asked |-> {}, failures |-> 0]
        BY DEF Agreed!Idle
      <3> QED
        BY <3>1 DEF Agreed!FailCommit
    <2>2. err' \in [Nodes -> [block : 0..MaxBlock, consensus : BOOLEAN]]
      BY <1>1, <2>1 DEF SkipInv, Sizes, NodeTypes
    <2>3. failed' \in [Nodes -> SUBSET (1..MaxBlock)]
      BY <1>1, <2>1 DEF SkipInv, NodeTypes
    <2>4. pass' \in [Nodes -> [pc : {"index", "ask", "clear"}, asked : SUBSET Nodes, failures : Nat]]
      BY <2>1 DEF SkipInv, NodeTypes
    <2> QED
      BY <2>1, <2>2, <2>3, <2>4 DEF SkipInv, NodeTypes
  <1>3. \A m \in Nodes : failed[m] \subseteq failed'[m]
    BY DEF SkipInv, NodeTypes, Agreed!FailCommit
  <1>4. ASSUME NEW m \in Nodes
        PROVE  (ErrorIsOwn(m) /\ AnswersCounted(m) /\ ConsensusEarned(m))'
    <2>1. CASE m = n
      <3>1. pass'[n] = [pc |-> "ask", asked |-> {}, failures |-> 0]
            /\ err'[n] = [block |-> Agreed!Next1(n), consensus |-> FALSE]
            /\ Agreed!Next1(n) \in failed'[n]
        BY DEF SkipInv, NodeTypes, Agreed!FailCommit, Agreed!Idle
      <3>2. Confirming(n)' = {}
        BY <3>1 DEF Confirming
      <3>3. Cardinality(Confirming(n)') = 0
        BY <3>2, FS_EmptySet
      <3>4. Agreed!Next1(n) # 0
        BY DEF SkipInv, NodeTypes, Agreed!Next1
      <3>5. ErrorIsOwn(n)' /\ ConsensusEarned(n)'
        BY <3>1 DEF ErrorIsOwn, ConsensusEarned
      <3>6. AnswersCounted(n)'
        BY <3>1, <3>3, <3>4 DEF AnswersCounted
      <3> QED
        BY <2>1, <3>5, <3>6
    <2>2. CASE m # n
      BY <2>2, <1>2, <1>3, Untouched DEF SkipInv, NodeTypes, Agreed!FailCommit
    <2> QED
      BY <2>1, <2>2
  <1>5. Agreed!SkippedFailedOnAll'
    BY <1>3, RowsKept DEF Agreed!FailCommit
  <1> QED
    BY <1>2, <1>4, <1>5 DEF SkipInv, Sizes

(* The node that answers joins those that have failed the block, if it     *)
(* says so.                                                                *)
LEMMA AskKeeps ==
  ASSUME SkipInv, NEW n \in Nodes, NEW m \in Nodes, Agreed!Ask(n, m) \/ Agreed!AskInVain(n, m)
  PROVE  SkipInv'
  <1> DEFINE said == IF Agreed!Ask(n, m) /\ Agreed!Status(m, err[n].block) = "FAILED" THEN 1 ELSE 0
  <1>1. /\ pass[n].pc = "ask" /\ m \in Agreed!Others(n) \ pass[n].asked
        /\ UNCHANGED <<height, hollow, skipped, err, failed>>
    BY DEF Agreed!Ask, Agreed!AskInVain
  <1>2. /\ pass'[n].pc = "ask" /\ pass'[n].asked = pass[n].asked \cup {m}
        /\ pass'[n].failures <= pass[n].failures + said
        /\ \A k \in Nodes \ {n} : pass'[k] = pass[k]
    <2>1. CASE Agreed!Ask(n, m)
      BY <1>1, <2>1 DEF SkipInv, NodeTypes, Agreed!Ask
    <2>2. CASE Agreed!AskInVain(n, m)
      BY <1>1, <2>2 DEF SkipInv, NodeTypes, Agreed!AskInVain
    <2> QED
      BY <2>1, <2>2
  <1>3. NodeTypes'
    <2> DEFINE Passes == [pc : {"index", "ask", "clear"}, asked : SUBSET Nodes, failures : Nat]
    <2>1. pass[n] \in Passes /\ pass \in [Nodes -> Passes]
      BY DEF SkipInv, NodeTypes
    <2>2. CASE Agreed!Ask(n, m)
      <3> DEFINE k == pass[n].failures + said
      <3>1. pass' = [pass EXCEPT ![n] = [pass[n] EXCEPT !.asked = pass[n].asked \cup {m},
                                                       !.failures = k]]
        BY <2>1, <2>2 DEF Agreed!Ask
      <3>2. k \in Nat /\ pass[n].asked \cup {m} \in SUBSET Nodes
        BY <2>1
      <3> HIDE DEF k
      <3>3. [pass[n] EXCEPT !.asked = pass[n].asked \cup {m}, !.failures = k] \in Passes
        BY <2>1, <3>2
      <3>4. pass' \in [Nodes -> Passes]
        BY <2>1, <3>1, <3>3
      <3> QED
        BY <1>1, <3>4 DEF SkipInv, NodeTypes
    <2>3. CASE Agreed!AskInVain(n, m)
      <3>1. pass' \in [Nodes -> Passes]
        BY <2>1, <2>3 DEF Agreed!AskInVain
      <3> QED
        BY <1>1, <3>1 DEF SkipInv, NodeTypes
    <2> QED
      BY <2>2, <2>3
  <1>4. AnswersCounted(n)'
    <2>1. IsFiniteSet(Confirming(n)) /\ m \notin Confirming(n)
      <3>1. Confirming(n) \in SUBSET Nodes
        BY DEF SkipInv, NodeTypes, Confirming
      <3> QED
        BY <1>1, <3>1, FS_Subset DEF SkipInv, Sizes, Confirming
    <2>2. CASE said = 1
      <3>1. err[n].block \in 1..MaxBlock
        BY <1>1 DEF SkipInv, Sizes, NodeTypes, AnswersCounted
      <3>2. err[n].block \in failed[m]
        BY <2>2, <3>1, FailedMeansFailed
      <3>3. Confirming(n)' = Confirming(n) \cup {m}
        BY <1>1, <1>2, <3>2 DEF Confirming
      <3>4. Cardinality(Confirming(n)') = Cardinality(Confirming(n)) + 1
        BY <2>1, <3>3, FS_AddElement
      <3> QED
        BY <1>1, <1>2, <1>3, <2>1, <2>2, <3>4, FS_CardinalityType
           DEF SkipInv, NodeTypes, AnswersCounted, Agreed!Others
    <2>3. CASE said = 0
      <3>1. Confirming(n) \in SUBSET Confirming(n)' /\ Confirming(n)' \in SUBSET Nodes
        BY <1>1, <1>2, <1>3 DEF Confirming, NodeTypes
      <3>2. /\ Cardinality(Confirming(n)) <= Cardinality(Confirming(n)')
            /\ Cardinality(Confirming(n)) \in Nat /\ Cardinality(Confirming(n)') \in Nat
        BY <2>1, <3>1, FS_Subset, FS_CardinalityType DEF SkipInv, Sizes
      <3> QED
        BY <1>1, <1>2, <1>3, <2>3, <3>2 DEF SkipInv, NodeTypes, AnswersCounted, Agreed!Others
    <2> QED
      BY <2>2, <2>3
  <1>5. ASSUME NEW k \in Nodes
        PROVE  (ErrorIsOwn(k) /\ AnswersCounted(k) /\ ConsensusEarned(k))'
    <2>1. CASE k = n
      BY <1>1, <1>4, <2>1 DEF SkipInv, ErrorIsOwn, ConsensusEarned
    <2>2. CASE k # n
      BY <1>1, <1>2, <2>2, Untouched DEF SkipInv, NodeTypes
    <2> QED
      BY <2>1, <2>2
  <1>6. Agreed!SkippedFailedOnAll'
    BY <1>1, RowsKept
  <1> QED
    BY <1>3, <1>5, <1>6 DEF SkipInv, Sizes

LEMMA ConcludeKeeps == ASSUME SkipInv, NEW n \in Nodes, Agreed!Conclude(n) PROVE SkipInv'
  <1>1. NodeTypes'
    BY DEF SkipInv, NodeTypes, Agreed!Conclude, Agreed!Idle, Agreed!AllFailed
  <1>2. ASSUME NEW m \in Nodes
        PROVE  (ErrorIsOwn(m) /\ AnswersCounted(m) /\ ConsensusEarned(m))'
    <2>1. CASE m = n
      <3>1. pass'[n] = Agreed!Idle /\ err'[n] = [err[n] EXCEPT !.consensus = Agreed!AllFailed(n)]
        BY DEF SkipInv, NodeTypes, Agreed!Conclude
      <3>2. AnswersCounted(n)'
        BY <3>1, NothingCounted DEF Agreed!Idle
      <3>3. err'[n].block = err[n].block /\ err'[n].consensus = Agreed!AllFailed(n)
        BY <3>1 DEF SkipInv, NodeTypes
      <3>4. ConsensusEarned(n)'
        BY <3>3, AllFailedMeansAll DEF SkipInv, AnswersCounted, Agreed!Conclude, ConsensusEarned
      <3> QED
        BY <2>1, <3>2, <3>3, <3>4 DEF SkipInv, ErrorIsOwn, Agreed!Conclude
    <2>2. CASE m # n
      BY <2>2, Untouched DEF SkipInv, NodeTypes, Agreed!Conclude
    <2> QED
      BY <2>1, <2>2
  <1>3. Agreed!SkippedFailedOnAll'
    BY RowsKept DEF Agreed!Conclude
  <1> QED
    BY <1>1, <1>2, <1>3 DEF SkipInv, Sizes

(* Wherever a pass is cut off, the error stays in redis and the next pass  *)
(* counts anew.                                                            *)
LEMMA CrashKeeps == ASSUME SkipInv, NEW n \in Nodes, Agreed!Crash(n) PROVE SkipInv'
  <1>1. NodeTypes'
    BY DEF SkipInv, NodeTypes, Agreed!Crash, Agreed!Idle
  <1>2. ASSUME NEW m \in Nodes
        PROVE  (ErrorIsOwn(m) /\ AnswersCounted(m) /\ ConsensusEarned(m))'
    <2>1. CASE m = n
      BY <2>1, NothingCounted DEF SkipInv, NodeTypes, Agreed!Crash, Agreed!Idle, ErrorIsOwn, ConsensusEarned
    <2>2. CASE m # n
      BY <2>2, Untouched DEF SkipInv, NodeTypes, Agreed!Crash
    <2> QED
      BY <2>1, <2>2
  <1>3. Agreed!SkippedFailedOnAll'
    BY RowsKept DEF Agreed!Crash
  <1> QED
    BY <1>1, <1>2, <1>3 DEF SkipInv, Sizes

LEMMA SkipNext == SkipInv /\ [Agreed!Next]_Agreed!vars => SkipInv'
  <1> SUFFICES ASSUME SkipInv, [Agreed!Next]_Agreed!vars PROVE SkipInv'
    OBVIOUS
  <1>1. CASE Agreed!Next
    <2>1. PICK n \in Nodes : Agreed!Pass(n) \/ Agreed!Crash(n) \/ \E m \in Nodes : Agreed!AskInVain(n, m)
      BY <1>1 DEF Agreed!Next
    <2> QED
      BY <2>1, CommitKeeps, SkipKeeps, ClearKeeps, FailCommitKeeps, ConcludeKeeps, AskKeeps,
         CrashKeeps DEF Agreed!Pass
  <1>2. CASE UNCHANGED Agreed!vars
    <2>1. \A n \in Nodes : (ErrorIsOwn(n) /\ AnswersCounted(n) /\ ConsensusEarned(n))'
      BY <1>2, Untouched DEF SkipInv, NodeTypes, Agreed!vars
    <2> QED
      BY <1>2, <2>1, RowsKept DEF SkipInv, Sizes, NodeTypes, Agreed!vars
  <1> QED
    BY <1>1, <1>2

-----------------------------------------------------------------------------
(* Indexing state keeps to its types, and a node never counts more answers *)
(* than it asked for.                                                      *)
THEOREM SkipTypes ==
  ASSUME Sizes
  PROVE  Agreed!Spec => []Agreed!TypeOK
  <1>1. SkipInv => Agreed!TypeOK
    <2> SUFFICES ASSUME SkipInv, NEW n \in Nodes
                 PROVE  pass[n].failures <= Cardinality(pass[n].asked)
      BY SameCount DEF SkipInv, NodeTypes, Agreed!TypeOK
    <2>1. pass[n].asked \in SUBSET Nodes /\ Confirming(n) \in SUBSET pass[n].asked
      BY DEF SkipInv, NodeTypes, Confirming
    <2>2. /\ Cardinality(Confirming(n)) <= Cardinality(pass[n].asked)
          /\ Cardinality(Confirming(n)) \in Nat /\ Cardinality(pass[n].asked) \in Nat
      BY <2>1, Larger DEF SkipInv
    <2> QED
      BY <2>1, <2>2 DEF SkipInv, NodeTypes, AnswersCounted
  <1> QED
    BY <1>1, SkipInit, SkipNext, PTL DEF Agreed!Spec

(* Every row of skipped_transactions that confirm_indexing_transaction_    *)
(* error leads to names a block that every node has failed to commit,      *)
(* although the answers may be older than the failure in question.         *)
THEOREM SkippedHaveFailed ==
  ASSUME Sizes
  PROVE  Agreed!Spec => []Agreed!SkippedFailedOnAll
  <1>1. SkipInv => Agreed!SkippedFailedOnAll
    BY DEF SkipInv
  <1> QED
    BY <1>1, SkipInit, SkipNext, PTL DEF Agreed!Spec
=============================================================================
