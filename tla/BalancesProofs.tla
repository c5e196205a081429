--------------------------- MODULE BalancesProofs ---------------------------
(***************************************************************************)
(* Proofs about Balances for any users, wallets, chunk sizes and bounds on *)
(* blocks, transfers, changes and faults, on a chain whose                 *)
(* reorganisations are no deeper than the scanner provides for.            *)
(***************************************************************************)
EXTENDS Balances, FiniteSetTheorems, SequenceTheorems, TLAPS

\* A pass ends a block below the newest, and the next one begins Safety
\* blocks before that: what a reorganisation moves is scanned again.
Sizes ==
  /\ Safety \in Nat /\ Depth \in Nat /\ Depth <= Safety + 2
  /\ MinChunk \in Nat /\ MaxChunk \in Nat /\ StartChunk \in Nat

Transfer == [id : Nat, wallet : Wallets]
Row == [exists : BOOLEAN, owner : SUBSET Nat, assoc : SUBSET Nat, sol : SUBSET Nat,
        change : Seq(SUBSET Nat)]
Types ==
  /\ chain \in Seq(SUBSET Transfer)
  /\ sol \subseteq [id : Nat, user : Users, found : BOOLEAN]
  /\ assoc \in [Users -> SUBSET Wallets]
  /\ change \in {Idle} \cup [pc : {"indexed"}, user : Users, wallets : SUBSET Wallets]
  /\ lazy \subseteq Users /\ immediate \subseteq Users
  /\ scanned \in Int /\ stored \in Int
  /\ scan \in {Idle} \cup [pc : {"scan"}, block : Int, end : Int, chunk : Int]
  /\ refresh \in {Idle} \cup [pc : {"fetch"}, lazy : SUBSET Users, immediate : SUBSET Users,
                              todo : SUBSET Users, wallets : [Users -> SUBSET Wallets],
                              new : [Users -> Row]]
  /\ refresh.pc = "fetch" => refresh.todo \subseteq refresh.lazy \cup refresh.immediate
  /\ rows \in [Users -> Row]
  /\ env \in [transfers : Nat, changes : Nat, faults : Nat]
ScansEndBelow ==
  /\ scanned <= Latest - 1 /\ stored <= Latest - 1
  /\ scan.pc = "scan" => scan.end <= Latest - 1

(***************************************************************************)
(* A block has been seen for good when no pass will begin at it or before  *)
(* it again, whichever of the two notes of the last pass survives.  The    *)
(* row of a user who is not waiting has every transfer of those blocks,    *)
(* and nothing that is not on a chain.                                     *)
(***************************************************************************)
Seen(i) ==
  \/ i < StartAfter(scanned) \/ i < StartAfter(stored)
  \/ scan.pc = "scan" /\ i < scan.block /\ i < StartAfter(scan.end)
OfUser(u) == {Own[u]} \cup assoc[u]
Complete(u, r) ==
  /\ Total(r) \subseteq BalanceOf(OfUser(u)) \cup SolOf(u, BOOLEAN)
  /\ \A i \in 1..Latest : Seen(i) =>
       \A t \in chain[i] : t.wallet \in OfUser(u) => t.id \in Total(r)
  /\ SolOf(u, {TRUE}) \subseteq Total(r)

\* What the pass that is going on does not take out of the set at its end.
Waiting(u) ==
  \/ u \in excused
  \/ u \in immediate /\ (refresh.pc = "fetch" => u \notin refresh.immediate)
Fetched(u) == u \in (refresh.lazy \cup refresh.immediate) \ refresh.todo
RowsComplete == \A u \in Users : u \notin immediate \cup excused => Complete(u, rows[u])
FetchedComplete ==
  refresh.pc = "fetch" =>
    \A u \in Users :
      /\ u \notin excused => refresh.wallets[u] = assoc[u]
      /\ ~Fetched(u) => refresh.new[u] = rows[u]
      /\ Fetched(u) /\ ~Waiting(u) => Complete(u, refresh.new[u])

BalInv == Types /\ ScansEndBelow /\ RowsComplete /\ FetchedComplete

-----------------------------------------------------------------------------
LEMMA Bounds ==
  ASSUME NEW a \in Int, NEW b \in Int
  PROVE  /\ Max({a, b}) = IF a >= b THEN a ELSE b
         /\ Min({a, b}) = IF a <= b THEN a ELSE b
  <1>1. \A x \in {a, b} : (\A y \in {a, b} : x >= y) => x = IF a >= b THEN a ELSE b
    OBVIOUS
  <1>2. \E x \in {a, b} : \A y \in {a, b} : x >= y
    OBVIOUS
  <1>3. \A x \in {a, b} : (\A y \in {a, b} : x =< y) => x = IF a <= b THEN a ELSE b
    OBVIOUS
  <1>4. \E x \in {a, b} : \A y \in {a, b} : x =< y
    OBVIOUS
  <1>5. Max({a, b}) = IF a >= b THEN a ELSE b
    BY <1>1, <1>2 DEF Max
  <1>6. Min({a, b}) = IF a <= b THEN a ELSE b
    BY <1>3, <1>4 DEF Min
  <1> QED
    BY <1>5, <1>6

LEMMA StartOfScan ==
  ASSUME Sizes, NEW b \in Int
  PROVE  /\ StartAfter(b) \in Int
         /\ \A i \in Int : i >= 1 => (i < StartAfter(b) <=> i < b - Safety)
  BY Bounds DEF StartAfter, Sizes

LEMMA ChainTypes ==
  ASSUME Types
  PROVE  /\ Latest \in Nat /\ DOMAIN chain = 1..Latest
         /\ \A i \in 1..Latest : chain[i] \subseteq Transfer
         /\ OnChain \subseteq Transfer
         /\ \A t : t \in OnChain <=> \E i \in 1..Latest : t \in chain[i]
         /\ \A W : BalanceOf(W) \subseteq Nat
         /\ \A u, F : SolOf(u, F) \subseteq Nat
  <1>1. Latest \in Nat /\ DOMAIN chain = 1..Latest
    BY LenProperties DEF Types, Latest
  <1>2. \A i \in 1..Latest : chain[i] \in SUBSET Transfer
    BY <1>1, ElementOfSeq DEF Types, Latest
  <1>3. \A t : t \in OnChain <=> \E i \in 1..Latest : t \in chain[i]
    BY DEF OnChain
  <1>4. \A W : BalanceOf(W) \subseteq Nat
    BY <1>2, <1>3 DEF BalanceOf, Transfer
  <1>5. \A u, F : SolOf(u, F) \subseteq Nat
    BY DEF SolOf, Types
  <1> QED
    BY <1>1, <1>2, <1>3, <1>4, <1>5

LEMMA PassTypes ==
  ASSUME Types
  PROVE  /\ env \in [transfers : Nat, changes : Nat, faults : Nat]
         /\ rows \in [Users -> Row] /\ assoc \in [Users -> SUBSET Wallets]
         /\ sol \subseteq [id : Nat, user : Users, found : BOOLEAN]
         /\ scanned \in Int /\ stored \in Int
         /\ scan.pc = "scan" => scan \in [pc : {"scan"}, block : Int, end : Int, chunk : Int]
         /\ refresh.pc \in {"idle", "fetch"}
         /\ refresh.pc = "fetch" =>
              refresh \in [pc : {"fetch"}, lazy : SUBSET Users, immediate : SUBSET Users,
                           todo : SUBSET Users, wallets : [Users -> SUBSET Wallets],
                           new : [Users -> Row]]
         /\ change.pc = "indexed" =>
              change \in [pc : {"indexed"}, user : Users, wallets : SUBSET Wallets]
  <1>1. scan.pc = "scan" => scan \in [pc : {"scan"}, block : Int, end : Int, chunk : Int]
    <2>1. scan \in {Idle} \cup [pc : {"scan"}, block : Int, end : Int, chunk : Int]
      BY DEF Types
    <2> QED
      BY <2>1 DEF Idle
  <1>2. /\ refresh.pc \in {"idle", "fetch"}
        /\ refresh.pc = "fetch" =>
             refresh \in [pc : {"fetch"}, lazy : SUBSET Users, immediate : SUBSET Users,
                          todo : SUBSET Users, wallets : [Users -> SUBSET Wallets],
                          new : [Users -> Row]]
    <2>1. refresh \in {Idle} \cup [pc : {"fetch"}, lazy : SUBSET Users, immediate : SUBSET Users,
                                   todo : SUBSET Users, wallets : [Users -> SUBSET Wallets],
                                   new : [Users -> Row]]
      BY DEF Types
    <2> QED
      BY <2>1 DEF Idle
  <1>3. change.pc = "indexed" =>
          change \in [pc : {"indexed"}, user : Users, wallets : SUBSET Wallets]
    <2>1. change \in {Idle} \cup [pc : {"indexed"}, user : Users, wallets : SUBSET Wallets]
      BY DEF Types
    <2> QED
      BY <2>1 DEF Idle
  <1> QED
    BY <1>1, <1>2, <1>3 DEF Types

-----------------------------------------------------------------------------
(* What a step must keep for a row to stay as complete as it is.           *)
Steady(u) ==
  /\ assoc'[u] = assoc[u]
  /\ OnChain \subseteq OnChain'
  /\ SolOf(u, BOOLEAN) \subseteq SolOf(u, BOOLEAN)'
  /\ SolOf(u, {TRUE})' \subseteq SolOf(u, {TRUE})
  /\ \A i \in 1..Latest' : Seen(i)' =>
       \A t \in chain'[i] : t.wallet \in OfUser(u) => \E j \in 1..Latest : Seen(j) /\ t \in chain[j]

LEMMA CompleteLasts ==
  ASSUME NEW u, NEW r, Steady(u), Complete(u, r)
  PROVE  Complete(u, r)'
  <1>1. OfUser(u)' = OfUser(u)
    BY DEF Steady, OfUser
  <1>2. BalanceOf(OfUser(u)) \subseteq BalanceOf(OfUser(u))'
    BY <1>1 DEF Steady, BalanceOf
  <1>3. Total(r)' = Total(r)
    BY DEF Total
  <1>4. Total(r) \subseteq BalanceOf(OfUser(u))' \cup SolOf(u, BOOLEAN)'
    BY <1>2 DEF Steady, Complete
  <1>5. \A i \in 1..Latest' : Seen(i)' =>
          \A t \in chain'[i] : t.wallet \in OfUser(u) => t.id \in Total(r)
    BY DEF Steady, Complete
  <1>6. SolOf(u, {TRUE})' \subseteq Total(r)
    BY DEF Steady, Complete
  <1> QED
    BY <1>1, <1>3, <1>4, <1>5, <1>6 DEF Complete

LEMMA RowsStay ==
  ASSUME RowsComplete, rows' = rows, immediate \cup excused \subseteq immediate' \cup excused',
         \A u \in Users : \A r : Complete(u, r) => Complete(u, r)'
  PROVE  RowsComplete'
  <1> SUFFICES ASSUME NEW u \in Users, u \notin immediate' \cup excused' PROVE Complete(u, rows[u])'
    BY DEF RowsComplete
  <1> PICK r : r = rows[u]
    OBVIOUS
  <1>1. Complete(u, r)'
    BY DEF RowsComplete
  <1>2. rows'[u] = r
    OBVIOUS
  <1> QED
    BY <1>1, <1>2 DEF Complete, Total

(* A step outside of the refresh disturbs only users that it enqueues.     *)
LEMMA OthersStep ==
  ASSUME RowsComplete, FetchedComplete,
         rows' = rows, refresh' = refresh, immediate \subseteq immediate', excused \subseteq excused',
         \A u \in Users : Waiting(u)' \/ Steady(u),
         refresh.pc = "fetch" => \A u \in Users : u \in excused' \/ assoc'[u] = assoc[u]
  PROVE  RowsComplete' /\ FetchedComplete'
  <1>1. ASSUME NEW u \in Users, u \notin immediate' \cup excused' PROVE Complete(u, rows[u])'
    <2> PICK r : r = rows[u]
      OBVIOUS
    <2>1. Steady(u) /\ Complete(u, r)
      BY <1>1 DEF Waiting, RowsComplete
    <2>2. Complete(u, r)'
      BY <2>1, CompleteLasts
    <2>3. rows'[u] = r
      OBVIOUS
    <2> QED
      BY <2>2, <2>3 DEF Complete, Total
  <1>2. ASSUME refresh.pc = "fetch", NEW u \in Users, Fetched(u), ~Waiting(u)'
        PROVE  Complete(u, refresh.new[u])'
    <2> PICK r : r = refresh.new[u]
      OBVIOUS
    <2>1. ~Waiting(u)
      BY <1>2 DEF Waiting
    <2>2. Steady(u) /\ Complete(u, r)
      BY <1>2, <2>1 DEF FetchedComplete
    <2>3. Complete(u, r)'
      BY <2>2, CompleteLasts
    <2>4. refresh'.new[u] = r
      OBVIOUS
    <2> QED
      BY <2>3, <2>4 DEF Complete, Total
  <1>3. RowsComplete'
    BY <1>1 DEF RowsComplete
  <1>4. FetchedComplete'
    BY <1>2 DEF FetchedComplete, Fetched
  <1> QED
    BY <1>3, <1>4

LEMMA EnqueuedWait ==
  ASSUME Types, NEW U \in SUBSET Users, Enqueue(U), refresh' = refresh
  PROVE  /\ \A u \in U : Waiting(u)'
         /\ immediate \subseteq immediate' /\ immediate' \subseteq Users /\ excused \subseteq excused'
  <1>1. U \subseteq immediate' /\ immediate' = immediate \cup U /\ immediate \subseteq Users
    BY DEF Enqueue, Types
  <1>2. refresh.pc = "fetch" => U \cap refresh.immediate \subseteq excused'
    BY DEF Enqueue
  <1>3. excused \subseteq excused'
    BY DEF Enqueue
  <1> QED
    BY <1>1, <1>2, <1>3 DEF Waiting

\* The same chains, the same wallets and no more blocks seen.
LEMMA QuietIsSteady ==
  ASSUME Types, UNCHANGED <<chain, sol, assoc>>,
         \A i \in 1..Latest : Seen(i)' => Seen(i)
  PROVE  \A u \in Users : Steady(u)
  <1>1. OnChain' = OnChain /\ Latest' = Latest
    BY DEF OnChain, Latest
  <1>2. \A u, F : SolOf(u, F)' = SolOf(u, F)
    BY DEF SolOf
  <1> QED
    BY <1>1, <1>2 DEF Steady

-----------------------------------------------------------------------------
(* Ethereum and Solana *)

LEMMA NewBlockStep ==
  ASSUME Sizes, BalInv, NewBlock
  PROVE  BalInv'
  <1> USE DEF BalInv
  <1>1. PICK W \in {{}} \cup {{w} : w \in Wallets} :
          /\ chain' = Append(chain, {[id |-> env.transfers, wallet |-> w] : w \in W})
          /\ env' = [env EXCEPT !.transfers = @ + Cardinality(W)]
    BY DEF NewBlock
  <1>2. UNCHANGED <<sol, assoc, change, lazy, immediate, scanned, stored, scan, refresh, rows, excused>>
    BY DEF NewBlock
  <1> DEFINE B == {[id |-> env.transfers, wallet |-> w] : w \in W}
  <1>3. B \in SUBSET Transfer /\ Cardinality(W) \in Nat
    <2>1. env.transfers \in Nat /\ W \subseteq Wallets
      BY <1>1 DEF Types
    <2>2. Cardinality(W) \in Nat
      <3>1. CASE W = {}
        BY <3>1, FS_EmptySet
      <3>2. CASE W # {}
        <4>1. PICK w : W = {w}
          BY <1>1, <3>2
        <4>2. Cardinality({w}) = 1
          BY FS_Singleton
        <4> QED
          BY <4>1, <4>2
      <3> QED
        BY <3>1, <3>2
    <2> QED
      BY <2>1, <2>2 DEF Transfer
  <1>4. /\ chain' \in Seq(SUBSET Transfer) /\ Latest' = Latest + 1
        /\ \A i \in 1..Latest : chain'[i] = chain[i]
    <2>1. chain \in Seq(SUBSET Transfer) /\ chain' = Append(chain, B)
      BY <1>1 DEF Types
    <2> HIDE DEF B
    <2> QED
      BY <1>3, <2>1, AppendProperties DEF Latest
  <1>5. Types'
    <2>1. env' \in [transfers : Nat, changes : Nat, faults : Nat]
      <3> PICK c \in Nat : c = Cardinality(W)
        BY <1>3
      <3> QED
        BY <1>1, PassTypes
    <2> QED
      BY <1>2, <1>4, <2>1 DEF Types
  <1>6. ScansEndBelow'
    <2>1. Latest \in Nat /\ scanned \in Int /\ stored \in Int /\ (scan.pc = "scan" => scan.end \in Int)
      BY ChainTypes, PassTypes
    <2> QED
      BY <1>2, <1>4, <2>1 DEF ScansEndBelow
  <1>7. \A u \in Users : Steady(u)
    <2>1. OnChain \subseteq OnChain'
      <3>1. Latest \in Nat
        BY ChainTypes
      <3> QED
        BY <1>4, <3>1 DEF OnChain
    <2>2. \A u, F : SolOf(u, F)' = SolOf(u, F)
      BY <1>2 DEF SolOf
    <2>3. \A i \in 1..Latest' : Seen(i)' => i \in 1..Latest /\ Seen(i)
      <3> SUFFICES ASSUME NEW i \in 1..Latest', Seen(i)' PROVE i \in 1..Latest /\ Seen(i)
        OBVIOUS
      <3>1. Seen(i)
        BY <1>2 DEF Seen
      <3>2. \E b \in Int : b <= Latest - 1 /\ i < StartAfter(b)
        BY <3>1 DEF Seen, ScansEndBelow, Types, Idle
      <3>3. Latest \in Nat /\ i \in Int /\ i >= 1
        BY <1>4, ChainTypes
      <3>4. i < Latest
        BY <3>2, <3>3, StartOfScan DEF Sizes
      <3> QED
        BY <3>1, <3>3, <3>4
    <2> QED
      BY <1>2, <1>4, <2>1, <2>2, <2>3 DEF Steady
  <1>8. RowsComplete' /\ FetchedComplete'
    BY <1>2, <1>7, OthersStep
  <1> QED
    BY <1>5, <1>6, <1>8

LEMMA ReorganiseStep ==
  ASSUME Sizes, BalInv, Reorganise
  PROVE  BalInv'
  <1> USE DEF BalInv
  <1>1. PICK d \in 1..Depth :
          LET old == SubSeq(chain, 1, Latest - d)
              moved == OnChain \ UNION {old[i] : i \in 1..(Latest - d)}
          IN /\ Latest > d
             /\ \E at \in [moved -> (Latest - d + 1)..Latest] :
                  chain' = [i \in 1..Latest |-> IF i <= Latest - d THEN old[i] ELSE {t \in moved : at[t] = i}]
    BY DEF Reorganise
  <1>2. /\ UNCHANGED <<sol, assoc, change, lazy, immediate, scanned, stored, scan, refresh, rows, excused>>
        /\ env' = [env EXCEPT !.faults = @ + 1]
    BY DEF Reorganise
  <1> DEFINE n == Latest - d
             old == SubSeq(chain, 1, n)
             moved == OnChain \ UNION {old[i] : i \in 1..n}
  <1>3. d \in Nat /\ n \in Nat /\ n < Latest /\ n + d = Latest /\ d <= Safety + 2
    BY <1>1, ChainTypes DEF Sizes
  <1>4. PICK at \in [moved -> (n + 1)..Latest] :
          chain' = [i \in 1..Latest |-> IF i <= n THEN old[i] ELSE {t \in moved : at[t] = i}]
    BY <1>1
  <1>5. \A i \in 1..n : old[i] = chain[i]
    BY <1>3 DEF Types, Latest
  <1> HIDE DEF old, n
  <1>6. Latest' = Latest /\ \A i \in 1..n : chain'[i] = chain[i]
    BY <1>3, <1>4, <1>5 DEF Latest
  <1>7. \A i \in 1..Latest : chain'[i] \in SUBSET Transfer
    <2> SUFFICES ASSUME NEW i \in 1..Latest PROVE chain'[i] \in SUBSET Transfer
      OBVIOUS
    <2>1. moved \in SUBSET Transfer /\ \A k \in 1..Latest : chain[k] \in SUBSET Transfer
      BY ChainTypes
    <2> HIDE DEF moved
    <2>2. {t \in moved : at[t] = i} \in SUBSET Transfer
      BY <2>1
    <2>3. i <= n => i \in 1..n
      BY <1>3
    <2> QED
      BY <1>4, <1>5, <2>1, <2>2, <2>3
  <1>8. chain' \in Seq(SUBSET Transfer)
    <2>1. chain' \in [1..Latest -> SUBSET Transfer]
      BY <1>4, <1>7
    <2>2. Latest \in Nat
      BY ChainTypes
    <2> QED
      BY <2>1, <2>2, SeqDef
  <1>9. OnChain \subseteq OnChain'
    <2> SUFFICES ASSUME NEW t \in OnChain PROVE \E i \in 1..Latest : t \in chain'[i]
      BY <1>6 DEF OnChain
    <2>1. CASE t \in moved
      <3>1. at[t] \in (n + 1)..Latest
        BY <1>4, <2>1
      <3>2. at[t] \in 1..Latest /\ ~(at[t] <= n)
        BY <1>3, <3>1
      <3>3. t \in chain'[at[t]]
        BY <1>4, <2>1, <3>2
      <3> QED
        BY <3>2, <3>3
    <2>2. CASE t \notin moved
      <3>1. PICK i \in 1..n : t \in old[i]
        BY <2>2
      <3> QED
        BY <1>3, <1>5, <1>6, <3>1
    <2> QED
      BY <2>1, <2>2
  <1>10. Types'
    <2>1. env' \in [transfers : Nat, changes : Nat, faults : Nat]
      BY <1>2 DEF Types
    <2> QED
      BY <1>2, <1>8, <2>1 DEF Types
  <1>11. ScansEndBelow'
    BY <1>2, <1>6 DEF ScansEndBelow
  <1>12. \A i \in 1..Latest : Seen(i) => i \in 1..n
    <2> SUFFICES ASSUME NEW i \in 1..Latest, Seen(i) PROVE i <= n
      BY <1>3
    <2>1. \E b \in Int : b <= Latest - 1 /\ i < StartAfter(b)
      BY DEF Seen, ScansEndBelow, Types, Idle
    <2>2. Latest \in Nat /\ i \in Int /\ i >= 1
      BY ChainTypes
    <2>3. i < Latest - 1 - Safety
      BY <2>1, <2>2, StartOfScan DEF Sizes
    <2> QED
      BY <1>3, <2>2, <2>3 DEF Sizes
  <1>13. \A u \in Users : Steady(u)
    <2>1. \A u, F : SolOf(u, F)' = SolOf(u, F)
      BY <1>2 DEF SolOf
    <2>2. \A i : Seen(i)' = Seen(i)
      BY <1>2 DEF Seen
    <2> QED
      BY <1>2, <1>6, <1>9, <1>12, <2>1, <2>2 DEF Steady
  <1>14. RowsComplete' /\ FetchedComplete'
    BY <1>2, <1>13, OthersStep
  <1> QED
    BY <1>10, <1>11, <1>14

LEMMA SolTransferStep ==
  ASSUME Sizes, BalInv, NEW v \in Users, SolTransfer(v)
  PROVE  BalInv'
  <1> USE DEF BalInv
  <1>1. /\ sol' = sol \cup {[id |-> env.transfers, user |-> v, found |-> FALSE]}
        /\ env' = [env EXCEPT !.transfers = @ + 1]
        /\ UNCHANGED <<chain, assoc, change, lazy, immediate, scanned, stored, scan, refresh, rows, excused>>
    BY DEF SolTransfer
  <1>2. Types'
    <2>1. env' \in [transfers : Nat, changes : Nat, faults : Nat]
      BY <1>1, PassTypes
    <2>2. sol' \subseteq [id : Nat, user : Users, found : BOOLEAN]
      <3>1. [id |-> env.transfers, user |-> v, found |-> FALSE] \in [id : Nat, user : Users, found : BOOLEAN]
        BY PassTypes
      <3> QED
        BY <1>1, <3>1, PassTypes
    <2> QED
      BY <1>1, <2>1, <2>2 DEF Types
  <1>3. ScansEndBelow'
    BY <1>1 DEF ScansEndBelow, Latest
  <1>4. \A u \in Users : Steady(u)
    <2>1. OnChain' = OnChain /\ Latest' = Latest /\ \A i : Seen(i)' = Seen(i)
      BY <1>1 DEF OnChain, Latest, Seen
    <2>2. \A u : SolOf(u, BOOLEAN) \subseteq SolOf(u, BOOLEAN)'
      BY <1>1 DEF SolOf
    <2>3. \A u : SolOf(u, {TRUE})' \subseteq SolOf(u, {TRUE})
      <3>1. \A x \in sol' : x.found = TRUE => x \in sol
        BY <1>1
      <3> QED
        BY <3>1 DEF SolOf
    <2> QED
      BY <1>1, <2>1, <2>2, <2>3 DEF Steady
  <1>5. RowsComplete' /\ FetchedComplete'
    BY <1>1, <1>4, OthersStep
  <1> QED
    BY <1>2, <1>3, <1>5

LEMMA SolIndexedStep ==
  ASSUME Sizes, BalInv, SolIndexed
  PROVE  BalInv'
  <1> USE DEF BalInv
  <1>1. PICK t \in sol : sol' = (sol \ {t}) \cup {[t EXCEPT !.found = TRUE]} /\ Enqueue({t.user})
    BY DEF SolIndexed
  <1>2. UNCHANGED <<chain, assoc, change, lazy, scanned, stored, scan, refresh, rows, env>>
    BY DEF SolIndexed
  <1>3. t.user \in Users /\ t.id \in Nat /\ t \in [id : Nat, user : Users, found : BOOLEAN]
    BY DEF Types
  <1>4. /\ Waiting(t.user)' /\ immediate \subseteq immediate' /\ immediate' \subseteq Users
        /\ excused \subseteq excused'
    BY <1>1, <1>2, <1>3, EnqueuedWait
  <1>5. Types'
    <2>1. [t EXCEPT !.found = TRUE] \in [id : Nat, user : Users, found : BOOLEAN]
      BY <1>3
    <2>2. sol' \subseteq [id : Nat, user : Users, found : BOOLEAN] /\ immediate' \subseteq Users
      BY <1>1, <1>4, <2>1 DEF Types
    <2> QED
      BY <1>2, <2>2 DEF Types
  <1>6. ScansEndBelow'
    BY <1>2 DEF ScansEndBelow, Latest
  <1>7. \A u \in Users \ {t.user} : Steady(u)
    <2>1. OnChain' = OnChain /\ Latest' = Latest /\ \A i : Seen(i)' = Seen(i)
      BY <1>2 DEF OnChain, Latest, Seen
    <2>2. \A u \in Users \ {t.user}, F \in SUBSET BOOLEAN : SolOf(u, F)' = SolOf(u, F)
      <3>1. \A x : x.user # t.user => (x \in sol' <=> x \in sol)
        BY <1>1, <1>3
      <3> QED
        BY <3>1 DEF SolOf
    <2> QED
      BY <1>2, <2>1, <2>2 DEF Steady
  <1>8. RowsComplete' /\ FetchedComplete'
    BY <1>2, <1>4, <1>7, OthersStep
  <1> QED
    BY <1>5, <1>6, <1>8

-----------------------------------------------------------------------------
(* Users *)

LEMMA ChangeStep ==
  ASSUME Sizes, BalInv, NEW v \in Users, ChangeWallets(v)
  PROVE  BalInv'
  <1> USE DEF BalInv
  <1>1. /\ change' \in [pc : {"indexed"}, user : Users, wallets : SUBSET Wallets]
        /\ Enqueue({v})
        /\ env' = [env EXCEPT !.changes = @ + 1]
        /\ UNCHANGED <<chain, sol, assoc, lazy, scanned, stored, scan, refresh, rows>>
    BY DEF ChangeWallets
  <1>2. immediate \subseteq immediate' /\ immediate' \subseteq Users /\ excused \subseteq excused'
    BY <1>1, EnqueuedWait
  <1>3. Types'
    <2>1. env' \in [transfers : Nat, changes : Nat, faults : Nat]
      BY <1>1, PassTypes
    <2> QED
      BY <1>1, <1>2, <2>1 DEF Types
  <1>4. ScansEndBelow' /\ \A i : Seen(i)' = Seen(i)
    BY <1>1 DEF ScansEndBelow, Latest, Seen
  <1>5. RowsComplete' /\ FetchedComplete'
    BY <1>1, <1>2, <1>4, QuietIsSteady, OthersStep
  <1> QED
    BY <1>3, <1>4, <1>5

LEMMA CommittedStep ==
  ASSUME Sizes, BalInv, Committed
  PROVE  BalInv'
  <1> USE DEF BalInv
  <1>1. /\ change \in [pc : {"indexed"}, user : Users, wallets : SUBSET Wallets]
        /\ assoc' = [assoc EXCEPT ![change.user] = change.wallets]
        /\ excused' = IF change.user \in immediate /\ refresh.pc = "idle" THEN excused
                      ELSE excused \cup {change.user}
        /\ change' = Idle
        /\ UNCHANGED <<chain, sol, lazy, immediate, scanned, stored, scan, refresh, rows, env>>
    BY DEF Committed, Types, Idle
  <1>2. Types'
    BY <1>1 DEF Types
  <1>3. ScansEndBelow' /\ \A i : Seen(i)' = Seen(i)
    BY <1>1 DEF ScansEndBelow, Latest, Seen
  <1>4. \A u \in Users : u # change.user => assoc'[u] = assoc[u]
    BY <1>1 DEF Types
  <1>5. \A u \in Users : Waiting(u)' \/ Steady(u)
    <2> PICK v \in Users : v = change.user
      BY <1>1
    <2>1. Waiting(v)'
      <3>1. CASE v \in immediate /\ refresh.pc = "idle"
        BY <1>1, <3>1 DEF Waiting
      <3>2. CASE ~(v \in immediate /\ refresh.pc = "idle")
        BY <1>1, <3>2 DEF Waiting
      <3> QED
        BY <3>1, <3>2
    <2>2. OnChain' = OnChain /\ Latest' = Latest
      BY <1>1 DEF OnChain, Latest
    <2>3. \A u, F : SolOf(u, F)' = SolOf(u, F)
      BY <1>1 DEF SolOf
    <2>4. \A u \in Users : u # v => Steady(u)
      BY <1>1, <1>3, <1>4, <2>2, <2>3 DEF Steady
    <2> QED
      BY <2>1, <2>4
  <1>6. refresh.pc = "fetch" => \A u \in Users : u \in excused' \/ assoc'[u] = assoc[u]
    BY <1>1, <1>4
  <1>7. RowsComplete' /\ FetchedComplete'
    BY <1>1, <1>5, <1>6, OthersStep
  <1> QED
    BY <1>2, <1>3, <1>7

LEMMA LookStep ==
  ASSUME Sizes, BalInv, NEW v \in Users, LookAt(v)
  PROVE  BalInv'
  <1> USE DEF BalInv
  <1>1. /\ lazy' = lazy \cup {v}
        /\ UNCHANGED <<chain, sol, assoc, change, immediate, scanned, stored, scan, refresh, rows, excused, env>>
    BY DEF LookAt
  <1>2. Types' /\ ScansEndBelow' /\ \A i : Seen(i)' = Seen(i)
    BY <1>1 DEF Types, ScansEndBelow, Latest, Seen
  <1>3. RowsComplete' /\ FetchedComplete'
    BY <1>1, <1>2, QuietIsSteady, OthersStep
  <1> QED
    BY <1>2, <1>3

-----------------------------------------------------------------------------
(* The scanner *)

LEMMA RestoredBounds ==
  ASSUME Sizes, Types
  PROVE  /\ Restored \in Int
         /\ \A i \in Int : i >= 1 /\ i < StartAfter(Restored) => i < StartAfter(scanned) \/ i < StartAfter(stored)
  <1>1. CASE scanned # None
    BY <1>1 DEF Restored, Types
  <1>2. CASE scanned = None /\ stored # None
    BY <1>2 DEF Restored, Types
  <1>3. CASE scanned = None /\ stored = None
    BY <1>3, StartOfScan DEF Restored, Sizes
  <1> QED
    BY <1>1, <1>2, <1>3

LEMMA StartScanStep ==
  ASSUME Sizes, BalInv, StartScan
  PROVE  BalInv'
  <1> USE DEF BalInv
  <1>1. /\ scan' = [pc |-> "scan", block |-> StartAfter(Restored), end |-> SuggestedEnd, chunk |-> StartChunk]
        /\ UNCHANGED <<chain, sol, assoc, change, lazy, immediate, scanned, stored, refresh, rows, excused, env>>
    BY DEF StartScan
  <1>2. StartAfter(Restored) \in Int /\ SuggestedEnd \in Int /\ SuggestedEnd <= Latest - 1
    <2>1. Restored \in Int
      BY RestoredBounds
    <2>2. StartAfter(Restored) \in Int
      BY <2>1, StartOfScan
    <2>3. SuggestedEnd \in Int /\ SuggestedEnd <= Latest - 1
      BY ChainTypes DEF SuggestedEnd
    <2> QED
      BY <2>2, <2>3
  <1>3. scan' \in [pc : {"scan"}, block : Int, end : Int, chunk : Int]
    BY <1>1, <1>2 DEF Sizes
  <1>4. Types'
    BY <1>1, <1>3 DEF Types
  <1>5. ScansEndBelow'
    BY <1>1, <1>2 DEF ScansEndBelow, Latest
  <1>6. \A i \in 1..Latest : Seen(i)' => Seen(i)
    <2> SUFFICES ASSUME NEW i \in 1..Latest, Seen(i)' PROVE Seen(i)
      OBVIOUS
    <2>1. i < StartAfter(scanned) \/ i < StartAfter(stored) \/ i < StartAfter(Restored)
      BY <1>1 DEF Seen
    <2> QED
      BY <2>1, RestoredBounds DEF Seen
  <1>7. RowsComplete' /\ FetchedComplete'
    BY <1>1, <1>6, QuietIsSteady, OthersStep
  <1> QED
    BY <1>4, <1>5, <1>7

LEMMA ScanStep ==
  ASSUME Sizes, BalInv, ScanChunk
  PROVE  BalInv'
  <1> USE DEF BalInv
  <1> DEFINE estimate == Min({scan.block + scan.chunk, scan.end})
  <1>1. PICK to \in ActualEnds(scan.block, estimate), done \in {"enqueued", "cached", "saved"} :
          LET T == UNION {chain[i] : i \in (scan.block..to) \cap (1..Latest)}
              block == Min({to, scan.end})
          IN /\ Enqueue(Concerned(T))
             /\ scanned' = IF done = "enqueued" THEN scanned ELSE block
             /\ stored' = IF done = "saved" THEN block ELSE stored
             /\ scan' = IF done = "saved"
                        THEN [scan EXCEPT !.block = to + 1, !.chunk = NextChunk(@, T # {})] ELSE Idle
             /\ env' = [env EXCEPT !.faults = IF done = "saved" /\ to = estimate THEN @ ELSE @ + 1]
    BY DEF ScanChunk
  <1>2. /\ scan.pc = "scan" /\ scan.block <= scan.end
        /\ UNCHANGED <<chain, sol, assoc, change, lazy, refresh, rows>>
    BY DEF ScanChunk
  <1> DEFINE T == UNION {chain[i] : i \in (scan.block..to) \cap (1..Latest)}
             block == Min({to, scan.end})
  <1>3. /\ Enqueue(Concerned(T))
        /\ scanned' = IF done = "enqueued" THEN scanned ELSE block
        /\ stored' = IF done = "saved" THEN block ELSE stored
        /\ scan' = IF done = "saved"
                   THEN [scan EXCEPT !.block = to + 1, !.chunk = NextChunk(@, T # {})] ELSE Idle
        /\ env' = [env EXCEPT !.faults = IF done = "saved" /\ to = estimate THEN @ ELSE @ + 1]
    BY <1>1
  <1>4. scan \in [pc : {"scan"}, block : Int, end : Int, chunk : Int]
    BY <1>2, PassTypes
  <1>5. estimate \in Int
    <2> PICK a \in Int, b \in Int : a = scan.block + scan.chunk /\ b = scan.end
      BY <1>4
    <2> QED
      BY Bounds
  <1>6. to \in Int
    <2>1. \A m \in Int : m \div 2 \in Int
      OBVIOUS
    <2>2. \A S \in SUBSET Int : Halve(S) \in SUBSET Int
      BY <2>1 DEF Halve
    <2>3. {estimate - scan.block} \in SUBSET Int
      BY <1>4, <1>5
    <2>4. Halve(Halve({estimate - scan.block})) \in SUBSET Int
      BY <2>2, <2>3
    <2> HIDE DEF estimate
    <2> QED
      BY <1>4, <1>5, <2>4 DEF ActualEnds
  <1>7. block \in Int /\ block <= to /\ block <= scan.end
    <2> PICK a \in Int, b \in Int : a = to /\ b = scan.end
      BY <1>4, <1>6
    <2>1. Min({a, b}) = IF a <= b THEN a ELSE b
      BY Bounds
    <2>2. block = Min({a, b})
      OBVIOUS
    <2> HIDE DEF block
    <2> QED
      BY <2>1, <2>2
  <1> HIDE DEF T, block, estimate
  <1>8. /\ \A u \in Concerned(T) : Waiting(u)'
        /\ immediate \subseteq immediate' /\ immediate' \subseteq Users /\ excused \subseteq excused'
    <2>1. Concerned(T) \in SUBSET Users
      BY DEF Concerned
    <2> QED
      BY <1>2, <1>3, <2>1, EnqueuedWait
  <1>9. Types'
    <2>1. env' \in [transfers : Nat, changes : Nat, faults : Nat]
      BY <1>3, PassTypes
    <2>2. scan' \in {Idle} \cup [pc : {"scan"}, block : Int, end : Int, chunk : Int]
      <3>1. \A c \in Int, f \in BOOLEAN : NextChunk(c, f) \in Int
        <4> SUFFICES ASSUME NEW c \in Int, NEW f \in BOOLEAN PROVE NextChunk(c, f) \in Int
          OBVIOUS
        <4>1. MinChunk \in Int /\ MaxChunk \in Int
          BY DEF Sizes
        <4>2. \A x, y \in Int : Max({x, y}) \in Int /\ Min({x, y}) \in Int
          BY Bounds
        <4>3. PICK a \in Int : a = IF f THEN MinChunk ELSE 2 * c
          BY <4>1
        <4>4. PICK m \in Int : m = Max({MinChunk, a})
          BY <4>1, <4>2, Zenon
        <4>5. Min({MaxChunk, m}) \in Int
          BY <4>1, <4>2, Zenon
        <4> QED
          BY <4>3, <4>4, <4>5, Zenon DEF NextChunk
      <3>2. NextChunk(scan.chunk, T # {}) \in Int
        BY <1>4, <3>1
      <3> PICK c \in Int, b \in Int : c = NextChunk(scan.chunk, T # {}) /\ b = to + 1
        BY <1>6, <3>2
      <3>3. scan' = IF done = "saved" THEN [scan EXCEPT !.block = b, !.chunk = c] ELSE Idle
        BY <1>3
      <3> QED
        BY <1>4, <3>3
    <2>3. scanned' \in Int /\ stored' \in Int
      BY <1>3, <1>7 DEF Types
    <2> QED
      BY <1>2, <1>8, <2>1, <2>2, <2>3 DEF Types
  <1>10. ScansEndBelow'
    <2>1. scan.end <= Latest - 1 /\ Latest' = Latest
      BY <1>2 DEF ScansEndBelow, Latest
    <2>2. scan'.pc = "scan" => scan'.end = scan.end
      BY <1>3, <1>4 DEF Idle
    <2>3. scanned' <= Latest - 1 /\ stored' <= Latest - 1
      <3>1. Latest \in Nat /\ scanned <= Latest - 1 /\ stored <= Latest - 1 /\ block <= Latest - 1
        BY <1>4, <1>7, <2>1, ChainTypes DEF ScansEndBelow
      <3> QED
        BY <1>3, <2>1, <3>1
    <2> QED
      BY <2>1, <2>2, <2>3 DEF ScansEndBelow
  <1>11. \A i \in 1..Latest : Seen(i)' => Seen(i) \/ i \in scan.block..to
    <2> SUFFICES ASSUME NEW i \in 1..Latest, Seen(i)', i \notin scan.block..to PROVE Seen(i)
      OBVIOUS
    <2>1. i < scan.block \/ i > to
      BY <1>4, <1>6
    <2>2. i < StartAfter(block) => i < block - Safety
      BY <1>7, StartOfScan
    <2>3. i < StartAfter(scan.end) <=> i < scan.end - Safety
      BY <1>4, StartOfScan
    <2>4. i < StartAfter(block) => Seen(i)
      BY <1>2, <1>4, <1>6, <1>7, <2>1, <2>2, <2>3 DEF Seen, Sizes
    <2>5. scan'.pc = "scan" /\ i < scan'.block /\ i < StartAfter(scan'.end) => Seen(i)
      <3> SUFFICES ASSUME done = "saved", i < to + 1, i < StartAfter(scan.end) PROVE Seen(i)
        BY <1>3, <1>4 DEF Idle
      <3> QED
        BY <1>2, <1>4, <1>6, <2>1 DEF Seen
    <2>6. i < StartAfter(scanned') => Seen(i)
      BY <1>3, <2>4 DEF Seen
    <2>7. i < StartAfter(stored') => Seen(i)
      BY <1>3, <2>4 DEF Seen
    <2> QED
      BY <2>5, <2>6, <2>7 DEF Seen
  <1>12. \A u \in Users : Waiting(u)' \/ Steady(u)
    <2> SUFFICES ASSUME NEW u \in Users, u \notin Concerned(T) PROVE Steady(u)
      BY <1>8
    <2>1. OnChain' = OnChain /\ Latest' = Latest
      BY <1>2 DEF OnChain, Latest
    <2>2. \A F : SolOf(u, F)' = SolOf(u, F)
      BY <1>2 DEF SolOf
    <2>3. \A i \in 1..Latest : i \in scan.block..to => \A t \in chain[i] : t.wallet \notin OfUser(u)
      BY DEF Concerned, OfUser, T
    <2> QED
      BY <1>2, <1>11, <2>1, <2>2, <2>3 DEF Steady
  <1>13. RowsComplete' /\ FetchedComplete'
    BY <1>2, <1>8, <1>12, OthersStep
  <1> QED
    BY <1>9, <1>10, <1>13

LEMMA EndScanStep ==
  ASSUME Sizes, BalInv, EndScan
  PROVE  BalInv'
  <1> USE DEF BalInv
  <1>1. /\ scan.pc = "scan" /\ scan.block > scan.end
        /\ scanned' = scan.end /\ stored' = scan.end /\ scan' = Idle
        /\ UNCHANGED <<chain, sol, assoc, change, lazy, immediate, refresh, rows, excused, env>>
    BY DEF EndScan
  <1>2. scan \in [pc : {"scan"}, block : Int, end : Int, chunk : Int]
    BY <1>1 DEF Types, Idle
  <1>3. Types'
    BY <1>1, <1>2 DEF Types
  <1>4. ScansEndBelow'
    BY <1>1 DEF ScansEndBelow, Latest, Idle
  <1>5. \A i \in 1..Latest : Seen(i)' => Seen(i)
    <2> SUFFICES ASSUME NEW i \in 1..Latest, i < StartAfter(scan.end) PROVE Seen(i)
      BY <1>1 DEF Seen, Idle
    <2>1. i < scan.block
      BY <1>1, <1>2, StartOfScan DEF Sizes
    <2> QED
      BY <1>1, <2>1 DEF Seen
  <1>6. RowsComplete' /\ FetchedComplete'
    BY <1>1, <1>5, QuietIsSteady, OthersStep
  <1> QED
    BY <1>3, <1>4, <1>6

LEMMA RestartStep ==
  ASSUME Sizes, BalInv, Restart
  PROVE  BalInv'
  <1> USE DEF BalInv
  <1>1. /\ scanned' = None /\ scan' = Idle /\ refresh' = Idle
        /\ lazy' \subseteq lazy /\ immediate' \subseteq immediate
        /\ immediate \cup excused \subseteq immediate' \cup excused'
        /\ env' = [env EXCEPT !.faults = @ + 1]
        /\ UNCHANGED <<chain, sol, assoc, change, stored, rows>>
    BY DEF Restart
  <1>2. Types'
    <2>1. env' \in [transfers : Nat, changes : Nat, faults : Nat]
      BY <1>1, PassTypes
    <2> QED
      BY <1>1, <2>1 DEF Types, None, Idle
  <1>3. Latest' = Latest /\ Latest \in Nat
    BY <1>1, ChainTypes DEF Latest
  <1>4. ScansEndBelow'
    BY <1>1, <1>3 DEF ScansEndBelow, Idle, None
  <1>5. \A i \in 1..Latest : Seen(i)' => Seen(i)
    BY <1>1, StartOfScan DEF Seen, Idle, None, Sizes
  <1>6. RowsComplete'
    <2>1. \A u \in Users : \A r : Complete(u, r) => Complete(u, r)'
      BY <1>1, <1>5, QuietIsSteady, CompleteLasts
    <2> QED
      BY <1>1, <2>1, RowsStay
  <1>7. FetchedComplete'
    BY <1>1 DEF FetchedComplete, Idle
  <1> QED
    BY <1>2, <1>4, <1>6, <1>7

-----------------------------------------------------------------------------
(* The refresh *)

LEMMA StartRefreshStep ==
  ASSUME Sizes, BalInv, StartRefresh
  PROVE  BalInv'
  <1> USE DEF BalInv
  <1>1. PICK L \in SUBSET LazyUsers :
          refresh' = [pc |-> "fetch", lazy |-> L, immediate |-> immediate,
                      todo |-> L \cup immediate, wallets |-> assoc, new |-> rows]
    BY DEF StartRefresh
  <1>2. UNCHANGED <<chain, sol, assoc, change, lazy, immediate, scanned, stored, scan, rows, excused, env>>
    BY DEF StartRefresh
  <1>3. L \subseteq Users
    BY DEF LazyUsers, Types
  <1>4. Types'
    <2>1. refresh' \in [pc : {"fetch"}, lazy : SUBSET Users, immediate : SUBSET Users,
                        todo : SUBSET Users, wallets : [Users -> SUBSET Wallets], new : [Users -> Row]]
      BY <1>1, <1>3 DEF Types
    <2>2. refresh'.todo \subseteq refresh'.lazy \cup refresh'.immediate
      BY <1>1
    <2> QED
      BY <1>2, <2>1, <2>2 DEF Types
  <1>5. ScansEndBelow' /\ \A i : Seen(i)' = Seen(i)
    BY <1>2 DEF ScansEndBelow, Latest, Seen
  <1>6. \A u \in Users : \A r : Complete(u, r) => Complete(u, r)'
    BY <1>2, <1>5, QuietIsSteady, CompleteLasts
  <1>7. RowsComplete'
    BY <1>2, <1>6, RowsStay
  <1>8. FetchedComplete'
    BY <1>1, <1>2 DEF FetchedComplete, Fetched
  <1> QED
    BY <1>4, <1>5, <1>7, <1>8

LEMMA FetchStep ==
  ASSUME Sizes, BalInv, NEW v \in Users, Fetch(v)
  PROVE  BalInv'
  <1> USE DEF BalInv
  <1> DEFINE old == refresh.new[v]
             found(fate) == [old EXCEPT !.exists = TRUE, !.owner = BalanceOf({Own[v]}),
                               !.assoc = BalanceOf(refresh.wallets[v]),
                               !.sol = IF fate = "skipped" THEN {} ELSE SolOf(v, BOOLEAN)]
             new(fate) == IF fate = "failed" THEN [old EXCEPT !.exists = TRUE]
                          ELSE [found(fate) EXCEPT !.change = <<Total(old), Total(found(fate))>>]
  <1>1. PICK fate \in {"fetched", "skipped", "failed"} :
          /\ refresh' = [refresh EXCEPT !.todo = @ \ {v}, !.new[v] = new(fate)]
          /\ excused' = IF fate = "fetched" THEN excused ELSE excused \cup {v}
          /\ env' = [env EXCEPT !.faults = IF fate = "fetched" THEN @ ELSE @ + 1]
    BY DEF Fetch
  <1>2. /\ refresh.pc = "fetch" /\ v \in refresh.todo
        /\ UNCHANGED <<chain, sol, assoc, change, lazy, immediate, scanned, stored, scan, rows>>
    BY DEF Fetch
  <1>3. refresh \in [pc : {"fetch"}, lazy : SUBSET Users, immediate : SUBSET Users,
                     todo : SUBSET Users, wallets : [Users -> SUBSET Wallets], new : [Users -> Row]]
    BY <1>2, PassTypes
  <1>4. old \in Row
    BY <1>3
  <1>5. \A f : found(f) \in Row /\ found(f).owner = BalanceOf({Own[v]})
               /\ found(f).assoc = BalanceOf(refresh.wallets[v])
               /\ found(f).sol = IF f = "skipped" THEN {} ELSE SolOf(v, BOOLEAN)
    <2> HIDE DEF old
    <2>1. /\ BalanceOf({Own[v]}) \in SUBSET Nat /\ BalanceOf(refresh.wallets[v]) \in SUBSET Nat
          /\ SolOf(v, BOOLEAN) \in SUBSET Nat /\ {} \in SUBSET Nat
      BY ChainTypes
    <2> QED
      BY <1>4, <2>1 DEF Row
  <1>6. \A r \in Row : Total(r) \in SUBSET Nat
    BY DEF Row, Total
  <1> HIDE DEF found
  <1>7. new(fate) \in Row
    <2>1. <<Total(old), Total(found(fate))>> \in Seq(SUBSET Nat)
      BY <1>4, <1>5, <1>6
    <2> HIDE DEF old
    <2> QED
      BY <1>4, <1>5, <2>1 DEF Row
  <1>8. fate = "fetched" => Total(new(fate)) = BalanceOf({Own[v]}) \cup BalanceOf(refresh.wallets[v]) \cup SolOf(v, BOOLEAN)
    BY <1>5 DEF Row, Total
  <1> HIDE DEF new, old
  <1>9. /\ refresh' \in [pc : {"fetch"}, lazy : SUBSET Users, immediate : SUBSET Users,
                         todo : SUBSET Users, wallets : [Users -> SUBSET Wallets], new : [Users -> Row]]
        /\ refresh'.pc = "fetch" /\ refresh'.lazy = refresh.lazy /\ refresh'.immediate = refresh.immediate
        /\ refresh'.wallets = refresh.wallets /\ refresh'.todo = refresh.todo \ {v}
        /\ refresh'.new[v] = new(fate) /\ \A u \in Users : u # v => refresh'.new[u] = refresh.new[u]
    BY <1>1, <1>3, <1>7
  <1>10. Types'
    <2>1. env' \in [transfers : Nat, changes : Nat, faults : Nat]
      BY <1>1, PassTypes
    <2> QED
      BY <1>2, <1>9, <2>1 DEF Types
  <1>11. ScansEndBelow' /\ \A i : Seen(i)' = Seen(i)
    BY <1>2 DEF ScansEndBelow, Latest, Seen
  <1>12. \A u \in Users : \A r : Complete(u, r) => Complete(u, r)'
    BY <1>2, <1>11, QuietIsSteady, CompleteLasts
  <1>13. RowsComplete'
    <2>1. immediate \cup excused \subseteq immediate' \cup excused'
      BY <1>1, <1>2
    <2> QED
      BY <1>2, <1>12, <2>1, RowsStay
  <1>14. FetchedComplete'
    <2> SUFFICES ASSUME NEW u \in Users
                 PROVE  /\ u \notin excused' => refresh'.wallets[u] = assoc[u]
                        /\ ~Fetched(u)' => refresh'.new[u] = rows[u]
                        /\ Fetched(u)' /\ ~Waiting(u)' => Complete(u, refresh.new[u])'
      BY <1>2, <1>9 DEF FetchedComplete
    <2>1. /\ u \notin excused => refresh.wallets[u] = assoc[u]
          /\ ~Fetched(u) => refresh.new[u] = rows[u]
          /\ Fetched(u) /\ ~Waiting(u) => Complete(u, refresh.new[u])
      BY <1>2 DEF FetchedComplete
    <2>2. excused \subseteq excused'
      BY <1>1
    <2>3. CASE u # v
      <3>1. Fetched(u)' = Fetched(u) /\ (Waiting(u)' => Waiting(u)) /\ (Waiting(u) => Waiting(u)')
        BY <1>1, <1>2, <1>9, <2>3 DEF Fetched, Waiting
      <3>2. Complete(u, refresh.new[u]) => Complete(u, refresh.new[u])'
        <4> PICK r : r = refresh.new[u]
          OBVIOUS
        <4>1. Complete(u, r) => Complete(u, r)'
          BY <1>12
        <4>2. refresh'.new[u] = r
          BY <1>9, <2>3
        <4> QED
          BY <4>1, <4>2 DEF Complete, Total
      <3> QED
        BY <1>9, <2>1, <2>2, <2>3, <3>1, <3>2
    <2>4. CASE u = v /\ fate # "fetched"
      <3>1. v \in excused' /\ Waiting(v)'
        BY <1>1, <2>4 DEF Waiting
      <3>2. ~Fetched(v)' => refresh'.new[v] = rows[v]
        <4>1. v \in refresh.lazy \cup refresh.immediate
          BY <1>2 DEF Types
        <4> QED
          BY <4>1, <1>9 DEF Fetched
      <3> QED
        BY <2>4, <3>1, <3>2
    <2>5. CASE u = v /\ fate = "fetched"
      <3>1. excused' = excused
        BY <1>1, <2>5
      <3>2. ASSUME ~Waiting(v)' PROVE Complete(v, new(fate))
        <4>1. v \notin excused /\ refresh.wallets[v] = assoc[v]
          BY <2>1, <2>5, <3>1, <3>2 DEF Waiting
        <4>2. Total(new(fate)) = BalanceOf(OfUser(v)) \cup SolOf(v, BOOLEAN)
          BY <1>8, <2>5, <4>1 DEF BalanceOf, OfUser
        <4>3. \A i \in 1..Latest : \A t \in chain[i] : t.wallet \in OfUser(v) => t.id \in BalanceOf(OfUser(v))
          BY DEF BalanceOf, OnChain
        <4>4. SolOf(v, {TRUE}) \subseteq SolOf(v, BOOLEAN)
          BY DEF SolOf
        <4> QED
          BY <4>2, <4>3, <4>4 DEF Complete
      <3>3. Fetched(v)'
        BY <1>2, <1>9 DEF Fetched, Types
      <3>4. ASSUME ~Waiting(v)' PROVE Complete(v, refresh.new[v])'
        <4> PICK r : r = new(fate)
          OBVIOUS
        <4>1. Complete(v, r)'
          BY <1>12, <3>2, <3>4
        <4>2. refresh'.new[v] = r
          BY <1>9
        <4> QED
          BY <4>1, <4>2 DEF Complete, Total
      <3> QED
        BY <1>9, <2>1, <2>5, <3>1, <3>3, <3>4
    <2> QED
      BY <2>3, <2>4, <2>5
  <1> QED
    BY <1>10, <1>11, <1>13, <1>14

LEMMA EndRefreshStep ==
  ASSUME Sizes, BalInv, EndRefresh
  PROVE  BalInv'
  <1> USE DEF BalInv
  <1>1. /\ refresh.pc = "fetch" /\ refresh.todo = {}
        /\ rows' = refresh.new /\ refresh' = Idle
        /\ lazy' = lazy \ refresh.lazy /\ immediate' = immediate \ refresh.immediate
        /\ UNCHANGED <<chain, sol, assoc, change, scanned, stored, scan, excused, env>>
    BY DEF EndRefresh
  <1>2. Types'
    BY <1>1 DEF Types, Idle
  <1>3. ScansEndBelow' /\ \A i : Seen(i)' = Seen(i)
    BY <1>1 DEF ScansEndBelow, Latest, Seen
  <1>4. \A u \in Users : \A r : Complete(u, r) => Complete(u, r)'
    BY <1>1, <1>3, QuietIsSteady, CompleteLasts
  <1>5. RowsComplete'
    <2> SUFFICES ASSUME NEW u \in Users, u \notin immediate' \cup excused' PROVE Complete(u, rows[u])'
      BY DEF RowsComplete
    <2> PICK r : r = refresh.new[u]
      OBVIOUS
    <2>1. Complete(u, r)
      <3>1. CASE Fetched(u)
        BY <1>1, <3>1 DEF FetchedComplete, Waiting
      <3>2. CASE ~Fetched(u)
        <4>1. u \notin immediate /\ refresh.new[u] = rows[u]
          BY <1>1, <3>2 DEF FetchedComplete, Fetched
        <4> QED
          BY <1>1, <4>1 DEF RowsComplete
      <3> QED
        BY <3>1, <3>2
    <2>2. Complete(u, r)' /\ rows'[u] = r
      BY <1>1, <1>4, <2>1
    <2> QED
      BY <2>2 DEF Complete, Total
  <1>6. FetchedComplete'
    BY <1>1 DEF FetchedComplete, Idle
  <1> QED
    BY <1>2, <1>3, <1>5, <1>6

-----------------------------------------------------------------------------
LEMMA InvInit ==
  ASSUME Sizes, Init
  PROVE  BalInv
  <1>1. NoRow \in Row
    BY EmptySeq DEF NoRow, Row
  <1>2. chain \in Seq(SUBSET Transfer) /\ Latest = 1 /\ chain[1] = {}
    BY DEF Init, Latest
  <1>3. Types
    BY <1>1, <1>2 DEF Init, Types, Idle, None
  <1>4. ScansEndBelow
    BY <1>2 DEF Init, ScansEndBelow, Idle, None
  <1>5. RowsComplete
    <2> SUFFICES ASSUME NEW u \in Users PROVE Complete(u, rows[u])
      BY DEF RowsComplete
    <2>1. Total(rows[u]) = {}
      BY DEF Init, NoRow, Total
    <2>2. SolOf(u, {TRUE}) = {}
      BY DEF Init, SolOf
    <2> QED
      BY <1>2, <2>1, <2>2 DEF Complete
  <1>6. FetchedComplete
    BY DEF Init, FetchedComplete, Idle
  <1> QED
    BY <1>3, <1>4, <1>5, <1>6 DEF BalInv

LEMMA InvStep ==
  ASSUME Sizes, BalInv, [Next]_vars
  PROVE  BalInv'
  <1>1. CASE NewBlock
    BY <1>1, NewBlockStep
  <1>2. CASE Reorganise
    BY <1>2, ReorganiseStep
  <1>3. CASE SolIndexed
    BY <1>3, SolIndexedStep
  <1>4. CASE Committed
    BY <1>4, CommittedStep
  <1>5. CASE \E u \in Users : SolTransfer(u) \/ ChangeWallets(u) \/ LookAt(u) \/ Fetch(u)
    BY <1>5, SolTransferStep, ChangeStep, LookStep, FetchStep
  <1>6. CASE StartScan
    BY <1>6, StartScanStep
  <1>7. CASE ScanChunk
    BY <1>7, ScanStep
  <1>8. CASE EndScan
    BY <1>8, EndScanStep
  <1>9. CASE Restart
    BY <1>9, RestartStep
  <1>10. CASE StartRefresh
    BY <1>10, StartRefreshStep
  <1>11. CASE EndRefresh
    BY <1>11, EndRefreshStep
  <1>12. CASE UNCHANGED vars
    <2>1. UNCHANGED <<chain, sol, assoc, change, lazy, immediate, scanned, stored, scan, refresh,
                      rows, excused, env>>
      BY <1>12 DEF vars
    <2>2. Types' /\ ScansEndBelow' /\ \A i : Seen(i)' = Seen(i)
      BY <2>1 DEF BalInv, Types, ScansEndBelow, Latest, Seen
    <2>3. RowsComplete' /\ FetchedComplete'
      BY <2>1, <2>2, QuietIsSteady, OthersStep DEF BalInv
    <2> QED
      BY <2>2, <2>3 DEF BalInv
  <1> QED
    BY <1>1, <1>2, <1>3, <1>4, <1>5, <1>6, <1>7, <1>8, <1>9, <1>10, <1>11, <1>12 DEF Next

(* A stored balance that is not what the chains say belongs to a user who  *)
(* is in the set, or will be when the blocks still to be scanned are       *)
(* (cache_user_balance.py, event_scanner.py): however passes of the        *)
(* scanner and of the refresh, transfers, changes of wallets, restarts and *)
(* reorganisations up to two blocks deeper than CHAIN_REORG_SAFETY_BLOCKS  *)
(* interleave.                                                             *)
THEOREM StaleAreQueued ==
  ASSUME Sizes
  PROVE  Spec => []StaleIsQueued
  <1>1. BalInv => StaleIsQueued
    <2> SUFFICES ASSUME BalInv, NEW u \in Users, Stale(u),
                        u \notin immediate \cup excused \cup Concerned(Unseen),
                        SolOf(u, {FALSE}) = {}
                 PROVE  FALSE
      BY DEF StaleIsQueued
    <2> USE DEF BalInv
    <2>1. Complete(u, rows[u])
      BY DEF RowsComplete
    <2>2. \A i \in 1..Latest : i < Resume => Seen(i)
      <3> SUFFICES ASSUME NEW i \in 1..Latest, i < Resume PROVE Seen(i)
        OBVIOUS
      <3>1. CASE scan.pc = "scan"
        <4>1. scan.block \in Int /\ StartAfter(scan.end) \in Int
          BY <3>1, StartOfScan, PassTypes
        <4>2. i < scan.block /\ i < StartAfter(scan.end)
          <5> PICK a \in Int, b \in Int : a = scan.block /\ b = StartAfter(scan.end)
            BY <4>1
          <5>1. i < Min({a, b})
            BY <3>1 DEF Resume
          <5>2. Min({a, b}) = IF a <= b THEN a ELSE b
            BY Bounds
          <5> QED
            BY <5>1, <5>2
        <4> QED
          BY <3>1, <4>2 DEF Seen
      <3>2. CASE scan.pc # "scan"
        BY <3>2, RestoredBounds DEF Resume, Seen
      <3> QED
        BY <3>1, <3>2
    <2>3. BalanceOf(OfUser(u)) \subseteq Total(rows[u])
      <3> SUFFICES ASSUME NEW t \in OnChain, t.wallet \in OfUser(u) PROVE t.id \in Total(rows[u])
        BY DEF BalanceOf
      <3>1. PICK i \in 1..Latest : t \in chain[i]
        BY DEF OnChain
      <3>2. ~(i >= Resume)
        BY <3>1 DEF Concerned, Unseen, OfUser
      <3>3. Resume \in Int
        <4>1. CASE scan.pc = "scan"
          <5> PICK a \in Int, b \in Int : a = scan.block /\ b = StartAfter(scan.end)
            BY <4>1, StartOfScan, PassTypes
          <5> QED
            BY <4>1, Bounds DEF Resume
        <4>2. CASE scan.pc # "scan"
          BY <4>2, RestoredBounds, StartOfScan DEF Resume
        <4> QED
          BY <4>1, <4>2
      <3> QED
        BY <2>1, <2>2, <3>1, <3>2, <3>3 DEF Complete
    <2>4. SolOf(u, BOOLEAN) \subseteq SolOf(u, {TRUE})
      <3>1. \A x \in sol : x.found \in BOOLEAN
        BY PassTypes
      <3>2. \A x \in sol : x.user = u => x.found # FALSE
        BY DEF SolOf
      <3> QED
        BY <3>1, <3>2 DEF SolOf
    <2>5. Total(rows[u]) = BalanceOf(OfUser(u)) \cup SolOf(u, {TRUE})
      BY <2>1, <2>3, <2>4 DEF Complete
    <2> QED
      BY <2>5 DEF Stale, OfUser
  <1>2. Init => BalInv
    BY InvInit
  <1>3. BalInv /\ [Next]_vars => BalInv'
    BY InvStep
  <1> QED
    BY <1>1, <1>2, <1>3, PTL DEF Spec
=============================================================================
