--------------------------- MODULE BlockIndexing ---------------------------
(***************************************************************************)
(* How a discovery node follows its chain: the celery tasks                *)
(* update_discovery_provider (src/tasks/index.py, the POA network) and     *)
(* update_discovery_provider_nethermind (index_nethermind.py, its          *)
(* successor).  Workers that run a task exclude each other by a redis lock *)
(* with a timeout.  A pass reads the head of the chain, finds where the    *)
(* chain and the indexed blocks part, reverts the indexed blocks above     *)
(* that point and indexes the missing ones, one database transaction per   *)
(* block.                                                                  *)
(*                                                                         *)
(* A block hash stands for the whole history of the block: it is the       *)
(* network and the contents of the blocks from the first to this one.      *)
(* Every indexed table holds the versions of one entity.                   *)
(*                                                                         *)
(* Modelled: reorganisations, failing blocks, the error record in redis    *)
(* and the skipping of a block, crashes, the lock's timeout, the cut-over  *)
(* between the networks.  Not modelled here: what a transaction does       *)
(* (EntityManager), how other nodes answer (SkipConsensus).                *)
(***************************************************************************)
EXTENDS Integers, Sequences, FiniteSets

CONSTANTS
  Workers,        \* celery workers that can run a pass
  NoWorker,
  VersionedKinds, \* tables reverted to the last version before the block
  SocialKinds,    \* saves, reposts, follows
  KeptKinds,      \* tables that no revert touches (notification_seen;
                  \* subscriptions on nethermind, which POA reverts)
  Window,         \* block_processing_window
  RevertSlice,    \* 50: blocks reverted in one pass
  RevertLimit,    \* 100: a longer revert is refused
  FinalPOA,       \* final_poa_block, 0 when not set
  MaxSkipped,     \* MAX_NETWORK_LEVEL_SKIPPED_TX
  LockMayExpire,  \* TRUE: a pass may outlive the timeout of its lock
  MaxHeight,      \* per network, the bound on the chain
  Settled,        \* per network, blocks that are never reorganised
  MaxForks, MaxFaults, MaxCrashes, MaxBad  \* bounds on the environment

Nets == {"poa", "neth"}
Kinds == VersionedKinds \cup SocialKinds \cup KeptKinds
Contents == {"none", "bad"} \cup Kinds

VARIABLES
  chain,    \* per network, the contents of the node's current chain
  rows,     \* hashes in the blocks table
  cur,      \* those with is_current
  tbl,      \* rows of the indexed tables
  err,      \* the indexing error kept in redis
  skipped,  \* hashes in skipped_transactions at network level
  hollow,   \* history: blocks whose transactions were skipped as a whole
  recent,   \* most_recent_indexed_block in redis
  lock,     \* holder of disc_prov_lock
  task,     \* per worker, the pass it runs
  env       \* bounds: forks, faults, crashes, bad blocks so far

vars == <<chain, rows, cur, tbl, err, skipped, hollow, recent, lock, task, env>>
db == <<rows, cur, tbl, skipped, hollow>>

----------------------------------------------------------------------------
(* Hashes *)

StartHash == [net |-> "poa", path |-> <<>>]
Number(h) == Len(h.path) + (IF h.net = "neth" THEN FinalPOA ELSE 0)
Ancestor(h, i) == [net |-> h.net, path |-> SubSeq(h.path, 1, i)]
Parent(h) == Ancestor(h, Len(h.path) - 1)
Content(h) == h.path[Len(h.path)]
MinOf(S) == CHOOSE x \in S : \A y \in S : x <= y
MaxOf(S) == CHOOSE x \in S : \A y \in S : y <= x

(* One version of the entity of a kind, written by the block [hash]. *)
Row(k, h, c) == [kind |-> k, hash |-> h, current |-> c]
NoError == [hash |-> StartHash, tx |-> "none", consensus |-> FALSE]
Idle == [pc |-> "idle", net |-> "poa", target |-> StartHash,
         index |-> <<>>, revert |-> <<>>, skip |-> FALSE]

----------------------------------------------------------------------------
(* The chain as the node's RPC endpoint serves it (external) *)

NewBlock(n) ==
  /\ Len(chain[n]) < MaxHeight[n]
  /\ \E c \in Contents :
       /\ c = "bad" => env.bad < MaxBad
       /\ chain' = [chain EXCEPT ![n] = Append(@, c)]
       /\ env' = [env EXCEPT !.bad = @ + (IF c = "bad" THEN 1 ELSE 0)]
  /\ UNCHANGED <<db, err, recent, lock, task>>

(* A fork wins when it is as long as the chain it replaces.  The POA       *)
(* network is settled once it has reached the cut-over block.              *)
Reorg(n) ==
  /\ env.forks < MaxForks
  /\ n = "poa" /\ FinalPOA # 0 => Len(chain[n]) < FinalPOA
  /\ \E k \in Settled[n]..(Len(chain[n]) - 1), c \in Contents \ {"bad"} :
       /\ c # chain[n][k + 1]
       /\ chain' = [chain EXCEPT ![n] = [i \in 1..Len(@) |->
            IF i <= k THEN @[i] ELSE IF i = k + 1 THEN c ELSE "none"]]
  /\ env' = [env EXCEPT !.forks = @ + 1]
  /\ UNCHANGED <<db, err, recent, lock, task>>

----------------------------------------------------------------------------
(* Starting and ending a pass *)

Step(w, t) == task' = [task EXCEPT ![w] = t]

(* An exception, or the end: the finally clause releases the lock, unless *)
(* it expired and belongs to another worker by now.                       *)
Leave(w) ==
  /\ Step(w, Idle)
  /\ lock' = IF lock = w THEN NoWorker ELSE lock

(* update_task until the lock: POA is done at final_poa_block, and        *)
(* nethermind starts there.  Every pass is assumed to learn               *)
(* final_poa_block (get_final_poa_block answers None while identity       *)
(* cannot be reached and redis has no copy).                              *)
PoaIsDone == FinalPOA # 0 /\ \E h \in cur : Number(h) >= FinalPOA
StartPoa(w) ==
  /\ task[w].pc = "idle"
  /\ ~PoaIsDone
  /\ Step(w, [Idle EXCEPT !.pc = "acquire", !.net = "poa"])
  /\ UNCHANGED <<chain, db, err, recent, lock, env>>
StartNethermind(w) ==
  /\ task[w].pc = "idle"
  /\ PoaIsDone
  /\ Step(w, [Idle EXCEPT !.pc = "acquire", !.net = "neth"])
  /\ UNCHANGED <<chain, db, err, recent, lock, env>>

Acquire(w) ==
  /\ task[w].pc = "acquire"
  /\ IF lock = NoWorker
     THEN lock' = w /\ Step(w, [task[w] EXCEPT !.pc = "target"])
     ELSE UNCHANGED lock /\ Step(w, Idle)
  /\ UNCHANGED <<chain, db, err, recent, env>>

(* The lock's ten minutes pass; the holder may have crashed and started   *)
(* another pass, which waits for it.                                      *)
LockExpires ==
  /\ lock # NoWorker
  /\ LockMayExpire \/ task[lock].pc \in {"idle", "acquire"}
  /\ lock' = NoWorker
  /\ UNCHANGED <<chain, db, err, recent, task, env>>

Crash(w) ==
  /\ env.crashes < MaxCrashes
  /\ task[w].pc # "idle"
  /\ Step(w, Idle)
  /\ env' = [env EXCEPT !.crashes = @ + 1]
  /\ UNCHANGED <<chain, db, err, recent, lock>>

----------------------------------------------------------------------------
(* Which block to reach *)

(* Nethermind is followed one block behind its head. *)
PoaTargets(h) == MinOf({Number(h) + Window, Len(chain["poa"])})
NethermindTargets(h) ==
  MinOf({Number(h) + Window - FinalPOA, Len(chain["neth"]) - 1})

GetLatestBlock(w) ==
  /\ task[w].pc = "target"
  /\ LET n == task[w].net IN
     IF Cardinality(cur) = 1
     THEN LET c == CHOOSE h \in cur : TRUE
              top == IF n = "poa" THEN PoaTargets(c) ELSE NethermindTargets(c)
          IN IF n = "neth" /\ top < 1
             THEN Leave(w)   \* the parent of the genesis block is not found
             ELSE /\ Step(w, [task[w] EXCEPT !.pc = "lists",
                     !.target = [net |-> n, path |-> SubSeq(chain[n], 1, top)]])
                  /\ UNCHANGED lock
     ELSE Leave(w)           \* "Expected SINGLE row marked as current"
  /\ UNCHANGED <<chain, db, err, recent, env>>

----------------------------------------------------------------------------
(* Where the chain and the database part *)

(* Lengths at which the history of h is in the blocks table. *)
Indexed(h) ==
  {i \in (IF h.net = "neth" THEN 1 ELSE 0)..Len(h.path) : Ancestor(h, i) \in rows}

(* The intersection; nethermind's first block has none, and then nothing  *)
(* is undone (reached_initial_block).                                     *)
ReachedInitial(h) == Indexed(h) = {}
Shared(h) == IF ReachedInitial(h) THEN 0 ELSE MaxOf(Indexed(h))

IndexList(h) ==
  [i \in 1..(Len(h.path) - Shared(h)) |-> Ancestor(h, Shared(h) + i)]

(* From the current block c down to the intersection s, or to a block     *)
(* whose parent is not in the table.                                      *)
RevertDepth(c, s) ==
  IF c = s THEN 0
  ELSE MinOf({d \in 1..(Len(c.path) + 1) :
                \/ d > Len(c.path)
                \/ Ancestor(c, Len(c.path) - d) = s
                \/ Ancestor(c, Len(c.path) - d) \notin rows})
RevertList(c, s) ==
  [j \in 1..RevertDepth(c, s) |-> Ancestor(c, Len(c.path) - j + 1)]

FindBlocks(w) ==
  /\ task[w].pc = "lists"
  /\ LET h == task[w].target
         s == Ancestor(h, Shared(h))
         c == CHOOSE x \in cur : TRUE
         unbound == h.net = "neth" /\ h \in rows /\ c # h
         undo == ~(h.net = "neth" /\ ReachedInitial(h))
     IN IF Cardinality(cur) # 1 \/ unbound  \* reached_initial_block unbound
        THEN Leave(w)
        ELSE /\ Step(w, [task[w] EXCEPT !.pc = "revert",
                           !.index = IndexList(h),
                           !.revert = IF undo THEN RevertList(c, s) ELSE <<>>])
             /\ UNCHANGED lock
  /\ UNCHANGED <<chain, db, err, recent, env>>

----------------------------------------------------------------------------
(* Reverting *)

OfKind(T, k) == {r \in T : r.kind = k}

(* The row r of kind k that first() picks among the rows S: the highest.  *)
IsHighest(r, S) == r \in S /\ \A x \in S : Number(x.hash) <= Number(r.hash)

\* Variant: the filter on the block's number is forgotten.
RestoredAny(T, R) ==
  {r \in T : /\ r.kind \in VersionedKinds /\ r.hash \notin R
             /\ \E b \in OfKind(T, r.kind) :
                  b.hash \in R /\ IsHighest(r, OfKind(T, r.kind))}

(* Rows whose is_current is set while the blocks R are undone, top down:  *)
(* the version before the block's for most tables ...                     *)
RestoredVersions(T, R) ==
  {r \in T : /\ r.kind \in VersionedKinds /\ r.hash \notin R
             /\ \E b \in OfKind(T, r.kind) :
                  /\ b.hash \in R
                  /\ IsHighest(r, {x \in OfKind(T, r.kind) :
                                     Number(x.hash) < Number(b.hash)})}
(* ... and the highest row, the one being undone included, for saves,     *)
(* reposts and follows.                                                   *)
RestoredSocial(T, R) ==
  {r \in T : /\ r.kind \in SocialKinds /\ r.hash \notin R
             /\ \E b \in OfKind(T, r.kind) :
                  /\ b.hash \in R
                  /\ IsHighest(r, {x \in OfKind(T, r.kind) :
                        x.hash \in R => Number(x.hash) <= Number(b.hash)})}
Restored(T, R) == RestoredVersions(T, R) \cup RestoredSocial(T, R)

RevertedTable(T, R) ==
  {Row(r.kind, r.hash, r.current \/ r \in Restored(T, R)) :
     r \in {x \in T : x.kind \in KeptKinds \/ x.hash \notin R}}

RevertSome(w, dropped(_), newCur(_)) ==
  /\ task[w].pc = "revert"
  /\ LET R == {task[w].revert[j] : j \in DOMAIN task[w].revert} IN
     /\ rows' = rows \ dropped(R)
     /\ cur' = newCur(R)
     /\ tbl' = RevertedTable(tbl, R)
     /\ hollow' = hollow \ R
  /\ Step(w, [task[w] EXCEPT !.pc = "index"])
  /\ UNCHANGED <<chain, lock, skipped, err, recent, env>>
\* Variant: reverted blocks stay in the table.
RevertKeepingRows(w) ==
  RevertSome(w, LAMBDA R : {}, LAMBDA R : (cur \ R) \cup ({Parent(b) : b \in R} \ R))
\* Variant: reverted blocks stay current.
RevertKeepingCurrent(w) == RevertSome(w, LAMBDA R : R, LAMBDA R : cur)

RevertBlocks(w) ==
  /\ task[w].pc = "revert"
  /\ LET n == Len(task[w].revert)
         R == {task[w].revert[j] : j \in 1..MinOf({n, RevertSlice})}
     IN IF n > RevertLimit
        THEN Leave(w) /\ UNCHANGED db
        ELSE /\ rows' = rows \ R
             /\ cur' = (cur \ R) \cup ({Parent(b) : b \in R} \cap (rows \ R))
             /\ tbl' = RevertedTable(tbl, R)
             /\ hollow' = hollow \ R
             /\ Step(w, [task[w] EXCEPT !.pc = "index"])
             /\ UNCHANGED <<lock, skipped>>
  /\ UNCHANGED <<chain, err, recent, env>>

----------------------------------------------------------------------------
(* Indexing one block *)

\* Variant: consensus is never acted upon.
NeverSkip == FALSE

(* get_tx_hash_to_skip: the error was confirmed by the other nodes. *)
SkipWholeBlock == err.consensus /\ err.tx = "commit"

(* process_state_changes: the old version stops being current. *)
IndexedTable(T, h) ==
  IF Content(h) \in Kinds
  THEN {IF r.kind = Content(h) THEN Row(r.kind, r.hash, FALSE) ELSE r : r \in T}
         \cup {Row(Content(h), h, TRUE)}
  ELSE T

(* What the database refuses: a second row with the hash or the number of *)
(* a block, and a second row of a kept kind for the same block time.      *)
CanCommit(h) ==
  /\ Cardinality(cur) = 1
  /\ \A r \in rows : r # h /\ Number(r) # Number(h)
  /\ SkipWholeBlock \/ /\ Content(h) # "bad"
                       /\ \A r \in OfKind(tbl, Content(h)) :
                            r.kind \in KeptKinds => Number(r.hash) # Number(h)

IndexBlock(w) ==
  /\ task[w].pc = "index" /\ task[w].index # <<>>
  /\ LET h == Head(task[w].index) IN
     /\ CanCommit(h)
     /\ rows' = rows \cup {h}
     /\ cur' = {h}
     /\ tbl' = IF SkipWholeBlock THEN tbl ELSE IndexedTable(tbl, h)
     /\ hollow' = IF SkipWholeBlock THEN hollow \cup {h} ELSE hollow
     /\ skipped' = IF SkipWholeBlock /\ Cardinality(skipped) < MaxSkipped
                   THEN skipped \cup {err.hash} ELSE skipped
     /\ Step(w, [task[w] EXCEPT !.pc = "redis", !.skip = SkipWholeBlock])
  /\ UNCHANGED <<chain, err, recent, lock, env>>

(* After the commit: the error is forgotten if it was acted upon, and the *)
(* block is announced in redis.                                           *)
AfterCommit(w) ==
  /\ task[w].pc = "redis"
  /\ err' = IF task[w].skip THEN NoError ELSE err
  /\ recent' = Number(Head(task[w].index))
  /\ Step(w, [task[w] EXCEPT !.pc = "index", !.index = Tail(@), !.skip = FALSE])
  /\ UNCHANGED <<chain, db, lock, env>>

(* A block is flushed before its transactions are applied, if it has any, *)
(* and is refused then, before the commit.                                *)
FailsAtFlush(h) ==
  Content(h) \in Kinds /\ \E r \in rows : r = h \/ Number(r) = Number(h)

(* create_and_raise_indexing_error: what fails before the commit names no *)
(* transaction; a block that cannot be committed is recorded under the    *)
(* transaction "commit", and the other nodes confirm it or not.  The      *)
(* assertion that one block is current is not caught when the block is to *)
(* be skipped.                                                            *)
Recorded(h) ==
  IF Cardinality(cur) # 1 /\ SkipWholeBlock THEN {err}
  ELSE IF ~SkipWholeBlock /\ (Cardinality(cur) # 1 \/ FailsAtFlush(h))
  THEN [hash : {h}, tx : {"none"}, consensus : {FALSE}]
  ELSE [hash : {h}, tx : {"commit"}, consensus : BOOLEAN]

FailCommit(w) ==
  /\ task[w].pc = "index" /\ task[w].index # <<>>
  /\ ~CanCommit(Head(task[w].index))
  /\ err' \in Recorded(Head(task[w].index))
  /\ Leave(w)
  /\ UNCHANGED <<chain, db, recent, env>>

(* A failure while receipts or metadata are fetched names no transaction. *)
FailFetch(w) ==
  /\ task[w].pc = "index" /\ task[w].index # <<>>
  /\ ~SkipWholeBlock
  /\ env.faults < MaxFaults
  /\ env' = [env EXCEPT !.faults = @ + 1]
  /\ err' = [hash |-> Head(task[w].index), tx |-> "none", consensus |-> FALSE]
  /\ Leave(w)
  /\ UNCHANGED <<chain, db, recent>>

Finish(w) ==
  /\ task[w].pc = "index" /\ task[w].index = <<>>
  /\ Leave(w)
  /\ UNCHANGED <<chain, db, err, recent, env>>

----------------------------------------------------------------------------
Init ==
  /\ chain = [n \in Nets |-> <<>>]
  /\ rows = {StartHash} /\ cur = {StartHash}
  /\ tbl = {}
  /\ err = NoError
  /\ skipped = {} /\ hollow = {}
  /\ recent = 0
  /\ lock = NoWorker
  /\ task = [w \in Workers |-> Idle]
  /\ env = [forks |-> 0, faults |-> 0, crashes |-> 0, bad |-> 0]

Pass(w) ==
  \/ StartPoa(w) \/ StartNethermind(w) \/ Acquire(w)
  \/ GetLatestBlock(w) \/ FindBlocks(w) \/ RevertBlocks(w)
  \/ IndexBlock(w) \/ AfterCommit(w) \/ FailCommit(w) \/ Finish(w)

Environment ==
  \/ \E n \in Nets : NewBlock(n) \/ Reorg(n)
  \/ \E w \in Workers : Crash(w) \/ FailFetch(w)

Next == (\E w \in Workers : Pass(w)) \/ LockExpires \/ Environment

Spec == Init /\ [][Next]_vars

(* celery beat starts a pass every few seconds on each worker, a running  *)
(* pass goes on, and an abandoned lock expires.  A block that no node can  *)
(* commit is tried by all of them again and again, until they confirm it. *)
Confirmed(w) == FailCommit(w) /\ err'.consensus
Fairness ==
  /\ \A w \in Workers : WF_vars(Pass(w)) /\ SF_vars(Confirmed(w))
  /\ WF_vars(LockExpires)
FairSpec == Spec /\ Fairness

----------------------------------------------------------------------------
(* Type invariant of the indexing state. *)
TypeOK ==
  /\ \A h \in rows : h.net \in Nets /\ h.path \in Seq(Contents)
  /\ cur \subseteq rows /\ hollow \subseteq rows
  /\ \A r \in tbl : r.kind \in Kinds /\ r.current \in BOOLEAN
  /\ lock \in Workers \cup {NoWorker}
  /\ \A w \in Workers : task[w].pc \in {"idle", "acquire", "target", "lists",
                                         "revert", "index", "redis"}

(* index.py asserts in three places that exactly one block is current;    *)
(* when it does not hold, every later pass fails at once.  The blocks     *)
(* table is one chain below it, so that the database describes one        *)
(* history of the network and not parts of two.                           *)
OneHistory ==
  \E c \in rows : cur = {c} /\ \A h \in rows :
    \/ h.net = c.net /\ Len(h.path) <= Len(c.path) /\ h = Ancestor(c, Len(h.path))
    \/ h.net = "poa" /\ c.net = "neth"

(* History of a kind: the indexed blocks that wrote it.                   *)
Writers(k) == {h \in rows \ hollow : Len(h.path) > 0 /\ Content(h) = k}

(* Whatever was reverted and indexed again, an entity has exactly the     *)
(* versions that the indexed blocks wrote, and its current version is the *)
(* one of the latest of them.                                             *)
TableIsReplay ==
  \A k \in VersionedKinds \cup SocialKinds :
    OfKind(tbl, k) =
      {Row(k, h, \A g \in Writers(k) : Number(g) <= Number(h)) : h \in Writers(k)}

(* Once the network keeps its chain, the node indexes it up to the block  *)
(* it follows: the head, or on nethermind the one below it.               *)
Followed ==
  IF FinalPOA = 0 \/ Len(chain["poa"]) < FinalPOA \/ Len(chain["neth"]) < 2
  THEN [net |-> "poa", path |-> chain["poa"]]
  ELSE [net |-> "neth", path |-> SubSeq(chain["neth"], 1, Len(chain["neth"]) - 1)]
CatchesUp == <>[][FALSE]_chain => <>[](cur = {Followed})

============================================================================
