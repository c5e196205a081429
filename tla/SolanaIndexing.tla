--------------------------- MODULE SolanaIndexing ---------------------------
(***************************************************************************)
(* How a discovery node follows the transactions of its Solana programs:   *)
(* the tasks index_rewards_manager, index_user_bank, index_solana_plays    *)
(* and index_spl_token.  A pass walks back from the newest transaction in  *)
(* pages until it meets what is indexed, then works through the pages,     *)
(* the oldest first.  The first two commit a page at once; the others cut  *)
(* it into chunks of a database transaction each, and keep in redis the    *)
(* place a walk has reached.                                               *)
(*                                                                         *)
(* A transaction is its place in the history of the program, 1 being the   *)
(* oldest; a page is the set of places in it, read from the newest one.    *)
(* Modelled: passes that overlap because the redis lock of one that runs   *)
(* has expired (after ten minutes for index_user_bank, four hours for the  *)
(* others), failing and crashing passes, error transactions, the bound on  *)
(* the pages kept, threads that share a session.  Left out: what a         *)
(* transaction means, except for the tips that depend on an account.       *)
(***************************************************************************)
EXTENDS Integers, Sequences, FiniteSets, SequencesExt

CONSTANTS
  Indexers,   \* those under study, of the four
  FirstPage,  \* INITIAL_FETCH_SIZE
  PageSize,   \* FETCH_TX_SIGNATURES_BATCH_SIZE
  ChunkSize,  \* TX_SIGNATURES_PROCESSING_SIZE
  MaxBatches, \* TX_SIGNATURES_MAX_BATCHES
  Resize,     \* TX_SIGNATURES_RESIZE_LENGTH
  MinSlot,    \* MIN_SLOT
  Passes,     \* passes that may be under way at once, positive numbers
  MaxTxs, MaxSlot, MaxFails, MaxExpiries \* bounds

VARIABLES
  indexer, \* the task
  chain,   \* slot and kind of every transaction of the program
  table,   \* transactions with a row
  tips,    \* transfers recorded as tips
  scanned, \* last_scanned_slot of index_spl_token
  cache,   \* the queue of places in redis
  job,     \* the passes
  lock,    \* the pass that holds the task's lock
  fails,   \* failures so far
  expiries \* locks that expired under a running pass
vars == <<indexer, chain, table, tips, scanned, cache, job, lock, fails, expiries>>

Kinds == {"error", "transfer"} \cup (IF indexer = "user_bank" THEN {"account"} ELSE {})
NoSlot == -1
NoPass == 0
Newest == 0 \* no place to read before
Idle == [pc |-> "idle", before |-> Newest, first |-> TRUE, latest |-> 0, batches |-> <<>>,
         known |-> FALSE] \* accounts had rows when this page was begun

Slot(i) == chain[i].slot
Pages == indexer \in {"rewards", "user_bank"}
MaxOf(S) == CHOOSE x \in S : \A y \in S : y <= x
MinOf(S) == CHOOSE x \in S : \A y \in S : x <= y
Slots == {Slot(i) : i \in table}

----------------------------------------------------------------------------
(* The finalized transactions of the program (external). *)
NewTx ==
  /\ Len(chain) < MaxTxs
  /\ \E s \in (IF chain = <<>> THEN 1 ELSE Last(chain).slot)..MaxSlot, k \in Kinds :
       chain' = Append(chain, [slot |-> s, kind |-> k])
  /\ UNCHANGED <<indexer, table, tips, scanned, cache, job, lock, fails, expiries>>

----------------------------------------------------------------------------
(* The walk *)

(* Where the program's table ends. *)
LatestSlot ==
  IF indexer = "spl" THEN scanned
  ELSE IF table # {} THEN MaxOf(Slots)
  ELSE IF indexer = "user_bank" THEN MinSlot ELSE 0

(* fetch_traversed_tx_from_cache drops places up to the first that is not  *)
(* indexed yet; the last one of several is dropped with the one before it. *)
CacheHit(c, latest) ==
  {k \in 1..(IF Len(c) = 1 THEN 1 ELSE Len(c) - 1) : Slot(c[k]) > latest}
FirstHit(c, latest) == MinOf(CacheHit(c, latest))
CacheLeft(c, k) == IF Len(c) - k <= 1 THEN <<>> ELSE SubSeq(c, k + 1, Len(c))

\* A new pass takes the first place that is free.
Start(p) ==
  /\ job[p].pc = "idle" /\ lock = NoPass
  /\ \A q \in Passes : job[q].pc = "idle" => p <= q
  /\ LET l == LatestSlot
         cached == ~Pages /\ l # NoSlot /\ CacheHit(cache, l) # {}
     IN /\ job' = [job EXCEPT ![p] = [Idle EXCEPT !.pc = "walk", !.latest = l,
                    !.before = IF cached THEN cache[FirstHit(cache, l)] ELSE Newest]]
        /\ cache' = IF Pages \/ l = NoSlot THEN cache
                    ELSE IF cached THEN CacheLeft(cache, FirstHit(cache, l))
                    ELSE <<>>
  /\ lock' = p
  /\ UNCHANGED <<indexer, chain, table, tips, scanned, fails, expiries>>

(* get_signatures_for_address: the newest before a transaction, or of all. *)
Page(p) ==
  LET b == IF job[p].before = Newest THEN Len(chain) + 1 ELSE job[p].before
      n == IF job[p].first THEN FirstPage ELSE PageSize
  IN {i \in 1..(b - 1) : i >= b - n}

\* Variant: a slot that has rows is taken for indexed altogether.
SlotIsIndexed(p, i) == Slot(i) <= job[p].latest
(* The transaction at which the walk ends, and those it takes along. *)
IsIntersection(p, i) ==
  /\ Slot(i) <= job[p].latest
  /\ \/ indexer = "spl"
     \/ i \in table /\ (indexer = "plays" \/ Slot(i) > MinSlot)
\* Variant: transactions before MIN_SLOT are taken along.
AnyIsTaken(p, i) == TRUE
IsTaken(p, i) == Slot(i) > job[p].latest \/ indexer = "plays" \/ Slot(i) > MinSlot

(* The pages kept, the newest first; the newest are dropped if there are   *)
(* too many.                                                               *)
Bounded(batches) ==
  IF indexer # "plays" /\ Len(batches) > MaxBatches
  THEN SubSeq(batches, Len(batches) - Resize + 1, Len(batches))
  ELSE batches

Accounts(C) == {i \in C : chain[i].kind = "account"}

FetchPage(p) ==
  /\ job[p].pc = "walk" /\ Page(p) # {}
  /\ LET all == indexer = "spl" /\ job[p].latest = NoSlot
         met == {i \in Page(p) : IsIntersection(p, i)}
         batch == IF all THEN Page(p)
                  ELSE {i \in Page(p) : IsTaken(p, i) /\ \A m \in met : m < i}
     IN /\ job' = [job EXCEPT
             ![p].pc = IF all \/ met # {} THEN "work" ELSE "walk",
             ![p].before = MinOf(Page(p)), ![p].first = FALSE,
             ![p].batches = Bounded(IF batch = {} THEN @ ELSE Append(@, batch)),
             ![p].known = Accounts(table) # {}]
        /\ cache' = IF Pages THEN cache ELSE <<MinOf(Page(p))>> \o cache
  /\ UNCHANGED <<indexer, chain, table, tips, scanned, lock, fails, expiries>>

EndOfHistory(p) ==
  /\ job[p].pc = "walk" /\ Page(p) = {}
  /\ job' = [job EXCEPT ![p].pc = "work", ![p].known = Accounts(table) # {}]
  /\ UNCHANGED <<indexer, chain, table, tips, scanned, cache, lock, fails, expiries>>

----------------------------------------------------------------------------
(* The work: the oldest page first, the chunks of a page as they are       *)

Chunk(p) ==
  LET b == Last(job[p].batches)
  IN IF Pages THEN b ELSE {i \in b : Cardinality({j \in b : j > i}) < ChunkSize}
BatchesLeft(p) ==
  LET rest == Last(job[p].batches) \ Chunk(p)
  IN Front(job[p].batches) \o (IF rest = {} THEN <<>> ELSE <<rest>>)

(* Error transactions leave no row in plays and audio_transactions_history. *)
Recorded(C) == IF Pages THEN C ELSE {i \in C : chain[i].kind # "error"}
Transfers(C) == {i \in C : chain[i].kind = "transfer"}

(* Threads parse the transactions of a page and share one session: a       *)
(* transfer finds the accounts that had rows when the page was begun, and  *)
(* those of its own page, or of another pass, that were added before.      *)
TipSets(p, C) ==
  IF indexer # "user_bank" THEN {{}}
  ELSE IF job[p].known THEN {Transfers(C)}
  ELSE IF Accounts(table \cup C) # {} THEN SUBSET Transfers(C)
  ELSE {{}}

(* The signature is a key of every table but plays. *)
CanSave(C) == indexer = "plays" \/ Recorded(C) \cap table = {}

ProcessChunk(p) ==
  /\ job[p].pc = "work" /\ job[p].batches # <<>>
  /\ LET C == Chunk(p)
     IN /\ CanSave(C)
        /\ table' = table \cup Recorded(C)
        /\ \E T \in TipSets(p, C) : tips' = tips \cup T
        /\ scanned' = IF indexer = "spl" THEN Slot(MaxOf(C)) ELSE scanned
        /\ cache' = IF indexer = "plays" /\ Recorded(C) = {} THEN <<>> ELSE cache
        /\ job' = [job EXCEPT ![p].batches = BatchesLeft(p),
                              ![p].known = Accounts(table \cup C) # {}]
  /\ UNCHANGED <<indexer, chain, lock, fails, expiries>>

(* A pass frees the lock only if it is still its own. *)
LockFreedBy(p) == IF lock = p THEN NoPass ELSE lock

SaveFails(p) ==
  /\ job[p].pc = "work" /\ job[p].batches # <<>>
  /\ ~CanSave(Chunk(p))
  /\ job' = [job EXCEPT ![p] = Idle]
  /\ lock' = LockFreedBy(p)
  /\ UNCHANGED <<indexer, chain, table, tips, scanned, cache, fails, expiries>>

Finish(p) ==
  /\ job[p].pc = "work" /\ job[p].batches = <<>>
  /\ job' = [job EXCEPT ![p] = Idle]
  /\ lock' = LockFreedBy(p)
  /\ UNCHANGED <<indexer, chain, table, tips, scanned, cache, fails, expiries>>

(* The RPC endpoint gives up, or the worker dies with its lock. *)
Fail(p) ==
  /\ job[p].pc # "idle" /\ fails < MaxFails
  /\ job' = [job EXCEPT ![p] = Idle]
  /\ lock' \in {lock, LockFreedBy(p)}
  /\ fails' = fails + 1
  /\ UNCHANGED <<indexer, chain, table, tips, scanned, cache, expiries>>

(* The lock of a dead pass goes with its timeout, or at the next start of  *)
(* the server; that of a pass that takes longer than the timeout, too.     *)
LockLapses ==
  /\ lock # NoPass /\ job[lock].pc = "idle"
  /\ lock' = NoPass
  /\ UNCHANGED <<indexer, chain, table, tips, scanned, cache, job, fails, expiries>>

LockExpires ==
  /\ lock # NoPass /\ job[lock].pc # "idle" /\ expiries < MaxExpiries
  /\ lock' = NoPass
  /\ expiries' = expiries + 1
  /\ UNCHANGED <<indexer, chain, table, tips, scanned, cache, job, fails>>

----------------------------------------------------------------------------
Init ==
  /\ indexer \in Indexers
  /\ chain = <<>> /\ table = {} /\ tips = {}
  /\ scanned = NoSlot
  /\ cache = <<>>
  /\ job = [p \in Passes |-> Idle]
  /\ lock = NoPass
  /\ fails = 0 /\ expiries = 0

Pass(p) ==
  \/ Start(p) \/ FetchPage(p) \/ EndOfHistory(p)
  \/ ProcessChunk(p) \/ SaveFails(p) \/ Finish(p)
GoOn == LockLapses \/ \E p \in Passes : Pass(p)
Next == NewTx \/ GoOn \/ LockExpires \/ \E p \in Passes : Fail(p)
Spec == Init /\ [][Next]_vars
(* celery beat starts a pass every few seconds and some pass goes on. *)
FairSpec == Spec /\ WF_vars(GoOn)

----------------------------------------------------------------------------
(* Type invariant of the passes. *)
TypeOK ==
  /\ table \subseteq DOMAIN chain /\ tips \subseteq table
  /\ scanned \in {NoSlot} \cup 1..MaxSlot
  /\ \A k \in DOMAIN cache : cache[k] \in DOMAIN chain
  /\ \A p \in Passes : \A k \in DOMAIN job[p].batches : job[p].batches[k] \subseteq DOMAIN chain
  /\ lock \in Passes \cup {NoPass}

(* "we can assume subsequent transactions in this batch have already been  *)
(* processed": nothing older than an indexed transaction is missing, or no *)
(* later pass will look for it.  A task that cuts its pages into chunks,   *)
(* the newest first, owes it when no pass is at work.                      *)
Relevant(i) == chain[i].kind # "error" /\ (Pages => Slot(i) > MinSlot)
NoGap ==
  Pages \/ (\A p \in Passes : job[p].pc # "work") =>
    \A i \in table : \A j \in 1..i : Relevant(j) => j \in table

(* No row is inserted whose key is taken: unless a lock has expired under  *)
(* a running pass, what a pass still has to do is new.                     *)
NothingTwice ==
  expiries = 0 =>
    \A p \in Passes : job[p].pc = "work" =>
      \A k \in DOMAIN job[p].batches : job[p].batches[k] \cap table = {}

(* Both for the tasks that commit a page of transactions at once           *)
(* (index_rewards_manager.py, index_user_bank.py).                         *)
IndexedOnce == Pages => NoGap /\ NothingTwice

(* Whatever fails and however many pages are dropped, every transaction    *)
(* gets its row.                                                           *)
AllIndexed == \A i \in DOMAIN chain : Relevant(i) => i \in table
EventuallyIndexed == <>[]AllIndexed

============================================================================
