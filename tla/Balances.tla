------------------------------ MODULE Balances ------------------------------
(***************************************************************************)
(* Balances of users: transfers found on Ethereum, the users they concern, *)
(* and the task that fetches what these have                               *)
(* (eth_indexing/event_scanner.py, tasks/index_eth.py,                     *)
(* tasks/cache_user_balance.py, queries/get_balances.py).                  *)
(*                                                                         *)
(* index_eth scans the chain for transfers, chunk by chunk, and puts users *)
(* whose wallets occur in one into a set in redis.  update_user_balances   *)
(* fetches the balances of the users in the set, stores them and takes the *)
(* users out of the set.  Users also get into it when their wallets change *)
(* and when a transfer is found on Solana, and into a second set when they *)
(* are looked at.                                                          *)
(*                                                                         *)
(* What a wallet holds is the set of transfers that touch it.  A user has  *)
(* a wallet of its own, an account on Solana (its bank or an associated    *)
(* one) and associated wallets on Ethereum.  updated_at of a balance never *)
(* changes: every row is due for a refresh                                 *)
(* (does_user_balance_need_refresh).                                       *)
(***************************************************************************)
EXTENDS Integers, Sequences, FiniteSets, FiniteSetsExt

CONSTANTS
  Users, Wallets,
  Own,         \* each user's wallet
  Safety,      \* CHAIN_REORG_SAFETY_BLOCKS
  MinChunk, MaxChunk, StartChunk, \* sizes of chunks of blocks
  MaxLazy,     \* MAX_LAZY_REFRESH_USER_IDS
  Depth,       \* blocks a reorganisation replaces at most
  MaxBlock, MaxTransfers, MaxChanges, MaxFaults \* bounds

VARIABLES
  chain,     \* the blocks of Ethereum, each a set of transfers [id, wallet]
  sol,       \* transfers on Solana to the accounts of users, found or not
  assoc,     \* table associated_wallets: the wallets of each user
  change,    \* a change of a user's wallets that is not committed
  lazy, immediate, \* USER_BALANCE_REFRESH_LAZY, USER_BALANCE_REFRESH_IMMEDIATE
  scanned,   \* eth_indexing_last_scanned_block_2 in redis, None when deleted
  stored,    \* table eth_blocks, None when it is empty
  scan,      \* the pass of index_eth
  refresh,   \* the pass of update_user_balances
  rows,      \* tables user_balances and user_balance_changes
  excused,   \* users whose refresh failed, or overlapped with their request
  env        \* transfers, changes and faults so far
vars == <<chain, sol, assoc, change, lazy, immediate, scanned, stored, scan,
          refresh, rows, excused, env>>

None == -1
Idle == [pc |-> "idle"]
NoRow == [exists |-> FALSE, owner |-> {}, assoc |-> {}, sol |-> {}, change |-> <<>>]
Latest == Len(chain)
OnChain == UNION {chain[i] : i \in 1..Latest}
BalanceOf(W) == {t.id : t \in {x \in OnChain : x.wallet \in W}}
SolOf(u, found) == {t.id : t \in {x \in sol : x.user = u /\ x.found \in found}}
Total(b) == b.owner \cup b.assoc \cup b.sol

----------------------------------------------------------------------------
(* Ethereum, Solana and the users *)

NewBlock == \E W \in {{}} \cup {{w} : w \in Wallets} :
  /\ Latest < MaxBlock
  /\ W # {} => env.transfers < MaxTransfers
  /\ chain' = Append(chain, {[id |-> env.transfers, wallet |-> w] : w \in W})
  /\ env' = [env EXCEPT !.transfers = @ + Cardinality(W)]
  /\ UNCHANGED <<sol, assoc, change, lazy, immediate, scanned, stored, scan, refresh, rows, excused>>
(* The last blocks are replaced by as many; each of their transfers is in  *)
(* one of the new ones.                                                    *)
Reorganise == \E d \in 1..Depth :
  LET old == SubSeq(chain, 1, Latest - d)
      moved == OnChain \ UNION {old[i] : i \in 1..(Latest - d)}
  IN
  /\ Latest > d /\ env.faults < MaxFaults
  /\ \E at \in [moved -> (Latest - d + 1)..Latest] :
       chain' = [i \in 1..Latest |-> IF i <= Latest - d THEN old[i] ELSE {t \in moved : at[t] = i}]
  /\ chain' # chain
  /\ env' = [env EXCEPT !.faults = @ + 1]
  /\ UNCHANGED <<sol, assoc, change, lazy, immediate, scanned, stored, scan, refresh, rows, excused>>

(* enqueue_immediate_balance_refresh.  The pass that is going on takes     *)
(* users it began with out of the set when it ends.                        *)
Enqueue(U) ==
  /\ immediate' = immediate \cup U
  /\ excused' = excused \cup (IF refresh.pc = "idle" THEN {} ELSE U \cap refresh.immediate)

SolTransfer(u) ==
  /\ env.transfers < MaxTransfers
  /\ sol' = sol \cup {[id |-> env.transfers, user |-> u, found |-> FALSE]}
  /\ env' = [env EXCEPT !.transfers = @ + 1]
  /\ UNCHANGED <<chain, assoc, change, lazy, immediate, scanned, stored, scan, refresh, rows, excused>>
(* refresh_user_balances of index_user_bank, and the like of               *)
(* index_rewards_manager and index_spl_token.                              *)
SolIndexed == \E t \in sol :
  /\ ~t.found
  /\ sol' = (sol \ {t}) \cup {[t EXCEPT !.found = TRUE]}
  /\ Enqueue({t.user})
  /\ UNCHANGED <<chain, assoc, change, lazy, scanned, stored, scan, refresh, rows, env>>

(* update_user_associated_wallets: the user is enqueued before the block   *)
(* is committed.                                                           *)
ChangeWallets(u) ==
  /\ change.pc = "idle" /\ env.changes < MaxChanges
  /\ \E W \in SUBSET (Wallets \ UNION {assoc[v] : v \in Users \ {u}}) :
       /\ W # assoc[u]
       /\ change' = [pc |-> "indexed", user |-> u, wallets |-> W]
  /\ Enqueue({u})
  /\ env' = [env EXCEPT !.changes = @ + 1]
  /\ UNCHANGED <<chain, sol, assoc, lazy, scanned, stored, scan, refresh, rows>>
Committed ==
  /\ change.pc = "indexed"
  /\ assoc' = [assoc EXCEPT ![change.user] = change.wallets]
  /\ excused' = IF change.user \in immediate /\ refresh.pc = "idle" THEN excused
                ELSE excused \cup {change.user}
  /\ change' = Idle
  /\ UNCHANGED <<chain, sol, lazy, immediate, scanned, stored, scan, refresh, rows, env>>

----------------------------------------------------------------------------
(* index_eth *)

(* restore *)
Restored == IF scanned # None THEN scanned ELSE IF stored # None THEN stored ELSE 0
SuggestedEnd == Latest - 1
\* Variant: blocks scanned are not scanned again.
NextAfter(block) == block + 1
StartAfter(block) == Max({block - Safety, 0})
StartScan ==
  /\ scan.pc = "idle" /\ StartAfter(Restored) <= SuggestedEnd
  /\ scan' = [pc |-> "scan", block |-> StartAfter(Restored), end |-> SuggestedEnd, chunk |-> StartChunk]
  /\ UNCHANGED <<chain, sol, assoc, change, lazy, immediate, scanned, stored, refresh, rows, excused, env>>

(* Where _retry_web3_call may end a chunk: each retry halves it. *)
Halve(S) == S \cup {n \div 2 : n \in S}
ActualEnds(block, estimate) ==
  IF MaxFaults = env.faults THEN {estimate}
  ELSE {block + n : n \in Halve(Halve({estimate - block}))}
(* estimate_next_chunk_size *)
NextChunk(chunk, found) ==
  Min({MaxChunk, Max({MinChunk, IF found THEN MinChunk ELSE 2 * chunk})})
(* process_event of the transfers in the blocks of a chunk *)
Concerned(T) == {u \in Users : \E t \in T : t.wallet \in {Own[u]} \cup assoc[u]}

(* scan_chunk and save.  The worker may die between any two of: enqueueing *)
(* the users, the block in redis, the block in the database.               *)
ScanChunk ==
  LET estimate == Min({scan.block + scan.chunk, scan.end}) IN
  /\ scan.pc = "scan" /\ scan.block <= scan.end
  /\ \E to \in ActualEnds(scan.block, estimate), done \in {"enqueued", "cached", "saved"} :
       LET T == UNION {chain[i] : i \in (scan.block..to) \cap (1..Latest)}
           block == Min({to, scan.end})
       IN
       /\ done # "saved" => env.faults < MaxFaults
       /\ Enqueue(Concerned(T))
       /\ scanned' = IF done = "enqueued" THEN scanned ELSE block
       /\ stored' = IF done = "saved" THEN block ELSE stored
       /\ scan' = IF done = "saved"
                  THEN [scan EXCEPT !.block = to + 1, !.chunk = NextChunk(@, T # {})] ELSE Idle
       /\ env' = [env EXCEPT !.faults = IF done = "saved" /\ to = estimate THEN @ ELSE @ + 1]
  /\ UNCHANGED <<chain, sol, assoc, change, lazy, refresh, rows>>
EndScan ==
  /\ scan.pc = "scan" /\ scan.block > scan.end
  /\ scanned' = scan.end /\ stored' = scan.end /\ scan' = Idle
  /\ UNCHANGED <<chain, sol, assoc, change, lazy, immediate, refresh, rows, excused, env>>

(* The worker starts again and deletes the key of the last block           *)
(* (configure_celery); or redis loses its sets as well.                    *)
Restart == \E flushed \in BOOLEAN :
  /\ env.faults < MaxFaults
  /\ scanned' = None /\ scan' = Idle /\ refresh' = Idle
  /\ lazy' = IF flushed THEN {} ELSE lazy
  /\ immediate' = IF flushed THEN {} ELSE immediate
  /\ excused' = IF flushed THEN excused \cup immediate ELSE excused
  /\ env' = [env EXCEPT !.faults = @ + 1]
  /\ UNCHANGED <<chain, sol, assoc, change, stored, rows>>

----------------------------------------------------------------------------
(* get_balances and update_user_balances *)

HasRow(u) == rows[u].exists
(* get_balances: a user is enqueued who has no row, or one that is due. *)
LookAt(u) ==
  /\ u \notin lazy /\ lazy' = lazy \cup {u}
  /\ UNCHANGED <<chain, sol, assoc, change, immediate, scanned, stored, scan, refresh, rows, excused, env>>

(* get_lazy_refresh_user_ids: those without a row are passed over. *)
LazyUsers == {u \in lazy : HasRow(u)}
StartRefresh == \E L \in SUBSET LazyUsers :
  /\ refresh.pc = "idle" /\ L \cup immediate # {}
  /\ Cardinality(L) = Min({MaxLazy, Cardinality(LazyUsers)})
  /\ refresh' = [pc |-> "fetch", lazy |-> L, immediate |-> immediate,
                 todo |-> L \cup immediate, wallets |-> assoc, new |-> rows]
  /\ UNCHANGED <<chain, sol, assoc, change, lazy, immediate, scanned, stored, scan, rows, excused, env>>
(* The balances of a user, and the change that is noted of their sum.      *)
(* When a request fails the user keeps what the row had, with zeros if     *)
(* there was none; an associated wallet on Solana is passed over alone.    *)
Fetch(u) == refresh.pc = "fetch" /\ u \in refresh.todo /\ \E fate \in {"fetched", "skipped", "failed"} :
  LET old == refresh.new[u]
      found == [old EXCEPT !.exists = TRUE, !.owner = BalanceOf({Own[u]}),
                  !.assoc = BalanceOf(refresh.wallets[u]),
                  !.sol = IF fate = "skipped" THEN {} ELSE SolOf(u, BOOLEAN)]
  IN
  /\ fate # "fetched" => env.faults < MaxFaults
  /\ refresh' = [refresh EXCEPT !.todo = @ \ {u},
       !.new[u] = IF fate = "failed" THEN [old EXCEPT !.exists = TRUE]
                  ELSE [found EXCEPT !.change = <<Total(old), Total(found)>>]]
  /\ excused' = IF fate = "fetched" THEN excused ELSE excused \cup {u}
  /\ env' = [env EXCEPT !.faults = IF fate = "fetched" THEN @ ELSE @ + 1]
  /\ UNCHANGED <<chain, sol, assoc, change, lazy, immediate, scanned, stored, scan, rows>>

(* Users that were fetched are taken out, others stay. *)
EndRefresh ==
  /\ refresh.pc = "fetch" /\ refresh.todo = {}
  /\ rows' = refresh.new
  /\ lazy' = lazy \ refresh.lazy
  /\ immediate' = immediate \ refresh.immediate
  /\ refresh' = Idle
  /\ UNCHANGED <<chain, sol, assoc, change, scanned, stored, scan, excused, env>>

----------------------------------------------------------------------------
Init ==
  /\ chain = <<{}>> /\ sol = {} /\ assoc = [u \in Users |-> {}] /\ change = Idle
  /\ lazy = {} /\ immediate = {} /\ scanned = None /\ stored = None
  /\ scan = Idle /\ refresh = Idle
  /\ rows = [u \in Users |-> NoRow]
  /\ excused = {}
  /\ env = [transfers |-> 0, changes |-> 0, faults |-> 0]
Next ==
  \/ NewBlock \/ Reorganise \/ SolIndexed \/ Committed
  \/ \E u \in Users : SolTransfer(u) \/ ChangeWallets(u) \/ LookAt(u) \/ Fetch(u)
  \/ StartScan \/ ScanChunk \/ EndScan \/ Restart
  \/ StartRefresh \/ EndRefresh
Spec == Init /\ [][Next]_vars

TypeOK ==
  /\ \A t \in OnChain : t.wallet \in Wallets /\ t.id < MaxTransfers
  /\ lazy \cup immediate \cup excused \subseteq Users
  /\ {scanned, stored} \subseteq -1..MaxBlock
  /\ scan.pc # "idle" => scan.end < MaxBlock /\ scan.chunk \in MinChunk..MaxChunk
  /\ refresh.pc # "idle" => refresh.todo \subseteq refresh.lazy \cup refresh.immediate
  /\ \A u \in Users : rows[u].change # <<>> => rows[u].exists /\ rows[u].change[2] = Total(rows[u])

(* The first block that is certain to be scanned again. *)
Resume == IF scan.pc = "scan" THEN Min({scan.block, StartAfter(scan.end)}) ELSE StartAfter(Restored)
Unseen == UNION {chain[i] : i \in {j \in 1..Latest : j >= Resume}}
Stale(u) == Total(rows[u]) #
  BalanceOf({Own[u]} \cup assoc[u]) \cup SolOf(u, {TRUE})
(* Whoever's stored balance is not what the chains say is waiting to be    *)
(* refreshed, or will be enqueued once the blocks that are still to be     *)
(* scanned are, whatever the scanner has to split, repeat or give up and   *)
(* however the last blocks of the chain change.  Excepted are users whose  *)
(* balance could not be fetched, whose request came while the task was at  *)
(* it (it takes them out of the set at the end, and the wallets of a block *)
(* are committed only after the request), and what a flush of redis loses. *)
StaleIsQueued == \A u \in Users :
  Stale(u) => \/ u \in immediate \cup excused \cup Concerned(Unseen)
              \/ SolOf(u, {FALSE}) # {}
=============================================================================
