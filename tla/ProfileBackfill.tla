-------------------------- MODULE ProfileBackfill --------------------------
(***************************************************************************)
(* Events of old reposts, saves and follows, for the challenge to complete *)
(* one's profile (index_profile_challenge_backfill.py).  A task walks down *)
(* from the current block, an interval of blocks at a time, and dispatches *)
(* the events of its rows, while blocks are indexed and reverted and       *)
(* dispatch events of their own.                                           *)
(*                                                                         *)
(* A row stands for all three kinds.  The lock of the task outlasts it.    *)
(***************************************************************************)
EXTENDS Integers, FiniteSets

CONSTANTS
  OldRows,       \* blocks of the rows of the time before the challenge
  Height,        \* current block at the start
  BlockInterval, \* BLOCK_INTERVAL
  Backfill,      \* audius_discprov_backfill_social_rewards_blocknumber
  MaxBlocks, MaxReverts, MaxFaults \* bounds

VARIABLES
  current,    \* number of the current block
  rows,       \* rows of reposts, saves and follows: [id, block]
  checkpoint, \* of the table indexing_checkpoints, 0 if there is none
  task,       \* the pass: its block and its queue in memory
  dispatched, \* rows whose event is, or was, in the queue in redis
  lost,       \* history: rows whose event was lost in a crash
  env         \* blocks, reverts and faults so far
vars == <<current, rows, checkpoint, task, dispatched, lost, env>>

Idle == [pc |-> "idle", block |-> 0, queue |-> {}]

----------------------------------------------------------------------------
(* A block commits, with a row or none; its events are flushed, or lost if *)
(* the worker dies.                                                        *)
IndexBlock == \E new \in {{}, {[id |-> env.blocks + 1, block |-> current + 1]}}, crash \in BOOLEAN :
  /\ env.blocks < MaxBlocks
  /\ crash => env.faults < MaxFaults
  /\ current' = current + 1 /\ rows' = rows \cup new
  /\ dispatched' = IF crash THEN dispatched ELSE dispatched \cup new
  /\ lost' = IF crash THEN lost \cup new ELSE lost
  /\ env' = [env EXCEPT !.blocks = @ + 1, !.faults = IF crash THEN @ + 1 ELSE @]
  /\ UNCHANGED <<checkpoint, task>>

(* A reorganisation: the last block goes, with its rows. *)
RevertBlock ==
  /\ current > 0 /\ env.reverts < MaxReverts
  /\ current' = current - 1 /\ rows' = {r \in rows : r.block # current}
  /\ env' = [env EXCEPT !.reverts = @ + 1]
  /\ UNCHANGED <<checkpoint, task, dispatched, lost>>

----------------------------------------------------------------------------
(* get_latest_backfill: no checkpoint is the same as one at block 0.       *)
GetLatestBackfill == IF checkpoint = 0 THEN current ELSE checkpoint
Complete == checkpoint # 0 /\ checkpoint <= Backfill
MinBlock(block) == block - BlockInterval

(* enqueue_social_rewards_check: the rows of the interval.                 *)
\* Variant: an interval without its upper end.
InOpenInterval(r, block) == MinBlock(block) < r.block /\ r.block < block
InInterval(r, block) == MinBlock(block) < r.block /\ r.block <= block
Dispatch ==
  /\ task.pc = "idle" /\ ~Complete
  /\ LET block == GetLatestBackfill
     IN task' = [pc |-> "dispatched", block |-> block, queue |-> {r \in rows : InInterval(r, block)}]
  /\ UNCHANGED <<current, rows, checkpoint, dispatched, lost, env>>

(* The session commits.  If it fails the events are flushed all the same.  *)
CommitCheckpoint(fails) ==
  /\ task.pc = "dispatched" /\ (fails => env.faults < MaxFaults)
  /\ checkpoint' = IF fails THEN checkpoint ELSE MinBlock(task.block)
  /\ task' = [task EXCEPT !.pc = "flush"]
  /\ env' = [env EXCEPT !.faults = IF fails THEN @ + 1 ELSE @]
  /\ UNCHANGED <<current, rows, dispatched, lost>>
Flush ==
  /\ task.pc = "flush"
  /\ dispatched' = dispatched \cup task.queue /\ task' = Idle
  /\ UNCHANGED <<current, rows, checkpoint, lost, env>>
(* Between the two the events exist in memory only; before the first the   *)
(* pass is repeated.                                                       *)
Crash ==
  /\ task.pc # "idle" /\ env.faults < MaxFaults
  /\ lost' = IF task.pc = "flush" THEN lost \cup task.queue ELSE lost
  /\ task' = Idle
  /\ env' = [env EXCEPT !.faults = @ + 1]
  /\ UNCHANGED <<current, rows, checkpoint, dispatched>>

----------------------------------------------------------------------------
Init ==
  /\ current = Height /\ rows = {[id |-> -b, block |-> b] : b \in OldRows}
  /\ checkpoint = 0 /\ task = Idle /\ dispatched = {} /\ lost = {}
  /\ env = [blocks |-> 0, reverts |-> 0, faults |-> 0]
Next ==
  \/ IndexBlock \/ RevertBlock
  \/ Dispatch \/ Flush \/ Crash \/ \E fails \in BOOLEAN : CommitCheckpoint(fails)
Spec == Init /\ [][Next]_vars

(* Type invariant of the backfill. *)
TypeOK ==
  /\ \A r \in rows : r.block \in 1..current
  /\ task.queue \cup dispatched \cup lost \subseteq [id : Int, block : Nat]
  /\ checkpoint <= Height + MaxBlocks

(* Above the checkpoint nothing is passed over: the event of every row has *)
(* been dispatched or will be by the pass that is under way, though blocks *)
(* come and go between the passes, unless a crash lost it                  *)
(* (enqueue_social_rewards_check).                                         *)
NothingPassedOver ==
  checkpoint # 0 =>
    \A r \in rows : r.block > checkpoint =>
      r \in dispatched \cup lost \/ (task.pc = "flush" /\ r \in task.queue)
=============================================================================
