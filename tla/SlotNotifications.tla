-------------------------- MODULE SlotNotifications --------------------------
(***************************************************************************)
(* GET /solana_notifications (src/queries/notifications.py) and the tasks  *)
(* whose rows it reads.  Each task tells in redis up to which slot it is   *)
(* done; get_max_slot takes the least of three of these checkpoints, and   *)
(* the service that polls does not ask again for slots below it.  The      *)
(* ranks of supporters come from index_aggregate_tips, which follows the   *)
(* tips that index_user_bank records.                                      *)
(*                                                                         *)
(* The walk of an indexing task over its program is in SolanaIndexing;     *)
(* here a pass fetches the transactions it lacks and commits them slot by  *)
(* slot.  A slot stands for its transactions of a program.  Left out: the  *)
(* listen milestones (a pass over the plays may start at a cached place    *)
(* and then tells a slot it has not reached), reactions.                   *)
(***************************************************************************)
EXTENDS Integers, FiniteSets

CONSTANTS
  MaxSlotDiff,  \* notifications_max_slot_diff
  KeysAtStart,  \* FALSE: redis is empty, as on a new node
  MaxSlot, MaxFails \* bounds

Programs == {"rewards", "bank"}
NoKey == -1

VARIABLES
  chain, \* slots of the finalised transactions of a program
  now,   \* the global slot
  rows,  \* slots committed by a program's task
  keys,  \* latest_sol_..._slot in redis, "tips" being aggregate_tips
  job,   \* the passes of the two tasks
  agg,   \* the pass of index_aggregate_tips
  tipsUpTo, \* indexing_checkpoints of aggregate_user_tips
  ranks, \* slots of supporter_rank_ups
  from, window, got, \* the polling service
  fails
vars == <<chain, now, rows, keys, job, agg, tipsUpTo, ranks, from, window, got, fails>>
poll == <<from, window, got>>

IdleJob == [pc |-> "idle", global |-> 0, found |-> {}]
IdleAgg == [pc |-> "idle", key |-> NoKey, top |-> 0]
NoWindow == [min |-> -1, max |-> -1]
LeastOf(S) == CHOOSE x \in S : \A y \in S : x <= y
MostOf(S) == CHOOSE x \in S : \A y \in S : y <= x

(* A slot is finalised, with a transaction of a program or without. *)
Finalise ==
  /\ now < MaxSlot
  /\ now' = now + 1
  /\ \/ UNCHANGED chain
     \/ \E p \in Programs : chain' = [chain EXCEPT ![p] = @ \cup {now + 1}]
  /\ UNCHANGED <<rows, keys, job, agg, tipsUpTo, ranks, poll, fails>>

----------------------------------------------------------------------------
(* index_rewards_manager, index_user_bank                                  *)

(* get_slot comes before the transactions are fetched. *)
Start(p) ==
  /\ job[p].pc = "idle"
  /\ job' = [job EXCEPT ![p] = [IdleJob EXCEPT !.pc = "fetch", !.global = now]]
  /\ UNCHANGED <<chain, now, rows, keys, agg, tipsUpTo, ranks, poll, fails>>
Fetch(p) ==
  /\ job[p].pc = "fetch"
  /\ job' = [job EXCEPT ![p].pc = "work", ![p].found = chain[p] \ rows[p]]
  /\ UNCHANGED <<chain, now, rows, keys, agg, tipsUpTo, ranks, poll, fails>>
Commit(p) ==
  /\ job[p].pc = "work" /\ ~(job[p].found \subseteq rows[p])
  /\ rows' = [rows EXCEPT ![p] = @ \cup {LeastOf(job[p].found \ @)}]
  /\ UNCHANGED <<chain, now, keys, job, agg, tipsUpTo, ranks, poll, fails>>

\* Variant: the global slot is the one at the end of the pass.
KeyAtTheEnd(p) == IF job[p].found = {} THEN now ELSE MostOf(job[p].found)
(* The slot of the newest transaction, or the global one if there is none. *)
Key(p) == IF job[p].found = {} THEN job[p].global ELSE MostOf(job[p].found)
Finish(p) ==
  /\ job[p].pc = "work" /\ job[p].found \subseteq rows[p]
  /\ keys' = [keys EXCEPT ![p] = Key(p)]
  /\ job' = [job EXCEPT ![p] = IdleJob]
  /\ UNCHANGED <<chain, now, rows, agg, tipsUpTo, ranks, poll, fails>>
FailJob(p) ==
  /\ job[p].pc # "idle" /\ fails < MaxFails
  /\ job' = [job EXCEPT ![p] = IdleJob]
  /\ fails' = fails + 1
  /\ UNCHANGED <<chain, now, rows, keys, agg, tipsUpTo, ranks, poll>>

----------------------------------------------------------------------------
(* _update_aggregate_tips: the checkpoint of user_bank first, then the     *)
(* tips; the checkpoint is passed on before the session commits the ranks. *)

ReadBankSlot ==
  /\ agg.pc = "idle"
  /\ agg' = [IdleAgg EXCEPT !.pc = "read", !.key = keys["bank"]]
  /\ UNCHANGED <<chain, now, rows, keys, job, tipsUpTo, ranks, poll, fails>>
ReadTips ==
  /\ agg.pc = "read"
  /\ agg' = [agg EXCEPT !.pc = "pass", !.top = MostOf(rows["bank"] \cup {0})]
  /\ UNCHANGED <<chain, now, rows, keys, job, tipsUpTo, ranks, poll, fails>>
PassOn ==
  /\ agg.pc = "pass"
  /\ keys' = [keys EXCEPT !["tips"] = IF agg.key = NoKey THEN @ ELSE agg.key]
  /\ agg' = IF agg.top = tipsUpTo THEN IdleAgg ELSE [agg EXCEPT !.pc = "commit"]
  /\ UNCHANGED <<chain, now, rows, job, tipsUpTo, ranks, poll, fails>>
CommitRanks ==
  /\ agg.pc = "commit"
  /\ tipsUpTo' = agg.top
  /\ ranks' = ranks \cup {agg.top}
  /\ agg' = IdleAgg
  /\ UNCHANGED <<chain, now, rows, keys, job, poll, fails>>
FailAgg ==
  /\ agg.pc # "idle" /\ fails < MaxFails
  /\ agg' = IdleAgg
  /\ fails' = fails + 1
  /\ UNCHANGED <<chain, now, rows, keys, job, tipsUpTo, ranks, poll>>

----------------------------------------------------------------------------
(* get_max_slot: of the checkpoints that are set. *)
Known == {keys[k] : k \in {"rewards", "tips"}} \ {NoKey}
MaxValidSlot == IF Known = {} THEN 0 ELSE LeastOf(Known)

Ask ==
  /\ window = NoWindow
  /\ window' = [min |-> from, max |-> LeastOf({from + MaxSlotDiff, MaxValidSlot})]
  /\ UNCHANGED <<chain, now, rows, keys, job, agg, tipsUpTo, ranks, from, got, fails>>

Within(S) == {s \in S : window.min < s /\ s <= window.max}
Answer ==
  /\ window # NoWindow
  /\ got' = got \cup {<<"ranks", s>> : s \in Within(ranks)}
                \cup UNION {{<<p, s>> : s \in Within(rows[p])} : p \in Programs}
  /\ from' = window.max
  /\ window' = NoWindow
  /\ UNCHANGED <<chain, now, rows, keys, job, agg, tipsUpTo, ranks, fails>>

----------------------------------------------------------------------------
Init ==
  /\ chain = [p \in Programs |-> {}] /\ rows = [p \in Programs |-> {}]
  /\ now = 0
  /\ keys = [k \in Programs \cup {"tips"} |-> IF KeysAtStart THEN 0 ELSE NoKey]
  /\ job = [p \in Programs |-> IdleJob]
  /\ agg = IdleAgg
  /\ tipsUpTo = 0 /\ ranks = {}
  /\ from = 0 /\ window = NoWindow /\ got = {}
  /\ fails = 0

Next ==
  \/ Finalise \/ Ask \/ Answer
  \/ \E p \in Programs : Start(p) \/ Fetch(p) \/ Commit(p) \/ Finish(p) \/ FailJob(p)
  \/ ReadBankSlot \/ ReadTips \/ PassOn \/ CommitRanks \/ FailAgg
Spec == Init /\ [][Next]_vars

----------------------------------------------------------------------------
(* Type invariant of the checkpoints and the polling service. *)
TypeOK ==
  /\ \A k \in DOMAIN keys : keys[k] \in NoKey..now
  /\ \A p \in Programs : rows[p] \subseteq chain[p] /\ chain[p] \subseteq 1..now
  /\ ranks \subseteq rows["bank"] /\ tipsUpTo \in 0..now
  /\ from \in 0..now

(* "Fetches the notifications events that occurred between the given slot  *)
(* numbers": a disbursement or a tip whose slot has been asked for has     *)
(* been delivered, however late its task came to it.                       *)
SlotEventsDelivered ==
  \A p \in Programs : \A s \in chain[p] : s <= from => <<p, s>> \in got

=============================================================================
