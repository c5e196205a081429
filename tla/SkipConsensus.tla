---------------------------- MODULE SkipConsensus ----------------------------
(***************************************************************************)
(* How discovery nodes agree to skip a block that none of them can commit. *)
(* A node that fails records the error in redis, asks every other node for *)
(* the status of the transaction (confirm_indexing_transaction_error,      *)
(* get_transaction_status) and, when all of them answer FAILED, adds the   *)
(* block without its transactions on its next pass.                        *)
(*                                                                         *)
(* Modelled: one chain without reorganisations, errors of the commit (the  *)
(* transaction hash "commit"), blocks that fail on every node, transient   *)
(* failures, unanswered requests, crashes.  BlockIndexing has the pass of  *)
(* one node in detail.                                                     *)
(***************************************************************************)
EXTENDS Integers, FiniteSets

CONSTANTS
  Nodes,
  MaxBlock,   \* bound on the chain
  BadBlocks,  \* blocks that no node can commit
  MaxSkipped, \* MAX_NETWORK_LEVEL_SKIPPED_TX
  MaxFaults, MaxCrashes \* bounds

VARIABLES
  height,  \* blocks indexed by a node
  hollow,  \* those without their transactions
  skipped, \* rows of skipped_transactions: how many for a block
  err,     \* the indexing error in redis
  pass,    \* what the indexing task of a node is doing
  failed,  \* history: blocks that a node failed to commit
  env      \* faults and crashes so far
vars == <<height, hollow, skipped, err, pass, failed, env>>

NoErr == [block |-> 0, consensus |-> FALSE]
Idle == [pc |-> "index", asked |-> {}, failures |-> 0]
Others(n) == Nodes \ {n}
Next1(n) == height[n] + 1
RowsOf(n) == {b \in 1..MaxBlock : skipped[n][b] > 0}
Rows(n) == {r \in (1..MaxBlock) \X (1..MaxSkipped) : r[2] <= skipped[n][r[1]]}
\* Above the limit no row is added.
AtLimit(n) == Cardinality(Rows(n)) >= MaxSkipped

----------------------------------------------------------------------------
(* The indexing of the next block *)

Commit(n) ==
  /\ pass[n].pc = "index" /\ Next1(n) \in 1..MaxBlock \ BadBlocks
  /\ ~err[n].consensus
  /\ height' = [height EXCEPT ![n] = @ + 1]
  /\ UNCHANGED <<hollow, skipped, err, pass, failed, env>>

\* add_network_level_skipped_transaction, with the block of the error; above
\* the limit it raises, which save_skipped_tx swallows.
SkippedRow(n) ==
  IF AtLimit(n) THEN skipped
  ELSE [skipped EXCEPT ![n][err[n].block] = @ + 1]

\* The error tells "commit", of whatever block: this one is skipped.
Skip(n) ==
  /\ pass[n].pc = "index" /\ height[n] < MaxBlock
  /\ err[n].consensus
  /\ height' = [height EXCEPT ![n] = @ + 1]
  /\ hollow' = [hollow EXCEPT ![n] = @ \cup {Next1(n)}]
  /\ skipped' = SkippedRow(n)
  /\ pass' = [pass EXCEPT ![n].pc = "clear"]
  /\ UNCHANGED <<err, failed, env>>

\* clear_indexing_error, after the commit.
Clear(n) ==
  /\ pass[n].pc = "clear"
  /\ err' = [err EXCEPT ![n] = NoErr]
  /\ pass' = [pass EXCEPT ![n] = Idle]
  /\ UNCHANGED <<height, hollow, skipped, failed, env>>

\* set_indexing_error: the error replaces an older one, and a repeated one
\* starts over without consensus.
FailCommit(n) ==
  /\ pass[n].pc = "index" /\ height[n] < MaxBlock
  /\ ~err[n].consensus
  /\ \/ Next1(n) \in BadBlocks /\ UNCHANGED env
     \/ /\ Next1(n) \notin BadBlocks /\ env.faults < MaxFaults
        /\ env' = [env EXCEPT !.faults = @ + 1]
  /\ err' = [err EXCEPT ![n] = [block |-> Next1(n), consensus |-> FALSE]]
  /\ failed' = [failed EXCEPT ![n] = @ \cup {Next1(n)}]
  /\ pass' = [pass EXCEPT ![n] = [Idle EXCEPT !.pc = "ask"]]
  /\ UNCHANGED <<height, hollow, skipped>>

----------------------------------------------------------------------------
(* Consensus *)

\* Variant: only the error in redis is looked at.
StatusFromRedis(m, b) ==
  IF err[m].block = b THEN "FAILED" ELSE IF b <= height[m] THEN "PASSED" ELSE "NOT_FOUND"
\* get_transaction_status: the error in redis first, then the rows.  Two rows
\* for the same block make the query fail.
Status(m, b) ==
  IF err[m].block = b THEN "FAILED"
  ELSE IF skipped[m][b] > 1 THEN "error"
  ELSE IF skipped[m][b] = 1 THEN "FAILED"
  ELSE IF b <= height[m] THEN "PASSED" ELSE "NOT_FOUND"

Ask(n, m) ==
  /\ pass[n].pc = "ask" /\ m \in Others(n) \ pass[n].asked
  /\ pass' = [pass EXCEPT
       ![n].asked = @ \cup {m},
       ![n].failures = @ + (IF Status(m, err[n].block) = "FAILED" THEN 1 ELSE 0)]
  /\ UNCHANGED <<height, hollow, skipped, err, failed, env>>

\* The request is not answered in time.
AskInVain(n, m) ==
  /\ pass[n].pc = "ask" /\ m \in Others(n) \ pass[n].asked
  /\ env.faults < MaxFaults
  /\ env' = [env EXCEPT !.faults = @ + 1]
  /\ pass' = [pass EXCEPT ![n].asked = @ \cup {m}]
  /\ UNCHANGED <<height, hollow, skipped, err, failed>>

\* Variant: half of the nodes are enough.
HalfFailed(n) == 2 * pass[n].failures >= Cardinality(Others(n))
AllFailed(n) == Others(n) # {} /\ pass[n].failures >= Cardinality(Others(n))
Conclude(n) ==
  /\ pass[n].pc = "ask" /\ pass[n].asked = Others(n)
  /\ err' = [err EXCEPT ![n].consensus = AllFailed(n)]
  /\ pass' = [pass EXCEPT ![n] = Idle]
  /\ UNCHANGED <<height, hollow, skipped, failed, env>>

\* Between the commit of a skipped block and clear_indexing_error, too: the
\* next pass finds the consensus, skips its own block and adds a second row.
Crash(n) ==
  /\ pass[n].pc # "index" /\ env.crashes < MaxCrashes
  /\ pass' = [pass EXCEPT ![n] = Idle]
  /\ env' = [env EXCEPT !.crashes = @ + 1]
  /\ UNCHANGED <<height, hollow, skipped, err, failed>>

----------------------------------------------------------------------------
Init ==
  /\ height = [n \in Nodes |-> 0]
  /\ hollow = [n \in Nodes |-> {}] /\ failed = [n \in Nodes |-> {}]
  /\ skipped = [n \in Nodes |-> [b \in 1..MaxBlock |-> 0]]
  /\ err = [n \in Nodes |-> NoErr]
  /\ pass = [n \in Nodes |-> Idle]
  /\ env = [faults |-> 0, crashes |-> 0]

Pass(n) == Commit(n) \/ Skip(n) \/ Clear(n) \/ FailCommit(n) \/ Conclude(n)
             \/ \E m \in Nodes : Ask(n, m)
Next == \E n \in Nodes : Pass(n) \/ Crash(n) \/ \E m \in Nodes : AskInVain(n, m)
Spec == Init /\ [][Next]_vars
\* The indexing task of a node is started again and again.
Fairness == \A n \in Nodes : WF_vars(Pass(n))
FairSpec == Spec /\ Fairness

----------------------------------------------------------------------------
(* Type invariant of the nodes' records. *)
TypeOK ==
  \A n \in Nodes :
    /\ height[n] \in 0..MaxBlock /\ hollow[n] \subseteq 1..height[n]
    /\ err[n].block \in 0..MaxBlock /\ err[n].consensus \in BOOLEAN
    /\ pass[n].failures <= Cardinality(pass[n].asked)

(* "Confirms that a transaction is causing an error indexing across the    *)
(* discovery nodes": what a node lists as skipped has failed on all.       *)
SkippedFailedOnAll ==
  \A n, m \in Nodes : \A b \in RowsOf(n) : b \in failed[m]

(* "we should skip it in favor of making progress": a block that no node   *)
(* can commit holds none of them up, unless a node that has gone past it   *)
(* no longer answers FAILED: it crashed before it cleared the error and    *)
(* lists the block twice, or it has listed as many as it may.              *)
HeldUp(n) ==
  \E m \in Others(n) : height[m] >= Next1(n) /\ (skipped[m][Next1(n)] > 1 \/ AtLimit(m))
EveryoneOrHeldUp == \A n \in Nodes : height[n] = MaxBlock \/ HeldUp(n)
EveryoneGoesOn == <>[]EveryoneOrHeldUp

=============================================================================
