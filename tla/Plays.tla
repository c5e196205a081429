------------------------------- MODULE Plays -------------------------------
(***************************************************************************)
(* What becomes of the rows of the table plays: hourly and monthly counts, *)
(* listening histories, the archive and the answers about them             *)
(* (tasks/index_hourly_play_counts.py,                                     *)
(* tasks/index_aggregate_monthly_plays.py,                                 *)
(* tasks/user_listening_history/index_user_listening_history.py,           *)
(* tasks/prune_plays.py and the queries over their tables).                *)
(*                                                                         *)
(* Plays have consecutive ids.  Each task keeps the id it has got to as a  *)
(* checkpoint, counts the plays after it and moves the checkpoint on, in   *)
(* one transaction.  A trigger counts all plays of a track.  Old plays are *)
(* moved to an archive meanwhile.                                          *)
(*                                                                         *)
(* A count in a table is modelled as the bag of ids of the plays it        *)
(* stands for.                                                             *)
(***************************************************************************)
EXTENDS Integers, Sequences, FiniteSets, Bags, SequencesExt

CONSTANTS
  Users, Tracks,
  Hour, Month,  \* in the unit of time
  MaxNewPlays,  \* plays the monthly counts take at once, 1000000
  BatchSize,    \* plays the histories take at once, BATCH_SIZE
  HistoryLimit, \* tracks in a history, 1000
  Cutoff,       \* DEFAULT_CUTOFF_TIMESTAMP
  MaxPrune,     \* DEFAULT_MAX_BATCH
  Running,      \* bound: the tasks explored
  MaxTime, MaxPlays, MaxFaults \* bounds

VARIABLES
  clock,
  plays,      \* table plays, of [id, user, track, at]
  archive,    \* table plays_archive
  unborn,     \* plays with an id whose transaction is not committed
  listens,    \* table aggregate_plays
  hourly,     \* table hourly_play_counts
  monthly,    \* table aggregate_monthly_plays
  history,    \* table user_listening_history, of sequences of [track, at]
  checkpoint, \* table indexing_checkpoints
  pass,       \* passes of the tasks that count, at most two of each
  excused,    \* ids of plays that were archived early, or counted by a pass whose lock had expired
  env         \* the last id, and faults so far
vars == <<clock, plays, archive, unborn, listens, hourly, monthly, history,
          checkpoint, pass, excused, env>>

Tasks == {"hourly_play_counts", "aggregate_monthly_plays", "user_listening_history"}
Counting == Tasks \ {"user_listening_history"}
Floor(t, size) == (t \div size) * size
Ids(P) == {p.id : p \in P}
Or(f, k, default) == IF k \in DOMAIN f THEN f[k] ELSE default
(* ON CONFLICT DO UPDATE SET count = count + EXCLUDED.count *)
Upsert(f, g) == [k \in DOMAIN f \cup DOMAIN g |-> Or(f, k, EmptyBag) (+) Or(g, k, EmptyBag)]
GroupBy(P, key) == [k \in {key[p] : p \in P} |-> SetToBag(Ids({p \in P : key[p] = k}))]
MaxId(P) == IF P = {} THEN 0 ELSE Max(Ids(P))

----------------------------------------------------------------------------
(* index_solana_plays stores a chunk of plays, whose times need not be in  *)
(* the order of their ids.  Plays may have no user.                        *)

NewPlay(user, track, at) == [id |-> env.last + 1, user |-> user, track |-> track, at |-> at]
(* The trigger of the table (handle_play) *)
CountListen(p) == listens' = [listens EXCEPT ![p.track] = @ + 1]
StorePlay == \E user \in Users \cup {"none"}, track \in Tracks, at \in 0..clock :
  LET p == NewPlay(user, track, at) IN
  /\ env.last < MaxPlays
  /\ plays' = plays \cup {p} /\ CountListen(p)
  /\ env' = [env EXCEPT !.last = @ + 1]
  /\ UNCHANGED <<clock, archive, unborn, hourly, monthly, history, checkpoint, pass, excused>>
(* When its lock expires a second pass may store plays before the first    *)
(* has committed plays with smaller ids.                                   *)
StoreLate == \E user \in Users \cup {"none"}, track \in Tracks :
  /\ env.last < MaxPlays /\ env.faults < MaxFaults
  /\ unborn' = unborn \cup {NewPlay(user, track, clock)}
  /\ env' = [env EXCEPT !.last = @ + 1, !.faults = @ + 1]
  /\ UNCHANGED <<clock, plays, archive, listens, hourly, monthly, history, checkpoint, pass, excused>>
CommitLate == \E p \in unborn :
  /\ plays' = plays \cup {p} /\ CountListen(p) /\ unborn' = unborn \ {p}
  /\ excused' = excused \cup {p.id}
  /\ UNCHANGED <<clock, archive, hourly, monthly, history, checkpoint, pass, env>>
Tick ==
  /\ clock < MaxTime /\ clock' = clock + 1
  /\ UNCHANGED <<plays, archive, unborn, listens, hourly, monthly, history, checkpoint, pass, excused, env>>

(* prune_plays: the oldest plays up to the cutoff, whether they are        *)
(* counted or not.                                                         *)
Prune == \E P \in SUBSET {p \in plays : p.at <= Cutoff} :
  /\ P # {}
  /\ Cardinality(P) = Min({MaxPrune, Cardinality({p \in plays : p.at <= Cutoff})})
  /\ \A p \in P, q \in plays \ P : p.at <= q.at
  /\ archive' = archive \cup P /\ plays' = plays \ P
  /\ excused' = excused \cup {i \in Ids(P) : \E t \in Running : i > checkpoint[t]}
  /\ UNCHANGED <<clock, unborn, listens, hourly, monthly, history, checkpoint, pass, env>>

----------------------------------------------------------------------------
(* _index_hourly_play_counts and _index_aggregate_monthly_plays *)

\* Variant: the play at the checkpoint is counted again.
IsLastOrNew(p, task) == p.id >= checkpoint[task]
IsNew(p, task) == p.id > checkpoint[task]
NewCheckpoint(task) ==
  IF task = "hourly_play_counts" THEN MaxId(plays)
  ELSE Min({MaxId(plays) - checkpoint[task], MaxNewPlays}) + checkpoint[task]
Found(task) ==
  LET P == {p \in plays : IsNew(p, task) /\ p.id <= NewCheckpoint(task)} IN
  IF task = "hourly_play_counts" THEN GroupBy(P, [p \in P |-> Floor(p.at, Hour)])
  ELSE GroupBy(P, [p \in P |-> <<p.track, Floor(p.at, Month)>>])
(* The reading half of a pass.  A second one begins only when the lock of  *)
(* the first has expired.                                                  *)
StartCounting(task) ==
  /\ plays # {} /\ NewCheckpoint(task) # checkpoint[task]
  /\ pass[task] # <<>> => Len(pass[task]) = 1 /\ env.faults < MaxFaults
  /\ pass' = [pass EXCEPT ![task] = Append(@,
       [to |-> NewCheckpoint(task), found |-> Found(task)])]
  /\ env' = [env EXCEPT !.faults = IF pass[task] = <<>> THEN @ ELSE @ + 1]
  /\ excused' = IF pass[task] = <<>> THEN excused ELSE excused \cup 1..env.last
  /\ UNCHANGED <<clock, plays, archive, unborn, listens, hourly, monthly, history, checkpoint>>
(* The writing half; it may fail, and then all of it is undone. *)
EndCounting(task) == \E i \in DOMAIN pass[task], fails \in BOOLEAN :
  LET p == pass[task][i] IN
  /\ fails => env.faults < MaxFaults
  /\ hourly' = IF fails \/ task # "hourly_play_counts" THEN hourly ELSE Upsert(hourly, p.found)
  /\ monthly' = IF fails \/ task # "aggregate_monthly_plays" THEN monthly ELSE Upsert(monthly, p.found)
  /\ checkpoint' = IF fails THEN checkpoint ELSE [checkpoint EXCEPT ![task] = p.to]
  /\ pass' = [pass EXCEPT ![task] = RemoveAt(@, i)]
  /\ env' = [env EXCEPT !.faults = IF fails THEN @ + 1 ELSE @]
  /\ UNCHANGED <<clock, plays, archive, unborn, listens, history, excused>>

----------------------------------------------------------------------------
(* _index_user_listening_history *)

Latest(dict, S) == SetToSortSeq({[track |-> t, at |-> dict[t]] : t \in S}, LAMBDA a, b : a.at > b.at)
(* sort_listening_history *)
Sorted(dict) ==
  LET all == Latest(dict, DOMAIN dict) IN SubSeq(all, 1, Min({HistoryLimit, Len(all)}))
(* A history with the new plays put over what it has of their tracks. *)
Merged(old, new) ==
  LET dict(s) == [t \in {e.track : e \in ToSet(s)} |-> (CHOOSE e \in ToSet(s) : e.track = t).at]
      last(t) == CHOOSE p \in new : p.track = t /\ \A q \in new : q.track = t => q.id <= p.id
  IN Sorted([t \in {p.track : p \in new} \cup DOMAIN dict(old) |->
               IF \E p \in new : p.track = t THEN last(t).at ELSE dict(old)[t]])
NewPlays ==
  LET P == {p \in plays : p.id > checkpoint["user_listening_history"] /\ p.user # "none"}
  IN {p \in P : Cardinality({q \in P : q.id < p.id}) < BatchSize}
UpdateHistories ==
  /\ "user_listening_history" \in Running /\ NewPlays # {}
  /\ history' = [u \in Users |->
       LET new == {p \in NewPlays : p.user = u}
       IN IF new = {} THEN history[u] ELSE Merged(history[u], new)]
  /\ checkpoint' = [checkpoint EXCEPT !["user_listening_history"] = MaxId(NewPlays)]
  /\ UNCHANGED <<clock, plays, archive, unborn, listens, hourly, monthly, pass, excused, env>>

----------------------------------------------------------------------------
(* Answers *)

(* PlaysMetrics: counts per bucket after a time. *)
PlaysMetrics(size, start) ==
  LET hours == {h \in DOMAIN hourly : h > start} IN
  [b \in {Floor(h, size) : h \in hours} |->
     MapThenSumSet(LAMBDA h : BagCardinality(hourly[h]), {h \in hours : Floor(h, size) = b})]
(* UserTrackListenCountsMonthly of the tracks T of a user. *)
ListenCountsMonthly(T, start, end) ==
  LET keys == {k \in DOMAIN monthly : k[1] \in T /\ start <= k[2] /\ k[2] < end} IN
  [m \in {k[2] : k \in keys} |->
     MapThenSumSet(LAMBDA k : BagCardinality(monthly[k]), {k \in keys : k[2] = m})]
(* get_total_aggregate_plays *)
TotalPlays == MapThenSumSet(LAMBDA t : listens[t], Tracks)

----------------------------------------------------------------------------
Init ==
  /\ clock = 0 /\ plays = {} /\ archive = {} /\ unborn = {}
  /\ listens = [t \in Tracks |-> 0]
  /\ hourly = [h \in {} |-> EmptyBag] /\ monthly = [k \in {} |-> EmptyBag]
  /\ history = [u \in Users |-> <<>>]
  /\ checkpoint = [t \in Tasks |-> 0] /\ pass = [t \in Counting |-> <<>>]
  /\ excused = {}
  /\ env = [last |-> 0, faults |-> 0]
Next ==
  \/ StorePlay \/ StoreLate \/ CommitLate \/ Tick \/ Prune \/ UpdateHistories
  \/ \E task \in Counting \cap Running : StartCounting(task) \/ EndCounting(task)
Spec == Init /\ [][Next]_vars

TypeOK ==
  /\ Ids(plays) \cap Ids(archive \cup unborn) = {} /\ Ids(plays \cup archive \cup unborn) = 1..env.last
  /\ \A t \in Tasks : checkpoint[t] \in 0..MaxPlays
  /\ \A h \in DOMAIN hourly : IsABag(hourly[h]) /\ h % Hour = 0
  /\ \A k \in DOMAIN monthly : IsABag(monthly[k]) /\ k[2] % Month = 0
  /\ excused \subseteq 1..MaxPlays

CountedBy(task) ==
  LET all(f) == MapThenFoldSet((+), EmptyBag, LAMBDA k : f[k], LAMBDA S : CHOOSE k \in S : TRUE, DOMAIN f)
  IN IF task = "hourly_play_counts" THEN all(hourly) ELSE all(monthly)
(* Plays up to a checkpoint are in the counts exactly once, those after it *)
(* are in none, and all are in the trigger's count of their track, however *)
(* passes, new plays, failures and the archive interleave.  Excepted are   *)
(* plays archived before they were counted, and passes whose lock expired. *)
(* What is reported per bucket or per month and track adds up to the same. *)
PlaysCountedOnce ==
  LET all == plays \cup archive
      rest == {p \in all : p.id \notin excused}
  IN
  /\ \A task \in Counting \cap Running, p \in rest :
       CopiesIn(p.id, CountedBy(task)) =
         IF p \in plays /\ p.id > checkpoint[task] THEN 0 ELSE 1
  /\ \A t \in Tracks : listens[t] = Cardinality({p \in all : p.track = t})
  /\ excused = {} /\ Counting \subseteq Running =>
       \A size \in {Hour, Month} :
         MapThenSumSet(LAMBDA b : PlaysMetrics(size, -1)[b], DOMAIN PlaysMetrics(size, -1))
           = TotalPlays - Cardinality({p \in plays : p.id > checkpoint["hourly_play_counts"]})
  /\ excused = {} /\ Counting \subseteq Running => \A t \in Tracks :
       LET counts == ListenCountsMonthly({t}, 0, MaxTime + 1) IN
       MapThenSumSet(LAMBDA m : counts[m], DOMAIN counts) =
         listens[t] - Cardinality({p \in plays : p.track = t /\ p.id > checkpoint["aggregate_monthly_plays"]})

(* A history has as many tracks as fit, no track twice, each with the time *)
(* of the user's last play of it, latest first; when times are in the      *)
(* order of ids no track outside was played after one inside.              *)
HistoriesAreRecent == \A u \in Users :
  LET P == {p \in plays \cup archive : p.user = u /\ p.id \notin excused
                                       /\ p.id <= checkpoint["user_listening_history"]}
      T == {p.track : p \in P}
      last(t) == CHOOSE p \in P : p.track = t /\ \A q \in P : q.track = t => q.id <= p.id
      h == history[u]
  IN excused = {} =>
     /\ Len(h) = Min({HistoryLimit, Cardinality(T)})
     /\ \A i \in DOMAIN h : h[i] = [track |-> h[i].track, at |-> last(h[i].track).at]
     /\ \A i, j \in DOMAIN h : i < j => h[i].track # h[j].track /\ h[i].at >= h[j].at
     /\ (\A p, q \in P : p.id < q.id => p.at <= q.at) =>
          \A t \in T : \/ t \in {h[i].track : i \in DOMAIN h}
                       \/ \A i \in DOMAIN h : last(t).at <= h[i].at
=============================================================================
