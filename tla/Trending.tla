------------------------------- MODULE Trending -------------------------------
(***************************************************************************)
(* The task index_trending of a discovery node (src/tasks/index_trending)  *)
(* with the queries that serve its result.  When the time of the indexed   *)
(* chain has passed the next interval the task refreshes the scores,       *)
(* writes the ranking and the underground ranking into redis, and then     *)
(* notifies the owners of the first tracks of their rank.                  *)
(*                                                                         *)
(* Scores are left out: a refresh ranks the public tracks in any order,    *)
(* underground tracks being those that may appear in both rankings.  Time  *)
(* is the timestamp of the current block.                                  *)
(***************************************************************************)
EXTENDS Integers, Sequences, FiniteSets, SequencesExt

CONSTANTS
  Tracks,
  Interval,  \* UPDATE_TRENDING_DURATION_DIFF_SEC
  Day,       \* NOTIFICATION_INTERVAL_SEC
  Top,       \* NOTIFICATIONS_TRACK_LIMIT, and the tracks kept from underground
  MaxTime, MaxHidden, MaxFails \* bounds

VARIABLES
  time,     \* timestamp of the current block
  public,   \* tracks that are neither deleted nor unlisted
  last,     \* last_trending_timestamp in redis, -1 when not set
  job,      \* the pass of index_trending
  cached,   \* the rankings in redis: ids and the rows found for them
  notified, \* rows of notification of type trending
  env       \* tracks hidden and failures so far
vars == <<time, public, last, job, cached, notified, env>>

Idle == [pc |-> "idle", at |-> 0, ranking |-> <<>>]
Empty == [ids |-> <<>>, rows |-> {}]
Rankings(S) == SetToSeqs(S)
Floor(t) == (t \div Interval) * Interval
Elems(s) == {s[k] : k \in DOMAIN s}

NewBlock ==
  /\ time < MaxTime /\ time' = time + 1
  /\ UNCHANGED <<public, last, job, cached, notified, env>>
(* The owner unlists or deletes a track. *)
Hide ==
  /\ env.hidden < MaxHidden
  /\ \E t \in public : public' = public \ {t}
  /\ env' = [env EXCEPT !.hidden = @ + 1]
  /\ UNCHANGED <<time, last, job, cached, notified>>

----------------------------------------------------------------------------
(* The pass *)

\* Variant: the interval must be exceeded.
MoreThanAnInterval == last = -1 \/ time - last > Interval
(* get_should_update_trending *)
ShouldUpdate == last = -1 \/ time - last >= Interval

Check ==
  /\ job.pc = "idle" /\ ShouldUpdate
  /\ job' = [Idle EXCEPT !.pc = "scores", !.at = Floor(time)]
  /\ UNCHANGED <<time, public, last, cached, notified, env>>

(* The views and track_trending_scores, which commits on its own. *)
UpdateScores ==
  /\ job.pc = "scores"
  /\ \E r \in Rankings(public) : job' = [job EXCEPT !.pc = "cache", !.ranking = r]
  /\ UNCHANGED <<time, public, last, cached, notified, env>>

(* generate_unpopulated_trending_from_mat_views: the ids by score, and of  *)
(* these the rows that get_unpopulated_tracks finds.                       *)
CacheTracks ==
  /\ job.pc = "cache"
  /\ cached' = [cached EXCEPT !.tracks =
                  [ids |-> job.ranking, rows |-> Elems(job.ranking) \cap public]]
  /\ job' = [job EXCEPT !.pc = "underground"]
  /\ UNCHANGED <<time, public, last, notified, env>>

(* Underground leaves out what redis has as the first trending tracks. *)
FirstIds(s) == {s[k] : k \in 1..(IF Len(s) < Top THEN Len(s) ELSE Top)}
CacheUnderground ==
  /\ job.pc = "underground"
  /\ \E r \in Rankings(public \ FirstIds(cached.tracks.ids)) :
       cached' = [cached EXCEPT !.underground = [ids |-> r, rows |-> Elems(r)]]
  /\ job' = [job EXCEPT !.pc = "done"]
  /\ UNCHANGED <<time, public, last, notified, env>>

SetLast ==
  /\ job.pc = "done"
  /\ last' = job.at
  /\ job' = [job EXCEPT !.pc = "notify"]
  /\ UNCHANGED <<time, public, cached, notified, env>>

(* A track of the ranking whose row was not found makes the query fail. *)
Served(c) == Elems(c.ids) \subseteq c.rows

(* previous_trending: rows come newest first, and the last one stays in    *)
(* the dictionary.                                                         *)
Earlier(t) == {n \in notified : n.track = t}
Previous(t) == CHOOSE n \in Earlier(t) : \A m \in Earlier(t) : n.at <= m.at
MayNotify(t, rank) ==
  \/ Earlier(t) = {}
  \/ job.at - Previous(t).at >= Day /\ rank < Previous(t).rank

Notify ==
  /\ job.pc = "notify" /\ Served(cached.tracks)
  /\ notified' = notified \cup
       {[track |-> cached.tracks.ids[k], rank |-> k, at |-> job.at] :
          k \in {i \in DOMAIN cached.tracks.ids : i <= Top /\ MayNotify(cached.tracks.ids[i], i)}}
  /\ job' = Idle
  /\ UNCHANGED <<time, public, last, cached, env>>
NotifyFails ==
  /\ job.pc = "notify" /\ ~Served(cached.tracks)
  /\ job' = Idle
  /\ UNCHANGED <<time, public, last, cached, notified, env>>

Fail ==
  /\ job.pc # "idle" /\ env.fails < MaxFails
  /\ job' = Idle
  /\ env' = [env EXCEPT !.fails = @ + 1]
  /\ UNCHANGED <<time, public, last, cached, notified>>

----------------------------------------------------------------------------
Init ==
  /\ time = 0 /\ public = Tracks /\ last = -1
  /\ job = Idle
  /\ cached = [tracks |-> Empty, underground |-> Empty]
  /\ notified = {}
  /\ env = [hidden |-> 0, fails |-> 0]

Pass == Check \/ UpdateScores \/ CacheTracks \/ CacheUnderground \/ SetLast
          \/ Notify \/ NotifyFails
Next == NewBlock \/ Hide \/ Pass \/ Fail
Spec == Init /\ [][Next]_vars
(* celery beat starts the task every few seconds and a pass goes on. *)
FairSpec == Spec /\ WF_vars(Pass)

----------------------------------------------------------------------------
(* Type invariant of the rankings and the notifications. *)
TypeOK ==
  /\ last \in -1..MaxTime /\ public \subseteq Tracks
  /\ \A k \in DOMAIN cached : /\ cached[k].rows \subseteq Elems(cached[k].ids)
                              /\ Elems(cached[k].ids) \subseteq Tracks
  /\ \A n \in notified : n.rank \in 1..Top /\ n.at <= time

(* "If the most recently indexed block (rounded down to the nearest        *)
(* interval) is interval_seconds ahead of the last trending job run, then  *)
(* the job should re-run": whatever fails, the rankings reach the interval *)
(* of the last block.                                                      *)
UpToDate == last >= Floor(time)
TrendingCatchesUp == <>[]UpToDate

===============================================================================
