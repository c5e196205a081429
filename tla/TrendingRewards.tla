-------------------------- MODULE TrendingRewards --------------------------
(***************************************************************************)
(* The weekly rewards of the first in the rankings.  Every block of the    *)
(* hour on Friday in which no result of that date is known asks for a      *)
(* calculation (index.py, trending_challenge.py); the calculation reads    *)
(* the rankings from redis and dispatches an event per rank                *)
(* (calculate_trending_challenges.py); the managers of the challenges make *)
(* a row of user_challenges and one of trending_results per rank           *)
(* (challenge.py).  Playlists are ranked by two strategies, whose events   *)
(* go to the same challenge (cache_trending_playlists.py,                  *)
(* get_trending_playlists.py).                                             *)
(*                                                                         *)
(* Scores are left out: a ranking is any order of what may be ranked.      *)
(* Blocks stand for timestamps: a new date comes after the calculations of *)
(* the one before, which take minutes, have ended.                         *)
(***************************************************************************)
EXTENDS Integers, Sequences, FiniteSets, SequencesExt

CONSTANTS
  Tracks,        \* public tracks
  Owner,         \* owner of each track and playlist
  Contents,      \* tracks of each playlist, in order
  Unranked,      \* users who follow zq users or more
  MinTracks,     \* mt of the strategies
  MinOthers,     \* tracks of others that BDNxn asks for
  Top,           \* TRENDING_LIMIT of calculate_trending_challenges
  MaxEvents,     \* max_events of process_events
  Calendar,      \* date of each block, and whether it falls into the hour
  MaxRankings, MaxHidden, MaxFails \* bounds

VARIABLES
  clock,      \* blocks indexed
  shown,      \* playlists that are neither private nor deleted
  rankings,   \* the rankings in redis
  tasks,      \* dates of the calculations that celery has been asked for
  job,        \* the calculation that holds calculate_trending_challenges_lock
  queue,      \* events in redis
  challenges, \* user_challenges
  results,    \* trending_results
  env         \* rankings made, playlists hidden, failures
vars == <<clock, shown, rankings, tasks, job, queue, challenges, results, env>>

Playlists == DOMAIN Contents
NotCached == <<"none">>
Idle == [pc |-> "idle", date |-> 0, step |-> 0, events |-> <<>>]

(* The rankings that a calculation reads, in this order. *)
Plan == <<[type |-> "tracks", version |-> "EJ57D"],
          [type |-> "underground", version |-> "EJ57D"],
          [type |-> "playlists", version |-> "EJ57D"],
          [type |-> "playlists", version |-> "BDNxn"]>>
Keys == Range(Plan)
Dates == {Calendar[k].date : k \in DOMAIN Calendar}

----------------------------------------------------------------------------
(* The rankings *)

(* get_scorable_playlist_data *)
Scorable ==
  {p \in shown : Len(Contents[p]) >= MinTracks /\ Owner[p] \notin Unranked}
OthersTracks(p) == SelectSeq(Contents[p], LAMBDA t : Owner[t] # Owner[p])
(* make_get_unpopulated_playlists: "For the BDNxn strategy, filter out     *)
(* playlists with < 3 tracks from other users".                            *)
Ranked(k) ==
  IF k.type # "playlists" THEN Tracks
  ELSE {p \in Scorable : k.version = "BDNxn" => Len(OthersTracks(p)) >= MinOthers}

(* index_trending and cache_trending_playlists replace a ranking. *)
CacheRanking ==
  /\ env.rankings < MaxRankings
  /\ \E k \in Keys : \E r \in SetToSeqs(Ranked(k)) :
       rankings' = [rankings EXCEPT ![k] = r]
  /\ env' = [env EXCEPT !.rankings = @ + 1]
  /\ UNCHANGED <<clock, shown, tasks, job, queue, challenges, results>>

(* An owner deletes a playlist or makes it private. *)
HidePlaylist ==
  /\ env.hidden < MaxHidden
  /\ \E p \in shown : shown' = shown \ {p}
  /\ env' = [env EXCEPT !.hidden = @ + 1]
  /\ UNCHANGED <<clock, rankings, tasks, job, queue, challenges, results>>

----------------------------------------------------------------------------
(* Blocks ask for calculations *)

(* should_trending_challenge_update: the latest week with results is not   *)
(* the date of the block.                                                  *)
ShouldUpdate(now) ==
  /\ now.hour
  /\ \A r \in results : r.week < now.date

(* A calculation that is under way is of the date of the blocks. *)
Settled == job = Idle /\ tasks = <<>>
IndexBlock ==
  /\ clock < Len(Calendar)
  /\ LET now == Calendar[clock + 1]
     IN /\ clock > 0 /\ now.date # Calendar[clock].date => Settled
        /\ tasks' = IF ShouldUpdate(now) THEN Append(tasks, now.date) ELSE tasks
  /\ clock' = clock + 1
  /\ UNCHANGED <<shown, rankings, job, queue, challenges, results, env>>

----------------------------------------------------------------------------
(* The calculation *)

Start ==
  /\ tasks # <<>> /\ tasks' = Tail(tasks)
  /\ job' = IF job.pc = "idle"
            THEN [Idle EXCEPT !.pc = "calculate", !.date = Head(tasks), !.step = 1]
            ELSE job \* the lock is held: this task ends
  /\ UNCHANGED <<clock, shown, rankings, queue, challenges, results, env>>

(* dispatch_trending_challenges, of the first of a ranking. *)
Dispatched(k, r, date) ==
  [i \in 1..(IF Len(r) < Top THEN Len(r) ELSE Top) |->
     [type |-> k.type, version |-> k.version, week |-> date, rank |-> i,
      id |-> r[i], user |-> Owner[r[i]]]]

(* A ranking that is not in redis is made and stored (use_redis_cache). *)
Calculate ==
  /\ job.pc = "calculate" /\ job.step <= Len(Plan)
  /\ LET k == Plan[job.step]
     IN \E r \in IF rankings[k] = NotCached THEN SetToSeqs(Ranked(k)) ELSE {rankings[k]} :
          /\ rankings' = [rankings EXCEPT ![k] = r]
          /\ job' = [job EXCEPT !.step = @ + 1,
                                !.events = @ \o Dispatched(k, r, job.date)]
  /\ UNCHANGED <<clock, shown, tasks, queue, challenges, results, env>>

(* The queue in memory is flushed at the end. *)
Flush == queue' = queue \o job.events /\ job' = Idle
Finish ==
  /\ job.pc = "calculate" /\ job.step > Len(Plan) /\ Flush
  /\ UNCHANGED <<clock, shown, rankings, tasks, challenges, results, env>>

Failing == env.fails < MaxFails /\ env' = [env EXCEPT !.fails = @ + 1]
(* A ranking cannot be served: what was dispatched before is flushed all   *)
(* the same (use_scoped_dispatch_queue).                                   *)
FailCalculation ==
  /\ job.pc = "calculate" /\ job.step <= Len(Plan) /\ Failing /\ Flush
  /\ UNCHANGED <<clock, shown, rankings, tasks, challenges, results>>
(* The process ends; the next one deletes the lock. *)
Crash ==
  /\ job.pc = "calculate" /\ Failing /\ job' = Idle
  /\ UNCHANGED <<clock, shown, rankings, tasks, queue, challenges, results>>

----------------------------------------------------------------------------
(* The challenges *)

\* Variant: a winner's challenge is the winner's own.
SpecifierOfUser(e) == <<e.week, e.rank, e.user>>
(* generate_specifier *)
Specifier(e) == <<e.week, e.rank>>

Batch == SubSeq(queue, 1, IF Len(queue) < MaxEvents + 1 THEN Len(queue) ELSE MaxEvents + 1)
Rest == SubSeq(queue, Len(Batch) + 1, Len(queue))
(* Of the events of a challenge and a specifier the last one counts.       *)
Same(e, d) == e.type = d.type /\ Specifier(e) = Specifier(d)
LastOf(type) ==
  {Batch[i] : i \in {i \in DOMAIN Batch :
     Batch[i].type = type /\ ~\E j \in DOMAIN Batch : j > i /\ Same(Batch[j], Batch[i])}}
Row(e) == [type |-> e.type, spec |-> Specifier(e), user |-> e.user]
ResultKey(r) == <<r.rank, r.type, r.version, r.week>>

(* ChallengeManager.process with TrendingChallengeUpdater: both rows, or   *)
(* neither if one of them violates a primary key.                          *)
Process(s, type) ==
  LET new == {e \in LastOf(type) : ~\E c \in s.challenges : c.type = type /\ c.spec = Specifier(e)}
  IN IF \E e \in new : \E r \in s.results : ResultKey(e) = ResultKey(r)
     THEN s
     ELSE [challenges |-> s.challenges \cup {Row(e) : e \in new},
           results |-> s.results \cup new]
ProcessAll(s) == Process(Process(Process(s, "tracks"), "underground"), "playlists")

ProcessEvents ==
  /\ queue # <<>> /\ queue' = Rest
  /\ LET s == ProcessAll([challenges |-> challenges, results |-> results])
     IN challenges' = s.challenges /\ results' = s.results
  /\ UNCHANGED <<clock, shown, rankings, tasks, job, env>>
(* The queue is trimmed before the events are handled. *)
LoseEvents ==
  /\ queue # <<>> /\ queue' = Rest /\ Failing
  /\ UNCHANGED <<clock, shown, rankings, tasks, job, challenges, results>>

----------------------------------------------------------------------------
Init ==
  /\ clock = 0 /\ shown = Playlists
  /\ rankings = [k \in Keys |-> NotCached]
  /\ tasks = <<>> /\ job = Idle /\ queue = <<>>
  /\ challenges = {} /\ results = {}
  /\ env = [rankings |-> 0, hidden |-> 0, fails |-> 0]

Next ==
  \/ CacheRanking \/ HidePlaylist \/ IndexBlock
  \/ Start \/ Calculate \/ Finish \/ FailCalculation \/ Crash
  \/ ProcessEvents \/ LoseEvents
Spec == Init /\ [][Next]_vars

----------------------------------------------------------------------------
(* Type invariant of the calculations and what they leave. *)
TypeOK ==
  /\ \A k \in Keys : rankings[k] # NotCached => Range(rankings[k]) \subseteq Tracks \cup Playlists
  /\ Range(tasks) \subseteq Dates /\ job.step \in 0..(Len(Plan) + 1)
  /\ \A r \in results : r.rank \in 1..Top /\ r.week \in Dates
  /\ \A c \in challenges : c.spec[1] \in Dates

(* A rank of a week is rewarded once, to the user whom trending_results    *)
(* names for it: calculations of the same date that read different         *)
(* rankings, and the two strategies of the playlists, do not add winners.  *)
OneWinnerPerRank ==
  /\ \A c, d \in challenges :
       c.type = d.type /\ c.spec[1] = d.spec[1] /\ c.spec[2] = d.spec[2] => c = d
  /\ \A c \in challenges : \E r \in results :
       r.type = c.type /\ <<r.week, r.rank>> = <<c.spec[1], c.spec[2]>> /\ r.user = c.user
  /\ Cardinality(results) = Cardinality(challenges)

(* If nothing fails every kind of ranking of a date has its winners, once  *)
(* its calculations and events are through, even if rankings change        *)
(* between them.                                                           *)
Asked(date) == \E k \in 1..clock : Calendar[k].hour /\ Calendar[k].date = date
Winners(type, date) == {r.rank : r \in {r \in results : r.type = type /\ r.week = date}}
EveryRankingRewarded ==
  env.fails = 0 /\ Settled /\ queue = <<>> =>
    \A date \in {d \in Dates : Asked(d)} : \A k \in Keys :
      LET W == Winners(k.type, date)
      IN /\ W = 1..Cardinality(W)
         /\ k.type # "playlists" => W # {}

=============================================================================
