------------------------------- MODULE Metrics -------------------------------
(***************************************************************************)
(* Requests served by the discovery nodes and how each node counts those   *)
(* of all (utils/redis_metrics.py, tasks/index_metrics.py,                 *)
(* queries/update_historical_metrics.py).                                  *)
(*                                                                         *)
(* A node records each request in redis, under the minute it came in.      *)
(* Every METRICS_INTERVAL minutes aggregate_metrics adds the node's own    *)
(* last minutes and, node by node, what other nodes recorded since they    *)
(* were last visited to counts per day and per month in the database;      *)
(* dictionaries in redis tell users counted already from new ones.         *)
(* synchronize_metrics replaces the counts of past days and months by the  *)
(* largest other nodes have.  update_metrics moves the hits per hour into  *)
(* the database.                                                           *)
(*                                                                         *)
(* A user is an ip address; paths and query strings are left out.  Clocks  *)
(* of the nodes agree.  Months have the same number of days.               *)
(***************************************************************************)
EXTENDS Integers, FiniteSets, Bags, SequencesExt

CONSTANTS
  Nodes, Ips,
  Apps,        \* values of the parameter app_name, "none" when there is none
  Aggregators, \* bound: nodes whose passes are explored
  Interval,    \* METRICS_INTERVAL
  Hour,        \* in minutes, and SYNCHRONIZE_METRICS_INTERVAL
  Day, Month,
  AnswerTtl,   \* minutes an answer with historical metrics is cached
  LastDays,    \* days of history reported, thirty in the code
  MinCount,    \* smallest count of an app that is reported to other nodes
  MaxTime, MaxRequests, MaxPasses, MaxFails, MaxSyncs \* bounds

VARIABLES
  clock,    \* minutes
  personal, \* personal_route_metrics and personal_app_metrics in redis
  summed,   \* summed_unique_daily_metrics and _monthly_metrics in redis
  merged,   \* daily_route_metrics, monthly_route_metrics, ... in redis
  visited,  \* visited_nodes in redis
  counts,   \* tables aggregate_daily_*_metrics and aggregate_monthly_*_metrics
  hits,     \* hashes API_METRICS:* in redis
  rows,     \* tables route_metrics and app_name_metrics
  job,      \* the pass of aggregate_metrics
  answers,  \* cached answers with historical metrics
  served,   \* requests recorded per node and kind
  taken,    \* requests of a node counted by another, or by itself
  excused,  \* what went wrong in a node's passes
  env       \* requests, passes, failures and synchronizations so far
vars == <<clock, personal, summed, merged, visited, counts, hits, rows,
          job, answers, served, taken, excused, env>>

Kinds == {"route", "app"}
Sizes == {"day", "month"}
SizeOf(size) == IF size = "day" THEN Day ELSE Month
Floor(t, d) == (t \div d) * d
Key(size, t) == Floor(t, SizeOf(size))
NoDict == [k \in {} |-> EmptyBag]
NoAnswer == [at |-> -1]
Or(f, k, default) == IF k \in DOMAIN f THEN f[k] ELSE default
Put(f, k, v) == [x \in DOMAIN f \cup {k} |-> IF x = k THEN v ELSE f[x]]
AddTo(f, k, n) == Put(f, k, Or(f, k, 0) + n)
SumOf(f, S) == MapThenSumSet(LAMBDA k : f[k], S)
BagOf(f, S) == MapThenFoldSet((+), EmptyBag, LAMBDA k : f[k], LAMBDA X : CHOOSE x \in X : TRUE, S)

----------------------------------------------------------------------------
(* Requests (record_metrics) *)

(* update_personal_metrics: the dictionary d with a request at minute t. *)
Bump(d, t, value) ==
  Restrict(Put(d, t, Or(d, t, EmptyBag) (+) SetToBag({value})),
           {m \in DOMAIN d \cup {t} : m > t - 2 * Interval})
(* update_summed_unique_metrics *)
AddUnique(d, size, t, ip) ==
  LET new == Put(d, Key(size, t), Or(d, Key(size, t), {}) \cup {ip})
  IN Restrict(new, {k \in DOMAIN new : k >= Key("day", t - SizeOf(size))})
(* record_aggregate_metrics of request q, with the dictionaries it read. *)
Recorded(q, pers, sums) ==
  [personal |-> [pers EXCEPT !.route = Bump(@, q.at, q.ip),
                             !.app = IF q.app = "none" THEN @ ELSE Bump(@, q.at, q.app)],
   summed |-> [size \in Sizes |-> AddUnique(sums[size], size, q.at, q.ip)]]

(* The hashes of the hour, incremented by the requests of a sequence. *)
Hit(n, qs) ==
  LET hour(q) == <<q.ip, Floor(q.at, Hour)>>
      add(d, q, value) == IF value = "none" THEN d
        ELSE Put(d, hour(q), Or(d, hour(q), EmptyBag) (+) SetToBag({value}))
      apps == {i \in DOMAIN qs : qs[i].app # "none"}
  IN
  /\ env.requests + Len(qs) <= MaxRequests
  /\ hits' = [hits EXCEPT
       ![n].route = FoldSeq(LAMBDA q, d : add(d, q, "route"), @, qs),
       ![n].app = FoldSeq(LAMBDA q, d : add(d, q, q.app), @, qs)]
  /\ served' = [served EXCEPT ![n].route = @ + Len(qs), ![n].app = @ + Cardinality(apps)]
  /\ env' = [env EXCEPT !.requests = @ + Len(qs)]

Request(n) == \E ip \in Ips, app \in Apps :
  LET q == [ip |-> ip, app |-> app, at |-> clock]
      new == Recorded(q, personal[n], summed[n])
  IN
  /\ Hit(n, <<q>>)
  /\ personal' = [personal EXCEPT ![n] = new.personal]
  /\ summed' = [summed EXCEPT ![n] = new.summed]
  /\ UNCHANGED <<clock, merged, visited, counts, rows, job, answers, taken, excused>>
(* Of two requests that workers serve together the second may overwrite    *)
(* what the first put into a dictionary; the hashes count both.            *)
ConcurrentRequests(n) == \E ip, ip2 \in Ips, app, app2 \in Apps, lost \in SUBSET {"personal", "summed"} :
  LET q == [ip |-> ip, app |-> app, at |-> clock]
      q2 == [ip |-> ip2, app |-> app2, at |-> clock]
      first == Recorded(q, personal[n], summed[n])
      second == Recorded(q2, IF "personal" \in lost THEN personal[n] ELSE first.personal,
                             IF "summed" \in lost THEN summed[n] ELSE first.summed)
  IN
  /\ lost # {}
  /\ Hit(n, <<q, q2>>)
  /\ personal' = [personal EXCEPT ![n] = second.personal]
  /\ summed' = [summed EXCEPT ![n] = second.summed]
  /\ UNCHANGED <<clock, merged, visited, counts, rows, job, answers, taken, excused>>

NextMinute ==
  /\ clock < MaxTime /\ clock' = clock + 1
  /\ UNCHANGED <<personal, summed, merged, visited, counts, hits, rows, job, answers,
                 served, taken, excused, env>>

----------------------------------------------------------------------------
(* aggregate_metrics *)

(* merge_metrics: the dictionaries of one kind with the bag added to the   *)
(* day and month of end; those of earlier days and months are dropped.     *)
MergedDicts(dicts, bag, end) == [size \in Sizes |->
  LET new == Put(dicts[size], Key(size, end), Or(dicts[size], Key(size, end), EmptyBag) (+) bag)
      kept == {k \in DOMAIN new : k > Key("day", clock - SizeOf(size))}
  IN IF kept = {} THEN dicts[size] ELSE Restrict(new, kept)]
NewUsers(dicts, size, bag, end) ==
  Cardinality(BagToSet(bag) \ BagToSet(Or(dicts[size], Key(size, end), EmptyBag)))
(* persist_route_metrics *)
PersistRoutes(c, dicts, bag, end) == [size \in Sizes |->
  LET k == Key(size, end) IN
  [c[size] EXCEPT !.unique = AddTo(@, k, NewUsers(dicts, size, bag, end)),
                  !.summed = AddTo(@, k, 0),
                  !.total = AddTo(@, k, BagCardinality(bag))]]
(* persist_app_metrics *)
PersistApps(c, bag, end) == [size \in Sizes |->
  [c[size] EXCEPT !.apps = Put(@, Key(size, end), Or(@, Key(size, end), EmptyBag) (+) bag)]]
(* persist_summed_unique_counts *)
PersistSummed(c, sums, end) == [size \in Sizes |->
  LET k == Key(size, end) IN
  IF k \in DOMAIN c[size].unique
  THEN [c[size] EXCEPT !.summed = Put(@, k, Max({Or(@, k, 0), sums[size]}))] ELSE c[size]]

\* Variant: entries of the minute that was fetched last are taken again.
FromStart(node, kind, start) ==
  LET d == personal[node][kind] IN BagOf(d, {m \in DOMAIN d : m >= start})
(* get_redis_metrics, and the same loop over the node's own metrics. *)
Since(node, kind, start) ==
  LET d == personal[node][kind] IN BagOf(d, {m \in DOMAIN d : m > start})
(* get_summed_unique_metrics *)
SummedAt(node, t) == [size \in Sizes |-> Cardinality(Or(summed[node][size], Key(size, t), {}))]

(* get_all_other_nodes *)
OtherNodes(n) == Nodes \ {n}
Idle == [pc |-> "idle"]
(* merge_route_metrics and merge_app_metrics of what was found at node o,  *)
(* and what becomes of the pass: it goes on, or its worker dies with the   *)
(* route dictionaries in redis but nothing committed, or when all is       *)
(* committed but the node not yet noted as visited.                        *)
MergeFrom(n, o, pass, routes, apps) == \E fate \in {"goes on", "dies cached", "dies merged"} :
  LET end == pass.now
      dicts == merged[n]
      done == fate # "dies cached"
  IN
  /\ fate # "goes on" => env.fails < MaxFails
  /\ merged' = [merged EXCEPT ![n] =
       [route |-> MergedDicts(dicts.route, routes, end),
        app |-> IF done THEN MergedDicts(dicts.app, apps, end) ELSE dicts.app]]
  /\ counts' = IF done THEN [counts EXCEPT ![n] =
                  PersistApps(PersistRoutes(@, dicts.route, routes, end), apps, end)] ELSE counts
  /\ taken' = IF done THEN [taken EXCEPT ![n][o].route = @ + BagCardinality(routes),
                                         ![n][o].app = @ + BagCardinality(apps)] ELSE taken
  /\ excused' = [excused EXCEPT ![n] = @
       \cup (IF fate = "goes on" THEN {} ELSE {"died"})
       \cup (IF o # n /\ clock # end THEN {"slow"} ELSE {})
       \cup (IF o = n /\ env.last[n] >= 0 /\ clock < env.last[n] + Interval THEN {"close"} ELSE {})
       \cup (IF Key("day", clock) # Key("day", end) THEN {"midnight"} ELSE {})]
  /\ job' = [job EXCEPT ![n] = IF fate = "goes on" THEN pass ELSE Idle]
  /\ visited' = IF fate = "goes on" /\ o \in pass.seen
                THEN [visited EXCEPT ![n] = Put(@, o, end)] ELSE visited
  /\ env' = [env EXCEPT !.fails = IF fate = "goes on" THEN @ ELSE @ + 1,
                        !.passes = IF o = n THEN @ + 1 ELSE @,
                        !.last[n] = IF o = n THEN clock ELSE @]

(* The pass notes the time and merges the node's own last minutes.         *)
StartPass(n) ==
  /\ n \in Aggregators /\ job[n].pc = "idle" /\ env.passes < MaxPasses
  /\ MergeFrom(n, n, [pc |-> "others", now |-> clock, todo |-> OtherNodes(n), seen |-> {},
                      sums |-> SummedAt(n, clock)],
               Since(n, "route", clock - Interval), Since(n, "app", clock - Interval))
  /\ UNCHANGED <<clock, personal, summed, hits, rows, answers, served>>

StartTime(n, o) == Or(visited[n], o, job[n].now - Interval)
(* Both requests of get_metrics are answered. *)
Visit(n) == job[n].pc = "others" /\ \E o \in job[n].todo :
  /\ LET start == StartTime(n, o) IN
     MergeFrom(n, o, [job[n] EXCEPT !.todo = @ \ {o}, !.seen = @ \cup {o},
                        !.sums = [size \in Sizes |-> @[size] + SummedAt(o, start)[size]]],
               Since(o, "route", start), Since(o, "app", start))
  /\ UNCHANGED <<clock, personal, summed, hits, rows, answers, served>>
(* One of them is not: nothing is merged. *)
VisitFails(n) == job[n].pc = "others" /\ \E o \in job[n].todo :
  /\ MergeFrom(n, o, [job[n] EXCEPT !.todo = @ \ {o}], EmptyBag, EmptyBag)
  /\ UNCHANGED <<clock, personal, summed, hits, rows, answers, served>>
EndPass(n) ==
  /\ job[n].pc = "others" /\ job[n].todo = {}
  /\ counts' = [counts EXCEPT ![n] = PersistSummed(@, job[n].sums, job[n].now)]
  /\ job' = [job EXCEPT ![n] = Idle]
  /\ UNCHANGED <<clock, personal, summed, merged, visited, hits, rows, answers,
                 served, taken, excused, env>>

----------------------------------------------------------------------------
(* synchronize_metrics *)

(* _get_historical_route_metrics, _get_historical_app_metrics: days and    *)
(* months past with a row in both tables, and the apps with enough         *)
(* requests.                                                               *)
PastKeys(size, table) == {k \in DOMAIN table : k < Key(size, clock) /\
  (size = "day" => k >= Key("day", clock) - LastDays * Day)}
Historical(n) == [size \in Sizes |->
  LET c == counts[n][size]
      keys == PastKeys(size, c.unique) \cap DOMAIN c.total
  IN [unique |-> Restrict(c.unique, keys),
      summed |-> [k \in keys |-> Or(c.summed, k, 0)],
      total |-> Restrict(c.total, keys),
      apps |-> [k \in {j \in PastKeys(size, c.apps) :
                         \E a \in BagToSet(c.apps[j]) : c.apps[j][a] >= MinCount} |->
                  Restrict(c.apps[k], {a \in BagToSet(c.apps[k]) : c.apps[k][a] >= MinCount})]]]

(* The answer of node o, which its cache may keep for AnswerTtl minutes. *)
Answer(o) == IF answers[o] # NoAnswer /\ clock < answers[o].at + AnswerTtl THEN answers[o]
             ELSE [at |-> clock, data |-> Historical(o)]
(* update_route_metrics_count and update_app_metrics_count *)
Largest(F) == LET keys == UNION {DOMAIN f : f \in F}
              IN [k \in keys |-> Max({f[k] : f \in {g \in F : k \in DOMAIN g}})]
Best(data, size, column) == Largest({d[size][column] : d \in data})
BestApps(data, size) ==
  LET tables == {d[size].apps : d \in data}
  IN [k \in UNION {DOMAIN t : t \in tables} |-> Largest({t[k] : t \in {u \in tables : k \in DOMAIN u}})]
(* update_historical_metrics: rows are replaced, whatever they held.  What *)
(* cannot be fetched is passed over.                                       *)
Synchronize(n) == \E reached \in SUBSET OtherNodes(n) :
  LET data == {Answer(o).data : o \in reached} IN
  /\ clock % Hour = 0 /\ env.syncs < MaxSyncs /\ reached # {}
  /\ counts' = [counts EXCEPT ![n] = [size \in Sizes |->
       [unique |-> Best(data, size, "unique") @@ @[size].unique,
        summed |-> Best(data, size, "summed") @@ @[size].summed,
        total |-> Best(data, size, "total") @@ @[size].total,
        apps |-> LET best == BestApps(data, size) IN
                 [k \in DOMAIN best |-> best[k] @@ Or(@[size].apps, k, EmptyBag)] @@ @[size].apps]]]
  /\ answers' = [o \in Nodes |-> IF o \in reached THEN Answer(o) ELSE answers[o]]
  /\ env' = [env EXCEPT !.syncs = @ + 1]
  /\ UNCHANGED <<clock, personal, summed, merged, visited, hits, rows, job, served, taken, excused>>

----------------------------------------------------------------------------
(* update_metrics *)

Swept(n, kind) == {k \in DOMAIN hits[n][kind] : k[2] < Floor(clock, Hour)}
Stored(n, kind) == [k \in Swept(n, kind) \cup DOMAIN rows[n][kind] |->
  Or(rows[n][kind], k, EmptyBag) (+) (IF k \in Swept(n, kind) THEN hits[n][kind][k] ELSE EmptyBag)]
Unswept(n, kind) == Restrict(hits[n][kind], DOMAIN hits[n][kind] \ Swept(n, kind))
(* Hourly.  sweep_metrics deletes the hashes before it commits: when its worker     *)
(* dies in between, or the commit fails, they are lost.                    *)
Sweep(n) == \E dies \in BOOLEAN :
  /\ clock % Hour = 0 /\ \E kind \in Kinds : Swept(n, kind) # {}
  /\ dies => env.fails < MaxFails
  /\ hits' = [hits EXCEPT ![n] = [kind \in Kinds |-> Unswept(n, kind)]]
  /\ rows' = IF dies THEN rows ELSE [rows EXCEPT ![n] = [kind \in Kinds |-> Stored(n, kind)]]
  /\ excused' = [excused EXCEPT ![n] = IF dies THEN @ \cup {"unswept"} ELSE @]
  /\ env' = [env EXCEPT !.fails = IF dies THEN @ + 1 ELSE @]
  /\ UNCHANGED <<clock, personal, summed, merged, visited, counts, job, answers, served, taken>>

----------------------------------------------------------------------------
Init ==
  /\ clock = 0
  /\ personal = [n \in Nodes |-> [k \in Kinds |-> NoDict]]
  /\ summed = [n \in Nodes |-> [s \in Sizes |-> NoDict]]
  /\ merged = [n \in Nodes |-> [k \in Kinds |-> [s \in Sizes |-> NoDict]]]
  /\ visited = [n \in Nodes |-> NoDict]
  /\ counts = [n \in Nodes |-> [s \in Sizes |->
                 [unique |-> NoDict, summed |-> NoDict, total |-> NoDict, apps |-> NoDict]]]
  /\ hits = [n \in Nodes |-> [k \in Kinds |-> NoDict]]
  /\ rows = [n \in Nodes |-> [k \in Kinds |-> NoDict]]
  /\ job = [n \in Nodes |-> Idle]
  /\ answers = [n \in Nodes |-> NoAnswer]
  /\ served = [n \in Nodes |-> [k \in Kinds |-> 0]]
  /\ taken = [n \in Nodes |-> [o \in Nodes |-> [k \in Kinds |-> 0]]]
  /\ excused = [n \in Nodes |-> {}]
  /\ env = [requests |-> 0, passes |-> 0, fails |-> 0, syncs |-> 0, last |-> [n \in Nodes |-> -1]]
Next ==
  \/ NextMinute
  \/ \E n \in Nodes :
       \/ Request(n) \/ ConcurrentRequests(n)
       \/ StartPass(n) \/ Visit(n) \/ VisitFails(n) \/ EndPass(n)
       \/ Synchronize(n) \/ Sweep(n)
Spec == Init /\ [][Next]_vars

TypeOK ==
  /\ clock \in 0..MaxTime
  /\ \A n \in Nodes :
       /\ \A k \in Kinds : \A t \in DOMAIN personal[n][k] : IsABag(personal[n][k][t])
       /\ \A s \in Sizes : /\ \A t \in DOMAIN summed[n][s] : summed[n][s][t] \subseteq Ips
                           /\ DOMAIN counts[n][s].summed = DOMAIN counts[n][s].unique
       /\ DOMAIN visited[n] \subseteq Nodes \ {n}
       /\ job[n].pc \in {"idle", "others"}
       /\ excused[n] \subseteq {"died", "slow", "close", "midnight", "unswept"}

(* A request is counted at most once by a node, whatever fails at other    *)
(* nodes, unless a pass of it dies, visits others after the minute it      *)
(* began in (they are noted as visited up to that minute, but answer all   *)
(* they have) or, for requests of its own, begins less than an interval    *)
(* after the last (consolidate_metrics_from_other_nodes).                  *)
EachRequestOnce == \A n, o \in Nodes, k \in Kinds :
  \/ taken[n][o][k] <= served[o][k]
  \/ "died" \in excused[n]
  \/ (IF n = o THEN "close" ELSE "slow") \in excused[n]

(* No day or month has more users than made requests, even when workers    *)
(* die and counts are synchronized, unless a pass runs past midnight       *)
(* (merge_metrics drops the day's users then, but goes on counting for     *)
(* it).                                                                    *)
EachUserOnce ==
  (\A n \in Nodes : "midnight" \notin excused[n]) =>
    \A n \in Nodes, size \in Sizes : \A k \in DOMAIN counts[n][size].unique :
      counts[n][size].unique[k] <= Cardinality(Ips)

(* Every hit is in redis or in the database, and in one of them only,      *)
(* unless a sweep fails (sweep_metrics).                                   *)
HitsKept == \A n \in Nodes, k \in Kinds :
  \/ "unswept" \in excused[n]
  \/ served[n][k] = SumOf([x \in DOMAIN hits[n][k] |-> BagCardinality(hits[n][k][x])], DOMAIN hits[n][k])
                    + SumOf([x \in DOMAIN rows[n][k] |-> BagCardinality(rows[n][k][x])], DOMAIN rows[n][k])
CountedOnce == EachRequestOnce /\ EachUserOnce /\ HitsKept
=============================================================================
