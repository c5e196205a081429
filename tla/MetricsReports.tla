--------------------------- MODULE MetricsReports ---------------------------
(***************************************************************************)
(* What a discovery node reports of the requests it counted                *)
(* (queries/get_route_metrics.py, get_app_name_metrics.py,                 *)
(* get_trailing_metrics.py, get_app_names.py, api/v1/metrics.py): from the *)
(* counts per day and month of all nodes, and from the hits per hour of    *)
(* its own, which materialized views show as update_metrics refreshed them *)
(* last.                                                                   *)
(***************************************************************************)
EXTENDS Metrics

CONSTANTS Week, Limit \* minutes in seven days, and apps in a list

Today == Key("day", clock)
ThisMonth == Key("month", clock)
(* Days of the trailing week or month, today left out; months past.        *)
DaysOf(range) ==
  LET from == IF range = "all_time" THEN 0 ELSE Today - (IF range = "week" THEN Week ELSE LastDays * Day)
  IN {k \in 0..(Today - 1) : k % Day = 0 /\ k >= from}
MonthsPast == {k \in 0..(ThisMonth - 1) : k % Month = 0}

(* Rows of a table grouped by buckets of a length. *)
Grouped(table, keys, length) ==
  LET present == keys \cap DOMAIN table
  IN [g \in {Floor(k, length) : k \in present} |->
       SumOf(table, {k \in present : Floor(k, length) = g})]
(* A group needs rows in both tables. *)
Joined(c, keys, length) ==
  LET unique == Grouped(c.unique, keys, length)
      total == Grouped(c.total, keys, length)
  IN [g \in DOMAIN unique \cap DOMAIN total |->
       [unique |-> unique[g], summed |-> Grouped(c.summed, keys, length)[g], total |-> total[g]]]
(* The sizes of buckets a range may be asked in (valid_bucket_sizes). *)
Buckets == {<<"week", "day">>, <<"month", "day">>, <<"month", "week">>,
            <<"all_time", "month">>, <<"all_time", "week">>}
AllTimeWeeks(n) == Joined(counts[n]["day"], DaysOf("all_time"), Week)
(* _get_aggregate_route_metrics *)
AggregateRoutes(n, range, bucket) ==
  IF bucket = "month" THEN Joined(counts[n]["month"], MonthsPast, Month)
  ELSE IF range = "all_time" THEN AllTimeWeeks(n)
  ELSE IF bucket = "week" THEN Joined(counts[n]["day"], DaysOf(range), Week)
  ELSE Joined(counts[n]["day"], DaysOf(range), Day)
(* _get_aggregate_route_metrics_trailing_month *)
TrailingMonth(n) ==
  LET c == counts[n]["day"]
      sum(t) == SumOf(t, DaysOf("month") \cap DOMAIN t)
  IN [unique |-> sum(c.unique), summed |-> sum(c.summed), total |-> sum(c.total)]
(* _get_aggregate_app_metrics: the months are filtered by day, so that the *)
(* running month counts among those past, except on its first day.         *)
AggregateApps(n, range) ==
  LET size == IF range = "all_time" THEN "month" ELSE "day"
      table == counts[n][size].apps
  IN BagOf(table, {k \in DOMAIN table : IF size = "month" THEN k < Today ELSE k \in DaysOf(range)})
(* Apps with more requests come first, and the list ends at the limit. *)
First(bag) ==
  {a \in BagToSet(bag) : Cardinality({b \in BagToSet(bag) : bag[b] > bag[a]}) < Limit}

(* Rows with the hits per hour: of an app or of all routes, per bucket     *)
(* (_get_route_metrics, _get_app_name_metrics), with the ips that made     *)
(* them.                                                                   *)
Hourly(n, kind, value, start) ==
  {x \in DOMAIN rows[n][kind] : x[2] > start /\ value \in BagToSet(rows[n][kind][x])}
HourlyBuckets(n, kind, value, start, size) ==
  LET found == Hourly(n, kind, value, start) IN
  [t \in {Key(size, x[2]) : x \in found} |->
     LET of == {x \in found : Key(size, x[2]) = t} IN
     [count |-> SumOf([x \in of |-> rows[n][kind][x][value]], of),
      unique |-> Cardinality({x[1] : x \in of})]]
(* The views of days and of months, from the day before the start asked    *)
(* for, so that its first day is complete.                                 *)
RouteBuckets(n, size, start) ==
  LET first == IF size = "day" THEN start - Day ELSE start
      all == HourlyBuckets(n, "route", "route", -1, size)
  IN [t \in {b \in DOMAIN all : b > first} |-> all[t]]
(* The views of a trailing week or month: requests, and those of apps. *)
Views(n, start) ==
  LET table == rows[n].app IN
  [routes |-> SumOf([x \in Hourly(n, "route", "route", start) |-> rows[n].route[x]["route"]],
                    Hourly(n, "route", "route", start)),
   apps |-> BagOf(table, {x \in DOMAIN table : x[2] > start})]
(* Requests of no app among those shown are listed as unknown if there are *)
(* more of them than of some app.                                          *)
TrailingApps(n, start) ==
  LET view == Views(n, start)
      shown == Restrict(view.apps, First(view.apps))
      unknown == view.routes - BagCardinality(shown)
  IN IF \E a \in DOMAIN shown : unknown > shown[a] THEN Put(shown, "unknown", unknown) ELSE shown
(* get_app_names, from the rows, with the ips that used each app. *)
AppNames(n, start) ==
  [a \in DOMAIN TrailingApps(n, start) \ {"unknown"} |->
    LET found == Hourly(n, "app", a, start) IN
    [count |-> SumOf([x \in found |-> rows[n].app[x][a]], found),
     unique |-> Cardinality({x[1] : x \in found})]]

----------------------------------------------------------------------------
Columns == {"unique", "summed", "total"}
Sum(report, column) == MapThenSumSet(LAMBDA g : report[g][column], DOMAIN report)

(* The reports a node derives in different ways from its tables agree,     *)
(* whatever it replaced in them when synchronizing: the trailing month is  *)
(* the sum of its days and of its weeks, other nodes get the days and      *)
(* months that clients see, and a month has as many requests as the days   *)
(* in it, in the counts as long as none were replaced and in the views.    *)
(* Days or months with a row in only one of the tables would show up in    *)
(* some of the reports only (_get_historical_route_metrics,                *)
(* _get_aggregate_route_metrics).                                          *)
ReportsAgree == \A n \in Nodes :
  LET days == AggregateRoutes(n, "month", "day")
      months == AggregateRoutes(n, "all_time", "month")
      history == Historical(n)
  IN
  /\ \A b \in Buckets, c \in Columns :
       b[1] = "month" => Sum(AggregateRoutes(n, b[1], b[2]), c) = TrailingMonth(n)[c]
  /\ \A c \in Columns : history["day"][c] = [k \in DOMAIN days |-> days[k][c]]
  /\ \A c \in Columns : history["month"][c] = [k \in DOMAIN months |-> months[k][c]]
  /\ \A k \in DOMAIN AllTimeWeeks(n) : k >= Today - LastDays * Day =>
       AggregateRoutes(n, "month", "week")[k] = AllTimeWeeks(n)[k]
  /\ \A k \in DOMAIN RouteBuckets(n, "month", -1) :
       RouteBuckets(n, "month", -1)[k].count =
         Sum(Restrict(RouteBuckets(n, "day", k), {d \in DOMAIN RouteBuckets(n, "day", k) : Key("month", d) = k}), "count")
  /\ \A a \in DOMAIN AppNames(n, -1) : AppNames(n, -1)[a].count = TrailingApps(n, -1)[a]
  /\ env.syncs = 0 => \A k \in DOMAIN months :
       months[k].total = SumOf(counts[n]["day"].total,
                               {d \in DOMAIN counts[n]["day"].total : Key("month", d) = k})

(* The apps listed never have more requests than were served.              *)
AppsWithinRoutes == \A n \in Nodes :
  "unswept" \in excused[n] \/
    BagCardinality(TrailingApps(n, -1)) <= served[n].route
=============================================================================
