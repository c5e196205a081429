---------------------------- MODULE Notifications ----------------------------
(***************************************************************************)
(* GET /notifications of a discovery node (src/queries/notifications.py)   *)
(* and the service that polls it.  A request names the block after which   *)
(* to look; the answer tells up to which block it looked, and the next     *)
(* request starts there.  Every query of the handler restricts itself to   *)
(* the rows of the window, at the moment of the request: what later blocks *)
(* have replaced since is seen in its new version only, or not at all.     *)
(*                                                                         *)
(* One track of u1 with a remix of u2, and one playlist of u2 and one of   *)
(* u1.  Left out: albums, stems, the map of owners.                        *)
(***************************************************************************)
EXTENDS Integers, FiniteSets

CONSTANTS
  EventSets,    \* mixes of events under study
  MaxBlockDiff, \* notifications_max_block_diff
  FinalPOA,     \* final_poa_block, 0 when not set
  MaxHead       \* bound on the chain

VARIABLES
  events,     \* the mix under study
  head,       \* number of the current block
  tracks, playlists, \* versions
  marks,      \* follows, saves and reposts, all versions
  balance,    \* the row of user_balance_changes
  milestones, \* rows of milestones
  from,       \* min_block_number of the next request
  window,     \* the window of the request being served
  got         \* notifications delivered
vars == <<events, head, tracks, playlists, marks, balance, milestones, from, window, got>>
tables == <<tracks, playlists, marks, balance, milestones>>

MarkKinds == {"follow", "save", "saveList", "repost"} \* by u2, of u1, t1 and p1
NoWindow == [min |-> -1, max |-> -1]
Current(rows, id) == CHOOSE r \in rows : r.id = id /\ r.current
Known(rows, id) == \E r \in rows : r.id = id
NewVersion(rows, r) == {[x EXCEPT !.current = @ /\ x.id # r.id] : x \in rows} \cup {r}

----------------------------------------------------------------------------
(* What a block may hold *)

Track(id, unlisted, remix, created) ==
  [id |-> id, block |-> head + 1, unlisted |-> unlisted, deleted |-> FALSE,
   remix |-> remix, created |-> created, current |-> TRUE]
Playlist(id, private, added, created) ==
  [id |-> id, block |-> head + 1, private |-> private, added |-> added,
   created |-> created, current |-> TRUE]
Mark(id, deleted) ==
  [id |-> id, block |-> head + 1, deleted |-> deleted, current |-> TRUE]

(* get_owner_id: the item must have an owner, that is, exist undeleted. *)
HasOwner(k) ==
  CASE k = "follow" -> TRUE
    [] k \in {"save", "repost"} -> \E t \in tracks : t.id = "t1" /\ t.current /\ ~t.deleted
    [] k = "saveList" -> \E p \in playlists : p.id = "p1" /\ p.current

TrackEvents(e) ==
  CASE e = "upload"  -> UNION {{Track(t, u, t = "t2", TRUE) : u \in BOOLEAN} :
                                 t \in {x \in {"t1", "t2"} : ~Known(tracks, x)}}
    [] e = "edit"    -> UNION {{[Current(tracks, t) EXCEPT !.block = head + 1, !.created = FALSE,
                                  !.unlisted = u] : u \in BOOLEAN} :
                                 t \in {x \in {"t1", "t2"} : Known(tracks, x)}}
    [] e = "remove"  -> {[Current(tracks, t) EXCEPT !.block = head + 1, !.created = FALSE,
                           !.deleted = TRUE] :
                           t \in {x \in {"t1", "t2"} : Known(tracks, x) /\ ~Current(tracks, x).deleted}}
    [] OTHER -> {}
PlaylistEvents(e) ==
  CASE e = "newList" -> UNION {{Playlist(p, v, {}, TRUE) : v \in BOOLEAN} :
                                 p \in {x \in {"p1", "p2"} : ~Known(playlists, x)}}
    [] e = "publish" -> {[Current(playlists, p) EXCEPT !.block = head + 1, !.created = FALSE,
                           !.private = FALSE] : p \in {x \in {"p1", "p2"} : Known(playlists, x)}}
    [] e = "add"     -> {[Current(playlists, p) EXCEPT !.block = head + 1, !.created = FALSE,
                           !.added = @ \cup {head + 1}] :
                           p \in {x \in {"p1", "p2"} : Known(playlists, x)}}
    [] OTHER -> {}
Marking(k) == Known(marks, k) /\ ~Current(marks, k).deleted
MarkEvents(e) ==
  CASE e = "mark"   -> {Mark(k, FALSE) : k \in {x \in MarkKinds : HasOwner(x) /\ ~Marking(x)}}
    [] e = "unmark" -> {Mark(k, TRUE) : k \in {x \in MarkKinds : Marking(x)}}
    [] OTHER -> {}

(* Rows for the next block, of one event at most. *)
IndexBlock ==
  /\ head < MaxHead
  /\ head' = head + 1
  /\ \/ UNCHANGED tables
     \/ \E e \in events :
          \/ /\ \E r \in TrackEvents(e) : tracks' = NewVersion(tracks, r)
             /\ UNCHANGED <<playlists, marks, balance, milestones>>
          \/ /\ \E r \in PlaylistEvents(e) : playlists' = NewVersion(playlists, r)
             /\ UNCHANGED <<tracks, marks, balance, milestones>>
          \/ /\ \E r \in MarkEvents(e) : marks' = NewVersion(marks, r)
             /\ UNCHANGED <<tracks, playlists, balance, milestones>>
          \/ /\ e = "balance"
             /\ \E b \in 0..2 : balance' = [prev |-> balance.now, now |-> b, block |-> head + 1]
             /\ UNCHANGED <<tracks, playlists, marks, milestones>>
          \/ /\ e = "milestone" /\ milestones' = milestones \cup {head + 1}
             /\ UNCHANGED <<tracks, playlists, marks, balance>>
  /\ UNCHANGED <<events, from, window, got>>

----------------------------------------------------------------------------
(* The handler's queries over a window *)

In(w, b) == w.min < b /\ b <= w.max
Notif(type, id, block) == [type |-> type, id |-> id, block |-> block]

Marked(w) ==
  {Notif("mark", r.id, r.block) :
     r \in {x \in marks : x.current /\ ~x.deleted /\ In(w, x.block) /\ HasOwner(x.id)}}

(* A remix of a public track is announced to the owner of that track. *)
PublicParent == \E t \in tracks : t.id = "t1" /\ t.current /\ ~t.unlisted /\ ~t.deleted
Tier(w) ==
  {Notif("tier", "u1", balance.block) :
     x \in {y \in {balance} : In(w, y.block) /\ y.now > y.prev}}

CreatedTracks(w) ==
  {r \in tracks : r.created /\ ~r.unlisted /\ ~r.deleted /\ In(w, r.block)}
UpdatedTracks(w) == {r \in tracks : ~r.created /\ ~r.unlisted /\ In(w, r.block)}
(* get_prev_track_entries: of each track one entry, the latest before any  *)
(* of the updates.                                                         *)
PrevTracks(S) ==
  {p \in tracks : \E r \in S :
     /\ p.id = r.id /\ p.block < r.block
     /\ \A q \in tracks, s \in S :
          q.id = p.id /\ s.id = p.id /\ q.block < s.block => q.block <= p.block}
(* The update shown for a track is whichever the query returns first. *)
PublishedTracks(w) ==
  {Notif("create", p.id, (CHOOSE r \in UpdatedTracks(w) : r.id = p.id).block) :
     p \in {x \in PrevTracks(UpdatedTracks(w)) : x.unlisted}}
NewTracks(w) ==
  {Notif("create", r.id, r.block) : r \in CreatedTracks(w)}
    \cup PublishedTracks(w)
    \cup {Notif("remix", r.id, r.block) :
            r \in {x \in CreatedTracks(w) : x.remix /\ PublicParent}}

PrevList(r) ==
  CHOOSE p \in playlists : /\ p.id = r.id /\ p.block < r.block
                           /\ \A q \in playlists :
                                q.id = r.id /\ q.block < r.block => q.block <= p.block
NewLists(w) ==
  {Notif("create", r.id, r.block) :
     r \in {x \in playlists : ~x.private /\ In(w, x.block)
                              /\ (x.created \/ PrevList(x).private)}}

(* Playlists with tracks that were changed in the window. *)
Touched(w) == {r \in playlists : r.current /\ ~r.private /\ r.added # {} /\ In(w, r.block)}

(* The numbers of the window lose final_poa_block once for every playlist  *)
(* of the loop; the k-th finds its blocks under what is left.              *)
Shifted(w, k) == [min |-> w.min - k * FinalPOA, max |-> w.max - k * FinalPOA]
(* When the blocks of the k-th window were made; the chain in use starts   *)
(* at final_poa_block.                                                     *)
Times(w, k) == Shifted(w, IF FinalPOA = 0 THEN 0 ELSE k - 1)
Fails(w) == \E k \in 1..Cardinality(Touched(w)) : Shifted(w, k).min < 0
Orders(S) == {f \in [S -> 1..Cardinality(S)] : \A x, y \in S : f[x] = f[y] => x = y}
Added(w, order) ==
  UNION {{Notif("added", r.id, b) : b \in {x \in r.added : In(Times(w, order[r]), x)}} :
           r \in Touched(w)}

(* What is left of the window for the queries after the loop. *)
AfterLoop(w) == Shifted(w, Cardinality(Touched(w)))
UpdatedLists(w) ==
  {Notif("listUpdate", r.id, r.block) :
     r \in {x \in playlists : /\ x.current /\ x.added # {} /\ In(AfterLoop(w), x.block)
                              /\ x.id = "p1" /\ \E m \in marks :
                                   m.id = "saveList" /\ m.current /\ ~m.deleted}}
(* get_milestone_info *)
Milestones(w) == {Notif("milestone", "t1", b) : b \in {x \in milestones : In(AfterLoop(w), x)}}

----------------------------------------------------------------------------
(* A request *)

\* Variant: the window may reach beyond the current block.
NotClamped(min) == [min |-> min, max |-> min + MaxBlockDiff]
(* The end of the window: at most max_block_diff blocks, none beyond the   *)
(* current block.                                                          *)
Clamp(min) ==
  [min |-> min, max |-> IF head < min + MaxBlockDiff THEN head ELSE min + MaxBlockDiff]

Ask ==
  /\ window = NoWindow
  /\ window' = Clamp(from)
  /\ UNCHANGED <<events, head, tables, from, got>>

Answer ==
  /\ window # NoWindow /\ ~Fails(window)
  /\ \E o \in Orders(Touched(window)) :
       got' = got \cup Marked(window) \cup Tier(window) \cup NewTracks(window)
                  \cup NewLists(window) \cup Added(window, o)
                  \cup UpdatedLists(window) \cup Milestones(window)
  /\ from' = window.max
  /\ window' = NoWindow
  /\ UNCHANGED <<events, head, tables>>

(* get_block of a negative number: the request fails and is repeated. *)
AnswerFails ==
  /\ window # NoWindow /\ Fails(window)
  /\ window' = NoWindow
  /\ UNCHANGED <<events, head, tables, from, got>>

----------------------------------------------------------------------------
Init ==
  /\ events \in EventSets
  /\ head = FinalPOA
  /\ tracks = {} /\ playlists = {} /\ marks = {} /\ milestones = {}
  /\ balance = [prev |-> 0, now |-> 0, block |-> 0]
  /\ from = FinalPOA
  /\ window = NoWindow
  /\ got = {}

Next == IndexBlock \/ Ask \/ Answer \/ AnswerFails
Spec == Init /\ [][Next]_vars

----------------------------------------------------------------------------
(* Type invariant of the rows and of the window. *)
TypeOK ==
  /\ head \in 0..MaxHead /\ from \in 0..MaxHead
  /\ window = NoWindow \/ (window.min = from /\ window.max \in from..MaxHead)
  /\ \A r \in tracks \cup playlists \cup marks : r.block \in 1..head
  /\ \A n \in got : n.block \in 1..head

(* "Fetches the notifications events that occurred between the given block *)
(* numbers": what the windows delivered together holds whatever one window *)
(* over the same blocks would deliver, of marks, new tracks, new and       *)
(* published playlists and milestones.                                     *)
Due(w) ==
  Marked(w) \cup {Notif("create", r.id, r.block) : r \in CreatedTracks(w)}
    \cup NewLists(w) \cup {Notif("milestone", "t1", b) : b \in {x \in milestones : In(w, x)}}
EventsDelivered == Due([min |-> FinalPOA, max |-> from]) \subseteq got

==============================================================================
