------------------------------ MODULE Catalog ------------------------------
(* The tables of users, tracks and playlists that queries read, as they    *)
(* change block by block.  Only current rows are kept; a follow, save,     *)
(* repost or subscription is in its table while its current row is not     *)
(* deleted.  Aggregates are counted again by the triggers of               *)
(* alembic/trigger_sql whenever a row is inserted.                         *)
EXTENDS Integers, Sequences, FiniteSets, TLC

LOCAL INSTANCE Functions

CONSTANTS
  InitialUsers, InitialTracks, InitialPlaylists, \* rows at the start
  InitialFollows, InitialSaves, InitialReposts,  \* sets of keys
  NewTracks,   \* tracks that a block may create: a function to rows
  MaxBlock,    \* the last block
  MaxPlays     \* plays, at most

VARIABLES
  users, tracks, playlists,
  follows,         \* <<follower, followee>> to the block of the row
  saves, reposts,  \* <<user, type, item>> to the block of the row
  subscriptions,   \* <<subscriber, user>> to the block of the row
  aggregate_user, aggregate_track, aggregate_playlist,
  aggregate_plays, \* track to its count
  block

tables ==
  <<users, tracks, playlists, follows, saves, reposts, subscriptions,
    aggregate_user, aggregate_track, aggregate_playlist, aggregate_plays, block>>

----------------------------------------------------------------------------
(* Rows, reduced to the columns that queries tell apart.  None is 0.       *)

None == 0

UserRow ==
  [handle : BOOLEAN, is_deactivated : BOOLEAN, pictured : BOOLEAN, created_at : Int]

TrackRow ==
  [owner_id : Nat, is_unlisted : BOOLEAN, is_delete : BOOLEAN, is_available : BOOLEAN,
   is_premium : BOOLEAN, stem_of : Nat, remix_of : Nat, genre : STRING, created_at : Int]

PlaylistRow ==
  [playlist_owner_id : Nat, is_private : BOOLEAN, is_delete : BOOLEAN, is_album : BOOLEAN,
   contents : Seq(Nat), created_at : Int]

AggregateUser ==
  [track_count : Nat, playlist_count : Nat, album_count : Nat, follower_count : Nat,
   following_count : Nat, repost_count : Nat, track_save_count : Nat]

AggregateItem == [repost_count : Nat, save_count : Nat]

Without(f, keys) == [k \in DOMAIN f \ keys |-> f[k]]

IsTrack(type) == type = "track"

----------------------------------------------------------------------------
(* Triggers, on the tables as they are after the insert.                   *)

\* Variant: unlisted tracks are counted as well.
CountAllTracks(agg, t, u) ==
  [agg EXCEPT ![u].track_count =
     Cardinality({x \in DOMAIN t : t[x].owner_id = u /\ ~t[x].is_delete
                                   /\ t[x].is_available /\ t[x].stem_of = None})]

HandleTrack(agg, t, u) ==
  [agg EXCEPT ![u].track_count =
     Cardinality({x \in DOMAIN t : t[x].owner_id = u /\ ~t[x].is_delete /\ ~t[x].is_unlisted
                                   /\ t[x].is_available /\ t[x].stem_of = None})]

HandlePlaylist(agg, p, u, album) ==
  LET count == Cardinality({x \in DOMAIN p : p[x].playlist_owner_id = u /\ ~p[x].is_delete
                              /\ ~p[x].is_private /\ p[x].is_album = album})
  IN IF album THEN [agg EXCEPT ![u].album_count = count]
     ELSE [agg EXCEPT ![u].playlist_count = count]

\* Variant: the follower is left out.
HandleFollowee(agg, f, u, v) ==
  [agg EXCEPT ![v].follower_count = Cardinality({k \in DOMAIN f : k[2] = v})]

HandleFollow(agg, f, u, v) ==
  [agg EXCEPT ![u].following_count = Cardinality({k \in DOMAIN f : k[1] = u}),
              ![v].follower_count = Cardinality({k \in DOMAIN f : k[2] = v})]

Holders(s, type, i) == {k[1] : k \in {k \in DOMAIN s : k[2] = type /\ k[3] = i}}

HandleRepostUser(agg, r, u) ==
  [agg EXCEPT ![u].repost_count = Cardinality({k \in DOMAIN r : k[1] = u})]

HandleRepostItem(agg, r, type, i) ==
  [agg EXCEPT ![i].repost_count = Cardinality(Holders(r, type, i))]

HandleSaveUser(agg, s, u) ==
  [agg EXCEPT ![u].track_save_count =
     Cardinality({k \in DOMAIN s : k[1] = u /\ IsTrack(k[2])})]

HandleSaveItem(agg, s, type, i) ==
  [agg EXCEPT ![i].save_count = Cardinality(Holders(s, type, i))]

----------------------------------------------------------------------------
(* Blocks, of one transaction each; the checks of transactions are those   *)
(* of EntityManager.                                                       *)

NextBlock == block < MaxBlock /\ block' = block + 1

OwnerOf(type, i) ==
  IF IsTrack(type) THEN tracks[i].owner_id ELSE playlists[i].playlist_owner_id

ItemsOf(type) == IF IsTrack(type) THEN DOMAIN tracks ELSE DOMAIN playlists

Kinds == {"track", "playlist"}

Follow(u, v) ==
  /\ NextBlock /\ u # v /\ <<u, v>> \notin DOMAIN follows
  /\ <<u, v>> \notin DOMAIN subscriptions
  /\ follows' = follows @@ (<<u, v>> :> block')
  /\ subscriptions' = subscriptions @@ (<<u, v>> :> block')
  /\ aggregate_user' = HandleFollow(aggregate_user, follows', u, v)
  /\ UNCHANGED <<users, tracks, playlists, saves, reposts, aggregate_track,
                 aggregate_playlist, aggregate_plays>>

Unfollow(u, v) ==
  /\ NextBlock /\ <<u, v>> \in DOMAIN follows \cap DOMAIN subscriptions
  /\ follows' = Without(follows, {<<u, v>>})
  /\ subscriptions' = Without(subscriptions, {<<u, v>>})
  /\ aggregate_user' = HandleFollow(aggregate_user, follows', u, v)
  /\ UNCHANGED <<users, tracks, playlists, saves, reposts, aggregate_track,
                 aggregate_playlist, aggregate_plays>>

Unsubscribe(u, v) ==
  /\ NextBlock /\ <<u, v>> \in DOMAIN subscriptions
  /\ subscriptions' = Without(subscriptions, {<<u, v>>})
  /\ UNCHANGED <<users, tracks, playlists, follows, saves, reposts, aggregate_user,
                 aggregate_track, aggregate_playlist, aggregate_plays>>

\* The rows of "reposts" become "new".
SetReposts(new, u, type, i) ==
  /\ NextBlock /\ OwnerOf(type, i) # u
  /\ reposts' = new
  /\ aggregate_user' = HandleRepostUser(aggregate_user, new, u)
  /\ aggregate_track' = IF IsTrack(type) THEN HandleRepostItem(aggregate_track, new, type, i)
                        ELSE aggregate_track
  /\ aggregate_playlist' = IF IsTrack(type) THEN aggregate_playlist
                           ELSE HandleRepostItem(aggregate_playlist, new, type, i)
  /\ UNCHANGED <<users, tracks, playlists, follows, saves, subscriptions, aggregate_plays>>

Repost(u, type, i) ==
  /\ <<u, type, i>> \notin DOMAIN reposts
  /\ SetReposts(reposts @@ (<<u, type, i>> :> block + 1), u, type, i)

Unrepost(u, type, i) ==
  /\ <<u, type, i>> \in DOMAIN reposts
  /\ SetReposts(Without(reposts, {<<u, type, i>>}), u, type, i)

SetSaves(new, u, type, i) ==
  /\ NextBlock /\ OwnerOf(type, i) # u
  /\ saves' = new
  /\ aggregate_user' = HandleSaveUser(aggregate_user, new, u)
  /\ aggregate_track' = IF IsTrack(type) THEN HandleSaveItem(aggregate_track, new, type, i)
                        ELSE aggregate_track
  /\ aggregate_playlist' = IF IsTrack(type) THEN aggregate_playlist
                           ELSE HandleSaveItem(aggregate_playlist, new, type, i)
  /\ UNCHANGED <<users, tracks, playlists, follows, reposts, subscriptions, aggregate_plays>>

Save(u, type, i) ==
  /\ <<u, type, i>> \notin DOMAIN saves
  /\ SetSaves(saves @@ (<<u, type, i>> :> block + 1), u, type, i)

Unsave(u, type, i) ==
  /\ <<u, type, i>> \in DOMAIN saves
  /\ SetSaves(Without(saves, {<<u, type, i>>}), u, type, i)

\* The row of track t becomes "row".
SetTrack(t, row) ==
  /\ NextBlock
  /\ tracks' = (t :> row) @@ tracks
  /\ aggregate_track' = aggregate_track @@ (t :> [repost_count |-> 0, save_count |-> 0])
  /\ aggregate_user' = HandleTrack(aggregate_user, tracks', row.owner_id)
  /\ UNCHANGED <<users, playlists, follows, saves, reposts, subscriptions,
                 aggregate_playlist, aggregate_plays>>

CreateTrack(t) ==
  /\ t \in DOMAIN NewTracks \ DOMAIN tracks
  /\ SetTrack(t, [NewTracks[t] EXCEPT !.created_at = block + 1])

UpdateTrack(t) == SetTrack(t, [tracks[t] EXCEPT !.is_unlisted = ~@])

\* Variant: the track stays in its table as it was.
DeleteTrackLater(t) == ~tracks[t].is_delete /\ SetTrack(t, tracks[t])

DeleteTrack(t) == ~tracks[t].is_delete /\ SetTrack(t, [tracks[t] EXCEPT !.is_delete = TRUE])

\* update_track_is_available
SetAvailable(t) == SetTrack(t, [tracks[t] EXCEPT !.is_available = ~@])

SetPlaylist(p, row) ==
  /\ NextBlock
  /\ playlists' = [playlists EXCEPT ![p] = row]
  /\ aggregate_user' = HandlePlaylist(aggregate_user, playlists', row.playlist_owner_id,
                                      row.is_album)
  /\ UNCHANGED <<users, tracks, follows, saves, reposts, subscriptions, aggregate_track,
                 aggregate_playlist, aggregate_plays>>

UpdatePlaylist(p) == SetPlaylist(p, [playlists[p] EXCEPT !.is_private = ~@])

DeletePlaylist(p) ==
  ~playlists[p].is_delete /\ SetPlaylist(p, [playlists[p] EXCEPT !.is_delete = TRUE])

DeactivateUser(u) ==
  /\ NextBlock /\ ~users[u].is_deactivated
  /\ users' = [users EXCEPT ![u].is_deactivated = TRUE]
  /\ UNCHANGED <<tracks, playlists, follows, saves, reposts, subscriptions, aggregate_user,
                 aggregate_track, aggregate_playlist, aggregate_plays>>

PlaysOf(t) == IF t \in DOMAIN aggregate_plays THEN aggregate_plays[t] ELSE 0

(* A play reaches the node by the other chain. *)
HandlePlay(t) ==
  /\ SumFunction(aggregate_plays) < MaxPlays
  /\ aggregate_plays' = (t :> PlaysOf(t) + 1) @@ aggregate_plays
  /\ UNCHANGED <<users, tracks, playlists, follows, saves, reposts, subscriptions,
                 aggregate_user, aggregate_track, aggregate_playlist, block>>

----------------------------------------------------------------------------

At0(keys) == [k \in keys |-> 0]

CatalogInit ==
  /\ users = InitialUsers /\ tracks = InitialTracks /\ playlists = InitialPlaylists
  /\ follows = At0(InitialFollows) /\ subscriptions = At0(InitialFollows)
  /\ saves = At0(InitialSaves) /\ reposts = At0(InitialReposts)
  /\ aggregate_user =
       [u \in DOMAIN users |->
         [track_count |-> Cardinality({t \in DOMAIN tracks :
              tracks[t].owner_id = u /\ ~tracks[t].is_unlisted /\ tracks[t].stem_of = None}),
          playlist_count |-> Cardinality({p \in DOMAIN playlists :
              playlists[p].playlist_owner_id = u /\ ~playlists[p].is_private
              /\ ~playlists[p].is_album}),
          album_count |-> Cardinality({p \in DOMAIN playlists :
              playlists[p].playlist_owner_id = u /\ ~playlists[p].is_private
              /\ playlists[p].is_album}),
          follower_count |-> Cardinality({k \in InitialFollows : k[2] = u}),
          following_count |-> Cardinality({k \in InitialFollows : k[1] = u}),
          repost_count |-> Cardinality({k \in InitialReposts : k[1] = u}),
          track_save_count |-> Cardinality({k \in InitialSaves : k[1] = u /\ IsTrack(k[2])})]]
  /\ aggregate_track =
       [t \in DOMAIN tracks |-> [repost_count |-> Cardinality(Holders(reposts, "track", t)),
                                 save_count |-> Cardinality(Holders(saves, "track", t))]]
  /\ aggregate_playlist =
       [p \in DOMAIN playlists |->
         [repost_count |-> Cardinality(Holders(reposts, "playlist", p)),
          save_count |-> Cardinality(Holders(saves, "playlist", p))]]
  /\ aggregate_plays = <<>> /\ block = 0

CatalogNext ==
  \/ \E u, v \in DOMAIN users : Follow(u, v) \/ Unfollow(u, v) \/ Unsubscribe(u, v)
  \/ \E u \in DOMAIN users, type \in Kinds : \E i \in ItemsOf(type) :
       Repost(u, type, i) \/ Unrepost(u, type, i) \/ Save(u, type, i) \/ Unsave(u, type, i)
  \/ \E t \in DOMAIN NewTracks : CreateTrack(t)
  \/ \E t \in DOMAIN tracks :
       UpdateTrack(t) \/ DeleteTrack(t) \/ SetAvailable(t) \/ HandlePlay(t)
  \/ \E p \in DOMAIN playlists : UpdatePlaylist(p) \/ DeletePlaylist(p)
  \/ \E u \in DOMAIN users : DeactivateUser(u)

CatalogTypeOK ==
  /\ \A u \in DOMAIN users : users[u] \in UserRow
  /\ \A t \in DOMAIN tracks : tracks[t] \in TrackRow
  /\ \A p \in DOMAIN playlists : playlists[p] \in PlaylistRow
  /\ aggregate_user \in [DOMAIN users -> AggregateUser]
  /\ aggregate_track \in [DOMAIN tracks -> AggregateItem]
  /\ aggregate_playlist \in [DOMAIN playlists -> AggregateItem]
  /\ DOMAIN aggregate_plays \subseteq DOMAIN tracks
  /\ block \in 0..MaxBlock
=============================================================================
