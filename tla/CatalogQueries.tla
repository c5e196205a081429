--------------------------- MODULE CatalogQueries ---------------------------
(* Queries over the tables of Catalog, as operators that return the        *)
(* sequence of ids a query answers with; what is bundled with an id is in  *)
(* UserMetadata, TrackMetadata and PlaylistMetadata.  "me" is the current  *)
(* user, None without one, and pg a limit with an offset.  Where a query   *)
(* leaves ties to the database they go by id.                              *)
EXTENDS Catalog

LOCAL INSTANCE FiniteSetsExt
LOCAL INSTANCE SequencesExt

CONSTANTS DedupeBlocks,    \* trackDedupeMaxMinutes, in blocks
          WindowBlocks,    \* a week, in blocks
          MinFollowers     \* MIN_FOLLOWER_REQUIREMENT

Least(a, b) == IF a < b THEN a ELSE b

Elements(s) == {s[i] : i \in DOMAIN s}

Before(a, b) ==
  \E i \in DOMAIN a : a[i] < b[i] /\ \A j \in 1..(i - 1) : a[j] = b[j]

\* The members of S in ascending order of a key that no two of them share.
Ranked(S, Key(_)) ==
  [i \in 1..Cardinality(S) |->
     CHOOSE x \in S : Cardinality({y \in S : Before(Key(y), Key(x))}) = i - 1]

AddQueryPagination(s, pg) ==
  SubSeq(s, pg.offset + 1, Least(pg.offset + pg.limit, Len(s)))

Absent == -1   \* an argument that is not in the request

MinLimit == 1
MaxLimit == 10000
DefaultLimit == 100
GetPaginationVars(limit, offset) ==
  [limit |-> IF limit = Absent THEN DefaultLimit ELSE Least(Max({limit, MinLimit}), MaxLimit),
   offset |-> IF offset = Absent THEN 0 ELSE Max({offset, 0})]

Everything == [limit |-> MaxLimit, offset |-> 0]

----------------------------------------------------------------------------
(* What is bundled with an id (query_helpers.py)                           *)

FolloweesOf(u) == {k[2] : k \in {k \in DOMAIN follows : k[1] = u}}
FollowersOf(u) == {k[1] : k \in {k \in DOMAIN follows : k[2] = u}}

GetTrackPlayCount(t) == PlaysOf(t)

\* Variant: the rows of the current user are taken for those of everyone.
AnyoneReposted(type, i, me) == me # None /\ Holders(reposts, type, i) # {}

HasReposted(type, i, me) == me # None /\ <<me, type, i>> \in DOMAIN reposts
HasSaved(type, i, me) == me # None /\ <<me, type, i>> \in DOMAIN saves

UserMetadata(u, me) ==
  [counts |-> aggregate_user[u],
   does_current_user_follow |-> me # None /\ <<me, u>> \in DOMAIN follows,
   does_follow_current_user |-> me # None /\ <<u, me>> \in DOMAIN follows,
   current_user_followee_follow_count |->
     IF me = None THEN 0
     ELSE Cardinality({k \in DOMAIN follows : k[1] \in FolloweesOf(me) /\ k[2] = u})]

\* Parents of a remix that are listed, with what their owners think of it.
GetTrackRemixMetadata(t) ==
  [p \in {p \in DOMAIN tracks : p = tracks[t].remix_of /\ ~tracks[p].is_unlisted} |->
    [user |-> tracks[p].owner_id,
     has_remix_author_saved |-> HasSaved("track", t, tracks[p].owner_id),
     has_remix_author_reposted |-> HasReposted("track", t, tracks[p].owner_id)]]

TrackMetadata(t, me) ==
  [counts |-> aggregate_track[t], play_count |-> GetTrackPlayCount(t),
   has_current_user_reposted |-> HasReposted("track", t, me),
   has_current_user_saved |-> HasSaved("track", t, me),
   followee_reposts |-> IF me = None THEN {} ELSE Holders(reposts, "track", t) \cap FolloweesOf(me),
   followee_saves |-> IF me = None THEN {} ELSE Holders(saves, "track", t) \cap FolloweesOf(me),
   remix_of |-> GetTrackRemixMetadata(t)]

PlaylistMetadata(p, me) ==
  [counts |-> aggregate_playlist[p],
   total_play_count |->
     FoldLeft(LAMBDA n, t : n + GetTrackPlayCount(t), 0, playlists[p].contents),
   has_current_user_reposted |-> HasReposted("playlist", p, me),
   has_current_user_saved |-> HasSaved("playlist", p, me),
   followee_reposts |->
     IF me = None THEN {} ELSE Holders(reposts, "playlist", p) \cap FolloweesOf(me),
   followee_saves |->
     IF me = None THEN {} ELSE Holders(saves, "playlist", p) \cap FolloweesOf(me)]

\* Counts of current rows, by item or by user.
GetRepostCounts(byUser, ids, types, maxBlock) ==
  LET rows == {k \in DOMAIN reposts : k[2] \in types /\ reposts[k] <= maxBlock}
      Of(k) == IF byUser THEN k[1] ELSE k[3]
  IN [i \in ids \cap {Of(k) : k \in rows} |-> Cardinality({k \in rows : Of(k) = i})]

\* ids are those of items in any case.
GetSaveCounts(byUser, ids, types, maxBlock) ==
  LET rows == {k \in DOMAIN saves : k[2] \in types /\ saves[k] <= maxBlock /\ k[3] \in ids}
      Of(k) == IF byUser THEN k[1] ELSE k[3]
  IN [i \in {Of(k) : k \in rows} |-> Cardinality({k \in rows : Of(k) = i})]

GetFollowerCounts(ids, maxBlock) ==
  [u \in {u \in ids : \E k \in DOMAIN follows : k[2] = u /\ follows[k] <= maxBlock} |->
     Cardinality({k \in DOMAIN follows : k[2] = u /\ follows[k] <= maxBlock})]

\* The followers of those who reposted or saved, each of them twice for both.
GetKarma(type, i, xf) ==
  MapThenSumSet(LAMBDA k : aggregate_user[k[2]].follower_count,
    {k \in ({"repost"} \X Holders(reposts, type, i)) \cup ({"save"} \X Holders(saves, type, i)) :
       xf => users[k[2]].pictured})

----------------------------------------------------------------------------
(* Users                                                                   *)

\* Variant: users are not looked up again.
AnyUsers(s) == s

GetUnpopulatedUsers(s) == SelectSeq(s, LAMBDA u : users[u].handle)

ByFollowers(S) == Ranked(S, LAMBDA u : <<-aggregate_user[u].follower_count, u>>)

\* Variant: followers and followees are swapped.
GetFolloweesAsFollowers(u, pg) ==
  GetUnpopulatedUsers(AddQueryPagination(ByFollowers(FolloweesOf(u)), pg))

GetFollowersForUser(u, pg) ==
  GetUnpopulatedUsers(AddQueryPagination(ByFollowers(FollowersOf(u)), pg))

GetFolloweesForUser(u, pg) ==
  GetUnpopulatedUsers(AddQueryPagination(ByFollowers(FolloweesOf(u)), pg))

Subscribers(u) ==
  Ranked({k[1] : k \in {k \in DOMAIN subscriptions : k[2] = u}}, LAMBDA v : <<v>>)

GetSubscribersForUser(u, pg) == GetUnpopulatedUsers(AddQueryPagination(Subscribers(u), pg))

\* Ids only, of users without a handle too.
GetSubscribersForUsers(us) == [u \in us |-> Subscribers(u)]

GetRepostersForTrack(t, pg) ==
  AddQueryPagination(ByFollowers(Holders(reposts, "track", t)), pg)

GetRepostersForPlaylist(p, pg) ==
  AddQueryPagination(ByFollowers(Holders(reposts, "playlist", p)), pg)

GetSaversForTrack(t, pg) ==
  AddQueryPagination(ByFollowers(Holders(saves, "track", t)), pg)

GetSaversForPlaylist(p, pg) ==
  AddQueryPagination(ByFollowers(Holders(saves, "playlist", p)), pg)

ById(S) == Ranked(S, LAMBDA x : <<x>>)

\* The page is cut before it is sorted.
GetFollowIntersectionUsers(followee, follower, pg) ==
  ByFollowers(Elements(AddQueryPagination(
    ById(FollowersOf(followee) \cap FolloweesOf(follower)), pg)))

GetTrackRepostIntersectionUsers(t, follower, pg) ==
  AddQueryPagination(ById(Holders(reposts, "track", t) \cap FolloweesOf(follower)), pg)

GetPlaylistRepostIntersectionUsers(p, follower, pg) ==
  AddQueryPagination(ById(Holders(reposts, "playlist", p) \cap FolloweesOf(follower)), pg)

GetTopUsers(pg) ==
  AddQueryPagination(
    ByFollowers({u \in DOMAIN users : aggregate_user[u].track_count > 0}), pg)

TracksOf(u, genre) ==
  {t \in DOMAIN tracks : tracks[t].owner_id = u /\ tracks[t].genre = genre
     /\ ~tracks[t].is_unlisted /\ ~tracks[t].is_delete /\ tracks[t].stem_of = None}

Genres == {tracks[t].genre : t \in DOMAIN tracks}

\* The genre with most tracks of the user; ties are left open here.
IsGenreOf(g, u) ==
  /\ TracksOf(u, g) # {}
  /\ \A h \in Genres : Cardinality(TracksOf(u, h)) <= Cardinality(TracksOf(u, g))

GetTopGenreUsers(genres, pg) ==
  AddQueryPagination(
    Ranked({u \in DOMAIN users : FollowersOf(u) # {}
              /\ \E g \in Genres : IsGenreOf(g, u) /\ (genres # {} => g \in genres)},
           LAMBDA u : <<-Cardinality(FollowersOf(u)), u>>), pg)

\* related is what the task for related artists wrote last, best score first.
GetRelatedArtists(u, related, limit) ==
  IF aggregate_user[u].track_count > 0 /\ aggregate_user[u].follower_count >= MinFollowers
  THEN AddQueryPagination(related, [limit |-> limit, offset |-> 0]) ELSE <<>>

\* By id from a lookup of ids, otherwise every user with a wallet.
GetUsers(ids, handles, pg) ==
  IF handles = {} THEN GetUnpopulatedUsers(ById(ids \cap DOMAIN users))
  ELSE AddQueryPagination(ById({u \in ids \cap DOMAIN users :
                                  users[u].handle /\ u \in handles}), pg)
----------------------------------------------------------------------------
(* Tracks                                                                  *)

GetUnpopulatedTracks(s, filterDeleted, filterUnlisted, excludePremium) ==
  SelectSeq(s, LAMBDA t : /\ t \in DOMAIN tracks /\ tracks[t].stem_of = None
                          /\ filterUnlisted => ~tracks[t].is_unlisted
                          /\ filterDeleted => ~tracks[t].is_delete
                          /\ excludePremium => ~tracks[t].is_premium)

\* Arguments of a query for tracks that name nothing.
NoArgs ==
  [routes |-> {}, ids |-> DOMAIN tracks, user_id |-> None, authed_user_id |-> None,
   skip_unlisted_filter |-> FALSE, skip_stem_of_filter |-> FALSE, filter_deleted |-> FALSE,
   exclude_premium |-> FALSE, filter_tracks |-> "all", sort |-> "date"]

\* Variant: any user that is authenticated sees unlisted tracks.
IsAuthed(a) == a.authed_user_id # None

IsAuthedUser(a) == a.user_id # None /\ a.user_id = a.authed_user_id

SortKey(sort, t) ==
  CASE sort = "date" -> -tracks[t].created_at
    [] sort = "plays" -> -GetTrackPlayCount(t)
    [] sort = "reposts" -> -aggregate_track[t].repost_count
    [] sort = "saves" -> -aggregate_track[t].save_count

\* Sorting by plays joins their aggregate, so that tracks never played drop out.
GetTracks(a, pg) ==
  AddQueryPagination(
    Ranked({t \in a.ids :
        /\ a.skip_stem_of_filter \/ tracks[t].stem_of = None
        /\ IF a.routes # {} THEN t \in a.routes
           ELSE a.skip_unlisted_filter \/ IsAuthedUser(a) \/ ~tracks[t].is_unlisted
        /\ a.user_id # None => tracks[t].owner_id = a.user_id
        /\ a.filter_deleted => ~tracks[t].is_delete
        /\ a.exclude_premium => ~tracks[t].is_premium
        /\ a.filter_tracks # "all" => tracks[t].is_unlisted = (a.filter_tracks = "unlisted")
        /\ a.sort = "plays" => t \in DOMAIN aggregate_plays},
      LAMBDA t : <<SortKey(a.sort, t), -t>>), pg)

\* What can be played: nothing of a deleted track or of a deactivated user.
HasSegments(t) == ~tracks[t].is_delete /\ ~users[tracks[t].owner_id].is_deactivated

Public(t) == ~tracks[t].is_delete /\ ~tracks[t].is_unlisted
PublicPlaylist(p) == ~playlists[p].is_delete /\ ~playlists[p].is_private

GetSaveTracks(u, filterDeleted, sort, pg) ==
  LET Key(t) == IF sort = "added_date" THEN -saves[<<u, "track", t>>] ELSE SortKey(sort, t)
  IN AddQueryPagination(
       Ranked({t \in DOMAIN tracks : <<u, "track", t>> \in DOMAIN saves
                 /\ (filterDeleted => ~tracks[t].is_delete)
                 /\ (sort = "plays" => t \in DOMAIN aggregate_plays)},
              LAMBDA t : <<Key(t), -t>>), pg)

\* No save of entity manager has the type album.
GetSaves(type, u, pg) ==
  LET Type == CASE type = "tracks" -> "track" [] type = "playlists" -> "playlist"
                [] type = "albums" -> "album"
  IN AddQueryPagination(
       Ranked({k[3] : k \in {k \in DOMAIN saves : k[1] = u /\ k[2] = Type
                 /\ (type = "playlists" => ~playlists[k[3]].is_album)
                 /\ (type = "albums" => playlists[k[3]].is_album)}},
              LAMBDA i : <<-saves[<<u, Type, i>>], -i>>), pg)

GetRepostFeedForUser(u, pg) ==
  AddQueryPagination(
    Ranked({<<k[2], k[3]>> : k \in {k \in DOMAIN reposts : k[1] = u
              /\ IF IsTrack(k[2]) THEN Public(k[3]) /\ tracks[k[3]].stem_of = None
                 ELSE PublicPlaylist(k[3])}},
           LAMBDA x : <<-reposts[<<u, x[1], x[2]>>], -x[2]>>), pg)

----------------------------------------------------------------------------
(* The feed (get_feed_sql)                                                 *)

\* Variant: tracks of other users are taken out as well.
TracksInPlaylists(listed) == UNION {Elements(playlists[p].contents) : p \in listed}

TracksToDedupe(listed) ==
  {t \in UNION {Elements(playlists[p].contents) : p \in listed} :
     /\ t \in DOMAIN tracks /\ tracks[t].stem_of = None
     /\ \E p \in listed : /\ t \in Elements(playlists[p].contents)
                          /\ tracks[t].owner_id = playlists[p].playlist_owner_id
                          /\ tracks[t].created_at <= playlists[p].created_at
                          /\ playlists[p].created_at - tracks[t].created_at <= DedupeBlocks}

CreatedPlaylists(S, limit) ==
  AddQueryPagination(
    Ranked({p \in DOMAIN playlists : PublicPlaylist(p) /\ playlists[p].playlist_owner_id \in S},
           LAMBDA p : <<-playlists[p].created_at, p>>), [limit |-> limit, offset |-> 0])

CreatedTracks(S, deduped, limit) ==
  AddQueryPagination(
    Ranked({t \in DOMAIN tracks : Public(t) /\ tracks[t].stem_of = None
              /\ tracks[t].owner_id \in S /\ t \notin deduped},
           LAMBDA t : <<-tracks[t].created_at, t>>), [limit |-> limit, offset |-> 0])

FirstRepost(S, x) ==
  Min({reposts[k] : k \in {k \in DOMAIN reposts : k[1] \in S /\ k[2] = x[1] /\ k[3] = x[2]}})

RepostedBy(S, created, limit) ==
  AddQueryPagination(
    Ranked({<<k[2], k[3]>> : k \in {k \in DOMAIN reposts :
              k[1] \in S /\ <<k[2], k[3]>> \notin created}},
           LAMBDA x : <<-FirstRepost(S, x), x[2]>>), [limit |-> limit, offset |-> 0])

OwnCreatedAt(x) == IF IsTrack(x[1]) THEN tracks[x[2]].created_at ELSE playlists[x[2]].created_at

GetFeed(me, filter, tracksOnly, limit) ==
  LET S == FolloweesOf(me)
      original == filter \in {"original", "all"}
      lists == IF original /\ ~tracksOnly THEN CreatedPlaylists(S, limit) ELSE <<>>
      deduped == TracksToDedupe(Elements(lists))
      songs == IF original THEN CreatedTracks(S, deduped, limit) ELSE <<>>
      created == ({"playlist"} \X Elements(lists)) \cup ({"track"} \X Elements(songs))
      entries == IF filter = "original" THEN <<>>
                 ELSE RepostedBy(S, created, limit)
      reposted == {x \in Elements(entries) \ created :
                     IF IsTrack(x[1]) THEN Public(x[2]) /\ tracks[x[2]].stem_of = None
                     ELSE ~tracksOnly /\ PublicPlaylist(x[2])}
      At(x) == IF OwnerOf(x[1], x[2]) \in S THEN OwnCreatedAt(x) ELSE FirstRepost(S, x)
      \* tracks + playlists, each the created ones and then the reposted ones
      feed == SetToSeq({x \in created : IsTrack(x[1])}) \o SetToSeq({x \in reposted : IsTrack(x[1])})
              \o SetToSeq({x \in created : ~IsTrack(x[1])})
              \o SetToSeq({x \in reposted : ~IsTrack(x[1])})
      order == Ranked(DOMAIN feed, LAMBDA i : <<-At(feed[i]), i>>)
  IN [i \in 1..Least(limit, Len(feed)) |-> feed[order[i]]]

----------------------------------------------------------------------------
(* Remixes and stems                                                       *)

CosignedBy(u, t) == HasReposted("track", t, u) \/ HasSaved("track", t, u)

Count(t) == aggregate_track[t].repost_count + aggregate_track[t].save_count

\* A query for the remixes of a stem, or of what is premium or not there, raises.
MayHaveRemixes(t) == GetUnpopulatedTracks(<<t>>, FALSE, FALSE, TRUE) # <<>>

GetRemixesOf(t, pg) ==
  AddQueryPagination(
    Ranked({r \in DOMAIN tracks : tracks[r].remix_of = t /\ Public(r)},
           LAMBDA r : <<IF CosignedBy(tracks[t].owner_id, r) THEN -Count(r) ELSE 0,
                        -Count(r), -r>>), pg)

GetRemixTrackParents(t, pg) ==
  IF t \notin DOMAIN tracks \/ tracks[t].is_premium THEN <<>>
  ELSE AddQueryPagination(
         Ranked({p \in DOMAIN tracks : p = tracks[t].remix_of /\ ~tracks[p].is_unlisted},
                LAMBDA p : <<-tracks[p].created_at, -p>>), pg)

\* The decay of a score is taken to order tracks of the same count only.
GetRemixableTracks(limit) ==
  AddQueryPagination(
    Ranked({t \in DOMAIN tracks : Public(t) /\ ~tracks[t].is_premium
              /\ \E s \in DOMAIN tracks : tracks[s].stem_of = t /\ Public(s)},
           LAMBDA t : <<-Count(t), -tracks[t].created_at, -t>>), [limit |-> limit, offset |-> 0])

\* A version of the parent that is not deleted is enough: there always is one.
GetStemsOf(t) == ById({s \in DOMAIN tracks : tracks[s].stem_of = t /\ ~tracks[s].is_delete})

----------------------------------------------------------------------------
(* Playlists and their tracks                                              *)

GetUnpopulatedPlaylists(s, filterDeleted) ==
  SelectSeq(s, LAMBDA p : p \in DOMAIN playlists /\ (filterDeleted => ~playlists[p].is_delete))

ByCreation(S) == Ranked(S, LAMBDA p : <<-playlists[p].created_at, p>>)

\* The page is cut before the private playlists of others are taken out.
GetPlaylists(routes, ids, u, me, pg) ==
  LET rows == {p \in DOMAIN playlists :
                 /\ routes # {} => p \in routes
                 /\ ids # {} => p \in ids
                 /\ u # None => playlists[p].playlist_owner_id = u
                 /\ me = None /\ routes = {} => ~playlists[p].is_private
                 /\ ids = {} /\ routes = {} => ~playlists[p].is_delete}
  IN SelectSeq(AddQueryPagination(ByCreation(rows), pg), LAMBDA p :
       me # None /\ routes = {} =>
         ~playlists[p].is_private \/ playlists[p].playlist_owner_id = me)

\* None where the lookup of a track of the playlist raises a KeyError.
GetPlaylistTracks(p, excludePremium) ==
  [i \in DOMAIN playlists[p].contents |->
     LET t == playlists[p].contents[i]
     IN IF t \in DOMAIN tracks /\ (excludePremium => ~tracks[t].is_premium) THEN t ELSE None]

\* "matching" are the ids whose title and handle are those of the request.
GetTracksIncludingUnlisted(ids, matching, filterDeleted) ==
  ById({t \in ids \cap DOMAIN tracks : (filterDeleted => ~tracks[t].is_delete)
          /\ (~tracks[t].is_unlisted \/ t \in matching)})

GetUsersAccount(u) ==
  ByCreation({p \in DOMAIN playlists : ~playlists[p].is_delete
    /\ (playlists[p].playlist_owner_id = u \/ HasSaved("playlist", p, u))})

PlaylistCount(p) == aggregate_playlist[p].repost_count + aggregate_playlist[p].save_count

CreateFolloweePlaylistsSubquery(me) ==
  {p \in DOMAIN playlists : playlists[p].playlist_owner_id \in FolloweesOf(me)}

\* The most common genre stands for the most common mood.
FilterToPlaylistMood(mood, p) ==
  LET Of(g) == Cardinality({t \in Elements(playlists[p].contents) :
                              tracks[t].genre = g /\ ~tracks[t].is_delete})
  IN mood # "" => Of(mood) > 0 /\ \A g \in Genres : Of(g) <= Of(mood)

GetTopPlaylists(album, followees, mood, me, limit) ==
  AddQueryPagination(
    Ranked({p \in IF followees THEN CreateFolloweePlaylistsSubquery(me) ELSE DOMAIN playlists :
              PublicPlaylist(p) /\ playlists[p].is_album = album /\ FilterToPlaylistMood(mood, p)},
           LAMBDA p : <<-PlaylistCount(p), -playlists[p].created_at, p>>),
    [limit |-> limit, offset |-> 0])

----------------------------------------------------------------------------
(* Other selections of tracks                                              *)

\* The limit is applied to what was saved, before tracks are taken out.
GetTopFolloweeSaves(me, limit) ==
  LET saved == UNION {{k[3] : k \in {k \in DOMAIN saves : k[1] = u /\ IsTrack(k[2])}} :
                        u \in FolloweesOf(me)}
      top == AddQueryPagination(
               Ranked(saved, LAMBDA t :
                 <<-Cardinality(Holders(saves, "track", t) \cap FolloweesOf(me)), t>>),
               [limit |-> limit, offset |-> 0])
  IN ById({t \in Elements(top) : Public(t) /\ tracks[t].stem_of = None})

GetTopFolloweeWindowed(me, limit) ==
  AddQueryPagination(
    Ranked({t \in DOMAIN tracks : tracks[t].owner_id \in FolloweesOf(me) /\ Public(t)
              /\ tracks[t].stem_of = None /\ tracks[t].created_at >= block - WindowBlocks},
           LAMBDA t : <<-Count(t), -t>>), [limit |-> limit, offset |-> 0])

\* Any limit of these.
GetRandomTracks == {t \in DOMAIN tracks : Public(t) /\ tracks[t].stem_of = None}

\* Deleted ones are among them.
GetLatestTracks(pg) ==
  AddQueryPagination(
    Ranked({t \in DOMAIN tracks : ~tracks[t].is_unlisted /\ ~tracks[t].is_premium},
           LAMBDA t : <<-tracks[t].created_at, -t>>), pg)

GetLatestPlaylists(pg) ==
  AddQueryPagination(
    Ranked({p \in DOMAIN playlists : ~playlists[p].is_private},
           LAMBDA p : <<-playlists[p].created_at, -p>>), pg)

\* Created later, or in the same block with a higher id; of any visibility.
GetSubsequentTracks(t, limit) ==
  AddQueryPagination(
    Ranked({n \in DOMAIN tracks :
              Before(<<tracks[t].created_at, t>>, <<tracks[n].created_at, n>>)},
           LAMBDA n : <<tracks[n].created_at, n>>), [limit |-> limit, offset |-> 0])

\* The user whose node serves a track.
GetTrackUserCreatorNode(t) ==
  IF t \in DOMAIN tracks /\ ~tracks[t].is_delete THEN tracks[t].owner_id ELSE None

\* A node signs for anyone what is not premium, and for those with access the rest.
GetTrackStreamSignature(t, hasAccess) == tracks[t].is_premium => hasAccess

\* "random" are the ids drawn, ten at most.
GetUnclaimedId(random, claimed) ==
  IF Elements(random) \subseteq claimed THEN None
  ELSE random[Min({i \in DOMAIN random : random[i] \notin claimed})]

\* "history" are the tracks listened to, latest first.  Nobody sees that of another user.
GetUserListeningHistory(u, history, me, pg) ==
  IF u # me THEN <<>>
  ELSE AddQueryPagination(SelectSeq(history, LAMBDA t : t \in DOMAIN tracks), pg)
=============================================================================
