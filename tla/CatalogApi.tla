----------------------------- MODULE CatalogApi -----------------------------
(* The routes under /v1/users, /v1/tracks and /v1/playlists that read the  *)
(* tables of Catalog, and the cache in redis that stands before them.  A   *)
(* request may have a current user, which is any user that the client      *)
(* names, and one that signed the request (auth_middleware).               *)
EXTENDS CatalogQueries

LOCAL INSTANCE FiniteSetsExt
LOCAL INSTANCE SequencesExt

CONSTANTS Requests,   \* requests without a current user, [route, id, limit, offset]
          MaxCached   \* keys in redis, at most

VARIABLES
  computing,  \* answers that are still to be stored, [key, response, at]
  cache       \* key to its response and the block it was computed at

vars == <<tables, computing, cache>>

----------------------------------------------------------------------------
(* Arguments and answers (api/v1/helpers.py)                               *)

MaxApiLimit == 500
FormatLimit(limit, max, default) ==
  IF limit = Absent THEN default ELSE Max({Least(limit, max), MinLimit})

FormatOffset(offset) == IF offset = Absent THEN 0 ELSE Max({Least(offset, MaxApiLimit), 0})

GetDefaultMax(value, default, max) == IF value = Absent THEN default ELSE Least(value, max)

Page(limit, offset) ==
  [limit |-> FormatLimit(limit, MaxApiLimit, DefaultLimit), offset |-> FormatOffset(offset)]

\* Pages of users: ten unless asked for more, a hundred at most.
UserPage(limit, offset) ==
  [limit |-> GetDefaultMax(limit, 10, 100), offset |-> GetDefaultMax(offset, 0, offset)]

SuccessResponse(entity) == [status |-> 200, data |-> entity]
AbortNotFound == [status |-> 404, data |-> <<>>]
AbortBadRequest == [status |-> 400, data |-> <<>>]
ServerError == [status |-> 500, data |-> <<>>]

Extended(s, metadata) == [i \in DOMAIN s |-> [id |-> s[i], metadata |-> metadata[s[i]]]]

UsersOf(s, me) == SuccessResponse(Extended(s, [u \in Range(s) |-> UserMetadata(u, me)]))
TracksFor(s, me) == SuccessResponse(Extended(s, [t \in Range(s) |-> TrackMetadata(t, me)]))
PlaylistsFor(s, me) == SuccessResponse(Extended(s, [p \in Range(s) |-> PlaylistMetadata(p, me)]))

----------------------------------------------------------------------------
(* api/v1/users.py                                                         *)

GetSingleUser(u, me) ==
  LET found == GetUsers({u}, {}, Everything)
  IN IF found = <<>> THEN AbortNotFound ELSE UsersOf(found, me)

User(u) == GetSingleUser(u, None)
FullUser(u, me) == GetSingleUser(u, me)

FullUserHandle(handle, me) ==
  LET found == GetUsers(DOMAIN users, {handle}, Everything)
  IN IF found = <<>> THEN AbortNotFound ELSE UsersOf(<<found[1]>>, me)

\* "a" are the filter and the order that the client asks for.
TrackList(u, authed, me, a, limit, offset) ==
  TracksFor(GetTracks([a EXCEPT !.user_id = u, !.authed_user_id = authed,
                                !.filter_deleted = TRUE, !.exclude_premium = TRUE],
                      GetPaginationVars(limit, offset)), me)

FullTrackList(u, authed, me, a, limit, offset) ==
  TracksFor(GetTracks([a EXCEPT !.user_id = u, !.authed_user_id = authed,
                                !.filter_deleted = TRUE],
                      GetPaginationVars(limit, offset)), me)

\* Nothing is answered if no user has the handle.
HandleFullTrackList(handle, authed, me, a, limit, offset) ==
  IF ~users[handle].handle THEN ServerError
  ELSE FullTrackList(handle, authed, me, a, limit, offset)

Activity(x, me) ==
  IF IsTrack(x[1]) THEN TrackMetadata(x[2], me) ELSE PlaylistMetadata(x[2], me)

ActivityList(s, me) == SuccessResponse(Extended(s, [x \in Range(s) |-> Activity(x, me)]))

RepostList(u, me, pg) == ActivityList(GetRepostFeedForUser(u, pg), me)

FavoritedTracks(u) == SuccessResponse(GetSaves("tracks", u, Everything))
FavoritedAlbums(u) == SuccessResponse(GetSaves("albums", u, Everything))
FavoritedPlaylists(u) == SuccessResponse(GetSaves("playlists", u, Everything))

UserFavoritedTracksFull(u, me, sort, pg) == TracksFor(GetSaveTracks(u, FALSE, sort, pg), me)

TrackHistoryFull(u, history, me, pg) == TracksFor(GetUserListeningHistory(u, history, me, pg), me)

FullUserSubscribers(u, me, limit, offset) ==
  UsersOf(GetSubscribersForUser(u, UserPage(limit, offset)), me)

FullBulkUsersSubscribers(us) == SuccessResponse(GetSubscribersForUsers(us))

FullFollowerUsers(u, me, limit, offset) ==
  UsersOf(GetFollowersForUser(u, UserPage(limit, offset)), me)

FullFollowingUsers(u, me, limit, offset) ==
  UsersOf(GetFolloweesForUser(u, UserPage(limit, offset)), me)

FullRelatedUsers(u, related, me, limit) ==
  UsersOf(GetRelatedArtists(u, related, GetDefaultMax(limit, 10, 100)), me)

FullTopGenreUsers(genres, limit, offset) ==
  UsersOf(GetTopGenreUsers(genres, UserPage(limit, offset)), None)

FullTopUsers(me, limit, offset) == UsersOf(GetTopUsers(GetPaginationVars(limit, offset)), me)

----------------------------------------------------------------------------
(* api/v1/tracks.py                                                        *)

GetSingleTrack(t, me, excludePremium) ==
  LET found == GetTracks([NoArgs EXCEPT !.ids = {t} \cap DOMAIN tracks,
                                        !.exclude_premium = excludePremium], Everything)
  IN IF found = <<>> THEN AbortNotFound ELSE TracksFor(found, me)

GetUnlistedTrack(t, matching, me) ==
  LET found == GetTracksIncludingUnlisted({t}, matching, FALSE)
  IN IF found = <<>> THEN AbortNotFound ELSE TracksFor(found, me)

Track(t) == GetSingleTrack(t, None, TRUE)

\* "matching" is Absent unless the title and the handle are in the request.
FullTrack(t, showUnlisted, matching, me) ==
  IF ~showUnlisted THEN GetSingleTrack(t, me, FALSE)
  ELSE IF matching = Absent THEN AbortBadRequest
  ELSE GetUnlistedTrack(t, IF matching THEN {t} ELSE {}, me)

\* By ids or by routes, never by both.
BulkOf(ids, routes, me, excludePremium) ==
  LET found == GetTracks([NoArgs EXCEPT !.ids = (IF ids # {} THEN ids ELSE @) \cap DOMAIN tracks,
                            !.routes = routes, !.exclude_premium = excludePremium], Everything)
  IN IF (ids = {}) = (routes = {}) THEN AbortBadRequest
     ELSE IF found = <<>> THEN AbortNotFound ELSE TracksFor(found, me)

BulkTracks(ids, routes) == BulkOf(ids, routes, None, TRUE)
FullBulkTracks(ids, routes, me) == BulkOf(ids, routes, me, FALSE)

\* Answers with the owner whose node has the track.
TrackStream(t, hasAccess) ==
  LET found == GetTracks([NoArgs EXCEPT !.ids = {t}, !.skip_unlisted_filter = TRUE], Everything)
  IN IF \/ GetTrackUserCreatorNode(t) = None \/ found = <<>>
        \/ ~HasSegments(t) \/ ~GetTrackStreamSignature(t, hasAccess)
     THEN AbortNotFound ELSE SuccessResponse(GetTrackUserCreatorNode(t))

FullTrackFavorites(t, me, limit, offset) ==
  UsersOf(GetSaversForTrack(t, UserPage(limit, offset)), me)

FullTrackReposts(t, me, limit, offset) ==
  UsersOf(GetRepostersForTrack(t, UserPage(limit, offset)), me)

FullTrackStems(t) == SuccessResponse(GetStemsOf(t))

FullRemixableTracks(me, limit) == TracksFor(GetRemixableTracks(GetDefaultMax(limit, 25, 100)), me)

RemixPage(limit, offset) ==
  [limit |-> FormatLimit(limit, MaxApiLimit, 10), offset |-> FormatOffset(offset)]

FullRemixesRoute(t, me, limit, offset) ==
  IF MayHaveRemixes(t) THEN TracksFor(GetRemixesOf(t, RemixPage(limit, offset)), me)
  ELSE ServerError

FullRemixingRoute(t, me, limit, offset) ==
  TracksFor(GetRemixTrackParents(t, RemixPage(limit, offset)), me)

BestNewReleases(me, limit) ==
  TracksFor(GetTopFolloweeWindowed(me, FormatLimit(limit, 100, DefaultLimit)), me)

UnderTheRadar(me, filter, tracksOnly, limit) ==
  ActivityList(GetFeed(me, filter, tracksOnly, GetPaginationVars(limit, Absent).limit), me)

MostLoved(me, limit) == TracksFor(GetTopFolloweeSaves(me, FormatLimit(limit, 100, 25)), me)

\* What it may answer with.
FeelingLucky == GetRandomTracks

LatestTrack == SuccessResponse(GetLatestTracks([limit |-> 1, offset |-> 0]))

SubsequentTrack(t, limit) == SuccessResponse(GetSubsequentTracks(t, limit))

GetUnclaimedTrackId(random) == SuccessResponse(GetUnclaimedId(random, DOMAIN aggregate_track))

----------------------------------------------------------------------------
(* api/v1/playlists.py                                                     *)

\* By its id, or by its route if it has one.
GetPlaylist(p, byRoute, me) ==
  LET found == GetPlaylists(IF byRoute THEN {p} ELSE {}, IF byRoute THEN {} ELSE {p}, None, me,
                            Everything)
  IN SubSeq(found, 1, Least(1, Len(found)))

GetTracksForPlaylist(p, me, excludePremium) ==
  LET found == GetPlaylistTracks(p, excludePremium)
  IN IF p \notin DOMAIN playlists \/ None \in Elements(found) THEN ServerError
     ELSE TracksFor(found, me)

Playlist(p) == PlaylistsFor(GetPlaylist(p, FALSE, None), None)

WithTracks(found, me) ==
  IF found = <<>> THEN SuccessResponse(<<>>)
  ELSE LET songs == GetTracksForPlaylist(found[1], me, FALSE)
       IN IF songs = ServerError THEN songs
          ELSE SuccessResponse(<<PlaylistsFor(found, me).data[1], songs.data>>)

FullPlaylist(p, me) == WithTracks(GetPlaylist(p, FALSE, me), me)
FullPlaylistByHandleAndSlug(p, me) == WithTracks(GetPlaylist(p, TRUE, me), me)

PlaylistTracks(p) == GetTracksForPlaylist(p, None, TRUE)
FullPlaylistTracks(p) == GetTracksForPlaylist(p, None, FALSE)
PlaylistStream(p) == GetTracksForPlaylist(p, None, TRUE)

Top(album, followees, mood, me, limit) ==
  PlaylistsFor(GetTopPlaylists(album, followees, mood, me, GetDefaultMax(limit, 100, 100)), me)

FullPlaylistFavorites(p, me, limit, offset) ==
  UsersOf(GetSaversForPlaylist(p, UserPage(limit, offset)), me)

FullPlaylistReposts(p, me, limit, offset) ==
  UsersOf(GetRepostersForPlaylist(p, UserPage(limit, offset)), me)

----------------------------------------------------------------------------
(* The decorator "cache" of utils/redis_cache.py                           *)


ExtractKey(r) == r

\* The answer to a request that names no current user and that "authed" signed.
Answer(r, authed) ==
  CASE r.route = "user" -> User(r.id)
    [] r.route = "followers" -> FullFollowerUsers(r.id, None, r.limit, r.offset)
    [] r.route = "reposts" -> RepostList(r.id, None, Page(r.limit, r.offset))
    [] r.route = "tracks" -> FullTrackList(r.id, authed, None, NoArgs, r.limit, r.offset)
    [] r.route = "track" -> Track(r.id)
    [] r.route = "favorites" -> FullTrackFavorites(r.id, None, r.limit, r.offset)
    [] r.route = "remixes" -> FullRemixesRoute(r.id, None, r.limit, r.offset)
    [] r.route = "playlist" -> FullPlaylist(r.id, None)

\* A request misses, and its handler runs.  Only what is not an error is stored.
Compute(r, authed) ==
  LET response == Answer(r, authed)
  IN /\ ExtractKey(r) \notin DOMAIN cache /\ response.status < 400
     /\ computing = {} /\ Cardinality(DOMAIN cache) < MaxCached
     /\ computing' = {[key |-> ExtractKey(r), response |-> response, at |-> block]}
     /\ UNCHANGED <<tables, cache>>

SetJsonCachedKey(c) ==
  /\ computing' = computing \ {c}
  /\ cache' = (c.key :> [response |-> c.response, at |-> c.at]) @@ cache
  /\ UNCHANGED tables

Expire(k) == cache' = Without(cache, {k}) /\ UNCHANGED <<tables, computing>>

Init == CatalogInit /\ computing = {} /\ cache = <<>>

Next ==
  \/ CatalogNext /\ UNCHANGED <<computing, cache>>
  \/ \E r \in Requests, authed \in {None} \cup DOMAIN users : Compute(r, authed)
  \/ \E c \in computing : SetJsonCachedKey(c)
  \/ \E k \in DOMAIN cache : Expire(k)

Spec == Init /\ [][Next]_vars

TypeOK ==
  /\ CatalogTypeOK
  /\ \A c \in computing : c.at \in 0..block /\ c.key \in Requests
  /\ \A k \in DOMAIN cache : k \in Requests /\ cache[k].at \in 0..block

----------------------------------------------------------------------------
(* Properties                                                              *)

Anyone == {None} \cup DOMAIN users

Ids(response) == {response.data[i].id : i \in DOMAIN response.data}

TracksListed(me) ==
  UNION {Ids(FullTrackList(u, authed, me, NoArgs, Absent, Absent)) :
           <<u, authed>> \in {x \in (DOMAIN users) \X Anyone : x[1] # x[2]}}
  \cup UNION {Ids(FullRemixesRoute(t, me, Absent, Absent)) : t \in DOMAIN tracks}
  \cup Ids(FullRemixableTracks(me, Absent)) \cup FeelingLucky
  \cup Ids(MostLoved(me, Absent)) \cup Ids(BestNewReleases(me, Absent))

PlaylistsListed(me) ==
  Ids(Top(FALSE, FALSE, "", me, Absent)) \cup Ids(Top(TRUE, FALSE, "", me, Absent))
  \cup Ids(Top(FALSE, TRUE, "", me, Absent))
  \cup UNION {Elements(GetPlaylists({}, {}, u, me, Everything)) : u \in DOMAIN users}

ActivitiesListed(me) ==
  Ids(UnderTheRadar(me, "all", FALSE, Absent)) \cup Ids(UnderTheRadar(me, "repost", FALSE, Absent))
  \cup UNION {Ids(RepostList(u, me, Everything)) : u \in DOMAIN users}

(* What is deleted is in no listing, nor is what is unlisted or private,   *)
(* except that users find their own private playlists: in the tracks of a  *)
(* user that someone else asks for, remixes, remixables, random tracks,    *)
(* tracks by and loved by followees, playlists of a user, top playlists,   *)
(* reposts and feeds, whatever was deleted or hidden after it was saved,   *)
(* reposted, remixed or put in a list.                                     *)
NothingHiddenListed ==
  \A me \in Anyone :
    /\ \A t \in TracksListed(me) : Public(t)
    /\ \A p \in PlaylistsListed(me) :
         ~playlists[p].is_delete
         /\ (PublicPlaylist(p) \/ playlists[p].playlist_owner_id = me)
    /\ \A x \in ActivitiesListed(me) : IF IsTrack(x[1]) THEN Public(x[2]) ELSE PublicPlaylist(x[2])

CreatedOrRepostedBy(v, x) ==
  \/ OwnerOf(x[1], x[2]) = v
  \/ <<v, x[1], x[2]>> \in DOMAIN reposts

(* The feed of a user has every public track and playlist that a followee  *)
(* made or reposted, once, and nothing else.  Only a track that its owner  *)
(* has put in a playlist soon after may be left out, if that is in there.  *)
FeedComplete ==
  \A me \in DOMAIN users :
    LET feed == GetFeed(me, "all", FALSE, MaxLimit)
        Due(x) == \E v \in FolloweesOf(me) : CreatedOrRepostedBy(v, x)
        InList(t) == \E p \in DOMAIN playlists :
                       /\ t \in Elements(playlists[p].contents) /\ <<"playlist", p>> \in Elements(feed)
                       /\ playlists[p].playlist_owner_id = tracks[t].owner_id
    IN /\ \A i, j \in DOMAIN feed : feed[i] = feed[j] => i = j
       /\ \A x \in Elements(feed) : Due(x)
       /\ \A t \in DOMAIN tracks : Due(<<"track", t>>) /\ Public(t) /\ tracks[t].stem_of = None
            => <<"track", t>> \in Elements(feed) \/ InList(t)
       /\ \A p \in DOMAIN playlists : Due(<<"playlist", p>>) /\ PublicPlaylist(p)
            => <<"playlist", p>> \in Elements(feed)

(* The counts that triggers keep, those that a query counts, the flags     *)
(* that are bundled with users, tracks and playlists, and the lists of     *)
(* those who follow, repost or save tell the same, for every current user, *)
(* as blocks add and take away.                                            *)
ListsAndFlagsAgree ==
  /\ \A u \in DOMAIN GetFollowerCounts(DOMAIN users, block) :
       GetFollowerCounts({u}, block)[u] = aggregate_user[u].follower_count
  /\ \A t \in DOMAIN tracks :
       LET Counted(counts) == IF t \in DOMAIN counts THEN counts[t] ELSE 0
       IN /\ Counted(GetRepostCounts(FALSE, {t}, {"track"}, block)) = aggregate_track[t].repost_count
          /\ Counted(GetSaveCounts(FALSE, {t}, {"track"}, block)) = aggregate_track[t].save_count
  /\ \A u \in DOMAIN users :
       /\ aggregate_user[u].follower_count = Cardinality(FollowersOf(u))
       /\ aggregate_user[u].following_count = Cardinality(FolloweesOf(u))
       /\ aggregate_user[u].repost_count = Cardinality({k \in DOMAIN reposts : k[1] = u})
       /\ aggregate_user[u].track_save_count
            = Cardinality(Ids(UserFavoritedTracksFull(u, None, "date", Everything)))
       /\ aggregate_user[u].track_count
            = Cardinality({t \in Ids(FullTrackList(u, None, None, NoArgs, Absent, Absent)) :
                             tracks[t].is_available})
       /\ \A me \in DOMAIN users :
            LET user == UserMetadata(u, me)
            IN /\ users[me].handle =>
                    user.does_current_user_follow
                      = (me \in Ids(FullFollowerUsers(u, me, Absent, Absent)))
               /\ users[me].handle =>
                    user.does_follow_current_user
                      = (me \in Ids(FullFollowingUsers(u, me, Absent, Absent)))
               /\ user.current_user_followee_follow_count
                    = Len(GetFollowIntersectionUsers(u, me, Everything))
  /\ \A t \in DOMAIN tracks, me \in DOMAIN users :
       LET track == TrackMetadata(t, me)
       IN /\ track.counts.repost_count = Len(GetRepostersForTrack(t, Everything))
          /\ track.counts.save_count = Len(GetSaversForTrack(t, Everything))
          /\ track.has_current_user_reposted = (me \in Elements(GetRepostersForTrack(t, Everything)))
          /\ track.has_current_user_saved = (me \in Elements(GetSaversForTrack(t, Everything)))
          /\ track.followee_reposts
               = Elements(GetTrackRepostIntersectionUsers(t, me, Everything))
  /\ \A p \in DOMAIN playlists, me \in DOMAIN users :
       LET playlist == PlaylistMetadata(p, me)
       IN /\ playlist.counts.repost_count = Len(GetRepostersForPlaylist(p, Everything))
          /\ playlist.counts.save_count = Len(GetSaversForPlaylist(p, Everything))
          /\ playlist.followee_reposts
               = Elements(GetPlaylistRepostIntersectionUsers(p, me, Everything))

=============================================================================
