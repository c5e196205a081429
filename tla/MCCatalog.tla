----------------------------- MODULE MCCatalog -----------------------------
(* A small catalog.  User 1 follows 2, who follows 3; track 12 of user 3 is *)
(* a remix of track 11 of user 2 and starts unlisted, track 13 is a stem of *)
(* 11, and user 2 has put tracks 11 and 12 in the playlist 21.              *)
EXTENDS Integers, Sequences, TLC

Users ==
  [u \in 1..3 |-> [handle |-> TRUE, is_deactivated |-> FALSE, pictured |-> TRUE, created_at |-> 0]]

Song(owner, unlisted, stem, remix) ==
  [owner_id |-> owner, is_unlisted |-> unlisted, is_delete |-> FALSE, is_available |-> TRUE,
   is_premium |-> FALSE, stem_of |-> stem, remix_of |-> remix, genre |-> "rock",
   created_at |-> 0]

Tracks ==
  11 :> Song(2, FALSE, 0, 0) @@ 12 :> Song(3, TRUE, 0, 11) @@ 13 :> Song(2, FALSE, 11, 0)

NewTracks == 14 :> Song(2, FALSE, 0, 0)

Playlists ==
  21 :> [playlist_owner_id |-> 2, is_private |-> FALSE, is_delete |-> FALSE, is_album |-> FALSE,
         contents |-> <<11, 12>>, created_at |-> 0]

Follows == {<<1, 2>>, <<2, 3>>}
Saves == {<<1, "track", 11>>, <<3, "playlist", 21>>}
Reposts == {<<1, "track", 12>>, <<3, "track", 11>>}

Pages(route, id) ==
  {[route |-> route, id |-> id, limit |-> limit, offset |-> offset] :
     limit \in {-1, 1}, offset \in {-1, 1}}

Requests ==
  Pages("followers", 2) \cup Pages("tracks", 3) \cup Pages("reposts", 2)
  \cup {[route |-> x[1], id |-> x[2], limit |-> -1, offset |-> -1] :
          x \in {<<"user", 2>>, <<"track", 12>>, <<"favorites", 11>>, <<"remixes", 11>>,
                  <<"playlist", 21>>}}
=============================================================================
