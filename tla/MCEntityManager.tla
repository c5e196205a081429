-------------------------- MODULE MCEntityManager --------------------------
(* Transactions of EntityManager for TLC: two indexed users, one new user, *)
(* one track of theirs and one that a block may create, one playlist.      *)
EXTENDS EntityManager

T1 == Rec("Track", <<"t1">>, FALSE, [Blank EXCEPT !.owner = "u1", !.title = <<"a">>])
Tracks1 == {T1}
Titled(t) == [Blank EXCEPT !.title = t]

TrackTxs ==
  {Tx("Create", "Track", "u1", "t2", Titled(<<"a">>)),
   Tx("Create", "Track", "u1", "t3", Titled(<<"a", 1>>)),
   Tx("Update", "Track", "u1", "t2", [Titled(<<"a", 1>>) EXCEPT !.remix = "t1"]),
   Tx("Update", "Track", "u1", "t2", Titled(<<"a">>)),
   Tx("Delete", "Track", "u1", "t2", Blank)}
PlaylistTxs ==
  {Tx("Create", "Playlist", "u1", "p1", [Titled(<<"a">>) EXCEPT !.tracks = {"t1"}]),
   Tx("Update", "Playlist", "u1", "p1", Titled(<<"b">>)),
   Tx("Delete", "Playlist", "u1", "p1", Blank),
   Tx("ViewPlaylist", "Notification", "u2", "p1", Blank)}
SocialTxs ==
  {Tx(a, "User", "u2", "u1", Blank) : a \in {"Follow", "Unfollow", "Subscribe", "Unsubscribe"}}
  \cup {Tx(a, "Track", "u2", "t1", Blank) : a \in {"Save", "Unsave"}}
  \cup {Tx(a, "Playlist", "u2", "p1", Blank) : a \in {"Repost", "Unrepost"}}
UserTxs ==
  {Tx("Create", "User", "u3", "u3", [Blank EXCEPT !.replicas = "r1"]),
   [Tx("Update", "User", "u3", "u3", [Blank EXCEPT !.handle = "h"]) EXCEPT
      !.wallets = {"w1"}, !.referrer = "u1"],
   [Tx("Update", "User", "u2", "u2", [Blank EXCEPT !.handle = "h"]) EXCEPT
      !.wallets = {"w1", "w2"}, !.referrer = "u1"],
   [Tx("Verify", "User", "u3", "u3", Blank) EXCEPT !.signer = "verifier"],
   [Tx("Update", "UserReplicaSet", "u3", "u3", [Blank EXCEPT !.replicas = "r2"])
      EXCEPT !.signer = "r1", !.expects = "r1"]}

Catalogue == TrackTxs \cup {e \in PlaylistTxs : e.act # "ViewPlaylist"}
Library == PlaylistTxs \cup {e \in SocialTxs : e.type = "Playlist"}
Graph == {e \in SocialTxs : e.type # "Playlist"}
Mixes == {Catalogue, Library, Graph, UserTxs}
============================================================================
