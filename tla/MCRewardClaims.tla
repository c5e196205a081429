--------------------------- MODULE MCRewardClaims ---------------------------
(* A challenge of each kind that the queries treat apart.  The second       *)
(* release closes the numeric one in its environment and brings a new one.  *)
EXTENDS Integers, TLC

Ids == <<"first-playlist", "profile-completion", "referrals", "tt">>
Challenge(type, steps) == [type |-> type, active |-> TRUE, steps |-> steps]
Json == "profile-completion" :> Challenge("numeric", 7)
        @@ "referrals" :> Challenge("aggregate", 1)
        @@ "tt" :> Challenge("trending", 0)
Release(json, overrides) == [json |-> json, overrides |-> overrides, managers |-> DOMAIN json]
Releases ==
  <<Release(Json, [ch \in {} |-> {}]),
    Release("first-playlist" :> Challenge("boolean", 0) @@ Json,
            "profile-completion" :> [active |-> FALSE])>>
=============================================================================
