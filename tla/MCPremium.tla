----------------------------- MODULE MCPremium -----------------------------
(* Two tracks of an artist: one for owners of an ERC1155 token, one for     *)
(* followers, each of which the artist may open, or ask tips or another NFT *)
(* for instead.  A fan may associate a Solana wallet that owns that NFT.    *)
EXTENDS Integers, TLC

Fans == {"artist", "fan"}
Own == [u \in Fans |-> u]
Associable == {[address |-> "w", chain |-> "sol"]}

Eth == [chain |-> "eth", standard |-> "ERC1155", address |-> "c1"]
Sol == [chain |-> "sol", standard |-> "none", address |-> "c2"]
Token(c, n) == [chain |-> c.chain, standard |-> c.standard, address |-> c.address, token |-> n]
Tokens == {Token(Eth, 1), Token(Sol, 2)}
Owners == [n \in Tokens |-> IF n.chain = "sol" THEN "w" ELSE "artist"]

Row(conditions, cid) ==
  [owner_id |-> "artist", is_premium |-> conditions # {}, premium_conditions |-> conditions,
   track_cid |-> cid, is_delete |-> FALSE]
Asks(name, value) == {[name |-> name, value |-> value]}
Tracks == 1 :> Row(Asks("nft_collection", Eth), "a")
          @@ 2 :> Row(Asks("follow_user_id", "artist"), "b")
Edits == {Row({}, "a"), Row(Asks("nft_collection", Sol), "b"),
          Row(Asks("tip_user_id", "artist"), "a")}
=============================================================================
