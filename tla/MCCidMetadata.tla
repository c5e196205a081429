--------------------------- MODULE MCCidMetadata ---------------------------
(* Blocks and files for CidMetadata: a file named by two transactions, and *)
(* names that are none.                                                    *)
EXTENDS Integers

Tx(user, type, action, cid) == [user |-> user, type |-> type, action |-> action, cid |-> cid]
Tracks == <<Tx(1, "track", "Create", "f"), Tx(1, "track", "Update", "f"),
            Tx(1, "user", "Update", "g")>>
Others == <<Tx(2, "user", "Create", "g"), Tx(2, "user", "Update", "g"),
            Tx(1, "playlist_data", "Update", "f"), Tx(1, "notification", "Create", "h")>>
Blocks == {[chain |-> "poa", txs |-> Tracks], [chain |-> "poa", txs |-> Others],
           [chain |-> "nethermind", txs |-> Others]}

Content == [f |-> {"title", "genre"}, g |-> {"name"}, h |-> {"text"}]
Files == [a |-> {"f"}, b |-> {"f", "g"}]
=============================================================================
