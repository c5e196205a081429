--------------------------- MODULE EntityManager ---------------------------
(***************************************************************************)
(* What the ManageEntity transactions of one block do to the discovery     *)
(* node's tables (src/tasks/entity_manager/).  The transactions are        *)
(* handled in order, against the rows fetched before the first of them and *)
(* against what the earlier ones left in memory; a transaction that raises *)
(* is dropped, but what it has already put in the database session stays.  *)
(* The new rows are added at the end, the last one of a key as its current *)
(* version.                                                                *)
(*                                                                         *)
(* Tables keep their current rows only.  Modelled: users, tracks,          *)
(* playlists, follows, subscriptions, saves, reposts, playlist views, slug *)
(* routes, remixes, associated wallets, referrals.  Left out: metadata     *)
(* that no check reads, stems, notifications, signatures over text.        *)
(***************************************************************************)
EXTENDS Integers, Sequences, FiniteSets, SequencesExt

CONSTANTS
  EventSets,    \* sets of transactions, one of which the users send
  MaxBlockTxs,  \* bound on their number per block
  InitialUsers, \* users indexed before, with a handle of their own
  InitialTracks,
  PremiumFans,  \* users that meet the conditions of premium tracks
  MaxRoutes     \* bound on slug routes

VARIABLES
  db,     \* the tables
  events  \* the transactions that a block may hold
vars == <<db, events>>

None == "none"
(* A row: its table, its key, is_delete and the attributes that matter. *)
Blank == [owner |-> None, title |-> <<>>, premium |-> FALSE, tracks |-> {},
          remix |-> None, handle |-> None, verified |-> FALSE,
          replicas |-> None]
Rec(t, k, del, a) == [type |-> t, key |-> k, del |-> del, a |-> a]

(* A transaction.  md is the metadata it carries, extra what only some     *)
(* carry: wallets, a referrer, the replica set it expects.                 *)
Tx(act, t, user, id, md) ==
  [act |-> act, type |-> t, user |-> user, id |-> id, md |-> md,
   signer |-> user, wallets |-> {}, referrer |-> None, expects |-> None]

CreateActs == {"Follow", "Save", "Repost", "Subscribe"}
DeleteActs == {"Unfollow", "Unsave", "Unrepost", "Unsubscribe"}
SocialActs == CreateActs \cup DeleteActs

(* action_to_record_types *)
RecordTypes(act) ==
  CASE act \in {"Follow", "Unfollow"} -> <<"Follow", "Subscription">>
    [] act \in {"Save", "Unsave"} -> <<"Save">>
    [] act \in {"Repost", "Unrepost"} -> <<"Repost">>
    [] act \in {"Subscribe", "Unsubscribe"} -> <<"Subscription">>
    [] OTHER -> <<>>

----------------------------------------------------------------------------
(* The state of a batch: rows fetched or made (existing_records), rows     *)
(* made, in order (new_records), and the session, which queries see.       *)

\* Variant: only the first of the tables of a social action is looked up.
FetchedFirst(e) ==
  {<<"User", <<e.user>>>>, <<e.type, <<e.id>>>>}
    \cup (IF e.act = "ViewPlaylist"
          THEN {<<"PlaylistSeen", <<e.user, e.id>>>>, <<"Playlist", <<e.id>>>>} ELSE {})
    \cup (IF RecordTypes(e.act) = <<>> THEN {}
          ELSE {<<RecordTypes(e.act)[1], <<e.user, e.id>>>>})
    \cup {<<"Track", <<t>>>> : t \in e.md.tracks}
Fetched(e) ==
  {<<"User", <<e.user>>>>}
    \cup (IF e.type \in {"User", "Track", "Playlist"} THEN {<<e.type, <<e.id>>>>} ELSE {})
    \cup (IF e.act = "ViewPlaylist"
          THEN {<<"PlaylistSeen", <<e.user, e.id>>>>, <<"Playlist", <<e.id>>>>} ELSE {})
    \cup {<<RecordTypes(e.act)[i], <<e.user, e.id>>>> : i \in DOMAIN RecordTypes(e.act)}
    \cup {<<"Track", <<t>>>> : t \in e.md.tracks}

Begin(d, B) ==
  [ex |-> {r \in d.recs : \E i \in DOMAIN B : <<r.type, r.key>> \in Fetched(B[i])},
   new |-> <<>>, pending |-> {}, d |-> d]

Exists(S, t, k) == \E r \in S.ex : r.type = t /\ r.key = k
Existing(S, t, k) == CHOOSE r \in S.ex : r.type = t /\ r.key = k


(* The version to copy: the last one of this block, if there is one. *)
LatestCopy(S, t, k) ==
  LET made == {i \in DOMAIN S.new : S.new[i].type = t /\ S.new[i].key = k}
  IN IF made = {} THEN Existing(S, t, k)
     ELSE S.new[CHOOSE i \in made : \A j \in made : j <= i]

AddOnlyNew(S, r) == [S EXCEPT !.new = Append(@, r)]
AddRecord(S, r) ==
  [AddOnlyNew(S, r) EXCEPT
     !.ex = {x \in @ : x.type # r.type \/ x.key # r.key} \cup {r}]

SignedByUser(S, e) == Exists(S, "User", <<e.user>>) /\ e.signer = e.user

----------------------------------------------------------------------------
(* Slugs.  A slug is the words of the title and, for a later route of the  *)
(* same title and owner, a collision number; a title may end in a number   *)
(* itself.                                                                 *)

Slug(title, n) == IF n = 0 THEN title ELSE Append(title, n)
RouteSlug(r) == Slug(r.title, r.cid)
EndsInDigit(title) == Len(title) > 1
MaxCid(R) == CHOOSE n \in {r.cid : r \in R} : \A r \in R : r.cid <= n

\* Variant: the next number of the title, though another title may end in it.
NextCollisionId(S, model, owner, title) ==
  LET known == {r \in S.d.routes : r.model = model /\ r.owner = owner /\ r.title = title}
  IN IF known = {} THEN 0 ELSE MaxCid(known) + 1

GenerateCollisionId(S, model, owner, title) ==
  LET mine == {r \in S.d.routes : r.model = model /\ r.owner = owner}
      same(R) == {r \in R : r.title = title}
      known == IF same(mine \cap S.pending) # {}
               THEN same(mine \cap S.pending) ELSE same(mine)
      base == IF known = {} THEN 0 ELSE MaxCid(known)
      taken(n) == \E r \in mine : RouteSlug(r) = Slug(title, n)
  IN IF known = {} /\ ~(EndsInDigit(title) /\ taken(0)) THEN 0
     ELSE CHOOSE n \in (base + 1)..(base + Cardinality(mine) + 1) :
            ~taken(n) /\ \A m \in (base + 1)..(n - 1) : taken(m)

\* Variant: the route of the earlier title stays current.
AddRoute(S, model, id, owner, title) ==
  LET new == [model |-> model, owner |-> owner, id |-> id, title |-> title,
              cid |-> GenerateCollisionId(S, model, owner, title), current |-> TRUE]
  IN IF \E r \in S.d.routes : r.model = model /\ r.id = id /\ r.title = title THEN S
     ELSE [S EXCEPT !.d.routes = @ \cup {new}, !.pending = @ \cup {new}]

(* update_track_routes_table and update_playlist_routes_table: the current *)
(* route stays when its title stays.                                       *)
UpdateRoute(S, model, id, owner, title) ==
  LET prev == {r \in S.d.routes : r.model = model /\ r.id = id /\ r.current}
      new == [model |-> model, owner |-> owner, id |-> id, title |-> title,
              cid |-> GenerateCollisionId(S, model, owner, title), current |-> TRUE]
      old(r) == [r EXCEPT !.current = FALSE]
  IN IF \E r \in prev : r.title = title THEN S
     ELSE [S EXCEPT
            !.d.routes = (@ \ prev) \cup {old(r) : r \in prev} \cup {new},
            !.pending = (@ \ prev) \cup {old(r) : r \in prev \cap @} \cup {new}]

----------------------------------------------------------------------------
(* Social features *)

HasAccess(u, track) ==
  ~track.a.premium \/ track.a.owner = u \/ u \in PremiumFans

ValidSocial(S, e) ==
  /\ SignedByUser(S, e)
  /\ Exists(S, e.type, <<e.id>>)
  /\ IF e.type = "User" THEN e.user # e.id
     ELSE Existing(S, e.type, <<e.id>>).a.owner # e.user
  /\ \A i \in DOMAIN RecordTypes(e.act) :
       LET t == RecordTypes(e.act)[i] IN
       Exists(S, t, <<e.user, e.id>>) =>
         Existing(S, t, <<e.user, e.id>>).del # (e.act \in DeleteActs)
  /\ e.type = "Track" => HasAccess(e.user, Existing(S, "Track", <<e.id>>))

(* create_social_record and delete_social_record: one row per table, and   *)
(* no action has more than two tables.                                     *)
AddSocial(S, e, i) ==
  IF i \in DOMAIN RecordTypes(e.act)
  THEN AddRecord(S, Rec(RecordTypes(e.act)[i], <<e.user, e.id>>, e.act \in DeleteActs, Blank))
  ELSE S
SocialRecord(S, e) ==
  IF ValidSocial(S, e) THEN AddSocial(AddSocial(S, e, 1), e, 2) ELSE S

(* A second view in a block is ignored. *)
ViewPlaylist(S, e) ==
  IF /\ SignedByUser(S, e) /\ Exists(S, "Playlist", <<e.id>>)
     /\ \A i \in DOMAIN S.new : S.new[i].type = "PlaylistSeen" =>
                                  S.new[i].key # <<e.user, e.id>>
  THEN AddRecord(S, Rec("PlaylistSeen", <<e.user, e.id>>, FALSE, Blank))
  ELSE S

----------------------------------------------------------------------------
(* Playlists *)

(* Any premium track among the rows of the block refuses the transaction. *)
ValidPlaylist(S, e) ==
  /\ SignedByUser(S, e)
  /\ \A r \in S.ex : r.type = "Track" => ~r.a.premium
  /\ IF e.act = "Create" THEN ~Exists(S, "Playlist", <<e.id>>)
     ELSE /\ Exists(S, "Playlist", <<e.id>>)
          /\ Existing(S, "Playlist", <<e.id>>).a.owner = e.user

CreatePlaylist(S, e) ==
  IF ValidPlaylist(S, e)
  THEN AddRecord(UpdateRoute(S, "Playlist", e.id, e.user, e.md.title),
         Rec("Playlist", <<e.id>>, FALSE,
             [Blank EXCEPT !.owner = e.user, !.title = e.md.title,
                           !.tracks = e.md.tracks]))
  ELSE S

UpdatePlaylist(S, e) ==
  IF ValidPlaylist(S, e)
  THEN LET old == LatestCopy(S, "Playlist", <<e.id>>) IN
       AddRecord(UpdateRoute(S, "Playlist", e.id, old.a.owner, e.md.title),
         [old EXCEPT !.a.title = e.md.title, !.a.tracks = e.md.tracks])
  ELSE S

(* A deletion does not reach existing_records. *)
DeletePlaylist(S, e) ==
  IF ValidPlaylist(S, e)
  THEN AddOnlyNew(S, [LatestCopy(S, "Playlist", <<e.id>>) EXCEPT !.del = TRUE])
  ELSE S

----------------------------------------------------------------------------
(* Tracks *)

ValidTrack(S, e) ==
  /\ SignedByUser(S, e)
  /\ IF e.act = "Create" THEN ~Exists(S, "Track", <<e.id>>)
     ELSE /\ Exists(S, "Track", <<e.id>>)
          /\ Existing(S, "Track", <<e.id>>).a.owner = e.user

(* get_handle asks the database, where a user made by this block is not. *)
HandleFound(S, e) == \E r \in S.d.recs : r.type = "User" /\ r.key = <<e.user>>

UpdateRemixes(S, id, parent) ==
  [S EXCEPT !.d.remixes =
     {x \in @ : x[2] # id} \cup (IF parent = None THEN {} ELSE {<<parent, id>>})]

WithMetadata(r, md) ==
  [r EXCEPT !.a.title = md.title, !.a.premium = md.premium, !.a.remix = md.remix]

CreateTrack(S, e) ==
  IF ~ValidTrack(S, e) THEN S
  ELSE LET routed == UpdateRoute(S, "Track", e.id, e.user, e.md.title)
           r == Rec("Track", <<e.id>>, FALSE, [Blank EXCEPT !.owner = e.user])
       IN IF HandleFound(S, e)
          THEN AddRecord(UpdateRemixes(routed, e.id, e.md.remix),
                         WithMetadata(r, e.md))
          ELSE routed  \* the route stays in the session

UpdateTrack(S, e) ==
  IF ~ValidTrack(S, e) THEN S
  ELSE LET old == LatestCopy(S, "Track", <<e.id>>)
           routed == IF old.a.title = e.md.title THEN S
                     ELSE UpdateRoute(S, "Track", e.id, old.a.owner, e.md.title)
       IN IF HandleFound(S, e)
          THEN AddRecord(UpdateRemixes(routed, e.id, e.md.remix),
                         WithMetadata(old, e.md))
          ELSE routed

DeleteTrack(S, e) ==
  IF ValidTrack(S, e)
  THEN AddRecord(S, [LatestCopy(S, "Track", <<e.id>>) EXCEPT
                       !.del = TRUE, !.a.remix = None])
  ELSE S

----------------------------------------------------------------------------
(* Users *)

CreateUser(S, e) ==
  IF Exists(S, "User", <<e.user>>) THEN S
  ELSE AddRecord(S, Rec("User", <<e.user>>, FALSE,
                        [Blank EXCEPT !.replicas = e.md.replicas]))

(* The handle is looked up in the database. *)
HandleTaken(S, h) == \E r \in S.d.recs : r.type = "User" /\ r.a.handle = h
ValidHandle(S, old, e) == old.a.handle # None \/ ~HandleTaken(S, e.md.handle)

\* Variant: a wallet is claimed without looking for its present owner.
ClaimWallets(S, u, W) ==
  [S EXCEPT !.d.wallets = {w \in @ : w[1] # u} \cup {<<u, w>> : w \in W}]

(* update_user_associated_wallets: the wallets of the metadata (those with *)
(* a valid signature) that are nobody's become the user's; those the user  *)
(* had and that are not among them are deleted.                            *)
UpdateWallets(S, u, W) ==
  LET mine == {w \in S.d.wallets : w[1] = u}
      others == S.d.wallets \ mine
      added == {w \in W : \A x \in others : x[2] # w}
  IN [S EXCEPT !.d.wallets = others \cup {<<u, w>> : w \in added}]

(* update_user_events: the first referrer counts, and is announced to the  *)
(* challenges.                                                             *)
UpdateReferrer(S, u, by) ==
  IF by \in {None, u} \/ \E x \in S.d.referrals : x[1] = u THEN S
  ELSE [S EXCEPT !.d.referrals = @ \cup {<<u, by>>}]

UpdateUser(S, e) ==
  IF ~SignedByUser(S, e) THEN S
  ELSE LET old == LatestCopy(S, "User", <<e.user>>) IN
       IF ~ValidHandle(S, old, e) THEN S
       ELSE LET h == IF old.a.handle = None THEN e.md.handle ELSE old.a.handle
                s == UpdateReferrer(UpdateWallets(S, e.user, e.wallets),
                                    e.user, e.referrer)
            IN AddRecord(s, [old EXCEPT !.a.handle = h])

VerifyUser(S, e) ==
  IF e.signer = "verifier" /\ Exists(S, "User", <<e.user>>)
  THEN AddRecord(S, [Existing(S, "User", <<e.user>>) EXCEPT !.a.verified = TRUE])
  ELSE S

(* is_valid_user_replica_set_tx: the transaction names the set it changes; *)
(* the user or one of its nodes signs.                                     *)
UpdateReplicaSet(S, e) ==
  IF /\ Exists(S, "User", <<e.user>>)
     /\ e.signer \in {e.user, Existing(S, "User", <<e.user>>).a.replicas}
     /\ Existing(S, "User", <<e.user>>).a.replicas = e.expects
  THEN AddRecord(S, [LatestCopy(S, "User", <<e.user>>) EXCEPT
                       !.a.replicas = e.md.replicas])
  ELSE S

----------------------------------------------------------------------------
(* One block *)

Process(S, e) ==
  CASE e.act = "Create" /\ e.type = "Playlist" -> CreatePlaylist(S, e)
    [] e.act = "Update" /\ e.type = "Playlist" -> UpdatePlaylist(S, e)
    [] e.act = "Delete" /\ e.type = "Playlist" -> DeletePlaylist(S, e)
    [] e.act = "Create" /\ e.type = "Track" -> CreateTrack(S, e)
    [] e.act = "Update" /\ e.type = "Track" -> UpdateTrack(S, e)
    [] e.act = "Delete" /\ e.type = "Track" -> DeleteTrack(S, e)
    [] e.act \in SocialActs -> SocialRecord(S, e)
    [] e.act = "Create" /\ e.type = "User" -> CreateUser(S, e)
    [] e.act = "Update" /\ e.type = "User" -> UpdateUser(S, e)
    [] e.act = "Verify" /\ e.type = "User" -> VerifyUser(S, e)
    [] e.act = "Update" /\ e.type = "UserReplicaSet" -> UpdateReplicaSet(S, e)
    [] e.act = "ViewPlaylist" -> ViewPlaylist(S, e)
    [] OTHER -> S

(* records_to_save: the last new row of a key is current, and the fetched  *)
(* row of that key no longer is.                                           *)
SaveRecords(S, fetched) ==
  LET made == {<<S.new[i].type, S.new[i].key>> : i \in DOMAIN S.new}
      superseded == {r \in fetched : <<r.type, r.key>> \in made}
      last == {S.new[i] : i \in {i \in DOMAIN S.new :
                 \A j \in DOMAIN S.new : j > i =>
                   <<S.new[j].type, S.new[j].key>> # <<S.new[i].type, S.new[i].key>>}}
  IN [S.d EXCEPT !.recs = (@ \ superseded) \cup last]

\* after[n] is the batch after its first n transactions.
BatchStates(d, B) ==
  LET after[n \in 0..Len(B)] == IF n = 0 THEN Begin(d, B) ELSE Process(after[n - 1], B[n])
  IN after
IndexEvents(d, B) == SaveRecords(BatchStates(d, B)[Len(B)], Begin(d, B).ex)

----------------------------------------------------------------------------
Blocks == UNION {[1..n -> events] : n \in 1..MaxBlockTxs}

Init ==
  /\ events \in EventSets
  /\ db = [recs |-> {Rec("User", <<u>>, FALSE, [Blank EXCEPT !.handle = u, !.replicas = "r1"])
                    : u \in InitialUsers}
                 \cup InitialTracks,
        routes |-> {[model |-> "Track", owner |-> r.a.owner, id |-> r.key[1],
                     title |-> r.a.title, cid |-> 0, current |-> TRUE]
                      : r \in InitialTracks},
        remixes |-> {}, wallets |-> {}, referrals |-> {}]

IndexBlock ==
  \E B \in Blocks :
    /\ db' = IndexEvents(db, B)
    /\ Cardinality(db'.routes) <= MaxRoutes
    /\ UNCHANGED events
Next == IndexBlock
Spec == Init /\ [][Next]_vars

----------------------------------------------------------------------------
Current(t) == {r \in db.recs : r.type = t}

(* Type invariant of the tables. *)
TypeOK ==
  /\ \A r \in db.recs : r.del \in BOOLEAN /\ DOMAIN r.a = DOMAIN Blank
  /\ \A r \in db.routes : r.cid \in Nat /\ r.current \in BOOLEAN

(* However the transactions of a block fall on a key, one version of it is *)
(* current: fetch, in-memory updates and invalidation agree on the keys.   *)
OneCurrentVersion ==
  \A r, s \in db.recs : r.type = s.type /\ r.key = s.key => r = s


(* A slug of an owner is used once (it is the primary key of the routes),  *)
(* and every track and playlist is found under exactly one current slug.   *)
SlugsUnique ==
  \A r, s \in db.routes :
    r.model = s.model /\ r.owner = s.owner /\ RouteSlug(r) = RouteSlug(s) => r = s
OneCurrentRoute ==
  \A t \in {"Track", "Playlist"} :
    /\ \A r \in Current(t) :
         \E x \in db.routes :
           /\ x.model = t /\ x.id = r.key[1] /\ x.current /\ x.title = r.a.title
           /\ \A y \in db.routes :
                y.model = t /\ y.id = x.id /\ y.current => y = x
    /\ \A x \in db.routes : x.model = t => \E r \in Current(t) : r.key = <<x.id>>

(* The remixes table says of a live track what its current version says.   *)
RemixesMatch ==
  \A r \in Current("Track") : ~r.del =>
    {x \in db.remixes : x[2] = r.key[1]} =
      (IF r.a.remix = None THEN {} ELSE {<<r.a.remix, r.key[1]>>})

(* No wallet is associated with two users. *)
WalletOwnedOnce == \A x, y \in db.wallets : x[2] = y[2] => x = y

============================================================================
