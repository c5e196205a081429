------------------------------ MODULE Premium ------------------------------
(***************************************************************************)
(* Access to premium tracks (src/premium_content,                          *)
(* queries/get_premium_track_signatures.py, query_helpers.py,              *)
(* queries/get_track_stream_signature.py).                                 *)
(*                                                                         *)
(* A premium track has one condition: to follow a user, to have tipped a   *)
(* user, or to own an NFT of a collection.  The node checks it when it     *)
(* shows the track and gives a signature over the cid of the track and the *)
(* wallet of the user.  With that signature, or after another check, it    *)
(* redirects the user to a stream of the track.  Meanwhile follows, tips,  *)
(* NFTs, wallets and tracks change.                                        *)
(*                                                                         *)
(* A signature is the record of what is signed: its time is not modelled,  *)
(* nothing reads it.                                                       *)
(***************************************************************************)
EXTENDS Integers, FiniteSets, Functions

CONSTANTS
  Users,
  WalletOf,      \* users.wallet, "none" for users without one
  Wallets,       \* wallets that can be associated with users, [address, chain]
  Nfts,          \* of [chain, standard, address, token]
  Holders,       \* InitialHolders of the NFTs
  InitialTracks, \* rows of the table tracks
  Edits,         \* rows a track may be changed to
  MaxChanges     \* bound

VARIABLES
  tracks,     \* current rows, of [owner_id, is_premium, premium_conditions, track_cid, is_delete],
              \* no conditions where the column is null
  follows,    \* pairs of users
  tips,       \* pairs of aggregate_user_tips
  associated, \* table associated_wallets, of <<user, wallet>>
  holder,     \* of each NFT, on its chain
  kept,       \* the signature a client has kept, if any
  stream,     \* the last redirect to a stream, if any
  met,        \* history: <<user, cid>> of conditions that were met at some time
  changes
vars == <<tracks, follows, tips, associated, holder, kept, stream, met, changes>>
tables == <<tracks, follows, tips, associated, holder>>

None == "none"
Track(t) == tracks[t]
TrackIds == DOMAIN tracks

----------------------------------------------------------------------------
(* premium_content_access_checker.py, helpers.py *)

DoesUserHaveNftCollection(u, collection) == FALSE \* asked for elsewhere
DoesUserFollowArtist(u, v) == <<u, v>> \in follows
DoesUserSupportArtist(u, v) == <<u, v>> \in tips
EvaluateConditions(u, conditions) ==
  /\ Cardinality(conditions) = 1
  /\ \E c \in conditions :
       \/ c.name = "nft_collection" /\ DoesUserHaveNftCollection(u, c.value)
       \/ c.name = "follow_user_id" /\ DoesUserFollowArtist(u, c.value)
       \/ c.name = "tip_user_id" /\ DoesUserSupportArtist(u, c.value)
CheckAccess(u, track) ==
  \/ ~track.is_premium
  \/ track.premium_conditions = {}
  \/ track.owner_id = u
  \/ EvaluateConditions(u, track.premium_conditions)
\* Variant: rows of deleted tracks are taken too.
AnyTrack(t) == TRUE
IsThere(t) == ~Track(t).is_delete
GetTracks(T) == {t \in T : IsThere(t)}
(* Of the tracks asked for, those the user has access to. *)
CheckAccessForBatch(u, T) == {t \in GetTracks(T) : CheckAccess(u, Track(t))}

----------------------------------------------------------------------------
(* signature.py *)

Signed(t, wallet, isPremium) ==
  [cid |-> Track(t).track_cid, user_wallet |-> wallet, should_cache |-> ~isPremium]
(* Premium tracks shown to a user come with signatures. *)
PopulatePremiumTrackMetadata(u, T) ==
  {Signed(t, WalletOf[u], TRUE) : t \in CheckAccessForBatch(u, {t \in T : Track(t).is_premium})}
GetPremiumTrackSignatures(u, T) ==
  IF WalletOf[u] = None THEN {}
  ELSE {Signed(t, WalletOf[u], Track(t).is_premium) : t \in CheckAccessForBatch(u, T)}

----------------------------------------------------------------------------
(* get_nft_gated_premium_track_signatures.  A client names tracks and, for *)
(* each, the ids of its ERC1155 tokens.  Wallets whose NFTs cannot be read *)
(* are passed over.                                                        *)

NftGated(t) ==
  /\ Track(t).is_premium
  /\ \E c \in Track(t).premium_conditions : c.name = "nft_collection"
Collection(t) == (CHOOSE c \in Track(t).premium_conditions : c.name = "nft_collection").value
InCollection(n, collection) ==
  /\ n.chain = collection.chain /\ n.address = collection.address
  /\ n.chain = "eth" => n.standard = collection.standard
GetAssociatedUserWallet(u, chain) ==
  {x[2].address : x \in {y \in associated : y[1] = u /\ y[2].chain = chain}}
WalletsFor(u, chain) ==
  GetAssociatedUserWallet(u, chain) \cup (IF chain = "eth" THEN {WalletOf[u]} ELSE {})
DoesUserOwnEthCollection(collection, wallets, tokenIds) == \E n \in Nfts :
  /\ InCollection(n, collection) /\ holder[n] \in wallets
  /\ n.standard = "ERC1155" => n.token \in tokenIds
DoesUserOwnSolCollection(collection, wallets) == \E n \in Nfts :
  InCollection(n, collection) /\ holder[n] \in wallets
(* Each collection is asked for once, with the token ids of all its tracks, *)
(* and each cid is signed once.                                             *)
EthTracks(u, gated, tokenIds, wallets) ==
  LET collectionTracks == [c \in {Collection(t) : t \in gated} |-> {t \in gated : Collection(t) = c}]
      tokens(c) == UNION {tokenIds[t] : t \in collectionTracks[c]}
  IN UNION {collectionTracks[c] : c \in
       {c \in DOMAIN collectionTracks : DoesUserOwnEthCollection(c, wallets, tokens(c))}}
SolTracks(u, gated, wallets) ==
  {t \in gated : DoesUserOwnSolCollection(Collection(t), wallets)}
NftGatedSignatures(u, T, tokenIds, failing) ==
  LET on(chain) == {t \in GetTracks(T) : NftGated(t) /\ Collection(t).chain = chain}
      wallets(chain) == WalletsFor(u, chain) \ failing
  IN IF WalletOf[u] = None THEN {}
     ELSE {Signed(t, WalletOf[u], TRUE) : t \in EthTracks(u, on("eth"), tokenIds, wallets("eth"))
                                                \cup SolTracks(u, on("sol"), wallets("sol"))}

----------------------------------------------------------------------------
(* get_track_stream_signature.  The user is the one whose wallet signed    *)
(* the request; "with" is the signature that comes with it, if any.        *)

\* Variant: a signature is good for any track.
IsOfUser(s, u, t) == s.user_wallet = WalletOf[u] /\ ~s.should_cache
IsAccepted(s, u, t) ==
  s.user_wallet = WalletOf[u] /\ s.cid = Track(t).track_cid /\ ~s.should_cache
GetTrackStreamSignature(u, t, with) ==
  IF ~Track(t).is_premium THEN TRUE
  ELSE /\ u # None /\ WalletOf[u] # None
       /\ IF with # {} THEN \A s \in with : IsAccepted(s, u, t) ELSE CheckAccess(u, Track(t))

----------------------------------------------------------------------------
OwnsNft(u, t) ==
  /\ NftGated(t) /\ ~Track(t).is_delete
  /\ \E n \in Nfts : InCollection(n, Collection(t)) /\ holder[n] \in WalletsFor(u, Collection(t).chain)
(* What the artist asks for, in place of how it is checked. *)
MeetsConditions(u, t) ==
  /\ ~Track(t).is_delete
  /\ \/ ~Track(t).is_premium \/ Track(t).premium_conditions = {}
     \/ Track(t).owner_id = u
     \/ \E c \in Track(t).premium_conditions : <<u, c.value>> \in
          CASE c.name = "follow_user_id" -> follows
            [] c.name = "tip_user_id" -> tips
            [] OTHER -> {}
     \/ OwnsNft(u, t)
MetNow == {<<WalletOf[p[1]], Track(p[2]).track_cid>> :
             p \in {p \in Users \X TrackIds : MeetsConditions(p[1], p[2])}}

Change ==
  /\ changes < MaxChanges /\ changes' = changes + 1
  /\ met' = met \cup MetNow'
  /\ UNCHANGED <<kept, stream>>
Toggle(S, x) == IF x \in S THEN S \ {x} ELSE S \cup {x}
(* Blocks and slots are indexed, and NFTs move on their chains. *)
ToggleFollow == \E u, v \in Users :
  u # v /\ follows' = Toggle(follows, <<u, v>>) /\ UNCHANGED <<tracks, tips, associated, holder>> /\ Change
SendTip == \E u, v \in Users :
  u # v /\ tips' = tips \cup {<<u, v>>} /\ UNCHANGED <<tracks, follows, associated, holder>> /\ Change
ToggleWallet == \E u \in Users, w \in Wallets :
  /\ \A x \in associated : x[2] = w => x[1] = u
  /\ associated' = Toggle(associated, <<u, w>>)
  /\ UNCHANGED <<tracks, follows, tips, holder>> /\ Change
MoveNft == \E n \in Nfts, w \in {WalletOf[u] : u \in Users} \cup {w.address : w \in Wallets} :
  holder' = [holder EXCEPT ![n] = w] /\ UNCHANGED <<tracks, follows, tips, associated>> /\ Change
EditTrack == \E t \in TrackIds, row \in Edits :
  /\ ~Track(t).is_delete /\ row.owner_id = Track(t).owner_id
  /\ tracks' = [tracks EXCEPT ![t] = row]
  /\ UNCHANGED <<follows, tips, associated, holder>> /\ Change
(* Deleting a track removes its conditions, and leaves it premium. *)
DeleteTrack == \E t \in TrackIds :
  /\ ~Track(t).is_delete
  /\ tracks' = [tracks EXCEPT ![t].is_delete = TRUE, ![t].premium_conditions = {}]
  /\ UNCHANGED <<follows, tips, associated, holder>> /\ Change

Keep(given) ==
  /\ kept' \in {{s} : s \in given}
  /\ UNCHANGED <<tables, stream, met, changes>>
ShowTracks == \E u \in Users : Keep(PopulatePremiumTrackMetadata(u, TrackIds))
AskForSignatures == \E u \in Users, failing \in SUBSET {WalletOf[v] : v \in Users},
                      tokenIds \in [TrackIds -> {{}, {n.token : n \in Nfts}}] :
  Keep(NftGatedSignatures(u, TrackIds, tokenIds, failing))
(* TrackStream; without a user when nobody signed the request.  A deleted  *)
(* track is not found.                                                     *)
StreamTrack == \E u \in Users \cup {None}, t \in TrackIds, with \in {{}, kept} :
  /\ ~Track(t).is_delete /\ GetTrackStreamSignature(u, t, with)
  /\ stream' = {[user_wallet |-> IF u = None THEN None ELSE WalletOf[u],
                 cid |-> Track(t).track_cid, is_premium |-> Track(t).is_premium]}
  /\ UNCHANGED <<tables, kept, met, changes>>

Init ==
  /\ tracks = InitialTracks /\ holder = Holders
  /\ follows = {} /\ tips = {} /\ associated = {}
  /\ kept = {} /\ stream = {}
  /\ met = MetNow /\ changes = 0
Next ==
  \/ ToggleFollow \/ SendTip \/ ToggleWallet \/ MoveNft \/ EditTrack \/ DeleteTrack
  \/ ShowTracks \/ AskForSignatures \/ StreamTrack
Spec == Init /\ [][Next]_vars

TypeOK ==
  /\ follows \cup tips \subseteq Users \X Users
  /\ associated \subseteq Users \X Wallets
  /\ Cardinality(kept) <= 1 /\ Cardinality(stream) <= 1
  /\ changes \in 0..MaxChanges

(* A user who is given a signature for a premium track, or a stream of it, *)
(* met the conditions for its cid at that time or earlier, through edits,  *)
(* deletions, unfollows and NFTs sold in between, and whoever kept the     *)
(* signature.                                                              *)
StreamsAreEarned ==
  /\ \A s \in kept : <<s.user_wallet, s.cid>> \in met
  /\ \A s \in stream : s.is_premium => <<s.user_wallet, s.cid>> \in met
(* And those who meet the conditions are not refused: of tracks shown or   *)
(* asked for together, each that is gated by an NFT is signed exactly when *)
(* the user owns one (asking for all tracks together, all wallets          *)
(* answering), each other exactly when the conditions are met.             *)
SignedWhenEarned == \A u \in Users :
  LET all == {n.token : n \in Nfts}
      nfts == NftGatedSignatures(u, TrackIds, [t \in TrackIds |-> all], {})
      others == GetPremiumTrackSignatures(u, TrackIds)
      shown == PopulatePremiumTrackMetadata(u, TrackIds)
      earned == {t \in TrackIds : MeetsConditions(u, t)}
  IN WalletOf[u] # None =>
     /\ {s.cid : s \in nfts} = {Track(t).track_cid : t \in {t \in TrackIds : OwnsNft(u, t)}}
     /\ {s.cid : s \in others \cup nfts} = {Track(t).track_cid : t \in earned}
     /\ shown \subseteq others
     /\ \A t \in earned : Track(t).is_premium =>
          \E s \in shown \cup nfts : GetTrackStreamSignature(u, t, {s})

(* Access goes to those who met the conditions, and to all who meet them.  *)
AccessIsEarned == StreamsAreEarned /\ SignedWhenEarned
=============================================================================
