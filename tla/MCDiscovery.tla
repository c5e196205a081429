---------------------------- MODULE MCDiscovery ----------------------------
(* Components of the discovery node that keep tables of their own, each on *)
(* a small instance.  A behaviour is one of the component that "part"      *)
(* names; variables of the other components stay 0.  Components that use   *)
(* the same name for a variable share it, as no behaviour has them both.   *)
EXTENDS Integers

VARIABLES
  part,
  db, events, indexer, chain, table, tips, scanned, cache, job, lock,
  fails, expiries, acts, world, queue, rows, partial, paid, env, height,
  hollow, skipped, err, pass, failed, head, tracks, playlists, marks,
  balance, milestones, from, window, got, now, keys, agg, tipsUpTo, ranks,
  time, public, last, cached, notified, users, follows, saves, reposts,
  subscriptions, aggregate_user, aggregate_track, aggregate_playlist,
  aggregate_plays, block, computing, clock, personal, summed, merged,
  visited, counts, hits, answers, served, taken, excused, sol, assoc,
  change, lazy, immediate, stored, scan, refresh, plays, archive, unborn,
  listens, hourly, monthly, history, checkpoint, associated, holder, kept,
  stream, met, changes, user_tips, aggregate_user_tips, rank_ups,
  tips_checkpoint, updating, board, late, posting, posted, reactions,
  reactions_checkpoint, missed, registry, known, peers, pages, walk,
  steady, blacklist, unavailable, all, passes, told, files, cid_data,
  applied, heard, fetches, shown, rankings, tasks, challenges, results,
  server, worker, verified, deactivated, banks, oracles, everOracles,
  signed, transfers, current, task, dispatched, lost
allVars ==
  <<part,
    db, events, indexer, chain, table, tips, scanned, cache, job, lock,
    fails, expiries, acts, world, queue, rows, partial, paid, env, height,
    hollow, skipped, err, pass, failed, head, tracks, playlists, marks,
    balance, milestones, from, window, got, now, keys, agg, tipsUpTo,
    ranks, time, public, last, cached, notified, users, follows, saves,
    reposts, subscriptions, aggregate_user, aggregate_track,
    aggregate_playlist, aggregate_plays, block, computing, clock, personal,
    summed, merged, visited, counts, hits, answers, served, taken, excused,
    sol, assoc, change, lazy, immediate, stored, scan, refresh, plays,
    archive, unborn, listens, hourly, monthly, history, checkpoint,
    associated, holder, kept, stream, met, changes, user_tips,
    aggregate_user_tips, rank_ups, tips_checkpoint, updating, board, late,
    posting, posted, reactions, reactions_checkpoint, missed, registry,
    known, peers, pages, walk, steady, blacklist, unavailable, all, passes,
    told, files, cid_data, applied, heard, fetches, shown, rankings, tasks,
    challenges, results, server, worker, verified, deactivated, banks,
    oracles, everOracles, signed, transfers, current, task, dispatched,
    lost>>

World == INSTANCE MCCatalog
Gate == INSTANCE MCPremium
Prizes == INSTANCE MCRewardClaims
Files == INSTANCE MCCidMetadata
Txs == INSTANCE MCEntityManager WITH EventSets <- {}, MaxBlockTxs <- 0, InitialUsers <- {},
         InitialTracks <- {}, PremiumFans <- {}, MaxRoutes <- 0
Entities == INSTANCE EntityManager WITH
  EventSets <- Txs!Mixes, MaxBlockTxs <- 2, InitialUsers <- {"u1", "u2"},
  InitialTracks <- Txs!Tracks1, PremiumFans <- {}, MaxRoutes <- 5
Solana == INSTANCE SolanaIndexing WITH
  Indexers <- {"rewards", "user_bank", "plays", "spl"}, FirstPage <- 1, PageSize <- 2,
  ChunkSize <- 1, MaxBatches <- 2, Resize <- 1, MinSlot <- 1, MaxTxs <- 4, MaxSlot <- 2,
  Passes <- {1}, MaxFails <- 1, MaxExpiries <- 0
Overlaps == INSTANCE SolanaIndexing WITH
  Indexers <- {"rewards", "user_bank"}, FirstPage <- 1, PageSize <- 2, ChunkSize <- 1,
  MaxBatches <- 2, Resize <- 1, MinSlot <- 0, MaxTxs <- 3, MaxSlot <- 2, Passes <- {1, 2},
  MaxFails <- 0, MaxExpiries <- 1
Challenges == INSTANCE Challenges WITH
  ActSets <- {{"upload"}, {"signup"}, {"bio", "repost"}, {"listen"}, {"install", "trending"}},
  Users <- 1..2,
  Steps <- [ch \in {"referrals", "ref-v", "track-upload", "profile-completion", "listen-streak"} |-> IF ch \in {"referrals", "ref-v"} THEN 1 ELSE 2],
  StartBlock <- 2, MaxEvents <- 1, MaxBlock <- 3, MaxRetries <- 1, MaxLosses <- 1
Skipping == INSTANCE SkipConsensus WITH
  Nodes <- 1..3, MaxBlock <- 3, BadBlocks <- {2}, MaxSkipped <- 4, MaxFaults <- 1, MaxCrashes <- 1
Notifications == INSTANCE Notifications WITH
  EventSets <- {{"upload", "edit"}, {"newList", "publish", "add", "milestone"}, {"upload", "newList", "remove", "mark", "unmark"}, {"balance", "milestone"}},
  MaxBlockDiff <- 2, FinalPOA <- 0, MaxHead <- 3
Cutover == INSTANCE Notifications WITH
  EventSets <- {{"newList", "add", "milestone"}}, MaxBlockDiff <- 2, FinalPOA <- 1, MaxHead <- 3
Slots == INSTANCE SlotNotifications WITH
  MaxSlotDiff <- 2, KeysAtStart <- TRUE, MaxSlot <- 2, MaxFails <- 0
SlotFailures == INSTANCE SlotNotifications WITH
  MaxSlotDiff <- 2, KeysAtStart <- TRUE, MaxSlot <- 1, MaxFails <- 1
Trending == INSTANCE Trending WITH
  Tracks <- {"a", "b"}, Interval <- 2, Day <- 2, Top <- 1, MaxTime <- 4, MaxHidden <- 1,
  MaxFails <- 1
Listings == INSTANCE CatalogApi WITH
  InitialUsers <- World!Users, InitialTracks <- World!Tracks, InitialPlaylists <- World!Playlists,
  InitialFollows <- World!Follows, InitialSaves <- World!Saves, InitialReposts <- World!Reposts,
  NewTracks <- World!NewTracks, DedupeBlocks <- 1, WindowBlocks <- 1, MinFollowers <- 1,
  MaxBlock <- 2, MaxPlays <- 1, Requests <- {}, MaxCached <- 0
Cached == INSTANCE CatalogApi WITH
  InitialUsers <- World!Users, InitialTracks <- World!Tracks, InitialPlaylists <- World!Playlists,
  InitialFollows <- World!Follows, InitialSaves <- World!Saves, InitialReposts <- World!Reposts,
  NewTracks <- World!NewTracks, DedupeBlocks <- 1, WindowBlocks <- 1, MinFollowers <- 1,
  MaxBlock <- 1, MaxPlays <- 0, Requests <- World!Requests, MaxCached <- 1
Counting == INSTANCE MetricsReports WITH
  Nodes <- {"a", "b"}, Ips <- {"ip"}, Apps <- {"app"}, Aggregators <- {"a"}, MinCount <- 1,
  MaxTime <- 2, MaxPasses <- 2, Interval <- 2, Hour <- 2, Day <- 2, Month <- 4, Week <- 4,
  Limit <- 1, AnswerTtl <- 2, LastDays <- 2, MaxRequests <- 2, MaxFails <- 1, MaxSyncs <- 0
Reporting == INSTANCE MetricsReports WITH
  Nodes <- {"a", "b"}, Ips <- {"ip"}, Apps <- {"app"}, Aggregators <- {"a"}, MinCount <- 1,
  MaxTime <- 2, MaxPasses <- 2, Interval <- 1, Hour <- 1, Day <- 1, Month <- 2, Week <- 2,
  Limit <- 1, AnswerTtl <- 1, LastDays <- 2, MaxRequests <- 1, MaxFails <- 0, MaxSyncs <- 1
Scans == INSTANCE Balances WITH
  Users <- {"u"}, Own <- [u \in {"u"} |-> "own"], Safety <- 1, MinChunk <- 1, MaxChunk <- 2,
  StartChunk <- 1, MaxLazy <- 1, Depth <- 2, MaxTransfers <- 1, Wallets <- {"own"}, MaxBlock <- 3,
  MaxChanges <- 0, MaxFaults <- 1
Refreshes == INSTANCE Balances WITH
  Users <- {"u"}, Own <- [u \in {"u"} |-> "own"], Safety <- 1, MinChunk <- 1, MaxChunk <- 2,
  StartChunk <- 1, MaxLazy <- 1, Depth <- 2, MaxTransfers <- 1, Wallets <- {"own", "other"},
  MaxBlock <- 1, MaxChanges <- 1, MaxFaults <- 0
PlayCounts == INSTANCE Plays WITH
  Hour <- 1, Month <- 2, MaxNewPlays <- 1, BatchSize <- 1, HistoryLimit <- 1, Cutoff <- 0,
  MaxPrune <- 1, MaxTime <- 1, Users <- {}, Tracks <- {"a"},
  Running <- {"hourly_play_counts", "aggregate_monthly_plays"}, MaxPlays <- 2, MaxFaults <- 1
Histories == INSTANCE Plays WITH
  Hour <- 1, Month <- 2, MaxNewPlays <- 1, BatchSize <- 1, HistoryLimit <- 1, Cutoff <- 0,
  MaxPrune <- 1, MaxTime <- 1, Users <- {"u"}, Tracks <- {"a", "b"},
  Running <- {"user_listening_history"}, MaxPlays <- 3, MaxFaults <- 0
Premium == INSTANCE Premium WITH
  Users <- Gate!Fans, WalletOf <- Gate!Own, Wallets <- Gate!Associable, Nfts <- Gate!Tokens,
  Holders <- Gate!Owners, InitialTracks <- Gate!Tracks, Edits <- Gate!Edits, MaxChanges <- 2
Support == INSTANCE Tips WITH
  Follows <- {<<3, 1>>}, LeaderboardSize <- 1, MaxFetch <- 1, Users <- 1..3, Amounts <- 1..2,
  MaxTips <- 2, MaxSlot <- 2, MaxReactions <- 0, MaxFaults <- 1
Reacting == INSTANCE Tips WITH
  Follows <- {<<3, 1>>}, LeaderboardSize <- 1, MaxFetch <- 1, Users <- 1..2, Amounts <- {1},
  MaxTips <- 1, MaxSlot <- 1, MaxReactions <- 3, MaxFaults <- 0
NodeUsers == INSTANCE ContentNodes WITH
  Endpoints <- {"d"}, InitialRegistry <- <<"a", "b", "c", "e">>,
  InitialReplicas <- [u \in 1..3 |-> IF u = 2 THEN <<2, 3, 4>> ELSE <<1, 2, 3>>],
  NewReplicas <- {<<2, 3, 4>>, <<2, 3, 1>>}, Workers <- {}, Asking <- "a", MaxUsers <- 1,
  MaxChanges <- 1
Availability == INSTANCE Availability WITH
  Endpoints <- {}, InitialRegistry <- <<"a", "b", "c">>,
  InitialReplicas <- [u \in {1} |-> <<1, 2, 3>>], NewReplicas <- {}, Workers <- {}, Asking <- "a",
  MaxUsers <- 1, MaxChanges <- 0, Owner <- [t \in {1} |-> 1],
  InitialBlacklist <- <<{1}, {1}, {1}>>, BatchSize <- 1, MaxPasses <- 2, MaxExpiries <- 1
Moving == INSTANCE Availability WITH
  Endpoints <- {}, InitialRegistry <- <<"a", "b", "c">>,
  InitialReplicas <- [u \in {1} |-> <<1, 2, 3>>], NewReplicas <- {<<2, 1, 3>>}, Workers <- {},
  Asking <- "a", MaxUsers <- 1, MaxChanges <- 1, Owner <- [t \in 1..2 |-> 1],
  InitialBlacklist <- [id \in 1..3 |-> 1..2], BatchSize <- 1, MaxPasses <- 1, MaxExpiries <- 0
CidMetadata == INSTANCE CidMetadata WITH
  Endpoints <- {}, InitialRegistry <- <<"a", "b">>, InitialReplicas <- [u \in {1} |-> <<1>>],
  NewReplicas <- {}, Workers <- {"w"}, Asking <- "a", MaxUsers <- 1, MaxChanges <- 1,
  Blocks <- Files!Blocks, Content <- Files!Content, InitialFiles <- Files!Files, MaxFetches <- 2
Rewards == INSTANCE TrendingRewards WITH
  Tracks <- {"a"},
  Owner <- [x \in {"a", "p", "q", "r"} |-> CASE x = "r" -> 3 [] x = "p" -> 2 [] OTHER -> 1],
  Contents <- [x \in {"p", "q", "r"} |-> <<"a">>], Unranked <- {3}, MinTracks <- 1, MinOthers <- 1,
  Top <- 1, MaxEvents <- 1, MaxRankings <- 1,
  Calendar <- <<[date |-> 1, hour |-> TRUE], [date |-> 1, hour |-> TRUE], [date |-> 2, hour |-> TRUE]>>,
  MaxHidden <- 0, MaxFails <- 1
HiddenWinners == INSTANCE TrendingRewards WITH
  Tracks <- {"a"},
  Owner <- [x \in {"a", "p", "q", "r"} |-> CASE x = "r" -> 3 [] x = "p" -> 2 [] OTHER -> 1],
  Contents <- [x \in {"p", "q", "r"} |-> <<"a">>], Unranked <- {3}, MinTracks <- 1, MinOthers <- 1,
  Top <- 1, MaxEvents <- 1, MaxRankings <- 1,
  Calendar <- <<[date |-> 1, hour |-> TRUE], [date |-> 1, hour |-> TRUE], [date |-> 1, hour |-> FALSE]>>,
  MaxHidden <- 1, MaxFails <- 0
Claims == INSTANCE RewardClaims WITH
  Users <- {1}, Alphabet <- Prizes!Ids, Releases <- Prizes!Releases, Extras <- {1, 2},
  Oracles <- {"o", "p"}, Limit <- 1, MaxBlock <- 1, MaxRows <- 2, MaxChanges <- 1
Backfills == INSTANCE ProfileBackfill WITH
  OldRows <- 1..3, Height <- 3, BlockInterval <- 2, Backfill <- 1, MaxBlocks <- 1, MaxReverts <- 2,
  MaxFaults <- 1

----------------------------------------------------------------------------
(* The variables by the components that have them (OfX), and their absence *)
(* (NoX).  OnlyX and BesideX: nothing but what component X keeps.          *)
OfSolanaIndexing ==
  <<indexer, table>>
NoSolanaIndexing ==
  /\ indexer = 0 /\ table = 0
OfSolanaIndexingAvailability ==
  <<lock, expiries>>
NoSolanaIndexingAvailability ==
  /\ lock = 0 /\ expiries = 0
OfChallenges ==
  <<acts, world, partial>>
NoChallenges ==
  /\ acts = 0 /\ world = 0 /\ partial = 0
OfSkipConsensus ==
  <<height, hollow, skipped, err, failed>>
NoSkipConsensus ==
  /\ height = 0 /\ hollow = 0 /\ skipped = 0 /\ err = 0 /\ failed = 0
OfNotifications ==
  <<head, marks, balance, milestones>>
NoNotifications ==
  /\ head = 0 /\ marks = 0 /\ balance = 0 /\ milestones = 0
OfNotificationsSlotNotifications ==
  <<from, window, got>>
NoNotificationsSlotNotifications ==
  /\ from = 0 /\ window = 0 /\ got = 0
OfSlotNotifications ==
  <<now, keys, agg, tipsUpTo, ranks>>
NoSlotNotifications ==
  /\ now = 0 /\ keys = 0 /\ agg = 0 /\ tipsUpTo = 0 /\ ranks = 0
OfTrending ==
  <<time, public, last, notified>>
NoTrending ==
  /\ time = 0 /\ public = 0 /\ last = 0 /\ notified = 0
OfCatalogApi ==
  <<saves, reposts, subscriptions, aggregate_track, aggregate_playlist,
    aggregate_plays, computing>>
NoCatalogApi ==
  /\ saves = 0 /\ reposts = 0 /\ subscriptions = 0 /\ aggregate_track = 0
  /\ aggregate_playlist = 0 /\ aggregate_plays = 0 /\ computing = 0
OfMetrics ==
  <<personal, summed, merged, visited, hits, served, taken>>
NoMetrics ==
  /\ personal = 0 /\ summed = 0 /\ merged = 0 /\ visited = 0 /\ hits = 0
  /\ served = 0 /\ taken = 0
OfBalances ==
  <<sol, assoc, change, lazy, immediate, stored, scan, refresh>>
NoBalances ==
  /\ sol = 0 /\ assoc = 0 /\ change = 0 /\ lazy = 0 /\ immediate = 0
  /\ stored = 0 /\ scan = 0 /\ refresh = 0
OfPlays ==
  <<plays, archive, unborn, listens, hourly, monthly, history>>
NoPlays ==
  /\ plays = 0 /\ archive = 0 /\ unborn = 0 /\ listens = 0 /\ hourly = 0
  /\ monthly = 0 /\ history = 0
OfPremium ==
  <<associated, holder, stream, met>>
NoPremium ==
  /\ associated = 0 /\ holder = 0 /\ stream = 0 /\ met = 0
OfTips ==
  <<user_tips, aggregate_user_tips, rank_ups, tips_checkpoint, updating,
    board, late, posting, posted, reactions, reactions_checkpoint, missed>>
NoTips ==
  /\ user_tips = 0 /\ aggregate_user_tips = 0 /\ rank_ups = 0
  /\ tips_checkpoint = 0 /\ updating = 0 /\ board = 0 /\ late = 0
  /\ posting = 0 /\ posted = 0 /\ reactions = 0 /\ reactions_checkpoint = 0
  /\ missed = 0
OfContentNodesAvailabilityCidMetadata ==
  <<registry, known, peers, pages, walk, steady>>
NoContentNodesAvailabilityCidMetadata ==
  /\ registry = 0 /\ known = 0 /\ peers = 0 /\ pages = 0 /\ walk = 0
  /\ steady = 0
OfAvailability ==
  <<blacklist, unavailable, all, passes, told>>
NoAvailability ==
  /\ blacklist = 0 /\ unavailable = 0 /\ all = 0 /\ passes = 0 /\ told = 0
OfCidMetadata ==
  <<files, cid_data, applied, heard, fetches>>
NoCidMetadata ==
  /\ files = 0 /\ cid_data = 0 /\ applied = 0 /\ heard = 0 /\ fetches = 0
OfTrendingRewards ==
  <<shown, rankings, tasks, results>>
NoTrendingRewards ==
  /\ shown = 0 /\ rankings = 0 /\ tasks = 0 /\ results = 0
OfRewardClaims ==
  <<server, worker, verified, deactivated, banks, oracles, everOracles,
    signed, transfers>>
NoRewardClaims ==
  /\ server = 0 /\ worker = 0 /\ verified = 0 /\ deactivated = 0
  /\ banks = 0 /\ oracles = 0 /\ everOracles = 0 /\ signed = 0
  /\ transfers = 0
OfProfileBackfill ==
  <<current, task, dispatched, lost>>
NoProfileBackfill ==
  /\ current = 0 /\ task = 0 /\ dispatched = 0 /\ lost = 0

BesideEntityManager ==
  <<OfSolanaIndexing, chain, tips, scanned, cache, job,
    OfSolanaIndexingAvailability, fails, OfChallenges, queue, rows, paid,
    env, OfSkipConsensus, pass, OfNotifications, tracks, playlists,
    OfNotificationsSlotNotifications, OfSlotNotifications, OfTrending,
    cached, users, follows, OfCatalogApi, aggregate_user, block, clock,
    OfMetrics, counts, answers, excused, OfBalances, OfPlays, checkpoint,
    OfPremium, kept, changes, OfTips,
    OfContentNodesAvailabilityCidMetadata, OfAvailability, OfCidMetadata,
    OfTrendingRewards, challenges, OfRewardClaims, OfProfileBackfill>>
OnlyEntityManager ==
  /\ NoSolanaIndexing /\ chain = 0 /\ tips = 0 /\ scanned = 0 /\ cache = 0
  /\ job = 0 /\ NoSolanaIndexingAvailability /\ fails = 0 /\ NoChallenges
  /\ queue = 0 /\ rows = 0 /\ paid = 0 /\ env = 0 /\ NoSkipConsensus
  /\ pass = 0 /\ NoNotifications /\ tracks = 0 /\ playlists = 0
  /\ NoNotificationsSlotNotifications /\ NoSlotNotifications /\ NoTrending
  /\ cached = 0 /\ users = 0 /\ follows = 0 /\ NoCatalogApi
  /\ aggregate_user = 0 /\ block = 0 /\ clock = 0 /\ NoMetrics
  /\ counts = 0 /\ answers = 0 /\ excused = 0 /\ NoBalances /\ NoPlays
  /\ checkpoint = 0 /\ NoPremium /\ kept = 0 /\ changes = 0 /\ NoTips
  /\ NoContentNodesAvailabilityCidMetadata /\ NoAvailability
  /\ NoCidMetadata /\ NoTrendingRewards /\ challenges = 0 /\ NoRewardClaims
  /\ NoProfileBackfill
BesideSolanaIndexing ==
  <<db, events, OfChallenges, queue, rows, paid, env, OfSkipConsensus,
    pass, OfNotifications, tracks, playlists,
    OfNotificationsSlotNotifications, OfSlotNotifications, OfTrending,
    cached, users, follows, OfCatalogApi, aggregate_user, block, clock,
    OfMetrics, counts, answers, excused, OfBalances, OfPlays, checkpoint,
    OfPremium, kept, changes, OfTips,
    OfContentNodesAvailabilityCidMetadata, OfAvailability, OfCidMetadata,
    OfTrendingRewards, challenges, OfRewardClaims, OfProfileBackfill>>
OnlySolanaIndexing ==
  /\ db = 0 /\ events = 0 /\ NoChallenges /\ queue = 0 /\ rows = 0
  /\ paid = 0 /\ env = 0 /\ NoSkipConsensus /\ pass = 0 /\ NoNotifications
  /\ tracks = 0 /\ playlists = 0 /\ NoNotificationsSlotNotifications
  /\ NoSlotNotifications /\ NoTrending /\ cached = 0 /\ users = 0
  /\ follows = 0 /\ NoCatalogApi /\ aggregate_user = 0 /\ block = 0
  /\ clock = 0 /\ NoMetrics /\ counts = 0 /\ answers = 0 /\ excused = 0
  /\ NoBalances /\ NoPlays /\ checkpoint = 0 /\ NoPremium /\ kept = 0
  /\ changes = 0 /\ NoTips /\ NoContentNodesAvailabilityCidMetadata
  /\ NoAvailability /\ NoCidMetadata /\ NoTrendingRewards /\ challenges = 0
  /\ NoRewardClaims /\ NoProfileBackfill
BesideChallenges ==
  <<db, events, OfSolanaIndexing, chain, tips, scanned, cache, job,
    OfSolanaIndexingAvailability, fails, OfSkipConsensus, pass,
    OfNotifications, tracks, playlists, OfNotificationsSlotNotifications,
    OfSlotNotifications, OfTrending, cached, users, follows, OfCatalogApi,
    aggregate_user, block, clock, OfMetrics, counts, answers, excused,
    OfBalances, OfPlays, checkpoint, OfPremium, kept, changes, OfTips,
    OfContentNodesAvailabilityCidMetadata, OfAvailability, OfCidMetadata,
    OfTrendingRewards, challenges, OfRewardClaims, OfProfileBackfill>>
OnlyChallenges ==
  /\ db = 0 /\ events = 0 /\ NoSolanaIndexing /\ chain = 0 /\ tips = 0
  /\ scanned = 0 /\ cache = 0 /\ job = 0 /\ NoSolanaIndexingAvailability
  /\ fails = 0 /\ NoSkipConsensus /\ pass = 0 /\ NoNotifications
  /\ tracks = 0 /\ playlists = 0 /\ NoNotificationsSlotNotifications
  /\ NoSlotNotifications /\ NoTrending /\ cached = 0 /\ users = 0
  /\ follows = 0 /\ NoCatalogApi /\ aggregate_user = 0 /\ block = 0
  /\ clock = 0 /\ NoMetrics /\ counts = 0 /\ answers = 0 /\ excused = 0
  /\ NoBalances /\ NoPlays /\ checkpoint = 0 /\ NoPremium /\ kept = 0
  /\ changes = 0 /\ NoTips /\ NoContentNodesAvailabilityCidMetadata
  /\ NoAvailability /\ NoCidMetadata /\ NoTrendingRewards /\ challenges = 0
  /\ NoRewardClaims /\ NoProfileBackfill
BesideSkipConsensus ==
  <<db, events, OfSolanaIndexing, chain, tips, scanned, cache, job,
    OfSolanaIndexingAvailability, fails, OfChallenges, queue, rows, paid,
    OfNotifications, tracks, playlists, OfNotificationsSlotNotifications,
    OfSlotNotifications, OfTrending, cached, users, follows, OfCatalogApi,
    aggregate_user, block, clock, OfMetrics, counts, answers, excused,
    OfBalances, OfPlays, checkpoint, OfPremium, kept, changes, OfTips,
    OfContentNodesAvailabilityCidMetadata, OfAvailability, OfCidMetadata,
    OfTrendingRewards, challenges, OfRewardClaims, OfProfileBackfill>>
OnlySkipConsensus ==
  /\ db = 0 /\ events = 0 /\ NoSolanaIndexing /\ chain = 0 /\ tips = 0
  /\ scanned = 0 /\ cache = 0 /\ job = 0 /\ NoSolanaIndexingAvailability
  /\ fails = 0 /\ NoChallenges /\ queue = 0 /\ rows = 0 /\ paid = 0
  /\ NoNotifications /\ tracks = 0 /\ playlists = 0
  /\ NoNotificationsSlotNotifications /\ NoSlotNotifications /\ NoTrending
  /\ cached = 0 /\ users = 0 /\ follows = 0 /\ NoCatalogApi
  /\ aggregate_user = 0 /\ block = 0 /\ clock = 0 /\ NoMetrics
  /\ counts = 0 /\ answers = 0 /\ excused = 0 /\ NoBalances /\ NoPlays
  /\ checkpoint = 0 /\ NoPremium /\ kept = 0 /\ changes = 0 /\ NoTips
  /\ NoContentNodesAvailabilityCidMetadata /\ NoAvailability
  /\ NoCidMetadata /\ NoTrendingRewards /\ challenges = 0 /\ NoRewardClaims
  /\ NoProfileBackfill
BesideNotifications ==
  <<db, OfSolanaIndexing, chain, tips, scanned, cache, job,
    OfSolanaIndexingAvailability, fails, OfChallenges, queue, rows, paid,
    env, OfSkipConsensus, pass, OfSlotNotifications, OfTrending, cached,
    users, follows, OfCatalogApi, aggregate_user, block, clock, OfMetrics,
    counts, answers, excused, OfBalances, OfPlays, checkpoint, OfPremium,
    kept, changes, OfTips, OfContentNodesAvailabilityCidMetadata,
    OfAvailability, OfCidMetadata, OfTrendingRewards, challenges,
    OfRewardClaims, OfProfileBackfill>>
OnlyNotifications ==
  /\ db = 0 /\ NoSolanaIndexing /\ chain = 0 /\ tips = 0 /\ scanned = 0
  /\ cache = 0 /\ job = 0 /\ NoSolanaIndexingAvailability /\ fails = 0
  /\ NoChallenges /\ queue = 0 /\ rows = 0 /\ paid = 0 /\ env = 0
  /\ NoSkipConsensus /\ pass = 0 /\ NoSlotNotifications /\ NoTrending
  /\ cached = 0 /\ users = 0 /\ follows = 0 /\ NoCatalogApi
  /\ aggregate_user = 0 /\ block = 0 /\ clock = 0 /\ NoMetrics
  /\ counts = 0 /\ answers = 0 /\ excused = 0 /\ NoBalances /\ NoPlays
  /\ checkpoint = 0 /\ NoPremium /\ kept = 0 /\ changes = 0 /\ NoTips
  /\ NoContentNodesAvailabilityCidMetadata /\ NoAvailability
  /\ NoCidMetadata /\ NoTrendingRewards /\ challenges = 0 /\ NoRewardClaims
  /\ NoProfileBackfill
BesideSlotNotifications ==
  <<db, events, OfSolanaIndexing, tips, scanned, cache,
    OfSolanaIndexingAvailability, OfChallenges, queue, paid, env,
    OfSkipConsensus, pass, OfNotifications, tracks, playlists, OfTrending,
    cached, users, follows, OfCatalogApi, aggregate_user, block, clock,
    OfMetrics, counts, answers, excused, OfBalances, OfPlays, checkpoint,
    OfPremium, kept, changes, OfTips,
    OfContentNodesAvailabilityCidMetadata, OfAvailability, OfCidMetadata,
    OfTrendingRewards, challenges, OfRewardClaims, OfProfileBackfill>>
OnlySlotNotifications ==
  /\ db = 0 /\ events = 0 /\ NoSolanaIndexing /\ tips = 0 /\ scanned = 0
  /\ cache = 0 /\ NoSolanaIndexingAvailability /\ NoChallenges /\ queue = 0
  /\ paid = 0 /\ env = 0 /\ NoSkipConsensus /\ pass = 0 /\ NoNotifications
  /\ tracks = 0 /\ playlists = 0 /\ NoTrending /\ cached = 0 /\ users = 0
  /\ follows = 0 /\ NoCatalogApi /\ aggregate_user = 0 /\ block = 0
  /\ clock = 0 /\ NoMetrics /\ counts = 0 /\ answers = 0 /\ excused = 0
  /\ NoBalances /\ NoPlays /\ checkpoint = 0 /\ NoPremium /\ kept = 0
  /\ changes = 0 /\ NoTips /\ NoContentNodesAvailabilityCidMetadata
  /\ NoAvailability /\ NoCidMetadata /\ NoTrendingRewards /\ challenges = 0
  /\ NoRewardClaims /\ NoProfileBackfill
BesideTrending ==
  <<db, events, OfSolanaIndexing, chain, tips, scanned, cache,
    OfSolanaIndexingAvailability, fails, OfChallenges, queue, rows, paid,
    OfSkipConsensus, pass, OfNotifications, tracks, playlists,
    OfNotificationsSlotNotifications, OfSlotNotifications, users, follows,
    OfCatalogApi, aggregate_user, block, clock, OfMetrics, counts, answers,
    excused, OfBalances, OfPlays, checkpoint, OfPremium, kept, changes,
    OfTips, OfContentNodesAvailabilityCidMetadata, OfAvailability,
    OfCidMetadata, OfTrendingRewards, challenges, OfRewardClaims,
    OfProfileBackfill>>
OnlyTrending ==
  /\ db = 0 /\ events = 0 /\ NoSolanaIndexing /\ chain = 0 /\ tips = 0
  /\ scanned = 0 /\ cache = 0 /\ NoSolanaIndexingAvailability /\ fails = 0
  /\ NoChallenges /\ queue = 0 /\ rows = 0 /\ paid = 0 /\ NoSkipConsensus
  /\ pass = 0 /\ NoNotifications /\ tracks = 0 /\ playlists = 0
  /\ NoNotificationsSlotNotifications /\ NoSlotNotifications /\ users = 0
  /\ follows = 0 /\ NoCatalogApi /\ aggregate_user = 0 /\ block = 0
  /\ clock = 0 /\ NoMetrics /\ counts = 0 /\ answers = 0 /\ excused = 0
  /\ NoBalances /\ NoPlays /\ checkpoint = 0 /\ NoPremium /\ kept = 0
  /\ changes = 0 /\ NoTips /\ NoContentNodesAvailabilityCidMetadata
  /\ NoAvailability /\ NoCidMetadata /\ NoTrendingRewards /\ challenges = 0
  /\ NoRewardClaims /\ NoProfileBackfill
BesideCatalogApi ==
  <<db, events, OfSolanaIndexing, chain, tips, scanned, job,
    OfSolanaIndexingAvailability, fails, OfChallenges, queue, rows, paid,
    env, OfSkipConsensus, pass, OfNotifications,
    OfNotificationsSlotNotifications, OfSlotNotifications, OfTrending,
    cached, clock, OfMetrics, counts, answers, excused, OfBalances,
    OfPlays, checkpoint, OfPremium, kept, changes, OfTips,
    OfContentNodesAvailabilityCidMetadata, OfAvailability, OfCidMetadata,
    OfTrendingRewards, challenges, OfRewardClaims, OfProfileBackfill>>
OnlyCatalogApi ==
  /\ db = 0 /\ events = 0 /\ NoSolanaIndexing /\ chain = 0 /\ tips = 0
  /\ scanned = 0 /\ job = 0 /\ NoSolanaIndexingAvailability /\ fails = 0
  /\ NoChallenges /\ queue = 0 /\ rows = 0 /\ paid = 0 /\ env = 0
  /\ NoSkipConsensus /\ pass = 0 /\ NoNotifications
  /\ NoNotificationsSlotNotifications /\ NoSlotNotifications /\ NoTrending
  /\ cached = 0 /\ clock = 0 /\ NoMetrics /\ counts = 0 /\ answers = 0
  /\ excused = 0 /\ NoBalances /\ NoPlays /\ checkpoint = 0 /\ NoPremium
  /\ kept = 0 /\ changes = 0 /\ NoTips
  /\ NoContentNodesAvailabilityCidMetadata /\ NoAvailability
  /\ NoCidMetadata /\ NoTrendingRewards /\ challenges = 0 /\ NoRewardClaims
  /\ NoProfileBackfill
BesideMetrics ==
  <<db, events, OfSolanaIndexing, chain, tips, scanned, cache,
    OfSolanaIndexingAvailability, fails, OfChallenges, queue, paid,
    OfSkipConsensus, pass, OfNotifications, tracks, playlists,
    OfNotificationsSlotNotifications, OfSlotNotifications, OfTrending,
    cached, users, follows, OfCatalogApi, aggregate_user, block,
    OfBalances, OfPlays, checkpoint, OfPremium, kept, changes, OfTips,
    OfContentNodesAvailabilityCidMetadata, OfAvailability, OfCidMetadata,
    OfTrendingRewards, challenges, OfRewardClaims, OfProfileBackfill>>
OnlyMetrics ==
  /\ db = 0 /\ events = 0 /\ NoSolanaIndexing /\ chain = 0 /\ tips = 0
  /\ scanned = 0 /\ cache = 0 /\ NoSolanaIndexingAvailability /\ fails = 0
  /\ NoChallenges /\ queue = 0 /\ paid = 0 /\ NoSkipConsensus /\ pass = 0
  /\ NoNotifications /\ tracks = 0 /\ playlists = 0
  /\ NoNotificationsSlotNotifications /\ NoSlotNotifications /\ NoTrending
  /\ cached = 0 /\ users = 0 /\ follows = 0 /\ NoCatalogApi
  /\ aggregate_user = 0 /\ block = 0 /\ NoBalances /\ NoPlays
  /\ checkpoint = 0 /\ NoPremium /\ kept = 0 /\ changes = 0 /\ NoTips
  /\ NoContentNodesAvailabilityCidMetadata /\ NoAvailability
  /\ NoCidMetadata /\ NoTrendingRewards /\ challenges = 0 /\ NoRewardClaims
  /\ NoProfileBackfill
BesideBalances ==
  <<db, events, OfSolanaIndexing, tips, cache, job,
    OfSolanaIndexingAvailability, fails, OfChallenges, queue, paid,
    OfSkipConsensus, pass, OfNotifications, tracks, playlists,
    OfNotificationsSlotNotifications, OfSlotNotifications, OfTrending,
    cached, users, follows, OfCatalogApi, aggregate_user, block, clock,
    OfMetrics, counts, answers, OfPlays, checkpoint, OfPremium, kept,
    changes, OfTips, OfContentNodesAvailabilityCidMetadata, OfAvailability,
    OfCidMetadata, OfTrendingRewards, challenges, OfRewardClaims,
    OfProfileBackfill>>
OnlyBalances ==
  /\ db = 0 /\ events = 0 /\ NoSolanaIndexing /\ tips = 0 /\ cache = 0
  /\ job = 0 /\ NoSolanaIndexingAvailability /\ fails = 0 /\ NoChallenges
  /\ queue = 0 /\ paid = 0 /\ NoSkipConsensus /\ pass = 0
  /\ NoNotifications /\ tracks = 0 /\ playlists = 0
  /\ NoNotificationsSlotNotifications /\ NoSlotNotifications /\ NoTrending
  /\ cached = 0 /\ users = 0 /\ follows = 0 /\ NoCatalogApi
  /\ aggregate_user = 0 /\ block = 0 /\ clock = 0 /\ NoMetrics
  /\ counts = 0 /\ answers = 0 /\ NoPlays /\ checkpoint = 0 /\ NoPremium
  /\ kept = 0 /\ changes = 0 /\ NoTips
  /\ NoContentNodesAvailabilityCidMetadata /\ NoAvailability
  /\ NoCidMetadata /\ NoTrendingRewards /\ challenges = 0 /\ NoRewardClaims
  /\ NoProfileBackfill
BesidePlays ==
  <<db, events, OfSolanaIndexing, chain, tips, scanned, cache, job,
    OfSolanaIndexingAvailability, fails, OfChallenges, queue, rows, paid,
    OfSkipConsensus, OfNotifications, tracks, playlists,
    OfNotificationsSlotNotifications, OfSlotNotifications, OfTrending,
    cached, users, follows, OfCatalogApi, aggregate_user, block, OfMetrics,
    counts, answers, OfBalances, OfPremium, kept, changes, OfTips,
    OfContentNodesAvailabilityCidMetadata, OfAvailability, OfCidMetadata,
    OfTrendingRewards, challenges, OfRewardClaims, OfProfileBackfill>>
OnlyPlays ==
  /\ db = 0 /\ events = 0 /\ NoSolanaIndexing /\ chain = 0 /\ tips = 0
  /\ scanned = 0 /\ cache = 0 /\ job = 0 /\ NoSolanaIndexingAvailability
  /\ fails = 0 /\ NoChallenges /\ queue = 0 /\ rows = 0 /\ paid = 0
  /\ NoSkipConsensus /\ NoNotifications /\ tracks = 0 /\ playlists = 0
  /\ NoNotificationsSlotNotifications /\ NoSlotNotifications /\ NoTrending
  /\ cached = 0 /\ users = 0 /\ follows = 0 /\ NoCatalogApi
  /\ aggregate_user = 0 /\ block = 0 /\ NoMetrics /\ counts = 0
  /\ answers = 0 /\ NoBalances /\ NoPremium /\ kept = 0 /\ changes = 0
  /\ NoTips /\ NoContentNodesAvailabilityCidMetadata /\ NoAvailability
  /\ NoCidMetadata /\ NoTrendingRewards /\ challenges = 0 /\ NoRewardClaims
  /\ NoProfileBackfill
BesidePremium ==
  <<db, events, OfSolanaIndexing, chain, scanned, cache, job,
    OfSolanaIndexingAvailability, fails, OfChallenges, queue, rows, paid,
    env, OfSkipConsensus, pass, OfNotifications, playlists,
    OfNotificationsSlotNotifications, OfSlotNotifications, OfTrending,
    cached, users, OfCatalogApi, aggregate_user, block, clock, OfMetrics,
    counts, answers, excused, OfBalances, OfPlays, checkpoint, OfTips,
    OfContentNodesAvailabilityCidMetadata, OfAvailability, OfCidMetadata,
    OfTrendingRewards, challenges, OfRewardClaims, OfProfileBackfill>>
OnlyPremium ==
  /\ db = 0 /\ events = 0 /\ NoSolanaIndexing /\ chain = 0 /\ scanned = 0
  /\ cache = 0 /\ job = 0 /\ NoSolanaIndexingAvailability /\ fails = 0
  /\ NoChallenges /\ queue = 0 /\ rows = 0 /\ paid = 0 /\ env = 0
  /\ NoSkipConsensus /\ pass = 0 /\ NoNotifications /\ playlists = 0
  /\ NoNotificationsSlotNotifications /\ NoSlotNotifications /\ NoTrending
  /\ cached = 0 /\ users = 0 /\ NoCatalogApi /\ aggregate_user = 0
  /\ block = 0 /\ clock = 0 /\ NoMetrics /\ counts = 0 /\ answers = 0
  /\ excused = 0 /\ NoBalances /\ NoPlays /\ checkpoint = 0 /\ NoTips
  /\ NoContentNodesAvailabilityCidMetadata /\ NoAvailability
  /\ NoCidMetadata /\ NoTrendingRewards /\ challenges = 0 /\ NoRewardClaims
  /\ NoProfileBackfill
BesideTips ==
  <<db, events, OfSolanaIndexing, chain, tips, scanned, cache, job,
    OfSolanaIndexingAvailability, fails, OfChallenges, queue, rows, paid,
    env, OfSkipConsensus, pass, OfNotifications, tracks, playlists,
    OfNotificationsSlotNotifications, OfSlotNotifications, OfTrending,
    cached, users, follows, OfCatalogApi, block, clock, OfMetrics, answers,
    excused, OfBalances, OfPlays, checkpoint, OfPremium, kept, changes,
    OfContentNodesAvailabilityCidMetadata, OfAvailability, OfCidMetadata,
    OfTrendingRewards, challenges, OfRewardClaims, OfProfileBackfill>>
OnlyTips ==
  /\ db = 0 /\ events = 0 /\ NoSolanaIndexing /\ chain = 0 /\ tips = 0
  /\ scanned = 0 /\ cache = 0 /\ job = 0 /\ NoSolanaIndexingAvailability
  /\ fails = 0 /\ NoChallenges /\ queue = 0 /\ rows = 0 /\ paid = 0
  /\ env = 0 /\ NoSkipConsensus /\ pass = 0 /\ NoNotifications
  /\ tracks = 0 /\ playlists = 0 /\ NoNotificationsSlotNotifications
  /\ NoSlotNotifications /\ NoTrending /\ cached = 0 /\ users = 0
  /\ follows = 0 /\ NoCatalogApi /\ block = 0 /\ clock = 0 /\ NoMetrics
  /\ answers = 0 /\ excused = 0 /\ NoBalances /\ NoPlays /\ checkpoint = 0
  /\ NoPremium /\ kept = 0 /\ changes = 0
  /\ NoContentNodesAvailabilityCidMetadata /\ NoAvailability
  /\ NoCidMetadata /\ NoTrendingRewards /\ challenges = 0 /\ NoRewardClaims
  /\ NoProfileBackfill
BesideContentNodes ==
  <<db, events, OfSolanaIndexing, chain, tips, scanned, cache, job,
    OfSolanaIndexingAvailability, fails, OfChallenges, queue, rows, paid,
    env, OfSkipConsensus, pass, OfNotifications, tracks, playlists,
    OfNotificationsSlotNotifications, OfSlotNotifications, OfTrending,
    cached, follows, OfCatalogApi, aggregate_user, block, clock, OfMetrics,
    counts, answers, excused, OfBalances, OfPlays, checkpoint, OfPremium,
    OfTips, OfAvailability, OfCidMetadata, OfTrendingRewards, challenges,
    OfRewardClaims, OfProfileBackfill>>
OnlyContentNodes ==
  /\ db = 0 /\ events = 0 /\ NoSolanaIndexing /\ chain = 0 /\ tips = 0
  /\ scanned = 0 /\ cache = 0 /\ job = 0 /\ NoSolanaIndexingAvailability
  /\ fails = 0 /\ NoChallenges /\ queue = 0 /\ rows = 0 /\ paid = 0
  /\ env = 0 /\ NoSkipConsensus /\ pass = 0 /\ NoNotifications
  /\ tracks = 0 /\ playlists = 0 /\ NoNotificationsSlotNotifications
  /\ NoSlotNotifications /\ NoTrending /\ cached = 0 /\ follows = 0
  /\ NoCatalogApi /\ aggregate_user = 0 /\ block = 0 /\ clock = 0
  /\ NoMetrics /\ counts = 0 /\ answers = 0 /\ excused = 0 /\ NoBalances
  /\ NoPlays /\ checkpoint = 0 /\ NoPremium /\ NoTips /\ NoAvailability
  /\ NoCidMetadata /\ NoTrendingRewards /\ challenges = 0 /\ NoRewardClaims
  /\ NoProfileBackfill
BesideAvailability ==
  <<db, events, OfSolanaIndexing, chain, tips, scanned, cache, job, fails,
    OfChallenges, queue, rows, paid, env, OfSkipConsensus, pass,
    OfNotifications, playlists, OfNotificationsSlotNotifications,
    OfSlotNotifications, OfTrending, cached, follows, OfCatalogApi,
    aggregate_user, block, clock, OfMetrics, counts, excused, OfBalances,
    OfPlays, checkpoint, OfPremium, OfTips, OfCidMetadata,
    OfTrendingRewards, challenges, OfRewardClaims, OfProfileBackfill>>
OnlyAvailability ==
  /\ db = 0 /\ events = 0 /\ NoSolanaIndexing /\ chain = 0 /\ tips = 0
  /\ scanned = 0 /\ cache = 0 /\ job = 0 /\ fails = 0 /\ NoChallenges
  /\ queue = 0 /\ rows = 0 /\ paid = 0 /\ env = 0 /\ NoSkipConsensus
  /\ pass = 0 /\ NoNotifications /\ playlists = 0
  /\ NoNotificationsSlotNotifications /\ NoSlotNotifications /\ NoTrending
  /\ cached = 0 /\ follows = 0 /\ NoCatalogApi /\ aggregate_user = 0
  /\ block = 0 /\ clock = 0 /\ NoMetrics /\ counts = 0 /\ excused = 0
  /\ NoBalances /\ NoPlays /\ checkpoint = 0 /\ NoPremium /\ NoTips
  /\ NoCidMetadata /\ NoTrendingRewards /\ challenges = 0 /\ NoRewardClaims
  /\ NoProfileBackfill
BesideCidMetadata ==
  <<db, events, OfSolanaIndexing, chain, tips, scanned, cache,
    OfSolanaIndexingAvailability, fails, OfChallenges, queue, rows, paid,
    env, OfSkipConsensus, pass, OfNotifications, tracks, playlists,
    OfNotificationsSlotNotifications, OfSlotNotifications, OfTrending,
    cached, follows, OfCatalogApi, aggregate_user, clock, OfMetrics,
    counts, answers, excused, OfBalances, OfPlays, checkpoint, OfPremium,
    OfTips, OfAvailability, OfTrendingRewards, challenges, OfRewardClaims,
    OfProfileBackfill>>
OnlyCidMetadata ==
  /\ db = 0 /\ events = 0 /\ NoSolanaIndexing /\ chain = 0 /\ tips = 0
  /\ scanned = 0 /\ cache = 0 /\ NoSolanaIndexingAvailability /\ fails = 0
  /\ NoChallenges /\ queue = 0 /\ rows = 0 /\ paid = 0 /\ env = 0
  /\ NoSkipConsensus /\ pass = 0 /\ NoNotifications /\ tracks = 0
  /\ playlists = 0 /\ NoNotificationsSlotNotifications
  /\ NoSlotNotifications /\ NoTrending /\ cached = 0 /\ follows = 0
  /\ NoCatalogApi /\ aggregate_user = 0 /\ clock = 0 /\ NoMetrics
  /\ counts = 0 /\ answers = 0 /\ excused = 0 /\ NoBalances /\ NoPlays
  /\ checkpoint = 0 /\ NoPremium /\ NoTips /\ NoAvailability
  /\ NoTrendingRewards /\ challenges = 0 /\ NoRewardClaims
  /\ NoProfileBackfill
BesideTrendingRewards ==
  <<db, events, OfSolanaIndexing, chain, tips, scanned, cache,
    OfSolanaIndexingAvailability, fails, OfChallenges, rows, paid,
    OfSkipConsensus, pass, OfNotifications, tracks, playlists,
    OfNotificationsSlotNotifications, OfSlotNotifications, OfTrending,
    cached, users, follows, OfCatalogApi, aggregate_user, block, OfMetrics,
    counts, answers, excused, OfBalances, OfPlays, checkpoint, OfPremium,
    kept, changes, OfTips, OfContentNodesAvailabilityCidMetadata,
    OfAvailability, OfCidMetadata, OfRewardClaims, OfProfileBackfill>>
OnlyTrendingRewards ==
  /\ db = 0 /\ events = 0 /\ NoSolanaIndexing /\ chain = 0 /\ tips = 0
  /\ scanned = 0 /\ cache = 0 /\ NoSolanaIndexingAvailability /\ fails = 0
  /\ NoChallenges /\ rows = 0 /\ paid = 0 /\ NoSkipConsensus /\ pass = 0
  /\ NoNotifications /\ tracks = 0 /\ playlists = 0
  /\ NoNotificationsSlotNotifications /\ NoSlotNotifications /\ NoTrending
  /\ cached = 0 /\ users = 0 /\ follows = 0 /\ NoCatalogApi
  /\ aggregate_user = 0 /\ block = 0 /\ NoMetrics /\ counts = 0
  /\ answers = 0 /\ excused = 0 /\ NoBalances /\ NoPlays /\ checkpoint = 0
  /\ NoPremium /\ kept = 0 /\ changes = 0 /\ NoTips
  /\ NoContentNodesAvailabilityCidMetadata /\ NoAvailability
  /\ NoCidMetadata /\ NoRewardClaims /\ NoProfileBackfill
BesideRewardClaims ==
  <<db, events, OfSolanaIndexing, chain, tips, scanned, cache, job,
    OfSolanaIndexingAvailability, fails, OfChallenges, queue, env,
    OfSkipConsensus, pass, OfNotifications, tracks, playlists,
    OfNotificationsSlotNotifications, OfSlotNotifications, OfTrending,
    users, follows, OfCatalogApi, aggregate_user, block, clock, OfMetrics,
    counts, answers, excused, OfBalances, OfPlays, checkpoint, OfPremium,
    kept, OfTips, OfContentNodesAvailabilityCidMetadata, OfAvailability,
    OfCidMetadata, OfTrendingRewards, OfProfileBackfill>>
OnlyRewardClaims ==
  /\ db = 0 /\ events = 0 /\ NoSolanaIndexing /\ chain = 0 /\ tips = 0
  /\ scanned = 0 /\ cache = 0 /\ job = 0 /\ NoSolanaIndexingAvailability
  /\ fails = 0 /\ NoChallenges /\ queue = 0 /\ env = 0 /\ NoSkipConsensus
  /\ pass = 0 /\ NoNotifications /\ tracks = 0 /\ playlists = 0
  /\ NoNotificationsSlotNotifications /\ NoSlotNotifications /\ NoTrending
  /\ users = 0 /\ follows = 0 /\ NoCatalogApi /\ aggregate_user = 0
  /\ block = 0 /\ clock = 0 /\ NoMetrics /\ counts = 0 /\ answers = 0
  /\ excused = 0 /\ NoBalances /\ NoPlays /\ checkpoint = 0 /\ NoPremium
  /\ kept = 0 /\ NoTips /\ NoContentNodesAvailabilityCidMetadata
  /\ NoAvailability /\ NoCidMetadata /\ NoTrendingRewards
  /\ NoProfileBackfill
BesideProfileBackfill ==
  <<db, events, OfSolanaIndexing, chain, tips, scanned, cache, job,
    OfSolanaIndexingAvailability, fails, OfChallenges, queue, paid,
    OfSkipConsensus, pass, OfNotifications, tracks, playlists,
    OfNotificationsSlotNotifications, OfSlotNotifications, OfTrending,
    cached, users, follows, OfCatalogApi, aggregate_user, block, clock,
    OfMetrics, counts, answers, excused, OfBalances, OfPlays, OfPremium,
    kept, changes, OfTips, OfContentNodesAvailabilityCidMetadata,
    OfAvailability, OfCidMetadata, OfTrendingRewards, challenges,
    OfRewardClaims>>
OnlyProfileBackfill ==
  /\ db = 0 /\ events = 0 /\ NoSolanaIndexing /\ chain = 0 /\ tips = 0
  /\ scanned = 0 /\ cache = 0 /\ job = 0 /\ NoSolanaIndexingAvailability
  /\ fails = 0 /\ NoChallenges /\ queue = 0 /\ paid = 0 /\ NoSkipConsensus
  /\ pass = 0 /\ NoNotifications /\ tracks = 0 /\ playlists = 0
  /\ NoNotificationsSlotNotifications /\ NoSlotNotifications /\ NoTrending
  /\ cached = 0 /\ users = 0 /\ follows = 0 /\ NoCatalogApi
  /\ aggregate_user = 0 /\ block = 0 /\ clock = 0 /\ NoMetrics
  /\ counts = 0 /\ answers = 0 /\ excused = 0 /\ NoBalances /\ NoPlays
  /\ NoPremium /\ kept = 0 /\ changes = 0 /\ NoTips
  /\ NoContentNodesAvailabilityCidMetadata /\ NoAvailability
  /\ NoCidMetadata /\ NoTrendingRewards /\ challenges = 0 /\ NoRewardClaims

DiscoveryInit ==
  \/ part = "entities" /\ Entities!Init /\ OnlyEntityManager
  \/ part = "solana" /\ Solana!Init /\ OnlySolanaIndexing
  \/ part = "overlaps" /\ Overlaps!Init /\ OnlySolanaIndexing
  \/ part = "challenges" /\ Challenges!Init /\ OnlyChallenges
  \/ part = "skipping" /\ Skipping!Init /\ OnlySkipConsensus
  \/ part = "notifications" /\ Notifications!Init /\ OnlyNotifications
  \/ part = "cutover" /\ Cutover!Init /\ OnlyNotifications
  \/ part = "slots" /\ Slots!Init /\ OnlySlotNotifications
  \/ part = "slot_failures" /\ SlotFailures!Init /\ OnlySlotNotifications
  \/ part = "trending" /\ Trending!Init /\ OnlyTrending
  \/ part = "catalog" /\ Listings!Init /\ OnlyCatalogApi
  \/ part = "api_cache" /\ Cached!Init /\ OnlyCatalogApi
  \/ part = "metrics" /\ Counting!Init /\ OnlyMetrics
  \/ part = "reports" /\ Reporting!Init /\ OnlyMetrics
  \/ part = "scanning" /\ Scans!Init /\ OnlyBalances
  \/ part = "refreshing" /\ Refreshes!Init /\ OnlyBalances
  \/ part = "play_counts" /\ PlayCounts!Init /\ OnlyPlays
  \/ part = "histories" /\ Histories!Init /\ OnlyPlays
  \/ part = "premium" /\ Premium!Init /\ OnlyPremium
  \/ part = "tips" /\ Support!Init /\ OnlyTips
  \/ part = "reactions" /\ Reacting!Init /\ OnlyTips
  \/ part = "node_users" /\ NodeUsers!NodesInit /\ OnlyContentNodes
  \/ part = "availability" /\ Availability!Init /\ OnlyAvailability
  \/ part = "moving" /\ Moving!Init /\ OnlyAvailability
  \/ part = "cid_metadata" /\ CidMetadata!Init /\ OnlyCidMetadata
  \/ part = "rewards" /\ Rewards!Init /\ OnlyTrendingRewards
  \/ part = "hidden_winners" /\ HiddenWinners!Init /\ OnlyTrendingRewards
  \/ part = "claims" /\ Claims!Init /\ OnlyRewardClaims
  \/ part = "backfill" /\ Backfills!Init /\ OnlyProfileBackfill

EntitiesStep(A) == part = "entities" /\ A /\ UNCHANGED <<part, BesideEntityManager>>
SolanaStep(A) == part = "solana" /\ A /\ UNCHANGED <<part, BesideSolanaIndexing>>
OverlapsStep(A) == part = "overlaps" /\ A /\ UNCHANGED <<part, BesideSolanaIndexing>>
ChallengesStep(A) == part = "challenges" /\ A /\ UNCHANGED <<part, BesideChallenges>>
SkippingStep(A) == part = "skipping" /\ A /\ UNCHANGED <<part, BesideSkipConsensus>>
NotificationsStep(A) == part = "notifications" /\ A /\ UNCHANGED <<part, BesideNotifications>>
CutoverStep(A) == part = "cutover" /\ A /\ UNCHANGED <<part, BesideNotifications>>
SlotsStep(A) == part = "slots" /\ A /\ UNCHANGED <<part, BesideSlotNotifications>>
SlotFailuresStep(A) == part = "slot_failures" /\ A /\ UNCHANGED <<part, BesideSlotNotifications>>
TrendingStep(A) == part = "trending" /\ A /\ UNCHANGED <<part, BesideTrending>>
ListingsStep(A) == part = "catalog" /\ A /\ UNCHANGED <<part, BesideCatalogApi>>
CachedStep(A) == part = "api_cache" /\ A /\ UNCHANGED <<part, BesideCatalogApi>>
CountingStep(A) == part = "metrics" /\ A /\ UNCHANGED <<part, BesideMetrics>>
ReportingStep(A) == part = "reports" /\ A /\ UNCHANGED <<part, BesideMetrics>>
ScansStep(A) == part = "scanning" /\ A /\ UNCHANGED <<part, BesideBalances>>
RefreshesStep(A) == part = "refreshing" /\ A /\ UNCHANGED <<part, BesideBalances>>
PlayCountsStep(A) == part = "play_counts" /\ A /\ UNCHANGED <<part, BesidePlays>>
HistoriesStep(A) == part = "histories" /\ A /\ UNCHANGED <<part, BesidePlays>>
PremiumStep(A) == part = "premium" /\ A /\ UNCHANGED <<part, BesidePremium>>
SupportStep(A) == part = "tips" /\ A /\ UNCHANGED <<part, BesideTips>>
ReactingStep(A) == part = "reactions" /\ A /\ UNCHANGED <<part, BesideTips>>
NodeUsersStep(A) == part = "node_users" /\ A /\ UNCHANGED <<part, BesideContentNodes>>
AvailabilityStep(A) == part = "availability" /\ A /\ UNCHANGED <<part, BesideAvailability>>
MovingStep(A) == part = "moving" /\ A /\ UNCHANGED <<part, BesideAvailability>>
CidMetadataStep(A) == part = "cid_metadata" /\ A /\ UNCHANGED <<part, BesideCidMetadata>>
RewardsStep(A) == part = "rewards" /\ A /\ UNCHANGED <<part, BesideTrendingRewards>>
HiddenWinnersStep(A) == part = "hidden_winners" /\ A /\ UNCHANGED <<part, BesideTrendingRewards>>
ClaimsStep(A) == part = "claims" /\ A /\ UNCHANGED <<part, BesideRewardClaims>>
BackfillsStep(A) == part = "backfill" /\ A /\ UNCHANGED <<part, BesideProfileBackfill>>
DiscoveryNext ==
  \/ EntitiesStep(Entities!Next)
  \/ SolanaStep(Solana!Next)
  \/ OverlapsStep(Overlaps!Next)
  \/ ChallengesStep(Challenges!Next)
  \/ SkippingStep(Skipping!Next)
  \/ NotificationsStep(Notifications!Next)
  \/ CutoverStep(Cutover!Next)
  \/ SlotsStep(Slots!Next)
  \/ SlotFailuresStep(SlotFailures!Next)
  \/ TrendingStep(Trending!Next)
  \/ ListingsStep(Listings!Next)
  \/ CachedStep(Cached!Next)
  \/ CountingStep(Counting!Next)
  \/ ReportingStep(Reporting!Next)
  \/ ScansStep(Scans!Next)
  \/ RefreshesStep(Refreshes!Next)
  \/ PlayCountsStep(PlayCounts!Next)
  \/ HistoriesStep(Histories!Next)
  \/ PremiumStep(Premium!Next)
  \/ SupportStep(Support!Next)
  \/ ReactingStep(Reacting!Next)
  \/ NodeUsersStep(NodeUsers!NodesNext)
  \/ AvailabilityStep(Availability!Next)
  \/ MovingStep(Moving!Next)
  \/ CidMetadataStep(CidMetadata!Next)
  \/ RewardsStep(Rewards!Next)
  \/ HiddenWinnersStep(HiddenWinners!Next)
  \/ ClaimsStep(Claims!Next)
  \/ BackfillsStep(Backfills!Next)

(* Tasks are started again and again, and what they do goes on. *)
DiscoverySpec ==
  /\ DiscoveryInit /\ [][DiscoveryNext]_allVars
  /\ WF_<<job, lock>>(\/ part = "solana" /\ Solana!GoOn
                      \/ part = "overlaps" /\ Overlaps!GoOn)
  /\ \A n \in 1..3 : WF_<<height, pass>>(part = "skipping" /\ Skipping!Pass(n))
  /\ WF_<<last, job, cached, notified>>(part = "trending" /\ Trending!Pass)

----------------------------------------------------------------------------
(* The type invariants of the components. *)
TypesOK ==
  /\ part = "entities" => Entities!TypeOK
  /\ part = "solana" => Solana!TypeOK
  /\ part = "overlaps" => Overlaps!TypeOK
  /\ part = "challenges" => Challenges!TypeOK
  /\ part = "skipping" => Skipping!TypeOK
  /\ part = "notifications" => Notifications!TypeOK
  /\ part = "cutover" => Cutover!TypeOK
  /\ part = "slots" => Slots!TypeOK
  /\ part = "slot_failures" => SlotFailures!TypeOK
  /\ part = "trending" => Trending!TypeOK
  /\ part = "rewards" => Rewards!TypeOK
  /\ part = "hidden_winners" => HiddenWinners!TypeOK
  /\ part = "catalog" => Listings!TypeOK
  /\ part = "api_cache" => Cached!TypeOK
  /\ part = "metrics" => Counting!TypeOK
  /\ part = "reports" => Reporting!TypeOK
  /\ part = "scanning" => Scans!TypeOK
  /\ part = "refreshing" => Refreshes!TypeOK
  /\ part = "claims" => Claims!TypeOK
  /\ part = "backfill" => Backfills!TypeOK
  /\ part = "play_counts" => PlayCounts!TypeOK
  /\ part = "histories" => Histories!TypeOK
  /\ part = "premium" => Premium!TypeOK
  /\ part = "tips" => Support!TypeOK
  /\ part = "reactions" => Reacting!TypeOK
  /\ part = "node_users" => NodeUsers!NodesTypeOK
  /\ part = "availability" => Availability!TypeOK
  /\ part = "moving" => Moving!TypeOK
  /\ part = "cid_metadata" => CidMetadata!TypeOK

(* The properties of the components, stated there with the code they are   *)
(* about.                                                                  *)

(* Blocks of ManageEntity transactions (entity_manager.py). *)
OneCurrentVersion ==
  part = "entities" =>
    /\ Entities!OneCurrentVersion /\ Entities!RemixesMatch /\ Entities!WalletOwnedOnce
    /\ Entities!SlugsUnique /\ Entities!OneCurrentRoute

(* The tasks that commit a page of Solana transactions at once             *)
(* (index_rewards_manager.py, index_user_bank.py).                         *)
IndexedOnce ==
  /\ part = "solana" => Solana!IndexedOnce
  /\ part = "overlaps" => Overlaps!IndexedOnce
EventuallyIndexed ==
  <>[](/\ part = "solana" /\ Solana!Pages => Solana!AllIndexed
       /\ part = "overlaps" => Overlaps!AllIndexed)

(* Challenge rows (challenge.py, challenge_event_bus.py). *)
RetriesHarmless ==
  part = "challenges" => Challenges!RetriesHarmless /\ Challenges!ReferralsCapped
CompletedOnceByRows ==
  [][part = "challenges" => Challenges!KeepsCompleted /\ Challenges!CompletesByRows]_allVars

(* Consensus on failing blocks (confirm_indexing_transaction_error.py). *)
SkippedFailedOnAll == part = "skipping" => Skipping!SkippedFailedOnAll
EveryoneGoesOn == <>[](part = "skipping" => Skipping!EveryoneOrHeldUp)

(* Windows of notifications (notifications.py), and old events for         *)
(* challenges (index_profile_challenge_backfill.py).                       *)
EventsDelivered ==
  /\ part = "notifications" => Notifications!EventsDelivered
  /\ part = "slots" => Slots!SlotEventsDelivered
  /\ part = "slot_failures" => SlotFailures!SlotEventsDelivered
  /\ part = "backfill" => Backfills!NothingPassedOver

(* Rankings (index_trending.py). *)
TrendingCatchesUp == <>[](part = "trending" => Trending!UpToDate)

(* Rewards: winners of the week (trending_challenge.py,                    *)
(* calculate_trending_challenges.py), and what becomes of completed        *)
(* challenges (get_challenges.py, get_undisbursed_challenges.py,           *)
(* get_attestation.py).                                                    *)
RewardsAreRight ==
  /\ part = "rewards" => Rewards!OneWinnerPerRank /\ Rewards!EveryRankingRewarded
  /\ part = "hidden_winners" =>
       HiddenWinners!OneWinnerPerRank /\ HiddenWinners!EveryRankingRewarded
  /\ part = "claims" =>
       /\ Claims!PaidWhenEarned /\ Claims!ListedAreClaimable
       /\ Claims!ClaimableAreListed /\ Claims!ShownAsIs

(* Users, tracks and playlists as the API shows them (queries, api/v1,     *)
(* redis_cache.py).                                                        *)
NothingHiddenListed == part = "catalog" => Listings!NothingHiddenListed
FeedComplete == part = "catalog" => Listings!FeedComplete
ListsAndFlagsAgree == part = "catalog" => Listings!ListsAndFlagsAgree

(* Requests counted by all nodes (redis_metrics.py, index_metrics.py), and *)
(* what is reported of them (get_route_metrics.py).                        *)
CountedOnce ==
  /\ part = "metrics" => Counting!CountedOnce /\ Counting!AppsWithinRoutes
  /\ part = "reports" =>
       Reporting!CountedOnce /\ Reporting!ReportsAgree /\ Reporting!AppsWithinRoutes

(* Balances (event_scanner.py, cache_user_balance.py). *)
StaleIsQueued ==
  /\ part = "scanning" => Scans!StaleIsQueued
  /\ part = "refreshing" => Refreshes!StaleIsQueued

(* Plays (index_hourly_play_counts.py, index_aggregate_monthly_plays.py,   *)
(* index_user_listening_history.py, prune_plays.py).                       *)
PlaysAccounted ==
  /\ part = "play_counts" => PlayCounts!PlaysCountedOnce
  /\ part = "histories" => Histories!HistoriesAreRecent

(* Access to premium tracks (premium_content_access_checker.py,            *)
(* get_premium_track_signatures.py, get_track_stream_signature.py).        *)
AccessIsEarned == part = "premium" => Premium!AccessIsEarned

(* Tips and reactions (index_aggregate_tips.py, index_reactions.py,        *)
(* get_support_for_user.py, get_tips.py).                                  *)
SupportAddsUp ==
  /\ part = "tips" => Support!SupportAddsUp /\ Support!SupportAgrees
  /\ part = "reactions" => Reacting!ReactionsCopiedOnce

(* Content nodes (index_network_peers.py, get_users_cnode.py,              *)
(* cid_metadata_client.py, update_track_is_available.py).                  *)
ContentAsServed ==
  /\ part = "node_users" => NodeUsers!PagesComplete
  /\ part = "cid_metadata" =>
       CidMetadata!AppliedWithFiles /\ CidMetadata!FailsForCause /\ CidMetadata!RowsHold
TakenDownForCause ==
  [][/\ part = "availability" => Availability!TakenDownForCause /\ Availability!AllTakenDown
     /\ part = "moving" => Moving!TakenDownForCause /\ Moving!AllTakenDown]_allVars
============================================================================
