-------------------------------- MODULE Tips --------------------------------
(***************************************************************************)
(* Tips, what users have sent each other in all, ranks of supporters, and  *)
(* reactions to tips (tasks/index_aggregate_tips.py, tasks/aggregates,     *)
(* tasks/index_reactions.py, queries/get_tips.py,                          *)
(* queries/get_support_for_user.py, queries/reactions.py and their routes; *)
(* identity-service/src/routes/reactions.js).                              *)
(*                                                                         *)
(* The tips of Solana slots arrive in the order of their slots.  A task    *)
(* adds those after its checkpoint to the amounts between pairs of users   *)
(* and records who rose among the supporters of a user, in one transaction *)
(* whose statements each see what others have committed until then.        *)
(* Reactions are numbered by the identity service; the task that copies    *)
(* them asks for those from its checkpoint on.                             *)
(***************************************************************************)
EXTENDS Integers, Sequences, FiniteSets, SequencesExt, Bags

CONSTANTS
  Users,
  Follows,         \* current rows of the table, <<follower, followee>>
  LeaderboardSize, \* LEADERBOARD_SIZE, 5
  MaxFetch,        \* MAX_REACTIONS_PER_FETCH, 100
  Amounts, MaxTips, MaxSlot, MaxReactions, MaxFaults \* bounds

VARIABLES
  user_tips,           \* of [signature, slot, sender, receiver, amount]
  aggregate_user_tips, \* amounts, by <<sender, receiver>>
  aggregate_user,      \* supporter_count and supporting_count
  rank_ups,            \* table supporter_rank_ups
  tips_checkpoint,
  updating,            \* the pass that runs, if any, and what it has not committed yet
  board,               \* history: amounts before the last pass
  late,                \* history: tips stored after their slot was read by a pass
  posting, posted,     \* reactions of the identity service, before and after their commit
  reactions,           \* table of the node, a bag
  reactions_checkpoint,
  missed,              \* history: reactions committed after the checkpoint had passed them
  counts
tipVars == <<user_tips, aggregate_user_tips, aggregate_user, rank_ups, tips_checkpoint,
             updating, board, late>>
reactionVars == <<posting, posted, reactions, reactions_checkpoint, missed>>
vars == <<tipVars, reactionVars, counts>>

AmountOf(A, s, r) == IF <<s, r>> \in DOMAIN A THEN A[<<s, r>>] ELSE 0
Sum(P) == MapThenSumSet(LAMBDA t : t.amount, P)
MaxOf(S) == IF S = {} THEN 0 ELSE Max(S)

----------------------------------------------------------------------------
(* A page of tips is committed.  A page may end within a slot, whose other *)
(* tips come with the next page.                                           *)
StoreTip == \E s, r \in Users, a \in Amounts, slot \in 1..MaxSlot :
  LET last == MaxOf({t.slot : t \in user_tips})
      t == [signature |-> counts.tips + 1, slot |-> slot, sender |-> s, receiver |-> r, amount |-> a]
      read == IF updating.pc = "idle" THEN tips_checkpoint ELSE updating.max
  IN /\ counts.tips < MaxTips /\ s # r /\ slot >= last
     /\ user_tips' = user_tips \cup {t}
     /\ late' = IF slot <= read THEN late \cup {t} ELSE late
     /\ counts' = [counts EXCEPT !.tips = @ + 1]
     /\ UNCHANGED <<aggregate_user_tips, aggregate_user, rank_ups, tips_checkpoint, updating,
                    board, reactionVars>>

\* Variant: the tips of the slot at the checkpoint are taken again.
FromCheckpoint(prev, max) == {t \in user_tips : prev <= t.slot /\ t.slot <= max}
Recent(prev, max) == {t \in user_tips : prev < t.slot /\ t.slot <= max}
RankIn(A, s, r) == 1 + Cardinality({x \in Users : AmountOf(A, x, r) > AmountOf(A, s, r)})
(* The leaderboards of those who got recent tips. *)
GetRanks(A, prev, max) ==
  {[rank |-> RankIn(A, p[1], p[2]), sender |-> p[1], receiver |-> p[2]] :
     p \in {p \in DOMAIN A : /\ RankIn(A, p[1], p[2]) <= LeaderboardSize
                             /\ \E t \in user_tips : /\ prev < t.slot /\ t.slot <= max
                                                     /\ t.receiver = p[2]}}
RankUps(before, after, slot) ==
  {[slot |-> slot, sender |-> x.sender, receiver |-> x.receiver, rank |-> x.rank] :
     x \in {x \in after : \A y \in before :
              y.sender = x.sender /\ y.receiver = x.receiver => x.rank < y.rank}}
WithRecent(A, P) ==
  [p \in DOMAIN A \cup {<<t.sender, t.receiver>> : t \in P} |->
     AmountOf(A, p[1], p[2]) + Sum({t \in P : <<t.sender, t.receiver>> = p})]
(* Counts of those who sent or got recent tips are made anew. *)
WithCounts(C, A, P) ==
  [u \in Users |->
     IF \A t \in P : u \notin {t.sender, t.receiver} THEN C[u]
     ELSE [supporter_count |-> Cardinality({p \in DOMAIN A : p[2] = u}),
           supporting_count |-> Cardinality({p \in DOMAIN A : p[1] = u})]]

Idle == [pc |-> "idle", prev |-> 0, max |-> 0, before |-> {}, amounts |-> <<>>, users |-> <<>>]
(* _update_aggregate_tips: the ranks before, *)
StartUpdate ==
  LET max == MaxOf({t.slot : t \in user_tips}) IN
  /\ updating.pc = "idle" /\ max # tips_checkpoint
  /\ updating' = [Idle EXCEPT !.pc = "ranked", !.prev = tips_checkpoint, !.max = max,
                    !.before = GetRanks(aggregate_user_tips, tips_checkpoint, max)]
  /\ UNCHANGED <<user_tips, aggregate_user_tips, aggregate_user, rank_ups, tips_checkpoint,
                 board, late, reactionVars, counts>>
(* the update, *)
UpdateAggregateTable ==
  LET P == Recent(updating.prev, updating.max)
      A == WithRecent(aggregate_user_tips, P) IN
  /\ updating.pc = "ranked"
  /\ updating' = [updating EXCEPT !.pc = "updated", !.amounts = A,
                    !.users = WithCounts(aggregate_user, A, P)]
  /\ UNCHANGED <<user_tips, aggregate_user_tips, aggregate_user, rank_ups, tips_checkpoint,
                 board, late, reactionVars, counts>>
(* the ranks after, and the commit. *)
EndUpdate ==
  LET after == GetRanks(updating.amounts, updating.prev, updating.max) IN
  /\ updating.pc = "updated"
  /\ rank_ups' = rank_ups \cup RankUps(updating.before, after, updating.max)
  /\ board' = aggregate_user_tips
  /\ aggregate_user_tips' = updating.amounts /\ aggregate_user' = updating.users
  /\ tips_checkpoint' = updating.max /\ updating' = Idle
  /\ UNCHANGED <<user_tips, late, reactionVars, counts>>
FailUpdate ==
  /\ updating.pc # "idle" /\ counts.faults < MaxFaults
  /\ updating' = Idle /\ counts' = [counts EXCEPT !.faults = @ + 1]
  /\ UNCHANGED <<user_tips, aggregate_user_tips, aggregate_user, rank_ups, tips_checkpoint,
                 board, late, reactionVars>>

----------------------------------------------------------------------------
(* Reactions.  The identity service gives a number to a reaction and       *)
(* commits it; another may be given the next number meanwhile.             *)

PostReaction == \E t \in user_tips :
  /\ counts.reactions < MaxReactions
  /\ posting' = posting \cup {[id |-> counts.reactions + 1, reacted_to |-> t.signature,
                               sender |-> t.receiver]}
  /\ counts' = [counts EXCEPT !.reactions = @ + 1]
  /\ UNCHANGED <<tipVars, posted, reactions, reactions_checkpoint, missed>>
CommitReaction == \E x \in posting :
  /\ posting' = posting \ {x} /\ posted' = posted \cup {x}
  /\ missed' = IF x.id < reactions_checkpoint THEN missed \cup {x} ELSE missed
  /\ UNCHANGED <<tipVars, reactions, reactions_checkpoint, counts>>

FetchReactions(start) ==
  LET P == {x \in posted : x.id >= start} IN
  {x \in P : Cardinality({y \in P : y.id < x.id}) < MaxFetch}
NextCheckpoint(R) == Max({x.id : x \in R}) + 1
(* A pass that fails leaves nothing. *)
IndexReactions ==
  LET R == FetchReactions(reactions_checkpoint) IN
  /\ R # {}
  /\ reactions' = reactions (+) SetToBag(R)
  /\ reactions_checkpoint' = NextCheckpoint(R)
  /\ UNCHANGED <<tipVars, posting, posted, missed, counts>>

----------------------------------------------------------------------------
(* Answers *)

Page(s, limit, offset) == SubSeq(s, offset + 1, Min({offset + limit, Len(s)}))
Followees(u) == {f[2] : f \in {f \in Follows : f[1] = u}}
(* Of the tips of each user in a capacity, one of the latest slot. *)
UniqueBy(P, who) ==
  CASE who = "sender" -> {S \in SUBSET P :
         /\ \A t \in S, o \in P : t.sender = o.sender => o.slot <= t.slot /\ (o \in S => o = t)
         /\ {t.sender : t \in S} = {t.sender : t \in P}}
    [] who = "receiver" -> {S \in SUBSET P :
         /\ \A t \in S, o \in P : t.receiver = o.receiver => o.slot <= t.slot /\ (o \in S => o = t)
         /\ {t.receiver : t \in S} = {t.receiver : t \in P}}
    [] OTHER -> {P}
(* get_tips.  "sender" looks at the receivers too. *)
Followed(P, me, follows) ==
  CASE follows \in {"receiver", "sender"} -> {t \in P : t.receiver \in Followees(me)}
    [] follows = "sender_or_receiver" ->
         {t \in P : t.receiver \in Followees(me) \/ t.sender \in Followees(me)}
    [] OTHER -> P
FolloweeSupporters(t, me) ==
  {u \in Followees(me) : <<u, t.receiver>> \in DOMAIN aggregate_user_tips}
GetTips(me, follows, who, minSlot, limit, offset) ==
  {Page(SetToSortSeq(Followed(S, me, follows), LAMBDA a, b : a.slot > b.slot), limit, offset) :
     S \in UniqueBy({t \in user_tips : t.slot >= minSlot}, who)}

SupportReceived(u) ==
  SetToSortSeq({[rank |-> RankIn(aggregate_user_tips, p[1], u), user |-> p[1],
                 amount |-> aggregate_user_tips[p]] : p \in {p \in DOMAIN aggregate_user_tips : p[2] = u}},
    LAMBDA a, b : a.amount > b.amount \/ (a.amount = b.amount /\ a.user < b.user))
SupportSent(u) ==
  SetToSortSeq({[rank |-> RankIn(aggregate_user_tips, u, p[2]), user |-> p[2],
                 amount |-> aggregate_user_tips[p]] : p \in {p \in DOMAIN aggregate_user_tips : p[1] = u}},
    LAMBDA a, b : a.amount > b.amount \/ (a.amount = b.amount /\ a.user < b.user))
GetSupporters(u, limit, offset) == Page(SupportReceived(u), limit, offset)
GetSupportings(u, limit, offset) == Page(SupportSent(u), limit, offset)
NotFound == <<>>
GetSupporter(u, s) == SelectSeq(SupportReceived(u), LAMBDA x : x.user = s)
GetSupporting(s, u) == SelectSeq(SupportSent(s), LAMBDA x : x.user = u)

----------------------------------------------------------------------------
Init ==
  /\ user_tips = {} /\ aggregate_user_tips = <<>>
  /\ aggregate_user = [u \in Users |-> [supporter_count |-> 0, supporting_count |-> 0]]
  /\ rank_ups = {} /\ tips_checkpoint = 0 /\ updating = Idle /\ board = <<>> /\ late = {}
  /\ posting = {} /\ posted = {} /\ reactions = EmptyBag /\ reactions_checkpoint = 0 /\ missed = {}
  /\ counts = [tips |-> 0, reactions |-> 0, faults |-> 0]
Next ==
  \/ StoreTip \/ StartUpdate \/ UpdateAggregateTable \/ EndUpdate \/ FailUpdate
  \/ PostReaction \/ CommitReaction \/ IndexReactions
Spec == Init /\ [][Next]_vars

TypeOK ==
  /\ \A t \in user_tips : t.slot \in 1..MaxSlot /\ t.sender \in Users /\ t.receiver \in Users
  /\ DOMAIN aggregate_user_tips \subseteq Users \X Users
  /\ late \subseteq user_tips /\ missed \subseteq posted
  /\ IsABag(reactions) /\ tips_checkpoint \in 0..MaxSlot

(* Amounts between users are the sums of the tips up to the checkpoint,    *)
(* each taken once through passes that fail and tips that arrive between   *)
(* two statements of a pass, and the counts are those of the amounts.      *)
(* Those who rose on the leaderboard of a user are recorded, with the rank *)
(* they reached, and nobody else.  Excepted are users who got a tip after  *)
(* its slot had been read.                                                 *)
SupportAddsUp ==
  LET inTime(r) == \A t \in late : t.receiver # r
      got(s, r) == {t \in user_tips : t.sender = s /\ t.receiver = r /\ t.slot <= tips_checkpoint}
      rose(s, r) == /\ <<s, r>> \in DOMAIN aggregate_user_tips
                    /\ RankIn(aggregate_user_tips, s, r) <= LeaderboardSize
                    /\ \/ <<s, r>> \notin DOMAIN board
                       \/ RankIn(aggregate_user_tips, s, r) < RankIn(board, s, r)
  IN
  /\ \A u \in Users : aggregate_user[u] =
       [supporter_count |-> Len(SupportReceived(u)), supporting_count |-> Len(SupportSent(u))]
  /\ \A r \in {u \in Users : inTime(u)}, s \in Users :
       /\ AmountOf(aggregate_user_tips, s, r) = Sum(got(s, r))
       /\ tips_checkpoint > 0 =>
            (\E x \in rank_ups : x.slot = tips_checkpoint /\ x.sender = s /\ x.receiver = r
                                 /\ x.rank = RankIn(aggregate_user_tips, s, r)) = rose(s, r)
(* The two users of a tip are told the same amount and rank, pages of      *)
(* lists hold every supporter once, and what is listed for a follower are  *)
(* tips to or from those they follow.                                      *)
SupportAgrees ==
  /\ \A u, s \in Users :
       LET a == GetSupporter(u, s) b == GetSupporting(s, u) IN
       /\ (a = NotFound) = (b = NotFound)
       /\ a # NotFound => a[1].rank = b[1].rank /\ a[1].amount = b[1].amount
       /\ (a # NotFound) = (s \in {GetSupporters(u, 1, i)[1].user : i \in 0..Len(SupportReceived(u)) - 1})
       /\ (b # NotFound) = (u \in {GetSupportings(s, 1, i)[1].user : i \in 0..Len(SupportSent(s)) - 1})
  /\ \A me \in Users, who \in {"none", "sender", "receiver"} :
     \A tips \in GetTips(me, "sender_or_receiver", who, 0, MaxTips, 0) : \A i \in DOMAIN tips :
       /\ {tips[i].sender, tips[i].receiver} \cap Followees(me) # {}
       /\ \A t \in user_tips \ late : /\ t.slot <= tips_checkpoint /\ t.receiver = tips[i].receiver
                                      /\ t.sender \in Followees(me)
            => t.sender \in FolloweeSupporters(tips[i], me)
       /\ \A j \in DOMAIN tips : i < j =>
            tips[i].slot >= tips[j].slot /\ (who = "sender" => tips[i].sender # tips[j].sender)

(* Every reaction of the identity service below the checkpoint is copied   *)
(* once and no other, except those that were committed after a later one   *)
(* had been copied.                                                        *)
ReactionsCopiedOnce == \A x \in posted :
  CopiesIn(x, reactions) = IF x.id < reactions_checkpoint /\ x \notin missed THEN 1 ELSE 0
=============================================================================
