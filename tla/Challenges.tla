----------------------------- MODULE Challenges -----------------------------
(***************************************************************************)
(* Rewarded challenges: blocks dispatch events to a queue in redis         *)
(* (ChallengeEventBus), a task takes them in bulk and hands them to the    *)
(* ChallengeManagers (src/challenges/), which keep a row per user and      *)
(* specifier; completed rows are attested (get_attestation), and the       *)
(* disbursements come back from Solana (index_rewards_manager).            *)
(*                                                                         *)
(* Modelled: a challenge of each kind, retried blocks, lost events, banks  *)
(* that are indexed late.  Left out: the other boolean challenges, which   *)
(* differ in name only, and the amounts.                                   *)
(***************************************************************************)
EXTENDS Integers, Sequences, FiniteSets

CONSTANTS
  Users,
  ActSets,       \* sets of kinds of events, one of which the users cause
  Steps,         \* step_count of a challenge
  StartBlock,    \* starting_block
  MaxEvents,     \* max_events of process_events
  MaxBlock, MaxRetries, MaxLosses \* bounds

VARIABLES
  acts,    \* the kinds of events
  world,   \* what the tables say of the users
  queue,   \* challenge_event_bus queue in redis
  rows,    \* user_challenges
  partial, \* challenge_profile_completion and challenge_listen_streak
  paid,    \* challenge_disbursements
  env      \* height of the chain, retries, losses
vars == <<acts, world, queue, rows, partial, paid, env>>

(* Challenges that listen to an event, in the order of registration. *)
Listeners(type) ==
  CASE type = "upload" -> <<"track-upload">>
    [] type = "listen" -> <<"listen-streak">>
    [] type = "signup" -> <<"referrals", "ref-v">>
    [] type = "install" -> <<"mobile-install">>
    [] type = "trending" -> <<"tt">>
    [] type \in {"bio", "repost"} -> <<"profile-completion">>

Aggregates == {"referrals", "ref-v"}
Event(type, u, b, x) == [type |-> type, user |-> u, block |-> b, extra |-> x]

----------------------------------------------------------------------------
(* One ChallengeManager *)

Specifier(ch, e) ==
  CASE ch \in Aggregates -> <<e.user, e.extra>>
    [] ch = "tt" -> <<"rank", e.extra>>
    [] OTHER -> <<e.user, "">>

(* Events of one type, none before the starting block, are merged by       *)
(* specifier: the place of the first, the contents of the last.            *)
Merge(ch, type, B) ==
  LET fit == {i \in DOMAIN B : B[i].type = type /\ B[i].block >= StartBlock}
      same(i) == {j \in fit : Specifier(ch, B[j]) = Specifier(ch, B[i])}
  IN [i \in {i \in fit : \A j \in same(i) : i <= j} |->
        B[CHOOSE j \in same(i) : \A k \in same(i) : k <= j]]

RowOf(R, ch, spec) == {r \in R : r.ch = ch /\ r.spec = spec}
NewRow(ch, e) ==
  [ch |-> ch, spec |-> Specifier(ch, e), user |-> e.user, steps |-> 0,
   done |-> ch \in Aggregates, block |-> 0]

(* should_create_new_challenge: the referrer is of the kind that the       *)
(* challenge rewards.                                                      *)
ShouldCreate(w, ch, e) == (ch = "ref-v") = (e.user \in w.verified)

(* Rows to create: for aggregates, up to the step count of the user. *)
Created(w, R, ch, E) ==
  LET fresh == {i \in DOMAIN E : RowOf(R, ch, Specifier(ch, E[i])) = {}}
      rowsOf(u) == {r \in R : r.ch = ch /\ r.user = u}
      before(i) == {j \in fresh : j < i /\ E[j].user = E[i].user}
      complete(i) ==
        Cardinality(rowsOf(E[i].user)) + Cardinality(before(i)) >= Steps[ch]
  IN {NewRow(ch, E[i]) : i \in {i \in fresh :
        ch \in Aggregates => ShouldCreate(w, ch, E[i]) /\ ~complete(i)}}

(* What the challenges keep beside their rows. *)
NoStreak == [last |-> -1, n |-> 0]
NoProfile == [bio |-> FALSE, repost |-> FALSE]

(* _handle_track_listens, days as dates: the i-th streak is given the i-th *)
(* event, whoever listened; o is the order in which the database returns   *)
(* the streaks.                                                            *)
Listen(s, day) ==
  IF s.last = -1 \/ day - s.last >= 2 THEN [last |-> day, n |-> 1]
  ELSE IF day - s.last = 1 THEN [last |-> day, n |-> s.n + 1]
  ELSE s
HandleListens(p, o, U, E) ==
  LET place(u) == Cardinality({v \in U : o[v] < o[u]})
      event(n) == E[CHOOSE i \in DOMAIN E : Cardinality({j \in DOMAIN E : j < i}) = n]
  IN [p EXCEPT !.streak = [u \in Users |->
        IF u \in U THEN Listen(@[u], event(place(u)).extra) ELSE @[u]]]
HandleProfile(w, p, type, U) ==
  [p EXCEPT !.profile = [u \in Users |->
     IF u \notin U THEN @[u]
     ELSE IF type = "bio" THEN [@[u] EXCEPT !.bio = w.bio[u]]
     ELSE [@[u] EXCEPT !.repost = w.reposts[u] >= 1]]]
ProfileSteps(f) == (IF f.bio THEN 1 ELSE 0) + (IF f.repost THEN 1 ELSE 0)

\* Variant: uploads are counted by events, not by rows.
UpdatedByEvents(w, p, r) ==
  CASE r.ch = "track-upload" ->
         [r EXCEPT !.steps = @ + 1, !.done = r.steps + 1 >= Steps[r.ch]]
    [] r.ch \in Aggregates -> r
    [] OTHER -> [r EXCEPT !.done = TRUE]

(* update_user_challenges *)
Updated(w, p, r) ==
  CASE r.ch = "track-upload" ->
         [r EXCEPT !.steps = w.tracks[r.user], !.done = w.tracks[r.user] >= Steps[r.ch]]
    [] r.ch = "listen-streak" ->
         [r EXCEPT !.steps = p.streak[r.user].n,
                   !.done = p.streak[r.user].n >= Steps[r.ch]]
    [] r.ch = "profile-completion" ->
         [r EXCEPT !.steps = ProfileSteps(p.profile[r.user]),
                   !.done = ProfileSteps(p.profile[r.user]) = Steps[r.ch]]
    [] r.ch \in Aggregates -> r
    [] OTHER -> [r EXCEPT !.done = TRUE]

(* "Add block # to newly completed challenges". *)
Stamp(ch, E, r) ==
  IF r.done
  THEN [r EXCEPT !.block =
         E[CHOOSE i \in DOMAIN E : Specifier(ch, E[i]) = r.spec].block]
  ELSE r

\* Variant: completed rows are updated too.
ToUpdateAll(w, R, ch, E) ==
  {r \in R : r.ch = ch /\ \E i \in DOMAIN E : Specifier(ch, E[i]) = r.spec}
    \cup Created(w, R, ch, E)
ToUpdate(w, R, ch, E) ==
  {r \in R : ~r.done /\ r.ch = ch /\ \E i \in DOMAIN E : Specifier(ch, E[i]) = r.spec}
    \cup Created(w, R, ch, E)

(* ChallengeManager.process of the events of one type in B; o is the order *)
(* among the streaks.  The filter of deactivated users compares numbers    *)
(* with rows and drops nobody.                                             *)
Process(w, s, ch, type, B, o) ==
  LET E == Merge(ch, type, B)
      U == ToUpdate(w, s.rows, ch, E)
      users == {r.user : r \in U}
      p == CASE ch = "listen-streak" -> HandleListens(s.partial, o, users, E)
             [] ch = "profile-completion" -> HandleProfile(w, s.partial, type, users)
             [] OTHER -> s.partial
  IN [rows |-> (s.rows \ U) \cup {Stamp(ch, E, Updated(w, p, r)) : r \in U},
      partial |-> p]

(* process_events: by type, in the order of their first events, then by    *)
(* listener.                                                               *)
ProcessType(w, s, type, B, o) ==
  LET L == Listeners(type)
      one == Process(w, s, L[1], type, B, o)
  IN IF Len(L) = 1 THEN one ELSE Process(w, one, L[2], type, B, o)
ProcessedTo(w, s, B, o) ==
  LET first(n) == \A i \in 1..(n - 1) : B[i].type # B[n].type
      after[n \in 0..Len(B)] ==
        IF n = 0 THEN s
        ELSE IF first(n) THEN ProcessType(w, after[n - 1], B[n].type, B, o)
        ELSE after[n - 1]
  IN after
ProcessAll(w, s, B, o) == ProcessedTo(w, s, B, o)[Len(B)]

----------------------------------------------------------------------------
(* The chain and the queue *)

(* What users do: the event, and its effect on the tables. *)
Deeds ==
  {Event(t, u, 0, x) : t \in acts \cap {"upload", "install", "bio", "repost"},
                       u \in Users, x \in {0}}
  \cup {Event("listen", u, 0, d) : u \in IF "listen" \in acts THEN Users ELSE {}, d \in {env.day}}
  \cup {Event("signup", u, 0, x) : u \in IF "signup" \in acts THEN Users ELSE {}, x \in {1, 2}}
  \cup {Event("trending", u, 0, 1) : u \in IF "trending" \in acts THEN Users ELSE {}}
Effect(w, e) ==
  CASE e.type = "upload" -> [w EXCEPT !.tracks[e.user] = @ + 1]
    [] e.type = "bio" -> [w EXCEPT !.bio[e.user] = TRUE]
    [] e.type = "repost" -> [w EXCEPT !.reposts[e.user] = @ + 1]
    [] OTHER -> w

(* A block commits, and its events are flushed.  *)
IndexBlock ==
  /\ env.height < MaxBlock
  /\ \E e \in Deeds :
       /\ world' = Effect(world, e)
       /\ queue' = Append(queue, [e EXCEPT !.block = env.height + 1])
  /\ env' = [env EXCEPT !.height = @ + 1]
  /\ UNCHANGED <<acts, rows, partial, paid>>

(* The block is rolled back, to be tried again: use_scoped_dispatch_queue  *)
(* flushes its events all the same.                                        *)
FailBlock ==
  /\ env.height < MaxBlock /\ env.retries < MaxRetries
  /\ \E e \in Deeds : queue' = Append(queue, [e EXCEPT !.block = env.height + 1])
  /\ env' = [env EXCEPT !.retries = @ + 1]
  /\ UNCHANGED <<acts, world, rows, partial, paid>>

(* Rows that no event announces: deleted tracks and reposts, verification. *)
Undo ==
  /\ \E u \in Users :
       \/ world.tracks[u] > 0 /\ world' = [world EXCEPT !.tracks[u] = @ - 1]
       \/ world.reposts[u] > 0 /\ world' = [world EXCEPT !.reposts[u] = @ - 1]
       \/ "signup" \in acts /\ world' = [world EXCEPT !.verified = @ \cup {u}]
  /\ UNCHANGED <<acts, queue, rows, partial, paid, env>>
NextDay ==
  /\ "listen" \in acts /\ env.day < MaxBlock
  /\ env' = [env EXCEPT !.day = @ + 1]
  /\ UNCHANGED <<acts, world, queue, rows, partial, paid>>

(* lrange takes the end of its range along. *)
Dequeued == SubSeq(queue, 1, IF Len(queue) < MaxEvents + 1 THEN Len(queue) ELSE MaxEvents + 1)
Orders == {o \in [Users -> 1..Cardinality(Users)] : \A u, v \in Users : o[u] = o[v] => u = v}

ProcessEvents ==
  /\ queue # <<>>
  /\ queue' = SubSeq(queue, Len(Dequeued) + 1, Len(queue))
  /\ \E o \in IF "listen" \in acts THEN Orders ELSE {CHOOSE o \in Orders : TRUE} :
       LET s == ProcessAll(world, [rows |-> rows, partial |-> partial], Dequeued, o)
       IN rows' = s.rows /\ partial' = s.partial
  /\ UNCHANGED <<acts, world, paid, env>>

(* The queue is trimmed before the events are handled: a crash or a        *)
(* failing manager loses them.                                             *)
LoseEvents ==
  /\ queue # <<>> /\ env.losses < MaxLosses
  /\ queue' = SubSeq(queue, Len(Dequeued) + 1, Len(queue))
  /\ env' = [env EXCEPT !.losses = @ + 1]
  /\ UNCHANGED <<acts, world, rows, partial, paid>>

----------------------------------------------------------------------------
(* Attestation and disbursement *)

IsPaid(r) == \E d \in paid : d.ch = r.ch /\ d.spec = r.spec
(* get_attestation signs it. *)
Attestable(r) == r.done /\ ~IsPaid(r)

(* A disbursement is indexed.  The user is looked up through the bank, and *)
(* recorded as 0 if index_user_bank has not reached that yet.              *)
IndexDisbursement ==
  /\ \E r \in rows : \E u \in {r.user, 0} :
       /\ Attestable(r)
       /\ paid' = paid \cup {[ch |-> r.ch, spec |-> r.spec, user |-> u]}
  /\ UNCHANGED <<acts, world, queue, rows, partial, env>>

----------------------------------------------------------------------------
Init ==
  /\ acts \in ActSets
  /\ world = [tracks |-> [u \in Users |-> 0], bio |-> [u \in Users |-> FALSE],
              reposts |-> [u \in Users |-> 0], verified |-> {}]
  /\ queue = <<>> /\ rows = {} /\ paid = {}
  /\ partial = [streak |-> [u \in Users |-> NoStreak],
                profile |-> [u \in Users |-> NoProfile]]
  /\ env = [height |-> 0, retries |-> 0, losses |-> 0, day |-> 0]

Next == \/ IndexBlock \/ FailBlock \/ Undo \/ NextDay
        \/ ProcessEvents \/ LoseEvents \/ IndexDisbursement
Spec == Init /\ [][Next]_vars

----------------------------------------------------------------------------
(* Type invariant of the challenge rows and disbursements. *)
TypeOK ==
  /\ \A r \in rows : r.user \in Users /\ r.done \in BOOLEAN /\ r.steps \in Nat
  /\ \A d \in paid : d.user \in Users \cup {0}

(* A user is rewarded for at most step_count referrals, whatever the       *)
(* batches and the retries, and never twice for one.                       *)
ReferralsCapped ==
  /\ \A ch \in Aggregates, u \in Users :
       /\ Cardinality({r \in rows : r.ch = ch /\ r.user = u}) <= Steps[ch]
       /\ Cardinality({d \in paid : d.ch = ch /\ d.user = u}) <= Steps[ch]
  /\ \A r, s \in rows : r.ch = s.ch /\ r.spec = s.spec => r = s

(* The events of a block that is tried again reach the managers twice:     *)
(* what they already did is not changed.                                   *)
RetriesHarmless ==
  "listen" \notin acts =>
    LET o == CHOOSE o \in Orders : TRUE
        s == ProcessAll(world, [rows |-> rows, partial |-> partial], queue, o)
    IN ProcessAll(world, s, queue, o) = s

(* A completed challenge stays as it is, so that the reward that was       *)
(* attested is the one disbursed, even if the tracks are deleted.          *)
KeepsCompleted == \A r \in rows : r.done => r \in rows'
CompletedStays == [][KeepsCompleted]_vars

(* Progress that counts rows is only completed by rows that exist: events  *)
(* of rolled back blocks complete no such challenge.                       *)
CompletesByRows ==
  \A r \in rows' \ rows :
    r.ch = "track-upload" /\ r.done => world.tracks[r.user] >= Steps[r.ch]
CompletedByRows == [][CompletesByRows]_vars

============================================================================
