---------------------------- MODULE RewardClaims ----------------------------
(***************************************************************************)
(* What becomes of completed challenges: they are shown to their users     *)
(* (get_challenges.py), listed for the attester                            *)
(* (get_undisbursed_challenges.py), attested (get_attestation.py,          *)
(* api/v1/challenges.py), paid on Solana, and the payments come back       *)
(* (index_rewards_manager.py).  A release brings a table of challenges     *)
(* (create_new_challenges.py), which the managers of the worker read once. *)
(*                                                                         *)
(* What events do to rows is the subject of Challenges: here an event that *)
(* reaches an active manager creates a row or completes it.  Left out:     *)
(* amounts, counts of steps, and the lag of the read replica.              *)
(***************************************************************************)
EXTENDS Integers, FiniteSets, SequencesExt, FiniteSetsExt, TLC

CONSTANTS
  Users,
  Alphabet,  \* ids of challenges, in the order of strings
  Releases,  \* of [json, overrides, managers]: challenges.json, the overrides of the
             \* environment, and the challenges that setup_challenge_bus knows
  Extras,    \* what tells apart the specifiers of a user
  Oracles,   \* addresses that may be those of anti-abuse oracles
  Limit,     \* rows per page
  MaxBlock, MaxRows, MaxChanges \* bounds

VARIABLES
  server,      \* release of the API
  worker,      \* release of the celery worker, and the rows its managers have read
  challenges,  \* table of challenges
  rows,        \* user_challenges
  verified, deactivated, banks, \* users
  oracles,     \* anti-abuse oracles on Ethereum
  cached,      \* oracle_addresses in redis
  everOracles, \* history
  signed,      \* attestations
  transfers,   \* of the reward program, on Solana
  paid,        \* challenge_disbursements
  changes
users == <<verified, deactivated, banks>>
tables == <<challenges, rows, paid>>
oracleVars == <<oracles, cached, everOracles>>
vars == <<server, worker, tables, users, oracleVars, signed, transfers, changes>>

Ids == ToSet(Alphabet)
Nobody == 0
Active(ch) == challenges[ch].active
Type(ch) == challenges[ch].type
Change == changes < MaxChanges /\ changes' = changes + 1

----------------------------------------------------------------------------
(* Releases.  The API fills the table when it starts.                      *)

(* get_challenges_dicts *)
GetChallengesDicts(r) ==
  [ch \in DOMAIN r.json |->
     IF ch \in DOMAIN r.overrides THEN r.overrides[ch] @@ r.json[ch] ELSE r.json[ch]]
(* Existing rows keep their type; those no longer in the file are kept.    *)
CreateNewChallenges(table, dicts) ==
  [ch \in DOMAIN table \cup DOMAIN dicts |->
     IF ch \notin DOMAIN table THEN dicts[ch]
     ELSE IF ch \notin DOMAIN dicts THEN table[ch]
     ELSE [dicts[ch] EXCEPT !.type = table[ch].type]]
StartServer == \E r \in DOMAIN Releases :
  /\ Change /\ server' = r
  /\ challenges' = CreateNewChallenges(challenges, GetChallengesDicts(Releases[r]))
  /\ UNCHANGED <<worker, rows, paid, users, oracleVars, signed, transfers>>
RestartWorker ==
  /\ Change /\ worker' = [release |-> server, read |-> [ch \in {} |-> {}]]
  /\ UNCHANGED <<server, tables, users, oracleVars, signed, transfers>>

----------------------------------------------------------------------------
(* Progress *)

HasSpecifier(r, ch, spec) == r.ch = ch /\ r.spec = spec
GenerateSpecifier(ch, u, x) ==
  CASE Type(ch) = "trending" -> <<0, x>>
    [] Type(ch) = "aggregate" -> <<u, x>>
    [] OTHER -> <<u, 0>>
(* should_show_challenge_for_user, and should_create_new_challenge *)
ShouldShow(ch, u) ==
  /\ ch = "referrals" => u \notin verified
  /\ ch = "ref-v" => u \in verified

(* _init_challenge *)
InitChallenge(ch) == IF ch \in DOMAIN worker.read THEN worker.read[ch] ELSE challenges[ch]
CreatedRow(c, ch, u, x) ==
  IF c.type = "aggregate" =>
       /\ Cardinality({r \in rows : r.ch = ch /\ r.user = u}) < c.steps
       /\ ShouldShow(ch, u)
  THEN {[ch |-> ch, spec |-> GenerateSpecifier(ch, u, x), user |-> u,
         done |-> c.type = "aggregate", block |-> 0]}
  ELSE {}
(* A row that is new or not complete yet may be completed. *)
UpdatedRow(r, block, complete) ==
  IF r.done \/ complete THEN [r EXCEPT !.done = TRUE, !.block = block] ELSE r
ProcessEvent(ch, u, x, block, complete) ==
  LET c == InitChallenge(ch)
      old == {r \in rows : HasSpecifier(r, ch, GenerateSpecifier(ch, u, x))}
      update == {r \in old : ~r.done} \cup (IF old = {} THEN CreatedRow(c, ch, u, x) ELSE {})
  IN
  /\ ch \in Releases[worker.release].managers \cap DOMAIN challenges
  /\ c.active => Cardinality(rows \cup update) <= MaxRows
  /\ worker' = [worker EXCEPT !.read = [y \in DOMAIN @ \cup {ch} |-> InitChallenge(y)]]
  /\ rows' = IF c.active THEN (rows \ update) \cup {UpdatedRow(r, block, complete) : r \in update}
             ELSE rows
  /\ UNCHANGED <<server, challenges, paid, users, oracleVars, signed, transfers, changes>>

----------------------------------------------------------------------------
(* Users and oracles *)

ChangeUser(u) ==
  /\ Change
  /\ \/ verified' = verified \cup {u} /\ UNCHANGED <<deactivated, banks>>
     \/ deactivated' = deactivated \cup {u} /\ UNCHANGED <<verified, banks>>
  /\ UNCHANGED <<server, worker, tables, oracleVars, signed, transfers>>
IndexBank(u) ==
  /\ banks' = banks \cup {u}
  /\ UNCHANGED <<server, worker, tables, verified, deactivated, oracleVars, signed, transfers, changes>>
ReplaceOracle(o) ==
  /\ Change /\ oracles' = {o} /\ everOracles' = everOracles \cup {o}
  /\ UNCHANGED <<server, worker, tables, users, cached, signed, transfers>>
(* index_oracles_task; an error of the chain leaves what is there.         *)
IndexOracles ==
  /\ cached' = oracles
  /\ UNCHANGED <<server, worker, tables, users, oracles, everOracles, signed, transfers, changes>>

----------------------------------------------------------------------------
(* get_attestation *)

ValidOracles == IF cached # {} THEN cached ELSE oracles
IsPaid(r) == \E d \in paid : HasSpecifier(d, r.ch, r.spec)
AttestationError(o, u, ch, spec) ==
  LET found == {r \in rows : r.user = u /\ HasSpecifier(r, ch, spec)} IN
  CASE o \notin ValidOracles -> "INVALID_ORACLE"
    [] o \in ValidOracles /\ found = {} -> "MISSING_CHALLENGES"
    [] o \in ValidOracles /\ (\E r \in found : ~r.done) -> "CHALLENGE_INCOMPLETE"
    [] o \in ValidOracles /\ (\E r \in found : r.done /\ IsPaid(r)) -> "ALREADY_DISBURSED"
    [] o \in ValidOracles /\ (\E r \in found : r.done /\ ~IsPaid(r)) ->
         IF u \in deactivated THEN "USER_NOT_FOUND" ELSE "none"
(* The users' clients and the attester ask for rows they know of; asking   *)
(* for an oracle fills the cache.                                          *)
Attest(o, u, ch, spec) ==
  /\ AttestationError(o, u, ch, spec) = "none"
  /\ signed' = signed \cup {[ch |-> ch, spec |-> spec, user |-> u, oracle |-> o]}
  /\ cached' = ValidOracles
  /\ UNCHANGED <<server, worker, tables, users, oracles, everOracles, transfers, changes>>

(* The reward program pays once per challenge and specifier. *)
Transfer(s) ==
  /\ ~\E t \in transfers : HasSpecifier(t, s.ch, s.spec)
  /\ transfers' = transfers \cup {s}
  /\ UNCHANGED <<server, worker, tables, users, oracleVars, signed, changes>>
(* "Set this user's id and user bank to 0 instead of blocking indexing":   *)
(* the bank that was paid may be indexed later.                            *)
IndexDisbursement(t) ==
  /\ ~IsPaid(t)
  /\ paid' = paid \cup {[ch |-> t.ch, spec |-> t.spec,
                         user |-> IF t.user \in banks THEN t.user ELSE Nobody]}
  /\ UNCHANGED <<server, worker, challenges, rows, users, oracleVars, signed, transfers, changes>>

----------------------------------------------------------------------------
(* get_undisbursed_challenges: disbursements count if their user is the    *)
(* row's.  The order leaves rows of a user and a challenge that were       *)
(* completed in one block in any order.                                    *)

\* Of deactivated users too.
UndisbursedOfAll ==
  {r \in rows : /\ ~\E d \in paid : HasSpecifier(d, r.ch, r.spec) /\ d.user = r.user
                /\ r.done /\ Active(r.ch) /\ r.user \in banks}
Undisbursed == {r \in UndisbursedOfAll : r.user \notin deactivated}
Position(ch) == CHOOSE i \in DOMAIN Alphabet : Alphabet[i] = ch
Before(r, s) ==
  \/ r.block < s.block
  \/ r.block = s.block /\ r.user < s.user
  \/ r.block = s.block /\ r.user = s.user /\ Position(r.ch) < Position(s.ch)
Ordered(R) == {s \in SetToSeqs(R) : \A i, j \in DOMAIN s : i < j => ~Before(s[j], s[i])}
GetUndisbursedChallenges(ofUsers, after, offset) ==
  LET matching == {r \in Undisbursed : r.user \in ofUsers /\ r.block > after}
  IN {SubSeq(s, offset + 1, Min({offset + Limit, Len(s)})) : s \in Ordered(matching)}

----------------------------------------------------------------------------
(* get_challenges, for rows that the database returns in the order o: the  *)
(* flag of the i-th row shown is that of the i-th row.                     *)

HasManager(ch) == ch \in Releases[server].managers
Response(ch, spec, complete, disbursed) ==
  [ch |-> ch, spec |-> spec, complete |-> complete, disbursed |-> disbursed]
Known(u) == {r \in rows : r.user = u /\ HasManager(r.ch)}
Existing(o, historical) == SelectSeq(o, LAMBDA r : historical \/ Active(r.ch))
Regular(e, disbursements) ==
  {Response(e[i].ch, e[i].spec, e[i].done, disbursements[i]) :
     i \in {i \in DOMAIN e : /\ Type(e[i].ch) # "aggregate"
                             /\ Type(e[i].ch) = "trending" => e[i].done}}
RollupAggregates(e) ==
  LET completed(ch) == {i \in DOMAIN e : e[i].ch = ch /\ e[i].done}
  IN {Response(ch, <<>>, Cardinality(completed(ch)) >= challenges[ch].steps, FALSE) :
        ch \in {ch \in DOMAIN challenges : Type(ch) = "aggregate" /\ completed(ch) # {}}}
Offered(u) ==
  {ch \in DOMAIN challenges : Active(ch) /\ Type(ch) # "trending" /\ ShouldShow(ch, u)}
EmptyChallenges(u, e) ==
  {Response(ch, <<>>, FALSE, FALSE) : ch \in {ch \in Offered(u) : \A i \in DOMAIN e : e[i].ch # ch}}
GetChallenges(u, o, historical) ==
  LET e == Existing(o, historical)
  IN Regular(e, [i \in DOMAIN o |-> IsPaid(o[i])]) \cup RollupAggregates(e) \cup EmptyChallenges(u, e)
\* get_manager raises KeyError.
Answers == \A ch \in DOMAIN challenges : Active(ch) /\ Type(ch) # "trending" => HasManager(ch)

----------------------------------------------------------------------------
Init ==
  /\ server = 1 /\ worker = [release |-> 1, read |-> [ch \in {} |-> {}]]
  /\ challenges = GetChallengesDicts(Releases[1])
  /\ rows = {} /\ paid = {} /\ signed = {} /\ transfers = {}
  /\ verified = {} /\ deactivated = {} /\ banks = {}
  /\ oracles \in {{o} : o \in Oracles} /\ cached = {} /\ everOracles = oracles
  /\ changes = 0

Next ==
  \/ StartServer \/ RestartWorker \/ IndexOracles
  \/ \E ch \in Ids, u \in Users, x \in Extras, block \in 1..MaxBlock, complete \in BOOLEAN :
       ProcessEvent(ch, u, x, block, complete)
  \/ \E u \in Users : ChangeUser(u) \/ IndexBank(u)
  \/ \E o \in Oracles : ReplaceOracle(o)
  \/ \E o \in Oracles, r \in rows : Attest(o, r.user, r.ch, r.spec)
  \/ \E s \in signed : Transfer(s)
  \/ \E t \in transfers : IndexDisbursement(t)

Spec == Init /\ [][Next]_vars

(* Type invariant of the tables and of what the managers have read.        *)
TypeOK ==
  /\ DOMAIN challenges \subseteq Ids /\ DOMAIN worker.read \subseteq DOMAIN challenges
  /\ \A r \in rows : r.user \in Users /\ r.block \in 0..MaxBlock /\ r.done = (r.block # 0)
  /\ \A d \in paid : d.user \in Users \cup {Nobody}
  /\ transfers \subseteq signed /\ cached \subseteq everOracles

(* A reward is attested only for a row that is complete and its user's, to *)
(* an oracle that was registered, and what is recorded as paid was         *)
(* attested: to that user, or to one whose bank was not indexed            *)
(* (get_attestation, process_batch_sol_reward_manager_txs).                *)
PaidWhenEarned ==
  /\ \A s \in signed :
       /\ \E r \in rows : HasSpecifier(r, s.ch, s.spec) /\ r.user = s.user /\ r.done
       /\ s.oracle \in everOracles
  /\ \A d \in paid : \E s \in signed : HasSpecifier(s, d.ch, d.spec) /\ d.user \in {s.user, Nobody}

(* The attester gets an attestation for every row that it is shown, except *)
(* those that were paid to nobody, which stay in the list; and whoever     *)
(* gets one for an active challenge, and has a bank, is shown to it, on    *)
(* some page (get_undisbursed_challenges, get_attestation).                *)
Claimable(r) == \A o \in ValidOracles : AttestationError(o, r.user, r.ch, r.spec) = "none"
PaidToNobody(r) == \E d \in paid : HasSpecifier(d, r.ch, r.spec) /\ d.user = Nobody
ListedAreClaimable ==
  \A offset \in 0..Cardinality(Undisbursed), after \in 0..MaxBlock :
    \A page \in GetUndisbursedChallenges(Users, after, offset) : \A r \in ToSet(page) :
      Claimable(r) \/ PaidToNobody(r)
ClaimableAreListed ==
  \A r \in rows : Claimable(r) /\ Active(r.ch) /\ r.user \in banks =>
    \E offset \in 0..Cardinality(rows) :
      \E page \in GetUndisbursedChallenges({r.user}, r.block - 1, offset) : r \in ToSet(page)

(* A user is shown each challenge that is open to it once, however far it  *)
(* is; rows are shown as paid when they are, if inactive challenges are    *)
(* shown too or there are none, as long as each active challenge has a     *)
(* manager (get_challenges).                                               *)
ShownAsIs ==
  Answers => \A u \in Users, historical \in BOOLEAN : \A o \in SetToSeqs(Known(u)) :
    LET shown == GetChallenges(u, o, historical) IN
    /\ \A ch \in Offered(u) : \E c \in shown : c.ch = ch /\ \A d \in shown : d.ch = ch => d = c
    /\ historical \/ (\A r \in Known(u) : Active(r.ch)) =>
         \A c \in shown : c.spec # <<>> =>
           \E r \in rows : /\ HasSpecifier(r, c.ch, c.spec) /\ r.user = u
                           /\ c.complete = r.done /\ c.disbursed = IsPaid(r)
=============================================================================
