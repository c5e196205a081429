--------------------------- MODULE RewardsProofs ---------------------------
(***************************************************************************)
(* What happens to completed challenges, for any users, challenges,        *)
(* releases, oracles and bounds: rewards are paid to those who earned      *)
(* them, and the list the attester works from is the list of what can be   *)
(* claimed.  Then: the events of old rows, on which the challenge to       *)
(* complete one's profile depends, are passed over by no pass of the       *)
(* backfill (ProfileBackfill); each rank of each week has one winner, and  *)
(* every ranking has its winners (TrendingRewards); and what the events    *)
(* make of the rows of challenges is the same when they come again         *)
(* (Challenges).  The last three are instances; variables of the same name *)
(* are shared, as no theorem is about two components at a time.            *)
(***************************************************************************)
EXTENDS RewardClaims, FiniteSetTheorems, SequenceTheorems, WellFoundedInduction, TLAPS

\* Pages hold rows, blocks and users are numbers, and the alphabet has the
\* challenges of all releases.
Sizes ==
  /\ MaxBlock \in Nat /\ Limit \in Nat \ {0} /\ Users \subseteq Int
  /\ Alphabet \in Seq(Ids)
  /\ 1 \in DOMAIN Releases /\ \A r \in DOMAIN Releases : DOMAIN Releases[r].json \subseteq Ids

Specifiers == (Users \cup {Nobody}) \X (Extras \cup {0})
Row == [ch : Ids, spec : Specifiers, user : Users,
        done : BOOLEAN, block : 0..MaxBlock]

Types ==
  /\ rows \subseteq Row /\ IsFiniteSet(rows)
  /\ \A r \in rows : r.done = (r.block # 0)
  /\ DOMAIN challenges \subseteq Ids /\ DOMAIN worker.read \subseteq DOMAIN challenges
  /\ worker = [release |-> worker.release, read |-> worker.read]
\* A challenge and a specifier name one row; completed rows stay.
OneRowPerSpecifier == \A r, q \in rows : HasSpecifier(r, q.ch, q.spec) => r = q
AttestedWhenDone == \A s \in signed :
  /\ \E r \in rows : HasSpecifier(r, s.ch, s.spec) /\ r.user = s.user /\ r.done
  /\ s.oracle \in everOracles
PaidWhenAttested == \A d \in paid :
  \E s \in signed : HasSpecifier(s, d.ch, d.spec) /\ d.user \in {s.user, Nobody}
ClaimsInv ==
  /\ Types
  /\ oracles \cup cached \subseteq everOracles /\ oracles # {}
  /\ transfers \subseteq signed
  /\ OneRowPerSpecifier /\ AttestedWhenDone /\ PaidWhenAttested

-----------------------------------------------------------------------------
(* Progress *)

LEMMA SpecifierType ==
  ASSUME NEW ch, NEW u \in Users, NEW x \in Extras
  PROVE  GenerateSpecifier(ch, u, x) \in Specifiers
  BY DEF GenerateSpecifier, Specifiers, Nobody

\* An event leaves every completed row, and gives the others at most the
\* marks of completion.
LEMMA EventOnRows ==
  ASSUME Sizes, ClaimsInv, NEW ch \in Ids, NEW u \in Users, NEW x \in Extras,
         NEW block \in 1..MaxBlock, NEW complete \in BOOLEAN,
         ProcessEvent(ch, u, x, block, complete), rows' # rows
  PROVE  LET spec == GenerateSpecifier(ch, u, x)
             others == {r \in rows : ~HasSpecifier(r, ch, spec) \/ r.done}
         IN \E row \in Row :
              /\ HasSpecifier(row, ch, spec) /\ row.done = (row.block # 0)
              /\ \A r \in rows : HasSpecifier(r, ch, spec) => ~r.done
              /\ rows' = others \cup {row}
  <1> DEFINE spec == GenerateSpecifier(ch, u, x)
             c == InitChallenge(ch)
             created == [ch |-> ch, spec |-> spec, user |-> u,
                         done |-> c.type = "aggregate", block |-> 0]
             old == {r \in rows : HasSpecifier(r, ch, spec)}
             new == IF old = {} THEN CreatedRow(c, ch, u, x) ELSE {}
             update == {r \in old : ~r.done} \cup new
  <1>1. rows' = (rows \ update) \cup {UpdatedRow(r, block, complete) : r \in update}
    BY DEF ProcessEvent
  <1>2. \A r, q \in old : r = q
    BY DEF ClaimsInv, OneRowPerSpecifier, HasSpecifier
  <1>3. new \in {{}, {created}}
    BY DEF CreatedRow
  <1>4. created \in Row /\ HasSpecifier(created, ch, spec) /\ created.block = 0
    <2>1. spec \in Specifiers /\ (c.type = "aggregate") \in BOOLEAN /\ 0 \in 0..MaxBlock
      BY SpecifierType DEF Sizes
    <2> HIDE DEF spec, c
    <2> QED
      BY <2>1 DEF Row, HasSpecifier
  <1>5. \A r \in old : r \in Row /\ (~r.done => r.block = 0)
    BY DEF ClaimsInv, Types, Row
  <1> HIDE DEF created
  <1>6. PICK r \in Row : update = {r} /\ HasSpecifier(r, ch, spec) /\ r.block = 0
    <2>1. update # {}
      BY <1>1
    <2> QED
      BY <1>2, <1>3, <1>4, <1>5, <2>1
  <1> DEFINE row == UpdatedRow(r, block, complete)
  <1>7. row \in Row /\ HasSpecifier(row, ch, spec) /\ row.done = (row.block # 0)
    <2>1. r \in [ch : Ids, spec : Specifiers, user : Users, done : BOOLEAN, block : 0..MaxBlock]
      BY <1>6 DEF Row
    <2>2. block \in 0..MaxBlock /\ block # 0
      BY DEF Sizes
    <2>3. CASE r.done \/ complete
      <3>1. row = [r EXCEPT !.done = TRUE, !.block = block]
        BY <2>3 DEF UpdatedRow
      <3> HIDE DEF row
      <3> QED
        BY <3>1, <1>6, <2>1, <2>2 DEF Row, HasSpecifier
    <2>4. CASE ~(r.done \/ complete)
      BY <2>4, <1>6, <2>1 DEF UpdatedRow
    <2> QED
      BY <2>3, <2>4
  <1>8. \A q \in old : ~q.done /\ q = r
    <2>1. CASE old = {}
      BY <2>1
    <2>2. CASE old # {}
      <3>1. new = {}
        BY <2>2
      <3> QED
        BY <3>1, <1>2, <1>6
    <2> QED
      BY <2>1, <2>2
  <1>9. rows \ update = {q \in rows : ~HasSpecifier(q, ch, spec) \/ q.done}
    <2>1. ASSUME NEW q \in rows PROVE q \in update <=> HasSpecifier(q, ch, spec) /\ ~q.done
      BY <1>6, <1>8
    <2> QED
      BY <2>1
  <1> QED
    BY <1>1, <1>6, <1>7, <1>8, <1>9

\* What the managers have read is in the table.
LEMMA ManagersRead ==
  ASSUME Types, NEW ch \in Ids, NEW u, NEW x, NEW block, NEW complete,
         ProcessEvent(ch, u, x, block, complete)
  PROVE  /\ (DOMAIN challenges \subseteq Ids)' /\ (DOMAIN worker.read \subseteq DOMAIN challenges)'
         /\ (worker = [release |-> worker.release, read |-> worker.read])'
  <1> DEFINE read == [y \in DOMAIN worker.read \cup {ch} |-> InitChallenge(y)]
  <1>1. ch \in DOMAIN challenges /\ challenges' = challenges
        /\ worker' = [worker EXCEPT !.read = read]
    BY DEF ProcessEvent
  <1>2. DOMAIN read = DOMAIN worker.read \cup {ch}
    OBVIOUS
  <1> HIDE DEF read
  <1>3. worker' = [release |-> worker.release, read |-> read]
    BY <1>1 DEF Types
  <1> QED
    BY <1>1, <1>2, <1>3 DEF Types

LEMMA EventKeeps ==
  ASSUME Sizes, ClaimsInv, NEW ch \in Ids, NEW u \in Users, NEW x \in Extras,
         NEW block \in 1..MaxBlock, NEW complete \in BOOLEAN,
         ProcessEvent(ch, u, x, block, complete)
  PROVE  ClaimsInv'
  <1>1. UNCHANGED <<paid, oracles, cached, everOracles, signed, transfers>>
    BY DEF ProcessEvent, oracleVars
  <1>2. CASE rows' = rows
    BY <1>1, <1>2, ManagersRead
       DEF ClaimsInv, Types, OneRowPerSpecifier, AttestedWhenDone, PaidWhenAttested
  <1>3. CASE rows' # rows
    <2> DEFINE spec == GenerateSpecifier(ch, u, x)
               others == {r \in rows : ~HasSpecifier(r, ch, spec) \/ r.done}
    <2>1. PICK row \in Row :
            /\ HasSpecifier(row, ch, spec) /\ row.done = (row.block # 0)
            /\ \A r \in rows : HasSpecifier(r, ch, spec) => ~r.done
            /\ rows' = others \cup {row}
      BY <1>3, EventOnRows
    <2>2. Types'
      <3>1. IsFiniteSet(others)
        BY FS_Subset DEF ClaimsInv, Types
      <3> QED
        BY <3>1, <2>1, FS_AddElement, ManagersRead DEF ClaimsInv, Types
    <2>3. OneRowPerSpecifier'
      BY <2>1 DEF ClaimsInv, OneRowPerSpecifier, HasSpecifier
    <2>4. AttestedWhenDone'
      BY <1>1, <2>1 DEF ClaimsInv, AttestedWhenDone
    <2> QED
      BY <1>1, <2>2, <2>3, <2>4 DEF ClaimsInv, PaidWhenAttested
  <1> QED
    BY <1>2, <1>3

-----------------------------------------------------------------------------
(* Attestations and payments *)

\* Whoever is given an attestation asked for a row that is complete.
LEMMA AttestedRow ==
  ASSUME ClaimsInv, NEW o, NEW r \in rows,
         AttestationError(o, r.user, r.ch, r.spec) = "none"
  PROVE  o \in ValidOracles /\ r.done /\ ~IsPaid(r) /\ r.user \notin deactivated
  <1> DEFINE found == {q \in rows : q.user = r.user /\ HasSpecifier(q, r.ch, r.spec)}
  <1>1. found = {r}
    BY DEF ClaimsInv, OneRowPerSpecifier, HasSpecifier
  <1>2. r.done \in BOOLEAN
    BY DEF ClaimsInv, Types, Row
  <1> QED
    BY <1>1, <1>2 DEF AttestationError

LEMMA SameTypes == Types /\ UNCHANGED <<rows, challenges, worker>> => Types'
  BY DEF Types

LEMMA AttestKeeps ==
  ASSUME ClaimsInv, NEW o \in Oracles, NEW r \in rows, Attest(o, r.user, r.ch, r.spec)
  PROVE  ClaimsInv'
  <1>1. o \in ValidOracles /\ r.done
    BY AttestedRow DEF Attest
  <1>2. ValidOracles \subseteq everOracles
    BY DEF ValidOracles, ClaimsInv
  <1>3. /\ UNCHANGED <<rows, paid, oracles, everOracles, transfers>>
        /\ cached' = ValidOracles
        /\ signed' = signed \cup {[ch |-> r.ch, spec |-> r.spec, user |-> r.user, oracle |-> o]}
    BY DEF Attest, tables
  <1>4. AttestedWhenDone'
    BY <1>1, <1>2, <1>3 DEF ClaimsInv, AttestedWhenDone, HasSpecifier
  <1>5. PaidWhenAttested'
    BY <1>3 DEF ClaimsInv, PaidWhenAttested
  <1> QED
    BY <1>2, <1>3, <1>4, <1>5, SameTypes DEF ClaimsInv, OneRowPerSpecifier, Attest, tables

LEMMA TransferKeeps ==
  ASSUME ClaimsInv, NEW s \in signed, Transfer(s)
  PROVE  ClaimsInv'
  BY SameTypes DEF ClaimsInv, OneRowPerSpecifier, AttestedWhenDone, PaidWhenAttested, Transfer,
                   tables, oracleVars

LEMMA DisbursementKeeps ==
  ASSUME ClaimsInv, NEW t \in transfers, IndexDisbursement(t)
  PROVE  ClaimsInv'
  <1>1. UNCHANGED <<rows, oracles, cached, everOracles, signed, transfers>>
    BY DEF IndexDisbursement, oracleVars
  <1>2. PaidWhenAttested'
    BY <1>1 DEF IndexDisbursement, ClaimsInv, PaidWhenAttested, HasSpecifier
  <1> QED
    BY <1>1, <1>2, SameTypes
       DEF ClaimsInv, OneRowPerSpecifier, AttestedWhenDone, IndexDisbursement

\* The steps that leave rows, attestations and payments alone.
LEMMA OthersKeep ==
  ASSUME ClaimsInv, Types', UNCHANGED <<rows, paid, signed, transfers>>,
         everOracles \subseteq everOracles', (oracles \cup cached \subseteq everOracles)',
         oracles' # {}
  PROVE  ClaimsInv'
  BY DEF ClaimsInv, OneRowPerSpecifier, AttestedWhenDone, PaidWhenAttested

\* A release adds its challenges to the table.
LEMMA ReleaseTypes ==
  ASSUME Sizes, Types, StartServer
  PROVE  Types'
  <1>1. PICK r \in DOMAIN Releases :
          challenges' = CreateNewChallenges(challenges, GetChallengesDicts(Releases[r]))
    BY DEF StartServer
  <1>2. DOMAIN challenges' = DOMAIN challenges \cup DOMAIN Releases[r].json
    BY <1>1 DEF CreateNewChallenges, GetChallengesDicts
  <1>3. DOMAIN Releases[r].json \subseteq Ids
    BY DEF Sizes
  <1> QED
    BY <1>2, <1>3 DEF Types, StartServer

LEMMA ClaimsNext == Sizes /\ ClaimsInv /\ [Next]_vars => ClaimsInv'
  <1> SUFFICES ASSUME Sizes, ClaimsInv, [Next]_vars PROVE ClaimsInv'
    OBVIOUS
  <1>1. ASSUME NEW ch \in Ids, NEW u \in Users, NEW x \in Extras, NEW block \in 1..MaxBlock,
               NEW complete \in BOOLEAN, ProcessEvent(ch, u, x, block, complete)
        PROVE  ClaimsInv'
    BY <1>1, EventKeeps
  <1>2. ASSUME NEW o \in Oracles, NEW r \in rows, Attest(o, r.user, r.ch, r.spec)
        PROVE  ClaimsInv'
    BY <1>2, AttestKeeps
  <1>3. ASSUME NEW s \in signed, Transfer(s) PROVE ClaimsInv'
    BY <1>3, TransferKeeps
  <1>4. ASSUME NEW t \in transfers, IndexDisbursement(t) PROVE ClaimsInv'
    BY <1>4, DisbursementKeeps
  <1>5. CASE StartServer
    BY <1>5, OthersKeep, ReleaseTypes DEF ClaimsInv, StartServer, oracleVars
  <1>6. CASE RestartWorker
    <2>1. Types'
      BY <1>6 DEF ClaimsInv, Types, RestartWorker, tables
    <2> QED
      BY <1>6, <2>1, OthersKeep DEF ClaimsInv, RestartWorker, tables, oracleVars
  <1>7. CASE IndexOracles \/ (\E o \in Oracles : ReplaceOracle(o))
             \/ (\E u \in Users : ChangeUser(u) \/ IndexBank(u)) \/ UNCHANGED vars
    <2>1. UNCHANGED <<worker, challenges, rows, paid, signed, transfers>>
      BY <1>7 DEF IndexOracles, ReplaceOracle, ChangeUser, IndexBank, vars, tables
    <2>2. /\ everOracles \subseteq everOracles' /\ (oracles \cup cached \subseteq everOracles)'
          /\ oracles' # {}
      BY <1>7 DEF ClaimsInv, IndexOracles, ReplaceOracle, ChangeUser, IndexBank, vars, oracleVars
    <2> QED
      BY <2>1, <2>2, OthersKeep, SameTypes DEF ClaimsInv
  <1> QED
    BY <1>1, <1>2, <1>3, <1>4, <1>5, <1>6, <1>7 DEF Next

LEMMA ClaimsAlways == ASSUME Sizes PROVE Spec => []ClaimsInv
  <1>1. Init => ClaimsInv
    <2> SUFFICES ASSUME Init PROVE ClaimsInv
      OBVIOUS
    <2>1. Types
      BY FS_EmptySet DEF Init, Types, GetChallengesDicts, Sizes
    <2> QED
      BY <2>1 DEF Init, ClaimsInv, OneRowPerSpecifier, AttestedWhenDone, PaidWhenAttested
  <1> QED
    BY <1>1, ClaimsNext, PTL DEF Spec

(* The type invariant of the tables (create_new_challenges,               *)
(* ChallengeManager.process).                                              *)
THEOREM ClaimsTyped == ASSUME Sizes PROVE Spec => []TypeOK
  <1>1. ClaimsInv => TypeOK
    <2> SUFFICES ASSUME ClaimsInv PROVE TypeOK
      OBVIOUS
    <2>1. \A d \in paid : d.user \in Users \cup {Nobody}
      BY DEF ClaimsInv, Types, Row, AttestedWhenDone, PaidWhenAttested
    <2> QED
      BY <2>1 DEF TypeOK, ClaimsInv, Types, Row
  <1> QED
    BY <1>1, ClaimsAlways, PTL

(* Attestations are for completed rows of the user, given to registered    *)
(* oracles, and what is recorded as paid was attested (get_attestation,    *)
(* process_batch_sol_reward_manager_txs).                                  *)
THEOREM RewardsAreEarned == ASSUME Sizes PROVE Spec => []PaidWhenEarned
  <1>1. ClaimsInv => PaidWhenEarned
    BY DEF ClaimsInv, AttestedWhenDone, PaidWhenAttested, PaidWhenEarned
  <1> QED
    BY <1>1, ClaimsAlways, PTL

-----------------------------------------------------------------------------
(* The list of the attester *)

LEMMA LeastOfTwo == ASSUME NEW a \in Int, NEW b \in Int PROVE Min({a, b}) = IF a <= b THEN a ELSE b
  BY DEF Min

\* An order of the rows has each of them once.
LEMMA OrderIsSequence ==
  ASSUME NEW R, IsFiniteSet(R), NEW s \in Ordered(R)
  PROVE  s \in Seq(R) /\ Len(s) = Cardinality(R)
  BY FS_CardinalityType DEF Ordered, SetToSeqs

LEMMA PageOfOrder ==
  ASSUME Sizes, NEW R, IsFiniteSet(R), NEW s \in Ordered(R), NEW offset \in Nat
  PROVE  LET end == Min({offset + Limit, Len(s)})
         IN ToSet(SubSeq(s, offset + 1, end)) = {s[i] : i \in (offset + 1)..end}
  <1> DEFINE end == Min({offset + Limit, Len(s)})
             page == SubSeq(s, offset + 1, end)
  <1>1. Len(s) \in Nat /\ s \in Seq(R)
    BY OrderIsSequence, FS_CardinalityType
  <1>2. end \in Int
    BY <1>1, LeastOfTwo DEF Sizes
  <1>3. DOMAIN page = 1..(end - offset) /\ \A i \in 1..(end - offset) : page[i] = s[offset + i]
    <2>1. end <= Len(s)
      BY <1>1, LeastOfTwo DEF Sizes
    <2>2. \A i \in (offset + 1)..end : s[i] \in R
      BY <1>1, <1>2, <2>1
    <2> HIDE DEF end
    <2>3. /\ page \in Seq(R) /\ Len(page) = IF offset + 1 <= end THEN end - (offset + 1) + 1 ELSE 0
          /\ \A i \in 1..(end - (offset + 1) + 1) : page[i] = s[(offset + 1) + i - 1]
      BY <1>2, <2>2, SubSeqProperties
    <2> QED
      BY <1>2, <2>3
  <1> HIDE DEF page, end
  <1>4. ASSUME NEW i \in (offset + 1)..end PROVE s[i] \in ToSet(page)
    <2>1. i - offset \in 1..(end - offset) /\ offset + (i - offset) = i
      BY <1>2
    <2> QED
      BY <1>3, <2>1 DEF ToSet
  <1>5. ASSUME NEW i \in 1..(end - offset) PROVE offset + i \in (offset + 1)..end
    BY <1>2
  <1>6. ToSet(page) = {s[i] : i \in (offset + 1)..end}
    BY <1>3, <1>4, <1>5 DEF ToSet
  <1> QED
    BY <1>6 DEF page, end

LEMMA PageIsUndisbursed ==
  ASSUME Sizes, ClaimsInv, NEW ofUsers, NEW after, NEW offset \in Nat,
         NEW page \in GetUndisbursedChallenges(ofUsers, after, offset), NEW r \in ToSet(page)
  PROVE  r \in Undisbursed
  <1> DEFINE matching == {q \in Undisbursed : q.user \in ofUsers /\ q.block > after}
  <1>1. IsFiniteSet(matching)
    BY FS_Subset DEF ClaimsInv, Types, Undisbursed, UndisbursedOfAll
  <1>2. PICK s \in Ordered(matching) :
          page = SubSeq(s, offset + 1, Min({offset + Limit, Len(s)}))
    BY DEF GetUndisbursedChallenges
  <1>3. s \in Seq(matching) /\ Len(s) \in Nat
    BY <1>1, OrderIsSequence
  <1>4. PICK i \in (offset + 1)..Min({offset + Limit, Len(s)}) : r = s[i]
    BY <1>1, <1>2, PageOfOrder
  <1>5. i \in 1..Len(s)
    BY <1>3, <1>4, LeastOfTwo DEF Sizes
  <1> QED
    BY <1>3, <1>4, <1>5

\* A row that is listed has an attestation for every registered oracle,
\* unless it was paid and its user's bank was not known.
LEMMA UndisbursedClaimable ==
  ASSUME ClaimsInv, NEW r \in Undisbursed
  PROVE  Claimable(r) \/ PaidToNobody(r)
  <1>1. r \in rows /\ r.done /\ r.user \notin deactivated
        /\ ~\E d \in paid : HasSpecifier(d, r.ch, r.spec) /\ d.user = r.user
    BY DEF Undisbursed, UndisbursedOfAll
  <1>2. CASE IsPaid(r)
    <2>1. PICK d \in paid : HasSpecifier(d, r.ch, r.spec)
      BY <1>2 DEF IsPaid
    <2>2. PICK s \in signed : HasSpecifier(s, d.ch, d.spec) /\ d.user \in {s.user, Nobody}
      BY DEF ClaimsInv, PaidWhenAttested
    <2>3. PICK q \in rows : HasSpecifier(q, s.ch, s.spec) /\ q.user = s.user
      BY DEF ClaimsInv, AttestedWhenDone
    <2>4. q = r
      BY <1>1, <2>1, <2>2, <2>3 DEF ClaimsInv, OneRowPerSpecifier, HasSpecifier
    <2> QED
      BY <1>1, <2>1, <2>2, <2>3, <2>4 DEF PaidToNobody
  <1>3. CASE ~IsPaid(r)
    <2> DEFINE found == {q \in rows : q.user = r.user /\ HasSpecifier(q, r.ch, r.spec)}
    <2>1. found = {r}
      BY <1>1 DEF ClaimsInv, OneRowPerSpecifier, HasSpecifier
    <2>2. ASSUME NEW o \in ValidOracles PROVE AttestationError(o, r.user, r.ch, r.spec) = "none"
      BY <1>1, <1>3, <2>1 DEF AttestationError
    <2> QED
      BY <2>2 DEF Claimable
  <1> QED
    BY <1>2, <1>3

(* Whatever page the attester asks for, it gets an attestation for each    *)
(* row on it, except those that were paid while the user's bank was not    *)
(* known (get_undisbursed_challenges, get_attestation).                    *)
THEOREM ListedCanBeClaimed == ASSUME Sizes PROVE Spec => []ListedAreClaimable
  <1>1. ClaimsInv => ListedAreClaimable
    <2> SUFFICES ASSUME ClaimsInv PROVE ListedAreClaimable
      OBVIOUS
    <2>1. 0..Cardinality(Undisbursed) \subseteq Nat
      <3>1. IsFiniteSet(Undisbursed)
        BY FS_Subset DEF ClaimsInv, Types, Undisbursed, UndisbursedOfAll
      <3> QED
        BY <3>1, FS_CardinalityType
    <2> QED
      BY <2>1, PageIsUndisbursed, UndisbursedClaimable DEF ListedAreClaimable
  <1> QED
    BY <1>1, ClaimsAlways, PTL

-----------------------------------------------------------------------------
(* The other way round: rows that can be claimed are on some page.  Any    *)
(* finite set of rows has an order.                                        *)

LEMMA LeastNumber ==
  ASSUME NEW T \in SUBSET Nat, T # {}
  PROVE  \E n \in T : \A m \in T : n <= m
  <1>1. PICK n \in T : \A m \in T : ~(<<m, n>> \in OpToRel(<, Nat))
    BY NatLessThanWellFounded, WFMin
  <1>2. ASSUME NEW m \in T PROVE n <= m
    <2>1. CASE m < n
      BY <1>1, <2>1 DEF OpToRel
    <2>2. CASE ~(m < n)
      BY <2>2
    <2> QED
      BY <2>1, <2>2
  <1> QED
    BY <1>2

LEMMA PositionType == ASSUME Sizes, NEW ch \in Ids PROVE Position(ch) \in Int
  <1>1. \E i \in DOMAIN Alphabet : Alphabet[i] = ch
    BY DEF Ids, ToSet
  <1> QED
    BY <1>1 DEF Position, Sizes

LEMMA BeforeIsOrder ==
  ASSUME Sizes, NEW r \in Row, NEW q \in Row, NEW p \in Row
  PROVE  /\ ~Before(r, r)
         /\ Before(r, q) /\ Before(q, p) => Before(r, p)
  <1>1. /\ r.block \in Int /\ q.block \in Int /\ p.block \in Int
        /\ r.user \in Int /\ q.user \in Int /\ p.user \in Int
    <2>1. ASSUME NEW x \in Row PROVE x.block \in Int /\ x.user \in Int
      <3>1. MaxBlock \in Nat /\ Users \subseteq Int
        BY DEF Sizes
      <3>2. x.block \in 0..MaxBlock /\ x.user \in Users
        BY DEF Row
      <3>3. x.block \in Int
        BY <3>1, <3>2
      <3>4. x.user \in Int
        BY <3>1, <3>2, Zenon
      <3> QED
        BY <3>3, <3>4
    <2> QED
      BY <2>1
  <1>2. Position(r.ch) \in Int /\ Position(q.ch) \in Int /\ Position(p.ch) \in Int
    BY PositionType DEF Row
  <1> QED
    BY <1>1, <1>2 DEF Before

LEMMA LastExists ==
  ASSUME Sizes, NEW R \in SUBSET Row, IsFiniteSet(R), R # {}
  PROVE  \E m \in R : \A q \in R : ~Before(m, q)
  <1> DEFINE HasLast(T) == \E m \in T : \A q \in T : ~Before(m, q)
             Sizes0 == {n \in Nat : \E T \in SUBSET R : T # {} /\ Cardinality(T) = n /\ ~HasLast(T)}
  <1> SUFFICES ASSUME ~HasLast(R) PROVE FALSE
    OBVIOUS
  <1>1. PICK n \in Sizes0 : \A k \in Sizes0 : n <= k
    <2>1. Cardinality(R) \in Sizes0
      BY FS_CardinalityType
    <2> HIDE DEF Sizes0
    <2>2. Sizes0 \subseteq Nat
      BY DEF Sizes0
    <2> QED
      BY <2>1, <2>2, LeastNumber
  <1>2. PICK T \in SUBSET R : T # {} /\ Cardinality(T) = n /\ ~HasLast(T)
    BY <1>1
  <1>3. PICK x \in T : TRUE
    BY <1>2
  <1>4. T \ {x} # {}
    BY <1>2, BeforeIsOrder
  <1>5. IsFiniteSet(T) /\ n \in Nat
    BY <1>2, FS_Subset, FS_CardinalityType
  <1>6. IsFiniteSet(T \ {x}) /\ Cardinality(T \ {x}) = n - 1 /\ n - 1 \in Nat
    <2>1. IsFiniteSet(T \ {x}) /\ Cardinality(T \ {x}) = n - 1
      BY <1>2, <1>3, <1>5, FS_RemoveElement
    <2> QED
      BY <2>1, FS_CardinalityType
  <1>7. HasLast(T \ {x})
    <2>1. n - 1 \notin Sizes0
      BY <1>1, <1>5
    <2> QED
      BY <1>4, <1>6, <2>1
  <1>8. PICK m \in T \ {x} : \A q \in T \ {x} : ~Before(m, q)
    BY <1>7
  <1>9. CASE Before(m, x)
    <2>1. ASSUME NEW q \in T PROVE ~Before(x, q)
      BY <1>3, <1>8, <1>9, BeforeIsOrder
    <2> QED
      BY <1>2, <1>3, <2>1
  <1>10. CASE ~Before(m, x)
    BY <1>2, <1>8, <1>10
  <1> QED
    BY <1>9, <1>10

LEMMA OrderExists ==
  ASSUME Sizes, NEW R \in SUBSET Row, IsFiniteSet(R)
  PROVE  Ordered(R) # {}
  <1> DEFINE Bad == {n \in Nat : \E T \in SUBSET R : Cardinality(T) = n /\ Ordered(T) = {}}
  <1> SUFFICES ASSUME Ordered(R) = {} PROVE FALSE
    OBVIOUS
  <1>1. PICK n \in Bad : \A k \in Bad : n <= k
    <2>1. Cardinality(R) \in Bad
      BY FS_CardinalityType
    <2> HIDE DEF Bad
    <2>2. Bad \subseteq Nat
      BY DEF Bad
    <2> QED
      BY <2>1, <2>2, LeastNumber
  <1>2. PICK T \in SUBSET R : Cardinality(T) = n /\ Ordered(T) = {}
    BY <1>1
  <1>3. IsFiniteSet(T) /\ n \in Nat
    BY <1>2, FS_Subset, FS_CardinalityType
  <1>4. T # {}
    <2> SUFFICES ASSUME T = {} PROVE FALSE
      OBVIOUS
    <2>1. n = 0
      BY <1>2, FS_EmptySet
    <2>2. [i \in 1..0 |-> 0] \in Ordered(T)
      BY <1>2, <2>1 DEF Ordered, SetToSeqs
    <2> QED
      BY <1>2, <2>2
  <1>5. PICK m \in T : \A q \in T : ~Before(m, q)
    BY <1>3, <1>4, LastExists
  <1>6. Cardinality(T \ {m}) = n - 1 /\ n - 1 \in Nat
    <2>1. IsFiniteSet(T \ {m}) /\ Cardinality(T \ {m}) = n - 1
      BY <1>2, <1>3, <1>5, FS_RemoveElement
    <2> QED
      BY <2>1, FS_CardinalityType
  <1>7. PICK s : s \in Ordered(T \ {m})
    <2>1. n - 1 \notin Bad
      BY <1>1, <1>3
    <2> QED
      BY <1>6, <2>1
  <1>8. /\ s \in [1..(n - 1) -> T \ {m}]
        /\ \A i, j \in 1..(n - 1) : i # j => s[i] # s[j]
        /\ \A i, j \in 1..(n - 1) : i < j => ~Before(s[j], s[i])
    BY <1>6, <1>7 DEF Ordered, SetToSeqs
  <1> DEFINE t == [i \in 1..n |-> IF i = n THEN m ELSE s[i]]
  <1>9. ASSUME NEW i \in 1..n PROVE i = n \/ i \in 1..(n - 1)
    BY <1>3
  <1>10. t \in [1..n -> T]
    BY <1>5, <1>8, <1>9
  <1>11. \A i, j \in 1..n : i # j => t[i] # t[j]
    BY <1>8, <1>9
  <1>12. \A i, j \in 1..n : i < j => ~Before(t[j], t[i])
    <2> SUFFICES ASSUME NEW i \in 1..n, NEW j \in 1..n, i < j PROVE ~Before(t[j], t[i])
      OBVIOUS
    <2>1. i \in 1..(n - 1)
      BY <1>3
    <2>2. CASE j = n
      BY <1>5, <1>8, <2>1, <2>2
    <2>3. CASE j # n
      BY <1>8, <1>9, <2>1, <2>3
    <2> QED
      BY <2>2, <2>3
  <1> HIDE DEF t
  <1>13. t \in Ordered(T)
    BY <1>2, <1>10, <1>11, <1>12 DEF Ordered, SetToSeqs
  <1> QED
    BY <1>2, <1>13

\* An order has every row at some place.
LEMMA OrderCovers ==
  ASSUME NEW R, IsFiniteSet(R), NEW s \in Ordered(R), NEW r \in R
  PROVE  \E i \in 1..Cardinality(R) : s[i] = r
  <1> DEFINE D == 1..Cardinality(R)
  <1>1. s \in [D -> R] /\ \A i, j \in D : i # j => s[i] # s[j]
    BY DEF Ordered, SetToSeqs
  <1>2. IsFiniteSet(D) /\ Cardinality(D) = Cardinality(R)
    BY FS_CardinalityType, FS_Interval
  <1>3. s \in Injection(D, R)
    BY <1>1 DEF Injection, IsInjective
  <1>4. s \in Surjection(D, R)
    BY <1>2, <1>3, FS_Injection
  <1> QED
    BY <1>4 DEF Surjection

(* Whoever can get an attestation for a completed row of an active         *)
(* challenge, and has a bank, is on some page of the list of its           *)
(* challenges completed since the block before                             *)
(* (get_undisbursed_challenges): the order and the pages lose no row.      *)
THEOREM ClaimableIsListed == ASSUME Sizes PROVE Spec => []ClaimableAreListed
  <1>1. ClaimsInv => ClaimableAreListed
    <2> SUFFICES ASSUME ClaimsInv, NEW r \in rows,
                        Claimable(r), Active(r.ch), r.user \in banks
                 PROVE  \E offset \in 0..Cardinality(rows) :
                          \E page \in GetUndisbursedChallenges({r.user}, r.block - 1, offset) :
                            r \in ToSet(page)
      BY DEF ClaimableAreListed
    <2> DEFINE R == {q \in Undisbursed : q.user \in {r.user} /\ q.block > r.block - 1}
    <2>1. PICK o \in ValidOracles : TRUE
      BY DEF ValidOracles, ClaimsInv
    <2>2. r.done /\ ~IsPaid(r) /\ r.user \notin deactivated
      BY <2>1, AttestedRow DEF Claimable
    <2>3. r \in R
      <3>1. r.block \in Int
        BY DEF ClaimsInv, Types, Row, Sizes
      <3> QED
        BY <2>2, <3>1 DEF Undisbursed, UndisbursedOfAll, IsPaid
    <2>4. R \subseteq rows /\ rows \subseteq Row /\ IsFiniteSet(rows)
      BY DEF Undisbursed, UndisbursedOfAll, ClaimsInv, Types
    <2>5. IsFiniteSet(R) /\ Cardinality(R) <= Cardinality(rows)
      BY <2>4, FS_Subset
    <2>6. PICK s : s \in Ordered(R)
      BY <2>4, <2>5, OrderExists
    <2>7. PICK i \in 1..Cardinality(R) : s[i] = r
      BY <2>3, <2>5, <2>6, OrderCovers
    <2> DEFINE offset == i - 1
               end == Min({offset + Limit, Len(s)})
    <2>8. Cardinality(R) \in Nat /\ Cardinality(rows) \in Nat /\ Len(s) = Cardinality(R)
      BY <2>4, <2>5, <2>6, FS_CardinalityType, OrderIsSequence
    <2>9. offset \in 0..Cardinality(rows) /\ offset \in Nat /\ i \in (offset + 1)..end
      BY <2>5, <2>7, <2>8, LeastOfTwo DEF Sizes
    <2>10. r \in ToSet(SubSeq(s, offset + 1, end))
      <3>1. ToSet(SubSeq(s, offset + 1, end)) = {s[j] : j \in (offset + 1)..end}
        BY <2>5, <2>6, <2>9, PageOfOrder
      <3> QED
        BY <2>7, <2>9, <3>1
    <2>11. SubSeq(s, offset + 1, end) \in GetUndisbursedChallenges({r.user}, r.block - 1, offset)
      BY <2>6 DEF GetUndisbursedChallenges
    <2> QED
      BY <2>9, <2>10, <2>11
  <1> QED
    BY <1>1, ClaimsAlways, PTL

-----------------------------------------------------------------------------
(* The backfill, for intervals of any length, any rows of old and any      *)
(* bounds on blocks, reverts and faults.                                   *)

CONSTANTS OldRows, Height, BlockInterval, Backfill, MaxBlocks, MaxReverts, MaxFaults
VARIABLES current, social, checkpoint, task, dispatched, lost, env
Past == INSTANCE ProfileBackfill WITH rows <- social

PastSizes ==
  Height \in Nat /\ BlockInterval \in Nat /\ MaxBlocks \in Nat /\ OldRows \subseteq 1..Height

Event == [id : Int, block : Nat]
PastTypes ==
  /\ current \in Nat /\ env.blocks \in 0..MaxBlocks /\ current <= Height + env.blocks
  /\ env = [blocks |-> env.blocks, reverts |-> env.reverts, faults |-> env.faults]
  /\ \A r \in social : r \in Event /\ 1 <= r.block /\ r.block <= current
  /\ task = [pc |-> task.pc, block |-> task.block, queue |-> task.queue]
  /\ task.queue \cup dispatched \cup lost \subseteq Event
  /\ task.block \in Int /\ task.block <= Height + MaxBlocks
  /\ checkpoint \in Int /\ checkpoint <= Height + MaxBlocks

\* A pass that is to move the checkpoint has in its queue what no one else
\* dispatched above the new one, blocks indexed since included.
Handled(r) == r \in dispatched \cup lost
QueueComplete ==
  task.pc = "dispatched" =>
    \A r \in social : r.block > Past!MinBlock(task.block) => Handled(r) \/ r \in task.queue
PastInv == PastTypes /\ QueueComplete /\ Past!NothingPassedOver

LEMMA IndexBlockKeeps == PastSizes /\ PastInv /\ Past!IndexBlock => PastInv'
  <1> SUFFICES ASSUME PastSizes, PastInv, Past!IndexBlock PROVE PastInv'
    OBVIOUS
  <1> DEFINE row == [id |-> env.blocks + 1, block |-> current + 1]
  <1>1. PICK new \in {{}, {row}}, crash \in BOOLEAN :
          /\ env.blocks < MaxBlocks
          /\ current' = current + 1 /\ social' = social \cup new
          /\ dispatched' = IF crash THEN dispatched ELSE dispatched \cup new
          /\ lost' = IF crash THEN lost \cup new ELSE lost
          /\ env' = [env EXCEPT !.blocks = @ + 1, !.faults = IF crash THEN @ + 1 ELSE @]
          /\ UNCHANGED <<checkpoint, task>>
    BY DEF Past!IndexBlock
  <1>2. env'.blocks = env.blocks + 1
        /\ env' = [blocks |-> env'.blocks, reverts |-> env'.reverts, faults |-> env'.faults]
    BY <1>1 DEF PastInv, PastTypes
  <1>3. row \in Event /\ row.block = current + 1
    BY DEF PastInv, PastTypes, Event, PastSizes
  <1> HIDE DEF row
  <1>4. dispatched' \cup lost' = dispatched \cup lost \cup new
    BY <1>1
  <1>5. PastTypes'
    <2>1. (current \in Nat /\ env.blocks \in 0..MaxBlocks /\ current <= Height + env.blocks)'
      BY <1>1, <1>2 DEF PastInv, PastTypes, PastSizes
    <2>2. \A r \in social' : r \in Event /\ 1 <= r.block /\ r.block <= current'
      <3>1. current \in Nat /\ current' = current + 1 /\ social' \subseteq social \cup {row}
        BY <1>1 DEF PastInv, PastTypes
      <3> QED
        BY <1>3, <3>1 DEF PastInv, PastTypes, Event
    <2>3. (task.queue \cup dispatched \cup lost \subseteq Event)'
      BY <1>1, <1>3, <1>4 DEF PastInv, PastTypes
    <2> QED
      BY <1>1, <1>2, <2>1, <2>2, <2>3 DEF PastInv, PastTypes
  <1>6. QueueComplete' /\ Past!NothingPassedOver'
    BY <1>1, <1>4 DEF PastInv, QueueComplete, Past!NothingPassedOver, Past!MinBlock, Handled
  <1> QED
    BY <1>5, <1>6 DEF PastInv

LEMMA RevertBlockKeeps == PastSizes /\ PastInv /\ Past!RevertBlock => PastInv'
  <1> SUFFICES ASSUME PastSizes, PastInv, Past!RevertBlock PROVE PastInv'
    OBVIOUS
  <1>1. /\ current > 0 /\ current' = current - 1
        /\ social' = {r \in social : r.block # current}
        /\ UNCHANGED <<checkpoint, task, dispatched, lost>>
    BY DEF Past!RevertBlock
  <1>2. env'.blocks = env.blocks
        /\ env' = [blocks |-> env'.blocks, reverts |-> env'.reverts, faults |-> env'.faults]
    BY DEF Past!RevertBlock, PastInv, PastTypes
  <1>3. PastTypes'
    BY <1>1, <1>2 DEF PastInv, PastTypes, PastSizes, Event
  <1>4. QueueComplete' /\ Past!NothingPassedOver'
    BY <1>1 DEF PastInv, QueueComplete, Past!NothingPassedOver, Past!MinBlock, Handled
  <1> QED
    BY <1>3, <1>4 DEF PastInv

LEMMA DispatchKeeps == PastSizes /\ PastInv /\ Past!Dispatch => PastInv'
  <1> SUFFICES ASSUME PastSizes, PastInv, Past!Dispatch PROVE PastInv'
    OBVIOUS
  <1> DEFINE block == Past!GetLatestBackfill
             queue == {r \in social : Past!InInterval(r, block)}
  <1>1. /\ task.pc = "idle" /\ task' = [pc |-> "dispatched", block |-> block, queue |-> queue]
        /\ UNCHANGED <<current, social, checkpoint, dispatched, lost, env>>
    BY DEF Past!Dispatch
  <1>2. block \in Int /\ block <= Height + MaxBlocks /\ Past!MinBlock(block) \in Int
    BY DEF PastInv, PastTypes, PastSizes, Past!GetLatestBackfill, Past!MinBlock
  <1>3. \A r \in social : r.block > block => Handled(r)
    BY <1>1 DEF PastInv, PastTypes, Past!NothingPassedOver, Past!GetLatestBackfill, Handled, Event
  <1> HIDE DEF block
  <1>4. \A r \in social : r.block > Past!MinBlock(block) => Handled(r) \/ r \in queue
    BY <1>2, <1>3 DEF PastInv, PastTypes, Event, Past!InInterval
  <1>5. queue \subseteq Event
    BY DEF PastInv, PastTypes
  <1> HIDE DEF queue
  <1>6. PastTypes'
    BY <1>1, <1>2, <1>5 DEF PastInv, PastTypes
  <1>7. QueueComplete' /\ Past!NothingPassedOver'
    BY <1>1, <1>4 DEF PastInv, QueueComplete, Past!NothingPassedOver, Past!MinBlock, Handled
  <1> QED
    BY <1>6, <1>7 DEF PastInv

LEMMA CommitCheckpointKeeps ==
  ASSUME PastSizes, PastInv, NEW fails \in BOOLEAN, Past!CommitCheckpoint(fails)
  PROVE  PastInv'
  <1>1. /\ task.pc = "dispatched" /\ task' = [task EXCEPT !.pc = "flush"]
        /\ checkpoint' = IF fails THEN checkpoint ELSE Past!MinBlock(task.block)
        /\ UNCHANGED <<current, social, dispatched, lost>>
    BY DEF Past!CommitCheckpoint
  <1>2. /\ task'.pc = "flush" /\ task'.block = task.block /\ task'.queue = task.queue
        /\ task' = [pc |-> task'.pc, block |-> task'.block, queue |-> task'.queue]
    BY <1>1 DEF PastInv, PastTypes
  <1>3. env'.blocks = env.blocks
        /\ env' = [blocks |-> env'.blocks, reverts |-> env'.reverts, faults |-> env'.faults]
    BY DEF Past!CommitCheckpoint, PastInv, PastTypes
  <1>4. Past!MinBlock(task.block) \in Int /\ Past!MinBlock(task.block) <= task.block
    BY DEF PastInv, PastTypes, PastSizes, Past!MinBlock
  <1>5. PastTypes'
    <2>1. (checkpoint \in Int /\ checkpoint <= Height + MaxBlocks)'
      BY <1>1, <1>4 DEF PastInv, PastTypes, PastSizes
    <2> QED
      BY <1>1, <1>2, <1>3, <2>1 DEF PastInv, PastTypes
  <1>6. Past!NothingPassedOver'
    BY <1>1, <1>2 DEF PastInv, QueueComplete, Past!NothingPassedOver, Handled
  <1>7. QueueComplete'
    BY <1>2 DEF QueueComplete
  <1> QED
    BY <1>5, <1>6, <1>7 DEF PastInv

LEMMA EndKeeps == PastSizes /\ PastInv /\ (Past!Flush \/ Past!Crash) => PastInv'
  <1> SUFFICES ASSUME PastSizes, PastInv, Past!Flush \/ Past!Crash PROVE PastInv'
    OBVIOUS
  <1>1. /\ task' = [pc |-> "idle", block |-> 0, queue |-> {}]
        /\ UNCHANGED <<current, social, checkpoint>>
    BY DEF Past!Flush, Past!Crash, Past!Idle
  <1>2. /\ env'.blocks = env.blocks
        /\ env' = [blocks |-> env'.blocks, reverts |-> env'.reverts, faults |-> env'.faults]
    BY DEF Past!Flush, Past!Crash, PastInv, PastTypes
  <1>3. /\ dispatched \cup lost \subseteq dispatched' \cup lost'
        /\ dispatched' \cup lost' \subseteq dispatched \cup lost \cup task.queue
        /\ task.pc = "flush" => task.queue \subseteq dispatched' \cup lost'
    BY DEF Past!Flush, Past!Crash
  <1>4. PastTypes'
    <2>1. /\ task'.block \in Int /\ task'.block <= Height + MaxBlocks
          /\ task' = [pc |-> task'.pc, block |-> task'.block, queue |-> task'.queue]
      BY <1>1 DEF PastSizes
    <2>2. (task.queue \cup dispatched \cup lost \subseteq Event)'
      BY <1>1, <1>3 DEF PastInv, PastTypes
    <2> QED
      BY <1>1, <1>2, <2>1, <2>2 DEF PastInv, PastTypes
  <1>5. QueueComplete' /\ Past!NothingPassedOver'
    BY <1>1, <1>3 DEF PastInv, QueueComplete, Past!NothingPassedOver, Handled
  <1> QED
    BY <1>4, <1>5 DEF PastInv

LEMMA PastNext == PastSizes /\ PastInv /\ [Past!Next]_(Past!vars) => PastInv'
  <1> SUFFICES ASSUME PastSizes, PastInv, [Past!Next]_(Past!vars) PROVE PastInv'
    OBVIOUS
  <1>1. ASSUME NEW fails \in BOOLEAN, Past!CommitCheckpoint(fails) PROVE PastInv'
    BY <1>1, CommitCheckpointKeeps
  <1>2. CASE UNCHANGED Past!vars
    BY <1>2 DEF Past!vars, PastInv, PastTypes, QueueComplete, Handled, Past!NothingPassedOver
  <1> QED
    BY <1>1, <1>2, IndexBlockKeeps, RevertBlockKeeps, DispatchKeeps, EndKeeps DEF Past!Next

LEMMA PastAlways == ASSUME PastSizes PROVE Past!Spec => []PastInv
  <1>1. Past!Init => PastInv
    <2> SUFFICES ASSUME Past!Init PROVE PastInv
      OBVIOUS
    <2>1. PastTypes
      BY DEF Past!Init, Past!Idle, PastTypes, PastSizes, Event
    <2> QED
      BY <2>1 DEF Past!Init, Past!Idle, PastInv, QueueComplete, Past!NothingPassedOver
  <1> QED
    BY <1>1, PastNext, PTL DEF Past!Spec

(* Above the checkpoint the event of every row has been dispatched, is in  *)
(* the queue of the pass that moved the checkpoint, or was lost in a crash *)
(* (enqueue_social_rewards_check): for any interval, and with blocks       *)
(* indexed and reverted at any moment of a pass.                           *)
THEOREM BackfillPassesNothingOver == ASSUME PastSizes PROVE Past!Spec => []Past!NothingPassedOver
  <1>1. PastInv => Past!NothingPassedOver
    BY DEF PastInv
  <1> QED
    BY <1>1, PastAlways, PTL

(* The type invariant of the backfill; the checkpoint stays below the      *)
(* newest block.                                                           *)
THEOREM BackfillTyped == ASSUME PastSizes PROVE Past!Spec => []Past!TypeOK
  <1>1. PastInv => Past!TypeOK
    BY DEF PastInv, PastTypes, Event, Past!TypeOK
  <1> QED
    BY <1>1, PastAlways, PTL

-----------------------------------------------------------------------------
(* The weekly winners, for any tracks, playlists, calendars and bounds.    *)

CONSTANTS Tracks, Owner, Contents, Unranked, MinTracks, MinOthers, Top, MaxEvents,
          Calendar, MaxRankings, MaxHidden, MaxFails
VARIABLES clock, shown, rankings, tasks, job, queue, results
Won == INSTANCE TrendingRewards

RankTypes == {"tracks", "underground", "playlists"}
Items == Tracks \cup Won!Playlists
(* Dates follow each other; there are tracks, and winners of each ranking. *)
Weekly ==
  /\ IsFiniteSet(Tracks) /\ Tracks # {} /\ IsFiniteSet(Won!Playlists)
  /\ Items \subseteq DOMAIN Owner
  /\ Top \in Nat \ {0} /\ MaxEvents \in Nat
  /\ Calendar \in Seq([date : Int, hour : BOOLEAN])
  /\ \A i, j \in DOMAIN Calendar : i <= j => Calendar[i].date <= Calendar[j].date
RankEvent == [type : RankTypes, version : {"EJ57D", "BDNxn"}, week : Won!Dates, rank : 1..Top,
          id : Items, user : {Owner[x] : x \in Items}]

Elements(s) == {s[i] : i \in DOMAIN s}
Sent == results \cup Elements(queue)
AllEvents == Sent \cup Elements(job.events)
Today == Calendar[clock].date
(* A ranking in redis has a first track.                                   *)
IsRanking(k, r) == r \in Seq(Items) /\ (k.type # "playlists" => Len(r) >= 1)

WeekTypes ==
  /\ clock \in 0..Len(Calendar) /\ shown \subseteq Won!Playlists
  /\ DOMAIN rankings = Won!Keys
  /\ \A k \in Won!Keys : rankings[k] = Won!NotCached \/ IsRanking(k, rankings[k])
  /\ tasks \in Seq(Won!Dates)
  /\ job \in [pc : {"idle", "calculate"}, date : Int, step : Nat, events : Seq(RankEvent)]
  /\ job.pc = "idle" => job.events = <<>> /\ job.date = 0 /\ job.step = 0
  /\ job.pc = "calculate" => job.date \in Won!Dates /\ job.step \in 1..5
  /\ queue \in Seq(RankEvent)
  /\ results \subseteq RankEvent /\ IsFiniteSet(results)
  /\ env \in [rankings : Nat, hidden : Nat, fails : Nat]
(* The rows of both tables name the same winners, one of each rank.        *)
OneRow ==
  /\ \A e, d \in results : Won!Same(e, d) => e = d
  /\ challenges = {Won!Row(e) : e \in results}
(* Calculations are of the date of the blocks.                             *)
OfToday ==
  /\ tasks # <<>> \/ job.pc = "calculate" => clock > 0
  /\ \A i \in DOMAIN tasks : tasks[i] = Today
  /\ job.pc = "calculate" => job.date = Today
  /\ \A e \in Elements(job.events) : e.week = job.date
  /\ \A e \in Sent : clock > 0 /\ e.week <= Today
NoGaps(S) == \A e \in S : \A i \in 1..e.rank :
  \E d \in S : d.type = e.type /\ d.week = e.week /\ d.rank = i
(* If nothing has failed: ranks without gaps, the tracks and the           *)
(* underground of each date with results, and a calculation of each date   *)
(* that was asked for.                                                     *)
HasWinner(S, type, date) == \E e \in S : e.type = type /\ e.week = date
RanksKept ==
  /\ NoGaps(AllEvents)
  /\ job.step > 1 => HasWinner(Elements(job.events), "tracks", job.date)
  /\ job.step > 2 => HasWinner(Elements(job.events), "underground", job.date)
  /\ \A e \in Sent : HasWinner(Sent, "tracks", e.week) /\ HasWinner(Sent, "underground", e.week)
  /\ \A date \in Won!Dates : Won!Asked(date) =>
       \/ \E i \in DOMAIN tasks : tasks[i] = date
       \/ job.pc = "calculate" /\ job.date = date
       \/ \E e \in Sent : e.week = date
WeekInv == WeekTypes /\ OneRow /\ OfToday /\ (env.fails = 0 => RanksKept)

-----------------------------------------------------------------------------
(* Sequences of events *)

LEMMA ElementsOfBoth ==
  ASSUME NEW S, NEW s \in Seq(S), NEW t \in Seq(S)
  PROVE  s \o t \in Seq(S) /\ Elements(s \o t) = Elements(s) \cup Elements(t)
  <1>1. /\ s \o t \in Seq(S) /\ Len(s \o t) = Len(s) + Len(t)
        /\ \A i \in 1..(Len(s) + Len(t)) : (s \o t)[i] = IF i <= Len(s) THEN s[i] ELSE t[i - Len(s)]
    BY ConcatProperties
  <1>2. /\ DOMAIN s = 1..Len(s) /\ DOMAIN t = 1..Len(t) /\ Len(s) \in Nat /\ Len(t) \in Nat
        /\ DOMAIN (s \o t) = 1..(Len(s) + Len(t))
    BY <1>1
  <1>3. ASSUME NEW e \in Elements(s \o t) PROVE e \in Elements(s) \cup Elements(t)
    <2>1. PICK i \in 1..(Len(s) + Len(t)) : e = (s \o t)[i]
      BY <1>2 DEF Elements
    <2>2. CASE i <= Len(s)
      BY <1>1, <1>2, <2>1, <2>2 DEF Elements
    <2>3. CASE ~(i <= Len(s))
      <3>1. i - Len(s) \in DOMAIN t /\ e = t[i - Len(s)]
        BY <1>1, <1>2, <2>1, <2>3
      <3> QED
        BY <3>1 DEF Elements
    <2> QED
      BY <2>2, <2>3
  <1>4. ASSUME NEW e \in Elements(s) PROVE e \in Elements(s \o t)
    <2>1. PICK i \in 1..Len(s) : e = s[i]
      BY <1>2 DEF Elements
    <2>2. i \in DOMAIN (s \o t) /\ (s \o t)[i] = e
      BY <1>1, <1>2, <2>1
    <2> QED
      BY <2>2 DEF Elements
  <1>5. ASSUME NEW e \in Elements(t) PROVE e \in Elements(s \o t)
    <2>1. PICK i \in 1..Len(t) : e = t[i]
      BY <1>2 DEF Elements
    <2>2. Len(s) + i \in DOMAIN (s \o t) /\ (s \o t)[Len(s) + i] = e
      BY <1>1, <1>2, <2>1
    <2> QED
      BY <2>2 DEF Elements
  <1> QED
    BY <1>1, <1>3, <1>4, <1>5

LEMMA IndicesOfRest ==
  ASSUME NEW l \in Nat, NEW n \in 0..l
  PROVE  /\ (IF n + 1 <= l THEN l - (n + 1) + 1 ELSE 0) = l - n /\ l - (n + 1) + 1 = l - n
         /\ \A i \in 1..(l - n) : n + 1 + i - 1 = n + i
  OBVIOUS

(* process_events takes the first events of the queue.                     *)
LEMMA BatchAndRest ==
  ASSUME MaxEvents \in Nat, NEW S, queue \in Seq(S)
  PROVE  /\ Won!Batch \in Seq(S) /\ Won!Rest \in Seq(S)
         /\ Elements(queue) = Elements(Won!Batch) \cup Elements(Won!Rest)
  <1> DEFINE n == IF Len(queue) < MaxEvents + 1 THEN Len(queue) ELSE MaxEvents + 1
  <1>1. n \in 0..Len(queue) /\ Len(queue) \in Nat /\ DOMAIN queue = 1..Len(queue)
    OBVIOUS
  <1>2. Won!Batch = SubSeq(queue, 1, n)
    BY DEF Won!Batch
  <1> HIDE DEF n
  <1>3. Won!Batch \in Seq(S) /\ Len(Won!Batch) = n /\ \A i \in 1..n : Won!Batch[i] = queue[i]
    BY <1>1, <1>2
  <1>4. DOMAIN Won!Batch = 1..n
    BY <1>3
  <1>5. Won!Rest = SubSeq(queue, n + 1, Len(queue))
    BY <1>3 DEF Won!Rest
  <1>6. /\ Won!Rest \in Seq(S) /\ Len(Won!Rest) = Len(queue) - n
        /\ \A i \in 1..(Len(queue) - n) : Won!Rest[i] = queue[n + i]
    <2>1. \A i \in (n + 1)..Len(queue) : queue[i] \in S
      BY <1>1
    <2>2. /\ (IF n + 1 <= Len(queue) THEN Len(queue) - (n + 1) + 1 ELSE 0) = Len(queue) - n
          /\ Len(queue) - (n + 1) + 1 = Len(queue) - n
          /\ \A i \in 1..(Len(queue) - n) : n + 1 + i - 1 = n + i
      BY <1>1, IndicesOfRest
    <2>3. /\ Won!Rest \in Seq(S)
          /\ Len(Won!Rest) = IF n + 1 <= Len(queue) THEN Len(queue) - (n + 1) + 1 ELSE 0
          /\ \A i \in 1..(Len(queue) - (n + 1) + 1) : Won!Rest[i] = queue[n + 1 + i - 1]
      BY <1>1, <1>5, <2>1, SubSeqProperties
    <2>4. ASSUME NEW i \in 1..(Len(queue) - n) PROVE Won!Rest[i] = queue[n + i]
      BY <2>2, <2>3, Zenon
    <2>5. Len(Won!Rest) = Len(queue) - n
      BY <2>2, <2>3, Zenon
    <2> QED
      BY <2>3, <2>4, <2>5
  <1>7. DOMAIN Won!Rest = 1..(Len(queue) - n)
    BY <1>6
  <1>8. ASSUME NEW e \in Elements(queue) PROVE e \in Elements(Won!Batch) \cup Elements(Won!Rest)
    <2>1. PICK i \in 1..Len(queue) : e = queue[i]
      BY <1>1 DEF Elements
    <2>2. CASE i <= n
      BY <1>1, <1>3, <1>4, <2>1, <2>2 DEF Elements
    <2>3. CASE ~(i <= n)
      <3>1. i - n \in DOMAIN Won!Rest /\ Won!Rest[i - n] = e
        BY <1>1, <1>6, <1>7, <2>1, <2>3
      <3> QED
        BY <3>1 DEF Elements
    <2> QED
      BY <2>2, <2>3
  <1>9. Elements(Won!Batch) \subseteq Elements(queue)
    BY <1>1, <1>3, <1>4 DEF Elements
  <1>10. ASSUME NEW e \in Elements(Won!Rest) PROVE e \in Elements(queue)
    <2>1. PICK i \in 1..(Len(queue) - n) : e = Won!Rest[i]
      BY <1>7 DEF Elements
    <2>2. n + i \in DOMAIN queue /\ queue[n + i] = e
      BY <1>1, <1>6, <2>1
    <2> QED
      BY <2>2 DEF Elements
  <1> QED
    BY <1>3, <1>6, <1>8, <1>9, <1>10

LEMMA FiniteElements ==
  ASSUME NEW S, NEW s \in Seq(S)
  PROVE  IsFiniteSet(Elements(s)) /\ Elements(s) \subseteq S
  <1>1. s \in Surjection(1..Len(s), Elements(s))
    <2>1. DOMAIN s = 1..Len(s) /\ s \in [1..Len(s) -> S]
      OBVIOUS
    <2>2. s \in [1..Len(s) -> Elements(s)]
      BY <2>1 DEF Elements
    <2>3. \A t \in Elements(s) : \E i \in 1..Len(s) : s[i] = t
      BY <2>1 DEF Elements
    <2> QED
      BY <2>2, <2>3 DEF Surjection
  <1>2. IsFiniteSet(1..Len(s))
    BY FS_Interval
  <1> QED
    BY <1>1, <1>2, FS_Surjection DEF Elements

-----------------------------------------------------------------------------
(* A batch is processed *)

OneRowOf(C, R) ==
  /\ \A e, d \in R : Won!Same(e, d) => e = d
  /\ C = {Won!Row(e) : e \in R}

(* After the events of one challenge, and after those of all.              *)
TakenOf(C, R, type, D, Q) ==
  /\ Won!Process([challenges |-> C, results |-> R], type) = [challenges |-> D, results |-> Q]
  /\ OneRowOf(D, Q) /\ IsFiniteSet(Q)
  /\ R \subseteq Q /\ Q \subseteq R \cup Elements(Won!Batch)
  /\ \A e \in Elements(Won!Batch) : e.type = type => \E d \in Q : Won!Same(d, e)
Taken(C, R, D, Q) ==
  /\ Won!ProcessAll([challenges |-> C, results |-> R]) = [challenges |-> D, results |-> Q]
  /\ OneRowOf(D, Q) /\ IsFiniteSet(Q)
  /\ R \subseteq Q /\ Q \subseteq R \cup Elements(Won!Batch)
  /\ \A e \in Elements(Won!Batch) : \E d \in Q : Won!Same(d, e)

(* Of the events of a batch the last one of each rank is taken.            *)
LEMMA LastOfBatch ==
  ASSUME NEW S, Won!Batch \in Seq(S), NEW type
  PROVE  /\ Won!LastOf(type) \subseteq Elements(Won!Batch) /\ \A e \in Won!LastOf(type) : e.type = type
         /\ \A e, d \in Won!LastOf(type) : Won!Same(e, d) => e = d
         /\ \A e \in Elements(Won!Batch) : e.type = type => \E d \in Won!LastOf(type) : Won!Same(d, e)
  <1>1. DOMAIN Won!Batch = 1..Len(Won!Batch) /\ Len(Won!Batch) \in Nat
    OBVIOUS
  <1>2. \A e, d \in Won!LastOf(type) : Won!Same(e, d) => e = d
    <2>1. SUFFICES ASSUME NEW i \in DOMAIN Won!Batch, NEW j \in DOMAIN Won!Batch,
                          ~\E k \in DOMAIN Won!Batch : k > i /\ Won!Same(Won!Batch[k], Won!Batch[i]),
                          ~\E k \in DOMAIN Won!Batch : k > j /\ Won!Same(Won!Batch[k], Won!Batch[j]),
                          Won!Same(Won!Batch[i], Won!Batch[j])
                   PROVE  Won!Batch[i] = Won!Batch[j]
      BY DEF Won!LastOf
    <2>2. Won!Same(Won!Batch[j], Won!Batch[i])
      BY <2>1 DEF Won!Same
    <2>3. i = j
      BY <1>1, <2>1, <2>2
    <2> QED
      BY <2>3
  <1>3. ASSUME NEW e \in Elements(Won!Batch), e.type = type PROVE \E d \in Won!LastOf(type) : Won!Same(d, e)
    <2> DEFINE I == {i \in DOMAIN Won!Batch : Won!Same(Won!Batch[i], e)}
               gaps == {Len(Won!Batch) - i : i \in I}
    <2>1. gaps \in SUBSET Nat /\ gaps # {}
      <3>1. PICK i \in DOMAIN Won!Batch : e = Won!Batch[i]
        BY DEF Elements
      <3>2. i \in I
        BY <3>1 DEF Won!Same
      <3>3. \A g \in gaps : g \in Nat
        BY <1>1
      <3> QED
        BY <3>2, <3>3
    <2>2. PICK g \in gaps : \A h \in gaps : g <= h
      <3> HIDE DEF gaps
      <3> QED
        BY <2>1, LeastNumber
    <2>3. PICK i \in I : g = Len(Won!Batch) - i
      OBVIOUS
    <2>4. ~\E k \in DOMAIN Won!Batch : k > i /\ Won!Same(Won!Batch[k], Won!Batch[i])
      <3>1. SUFFICES ASSUME NEW k \in DOMAIN Won!Batch, k > i, Won!Same(Won!Batch[k], Won!Batch[i]) PROVE FALSE
        OBVIOUS
      <3>2. k \in I
        BY <3>1 DEF Won!Same
      <3>3. Len(Won!Batch) - k \in gaps
        BY <3>2
      <3>4. Len(Won!Batch) - i <= Len(Won!Batch) - k
        BY <2>2, <2>3, <3>3
      <3> QED
        BY <1>1, <3>1, <3>4
    <2>5. Won!Batch[i].type = type
      BY <1>3 DEF Won!Same
    <2>6. Won!Batch[i] \in Won!LastOf(type)
      BY <2>4, <2>5 DEF Won!LastOf
    <2> QED
      BY <2>6
  <1>4. Won!LastOf(type) \subseteq Elements(Won!Batch) /\ \A e \in Won!LastOf(type) : e.type = type
    BY DEF Won!LastOf, Elements
  <1> QED
    BY <1>2, <1>3, <1>4

(* The events of one challenge: the primary key of trending_results is     *)
(* never violated, and each rank of the batch has its row afterwards.      *)
LEMMA Processed ==
  ASSUME Won!Batch \in Seq(RankEvent), NEW type, NEW C, NEW R, OneRowOf(C, R), IsFiniteSet(R)
  PROVE  \E D, Q : TakenOf(C, R, type, D, Q)
  <1> DEFINE new == {e \in Won!LastOf(type) : ~\E c \in C : c.type = type /\ c.spec = Won!Specifier(e)}
             Q == R \cup new
             D == C \cup {Won!Row(e) : e \in new}
  <1>1. \A e \in new : e \in Won!LastOf(type) /\ e.type = type /\ e \in Elements(Won!Batch)
    BY LastOfBatch
  <1>2. \A e \in new, r \in R : ~Won!Same(e, r)
    <2>1. SUFFICES ASSUME NEW e \in new, NEW r \in R, Won!Same(e, r) PROVE FALSE
      OBVIOUS
    <2>2. Won!Row(r) \in C /\ Won!Row(r).type = type /\ Won!Row(r).spec = Won!Specifier(e)
      BY <1>1, <2>1 DEF OneRowOf, Won!Row, Won!Same
    <2> QED
      BY <2>2
  <1>3. ~\E e \in new : \E r \in R : Won!ResultKey(e) = Won!ResultKey(r)
    BY <1>2 DEF Won!ResultKey, Won!Same, Won!Specifier
  <1>4. Won!Process([challenges |-> C, results |-> R], type) = [challenges |-> D, results |-> Q]
    BY <1>3 DEF Won!Process
  <1>5. \A e, d \in Q : Won!Same(e, d) => e = d
    <2>1. SUFFICES ASSUME NEW e \in Q, NEW d \in Q, Won!Same(e, d) PROVE e = d
      OBVIOUS
    <2>2. Won!Same(d, e)
      BY <2>1 DEF Won!Same
    <2>3. CASE e \in R /\ d \in R
      BY <2>1, <2>3 DEF OneRowOf
    <2>4. CASE e \in new /\ d \in new
      BY <1>1, <2>1, <2>4, LastOfBatch
    <2> QED
      BY <1>2, <2>1, <2>2, <2>3, <2>4
  <1>6. D = {Won!Row(e) : e \in Q}
    BY DEF OneRowOf
  <1>7. IsFiniteSet(Q)
    <2>1. IsFiniteSet(new)
      BY <1>1, FiniteElements, FS_Subset
    <2> QED
      BY <2>1, FS_Union
  <1>8. ASSUME NEW e \in Elements(Won!Batch), e.type = type PROVE \E d \in Q : Won!Same(d, e)
    <2>1. PICK d \in Won!LastOf(type) : Won!Same(d, e)
      BY <1>8, LastOfBatch
    <2>2. CASE d \in new
      BY <2>1, <2>2
    <2>3. CASE d \notin new
      <3>1. PICK c \in C : c.type = type /\ c.spec = Won!Specifier(d)
        BY <2>3
      <3>2. PICK r \in R : c = Won!Row(r)
        BY DEF OneRowOf
      <3>3. Won!Same(r, e)
        BY <1>8, <2>1, <3>1, <3>2 DEF Won!Same, Won!Row
      <3> QED
        BY <3>3
    <2> QED
      BY <2>2, <2>3
  <1>9. R \subseteq Q /\ Q \subseteq R \cup Elements(Won!Batch)
    BY <1>1
  <1>10. OneRowOf(D, Q)
    BY <1>5, <1>6 DEF OneRowOf
  <1> HIDE DEF D, Q
  <1> QED
    BY <1>4, <1>7, <1>8, <1>9, <1>10 DEF TakenOf
-----------------------------------------------------------------------------
(* The steps *)

LEMMA PlanOfFour ==
  /\ Won!Keys = {Won!Plan[1], Won!Plan[2], Won!Plan[3], Won!Plan[4]} /\ Len(Won!Plan) = 4
  /\ \A n \in 1..4 : Won!Plan[n] \in Won!Keys
  /\ \A k \in Won!Keys : k.type \in RankTypes /\ k.version \in {"EJ57D", "BDNxn"}
  /\ Won!Plan[1].type = "tracks" /\ Won!Plan[2].type = "underground"
  <1>1. DOMAIN Won!Plan = 1..4 /\ Len(Won!Plan) = 4
    BY DEF Won!Plan
  <1>2. Won!Keys = {Won!Plan[n] : n \in 1..4}
    BY <1>1 DEF Won!Keys, Won!Range
  <1>3. Won!Keys = {Won!Plan[1], Won!Plan[2], Won!Plan[3], Won!Plan[4]}
    BY <1>2
  <1> QED
    BY <1>1, <1>3 DEF Won!Plan, RankTypes

(* Whatever is ranked: a sequence of it is a ranking.                      *)
LEMMA RankingsMade ==
  ASSUME Weekly, NEW k \in Won!Keys, shown \subseteq Won!Playlists, NEW r \in Won!SetToSeqs(Won!Ranked(k))
  PROVE  IsRanking(k, r)
  <1>1. Won!Ranked(k) \subseteq Items /\ (k.type # "playlists" => Won!Ranked(k) = Tracks)
    BY DEF Won!Ranked, Items, Won!Scorable
  <1>2. IsFiniteSet(Items)
    BY FS_Union DEF Weekly, Items
  <1>3. IsFiniteSet(Won!Ranked(k))
    BY <1>1, <1>2, FS_Subset
  <1>4. PICK n \in Nat : n = Cardinality(Won!Ranked(k))
    BY <1>3, FS_CardinalityType
  <1>5. r \in [1..n -> Won!Ranked(k)]
    <2>1. Won!Cardinality(Won!Ranked(k)) = Cardinality(Won!Ranked(k))
      BY DEF Won!Cardinality, Cardinality
    <2> QED
      BY <1>4, <2>1 DEF Won!SetToSeqs
  <1>6. r \in Seq(Items) /\ Len(r) = n
    <2>1. r \in [1..n -> Items]
      BY <1>1, <1>5
    <2> QED
      BY <2>1, <1>4, SeqDef, LenProperties
  <1>7. k.type # "playlists" => n # 0
    BY <1>1, <1>3, <1>4, FS_EmptySet DEF Weekly
  <1> QED
    BY <1>4, <1>6, <1>7 DEF IsRanking

LEMMA EmptyElements == Elements(<< >>) = {}
  BY DEF Elements

LEMMA CacheKeeps ==
  ASSUME Weekly, WeekInv, Won!CacheRanking
  PROVE  WeekInv'
  <1>0. PICK k \in Won!Keys : \E r \in Won!SetToSeqs(Won!Ranked(k)) : rankings' = [rankings EXCEPT ![k] = r]
    BY Zenon DEF Won!CacheRanking
  <1>1. PICK r \in Won!SetToSeqs(Won!Ranked(k)) : rankings' = [rankings EXCEPT ![k] = r]
    BY <1>0
  <1>2. shown \subseteq Won!Playlists
    BY DEF WeekInv, WeekTypes
  <1>3. IsRanking(k, r)
    BY <1>1, <1>2, RankingsMade
  <1>4. /\ DOMAIN rankings' = Won!Keys
        /\ \A l \in Won!Keys : rankings'[l] = Won!NotCached \/ IsRanking(l, rankings'[l])
    BY <1>1, <1>3 DEF WeekInv, WeekTypes
  <1>5. env' \in [rankings : Nat, hidden : Nat, fails : Nat] /\ env'.fails = env.fails
    <2>1. env \in [rankings : Nat, hidden : Nat, fails : Nat]
      BY DEF WeekInv, WeekTypes
    <2>2. env' = [env EXCEPT !.rankings = @ + 1]
      BY DEF Won!CacheRanking
    <2> QED
      BY <2>1, <2>2
  <1>6. UNCHANGED <<clock, shown, tasks, job, queue, challenges, results>>
    BY DEF Won!CacheRanking
  <1>7. WeekTypes'
    BY <1>4, <1>5, <1>6 DEF WeekInv, WeekTypes
  <1>8. OneRow'
    BY <1>6 DEF WeekInv, OneRow
  <1>9. OfToday'
    BY <1>6 DEF WeekInv, OfToday, Sent, Today
  <1>10. env'.fails = 0 => RanksKept'
    BY <1>5, <1>6 DEF WeekInv, RanksKept, Sent, AllEvents, Won!Asked
  <1> QED
    BY <1>7, <1>8, <1>9, <1>10 DEF WeekInv

LEMMA HideKeeps ==
  ASSUME Weekly, WeekInv, Won!HidePlaylist
  PROVE  WeekInv'
  <1>4. shown' \subseteq Won!Playlists
    BY DEF Won!HidePlaylist, WeekInv, WeekTypes
  <1>5. env' \in [rankings : Nat, hidden : Nat, fails : Nat] /\ env'.fails = env.fails
    <2>1. env \in [rankings : Nat, hidden : Nat, fails : Nat]
      BY DEF WeekInv, WeekTypes
    <2>2. env' = [env EXCEPT !.hidden = @ + 1]
      BY DEF Won!HidePlaylist
    <2> QED
      BY <2>1, <2>2
  <1>6. UNCHANGED <<clock, rankings, tasks, job, queue, challenges, results>>
    BY DEF Won!HidePlaylist
  <1>7. WeekTypes'
    BY <1>4, <1>5, <1>6 DEF WeekInv, WeekTypes
  <1>8. OneRow'
    BY <1>6 DEF WeekInv, OneRow
  <1>9. OfToday'
    BY <1>6 DEF WeekInv, OfToday, Sent, Today
  <1>10. env'.fails = 0 => RanksKept'
    BY <1>5, <1>6 DEF WeekInv, RanksKept, Sent, AllEvents, Won!Asked
  <1> QED
    BY <1>7, <1>8, <1>9, <1>10 DEF WeekInv

LEMMA DatesOfBlocks ==
  ASSUME Weekly
  PROVE  /\ \A n \in 1..Len(Calendar) :
              Calendar[n].hour \in BOOLEAN /\ Calendar[n].date \in Int /\ Calendar[n].date \in Won!Dates
         /\ Won!Dates \subseteq Int /\ DOMAIN Calendar = 1..Len(Calendar) /\ Len(Calendar) \in Nat
  <1>1. Calendar \in Seq([date : Int, hour : BOOLEAN])
    BY DEF Weekly
  <1>2. DOMAIN Calendar = 1..Len(Calendar) /\ Len(Calendar) \in Nat
    BY <1>1
  <1>3. ASSUME NEW n \in 1..Len(Calendar)
        PROVE  Calendar[n].hour \in BOOLEAN /\ Calendar[n].date \in Int
    <2>1. Calendar[n] \in [date : Int, hour : BOOLEAN]
      BY <1>1, ElementOfSeq
    <2> QED
      BY <2>1
  <1> QED
    BY <1>2, <1>3 DEF Won!Dates

LEMMA BlockKeeps ==
  ASSUME Weekly, WeekInv, Won!IndexBlock
  PROVE  WeekInv'
  <1> DEFINE now == Calendar[clock + 1]
  <1>1. /\ clock \in Nat /\ clock < Len(Calendar) /\ clock' = clock + 1
        /\ UNCHANGED <<shown, rankings, job, queue, challenges, results, env>>
        /\ tasks' = IF Won!ShouldUpdate(now) THEN Append(tasks, now.date) ELSE tasks
        /\ clock > 0 /\ now.date # Calendar[clock].date => job = Won!Idle /\ tasks = <<>>
    BY DEF Won!IndexBlock, WeekInv, WeekTypes, Won!Settled
  <1>2. /\ clock' \in 1..Len(Calendar) /\ DOMAIN Calendar = 1..Len(Calendar)
        /\ now.date \in Int /\ now.date \in Won!Dates /\ Today' = now.date
    BY <1>1, DatesOfBlocks DEF Today
  <1>3. clock > 0 => Today \in Int /\ Today <= now.date
    <2>1. CASE clock > 0
      <3>1. clock \in DOMAIN Calendar /\ clock + 1 \in DOMAIN Calendar /\ clock <= clock + 1
        BY <1>1, <2>1, DatesOfBlocks
      <3>2. Calendar[clock].date <= Calendar[clock + 1].date
        BY <3>1 DEF Weekly
      <3> QED
        BY <3>1, <3>2, DatesOfBlocks DEF Today
    <2> QED
      BY <2>1
  <1>4. tasks' \in Seq(Won!Dates)
    BY <1>1, <1>2 DEF WeekInv, WeekTypes
  <1>5. WeekTypes'
    <2>1. WeekTypes
      BY DEF WeekInv
    <2> QED
      BY <1>1, <1>2, <1>4, <2>1 DEF WeekTypes
  <1>6. OneRow'
    BY <1>1 DEF WeekInv, OneRow
  <1>7. (tasks # <<>> \/ job.pc = "calculate") => clock > 0 /\ now.date = Today
    <2>1. Won!Idle.pc = "idle"
      BY DEF Won!Idle
    <2> QED
      BY <1>1, <2>1 DEF WeekInv, OfToday, Today
  <1>8. ASSUME NEW i \in DOMAIN tasks' PROVE tasks'[i] = now.date
    <2>1. CASE i \in DOMAIN tasks
      <3>1. tasks # <<>> /\ tasks'[i] = tasks[i]
        BY <1>1, <1>2, <1>8, <2>1 DEF WeekInv, WeekTypes
      <3> QED
        BY <1>7, <2>1, <3>1 DEF WeekInv, OfToday
    <2>2. CASE i \notin DOMAIN tasks
      BY <1>1, <1>2, <1>8, <2>2 DEF WeekInv, WeekTypes
    <2> QED
      BY <2>1, <2>2
  <1>9. \A e \in Sent : e.week \in Int
    <2>1. Sent \subseteq RankEvent
      BY DEF Sent, Elements, WeekInv, WeekTypes
    <2>2. Won!Dates \subseteq Int
      BY DatesOfBlocks
    <2> QED
      BY <2>1, <2>2 DEF RankEvent
  <1>10. \A e \in Sent : clock' > 0 /\ e.week <= now.date
    BY <1>1, <1>2, <1>3, <1>9 DEF WeekInv, OfToday
  <1>11. Sent' = Sent /\ AllEvents' = AllEvents
    BY <1>1 DEF Sent, AllEvents
  <1>12. OfToday'
    <2>1. clock' > 0
      BY <1>2
    <2>2. \A i \in DOMAIN tasks' : tasks'[i] = Today'
      BY <1>2, <1>8
    <2>3. job'.pc = "calculate" => job'.date = Today'
      BY <1>1, <1>2, <1>7 DEF WeekInv, OfToday
    <2>4. \A e \in Elements(job.events)' : e.week = job'.date
      BY <1>1 DEF WeekInv, OfToday
    <2>5. \A e \in Sent' : clock' > 0 /\ e.week <= Today'
      BY <1>2, <1>10, <1>11
    <2> QED
      BY <2>1, <2>2, <2>3, <2>4, <2>5 DEF OfToday
  <1>13. ASSUME env'.fails = 0 PROVE RanksKept'
    <2>1. RanksKept
      BY <1>1, <1>13 DEF WeekInv
    <2>2. ASSUME NEW date \in Won!Dates, Won!Asked(date)'
          PROVE  \/ \E i \in DOMAIN tasks' : tasks'[i] = date
                 \/ job'.pc = "calculate" /\ job'.date = date
                 \/ \E e \in Sent' : e.week = date
      <3>1. PICK n \in 1..(clock + 1) : Calendar[n].hour /\ Calendar[n].date = date
        BY <1>1, <2>2 DEF Won!Asked
      <3>2. CASE n \in 1..clock
        <4>1. Won!Asked(date)
          BY <3>1, <3>2 DEF Won!Asked
        <4>2. CASE \E i \in DOMAIN tasks : tasks[i] = date
          <5>1. PICK i \in DOMAIN tasks : tasks[i] = date
            BY <4>2
          <5>2. i \in DOMAIN tasks' /\ tasks'[i] = tasks[i]
            BY <1>1, <1>2, <5>1 DEF WeekInv, WeekTypes
          <5> QED
            BY <5>1, <5>2
        <4> QED
          BY <1>1, <1>11, <2>1, <4>1, <4>2 DEF RanksKept
      <3>3. CASE n = clock + 1
        <4>1. now.hour /\ now.date = date
          BY <3>1, <3>3
        <4>2. CASE Won!ShouldUpdate(now)
          <5>1. tasks' = Append(tasks, date) /\ tasks \in Seq(Won!Dates)
            BY <1>1, <4>1, <4>2 DEF WeekInv, WeekTypes
          <5>2. Len(tasks) + 1 \in DOMAIN tasks' /\ tasks'[Len(tasks) + 1] = date
            BY <5>1
          <5> QED
            BY <5>2
        <4>3. CASE ~Won!ShouldUpdate(now)
          <5>1. PICK e \in results : ~(e.week < now.date)
            BY <4>1, <4>3 DEF Won!ShouldUpdate
          <5>2. e \in Sent
            BY DEF Sent
          <5>3. e.week = date
            BY <1>2, <1>9, <1>10, <4>1, <5>1, <5>2
          <5> QED
            BY <1>11, <5>2, <5>3
        <4> QED
          BY <4>2, <4>3
      <3> QED
        BY <1>1, <3>1, <3>2, <3>3
    <2>3. NoGaps(AllEvents')
      BY <1>11, <2>1 DEF RanksKept
    <2>4. /\ job'.step > 1 => HasWinner(Elements(job'.events), "tracks", job'.date)
          /\ job'.step > 2 => HasWinner(Elements(job'.events), "underground", job'.date)
          /\ \A e \in Sent' : HasWinner(Sent', "tracks", e.week) /\ HasWinner(Sent', "underground", e.week)
      BY <1>1, <1>11, <2>1 DEF RanksKept
    <2> QED
      BY <2>2, <2>3, <2>4 DEF RanksKept, NoGaps, HasWinner, Elements
  <1> QED
    BY <1>5, <1>6, <1>12, <1>13 DEF WeekInv

LEMMA StartKeeps ==
  ASSUME Weekly, WeekInv, Won!Start
  PROVE  WeekInv'
  <1>1. /\ tasks # <<>> /\ tasks' = Tail(tasks) /\ tasks \in Seq(Won!Dates)
        /\ UNCHANGED <<clock, shown, rankings, queue, challenges, results, env>>
    BY DEF Won!Start, WeekInv, WeekTypes
  <1>2. tasks' \in Seq(Won!Dates) /\ Head(tasks) = Today /\ Head(tasks) \in Won!Dates
    BY <1>1 DEF WeekInv, OfToday
  <1>3. \A i \in DOMAIN tasks' : tasks'[i] = Today
    <2>1. SUFFICES ASSUME NEW i \in DOMAIN tasks' PROVE tasks'[i] = Today
      OBVIOUS
    <2>2. i + 1 \in DOMAIN tasks /\ tasks'[i] = tasks[i + 1]
      BY <1>1
    <2> QED
      BY <2>2 DEF WeekInv, OfToday
  <1>4. Sent' = Sent /\ Today' = Today
    BY <1>1 DEF Sent, Today
  <1>5. CASE job.pc = "idle"
    <2>1. job' = [pc |-> "calculate", date |-> Head(tasks), step |-> 1, events |-> <<>>]
      <3>1. job' = [Won!Idle EXCEPT !.pc = "calculate", !.date = Head(tasks), !.step = 1]
        BY <1>5 DEF Won!Start
      <3> QED
        BY <3>1 DEF Won!Idle
    <2>2. /\ job'.pc = "calculate" /\ job'.date = Head(tasks) /\ job'.step = 1 /\ job'.events = <<>>
          /\ job.events = <<>>
      BY <1>5, <2>1 DEF WeekInv, WeekTypes
    <2>3. job' \in [pc : {"idle", "calculate"}, date : Int, step : Nat, events : Seq(RankEvent)]
      <3>1. Head(tasks) \in Int /\ <<>> \in Seq(RankEvent)
        BY <1>2, DatesOfBlocks
      <3> HIDE DEF RankEvent
      <3> QED
        BY <2>1, <3>1
    <2>4. WeekTypes'
      BY <1>1, <1>2, <2>2, <2>3 DEF WeekInv, WeekTypes
    <2>5. OneRow'
      BY <1>1 DEF WeekInv, OneRow
    <2>6. OfToday'
      <3>1. clock > 0
        BY <1>1 DEF WeekInv, OfToday
      <3>2. Elements(job.events)' = {}
        BY <2>2 DEF Elements
      <3> QED
        BY <1>1, <1>2, <1>3, <1>4, <2>2, <3>1, <3>2 DEF WeekInv, OfToday
    <2>7. ASSUME env'.fails = 0 PROVE RanksKept'
      <3>1. RanksKept
        BY <1>1, <2>7 DEF WeekInv
      <3>2. AllEvents' = AllEvents
        BY <1>4, <2>2 DEF AllEvents
      <3>3. ~(job'.step > 1) /\ ~(job'.step > 2)
        BY <2>2
      <3>4. ASSUME NEW date \in Won!Dates, Won!Asked(date)
            PROVE  \/ job'.pc = "calculate" /\ job'.date = date
                   \/ \E e \in Sent : e.week = date
        BY <1>2, <1>5, <2>2, <3>1, <3>4 DEF WeekInv, OfToday, RanksKept
      <3>5. NoGaps(AllEvents)' /\ \A date : Won!Asked(date)' = Won!Asked(date)
        BY <1>1, <3>1, <3>2 DEF RanksKept, Won!Asked, NoGaps
      <3> QED
        BY <1>4, <3>1, <3>3, <3>4, <3>5 DEF RanksKept, HasWinner
    <2> QED
      BY <2>4, <2>5, <2>6, <2>7 DEF WeekInv
  <1>6. CASE job.pc # "idle"
    <2>1. job' = job /\ job.pc = "calculate"
      BY <1>6 DEF Won!Start, WeekInv, WeekTypes
    <2>4. WeekTypes'
      BY <1>1, <1>2, <2>1 DEF WeekInv, WeekTypes
    <2>5. OneRow'
      BY <1>1 DEF WeekInv, OneRow
    <2>6. OfToday'
      BY <1>1, <1>3, <1>4, <2>1 DEF WeekInv, OfToday
    <2>7. ASSUME env'.fails = 0 PROVE RanksKept'
      <3>1. RanksKept
        BY <1>1, <2>7 DEF WeekInv
      <3>2. AllEvents' = AllEvents
        BY <1>4, <2>1 DEF AllEvents
      <3>4. ASSUME NEW date \in Won!Dates, Won!Asked(date)
            PROVE  \/ job'.pc = "calculate" /\ job'.date = date
                   \/ \E e \in Sent : e.week = date
        BY <2>1, <3>1, <3>4 DEF WeekInv, OfToday, RanksKept
      <3>5. NoGaps(AllEvents)' /\ \A date : Won!Asked(date)' = Won!Asked(date)
        BY <1>1, <3>1, <3>2 DEF RanksKept, Won!Asked, NoGaps
      <3> QED
        BY <1>4, <2>1, <3>1, <3>4, <3>5 DEF RanksKept, HasWinner
    <2> QED
      BY <2>4, <2>5, <2>6, <2>7 DEF WeekInv
  <1> QED
    BY <1>5, <1>6

(* The events of one ranking: its first tracks, in their ranks.            *)
LEMMA EventsOfRanking ==
  ASSUME Weekly, NEW k \in Won!Keys, NEW r, IsRanking(k, r), NEW date \in Won!Dates
  PROVE  /\ Won!Dispatched(k, r, date) \in Seq(RankEvent)
         /\ \A e \in Elements(Won!Dispatched(k, r, date)) :
              /\ e.week = date /\ e.type = k.type
              /\ \A i \in 1..e.rank : \E d \in Elements(Won!Dispatched(k, r, date)) :
                   d.type = e.type /\ d.week = e.week /\ d.rank = i
         /\ k.type # "playlists" => Elements(Won!Dispatched(k, r, date)) # {}
  <1> DEFINE n == IF Len(r) < Top THEN Len(r) ELSE Top
             ev(i) == [type |-> k.type, version |-> k.version, week |-> date, rank |-> i,
                       id |-> r[i], user |-> Owner[r[i]]]
             D == Won!Dispatched(k, r, date)
  <1>1. r \in Seq(Items) /\ (k.type # "playlists" => Len(r) >= 1) /\ Top \in Nat \ {0}
    BY DEF IsRanking, Weekly
  <1>2. n \in Nat /\ n <= Top /\ n <= Len(r) /\ (k.type # "playlists" => n >= 1)
    BY <1>1
  <1>3. D = [i \in 1..n |-> ev(i)]
    BY DEF Won!Dispatched
  <1> HIDE DEF n, D
  <1>4. ASSUME NEW i \in 1..n PROVE ev(i) \in RankEvent
    <2>1. r[i] \in Items /\ i \in 1..Top
      BY <1>1, <1>2, ElementOfSeq
    <2>2. Owner[r[i]] \in {Owner[x] : x \in Items}
      BY <2>1
    <2>3. k.type \in RankTypes /\ k.version \in {"EJ57D", "BDNxn"}
      BY PlanOfFour
    <2> QED
      BY <2>1, <2>2, <2>3 DEF RankEvent
  <1>5. D \in Seq(RankEvent) /\ DOMAIN D = 1..n /\ \A i \in 1..n : D[i] = ev(i)
    <2>1. D \in [1..n -> RankEvent]
      BY <1>3, <1>4
    <2> QED
      BY <1>2, <1>3, <2>1, SeqDef
  <1>6. ASSUME NEW e \in Elements(D)
        PROVE  /\ e.week = date /\ e.type = k.type
               /\ \A i \in 1..e.rank : \E d \in Elements(D) :
                    d.type = e.type /\ d.week = e.week /\ d.rank = i
    <2>1. PICK j \in 1..n : e = ev(j)
      BY <1>5, <1>6 DEF Elements
    <2>2. e.week = date /\ e.type = k.type /\ e.rank = j
      BY <2>1
    <2>3. ASSUME NEW i \in 1..j
          PROVE  \E d \in Elements(D) : d.type = e.type /\ d.week = e.week /\ d.rank = i
      <3>1. i \in DOMAIN D /\ D[i] = ev(i)
        BY <1>2, <1>5
      <3>2. ev(i).type = k.type /\ ev(i).week = date /\ ev(i).rank = i
        OBVIOUS
      <3>3. D[i] \in Elements(D)
        BY <3>1 DEF Elements
      <3> QED
        BY <2>2, <3>1, <3>2, <3>3
    <2> QED
      BY <2>2, <2>3
  <1>7. k.type # "playlists" => Elements(D) # {}
    <2>1. k.type # "playlists" => 1 \in DOMAIN D
      BY <1>2, <1>5
    <2> QED
      BY <2>1 DEF Elements
  <1> QED
    BY <1>5, <1>6, <1>7 DEF D

LEMMA TypesOfPlan == Won!Plan[3].type = "playlists" /\ Won!Plan[4].type = "playlists"
  BY DEF Won!Plan

LEMMA CalculateKeeps ==
  ASSUME Weekly, WeekInv, Won!Calculate
  PROVE  WeekInv'
  <1> DEFINE k == Won!Plan[job.step]
  <1>1. /\ job.pc = "calculate" /\ job.step <= Len(Won!Plan)
        /\ UNCHANGED <<clock, shown, tasks, queue, challenges, results, env>>
    BY DEF Won!Calculate
  <1>2. PICK r \in IF rankings[k] = Won!NotCached THEN Won!SetToSeqs(Won!Ranked(k)) ELSE {rankings[k]} :
          /\ rankings' = [rankings EXCEPT ![k] = r]
          /\ job' = [job EXCEPT !.step = @ + 1,
                                !.events = @ \o Won!Dispatched(k, r, job.date)]
    BY Zenon DEF Won!Calculate
  <1>3. job.step \in 1..4 /\ k \in Won!Keys /\ job.date \in Won!Dates /\ job.events \in Seq(RankEvent)
    BY <1>1, PlanOfFour DEF WeekInv, WeekTypes
  <1>4. IsRanking(k, r)
    <2>1. CASE rankings[k] = Won!NotCached
      <3>1. r \in Won!SetToSeqs(Won!Ranked(k)) /\ shown \subseteq Won!Playlists
        BY <1>2, <2>1 DEF WeekInv, WeekTypes
      <3> HIDE DEF k
      <3> QED
        BY <1>3, <3>1, RankingsMade
    <2>2. CASE rankings[k] # Won!NotCached
      BY <1>2, <1>3, <2>2 DEF WeekInv, WeekTypes
    <2> QED
      BY <2>1, <2>2
  <1> DEFINE D == Won!Dispatched(k, r, job.date)
             F == job.events \o D
  <1> HIDE DEF k
  <1>5. /\ D \in Seq(RankEvent)
        /\ \A e \in Elements(D) :
              /\ e.week = job.date /\ e.type = k.type
              /\ \A i \in 1..e.rank : \E d \in Elements(D) :
                   d.type = e.type /\ d.week = e.week /\ d.rank = i
        /\ k.type # "playlists" => Elements(D) # {}
    BY <1>3, <1>4, EventsOfRanking
  <1> HIDE DEF D
  <1>6. F \in Seq(RankEvent) /\ Elements(F) = Elements(job.events) \cup Elements(D)
    BY <1>3, <1>5, ElementsOfBoth
  <1> HIDE DEF F
  <1>7. /\ job' \in [pc : {"idle", "calculate"}, date : Int, step : Nat, events : Seq(RankEvent)]
        /\ job'.pc = "calculate" /\ job'.date = job.date /\ job'.step = job.step + 1
        /\ job'.events = F
    <2>1. job \in [pc : {"idle", "calculate"}, date : Int, step : Nat, events : Seq(RankEvent)]
      BY DEF WeekInv, WeekTypes
    <2>2. job' = [job EXCEPT !.step = job.step + 1, !.events = F]
      BY <1>2 DEF F, D
    <2> DEFINE J == [job EXCEPT !.step = job.step + 1]
    <2>3. job' = [J EXCEPT !.events = F]
      BY <2>1, <2>2
    <2>4. /\ J \in [pc : {"idle", "calculate"}, date : Int, step : Nat, events : Seq(RankEvent)]
          /\ J.pc = job.pc /\ J.date = job.date /\ J.step = job.step + 1
      <3> HIDE DEF RankEvent
      <3> QED
        BY <1>3, <2>1
    <2> HIDE DEF J
    <2>5. /\ job' \in [pc : {"idle", "calculate"}, date : Int, step : Nat, events : Seq(RankEvent)]
          /\ job'.pc = J.pc /\ job'.date = J.date /\ job'.step = J.step /\ job'.events = F
      <3> HIDE DEF RankEvent
      <3> QED
        BY <1>6, <2>3, <2>4
    <2> QED
      BY <1>1, <2>4, <2>5
  <1>8. WeekTypes'
    <2>1. /\ DOMAIN rankings' = Won!Keys
          /\ \A l \in Won!Keys : rankings'[l] = Won!NotCached \/ IsRanking(l, rankings'[l])
      BY <1>2, <1>3, <1>4 DEF WeekInv, WeekTypes
    <2>2. job'.date \in Won!Dates /\ job'.step \in 1..5
      BY <1>3, <1>7
    <2> QED
      BY <1>1, <1>7, <2>1, <2>2 DEF WeekInv, WeekTypes
  <1>9. OneRow'
    BY <1>1 DEF WeekInv, OneRow
  <1>10. Sent' = Sent /\ Today' = Today /\ AllEvents' = AllEvents \cup Elements(D)
    <2>1. Elements(job.events)' = Elements(job.events) \cup Elements(D)
      BY <1>6, <1>7 DEF Elements
    <2>2. Sent' = Sent /\ Today' = Today
      BY <1>1 DEF Sent, Today
    <2> QED
      BY <2>1, <2>2 DEF AllEvents
  <1>11. OfToday'
    <2>1. \A e \in Elements(job.events)' : e.week = job'.date
      <3>1. Elements(job.events)' = Elements(job.events) \cup Elements(D)
        BY <1>6, <1>7 DEF Elements
      <3>2. \A e \in Elements(job.events) : e.week = job.date
        BY DEF WeekInv, OfToday
      <3> QED
        BY <1>5, <1>7, <3>1, <3>2
    <2> QED
      BY <1>1, <1>7, <1>10, <2>1 DEF WeekInv, OfToday
  <1>12. ASSUME env'.fails = 0 PROVE RanksKept'
    <2>1. RanksKept
      BY <1>1, <1>12 DEF WeekInv
    <2>2. \A e \in AllEvents \cup Elements(D) : \A i \in 1..e.rank :
            \E d \in AllEvents \cup Elements(D) : d.type = e.type /\ d.week = e.week /\ d.rank = i
      <3>1. SUFFICES ASSUME NEW e \in AllEvents \cup Elements(D), NEW i \in 1..e.rank
                     PROVE  \E d \in AllEvents \cup Elements(D) :
                              d.type = e.type /\ d.week = e.week /\ d.rank = i
        OBVIOUS
      <3>2. CASE e \in AllEvents
        BY <2>1, <3>2 DEF RanksKept, NoGaps
      <3>3. CASE e \in Elements(D)
        BY <1>5, <3>3
      <3> QED
        BY <3>2, <3>3
    <2>3. Elements(job.events)' = Elements(job.events) \cup Elements(D)
      BY <1>6, <1>7 DEF Elements
    <2>4. job'.step > 1 => HasWinner(Elements(job.events) \cup Elements(D), "tracks", job.date)
      <3>1. CASE job.step > 1
        BY <2>1, <3>1 DEF RanksKept, HasWinner
      <3>2. CASE job.step = 1
        <4>1. k.type = "tracks"
          BY <3>2, PlanOfFour DEF k
        <4>2. PICK e \in Elements(D) : TRUE
          BY <1>5, <4>1
        <4> QED
          BY <1>5, <4>1, <4>2 DEF HasWinner
      <3> QED
        BY <1>3, <1>7, <3>1, <3>2
    <2>5. job'.step > 2 => HasWinner(Elements(job.events) \cup Elements(D), "underground", job.date)
      <3>1. CASE job.step > 2
        BY <2>1, <3>1 DEF RanksKept, HasWinner
      <3>2. CASE job.step = 2
        <4>1. k.type = "underground"
          BY <3>2, PlanOfFour DEF k
        <4>2. PICK e \in Elements(D) : TRUE
          BY <1>5, <4>1
        <4> QED
          BY <1>5, <4>1, <4>2 DEF HasWinner
      <3> QED
        BY <1>3, <1>7, <3>1, <3>2
    <2>6. \A date \in Won!Dates : Won!Asked(date)' =>
            \/ \E i \in DOMAIN tasks : tasks[i] = date
            \/ job'.pc = "calculate" /\ job'.date = date
            \/ \E e \in Sent : e.week = date
      BY <1>1, <1>7, <2>1 DEF RanksKept, Won!Asked
    <2>7. \A e \in Sent : HasWinner(Sent, "tracks", e.week) /\ HasWinner(Sent, "underground", e.week)
      BY <2>1 DEF RanksKept
    <2>8. NoGaps(AllEvents)'
      BY <1>10, <2>2 DEF NoGaps
    <2> QED
      BY <1>1, <1>7, <1>10, <2>3, <2>4, <2>5, <2>6, <2>7, <2>8 DEF RanksKept, HasWinner
  <1> QED
    BY <1>8, <1>9, <1>11, <1>12 DEF WeekInv

(* The calculation ends: what was dispatched goes to the queue.            *)
LEMMA FlushTypes ==
  ASSUME Weekly, WeekInv, Won!Flush
  PROVE  /\ queue' \in Seq(RankEvent) /\ job' = Won!Idle
         /\ job'.pc = "idle" /\ job'.events = <<>> /\ job'.date = 0 /\ job'.step = 0
         /\ job' \in [pc : {"idle", "calculate"}, date : Int, step : Nat, events : Seq(RankEvent)]
         /\ Elements(queue)' = Elements(queue) \cup Elements(job.events)
         /\ Elements(job.events)' = {}
  <1>1. queue' = queue \o job.events /\ job' = Won!Idle
    BY DEF Won!Flush
  <1>2. queue \in Seq(RankEvent) /\ job.events \in Seq(RankEvent)
    BY DEF WeekInv, WeekTypes
  <1>3. queue \o job.events \in Seq(RankEvent)
        /\ Elements(queue \o job.events) = Elements(queue) \cup Elements(job.events)
    BY <1>2, ElementsOfBoth
  <1>4. queue' \in Seq(RankEvent) /\ Elements(queue)' = Elements(queue) \cup Elements(job.events)
    BY <1>1, <1>3 DEF Elements
  <1>5. /\ Won!Idle.pc = "idle" /\ Won!Idle.events = <<>> /\ Won!Idle.date = 0 /\ Won!Idle.step = 0
        /\ Won!Idle \in [pc : {"idle", "calculate"}, date : Int, step : Nat, events : Seq(RankEvent)]
    <2>1. <<>> \in Seq(RankEvent)
      OBVIOUS
    <2> HIDE DEF RankEvent
    <2> QED
      BY <2>1 DEF Won!Idle
  <1>6. Elements(job.events)' = {}
    BY <1>1, <1>5 DEF Elements
  <1> QED
    BY <1>1, <1>4, <1>5, <1>6

LEMMA FinishKeeps ==
  ASSUME Weekly, WeekInv, Won!Finish
  PROVE  WeekInv'
  <1>1. /\ job.pc = "calculate" /\ job.step > Len(Won!Plan) /\ Won!Flush
        /\ UNCHANGED <<clock, shown, rankings, tasks, challenges, results, env>>
    BY DEF Won!Finish
  <1>2. /\ queue' \in Seq(RankEvent) /\ job'.pc = "idle" /\ job'.events = <<>>
        /\ job'.date = 0 /\ job'.step = 0
        /\ job' \in [pc : {"idle", "calculate"}, date : Int, step : Nat, events : Seq(RankEvent)]
        /\ Elements(queue)' = Elements(queue) \cup Elements(job.events)
        /\ Elements(job.events)' = {}
    BY <1>1, FlushTypes
  <1>3. WeekTypes'
    BY <1>1, <1>2 DEF WeekInv, WeekTypes
  <1>4. OneRow'
    BY <1>1 DEF WeekInv, OneRow
  <1>5. Sent' = Sent \cup Elements(job.events) /\ AllEvents' = AllEvents /\ Today' = Today
    <2>1. Sent' = Sent \cup Elements(job.events) /\ Today' = Today
      BY <1>1, <1>2 DEF Sent, Today
    <2> QED
      BY <1>2, <2>1 DEF AllEvents
  <1>6. OfToday'
    <2>1. clock > 0 /\ job.date = Today /\ \A e \in Elements(job.events) : e.week = job.date
      BY <1>1 DEF WeekInv, OfToday
    <2>2. Today \in Int
      BY <2>1 DEF WeekInv, WeekTypes
    <2>3. \A e \in Sent' : clock' > 0 /\ e.week <= Today'
      BY <1>1, <1>5, <2>1, <2>2 DEF WeekInv, OfToday
    <2> QED
      BY <1>1, <1>2, <1>5, <2>1, <2>3 DEF WeekInv, OfToday
  <1>7. ASSUME env'.fails = 0 PROVE RanksKept'
    <2>1. RanksKept
      BY <1>1, <1>7 DEF WeekInv
    <2>2. job.step > 2 /\ job.step > 1 /\ \A e \in Elements(job.events) : e.week = job.date
      BY <1>1, PlanOfFour DEF WeekInv, WeekTypes, OfToday
    <2>3. \A e \in Sent \cup Elements(job.events) :
            /\ HasWinner(Sent \cup Elements(job.events), "tracks", e.week)
            /\ HasWinner(Sent \cup Elements(job.events), "underground", e.week)
      BY <2>1, <2>2 DEF RanksKept, HasWinner
    <2>4. \A date \in Won!Dates : Won!Asked(date)' =>
            \/ \E i \in DOMAIN tasks : tasks[i] = date
            \/ \E e \in Sent \cup Elements(job.events) : e.week = date
      <3>1. PICK e \in Elements(job.events) : e.week = job.date
        BY <2>1, <2>2 DEF RanksKept, HasWinner
      <3> QED
        BY <1>1, <2>1, <3>1 DEF RanksKept, Won!Asked
    <2>5. NoGaps(AllEvents)'
      BY <1>5, <2>1 DEF RanksKept, NoGaps
    <2>6. ~(job'.step > 1) /\ ~(job'.step > 2)
      BY <1>2
    <2> QED
      BY <1>1, <1>5, <2>3, <2>4, <2>5, <2>6 DEF RanksKept, HasWinner
  <1> QED
    BY <1>3, <1>4, <1>6, <1>7 DEF WeekInv

LEMMA FailureCounts ==
  ASSUME WeekInv, Won!Failing
  PROVE  env' \in [rankings : Nat, hidden : Nat, fails : Nat] /\ env'.fails # 0
  <1>1. env \in [rankings : Nat, hidden : Nat, fails : Nat]
    BY DEF WeekInv, WeekTypes
  <1>2. env' = [env EXCEPT !.fails = env.fails + 1]
    BY DEF Won!Failing
  <1> QED
    BY <1>1, <1>2

LEMMA FailKeeps ==
  ASSUME Weekly, WeekInv, Won!FailCalculation
  PROVE  WeekInv'
  <1>1. /\ job.pc = "calculate" /\ Won!Flush /\ Won!Failing
        /\ UNCHANGED <<clock, shown, rankings, tasks, challenges, results>>
    BY DEF Won!FailCalculation
  <1>2. /\ queue' \in Seq(RankEvent) /\ job'.pc = "idle" /\ job'.events = <<>>
        /\ job'.date = 0 /\ job'.step = 0
        /\ job' \in [pc : {"idle", "calculate"}, date : Int, step : Nat, events : Seq(RankEvent)]
        /\ Elements(queue)' = Elements(queue) \cup Elements(job.events)
        /\ Elements(job.events)' = {}
    BY <1>1, FlushTypes
  <1>3. env' \in [rankings : Nat, hidden : Nat, fails : Nat] /\ env'.fails # 0
    BY <1>1, FailureCounts
  <1>4. WeekTypes'
    BY <1>1, <1>2, <1>3 DEF WeekInv, WeekTypes
  <1>5. OneRow'
    BY <1>1 DEF WeekInv, OneRow
  <1>6. Sent' = Sent \cup Elements(job.events) /\ Today' = Today
    BY <1>1, <1>2 DEF Sent, Today
  <1>7. OfToday'
    <2>1. clock > 0 /\ job.date = Today /\ \A e \in Elements(job.events) : e.week = job.date
      BY <1>1 DEF WeekInv, OfToday
    <2>2. Today \in Int
      BY <2>1 DEF WeekInv, WeekTypes
    <2>3. \A e \in Sent' : clock' > 0 /\ e.week <= Today'
      BY <1>1, <1>6, <2>1, <2>2 DEF WeekInv, OfToday
    <2> QED
      BY <1>1, <1>2, <1>6, <2>1, <2>3 DEF WeekInv, OfToday
  <1> QED
    BY <1>3, <1>4, <1>5, <1>7 DEF WeekInv

LEMMA CrashKeeps ==
  ASSUME Weekly, WeekInv, Won!Crash
  PROVE  WeekInv'
  <1>1. /\ job.pc = "calculate" /\ Won!Failing /\ job' = Won!Idle
        /\ UNCHANGED <<clock, shown, rankings, tasks, queue, challenges, results>>
    BY DEF Won!Crash
  <1>2. /\ job'.pc = "idle" /\ job'.events = <<>> /\ job'.date = 0 /\ job'.step = 0
        /\ job' \in [pc : {"idle", "calculate"}, date : Int, step : Nat, events : Seq(RankEvent)]
    <2>1. <<>> \in Seq(RankEvent)
      OBVIOUS
    <2> HIDE DEF RankEvent
    <2> QED
      BY <1>1, <2>1 DEF Won!Idle
  <1>3. env' \in [rankings : Nat, hidden : Nat, fails : Nat] /\ env'.fails # 0
    BY <1>1, FailureCounts
  <1>4. WeekTypes'
    BY <1>1, <1>2, <1>3 DEF WeekInv, WeekTypes
  <1>5. OneRow'
    BY <1>1 DEF WeekInv, OneRow
  <1>6. Sent' = Sent /\ Today' = Today /\ Elements(job.events)' = {}
    BY <1>1, <1>2 DEF Sent, Today, Elements
  <1>7. OfToday'
    BY <1>1, <1>2, <1>6 DEF WeekInv, OfToday
  <1> QED
    BY <1>3, <1>4, <1>5, <1>7 DEF WeekInv

LEMMA LoseKeeps ==
  ASSUME Weekly, WeekInv, Won!LoseEvents
  PROVE  WeekInv'
  <1>1. /\ queue' = Won!Rest /\ Won!Failing
        /\ UNCHANGED <<clock, shown, rankings, tasks, job, challenges, results>>
    BY DEF Won!LoseEvents
  <1>2. queue \in Seq(RankEvent) /\ MaxEvents \in Nat
    BY DEF Weekly, WeekInv, WeekTypes
  <1>3. Won!Rest \in Seq(RankEvent) /\ Elements(queue) = Elements(Won!Batch) \cup Elements(Won!Rest)
    BY <1>2, BatchAndRest
  <1>4. env' \in [rankings : Nat, hidden : Nat, fails : Nat] /\ env'.fails # 0
    BY <1>1, FailureCounts
  <1>5. WeekTypes'
    BY <1>1, <1>3, <1>4 DEF WeekInv, WeekTypes
  <1>6. OneRow'
    BY <1>1 DEF WeekInv, OneRow
  <1>7. Sent' \subseteq Sent /\ Today' = Today
    <2>1. Elements(queue)' = Elements(Won!Rest)
      BY <1>1 DEF Elements
    <2> QED
      BY <1>1, <1>3, <2>1 DEF Sent, Today
  <1>8. OfToday'
    BY <1>1, <1>7 DEF WeekInv, OfToday
  <1> QED
    BY <1>4, <1>5, <1>6, <1>8 DEF WeekInv

(* The three challenges, one after the other.                              *)
LEMMA AllProcessed ==
  ASSUME Won!Batch \in Seq(RankEvent), NEW C, NEW R, OneRowOf(C, R), IsFiniteSet(R)
  PROVE  \E D, Q : Taken(C, R, D, Q)
  <1>1. PICK D1, Q1 : TakenOf(C, R, "tracks", D1, Q1)
    BY Processed
  <1>2. PICK D2, Q2 : TakenOf(D1, Q1, "underground", D2, Q2)
    <2>1. OneRowOf(D1, Q1) /\ IsFiniteSet(Q1)
      BY <1>1 DEF TakenOf
    <2> QED
      BY <2>1, Processed
  <1>3. PICK D3, Q3 : TakenOf(D2, Q2, "playlists", D3, Q3)
    <2>1. OneRowOf(D2, Q2) /\ IsFiniteSet(Q2)
      BY <1>2 DEF TakenOf
    <2> QED
      BY <2>1, Processed
  <1>4. Won!ProcessAll([challenges |-> C, results |-> R]) = [challenges |-> D3, results |-> Q3]
    BY <1>1, <1>2, <1>3 DEF Won!ProcessAll, TakenOf
  <1>5. ASSUME NEW e \in Elements(Won!Batch) PROVE \E d \in Q3 : Won!Same(d, e)
    <2>1. e.type \in RankTypes
      <3>1. e \in RankEvent
        BY FiniteElements
      <3> QED
        BY <3>1 DEF RankEvent
    <2> QED
      BY <1>1, <1>2, <1>3, <2>1 DEF RankTypes, TakenOf
  <1>6. R \subseteq Q3 /\ Q3 \subseteq R \cup Elements(Won!Batch)
    BY <1>1, <1>2, <1>3 DEF TakenOf
  <1>7. OneRowOf(D3, Q3) /\ IsFiniteSet(Q3)
    BY <1>3 DEF TakenOf
  <1> QED
    BY <1>4, <1>5, <1>6, <1>7 DEF Taken

LEMMA ProcessKeeps ==
  ASSUME Weekly, WeekInv, Won!ProcessEvents
  PROVE  WeekInv'
  <1> DEFINE s == Won!ProcessAll([challenges |-> challenges, results |-> results])
  <1>1. /\ queue' = Won!Rest /\ challenges' = s.challenges /\ results' = s.results
        /\ UNCHANGED <<clock, shown, rankings, tasks, job, env>>
    BY DEF Won!ProcessEvents
  <1>2. queue \in Seq(RankEvent) /\ MaxEvents \in Nat /\ results \subseteq RankEvent /\ IsFiniteSet(results)
    BY DEF Weekly, WeekInv, WeekTypes
  <1>3. /\ Won!Batch \in Seq(RankEvent) /\ Won!Rest \in Seq(RankEvent)
        /\ Elements(queue) = Elements(Won!Batch) \cup Elements(Won!Rest)
    BY <1>2, BatchAndRest
  <1>4. OneRowOf(challenges, results)
    BY DEF WeekInv, OneRow, OneRowOf
  <1>0. PICK D, Q : Taken(challenges, results, D, Q)
    BY <1>2, <1>3, <1>4, AllProcessed
  <1>5. /\ s = [challenges |-> D, results |-> Q]
        /\ OneRowOf(D, Q) /\ IsFiniteSet(Q)
        /\ results \subseteq Q /\ Q \subseteq results \cup Elements(Won!Batch)
        /\ \A e \in Elements(Won!Batch) : \E d \in Q : Won!Same(d, e)
    BY <1>0 DEF Taken
  <1>6. challenges' = D /\ results' = Q
    BY <1>1, <1>5
  <1>7. Elements(Won!Batch) \subseteq RankEvent
    BY <1>3, FiniteElements
  <1>8. WeekTypes'
    BY <1>1, <1>2, <1>3, <1>5, <1>6, <1>7 DEF WeekInv, WeekTypes
  <1>9. OneRow'
    BY <1>5, <1>6 DEF OneRow, OneRowOf
  <1>10. Elements(queue)' = Elements(Won!Rest) /\ Elements(job.events)' = Elements(job.events)
    BY <1>1 DEF Elements
  <1>11. Sent' \subseteq Sent /\ Today' = Today
    BY <1>1, <1>3, <1>5, <1>6, <1>10 DEF Sent, Today
  <1>12. ASSUME NEW e \in Sent PROVE \E d \in Sent' : Won!Same(d, e)
    <2>1. CASE e \in results \/ e \in Elements(Won!Rest)
      <3>1. e \in Sent' /\ Won!Same(e, e)
        BY <1>5, <1>6, <1>10, <2>1 DEF Sent, Won!Same
      <3> QED
        BY <3>1
    <2>2. CASE e \in Elements(Won!Batch)
      BY <1>5, <1>6, <2>2 DEF Sent
    <2> QED
      BY <1>3, <2>1, <2>2 DEF Sent
  <1>13. OfToday'
    BY <1>1, <1>10, <1>11 DEF WeekInv, OfToday
  <1>14. ASSUME env'.fails = 0 PROVE RanksKept'
    <2>1. RanksKept
      BY <1>1, <1>14 DEF WeekInv
    <2>2. ASSUME NEW e, NEW d, Won!Same(d, e)
          PROVE  d.type = e.type /\ d.week = e.week /\ d.rank = e.rank
      BY <2>2 DEF Won!Same, Won!Specifier
    <2>3. ASSUME NEW e \in AllEvents' , NEW i \in 1..e.rank
          PROVE  \E d \in AllEvents' : d.type = e.type /\ d.week = e.week /\ d.rank = i
      <3>1. e \in AllEvents
        BY <1>10, <1>11, <2>3 DEF AllEvents
      <3>2. PICK f \in AllEvents : f.type = e.type /\ f.week = e.week /\ f.rank = i
        BY <2>1, <2>3, <3>1 DEF RanksKept, NoGaps
      <3>3. CASE f \in Sent
        <4>1. PICK d \in Sent' : Won!Same(d, f)
          BY <1>12, <3>3
        <4>2. d \in AllEvents'
          BY <4>1 DEF AllEvents
        <4> QED
          BY <2>2, <3>2, <4>1, <4>2
      <3>4. CASE f \in Elements(job.events)
        BY <1>10, <3>2, <3>4 DEF AllEvents
      <3> QED
        BY <3>3, <3>4 DEF AllEvents
    <2>4. NoGaps(AllEvents)'
      BY <2>3 DEF NoGaps
    <2>5. ASSUME NEW type, NEW date, HasWinner(Sent, type, date)
          PROVE  \E d \in Sent' : d.type = type /\ d.week = date
      <3>1. PICK e \in Sent : e.type = type /\ e.week = date
        BY <2>5 DEF HasWinner
      <3>2. PICK d \in Sent' : Won!Same(d, e)
        BY <1>12
      <3> QED
        BY <2>2, <3>1, <3>2
    <2>6. \A e \in Sent' :
            /\ \E d \in Sent' : d.type = "tracks" /\ d.week = e.week
            /\ \E d \in Sent' : d.type = "underground" /\ d.week = e.week
      BY <1>11, <2>1, <2>5 DEF RanksKept
    <2>7. \A date \in Won!Dates : Won!Asked(date)' =>
            \/ \E i \in DOMAIN tasks : tasks[i] = date
            \/ job.pc = "calculate" /\ job.date = date
            \/ \E e \in Sent' : e.week = date
      <3>1. SUFFICES ASSUME NEW date \in Won!Dates, Won!Asked(date), NEW e \in Sent, e.week = date
                     PROVE  \E d \in Sent' : d.week = date
        BY <1>1, <2>1 DEF RanksKept, Won!Asked
      <3>2. PICK d \in Sent' : Won!Same(d, e)
        BY <1>12
      <3> QED
        BY <2>2, <3>1, <3>2
    <2>8. /\ job'.step > 1 => HasWinner(Elements(job.events), "tracks", job.date)
          /\ job'.step > 2 => HasWinner(Elements(job.events), "underground", job.date)
      BY <1>1, <2>1 DEF RanksKept
    <2> QED
      BY <1>1, <1>10, <2>4, <2>6, <2>7, <2>8 DEF RanksKept, HasWinner
  <1> QED
    BY <1>8, <1>9, <1>13, <1>14 DEF WeekInv

LEMMA WeekStarts ==
  ASSUME Weekly, Won!Init
  PROVE  WeekInv
  <1>1. /\ clock = 0 /\ shown = Won!Playlists /\ rankings = [k \in Won!Keys |-> Won!NotCached]
        /\ tasks = <<>> /\ job = Won!Idle /\ queue = <<>> /\ challenges = {} /\ results = {}
        /\ env = [rankings |-> 0, hidden |-> 0, fails |-> 0]
    BY DEF Won!Init
  <1>2. /\ job.pc = "idle" /\ job.events = <<>> /\ job.date = 0 /\ job.step = 0
        /\ job \in [pc : {"idle", "calculate"}, date : Int, step : Nat, events : Seq(RankEvent)]
    <2>1. <<>> \in Seq(RankEvent)
      OBVIOUS
    <2> HIDE DEF RankEvent
    <2> QED
      BY <1>1, <2>1 DEF Won!Idle
  <1>3. env \in [rankings : Nat, hidden : Nat, fails : Nat] /\ IsFiniteSet(results)
    BY <1>1, FS_EmptySet
  <1>4. WeekTypes
    <2>1. clock \in 0..Len(Calendar) /\ tasks \in Seq(Won!Dates) /\ queue \in Seq(RankEvent)
      BY <1>1, DatesOfBlocks
    <2> QED
      BY <1>1, <1>2, <1>3, <2>1 DEF WeekTypes
  <1>5. OneRow
    BY <1>1 DEF OneRow
  <1>6. Sent = {} /\ AllEvents = {} /\ Elements(job.events) = {}
    BY <1>1, <1>2 DEF Sent, AllEvents, Elements
  <1>7. OfToday
    BY <1>1, <1>2, <1>6 DEF OfToday
  <1>8. RanksKept
    <2>1. \A date : ~Won!Asked(date)
      BY <1>1 DEF Won!Asked
    <2> QED
      BY <1>2, <1>6, <2>1 DEF RanksKept, NoGaps
  <1> QED
    BY <1>4, <1>5, <1>7, <1>8 DEF WeekInv

LEMMA WeekKept ==
  ASSUME Weekly
  PROVE  Won!Spec => []WeekInv
  <1>1. Won!Init => WeekInv
    BY WeekStarts
  <1>2. WeekInv /\ [Won!Next]_Won!vars => WeekInv'
    <2>1. SUFFICES ASSUME WeekInv, [Won!Next]_Won!vars PROVE WeekInv'
      OBVIOUS
    <2>2. CASE UNCHANGED Won!vars
      <3>1. UNCHANGED <<clock, shown, rankings, tasks, job, queue, challenges, results, env>>
        BY <2>2 DEF Won!vars
      <3> QED
        BY <2>1, <3>1 DEF WeekInv, WeekTypes, OneRow, OfToday, RanksKept, Sent, AllEvents, Today, Won!Asked
    <2>3. CASE Won!Next
      BY <2>1, <2>3, CacheKeeps, HideKeeps, BlockKeeps, StartKeeps, CalculateKeeps, FinishKeeps,
         FailKeeps, CrashKeeps, ProcessKeeps, LoseKeeps DEF Won!Next
    <2> QED
      BY <2>1, <2>2, <2>3
  <1> QED
    BY <1>1, <1>2, PTL DEF Won!Spec

-----------------------------------------------------------------------------
(* What it says                                                            *)

(* OneWinnerPerRank of the weekly rewards: a rank of a week is rewarded    *)
(* once, for any number of rankings, calculations of one date and          *)
(* failures at any step.                                                   *)
THEOREM OneWinnerForEachRank ==
  ASSUME Weekly
  PROVE  Won!Spec => []Won!OneWinnerPerRank
  <1>1. WeekInv => Won!OneWinnerPerRank
    <2>1. SUFFICES ASSUME WeekInv PROVE Won!OneWinnerPerRank
      OBVIOUS
    <2>2. /\ \A e, d \in results : Won!Same(e, d) => e = d
          /\ challenges = {Won!Row(e) : e \in results} /\ IsFiniteSet(results)
      BY <2>1 DEF WeekInv, OneRow, WeekTypes
    <2>3. ASSUME NEW c \in challenges, NEW d \in challenges,
                 c.type = d.type, c.spec[1] = d.spec[1], c.spec[2] = d.spec[2]
          PROVE  c = d
      <3>1. PICK e \in results : c = Won!Row(e)
        BY <2>2
      <3>2. PICK f \in results : d = Won!Row(f)
        BY <2>2
      <3>3. Won!Same(e, f)
        BY <2>3, <3>1, <3>2 DEF Won!Row, Won!Same, Won!Specifier
      <3> QED
        BY <2>2, <3>1, <3>2, <3>3
    <2>4. ASSUME NEW c \in challenges
          PROVE  \E r \in results :
                   r.type = c.type /\ <<r.week, r.rank>> = <<c.spec[1], c.spec[2]>> /\ r.user = c.user
      <3>1. PICK e \in results : c = Won!Row(e)
        BY <2>2
      <3> QED
        BY <3>1 DEF Won!Row, Won!Specifier
    <2>5. Cardinality(results) = Cardinality(challenges)
      <3> DEFINE f == [e \in results |-> Won!Row(e)]
      <3>1. f \in Surjection(results, challenges)
        BY <2>2 DEF Surjection
      <3>2. \A e, d \in results : f[e] = f[d] => e = d
        <4>1. \A e, d \in results : Won!Row(e) = Won!Row(d) => Won!Same(e, d)
          BY DEF Won!Row, Won!Same
        <4> QED
          BY <2>2, <4>1
      <3>3. f \in Injection(results, challenges)
        BY <3>1, <3>2 DEF Surjection, Injection, IsInjective
      <3> HIDE DEF f
      <3> QED
        BY <2>2, <3>1, <3>3, FS_Surjection
    <2>6. /\ Won!Cardinality(results) = Cardinality(results)
          /\ Won!Cardinality(challenges) = Cardinality(challenges)
      BY DEF Won!Cardinality, Cardinality
    <2> QED
      BY <2>3, <2>4, <2>5, <2>6 DEF Won!OneWinnerPerRank
  <1> QED
    BY <1>1, WeekKept, PTL

(* The ranks of a finite set without gaps are the first ones.              *)
LEMMA RanksWithoutGaps ==
  ASSUME NEW top \in Nat, NEW W \in SUBSET (1..top), \A n \in W : 1..n \subseteq W
  PROVE  W = 1..Cardinality(W)
  <1>1. CASE W = {}
    BY <1>1, FS_EmptySet
  <1>2. CASE W # {}
    <2> DEFINE below == {top - n : n \in W}
    <2>1. below \in SUBSET Nat /\ below # {}
      <3>1. ASSUME NEW n \in W PROVE top - n \in Nat
        BY n \in 1..top
      <3>2. \A b \in below : b \in Nat
        BY <3>1
      <3>3. PICK n \in W : TRUE
        BY <1>2
      <3>4. top - n \in below
        BY <3>3
      <3> QED
        BY <3>2, <3>4
    <2>2. PICK b \in below : \A c \in below : b <= c
      <3> HIDE DEF below
      <3> QED
        BY <2>1, LeastNumber
    <2>3. PICK m \in W : b = top - m
      OBVIOUS
    <2>4. \A n \in W : n <= m
      <3>1. \A n \in W : top - n \in below
        OBVIOUS
      <3>2. \A n \in W : b <= top - n
        BY <2>2, <3>1
      <3> HIDE DEF below
      <3> QED
        BY <2>3, <3>2
    <2>5. W = 1..m /\ m \in Nat /\ m >= 1
      <3> HIDE DEF below
      <3>1. m \in 1..top /\ 1..m \subseteq W
        OBVIOUS
      <3>2. ASSUME NEW n \in W PROVE n \in 1..m
        <4>1. n \in 1..top
          OBVIOUS
        <4> QED
          BY <2>4, <3>1, <4>1
      <3>3. m \in Nat /\ m >= 1
        BY <3>1
      <3>4. W \subseteq 1..m
        BY <3>2
      <3> QED
        BY <3>1, <3>3, <3>4
    <2>6. Cardinality(1..m) = m
      BY <2>5, FS_Interval
    <2> QED
      BY <2>5, <2>6
  <1> QED
    BY <1>1, <1>2

(* EveryRankingRewarded of the weekly rewards: unless something fails each *)
(* ranking of a date that was asked for has its winners, from the first    *)
(* rank on without gaps, for any rankings and events of any number.        *)
THEOREM EachRankingIsRewarded ==
  ASSUME Weekly
  PROVE  Won!Spec => []Won!EveryRankingRewarded
  <1>1. WeekInv => Won!EveryRankingRewarded
    <2>0. \A S : Won!Cardinality(S) = Cardinality(S)
      BY DEF Won!Cardinality, Cardinality
    <2>1. SUFFICES ASSUME WeekInv, env.fails = 0, Won!Settled, queue = <<>>,
                          NEW date \in Won!Dates, Won!Asked(date), NEW k \in Won!Keys
                   PROVE  /\ Won!Winners(k.type, date) = 1..Cardinality(Won!Winners(k.type, date))
                          /\ k.type # "playlists" => Won!Winners(k.type, date) # {}
      BY <2>0 DEF Won!EveryRankingRewarded
    <2>2. RanksKept /\ job = Won!Idle /\ tasks = <<>> /\ job.pc = "idle" /\ job.events = <<>>
      BY <2>1 DEF WeekInv, WeekTypes, Won!Settled, Won!Idle
    <2>3. Sent = results /\ AllEvents = results
      <3>1. Elements(queue) = {} /\ Elements(job.events) = {}
        BY <2>1, <2>2, EmptyElements
      <3> QED
        BY <3>1 DEF Sent, AllEvents
    <2> DEFINE W == Won!Winners(k.type, date)
    <2>4. W \in SUBSET (1..Top) /\ Top \in Nat
      <3>1. ASSUME NEW n \in W PROVE n \in 1..Top
        <4>1. PICK r \in results : n = r.rank
          BY DEF Won!Winners
        <4>2. r \in RankEvent
          BY <2>1 DEF WeekInv, WeekTypes
        <4> QED
          BY <4>1, <4>2 DEF RankEvent
      <3> QED
        BY <3>1 DEF Weekly
    <2>5. ASSUME NEW n \in W PROVE 1..n \subseteq W
      <3>1. SUFFICES ASSUME NEW i \in 1..n PROVE i \in W
        OBVIOUS
      <3>2. PICK r \in results : r.type = k.type /\ r.week = date /\ n = r.rank
        BY DEF Won!Winners
      <3>3. PICK d \in results : d.type = r.type /\ d.week = r.week /\ d.rank = i
        BY <2>2, <2>3, <3>2 DEF RanksKept, NoGaps
      <3> QED
        BY <3>2, <3>3 DEF Won!Winners
    <2>6. k.type # "playlists" => W # {}
      <3>1. SUFFICES ASSUME k.type # "playlists" PROVE W # {}
        OBVIOUS
      <3>2. PICK e \in results : e.week = date
        BY <2>1, <2>2, <2>3 DEF RanksKept
      <3>3. HasWinner(results, "tracks", date) /\ HasWinner(results, "underground", date)
        BY <2>2, <2>3, <3>2 DEF RanksKept
      <3>4. k.type \in {"tracks", "underground"}
        BY <3>1, PlanOfFour DEF RankTypes
      <3>5. PICK d \in results : d.type = k.type /\ d.week = date
        BY <3>3, <3>4 DEF HasWinner
      <3> QED
        BY <3>5 DEF Won!Winners
    <2> HIDE DEF W
    <2>7. W = 1..Cardinality(W)
      BY <2>4, <2>5, RanksWithoutGaps
    <2> QED
      BY <2>6, <2>7 DEF W
  <1> QED
    BY <1>1, WeekKept, PTL
-----------------------------------------------------------------------------
(***************************************************************************)
(* The challenges themselves: events become rows, and rows progress, in    *)
(* whatever order blocks, retries and losses come.                         *)
(***************************************************************************)
CONSTANTS Steps, ActSets, StartBlock, MaxRetries, MaxLosses
VARIABLES acts, world, partial
Bus == INSTANCE Challenges

(* Rows of challenges                                                      *)

(* Challenges are of so many steps, referrals rewarded up to a number of   *)
(* them; 0 is not a user.                                                  *)
Referring ==
  /\ 0 \notin Users /\ MaxEvents \in Nat
  /\ \A ch \in Bus!Aggregates \cup {"track-upload", "listen-streak"} : Steps[ch] \in Nat \ {0}

BusEvent == [type : {"upload", "listen", "signup", "install", "trending", "bio", "repost"},
             user : Users, block : Nat, extra : Nat]
Progress(r) ==
  /\ r = [ch |-> r.ch, spec |-> r.spec, user |-> r.user, steps |-> r.steps,
          done |-> r.done, block |-> r.block]
  /\ r.user \in Users /\ r.steps \in Nat /\ r.done \in BOOLEAN
  /\ r.ch \in Bus!Aggregates => r.done
  /\ r.ch = "profile-completion" => r.spec = <<r.user, "">>
OwnRows(R, ch, u) == {r \in R : r.ch = ch /\ r.user = u}
OneEach(R) == \A r, q \in R : r.ch = q.ch /\ r.spec = q.spec => r = q
Capped(R) == \A ch \in Bus!Aggregates : \A u \in Users :
  IsFiniteSet(OwnRows(R, ch, u)) /\ Cardinality(OwnRows(R, ch, u)) <= Steps[ch]
Counted(p) ==
  /\ p = [streak |-> p.streak, profile |-> p.profile]
  /\ DOMAIN p.streak = Users /\ \A u \in Users : p.streak[u].n \in Nat
  /\ p.profile = [u \in Users |-> p.profile[u]]
  /\ \A u \in Users : p.profile[u] = [bio |-> p.profile[u].bio, repost |-> p.profile[u].repost]
Uploaded(w) == DOMAIN w.tracks = Users /\ \A u \in Users : w.tracks[u] \in Nat
RowsOK(s) ==
  /\ s = [rows |-> s.rows, partial |-> s.partial]
  /\ \A r \in s.rows : Progress(r)
  /\ OneEach(s.rows) /\ Capped(s.rows) /\ Counted(s.partial)
\* What was complete in R is, and uploads that are now complete are there.
Follows(w, R, s) ==
  /\ \A r \in R : r.done => r \in s.rows
  /\ \A r \in s.rows \ R : r.ch = "track-upload" /\ r.done => w.tracks[r.user] >= Steps[r.ch]

(* The instance counts as this module does.                                *)
LEMMA SameCounts == \A S : Bus!Cardinality(S) = Cardinality(S)
  BY DEF Bus!Cardinality, Cardinality

LEMMA GreatestIn ==
  ASSUME NEW l \in Nat, NEW F \in SUBSET (1..l), F # {}
  PROVE  \E m \in F : \A i \in F : i <= m
  <1> DEFINE T == {n \in Nat : l - n \in F}
  <1>1. PICK i \in F : TRUE
    OBVIOUS
  <1>2. l - i \in T
    BY <1>1
  <1>3. PICK n \in T : \A m \in T : n <= m
    <2>1. T \in SUBSET Nat /\ T # {}
      BY <1>2
    <2> HIDE DEF T
    <2> QED
      BY <2>1, LeastNumber
  <1>4. ASSUME NEW j \in F PROVE j <= l - n
    <2>1. l - j \in T
      OBVIOUS
    <2>2. n <= l - j
      BY <1>3, <2>1
    <2> QED
      BY <2>2
  <1> QED
    BY <1>3, <1>4

(* At most k members of a set have fewer than k before them.               *)
LEMMA FirstFew ==
  ASSUME NEW l \in Nat, NEW F \in SUBSET (1..l), NEW k \in Nat
  PROVE  LET G == {i \in F : Cardinality({j \in F : j < i}) < k}
         IN  IsFiniteSet(G) /\ Cardinality(G) <= k
  <1> DEFINE Below(i) == {j \in F : j < i}
             G == {i \in F : Cardinality(Below(i)) < k}
  <1>1. IsFiniteSet(1..l)
    BY FS_Interval
  <1>2. IsFiniteSet(F) /\ IsFiniteSet(G) /\ Cardinality(G) \in Nat
    BY <1>1, FS_Subset, FS_CardinalityType
  <1>3. ASSUME Cardinality(G) > k PROVE FALSE
    <2>1. G # {} /\ G \in SUBSET (1..l)
      <3>1. G \in SUBSET F
        OBVIOUS
      <3> HIDE DEF G
      <3> QED
        BY <1>2, <1>3, <3>1, FS_EmptySet
    <2>2. PICK m \in G : \A i \in G : i <= m
      <3> HIDE DEF G
      <3> QED
        BY <2>1, GreatestIn
    <2>3. G \ {m} \in SUBSET Below(m)
      <3>1. ASSUME NEW i \in G, i # m PROVE i \in Below(m)
        <4>1. i \in F /\ i \in 1..l /\ m \in 1..l /\ i <= m
          BY <2>1, <2>2
        <4> QED
          BY <3>1, <4>1
      <3> HIDE DEF G, Below
      <3> QED
        BY <3>1
    <2>4. IsFiniteSet(Below(m))
      BY <1>2, FS_Subset
    <2>5. Cardinality(G \ {m}) <= Cardinality(Below(m)) /\ Cardinality(Below(m)) \in Nat
      <3> HIDE DEF G, Below
      <3> QED
        BY <2>3, <2>4, FS_Subset, FS_CardinalityType
    <2>6. Cardinality(G \ {m}) = Cardinality(G) - 1
      <3> HIDE DEF G, Below
      <3> QED
        BY <1>2, <2>2, FS_RemoveElement
    <2>7. Cardinality(Below(m)) < k
      BY <2>2
    <2> HIDE DEF G, Below
    <2> QED
      BY <1>2, <1>3, <2>5, <2>6, <2>7
  <1> HIDE DEF G
  <1>4. IsFiniteSet(G) /\ Cardinality(G) <= k
    BY <1>2, <1>3
  <1> QED
    BY <1>4 DEF G

\* A function does not add to a set.
LEMMA ImagesOf ==
  ASSUME NEW G, IsFiniteSet(G), NEW f, DOMAIN f = G
  PROVE  LET T == {f[x] : x \in G} IN IsFiniteSet(T) /\ Cardinality(T) <= Cardinality(G)
  <1> DEFINE T == {f[x] : x \in G}
  <1>1. [x \in G |-> f[x]] \in Surjection(G, T)
    BY DEF Surjection
  <1> HIDE DEF T
  <1>2. IsFiniteSet(T) /\ Cardinality(T) <= Cardinality(G)
    BY <1>1, FS_Surjection
  <1> QED
    BY <1>2 DEF T

-----------------------------------------------------------------------------
(* One manager                                                             *)

\* The merged events have specifiers of their own.
LEMMA MergedOnce ==
  ASSUME NEW ch, NEW type, NEW B \in Seq(BusEvent)
  PROVE  LET E == Bus!Merge(ch, type, B)
         IN  /\ DOMAIN E \in SUBSET (1..Len(B))
             /\ \A i \in DOMAIN E : E[i] \in BusEvent
             /\ \A i, j \in DOMAIN E :
                  Bus!Specifier(ch, E[i]) = Bus!Specifier(ch, E[j]) => i = j
  <1> DEFINE E == Bus!Merge(ch, type, B)
             fit == {i \in DOMAIN B : B[i].type = type /\ B[i].block >= StartBlock}
             same(i) == {j \in fit : Bus!Specifier(ch, B[j]) = Bus!Specifier(ch, B[i])}
             last(i) == CHOOSE j \in same(i) : \A k \in same(i) : k <= j
  <1>1. DOMAIN B = 1..Len(B) /\ Len(B) \in Nat /\ \A i \in 1..Len(B) : B[i] \in BusEvent
    OBVIOUS
  <1>2. E = [i \in {i \in fit : \A j \in same(i) : i <= j} |-> B[last(i)]]
    BY DEF Bus!Merge
  <1>3. ASSUME NEW i \in DOMAIN E
        PROVE  i \in same(i) /\ (\A j \in same(i) : i <= j) /\ E[i] = B[last(i)]
    BY <1>2
  <1>4. ASSUME NEW i \in DOMAIN E PROVE last(i) \in same(i)
    <2>1. same(i) \in SUBSET (1..Len(B)) /\ same(i) # {}
      BY <1>1, <1>3
    <2> HIDE DEF same
    <2>2. \E j \in same(i) : \A k \in same(i) : k <= j
      BY <1>1, <2>1, GreatestIn
    <2> QED
      BY <2>2
  <1>5. ASSUME NEW i \in DOMAIN E
        PROVE  i \in 1..Len(B) /\ E[i] \in BusEvent /\ Bus!Specifier(ch, E[i]) = Bus!Specifier(ch, B[i])
    <2>1. last(i) \in 1..Len(B) /\ Bus!Specifier(ch, B[last(i)]) = Bus!Specifier(ch, B[i])
      <3>1. last(i) \in same(i)
        BY <1>4
      <3> HIDE DEF last
      <3> QED
        BY <1>1, <3>1
    <2>2. i \in fit /\ E[i] = B[last(i)]
      BY <1>3
    <2> HIDE DEF last, E
    <2> QED
      BY <1>1, <2>1, <2>2
  <1>6. ASSUME NEW i \in DOMAIN E, NEW j \in DOMAIN E,
               Bus!Specifier(ch, E[i]) = Bus!Specifier(ch, E[j])
        PROVE  i = j
    <2>1. Bus!Specifier(ch, B[i]) = Bus!Specifier(ch, B[j])
      BY <1>5, <1>6
    <2>2. j \in same(i) /\ i \in same(j)
      <3>1. i \in fit /\ j \in fit
        BY <1>3
      <3> HIDE DEF fit
      <3> QED
        BY <2>1, <3>1
    <2>3. i <= j /\ j <= i /\ i \in Nat /\ j \in Nat
      <3>1. (\A k \in same(i) : i <= k) /\ (\A k \in same(j) : j <= k)
        BY <1>3
      <3>2. i \in 1..Len(B) /\ j \in 1..Len(B)
        BY <1>5
      <3> HIDE DEF same
      <3> QED
        BY <1>1, <2>2, <3>1, <3>2
    <2> QED
      BY <2>3
  <1> HIDE DEF E
  <1>7. /\ DOMAIN E \in SUBSET (1..Len(B))
        /\ \A i \in DOMAIN E : E[i] \in BusEvent
        /\ \A i, j \in DOMAIN E :
             Bus!Specifier(ch, E[i]) = Bus!Specifier(ch, E[j]) => i = j
    BY <1>5, <1>6
  <1> QED
    BY <1>7 DEF E

\* Rows are created for specifiers that have none.
LEMMA CreatedAre ==
  ASSUME NEW w, NEW R, NEW ch, NEW E, \A i \in DOMAIN E : E[i] \in BusEvent,
         \A i, j \in DOMAIN E : Bus!Specifier(ch, E[i]) = Bus!Specifier(ch, E[j]) => i = j
  PROVE  /\ \A r \in Bus!Created(w, R, ch, E) :
              /\ Progress(r) /\ r.ch = ch /\ r.steps = 0
              /\ (r.done = (ch \in Bus!Aggregates))
              /\ \E i \in DOMAIN E : r = Bus!NewRow(ch, E[i])
              /\ \A q \in R : ~(q.ch = ch /\ q.spec = r.spec)
         /\ \A r, q \in Bus!Created(w, R, ch, E) : r.spec = q.spec => r = q
  <1> DEFINE N == Bus!Created(w, R, ch, E)
  <1>1. ASSUME NEW r \in N
        PROVE  \E i \in DOMAIN E : r = Bus!NewRow(ch, E[i]) /\ Bus!RowOf(R, ch, Bus!Specifier(ch, E[i])) = {}
    BY DEF Bus!Created
  <1> HIDE DEF N
  <1>2. ASSUME NEW r \in N
        PROVE  /\ Progress(r) /\ r.ch = ch /\ r.steps = 0
               /\ (r.done = (ch \in Bus!Aggregates))
               /\ \E i \in DOMAIN E : r = Bus!NewRow(ch, E[i])
               /\ \A q \in R : ~(q.ch = ch /\ q.spec = r.spec)
    <2>1. PICK i \in DOMAIN E : r = Bus!NewRow(ch, E[i]) /\ Bus!RowOf(R, ch, Bus!Specifier(ch, E[i])) = {}
      BY <1>1
    <2>2. r = [ch |-> ch, spec |-> Bus!Specifier(ch, E[i]), user |-> E[i].user, steps |-> 0,
               done |-> ch \in Bus!Aggregates, block |-> 0]
      BY <2>1 DEF Bus!NewRow
    <2>3. r.ch = ch /\ r.spec = Bus!Specifier(ch, E[i]) /\ r.user = E[i].user /\ r.steps = 0 /\ r.block = 0
      BY <2>2
    <2>4. r.done = (ch \in Bus!Aggregates)
      BY <2>2, Zenon
    <2>5. r = [ch |-> r.ch, spec |-> r.spec, user |-> r.user, steps |-> r.steps, done |-> r.done, block |-> r.block]
      BY <2>2, <2>3, <2>4, Zenon
    <2>6. E[i].user \in Users
      BY DEF BusEvent
    <2>7. Progress(r)
      <3>1. r.done \in BOOLEAN /\ (ch \in Bus!Aggregates => r.done)
        <4>1. CASE ch \in Bus!Aggregates
          BY <2>4, <4>1
        <4>2. CASE ch \notin Bus!Aggregates
          BY <2>4, <4>2
        <4> QED
          BY <4>1, <4>2
      <3>2. r.user \in Users /\ r.steps \in Nat
        BY <2>3, <2>6
      <3>3. ch = "profile-completion" => r.spec = <<r.user, "">>
        BY <2>3 DEF Bus!Specifier, Bus!Aggregates
      <3> QED
        BY <2>3, <2>5, <3>1, <3>2, <3>3, Zenon DEF Progress
    <2>8. \A q \in R : ~(q.ch = ch /\ q.spec = r.spec)
      BY <2>1, <2>3 DEF Bus!RowOf
    <2> QED
      BY <2>1, <2>3, <2>4, <2>7, <2>8
  <1>3. ASSUME NEW r \in N, NEW q \in N, r.spec = q.spec PROVE r = q
    <2>1. PICK i \in DOMAIN E : r = Bus!NewRow(ch, E[i])
      BY <1>1
    <2>2. PICK j \in DOMAIN E : q = Bus!NewRow(ch, E[j])
      BY <1>1
    <2>3. r.spec = Bus!Specifier(ch, E[i]) /\ q.spec = Bus!Specifier(ch, E[j])
      BY <2>1, <2>2 DEF Bus!NewRow
    <2> QED
      BY <1>3, <2>1, <2>2, <2>3
  <1> QED
    BY <1>2, <1>3 DEF N

\* A user gets no more rows of an aggregate challenge than are left to earn.
LEMMA CreatedFew ==
  ASSUME Referring, NEW w, NEW R, NEW ch \in Bus!Aggregates, NEW l \in Nat, NEW E,
         DOMAIN E \in SUBSET (1..l), NEW u \in Users,
         IsFiniteSet(OwnRows(R, ch, u)), Cardinality(OwnRows(R, ch, u)) <= Steps[ch]
  PROVE  LET D == {r \in Bus!Created(w, R, ch, E) : r.user = u}
         IN  /\ IsFiniteSet(D)
             /\ Cardinality(D) <= Steps[ch] - Cardinality(OwnRows(R, ch, u))
  <1> DEFINE D == {r \in Bus!Created(w, R, ch, E) : r.user = u}
             fresh == {i \in DOMAIN E : Bus!RowOf(R, ch, Bus!Specifier(ch, E[i])) = {}}
             F == {i \in fresh : E[i].user = u}
             k == Steps[ch] - Cardinality(OwnRows(R, ch, u))
             G == {i \in F : Cardinality({j \in F : j < i}) < k}
  <1>1. k \in Nat /\ Cardinality(OwnRows(R, ch, u)) \in Nat /\ Steps[ch] \in Nat
    BY FS_CardinalityType DEF Referring
  <1>2. IsFiniteSet(G) /\ Cardinality(G) <= k /\ Cardinality(G) \in Nat
    <2>1. F \in SUBSET (1..l)
      OBVIOUS
    <2> HIDE DEF F, k
    <2> QED
      BY <1>1, <2>1, FirstFew, FS_CardinalityType
  <1>3. ASSUME NEW r \in D PROVE \E i \in G : r = Bus!NewRow(ch, E[i])
    <2>1. PICK i \in fresh :
            /\ r = Bus!NewRow(ch, E[i])
            /\ ~(Cardinality({q \in R : q.ch = ch /\ q.user = E[i].user})
                   + Cardinality({j \in fresh : j < i /\ E[j].user = E[i].user}) >= Steps[ch])
      BY SameCounts, Zenon DEF Bus!Created
    <2>2. E[i].user = u
      BY <2>1 DEF Bus!NewRow
    <2>3. i \in F /\ {j \in fresh : j < i /\ E[j].user = E[i].user} = {j \in F : j < i}
      BY <2>2
    <2>4. {q \in R : q.ch = ch /\ q.user = E[i].user} = OwnRows(R, ch, u)
      BY <2>2 DEF OwnRows
    <2>5. Cardinality({j \in F : j < i}) \in Nat
      <3>1. IsFiniteSet(1..l)
        BY FS_Interval
      <3>2. {j \in F : j < i} \in SUBSET (1..l)
        OBVIOUS
      <3> HIDE DEF F
      <3> QED
        BY <3>1, <3>2, FS_Subset, FS_CardinalityType
    <2>6. ~(Cardinality(OwnRows(R, ch, u)) + Cardinality({j \in F : j < i}) >= Steps[ch])
      BY <2>1, <2>3, <2>4, Zenon
    <2>7. Cardinality({j \in F : j < i}) < k
      <3> DEFINE n == Cardinality({j \in F : j < i})
      <3>1. n \in Nat /\ ~(Cardinality(OwnRows(R, ch, u)) + n >= Steps[ch])
        BY <2>5, <2>6
      <3> HIDE DEF n
      <3>2. n < k
        BY <1>1, <3>1
      <3> QED
        BY <3>2 DEF n
    <2>8. i \in G
      BY <2>3, <2>7
    <2> QED
      BY <2>1, <2>8
  <1> DEFINE f == [i \in G |-> Bus!NewRow(ch, E[i])]
             T == {f[i] : i \in G}
  <1>4. IsFiniteSet(T) /\ Cardinality(T) <= Cardinality(G) /\ Cardinality(T) \in Nat
    <2>1. DOMAIN f = G
      OBVIOUS
    <2> HIDE DEF f, G
    <2> QED
      BY <1>2, <2>1, ImagesOf, FS_CardinalityType
  <1>5. D \in SUBSET T
    <2>1. ASSUME NEW r \in D PROVE r \in T
      <3>1. PICK i \in G : r = Bus!NewRow(ch, E[i])
        BY <1>3
      <3>2. f[i] = r
        BY <3>1
      <3> QED
        BY <3>2
    <2> HIDE DEF D, T
    <2> QED
      BY <2>1
  <1> HIDE DEF D, T, G, k
  <1>6. IsFiniteSet(D) /\ Cardinality(D) <= Cardinality(T) /\ Cardinality(D) \in Nat
    BY <1>4, <1>5, FS_Subset, FS_CardinalityType
  <1>7. IsFiniteSet(D) /\ Cardinality(D) <= k
    BY <1>1, <1>2, <1>4, <1>6
  <1> QED
    BY <1>7 DEF D, k

\* Updating and stamping keep what names a row and who owns it.
LEMMA StampedRow ==
  ASSUME Referring, NEW w, Uploaded(w), NEW p, Counted(p), NEW ch, NEW E, NEW r, Progress(r),
         \E i \in DOMAIN E : Bus!Specifier(ch, E[i]) = r.spec
  PROVE  LET q == Bus!Stamp(ch, E, Bus!Updated(w, p, r))
         IN  /\ Progress(q) /\ q.ch = r.ch /\ q.spec = r.spec /\ q.user = r.user
             /\ (r.ch = "track-upload" /\ q.done => w.tracks[r.user] >= Steps[r.ch])
  <1> DEFINE t == Bus!Updated(w, p, r)
             q == Bus!Stamp(ch, E, t)
             Like(x) == /\ x = [ch |-> r.ch, spec |-> r.spec, user |-> r.user, steps |-> x.steps,
                                done |-> x.done, block |-> x.block]
                        /\ x.steps \in Nat /\ x.done \in BOOLEAN
                        /\ r.ch \in Bus!Aggregates => x.done
                        /\ r.ch = "track-upload" /\ x.done => w.tracks[r.user] >= Steps[r.ch]
  <1>1. /\ r = [ch |-> r.ch, spec |-> r.spec, user |-> r.user, steps |-> r.steps, done |-> r.done, block |-> r.block]
        /\ r.user \in Users /\ r.steps \in Nat /\ r.done \in BOOLEAN
    BY DEF Progress
  <1>2. Like(t)
    <2>1. CASE r.ch = "track-upload"
      <3>3. w.tracks[r.user] \in Nat /\ Steps[r.ch] \in Nat
        BY <1>1, <2>1 DEF Uploaded, Referring
      <3>1. PICK b \in BOOLEAN : t = [r EXCEPT !.steps = w.tracks[r.user], !.done = b] /\ (b => w.tracks[r.user] >= Steps[r.ch])
        <4>1. CASE w.tracks[r.user] >= Steps[r.ch]
          <5>1. t = [r EXCEPT !.steps = w.tracks[r.user], !.done = TRUE]
            BY <2>1, <4>1 DEF Bus!Updated, Bus!Aggregates
          <5> QED
            BY <4>1, <5>1
        <4>2. CASE ~(w.tracks[r.user] >= Steps[r.ch])
          <5>1. (w.tracks[r.user] >= Steps[r.ch]) = FALSE
            BY <3>3, <4>2
          <5>2. t = [r EXCEPT !.steps = w.tracks[r.user], !.done = (w.tracks[r.user] >= Steps[r.ch])]
            BY <2>1 DEF Bus!Updated, Bus!Aggregates
          <5>3. t = [r EXCEPT !.steps = w.tracks[r.user], !.done = FALSE]
            BY <5>1, <5>2, Zenon
          <5> QED
            BY <5>3
        <4> QED
          BY <4>1, <4>2
      <3>2. r.ch \notin Bus!Aggregates
        BY <2>1 DEF Bus!Aggregates
      <3>5. t = [ch |-> r.ch, spec |-> r.spec, user |-> r.user, steps |-> w.tracks[r.user], done |-> b, block |-> r.block]
        BY <1>1, <3>1
      <3> HIDE DEF t
      <3>6. t.done => w.tracks[r.user] >= Steps[r.ch]
        BY <3>1, <3>5
      <3> QED
        BY <3>2, <3>3, <3>5, <3>6
    <2>2. CASE r.ch = "listen-streak"
      <3>3. p.streak[r.user].n \in Nat /\ Steps[r.ch] \in Nat
        BY <1>1, <2>2 DEF Counted, Referring
      <3>1. PICK b \in BOOLEAN : t = [r EXCEPT !.steps = p.streak[r.user].n, !.done = b] /\ (b => p.streak[r.user].n >= Steps[r.ch])
        <4>1. CASE p.streak[r.user].n >= Steps[r.ch]
          <5>1. t = [r EXCEPT !.steps = p.streak[r.user].n, !.done = TRUE]
            BY <2>2, <4>1 DEF Bus!Updated, Bus!Aggregates
          <5> QED
            BY <4>1, <5>1
        <4>2. CASE ~(p.streak[r.user].n >= Steps[r.ch])
          <5>1. (p.streak[r.user].n >= Steps[r.ch]) = FALSE
            BY <3>3, <4>2
          <5>2. t = [r EXCEPT !.steps = p.streak[r.user].n, !.done = (p.streak[r.user].n >= Steps[r.ch])]
            BY <2>2 DEF Bus!Updated, Bus!Aggregates
          <5>3. t = [r EXCEPT !.steps = p.streak[r.user].n, !.done = FALSE]
            BY <5>1, <5>2, Zenon
          <5> QED
            BY <5>3
        <4> QED
          BY <4>1, <4>2
      <3>2. r.ch \notin Bus!Aggregates /\ r.ch # "track-upload"
        BY <2>2 DEF Bus!Aggregates
      <3>5. t = [ch |-> r.ch, spec |-> r.spec, user |-> r.user, steps |-> p.streak[r.user].n, done |-> b, block |-> r.block]
        BY <1>1, <3>1
      <3> HIDE DEF t
      <3> QED
        BY <3>2, <3>3, <3>5
    <2>3. CASE r.ch = "profile-completion"
      <3> DEFINE k == Bus!ProfileSteps(p.profile[r.user])
      <3>1. PICK b \in BOOLEAN : t = [r EXCEPT !.steps = k, !.done = b] /\ (b => k = Steps[r.ch])
        <4>1. CASE k = Steps[r.ch]
          <5>1. t = [r EXCEPT !.steps = k, !.done = TRUE]
            BY <2>3, <4>1 DEF Bus!Updated, Bus!Aggregates
          <5> QED
            BY <4>1, <5>1
        <4>2. CASE ~(k = Steps[r.ch])
          <5>1. t = [r EXCEPT !.steps = k, !.done = FALSE]
            BY <2>3, <4>2 DEF Bus!Updated, Bus!Aggregates
          <5> QED
            BY <5>1
        <4> QED
          BY <4>1, <4>2
      <3>2. r.ch \notin Bus!Aggregates /\ r.ch # "track-upload"
        BY <2>3 DEF Bus!Aggregates
      <3>3. k \in Nat
        BY DEF Bus!ProfileSteps
      <3> HIDE DEF k
      <3>5. t = [ch |-> r.ch, spec |-> r.spec, user |-> r.user, steps |-> k, done |-> b, block |-> r.block]
        BY <1>1, <3>1
      <3> HIDE DEF t
      <3> QED
        BY <3>2, <3>3, <3>5
    <2>4. CASE r.ch \in Bus!Aggregates
      <3>1. t = r /\ r.ch # "track-upload"
        BY <2>4 DEF Bus!Updated, Bus!Aggregates
      <3>2. r.done
        BY <2>4 DEF Progress
      <3> HIDE DEF t
      <3> QED
        BY <1>1, <3>1, <3>2
    <2>5. CASE r.ch \notin {"track-upload", "listen-streak", "profile-completion"} \cup Bus!Aggregates
      <3>1. t = [r EXCEPT !.done = TRUE]
        BY <2>5 DEF Bus!Updated
      <3>2. t = [ch |-> r.ch, spec |-> r.spec, user |-> r.user, steps |-> r.steps, done |-> TRUE, block |-> r.block]
        BY <1>1, <3>1
      <3> HIDE DEF t
      <3> QED
        BY <1>1, <2>5, <3>2
    <2> QED
      BY <2>1, <2>2, <2>3, <2>4, <2>5
  <1> HIDE DEF t
  <1>3. Like(q)
    <2>1. CASE ~t.done
      BY <1>2, <2>1 DEF Bus!Stamp
    <2>2. CASE t.done
      <3> DEFINE n == E[CHOOSE i \in DOMAIN E : Bus!Specifier(ch, E[i]) = t.spec].block
      <3>1. q = [t EXCEPT !.block = n]
        BY <2>2 DEF Bus!Stamp
      <3> HIDE DEF n
      <3>2. q = [ch |-> r.ch, spec |-> r.spec, user |-> r.user, steps |-> t.steps, done |-> t.done, block |-> n]
        BY <1>2, <3>1
      <3> HIDE DEF q
      <3> QED
        BY <1>2, <3>2
    <2> QED
      BY <2>1, <2>2
  <1> HIDE DEF q
  <1>4. q.ch = r.ch /\ q.spec = r.spec /\ q.user = r.user
    BY <1>3
  <1>5. Progress(q)
    BY <1>1, <1>3, <1>4 DEF Progress
  <1> QED
    BY <1>3, <1>4, <1>5 DEF q, t

\* Streaks stay numbers, whoever's event a user is given.
LEMMA ListensCounted ==
  ASSUME NEW p, Counted(p), NEW o, NEW U, NEW E
  PROVE  Counted(Bus!HandleListens(p, o, U, E))
  <1> DEFINE day(u) == E[CHOOSE i \in DOMAIN E : Bus!Cardinality({j \in DOMAIN E : j < i})
                            = Bus!Cardinality({v \in U : o[v] < o[u]})].extra
             f == [u \in Users |-> IF u \in U THEN Bus!Listen(p.streak[u], day(u)) ELSE p.streak[u]]
             q == Bus!HandleListens(p, o, U, E)
  <1>1. q = [p EXCEPT !.streak = f]
    BY Zenon DEF Bus!HandleListens
  <1>2. ASSUME NEW u \in Users PROVE f[u].n \in Nat
    <2>1. p.streak[u].n \in Nat
      BY DEF Counted
    <2> DEFINE d == day(u)
    <2>2. f[u] = IF u \in U THEN Bus!Listen(p.streak[u], d) ELSE p.streak[u]
      OBVIOUS
    <2> HIDE DEF d, f
    <2>3. Bus!Listen(p.streak[u], d).n \in Nat
      BY <2>1 DEF Bus!Listen
    <2> QED
      BY <2>1, <2>2, <2>3
  <1>3. DOMAIN f = Users
    OBVIOUS
  <1> HIDE DEF f, q
  <1>4. p = [streak |-> p.streak, profile |-> p.profile]
    BY DEF Counted
  <1>5. q = [streak |-> f, profile |-> p.profile]
    BY <1>1, <1>4
  <1>6. Counted(q)
    BY <1>2, <1>3, <1>5 DEF Counted
  <1> QED
    BY <1>6 DEF q
LEMMA ProfileCounted ==
  ASSUME NEW w, NEW p, Counted(p), NEW type, NEW U
  PROVE  Counted(Bus!HandleProfile(w, p, type, U))
  <1> DEFINE q == Bus!HandleProfile(w, p, type, U)
  <1>1. p = [streak |-> p.streak, profile |-> p.profile]
    BY DEF Counted
  <1> DEFINE f == [u \in Users |->
                     IF u \notin U THEN p.profile[u]
                     ELSE IF type = "bio" THEN [p.profile[u] EXCEPT !.bio = w.bio[u]]
                     ELSE [p.profile[u] EXCEPT !.repost = w.reposts[u] >= 1]]
             Filled(x) == x = [bio |-> x.bio, repost |-> x.repost]
  <1>2. q = [p EXCEPT !.profile = f]
    BY Zenon DEF Bus!HandleProfile
  <1>3. ASSUME NEW u \in Users PROVE Filled(f[u])
    <2> DEFINE x == p.profile[u]
    <2>1. Filled(x)
      BY DEF Counted
    <2>4. f[u] = IF u \notin U THEN x ELSE IF type = "bio" THEN [x EXCEPT !.bio = w.bio[u]]
                 ELSE [x EXCEPT !.repost = w.reposts[u] >= 1]
      BY Zenon
    <2> HIDE DEF x
    <2>2. Filled([x EXCEPT !.bio = w.bio[u]])
      BY <2>1
    <2>3. \A b : Filled([x EXCEPT !.repost = b])
      BY <2>1
    <2> HIDE DEF f, Filled
    <2> QED
      BY <2>1, <2>2, <2>3, <2>4, Zenon
  <1>4. f = [u \in Users |-> f[u]]
    OBVIOUS
  <1> HIDE DEF q, f
  <1>5. q = [streak |-> p.streak, profile |-> f]
    BY <1>1, <1>2
  <1>6. Counted(q)
    BY <1>3, <1>4, <1>5 DEF Counted
  <1> QED
    BY <1>6 DEF q

\* What a manager makes of the rows, in terms of those it updates.
Marked(w, p, ch, E, r) == Bus!Stamp(ch, E, Bus!Updated(w, p, r))
Becomes(w, s, t, ch, E, U) ==
  /\ Counted(t.partial)
  /\ t = [rows |-> (s.rows \ U) \cup {Marked(w, t.partial, ch, E, r) : r \in U},
          partial |-> t.partial]
LEMMA ProcessIs ==
  ASSUME NEW w, NEW s, RowsOK(s), NEW ch, NEW type, NEW B, NEW o
  PROVE  LET E == Bus!Merge(ch, type, B)
             U == Bus!ToUpdate(w, s.rows, ch, E)
         IN  Becomes(w, s, Bus!Process(w, s, ch, type, B, o), ch, E, U)
  <1> DEFINE E == Bus!Merge(ch, type, B)
             U == Bus!ToUpdate(w, s.rows, ch, E)
             owners == {r.user : r \in U}
             p == CASE ch = "listen-streak" -> Bus!HandleListens(s.partial, o, owners, E)
                    [] ch = "profile-completion" -> Bus!HandleProfile(w, s.partial, type, owners)
                    [] OTHER -> s.partial
             t == Bus!Process(w, s, ch, type, B, o)
  <1>1. t = [rows |-> (s.rows \ U) \cup {Bus!Stamp(ch, E, Bus!Updated(w, p, r)) : r \in U}, partial |-> p]
    BY Zenon DEF Bus!Process
  <1>2. Counted(s.partial)
    BY DEF RowsOK
  <1>3. Counted(p)
    <2>1. CASE ch = "listen-streak"
      <3>1. p = Bus!HandleListens(s.partial, o, owners, E)
        BY <2>1
      <3> HIDE DEF p, owners, E
      <3> QED
        BY <1>2, <3>1, ListensCounted
    <2>2. CASE ch = "profile-completion"
      <3>1. p = Bus!HandleProfile(w, s.partial, type, owners)
        BY <2>2
      <3> HIDE DEF p, owners
      <3> QED
        BY <1>2, <3>1, ProfileCounted
    <2>3. CASE ch \notin {"listen-streak", "profile-completion"}
      BY <1>2, <2>3
    <2> QED
      BY <2>1, <2>2, <2>3
  <1> HIDE DEF p, t, E
  <1>4. t.partial = p
    BY <1>1
  <1> HIDE DEF U
  <1>5. t = [rows |-> (s.rows \ U) \cup {Marked(w, t.partial, ch, E, r) : r \in U}, partial |-> t.partial]
    BY <1>1, <1>4, Zenon DEF Marked
  <1>6. Counted(t.partial)
    BY <1>3, <1>4
  <1> QED
    BY <1>5, <1>6 DEF t, U, E, Becomes

Matching(ch, E, r) == \E i \in DOMAIN E : Bus!Specifier(ch, E[i]) = r.spec
LEMMA ProcessMarks ==
  ASSUME Referring, NEW w, Uploaded(w), NEW s, RowsOK(s), NEW ch, NEW type,
         NEW B \in Seq(BusEvent), NEW o
  PROVE  LET E == Bus!Merge(ch, type, B)
             U == Bus!ToUpdate(w, s.rows, ch, E)
             f(r) == Marked(w, Bus!Process(w, s, ch, type, B, o).partial, ch, E, r)
         IN  /\ \A r \in U : /\ Progress(r) /\ r.ch = ch /\ Matching(ch, E, r)
                             /\ r \in s.rows => ~r.done
             /\ \A r \in U : /\ Progress(f(r)) /\ f(r).ch = r.ch /\ f(r).spec = r.spec /\ f(r).user = r.user
                             /\ (r.ch = "track-upload" /\ f(r).done => w.tracks[r.user] >= Steps[r.ch])
  <1> DEFINE E == Bus!Merge(ch, type, B)
             N == Bus!Created(w, s.rows, ch, E)
             U == Bus!ToUpdate(w, s.rows, ch, E)
             t == Bus!Process(w, s, ch, type, B, o)
             f(r) == Marked(w, t.partial, ch, E, r)
  <1>1. Counted(t.partial)
    BY ProcessIs DEF Becomes
  <1>2. /\ \A i \in DOMAIN E : E[i] \in BusEvent
        /\ \A i, j \in DOMAIN E : Bus!Specifier(ch, E[i]) = Bus!Specifier(ch, E[j]) => i = j
    BY MergedOnce
  <1> HIDE DEF E
  <1>3. /\ \A r \in N : /\ Progress(r) /\ r.ch = ch
                        /\ \E i \in DOMAIN E : r = Bus!NewRow(ch, E[i])
                        /\ \A q \in s.rows : ~(q.ch = ch /\ q.spec = r.spec)
    BY <1>2, CreatedAre
  <1>4. U = {r \in s.rows : ~r.done /\ r.ch = ch /\ Matching(ch, E, r)} \cup N
    BY DEF Bus!ToUpdate, Matching
  <1>5. \A r \in s.rows : Progress(r)
    BY DEF RowsOK
  <1> HIDE DEF N, t
  <1>6. ASSUME NEW r \in U
        PROVE  /\ Progress(r) /\ r.ch = ch /\ Matching(ch, E, r)
               /\ r \in s.rows => ~r.done
    <2>1. CASE r \in N
      <3>1. PICK i \in DOMAIN E : r = Bus!NewRow(ch, E[i])
        BY <1>3, <2>1
      <3>2. Bus!Specifier(ch, E[i]) = r.spec
        BY <3>1 DEF Bus!NewRow
      <3>3. r \notin s.rows
        BY <1>3, <2>1
      <3> QED
        BY <1>3, <2>1, <3>2, <3>3 DEF Matching
    <2>2. CASE r \notin N
      BY <1>4, <1>5, <2>2
    <2> QED
      BY <2>1, <2>2
  <1>7. ASSUME NEW r \in U
        PROVE  /\ Progress(f(r)) /\ f(r).ch = r.ch /\ f(r).spec = r.spec /\ f(r).user = r.user
               /\ (r.ch = "track-upload" /\ f(r).done => w.tracks[r.user] >= Steps[r.ch])
    <2>1. Progress(r) /\ \E i \in DOMAIN E : Bus!Specifier(ch, E[i]) = r.spec
      BY <1>6 DEF Matching
    <2>2. Counted(t.partial)
      BY <1>1
    <2> QED
      BY <2>1, <2>2, StampedRow DEF Marked
  <1> HIDE DEF U, f
  <1>8. (\A r \in U : Progress(r) /\ r.ch = ch /\ Matching(ch, E, r) /\ (r \in s.rows => ~r.done))
        /\ \A r \in U : /\ Progress(f(r)) /\ f(r).ch = r.ch /\ f(r).spec = r.spec /\ f(r).user = r.user
                        /\ (r.ch = "track-upload" /\ f(r).done => w.tracks[r.user] >= Steps[r.ch])
    BY <1>6, <1>7
  <1> QED
    BY <1>8 DEF U, f, E, t

LEMMA ProcessKeepsRows ==
  ASSUME Referring, NEW w, Uploaded(w), NEW R, NEW s, RowsOK(s), Follows(w, R, s),
         NEW ch, NEW type, NEW B \in Seq(BusEvent), NEW o
  PROVE  RowsOK(Bus!Process(w, s, ch, type, B, o)) /\ Follows(w, R, Bus!Process(w, s, ch, type, B, o))
  <1> DEFINE E == Bus!Merge(ch, type, B)
             N == Bus!Created(w, s.rows, ch, E)
             U == Bus!ToUpdate(w, s.rows, ch, E)
             t == Bus!Process(w, s, ch, type, B, o)
             f(r) == Marked(w, t.partial, ch, E, r)
  <1>1. /\ Counted(t.partial)
        /\ t = [rows |-> (s.rows \ U) \cup {f(r) : r \in U}, partial |-> t.partial]
    BY ProcessIs DEF Becomes
  <1>2. /\ DOMAIN E \in SUBSET (1..Len(B)) /\ Len(B) \in Nat
        /\ \A i \in DOMAIN E : E[i] \in BusEvent
        /\ \A i, j \in DOMAIN E : Bus!Specifier(ch, E[i]) = Bus!Specifier(ch, E[j]) => i = j
    BY MergedOnce
  <1> HIDE DEF E
  <1>3. /\ \A r \in N : /\ Progress(r) /\ r.ch = ch
                        /\ \E i \in DOMAIN E : r = Bus!NewRow(ch, E[i])
                        /\ \A q \in s.rows : ~(q.ch = ch /\ q.spec = r.spec)
        /\ \A r, q \in N : r.spec = q.spec => r = q
    BY <1>2, CreatedAre
  <1>4. U = {r \in s.rows : ~r.done /\ r.ch = ch /\ \E i \in DOMAIN E : Bus!Specifier(ch, E[i]) = r.spec} \cup N
    BY DEF Bus!ToUpdate
  <1>5. /\ \A r \in s.rows : Progress(r)
        /\ OneEach(s.rows) /\ Capped(s.rows)
    BY DEF RowsOK
  <1> HIDE DEF N, t
  <1>6. ASSUME NEW r \in U
        PROVE  Progress(r) /\ r.ch = ch /\ (r \in s.rows => ~r.done)
    BY ProcessMarks DEF E
  <1>7. ASSUME NEW r \in U
        PROVE  /\ Progress(f(r)) /\ f(r).ch = r.ch /\ f(r).spec = r.spec /\ f(r).user = r.user
               /\ (r.ch = "track-upload" /\ f(r).done => w.tracks[r.user] >= Steps[r.ch])
    BY ProcessMarks DEF E, t
  <1>8. ASSUME NEW r \in U, NEW q \in U, r.spec = q.spec PROVE r = q
    <2>1. r.ch = ch /\ q.ch = ch
      BY <1>6
    <2>2. r \in s.rows \/ r \in N
      BY <1>4
    <2>3. q \in s.rows \/ q \in N
      BY <1>4
    <2> QED
      BY <1>3, <1>5, <1>8, <2>1, <2>2, <2>3 DEF OneEach
  <1>9. ASSUME NEW r \in s.rows \ U, NEW q \in U PROVE ~(r.ch = q.ch /\ r.spec = q.spec)
    <2>1. q \in s.rows \/ q \in N
      BY <1>4
    <2>2. q.ch = ch
      BY <1>6
    <2> QED
      BY <1>3, <1>5, <1>9, <2>1, <2>2 DEF OneEach
  <1>10. t.rows = (s.rows \ U) \cup {f(r) : r \in U}
    BY <1>1
  <1> HIDE DEF U, f
  <1>11. \A x \in t.rows : x \in s.rows \ U \/ \E r \in U : x = f(r)
    BY <1>10
  <1>12. \A x \in t.rows : Progress(x)
    BY <1>5, <1>7, <1>11
  <1>13. OneEach(t.rows)
    <2> SUFFICES ASSUME NEW x \in t.rows, NEW y \in t.rows, x.ch = y.ch, x.spec = y.spec
                 PROVE  x = y
      BY DEF OneEach
    <2>1. CASE x \in s.rows \ U /\ y \in s.rows \ U
      BY <1>5, <2>1 DEF OneEach
    <2>2. ASSUME x \in s.rows \ U, NEW q \in U, y = f(q) PROVE FALSE
      BY <1>7, <1>9, <2>2
    <2>3. ASSUME y \in s.rows \ U, NEW q \in U, x = f(q) PROVE FALSE
      BY <1>7, <1>9, <2>3
    <2>4. ASSUME NEW r \in U, x = f(r), NEW q \in U, y = f(q) PROVE x = y
      BY <1>7, <1>8, <2>4
    <2> QED
      BY <1>11, <2>1, <2>2, <2>3, <2>4
  <1>14. Capped(t.rows)
    <2> SUFFICES ASSUME NEW c \in Bus!Aggregates, NEW u \in Users
                 PROVE  IsFiniteSet(OwnRows(t.rows, c, u)) /\ Cardinality(OwnRows(t.rows, c, u)) <= Steps[c]
      BY DEF Capped
    <2> DEFINE A == OwnRows(s.rows, c, u)
               Z == OwnRows(t.rows, c, u)
    <2>1. IsFiniteSet(A) /\ Cardinality(A) <= Steps[c] /\ Cardinality(A) \in Nat /\ Steps[c] \in Nat
      BY <1>5, FS_CardinalityType DEF Capped, Referring
    <2>2. CASE c # ch
      <3>1. ASSUME NEW x \in Z PROVE x \in A
        <4>1. x \in t.rows /\ x.ch = c /\ x.user = u
          BY DEF OwnRows
        <4>2. x \in s.rows
          BY <1>6, <1>7, <1>11, <2>2, <4>1
        <4> QED
          BY <4>1, <4>2 DEF OwnRows
      <3> HIDE DEF A, Z
      <3>2. Z \in SUBSET A
        BY <3>1
      <3>3. IsFiniteSet(Z) /\ Cardinality(Z) <= Cardinality(A) /\ Cardinality(Z) \in Nat
        BY <2>1, <3>2, FS_Subset, FS_CardinalityType
      <3>4. IsFiniteSet(Z) /\ Cardinality(Z) <= Steps[c]
        BY <2>1, <3>3
      <3> QED
        BY <3>4 DEF Z
    <2>3. CASE c = ch
      <3> DEFINE D == {r \in N : r.user = u}
                 g == [r \in D |-> f(r)]
                 T == {g[r] : r \in D}
      <3>1. IsFiniteSet(D) /\ Cardinality(D) <= Steps[c] - Cardinality(A) /\ Cardinality(D) \in Nat
        <4>1. ch \in Bus!Aggregates /\ IsFiniteSet(OwnRows(s.rows, ch, u))
              /\ Cardinality(OwnRows(s.rows, ch, u)) <= Steps[ch]
          BY <2>1, <2>3
        <4>2. LET C == {r \in Bus!Created(w, s.rows, ch, E) : r.user = u}
              IN  IsFiniteSet(C) /\ Cardinality(C) <= Steps[ch] - Cardinality(OwnRows(s.rows, ch, u))
          BY <1>2, <4>1, CreatedFew
        <4>3. IsFiniteSet(D) /\ Cardinality(D) <= Steps[ch] - Cardinality(OwnRows(s.rows, ch, u))
          BY <4>2 DEF N
        <4>4. Cardinality(D) \in Nat
          BY <4>3, FS_CardinalityType
        <4> QED
          BY <2>3, <4>3, <4>4
      <3>2. IsFiniteSet(T) /\ Cardinality(T) <= Cardinality(D) /\ Cardinality(T) \in Nat
        <4>1. DOMAIN g = D
          OBVIOUS
        <4> HIDE DEF g, D
        <4> QED
          BY <3>1, <4>1, ImagesOf, FS_CardinalityType
      <3>3. ASSUME NEW x \in Z PROVE x \in A \cup T
        <4>1. x \in t.rows /\ x.ch = c /\ x.user = u
          BY DEF OwnRows
        <4>2. CASE x \in s.rows
          BY <4>1, <4>2 DEF OwnRows
        <4>3. CASE x \notin s.rows
          <5>1. PICK r \in U : x = f(r)
            BY <1>11, <4>1, <4>3
          <5>2. Progress(r) /\ r.ch = ch /\ r.user = u
            BY <1>6, <1>7, <4>1, <5>1
          <5>3. r.done
            BY <2>3, <5>2 DEF Progress
          <5>4. r \in N
            BY <1>4, <5>1, <5>3
          <5>5. r \in D /\ g[r] = x
            BY <5>1, <5>2, <5>4
          <5> QED
            BY <5>5
        <4> QED
          BY <4>2, <4>3
      <3> HIDE DEF A, Z, T, D, g
      <3>4. IsFiniteSet(A \cup T) /\ Cardinality(A \cup T) <= Cardinality(A) + Cardinality(T)
        <4>1. /\ IsFiniteSet(A \cup T) /\ Cardinality(A \cap T) \in Nat
              /\ Cardinality(A \cup T) = Cardinality(A) + Cardinality(T) - Cardinality(A \cap T)
          <5>1. IsFiniteSet(A \cap T)
            BY <2>1, FS_Intersection
          <5> QED
            BY <2>1, <3>2, <5>1, FS_Union, FS_CardinalityType
        <4> QED
          BY <2>1, <3>2, <4>1
      <3>5. Z \in SUBSET (A \cup T)
        BY <3>3
      <3>6. IsFiniteSet(Z) /\ Cardinality(Z) <= Cardinality(A \cup T) /\ Cardinality(Z) \in Nat /\ Cardinality(A \cup T) \in Nat
        BY <3>4, <3>5, FS_Subset, FS_CardinalityType
      <3>7. IsFiniteSet(Z) /\ Cardinality(Z) <= Steps[c]
        BY <2>1, <3>1, <3>2, <3>4, <3>6
      <3> QED
        BY <3>7 DEF Z
    <2> QED
      BY <2>2, <2>3
  <1>15. RowsOK(t)
    <2>1. t = [rows |-> t.rows, partial |-> t.partial] /\ Counted(t.partial)
      BY <1>1
    <2> QED
      BY <1>12, <1>13, <1>14, <2>1 DEF RowsOK
  <1>16. Follows(w, R, t)
    <2>1. ASSUME NEW r \in R, r.done PROVE r \in t.rows
      <3>1. r \in s.rows
        BY <2>1 DEF Follows
      <3>2. r \notin U
        BY <1>6, <2>1, <3>1
      <3> QED
        BY <1>10, <3>1, <3>2
    <2>2. ASSUME NEW x \in t.rows \ R, x.ch = "track-upload", x.done
          PROVE  w.tracks[x.user] >= Steps[x.ch]
      <3>1. CASE x \in s.rows
        BY <2>2, <3>1 DEF Follows
      <3>2. CASE x \notin s.rows
        <4>1. PICK r \in U : x = f(r)
          BY <1>11, <3>2
        <4> QED
          BY <1>7, <2>2, <4>1
      <3> QED
        BY <3>1, <3>2
    <2> QED
      BY <2>1, <2>2 DEF Follows
  <1> QED
    BY <1>15, <1>16 DEF t

\* The managers that listen to a type keep the rows, and so does a batch.
LEMMA TypeKeepsRows ==
  ASSUME Referring, NEW w, Uploaded(w), NEW R, NEW s, RowsOK(s), Follows(w, R, s),
         NEW type, NEW B \in Seq(BusEvent), NEW o
  PROVE  RowsOK(Bus!ProcessType(w, s, type, B, o)) /\ Follows(w, R, Bus!ProcessType(w, s, type, B, o))
  <1> DEFINE one == Bus!Process(w, s, Bus!Listeners(type)[1], type, B, o)
             two == Bus!Process(w, one, Bus!Listeners(type)[2], type, B, o)
  <1>1. Bus!ProcessType(w, s, type, B, o) \in {one, two}
    BY Zenon DEF Bus!ProcessType
  <1>2. RowsOK(one) /\ Follows(w, R, one)
    BY ProcessKeepsRows
  <1> HIDE DEF one
  <1>3. RowsOK(two) /\ Follows(w, R, two)
    BY <1>2, ProcessKeepsRows
  <1> HIDE DEF two
  <1> QED
    BY <1>1, <1>2, <1>3

NextType(w, B, o, n, s) ==
  IF \A i \in 1..(n - 1) : B[i].type # B[n].type
  THEN Bus!ProcessType(w, s, B[n].type, B, o) ELSE s
AllTypes(f, w, s, B, o, m) ==
  f = [n \in 0..m |-> IF n = 0 THEN s ELSE NextType(w, B, o, n, f[n - 1])]
LEMMA TypesRun ==
  ASSUME NEW w, NEW s, NEW B, NEW o, NEW k \in Nat
  PROVE  \E f : AllTypes(f, w, s, B, o, k)
  <1> DEFINE Bad == {m \in Nat : ~ \E f : AllTypes(f, w, s, B, o, m)}
  <1> SUFFICES ASSUME Bad # {} PROVE FALSE
    OBVIOUS
  <1>1. PICK m \in Bad : \A n \in Bad : m <= n
    <2>1. Bad \in SUBSET Nat
      OBVIOUS
    <2> HIDE DEF Bad
    <2> QED
      BY <2>1, LeastNumber
  <1>2. CASE m = 0
    <2> DEFINE f == [n \in 0..0 |-> s]
    <2>1. f = [n \in 0..0 |-> IF n = 0 THEN s ELSE NextType(w, B, o, n, f[n - 1])]
      OBVIOUS
    <2>2. AllTypes(f, w, s, B, o, 0)
      BY <2>1 DEF AllTypes
    <2> QED
      BY <1>2, <2>2
  <1>3. CASE m # 0
    <2>1. m \in Nat \ {0} /\ m - 1 \in Nat /\ m - 1 \notin Bad
      BY <1>1, <1>3
    <2>2. PICK f : AllTypes(f, w, s, B, o, m - 1)
      BY <2>1
    <2> DEFINE g == [n \in 0..m |-> IF n = m THEN NextType(w, B, o, m, f[m - 1]) ELSE f[n]]
    <2>3. f = [n \in 0..(m - 1) |-> IF n = 0 THEN s ELSE NextType(w, B, o, n, f[n - 1])]
      BY <2>2 DEF AllTypes
    <2>4. ASSUME NEW n \in 0..m
          PROVE  g[n] = IF n = 0 THEN s ELSE NextType(w, B, o, n, g[n - 1])
      <3>1. CASE n = m
        <4>1. m - 1 \in 0..m /\ m - 1 # m
          BY <2>1
        <4>2. g[m - 1] = f[m - 1] /\ g[m] = NextType(w, B, o, m, f[m - 1])
          BY <2>1, <4>1
        <4> QED
          BY <2>1, <3>1, <4>2
      <3>2. CASE n # m
        <4>1. n \in 0..(m - 1) /\ g[n] = f[n]
          BY <2>1, <3>2
        <4>2. f[n] = IF n = 0 THEN s ELSE NextType(w, B, o, n, f[n - 1])
          BY <2>3, <4>1
        <4>3. n # 0 => g[n - 1] = f[n - 1]
          BY <2>1, <3>2, <4>1
        <4> QED
          BY <4>1, <4>2, <4>3
      <3> QED
        BY <3>1, <3>2
    <2>5. g = [n \in 0..m |-> g[n]]
      OBVIOUS
    <2> HIDE DEF g
    <2>6. g = [n \in 0..m |-> IF n = 0 THEN s ELSE NextType(w, B, o, n, g[n - 1])]
      BY <2>4, <2>5
    <2>7. AllTypes(g, w, s, B, o, m)
      BY <2>6 DEF AllTypes
    <2> QED
      BY <1>1, <2>7
  <1> QED
    BY <1>2, <1>3

\* What happens to the first n events of a batch.
LEMMA ProcessedIs ==
  ASSUME NEW w, NEW s, NEW B, Len(B) \in Nat, NEW o
  PROVE  LET f == Bus!ProcessedTo(w, s, B, o)
         IN  f[0] = s /\ \A n \in 1..Len(B) : f[n] = NextType(w, B, o, n, f[n - 1])
  <1> DEFINE f == Bus!ProcessedTo(w, s, B, o)
  <1>1. PICK g : AllTypes(g, w, s, B, o, Len(B))
    BY TypesRun
  <1>2. g = [n \in 0..Len(B) |->
               IF n = 0 THEN s
               ELSE IF \A i \in 1..(n - 1) : B[i].type # B[n].type
               THEN Bus!ProcessType(w, g[n - 1], B[n].type, B, o) ELSE g[n - 1]]
    BY <1>1, Zenon DEF AllTypes, NextType
  <1>3. f = [n \in 0..Len(B) |->
               IF n = 0 THEN s
               ELSE IF \A i \in 1..(n - 1) : B[i].type # B[n].type
               THEN Bus!ProcessType(w, f[n - 1], B[n].type, B, o) ELSE f[n - 1]]
    BY <1>2 DEF Bus!ProcessedTo
  <1> HIDE DEF f
  <1>4. f = [n \in 0..Len(B) |-> IF n = 0 THEN s ELSE NextType(w, B, o, n, f[n - 1])]
    BY <1>3, Zenon DEF NextType
  <1>5. f[0] = s
    BY <1>4
  <1>6. \A n \in 1..Len(B) : f[n] = NextType(w, B, o, n, f[n - 1])
    BY <1>4
  <1> QED
    BY <1>5, <1>6 DEF f

LEMMA UpTo ==
  ASSUME NEW l \in Nat, NEW S, 0 \in S, \A n \in 1..l : n - 1 \in S => n \in S
  PROVE  l \in S
  <1> DEFINE Bad == {n \in 0..l : n \notin S}
  <1> SUFFICES ASSUME Bad # {} PROVE FALSE
    OBVIOUS
  <1>1. Bad \in SUBSET Nat
    OBVIOUS
  <1>2. PICK m \in Bad : \A n \in Bad : m <= n
    <2> HIDE DEF Bad
    <2> QED
      BY <1>1, LeastNumber
  <1>3. m # 0 /\ m \in 0..l /\ m \notin S
    OBVIOUS
  <1>4. m \in 1..l /\ m - 1 \in 0..l /\ m - 1 \notin Bad
    BY <1>2, <1>3
  <1> QED
    BY <1>3, <1>4

LEMMA BatchKeepsRows ==
  ASSUME Referring, NEW w, Uploaded(w), NEW s, RowsOK(s), NEW B \in Seq(BusEvent), NEW o
  PROVE  RowsOK(Bus!ProcessAll(w, s, B, o)) /\ Follows(w, s.rows, Bus!ProcessAll(w, s, B, o))
  <1> DEFINE f == Bus!ProcessedTo(w, s, B, o)
             S == {n \in 0..Len(B) : RowsOK(f[n]) /\ Follows(w, s.rows, f[n])}
  <1>1. Len(B) \in Nat
    OBVIOUS
  <1>2. f[0] = s /\ \A n \in 1..Len(B) : f[n] = NextType(w, B, o, n, f[n - 1])
    BY <1>1, ProcessedIs
  <1> HIDE DEF f
  <1>3. 0 \in S
    BY <1>1, <1>2 DEF Follows
  <1>4. ASSUME NEW n \in 1..Len(B), n - 1 \in S PROVE n \in S
    <2>1. f[n] = NextType(w, B, o, n, f[n - 1])
      BY <1>2
    <2>2. f[n] \in {f[n - 1], Bus!ProcessType(w, f[n - 1], B[n].type, B, o)}
      BY <2>1 DEF NextType
    <2>3. /\ RowsOK(Bus!ProcessType(w, f[n - 1], B[n].type, B, o))
          /\ Follows(w, s.rows, Bus!ProcessType(w, f[n - 1], B[n].type, B, o))
      BY <1>4, TypeKeepsRows
    <2> QED
      BY <1>4, <2>2, <2>3
  <1>5. Len(B) \in S
    <2> HIDE DEF S
    <2> QED
      BY <1>1, <1>3, <1>4, UpTo
  <1> QED
    BY <1>5 DEF f, Bus!ProcessAll

-----------------------------------------------------------------------------
(* Every step                                                              *)
BusInv ==
  /\ queue \in Seq(BusEvent)
  /\ world = [tracks |-> world.tracks, bio |-> world.bio,
              reposts |-> world.reposts, verified |-> world.verified]
  /\ Uploaded(world)
  /\ env \in [height : Nat, retries : Nat, losses : Nat, day : Nat]
  /\ RowsOK([rows |-> rows, partial |-> partial])
  /\ \A d \in paid :
       /\ d = [ch |-> d.ch, spec |-> d.spec, user |-> d.user]
       /\ \E r \in rows : r.done /\ r.ch = d.ch /\ r.spec = d.spec /\ d.user \in {r.user, 0}
  /\ OneEach(paid)

LEMMA BusRest ==
  ASSUME Referring, NEW S, queue \in Seq(S)
  PROVE  /\ Bus!Dequeued \in Seq(S)
         /\ SubSeq(queue, Len(Bus!Dequeued) + 1, Len(queue)) \in Seq(S)
  <1> DEFINE n == IF Len(queue) < MaxEvents + 1 THEN Len(queue) ELSE MaxEvents + 1
  <1>1. n \in 0..Len(queue) /\ Len(queue) \in Nat /\ DOMAIN queue = 1..Len(queue)
        /\ \A i \in 1..Len(queue) : queue[i] \in S
    BY DEF Referring
  <1>2. Bus!Dequeued = SubSeq(queue, 1, n)
    BY DEF Bus!Dequeued
  <1> HIDE DEF n
  <1>3. Bus!Dequeued \in Seq(S) /\ Len(Bus!Dequeued) = n
    BY <1>1, <1>2
  <1>4. \A i \in (n + 1)..Len(queue) : queue[i] \in S
    BY <1>1
  <1>5. SubSeq(queue, n + 1, Len(queue)) \in Seq(S)
    BY <1>1, <1>4, SubSeqProperties
  <1> QED
    BY <1>3, <1>5

LEMMA DeedsAre ==
  ASSUME BusInv, NEW e \in Bus!Deeds, NEW h \in Nat
  PROVE  /\ [e EXCEPT !.block = h] \in BusEvent /\ e.user \in Users
         /\ [e EXCEPT !.block = h].type \in acts
  <1>1. env.day \in Nat
    BY DEF BusInv
  <1>2. \E t \in {"upload", "listen", "signup", "install", "trending", "bio", "repost"} \cap acts :
          \E u \in Users : \E x \in Nat : e = Bus!Event(t, u, 0, x)
    BY <1>1 DEF Bus!Deeds
  <1>3. PICK t \in {"upload", "listen", "signup", "install", "trending", "bio", "repost"} \cap acts :
          \E u \in Users : \E x \in Nat : e = [type |-> t, user |-> u, block |-> 0, extra |-> x]
    BY <1>2 DEF Bus!Event
  <1> QED
    BY <1>3 DEF BusEvent

LEMMA EffectKeeps ==
  ASSUME BusInv, NEW e, e.user \in Users
  PROVE  LET w == Bus!Effect(world, e)
         IN  /\ w = [tracks |-> w.tracks, bio |-> w.bio, reposts |-> w.reposts, verified |-> w.verified]
             /\ Uploaded(w)
  <1> DEFINE w == Bus!Effect(world, e)
             tracks == [world.tracks EXCEPT ![e.user] = @ + 1]
             bio == [world.bio EXCEPT ![e.user] = TRUE]
             reposts == [world.reposts EXCEPT ![e.user] = @ + 1]
             Whole(x) == x = [tracks |-> x.tracks, bio |-> x.bio, reposts |-> x.reposts, verified |-> x.verified]
  <1>1. world = [tracks |-> world.tracks, bio |-> world.bio, reposts |-> world.reposts, verified |-> world.verified]
        /\ Uploaded(world)
    BY DEF BusInv
  <1>2. w = [world EXCEPT !.tracks = tracks] \/ w = [world EXCEPT !.bio = bio]
        \/ w = [world EXCEPT !.reposts = reposts] \/ w = world
    BY DEF Bus!Effect
  <1>3. DOMAIN tracks = Users /\ \A u \in Users : tracks[u] \in Nat
    BY <1>1 DEF Uploaded
  <1> HIDE DEF w, tracks, bio, reposts
  <1>4. Whole(w) /\ w.tracks \in {tracks, world.tracks}
    BY <1>1, <1>2
  <1>5. Uploaded(w)
    BY <1>1, <1>3, <1>4 DEF Uploaded
  <1> QED
    BY <1>4, <1>5 DEF w

LEMMA QueuedIsEvents ==
  ASSUME BusInv, NEW e \in BusEvent
  PROVE  Append(queue, e) \in Seq(BusEvent)
  BY DEF BusInv

LEMMA BusIndexKeeps == ASSUME BusInv, Bus!IndexBlock PROVE BusInv'
  <1>1. PICK e \in Bus!Deeds :
          /\ world' = Bus!Effect(world, e)
          /\ queue' = Append(queue, [e EXCEPT !.block = env.height + 1])
    BY DEF Bus!IndexBlock
  <1>2. env' = [env EXCEPT !.height = @ + 1] /\ UNCHANGED <<acts, rows, partial, paid>>
    BY DEF Bus!IndexBlock
  <1>3. env.height + 1 \in Nat /\ env' \in [height : Nat, retries : Nat, losses : Nat, day : Nat]
    BY <1>2 DEF BusInv
  <1>4. queue' \in Seq(BusEvent)
    BY <1>1, <1>3, DeedsAre, QueuedIsEvents
  <1>5. /\ world' = [tracks |-> world'.tracks, bio |-> world'.bio,
                     reposts |-> world'.reposts, verified |-> world'.verified]
        /\ Uploaded(world')
    BY <1>1, DeedsAre, EffectKeeps
  <1> QED
    BY <1>2, <1>3, <1>4, <1>5 DEF BusInv
LEMMA BusFailKeeps == ASSUME BusInv, Bus!FailBlock PROVE BusInv'
  <1>1. PICK e \in Bus!Deeds : queue' = Append(queue, [e EXCEPT !.block = env.height + 1])
    BY DEF Bus!FailBlock
  <1>2. env' = [env EXCEPT !.retries = @ + 1] /\ UNCHANGED <<acts, world, rows, partial, paid>>
    BY DEF Bus!FailBlock
  <1>3. env.height + 1 \in Nat /\ env' \in [height : Nat, retries : Nat, losses : Nat, day : Nat]
    BY <1>2 DEF BusInv
  <1>4. queue' \in Seq(BusEvent)
    BY <1>1, <1>3, DeedsAre, QueuedIsEvents
  <1> QED
    BY <1>2, <1>3, <1>4 DEF BusInv
LEMMA BusUndoKeeps == ASSUME BusInv, Bus!Undo PROVE BusInv'
  <1>1. PICK u \in Users :
          \/ world.tracks[u] > 0 /\ world' = [world EXCEPT !.tracks = [world.tracks EXCEPT ![u] = @ - 1]]
          \/ world.reposts[u] > 0 /\ world' = [world EXCEPT !.reposts = [world.reposts EXCEPT ![u] = @ - 1]]
          \/ world' = [world EXCEPT !.verified = world.verified \cup {u}]
    BY DEF Bus!Undo
  <1>2. UNCHANGED <<acts, queue, rows, partial, paid, env>>
    BY DEF Bus!Undo
  <1> DEFINE tracks == [world.tracks EXCEPT ![u] = @ - 1]
             reposts == [world.reposts EXCEPT ![u] = @ - 1]
             proven == world.verified \cup {u}
  <1>3. world = [tracks |-> world.tracks, bio |-> world.bio, reposts |-> world.reposts, verified |-> world.verified]
        /\ Uploaded(world)
    BY DEF BusInv
  <1>4. world.tracks[u] > 0 => DOMAIN tracks = Users /\ \A v \in Users : tracks[v] \in Nat
    BY <1>3 DEF Uploaded
  <1>5. \/ world.tracks[u] > 0 /\ world' = [world EXCEPT !.tracks = tracks]
        \/ world' = [world EXCEPT !.reposts = reposts] \/ world' = [world EXCEPT !.verified = proven]
    BY <1>1
  <1> HIDE DEF tracks, reposts, proven
  <1>6. /\ world' = [tracks |-> world'.tracks, bio |-> world'.bio,
                     reposts |-> world'.reposts, verified |-> world'.verified]
        /\ world'.tracks = world.tracks \/ (world.tracks[u] > 0 /\ world'.tracks = tracks)
    BY <1>3, <1>5
  <1>7. Uploaded(world')
    BY <1>3, <1>4, <1>6 DEF Uploaded
  <1> QED
    BY <1>2, <1>6, <1>7 DEF BusInv
LEMMA BusDayKeeps == ASSUME BusInv, Bus!NextDay PROVE BusInv'
  <1>1. env' = [env EXCEPT !.day = @ + 1] /\ UNCHANGED <<acts, world, queue, rows, partial, paid>>
    BY DEF Bus!NextDay
  <1>2. env' \in [height : Nat, retries : Nat, losses : Nat, day : Nat]
    BY <1>1 DEF BusInv
  <1> QED
    BY <1>1, <1>2 DEF BusInv
LEMMA BusLoseKeeps == ASSUME Referring, BusInv, Bus!LoseEvents PROVE BusInv'
  <1>1. /\ queue' = SubSeq(queue, Len(Bus!Dequeued) + 1, Len(queue))
        /\ env' = [env EXCEPT !.losses = @ + 1] /\ UNCHANGED <<acts, world, rows, partial, paid>>
    BY DEF Bus!LoseEvents
  <1>2. env' \in [height : Nat, retries : Nat, losses : Nat, day : Nat]
    BY <1>1 DEF BusInv
  <1>3. queue' \in Seq(BusEvent)
    BY <1>1, BusRest DEF BusInv
  <1> QED
    BY <1>1, <1>2, <1>3 DEF BusInv

\* Only the managers change rows, and what was complete stays.
LEMMA BusProcessKeeps ==
  ASSUME Referring, BusInv, Bus!ProcessEvents
  PROVE  BusInv' /\ Follows(world, rows, [rows |-> rows', partial |-> partial'])
  <1> DEFINE s == [rows |-> rows, partial |-> partial]
  <1>1. PICK o : LET t == Bus!ProcessAll(world, s, Bus!Dequeued, o)
                 IN  rows' = t.rows /\ partial' = t.partial
    BY DEF Bus!ProcessEvents
  <1>2. /\ queue' = SubSeq(queue, Len(Bus!Dequeued) + 1, Len(queue))
        /\ UNCHANGED <<acts, world, paid, env>>
    BY DEF Bus!ProcessEvents
  <1>3. Bus!Dequeued \in Seq(BusEvent) /\ queue' \in Seq(BusEvent)
    BY <1>2, BusRest DEF BusInv
  <1> DEFINE t == Bus!ProcessAll(world, s, Bus!Dequeued, o)
  <1>4. RowsOK(t) /\ Follows(world, rows, t)
    <2>1. RowsOK(s) /\ s.rows = rows /\ Uploaded(world)
      BY DEF BusInv
    <2> HIDE DEF s
    <2> QED
      BY <1>3, <2>1, BatchKeepsRows
  <1>5. rows' = t.rows /\ partial' = t.partial
    BY <1>1
  <1> HIDE DEF t
  <1>6. t = [rows |-> rows', partial |-> partial']
    BY <1>4, <1>5 DEF RowsOK
  <1>7. ASSUME NEW d \in paid
        PROVE  \E r \in rows' : r.done /\ r.ch = d.ch /\ r.spec = d.spec /\ d.user \in {r.user, 0}
    BY <1>4, <1>5 DEF BusInv, Follows
  <1>8. BusInv'
    BY <1>2, <1>3, <1>4, <1>6, <1>7 DEF BusInv
  <1> QED
    BY <1>4, <1>6, <1>8
LEMMA BusPaidKeeps == ASSUME BusInv, Bus!IndexDisbursement PROVE BusInv'
  <1>1. PICK r \in rows : \E u \in {r.user, 0} :
          /\ Bus!Attestable(r)
          /\ paid' = paid \cup {[ch |-> r.ch, spec |-> r.spec, user |-> u]}
    BY DEF Bus!IndexDisbursement
  <1>2. UNCHANGED <<acts, world, queue, rows, partial, env>>
    BY DEF Bus!IndexDisbursement
  <1>3. PICK u \in {r.user, 0} :
          /\ Bus!Attestable(r)
          /\ paid' = paid \cup {[ch |-> r.ch, spec |-> r.spec, user |-> u]}
    BY <1>1
  <1>4. r.done /\ \A d \in paid : ~(d.ch = r.ch /\ d.spec = r.spec)
    BY <1>3 DEF Bus!Attestable, Bus!IsPaid
  <1> DEFINE n == [ch |-> r.ch, spec |-> r.spec, user |-> u]
  <1>5. n = [ch |-> n.ch, spec |-> n.spec, user |-> n.user] /\ n.ch = r.ch /\ n.spec = r.spec /\ n.user = u
    OBVIOUS
  <1>6. paid' = paid \cup {n}
    BY <1>3
  <1> HIDE DEF n
  <1>7. ASSUME NEW d \in paid'
        PROVE  /\ d = [ch |-> d.ch, spec |-> d.spec, user |-> d.user]
               /\ \E q \in rows' : q.done /\ q.ch = d.ch /\ q.spec = d.spec /\ d.user \in {q.user, 0}
    <2>1. CASE d \in paid
      BY <1>2, <2>1 DEF BusInv
    <2>2. CASE d = n
      BY <1>2, <1>4, <1>5, <1>3, <2>2
    <2> QED
      BY <1>6, <2>1, <2>2
  <1>8. OneEach(paid')
    BY <1>4, <1>5, <1>6 DEF BusInv, OneEach
  <1> QED
    BY <1>2, <1>7, <1>8 DEF BusInv

LEMMA BusStarts == ASSUME Referring, Bus!Init PROVE BusInv
  <1>1. /\ world = [tracks |-> [u \in Users |-> 0], bio |-> [u \in Users |-> FALSE],
                    reposts |-> [u \in Users |-> 0], verified |-> {}]
        /\ queue = <<>> /\ rows = {} /\ paid = {}
        /\ partial = [streak |-> [u \in Users |-> Bus!NoStreak],
                      profile |-> [u \in Users |-> Bus!NoProfile]]
        /\ env = [height |-> 0, retries |-> 0, losses |-> 0, day |-> 0]
    BY DEF Bus!Init
  <1>2. queue \in Seq(BusEvent) /\ OneEach(paid) /\ Uploaded(world)
        /\ env \in [height : Nat, retries : Nat, losses : Nat, day : Nat]
    BY <1>1 DEF OneEach, Uploaded
  <1>3. Counted(partial)
    BY <1>1 DEF Counted, Bus!NoStreak, Bus!NoProfile
  <1>4. Capped(rows)
    <2>1. \A ch, u : OwnRows(rows, ch, u) = {}
      BY <1>1 DEF OwnRows
    <2>2. IsFiniteSet({}) /\ Cardinality({}) = 0
      BY FS_EmptySet
    <2> QED
      BY <2>1, <2>2 DEF Capped, Referring
  <1>5. RowsOK([rows |-> rows, partial |-> partial])
    BY <1>1, <1>3, <1>4 DEF RowsOK, OneEach
  <1> QED
    BY <1>1, <1>2, <1>5 DEF BusInv

LEMMA BusKept ==
  ASSUME Referring
  PROVE  Bus!Spec => []BusInv
  <1>1. Bus!Init => BusInv
    BY BusStarts
  <1>2. BusInv /\ [Bus!Next]_Bus!vars => BusInv'
    <2>1. SUFFICES ASSUME BusInv, [Bus!Next]_Bus!vars PROVE BusInv'
      OBVIOUS
    <2>2. CASE UNCHANGED Bus!vars
      <3>1. UNCHANGED <<acts, world, queue, rows, partial, paid, env>>
        BY <2>2 DEF Bus!vars
      <3> QED
        BY <2>1, <3>1 DEF BusInv
    <2>3. CASE Bus!Next
      BY <2>1, <2>3, BusIndexKeeps, BusFailKeeps, BusUndoKeeps, BusDayKeeps, BusLoseKeeps,
         BusProcessKeeps, BusPaidKeeps DEF Bus!Next
    <2> QED
      BY <2>1, <2>2, <2>3
  <1> QED
    BY <1>1, <1>2, PTL DEF Bus!Spec

-----------------------------------------------------------------------------
(* What it says                                                            *)

(* TypeOK of the challenges: rows belong to owners and count steps, and a   *)
(* disbursement is of a user or, before the bank is known, of 0.           *)
THEOREM ChallengesTyped ==
  ASSUME Referring
  PROVE  Bus!Spec => []Bus!TypeOK
  <1>1. BusInv => Bus!TypeOK
    BY DEF BusInv, RowsOK, Progress, Bus!TypeOK
  <1> QED
    BY <1>1, BusKept, PTL

(* ReferralsCapped: nobody is rewarded for more referrals than the         *)
(* challenge has steps, nor twice for one, however events are batched,     *)
(* repeated and lost.                                                      *)
THEOREM ReferralsAreCapped ==
  ASSUME Referring
  PROVE  Bus!Spec => []Bus!ReferralsCapped
  <1>1. BusInv => Bus!ReferralsCapped
    <2>1. SUFFICES ASSUME BusInv PROVE Bus!ReferralsCapped
      OBVIOUS
    <2>2. OneEach(rows) /\ Capped(rows)
      BY <2>1 DEF BusInv, RowsOK
    <2>3. ASSUME NEW ch \in Bus!Aggregates, NEW u \in Users
          PROVE  Cardinality({d \in paid : d.ch = ch /\ d.user = u}) <= Steps[ch]
      <3> DEFINE A == OwnRows(rows, ch, u)
                 P == {d \in paid : d.ch = ch /\ d.user = u}
                 f == [r \in A |-> [ch |-> ch, spec |-> r.spec, user |-> u]]
                 T == {f[r] : r \in A}
      <3>1. IsFiniteSet(A) /\ Cardinality(A) <= Steps[ch] /\ Cardinality(A) \in Nat /\ Steps[ch] \in Nat
        BY <2>2, FS_CardinalityType DEF Capped, Referring
      <3>2. IsFiniteSet(T) /\ Cardinality(T) <= Cardinality(A) /\ Cardinality(T) \in Nat
        <4>1. DOMAIN f = A
          OBVIOUS
        <4> HIDE DEF f, A
        <4> QED
          BY <3>1, <4>1, ImagesOf, FS_CardinalityType
      <3>3. ASSUME NEW d \in P PROVE d \in T
        <4>1. PICK r \in rows : r.ch = d.ch /\ r.spec = d.spec /\ d.user \in {r.user, 0}
          BY <2>1 DEF BusInv
        <4>2. d = [ch |-> d.ch, spec |-> d.spec, user |-> d.user] /\ d.ch = ch /\ d.user = u
          BY <2>1 DEF BusInv
        <4>3. r.user = u
          BY <4>1, <4>2 DEF Referring
        <4>4. r \in A
          BY <4>1, <4>2, <4>3 DEF OwnRows
        <4>5. f[r] = d
          BY <4>1, <4>2, <4>4
        <4> QED
          BY <4>4, <4>5
      <3> HIDE DEF A, P, T, f
      <3>4. IsFiniteSet(P) /\ Cardinality(P) <= Cardinality(T) /\ Cardinality(P) \in Nat
        <4>1. P \in SUBSET T
          BY <3>3
        <4> QED
          BY <3>2, <4>1, FS_Subset, FS_CardinalityType
      <3>5. Cardinality(P) <= Steps[ch]
        BY <3>1, <3>2, <3>4
      <3> QED
        BY <3>5 DEF P
    <2>4. \A ch \in Bus!Aggregates, u \in Users :
            Cardinality({r \in rows : r.ch = ch /\ r.user = u}) <= Steps[ch]
      BY <2>2 DEF Capped, OwnRows
    <2>5. \A r, s \in rows : r.ch = s.ch /\ r.spec = s.spec => r = s
      BY <2>2 DEF OneEach
    <2> QED
      BY <2>3, <2>4, <2>5, SameCounts, Zenon DEF Bus!ReferralsCapped
  <1> QED
    BY <1>1, BusKept, PTL

(* CompletedStays and CompletedByRows, together CompletedOnceByRows of the *)
(* run: no step changes a completed challenge, and a challenge that counts *)
(* tracks is only completed by tracks that exist then.                     *)
THEOREM CompletedChallengesStay ==
  ASSUME Referring
  PROVE  Bus!Spec => Bus!CompletedStays /\ Bus!CompletedByRows
  <1>1. BusInv /\ [Bus!Next]_Bus!vars => [Bus!KeepsCompleted]_Bus!vars /\ [Bus!CompletesByRows]_Bus!vars
    <2>1. SUFFICES ASSUME BusInv, Bus!Next PROVE Bus!KeepsCompleted /\ Bus!CompletesByRows
      BY DEF Bus!vars
    <2>2. CASE rows' = rows
      BY <2>2 DEF Bus!KeepsCompleted, Bus!CompletesByRows
    <2>3. CASE Bus!ProcessEvents
      <3>1. Follows(world, rows, [rows |-> rows', partial |-> partial'])
        BY <2>1, <2>3, BusProcessKeeps
      <3> QED
        BY <3>1 DEF Follows, Bus!KeepsCompleted, Bus!CompletesByRows
    <2>4. Bus!ProcessEvents \/ rows' = rows
      BY <2>1 DEF Bus!Next, Bus!IndexBlock, Bus!FailBlock, Bus!Undo, Bus!NextDay, Bus!LoseEvents,
         Bus!IndexDisbursement
    <2> QED
      BY <2>2, <2>3, <2>4
  <1> QED
    BY <1>1, BusKept, PTL DEF Bus!Spec, Bus!CompletedStays, Bus!CompletedByRows

-----------------------------------------------------------------------------
(* A second time                                                           *)

(* If k members of a set have fewer than k before them, unless it has no   *)
(* more than that.                                                         *)
Preceding(F, n) == {j \in F : j < n}
FirstOf(F, k) == {n \in F : Cardinality(Preceding(F, n)) < k}
LEMMA FirstEnough ==
  ASSUME NEW l \in Nat, NEW F \in SUBSET (1..l), NEW k \in Nat,
         NEW i \in F, ~(Cardinality(Preceding(F, i)) < k)
  PROVE  LET G == FirstOf(F, k)
         IN  IsFiniteSet(G) /\ Cardinality(G) \in Nat /\ k <= Cardinality(G)
  <1> DEFINE G == FirstOf(F, k)
  <1>1. IsFiniteSet(F) /\ IsFiniteSet(G) /\ Cardinality(G) \in Nat
    <2>1. IsFiniteSet(1..l)
      BY FS_Interval
    <2>2. G \in SUBSET F
      BY DEF FirstOf
    <2> HIDE DEF G
    <2> QED
      BY <2>1, <2>2, FS_Subset, FS_CardinalityType
  <1>2. F \ G \in SUBSET Nat /\ F \ G # {}
    <2>1. i \in F \ G
      BY DEF FirstOf
    <2>2. \A n \in F : n \in Nat
      OBVIOUS
    <2> HIDE DEF G
    <2> QED
      BY <2>1, <2>2
  <1>3. PICK m \in F \ G : \A n \in F \ G : m <= n
    <2> HIDE DEF G
    <2> QED
      BY <1>2, LeastNumber
  <1>4. ASSUME NEW j \in Preceding(F, m) PROVE j \in G
    <2>1. j \in F /\ j \in Nat /\ m \in Nat /\ ~(m <= j)
      BY DEF Preceding
    <2> HIDE DEF G
    <2> QED
      BY <1>3, <2>1
  <1>5. Cardinality(Preceding(F, m)) <= Cardinality(G) /\ Cardinality(Preceding(F, m)) \in Nat
    <2>1. Preceding(F, m) \in SUBSET G
      BY <1>4
    <2> HIDE DEF G
    <2> QED
      BY <1>1, <2>1, FS_Subset, FS_CardinalityType
  <1>6. ~(Cardinality(Preceding(F, m)) < k)
    BY <1>3 DEF FirstOf
  <1> HIDE DEF G
  <1>7. IsFiniteSet(G) /\ Cardinality(G) \in Nat /\ k <= Cardinality(G)
    BY <1>1, <1>5, <1>6
  <1> QED
    BY <1>7 DEF G

\* What makes a manager create a row.
Fresh(R, ch, E) == {i \in DOMAIN E : Bus!RowOf(R, ch, Bus!Specifier(ch, E[i])) = {}}
Earlier(R, ch, E, i) == {j \in Fresh(R, ch, E) : j < i /\ E[j].user = E[i].user}
Full(R, ch, E, i) ==
  Cardinality(OwnRows(R, ch, E[i].user)) + Cardinality(Earlier(R, ch, E, i)) >= Steps[ch]
LEMMA CreatedIs ==
  ASSUME NEW w, NEW R, NEW ch, NEW E, NEW r
  PROVE  r \in Bus!Created(w, R, ch, E) <=>
           \E i \in Fresh(R, ch, E) :
             /\ r = Bus!NewRow(ch, E[i])
             /\ ch \in Bus!Aggregates => Bus!ShouldCreate(w, ch, E[i]) /\ ~Full(R, ch, E, i)
  BY SameCounts, Zenon DEF Bus!Created, Fresh, Earlier, Full, OwnRows

LEMMA FreshIs ==
  ASSUME NEW R, NEW ch, NEW E, NEW i \in DOMAIN E
  PROVE  i \in Fresh(R, ch, E) <=> \A r \in R : ~(r.ch = ch /\ r.spec = Bus!Specifier(ch, E[i]))
  BY DEF Fresh, Bus!RowOf

\* Where the rows to create have been created, nothing is left to create.
LEMMA CreatedOnce ==
  ASSUME Referring, NEW w, NEW R, NEW Q, NEW ch, NEW l \in Nat, NEW E, DOMAIN E \in SUBSET (1..l),
         \A i \in DOMAIN E : E[i] \in BusEvent,
         \A i, j \in DOMAIN E : Bus!Specifier(ch, E[i]) = Bus!Specifier(ch, E[j]) => i = j,
         Capped(R), Capped(Q),
         \A r \in R : r.ch = ch =>
           (\E q \in Q : q.ch = ch /\ q.spec = r.spec) /\ (ch \in Bus!Aggregates => r \in Q),
         \A r \in Bus!Created(w, R, ch, E) : \E q \in Q : q.ch = ch /\ q.spec = r.spec /\ q.user = r.user
  PROVE  Bus!Created(w, Q, ch, E) = {}
  <1> SUFFICES ASSUME NEW x \in Bus!Created(w, Q, ch, E) PROVE FALSE
    OBVIOUS
  <1>1. PICK i \in Fresh(Q, ch, E) :
          ch \in Bus!Aggregates => Bus!ShouldCreate(w, ch, E[i]) /\ ~Full(Q, ch, E, i)
    BY CreatedIs
  <1>2. i \in DOMAIN E /\ E[i].user \in Users
    BY DEF Fresh, BusEvent
  <1>3. ASSUME NEW j \in Fresh(Q, ch, E) PROVE j \in Fresh(R, ch, E)
    <2>1. j \in DOMAIN E
      BY DEF Fresh
    <2> QED
      BY <2>1, FreshIs
  \* A row that an event makes has the specifier and the user of the event.
  <1>4. ASSUME NEW j \in Fresh(R, ch, E),
               ch \in Bus!Aggregates => Bus!ShouldCreate(w, ch, E[j]) /\ ~Full(R, ch, E, j)
        PROVE  \E q \in Q : q.ch = ch /\ q.spec = Bus!Specifier(ch, E[j]) /\ q.user = E[j].user
    <2>1. Bus!NewRow(ch, E[j]) \in Bus!Created(w, R, ch, E)
      BY <1>4, CreatedIs
    <2>2. Bus!NewRow(ch, E[j]).spec = Bus!Specifier(ch, E[j]) /\ Bus!NewRow(ch, E[j]).user = E[j].user
      BY DEF Bus!NewRow
    <2> QED
      BY <2>1, <2>2
  <1>5. ch \in Bus!Aggregates /\ Full(R, ch, E, i)
    <2>1. i \in Fresh(R, ch, E)
      BY <1>3
    <2>2. \A q \in Q : ~(q.ch = ch /\ q.spec = Bus!Specifier(ch, E[i]))
      BY <1>2, FreshIs
    <2> QED
      BY <1>1, <1>4, <2>1, <2>2
  <1> DEFINE u == E[i].user
             A == OwnRows(R, ch, u)
             Z == OwnRows(Q, ch, u)
             F == {j \in Fresh(R, ch, E) : E[j].user = u}
             k == Steps[ch] - Cardinality(A)
             G == FirstOf(F, k)
             named(j) == CHOOSE q \in Q : q.ch = ch /\ q.spec = Bus!Specifier(ch, E[j]) /\ q.user = u
             h == [j \in G |-> named(j)]
             T == {h[j] : j \in G}
  <1>6. /\ IsFiniteSet(A) /\ Cardinality(A) <= Steps[ch] /\ IsFiniteSet(Z)
        /\ Cardinality(A) \in Nat /\ Cardinality(Z) \in Nat /\ Steps[ch] \in Nat /\ k \in Nat
    <2>1. /\ IsFiniteSet(A) /\ Cardinality(A) <= Steps[ch] /\ IsFiniteSet(Z) /\ Steps[ch] \in Nat
      BY <1>2, <1>5 DEF Capped, Referring
    <2>2. Cardinality(A) \in Nat /\ Cardinality(Z) \in Nat
      BY <2>1, FS_CardinalityType
    <2> QED
      BY <2>1, <2>2
  <1>7. F \in SUBSET (1..l) /\ i \in F
    BY <1>2, <1>3 DEF Fresh
  <1>8. ASSUME NEW j \in F PROVE Earlier(R, ch, E, j) = Preceding(F, j) /\ Cardinality(Preceding(F, j)) \in Nat
    <2>1. Earlier(R, ch, E, j) = Preceding(F, j)
      BY DEF Earlier, Preceding
    <2>2. Preceding(F, j) \in SUBSET (1..l)
      BY <1>7 DEF Preceding
    <2>3. IsFiniteSet(1..l)
      BY FS_Interval
    <2> QED
      BY <2>1, <2>2, <2>3, FS_Subset, FS_CardinalityType
  <1>9. ASSUME NEW j \in F
        PROVE  Full(R, ch, E, j) <=> ~(Cardinality(Preceding(F, j)) < k)
    <2> DEFINE a == Cardinality(A)
               b == Cardinality(Preceding(F, j))
    <2>1. Full(R, ch, E, j) <=> a + b >= Steps[ch]
      BY <1>8, Zenon DEF Full
    <2>2. a \in Nat /\ b \in Nat /\ Steps[ch] \in Nat
      BY <1>6, <1>8
    <2> HIDE DEF a, b
    <2>3. a + b >= Steps[ch] <=> ~(b < Steps[ch] - a)
      BY <2>2
    <2> QED
      BY <2>1, <2>3 DEF a, b
  <1>10. IsFiniteSet(G) /\ Cardinality(G) \in Nat /\ k <= Cardinality(G)
    <2>1. ~(Cardinality(Preceding(F, i)) < k)
      BY <1>5, <1>7, <1>9
    <2>2. k \in Nat /\ F \in SUBSET (1..l) /\ i \in F
      BY <1>6, <1>7
    <2> HIDE DEF F, k
    <2> QED
      BY <2>1, <2>2, FirstEnough
  <1>11. ASSUME NEW j \in G
         PROVE  h[j] \in Z /\ h[j].spec = Bus!Specifier(ch, E[j]) /\ h[j] \notin R
    <2>1. j \in F /\ j \in Fresh(R, ch, E) /\ E[j].user = u /\ ~Full(R, ch, E, j) /\ j \in DOMAIN E
      BY <1>9 DEF Fresh, FirstOf
    <2>2. Bus!ShouldCreate(w, ch, E[j])
      BY <1>1, <1>5, <2>1 DEF Bus!ShouldCreate
    <2>3. \E q \in Q : q.ch = ch /\ q.spec = Bus!Specifier(ch, E[j]) /\ q.user = u
      BY <1>4, <2>1, <2>2
    <2>4. named(j) \in Q /\ named(j).ch = ch /\ named(j).spec = Bus!Specifier(ch, E[j]) /\ named(j).user = u
      BY <2>3
    <2>5. h[j] = named(j)
      OBVIOUS
    <2> HIDE DEF named, h
    <2>6. h[j] \notin R
      BY <2>1, <2>4, <2>5, FreshIs
    <2> QED
      BY <2>4, <2>5, <2>6 DEF OwnRows
  <1>12. \A j, n \in G : h[j] = h[n] => j = n
    <2> SUFFICES ASSUME NEW j \in G, NEW n \in G, h[j] = h[n] PROVE j = n
      OBVIOUS
    <2>1. j \in DOMAIN E /\ n \in DOMAIN E
      BY DEF Fresh, FirstOf
    <2>2. Bus!Specifier(ch, E[j]) = Bus!Specifier(ch, E[n])
      BY <1>11
    <2> QED
      BY <2>1, <2>2
  <1>13. IsFiniteSet(T) /\ Cardinality(T) = Cardinality(G)
    <2>1. h \in Surjection(G, T)
      BY DEF Surjection
    <2>2. h \in Injection(G, T)
      BY <1>12, <2>1 DEF Surjection, Injection, IsInjective
    <2> HIDE DEF h, T, G
    <2> QED
      BY <1>10, <2>1, <2>2, FS_Surjection
  <1>14. A \cup T \in SUBSET Z /\ A \cap T = {}
    <2>1. \A y \in T : y \in Z /\ y \notin R
      <3> HIDE DEF h, Z, G
      <3> QED
        BY <1>11
    <2>2. \A r \in A : r \in Z
      BY <1>5 DEF OwnRows
    <2>3. \A r \in A : r \in R
      BY DEF OwnRows
    <2> HIDE DEF A, T, Z
    <2> QED
      BY <2>1, <2>2, <2>3
  <1> HIDE DEF A, T, Z, G
  <1>15. Cardinality(A) + Cardinality(T) <= Cardinality(Z)
    <2>1. Cardinality(A \cup T) <= Cardinality(Z) /\ Cardinality(A \cup T) \in Nat
      BY <1>6, <1>14, FS_Subset, FS_CardinalityType
    <2>2. Cardinality(A \cup T) = Cardinality(A) + Cardinality(T) - Cardinality(A \cap T)
      BY <1>6, <1>13, FS_Union
    <2>3. Cardinality(A \cap T) = 0
      BY <1>14, FS_EmptySet
    <2>4. Cardinality(T) \in Nat
      BY <1>10, <1>13
    <2> QED
      BY <1>6, <2>1, <2>2, <2>3, <2>4
  <1>16. Cardinality(Z) >= Steps[ch]
    <2> DEFINE a == Cardinality(A)
               b == Cardinality(T)
               z == Cardinality(Z)
    <2>1. a \in Nat /\ z \in Nat /\ b \in Nat /\ Steps[ch] \in Nat /\ Steps[ch] - a <= b /\ a + b <= z
      BY <1>6, <1>10, <1>13, <1>15
    <2> HIDE DEF a, b, z
    <2>2. z >= Steps[ch]
      BY <2>1
    <2> QED
      BY <2>2 DEF z
  <1>17. Full(Q, ch, E, i)
    <2> DEFINE z == Cardinality(Z)
               b == Cardinality(Earlier(Q, ch, E, i))
    <2>1. b \in Nat
      <3>1. Earlier(Q, ch, E, i) \in SUBSET (1..l)
        BY DEF Earlier, Fresh
      <3>2. IsFiniteSet(1..l)
        BY FS_Interval
      <3> QED
        BY <3>1, <3>2, FS_Subset, FS_CardinalityType
    <2>2. Full(Q, ch, E, i) <=> z + b >= Steps[ch]
      BY Zenon DEF Full, Z
    <2>3. z \in Nat /\ Steps[ch] \in Nat /\ z >= Steps[ch]
      BY <1>6, <1>16
    <2> HIDE DEF z, b
    <2> QED
      BY <2>1, <2>2, <2>3
  <1> QED
    BY <1>1, <1>5, <1>17

\* Updating twice with the same numbers changes nothing.
LEMMA UpdatedTwice ==
  ASSUME Referring, NEW w, Uploaded(w), NEW p, Counted(p), NEW r, Progress(r)
  PROVE  Bus!Updated(w, p, Bus!Updated(w, p, r)) = Bus!Updated(w, p, r)
  <1> DEFINE t == Bus!Updated(w, p, r)
             Set(x, n, b) == [x EXCEPT !.steps = n, !.done = b]
  <1>1. /\ r = [ch |-> r.ch, spec |-> r.spec, user |-> r.user, steps |-> r.steps, done |-> r.done, block |-> r.block]
        /\ r.user \in Users
    BY DEF Progress
  <1>2. \A n, b : /\ Set(r, n, b).ch = r.ch /\ Set(r, n, b).user = r.user
                  /\ Set(Set(r, n, b), n, b) = Set(r, n, b)
    BY <1>1
  <1>3. CASE r.ch = "track-upload"
    <2>1. \A x : x.ch = r.ch /\ x.user = r.user =>
            Bus!Updated(w, p, x) = Set(x, w.tracks[r.user], w.tracks[r.user] >= Steps[r.ch])
      <3> SUFFICES ASSUME NEW x, x.ch = r.ch, x.user = r.user
                   PROVE  Bus!Updated(w, p, x) = Set(x, w.tracks[r.user], w.tracks[r.user] >= Steps[r.ch])
        OBVIOUS
      <3>1. Bus!Updated(w, p, x) = [x EXCEPT !.steps = w.tracks[x.user], !.done = (w.tracks[x.user] >= Steps[x.ch])]
        BY <1>3 DEF Bus!Updated, Bus!Aggregates
      <3> QED
        BY <3>1, Zenon
    <2> HIDE DEF Set
    <2> QED
      BY <1>2, <2>1, Zenon
  <1>4. CASE r.ch = "listen-streak"
    <2>1. \A x : x.ch = r.ch /\ x.user = r.user =>
            Bus!Updated(w, p, x) = Set(x, p.streak[r.user].n, p.streak[r.user].n >= Steps[r.ch])
      <3> SUFFICES ASSUME NEW x, x.ch = r.ch, x.user = r.user
                   PROVE  Bus!Updated(w, p, x) = Set(x, p.streak[r.user].n, p.streak[r.user].n >= Steps[r.ch])
        OBVIOUS
      <3>1. Bus!Updated(w, p, x) = [x EXCEPT !.steps = p.streak[x.user].n, !.done = (p.streak[x.user].n >= Steps[x.ch])]
        BY <1>4 DEF Bus!Updated, Bus!Aggregates
      <3> QED
        BY <3>1, Zenon
    <2> HIDE DEF Set
    <2> QED
      BY <1>2, <2>1, Zenon
  <1>5. CASE r.ch = "profile-completion"
    <2> DEFINE n == Bus!ProfileSteps(p.profile[r.user])
    <2>1. \A x : x.ch = r.ch /\ x.user = r.user =>
            Bus!Updated(w, p, x) = Set(x, n, n = Steps[r.ch])
      <3> SUFFICES ASSUME NEW x, x.ch = r.ch, x.user = r.user
                   PROVE  Bus!Updated(w, p, x) = Set(x, n, n = Steps[r.ch])
        OBVIOUS
      <3>1. Bus!Updated(w, p, x) =
              [x EXCEPT !.steps = Bus!ProfileSteps(p.profile[x.user]),
                        !.done = (Bus!ProfileSteps(p.profile[x.user]) = Steps[x.ch])]
        BY <1>5 DEF Bus!Updated, Bus!Aggregates
      <3> QED
        BY <3>1, Zenon
    <2> DEFINE b == n = Steps[r.ch]
    <2>2. \A x : x.ch = r.ch /\ x.user = r.user => Bus!Updated(w, p, x) = Set(x, n, b)
      BY <2>1
    <2> HIDE DEF Set, n, b
    <2> QED
      BY <1>2, <2>2, Zenon
  <1>6. CASE r.ch \in Bus!Aggregates
    BY <1>6 DEF Bus!Updated, Bus!Aggregates
  <1>7. CASE r.ch \notin {"track-upload", "listen-streak", "profile-completion"} \cup Bus!Aggregates
    <2> DEFINE Fin(x) == [x EXCEPT !.done = TRUE]
    <2>1. Fin(r).ch = r.ch /\ Fin(Fin(r)) = Fin(r)
      BY <1>1
    <2>2. \A x : x.ch = r.ch => Bus!Updated(w, p, x) = Fin(x)
      BY <1>7 DEF Bus!Updated
    <2> HIDE DEF Fin
    <2> QED
      BY <2>1, <2>2, Zenon
  <1> QED
    BY <1>3, <1>4, <1>5, <1>6, <1>7

\* What is not complete after an update has not been stamped.
LEMMA MarkedUndone ==
  ASSUME Referring, NEW w, Uploaded(w), NEW p, Counted(p), NEW ch, NEW E, NEW r, Progress(r),
         Matching(ch, E, r), ~Marked(w, p, ch, E, r).done
  PROVE  Marked(w, p, ch, E, r) = Bus!Updated(w, p, r)
  <1> DEFINE t == Bus!Updated(w, p, r)
             n == E[CHOOSE i \in DOMAIN E : Bus!Specifier(ch, E[i]) = t.spec].block
             q == Marked(w, p, ch, E, r)
  <1>1. q = IF t.done THEN [t EXCEPT !.block = n] ELSE t
    BY DEF Marked, Bus!Stamp
  <1>2. q = [ch |-> q.ch, spec |-> q.spec, user |-> q.user, steps |-> q.steps, done |-> q.done, block |-> q.block]
    <2>1. Progress(q)
      BY StampedRow DEF Marked, Matching
    <2> HIDE DEF q
    <2> QED
      BY <2>1 DEF Progress
  <1> HIDE DEF t, n, q
  <1>3. CASE t.done
    <2>1. q = [t EXCEPT !.block = n]
      BY <1>1, <1>3
    <2>2. q.done = t.done
      <3>1. DOMAIN q = DOMAIN t /\ "done" \in DOMAIN q
        BY <1>2, <2>1
      <3> QED
        BY <2>1, <3>1
    <2> QED
      BY <1>3, <2>2 DEF q
  <1>4. CASE ~t.done
    BY <1>1, <1>4 DEF q, t
  <1> QED
    BY <1>3, <1>4

\* The profile that a manager writes down.
Enough(w, u) == w.reposts[u] >= 1
Noted(w, p, q, type, U, u) ==
  /\ q.streak = p.streak
  /\ u \notin U => q.profile[u] = p.profile[u]
  /\ u \in U /\ type = "bio" =>
       q.profile[u].bio = w.bio[u] /\ q.profile[u].repost = p.profile[u].repost
  /\ u \in U /\ type # "bio" =>
       q.profile[u].bio = p.profile[u].bio /\ q.profile[u].repost = Enough(w, u)
LEMMA ProfileAt ==
  ASSUME NEW w, NEW p, Counted(p), NEW type, NEW U, NEW u \in Users
  PROVE  Noted(w, p, Bus!HandleProfile(w, p, type, U), type, U, u)
  <1> DEFINE q == Bus!HandleProfile(w, p, type, U)
             f == [v \in Users |->
                     IF v \notin U THEN p.profile[v]
                     ELSE IF type = "bio" THEN [p.profile[v] EXCEPT !.bio = w.bio[v]]
                     ELSE [p.profile[v] EXCEPT !.repost = w.reposts[v] >= 1]]
             x == p.profile[u]
  <1>1. q = [p EXCEPT !.profile = f]
    BY Zenon DEF Bus!HandleProfile
  <1>2. p = [streak |-> p.streak, profile |-> p.profile] /\ x = [bio |-> x.bio, repost |-> x.repost]
    BY DEF Counted
  <1>3. f[u] = IF u \notin U THEN x
               ELSE IF type = "bio" THEN [x EXCEPT !.bio = w.bio[u]]
               ELSE [x EXCEPT !.repost = Enough(w, u)]
    BY Zenon DEF Enough
  <1> HIDE DEF q, f, x
  <1>4. q.streak = p.streak /\ q.profile = f
    BY <1>1, <1>2
  <1>5. \A b : /\ [x EXCEPT !.bio = b].bio = b /\ [x EXCEPT !.bio = b].repost = x.repost
               /\ [x EXCEPT !.repost = b].repost = b /\ [x EXCEPT !.repost = b].bio = x.bio
    BY <1>2
  <1> QED
    BY <1>3, <1>4, <1>5, Zenon DEF q, x, Noted

\* What a manager makes of what the challenges keep beside their rows.
OwnersOf(U) == {r.user : r \in U}
LEMMA PartialIs ==
  ASSUME NEW w, NEW s, NEW ch, ch # "listen-streak", NEW type, NEW B, NEW o
  PROVE  LET U == Bus!ToUpdate(w, s.rows, ch, Bus!Merge(ch, type, B))
             t == Bus!Process(w, s, ch, type, B, o)
         IN  /\ ch = "profile-completion" =>
                  t.partial = Bus!HandleProfile(w, s.partial, type, OwnersOf(U))
             /\ ch # "profile-completion" => t.partial = s.partial
  <1> DEFINE E == Bus!Merge(ch, type, B)
             U == Bus!ToUpdate(w, s.rows, ch, E)
             owners == OwnersOf(U)
             p == CASE ch = "listen-streak" -> Bus!HandleListens(s.partial, o, owners, E)
                    [] ch = "profile-completion" -> Bus!HandleProfile(w, s.partial, type, owners)
                    [] OTHER -> s.partial
             t == Bus!Process(w, s, ch, type, B, o)
  <1>1. t = [rows |-> (s.rows \ U) \cup {Bus!Stamp(ch, E, Bus!Updated(w, p, r)) : r \in U}, partial |-> p]
    BY Zenon DEF Bus!Process, OwnersOf
  <1>2. p = IF ch = "profile-completion" THEN Bus!HandleProfile(w, s.partial, type, owners) ELSE s.partial
    BY Zenon
  <1> HIDE DEF p, t, E, owners
  <1>3. t.partial = p
    BY <1>1
  <1> QED
    BY <1>2, <1>3 DEF t, owners, E

(* A manager that has seen the events of a batch has nothing to create, and *)
(* what it left unfinished is as far as the tables are.                    *)
Read(w, type, f, u) ==
  /\ type = "bio" => f.bio = w.bio[u]
  /\ type = "repost" => f.repost = Enough(w, u)
Settled(w, s, ch, type, B) ==
  /\ Bus!Created(w, s.rows, ch, Bus!Merge(ch, type, B)) = {}
  /\ \A r \in s.rows :
       r.ch = ch /\ ~r.done /\ Matching(ch, Bus!Merge(ch, type, B), r) =>
         /\ Bus!Updated(w, s.partial, r) = r
         /\ ch = "profile-completion" => Read(w, type, s.partial.profile[r.user], r.user)

LEMMA SettledIsLast ==
  ASSUME Referring, NEW w, NEW s, RowsOK(s), NEW ch, ch # "listen-streak", NEW type,
         ch = "profile-completion" => type \in {"bio", "repost"}, NEW B, NEW o,
         Settled(w, s, ch, type, B)
  PROVE  Bus!Process(w, s, ch, type, B, o) = s
  <1> DEFINE E == Bus!Merge(ch, type, B)
             U == Bus!ToUpdate(w, s.rows, ch, E)
             t == Bus!Process(w, s, ch, type, B, o)
  <1>1. U = {r \in s.rows : ~r.done /\ r.ch = ch /\ Matching(ch, E, r)}
    BY DEF Bus!ToUpdate, Settled, Matching
  <1>2. \A r \in U : /\ r \in s.rows /\ ~r.done /\ Bus!Updated(w, s.partial, r) = r
                     /\ r.user \in Users
                     /\ ch = "profile-completion" => Read(w, type, s.partial.profile[r.user], r.user)
    BY <1>1 DEF Settled, RowsOK, Progress
  <1>3. /\ Counted(t.partial)
        /\ t = [rows |-> (s.rows \ U) \cup {Marked(w, t.partial, ch, E, r) : r \in U},
                partial |-> t.partial]
    <2>1. Becomes(w, s, t, ch, E, U)
      BY ProcessIs
    <2> QED
      BY <2>1 DEF Becomes
  <1>4. Counted(s.partial) /\ s = [rows |-> s.rows, partial |-> s.partial]
    BY DEF RowsOK
  <1>5. /\ ch = "profile-completion" =>
             t.partial = Bus!HandleProfile(w, s.partial, type, OwnersOf(U))
        /\ ch # "profile-completion" => t.partial = s.partial
    BY PartialIs
  <1> HIDE DEF U, t
  <1>6. t.partial = s.partial
    <2>1. CASE ch # "profile-completion"
      BY <1>5, <2>1
    <2>2. CASE ch = "profile-completion"
      <3> DEFINE owners == OwnersOf(U)
                 p == s.partial
                 q == t.partial
      <3>1. q = Bus!HandleProfile(w, p, type, owners)
        BY <1>5, <2>2
      <3>2. ASSUME NEW u \in Users PROVE q.profile[u] = p.profile[u] /\ q.streak = p.streak
        <4>1. u \in owners => Read(w, type, p.profile[u], u)
          BY <1>2, <2>2 DEF OwnersOf
        <4>2. Noted(w, p, q, type, owners, u)
          <5> HIDE DEF owners
          <5> QED
            BY <1>4, <3>1, ProfileAt
        <4>3. q.profile[u] = [bio |-> q.profile[u].bio, repost |-> q.profile[u].repost]
              /\ p.profile[u] = [bio |-> p.profile[u].bio, repost |-> p.profile[u].repost]
          BY <1>3, <1>4 DEF Counted
        <4>4. u \in owners => q.profile[u].bio = p.profile[u].bio /\ q.profile[u].repost = p.profile[u].repost
          <5> HIDE DEF owners, q, p
          <5> QED
            BY <2>2, <4>1, <4>2 DEF Read, Noted
        <4> HIDE DEF owners, q, p
        <4> QED
          BY <4>2, <4>3, <4>4, Zenon DEF Noted
      <3>3. q.streak = p.streak
        <4>1. q = [p EXCEPT !.profile = q.profile]
          <5>1. \E f : q = [p EXCEPT !.profile = f]
            BY <3>1, Zenon DEF Bus!HandleProfile
          <5>2. p = [streak |-> p.streak, profile |-> p.profile]
            BY <1>4 DEF Counted
          <5> HIDE DEF p, q
          <5> QED
            BY <5>1, <5>2
        <4>2. p = [streak |-> p.streak, profile |-> p.profile]
          BY <1>4 DEF Counted
        <4> HIDE DEF p, q
        <4> QED
          BY <4>1, <4>2
      <3>4. q.profile = p.profile
        <4>1. q.profile = [u \in Users |-> q.profile[u]] /\ p.profile = [u \in Users |-> p.profile[u]]
          BY <1>3, <1>4 DEF Counted
        <4> HIDE DEF p, q
        <4> QED
          BY <3>2, <4>1
      <3>5. q = [streak |-> q.streak, profile |-> q.profile] /\ p = [streak |-> p.streak, profile |-> p.profile]
        BY <1>3, <1>4 DEF Counted
      <3> HIDE DEF owners, q, p
      <3>6. q = p
        BY <3>3, <3>4, <3>5, Zenon
      <3> QED
        BY <3>6 DEF q, p
    <2> QED
      BY <2>1, <2>2
  <1>7. ASSUME NEW r \in U PROVE Marked(w, t.partial, ch, E, r) = r
    BY <1>2, <1>6 DEF Marked, Bus!Stamp
  <1>8. {Marked(w, t.partial, ch, E, r) : r \in U} = U
    BY <1>7
  <1>9. (s.rows \ U) \cup U = s.rows
    BY <1>2
  <1> HIDE DEF E
  <1>10. t = [rows |-> s.rows, partial |-> s.partial]
    BY <1>3, <1>6, <1>8, <1>9, Zenon
  <1> QED
    BY <1>4, <1>10 DEF t

LEMMA ProcessSettles ==
  ASSUME Referring, NEW w, Uploaded(w), NEW s, RowsOK(s), NEW ch, ch # "listen-streak", NEW type,
         ch = "profile-completion" => type \in {"bio", "repost"}, NEW B \in Seq(BusEvent), NEW o
  PROVE  Settled(w, Bus!Process(w, s, ch, type, B, o), ch, type, B)
  <1> DEFINE E == Bus!Merge(ch, type, B)
             N == Bus!Created(w, s.rows, ch, E)
             U == Bus!ToUpdate(w, s.rows, ch, E)
             t == Bus!Process(w, s, ch, type, B, o)
             f(r) == Marked(w, t.partial, ch, E, r)
  <1>1. Becomes(w, s, t, ch, E, U)
    BY ProcessIs
  <1>2. /\ DOMAIN E \in SUBSET (1..Len(B)) /\ Len(B) \in Nat
        /\ \A i \in DOMAIN E : E[i] \in BusEvent
        /\ \A i, j \in DOMAIN E : Bus!Specifier(ch, E[i]) = Bus!Specifier(ch, E[j]) => i = j
    BY MergedOnce
  <1>3. RowsOK(t)
    BY ProcessKeepsRows DEF Follows
  <1>4. \A r \in U : Progress(r) /\ r.ch = ch /\ Matching(ch, E, r) /\ (r \in s.rows => ~r.done)
    BY ProcessMarks
  <1>5. \A r \in U : Progress(f(r)) /\ f(r).ch = r.ch /\ f(r).spec = r.spec /\ f(r).user = r.user
    BY ProcessMarks
  <1>6. U = {r \in s.rows : ~r.done /\ r.ch = ch /\ Matching(ch, E, r)} \cup N
    BY DEF Bus!ToUpdate, Matching
  <1>7. /\ ch = "profile-completion" =>
             t.partial = Bus!HandleProfile(w, s.partial, type, OwnersOf(U))
    BY PartialIs
  <1> HIDE DEF E, U, N, t, f
  <1>8. t.rows = (s.rows \ U) \cup {f(r) : r \in U}
    BY <1>1 DEF f, Becomes
  <1>9. Bus!Created(w, t.rows, ch, E) = {}
    <2>1. ASSUME NEW r \in s.rows, r.ch = ch
          PROVE  (\E q \in t.rows : q.ch = ch /\ q.spec = r.spec) /\ (ch \in Bus!Aggregates => r \in t.rows)
      <3>1. ch \in Bus!Aggregates => r.done
        BY <2>1 DEF RowsOK, Progress
      <3>2. r \in U => f(r) \in t.rows /\ f(r).ch = ch /\ f(r).spec = r.spec
        BY <1>4, <1>5, <1>8
      <3>3. r \notin U => r \in t.rows
        BY <1>8
      <3>4. r.done => r \notin U
        BY <1>4
      <3> QED
        BY <2>1, <3>1, <3>2, <3>3, <3>4
    <2>2. ASSUME NEW r \in N PROVE \E q \in t.rows : q.ch = ch /\ q.spec = r.spec /\ q.user = r.user
      <3>1. r \in U
        BY <1>6
      <3>2. f(r) \in t.rows
        BY <1>8, <3>1
      <3> QED
        BY <1>4, <1>5, <3>1, <3>2
    <2>3. Capped(s.rows) /\ Capped(t.rows)
      BY <1>3 DEF RowsOK
    <2> QED
      BY <1>2, <2>1, <2>2, <2>3, CreatedOnce DEF N
  <1>10. ASSUME NEW r \in t.rows, r.ch = ch, ~r.done, Matching(ch, E, r)
         PROVE  /\ Bus!Updated(w, t.partial, r) = r
                /\ ch = "profile-completion" => Read(w, type, t.partial.profile[r.user], r.user)
    <2>1. r \notin s.rows \ U
      BY <1>6, <1>10
    <2>2. PICK q \in U : r = f(q)
      BY <1>8, <2>1
    <2>3. Progress(q) /\ Matching(ch, E, q) /\ r.user = q.user /\ ~f(q).done
      BY <1>4, <1>5, <1>10, <2>2
    <2>4. r = Bus!Updated(w, t.partial, q)
      BY <1>1, <2>2, <2>3, MarkedUndone DEF f, Becomes
    <2>5. Bus!Updated(w, t.partial, r) = r
      BY <1>1, <2>3, <2>4, UpdatedTwice DEF Becomes
    <2>6. ASSUME ch = "profile-completion" PROVE Read(w, type, t.partial.profile[r.user], r.user)
      <3>1. Noted(w, s.partial, t.partial, type, OwnersOf(U), r.user)
        <4>1. Counted(s.partial) /\ r.user \in Users
          BY <2>3 DEF RowsOK, Progress
        <4> QED
          BY <1>7, <2>6, <4>1, ProfileAt
      <3>2. r.user \in OwnersOf(U)
        BY <2>2, <2>3 DEF OwnersOf
      <3> QED
        BY <2>6, <3>1, <3>2 DEF Noted, Read
    <2> QED
      BY <2>5, <2>6
  <1> QED
    BY <1>9, <1>10 DEF Settled, E, t

\* What an update reads beside the row and the tables.
LEMMA UpdatedApart ==
  ASSUME NEW w, NEW p, NEW q, NEW r, r.ch # "listen-streak",
         r.ch = "profile-completion" => p.profile[r.user] = q.profile[r.user]
  PROVE  Bus!Updated(w, p, r) = Bus!Updated(w, q, r)
  <1>1. CASE r.ch = "track-upload"
    <2>1. \A x : Bus!Updated(w, x, r) =
            [r EXCEPT !.steps = w.tracks[r.user], !.done = (w.tracks[r.user] >= Steps[r.ch])]
      BY <1>1 DEF Bus!Updated, Bus!Aggregates
    <2> QED
      BY <2>1, Zenon
  <1>2. CASE r.ch = "profile-completion"
    <2> DEFINE Out(f) == [r EXCEPT !.steps = Bus!ProfileSteps(f),
                                   !.done = (Bus!ProfileSteps(f) = Steps[r.ch])]
    <2>1. \A x : Bus!Updated(w, x, r) = Out(x.profile[r.user])
      BY <1>2 DEF Bus!Updated, Bus!Aggregates
    <2>2. p.profile[r.user] = q.profile[r.user]
      BY <1>2
    <2> HIDE DEF Out
    <2> QED
      BY <2>1, <2>2, Zenon
  <1>3. CASE r.ch \in Bus!Aggregates
    BY <1>3 DEF Bus!Updated, Bus!Aggregates
  <1>4. CASE r.ch \notin {"track-upload", "listen-streak", "profile-completion"} \cup Bus!Aggregates
    BY <1>4 DEF Bus!Updated
  <1> QED
    BY <1>1, <1>2, <1>3, <1>4

\* A manager does not disturb what another one has settled, nor another
\* type of events what it has settled itself.
LEMMA SettledStays ==
  ASSUME Referring, NEW w, Uploaded(w), NEW s, RowsOK(s),
         NEW ch, ch # "listen-streak", NEW type,
         NEW c, c # "listen-streak", NEW kind,
         c = "profile-completion" => kind \in {"bio", "repost"},
         c = ch => ch = "profile-completion" /\ kind # type,
         NEW B \in Seq(BusEvent), NEW o, Settled(w, s, ch, type, B)
  PROVE  Settled(w, Bus!Process(w, s, c, kind, B, o), ch, type, B)
  <1> DEFINE E == Bus!Merge(ch, type, B)
             D == Bus!Merge(c, kind, B)
             N == Bus!Created(w, s.rows, c, D)
             U == Bus!ToUpdate(w, s.rows, c, D)
             t == Bus!Process(w, s, c, kind, B, o)
             f(r) == Marked(w, t.partial, c, D, r)
  <1>1. Becomes(w, s, t, c, D, U)
    BY ProcessIs
  <1>2. /\ DOMAIN E \in SUBSET (1..Len(B)) /\ Len(B) \in Nat
        /\ \A i \in DOMAIN E : E[i] \in BusEvent
        /\ \A i, j \in DOMAIN E : Bus!Specifier(ch, E[i]) = Bus!Specifier(ch, E[j]) => i = j
    BY MergedOnce
  <1>3. RowsOK(t)
    BY ProcessKeepsRows DEF Follows
  <1>4. \A r \in U : Progress(r) /\ r.ch = c /\ Matching(c, D, r) /\ (r \in s.rows => ~r.done)
    BY ProcessMarks
  <1>5. \A r \in U : Progress(f(r)) /\ f(r).ch = r.ch /\ f(r).spec = r.spec /\ f(r).user = r.user
    BY ProcessMarks
  <1>6. U = {r \in s.rows : ~r.done /\ r.ch = c /\ Matching(c, D, r)} \cup N
    BY DEF Bus!ToUpdate, Matching
  <1>7. /\ c = "profile-completion" => t.partial = Bus!HandleProfile(w, s.partial, kind, OwnersOf(U))
        /\ c # "profile-completion" => t.partial = s.partial
    BY PartialIs
  <1>8. \A r \in N : \A q \in s.rows : ~(q.ch = c /\ q.spec = r.spec)
    <2>1. /\ \A i \in DOMAIN D : D[i] \in BusEvent
          /\ \A i, j \in DOMAIN D : Bus!Specifier(c, D[i]) = Bus!Specifier(c, D[j]) => i = j
      BY MergedOnce
    <2> HIDE DEF D
    <2> QED
      BY <2>1, CreatedAre
  <1> HIDE DEF E, D, U, N, t, f
  <1>9. t.rows = (s.rows \ U) \cup {f(r) : r \in U}
    BY <1>1 DEF f, Becomes
  <1>10. /\ Bus!Created(w, s.rows, ch, E) = {}
         /\ \A r \in s.rows :
              r.ch = ch /\ ~r.done /\ Matching(ch, E, r) =>
                /\ Bus!Updated(w, s.partial, r) = r
                /\ ch = "profile-completion" => Read(w, type, s.partial.profile[r.user], r.user)
    BY DEF Settled, E
  <1>11. ASSUME NEW r \in s.rows
         PROVE  r \in t.rows \/ \E q \in t.rows : q.ch = r.ch /\ q.spec = r.spec /\ r.ch = c
    <2>1. CASE r \in U
      <3>1. f(r) \in t.rows
        BY <1>9, <2>1
      <3> QED
        BY <1>4, <1>5, <2>1, <3>1
    <2>2. CASE r \notin U
      BY <1>9, <2>2
    <2> QED
      BY <2>1, <2>2
  <1>12. Bus!Created(w, t.rows, ch, E) = {}
    <2>1. ASSUME NEW r \in s.rows, r.ch = ch
          PROVE  (\E q \in t.rows : q.ch = ch /\ q.spec = r.spec) /\ (ch \in Bus!Aggregates => r \in t.rows)
      <3>1. ch = c => ch \notin Bus!Aggregates
        BY DEF Bus!Aggregates
      <3> QED
        BY <1>11, <2>1, <3>1
    <2>2. Capped(s.rows) /\ Capped(t.rows)
      BY <1>3 DEF RowsOK
    <2>3. \A r \in Bus!Created(w, s.rows, ch, E) :
            \E q \in t.rows : q.ch = ch /\ q.spec = r.spec /\ q.user = r.user
      BY <1>10
    <2> QED
      BY <1>2, <2>1, <2>2, <2>3, CreatedOnce
  <1>13. ASSUME NEW r \in t.rows, r.ch = ch, ~r.done, Matching(ch, E, r)
         PROVE  /\ Bus!Updated(w, t.partial, r) = r
                /\ ch = "profile-completion" => Read(w, type, t.partial.profile[r.user], r.user)
    <2>1. CASE c # ch
      <3>1. r \in s.rows
        BY <1>4, <1>5, <1>9, <1>13, <2>1
      <3>2. ch = "profile-completion" => t.partial = s.partial
        BY <1>7, <2>1
      <3>3. Bus!Updated(w, t.partial, r) = Bus!Updated(w, s.partial, r)
        BY <1>13, <3>2, UpdatedApart
      <3> QED
        BY <1>10, <1>13, <3>1, <3>2, <3>3
    <2>2. CASE c = ch
      <3>1. ch = "profile-completion" /\ kind # type /\ kind \in {"bio", "repost"}
        BY <2>2
      <3>2. ASSUME NEW u \in Users PROVE Noted(w, s.partial, t.partial, kind, OwnersOf(U), u)
        <4>1. Counted(s.partial)
          BY DEF RowsOK
        <4> QED
          BY <1>7, <2>2, <3>1, <4>1, ProfileAt
      <3>3. CASE r \in s.rows \ U
        <4>1. Progress(r)
          BY <3>3 DEF RowsOK
        <4>2. r.user \notin OwnersOf(U)
          <5>1. ASSUME NEW q \in U, q.user = r.user PROVE FALSE
            <6>1. q.ch = r.ch /\ q.spec = r.spec
              BY <1>4, <1>13, <2>2, <3>1, <4>1, <5>1 DEF Progress
            <6>2. q \in s.rows \/ q \in N
              BY <1>6
            <6>3. q \notin N
              BY <1>8, <1>13, <2>2, <3>3, <6>1
            <6> QED
              BY <3>3, <6>1, <6>2, <6>3 DEF RowsOK, OneEach
          <5> QED
            BY <5>1 DEF OwnersOf
        <4>3. t.partial.profile[r.user] = s.partial.profile[r.user]
          BY <3>2, <4>1, <4>2 DEF Noted, Progress
        <4>4. Bus!Updated(w, t.partial, r) = Bus!Updated(w, s.partial, r)
          BY <1>13, <4>3, UpdatedApart
        <4> QED
          BY <1>10, <1>13, <3>3, <4>3, <4>4
      <3>4. ASSUME NEW q \in U, r = f(q)
            PROVE  /\ Bus!Updated(w, t.partial, r) = r
                   /\ Read(w, type, t.partial.profile[r.user], r.user)
        <4>1. Progress(q) /\ Matching(c, D, q) /\ r.user = q.user /\ r.spec = q.spec /\ q.ch = ch
          BY <1>4, <1>5, <2>2, <3>4
        <4>2. r = Bus!Updated(w, t.partial, q)
          BY <1>1, <1>13, <3>4, <4>1, MarkedUndone DEF f, Becomes
        <4>3. Bus!Updated(w, t.partial, r) = r
          BY <1>1, <4>1, <4>2, UpdatedTwice DEF Becomes
        <4>4. q \in s.rows
          <5>1. PICK i \in DOMAIN E : Bus!Specifier(ch, E[i]) = r.spec
            BY <1>13 DEF Matching
          <5>2. ASSUME i \in Fresh(s.rows, ch, E) PROVE FALSE
            <6>1. ch \notin Bus!Aggregates
              BY <3>1 DEF Bus!Aggregates
            <6>2. Bus!NewRow(ch, E[i]) \in Bus!Created(w, s.rows, ch, E)
              BY <5>2, <6>1, CreatedIs
            <6> QED
              BY <1>10, <6>2
          <5>3. \E x \in s.rows : x.ch = ch /\ x.spec = r.spec
            BY <5>1, <5>2, FreshIs
          <5>4. q \notin N
            BY <1>8, <2>2, <4>1, <5>3
          <5> QED
            BY <1>6, <5>4
        <4>5. Read(w, type, s.partial.profile[r.user], r.user)
          <5>1. ~q.done /\ Matching(ch, E, q)
            BY <1>4, <1>13, <4>1, <4>4 DEF Matching
          <5> QED
            BY <1>10, <3>1, <4>1, <4>4, <5>1
        <4>6. Noted(w, s.partial, t.partial, kind, OwnersOf(U), r.user) /\ r.user \in OwnersOf(U)
          BY <3>2, <4>1 DEF Progress, OwnersOf
        <4>7. Read(w, type, t.partial.profile[r.user], r.user)
          BY <3>1, <4>5, <4>6 DEF Noted, Read
        <4> QED
          BY <4>3, <4>7
      <3> QED
        BY <1>9, <3>3, <3>4
    <2> QED
      BY <2>1, <2>2
  <1> QED
    BY <1>12, <1>13 DEF Settled, E, t

\* Who hears of events of a type.
Handlers(type) ==
  LET L == Bus!Listeners(type) IN IF Len(L) = 1 THEN {L[1]} ELSE {L[1], L[2]}
BusTypes == {"upload", "listen", "signup", "install", "trending", "bio", "repost"}
Others == BusTypes \ {"listen"}
LEMMA HandlersAre ==
  /\ Handlers("upload") = {"track-upload"} /\ Handlers("install") = {"mobile-install"}
  /\ Handlers("signup") = {"referrals", "ref-v"} /\ Handlers("trending") = {"tt"}
  /\ Handlers("bio") = {"profile-completion"} /\ Handlers("repost") = {"profile-completion"}
  /\ \A type \in Others : LET L == Bus!Listeners(type) IN Len(L) # 1 => L[1] # L[2]
  <1>1. /\ Bus!Listeners("upload") = <<"track-upload">> /\ Bus!Listeners("install") = <<"mobile-install">>
        /\ Bus!Listeners("signup") = <<"referrals", "ref-v">> /\ Bus!Listeners("trending") = <<"tt">>
        /\ Bus!Listeners("bio") = <<"profile-completion">>
        /\ Bus!Listeners("repost") = <<"profile-completion">>
    BY DEF Bus!Listeners
  <1>2. \A x : Len(<<x>>) = 1 /\ <<x>>[1] = x
    OBVIOUS
  <1>3. \A x, y : Len(<<x, y>>) = 2 /\ <<x, y>>[1] = x /\ <<x, y>>[2] = y
    OBVIOUS
  <1> QED
    BY <1>1, <1>2, <1>3 DEF Handlers, Others, BusTypes
LEMMA HandlersApart ==
  ASSUME NEW type \in Others, NEW ch \in Handlers(type)
  PROVE  /\ ch # "listen-streak"
         /\ ch = "profile-completion" => type \in {"bio", "repost"}
         /\ \A kind \in Others \ {type} : ch \in Handlers(kind) => ch = "profile-completion"
  BY HandlersAre DEF Others, BusTypes

AllSettled(w, s, type, B) == \A ch \in Handlers(type) : Settled(w, s, ch, type, B)
LEMMA TypeSettles ==
  ASSUME Referring, NEW w, Uploaded(w), NEW s, RowsOK(s), NEW type \in Others,
         NEW B \in Seq(BusEvent), NEW o
  PROVE  LET t == Bus!ProcessType(w, s, type, B, o)
         IN  /\ RowsOK(t) /\ AllSettled(w, t, type, B)
             /\ \A kind \in Others \ {type} : AllSettled(w, s, kind, B) => AllSettled(w, t, kind, B)
  <1> DEFINE a == Bus!Listeners(type)[1]
             b == Bus!Listeners(type)[2]
             one == Bus!Process(w, s, a, type, B, o)
             two == Bus!Process(w, one, b, type, B, o)
             t == Bus!ProcessType(w, s, type, B, o)
  <1>1. /\ Len(Bus!Listeners(type)) = 1 => t = one /\ Handlers(type) = {a}
        /\ Len(Bus!Listeners(type)) # 1 => t = two /\ Handlers(type) = {a, b} /\ a # b
    BY HandlersAre, Zenon DEF Bus!ProcessType, Handlers
  <1> HIDE DEF a, b
  <1>2. \A ch \in Handlers(type) :
          /\ ch # "listen-streak" /\ (ch = "profile-completion" => type \in {"bio", "repost"})
          /\ \A kind \in Others \ {type} : ch \in Handlers(kind) => ch = "profile-completion"
    BY HandlersApart
  <1>3. a \in Handlers(type)
    BY <1>1
  <1>4. RowsOK(one)
    BY ProcessKeepsRows DEF Follows
  <1>5. Settled(w, one, a, type, B)
    BY <1>2, <1>3, ProcessSettles
  <1>6. ASSUME NEW kind \in Others \ {type}, AllSettled(w, s, kind, B) PROVE AllSettled(w, one, kind, B)
    <2> SUFFICES ASSUME NEW ch \in Handlers(kind) PROVE Settled(w, one, ch, kind, B)
      BY DEF AllSettled
    <2>1. ch # "listen-streak" /\ Settled(w, s, ch, kind, B)
      BY <1>6, HandlersApart DEF AllSettled
    <2>2. a = ch => ch = "profile-completion" /\ type # kind
      BY <1>2, <1>3
    <2>3. a # "listen-streak" /\ (a = "profile-completion" => type \in {"bio", "repost"})
      BY <1>2, <1>3
    <2> QED
      BY <2>1, <2>2, <2>3, SettledStays
  <1> HIDE DEF one
  <1>7. CASE Len(Bus!Listeners(type)) = 1
    <2>1. t = one /\ AllSettled(w, one, type, B)
      BY <1>1, <1>5, <1>7 DEF AllSettled
    <2> QED
      BY <1>4, <1>6, <2>1
  <1>8. CASE Len(Bus!Listeners(type)) # 1
    <2>1. t = two /\ Handlers(type) = {a, b} /\ a # b
      BY <1>1, <1>8
    <2>2. b # "listen-streak" /\ (b = "profile-completion" => type \in {"bio", "repost"})
          /\ a # "listen-streak"
      BY <1>2, <2>1
    <2>3. RowsOK(two)
      BY <1>4, ProcessKeepsRows DEF Follows
    <2>4. Settled(w, two, b, type, B)
      BY <1>4, <2>2, ProcessSettles
    <2>5. Settled(w, two, a, type, B)
      BY <1>4, <1>5, <2>1, <2>2, SettledStays
    <2>6. ASSUME NEW kind \in Others \ {type}, AllSettled(w, one, kind, B) PROVE AllSettled(w, two, kind, B)
      <3> SUFFICES ASSUME NEW ch \in Handlers(kind) PROVE Settled(w, two, ch, kind, B)
        BY DEF AllSettled
      <3>1. ch # "listen-streak" /\ Settled(w, one, ch, kind, B)
        BY <2>6, HandlersApart DEF AllSettled
      <3>2. b = ch => ch = "profile-completion" /\ type # kind
        BY <1>2, <2>1
      <3> QED
        BY <1>4, <2>2, <3>1, <3>2, SettledStays
    <2>7. AllSettled(w, two, type, B)
      BY <2>1, <2>4, <2>5 DEF AllSettled
    <2> HIDE DEF two
    <2> QED
      BY <1>6, <2>1, <2>3, <2>6, <2>7
  <1> QED
    BY <1>7, <1>8

LEMMA TypeIsLast ==
  ASSUME Referring, NEW w, NEW s, RowsOK(s), NEW type \in Others, NEW B, NEW o,
         AllSettled(w, s, type, B)
  PROVE  Bus!ProcessType(w, s, type, B, o) = s
  <1> DEFINE a == Bus!Listeners(type)[1]
             b == Bus!Listeners(type)[2]
  <1>1. /\ Len(Bus!Listeners(type)) = 1 =>
             /\ Bus!ProcessType(w, s, type, B, o) = Bus!Process(w, s, a, type, B, o)
             /\ Handlers(type) = {a}
        /\ Len(Bus!Listeners(type)) # 1 =>
             /\ Bus!ProcessType(w, s, type, B, o) =
                  Bus!Process(w, Bus!Process(w, s, a, type, B, o), b, type, B, o)
             /\ Handlers(type) = {a, b}
    BY Zenon DEF Bus!ProcessType, Handlers
  <1> HIDE DEF a, b
  <1>2. \A ch \in Handlers(type) : Bus!Process(w, s, ch, type, B, o) = s
    BY HandlersApart, SettledIsLast DEF AllSettled
  <1> QED
    BY <1>1, <1>2

(* A batch that is processed again changes nothing.                        *)
LEMMA BatchIsLast ==
  ASSUME Referring, NEW w, Uploaded(w), NEW s, RowsOK(s), NEW B \in Seq(BusEvent),
         \A i \in DOMAIN B : B[i].type # "listen", NEW o
  PROVE  LET t == Bus!ProcessAll(w, s, B, o) IN Bus!ProcessAll(w, t, B, o) = t
  <1> DEFINE f == Bus!ProcessedTo(w, s, B, o)
             t == Bus!ProcessAll(w, s, B, o)
             g == Bus!ProcessedTo(w, t, B, o)
             S == {n \in 0..Len(B) :
                     RowsOK(f[n]) /\ \A m \in 1..n : AllSettled(w, f[n], B[m].type, B)}
             T == {n \in 0..Len(B) : g[n] = t}
  <1>1. Len(B) \in Nat /\ \A n \in 1..Len(B) : B[n].type \in Others
    <2>1. DOMAIN B = 1..Len(B) /\ Len(B) \in Nat /\ \A n \in 1..Len(B) : B[n] \in BusEvent
      OBVIOUS
    <2>2. \A e \in BusEvent : e.type \in BusTypes
      BY DEF BusEvent, BusTypes
    <2> QED
      BY <2>1, <2>2 DEF Others
  <1>2. f[0] = s /\ \A n \in 1..Len(B) : f[n] = NextType(w, B, o, n, f[n - 1])
    BY <1>1, ProcessedIs
  <1>3. t = f[Len(B)] /\ Bus!ProcessAll(w, t, B, o) = g[Len(B)]
    BY DEF Bus!ProcessAll
  <1> HIDE DEF f, t
  <1>4. g[0] = t /\ \A n \in 1..Len(B) : g[n] = NextType(w, B, o, n, g[n - 1])
    BY <1>1, ProcessedIs
  <1> HIDE DEF g
  <1>5. 0 \in S
    BY <1>1, <1>2
  <1>6. ASSUME NEW n \in 1..Len(B), n - 1 \in S PROVE n \in S
    <2> DEFINE x == f[n - 1]
    <2>1. f[n] = NextType(w, B, o, n, x) /\ RowsOK(x) /\ n \in 0..Len(B)
          /\ \A m \in 1..(n - 1) : AllSettled(w, x, B[m].type, B)
      BY <1>1, <1>2, <1>6
    <2>2. CASE \A i \in 1..(n - 1) : B[i].type # B[n].type
      <3>1. f[n] = Bus!ProcessType(w, x, B[n].type, B, o)
        BY <2>1, <2>2 DEF NextType
      <3>2. /\ RowsOK(f[n]) /\ AllSettled(w, f[n], B[n].type, B)
            /\ \A kind \in Others \ {B[n].type} : AllSettled(w, x, kind, B) => AllSettled(w, f[n], kind, B)
        <4> HIDE DEF x
        <4> QED
          BY <1>1, <2>1, <3>1, TypeSettles
      <3>3. ASSUME NEW m \in 1..n PROVE AllSettled(w, f[n], B[m].type, B)
        <4>1. CASE m = n
          BY <3>2, <4>1
        <4>2. CASE m # n
          <5>1. m \in 1..(n - 1) /\ m \in 1..Len(B)
            BY <1>1, <4>2
          <5> QED
            BY <1>1, <2>1, <2>2, <3>2, <5>1
        <4> QED
          BY <4>1, <4>2
      <3> QED
        BY <2>1, <3>2, <3>3
    <2>3. CASE ~ \A i \in 1..(n - 1) : B[i].type # B[n].type
      <3>1. f[n] = x
        BY <2>1, <2>3 DEF NextType
      <3>2. PICK i \in 1..(n - 1) : B[i].type = B[n].type
        BY <2>3
      <3>3. ASSUME NEW m \in 1..n PROVE AllSettled(w, x, B[m].type, B)
        <4>1. m = n \/ m \in 1..(n - 1)
          OBVIOUS
        <4> QED
          BY <2>1, <3>2, <4>1
      <3> QED
        BY <2>1, <3>1, <3>3
    <2> QED
      BY <2>2, <2>3
  <1>7. Len(B) \in S
    <2> HIDE DEF S
    <2> QED
      BY <1>1, <1>5, <1>6, UpTo
  <1>8. RowsOK(t) /\ \A m \in 1..Len(B) : AllSettled(w, t, B[m].type, B)
    BY <1>3, <1>7
  <1>9. 0 \in T
    BY <1>1, <1>4
  <1>10. ASSUME NEW n \in 1..Len(B), n - 1 \in T PROVE n \in T
    <2>1. g[n] = NextType(w, B, o, n, t)
      BY <1>4, <1>10
    <2>2. Bus!ProcessType(w, t, B[n].type, B, o) = t
      BY <1>1, <1>8, TypeIsLast
    <2> QED
      BY <2>1, <2>2 DEF NextType
  <1>11. Len(B) \in T
    <2> HIDE DEF T
    <2> QED
      BY <1>1, <1>9, <1>10, UpTo
  <1> QED
    BY <1>3, <1>11 DEF t

\* The queue holds events of the kinds that the owners cause.
Heard == {e \in BusEvent : e.type \in acts}
LEMMA HeardKept ==
  ASSUME Referring
  PROVE  Bus!Spec => [](BusInv /\ queue \in Seq(Heard))
  <1>1. Bus!Init => BusInv /\ queue \in Seq(Heard)
    BY BusStarts DEF Bus!Init
  <1>2. BusInv /\ queue \in Seq(Heard) /\ BusInv' /\ [Bus!Next]_Bus!vars => (queue \in Seq(Heard))'
    <2> SUFFICES ASSUME BusInv, queue \in Seq(Heard), [Bus!Next]_Bus!vars PROVE queue' \in Seq(Heard')
      OBVIOUS
    <2>1. acts' = acts
      BY DEF Bus!Next, Bus!vars, Bus!IndexBlock, Bus!FailBlock, Bus!Undo, Bus!NextDay,
         Bus!ProcessEvents, Bus!LoseEvents, Bus!IndexDisbursement
    <2>2. Heard' = Heard
      BY <2>1 DEF Heard
    <2>3. CASE queue' = queue
      BY <2>2, <2>3
    <2>4. ASSUME NEW e \in Bus!Deeds, queue' = Append(queue, [e EXCEPT !.block = env.height + 1])
          PROVE  queue' \in Seq(Heard)
      <3> DEFINE n == [e EXCEPT !.block = env.height + 1]
      <3>1. env.height + 1 \in Nat
        BY DEF BusInv
      <3>2. n \in Heard
        BY <3>1, DeedsAre DEF Heard
      <3> HIDE DEF n
      <3>3. Append(queue, n) \in Seq(Heard)
        BY <3>2
      <3> QED
        BY <2>4, <3>3 DEF n
    <2>5. CASE queue' = SubSeq(queue, Len(Bus!Dequeued) + 1, Len(queue))
      BY <2>2, <2>5, BusRest
    <2> QED
      BY <2>2, <2>3, <2>4, <2>5 DEF Bus!Next, Bus!vars, Bus!IndexBlock, Bus!FailBlock, Bus!Undo, Bus!NextDay,
         Bus!ProcessEvents, Bus!LoseEvents, Bus!IndexDisbursement
  <1> QED
    BY <1>1, <1>2, BusKept, PTL DEF Bus!Spec

(* RetriesHarmless: whatever events have been queued, several times for    *)
(* blocks that were tried again, processing them once more changes no row  *)
(* and no partial progress.                                                *)
THEOREM RetriesAreHarmless ==
  ASSUME Referring
  PROVE  Bus!Spec => []Bus!RetriesHarmless
  <1>1. BusInv /\ queue \in Seq(Heard) => Bus!RetriesHarmless
    <2> SUFFICES ASSUME BusInv, queue \in Seq(Heard), "listen" \notin acts,
                        NEW o
                 PROVE  LET s == Bus!ProcessAll(world, [rows |-> rows, partial |-> partial], queue, o)
                        IN  Bus!ProcessAll(world, s, queue, o) = s
      BY DEF Bus!RetriesHarmless
    <2>1. /\ queue \in Seq(BusEvent) /\ Uploaded(world) /\ RowsOK([rows |-> rows, partial |-> partial])
      BY DEF BusInv
    <2>2. \A i \in DOMAIN queue : queue[i].type # "listen"
      BY DEF Heard
    <2> QED
      BY <2>1, <2>2, BatchIsLast
  <1> QED
    BY <1>1, HeardKept, PTL
=============================================================================
