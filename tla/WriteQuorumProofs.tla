-------------------------- MODULE WriteQuorumProofs --------------------------
(***************************************************************************)
(* What a confirmed write quorum is worth: while the primary stays the     *)
(* same, a secondary that reports the clock the handler read has the       *)
(* handler's entry, although only clocks are compared and secondaries come *)
(* and go.  The types hold for any replica sets, and with a lasting one    *)
(* WriteQuorum implements ContentSync.                                     *)
(***************************************************************************)
EXTENDS WriteQuorum, ContentSyncProofs

SessionTypes ==
    /\ sessions \in [Node -> SUBSET SUBSET Node]
    /\ \A n \in Node : \A S \in sessions[n] : Primary \notin S

\* No request finds a duplicate: keys are not recorded as they are looked up.
NoDuplicateFound == \A n, s \in Node : ~IsDuplicate(n, s)

\* A handler polls other nodes than the primary, for a clock that covers the
\* record of its entry.
HandlerSound(e) ==
    LET h == replication[e] IN
    h.outcome # "none" =>
        /\ h \in Handler \ {NotWritten}
        /\ Primary \notin h.unasked \cup h.polled
        /\ writtenAt[e] = Primary
        /\ e \in Entries(db[Primary].records)
        /\ h.outcome = "pending" =>
             \E r \in db[Primary].records :
                 r.entry = e /\ r.clock <= h.clock

HandlersSound ==
    /\ replication \in [Entry -> Handler]
    /\ \A e \in Entry : HandlerSound(e)

QInv ==
    /\ IInv
    /\ RInv
    /\ SessionTypes
    /\ NoDuplicateFound
    /\ HandlersSound

-----------------------------------------------------------------------------
\* The primary's records, and who wrote an entry, are never taken back.
LEMMA PrimaryKeeps ==
    ASSUME StablePrimary, IInv, RInv, [Next]_vars
    PROVE  /\ UNCHANGED Primary
           /\ db[Primary].records \subseteq db'[Primary].records
           /\ \A e \in Entry :
                 writtenAt[e] # Nobody => writtenAt'[e] = writtenAt[e]
  <1> DEFINE Kept == /\ UNCHANGED Primary
                     /\ db[Primary].records \subseteq db'[Primary].records
                     /\ \A e \in Entry : writtenAt[e] # Nobody =>
                           writtenAt'[e] = writtenAt[e]
  <1>1. Primary \in Node /\ db \in [Node -> User]
    BY PrimaryIsNode DEF IInv, TypeOK
  <1>2. CASE UNCHANGED <<replicaSet, db, writtenAt>>
    BY <1>2 DEF Primary
  <1>3. ASSUME NEW n \in Node, CreateUser(n) PROVE Kept
    BY <1>1, <1>3 DEF CreateUser, Primary, NoUser, FreshUser
  <1>4. ASSUME NEW n \in Node, NEW e \in Entry, CommitWrite(n, e) PROVE Kept
    BY <1>1, <1>4 DEF CommitWrite, Append1, Primary, IInv, TypeOK
  <1>5. ASSUME NEW j \in SyncJob, SyncWipe(j) \/ SyncImport(j) PROVE Kept
    <2>1. sync[j].pc \in {"wiping", "importing"}
      BY <1>5 DEF SyncWipe, SyncImport, SyncAt
    <2>2. sync[j].node # Primary
      BY <2>1 DEF RInv, SyncRoles
    <2> QED
      BY <1>1, <1>5, <2>2 DEF SyncWipe, SyncImport, Primary
  <1>6. ASSUME NEW m \in MergeJob, MergeSave(m) PROVE Kept
    <2> DEFINE n == merge[m].node
    <2>1. MergeBase(db[n]).records = db[n].records
      BY DEF MergeBase, NoUser, FreshUser
    <2>2. n = Primary
      BY <1>6 DEF MergeSave, MergeAt, RInv, MergeRoles
    <2>3. PICK f : db' = [db EXCEPT ![n] = Merge(MergeBase(db[n]), f)]
      BY <1>6 DEF MergeSave
    <2>4. db[n].records \subseteq db'[n].records
      BY <1>1, <2>1, <2>2, <2>3 DEF Merge
    <2> QED
      BY <1>6, <2>2, <2>4 DEF MergeSave, Primary
  <1>7. ASSUME NEW rs \in ReplicaSet, UpdateReplicaSet(rs) PROVE Kept
    BY <1>7 DEF UpdateReplicaSet, StablePrimary, Primary, IInv, TypeOK
  <1>8. ASSUME NEW j \in SyncJob, SyncStep(j) PROVE Kept
    BY <1>2, <1>5, <1>8
       DEF SyncStep, SyncStart, SyncProgress, SyncCheckDefault,
           SyncCheckForced, SyncCheckHistory, SyncFetchExport, SyncAbort,
           SyncRelease, SyncFail
  <1>9. ASSUME NEW m \in MergeJob, MergeStep(m) PROVE Kept
    BY <1>2, <1>6, <1>9
       DEF MergeStep, MergeStart, MergeProgress, MergeCheck,
           MergeFetchExport, MergeFilter, MergeAbort, MergeRelease,
           MergeRequest, MergeFail
  <1>10. CASE Environment
    BY <1>2, <1>7, <1>10
       DEF Environment, IssueSync, LoseRequest, LockExpires, CrashRestart
  <1>11. ASSUME NEW n \in Node, ClientStep(n) PROVE Kept
    BY <1>2, <1>3, <1>4, <1>11 DEF ClientStep, AuthorizeWrite, EndWrites
  <1>12. CASE UNCHANGED vars
    BY <1>2, <1>12 DEF vars
  <1> QED
    BY <1>8, <1>9, <1>10, <1>11, <1>12 DEF Next

\* Every step is one of ContentSync's, leaves its state alone, or posts a
\* request of the manual queue.
LEMMA StepsOfContentSync ==
    ASSUME [QuorumNext]_allVars
    PROVE  \/ [Next]_vars
           \/ \E n, s \in Node : RunManualSync(n, s)
  <1>1. ASSUME NEW n \in Node, Authorize(n) \/ Crash(n) PROVE Next
    BY <1>1 DEF Authorize, Crash, Next, ClientStep, Environment
  <1>2. ASSUME NEW n \in Node, NEW e \in Entry, Commit(n, e) PROVE Next
    BY <1>2 DEF Commit, Next, ClientStep
  <1>3. ASSUME NEW n \in Node, AuthorizeAgain(n) PROVE UNCHANGED vars
    BY <1>3 DEF AuthorizeAgain
  <1>4. ASSUME NEW e \in Entry, HandlerStep(e) PROVE UNCHANGED vars
    BY <1>4 DEF HandlerStep, ReadClock, AskSecondary, PollConfirms,
                PollTimesOut
  <1>5. CASE OtherStep
    BY <1>5 DEF OtherStep, Next, ClientStep, Environment
  <1>6. CASE UNCHANGED allVars
    BY <1>6 DEF allVars
  <1> QED
    BY <1>1, <1>2, <1>3, <1>4, <1>5, <1>6 DEF QuorumNext

\* A posted request does not matter to what nodes and jobs have.
LEMMA RequestsKeepInvariants ==
    ASSUME IInv, RInv, NEW n \in Node, NEW s \in Node, RunManualSync(n, s)
    PROVE  IInv' /\ RInv'
  <1>1. requests' \in SUBSET Request
    BY DEF RunManualSync, ManualRequest, Request, Mode, IInv, TypeOK
  <1>2. UNCHANGED <<replicaSet, everPrimary, db, writeLock, writing,
                    writtenAt, sync, merge, updates, faults>>
    BY DEF RunManualSync
  <1>3. IInv'
    BY <1>1, <1>2 DEF IInv, TypeOK, DbSound, SyncSound, MergeSound
  <1>4. RInv'
    BY <1>2 DEF RInv, SyncRoles, MergeRoles, WriteRoles, NodesCopy,
                PagesCopy, ClockCovers, Primary
  <1> QED
    BY <1>3, <1>4

LEMMA QuorumKeepsContentSync ==
    ASSUME StablePrimary, IInv, RInv, [QuorumNext]_allVars
    PROVE  /\ IInv' /\ RInv'
           /\ UNCHANGED Primary
           /\ db[Primary].records \subseteq db'[Primary].records
           /\ \A e \in Entry :
                 writtenAt[e] # Nobody => writtenAt'[e] = writtenAt[e]
  <1>1. CASE [Next]_vars
    BY <1>1, NextKeepsSound, NextReplicates, PrimaryKeeps
  <1>2. ASSUME NEW n \in Node, NEW s \in Node, RunManualSync(n, s)
        PROVE  /\ IInv' /\ RInv'
               /\ UNCHANGED <<replicaSet, db, writtenAt>>
    BY <1>2, RequestsKeepInvariants DEF RunManualSync
  <1> QED
    BY <1>1, <1>2, StepsOfContentSync DEF Primary

-----------------------------------------------------------------------------
LEMMA QuorumInitSound == QuorumInit => QInv
  <1> SUFFICES ASSUME QuorumInit PROVE QInv
    OBVIOUS
  <1>1. IInv /\ RInv
    BY InitSound, InitReplicates DEF QuorumInit
  <1>2. SessionTypes /\ NoDuplicateFound
    BY DEF QuorumInit, SessionTypes, NoDuplicateFound, IsDuplicate
  <1>3. HandlersSound
    BY DEF QuorumInit, HandlersSound, HandlerSound, Handler, NotWritten
  <1> QED
    BY <1>1, <1>2, <1>3 DEF QInv

LEMMA SessionsSound ==
    ASSUME StablePrimary, QInv, [QuorumNext]_allVars
    PROVE  SessionTypes'
  <1>1. UNCHANGED Primary
    BY QuorumKeepsContentSync DEF QInv
  <1>2. /\ replicaSet.secondaries \in SUBSET Node
        /\ Primary \notin replicaSet.secondaries
    BY ContentSyncAssumption DEF QInv, IInv, TypeOK, Primary
  <1>3. CASE UNCHANGED sessions
    BY <1>1, <1>3 DEF QInv, SessionTypes
  \* One node's sessions change.
  <1>4. ASSUME NEW n \in Node, NEW T \in SUBSET SUBSET Node,
               \A S \in T : Primary \notin S,
               sessions' = [sessions EXCEPT ![n] = T]
        PROVE  SessionTypes'
    <2>1. sessions' \in [Node -> SUBSET SUBSET Node]
      BY <1>4 DEF QInv, SessionTypes
    <2>2. \A k \in Node : sessions'[k] = IF k = n THEN T ELSE sessions[k]
      BY <1>4 DEF QInv, SessionTypes
    <2>3. \A k \in Node : \A S \in sessions'[k] : Primary \notin S
      BY <1>4, <2>2 DEF QInv, SessionTypes
    <2> QED
      BY <1>1, <2>1, <2>3 DEF SessionTypes
  <1>5. ASSUME NEW n \in Node, Authorize(n) \/ AuthorizeAgain(n) \/ Crash(n)
        PROVE  SessionTypes'
    <2> DEFINE S == replicaSet.secondaries
    <2>1. sessions[n] \in SUBSET SUBSET Node
      BY DEF QInv, SessionTypes
    <2>2. /\ {S} \in SUBSET SUBSET Node
          /\ sessions[n] \cup {S} \in SUBSET SUBSET Node
          /\ \A T \in sessions[n] \cup {S} : Primary \notin T
      BY <1>2, <2>1 DEF QInv, SessionTypes
    <2>3. CASE Authorize(n) \/ AuthorizeAgain(n)
      <3>1. PICK T \in {{S}, sessions[n] \cup {S}} : sessions' = [sessions EXCEPT ![n] = T]
        BY <2>3 DEF Authorize, AuthorizeAgain
      <3>2. T \in SUBSET SUBSET Node /\ \A R \in T : Primary \notin R
        BY <2>2
      <3> QED
        BY <1>4, <3>1, <3>2
    <2>5. CASE Crash(n)
      BY <1>4, <2>5 DEF Crash
    <2> QED
      BY <1>5, <2>3, <2>5
  <1>6. CASE OtherStep
    BY <1>1, <1>6 DEF OtherStep, QInv, SessionTypes
  <1>7. ASSUME NEW n \in Node, NEW e \in Entry, Commit(n, e)
        PROVE  SessionTypes'
    BY <1>3, <1>7 DEF Commit
  <1>8. ASSUME NEW e \in Entry, HandlerStep(e) PROVE SessionTypes'
    BY <1>3, <1>8 DEF HandlerStep, ReadClock, AskSecondary, PollConfirms,
                      PollTimesOut
  <1>9. ASSUME NEW n \in Node, NEW s \in Node, RunManualSync(n, s)
        PROVE  SessionTypes'
    BY <1>3, <1>9 DEF RunManualSync
  <1>10. CASE UNCHANGED allVars
    BY <1>3, <1>10 DEF allVars, quorumVars
  <1> QED
    BY <1>5, <1>6, <1>7, <1>8, <1>9, <1>10 DEF QuorumNext

\* Each key that is looked up is missing; none of them is ever recorded.
LEMMA DuplicatesStayHidden ==
    ASSUME QInv, [QuorumNext]_allVars
    PROVE  NoDuplicateFound'
  <1>1. \A n, s \in Node : KeyFor(n, s, "true") \notin recorded
    BY DEF QInv, NoDuplicateFound, IsDuplicate
  <1>2. SUFFICES ASSUME NEW n \in Node, NEW s \in Node
                 PROVE  KeyFor(n, s, "true") \notin recorded'
    BY DEF NoDuplicateFound, IsDuplicate
  <1>3. CASE recorded' \subseteq recorded
    BY <1>1, <1>3
  <1>4. ASSUME NEW e \in Entry, NEW t \in Node, AskSecondary(e, t)
        PROVE  KeyFor(n, s, "true") \notin recorded'
    <2> DEFINE key == RecordedAs(writtenAt[e], t)
    <2>1. recorded' \subseteq recorded \cup {key}
      BY <1>4 DEF AskSecondary
    <2>2. key # KeyFor(n, s, "true")
      BY DEF RecordedAs, KeyFor
    <2> QED
      BY <1>1, <2>1, <2>2
  <1>5. ASSUME NEW e \in Entry, HandlerStep(e)
        PROVE  KeyFor(n, s, "true") \notin recorded'
    BY <1>3, <1>4, <1>5 DEF HandlerStep, ReadClock, PollConfirms,
                            PollTimesOut
  <1>6. CASE UNCHANGED allVars
    BY <1>3, <1>6 DEF allVars, quorumVars
  <1> QED
    BY <1>3, <1>5, <1>6
       DEF QuorumNext, Authorize, AuthorizeAgain, Commit, RunManualSync,
           Crash, OtherStep

-----------------------------------------------------------------------------
\* A handler that keeps still stays sound as the primary's records grow.
LEMMA StillHandler ==
    ASSUME StablePrimary, QInv, [QuorumNext]_allVars, NEW e \in Entry,
           replication'[e] = replication[e]
    PROVE  HandlerSound(e)'
  <1>1. HandlerSound(e)
    BY DEF QInv, HandlersSound
  <1>2. /\ UNCHANGED Primary
        /\ db[Primary].records \subseteq db'[Primary].records
        /\ writtenAt[e] # Nobody => writtenAt'[e] = writtenAt[e]
    BY QuorumKeepsContentSync DEF QInv
  <1>3. writtenAt[e] = Primary => writtenAt'[e] = Primary
    BY <1>2, PrimaryIsNode, NobodyAssumption DEF QInv, IInv
  <1> QED
    BY <1>1, <1>2, <1>3 DEF HandlerSound, Entries

\* A handler that takes a step while the primary's records stay.
LEMMA SteppingHandler ==
    ASSUME QInv, NEW e \in Entry, NEW g \in Handler \ {NotWritten},
           replication[e].outcome # "none",
           Primary \notin g.unasked \cup g.polled,
           g.outcome = "pending" =>
             \E r \in db[Primary].records : r.entry = e /\ r.clock <= g.clock,
           UNCHANGED vars,
           replication' = [replication EXCEPT ![e] = g]
    PROVE  HandlersSound'
  <1>1. replication \in [Entry -> Handler] /\ \A f \in Entry : HandlerSound(f)
    BY DEF QInv, HandlersSound
  <1>2. UNCHANGED <<Primary, db, writtenAt>>
    BY DEF vars, Primary
  <1>3. HandlerSound(e)'
    BY <1>1, <1>2 DEF HandlerSound
  <1>4. \A f \in Entry \ {e} : HandlerSound(f)'
    BY <1>1, <1>2 DEF HandlerSound
  <1>5. replication' \in [Entry -> Handler]
    BY <1>1
  <1> QED
    BY <1>3, <1>4, <1>5 DEF HandlersSound

LEMMA HandlersStaySound ==
    ASSUME StablePrimary, QInv, [QuorumNext]_allVars
    PROVE  HandlersSound'
  <1>1. /\ replication \in [Entry -> Handler]
        /\ \A e \in Entry : HandlerSound(e)
    BY DEF QInv, HandlersSound
  <1>2. CASE UNCHANGED replication
    BY <1>1, <1>2, StillHandler DEF HandlersSound
  <1>3. ASSUME NEW n \in Node, NEW e \in Entry, Commit(n, e)
        PROVE  HandlersSound'
    <2>1. PICK S \in UNION {SUBSET T : T \in sessions[n]} :
            replication' = [replication EXCEPT ![e] =
              [outcome |-> "committed", clock |-> -1, unasked |-> S,
               polled |-> {}]]
      BY <1>3 DEF Commit
    <2>2. CommitWrite(n, e)
      BY <1>3 DEF Commit
    <2>3. n = Primary /\ UNCHANGED Primary
      BY <2>2, QuorumKeepsContentSync DEF CommitWrite, QInv, RInv, WriteRoles
    <2>4. S \in SUBSET Node /\ Primary \notin S
      BY DEF QInv, SessionTypes
    <2>5. writtenAt'[e] = Primary
      BY <2>2, <2>3 DEF CommitWrite, QInv, IInv, TypeOK
    <2>6. e \in Entries(db'[Primary].records)
      <3> DEFINE r == [clock |-> db[n].clock + 1, entry |-> e]
      <3>1. db'[n] = Append1(db[n], e)
        BY <2>2 DEF CommitWrite, QInv, IInv, TypeOK
      <3>2. r \in db'[Primary].records /\ r.entry = e
        BY <2>3, <3>1 DEF Append1
      <3> QED
        BY <3>2 DEF Entries
    <2>7. replication' \in [Entry -> Handler]
      BY <1>1, <2>1, <2>4 DEF Handler
    <2>8. HandlerSound(e)'
      <3>1. replication'[e] = [outcome |-> "committed", clock |-> -1,
                               unasked |-> S, polled |-> {}]
        BY <1>1, <2>1
      <3> QED
        BY <2>3, <2>4, <2>5, <2>6, <3>1
           DEF HandlerSound, Handler, NotWritten
    <2>9. \A f \in Entry \ {e} : HandlerSound(f)'
      BY <1>1, <2>1, StillHandler
    <2> QED
      BY <2>7, <2>8, <2>9 DEF HandlersSound
  <1>4. ASSUME NEW e \in Entry, ReadClock(e) PROVE HandlersSound'
    <2> DEFINE h == replication[e]
               c == db[writtenAt[e]].clock
    <2>1. /\ h \in Handler \ {NotWritten}
          /\ h.outcome = "committed"
          /\ Primary \notin h.unasked \cup h.polled
          /\ writtenAt[e] = Primary
      BY <1>1, <1>4 DEF ReadClock, At, HandlerSound, NotWritten
    <2>2. PICK r \in db[Primary].records : r.entry = e /\ r.clock <= c
      BY <1>1, <1>4, <2>1
         DEF ReadClock, At, HandlerSound, Entries, QInv, RInv, ClockCovers
    <2>3. CASE c > 0 /\ h.unasked # {}
      <3> DEFINE g == [h EXCEPT !.outcome = "pending", !.clock = c]
      <3>1. replication' = [replication EXCEPT ![e] = g]
        BY <1>4, <2>3 DEF ReadClock
      <3>2. c \in Nat \cup {-1}
        BY <2>1, PrimaryIsNode DEF QInv, IInv, TypeOK, User
      <3>3. /\ g \in Handler \ {NotWritten}
            /\ Primary \notin g.unasked \cup g.polled
            /\ g.clock = c
        BY <2>1, <3>2 DEF Handler, NotWritten
      <3> QED
        BY <1>4, <2>1, <2>2, <3>1, <3>3, SteppingHandler DEF ReadClock
    <2>4. CASE ~(c > 0 /\ h.unasked # {})
      <3>1. replication' = [replication EXCEPT ![e] = Ended(h)]
        BY <1>4, <2>4 DEF ReadClock
      <3>2. /\ Ended(h) \in Handler \ {NotWritten}
            /\ Primary \notin Ended(h).unasked \cup Ended(h).polled
            /\ Ended(h).outcome = "failed"
        BY <2>1 DEF Handler, NotWritten, Ended
      <3> QED
        BY <1>4, <2>1, <3>1, <3>2, SteppingHandler DEF ReadClock
    <2> QED
      BY <2>3, <2>4
  <1>5. ASSUME NEW e \in Entry, NEW s \in Node, AskSecondary(e, s)
        PROVE  HandlersSound'
    <2> DEFINE h == replication[e]
               g == Asked(h, s)
    <2>1. /\ h \in Handler \ {NotWritten}
          /\ h.outcome \in {"pending", "confirmed"}
          /\ s \in h.unasked
          /\ Primary \notin h.unasked \cup h.polled
          /\ writtenAt[e] = Primary
      BY <1>1, <1>5 DEF AskSecondary, HandlerSound
    <2>2. ~IsDuplicate(writtenAt[e], s)
      BY <2>1, PrimaryIsNode DEF QInv, IInv, NoDuplicateFound
    <2>3. replication' = [replication EXCEPT ![e] = g] /\ UNCHANGED vars
      BY <1>5, <2>2 DEF AskSecondary
    <2>4. /\ g \in Handler \ {NotWritten}
          /\ Primary \notin g.unasked \cup g.polled
          /\ g.outcome = h.outcome /\ g.clock = h.clock
      BY <2>1 DEF Handler, NotWritten, Asked
    <2>5. h.outcome = "pending" =>
            \E r \in db[Primary].records : r.entry = e /\ r.clock <= h.clock
      BY <1>1 DEF HandlerSound
    <2> QED
      BY <2>1, <2>3, <2>4, <2>5, SteppingHandler
  <1>6. ASSUME NEW e \in Entry, NEW s \in Node, PollConfirms(e, s)
        PROVE  HandlersSound'
    <2> DEFINE h == replication[e]
               g == Confirmed(h)
    <2>1. /\ h \in Handler \ {NotWritten}
          /\ h.outcome = "pending"
          /\ Primary \notin h.unasked
      BY <1>1, <1>6 DEF PollConfirms, At, HandlerSound
    <2>2. replication' = [replication EXCEPT ![e] = g] /\ UNCHANGED vars
      BY <1>6 DEF PollConfirms
    <2>3. /\ g \in Handler \ {NotWritten}
          /\ Primary \notin g.unasked \cup g.polled
          /\ g.outcome = "confirmed"
      BY <2>1 DEF Handler, NotWritten, Confirmed
    <2> QED
      BY <2>1, <2>2, <2>3, SteppingHandler
  <1>7. ASSUME NEW e \in Entry, NEW s \in Node, PollTimesOut(e, s)
        PROVE  HandlersSound'
    <2> DEFINE h == replication[e]
               g == TimedOut(h, s)
    <2>1. /\ h \in Handler \ {NotWritten}
          /\ h.outcome = "pending"
          /\ Primary \notin h.unasked \cup h.polled
      BY <1>1, <1>7 DEF PollTimesOut, At, HandlerSound
    <2>2. replication' = [replication EXCEPT ![e] = g] /\ UNCHANGED vars
      BY <1>7 DEF PollTimesOut
    <2>3. /\ g \in Handler \ {NotWritten}
          /\ Primary \notin g.unasked \cup g.polled
          /\ g.outcome = "pending" => g.clock = h.clock
      BY <2>1 DEF Handler, NotWritten, TimedOut, Ended
    <2>4. \E r \in db[Primary].records : r.entry = e /\ r.clock <= h.clock
      BY <1>1, <2>1 DEF HandlerSound
    <2> QED
      BY <2>1, <2>2, <2>3, <2>4, SteppingHandler
  <1>8. ASSUME NEW n \in Node, Crash(n) PROVE HandlersSound'
    <2> DEFINE Dropped(h) ==
                 [h EXCEPT
                   !.outcome = IF @ = "confirmed" THEN @ ELSE "failed",
                   !.unasked = {}, !.polled = {}]
    <2>1. UNCHANGED <<replicaSet, db, writtenAt>>
      BY <1>8 DEF Crash, CrashRestart
    <2>2. \A e \in Entry :
            \/ replication'[e] = replication[e]
            \/ /\ replication[e].outcome # "none"
               /\ replication'[e] = Dropped(replication[e])
      BY <1>8 DEF Crash
    <2>3. \A h \in Handler \ {NotWritten} :
            /\ Dropped(h) \in Handler \ {NotWritten}
            /\ Dropped(h).outcome \in {"confirmed", "failed"}
            /\ Dropped(h).unasked = {} /\ Dropped(h).polled = {}
      BY DEF Handler, NotWritten
    <2>4. \A e \in Entry : replication'[e] \in Handler /\ HandlerSound(e)'
      <3> SUFFICES ASSUME NEW e \in Entry
                   PROVE  replication'[e] \in Handler /\ HandlerSound(e)'
        OBVIOUS
      <3>1. CASE replication'[e] = replication[e]
        BY <1>1, <3>1, StillHandler
      <3>2. CASE /\ replication[e].outcome # "none"
                 /\ replication'[e] = Dropped(replication[e])
        <4> DEFINE h == replication[e]
        <4>1. /\ h \in Handler \ {NotWritten}
              /\ writtenAt[e] = Primary
              /\ e \in Entries(db[Primary].records)
          BY <1>1, <3>2 DEF HandlerSound
        <4>2. /\ replication'[e] \in Handler \ {NotWritten}
              /\ replication'[e].outcome # "pending"
              /\ replication'[e].unasked = {}
              /\ replication'[e].polled = {}
          BY <2>3, <3>2, <4>1
        <4> HIDE DEF Dropped
        <4> QED
          BY <2>1, <4>1, <4>2 DEF HandlerSound, Primary
      <3> QED
        BY <2>2, <3>1, <3>2
    <2>5. replication' \in [Entry -> Handler]
      BY <1>8, <2>4 DEF Crash
    <2> QED
      BY <2>4, <2>5 DEF HandlersSound
  <1>9. ASSUME NEW e \in Entry, HandlerStep(e) PROVE HandlersSound'
    BY <1>4, <1>5, <1>6, <1>7, <1>9 DEF HandlerStep
  <1> QED
    BY <1>2, <1>3, <1>8, <1>9
       DEF QuorumNext, Authorize, AuthorizeAgain, RunManualSync, OtherStep,
           allVars, quorumVars

-----------------------------------------------------------------------------
LEMMA QuorumKeepsInvariant ==
    ASSUME StablePrimary, QInv, [QuorumNext]_allVars
    PROVE  QInv'
  BY QuorumKeepsContentSync, SessionsSound, DuplicatesStayHidden,
     HandlersStaySound
     DEF QInv

\* A node that has reached the clock has the records up to it.
LEMMA ReachedMeansCopied ==
    ASSUME IInv, RInv, NEW s \in Node, NEW r \in db[Primary].records,
           r.clock <= db[s].clock
    PROVE  r \in db[s].records
  <1>1. Primary \in Node
    BY PrimaryIsNode DEF IInv
  <1>2. /\ db[s] \in User /\ db[Primary] \in User
        /\ Unique(db[Primary].records)
    BY <1>1 DEF IInv, DbSound, Sound, Numbered
  <1>3. PICK k \in Nat : Numbered(db[s], k)
    BY DEF IInv, DbSound, Sound
  <1>4. r.clock \in 1 .. k
    BY <1>2, <1>3 DEF User, Record, Numbered
  <1>5. PICK q \in db[s].records : q.clock = r.clock
    BY <1>3, <1>4 DEF Numbered, Clocks
  <1>6. q \in db[Primary].records
    BY DEF RInv, NodesCopy
  <1> QED
    BY <1>2, <1>5, <1>6 DEF Unique

\* Only a poll confirms.
LEMMA PollsConfirm ==
    ASSUME QInv, [QuorumNext]_allVars, NEW e \in Entry,
           ~At(e, "confirmed"), At(e, "confirmed")'
    PROVE  \E s \in Node : PollConfirms(e, s)
  <1>1. replication \in [Entry -> Handler]
    BY DEF QInv, HandlersSound
  <1>2. replication'[e] # replication[e]
    BY DEF At
  <1>3. ASSUME NEW n \in Node, NEW f \in Entry, Commit(n, f) PROVE FALSE
    BY <1>1, <1>2, <1>3 DEF Commit, At
  <1>4. ASSUME NEW n \in Node, Crash(n) PROVE FALSE
    BY <1>1, <1>2, <1>4 DEF Crash, At, Handler, NotWritten
  <1>5. ASSUME NEW f \in Entry, ReadClock(f) PROVE FALSE
    BY <1>1, <1>2, <1>5 DEF ReadClock, At, Ended, Handler, NotWritten
  <1>6. ASSUME NEW f \in Entry, NEW s \in Node, AskSecondary(f, s)
        PROVE  FALSE
    <2>1. writtenAt[f] = Primary
      BY <1>6 DEF AskSecondary, QInv, HandlersSound, HandlerSound
    <2>2. ~IsDuplicate(writtenAt[f], s)
      BY <2>1, PrimaryIsNode DEF QInv, IInv, NoDuplicateFound
    <2>3. replication' = [replication EXCEPT ![f] = Asked(replication[f], s)]
      BY <1>6, <2>2 DEF AskSecondary
    <2> QED
      BY <1>1, <1>2, <2>3 DEF At, Asked, Handler, NotWritten
  <1>7. ASSUME NEW f \in Entry, NEW s \in Node, PollTimesOut(f, s)
        PROVE  FALSE
    BY <1>1, <1>2, <1>7
       DEF PollTimesOut, TimedOut, At, Ended, Handler, NotWritten
  <1>8. ASSUME NEW f \in Entry, NEW s \in Node, PollConfirms(f, s)
        PROVE  f = e
    BY <1>1, <1>2, <1>8 DEF PollConfirms
  <1> QED
    BY <1>2, <1>3, <1>4, <1>5, <1>6, <1>7, <1>8
       DEF QuorumNext, HandlerStep, Authorize, AuthorizeAgain,
           RunManualSync, OtherStep, allVars, quorumVars

\* A poll confirms what the secondary has.
LEMMA ConfirmedMeansCopied ==
    ASSUME QInv, NEW e \in Entry, NEW s \in Node, PollConfirms(e, s)
    PROVE  s # writtenAt[e] /\ e \in Entries(db[s].records)
  <1> DEFINE h == replication[e]
  <1>1. /\ h \in Handler \ {NotWritten}
        /\ h.outcome = "pending"
        /\ s \in h.polled
        /\ db[s].clock >= h.clock
    BY DEF PollConfirms, At, HasReached, QInv, HandlersSound, HandlerSound
  <1>2. s # writtenAt[e]
    BY <1>1 DEF QInv, HandlersSound, HandlerSound
  <1>3. PICK r \in db[Primary].records : r.entry = e /\ r.clock <= h.clock
    BY <1>1 DEF QInv, HandlersSound, HandlerSound
  <1>4. /\ db[Primary].records \in SUBSET Record
        /\ db[s].clock \in Nat \cup {-1}
    BY PrimaryIsNode DEF QInv, IInv, TypeOK, User
  <1>5. r.clock <= db[s].clock
    BY <1>1, <1>3, <1>4 DEF Record, Handler, NotWritten
  <1> QED
    BY <1>2, <1>3, <1>5, ReachedMeansCopied DEF QInv, Entries

(***************************************************************************)
(* A handler of issueAndWaitForSecondarySyncRequests that confirms a write *)
(* has it on a secondary, as long as the primary stays the same. Where it  *)
(* may change, MCQuorumFailover shows that this fails.                     *)
(***************************************************************************)
THEOREM QuorumHolds ==
    ASSUME StablePrimary
    PROVE  QuorumSpec => ConfirmsOnlyReplicated
  <1> DEFINE Confirming ==
        \A e \in Entry :
          ~At(e, "confirmed") /\ At(e, "confirmed")' =>
             \E s \in Node \ {writtenAt[e]} :
                e \in Entries(db[s].records)
  <1>1. QInv /\ [QuorumNext]_allVars => QInv'
    BY QuorumKeepsInvariant
  <1>2. QInv /\ [QuorumNext]_allVars => Confirming
    BY PollsConfirm, ConfirmedMeansCopied
  <1>3. QInv /\ [QuorumNext]_allVars => [Confirming]_allVars
    BY <1>2
  <1> QED
    BY <1>1, <1>3, QuorumInitSound, PTL
       DEF QuorumSpec, ConfirmsOnlyReplicated

-----------------------------------------------------------------------------
(***************************************************************************)
(* Types, for any replica sets.  A handler exists for entries that a node  *)
(* wrote only, so that it knows whose queue it uses.                       *)
(***************************************************************************)
QueueTypes ==
    /\ sessions \in [Node -> SUBSET SUBSET Node]
    /\ replication \in [Entry -> Handler]
    /\ manualSyncs \in [Node -> [Node -> 0 .. MaxManualSyncs]]
    /\ recorded \in SUBSET Key

WritersKnown == \A e \in Entry : ~At(e, "none") => writtenAt[e] \in Node

TInv == IInv /\ QueueTypes /\ WritersKnown

LEMMA PostingKeepsSound ==
    ASSUME IInv, NEW n \in Node, NEW s \in Node, RunManualSync(n, s)
    PROVE  IInv'
  <1>1. requests' \in SUBSET Request
    BY DEF RunManualSync, ManualRequest, Request, Mode, IInv, TypeOK
  <1> QED
    BY <1>1 DEF RunManualSync, IInv, TypeOK, DbSound, SyncSound, MergeSound

LEMMA QuorumKeepsSound ==
    ASSUME IInv, [QuorumNext]_allVars
    PROVE  IInv'
  BY StepsOfContentSync, NextKeepsSound, PostingKeepsSound

\* An acknowledged entry keeps its writer.
LEMMA WritersStay ==
    ASSUME IInv, [QuorumNext]_allVars, NEW e \in Entry, writtenAt[e] # Nobody
    PROVE  writtenAt'[e] = writtenAt[e]
  <1>1. ASSUME NEW n \in Node, NEW f \in Entry, CommitWrite(n, f)
        PROVE  writtenAt'[e] = writtenAt[e]
    BY <1>1 DEF CommitWrite, IInv, TypeOK
  <1>2. [Next]_vars => \/ UNCHANGED writtenAt
                      \/ \E n \in Node, f \in Entry : CommitWrite(n, f)
    <2>1. ASSUME NEW n \in Node, ClientStep(n)
          PROVE  UNCHANGED writtenAt \/ \E f \in Entry : CommitWrite(n, f)
      BY <2>1 DEF ClientStep, CreateUser, AuthorizeWrite, EndWrites
    <2>2. ASSUME NEW j \in SyncJob, SyncStep(j) PROVE UNCHANGED writtenAt
      BY <2>2 DEF SyncStep, SyncProgress, SyncStart, SyncCheckDefault, SyncCheckForced,
                  SyncCheckHistory, SyncWipe, SyncFetchExport, SyncImport, SyncAbort,
                  SyncRelease, SyncFail
    <2>3. ASSUME NEW m \in MergeJob, MergeStep(m) PROVE UNCHANGED writtenAt
      BY <2>3 DEF MergeStep, MergeProgress, MergeStart, MergeCheck, MergeFetchExport,
                  MergeFilter, MergeSave, MergeAbort, MergeRelease, MergeRequest, MergeFail
    <2>4. Environment \/ UNCHANGED vars => UNCHANGED writtenAt
      BY DEF Environment, IssueSync, LoseRequest, UpdateReplicaSet, LockExpires, CrashRestart,
             vars
    <2> QED
      BY <2>1, <2>2, <2>3, <2>4 DEF Next
  <1>3. ASSUME NEW n \in Node, NEW s \in Node, RunManualSync(n, s)
        PROVE  UNCHANGED writtenAt
    BY <1>3 DEF RunManualSync
  <1> QED
    BY <1>1, <1>2, <1>3, StepsOfContentSync

\* What a handler becomes is a handler.
LEMMA HandlerTypes ==
    ASSUME NEW h \in Handler \ {NotWritten}, NEW s \in Node, NEW c \in Nat \cup {-1}
    PROVE  /\ Ended(h) \in Handler \ {NotWritten}
           /\ Confirmed(h) \in Handler \ {NotWritten}
           /\ Asked(h, s) \in Handler \ {NotWritten}
           /\ TimedOut(h, s) \in Handler \ {NotWritten}
           /\ [h EXCEPT !.outcome = "pending", !.clock = c] \in Handler \ {NotWritten}
           /\ h.outcome # "none"
  <1>1. h \in [outcome : {"committed", "pending", "confirmed", "failed"},
               clock : Nat \cup {-1}, unasked : SUBSET Node, polled : SUBSET Node]
    BY DEF Handler
  <1>2. Ended(h) \in Handler \ {NotWritten}
    BY <1>1 DEF Handler, NotWritten, Ended
  <1>3. Confirmed(h) \in Handler \ {NotWritten}
    BY <1>1 DEF Handler, NotWritten, Confirmed
  <1>4. Asked(h, s) \in Handler \ {NotWritten}
    BY <1>1 DEF Handler, NotWritten, Asked
  <1>5. TimedOut(h, s) \in Handler \ {NotWritten}
    <2>1. [h EXCEPT !.polled = @ \ {s}] \in Handler \ {NotWritten}
      BY <1>1 DEF Handler, NotWritten
    <2> QED
      BY <1>2, <2>1 DEF TimedOut
  <1>6. [h EXCEPT !.outcome = "pending", !.clock = c] \in Handler \ {NotWritten}
    BY <1>1 DEF Handler, NotWritten
  <1> QED
    BY <1>1, <1>2, <1>3, <1>4, <1>5, <1>6

\* A step of an existing handler.
LEMMA HandlerSteps ==
    ASSUME TInv, NEW e \in Entry, HandlerStep(e)
    PROVE  /\ ~At(e, "none") /\ UNCHANGED vars /\ UNCHANGED sessions
           /\ \E g \in Handler \ {NotWritten} : replication' = [replication EXCEPT ![e] = g]
           /\ manualSyncs' \in [Node -> [Node -> 0 .. MaxManualSyncs]]
           /\ recorded' \in SUBSET Key
  <1> DEFINE h == replication[e]
  <1>1. /\ ~At(e, "none") /\ UNCHANGED vars /\ UNCHANGED sessions
    BY DEF HandlerStep, ReadClock, AskSecondary, PollConfirms, PollTimesOut, At
  <1>2. /\ h \in Handler \ {NotWritten}
        /\ writtenAt[e] \in Node
        /\ manualSyncs \in [Node -> [Node -> 0 .. MaxManualSyncs]]
        /\ recorded \in SUBSET Key
    BY <1>1 DEF TInv, QueueTypes, WritersKnown, At, NotWritten
  <1>3. CASE ReadClock(e)
    <2> DEFINE c == db[writtenAt[e]].clock
    <2>1. c \in Nat \cup {-1}
      BY <1>2 DEF TInv, IInv, TypeOK, User
    <2>2. \/ replication' = [replication EXCEPT ![e] = Ended(h)]
          \/ replication' = [replication EXCEPT ![e] = [h EXCEPT !.outcome = "pending", !.clock = c]]
      BY <1>3 DEF ReadClock
    <2>3. UNCHANGED <<manualSyncs, recorded>>
      BY <1>3 DEF ReadClock
    <2> HIDE DEF h, c
    <2> QED
      BY <1>1, <1>2, <2>1, <2>2, <2>3, HandlerTypes
  <1>4. ASSUME NEW s \in Node, AskSecondary(e, s)
        PROVE  /\ \E g \in Handler \ {NotWritten} : replication' = [replication EXCEPT ![e] = g]
               /\ manualSyncs' \in [Node -> [Node -> 0 .. MaxManualSyncs]]
               /\ recorded' \in SUBSET Key
    <2>1. \/ replication' = [replication EXCEPT ![e] = Asked(h, s)]
          \/ replication' = [replication EXCEPT ![e] = Confirmed(Asked(h, s))]
      BY <1>4 DEF AskSecondary
    <2>2. Asked(h, s) \in Handler \ {NotWritten} /\ Confirmed(Asked(h, s)) \in Handler \ {NotWritten}
      <3> HIDE DEF h
      <3> QED
        BY <1>2, HandlerTypes
    <2>3. /\ UNCHANGED manualSyncs \/ manualSyncs' = [manualSyncs EXCEPT ![writtenAt[e]][s] = @ + 1]
          /\ ~(UNCHANGED manualSyncs) => manualSyncs[writtenAt[e]][s] < MaxManualSyncs
          /\ recorded' \subseteq recorded \cup {RecordedAs(writtenAt[e], s)}
      BY <1>4 DEF AskSecondary
    <2>4. manualSyncs' \in [Node -> [Node -> 0 .. MaxManualSyncs]]
      BY <1>2, <2>3, WriteQuorumAssumption
    <2>5. RecordedAs(writtenAt[e], s) \in Key
      BY <1>2 DEF RecordedAs, KeyFor, Key
    <2> HIDE DEF h
    <2> QED
      BY <1>2, <2>1, <2>2, <2>3, <2>4, <2>5
  <1>5. ASSUME NEW s \in Node, PollConfirms(e, s) \/ PollTimesOut(e, s)
        PROVE  /\ \E g \in Handler \ {NotWritten} : replication' = [replication EXCEPT ![e] = g]
               /\ manualSyncs' \in [Node -> [Node -> 0 .. MaxManualSyncs]]
               /\ recorded' \in SUBSET Key
    <2>1. \/ replication' = [replication EXCEPT ![e] = Confirmed(h)]
          \/ replication' = [replication EXCEPT ![e] = TimedOut(h, s)]
      BY <1>5 DEF PollConfirms, PollTimesOut
    <2>2. UNCHANGED <<manualSyncs, recorded>>
      BY <1>5 DEF PollConfirms, PollTimesOut
    <2> HIDE DEF h
    <2> QED
      BY <1>2, <2>1, <2>2, HandlerTypes
  <1> QED
    BY <1>1, <1>3, <1>4, <1>5 DEF HandlerStep

\* A step that keeps all handlers.
LEMMA NoHandlerStep ==
    ASSUME TInv, [QuorumNext]_allVars, UNCHANGED replication,
           sessions' \in [Node -> SUBSET SUBSET Node],
           manualSyncs' \in [Node -> [Node -> 0 .. MaxManualSyncs]],
           recorded' \subseteq recorded
    PROVE  TInv'
  <1>1. IInv'
    BY QuorumKeepsSound DEF TInv
  <1>2. QueueTypes'
    BY DEF TInv, QueueTypes
  <1>3. WritersKnown'
    BY WritersStay, NobodyAssumption DEF TInv, WritersKnown, At
  <1> QED
    BY <1>1, <1>2, <1>3 DEF TInv

LEMMA NextKeepsTypes ==
    ASSUME TInv, [QuorumNext]_allVars
    PROVE  TInv'
  <1>1. IInv'
    BY QuorumKeepsSound DEF TInv
  <1>2. /\ sessions \in [Node -> SUBSET SUBSET Node]
        /\ replication \in [Entry -> Handler]
        /\ manualSyncs \in [Node -> [Node -> 0 .. MaxManualSyncs]]
        /\ recorded \in SUBSET Key
        /\ replicaSet.secondaries \in SUBSET Node
    BY ContentSyncAssumption DEF TInv, QueueTypes, IInv, TypeOK
  <1>3. ASSUME NEW n \in Node, Authorize(n) \/ AuthorizeAgain(n) PROVE TInv'
    <2>1. sessions' \in [Node -> SUBSET SUBSET Node]
      <3>1. PICK T \in {{replicaSet.secondaries}, sessions[n] \cup {replicaSet.secondaries}} :
              sessions' = [sessions EXCEPT ![n] = T]
        BY <1>3 DEF Authorize, AuthorizeAgain
      <3>2. T \in SUBSET SUBSET Node
        BY <1>2
      <3> QED
        BY <1>2, <3>1, <3>2
    <2> QED
      BY <1>2, <1>3, <2>1, NoHandlerStep DEF Authorize, AuthorizeAgain
  <1>4. ASSUME NEW n \in Node, NEW e \in Entry, Commit(n, e) PROVE TInv'
    <2>1. PICK S \in UNION {SUBSET T : T \in sessions[n]} :
            replication' = [replication EXCEPT ![e] =
              [outcome |-> "committed", clock |-> -1, unasked |-> S,
               polled |-> {}]]
      BY <1>4 DEF Commit
    <2>2. S \in SUBSET Node
      BY <1>2
    <2>3. writtenAt'[e] = n
      BY <1>4 DEF Commit, CommitWrite, TInv, IInv, TypeOK
    <2>4. QueueTypes'
      <3>1. replication' \in [Entry -> Handler]
        BY <1>2, <2>1, <2>2 DEF Handler
      <3> QED
        BY <1>2, <1>4, <3>1 DEF QueueTypes, Commit
    <2>5. \A f \in Entry \ {e} : replication'[f] = replication[f]
      BY <1>2, <2>1
    <2>6. WritersKnown'
      BY <2>3, <2>5, WritersStay, NobodyAssumption DEF TInv, WritersKnown, At
    <2> QED
      BY <1>1, <2>4, <2>6 DEF TInv
  <1>5. ASSUME NEW n \in Node, NEW s \in Node, RunManualSync(n, s) PROVE TInv'
    <2>1. manualSyncs' \in [Node -> [Node -> 0 .. MaxManualSyncs]]
      BY <1>2, <1>5, WriteQuorumAssumption DEF RunManualSync
    <2> QED
      BY <1>2, <1>5, <2>1, NoHandlerStep DEF RunManualSync
  <1>6. ASSUME NEW n \in Node, Crash(n) PROVE TInv'
    <2> DEFINE Dropped(h) ==
                 [h EXCEPT
                   !.outcome = IF @ = "confirmed" THEN @ ELSE "failed",
                   !.unasked = {}, !.polled = {}]
    <2>1. \A e \in Entry :
            \/ replication'[e] = replication[e]
            \/ /\ replication[e].outcome # "none"
               /\ replication'[e] = Dropped(replication[e])
      BY <1>6 DEF Crash
    <2>2. \A h \in Handler \ {NotWritten} : Dropped(h) \in Handler
      BY DEF Handler, NotWritten
    <2> HIDE DEF Dropped
    <2>3. replication' \in [Entry -> Handler]
      <3>1. \A e \in Entry : replication'[e] \in Handler
        BY <1>2, <2>1, <2>2 DEF NotWritten
      <3> QED
        BY <1>6, <3>1 DEF Crash
    <2>4. manualSyncs' \in [Node -> [Node -> 0 .. MaxManualSyncs]]
      <3>1. [s \in Node |-> 0] \in [Node -> 0 .. MaxManualSyncs]
        BY WriteQuorumAssumption
      <3> QED
        BY <1>2, <1>6, <3>1 DEF Crash
    <2>5. QueueTypes'
      BY <1>2, <1>6, <2>3, <2>4 DEF QueueTypes, Crash
    <2>6. WritersKnown'
      BY <2>1, WritersStay, NobodyAssumption DEF TInv, WritersKnown, At
    <2> QED
      BY <1>1, <2>5, <2>6 DEF TInv
  <1>7. ASSUME NEW e \in Entry, HandlerStep(e) PROVE TInv'
    <2>1. PICK g \in Handler \ {NotWritten} : replication' = [replication EXCEPT ![e] = g]
      BY <1>7, HandlerSteps
    <2>2. /\ ~At(e, "none") /\ UNCHANGED vars /\ UNCHANGED sessions
          /\ manualSyncs' \in [Node -> [Node -> 0 .. MaxManualSyncs]]
          /\ recorded' \in SUBSET Key
      BY <1>7, HandlerSteps
    <2>3. QueueTypes'
      BY <1>2, <2>1, <2>2 DEF QueueTypes
    <2>4. WritersKnown'
      BY <1>2, <2>1, <2>2 DEF TInv, WritersKnown, At, vars
    <2> QED
      BY <1>1, <2>3, <2>4 DEF TInv
  <1>8. CASE OtherStep
    <2>1. sessions' \in [Node -> SUBSET SUBSET Node]
      BY <1>2, <1>8 DEF OtherStep
    <2> QED
      BY <1>2, <1>8, <2>1, NoHandlerStep DEF OtherStep
  <1>9. CASE UNCHANGED allVars
    <2>1. UNCHANGED <<sessions, replication, manualSyncs, recorded>>
      BY <1>9 DEF allVars, quorumVars
    <2> QED
      BY <1>2, <2>1, NoHandlerStep
  <1> QED
    BY <1>3, <1>4, <1>5, <1>6, <1>7, <1>8, <1>9 DEF QuorumNext

LEMMA InitTypes == QuorumInit => TInv
  <1> SUFFICES ASSUME QuorumInit PROVE TInv
    OBVIOUS
  <1>1. IInv
    BY InitSound DEF QuorumInit
  <1>2. QueueTypes
    BY WriteQuorumAssumption DEF QuorumInit, QueueTypes, Handler
  <1>3. WritersKnown
    BY DEF QuorumInit, WritersKnown, At, NotWritten
  <1> QED
    BY <1>1, <1>2, <1>3 DEF TInv

(***************************************************************************)
(* The nodes, the handlers and the queue have their types, whatever the    *)
(* replica sets: waiting jobs stay within their bound, and a handler's     *)
(* jobs go to the queue of a node.                                         *)
(***************************************************************************)
THEOREM QuorumTypeCorrect == QuorumSpec => []QuorumTypeOK
  <1>1. TInv /\ [QuorumNext]_allVars => TInv'
    BY NextKeepsTypes
  <1>2. TInv => QuorumTypeOK
    BY DEF TInv, QueueTypes, IInv, QuorumTypeOK
  <1> QED
    BY <1>1, <1>2, InitTypes, PTL DEF QuorumSpec

-----------------------------------------------------------------------------
(***************************************************************************)
(* With a lasting replica set, what sessions, handlers and queues know of  *)
(* it is up to date, so that the requests they lead to are those that      *)
(* ContentSync lets the primary issue.                                     *)
(***************************************************************************)
LastingReplicaSet == \A rs, other \in ReplicaSet : rs = other

Secondaries == replicaSet.secondaries

LInv ==
    /\ \A n \in Node : \A S \in sessions[n] : n = Primary /\ S = Secondaries
    /\ \A e \in Entry : ~At(e, "none") =>
          writtenAt[e] = Primary /\ replication[e].unasked \subseteq Secondaries
    /\ \A n, s \in Node : manualSyncs[n][s] > 0 =>
          n = Primary /\ s \in Secondaries

LEMMA ReplicaSetLasts ==
    ASSUME LastingReplicaSet, TInv, [QuorumNext]_allVars
    PROVE  UNCHANGED replicaSet
  <1>1. ASSUME NEW rs \in ReplicaSet, UpdateReplicaSet(rs) PROVE FALSE
    BY <1>1 DEF UpdateReplicaSet, LastingReplicaSet, TInv, IInv, TypeOK
  <1>2. [Next]_vars => \/ UNCHANGED replicaSet
                      \/ \E rs \in ReplicaSet : UpdateReplicaSet(rs)
    <2>1. ASSUME NEW n \in Node, ClientStep(n) PROVE UNCHANGED replicaSet
      BY <2>1 DEF ClientStep, CreateUser, AuthorizeWrite, CommitWrite, EndWrites
    <2>2. ASSUME NEW j \in SyncJob, SyncStep(j) PROVE UNCHANGED replicaSet
      BY <2>2 DEF SyncStep, SyncProgress, SyncStart, SyncCheckDefault, SyncCheckForced,
                  SyncCheckHistory, SyncWipe, SyncFetchExport, SyncImport, SyncAbort,
                  SyncRelease, SyncFail
    <2>3. ASSUME NEW m \in MergeJob, MergeStep(m) PROVE UNCHANGED replicaSet
      BY <2>3 DEF MergeStep, MergeProgress, MergeStart, MergeCheck, MergeFetchExport,
                  MergeFilter, MergeSave, MergeAbort, MergeRelease, MergeRequest, MergeFail
    <2>4. Environment \/ UNCHANGED vars
            => UNCHANGED replicaSet \/ \E rs \in ReplicaSet : UpdateReplicaSet(rs)
      BY DEF Environment, IssueSync, LoseRequest, LockExpires, CrashRestart, vars
    <2> QED
      BY <2>1, <2>2, <2>3, <2>4 DEF Next
  <1>3. ASSUME NEW n \in Node, NEW s \in Node, RunManualSync(n, s)
        PROVE  UNCHANGED replicaSet
    BY <1>3 DEF RunManualSync
  <1> QED
    BY <1>1, <1>2, <1>3, StepsOfContentSync

\* Handlers and queues may drop what they know, but learn nothing.
LEMMA KnownLess ==
    ASSUME TInv, LInv, [QuorumNext]_allVars, UNCHANGED replicaSet,
           \A n \in Node : sessions'[n] \subseteq sessions[n],
           \A e \in Entry :
              \/ replication'[e] = replication[e]
              \/ replication'[e].unasked = {} /\ ~At(e, "none"),
           \A n, s \in Node : manualSyncs'[n][s] > 0 => manualSyncs[n][s] > 0
    PROVE  LInv'
  <1>1. \A n \in Node : \A S \in sessions'[n] : n = Primary' /\ S = Secondaries'
    BY DEF LInv, Primary, Secondaries
  <1>2. ASSUME NEW e \in Entry, ~At(e, "none")'
        PROVE  writtenAt'[e] = Primary' /\ replication'[e].unasked \subseteq Secondaries'
    <2>1. ~At(e, "none")
      BY <1>2 DEF At
    <2>2. writtenAt'[e] = writtenAt[e]
      BY <2>1, WritersStay, NobodyAssumption DEF TInv, WritersKnown
    <2> QED
      BY <2>1, <2>2 DEF LInv, Primary, Secondaries
  <1>3. \A n, s \in Node : manualSyncs'[n][s] > 0 => n = Primary' /\ s \in Secondaries'
    BY DEF LInv, Primary, Secondaries
  <1> QED
    BY <1>1, <1>2, <1>3 DEF LInv

LEMMA NextKeepsKnown ==
    ASSUME LastingReplicaSet, TInv, LInv, [QuorumNext]_allVars
    PROVE  LInv'
  <1>1. UNCHANGED <<replicaSet, Primary, Secondaries>>
    BY ReplicaSetLasts DEF Primary, Secondaries
  <1>2. /\ sessions \in [Node -> SUBSET SUBSET Node]
        /\ replication \in [Entry -> Handler]
        /\ manualSyncs \in [Node -> [Node -> 0 .. MaxManualSyncs]]
    BY DEF TInv, QueueTypes
  <1>3. ASSUME NEW n \in Node, Authorize(n) \/ AuthorizeAgain(n) PROVE LInv'
    <2>1. n = Primary
      BY <1>3 DEF Authorize, AuthorizeWrite, AuthorizeAgain, Primary
    <2>2. \A k \in Node : sessions'[k] \subseteq
                            IF k = n THEN sessions[k] \cup {Secondaries} ELSE sessions[k]
      BY <1>2, <1>3 DEF Authorize, AuthorizeAgain, Secondaries
    <2>3. UNCHANGED <<replication, manualSyncs, writtenAt>>
      BY <1>3 DEF Authorize, AuthorizeWrite, AuthorizeAgain, vars
    <2> QED
      BY <1>1, <2>1, <2>2, <2>3 DEF LInv, At
  <1>4. ASSUME NEW n \in Node, NEW e \in Entry, Commit(n, e) PROVE LInv'
    <2>1. PICK S \in sessions[n] : \E known \in SUBSET S :
            replication' = [replication EXCEPT ![e] =
              [outcome |-> "committed", clock |-> -1, unasked |-> known,
               polled |-> {}]]
      BY <1>4 DEF Commit
    <2>2. n = Primary /\ S = Secondaries
      BY DEF LInv
    <2>3. writtenAt'[e] = n /\ \A f \in Entry \ {e} : writtenAt'[f] = writtenAt[f]
      BY <1>4 DEF Commit, CommitWrite, TInv, IInv, TypeOK
    <2>4. /\ replication'[e].unasked \subseteq Secondaries
          /\ \A f \in Entry \ {e} : replication'[f] = replication[f]
      BY <1>2, <2>1, <2>2
    <2>5. UNCHANGED <<sessions, manualSyncs>>
      BY <1>4 DEF Commit
    <2>6. ASSUME NEW f \in Entry, ~At(f, "none")'
          PROVE  writtenAt'[f] = Primary' /\ replication'[f].unasked \subseteq Secondaries'
      BY <1>1, <2>2, <2>3, <2>4, <2>6 DEF LInv, At
    <2> QED
      BY <1>1, <2>5, <2>6 DEF LInv
  <1>5. ASSUME NEW e \in Entry, HandlerStep(e) PROVE LInv'
    <2>1. ~At(e, "none") /\ UNCHANGED vars /\ UNCHANGED sessions
      BY <1>5, HandlerSteps
    <2>2. replication[e] \in Handler \ {NotWritten}
      BY <1>2, <2>1 DEF At, NotWritten
    <2>3. /\ \A f \in Entry \ {e} : replication'[f] = replication[f]
          /\ replication'[e].unasked \subseteq replication[e].unasked
      <3>1. ASSUME NEW s \in Node
            PROVE  LET h == replication[e] IN
                   /\ Asked(h, s).unasked \subseteq h.unasked
                   /\ Confirmed(h).unasked \subseteq h.unasked
                   /\ Confirmed(Asked(h, s)).unasked \subseteq h.unasked
                   /\ Ended(h).unasked \subseteq h.unasked
                   /\ TimedOut(h, s).unasked \subseteq h.unasked
                   /\ \A c : [h EXCEPT !.outcome = "pending", !.clock = c].unasked
                               \subseteq h.unasked
        BY <2>2 DEF Handler, NotWritten, Asked, Confirmed, Ended, TimedOut
      <3>2. PICK g : replication' = [replication EXCEPT ![e] = g]
        BY <1>5, HandlerSteps
      <3>3. replication'[e] = g /\ \A f \in Entry \ {e} : replication'[f] = replication[f]
        BY <1>2, <3>2
      <3>4. CASE ReadClock(e)
        <4>1. \/ replication'[e] = Ended(replication[e])
              \/ replication'[e] = [replication[e] EXCEPT !.outcome = "pending",
                                                         !.clock = db[writtenAt[e]].clock]
          BY <1>2, <3>4 DEF ReadClock
        <4>2. replicaSet.primary \in Node
          BY ContentSyncAssumption DEF TInv, IInv, TypeOK
        <4> QED
          BY <3>1, <3>3, <4>1, <4>2
      <3>5. ASSUME NEW s \in Node,
                   AskSecondary(e, s) \/ PollConfirms(e, s) \/ PollTimesOut(e, s)
            PROVE  replication'[e].unasked \subseteq replication[e].unasked
        <4>1. \/ replication'[e] = Asked(replication[e], s)
              \/ replication'[e] = Confirmed(replication[e])
              \/ replication'[e] = Confirmed(Asked(replication[e], s))
              \/ replication'[e] = TimedOut(replication[e], s)
          BY <1>2, <3>5 DEF AskSecondary, PollConfirms, PollTimesOut
        <4> QED
          BY <3>1, <4>1
      <3> QED
        BY <1>5, <3>3, <3>4, <3>5 DEF HandlerStep
    <2>4. ASSUME NEW n \in Node, NEW s \in Node, manualSyncs'[n][s] > 0
          PROVE  n = Primary /\ s \in Secondaries
      <3>1. CASE manualSyncs'[n][s] = manualSyncs[n][s]
        BY <2>4, <3>1 DEF LInv
      <3>2. ASSUME NEW t \in Node, AskSecondary(e, t), manualSyncs'[n][s] # manualSyncs[n][s]
            PROVE  n = Primary /\ s \in Secondaries
        <4>1. n = writtenAt[e] /\ s = t /\ t \in replication[e].unasked
          BY <1>2, <3>2 DEF AskSecondary
        <4> QED
          BY <2>1, <4>1 DEF LInv
      <3>3. \/ UNCHANGED manualSyncs
            \/ \E t \in Node : AskSecondary(e, t)
        BY <1>5 DEF HandlerStep, ReadClock, PollConfirms, PollTimesOut
      <3> QED
        BY <3>1, <3>2, <3>3
    <2>5. ASSUME NEW f \in Entry, ~At(f, "none")'
          PROVE  writtenAt'[f] = Primary' /\ replication'[f].unasked \subseteq Secondaries'
      <3>1. ~At(f, "none")
        BY <2>1, <2>3, <2>5 DEF At
      <3> QED
        BY <1>1, <2>1, <2>3, <3>1 DEF LInv, vars
    <2> QED
      BY <1>1, <2>1, <2>4, <2>5 DEF LInv
  <1>6. UNCHANGED replicaSet
    BY <1>1
  <1>7. ASSUME NEW n \in Node, NEW s \in Node, RunManualSync(n, s) PROVE LInv'
    <2>1. \A k, t \in Node : manualSyncs'[k][t] > 0 => manualSyncs[k][t] > 0
      BY <1>2, <1>7 DEF RunManualSync
    <2>2. UNCHANGED sessions /\ UNCHANGED replication
      BY <1>7 DEF RunManualSync
    <2> QED
      BY <1>6, <2>1, <2>2, KnownLess
  <1>8. ASSUME NEW n \in Node, Crash(n) PROVE LInv'
    <2>1. \A k \in Node : sessions'[k] \subseteq sessions[k]
      BY <1>2, <1>8 DEF Crash
    <2>2. ASSUME NEW k \in Node, NEW s \in Node, manualSyncs'[k][s] > 0
          PROVE  manualSyncs[k][s] > 0
      <3>1. CASE k = n
        <4>1. manualSyncs'[k] = [t \in Node |-> 0]
          BY <1>2, <1>8, <3>1 DEF Crash
        <4>2. manualSyncs'[k][s] = 0
          BY <4>1
        <4> QED
          BY <2>2, <4>2
      <3>2. CASE k # n
        BY <1>2, <1>8, <2>2, <3>2 DEF Crash
      <3> QED
        BY <3>1, <3>2
    <2>3. ASSUME NEW e \in Entry
          PROVE  \/ replication'[e] = replication[e]
                 \/ replication'[e].unasked = {} /\ ~At(e, "none")
      <3> DEFINE h == replication[e]
      <3>1. \/ replication'[e] = h
            \/ /\ h.outcome \in {"committed", "pending", "confirmed"}
               /\ replication'[e] = [h EXCEPT
                     !.outcome = IF @ = "confirmed" THEN @ ELSE "failed",
                     !.unasked = {}, !.polled = {}]
        BY <1>8 DEF Crash
      <3>2. h.outcome # "none" => h \in Handler \ {NotWritten}
        BY <1>2 DEF NotWritten
      <3>3. h \in Handler \ {NotWritten} =>
              [h EXCEPT !.outcome = IF @ = "confirmed" THEN @ ELSE "failed",
                        !.unasked = {}, !.polled = {}].unasked = {}
        BY DEF Handler, NotWritten
      <3> QED
        BY <3>1, <3>2, <3>3 DEF At
    <2> QED
      BY <1>6, <2>1, <2>2, <2>3, KnownLess
  <1>9. CASE OtherStep
    <2>1. \A k \in Node : sessions'[k] \subseteq sessions[k]
      BY <1>9 DEF OtherStep
    <2>2. UNCHANGED replication /\ UNCHANGED manualSyncs
      BY <1>9 DEF OtherStep
    <2> QED
      BY <1>6, <2>1, <2>2, KnownLess
  <1>10. CASE UNCHANGED allVars
    <2>1. UNCHANGED sessions /\ UNCHANGED replication /\ UNCHANGED manualSyncs
      BY <1>10 DEF allVars, quorumVars
    <2> QED
      BY <1>6, <2>1, KnownLess
  <1> QED
    BY <1>3, <1>4, <1>5, <1>7, <1>8, <1>9, <1>10 DEF QuorumNext

LEMMA InitKnows == QuorumInit => LInv
  BY DEF QuorumInit, LInv, At, NotWritten

LEMMA PostsAreIssued ==
    ASSUME TInv, LInv, NEW n \in Node, NEW s \in Node, RunManualSync(n, s)
    PROVE  [Next]_vars
  <1>1. n = Primary /\ s \in Secondaries
    BY DEF RunManualSync, LInv
  <1>2. UNCHANGED <<replicaSet, everPrimary, db, writeLock, writing,
                    writtenAt, sync, merge, updates, faults>>
    BY DEF RunManualSync
  <1>3. CASE UNCHANGED requests
    BY <1>2, <1>3 DEF vars
  <1>4. CASE /\ Cardinality(requests) < MaxRequests
             /\ requests' = requests \cup {ManualRequest(n, s)}
    <2>1. IssueSync(s)
      BY <1>1, <1>2, <1>4 DEF IssueSync, ManualRequest, Primary, Secondaries
    <2> QED
      BY <2>1 DEF Next, Environment
  <1> QED
    BY <1>3, <1>4 DEF RunManualSync

(***************************************************************************)
(* With a lasting replica set WriteQuorum implements ContentSync: routes,  *)
(* handlers and the manual queue only ever make the steps that it has      *)
(* (so that its invariants hold of WriteQuorum, too).                      *)
(***************************************************************************)
THEOREM QuorumImplements ==
    ASSUME LastingReplicaSet
    PROVE  QuorumSpec => ImplementsContentSync
  <1>1. QuorumInit => TInv /\ LInv /\ Init
    BY InitTypes, InitKnows DEF QuorumInit
  <1>2. TInv /\ LInv /\ [QuorumNext]_allVars => TInv' /\ LInv'
    BY NextKeepsTypes, NextKeepsKnown
  <1>3. TInv /\ LInv /\ [QuorumNext]_allVars => [Next]_vars
    BY StepsOfContentSync, PostsAreIssued
  <1> QED
    BY <1>1, <1>2, <1>3, PTL DEF QuorumSpec, ImplementsContentSync, Spec
=============================================================================
