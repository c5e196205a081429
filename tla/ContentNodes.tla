---------------------------- MODULE ContentNodes ----------------------------
(***************************************************************************)
(* What a discovery node knows of the content nodes: the infos it fetches  *)
(* from the ethereum contracts and keeps in redis for half an hour         *)
(* (eth_contracts_helpers.py, eth_manager.py), the list of peers each      *)
(* celery worker holds (index_network_peers.py, cid_metadata_client.py)    *)
(* and the replica sets of users, which content nodes ask for page by page *)
(* (entity_manager/user_replica_set.py, queries/get_users_cnode.py).       *)
(*                                                                         *)
(* Only the endpoint of an info is modelled; "" is that of an id that was  *)
(* deregistered or is not registered yet, the one value that is no valid   *)
(* domain name.                                                            *)
(***************************************************************************)
EXTENDS Integers, SequencesExt

CONSTANTS
  Endpoints,       \* of nodes that register, or change theirs
  InitialRegistry, \* endpoints of the content nodes, by id
  InitialReplicas, \* replica set of each user, ids, the primary's first, <<>> if it has none
  NewReplicas,     \* sets users may change to
  Workers,         \* processes of the celery worker
  Asking,          \* the endpoint that asks for its users
  MaxUsers,        \* users per page
  MaxChanges       \* bound

VARIABLES
  registry, \* the contract ServiceProviderFactory
  known,    \* infos in redis, of some ids
  users,    \* current rows of users, of [ids, endpoints]
  peers,    \* _cnode_endpoints of each worker
  pages,    \* cached answers, by cursor
  walk,     \* of the asking node through the pages
  steady,   \* history: users listed since before the oldest cached answer
  kept,     \* history: of those at the start of the walk, the ones listed ever since
  changes
nodeVars == <<registry, known, users, peers, changes>>
walkVars == <<pages, walk, steady, kept>>
contentVars == <<nodeVars, walkVars>>

SpIds == DOMAIN registry
UserIds == DOMAIN InitialReplicas
AllEndpoints == Endpoints \cup ToSet(InitialRegistry)
IdleWalk == [cursor |-> -1, seen |-> {}, done |-> FALSE]

----------------------------------------------------------------------------
(* Infos.  An error on one id leaves it out; it can only be an error of    *)
(* the provider, and only for an id that is not in redis.                  *)

OnChain(id) == IF id \in SpIds THEN registry[id] ELSE ""
FetchNodeInfo(id) == IF id \in DOMAIN known THEN known[id] ELSE OnChain(id)
Remembered(ids) == [id \in DOMAIN known \cup ids |-> FetchNodeInfo(id)]
FetchAllRegistered(failing) ==
  {id \in SpIds : (id \in DOMAIN known \/ id \notin failing) /\ FetchNodeInfo(id) # ""}
EndpointsOf(ids) == {FetchNodeInfo(id) : id \in ids}
Failing == SUBSET (SpIds \ DOMAIN known)

CreatorNodeEndpoint(ids) == [i \in DOMAIN ids |-> FetchNodeInfo(ids[i])]

Change == changes < MaxChanges /\ changes' = changes + 1

Register(e) ==
  /\ Change
  /\ registry' = Append(registry, e)
  /\ UNCHANGED <<known, users, peers>>

Deregister(id) ==
  /\ Change /\ registry[id] # ""
  /\ registry' = [registry EXCEPT ![id] = ""]
  /\ UNCHANGED <<known, users, peers>>

UpdateEndpoint(id, e) ==
  /\ Change /\ registry[id] \notin {"", e}
  /\ registry' = [registry EXCEPT ![id] = e]
  /\ UNCHANGED <<known, users, peers>>

ExpireInfo(id) ==
  /\ id \in DOMAIN known
  /\ known' = [x \in DOMAIN known \ {id} |-> known[x]]
  /\ UNCHANGED <<registry, users, peers, changes>>

(* is_valid_user_replica_set_tx asks for the ids one after the other and   *)
(* stops at the first that is not registered: its info, too, stays in      *)
(* redis.                                                                  *)
AskedFor(ids) ==
  LET invalid == {i \in DOMAIN ids : FetchNodeInfo(ids[i]) = ""}
  IN {ids[i] : i \in {i \in DOMAIN ids : \A j \in invalid : i <= j}}
IsValidUserReplicaSet(ids) == \A i \in DOMAIN ids : FetchNodeInfo(ids[i]) # ""
UpdateUserReplicaSet(u, ids) ==
  /\ Change /\ users[u].ids # ids /\ users[u].ids # <<>>
  /\ users' = IF IsValidUserReplicaSet(ids)
              THEN [users EXCEPT ![u] = [ids |-> ids, endpoints |-> CreatorNodeEndpoint(ids)]]
              ELSE users
  /\ known' = Remembered(AskedFor(ids))
  /\ UNCHANGED <<registry, peers>>

----------------------------------------------------------------------------
(* Peers: update_network_peers runs in one of the workers and changes the  *)
(* list of that one.                                                       *)

UpdateCnodeUrls(w, endpoints) ==
  peers' = IF endpoints = {} THEN peers ELSE [peers EXCEPT ![w] = endpoints]
IndexContentNodePeers(w, failing) ==
  /\ UpdateCnodeUrls(w, EndpointsOf(FetchAllRegistered(failing)))
  /\ known' = Remembered(SpIds \ failing)
  /\ UNCHANGED <<registry, users, changes>>

RestartWorker(w, failing) ==
  /\ Change
  /\ peers' = [peers EXCEPT ![w] = EndpointsOf(FetchAllRegistered(failing))]
  /\ known' = Remembered(SpIds \ failing)
  /\ UNCHANGED <<registry, users>>

----------------------------------------------------------------------------
(* get_users_cnode *)

InReplicaSet(endpoints, e, type) == \E i \in 1..3 :
  /\ i \in DOMAIN endpoints /\ endpoints[i] = e
  /\ type = "primary" => i = 1
  /\ type = "secondary" => i # 1
Listed(e, type) == {u \in UserIds :
  Len(users[u].endpoints) > 1 /\ InReplicaSet(users[u].endpoints, e, type)}
(* Ordered by id, the first n.                                             *)
FirstOf(U, n) == {u \in U : Cardinality({v \in U : v < u}) < n}
\* Variant: the limit is that of the inner query.
LimitsRows(e, type, prev, n) == {u \in FirstOf({u \in UserIds : u > prev}, n) : u \in Listed(e, type)}
GetUsersCnode(e, type, prev, n) == FirstOf({u \in Listed(e, type) : u > prev}, n)

(* UsersByContentNode.get, cached *)
UsersByContentNode(prev) ==
  IF prev \in DOMAIN pages THEN pages[prev]
  ELSE GetUsersCnode(Asking, "all", prev, MaxUsers)
ExpirePage(prev) ==
  /\ prev \in DOMAIN pages
  /\ pages' = [x \in DOMAIN pages \ {prev} |-> pages[x]]
  /\ UNCHANGED walk

(* recoverOrphanedData.jobProcessor.js of the asking content node *)
StartWalk ==
  /\ walk = IdleWalk \/ walk.done
  /\ walk' = [IdleWalk EXCEPT !.cursor = 0]
  /\ UNCHANGED pages
NextPage ==
  /\ walk.cursor >= 0 /\ ~walk.done
  /\ LET page == UsersByContentNode(walk.cursor)
         full == Cardinality(page) = MaxUsers
     IN /\ pages' = [x \in DOMAIN pages \cup {walk.cursor} |->
                       IF x = walk.cursor THEN page ELSE pages[x]]
        /\ walk' = [walk EXCEPT !.seen = @ \cup page, !.done = ~full,
                                !.cursor = IF full THEN CHOOSE u \in page : \A v \in page : v <= u
                                           ELSE @]

----------------------------------------------------------------------------
NodesInit ==
  /\ registry = InitialRegistry /\ known = [id \in {} |-> ""]
  /\ users = [u \in UserIds |->
       [ids |-> InitialReplicas[u],
        endpoints |-> [i \in DOMAIN InitialReplicas[u] |-> InitialRegistry[InitialReplicas[u][i]]]]]
  /\ peers = [w \in Workers |-> {}]
  /\ pages = [x \in {} |-> {}] /\ walk = IdleWalk
  /\ steady = Listed(Asking, "all") /\ kept = {}
  /\ changes = 0

NodesChange ==
  \/ \E e \in Endpoints : Register(e)
  \/ \E id \in SpIds : Deregister(id)
  \/ \E id \in SpIds, e \in Endpoints : UpdateEndpoint(id, e)
  \/ \E id \in DOMAIN known : ExpireInfo(id)
  \/ \E u \in UserIds, ids \in NewReplicas : UpdateUserReplicaSet(u, ids)
PeersChange == \E w \in Workers, failing \in Failing :
  IndexContentNodePeers(w, failing) \/ RestartWorker(w, failing)
Walks == StartWalk \/ NextPage \/ \E prev \in DOMAIN pages : ExpirePage(prev)

(* The answers a walk takes may be older than the walk.                    *)
Remember ==
  LET listed == Listed(Asking, "all")'
      beginning == walk'.cursor = 0 /\ walk'.seen = {} /\ ~walk'.done
  IN /\ steady' = IF DOMAIN pages' = {} THEN listed ELSE steady \cap listed
     /\ kept' = (IF beginning THEN steady ELSE kept) \cap listed

NodesNext ==
  /\ \/ NodesChange /\ UNCHANGED <<pages, walk>>
     \/ PeersChange /\ UNCHANGED <<pages, walk>>
     \/ Walks /\ UNCHANGED nodeVars
  /\ Remember

NodesSpec == NodesInit /\ [][NodesNext]_contentVars

NodesTypeOK ==
  /\ registry \in Seq(AllEndpoints \cup {""})
  /\ \A id \in DOMAIN known : known[id] \in AllEndpoints \cup {""}
  /\ \A u \in UserIds : Len(users[u].ids) = Len(users[u].endpoints)
  /\ \A w \in Workers : peers[w] \subseteq AllEndpoints
  /\ \A prev \in DOMAIN pages : pages[prev] \subseteq UserIds
  /\ walk.seen \cup kept \cup steady \subseteq UserIds
  /\ changes \in 0..MaxChanges

(* A content node that walks through the pages of its users until one is   *)
(* not full has seen every user whose replica set it was in all the time,  *)
(* though answers are cached and sets change between the pages             *)
(* (get_users_cnode): it takes the data of the others for orphaned.        *)
PagesComplete == walk.done => kept \subseteq walk.seen
=============================================================================
