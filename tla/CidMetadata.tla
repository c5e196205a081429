----------------------------- MODULE CidMetadata -----------------------------
(***************************************************************************)
(* The metadata of a block: the files that its ManageEntity transactions   *)
(* name by their cids and that a worker fetches from the content nodes     *)
(* before it applies the block (fetch_cid_metadata of index.py and         *)
(* index_nethermind.py, utils/cid_metadata_client.py).                     *)
(*                                                                         *)
(* All requests for a block are sent at once, first to the replica sets of *)
(* the users of the transactions, then to all nodes the worker knows.      *)
(* Answers come in any order or not at all.  A file is a set of fields;    *)
(* what a type does not have is dropped, and a file of which nothing is    *)
(* left counts as no answer.                                               *)
(***************************************************************************)
EXTENDS ContentNodes

CONSTANTS
  Blocks,       \* of [chain, txs], chain "poa" or "nethermind", txs of [user, type, action, cid],
                \* no cid is ""
  Content,      \* fields of each file
  InitialFiles, \* cids of the files at each endpoint
  MaxFetches    \* bound

VARIABLES
  files,    \* of each endpoint
  block,    \* to index
  job,      \* the fetch
  cid_data, \* the table, of [type, data]
  applied,  \* metadata the block was applied with, if it was
  heard,    \* history: cids that a node answered with something of use in this fetch
  fetches
cidVars == <<files, block, job, cid_data, applied, heard, fetches>>
vars == <<contentVars, cidVars>>

----------------------------------------------------------------------------
(* What the block names. *)

MetadataTypes == {"user", "track", "playlist_data"}
(* user_metadata_format, track_metadata_format, playlist_metadata_format *)
Format == [user |-> {"name"}, track |-> {"title", "genre"}, playlist_data |-> {"name", "title"}]

NamesFile(tx) ==
  /\ tx.cid # "" /\ tx.type # "UserReplicaSet"
  /\ ~(tx.action = "Create" /\ tx.type = "user")
(* On the POA chain notifications name none either.                        *)
NamesFilePoa(tx) == NamesFile(tx) /\ ~(tx.action = "Create" /\ tx.type = "notification")
Naming == {i \in DOMAIN block.txs :
  IF block.chain = "poa" THEN NamesFilePoa(block.txs[i]) ELSE NamesFile(block.txs[i])}
CidsTxhashSet == {<<block.txs[i].cid, i>> : i \in Naming}
Cids == {block.txs[i].cid : i \in Naming}

(* The last transaction that names a file sets its type and its user.      *)
LastNaming(S, c) == CHOOSE i \in S : block.txs[i].cid = c /\ \A j \in S : block.txs[j].cid = c => j <= i
CidToUserId == [c \in Cids |-> block.txs[LastNaming(Naming, c)].user]
Typed == {i \in Naming : block.txs[i].type \in MetadataTypes}
CidType == [c \in {block.txs[i].cid : i \in Typed} |-> block.txs[LastNaming(Typed, c)].type]

GetMetadataFromJson(type, c) == Content[c] \cap Format[type]

----------------------------------------------------------------------------
(* _fetch_metadata_from_gateway_endpoints *)

GatewayEndpoints(w, fromReplicaSet, u) ==
  IF fromReplicaSet /\ u \in UserIds THEN ToSet(users[u].endpoints) ELSE peers[w]
Requests(w, fromReplicaSet, fetched) ==
  {r \in (Cids \ fetched) \X AllEndpoints :
     r[2] \in GatewayEndpoints(w, fromReplicaSet, CidToUserId[r[1]])}

NoJob == [step |-> "idle", worker |-> "", fetched |-> {}, new |-> {}, requests |-> {}]

FetchCidMetadata(w) ==
  /\ job.step \in {"idle", "failed"} /\ applied = <<>> /\ fetches < MaxFetches
  /\ job' = [step |-> "first", worker |-> w, fetched |-> {}, new |-> {},
             requests |-> Requests(w, TRUE, {})]
  /\ heard' = {} /\ fetches' = fetches + 1
  /\ UNCHANGED <<files, block, cid_data, applied>>

Attempting == job.step \in {"first", "second"}

(* A file of no type raises an error, which ends the fetch.                *)
Answered(c, e) ==
  /\ Attempting /\ <<c, e>> \in job.requests /\ c \in files[e]
  /\ LET others == {r \in job.requests : r[1] # c}
         all == Cardinality(job.fetched) + Cardinality(job.new) + 1 = Cardinality(CidsTxhashSet)
         useful == c \in DOMAIN CidType /\ GetMetadataFromJson(CidType[c], c) # {}
     IN /\ job' = CASE c \notin DOMAIN CidType -> [job EXCEPT !.step = "failed", !.requests = {}]
                    [] useful -> [job EXCEPT !.new = @ \cup {c},
                                             !.requests = IF all THEN {} ELSE others]
                    [] OTHER -> [job EXCEPT !.requests = @ \ {<<c, e>>}]
        /\ heard' = IF useful THEN heard \cup {c} ELSE heard
  /\ UNCHANGED <<files, block, cid_data, applied, fetches>>

(* An error, an answer that the node does not have the file, two seconds.  *)
NotAnswered(c, e) ==
  /\ Attempting /\ <<c, e>> \in job.requests
  /\ job' = [job EXCEPT !.requests = @ \ {<<c, e>>}]
  /\ UNCHANGED <<files, block, cid_data, applied, heard, fetches>>

(* All requests have ended, or five seconds have passed.                   *)
FirstAttemptEnds ==
  /\ job.step = "first"
  /\ LET fetched == job.new
     IN job' = [job EXCEPT !.fetched = fetched, !.new = {},
                  !.step = IF Cardinality(fetched) # Cardinality(CidsTxhashSet)
                           THEN "second" ELSE "decide",
                  !.requests = IF Cardinality(fetched) # Cardinality(CidsTxhashSet)
                               THEN Requests(job.worker, FALSE, fetched) ELSE {}]
  /\ UNCHANGED <<files, block, cid_data, applied, heard, fetches>>
SecondAttemptEnds ==
  /\ job.step = "second"
  /\ job' = [job EXCEPT !.fetched = @ \cup job.new, !.new = {}, !.requests = {},
                        !.step = "decide"]
  /\ UNCHANGED <<files, block, cid_data, applied, heard, fetches>>

----------------------------------------------------------------------------
(* A block of which a file is missing is not indexed: the next pass, on    *)
(* any worker, fetches all of its files again.                             *)

\* Variant: compares with the transactions, of which two may name one file.
MissesTransactions == Cardinality(job.fetched) # Cardinality(CidsTxhashSet)
Misses == DOMAIN CidType # {} /\ Cardinality(job.fetched) # Cardinality(DOMAIN CidType)

MissingCids ==
  /\ job.step = "decide" /\ Misses
  /\ job' = [job EXCEPT !.step = "failed"]
  /\ UNCHANGED <<files, block, cid_data, applied, heard, fetches>>

Metadata == [c \in job.fetched |-> [type |-> CidType[c], data |-> GetMetadataFromJson(CidType[c], c)]]

(* save_cid_metadata, where it is enabled: a cid that is there keeps its   *)
(* row.                                                                    *)
SaveCidMetadata == cid_data' =
  [c \in DOMAIN cid_data \cup job.fetched |->
     IF c \in DOMAIN cid_data THEN cid_data[c] ELSE Metadata[c]]

ApplyBlock ==
  /\ job.step = "decide" /\ ~Misses
  /\ job' = NoJob
  /\ applied' = <<Metadata>>
  /\ SaveCidMetadata
  /\ UNCHANGED <<files, block, heard, fetches>>

NextBlock ==
  /\ applied # <<>>
  /\ block' \in Blocks /\ block' # block /\ applied' = <<>> /\ heard' = {}
  /\ UNCHANGED <<files, job, cid_data, fetches>>

(* On the content nodes. *)
Replicate(e, c) ==
  /\ Change /\ c \notin files[e]
  /\ files' = [files EXCEPT ![e] = @ \cup {c}]
  /\ UNCHANGED <<block, job, cid_data, applied, heard, fetches>>

----------------------------------------------------------------------------
Init ==
  /\ NodesInit
  /\ files = InitialFiles /\ block \in Blocks /\ job = NoJob
  /\ cid_data = [c \in {} |-> {}] /\ applied = <<>> /\ heard = {} /\ fetches = 0

Fetch ==
  \/ \E w \in Workers : FetchCidMetadata(w)
  \/ \E r \in job.requests : Answered(r[1], r[2]) \/ NotAnswered(r[1], r[2])
  \/ FirstAttemptEnds \/ SecondAttemptEnds \/ MissingCids \/ ApplyBlock \/ NextBlock
Next ==
  /\ UNCHANGED walkVars
  /\ \/ Fetch /\ UNCHANGED nodeVars
     \/ \E e \in AllEndpoints, c \in DOMAIN Content :
          Replicate(e, c) /\ UNCHANGED <<registry, known, users, peers>>
     \/ job.step \in {"idle", "failed"} /\ PeersChange /\ UNCHANGED cidVars

Spec == Init /\ [][Next]_vars

TypeOK ==
  /\ NodesTypeOK
  /\ block \in Blocks
  /\ job.requests \subseteq Cids \X AllEndpoints
  /\ job.fetched \cup job.new \cup heard \subseteq Cids
  /\ DOMAIN cid_data \subseteq DOMAIN Content
  /\ fetches \in 0..MaxFetches

(* A block is applied with the metadata of every file its entities name,   *)
(* read as one of the types it is named with, and a fetch fails only if    *)
(* some file was not obtained in it, or is of no type: the tests of        *)
(* fetch_cid_metadata compare numbers, of files, of files with types and   *)
(* of pairs with transactions.                                             *)
NamedTypes(c) == {block.txs[i].type : i \in {j \in Typed : block.txs[j].cid = c}}
AppliedWithFiles == applied # <<>> =>
  /\ DOMAIN applied[1] = {block.txs[i].cid : i \in Typed}
  /\ \A c \in DOMAIN applied[1] :
       /\ applied[1][c].type \in NamedTypes(c) /\ applied[1][c].data # {}
       /\ applied[1][c].data = Content[c] \cap Format[applied[1][c].type]
FailsForCause == job.step = "failed" =>
  \/ \E i \in Typed : block.txs[i].cid \notin heard
  \/ Cids # DOMAIN CidType
(* A row of cid_data holds what its file says, for its type.               *)
RowsHold == \A c \in DOMAIN cid_data :
  cid_data[c].data = Content[c] \cap Format[cid_data[c].type] /\ cid_data[c].data # {}
==============================================================================
